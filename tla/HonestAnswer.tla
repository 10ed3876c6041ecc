---------------------------- MODULE HonestAnswer ----------------------------
(***************************************************************************)
(* What a user of kbdiag may rely on when all that is kept of a run is its *)
(* exit code (README, Exit codes; PRD 5): the program looks at an instance *)
(* whose troubles come and go, and gives one answer.                       *)
(***************************************************************************)
CONSTANTS
  Findings,   \* what the command can report, each with its level
  NoAnswer

VARIABLES
  answer,     \* NoAnswer until the program has exited
  lasting,    \* the findings that have been true since the run began
  appeared,   \* the findings that have shown at some time
  blinded     \* something the answer depends on could not be seen

vars == <<answer, lasting, appeared, blinded>>

Init ==
  /\ answer = NoAnswer
  /\ lasting \subseteq Findings
  /\ appeared \subseteq Findings
  /\ blinded = FALSE

\* The instance goes on living, the program goes on looking.
Live ==
  /\ answer = NoAnswer
  /\ lasting' \subseteq lasting
  /\ appeared \subseteq appeared'
  /\ blinded' \in BOOLEAN
  /\ UNCHANGED answer

Honest(code) ==
  \/ code = 0 /\ lasting' = {} /\ ~blinded'
  \/ /\ code = 1
     /\ \E f \in appeared' : f.level = "WARN"
     /\ (\E f \in lasting' : f.level = "FAIL") => blinded'
  \/ code = 2 /\ \E f \in appeared' : f.level = "FAIL"
  \/ code = 3 /\ blinded'
  \/ code \in {64, 69} /\ blinded'

Answer ==
  /\ answer = NoAnswer
  /\ Honest(answer')
  /\ lasting' \subseteq lasting
  /\ appeared \subseteq appeared'
  /\ blinded' \in BOOLEAN

Next == Live \/ Answer

Spec == Init /\ [][Next]_vars
=============================================================================
