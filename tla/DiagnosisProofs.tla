-------------------------- MODULE DiagnosisProofs --------------------------
(***************************************************************************)
(* For every table of commands that satisfies TableAssumption, every set   *)
(* of probes and every number of changes of the instance: the runs of      *)
(* Diagnosis are well typed, their exit codes are honest, and Diagnosis    *)
(* implements HonestAnswer. And for every --timeout of every width, that   *)
(* statement_timeout is what was asked for, rounded up.                     *)
(***************************************************************************)
EXTENDS Diagnosis, TLAPS

USE DEF run, instance, vars

-----------------------------------------------------------------------------
(* Types *)

SawType(c) == [status : Statuses \cup {"none"}, marks : SUBSET MarksOf(c), hidden : BOOLEAN]

LEMMA ClassifyType == \A err \in QueryErrors : Classify(err) \in Statuses
BY DEF QueryErrors, Classify, Statuses

LEMMA VerdictType == \A L, u : VerdictOf(L, u) \in Verdicts
BY DEF VerdictOf, Verdicts

LEMMA ExitCodeValues ==
  /\ ExitCode("OK") = 0
  /\ ExitCode("WARN") = 1
  /\ ExitCode("FAIL") = 2
  /\ ExitCode("UNKNOWN") = 3
BY DEF ExitCode

LEMMA ExitCodeType == \A v \in Verdicts : ExitCode(v) \in ExitCodes
BY ExitCodeValues DEF Verdicts, ExitCodes

\* The probe about to be run is one of the probes.
LEMMA PlanType ==
  ASSUME cmd \in Commands, pos \in Nat \ {0}, pos <= Len(Given.plan)
  PROVE  Given.plan[pos] \in Probes
<1>1. Table[cmd].plan \in Seq(Probes)
  BY TableAssumption
<1> QED BY <1>1 DEF Given

\* Recording a well-typed row keeps saw and pos well typed.
LEMMA RecordType ==
  ASSUME TypeOK, NEW p \in Probes, NEW st \in Statuses,
         NEW marks \in SUBSET MarksOf(cmd), NEW hid \in BOOLEAN,
         Record(p, st, marks, hid)
  PROVE  saw' \in [Probes -> SawType(cmd)] /\ pos' \in Nat \ {0}
BY DEF TypeOK, Record, SawType

\* What a probe can record, whichever way it ends.
LEMMA CollectRecords ==
  ASSUME TypeOK, NEW p \in Probes,
         GatedOff(p) \/ Rows(p) \/ Fails(p) \/ Stat(p)
  PROVE  /\ link' \in {"closed", "up", "broken"}
         /\ \E st \in Statuses, marks \in SUBSET MarksAt(p), hid \in BOOLEAN :
              /\ Record(p, st, marks, hid)
              /\ st = "ok" /\ ~hid => marks = MarksAt(p)
              /\ st = "not_applicable" => role \notin Gate[p] \/ p \in Disks
<1> DEFINE Leaves(st, marks, hid) ==
             /\ Record(p, st, marks, hid)
             /\ st = "ok" /\ ~hid => marks = MarksAt(p)
             /\ st = "not_applicable" => role \notin Gate[p] \/ p \in Disks
           Goal == \E st \in Statuses, marks \in SUBSET MarksAt(p), hid \in BOOLEAN :
                     Leaves(st, marks, hid)
<1>1. CASE GatedOff(p)
  <2>1. Leaves("not_applicable", {}, FALSE)
    BY <1>1 DEF GatedOff
  <2>2. Goal
    BY <2>1 DEF Statuses
  <2> QED BY <2>2, <1>1 DEF GatedOff, TypeOK
<1>2. CASE Rows(p)
  <2>1. PICK hid \in BOOLEAN, marks \in SUBSET MarksAt(p) :
          (~hid => marks = MarksAt(p)) /\ Record(p, "ok", marks, hid)
    BY <1>2 DEF Rows
  <2>2. Leaves("ok", marks, hid)
    BY <2>1
  <2>3. Goal
    BY <2>2 DEF Statuses
  <2> QED BY <2>3, <1>2 DEF Rows, TypeOK
<1>3. CASE Fails(p)
  <2>1. PICK err \in QueryErrors : Record(p, Classify(err), {}, FALSE)
    BY <1>3 DEF Fails, QueryErrors
  <2>2. Classify(err) \in {"skipped", "error"}
    BY DEF Classify
  <2>3. Leaves(Classify(err), {}, FALSE)
    BY <2>1, <2>2
  <2>4. Goal
    BY <2>3, <2>2 DEF Statuses
  <2> QED BY <2>4, <1>3 DEF Fails, TypeOK
<1>4. CASE Stat(p)
  <2>1. p \in Disks /\ link' = link
    BY <1>4 DEF Stat
  <2>2. \E st \in Statuses, marks \in {{}, MarksAt(p)} :
          Record(p, st, marks, FALSE) /\ (st = "ok" => marks = MarksAt(p))
    BY <1>4 DEF Stat, Statuses
  <2>3. Goal
    BY <2>1, <2>2
  <2> QED BY <2>1, <2>3 DEF TypeOK
<1> QED BY <1>1, <1>2, <1>3, <1>4

LEMMA TypeInit == Init => TypeOK
<1> SUFFICES ASSUME Init PROVE TypeOK
  OBVIOUS
<1>1. NotRead \in SawType(cmd)
  BY DEF NotRead, SawType
<1> QED BY <1>1 DEF Init, TypeOK, Phases, SawType

LEMMA TypeNext == TypeOK /\ [Next]_vars => TypeOK'
<1> SUFFICES ASSUME TypeOK, [Next]_vars PROVE TypeOK'
  OBVIOUS
<1>1. CASE CheckFlags
  BY <1>1 DEF CheckFlags, TypeOK, Exit, Phases, ExitCodes
<1>2. CASE Open
  BY <1>2 DEF Open, TypeOK, Exit, Phases, ExitCodes
<1>3. CASE Identify
  <2>1. ExitCode("UNKNOWN") \in ExitCodes
    BY ExitCodeType DEF Verdicts
  <2> QED BY <1>3, <2>1 DEF Identify, TypeOK, Exit, Phases
<1>4. CASE Collect
  <2> DEFINE p == Given.plan[pos]
  <2>1. p \in Probes
    BY <1>4, PlanType DEF Collect, TypeOK
  <2>2. GatedOff(p) \/ Rows(p) \/ Fails(p) \/ Stat(p)
    BY <1>4 DEF Collect
  <2>3. MarksAt(p) \subseteq MarksOf(cmd)
    BY DEF MarksAt, TypeOK
  <2> HIDE DEF p
  <2>4. /\ link' \in {"closed", "up", "broken"}
        /\ \E st \in Statuses, marks \in SUBSET MarksAt(p), hid \in BOOLEAN :
             Record(p, st, marks, hid)
    BY <2>1, <2>2, CollectRecords
  <2>5. PICK st \in Statuses, marks \in SUBSET MarksAt(p), hid \in BOOLEAN :
          Record(p, st, marks, hid)
    BY <2>4
  <2>6. saw' \in [Probes -> SawType(cmd)] /\ pos' \in Nat \ {0}
    BY <2>1, <2>3, <2>5, RecordType
  <2> QED BY <1>4, <2>4, <2>6 DEF Collect, TypeOK, SawType
<1>5. CASE Judge
  BY <1>5, VerdictType DEF Judge, TypeOK, Phases
<1>6. CASE Render
  <2>1. ExitCode(verdict) \in ExitCodes /\ ExitCode("UNKNOWN") \in ExitCodes
    BY ExitCodeValues DEF ExitCode, ExitCodes
  <2> QED BY <1>6, <2>1 DEF Render, TypeOK, Exit, Phases
<1>7. CASE Flip
  BY <1>7 DEF Flip, TypeOK
<1>8. CASE UNCHANGED vars
  BY <1>8 DEF TypeOK, MarksOf
<1> QED BY <1>1, <1>2, <1>3, <1>4, <1>5, <1>6, <1>7, <1>8 DEF Next, Step

\* Every state of a run is well typed, whatever the table of commands.
THEOREM TypeCorrect == Spec => []TypeOK
BY TypeInit, TypeNext, PTL DEF Spec

-----------------------------------------------------------------------------
(* The inductive invariant *)

\* How far the run is tells what it has: the role from Identify on, a verdict
\* from Judge on, an exit code at the end; before the first probe, nothing.
Order ==
  /\ phase \in {"collect", "render"} \/ verdict # "none" => role \in Roles
  /\ phase \in {"flags", "open", "identify", "collect"} => verdict = "none"
  /\ phase = "render" => verdict # "none"
  /\ phase = "exited" <=> exit # NoExit
  /\ phase \in {"flags", "open", "identify"} =>
       role = "none" /\ saw = [p \in Probes |-> NotRead]

\* What was read without anything hidden shows all that has lasted; what was
\* not applicable was gated off, or is a disk.
Shows ==
  \A p \in Probes :
    /\ saw[p].status = "ok" /\ ~saw[p].hidden => {m \in held : m[1] = p} \subseteq saw[p].marks
    /\ saw[p].status = "not_applicable" => role \notin Gate[p] \/ p \in Disks

\* What was read had been there.
Saw == \A p \in Probes : saw[p].marks \subseteq touched

\* The verdict is the judgement of what was read, and the exit code says it.
Verdicted ==
  /\ verdict # "none" => verdict = VerdictOf(Found, Unknown)
  /\ phase = "exited" =>
       \/ verdict = "none" /\ exit \in {3, ExitUsage, ExitUnavailable}
       \/ verdict # "none" /\ exit \in {ExitCode(verdict), 3}

IInv == TypeOK /\ Order /\ Shows /\ Saw /\ Verdicted

LEMMA InvInit == Init => IInv
<1> SUFFICES ASSUME Init PROVE IInv
  OBVIOUS
<1>1. TypeOK
  BY TypeInit
<1>2. Order
  BY DEF Init, Order
<1>3. Shows /\ Saw
  BY DEF Init, Shows, Saw, NotRead
<1>4. Verdicted
  BY DEF Init, Verdicted
<1> QED BY <1>1, <1>2, <1>3, <1>4 DEF IInv

\* A step that leaves the command, the role and the rows alone leaves the
\* judgement alone.
LEMMA SameJudgement ==
  ASSUME UNCHANGED <<cmd, role, saw>>
  PROVE  Found' = Found /\ Unknown' = Unknown
<1>1. \A f : Raised(f)' = Raised(f)
  BY DEF Raised, Seen
<1>2. ReadBy' = ReadBy
  BY DEF ReadBy, Seen
<1>3. \A p : Blind(p)' = Blind(p)
  BY DEF Blind
<1> QED BY <1>1, <1>2, <1>3 DEF Found, Unknown

\* A read of probe p keeps Shows and Saw: its rows are those of now, and what
\* has lasted or holds now is among what has been there.
LEMMA RecordShows ==
  ASSUME TypeOK, Shows, Saw, UNCHANGED <<cmd, role, held, touched>>,
         NEW p \in Probes, NEW st \in Statuses,
         NEW marks \in SUBSET MarksAt(p), NEW hid \in BOOLEAN,
         Record(p, st, marks, hid),
         st = "ok" /\ ~hid => marks = MarksAt(p),
         st = "not_applicable" => role \notin Gate[p] \/ p \in Disks
  PROVE  Shows' /\ Saw'
<1>1. {m \in held : m[1] = p} \subseteq MarksAt(p) /\ marks \subseteq touched
  BY DEF TypeOK, MarksAt
<1>2. saw' = [saw EXCEPT ![p] = [status |-> st, marks |-> marks, hidden |-> hid]]
  BY DEF Record
<1>3. saw'[p] = [status |-> st, marks |-> marks, hidden |-> hid]
  BY <1>2 DEF TypeOK
<1>4. \A q \in Probes \ {p} : saw'[q] = saw[q]
  BY <1>2 DEF TypeOK
<1>5. Saw'
  BY <1>1, <1>3, <1>4 DEF Saw
<1>6. Shows'
  <2> SUFFICES ASSUME NEW q \in Probes
               PROVE  /\ saw'[q].status = "ok" /\ ~saw'[q].hidden
                           => {m \in held : m[1] = q} \subseteq saw'[q].marks
                      /\ saw'[q].status = "not_applicable" => role \notin Gate[q] \/ q \in Disks
    BY DEF Shows
  <2>1. CASE q = p
    BY <2>1, <1>1, <1>3
  <2>2. CASE q # p
    BY <2>2, <1>4 DEF Shows
  <2> QED BY <2>1, <2>2
<1> QED BY <1>5, <1>6

LEMMA InvNext == IInv /\ [Next]_vars => IInv'
<1> SUFFICES ASSUME IInv, [Next]_vars PROVE IInv'
  OBVIOUS
<1> USE DEF IInv
<1>t. TypeOK'
  BY TypeNext
<1>1. CASE CheckFlags
  <2>1. Order'
    BY <1>1 DEF CheckFlags, Order, Exit, NoExit, ExitUsage
  <2>2. Shows' /\ Saw'
    BY <1>1 DEF CheckFlags, Shows, Saw
  <2>3. Verdicted'
    BY <1>1 DEF CheckFlags, Order, Verdicted, Exit
  <2> QED BY <1>t, <2>1, <2>2, <2>3
<1>2. CASE Open
  <2>1. Order'
    BY <1>2 DEF Open, Order, Exit, NoExit, ExitUnavailable
  <2>2. Shows' /\ Saw'
    BY <1>2 DEF Open, Shows, Saw
  <2>3. Verdicted'
    BY <1>2 DEF Open, Order, Verdicted, Exit
  <2> QED BY <1>t, <2>1, <2>2, <2>3
<1>3. CASE Identify
  <2>1. Order'
    BY <1>3, ExitCodeValues DEF Identify, Order, Exit, NoExit
  <2>2. Saw'
    BY <1>3 DEF Identify, Saw
  <2>3. Shows'
    <3>1. saw' = [p \in Probes |-> NotRead]
      BY <1>3 DEF Identify, Order
    <3> QED BY <3>1 DEF Shows, NotRead
  <2>4. Verdicted'
    BY <1>3, ExitCodeValues DEF Identify, Order, Verdicted, Exit
  <2> QED BY <1>t, <2>1, <2>2, <2>3, <2>4
<1>4. CASE Collect
  <2>1. Order'
    BY <1>4 DEF Collect, Order
  <2>2. Shows' /\ Saw'
    <3> DEFINE p == Given.plan[pos]
    <3>1. p \in Probes
      BY <1>4, PlanType DEF Collect, TypeOK
    <3>2. GatedOff(p) \/ Rows(p) \/ Fails(p) \/ Stat(p)
      BY <1>4 DEF Collect
    <3> HIDE DEF p
    <3>3. PICK st \in Statuses, marks \in SUBSET MarksAt(p), hid \in BOOLEAN :
            /\ Record(p, st, marks, hid)
            /\ st = "ok" /\ ~hid => marks = MarksAt(p)
            /\ st = "not_applicable" => role \notin Gate[p] \/ p \in Disks
      BY <3>1, <3>2, CollectRecords
    <3>4. UNCHANGED <<cmd, role, held, touched>>
      BY <1>4 DEF Collect
    <3> QED BY <3>1, <3>3, <3>4, RecordShows
  <2>3. Verdicted'
    BY <1>4 DEF Collect, Order, Verdicted
  <2> QED BY <1>t, <2>1, <2>2, <2>3
<1>5. CASE Judge
  <2>1. Order'
    BY <1>5, VerdictType DEF Judge, Order, Verdicts
  <2>2. Shows' /\ Saw'
    BY <1>5 DEF Judge, Shows, Saw
  <2>3. Verdicted'
    <3>1. Found' = Found /\ Unknown' = Unknown
      BY <1>5, SameJudgement DEF Judge
    <3> QED BY <1>5, <3>1 DEF Judge, Verdicted
  <2> QED BY <1>t, <2>1, <2>2, <2>3
<1>6. CASE Render
  <2>1. ExitCode(verdict) # NoExit /\ ExitCode("UNKNOWN") = 3 /\ 3 # NoExit
    BY ExitCodeValues DEF ExitCode, NoExit
  <2>2. Order'
    BY <1>6, <2>1 DEF Render, Order, Exit
  <2>3. Shows' /\ Saw'
    BY <1>6 DEF Render, Shows, Saw
  <2>4. Verdicted'
    <3>1. Found' = Found /\ Unknown' = Unknown
      BY <1>6, SameJudgement DEF Render
    <3> QED BY <1>6, <2>1, <3>1 DEF Render, Order, Verdicted, Exit
  <2> QED BY <1>t, <2>2, <2>3, <2>4
<1>7. CASE Flip
  <2>1. Order'
    BY <1>7 DEF Flip, Order
  <2>2. Shows' /\ Saw'
    BY <1>7 DEF Flip, Shows, Saw
  <2>3. Verdicted'
    BY <1>7 DEF Flip, Order, Verdicted
  <2> QED BY <1>t, <2>1, <2>2, <2>3
<1>8. CASE UNCHANGED vars
  <2>1. Order' /\ Shows' /\ Saw'
    BY <1>8 DEF Order, Shows, Saw
  <2>2. Found' = Found /\ Unknown' = Unknown
    BY <1>8, SameJudgement
  <2> QED BY <1>8, <1>t, <2>1, <2>2 DEF Verdicted
<1> QED BY <1>1, <1>2, <1>3, <1>4, <1>5, <1>6, <1>7, <1>8 DEF Next, Step

LEMMA Invariant == Spec => []IInv
BY InvInit, InvNext, PTL DEF Spec

-----------------------------------------------------------------------------
(* What the exit code says of the instance *)

\* A mark that has lasted was seen, where its probe applies and was no blind spot.
LEMMA HeldIsSeen ==
  ASSUME IInv, verdict # "none", NEW m \in held, m[1] \in Probes,
         role \in Gate[m[1]], ~Blind(m[1]),
         m[1] \in Disks => m[1] \in Given.blindNA
  PROVE  Seen(m)
<1> DEFINE p == m[1]
<1>1. saw[p].status # "not_applicable"
  BY DEF IInv, Shows, Blind, Given
<1>2. saw[p].status = "ok" /\ ~saw[p].hidden
  BY <1>1 DEF IInv, TypeOK, Blind, BlindSpot, Statuses
<1> QED BY <1>2 DEF IInv, Shows, Seen

\* The probes of a plan are probes.
LEMMA PlanProbes ==
  ASSUME NEW c \in Commands, NEW p \in InPlan(c)
  PROVE  p \in Probes
<1>1. Table[c].plan \in Seq(Probes)
  BY TableAssumption
<1> QED BY <1>1 DEF InPlan

\* Once the run is judged and nothing it reads was blind, every finding that
\* has lasted is raised.
LEMMA LastingRaised ==
  ASSUME IInv, verdict # "none", ~Unknown, NEW f \in Lasting
  PROVE  Raised(f)
<1>1. /\ cmd \in Commands
      /\ role \in Roles
      /\ f \in Table[cmd].findings
      /\ role \in f.roles
      /\ f.marks \subseteq held
  BY DEF IInv, TypeOK, Order, Lasting
<1>2. /\ \A p \in f.with : p \in Table[cmd].needs[role] \cap InPlan(cmd)
                          /\ p \notin Disks /\ role \in Gate[p]
      /\ \A m \in f.marks :
           /\ m[1] \in InPlan(cmd)
           /\ role \in Gate[m[1]]
           /\ m[1] \in Disks => m[1] \in Table[cmd].blindNA
           /\ \/ m[1] \in Table[cmd].needs[role]
              \/ \E n \in f.marks :
                   n[1] \in Table[cmd].needs[role] /\ <<n, m[1]>> \in Table[cmd].asks
  BY <1>1, TableAssumption
<1>3. \A p \in ReadBy : ~Blind(p)
  BY DEF Unknown
<1>4. \A m \in f.marks : m[1] \in ReadBy => Seen(m)
  <2> SUFFICES ASSUME NEW m \in f.marks, m[1] \in ReadBy PROVE Seen(m)
    OBVIOUS
  <2>1. m[1] \in Probes
    BY <1>1, <1>2, PlanProbes
  <2> QED BY <1>1, <1>2, <1>3, <2>1, HeldIsSeen DEF Given
<1>5. \A m \in f.marks : m[1] \in Table[cmd].needs[role] => Seen(m)
  BY <1>4 DEF ReadBy
<1>6. \A m \in f.marks : Seen(m)
  <2> SUFFICES ASSUME NEW m \in f.marks PROVE Seen(m)
    OBVIOUS
  <2>1. CASE m[1] \in Table[cmd].needs[role]
    BY <2>1, <1>5
  <2>2. CASE m[1] \notin Table[cmd].needs[role]
    <3>1. PICK n \in f.marks :
            n[1] \in Table[cmd].needs[role] /\ <<n, m[1]>> \in Table[cmd].asks
      BY <1>2, <2>2
    <3>2. Seen(n)
      BY <1>5, <3>1
    <3>3. m[1] \in ReadBy
      <4> DEFINE a == <<n, m[1]>>
      <4>1. a \in {b \in Table[cmd].asks : Seen(b[1])}
        BY <3>1, <3>2
      <4>2. m[1] = a[2]
        OBVIOUS
      <4> QED BY <4>1, <4>2 DEF ReadBy
    <3> QED BY <1>4, <3>3
  <2> QED BY <2>1, <2>2
<1>7. \A p \in f.with : Judgeable(saw[p].status)
  <2> SUFFICES ASSUME NEW p \in f.with PROVE saw[p].status = "ok"
    BY DEF Judgeable
  <2>1. p \in Probes /\ ~Blind(p)
    BY <1>1, <1>2, <1>3, PlanProbes DEF ReadBy
  <2>2. saw[p].status # "not_applicable"
    BY <1>2, <2>1 DEF IInv, Shows
  <2> QED BY <2>1, <2>2 DEF Blind, BlindSpot
<1> QED BY <1>1, <1>6, <1>7 DEF Raised

\* A finding that is raised has appeared.
LEMMA RaisedAppeared ==
  ASSUME IInv, NEW f \in Table[cmd].findings, Raised(f)
  PROVE  f \in Appeared
<1>1. cmd \in Commands /\ role \in f.roles
  BY DEF IInv, TypeOK, Raised
<1>2. \A m \in f.marks : m[1] \in Probes
  BY <1>1, TableAssumption, PlanProbes
<1>3. \A m \in f.marks : m \in touched
  BY <1>2 DEF Raised, Seen, IInv, Saw
<1> QED BY <1>3 DEF Appeared

-----------------------------------------------------------------------------
(* Honest answers *)

\* The levels found are levels, and each is that of a finding that appeared.
LEMMA FoundLevels ==
  ASSUME IInv
  PROVE  /\ Found \subseteq Levels
         /\ \A l \in Found : \E f \in Appeared : f.level = l
<1> SUFFICES ASSUME NEW l \in Found
             PROVE  l \in Levels /\ \E f \in Appeared : f.level = l
  OBVIOUS
<1>1. PICK f \in Table[cmd].findings : Raised(f) /\ f.level = l
  BY DEF Found
<1>2. f.level \in Levels
  BY TableAssumption DEF IInv, TypeOK
<1> QED BY <1>1, <1>2, RaisedAppeared

\* The verdict read backwards.
LEMMA VerdictMeans ==
  ASSUME NEW L \in SUBSET Levels, NEW u \in BOOLEAN
  PROVE  /\ VerdictOf(L, u) = "OK" => L = {} /\ ~u
         /\ VerdictOf(L, u) = "WARN" => "WARN" \in L /\ "FAIL" \notin L
         /\ VerdictOf(L, u) = "FAIL" => "FAIL" \in L
         /\ VerdictOf(L, u) = "UNKNOWN" => u
BY DEF VerdictOf, Levels

\* An exit code is honest about what lasted and what appeared.
HonestNow ==
  \/ exit = 0 /\ Lasting = {} /\ ~Blinded
  \/ /\ exit = 1
     /\ \E f \in Appeared : f.level = "WARN"
     /\ (\E f \in Lasting : f.level = "FAIL") => Blinded
  \/ exit = 2 /\ \E f \in Appeared : f.level = "FAIL"
  \/ exit = 3 /\ Blinded
  \/ exit \in {64, 69} /\ Blinded

LEMMA ExitHonest == IInv /\ phase = "exited" => HonestNow
<1> SUFFICES ASSUME IInv, phase = "exited" PROVE HonestNow
  OBVIOUS
<1>1. CASE verdict = "none"
  BY <1>1 DEF IInv, Verdicted, Blinded, HonestNow, ExitUsage, ExitUnavailable
<1>2. CASE verdict # "none" /\ exit # ExitCode(verdict)
  BY <1>2 DEF IInv, Verdicted, Blinded, HonestNow
<1>3. CASE verdict # "none" /\ exit = ExitCode(verdict)
  <2>1. verdict = VerdictOf(Found, Unknown) /\ Unknown \in BOOLEAN
    BY <1>3 DEF IInv, Verdicted, Unknown
  <2>2. /\ verdict = "OK" => Found = {} /\ ~Unknown
        /\ verdict = "WARN" => "WARN" \in Found /\ "FAIL" \notin Found
        /\ verdict = "FAIL" => "FAIL" \in Found
        /\ verdict = "UNKNOWN" => Unknown
    BY <2>1, FoundLevels, VerdictMeans
  <2>3. Blinded <=> Unknown
    BY <1>3 DEF Blinded
  <2>4. ~Unknown => \A f \in Lasting : f.level \in Found
    BY <1>3, LastingRaised DEF Found, Lasting
  <2>5. CASE verdict = "OK"
    <3>1. exit = 0
      BY <1>3, <2>5, ExitCodeValues
    <3> QED BY <2>2, <2>3, <2>4, <2>5, <3>1 DEF HonestNow
  <2>6. CASE verdict = "WARN"
    <3>1. exit = 1
      BY <1>3, <2>6, ExitCodeValues
    <3> QED BY <2>2, <2>3, <2>4, <2>6, <3>1, FoundLevels DEF HonestNow
  <2>7. CASE verdict = "FAIL"
    <3>1. exit = 2
      BY <1>3, <2>7, ExitCodeValues
    <3> QED BY <2>2, <2>7, <3>1, FoundLevels DEF HonestNow
  <2>8. CASE verdict = "UNKNOWN"
    <3>1. exit = 3
      BY <1>3, <2>8, ExitCodeValues
    <3> QED BY <2>2, <2>3, <2>8, <3>1 DEF HonestNow
  <2> QED BY <1>3, <2>5, <2>6, <2>7, <2>8 DEF IInv, TypeOK, Verdicts
<1> QED BY <1>1, <1>2, <1>3

\* The properties of the exit code, in every state.
LEMMA InvHonest == IInv => EarnedOK /\ RealAlarm
<1> SUFFICES ASSUME IInv PROVE EarnedOK /\ RealAlarm
  OBVIOUS
<1>1. CASE phase = "exited"
  BY <1>1, ExitHonest DEF HonestNow, EarnedOK, RealAlarm
<1>2. CASE phase # "exited"
  BY <1>2 DEF IInv, Order, NoExit, EarnedOK, RealAlarm
<1> QED BY <1>1, <1>2

\* Exit 0 is earned (main, collected, verdictOf and every rule): for every
\* table of commands whose rules read what their findings rest on.
THEOREM ExitOKEarned == Spec => []EarnedOK
BY Invariant, InvHonest, PTL

\* Exit 1 and 2 are real alarms (the findings, Merge, verdictOf, ExitCode).
THEOREM AlarmsReal == Spec => []RealAlarm
BY Invariant, InvHonest, PTL

-----------------------------------------------------------------------------
(* Diagnosis implements HonestAnswer *)

\* What has lasted only shrinks, what has appeared only grows.
LEMMA Ages ==
  ASSUME IInv, Next
  PROVE  Lasting' \subseteq Lasting /\ Appeared \subseteq Appeared'
<1>1. cmd' = cmd /\ (role \in Roles => role' = role)
  <2>1. CASE Identify
    BY <2>1 DEF Identify, IInv, Order, Roles
  <2>2. CASE CheckFlags \/ Open \/ Collect \/ Judge \/ Render \/ Flip
    BY <2>2 DEF CheckFlags, Open, Collect, Judge, Render, Flip
  <2> QED BY <2>1, <2>2 DEF Next, Step
<1>2. held' \subseteq held /\ touched \subseteq touched'
  BY DEF Next, Step, CheckFlags, Open, Identify, Collect, Judge, Render, Flip
<1> QED BY <1>1, <1>2 DEF Lasting, Appeared

\* The history and the exit code say the same of equal states.
LEMMA SameHistory ==
  ASSUME UNCHANGED vars
  PROVE  UNCHANGED <<exit, Lasting, Appeared, Blinded>>
<1>1. Unknown' = Unknown
  BY SameJudgement
<1> QED BY <1>1 DEF Lasting, Appeared, Blinded

LEMMA RefineInit == Init => Promise!Init
<1> SUFFICES ASSUME Init PROVE Promise!Init
  OBVIOUS
<1>1. Lasting \subseteq UNION {Table[c].findings : c \in Commands}
      /\ Appeared \subseteq UNION {Table[c].findings : c \in Commands}
  BY DEF Init, Lasting, Appeared
<1>2. Blinded = FALSE
  BY DEF Init, Blinded
<1> QED BY <1>1, <1>2 DEF Init, Promise!Init

LEMMA RefineNext ==
  IInv /\ IInv' /\ [Next]_vars => [Promise!Next]_Promise!vars
<1> SUFFICES ASSUME IInv, IInv', [Next]_vars PROVE [Promise!Next]_Promise!vars
  OBVIOUS
<1>h. phase' = "exited" => HonestNow'
  <2>1. (IInv /\ phase = "exited" => HonestNow)'
    BY ExitHonest, PTL
  <2> QED BY <2>1
<1>1. CASE UNCHANGED vars
  BY <1>1, SameHistory DEF Promise!vars
<1>2. CASE Next
  <2>1. phase # "exited" /\ exit = NoExit
    BY <1>2 DEF Next, Step, CheckFlags, Open, Identify, Collect, Judge, Render, Flip,
                IInv, Order
  <2>2. Lasting' \subseteq Lasting /\ Appeared \subseteq Appeared'
    BY <1>2, Ages
  <2>3. Blinded' \in BOOLEAN
    BY DEF Blinded
  <2>4. CASE phase' # "exited"
    <3>1. exit' = exit
      BY <2>1, <2>4 DEF IInv, Order
    <3> QED BY <2>1, <2>2, <2>3, <3>1 DEF Promise!Next, Promise!Live
  <2>5. CASE phase' = "exited"
    <3>1. Promise!Honest(exit')
      BY <1>h, <2>5 DEF HonestNow, Promise!Honest
    <3> QED BY <2>1, <2>2, <2>3, <3>1 DEF Promise!Next, Promise!Answer
  <2> QED BY <2>4, <2>5
<1> QED BY <1>1, <1>2

\* The exit code of a run, in every command and whatever the instance does,
\* is given once and is as honest as HonestAnswer asks (main, verdictOf,
\* collected, ExitCode).
THEOREM Honest == Spec => Answers
BY Invariant, RefineInit, RefineNext, PTL DEF Spec, Answers, Promise!Spec

-----------------------------------------------------------------------------
(* What exit 0 says of the probes *)

\* For a command whose rule reads every probe it collects, but some that the
\* documents let pass: exit 0 says that each of the others had its rows, with
\* none hidden, or did not apply in that role (collected, verdictOf). The run
\* `uncollected` is about the commands whose rule reads less.
THEOREM OKWhenAllRead ==
  ASSUME NEW c \in Commands, NEW passed,
         \A r \in Roles : InPlan(c) \ passed \subseteq Table[c].needs[r]
  PROVE  Spec => [](cmd = c /\ exit = 0 => \A p \in InPlan(c) \ passed :
                      \/ saw[p].status = "ok" /\ ~saw[p].hidden
                      \/ saw[p].status = "not_applicable" /\ (role \notin Gate[p] \/ p \in Disks))
<1> DEFINE Collected == \A p \in InPlan(c) \ passed :
             \/ saw[p].status = "ok" /\ ~saw[p].hidden
             \/ saw[p].status = "not_applicable" /\ (role \notin Gate[p] \/ p \in Disks)
<1>1. IInv => (cmd = c /\ exit = 0 => Collected)
  <2> SUFFICES ASSUME IInv, cmd = c, exit = 0, NEW p \in InPlan(c) \ passed
               PROVE  \/ saw[p].status = "ok" /\ ~saw[p].hidden
                      \/ /\ saw[p].status = "not_applicable"
                         /\ role \notin Gate[p] \/ p \in Disks
    OBVIOUS
  <2>1. ~Blinded /\ phase = "exited"
    BY ExitHonest DEF IInv, Order, NoExit, HonestNow
  <2>2. verdict # "none" /\ ~Unknown
    BY <2>1 DEF Blinded
  <2>3. role \in Roles /\ p \in Probes
    BY <2>2, PlanProbes DEF IInv, Order
  <2>4. p \in ReadBy
    BY <2>3 DEF ReadBy
  <2>5. ~Blind(p)
    BY <2>2, <2>4 DEF Unknown
  <2>6. saw[p].status \in {"ok", "not_applicable"} /\ ~saw[p].hidden
    BY <2>5 DEF Blind, BlindSpot
  <2> QED BY <2>3, <2>6 DEF IInv, Shows
<1> QED BY <1>1, Invariant, PTL

-----------------------------------------------------------------------------
(* Every step brings the end nearer *)

\* The next probe is in the plan, or the plan is through.
InThePlan == phase = "collect" => pos <= Len(Given.plan) + 1

LEMMA Lengths == ASSUME TypeOK PROVE Len(Given.plan) \in Nat
<1>1. Table[cmd].plan \in Seq(Probes)
  BY TableAssumption DEF TypeOK
<1> QED BY <1>1 DEF Given

LEMMA CollectAdvances ==
  ASSUME TypeOK, Collect
  PROVE  pos <= Len(Given.plan) /\ pos' = pos + 1 /\ UNCHANGED <<cmd, phase>>
<1> DEFINE p == Given.plan[pos]
<1>1. p \in Probes
  BY PlanType DEF Collect, TypeOK
<1>2. GatedOff(p) \/ Rows(p) \/ Fails(p) \/ Stat(p)
  BY DEF Collect
<1> HIDE DEF p
<1>3. pos' = pos + 1
  BY <1>1, <1>2, CollectRecords DEF Record
<1> QED BY <1>3 DEF Collect

LEMMA PlanInit == Init => InThePlan
BY DEF Init, InThePlan

\* Before the first probe, the first is the next.
AtFirst == phase \in {"flags", "open", "identify"} => pos = 1

LEMMA PlanNext ==
  ASSUME TypeOK, AtFirst, InThePlan, [Next]_vars
  PROVE  AtFirst' /\ InThePlan'
<1>l. Len(Given.plan) \in Nat /\ pos \in Nat \ {0}
  BY Lengths DEF TypeOK
<1>1. CASE CheckFlags \/ Open \/ Identify
  <2>1. /\ pos' = pos /\ cmd' = cmd /\ pos = 1
        /\ phase' \in {"open", "identify", "collect", "exited"}
    BY <1>1 DEF CheckFlags, Open, Identify, AtFirst, Exit
  <2> QED BY <1>l, <2>1 DEF AtFirst, InThePlan, Given
<1>2. CASE Collect
  <2>1. pos <= Len(Given.plan) /\ pos' = pos + 1 /\ cmd' = cmd /\ phase' = phase
    BY <1>2, CollectAdvances
  <2>2. phase = "collect"
    BY <1>2 DEF Collect
  <2> QED BY <1>l, <2>1, <2>2 DEF AtFirst, InThePlan, Given
<1>3. CASE Judge \/ Render
  BY <1>3 DEF Judge, Render, Exit, AtFirst, InThePlan
<1>4. CASE Flip \/ UNCHANGED vars
  BY <1>4 DEF Flip, AtFirst, InThePlan, Given
<1> QED BY <1>1, <1>2, <1>3, <1>4 DEF Next, Step

LEMMA RemainingShrinks ==
  ASSUME TypeOK, AtFirst, InThePlan, Next
  PROVE  UNCHANGED run \/ (Remaining' \in Nat /\ Remaining' < Remaining)
<1> DEFINE n == Len(Given.plan)
<1>n. n \in Nat /\ pos \in Nat \ {0}
  BY Lengths DEF TypeOK
<1>1. CASE CheckFlags
  <2>1. Remaining = n + 5 /\ Remaining' \in {n + 4, 0}
    BY <1>1 DEF CheckFlags, Exit, Remaining, Given
  <2> QED BY <1>n, <2>1
<1>2. CASE Open
  <2>1. Remaining = n + 4 /\ Remaining' \in {n + 3, 0}
    BY <1>2 DEF Open, Exit, Remaining, Given
  <2> QED BY <1>n, <2>1
<1>3. CASE Identify
  <2>1. Remaining = n + 3 /\ Remaining' \in {n + 3 - 1, 0}
    BY <1>3 DEF Identify, Exit, Remaining, Given, AtFirst
  <2> QED BY <1>n, <2>1
<1>4. CASE Collect
  <2>1. pos <= n /\ pos' = pos + 1 /\ cmd' = cmd /\ phase' = phase /\ phase = "collect"
    BY <1>4, CollectAdvances DEF Collect
  <2>2. Remaining = n + 3 - pos /\ Remaining' = n + 3 - (pos + 1)
    BY <2>1 DEF Remaining, Given
  <2> QED BY <1>n, <2>1, <2>2
<1>5. CASE Judge
  <2>1. pos <= n + 1 /\ Remaining = n + 3 - pos /\ Remaining' = 1
    BY <1>5 DEF Judge, Remaining, InThePlan
  <2> QED BY <1>n, <2>1
<1>6. CASE Render
  <2>1. Remaining = 1 /\ Remaining' = 0
    BY <1>6 DEF Render, Exit, Remaining
  <2> QED BY <2>1
<1>7. CASE Flip
  BY <1>7 DEF Flip
<1> QED BY <1>1, <1>2, <1>3, <1>4, <1>5, <1>6, <1>7 DEF Next, Step

\* Nothing is tried twice and nothing follows the exit code (main, diagnose):
\* for every plan and every way the instance changes.
THEOREM EndComesNearer == Spec => Nearer
<1>1. Init => TypeOK /\ AtFirst /\ InThePlan
  BY TypeInit, PlanInit DEF Init, AtFirst
<1>2. TypeOK /\ AtFirst /\ InThePlan /\ [Next]_vars => (TypeOK /\ AtFirst /\ InThePlan)'
  BY TypeNext, PlanNext
<1>3. TypeOK /\ AtFirst /\ InThePlan /\ [Next]_vars =>
        [UNCHANGED run \/ (Remaining' \in Nat /\ Remaining' < Remaining)]_vars
  BY RemainingShrinks
<1> QED BY <1>1, <1>2, <1>3, PTL DEF Spec, Nearer

-----------------------------------------------------------------------------
(* --timeout and statement_timeout *)

\* What the division of a natural number leaves.
LEMMA Division ==
  ASSUME NEW x \in Nat, NEW m \in Nat, m > 0
  PROVE  /\ x \div m \in Nat
         /\ m * (x \div m) <= x
         /\ x < m * (x \div m) + m
  BY SMT

\* A quotient of numbers no smaller than the divisor is not 0.
LEMMA NotZero ==
  ASSUME NEW x \in Nat, NEW m \in Nat, m > 0, m <= x
  PROVE  x \div m > 0
<1>1. x < m * (x \div m) + m /\ x \div m \in Nat
  BY Division
<1>2. CASE x \div m = 0
  <2>1. m * (x \div m) = 0
    BY <1>2, SMT
  <2> QED BY <1>1, <2>1, SMT
<1> QED BY <1>1, <1>2, SMT

\* Whatever positive --timeout is given, the server is never asked for none;
\* what it accepts is the timeout rounded up (timeoutMillis).
THEOREM TimeoutRoundsUp == TimeoutKept
<1> DEFINE m == Millisecond
<1> SUFFICES ASSUME NEW d \in Durations
    PROVE /\ TimeoutMillis(d) # 0
          /\ TimeoutMillis(d) \in 1..ServerLargest =>
               (TimeoutMillis(d) - 1) * m < d /\ d <= TimeoutMillis(d) * m
  BY DEF TimeoutKept
<1>m. m \in Nat /\ m > 0 /\ Largest \in Nat /\ 2 * m <= Largest /\ d \in Nat /\ 0 < d /\ d <= Largest
  BY TimeoutAssumption, SMT DEF Durations
<1>1. CASE d + m - 1 <= Largest
  <2> DEFINE x == d + m - 1
  <2> DEFINE q == x \div m
  <2>1. x \in Nat /\ m <= x
    BY <1>m, SMT
  <2>2. TimeoutMillis(d) = q
    BY <1>1, <1>m, <2>1, SMT DEF TimeoutMillis, Wrapped, Quotient
  <2>3. q \in Nat /\ m * q <= x /\ x < m * q + m
    BY <2>1, <1>m, Division
  <2>4. q > 0
    BY <2>1, <1>m, NotZero
  <2>5. (q - 1) * m = m * q - m /\ q * m = m * q
    BY <2>3, <1>m, SMT
  <2>6. (q - 1) * m < d /\ d <= q * m
    <3> HIDE DEF q
    <3> QED BY <2>3, <2>5, <1>m, SMT
  <2> QED BY <2>2, <2>4, <2>6, <2>3, SMT
<1>2. CASE ~(d + m - 1 <= Largest)
  <2> DEFINE x == 2 * (Largest + 1) - (d + m - 1)
  <2>1. x \in Nat /\ m <= x
    BY <1>m, <1>2, SMT
  <2>2. TimeoutMillis(d) = -(x \div m)
    BY <1>2, <1>m, <2>1, SMT DEF TimeoutMillis, Wrapped, Quotient
  <2>3. x \div m \in Nat /\ x \div m > 0
    BY <2>1, <1>m, NotZero, Division
  <2> HIDE DEF x
  <2> QED BY <2>2, <2>3, SMT
<1> QED BY <1>1, <1>2

\* The connection has the timeout that was asked for (conn.connConfig).
THEOREM TimeoutAlwaysSet == Spec => []TimeoutSet
<1>1. TimeoutSet
  BY TimeoutRoundsUp DEF TimeoutSet
<1> QED BY <1>1, PTL
=============================================================================
