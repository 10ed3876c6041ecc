----------------------------- MODULE Diagnosis -----------------------------
(***************************************************************************)
(* One run of kbdiag, from the command line to the exit code: check the    *)
(* flags, open the single connection, identify the instance, run the       *)
(* command's probes one after another, let its rule judge what came back,  *)
(* render the report, exit.  Meanwhile the instance it looks at goes on    *)
(* living: troubles appear and go away between two probes, and the link    *)
(* may break at any query.                                                 *)
(*                                                                         *)
(* The module is the engine all commands share; which probes a command     *)
(* runs and what its rule reads are the constants, given by Commands.tla.  *)
(*                                                                         *)
(* Data is abstracted to marks.  A mark <<p, what>> says that the rows of  *)
(* probe p would show something its rule can report.  `world` is the set   *)
(* of marks that hold in the instance now; reading p copies its marks.     *)
(***************************************************************************)
EXTENDS Verdict, Timeout, Sequences, FiniteSets

CONSTANTS
  Probes,    \* probe ids, and inst.info as an input of the disk probes
  Disks,     \* the probes that are a statfs and not a query
  OneRow,    \* probes with at most one row: a masked row shows nothing else
  Gate,      \* [Probes -> SUBSET Roles]: where a probe is applicable
  Commands,  \* the command of the run
  Table,     \* [Commands -> what the command runs and reads], see below
  MaxFlips   \* bound: how often the instance changes during a run

Places == {"socket", "loopback", "remote"}

(***************************************************************************)
(* Table[c] is a record:                                                   *)
(*   plan      the probes, in the order they are run                       *)
(*   needs     [Roles -> SUBSET Probes]: the statuses its rule reads       *)
(*   asks      <<mark, probe>>: the probe is read too once the mark is seen*)
(*   masks     probes whose hidden rows or columns keep the rule from OK   *)
(*   blindNA   probes whose not_applicable counts as a blind spot          *)
(*   findings  [id, level, roles, marks, with]: raised in these roles when *)
(*             all the marks are seen and the probes `with` are ok         *)
(***************************************************************************)
InPlan(c) == {Table[c].plan[i] : i \in 1..Len(Table[c].plan)}
MarksOf(c) == UNION {f.marks : f \in Table[c].findings}

\* What the rules of the repository have in common: a finding rests only on
\* probes the command runs, that apply in that role, and whose status the
\* rule reads (always, or because another mark of the finding asks for it).
ASSUME TableAssumption ==
  /\ Disks \subseteq Probes
  /\ Gate \in [Probes -> SUBSET Roles]
  /\ MaxFlips \in Nat
  /\ \A c \in Commands :
       /\ Table[c].plan \in Seq(Probes)
       /\ \A f \in Table[c].findings :
            /\ f.level \in Levels
            /\ f.marks # {}
            /\ \A r \in f.roles :
                 /\ r \in Roles
                 /\ \A p \in f.with : /\ p \in Table[c].needs[r] \cap InPlan(c)
                                      /\ p \notin Disks
                                      /\ r \in Gate[p]
                 /\ \A m \in f.marks :
                      /\ m[1] \in InPlan(c)
                      /\ r \in Gate[m[1]]
                      /\ m[1] \in Disks => m[1] \in Table[c].blindNA
                      /\ \/ m[1] \in Table[c].needs[r]
                         \/ \E n \in f.marks :
                              n[1] \in Table[c].needs[r] /\ <<n, m[1]>> \in Table[c].asks

VARIABLES
  cmd,      \* the command given
  place,    \* how the connection reaches the server: conn.Config
  phase,    \* how far the run is
  role,     \* facts.Context.Role, read once by Identify
  link,     \* the one connection: "closed", "up" or "broken"
  pos,      \* index in the plan of the next probe
  saw,      \* what each probe collected
  verdict,  \* Report.Verdict
  exit,     \* the process's exit code, NoExit while it runs
  world,    \* marks that hold in the instance now
  held,     \* history: marks that have held since the run began
  touched,  \* history: marks that held at some time since the run began
  flips     \* history: changes of the instance so far

run == <<cmd, place, phase, role, link, pos, saw, verdict, exit>>
instance == <<world, held, touched, flips>>
vars == <<run, instance>>

NoExit == 1000
ExitCodes == {0, 1, 2, 3, ExitUsage, ExitUnavailable}

Given == Table[cmd]
NotRead == [status |-> "none", marks |-> {}, hidden |-> FALSE]

Phases == {"flags", "open", "identify", "collect", "render", "exited"}

TypeOK ==
  /\ cmd \in Commands
  /\ place \in Places
  /\ phase \in Phases
  /\ role \in Roles \cup {"none"}
  /\ link \in {"closed", "up", "broken"}
  /\ pos \in Nat \ {0}
  /\ saw \in [Probes -> [status : Statuses \cup {"none"},
                         marks : SUBSET MarksOf(cmd), hidden : BOOLEAN]]
  /\ verdict \in Verdicts \cup {"none"}
  /\ exit \in ExitCodes \cup {NoExit}
  /\ world \in SUBSET MarksOf(cmd)
  /\ held \in SUBSET world
  /\ touched \in SUBSET MarksOf(cmd)
  /\ world \subseteq touched
  /\ flips \in Nat

Init ==
  /\ cmd \in Commands
  /\ place \in Places
  /\ phase = "flags"
  /\ role = "none"
  /\ link = "closed"
  /\ pos = 1
  /\ saw = [p \in Probes |-> NotRead]
  /\ verdict = "none"
  /\ exit = NoExit
  /\ world \in SUBSET MarksOf(cmd)
  /\ held = world
  /\ touched = world
  /\ flips = 0

Exit(code) ==
  /\ phase' = "exited"
  /\ exit' = code

-----------------------------------------------------------------------------
(* Before the probes *)

\* PersistentPreRunE and the commands' own argument checks; whatever cobra
\* itself refuses ends the same way.
CheckFlags ==
  /\ phase = "flags"
  /\ \/ phase' = "open" /\ UNCHANGED exit
     \/ Exit(ExitUsage)
  /\ UNCHANGED <<cmd, place, role, link, pos, saw, verdict, instance>>

Open ==
  /\ phase = "open"
  /\ \/ phase' = "identify" /\ link' = "up" /\ UNCHANGED exit
     \/ Exit(ExitUnavailable) /\ UNCHANGED link
  /\ UNCHANGED <<cmd, place, role, pos, saw, verdict, instance>>

\* Mutant: an instance that cannot be identified ends the run as if all was well.
IdentifyAnyway ==
  /\ phase = "identify"
  /\ \/ /\ phase' = "collect"
        /\ role' \in Roles
        /\ UNCHANGED <<exit, link>>
     \/ /\ Exit(ExitCode("OK"))
        /\ link' = "closed"
        /\ UNCHANGED role
  /\ UNCHANGED <<cmd, place, pos, saw, verdict, instance>>

\* The role is read here, once; the rules and the probes' gates use this
\* value to the end of the run.
Identify ==
  /\ phase = "identify"
  /\ \/ /\ phase' = "collect"
        /\ role' \in Roles
        /\ UNCHANGED <<exit, link>>
     \/ /\ Exit(ExitCode("UNKNOWN"))
        /\ link' = "closed"
        /\ UNCHANGED role
  /\ UNCHANGED <<cmd, place, pos, saw, verdict, instance>>

-----------------------------------------------------------------------------
(* The probes *)

\* Mutant: a probe that failed is run again.
RecordAgain(p, st, marks, hid) ==
  /\ saw' = [saw EXCEPT ![p] = [status |-> st, marks |-> marks, hidden |-> hid]]
  /\ pos' = IF st = "error" THEN pos ELSE pos + 1

Record(p, st, marks, hid) ==
  /\ saw' = [saw EXCEPT ![p] = [status |-> st, marks |-> marks, hidden |-> hid]]
  /\ pos' = pos + 1

MarksAt(p) == {m \in world : m[1] = p}

\* A gated probe asks nothing: the role read by Identify decides.
GatedOff(p) == /\ role \notin Gate[p]
               /\ Record(p, "not_applicable", {}, FALSE)
               /\ UNCHANGED link

\* The query returns its rows as of now. Where the account may not see other
\* sessions, objects or files, some rows or columns are hidden; what they
\* would have shown is then lost.
Rows(p) ==
  /\ role \in Gate[p]
  /\ p \notin Disks
  /\ link = "up"
  /\ \E hid \in IF p \in Given.masks THEN BOOLEAN ELSE {FALSE} :
       \E marks \in SUBSET MarksAt(p) :
         /\ ~hid => marks = MarksAt(p)
         /\ hid /\ p \in OneRow => marks = {}
         /\ Record(p, "ok", marks, hid)
  /\ UNCHANGED link

\* Mutant: on a broken link the query is tried again and again.
FailsRetry(p) ==
  /\ role \in Gate[p]
  /\ p \notin Disks
  /\ \/ /\ link = "up"
        /\ \E err \in QueryErrors :
             /\ Record(p, Classify(err), {}, FALSE)
             /\ link' \in IF err = "no_code" THEN {"up", "broken"} ELSE {"up"}
     \/ /\ link = "broken"
        /\ UNCHANGED <<saw, pos, link>>

\* The query (or the one before it that reads a switch) fails: a server error,
\* a value that does not scan, or a link that breaks and stays broken. A
\* switch found off ends like a timeout: skipped, without rows.
Fails(p) ==
  /\ role \in Gate[p]
  /\ p \notin Disks
  /\ \/ /\ link = "up"
        /\ \E err \in QueryErrors :
             /\ Record(p, Classify(err), {}, FALSE)
             /\ link' \in IF err = "no_code" THEN {"up", "broken"} ELSE {"up"}
     \/ /\ link = "broken"
        /\ Record(p, Classify("no_code"), {}, FALSE)
        /\ UNCHANGED link

\* InstDisk and SpaceDisk: a statfs of the directory inst.info named, which
\* only means something on the database's own host. space.disk keeps the rows
\* of data_directory and WAL when only a tablespace cannot be read.
Stat(p) ==
  /\ p \in Disks
  /\ role \in Gate[p]
  /\ \/ place = "remote" /\ Record(p, "not_applicable", {}, FALSE)
     \/ /\ place # "remote"
        /\ saw["inst.info"].status # "ok"
        /\ Record(p, "skipped", {}, FALSE)
     \/ /\ place # "remote"
        /\ saw["inst.info"].status = "ok"
        /\ \/ Record(p, "ok", MarksAt(p), FALSE)
           \/ Record(p, "error", MarksAt(p), FALSE)
           \/ Record(p, "error", {}, FALSE)
           \/ Record(p, "skipped", {}, FALSE)
           \/ place = "loopback" /\ Record(p, "not_applicable", {}, FALSE)
  /\ UNCHANGED link

Collect ==
  /\ phase = "collect"
  /\ pos <= Len(Given.plan)
  /\ LET p == Given.plan[pos] IN GatedOff(p) \/ Rows(p) \/ Fails(p) \/ Stat(p)
  /\ UNCHANGED <<cmd, place, phase, role, verdict, exit, instance>>

-----------------------------------------------------------------------------
(* The judgement *)

Seen(m) == m \in saw[m[1]].marks

\* The probes whose status the rule reads, given what it has seen.
ReadBy == Table[cmd].needs[role] \cup {a[2] : a \in {b \in Table[cmd].asks : Seen(b[1])}}

Blind(p) ==
  \/ BlindSpot(saw[p].status)
  \/ saw[p].hidden
  \/ p \in Table[cmd].blindNA /\ saw[p].status = "not_applicable"

\* Mutant: one of a finding's conditions is enough.
RaisedOnAny(f) ==
  /\ role \in f.roles
  /\ \E m \in f.marks : Seen(m)
  /\ \A p \in f.with : Judgeable(saw[p].status)

Raised(f) ==
  /\ role \in f.roles
  /\ \A m \in f.marks : Seen(m)
  /\ \A p \in f.with : Judgeable(saw[p].status)

Found == {f.level : f \in {g \in Table[cmd].findings : Raised(g)}}

Unknown == \E p \in ReadBy : Blind(p)

Judge ==
  /\ phase = "collect"
  /\ pos > Len(Given.plan)
  /\ verdict' = VerdictOf(Found, Unknown)
  /\ phase' = "render"
  /\ UNCHANGED <<cmd, place, role, link, pos, saw, exit, instance>>

\* write: a report that cannot be printed is exit 3 whatever it says. The
\* connection is closed on the way out.
Render ==
  /\ phase = "render"
  /\ Exit(ExitCode(verdict)) \/ Exit(ExitCode("UNKNOWN"))
  /\ link' = "closed"
  /\ UNCHANGED <<cmd, place, role, pos, saw, verdict, instance>>

-----------------------------------------------------------------------------
(* The instance *)

\* One mark comes or goes while the run is connected.
Flip ==
  /\ phase \in {"identify", "collect"}
  /\ flips < MaxFlips
  /\ \E m \in MarksOf(cmd) :
       world' = IF m \in world THEN world \ {m} ELSE world \cup {m}
  /\ held' = held \cap world'
  /\ touched' = touched \cup world'
  /\ flips' = flips + 1
  /\ UNCHANGED run

Step == CheckFlags \/ Open \/ Identify \/ Collect \/ Judge \/ Render

Next == Step \/ Flip

Spec == Init /\ [][Next]_vars

\* Every step of the run is one the process takes by itself or the server
\* answers: statement_timeout and lock_timeout end each query, the connect
\* timeout ends Open.
FairSpec == Spec /\ WF_vars(Step)

-----------------------------------------------------------------------------
(* What a run promises *)

\* The findings that have been true of the instance for the whole run, and
\* those all of whose marks showed at some time during it.
Lasting == {f \in Table[cmd].findings :
              /\ f.marks \subseteq held
              /\ role \in Roles => role \in f.roles}
Appeared == {f \in Table[cmd].findings : f.marks \subseteq touched}

\* Something the verdict depends on was not seen, or there is no verdict.
Blinded ==
  \/ phase = "exited" /\ verdict = "none"
  \/ phase = "exited" /\ exit # ExitCode(verdict)
  \/ verdict # "none" /\ Unknown

\* Exit 0 is earned: no trouble this command can report in this role was there
\* from the start of the run to its end, whatever failed, was masked, was gated
\* off or changed in between (verdictOf, collected, classify and every rule).
EarnedOK == exit = 0 => Lasting = {} /\ ~Blinded

\* An alarm is real: exit 1 or 2 only when every part of some finding of that
\* level was true of the instance at some moment of the run; and a trouble
\* of level FAIL that lasted is not reported as a mere WARN unless
\* the run was partly blind (the rules' findings, Merge, verdictOf, ExitCode).
RealAlarm ==
  /\ exit = 1 => /\ \E f \in Appeared : f.level = "WARN"
                 /\ (\E f \in Lasting : f.level = "FAIL") => Blinded
  /\ exit = 2 => \E f \in Appeared : f.level = "FAIL"

\* The abstract promise of the exit code (HonestAnswer) is kept: it is given
\* once, it is honest about what lasted and what appeared, and UNKNOWN is
\* never said by a run that saw everything.
Promise == INSTANCE HonestAnswer WITH
  Findings <- UNION {Table[c].findings : c \in Commands},
  answer <- exit,
  lasting <- Lasting,
  appeared <- Appeared,
  blinded <- Blinded,
  NoAnswer <- NoExit
\* The run implements HonestAnswer under that mapping (Promise).
Answers == Promise!Spec

\* The one connection, while it is open, has the statement_timeout that
\* --timeout asked for, whichever duration that was (conn.connConfig).
TimeoutSet == link = "up" => TimeoutKept

\* How many steps the run takes at most from here to its exit code.
Remaining ==
  CASE phase = "flags" -> Len(Given.plan) + 5
    [] phase = "open" -> Len(Given.plan) + 4
    [] phase = "identify" -> Len(Given.plan) + 3
    [] phase = "collect" -> Len(Given.plan) + 3 - pos
    [] phase = "render" -> 1
    [] phase = "exited" -> 0

\* Whatever fails, nothing is tried twice: each step of the run brings its end
\* nearer, and none follows the end (main and diagnose: no error path goes
\* back, and after a broken link the other probes fail one by one).
Nearer == [][UNCHANGED run \/ (Remaining' \in Nat /\ Remaining' < Remaining)]_vars

\* Every run ends with an exit code (main; the timeouts of conn.connConfig).
Ends == <>(exit # NoExit)
=============================================================================
