------------------------------- MODULE Locks -------------------------------
(***************************************************************************)
(* kbdiag locks and kbdiag session <pid> against an instance whose         *)
(* sessions take, wait for and release locks, and prepare transactions.    *)
(*                                                                         *)
(* Neither command sees one moment. `session` reads the activity and then  *)
(* the locks; and the lock query itself copies the lock table first and    *)
(* asks sys_blocking_pids of each waiter afterwards, against the table as  *)
(* it is then. The report joins the three by pid, a prepared transaction   *)
(* being NULL in the rows and 0 among the blockers.                        *)
(*                                                                         *)
(* Abstracted: sys_blocking_pids of all rows is one step; the statement's  *)
(* age comes with the rows; masked and untracked are both "hidden".        *)
(***************************************************************************)
EXTENDS Verdict, LockTable

CONSTANTS
  Pids,      \* pids of the sessions; 0 is none of them
  Gids,      \* prepared transactions that may come to be
  Others,    \* sessions whose activity the account may not see
  Objs,      \* lockable objects
  Kind,      \* [Objs -> Kinds]: locktype
  Targets,   \* what is run: the pid given to `session`, or AllLocks
  Warn,      \* Thresholds.LockWaitWarnS and IdleInTxnWarnS
  MaxClock,  \* bound: the clock
  MaxMoves   \* bound: steps of the instance while the run looks

AllLocks == 0
PreparedBlocker == 0
Kinds == {"relation", "transactionid"}
NoAge == 1000
Running == 1000

ASSUME LocksAssumption ==
  /\ Pids \cup Gids \subseteq Nat \ {0} /\ Pids \cap Gids = {}
  /\ Others \subseteq Pids
  /\ Kind \in [Objs -> Kinds]
  /\ Targets \subseteq Pids \cup {AllLocks}
  /\ Warn \in Nat \ {0} /\ MaxClock \in 0..(NoAge - 1) /\ MaxMoves \in Nat

VARIABLES
  clock, sess, table,   \* the instance: sessions by pid, and the lock table
  moves,                \* its steps since Identify
  target, pos,          \* the command, and how far it is
  activity,             \* session.activity, cut to the target's row
  locks,                \* lock.list
  exit,
  held, touched,        \* history: troubles lasting since Identify, all shown
  stuck                 \* history: blocks lasting since the lock rows were read

instance == <<clock, sess, table, moves>>
program == <<target, pos, activity, locks, exit>>
history == <<held, touched, stuck>>
vars == <<instance, program, history>>

Positions == {"start", "activity", "rows", "blockers", "report", "done"}
Looking == pos \in {"activity", "rows", "blockers"}

SessionStates == {"gone", "idle", "active", "idle in transaction"}
NotRead == [status |-> "none", rows |-> {}]
Failed == [status |-> "error", rows |-> {}]

\* The pid of a row or of a blocker: a prepared transaction has none.
PidOf(owner) == IF owner \in Pids THEN owner ELSE PreparedBlocker

Waits(p) == p \in Waiters(table)
BlockersOf(p) == Blockers(table, RequestOf(table, p))
Age(p) == clock - sess[p].since

\* What the rules of the command are about, as it is now. The wait is
\* measured from the start of the statement, which is an upper bound.
Waiting(p) == [id |-> "lock.waiting", level |-> "WARN", of |-> p]
IdleInTxn(p) == [id |-> "session.idle_in_txn", level |-> "WARN", of |-> p]
Findings == {Waiting(p) : p \in Pids} \cup {IdleInTxn(p) : p \in Pids}

LateWaits == {p \in Pids : Waits(p) /\ Age(p) >= Warn}
IdleTroubles == {IdleInTxn(p) : p \in {target} \cap
                   {q \in Pids : sess[q].state = "idle in transaction" /\ Age(q) >= Warn}}
Concerns(p) == target = AllLocks \/ p = target \/ target \in BlockersOf(p)
Troubles == {Waiting(p) : p \in {q \in LateWaits : Concerns(q)}} \cup IdleTroubles
AnyTroubles == {Waiting(p) : p \in LateWaits} \cup IdleTroubles

\* Who waits for what, and whose lock is in its way.
Blocks ==
  UNION {LET r == RequestOf(table, p)
         IN {[waiter |-> p, owner |-> h, obj |-> r.obj] : h \in HardBlockers(table, r)} :
           p \in Waiters(table)}

Tables ==
  [granted : SUBSET [obj : Objs, owner : Pids \cup Gids, mode : Modes],
   waiting : SUBSET [pid : Pids, obj : Objs, mode : Modes],
   ahead : SUBSET (Pids \X Pids)]
SessionRows == [pid : Pids, state : SessionStates, age : 0..MaxClock, hidden : BOOLEAN]
LockRows == [pid : Pids \cup {0}, obj : Objs, mode : Modes, granted : BOOLEAN,
             wait : 0..MaxClock \cup {NoAge}, by : SUBSET (Pids \cup {PreparedBlocker})]

TypeOK ==
  /\ clock \in 0..MaxClock
  /\ sess \in [Pids -> [state : SessionStates, since : 0..MaxClock]]
  /\ table \in Tables
  /\ moves \in 0..MaxMoves
  /\ target \in Targets /\ pos \in Positions
  /\ activity \in [status : Statuses \cup {"none"}, rows : SUBSET SessionRows]
  /\ locks \in [status : Statuses \cup {"none"}, rows : SUBSET LockRows]
  /\ exit \in 0..3 \cup {Running}

Init ==
  /\ clock = 0
  /\ sess = [p \in Pids |-> [state |-> "idle", since |-> 0]]
  /\ table = EmptyTable /\ moves = 0
  /\ target \in Targets
  /\ pos = "start"
  /\ activity = NotRead /\ locks = NotRead
  /\ exit = Running
  /\ held = {} /\ touched = {} /\ stuck = {}

-----------------------------------------------------------------------------
(* The instance *)

\* state_change; no rule asks how long a session is idle or gone.
Become(p, state) ==
  sess' = [sess EXCEPT ![p] =
             [state |-> state, since |-> IF state \in {"idle", "gone"} THEN 0 ELSE clock]]

Statement(p) ==
  /\ sess[p].state \in {"idle", "idle in transaction"}
  /\ Become(p, "active")
  /\ UNCHANGED <<clock, table>>

\* A transaction holds its own xid; others wait for it to end.
ModesOf(o) ==
  IF Kind[o] = "relation" THEN Modes
  ELSE IF \E g \in table.granted : g.obj = o THEN {"share"} ELSE {"excl"}

\* A statement asks for a lock, not always at once.
Lock(p) ==
  /\ sess[p].state = "active" /\ ~Waits(p)
  /\ \E o \in Objs :
     \E mode \in ModesOf(o) :
       /\ \A g \in table.granted : ~(g.owner = p /\ g.obj = o)
       /\ table' = Request(table, p, o, mode)
  /\ UNCHANGED <<clock, sess>>

StatementEnds(p) ==
  /\ sess[p].state = "active" /\ ~Waits(p)
  /\ Become(p, "idle in transaction")
  /\ UNCHANGED <<clock, table>>

\* Commit, roll back, a cancelled wait.
TxnEnds(p) ==
  /\ sess[p].state \in {"active", "idle in transaction"}
  /\ Become(p, "idle")
  /\ table' = Release(table, p)
  /\ UNCHANGED clock

Disconnect(p) ==
  /\ sess[p].state = "idle"
  /\ Become(p, "gone")
  /\ UNCHANGED <<clock, table>>

PrepareTxn(p) ==
  /\ sess[p].state \in {"active", "idle in transaction"} /\ ~Waits(p)
  /\ \E gid \in Gids :
       /\ \A g \in table.granted : g.owner # gid
       /\ table' = HandOver(table, p, gid)
  /\ table' # table
  /\ Become(p, "idle")
  /\ UNCHANGED clock

FinishPrepared ==
  /\ \E gid \in Gids : table' = Release(table, gid)
  /\ table' # table
  /\ UNCHANGED <<clock, sess>>

Tick ==
  /\ clock < MaxClock
  /\ clock' = clock + 1
  /\ UNCHANGED <<sess, table>>

\* What stays true while the run looks is what lasts.
Remember ==
  IF Looking
    THEN /\ held' = held \cap Troubles'
         /\ touched' = touched \cup AnyTroubles'
         /\ stuck' = IF pos = "blockers" THEN stuck \cap Blocks' ELSE stuck
    ELSE UNCHANGED history

\* After the last read the run no longer looks.
Instance ==
  /\ IF Looking THEN moves < MaxMoves /\ moves' = moves + 1
                ELSE pos = "start" /\ UNCHANGED moves
  /\ \/ \E p \in Pids : \/ Statement(p) \/ Lock(p) \/ StatementEnds(p)
                         \/ TxnEnds(p) \/ Disconnect(p) \/ PrepareTxn(p)
     \/ FinishPrepared \/ Tick
  /\ UNCHANGED program
  /\ Remember

-----------------------------------------------------------------------------
(* The run *)

Identify ==
  /\ pos = "start"
  /\ pos' = IF target = AllLocks THEN "rows" ELSE "activity"
  /\ held' = Troubles /\ touched' = AnyTroubles
  /\ UNCHANGED <<instance, target, activity, locks, exit, stuck>>

\* session.activity: the target's row, if there is one.
SessionActivity ==
  /\ pos = "activity"
  /\ pos' = "rows"
  /\ \/ activity' = Failed
     \/ \E hid \in IF target \in Others THEN BOOLEAN ELSE {FALSE} :
          activity' = [status |-> "ok",
            rows |-> {[pid |-> p, state |-> sess[p].state, age |-> Age(p), hidden |-> hid] :
                        p \in {q \in {target} : sess[q].state # "gone"}}]
  /\ UNCHANGED <<instance, target, locks, exit, history>>

GrantedRow(g) == [pid |-> PidOf(g.owner), obj |-> g.obj, mode |-> g.mode,
                  granted |-> TRUE, wait |-> NoAge, by |-> {}]
WaitingRow(r, hidden) ==
  [pid |-> r.pid, obj |-> r.obj, mode |-> r.mode, granted |-> FALSE,
   wait |-> IF r.pid \in hidden THEN NoAge ELSE Age(r.pid), by |-> {}]

\* lock.list, the copy of the lock table.
ListLocks ==
  /\ pos = "rows"
  /\ \/ locks' = Failed /\ pos' = "report" /\ UNCHANGED stuck
     \/ /\ \E hidden \in SUBSET Others :
             locks' = [status |-> "ok",
                       rows |-> {GrantedRow(g) : g \in table.granted} \cup
                                {WaitingRow(r, hidden) : r \in table.waiting}]
        /\ pos' = "blockers"
        /\ stuck' = Blocks
  /\ UNCHANGED <<instance, target, activity, exit, held, touched>>

\* sys_blocking_pids of every row that waited: what blocks that pid now.
AskBlockers ==
  /\ pos = "blockers"
  /\ pos' = "report"
  /\ locks' = [locks EXCEPT !.rows =
       {IF r.granted \/ ~Waits(r.pid) THEN r
        ELSE [r EXCEPT !.by = {PidOf(b) : b \in BlockersOf(r.pid)}] : r \in @}]
  /\ UNCHANGED <<instance, target, activity, exit, history>>

\* session keeps the rows of its pid and of those it blocks.
RowsOf(t) == {r \in locks.rows : t = AllLocks \/ r.pid = t \/ t \in r.by}

\* Mutant: a wait whose length is hidden is passed over.
JudgeLocksKnown(rows) ==
  Result({"WARN" : r \in {s \in rows : ~s.granted /\ s.wait # NoAge /\ s.wait >= Warn}},
         BlindSpot(locks.status))

JudgeLocks(rows) ==
  Result({"WARN" : r \in {s \in rows : ~s.granted /\ s.wait # NoAge /\ s.wait >= Warn}},
         BlindSpot(locks.status) \/ \E r \in rows : ~r.granted /\ r.wait = NoAge)

\* rule.Sessions of the one row.
JudgeSession(a) ==
  Result({"WARN" : r \in {s \in a.rows : ~s.hidden /\ s.state = "idle in transaction"
                                           /\ s.age >= Warn}},
         BlindSpot(a.status) \/ \E r \in a.rows : r.hidden)

NotFound == activity.status = "ok" /\ activity.rows = {}

Judged ==
  IF target = AllLocks THEN JudgeLocks(locks.rows)
  ELSE Merge({JudgeSession(activity), JudgeLocks(RowsOf(target))} \cup
             {Result({}, TRUE) : x \in {y \in {target} : NotFound}})

Report ==
  /\ pos = "report"
  /\ pos' = "done"
  /\ exit' = ExitCode(Judged.verdict)
  /\ UNCHANGED <<instance, target, activity, locks, history>>

Next == Instance \/ Identify \/ SessionActivity \/ ListLocks \/ AskBlockers \/ Report

Spec == Init /\ [][Next]_vars

-----------------------------------------------------------------------------
(* The text *)

\* Objects are told apart by locktype and relation only.
SameLabel(a, b) == Kind[a] = Kind[b] /\ (Kind[a] = "relation" => a = b)

\* Mutant: a prepared transaction's rows are not its blocker's.
HoldsByPid(b) ==
  {r \in locks.rows : /\ r.granted /\ r.pid = b /\ r.pid # 0
                      /\ \E w \in locks.rows : b \in w.by /\ SameLabel(w.obj, r.obj)}

\* locks, writeBlockers: what a blocker holds on the objects wanted of it.
HoldsOf(b) ==
  {r \in locks.rows : /\ r.granted /\ r.pid = b
                      /\ \E w \in locks.rows : b \in w.by /\ SameLabel(w.obj, r.obj)}

\* locks --json: every waiting lock, and what its blockers hold on its object.
Shown ==
  {r \in locks.rows : ~r.granted} \cup UNION {HoldsOf(b) : b \in Pids \cup {PreparedBlocker}}

\* session, writeHolds: its own locks; a transactionid only if waited for.
Holds ==
  {r \in RowsOf(target) :
     /\ r.granted /\ r.pid = target
     /\ Kind[r.obj] = "transactionid" =>
          \E w \in RowsOf(target) : ~w.granted /\ w.pid # target /\ SameLabel(w.obj, r.obj)}

-----------------------------------------------------------------------------
(* What the two commands promise *)

\* A lock that was in a waiter's way while the query ran is shown for what it
\* is: the waiter's row names the owner, and the owner's granted lock on that
\* object is listed with it, a prepared transaction's too (lockListSQL,
\* scenario.Locks, writeBlockers, writeHolds).
ShowsHolder ==
  pos = "done" /\ locks.status = "ok" =>
    \A b \in {c \in stuck : target \in {AllLocks, c.owner}} :
      /\ \E r \in RowsOf(target) : ~r.granted /\ r.pid = b.waiter /\ PidOf(b.owner) \in r.by
      /\ \E r \in IF target = AllLocks THEN Shown ELSE Holds :
           r.granted /\ r.pid = PidOf(b.owner) /\ r.obj = b.obj

\* The exit code keeps the promise of HonestAnswer: a wait or an idle
\* transaction that was there all along is not answered with OK, an alarm was
\* about something seen, UNKNOWN means something was hidden or the session is
\* not there (rule.Locks, rule.Sessions, scenario.Session).
Promise == INSTANCE HonestAnswer WITH
  answer <- exit,
  lasting <- IF pos = "start" THEN Findings ELSE held,
  appeared <- touched,
  blinded <- /\ pos = "done"
             /\ \/ BlindSpot(locks.status)
                \/ \E r \in RowsOf(target) : ~r.granted /\ r.wait = NoAge
                \/ target # AllLocks /\ (\/ BlindSpot(activity.status) \/ NotFound
                                         \/ \E r \in activity.rows : r.hidden),
  NoAnswer <- Running
\* The run implements HonestAnswer under that mapping (Promise).
Answers == Promise!Spec
=============================================================================
