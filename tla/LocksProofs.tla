----------------------------- MODULE LocksProofs -----------------------------
(***************************************************************************)
(* A lock that stayed in a waiter's way is shown with its holder, and the  *)
(* exit codes of locks and session keep the promise of HonestAnswer: for   *)
(* any sessions, prepared transactions, objects and moves.                 *)
(***************************************************************************)
EXTENDS Locks, VerdictProofs

USE DEF vars, instance, program, history

-----------------------------------------------------------------------------
(* The inductive invariant *)

Read == {"ok", "error"}

\* No statement began after now.
Clocks == \A p \in Pids : sess[p].since <= clock

\* How far the run is, and what it has by then.
Stages ==
  /\ pos = "start" => touched = {}
  /\ pos # "done" <=> exit = Running
  /\ pos = "activity" => target \in Pids
  /\ pos \in {"start", "activity"} => activity = NotRead
  /\ pos \notin {"start", "activity"} /\ target # AllLocks => activity.status \in Read
  /\ pos \in {"start", "activity", "rows"} => locks = NotRead
  /\ pos = "blockers" => locks.status = "ok"
  /\ pos \in {"report", "done"} => locks.status \in Read

\* While the run looks, what lasts is so now and what is so now has shown.
Noticed == Looking => held \subseteq Troubles /\ AnyTroubles \subseteq touched

\* A block that lasts is one now, until the blockers are asked for.
StillStuck == pos = "blockers" => stuck \subseteq Blocks

\* The target's row says what has shown, and has what lasts.
ActivityTells ==
  /\ \A r \in activity.rows :
       r.state = "idle in transaction" /\ r.age >= Warn => IdleInTxn(target) \in touched
  /\ pos # "start" => \A p \in Pids : IdleInTxn(p) \in held =>
       /\ p = target
       /\ activity.status = "ok" =>
            \E r \in activity.rows : r.state = "idle in transaction" /\ r.age >= Warn

\* So do the lock rows, by pid and, the blockers asked for, by the target.
LocksTell ==
  /\ \A r \in locks.rows :
       ~r.granted /\ r.wait # NoAge /\ r.wait >= Warn => Waiting(r.pid) \in touched
  /\ locks.status = "ok" => \A p \in Pids : Waiting(p) \in held =>
       \E r \in locks.rows :
         /\ ~r.granted /\ r.pid = p
         /\ r.wait = NoAge \/ r.wait >= Warn
         /\ pos # "blockers" => r \in RowsOf(target)

\* A block that lasts has its waiter's row and its holder's.
BlocksTell ==
  locks.status = "ok" => \A b \in stuck :
    /\ b.waiter # b.owner
    /\ \E r \in locks.rows :
         /\ ~r.granted /\ r.pid = b.waiter /\ r.obj = b.obj
         /\ pos # "blockers" => PidOf(b.owner) \in r.by
    /\ \E r \in locks.rows : r.granted /\ r.pid = PidOf(b.owner) /\ r.obj = b.obj

Judgement == pos = "done" => exit = ExitCode(Judged.verdict)

IInv ==
  /\ TypeOK /\ Clocks /\ Stages /\ Noticed /\ StillStuck
  /\ ActivityTells /\ LocksTell /\ BlocksTell /\ Judgement

-----------------------------------------------------------------------------
(* The lock table *)

LEMMA ZeroIsNobody == PreparedBlocker \notin Pids /\ AllLocks \notin Pids /\ Targets \subseteq Pids \cup {AllLocks}
BY LocksAssumption DEF PreparedBlocker, AllLocks

LEMMA RequestIs ==
  ASSUME NEW t, NEW p \in Waiters(t)
  PROVE  RequestOf(t, p) \in t.waiting /\ RequestOf(t, p).pid = p
BY DEF Waiters, RequestOf

LEMMA LeavingTyped ==
  ASSUME NEW t \in Tables, NEW requests
  PROVE  Leaving(t, requests) \in Tables /\ Leaving(t, requests).granted = t.granted
<1> DEFINE left == t.waiting \ requests
           ahead == {x \in t.ahead : \E q, r \in left : x = <<q.pid, r.pid>>}
<1>1. Leaving(t, requests) = [t EXCEPT !.waiting = left, !.ahead = ahead]
  BY DEF Leaving, Tables
<1>2. /\ left \in SUBSET [pid : Pids, obj : Objs, mode : Modes]
      /\ ahead \in SUBSET (Pids \X Pids)
  BY DEF Tables
<1> HIDE DEF left, ahead
<1> QED BY <1>1, <1>2 DEF Tables

LEMMA WakeTyped ==
  ASSUME NEW t \in Tables
  PROVE  Wake(t) \in Tables
<1> DEFINE free == {r \in t.waiting : Blockers(t, r) = {}}
           new == {[obj |-> r.obj, owner |-> r.pid, mode |-> r.mode] : r \in free}
<1>1. Leaving(t, free) \in Tables /\ Leaving(t, free).granted = t.granted
  BY LeavingTyped
<1>2. new \subseteq [obj : Objs, owner : Pids \cup Gids, mode : Modes]
  BY DEF Tables
<1>3. Wake(t) = [Leaving(t, free) EXCEPT !.granted = t.granted \cup new]
  BY <1>1 DEF Wake, Tables
<1>4. t.granted \cup new \in SUBSET [obj : Objs, owner : Pids \cup Gids, mode : Modes]
  BY <1>2 DEF Tables
<1> HIDE DEF free, new
<1> QED BY <1>1, <1>3, <1>4 DEF Tables

LEMMA RequestTyped ==
  ASSUME NEW t \in Tables, NEW p \in Pids, NEW o \in Objs, NEW mode \in Modes
  PROVE  Request(t, p, o, mode) \in Tables
<1> DEFINE waiting == t.waiting \cup {[pid |-> p, obj |-> o, mode |-> mode]}
           ahead == t.ahead \cup {<<q, p>> : q \in Waiters(t)}
           asked == [t EXCEPT !.waiting = waiting, !.ahead = ahead]
<1>1. waiting \in SUBSET [pid : Pids, obj : Objs, mode : Modes]
  BY DEF Tables
<1>2. Waiters(t) \subseteq Pids
  BY DEF Waiters, Tables
<1>3. ahead \in SUBSET (Pids \X Pids)
  BY <1>2 DEF Tables
<1>4. asked \in Tables
  <2> HIDE DEF waiting, ahead
  <2> QED BY <1>1, <1>3 DEF Tables
<1>5. Request(t, p, o, mode) = Wake(asked)
  BY DEF Request, Tables
<1> QED BY <1>4, <1>5, WakeTyped

LEMMA ReleaseTyped ==
  ASSUME NEW t \in Tables, NEW owner
  PROVE  Release(t, owner) \in Tables
<1> DEFINE requests == {r \in t.waiting : r.pid = owner}
           without == Leaving(t, requests)
           granted == {g \in without.granted : g.owner # owner}
<1>1. without \in Tables
  BY LeavingTyped
<1> HIDE DEF requests, without
<1>2. granted \in SUBSET [obj : Objs, owner : Pids \cup Gids, mode : Modes]
  BY <1>1 DEF Tables
<1>3. [without EXCEPT !.granted = granted] \in Tables
  <2> HIDE DEF granted
  <2> QED BY <1>1, <1>2 DEF Tables
<1>4. Release(t, owner) = Wake([without EXCEPT !.granted = granted])
  BY <1>1 DEF Release, without, requests, Tables
<1> QED BY <1>3, <1>4, WakeTyped

LEMMA HandOverTyped ==
  ASSUME NEW t \in Tables, NEW p, NEW gid \in Gids
  PROVE  HandOver(t, p, gid) \in Tables
<1> DEFINE granted == {IF g.owner = p THEN [g EXCEPT !.owner = gid] ELSE g : g \in t.granted}
<1>1. granted \in SUBSET [obj : Objs, owner : Pids \cup Gids, mode : Modes]
  <2>1. ASSUME NEW g \in t.granted
        PROVE  (IF g.owner = p THEN [g EXCEPT !.owner = gid] ELSE g)
                 \in [obj : Objs, owner : Pids \cup Gids, mode : Modes]
    BY DEF Tables
  <2> QED BY <2>1
<1>2. HandOver(t, p, gid) = [t EXCEPT !.granted = granted]
  BY DEF HandOver, Tables
<1> HIDE DEF granted
<1> QED BY <1>1, <1>2 DEF Tables

-----------------------------------------------------------------------------
(* The instance *)

InstanceOK ==
  /\ clock \in 0..MaxClock
  /\ sess \in [Pids -> [state : SessionStates, since : 0..MaxClock]]
  /\ table \in Tables
  /\ moves \in 0..MaxMoves

LEMMA BoundsAre == MaxClock \in Nat /\ MaxMoves \in Nat /\ MaxClock < 1000 /\ NoAge = 1000
BY LocksAssumption DEF NoAge

LEMMA BecomeTyped ==
  ASSUME InstanceOK, Clocks, NEW p \in Pids, NEW state \in SessionStates, Become(p, state),
         UNCHANGED clock
  PROVE  sess' \in [Pids -> [state : SessionStates, since : 0..MaxClock]] /\ Clocks'
<1> DEFINE new == [state |-> state, since |-> IF state \in {"idle", "gone"} THEN 0 ELSE clock]
<1>1. new \in [state : SessionStates, since : 0..MaxClock] /\ new.since <= clock
  BY BoundsAre DEF InstanceOK
<1>2. sess' = [sess EXCEPT ![p] = new]
  BY DEF Become
<1> HIDE DEF new
<1>3. sess' \in [Pids -> [state : SessionStates, since : 0..MaxClock]]
  BY <1>1, <1>2 DEF InstanceOK
<1>4. Clocks'
  BY <1>1, <1>2 DEF InstanceOK, Clocks
<1> QED BY <1>3, <1>4

LEMMA InstanceTyped ==
  ASSUME InstanceOK, Clocks, Instance
  PROVE  /\ InstanceOK' /\ Clocks'
         /\ Looking \/ pos = "start"
         /\ UNCHANGED program /\ Remember
<1> DEFINE Fine == /\ clock' \in 0..MaxClock
                   /\ sess' \in [Pids -> [state : SessionStates, since : 0..MaxClock]]
                   /\ Clocks' /\ table' \in Tables
<1>0. /\ clock \in 0..MaxClock /\ table \in Tables
      /\ sess \in [Pids -> [state : SessionStates, since : 0..MaxClock]]
  BY DEF InstanceOK
<1>s. {"idle", "gone", "active", "idle in transaction"} = SessionStates
  BY DEF SessionStates
<1>1. ASSUME NEW p \in Pids, Statement(p) PROVE Fine
  BY <1>0, <1>1, <1>s, BecomeTyped DEF Statement
<1>2. ASSUME NEW p \in Pids, Lock(p) PROVE Fine
  <2>1. PICK o \in Objs : \E mode \in ModesOf(o) : table' = Request(table, p, o, mode)
    BY <1>2 DEF Lock
  <2>m. PICK mode \in ModesOf(o) : table' = Request(table, p, o, mode)
    BY <2>1
  <2>2. mode \in Modes
    BY DEF ModesOf, Modes
  <2>3. table' \in Tables
    BY <1>0, <2>m, <2>2, RequestTyped
  <2> QED BY <1>0, <1>2, <2>3 DEF Lock, Clocks
<1>3. ASSUME NEW p \in Pids, StatementEnds(p) PROVE Fine
  BY <1>0, <1>3, <1>s, BecomeTyped DEF StatementEnds
<1>4. ASSUME NEW p \in Pids, TxnEnds(p) PROVE Fine
  BY <1>0, <1>4, <1>s, BecomeTyped, ReleaseTyped DEF TxnEnds
<1>5. ASSUME NEW p \in Pids, Disconnect(p) PROVE Fine
  BY <1>0, <1>5, <1>s, BecomeTyped DEF Disconnect
<1>6. ASSUME NEW p \in Pids, PrepareTxn(p) PROVE Fine
  <2>1. PICK gid \in Gids : table' = HandOver(table, p, gid)
    BY <1>6 DEF PrepareTxn
  <2>2. table' \in Tables
    BY <1>0, <2>1, HandOverTyped
  <2> QED BY <1>0, <1>6, <1>s, <2>2, BecomeTyped DEF PrepareTxn
<1>7. ASSUME FinishPrepared PROVE Fine
  BY <1>0, <1>7, ReleaseTyped DEF FinishPrepared, Clocks
<1>8. ASSUME Tick PROVE Fine
  <2>1. \A p \in Pids : sess[p].since \in Nat /\ sess[p].since <= clock
    BY <1>0 DEF Clocks
  <2>2. clock' = clock + 1 /\ clock' \in 0..MaxClock /\ UNCHANGED <<sess, table>>
    BY <1>0, <1>8, BoundsAre DEF Tick
  <2> QED BY <1>0, <2>1, <2>2 DEF Clocks
<1> HIDE DEF Fine
<1>9. Fine
  BY <1>1, <1>2, <1>3, <1>4, <1>5, <1>6, <1>7, <1>8 DEF Instance
<1>10. /\ moves' \in 0..MaxMoves
       /\ Looking \/ pos = "start"
       /\ UNCHANGED program /\ Remember
  <2>1. CASE Looking
    BY <2>1, BoundsAre DEF Instance, InstanceOK
  <2>2. CASE ~Looking
    BY <2>2 DEF Instance, InstanceOK
  <2> QED BY <2>1, <2>2
<1> QED BY <1>9, <1>10 DEF InstanceOK, Fine

-----------------------------------------------------------------------------
(* Troubles *)

LEMMA FindingsDiffer ==
  /\ \A p, q : Waiting(p) # IdleInTxn(q)
  /\ \A p, q : Waiting(p) = Waiting(q) => p = q
  /\ \A p, q : IdleInTxn(p) = IdleInTxn(q) => p = q
  /\ \A p : Waiting(p).level = "WARN" /\ IdleInTxn(p).level = "WARN"
<1>1. \A p : /\ Waiting(p).id = "lock.waiting" /\ Waiting(p).of = p
             /\ IdleInTxn(p).id = "session.idle_in_txn" /\ IdleInTxn(p).of = p
             /\ Waiting(p).level = "WARN" /\ IdleInTxn(p).level = "WARN"
  BY DEF Waiting, IdleInTxn
<1>2. \A p, q : Waiting(p) # IdleInTxn(q)
  BY <1>1
<1>3. \A p, q : Waiting(p) = Waiting(q) => p = q
  BY <1>1
<1>4. \A p, q : IdleInTxn(p) = IdleInTxn(q) => p = q
  BY <1>1
<1> QED BY <1>1, <1>2, <1>3, <1>4

LEMMA TroublesAre ==
  /\ Troubles \subseteq AnyTroubles /\ AnyTroubles \subseteq Findings
  /\ \A p \in Pids : Waiting(p) \in Troubles <=> p \in LateWaits /\ Concerns(p)
  /\ \A p \in Pids : Waiting(p) \in AnyTroubles <=> p \in LateWaits
  /\ \A p \in Pids : IdleInTxn(p) \in Troubles <=>
       p = target /\ sess[p].state = "idle in transaction" /\ Age(p) >= Warn
  /\ \A p \in Pids : IdleInTxn(p) \in AnyTroubles <=> IdleInTxn(p) \in Troubles
<1>1. LateWaits \subseteq Pids
  BY DEF LateWaits
<1>2. Troubles \subseteq AnyTroubles /\ AnyTroubles \subseteq Findings
  BY <1>1 DEF Troubles, AnyTroubles, IdleTroubles, Findings
<1>3. ASSUME NEW p \in Pids
      PROVE  IdleInTxn(p) \in IdleTroubles <=>
               p = target /\ sess[p].state = "idle in transaction" /\ Age(p) >= Warn
  BY FindingsDiffer DEF IdleTroubles
<1>4. ASSUME NEW p \in Pids
      PROVE  /\ Waiting(p) \in Troubles <=> p \in LateWaits /\ Concerns(p)
             /\ Waiting(p) \in AnyTroubles <=> p \in LateWaits
             /\ IdleInTxn(p) \in Troubles <=> IdleInTxn(p) \in IdleTroubles
             /\ IdleInTxn(p) \in AnyTroubles <=> IdleInTxn(p) \in IdleTroubles
  <2>1. \A q : Waiting(q) \notin IdleTroubles
    BY FindingsDiffer DEF IdleTroubles
  <2> QED BY <1>1, <2>1, FindingsDiffer DEF Troubles, AnyTroubles
<1> QED BY <1>2, <1>3, <1>4

\* What is known of a pid whose trouble has lasted till now.
LEMMA HeldTells ==
  ASSUME Noticed, Looking, NEW p \in Pids
  PROVE  /\ Waiting(p) \in held => Waits(p) /\ Age(p) >= Warn /\ Concerns(p)
         /\ IdleInTxn(p) \in held =>
              p = target /\ sess[p].state = "idle in transaction" /\ Age(p) >= Warn
BY TroublesAre DEF Noticed, LateWaits

LEMMA TroublesStill ==
  ASSUME UNCHANGED <<instance, target>>
  PROVE  /\ Troubles' = Troubles /\ AnyTroubles' = AnyTroubles /\ Blocks' = Blocks
         /\ \A p : Waits(p)' = Waits(p) /\ Age(p)' = Age(p)
BY DEF Troubles, AnyTroubles, LateWaits, IdleTroubles, Concerns, Blocks, Waits, Age, BlockersOf

LEMMA BlocksAre ==
  ASSUME NEW b \in Blocks
  PROVE  /\ b.waiter \in Waiters(table) /\ b.waiter # b.owner
         /\ \E r \in table.waiting : r = RequestOf(table, b.waiter)
                                     /\ r.pid = b.waiter /\ r.obj = b.obj
         /\ \E g \in table.granted : g.owner = b.owner /\ g.obj = b.obj
         /\ b.owner \in BlockersOf(b.waiter)
<1> DEFINE of(p) == LET r == RequestOf(table, p)
                    IN {[waiter |-> p, owner |-> h, obj |-> r.obj] : h \in HardBlockers(table, r)}
<1>1. PICK p \in Waiters(table) : b \in of(p)
  BY DEF Blocks
<1> DEFINE r == RequestOf(table, p)
<1>2. PICK h \in HardBlockers(table, r) : b = [waiter |-> p, owner |-> h, obj |-> r.obj]
  BY <1>1
<1>3. b.waiter = p /\ b.owner = h /\ b.obj = r.obj
  BY <1>2
<1>4. r \in table.waiting /\ r.pid = p
  BY <1>1, RequestIs
<1>5. PICK g \in table.granted : g.obj = r.obj /\ g.owner # r.pid /\ g.owner = h
  BY <1>2 DEF HardBlockers
<1>6. h \in BlockersOf(p)
  BY <1>2 DEF BlockersOf, Blockers
<1> QED BY <1>1, <1>3, <1>4, <1>5, <1>6

-----------------------------------------------------------------------------
(* Types *)

LEMMA StatusesHave == {"ok", "error"} \subseteq Statuses /\ "none" \notin Read
BY DEF Statuses, Read

LEMMA NotReadIs == NotRead.status = "none" /\ NotRead.rows = {}
BY DEF NotRead

LEMMA FailedIs == Failed.status = "error" /\ Failed.rows = {}
BY DEF Failed

LEMMA PidOfIs == \A o : PidOf(o) \in Pids \cup {PreparedBlocker}
BY DEF PidOf

LEMMA TypesAre ==
  TypeOK <=> /\ InstanceOK
             /\ target \in Targets /\ pos \in Positions
             /\ activity \in [status : Statuses \cup {"none"}, rows : SUBSET SessionRows]
             /\ locks \in [status : Statuses \cup {"none"}, rows : SUBSET LockRows]
             /\ exit \in 0..3 \cup {Running}
BY DEF TypeOK, InstanceOK

LEMMA InvInit == Init => IInv
<1> SUFFICES ASSUME Init PROVE IInv
  OBVIOUS
<1>1. /\ clock = 0 /\ table = EmptyTable /\ moves = 0 /\ target \in Targets /\ pos = "start"
      /\ sess = [p \in Pids |-> [state |-> "idle", since |-> 0]]
      /\ activity = NotRead /\ locks = NotRead /\ exit = Running
      /\ held = {} /\ touched = {} /\ stuck = {}
  BY DEF Init
<1>2. TypeOK
  <2>1. clock \in 0..MaxClock /\ moves \in 0..MaxMoves
    BY <1>1, BoundsAre
  <2>2. sess \in [Pids -> [state : SessionStates, since : 0..MaxClock]]
    BY <1>1, BoundsAre DEF SessionStates
  <2>3. table \in Tables
    BY <1>1 DEF EmptyTable, Tables
  <2>4. /\ NotRead \in [status : Statuses \cup {"none"}, rows : SUBSET SessionRows]
        /\ NotRead \in [status : Statuses \cup {"none"}, rows : SUBSET LockRows]
    BY DEF NotRead
  <2> QED BY <1>1, <2>1, <2>2, <2>3, <2>4, TypesAre DEF InstanceOK, Positions
<1>3. Clocks
  BY <1>1 DEF Clocks
<1>4. Stages /\ Noticed /\ StillStuck /\ Judgement
  BY <1>1 DEF Stages, Noticed, Looking, StillStuck, Judgement
<1>5. ActivityTells /\ LocksTell /\ BlocksTell
  BY <1>1, NotReadIs DEF ActivityTells, LocksTell, BlocksTell
<1> QED BY <1>2, <1>3, <1>4, <1>5 DEF IInv

\* What was told stays told while what lasts shrinks and what has shown grows.
LEMMA TellsStay ==
  ASSUME ActivityTells, LocksTell, BlocksTell,
         UNCHANGED <<target, activity, locks>>,
         held' \subseteq held, touched \subseteq touched', stuck' \subseteq stuck,
         pos # "start", pos' # "blockers" => pos # "blockers"
  PROVE  ActivityTells' /\ LocksTell' /\ BlocksTell'
<1>1. RowsOf(target)' = RowsOf(target)
  BY DEF RowsOf
<1>2. ActivityTells'
  BY DEF ActivityTells
<1>3. LocksTell'
  BY <1>1 DEF LocksTell
<1>4. BlocksTell'
  BY DEF BlocksTell
<1> QED BY <1>2, <1>3, <1>4

LEMMA InstanceKeeps == ASSUME IInv, Instance PROVE IInv'
<1>1. /\ InstanceOK' /\ Clocks' /\ (Looking \/ pos = "start")
      /\ UNCHANGED program /\ Remember
  BY InstanceTyped, TypesAre DEF IInv
<1>2. TypeOK'
  <2>1. (InstanceOK /\ target \in Targets /\ pos \in Positions
         /\ activity \in [status : Statuses \cup {"none"}, rows : SUBSET SessionRows]
         /\ locks \in [status : Statuses \cup {"none"}, rows : SUBSET LockRows]
         /\ exit \in 0..3 \cup {Running} => TypeOK)'
    BY TypesAre, PTL
  <2> QED BY <1>1, <2>1, TypesAre DEF IInv
<1>3. Judgement'
  BY <1>1 DEF Judgement, Looking
<1>4. CASE Looking
  <2>1. /\ held' \subseteq held /\ held' \subseteq Troubles' /\ touched \subseteq touched'
        /\ AnyTroubles' \subseteq touched' /\ stuck' \subseteq stuck
        /\ pos = "blockers" => stuck' \subseteq Blocks'
    BY <1>1, <1>4 DEF Remember
  <2>2. Noticed' /\ StillStuck'
    BY <1>1, <2>1 DEF Noticed, StillStuck
  <2>3. pos # "start"
    BY <1>4 DEF Looking
  <2>4. Stages'
    BY <1>1, <2>3 DEF IInv, Stages
  <2>5. ActivityTells' /\ LocksTell' /\ BlocksTell'
    BY <1>1, <2>1, <2>3, TellsStay DEF IInv
  <2> QED BY <1>1, <1>2, <1>3, <2>2, <2>4, <2>5 DEF IInv
<1>5. CASE pos = "start"
  <2>1. UNCHANGED history /\ pos' = "start" /\ UNCHANGED program
    BY <1>1, <1>5 DEF Remember, Looking
  <2>2. Noticed' /\ StillStuck'
    BY <2>1 DEF Noticed, StillStuck, Looking
  <2>3. Stages'
    BY <1>5, <2>1 DEF IInv, Stages
  <2>4. activity = NotRead /\ locks = NotRead
    BY <1>5 DEF IInv, Stages
  <2>5. ActivityTells' /\ LocksTell' /\ BlocksTell'
    BY <2>1, <2>4, NotReadIs DEF ActivityTells, LocksTell, BlocksTell
  <2> QED BY <1>1, <1>2, <1>3, <2>2, <2>3, <2>5 DEF IInv
<1> QED BY <1>1, <1>4, <1>5

-----------------------------------------------------------------------------
(* The run *)

\* Types and clocks of a step that leaves the instance alone.
LEMMA StepTyped ==
  ASSUME IInv, UNCHANGED instance, target' = target, pos' \in Positions,
         activity' \in [status : Statuses \cup {"none"}, rows : SUBSET SessionRows],
         locks' \in [status : Statuses \cup {"none"}, rows : SUBSET LockRows],
         exit' \in 0..3 \cup {Running}
  PROVE  TypeOK' /\ Clocks'
<1>1. (InstanceOK /\ target \in Targets /\ pos \in Positions
       /\ activity \in [status : Statuses \cup {"none"}, rows : SUBSET SessionRows]
       /\ locks \in [status : Statuses \cup {"none"}, rows : SUBSET LockRows]
       /\ exit \in 0..3 \cup {Running} => TypeOK)'
  BY TypesAre, PTL
<1>2. InstanceOK' /\ Clocks'
  BY TypesAre DEF IInv, InstanceOK, Clocks
<1> QED BY <1>1, <1>2, TypesAre DEF IInv

LEMMA IdentifyKeeps == ASSUME IInv, Identify PROVE IInv'
<1>1. /\ pos = "start" /\ pos' = (IF target = AllLocks THEN "rows" ELSE "activity")
      /\ held' = Troubles /\ touched' = AnyTroubles
      /\ UNCHANGED <<instance, target, activity, locks, exit, stuck>>
  BY DEF Identify
<1>2. /\ Troubles' = Troubles /\ AnyTroubles' = AnyTroubles /\ Troubles \subseteq AnyTroubles
      /\ \A p \in Pids : IdleInTxn(p) \in Troubles => p = target
  BY <1>1, TroublesStill, TroublesAre
<1>3. activity = NotRead /\ locks = NotRead /\ target \in Targets
  BY <1>1, TypesAre DEF IInv, Stages
<1>4. TypeOK' /\ Clocks'
  BY <1>1, StepTyped, TypesAre DEF IInv, Positions
<1>5. Stages'
  BY <1>1, <1>3, ZeroIsNobody DEF IInv, Stages
<1>6. Noticed' /\ StillStuck' /\ Judgement'
  BY <1>1, <1>2 DEF Noticed, StillStuck, Judgement
<1>7. ActivityTells' /\ LocksTell' /\ BlocksTell'
  BY <1>1, <1>2, <1>3, NotReadIs DEF ActivityTells, LocksTell, BlocksTell
<1> QED BY <1>4, <1>5, <1>6, <1>7 DEF IInv

LEMMA SessionActivityKeeps == ASSUME IInv, SessionActivity PROVE IInv'
<1>1. /\ pos = "activity" /\ pos' = "rows"
      /\ UNCHANGED <<instance, target, locks, exit, history>>
  BY DEF SessionActivity
<1>2. /\ Troubles' = Troubles /\ AnyTroubles' = AnyTroubles
  BY <1>1, TroublesStill
<1>3. target \in Pids /\ Looking /\ Noticed /\ Clocks /\ locks = NotRead
  BY <1>1 DEF IInv, Stages, Looking
<1>4. /\ sess[target].state \in SessionStates /\ sess[target].since \in 0..MaxClock
      /\ sess[target].since <= clock /\ clock \in 0..MaxClock
  BY <1>3, TypesAre DEF IInv, InstanceOK, Clocks
<1>5. Age(target) \in 0..MaxClock
  BY <1>4, BoundsAre DEF Age
<1> DEFINE row(hid) == [pid |-> target, state |-> sess[target].state, age |-> Age(target),
                        hidden |-> hid]
<1>6. \/ activity' = Failed
      \/ \E hid \in BOOLEAN : activity' = [status |-> "ok", rows |-> IF sess[target].state # "gone"
                                                                     THEN {row(hid)} ELSE {}]
  <2> SUFFICES ASSUME activity' # Failed
               PROVE  \E hid \in BOOLEAN :
                        activity' = [status |-> "ok", rows |-> IF sess[target].state # "gone"
                                                               THEN {row(hid)} ELSE {}]
    OBVIOUS
  <2>1. PICK hid \in IF target \in Others THEN BOOLEAN ELSE {FALSE} :
          activity' = [status |-> "ok",
            rows |-> {[pid |-> p, state |-> sess[p].state, age |-> Age(p), hidden |-> hid] :
                        p \in {q \in {target} : sess[q].state # "gone"}}]
    BY Zenon DEF SessionActivity
  <2>2. hid \in BOOLEAN
    BY Zenon
  <2>3. {[pid |-> p, state |-> sess[p].state, age |-> Age(p), hidden |-> hid] :
           p \in {q \in {target} : sess[q].state # "gone"}}
        = IF sess[target].state # "gone" THEN {row(hid)} ELSE {}
    OBVIOUS
  <2> QED BY <2>1, <2>2, <2>3
<1>7. \A hid \in BOOLEAN : row(hid) \in SessionRows
  BY <1>3, <1>4, <1>5 DEF SessionRows
<1>8. /\ activity'.status \in Read
      /\ \A r \in activity'.rows : r.state = sess[target].state /\ r.age = Age(target)
      /\ activity'.status = "ok" /\ sess[target].state # "gone" => activity'.rows # {}
      /\ activity' \in [status : Statuses \cup {"none"}, rows : SUBSET SessionRows]
  <2>1. CASE activity' = Failed
    BY <2>1, FailedIs, StatusesHave DEF Read, Failed
  <2>2. ASSUME NEW hid \in BOOLEAN,
               activity' = [status |-> "ok", rows |-> IF sess[target].state # "gone"
                                                      THEN {row(hid)} ELSE {}]
        PROVE  /\ activity'.status \in Read
               /\ \A r \in activity'.rows : r.state = sess[target].state /\ r.age = Age(target)
               /\ activity'.status = "ok" /\ sess[target].state # "gone" => activity'.rows # {}
               /\ activity' \in [status : Statuses \cup {"none"}, rows : SUBSET SessionRows]
    <3>1. row(hid) \in SessionRows /\ row(hid).state = sess[target].state /\ row(hid).age = Age(target)
      BY <1>7
    <3> HIDE DEF row
    <3> QED BY <2>2, <3>1, StatusesHave DEF Read
  <2> QED BY <1>6, <2>1, <2>2
<1>9. TypeOK' /\ Clocks'
  BY <1>1, <1>8, StepTyped, TypesAre DEF IInv, Positions
<1>10. Stages'
  BY <1>1, <1>8, <1>3, ZeroIsNobody DEF IInv, Stages
<1>11. Noticed' /\ StillStuck' /\ Judgement'
  BY <1>1, <1>2, <1>3 DEF Noticed, StillStuck, Judgement
<1>12. ActivityTells'
  <2>1. sess[target].state = "idle in transaction" /\ Age(target) >= Warn
          => IdleInTxn(target) \in touched
    BY <1>3, TroublesAre DEF Noticed
  <2>2. ASSUME NEW p \in Pids, IdleInTxn(p) \in held
        PROVE  p = target /\ sess[p].state = "idle in transaction" /\ Age(p) >= Warn
    BY <1>3, <2>2, HeldTells
  <2> QED BY <1>1, <1>8, <2>1, <2>2 DEF ActivityTells
<1>13. LocksTell' /\ BlocksTell'
  BY <1>1, <1>3, NotReadIs DEF LocksTell, BlocksTell
<1> QED BY <1>9, <1>10, <1>11, <1>12, <1>13 DEF IInv

LEMMA ListLocksKeeps == ASSUME IInv, ListLocks PROVE IInv'
<1>1. /\ pos = "rows"
      /\ UNCHANGED <<instance, target, activity, exit, held, touched>>
  BY DEF ListLocks
<1>2. /\ Troubles' = Troubles /\ AnyTroubles' = AnyTroubles /\ Blocks' = Blocks
  BY <1>1, TroublesStill
<1>3. Noticed /\ Looking /\ (target # AllLocks => activity.status \in Read) /\ exit = Running
  BY <1>1 DEF IInv, Stages, Looking
<1>4. \/ locks' = Failed /\ pos' = "report" /\ UNCHANGED stuck
      \/ \E hidden \in SUBSET Others :
           /\ locks' = [status |-> "ok",
                        rows |-> {GrantedRow(g) : g \in table.granted} \cup
                                 {WaitingRow(r, hidden) : r \in table.waiting}]
           /\ pos' = "blockers" /\ stuck' = Blocks
  BY DEF ListLocks
<1>5. ActivityTells'
  BY <1>1, <1>4 DEF IInv, ActivityTells
<1>6. CASE locks' = Failed /\ pos' = "report" /\ UNCHANGED stuck
  <2>1. TypeOK' /\ Clocks'
    BY <1>1, <1>6, StepTyped, TypesAre, StatusesHave DEF IInv, Positions, Failed
  <2>2. Stages'
    BY <1>1, <1>3, <1>6, FailedIs DEF Stages, Read
  <2>3. Noticed' /\ StillStuck' /\ Judgement'
    BY <1>6 DEF Noticed, StillStuck, Judgement, Looking
  <2>4. LocksTell' /\ BlocksTell'
    BY <1>6, FailedIs DEF LocksTell, BlocksTell
  <2> QED BY <1>5, <2>1, <2>2, <2>3, <2>4 DEF IInv
<1>7. ASSUME NEW hidden \in SUBSET Others,
             locks' = [status |-> "ok",
                       rows |-> {GrantedRow(g) : g \in table.granted} \cup
                                {WaitingRow(r, hidden) : r \in table.waiting}],
             pos' = "blockers", stuck' = Blocks
      PROVE  IInv'
  <2>1. table \in Tables /\ InstanceOK
    BY TypesAre DEF IInv, InstanceOK
  <2>2. /\ locks'.status = "ok"
        /\ \A g \in table.granted : GrantedRow(g) \in locks'.rows
        /\ \A r \in table.waiting : WaitingRow(r, hidden) \in locks'.rows
        /\ \A x \in locks'.rows : \/ \E g \in table.granted : x = GrantedRow(g)
                                  \/ \E r \in table.waiting : x = WaitingRow(r, hidden)
    BY <1>7
  <2>3. \A g \in table.granted :
          /\ GrantedRow(g) \in LockRows
          /\ GrantedRow(g).granted = TRUE /\ GrantedRow(g).pid = PidOf(g.owner)
          /\ GrantedRow(g).obj = g.obj
    <3> TAKE g \in table.granted
    <3>1. g.obj \in Objs /\ g.mode \in Modes /\ PidOf(g.owner) \in Pids \cup {0}
      BY <2>1, PidOfIs DEF Tables, PreparedBlocker
    <3> QED BY <3>1 DEF GrantedRow, LockRows
  <2>4. \A r \in table.waiting :
          /\ WaitingRow(r, hidden) \in LockRows
          /\ WaitingRow(r, hidden).granted = FALSE
          /\ WaitingRow(r, hidden).pid = r.pid /\ r.pid \in Pids
          /\ WaitingRow(r, hidden).obj = r.obj
          /\ WaitingRow(r, hidden).wait \in {NoAge, Age(r.pid)}
    <3> TAKE r \in table.waiting
    <3>1. r.pid \in Pids /\ r.obj \in Objs /\ r.mode \in Modes
      BY <2>1 DEF Tables
    <3>2. Age(r.pid) \in 0..MaxClock
      BY <2>1, <3>1, BoundsAre DEF IInv, Clocks, InstanceOK, Age
    <3>3. (IF r.pid \in hidden THEN NoAge ELSE Age(r.pid)) \in 0..MaxClock \cup {NoAge}
      BY <3>2
    <3> QED BY <3>1, <3>3 DEF WaitingRow, LockRows
  <2>5. locks' \in [status : Statuses \cup {"none"}, rows : SUBSET LockRows]
    <3>1. locks'.rows \in SUBSET LockRows
      BY <2>2, <2>3, <2>4
    <3> QED BY <1>7, <3>1, StatusesHave
  <2>6. TypeOK' /\ Clocks'
    BY <1>1, <1>7, <2>5, StepTyped, TypesAre DEF IInv, Positions
  <2>7. Stages'
    BY <1>1, <1>3, <1>7, <2>2 DEF Stages
  <2>8. Noticed' /\ StillStuck' /\ Judgement'
    BY <1>1, <1>2, <1>3, <1>7 DEF Noticed, Looking, StillStuck, Judgement
  <2>9. \A r \in table.waiting : Waits(r.pid)
    BY DEF Waits, Waiters
  <2>10. LocksTell'
    <3>1. ASSUME NEW x \in locks'.rows, ~x.granted, x.wait # NoAge, x.wait >= Warn
          PROVE  Waiting(x.pid) \in touched
      <4>1. PICK r \in table.waiting : x = WaitingRow(r, hidden)
        BY <2>2, <2>3, <3>1
      <4>2. x.pid = r.pid /\ r.pid \in Pids /\ Age(r.pid) >= Warn /\ Waits(r.pid)
        BY <2>4, <2>9, <3>1, <4>1
      <4>3. Waiting(r.pid) \in AnyTroubles
        BY <4>2, TroublesAre DEF LateWaits
      <4> QED BY <1>3, <4>2, <4>3 DEF Noticed
    <3>2. ASSUME NEW p \in Pids, Waiting(p) \in held
          PROVE  \E x \in locks'.rows : /\ ~x.granted /\ x.pid = p
                                        /\ x.wait = NoAge \/ x.wait >= Warn
      <4>1. Waits(p) /\ Age(p) >= Warn
        BY <1>3, <3>2, HeldTells
      <4>2. PICK r \in table.waiting : r.pid = p
        BY <4>1 DEF Waits, Waiters
      <4> QED BY <2>2, <2>4, <4>1, <4>2
    <3> QED BY <1>1, <1>7, <3>1, <3>2 DEF LocksTell
  <2>11. BlocksTell'
    <3>1. ASSUME NEW b \in Blocks
          PROVE  /\ b.waiter # b.owner
                 /\ \E r \in locks'.rows : ~r.granted /\ r.pid = b.waiter /\ r.obj = b.obj
                 /\ \E r \in locks'.rows : r.granted /\ r.pid = PidOf(b.owner) /\ r.obj = b.obj
      BY <2>2, <2>3, <2>4, BlocksAre
    <3> QED BY <1>7, <3>1 DEF BlocksTell
  <2> QED BY <1>5, <2>6, <2>7, <2>8, <2>10, <2>11 DEF IInv
<1> QED BY <1>4, <1>6, <1>7

LEMMA AskBlockersKeeps == ASSUME IInv, AskBlockers PROVE IInv'
<1> DEFINE now(r) == IF r.granted \/ ~Waits(r.pid) THEN r
                     ELSE [r EXCEPT !.by = {PidOf(b) : b \in BlockersOf(r.pid)}]
<1>1. /\ pos = "blockers" /\ pos' = "report"
      /\ UNCHANGED <<instance, target, activity, exit, history>>
      /\ locks \in [status : Statuses \cup {"none"}, rows : SUBSET LockRows]
  BY TypesAre DEF AskBlockers, IInv
<1>2. /\ Troubles' = Troubles /\ AnyTroubles' = AnyTroubles
  BY <1>1, TroublesStill
<1>3. /\ Looking /\ Noticed /\ stuck \subseteq Blocks /\ locks.status = "ok"
      /\ (target # AllLocks => activity.status \in Read) /\ exit = Running
  BY <1>1 DEF IInv, Stages, Looking, StillStuck
<1>4. locks'.status = "ok" /\ locks'.rows = {now(r) : r \in locks.rows}
  BY <1>1, <1>3 DEF AskBlockers
<1>5. \A r \in locks.rows :
        /\ now(r) \in LockRows
        /\ now(r).granted = r.granted /\ now(r).pid = r.pid /\ now(r).obj = r.obj
        /\ now(r).wait = r.wait
        /\ ~r.granted /\ Waits(r.pid) => \A b \in BlockersOf(r.pid) : PidOf(b) \in now(r).by
  <2> TAKE r \in locks.rows
  <2> DEFINE by == {PidOf(b) : b \in BlockersOf(r.pid)}
  <2>1. by \in SUBSET (Pids \cup {PreparedBlocker})
    BY PidOfIs
  <2>2. r \in LockRows
    BY <1>1
  <2>3. \A b \in BlockersOf(r.pid) : PidOf(b) \in by
    OBVIOUS
  <2> HIDE DEF by
  <2>4. now(r) = r \/ now(r) = [r EXCEPT !.by = by]
    BY DEF by
  <2>5. ~r.granted /\ Waits(r.pid) => now(r) = [r EXCEPT !.by = by]
    BY DEF by
  <2> HIDE DEF now
  <2>6. [r EXCEPT !.by = by] \in LockRows /\ [r EXCEPT !.by = by].by = by
        /\ [r EXCEPT !.by = by].granted = r.granted /\ [r EXCEPT !.by = by].pid = r.pid
        /\ [r EXCEPT !.by = by].obj = r.obj /\ [r EXCEPT !.by = by].wait = r.wait
    BY <2>1, <2>2 DEF LockRows
  <2> QED BY <2>2, <2>3, <2>4, <2>5, <2>6
<1>6. /\ \A r \in locks.rows : now(r) \in locks'.rows
      /\ \A x \in locks'.rows : \E r \in locks.rows : x = now(r)
  BY <1>4
<1> HIDE DEF now
<1>7. TypeOK' /\ Clocks'
  <2>1. locks'.rows \in SUBSET LockRows
    BY <1>5, <1>6
  <2>2. locks' \in [status : Statuses \cup {"none"}, rows : SUBSET LockRows]
    <3>1. locks' = [locks EXCEPT !.rows = locks'.rows]
      BY <1>1 DEF AskBlockers
    <3> QED BY <1>1, <2>1, <3>1
  <2> QED BY <1>1, <2>2, StepTyped, TypesAre DEF IInv, Positions
<1>8. Stages'
  BY <1>1, <1>3, <1>4 DEF Stages, Read
<1>9. Noticed' /\ StillStuck' /\ Judgement'
  BY <1>1 DEF Noticed, Looking, StillStuck, Judgement
<1>10. ActivityTells'
  BY <1>1 DEF IInv, ActivityTells
<1>11. LocksTell'
  <2>1. ASSUME NEW x \in locks'.rows, ~x.granted, x.wait # NoAge, x.wait >= Warn
        PROVE  Waiting(x.pid) \in touched
    <3>1. PICK r \in locks.rows : x = now(r)
      BY <1>6
    <3> QED BY <1>5, <2>1, <3>1 DEF IInv, LocksTell
  <2>2. ASSUME NEW p \in Pids, Waiting(p) \in held
        PROVE  \E x \in locks'.rows : /\ ~x.granted /\ x.pid = p
                                      /\ x.wait = NoAge \/ x.wait >= Warn
                                      /\ x \in RowsOf(target)'
    <3>1. Waits(p) /\ Concerns(p)
      BY <1>3, <2>2, HeldTells
    <3>2. PICK r \in locks.rows : ~r.granted /\ r.pid = p /\ (r.wait = NoAge \/ r.wait >= Warn)
      BY <1>3, <2>2 DEF IInv, LocksTell
    <3>3. /\ now(r) \in locks'.rows /\ ~now(r).granted /\ now(r).pid = p
          /\ now(r).wait = NoAge \/ now(r).wait >= Warn
          /\ \A b \in BlockersOf(p) : PidOf(b) \in now(r).by
      BY <1>5, <1>6, <3>1, <3>2
    <3>4. target \in BlockersOf(p) /\ target # AllLocks => target \in now(r).by
      <4>1. target # AllLocks => PidOf(target) = target
        BY ZeroIsNobody, TypesAre DEF PidOf, IInv
      <4> QED BY <3>3, <4>1
    <3>5. now(r) \in RowsOf(target)'
      BY <1>1, <3>1, <3>3, <3>4 DEF RowsOf, Concerns
    <3> QED BY <3>3, <3>5
  <2> QED BY <1>1, <2>1, <2>2 DEF LocksTell
<1>12. BlocksTell'
  <2>1. ASSUME NEW b \in stuck
        PROVE  /\ b.waiter # b.owner
               /\ \E x \in locks'.rows : /\ ~x.granted /\ x.pid = b.waiter /\ x.obj = b.obj
                                         /\ PidOf(b.owner) \in x.by
               /\ \E x \in locks'.rows : x.granted /\ x.pid = PidOf(b.owner) /\ x.obj = b.obj
    <3>1. /\ b.waiter # b.owner /\ Waits(b.waiter) /\ b.owner \in BlockersOf(b.waiter)
      BY <1>3, BlocksAre DEF Waits
    <3>2. PICK r \in locks.rows : ~r.granted /\ r.pid = b.waiter /\ r.obj = b.obj
      BY <1>3 DEF IInv, BlocksTell
    <3>3. PICK s \in locks.rows : s.granted /\ s.pid = PidOf(b.owner) /\ s.obj = b.obj
      BY <1>3 DEF IInv, BlocksTell
    <3>4. /\ now(r) \in locks'.rows /\ ~now(r).granted /\ now(r).pid = b.waiter
          /\ now(r).obj = b.obj /\ PidOf(b.owner) \in now(r).by
      BY <1>5, <1>6, <3>1, <3>2
    <3>5. /\ now(s) \in locks'.rows /\ now(s).granted /\ now(s).pid = PidOf(b.owner)
          /\ now(s).obj = b.obj
      BY <1>5, <1>6, <3>3
    <3> QED BY <3>1, <3>4, <3>5
  <2> QED BY <1>1, <2>1 DEF BlocksTell
<1> QED BY <1>7, <1>8, <1>9, <1>10, <1>11, <1>12 DEF IInv

LEMMA ExitIs == \A v : ExitCode(v) \in 0..3
BY DEF ExitCode

LEMMA JudgedStill == UNCHANGED <<target, activity, locks>> => Judged' = Judged
BY DEF Judged, JudgeLocks, JudgeSession, RowsOf, NotFound

LEMMA ReportKeeps == ASSUME IInv, Report PROVE IInv'
<1>1. /\ pos = "report" /\ pos' = "done" /\ exit' = ExitCode(Judged.verdict)
      /\ UNCHANGED <<instance, target, activity, locks, history>>
  BY DEF Report
<1>2. exit' \in 0..3
  BY <1>1, ExitIs
<1>3. TypeOK' /\ Clocks'
  BY <1>1, <1>2, StepTyped, TypesAre DEF IInv, Positions
<1>4. Stages'
  BY <1>1, <1>2 DEF IInv, Stages, Running
<1>5. Noticed' /\ StillStuck'
  BY <1>1 DEF Noticed, Looking, StillStuck
<1>6. ActivityTells' /\ LocksTell' /\ BlocksTell'
  BY <1>1, TellsStay DEF IInv
<1>7. Judgement'
  BY <1>1, JudgedStill DEF Judgement
<1> QED BY <1>3, <1>4, <1>5, <1>6, <1>7 DEF IInv

LEMMA StutterKeeps == ASSUME IInv, UNCHANGED vars PROVE IInv'
<1>1. TypeOK' /\ Clocks'
  BY StepTyped, TypesAre DEF IInv
<1>2. Stages'
  BY DEF IInv, Stages
<1>3. Noticed' /\ StillStuck'
  BY TroublesStill DEF IInv, Noticed, Looking, StillStuck
<1>4. ActivityTells'
  BY DEF IInv, ActivityTells
<1>5. LocksTell'
  BY DEF IInv, LocksTell, RowsOf
<1>6. BlocksTell'
  BY DEF IInv, BlocksTell
<1>7. Judgement'
  BY JudgedStill DEF IInv, Judgement
<1> QED BY <1>1, <1>2, <1>3, <1>4, <1>5, <1>6, <1>7 DEF IInv

LEMMA InvNext == IInv /\ [Next]_vars => IInv'
BY InstanceKeeps, IdentifyKeeps, SessionActivityKeeps, ListLocksKeeps, AskBlockersKeeps,
   ReportKeeps, StutterKeeps DEF Next

LEMMA Invariant == Spec => []IInv
BY InvInit, InvNext, PTL DEF Spec

-----------------------------------------------------------------------------
(* What the rule found *)

Late == {r \in RowsOf(target) : ~r.granted /\ r.wait # NoAge /\ r.wait >= Warn}
Idle == {r \in activity.rows : ~r.hidden /\ r.state = "idle in transaction" /\ r.age >= Warn}
LocksHidden == BlindSpot(locks.status) \/ \E r \in RowsOf(target) : ~r.granted /\ r.wait = NoAge
SessionHidden == BlindSpot(activity.status) \/ \E r \in activity.rows : r.hidden

Blind ==
  \/ BlindSpot(locks.status)
  \/ \E r \in RowsOf(target) : ~r.granted /\ r.wait = NoAge
  \/ target # AllLocks /\ (\/ BlindSpot(activity.status) \/ NotFound
                           \/ \E r \in activity.rows : r.hidden)
Found == Late # {} \/ (target # AllLocks /\ Idle # {})

\* The verdict of findings that are all warnings.
LEMMA WarnsAre ==
  ASSUME NEW R
  PROVE  /\ {"WARN" : r \in R} \in SUBSET Levels
         /\ {"WARN" : r \in R} = IF R # {} THEN {"WARN"} ELSE {}
BY DEF Levels

LEMMA VerdictIs ==
  \A u \in BOOLEAN : /\ VerdictOf({"WARN"}, u) = "WARN"
                     /\ VerdictOf({}, u) = IF u THEN "UNKNOWN" ELSE "OK"
BY DEF VerdictOf, Levels

LEMMA JudgedIs ==
  Judged.verdict = IF Found THEN "WARN" ELSE IF Blind THEN "UNKNOWN" ELSE "OK"
<1>1. /\ LocksHidden \in BOOLEAN /\ SessionHidden \in BOOLEAN /\ NotFound \in BOOLEAN
  BY DEF LocksHidden, SessionHidden, NotFound, BlindSpot
<1>2. Blind <=> LocksHidden \/ (target # AllLocks /\ (SessionHidden \/ NotFound))
  BY DEF Blind, LocksHidden, SessionHidden
<1>3. JudgeLocks(RowsOf(target)) = Result({"WARN" : r \in Late}, LocksHidden)
  BY DEF JudgeLocks, Late, LocksHidden
<1>4. JudgeSession(activity) = Result({"WARN" : r \in Idle}, SessionHidden)
  BY DEF JudgeSession, Idle, SessionHidden
<1>5. CASE target = AllLocks
  <2>1. RowsOf(target) = locks.rows
    BY <1>5 DEF RowsOf
  <2>2. Judged.verdict = VerdictOf({"WARN" : r \in Late}, LocksHidden)
    BY <1>3, <1>5, <2>1 DEF Judged, Result
  <2> QED BY <1>1, <1>2, <1>5, <2>2, WarnsAre, VerdictIs DEF Found
<1>6. CASE target # AllLocks
  <2> DEFINE K == {"WARN" : r \in Idle}
             L == {"WARN" : r \in Late}
  <2>1. /\ K \in SUBSET Levels /\ L \in SUBSET Levels
        /\ K \cup L = IF Idle # {} \/ Late # {} THEN {"WARN"} ELSE {}
    BY WarnsAre
  <2>2. Judged = Merge({Result(K, SessionHidden), Result(L, LocksHidden)} \cup
                       {Result({}, TRUE) : x \in {y \in {target} : NotFound}})
    BY <1>3, <1>4, <1>6 DEF Judged
  <2> HIDE DEF K, L
  <2>3. CASE NotFound
    <3>1. {Result({}, TRUE) : x \in {y \in {target} : NotFound}} = {Result({}, TRUE)}
      BY <2>3
    <3>2. Judged = Merge({Result(K, SessionHidden), Result(L, LocksHidden), Result({}, TRUE)})
      BY <2>2, <3>1
    <3>3. Judged.verdict = VerdictOf(K \cup L, TRUE)
      BY <1>1, <2>1, <3>2, MergeWithUnread
    <3> QED BY <1>2, <1>6, <2>1, <2>3, <3>3, VerdictIs DEF Found
  <2>4. CASE ~NotFound
    <3>1. {Result({}, TRUE) : x \in {y \in {target} : NotFound}} = {}
      BY <2>4
    <3>2. Judged = Merge({Result(K, SessionHidden), Result(L, LocksHidden)})
      BY <2>2, <3>1
    <3>3. \A b, u \in BOOLEAN : Merge({Result(K, b), Result(L, u)}).verdict = VerdictOf(K \cup L, b \/ u)
      BY <2>1, MergeOfTwo
    <3>4. Judged.verdict = VerdictOf(K \cup L, SessionHidden \/ LocksHidden)
      BY <1>1, <3>2, <3>3
    <3> QED BY <1>1, <1>2, <1>6, <2>1, <2>4, <3>4, VerdictIs DEF Found
  <2> QED BY <2>3, <2>4
<1> QED BY <1>5, <1>6

\* What the rule found had shown.
LEMMA FoundShowed == ASSUME IInv, Found PROVE \E f \in touched : f.level = "WARN"
<1>1. CASE Late # {}
  <2>1. PICK r \in Late : TRUE
    BY <1>1
  <2>2. r \in locks.rows /\ ~r.granted /\ r.wait # NoAge /\ r.wait >= Warn
    BY <2>1 DEF Late, RowsOf
  <2>3. Waiting(r.pid) \in touched
    BY <2>2 DEF IInv, LocksTell
  <2> QED BY <2>3, FindingsDiffer
<1>2. CASE Idle # {}
  <2>1. IdleInTxn(target) \in touched
    BY <1>2 DEF IInv, ActivityTells, Idle
  <2> QED BY <2>1, FindingsDiffer
<1> QED BY <1>1, <1>2 DEF Found

\* What lasted is found by a rule that was not blind.
LEMMA LastsFound ==
  ASSUME IInv, pos = "done", ~Blind, held \subseteq Findings, held # {}
  PROVE  Found
<1>1. /\ locks.status = "ok" /\ (target # AllLocks => activity.status = "ok")
  BY DEF IInv, Stages, Read, Blind, BlindSpot
<1>2. PICK f \in held : \E p \in Pids : f \in {Waiting(p), IdleInTxn(p)}
  BY DEF Findings
<1>3. PICK p \in Pids : f \in {Waiting(p), IdleInTxn(p)}
  BY <1>2
<1>4. CASE f = Waiting(p)
  <2>1. PICK r \in RowsOf(target) : ~r.granted /\ (r.wait = NoAge \/ r.wait >= Warn)
    BY <1>1, <1>2, <1>4 DEF IInv, LocksTell
  <2>2. r.wait # NoAge
    BY <2>1 DEF Blind
  <2> QED BY <2>1, <2>2 DEF Found, Late
<1>5. CASE f = IdleInTxn(p)
  <2>1. p = target /\ target # AllLocks
    BY <1>2, <1>5, ZeroIsNobody DEF IInv, ActivityTells
  <2>2. PICK r \in activity.rows : r.state = "idle in transaction" /\ r.age >= Warn
    BY <1>1, <1>2, <1>5, <2>1 DEF IInv, ActivityTells
  <2>3. ~r.hidden
    BY <2>1 DEF Blind
  <2> QED BY <2>1, <2>2, <2>3 DEF Found, Idle
<1> QED BY <1>3, <1>4, <1>5

-----------------------------------------------------------------------------
(* What is promised *)

LEMMA InvTypes == IInv => TypeOK
BY DEF IInv

LEMMA InvShows == IInv => ShowsHolder
<1> SUFFICES ASSUME IInv, pos = "done", locks.status = "ok",
                    NEW b \in stuck, target \in {AllLocks, b.owner}
             PROVE  /\ \E r \in RowsOf(target) : ~r.granted /\ r.pid = b.waiter /\ PidOf(b.owner) \in r.by
                    /\ \E r \in IF target = AllLocks THEN Shown ELSE Holds :
                         r.granted /\ r.pid = PidOf(b.owner) /\ r.obj = b.obj
  BY DEF ShowsHolder
<1>1. /\ b.waiter # b.owner
      /\ \E r \in locks.rows : /\ ~r.granted /\ r.pid = b.waiter /\ r.obj = b.obj
                               /\ PidOf(b.owner) \in r.by
      /\ \E r \in locks.rows : r.granted /\ r.pid = PidOf(b.owner) /\ r.obj = b.obj
  BY DEF IInv, BlocksTell
<1>2. PICK w \in locks.rows : /\ ~w.granted /\ w.pid = b.waiter /\ w.obj = b.obj
                              /\ PidOf(b.owner) \in w.by
  BY <1>1
<1>3. PICK g \in locks.rows : g.granted /\ g.pid = PidOf(b.owner) /\ g.obj = b.obj
  BY <1>1
<1>4. target # AllLocks => PidOf(b.owner) = target /\ b.owner = target
  BY ZeroIsNobody, TypesAre DEF IInv, PidOf
<1>5. w \in RowsOf(target)
  BY <1>2, <1>4 DEF RowsOf
<1>6. SameLabel(w.obj, g.obj)
  BY <1>2, <1>3 DEF SameLabel
<1>7. CASE target = AllLocks
  <2>1. g \in HoldsOf(PidOf(b.owner))
    BY <1>2, <1>3, <1>6 DEF HoldsOf
  <2>2. g \in Shown
    BY <2>1, PidOfIs DEF Shown
  <2> QED BY <1>2, <1>3, <1>5, <1>7, <2>2
<1>8. CASE target # AllLocks
  <2>1. g \in RowsOf(target) /\ g.pid = target /\ w.pid # target
    BY <1>1, <1>2, <1>3, <1>4, <1>8 DEF RowsOf
  <2>2. g \in Holds
    BY <1>2, <1>3, <1>5, <1>6, <2>1 DEF Holds
  <2> QED BY <1>2, <1>3, <1>5, <1>8, <2>2
<1> QED BY <1>7, <1>8

\* Every state of a run is well typed, the server's lock table included,
\* whatever its sessions lock, prepare and release.
THEOREM LocksTypeCorrect == Spec => []TypeOK
BY Invariant, InvTypes, PTL

\* A lock that stays in a waiter's way while the query runs is shown with its
\* holder, a prepared transaction's too (lockListSQL, scenario.Locks,
\* writeBlockers, writeHolds).
THEOREM LocksShowsHolder == Spec => []ShowsHolder
BY Invariant, InvShows, PTL

-----------------------------------------------------------------------------
(* locks and session implement HonestAnswer *)

\* What lasts are findings.
HeldTyped == pos # "start" => held \subseteq Findings

LEMMA HeldTypedInvariant == Spec => []HeldTyped
<1>1. Init => HeldTyped
  BY DEF Init, HeldTyped
<1>2. IInv /\ HeldTyped /\ [Next]_vars => HeldTyped'
  <2> SUFFICES ASSUME IInv, HeldTyped, [Next]_vars PROVE HeldTyped'
    OBVIOUS
  <2>1. CASE Instance
    <3>1. UNCHANGED pos /\ Remember
      BY <2>1 DEF Instance
    <3>2. held' \subseteq held
      BY <3>1 DEF Remember
    <3> QED BY <3>1, <3>2 DEF HeldTyped, Findings
  <2>2. CASE Identify
    BY <2>2, TroublesAre DEF Identify, HeldTyped, Findings
  <2>3. CASE SessionActivity \/ ListLocks \/ AskBlockers \/ Report \/ UNCHANGED vars
    BY <2>3 DEF SessionActivity, ListLocks, AskBlockers, Report, HeldTyped, Findings
  <2> QED BY <2>1, <2>2, <2>3 DEF Next
<1> QED BY <1>1, <1>2, Invariant, PTL DEF Spec

Lasting == IF pos = "start" THEN Findings ELSE held
Blinded == pos = "done" /\ Blind

\* An exit code is honest about what lasted and what appeared.
HonestNow ==
  \/ exit = 0 /\ Lasting = {} /\ ~Blinded
  \/ exit = 1 /\ (\E f \in touched : f.level = "WARN") /\ (\A f \in Lasting : f.level # "FAIL")
  \/ exit = 3 /\ Blinded

LEMMA ExitHonest == IInv /\ HeldTyped /\ pos = "done" => HonestNow
<1> SUFFICES ASSUME IInv, HeldTyped, pos = "done" PROVE HonestNow
  OBVIOUS
<1>1. /\ exit = ExitCode(Judged.verdict) /\ Lasting = held /\ held \subseteq Findings
      /\ (Blinded <=> Blind)
  BY DEF IInv, Judgement, Lasting, HeldTyped, Blinded
<1>2. ExitCode("OK") = 0 /\ ExitCode("WARN") = 1 /\ ExitCode("UNKNOWN") = 3
  BY DEF ExitCode
<1>3. \A f \in held : f.level # "FAIL"
  BY <1>1, FindingsDiffer DEF Findings
<1>4. CASE Found
  BY <1>1, <1>2, <1>3, <1>4, JudgedIs, FoundShowed DEF HonestNow
<1>5. CASE ~Found /\ Blind
  BY <1>1, <1>2, <1>5, JudgedIs DEF HonestNow
<1>6. CASE ~Found /\ ~Blind
  BY <1>1, <1>2, <1>6, JudgedIs, LastsFound DEF HonestNow
<1> QED BY <1>4, <1>5, <1>6

\* What lasts shrinks, what appeared grows, and only a run that goes on steps.
LEMMA Ages ==
  ASSUME IInv, Next
  PROVE  /\ Lasting' \subseteq Lasting /\ touched \subseteq touched'
         /\ exit = Running /\ (pos' # "done" => exit' = Running)
<1>1. CASE Instance
  <2>1. UNCHANGED <<pos, exit>> /\ Remember /\ pos # "done"
    BY <1>1 DEF Instance, Looking
  <2>2. held' \subseteq held /\ touched \subseteq touched'
    BY <2>1 DEF Remember
  <2> QED BY <2>1, <2>2 DEF Lasting, Findings, IInv, Stages
<1>2. CASE Identify
  <2>1. pos = "start" /\ pos' # "start" /\ held' = Troubles /\ UNCHANGED exit
    BY <1>2 DEF Identify
  <2>2. touched = {} /\ exit = Running
    BY <2>1 DEF IInv, Stages
  <2> QED BY <2>1, <2>2, TroublesAre DEF Lasting
<1>3. CASE SessionActivity \/ ListLocks \/ AskBlockers \/ Report
  <2>1. /\ UNCHANGED <<held, touched>> /\ pos \notin {"start", "done"} /\ pos' # "start"
        /\ (pos' # "done" => UNCHANGED exit)
    BY <1>3 DEF SessionActivity, ListLocks, AskBlockers, Report
  <2> QED BY <2>1 DEF Lasting, IInv, Stages
<1> QED BY <1>1, <1>2, <1>3 DEF Next

LEMMA RefineInit == Init => Promise!Init
<1> SUFFICES ASSUME Init PROVE Promise!Init
  OBVIOUS
<1>1. pos = "start" /\ exit = Running /\ touched = {}
  BY DEF Init
<1>2. Blinded = FALSE
  BY <1>1 DEF Blinded
<1> QED BY <1>1, <1>2 DEF Promise!Init, Blinded, Blind

LEMMA RefineNext ==
  IInv /\ IInv' /\ HeldTyped' /\ [Next]_vars => [Promise!Next]_Promise!vars
<1> SUFFICES ASSUME IInv, IInv', HeldTyped', [Next]_vars PROVE [Promise!Next]_Promise!vars
  OBVIOUS
<1>h. pos' = "done" => HonestNow'
  <2>1. (IInv /\ HeldTyped /\ pos = "done" => HonestNow)'
    BY ExitHonest, PTL
  <2> QED BY <2>1
<1>1. CASE UNCHANGED vars
  <2>1. RowsOf(target)' = RowsOf(target) /\ (NotFound' <=> NotFound)
    BY <1>1 DEF RowsOf, NotFound
  <2> QED BY <1>1, <2>1 DEF Promise!vars
<1>2. CASE Next
  <2>1. /\ Lasting' \subseteq Lasting /\ touched \subseteq touched'
        /\ exit = Running /\ (pos' # "done" => exit' = Running)
    BY <1>2, Ages
  <2>2. Blinded' \in BOOLEAN
    BY DEF Blinded
  <2>3. CASE pos' # "done"
    BY <2>1, <2>2, <2>3 DEF Promise!Next, Promise!Live, Lasting, Blinded, Blind
  <2>4. CASE pos' = "done"
    <3>1. Promise!Honest(exit')
      BY <1>h, <2>4 DEF HonestNow, Promise!Honest, Lasting, Blinded, Blind
    <3> QED BY <2>1, <2>2, <3>1 DEF Promise!Next, Promise!Answer, Lasting, Blinded, Blind
  <2> QED BY <2>3, <2>4
<1> QED BY <1>1, <1>2

\* The exit codes of locks and of session are as honest as HonestAnswer asks,
\* whatever the sessions do between the queries (rule.Locks, rule.Sessions,
\* scenario.Session).
THEOREM LocksHonest == Spec => Answers
BY Invariant, HeldTypedInvariant, RefineInit, RefineNext, PTL DEF Spec, Answers, Promise!Spec
=============================================================================
