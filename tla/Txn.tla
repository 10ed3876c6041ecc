-------------------------------- MODULE Txn --------------------------------
(***************************************************************************)
(* kbdiag txn against an instance whose transactions go on: sessions begin *)
(* and end transactions, take xids and snapshots, turn a transaction into  *)
(* a prepared one (2PC) that outlives its session; a standby may be        *)
(* promoted.  kbdiag reads the sessions and the prepared transactions with *)
(* two queries, at two moments, judges both by age, and names the oldest   *)
(* xid that holds back the vacuum horizon and who holds it.                *)
(*                                                                         *)
(* A transaction is followed by its xid, so the module can say of one that *)
(* moved from a session to sys_prepared_xacts that it was there all along. *)
(***************************************************************************)
EXTENDS Verdict, FiniteSets, SequencesExt

CONSTANTS
  Pids,          \* the instance's sessions, kbdiag's own connection excluded
  Others,        \* those of users whose activity the account may not see
  Modulus,       \* xids are unsigned and wrap here: 2^32 in the code
  StartXid,      \* the next xid to be given when the behaviour begins
  XactWarn,      \* Thresholds.XactWarnS
  PreparedWarn,  \* Thresholds.PreparedWarnS
  MaxClock,      \* bound: the clock
  MaxXids        \* bound: how many xids are given

\* 0 stands for NULL, as in the server; 1 and 2 are special and never given.
NoXid == 0
Xids == 3..(Modulus - 1)

ASSUME TxnAssumption ==
  /\ Pids \subseteq Nat /\ IsFiniteSet(Pids) /\ Others \subseteq Pids
  /\ Modulus \in Nat /\ Modulus > 6 /\ Modulus % 2 = 0
  /\ StartXid \in Xids
  /\ {XactWarn, PreparedWarn} \subseteq Nat \ {0}
  /\ {MaxClock, MaxXids} \subseteq Nat
  /\ MaxXids + 3 < Modulus \div 2

VARIABLES
  clock, next, given,   \* the server's clock, next xid, and xids given so far
  recovering,           \* sys_is_in_recovery()
  sess,                 \* the open transaction of each session
  prep,                 \* the prepared transactions
  pos, role,            \* how far the run is; facts.Context.Role
  activity, prepared,   \* what the two probes collected
  exit,
  kept,                 \* history: what has held its xid since Identify
  held, touched         \* history: troubles lasting since then, and all shown

server == <<clock, next, given, recovering, sess, prep>>
program == <<pos, role, activity, prepared, exit>>
history == <<kept, held, touched>>
vars == <<server, program, history>>

NoTxn == [open |-> FALSE, start |-> 0, xid |-> NoXid, xmin |-> NoXid]
NotRead == [status |-> "none", rows |-> {}]
Running == 1000

\* The probes in the order the command's argument list evaluates them.
OrderSwapped == <<"txn.prepared", "session.activity">>
Order == <<"session.activity", "txn.prepared">>

\* pos: 0 before the run, 1..2 the probe to read, 3 to report, 4 exited.
Reporting == Len(Order) + 1
Done == Len(Order) + 2
Looking == pos \in 1..Len(Order)

-----------------------------------------------------------------------------
(* Transaction ids *)

\* Unsigned subtraction.
Minus(a, b) == IF a >= b THEN a - b ELSE a - b + Modulus

\* Mutant: compared as plain numbers.
SmallerXID(a, b) == a < b

\* int32(a - b) < 0
OlderXID(a, b) == Minus(a, b) >= Modulus \div 2

\* How long ago an xid was given.
Behind(x) == Minus(next, x)

Following(x) == IF x = Modulus - 1 THEN 3 ELSE x + 1

\* What holds back the horizon: a transaction by its own xid, wherever it is,
\* and a session by its snapshot.
PreparedXids == IF recovering THEN {} ELSE {t.xid : t \in prep}
RunningXids == {sess[p].xid : p \in Pids} \ {NoXid}
Holds ==
  {<<"xid", x>> : x \in RunningXids \cup PreparedXids} \cup
  {<<"xmin", sess[p].xmin, p>> : p \in {q \in Pids : sess[q].xmin # NoXid}}

\* What the rules of txn are about, as it is now.
Troubles ==
  {[id |-> "txn.long", level |-> "WARN", of |-> p] :
     p \in {q \in Pids : sess[q].open /\ clock - sess[q].start >= XactWarn}} \cup
  {[id |-> "txn.prepared", level |-> "WARN", of |-> t.xid] :
     t \in {u \in prep : ~recovering /\ clock - u.at >= PreparedWarn}}

Transactions == [open : BOOLEAN, start : 0..MaxClock,
                 xid : Xids \cup {NoXid}, xmin : Xids \cup {NoXid}]
SessionRows == [pid : Pids, xid : Xids \cup {NoXid}, xmin : Xids \cup {NoXid},
                inXact : BOOLEAN, age : 0..MaxClock, hidden : BOOLEAN]
PreparedRows == [xid : Xids, age : 0..MaxClock]

TypeOK ==
  /\ clock \in 0..MaxClock /\ next \in Xids /\ given \in 0..MaxXids
  /\ recovering \in BOOLEAN
  /\ sess \in [Pids -> Transactions]
  /\ prep \subseteq [xid : Xids, at : 0..MaxClock]
  /\ pos \in 0..Done /\ role \in Roles \cup {"none"}
  /\ activity \in [status : Statuses \cup {"none"}, rows : SUBSET SessionRows]
  /\ prepared \in [status : Statuses \cup {"none"}, rows : SUBSET PreparedRows]
  /\ exit \in 0..3 \cup {Running}

Init ==
  /\ clock = 0 /\ next = StartXid /\ given = 0
  /\ recovering \in BOOLEAN
  /\ sess = [p \in Pids |-> NoTxn]
  /\ prep = {}
  /\ pos = 0 /\ role = "none"
  /\ activity = NotRead /\ prepared = NotRead
  /\ exit = Running
  /\ kept = {} /\ held = {} /\ touched = {}

-----------------------------------------------------------------------------
(* The instance: transactions of the server, as kbdiag's SQL sees them *)

\* What stays true while the run looks is what lasts.
Remember ==
  IF Looking
    THEN /\ kept' = kept \cap Holds'
         /\ held' = held \cap Troubles'
         /\ touched' = touched \cup Troubles'
    ELSE UNCHANGED history

Begin(p) ==
  /\ ~sess[p].open
  /\ sess' = [sess EXCEPT ![p] = [NoTxn EXCEPT !.open = TRUE, !.start = clock]]
  /\ UNCHANGED <<clock, next, given, recovering, prep>>

TakeXid(p) ==
  /\ sess[p].open /\ sess[p].xid = NoXid /\ ~recovering
  /\ given < MaxXids
  /\ sess' = [sess EXCEPT ![p].xid = next]
  /\ next' = Following(next)
  /\ given' = given + 1
  /\ UNCHANGED <<clock, recovering, prep>>

\* A snapshot's xmin is the oldest xid still running, or the next one.
TakeSnapshot(p) ==
  /\ sess[p].open /\ sess[p].xmin = NoXid
  /\ LET running == RunningXids \cup {t.xid : t \in prep} \cup {next}
     IN sess' = [sess EXCEPT ![p].xmin =
                   CHOOSE x \in running : \A y \in running : Behind(y) <= Behind(x)]
  /\ UNCHANGED <<clock, next, given, recovering, prep>>

\* Commit or roll back.
End(p) ==
  /\ sess[p].open
  /\ sess' = [sess EXCEPT ![p] = NoTxn]
  /\ UNCHANGED <<clock, next, given, recovering, prep>>

\* PREPARE TRANSACTION: the session is free again, the xid stays.
Prepare(p) ==
  /\ sess[p].open /\ sess[p].xid # NoXid
  /\ prep' = prep \cup {[xid |-> sess[p].xid, at |-> clock]}
  /\ sess' = [sess EXCEPT ![p] = NoTxn]
  /\ UNCHANGED <<clock, next, given, recovering>>

\* COMMIT PREPARED or ROLLBACK PREPARED.
Finish ==
  /\ \E t \in prep : prep' = prep \ {t}
  /\ UNCHANGED <<clock, next, given, recovering, sess>>

\* A prepared transaction of the primary reaches a standby.
Replay ==
  /\ recovering /\ given < MaxXids
  /\ prep' = prep \cup {[xid |-> next, at |-> clock]}
  /\ next' = Following(next)
  /\ given' = given + 1
  /\ UNCHANGED <<clock, recovering, sess>>

Promote ==
  /\ recovering
  /\ recovering' = FALSE
  /\ UNCHANGED <<clock, next, given, sess, prep>>

Tick ==
  /\ clock < MaxClock
  /\ clock' = clock + 1
  /\ UNCHANGED <<next, given, recovering, sess, prep>>

\* After the last probe the run no longer looks.
Instance ==
  /\ pos < Reporting
  /\ \/ \E p \in Pids : Begin(p) \/ TakeXid(p) \/ TakeSnapshot(p) \/ End(p) \/ Prepare(p)
     \/ Finish \/ Replay \/ Promote \/ Tick
  /\ Remember
  /\ UNCHANGED program

-----------------------------------------------------------------------------
(* The run *)

Identify ==
  /\ pos = 0
  /\ pos' = 1
  /\ role' = IF recovering THEN "standby" ELSE "primary"
  /\ kept' = Holds /\ held' = Troubles /\ touched' = Troubles
  /\ UNCHANGED <<server, activity, prepared, exit>>

\* A query that did not come back, or track_activities found off: skipped and
\* error are judged alike.
Failed == [status |-> "error", rows |-> {}]

\* Every backend has a row; xid and xmin are never masked. The rest of a row
\* is hidden from an account without sys_monitor, or not recorded because
\* track_activities is off there; the rule treats the two alike.
ActivityRows(hidden) ==
  {[pid |-> p, xid |-> sess[p].xid, xmin |-> sess[p].xmin, inXact |-> sess[p].open,
    age |-> IF sess[p].open THEN clock - sess[p].start ELSE 0,
    hidden |-> p \in hidden] : p \in Pids}

SessionActivity ==
  /\ \/ activity' = Failed
     \/ \E hidden \in SUBSET Others :
          activity' = [status |-> "ok", rows |-> ActivityRows(hidden)]
  /\ UNCHANGED prepared

\* Gated on the role Identify read.
TxnPrepared ==
  /\ IF role = "standby"
       THEN prepared' = [status |-> "not_applicable", rows |-> {}]
       ELSE prepared' \in {Failed, [status |-> "ok",
              rows |-> {[xid |-> t.xid, age |-> clock - t.at] : t \in prep}]}
  /\ UNCHANGED activity

Probe ==
  /\ pos \in 1..Len(Order)
  /\ IF Order[pos] = "session.activity" THEN SessionActivity ELSE TxnPrepared
  /\ pos' = pos + 1
  /\ UNCHANGED <<server, role, exit, history>>

\* Mutant: a hidden row is passed over without a word.
LongTxnIgnoresHidden(a) ==
  Result({"WARN" : r \in {s \in a.rows : ~s.hidden /\ s.inXact /\ s.age >= XactWarn}},
         BlindSpot(a.status))

LongTxn(a) ==
  Result({"WARN" : r \in {s \in a.rows : ~s.hidden /\ s.inXact /\ s.age >= XactWarn}},
         BlindSpot(a.status) \/ \E r \in a.rows : r.hidden)

OldPrepared(t) ==
  Result({"WARN" : r \in {s \in t.rows : s.age >= PreparedWarn}}, BlindSpot(t.status))

Judged == Merge({LongTxn(activity), OldPrepared(prepared)})

Report ==
  /\ pos = Reporting
  /\ pos' = Done
  /\ exit' = ExitCode(Judged.verdict)
  /\ UNCHANGED <<server, role, activity, prepared, history>>

Next == Instance \/ Identify \/ Probe \/ Report

Spec == Init /\ [][Next]_vars

-----------------------------------------------------------------------------
(* The oldest xid *)

\* writeOldest: who holds an xid.
Holders ==
  {[xid |-> t.xid, who |-> <<"2PC", t.xid>>] : t \in prepared.rows} \cup
  {[xid |-> r.xid, who |-> <<"xid", r.pid>>] : r \in {s \in activity.rows : s.xid # NoXid}} \cup
  {[xid |-> r.xmin, who |-> <<"xmin", r.pid>>] : r \in {s \in activity.rows : s.xmin # NoXid}}

\* The linear scan of the holders, in some order: the oldest so far.
Scan(hs) ==
  LET old[i \in DOMAIN hs] ==
        IF i = 1 \/ OlderXID(hs[i].xid, old[i - 1]) THEN hs[i].xid ELSE old[i - 1]
  IN old
Oldest == Scan(SetToSeq(Holders))[Cardinality(Holders)]

Labels == {h.who : h \in {g \in Holders : g.xid = Oldest}}

-----------------------------------------------------------------------------
(* What txn promises *)

BothRead == activity.status = "ok" /\ prepared.status \in {"ok", "not_applicable"}

\* When both sources were read, whatever held its xid for the whole run is no
\* older than the xid the report names; if it is that xid, it is named as a
\* holder. A transaction that left its session for sys_prepared_xacts between
\* the two queries is not lost (order of the probes, writeOldest).
OldestNamed ==
  pos = Done /\ BothRead =>
    \A k \in kept :
      /\ Holders # {}
      /\ ~OlderXID(k[2], Oldest)
      /\ k[2] = Oldest =>
           IF k[1] = "xmin" THEN <<"xmin", k[3]>> \in Labels
           ELSE \E w \in Labels : w[1] \in {"xid", "2PC"}

\* The modular scan finds the xid given longest ago, also when the counter has
\* wrapped and whatever order the holders come in (olderXID).
ScanFindsOldest ==
  pos = Done /\ Holders # {} =>
    \A h \in Holders : Behind(h.xid) <= Behind(Oldest)

\* The exit code keeps the promise of HonestAnswer: a long transaction or an
\* old 2PC that was there all along is not answered with OK, an alarm was
\* true at some time, and UNKNOWN means something was hidden (Txn, Merge).
Findings == [id : {"txn.long", "txn.prepared"}, level : {"WARN"}, of : Pids \cup Xids]
Hidden ==
  \/ BlindSpot(activity.status)
  \/ BlindSpot(prepared.status)
  \/ \E r \in activity.rows : r.hidden

Promise == INSTANCE HonestAnswer WITH
  answer <- exit,
  lasting <- IF pos = 0 THEN Findings ELSE held,
  appeared <- touched,
  blinded <- pos = Done /\ Hidden,
  NoAnswer <- Running
\* The run implements HonestAnswer under that mapping (Promise).
Answers == Promise!Spec
=============================================================================
