----------------------------- MODULE TxnProofs -----------------------------
(***************************************************************************)
(* The oldest xid and its holders are named rightly across the wraparound, *)
(* and the exit code of txn keeps the promise of HonestAnswer: for any     *)
(* sessions and modulus, while the xids in play span less than half of it. *)
(***************************************************************************)
EXTENDS Txn, VerdictProofs, FiniteSetTheorems

USE DEF vars, server, program, history

-----------------------------------------------------------------------------
(* The inductive invariant *)

\* Nothing began after now.
Clocks ==
  /\ \A p \in Pids : sess[p].start <= clock
  /\ \A t \in prep : t.at <= clock

\* How far the run is, and what it has by then.
Stages ==
  /\ pos = 0 => kept = {} /\ touched = {}
  /\ pos # 0 => role \in Roles
  /\ pos # Done <=> exit = Running
  /\ pos < 2 => activity = NotRead
  /\ pos < 3 => prepared = NotRead
  /\ pos > 1 => activity.status \in {"ok", "error"}
  /\ pos > 2 => prepared.status \in {"ok", "error", "not_applicable"}
  /\ prepared.status = "not_applicable" => role = "standby"

\* What lasts is so now, what is so now has shown.
Noticed == Looking => kept \subseteq Holds /\ held \subseteq Troubles /\ Troubles \subseteq touched

\* A standby gives no xids of its own.
NoneGiven == recovering => \A p \in Pids : sess[p].xid = NoXid

\* One that is promoted is still a standby to the run, and held no xid.
RoleLasts ==
  /\ role = "primary" => ~recovering
  /\ role = "standby" => /\ \A x : <<"xid", x>> \notin kept
                         /\ \A f \in held : f.id # "txn.prepared"

\* An xid was given no longer ago than there are xids given, but for the
\* three that a wraparound steps over.
NearTo(x, n, g) == Minus(n, x) <= IF x <= n THEN g ELSE g + 3
Near(x) == NearTo(x, next, given)

InPlayNear ==
  /\ \A p \in Pids : /\ sess[p].xid # NoXid => Near(sess[p].xid)
                     /\ sess[p].xmin # NoXid => Near(sess[p].xmin)
  /\ \A t \in prep : Near(t.xid)

RowsNear ==
  /\ \A r \in activity.rows : /\ r.xid # NoXid => Near(r.xid)
                              /\ r.xmin # NoXid => Near(r.xmin)
  /\ \A t \in prepared.rows : Near(t.xid)

\* An xid is of one transaction, and the next one is of none.
Unique ==
  /\ \A p \in Pids : sess[p].xid # next /\ \A t \in prep : t.xid # sess[p].xid
  /\ \A p, q \in Pids : sess[p].xid # NoXid /\ sess[p].xid = sess[q].xid => p = q
  /\ \A t \in prep : t.xid # next

ServerOK ==
  /\ clock \in 0..MaxClock /\ next \in Xids /\ given \in 0..MaxXids
  /\ recovering \in BOOLEAN
  /\ sess \in [Pids -> Transactions]
  /\ prep \subseteq [xid : Xids, at : 0..MaxClock] /\ IsFiniteSet(prep)

ServerInv == ServerOK /\ Clocks /\ NoneGiven /\ InPlayNear /\ Unique

RowsFinite == IsFiniteSet(activity.rows) /\ IsFiniteSet(prepared.rows)

\* The session rows say what has shown, and have what lasts.
ActivityTells ==
  /\ \A r \in activity.rows : r.inXact /\ r.age >= XactWarn =>
       [id |-> "txn.long", level |-> "WARN", of |-> r.pid] \in touched
  /\ activity.status = "ok" => \A f \in held : f.id = "txn.long" =>
       \E r \in activity.rows : r.hidden \/ (r.inXact /\ r.age >= XactWarn)

\* So do those of the prepared transactions.
PreparedTells ==
  /\ \A r \in prepared.rows : r.age >= PreparedWarn =>
       [id |-> "txn.prepared", level |-> "WARN", of |-> r.xid] \in touched
  /\ prepared.status = "ok" => \A f \in held : f.id = "txn.prepared" =>
       \E r \in prepared.rows : r.age >= PreparedWarn

\* A snapshot that lasts is in its session's row. An xid that lasts is in a
\* session's row, or no session has it any more and it will be, or is, among
\* the prepared.
KeptTells ==
  activity.status = "ok" =>
    /\ \A p \in Pids, x \in Xids : <<"xmin", x, p>> \in kept =>
         \E r \in activity.rows : r.pid = p /\ r.xmin = x
    /\ \A x \in Xids : <<"xid", x>> \in kept =>
         \/ \E r \in activity.rows : r.xid = x
         \/ pos = 2 /\ \A p \in Pids : sess[p].xid # x
         \/ pos > 2 /\ (prepared.status = "error" \/ \E r \in prepared.rows : r.xid = x)

Judgement == pos = Done => exit = ExitCode(Judged.verdict)

IInv ==
  /\ TypeOK /\ ServerInv /\ Stages /\ Noticed /\ RoleLasts /\ RowsNear /\ RowsFinite
  /\ ActivityTells /\ PreparedTells /\ KeptTells /\ Judgement

-----------------------------------------------------------------------------
(* Sets of numbers *)

\* What holds at 1, and of a number with the one before it, holds up to n.
LEMMA Ascent ==
  ASSUME NEW n \in Nat, NEW T, 1 \in T, \A i \in 1..n : i \in T /\ i < n => i + 1 \in T
  PROVE  1..n \subseteq T
<1> DEFINE Missed == {i \in 1..n : i \notin T}
<1> SUFFICES ASSUME Missed # {} PROVE FALSE
  OBVIOUS
<1>1. PICK i \in Missed : \A j \in Missed : ~(<<j, i>> \in OpToRel(<, Nat))
  <2>1. Missed \subseteq Nat
    OBVIOUS
  <2> HIDE DEF Missed
  <2> QED BY <2>1, NatLessThanWellFounded, WFMin
<1>2. i \in 1..n /\ i # 1
  OBVIOUS
<1>3. i - 1 \in 1..n /\ i - 1 < i /\ i - 1 < n
  BY <1>2
<1>4. <<i - 1, i>> \in OpToRel(<, Nat)
  BY <1>2, <1>3 DEF OpToRel
<1>5. i - 1 \in T
  BY <1>1, <1>3, <1>4
<1> QED BY <1>2, <1>3, <1>5

LEMMA HasGreatest ==
  ASSUME NEW n \in Nat, NEW B \in SUBSET (0..n), B # {}
  PROVE  \E m \in B : \A b \in B : b <= m
<1> DEFINE C == {n - b : b \in B}
<1>1. C \subseteq Nat /\ C # {}
  <2>1. \A b \in B : n - b \in Nat
    OBVIOUS
  <2>2. PICK b \in B : TRUE
    OBVIOUS
  <2> QED BY <2>1, <2>2, Zenon
<1>2. PICK c \in C : \A d \in C : ~(<<d, c>> \in OpToRel(<, Nat))
  <2> HIDE DEF C
  <2> QED BY <1>1, NatLessThanWellFounded, WFMin
<1>3. PICK m \in B : c = n - m
  OBVIOUS
<1>4. ASSUME NEW b \in B PROVE b <= m
  <2>1. n - b \in C /\ n - b \in Nat /\ n - m \in Nat
    BY <1>1
  <2>2. n - b < n - m => <<n - b, n - m>> \in OpToRel(<, Nat)
    BY <2>1 DEF OpToRel
  <2>3. ~(n - b < n - m)
    BY <1>2, <1>3, <2>1, <2>2
  <2> QED BY <2>3
<1> QED BY <1>4

-----------------------------------------------------------------------------
(* Transaction ids *)

LEMMA NumbersAre ==
  /\ Modulus \in Nat /\ Modulus \div 2 \in Nat /\ Modulus = 2 * (Modulus \div 2)
  /\ MaxXids \in Nat /\ MaxXids + 3 < Modulus \div 2 /\ MaxClock \in Nat
  /\ Xids = 3..(Modulus - 1) /\ NoXid = 0 /\ NoXid \notin Xids /\ Xids \subseteq Nat
BY TxnAssumption, SMT DEF Xids, NoXid

LEMMA BehindIs ==
  ASSUME next \in Xids, NEW x \in Xids
  PROVE  /\ Behind(x) = IF x <= next THEN next - x ELSE next - x + Modulus
         /\ Behind(x) \in 0..Modulus
BY NumbersAre DEF Behind, Minus

\* In the window, modular comparison orders xids by when they were given.
LEMMA OlderIsEarlier ==
  ASSUME next \in Xids, NEW x \in Xids, NEW y \in Xids,
         Behind(x) < Modulus \div 2, Behind(y) < Modulus \div 2
  PROVE  OlderXID(x, y) <=> Behind(x) > Behind(y)
<1>1. /\ Behind(x) = IF x <= next THEN next - x ELSE next - x + Modulus
      /\ Behind(y) = IF y <= next THEN next - y ELSE next - y + Modulus
  BY BehindIs
<1>2. OlderXID(x, y) <=> (IF x >= y THEN x - y ELSE x - y + Modulus) >= Modulus \div 2
  BY DEF OlderXID, Minus
<1> DEFINE half == Modulus \div 2
<1>3. /\ half \in Nat /\ Modulus = 2 * half /\ x \in Nat /\ y \in Nat /\ next \in Nat
      /\ x < Modulus /\ y < Modulus /\ next < Modulus
  BY NumbersAre
<1> HIDE DEF half
<1> QED BY <1>1, <1>2, <1>3, SMT DEF half

Give == given < MaxXids /\ next' = Following(next) /\ given' = given + 1
Steady == UNCHANGED <<next, given>>

LEMMA NearIsIn ==
  ASSUME next \in Xids, given \in 0..MaxXids, NEW x \in Xids, Near(x)
  PROVE  Behind(x) < Modulus \div 2
BY NumbersAre, BehindIs DEF Near, NearTo, Behind

\* A new xid leaves the others in the window, and is none of them.
LEMMA GivenNext ==
  ASSUME next \in Xids, given \in 0..MaxXids, Give \/ Steady
  PROVE  /\ next' \in Xids /\ given' \in 0..MaxXids
         /\ \A x \in Xids : Near(x) => NearTo(x, next', given')
         /\ NearTo(next, next', given')
         /\ Give => next' # next /\ \A x \in Xids : Near(x) => x # next'
<1>1. CASE Steady
  BY <1>1, NumbersAre DEF Steady, Near, NearTo, Minus, Give
<1>2. CASE Give
  <2>1. next' = (IF next = Modulus - 1 THEN 3 ELSE next + 1) /\ given' = given + 1 /\ given < MaxXids
    BY <1>2 DEF Give, Following
  <2>2. next' \in Xids /\ given' \in 0..MaxXids
    BY <2>1, NumbersAre
  <2>3. ASSUME NEW x \in Xids, Near(x)
        PROVE  NearTo(x, next', given') /\ x # next'
    <3>1. Behind(x) = IF x <= next THEN next - x ELSE next - x + Modulus
      BY BehindIs
    <3>2. Behind(x)' = IF x <= next' THEN next' - x ELSE next' - x + Modulus
      BY <2>2, NumbersAre DEF Behind, Minus
    <3>3. Behind(x) <= IF x <= next THEN given ELSE given + 3
      BY <2>3 DEF Near, NearTo, Behind
    <3>4. Behind(x)' <= IF x <= next' THEN given' ELSE given' + 3
      BY <2>1, <3>1, <3>2, <3>3, NumbersAre
    <3>5. x # next'
      BY <2>1, <3>1, <3>3, NumbersAre
    <3> QED BY <3>4, <3>5 DEF NearTo, Behind
  <2>4. NearTo(next, next', given')
    BY <2>1, <2>2, NumbersAre DEF NearTo, Minus
  <2>5. next' # next
    BY <2>1, NumbersAre
  <2> QED BY <2>2, <2>3, <2>4, <2>5
<1> QED BY <1>1, <1>2

-----------------------------------------------------------------------------
(* The server *)

\* What every move of the server keeps, and what it may do to an xid.
ServerMoved ==
  /\ ServerInv'
  /\ Give \/ Steady
  /\ recovering' => recovering
  /\ \A p \in Pids : sess'[p].xid \in {sess[p].xid, NoXid, next}

\* A session's transaction becomes another, t.
LEMMA SessionMoves ==
  ASSUME ServerInv, NEW p \in Pids, NEW t \in Transactions,
         sess' = [sess EXCEPT ![p] = t], UNCHANGED <<clock, recovering>>,
         t.start <= clock, t.xmin # NoXid => Near(t.xmin),
         \/ t.xid \in {sess[p].xid, NoXid} /\ Steady /\ UNCHANGED prep
         \/ t.xid = next /\ ~recovering /\ Give /\ UNCHANGED prep
         \/ /\ t.xid = NoXid /\ Steady /\ sess[p].xid # NoXid
            /\ prep' = prep \cup {[xid |-> sess[p].xid, at |-> clock]}
  PROVE  ServerMoved
<1>n. /\ next \in Xids /\ given \in 0..MaxXids /\ clock \in 0..MaxClock
      /\ sess \in [Pids -> Transactions] /\ prep \subseteq [xid : Xids, at : 0..MaxClock]
      /\ IsFiniteSet(prep)
  BY DEF ServerInv, ServerOK
<1>t. t.xid \in Xids \cup {NoXid} /\ t.xmin \in Xids \cup {NoXid}
  BY DEF Transactions
<1>s. \A q \in Pids : /\ sess[q].xid \in Xids \cup {NoXid} /\ sess[q].xmin \in Xids \cup {NoXid}
                      /\ sess'[q] = IF q = p THEN t ELSE sess[q]
  BY <1>n DEF Transactions
<1>m. Give \/ Steady
  OBVIOUS
<1>g. /\ next' \in Xids /\ given' \in 0..MaxXids
      /\ \A x \in Xids : Near(x) => NearTo(x, next', given')
      /\ NearTo(next, next', given')
      /\ Give => next' # next /\ \A x \in Xids : Near(x) => x # next'
  BY <1>n, <1>m, GivenNext
<1>x. /\ t.xid \in {sess[p].xid, NoXid, next}
      /\ t.xid = next => Give /\ ~recovering
  BY <1>s, <1>n, NumbersAre DEF ServerInv, Unique
<1>p. \A u \in prep' : u \in prep \/ (u.xid = sess[p].xid /\ u.at = clock /\ t.xid = NoXid /\ sess[p].xid # NoXid)
  OBVIOUS
<1>1. ServerOK'
  <2>1. sess' \in [Pids -> Transactions]
    BY <1>n
  <2>2. prep' \subseteq [xid : Xids, at : 0..MaxClock]
    BY <1>n, <1>s
  <2>3. IsFiniteSet(prep')
    <3>1. \A u : IsFiniteSet(prep \cup {u})
      BY <1>n, FS_AddElement
    <3> QED BY <1>n, <3>1
  <2> QED BY <1>n, <1>g, <2>1, <2>2, <2>3 DEF ServerOK, ServerInv
<1>2. Clocks'
  BY <1>s, <1>p, <1>n DEF Clocks, ServerInv
<1>3. NoneGiven'
  BY <1>s, <1>x DEF NoneGiven, ServerInv
<1>4. InPlayNear'
  <2>1. ASSUME NEW q \in Pids
        PROVE  /\ sess'[q].xid # NoXid => NearTo(sess'[q].xid, next', given')
               /\ sess'[q].xmin # NoXid => NearTo(sess'[q].xmin, next', given')
    <3>1. sess[q].xid # NoXid => NearTo(sess[q].xid, next', given')
      BY <1>g, <1>s DEF ServerInv, InPlayNear
    <3>2. sess[q].xmin # NoXid => NearTo(sess[q].xmin, next', given')
      BY <1>g, <1>s DEF ServerInv, InPlayNear
    <3>3. t.xid # NoXid => NearTo(t.xid, next', given')
      BY <1>g, <1>s, <1>x DEF ServerInv, InPlayNear
    <3>4. t.xmin # NoXid => NearTo(t.xmin, next', given')
      BY <1>g, <1>t
    <3> QED BY <1>s, <3>1, <3>2, <3>3, <3>4
  <2>2. ASSUME NEW u \in prep'
        PROVE  NearTo(u.xid, next', given')
    <3>1. u.xid \in Xids /\ Near(u.xid)
      BY <1>n, <1>p, <1>s DEF ServerInv, InPlayNear
    <3> QED BY <1>g, <3>1
  <2> QED BY <2>1, <2>2 DEF InPlayNear, Near
<1>5. Unique'
  <2>1. /\ \A q \in Pids : sess[q].xid # next /\ \A u \in prep : u.xid # sess[q].xid
        /\ \A q, r \in Pids : sess[q].xid # NoXid /\ sess[q].xid = sess[r].xid => q = r
        /\ \A u \in prep : u.xid # next /\ u.xid \in Xids
    BY <1>n DEF ServerInv, Unique
  <2>2. /\ \A q \in Pids : sess[q].xid # next'
        /\ \A u \in prep : u.xid # next'
    BY <1>n, <1>g, <1>s, <1>m, <2>1, NumbersAre DEF ServerInv, InPlayNear, Steady
  <2>3. t.xid # next'
    BY <1>g, <1>x, <2>2, NumbersAre
  <2>4. \A q \in Pids : sess'[q].xid # next' /\ \A u \in prep' : u.xid # sess'[q].xid
    <3> SUFFICES ASSUME NEW q \in Pids
                 PROVE  sess'[q].xid # next' /\ \A u \in prep' : u.xid # sess'[q].xid
      OBVIOUS
    <3>1. sess'[q].xid # next'
      BY <1>s, <2>2, <2>3
    <3>2. ASSUME NEW u \in prep' PROVE u.xid # sess'[q].xid
      <4>1. CASE u \in prep
        BY <4>1, <1>s, <1>x, <2>1, NumbersAre
      <4>2. CASE u.xid = sess[p].xid /\ t.xid = NoXid /\ sess[p].xid # NoXid
        BY <4>2, <1>s, <2>1
      <4> QED BY <1>p, <4>1, <4>2
    <3> QED BY <3>1, <3>2
  <2>5. \A q, r \in Pids : sess'[q].xid # NoXid /\ sess'[q].xid = sess'[r].xid => q = r
    <3> SUFFICES ASSUME NEW q \in Pids, NEW r \in Pids,
                        sess'[q].xid # NoXid, sess'[q].xid = sess'[r].xid
                 PROVE  q = r
      OBVIOUS
    <3>1. CASE q # p /\ r # p
      BY <1>s, <2>1, <3>1
    <3>2. CASE q = p /\ r # p
      BY <1>s, <1>x, <2>1, <3>2
    <3>3. CASE q # p /\ r = p
      BY <1>s, <1>x, <2>1, <3>3
    <3> QED BY <3>1, <3>2, <3>3
  <2>6. \A u \in prep' : u.xid # next'
    BY <1>p, <2>2
  <2> QED BY <2>4, <2>5, <2>6 DEF Unique
<1>6. \A q \in Pids : sess'[q].xid \in {sess[q].xid, NoXid, next}
  BY <1>s, <1>x
<1> QED BY <1>1, <1>2, <1>3, <1>4, <1>5, <1>6 DEF ServerMoved, ServerInv

\* The oldest xid running, of which a snapshot takes its xmin.
LEMMA OldestRuns ==
  ASSUME ServerInv, NEW S \in SUBSET Xids, S # {}
  PROVE  (CHOOSE x \in S : \A y \in S : Behind(y) <= Behind(x)) \in S
<1> DEFINE B == {Behind(x) : x \in S}
<1>1. next \in Xids /\ Modulus \in Nat
  BY NumbersAre DEF ServerInv, ServerOK
<1>2. \A x \in S : Behind(x) \in 0..Modulus
  BY <1>1, BehindIs
<1>3. B \in SUBSET (0..Modulus) /\ B # {}
  BY <1>2, Zenon
<1>4. PICK m \in B : \A b \in B : b <= m
  <2> HIDE DEF B
  <2> QED BY <1>1, <1>3, HasGreatest
<1>5. PICK x \in S : m = Behind(x)
  OBVIOUS
<1>6. \A y \in S : Behind(y) <= Behind(x)
  BY <1>4, <1>5
<1> QED BY <1>6

LEMMA ServerMoves ==
  ASSUME ServerInv,
         \/ \E p \in Pids : Begin(p) \/ TakeXid(p) \/ TakeSnapshot(p) \/ End(p) \/ Prepare(p)
         \/ Finish \/ Replay \/ Promote \/ Tick
  PROVE  ServerMoved
<1>n. /\ next \in Xids /\ given \in 0..MaxXids /\ clock \in 0..MaxClock /\ clock \in Nat
      /\ sess \in [Pids -> Transactions] /\ prep \subseteq [xid : Xids, at : 0..MaxClock]
      /\ IsFiniteSet(prep) /\ recovering \in BOOLEAN
  BY NumbersAre DEF ServerInv, ServerOK
<1>s. \A q \in Pids : /\ sess[q] \in Transactions
                      /\ sess[q].xid \in Xids \cup {NoXid} /\ sess[q].xmin \in Xids \cup {NoXid}
                      /\ sess[q].start <= clock
  BY <1>n DEF Transactions, ServerInv, Clocks
<1>e. NoTxn \in Transactions /\ NoTxn.start <= clock /\ NoTxn.xid = NoXid /\ NoTxn.xmin = NoXid
  <2>1. 0 \in 0..MaxClock /\ 0 <= clock
    BY <1>n, NumbersAre
  <2> QED BY <2>1 DEF NoTxn, Transactions
<1>1. ASSUME NEW p \in Pids, Begin(p) PROVE ServerMoved
  <2> DEFINE t == [NoTxn EXCEPT !.open = TRUE, !.start = clock]
  <2>1. t \in Transactions /\ t.start = clock /\ t.xid = NoXid /\ t.xmin = NoXid
    BY <1>n, <1>e DEF NoTxn, Transactions
  <2>2. sess' = [sess EXCEPT ![p] = t] /\ UNCHANGED <<clock, next, given, recovering, prep>>
    BY <1>1 DEF Begin
  <2> HIDE DEF t
  <2>3. /\ t.start <= clock /\ (t.xmin # NoXid => Near(t.xmin))
        /\ t.xid \in {sess[p].xid, NoXid} /\ Steady /\ UNCHANGED prep
    BY <1>n, <2>1, <2>2 DEF Steady
  <2> QED BY <2>1, <2>2, <2>3, SessionMoves
<1>2. ASSUME NEW p \in Pids, TakeXid(p) PROVE ServerMoved
  <2> DEFINE t == [sess[p] EXCEPT !.xid = next]
  <2>1. /\ t \in Transactions /\ t.start <= clock /\ t.xid = next
        /\ t.xmin # NoXid => Near(t.xmin)
    BY <1>n, <1>s DEF Transactions, ServerInv, InPlayNear
  <2>2. /\ sess' = [sess EXCEPT ![p] = t] /\ UNCHANGED <<clock, recovering, prep>>
        /\ ~recovering /\ Give
    BY <1>2, <1>n DEF TakeXid, Give
  <2> HIDE DEF t
  <2> QED BY <2>1, <2>2, SessionMoves
<1>3. ASSUME NEW p \in Pids, TakeSnapshot(p) PROVE ServerMoved
  <2> DEFINE running == RunningXids \cup {u.xid : u \in prep} \cup {next}
             x == CHOOSE y \in running : \A z \in running : Behind(z) <= Behind(y)
             t == [sess[p] EXCEPT !.xmin = x]
  <2>1. running \in SUBSET Xids /\ running # {}
    BY <1>n, <1>s DEF RunningXids
  <2>2. x \in running
    BY <2>1, OldestRuns
  <2>3. Near(next)
    BY <1>n, NumbersAre DEF Near, NearTo, Minus
  <2>4. \A y \in running : y \in Xids /\ Near(y)
    BY <1>n, <1>s, <2>3 DEF RunningXids, ServerInv, InPlayNear
  <2> HIDE DEF running, x
  <2>5. t \in Transactions /\ t.start <= clock /\ t.xid = sess[p].xid /\ t.xmin = x
    BY <1>s, <2>2, <2>4 DEF Transactions
  <2>6. sess' = [sess EXCEPT ![p] = t] /\ UNCHANGED <<clock, next, given, recovering, prep>>
    BY <1>3, <1>n DEF TakeSnapshot, running, x
  <2> HIDE DEF t
  <2>7. Near(t.xmin) /\ t.xid \in {sess[p].xid, NoXid} /\ Steady
    BY <2>2, <2>4, <2>5, <2>6 DEF Steady
  <2> QED BY <2>5, <2>6, <2>7, SessionMoves
<1>4. ASSUME NEW p \in Pids, End(p) PROVE ServerMoved
  BY <1>4, <1>e, SessionMoves DEF End, Steady
<1>5. ASSUME NEW p \in Pids, Prepare(p) PROVE ServerMoved
  BY <1>5, <1>e, SessionMoves DEF Prepare, Steady
<1>6. ASSUME Finish PROVE ServerMoved
  <2>1. PICK t \in prep : prep' = prep \ {t}
    BY <1>6 DEF Finish
  <2>2. IsFiniteSet(prep')
    BY <1>n, <2>1, FS_RemoveElement
  <2>3. prep' \subseteq prep /\ UNCHANGED <<clock, next, given, recovering, sess>>
    BY <1>6, <2>1 DEF Finish
  <2> QED BY <1>n, <2>2, <2>3
       DEF ServerMoved, ServerInv, ServerOK, Clocks, NoneGiven, InPlayNear, Near, Unique, Steady
<1>7. ASSUME Replay PROVE ServerMoved
  <2> DEFINE t == [xid |-> next, at |-> clock]
  <2>1. /\ prep' = prep \cup {t} /\ Give /\ recovering
        /\ UNCHANGED <<clock, recovering, sess>>
    BY <1>7 DEF Replay, Give
  <2>2. /\ next' \in Xids /\ given' \in 0..MaxXids
        /\ \A x \in Xids : Near(x) => NearTo(x, next', given')
        /\ NearTo(next, next', given')
        /\ next' # next /\ \A x \in Xids : Near(x) => x # next'
    BY <1>n, <2>1, GivenNext
  <2>3. IsFiniteSet(prep')
    BY <1>n, <2>1, FS_AddElement
  <2>4. /\ t.xid = next /\ t.at = clock /\ t \in [xid : Xids, at : 0..MaxClock]
        /\ \A u \in prep' : u \in prep \/ u = t
    BY <1>n, <2>1
  <2> HIDE DEF t
  <2>5. ServerOK'
    BY <1>n, <2>1, <2>2, <2>3, <2>4 DEF ServerOK
  <2>6. Clocks'
    BY <1>n, <1>s, <2>1, <2>4 DEF Clocks, ServerInv
  <2>7. InPlayNear'
    <3>1. ASSUME NEW q \in Pids
          PROVE  /\ sess[q].xid # NoXid => NearTo(sess[q].xid, next', given')
                 /\ sess[q].xmin # NoXid => NearTo(sess[q].xmin, next', given')
      BY <1>s, <2>2 DEF ServerInv, InPlayNear
    <3>2. ASSUME NEW u \in prep'
          PROVE  NearTo(u.xid, next', given')
      BY <1>n, <2>2, <2>4 DEF ServerInv, InPlayNear
    <3> QED BY <2>1, <3>1, <3>2 DEF InPlayNear, Near
  <2>8. NoneGiven'
    BY <2>1 DEF NoneGiven, ServerInv
  <2>9. Unique'
    <3>1. \A q \in Pids : sess[q].xid = NoXid
      BY <2>1 DEF ServerInv, NoneGiven
    <3>2. \A u \in prep' : u.xid \in Xids /\ u.xid # next'
      BY <1>n, <2>2, <2>4 DEF ServerInv, InPlayNear
    <3> QED BY <2>1, <2>2, <3>1, <3>2, NumbersAre DEF Unique
  <2> QED BY <2>1, <2>5, <2>6, <2>7, <2>8, <2>9 DEF ServerMoved, ServerInv
<1>8. ASSUME Promote PROVE ServerMoved
  BY <1>8, <1>n DEF Promote, ServerMoved, ServerInv, ServerOK, Clocks, NoneGiven, InPlayNear,
                    Near, Unique, Steady
<1>9. ASSUME Tick PROVE ServerMoved
  <2>1. clock' \in 0..MaxClock /\ clock' >= clock /\ UNCHANGED <<next, given, recovering, sess, prep>>
    BY <1>9, <1>n, NumbersAre DEF Tick
  <2>2. Clocks'
    <3>1. \A q \in Pids : sess[q].start \in Nat
      BY <1>s, NumbersAre DEF Transactions
    <3>2. \A t \in prep : t.at \in Nat /\ t.at <= clock
      BY <1>n, NumbersAre DEF ServerInv, Clocks
    <3>3. clock' \in Nat
      BY <2>1, NumbersAre
    <3> QED BY <1>n, <1>s, <2>1, <3>1, <3>2, <3>3 DEF Clocks
  <2> QED BY <1>n, <2>1, <2>2
       DEF ServerMoved, ServerInv, ServerOK, NoneGiven, InPlayNear, Near, Unique, Steady
<1> QED BY <1>1, <1>2, <1>3, <1>4, <1>5, <1>6, <1>7, <1>8, <1>9

-----------------------------------------------------------------------------
(* What lasts and what shows *)

LEMMA PositionsAre == /\ Reporting = 3 /\ Done = 4 /\ (Looking <=> pos \in {1, 2})
                      /\ DOMAIN Order = 1..2 /\ Len(Order) = 2
                      /\ Order[1] = "session.activity" /\ Order[2] = "txn.prepared"
<1>1. Len(Order) = 2 /\ DOMAIN Order = 1..2
  BY DEF Order
<1>2. 1..Len(Order) = {1, 2}
  BY <1>1
<1> QED BY <1>1, <1>2 DEF Order, Reporting, Done, Looking

LEMMA HoldsAre ==
  /\ \A x : <<"xid", x>> \in Holds <=> x \in RunningXids \cup PreparedXids
  /\ \A x, p : <<"xmin", x, p>> \in Holds <=> p \in Pids /\ sess[p].xmin = x /\ x # NoXid
  /\ \A k \in Holds : \/ \E x \in RunningXids \cup PreparedXids : k = <<"xid", x>>
                      \/ \E p \in Pids : k = <<"xmin", sess[p].xmin, p>> /\ sess[p].xmin # NoXid
<1>1. \A x, y, p : <<"xid", x>> # <<"xmin", y, p>>
  OBVIOUS
<1>2. \A x, y : <<"xid", x>> = <<"xid", y>> => x = y
  OBVIOUS
<1>3. \A x, y, p, q : <<"xmin", x, p>> = <<"xmin", y, q>> => x = y /\ p = q
  OBVIOUS
<1> QED BY <1>1, <1>2, <1>3 DEF Holds

Long(p) == [id |-> "txn.long", level |-> "WARN", of |-> p]
Old(x) == [id |-> "txn.prepared", level |-> "WARN", of |-> x]

LEMMA TroublesAre ==
  /\ \A p \in Pids : sess[p].open /\ clock - sess[p].start >= XactWarn => Long(p) \in Troubles
  /\ \A t \in prep : ~recovering /\ clock - t.at >= PreparedWarn => Old(t.xid) \in Troubles
  /\ \A f \in Troubles : f.id = "txn.long" =>
       \E p \in Pids : sess[p].open /\ clock - sess[p].start >= XactWarn
  /\ \A f \in Troubles : f.id = "txn.prepared" =>
       ~recovering /\ \E t \in prep : clock - t.at >= PreparedWarn
<1> DEFINE Ps == {q \in Pids : sess[q].open /\ clock - sess[q].start >= XactWarn}
           Ts == {u \in prep : ~recovering /\ clock - u.at >= PreparedWarn}
<1>1. Troubles = {Long(p) : p \in Ps} \cup {Old(t.xid) : t \in Ts}
  BY DEF Troubles, Long, Old
<1>2. \A x : Long(x).id = "txn.long" /\ Old(x).id = "txn.prepared"
  BY DEF Long, Old
<1> QED BY <1>1, <1>2

ProgramOK ==
  /\ pos \in 0..Done /\ role \in Roles \cup {"none"}
  /\ activity \in [status : Statuses \cup {"none"}, rows : SUBSET SessionRows]
  /\ prepared \in [status : Statuses \cup {"none"}, rows : SUBSET PreparedRows]
  /\ exit \in 0..3 \cup {Running}

LEMMA TypesAre == (TypeOK => ProgramOK) /\ (ServerOK /\ ProgramOK => TypeOK)
BY DEF TypeOK, ServerOK, ProgramOK

LEMMA TypeNext == ServerOK' /\ ProgramOK' => TypeOK'
<1>1. (ServerOK /\ ProgramOK => TypeOK)'
  BY TypesAre, PTL
<1> QED BY <1>1

LEMMA SetsAre ==
  /\ Statuses = {"ok", "error", "not_applicable", "skipped"}
  /\ Roles = {"primary", "standby"}
BY DEF Statuses, Roles

-----------------------------------------------------------------------------
(* Every step keeps the invariant *)

LEMMA InvInit == Init => IInv
<1> SUFFICES ASSUME Init PROVE IInv
  OBVIOUS
<1>1. 0 \in 0..MaxClock /\ 0 \in 0..MaxXids /\ StartXid \in Xids /\ NoXid \notin Xids
  BY NumbersAre, TxnAssumption
<1>2. NoTxn \in Transactions /\ NoTxn.start = 0 /\ NoTxn.xid = NoXid /\ NoTxn.xmin = NoXid
  BY <1>1 DEF NoTxn, Transactions
<1>3. /\ clock = 0 /\ next = StartXid /\ given = 0 /\ recovering \in BOOLEAN
      /\ sess = [p \in Pids |-> NoTxn] /\ prep = {} /\ pos = 0 /\ role = "none"
      /\ activity = NotRead /\ prepared = NotRead /\ exit = Running
      /\ kept = {} /\ held = {} /\ touched = {}
  BY DEF Init
<1>4. NotRead.status = "none" /\ NotRead.rows = {}
  BY DEF NotRead
<1>5. IsFiniteSet({})
  BY FS_EmptySet
<1>6. ServerOK
  BY <1>1, <1>2, <1>3, <1>5 DEF ServerOK
<1>7. ServerInv
  BY <1>1, <1>2, <1>3, <1>6 DEF ServerInv, Clocks, NoneGiven, InPlayNear, Unique
<1>8. ProgramOK
  BY <1>3, PositionsAre DEF ProgramOK, NotRead
<1>9. RoleLasts /\ RowsNear /\ RowsFinite /\ ActivityTells /\ PreparedTells /\ KeptTells
  BY <1>3, <1>4, <1>5 DEF RoleLasts, RowsNear, RowsFinite, ActivityTells, PreparedTells, KeptTells
<1>10. Stages /\ Noticed /\ Judgement
  BY <1>3, <1>4, PositionsAre DEF Stages, Noticed, Judgement
<1> QED BY <1>6, <1>7, <1>8, <1>9, <1>10, TypesAre DEF IInv

LEMMA InstanceKeeps == IInv /\ Instance => IInv'
<1> SUFFICES ASSUME IInv, Instance PROVE IInv'
  OBVIOUS
<1>1. ServerMoved
  BY ServerMoves DEF IInv, Instance
<1>2. UNCHANGED program /\ pos < 3 /\ Remember
  BY PositionsAre DEF Instance
<1>3. /\ kept' \subseteq kept /\ held' \subseteq held /\ touched \subseteq touched'
      /\ pos = 0 => UNCHANGED history
  BY <1>2, PositionsAre DEF Remember
<1>4. ProgramOK'
  BY <1>2, TypesAre DEF IInv, ProgramOK
<1>5. TypeOK' /\ ServerInv'
  BY <1>1, <1>4, TypeNext DEF ServerMoved, ServerInv
<1>6. Stages'
  BY <1>2, <1>3, PositionsAre DEF IInv, Stages
<1>7. Noticed'
  BY <1>2, PositionsAre DEF Noticed, Remember, Looking
<1>8. RoleLasts'
  BY <1>1, <1>2, <1>3 DEF IInv, RoleLasts, ServerMoved
<1>9. RowsNear'
  <2>1. /\ next \in Xids /\ given \in 0..MaxXids /\ (Give \/ Steady)
        /\ activity.rows \subseteq SessionRows /\ prepared.rows \subseteq PreparedRows
    BY <1>1, TypesAre DEF IInv, ServerInv, ServerOK, ProgramOK, ServerMoved
  <2>2. \A x \in Xids : Near(x) => NearTo(x, next', given')
    BY <2>1, GivenNext
  <2>3. ASSUME NEW r \in activity.rows
        PROVE  /\ r.xid # NoXid => NearTo(r.xid, next', given')
               /\ r.xmin # NoXid => NearTo(r.xmin, next', given')
    BY <2>1, <2>2 DEF SessionRows, IInv, RowsNear
  <2>4. ASSUME NEW t \in prepared.rows
        PROVE  NearTo(t.xid, next', given')
    BY <2>1, <2>2 DEF PreparedRows, IInv, RowsNear
  <2> QED BY <1>2, <2>3, <2>4 DEF RowsNear, Near
<1>10. RowsFinite' /\ ActivityTells' /\ PreparedTells'
  BY <1>2, <1>3 DEF IInv, RowsFinite, ActivityTells, PreparedTells
<1>11. KeptTells'
  <2>1. ASSUME NEW x \in Xids, <<"xid", x>> \in kept, pos = 2, \A p \in Pids : sess[p].xid # x
        PROVE  \A p \in Pids : sess'[p].xid # x
    <3>1. x \in RunningXids \cup PreparedXids
      BY <2>1, HoldsAre, PositionsAre DEF IInv, Noticed
    <3>2. x # next
      BY <3>1 DEF RunningXids, PreparedXids, IInv, ServerInv, Unique
    <3> QED BY <1>1, <2>1, <3>2, NumbersAre DEF ServerMoved
  <2> QED BY <1>2, <1>3, <2>1 DEF IInv, KeptTells
<1>12. Judgement'
  BY <1>2, PositionsAre DEF Judgement
<1> QED BY <1>5, <1>6, <1>7, <1>8, <1>9, <1>10, <1>11, <1>12 DEF IInv

\* What the server and its history are to, when they stay as they are.
LEMMA ServerStays ==
  ASSUME UNCHANGED server
  PROVE  Holds' = Holds /\ Troubles' = Troubles /\ (ServerInv' <=> ServerInv)
BY DEF Holds, RunningXids, PreparedXids, Troubles, ServerInv, ServerOK, Clocks, NoneGiven,
       InPlayNear, Near, Unique

LEMMA IdentifyKeeps == IInv /\ Identify => IInv'
<1> SUFFICES ASSUME IInv, Identify PROVE IInv'
  OBVIOUS
<1>1. /\ pos = 0 /\ pos' = 1 /\ role' = IF recovering THEN "standby" ELSE "primary"
      /\ kept' = Holds /\ held' = Troubles /\ touched' = Troubles
      /\ UNCHANGED <<server, activity, prepared, exit>>
  BY DEF Identify
<1>2. Holds' = Holds /\ Troubles' = Troubles /\ ServerInv'
  BY <1>1, ServerStays DEF IInv
<1>3. ProgramOK'
  BY <1>1, TypesAre, PositionsAre, SetsAre DEF IInv, ProgramOK
<1>4. TypeOK'
  BY <1>2, <1>3, TypeNext DEF ServerInv
<1>5. activity = NotRead /\ prepared = NotRead /\ exit = Running
  BY <1>1, PositionsAre DEF IInv, Stages
<1>6. NotRead.status = "none" /\ NotRead.rows = {}
  BY DEF NotRead
<1>7. Stages'
  <2>1. prepared.status = "none"
    BY <1>1, PositionsAre DEF IInv, Stages, NotRead
  <2> QED BY <1>1, <1>5, <2>1, PositionsAre, SetsAre DEF Stages
<1>8. Noticed'
  BY <1>1, <1>2 DEF Noticed
<1>9. RoleLasts'
  <2>1. recovering => RunningXids = {} /\ PreparedXids = {}
    BY DEF IInv, ServerInv, NoneGiven, RunningXids, PreparedXids
  <2>2. recovering => /\ \A x : <<"xid", x>> \notin Holds
                      /\ \A f \in Troubles : f.id # "txn.prepared"
    BY <2>1, HoldsAre, TroublesAre
  <2> QED BY <1>1, <2>2 DEF RoleLasts
<1>10. RowsNear' /\ RowsFinite' /\ ActivityTells' /\ PreparedTells' /\ KeptTells'
  BY <1>1, <1>5, <1>6, FS_EmptySet DEF RowsNear, RowsFinite, ActivityTells, PreparedTells, KeptTells
<1>11. Judgement'
  BY <1>1, PositionsAre DEF Judgement
<1> QED BY <1>2, <1>4, <1>7, <1>8, <1>9, <1>10, <1>11 DEF IInv

LEMMA ImageFinite ==
  ASSUME NEW S, IsFiniteSet(S), NEW f, DOMAIN f = S
  PROVE  IsFiniteSet({f[x] : x \in S})
<1> DEFINE T == {f[x] : x \in S}
           g == [x \in S |-> f[x]]
<1>1. g \in Surjection(S, T)
  BY DEF Surjection
<1> HIDE DEF T, g
<1>2. IsFiniteSet(T)
  BY <1>1, FS_Surjection
<1> QED BY <1>2 DEF T

LEMMA FailedIs == Failed.status = "error" /\ Failed.rows = {}
BY DEF Failed

LEMMA SessionActivityKeeps == IInv /\ Probe /\ pos = 1 => IInv'
<1> SUFFICES ASSUME IInv, Probe, pos = 1 PROVE IInv'
  OBVIOUS
<1> DEFINE RowOf(p, hidden) ==
      [pid |-> p, xid |-> sess[p].xid, xmin |-> sess[p].xmin, inXact |-> sess[p].open,
       age |-> IF sess[p].open THEN clock - sess[p].start ELSE 0, hidden |-> p \in hidden]
<1>1. /\ pos' = 2 /\ UNCHANGED <<server, role, exit, history, prepared>>
      /\ \/ activity' = Failed
         \/ \E hidden \in SUBSET Others : activity' = [status |-> "ok", rows |-> ActivityRows(hidden)]
  BY PositionsAre DEF Probe, SessionActivity
<1>2. Holds' = Holds /\ Troubles' = Troubles /\ ServerInv'
  BY <1>1, ServerStays DEF IInv
<1>3. /\ clock \in 0..MaxClock /\ sess \in [Pids -> Transactions] /\ IsFiniteSet(Pids)
      /\ \A p \in Pids : sess[p].start \in 0..MaxClock /\ sess[p].start <= clock
  BY TxnAssumption DEF IInv, ServerInv, ServerOK, Clocks, Transactions
<1>4. /\ kept \subseteq Holds /\ held \subseteq Troubles /\ Troubles \subseteq touched
      /\ prepared = NotRead /\ role \in Roles /\ exit = Running
  BY PositionsAre DEF IInv, Noticed, Stages
<1>5. ASSUME NEW p \in Pids, NEW hidden PROVE RowOf(p, hidden) \in SessionRows
  <2>1. (IF sess[p].open THEN clock - sess[p].start ELSE 0) \in 0..MaxClock
    BY <1>3, NumbersAre
  <2> QED BY <1>3, <2>1 DEF SessionRows, Transactions
<1>6. \A hidden : ActivityRows(hidden) = {RowOf(p, hidden) : p \in Pids}
  BY DEF ActivityRows
<1> HIDE DEF RowOf
<1>7. \/ activity'.status = "error" /\ activity'.rows = {}
      \/ /\ activity'.status = "ok"
         /\ \A r \in activity'.rows : \E p \in Pids : \E hidden : r = RowOf(p, hidden)
         /\ \A p \in Pids : \E hidden : RowOf(p, hidden) \in activity'.rows
  BY <1>1, <1>6, FailedIs
<1>8. activity' \in [status : Statuses \cup {"none"}, rows : SUBSET SessionRows]
  <2>1. {"ok", "error"} \subseteq Statuses
    BY SetsAre
  <2>2. \A hidden : ActivityRows(hidden) \subseteq SessionRows
    BY <1>5, <1>6
  <2> QED BY <1>1, <2>1, <2>2 DEF Failed
<1>9. TypeOK'
  <2>1. ProgramOK'
    BY <1>1, <1>8, TypesAre, PositionsAre DEF IInv, ProgramOK
  <2> QED BY <1>2, <2>1, TypeNext DEF ServerInv
<1>10. IsFiniteSet(activity'.rows)
  <2>1. ASSUME NEW hidden PROVE IsFiniteSet(ActivityRows(hidden))
    <3> DEFINE f == [p \in Pids |-> RowOf(p, hidden)]
    <3>1. ActivityRows(hidden) = {f[p] : p \in Pids} /\ DOMAIN f = Pids
      BY <1>6
    <3> HIDE DEF f
    <3> QED BY <1>3, <3>1, ImageFinite
  <2> QED BY <1>1, <2>1, FailedIs, FS_EmptySet
<1>r. \A p, hidden : /\ RowOf(p, hidden).pid = p /\ RowOf(p, hidden).xid = sess[p].xid
                     /\ RowOf(p, hidden).xmin = sess[p].xmin
                     /\ RowOf(p, hidden).inXact = sess[p].open
                     /\ sess[p].open => RowOf(p, hidden).age = clock - sess[p].start
  BY DEF RowOf
<1>11. RowsNear' /\ RowsFinite'
  <2>1. \A r \in activity'.rows : /\ r.xid # NoXid => Near(r.xid)
                                  /\ r.xmin # NoXid => Near(r.xmin)
    BY <1>7, <1>r DEF IInv, ServerInv, InPlayNear
  <2>2. prepared.rows = {} /\ prepared'.rows = {}
    BY <1>1, <1>4 DEF NotRead
  <2> QED BY <1>1, <1>10, <2>1, <2>2, FS_EmptySet DEF RowsNear, Near, RowsFinite
<1>12. ActivityTells'
  <2>1. ASSUME NEW r \in activity'.rows, r.inXact, r.age >= XactWarn
        PROVE  Long(r.pid) \in touched
    <3>1. PICK p \in Pids : \E hidden : r = RowOf(p, hidden)
      BY <1>7
    <3>2. PICK hidden : r = RowOf(p, hidden)
      BY <3>1
    <3> QED BY <1>4, <1>r, <2>1, <3>2, TroublesAre
  <2>2. ASSUME activity'.status = "ok", NEW f \in held, f.id = "txn.long"
        PROVE  \E r \in activity'.rows : r.hidden \/ (r.inXact /\ r.age >= XactWarn)
    <3>1. PICK p \in Pids : sess[p].open /\ clock - sess[p].start >= XactWarn
      BY <1>4, <2>2, TroublesAre
    <3> QED BY <1>7, <1>r, <2>2, <3>1
  <2> QED BY <1>1, <2>1, <2>2 DEF ActivityTells, Long
<1>13. KeptTells'
  <2>1. ASSUME activity'.status = "ok", NEW p \in Pids, NEW x \in Xids, <<"xmin", x, p>> \in kept
        PROVE  \E r \in activity'.rows : r.pid = p /\ r.xmin = x
    <3>1. sess[p].xmin = x
      BY <1>4, <2>1, HoldsAre
    <3> QED BY <1>7, <1>r, <2>1, <3>1
  <2>2. ASSUME activity'.status = "ok", NEW x \in Xids
        PROVE  (\E r \in activity'.rows : r.xid = x) \/ \A p \in Pids : sess[p].xid # x
    BY <1>7, <1>r, <2>2
  <2> QED BY <1>1, <2>1, <2>2 DEF KeptTells
<1>14. PreparedTells' /\ RoleLasts'
  BY <1>1 DEF IInv, PreparedTells, RoleLasts
<1>15. Stages' /\ Noticed' /\ Judgement'
  <2>1. prepared.status = "none"
    BY <1>1, PositionsAre DEF IInv, Stages, NotRead
  <2> QED BY <1>1, <1>2, <1>4, <1>7, <2>1, PositionsAre DEF Stages, Noticed, Judgement
<1> QED BY <1>2, <1>9, <1>11, <1>12, <1>13, <1>14, <1>15 DEF IInv

LEMMA TxnPreparedKeeps == IInv /\ Probe /\ pos = 2 => IInv'
<1> SUFFICES ASSUME IInv, Probe, pos = 2 PROVE IInv'
  OBVIOUS
<1> DEFINE Rows == {[xid |-> t.xid, age |-> clock - t.at] : t \in prep}
<1>1. /\ pos' = 3 /\ UNCHANGED <<server, role, exit, history, activity>>
      /\ \/ role = "standby" /\ prepared' = [status |-> "not_applicable", rows |-> {}]
         \/ role # "standby" /\ prepared' \in {Failed, [status |-> "ok", rows |-> Rows]}
  BY PositionsAre DEF Probe, TxnPrepared
<1>2. Holds' = Holds /\ Troubles' = Troubles /\ ServerInv'
  BY <1>1, ServerStays DEF IInv
<1>3. /\ clock \in 0..MaxClock /\ prep \subseteq [xid : Xids, at : 0..MaxClock] /\ IsFiniteSet(prep)
      /\ \A t \in prep : t.at \in 0..MaxClock /\ t.at <= clock
  BY DEF IInv, ServerInv, ServerOK, Clocks
<1>4. /\ kept \subseteq Holds /\ held \subseteq Troubles /\ Troubles \subseteq touched
      /\ role \in Roles /\ exit = Running /\ activity.status \in {"ok", "error"}
      /\ role = "standby" \/ ~recovering
  BY PositionsAre, SetsAre DEF IInv, Noticed, Stages, RoleLasts
<1>5. /\ Rows \subseteq PreparedRows
      /\ \A r \in Rows : \E t \in prep : r.xid = t.xid /\ r.age = clock - t.at
      /\ \A t \in prep : \E r \in Rows : r.xid = t.xid /\ r.age = clock - t.at
  <2>1. \A t \in prep : clock - t.at \in 0..MaxClock /\ t.xid \in Xids
    BY <1>3, NumbersAre
  <2>2. \A t \in prep : [xid |-> t.xid, age |-> clock - t.at] \in PreparedRows
    BY <2>1 DEF PreparedRows
  <2>3. Rows \subseteq PreparedRows
    BY <2>2
  <2>4. \A r \in Rows : \E t \in prep : r.xid = t.xid /\ r.age = clock - t.at
    OBVIOUS
  <2>5. ASSUME NEW t \in prep
        PROVE  \E r \in Rows : r.xid = t.xid /\ r.age = clock - t.at
    <3>1. [xid |-> t.xid, age |-> clock - t.at] \in Rows
      OBVIOUS
    <3> QED BY <3>1
  <2> QED BY <2>3, <2>4, <2>5
<1>6. IsFiniteSet(Rows)
  <2> DEFINE f == [t \in prep |-> [xid |-> t.xid, age |-> clock - t.at]]
  <2>1. Rows = {f[t] : t \in prep} /\ DOMAIN f = prep
    OBVIOUS
  <2> HIDE DEF f, Rows
  <2> QED BY <1>3, <2>1, ImageFinite
<1> HIDE DEF Rows
<1>7. \/ role = "standby" /\ prepared'.status = "not_applicable" /\ prepared'.rows = {}
      \/ role # "standby" /\ prepared'.status = "error" /\ prepared'.rows = {}
      \/ role # "standby" /\ prepared'.status = "ok" /\ prepared'.rows = Rows
  BY <1>1, FailedIs
<1>8. TypeOK'
  <2>1. {"ok", "error", "not_applicable"} \subseteq Statuses
    BY SetsAre
  <2>2. prepared' \in [status : Statuses \cup {"none"}, rows : SUBSET PreparedRows]
    BY <1>1, <1>5, <2>1 DEF Failed
  <2>3. ProgramOK'
    BY <1>1, <2>2, TypesAre, PositionsAre DEF IInv, ProgramOK
  <2> QED BY <1>2, <2>3, TypeNext DEF ServerInv
<1>9. RowsNear' /\ RowsFinite'
  <2>1. \A t \in prepared'.rows : Near(t.xid)
    BY <1>5, <1>7 DEF IInv, ServerInv, InPlayNear
  <2> QED BY <1>1, <1>6, <1>7, <2>1, FS_EmptySet DEF IInv, RowsNear, Near, RowsFinite
<1>10. PreparedTells'
  <2>1. ASSUME NEW r \in prepared'.rows, r.age >= PreparedWarn
        PROVE  Old(r.xid) \in touched
    BY <1>4, <1>5, <1>7, <2>1, TroublesAre
  <2>2. ASSUME prepared'.status = "ok", NEW f \in held, f.id = "txn.prepared"
        PROVE  \E r \in prepared'.rows : r.age >= PreparedWarn
    <3>1. PICK t \in prep : clock - t.at >= PreparedWarn
      BY <1>4, <2>2, TroublesAre
    <3> QED BY <1>5, <1>7, <2>2, <3>1
  <2> QED BY <1>1, <2>1, <2>2 DEF PreparedTells, Old
<1>11. KeptTells'
  <2>1. ASSUME activity.status = "ok", NEW x \in Xids, <<"xid", x>> \in kept
        PROVE  \/ \E r \in activity.rows : r.xid = x
               \/ prepared'.status = "error" \/ \E r \in prepared'.rows : r.xid = x
    <3>1. role # "standby"
      BY <2>1 DEF IInv, RoleLasts
    <3>2. CASE \A p \in Pids : sess[p].xid # x
      <4>1. x \in PreparedXids
        BY <1>4, <2>1, <3>2, HoldsAre DEF RunningXids
      <4>2. PICK t \in prep : t.xid = x
        BY <4>1 DEF PreparedXids
      <4> QED BY <1>5, <1>7, <3>1, <4>2
    <3> QED BY <2>1, <3>2 DEF IInv, KeptTells
  <2> QED BY <1>1, <2>1 DEF IInv, KeptTells
<1>12. ActivityTells' /\ RoleLasts'
  BY <1>1 DEF IInv, ActivityTells, RoleLasts
<1>13. Stages' /\ Noticed' /\ Judgement'
  <2>1. Stages'
    BY <1>1, <1>4, <1>7, PositionsAre DEF Stages
  <2>2. ~Looking'
    BY <1>1, PositionsAre DEF Looking
  <2> QED BY <1>1, <2>1, <2>2, PositionsAre DEF Noticed, Judgement
<1> QED BY <1>2, <1>8, <1>9, <1>10, <1>11, <1>12, <1>13 DEF IInv

LEMMA ReportKeeps == IInv /\ Report => IInv'
<1> SUFFICES ASSUME IInv, Report PROVE IInv'
  OBVIOUS
<1>1. /\ pos = 3 /\ pos' = 4 /\ exit' = ExitCode(Judged.verdict)
      /\ UNCHANGED <<server, role, activity, prepared, history>>
  BY PositionsAre DEF Report
<1>2. ServerInv'
  BY <1>1, ServerStays DEF IInv
<1>3. exit' \in 0..3 /\ exit' # Running
  <2>1. Judged.verdict \in Verdicts
    BY DEF Judged, Merge, Result, VerdictOf, Verdicts
  <2> QED BY <1>1, <2>1 DEF Verdicts, ExitCode, Running
<1>4. TypeOK'
  <2>1. ProgramOK'
    BY <1>1, <1>3, TypesAre, PositionsAre DEF IInv, ProgramOK
  <2> QED BY <1>2, <2>1, TypeNext DEF ServerInv
<1>5. Judged' = Judged
  BY <1>1 DEF Judged, LongTxn, OldPrepared
<1>6. Stages' /\ Judgement'
  BY <1>1, <1>3, <1>5, PositionsAre DEF IInv, Stages, Judgement
<1>7. Noticed'
  <2>1. ~Looking'
    BY <1>1, PositionsAre DEF Looking
  <2> QED BY <2>1 DEF Noticed
<1>8. RoleLasts' /\ RowsFinite' /\ ActivityTells' /\ PreparedTells' /\ KeptTells'
  BY <1>1 DEF IInv, RoleLasts, RowsFinite, ActivityTells, PreparedTells, KeptTells
<1>9. RowsNear'
  BY <1>1 DEF IInv, RowsNear, Near
<1> QED BY <1>2, <1>4, <1>6, <1>7, <1>8, <1>9 DEF IInv

LEMMA StutterKeeps == IInv /\ UNCHANGED vars => IInv'
<1> SUFFICES ASSUME IInv, UNCHANGED vars PROVE IInv'
  OBVIOUS
<1>1. Holds' = Holds /\ Troubles' = Troubles /\ ServerInv'
  BY ServerStays DEF IInv
<1>2. TypeOK'
  <2>1. ProgramOK'
    BY TypesAre DEF IInv, ProgramOK
  <2> QED BY <1>1, <2>1, TypeNext DEF ServerInv
<1>3. Judged' = Judged /\ Looking' = Looking
  BY DEF Judged, LongTxn, OldPrepared, Looking
<1> QED BY <1>1, <1>2, <1>3
     DEF IInv, Stages, Noticed, RoleLasts, RowsNear, Near, RowsFinite, ActivityTells,
         PreparedTells, KeptTells, Judgement

LEMMA InvNext == IInv /\ [Next]_vars => IInv'
<1> SUFFICES ASSUME IInv, [Next]_vars PROVE IInv'
  OBVIOUS
<1>1. Probe => pos = 1 \/ pos = 2
  BY PositionsAre DEF Probe
<1> QED BY <1>1, InstanceKeeps, IdentifyKeeps, SessionActivityKeeps, TxnPreparedKeeps,
           ReportKeeps, StutterKeeps DEF Next

LEMMA Invariant == Spec => []IInv
BY InvInit, InvNext, PTL DEF Spec

-----------------------------------------------------------------------------
(* The scan *)

\* The scan of a sequence of holders is what its definition says.
LEMMA ScanIs ==
  ASSUME NEW n \in Nat, n >= 1, NEW hs, DOMAIN hs = 1..n
  PROVE  \A i \in 1..n : Scan(hs)[i] = IF i = 1 \/ OlderXID(hs[i].xid, Scan(hs)[i - 1])
                                       THEN hs[i].xid ELSE Scan(hs)[i - 1]
<1> DEFINE next1(g, i) == IF i = 1 \/ OlderXID(hs[i].xid, g[i - 1]) THEN hs[i].xid ELSE g[i - 1]
           Upto(g, m) == g = [i \in 1..m |-> next1(g, i)]
           T == {m \in 1..n : \E g : Upto(g, m)}
<1>1. 1 \in T
  <2> DEFINE g == [i \in 1..1 |-> hs[1].xid]
  <2>1. \A i \in 1..1 : i = 1
    OBVIOUS
  <2>2. Upto(g, 1)
    BY <2>1
  <2>3. 1 \in 1..n
    OBVIOUS
  <2> HIDE DEF g, Upto
  <2> QED BY <2>2, <2>3
<1>2. ASSUME NEW m \in 1..n, m \in T, m < n PROVE m + 1 \in T
  <2>1. PICK g : Upto(g, m)
    BY <1>2
  <2> DEFINE h == [i \in 1..(m + 1) |-> next1(g, i)]
  <2>2. \A i \in 1..m : h[i] = g[i]
    BY <2>1
  <2>3. \A i \in 1..(m + 1) : next1(h, i) = next1(g, i)
    <3>1. \A i \in 1..(m + 1) : i # 1 => i - 1 \in 1..m
      OBVIOUS
    <3> HIDE DEF h
    <3> QED BY <2>2, <3>1
  <2>4. Upto(h, m + 1)
    <3>1. h = [i \in 1..(m + 1) |-> next1(h, i)]
      BY <2>3
    <3> QED BY <3>1
  <2>5. m + 1 \in 1..n
    BY <1>2
  <2> HIDE DEF h, Upto
  <2> QED BY <2>4, <2>5
<1>3. n \in T
  <2>1. 1..n \subseteq T
    <3> HIDE DEF T
    <3> QED BY <1>1, <1>2, Ascent
  <2>2. n \in 1..n
    OBVIOUS
  <2> QED BY <2>1, <2>2
<1>4. Upto(Scan(hs), n)
  <2>1. (\E g : Upto(g, n)) => Upto(Scan(hs), n)
    BY DEF Scan
  <2> HIDE DEF Upto
  <2> QED BY <1>3, <2>1
<1>5. \A i \in 1..n : Scan(hs)[i] = next1(Scan(hs), i)
  <2> DEFINE s == Scan(hs)
  <2>1. s = [i \in 1..n |-> next1(s, i)]
    BY <1>4
  <2> HIDE DEF s
  <2>2. \A i \in 1..n : s[i] = next1(s, i)
    BY <2>1
  <2> QED BY <2>2 DEF s
<1> QED BY <1>5

\* In the window, the scan ends with the xid given longest ago, in whatever
\* order the holders come.
LEMMA ScanOldest ==
  ASSUME next \in Xids, NEW n \in Nat, n >= 1, NEW hs, DOMAIN hs = 1..n,
         \A i \in 1..n : hs[i].xid \in Xids /\ Behind(hs[i].xid) < Modulus \div 2
  PROVE  /\ \E j \in 1..n : Scan(hs)[n] = hs[j].xid
         /\ \A j \in 1..n : Behind(hs[j].xid) <= Behind(Scan(hs)[n])
<1> DEFINE old == Scan(hs)
           Fine(i) == /\ \E j \in 1..i : old[i] = hs[j].xid
                      /\ \A j \in 1..i : Behind(hs[j].xid) <= Behind(old[i])
           T == {i \in 1..n : Fine(i)}
<1>1. \A i \in 1..n : old[i] = IF i = 1 \/ OlderXID(hs[i].xid, old[i - 1])
                               THEN hs[i].xid ELSE old[i - 1]
  BY ScanIs
<1>b. \A x \in Xids : Behind(x) \in Nat
  BY BehindIs, NumbersAre
<1> HIDE DEF old
<1>2. 1 \in T
  <2>1. 1 \in 1..n /\ old[1] = hs[1].xid /\ \A j \in 1..1 : j = 1
    BY <1>1
  <2>2. Behind(hs[1].xid) <= Behind(hs[1].xid)
    BY <1>b, <2>1
  <2> QED BY <2>1, <2>2
<1>3. ASSUME NEW i \in 1..n, i \in T, i < n PROVE i + 1 \in T
  <2>1. /\ i + 1 \in 1..n /\ i + 1 # 1 /\ (i + 1) - 1 = i
        /\ \A j \in 1..(i + 1) : j \in 1..i \/ j = i + 1
        /\ 1..i \subseteq 1..(i + 1) /\ i + 1 \in 1..(i + 1) /\ 1..i \subseteq 1..n
    BY <1>3
  <2>2. /\ \E j \in 1..i : old[i] = hs[j].xid
        /\ \A j \in 1..i : Behind(hs[j].xid) <= Behind(old[i])
    BY <1>3
  <2> DEFINE x == hs[i + 1].xid
             y == old[i]
  <2>3. /\ x \in Xids /\ y \in Xids /\ Behind(x) \in Nat /\ Behind(y) \in Nat
        /\ Behind(x) < Modulus \div 2 /\ Behind(y) < Modulus \div 2
    BY <1>b, <2>1, <2>2
  <2>4. OlderXID(x, y) <=> Behind(x) > Behind(y)
    BY <2>3, OlderIsEarlier
  <2>5. old[i + 1] = IF OlderXID(x, y) THEN x ELSE y
    BY <1>1, <2>1
  <2>6. Behind(x) <= Behind(old[i + 1]) /\ Behind(y) <= Behind(old[i + 1])
    BY <2>3, <2>4, <2>5
  <2>7. \E j \in 1..(i + 1) : old[i + 1] = hs[j].xid
    BY <2>1, <2>2, <2>5
  <2>8. ASSUME NEW j \in 1..(i + 1)
        PROVE  Behind(hs[j].xid) <= Behind(old[i + 1])
    <3>1. CASE j = i + 1
      BY <2>6, <3>1
    <3>2. CASE j \in 1..i
      <4>1. Behind(hs[j].xid) <= Behind(y) /\ hs[j].xid \in Xids
        BY <2>1, <2>2, <3>2
      <4>2. Behind(hs[j].xid) \in Nat /\ old[i + 1] \in Xids /\ Behind(old[i + 1]) \in Nat
        BY <1>b, <2>3, <2>5, <4>1
      <4> HIDE DEF x, y
      <4> QED BY <2>3, <2>6, <4>1, <4>2
    <3> QED BY <2>1, <3>1, <3>2
  <2> QED BY <2>1, <2>7, <2>8
<1>4. n \in T
  <2>1. 1..n \subseteq T
    <3> HIDE DEF T
    <3> QED BY <1>2, <1>3, Ascent
  <2> QED BY <2>1
<1> QED BY <1>4 DEF old

LEMMA InSomeOrder ==
  ASSUME NEW S, IsFiniteSet(S)
  PROVE  /\ Cardinality(S) \in Nat /\ (S # {} => Cardinality(S) >= 1)
         /\ DOMAIN SetToSeq(S) = 1..Cardinality(S)
         /\ \A i \in 1..Cardinality(S) : SetToSeq(S)[i] \in S
         /\ \A h \in S : \E i \in 1..Cardinality(S) : SetToSeq(S)[i] = h
<1> DEFINE n == Cardinality(S)
           hs == SetToSeq(S)
<1>1. n \in Nat /\ ExistsBijection(1..n, S)
  BY FS_CardinalityType
<1>2. S # {} => n >= 1
  BY <1>1, FS_EmptySet
<1>3. \E f \in [1..n -> S] : IsInjective(f)
  BY <1>1 DEF ExistsBijection, Bijection, Injection
<1>4. hs \in [1..n -> S] /\ IsInjective(hs)
  BY <1>3 DEF SetToSeq
<1> HIDE DEF hs
<1>5. hs \in Injection(1..n, S)
  BY <1>4 DEF Injection
<1>6. IsFiniteSet(1..n) /\ Cardinality(1..n) = n
  BY <1>1, FS_Interval
<1>7. hs \in Surjection(1..n, S)
  BY <1>5, <1>6, FS_Injection
<1>8. \A h \in S : \E i \in 1..n : hs[i] = h
  BY <1>7 DEF Surjection
<1> QED BY <1>1, <1>2, <1>4, <1>8 DEF hs

LEMMA HoldersAre ==
  ASSUME IInv
  PROVE  /\ IsFiniteSet(Holders)
         /\ \A h \in Holders : h.xid \in Xids /\ Behind(h.xid) < Modulus \div 2
         /\ \A t \in prepared.rows : \E h \in Holders : h.xid = t.xid /\ h.who[1] = "2PC"
         /\ \A r \in activity.rows :
              /\ r.xid # NoXid => \E h \in Holders : h.xid = r.xid /\ h.who[1] = "xid"
              /\ r.xmin # NoXid => \E h \in Holders : h.xid = r.xmin /\ h.who = <<"xmin", r.pid>>
<1> DEFINE A == {[xid |-> t.xid, who |-> <<"2PC", t.xid>>] : t \in prepared.rows}
           Bx == {s \in activity.rows : s.xid # NoXid}
           Cx == {s \in activity.rows : s.xmin # NoXid}
           B == {[xid |-> r.xid, who |-> <<"xid", r.pid>>] : r \in Bx}
           C == {[xid |-> r.xmin, who |-> <<"xmin", r.pid>>] : r \in Cx}
<1>1. Holders = A \cup B \cup C
  BY DEF Holders
<1>2. /\ next \in Xids /\ given \in 0..MaxXids
      /\ activity.rows \subseteq SessionRows /\ prepared.rows \subseteq PreparedRows
      /\ IsFiniteSet(activity.rows) /\ IsFiniteSet(prepared.rows)
  BY TypesAre DEF IInv, ServerInv, ServerOK, ProgramOK, RowsFinite
<1>3. IsFiniteSet(Holders)
  <2>1. IsFiniteSet(A)
    <3> DEFINE f == [t \in prepared.rows |-> [xid |-> t.xid, who |-> <<"2PC", t.xid>>]]
    <3>1. A = {f[t] : t \in prepared.rows} /\ DOMAIN f = prepared.rows
      OBVIOUS
    <3> HIDE DEF f, A
    <3> QED BY <1>2, <3>1, ImageFinite
  <2>2. IsFiniteSet(Bx) /\ IsFiniteSet(Cx)
    <3>1. Bx \in SUBSET activity.rows /\ Cx \in SUBSET activity.rows
      OBVIOUS
    <3> HIDE DEF Bx, Cx
    <3> QED BY <1>2, <3>1, FS_Subset
  <2>3. IsFiniteSet(B)
    <3> DEFINE f == [r \in Bx |-> [xid |-> r.xid, who |-> <<"xid", r.pid>>]]
    <3>1. B = {f[r] : r \in Bx} /\ DOMAIN f = Bx
      OBVIOUS
    <3> HIDE DEF f, B, Bx
    <3> QED BY <2>2, <3>1, ImageFinite
  <2>4. IsFiniteSet(C)
    <3> DEFINE f == [r \in Cx |-> [xid |-> r.xmin, who |-> <<"xmin", r.pid>>]]
    <3>1. C = {f[r] : r \in Cx} /\ DOMAIN f = Cx
      OBVIOUS
    <3> HIDE DEF f, C, Cx
    <3> QED BY <2>2, <3>1, ImageFinite
  <2> HIDE DEF A, B, C
  <2>5. IsFiniteSet(A \cup B)
    BY <2>1, <2>3, FS_Union
  <2>6. IsFiniteSet((A \cup B) \cup C)
    BY <2>4, <2>5, FS_Union
  <2> QED BY <1>1, <2>6
<1>4. /\ \A r \in activity.rows : r.xid \in Xids \cup {NoXid} /\ r.xmin \in Xids \cup {NoXid}
      /\ \A t \in prepared.rows : t.xid \in Xids
  BY <1>2 DEF SessionRows, PreparedRows
<1>5. ASSUME NEW h \in Holders
      PROVE  h.xid \in Xids /\ Behind(h.xid) < Modulus \div 2
  <2>1. h.xid \in Xids /\ Near(h.xid)
    BY <1>1, <1>4 DEF IInv, RowsNear
  <2> QED BY <1>2, <2>1, NearIsIn
<1>6. ASSUME NEW t \in prepared.rows
      PROVE  \E h \in Holders : h.xid = t.xid /\ h.who[1] = "2PC"
  <2>1. [xid |-> t.xid, who |-> <<"2PC", t.xid>>] \in Holders
    BY <1>1
  <2> QED BY <2>1
<1>7. ASSUME NEW r \in activity.rows
      PROVE  /\ r.xid # NoXid => \E h \in Holders : h.xid = r.xid /\ h.who[1] = "xid"
             /\ r.xmin # NoXid => \E h \in Holders : h.xid = r.xmin /\ h.who = <<"xmin", r.pid>>
  <2>1. r.xid # NoXid => [xid |-> r.xid, who |-> <<"xid", r.pid>>] \in Holders
    BY <1>1
  <2>2. r.xmin # NoXid => [xid |-> r.xmin, who |-> <<"xmin", r.pid>>] \in Holders
    BY <1>1
  <2> QED BY <2>1, <2>2
<1> QED BY <1>3, <1>5, <1>6, <1>7

LEMMA OldestIs ==
  ASSUME IInv, Holders # {}
  PROVE  /\ Oldest \in Xids /\ Behind(Oldest) < Modulus \div 2
         /\ \A h \in Holders : Behind(h.xid) <= Behind(Oldest)
<1> DEFINE hs == SetToSeq(Holders)
           n == Cardinality(Holders)
<1>1. next \in Xids
  BY DEF IInv, ServerInv, ServerOK
<1>2. /\ IsFiniteSet(Holders)
      /\ \A h \in Holders : h.xid \in Xids /\ Behind(h.xid) < Modulus \div 2
  BY HoldersAre
<1>3. /\ n \in Nat /\ n >= 1 /\ DOMAIN hs = 1..n
      /\ \A i \in 1..n : hs[i] \in Holders
      /\ \A h \in Holders : \E i \in 1..n : hs[i] = h
  BY <1>2, InSomeOrder
<1>4. Oldest = Scan(hs)[n]
  BY DEF Oldest
<1> HIDE DEF hs, n
<1>5. \A i \in 1..n : hs[i].xid \in Xids /\ Behind(hs[i].xid) < Modulus \div 2
  BY <1>2, <1>3
<1>6. /\ \E j \in 1..n : Scan(hs)[n] = hs[j].xid
      /\ \A j \in 1..n : Behind(hs[j].xid) <= Behind(Scan(hs)[n])
  BY <1>1, <1>3, <1>5, ScanOldest
<1> QED BY <1>3, <1>4, <1>5, <1>6

-----------------------------------------------------------------------------
(* What the history holds *)

HistoryTyped ==
  /\ pos # 0 => held \subseteq Findings
  /\ \A k \in kept : \/ \E x \in Xids : k = <<"xid", x>>
                     \/ \E x \in Xids, p \in Pids : k = <<"xmin", x, p>>

LEMMA HoldsTyped ==
  ServerOK => \A k \in Holds : \/ \E x \in Xids : k = <<"xid", x>>
                               \/ \E x \in Xids, p \in Pids : k = <<"xmin", x, p>>
<1> SUFFICES ASSUME ServerOK
             PROVE  \A k \in Holds : \/ \E x \in Xids : k = <<"xid", x>>
                                     \/ \E x \in Xids, p \in Pids : k = <<"xmin", x, p>>
  OBVIOUS
<1>1. \A p \in Pids : sess[p].xid \in Xids \cup {NoXid} /\ sess[p].xmin \in Xids \cup {NoXid}
  BY DEF ServerOK, Transactions
<1>2. RunningXids \cup PreparedXids \subseteq Xids
  BY <1>1 DEF RunningXids, PreparedXids, ServerOK
<1> QED BY <1>1, <1>2, HoldsAre

LEMMA TroublesTyped == ServerOK => Troubles \subseteq Findings
<1> SUFFICES ASSUME ServerOK, NEW f \in Troubles PROVE f \in Findings
  OBVIOUS
<1>1. \/ \E p \in Pids : f = Long(p)
      \/ \E t \in prep : f = Old(t.xid)
  BY DEF Troubles, Long, Old
<1>2. \A t \in prep : t.xid \in Xids
  BY DEF ServerOK
<1> QED BY <1>1, <1>2 DEF Findings, Long, Old

LEMMA HistoryInvariant == Spec => []HistoryTyped
<1>1. Init => HistoryTyped
  BY DEF Init, HistoryTyped
<1>2. IInv /\ HistoryTyped /\ [Next]_vars => HistoryTyped'
  <2> SUFFICES ASSUME IInv, HistoryTyped, [Next]_vars PROVE HistoryTyped'
    OBVIOUS
  <2>1. CASE Instance
    <3>1. UNCHANGED pos /\ Remember
      BY <2>1 DEF Instance
    <3>2. kept' \subseteq kept /\ held' \subseteq held
      BY <3>1 DEF Remember
    <3> QED BY <3>1, <3>2 DEF HistoryTyped, Findings
  <2>2. CASE Identify
    BY <2>2, HoldsTyped, TroublesTyped DEF Identify, HistoryTyped, IInv, ServerInv, Findings
  <2>3. CASE Probe \/ Report \/ UNCHANGED vars
    <3>1. /\ UNCHANGED <<kept, held>> /\ (pos' # 0 => pos # 0)
      BY <2>3, PositionsAre DEF Probe, Report
    <3> QED BY <3>1 DEF HistoryTyped, Findings
  <2> QED BY <2>1, <2>2, <2>3 DEF Next
<1> QED BY <1>1, <1>2, Invariant, PTL DEF Spec

-----------------------------------------------------------------------------
(* What is promised of the oldest xid *)

LEMMA InvTypes == IInv => TypeOK
BY DEF IInv

LEMMA InvScan == IInv => ScanFindsOldest
BY OldestIs DEF ScanFindsOldest

LEMMA InvOldest == IInv /\ HistoryTyped => OldestNamed
<1> SUFFICES ASSUME IInv, HistoryTyped, pos = Done, BothRead, NEW k \in kept
             PROVE  /\ Holders # {} /\ ~OlderXID(k[2], Oldest)
                    /\ k[2] = Oldest =>
                         IF k[1] = "xmin" THEN <<"xmin", k[3]>> \in Labels
                         ELSE \E w \in Labels : w[1] \in {"xid", "2PC"}
  BY DEF OldestNamed
<1>1. /\ activity.status = "ok" /\ prepared.status # "error" /\ next \in Xids /\ pos = 4
  BY PositionsAre DEF BothRead, IInv, ServerInv, ServerOK
<1>2. \A x \in Xids : x # NoXid
  BY NumbersAre
<1>3. \A h \in Holders : ~OlderXID(h.xid, Oldest)
  <2> SUFFICES ASSUME NEW h \in Holders PROVE ~OlderXID(h.xid, Oldest)
    OBVIOUS
  <2>1. /\ Oldest \in Xids /\ Behind(Oldest) < Modulus \div 2
        /\ Behind(h.xid) <= Behind(Oldest)
    BY OldestIs
  <2>2. h.xid \in Xids /\ Behind(h.xid) < Modulus \div 2
    BY HoldersAre
  <2>3. Behind(h.xid) \in Nat /\ Behind(Oldest) \in Nat
    BY <1>1, <2>1, <2>2, BehindIs, NumbersAre
  <2> QED BY <1>1, <2>1, <2>2, <2>3, OlderIsEarlier
<1>4. \A h \in Holders : h.xid = Oldest => h.who \in Labels
  BY DEF Labels
<1>5. ASSUME NEW x \in Xids, k = <<"xid", x>>
      PROVE  \E h \in Holders : h.xid = x /\ h.who[1] \in {"xid", "2PC"}
  <2>1. \/ \E r \in activity.rows : r.xid = x
        \/ \E t \in prepared.rows : t.xid = x
    BY <1>1, <1>5 DEF IInv, KeptTells
  <2> QED BY <1>2, <2>1, HoldersAre
<1>6. ASSUME NEW x \in Xids, NEW p \in Pids, k = <<"xmin", x, p>>
      PROVE  \E h \in Holders : h.xid = x /\ h.who = <<"xmin", p>>
  <2>1. PICK r \in activity.rows : r.pid = p /\ r.xmin = x
    BY <1>1, <1>6 DEF IInv, KeptTells
  <2>2. [xid |-> r.xmin, who |-> <<"xmin", r.pid>>] \in Holders
    BY <1>2, <2>1 DEF Holders
  <2> QED BY <2>1, <2>2
<1>7. CASE \E x \in Xids : k = <<"xid", x>>
  <2>1. PICK x \in Xids : k = <<"xid", x>>
    BY <1>7
  <2>2. PICK h \in Holders : h.xid = x /\ h.who[1] \in {"xid", "2PC"}
    BY <1>5, <2>1
  <2>3. k[1] = "xid" /\ k[2] = x
    BY <2>1
  <2> QED BY <1>3, <1>4, <2>2, <2>3
<1>8. CASE \E x \in Xids, p \in Pids : k = <<"xmin", x, p>>
  <2>1. PICK x \in Xids, p \in Pids : k = <<"xmin", x, p>>
    BY <1>8
  <2>2. PICK h \in Holders : h.xid = x /\ h.who = <<"xmin", p>>
    BY <1>6, <2>1
  <2>3. k[1] = "xmin" /\ k[2] = x /\ k[3] = p
    BY <2>1
  <2> QED BY <1>3, <1>4, <2>2, <2>3
<1> QED BY <1>7, <1>8 DEF HistoryTyped

\* Every state of a run of txn is well typed.
THEOREM TxnTypeCorrect == Spec => []TypeOK
BY Invariant, InvTypes, PTL

\* The linear scan by modular comparison ends with the xid given longest ago,
\* also across the wraparound (olderXID, writeOldest).
THEOREM TxnScan == Spec => []ScanFindsOldest
BY Invariant, InvScan, PTL

\* What held its xid throughout the run is no older than the xid the report
\* names, and is named if it is that one, though it may move from its session
\* to sys_prepared_xacts between the two queries (newTxn's order of the probes,
\* writeOldest).
THEOREM TxnOldestNamed == Spec => []OldestNamed
BY Invariant, HistoryInvariant, InvOldest, PTL

-----------------------------------------------------------------------------
(* txn implements HonestAnswer *)

LongRows == {r \in activity.rows : ~r.hidden /\ r.inXact /\ r.age >= XactWarn}
OldRows == {r \in prepared.rows : r.age >= PreparedWarn}
Found == LongRows # {} \/ OldRows # {}

LEMMA WarnsAre ==
  ASSUME NEW R
  PROVE  /\ {"WARN" : r \in R} \in SUBSET Levels
         /\ {"WARN" : r \in R} = IF R # {} THEN {"WARN"} ELSE {}
BY DEF Levels

LEMMA JudgedIs ==
  Judged.verdict = IF Found THEN "WARN" ELSE IF Hidden THEN "UNKNOWN" ELSE "OK"
<1> DEFINE K == {"WARN" : r \in LongRows}
           L == {"WARN" : r \in OldRows}
           a == BlindSpot(activity.status) \/ \E r \in activity.rows : r.hidden
           b == BlindSpot(prepared.status)
<1>1. LongTxn(activity) = Result(K, a) /\ OldPrepared(prepared) = Result(L, b)
  BY DEF LongTxn, OldPrepared, LongRows, OldRows
<1>2. a \in BOOLEAN /\ b \in BOOLEAN /\ (Hidden <=> a \/ b)
  BY DEF BlindSpot, Hidden
<1>3. /\ K \in SUBSET Levels /\ L \in SUBSET Levels
      /\ K \cup L = IF Found THEN {"WARN"} ELSE {}
  BY WarnsAre DEF Found
<1> HIDE DEF K, L, a, b
<1>4. Judged = Merge({Result(K, a), Result(L, b)})
  BY <1>1 DEF Judged
<1>5. \A u, v \in BOOLEAN : Merge({Result(K, u), Result(L, v)}).verdict = VerdictOf(K \cup L, u \/ v)
  BY <1>3, MergeOfTwo
<1>6. Judged.verdict = VerdictOf(K \cup L, a \/ b)
  BY <1>2, <1>4, <1>5
<1>7. \A u \in BOOLEAN : /\ VerdictOf({"WARN"}, u) = "WARN"
                         /\ VerdictOf({}, u) = IF u THEN "UNKNOWN" ELSE "OK"
  BY DEF VerdictOf, Levels
<1> QED BY <1>2, <1>3, <1>6, <1>7

LEMMA FoundShowed ==
  ASSUME IInv, Found
  PROVE  \E f \in touched : f.level = "WARN"
<1>1. \A x : Long(x).level = "WARN" /\ Old(x).level = "WARN"
  BY DEF Long, Old
<1>2. CASE LongRows # {}
  <2>1. PICK r \in activity.rows : r.inXact /\ r.age >= XactWarn
    BY <1>2 DEF LongRows
  <2>2. Long(r.pid) \in touched
    BY <2>1 DEF IInv, ActivityTells, Long
  <2> QED BY <1>1, <2>2
<1>3. CASE OldRows # {}
  <2>1. PICK r \in prepared.rows : r.age >= PreparedWarn
    BY <1>3 DEF OldRows
  <2>2. Old(r.xid) \in touched
    BY <2>1 DEF IInv, PreparedTells, Old
  <2> QED BY <1>1, <2>2
<1> QED BY <1>2, <1>3 DEF Found

\* What lasted is found by a rule from which nothing was hidden.
LEMMA LastsFound ==
  ASSUME IInv, HistoryTyped, pos = Done, ~Hidden, held # {}
  PROVE  Found
<1>1. /\ pos = 4 /\ held \subseteq Findings /\ role \in {"primary", "standby"}
      /\ activity.status = "ok" /\ prepared.status \in {"ok", "not_applicable"}
  BY PositionsAre, SetsAre DEF IInv, Stages, Hidden, BlindSpot, HistoryTyped
<1>2. PICK f \in held : f.id \in {"txn.long", "txn.prepared"}
  BY <1>1 DEF Findings
<1>3. CASE f.id = "txn.long"
  <2>1. PICK r \in activity.rows : r.hidden \/ (r.inXact /\ r.age >= XactWarn)
    BY <1>1, <1>2, <1>3 DEF IInv, ActivityTells
  <2>2. r \in LongRows
    BY <2>1 DEF Hidden, LongRows
  <2> QED BY <2>2 DEF Found
<1>4. CASE f.id = "txn.prepared"
  <2>1. CASE prepared.status = "ok"
    <3>1. PICK r \in prepared.rows : r.age >= PreparedWarn
      BY <1>2, <1>4, <2>1 DEF IInv, PreparedTells
    <3> QED BY <3>1 DEF Found, OldRows
  <2>2. CASE prepared.status = "not_applicable"
    <3> QED BY <1>2, <1>4, <2>2 DEF IInv, Stages, RoleLasts
  <2> QED BY <1>1, <2>1, <2>2
<1> QED BY <1>2, <1>3, <1>4

Lasting == IF pos = 0 THEN Findings ELSE held
Blinded == pos = Done /\ Hidden

\* An exit code is honest about what lasted and what appeared.
HonestNow ==
  \/ exit = 0 /\ Lasting = {} /\ ~Blinded
  \/ exit = 1 /\ (\E f \in touched : f.level = "WARN") /\ (\A f \in Lasting : f.level # "FAIL")
  \/ exit = 3 /\ Blinded

LEMMA ExitHonest == IInv /\ HistoryTyped /\ pos = Done => HonestNow
<1> SUFFICES ASSUME IInv, HistoryTyped, pos = Done PROVE HonestNow
  OBVIOUS
<1>1. /\ exit = ExitCode(Judged.verdict) /\ Lasting = held /\ held \subseteq Findings
      /\ (Blinded <=> Hidden)
  BY PositionsAre DEF IInv, Judgement, Lasting, HistoryTyped, Blinded
<1>2. ExitCode("OK") = 0 /\ ExitCode("WARN") = 1 /\ ExitCode("UNKNOWN") = 3
  BY DEF ExitCode
<1>3. \A f \in held : f.level # "FAIL"
  BY <1>1 DEF Findings
<1>4. CASE Found
  BY <1>1, <1>2, <1>3, <1>4, JudgedIs, FoundShowed DEF HonestNow
<1>5. CASE ~Found /\ Hidden
  BY <1>1, <1>2, <1>5, JudgedIs DEF HonestNow
<1>6. CASE ~Found /\ ~Hidden
  BY <1>1, <1>2, <1>6, JudgedIs, LastsFound DEF HonestNow
<1> QED BY <1>4, <1>5, <1>6

\* What lasts shrinks, what appeared grows, and only a run that goes on steps.
LEMMA Ages ==
  ASSUME IInv, Next
  PROVE  /\ Lasting' \subseteq Lasting /\ touched \subseteq touched'
         /\ exit = Running /\ (pos' # Done => exit' = Running)
<1>1. CASE Instance
  <2>1. UNCHANGED <<pos, exit>> /\ Remember /\ pos # Done
    BY <1>1, PositionsAre DEF Instance
  <2>2. held' \subseteq held /\ touched \subseteq touched'
    BY <2>1 DEF Remember
  <2> QED BY <2>1, <2>2 DEF Lasting, Findings, IInv, Stages
<1>2. CASE Identify
  <2>1. pos = 0 /\ pos' # 0 /\ held' = Troubles /\ UNCHANGED exit
    BY <1>2 DEF Identify
  <2>2. touched = {} /\ exit = Running
    BY <2>1, PositionsAre DEF IInv, Stages
  <2>3. Troubles \subseteq Findings
    BY TroublesTyped DEF IInv, ServerInv
  <2> QED BY <2>1, <2>2, <2>3 DEF Lasting
<1>3. CASE Probe \/ Report
  <2>1. /\ UNCHANGED <<held, touched>> /\ pos # 0 /\ pos # Done /\ pos' # 0
        /\ (pos' # Done => UNCHANGED exit)
    BY <1>3, PositionsAre DEF Probe, Report
  <2> QED BY <2>1 DEF Lasting, IInv, Stages
<1> QED BY <1>1, <1>2, <1>3 DEF Next

LEMMA RefineInit == Init => Promise!Init
<1> SUFFICES ASSUME Init PROVE Promise!Init
  OBVIOUS
<1>1. pos = 0 /\ exit = Running /\ touched = {}
  BY DEF Init
<1>2. Blinded = FALSE
  BY <1>1, PositionsAre DEF Blinded
<1> QED BY <1>1, <1>2 DEF Promise!Init, Blinded

LEMMA RefineNext ==
  IInv /\ IInv' /\ HistoryTyped' /\ [Next]_vars => [Promise!Next]_Promise!vars
<1> SUFFICES ASSUME IInv, IInv', HistoryTyped', [Next]_vars PROVE [Promise!Next]_Promise!vars
  OBVIOUS
<1>h. pos' = Done => HonestNow'
  <2>1. (IInv /\ HistoryTyped /\ pos = Done => HonestNow)'
    BY ExitHonest, PTL
  <2>2. Done' = Done
    BY PositionsAre
  <2> QED BY <2>1, <2>2
<1>1. CASE UNCHANGED vars
  <2>1. Hidden' <=> Hidden
    BY <1>1 DEF Hidden
  <2> QED BY <1>1, <2>1 DEF Promise!vars
<1>2. CASE Next
  <2>1. /\ Lasting' \subseteq Lasting /\ touched \subseteq touched'
        /\ exit = Running /\ (pos' # Done => exit' = Running)
    BY <1>2, Ages
  <2>2. Blinded' \in BOOLEAN
    BY DEF Blinded
  <2>3. CASE pos' # Done
    BY <2>1, <2>2, <2>3 DEF Promise!Next, Promise!Live, Lasting, Blinded
  <2>4. CASE pos' = Done
    <3>1. Promise!Honest(exit')
      BY <1>h, <2>4 DEF HonestNow, Promise!Honest, Lasting, Blinded
    <3> QED BY <2>1, <2>2, <3>1 DEF Promise!Next, Promise!Answer, Lasting, Blinded
  <2> QED BY <2>3, <2>4
<1> QED BY <1>1, <1>2

\* The exit code of txn is as honest as HonestAnswer asks, whatever the
\* sessions begin, prepare and end between the two queries (rule.Txn, Merge).
THEOREM TxnHonest == Spec => Answers
BY Invariant, HistoryInvariant, RefineInit, RefineNext, PTL DEF Spec, Answers, Promise!Spec
=============================================================================
