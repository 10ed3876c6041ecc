------------------------------ MODULE SeqProofs ------------------------------
(***************************************************************************)
(* For any number of sequences, sessions and moves, any types and any      *)
(* legal definitions: the runs of Seq are well typed, what SeqLeft says is *)
(* left is exact and holds, the advice of seqFix fits, and Seq implements  *)
(* HonestAnswer.                                                           *)
(***************************************************************************)
EXTENDS Seq, FiniteSetTheorems, TLAPS

USE DEF vars, server, program, history

-----------------------------------------------------------------------------
(* Arithmetic of a sequence *)

\* A quotient, told by the multiples that fit.
LEMMA Quotient ==
  ASSUME NEW x \in Nat, NEW y \in Nat \ {0}, NEW k \in Nat
  PROVE  x \div y \in Nat /\ (k <= x \div y <=> k * y <= x)
OBVIOUS

\* A row or a definition whose limits are integers and whose step is not zero.
Numeric(r) == {r.min, r.max, r.inc, r.last} \subseteq Int /\ r.inc # 0

\* SeqLeft counts: k more values are within the limits just if k is no more
\* than what is left.
LEMMA LeftCounts ==
  ASSUME NEW r, Numeric(r), InRange(r, r.last), NEW k \in Nat
  PROVE  /\ SeqLeft(r) \in Nat
         /\ k <= SeqLeft(r) <=> InRange(r, r.last + k * r.inc)
<1> DEFINE room == IF r.inc > 0 THEN r.max - r.last ELSE r.last - r.min
           step == IF r.inc > 0 THEN r.inc ELSE -r.inc
<1>1. room \in Nat /\ step \in Nat \ {0}
  BY DEF Numeric, InRange
<1>2. SeqLeft(r) = room \div step
  BY <1>1 DEF SeqLeft, Truncated, Numeric, InRange
<1>3. room \div step \in Nat /\ (k <= room \div step <=> k * step <= room)
  <2> HIDE DEF room, step
  <2> QED BY <1>1, Quotient
<1>4. CASE r.inc > 0
  <2>1. r.last + k * r.inc \in Int /\ k * r.inc >= 0
    BY <1>4 DEF Numeric
  <2>2. k * step = k * r.inc
    BY <1>4
  <2>3. k * step <= room <=> InRange(r, r.last + k * r.inc)
    <3> DEFINE moved == k * r.inc
    <3>1. moved \in Int /\ moved >= 0 /\ k * step = moved
      BY <2>1, <2>2, <1>4 DEF Numeric
    <3> HIDE DEF moved
    <3>2. moved <= r.max - r.last <=> InRange(r, r.last + moved)
      BY <3>1 DEF InRange, Numeric
    <3> QED BY <3>1, <3>2, <1>4 DEF moved
  <2> QED BY <1>2, <1>3, <2>3
<1>5. CASE ~(r.inc > 0)
  <2>1. k * r.inc \in Int /\ k * r.inc <= 0
    BY <1>5 DEF Numeric
  <2>2. k * step = -(k * r.inc)
    BY <1>5 DEF Numeric
  <2>3. k * step <= room <=> InRange(r, r.last + k * r.inc)
    <3> DEFINE moved == k * r.inc
    <3>1. moved \in Int /\ moved <= 0 /\ k * step = -moved
      BY <2>1, <2>2
    <3> HIDE DEF moved
    <3>2. -moved <= r.last - r.min <=> InRange(r, r.last + moved)
      BY <3>1 DEF InRange, Numeric
    <3> QED BY <3>1, <3>2, <1>5 DEF moved
  <2> QED BY <1>2, <1>3, <2>3
<1> QED BY <1>4, <1>5 DEF Numeric

\* Nothing is left just if the next value is outside the limits.
LEMMA NothingLeft ==
  ASSUME NEW r, Numeric(r), InRange(r, r.last)
  PROVE  SeqLeft(r) = 0 <=> ~InRange(r, r.last + r.inc)
<1>1. SeqLeft(r) \in Nat /\ (1 <= SeqLeft(r) <=> InRange(r, r.last + 1 * r.inc))
  BY LeftCounts
<1>2. r.last + 1 * r.inc = r.last + r.inc
  BY DEF Numeric
<1> QED BY <1>1, <1>2

\* The count that LeftIsExact takes is that of an interval.
LEMMA LeftIsCardinality ==
  ASSUME NEW r, Numeric(r), InRange(r, r.last)
  PROVE  SeqLeft(r) = Cardinality({k \in 1..(r.max - r.min) : InRange(r, r.last + k * r.inc)})
<1> DEFINE S == {k \in 1..(r.max - r.min) : InRange(r, r.last + k * r.inc)}
<1>1. SeqLeft(r) \in Nat
  BY LeftCounts
<1>2. \A k \in Nat : k <= SeqLeft(r) <=> InRange(r, r.last + k * r.inc)
  BY LeftCounts
<1>3. SeqLeft(r) <= r.max - r.min
  <2> DEFINE n == SeqLeft(r)
             moved == n * r.inc
  <2>1. InRange(r, r.last + moved)
    BY <1>1, <1>2
  <2>2. moved \in Int /\ (moved >= n \/ -moved >= n)
    <3> HIDE DEF n
    <3>1. n \in Nat
      BY <1>1 DEF n
    <3>2. CASE r.inc >= 1
      BY <3>1, <3>2 DEF Numeric
    <3>3. CASE r.inc <= -1
      BY <3>1, <3>3 DEF Numeric
    <3> QED BY <3>2, <3>3 DEF Numeric
  <2> HIDE DEF moved, n
  <2>3. n <= r.max - r.min
    BY <2>1, <2>2, <1>1 DEF InRange, Numeric, n
  <2> QED BY <2>3 DEF n
<1>4. S = 1..SeqLeft(r)
  <2>1. ASSUME NEW k \in S PROVE k \in 1..SeqLeft(r)
    BY <1>1, <1>2 DEF Numeric
  <2>2. ASSUME NEW k \in 1..SeqLeft(r) PROVE k \in S
    <3>1. k \in Nat /\ k \in 1..(r.max - r.min)
      BY <1>1, <1>3 DEF Numeric
    <3> QED BY <1>1, <1>2, <3>1
  <2> QED BY <2>1, <2>2
<1>5. Cardinality(1..SeqLeft(r)) = SeqLeft(r)
  BY <1>1, FS_Interval
<1> QED BY <1>4, <1>5

-----------------------------------------------------------------------------
(* The inductive invariant *)

\* What the assumption says of a definition.
LEMMA DefinitionFacts ==
  ASSUME NEW d \in Definitions
  PROVE  /\ {d.min, d.max, d.inc, d.start} \subseteq Int
         /\ d.inc # 0 /\ d.min < d.max /\ d.cache \in Nat \ {0}
         /\ d.cycle \in BOOLEAN
         /\ d.type \in DOMAIN Types
         /\ Types[d.type].lo \in Int /\ Types[d.type].hi \in Int
         /\ Types[d.type].lo <= d.min /\ d.max <= Types[d.type].hi
BY SeqAssumption DEF Legal

\* How far the run is tells what it has.
Order ==
  /\ exit = Running <=> pos # Done
  /\ role = "none" <=> pos = 0
  /\ pos = 0 => held = {} /\ touched = {} /\ altered = {}
  /\ status \in {"none", "ok", "skipped", "error"}
  /\ status = "none" <=> pos = 0
  /\ Looking => status = "ok" /\ DOMAIN rows = 1..(pos - 1)
  /\ pos >= Reporting /\ status = "ok" => DOMAIN rows = Names
  /\ status # "ok" => rows = <<>>

\* An instance that Identify found to be a primary is one to the end, and one
\* that it found to be a standby has no trouble that was there all along.
RoleLasts ==
  /\ role = "primary" => ~recovering
  /\ role = "standby" => held = {}

\* Values stay within the limits, in memory and as logged.
InLimits ==
  \A s \in Names : InRange(def[s], value[s].last) /\ InRange(def[s], wal[s].last)

\* Whose definition did not change has that of the snapshot, and the history
\* holds what is wrong now.
History ==
  Looking =>
    /\ \A s \in Names \ altered : def[s] = snap.def[s]
    /\ held \subseteq Troubles /\ Troubles \subseteq touched

\* A row has a definition that was accepted.
RowLegal == \A s \in DOMAIN rows : \E d \in Definitions :
  /\ rows[s].type = d.type /\ rows[s].min = d.min /\ rows[s].max = d.max
  /\ rows[s].inc = d.inc /\ rows[s].cycle = d.cycle

\* A row read on the primary, of a sequence not altered since, tells whether
\* it was exhausted.
RowsTell ==
  role = "primary" =>
    \A s \in DOMAIN rows \ altered :
      /\ s \in held /\ rows[s].readable => s \in RaisedBy(rows)
      /\ s \in RaisedBy(rows) => s \in touched

\* Where only fetches moved a sequence since its row was read, it is as far
\* from that row as they took it.
Drawn ==
  \A s \in DOMAIN rows : Judged(rows[s]) /\ drawn[s] # Unset =>
    /\ def[s].min = rows[s].min /\ def[s].max = rows[s].max
    /\ def[s].inc = rows[s].inc /\ def[s].cycle = rows[s].cycle
    /\ value[s].called
    /\ value[s].last = rows[s].last + drawn[s] * rows[s].inc
    /\ InRange(rows[s], rows[s].last)

\* The exit code is that of the rule.
Judgement ==
  pos = Done => exit = ExitCode(SeqRule(status, rows, role).verdict)

IInv == TypeOK /\ Order /\ RoleLasts /\ InLimits /\ History /\ RowLegal /\ RowsTell
        /\ Drawn /\ Judgement

\* The positions of a run.
LEMMA NamesType == Names \subseteq Nat \ {0} /\ Reporting \in Nat /\ Done \in Nat
                   /\ Reporting \notin Names /\ Done \notin Names /\ Reporting < Done
                   /\ \A s \in Names : s < Reporting
                   /\ Reporting # 0 /\ 0 \notin Names
BY SeqAssumption DEF Names, Reporting, Done

LEMMA ExitCodes == \A v : ExitCode(v) \in 0..3
<1> TAKE v
<1>1. CASE v = "OK"
  BY <1>1 DEF ExitCode
<1>2. CASE v = "WARN"
  BY <1>2 DEF ExitCode
<1>3. CASE v = "FAIL"
  BY <1>3 DEF ExitCode
<1>4. CASE v \notin {"OK", "WARN", "FAIL"}
  BY <1>4 DEF ExitCode
<1> QED BY <1>1, <1>2, <1>3, <1>4

LEMMA InvInit == Init => IInv
<1> SUFFICES ASSUME Init PROVE IInv
  OBVIOUS
<1>1. PICK last \in [Names -> UNION {d.min..d.max : d \in Definitions}],
           called \in [Names -> BOOLEAN] :
        /\ \A s \in Names : InRange(def[s], last[s])
        /\ value = [s \in Names |-> [last |-> last[s], called |-> called[s]]]
  BY DEF Init
<1>2. \A s \in Names : last[s] \in Int
  <2> TAKE s \in Names
  <2>1. PICK d \in Definitions : last[s] \in d.min..d.max
    BY <1>1
  <2> QED BY <2>1, DefinitionFacts
<1>3. value \in [Names -> Values]
  BY <1>1, <1>2 DEF Values
<1>4. InLimits
  BY <1>1 DEF Init, InLimits
<1>5. TypeOK
  BY <1>3, NamesType, SeqAssumption DEF Init, TypeOK, Running, Roles, Statuses, Unset
<1>6. Order
  BY NamesType DEF Init, Order, Looking, Running
<1>7. History /\ RowLegal /\ RowsTell /\ Drawn /\ RoleLasts /\ Judgement
  BY NamesType DEF Init, History, Looking, RowLegal, RowsTell, Drawn, RoleLasts, Judgement
<1> QED BY <1>4, <1>5, <1>6, <1>7 DEF IInv

-----------------------------------------------------------------------------
(* The sessions keep the invariant *)

\* What holds of the run after any move of the instance.
LEMMA Remembered ==
  ASSUME IInv, Remember, UNCHANGED program, pos < Reporting,
         recovering' \in BOOLEAN, recovering' => recovering
  PROVE  /\ Order' /\ RoleLasts' /\ History' /\ RowLegal' /\ RowsTell' /\ Judgement'
         /\ held' \subseteq Names /\ touched' \subseteq Names /\ altered' \subseteq Names
<1> USE DEF IInv
<1>1. held' \subseteq held /\ touched \subseteq touched' /\ altered \subseteq altered'
  BY DEF Remember
<1>2. held' \subseteq Names /\ touched' \subseteq Names /\ altered' \subseteq Names
  BY DEF Remember, TypeOK, Troubles
<1>3. Order'
  <2>1. pos = 0 => held' = {} /\ touched' = {} /\ altered' = {}
    BY NamesType DEF Remember, Order, Looking
  <2> QED BY <2>1 DEF Order, Looking
<1>4. RoleLasts'
  BY <1>1 DEF RoleLasts
<1>5. History'
  <2> SUFFICES ASSUME Looking
               PROVE  /\ \A s \in Names \ altered' : def'[s] = snap.def[s]
                      /\ held' \subseteq Troubles' /\ Troubles' \subseteq touched'
    BY DEF History, Looking
  <2> QED BY DEF Remember, History
<1>6. RowLegal'
  BY DEF RowLegal
<1>7. RowsTell'
  BY <1>1 DEF RowsTell
<1>8. Judgement'
  BY NamesType DEF Judgement, TypeOK, Done, Reporting
<1> QED BY <1>2, <1>3, <1>4, <1>5, <1>6, <1>7, <1>8

\* Beyond that, a session's move has to keep only what the sequences are.
LEMMA SequenceMoves ==
  ASSUME IInv, Remember, UNCHANGED <<recovering, program>>, pos < Reporting,
         moves < MaxMoves, moves' = moves + 1,
         def' \in [Names -> Definitions], value' \in [Names -> Values],
         wal' \in [Names -> Values], ahead' \in [Clients -> [Names -> Nat]],
         drawn' \in [Names -> Nat \cup {Unset}],
         InLimits', Drawn'
  PROVE  IInv'
<1>1. recovering' \in BOOLEAN /\ recovering' => recovering
  BY DEF IInv, TypeOK
<1>2. /\ Order' /\ RoleLasts' /\ History' /\ RowLegal' /\ RowsTell' /\ Judgement'
      /\ held' \subseteq Names /\ touched' \subseteq Names /\ altered' \subseteq Names
  BY <1>1, Remembered DEF IInv, TypeOK
<1>3. moves' \in 0..MaxMoves
  BY SeqAssumption DEF IInv, TypeOK
<1>4. TypeOK'
  BY <1>2, <1>3 DEF IInv, TypeOK
<1> QED BY <1>2, <1>4 DEF IInv

\* What each of them does to a sequence keeps its values within the limits and
\* the distance from its row.
LEMMA CachedKeeps ==
  ASSUME IInv, NEW c \in Clients, NEW s \in Names, UseCached(c, s)
  PROVE  /\ def' \in [Names -> Definitions] /\ value' \in [Names -> Values]
         /\ wal' \in [Names -> Values] /\ ahead' \in [Clients -> [Names -> Nat]]
         /\ drawn' \in [Names -> Nat \cup {Unset}]
         /\ InLimits' /\ (rows' = rows => Drawn')
<1> USE DEF IInv, UseCached
<1>1. ahead[c][s] - 1 \in Nat
  BY DEF TypeOK
<1>2. ahead' \in [Clients -> [Names -> Nat]]
  BY <1>1 DEF TypeOK
<1>3. InLimits' /\ (rows' = rows => Drawn')
  BY DEF InLimits, Drawn
<1> QED BY <1>2, <1>3 DEF TypeOK

LEMMA SetvalKeeps ==
  ASSUME IInv, NEW c \in Clients, NEW s \in Names, Setval(c, s)
  PROVE  /\ def' \in [Names -> Definitions] /\ value' \in [Names -> Values]
         /\ wal' \in [Names -> Values] /\ ahead' \in [Clients -> [Names -> Nat]]
         /\ drawn' \in [Names -> Nat \cup {Unset}]
         /\ InLimits' /\ (rows' = rows => Drawn')
<1> USE DEF IInv
<1>1. PICK v \in def[s].min..def[s].max, called \in BOOLEAN :
        /\ value' = [value EXCEPT ![s] = [last |-> v, called |-> called]]
        /\ wal' = [wal EXCEPT ![s] = value'[s]]
  BY DEF Setval
<1>2. def[s] \in Definitions
  BY DEF TypeOK
<1>3. v \in Int /\ InRange(def[s], v)
  BY <1>1, <1>2, DefinitionFacts DEF InRange
<1>4. value' \in [Names -> Values] /\ value'[s] = [last |-> v, called |-> called]
  BY <1>1, <1>3 DEF TypeOK, Values
<1>5. wal' \in [Names -> Values] /\ wal'[s] = value'[s]
  BY <1>1, <1>4 DEF TypeOK
<1>6. InLimits'
  BY <1>1, <1>3, <1>4, <1>5 DEF InLimits, Setval, TypeOK
<1>7. ahead' \in [Clients -> [Names -> Nat]] /\ drawn' \in [Names -> Nat \cup {Unset}]
  BY DEF Setval, TypeOK
<1>8. rows' = rows => Drawn'
  BY <1>1 DEF Drawn, Setval, TypeOK
<1> QED BY <1>4, <1>5, <1>6, <1>7, <1>8 DEF Setval, TypeOK

LEMMA AlterKeeps ==
  ASSUME IInv, NEW c \in Clients, NEW s \in Names, Alter(c, s)
  PROVE  /\ def' \in [Names -> Definitions] /\ value' \in [Names -> Values]
         /\ wal' \in [Names -> Values] /\ ahead' \in [Clients -> [Names -> Nat]]
         /\ drawn' \in [Names -> Nat \cup {Unset}]
         /\ InLimits' /\ (rows' = rows => Drawn')
<1> USE DEF IInv
<1>1. PICK d \in Reshaped : InRange(d, value[s].last) /\ def' = [def EXCEPT ![s] = d]
  BY DEF Alter
<1>2. d \in Definitions
  BY SeqAssumption
<1>3. def' \in [Names -> Definitions] /\ def'[s] = d
  BY <1>1, <1>2 DEF TypeOK
<1>4. wal' \in [Names -> Values] /\ wal'[s] = value[s]
  BY DEF Alter, TypeOK
<1>5. InLimits'
  BY <1>1, <1>3, <1>4 DEF InLimits, Alter, TypeOK
<1>6. ahead' \in [Clients -> [Names -> Nat]] /\ drawn' \in [Names -> Nat \cup {Unset}]
  BY DEF Alter, TypeOK
<1>7. rows' = rows => Drawn'
  BY <1>1 DEF Drawn, Alter, TypeOK
<1> QED BY <1>3, <1>4, <1>5, <1>6, <1>7 DEF Alter, TypeOK

LEMMA FetchKeeps ==
  ASSUME IInv, NEW c \in Clients, NEW s \in Names, Fetch(c, s)
  PROVE  /\ def' \in [Names -> Definitions] /\ value' \in [Names -> Values]
         /\ wal' \in [Names -> Values] /\ ahead' \in [Clients -> [Names -> Nat]]
         /\ drawn' \in [Names -> Nat \cup {Unset}]
         /\ InLimits' /\ (rows' = rows => Drawn')
<1> USE DEF IInv
<1> DEFINE d == def[s]
           first == First(d, value[s])
<1>1. PICK n \in Taken(d, value[s]), k \in 0..WalAhead :
        /\ value' = [value EXCEPT ![s] = [last |-> first + (n - 1) * d.inc, called |-> TRUE]]
        /\ ahead' = [ahead EXCEPT ![c][s] = n - 1]
        /\ drawn' = [drawn EXCEPT ![s] =
             IF drawn[s] = Unset \/ Wraps(d, value[s]) THEN Unset ELSE drawn[s] + n]
        /\ InRange(d, value'[s].last + k * d.inc)
        /\ wal' = [wal EXCEPT ![s] = [last |-> value'[s].last + k * d.inc, called |-> TRUE]]
  BY DEF Fetch
<1>2. d \in Definitions /\ value[s].last \in Int /\ value[s].called \in BOOLEAN
  BY DEF TypeOK, Values
<1>3. n \in Nat \ {0} /\ k \in Nat /\ InRange(d, first + (n - 1) * d.inc)
  BY <1>1, <1>2, DefinitionFacts, SeqAssumption DEF Taken
<1>4. {d.min, d.max, d.inc} \subseteq Int
  BY <1>2, DefinitionFacts
<1>5. first \in Int
  BY <1>2, <1>4 DEF First
<1> DEFINE last == first + (n - 1) * d.inc
<1>6. last \in Int /\ last + k * d.inc \in Int
  BY <1>3, <1>4, <1>5
<1>7. value' \in [Names -> Values] /\ value'[s] = [last |-> last, called |-> TRUE]
  BY <1>1, <1>6 DEF TypeOK, Values
<1>8. wal' \in [Names -> Values] /\ wal'[s] = [last |-> last + k * d.inc, called |-> TRUE]
  BY <1>1, <1>6, <1>7 DEF TypeOK, Values
<1>9. def' = def
  BY DEF Fetch
<1>10. InLimits'
  <2> SUFFICES ASSUME NEW t \in Names
               PROVE  InRange(def[t], value'[t].last) /\ InRange(def[t], wal'[t].last)
    BY <1>9 DEF InLimits
  <2>1. CASE t = s
    BY <2>1, <1>1, <1>3, <1>7, <1>8
  <2>2. CASE t # s
    BY <2>2, <1>1 DEF InLimits, TypeOK
  <2> QED BY <2>1, <2>2
<1>11. ahead' \in [Clients -> [Names -> Nat]]
  <2>1. n - 1 \in Nat
    BY <1>3
  <2> QED BY <1>1, <2>1 DEF TypeOK
<1>12. drawn' \in [Names -> Nat \cup {Unset}]
  <2>1. drawn[s] \in Nat => drawn[s] + n \in Nat
    BY <1>3
  <2> QED BY <1>1, <2>1 DEF TypeOK
<1>13. rows' = rows => Drawn'
  <2> SUFFICES ASSUME rows' = rows,
                      NEW t \in DOMAIN rows, Judged(rows[t]), drawn'[t] # Unset
               PROVE  /\ def[t].min = rows[t].min /\ def[t].max = rows[t].max
                      /\ def[t].inc = rows[t].inc /\ def[t].cycle = rows[t].cycle
                      /\ value'[t].called
                      /\ value'[t].last = rows[t].last + drawn'[t] * rows[t].inc
                      /\ InRange(rows[t], rows[t].last)
    BY <1>9 DEF Drawn
  <2>1. t \in Names
    BY DEF TypeOK
  <2>2. CASE t # s
    BY <2>1, <2>2, <1>1 DEF Drawn, TypeOK
  <2>3. CASE t = s
    <3>1. drawn[s] \in Nat /\ drawn[s] # Unset /\ ~Wraps(d, value[s])
          /\ drawn'[s] = drawn[s] + n
      BY <2>3, <1>1 DEF TypeOK, Unset
    <3>2. /\ def[s].min = rows[s].min /\ def[s].max = rows[s].max
          /\ def[s].inc = rows[s].inc /\ def[s].cycle = rows[s].cycle
          /\ value[s].called
          /\ value[s].last = rows[s].last + drawn[s] * rows[s].inc
          /\ InRange(rows[s], rows[s].last)
      BY <2>3, <3>1 DEF Drawn
    <3>3. first = value[s].last + d.inc
      BY <3>1, <3>2 DEF First
    <3>4. rows[s].last \in Int
      BY <2>3 DEF TypeOK, Rows
    <3>5. last = rows[s].last + (drawn[s] + n) * d.inc
      <4>1. last = rows[s].last + drawn[s] * d.inc + d.inc + (n - 1) * d.inc
        BY <3>2, <3>3
      <4> QED BY <4>1, <3>1, <3>4, <1>3, <1>4
    <3> QED BY <2>3, <3>1, <3>2, <3>5, <1>7
  <2> QED BY <2>2, <2>3
<1> QED BY <1>7, <1>8, <1>9, <1>10, <1>11, <1>12, <1>13 DEF TypeOK

LEMMA InstanceKeeps == ASSUME IInv, Instance PROVE IInv'
<1>1. PICK c \in Clients, s \in Names :
        UseCached(c, s) \/ Fetch(c, s) \/ Setval(c, s) \/ Alter(c, s)
  BY DEF Instance
<1>2. /\ def' \in [Names -> Definitions] /\ value' \in [Names -> Values]
      /\ wal' \in [Names -> Values] /\ ahead' \in [Clients -> [Names -> Nat]]
      /\ drawn' \in [Names -> Nat \cup {Unset}]
      /\ InLimits' /\ (rows' = rows => Drawn')
  BY <1>1, CachedKeeps, FetchKeeps, SetvalKeeps, AlterKeeps
<1> QED BY <1>2, SequenceMoves DEF Instance

LEMMA PromoteKeeps == ASSUME IInv, Promote PROVE IInv'
<1> USE DEF IInv, Promote
<1>1. recovering' \in BOOLEAN /\ recovering' => recovering
  OBVIOUS
<1>2. /\ Order' /\ RoleLasts' /\ History' /\ RowLegal' /\ RowsTell' /\ Judgement'
      /\ held' \subseteq Names /\ touched' \subseteq Names /\ altered' \subseteq Names
  BY <1>1, Remembered
<1>3. InLimits'
  BY DEF InLimits
<1>4. Drawn'
  BY DEF Drawn, TypeOK
<1>5. TypeOK'
  BY <1>2 DEF TypeOK
<1> QED BY <1>2, <1>3, <1>4, <1>5

-----------------------------------------------------------------------------
(* The run keeps the invariant *)

LEMMA IdentifyKeeps == ASSUME IInv, Identify PROVE IInv'
<1> USE DEF IInv
<1>1. pos = 0 /\ pos' = 1 /\ rows = <<>> /\ rows' = <<>> /\ status' = "ok"
  BY DEF Identify, Order
<1>2. snap'.def = def /\ snap'.readable \subseteq Names
  BY DEF Identify
<1>3. role' \in Roles /\ (role' = "primary" <=> ~recovering)
  BY DEF Identify, Roles
<1>4. Troubles \subseteq Names /\ held' = Troubles /\ touched' = Troubles /\ altered' = {}
  BY DEF Identify, Troubles
<1>5. pos' \in 0..Done /\ pos' # Done
  BY <1>1, NamesType, SeqAssumption DEF Reporting, Done
<1>6. TypeOK'
  BY <1>1, <1>2, <1>3, <1>4, <1>5 DEF Identify, TypeOK, Statuses
<1>7. Order'
  <2>1. exit' = Running /\ role' # "none"
    BY <1>1, <1>3, <1>5, NamesType DEF Identify, Order, Roles
  <2>2. DOMAIN rows' = {}
    BY <1>1
  <2>3. Looking' => DOMAIN rows' = 1..(pos' - 1)
    BY <1>1, <2>2
  <2>4. pos' >= Reporting => DOMAIN rows' = Names
    BY <1>1, <2>2, SeqAssumption DEF Reporting, Names
  <2> QED BY <1>1, <1>5, <2>1, <2>3, <2>4 DEF Order
<1>8. RoleLasts'
  BY <1>3, <1>4 DEF RoleLasts, Identify, Troubles
<1>9. InLimits'
  BY DEF InLimits, Identify
<1>10. History'
  <2>1. Troubles' = Troubles
    BY DEF Identify, Troubles
  <2> QED BY <1>2, <1>4, <2>1 DEF History, Identify
<1>11. RowLegal' /\ RowsTell' /\ Drawn'
  BY <1>1 DEF RowLegal, RowsTell, Drawn
<1>12. Judgement'
  BY <1>5 DEF Judgement
<1> QED BY <1>6, <1>7, <1>8, <1>9, <1>10, <1>11, <1>12

\* The row read now.
LEMMA RowFacts ==
  ASSUME IInv, Looking
  PROVE  /\ RowOf(pos) \in Rows /\ Numeric(RowOf(pos))
         /\ pos \notin altered /\ ~recovering /\ Judged(RowOf(pos)) =>
              /\ def[pos].min = RowOf(pos).min /\ def[pos].max = RowOf(pos).max
              /\ def[pos].inc = RowOf(pos).inc /\ def[pos].cycle = RowOf(pos).cycle
              /\ value[pos].called
              /\ value[pos].last = RowOf(pos).last
              /\ InRange(RowOf(pos), RowOf(pos).last)
<1> USE DEF IInv
<1>1. pos \in Names /\ snap.def[pos] \in Definitions
  BY DEF Looking, TypeOK
<1>2. /\ value[pos].last \in Int /\ wal[pos].last \in Int
      /\ value[pos].called \in BOOLEAN /\ wal[pos].called \in BOOLEAN
  BY <1>1 DEF TypeOK, Values
<1>3. RowOf(pos) \in Rows
  <2>1. /\ snap.def[pos].start \in Int /\ snap.def[pos].min \in Int /\ snap.def[pos].max \in Int
        /\ snap.def[pos].inc \in Int /\ snap.def[pos].cache \in Nat
        /\ snap.def[pos].cycle \in BOOLEAN /\ snap.def[pos].type \in DOMAIN Types
    BY <1>1, DefinitionFacts
  <2> QED BY <1>2, <2>1 DEF RowOf, Rows
<1>4. Numeric(RowOf(pos))
  <2>1. RowOf(pos).inc = snap.def[pos].inc
    BY DEF RowOf
  <2> QED BY <1>1, <1>3, <2>1, DefinitionFacts DEF Numeric, Rows
<1>5. ASSUME pos \notin altered, ~recovering, Judged(RowOf(pos))
      PROVE  /\ def[pos].min = RowOf(pos).min /\ def[pos].max = RowOf(pos).max
             /\ def[pos].inc = RowOf(pos).inc /\ def[pos].cycle = RowOf(pos).cycle
             /\ value[pos].called
             /\ value[pos].last = RowOf(pos).last
             /\ InRange(RowOf(pos), RowOf(pos).last)
  <2>1. def[pos] = snap.def[pos]
    BY <1>1, <1>5 DEF History
  <2>2. InRange(def[pos], value[pos].last)
    BY <1>1 DEF InLimits
  <2> QED BY <1>5, <2>1, <2>2 DEF RowOf, Judged, InRange
<1> QED BY <1>3, <1>4, <1>5

\* On a primary, what the rule raises of that row is what is wrong.
LEMMA RowTells ==
  ASSUME IInv, Looking, role = "primary", pos \notin altered,
         NEW list, pos \in DOMAIN list, list[pos] = RowOf(pos)
  PROVE  pos \in RaisedBy(list) <=> pos \in Troubles /\ RowOf(pos).readable
<1> DEFINE r == RowOf(pos)
<1>1. ~recovering /\ pos \in Names
  BY DEF IInv, RoleLasts, Looking
<1>2. CASE Judged(r)
  <2>1. /\ Numeric(r) /\ InRange(r, r.last)
        /\ def[pos].min = r.min /\ def[pos].max = r.max
        /\ def[pos].inc = r.inc /\ def[pos].cycle = r.cycle
        /\ value[pos].called /\ value[pos].last = r.last
    BY <1>1, <1>2, RowFacts
  <2>2. SeqLeft(r) = 0 <=> ~InRange(r, r.last + r.inc)
    BY <2>1, NothingLeft
  <2>3. Exhausted(def[pos], value[pos]) <=> ~InRange(r, r.last + r.inc) /\ ~r.cycle
    BY <2>1 DEF Exhausted, Wraps, InRange
  <2>4. r.readable
    BY <1>2 DEF Judged
  <2> QED BY <1>1, <1>2, <2>2, <2>3, <2>4 DEF RaisedBy, Troubles
<1>3. CASE ~Judged(r)
  <2>1. pos \notin RaisedBy(list)
    BY <1>3 DEF RaisedBy
  <2>2. r.readable => ~value[pos].called
    BY <1>1, <1>3 DEF Judged, RowOf
  <2>3. r.readable => pos \notin Troubles
    BY <2>2 DEF Troubles, Exhausted, Wraps
  <2> QED BY <2>1, <2>3
<1> QED BY <1>2, <1>3

LEMMA ReadRowKeeps == ASSUME IInv, ReadRow PROVE IInv'
<1> USE DEF IInv
<1>1. Looking /\ pos \in Names /\ DOMAIN rows = 1..(pos - 1) /\ status = "ok"
  BY DEF ReadRow, Order, Looking
<1>2. /\ DOMAIN rows' = 1..pos /\ pos' = pos + 1
      /\ rows'[pos] = RowOf(pos)
      /\ \A s \in DOMAIN rows : s \in DOMAIN rows' /\ rows'[s] = rows[s]
      /\ \A s \in DOMAIN rows' : s = pos \/ s \in DOMAIN rows
  BY <1>1, NamesType DEF ReadRow
<1>3. 1..pos \subseteq Names /\ pos' \in 0..Done /\ pos' # Done /\ pos' # 0
  BY <1>1, <1>2, SeqAssumption DEF Names, Reporting, Done
<1>4. RowOf(pos) \in Rows /\ Numeric(RowOf(pos))
  BY <1>1, RowFacts
<1>5. drawn' = [drawn EXCEPT ![pos] = IF recovering \/ pos \in altered THEN Unset ELSE 0]
  BY DEF ReadRow
<1>6. TypeOK'
  <2>1. drawn' \in [Names -> Nat \cup {Unset}]
    BY <1>5 DEF TypeOK
  <2>2. \A s \in DOMAIN rows' : rows'[s] \in Rows
    BY <1>2, <1>4 DEF TypeOK
  <2> QED BY <1>2, <1>3, <2>1, <2>2 DEF ReadRow, TypeOK
<1>7. Order'
  <2>1. Looking' => DOMAIN rows' = 1..(pos' - 1)
    BY <1>1, <1>2, NamesType
  <2>2. pos' >= Reporting => DOMAIN rows' = Names
    BY <1>1, <1>2, SeqAssumption DEF Names, Reporting
  <2>3. pos # Done /\ pos # 0
    BY <1>1, NamesType
  <2> QED BY <1>1, <1>3, <2>1, <2>2, <2>3 DEF ReadRow, Order
<1>8. RoleLasts' /\ InLimits'
  BY DEF ReadRow, RoleLasts, InLimits
<1>9. History'
  <2>1. Troubles' = Troubles
    BY DEF ReadRow, Troubles
  <2> QED BY <1>1, <2>1 DEF History, ReadRow
<1>10. RowLegal'
  <2>1. snap.def[pos] \in Definitions
    BY <1>1 DEF TypeOK
  <2>2. /\ RowOf(pos).type = snap.def[pos].type /\ RowOf(pos).min = snap.def[pos].min
        /\ RowOf(pos).max = snap.def[pos].max /\ RowOf(pos).inc = snap.def[pos].inc
        /\ RowOf(pos).cycle = snap.def[pos].cycle
    BY DEF RowOf
  <2> SUFFICES ASSUME NEW s \in DOMAIN rows'
               PROVE  \E d \in Definitions :
                        /\ rows'[s].type = d.type /\ rows'[s].min = d.min /\ rows'[s].max = d.max
                        /\ rows'[s].inc = d.inc /\ rows'[s].cycle = d.cycle
    BY DEF RowLegal
  <2>3. CASE s = pos
    BY <2>1, <2>2, <2>3, <1>2
  <2>4. CASE s # pos
    BY <2>4, <1>2 DEF RowLegal
  <2> QED BY <2>3, <2>4
<1>11. RowsTell'
  <2> SUFFICES ASSUME role = "primary", NEW s \in DOMAIN rows', s \notin altered
               PROVE  /\ s \in held /\ rows'[s].readable => s \in RaisedBy(rows')
                      /\ s \in RaisedBy(rows') => s \in touched
    BY DEF RowsTell, ReadRow, RaisedBy
  <2>1. CASE s = pos
    <3>1. pos \in RaisedBy(rows') <=> pos \in Troubles /\ RowOf(pos).readable
      BY <2>1, <1>1, <1>2, RowTells
    <3>2. held \subseteq Troubles /\ Troubles \subseteq touched
      BY <1>1 DEF History
    <3> QED BY <2>1, <3>1, <3>2, <1>2
  <2>2. CASE s # pos
    <3>1. s \in DOMAIN rows /\ rows'[s] = rows[s]
      BY <2>2, <1>2
    <3>2. s \in RaisedBy(rows') <=> s \in RaisedBy(rows)
      BY <3>1 DEF RaisedBy
    <3> QED BY <3>1, <3>2 DEF RowsTell
  <2> QED BY <2>1, <2>2
<1>12. Drawn'
  <2> SUFFICES ASSUME NEW s \in DOMAIN rows', Judged(rows'[s]), drawn'[s] # Unset
               PROVE  /\ def[s].min = rows'[s].min /\ def[s].max = rows'[s].max
                      /\ def[s].inc = rows'[s].inc /\ def[s].cycle = rows'[s].cycle
                      /\ value[s].called
                      /\ value[s].last = rows'[s].last + drawn'[s] * rows'[s].inc
                      /\ InRange(rows'[s], rows'[s].last)
    BY DEF Drawn, ReadRow
  <2>1. CASE s = pos
    <3>1. pos \notin altered /\ ~recovering /\ drawn'[pos] = 0
      BY <2>1, <1>1, <1>5 DEF TypeOK
    <3>2. rows'[s].last = rows'[s].last + 0 * rows'[s].inc
      BY <2>1, <1>2, <1>4 DEF Numeric
    <3> QED BY <2>1, <1>1, <1>2, <3>1, <3>2, RowFacts
  <2>2. CASE s # pos
    <3>1. s \in Names
      BY <1>2, <1>3
    <3> QED BY <2>2, <3>1, <1>2, <1>5 DEF Drawn, TypeOK
  <2> QED BY <2>1, <2>2
<1>13. Judgement'
  BY <1>3 DEF Judgement
<1> QED BY <1>6, <1>7, <1>8, <1>9, <1>10, <1>11, <1>12, <1>13

LEMMA QueryFailsKeeps == ASSUME IInv, QueryFails PROVE IInv'
<1> USE DEF IInv
<1>1. Looking /\ pos \in Names /\ rows' = <<>> /\ pos' = Reporting /\ status' \in {"skipped", "error"}
  BY DEF QueryFails, Looking, Classify
<1>2. DOMAIN rows' = {}
  BY <1>1
<1>3. pos' \in 0..Done /\ pos' # Done /\ pos' \notin Names /\ pos' # 0
  BY <1>1, NamesType, SeqAssumption DEF Reporting, Done
<1>4. TypeOK'
  BY <1>1, <1>2, <1>3 DEF QueryFails, TypeOK, Statuses
<1>5. Order'
  <2>1. pos # 0 /\ pos # Done
    BY <1>1, NamesType
  <2> QED BY <1>1, <1>3, <2>1 DEF Order, QueryFails, Looking
<1>6. RoleLasts' /\ InLimits'
  BY DEF QueryFails, RoleLasts, InLimits
<1>7. History'
  BY <1>3 DEF History, Looking
<1>8. RowLegal' /\ RowsTell' /\ Drawn'
  BY <1>2 DEF RowLegal, RowsTell, Drawn
<1>9. Judgement'
  BY <1>3 DEF Judgement
<1> QED BY <1>4, <1>5, <1>6, <1>7, <1>8, <1>9

LEMMA ReportKeeps == ASSUME IInv, Report PROVE IInv'
<1> USE DEF IInv
<1>1. pos = Reporting /\ pos' = Done /\ Done # 0 /\ Done \notin Names /\ Done >= Reporting
  BY NamesType, SeqAssumption DEF Report, Reporting, Done
<1>2. exit' = ExitCode(SeqRule(status, rows, role).verdict)
  BY DEF Report
<1>3. exit' \in 0..3
  BY <1>2, ExitCodes
<1>4. TypeOK'
  <2>1. pos' \in 0..Done
    BY <1>1, SeqAssumption DEF Reporting, Done
  <2> QED BY <1>3, <2>1 DEF Report, TypeOK
<1>5. Order'
  <2>1. exit' # Running
    BY <1>3 DEF Running
  <2>2. pos # 0 /\ pos >= Reporting
    BY <1>1, SeqAssumption DEF Reporting
  <2> QED BY <1>1, <2>1, <2>2 DEF Order, Report, Looking
<1>6. RoleLasts' /\ InLimits' /\ RowLegal'
  BY DEF Report, RoleLasts, InLimits, RowLegal
<1>7. RowsTell' /\ Drawn'
  BY DEF Report, RowsTell, Drawn
<1>8. History'
  BY <1>1 DEF History, Looking
<1>9. Judgement'
  BY <1>2 DEF Report, Judgement
<1> QED BY <1>4, <1>5, <1>6, <1>7, <1>8, <1>9

LEMMA StutterKeeps == ASSUME IInv, UNCHANGED vars PROVE IInv'
<1> USE DEF IInv
<1>1. TypeOK' /\ Order' /\ RoleLasts' /\ InLimits'
  BY DEF TypeOK, Order, Looking, RoleLasts, InLimits
<1>2. History' /\ RowLegal' /\ RowsTell' /\ Drawn' /\ Judgement'
  <2>1. Troubles' = Troubles
    BY DEF Troubles
  <2> QED BY <2>1 DEF History, Looking, RowLegal, RowsTell, Drawn, Judgement
<1> QED BY <1>1, <1>2

LEMMA InvNext == IInv /\ [Next]_vars => IInv'
<1> SUFFICES ASSUME IInv, [Next]_vars PROVE IInv'
  OBVIOUS
<1> QED BY InstanceKeeps, PromoteKeeps, IdentifyKeeps, ReadRowKeeps, QueryFailsKeeps,
           ReportKeeps, StutterKeeps DEF Next

LEMMA Invariant == Spec => []IInv
BY InvInit, InvNext, PTL DEF Spec

-----------------------------------------------------------------------------
(* What is counted and advised *)

\* A row has the definition of a sequence that could be made.
LEMMA RowMeans ==
  ASSUME IInv, NEW s \in DOMAIN rows
  PROVE  LET r == rows[s]
         IN /\ Numeric(r) /\ r.type \in DOMAIN Types /\ r.min < r.max
            /\ Types[r.type].lo \in Int /\ Types[r.type].hi \in Int
            /\ Types[r.type].lo <= r.min /\ r.max <= Types[r.type].hi
<1>1. rows[s] \in Rows
  BY DEF IInv, TypeOK
<1>2. PICK d \in Definitions :
        /\ rows[s].type = d.type /\ rows[s].min = d.min /\ rows[s].max = d.max
        /\ rows[s].inc = d.inc
  BY DEF IInv, RowLegal
<1> QED BY <1>1, <1>2, DefinitionFacts DEF Numeric, Rows

LEMMA InvLeftIsExact == IInv => LeftIsExact
<1> SUFFICES ASSUME IInv, NEW s \in DOMAIN rows, InRange(rows[s], rows[s].last)
             PROVE  SeqLeft(rows[s]) = Cardinality({k \in 1..(rows[s].max - rows[s].min) :
                      InRange(rows[s], rows[s].last + k * rows[s].inc)})
  BY DEF LeftIsExact
<1> QED BY RowMeans, LeftIsCardinality

LEMMA InvLeftHolds == IInv => LeftHolds
<1> SUFFICES ASSUME IInv, NEW s \in DOMAIN rows, Judged(rows[s]), drawn[s] # Unset
             PROVE  /\ drawn[s] <= SeqLeft(rows[s])
                    /\ Exhausted(def[s], value[s]) =>
                         drawn[s] >= SeqLeft(rows[s]) /\ ~rows[s].cycle
  BY DEF LeftHolds
<1> DEFINE r == rows[s]
           n == drawn[s]
<1>1. s \in Names /\ n \in Nat
  BY DEF IInv, TypeOK, Unset
<1>2. Numeric(r)
  BY RowMeans
<1>3. /\ def[s].min = r.min /\ def[s].max = r.max
      /\ def[s].inc = r.inc /\ def[s].cycle = r.cycle
      /\ value[s].last = r.last + n * r.inc
      /\ InRange(r, r.last) /\ InRange(def[s], value[s].last)
  BY <1>1 DEF IInv, Drawn, InLimits
<1>4. InRange(r, r.last + n * r.inc)
  BY <1>3 DEF InRange
<1>5. SeqLeft(r) \in Nat /\ n <= SeqLeft(r)
  BY <1>1, <1>2, <1>3, <1>4, LeftCounts
<1>6. ASSUME Exhausted(def[s], value[s]) PROVE n >= SeqLeft(r) /\ ~r.cycle
  <2>1. ~r.cycle /\ ~InRange(r, (r.last + n * r.inc) + r.inc)
    BY <1>3, <1>6 DEF Exhausted, Wraps, InRange
  <2>2. (r.last + n * r.inc) + r.inc = r.last + (n + 1) * r.inc
    BY <1>1, <1>2 DEF Numeric
  <2>3. n + 1 \in Nat
    BY <1>1
  <2>4. n + 1 <= SeqLeft(r) <=> InRange(r, r.last + (n + 1) * r.inc)
    <3> HIDE DEF r, n
    <3> QED BY <1>2, <1>3, <2>3, LeftCounts
  <2> QED BY <1>1, <1>5, <2>1, <2>2, <2>3, <2>4
<1> QED BY <1>5, <1>6

LEMMA InvFixHelps == IInv => FixHelps
<1> SUFFICES ASSUME IInv, NEW s \in DOMAIN rows, s \in RaisedBy(rows),
                    InRange(rows[s], rows[s].last)
             PROVE  LET r == rows[s]
                        t == Types[r.type]
                        big == Types["bigint"]
                        short == IF r.inc > 0 THEN t.hi - r.max ELSE r.min - t.lo
                        step == IF r.inc > 0 THEN r.inc ELSE -r.inc
                    IN /\ SeqFix(r) = "limit" => Fits(r, t.lo, t.hi) \/ short \in 1..(step - 1)
                       /\ SeqFix(r) = "type" => ~Fits(r, t.lo, t.hi)
                       /\ SeqFix(r) = "new key" => ~Fits(r, big.lo, big.hi)
  BY DEF FixHelps, RaisedBy
<1> DEFINE r == rows[s]
<1>1. /\ Numeric(r) /\ r.type \in DOMAIN Types /\ r.min < r.max
      /\ Types[r.type].lo \in Int /\ Types[r.type].hi \in Int
      /\ Types[r.type].lo <= r.min /\ r.max <= Types[r.type].hi
  BY RowMeans
<1>2. ~InRange(r, r.last + r.inc)
  BY <1>1, NothingLeft DEF RaisedBy
<1>3. CASE r.inc > 0
  <2>1. r.last + r.inc > r.max
    BY <1>1, <1>2, <1>3 DEF Numeric, InRange
  <2> QED BY <1>1, <1>3, <2>1 DEF Numeric, InRange, SeqFix, Fits
<1>4. CASE ~(r.inc > 0)
  <2>1. r.last + r.inc < r.min
    BY <1>1, <1>2, <1>4 DEF Numeric, InRange
  <2> QED BY <1>1, <1>4, <2>1 DEF Numeric, InRange, SeqFix, Fits
<1> QED BY <1>3, <1>4

LEMMA InvTypes == IInv => TypeOK
BY DEF IInv

\* Every state of a run is well typed, whatever the sequences.
THEOREM SeqTypeCorrect == Spec => []TypeOK
BY Invariant, InvTypes, PTL

\* SeqLeft is exact arithmetic: it counts the values left of every legal
\* sequence, however wide its type.
THEOREM LeftExact == Spec => []LeftIsExact
BY Invariant, InvLeftIsExact, PTL

\* What SeqLeft says is left is what nextval hands out until someone sets,
\* alters or wraps the sequence.
THEOREM LeftKept == Spec => []LeftHolds
BY Invariant, InvLeftHolds, PTL

\* The advice of seqFix fits what stopped the sequence.
THEOREM FixRight == Spec => []FixHelps
BY Invariant, InvFixHelps, PTL

-----------------------------------------------------------------------------
(* What the sessions of a sequence that was failed can still do *)

\* A sequence that seq fails and that was not set or altered since its row has
\* no value for a session that must fetch one (rule.Seq: "nextval errors").
THEOREM NothingToFetch ==
  Spec => [](\A s \in RaisedBy(rows) : drawn[s] # Unset => Exhausted(def[s], value[s]))
<1>1. IInv => \A s \in RaisedBy(rows) : drawn[s] # Unset => Exhausted(def[s], value[s])
  <2> SUFFICES ASSUME IInv, NEW s \in RaisedBy(rows), drawn[s] # Unset
               PROVE  Exhausted(def[s], value[s])
    OBVIOUS
  <2> DEFINE r == rows[s]
  <2>1. s \in DOMAIN rows /\ Judged(r) /\ ~r.cycle /\ SeqLeft(r) = 0
    BY DEF RaisedBy
  <2>2. drawn[s] <= 0 /\ drawn[s] \in Nat
    BY <2>1, InvLeftHolds DEF LeftHolds, IInv, TypeOK, Unset
  <2>3. /\ def[s].min = r.min /\ def[s].max = r.max /\ def[s].inc = r.inc
        /\ def[s].cycle = r.cycle /\ value[s].called
        /\ value[s].last = r.last + drawn[s] * r.inc /\ InRange(r, r.last)
    BY <2>1 DEF IInv, Drawn
  <2>4. Numeric(r) /\ r.min < r.max
    BY <2>1, RowMeans
  <2>5. drawn[s] = 0
    BY <2>2
  <2>6. value[s].last = r.last
    BY <2>3, <2>4, <2>5 DEF Numeric
  <2>7. ~InRange(r, r.last + r.inc)
    BY <2>1, <2>3, <2>4, NothingLeft
  <2> QED BY <2>1, <2>3, <2>6, <2>7 DEF Exhausted, Wraps, InRange
<1> QED BY <1>1, Invariant, PTL

\* No session holds a value of a sequence.
NoneAhead == \A c \in Clients, s \in Names : ahead[c][s] = 0

LEMMA UncachedKeeps ==
  ASSUME \A d \in Definitions : d.cache = 1, IInv, NoneAhead, [Next]_vars
  PROVE  NoneAhead'
<1>t. ahead \in [Clients -> [Names -> Nat]] /\ def \in [Names -> Definitions]
  BY DEF IInv, TypeOK
<1>1. CASE Instance
  <2>1. PICK c \in Clients, s \in Names :
          UseCached(c, s) \/ Fetch(c, s) \/ Setval(c, s) \/ Alter(c, s)
    BY <1>1 DEF Instance
  <2>2. CASE UseCached(c, s)
    BY <2>2 DEF UseCached, NoneAhead
  <2>3. CASE Fetch(c, s)
    <3>1. PICK n \in Taken(def[s], value[s]) : ahead' = [ahead EXCEPT ![c][s] = n - 1]
      BY <2>3 DEF Fetch
    <3>2. n = 1
      BY <1>t DEF Taken
    <3> QED BY <1>t, <3>1, <3>2 DEF NoneAhead
  <2>4. CASE Setval(c, s) \/ Alter(c, s)
    <3>1. ahead' = [ahead EXCEPT ![c][s] = 0]
      BY <2>4 DEF Setval, Alter
    <3> QED BY <1>t, <3>1 DEF NoneAhead
  <2> QED BY <2>1, <2>2, <2>3, <2>4
<1>2. CASE Promote
  BY <1>2 DEF Promote, NoneAhead
<1>3. CASE Identify \/ ReadRow \/ QueryFails \/ Report \/ UNCHANGED vars
  <2>1. ahead' = ahead
    BY <1>3 DEF Identify, ReadRow, QueryFails, Report, vars, server
  <2> QED BY <2>1 DEF NoneAhead
<1> QED BY <1>1, <1>2, <1>3 DEF Next

\* Where no sequence is cached, the comment of rule.Seq is right: what fails
\* fails for every session. The run `seqcached` shows the other case.
THEOREM UncachedFailsForAll ==
  ASSUME \A d \in Definitions : d.cache = 1
  PROVE  Spec => []RaisedFailsForAll
<1>1. Init => NoneAhead
  BY DEF Init, NoneAhead
<1>2. IInv /\ NoneAhead /\ [Next]_vars => NoneAhead'
  BY UncachedKeeps
<1>3. IInv /\ NoneAhead => RaisedFailsForAll
  BY NamesType DEF IInv, TypeOK, NoneAhead, RaisedFailsForAll, RaisedBy
<1> QED BY <1>1, <1>2, <1>3, Invariant, PTL DEF Spec

-----------------------------------------------------------------------------
(* seq implements HonestAnswer *)

\* The verdict read backwards.
LEMMA RuleMeans ==
  ASSUME NEW st, NEW list, NEW on
  PROVE  LET v == SeqRule(st, list, on).verdict
             found == Judgeable(st) /\ on # "standby" /\ RaisedBy(list) # {}
         IN \/ found /\ v = "FAIL"
            \/ ~found /\ Hidden(st, list) /\ v = "UNKNOWN"
            \/ ~found /\ ~Hidden(st, list) /\ v = "OK"
<1> DEFINE found == Judgeable(st) /\ on # "standby" /\ RaisedBy(list) # {}
<1>1. SeqRule(st, list, on).verdict = VerdictOf(IF found THEN {"FAIL"} ELSE {}, Hidden(st, list))
  BY DEF SeqRule, Result
<1>2. Hidden(st, list) \in BOOLEAN
  BY DEF Hidden
<1>3. VerdictOf({"FAIL"}, Hidden(st, list)) = "FAIL"
      /\ VerdictOf({}, Hidden(st, list)) = IF Hidden(st, list) THEN "UNKNOWN" ELSE "OK"
  <2>1. \A u \in BOOLEAN : VerdictOf({"FAIL"}, u) = "FAIL"
                           /\ VerdictOf({}, u) = IF u THEN "UNKNOWN" ELSE "OK"
    BY DEF VerdictOf, Levels
  <2> QED BY <1>2, <2>1
<1> QED BY <1>1, <1>2, <1>3

LEMMA ExitCodeValues ==
  ExitCode("OK") = 0 /\ ExitCode("FAIL") = 2 /\ ExitCode("UNKNOWN") = 3
BY DEF ExitCode

\* An exit code is honest about what lasted and what appeared.
HonestNow ==
  \/ exit = 0 /\ Lasting = {} /\ ~Blinded
  \/ exit = 2 /\ \E f \in Appeared : f.level = "FAIL"
  \/ exit = 3 /\ Blinded

LEMMA ExitHonest == IInv /\ pos = Done => HonestNow
<1> SUFFICES ASSUME IInv, pos = Done PROVE HonestNow
  OBVIOUS
<1> DEFINE v == SeqRule(status, rows, role).verdict
           found == Judgeable(status) /\ role # "standby" /\ RaisedBy(rows) # {}
<1>1. exit = ExitCode(v)
  BY DEF IInv, Judgement
<1>2. role \in Roles /\ (Blinded <=> Hidden(status, rows)) /\ pos # 0
  BY NamesType, SeqAssumption DEF IInv, Order, TypeOK, Blinded, Done
<1>3. CASE found /\ v = "FAIL"
  <2>1. PICK s \in RaisedBy(rows) : TRUE
    BY <1>3
  <2>2. s \in Names /\ s \in DOMAIN rows
    BY DEF RaisedBy, IInv, TypeOK
  <2>3. s \in touched \cup altered
    BY <1>2, <1>3, <2>2 DEF IInv, RowsTell, Roles
  <2>4. [of |-> s, level |-> "FAIL"] \in Appeared
    BY <2>3 DEF Appeared, Named
  <2>5. [of |-> s, level |-> "FAIL"].level = "FAIL"
    OBVIOUS
  <2>6. \E f \in Appeared : f.level = "FAIL"
    BY <2>4, <2>5
  <2> QED BY <1>1, <1>3, <2>6, ExitCodeValues DEF HonestNow
<1>4. CASE ~found /\ Hidden(status, rows) /\ v = "UNKNOWN"
  BY <1>1, <1>2, <1>4, ExitCodeValues DEF HonestNow
<1>5. CASE ~found /\ ~Hidden(status, rows) /\ v = "OK"
  <2>1. status = "ok" /\ DOMAIN rows = Names
    BY <1>5, NamesType, SeqAssumption
       DEF Hidden, BlindSpot, IInv, Order, Reporting, Done
  <2>2. \A s \in Names : rows[s].readable
    BY <1>5, <2>1 DEF Hidden
  <2>3. held \ altered = {}
    <3>1. CASE role = "standby"
      BY <3>1 DEF IInv, RoleLasts
    <3>2. CASE role = "primary"
      <4>1. RaisedBy(rows) = {}
        BY <1>5, <2>1, <3>2 DEF Judgeable
      <4> QED BY <2>1, <2>2, <3>2, <4>1 DEF IInv, TypeOK, RowsTell
    <3> QED BY <1>2, <3>1, <3>2 DEF Roles
  <2>4. Lasting = {}
    BY <1>2, <2>3 DEF Lasting, Named
  <2> QED BY <1>1, <1>2, <1>5, <2>4, ExitCodeValues DEF HonestNow
<1> QED BY <1>3, <1>4, <1>5, RuleMeans

\* What lasts shrinks, what appeared grows.
LEMMA Ages ==
  ASSUME IInv, Next
  PROVE  Lasting' \subseteq Lasting /\ Appeared \subseteq Appeared'
<1>1. /\ pos # 0 => held' \subseteq held
      /\ touched \subseteq touched' /\ altered \subseteq altered'
  <2>1. CASE Identify
    BY <2>1 DEF Identify, IInv, Order
  <2>2. CASE Instance \/ Promote
    BY <2>2 DEF Instance, Promote, Remember
  <2>3. CASE ReadRow \/ QueryFails \/ Report
    BY <2>3 DEF ReadRow, QueryFails, Report
  <2> QED BY <2>1, <2>2, <2>3 DEF Next
<1>2. pos # 0 => pos' # 0
  BY InvNext, NamesType DEF Next, Instance, Promote, Identify, ReadRow, QueryFails, Report,
     IInv, Order, TypeOK, Looking
<1>3. held' \subseteq Names
  <2>1. TypeOK'
    BY InvNext DEF IInv
  <2> QED BY <2>1 DEF TypeOK
<1> QED BY <1>1, <1>2, <1>3 DEF Lasting, Appeared, Named

LEMMA RefineInit == Init => Promise!Init
<1> SUFFICES ASSUME Init PROVE Promise!Init
  OBVIOUS
<1>1. pos = 0 /\ exit = Running /\ touched = {} /\ altered = {}
  BY DEF Init
<1>2. Lasting \subseteq Named(Names) /\ Appeared \subseteq Named(Names)
  BY <1>1 DEF Lasting, Appeared, Named
<1>3. Blinded = FALSE
  BY <1>1, NamesType, SeqAssumption DEF Blinded, Done
<1> QED BY <1>1, <1>2, <1>3 DEF Promise!Init

LEMMA SameHistory ==
  ASSUME UNCHANGED vars
  PROVE  UNCHANGED <<exit, Lasting, Appeared, Blinded>>
BY DEF Lasting, Appeared, Blinded

LEMMA RefineNext ==
  IInv /\ IInv' /\ [Next]_vars => [Promise!Next]_Promise!vars
<1> SUFFICES ASSUME IInv, IInv', [Next]_vars PROVE [Promise!Next]_Promise!vars
  OBVIOUS
<1>h. pos' = Done => HonestNow'
  <2>1. (IInv /\ pos = Done => HonestNow)'
    BY ExitHonest, PTL
  <2> QED BY <2>1 DEF Done
<1>1. CASE UNCHANGED vars
  BY <1>1, SameHistory DEF Promise!vars
<1>2. CASE Next
  <2>1. exit = Running
    BY <1>2, NamesType, SeqAssumption
       DEF Next, Instance, Promote, Identify, ReadRow, QueryFails, Report, Looking,
           IInv, Order, Reporting, Done, TypeOK
  <2>2. Lasting' \subseteq Lasting /\ Appeared \subseteq Appeared'
    BY <1>2, Ages
  <2>3. Blinded' \in BOOLEAN
    BY DEF Blinded
  <2>4. CASE pos' # Done
    <3>1. exit' = exit
      BY <2>1, <2>4 DEF IInv, Order, Done, Running
    <3> QED BY <2>1, <2>2, <2>3, <3>1 DEF Promise!Next, Promise!Live
  <2>5. CASE pos' = Done
    <3>1. Promise!Honest(exit')
      BY <1>h, <2>5 DEF HonestNow, Promise!Honest
    <3> QED BY <2>1, <2>2, <2>3, <3>1 DEF Promise!Next, Promise!Answer
  <2> QED BY <2>4, <2>5
<1> QED BY <1>1, <1>2

\* The exit code of seq is as honest as HonestAnswer asks, whatever the
\* sequences and the sessions are and do (SeqList, Seq, Redacted).
THEOREM SeqHonest == Spec => Answers
BY Invariant, RefineInit, RefineNext, PTL DEF Spec, Answers, Promise!Spec
=============================================================================
