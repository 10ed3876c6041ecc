-------------------------------- MODULE Seq --------------------------------
(***************************************************************************)
(* kbdiag seq against an instance whose sequences are drawn from, set and  *)
(* altered while the query runs.  The row of a sequence mixes two moments: *)
(* its definition is that of the query's snapshot, its last_value is read  *)
(* live, row after row.  Sessions draw `cache` values at a time and use    *)
(* them up later; a standby reads the WAL's copy, which runs ahead.        *)
(*                                                                         *)
(* Values are integers, exact as in the code's math/big; the only width is *)
(* that of the sequence types.                                             *)
(***************************************************************************)
EXTENDS Verdict, Integers, FiniteSets

CONSTANTS
  Count,        \* how many sequences the database has
  Clients,      \* the sessions that draw from them
  Types,        \* the sequence types: bounds of each, as typeBounds
  Definitions,  \* the definitions CREATE SEQUENCE is tried with
  Reshaped,     \* those of them that ALTER SEQUENCE is tried with
  WalAhead,     \* how far WAL runs ahead of a sequence: 32 in the server
  MaxMoves      \* bound: what the sessions do

\* The sequences, by their place in the list.
Names == 1..Count

\* What CREATE SEQUENCE accepts.
Legal(d) ==
  /\ d.min < d.max /\ d.start \in d.min..d.max
  /\ d.inc # 0
  /\ Types[d.type].lo <= d.min /\ d.max <= Types[d.type].hi

ASSUME SeqAssumption ==
  /\ Count \in Nat
  /\ "bigint" \in DOMAIN Types
  /\ Types \in [DOMAIN Types -> [lo : Int, hi : Int]]
  /\ Definitions \subseteq [type : DOMAIN Types, start : Int, min : Int, max : Int,
                            inc : Int, cycle : BOOLEAN, cache : Nat \ {0}]
  /\ \A d \in Definitions : Legal(d)
  /\ Reshaped \subseteq Definitions
  /\ WalAhead \in Nat /\ MaxMoves \in Nat

VARIABLES
  recovering,   \* sys_is_in_recovery()
  def,          \* sys_sequence: the definition of each sequence
  value,        \* last_value and is_called of each, as a query sees them
  wal,          \* the same as logged, which is what a standby has
  ahead,        \* the values each session still holds of each sequence
  moves,
  pos,          \* 0 before the run, then the sequence to read, then two more
  role,         \* facts.Context.Role
  snap,         \* the definitions and privileges in the query's snapshot
  status, rows, \* facts.SeqList
  exit,
  held, touched,   \* history: sequences exhausted since Identify, and ever
  altered,         \* history: definitions that changed during the query
  drawn            \* history: values taken from a sequence since its row, or Set

server == <<recovering, def, value, wal, ahead, moves>>
program == <<pos, role, snap, status, rows, exit>>
history == <<held, touched, altered, drawn>>
vars == <<server, program, history>>

Running == 1000
Unset == -1        \* drawn: setval, ALTER or a new cycle since the row was read
Reporting == Count + 1
Done == Count + 2
Looking == pos \in Names

-----------------------------------------------------------------------------
(* Sequences, as nextval sees them *)

InRange(d, v) == v \in d.min..d.max

\* The value a fetch from the sequence itself begins with, if there is one.
Wraps(d, v) == v.called /\ ~InRange(d, v.last + d.inc)
Exhausted(d, v) == Wraps(d, v) /\ ~d.cycle
First(d, v) ==
  IF ~v.called THEN v.last
  ELSE IF ~Wraps(d, v) THEN v.last + d.inc
  ELSE IF d.inc > 0 THEN d.min ELSE d.max

\* A fetch takes the first value and up to cache - 1 more within the limits.
Taken(d, v) == {n \in 1..d.cache : InRange(d, First(d, v) + (n - 1) * d.inc)}

\* A standby hands out nothing, so nothing is wrong there.
Troubles == IF recovering THEN {} ELSE {s \in Names : Exhausted(def[s], value[s])}

-----------------------------------------------------------------------------
(* SeqLeft and its users *)

Truncated(room, inc) == IF room < 0 THEN 0 ELSE room \div inc

\* Mutant: computed in the width of the values.
SeqLeftWraps(r) ==
  LET b == Types["bigint"]
      width == b.hi - b.lo + 1
      wrapped(x) == ((x - b.lo) % width) + b.lo
  IN IF r.inc > 0 THEN Truncated(wrapped(r.max - r.last), r.inc)
     ELSE Truncated(wrapped(r.last - r.min), -r.inc)

\* Mutant: every sequence counts up.
SeqLeftUpwards(r) == Truncated(r.max - r.last, IF r.inc > 0 THEN r.inc ELSE -r.inc)

\* How many more values the sequence can hand out before it passes its limit.
SeqLeft(r) ==
  IF r.inc > 0 THEN Truncated(r.max - r.last, r.inc)
  ELSE Truncated(r.last - r.min, -r.inc)

Judged(r) == r.readable /\ r.called

\* Mutant: what stops the sequence is always its MAXVALUE.
SeqFixUpwards(r) ==
  IF r.max < Types[r.type].hi THEN "limit"
  ELSE IF r.type # "bigint" THEN "type" ELSE "new key"

\* What seqFix says to move.
SeqFix(r) ==
  LET own == \/ r.inc > 0 /\ r.max < Types[r.type].hi
             \/ r.inc < 0 /\ r.min > Types[r.type].lo
  IN IF own THEN "limit"
     ELSE IF r.type # "bigint" THEN "type" ELSE "new key"

\* seq.exhausted
RaisedBy(list) ==
  {s \in DOMAIN list : Judged(list[s]) /\ ~list[s].cycle /\ SeqLeft(list[s]) = 0}

Hidden(st, list) == BlindSpot(st) \/ \E s \in DOMAIN list : ~list[s].readable

\* Mutant: a standby's copies are judged too.
SeqRuleEverywhere(st, list, on) ==
  Result(IF Judgeable(st) /\ RaisedBy(list) # {} THEN {"FAIL"} ELSE {}, Hidden(st, list))

SeqRule(st, list, on) ==
  Result(IF Judgeable(st) /\ on # "standby" /\ RaisedBy(list) # {} THEN {"FAIL"} ELSE {},
         Hidden(st, list))

-----------------------------------------------------------------------------
Values == [last : Int, called : BOOLEAN]
Rows == [type : DOMAIN Types, start : Int, min : Int, max : Int, inc : Int, cycle : BOOLEAN,
         cache : Nat, last : Int, called : BOOLEAN, readable : BOOLEAN]

TypeOK ==
  /\ recovering \in BOOLEAN
  /\ def \in [Names -> Definitions]
  /\ value \in [Names -> Values] /\ wal \in [Names -> Values]
  /\ ahead \in [Clients -> [Names -> Nat]]
  /\ moves \in 0..MaxMoves
  /\ pos \in 0..Done /\ role \in Roles \cup {"none"}
  /\ snap.def \in [Names -> Definitions] /\ snap.readable \subseteq Names
  /\ status \in Statuses \cup {"none"}
  /\ DOMAIN rows \subseteq Names /\ \A s \in DOMAIN rows : rows[s] \in Rows
  /\ exit \in 0..3 \cup {Running}
  /\ held \subseteq Names /\ touched \subseteq Names /\ altered \subseteq Names
  /\ drawn \in [Names -> Nat \cup {Unset}]

Init ==
  /\ recovering \in BOOLEAN
  /\ def \in [Names -> Definitions]
  /\ \E last \in [Names -> UNION {d.min..d.max : d \in Definitions}] :
       \E called \in [Names -> BOOLEAN] :
         /\ \A s \in Names : InRange(def[s], last[s])
         /\ value = [s \in Names |-> [last |-> last[s], called |-> called[s]]]
  /\ wal = value
  /\ ahead = [c \in Clients |-> [s \in Names |-> 0]]
  /\ moves = 0 /\ pos = 0 /\ role = "none"
  /\ snap = [def |-> def, readable |-> {}]
  /\ status = "none" /\ rows = <<>> /\ exit = Running
  /\ held = {} /\ touched = {} /\ altered = {}
  /\ drawn = [s \in Names |-> Unset]

-----------------------------------------------------------------------------
(* The sessions; a standby's server only replays *)

Remember ==
  IF Looking
    THEN /\ held' = held \cap Troubles'
         /\ touched' = touched \cup Troubles'
         /\ altered' = altered \cup {s \in Names : def'[s] # def[s]}
    ELSE UNCHANGED <<held, touched, altered>>

\* nextval from the values the session holds: the sequence does not move.
UseCached(c, s) ==
  /\ ahead[c][s] > 0
  /\ ahead' = [ahead EXCEPT ![c][s] = @ - 1]
  /\ UNCHANGED <<def, value, wal, drawn>>

\* nextval from the sequence. What is logged may be any value up to WalAhead
\* further on.
Fetch(c, s) ==
  /\ ahead[c][s] = 0 /\ ~Exhausted(def[s], value[s])
  /\ LET d == def[s]
         first == First(d, value[s])
     IN \E n \in Taken(d, value[s]) :
          /\ n + 1 \notin Taken(d, value[s])
          /\ value' = [value EXCEPT ![s] = [last |-> first + (n - 1) * d.inc, called |-> TRUE]]
          /\ ahead' = [ahead EXCEPT ![c][s] = n - 1]
          /\ drawn' = [drawn EXCEPT ![s] =
               IF @ = Unset \/ Wraps(d, value[s]) THEN Unset ELSE @ + n]
          /\ \E k \in 0..WalAhead :
               /\ InRange(d, value'[s].last + k * d.inc)
               /\ wal' = [wal EXCEPT ![s] = [last |-> value'[s].last + k * d.inc, called |-> TRUE]]
  /\ UNCHANGED def

\* setval, also ALTER SEQUENCE ... RESTART: logged as it is, and the session's
\* own values are dropped.
Setval(c, s) ==
  /\ \E v \in def[s].min..def[s].max, called \in BOOLEAN :
       /\ value' = [value EXCEPT ![s] = [last |-> v, called |-> called]]
       /\ wal' = [wal EXCEPT ![s] = value'[s]]
  /\ ahead' = [ahead EXCEPT ![c][s] = 0]
  /\ drawn' = [drawn EXCEPT ![s] = Unset]
  /\ UNCHANGED def

\* ALTER SEQUENCE: the last value must be within the new limits.
Alter(c, s) ==
  /\ \E d \in Reshaped :
       /\ InRange(d, value[s].last)
       /\ def' = [def EXCEPT ![s] = d]
  /\ wal' = [wal EXCEPT ![s] = value[s]]
  /\ ahead' = [ahead EXCEPT ![c][s] = 0]
  /\ drawn' = [drawn EXCEPT ![s] = Unset]
  /\ UNCHANGED value

Instance ==
  /\ pos < Reporting /\ moves < MaxMoves /\ moves' = moves + 1
  /\ \E c \in Clients, s \in Names :
       UseCached(c, s) \/ Fetch(c, s) \/ Setval(c, s) \/ Alter(c, s)
  /\ UNCHANGED <<recovering, program>>
  /\ Remember

Promote ==
  /\ pos < Reporting /\ recovering
  /\ recovering' = FALSE
  /\ value' = wal
  /\ ahead' = [c \in Clients |-> [s \in Names |-> 0]]
  /\ drawn' = [s \in Names |-> Unset]
  /\ UNCHANGED <<def, wal, moves, program>>
  /\ Remember

-----------------------------------------------------------------------------
(* The run *)

\* Identify, and the query begins: what it reads is its own snapshot.
Identify ==
  /\ pos = 0
  /\ role' = IF recovering THEN "standby" ELSE "primary"
  /\ \E mine \in SUBSET Names : snap' = [def |-> def, readable |-> mine]
  /\ held' = Troubles /\ touched' = Troubles /\ altered' = {}
  /\ pos' = 1 /\ status' = "ok"
  /\ UNCHANGED <<server, rows, exit, drawn>>

\* sys_sequences shows last_value live, on a standby the WAL's, and NULL for
\* a sequence never called or not readable.
RowOf(s) ==
  LET d == snap.def[s]
      v == IF recovering THEN wal[s] ELSE value[s]
      mine == s \in snap.readable
  IN [type |-> d.type, start |-> d.start, min |-> d.min, max |-> d.max, inc |-> d.inc,
      cycle |-> d.cycle, cache |-> d.cache, last |-> IF mine /\ v.called THEN v.last ELSE 0,
      called |-> mine /\ v.called, readable |-> mine]

ReadRow ==
  /\ Looking
  /\ rows' = [s \in 1..pos |-> IF s = pos THEN RowOf(s) ELSE rows[s]]
  /\ drawn' = [drawn EXCEPT ![pos] = IF recovering \/ pos \in altered THEN Unset ELSE 0]
  /\ pos' = pos + 1
  /\ UNCHANGED <<server, role, snap, status, exit, held, touched, altered>>

\* A query that fails leaves no rows, whatever it had read.
QueryFails ==
  /\ Looking
  /\ \E err \in QueryErrors : status' = Classify(err)
  /\ rows' = <<>>
  /\ drawn' = [s \in Names |-> Unset]
  /\ pos' = Reporting
  /\ UNCHANGED <<server, role, snap, exit, held, touched, altered>>

Report ==
  /\ pos = Reporting
  /\ exit' = ExitCode(SeqRule(status, rows, role).verdict)
  /\ pos' = Done
  /\ UNCHANGED <<server, role, snap, status, rows, history>>

Next == Instance \/ Promote \/ Identify \/ ReadRow \/ QueryFails \/ Report

Spec == Init /\ [][Next]_vars

-----------------------------------------------------------------------------
(* What seq promises *)

\* SeqLeft counts exactly the further values within the limits, whatever the
\* step, the direction and the width of the range (SeqLeft, "exact
\* arithmetic").
LeftIsExact ==
  \A s \in DOMAIN rows : Judged(rows[s]) /\ InRange(rows[s], rows[s].last) =>
    LET r == rows[s]
    IN SeqLeft(r) = Cardinality({k \in 1..(r.max - r.min) : InRange(r, r.last + k * r.inc)})

\* Until someone sets, alters or wraps the sequence, no more values are taken
\* from it than its row said were left, and it is exhausted only when all of
\* them are (SeqLeft: "how many more values nextval can hand out").
LeftHolds ==
  \A s \in DOMAIN rows : Judged(rows[s]) /\ drawn[s] # Unset =>
    /\ drawn[s] <= SeqLeft(rows[s])
    /\ Exhausted(def[s], value[s]) => drawn[s] >= SeqLeft(rows[s]) /\ ~rows[s].cycle

\* The advice fits what stops the sequence: its own limit can be moved so that
\* the next value fits, another type is asked for only when no limit of this
\* one lets it, and a new key only when none of bigint would (seqFix). A limit
\* less than a step short of its type's bound is the exception: moving it does
\* not help. Not said of a row whose limits are older than its value.
Fits(r, lo, hi) == r.last + r.inc \in lo..hi
FixHelps ==
  \A s \in {n \in RaisedBy(rows) : InRange(rows[n], rows[n].last)} :
    LET r == rows[s]
        t == Types[r.type]
        big == Types["bigint"]
        short == IF r.inc > 0 THEN t.hi - r.max ELSE r.min - t.lo
        step == IF r.inc > 0 THEN r.inc ELSE -r.inc
    IN /\ SeqFix(r) = "limit" => Fits(r, t.lo, t.hi) \/ short \in 1..(step - 1)
       /\ SeqFix(r) = "type" => ~Fits(r, t.lo, t.hi)
       /\ SeqFix(r) = "new key" => ~Fits(r, big.lo, big.hi)

\* What the comment of Seq says of a sequence it fails: nextval errors, for
\* every session, when the row is read. The sequence did not move since.
RaisedFailsForAll ==
  pos = Done /\ role = "primary" =>
    \A s \in RaisedBy(rows) : drawn[s] = 0 => \A c \in Clients : ahead[c][s] = 0

\* The exit code keeps the promise of HonestAnswer about the sequences whose
\* definition stood still during the query: one exhausted all along fails the
\* run, a FAIL means one was, on the primary, at some time (Seq).
Named(S) == [of : S, level : {"FAIL"}]
Lasting == Named(IF pos = 0 THEN Names ELSE held \ altered)
Appeared == Named(touched \cup altered)
Blinded == pos = Done /\ Hidden(status, rows)
Promise == INSTANCE HonestAnswer WITH
  Findings <- Named(Names),
  answer <- exit,
  lasting <- Lasting,
  appeared <- Appeared,
  blinded <- Blinded,
  NoAnswer <- Running
\* The run implements HonestAnswer under that mapping.
Answers == Promise!Spec
=============================================================================
