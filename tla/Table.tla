------------------------------- MODULE Table -------------------------------
(***************************************************************************)
(* kbdiag table <name> against a database where tables come and go.  The   *)
(* name is resolved once, by table.info; the probes that follow are bound  *)
(* to the oid it gave, and are run only when it gave a table.  What the    *)
(* rule relates was read at different moments: the age, the relation's     *)
(* options, its dead tuples, the server's switches.                        *)
(*                                                                         *)
(* Abstracted: an age is young, due or stopped, the higher of the xid's    *)
(* and the multixact's; dead tuples and the line they are held against are *)
(* small numbers, the relation's own line (reloptions) left out; sizes,    *)
(* index rows and the other counters are only shown.                       *)
(***************************************************************************)
EXTENDS Verdict, Sequences

CONSTANTS
  Oids,        \* the relations the database has in its life
  MaxMoves     \* bound: what users and the server do

None == 0

ASSUME TableAssumption ==
  /\ Oids \subseteq Nat \ {None}
  /\ MaxMoves \in Nat

VARIABLES
  recovering,             \* sys_is_in_recovery()
  rels,                   \* sys_class: the relations that exist
  named,                  \* the relation the name resolves to, None if none
  locked,                 \* relations under an AccessExclusiveLock
  auto, track, line,      \* autovacuum, track_counts, autovacuum_vacuum_threshold
  moves,
  pos, role,
  info, size, stats, indexes, limits, settings,   \* what the probes collected
  exit,
  held, touched,          \* history: what lasts since Identify, what showed
  parts                   \* history: what shows half of a trouble

server == <<recovering, rels, named, locked, auto, track, line, moves>>
collected == <<info, size, stats, indexes, limits, settings>>
program == <<pos, role, collected, exit>>
history == <<held, touched, parts>>
vars == <<server, program, history>>

\* table.stats is two queries: track_counts, then the counters.
Order == <<"table.info", "table.size", "track_counts", "table.stats", "table.indexes",
           "freeze.limits", "vacuum.settings">>
Reporting == Len(Order) + 1
Done == Len(Order) + 2
Looking == pos \in 1..Len(Order)
Running == 1000

\* relkinds: tables (r, for materialized views too), partitioned tables and
\* TOAST tables are accepted; i stands for every kind that is not.
TableKinds == {"r", "p", "t"}
Kinds == TableKinds \cup {"i"}

\* A partitioned table has no frozen xid; it, an index and TOAST have no row in
\* sys_stat_user_tables.
HasAge(r) == r.kind \notin {"p", "i"}
HasStats(r) == r.kind = "r"

Young == 0
Due == 1       \* at autovacuum_freeze_max_age, which only a restart changes
Stopped == 2   \* at XIDStopAge or MXIDStopAge

Rel(kind) == [kind |-> kind, off |-> FALSE, age |-> Young, dead |-> 0]
Unborn == Rel("unborn")
Gone == Rel("gone")
Rels == [kind : Kinds, off : BOOLEAN, age : Young..Stopped, dead : 0..1] \cup {Unborn, Gone}
Exists(o) == rels[o].kind \in Kinds

-----------------------------------------------------------------------------
(* What table is about *)

Finding(id, level, of) == [id : {id}, level : {level}, of : of]
Findings ==
  Finding("freeze.table_age", "FAIL", Oids) \cup
  Finding("freeze.table_age", "WARN", Oids) \cup
  Finding("vacuum.disabled", "WARN", {None}) \cup Finding("vacuum.table_disabled", "WARN", Oids)

\* Nothing but the age is a standby's trouble: it vacuums nothing.
Disabled == ~recovering /\ ~(auto /\ track)
Aged(r, level) == HasAge(r) /\ r.age >= (IF level = "FAIL" THEN Stopped ELSE Due)
Neglecting(r) == ~recovering /\ auto /\ track /\ HasStats(r) /\ r.off /\ r.dead > line

\* True of a relation, whatever its name; and of the one the name stands for.
Shown ==
  {f \in Findings :
     \/ f.id = "vacuum.disabled" /\ Disabled
     \/ /\ f.of # None /\ rels[f.of].kind \in TableKinds
        /\ \/ f.id = "freeze.table_age" /\ Aged(rels[f.of], f.level)
           \/ f.id = "vacuum.table_disabled" /\ Neglecting(rels[f.of])}
Troubles == {f \in Shown : f.of \in {named, None}}

\* The halves of a neglected table: the option, the dead tuples, the line and
\* the switches they are held against.
Parts ==
  {<<"off", o>> : o \in {p \in Oids : rels[p].off}} \cup
  {<<"dead", o>> : o \in {p \in Oids : rels[p].dead > 0}} \cup
  (IF line = 0 THEN {<<"line", None>>} ELSE {}) \cup
  (IF auto /\ track THEN {<<"on", None>>} ELSE {})
Whole(o) == {<<"off", o>>, <<"dead", o>>, <<"line", None>>, <<"on", None>>}

\* What a probe collected; of its reason only a lock timeout matters.
NotRead == [status |-> "none", rows |-> {}, lock |-> FALSE]
Ok(found) == [status |-> "ok", rows |-> found, lock |-> FALSE]
Missing(status) == [status |-> status, rows |-> {}, lock |-> FALSE]
\* skipped and error are judged alike here.
Failures == {Missing(Classify("other_code"))}
LockTimeout == [status |-> Classify("55P03"), rows |-> {}, lock |-> TRUE]

Told(c) == c.status \in Statuses \cup {"none"} /\ c.lock \in BOOLEAN

TypeOK ==
  /\ {recovering, auto, track} \subseteq BOOLEAN /\ line \in 0..1
  /\ rels \in [Oids -> Rels]
  /\ named \in {o \in Oids : Exists(o)} \cup {None} /\ locked \subseteq Oids
  /\ moves \in 0..MaxMoves
  /\ pos \in 0..Done /\ role \in Roles \cup {"none"}
  /\ Told(info) /\ Told(size) /\ Told(stats) /\ Told(indexes) /\ Told(limits) /\ Told(settings)
  /\ info.rows \subseteq [oid : Oids, kind : Kinds, off : BOOLEAN, age : Young..Stopped]
  /\ size.rows \subseteq Oids /\ indexes.rows \subseteq Oids
  /\ stats.rows \subseteq [oid : Oids, dead : 0..1]
  /\ settings.rows \subseteq [auto : BOOLEAN, track : BOOLEAN, line : 0..1]
  /\ exit \in 0..3 \cup {Running}
  /\ held \subseteq Findings /\ touched \subseteq Findings

Init ==
  /\ recovering \in BOOLEAN /\ auto \in BOOLEAN /\ track = TRUE /\ line \in 0..1
  /\ \E first \in Oids, r \in Rels :
       /\ r.kind \in Kinds
       /\ r.off => HasStats(r)
       /\ r.dead > 0 => HasStats(r) /\ ~recovering
       /\ r.age > Young => HasAge(r)
       /\ rels = [o \in Oids |-> IF o = first THEN r ELSE Unborn]
       /\ named \in {first, None}
  /\ locked = {} /\ moves = 0
  /\ pos = 0 /\ role = "none"
  /\ info = NotRead /\ size = NotRead /\ stats = NotRead /\ indexes = NotRead
  /\ limits = NotRead /\ settings = NotRead
  /\ exit = Running
  /\ held = {} /\ touched = {} /\ parts = {}

-----------------------------------------------------------------------------
(* The database; a standby replays what happens to its catalog *)

Create ==
  /\ \E o \in Oids, kind \in Kinds :
       /\ rels[o] = Unborn
       /\ rels' = [rels EXCEPT ![o] = Rel(kind)]
       /\ named' \in {named, IF named = None THEN o ELSE named}
  /\ UNCHANGED <<locked, auto, track, line>>

Drop(o) ==
  /\ Exists(o)
  /\ rels' = [rels EXCEPT ![o] = Gone]
  /\ named' = IF named = o THEN None ELSE named
  /\ locked' = locked \ {o}
  /\ UNCHANGED <<auto, track, line>>

Rename(o) ==
  /\ Exists(o)
  /\ \/ named = o /\ named' = None
     \/ named = None /\ named' = o
  /\ UNCHANGED <<rels, locked, auto, track, line>>

\* ALTER TABLE SET and RESET (autovacuum_enabled).
SetOption(o) ==
  /\ HasStats(rels[o])
  /\ rels' = [rels EXCEPT ![o].off = ~@]
  /\ UNCHANGED <<named, locked, auto, track, line>>

\* The counter moves only while statistics are collected.
Delete(o) ==
  /\ HasStats(rels[o]) /\ ~recovering /\ track /\ rels[o].dead = 0
  /\ rels' = [rels EXCEPT ![o].dead = 1]
  /\ UNCHANGED <<named, locked, auto, track, line>>

Age(o) ==
  /\ Exists(o) /\ HasAge(rels[o]) /\ rels[o].age < Stopped
  /\ rels' = [rels EXCEPT ![o].age = @ + 1]
  /\ UNCHANGED <<named, locked, auto, track, line>>

\* VACUUM FREEZE
Freeze(o) ==
  /\ Exists(o) /\ ~recovering
  /\ rels' = [rels EXCEPT ![o].age = Young, ![o].dead = 0]
  /\ UNCHANGED <<named, locked, auto, track, line>>

Lock(o) ==
  /\ Exists(o)
  /\ \/ locked' = locked \cup {o}
     \/ locked' = locked \ {o}
  /\ UNCHANGED <<rels, named, auto, track, line>>

\* ALTER SYSTEM and a reload.
Reload ==
  /\ \/ auto' = ~auto /\ UNCHANGED <<track, line>>
     \/ track' = ~track /\ UNCHANGED <<auto, line>>
     \/ line' = 1 - line /\ UNCHANGED <<auto, track>>
  /\ UNCHANGED <<rels, named, locked>>

Remember ==
  IF Looking
    THEN /\ held' = held \cap Troubles'
         /\ touched' = touched \cup Shown'
         /\ parts' = parts \cup Parts'
    ELSE UNCHANGED history

Instance ==
  /\ pos < Reporting /\ moves < MaxMoves /\ moves' = moves + 1
  /\ \/ /\ \/ Create \/ Reload
           \/ \E o \in Oids : \/ Drop(o) \/ Rename(o) \/ SetOption(o) \/ Delete(o)
                              \/ Age(o) \/ Freeze(o) \/ Lock(o)
        /\ UNCHANGED recovering
     \/ /\ recovering /\ recovering' = FALSE
        /\ UNCHANGED <<rels, named, locked, auto, track, line>>
  /\ UNCHANGED program
  /\ Remember

-----------------------------------------------------------------------------
(* The run *)

Identify ==
  /\ pos = 0
  /\ pos' = 1
  /\ role' = IF recovering THEN "standby" ELSE "primary"
  /\ held' = Troubles /\ touched' = Shown /\ parts' = Parts
  /\ UNCHANGED <<server, collected, exit>>

\* The name resolves to one relation or to none; no lock is taken.
TableInfo ==
  /\ info' \in Failures \cup
       {Ok({[oid |-> o, kind |-> rels[o].kind, off |-> rels[o].off, age |-> rels[o].age] :
              o \in {named} \ {None}})}
  /\ UNCHANGED <<size, stats, indexes, limits, settings>>

\* The relation the probes after table.info are bound to.
IsTableRow(i) == i.status = "ok" /\ \E r \in i.rows : r.kind \in TableKinds
Row == CHOOSE r \in info.rows : TRUE

\* What they report when there is none.
TableAfter == Missing(IF info.status # "ok" THEN "skipped" ELSE "not_applicable")

\* A query that locks the relation stops at lock_timeout while another holds it.
Query(o, locks, found) ==
  Failures \cup IF locks /\ o \in locked THEN {LockTimeout} ELSE {Ok(found)}

TableSize ==
  /\ size' \in IF IsTableRow(info)
                 THEN Query(Row.oid, TRUE, {Row.oid} \cap {o \in Oids : Exists(o)})
                 ELSE {TableAfter}
  /\ UNCHANGED <<info, stats, indexes, limits, settings>>

TrackCounts ==
  /\ stats' \in IF ~IsTableRow(info) THEN {TableAfter}
                ELSE IF role = "standby" THEN {Missing("not_applicable")}
                ELSE Failures \cup {IF track THEN NotRead ELSE Missing("skipped")}
  /\ UNCHANGED <<info, size, indexes, limits, settings>>

\* Mutant: the counters are looked up by the name again.
CountedByName == {o \in {named} \ {None} : HasStats(rels[o])}

\* The relations whose counters are read: none once the relation is gone.
Counted == {o \in {Row.oid} : HasStats(rels[o])}

TableStats ==
  /\ stats' \in IF stats # NotRead THEN {stats}
                ELSE Query(Row.oid, FALSE, {[oid |-> o, dead |-> rels[o].dead] : o \in Counted})
  /\ UNCHANGED <<info, size, indexes, limits, settings>>

\* Mutant: the sizes are always asked for.
SizesAlways(z) == TRUE

\* The index sizes are asked for only when table.size could be read.
Sizes(z) == z.status = "ok"

TableIndexes ==
  /\ indexes' \in IF IsTableRow(info)
                    THEN Query(Row.oid, Sizes(size), {Row.oid} \cap {o \in Oids : Exists(o)})
                    ELSE {TableAfter}
  /\ UNCHANGED <<info, size, stats, limits, settings>>

FreezeLimits ==
  /\ limits' \in Failures \cup {Ok({Due})}
  /\ UNCHANGED <<info, size, stats, indexes, settings>>

VacuumSettings ==
  /\ settings' \in Failures \cup {Ok({[auto |-> auto, track |-> track, line |-> line]})}
  /\ UNCHANGED <<info, size, stats, indexes, limits>>

Probe ==
  /\ Looking
  /\ CASE Order[pos] = "table.info" -> TableInfo
       [] Order[pos] = "table.size" -> TableSize
       [] Order[pos] = "track_counts" -> TrackCounts
       [] Order[pos] = "table.stats" -> TableStats
       [] Order[pos] = "table.indexes" -> TableIndexes
       [] Order[pos] = "freeze.limits" -> FreezeLimits
       [] Order[pos] = "vacuum.settings" -> VacuumSettings
  /\ pos' = pos + 1
  /\ UNCHANGED <<server, role, exit, history>>

-----------------------------------------------------------------------------
(* rule.Table *)

\* ageFinding: the stop limit is a constant, the warning line is read.
AgeLevels(age, limOK) ==
  IF age = Stopped THEN {"FAIL"} ELSE IF limOK /\ age >= Due THEN {"WARN"} ELSE {}
AgeBlind(age, limOK) == AgeLevels(age, limOK) = {} /\ ~limOK

Off(set) == ~(set.auto /\ set.track)
Neglected(i, s, set) == ~Off(set) /\ i.off /\ \E r \in s.rows : r.dead > set.line

\* What is judged of a primary only: the switches, then the table's own.
VacuumPart(i, s, v) ==
  IF ~Judgeable(v.status) THEN Result({}, TRUE)
  ELSE LET set == CHOOSE x \in v.rows : TRUE
       IN Result(IF Off(set) \/ Neglected(i, s, set) THEN {"WARN"} ELSE {}, BlindSpot(s.status))

AgePart(i, l) ==
  LET limOK == Judgeable(l.status)
  IN IF HasAge(i) THEN Result(AgeLevels(i.age, limOK), AgeBlind(i.age, limOK))
     ELSE Result({}, FALSE)

\* Mutant: what table.info did not give is passed over.
JudgedWithoutRow(i, s, l, v, on) ==
  IF ~IsTableRow(i) THEN Result({}, FALSE)
  ELSE IF on = "standby" THEN AgePart(Row, l)
  ELSE Merge({AgePart(Row, l), VacuumPart(Row, s, v)})

\* scenario.Table and rule.Table: a name that gave no table is UNKNOWN.
Judged(i, s, l, v, on) ==
  IF ~IsTableRow(i) THEN Result({}, TRUE)
  ELSE IF on = "standby" THEN AgePart(Row, l)
  ELSE Merge({AgePart(Row, l), VacuumPart(Row, s, v)})

Report ==
  /\ pos = Reporting
  /\ pos' = Done
  /\ exit' = ExitCode(Judged(info, stats, limits, settings, role).verdict)
  /\ UNCHANGED <<server, role, collected, history>>

Next == Instance \/ Identify \/ Probe \/ Report

Spec == Init /\ [][Next]_vars

-----------------------------------------------------------------------------
(* What table promises *)

\* What is shown is of one relation, however often its name changed hands
\* between the probes: all of it is of the oid that table.info gave (newTable).
OneRelation ==
  /\ \A o \in size.rows \cup indexes.rows \cup {r.oid : r \in stats.rows} :
       \E r \in info.rows : r.oid = o
  /\ \A r \in stats.rows : HasStats(Row)

\* A lock that kept table.size from its sizes does not take the index list
\* away too (tableIndexesSQL).
ListComesBack == size.lock => ~indexes.lock

\* The comment of rule.Table: autovacuum turned off for the table while past
\* its threshold. An alarm of that kind alone was true at some moment.
AlarmIsWhole ==
  pos = Done /\ exit = ExitCode("WARN") =>
    \E f \in touched : f.level = "WARN" /\ f.of \in {Row.oid, None}

\* The exit code keeps the promise of HonestAnswer about the relation the name
\* stood for all along; an alarm of vacuum.table_disabled may put together
\* parts that were true at different moments (Table, Judged).
Pieced == {f \in Findings : f.id = "vacuum.table_disabled" /\ Whole(f.of) \subseteq parts}
Blind ==
  \/ ~IsTableRow(info)
  \/ HasAge(Row) /\ BlindSpot(limits.status)
  \/ role = "primary" /\ (BlindSpot(stats.status) \/ BlindSpot(settings.status))
Promise == INSTANCE HonestAnswer WITH
  answer <- exit,
  lasting <- IF pos = 0 THEN Findings ELSE held,
  appeared <- touched \cup Pieced,
  blinded <- pos = Done /\ Blind,
  NoAnswer <- Running
\* The run implements HonestAnswer under that mapping.
Answers == Promise!Spec
=============================================================================
