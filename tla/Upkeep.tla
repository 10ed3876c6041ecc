------------------------------- MODULE Upkeep -------------------------------
(***************************************************************************)
(* What a server must keep doing to stay up: freezing old xids and         *)
(* multixacts before it has to refuse new ones, and vacuuming dead tuples. *)
(* How the databases age and the tables fill, what the probes freeze.* and *)
(* vacuum.* read of it, and what rule.Freeze and rule.Vacuum say.          *)
(*                                                                         *)
(* Abstracted: numbers are small; dead tuples and thresholds are integers, *)
(* not float4; options are read as values, not parsed.                     *)
(***************************************************************************)
EXTENDS Collected, Integers

CONSTANTS
  Databases,     \* template0 among them
  Tables,        \* of the database kbdiag is connected to
  StopAge,       \* XIDStopAge, MXIDStopAge: where the server refuses new ones
  MaxAges,       \* autovacuum_freeze_max_age, ..._multixact_freeze_max_age
  Reloptions,    \* what a table may have set for itself
  MaxTuples      \* bound: dead tuples, reltuples and thresholds

Counters == {"xid", "mxid"}
Unset == -1

ASSUME UpkeepAssumption ==
  /\ Databases # {} /\ MaxAges # {} /\ Reloptions # {}
  /\ StopAge \in [Counters -> Nat]
  /\ MaxAges \subseteq [Counters -> Nat]
  /\ \A m \in MaxAges, k \in Counters : 0 < m[k] /\ m[k] < StopAge[k]
  /\ MaxTuples \in Nat \ {0}
  /\ Reloptions \subseteq
       [enabled : BOOLEAN, threshold : Nat \cup {Unset}, scale : Nat \cup {Unset}]

VARIABLES
  age,                 \* of each database, in xids and in multixacts
  maxAge,              \* changes with a restart only
  dead, reltuples,     \* of each table
  reloptions,
  autovacuum, trackCounts, defaults

upkeep == <<age, maxAge, dead, reltuples, reloptions, autovacuum, trackCounts, defaults>>

Lines == 0..(MaxTuples - 1)
Defaults == [threshold : Lines, scale : 0..1]

UpkeepOK ==
  /\ age \in [Databases -> [Counters -> Nat]]
  /\ \A d \in Databases, k \in Counters : age[d][k] <= StopAge[k]
  /\ maxAge \in MaxAges
  /\ dead \in [Tables -> 0..MaxTuples] /\ reltuples \in [Tables -> Lines]
  /\ reloptions \in [Tables -> Reloptions]
  /\ {autovacuum, trackCounts} \subseteq BOOLEAN /\ defaults \in Defaults

-----------------------------------------------------------------------------
(* What is wrong with it *)

Old(d, line) == \E k \in Counters : age[d][k] >= line[k]
Stopped(d) == Old(d, StopAge)
Due(d) == Old(d, maxAge)

\* A table as the catalog and the statistics show it.
TableRows ==
  {[name |-> t, dead |-> dead[t], reltuples |-> reltuples[t], options |-> reloptions[t]] :
     t \in Tables}

\* relation_needs_vacanalyze: its own options count before the server's.
Own(option, default) == IF option = Unset THEN default ELSE option
Past(r, set) ==
  r.dead > Own(r.options.threshold, set.threshold) + Own(r.options.scale, set.scale) * r.reltuples
Neglected(t) ==
  \E r \in TableRows : r.name = t /\ ~r.options.enabled /\ Past(r, defaults)
SwitchedOff == ~(autovacuum /\ trackCounts)

-----------------------------------------------------------------------------
(* The server *)

InitAges ==
  /\ age \in [Databases -> [Counters -> UNION {0..StopAge[k] : k \in Counters}]]
  /\ \A d \in Databases, k \in Counters : age[d][k] <= StopAge[k]
  /\ maxAge \in MaxAges

PlainAges ==
  /\ age = [d \in Databases |-> [k \in Counters |-> 0]]
  /\ maxAge = CHOOSE m \in MaxAges : TRUE

InitTables ==
  /\ dead \in [Tables -> 0..MaxTuples] /\ reltuples \in [Tables -> Lines]
  /\ reloptions \in [Tables -> Reloptions]
  /\ autovacuum \in BOOLEAN /\ trackCounts \in BOOLEAN /\ defaults \in Defaults

PlainTables ==
  /\ dead = [t \in Tables |-> 0] /\ reltuples = [t \in Tables |-> 0]
  /\ reloptions = [t \in Tables |-> CHOOSE o \in Reloptions : TRUE]
  /\ autovacuum = TRUE /\ trackCounts = TRUE
  /\ defaults = [threshold |-> 0, scale |-> 0]

\* A new xid or multixact: refused once the oldest database is at the stop limit.
Consume(k) ==
  /\ \A d \in Databases : age[d][k] < StopAge[k]
  /\ age' = [d \in Databases |-> [age[d] EXCEPT ![k] = @ + 1]]
  /\ UNCHANGED <<maxAge, dead, reltuples, reloptions, autovacuum, trackCounts, defaults>>

\* The oldest table of a database is vacuumed.
Freeze(d, k) ==
  /\ \E younger \in 0..(age[d][k] - 1) : age' = [age EXCEPT ![d][k] = younger]
  /\ UNCHANGED <<maxAge, dead, reltuples, reloptions, autovacuum, trackCounts, defaults>>

\* Dead tuples are counted while statistics are collected.
Delete(t) ==
  /\ trackCounts /\ dead[t] < MaxTuples
  /\ dead' = [dead EXCEPT ![t] = @ + 1]
  /\ UNCHANGED <<age, maxAge, reltuples, reloptions, autovacuum, trackCounts, defaults>>

Vacuum(t) ==
  /\ dead' = [dead EXCEPT ![t] = 0]
  /\ \E n \in Lines : reltuples' = [reltuples EXCEPT ![t] = n]
  /\ UNCHANGED <<age, maxAge, reloptions, autovacuum, trackCounts, defaults>>

AlterTable(t) ==
  /\ \E o \in Reloptions \ {reloptions[t]} : reloptions' = [reloptions EXCEPT ![t] = o]
  /\ UNCHANGED <<age, maxAge, dead, reltuples, autovacuum, trackCounts, defaults>>

\* ALTER SYSTEM and a reload.
SetAutovacuum ==
  /\ \/ autovacuum' = ~autovacuum /\ UNCHANGED <<trackCounts, defaults>>
     \/ trackCounts' = ~trackCounts /\ UNCHANGED <<autovacuum, defaults>>
     \/ defaults' \in Defaults \ {defaults} /\ UNCHANGED <<autovacuum, trackCounts>>
  /\ UNCHANGED <<age, maxAge, dead, reltuples, reloptions>>

-----------------------------------------------------------------------------
(* What the probes read *)

FreezeDatabases == Failures \cup {Ok({[name |-> d, age |-> age[d]] : d \in Databases})}
FreezeLimits == Failures \cup {Ok({maxAge})}

\* VacuumTables asks for track_counts before it asks for the tables.
TrackCounts(role) ==
  IF role = "standby" THEN {Missing("not_applicable")}
  ELSE Failures \cup {IF trackCounts THEN NotRead ELSE Missing("skipped")}
VacuumTables(sofar) == IF sofar # NotRead THEN {sofar} ELSE Failures \cup {Ok(TableRows)}

VacuumProgress(role) ==
  IF role = "standby" THEN {Missing("not_applicable")} ELSE Failures \cup {Ok({})}
VacuumSettings ==
  Failures \cup
  {Ok({[autovacuum |-> autovacuum, trackCounts |-> trackCounts, defaults |-> defaults]})}

-----------------------------------------------------------------------------
(* rule.Freeze *)

TheRow(found) == CHOOSE r \in found.rows : TRUE

\* Mutant: without the limits of the server nothing is judged.
AgeFindingLimited(ages, limits) ==
  IF ~Judgeable(limits.status) THEN {}
  ELSE IF \E k \in Counters : ages[k] >= StopAge[k] THEN {"FAIL"}
  ELSE IF \E k \in Counters : ages[k] >= TheRow(limits)[k] THEN {"WARN"}
  ELSE {}

\* The stop limits are built in, the others are read.
AgeFinding(ages, limits) ==
  IF \E k \in Counters : ages[k] >= StopAge[k] THEN {"FAIL"}
  ELSE IF Judgeable(limits.status) /\ \E k \in Counters : ages[k] >= TheRow(limits)[k]
         THEN {"WARN"}
  ELSE {}

FreezeRule(databases, limits) ==
  IF ~Judgeable(databases.status) THEN Result({}, BlindSpot(databases.status))
  ELSE Result(UNION {AgeFinding(d.age, limits) : d \in databases.rows},
              /\ ~Judgeable(limits.status)
              /\ \E d \in databases.rows : AgeFinding(d.age, limits) = {})

-----------------------------------------------------------------------------
(* rule.Vacuum *)

VacuumThreshold(t, set) ==
  Own(t.options.threshold, set.defaults.threshold) +
  Own(t.options.scale, set.defaults.scale) * t.reltuples

TableDisabled(t, set) == ~t.options.enabled /\ t.dead > VacuumThreshold(t, set)

VacuumRule(tables, settings, role) ==
  IF role = "standby" THEN Result({}, FALSE)
  ELSE IF ~Judgeable(settings.status) THEN Result({}, TRUE)
  ELSE LET set == TheRow(settings)
           off == ~(set.autovacuum /\ set.trackCounts)
           table == /\ Judgeable(tables.status)
                    /\ \E t \in tables.rows : TableDisabled(t, set)
       IN Result(IF off \/ table THEN {"WARN"} ELSE {}, BlindSpot(tables.status))
=============================================================================
