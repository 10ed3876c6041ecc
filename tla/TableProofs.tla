----------------------------- MODULE TableProofs -----------------------------
(***************************************************************************)
(* What table shows is of one relation, whatever became of its name, and   *)
(* its exit code keeps the promise of HonestAnswer: for any number of      *)
(* relations and of moves.                                                 *)
(***************************************************************************)
EXTENDS Table, VerdictProofs

USE DEF vars, server, program, collected, history

FreezeFail(o) == [id |-> "freeze.table_age", level |-> "FAIL", of |-> o]
FreezeWarn(o) == [id |-> "freeze.table_age", level |-> "WARN", of |-> o]
SwitchedOff == [id |-> "vacuum.disabled", level |-> "WARN", of |-> None]
TableOff(o) == [id |-> "vacuum.table_disabled", level |-> "WARN", of |-> o]

-----------------------------------------------------------------------------
(* The inductive invariant *)

Fails == {"skipped", "error"}

\* How far the run is, and what it has by then.
Stages ==
  /\ pos = 0 => role = "none" /\ touched = {} /\ parts = {}
  /\ pos # 0 => role \in Roles
  /\ pos < Done <=> exit = Running
  /\ pos <= 1 => info = NotRead
  /\ pos > 1 => info.status \in {"ok"} \cup Fails
  /\ pos <= 2 => size = NotRead
  /\ pos <= 3 => stats = NotRead
  /\ pos = 4 => stats = NotRead \/ stats.status \in {"not_applicable"} \cup Fails
  /\ pos > 4 => stats.status # "none"
  /\ pos <= 5 => indexes = NotRead
  /\ pos <= 6 => limits = NotRead
  /\ pos > 6 => limits.status \in {"ok"} \cup Fails
  /\ pos <= 7 => settings = NotRead
  /\ pos > 7 => settings.status \in {"ok"} \cup Fails

\* A primary was one when the role was read; only a standby changes.
RoleLasts ==
  /\ role = "primary" => ~recovering
  /\ role = "standby" => \A f \in held : f.id = "freeze.table_age"

\* What lasts is so now, and what is so now has shown, in whole and in parts.
Noticed == pos # 0 => held \subseteq Troubles /\ Shown \subseteq touched /\ Parts \subseteq parts

\* One row or none, and its relation is what it was or gone.
OneRow ==
  /\ info.status # "ok" => info.rows = {}
  /\ \A r, s \in info.rows : r = s
  /\ \A r \in info.rows : rels[r.oid].kind \in {r.kind, "gone"}

\* The probes after table.info keep to its relation.
Bound ==
  /\ size.rows # {} => IsTableRow(info) /\ size.rows = {Row.oid}
  /\ indexes.rows # {} => IsTableRow(info) /\ indexes.rows = {Row.oid}
  /\ \A r \in stats.rows : IsTableRow(info) /\ r.oid = Row.oid /\ HasStats(Row)
  /\ stats = NotRead /\ pos > 3 => IsTableRow(info) /\ role = "primary"
  /\ stats.status = "not_applicable" => ~IsTableRow(info) \/ role = "standby"
  /\ size.lock => size.status = "skipped"
  /\ ListComesBack

\* What table.info says has shown, and it has all that lasts.
InfoTells ==
  /\ \A r \in info.rows :
       /\ r.kind \in TableKinds /\ HasAge(r) /\ r.age >= Due => FreezeWarn(r.oid) \in touched
       /\ r.kind \in TableKinds /\ HasAge(r) /\ r.age = Stopped => FreezeFail(r.oid) \in touched
       /\ r.off => <<"off", r.oid>> \in parts
  /\ info.status = "ok" => \A o \in Oids :
       /\ FreezeFail(o) \in held =>
            \E r \in info.rows : r.oid = o /\ r.kind \in TableKinds /\ HasAge(r) /\ r.age = Stopped
       /\ FreezeWarn(o) \in held =>
            \E r \in info.rows : r.oid = o /\ r.kind \in TableKinds /\ HasAge(r) /\ r.age >= Due
       /\ TableOff(o) \in held =>
            \E r \in info.rows : r.oid = o /\ r.kind \in TableKinds /\ r.off

\* So do the counters,
StatsTell ==
  /\ \A r \in stats.rows : r.dead > 0 => <<"dead", r.oid>> \in parts
  /\ stats.status = "ok" => \A o \in Oids : TableOff(o) \in held =>
       \E r \in stats.rows : r.dead = 1

\* and the switches.
SettingsTell ==
  /\ settings.status = "ok" => \E set \in settings.rows : settings.rows = {set}
  /\ \A set \in settings.rows :
       /\ Off(set) /\ role = "primary" => SwitchedOff \in touched
       /\ ~Off(set) => <<"on", None>> \in parts
       /\ set.line = 0 => <<"line", None>> \in parts
       /\ SwitchedOff \in held => Off(set)
       /\ \A o \in Oids : TableOff(o) \in held => ~Off(set) /\ set.line = 0

Judgement ==
  pos = Done => exit = ExitCode(Judged(info, stats, limits, settings, role).verdict)

IInv ==
  /\ TypeOK /\ Stages /\ RoleLasts /\ Noticed /\ OneRow /\ Bound
  /\ InfoTells /\ StatsTell /\ SettingsTell /\ Judgement

-----------------------------------------------------------------------------
(* The database *)

ServerOK ==
  /\ recovering \in BOOLEAN /\ auto \in BOOLEAN /\ track \in BOOLEAN /\ line \in 0..1
  /\ rels \in [Oids -> Rels]
  /\ named \in {o \in Oids : Exists(o)} \cup {None} /\ locked \subseteq Oids
  /\ moves \in 0..MaxMoves

\* An existing relation is a full record; the other two have a kind of their own.
LEMMA RelIs ==
  ASSUME NEW r \in Rels
  PROVE  /\ r.kind \in Kinds =>
              r \in [kind : Kinds, off : BOOLEAN, age : Young..Stopped, dead : 0..1]
         /\ r.kind \in Kinds \cup {"unborn", "gone"}
         /\ r.off \in BOOLEAN /\ r.age \in 0..2 /\ r.dead \in 0..1
<1>1. CASE r \in [kind : Kinds, off : BOOLEAN, age : Young..Stopped, dead : 0..1]
  <2>1. r.kind \in Kinds /\ r.off \in BOOLEAN /\ r.age \in 0..2 /\ r.dead \in 0..1
    BY <1>1 DEF Young, Stopped
  <2>2. "unborn" \notin Kinds
    BY DEF Kinds, TableKinds
  <2> QED BY <1>1, <2>1, <2>2
<1>2. CASE r \in {Unborn, Gone}
  <2>1. /\ Unborn.kind = "unborn" /\ Gone.kind = "gone"
        /\ Unborn.off = FALSE /\ Gone.off = FALSE
        /\ Unborn.age = 0 /\ Gone.age = 0 /\ Unborn.dead = 0 /\ Gone.dead = 0
    BY DEF Unborn, Gone, Rel, Young
  <2>2. "unborn" \notin Kinds /\ "gone" \notin Kinds
    BY DEF Kinds, TableKinds
  <2>3. r.off \in BOOLEAN
    BY <1>2, <2>1, Zenon
  <2> QED BY <1>2, <2>1, <2>2, <2>3
<1> QED BY <1>1, <1>2 DEF Rels

LEMMA ExistingRel ==
  ASSUME ServerOK, NEW o \in Oids, Exists(o)
  PROVE  /\ rels[o] \in [kind : Kinds, off : BOOLEAN, age : Young..Stopped, dead : 0..1]
         /\ rels[o].age \in 0..2
BY RelIs DEF ServerOK, Exists, Young, Stopped

LEMMA NewRel ==
  ASSUME NEW kind \in Kinds
  PROVE  Rel(kind) \in Rels /\ Rel(kind).kind = kind
BY DEF Rel, Rels, Young, Stopped

\* What a move leaves of the relations: each keeps its kind until it is gone.
Changed ==
  /\ rels' \in [Oids -> Rels]
  /\ \A o \in Oids : Exists(o) => rels'[o].kind \in {rels[o].kind, "gone"}
  /\ \A o \in Oids : rels[o].kind = "gone" => rels'[o].kind = "gone"
  /\ named' \in {o \in Oids : rels'[o].kind \in Kinds} \cup {None}

\* A change of one existing relation to a record of its kind.
LEMMA OneChanges ==
  ASSUME ServerOK, NEW o \in Oids, Exists(o), NEW r \in Rels, r.kind = rels[o].kind,
         rels' = [rels EXCEPT ![o] = r], named' = named
  PROVE  Changed
<1>1. rels \in [Oids -> Rels]
  BY DEF ServerOK
<1>2. \A p \in Oids : rels'[p].kind = rels[p].kind
  BY <1>1
<1>3. rels' \in [Oids -> Rels]
  BY <1>1
<1> QED BY <1>2, <1>3 DEF Changed, ServerOK, Exists

LEMMA CreateChanges ==
  ASSUME ServerOK, Create
  PROVE  Changed
<1>1. PICK o \in Oids, kind \in Kinds :
        /\ rels[o] = Unborn
        /\ rels' = [rels EXCEPT ![o] = Rel(kind)]
        /\ named' \in {named, IF named = None THEN o ELSE named}
  BY DEF Create
<1>2. rels \in [Oids -> Rels] /\ named \in {p \in Oids : Exists(p)} \cup {None}
  BY DEF ServerOK
<1>3. Rel(kind) \in Rels /\ Rel(kind).kind = kind
  BY NewRel
<1>4. rels[o].kind = "unborn"
  BY <1>1 DEF Unborn, Rel
<1>5. rels' \in [Oids -> Rels] /\ rels'[o].kind = kind
      /\ \A p \in Oids \ {o} : rels'[p] = rels[p]
  BY <1>1, <1>2, <1>3
<1>6. ~Exists(o)
  BY <1>4 DEF Exists, Kinds, TableKinds
<1>7. \A p \in Oids : Exists(p) => rels'[p].kind = rels[p].kind
  BY <1>5, <1>6
<1>8. named' \in {p \in Oids : rels'[p].kind \in Kinds} \cup {None}
  <2>1. CASE named' = named
    BY <1>2, <1>7, <2>1 DEF Exists
  <2>2. CASE named' = o
    BY <1>5, <2>2
  <2> QED BY <1>1, <2>1, <2>2
<1> QED BY <1>4, <1>5, <1>7, <1>8 DEF Changed

LEMMA DropChanges ==
  ASSUME ServerOK, NEW o \in Oids, Drop(o)
  PROVE  Changed
<1>1. /\ rels' = [rels EXCEPT ![o] = Gone] /\ named' = (IF named = o THEN None ELSE named)
      /\ rels \in [Oids -> Rels] /\ named \in {p \in Oids : Exists(p)} \cup {None}
  BY DEF Drop, ServerOK
<1>2. Gone \in Rels /\ Gone.kind = "gone"
  BY DEF Gone, Rels, Rel
<1>3. rels' \in [Oids -> Rels] /\ rels'[o].kind = "gone"
      /\ \A p \in Oids \ {o} : rels'[p] = rels[p]
  BY <1>1, <1>2
<1> QED BY <1>1, <1>3 DEF Changed, Exists

LEMMA InstanceChanges ==
  ASSUME ServerOK, Instance
  PROVE  /\ ServerOK' /\ Changed
         /\ ~recovering => ~recovering'
         /\ pos < Reporting /\ UNCHANGED program /\ Remember
<1>1. pos < Reporting /\ UNCHANGED program /\ Remember /\ moves' = moves + 1 /\ moves < MaxMoves
  BY DEF Instance
<1>2. /\ rels \in [Oids -> Rels] /\ named \in {p \in Oids : Exists(p)} \cup {None}
      /\ moves \in 0..MaxMoves /\ locked \subseteq Oids /\ line \in 0..1
      /\ auto \in BOOLEAN /\ track \in BOOLEAN /\ recovering \in BOOLEAN
  BY DEF ServerOK
<1> DEFINE Rest == /\ auto' \in BOOLEAN /\ track' \in BOOLEAN /\ line' \in 0..1
                   /\ locked' \subseteq Oids
<1>3. ASSUME Create \/ Reload \/ \E o \in Oids : \/ Drop(o) \/ Rename(o) \/ SetOption(o) \/ Delete(o)
                                                \/ Age(o) \/ Freeze(o) \/ Lock(o)
      PROVE  Changed /\ Rest
  <2>1. CASE Create
    BY <1>2, <2>1, CreateChanges DEF Create
  <2>2. CASE Reload
    <3>1. Changed
      BY <1>2, <2>2 DEF Reload, Changed, Exists
    <3>2. auto' \in BOOLEAN /\ track' \in BOOLEAN
      BY <1>2, <2>2, Zenon DEF Reload
    <3>3. line' \in 0..1
      BY <1>2, <2>2, SMT DEF Reload
    <3> QED BY <1>2, <2>2, <3>1, <3>2, <3>3 DEF Reload
  <2>3. ASSUME NEW o \in Oids, Drop(o) PROVE Changed /\ Rest
    BY <1>2, <2>3, DropChanges DEF Drop
  <2>4. ASSUME NEW o \in Oids, Rename(o) PROVE Changed /\ Rest
    BY <1>2, <2>4 DEF Rename, Changed, Exists
  <2>5. ASSUME NEW o \in Oids, SetOption(o) PROVE Changed /\ Rest
    <3>1. Exists(o)
      BY <2>5 DEF SetOption, HasStats, Exists, Kinds, TableKinds
    <3>2. PICK r \in Rels : r.kind = rels[o].kind /\ rels' = [rels EXCEPT ![o] = r]
      <4> DEFINE r == [rels[o] EXCEPT !.off = ~@]
      <4>1. r \in Rels /\ r.kind = rels[o].kind
        BY <3>1, ExistingRel DEF Rels
      <4> QED BY <2>5, <4>1 DEF SetOption
    <3> QED BY <1>2, <2>5, <3>1, <3>2, OneChanges DEF SetOption
  <2>6. ASSUME NEW o \in Oids, Delete(o) PROVE Changed /\ Rest
    <3>1. Exists(o)
      BY <2>6 DEF Delete, HasStats, Exists, Kinds, TableKinds
    <3>2. PICK r \in Rels : r.kind = rels[o].kind /\ rels' = [rels EXCEPT ![o] = r]
      <4> DEFINE r == [rels[o] EXCEPT !.dead = 1]
      <4>1. r \in Rels /\ r.kind = rels[o].kind
        BY <3>1, ExistingRel DEF Rels
      <4> QED BY <2>6, <4>1 DEF Delete
    <3> QED BY <1>2, <2>6, <3>1, <3>2, OneChanges DEF Delete
  <2>7. ASSUME NEW o \in Oids, Age(o) PROVE Changed /\ Rest
    <3>1. Exists(o)
      BY <2>7 DEF Age
    <3>2. PICK r \in Rels : r.kind = rels[o].kind /\ rels' = [rels EXCEPT ![o] = r]
      <4> DEFINE r == [rels[o] EXCEPT !.age = @ + 1]
      <4>0. rels[o].age + 1 \in Young..Stopped
        BY <2>7, <3>1, ExistingRel DEF Age, Young, Stopped
      <4>1. r \in Rels /\ r.kind = rels[o].kind
        BY <3>1, <4>0, ExistingRel DEF Rels
      <4> QED BY <2>7, <4>1 DEF Age
    <3> QED BY <1>2, <2>7, <3>1, <3>2, OneChanges DEF Age
  <2>8. ASSUME NEW o \in Oids, Freeze(o) PROVE Changed /\ Rest
    <3>1. Exists(o)
      BY <2>8 DEF Freeze
    <3>2. PICK r \in Rels : r.kind = rels[o].kind /\ rels' = [rels EXCEPT ![o] = r]
      <4> DEFINE r == [rels[o] EXCEPT !.age = Young, !.dead = 0]
      <4>0. Young \in Young..Stopped /\ 0 \in 0..1
        BY DEF Young, Stopped
      <4>1. r \in Rels /\ r.kind = rels[o].kind
        BY <3>1, <4>0, ExistingRel DEF Rels
      <4>2. rels' = [rels EXCEPT ![o] = r]
        BY <1>2, <2>8 DEF Freeze
      <4> QED BY <4>1, <4>2
    <3> QED BY <1>2, <2>8, <3>1, <3>2, OneChanges DEF Freeze
  <2>9. ASSUME NEW o \in Oids, Lock(o) PROVE Changed /\ Rest
    BY <1>2, <2>9 DEF Lock, Changed, Exists
  <2> QED BY <1>3, <2>1, <2>2, <2>3, <2>4, <2>5, <2>6, <2>7, <2>8, <2>9
<1>5. /\ Changed /\ Rest
      /\ recovering' \in BOOLEAN /\ (~recovering => ~recovering')
  <2>1. CASE /\ recovering /\ recovering' = FALSE
             /\ UNCHANGED <<rels, named, locked, auto, track, line>>
    <3>1. Changed
      BY <1>2, <2>1 DEF Changed, Exists
    <3>2. recovering' \in BOOLEAN /\ (~recovering => ~recovering')
      BY <2>1, Zenon
    <3> QED BY <1>2, <2>1, <3>1, <3>2
  <2>2. CASE UNCHANGED recovering
    BY <1>2, <1>3, <2>1, <2>2 DEF Instance
  <2> QED BY <2>1, <2>2 DEF Instance
<1>4. moves' \in 0..MaxMoves
  BY <1>1, <1>2, TableAssumption
<1> QED BY <1>1, <1>5, <1>4 DEF ServerOK, Changed, Exists

-----------------------------------------------------------------------------
(* Troubles and findings *)

LEMMA NoOidIsNone == \A o \in Oids : o # None
BY TableAssumption

LEMMA FindingKinds ==
  /\ \A f \in Findings : \/ f = SwitchedOff
                         \/ \E o \in Oids : f \in {FreezeFail(o), FreezeWarn(o), TableOff(o)}
  /\ SwitchedOff \in Findings
  /\ \A o \in Oids : {FreezeFail(o), FreezeWarn(o), TableOff(o)} \subseteq Findings
<1>1. \A f \in Findings :
        \/ f \in Finding("freeze.table_age", "FAIL", Oids)
        \/ f \in Finding("freeze.table_age", "WARN", Oids)
        \/ f \in Finding("vacuum.disabled", "WARN", {None})
        \/ f \in Finding("vacuum.table_disabled", "WARN", Oids)
  BY DEF Findings
<1>2. \A id, level, of : \A f \in Finding(id, level, of) :
        \E o \in of : f = [id |-> id, level |-> level, of |-> o]
  BY DEF Finding
<1>3. \A id, level, of : \A o \in of : [id |-> id, level |-> level, of |-> o] \in Finding(id, level, of)
  BY DEF Finding
<1>4. \A f \in Findings : \/ f = SwitchedOff
                          \/ \E o \in Oids : f \in {FreezeFail(o), FreezeWarn(o), TableOff(o)}
  BY <1>1, <1>2 DEF SwitchedOff, FreezeFail, FreezeWarn, TableOff
<1>5. SwitchedOff \in Findings
  BY <1>3 DEF SwitchedOff, Findings
<1>6. \A o \in Oids : {FreezeFail(o), FreezeWarn(o), TableOff(o)} \subseteq Findings
  BY <1>3 DEF FreezeFail, FreezeWarn, TableOff, Findings
<1> QED BY <1>4, <1>5, <1>6

LEMMA ShownIs ==
  /\ SwitchedOff \in Shown <=> Disabled
  /\ \A o \in Oids :
       /\ FreezeFail(o) \in Shown <=> rels[o].kind \in TableKinds /\ Aged(rels[o], "FAIL")
       /\ FreezeWarn(o) \in Shown <=> rels[o].kind \in TableKinds /\ Aged(rels[o], "WARN")
       /\ TableOff(o) \in Shown <=> rels[o].kind \in TableKinds /\ Neglecting(rels[o])
<1>1. /\ SwitchedOff.id = "vacuum.disabled" /\ SwitchedOff.of = None
      /\ \A o : /\ FreezeFail(o).id = "freeze.table_age" /\ FreezeFail(o).level = "FAIL"
                /\ FreezeWarn(o).id = "freeze.table_age" /\ FreezeWarn(o).level = "WARN"
                /\ TableOff(o).id = "vacuum.table_disabled"
                /\ FreezeFail(o).of = o /\ FreezeWarn(o).of = o /\ TableOff(o).of = o
  BY DEF SwitchedOff, FreezeFail, FreezeWarn, TableOff
<1>2. SwitchedOff \in Shown <=> Disabled
  BY <1>1, FindingKinds DEF Shown
<1>3. ASSUME NEW o \in Oids
      PROVE  /\ FreezeFail(o) \in Shown <=> rels[o].kind \in TableKinds /\ Aged(rels[o], "FAIL")
             /\ FreezeWarn(o) \in Shown <=> rels[o].kind \in TableKinds /\ Aged(rels[o], "WARN")
             /\ TableOff(o) \in Shown <=> rels[o].kind \in TableKinds /\ Neglecting(rels[o])
  BY <1>1, NoOidIsNone, FindingKinds DEF Shown
<1> QED BY <1>2, <1>3

\* A trouble of a relation is one of the relation the name stands for.
LEMMA TroubleIs ==
  /\ Troubles \subseteq Shown
  /\ \A o \in Oids : {FreezeFail(o), FreezeWarn(o), TableOff(o)} \cap Troubles # {} => named = o
<1>1. \A o \in Oids : FreezeFail(o).of = o /\ FreezeWarn(o).of = o /\ TableOff(o).of = o
  BY DEF FreezeFail, FreezeWarn, TableOff
<1> QED BY <1>1, NoOidIsNone DEF Troubles

LEMMA HistoryTyped == Shown \subseteq Findings /\ Troubles \subseteq Findings
BY DEF Shown, Troubles

LEMMA HistoryStill ==
  ASSUME UNCHANGED server
  PROVE  Shown' = Shown /\ Troubles' = Troubles /\ Parts' = Parts
BY DEF Shown, Troubles, Parts, Disabled, Neglecting

\* What is known of relation o when one of its troubles has lasted till now.
LEMMA HeldTells ==
  ASSUME Noticed, pos # 0, NEW o \in Oids
  PROVE  /\ FreezeFail(o) \in held => named = o /\ rels[o].kind \in TableKinds /\ Aged(rels[o], "FAIL")
         /\ FreezeWarn(o) \in held => named = o /\ rels[o].kind \in TableKinds /\ Aged(rels[o], "WARN")
         /\ TableOff(o) \in held => named = o /\ rels[o].kind \in TableKinds /\ Neglecting(rels[o])
<1>1. held \subseteq Troubles
  BY DEF Noticed
<1> QED BY <1>1, TroubleIs, ShownIs

-----------------------------------------------------------------------------
(* Types *)

CollectedOK ==
  /\ Told(info) /\ Told(size) /\ Told(stats) /\ Told(indexes) /\ Told(limits) /\ Told(settings)
  /\ info.rows \subseteq [oid : Oids, kind : Kinds, off : BOOLEAN, age : Young..Stopped]
  /\ size.rows \subseteq Oids /\ indexes.rows \subseteq Oids
  /\ stats.rows \subseteq [oid : Oids, dead : 0..1]
  /\ settings.rows \subseteq [auto : BOOLEAN, track : BOOLEAN, line : 0..1]

LEMMA TypesAre ==
  TypeOK <=> /\ ServerOK /\ CollectedOK
             /\ pos \in 0..Done /\ role \in Roles \cup {"none"}
             /\ exit \in 0..3 \cup {Running}
             /\ held \subseteq Findings /\ touched \subseteq Findings
BY DEF TypeOK, ServerOK, CollectedOK

LEMMA OrderIs ==
  /\ Len(Order) = 7 /\ Reporting = 8 /\ Done = 9
  /\ Order[1] = "table.info" /\ Order[2] = "table.size" /\ Order[3] = "track_counts"
  /\ Order[4] = "table.stats" /\ Order[5] = "table.indexes" /\ Order[6] = "freeze.limits"
  /\ Order[7] = "vacuum.settings"
BY DEF Order, Reporting, Done

LEMMA ExitIs == \A v : ExitCode(v) \in 0..3
BY DEF ExitCode

LEMMA ClassifyIs == Classify("other_code") = "error" /\ Classify("55P03") = "skipped"
BY DEF Classify

LEMMA Statuses4 == "ok" \in Statuses /\ "skipped" \in Statuses /\ "error" \in Statuses
                   /\ "not_applicable" \in Statuses
BY DEF Statuses

\* What did not come, and what may come of a query.
LEMMA FailureIs ==
  \A c \in Failures : c.status = "error" /\ c.rows = {} /\ c.lock = FALSE
BY ClassifyIs DEF Failures, Missing

LEMMA MissingIs ==
  \A st : Missing(st).status = st /\ Missing(st).rows = {} /\ Missing(st).lock = FALSE
BY DEF Missing

LEMMA QueryIs ==
  \A o, found, c : c \in Query(o, TRUE, found) =>
    \/ c.status = "ok" /\ c.rows = found /\ c.lock = FALSE
    \/ c.status \in Fails /\ c.rows = {} /\ c.lock \in BOOLEAN /\ (c.lock => c.status = "skipped")
<1> SUFFICES ASSUME NEW o, NEW found, NEW c, c \in Query(o, TRUE, found)
             PROVE  \/ c.status = "ok" /\ c.rows = found /\ c.lock = FALSE
                    \/ /\ c.status \in Fails /\ c.rows = {} /\ c.lock \in BOOLEAN
                       /\ c.lock => c.status = "skipped"
  OBVIOUS
<1>1. CASE c \in Failures
  BY <1>1, FailureIs DEF Fails
<1>2. CASE c = LockTimeout
  BY <1>2, ClassifyIs DEF LockTimeout, Fails
<1>3. CASE c = Ok(found)
  BY <1>3 DEF Ok
<1> QED BY <1>1, <1>2, <1>3 DEF Query

\* A query that takes no lock waits for none.
LEMMA LocklessQueryIs ==
  \A o, found, c : c \in Query(o, FALSE, found) =>
    \/ c.status = "ok" /\ c.rows = found /\ c.lock = FALSE
    \/ c.status \in Fails /\ c.rows = {} /\ c.lock = FALSE
<1> SUFFICES ASSUME NEW o, NEW found, NEW c, c \in Query(o, FALSE, found)
             PROVE  \/ c.status = "ok" /\ c.rows = found /\ c.lock = FALSE
                    \/ c.status \in Fails /\ c.rows = {} /\ c.lock = FALSE
  OBVIOUS
<1>1. CASE c \in Failures
  BY <1>1, FailureIs DEF Fails
<1>2. CASE c = Ok(found)
  BY <1>2 DEF Ok
<1> QED BY <1>1, <1>2 DEF Query

LEMMA NotReadIs == NotRead.status = "none" /\ NotRead.rows = {} /\ NotRead.lock = FALSE
BY DEF NotRead

LEMMA InitTyped == Init => TypeOK
<1> SUFFICES ASSUME Init PROVE TypeOK
  OBVIOUS
<1>1. PICK first \in Oids, r \in Rels :
        /\ r.kind \in Kinds
        /\ r.off => HasStats(r)
        /\ r.dead > 0 => HasStats(r) /\ ~recovering
        /\ r.age > Young => HasAge(r)
        /\ rels = [o \in Oids |-> IF o = first THEN r ELSE Unborn]
        /\ named \in {first, None}
  BY Zenon DEF Init
<1>2. Unborn \in Rels
  BY DEF Rels
<1>3. rels \in [Oids -> Rels] /\ rels[first] = r
  BY <1>1, <1>2
<1>4. named \in {o \in Oids : Exists(o)} \cup {None}
  BY <1>1, <1>3 DEF Exists
<1>5. ServerOK
  <2>1. recovering \in BOOLEAN /\ auto \in BOOLEAN /\ track \in BOOLEAN
    BY Zenon DEF Init
  <2>2. line \in 0..1 /\ locked = {} /\ moves = 0
    BY DEF Init
  <2> QED BY <1>3, <1>4, <2>1, <2>2, TableAssumption DEF ServerOK
<1>6. CollectedOK
  <2>1. /\ info = NotRead /\ size = NotRead /\ stats = NotRead /\ indexes = NotRead
        /\ limits = NotRead /\ settings = NotRead
    BY DEF Init
  <2> QED BY <2>1, NotReadIs DEF CollectedOK, Told
<1> QED BY <1>5, <1>6, TypesAre, OrderIs DEF Init

-----------------------------------------------------------------------------
(* Steps that read nothing *)

Nothing ==
  /\ info = NotRead /\ size = NotRead /\ stats = NotRead /\ indexes = NotRead
  /\ limits = NotRead /\ settings = NotRead

LEMMA NothingTold ==
  ASSUME Nothing, pos \in 0..3
  PROVE  OneRow /\ Bound /\ InfoTells /\ StatsTell /\ SettingsTell
<1>1. /\ info.rows = {} /\ info.status = "none" /\ size.rows = {} /\ indexes.rows = {}
      /\ stats.rows = {} /\ settings.rows = {} /\ stats.status = "none"
      /\ settings.status = "none" /\ size.lock = FALSE /\ indexes.lock = FALSE
  BY NotReadIs DEF Nothing
<1>2. ~(pos > 3)
  OBVIOUS
<1>3. OneRow
  BY <1>1 DEF OneRow
<1>4. Bound
  BY <1>1, <1>2 DEF Bound, ListComesBack
<1> QED BY <1>1, <1>3, <1>4 DEF InfoTells, StatsTell, SettingsTell

LEMMA InvInit == Init => IInv
<1> SUFFICES ASSUME Init PROVE IInv
  OBVIOUS
<1>1. Nothing /\ pos = 0 /\ role = "none" /\ exit = Running /\ held = {} /\ touched = {}
      /\ parts = {}
  BY DEF Init, Nothing
<1>2. Stages
  BY <1>1, OrderIs DEF Stages, Nothing
<1>3. RoleLasts /\ Noticed /\ Judgement
  BY <1>1, OrderIs DEF RoleLasts, Noticed, Judgement
<1>4. OneRow /\ Bound /\ InfoTells /\ StatsTell /\ SettingsTell
  BY <1>1, NothingTold
<1> QED BY <1>2, <1>3, <1>4, InitTyped DEF IInv

\* What was told stays told while what lasts shrinks and what has shown grows.
LEMMA TellsStay ==
  ASSUME InfoTells, StatsTell, SettingsTell, UNCHANGED <<info, stats, settings, role>>,
         held' \subseteq held, touched \subseteq touched', parts \subseteq parts'
  PROVE  InfoTells' /\ StatsTell' /\ SettingsTell'
<1>1. InfoTells'
  BY DEF InfoTells
<1>2. StatsTell'
  BY DEF StatsTell
<1>3. SettingsTell'
  BY DEF SettingsTell
<1> QED BY <1>1, <1>2, <1>3

LEMMA BoundStays ==
  ASSUME Bound, UNCHANGED <<info, size, stats, indexes, role>>, pos' > 3 => pos > 3
  PROVE  Bound'
BY DEF Bound, ListComesBack, IsTableRow, Row

LEMMA InstanceKeeps == ASSUME IInv, Instance PROVE IInv'
<1>1. /\ ServerOK' /\ Changed /\ (~recovering => ~recovering')
      /\ pos < Reporting /\ UNCHANGED program /\ Remember
  BY InstanceChanges, TypesAre DEF IInv
<1>2. pos \in 0..7
  BY <1>1, OrderIs, TypesAre DEF IInv
<1>3. Shown' \subseteq Findings /\ Troubles' \subseteq Findings
  BY DEF Shown, Troubles
<1>4. /\ held' \subseteq held /\ touched \subseteq touched' /\ parts \subseteq parts'
      /\ touched' \subseteq Findings
  BY <1>1, <1>3, TypesAre DEF Remember, IInv
<1>5. TypeOK'
  <2>1. (ServerOK /\ CollectedOK /\ pos \in 0..Done /\ role \in Roles \cup {"none"}
         /\ exit \in 0..3 \cup {Running} /\ held \subseteq Findings /\ touched \subseteq Findings
           => TypeOK)'
    BY TypesAre, PTL
  <2>2. CollectedOK'
    BY <1>1, TypesAre DEF IInv, CollectedOK, Told
  <2> QED BY <1>1, <1>4, <2>1, <2>2, TypesAre DEF IInv, Done, Order
<1>6. Stages'
  <2>1. CASE pos = 0
    <3>1. UNCHANGED history
      BY <1>1, <2>1, OrderIs DEF Remember, Looking
    <3> QED BY <1>1, <3>1 DEF IInv, Stages
  <2>2. CASE pos # 0
    BY <1>1, <2>2 DEF IInv, Stages
  <2> QED BY <2>1, <2>2
<1>7. RoleLasts'
  BY <1>1, <1>4 DEF IInv, RoleLasts
<1>8. Noticed'
  <2>1. CASE pos = 0
    BY <1>1, <2>1 DEF Noticed
  <2>2. CASE pos # 0
    <3>1. Looking
      BY <1>2, <2>2, OrderIs DEF Looking
    <3> QED BY <1>1, <3>1 DEF Remember, Noticed
  <2> QED BY <2>1, <2>2
<1>9. OneRow'
  <2>1. ASSUME NEW r \in info.rows PROVE rels'[r.oid].kind \in {r.kind, "gone"}
    <3>1. r.oid \in Oids /\ r.kind \in Kinds
      BY TypesAre DEF IInv, CollectedOK
    <3>2. rels[r.oid].kind \in {r.kind, "gone"}
      BY DEF IInv, OneRow
    <3> QED BY <1>1, <3>1, <3>2 DEF Changed, Exists
  <2> QED BY <1>1, <2>1 DEF IInv, OneRow
<1>10. Bound'
  BY <1>1, BoundStays DEF IInv
<1>11. InfoTells' /\ StatsTell' /\ SettingsTell'
  BY <1>1, <1>4, TellsStay DEF IInv
<1>12. Judgement'
  BY <1>1, <1>2, OrderIs DEF Judgement
<1> QED BY <1>5, <1>6, <1>7, <1>8, <1>9, <1>10, <1>11, <1>12 DEF IInv

LEMMA IdentifyKeeps == ASSUME IInv, Identify PROVE IInv'
<1>1. /\ pos = 0 /\ pos' = 1 /\ role' = (IF recovering THEN "standby" ELSE "primary")
      /\ held' = Troubles /\ touched' = Shown /\ parts' = Parts
      /\ UNCHANGED <<server, collected, exit>>
  BY DEF Identify
<1>2. Shown' = Shown /\ Troubles' = Troubles /\ Parts' = Parts
  BY <1>1, HistoryStill
<1>3. TypeOK'
  <2>1. (ServerOK /\ CollectedOK /\ pos \in 0..Done /\ role \in Roles \cup {"none"}
         /\ exit \in 0..3 \cup {Running} /\ held \subseteq Findings /\ touched \subseteq Findings
           => TypeOK)'
    BY TypesAre, PTL
  <2>2. ServerOK' /\ CollectedOK'
    BY <1>1, TypesAre DEF IInv, ServerOK, Exists, CollectedOK, Told
  <2> QED BY <1>1, <2>1, <2>2, TypesAre, HistoryTyped, OrderIs DEF IInv, Roles
<1>4. Stages'
  BY <1>1, OrderIs DEF IInv, Stages, Roles
<1>5. RoleLasts'
  <2>1. recovering => \A f \in Troubles : f.id = "freeze.table_age"
    BY DEF Troubles, Shown, Disabled, Neglecting
  <2> QED BY <1>1, <2>1 DEF RoleLasts
<1>6. Noticed'
  BY <1>1, <1>2, TroubleIs DEF Noticed
<1>7. OneRow' /\ Bound' /\ InfoTells' /\ StatsTell' /\ SettingsTell'
  <2>1. (Nothing /\ pos \in 0..3 => OneRow /\ Bound /\ InfoTells /\ StatsTell /\ SettingsTell)'
    BY NothingTold, PTL
  <2>2. Nothing'
    BY <1>1 DEF IInv, Stages, Nothing
  <2> QED BY <1>1, <2>1, <2>2
<1>8. Judgement'
  BY <1>1, OrderIs DEF Judgement
<1> QED BY <1>3, <1>4, <1>5, <1>6, <1>7, <1>8 DEF IInv

-----------------------------------------------------------------------------
(* The probes *)

LEMMA ProbeAt ==
  ASSUME TypeOK, Probe
  PROVE  /\ pos \in 1..7 /\ pos' = pos + 1
         /\ pos = 1 => TableInfo
         /\ pos = 2 => TableSize
         /\ pos = 3 => TrackCounts
         /\ pos = 4 => TableStats
         /\ pos = 5 => TableIndexes
         /\ pos = 6 => FreezeLimits
         /\ pos = 7 => VacuumSettings
         /\ UNCHANGED <<server, role, exit, history>>
<1>1. pos \in 1..7 /\ pos' = pos + 1 /\ UNCHANGED <<server, role, exit, history>>
  BY OrderIs DEF Probe, Looking
<1>2. CASE pos = 1
  BY <1>1, <1>2, OrderIs DEF Probe
<1>3. CASE pos = 2
  BY <1>1, <1>3, OrderIs DEF Probe
<1>4. CASE pos = 3
  BY <1>1, <1>4, OrderIs DEF Probe
<1>5. CASE pos = 4
  BY <1>1, <1>5, OrderIs DEF Probe
<1>6. CASE pos = 5
  BY <1>1, <1>6, OrderIs DEF Probe
<1>7. CASE pos = 6
  BY <1>1, <1>7, OrderIs DEF Probe
<1>8. CASE pos = 7
  BY <1>1, <1>8, OrderIs DEF Probe
<1> QED BY <1>1, <1>2, <1>3, <1>4, <1>5, <1>6, <1>7, <1>8

\* What a probe leaves as it was.
LEMMA ProbeLeaves ==
  ASSUME IInv, Probe, CollectedOK'
  PROVE  TypeOK' /\ RoleLasts' /\ Noticed' /\ Judgement'
<1>1. pos \in 1..7 /\ pos' = pos + 1 /\ UNCHANGED <<server, role, exit, history>>
  BY ProbeAt DEF IInv
<1>2. Shown' = Shown /\ Troubles' = Troubles /\ Parts' = Parts
  BY <1>1, HistoryStill
<1>3. TypeOK'
  <2>1. (ServerOK /\ CollectedOK /\ pos \in 0..Done /\ role \in Roles \cup {"none"}
         /\ exit \in 0..3 \cup {Running} /\ held \subseteq Findings /\ touched \subseteq Findings
           => TypeOK)'
    BY TypesAre, PTL
  <2>2. ServerOK'
    BY <1>1, TypesAre DEF IInv, ServerOK, Exists
  <2> QED BY <1>1, <2>1, <2>2, TypesAre, OrderIs DEF IInv
<1>4. RoleLasts' /\ Noticed' /\ Judgement'
  BY <1>1, <1>2, OrderIs DEF IInv, RoleLasts, Noticed, Judgement
<1> QED BY <1>3, <1>4

\* The relation the probes are bound to.
LEMMA RowIs ==
  ASSUME IInv, IsTableRow(info)
  PROVE  /\ info.status = "ok" /\ Row \in info.rows /\ Row.kind \in TableKinds /\ Row.oid \in Oids
         /\ Row.age \in 0..2 /\ Row.off \in BOOLEAN
         /\ info.rows = {Row} /\ rels[Row.oid].kind \in {Row.kind, "gone"}
<1>1. info.status = "ok" /\ \E r \in info.rows : r.kind \in TableKinds
  BY DEF IsTableRow
<1>2. Row \in info.rows
  BY <1>1 DEF Row
<1>3. info.rows = {Row}
  BY <1>2 DEF IInv, OneRow
<1>4. Row.kind \in TableKinds
  BY <1>1, <1>3
<1>5. /\ rels[Row.oid].kind \in {Row.kind, "gone"} /\ Row.oid \in Oids
      /\ Row.age \in Young..Stopped /\ Row.off \in BOOLEAN
  BY <1>2, TypesAre DEF IInv, OneRow, CollectedOK
<1> QED BY <1>1, <1>2, <1>3, <1>4, <1>5 DEF Young, Stopped

LEMMA TableInfoKeeps == ASSUME IInv, Probe, pos = 1 PROVE IInv'
<1>1. /\ TableInfo /\ pos' = 2 /\ UNCHANGED <<server, role, exit, history>>
      /\ UNCHANGED <<size, stats, indexes, limits, settings>>
  BY ProbeAt DEF IInv, TableInfo
<1>2. /\ size = NotRead /\ stats = NotRead /\ indexes = NotRead /\ limits = NotRead
      /\ settings = NotRead
  BY <1>1 DEF IInv, Stages
<1> DEFINE found == {[oid |-> o, kind |-> rels[o].kind, off |-> rels[o].off, age |-> rels[o].age] :
                       o \in {named} \ {None}}
<1>3. \/ info'.status = "error" /\ info'.rows = {} /\ info'.lock = FALSE
      \/ info'.status = "ok" /\ info'.rows = found /\ info'.lock = FALSE
  BY <1>1, FailureIs DEF TableInfo, Ok
<1>4. named \in Oids \cup {None} /\ (named \in Oids => rels[named].kind \in Kinds /\ Exists(named))
  BY TypesAre, NoOidIsNone DEF IInv, ServerOK, Exists
<1>5. found \subseteq [oid : Oids, kind : Kinds, off : BOOLEAN, age : Young..Stopped]
  <2> SUFFICES ASSUME named \in Oids
               PROVE  [oid |-> named, kind |-> rels[named].kind, off |-> rels[named].off,
                       age |-> rels[named].age]
                        \in [oid : Oids, kind : Kinds, off : BOOLEAN, age : Young..Stopped]
    BY <1>4
  <2>1. rels[named] \in [kind : Kinds, off : BOOLEAN, age : Young..Stopped, dead : 0..1]
    BY <1>4, ExistingRel, TypesAre DEF IInv
  <2> QED BY <2>1
<1>6. \A r \in info'.rows :
        /\ r.oid = named /\ named \in Oids /\ r.kind = rels[named].kind
        /\ r.off = rels[named].off /\ r.age = rels[named].age
  BY <1>3, <1>4
<1>7. info'.status = "ok" /\ named \in Oids => \E r \in info'.rows : r.oid = named
  <2> SUFFICES ASSUME info'.status = "ok", named \in Oids PROVE \E r \in info'.rows : r.oid = named
    OBVIOUS
  <2> DEFINE w == [oid |-> named, kind |-> rels[named].kind, off |-> rels[named].off,
                   age |-> rels[named].age]
  <2>1. w \in found
    BY NoOidIsNone
  <2>2. info'.rows = found /\ w.oid = named
    BY <1>3
  <2> QED BY <2>1, <2>2
<1>8. CollectedOK'
  BY <1>1, <1>2, <1>3, <1>5, NotReadIs, Statuses4, TypesAre DEF IInv, CollectedOK, Told
<1>9. Stages'
  BY <1>1, <1>2, <1>3, OrderIs DEF IInv, Stages, Fails
<1>10. OneRow'
  <2>1. \A r, s \in info'.rows : r = s
    BY <1>3
  <2> QED BY <1>1, <1>3, <1>6, <2>1 DEF OneRow
<1>11. Bound' /\ StatsTell' /\ SettingsTell'
  BY <1>1, <1>2, NotReadIs DEF Bound, ListComesBack, StatsTell, SettingsTell
<1>12. Shown \subseteq touched /\ Parts \subseteq parts /\ Noticed
  BY DEF IInv, Noticed
<1>13. InfoTells'
  <2>1. ASSUME NEW r \in info'.rows
        PROVE  /\ r.kind \in TableKinds /\ HasAge(r) /\ r.age >= Due => FreezeWarn(r.oid) \in touched
               /\ r.kind \in TableKinds /\ HasAge(r) /\ r.age = Stopped => FreezeFail(r.oid) \in touched
               /\ r.off => <<"off", r.oid>> \in parts
    <3>1. r.off => <<"off", r.oid>> \in Parts
      BY <1>6 DEF Parts
    <3>2. /\ HasAge(r) /\ r.age >= Due => Aged(rels[named], "WARN")
          /\ HasAge(r) /\ r.age = Stopped => Aged(rels[named], "FAIL")
      BY <1>6 DEF HasAge, Aged, Stopped
    <3> QED BY <1>6, <1>12, <3>1, <3>2, ShownIs
  <2>2. ASSUME info'.status = "ok", NEW o \in Oids
        PROVE  /\ FreezeFail(o) \in held =>
                    \E r \in info'.rows : r.oid = o /\ r.kind \in TableKinds /\ HasAge(r) /\ r.age = Stopped
               /\ FreezeWarn(o) \in held =>
                    \E r \in info'.rows : r.oid = o /\ r.kind \in TableKinds /\ HasAge(r) /\ r.age >= Due
               /\ TableOff(o) \in held =>
                    \E r \in info'.rows : r.oid = o /\ r.kind \in TableKinds /\ r.off
    <3>1. rels[o].age \in 0..2
      BY RelIs, TypesAre DEF IInv, ServerOK
    <3>2. /\ FreezeFail(o) \in held =>
               named = o /\ rels[o].kind \in TableKinds /\ HasAge(rels[o]) /\ rels[o].age = Stopped
          /\ FreezeWarn(o) \in held =>
               named = o /\ rels[o].kind \in TableKinds /\ HasAge(rels[o]) /\ rels[o].age >= Due
          /\ TableOff(o) \in held => named = o /\ rels[o].kind \in TableKinds /\ rels[o].off
      BY <1>12, <3>1, HeldTells DEF Aged, Stopped, Due, Neglecting
    <3> QED BY <1>6, <1>7, <2>2, <3>2 DEF HasAge
  <2> QED BY <1>1, <2>1, <2>2 DEF InfoTells
<1> QED BY <1>8, <1>9, <1>10, <1>11, <1>13, ProbeLeaves DEF IInv

\* A probe of the relation that leaves the row alone.
LEMMA RowStays ==
  ASSUME IInv, Probe, pos # 1
  PROVE  /\ UNCHANGED <<info, role, server, history>>
         /\ OneRow' /\ InfoTells'
         /\ IsTableRow(info)' = IsTableRow(info) /\ Row' = Row
<1>1. UNCHANGED <<info, role, server, history>>
  <2>1. pos \in 2..7 /\ UNCHANGED <<role, server, history>>
    BY ProbeAt DEF IInv
  <2>2. TableSize \/ TrackCounts \/ TableStats \/ TableIndexes \/ FreezeLimits \/ VacuumSettings
    BY <2>1, ProbeAt DEF IInv
  <2>3. UNCHANGED info
    BY <2>2 DEF TableSize, TrackCounts, TableStats, TableIndexes, FreezeLimits, VacuumSettings
  <2> QED BY <2>1, <2>3
<1> QED BY <1>1 DEF IInv, OneRow, InfoTells, IsTableRow, Row

\* Neither the counters nor the switches are read by the other probes.
LEMMA CountersStay ==
  ASSUME IInv, Probe, pos # 1, UNCHANGED stats
  PROVE  StatsTell'
BY RowStays DEF IInv, StatsTell

LEMMA SwitchesStay ==
  ASSUME IInv, Probe, pos # 1, UNCHANGED settings
  PROVE  SettingsTell'
BY RowStays DEF IInv, SettingsTell

LEMMA TableSizeKeeps == ASSUME IInv, Probe, pos = 2 PROVE IInv'
<1>1. /\ TableSize /\ pos' = 3 /\ UNCHANGED <<server, role, exit, history>>
      /\ UNCHANGED <<info, stats, indexes, limits, settings>>
  <2>1. TableSize /\ pos' = 3 /\ UNCHANGED <<server, role, exit, history>>
    BY ProbeAt DEF IInv
  <2> QED BY <2>1 DEF TableSize
<1>2. /\ stats = NotRead /\ indexes = NotRead /\ limits = NotRead /\ settings = NotRead
  BY <1>1 DEF IInv, Stages
<1>3. /\ size'.status \in Statuses /\ size'.lock \in BOOLEAN
      /\ size'.rows # {} => IsTableRow(info) /\ size'.rows = {Row.oid} /\ Row.oid \in Oids
      /\ size'.lock => size'.status = "skipped"
  <2>1. CASE IsTableRow(info)
    <3>1. size' \in Query(Row.oid, TRUE, {Row.oid} \cap {o \in Oids : Exists(o)})
      BY <1>1, <2>1 DEF TableSize
    <3>2. /\ size'.rows \in {{}, {Row.oid}}
          /\ size'.status \in {"ok"} \cup Fails /\ size'.lock \in BOOLEAN
          /\ size'.lock => size'.status = "skipped"
      <4> DEFINE found == {Row.oid} \cap {o \in Oids : Exists(o)}
      <4>1. found \in {{}, {Row.oid}}
        OBVIOUS
      <4> HIDE DEF found
      <4>2. size' \in Query(Row.oid, TRUE, found)
        BY <3>1 DEF found
      <4>3. \/ size'.status = "ok" /\ size'.rows = found /\ size'.lock = FALSE
            \/ /\ size'.status \in Fails /\ size'.rows = {} /\ size'.lock \in BOOLEAN
               /\ size'.lock => size'.status = "skipped"
        BY <4>2, QueryIs
      <4>4. size'.lock \in BOOLEAN
        BY <4>3, Zenon
      <4>5. size'.lock => size'.status = "skipped"
        BY <4>3
      <4>6. size'.rows \in {{}, {Row.oid}} /\ size'.status \in {"ok"} \cup Fails
        BY <4>1, <4>3
      <4> QED BY <4>4, <4>5, <4>6
    <3>3. Row.oid \in Oids
      BY <2>1, RowIs
    <3> QED BY <2>1, <3>2, <3>3 DEF Fails, Statuses
  <2>2. CASE ~IsTableRow(info)
    <3>1. size' = TableAfter
      BY <1>1, <2>2 DEF TableSize
    <3> QED BY <3>1, MissingIs DEF TableAfter, Statuses
  <2> QED BY <2>1, <2>2
<1>4. CollectedOK'
  BY <1>1, <1>3, TypesAre DEF IInv, CollectedOK, Told
<1>5. Stages'
  BY <1>1, <1>2, OrderIs DEF IInv, Stages
<1>6. Bound'
  BY <1>1, <1>2, <1>3, NotReadIs, RowStays DEF Bound, ListComesBack
<1> QED BY <1>1, <1>4, <1>5, <1>6, ProbeLeaves, RowStays, CountersStay, SwitchesStay DEF IInv

LEMMA TrackCountsKeeps == ASSUME IInv, Probe, pos = 3 PROVE IInv'
<1>1. /\ TrackCounts /\ pos' = 4 /\ UNCHANGED <<server, role, exit, history>>
      /\ UNCHANGED <<info, size, indexes, limits, settings>> /\ role \in Roles
  BY ProbeAt DEF IInv, TrackCounts, Stages
<1>2. /\ indexes = NotRead /\ limits = NotRead /\ settings = NotRead
  BY <1>1 DEF IInv, Stages
<1>3. /\ stats'.rows = {} /\ stats'.lock = FALSE
      /\ \/ stats' = NotRead /\ IsTableRow(info) /\ role = "primary"
         \/ /\ stats'.status \in {"not_applicable"} \cup Fails
            /\ stats'.status = "not_applicable" => ~IsTableRow(info) \/ role = "standby"
  <2>1. CASE ~IsTableRow(info)
    BY <1>1, <2>1, MissingIs DEF TrackCounts, TableAfter, Fails
  <2>2. CASE IsTableRow(info) /\ role = "standby"
    BY <1>1, <2>2, MissingIs DEF TrackCounts
  <2>3. CASE IsTableRow(info) /\ role = "primary"
    BY <1>1, <2>3, MissingIs, FailureIs, NotReadIs DEF TrackCounts, Fails
  <2> QED BY <1>1, <2>1, <2>2, <2>3 DEF Roles
<1>4. CollectedOK'
  <2>1. stats'.status \in Statuses \cup {"none"} /\ stats'.lock \in BOOLEAN
    BY <1>3, NotReadIs DEF Statuses, Fails
  <2> QED BY <1>1, <1>3, <2>1, TypesAre DEF IInv, CollectedOK, Told
<1>5. Stages'
  BY <1>1, <1>2, <1>3, OrderIs DEF IInv, Stages
<1>6. Bound'
  <2>1. stats' = NotRead => IsTableRow(info) /\ role = "primary"
    BY <1>3, NotReadIs DEF Fails
  <2>2. stats'.status = "not_applicable" => ~IsTableRow(info) \/ role = "standby"
    BY <1>3, NotReadIs
  <2> QED BY <1>1, <1>2, <1>3, <2>1, <2>2, NotReadIs, RowStays DEF IInv, Bound, ListComesBack
<1>7. StatsTell'
  BY <1>3, NotReadIs DEF StatsTell, Fails
<1> QED BY <1>1, <1>4, <1>5, <1>6, <1>7, ProbeLeaves, RowStays, SwitchesStay DEF IInv

LEMMA TableStatsKeeps == ASSUME IInv, Probe, pos = 4 PROVE IInv'
<1>1. /\ TableStats /\ pos' = 5 /\ UNCHANGED <<server, role, exit, history>>
  BY ProbeAt DEF IInv
<1>2. UNCHANGED <<info, size, indexes, limits, settings>>
  BY <1>1 DEF TableStats
<1>3. /\ indexes = NotRead /\ limits = NotRead /\ settings = NotRead /\ role \in Roles
      /\ stats = NotRead \/ stats.status \in {"not_applicable"} \cup Fails
  BY <1>1 DEF IInv, Stages
<1>4. CASE stats # NotRead
  <2>1. stats' = stats
    BY <1>1, <1>4 DEF TableStats
  <2>2. CollectedOK'
    BY <1>2, <2>1, TypesAre DEF IInv, CollectedOK, Told
  <2>3. Stages'
    BY <1>1, <1>2, <1>3, <1>4, <2>1, OrderIs DEF IInv, Stages, Fails
  <2>4. Bound'
    BY <1>1, <1>2, <2>1, RowStays, BoundStays DEF IInv
  <2> QED BY <1>2, <2>1, <2>2, <2>3, <2>4, ProbeLeaves, RowStays, CountersStay, SwitchesStay DEF IInv
<1>5. CASE stats = NotRead
  <2>0. IsTableRow(info) /\ role = "primary"
    BY <1>5 DEF IInv, Bound
  <2>r. /\ Row \in info.rows /\ Row.kind \in TableKinds /\ Row.oid \in Oids
        /\ info.rows = {Row} /\ rels[Row.oid].kind \in {Row.kind, "gone"} /\ info.status = "ok"
    BY <2>0, RowIs
  <2> DEFINE found == {[oid |-> o, dead |-> rels[o].dead] : o \in Counted}
  <2>1. \/ stats'.status = "ok" /\ stats'.rows = found /\ stats'.lock = FALSE
        \/ stats'.status \in Fails /\ stats'.rows = {} /\ stats'.lock = FALSE
    <3> HIDE DEF found
    <3>1. stats' \in Query(Row.oid, FALSE, found)
      BY <1>1, <1>5 DEF TableStats, found
    <3> QED BY <3>1, LocklessQueryIs
  <2>2. rels[Row.oid].dead \in 0..1
    BY <2>r, RelIs, TypesAre DEF IInv, ServerOK
  <2>3. /\ \A r \in found : r.oid = Row.oid /\ r.dead = rels[Row.oid].dead /\ HasStats(rels[Row.oid])
        /\ HasStats(rels[Row.oid]) => \E r \in found : r.dead = rels[Row.oid].dead
    <3>1. \A o \in Counted : o = Row.oid /\ HasStats(rels[Row.oid])
      BY DEF Counted
    <3>2. HasStats(rels[Row.oid]) => Row.oid \in Counted
      BY DEF Counted
    <3>3. \A r \in found : r.oid = Row.oid /\ r.dead = rels[Row.oid].dead /\ HasStats(rels[Row.oid])
      BY <3>1
    <3>4. ASSUME HasStats(rels[Row.oid]) PROVE \E r \in found : r.dead = rels[Row.oid].dead
      <4> DEFINE w == [oid |-> Row.oid, dead |-> rels[Row.oid].dead]
      <4>1. w \in found
        BY <3>2, <3>4
      <4>2. w.dead = rels[Row.oid].dead
        OBVIOUS
      <4> QED BY <4>1, <4>2
    <3> HIDE DEF found
    <3> QED BY <3>3, <3>4
  <2>4. found \subseteq [oid : Oids, dead : 0..1]
    <3>1. \A o \in Counted : o = Row.oid
      BY DEF Counted
    <3> QED BY <2>r, <2>2, <3>1
  <2>5. CollectedOK'
    <3>1. stats'.status \in Statuses \cup {"none"} /\ stats'.lock \in BOOLEAN
      BY <2>1 DEF Fails, Statuses
    <3>2. stats'.rows \subseteq [oid : Oids, dead : 0..1]
      BY <2>1, <2>4
    <3> QED BY <1>2, <3>1, <3>2, TypesAre DEF IInv, CollectedOK, Told
  <2>6. Stages'
    <3>1. stats'.status # "none"
      BY <2>1 DEF Fails
    <3> QED BY <1>1, <1>2, <1>3, <3>1, OrderIs DEF IInv, Stages
  <2>7. Bound'
    <3>1. HasStats(rels[Row.oid]) => HasStats(Row)
      BY <2>r DEF HasStats
    <3>2. stats'.status \in {"ok", "skipped", "error"} /\ stats'.status # "none"
      BY <2>1 DEF Fails
    <3>3. stats' # NotRead
      BY <3>2, NotReadIs
    <3>4. \A r \in stats'.rows : r.oid = Row.oid /\ HasStats(Row)
      BY <2>1, <2>3, <3>1
    <3> HIDE DEF found
    <3> QED BY <1>2, <2>0, <3>2, <3>3, <3>4, RowStays DEF IInv, Bound, ListComesBack
  <2>8. StatsTell'
    <3>1. \A r \in stats'.rows : r.dead > 0 => <<"dead", r.oid>> \in parts
      <4>1. rels[Row.oid].dead > 0 => <<"dead", Row.oid>> \in Parts
        BY <2>r DEF Parts
      <4>2. Parts \subseteq parts
        BY DEF IInv, Noticed
      <4> QED BY <2>1, <2>3, <4>1, <4>2
    <3>2. ASSUME stats'.status = "ok", NEW o \in Oids, TableOff(o) \in held
          PROVE  \E r \in stats'.rows : r.dead = 1
      <4>1. Noticed
        BY DEF IInv
      <4>2. Neglecting(rels[o])
        BY <3>2, <4>1, HeldTells
      <4>3. PICK r \in info.rows : r.oid = o
        BY <2>r, <3>2 DEF IInv, InfoTells
      <4>4. o = Row.oid
        BY <2>r, <4>3
      <4>5. HasStats(rels[Row.oid]) /\ rels[Row.oid].dead = 1
        BY <2>2, <4>2, <4>4, TypesAre DEF Neglecting, IInv, ServerOK
      <4>6. stats'.rows = found
        BY <2>1, <3>2 DEF Fails
      <4> QED BY <2>3, <4>5, <4>6
    <3> QED BY <1>1, <3>1, <3>2 DEF StatsTell
  <2> QED BY <1>2, <2>5, <2>6, <2>7, <2>8, ProbeLeaves, RowStays, SwitchesStay DEF IInv
<1> QED BY <1>4, <1>5

LEMMA TableIndexesKeeps == ASSUME IInv, Probe, pos = 5 PROVE IInv'
<1>1. /\ TableIndexes /\ pos' = 6 /\ UNCHANGED <<server, role, exit, history>>
  BY ProbeAt DEF IInv
<1>2. UNCHANGED <<info, size, stats, limits, settings>>
  BY <1>1 DEF TableIndexes
<1>3. /\ indexes'.status \in Statuses /\ indexes'.lock \in BOOLEAN
      /\ indexes'.rows # {} => IsTableRow(info) /\ indexes'.rows = {Row.oid} /\ Row.oid \in Oids
      /\ size.lock => ~indexes'.lock
  <2>1. CASE IsTableRow(info)
    <3> DEFINE found == {Row.oid} \cap {o \in Oids : Exists(o)}
    <3>1. found \in {{}, {Row.oid}}
      OBVIOUS
    <3> HIDE DEF found
    <3>2. indexes' \in Query(Row.oid, Sizes(size), found)
      BY <1>1, <2>1 DEF TableIndexes, found
    <3>3. Row.oid \in Oids
      BY <2>1, RowIs
    <3>4. CASE Sizes(size)
      <4>1. indexes' \in Query(Row.oid, TRUE, found)
        BY <3>2, <3>4 DEF Query
      <4>2. \/ indexes'.status = "ok" /\ indexes'.rows = found /\ indexes'.lock = FALSE
            \/ /\ indexes'.status \in Fails /\ indexes'.rows = {} /\ indexes'.lock \in BOOLEAN
               /\ indexes'.lock => indexes'.status = "skipped"
        BY <4>1, QueryIs
      <4>3. indexes'.lock \in BOOLEAN
        BY <4>2, Zenon
      <4>4. ~size.lock
        BY <3>4 DEF Sizes, IInv, Bound
      <4> QED BY <2>1, <3>1, <3>3, <4>2, <4>3, <4>4 DEF Fails, Statuses
    <3>5. CASE ~Sizes(size)
      <4>1. indexes' \in Query(Row.oid, FALSE, found)
        BY <3>2, <3>5 DEF Query
      <4>2. \/ indexes'.status = "ok" /\ indexes'.rows = found /\ indexes'.lock = FALSE
            \/ indexes'.status \in Fails /\ indexes'.rows = {} /\ indexes'.lock = FALSE
        BY <4>1, LocklessQueryIs
      <4> QED BY <2>1, <3>1, <3>3, <4>2 DEF Fails, Statuses
    <3> QED BY <3>4, <3>5
  <2>2. CASE ~IsTableRow(info)
    <3>1. indexes' = TableAfter
      BY <1>1, <2>2 DEF TableIndexes
    <3> QED BY <3>1, MissingIs DEF TableAfter, Statuses
  <2> QED BY <2>1, <2>2
<1>4. CollectedOK'
  BY <1>2, <1>3, TypesAre DEF IInv, CollectedOK, Told
<1>5. Stages'
  BY <1>1, <1>2, OrderIs DEF IInv, Stages
<1>6. Bound'
  BY <1>1, <1>2, <1>3, RowStays DEF IInv, Bound, ListComesBack
<1> QED BY <1>2, <1>4, <1>5, <1>6, ProbeLeaves, RowStays, CountersStay, SwitchesStay DEF IInv

LEMMA FreezeLimitsKeeps == ASSUME IInv, Probe, pos = 6 PROVE IInv'
<1>1. /\ FreezeLimits /\ pos' = 7 /\ UNCHANGED <<server, role, exit, history>>
  BY ProbeAt DEF IInv
<1>2. UNCHANGED <<info, size, stats, indexes, settings>>
  BY <1>1 DEF FreezeLimits
<1>3. limits'.status \in {"ok", "error"} /\ limits'.lock = FALSE
  BY <1>1, FailureIs DEF FreezeLimits, Ok
<1>4. CollectedOK'
  <2>1. limits'.status \in Statuses \cup {"none"} /\ limits'.lock \in BOOLEAN
    BY <1>3 DEF Statuses
  <2> QED BY <1>2, <2>1, TypesAre DEF IInv, CollectedOK, Told
<1>5. Stages'
  BY <1>1, <1>2, <1>3, OrderIs DEF IInv, Stages, Fails
<1>6. Bound'
  BY <1>1, <1>2, RowStays, BoundStays DEF IInv
<1> QED BY <1>2, <1>4, <1>5, <1>6, ProbeLeaves, RowStays, CountersStay, SwitchesStay DEF IInv

LEMMA VacuumSettingsKeeps == ASSUME IInv, Probe, pos = 7 PROVE IInv'
<1>1. /\ VacuumSettings /\ pos' = 8 /\ UNCHANGED <<server, role, exit, history>> /\ role \in Roles
  BY ProbeAt DEF IInv, Stages
<1>2. UNCHANGED <<info, size, stats, indexes, limits>>
  BY <1>1 DEF VacuumSettings
<1> DEFINE set == [auto |-> auto, track |-> track, line |-> line]
<1>3. \/ settings'.status = "error" /\ settings'.rows = {} /\ settings'.lock = FALSE
      \/ settings'.status = "ok" /\ settings'.rows = {set} /\ settings'.lock = FALSE
  BY <1>1, FailureIs DEF VacuumSettings, Ok
<1>4. auto \in BOOLEAN /\ track \in BOOLEAN /\ line \in 0..1
  BY TypesAre DEF IInv, ServerOK
<1>5. CollectedOK'
  <2>1. set \in [auto : BOOLEAN, track : BOOLEAN, line : 0..1]
    BY <1>4
  <2>2. settings'.rows \subseteq [auto : BOOLEAN, track : BOOLEAN, line : 0..1]
    BY <1>3, <2>1
  <2>3. settings'.status \in Statuses \cup {"none"} /\ settings'.lock \in BOOLEAN
    BY <1>3 DEF Statuses
  <2> QED BY <1>2, <2>2, <2>3, TypesAre DEF IInv, CollectedOK, Told
<1>6. Stages'
  BY <1>1, <1>2, <1>3, OrderIs DEF IInv, Stages, Fails
<1>7. Bound'
  BY <1>1, <1>2, RowStays, BoundStays DEF IInv
<1>8. SettingsTell'
  <2>1. Noticed /\ pos # 0 /\ held \subseteq Troubles /\ Shown \subseteq touched /\ Parts \subseteq parts
    BY DEF IInv, Noticed
  <2>2. Off(set) <=> ~(auto /\ track)
    BY DEF Off
  <2>3. Off(set) /\ role = "primary" => SwitchedOff \in touched
    BY <2>1, <2>2, ShownIs DEF Disabled, IInv, RoleLasts
  <2>4. ~Off(set) => <<"on", None>> \in parts
    BY <2>1, <2>2 DEF Parts
  <2>5. line = 0 => <<"line", None>> \in parts
    BY <2>1 DEF Parts
  <2>6. SwitchedOff \in held => Off(set)
    BY <2>1, <2>2, ShownIs, TroubleIs DEF Disabled
  <2>7. ASSUME NEW o \in Oids, TableOff(o) \in held
        PROVE  ~Off(set) /\ line = 0
    <3>1. Neglecting(rels[o])
      BY <2>1, <2>7, HeldTells
    <3>2. rels[o].dead \in 0..1
      BY RelIs, TypesAre DEF IInv, ServerOK
    <3> QED BY <1>4, <2>2, <3>1, <3>2 DEF Neglecting
  <2>8. set.line = line
    OBVIOUS
  <2> HIDE DEF set
  <2> QED BY <1>1, <1>3, <2>3, <2>4, <2>5, <2>6, <2>7, <2>8 DEF SettingsTell
<1> QED BY <1>2, <1>5, <1>6, <1>7, <1>8, ProbeLeaves, RowStays, CountersStay DEF IInv

-----------------------------------------------------------------------------
(* Every step *)

LEMMA ReportKeeps == ASSUME IInv, Report PROVE IInv'
<1>1. /\ pos = 8 /\ pos' = 9
      /\ exit' = ExitCode(Judged(info, stats, limits, settings, role).verdict)
      /\ UNCHANGED <<server, role, collected, history>>
  BY OrderIs DEF Report
<1>2. exit' \in 0..3
  BY <1>1, ExitIs
<1>3. TypeOK'
  <2>1. (ServerOK /\ CollectedOK /\ pos \in 0..Done /\ role \in Roles \cup {"none"}
         /\ exit \in 0..3 \cup {Running} /\ held \subseteq Findings /\ touched \subseteq Findings
           => TypeOK)'
    BY TypesAre, PTL
  <2>2. ServerOK' /\ CollectedOK'
    BY <1>1, TypesAre DEF IInv, ServerOK, Exists, CollectedOK, Told
  <2> QED BY <1>1, <1>2, <2>1, <2>2, TypesAre, OrderIs DEF IInv
<1>4. Stages'
  BY <1>1, <1>2, OrderIs DEF IInv, Stages, Running
<1>5. Noticed'
  BY <1>1, HistoryStill DEF IInv, Noticed
<1>6. RoleLasts' /\ OneRow' /\ InfoTells' /\ StatsTell' /\ SettingsTell'
  BY <1>1, TellsStay DEF IInv, RoleLasts, OneRow
<1>7. Bound'
  BY <1>1, BoundStays DEF IInv
<1>8. Judgement'
  <2>1. Judged(info, stats, limits, settings, role)' = Judged(info, stats, limits, settings, role)
    BY <1>1 DEF Judged, IsTableRow, Row
  <2> QED BY <1>1, <2>1 DEF Judgement
<1> QED BY <1>3, <1>4, <1>5, <1>6, <1>7, <1>8 DEF IInv

LEMMA StutterKeeps == ASSUME IInv, UNCHANGED vars PROVE IInv'
<1>1. TypeOK'
  <2>1. (ServerOK /\ CollectedOK /\ pos \in 0..Done /\ role \in Roles \cup {"none"}
         /\ exit \in 0..3 \cup {Running} /\ held \subseteq Findings /\ touched \subseteq Findings
           => TypeOK)'
    BY TypesAre, PTL
  <2>2. ServerOK' /\ CollectedOK'
    BY TypesAre DEF IInv, ServerOK, Exists, CollectedOK, Told
  <2> QED BY <2>1, <2>2, TypesAre, OrderIs DEF IInv
<1>2. Stages' /\ RoleLasts' /\ OneRow'
  BY DEF IInv, Stages, RoleLasts, OneRow
<1>3. Noticed'
  BY HistoryStill DEF IInv, Noticed
<1>4. InfoTells' /\ StatsTell' /\ SettingsTell' /\ Bound'
  BY TellsStay, BoundStays DEF IInv
<1>5. Judgement'
  <2>1. Judged(info, stats, limits, settings, role)' = Judged(info, stats, limits, settings, role)
    BY DEF Judged, IsTableRow, Row
  <2> QED BY <2>1 DEF IInv, Judgement
<1> QED BY <1>1, <1>2, <1>3, <1>4, <1>5 DEF IInv

LEMMA InvNext == IInv /\ [Next]_vars => IInv'
<1> SUFFICES ASSUME IInv, [Next]_vars PROVE IInv'
  OBVIOUS
<1>1. CASE Probe
  <2>1. pos \in 1..7
    BY <1>1, ProbeAt DEF IInv
  <2> QED BY <1>1, <2>1, TableInfoKeeps, TableSizeKeeps, TrackCountsKeeps, TableStatsKeeps,
             TableIndexesKeeps, FreezeLimitsKeeps, VacuumSettingsKeeps
<1>2. CASE ~Probe
  BY <1>2, InstanceKeeps, IdentifyKeeps, ReportKeeps, StutterKeeps DEF Next
<1> QED BY <1>1, <1>2

LEMMA Invariant == Spec => []IInv
BY InvInit, InvNext, PTL DEF Spec

-----------------------------------------------------------------------------
(* What the rule found *)

LimitsOK == Judgeable(limits.status)
AgeFound == IF HasAge(Row) THEN AgeLevels(Row.age, LimitsOK) ELSE {}
AgeHidden == HasAge(Row) /\ AgeBlind(Row.age, LimitsOK)

TheSwitches == CHOOSE set \in settings.rows : TRUE
VacuumFound ==
  IF settings.status = "ok" /\ (Off(TheSwitches) \/ Neglected(Row, stats, TheSwitches))
    THEN {"WARN"} ELSE {}
VacuumHidden == settings.status # "ok" \/ BlindSpot(stats.status)

Found == AgeFound \cup IF role = "primary" THEN VacuumFound ELSE {}
Hidden == AgeHidden \/ (role = "primary" /\ VacuumHidden)

\* The parts joined judge as one rule would.
LEMMA JudgedIs ==
  ASSUME IsTableRow(info), role \in Roles
  PROVE  /\ Found \in SUBSET Levels
         /\ Hidden \in BOOLEAN
         /\ Judged(info, stats, limits, settings, role).verdict = VerdictOf(Found, Hidden)
<1>1. AgeFound \in SUBSET Levels /\ VacuumFound \in SUBSET Levels
  BY DEF AgeFound, AgeLevels, VacuumFound, Levels
<1>2. AgeHidden \in BOOLEAN /\ VacuumHidden \in BOOLEAN /\ Hidden \in BOOLEAN
  BY DEF AgeHidden, VacuumHidden, Hidden
<1>3. AgePart(Row, limits) = Result(AgeFound, AgeHidden)
  <2>1. CASE HasAge(Row)
    <3>1. AgeHidden = AgeBlind(Row.age, LimitsOK)
      BY <2>1 DEF AgeHidden, AgeBlind
    <3> QED BY <2>1, <3>1 DEF AgePart, AgeFound, LimitsOK
  <2>2. CASE ~HasAge(Row)
    <3>1. AgeHidden = FALSE
      BY <2>2 DEF AgeHidden
    <3> QED BY <2>2, <3>1 DEF AgePart, AgeFound
  <2> QED BY <2>1, <2>2
<1>4. VacuumPart(Row, stats, settings) = Result(VacuumFound, VacuumHidden)
  <2>1. CASE settings.status = "ok"
    <3>1. VacuumHidden = BlindSpot(stats.status)
      BY <2>1 DEF VacuumHidden, BlindSpot
    <3> QED BY <2>1, <3>1 DEF VacuumPart, Judgeable, VacuumFound, TheSwitches
  <2>2. CASE settings.status # "ok"
    <3>1. VacuumHidden = TRUE
      BY <2>2 DEF VacuumHidden
    <3> QED BY <2>2, <3>1 DEF VacuumPart, Judgeable, VacuumFound
  <2> QED BY <2>1, <2>2
<1>5. CASE role = "standby"
  <2>1. Found = AgeFound /\ (Hidden = AgeHidden)
    BY <1>2, <1>5 DEF Found, Hidden
  <2>2. Judged(info, stats, limits, settings, role) = Result(AgeFound, AgeHidden)
    BY <1>3, <1>5 DEF Judged
  <2> QED BY <1>1, <1>2, <2>1, <2>2 DEF Result
<1>6. CASE role = "primary"
  <2>1. Found = AgeFound \cup VacuumFound /\ (Hidden = (AgeHidden \/ VacuumHidden))
    BY <1>2, <1>6 DEF Found, Hidden
  <2>2. Judged(info, stats, limits, settings, role)
          = Merge({Result(AgeFound, AgeHidden), Result(VacuumFound, VacuumHidden)})
    BY <1>3, <1>4, <1>6 DEF Judged
  <2>3. Found \in SUBSET Levels
    BY <1>1, <2>1
  <2> QED BY <1>1, <1>2, <2>1, <2>2, <2>3, MergeOfTwo
<1> QED BY <1>5, <1>6 DEF Roles

LEMMA SwitchesAre ==
  ASSUME IInv, settings.status = "ok"
  PROVE  TheSwitches \in settings.rows /\ TheSwitches.line \in 0..1
<1>1. TheSwitches \in settings.rows
  BY DEF IInv, SettingsTell, TheSwitches
<1> QED BY <1>1, TypesAre DEF IInv, CollectedOK

\* A warning is of something that had shown, of this relation or the switches,
\* or is put together from parts of this relation.
LEMMA WarnShowed ==
  ASSUME IInv, IsTableRow(info), "WARN" \in Found
  PROVE  \/ FreezeWarn(Row.oid) \in touched
         \/ SwitchedOff \in touched
         \/ role = "primary" /\ HasStats(Row) /\ Whole(Row.oid) \subseteq parts
<1>1. /\ Row \in info.rows /\ Row.kind \in TableKinds /\ Row.oid \in Oids
  BY RowIs
<1>2. ASSUME "WARN" \in AgeFound PROVE FreezeWarn(Row.oid) \in touched
  <2>1. HasAge(Row) /\ Row.age >= Due
    BY <1>2 DEF AgeFound, AgeLevels
  <2> QED BY <1>1, <2>1 DEF IInv, InfoTells
<1>3. ASSUME role = "primary", "WARN" \in VacuumFound
      PROVE  SwitchedOff \in touched \/ (HasStats(Row) /\ Whole(Row.oid) \subseteq parts)
  <2>1. /\ settings.status = "ok"
        /\ Off(TheSwitches) \/ Neglected(Row, stats, TheSwitches)
    BY <1>3 DEF VacuumFound
  <2>2. TheSwitches \in settings.rows /\ TheSwitches.line \in 0..1
    BY <2>1, SwitchesAre
  <2>3. CASE Off(TheSwitches)
    BY <1>3, <2>2, <2>3 DEF IInv, SettingsTell
  <2>4. CASE Neglected(Row, stats, TheSwitches)
    <3>1. PICK r \in stats.rows : r.dead > TheSwitches.line
      BY <2>4 DEF Neglected
    <3>2. r.dead \in 0..1 /\ r.oid = Row.oid /\ HasStats(Row)
      BY TypesAre DEF IInv, CollectedOK, Bound
    <3>3. r.dead > 0 /\ TheSwitches.line = 0
      BY <2>2, <3>1, <3>2
    <3>4. <<"off", Row.oid>> \in parts
      BY <1>1, <2>4 DEF Neglected, IInv, InfoTells
    <3>5. <<"dead", Row.oid>> \in parts
      BY <3>2, <3>3 DEF IInv, StatsTell
    <3>6. <<"line", None>> \in parts /\ <<"on", None>> \in parts
      BY <2>2, <2>4, <3>3 DEF Neglected, IInv, SettingsTell
    <3> QED BY <3>2, <3>4, <3>5, <3>6 DEF Whole
  <2> QED BY <2>1, <2>3, <2>4
<1> QED BY <1>2, <1>3 DEF Found

\* What the rule found had shown, whole or in parts.
LEMMA FoundShowed ==
  ASSUME IInv, IsTableRow(info)
  PROVE  /\ "FAIL" \in Found => \E f \in touched : f.level = "FAIL"
         /\ "WARN" \in Found => \E f \in touched \cup Pieced : f.level = "WARN"
<1>1. /\ Row \in info.rows /\ Row.kind \in TableKinds /\ Row.oid \in Oids
  BY RowIs
<1>2. ASSUME "FAIL" \in Found PROVE \E f \in touched : f.level = "FAIL"
  <2>1. HasAge(Row) /\ Row.age = Stopped
    BY <1>2 DEF Found, VacuumFound, AgeFound, AgeLevels
  <2>2. FreezeFail(Row.oid) \in touched
    BY <1>1, <2>1 DEF IInv, InfoTells
  <2> QED BY <2>2 DEF FreezeFail
<1>3. ASSUME "WARN" \in Found PROVE \E f \in touched \cup Pieced : f.level = "WARN"
  <2>1. /\ FreezeWarn(Row.oid).level = "WARN" /\ SwitchedOff.level = "WARN"
        /\ TableOff(Row.oid).level = "WARN" /\ TableOff(Row.oid).of = Row.oid
        /\ TableOff(Row.oid).id = "vacuum.table_disabled"
    BY DEF FreezeWarn, SwitchedOff, TableOff
  <2>2. Whole(Row.oid) \subseteq parts => TableOff(Row.oid) \in Pieced
    BY <1>1, <2>1, FindingKinds DEF Pieced
  <2> QED BY <1>3, <2>1, <2>2, WarnShowed
<1> QED BY <1>2, <1>3

\* Nothing the rule could not see stays out of its account.
LEMMA HiddenIsBlind ==
  ASSUME IInv, IsTableRow(info), pos = 9
  PROVE  /\ Hidden => Blind
         /\ Found = {} /\ ~Hidden => ~Blind
<1>1. limits.status \in {"ok"} \cup Fails /\ settings.status \in {"ok"} \cup Fails
  BY DEF IInv, Stages
<1>2. /\ BlindSpot(limits.status) <=> ~LimitsOK
      /\ BlindSpot(settings.status) <=> settings.status # "ok"
  BY <1>1 DEF BlindSpot, LimitsOK, Judgeable, Fails
<1>3. Hidden => Blind
  BY <1>2 DEF Hidden, AgeHidden, AgeBlind, VacuumHidden, Blind
<1>4. ASSUME Found = {}, ~Hidden PROVE ~Blind
  <2>1. HasAge(Row) => LimitsOK
    BY <1>4 DEF Found, AgeFound, Hidden, AgeHidden, AgeBlind
  <2>2. role = "primary" => settings.status = "ok" /\ ~BlindSpot(stats.status)
    BY <1>4 DEF Hidden, VacuumHidden
  <2> QED BY <1>2, <2>1, <2>2 DEF Blind
<1> QED BY <1>3, <1>4

\* What lasted is found: a stop always, the rest by a rule that was not blind.
LEMMA LastsFound ==
  ASSUME IInv, IsTableRow(info), pos = 9, NEW f \in held
  PROVE  /\ f.level = "FAIL" => "FAIL" \in Found
         /\ ~Blind => Found # {}
<1>1. /\ info.status = "ok" /\ Row \in info.rows /\ info.rows = {Row} /\ Row.oid \in Oids
  BY RowIs
<1>2. Noticed /\ held \subseteq Shown /\ f \in Findings /\ role \in Roles
  BY TroubleIs, TypesAre DEF IInv, Noticed, Stages
<1>3. ASSUME NEW o \in Oids, f = FreezeFail(o) PROVE "FAIL" \in Found
  <2>1. HasAge(Row) /\ Row.age = Stopped
    BY <1>1, <1>3 DEF IInv, InfoTells
  <2> QED BY <2>1 DEF Found, AgeFound, AgeLevels
<1>4. ASSUME NEW o \in Oids, f = FreezeWarn(o), ~Blind PROVE Found # {}
  <2>1. HasAge(Row) /\ Row.age >= Due
    BY <1>1, <1>4 DEF IInv, InfoTells
  <2>2. limits.status \in {"ok"} \cup Fails /\ ~BlindSpot(limits.status)
    BY <1>4, <2>1 DEF Blind, IInv, Stages
  <2>3. LimitsOK
    BY <2>2 DEF LimitsOK, Judgeable, BlindSpot, Fails
  <2> QED BY <2>1, <2>3 DEF Found, AgeFound, AgeLevels
<1>5. ASSUME f.id # "freeze.table_age", ~Blind
      PROVE  /\ role = "primary" /\ settings.status = "ok"
             /\ stats.status = "ok"
             /\ TheSwitches \in settings.rows
  <2>1. role = "primary"
    BY <1>2, <1>5 DEF IInv, RoleLasts, Roles
  <2>2. ~BlindSpot(stats.status) /\ ~BlindSpot(settings.status)
    BY <1>5, <2>1 DEF Blind
  <2>3. settings.status = "ok"
    BY <2>2 DEF IInv, Stages, BlindSpot, Fails
  <2>4. stats.status # "not_applicable"
    BY <2>1 DEF IInv, Bound
  <2> QED BY <2>1, <2>2, <2>3, <2>4, SwitchesAre DEF BlindSpot
<1>6. ASSUME f = SwitchedOff, ~Blind PROVE Found # {}
  <2>1. f.id # "freeze.table_age"
    BY <1>6 DEF SwitchedOff
  <2>2. Off(TheSwitches)
    BY <1>5, <1>6, <2>1 DEF IInv, SettingsTell
  <2> QED BY <1>5, <1>6, <2>1, <2>2 DEF Found, VacuumFound
<1>7. ASSUME NEW o \in Oids, f = TableOff(o), ~Blind PROVE Found # {}
  <2>1. f.id # "freeze.table_age"
    BY <1>7 DEF TableOff
  <2>2. ~Off(TheSwitches) /\ TheSwitches.line = 0
    BY <1>5, <1>7, <2>1 DEF IInv, SettingsTell
  <2>3. Row.off
    BY <1>1, <1>7 DEF IInv, InfoTells
  <2>4. \E r \in stats.rows : r.dead = 1
    BY <1>5, <1>7, <2>1 DEF IInv, StatsTell
  <2>5. Neglected(Row, stats, TheSwitches)
    BY <2>2, <2>3, <2>4 DEF Neglected
  <2> QED BY <1>5, <1>7, <2>1, <2>5 DEF Found, VacuumFound
<1>8. SwitchedOff.level = "WARN"
      /\ \A o : FreezeWarn(o).level = "WARN" /\ TableOff(o).level = "WARN"
  BY DEF SwitchedOff, FreezeWarn, TableOff
<1>9. f = SwitchedOff \/ \E o \in Oids : f \in {FreezeFail(o), FreezeWarn(o), TableOff(o)}
  BY <1>2, FindingKinds
<1> QED BY <1>3, <1>4, <1>6, <1>7, <1>8, <1>9

-----------------------------------------------------------------------------
(* What is promised *)

LEMMA InvTypes == IInv => TypeOK
BY DEF IInv

LEMMA InvOne == IInv => OneRelation
<1> SUFFICES ASSUME IInv PROVE OneRelation
  OBVIOUS
<1>1. ASSUME NEW o \in size.rows \cup indexes.rows \cup {r.oid : r \in stats.rows}
      PROVE  \E r \in info.rows : r.oid = o
  <2>1. IsTableRow(info) /\ o = Row.oid
    BY <1>1 DEF IInv, Bound
  <2> QED BY <2>1, RowIs
<1> QED BY <1>1 DEF OneRelation, IInv, Bound

LEMMA InvList == IInv => ListComesBack
BY DEF IInv, Bound

\* Every state of a run is well typed, whatever happens to the relations.
THEOREM TableTypeCorrect == Spec => []TypeOK
BY Invariant, InvTypes, PTL

\* Whatever table shows is of the one relation table.info resolved the name to,
\* however many times the name changes hands before the other probes run
\* (newTable).
THEOREM TableOneRelation == Spec => []OneRelation
BY Invariant, InvOne, PTL

\* A lock that takes the sizes away leaves the list of indexes
\* (tableIndexesSQL).
THEOREM TableListComesBack == Spec => []ListComesBack
BY Invariant, InvList, PTL

-----------------------------------------------------------------------------
(* table implements HonestAnswer *)

Lasting == IF pos = 0 THEN Findings ELSE held
Appeared == touched \cup Pieced
Blinded == pos = Done /\ Blind

\* An exit code is honest about what lasted and what appeared.
HonestNow ==
  \/ exit = 0 /\ Lasting = {} /\ ~Blinded
  \/ /\ exit = 1 /\ \E f \in Appeared : f.level = "WARN"
     /\ \A f \in Lasting : f.level # "FAIL"
  \/ exit = 2 /\ \E f \in Appeared : f.level = "FAIL"
  \/ exit = 3 /\ Blinded

LEMMA ExitHonest == IInv /\ pos = Done => HonestNow
<1> SUFFICES ASSUME IInv, pos = Done PROVE HonestNow
  OBVIOUS
<1> DEFINE verdict == Judged(info, stats, limits, settings, role).verdict
<1>1. /\ pos = 9 /\ exit = ExitCode(verdict) /\ role \in Roles
      /\ Lasting = held /\ (Blinded <=> Blind)
  BY OrderIs DEF IInv, Judgement, Stages, Lasting, Blinded
<1>2. /\ ExitCode("OK") = 0 /\ ExitCode("WARN") = 1
      /\ ExitCode("FAIL") = 2 /\ ExitCode("UNKNOWN") = 3
  BY DEF ExitCode
<1>3. CASE ~IsTableRow(info)
  <2>1. verdict = "UNKNOWN"
    <3>1. VerdictOf({}, TRUE) = "UNKNOWN"
      BY DEF VerdictOf
    <3> QED BY <1>3, <3>1 DEF Judged, Result
  <2>2. Blind
    BY <1>3 DEF Blind
  <2> HIDE DEF verdict
  <2> QED BY <1>1, <1>2, <2>1, <2>2 DEF HonestNow
<1>4. CASE IsTableRow(info)
  <2>1. Found \in SUBSET Levels /\ Hidden \in BOOLEAN /\ verdict = VerdictOf(Found, Hidden)
    BY <1>1, <1>4, JudgedIs
  <2> HIDE DEF verdict
  <2>2. \/ "FAIL" \in Found /\ verdict = "FAIL"
        \/ "FAIL" \notin Found /\ "WARN" \in Found /\ verdict = "WARN"
        \/ Found = {} /\ Hidden /\ verdict = "UNKNOWN"
        \/ Found = {} /\ ~Hidden /\ verdict = "OK"
    BY <2>1 DEF VerdictOf, Levels
  <2>3. \A f \in held : (f.level = "FAIL" => "FAIL" \in Found) /\ (~Blind => Found # {})
    BY <1>1, <1>4, LastsFound
  <2>4. CASE "FAIL" \in Found /\ verdict = "FAIL"
    BY <1>1, <1>2, <1>4, <2>4, FoundShowed DEF HonestNow, Appeared
  <2>5. CASE "FAIL" \notin Found /\ "WARN" \in Found /\ verdict = "WARN"
    BY <1>1, <1>2, <1>4, <2>3, <2>5, FoundShowed DEF HonestNow, Appeared
  <2>6. CASE Found = {} /\ Hidden /\ verdict = "UNKNOWN"
    BY <1>1, <1>2, <1>4, <2>6, HiddenIsBlind DEF HonestNow
  <2>7. CASE Found = {} /\ ~Hidden /\ verdict = "OK"
    <3>1. ~Blind
      BY <1>1, <1>4, <2>7, HiddenIsBlind
    <3> QED BY <1>1, <1>2, <2>3, <2>7, <3>1 DEF HonestNow
  <2> QED BY <2>2, <2>4, <2>5, <2>6, <2>7
<1> QED BY <1>3, <1>4

\* What lasts shrinks, what appeared grows, and only a run that goes on steps.
LEMMA Ages ==
  ASSUME IInv, Next
  PROVE  /\ Lasting' \subseteq Lasting /\ Appeared \subseteq Appeared'
         /\ exit = Running /\ (pos' # Done => exit' = Running)
<1>1. parts \subseteq parts' => Pieced \subseteq Pieced'
  BY DEF Pieced
<1>2. CASE Instance
  <2>1. pos < Reporting /\ UNCHANGED <<pos, exit>> /\ Remember
    BY <1>2 DEF Instance
  <2>2. held' \subseteq held /\ touched \subseteq touched' /\ parts \subseteq parts'
    BY <2>1 DEF Remember
  <2>3. pos # Done /\ exit = Running
    BY <2>1, OrderIs, TypesAre DEF IInv, Stages
  <2> QED BY <1>1, <2>1, <2>2, <2>3 DEF Lasting, Appeared
<1>3. CASE Identify
  <2>1. pos = 0 /\ pos' = 1 /\ UNCHANGED exit /\ held' = Troubles
    BY <1>3 DEF Identify
  <2>2. touched = {} /\ parts = {} /\ exit = Running
    BY <2>1, OrderIs DEF IInv, Stages
  <2> QED BY <1>1, <2>1, <2>2, HistoryTyped DEF Lasting, Appeared
<1>4. CASE Probe \/ Report
  <2>1. UNCHANGED <<held, touched, parts>> /\ pos \in 1..8 /\ pos' = pos + 1
        /\ (pos' # 9 => UNCHANGED exit)
    BY <1>4, ProbeAt, OrderIs DEF IInv, Report
  <2>2. exit = Running
    BY <2>1, OrderIs DEF IInv, Stages
  <2> QED BY <1>1, <2>1, <2>2, OrderIs DEF Lasting, Appeared
<1> QED BY <1>2, <1>3, <1>4 DEF Next

LEMMA RefineInit == Init => Promise!Init
<1> SUFFICES ASSUME Init PROVE Promise!Init
  OBVIOUS
<1>1. pos = 0 /\ exit = Running /\ touched = {}
  BY DEF Init
<1>2. Blinded = FALSE
  BY <1>1, OrderIs DEF Blinded
<1>3. Pieced \subseteq Findings
  BY DEF Pieced
<1> QED BY <1>1, <1>2, <1>3 DEF Promise!Init, Blinded

LEMMA RefineNext == IInv /\ IInv' /\ [Next]_vars => [Promise!Next]_Promise!vars
<1> SUFFICES ASSUME IInv, IInv', [Next]_vars PROVE [Promise!Next]_Promise!vars
  OBVIOUS
<1>h. pos' = Done => HonestNow'
  <2>1. (IInv /\ pos = Done => HonestNow)'
    BY ExitHonest, PTL
  <2> QED BY <2>1 DEF Done, Order
<1>1. CASE UNCHANGED vars
  <2>1. Blind' = Blind /\ Pieced' = Pieced
    BY <1>1 DEF Blind, IsTableRow, Row, Pieced
  <2> QED BY <1>1, <2>1 DEF Promise!vars
<1>2. CASE Next
  <2>1. /\ Lasting' \subseteq Lasting /\ Appeared \subseteq Appeared'
        /\ exit = Running /\ (pos' # Done => exit' = Running)
    BY <1>2, Ages
  <2>2. Blinded' \in BOOLEAN
    BY DEF Blinded
  <2>3. CASE pos' # Done
    BY <2>1, <2>2, <2>3 DEF Promise!Next, Promise!Live, Lasting, Appeared, Blinded
  <2>4. CASE pos' = Done
    <3>1. Promise!Honest(exit')
      BY <1>h, <2>4 DEF HonestNow, Promise!Honest, Lasting, Appeared, Blinded
    <3> QED BY <2>1, <2>2, <3>1 DEF Promise!Next, Promise!Answer, Lasting, Appeared, Blinded
  <2> QED BY <2>3, <2>4
<1> QED BY <1>1, <1>2

\* The exit code of table is as honest as HonestAnswer asks, whatever becomes
\* of the relation, of its name and of the server's switches while it runs
\* (newTable, rule.Table).
THEOREM TableHonest == Spec => Answers
BY Invariant, RefineInit, RefineNext, PTL DEF Spec, Answers, Promise!Spec

-----------------------------------------------------------------------------
(* When an alarm is whole *)

\* Only an ordinary table has autovacuum turned off for it.
OffIsOfTable == \A o \in Oids : rels[o].off => HasStats(rels[o])

LEMMA OffKeeps ==
  ASSUME ServerOK, OffIsOfTable, Next
  PROVE  OffIsOfTable'
<1>1. rels \in [Oids -> Rels]
  BY DEF ServerOK
<1>2. ASSUME Create PROVE OffIsOfTable'
  <2>1. PICK o \in Oids, kind \in Kinds : rels' = [rels EXCEPT ![o] = Rel(kind)]
    BY <1>2 DEF Create
  <2>2. Rel(kind).off = FALSE
    BY DEF Rel
  <2> QED BY <1>1, <2>1, <2>2 DEF OffIsOfTable
<1>3. ASSUME NEW o \in Oids, Drop(o) PROVE OffIsOfTable'
  <2>1. rels' = [rels EXCEPT ![o] = Gone] /\ Gone.off = FALSE
    BY <1>3 DEF Drop, Gone, Rel
  <2> QED BY <1>1, <2>1 DEF OffIsOfTable
<1>4. ASSUME NEW o \in Oids, SetOption(o) PROVE OffIsOfTable'
  <2>1. HasStats(rels[o]) /\ rels' = [rels EXCEPT ![o] = [rels[o] EXCEPT !.off = ~rels[o].off]]
    BY <1>4 DEF SetOption
  <2>2. rels[o] \in Rels /\ [rels[o] EXCEPT !.off = ~rels[o].off].kind = rels[o].kind
    BY <1>1, <2>1, ExistingRel DEF HasStats, Exists, Kinds, TableKinds
  <2> QED BY <1>1, <2>1, <2>2 DEF OffIsOfTable, HasStats
<1>5. ASSUME NEW o \in Oids, Exists(o), NEW r,
             rels' = [rels EXCEPT ![o] = r], r.off = rels[o].off, r.kind = rels[o].kind
      PROVE  OffIsOfTable'
  BY <1>1, <1>5 DEF OffIsOfTable, HasStats
<1>6. ASSUME NEW o \in Oids, Delete(o) \/ Age(o) \/ Freeze(o) PROVE OffIsOfTable'
  <2>1. Exists(o)
    BY <1>6 DEF Delete, Age, Freeze, HasStats, Exists, Kinds, TableKinds
  <2>2. rels[o] = [kind |-> rels[o].kind, off |-> rels[o].off, age |-> rels[o].age, dead |-> rels[o].dead]
    BY <1>1, <2>1, ExistingRel DEF Rels
  <2>3. CASE Delete(o)
    BY <1>5, <2>1, <2>2, <2>3 DEF Delete
  <2>4. CASE Age(o)
    BY <1>5, <2>1, <2>2, <2>4 DEF Age
  <2>5. CASE Freeze(o)
    BY <1>1, <1>5, <2>1, <2>2, <2>5 DEF Freeze
  <2> QED BY <1>6, <2>3, <2>4, <2>5
<1>7. ASSUME UNCHANGED rels PROVE OffIsOfTable'
  BY <1>7 DEF OffIsOfTable
<1>8. CASE Instance
  <2>1. ASSUME NEW o \in Oids, Rename(o) \/ Lock(o) PROVE OffIsOfTable'
    BY <1>7, <2>1 DEF Rename, Lock
  <2>2. Reload => OffIsOfTable'
    BY <1>7 DEF Reload
  <2> QED BY <1>2, <1>3, <1>4, <1>6, <1>7, <1>8, <2>1, <2>2 DEF Instance
<1>9. CASE Identify \/ Probe \/ Report
  BY <1>7, <1>9 DEF Identify, Probe, Report
<1> QED BY <1>8, <1>9 DEF Next

\* Nothing of what a vacuum.table_disabled is put together from begins while
\* the probes run: no option is set, no dead tuples come, no switch is turned
\* on, no line lowered. All of it may end.
NothingBegins == [][Looking => Parts' \subseteq Parts]_vars

\* What is whole in parts was whole at one moment.
Together == pos # 0 /\ role = "primary" =>
  \A o \in Oids : Whole(o) \subseteq parts => TableOff(o) \in touched

LEMMA WholeIsNeglected ==
  ASSUME OffIsOfTable, ~recovering, NEW o \in Oids, Whole(o) \subseteq Parts
  PROVE  TableOff(o) \in Shown
<1>1. <<"off", o>> \in Parts /\ <<"dead", o>> \in Parts
      /\ <<"line", None>> \in Parts /\ <<"on", None>> \in Parts
  BY DEF Whole
<1>2. rels[o].off /\ rels[o].dead > 0 /\ line = 0 /\ auto /\ track
  BY <1>1 DEF Parts
<1>3. HasStats(rels[o]) /\ rels[o].kind \in TableKinds
  BY <1>2 DEF OffIsOfTable, HasStats, TableKinds
<1> QED BY <1>2, <1>3, ShownIs DEF Neglecting

LEMMA TogetherKeeps ==
  ASSUME IInv, OffIsOfTable, Together, Next, Looking => Parts' \subseteq Parts
  PROVE  Together'
<1>1. CASE Instance
  <2>1. UNCHANGED <<pos, role>> /\ Remember
    BY <1>1 DEF Instance
  <2>2. CASE Looking
    <3>1. pos # 0 /\ Parts \subseteq parts
      BY <2>2, OrderIs DEF Looking, IInv, Noticed
    <3>2. parts' = parts \cup Parts' /\ touched \subseteq touched'
      BY <2>1, <2>2 DEF Remember
    <3>3. parts' = parts
      BY <2>2, <3>1, <3>2
    <3> QED BY <2>1, <3>2, <3>3 DEF Together
  <2>3. CASE ~Looking
    BY <2>1, <2>3 DEF Remember, Together
  <2> QED BY <2>2, <2>3
<1>2. CASE Identify
  <2>1. /\ role' = (IF recovering THEN "standby" ELSE "primary")
        /\ touched' = Shown /\ parts' = Parts
    BY <1>2 DEF Identify
  <2>2. role' = "primary" => ~recovering
    BY <2>1
  <2> QED BY <2>1, <2>2, WholeIsNeglected DEF Together, TableOff
<1>3. CASE Probe
  <2>1. pos # 0 /\ UNCHANGED <<role, history>>
    BY <1>3, ProbeAt DEF IInv
  <2> QED BY <2>1 DEF Together
<1>4. CASE Report
  BY <1>4, OrderIs DEF Report, Together
<1> QED BY <1>1, <1>2, <1>3, <1>4 DEF Next

LEMMA WarnIsFound ==
  ASSUME IInv, pos = Done, exit = ExitCode("WARN")
  PROVE  IsTableRow(info) /\ "WARN" \in Found
<1> DEFINE verdict == Judged(info, stats, limits, settings, role).verdict
<1>1. exit = ExitCode(verdict) /\ role \in Roles
  BY OrderIs DEF IInv, Judgement, Stages
<1>2. /\ ExitCode("OK") = 0 /\ ExitCode("WARN") = 1
      /\ ExitCode("FAIL") = 2 /\ ExitCode("UNKNOWN") = 3
  BY DEF ExitCode
<1>3. ASSUME ~IsTableRow(info) PROVE verdict = "UNKNOWN"
  <2>1. VerdictOf({}, TRUE) = "UNKNOWN"
    BY DEF VerdictOf
  <2> QED BY <1>3, <2>1 DEF Judged, Result
<1>4. IsTableRow(info) => /\ verdict = VerdictOf(Found, Hidden)
                          /\ Found \in SUBSET Levels /\ Hidden \in BOOLEAN
  BY <1>1, JudgedIs
<1> HIDE DEF verdict
<1>5. IsTableRow(info)
  BY <1>1, <1>2, <1>3
<1>6. \/ "FAIL" \in Found /\ verdict = "FAIL"
      \/ "WARN" \in Found
      \/ verdict \in {"UNKNOWN", "OK"}
  BY <1>4, <1>5 DEF VerdictOf, Levels
<1> QED BY <1>1, <1>2, <1>5, <1>6

LEMMA InvWhole == IInv /\ Together => AlarmIsWhole
<1> SUFFICES ASSUME IInv, Together, pos = Done, exit = ExitCode("WARN")
             PROVE  \E f \in touched : f.level = "WARN" /\ f.of \in {Row.oid, None}
  BY DEF AlarmIsWhole
<1>1. IsTableRow(info) /\ "WARN" \in Found
  BY WarnIsFound
<1>2. /\ FreezeWarn(Row.oid).level = "WARN" /\ FreezeWarn(Row.oid).of = Row.oid
      /\ SwitchedOff.level = "WARN" /\ SwitchedOff.of = None
      /\ TableOff(Row.oid).level = "WARN" /\ TableOff(Row.oid).of = Row.oid
  BY DEF FreezeWarn, SwitchedOff, TableOff
<1>3. pos # 0 /\ Row.oid \in Oids
  BY <1>1, OrderIs, RowIs
<1> QED BY <1>1, <1>2, <1>3, WarnShowed DEF Together

\* An alarm of table is whole as the comment of rule.Table has it, unless a part
\* of it began while the probes ran; relations may be created, dropped, renamed,
\* aged, frozen and locked meanwhile. The run `torn` shows the other case.
THEOREM WholeUnlessBegun == Spec /\ NothingBegins => []AlarmIsWhole
<1>1. Init => Together /\ OffIsOfTable
  <2> SUFFICES ASSUME Init PROVE Together /\ OffIsOfTable
    OBVIOUS
  <2>1. Together
    BY DEF Init, Together
  <2>2. PICK first \in Oids, r \in Rels :
          /\ r.off => HasStats(r)
          /\ rels = [o \in Oids |-> IF o = first THEN r ELSE Unborn]
    BY DEF Init
  <2>3. Unborn.off = FALSE
    BY DEF Unborn, Rel
  <2> QED BY <2>1, <2>2, <2>3 DEF OffIsOfTable
<1>2. IInv /\ Together /\ OffIsOfTable /\ [Next]_vars /\ [Looking => Parts' \subseteq Parts]_vars
        => Together' /\ OffIsOfTable'
  <2> SUFFICES ASSUME IInv, Together, OffIsOfTable,
                      [Next]_vars, [Looking => Parts' \subseteq Parts]_vars
               PROVE  Together' /\ OffIsOfTable'
    OBVIOUS
  <2>1. CASE UNCHANGED vars
    BY <2>1 DEF Together, OffIsOfTable, TableOff, Whole
  <2>2. CASE Next /\ (Looking => Parts' \subseteq Parts)
    BY <2>2, TogetherKeeps, OffKeeps, TypesAre DEF IInv
  <2>3. UNCHANGED vars \/ (Next /\ (Looking => Parts' \subseteq Parts))
    OBVIOUS
  <2> QED BY <2>1, <2>2, <2>3
<1>3. IInv /\ Together => AlarmIsWhole
  BY InvWhole
<1> QED BY <1>1, <1>2, <1>3, Invariant, PTL DEF Spec, NothingBegins
=============================================================================
