------------------------------ MODULE Commands ------------------------------
(***************************************************************************)
(* What each command of cmd/kbdiag runs and what its rule reads: the       *)
(* constants of Diagnosis. A <name>Plan is the order in which the command  *)
(* runs its probes; a <name>Rule is what rule and scenario make of them.   *)
(*                                                                         *)
(* session, table and cluster are not here: what they run depends on what  *)
(* an earlier probe found.                                                 *)
(***************************************************************************)
EXTENDS Verdict

Everywhere(ps) == [r \in Roles |-> ps]

Finding(id, level, roles, marks, with) ==
  [id |-> id, level |-> level, roles |-> roles, marks |-> marks, with |-> with]

\* A rule that reads the same probes in both roles, with no further twist.
Reads(ps, masks, findings) ==
  [needs |-> Everywhere(ps), asks |-> {}, masks |-> masks, blindNA |-> {},
   findings |-> findings]

Row(plan, rule) ==
  [plan |-> plan, needs |-> rule.needs, asks |-> rule.asks, masks |-> rule.masks,
   blindNA |-> rule.blindNA, findings |-> rule.findings]

\* A mark: what the rows of a probe would show.
Mark(p, what) == <<p, what>>

-----------------------------------------------------------------------------
SessionsPlan == <<"session.activity">>
SessionsRule == Reads({"session.activity"}, {"session.activity"},
  {Finding("session.idle_in_txn", "WARN", Roles, {Mark("session.activity", "idle")}, {})})

LocksPlan == <<"lock.list">>
LocksRule == Reads({"lock.list"}, {"lock.list"},
  {Finding("lock.waiting", "WARN", Roles, {Mark("lock.list", "waiting")}, {})})

TxnPlan == <<"session.activity", "txn.prepared">>
TxnRule == Reads({"session.activity", "txn.prepared"}, {"session.activity"},
  {Finding("txn.long", "WARN", Roles, {Mark("session.activity", "long")}, {}),
   Finding("txn.prepared", "WARN", {"primary"}, {Mark("txn.prepared", "old")}, {})})

WaitsPlan == <<"wait.summary">>
WaitsRule == Reads({"wait.summary"}, {"wait.summary"}, {})

StatusPlan == <<"inst.info", "inst.databases", "inst.downstreams", "inst.upstream",
                "inst.disk">>
StatusRule == Reads({"inst.info", "inst.databases", "inst.downstreams", "inst.upstream"},
  {"inst.upstream"},
  {Finding("inst.connections", "FAIL", Roles, {Mark("inst.info", "full")}, {}),
   Finding("inst.upstream", "WARN", {"standby"}, {Mark("inst.upstream", "silent")}, {})})

SlotsPlan == <<"slot.list">>
SlotsRule == Reads({"slot.list"}, {},
  {Finding("slot.inactive", "WARN", Roles, {Mark("slot.list", "inactive")}, {})})

\* inst.info is run for space too, as the input of space.disk; it is not shown.
SpacePlan == <<"space.tablespaces", "inst.info", "space.disk", "inst.databases",
               "space.wal">>
\* A disk that is not applicable hides what the one judged line needs.
SpaceRule ==
  [Reads({"inst.databases", "space.tablespaces", "space.wal", "space.disk"},
         {"inst.databases", "space.tablespaces"},
         {Finding("space.disk_full", "FAIL", Roles, {Mark("space.disk", "full")},
                  {"space.wal"})})
   EXCEPT !.blindNA = {"space.disk"}]

FreezePlan == <<"freeze.databases", "freeze.tables", "freeze.limits">>
\* The stop limit is a constant; the warning line needs freeze.limits. The
\* tables are only shown.
FreezeRule == Reads({"freeze.databases", "freeze.limits"}, {},
  {Finding("freeze.database_age", "FAIL", Roles, {Mark("freeze.databases", "stopped")}, {}),
   Finding("freeze.database_age", "WARN", Roles, {Mark("freeze.databases", "due")},
           {"freeze.limits"})})

VacuumPlan == <<"vacuum.tables", "vacuum.progress", "vacuum.settings">>
\* Nothing is judged on a standby.
VacuumRule ==
  [Reads({}, {},
         {Finding("vacuum.disabled", "WARN", {"primary"}, {Mark("vacuum.settings", "off")}, {}),
          Finding("vacuum.table_disabled", "WARN", {"primary"},
                  {Mark("vacuum.tables", "neglected")}, {"vacuum.settings"})})
   EXCEPT !.needs = [r \in Roles |-> IF r = "standby" THEN {}
                                     ELSE {"vacuum.tables", "vacuum.settings"}]]

ArchivePlan == <<"archive.status", "archive.ready">>
ArchiveRule == Reads({"archive.status"}, {},
  {Finding("archive.failing", "WARN", Roles, {Mark("archive.status", "failing")}, {})})

ParamsPlan == <<"params.changed">>
ParamsRule == Reads({"params.changed"}, {"params.changed"},
  {Finding("params.pending_restart", "WARN", Roles, {Mark("params.changed", "pending")}, {})})

ReplPlan == <<"repl.downstreams", "repl.sync", "inst.upstream", "repl.replay">>
\* The walsenders are read only once synchronous_standby_names asks for some
\* and commits wait for them; a list that does not parse hides that.
ReplRule ==
  [Reads({"repl.sync", "inst.upstream", "repl.replay"}, {"inst.upstream", "repl.sync"},
         {Finding("inst.upstream", "WARN", {"standby"}, {Mark("inst.upstream", "silent")}, {}),
          Finding("repl.replay_paused", "WARN", {"standby"}, {Mark("repl.replay", "paused")}, {}),
          Finding("repl.sync_short", "WARN", {"primary"},
                  {Mark("repl.sync", "asks"), Mark("repl.downstreams", "short")}, {})})
   EXCEPT !.asks = {<<Mark("repl.sync", "asks"), "repl.downstreams">>}]

TopObjectsPlan == <<"object.tables", "object.indexes">>
TopObjectsRule == Reads({"object.tables", "object.indexes"}, {}, {})

TopPlan == <<"sql.top">>
TopRule == Reads({"sql.top"}, {"sql.top"}, {})

ProgressPlan == <<"progress.list", "progress.checkpoint">>
ProgressRule == Reads({"progress.list", "progress.checkpoint"},
                      {"progress.list", "progress.checkpoint"}, {})

CheckpointPlan == <<"checkpoint.stats", "checkpoint.last", "checkpoint.settings">>
CheckpointRule == Reads({"checkpoint.stats", "checkpoint.last", "checkpoint.settings"}, {}, {})

WALPlan == <<"wal.position", "space.wal", "slot.list", "archive.ready">>
WALRule == Reads({"wal.position", "space.wal", "slot.list", "archive.ready"}, {}, {})

SeqPlan == <<"seq.list">>
\* Shown on a standby, judged on a primary.
SeqRule == Reads({"seq.list"}, {"seq.list"},
  {Finding("seq.exhausted", "FAIL", {"primary"}, {Mark("seq.list", "exhausted")}, {})})

-----------------------------------------------------------------------------
CommandTable ==
  [sessions |-> Row(SessionsPlan, SessionsRule),
   locks |-> Row(LocksPlan, LocksRule),
   txn |-> Row(TxnPlan, TxnRule),
   waits |-> Row(WaitsPlan, WaitsRule),
   status |-> Row(StatusPlan, StatusRule),
   slots |-> Row(SlotsPlan, SlotsRule),
   space |-> Row(SpacePlan, SpaceRule),
   freeze |-> Row(FreezePlan, FreezeRule),
   vacuum |-> Row(VacuumPlan, VacuumRule),
   archive |-> Row(ArchivePlan, ArchiveRule),
   params |-> Row(ParamsPlan, ParamsRule),
   repl |-> Row(ReplPlan, ReplRule),
   topobjects |-> Row(TopObjectsPlan, TopObjectsRule),
   top |-> Row(TopPlan, TopRule),
   progress |-> Row(ProgressPlan, ProgressRule),
   checkpoint |-> Row(CheckpointPlan, CheckpointRule),
   wal |-> Row(WALPlan, WALRule),
   seq |-> Row(SeqPlan, SeqRule)]

\* Where a probe is applicable at all: the role gates of the probe functions.
GateOf(p) ==
  CASE p \in {"txn.prepared", "vacuum.tables", "vacuum.progress", "repl.sync"} -> {"primary"}
    [] p \in {"inst.upstream", "repl.replay"} -> {"standby"}
    [] OTHER -> Roles

\* The statfs probes.
StatProbes == {"inst.disk", "space.disk"}

\* One row at most: it is masked or it is not.
SingleRowProbes == {"inst.upstream", "repl.sync"}
=============================================================================
