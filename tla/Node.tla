-------------------------------- MODULE Node --------------------------------
(***************************************************************************)
(* The commands that look at one instance as a whole: status, repl, slots  *)
(* (Replication), space, archive (Storage), freeze and vacuum (Upkeep).    *)
(* The instance is promoted, reconfigured, filled up, connected to and     *)
(* vacuumed while the probes are run one after another; a statfs of        *)
(* several directories is several moments.                                 *)
(*                                                                         *)
(* Bound: of the instance only what the command judges varies, and moves   *)
(* during its run; the rest stands still.                                  *)
(***************************************************************************)
EXTENDS Replication, Storage, Upkeep

CONSTANTS
  MaxMoves     \* bound: what the instance does during a run

ASSUME NodeAssumption == MaxMoves \in Nat

VARIABLES
  moves,
  cmd, pos, role,
  saw,                 \* what each step collected
  exit,
  held, touched,       \* history: what lasts since Identify, what showed
  glimpses             \* history: what rules put together from two probes

instance == <<replication, storage, upkeep, moves>>
program == <<cmd, pos, role, saw, exit>>
history == <<held, touched, glimpses>>
vars == <<instance, program, history>>

\* The queries and statfs calls of each command, in the order they are made.
StatusSteps ==
  <<"inst.info", "inst.databases", "inst.downstreams", "inst.upstream", "inst.disk">>
ReplSteps == <<"repl.downstreams", "repl.sync", "inst.upstream", "repl.replay">>
SlotsSteps == <<"slot.list">>
SpaceSteps ==
  <<"space.tablespaces", "inst.info", "stat data", "stat wal", "stat tablespaces",
    "inst.databases", "space.wal">>
ArchiveSteps == <<"archive.status", "archive.ready">>
FreezeSteps == <<"freeze.databases", "freeze.tables", "freeze.limits">>
VacuumSteps == <<"track_counts", "vacuum.tables", "vacuum.progress", "vacuum.settings">>
Steps ==
  [status |-> StatusSteps, repl |-> ReplSteps, slots |-> SlotsSteps, space |-> SpaceSteps,
   archive |-> ArchiveSteps, freeze |-> FreezeSteps, vacuum |-> VacuumSteps]
Commands == DOMAIN Steps
Results == {"inst.info", "inst.databases", "inst.downstreams", "inst.upstream", "inst.disk",
            "repl.downstreams", "repl.sync", "repl.replay", "slot.list",
            "space.tablespaces", "space.disk", "space.wal", "archive.status", "archive.ready",
            "freeze.databases", "freeze.tables", "freeze.limits",
            "vacuum.tables", "vacuum.progress", "vacuum.settings"}
Reporting == Len(Steps[cmd]) + 1
Done == Len(Steps[cmd]) + 2
Looking == pos \in 1..Len(Steps[cmd])
Running == 1000

-----------------------------------------------------------------------------
(* What the commands are about *)

Finding(id, level, of) == [id : {id}, level : {level}, of : of]
Findings ==
  Finding("inst.connections", "FAIL", {Nowhere}) \cup
  Finding("inst.upstream", "WARN", {Nowhere}) \cup
  Finding("repl.replay_paused", "WARN", {Nowhere}) \cup
  Finding("repl.sync_short", "WARN", {set.num : set \in Settings}) \cup
  Finding("slot.inactive", "WARN", Standbys) \cup
  Finding("space.disk_full", "FAIL", Filesystems) \cup
  Finding("archive.failing", "WARN", {Nowhere}) \cup
  Finding("freeze.database_age", "FAIL", Databases) \cup
  Finding("freeze.database_age", "WARN", Databases) \cup
  Finding("vacuum.disabled", "WARN", {Nowhere}) \cup
  Finding("vacuum.table_disabled", "WARN", Tables)

ReportedBy ==
  [status |-> {"inst.connections", "inst.upstream"},
   repl |-> {"inst.upstream", "repl.replay_paused", "repl.sync_short"},
   slots |-> {"slot.inactive"},
   space |-> {"space.disk_full"},
   archive |-> {"archive.failing"},
   freeze |-> {"freeze.database_age"},
   vacuum |-> {"vacuum.disabled", "vacuum.table_disabled"}]

\* Too few synchronous standbys is a trouble of the number asked for.  A
\* standby vacuums nothing.
IsTrue(f) ==
  CASE f.id = "inst.connections" -> Full
    [] f.id = "inst.upstream" -> NoUpstream
    [] f.id = "repl.replay_paused" -> ReplayPaused
    [] f.id = "repl.sync_short" -> SyncShort /\ f.of = setting.num
    [] f.id = "slot.inactive" -> f.of \in Inactive
    [] f.id = "space.disk_full" -> DiskFull(f.of)
    [] f.id = "archive.failing" -> ArchiveFailing(recovering)
    [] f.id = "freeze.database_age" -> IF f.level = "FAIL" THEN Stopped(f.of) ELSE Due(f.of)
    [] f.id = "vacuum.disabled" -> ~recovering /\ SwitchedOff
    [] f.id = "vacuum.table_disabled" -> ~recovering /\ Neglected(f.of)
Troubles == {f \in Findings : f.id \in ReportedBy[cmd] /\ IsTrue(f)}

Glimpse ==
  CASE cmd = "repl" -> {[synchronous |-> Cardinality(Synchronous)], [asked |-> WaitsFor]}
    [] cmd = "vacuum" -> {[table |-> r] : r \in TableRows} \cup {[set |-> defaults]}
    [] OTHER -> {}

TypeOK ==
  /\ ReplicationOK /\ StorageOK /\ UpkeepOK
  /\ moves \in 0..MaxMoves
  /\ cmd \in Commands /\ pos \in 0..Done /\ role \in Roles \cup {"none"}
  /\ DOMAIN saw = Results
  /\ \A p \in Results : saw[p].status \in Statuses \cup {"none"}
  /\ exit \in 0..3 \cup {Running}
  /\ held \subseteq touched /\ touched \subseteq Findings

Init ==
  /\ cmd \in Commands
  /\ IF cmd \in {"status", "repl", "slots"} THEN InitReplication
       ELSE recovering \in (IF cmd = "space" THEN {FALSE} ELSE BOOLEAN) /\ PlainReplication
  /\ cmd # "status" => conns = 1
  /\ cmd # "repl" => setting = None /\ commit = "on" /\ ~paused
  /\ cmd # "slots" => slots = {}
  /\ cmd = "status" \/ (cmd = "repl" /\ recovering) => senders = [s \in Standbys |-> "streaming"]
  /\ IF cmd = "space" THEN InitDisks
       ELSE PlainDisks /\ Reached /\ (cmd # "status" => place = "socket")
  /\ IF cmd = "archive" THEN InitArchiver
       ELSE /\ mode = "off" /\ command = FALSE /\ attempt = "none"
            /\ archivedAt = Never /\ failedAt = Never
  /\ IF cmd = "freeze" THEN InitAges ELSE PlainAges
  /\ IF cmd = "vacuum" /\ ~recovering THEN InitTables ELSE PlainTables
  /\ moves = 0
  /\ pos = 0 /\ role = "none" /\ exit = Running
  /\ saw = [p \in Results |-> NotRead]
  /\ held = {} /\ touched = {} /\ glimpses = {}

-----------------------------------------------------------------------------
(* The instance *)

Remember ==
  /\ held' = held \cap Troubles'
  /\ touched' = touched \cup Troubles'
  /\ glimpses' = glimpses \cup Glimpse'

ReplicationMoves ==
  \/ cmd \in {"status", "repl"} /\ Receive
  \/ cmd = "status" /\ (Connect \/ Disconnect)
  \/ cmd = "repl" /\ (PauseOrResume \/ Reload)
  \/ cmd \in {"repl", "slots"} /\ \E s \in Standbys : Send(s)
  \/ cmd = "slots" /\ \E s \in Standbys : SlotComesOrGoes(s)

StorageMoves ==
  \/ /\ cmd = "space"
     /\ \/ \E fs \in Filesystems : FillOrClear(fs)
        \/ \E t \in Tablespaces : Mount(t) \/ CreateOrDropTablespace(t)
  \/ /\ cmd = "archive"
     /\ Archive(recovering) \/ ChangeCommand \/ ResetStatistics

\* A standby replays what its primary does.
UpkeepMoves ==
  \/ /\ cmd = "freeze"
     /\ \E k \in Counters : Consume(k) \/ \E d \in Databases : Freeze(d, k)
  \/ /\ cmd = "vacuum"
     /\ SetAutovacuum \/ \E t \in Tables : Delete(t) \/ Vacuum(t) \/ AlterTable(t)

\* What happens before Identify is in Init.
Instance ==
  /\ Looking /\ moves < MaxMoves /\ moves' = moves + 1
  /\ \/ (ReplicationMoves \/ Promote) /\ UNCHANGED <<storage, upkeep>>
     \/ StorageMoves /\ UNCHANGED <<replication, upkeep>>
     \/ UpkeepMoves /\ UNCHANGED <<replication, storage>>
  /\ UNCHANGED program
  /\ Remember

-----------------------------------------------------------------------------
(* The run *)

Identify ==
  /\ pos = 0
  /\ pos' = 1
  /\ role' = IF recovering THEN "standby" ELSE "primary"
  /\ held' = Troubles /\ touched' = Troubles /\ glimpses' = Glimpse
  /\ UNCHANGED <<instance, cmd, saw, exit>>

\* What a query may come back with.
Query(p) ==
  CASE p = "inst.info" -> InstInfo
    [] p = "inst.databases" -> InstDatabases
    [] p = "inst.downstreams" -> InstDownstreams
    [] p = "inst.upstream" -> InstUpstream(role)
    [] p = "repl.downstreams" -> ReplDownstreams
    [] p = "repl.sync" -> ReplSync(role)
    [] p = "repl.replay" -> ReplReplay(role)
    [] p = "slot.list" -> SlotList
    [] p = "space.tablespaces" -> Failures \cup {Ok(rows) : rows \in SpaceTablespaces}
    [] p = "space.wal" -> Failures \cup {Ok(SpaceWAL)}
    [] p = "archive.status" -> Failures \cup {Ok(ArchiveStatus)}
    [] p \in {"archive.ready", "freeze.tables"} -> Failures \cup {Ok({})}
    [] p = "freeze.databases" -> FreezeDatabases
    [] p = "freeze.limits" -> FreezeLimits
    [] p = "track_counts" -> TrackCounts(role)
    [] p = "vacuum.tables" -> VacuumTables(saw["vacuum.tables"])
    [] p = "vacuum.progress" -> VacuumProgress(role)
    [] p = "vacuum.settings" -> VacuumSettings

Stats == {"inst.disk", "stat data", "stat wal", "stat tablespaces"}

\* The statfs calls of one probe build on one another.
Stat(p) ==
  CASE p = "inst.disk" -> StatData(saw["inst.info"])
    [] p = "stat data" -> StatData(saw["inst.info"])
    [] p = "stat wal" -> StatWAL(saw["space.disk"])
    [] p = "stat tablespaces" ->
         StatTablespaces(saw["space.disk"], Located(saw["space.tablespaces"]))

\* The probe a step belongs to.
Into(p) == CASE p \in Stats \ {"inst.disk"} -> "space.disk"
             [] p = "track_counts" -> "vacuum.tables"
             [] OTHER -> p

Probe ==
  /\ Looking
  /\ LET p == Steps[cmd][pos]
     IN \E got \in (IF p \in Stats THEN {Stat(p)} ELSE Query(p)) :
          saw' = [saw EXCEPT ![Into(p)] = got]
  /\ pos' = pos + 1
  /\ UNCHANGED <<instance, cmd, role, exit, history>>

Judgement ==
  CASE cmd = "status" ->
         Status(saw["inst.info"], saw["inst.databases"], saw["inst.downstreams"],
                saw["inst.upstream"])
    [] cmd = "repl" ->
         Repl(saw["repl.downstreams"], saw["repl.sync"], saw["inst.upstream"],
              saw["repl.replay"])
    [] cmd = "slots" -> Slots(saw["slot.list"])
    [] cmd = "space" ->
         Space(saw["inst.databases"], saw["space.tablespaces"], saw["space.wal"],
               saw["space.disk"])
    [] cmd = "archive" -> ArchiveRule(saw["archive.status"], role)
    [] cmd = "freeze" -> FreezeRule(saw["freeze.databases"], saw["freeze.limits"])
    [] cmd = "vacuum" -> VacuumRule(saw["vacuum.tables"], saw["vacuum.settings"], role)

Report ==
  /\ pos = Reporting
  /\ pos' = Done
  /\ exit' = ExitCode(Judgement.verdict)
  /\ UNCHANGED <<instance, cmd, role, saw, history>>

Next == Instance \/ Identify \/ Probe \/ Report

Spec == Init /\ [][Next]_vars

-----------------------------------------------------------------------------
(* What the commands promise *)

\* Whatever the server accepts as synchronous_standby_names, in whatever form
\* it is written, kbdiag reads the number and the names the server goes by
\* (parseSyncNames).
ReadsTheSetting ==
  LET read == Parse(text)
  IN read = Understood(setting.num, [i \in DOMAIN setting.members |-> setting.members[i].s])

\* A tablespace that cannot be reached does not take the answer away: a full
\* filesystem under data_directory or WAL is a FAIL as long as those two could
\* be looked at and the size of a segment is known (SpaceDisk, rule.Space).
TablespaceHidesNothing ==
  /\ pos = Done /\ cmd = "space" /\ place = "socket" /\ {"data", "wal"} \cap blocked = {}
  /\ Judgeable(saw["space.wal"].status) /\ \E i \in saw["inst.info"].rows : i.dir
  /\ held # {}
  => exit = ExitCode("FAIL")

\* That the server refuses new xids is seen without its settings: a database
\* at the stop limit is a FAIL whenever the databases could be read
\* (ageFinding).
StopIsSeen ==
  /\ pos = Done /\ cmd = "freeze" /\ Judgeable(saw["freeze.databases"].status)
  /\ \E f \in held : f.level = "FAIL"
  => exit = ExitCode("FAIL")

\* What space says of disks it says of the disks of the server it is connected
\* to: it looks only when it runs on the database's host (InstDisk).
TheServersDisks ==
  pos = Done /\ cmd = "space" /\ exit = ExitCode("FAIL") =>
    \E f \in touched : f.id = "space.disk_full"

\* Two rules put together what two probes read: repl.sync_short the
\* walsenders and the setting they are held against, vacuum.table_disabled the
\* tables and the thresholds.  What came of any such pair, of the run:
Pairs(f) ==
  CASE f.id = "repl.sync_short" ->
         {g.synchronous < h.asked : g \in {x \in glimpses : DOMAIN x = {"synchronous"}},
                                    h \in {x \in glimpses : DOMAIN x = {"asked"}}}
    [] f.id = "vacuum.table_disabled" ->
         {~g.table.options.enabled /\ Past(g.table, h.set) :
            g \in {x \in glimpses : DOMAIN x = {"table"} /\ x.table.name = f.of},
            h \in {x \in glimpses : DOMAIN x = {"set"}}}
    [] OTHER -> {}
\* True at different moments only, or always true but not of every pair.
Pieced == {f \in Findings : TRUE \in Pairs(f)}
Doubtful == {f \in Findings : FALSE \in Pairs(f)}

Unread(p) == BlindSpot(saw[p].status)
\* Does the setting that was read ask commits to wait?
WaitsForRead == \E set \in saw["repl.sync"].rows : set.commit = "on" /\ set.names # <<>>
MaskedRow == \E u \in saw["inst.upstream"].rows : u.status = "NULL"
Blind ==
  CASE cmd = "status" ->
         MaskedRow \/ \E p \in {"inst.info", "inst.databases", "inst.downstreams",
                                "inst.upstream"} : Unread(p)
    [] cmd = "repl" ->
         IF role = "standby" THEN MaskedRow \/ Unread("inst.upstream") \/ Unread("repl.replay")
         ELSE Unread("repl.sync") \/ (WaitsForRead /\ Unread("repl.downstreams"))
    [] cmd = "slots" -> Unread("slot.list")
    [] cmd = "space" ->
         \/ \E p \in {"inst.databases", "space.tablespaces", "space.wal", "space.disk"} :
              Unread(p)
         \/ saw["space.disk"].status = "not_applicable"
         \/ \E r \in saw["inst.databases"].rows \cup saw["space.tablespaces"].rows : r.redacted
    [] cmd = "archive" -> Unread("archive.status")
    [] cmd = "freeze" -> Unread("freeze.databases") \/ Unread("freeze.limits")
    [] cmd = "vacuum" ->
         role = "primary" /\ (Unread("vacuum.tables") \/ Unread("vacuum.settings"))

Promise == INSTANCE HonestAnswer WITH
  answer <- exit,
  lasting <- IF pos = 0 THEN Findings ELSE held \ Doubtful,
  appeared <- touched \cup Pieced,
  blinded <- pos = Done /\ Blind,
  NoAnswer <- Running
\* The exit code keeps the promise of HonestAnswer, of such a pair only what
\* all its halves make true or some: the run implements it under that mapping.
Answers == Promise!Spec
=============================================================================
