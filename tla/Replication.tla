---------------------------- MODULE Replication ----------------------------
(***************************************************************************)
(* One instance in a chain of replication: the server that changes while   *)
(* kbdiag looks, what the probes read of it (inst.*, repl.*, slot.list)    *)
(* and what the rules of status, repl and slots make of it.                *)
(*                                                                         *)
(* Abstracted: WAL positions, lags and ages are shown and not judged, but  *)
(* for one: whether the receiver has heard nothing for longer than         *)
(* wal_receiver_timeout.  A connection is an ordinary user's or a          *)
(* superuser's, and only how many there are matters.                       *)
(***************************************************************************)
EXTENDS Collected, SyncNames

CONSTANTS
  Standbys,          \* the downstreams this instance may have
  Settings,          \* values of synchronous_standby_names at the start
  Reloads,           \* values it may be changed to
  MaxConnections,    \* max_connections
  Reserved           \* superuser_reserved_connections

ASSUME ReplicationAssumption ==
  /\ MaxConnections \in Nat /\ Reserved \in Nat
  /\ Reserved < MaxConnections        \* else the server does not start
  /\ Reloads \subseteq Settings
  /\ None \in Settings               \* the default
  /\ \A set \in Settings : Legal(set)
  /\ IsFiniteSet(Standbys)

VARIABLES
  recovering,        \* sys_is_in_recovery()
  receiver,          \* the WAL receiver: none, streaming, or any other status
  quiet,             \* nothing came for longer than wal_receiver_timeout
  watchdog,          \* wal_receiver_timeout is not 0
  paused,            \* WAL replay is paused
  senders,           \* the walsender of each standby
  slots,             \* the standbys that have a replication slot
  setting, text,     \* synchronous_standby_names and how it is written
  commit,            \* synchronous_commit
  conns              \* backends connected to a database, kbdiag's among them

replication == <<recovering, receiver, quiet, watchdog, paused, senders, slots,
                 setting, text, commit, conns>>

Receivers == {"none", "streaming", "waiting"}
Senders == {"gone", "catchup", "streaming"}
\* What commits wait for standbys at, and what they do not.
Commits == {"on", "local"}

ReplicationOK ==
  /\ {recovering, quiet, watchdog, paused} \subseteq BOOLEAN
  /\ receiver \in Receivers
  /\ senders \in [Standbys -> Senders] /\ slots \subseteq Standbys
  /\ setting \in Settings /\ text \in Texts(setting)
  /\ commit \in Commits
  /\ conns \in 1..MaxConnections

-----------------------------------------------------------------------------
(* What is wrong with it *)

Receiving == receiver = "streaming" /\ ~(quiet /\ watchdog)
NoUpstream == recovering /\ ~Receiving
ReplayPaused == recovering /\ paused
Streaming == {s \in Standbys : senders[s] = "streaming"}
Synchronous ==
  {s \in Standbys : ~recovering /\ SyncState(setting, Streaming, s) \in {"sync", "quorum"}}
WaitsFor == IF commit = "on" THEN setting.num ELSE 0
SyncShort == ~recovering /\ Cardinality(Eligible(setting, Streaming)) < WaitsFor
Inactive == {s \in slots : senders[s] = "gone"}

\* Ordinary users are refused.
Usable == MaxConnections - Reserved
Full == conns >= Usable

-----------------------------------------------------------------------------
(* The server *)

\* A primary has no receiver.
InitReplication ==
  /\ recovering \in BOOLEAN
  /\ watchdog \in IF recovering THEN BOOLEAN ELSE {TRUE}
  /\ receiver \in IF recovering THEN Receivers ELSE {"none"}
  /\ quiet \in IF receiver = "streaming" THEN BOOLEAN ELSE {FALSE}
  /\ paused \in IF recovering THEN BOOLEAN ELSE {FALSE}
  /\ senders \in [Standbys -> Senders]
  /\ slots \in SUBSET Standbys
  /\ setting \in IF recovering THEN Reloads ELSE Settings
  /\ text \in Texts(setting)
  /\ commit \in Commits
  /\ conns \in 1..MaxConnections

\* A node that does not replicate.
PlainReplication ==
  /\ receiver = "none"
  /\ quiet = FALSE /\ watchdog = TRUE /\ paused = FALSE
  /\ senders = [s \in Standbys |-> "streaming"] /\ slots = {}
  /\ setting = None /\ text = <<>> /\ commit = "on"
  /\ conns = 1

\* The receiver starts, stops, changes its status, or stops getting anything;
\* what works reconnects after wal_receiver_timeout, so a quiet one is stuck.
Receive ==
  /\ recovering
  /\ \/ receiver' \in Receivers \ {receiver} /\ quiet' = FALSE
     \/ receiver = "streaming" /\ quiet' = ~quiet /\ UNCHANGED receiver
  /\ UNCHANGED <<recovering, watchdog, paused, senders, slots, setting, text, commit, conns>>

PauseOrResume ==
  /\ recovering /\ paused' = ~paused
  /\ UNCHANGED <<recovering, receiver, quiet, watchdog, senders, slots, setting, text, commit,
                 conns>>

\* The receiver is stopped before recovery ends.
Promote ==
  /\ recovering /\ receiver = "none"
  /\ recovering' = FALSE /\ paused' = FALSE
  /\ UNCHANGED <<receiver, quiet, watchdog, senders, slots, setting, text, commit, conns>>

Send(s) ==
  /\ senders' = [senders EXCEPT ![s] = CASE @ = "gone" -> "catchup"
                                         [] @ = "catchup" -> "streaming"
                                         [] OTHER -> "gone"]
  /\ UNCHANGED <<recovering, receiver, quiet, watchdog, paused, slots, setting, text, commit,
                 conns>>

SlotComesOrGoes(s) ==
  /\ \/ slots' = slots \cup {s}
     \/ senders[s] = "gone" /\ slots' = slots \ {s}
  /\ UNCHANGED <<recovering, receiver, quiet, watchdog, paused, senders, setting, text, commit,
                 conns>>

\* ALTER SYSTEM and a reload; repmgrd empties the list in the same way.
Reload ==
  /\ \/ setting' \in Reloads /\ text' \in Texts(setting') /\ UNCHANGED commit
     \/ commit' \in Commits /\ UNCHANGED <<setting, text>>
  /\ UNCHANGED <<recovering, receiver, quiet, watchdog, paused, senders, slots, conns>>

\* The last slots are a superuser's.
Connect ==
  /\ conns < MaxConnections /\ conns' = conns + 1
  /\ UNCHANGED <<recovering, receiver, quiet, watchdog, paused, senders, slots, setting, text,
                 commit>>

Disconnect ==
  /\ conns > 1 /\ conns' = conns - 1
  /\ UNCHANGED <<recovering, receiver, quiet, watchdog, paused, senders, slots, setting, text,
                 commit>>

-----------------------------------------------------------------------------
(* What the probes read *)

\* backends of all databases; the directory is visible or NULL
InstInfo == Failures \cup {Ok({[connections |-> conns, dir |-> d]}) : d \in BOOLEAN}

\* The sizes an account may not read are NULL: redacted.
Sizes == {[redacted |-> x] : x \in BOOLEAN}
InstDatabases == Failures \cup {Ok({z}) : z \in Sizes}

\* One row when there is a receiver; a server that masks it gives NULLs.
Upstream == IF receiver = "none" THEN {}
            ELSE {[status |-> receiver, late |-> quiet, watched |-> watchdog]}
MaskedUpstream == {[status |-> "NULL", late |-> FALSE, watched |-> watchdog]}
InstUpstream(role) ==
  IF role # "standby" THEN {Missing("not_applicable")}
  ELSE Failures \cup {Ok(Upstream)} \cup
       (IF receiver = "none" THEN {} ELSE {Ok(MaskedUpstream)})

Downstreams ==
  {[name |-> s, state |-> senders[s],
    sync |-> IF recovering THEN "async" ELSE SyncState(setting, Streaming, s)] :
     s \in {t \in Standbys : senders[t] # "gone"}}
InstDownstreams == Failures \cup {Ok(Downstreams)}
ReplDownstreams == Failures \cup {Ok(Downstreams)}

ReplSync(role) ==
  IF role = "standby" THEN {Missing("not_applicable")}
  ELSE Failures \cup {Ok({[names |-> text, commit |-> commit]})}

\* sys_is_wal_replay_paused() fails once recovery is over.
ReplReplay(role) ==
  IF role # "standby" THEN {Missing("not_applicable")}
  ELSE Failures \cup (IF recovering THEN {Ok({[paused |-> paused]})} ELSE {})

SlotList == Failures \cup {Ok({[slot |-> s, active |-> s \notin Inactive] : s \in slots})}

-----------------------------------------------------------------------------
(* The rules; a part is its levels and whether it was blind *)

Part(raised, blind) == [levels |-> IF raised THEN {"WARN"} ELSE {}, blind |-> blind]
Parts(parts) ==
  Result(UNION {p.levels : p \in parts}, \E p \in parts : p.blind)

\* connections
ConnectionLevels(info) ==
  IF Usable > 0 /\ \E i \in info.rows : i.connections >= Usable THEN {"FAIL"} ELSE {}

\* Mutant: what the receiver says of itself is believed.
StuckNever(u) == FALSE

\* A receiver that streams and has heard nothing for too long is stuck.
Stuck(u) == u.watched /\ u.late

\* upstream
UpstreamPart(up) ==
  IF ~Judgeable(up.status) THEN Part(FALSE, BlindSpot(up.status))
  ELSE IF up.rows = {} THEN Part(TRUE, FALSE)
  ELSE LET u == CHOOSE x \in up.rows : TRUE
       IN Part(u.status # "NULL" /\ (u.status # "streaming" \/ Stuck(u)), u.status = "NULL")

SyncStreaming(down) == {r \in down.rows : r.sync \in {"sync", "quorum"}}

\* syncShort: the walsenders are looked at only when some are asked for.
SyncPart(down, sync) ==
  IF ~Judgeable(sync.status) THEN Part(FALSE, BlindSpot(sync.status))
  ELSE LET set == CHOOSE x \in sync.rows : TRUE
           read == Parse(set.names)
       IN IF set.commit # "on" THEN Part(FALSE, FALSE)
          ELSE IF ~read.ok THEN Part(FALSE, TRUE)
          ELSE IF read.need = 0 THEN Part(FALSE, FALSE)
          ELSE IF ~Judgeable(down.status) THEN Part(FALSE, BlindSpot(down.status))
          ELSE Part(Cardinality(SyncStreaming(down)) < read.need, FALSE)

ReplayPart(replay) ==
  IF ~Judgeable(replay.status) THEN Part(FALSE, BlindSpot(replay.status))
  ELSE Part(\E p \in replay.rows : p.paused, FALSE)

Repl(down, sync, up, replay) ==
  Parts({UpstreamPart(up), ReplayPart(replay), SyncPart(down, sync)})

Status(info, databases, down, up) ==
  Result((IF Judgeable(info.status) THEN ConnectionLevels(info) ELSE {}) \cup
           UpstreamPart(up).levels,
         \/ \E p \in {info, databases, down} : BlindSpot(p.status)
         \/ UpstreamPart(up).blind)

Slots(list) ==
  IF ~Judgeable(list.status) THEN Result({}, BlindSpot(list.status))
  ELSE Result(IF \E s \in list.rows : ~s.active THEN {"WARN"} ELSE {}, FALSE)
=============================================================================
