------------------------------ MODULE Cluster ------------------------------
(***************************************************************************)
(* kbdiag cluster: find the database that holds repmgr's metadata, connect *)
(* to it, read the role, repmgr.nodes, repmgr.events, the synchronous mode *)
(* of this node's repmgr.conf and the walsenders, each at its own moment,  *)
(* and compare them, while the cluster (Repmgr) goes on: standbys leave    *)
(* and return, nodes are marked, a standby is promoted.                    *)
(*                                                                         *)
(* Without -d the command first tries database esrep, closes that          *)
(* connection and connects again; the server may refuse either.            *)
(***************************************************************************)
EXTENDS Verdict, Repmgr, Sequences

CONSTANTS
  MaxMoves,   \* bound: changes of the cluster during a run
  MaxRefusal  \* bound: changes of what the server lets in before it is reached

ASSUME ClusterAssumption == MaxMoves \in Nat /\ MaxRefusal \in Nat

VARIABLES
  explicit,  \* -d was given
  home,      \* the database that has the repmgr schema, or "none"
  esrep,     \* what the server makes of this account in esrep
  slots,     \* connections it would still take from this account
  closing,   \* the first connection is closed, its backend not gone yet
  phase, at, \* how far the run is, and in the collection which probe is next
  where,     \* the database to connect to
  skip,      \* esrep refused the account: no metadata is to be shown
  refused,   \* the database the server last refused, or "none"
  role, link, nodes, sync, downs, \* as in Diagnosis
  raised,    \* the findings of the report
  verdict, exit,
  moves,     \* history: changes so far, counted anew once connected
  held, touched  \* history: troubles lasting since Identify, and all seen by then

server == <<home, esrep, slots, closing>>
program == <<explicit, phase, at, where, skip, refused, role, link, nodes, sync,
             downs, raised, verdict, exit>>
history == <<moves, held, touched>>
vars == <<cluster, server, program, history>>

Running == 1000
NotRead == [status |-> "none", rows |-> {}]
NoSync == [status |-> "none", names |-> FALSE, mode |-> "none"]

\* The order in which the closure and the argument list evaluate the probes;
\* "file" is the second half of cluster.sync.
OrderDownsFirst == <<"downs", "nodes", "events", "sync", "file">>
Order == <<"nodes", "events", "sync", "file", "downs">>

\* "test" is the default database, or the one -d named.
Databases == {"esrep", "test"}
Looking == phase \in {"collect", "report"}

Warn(id, n) == [id |-> id, level |-> "WARN", node |-> n]
Flag(id, n, raise) == {f \in {Warn(id, n)} : raise}
Findings == {Warn(id, n) : id \in {"cluster.primaries", "cluster.inactive", "cluster.role_mismatch",
                                   "cluster.detached", "cluster.sync_degraded"},
                           n \in Nodes \cup {NoNode}}

\* What the findings are about, as it is in the cluster now, if its metadata
\* is where the run looks.
LocalIsPrimary == ~recovering /\ reg[Local].type = "primary"
Troubles ==
  {f \in Findings :
     /\ home = where
     /\ CASE f.id = "cluster.primaries" ->
               /\ f.node = NoNode
               /\ \E m, n \in Nodes : m # n /\ \A x \in {m, n} : reg[x].active /\ reg[x].type = "primary"
          [] f.id = "cluster.inactive" -> f.node # NoNode /\ ~reg[f.node].active
          [] f.id = "cluster.role_mismatch" ->
               f.node = Local /\ reg[Local].type = IF recovering THEN "primary" ELSE "standby"
          [] f.id = "cluster.detached" ->
               /\ f.node # NoNode /\ LocalIsPrimary /\ f.node \notin attached
               /\ reg[f.node] = [type |-> "standby", active |-> TRUE, up |-> Local]
          [] OTHER -> f.node = NoNode /\ LocalIsPrimary /\ mode = "sync" /\ ~names}

NodeRows == [node : Nodes, type : Types, active : BOOLEAN, up : Nodes \cup {NoNode}, local : BOOLEAN]

TypeOK ==
  /\ ClusterTypeOK
  /\ {explicit, closing, skip} \subseteq BOOLEAN
  /\ home \in Databases \cup {"none"}
  /\ esrep \in {"open", "refused", "missing"}
  /\ slots \in 0..2
  /\ phase \in {"try", "open", "identify", "collect", "report", "done"}
  /\ at \in 1..(Len(Order) + 1)
  /\ where \in Databases /\ refused \in Databases \cup {"none"}
  /\ role \in Roles \cup {"none"} /\ link \in {"closed", "up", "broken"}
  /\ nodes.status \in Statuses \cup {"none"} /\ nodes.rows \subseteq NodeRows
  /\ sync \in [status : Statuses \cup {"none", "file"}, names : BOOLEAN,
               mode : {"sync", "other", "none"}]
  /\ downs.status \in Statuses \cup {"none"} /\ downs.rows \subseteq Nodes
  /\ raised \subseteq Findings
  /\ verdict \in Verdicts \cup {"none"} /\ exit \in {0, 1, 2, 3, ExitUnavailable, Running}
  /\ held \subseteq Findings /\ touched \subseteq Findings

Init ==
  /\ ClusterInit
  /\ explicit \in BOOLEAN
  /\ home \in Databases \cup {"none"}
  /\ esrep \in {"open", "refused", "missing"}
  /\ home = "esrep" => esrep # "missing"
  /\ slots \in 1..2 /\ closing = FALSE
  /\ phase = IF explicit THEN "open" ELSE "try"
  /\ at = 1
  /\ where = "test"
  /\ skip = FALSE /\ refused = "none"
  /\ role = "none" /\ link = "closed"
  /\ nodes = NotRead /\ sync = NoSync /\ downs = NotRead
  /\ raised = {} /\ verdict = "none" /\ exit = Running
  /\ moves = 0 /\ held = {} /\ touched = {}

-----------------------------------------------------------------------------
(* The server and the cluster *)

Admits(db) == slots > 0 /\ (db = "esrep" => esrep = "open")
Missing(db) == slots > 0 /\ db = "esrep" /\ esrep = "missing"

\* pg_hba or a grant changes; a backend of this account or of others ends.
Rehba ==
  /\ phase \in {"try", "open"} /\ moves < MaxRefusal
  /\ moves' = moves + 1
  /\ \/ esrep = "open" /\ esrep' = "refused" /\ UNCHANGED slots
     \/ esrep = "refused" /\ esrep' = "open" /\ UNCHANGED slots
     \/ slots > 0 /\ slots' = slots - 1 /\ UNCHANGED esrep
     \/ slots < 2 /\ ~closing /\ slots' = slots + 1 /\ UNCHANGED esrep
  /\ UNCHANGED <<cluster, home, closing, program, held, touched>>

\* The server notices that the first connection is closed; once the second
\* one is up or refused it no longer matters when.
Reap ==
  /\ closing /\ phase = "open"
  /\ closing' = FALSE
  /\ slots' = IF slots < 2 THEN slots + 1 ELSE slots
  /\ UNCHANGED <<cluster, home, esrep, program, history>>

\* Where the run has no metadata to look at, the cluster may as well rest.
Move ==
  /\ phase \in {"identify", "collect"} /\ moves < MaxMoves
  /\ home = where /\ ~skip
  /\ moves' = moves + 1
  /\ ClusterMove
  /\ UNCHANGED <<server, program>>
  /\ IF Looking THEN held' = held \cap Troubles' /\ touched' = touched \cup Troubles'
                ELSE UNCHANGED <<held, touched>>

-----------------------------------------------------------------------------
(* Which database *)

\* The first connection, to esrep: only what it comes to matters, it is closed
\* at once. A network failure is left for the second connection to report.
TryEsrep ==
  /\ phase = "try"
  /\ phase' = "open"
  /\ \/ /\ Admits("esrep")
        /\ slots' = slots - 1 /\ closing' = TRUE
        /\ where' = "esrep" /\ UNCHANGED <<skip, refused>>
     \/ /\ Missing("esrep")
        /\ where' = "test" /\ refused' = "esrep" /\ UNCHANGED <<skip, slots, closing>>
     \/ /\ ~Admits("esrep") /\ ~Missing("esrep")
        /\ where' = "test" /\ skip' = TRUE /\ refused' = "esrep" /\ UNCHANGED <<slots, closing>>
     \/ where' = "esrep" /\ UNCHANGED <<skip, refused, slots, closing>>
  /\ UNCHANGED <<cluster, home, esrep, explicit, at, role, link, nodes, sync, downs,
                 raised, verdict, exit, history>>

\* diagnose opens its own connection; whatever stops it is exit 69. Once it is
\* up, what the server lets in is not looked at again, and forgotten here.
Open ==
  /\ phase = "open"
  /\ \/ /\ Admits(where)
        /\ phase' = "identify" /\ link' = "up"
        /\ refused' = "none" /\ esrep' = "open" /\ slots' = 0 /\ closing' = FALSE
        /\ UNCHANGED exit
     \/ /\ phase' = "done" /\ exit' = ExitUnavailable
        /\ \/ ~Admits(where) /\ refused' = where
           \/ refused' = "none"
        /\ UNCHANGED <<link, esrep, slots, closing>>
  /\ moves' = 0
  /\ UNCHANGED <<cluster, home, explicit, at, where, skip, role, nodes, sync, downs, raised,
                 verdict, held, touched>>

Identify ==
  /\ phase = "identify"
  /\ \/ /\ phase' = "collect"
        /\ role' = (IF recovering THEN "standby" ELSE "primary")
        /\ held' = Troubles /\ touched' = Troubles
        /\ UNCHANGED <<link, exit, moves>>
     \/ /\ phase' = "done" /\ exit' = ExitCode("UNKNOWN") /\ link' = "closed"
        /\ UNCHANGED <<role, history>>
  /\ UNCHANGED <<cluster, server, explicit, at, where, skip, refused, nodes, sync, downs,
                 raised, verdict>>

-----------------------------------------------------------------------------
(* The probes *)

\* A query of a probe fails; a broken link stays broken.
Fails(st) ==
  \E err \in QueryErrors :
    /\ link = "broken" => err = "no_code"
    /\ st = Classify(err)
    /\ link' \in IF err = "no_code" /\ link = "up" THEN {"up", "broken"} ELSE {link}

\* The node is told by get_local_node_id or by primary_slot_name, or it is not.
RowOf(n, identified) ==
  [node |-> n, type |-> reg[n].type, active |-> reg[n].active, up |-> reg[n].up,
   local |-> n = Local /\ identified]

Unreadable == [status |-> "skipped", rows |-> {}]

\* Mutant: what is not applicable stays so, whatever kept the run from esrep.
OverrideReadOnly(n) ==
  IF skip /\ n.status # "not_applicable" THEN Unreadable
  ELSE IF explicit /\ n.status = "not_applicable" THEN Unreadable ELSE n

\* -d named a database without the schema, or esrep was refused: not collected.
Override(n) ==
  IF skip \/ (explicit /\ n.status = "not_applicable") THEN Unreadable ELSE n

ReadNodes ==
  /\ \/ /\ link = "up" /\ home # where
        /\ nodes' = Override([status |-> "not_applicable", rows |-> {}])
        /\ UNCHANGED link
     \/ /\ link = "up" /\ home = where
        /\ \E identified \in BOOLEAN :
             nodes' = Override([status |-> "ok", rows |-> {RowOf(n, identified) : n \in Nodes}])
        /\ UNCHANGED link
     \/ \E st \in Statuses : Fails(st) /\ nodes' = Override([status |-> st, rows |-> {}])
  /\ UNCHANGED <<sync, downs>>

\* cluster.events is shown; no rule reads it.
ReadEvents ==
  /\ (link = "up" /\ UNCHANGED link) \/ \E st \in Statuses : Fails(st)
  /\ UNCHANGED <<nodes, sync, downs>>

LocalRows(rows) == {r \in rows : r.local}

\* Skipped: this node is not identified, the connection is remote, or the
\* table has no sys_bindir for it.
ReadSync ==
  /\ \/ /\ nodes.status # "ok"
        /\ sync' = [NoSync EXCEPT !.status = nodes.status] /\ UNCHANGED link
     \/ /\ nodes.status = "ok" /\ role # "primary"
        /\ sync' = [NoSync EXCEPT !.status = "not_applicable"] /\ UNCHANGED link
     \/ /\ nodes.status = "ok" /\ role = "primary"
        /\ sync' = [NoSync EXCEPT !.status = "skipped"] /\ UNCHANGED link
     \/ /\ nodes.status = "ok" /\ role = "primary" /\ LocalRows(nodes.rows) # {}
        /\ \/ /\ link = "up" /\ UNCHANGED link
              /\ sync' = [NoSync EXCEPT !.status = "file", !.names = names]
           \/ \E st \in Statuses : Fails(st) /\ sync' = [NoSync EXCEPT !.status = st]
  /\ UNCHANGED <<nodes, downs>>

\* The file, if the query led to one; it may be unreadable or another node's.
ReadFile ==
  /\ IF sync.status # "file" THEN UNCHANGED sync
     ELSE \/ sync' = [sync EXCEPT !.status = "ok", !.mode = mode]
          \/ sync' = [NoSync EXCEPT !.status = "skipped"]
  /\ UNCHANGED <<link, nodes, downs>>

ReadDowns ==
  /\ \/ link = "up" /\ downs' = [status |-> "ok", rows |-> attached] /\ UNCHANGED link
     \/ \E st \in Statuses : Fails(st) /\ downs' = [status |-> st, rows |-> {}]
  /\ UNCHANGED <<nodes, sync>>

Read(probe) ==
  \/ probe = "nodes" /\ ReadNodes
  \/ probe = "events" /\ ReadEvents
  \/ probe = "sync" /\ ReadSync
  \/ probe = "file" /\ ReadFile
  \/ probe = "downs" /\ ReadDowns

Collect ==
  /\ phase = "collect"
  /\ Read(Order[at])
  /\ at' = at + 1
  /\ phase' = IF at = Len(Order) THEN "report" ELSE phase
  /\ UNCHANGED <<cluster, server, explicit, where, skip, refused, role, raised, verdict,
                 exit, history>>

-----------------------------------------------------------------------------
(* rule.Cluster *)

\* The standbys repmgr says stream from node n.
Followers(n) == {r.node : r \in {x \in nodes.rows : x.active /\ x.type = "standby" /\ x.up = n}}

\* Mutant: only a standby that is out of recovery is noticed.
ExpectedRoleStandby(type) == IF type = "standby" THEN type ELSE "any"

\* The recovery role that goes with a type; a witness has none.
ExpectedRole(type) == IF type \in Roles THEN type ELSE "any"

InList ==
  Flag("cluster.primaries", NoNode,
       Cardinality({r \in nodes.rows : r.active /\ r.type = "primary"}) > 1)
  \cup {Warn("cluster.inactive", r.node) : r \in {x \in nodes.rows : ~x.active}}

OfRole(l) == Flag("cluster.role_mismatch", l.node, ExpectedRole(l.type) \notin {"any", role})

OfPrimary(l) ==
  Flag("cluster.sync_degraded", NoNode, Judgeable(sync.status) /\ sync.mode = "sync" /\ ~sync.names)
  \cup {Warn("cluster.detached", n) :
          n \in {m \in Followers(l.node) : Judgeable(downs.status) /\ m \notin downs.rows}}

JudgedAsPrimary(l) == role = "primary" /\ l.type = "primary"

\* What is found, and whether the rule was blind to something it reads.
Raised ==
  IF ~Judgeable(nodes.status) THEN {}
  ELSE InList \cup UNION {OfRole(l) \cup IF JudgedAsPrimary(l) THEN OfPrimary(l) ELSE {} :
                            l \in LocalRows(nodes.rows)}

\* Mutant: not knowing which node this is keeps nothing from OK.
BlindWithoutLocal ==
  \/ BlindSpot(nodes.status)
  \/ \E l \in LocalRows(nodes.rows) :
       JudgedAsPrimary(l) /\ (BlindSpot(sync.status) \/ BlindSpot(downs.status))

Blind ==
  \/ BlindSpot(nodes.status)
  \/ Judgeable(nodes.status) /\ LocalRows(nodes.rows) = {}
  \/ \E l \in LocalRows(nodes.rows) :
       JudgedAsPrimary(l) /\ (BlindSpot(sync.status) \/ BlindSpot(downs.status))

Report ==
  /\ phase = "report"
  /\ raised' = Raised
  /\ verdict' = VerdictOf({f.level : f \in raised'}, Blind)
  /\ exit' \in {ExitCode(verdict'), ExitCode("UNKNOWN")}
  /\ phase' = "done" /\ link' = "closed"
  /\ UNCHANGED <<cluster, server, explicit, at, where, skip, refused, role, nodes, sync,
                 downs, history>>

Next == Rehba \/ Reap \/ Move \/ TryEsrep \/ Open \/ Identify \/ Collect \/ Report

Spec == Init /\ [][Next]_vars

-----------------------------------------------------------------------------
(* What cluster promises *)

Reported == phase = "done" /\ verdict # "none"

\* A report never accuses the cluster of what was true at no moment of the
\* run: a standby that had left and was marked so is not called detached, a
\* promotion in progress not a wrong role, a list being refilled not degraded,
\* though role, nodes, list, file and walsenders are read one after another
\* (newCluster's order of the probes, rule.Cluster).
AccusesRightly == Reported => raised \subseteq touched

\* And it misses nothing that lasted, unless it says that it could not see
\* (rule.Cluster's early returns).
MissesNothing == Reported /\ ~Blind => held \subseteq raised

\* OK is only said of metadata that was read, or without -d where esrep has
\* none to read (newCluster's skip, and what an explicit -d makes of
\* not_applicable).
MetadataRead == exit = 0 => nodes.status = "ok" \/ (~explicit /\ home # "esrep")

\* The exit code keeps the promise of HonestAnswer (rule.Cluster, newCluster).
Promise == INSTANCE HonestAnswer WITH
  answer <- exit,
  lasting <- IF role = "none" THEN Findings ELSE held,
  appeared <- touched,
  blinded <- phase = "done" /\ (verdict = "none" \/ exit # ExitCode(verdict) \/ Blind),
  NoAnswer <- Running
\* The run implements HonestAnswer under that mapping (Promise).
Answers == Promise!Spec

\* docs/queries.md:52 and the comment in newCluster: an esrep that refuses
\* the account is not exit 69, the report then comes from the default database.
RefusalIsNot69 == ~explicit /\ exit = ExitUnavailable => refused # "esrep"
=============================================================================
