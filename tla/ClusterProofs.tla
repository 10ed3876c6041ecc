---------------------------- MODULE ClusterProofs ----------------------------
(***************************************************************************)
(* cluster accuses a repmgr cluster of nothing that was true at no moment  *)
(* of the run, misses nothing that lasted, and its exit code keeps the     *)
(* promise of HonestAnswer: for any number of nodes and of changes, though *)
(* role, nodes, list, file and walsenders are read one after another.      *)
(***************************************************************************)
EXTENDS Cluster, FiniteSetTheorems, TLAPS

USE DEF vars, cluster, server, program, history

Primaries == Warn("cluster.primaries", NoNode)
Inactive(n) == Warn("cluster.inactive", n)
Mismatch == Warn("cluster.role_mismatch", Local)
Detached(n) == Warn("cluster.detached", n)
Degraded == Warn("cluster.sync_degraded", NoNode)

-----------------------------------------------------------------------------
(* The inductive invariant *)

\* How far the run is, and what it has by then.
Stages ==
  /\ phase \in {"try", "open", "identify"} => role = "none" /\ at = 1
  /\ phase \in {"collect", "report"} => role \in Roles
  /\ phase # "done" => verdict = "none" /\ exit = Running
  /\ phase = "collect" => at \in 1..Len(Order)
  /\ phase = "report" => at = Len(Order) + 1
  /\ at = 1 => nodes = NotRead
  /\ at > 1 => nodes.status \in Statuses
  /\ at <= 3 => sync = NoSync
  /\ at = 4 => sync.status \in Statuses \cup {"file"}
  /\ at > 4 => sync.status \in Statuses
  /\ at <= 5 => downs = NotRead
  /\ at > 5 => downs.status \in {"ok", "skipped", "error"}

\* Where the metadata was looked for.
Place ==
  /\ phase = "try" => ~explicit /\ ~skip
  /\ home = "esrep" => esrep # "missing"
  /\ phase # "try" /\ ~explicit /\ ~skip => where = "esrep" \/ home # "esrep"
  /\ nodes.status = "not_applicable" => ~skip /\ ~explicit /\ home # where

\* A node that is in recovery is no witness, and the role was right when it
\* was read: after a promotion the cluster was in between.
Role ==
  /\ recovering => reg[Local].type # "witness"
  /\ Looking /\ role = "primary" => ~recovering
  /\ Looking /\ role = "standby" /\ ~recovering => Mismatch \in touched
  /\ Looking /\ Mismatch \in held => (recovering <=> role = "standby")
  /\ Looking /\ (Degraded \in held \/ \E n \in Nodes : Detached(n) \in held) => role = "primary"

\* What lasts is so now, and what is so now has shown.
Noticed == Looking => held \subseteq Troubles /\ Troubles \subseteq touched

\* The rows are one of each node, of the database that has them.
Rows ==
  nodes.status = "ok" =>
    /\ home = where
    /\ \A n \in Nodes : \E r \in nodes.rows : r.node = n
    /\ \A r, s \in nodes.rows : r.node = s.node => r = s
    /\ \A r \in nodes.rows : r.local => r.node = Local

\* What the rows say was so when they were read, and what lasts was so then.
RowsTell ==
  nodes.status = "ok" =>
    /\ \A r \in nodes.rows : ~r.active => Inactive(r.node) \in touched
    /\ \A r \in nodes.rows : Inactive(r.node) \in held => ~r.active
    /\ \A r, s \in nodes.rows :
         r # s /\ r.active /\ r.type = "primary" /\ s.active /\ s.type = "primary" =>
           Primaries \in touched
    /\ Primaries \in held =>
         \E r, s \in nodes.rows :
           r # s /\ r.active /\ r.type = "primary" /\ s.active /\ s.type = "primary"
    /\ \A l \in LocalRows(nodes.rows) : ExpectedRole(l.type) \notin {"any", role} =>
         Mismatch \in touched
    /\ Mismatch \in held =>
         \A r \in nodes.rows : r.node = Local =>
           r.type = (IF role = "standby" THEN "primary" ELSE "standby")
    /\ \A n \in Nodes : Detached(n) \in held =>
         /\ \A r \in nodes.rows : r.node = Local => r.type = "primary"
         /\ \A r \in nodes.rows : r.node = n => r.active /\ r.type = "standby" /\ r.up = Local
    /\ Degraded \in held => \A r \in nodes.rows : r.node = Local => r.type = "primary"

AsPrimary == nodes.status = "ok" /\ \E l \in LocalRows(nodes.rows) : JudgedAsPrimary(l)

\* A node judged as the primary is one until the report, and a standby it had
\* is detached only after it has been seen so.
Streams(n) ==
  n \in attached /\ reg[n] = [type |-> "standby", active |-> TRUE, up |-> Local]
PrimaryTells ==
  AsPrimary =>
    /\ Looking => LocalIsPrimary
    /\ at <= 5 /\ Looking => \A n \in Followers(Local) : Detached(n) \in touched \/ Streams(n)
    /\ at > 5 /\ downs.status = "ok" =>
         \A n \in Followers(Local) : n \notin downs.rows => Detached(n) \in touched

\* The list was read before the mode.
SyncTells ==
  /\ sync.status = "file" /\ AsPrimary /\ ~sync.names /\ Looking =>
       Degraded \in touched \/ mode = "other"
  /\ sync.status = "ok" /\ AsPrimary /\ ~sync.names /\ sync.mode = "sync" => Degraded \in touched
  /\ sync.status \in {"file", "ok"} /\ Degraded \in held => ~sync.names
  /\ sync.status = "ok" /\ Degraded \in held => sync.mode = "sync"

\* What the walsenders show of what lasts.
DownsTell ==
  downs.status = "ok" => \A n \in Nodes : Detached(n) \in held => n \notin downs.rows

\* What keeps the mode unread keeps the rule from an answer.
SyncKnown ==
  at > 3 /\ nodes.status = "ok" /\ role = "primary" => sync.status # "not_applicable"

Reporting ==
  /\ Reported =>
       /\ raised = Raised /\ verdict = VerdictOf({f.level : f \in raised}, Blind)
       /\ raised \subseteq touched /\ (~Blind => held \subseteq raised)
       /\ exit \in {ExitCode(verdict), ExitCode("UNKNOWN")} /\ role \in Roles
  /\ phase = "done" /\ verdict = "none" => exit \in {ExitUnavailable, ExitCode("UNKNOWN")}

IInv ==
  /\ TypeOK /\ Stages /\ Place /\ Role /\ Noticed /\ Rows /\ RowsTell
  /\ PrimaryTells /\ SyncTells /\ DownsTell /\ SyncKnown /\ Reporting
-----------------------------------------------------------------------------
(* Types *)

LEMMA ClusterTyped == ClusterTypeOK /\ ClusterMove => ClusterTypeOK'
<1> SUFFICES ASSUME ClusterTypeOK, ClusterMove PROVE ClusterTypeOK'
  OBVIOUS
<1> USE RepmgrAssumption DEF ClusterTypeOK, Types
<1>1. ASSUME NEW n \in Nodes, Detach(n) PROVE ClusterTypeOK'
  BY <1>1 DEF Detach
<1>2. ASSUME NEW n \in Nodes, Attach(n) PROVE ClusterTypeOK'
  BY <1>2 DEF Attach
<1>3. ASSUME NEW n \in Nodes, MarkInactive(n) PROVE ClusterTypeOK'
  BY <1>3 DEF MarkInactive
<1>4. ASSUME NEW n \in Nodes, MarkActive(n) PROVE ClusterTypeOK'
  BY <1>4 DEF MarkActive
<1>5. ASSUME NEW n \in Nodes, SecondPrimary(n) PROVE ClusterTypeOK'
  BY <1>5 DEF SecondPrimary
<1>6. ASSUME NEW n \in Nodes, NEW u \in Nodes, Follow(n, u) PROVE ClusterTypeOK'
  BY <1>6 DEF Follow
<1>7. CASE Promote
  BY <1>7 DEF Promote
<1>8. CASE RecordPromotion
  <2>1. \A n \in Nodes : reg'[n] \in [type : Types, active : BOOLEAN, up : Nodes \cup {NoNode}]
    BY <1>8 DEF RecordPromotion
  <2>2. reg' \in [Nodes -> [type : Types, active : BOOLEAN, up : Nodes \cup {NoNode}]]
    BY <1>8, <2>1 DEF RecordPromotion
  <2> QED BY <1>8, <2>2 DEF RecordPromotion
<1>9. CASE RecordRejoin
  <2>1. PICK u \in Nodes \ {Local} :
          reg' = [reg EXCEPT ![Local] = [type |-> "standby", active |-> TRUE, up |-> u],
                             ![u] = [type |-> "primary", active |-> TRUE, up |-> NoNode]]
    BY <1>9 DEF RecordRejoin
  <2>2. reg' \in [Nodes -> [type : Types, active : BOOLEAN, up : Nodes \cup {NoNode}]]
    BY <2>1
  <2> QED BY <1>9, <2>2 DEF RecordRejoin
<1>10. CASE SetNames \/ Reconfigure
  BY <1>10 DEF SetNames, Reconfigure
<1> QED BY <1>1, <1>2, <1>3, <1>4, <1>5, <1>6, <1>7, <1>8, <1>9, <1>10 DEF ClusterMove

LEMMA ClusterInitTyped == ClusterInit => ClusterTypeOK
<1> SUFFICES ASSUME ClusterInit PROVE ClusterTypeOK
  OBVIOUS
<1>1. PICK p, h \in Nodes, w \in {NoNode} \cup Nodes, c \in SUBSET Nodes, rejoining \in BOOLEAN :
        /\ w \notin {p, h} /\ c \cap {p, h, w} = {}
        /\ c # {} <=> h # p
        /\ rejoining => p = Local
        /\ reg = [n \in Nodes |->
                    [type |-> CASE n = p -> "primary" [] n = w -> "witness" [] OTHER -> "standby",
                     active |-> TRUE,
                     up |-> CASE n = p -> NoNode [] n \in c -> h [] OTHER -> p]]
        /\ attached = {n \in Nodes : reg[n].type = "standby" /\ reg[n].up = Local /\ ~rejoining}
        /\ recovering = (Local \notin {p, w} \/ rejoining)
        /\ mode \in {"sync", "other"}
        /\ names = (mode = "sync")
  BY Zenon DEF ClusterInit
<1>2. \A n \in Nodes : reg[n] \in [type : Types, active : BOOLEAN, up : Nodes \cup {NoNode}]
  BY <1>1 DEF Types
<1>3. reg[Local].up # Local
  BY <1>1, RepmgrAssumption
<1>4. Local \notin attached
  BY <1>1, <1>3
<1> QED BY <1>1, <1>2, <1>4 DEF ClusterTypeOK

-----------------------------------------------------------------------------
(* What a move of the cluster leaves *)

LEMMA NoWitnessInit == ClusterInit => (recovering => reg[Local].type # "witness")
<1> SUFFICES ASSUME ClusterInit PROVE recovering => reg[Local].type # "witness"
  OBVIOUS
<1>1. PICK p, h \in Nodes, w \in {NoNode} \cup Nodes, c \in SUBSET Nodes, rejoining \in BOOLEAN :
        /\ w \notin {p, h} /\ c \cap {p, h, w} = {}
        /\ c # {} <=> h # p
        /\ rejoining => p = Local
        /\ reg = [n \in Nodes |->
                    [type |-> CASE n = p -> "primary" [] n = w -> "witness" [] OTHER -> "standby",
                     active |-> TRUE,
                     up |-> CASE n = p -> NoNode [] n \in c -> h [] OTHER -> p]]
        /\ attached = {n \in Nodes : reg[n].type = "standby" /\ reg[n].up = Local /\ ~rejoining}
        /\ recovering = (Local \notin {p, w} \/ rejoining)
        /\ mode \in {"sync", "other"}
        /\ names = (mode = "sync")
  BY Zenon DEF ClusterInit
<1> QED BY <1>1, RepmgrAssumption

\* The role changes with a promotion only, which is recorded after it.
LEMMA Promotes ==
  ASSUME ClusterMove
  PROVE  recovering' = recovering \/ (recovering /\ ~recovering' /\ reg' = reg)
<1>1. ASSUME NEW n \in Nodes,
             Detach(n) \/ Attach(n) \/ MarkInactive(n) \/ MarkActive(n) \/ SecondPrimary(n)
      PROVE  recovering' = recovering
  BY <1>1 DEF Detach, Attach, MarkInactive, MarkActive, SecondPrimary
<1>2. ASSUME NEW n \in Nodes, NEW u \in Nodes, Follow(n, u)
      PROVE  recovering' = recovering
  BY <1>2 DEF Follow
<1>3. CASE RecordPromotion \/ RecordRejoin \/ SetNames \/ Reconfigure
  BY <1>3 DEF RecordPromotion, RecordRejoin, SetNames, Reconfigure
<1>4. CASE Promote
  BY <1>4 DEF Promote
<1> QED BY <1>1, <1>2, <1>3, <1>4 DEF ClusterMove

\* What may become of the type of this node.
LEMMA LocalType ==
  ASSUME ClusterTypeOK, ClusterMove
  PROVE  \/ reg'[Local].type = reg[Local].type
         \/ ~recovering /\ ~recovering' /\ reg'[Local].type = "primary"
         \/ recovering /\ reg'[Local].type = "standby"
<1> USE RepmgrAssumption DEF ClusterTypeOK
<1>1. ASSUME NEW m \in Nodes,
             Detach(m) \/ Attach(m) \/ MarkInactive(m) \/ MarkActive(m) \/ SecondPrimary(m)
      PROVE  reg'[Local].type = reg[Local].type
  BY <1>1 DEF Detach, Attach, MarkInactive, MarkActive, SecondPrimary
<1>2. ASSUME NEW m \in Nodes, NEW u \in Nodes, Follow(m, u)
      PROVE  reg'[Local].type = reg[Local].type
  BY <1>2 DEF Follow
<1>3. CASE RecordPromotion
  BY <1>3 DEF RecordPromotion
<1>4. CASE RecordRejoin
  BY <1>4 DEF RecordRejoin
<1>5. CASE Promote \/ SetNames \/ Reconfigure
  BY <1>5 DEF Promote, SetNames, Reconfigure
<1> QED BY <1>1, <1>2, <1>3, <1>4, <1>5 DEF ClusterMove

LEMMA NoWitnessMove ==
  ASSUME ClusterTypeOK, ClusterMove, recovering => reg[Local].type # "witness"
  PROVE  recovering' => reg'[Local].type # "witness"
BY LocalType, Promotes, RepmgrAssumption

LEMMA PrimaryLasts ==
  ASSUME ClusterTypeOK, ClusterMove, LocalIsPrimary
  PROVE  LocalIsPrimary'
BY LocalType, Promotes, RepmgrAssumption DEF LocalIsPrimary

\* A standby that streams is marked, or told to follow another, only once it
\* has left.
LEMMA StreamLasts ==
  ASSUME ClusterTypeOK, ClusterMove, LocalIsPrimary, NEW n \in Nodes, Streams(n)
  PROVE  reg'[n] = reg[n]
<1>1. /\ n \in attached /\ reg[n].type = "standby" /\ reg[n].active /\ reg[n].up = Local
      /\ ~recovering /\ reg[Local].type = "primary"
      /\ reg \in [Nodes -> [type : Types, active : BOOLEAN, up : Nodes \cup {NoNode}]]
  BY DEF ClusterTypeOK, Streams, LocalIsPrimary
<1>2. ASSUME NEW m \in Nodes, Detach(m) \/ Attach(m)
      PROVE  reg'[n] = reg[n]
  BY <1>2 DEF Detach, Attach
<1>3. ASSUME NEW m \in Nodes, MarkInactive(m) \/ MarkActive(m) \/ SecondPrimary(m)
      PROVE  reg'[n] = reg[n]
  <2>1. m # n
    BY <1>1, <1>3 DEF MarkInactive, MarkActive, SecondPrimary
  <2> QED BY <1>1, <1>3, <2>1 DEF MarkInactive, MarkActive, SecondPrimary
<1>4. ASSUME NEW m \in Nodes, NEW u \in Nodes, Follow(m, u)
      PROVE  reg'[n] = reg[n]
  <2>1. m # n
    BY <1>1, <1>4 DEF Follow
  <2> QED BY <1>1, <1>4, <2>1 DEF Follow
<1>5. ~RecordPromotion /\ ~RecordRejoin
  BY <1>1 DEF RecordPromotion, RecordRejoin
<1>6. CASE Promote \/ SetNames \/ Reconfigure
  BY <1>6 DEF Promote, SetNames, Reconfigure
<1> QED BY <1>2, <1>3, <1>4, <1>5, <1>6 DEF ClusterMove

\* The file asks for synchronous standbys before there is a list of them.
LEMMA ModeLast ==
  ASSUME ClusterTypeOK, ClusterMove, mode = "other"
  PROVE  mode' = "other" \/ (~names' /\ mode' = "sync")
<1>1. ASSUME NEW n \in Nodes,
             Detach(n) \/ Attach(n) \/ MarkInactive(n) \/ MarkActive(n) \/ SecondPrimary(n)
      PROVE  mode' = mode
  BY <1>1 DEF Detach, Attach, MarkInactive, MarkActive, SecondPrimary
<1>2. ASSUME NEW n \in Nodes, NEW u \in Nodes, Follow(n, u)
      PROVE  mode' = mode
  BY <1>2 DEF Follow
<1>3. CASE Promote \/ RecordPromotion \/ RecordRejoin \/ SetNames
  BY <1>3 DEF Promote, RecordPromotion, RecordRejoin, SetNames
<1>4. CASE Reconfigure
  BY <1>4 DEF Reconfigure
<1> QED BY <1>1, <1>2, <1>3, <1>4 DEF ClusterMove

-----------------------------------------------------------------------------
(* Troubles and findings *)

LEMMA TroubleIs ==
  /\ Primaries \in Troubles <=>
       /\ home = where
       /\ \E m, n \in Nodes : m # n /\ \A x \in {m, n} : reg[x].active /\ reg[x].type = "primary"
  /\ \A n \in Nodes : Inactive(n) \in Troubles <=> home = where /\ ~reg[n].active
  /\ Mismatch \in Troubles <=>
       home = where /\ reg[Local].type = (IF recovering THEN "primary" ELSE "standby")
  /\ \A n \in Nodes : Detached(n) \in Troubles <=>
       /\ home = where /\ LocalIsPrimary /\ n \notin attached
       /\ reg[n] = [type |-> "standby", active |-> TRUE, up |-> Local]
  /\ Degraded \in Troubles <=> home = where /\ LocalIsPrimary /\ mode = "sync" /\ ~names
<1>1. \A n \in Nodes : n # NoNode
  BY RepmgrAssumption
<1>2. Local \in Nodes
  BY RepmgrAssumption
<1>3. /\ Primaries \in Findings /\ Mismatch \in Findings /\ Degraded \in Findings
      /\ \A n \in Nodes : Inactive(n) \in Findings /\ Detached(n) \in Findings
  BY <1>2 DEF Findings, Primaries, Mismatch, Degraded, Inactive, Detached
<1>4. /\ Primaries.id = "cluster.primaries" /\ Primaries.node = NoNode
      /\ Mismatch.id = "cluster.role_mismatch" /\ Mismatch.node = Local
      /\ Degraded.id = "cluster.sync_degraded" /\ Degraded.node = NoNode
      /\ \A n : Inactive(n).id = "cluster.inactive" /\ Inactive(n).node = n
      /\ \A n : Detached(n).id = "cluster.detached" /\ Detached(n).node = n
  BY DEF Primaries, Mismatch, Degraded, Inactive, Detached, Warn
<1>5. Primaries \in Troubles <=>
       /\ home = where
       /\ \E m, n \in Nodes : m # n /\ \A x \in {m, n} : reg[x].active /\ reg[x].type = "primary"
  BY <1>3, <1>4 DEF Troubles
<1>6. \A n \in Nodes : Inactive(n) \in Troubles <=> home = where /\ ~reg[n].active
  BY <1>1, <1>3, <1>4 DEF Troubles
<1>7. Mismatch \in Troubles <=>
       home = where /\ reg[Local].type = (IF recovering THEN "primary" ELSE "standby")
  BY <1>3, <1>4 DEF Troubles
<1>8. \A n \in Nodes : Detached(n) \in Troubles <=>
       /\ home = where /\ LocalIsPrimary /\ n \notin attached
       /\ reg[n] = [type |-> "standby", active |-> TRUE, up |-> Local]
  BY <1>1, <1>3, <1>4 DEF Troubles
<1>9. Degraded \in Troubles <=> home = where /\ LocalIsPrimary /\ mode = "sync" /\ ~names
  BY <1>3, <1>4 DEF Troubles
<1> QED BY <1>5, <1>6, <1>7, <1>8, <1>9

\* There are no others.
LEMMA TroubleKinds ==
  ASSUME NEW f \in Troubles
  PROVE  \/ f \in {Primaries, Mismatch, Degraded}
         \/ \E n \in Nodes : f = Inactive(n) \/ f = Detached(n)
<1>1. PICK id \in {"cluster.primaries", "cluster.inactive", "cluster.role_mismatch",
                   "cluster.detached", "cluster.sync_degraded"}, n \in Nodes \cup {NoNode} :
        f = Warn(id, n)
  BY DEF Troubles, Findings
<1>2. f.id = id /\ f.node = n
  BY <1>1 DEF Warn
<1>3. CASE id = "cluster.primaries"
  BY <1>1, <1>2, <1>3 DEF Troubles, Primaries
<1>4. CASE id = "cluster.inactive"
  BY <1>1, <1>2, <1>4 DEF Troubles, Inactive
<1>5. CASE id = "cluster.role_mismatch"
  BY <1>1, <1>2, <1>5 DEF Troubles, Mismatch
<1>6. CASE id = "cluster.detached"
  BY <1>1, <1>2, <1>6 DEF Troubles, Detached
<1>7. CASE id = "cluster.sync_degraded"
  BY <1>1, <1>2, <1>7 DEF Troubles, Degraded
<1> QED BY <1>1, <1>3, <1>4, <1>5, <1>6, <1>7

\* What is wrong is a matter of the cluster and of where one looks.
LEMMA TroublesStill ==
  ASSUME UNCHANGED cluster, UNCHANGED <<home, where>>
  PROVE  Troubles' = Troubles /\ LocalIsPrimary' = LocalIsPrimary
BY DEF Troubles, LocalIsPrimary

\* A finding of the rule is of one of its kinds.
LEMMA RaisedIs ==
  ASSUME NEW f
  PROVE  f \in Raised <=>
    /\ nodes.status = "ok"
    /\ \/ /\ f = Primaries
          /\ Cardinality({r \in nodes.rows : r.active /\ r.type = "primary"}) > 1
       \/ \E r \in nodes.rows : ~r.active /\ f = Inactive(r.node)
       \/ \E l \in LocalRows(nodes.rows) :
            \/ /\ f = Warn("cluster.role_mismatch", l.node)
               /\ ExpectedRole(l.type) \notin {"any", role}
            \/ /\ JudgedAsPrimary(l)
               /\ \/ f = Degraded /\ sync.status = "ok" /\ sync.mode = "sync" /\ ~sync.names
                  \/ \E n \in Followers(l.node) :
                       f = Detached(n) /\ downs.status = "ok" /\ n \notin downs.rows
<1>1. \A id, n, raise : f \in Flag(id, n, raise) <=> raise /\ f = Warn(id, n)
  BY DEF Flag
<1>2. f \in InList <=>
        \/ /\ f = Primaries
           /\ Cardinality({r \in nodes.rows : r.active /\ r.type = "primary"}) > 1
        \/ \E r \in nodes.rows : ~r.active /\ f = Inactive(r.node)
  <2> DEFINE two == Cardinality({r \in nodes.rows : r.active /\ r.type = "primary"}) > 1
             marked == {Warn("cluster.inactive", r.node) : r \in {x \in nodes.rows : ~x.active}}
  <2>1. InList = Flag("cluster.primaries", NoNode, two) \cup marked
    BY DEF InList
  <2>2. f \in marked <=> \E r \in nodes.rows : ~r.active /\ f = Inactive(r.node)
    BY DEF Inactive
  <2> HIDE DEF marked, two
  <2>3. f \in Flag("cluster.primaries", NoNode, two) <=> f = Primaries /\ two
    BY DEF Flag, Primaries
  <2>4. f \in InList <=>
          \/ f = Primaries /\ two
          \/ \E r \in nodes.rows : ~r.active /\ f = Inactive(r.node)
    BY <2>1, <2>2, <2>3
  <2> QED BY <2>4 DEF two
<1>3. \A l : f \in OfRole(l) <=>
        f = Warn("cluster.role_mismatch", l.node) /\ ExpectedRole(l.type) \notin {"any", role}
  BY <1>1 DEF OfRole
<1>4. \A l : f \in OfPrimary(l) <=>
        \/ f = Degraded /\ sync.status = "ok" /\ sync.mode = "sync" /\ ~sync.names
        \/ \E n \in Followers(l.node) :
             f = Detached(n) /\ downs.status = "ok" /\ n \notin downs.rows
  BY <1>1 DEF OfPrimary, Degraded, Detached, Judgeable
<1>5. f \in Raised <=>
        /\ nodes.status = "ok"
        /\ \/ f \in InList
           \/ \E l \in LocalRows(nodes.rows) :
                f \in OfRole(l) \/ (JudgedAsPrimary(l) /\ f \in OfPrimary(l))
  BY DEF Raised, Judgeable
<1> QED BY <1>2, <1>3, <1>4, <1>5

LEMMA RaisedTyped == TypeOK => Raised \subseteq Findings
<1> SUFFICES ASSUME TypeOK, NEW f \in Raised PROVE f \in Findings
  OBVIOUS
<1>1. \A r \in nodes.rows : r.node \in Nodes
  BY DEF TypeOK, NodeRows
<1>2. \A l \in LocalRows(nodes.rows) : l.node \in Nodes
  BY <1>1 DEF LocalRows
<1>3. \A m : Followers(m) \subseteq Nodes
  BY <1>1 DEF Followers
<1>4. \/ f \in {Primaries, Degraded}
      \/ \E n \in Nodes : f = Inactive(n) \/ f = Warn("cluster.role_mismatch", n) \/ f = Detached(n)
  BY <1>1, <1>2, <1>3, RaisedIs
<1> QED BY <1>4 DEF Findings, Primaries, Degraded, Inactive, Detached

-----------------------------------------------------------------------------
(* Types of a run *)

LEMMA OrderIs ==
  /\ Len(Order) = 5
  /\ Order[1] = "nodes" /\ Order[2] = "events" /\ Order[3] = "sync" /\ Order[4] = "file"
  /\ Order[5] = "downs"
BY DEF Order

LEMMA VerdictIs ==
  ASSUME NEW L, NEW u
  PROVE  VerdictOf(L, u) \in Verdicts
BY DEF VerdictOf, Verdicts

LEMMA ExitIs == \A v : ExitCode(v) \in {0, 1, 2, 3}
BY DEF ExitCode

LEMMA ClassifyIs == \A e : Classify(e) \in {"skipped", "error"}
BY DEF Classify

LEMMA FailsMeans ==
  ASSUME NEW st, Fails(st), TypeOK
  PROVE  st \in {"skipped", "error"} /\ link' \in {"up", "broken", "closed"}
BY ClassifyIs DEF Fails, TypeOK

LEMMA RowTyped ==
  ASSUME ClusterTypeOK, NEW n \in Nodes, NEW identified \in BOOLEAN
  PROVE  RowOf(n, identified) \in NodeRows
<1>1. /\ reg[n] \in [type : Types, active : BOOLEAN, up : Nodes \cup {NoNode}]
      /\ (n = Local /\ identified) \in BOOLEAN
  BY DEF ClusterTypeOK
<1> QED BY <1>1 DEF RowOf, NodeRows

LEMMA TroublesTyped == Troubles \subseteq Findings
BY DEF Troubles

LEMMA TypeInit == Init => TypeOK
<1> SUFFICES ASSUME Init PROVE TypeOK
  OBVIOUS
<1>1. ClusterTypeOK
  BY ClusterInitTyped DEF Init
<1>2. /\ {explicit, closing, skip} \subseteq BOOLEAN
      /\ home \in Databases \cup {"none"}
      /\ esrep \in {"open", "refused", "missing"}
      /\ where \in Databases /\ refused \in Databases \cup {"none"}
      /\ role \in Roles \cup {"none"} /\ link \in {"closed", "up", "broken"}
  BY DEF Init, Databases
<1>5. slots \in 0..2 /\ at \in 1..(Len(Order) + 1)
  BY OrderIs DEF Init
<1>6. phase \in {"try", "open", "identify", "collect", "report", "done"}
  BY DEF Init
<1>3. /\ nodes.status \in Statuses \cup {"none"} /\ nodes.rows \subseteq NodeRows
      /\ sync \in [status : Statuses \cup {"none", "file"}, names : BOOLEAN,
                   mode : {"sync", "other", "none"}]
      /\ downs.status \in Statuses \cup {"none"} /\ downs.rows \subseteq Nodes
  BY DEF Init, NotRead, NoSync
<1>4. /\ raised \subseteq Findings
      /\ verdict \in Verdicts \cup {"none"} /\ exit \in {0, 1, 2, 3, ExitUnavailable, Running}
      /\ held \subseteq Findings /\ touched \subseteq Findings
  BY DEF Init
<1> QED BY <1>1, <1>2, <1>3, <1>4, <1>5, <1>6 DEF TypeOK

ReadTyped ==
  /\ nodes.status \in Statuses \cup {"none"} /\ nodes.rows \subseteq NodeRows
  /\ sync \in [status : Statuses \cup {"none", "file"}, names : BOOLEAN,
               mode : {"sync", "other", "none"}]
  /\ downs.status \in Statuses \cup {"none"} /\ downs.rows \subseteq Nodes
  /\ link \in {"closed", "up", "broken"}

LEMMA OverrideTyped ==
  ASSUME NEW n, n.status \in Statuses, n.rows \subseteq NodeRows
  PROVE  Override(n).status \in Statuses /\ Override(n).rows \subseteq NodeRows
BY DEF Override, Unreadable, Statuses

LEMMA CollectTyped ==
  ASSUME TypeOK, NEW probe, Read(probe)
  PROVE  ReadTyped'
<1>0. ReadTyped
  BY DEF TypeOK, ReadTyped
<1>1. \A st : Fails(st) => st \in Statuses /\ link' \in {"up", "broken", "closed"}
  BY FailsMeans DEF Statuses
<1>2. CASE ReadNodes
  <2>1. /\ link' \in {"closed", "up", "broken"}
        /\ UNCHANGED <<sync, downs>>
    BY <1>0, <1>1, <1>2 DEF ReadNodes, ReadTyped
  <2>2. \E n : nodes' = Override(n) /\ n.status \in Statuses /\ n.rows \subseteq NodeRows
    <3>1. CASE nodes' = Override([status |-> "not_applicable", rows |-> {}])
      BY <3>1 DEF Statuses
    <3>2. ASSUME NEW identified \in BOOLEAN,
                 nodes' = Override([status |-> "ok", rows |-> {RowOf(n, identified) : n \in Nodes}])
          PROVE  \E n : nodes' = Override(n) /\ n.status \in Statuses /\ n.rows \subseteq NodeRows
      <4>1. {RowOf(n, identified) : n \in Nodes} \subseteq NodeRows
        BY RowTyped DEF TypeOK
      <4> DEFINE w == [status |-> "ok", rows |-> {RowOf(n, identified) : n \in Nodes}]
      <4>2. nodes' = Override(w) /\ w.status \in Statuses /\ w.rows \subseteq NodeRows
        BY <3>2, <4>1 DEF Statuses
      <4> QED BY <4>2
    <3>3. ASSUME NEW st \in Statuses, nodes' = Override([status |-> st, rows |-> {}])
          PROVE  \E n : nodes' = Override(n) /\ n.status \in Statuses /\ n.rows \subseteq NodeRows
      BY <3>3
    <3> QED BY <1>2, <3>1, <3>2, <3>3 DEF ReadNodes
  <2> QED BY <1>0, <2>1, <2>2, OverrideTyped DEF ReadTyped
<1>3. CASE ReadEvents
  BY <1>0, <1>1, <1>3 DEF ReadEvents, ReadTyped
<1>4. CASE ReadSync
  <2>1. UNCHANGED <<nodes, downs>> /\ link' \in {"closed", "up", "broken"}
    BY <1>0, <1>1, <1>4 DEF ReadSync, ReadTyped
  <2>2. names \in BOOLEAN /\ nodes.status \in Statuses \cup {"none"}
    BY DEF TypeOK, ClusterTypeOK
  <2>3. \/ \E st \in Statuses \cup {"none"} : sync' = [NoSync EXCEPT !.status = st]
        \/ sync' = [NoSync EXCEPT !.status = "file", !.names = names]
    BY <1>4, <2>2 DEF ReadSync, Statuses
  <2> QED BY <1>0, <2>1, <2>2, <2>3 DEF ReadTyped, NoSync, Statuses
<1>5. CASE ReadFile
  <2>1. mode \in {"sync", "other"}
    BY DEF TypeOK, ClusterTypeOK
  <2> QED BY <1>0, <1>5, <2>1 DEF ReadFile, ReadTyped, NoSync, Statuses
<1>6. CASE ReadDowns
  <2>1. attached \subseteq Nodes
    BY DEF TypeOK, ClusterTypeOK
  <2>2. link' \in {"closed", "up", "broken"} /\ UNCHANGED <<nodes, sync>>
    BY <1>0, <1>1, <1>6 DEF ReadDowns, ReadTyped
  <2>3. downs'.status \in Statuses \cup {"none"} /\ downs'.rows \subseteq Nodes
    BY <1>6, <2>1 DEF ReadDowns, Statuses
  <2> QED BY <1>0, <2>2, <2>3 DEF ReadTyped
<1> QED BY <1>2, <1>3, <1>4, <1>5, <1>6 DEF Read

LEMMA TypeNext == TypeOK /\ Stages /\ [Next]_vars => TypeOK'
<1> SUFFICES ASSUME TypeOK, Stages, [Next]_vars PROVE TypeOK'
  OBVIOUS
<1>b. explicit \in BOOLEAN /\ closing \in BOOLEAN /\ skip \in BOOLEAN /\ slots \in 0..2
  BY DEF TypeOK
<1>1. CASE Rehba
  <2>1. slots' \in 0..2 /\ esrep' \in {"open", "refused", "missing"}
    BY <1>1 DEF TypeOK, Rehba
  <2> QED BY <1>1, <2>1 DEF TypeOK, ClusterTypeOK, Rehba
<1>2. CASE Reap
  <2>0. slots' \in 0..2
    BY <1>2, <1>b DEF Reap
  <2>1. closing' \in BOOLEAN
    BY <1>2 DEF Reap
  <2> QED BY <1>2, <2>0, <2>1 DEF TypeOK, ClusterTypeOK, Reap
<1>3. CASE Move
  <2>1. ClusterTypeOK'
    BY <1>3, ClusterTyped DEF TypeOK, Move
  <2>2. held' \subseteq Findings /\ touched' \subseteq Findings
    <3>1. Troubles' \subseteq Findings
      BY DEF Troubles
    <3> QED BY <1>3, <3>1 DEF TypeOK, Move
  <2> QED BY <1>3, <2>1, <2>2 DEF TypeOK, Move
<1>4. CASE TryEsrep
  <2>0. slots' \in 0..2
    BY <1>4, <1>b, SMT DEF TryEsrep, Admits
  <2>1. closing' \in BOOLEAN /\ skip' \in BOOLEAN
    BY <1>4, <1>b, Zenon DEF TryEsrep
  <2>3. where' \in Databases /\ refused' \in Databases \cup {"none"}
    BY <1>4 DEF TryEsrep, TypeOK, Databases
  <2>2. phase' \in {"try", "open", "identify", "collect", "report", "done"}
    BY <1>4 DEF TryEsrep
  <2> QED BY <1>4, <2>0, <2>1, <2>2, <2>3 DEF TypeOK, ClusterTypeOK, TryEsrep
<1>5. CASE Open
  <2>0. slots' \in 0..2
    BY <1>5, <1>b, SMT DEF Open
  <2>1. closing' \in BOOLEAN
    BY <1>5, <1>b, Zenon DEF Open
  <2>2. /\ esrep' \in {"open", "refused", "missing"}
        /\ refused' \in Databases \cup {"none"} /\ link' \in {"closed", "up", "broken"}
        /\ exit' \in {0, 1, 2, 3, ExitUnavailable, Running}
        /\ phase' \in {"try", "open", "identify", "collect", "report", "done"}
    BY <1>5 DEF TypeOK, Open
  <2> QED BY <1>5, <2>0, <2>1, <2>2 DEF TypeOK, ClusterTypeOK, Open
<1>6. CASE Identify
  <2>1. /\ role' \in Roles \cup {"none"} /\ link' \in {"closed", "up", "broken"}
        /\ exit' \in {0, 1, 2, 3, ExitUnavailable, Running}
        /\ phase' \in {"try", "open", "identify", "collect", "report", "done"}
    BY <1>6, ExitIs DEF TypeOK, Identify, Roles
  <2>2. held' \subseteq Findings /\ touched' \subseteq Findings
    BY <1>6, TroublesTyped DEF TypeOK, Identify
  <2> QED BY <1>6, <2>1, <2>2 DEF TypeOK, ClusterTypeOK, Identify
<1>7. CASE Collect
  <2>1. ReadTyped'
    BY <1>7, CollectTyped DEF Collect
  <2>2. at' \in 1..(Len(Order) + 1)
    <3>1. at \in 1..5
      BY <1>7, OrderIs DEF Collect, Stages
    <3> QED BY <1>7, <3>1, OrderIs DEF Collect
  <2>3. phase' \in {"try", "open", "identify", "collect", "report", "done"}
    BY <1>7 DEF Collect, TypeOK
  <2> QED BY <1>7, <2>1, <2>2, <2>3 DEF TypeOK, ClusterTypeOK, Collect, ReadTyped
<1>8. CASE Report
  <2>1. /\ raised' \subseteq Findings /\ verdict' \in Verdicts \cup {"none"}
        /\ exit' \in {0, 1, 2, 3, ExitUnavailable, Running}
        /\ phase' = "done" /\ link' = "closed"
    BY <1>8, RaisedTyped, VerdictIs, ExitIs DEF Report
  <2> QED BY <1>8, <2>1 DEF TypeOK, ClusterTypeOK, Report
<1>9. CASE UNCHANGED vars
  BY <1>9 DEF TypeOK, ClusterTypeOK
<1> QED BY <1>1, <1>2, <1>3, <1>4, <1>5, <1>6, <1>7, <1>8, <1>9 DEF Next

-----------------------------------------------------------------------------
(* Before anything is read *)

\* Nothing is said before something is read.
LEMMA NothingTold ==
  nodes = NotRead /\ sync = NoSync /\ downs = NotRead /\ ~Looking =>
    Noticed /\ Rows /\ RowsTell /\ PrimaryTells /\ SyncTells /\ DownsTell /\ SyncKnown
BY DEF NotRead, NoSync, Noticed, Rows, RowsTell, PrimaryTells, AsPrimary, SyncTells, DownsTell,
       SyncKnown

LEMMA InvInit == Init => IInv
<1> SUFFICES ASSUME Init PROVE IInv
  OBVIOUS
<1>1. TypeOK
  BY TypeInit
<1>2. /\ nodes = NotRead /\ sync = NoSync /\ downs = NotRead /\ phase \in {"try", "open"}
      /\ at = 1 /\ role = "none" /\ verdict = "none" /\ exit = Running
  BY DEF Init
<1>3. Stages
  BY <1>2 DEF Stages
<1>4. Place
  BY <1>2 DEF Init, Place, NotRead
<1>5. Role
  BY <1>2, NoWitnessInit DEF Init, Role, Looking
<1>6. Noticed /\ Rows /\ RowsTell /\ PrimaryTells /\ SyncTells /\ DownsTell /\ SyncKnown
  BY <1>2, NothingTold DEF Looking
<1>7. Reporting
  BY <1>2 DEF Reporting, Reported
<1> QED BY <1>1, <1>3, <1>4, <1>5, <1>6, <1>7 DEF IInv

\* A step that neither looks at the cluster nor moves it.
LEMMA EarlyKeeps ==
  ASSUME IInv, at = 1, at' = 1, UNCHANGED <<cluster, nodes, sync, downs>>,
         TypeOK', Stages', Place', Reporting', ~Looking'
  PROVE  IInv'
<1>1. nodes' = NotRead /\ sync' = NoSync /\ downs' = NotRead
  BY DEF IInv, Stages
<1>2. (nodes = NotRead /\ sync = NoSync /\ downs = NotRead /\ ~Looking =>
         Noticed /\ Rows /\ RowsTell /\ PrimaryTells /\ SyncTells /\ DownsTell /\ SyncKnown)'
  BY NothingTold, PTL
<1>3. Role'
  BY DEF IInv, Role
<1> QED BY <1>1, <1>2, <1>3 DEF IInv

LEMMA RehbaKeeps == ASSUME IInv, Rehba PROVE IInv'
<1>1. TypeOK'
  BY TypeNext DEF IInv, Next
<1>2. at = 1 /\ phase \in {"try", "open"} /\ UNCHANGED <<cluster, program, home>>
  BY DEF Rehba, IInv, Stages
<1>3. home = "esrep" => esrep' # "missing"
  BY DEF Rehba, IInv, Place
<1>4. Stages' /\ Place' /\ Reporting' /\ ~Looking'
  BY <1>2, <1>3 DEF IInv, Stages, Place, Reporting, Reported, Looking
<1> QED BY <1>1, <1>2, <1>4, EarlyKeeps

LEMMA ReapKeeps == ASSUME IInv, Reap PROVE IInv'
<1>1. TypeOK'
  BY TypeNext DEF IInv, Next
<1>2. at = 1 /\ phase = "open" /\ UNCHANGED <<cluster, program, home, esrep>>
  BY DEF Reap, IInv, Stages
<1>4. Stages' /\ Place' /\ Reporting' /\ ~Looking'
  BY <1>2 DEF IInv, Stages, Place, Reporting, Reported, Looking
<1> QED BY <1>1, <1>2, <1>4, EarlyKeeps

LEMMA TryEsrepKeeps == ASSUME IInv, TryEsrep PROVE IInv'
<1>1. TypeOK'
  BY TypeNext DEF IInv, Next
<1>2. /\ at = 1 /\ at' = 1 /\ phase = "try" /\ phase' = "open" /\ role = "none"
      /\ verdict = "none" /\ exit = Running
      /\ UNCHANGED <<cluster, home, esrep, explicit, role, nodes, sync, downs, verdict, exit>>
  BY DEF TryEsrep, IInv, Stages
<1>3. Stages'
  BY <1>2 DEF IInv, Stages
<1>4. Place'
  <2>1. ~skip' => where' = "esrep" \/ home # "esrep"
    BY DEF TryEsrep, IInv, Place, Missing
  <2>2. nodes.status # "not_applicable"
    BY <1>2 DEF IInv, Stages, NotRead
  <2> QED BY <1>2, <2>1, <2>2 DEF IInv, Place
<1>5. Reporting' /\ ~Looking'
  BY <1>2 DEF Reporting, Reported, Looking
<1> QED BY <1>1, <1>2, <1>3, <1>4, <1>5, EarlyKeeps

LEMMA OpenKeeps == ASSUME IInv, Open PROVE IInv'
<1>1. TypeOK'
  BY TypeNext DEF IInv, Next
<1>2. /\ at = 1 /\ at' = 1 /\ phase = "open" /\ phase' \in {"identify", "done"}
      /\ role = "none" /\ verdict = "none"
      /\ phase' = "identify" => exit' = Running
      /\ phase' = "done" => exit' = ExitUnavailable
      /\ UNCHANGED <<cluster, home, explicit, where, skip, role, nodes, sync, downs, verdict>>
  BY DEF Open, IInv, Stages
<1>3. Stages'
  BY <1>2 DEF IInv, Stages
<1>4. Place'
  <2>1. home = "esrep" => esrep' # "missing"
    BY DEF Open, IInv, Place
  <2>2. nodes.status # "not_applicable"
    BY <1>2 DEF IInv, Stages, NotRead
  <2> QED BY <1>2, <2>1, <2>2 DEF IInv, Place
<1>5. Reporting' /\ ~Looking'
  BY <1>2 DEF Reporting, Reported, Looking
<1> QED BY <1>1, <1>2, <1>3, <1>4, <1>5, EarlyKeeps

LEMMA IdentifyKeeps == ASSUME IInv, Identify PROVE IInv'
<1>1. TypeOK'
  BY TypeNext DEF IInv, Next
<1>2. /\ at = 1 /\ at' = 1 /\ phase = "identify" /\ verdict = "none" /\ exit = Running
      /\ UNCHANGED <<cluster, server, explicit, where, skip, nodes, sync, downs, verdict>>
      /\ nodes = NotRead /\ sync = NoSync /\ downs = NotRead /\ role = "none"
  BY DEF Identify, IInv, Stages
<1>3. Place'
  <2>1. phase' \in {"collect", "done"}
    BY DEF Identify
  <2> QED BY <1>2, <2>1 DEF IInv, Place
<1>4. CASE phase' = "done"
  <2>1. exit' = ExitCode("UNKNOWN") /\ UNCHANGED role
    BY <1>4 DEF Identify
  <2>2. Stages'
    BY <1>2, <1>4, <2>1 DEF IInv, Stages
  <2>3. Reporting' /\ ~Looking'
    BY <1>2, <1>4, <2>1 DEF Reporting, Reported, Looking
  <2> QED BY <1>1, <1>2, <1>3, <2>2, <2>3, EarlyKeeps
<1>5. CASE phase' = "collect"
  <2>1. /\ role' = (IF recovering THEN "standby" ELSE "primary")
        /\ held' = Troubles /\ touched' = Troubles /\ UNCHANGED exit
    BY <1>5 DEF Identify
  <2>2. Stages'
    BY <1>2, <1>5, <2>1, OrderIs DEF IInv, Stages, Roles
  <2>3. Troubles' = Troubles /\ LocalIsPrimary' = LocalIsPrimary
    BY <1>2, TroublesStill
  <2>4. Role'
    <3>1. Mismatch \in Troubles => (recovering <=> role' = "standby")
      BY <2>1
    <3>2. Degraded \in Troubles \/ (\E n \in Nodes : Detached(n) \in Troubles) => ~recovering
      BY TroubleIs DEF LocalIsPrimary
    <3>3. recovering => role' = "standby"
      BY <2>1
    <3>4. ~recovering => role' = "primary"
      BY <2>1
    <3> QED BY <1>2, <1>5, <2>1, <3>1, <3>2, <3>3, <3>4 DEF IInv, Role, Looking
  <2>5. Noticed'
    BY <2>1, <2>3 DEF Noticed
  <2>6. Rows' /\ RowsTell' /\ PrimaryTells' /\ SyncTells' /\ DownsTell' /\ SyncKnown'
    BY <1>2 DEF NotRead, NoSync, Rows, RowsTell, PrimaryTells, AsPrimary, SyncTells, DownsTell,
                SyncKnown
  <2>7. Reporting'
    BY <1>5 DEF Reporting, Reported
  <2> QED BY <1>1, <1>3, <2>2, <2>4, <2>5, <2>6, <2>7 DEF IInv
<1> QED BY <1>4, <1>5 DEF Identify

-----------------------------------------------------------------------------
(* The cluster moves *)

LEMMA RowNodes == TypeOK => \A r \in nodes.rows : r.node \in Nodes
BY DEF TypeOK, NodeRows

LEMMA FollowerNodes == TypeOK => \A m : Followers(m) \subseteq Nodes
BY RowNodes DEF Followers

\* The judgement of a local node as the primary rests on what was read.
LEMMA AsPrimaryStill ==
  ASSUME UNCHANGED <<nodes, role>>
  PROVE  (AsPrimary' <=> AsPrimary) /\ \A m : Followers(m)' = Followers(m)
BY DEF AsPrimary, JudgedAsPrimary, LocalRows, Followers

LEMMA MoveKeeps == ASSUME IInv, Move PROVE IInv'
<1>1. TypeOK'
  BY TypeNext DEF IInv, Next
<1>2. /\ ClusterTypeOK /\ ClusterMove /\ UNCHANGED <<server, program>> /\ home = where
      /\ phase \in {"identify", "collect"}
  BY DEF Move, IInv, TypeOK
<1>3. Stages' /\ Place' /\ Rows' /\ SyncKnown' /\ Reporting'
  BY <1>2 DEF IInv, Stages, Place, Rows, SyncKnown, Reporting, Reported
<1>4. recovering' => reg'[Local].type # "witness"
  BY <1>2, NoWitnessMove DEF IInv, Role
<1>5. CASE phase = "identify"
  <2>1. at = 1 /\ nodes' = NotRead /\ sync' = NoSync /\ downs' = NotRead /\ ~Looking'
    BY <1>2, <1>5 DEF IInv, Stages, Looking
  <2>2. (nodes = NotRead /\ sync = NoSync /\ downs = NotRead /\ ~Looking =>
           Noticed /\ Rows /\ RowsTell /\ PrimaryTells /\ SyncTells /\ DownsTell /\ SyncKnown)'
    BY NothingTold, PTL
  <2>3. Role'
    BY <1>4, <2>1 DEF Role
  <2> QED BY <1>1, <1>3, <2>1, <2>2, <2>3 DEF IInv
<1>6. CASE phase = "collect"
  <2>1. Looking /\ Looking'
    BY <1>2, <1>6 DEF Looking
  <2>2. held' = held \cap Troubles' /\ touched' = touched \cup Troubles'
    BY <2>1 DEF Move
  <2>3. held \subseteq Troubles /\ Troubles \subseteq touched
    BY <2>1 DEF IInv, Noticed
  <2>4. Noticed'
    BY <2>2 DEF Noticed
  <2>5. AsPrimary' = AsPrimary /\ Followers(Local)' = Followers(Local)
    BY <1>2, AsPrimaryStill DEF AsPrimary
  <2>p. (TroubleIs)'
    BY TroubleIs, PTL
  <2>6. Role'
    <3>1. role = "primary" => ~recovering'
      BY <1>2, <2>1, Promotes DEF IInv, Role
    <3>2. role = "standby" /\ ~recovering' => Mismatch \in touched'
      <4> SUFFICES ASSUME role = "standby", ~recovering' PROVE Mismatch \in touched'
        OBVIOUS
      <4>1. CASE ~recovering
        BY <2>1, <2>2, <4>1 DEF IInv, Role
      <4>2. CASE recovering
        <5>1. reg' = reg
          BY <1>2, <4>2, Promotes
        <5>2. reg[Local].type \in {"primary", "standby"}
          BY <1>2, <4>2, RepmgrAssumption DEF ClusterTypeOK, Types, IInv, Role
        <5>3. CASE reg[Local].type = "primary"
          BY <1>2, <2>2, <2>3, <4>2, <5>3, TroubleIs
        <5>4. CASE reg[Local].type = "standby"
          <6>1. Mismatch \in Troubles'
            BY <1>2, <2>p, <5>1, <5>4
          <6> QED BY <2>2, <6>1
        <5> QED BY <5>2, <5>3, <5>4
      <4> QED BY <4>1, <4>2
    <3>3. Mismatch \in held' => (recovering' <=> role = "standby")
      <4> SUFFICES ASSUME Mismatch \in held' PROVE recovering' <=> role = "standby"
        OBVIOUS
      <4>1. recovering <=> role = "standby"
        BY <2>1, <2>2 DEF IInv, Role
      <4>2. Mismatch \in Troubles /\ Mismatch \in Troubles'
        BY <2>2, <2>3
      <4>3. recovering => recovering'
        <5> SUFFICES ASSUME recovering, ~recovering' PROVE FALSE
          OBVIOUS
        <5>1. reg' = reg
          BY <1>2, Promotes
        <5>2. reg[Local].type = "primary"
          BY <4>2, TroubleIs
        <5>3. reg'[Local].type = "standby"
          BY <2>p, <4>2
        <5> QED BY <5>1, <5>2, <5>3
      <4> QED BY <1>2, <4>1, <4>3, Promotes
    <3>4. (Degraded \in held' \/ \E n \in Nodes : Detached(n) \in held') => role = "primary"
      BY <2>1, <2>2 DEF IInv, Role
    <3> QED BY <1>2, <1>4, <3>1, <3>2, <3>3, <3>4 DEF Role
  <2>7. RowsTell'
    BY <1>2, <2>2, Zenon DEF IInv, RowsTell, LocalRows
  <2>8. PrimaryTells'
    <3> SUFFICES ASSUME AsPrimary
                 PROVE  /\ LocalIsPrimary'
                        /\ at <= 5 => \A n \in Followers(Local) :
                             Detached(n) \in touched' \/ Streams(n)'
                        /\ at > 5 /\ downs.status = "ok" =>
                             \A n \in Followers(Local) :
                               n \notin downs.rows => Detached(n) \in touched'
      BY <1>2, <2>5 DEF PrimaryTells
    <3>1. LocalIsPrimary /\ LocalIsPrimary'
      BY <1>2, <2>1, PrimaryLasts DEF IInv, PrimaryTells
    <3>2. ASSUME at <= 5, NEW n \in Followers(Local)
          PROVE  Detached(n) \in touched' \/ Streams(n)'
      <4>1. Detached(n) \in touched \/ Streams(n)
        BY <2>1, <3>2 DEF IInv, PrimaryTells
      <4>2. n \in Nodes
        BY FollowerNodes DEF IInv
      <4>3. CASE Streams(n)
        <5>1. reg'[n] = reg[n]
          BY <1>2, <3>1, <4>2, <4>3, StreamLasts
        <5>2. reg'[n] = [type |-> "standby", active |-> TRUE, up |-> Local]
          BY <4>3, <5>1 DEF Streams
        <5>3. n \notin attached' => Detached(n) \in Troubles'
          BY <1>2, <2>p, <3>1, <4>2, <5>2
        <5> QED BY <2>2, <5>2, <5>3 DEF Streams
      <4> QED BY <2>2, <4>1, <4>3
    <3>3. ASSUME at > 5, downs.status = "ok", NEW n \in Followers(Local), n \notin downs.rows
          PROVE  Detached(n) \in touched'
      BY <2>2, <3>3 DEF IInv, PrimaryTells
    <3> QED BY <3>1, <3>2, <3>3
  <2>9. SyncTells'
    <3>1. sync.status = "file" /\ AsPrimary /\ ~sync.names =>
            Degraded \in touched' \/ mode' = "other"
      <4> SUFFICES ASSUME sync.status = "file", AsPrimary, ~sync.names
                   PROVE  Degraded \in touched' \/ mode' = "other"
        OBVIOUS
      <4>1. Degraded \in touched \/ mode = "other"
        BY <2>1 DEF IInv, SyncTells
      <4>2. CASE mode = "other" /\ ~names' /\ mode' = "sync"
        <5>1. LocalIsPrimary'
          BY <1>2, <2>1, PrimaryLasts DEF IInv, PrimaryTells
        <5>2. Degraded \in Troubles'
          BY <1>2, <2>p, <4>2, <5>1
        <5> QED BY <2>2, <5>2
      <4> QED BY <1>2, <2>2, <4>1, <4>2, ModeLast
    <3>2. /\ sync.status = "ok" /\ AsPrimary /\ ~sync.names /\ sync.mode = "sync" =>
               Degraded \in touched'
          /\ sync.status \in {"file", "ok"} /\ Degraded \in held' => ~sync.names
          /\ sync.status = "ok" /\ Degraded \in held' => sync.mode = "sync"
      BY <2>2 DEF IInv, SyncTells
    <3> QED BY <1>2, <2>5, <3>1, <3>2 DEF SyncTells
  <2>10. DownsTell'
    BY <1>2, <2>2 DEF IInv, DownsTell
  <2> QED BY <1>1, <1>3, <2>4, <2>6, <2>7, <2>8, <2>9, <2>10 DEF IInv
<1> QED BY <1>2, <1>5, <1>6

-----------------------------------------------------------------------------
(* The reads *)

\* The probes are read at their places in the order.
LEMMA ReadAt ==
  ASSUME TypeOK, Stages, Collect
  PROVE  /\ at \in 1..5 /\ at' = at + 1
         /\ at = 1 => ReadNodes
         /\ at = 2 => ReadEvents
         /\ at = 3 => ReadSync
         /\ at = 4 => ReadFile
         /\ at = 5 => ReadDowns
         /\ phase = "collect" /\ Looking /\ Looking'
         /\ phase' = IF at = 5 THEN "report" ELSE "collect"
         /\ UNCHANGED <<cluster, server, explicit, where, skip, refused, role, raised, verdict,
                        exit, history>>
         /\ Troubles' = Troubles /\ LocalIsPrimary' = LocalIsPrimary
<1>1. at \in 1..5 /\ phase = "collect" /\ at' = at + 1 /\ Read(Order[at])
  BY OrderIs DEF Collect, Stages
<1>2. /\ phase' = IF at = 5 THEN "report" ELSE "collect"
      /\ UNCHANGED <<cluster, server, explicit, where, skip, refused, role, raised, verdict,
                     exit, history>>
  BY OrderIs DEF Collect
<1>3. Troubles' = Troubles /\ LocalIsPrimary' = LocalIsPrimary
  BY <1>2, TroublesStill
<1>4. Looking /\ Looking'
  BY <1>1, <1>2 DEF Looking
<1>5. /\ at = 1 => ReadNodes
      /\ at = 2 => ReadEvents
      /\ at = 3 => ReadSync
      /\ at = 4 => ReadFile
      /\ at = 5 => ReadDowns
  BY <1>1, OrderIs DEF Read
<1> QED BY <1>1, <1>2, <1>3, <1>4, <1>5

\* What a read of one probe leaves as it was.
LEMMA ReadLeaves ==
  ASSUME IInv, Collect
  PROVE  TypeOK' /\ Role' /\ Noticed' /\ Reporting'
<1>1. TypeOK'
  BY TypeNext DEF IInv, Next
<1>2. Role'
  BY ReadAt DEF IInv, Role
<1>3. Noticed'
  BY ReadAt DEF IInv, Noticed
<1>4. Reporting'
  BY ReadAt DEF IInv, Reporting, Reported
<1> QED BY <1>1, <1>2, <1>3, <1>4

\* The rows, if they were read.
LEMMA NodesRead ==
  ASSUME ReadNodes, nodes'.status = "ok"
  PROVE  /\ home = where
         /\ \E identified \in BOOLEAN : nodes'.rows = {RowOf(n, identified) : n \in Nodes}
<1>1. \A n : Override(n).status = "ok" => Override(n) = n
  BY DEF Override, Unreadable
<1>2. ~\E st \in Statuses : Fails(st) /\ nodes' = Override([status |-> st, rows |-> {}])
  <2> SUFFICES ASSUME NEW st \in Statuses, Fails(st),
                      nodes' = Override([status |-> st, rows |-> {}])
               PROVE  FALSE
    OBVIOUS
  <2>1. st # "ok"
    BY ClassifyIs DEF Fails
  <2> QED BY <1>1, <2>1
<1>3. nodes' # Override([status |-> "not_applicable", rows |-> {}])
  BY <1>1
<1>4. /\ home = where
      /\ \E identified \in BOOLEAN :
           nodes' = Override([status |-> "ok", rows |-> {RowOf(n, identified) : n \in Nodes}])
  BY <1>2, <1>3 DEF ReadNodes
<1>5. PICK identified \in BOOLEAN :
        nodes' = Override([status |-> "ok", rows |-> {RowOf(n, identified) : n \in Nodes}])
  BY <1>4
<1>6. nodes' = [status |-> "ok", rows |-> {RowOf(n, identified) : n \in Nodes}]
  BY <1>1, <1>5
<1> QED BY <1>4, <1>6

LEMMA NodesHidden ==
  ASSUME ReadNodes
  PROVE  /\ nodes'.status \in Statuses
         /\ nodes'.status = "not_applicable" => ~skip /\ ~explicit /\ home # where
<1>1. \A n : /\ n.status \in Statuses => Override(n).status \in Statuses
             /\ Override(n).status = "not_applicable" =>
                  ~skip /\ ~explicit /\ n.status = "not_applicable"
  BY DEF Override, Unreadable, Statuses
<1>2. CASE home # where /\ nodes' = Override([status |-> "not_applicable", rows |-> {}])
  BY <1>1, <1>2 DEF Statuses
<1>3. ASSUME NEW identified \in BOOLEAN,
             nodes' = Override([status |-> "ok", rows |-> {RowOf(n, identified) : n \in Nodes}])
      PROVE  nodes'.status \in Statuses /\ nodes'.status # "not_applicable"
  BY <1>1, <1>3 DEF Statuses
<1>4. ASSUME NEW st \in Statuses, Fails(st), nodes' = Override([status |-> st, rows |-> {}])
      PROVE  nodes'.status \in Statuses /\ nodes'.status # "not_applicable"
  BY <1>1, <1>4, ClassifyIs DEF Fails
<1> QED BY <1>2, <1>3, <1>4 DEF ReadNodes

\* What the rows say of each node, and of two of them.
LEMMA RowsAre ==
  ASSUME NEW identified \in BOOLEAN, nodes'.rows = {RowOf(n, identified) : n \in Nodes}
  PROVE  /\ \A n \in Nodes : RowOf(n, identified) \in nodes'.rows
         /\ \A r \in nodes'.rows :
              /\ r.node \in Nodes /\ r = RowOf(r.node, identified)
              /\ r.type = reg[r.node].type /\ r.active = reg[r.node].active
              /\ r.up = reg[r.node].up /\ (r.local => r.node = Local)
<1>1. \A n : /\ RowOf(n, identified).node = n /\ RowOf(n, identified).type = reg[n].type
             /\ RowOf(n, identified).active = reg[n].active
             /\ RowOf(n, identified).up = reg[n].up
             /\ (RowOf(n, identified).local => n = Local)
  BY DEF RowOf
<1> QED BY <1>1

LEMMA ReadNodesKeeps == ASSUME IInv, Collect, at = 1 PROVE IInv'
<1>1. /\ ReadNodes /\ at' = 2 /\ phase' = "collect" /\ phase = "collect" /\ Looking /\ Looking'
      /\ UNCHANGED <<cluster, server, explicit, where, skip, refused, role, raised, verdict,
                     exit, history>>
      /\ Troubles' = Troubles /\ LocalIsPrimary' = LocalIsPrimary
  BY ReadAt DEF IInv
<1>2. UNCHANGED <<sync, downs>> /\ sync = NoSync /\ downs = NotRead
  BY <1>1 DEF ReadNodes, IInv, Stages
<1>3. Stages'
  BY <1>1, <1>2, NodesHidden, OrderIs DEF IInv, Stages
<1>4. Place'
  BY <1>1, NodesHidden DEF IInv, Place
<1>5. SyncTells' /\ DownsTell' /\ SyncKnown'
  BY <1>1, <1>2 DEF SyncTells, DownsTell, SyncKnown, NoSync, NotRead
<1>6. CASE nodes'.status # "ok"
  BY <1>3, <1>4, <1>5, <1>6, ReadLeaves DEF IInv, Rows, RowsTell, PrimaryTells, AsPrimary
<1>7. CASE nodes'.status = "ok"
  <2>1. PICK identified \in BOOLEAN : nodes'.rows = {RowOf(n, identified) : n \in Nodes}
    BY <1>1, <1>7, NodesRead
  <2>2. /\ \A n \in Nodes : RowOf(n, identified) \in nodes'.rows
        /\ \A r \in nodes'.rows :
             /\ r.node \in Nodes /\ r = RowOf(r.node, identified)
             /\ r.type = reg[r.node].type /\ r.active = reg[r.node].active
             /\ r.up = reg[r.node].up /\ (r.local => r.node = Local)
    BY <2>1, RowsAre
  <2>3. home = where
    BY <1>1, <1>7, NodesRead
  <2>4. held' = held /\ touched' = touched /\ held \subseteq Troubles /\ Troubles \subseteq touched
    BY <1>1 DEF IInv, Noticed
  <2>5. Rows'
    <3>1. \A n \in Nodes : \E r \in nodes'.rows : r.node = n
      BY <2>2 DEF RowOf
    <3>2. \A r, s \in nodes'.rows : r.node = s.node => r = s
      BY <2>2
    <3> QED BY <1>1, <2>2, <2>3, <3>1, <3>2 DEF Rows
  <2>r. role \in Roles /\ role' = role
    BY <1>1 DEF IInv, Stages
  <2>6. RowsTell'
    <3>1. \A r \in nodes'.rows : ~r.active => Inactive(r.node) \in touched
      BY <2>2, <2>3, <2>4, TroubleIs
    <3>2. \A r \in nodes'.rows : Inactive(r.node) \in held => ~r.active
      BY <2>2, <2>4, TroubleIs
    <3>3. \A r, s \in nodes'.rows :
            r # s /\ r.active /\ r.type = "primary" /\ s.active /\ s.type = "primary" =>
              Primaries \in touched
      <4> SUFFICES ASSUME NEW r \in nodes'.rows, NEW s \in nodes'.rows, r # s,
                          r.active, r.type = "primary", s.active, s.type = "primary"
                   PROVE  Primaries \in Troubles
        BY <2>4
      <4>1. r.node # s.node /\ r.node \in Nodes /\ s.node \in Nodes
        BY <2>2
      <4>2. \A x \in {r.node, s.node} : reg[x].active /\ reg[x].type = "primary"
        BY <2>2
      <4> QED BY <2>3, <4>1, <4>2, TroubleIs
    <3>4. Primaries \in held =>
            \E r, s \in nodes'.rows :
              r # s /\ r.active /\ r.type = "primary" /\ s.active /\ s.type = "primary"
      <4> SUFFICES ASSUME Primaries \in Troubles
                   PROVE  \E r, s \in nodes'.rows :
                            r # s /\ r.active /\ r.type = "primary" /\ s.active /\ s.type = "primary"
        BY <2>4
      <4>1. PICK m, n \in Nodes : m # n /\ \A x \in {m, n} : reg[x].active /\ reg[x].type = "primary"
        BY TroubleIs
      <4> DEFINE r == RowOf(m, identified)
                 s == RowOf(n, identified)
      <4>2. r \in nodes'.rows /\ s \in nodes'.rows
        BY <2>2
      <4>3. r.node = m /\ s.node = n /\ r.active /\ r.type = "primary" /\ s.active
            /\ s.type = "primary"
        BY <4>1 DEF RowOf
      <4> QED BY <4>1, <4>2, <4>3
    <3>5. \A l \in LocalRows(nodes'.rows) : ExpectedRole(l.type) \notin {"any", role} =>
            Mismatch \in touched
      <4> SUFFICES ASSUME NEW l \in nodes'.rows, l.local,
                          ExpectedRole(l.type) \notin {"any", role}
                   PROVE  Mismatch \in touched
        BY DEF LocalRows
      <4>1. reg[Local].type \in Roles \ {role}
        BY <2>2 DEF ExpectedRole
      <4>2. CASE role = "primary"
        BY <1>1, <2>3, <2>4, <4>1, <4>2, TroubleIs DEF Roles, IInv, Role
      <4>3. CASE role = "standby"
        <5>1. CASE recovering
          BY <2>3, <2>4, <4>1, <4>3, <5>1, TroubleIs DEF Roles
        <5>2. CASE ~recovering
          BY <1>1, <4>3, <5>2 DEF IInv, Role
        <5> QED BY <5>1, <5>2
      <4> QED BY <2>r, <4>2, <4>3 DEF Roles
    <3>6. Mismatch \in held =>
            \A r \in nodes'.rows : r.node = Local =>
              r.type = (IF role = "standby" THEN "primary" ELSE "standby")
      BY <1>1, <2>2, <2>4, TroubleIs DEF IInv, Role
    <3>7. \A n \in Nodes : Detached(n) \in held =>
            /\ \A r \in nodes'.rows : r.node = Local => r.type = "primary"
            /\ \A r \in nodes'.rows : r.node = n => r.active /\ r.type = "standby" /\ r.up = Local
      BY <2>2, <2>4, TroubleIs DEF LocalIsPrimary
    <3>8. Degraded \in held => \A r \in nodes'.rows : r.node = Local => r.type = "primary"
      BY <2>2, <2>4, TroubleIs DEF LocalIsPrimary
    <3> QED BY <2>4, <2>r, <3>1, <3>2, <3>3, <3>4, <3>5, <3>6, <3>7, <3>8, Zenon DEF RowsTell
  <2>7. PrimaryTells'
    <3> SUFFICES ASSUME AsPrimary'
                 PROVE  /\ LocalIsPrimary'
                        /\ \A n \in Followers(Local)' : Detached(n) \in touched' \/ Streams(n)'
      BY <1>1 DEF PrimaryTells
    <3>1. PICK l \in nodes'.rows : l.local /\ role = "primary" /\ l.type = "primary"
      BY <2>r DEF AsPrimary, JudgedAsPrimary, LocalRows
    <3>2. LocalIsPrimary
      BY <1>1, <2>2, <3>1 DEF IInv, Role, LocalIsPrimary
    <3>3. ASSUME NEW n \in Followers(Local)' PROVE Detached(n) \in touched' \/ Streams(n)'
      <4>1. PICK r \in nodes'.rows :
              r.node = n /\ r.active /\ r.type = "standby" /\ r.up = Local
        BY DEF Followers
      <4>2. n \in Nodes /\ reg[n].active /\ reg[n].type = "standby" /\ reg[n].up = Local
        BY <2>2, <4>1
      <4>3. reg[n] \in [type : Types, active : BOOLEAN, up : Nodes \cup {NoNode}]
        BY <4>2 DEF IInv, TypeOK, ClusterTypeOK
      <4>4. reg[n] = [type |-> "standby", active |-> TRUE, up |-> Local]
        BY <4>2, <4>3
      <4> QED BY <1>1, <2>3, <2>4, <3>2, <4>2, <4>4, TroubleIs DEF Streams
    <3> QED BY <1>1, <3>2, <3>3
  <2> QED BY <1>3, <1>4, <1>5, <2>5, <2>6, <2>7, ReadLeaves DEF IInv
<1> QED BY <1>6, <1>7

\* What was read stays read while another probe is.
LEMMA RowsStay ==
  ASSUME IInv, Collect, UNCHANGED nodes
  PROVE  /\ Rows' /\ RowsTell' /\ (AsPrimary' <=> AsPrimary)
         /\ \A m : Followers(m)' = Followers(m)
<1>1. UNCHANGED <<home, where, role, held, touched>>
  BY ReadAt DEF IInv
<1> QED BY <1>1, AsPrimaryStill DEF IInv, Rows, RowsTell, LocalRows

\* A node judged as the primary still is one, and its standbys stream or have
\* been seen not to.
LEMMA PrimaryStays ==
  ASSUME IInv, Collect, UNCHANGED nodes, at < 5
  PROVE  PrimaryTells'
<1>1. /\ at' = at + 1 /\ at \in 1..4 /\ Looking
      /\ UNCHANGED <<cluster, touched>> /\ LocalIsPrimary' = LocalIsPrimary
  BY ReadAt DEF IInv
<1>2. (AsPrimary' <=> AsPrimary) /\ \A m : Followers(m)' = Followers(m)
  BY RowsStay
<1>3. at <= 5 /\ ~(at' > 5)
  BY <1>1
<1>4. AsPrimary =>
        LocalIsPrimary /\ \A n \in Followers(Local) : Detached(n) \in touched \/ Streams(n)
  BY <1>1, <1>3 DEF IInv, PrimaryTells
<1>5. \A n : Streams(n)' <=> Streams(n)
  BY <1>1 DEF Streams
<1>6. AsPrimary' =>
        /\ LocalIsPrimary'
        /\ \A n \in Followers(Local)' : Detached(n) \in touched' \/ Streams(n)'
  BY <1>1, <1>2, <1>4, <1>5
<1> QED BY <1>3, <1>6 DEF PrimaryTells

LEMMA ReadEventsKeeps == ASSUME IInv, Collect, at = 2 PROVE IInv'
<1>1. /\ at' = 3 /\ phase' = "collect" /\ UNCHANGED <<nodes, sync, downs>> /\ Looking
      /\ UNCHANGED <<cluster, server, explicit, where, skip, refused, role, raised, verdict,
                     exit, history>>
  BY ReadAt DEF IInv, ReadEvents
<1>2. Stages'
  BY <1>1, OrderIs, ReadAt DEF IInv, Stages
<1>3. Place' /\ SyncKnown' /\ DownsTell'
  BY <1>1, ReadAt DEF IInv, Place, SyncKnown, DownsTell
<1>4. SyncTells'
  BY <1>1, RowsStay DEF IInv, SyncTells
<1> QED BY <1>1, <1>2, <1>3, <1>4, ReadLeaves, RowsStay, PrimaryStays DEF IInv

\* The list of synchronous standbys, if it was read.
LEMMA SyncRead ==
  ASSUME IInv, ReadSync, nodes.status # "none"
  PROVE  /\ UNCHANGED <<nodes, downs>>
         /\ sync'.status \in {"skipped", "error", "not_applicable", "file"}
         /\ sync'.status = "file" => nodes.status = "ok" /\ sync'.names = names
         /\ nodes.status = "ok" /\ role = "primary" => sync'.status # "not_applicable"
<1>1. UNCHANGED <<nodes, downs>>
  BY DEF ReadSync
<1>2. nodes.status \in Statuses
  BY DEF IInv, TypeOK
<1>3. CASE nodes.status # "ok" /\ sync' = [NoSync EXCEPT !.status = nodes.status]
  BY <1>1, <1>2, <1>3 DEF NoSync, Statuses
<1>4. CASE nodes.status = "ok" /\ role # "primary"
           /\ sync' = [NoSync EXCEPT !.status = "not_applicable"]
  BY <1>1, <1>4 DEF NoSync
<1>5. CASE nodes.status = "ok" /\ sync' = [NoSync EXCEPT !.status = "skipped"]
  BY <1>1, <1>5 DEF NoSync
<1>6. CASE nodes.status = "ok" /\ sync' = [NoSync EXCEPT !.status = "file", !.names = names]
  BY <1>1, <1>6 DEF NoSync
<1>7. ASSUME NEW st, Fails(st), nodes.status = "ok", sync' = [NoSync EXCEPT !.status = st]
      PROVE  sync'.status \in {"skipped", "error"}
  BY <1>7, FailsMeans DEF NoSync, IInv
<1> QED BY <1>1, <1>3, <1>4, <1>5, <1>6, <1>7 DEF ReadSync

LEMMA ReadSyncKeeps == ASSUME IInv, Collect, at = 3 PROVE IInv'
<1>1. /\ at' = 4 /\ phase' = "collect" /\ ReadSync /\ Looking /\ phase = "collect"
      /\ UNCHANGED <<cluster, server, explicit, where, skip, refused, role, raised, verdict,
                     exit, history>>
  BY ReadAt DEF IInv
<1>2. /\ UNCHANGED <<nodes, downs>>
      /\ sync'.status \in {"skipped", "error", "not_applicable", "file"}
      /\ sync'.status = "file" => nodes.status = "ok" /\ sync'.names = names
      /\ nodes.status = "ok" /\ role = "primary" => sync'.status # "not_applicable"
  <2>1. nodes.status # "none"
    BY <1>1 DEF IInv, Stages, Statuses
  <2> QED BY <1>1, <2>1, SyncRead
<1>3. Stages'
  BY <1>1, <1>2, OrderIs DEF IInv, Stages, Statuses
<1>4. Place' /\ SyncKnown' /\ DownsTell'
  BY <1>1, <1>2 DEF IInv, Place, SyncKnown, DownsTell
<1>5. SyncTells'
  <2>1. mode \in {"sync", "other"}
    BY DEF IInv, TypeOK, ClusterTypeOK
  <2>2. AsPrimary => LocalIsPrimary /\ home = where
    BY <1>1 DEF IInv, PrimaryTells, AsPrimary, Rows
  <2>3. AsPrimary /\ ~names => Degraded \in touched \/ mode = "other"
    BY <1>1, <2>1, <2>2, TroubleIs DEF IInv, Noticed
  <2>4. Degraded \in held => ~names
    BY <1>1, TroubleIs DEF IInv, Noticed
  <2> QED BY <1>1, <1>2, <2>3, <2>4, RowsStay DEF SyncTells
<1> QED BY <1>1, <1>2, <1>3, <1>4, <1>5, ReadLeaves, RowsStay, PrimaryStays DEF IInv

LEMMA ReadFileKeeps == ASSUME IInv, Collect, at = 4 PROVE IInv'
<1>1. /\ at' = 5 /\ phase' = "collect" /\ ReadFile /\ Looking /\ phase = "collect"
      /\ UNCHANGED <<cluster, server, explicit, where, skip, refused, role, raised, verdict,
                     exit, history>>
      /\ UNCHANGED <<nodes, downs>>
  BY ReadAt DEF IInv, ReadFile
<1>2. \/ sync.status # "file" /\ sync' = sync
      \/ sync.status = "file" /\ sync' = [sync EXCEPT !.status = "ok", !.mode = mode]
      \/ sync.status = "file" /\ sync'.status = "skipped"
  BY <1>1 DEF ReadFile, NoSync
<1>3. \/ sync.status # "file" /\ sync' = sync
      \/ /\ sync.status = "file" /\ sync'.status = "ok" /\ sync'.mode = mode
         /\ sync'.names = sync.names
      \/ sync.status = "file" /\ sync'.status = "skipped"
  BY <1>2 DEF IInv, TypeOK
<1>4. Stages'
  <2>1. sync'.status \in Statuses
    BY <1>1, <1>3 DEF IInv, Stages, Statuses
  <2> QED BY <1>1, <2>1, OrderIs DEF IInv, Stages
<1>5. Place' /\ SyncKnown' /\ DownsTell'
  BY <1>1, <1>3 DEF IInv, Place, SyncKnown, DownsTell
<1>6. SyncTells'
  <2>1. Degraded \in held => mode = "sync"
    BY <1>1, TroubleIs DEF IInv, Noticed
  <2>2. CASE sync.status # "file"
    BY <1>1, <1>3, <2>2, RowsStay DEF IInv, SyncTells
  <2>3. CASE sync.status = "file"
    BY <1>1, <1>3, <2>1, <2>3, RowsStay DEF IInv, SyncTells
  <2> QED BY <2>2, <2>3
<1> QED BY <1>1, <1>4, <1>5, <1>6, ReadLeaves, RowsStay, PrimaryStays DEF IInv

LEMMA ReadDownsKeeps == ASSUME IInv, Collect, at = 5 PROVE IInv'
<1>1. /\ at' = 6 /\ phase' = "report" /\ ReadDowns /\ Looking /\ phase = "collect"
      /\ UNCHANGED <<cluster, server, explicit, where, skip, refused, role, raised, verdict,
                     exit, history>>
      /\ UNCHANGED <<nodes, sync>> /\ LocalIsPrimary' = LocalIsPrimary
  BY ReadAt DEF IInv, ReadDowns
<1>2. /\ downs'.status \in {"ok", "skipped", "error"}
      /\ downs'.status = "ok" => downs'.rows = attached
  BY <1>1, FailsMeans DEF ReadDowns, IInv
<1>3. Stages'
  BY <1>1, <1>2, OrderIs DEF IInv, Stages
<1>4. Place' /\ SyncKnown'
  BY <1>1 DEF IInv, Place, SyncKnown
<1>5. SyncTells'
  BY <1>1, RowsStay DEF IInv, SyncTells, Looking
<1>6. PrimaryTells'
  <2>1. (AsPrimary' <=> AsPrimary) /\ \A m : Followers(m)' = Followers(m)
    BY <1>1, RowsStay
  <2>2. AsPrimary => LocalIsPrimary
    BY <1>1 DEF IInv, PrimaryTells
  <2>3. AsPrimary => \A n \in Followers(Local) : Detached(n) \in touched \/ Streams(n)
    BY <1>1 DEF IInv, PrimaryTells
  <2>4. AsPrimary /\ downs'.status = "ok" =>
          \A n \in Followers(Local) : n \notin downs'.rows => Detached(n) \in touched
    BY <1>2, <2>3 DEF Streams
  <2>5. AsPrimary' =>
          /\ LocalIsPrimary'
          /\ downs'.status = "ok" =>
               \A n \in Followers(Local)' : n \notin downs'.rows => Detached(n) \in touched'
    BY <1>1, <2>1, <2>2, <2>4
  <2>6. ~(at' <= 5)
    BY <1>1
  <2> SUFFICES ASSUME AsPrimary'
               PROVE  /\ LocalIsPrimary'
                      /\ downs'.status = "ok" =>
                           \A n \in Followers(Local)' : n \notin downs'.rows => Detached(n) \in touched'
    BY <2>6 DEF PrimaryTells
  <2> QED BY <2>5
<1>7. DownsTell'
  <2>1. \A n \in Nodes : Detached(n) \in held => n \notin attached
    BY <1>1, TroubleIs DEF IInv, Noticed
  <2> QED BY <1>1, <1>2, <2>1 DEF DownsTell
<1> QED BY <1>1, <1>3, <1>4, <1>5, <1>6, <1>7, ReadLeaves, RowsStay DEF IInv

-----------------------------------------------------------------------------
(* The report *)

\* Rows of an identified node are rows of this node.
LEMMA LocalRow ==
  ASSUME IInv, nodes.status = "ok", NEW l \in LocalRows(nodes.rows)
  PROVE  l \in nodes.rows /\ l.local /\ l.node = Local
BY DEF LocalRows, IInv, Rows

\* The rows are as many as the nodes, so they can be counted.
LEMMA RowsFinite ==
  ASSUME IInv, nodes.status = "ok"
  PROVE  IsFiniteSet(nodes.rows)
<1> DEFINE f == [n \in Nodes |-> CHOOSE r \in nodes.rows : r.node = n]
<1>1. /\ \A n \in Nodes : \E r \in nodes.rows : r.node = n
      /\ \A r, s \in nodes.rows : r.node = s.node => r = s
      /\ \A r \in nodes.rows : r.node \in Nodes
  BY RowNodes DEF IInv, Rows
<1>2. \A n \in Nodes : f[n] \in nodes.rows /\ f[n].node = n
  BY <1>1
<1>3. \A r \in nodes.rows : \E n \in Nodes : f[n] = r
  BY <1>1, <1>2
<1>4. f \in Surjection(Nodes, nodes.rows)
  <2>1. f \in [Nodes -> nodes.rows]
    BY <1>2
  <2> QED BY <2>1, <1>3 DEF Surjection
<1>5. IsFiniteSet(Nodes)
  BY RepmgrAssumption
<1> QED BY <1>4, <1>5, FS_Surjection

LEMMA TwoOf ==
  ASSUME NEW S, IsFiniteSet(S)
  PROVE  Cardinality(S) > 1 <=> \E r, s \in S : r # s
<1>1. ASSUME Cardinality(S) > 1 PROVE \E r, s \in S : r # s
  <2>1. S # {}
    BY <1>1, FS_EmptySet
  <2>2. PICK r \in S : TRUE
    BY <2>1
  <2>3. S # {r}
    BY <1>1, FS_Singleton
  <2> QED BY <2>2, <2>3
<1>2. ASSUME NEW r \in S, NEW s \in S, r # s PROVE Cardinality(S) > 1
  <2>1. Cardinality({r, s}) = 2
    <3>1. IsFiniteSet({r}) /\ Cardinality({r}) = 1
      BY FS_Singleton
    <3>2. Cardinality({r} \cup {s}) = Cardinality({r}) + 1
      BY <1>2, <3>1, FS_AddElement
    <3>3. {r, s} = {r} \cup {s}
      OBVIOUS
    <3> QED BY <3>1, <3>2, <3>3
  <2>2. {r, s} \subseteq S
    OBVIOUS
  <2>3. Cardinality({r, s}) <= Cardinality(S) /\ Cardinality(S) \in Nat
    BY <2>2, FS_Subset, FS_CardinalityType
  <2> QED BY <2>1, <2>3
<1> QED BY <1>1, <1>2

LEMMA TwoPrimaries ==
  ASSUME IInv, nodes.status = "ok"
  PROVE  Cardinality({r \in nodes.rows : r.active /\ r.type = "primary"}) > 1 <=>
           \E r, s \in nodes.rows :
             r # s /\ r.active /\ r.type = "primary" /\ s.active /\ s.type = "primary"
<1> DEFINE S == {r \in nodes.rows : r.active /\ r.type = "primary"}
<1>1. IsFiniteSet(S)
  BY RowsFinite, FS_Subset
<1>2. Cardinality(S) > 1 <=> \E r, s \in S : r # s
  <2> HIDE DEF S
  <2> QED BY <1>1, TwoOf
<1> QED BY <1>2

\* Whatever the rule finds has shown at some moment of the run.
LEMMA Accuses == ASSUME IInv, at = 6 PROVE Raised \subseteq touched
<1> SUFFICES ASSUME NEW f \in Raised PROVE f \in touched
  OBVIOUS
<1>1. /\ nodes.status = "ok"
      /\ \/ /\ f = Primaries
            /\ Cardinality({r \in nodes.rows : r.active /\ r.type = "primary"}) > 1
         \/ \E r \in nodes.rows : ~r.active /\ f = Inactive(r.node)
         \/ \E l \in LocalRows(nodes.rows) :
              \/ /\ f = Warn("cluster.role_mismatch", l.node)
                 /\ ExpectedRole(l.type) \notin {"any", role}
              \/ /\ JudgedAsPrimary(l)
                 /\ \/ f = Degraded /\ sync.status = "ok" /\ sync.mode = "sync" /\ ~sync.names
                    \/ \E n \in Followers(l.node) :
                         f = Detached(n) /\ downs.status = "ok" /\ n \notin downs.rows
  BY RaisedIs
<1>2. CASE f = Primaries
           /\ Cardinality({r \in nodes.rows : r.active /\ r.type = "primary"}) > 1
  BY <1>1, <1>2, TwoPrimaries DEF IInv, RowsTell
<1>3. CASE \E r \in nodes.rows : ~r.active /\ f = Inactive(r.node)
  BY <1>1, <1>3 DEF IInv, RowsTell
<1>4. ASSUME NEW l \in LocalRows(nodes.rows), f = Warn("cluster.role_mismatch", l.node),
             ExpectedRole(l.type) \notin {"any", role}
      PROVE  f \in touched
  <2>1. f = Mismatch
    BY <1>1, <1>4, LocalRow DEF Mismatch
  <2> QED BY <1>1, <1>4, <2>1 DEF IInv, RowsTell
<1>5. ASSUME NEW l \in LocalRows(nodes.rows), JudgedAsPrimary(l)
      PROVE  /\ AsPrimary /\ l.node = Local
  BY <1>1, <1>5, LocalRow DEF AsPrimary
<1>6. ASSUME AsPrimary, f = Degraded, sync.status = "ok", sync.mode = "sync", ~sync.names
      PROVE  f \in touched
  BY <1>6 DEF IInv, SyncTells
<1>7. ASSUME AsPrimary, NEW n \in Followers(Local), f = Detached(n), downs.status = "ok",
             n \notin downs.rows
      PROVE  f \in touched
  BY <1>7 DEF IInv, PrimaryTells
<1> QED BY <1>1, <1>2, <1>3, <1>4, <1>5, <1>6, <1>7

\* Whatever has lasted is found, by a rule that was not blind.
LEMMA Finds == ASSUME IInv, at = 6, Looking, ~Blind PROVE held \subseteq Raised
<1> SUFFICES ASSUME NEW f \in held PROVE f \in Raised
  OBVIOUS
<1>1. f \in Troubles /\ home = where
  BY DEF IInv, Noticed, Troubles
<1>2. nodes.status = "ok" /\ role \in Roles
  <2>1. nodes.status \in Statuses /\ role \in Roles
    BY DEF IInv, Stages, Looking
  <2>2. nodes.status # "not_applicable"
    BY <1>1 DEF IInv, Place
  <2> QED BY <2>1, <2>2 DEF Blind, BlindSpot
<1>3. PICK l \in LocalRows(nodes.rows) : TRUE
  BY <1>2 DEF Blind, Judgeable
<1>4. l \in nodes.rows /\ l.node = Local
  BY <1>2, LocalRow
<1>5. JudgedAsPrimary(l) => sync.status = "ok" \/ sync.status = "not_applicable"
  BY <1>3 DEF Blind, BlindSpot
<1>6. JudgedAsPrimary(l) => downs.status = "ok"
  BY <1>3 DEF Blind, BlindSpot, IInv, Stages
<1>7. CASE f = Primaries
  BY <1>2, <1>7, TwoPrimaries, RaisedIs DEF IInv, RowsTell
<1>8. CASE f = Mismatch
  <2>1. l.type = (IF role = "standby" THEN "primary" ELSE "standby")
    BY <1>2, <1>4, <1>8 DEF IInv, RowsTell
  <2>2. ExpectedRole(l.type) \notin {"any", role}
    BY <1>2, <2>1 DEF ExpectedRole, Roles
  <2>3. f = Warn("cluster.role_mismatch", l.node)
    BY <1>4, <1>8 DEF Mismatch
  <2> QED BY <1>2, <2>2, <2>3, RaisedIs
<1>9. CASE f = Degraded
  <2>1. role = "primary"
    BY <1>9 DEF IInv, Role
  <2>2. l.type = "primary"
    BY <1>2, <1>4, <1>9 DEF IInv, RowsTell
  <2>3. JudgedAsPrimary(l)
    BY <2>1, <2>2 DEF JudgedAsPrimary
  <2>4. sync.status = "ok"
    BY <1>2, <1>5, <2>1, <2>3 DEF IInv, SyncKnown
  <2>5. sync.mode = "sync" /\ ~sync.names
    BY <1>9, <2>4 DEF IInv, SyncTells
  <2> QED BY <1>2, <1>9, <2>3, <2>4, <2>5, RaisedIs
<1>10. ASSUME NEW n \in Nodes, f = Inactive(n) PROVE f \in Raised
  <2>1. PICK r \in nodes.rows : r.node = n
    BY <1>2 DEF IInv, Rows
  <2>2. ~r.active
    BY <1>2, <1>10, <2>1 DEF IInv, RowsTell
  <2> QED BY <1>2, <1>10, <2>1, <2>2, RaisedIs
<1>11. ASSUME NEW n \in Nodes, f = Detached(n) PROVE f \in Raised
  <2>1. role = "primary"
    BY <1>11 DEF IInv, Role
  <2>2. /\ \A r \in nodes.rows : r.node = Local => r.type = "primary"
        /\ \A r \in nodes.rows : r.node = n => r.active /\ r.type = "standby" /\ r.up = Local
    BY <1>2, <1>11 DEF IInv, RowsTell
  <2>3. JudgedAsPrimary(l)
    BY <1>4, <2>1, <2>2 DEF JudgedAsPrimary
  <2>4. PICK r \in nodes.rows : r.node = n
    BY <1>2 DEF IInv, Rows
  <2>5. n \in Followers(l.node)
    BY <1>4, <2>2, <2>4 DEF Followers
  <2>6. downs.status = "ok" /\ n \notin downs.rows
    BY <1>6, <1>11, <2>3 DEF IInv, DownsTell
  <2> QED BY <1>2, <1>11, <2>3, <2>5, <2>6, RaisedIs
<1> QED BY <1>1, <1>7, <1>8, <1>9, <1>10, <1>11, TroubleKinds

LEMMA ReportKeeps == ASSUME IInv, Report PROVE IInv'
<1>1. TypeOK'
  BY TypeNext DEF IInv, Next
<1>2. /\ phase = "report" /\ phase' = "done" /\ Looking /\ ~Looking' /\ at = 6 /\ role \in Roles
      /\ raised' = Raised /\ verdict' = VerdictOf({f.level : f \in raised'}, Blind)
      /\ exit' \in {ExitCode(verdict'), ExitCode("UNKNOWN")}
      /\ UNCHANGED <<cluster, server, explicit, at, where, skip, refused, role, nodes, sync,
                     downs, history>>
  BY OrderIs DEF Report, IInv, Stages, Looking
<1>3. Stages' /\ Place' /\ Rows' /\ SyncKnown' /\ DownsTell' /\ Noticed'
  BY <1>2 DEF IInv, Stages, Place, Rows, SyncKnown, DownsTell, Noticed
<1>4. Role'
  BY <1>2 DEF IInv, Role
<1>5. RowsTell'
  BY <1>2 DEF IInv, RowsTell, LocalRows
<1>6. (AsPrimary' <=> AsPrimary) /\ \A m : Followers(m)' = Followers(m)
  BY <1>2, AsPrimaryStill
<1>7. PrimaryTells'
  BY <1>2, <1>6 DEF IInv, PrimaryTells
<1>8. SyncTells'
  BY <1>2, <1>6 DEF IInv, SyncTells
<1>9. Reporting'
  <2>1. Raised' = Raised /\ Blind' = Blind
    BY <1>2 DEF Raised, Blind, InList, LocalRows, OfRole, OfPrimary, JudgedAsPrimary, Followers
  <2>2. verdict' # "none"
    BY <1>2, VerdictIs DEF Verdicts
  <2>3. raised' \subseteq touched' /\ (~Blind' => held' \subseteq raised')
    BY <1>2, <2>1, Accuses, Finds
  <2> QED BY <1>2, <2>1, <2>2, <2>3 DEF Reporting, Reported
<1> QED BY <1>1, <1>3, <1>4, <1>5, <1>7, <1>8, <1>9 DEF IInv

LEMMA StutterKeeps == ASSUME IInv, UNCHANGED vars PROVE IInv'
<1>1. TypeOK' /\ Stages' /\ Place' /\ Role' /\ Rows'
  BY TypeNext DEF IInv, Stages, Place, Role, Rows, Looking
<1>2. Troubles' = Troubles /\ LocalIsPrimary' = LocalIsPrimary
  BY TroublesStill
<1>3. (AsPrimary' <=> AsPrimary) /\ \A m : Followers(m)' = Followers(m)
  BY AsPrimaryStill
<1>4. Noticed' /\ RowsTell' /\ DownsTell' /\ SyncKnown'
  BY <1>2 DEF IInv, Noticed, Looking, RowsTell, LocalRows, DownsTell, SyncKnown
<1>5. PrimaryTells' /\ SyncTells'
  BY <1>2, <1>3 DEF IInv, PrimaryTells, SyncTells, Looking, Streams
<1>6. Reporting'
  <2>1. Raised' = Raised /\ Blind' = Blind
    BY DEF Raised, Blind, InList, LocalRows, OfRole, OfPrimary, JudgedAsPrimary, Followers
  <2> QED BY <2>1 DEF IInv, Reporting, Reported
<1> QED BY <1>1, <1>4, <1>5, <1>6 DEF IInv

LEMMA InvNext == IInv /\ [Next]_vars => IInv'
<1> SUFFICES ASSUME IInv, [Next]_vars PROVE IInv'
  OBVIOUS
<1>1. CASE Collect
  <2>1. at \in 1..5
    BY <1>1, ReadAt DEF IInv
  <2> QED BY <1>1, <2>1, ReadNodesKeeps, ReadEventsKeeps, ReadSyncKeeps, ReadFileKeeps,
             ReadDownsKeeps
<1>2. CASE ~Collect
  BY <1>2, RehbaKeeps, ReapKeeps, MoveKeeps, TryEsrepKeeps, OpenKeeps, IdentifyKeeps,
     ReportKeeps, StutterKeeps DEF Next
<1> QED BY <1>1, <1>2

LEMMA Invariant == Spec => []IInv
BY InvInit, InvNext, PTL DEF Spec

-----------------------------------------------------------------------------
(* What is promised *)

\* The verdict of findings that are all warnings.
LEMMA WarnVerdict ==
  ASSUME NEW R \in SUBSET Findings, NEW u \in BOOLEAN
  PROVE  /\ \A f \in R : f.level = "WARN"
         /\ VerdictOf({f.level : f \in R}, u) =
              IF R # {} THEN "WARN" ELSE IF u THEN "UNKNOWN" ELSE "OK"
<1>1. \A f \in R : f.level = "WARN"
  BY DEF Findings, Warn
<1>2. CASE R = {}
  <2>1. {f.level : f \in R} = {}
    BY <1>2
  <2>2. \A b \in BOOLEAN : VerdictOf({}, b) = IF b THEN "UNKNOWN" ELSE "OK"
    BY DEF VerdictOf
  <2> QED BY <1>1, <1>2, <2>1, <2>2
<1>3. CASE R # {}
  <2>1. {f.level : f \in R} = {"WARN"}
    BY <1>1, <1>3
  <2>2. \A b \in BOOLEAN : VerdictOf({"WARN"}, b) = "WARN"
    BY DEF VerdictOf, Levels
  <2> QED BY <1>1, <1>3, <2>1, <2>2
<1> QED BY <1>2, <1>3

LEMMA ExitCodeIs ==
  ExitCode("OK") = 0 /\ ExitCode("WARN") = 1 /\ ExitCode("UNKNOWN") = 3
BY DEF ExitCode

\* What a report rests on.
LEMMA ReportMeans ==
  ASSUME IInv, Reported
  PROVE  /\ \A f \in raised \cup held : f.level = "WARN"
         /\ \/ raised # {} /\ verdict = "WARN"
            \/ raised = {} /\ Blind /\ verdict = "UNKNOWN"
            \/ raised = {} /\ ~Blind /\ verdict = "OK"
<1>1. /\ verdict = VerdictOf({f.level : f \in raised}, Blind)
      /\ raised \subseteq Findings /\ held \subseteq Findings
  BY DEF IInv, Reporting, TypeOK
<1>2. Blind \in BOOLEAN
  BY DEF Blind
<1> QED BY <1>1, <1>2, WarnVerdict

LEMMA InvTypes == IInv => TypeOK
BY DEF IInv

LEMMA InvAccuses == IInv => AccusesRightly
BY DEF IInv, Reporting, AccusesRightly

LEMMA InvMisses == IInv => MissesNothing
BY DEF IInv, Reporting, MissesNothing

LEMMA InvRead == IInv => MetadataRead
<1> SUFFICES ASSUME IInv, exit = 0
             PROVE  nodes.status = "ok" \/ (~explicit /\ home # "esrep")
  BY DEF MetadataRead
<1>1. phase = "done"
  BY DEF IInv, Stages, Running
<1>2. verdict # "none"
  BY <1>1, ExitCodeIs DEF IInv, Reporting, ExitUnavailable
<1>3. Reported
  BY <1>1, <1>2 DEF Reported
<1>4. exit = ExitCode(verdict)
  BY <1>3, ExitCodeIs DEF IInv, Reporting
<1>5. verdict = "OK" /\ ~Blind
  BY <1>3, <1>4, ReportMeans, ExitCodeIs
<1>6. nodes.status \in {"ok", "not_applicable"}
  BY <1>5 DEF Blind, BlindSpot
<1>7. CASE nodes.status = "not_applicable"
  BY <1>1, <1>7 DEF IInv, Place
<1> QED BY <1>6, <1>7

\* Every state of a run is well typed, whatever the cluster is and does.
THEOREM ClusterTypeCorrect == Spec => []TypeOK
BY Invariant, InvTypes, PTL

\* A report of cluster accuses of nothing that was true at no moment of the run
\* (newCluster's order of the probes, rule.Cluster).
THEOREM ClusterAccuses == Spec => []AccusesRightly
BY Invariant, InvAccuses, PTL

\* A report of cluster that was not blind names whatever lasted (rule.Cluster).
THEOREM ClusterFinds == Spec => []MissesNothing
BY Invariant, InvMisses, PTL

\* OK needs the metadata to have been read, but without -d where there is none
\* (newCluster's skip).
THEOREM ClusterSaw == Spec => []MetadataRead
BY Invariant, InvRead, PTL

-----------------------------------------------------------------------------
(* cluster implements HonestAnswer *)

\* Nothing has shown before the role was read.
Unseen == role = "none" => touched = {}

LEMMA UnseenInit == Init => Unseen
BY DEF Init, Unseen

LEMMA UnseenNext == IInv /\ Unseen /\ [Next]_vars => Unseen'
<1> SUFFICES ASSUME IInv, Unseen, [Next]_vars, role' = "none" PROVE touched' = {}
  BY DEF Unseen
<1>1. CASE Move
  <2>1. role = "none"
    BY <1>1 DEF Move
  <2>2. ~Looking
    BY <2>1 DEF IInv, Stages, Roles, Looking
  <2> QED BY <1>1, <2>1, <2>2 DEF Move, Unseen
<1>2. CASE Identify
  <2>1. role' # "none" \/ UNCHANGED <<role, history>>
    BY <1>2 DEF Identify
  <2> QED BY <2>1 DEF Unseen
<1>3. CASE Rehba \/ Reap \/ TryEsrep \/ Open \/ Collect \/ Report \/ UNCHANGED vars
  BY <1>3 DEF Rehba, Reap, TryEsrep, Open, Collect, Report, Unseen
<1> QED BY <1>1, <1>2, <1>3 DEF Next

LEMMA UnseenInvariant == Spec => []Unseen
BY Invariant, UnseenInit, UnseenNext, PTL DEF Spec

Lasting == IF role = "none" THEN Findings ELSE held
Blinded == phase = "done" /\ (verdict = "none" \/ exit # ExitCode(verdict) \/ Blind)

\* An exit code is honest about what lasted and what appeared.
HonestNow ==
  \/ exit = 0 /\ Lasting = {} /\ ~Blinded
  \/ exit = 1 /\ (\E f \in touched : f.level = "WARN") /\ (\A f \in Lasting : f.level # "FAIL")
  \/ exit \in {3, 69} /\ Blinded

LEMMA ExitHonest == IInv /\ phase = "done" => HonestNow
<1> SUFFICES ASSUME IInv, phase = "done" PROVE HonestNow
  OBVIOUS
<1>1. CASE verdict = "none"
  BY <1>1, ExitCodeIs DEF IInv, Reporting, HonestNow, Blinded, ExitUnavailable
<1>2. CASE verdict # "none"
  <2>1. Reported
    BY <1>2 DEF Reported
  <2>2. /\ raised \subseteq touched /\ (~Blind => held \subseteq raised) /\ Lasting = held
        /\ exit = ExitCode(verdict) \/ (exit = 3 /\ exit # ExitCode(verdict))
    BY <2>1, ExitCodeIs DEF IInv, Reporting, Lasting, Roles
  <2>3. CASE exit = 3 /\ exit # ExitCode(verdict)
    BY <2>3 DEF HonestNow, Blinded
  <2>4. CASE exit = ExitCode(verdict) /\ raised # {} /\ verdict = "WARN"
    <3>1. \A f \in raised \cup held : f.level = "WARN"
      BY <2>1, ReportMeans
    <3> QED BY <2>2, <2>4, <3>1, ExitCodeIs DEF HonestNow
  <2>5. CASE exit = ExitCode(verdict) /\ raised = {} /\ Blind /\ verdict = "UNKNOWN"
    BY <2>5, ExitCodeIs DEF HonestNow, Blinded
  <2>6. CASE exit = ExitCode(verdict) /\ raised = {} /\ ~Blind /\ verdict = "OK"
    BY <1>2, <2>2, <2>6, ExitCodeIs DEF HonestNow, Blinded
  <2> QED BY <2>1, <2>2, <2>3, <2>4, <2>5, <2>6, ReportMeans
<1> QED BY <1>1, <1>2

\* What lasts shrinks, what appeared grows, and only a run that goes on steps.
LEMMA Ages ==
  ASSUME IInv, Unseen, Next
  PROVE  /\ Lasting' \subseteq Lasting /\ touched \subseteq touched'
         /\ exit = Running /\ (phase' # "done" => exit' = Running)
<1>1. CASE Identify
  <2>1. /\ phase = "identify" /\ role = "none" /\ exit = Running /\ touched = {}
    BY <1>1 DEF Identify, IInv, Stages, Unseen
  <2>2. CASE phase' = "collect"
    BY <1>1, <2>1, <2>2, TroublesTyped DEF Identify, Lasting
  <2>3. CASE phase' = "done"
    BY <1>1, <2>1, <2>3 DEF Identify, Lasting
  <2> QED BY <1>1, <2>2, <2>3 DEF Identify
<1>2. CASE Move
  <2>1. phase \in {"identify", "collect"} /\ UNCHANGED <<phase, role, exit>>
    BY <1>2 DEF Move
  <2>2. held' \subseteq held /\ touched \subseteq touched'
    BY <1>2 DEF Move
  <2> QED BY <2>1, <2>2 DEF IInv, Stages, Lasting
<1>3. CASE Rehba \/ Reap \/ TryEsrep \/ Open \/ Collect \/ Report
  <2>1. UNCHANGED <<role, held, touched>>
    BY <1>3 DEF Rehba, Reap, TryEsrep, Open, Collect, Report
  <2>2. phase # "done"
    BY <1>3 DEF Rehba, Reap, TryEsrep, Open, Collect, Report
  <2>3. phase' # "done" => exit' = exit
    BY <1>3 DEF Rehba, Reap, TryEsrep, Open, Collect, Report
  <2> QED BY <2>1, <2>2, <2>3 DEF IInv, Stages, Lasting
<1> QED BY <1>1, <1>2, <1>3 DEF Next

LEMMA RefineInit == Init => Promise!Init
<1> SUFFICES ASSUME Init PROVE Promise!Init
  OBVIOUS
<1>1. exit = Running /\ role = "none" /\ touched = {} /\ phase \in {"try", "open"}
  BY DEF Init
<1>2. Blinded = FALSE
  BY <1>1 DEF Blinded
<1> QED BY <1>1, <1>2 DEF Promise!Init, Blinded

LEMMA RefineNext ==
  IInv /\ IInv' /\ Unseen /\ [Next]_vars => [Promise!Next]_Promise!vars
<1> SUFFICES ASSUME IInv, IInv', Unseen, [Next]_vars PROVE [Promise!Next]_Promise!vars
  OBVIOUS
<1>h. phase' = "done" => HonestNow'
  <2>1. (IInv /\ phase = "done" => HonestNow)'
    BY ExitHonest, PTL
  <2> QED BY <2>1
<1>1. CASE UNCHANGED vars
  <2>1. Blind' = Blind
    BY <1>1 DEF Blind, LocalRows, JudgedAsPrimary
  <2> QED BY <1>1, <2>1 DEF Promise!vars
<1>2. CASE Next
  <2>1. /\ Lasting' \subseteq Lasting /\ touched \subseteq touched'
        /\ exit = Running /\ (phase' # "done" => exit' = Running)
    BY <1>2, Ages
  <2>2. Blinded' \in BOOLEAN
    BY DEF Blinded
  <2>3. CASE phase' # "done"
    BY <2>1, <2>2, <2>3 DEF Promise!Next, Promise!Live, Lasting, Blinded
  <2>4. CASE phase' = "done"
    <3>1. Promise!Honest(exit')
      BY <1>h, <2>4 DEF HonestNow, Promise!Honest, Lasting, Blinded
    <3> QED BY <2>1, <2>2, <3>1 DEF Promise!Next, Promise!Answer, Lasting, Blinded
  <2> QED BY <2>3, <2>4
<1> QED BY <1>1, <1>2

\* The exit code of cluster is as honest as HonestAnswer asks, whatever the
\* cluster is and does and whatever the server lets in (newCluster,
\* rule.Cluster).
THEOREM ClusterHonest == Spec => Answers
BY Invariant, UnseenInvariant, RefineInit, RefineNext, PTL DEF Spec, Answers, Promise!Spec
=============================================================================
