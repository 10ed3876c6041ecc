------------------------------- MODULE Repmgr -------------------------------
(***************************************************************************)
(* A repmgr cluster as one of its instances, Local, sees it: whether it is *)
(* in recovery, what its copy of repmgr.nodes says, which standbys it      *)
(* feeds, and its synchronous_standby_names next to the mode its           *)
(* repmgr.conf asks for.  External to the repository: repmgr, repmgrd, the *)
(* server and the people who run them.                                     *)
(*                                                                         *)
(* repmgr records what has happened: a promotion after it, a node as       *)
(* failed once it is gone, as active or under a new upstream once it       *)
(* streams there.  The mode in the file is changed to a synchronous one    *)
(* before repmgrd fills the list.                                          *)
(***************************************************************************)
EXTENDS Naturals, FiniteSets

CONSTANTS
  Nodes,  \* node_id of repmgr.nodes
  Local   \* the instance kbdiag is connected to

NoNode == 0

ASSUME RepmgrAssumption ==
  /\ Nodes \subseteq Nat \ {NoNode} /\ IsFiniteSet(Nodes)
  /\ Local \in Nodes

VARIABLES
  recovering,  \* sys_is_in_recovery()
  reg,         \* repmgr.nodes
  attached,    \* standbys with a walsender here
  names,       \* synchronous_standby_names is not blank
  mode         \* synchronous in repmgr.conf: "sync" (sync, quorum, all) or "other"

cluster == <<recovering, reg, attached, names, mode>>

Types == {"primary", "standby", "witness"}

ClusterTypeOK ==
  /\ recovering \in BOOLEAN
  /\ reg \in [Nodes -> [type : Types, active : BOOLEAN, up : Nodes \cup {NoNode}]]
  /\ attached \subseteq Nodes \ {Local}
  /\ names \in BOOLEAN
  /\ mode \in {"sync", "other"}

\* One primary p, perhaps a witness w, the standbys under p or, some of them
\* (c), under another node h. All is well, but for a primary that has just
\* rejoined as a standby while its record says what it was.
ClusterInit ==
  \E p, h \in Nodes, w \in {NoNode} \cup Nodes, c \in SUBSET Nodes, rejoining \in BOOLEAN :
    /\ w \notin {p, h} /\ c \cap {p, h, w} = {}
    /\ c # {} <=> h # p
    /\ rejoining => p = Local
    /\ reg = [n \in Nodes |->
                [type |-> CASE n = p -> "primary" [] n = w -> "witness" [] OTHER -> "standby",
                 active |-> TRUE,
                 up |-> CASE n = p -> NoNode [] n \in c -> h [] OTHER -> p]]
    /\ attached = {n \in Nodes : reg[n].type = "standby" /\ reg[n].up = Local /\ ~rejoining}
    /\ recovering = (Local \notin {p, w} \/ rejoining)
    /\ mode \in {"sync", "other"}
    /\ names = (mode = "sync")

Detach(n) ==
  /\ n \in attached
  /\ attached' = attached \ {n}
  /\ UNCHANGED <<recovering, reg, names, mode>>

Attach(n) ==
  /\ n \notin attached /\ n # Local /\ reg[n].type = "standby"
  /\ attached' = attached \cup {n}
  /\ UNCHANGED <<recovering, reg, names, mode>>

MarkInactive(n) ==
  /\ reg[n].active /\ n \notin attached
  /\ n = Local => recovering
  /\ reg' = [reg EXCEPT ![n].active = FALSE]
  /\ UNCHANGED <<recovering, attached, names, mode>>

MarkActive(n) ==
  /\ ~reg[n].active
  /\ reg[n].type = "standby" /\ reg[n].up = Local => n \in attached
  /\ reg' = [reg EXCEPT ![n].active = TRUE]
  /\ UNCHANGED <<recovering, attached, names, mode>>

Follow(n, u) ==
  /\ reg[n].type = "standby" /\ u \notin {n, reg[n].up}
  /\ u = Local <=> n \in attached
  /\ reg' = [reg EXCEPT ![n].up = u]
  /\ UNCHANGED <<recovering, attached, names, mode>>

Promote ==
  /\ recovering
  /\ recovering' = FALSE
  /\ UNCHANGED <<reg, attached, names, mode>>

\* One transaction: the old primary is failed, this node is the primary.
RecordPromotion ==
  /\ ~recovering /\ reg[Local].type = "standby"
  /\ reg' = [n \in Nodes |->
               CASE n = Local -> [type |-> "primary", active |-> TRUE, up |-> NoNode]
                 [] n # Local /\ reg[n].type = "primary" -> [reg[n] EXCEPT !.active = FALSE]
                 [] OTHER -> reg[n]]
  /\ UNCHANGED <<recovering, attached, names, mode>>

RecordRejoin ==
  /\ recovering /\ reg[Local].type = "primary"
  /\ \E u \in Nodes \ {Local} :
       reg' = [reg EXCEPT ![Local] = [type |-> "standby", active |-> TRUE, up |-> u],
                          ![u] = [type |-> "primary", active |-> TRUE, up |-> NoNode]]
  /\ UNCHANGED <<recovering, attached, names, mode>>

\* Another node is made, and recorded as, a primary beside the one there is.
SecondPrimary(n) ==
  /\ n # Local /\ n \notin attached /\ reg[n].type = "standby"
  /\ reg' = [reg EXCEPT ![n] = [type |-> "primary", active |-> TRUE, up |-> NoNode]]
  /\ UNCHANGED <<recovering, attached, names, mode>>

\* repmgrd empties and refills the list, or somebody sets it.
SetNames ==
  /\ names' = ~names
  /\ UNCHANGED <<recovering, reg, attached, mode>>

Reconfigure ==
  /\ IF mode = "sync" THEN mode' = "other" ELSE ~names /\ mode' = "sync"
  /\ UNCHANGED <<recovering, reg, attached, names>>

ClusterMove ==
  \/ \E n \in Nodes : Detach(n) \/ Attach(n) \/ MarkInactive(n) \/ MarkActive(n) \/ SecondPrimary(n)
  \/ \E n, u \in Nodes : Follow(n, u)
  \/ Promote
  \/ RecordPromotion
  \/ RecordRejoin
  \/ SetNames
  \/ Reconfigure
=============================================================================
