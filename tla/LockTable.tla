----------------------------- MODULE LockTable -----------------------------
(***************************************************************************)
(* The heavyweight lock manager of the server, as far as kbdiag's SQL      *)
(* shows it (sys_locks, sys_blocking_pids): who holds a lock on an object, *)
(* who waits for one and in what order. External to the repository.        *)
(*                                                                         *)
(* An owner is a session, by its pid, or a prepared transaction, which has *)
(* none. A session waits for one lock at a time.                           *)
(***************************************************************************)

Modes == {"share", "excl"}
Conflict(a, b) == a = "excl" \/ b = "excl"

\* A lock table: granted is a set of [obj, owner, mode], waiting the requests
\* [pid, obj, mode] not granted, ahead the pairs of pids whose requests came
\* one before the other.
EmptyTable == [granted |-> {}, waiting |-> {}, ahead |-> {}]

Waiters(t) == {r.pid : r \in t.waiting}
RequestOf(t, p) == CHOOSE r \in t.waiting : r.pid = p

\* Those whose lock is in the way, and those queued ahead that conflict.
HardBlockers(t, r) ==
  {g.owner : g \in {h \in t.granted : h.obj = r.obj /\ h.owner # r.pid
                                        /\ Conflict(h.mode, r.mode)}}
QueuedAhead(t, r) ==
  {q.pid : q \in {s \in t.waiting : <<s.pid, r.pid>> \in t.ahead /\ s.obj = r.obj
                                      /\ Conflict(s.mode, r.mode)}}
Blockers(t, r) == HardBlockers(t, r) \cup QueuedAhead(t, r)

\* With some requests gone from the queue.
Leaving(t, requests) ==
  LET left == t.waiting \ requests
  IN [t EXCEPT !.waiting = left,
               !.ahead = {x \in @ : \E q, r \in left : x = <<q.pid, r.pid>>}]

\* Waiters that nothing is in the way of any more are granted. A conflicting
\* request further ahead is in the way whether it is granted now or not.
Wake(t) ==
  LET free == {r \in t.waiting : Blockers(t, r) = {}}
      locks == {[obj |-> r.obj, owner |-> r.pid, mode |-> r.mode] : r \in free}
  IN [Leaving(t, free) EXCEPT !.granted = @ \cup locks]

Request(t, p, o, mode) ==
  Wake([t EXCEPT !.waiting = @ \cup {[pid |-> p, obj |-> o, mode |-> mode]},
                 !.ahead = @ \cup {<<q, p>> : q \in Waiters(t)}])

\* The owner's locks and requests go; whoever was behind it may be granted.
Release(t, owner) ==
  Wake([Leaving(t, {r \in t.waiting : r.pid = owner})
          EXCEPT !.granted = {g \in @ : g.owner # owner}])

\* PREPARE TRANSACTION: the locks pass to the prepared transaction.
HandOver(t, p, gid) ==
  [t EXCEPT !.granted = {IF g.owner = p THEN [g EXCEPT !.owner = gid] ELSE g : g \in @}]
=============================================================================
