------------------------------ MODULE MCLocks ------------------------------
(* Two sessions, a prepared transaction, a relation and a transactionid.    *)
EXTENDS Locks

TwoPids == {101, 102}
OneGid == {7}
OnePid == {102}
TwoObjs == {"t", "x"}
KindOf == [o \in TwoObjs |-> IF o = "t" THEN "relation" ELSE "transactionid"]
AllTargets == {AllLocks, 101, 102}
=============================================================================
