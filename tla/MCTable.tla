------------------------------ MODULE MCTable ------------------------------
(* Two relations, of which the name stands for one, the other or none.      *)
EXTENDS Table

TwoOids == {1, 2}
=============================================================================
