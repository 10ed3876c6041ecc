------------------------------- MODULE MCSeq -------------------------------
(* Two sequences and two sessions; types of 2 and 3 bits.                   *)
EXTENDS Seq, TLC

TwoTypes == ("smallint" :> [lo |-> -2, hi |-> 1]) @@ ("bigint" :> [lo |-> -4, hi |-> 3])

Def(type, min, max, inc, cycle, cache) ==
  [type |-> type, start |-> min, min |-> min, max |-> max, inc |-> inc,
   cycle |-> cycle, cache |-> cache]

\* Up and down, short of the type and at it, further than half the type's
\* width, in steps that do not meet the limit, cached, cycling.
FewDefinitions ==
  {Def("smallint", -1, 1, 1, FALSE, 1), Def("bigint", -2, 2, 3, FALSE, 2),
   Def("bigint", -4, -2, -1, FALSE, 2), Def("bigint", 0, 1, 1, TRUE, 1)}
=============================================================================
