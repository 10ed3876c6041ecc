------------------------------- MODULE MCNode -------------------------------
(* A node with two standbys, two filesystems, two databases and a table.    *)
(* The lists of standbys hold what such a list may hold: several names, any *)
(* name, and names that look like a number, a keyword or punctuation.       *)
EXTENDS Node

SomeSpellings == {"s1", "s2", "*", "1", ",", "ANY", "("}
TwoStandbys == {"s1", "s2"}
AllSettings ==
  {None,
   First(1, <<Word("s1")>>), First(1, <<Word("*")>>), First(1, <<Word("1"), Word("s1")>>),
   First(2, <<Word("s2"), Quoted("s1")>>), First(2, <<Quoted(","), Quoted("ANY"), Word("s2")>>),
   Any(1, <<Quoted("1"), Quoted("(")>>), Any(1, <<Word("s2"), Quoted("s1")>>),
   Any(2, <<Word("*")>>)}
FewSettings == {None, First(1, <<Word("s1")>>), Any(2, <<Word("*")>>)}

TwoDatabases == {"d1", "d2"}
OneTable == {"t"}
StopSoon == [xid |-> 2, mxid |-> 2]
OneAge == {[xid |-> 1, mxid |-> 1]}
FewOptions ==
  {[enabled |-> TRUE, threshold |-> Unset, scale |-> Unset],
   [enabled |-> FALSE, threshold |-> Unset, scale |-> Unset],
   [enabled |-> FALSE, threshold |-> 1, scale |-> 0]}

TwoFilesystems == {1, 2}
OneTablespace == {"t1"}
OwnDirectories == {FALSE}
EqualDirectories == BOOLEAN
=============================================================================
