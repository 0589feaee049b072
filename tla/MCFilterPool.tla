---------------------------- MODULE MCFilterPool ----------------------------
(* A block filter, a log filter without bounds and one with both bounds. *)
EXTENDS FilterPool

LogAll   == [type |-> "Log", from |-> NoNumber, to |-> NoNumber]
LogRange1to2 == [type |-> "Log", from |-> 1, to |-> 2]

BlockOnly == {BlockFilter}
LogOnly   == {LogAll}
AllTypes  == {BlockFilter, LogAll, LogRange1to2}
=============================================================================
