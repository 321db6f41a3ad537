-------------------------------- MODULE MCBisync -------------------------------
(* Instances of Bisync for TLC.                                               *)
EXTENDS Bisync, TLC

CONSTANT Unshared   \* a path whose sync pair node 2 lacks, if it is in Path

\* Node 1 is configured for every path, node 2 for all but Unshared.
Shared == [n \in Node |-> IF n = 1 THEN Path ELSE Path \ {Unshared}]

\* Contents are interchangeable.
Symmetry == Permutations(Content)
================================================================================
