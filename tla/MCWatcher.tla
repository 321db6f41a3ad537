------------------------------- MODULE MCWatcher -------------------------------
(* Instances of Watcher for TLC.                                              *)
EXTENDS Watcher

\* Paths are interchangeable.
Symmetry == Permutations(Path)
================================================================================
