---------------------------- MODULE MCBisyncRestart ----------------------------
(* Instances of BisyncRestart for TLC.                                        *)
EXTENDS BisyncRestart

\* Both nodes are configured for every path.
AllConfigured == [n \in Node |-> Path]
================================================================================
