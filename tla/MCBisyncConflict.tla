---------------------------- MODULE MCBisyncConflict ---------------------------
(* Instances of BisyncConflict for TLC.                                       *)
EXTENDS BisyncConflict

\* Both nodes are configured for every path.
AllConfigured == [n \in Node |-> Path]

\* Bound: one fault or one crash in a behaviour; under manual two user operations,
\* or one and a crash.
FewDisturbances ==
    /\ faults + crashes <= 1
    /\ policy = "manual" => faults = 0 /\ ops + crashes <= 2
================================================================================
