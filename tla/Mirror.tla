--------------------------------- MODULE Mirror --------------------------------
(******************************************************************************)
(* What bisync promises of two nodes whose users make one change at a time    *)
(* (docs/overview.md, "Timing and eventual consistency"): a change is made    *)
(* where both copies are current, and the only thing that happens to a copy   *)
(* otherwise is that it is brought up to date, sooner or later.               *)
(******************************************************************************)
CONSTANTS
    Replica,     \* the nodes
    Name,        \* the shared paths
    Value        \* what a path can hold, the absence of a file included

VARIABLES
    copy,        \* copy[r][f]: what replica r holds at f
    newest       \* newest[f]: what the last change left at f

mirror == <<copy, newest>>

Current(f) == \A r \in Replica : copy[r][f] = newest[f]

MirrorInit ==
    \E v \in [Name -> Value] : newest = v /\ copy = [r \in Replica |-> v]

Change(r, f, v) ==
    /\ Current(f)
    /\ v # newest[f]
    /\ newest' = [newest EXCEPT ![f] = v]
    /\ copy' = [copy EXCEPT ![r][f] = v]

BringUpToDate(r, f) ==
    /\ copy[r][f] # newest[f]
    /\ copy' = [copy EXCEPT ![r][f] = newest[f]]
    /\ UNCHANGED newest

MirrorNext == \E r \in Replica, f \in Name :
    \/ \E v \in Value : Change(r, f, v)
    \/ BringUpToDate(r, f)

MirrorSpec ==
    /\ MirrorInit /\ [][MirrorNext]_mirror
    /\ \A r \in Replica, f \in Name : WF_mirror(BringUpToDate(r, f))
================================================================================
