----------------------------- MODULE BisyncConflict ----------------------------
(******************************************************************************)
(* Bisync started in the middle of a conflict: the two nodes' users have      *)
(* changed the same path within one debounce window, and both changes have    *)
(* been logged before either node runs a cycle.  No user acts afterwards, so  *)
(* that what the cycles, their failures and crashes make of the conflict      *)
(* shows; only under manual MaxUserOps further operations are left to those   *)
(* who resolve it by hand.                                                    *)
(*                                                                            *)
(* latest is what the documentation says the path should hold in the end.     *)
(******************************************************************************)
EXTENDS Bisync

CONSTANTS
    Place,     \* the path in conflict
    Content1,  \* what node 1 has written there
    Content2   \* what node 2 has written there, or Absent

ASSUME ConflictAssumption ==
    /\ Place \in Path
    /\ Content1 \in Content /\ Content2 \in Content \cup {Absent}

Logged(t, h) ==
    <<[path |-> Place, type |-> t, hlc |-> h, synced |-> FALSE, ack |-> FALSE]>>

\* The content the policy is to keep: a change over a delete; the later change;
\* under alpha_wins the change of node 1.
Expected(h1, h2) ==
    IF Content2 = Absent \/ policy = "alpha_wins" \/ h1 > h2
      THEN Content1 ELSE Content2

\* At the other paths the nodes agree.
ConflictInit == \E h1, h2 \in 1..2, f \in [Path -> Content \cup {Absent}] :
    /\ h1 # h2
    /\ policy \in Policy
    /\ fs = <<[f EXCEPT ![Place] = Content1], [f EXCEPT ![Place] = Content2]>>
    /\ log = <<Logged("modify", h1),
               Logged(IF Content2 = Absent THEN "delete" ELSE "modify", h2)>>
    /\ clock = <<h1, h2>>
    /\ latest = [f EXCEPT ![Place] = Expected(h1, h2)]
    /\ pending = [n \in Node |-> [x \in Path |-> "none"]]
    /\ pc = [n \in Node |-> "idle"]
    /\ remote = [n \in Node |-> NoEntries]
    /\ local = [n \in Node |-> NoEntries]
    /\ todo = [n \in Node |-> {}]
    /\ cur = [n \in Node |-> {}]
    /\ buf = [n \in Node |-> Absent]
    /\ localDone = [n \in Node |-> {}]
    /\ remoteDone = [n \in Node |-> {}]
    /\ blocked = [n \in Node |-> {}]
    /\ deleting = [n \in Node |-> {}]
    /\ saved = [n \in Node |-> [x \in Path |-> {}]]
    /\ ops = IF policy = "manual" THEN 0 ELSE MaxUserOps
    /\ faults = 0 /\ crashes = 0

ConflictSpec == ConflictInit /\ [][Next]_vars
FairConflictSpec == ConflictSpec /\ Fairness

\* The policies that name a winner and apply it.
NamesWinner == policy \in {"lww", "alpha_wins"}

WinnerEverywhere == \A n \in Node : fs[n][Place] = latest[Place]

\* However the two nodes' cycles interleave, and whichever transfers, updates or
\* daemons fail on the way, a conflict that both changelogs show ends with the
\* policy's winner on both nodes (reconciler.go:133-175, conflict.go:44-102).
WinnerPrevails == NamesWinner /\ Quiescent => WinnerEverywhere

\* ... and it does end.
ConflictSettles == NamesWinner => <>[]WinnerEverywhere

\* keep_both never destroys both versions of a file, even when the conflict is
\* resolved twice, a step fails in the middle, a conflict file is overwritten, and the
\* evacuations come back as delete events (conflict.go:104-141); nor do lww and
\* alpha_wins.
OneVersionSurvives ==
    policy # "manual" =>
      \E n \in Node : fs[n][Place] # Absent \/ saved[n][Place] # {}

\* "In all policies, a modify or create event beats a concurrent delete, preserving
\* data by default" (docs/overview.md).  It fails: the delete stays in its own
\* node's changelog, and is pushed once the modify is marked synced.
ChangeBeatsDelete ==
    Quiescent => \E n \in Node : fs[n][Place] # Absent

\* "applies last-write-wins to determine a winner, but renames the losing file into
\* a conflict directory ... before applying the winner" (docs/overview.md).  It
\* fails: conflict.go:105 moves the local file whichever side lost, so that the
\* winner may be left on neither node.
KeepBothAppliesWinner ==
    Quiescent => \E n \in Node : fs[n][Place] = latest[Place]
================================================================================
