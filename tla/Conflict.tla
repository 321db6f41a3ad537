-------------------------------- MODULE Conflict -------------------------------
(******************************************************************************)
(* internal/reconciler/conflict.go: which of two concurrent entries for one   *)
(* path wins.  The resolver runs on both nodes independently, each calling    *)
(* its own entry "local".                                                     *)
(*                                                                            *)
(* Nodes are the numbers 1 and 2, in the lexicographic order of their names   *)
(* (config.validate requires the names to differ); an entry is a record with  *)
(* the fields type and hlc.                                                   *)
(******************************************************************************)
EXTENDS Naturals

Node == 1..2
Peer(n) == 3 - n

Policies == {"lww", "alpha_wins", "keep_both", "manual"}

\* Mutant: the comparison is the wrong way round.
LWWPrefersOlder(local, remote) ==
    IF local.hlc <= remote.hlc THEN "local" ELSE "remote"

\* Mutant: the stamps are not compared.
LWWKeepsLocal(local, remote) == "local"

\* resolveLWW: the later stamp; the local entry on equal stamps.
resolveLWW(local, remote) ==
    IF local.hlc >= remote.hlc THEN "local" ELSE "remote"

\* resolveAlphaWins, on node n: the entry of the node whose name sorts first.
resolveAlphaWins(n) == IF n <= Peer(n) THEN "local" ELSE "remote"

\* resolve, on node n: a change beats a delete under every policy; two changes go
\* to the policy.  The caller has already dealt with two deletes.
resolve(policy, n, local, remote) ==
    IF local.type = "delete" /\ remote.type # "delete" THEN "remote"
    ELSE IF remote.type = "delete" /\ local.type # "delete" THEN "local"
    ELSE CASE policy \in {"lww", "keep_both"} -> resolveLWW(local, remote)
           [] policy = "alpha_wins" -> resolveAlphaWins(n)
           [] policy = "manual" -> "blocked"
================================================================================
