----------------------------- MODULE ChangelogOps ------------------------------
(******************************************************************************)
(* The statements internal/changelog/store.go and maintenance.go issue, and   *)
(* groupEntries of internal/reconciler/reconciler.go, as operators on the     *)
(* changelog table.                                                           *)
(*                                                                            *)
(* A table is a function from row ids to rows; a row is a record with at      *)
(* least the fields path (sync pair and path together), type, hlc, synced and *)
(* ack (the columns event_type, hlc_timestamp, synced, peer_ack).  The        *)
(* operators use no other field, so a table may carry more (created) or be a  *)
(* sequence.                                                                  *)
(******************************************************************************)
EXTENDS Naturals

\* create, modify and attrib events are treated alike by the reconciler
\* (pushToRemote, pullFromRemote and resolve only single out delete).
EventType == {"modify", "delete"}

\* UnsyncedEntries("") and EntriesSinceHLC(""): WHERE synced = 0.
Unsynced(lg) == {i \in DOMAIN lg : ~lg[i].synced}

UnsyncedFor(lg, p) == {i \in Unsynced(lg) : lg[i].path = p}

\* HasUnsyncedForPath
HasUnsyncedForPath(lg, p) == UnsyncedFor(lg, p) # {}

\* The unsynced rows of path p with the highest HLC: one, unless stamps repeat.
NewestFor(lg, p) ==
    {i \in UnsyncedFor(lg, p) :
        \A j \in UnsyncedFor(lg, p) : lg[j].hlc <= lg[i].hlc}

\* groupEntries, groupProtoEntries: the id kept for path p, 0 when the path has
\* no entry (the nil of a missing map key).
groupEntries(lg, p) ==
    LET N == NewestFor(lg, p) IN IF N = {} THEN 0 ELSE CHOOSE i \in N : TRUE

\* MarkSynced: UPDATE changelog SET synced = 1 WHERE id = ?, in one transaction.
MarkSynced(lg, ids) ==
    [i \in DOMAIN lg |->
        IF i \in ids THEN [lg[i] EXCEPT !.synced = TRUE] ELSE lg[i]]

\* MarkPeerAck: UPDATE changelog SET peer_ack = 1 WHERE id = ?.
MarkPeerAck(lg, ids) ==
    [i \in DOMAIN lg |->
        IF i \in ids THEN [lg[i] EXCEPT !.ack = TRUE] ELSE lg[i]]
================================================================================
