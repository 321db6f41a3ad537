------------------------------- MODULE Changelog -------------------------------
(******************************************************************************)
(* One node's changelog database (internal/changelog/store.go) under its      *)
(* concurrent users: the goroutines that append (debounce consumers and       *)
(* catchup workers), the node's own reconciler, the peer's reconciler through *)
(* the gRPC server, and the daily maintenance of maintenance.go.              *)
(*                                                                            *)
(* Every SQL statement or transaction is one step; between the statements of  *)
(* one user the others run.  Append reads the HLC before its INSERT, a        *)
(* reconcile cycle holds the rows it read while it transfers files, and a     *)
(* maintenance pass is two DELETEs.                                           *)
(******************************************************************************)
EXTENDS ChangelogOps

CONSTANTS
    Path,           \* (sync pair, path) keys
    Writer,         \* goroutines that call Append or AppendWithHLC
    RetentionDays,  \* changelog.retention_days
    TombstoneDays,  \* conflict.tombstone_retention_days
    MaxEntries,     \* bound: rows ever inserted
    MaxDay          \* bound: days the model runs

ASSUME DaysAssumption == RetentionDays \in Nat /\ TombstoneDays \in Nat
ASSUME BoundsAssumption == MaxEntries \in Nat /\ MaxDay \in Nat

VARIABLES
    log,       \* the changelog table
    seq,       \* the AUTOINCREMENT counter of its id column
    clock,     \* the HLC, as a counter of the timestamps it has issued
    today,     \* the date
    held,      \* held[w]: the row w has stamped and not yet inserted
    ownRead,   \* rows the running reconcile cycle read; empty between cycles
    peerRead,  \* rows the peer's running cycle was sent
    maint,     \* next statement of a maintenance pass: "synced" | "tombstones"
    recorded,  \* history: every row ever inserted
    marked,    \* history: HLCs of rows the node's own cycle read and marked
    acked      \* history: HLCs of rows the peer's cycle read and acknowledged

vars == <<log, seq, clock, today, held, ownRead, peerRead, maint,
          recorded, marked, acked>>
history == <<recorded, marked, acked>>

Draft == [path : Path, type : EventType, hlc : Nat]
Row == [path : Path, type : EventType, hlc : Nat, synced : BOOLEAN,
        ack : BOOLEAN, created : Nat]
None == {}     \* held[w] is None or the singleton of a draft

Only(lg, ids) == [i \in ids |-> lg[i]]

Init ==
    /\ log = Only([i \in {} |-> 0], {})
    /\ seq = 0
    /\ clock = 0
    /\ today = 0
    /\ held = [w \in Writer |-> None]
    /\ ownRead = Only([i \in {} |-> 0], {})
    /\ peerRead = Only([i \in {} |-> 0], {})
    /\ maint = "synced"
    /\ recorded = {}
    /\ marked = {}
    /\ acked = {}

--------------------------------------------------------------------------------
(* Append                                                                     *)

\* HLCNow() of Append (or of the caller of AppendWithHLC).
Stamp(w, p, t) ==
    /\ held[w] = None
    /\ clock < MaxEntries
    /\ clock' = clock + 1
    /\ held' = [held EXCEPT ![w] = {[path |-> p, type |-> t, hlc |-> clock + 1]}]
    /\ UNCHANGED <<log, seq, today, ownRead, peerRead, maint, history>>

\* Mutant: INTEGER PRIMARY KEY without AUTOINCREMENT takes the highest live id
\* plus one, so that an id is used again after its row was pruned.
ReusedID == CHOOSE i \in 1..(seq + 1) :
                /\ \A j \in DOMAIN log : j < i
                /\ \A k \in 1..(i - 1) : \E j \in DOMAIN log : k <= j

\* The id of a new row: AUTOINCREMENT never goes back.
NextID == seq + 1

\* Mutant: the counter does not move with the rows.
InsertForgetsSequence(w) == \E d \in held[w] :
    LET row == [path |-> d.path, type |-> d.type, hlc |-> d.hlc,
                synced |-> FALSE, ack |-> FALSE, created |-> today]
    IN  /\ log' = [i \in DOMAIN log \cup {NextID} |->
                     IF i = NextID THEN row ELSE log[i]]
        /\ held' = [held EXCEPT ![w] = None]
        /\ recorded' = recorded \cup {row}
        /\ UNCHANGED <<seq, clock, today, ownRead, peerRead, maint, marked,
                       acked>>

\* The INSERT of Append: the row starts unsynced, created now.
Insert(w) == \E d \in held[w] :
    LET row == [path |-> d.path, type |-> d.type, hlc |-> d.hlc,
                synced |-> FALSE, ack |-> FALSE, created |-> today]
    IN  /\ log' = [i \in DOMAIN log \cup {NextID} |->
                     IF i = NextID THEN row ELSE log[i]]
        /\ seq' = IF NextID > seq THEN NextID ELSE seq
        /\ held' = [held EXCEPT ![w] = None]
        /\ recorded' = recorded \cup {row}
        /\ UNCHANGED <<clock, today, ownRead, peerRead, maint, marked, acked>>

\* The INSERT fails (busy, cancelled context): the caller logs and goes on.
InsertFails(w) ==
    /\ held[w] # None
    /\ held' = [held EXCEPT ![w] = None]
    /\ UNCHANGED <<log, seq, clock, today, ownRead, peerRead, maint, history>>

--------------------------------------------------------------------------------
(* The node's own reconcile cycle                                             *)

Grouped == {groupEntries(log, p) : p \in Path} \ {0}

\* UnsyncedEntries, then groupEntries.
ReadOwn ==
    /\ DOMAIN ownRead = {}
    /\ Grouped # {}
    /\ ownRead' = Only(log, Grouped)
    /\ UNCHANGED <<log, seq, clock, today, held, peerRead, maint, history>>

\* MarkSynced of the entries whose transfer succeeded.
MarkOwn == \E ids \in SUBSET DOMAIN ownRead :
    /\ DOMAIN ownRead # {}
    /\ log' = MarkSynced(log, ids)
    /\ marked' = marked \cup {ownRead[i].hlc : i \in ids}
    /\ ownRead' = Only(log, {})
    /\ UNCHANGED <<seq, clock, today, held, peerRead, maint, recorded, acked>>

--------------------------------------------------------------------------------
(* The peer's reconcile cycle, through the gRPC server                        *)

\* ExchangeChangelog; its CurrentHLC takes a timestamp from the clock when the
\* table is empty, which only leaves a gap in the stamps.
Exchange ==
    /\ DOMAIN peerRead = {}
    /\ Grouped # {}
    /\ peerRead' = Only(log, Grouped)
    /\ UNCHANGED <<log, seq, clock, today, held, ownRead, maint, history>>

\* AckTransfer of the entries the peer's cycle handled.
AckTransfer == \E ids \in SUBSET DOMAIN peerRead :
    /\ DOMAIN peerRead # {}
    /\ log' = MarkPeerAck(log, ids)
    /\ acked' = acked \cup {peerRead[i].hlc : i \in ids}
    /\ peerRead' = Only(log, {})
    /\ UNCHANGED <<seq, clock, today, held, ownRead, maint, recorded, marked>>

--------------------------------------------------------------------------------
(* Maintenance                                                                *)

\* Mutant: a synced row is dropped without waiting for the peer.
OldWithoutAck(row) == row.synced /\ row.created + RetentionDays < today

\* Mutant: the cutoff is computed with the wrong sign, so nothing is old.
OldNever(row) == row.synced /\ row.ack /\ row.created > today + RetentionDays

\* WHERE synced=1 AND peer_ack=1 AND created_at < now - retentionDays
OldSynced(row) == row.synced /\ row.ack /\ row.created + RetentionDays < today

\* WHERE event_type='delete' AND created_at < now - tombstoneDays
StaleTombstone(row) == row.type = "delete" /\ row.created + TombstoneDays < today

deleteOldSynced ==
    /\ maint = "synced"
    /\ log' = Only(log, {i \in DOMAIN log : ~OldSynced(log[i])})
    /\ maint' = "tombstones"
    /\ UNCHANGED <<seq, clock, today, held, ownRead, peerRead, history>>

deleteStaleTombstones ==
    /\ maint = "tombstones"
    /\ log' = Only(log, {i \in DOMAIN log : ~StaleTombstone(log[i])})
    /\ maint' = "synced"
    /\ UNCHANGED <<seq, clock, today, held, ownRead, peerRead, history>>

\* A DELETE fails: Run logs the error and goes on.
DeleteFails ==
    /\ maint' = IF maint = "synced" THEN "tombstones" ELSE "synced"
    /\ UNCHANGED <<log, seq, clock, today, held, ownRead, peerRead, history>>

\* The date changes; the daily pass may come late (its ticker starts with the
\* daemon, and a pass can be missed while the daemon is down).
NextDay ==
    /\ today < MaxDay
    /\ today' = today + 1
    /\ UNCHANGED <<log, seq, clock, held, ownRead, peerRead, maint, history>>

--------------------------------------------------------------------------------
Maintain == deleteOldSynced \/ deleteStaleTombstones \/ DeleteFails

Next ==
    \/ \E w \in Writer :
         \/ \E p \in Path, t \in EventType : Stamp(w, p, t)
         \/ Insert(w)
         \/ InsertFails(w)
    \/ ReadOwn \/ MarkOwn
    \/ Exchange \/ AckTransfer
    \/ Maintain
    \/ NextDay

Spec == Init /\ [][Next]_vars

\* RunScheduled runs a pass every day whose DELETEs do not fail for ever, the date
\* goes on, and both nodes' tickers run a cycle at least every 30 seconds that also
\* ends.
Fairness ==
    /\ WF_vars(Maintain)
    /\ SF_vars(deleteOldSynced)
    /\ WF_vars(NextDay)
    /\ WF_vars(ReadOwn) /\ WF_vars(MarkOwn)
    /\ WF_vars(Exchange) /\ WF_vars(AckTransfer)

FairSpec == Spec /\ Fairness

--------------------------------------------------------------------------------
(* Properties                                                                 *)

TypeOK ==
    /\ seq \in Nat
    /\ clock \in Nat
    /\ today \in Nat
    /\ DOMAIN log \subseteq 1..seq
    /\ \A i \in DOMAIN log : log[i] \in Row
    /\ held \in [Writer -> SUBSET Draft]
    /\ DOMAIN ownRead \subseteq 1..seq
    /\ \A i \in DOMAIN ownRead : ownRead[i] \in Row
    /\ DOMAIN peerRead \subseteq 1..seq
    /\ \A i \in DOMAIN peerRead : peerRead[i] \in Row
    /\ maint \in {"synced", "tombstones"}
    /\ recorded \subseteq Row
    /\ marked \subseteq Nat
    /\ acked \subseteq Nat

\* Same change: the columns no statement updates.
SameChange(a, b) == a.path = b.path /\ a.type = b.type /\ a.hlc = b.hlc

\* A reconcile cycle names rows by id long after it read them.  However many rows
\* were pruned and appended meanwhile, an id that still has a row is the row that
\* was read: MarkSynced and AckTransfer (store.go:145-175) never hit another
\* change.  Ids must never be reused for this (AUTOINCREMENT, store.go:14).
IdsNameTheReadRow ==
    /\ \A i \in DOMAIN ownRead \cap DOMAIN log : SameChange(ownRead[i], log[i])
    /\ \A i \in DOMAIN peerRead \cap DOMAIN log : SameChange(peerRead[i], log[i])

Live(row) == \E i \in DOMAIN log : SameChange(log[i], row)

\* No create or modify is forgotten: a recorded change stays in the table until
\* the node's own cycle has read and marked it and the peer's cycle has read and
\* acknowledged it, whatever the order of appends, cycles and maintenance passes
\* (maintenance.go:35-47).
NoChangeForgotten ==
    \A r \in recorded :
        \/ r.type = "delete"
        \/ Live(r)
        \/ r.hlc \in marked /\ r.hlc \in acked

\* "Synced entries older than changelog.retention_days are deleted", for the rows
\* the peer has acknowledged: maintenance (maintenance.go:35-47) reclaims them.
AckedReclaimed ==
    \A h \in 1..MaxEntries :
        (\E i \in DOMAIN log : log[i].hlc = h /\ log[i].synced /\ log[i].ack
                               /\ log[i].created + RetentionDays < today)
          ~> (\A i \in DOMAIN log : log[i].hlc # h)

\* "Synced entries older than changelog.retention_days (default 90) are deleted"
\* (docs/overview.md).  It fails: a row the peer did not fetch before it was marked
\* synced is never acknowledged, and stays.
SyncedReclaimed ==
    \A h \in 1..MaxEntries :
        (\E i \in DOMAIN log : log[i].hlc = h /\ log[i].synced
                               /\ log[i].created + RetentionDays < today)
          ~> (\A i \in DOMAIN log : log[i].hlc # h)

\* "how long delete entries are kept in the changelog after they are synced"
\* (docs/configuration.md): a delete entry is only pruned once synced.  It fails:
\* maintenance.go:52 does not look at synced.
TombstonesOutliveSync ==
    [][\A i \in DOMAIN log \ DOMAIN log' : log[i].synced]_vars
================================================================================
