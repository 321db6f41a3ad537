--------------------------------- MODULE Bisync --------------------------------
(******************************************************************************)
(* Two bisync daemons keeping the same set of paths: on each node the users   *)
(* of its file system, the watcher that logs their changes after a debounce   *)
(* window, the changelog, the reconciler (internal/reconciler), and the gRPC  *)
(* server that carries out the peer's DeleteFile and AckTransfer calls        *)
(* (internal/grpc/server.go).                                                 *)
(*                                                                            *)
(* A reconcile cycle is a sequence of steps between which the other node, the *)
(* users and the watchers run: fetch the peer's unsynced entries, read the    *)
(* local ones, handle one path after the other (a path takes several steps    *)
(* when it needs an RPC or an rsync), mark, acknowledge.                      *)
(*                                                                            *)
(* The watcher and the debouncer are abstracted to one pending event per path *)
(* (Push replaces the event of a path and restarts its timer); the HLC to a   *)
(* counter per node with bounded skew between the nodes.  recovery's catchup  *)
(* scan (recovery.catchup_scan) is off and the changelog is not pruned.       *)
(******************************************************************************)
EXTENDS ChangelogOps, Conflict, Sequences

CONSTANTS
    Path,         \* (sync pair, path) keys
    Content,      \* file contents the users write
    Absent,       \* what a path without a file holds
    Configured,   \* Configured[n]: the paths of sync pairs in n's configuration
    Policy,       \* the values of conflict.policy to consider
    Writers,      \* nodes whose users create and modify files
    Removers,     \* nodes whose users delete files
    Patient,      \* TRUE: users wait for one change to settle before the next
    RsyncEcho,    \* TRUE: an event of the receiving rsync may escape isRsyncPID
    Skew,         \* bound: how far ahead of all stamps a clock may be
    MaxUserOps,   \* bound: file operations by users
    MaxFaults,    \* bound: failed RPCs, rsync runs, SQL updates; echoes
    MaxCrashes    \* bound: crashes of a daemon

ASSUME PathAssumption == Absent \notin Content
ASSUME ConfiguredAssumption == Configured \in [Node -> SUBSET Path]
ASSUME PolicyAssumption == Policy \subseteq Policies
ASSUME UsersAssumption ==
    Writers \subseteq Node /\ Removers \subseteq Node
    /\ Patient \in BOOLEAN /\ RsyncEcho \in BOOLEAN
ASSUME BoundAssumption ==
    Skew \in Nat /\ MaxUserOps \in Nat /\ MaxFaults \in Nat /\ MaxCrashes \in Nat

VARIABLES
    fs,          \* fs[n][p]: what node n holds at p
    pending,     \* pending[n][p]: the debounced event of p, "none" without one
    log,         \* log[n]: the changelog of n, a sequence of entries
    clock,       \* clock[n]: the last HLC stamp of n
    pc,          \* pc[n]: where n's reconcile cycle is
    remote,      \* remote[n][p]: remoteMap, the peer's entry id or 0 for nil
    local,       \* local[n][p]: localMap, likewise
    todo,        \* todo[n]: keys of allKeys the cycle has not handled
    cur,         \* cur[n]: the path being transferred, as a singleton or {}
    buf,         \* buf[n]: what the running rsync of n has read
    localDone,   \* localDone[n]: localSyncedIDs
    remoteDone,  \* remoteDone[n]: remoteSyncedIDs
    blocked,     \* blocked[n]: blockedPaths
    deleting,    \* deleting[n]: paths whose DeleteFile passed n's check and has
                 \* not removed the file yet
    saved,       \* saved[n][p]: contents evacuated to n's conflict directory
    policy,      \* conflict.policy, the same on both nodes
    latest,      \* history: what the last user operation left at p
    ops, faults, crashes   \* counters for the bounds

fsVars == <<fs, pending, saved>>
cycleVars == <<pc, remote, local, todo, cur, buf, localDone, remoteDone>>
bounds == <<ops, faults, crashes>>
vars == <<fs, pending, log, clock, pc, remote, local, todo, cur, buf,
          localDone, remoteDone, blocked, deleting, saved, policy, latest,
          ops, faults, crashes>>

Event == EventType \cup {"none"}
Entry == [path : Path, type : EventType, hlc : Nat, synced : BOOLEAN,
          ack : BOOLEAN]
Phase == {"idle", "fetched", "work", "evacuated", "delete", "deleting", "send",
          "write", "ack"}
NoEntries == [p \in Path |-> 0]

Init ==
    /\ \E f \in [Path -> Content \cup {Absent}] :
         /\ fs = [n \in Node |-> f]     \* docs: in sync before the first start
         /\ latest = f
    /\ pending = [n \in Node |-> [p \in Path |-> "none"]]
    /\ log = [n \in Node |-> <<>>]
    /\ clock = [n \in Node |-> 0]
    /\ pc = [n \in Node |-> "idle"]
    /\ remote = [n \in Node |-> NoEntries]
    /\ local = [n \in Node |-> NoEntries]
    /\ todo = [n \in Node |-> {}]
    /\ cur = [n \in Node |-> {}]
    /\ buf = [n \in Node |-> Absent]
    /\ localDone = [n \in Node |-> {}]
    /\ remoteDone = [n \in Node |-> {}]
    /\ blocked = [n \in Node |-> {}]
    /\ deleting = [n \in Node |-> {}]
    /\ saved = [n \in Node |-> [p \in Path |-> {}]]
    /\ policy \in Policy
    /\ ops = 0 /\ faults = 0 /\ crashes = 0

\* Nothing is waiting to be synchronised and no cycle is under way.
Quiescent ==
    \A n \in Node :
        /\ pc[n] = "idle"
        /\ deleting[n] = {}
        /\ Unsynced(log[n]) = {}
        /\ \A p \in Path : pending[n][p] = "none"

--------------------------------------------------------------------------------
(* Users and the watcher                                                      *)

UserMayAct ==
    /\ ops < MaxUserOps
    /\ Patient => Quiescent
    /\ ops' = ops + 1

\* A user's change at p leaves c there; fanotify reports it and Push makes it the
\* path's pending event.
UserChange(n, p, c, event) ==
    /\ UserMayAct
    /\ fs' = [fs EXCEPT ![n][p] = c]
    /\ pending' = [pending EXCEPT ![n][p] = event]
    /\ latest' = [latest EXCEPT ![p] = c]
    /\ UNCHANGED <<log, clock, cycleVars, blocked, deleting, saved, policy,
                   faults, crashes>>

UserWrite(n, p, c) ==
    /\ n \in Writers
    /\ p \in Configured[n]      \* fanotify watches the configured pairs only
    /\ fs[n][p] # c
    /\ UserChange(n, p, c, "modify")

UserRemove(n, p) ==
    /\ n \in Removers
    /\ p \in Configured[n]
    /\ fs[n][p] # Absent
    /\ UserChange(n, p, Absent, "delete")

\* HLC stamps n may take next: above its own last one, and possibly below, equal
\* to or above the peer's.
Stamps(n) ==
    LET top == IF clock[1] > clock[2] THEN clock[1] ELSE clock[2]
    IN  (clock[n] + 1)..(top + 1 + Skew)

\* Mutant: the entry is written as already synced.
FlushAsSynced(n, p) ==
    /\ pending[n][p] # "none"
    /\ \E t \in Stamps(n) :
         /\ log' = [log EXCEPT ![n] = Append(@,
                      [path |-> p, type |-> pending[n][p], hlc |-> t,
                       synced |-> TRUE, ack |-> FALSE])]
         /\ clock' = [clock EXCEPT ![n] = t]
    /\ pending' = [pending EXCEPT ![n][p] = "none"]
    /\ UNCHANGED <<fs, cycleVars, blocked, deleting, saved, latest, policy,
                   bounds>>

\* The debounce timer fires and writeToChangelog appends the event.
Flush(n, p) ==
    /\ pending[n][p] # "none"
    /\ \E t \in Stamps(n) :
         /\ log' = [log EXCEPT ![n] = Append(@,
                      [path |-> p, type |-> pending[n][p], hlc |-> t,
                       synced |-> FALSE, ack |-> FALSE])]
         /\ clock' = [clock EXCEPT ![n] = t]
    /\ pending' = [pending EXCEPT ![n][p] = "none"]
    /\ UNCHANGED <<fs, cycleVars, blocked, deleting, saved, latest, policy,
                   bounds>>

--------------------------------------------------------------------------------
(* A reconcile cycle of node n                                                *)

\* Steps 1 and 3 of Run: ExchangeChangelog and groupProtoEntries.
ExchangeChangelog(n) ==
    /\ pc[n] = "idle"
    /\ pc' = [pc EXCEPT ![n] = "fetched"]
    /\ remote' = [remote EXCEPT ![n] =
                    [p \in Path |-> groupEntries(log[Peer(n)], p)]]
    /\ UNCHANGED <<fsVars, log, clock, local, todo, cur, buf, localDone,
                   remoteDone, blocked, deleting, latest, policy, bounds>>

\* Steps 2 to 4: UnsyncedEntries, groupEntries and mergeKeys.
ReadLocal(n) ==
    LET mine == [p \in Path |-> groupEntries(log[n], p)]
    IN  /\ pc[n] = "fetched"
        /\ pc' = [pc EXCEPT ![n] = "work"]
        /\ local' = [local EXCEPT ![n] = mine]
        /\ todo' = [todo EXCEPT ![n] =
                      {p \in Path : mine[p] # 0 \/ remote[n][p] # 0}]
        /\ UNCHANGED <<fsVars, log, clock, remote, cur, buf, localDone,
                       remoteDone, blocked, deleting, latest, policy, bounds>>

\* The types of the two entries of p in the cycle's maps, "none" for nil.
LocalType(n, p) ==
    IF local[n][p] = 0 THEN "none" ELSE log[n][local[n][p]].type
RemoteType(n, p) ==
    IF remote[n][p] = 0 THEN "none" ELSE log[Peer(n)][remote[n][p]].type

\* The cycle handles p next (Go ranges over the map in any order).
Takes(n, p) ==
    /\ pc[n] = "work"
    /\ p \in todo[n]
    /\ todo' = [todo EXCEPT ![n] = @ \ {p}]

Proceeds(n, p) == Takes(n, p) /\ p \notin blocked[n] /\ p \in Configured[n]

\* Mutant: the id of a missing entry is collected too.
DoneWithNil(n, p) ==
    /\ localDone' = [localDone EXCEPT ![n] = @ \cup {local[n][p]}]
    /\ remoteDone' = [remoteDone EXCEPT ![n] = @ \cup {remote[n][p]}]

\* p has been dealt with: its entries go to localSyncedIDs and remoteSyncedIDs.
Done(n, p) ==
    /\ localDone' = [localDone EXCEPT ![n] = @ \cup ({local[n][p]} \ {0})]
    /\ remoteDone' = [remoteDone EXCEPT ![n] = @ \cup ({remote[n][p]} \ {0})]

NotDone == UNCHANGED <<localDone, remoteDone>>

\* Both maps have p and not both entries are deletes: resolve is called.
InConflict(n, p) ==
    /\ local[n][p] # 0 /\ remote[n][p] # 0
    /\ ~(LocalType(n, p) = "delete" /\ RemoteType(n, p) = "delete")

Verdict(n, p) ==
    resolve(policy, n, log[n][local[n][p]], log[Peer(n)][remote[n][p]])

\* Two changes under keep_both: resolve evacuates before it returns a winner.
Evacuates(n, p) ==
    /\ policy = "keep_both"
    /\ InConflict(n, p)
    /\ LocalType(n, p) # "delete" /\ RemoteType(n, p) # "delete"

\* pushToRemote, or pullFromRemote, is called for p.
Pushes(n, p) ==
    \/ local[n][p] # 0 /\ remote[n][p] = 0
    \/ InConflict(n, p) /\ ~Evacuates(n, p) /\ Verdict(n, p) = "local"
Pulls(n, p) ==
    \/ local[n][p] = 0 /\ remote[n][p] # 0
    \/ InConflict(n, p) /\ ~Evacuates(n, p) /\ Verdict(n, p) = "remote"

\* A path blocked under the manual policy is skipped, and released when the local
\* entry is a delete and the peer's is a delete or missing.
SkipBlocked(n, p) ==
    /\ Takes(n, p)
    /\ p \in blocked[n]
    /\ blocked' = [blocked EXCEPT ![n] =
          IF LocalType(n, p) = "delete" /\ RemoteType(n, p) \in {"delete", "none"}
            THEN @ \ {p} ELSE @]
    /\ NotDone
    /\ UNCHANGED <<fsVars, log, clock, pc, remote, local, cur, buf, deleting,
                   latest, policy, bounds>>

\* SyncPairByName does not know the entry's pair.
SkipUnknown(n, p) ==
    /\ Takes(n, p)
    /\ p \notin blocked[n]
    /\ p \notin Configured[n]
    /\ NotDone
    /\ UNCHANGED <<fsVars, log, clock, pc, remote, local, cur, buf, blocked,
                   deleting, latest, policy, bounds>>

\* Nothing to transfer: both sides deleted; a create or modify of the peer, which
\* the peer pushes itself; or a local one whose file is gone (os.Lstat).
NoTransfer(n, p) ==
    /\ Proceeds(n, p)
    /\ \/ LocalType(n, p) = "delete" /\ RemoteType(n, p) = "delete"
       \/ Pulls(n, p) /\ RemoteType(n, p) # "delete"
       \/ Pushes(n, p) /\ LocalType(n, p) # "delete" /\ fs[n][p] = Absent
    /\ Done(n, p)
    /\ UNCHANGED <<fsVars, log, clock, pc, remote, local, cur, buf, blocked,
                   deleting, latest, policy, bounds>>

\* Mutant: the entries of a blocked conflict are marked like any others.
BlockAndMark(n, p) ==
    /\ Proceeds(n, p)
    /\ InConflict(n, p)
    /\ Verdict(n, p) = "blocked"
    /\ blocked' = [blocked EXCEPT ![n] = @ \cup {p}]
    /\ Done(n, p)
    /\ UNCHANGED <<fsVars, log, clock, pc, remote, local, cur, buf, deleting,
                   latest, policy, bounds>>

\* resolve returns conflictBlocked.
BlockForManual(n, p) ==
    /\ Proceeds(n, p)
    /\ InConflict(n, p)
    /\ Verdict(n, p) = "blocked"
    /\ blocked' = [blocked EXCEPT ![n] = @ \cup {p}]
    /\ NotDone
    /\ UNCHANGED <<fsVars, log, clock, pc, remote, local, cur, buf, deleting,
                   latest, policy, bounds>>

\* The local file at p goes, and fanotify reports the daemon's own rename like any
\* other.
Vacates(n, p) ==
    /\ fs' = [fs EXCEPT ![n][p] = Absent]
    /\ pending' = [pending EXCEPT ![n][p] =
                     IF fs[n][p] = Absent THEN @ ELSE "delete"]

\* Mutant: the file is removed instead of moved.
EvacuateRemoves(n, p) ==
    /\ Proceeds(n, p)
    /\ Evacuates(n, p)
    /\ Vacates(n, p)
    /\ pc' = [pc EXCEPT ![n] = "evacuated"]
    /\ cur' = [cur EXCEPT ![n] = {p}]
    /\ NotDone
    /\ UNCHANGED <<saved, log, clock, remote, local, buf, blocked, deleting,
                   latest, policy, bounds>>

\* keep_both: evacuateLoser moves the LOCAL file at p to the conflict directory,
\* whichever entry lost.  The new name has a resolution of one second, so that a
\* file evacuated before may be overwritten.
EvacuateLoser(n, p) ==
    /\ Proceeds(n, p)
    /\ Evacuates(n, p)
    /\ Vacates(n, p)
    /\ \E kept \in {saved[n][p], {}} :
         saved' = [saved EXCEPT ![n][p] =
                     IF fs[n][p] = Absent THEN @ ELSE kept \cup {fs[n][p]}]
    /\ pc' = [pc EXCEPT ![n] = "evacuated"]
    /\ cur' = [cur EXCEPT ![n] = {p}]
    /\ NotDone
    /\ UNCHANGED <<log, clock, remote, local, buf, blocked, deleting, latest,
                   policy, bounds>>

\* A local delete is pushed, or a remote one pulled: both call DeleteFile on the
\* PEER.
RequestDelete(n, p) ==
    /\ Proceeds(n, p)
    /\ \/ Pushes(n, p) /\ LocalType(n, p) = "delete"
       \/ Pulls(n, p) /\ RemoteType(n, p) = "delete"
    /\ pc' = [pc EXCEPT ![n] = "delete"]
    /\ cur' = [cur EXCEPT ![n] = {p}]
    /\ NotDone
    /\ UNCHANGED <<fsVars, log, clock, remote, local, buf, blocked, deleting,
                   latest, policy, bounds>>

\* A local create or modify is pushed: transfer.Send.
StartSend(n, p) ==
    /\ Proceeds(n, p)
    /\ Pushes(n, p) /\ LocalType(n, p) # "delete" /\ fs[n][p] # Absent
    /\ pc' = [pc EXCEPT ![n] = "send"]
    /\ cur' = [cur EXCEPT ![n] = {p}]
    /\ NotDone
    /\ UNCHANGED <<fsVars, log, clock, remote, local, buf, blocked, deleting,
                   latest, policy, bounds>>

Process(n) == \E p \in Path :
    \/ SkipBlocked(n, p)
    \/ SkipUnknown(n, p)
    \/ NoTransfer(n, p)
    \/ BlockForManual(n, p)
    \/ EvacuateLoser(n, p)
    \/ RequestDelete(n, p)
    \/ StartSend(n, p)

--------------------------------------------------------------------------------
(* Transfers of node n, and the peer's gRPC server                            *)

\* The transfer of p ends, and the cycle goes on with the next path.
Ends(n, p) ==
    /\ p \in cur[n]
    /\ pc' = [pc EXCEPT ![n] = "work"]
    /\ cur' = [cur EXCEPT ![n] = {}]
    /\ buf' = [buf EXCEPT ![n] = Absent]

\* After keep_both's evacuation a local winner is pushed, if a user has put a file
\* back meanwhile; otherwise there is nothing to push or to pull.
PushEvacuated(n, p) ==
    /\ pc[n] = "evacuated" /\ p \in cur[n]
    /\ IF Verdict(n, p) = "local" /\ fs[n][p] # Absent
         THEN /\ pc' = [pc EXCEPT ![n] = "send"]
              /\ NotDone
              /\ UNCHANGED <<cur, buf>>
         ELSE Ends(n, p) /\ Done(n, p)
    /\ UNCHANGED <<fsVars, log, clock, remote, local, todo, blocked, deleting,
                   latest, policy, bounds>>

\* The peer's DeleteFile refuses: unknown sync pair or unsynced local changes.
Rejects(m, p) == p \notin Configured[m] \/ HasUnsyncedForPath(log[m], p)

\* Success = false: the entry stays unsynced and is retried by a later cycle.
DeleteRejected(n, p) ==
    /\ pc[n] = "delete"
    /\ Ends(n, p)
    /\ Rejects(Peer(n), p)
    /\ UNCHANGED <<fsVars, log, clock, remote, local, todo, localDone,
                   remoteDone, blocked, deleting, latest, policy, bounds>>

\* The peer's DeleteFile has passed its check; the removal is a later step.  At
\* most one handler per path is under way (bound).
DeleteAccepted(n, p) ==
    /\ pc[n] = "delete" /\ p \in cur[n]
    /\ ~Rejects(Peer(n), p)
    /\ p \notin deleting[Peer(n)]
    /\ deleting' = [deleting EXCEPT ![Peer(n)] = @ \cup {p}]
    /\ pc' = [pc EXCEPT ![n] = "deleting"]
    /\ UNCHANGED <<fsVars, log, clock, remote, local, todo, cur, buf, localDone,
                   remoteDone, blocked, latest, policy, bounds>>

\* os.RemoveAll on node m.  The daemon's own removal is reported by fanotify: only
\* rsync processes are filtered out.
RemoveAll(m, p) ==
    /\ p \in deleting[m]
    /\ deleting' = [deleting EXCEPT ![m] = @ \ {p}]
    /\ fs' = [fs EXCEPT ![m][p] = Absent]
    /\ pending' = [pending EXCEPT ![m][p] =
                     IF fs[m][p] = Absent THEN @ ELSE "delete"]
    /\ UNCHANGED <<log, clock, cycleVars, blocked, saved, latest, policy,
                   bounds>>

\* Success = true comes back.
DeleteReply(n, p) ==
    /\ pc[n] = "deleting"
    /\ p \notin deleting[Peer(n)]
    /\ Ends(n, p)
    /\ Done(n, p)
    /\ UNCHANGED <<fsVars, log, clock, remote, local, todo, blocked, deleting,
                   latest, policy, bounds>>

\* rsync reads the file ...
SendRead(n, p) ==
    /\ pc[n] = "send" /\ p \in cur[n]
    /\ fs[n][p] # Absent
    /\ buf' = [buf EXCEPT ![n] = fs[n][p]]
    /\ pc' = [pc EXCEPT ![n] = "write"]
    /\ UNCHANGED <<fsVars, log, clock, remote, local, todo, cur, localDone,
                   remoteDone, blocked, deleting, latest, policy, bounds>>

\* ... and renames the finished copy into place on the peer.  The receiving rsync
\* may have exited when the peer's watcher looks at its event: isRsyncPID then
\* does not recognise it, and the write is taken for a user's.
SendWrite(n, p) ==
    /\ pc[n] = "write"
    /\ Ends(n, p)
    /\ Done(n, p)
    /\ fs' = [fs EXCEPT ![Peer(n)][p] = buf[n]]
    /\ \/ UNCHANGED <<pending, faults>>
       \/ /\ RsyncEcho /\ faults < MaxFaults
          /\ p \in Configured[Peer(n)]
          /\ pending' = [pending EXCEPT ![Peer(n)][p] = "modify"]
          /\ faults' = faults + 1
    /\ UNCHANGED <<log, clock, remote, local, todo, blocked, deleting, saved,
                   latest, policy, ops, crashes>>

\* runRsync gives up: the source vanished after the Lstat, on every attempt.
SendGivesUp(n, p) ==
    /\ pc[n] = "send"
    /\ fs[n][p] = Absent
    /\ Ends(n, p)
    /\ UNCHANGED <<fsVars, log, clock, remote, local, todo, localDone,
                   remoteDone, blocked, deleting, latest, policy, bounds>>

Fault == faults < MaxFaults /\ faults' = faults + 1

\* execRsync fails and runRsync tries again.
SendRetry(n) ==
    /\ Fault
    /\ pc[n] = "write"
    /\ pc' = [pc EXCEPT ![n] = "send"]
    /\ buf' = [buf EXCEPT ![n] = Absent]
    /\ UNCHANGED <<fsVars, log, clock, remote, local, todo, cur, localDone,
                   remoteDone, blocked, deleting, latest, policy, ops, crashes>>

\* Mutant: a failed operation is counted as done.
FailureCountsAsDone(n, p) ==
    /\ Fault
    /\ pc[n] \in {"delete", "deleting", "send", "write"}
    /\ Ends(n, p)
    /\ Done(n, p)
    /\ UNCHANGED <<fsVars, log, clock, remote, local, todo, blocked, deleting,
                   latest, policy, ops, crashes>>

\* The RPC fails (the request or the answer is lost), or rsync has used up its
\* retries: the path is left for a later cycle.  A removal the peer has begun
\* still happens, unless it is os.RemoveAll that fails.
OpFails(n, p) ==
    /\ Fault
    /\ pc[n] \in {"delete", "deleting", "send", "write"}
    /\ Ends(n, p)
    /\ \/ UNCHANGED deleting
       \/ /\ pc[n] = "deleting"
          /\ deleting' = [deleting EXCEPT ![Peer(n)] = @ \ {p}]
    /\ UNCHANGED <<fsVars, log, clock, remote, local, todo, localDone,
                   remoteDone, blocked, latest, policy, ops, crashes>>

\* evacuateLoser cannot create the directory or rename the file: resolve returns
\* the error and the path is left for a later cycle.
EvacuateFails(n, p) ==
    /\ Fault
    /\ Proceeds(n, p)
    /\ Evacuates(n, p)
    /\ fs[n][p] # Absent
    /\ NotDone
    /\ UNCHANGED <<fsVars, log, clock, pc, remote, local, cur, buf, blocked,
                   deleting, latest, policy, ops, crashes>>

Transfer(n) == \E p \in Path :
    \/ PushEvacuated(n, p)
    \/ DeleteReply(n, p)
    \/ SendRead(n, p)
    \/ SendWrite(n, p)
    \/ SendGivesUp(n, p)

\* What the server of Peer(n) does with a request of n.
Serve(n) == \E p \in Path : DeleteRejected(n, p) \/ DeleteAccepted(n, p)

--------------------------------------------------------------------------------
(* The end of a cycle                                                         *)

CycleEnds(n) ==
    /\ remote' = [remote EXCEPT ![n] = NoEntries]
    /\ local' = [local EXCEPT ![n] = NoEntries]
    /\ localDone' = [localDone EXCEPT ![n] = {}]
    /\ remoteDone' = [remoteDone EXCEPT ![n] = {}]

\* Mutant: every unsynced local entry is marked, not only the handled ones.
MarkAllSynced(n) ==
    /\ pc[n] = "work" /\ todo[n] = {}
    /\ log' = [log EXCEPT ![n] = MarkSynced(@, DOMAIN @)]
    /\ faults' = faults
    /\ IF remoteDone[n] = {}
         THEN pc' = [pc EXCEPT ![n] = "idle"] /\ CycleEnds(n)
         ELSE /\ pc' = [pc EXCEPT ![n] = "ack"]
              /\ UNCHANGED <<remote, local, localDone, remoteDone>>
    /\ UNCHANGED <<fsVars, clock, todo, cur, buf, blocked, deleting, latest,
                   policy, ops, crashes>>

\* Step 6: MarkSynced(localSyncedIDs); when the transaction fails the error is
\* only logged.
MarkLocal(n) ==
    /\ pc[n] = "work" /\ todo[n] = {}
    /\ \/ /\ log' = [log EXCEPT ![n] = MarkSynced(@, localDone[n])]
          /\ UNCHANGED faults
       \/ /\ localDone[n] # {} /\ Fault
          /\ UNCHANGED log
    /\ IF remoteDone[n] = {}
         THEN pc' = [pc EXCEPT ![n] = "idle"] /\ CycleEnds(n)
         ELSE /\ pc' = [pc EXCEPT ![n] = "ack"]
              /\ UNCHANGED <<remote, local, localDone, remoteDone>>
    /\ UNCHANGED <<fsVars, clock, todo, cur, buf, blocked, deleting, latest,
                   policy, ops, crashes>>

\* Step 7: AckTransfer(remoteSyncedIDs), handled by the peer's MarkPeerAck.
AckRemote(n) ==
    /\ pc[n] = "ack"
    /\ \/ /\ log' = [log EXCEPT ![Peer(n)] = MarkPeerAck(@, remoteDone[n])]
          /\ UNCHANGED faults
       \/ Fault /\ UNCHANGED log
    /\ pc' = [pc EXCEPT ![n] = "idle"]
    /\ CycleEnds(n)
    /\ UNCHANGED <<fsVars, clock, todo, cur, buf, blocked, deleting, latest,
                   policy, ops, crashes>>

\* The daemon of n dies and is started again: pending events, the cycle, the
\* blocked paths and its unfinished handlers are gone; the changelog is not.  The
\* peer's call that was being served fails.
Crash(n) ==
    /\ crashes < MaxCrashes
    /\ crashes' = crashes + 1
    /\ pending' = [pending EXCEPT ![n] = [p \in Path |-> "none"]]
    /\ pc' = [m \in Node |-> IF m = n THEN "idle"
                             ELSE IF pc[m] = "deleting" THEN "work" ELSE pc[m]]
    /\ cur' = [m \in Node |-> IF m = n \/ pc[m] = "deleting" THEN {} ELSE cur[m]]
    /\ todo' = [todo EXCEPT ![n] = {}]
    /\ buf' = [buf EXCEPT ![n] = Absent]
    /\ CycleEnds(n)
    /\ blocked' = [blocked EXCEPT ![n] = {}]
    /\ deleting' = [deleting EXCEPT ![n] = {}]
    /\ UNCHANGED <<fs, log, clock, saved, latest, policy, ops, faults>>

--------------------------------------------------------------------------------
Cycle(n) ==
    \/ ExchangeChangelog(n)
    \/ ReadLocal(n)
    \/ Process(n)
    \/ Transfer(n)
    \/ MarkLocal(n)
    \/ AckRemote(n)

User(n) == \E p \in Path :
    \/ \E c \in Content : UserWrite(n, p, c)
    \/ UserRemove(n, p)

Failure(n) ==
    \/ \E p \in Path : OpFails(n, p) \/ EvacuateFails(n, p)
    \/ SendRetry(n)
    \/ Crash(n)

Next == \E n \in Node :
    \/ User(n)
    \/ \E p \in Path : Flush(n, p)
    \/ Cycle(n)
    \/ Serve(n)
    \/ \E p \in Path : RemoveAll(n, p)
    \/ Failure(n)

Spec == Init /\ [][Next]_vars

\* Debounce timers fire, the 30-second ticker starts cycles, rsync and the RPCs
\* return (rsync and every attempt has a timeout), and handlers run to their end.
\* Users need not act and nothing need fail.
Fairness == \A n \in Node :
    /\ \A p \in Path : WF_vars(Flush(n, p)) /\ WF_vars(RemoveAll(n, p))
    /\ WF_vars(Cycle(n))
    /\ WF_vars(Serve(n))

FairSpec == Spec /\ Fairness

--------------------------------------------------------------------------------
(* Properties                                                                 *)

TypeOK ==
    /\ fs \in [Node -> [Path -> Content \cup {Absent}]]
    /\ pending \in [Node -> [Path -> Event]]
    /\ log \in [Node -> Seq(Entry)]
    /\ clock \in [Node -> Nat]
    /\ pc \in [Node -> Phase]
    /\ remote \in [Node -> [Path -> Nat]]
    /\ local \in [Node -> [Path -> Nat]]
    /\ \A n \in Node, p \in Path :
         /\ local[n][p] \in 0..Len(log[n])
         /\ remote[n][p] \in 0..Len(log[Peer(n)])
    /\ todo \in [Node -> SUBSET Path]
    /\ cur \in [Node -> SUBSET Path]
    /\ buf \in [Node -> Content \cup {Absent}]
    /\ localDone \in [Node -> SUBSET (Nat \ {0})]
    /\ remoteDone \in [Node -> SUBSET (Nat \ {0})]
    /\ blocked \in [Node -> SUBSET Path]
    /\ deleting \in [Node -> SUBSET Path]
    /\ saved \in [Node -> [Path -> SUBSET Content]]
    /\ policy \in Policies
    /\ latest \in [Path -> Content \cup {Absent}]
    /\ ops \in Nat /\ faults \in Nat /\ crashes \in Nat

\* "it guarantees that both nodes will converge given sufficient time and
\* connectivity" (docs/overview.md), as a safety property: when nothing is left to
\* do, the nodes agree on every path both are configured for.  It fails when users
\* do not wait for each other.
Agreement ==
    Quiescent => \A p \in Configured[1] \cap Configured[2] : fs[1][p] = fs[2][p]

\* One change at a time: if users wait for a change to settle, then every settled
\* state holds, on both nodes, what the last user left, although transfers fail,
\* replies are lost, removals and rsync writes come back as events of the watcher,
\* and updates of the changelog are repeated (reconciler.go:61-199).
LatestEverywhere ==
    Quiescent => \A n \in Node : \A p \in Configured[1] \cap Configured[2] :
                    fs[n][p] = latest[p]

\* Node n will still do something about p: the change is pending, or an entry of it
\* is unsynced and the running cycle is not about to mark it.
Owes(n, p) ==
    \/ pending[n][p] # "none"
    \/ UnsyncedFor(log[n], p) \ localDone[n] # {}

\* While the nodes differ at p, one of them still owes the other a step: the cycle
\* never marks the last entry of a difference it has not removed, although users
\* write during the rsync and older entries of the path stay behind
\* (reconciler.go:94-182, 281-290).
DifferenceIsOwed ==
    \A p \in Path : fs[1][p] # fs[2][p] => \E n \in Node : Owes(n, p)

\* The two file systems as copies of one set of files.
Copies == INSTANCE Mirror WITH
    Replica <- Node, Name <- Path, Value <- Content \cup {Absent},
    copy <- fs, newest <- latest

\* With users who make one change at a time the daemons implement Mirror: no step
\* of a cycle, a handler or a repeated operation ever takes a file away from its
\* last version or back to an older one, not even for a moment, and every copy is
\* brought up to date in the end, whatever failed on the way (reconcileLoop,
\* daemon.go:157-179; Run, reconciler.go:61-199).
ImplementsMirror == Copies!MirrorSpec

\* A conflict blocked for manual resolution is not forgotten: while a path is
\* blocked, the node keeps an unsynced entry for it that no cycle is about to mark,
\* so that DeleteFile is refused and the conflict is found again
\* (reconciler.go:99-107, 158-161; conflict.go:143-161).
BlockedKeepsEntry ==
    \A n \in Node : \A p \in blocked[n] :
        UnsyncedFor(log[n], p) \ localDone[n] # {}

\* Two cycles that resolve the same two entries agree: not both push, which would
\* swap the files.  Under lww the stamps must differ (conflict.go:89-102).
SameConflict(p) ==
    /\ \A n \in Node : pc[n] # "idle" /\ InConflict(n, p)
    /\ local[1][p] = remote[2][p] /\ local[2][p] = remote[1][p]
OneWinner ==
    \A p \in Path :
        SameConflict(p) /\ log[1][local[1][p]].hlc # log[2][local[2][p]].hlc
          => ~(Pushes(1, p) /\ Pushes(2, p))

\* "DeleteFile - deletes a file, rejecting the request if there are local unsynced
\* changes for that path" (docs/overview.md).  It fails: a change may be logged
\* between the check (server.go:119) and os.RemoveAll (server.go:133).
DeleteSparesUnsynced ==
    [][\A m \in Node, p \in Path :
         RemoveAll(m, p) /\ fs[m][p] # Absent
           => ~HasUnsyncedForPath(log[m], p)]_vars

\* "Notify the peer that a file transfer completed successfully"
\* (proto/bisync.proto): an acknowledged change has reached the other node.  It
\* fails: pullFromRemote acknowledges what the peer has yet to push.
AckMeansTransferred ==
    \A n \in Node : \A i \in DOMAIN log[n] :
        LET at == log[n][i].path
        IN  log[n][i].ack /\ log[n][i].type = "modify" /\ i = Len(log[n])
              => fs[Peer(n)][at] = fs[n][at] \/ pending[n][at] # "none"

\* "manual blocks synchronisation for the conflicting path until a human
\* intervenes" (docs/overview.md): no daemon touches the file of a blocked path.
\* It fails: a cycle of the peer that has not seen the conflict pushes over it.
BlockedIsFrozen ==
    [][\A n \in Node : \A p \in blocked[n] :
         fs'[n][p] = fs[n][p] \/ ops' # ops]_vars

\* "The path remains blocked until the file is deleted on at least one side"
\* (docs/overview.md).  It fails: reconciler.go:101 wants a local delete, so that a
\* delete on the other side alone never unblocks.
DeleteUnblocks ==
    \A n \in Node, p \in Path :
        [](p \in blocked[n] /\ fs[Peer(n)][p] = Absent
             => <>(p \notin blocked[n] \/ fs[Peer(n)][p] # Absent))
================================================================================
