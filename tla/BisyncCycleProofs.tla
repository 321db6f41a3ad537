--------------------------- MODULE BisyncCycleProofs ---------------------------
(******************************************************************************)
(* Proofs about the cycles of the two daemons, for any paths, contents,       *)
(* configuration and failures:                                                *)
(*   - a blocked conflict is never forgotten;                                 *)
(*   - with one writer, a difference between the nodes is always owed;        *)
(*   - with users who make one change at a time, every step of a daemon keeps *)
(*     a file or brings it up to date, with and without restarts;             *)
(*   - a conflict both changelogs show ends with the policy's winner.         *)
(* All rest on what a cycle knows of the entries it has read (NodeInv).       *)
(******************************************************************************)
EXTENDS BisyncProofs, BisyncConflict

--------------------------------------------------------------------------------
(* Blocked conflicts.  BlockedKeepsEntry is not inductive.  When the resolver *)
(* blocks a path, its entry is one the cycle has read, and the property needs *)
(* that entry to be still unsynced and not among the ids the cycle will mark: *)
(* the ids of a running cycle name unsynced entries of their own path         *)
(* (ReadIsUnsynced), and the collected ones belong to paths the cycle is      *)
(* through with (DoneIsHandled).                                              *)

\* n's cycle has read its own entries and has not marked them yet.
InLoop(n) ==
    pc[n] \in {"work", "evacuated", "delete", "deleting", "send", "write"}

\* Only the node's own cycle marks its entries, so that what it read stays unsynced.
ReadIsUnsynced(n) ==
    \A p \in Path :
        InLoop(n) /\ local[n][p] # 0 => local[n][p] \in UnsyncedFor(log[n], p)

\* localSyncedIDs holds entries of paths that are neither waiting nor in transfer,
\* and is empty before the loop.
DoneIsHandled(n) ==
    /\ \A i \in localDone[n] : \E p \in Path :
         p \notin todo[n] /\ p \notin cur[n] /\ local[n][p] = i
    /\ pc[n] \in {"idle", "fetched"} => localDone[n] = {}

\* At most one path is in transfer; it has been taken off the list and is not
\* blocked.
TransferIsTaken(n) ==
    /\ \A p \in cur[n], x \in cur[n] : p = x
    /\ cur[n] \cap (todo[n] \cup blocked[n]) = {}
    /\ cur[n] # {} =>
         pc[n] \in {"evacuated", "delete", "deleting", "send", "write"}

KeepsEntry(n) ==
    \A p \in blocked[n] : UnsyncedFor(log[n], p) \ localDone[n] # {}

NodeInv(n) ==
    ReadIsUnsynced(n) /\ DoneIsHandled(n) /\ TransferIsTaken(n) /\ KeepsEntry(n)

ManualInv == TypeOK /\ \A n \in Node : NodeInv(n)

--------------------------------------------------------------------------------
(* What the updates of a changelog do to its unsynced entries                 *)

LEMMA UnsyncedAfterMark ==
    ASSUME NEW lg \in Seq(Entry), NEW ids, NEW p
    PROVE  UnsyncedFor(MarkSynced(lg, ids), p) = UnsyncedFor(lg, p) \ ids
  <1>1. DOMAIN lg = 1..Len(lg) /\ DOMAIN MarkSynced(lg, ids) = 1..Len(lg)
    BY DEF MarkSynced
  <1>2. \A i \in 1..Len(lg) :
          /\ MarkSynced(lg, ids)[i].path = lg[i].path
          /\ MarkSynced(lg, ids)[i].synced = (lg[i].synced \/ i \in ids)
    BY MarkSyncedLog
  <1> QED
    BY <1>1, <1>2 DEF UnsyncedFor, Unsynced

LEMMA UnsyncedAfterAck ==
    ASSUME NEW lg \in Seq(Entry), NEW ids, NEW p
    PROVE  UnsyncedFor(MarkPeerAck(lg, ids), p) = UnsyncedFor(lg, p)
  <1>1. DOMAIN lg = 1..Len(lg) /\ DOMAIN MarkPeerAck(lg, ids) = 1..Len(lg)
    BY DEF MarkPeerAck
  <1>2. \A i \in 1..Len(lg) :
          /\ MarkPeerAck(lg, ids)[i].path = lg[i].path
          /\ MarkPeerAck(lg, ids)[i].synced = lg[i].synced
    BY MarkPeerAckLog
  <1> QED
    BY <1>1, <1>2 DEF UnsyncedFor, Unsynced

LEMMA UnsyncedAfterAppend ==
    ASSUME NEW lg \in Seq(Entry), NEW e \in Entry, NEW p
    PROVE  UnsyncedFor(lg, p) \subseteq UnsyncedFor(Append(lg, e), p)
  <1>1. /\ DOMAIN lg = 1..Len(lg)
        /\ DOMAIN Append(lg, e) = 1..(Len(lg) + 1)
        /\ Len(lg) \in Nat
    OBVIOUS
  <1>2. \A i \in 1..Len(lg) : Append(lg, e)[i] = lg[i]
    OBVIOUS
  <1> QED
    BY <1>1, <1>2 DEF UnsyncedFor, Unsynced

--------------------------------------------------------------------------------
(* Steps that leave a node's cycle alone                                      *)

SameCycle(m) ==
    /\ pc'[m] = pc[m] /\ local'[m] = local[m] /\ todo'[m] = todo[m]
    /\ cur'[m] = cur[m] /\ localDone'[m] = localDone[m]
    /\ blocked'[m] = blocked[m]

EntriesKept(m) ==
    \A p \in Path : UnsyncedFor(log[m], p) \subseteq UnsyncedFor(log'[m], p)

LEMMA Untouched ==
    ASSUME TypeOK, NEW m \in Node, NodeInv(m), SameCycle(m), EntriesKept(m)
    PROVE  NodeInv(m)'
  <1> USE DEF SameCycle, EntriesKept, InLoop
  <1>1. ReadIsUnsynced(m)'
    BY DEF NodeInv, ReadIsUnsynced
  <1>2. DoneIsHandled(m)'
    BY DEF NodeInv, DoneIsHandled
  <1>3. TransferIsTaken(m)'
    BY DEF NodeInv, TransferIsTaken
  <1>4. KeepsEntry(m)'
    BY DEF NodeInv, KeepsEntry, TypeOK
  <1> QED
    BY <1>1, <1>2, <1>3, <1>4 DEF NodeInv

LEMMA FlushKeepsEntries ==
    ASSUME TypeOK, NEW n \in Node, NEW p \in Path, Flush(n, p), NEW m \in Node
    PROVE  EntriesKept(m)
  <1>1. PICK t \in Stamps(n) :
          log' = [log EXCEPT ![n] = Append(@,
                    [path |-> p, type |-> pending[n][p], hlc |-> t,
                     synced |-> FALSE, ack |-> FALSE])]
    BY DEF Flush
  <1> DEFINE e == [path |-> p, type |-> pending[n][p], hlc |-> t,
                   synced |-> FALSE, ack |-> FALSE]
  <1>2. t \in Nat
    BY DEF Stamps, TypeOK, Node
  <1>3. pending[n][p] \in EventType
    BY DEF Flush, TypeOK, Event
  <1>4. e \in Entry
    BY <1>2, <1>3 DEF Entry
  <1>5. log' = [log EXCEPT ![n] = Append(log[n], e)]
    BY <1>1 DEF TypeOK
  <1> HIDE DEF e
  <1>6. log[n] \in Seq(Entry)
    BY DEF TypeOK
  <1>7. CASE m = n
    <2>1. log'[m] = Append(log[n], e)
      BY <1>5, <1>7 DEF TypeOK
    <2> QED
      BY <1>4, <1>6, <1>7, <2>1, UnsyncedAfterAppend DEF EntriesKept
  <1>8. CASE m # n
    <2>1. log'[m] = log[m]
      BY <1>5, <1>8 DEF TypeOK
    <2> QED
      BY <2>1 DEF EntriesKept
  <1> QED
    BY <1>7, <1>8

--------------------------------------------------------------------------------
(* The steps of a node's own cycle                                            *)

LEMMA ManualExchange ==
    ASSUME TypeOK, NEW n \in Node, NodeInv(n), ExchangeChangelog(n)
    PROVE  NodeInv(n)'
  BY DEF ExchangeChangelog, TypeOK, NodeInv, ReadIsUnsynced, DoneIsHandled,
         TransferIsTaken, KeepsEntry, InLoop

LEMMA ManualReadLocal ==
    ASSUME TypeOK, NEW n \in Node, NodeInv(n), ReadLocal(n)
    PROVE  NodeInv(n)'
  <1>1. /\ local'[n] = [p \in Path |-> groupEntries(log[n], p)]
        /\ localDone[n] = {} /\ cur[n] = {}
        /\ UNCHANGED <<log, localDone, cur, blocked>>
        /\ pc'[n] = "work"
    BY DEF ReadLocal, TypeOK, NodeInv, DoneIsHandled, TransferIsTaken
  <1>2. ReadIsUnsynced(n)'
    BY <1>1, GroupedEntry DEF ReadIsUnsynced
  <1>3. DoneIsHandled(n)' /\ TransferIsTaken(n)' /\ KeepsEntry(n)'
    BY <1>1 DEF NodeInv, DoneIsHandled, TransferIsTaken, KeepsEntry
  <1> QED
    BY <1>2, <1>3 DEF NodeInv

\* Handling p, or the end of its transfer, adds the id of p only.
LEMMA ManualDone ==
    ASSUME TypeOK, NEW n \in Node, NEW p \in Path, NodeInv(n), InLoop(n),
           Done(n, p) \/ NotDone,
           p \notin blocked[n], p \in todo[n] \/ p \in cur[n],
           todo'[n] \subseteq todo[n], p \notin todo'[n],
           cur'[n] = {}, pc'[n] = "work", UNCHANGED <<log, local, blocked>>
    PROVE  NodeInv(n)'
  <1>1. localDone'[n] \subseteq localDone[n] \cup ({local[n][p]} \ {0})
    BY DEF Done, NotDone, TypeOK
  <1>2. ReadIsUnsynced(n)'
    BY DEF NodeInv, ReadIsUnsynced, InLoop
  <1>3. DoneIsHandled(n)'
    BY <1>1 DEF NodeInv, DoneIsHandled
  <1>4. TransferIsTaken(n)'
    BY DEF TransferIsTaken
  <1>5. KeepsEntry(n)'
    <2> SUFFICES ASSUME NEW x \in blocked[n]
                 PROVE  UnsyncedFor(log[n], x) \ localDone'[n] # {}
      BY DEF KeepsEntry
    <2>1. PICK i \in UnsyncedFor(log[n], x) : i \notin localDone[n]
      BY DEF NodeInv, KeepsEntry
    <2>2. i # local[n][p] \/ local[n][p] = 0
      BY <2>1 DEF NodeInv, ReadIsUnsynced, UnsyncedFor
    <2> QED
      BY <1>1, <2>1, <2>2
  <1> QED
    BY <1>2, <1>3, <1>4, <1>5 DEF NodeInv

LEMMA ManualSkipBlocked ==
    ASSUME TypeOK, NEW n \in Node, NEW p \in Path, NodeInv(n), SkipBlocked(n, p)
    PROVE  NodeInv(n)'
  <1>1. /\ pc[n] = "work" /\ todo'[n] \subseteq todo[n]
        /\ blocked'[n] \subseteq blocked[n]
        /\ UNCHANGED <<log, pc, local, cur, localDone>>
    BY DEF SkipBlocked, Takes, NotDone, TypeOK
  <1> QED
    BY <1>1 DEF NodeInv, ReadIsUnsynced, DoneIsHandled, TransferIsTaken,
                KeepsEntry, InLoop

\* The path blocked by resolve keeps the entry the cycle has read.
LEMMA ManualBlock ==
    ASSUME TypeOK, NEW n \in Node, NEW p \in Path, NodeInv(n),
           BlockForManual(n, p)
    PROVE  NodeInv(n)'
  <1>1. /\ pc[n] = "work" /\ todo'[n] = todo[n] \ {p} /\ p \in todo[n]
        /\ blocked'[n] = blocked[n] \cup {p}
        /\ local[n][p] # 0
        /\ UNCHANGED <<log, pc, local, cur, localDone>>
    BY DEF BlockForManual, Proceeds, Takes, NotDone, InConflict, TypeOK
  <1>2. cur[n] = {}
    BY <1>1 DEF NodeInv, TransferIsTaken
  <1>3. local[n][p] \in UnsyncedFor(log[n], p)
    BY <1>1 DEF NodeInv, ReadIsUnsynced, InLoop
  <1>4. local[n][p] \notin localDone[n]
    <2> SUFFICES ASSUME local[n][p] \in localDone[n] PROVE FALSE
      OBVIOUS
    <2>1. PICK x \in Path : x \notin todo[n] /\ local[n][x] = local[n][p]
      BY DEF NodeInv, DoneIsHandled
    <2>2. local[n][x] \in UnsyncedFor(log[n], x)
      BY <1>1, <2>1 DEF NodeInv, ReadIsUnsynced, InLoop
    <2> QED
      BY <1>1, <1>3, <2>1, <2>2 DEF UnsyncedFor
  <1>5. KeepsEntry(n)'
    BY <1>1, <1>3, <1>4 DEF NodeInv, KeepsEntry
  <1>6. ReadIsUnsynced(n)' /\ DoneIsHandled(n)' /\ TransferIsTaken(n)'
    BY <1>1, <1>2 DEF NodeInv, ReadIsUnsynced, DoneIsHandled, TransferIsTaken,
                      InLoop
  <1> QED
    BY <1>5, <1>6 DEF NodeInv

\* A path goes into transfer.
LEMMA ManualTake ==
    ASSUME TypeOK, NEW n \in Node, NEW p \in Path, NodeInv(n), Proceeds(n, p),
           cur'[n] = {p}, pc'[n] \in {"evacuated", "delete", "send"},
           UNCHANGED <<log, local, blocked, localDone>>
    PROVE  NodeInv(n)'
  <1>1. /\ pc[n] = "work" /\ todo'[n] = todo[n] \ {p} /\ p \in todo[n]
        /\ p \notin blocked[n]
    BY DEF Proceeds, Takes, TypeOK
  <1>2. TransferIsTaken(n)'
    BY <1>1 DEF NodeInv, TransferIsTaken
  <1>3. DoneIsHandled(n)'
    BY <1>1 DEF NodeInv, DoneIsHandled
  <1> QED
    BY <1>1, <1>2, <1>3 DEF NodeInv, ReadIsUnsynced, KeepsEntry, InLoop

LEMMA ManualProcess ==
    ASSUME TypeOK, NEW n \in Node, NodeInv(n), Process(n)
    PROVE  NodeInv(n)'
  <1> PICK p \in Path :
        \/ SkipBlocked(n, p)
        \/ SkipUnknown(n, p)
        \/ NoTransfer(n, p)
        \/ BlockForManual(n, p)
        \/ EvacuateLoser(n, p)
        \/ RequestDelete(n, p)
        \/ StartSend(n, p)
    BY DEF Process
  <1>1. CASE SkipBlocked(n, p)
    BY <1>1, ManualSkipBlocked
  <1>2. CASE BlockForManual(n, p)
    BY <1>2, ManualBlock
  <1>3. CASE SkipUnknown(n, p) \/ NoTransfer(n, p)
    <2>1. /\ pc[n] = "work" /\ todo'[n] = todo[n] \ {p} /\ p \in todo[n]
          /\ p \notin blocked[n]
          /\ Done(n, p) \/ NotDone
          /\ UNCHANGED <<log, local, blocked, cur, pc>>
      BY <1>3 DEF SkipUnknown, NoTransfer, Proceeds, Takes, TypeOK
    <2>2. cur[n] = {}
      BY <2>1 DEF NodeInv, TransferIsTaken
    <2> QED
      BY <2>1, <2>2, ManualDone DEF InLoop
  <1>4. CASE RequestDelete(n, p)
    BY <1>4, ManualTake DEF RequestDelete, NotDone, TypeOK
  <1>5. CASE StartSend(n, p)
    BY <1>5, ManualTake DEF StartSend, NotDone, TypeOK
  <1>6. CASE EvacuateLoser(n, p)
    BY <1>6, ManualTake DEF EvacuateLoser, NotDone, TypeOK
  <1> QED
    BY <1>1, <1>2, <1>3, <1>4, <1>5, <1>6

\* A transfer comes to its end, or moves on within the loop.
LEMMA ManualEnds ==
    ASSUME TypeOK, NEW n \in Node, NEW p \in Path, NodeInv(n), InLoop(n),
           Ends(n, p), Done(n, p) \/ NotDone,
           UNCHANGED <<log, local, todo, blocked>>
    PROVE  NodeInv(n)'
  <1>1. p \in cur[n] /\ cur'[n] = {} /\ pc'[n] = "work"
    BY DEF Ends, TypeOK
  <1>2. p \notin todo[n] /\ p \notin blocked[n]
    BY <1>1 DEF NodeInv, TransferIsTaken
  <1> QED
    BY <1>1, <1>2, ManualDone

LEMMA ManualMoves ==
    ASSUME TypeOK, NEW n \in Node, NodeInv(n), InLoop(n),
           pc'[n] \in {"delete", "deleting", "send", "write"},
           UNCHANGED <<log, local, todo, blocked, cur, localDone>>
    PROVE  NodeInv(n)'
  BY DEF NodeInv, ReadIsUnsynced, DoneIsHandled, TransferIsTaken, KeepsEntry,
         InLoop

LEMMA ManualTransfer ==
    ASSUME TypeOK, NEW n \in Node, NodeInv(n), Transfer(n) \/ Serve(n)
    PROVE  NodeInv(n)'
  <1> PICK p \in Path :
        \/ DeleteReply(n, p)
        \/ SendRead(n, p)
        \/ SendWrite(n, p)
        \/ SendGivesUp(n, p)
        \/ DeleteRejected(n, p)
        \/ DeleteAccepted(n, p)
        \/ PushEvacuated(n, p)
    BY DEF Transfer, Serve
  <1>1. CASE DeleteReply(n, p) \/ SendWrite(n, p) \/ SendGivesUp(n, p)
             \/ DeleteRejected(n, p)
    BY <1>1, ManualEnds DEF DeleteReply, SendWrite, SendGivesUp, DeleteRejected,
                            InLoop, NotDone
  <1>2. CASE SendRead(n, p) \/ DeleteAccepted(n, p)
    BY <1>2, ManualMoves DEF SendRead, DeleteAccepted, InLoop, TypeOK
  <1>3. CASE PushEvacuated(n, p)
    <2>1. InLoop(n) /\ UNCHANGED <<log, local, todo, blocked>>
      BY <1>3 DEF PushEvacuated, InLoop
    <2>2. CASE Verdict(n, p) = "local" /\ fs[n][p] # Absent
      BY <1>3, <2>1, <2>2, ManualMoves DEF PushEvacuated, NotDone, TypeOK
    <2>3. CASE ~(Verdict(n, p) = "local" /\ fs[n][p] # Absent)
      BY <1>3, <2>1, <2>3, ManualEnds DEF PushEvacuated
    <2> QED
      BY <2>2, <2>3
  <1> QED
    BY <1>1, <1>2, <1>3

\* Marking takes the collected ids, and no blocked path's entry is among them.
LEMMA ManualMarkLocal ==
    ASSUME TypeOK, NEW n \in Node, NodeInv(n), MarkLocal(n)
    PROVE  NodeInv(n)'
  <1>1. pc[n] = "work" /\ UNCHANGED <<todo, cur, blocked>>
    BY DEF MarkLocal
  <1>2. cur[n] = {}
    BY <1>1 DEF NodeInv, TransferIsTaken
  <1>3. \A p \in Path :
          UnsyncedFor(log[n], p) \ localDone[n] \subseteq UnsyncedFor(log'[n], p)
    <2>1. CASE log' = [log EXCEPT ![n] = MarkSynced(@, localDone[n])]
      <3>1. log'[n] = MarkSynced(log[n], localDone[n]) /\ log[n] \in Seq(Entry)
        BY <2>1 DEF TypeOK
      <3> QED
        BY <3>1, UnsyncedAfterMark
    <2>2. CASE UNCHANGED log
      BY <2>2
    <2> QED
      BY <2>1, <2>2 DEF MarkLocal
  <1>4. \/ pc'[n] = "idle" /\ localDone'[n] = {} /\ local'[n] = NoEntries
        \/ pc'[n] = "ack" /\ localDone' = localDone /\ local' = local
    BY DEF MarkLocal, CycleEnds, TypeOK
  <1>5. KeepsEntry(n)'
    <2> SUFFICES ASSUME NEW p \in blocked[n]
                 PROVE  UnsyncedFor(log'[n], p) \ localDone'[n] # {}
      BY <1>1 DEF KeepsEntry
    <2>1. p \in Path
      BY DEF TypeOK
    <2>2. PICK i \in UnsyncedFor(log[n], p) : i \notin localDone[n]
      BY DEF NodeInv, KeepsEntry
    <2> QED
      BY <1>3, <1>4, <2>1, <2>2
  <1>6. ReadIsUnsynced(n)' /\ DoneIsHandled(n)' /\ TransferIsTaken(n)'
    BY <1>1, <1>2, <1>4
       DEF NodeInv, ReadIsUnsynced, DoneIsHandled, TransferIsTaken, InLoop
  <1> QED
    BY <1>5, <1>6 DEF NodeInv

\* The cycle of n is over, or its daemon has been restarted.
LEMMA ManualIdle ==
    ASSUME TypeOK, NEW n \in Node, NodeInv(n), EntriesKept(n),
           CycleEnds(n), pc'[n] = "idle", cur'[n] = {},
           blocked'[n] \subseteq blocked[n]
    PROVE  NodeInv(n)'
  <1>1. localDone'[n] = {}
    BY DEF CycleEnds, TypeOK
  <1>2. KeepsEntry(n)'
    <2> SUFFICES ASSUME NEW p \in blocked[n]
                 PROVE  UnsyncedFor(log'[n], p) \ localDone'[n] # {}
      BY DEF KeepsEntry
    <2>1. p \in Path
      BY DEF TypeOK
    <2>2. PICK i \in UnsyncedFor(log[n], p) : i \notin localDone[n]
      BY DEF NodeInv, KeepsEntry
    <2> QED
      BY <1>1, <2>1, <2>2 DEF EntriesKept
  <1>3. ReadIsUnsynced(n)' /\ DoneIsHandled(n)' /\ TransferIsTaken(n)'
    BY <1>1 DEF ReadIsUnsynced, DoneIsHandled, TransferIsTaken, InLoop
  <1> QED
    BY <1>2, <1>3 DEF NodeInv

LEMMA AckKeepsEntries ==
    ASSUME TypeOK, NEW n \in Node, AckRemote(n), NEW m \in Node
    PROVE  EntriesKept(m)
  <1>1. CASE UNCHANGED log
    BY <1>1 DEF EntriesKept
  <1>2. CASE log' = [log EXCEPT ![Peer(n)] = MarkPeerAck(@, remoteDone[n])]
    <2>1. log \in [Node -> Seq(Entry)] /\ Peer(n) \in Node
      BY PeerNode DEF TypeOK
    <2>2. log'[m] = log[m] \/ log'[m] = MarkPeerAck(log[m], remoteDone[n])
      BY <1>2, <2>1
    <2> QED
      BY <2>1, <2>2, UnsyncedAfterAck DEF EntriesKept
  <1> QED
    BY <1>1, <1>2 DEF AckRemote

\* A crash of n also ends the DeleteFile call of its peer.
LEMMA ManualCrash ==
    ASSUME TypeOK, NEW n \in Node, Crash(n), NEW m \in Node, NodeInv(m)
    PROVE  NodeInv(m)'
  <1>1. EntriesKept(m)
    BY DEF Crash, EntriesKept
  <1>2. CASE m = n
    BY <1>1, <1>2, ManualIdle DEF Crash, TypeOK
  <1>3. CASE m # n /\ pc[m] # "deleting"
    BY <1>1, <1>3, Untouched DEF Crash, CycleEnds, SameCycle, TypeOK
  <1>4. CASE m # n /\ pc[m] = "deleting"
    <2>1. /\ pc'[m] = "work" /\ cur'[m] = {} /\ todo'[m] = todo[m]
          /\ local'[m] = local[m] /\ localDone'[m] = localDone[m]
          /\ blocked'[m] = blocked[m] /\ log' = log
      BY <1>4 DEF Crash, CycleEnds, TypeOK
    <2> QED
      BY <1>4, <2>1 DEF NodeInv, ReadIsUnsynced, DoneIsHandled, TransferIsTaken,
                        KeepsEntry, InLoop
  <1> QED
    BY <1>2, <1>3, <1>4

--------------------------------------------------------------------------------
LEMMA ManualInit == Init => ManualInv
  <1> SUFFICES ASSUME Init, NEW n \in Node PROVE NodeInv(n)
    BY TypeInit DEF ManualInv
  <1> QED
    BY DEF Init, NodeInv, ReadIsUnsynced, DoneIsHandled, TransferIsTaken,
           KeepsEntry, InLoop, NoEntries

\* A cycle step of n leaves the other node's cycle alone.
LEMMA CycleOfOther ==
    ASSUME TypeOK, NEW n \in Node, NEW m \in Node, m # n, NodeInv(m),
           Cycle(n) \/ Serve(n)
    PROVE  NodeInv(m)'
  <1>1. SameCycle(m)
    <2> USE DEF SameCycle, TypeOK, Takes, Proceeds, Done, NotDone, Ends, CycleEnds
    <2>1. CASE ExchangeChangelog(n) \/ ReadLocal(n)
      BY <2>1 DEF ExchangeChangelog, ReadLocal
    <2>2. CASE Process(n)
      BY <2>2 DEF Process, SkipBlocked, SkipUnknown, NoTransfer, BlockForManual,
                  EvacuateLoser, RequestDelete, StartSend
    <2>3. CASE Transfer(n)
      BY <2>3 DEF Transfer, PushEvacuated, DeleteReply, SendRead, SendWrite,
                  SendGivesUp
    <2>4. CASE Serve(n)
      BY <2>4 DEF Serve, DeleteRejected, DeleteAccepted
    <2>5. CASE MarkLocal(n)
      BY <2>5 DEF MarkLocal
    <2>6. CASE AckRemote(n)
      BY <2>6 DEF AckRemote
    <2> QED
      BY <2>1, <2>2, <2>3, <2>4, <2>5, <2>6 DEF Cycle
  <1>2. EntriesKept(m)
    <2>1. CASE AckRemote(n)
      BY <2>1, AckKeepsEntries
    <2>2. CASE MarkLocal(n)
      BY <2>2 DEF MarkLocal, EntriesKept, TypeOK
    <2>3. CASE ExchangeChangelog(n) \/ ReadLocal(n)
      BY <2>3 DEF ExchangeChangelog, ReadLocal, EntriesKept
    <2>4. CASE Process(n)
      BY <2>4 DEF Process, SkipBlocked, SkipUnknown, NoTransfer, BlockForManual,
                  EvacuateLoser, RequestDelete, StartSend, EntriesKept
    <2>5. CASE Transfer(n) \/ Serve(n)
      BY <2>5 DEF Transfer, PushEvacuated, DeleteReply, SendRead, SendWrite, SendGivesUp, Serve,
                  DeleteRejected, DeleteAccepted, EntriesKept
    <2> QED
      BY <2>1, <2>2, <2>3, <2>4, <2>5 DEF Cycle
  <1> QED
    BY <1>1, <1>2, Untouched

LEMMA CycleOfSelf ==
    ASSUME TypeOK, NEW n \in Node, NodeInv(n), Cycle(n) \/ Serve(n)
    PROVE  NodeInv(n)'
  <1>1. CASE AckRemote(n)
    <2>1. EntriesKept(n)
      BY <1>1, AckKeepsEntries
    <2>2. cur[n] = {} /\ cur' = cur
      BY <1>1 DEF AckRemote, NodeInv, TransferIsTaken
    <2> QED
      BY <1>1, <2>1, <2>2, ManualIdle DEF AckRemote, TypeOK
  <1> QED
    BY <1>1, ManualExchange, ManualReadLocal, ManualProcess, ManualTransfer,
       ManualMarkLocal DEF Cycle

LEMMA ManualFailure ==
    ASSUME TypeOK, NEW n \in Node, Failure(n), NEW m \in Node, NodeInv(m)
    PROVE  NodeInv(m)'
  <1>1. ASSUME NEW p \in Path, OpFails(n, p) PROVE NodeInv(m)'
    <2>1. CASE m = n
      BY <1>1, <2>1, ManualEnds DEF OpFails, InLoop, NotDone
    <2>2. CASE m # n
      BY <1>1, <2>2, Untouched DEF OpFails, Ends, SameCycle, EntriesKept, TypeOK
    <2> QED
      BY <2>1, <2>2
  <1>2. CASE SendRetry(n)
    <2>1. CASE m = n
      BY <1>2, <2>1, ManualMoves DEF SendRetry, InLoop, TypeOK
    <2>2. CASE m # n
      BY <1>2, <2>2, Untouched DEF SendRetry, SameCycle, EntriesKept, TypeOK
    <2> QED
      BY <2>1, <2>2
  <1>3. CASE Crash(n)
    BY <1>3, ManualCrash
  <1>4. ASSUME NEW p \in Path, EvacuateFails(n, p) PROVE NodeInv(m)'
    <2>1. /\ pc[n] = "work" /\ todo'[n] = todo[n] \ {p} /\ p \in todo[n]
          /\ p \notin blocked[n] /\ NotDone
          /\ UNCHANGED <<log, local, blocked, cur, pc>>
      BY <1>4 DEF EvacuateFails, Proceeds, Takes, TypeOK
    <2>2. CASE m = n
      <3>1. cur[n] = {}
        BY <2>1, <2>2 DEF NodeInv, TransferIsTaken
      <3> QED
        BY <2>1, <2>2, <3>1, ManualDone DEF InLoop
    <2>3. CASE m # n
      <3>1. todo'[m] = todo[m] /\ localDone' = localDone
        BY <1>4, <2>3 DEF EvacuateFails, Proceeds, Takes, NotDone, TypeOK
      <3> QED
        BY <2>1, <2>3, <3>1, Untouched DEF SameCycle, EntriesKept
    <2> QED
      BY <2>2, <2>3
  <1> QED
    BY <1>1, <1>2, <1>3, <1>4 DEF Failure

LEMMA ManualStep == ManualInv /\ [Next]_vars => ManualInv'
  <1> SUFFICES ASSUME ManualInv, [Next]_vars, NEW m \in Node PROVE NodeInv(m)'
    BY TypeStep DEF ManualInv
  <1>1. TypeOK /\ NodeInv(m)
    BY DEF ManualInv
  <1>2. ASSUME NEW n \in Node, User(n) PROVE NodeInv(m)'
    BY <1>1, <1>2, Untouched
       DEF User, UserWrite, UserRemove, UserChange, cycleVars, SameCycle,
           EntriesKept
  <1>3. ASSUME NEW n \in Node, NEW p \in Path, Flush(n, p) PROVE NodeInv(m)'
    BY <1>1, <1>3, Untouched, FlushKeepsEntries DEF Flush, cycleVars, SameCycle
  <1>4. ASSUME NEW n \in Node, Cycle(n) \/ Serve(n) PROVE NodeInv(m)'
    BY <1>1, <1>4, CycleOfSelf, CycleOfOther
  <1>5. ASSUME NEW n \in Node, NEW p \in Path, RemoveAll(n, p) PROVE NodeInv(m)'
    BY <1>1, <1>5, Untouched DEF RemoveAll, cycleVars, SameCycle, EntriesKept
  <1>6. ASSUME NEW n \in Node, Failure(n) PROVE NodeInv(m)'
    BY <1>1, <1>6, ManualFailure
  <1>7. CASE UNCHANGED vars
    BY <1>1, <1>7, Untouched DEF vars, SameCycle, EntriesKept
  <1> QED
    BY <1>2, <1>3, <1>4, <1>5, <1>6, <1>7 DEF Next

\* While a path is blocked its node keeps an unsynced entry for it that the running
\* cycle will not mark, however users, failures and crashes interleave with the
\* cycles of both nodes (reconciler.go:99-107, 158-161, 180-182).
THEOREM BlockedKeepsEntryHolds == Spec => []BlockedKeepsEntry
  <1>1. ManualInv => BlockedKeepsEntry
    BY DEF ManualInv, NodeInv, KeepsEntry, BlockedKeepsEntry
  <1> QED
    BY <1>1, ManualInit, ManualStep, PTL DEF Spec

--------------------------------------------------------------------------------
(* One change at a time.  While users wait for a change to settle, all that   *)
(* the daemons hold of a path (events, entries, ids in a cycle, running calls *)
(* and transfers) tells of its last change, and only a node that has the last *)
(* version holds any of it (Word, Work).  Hence every step that writes a file *)
(* brings it up to date, and a cycle is through with an entry only when the   *)
(* peer is up to date (Steady).                                               *)

\* An event or entry of this type tells of the last change of p.
Agrees(type, p) == type = "delete" <=> latest[p] = Absent

\* Node n has word of a change of p, in its own memory, its changelog, or its
\* peer's cycle.
Told(n, p) ==
    \/ pending[n][p] # "none"
    \/ UnsyncedFor(log[n], p) # {}
    \/ local[n][p] # 0
    \/ remote[Peer(n)][p] # 0

Word(n, p) ==
    /\ pending[n][p] # "none" => Agrees(pending[n][p], p)
    /\ \A i \in UnsyncedFor(log[n], p) : Agrees(log[n][i].type, p)
    /\ local[n][p] # 0 => Agrees(log[n][local[n][p]].type, p)
    /\ remote[Peer(n)][p] # 0 => Agrees(log[n][remote[Peer(n)][p]].type, p)
    /\ Told(n, p) => fs[n][p] = latest[p]

\* Handlers and transfers under way.
Work(n, p) ==
    /\ p \in deleting[n] => latest[p] = Absent
    /\ p \in cur[n] =>
         /\ pc[n] # "evacuated"
         /\ pc[n] \in {"delete", "deleting"} => latest[p] = Absent
         /\ pc[n] = "deleting" /\ p \notin deleting[Peer(n)]
              => fs[Peer(n)][p] = Absent
         /\ pc[n] \in {"send", "write"} =>
              latest[p] # Absent /\ fs[n][p] = latest[p]
         /\ pc[n] = "write" => buf[n] = latest[p]

IdleClean(n) == pc[n] = "idle" => local[n] = NoEntries /\ remote[n] = NoEntries

\* keep_both finds no two versions to keep.
OneTells(p) ==
    policy = "keep_both" => latest[p] = Absent \/ \E n \in Node : ~Told(n, p)

PatientParts ==
    /\ \A n \in Node : NodeInv(n) /\ IdleClean(n)
    /\ \A n \in Node, p \in Path : Word(n, p) /\ Work(n, p)
    /\ \A p \in Path : OneTells(p)

\* What a step of a daemon may do to p on node n.
Steady(n, p) ==
    /\ latest'[p] = latest[p]
    /\ fs'[n][p] \in {fs[n][p], latest[p]}
    /\ Owes(n, p) => Owes(n, p)' \/ fs'[Peer(n)][p] = latest[p]

Good(n, p) == Word(n, p)' /\ Work(n, p)' /\ Steady(n, p)

\* Word, when what is new agrees with the last change and the node has it.
LEMMA WordKept ==
    ASSUME TypeOK, NEW m \in Node, NEW x \in Path, Word(m, x),
           latest'[x] = latest[x],
           fs'[m][x] \in {fs[m][x], latest[x]},
           \/ pending'[m][x] \in {pending[m][x], "none"}
           \/ Agrees(pending'[m][x], x) /\ fs'[m][x] = latest[x],
           \A i \in UnsyncedFor(log'[m], x) :
              \/ i \in UnsyncedFor(log[m], x)
              \/ Agrees(log'[m][i].type, x) /\ fs'[m][x] = latest[x],
           \A i \in 1..Len(log[m]) : log'[m][i].type = log[m][i].type,
           local'[m][x] \in {local[m][x], 0} \cup UnsyncedFor(log[m], x),
           remote'[Peer(m)][x]
             \in {remote[Peer(m)][x], 0} \cup UnsyncedFor(log[m], x)
    PROVE  Word(m, x)'
  <1> DEFINE l == local'[m][x]
             r == remote'[Peer(m)][x]
  <1>1. /\ Peer(m) \in Node /\ Peer(Peer(m)) = m
        /\ log[m] \in Seq(Entry)
        /\ local[m][x] \in 0..Len(log[m])
        /\ remote[Peer(m)][x] \in 0..Len(log[m])
        /\ DOMAIN log[m] = 1..Len(log[m]) /\ Len(log[m]) \in Nat
    <2>1. Peer(m) \in Node /\ Peer(Peer(m)) = m
      BY PeerNode
    <2>2. remote[Peer(m)][x] \in 0..Len(log[Peer(Peer(m))])
      BY <2>1 DEF TypeOK
    <2> QED
      BY <2>1, <2>2 DEF TypeOK
  <1>2. UnsyncedFor(log[m], x) \subseteq 1..Len(log[m])
    BY <1>1 DEF UnsyncedFor, Unsynced
  <1>3. ASSUME NEW i \in UnsyncedFor(log[m], x)
        PROVE  /\ Agrees(log'[m][i].type, x)
               /\ Told(m, x)
    BY <1>2, <1>3 DEF Word, Told
  <1>4. l # 0 => Agrees(log'[m][l].type, x) /\ Told(m, x)
    <2>1. CASE l = local[m][x]
      BY <1>1, <2>1 DEF Word, Told
    <2>2. CASE l \in UnsyncedFor(log[m], x)
      BY <1>3, <2>2
    <2> QED
      BY <2>1, <2>2
  <1>5. r # 0 => Agrees(log'[m][r].type, x) /\ Told(m, x)
    <2>1. CASE r = remote[Peer(m)][x]
      BY <1>1, <2>1 DEF Word, Told
    <2>2. CASE r \in UnsyncedFor(log[m], x)
      BY <1>3, <2>2
    <2> QED
      BY <2>1, <2>2
  <1>6. Told(m, x) => fs'[m][x] = latest[x]
    BY DEF Word
  <1>7. ASSUME NEW i \in UnsyncedFor(log'[m], x)
        PROVE  Agrees(log'[m][i].type, x) /\ fs'[m][x] = latest[x]
    BY <1>3, <1>6
  <1>8. pending'[m][x] # "none" =>
          Agrees(pending'[m][x], x) /\ fs'[m][x] = latest[x]
    BY <1>6 DEF Word, Told
  <1>9. \A t : Agrees(t, x)' <=> (t = "delete" <=> latest[x] = Absent)
    BY DEF Agrees
  <1>10. Told(m, x)' => fs'[m][x] = latest'[x]
    BY <1>4, <1>5, <1>6, <1>7, <1>8 DEF Told
  <1> QED
    BY <1>4, <1>5, <1>7, <1>8, <1>10 DEF Word, Agrees

\* Work, for a node whose cycle stands still ...
LEMMA WorkKept ==
    ASSUME TypeOK, NEW m \in Node, NEW x \in Path, Work(m, x),
           latest'[x] = latest[x],
           fs'[m][x] \in {fs[m][x], latest[x]},
           fs'[Peer(m)][x] \in {fs[Peer(m)][x], latest[x]},
           pc'[m] = pc[m], cur'[m] = cur[m], buf'[m] = buf[m],
           x \in deleting'[m] => x \in deleting[m] \/ latest[x] = Absent,
           x \in deleting[Peer(m)] =>
             x \in deleting'[Peer(m)] \/ fs'[Peer(m)][x] = Absent
    PROVE  Work(m, x)'
  BY DEF Work

\* ... and for one that is not transferring x.
LEMMA WorkFree ==
    ASSUME NEW m \in Node, NEW x \in Path, Work(m, x), latest'[x] = latest[x],
           x \notin cur'[m],
           x \in deleting'[m] => x \in deleting[m] \/ latest[x] = Absent
    PROVE  Work(m, x)'
  BY DEF Work

LEMMA OwesKept ==
    ASSUME NEW m \in Node, NEW x \in Path,
           pending[m][x] # "none" => pending'[m][x] # "none",
           UnsyncedFor(log[m], x) \ localDone[m]
             \subseteq UnsyncedFor(log'[m], x) \ localDone'[m]
    PROVE  Owes(m, x) => Owes(m, x)'
  BY DEF Owes

Fine ==
    /\ \A m \in Node : IdleClean(m)'
    /\ \A m \in Node, x \in Path : Good(m, x)

\* A node whose entry a cycle holds has the last version, and the entry says so.
LEMMA HeldIsLatest ==
    ASSUME TypeOK, PatientParts, NEW n \in Node, NEW p \in Path
    PROVE  /\ local[n][p] # 0 =>
                Agrees(LocalType(n, p), p) /\ fs[n][p] = latest[p] /\ Told(n, p)
           /\ remote[n][p] # 0 =>
                /\ Agrees(RemoteType(n, p), p)
                /\ fs[Peer(n)][p] = latest[p] /\ Told(Peer(n), p)
  <1>1. Peer(n) \in Node /\ Peer(Peer(n)) = n
    BY PeerNode
  <1>2. Word(n, p) /\ Word(Peer(n), p)
    BY <1>1 DEF PatientParts
  <1> QED
    BY <1>1, <1>2 DEF Word, Told, LocalType, RemoteType

LEMMA NeverEvacuates ==
    ASSUME TypeOK, PatientParts, NEW n \in Node, NEW p \in Path
    PROVE  ~Evacuates(n, p)
  <1> SUFFICES ASSUME Evacuates(n, p) PROVE FALSE
    OBVIOUS
  <1>1. Told(n, p) /\ Told(Peer(n), p) /\ latest[p] # Absent
    BY HeldIsLatest DEF Evacuates, InConflict, Agrees
  <1>2. \A m \in Node : Told(m, p)
    BY <1>1, NodePeers
  <1> QED
    BY <1>1, <1>2 DEF PatientParts, OneTells, Evacuates

\* A step that touches none of it.
LEMMA PatientQuiet ==
    ASSUME TypeOK, PatientParts,
           UNCHANGED <<fs, pending, log, latest, local, remote, deleting, cur, pc,
                       buf, localDone>>
    PROVE  Fine
  BY DEF Fine, Good, Steady, PatientParts, Word, Told, Agrees, Work, IdleClean, Owes

\* A row is appended.
LEMMA PatientAppend ==
    ASSUME TypeOK, PatientParts, NEW n \in Node, NEW p \in Path, NEW e \in Entry,
           e.path = p, ~e.synced, Agrees(e.type, p), fs[n][p] = latest[p],
           log' = [log EXCEPT ![n] = Append(log[n], e)],
           pending' = pending \/ pending' = [pending EXCEPT ![n][p] = "none"],
           UNCHANGED <<fs, latest, local, remote, deleting, cur, pc, buf, localDone>>
    PROVE  Fine /\ Owes(n, p)'
  <1> SUFFICES ASSUME NEW m \in Node, NEW x \in Path
               PROVE  /\ IdleClean(m)' /\ Good(m, x)
                      /\ m = n /\ x = p => Owes(m, x)'
    BY DEF Fine
  <1>1. IdleClean(m)'
    BY DEF PatientParts, IdleClean
  <1>2. Work(m, x)'
    BY DEF PatientParts, Work
  <1>3. /\ log[m] \in Seq(Entry) /\ Len(log[m]) \in Nat
        /\ DOMAIN log[m] = 1..Len(log[m])
    BY DEF TypeOK
  <1>4. CASE m # n
    <2>1. log'[m] = log[m] /\ pending'[m] = pending[m]
      BY <1>4 DEF TypeOK
    <2>2. Word(m, x)'
      BY <2>1, WordKept DEF PatientParts
    <2>3. Steady(m, x)
      BY <2>1 DEF Steady, Owes
    <2> QED
      BY <1>1, <1>2, <1>4, <2>2, <2>3 DEF Good
  <1>5. CASE m = n
    <2>1. /\ log'[m] = Append(log[m], e)
          /\ DOMAIN log'[m] = 1..(Len(log[m]) + 1)
          /\ \A i \in 1..Len(log[m]) : log'[m][i] = log[m][i]
          /\ log'[m][Len(log[m]) + 1] = e
      BY <1>3, <1>5 DEF TypeOK
    <2>2. \A i \in UnsyncedFor(log'[m], x) :
            i \in UnsyncedFor(log[m], x) \/ (i = Len(log[m]) + 1 /\ x = p)
      BY <1>3, <2>1 DEF UnsyncedFor, Unsynced
    <2>3. UnsyncedFor(log[m], x) \subseteq UnsyncedFor(log'[m], x)
      BY <1>3, <2>1 DEF UnsyncedFor, Unsynced
    <2>4. x = p => Len(log[m]) + 1 \in UnsyncedFor(log'[m], x)
      BY <1>3, <2>1 DEF UnsyncedFor, Unsynced
    <2>5. /\ pending'[m][x] = pending[m][x] \/ pending'[m][x] = "none"
          /\ x # p => pending'[m][x] = pending[m][x]
      <3>1. pending \in [Node -> [Path -> Event]]
        BY DEF TypeOK
      <3>2. CASE pending' = pending
        BY <3>2
      <3>3. CASE pending' = [pending EXCEPT ![n][p] = "none"]
        BY <1>5, <3>1, <3>3
      <3> QED
        BY <3>2, <3>3
    <2>6. Word(m, x)'
      BY <1>5, <2>1, <2>2, <2>5, WordKept DEF PatientParts
    <2>7. Len(log[m]) + 1 \notin localDone[m]
      <3> SUFFICES ASSUME Len(log[m]) + 1 \in localDone[m] PROVE FALSE
        OBVIOUS
      <3>1. PICK y \in Path : local[m][y] = Len(log[m]) + 1
        BY DEF PatientParts, NodeInv, DoneIsHandled
      <3> QED
        BY <1>3, <3>1 DEF TypeOK
    <2>8. x = p => Owes(m, x)'
      BY <2>4, <2>7 DEF Owes
    <2>9. Owes(m, x) => Owes(m, x)'
      BY <2>3, <2>5, <2>8 DEF Owes
    <2> QED
      BY <1>1, <1>2, <2>6, <2>8, <2>9 DEF Good, Steady
  <1> QED
    BY <1>4, <1>5

LEMMA PatientFlush ==
    ASSUME TypeOK, PatientParts, NEW n \in Node, NEW p \in Path, Flush(n, p)
    PROVE  Fine
  <1>1. PICK t \in Stamps(n) :
          log' = [log EXCEPT ![n] = Append(@,
                    [path |-> p, type |-> pending[n][p], hlc |-> t,
                     synced |-> FALSE, ack |-> FALSE])]
    BY DEF Flush
  <1>2. t \in Nat
    BY DEF Stamps, TypeOK, Node
  <1>3. pending[n][p] \in EventType
    BY DEF Flush, TypeOK, Event
  <1> DEFINE e == [path |-> p, type |-> pending[n][p], hlc |-> t,
                   synced |-> FALSE, ack |-> FALSE]
  <1>4. e \in Entry
    BY <1>2, <1>3 DEF Entry
  <1>5. log' = [log EXCEPT ![n] = Append(log[n], e)]
    BY <1>1 DEF TypeOK
  <1>6. e.path = p /\ ~e.synced /\ e.type = pending[n][p]
    OBVIOUS
  <1> HIDE DEF e
  <1>7. Agrees(e.type, p) /\ fs[n][p] = latest[p]
    BY <1>6 DEF Flush, PatientParts, Word, Told
  <1>8. /\ pending' = [pending EXCEPT ![n][p] = "none"]
        /\ UNCHANGED <<fs, latest, local, remote, deleting, cur, pc, buf, localDone>>
    BY DEF Flush, cycleVars
  <1> QED
    BY <1>4, <1>5, <1>6, <1>7, <1>8, PatientAppend

\* The ids a cycle reads are those of unsynced entries.
LEMMA PatientExchange ==
    ASSUME TypeOK, PatientParts, NEW n \in Node, ExchangeChangelog(n)
    PROVE  Fine
  <1>1. /\ remote'[n] = [p \in Path |-> groupEntries(log[Peer(n)], p)]
        /\ \A k \in Node : k # n => remote'[k] = remote[k] /\ pc'[k] = pc[k]
        /\ pc[n] = "idle" /\ pc'[n] = "fetched"
        /\ UNCHANGED <<fs, pending, log, latest, local, deleting, cur, buf,
                       localDone>>
    BY DEF ExchangeChangelog, fsVars, TypeOK
  <1>0. ASSUME NEW m \in Node PROVE IdleClean(m)'
    BY <1>1 DEF PatientParts, IdleClean
  <1> SUFFICES ASSUME NEW m \in Node, NEW x \in Path PROVE Good(m, x)
    BY <1>0 DEF Fine
  <1>2. Peer(m) \in Node /\ Peer(Peer(m)) = m
    BY PeerNode
  <1>3. remote'[Peer(m)][x]
          \in {remote[Peer(m)][x], 0} \cup UnsyncedFor(log[m], x)
    BY <1>1, <1>2, GroupedEntry
  <1>4. Word(m, x)'
    BY <1>1, <1>3, WordKept DEF PatientParts
  <1>5. cur[n] = {}
    BY <1>1 DEF PatientParts, NodeInv, TransferIsTaken
  <1>6. Work(m, x)'
    BY <1>1, <1>5 DEF PatientParts, Work
  <1> QED
    BY <1>1, <1>4, <1>6 DEF Good, Steady, Owes

LEMMA PatientReadLocal ==
    ASSUME TypeOK, PatientParts, NEW n \in Node, ReadLocal(n)
    PROVE  Fine
  <1>1. /\ local'[n] = [p \in Path |-> groupEntries(log[n], p)]
        /\ \A k \in Node : k # n => local'[k] = local[k] /\ pc'[k] = pc[k]
        /\ pc[n] = "fetched" /\ pc'[n] = "work"
        /\ UNCHANGED <<fs, pending, log, latest, remote, deleting, cur, buf,
                       localDone>>
    BY DEF ReadLocal, fsVars, TypeOK
  <1>0. ASSUME NEW m \in Node PROVE IdleClean(m)'
    BY <1>1 DEF PatientParts, IdleClean
  <1> SUFFICES ASSUME NEW m \in Node, NEW x \in Path PROVE Good(m, x)
    BY <1>0 DEF Fine
  <1>2. local'[m][x] \in {local[m][x], 0} \cup UnsyncedFor(log[m], x)
    BY <1>1, GroupedEntry
  <1>3. Word(m, x)'
    BY <1>1, <1>2, WordKept DEF PatientParts
  <1>4. cur[n] = {}
    BY <1>1 DEF PatientParts, NodeInv, TransferIsTaken
  <1>5. Work(m, x)'
    BY <1>1, <1>4 DEF PatientParts, Work
  <1> QED
    BY <1>1, <1>3, <1>5 DEF Good, Steady, Owes

\* Collecting the id of p leaves what is owed of every other path.
LEMMA DoneLeavesOthers ==
    ASSUME TypeOK, NEW n \in Node, NEW p \in Path, NodeInv(n), InLoop(n), Done(n, p),
           NEW m \in Node, NEW x \in Path, ~(m = n /\ x = p)
    PROVE  UnsyncedFor(log[m], x) \ localDone[m]
             \subseteq UnsyncedFor(log[m], x) \ localDone'[m]
  <1>1. CASE m # n
    BY <1>1 DEF Done, TypeOK
  <1>2. CASE m = n
    <2>1. localDone'[n] = localDone[n] \cup ({local[n][p]} \ {0})
      BY DEF Done, TypeOK
    <2>2. local[n][p] # 0 => local[n][p] \in UnsyncedFor(log[n], p)
      BY DEF NodeInv, ReadIsUnsynced
    <2> QED
      BY <1>2, <2>1, <2>2 DEF UnsyncedFor
  <1> QED
    BY <1>1, <1>2

LEMMA PatientNoTransfer ==
    ASSUME TypeOK, PatientParts, NEW n \in Node, NEW p \in Path, NoTransfer(n, p)
    PROVE  Fine
  <1> SUFFICES ASSUME NEW m \in Node, NEW x \in Path
               PROVE  IdleClean(m)' /\ Good(m, x)
    BY DEF Fine
  <1>1. /\ Done(n, p) /\ pc[n] = "work"
        /\ UNCHANGED <<fs, pending, log, latest, local, remote, deleting, cur, pc,
                       buf>>
    BY DEF NoTransfer, Proceeds, Takes, fsVars
  <1>2. IdleClean(m)' /\ Word(m, x)' /\ Work(m, x)'
    BY <1>1 DEF PatientParts, IdleClean, Word, Told, Agrees, Work
  <1>3. fs[Peer(n)][p] = latest[p]
    <2>1. CASE LocalType(n, p) = "delete" /\ RemoteType(n, p) = "delete"
      BY <2>1, HeldIsLatest DEF RemoteType
    <2>2. CASE Pulls(n, p)
      BY <2>2, HeldIsLatest DEF Pulls, InConflict
    <2>3. CASE Pushes(n, p) /\ LocalType(n, p) # "delete" /\ fs[n][p] = Absent
      BY <2>3, HeldIsLatest DEF Pushes, InConflict, Agrees
    <2> QED
      BY <2>1, <2>2, <2>3 DEF NoTransfer
  <1>4. Steady(m, x)
    <2>1. CASE m = n /\ x = p
      BY <1>1, <1>3, <2>1 DEF Steady
    <2>2. CASE ~(m = n /\ x = p)
      <3>1. NodeInv(n) /\ InLoop(n)
        BY <1>1 DEF PatientParts, InLoop
      <3> QED
        BY <1>1, <2>2, <3>1, DoneLeavesOthers, OwesKept DEF Steady
    <2> QED
      BY <2>1, <2>2
  <1> QED
    BY <1>2, <1>4 DEF Good

\* The cycle of n moves on without being through with a path.
LEMMA PatientMoves ==
    ASSUME TypeOK, PatientParts, NEW n \in Node,
           UNCHANGED <<fs, pending, log, latest, local, remote, localDone>>,
           pc'[n] # "idle",
           \A k \in Node :
              k # n => pc'[k] = pc[k] /\ cur'[k] = cur[k] /\ buf'[k] = buf[k],
           \A x \in Path : Work(n, x)',
           \A x \in deleting'[Peer(n)] : x \in deleting[Peer(n)] \/ latest[x] = Absent,
           deleting[n] \subseteq deleting'[n]
    PROVE  Fine
  <1>1. ASSUME NEW m \in Node PROVE IdleClean(m)'
    BY DEF PatientParts, IdleClean
  <1> SUFFICES ASSUME NEW m \in Node, NEW x \in Path PROVE Good(m, x)
    BY <1>1 DEF Fine
  <1>2. Word(m, x)'
    BY DEF PatientParts, Word, Told, Agrees
  <1>3. Work(m, x)'
    <2>1. CASE m = n
      BY <2>1
    <2>2. CASE m # n
      <3>1. m = Peer(n) /\ Peer(m) = n
        BY <2>2, NodePeers, PeerNode
      <3> QED
        BY <2>2, <3>1, WorkKept DEF PatientParts
    <2> QED
      BY <2>1, <2>2
  <1> QED
    BY <1>2, <1>3 DEF Good, Steady, Owes

\* A delete is requested, or a transfer begins.
LEMMA PatientTake ==
    ASSUME TypeOK, PatientParts, NEW n \in Node, NEW p \in Path,
           RequestDelete(n, p) \/ StartSend(n, p)
    PROVE  Fine
  <1>1. /\ UNCHANGED <<fs, pending, log, latest, local, remote, localDone, deleting,
                       buf>>
        /\ cur'[n] = {p} /\ pc'[n] \in {"delete", "send"}
        /\ \A k \in Node : k # n => pc'[k] = pc[k] /\ cur'[k] = cur[k]
    BY DEF RequestDelete, StartSend, NotDone, fsVars, TypeOK
  <1>2. RequestDelete(n, p) => pc'[n] = "delete" /\ latest[p] = Absent
    BY HeldIsLatest
       DEF RequestDelete, Pushes, Pulls, InConflict, Agrees, TypeOK
  <1>3. StartSend(n, p) =>
          pc'[n] = "send" /\ latest[p] # Absent /\ fs[n][p] = latest[p]
    BY HeldIsLatest DEF StartSend, Pushes, InConflict, Agrees, TypeOK
  <1>4. ASSUME NEW x \in Path PROVE Work(n, x)'
    BY <1>1, <1>2, <1>3 DEF PatientParts, Work
  <1> QED
    BY <1>1, <1>4, PatientMoves

\* The transfer of p comes to nothing.
LEMMA PatientEnds ==
    ASSUME TypeOK, PatientParts, NEW n \in Node, NEW p \in Path, Ends(n, p),
           UNCHANGED <<fs, pending, log, latest, local, remote, localDone>>,
           \/ UNCHANGED deleting
           \/ deleting' = [deleting EXCEPT ![Peer(n)] = @ \ {p}]
    PROVE  Fine
  <1>1. /\ cur'[n] = {} /\ pc'[n] = "work"
        /\ \A k \in Node :
             k # n => pc'[k] = pc[k] /\ cur'[k] = cur[k] /\ buf'[k] = buf[k]
    BY DEF Ends, TypeOK
  <1>2. /\ deleting'[Peer(n)] \subseteq deleting[Peer(n)]
        /\ deleting'[n] = deleting[n]
    BY PeerNode DEF TypeOK
  <1>3. ASSUME NEW x \in Path PROVE Work(n, x)'
    BY <1>1, <1>2, WorkFree DEF PatientParts
  <1> QED
    BY <1>1, <1>2, <1>3, PatientMoves

LEMMA PatientDeleteAccepted ==
    ASSUME TypeOK, PatientParts, NEW n \in Node, NEW p \in Path,
           DeleteAccepted(n, p)
    PROVE  Fine
  <1>1. /\ UNCHANGED <<fs, pending, log, latest, local, remote, localDone, cur, buf>>
        /\ p \in cur[n] /\ pc[n] = "delete" /\ pc'[n] = "deleting"
        /\ \A k \in Node : k # n => pc'[k] = pc[k]
    BY DEF DeleteAccepted, fsVars, TypeOK
  <1>2. /\ deleting'[Peer(n)] = deleting[Peer(n)] \cup {p}
        /\ deleting'[n] = deleting[n]
    BY PeerNode DEF DeleteAccepted, TypeOK
  <1>3. latest[p] = Absent
    BY <1>1 DEF PatientParts, Work
  <1>4. Peer(n) \in Node
    BY PeerNode
  <1>5. cur[n] = {p}
    BY <1>1 DEF PatientParts, NodeInv, TransferIsTaken
  <1>6. ASSUME NEW x \in Path PROVE Work(n, x)'
    BY <1>1, <1>2, <1>3, <1>5 DEF PatientParts, Work
  <1> QED
    BY <1>1, <1>2, <1>3, <1>6, PatientMoves

LEMMA PatientRead ==
    ASSUME TypeOK, PatientParts, NEW n \in Node,
           SendRetry(n) \/ \E p \in Path : SendRead(n, p)
    PROVE  Fine
  <1>1. /\ UNCHANGED <<fs, pending, log, latest, local, remote, localDone, cur,
                       deleting>>
        /\ pc[n] \in {"send", "write"} /\ pc'[n] \in {"send", "write"}
        /\ \A k \in Node : k # n => pc'[k] = pc[k] /\ buf'[k] = buf[k]
    BY DEF SendRetry, SendRead, fsVars, TypeOK
  <1>2. ASSUME NEW x \in Path, x \in cur[n], pc'[n] = "write"
        PROVE  buf'[n] = latest[x]
    <2>1. PICK p \in Path : SendRead(n, p)
      BY <1>2 DEF SendRetry, TypeOK
    <2>2. p \in cur[n] /\ pc[n] = "send" /\ buf'[n] = fs[n][p]
      BY <2>1 DEF SendRead, TypeOK
    <2>3. x = p
      BY <1>2, <2>2 DEF PatientParts, NodeInv, TransferIsTaken
    <2> QED
      BY <2>2, <2>3 DEF PatientParts, Work
  <1>3. ASSUME NEW x \in Path PROVE Work(n, x)'
    BY <1>1, <1>2 DEF PatientParts, Work
  <1> QED
    BY <1>1, <1>3, PatientMoves

\* os.RemoveAll removes a file that is to be gone.
LEMMA PatientRemoveAll ==
    ASSUME TypeOK, PatientParts, NEW n \in Node, NEW p \in Path, RemoveAll(n, p)
    PROVE  Fine
  <1>1. /\ UNCHANGED <<log, latest, local, remote, localDone, pc, cur, buf>>
        /\ p \in deleting[n]
    BY DEF RemoveAll, cycleVars
  <1>2. latest[p] = Absent
    BY <1>1 DEF PatientParts, Work
  <1>3. ASSUME NEW m \in Node, NEW x \in Path, ~(m = n /\ x = p)
        PROVE  /\ fs'[m][x] = fs[m][x] /\ pending'[m][x] = pending[m][x]
               /\ x \in deleting'[m] <=> x \in deleting[m]
    BY <1>3 DEF RemoveAll, TypeOK
  <1>4. /\ fs'[n][p] = Absent
        /\ pending'[n][p] \in {pending[n][p], "delete"}
        /\ p \notin deleting'[n]
    BY DEF RemoveAll, TypeOK
  <1>5. ASSUME NEW m \in Node PROVE IdleClean(m)'
    BY <1>1 DEF PatientParts, IdleClean
  <1> SUFFICES ASSUME NEW m \in Node, NEW x \in Path PROVE Good(m, x)
    BY <1>5 DEF Fine
  <1>6. \A k \in Node : fs'[k][x] \in {fs[k][x], latest[x]}
    BY <1>2, <1>3, <1>4
  <1>7. Word(m, x)'
    <2>1. CASE m = n /\ x = p
      <3>1. Agrees("delete", x)
        BY <1>2, <2>1 DEF Agrees
      <3> QED
        BY <1>1, <1>2, <1>4, <1>6, <2>1, <3>1, WordKept DEF PatientParts
    <2>2. CASE ~(m = n /\ x = p)
      BY <1>1, <1>3, <1>6, <2>2, WordKept DEF PatientParts
    <2> QED
      BY <2>1, <2>2
  <1>8. Work(m, x)'
    <2>1. Peer(m) \in Node
      BY PeerNode
    <2>2. x \in deleting'[m] => x \in deleting[m]
      BY <1>3, <1>4
    <2>3. x \in deleting[Peer(m)] =>
            x \in deleting'[Peer(m)] \/ fs'[Peer(m)][x] = Absent
      BY <1>3, <1>4, <2>1
    <2> QED
      BY <1>1, <1>6, <2>1, <2>2, <2>3, WorkKept DEF PatientParts
  <1>9. Owes(m, x) => Owes(m, x)'
    <2>1. pending[m][x] # "none" => pending'[m][x] # "none"
      BY <1>3, <1>4
    <2> QED
      BY <1>1, <2>1, OwesKept
  <1> QED
    BY <1>1, <1>6, <1>7, <1>8, <1>9 DEF Good, Steady

\* The reply to DeleteFile, or rsync's rename, finds or makes the peer up to date.
LEMMA PatientDeleteReply ==
    ASSUME TypeOK, PatientParts, NEW n \in Node, NEW p \in Path, DeleteReply(n, p)
    PROVE  Fine
  <1>1. /\ UNCHANGED <<fs, pending, log, latest, local, remote, deleting>>
        /\ Done(n, p) /\ p \in cur[n] /\ pc[n] = "deleting"
        /\ cur'[n] = {} /\ pc'[n] = "work"
        /\ \A k \in Node :
             k # n => pc'[k] = pc[k] /\ cur'[k] = cur[k] /\ buf'[k] = buf[k]
    BY DEF DeleteReply, Ends, fsVars, TypeOK
  <1>2. fs[Peer(n)][p] = latest[p]
    BY <1>1 DEF DeleteReply, PatientParts, Work
  <1>3. ASSUME NEW m \in Node PROVE IdleClean(m)'
    BY <1>1 DEF PatientParts, IdleClean
  <1> SUFFICES ASSUME NEW m \in Node, NEW x \in Path PROVE Good(m, x)
    BY <1>3 DEF Fine
  <1>4. Word(m, x)'
    BY <1>1 DEF PatientParts, Word, Told, Agrees
  <1>5. Work(m, x)'
    <2>1. CASE m = n
      BY <1>1, <2>1, WorkFree DEF PatientParts
    <2>2. CASE m # n
      BY <1>1, <2>2, WorkKept DEF PatientParts
    <2> QED
      BY <2>1, <2>2
  <1>6. Steady(m, x)
    <2>1. CASE m = n /\ x = p
      BY <1>1, <1>2, <2>1 DEF Steady
    <2>2. CASE ~(m = n /\ x = p)
      <3>1. NodeInv(n) /\ InLoop(n)
        BY <1>1 DEF PatientParts, InLoop
      <3> QED
        BY <1>1, <2>2, <3>1, DoneLeavesOthers, OwesKept DEF Steady
    <2> QED
      BY <2>1, <2>2
  <1> QED
    BY <1>4, <1>5, <1>6 DEF Good

LEMMA PatientSendWrite ==
    ASSUME TypeOK, PatientParts, NEW n \in Node, NEW p \in Path, SendWrite(n, p)
    PROVE  Fine
  <1>1. /\ UNCHANGED <<log, latest, local, remote, deleting>>
        /\ Done(n, p) /\ p \in cur[n] /\ pc[n] = "write"
        /\ cur'[n] = {} /\ pc'[n] = "work"
        /\ \A k \in Node :
             k # n => pc'[k] = pc[k] /\ cur'[k] = cur[k] /\ buf'[k] = buf[k]
    BY DEF SendWrite, Ends, TypeOK
  <1>2. latest[p] # Absent /\ buf[n] = latest[p]
    BY <1>1 DEF PatientParts, Work
  <1>3. Peer(n) \in Node /\ Peer(Peer(n)) = n /\ Peer(n) # n
    BY PeerNode
  <1>4. fs'[Peer(n)][p] = latest[p]
    BY <1>2, <1>3 DEF SendWrite, TypeOK
  <1>5. ASSUME NEW m \in Node, NEW x \in Path, ~(m = Peer(n) /\ x = p)
        PROVE  fs'[m][x] = fs[m][x] /\ pending'[m][x] = pending[m][x]
    <2>1. fs' = [fs EXCEPT ![Peer(n)][p] = buf[n]]
      BY DEF SendWrite
    <2>2. pending' = pending \/ pending' = [pending EXCEPT ![Peer(n)][p] = "modify"]
      BY DEF SendWrite
    <2> QED
      BY <1>3, <1>5, <2>1, <2>2, SMTT(30) DEF TypeOK
  <1>6. pending'[Peer(n)][p] \in {pending[Peer(n)][p], "modify"}
    <2>1. pending' = pending \/ pending' = [pending EXCEPT ![Peer(n)][p] = "modify"]
      BY DEF SendWrite
    <2>2. pending \in [Node -> [Path -> Event]]
      BY DEF TypeOK
    <2> QED
      BY <1>3, <2>1, <2>2
  <1>7. ASSUME NEW m \in Node PROVE IdleClean(m)'
    BY <1>1 DEF PatientParts, IdleClean
  <1> SUFFICES ASSUME NEW m \in Node, NEW x \in Path PROVE Good(m, x)
    BY <1>7 DEF Fine
  <1>8. \A k \in Node : fs'[k][x] \in {fs[k][x], latest[x]}
    BY <1>4, <1>5
  <1>9. Word(m, x)'
    <2>1. CASE m = Peer(n) /\ x = p
      <3>1. Agrees("modify", x)
        BY <1>2, <2>1 DEF Agrees
      <3> QED
        BY <1>1, <1>4, <1>6, <1>8, <2>1, <3>1, WordKept DEF PatientParts
    <2>2. CASE ~(m = Peer(n) /\ x = p)
      BY <1>1, <1>5, <1>8, <2>2, WordKept DEF PatientParts
    <2> QED
      BY <2>1, <2>2
  <1>10. Work(m, x)'
    <2>1. CASE m = n
      BY <1>1, <2>1, WorkFree DEF PatientParts
    <2>2. CASE m # n
      BY <1>1, <1>8, <2>2, PeerNode, WorkKept DEF PatientParts
    <2> QED
      BY <2>1, <2>2
  <1>11. Steady(m, x)
    <2>1. CASE m = n /\ x = p
      BY <1>1, <1>4, <1>8, <2>1 DEF Steady
    <2>2. CASE ~(m = n /\ x = p)
      <3>1. NodeInv(n) /\ InLoop(n)
        BY <1>1 DEF PatientParts, InLoop
      <3>2. pending[m][x] # "none" => pending'[m][x] # "none"
        BY <1>5, <1>6
      <3> QED
        BY <1>1, <1>8, <2>2, <3>1, <3>2, DoneLeavesOthers, OwesKept DEF Steady
    <2> QED
      BY <2>1, <2>2
  <1> QED
    BY <1>9, <1>10, <1>11 DEF Good

\* The updates of a changelog: no type changes, nothing becomes unsynced, and only
\* the given ids become synced.
LEMMA MarkedLog ==
    ASSUME TypeOK, NEW m \in Node, NEW ids,
           \/ log'[m] = log[m]
           \/ log'[m] = MarkSynced(log[m], ids)
           \/ log'[m] = MarkPeerAck(log[m], ids)
    PROVE  /\ \A i \in 1..Len(log[m]) : log'[m][i].type = log[m][i].type
           /\ \A x : UnsyncedFor(log'[m], x) \subseteq UnsyncedFor(log[m], x)
           /\ \A x : UnsyncedFor(log[m], x) \ ids \subseteq UnsyncedFor(log'[m], x)
  <1>1. log[m] \in Seq(Entry)
    BY DEF TypeOK
  <1> QED
    BY <1>1, MarkSyncedLog, MarkPeerAckLog, UnsyncedAfterMark, UnsyncedAfterAck

\* The end of a cycle: its ids are marked, or not, and forgotten.
LEMMA PatientCycleOver ==
    ASSUME TypeOK, PatientParts, NEW n \in Node,
           UNCHANGED <<fs, pending, latest, deleting>>,
           cur'[n] = {},
           \A k \in Node :
              k # n => pc'[k] = pc[k] /\ cur'[k] = cur[k] /\ buf'[k] = buf[k],
           \A m \in Node :
              /\ \A i \in 1..Len(log[m]) : log'[m][i].type = log[m][i].type
              /\ \A x \in Path :
                   /\ UnsyncedFor(log'[m], x) \subseteq UnsyncedFor(log[m], x)
                   /\ UnsyncedFor(log[m], x) \ localDone[m]
                        \subseteq UnsyncedFor(log'[m], x),
           \/ pc'[n] = "idle" /\ CycleEnds(n)
           \/ pc'[n] = "ack" /\ UNCHANGED <<local, remote, localDone>>
    PROVE  Fine
  <1>1. \A k \in Node : \A x \in Path :
          /\ local'[k][x] = local[k][x] \/ local'[k][x] = 0
          /\ remote'[k][x] = remote[k][x] \/ remote'[k][x] = 0
    <2>1. CASE CycleEnds(n)
      <3>1. /\ local' = [local EXCEPT ![n] = NoEntries]
            /\ remote' = [remote EXCEPT ![n] = NoEntries]
        BY <2>1 DEF CycleEnds
      <3>2. \A x \in Path : NoEntries[x] = 0
        BY DEF NoEntries
      <3> QED
        BY <3>1, <3>2 DEF TypeOK
    <2>2. CASE UNCHANGED <<local, remote>>
      BY <2>2
    <2> QED
      BY <2>1, <2>2
  <1>2. \A k \in Node : localDone'[k] \subseteq localDone[k]
    BY DEF CycleEnds, TypeOK
  <1>3. ASSUME NEW m \in Node PROVE IdleClean(m)'
    <2>1. CASE m = n
      BY <2>1 DEF IdleClean, CycleEnds, TypeOK
    <2>2. CASE m # n
      <3>1. local'[m] = local[m] /\ remote'[m] = remote[m]
        BY <2>2 DEF CycleEnds, TypeOK
      <3> QED
        BY <2>2, <3>1 DEF PatientParts, IdleClean
    <2> QED
      BY <2>1, <2>2
  <1> SUFFICES ASSUME NEW m \in Node, NEW x \in Path PROVE Good(m, x)
    BY <1>3 DEF Fine
  <1>4. Word(m, x)'
    <2>1. /\ local'[m][x] \in {local[m][x], 0} \cup UnsyncedFor(log[m], x)
          /\ remote'[Peer(m)][x]
               \in {remote[Peer(m)][x], 0} \cup UnsyncedFor(log[m], x)
      BY <1>1, PeerNode
    <2>2. \A i \in UnsyncedFor(log'[m], x) : i \in UnsyncedFor(log[m], x)
      OBVIOUS
    <2> QED
      BY <2>1, <2>2, WordKept DEF PatientParts
  <1>5. Work(m, x)'
    <2>1. CASE m = n
      BY <2>1, WorkFree DEF PatientParts
    <2>2. CASE m # n
      BY <2>2, WorkKept DEF PatientParts
    <2> QED
      BY <2>1, <2>2
  <1>6. Owes(m, x) => Owes(m, x)'
    BY <1>2, OwesKept
  <1> QED
    BY <1>4, <1>5, <1>6 DEF Good, Steady

LEMMA PatientMarkLocal ==
    ASSUME TypeOK, PatientParts, NEW n \in Node, MarkLocal(n)
    PROVE  Fine
  <1>1. /\ UNCHANGED <<fs, pending, latest, deleting, cur, buf>>
        /\ pc[n] = "work"
        /\ \A k \in Node : k # n => pc'[k] = pc[k]
        /\ \/ pc'[n] = "idle" /\ CycleEnds(n)
           \/ pc'[n] = "ack" /\ UNCHANGED <<local, remote, localDone>>
    BY DEF MarkLocal, fsVars, TypeOK
  <1>2. cur[n] = {}
    BY <1>1 DEF PatientParts, NodeInv, TransferIsTaken
  <1>3. ASSUME NEW m \in Node
        PROVE  /\ \A i \in 1..Len(log[m]) : log'[m][i].type = log[m][i].type
               /\ \A x \in Path :
                    /\ UnsyncedFor(log'[m], x) \subseteq UnsyncedFor(log[m], x)
                    /\ UnsyncedFor(log[m], x) \ localDone[m]
                         \subseteq UnsyncedFor(log'[m], x)
    <2>1. log'[m] = log[m] \/ log'[m] = MarkSynced(log[m], localDone[m])
      BY DEF MarkLocal, TypeOK
    <2> QED
      BY <2>1, MarkedLog
  <1> QED
    BY <1>1, <1>2, <1>3, PatientCycleOver

LEMMA PatientAckRemote ==
    ASSUME TypeOK, PatientParts, NEW n \in Node, AckRemote(n)
    PROVE  Fine
  <1>1. /\ UNCHANGED <<fs, pending, latest, deleting, cur, buf>>
        /\ pc[n] = "ack" /\ pc'[n] = "idle" /\ CycleEnds(n)
        /\ \A k \in Node : k # n => pc'[k] = pc[k]
    BY DEF AckRemote, fsVars, TypeOK
  <1>2. cur[n] = {}
    BY <1>1 DEF PatientParts, NodeInv, TransferIsTaken
  <1>3. ASSUME NEW m \in Node
        PROVE  /\ \A i \in 1..Len(log[m]) : log'[m][i].type = log[m][i].type
               /\ \A x \in Path :
                    /\ UnsyncedFor(log'[m], x) \subseteq UnsyncedFor(log[m], x)
                    /\ UnsyncedFor(log[m], x) \ localDone[m]
                         \subseteq UnsyncedFor(log'[m], x)
    <2>1. log'[m] = log[m] \/ log'[m] = MarkPeerAck(log[m], remoteDone[n])
      BY PeerNode DEF AckRemote, TypeOK
    <2>2. log[m] \in Seq(Entry)
      BY DEF TypeOK
    <2>3. \A x : UnsyncedFor(log'[m], x) = UnsyncedFor(log[m], x)
      BY <2>1, <2>2, UnsyncedAfterAck
    <2>4. \A i \in 1..Len(log[m]) : log'[m][i].type = log[m][i].type
      BY <2>1, <2>2, MarkPeerAckLog
    <2> QED
      BY <2>3, <2>4
  <1> QED
    BY <1>1, <1>2, <1>3, PatientCycleOver

LEMMA PatientProcess ==
    ASSUME TypeOK, PatientParts, NEW n \in Node, Process(n)
    PROVE  Fine
  <1> PICK p \in Path :
        \/ SkipBlocked(n, p)
        \/ SkipUnknown(n, p)
        \/ NoTransfer(n, p)
        \/ BlockForManual(n, p)
        \/ EvacuateLoser(n, p)
        \/ RequestDelete(n, p)
        \/ StartSend(n, p)
    BY DEF Process
  <1>1. CASE SkipBlocked(n, p) \/ SkipUnknown(n, p) \/ BlockForManual(n, p)
    BY <1>1, PatientQuiet DEF SkipBlocked, SkipUnknown, BlockForManual, NotDone, fsVars
  <1>2. CASE EvacuateLoser(n, p)
    BY <1>2, NeverEvacuates DEF EvacuateLoser
  <1> QED
    BY <1>1, <1>2, PatientNoTransfer, PatientTake

LEMMA PatientTransfer ==
    ASSUME TypeOK, PatientParts, NEW n \in Node, Transfer(n) \/ Serve(n)
    PROVE  Fine
  <1> PICK p \in Path :
        \/ PushEvacuated(n, p)
        \/ DeleteReply(n, p)
        \/ SendRead(n, p)
        \/ SendWrite(n, p)
        \/ SendGivesUp(n, p)
        \/ DeleteRejected(n, p)
        \/ DeleteAccepted(n, p)
    BY DEF Transfer, Serve
  <1>1. CASE PushEvacuated(n, p)
    BY <1>1 DEF PushEvacuated, PatientParts, Work
  <1>2. CASE SendGivesUp(n, p) \/ DeleteRejected(n, p)
    BY <1>2, PatientEnds DEF SendGivesUp, DeleteRejected, fsVars
  <1> QED
    BY <1>1, <1>2, PatientDeleteReply, PatientRead, PatientSendWrite,
       PatientDeleteAccepted

LEMMA PatientFailure ==
    ASSUME TypeOK, PatientParts, NEW n \in Node, Failure(n), ~Crash(n)
    PROVE  Fine
  <1>1. ASSUME NEW p \in Path, OpFails(n, p) PROVE Fine
    BY <1>1, PatientEnds DEF OpFails, fsVars
  <1>2. ASSUME NEW p \in Path, EvacuateFails(n, p) PROVE Fine
    BY <1>2, NeverEvacuates DEF EvacuateFails
  <1> QED
    BY <1>1, <1>2, PatientRead DEF Failure

\* A step of the daemons of Bisync, unless it is a crash.
DaemonStep(n) ==
    \/ Cycle(n) \/ Serve(n)
    \/ Failure(n) /\ ~Crash(n)
    \/ \E p \in Path : Flush(n, p) \/ RemoveAll(n, p)

LEMMA PatientDaemonStep ==
    ASSUME TypeOK, PatientParts, NEW n \in Node, DaemonStep(n)
    PROVE  Fine
  BY PatientExchange, PatientReadLocal, PatientProcess, PatientTransfer,
     PatientMarkLocal, PatientAckRemote, PatientFailure, PatientFlush,
     PatientRemoveAll DEF DaemonStep, Cycle

\* In a settled state nobody has word of anything.
LEMMA QuiescentIsClean ==
    ASSUME TypeOK, PatientParts, Quiescent, NEW m \in Node
    PROVE  /\ \A x \in Path :
                /\ UnsyncedFor(log[m], x) = {}
                /\ local[m][x] = 0 /\ remote[m][x] = 0
                /\ ~Told(m, x) /\ ~Owes(m, x)
           /\ cur[m] = {} /\ deleting[m] = {}
  <1>1. \A k \in Node : pc[k] = "idle" /\ deleting[k] = {}
    BY DEF Quiescent
  <1>2. \A k \in Node : \A x \in Path : local[k][x] = 0 /\ remote[k][x] = 0
    BY <1>1 DEF PatientParts, IdleClean, NoEntries
  <1>3. cur[m] = {}
    BY <1>1 DEF PatientParts, NodeInv, TransferIsTaken
  <1>4. \A x \in Path : UnsyncedFor(log[m], x) = {} /\ pending[m][x] = "none"
    BY DEF Quiescent, UnsyncedFor
  <1> QED
    BY <1>1, <1>2, <1>3, <1>4, PeerNode DEF Told, Owes

\* A user's change in a settled state.
LEMMA PatientChange ==
    ASSUME TypeOK, PatientParts, Quiescent, NEW n \in Node, NEW p \in Path,
           NEW c \in Content \cup {Absent}, NEW event \in EventType,
           event = "delete" <=> c = Absent,
           fs' = [fs EXCEPT ![n][p] = c],
           latest' = [latest EXCEPT ![p] = c],
           pending' = pending \/ pending' = [pending EXCEPT ![n][p] = event],
           UNCHANGED <<log, local, remote, deleting, cur, pc, buf, policy>>
    PROVE  /\ \A m \in Node : IdleClean(m)'
           /\ \A m \in Node, x \in Path : Word(m, x)' /\ Work(m, x)'
           /\ \A x \in Path : OneTells(x)'
  <1>1. \A m \in Node : IdleClean(m)'
    BY DEF PatientParts, IdleClean
  <1>2. fs'[n][p] = c /\ latest'[p] = c
    BY DEF TypeOK
  <1>3. ASSUME NEW m \in Node, NEW x \in Path
        PROVE  /\ pending'[m][x] # "none" => m = n /\ x = p /\ pending'[m][x] = event
               /\ UnsyncedFor(log'[m], x) = {}
               /\ local'[m][x] = 0 /\ remote'[Peer(m)][x] = 0
               /\ cur'[m] = {} /\ deleting'[m] = {}
    <2>1. pending[m][x] = "none" /\ pending \in [Node -> [Path -> Event]]
      BY DEF Quiescent, TypeOK
    <2>2. pending'[m][x] # "none" => m = n /\ x = p /\ pending'[m][x] = event
      BY <2>1
    <2> QED
      BY <2>2, QuiescentIsClean, PeerNode
  <1>4. ASSUME NEW m \in Node, NEW x \in Path
        PROVE  Told(m, x)' => m = n /\ x = p /\ pending'[m][x] = event
    BY <1>3 DEF Told
  <1>5. ASSUME NEW m \in Node, NEW x \in Path PROVE Word(m, x)' /\ Work(m, x)'
    <2>1. Word(m, x)'
      BY <1>2, <1>3, <1>4 DEF Word, Agrees
    <2>2. Work(m, x)'
      BY <1>3 DEF Work
    <2> QED
      BY <2>1, <2>2
  <1>6. ASSUME NEW x \in Path PROVE OneTells(x)'
    BY <1>4, PeerNode DEF OneTells
  <1> QED
    BY <1>1, <1>5, <1>6

--------------------------------------------------------------------------------
(* One change at a time, without restarts                                     *)

\* Users wait, no daemon crashes (a crash loses pending events, and without the
\* scan nothing finds them), and keep_both is not told of a change twice.
OneAtATime == Patient /\ MaxCrashes = 0 /\ ("keep_both" \in Policy => ~RsyncEcho)

PatientInv ==
    /\ TypeOK /\ PatientParts
    /\ policy \in Policy
    /\ \A n \in Node, p \in Path : fs[Peer(n)][p] # latest[p] => Owes(n, p)

LEMMA PatientInit == Init => PatientInv
  <1> SUFFICES ASSUME Init PROVE PatientInv
    OBVIOUS
  <1>1. TypeOK /\ \A n \in Node : NodeInv(n)
    BY TypeInit, ManualInit DEF ManualInv
  <1>2. \A n \in Node, p \in Path :
          /\ ~Told(n, p) /\ UnsyncedFor(log[n], p) = {}
          /\ fs[n][p] = latest[p]
    BY PeerNode DEF Init, Told, NoEntries, UnsyncedFor, Unsynced
  <1>3. \A n \in Node, p \in Path : Word(n, p)
    BY <1>2 DEF Word, Told
  <1>4. \A n \in Node, p \in Path : Work(n, p)
    BY DEF Init, Work
  <1>5. \A n \in Node : IdleClean(n)
    BY DEF Init, IdleClean
  <1>6. \A p \in Path : OneTells(p)
    BY <1>2 DEF OneTells, Node
  <1> QED
    BY <1>1, <1>2, <1>3, <1>4, <1>5, <1>6, PeerNode DEF PatientInv, PatientParts, Init

\* Word spreads to a second node only by an echo of rsync or with a delete.
LEMMA ToldStep ==
    ASSUME TypeOK, PatientParts, NEW n \in Node, DaemonStep(n),
           NEW m \in Node, NEW x \in Path, Told(m, x)', ~RsyncEcho
    PROVE  Told(m, x) \/ latest[x] = Absent
  <1>1. CASE UNCHANGED <<pending, log, local, remote>>
    BY <1>1 DEF Told
  <1>2. ASSUME NEW p \in Path, Flush(n, p) PROVE Told(m, x)
    <2>1. CASE m = n /\ x = p
      BY <1>2, <2>1 DEF Flush, Told
    <2>2. CASE ~(m = n /\ x = p)
      <3>1. PICK t \in Stamps(n) :
              log' = [log EXCEPT ![n] = Append(@,
                        [path |-> p, type |-> pending[n][p], hlc |-> t,
                         synced |-> FALSE, ack |-> FALSE])]
        BY <1>2 DEF Flush
      <3> DEFINE e == [path |-> p, type |-> pending[n][p], hlc |-> t,
                       synced |-> FALSE, ack |-> FALSE]
      <3>2. log' = [log EXCEPT ![n] = Append(log[n], e)] /\ e.path = p
        BY <3>1 DEF TypeOK
      <3> HIDE DEF e
      <3>3. log[n] \in Seq(Entry) /\ DOMAIN log[n] = 1..Len(log[n])
        BY DEF TypeOK
      <3>4. UnsyncedFor(log'[m], x) \subseteq UnsyncedFor(log[m], x)
        <4>1. CASE m # n
          BY <3>2, <4>1 DEF TypeOK
        <4>2. CASE m = n
          <5>1. /\ log'[m] = Append(log[m], e)
                /\ DOMAIN log'[m] = 1..(Len(log[m]) + 1)
                /\ \A i \in 1..Len(log[m]) : log'[m][i] = log[m][i]
                /\ log'[m][Len(log[m]) + 1] = e
            BY <3>2, <3>3, <4>2 DEF TypeOK
          <5>2. x # p
            BY <2>2, <4>2
          <5> QED
            BY <3>2, <3>3, <4>2, <5>1, <5>2 DEF UnsyncedFor, Unsynced
        <4> QED
          BY <4>1, <4>2
      <3>5. pending'[m][x] = pending[m][x]
        BY <1>2, <2>2 DEF Flush, TypeOK
      <3>6. UNCHANGED <<local, remote>>
        BY <1>2 DEF Flush, cycleVars
      <3> QED
        BY <3>4, <3>5, <3>6 DEF Told
    <2> QED
      BY <2>1, <2>2
  <1>3. CASE ExchangeChangelog(n)
    <2>1. /\ UNCHANGED <<pending, log, local>>
          /\ remote'[n] = [p \in Path |-> groupEntries(log[Peer(n)], p)]
          /\ \A k \in Node : k # n => remote'[k] = remote[k]
      BY <1>3 DEF ExchangeChangelog, fsVars, TypeOK
    <2> QED
      BY <2>1, GroupedEntry, PeerNode DEF Told
  <1>4. CASE ReadLocal(n)
    <2>1. /\ UNCHANGED <<pending, log, remote>>
          /\ local'[n] = [p \in Path |-> groupEntries(log[n], p)]
          /\ \A k \in Node : k # n => local'[k] = local[k]
      BY <1>4 DEF ReadLocal, fsVars, TypeOK
    <2> QED
      BY <2>1, GroupedEntry DEF Told
  <1>5. CASE Process(n)
    BY <1>1, <1>5, NeverEvacuates
       DEF Process, SkipBlocked, SkipUnknown, NoTransfer, BlockForManual,
           EvacuateLoser, RequestDelete, StartSend, fsVars
  <1>6. CASE Transfer(n) \/ Serve(n)
    BY <1>1, <1>6
       DEF Transfer, Serve, PushEvacuated, DeleteReply, SendRead, SendWrite,
           SendGivesUp, DeleteRejected, DeleteAccepted, fsVars
  <1>7. CASE Failure(n) /\ ~Crash(n)
    BY <1>1, <1>7 DEF Failure, OpFails, EvacuateFails, SendRetry, fsVars
  <1>8. CASE MarkLocal(n) \/ AckRemote(n)
    <2>1. \A k \in Node : UnsyncedFor(log'[k], x) \subseteq UnsyncedFor(log[k], x)
      <3> SUFFICES ASSUME NEW k \in Node
                   PROVE  UnsyncedFor(log'[k], x) \subseteq UnsyncedFor(log[k], x)
        OBVIOUS
      <3>1. MarkLocal(n) =>
              log'[k] = log[k] \/ log'[k] = MarkSynced(log[k], localDone[n])
        BY DEF MarkLocal, TypeOK
      <3>2. AckRemote(n) =>
              log'[k] = log[k] \/ log'[k] = MarkPeerAck(log[k], remoteDone[n])
        BY PeerNode, ZenonT(30) DEF AckRemote, TypeOK
      <3> QED
        BY <1>8, <3>1, <3>2, MarkedLog
    <2>2. pending' = pending
      BY <1>8 DEF MarkLocal, AckRemote, fsVars
    <2>3. \A k \in Node :
            /\ local'[k][x] = local[k][x] \/ local'[k][x] = 0
            /\ remote'[k][x] = remote[k][x] \/ remote'[k][x] = 0
      <3>1. CASE CycleEnds(n)
        BY <3>1 DEF CycleEnds, NoEntries, TypeOK
      <3>2. CASE UNCHANGED <<local, remote>>
        BY <3>2
      <3> QED
        BY <1>8, <3>1, <3>2 DEF MarkLocal, AckRemote
    <2> QED
      BY <2>1, <2>2, <2>3, PeerNode DEF Told
  <1>9. ASSUME NEW p \in Path, RemoveAll(n, p) PROVE Told(m, x) \/ latest[x] = Absent
    <2>1. p \in deleting[n] /\ UNCHANGED <<log, local, remote>>
      BY <1>9 DEF RemoveAll, cycleVars
    <2>2. CASE m = n /\ x = p
      BY <2>1, <2>2 DEF PatientParts, Work
    <2>3. CASE ~(m = n /\ x = p)
      <3>1. pending'[m][x] = pending[m][x]
        BY <1>9, <2>3 DEF RemoveAll, TypeOK
      <3> QED
        BY <2>1, <3>1 DEF Told
    <2> QED
      BY <2>2, <2>3
  <1> QED
    BY <1>2, <1>3, <1>4, <1>5, <1>6, <1>7, <1>8, <1>9 DEF DaemonStep, Cycle

LEMMA PolicyKept == [Next]_vars => policy' = policy
  BY DEF Next, User, UserWrite, UserRemove, UserChange, Flush, Cycle,
         ExchangeChangelog, ReadLocal, Process, SkipBlocked, SkipUnknown,
         NoTransfer, BlockForManual, EvacuateLoser, RequestDelete, StartSend,
         Transfer, PushEvacuated, DeleteReply, SendRead, SendWrite, SendGivesUp,
         MarkLocal, AckRemote, Serve, DeleteRejected, DeleteAccepted, RemoveAll,
         Failure, OpFails, EvacuateFails, SendRetry, Crash, vars

\* A step of a daemon writes at most one file.
LEMMA WritesOneFile ==
    ASSUME TypeOK, PatientParts, NEW n \in Node, DaemonStep(n)
    PROVE  \/ fs' = fs
           \/ \E m \in Node, p \in Path : \E c : fs' = [fs EXCEPT ![m][p] = c]
  <1>1. ASSUME NEW p \in Path, RemoveAll(n, p)
        PROVE  fs' = [fs EXCEPT ![n][p] = Absent]
    BY <1>1 DEF RemoveAll
  <1>2. ASSUME NEW p \in Path, SendWrite(n, p)
        PROVE  fs' = [fs EXCEPT ![Peer(n)][p] = buf[n]] /\ Peer(n) \in Node
    BY <1>2, PeerNode DEF SendWrite
  <1>3. CASE Process(n)
    BY <1>3, NeverEvacuates
       DEF Process, SkipBlocked, SkipUnknown, NoTransfer, BlockForManual,
           EvacuateLoser, RequestDelete, StartSend, fsVars
  <1>4. CASE Transfer(n) \/ Serve(n)
    BY <1>2, <1>4
       DEF Transfer, Serve, PushEvacuated, DeleteReply, SendRead, SendGivesUp,
           DeleteRejected, DeleteAccepted, fsVars
  <1>5. CASE Failure(n) /\ ~Crash(n)
    BY <1>5 DEF Failure, OpFails, EvacuateFails, SendRetry, fsVars
  <1>6. CASE \/ ExchangeChangelog(n) \/ ReadLocal(n) \/ MarkLocal(n) \/ AckRemote(n)
             \/ \E p \in Path : Flush(n, p)
    BY <1>6 DEF ExchangeChangelog, ReadLocal, MarkLocal, AckRemote, Flush, fsVars
  <1> QED
    BY <1>1, <1>3, <1>4, <1>5, <1>6 DEF DaemonStep, Cycle

\* Such a write is a step of Mirror, or none.
LEMMA MirrorWrite ==
    ASSUME TypeOK, TypeOK', NEW m \in Node, NEW p \in Path, NEW c,
           fs' = [fs EXCEPT ![m][p] = c],
           \A k \in Node, x \in Path : Steady(k, x)
    PROVE  [Copies!MirrorNext]_(Copies!mirror)
  <1>1. latest' = latest
    BY DEF TypeOK, Steady, Node
  <1>2. fs'[m][p] = c
    BY DEF TypeOK
  <1>3. c = fs[m][p] \/ c = latest[p]
    BY <1>2 DEF Steady
  <1>4. CASE c = fs[m][p]
    <2>1. fs' = fs
      BY <1>4 DEF TypeOK
    <2> QED
      BY <1>1, <2>1 DEF Copies!mirror
  <1>5. CASE c = latest[p] /\ c # fs[m][p]
    <2>1. Copies!BringUpToDate(m, p)
      BY <1>1, <1>5 DEF Copies!BringUpToDate
    <2> QED
      BY <2>1 DEF Copies!MirrorNext
  <1> QED
    BY <1>3, <1>4, <1>5

LEMMA MirrorDaemonStep ==
    ASSUME TypeOK, TypeOK', PatientParts, NEW n \in Node, DaemonStep(n), Fine
    PROVE  [Copies!MirrorNext]_(Copies!mirror)
  <1>1. \A k \in Node, x \in Path : Steady(k, x)
    BY DEF Fine, Good
  <1>2. CASE fs' = fs
    <2>1. latest' = latest
      BY <1>1 DEF TypeOK, Steady, Node
    <2> QED
      BY <1>2, <2>1 DEF Copies!mirror
  <1> QED
    BY <1>1, <1>2, WritesOneFile, MirrorWrite

LEMMA PatientStep ==
    ASSUME OneAtATime, PatientInv, [Next]_vars
    PROVE  PatientInv' /\ [Copies!MirrorNext]_(Copies!mirror)
  <1> USE DEF PatientInv
  <1>1. TypeOK' /\ \A m \in Node : NodeInv(m)'
    BY TypeStep, ManualStep DEF ManualInv, PatientParts
  <1>2. policy' \in Policy /\ policy' = policy
    BY PolicyKept
  <1>3. ASSUME NEW n \in Node, DaemonStep(n)
        PROVE  PatientInv' /\ [Copies!MirrorNext]_(Copies!mirror)
    <2>1. Fine
      BY <1>3, PatientDaemonStep
    <2>2. \A x \in Path : OneTells(x)'
      <3> SUFFICES ASSUME NEW x \in Path, policy = "keep_both", latest[x] # Absent
                   PROVE  \E m \in Node : ~Told(m, x)'
        BY <1>2, <2>1 DEF OneTells, Fine, Good, Steady, Node
      <3>1. PICK m \in Node : ~Told(m, x)
        BY DEF PatientParts, OneTells
      <3>2. ~RsyncEcho
        BY DEF OneAtATime
      <3> QED
        BY <1>3, <3>1, <3>2, ToldStep
    <2>3. PatientParts'
      BY <1>1, <2>1, <2>2 DEF PatientParts, Fine, Good
    <2>4. \A m \in Node, p \in Path : fs'[Peer(m)][p] # latest'[p] => Owes(m, p)'
      <3> SUFFICES ASSUME NEW m \in Node, NEW p \in Path,
                          fs'[Peer(m)][p] # latest'[p]
                   PROVE  Owes(m, p)'
        OBVIOUS
      <3>1. Steady(m, p) /\ Steady(Peer(m), p)
        BY <2>1, PeerNode DEF Fine, Good
      <3> QED
        BY <3>1 DEF Steady
    <2>5. [Copies!MirrorNext]_(Copies!mirror)
      BY <1>1, <1>3, <2>1, MirrorDaemonStep
    <2> QED
      BY <1>1, <1>2, <2>3, <2>4, <2>5
  <1>4. ASSUME NEW n \in Node, User(n)
        PROVE  PatientInv' /\ [Copies!MirrorNext]_(Copies!mirror)
    <2>1. PICK p \in Path, c \in Content \cup {Absent}, event \in EventType :
            /\ UserChange(n, p, c, event)
            /\ event = "delete" <=> c = Absent
            /\ fs[n][p] # c
      BY <1>4, PathAssumption DEF User, UserWrite, UserRemove, EventType
    <2>2. /\ Quiescent
          /\ fs' = [fs EXCEPT ![n][p] = c]
          /\ latest' = [latest EXCEPT ![p] = c]
          /\ pending' = [pending EXCEPT ![n][p] = event]
          /\ UNCHANGED <<log, local, remote, deleting, cur, pc, buf, policy,
                         localDone>>
      BY <2>1 DEF OneAtATime, UserChange, UserMayAct, cycleVars
    <2>3. PatientParts'
      BY <1>1, <2>1, <2>2, PatientChange DEF PatientParts
    <2>4. \A m \in Node, x \in Path : fs[m][x] = latest[x]
      <3> SUFFICES ASSUME NEW m \in Node, NEW x \in Path PROVE fs[m][x] = latest[x]
        OBVIOUS
      <3>1. Peer(m) \in Node /\ Peer(Peer(m)) = m
        BY PeerNode
      <3> QED
        BY <2>2, <3>1, QuiescentIsClean
    <2>5. \A m \in Node, x \in Path : fs'[Peer(m)][x] # latest'[x] => Owes(m, x)'
      <3> SUFFICES ASSUME NEW m \in Node, NEW x \in Path,
                          fs'[Peer(m)][x] # latest'[x]
                   PROVE  Owes(m, x)'
        OBVIOUS
      <3>1. Peer(m) \in Node /\ Peer(Peer(m)) = m
        BY PeerNode
      <3>2. x = p
        BY <2>2, <2>4, <3>1 DEF TypeOK
      <3>3. Peer(m) # n
        BY <2>2, <3>1, <3>2 DEF TypeOK
      <3>4. m = n
        BY <3>1, <3>3, NodePeers
      <3>5. pending'[m][x] = event /\ event # "none"
        BY <2>2, <3>2, <3>4 DEF TypeOK, EventType
      <3> QED
        BY <3>5 DEF Owes
    <2>6. Copies!MirrorNext
      <3>1. Copies!Change(n, p, c)
        BY <2>1, <2>2, <2>4 DEF Copies!Change, Copies!Current
      <3> QED
        BY <3>1 DEF Copies!MirrorNext
    <2> QED
      BY <1>1, <1>2, <2>3, <2>5, <2>6
  <1>5. ASSUME NEW n \in Node, Crash(n) PROVE FALSE
    BY <1>5 DEF Crash, OneAtATime, TypeOK
  <1>6. CASE UNCHANGED vars
    <2>1. PatientParts'
      BY <1>1, <1>6 DEF vars, PatientParts, IdleClean, Word, Told, Agrees, Work, OneTells
    <2>2. \A m \in Node, p \in Path : fs'[Peer(m)][p] # latest'[p] => Owes(m, p)'
      BY <1>6 DEF vars, Owes
    <2> QED
      BY <1>1, <1>2, <1>6, <2>1, <2>2 DEF vars, Copies!mirror
  <1> QED
    BY <1>3, <1>4, <1>5, <1>6 DEF Next, DaemonStep

\* With users who make one change at a time, every settled state holds, on both
\* nodes, what the last user left, for any paths, configuration and policy, however
\* often calls and transfers fail, replies are lost and events come back
\* (reconciler.go:61-199).
THEOREM LatestEverywhereHolds == Spec => [](OneAtATime => LatestEverywhere)
  <1>1. Init => (OneAtATime => PatientInv)
    BY PatientInit
  <1>2. (OneAtATime => PatientInv) /\ [Next]_vars => (OneAtATime => PatientInv)'
    BY PatientStep
  <1>3. (OneAtATime => PatientInv) => (OneAtATime => LatestEverywhere)
    <2> SUFFICES ASSUME PatientInv, Quiescent, NEW m \in Node, NEW p \in Path
                 PROVE  fs[m][p] = latest[p]
      BY ConfiguredAssumption DEF LatestEverywhere, Node
    <2>1. Peer(m) \in Node /\ Peer(Peer(m)) = m
      BY PeerNode
    <2> QED
      BY <2>1, QuiescentIsClean DEF PatientInv
  <1> QED
    BY <1>1, <1>2, <1>3, PTL DEF Spec

\* ... and the daemons implement Mirror, but for its liveness: they start from equal
\* copies, a change is made where both copies are current, and every other step
\* leaves the files alone or brings one copy up to date.
THEOREM MirrorSafety ==
    ASSUME OneAtATime
    PROVE  Spec => Copies!MirrorInit /\ [][Copies!MirrorNext]_(Copies!mirror)
  <1>1. Init => PatientInv /\ Copies!MirrorInit
    BY PatientInit DEF Init, Copies!MirrorInit
  <1>2. PatientInv /\ [Next]_vars => PatientInv' /\ [Copies!MirrorNext]_(Copies!mirror)
    BY PatientStep
  <1> QED
    BY <1>1, <1>2, PTL DEF Spec

--------------------------------------------------------------------------------
(* One change at a time, with daemons that stop and start.  The scan of a     *)
(* node only ever comes to its last version (ScanRight), and what it will     *)
(* find is owed like a pending event.  keep_both is left out: a file received *)
(* while the daemon was down is found by the scan, and then both nodes tell   *)
(* of one version.                                                            *)

OneAtATimeRestarting == Patient /\ "keep_both" \notin Policy

ScanRight(n, p) == ScanOwes(n, p) => fs[n][p] = latest[p] /\ latest[p] # Absent

Owed(n, p) == fs[Peer(n)][p] # latest[p] => Owes(n, p) \/ ScanOwes(n, p)

RestartInv ==
    /\ RestartTypeOK /\ PatientParts
    /\ policy \in Policy
    /\ \A n \in Node : proc[n] # "up" => \A p \in Path : scan[n][p] = "no"
    /\ \A n \in Node, p \in Path : ScanRight(n, p) /\ Owed(n, p)

LEMMA StopKeepsNode ==
    ASSUME TypeOK, NEW n \in Node, Stop(n), NEW m \in Node, NodeInv(m)
    PROVE  NodeInv(m)'
  <1>1. /\ EntriesKept(m) /\ CycleEnds(n) /\ blocked' = blocked
        /\ pc'[n] = "idle" /\ cur'[n] = {}
    BY DEF Stop, EntriesKept, TypeOK
  <1>2. CASE m = n
    BY <1>1, <1>2, ManualIdle
  <1>3. CASE m # n
    BY <1>1, <1>3, Untouched DEF Stop, CycleEnds, SameCycle, TypeOK
  <1> QED
    BY <1>2, <1>3

LEMMA NoAnswerKeepsNode ==
    ASSUME TypeOK, NEW n \in Node, NoAnswer(n), NEW m \in Node, NodeInv(m)
    PROVE  NodeInv(m)'
  <1>1. EntriesKept(m) /\ UNCHANGED <<log, todo, blocked>>
    BY DEF NoAnswer, EntriesKept
  <1>2. CASE m # n
    <2>1. SameCycle(m)
      BY <1>2 DEF NoAnswer, Ends, CycleEnds, SameCycle, TypeOK
    <2> QED
      BY <1>1, <2>1, Untouched
  <1>3. ASSUME m = n, pc[n] = "delete", NEW p \in Path, Ends(n, p),
               UNCHANGED <<remote, local, localDone, remoteDone>>
        PROVE  NodeInv(m)'
    BY <1>1, <1>3, ManualEnds DEF InLoop, NotDone
  <1>4. CASE /\ m = n /\ pc[n] = "ack" /\ CycleEnds(n) /\ UNCHANGED cur
             /\ pc' = [pc EXCEPT ![n] = "idle"]
    <2>1. cur'[n] = {} /\ pc'[n] = "idle"
      BY <1>4 DEF NodeInv, TransferIsTaken, TypeOK
    <2> QED
      BY <1>1, <1>4, <2>1, ManualIdle
  <1> QED
    BY <1>2, <1>3, <1>4 DEF NoAnswer

\* What an exit does to the other node's cycle.
LEMMA ExitSteps ==
    ASSUME TypeOK, NEW n \in Node, Exit(n), NEW m \in Node
    PROVE  /\ m = n \/ pc[m] # "deleting" =>
                pc'[m] = pc[m] /\ cur'[m] = cur[m]
           /\ m # n /\ pc[m] = "deleting" => pc'[m] = "work" /\ cur'[m] = {}
           /\ blocked'[m] \subseteq blocked[m]
           /\ m # n => blocked'[m] = blocked[m]
           /\ UNCHANGED <<pending, log, remote, local, todo, buf, localDone,
                          latest, policy>>
  <1>1. Peer(n) \in Node /\ Peer(n) # n /\ (m # n => m = Peer(n))
    BY NodePeers DEF Node, Peer
  <1> QED
    BY <1>1 DEF Exit, TypeOK

LEMMA ExitKeepsNode ==
    ASSUME TypeOK, NEW n \in Node, Exit(n), NEW m \in Node, NodeInv(m)
    PROVE  NodeInv(m)'
  BY ExitSteps DEF NodeInv, ReadIsUnsynced, DoneIsHandled, TransferIsTaken,
                   KeepsEntry, InLoop

\* The removals that happen at an exit are of files that are to be gone.
LEMMA PatientExit ==
    ASSUME TypeOK, PatientParts, NEW n \in Node, Exit(n)
    PROVE  Fine
  <1>0. ASSUME NEW m \in Node PROVE IdleClean(m)'
    BY ExitSteps DEF PatientParts, IdleClean
  <1> SUFFICES ASSUME NEW m \in Node, NEW x \in Path PROVE Good(m, x)
    BY <1>0 DEF Fine
  <1>1. /\ fs'[m][x] \in {fs[m][x], latest[x]}
        /\ fs'[Peer(m)][x] \in {fs[Peer(m)][x], latest[x]}
    <2> SUFFICES ASSUME NEW k \in Node PROVE fs'[k][x] \in {fs[k][x], latest[x]}
      BY PeerNode
    <2>1. PICK removed \in SUBSET deleting[n] :
            fs' = [fs EXCEPT ![n] =
                     [p \in Path |-> IF p \in removed THEN Absent ELSE @[p]]]
      BY DEF Exit
    <2>2. fs'[k][x] = fs[k][x] \/ (k = n /\ x \in deleting[n] /\ fs'[k][x] = Absent)
      BY <2>1 DEF TypeOK
    <2> QED
      BY <2>2 DEF PatientParts, Work
  <1>2. /\ UNCHANGED <<pending, log, remote, local, todo, buf, localDone, latest>>
        /\ deleting'[n] = {}
        /\ m # n => deleting'[m] = deleting[m]
        /\ m = n \/ pc[m] # "deleting" => pc'[m] = pc[m] /\ cur'[m] = cur[m]
        /\ m # n /\ pc[m] = "deleting" => pc'[m] = "work" /\ cur'[m] = {}
    <2>1. deleting'[n] = {} /\ (m # n => deleting'[m] = deleting[m])
      BY DEF Exit, TypeOK
    <2> QED
      BY <2>1, ExitSteps
  <1>3. Word(m, x)'
    BY <1>1, <1>2, WordKept DEF PatientParts
  <1>4. Work(m, x)'
    <2>1. CASE m = n
      <3>1. deleting'[Peer(m)] = deleting[Peer(m)]
        BY <2>1, PeerNode DEF Exit, TypeOK
      <3> QED
        BY <1>1, <1>2, <2>1, <3>1, WorkKept DEF PatientParts
    <2>2. CASE m # n /\ pc[m] = "deleting"
      BY <1>2, <2>2, WorkFree DEF PatientParts
    <2>3. CASE m # n /\ pc[m] # "deleting"
      BY <1>1, <1>2, <2>3 DEF PatientParts, Work
    <2> QED
      BY <2>1, <2>2, <2>3
  <1> QED
    BY <1>1, <1>2, <1>3, <1>4 DEF Good, Steady, Owes

\* A stop cuts the cycle short; a call that finds nobody ends the transfer or the
\* cycle.
LEMMA PatientStop ==
    ASSUME TypeOK, PatientParts, NEW n \in Node, Stop(n) \/ NoAnswer(n)
    PROVE  Fine
  <1>1. CASE Stop(n)
    <2>1. /\ UNCHANGED <<fs, pending, latest, deleting, log>>
          /\ cur'[n] = {} /\ pc'[n] = "idle" /\ CycleEnds(n)
          /\ \A k \in Node :
               k # n => pc'[k] = pc[k] /\ cur'[k] = cur[k] /\ buf'[k] = buf[k]
      BY <1>1 DEF Stop, fsVars, TypeOK
    <2> QED
      BY <2>1, PatientCycleOver
  <1>2. ASSUME NoAnswer(n), NEW p \in Path, Ends(n, p),
               UNCHANGED <<remote, local, localDone, remoteDone>>
        PROVE  Fine
    BY <1>2, PatientEnds DEF NoAnswer, fsVars
  <1>3. CASE /\ NoAnswer(n) /\ pc[n] = "ack" /\ CycleEnds(n)
             /\ UNCHANGED <<cur, buf>> /\ pc' = [pc EXCEPT ![n] = "idle"]
    <2>1. /\ UNCHANGED <<fs, pending, latest, deleting, log>>
          /\ cur'[n] = {} /\ pc'[n] = "idle"
          /\ \A k \in Node : k # n => pc'[k] = pc[k]
      BY <1>3 DEF NoAnswer, fsVars, TypeOK, PatientParts, NodeInv, TransferIsTaken
    <2> QED
      BY <1>3, <2>1, PatientCycleOver
  <1> QED
    BY <1>1, <1>2, <1>3 DEF NoAnswer

\* What the scan has found or will find stays so while the daemons work: they
\* touch no file the scan owes.
LEMMA ScanKept ==
    ASSUME RestartInv, Fine, UNCHANGED <<proc, last, scan>>,
           NEW m \in Node, NEW x \in Path, mtime'[m][x] = mtime[m][x]
    PROVE  ScanRight(m, x)' /\ (ScanOwes(m, x) => ScanOwes(m, x)')
  <1>1. ScanRight(m, x) /\ Steady(m, x)
    BY DEF RestartInv, Fine, Good
  <1> QED
    BY <1>1 DEF ScanRight, ScanOwes, Steady

\* A file that is behind stays owed, if what the scan owes of it is.
LEMMA OwedKept ==
    ASSUME RestartInv, Fine, NEW m \in Node, NEW x \in Path,
           ScanOwes(m, x) => Owes(m, x)' \/ ScanOwes(m, x)'
    PROVE  Owed(m, x)'
  <1>1. Owed(m, x) /\ Steady(m, x) /\ Steady(Peer(m), x)
    BY PeerNode DEF RestartInv, Fine, Good
  <1> QED
    BY <1>1 DEF Owed, Steady

\* What is left to show of a step of a daemon.
ScanParts ==
    /\ \A n \in Node : proc[n] # "up" => \A p \in Path : scan[n][p] = "no"
    /\ \A n \in Node, p \in Path : ScanRight(n, p) /\ Owed(n, p)

LEMMA RestartQuiet ==
    ASSUME RestartInv, Fine, UNCHANGED restartVars
    PROVE  ScanParts'
  <1>1. UNCHANGED <<proc, last, scan, mtime>>
    BY DEF restartVars
  <1> SUFFICES ASSUME NEW m \in Node, NEW x \in Path PROVE (ScanRight(m, x) /\ Owed(m, x))'
    BY <1>1 DEF ScanParts, RestartInv
  <1>2. ScanRight(m, x)' /\ (ScanOwes(m, x) => ScanOwes(m, x)')
    BY <1>1, ScanKept
  <1> QED
    BY <1>2, OwedKept

\* rsync writes the last version, with whatever time its sender's file had.
LEMMA RestartRsync ==
    ASSUME RestartInv, Fine, NEW n \in Node, NEW p \in Path, Rsync(n, p)
    PROVE  ScanParts'
  <1>1. UNCHANGED <<proc, last, scan>>
    BY DEF Rsync
  <1>2. CASE UNCHANGED mtime
    <2> SUFFICES ASSUME NEW m \in Node, NEW x \in Path
                 PROVE  (ScanRight(m, x) /\ Owed(m, x))'
      BY <1>1 DEF ScanParts, RestartInv
    <2>1. ScanRight(m, x)' /\ (ScanOwes(m, x) => ScanOwes(m, x)')
      BY <1>1, <1>2, ScanKept
    <2> QED
      BY <2>1, OwedKept
  <1>3. CASE SendWrite(n, p) /\ mtime' = [mtime EXCEPT ![Peer(n)][p] = sent[n]]
    <2> SUFFICES ASSUME NEW m \in Node, NEW x \in Path
                 PROVE  (ScanRight(m, x) /\ Owed(m, x))'
      BY <1>1 DEF ScanParts, RestartInv
    <2>1. TypeOK /\ mtime \in [Node -> [Path -> 0..ops]]
      BY DEF RestartInv, RestartTypeOK
    <2>2. Peer(n) \in Node /\ Peer(Peer(n)) = n /\ Peer(n) # n
      BY PeerNode DEF Node, Peer
    <2>3. CASE ~(m = Peer(n) /\ x = p)
      <3>1. mtime'[m][x] = mtime[m][x]
        BY <1>3, <2>1, <2>2, <2>3
      <3>2. ScanRight(m, x)' /\ (ScanOwes(m, x) => ScanOwes(m, x)')
        BY <1>1, <3>1, ScanKept
      <3> QED
        BY <3>2, OwedKept
    <2>4. CASE m = Peer(n) /\ x = p
      <3>1. pc[n] = "write" /\ p \in cur[n] /\ fs' = [fs EXCEPT ![Peer(n)][p] = buf[n]]
        BY <1>3 DEF SendWrite, Ends
      <3>2. latest[p] # Absent /\ fs[n][p] = latest[p] /\ buf[n] = latest[p]
        BY <3>1 DEF RestartInv, PatientParts, Work
      <3>3. fs'[m][p] = latest[p] /\ fs'[n][p] = latest[p] /\ latest'[p] = latest[p]
        BY <2>1, <2>2, <2>4, <3>1, <3>2 DEF TypeOK, Fine, Good, Steady
      <3> QED
        BY <2>2, <2>4, <3>2, <3>3 DEF ScanRight, Owed
    <2> QED
      BY <2>3, <2>4
  <1> QED
    BY <1>2, <1>3 DEF Rsync

\* The daemon of n stops, exits or starts, or its scan comes to a file.
LEMMA RestartProcess ==
    ASSUME RestartInv, Fine, NEW n \in Node,
           Stop(n) \/ Exit(n) \/ Start(n) \/ \E p \in Path : Visit(n, p)
    PROVE  ScanParts'
  <1> USE DEF RestartInv, RestartTypeOK
  <1>1. \A m \in Node : m # n =>
          /\ proc'[m] = proc[m] /\ scan'[m] = scan[m] /\ last'[m] = last[m]
    BY DEF Stop, Exit, Start, Visit
  <1>2. mtime' = mtime
    BY DEF Stop, Exit, Start, Visit
  <1>3. ASSUME NEW m \in Node, proc'[m] # "up", NEW x \in Path
        PROVE  scan'[m][x] = "no"
    BY <1>1, <1>3, SMTT(30) DEF Stop, Exit, Start, Visit
  <1> SUFFICES ASSUME NEW m \in Node, NEW x \in Path
               PROVE  (ScanRight(m, x) /\ Owed(m, x))'
    BY <1>3 DEF ScanParts
  <1>4. ScanRight(m, x) /\ Steady(m, x)
    BY DEF Fine, Good
  <1>5. CASE m # n
    BY <1>1, <1>2, <1>4, <1>5, OwedKept DEF ScanRight, ScanOwes, Steady
  <1>6. CASE m = n /\ (Stop(n) \/ Exit(n))
    <2>1. ~ScanOwes(m, x)
      BY <1>6 DEF Stop, Exit, ScanOwes
    <2>2. ~ScanOwes(m, x)'
      <3>1. mtime[m][x] \in 0..ops /\ last[m] \in 0..ops /\ ops \in Nat
        BY DEF TypeOK
      <3>2. scan'[m][x] = "no"
        BY <1>6 DEF Stop, Exit
      <3>3. proc'[m] = "down" => last'[m] = ops
        BY <1>6 DEF Stop, Exit
      <3> QED
        BY <1>2, <3>1, <3>2, <3>3 DEF ScanOwes
    <2> QED
      BY <2>1, <2>2, OwedKept DEF ScanRight
  <1>7. CASE m = n /\ (Start(n) \/ \E p \in Path : Visit(n, p))
    <2>1. fs' = fs /\ last' = last
      BY <1>7 DEF Start, Visit, vars
    <2>2. ScanOwes(m, x)' <=> ScanOwes(m, x)
      BY <1>2, <1>7, <2>1 DEF ScanOwes, Start, Visit
    <2> QED
      BY <1>4, <2>1, <2>2, OwedKept DEF ScanRight, Steady
  <1> QED
    BY <1>5, <1>6, <1>7

\* A worker of the scan logs what it has found.
LEMMA RestartAppend ==
    ASSUME RestartInv, NEW n \in Node, NEW p \in Path, ScanAppend(n, p)
    PROVE  Fine /\ ScanParts' /\ \A m \in Node : NodeInv(m)'
  <1> USE DEF RestartInv, RestartTypeOK
  <1>1. PICK t \in Stamps(n) :
          log' = [log EXCEPT ![n] = Append(@,
                    [path |-> p, type |-> "modify", hlc |-> t,
                     synced |-> FALSE, ack |-> FALSE])]
    BY DEF ScanAppend
  <1>2. t \in Nat
    BY SMTT(30) DEF Stamps, TypeOK, Node
  <1> DEFINE e == [path |-> p, type |-> "modify", hlc |-> t,
                   synced |-> FALSE, ack |-> FALSE]
  <1>3. e \in Entry
    BY <1>2 DEF Entry, EventType
  <1>4. log' = [log EXCEPT ![n] = Append(log[n], e)]
    BY <1>1 DEF TypeOK
  <1>5. e.path = p /\ ~e.synced /\ e.type = "modify"
    OBVIOUS
  <1> HIDE DEF e
  <1>6. /\ UNCHANGED <<fs, pending, latest, local, remote, todo, deleting, cur, pc, buf,
                       localDone, blocked, proc, mtime, last>>
        /\ scan[n][p] = "found" /\ proc[n] = "up"
        /\ scan' = [scan EXCEPT ![n][p] = "no"]
    BY DEF ScanAppend, fsVars, cycleVars
  <1>7. ScanRight(n, p) /\ ScanOwes(n, p)
    BY <1>6 DEF ScanOwes
  <1>8. Agrees(e.type, p) /\ fs[n][p] = latest[p]
    BY <1>5, <1>7 DEF ScanRight, Agrees
  <1>9. Fine /\ Owes(n, p)'
    BY <1>3, <1>4, <1>5, <1>6, <1>8, PatientAppend
  <1>10. ScanParts'
    <2>1. ASSUME NEW m \in Node, NEW x \in Path
          PROVE  /\ ScanOwes(m, x)' => ScanOwes(m, x)
                 /\ ~(m = n /\ x = p) => scan'[m][x] = scan[m][x]
                 /\ scan'[m][x] \in {scan[m][x], "no"}
      BY <1>6 DEF ScanOwes
    <2>2. ASSUME NEW m \in Node, NEW x \in Path
          PROVE  ScanOwes(m, x) => Owes(m, x)' \/ ScanOwes(m, x)'
      BY <1>6, <1>9, <2>1 DEF ScanOwes
    <2>3. ASSUME NEW m \in Node, NEW x \in Path PROVE ScanRight(m, x)' /\ Owed(m, x)'
      <3>1. Owed(m, x)'
        BY <1>9, <2>2, OwedKept
      <3>2. ScanRight(m, x)'
        BY <1>6, <2>1 DEF ScanRight
      <3> QED
        BY <3>1, <3>2
    <2> QED
      BY <1>6, <2>1, <2>3 DEF ScanParts
  <1>11. ASSUME NEW m \in Node PROVE NodeInv(m)'
    <2>1. EntriesKept(m)
      <3>1. log[n] \in Seq(Entry)
        BY DEF TypeOK
      <3>2. CASE m = n
        <4>1. log'[m] = Append(log[n], e)
          BY <1>4, <3>2 DEF TypeOK
        <4> QED
          BY <1>3, <3>1, <3>2, <4>1, UnsyncedAfterAppend DEF EntriesKept
      <3>3. CASE m # n
        <4>1. log'[m] = log[m]
          BY <1>4, <3>3 DEF TypeOK
        <4> QED
          BY <4>1 DEF EntriesKept
      <3> QED
        BY <3>2, <3>3
    <2> QED
      BY <1>6, <2>1, Untouched DEF PatientParts, SameCycle
  <1> QED
    BY <1>9, <1>10, <1>11

\* A user's change, in a settled state, on a node whose daemon runs or is down.
LEMMA RestartUser ==
    ASSUME OneAtATimeRestarting, RestartInv, RestartTypeOK', NEW n \in Node,
           NEW p \in Path,
           UserOnline(n, p) \/ \E c \in Content : WriteOffline(n, p, c)
    PROVE  RestartInv'
  <1> USE DEF RestartInv, RestartTypeOK
  <1>1. PICK c \in Content \cup {Absent}, event \in EventType :
          /\ event = "delete" <=> c = Absent
          /\ fs' = [fs EXCEPT ![n][p] = c]
          /\ latest' = [latest EXCEPT ![p] = c]
          /\ \/ proc[n] = "up" /\ pending' = [pending EXCEPT ![n][p] = event]
             \/ proc[n] = "down" /\ pending' = pending /\ c # Absent
    <2>1. CASE UserOnline(n, p)
      <3>1. proc[n] = "up" /\ "modify" \in EventType /\ "delete" \in EventType
        BY <2>1 DEF UserOnline, EventType
      <3>2. ASSUME NEW c \in Content, UserWrite(n, p, c)
            PROVE  c # Absent /\ UserChange(n, p, c, "modify")
        BY <3>2, PathAssumption DEF UserWrite
      <3>3. CASE UserRemove(n, p)
        BY <3>1, <3>3 DEF UserRemove, UserChange
      <3> QED
        BY <2>1, <3>1, <3>2, <3>3 DEF UserOnline, UserChange
    <2>2. CASE \E c \in Content : WriteOffline(n, p, c)
      <3>1. PICK c \in Content : WriteOffline(n, p, c)
        BY <2>2
      <3>2. c # Absent /\ "modify" \in EventType /\ "modify" # "delete"
        BY PathAssumption DEF EventType
      <3>3. /\ fs' = [fs EXCEPT ![n][p] = c]
            /\ latest' = [latest EXCEPT ![p] = c]
            /\ proc[n] = "down" /\ pending' = pending
        BY <3>1 DEF WriteOffline
      <3> QED
        BY <3>2, <3>3
    <2> QED
      BY <2>1, <2>2
  <1>2. /\ Quiescent /\ Rested
        /\ mtime' = [mtime EXCEPT ![n][p] = ops + 1]
        /\ UNCHANGED <<log, local, remote, todo, deleting, cur, pc, buf, policy, localDone,
                       blocked, proc, last, scan>>
    BY DEF OneAtATimeRestarting, UserOnline, WriteOffline, UserWaits, UserMayAct,
           UserWrite, UserRemove, UserChange, cycleVars
  <1>3. \A m \in Node : NodeInv(m)'
    BY <1>2, Untouched DEF PatientParts, SameCycle, EntriesKept
  <1>4. PatientParts'
    BY <1>1, <1>2, <1>3, PatientChange DEF PatientParts
  <1>5. \A m \in Node, x \in Path :
          /\ ~ScanOwes(m, x) /\ scan[m][x] = "no" /\ fs[m][x] = latest[x]
    <2> SUFFICES ASSUME NEW m \in Node, NEW x \in Path
                 PROVE  ~ScanOwes(m, x) /\ scan[m][x] = "no" /\ fs[m][x] = latest[x]
      OBVIOUS
    <2>1. Peer(m) \in Node /\ Peer(Peer(m)) = m
      BY PeerNode
    <2>2. Owed(Peer(m), x) /\ ~Owes(Peer(m), x) /\ ~ScanOwes(Peer(m), x)
      BY <1>2, <2>1, QuiescentIsClean DEF Rested
    <2> QED
      BY <1>2, <2>1, <2>2 DEF Owed, Rested
  <1>6. fs'[n][p] = c /\ latest'[p] = c /\ mtime'[n][p] = ops + 1
    BY <1>1, <1>2 DEF TypeOK
  <1>7. ASSUME NEW m \in Node, NEW x \in Path, ~(m = n /\ x = p)
        PROVE  fs'[m][x] = fs[m][x] /\ mtime'[m][x] = mtime[m][x]
    <2>1. fs'[m][x] = fs[m][x]
      BY <1>1, <1>7 DEF TypeOK
    <2>2. mtime'[m][x] = mtime[m][x]
      BY <1>2, <1>7
    <2> QED
      BY <2>1, <2>2
  <1>8. ASSUME NEW m \in Node, NEW x \in Path PROVE ScanRight(m, x)'
    <2>1. CASE m = n /\ x = p
      BY <1>2, <1>5, <1>6, <2>1 DEF ScanRight, ScanOwes
    <2>2. CASE ~(m = n /\ x = p)
      <3>1. fs'[m][x] = fs[m][x] /\ mtime'[m][x] = mtime[m][x]
        BY <1>7, <2>2
      <3>2. scan' = scan /\ proc' = proc /\ last' = last
        BY <1>2
      <3>3. ScanOwes(m, x)' <=> ScanOwes(m, x)
        BY <3>1, <3>2 DEF ScanOwes
      <3> QED
        BY <1>5, <3>3 DEF ScanRight
    <2> QED
      BY <2>1, <2>2
  <1>9. ASSUME NEW m \in Node, NEW x \in Path, fs'[Peer(m)][x] # latest'[x]
        PROVE  Owes(m, x)' \/ ScanOwes(m, x)'
    <2>1. Peer(m) \in Node /\ Peer(Peer(m)) = m
      BY PeerNode
    <2>2. x = p
      BY <1>1, <1>5, <1>7, <1>9, <2>1 DEF TypeOK
    <2>3. Peer(m) # n
      BY <1>6, <1>9, <2>2
    <2>4. m = n
      BY <2>1, <2>3, NodePeers
    <2>5. CASE proc[n] = "up" /\ pending' = [pending EXCEPT ![n][p] = event]
      <3>1. pending'[m][x] = event /\ event # "none"
        BY <2>2, <2>4, <2>5 DEF TypeOK, EventType
      <3> QED
        BY <3>1 DEF Owes
    <2>6. CASE proc[n] = "down" /\ c # Absent
      <3>1. ops \in Nat /\ last[n] \in 0..ops
        BY DEF TypeOK
      <3> QED
        BY <1>2, <1>6, <2>2, <2>4, <2>6, <3>1 DEF ScanOwes
    <2> QED
      BY <1>1, <2>5, <2>6
  <1> QED
    BY <1>2, <1>4, <1>8, <1>9 DEF Owed

LEMMA RestartInvInit == RestartInit => RestartInv
  <1> SUFFICES ASSUME RestartInit PROVE RestartInv
    OBVIOUS
  <1>1. RestartTypeOK /\ PatientInv
    BY RestartTypeInit, PatientInit DEF RestartInit
  <1>2. \A n \in Node, p \in Path : scan[n][p] = "no" /\ ~ScanOwes(n, p)
    BY DEF RestartInit, ScanOwes
  <1> QED
    BY <1>1, <1>2 DEF RestartInv, PatientInv, ScanRight, Owed

\* The steps of Bisync a running daemon takes, and its user.
LEMMA RestartSteps ==
    ASSUME TypeOK, NEW n \in Node,
           \/ CycleStep(n) /\ ~NoAnswer(n)
           \/ Calls(n) \/ Fails(n)
           \/ \E p \in Path : Handler(n, p) \/ Flushes(n, p)
    PROVE  /\ DaemonStep(n) /\ Next
           /\ UNCHANGED restartVars \/ \E p \in Path : Rsync(n, p)
  <1>1. DaemonStep(n)
    <2>1. CASE Fails(n)
      <3>1. Failure(n) /\ faults' = faults + 1
        BY <2>1 DEF Fails, Failure, Fault, SendRetry, OpFails, EvacuateFails
      <3>2. ~Crash(n)
        BY <3>1 DEF Crash, TypeOK
      <3> QED
        BY <3>1, <3>2 DEF DaemonStep
    <2>2. CASE CycleStep(n) /\ ~NoAnswer(n)
      BY <2>2 DEF CycleStep, Exchange, Local, Acknowledge, Rsync, DaemonStep, Cycle,
                  Transfer
    <2>3. CASE Calls(n) \/ \E p \in Path : Handler(n, p) \/ Flushes(n, p)
      BY <2>3 DEF Calls, Handler, Flushes, DaemonStep
    <2> QED
      BY <2>1, <2>2, <2>3
  <1>2. Next
    BY <1>1 DEF DaemonStep, Next
  <1>3. UNCHANGED restartVars \/ \E p \in Path : Rsync(n, p)
    BY DEF CycleStep, Exchange, Local, Acknowledge, Calls, Fails, Handler, Flushes
  <1> QED
    BY <1>1, <1>2, <1>3

LEMMA RestartInvStep ==
    ASSUME OneAtATimeRestarting, RestartInv, [RestartNext]_allVars
    PROVE  RestartInv'
  <1>1. RestartTypeOK'
    BY RestartTypeStep DEF RestartInv
  <1>2. TypeOK /\ PatientParts /\ \A m \in Node : NodeInv(m)
    BY DEF RestartInv, RestartTypeOK, PatientParts
  <1>3. ASSUME Fine, policy' = policy, ScanParts', \A m \in Node : NodeInv(m)'
        PROVE  RestartInv'
    <2>1. policy' \in Policy /\ policy' # "keep_both"
      BY <1>3 DEF RestartInv, OneAtATimeRestarting
    <2>2. PatientParts'
      BY <1>3, <2>1 DEF PatientParts, Fine, Good, OneTells
    <2> QED
      BY <1>1, <1>3, <2>1, <2>2 DEF RestartInv, ScanParts
  <1>4. ASSUME NEW n \in Node,
               \/ CycleStep(n) /\ ~NoAnswer(n)
               \/ Calls(n) \/ Fails(n)
               \/ \E p \in Path : Handler(n, p) \/ Flushes(n, p)
        PROVE  RestartInv'
    <2>1. /\ DaemonStep(n) /\ Next
          /\ UNCHANGED restartVars \/ \E p \in Path : Rsync(n, p)
      BY <1>2, <1>4, RestartSteps
    <2>2. Fine
      BY <1>2, <2>1, PatientDaemonStep
    <2>3. \A m \in Node : NodeInv(m)'
      BY <1>2, <2>1, ManualStep DEF ManualInv
    <2>4. ScanParts'
      BY <2>1, <2>2, RestartQuiet, RestartRsync
    <2> QED
      BY <1>3, <2>1, <2>2, <2>3, <2>4, PolicyKept
  <1>5. ASSUME NEW n \in Node, NoAnswer(n) PROVE RestartInv'
    BY <1>2, <1>3, <1>5, PatientStop, NoAnswerKeepsNode, RestartQuiet DEF NoAnswer
  <1>6. ASSUME NEW n \in Node, Stop(n) \/ Exit(n) PROVE RestartInv'
    <2>1. policy' = policy
      BY <1>6 DEF Stop, Exit
    <2> QED
      BY <1>2, <1>3, <1>6, <2>1, PatientStop, PatientExit, StopKeepsNode,
         ExitKeepsNode, RestartProcess
  <1>7. ASSUME NEW n \in Node, Start(n) \/ \E p \in Path : Visit(n, p)
        PROVE  RestartInv'
    <2>1. UNCHANGED vars
      BY <1>7 DEF Start, Visit
    <2>2. Fine /\ policy' = policy
      BY <1>2, <2>1, PatientQuiet DEF vars
    <2>3. \A m \in Node : NodeInv(m)'
      BY <1>2, <2>1, ManualStep DEF ManualInv
    <2> QED
      BY <1>3, <1>7, <2>2, <2>3, RestartProcess
  <1>8. ASSUME NEW n \in Node, NEW p \in Path, ScanAppend(n, p) PROVE RestartInv'
    <2>1. policy' = policy
      BY <1>8 DEF ScanAppend
    <2> QED
      BY <1>3, <1>8, <2>1, RestartAppend
  <1>9. ASSUME NEW n \in Node, NEW p \in Path,
               UserOnline(n, p) \/ \E c \in Content : WriteOffline(n, p, c)
        PROVE  RestartInv'
    BY <1>1, <1>9, RestartUser
  <1>10. CASE UNCHANGED allVars
    <2>1. UNCHANGED vars /\ UNCHANGED restartVars
      BY <1>10 DEF allVars
    <2>2. Fine /\ policy' = policy
      BY <1>2, <2>1, PatientQuiet DEF vars
    <2>3. \A m \in Node : NodeInv(m)'
      BY <1>2, <2>1, ManualStep DEF ManualInv
    <2> QED
      BY <1>3, <2>1, <2>2, <2>3, RestartQuiet
  <1> QED
    BY <1>4, <1>5, <1>6, <1>7, <1>8, <1>9, <1>10 DEF RestartNext, CycleStep

\* While the nodes differ at a path, one of them owes the other a step or its scan
\* owes the changelog an entry, although daemons are stopped in the middle of a
\* cycle, users write while they are down, and the next start repeats what had been
\* done with the scan running beside it (daemon.go:181-193, recovery.go:83-140).
THEOREM OwedAcrossRestartsHolds ==
    RestartSpec => [](OneAtATimeRestarting => OwedAcrossRestarts)
  <1>1. RestartInit => (OneAtATimeRestarting => RestartInv)
    BY RestartInvInit
  <1>2. (OneAtATimeRestarting => RestartInv) /\ [RestartNext]_allVars
          => (OneAtATimeRestarting => RestartInv)'
    BY RestartInvStep
  <1>3. RestartInv => OwedAcrossRestarts
    BY DEF RestartInv, Owed, OwedAcrossRestarts, Node, Peer
  <1> QED
    BY <1>1, <1>2, <1>3, PTL DEF RestartSpec

\* ... and every settled state holds, on both nodes, what the last user left.
THEOREM LatestAcrossRestartsHolds ==
    RestartSpec => [](OneAtATimeRestarting => LatestAcrossRestarts)
  <1>1. RestartInit => (OneAtATimeRestarting => RestartInv)
    BY RestartInvInit
  <1>2. (OneAtATimeRestarting => RestartInv) /\ [RestartNext]_allVars
          => (OneAtATimeRestarting => RestartInv)'
    BY RestartInvStep
  <1>3. RestartInv => LatestAcrossRestarts
    <2> SUFFICES ASSUME RestartInv, Rested, Quiescent, NEW m \in Node, NEW p \in Path
                 PROVE  fs[m][p] = latest[p]
      BY ConfiguredAssumption DEF LatestAcrossRestarts, LatestEverywhere, Node
    <2>1. Peer(m) \in Node /\ Peer(Peer(m)) = m
      BY PeerNode
    <2>2. Owed(Peer(m), p) /\ TypeOK /\ PatientParts
      BY <2>1 DEF RestartInv, RestartTypeOK
    <2> QED
      BY <2>1, <2>2, QuiescentIsClean DEF Owed, Rested
  <1> QED
    BY <1>1, <1>2, <1>3, PTL DEF RestartSpec

--------------------------------------------------------------------------------
(* One writer, who need not wait.  The peer then has nothing to tell (Silent) *)
(* and every entry of the writer is a change of a file that is there          *)
(* (Speaks).  DifferenceIsOwed is not inductive: at the end of a transfer the *)
(* id of its entry is collected although the writer may have changed the file *)
(* after rsync read it; that change is pending or logged under another id     *)
(* (Late).                                                                    *)

OneWriter(w) ==
    Writers \subseteq {w} /\ Removers = {} /\ ~RsyncEcho /\ MaxCrashes = 0

Silent(v) ==
    /\ log[v] = <<>> /\ cur[v] = {} /\ pc[v] \notin {"send", "write"}
    /\ \A p \in Path :
         pending[v][p] = "none" /\ local[v][p] = 0 /\ remote[Peer(v)][p] = 0

Speaks(w) ==
    /\ \A i \in DOMAIN log[w] :
         log[w][i].type = "modify" /\ fs[w][log[w][i].path] # Absent
    /\ \A p \in Path : pending[w][p] # "none" =>
         pending[w][p] = "modify" /\ fs[w][p] # Absent

NoDeletes(n) ==
    deleting[n] = {} /\ pc[n] \notin {"evacuated", "delete", "deleting"}

Late(w, p) ==
    p \in cur[w] /\ pc[w] = "write" /\ buf[w] # fs[w][p] =>
        \/ pending[w][p] # "none"
        \/ UnsyncedFor(log[w], p) \ (localDone[w] \cup {local[w][p]}) # {}

Behind(w, p) == fs[Peer(w)][p] # fs[w][p] => Owes(w, p)

WriterParts(w) ==
    /\ Silent(Peer(w)) /\ Speaks(w)
    /\ \A n \in Node : NoDeletes(n)
    /\ \A p \in Path : Late(w, p) /\ Behind(w, p)

WriterInv(w) == ManualInv /\ WriterParts(w)

LEMMA WriterInit ==
    ASSUME NEW w \in Node, Init
    PROVE  WriterInv(w)
  <1>1. Peer(w) \in Node /\ Peer(Peer(w)) = w
    BY PeerNode
  <1>2. Silent(Peer(w)) /\ Speaks(w) /\ \A n \in Node : NoDeletes(n)
    BY <1>1 DEF Init, Silent, Speaks, NoDeletes, NoEntries
  <1>3. \A p \in Path : Late(w, p) /\ Behind(w, p)
    BY <1>1 DEF Init, Late, Behind
  <1> QED
    BY <1>2, <1>3, ManualInit DEF WriterInv, WriterParts

\* What the peer's cycle, or the writer's, finds in its maps.
LEMMA WriterMaps ==
    ASSUME NEW w \in Node, TypeOK, WriterParts(w), NEW n \in Node, NEW p \in Path
    PROVE  /\ n = w => remote[n][p] = 0 /\ LocalType(n, p) # "delete"
           /\ n # w => local[n][p] = 0 /\ RemoteType(n, p) # "delete"
           /\ ~InConflict(n, p)
           /\ n = w /\ local[n][p] # 0 => LocalType(n, p) = "modify"
  <1>1. Peer(w) \in Node /\ Peer(Peer(w)) = w /\ (n # w => n = Peer(w))
    BY PeerNode, NodePeers
  <1>2. log[w] \in Seq(Entry) /\ local[w][p] \in 0..Len(log[w])
    BY DEF TypeOK
  <1>3. n # w => remote[n][p] \in 0..Len(log[w])
    BY <1>1 DEF TypeOK
  <1>4. local[w][p] # 0 => log[w][local[w][p]].type = "modify"
    BY <1>2 DEF WriterParts, Speaks
  <1>5. n # w /\ remote[n][p] # 0 => log[w][remote[n][p]].type = "modify"
    BY <1>2, <1>3 DEF WriterParts, Speaks
  <1> QED
    BY <1>1, <1>4, <1>5 DEF WriterParts, Silent, LocalType, RemoteType, InConflict

\* The user writes.
LEMMA WriterUser ==
    ASSUME NEW w \in Node, OneWriter(w), TypeOK, WriterParts(w), NEW n \in Node,
           User(n)
    PROVE  WriterParts(w)'
  <1>1. PICK p \in Path, c \in Content : UserWrite(n, p, c)
    BY DEF User, UserRemove, OneWriter
  <1>2. n = w
    BY <1>1 DEF UserWrite, OneWriter
  <1>3. /\ fs' = [fs EXCEPT ![w][p] = c]
        /\ pending' = [pending EXCEPT ![w][p] = "modify"]
        /\ UNCHANGED <<log, pc, remote, local, cur, buf, localDone, deleting>>
    BY <1>1, <1>2 DEF UserWrite, UserChange, cycleVars
  <1>4. c # Absent
    BY PathAssumption
  <1>5. Peer(w) \in Node /\ Peer(w) # w
    BY PeerNode
  <1>6. /\ fs'[w][p] = c /\ pending'[w][p] = "modify"
        /\ \A x \in Path :
             x # p => fs'[w][x] = fs[w][x] /\ pending'[w][x] = pending[w][x]
        /\ fs'[Peer(w)] = fs[Peer(w)] /\ pending'[Peer(w)] = pending[Peer(w)]
    <2>1. /\ fs \in [Node -> [Path -> Content \cup {Absent}]]
          /\ pending \in [Node -> [Path -> Event]]
      BY DEF TypeOK
    <2>2. /\ fs'[w][p] = c
          /\ \A x \in Path : x # p => fs'[w][x] = fs[w][x]
          /\ fs'[Peer(w)] = fs[Peer(w)]
      BY <1>3, <1>5, <2>1
    <2>3. /\ pending'[w][p] = "modify"
          /\ \A x \in Path : x # p => pending'[w][x] = pending[w][x]
          /\ pending'[Peer(w)] = pending[Peer(w)]
      BY <1>3, <1>5, <2>1
    <2> QED
      BY <2>2, <2>3
  <1>7. Silent(Peer(w))' /\ \A m \in Node : NoDeletes(m)'
    BY <1>3, <1>6 DEF WriterParts, Silent, NoDeletes
  <1>8. Speaks(w)'
    <2>1. \A i \in DOMAIN log[w] : log[w][i].path \in Path
      <3>1. log[w] \in Seq(Entry)
        BY DEF TypeOK
      <3>2. \A i \in DOMAIN log[w] : log[w][i] \in Entry
        BY <3>1
      <3> QED
        BY <3>2 DEF Entry
    <2> QED
      BY <1>3, <1>4, <1>6, <2>1 DEF WriterParts, Speaks
  <1>9. ASSUME NEW x \in Path PROVE Late(w, x)' /\ Behind(w, x)'
    BY <1>3, <1>6 DEF WriterParts, Late, Behind, Owes
  <1> QED
    BY <1>7, <1>8, <1>9 DEF WriterParts

\* What a flush does to the changelogs and the events.
LEMMA FlushLog ==
    ASSUME TypeOK, NEW n \in Node, NEW p \in Path, Flush(n, p)
    PROVE  /\ pending[n][p] # "none" /\ pending'[n][p] = "none"
           /\ Len(log[n]) \in Nat /\ DOMAIN log[n] = 1..Len(log[n])
           /\ DOMAIN log'[n] = 1..(Len(log[n]) + 1)
           /\ \A i \in 1..Len(log[n]) : log'[n][i] = log[n][i]
           /\ log'[n][Len(log[n]) + 1].path = p
           /\ log'[n][Len(log[n]) + 1].type = pending[n][p]
           /\ ~log'[n][Len(log[n]) + 1].synced
           /\ \A m \in Node : m # n => log'[m] = log[m]
           /\ \A m \in Node, x \in Path :
                ~(m = n /\ x = p) => pending'[m][x] = pending[m][x]
           /\ UNCHANGED <<fs, pc, remote, local, todo, cur, buf, localDone, blocked,
                          deleting, saved, policy, latest, ops>>
  <1>1. PICK t \in Stamps(n) :
          log' = [log EXCEPT ![n] = Append(@,
                    [path |-> p, type |-> pending[n][p], hlc |-> t,
                     synced |-> FALSE, ack |-> FALSE])]
    BY DEF Flush
  <1> DEFINE e == [path |-> p, type |-> pending[n][p], hlc |-> t,
                   synced |-> FALSE, ack |-> FALSE]
  <1>2. log' = [log EXCEPT ![n] = Append(log[n], e)]
    BY <1>1 DEF TypeOK
  <1>3. e.path = p /\ ~e.synced /\ e.type = pending[n][p]
    OBVIOUS
  <1> HIDE DEF e
  <1>4. /\ log[n] \in Seq(Entry) /\ Len(log[n]) \in Nat
        /\ DOMAIN log[n] = 1..Len(log[n])
    BY DEF TypeOK
  <1>5. /\ DOMAIN log'[n] = 1..(Len(log[n]) + 1)
        /\ \A i \in 1..Len(log[n]) : log'[n][i] = log[n][i]
        /\ log'[n][Len(log[n]) + 1] = e
        /\ \A m \in Node : m # n => log'[m] = log[m]
    BY <1>2, <1>4 DEF TypeOK
  <1>6. /\ pending'[n][p] = "none"
        /\ \A m \in Node, x \in Path :
             ~(m = n /\ x = p) => pending'[m][x] = pending[m][x]
    BY DEF Flush, TypeOK
  <1> QED
    BY <1>3, <1>4, <1>5, <1>6 DEF Flush, cycleVars, bounds

\* The writer's watcher logs a change, under a new id.
LEMMA WriterFlush ==
    ASSUME NEW w \in Node, TypeOK, NodeInv(w), WriterParts(w), NEW n \in Node,
           NEW p \in Path, Flush(n, p)
    PROVE  WriterParts(w)'
  <1>1. n = w
    BY NodePeers DEF Flush, WriterParts, Silent
  <1> DEFINE new == Len(log[w]) + 1
  <1>2. /\ pending[w][p] # "none" /\ pending'[w][p] = "none"
        /\ Len(log[w]) \in Nat /\ DOMAIN log[w] = 1..Len(log[w])
        /\ DOMAIN log'[w] = 1..new
        /\ \A i \in 1..Len(log[w]) : log'[w][i] = log[w][i]
        /\ log'[w][new].path = p /\ ~log'[w][new].synced
        /\ log'[w][new].type = pending[w][p]
        /\ \A m \in Node : m # w => log'[m] = log[m]
        /\ \A m \in Node, x \in Path :
             ~(m = w /\ x = p) => pending'[m][x] = pending[m][x]
        /\ UNCHANGED <<fs, pc, remote, local, cur, buf, localDone, deleting>>
    BY <1>1, FlushLog
  <1>3. Peer(w) \in Node /\ Peer(w) # w
    BY PeerNode
  <1>4. Silent(Peer(w))' /\ \A m \in Node : NoDeletes(m)'
    BY <1>2, <1>3 DEF WriterParts, Silent, NoDeletes
  <1>5. Speaks(w)'
    BY <1>2 DEF WriterParts, Speaks
  <1>6. new \notin localDone[w]
    <2> SUFFICES ASSUME new \in localDone[w] PROVE FALSE
      OBVIOUS
    <2>1. PICK y \in Path : local[w][y] = new
      BY DEF NodeInv, DoneIsHandled
    <2> QED
      BY <1>2, <2>1 DEF TypeOK
  <1>7. ASSUME NEW x \in Path PROVE Late(w, x)' /\ Behind(w, x)'
    <2>1. CASE x = p
      <3>1. new \in UnsyncedFor(log'[w], x)
        BY <1>2, <2>1 DEF UnsyncedFor, Unsynced
      <3>2. local[w][x] # new
        BY <1>2 DEF TypeOK
      <3> QED
        BY <1>2, <1>6, <3>1, <3>2 DEF Late, Behind, Owes
    <2>2. CASE x # p
      <3>1. UnsyncedFor(log[w], x) \subseteq UnsyncedFor(log'[w], x)
        BY <1>2 DEF UnsyncedFor, Unsynced
      <3>2. pending'[w][x] = pending[w][x]
        BY <1>2, <2>2
      <3> QED
        BY <1>2, <3>1, <3>2 DEF WriterParts, Late, Behind, Owes
    <2> QED
      BY <2>1, <2>2
  <1> QED
    BY <1>4, <1>5, <1>7 DEF WriterParts

\* Steps that leave the files, the events and the changelogs alone, and collect no
\* id of the writer.
LEMMA WriterQuiet ==
    ASSUME NEW w \in Node, WriterParts(w),
           UNCHANGED <<fs, pending, log, deleting>>, localDone'[w] = localDone[w],
           \A p \in Path :
              /\ local'[Peer(w)][p] = 0 /\ remote'[w][p] = 0
              /\ p \in cur'[w] /\ pc'[w] = "write" /\ buf'[w] # fs[w][p] =>
                   /\ p \in cur[w] /\ pc[w] = "write" /\ buf'[w] = buf[w]
                   /\ local'[w][p] = local[w][p],
           cur'[Peer(w)] = {}, pc'[Peer(w)] \notin {"send", "write"},
           \A n \in Node : pc'[n] \notin {"evacuated", "delete", "deleting"}
    PROVE  WriterParts(w)'
  <1>1. Peer(w) \in Node /\ Peer(Peer(w)) = w
    BY PeerNode
  <1>2. Silent(Peer(w))' /\ \A n \in Node : NoDeletes(n)'
    BY <1>1 DEF WriterParts, Silent, NoDeletes
  <1>3. Speaks(w)'
    BY DEF WriterParts, Speaks
  <1>4. ASSUME NEW p \in Path PROVE Late(w, p)' /\ Behind(w, p)'
    BY DEF WriterParts, Late, Behind, Owes
  <1> QED
    BY <1>2, <1>3, <1>4 DEF WriterParts

LEMMA WriterReads ==
    ASSUME NEW w \in Node, TypeOK, WriterParts(w), NEW n \in Node,
           ExchangeChangelog(n) \/ ReadLocal(n)
    PROVE  WriterParts(w)'
  <1>1. Peer(w) \in Node /\ Peer(w) # w /\ Peer(Peer(w)) = w
    BY PeerNode
  <1>2. \A x : UnsyncedFor(log[Peer(w)], x) = {}
    BY DEF WriterParts, Silent, UnsyncedFor, Unsynced
  <1>3. /\ UNCHANGED <<fs, pending, log, deleting, localDone, cur, buf>>
        /\ pc'[n] \in {"fetched", "work"}
        /\ \A k \in Node : k # n => pc'[k] = pc[k] /\ local'[k] = local[k]
    BY DEF ExchangeChangelog, ReadLocal, fsVars, TypeOK
  <1>4. ASSUME NEW p \in Path PROVE local'[Peer(w)][p] = 0 /\ remote'[w][p] = 0
    <2>1. local[Peer(w)][p] = 0 /\ remote[w][p] = 0
      BY <1>1 DEF WriterParts, Silent
    <2>2. groupEntries(log[Peer(w)], p) = 0
      BY <1>2, GroupedEntry
    <2>3. CASE ExchangeChangelog(n)
      BY <1>1, <2>1, <2>2, <2>3 DEF ExchangeChangelog, TypeOK
    <2>4. CASE ReadLocal(n)
      BY <1>1, <2>1, <2>2, <2>4 DEF ReadLocal, TypeOK
    <2> QED
      BY <2>3, <2>4
  <1>5. \A p \in Path : p \in cur'[w] /\ pc'[w] = "write" => n # w
    BY <1>3
  <1> QED
    BY <1>1, <1>3, <1>4, <1>5, WriterQuiet DEF WriterParts, Silent, NoDeletes

\* The peer is through with an entry at once; the writer begins a transfer.
LEMMA WriterProcess ==
    ASSUME NEW w \in Node, TypeOK, NodeInv(w), WriterParts(w), NEW n \in Node,
           Process(n)
    PROVE  WriterParts(w)'
  <1>1. Peer(w) \in Node /\ Peer(w) # w /\ Peer(Peer(w)) = w
    BY PeerNode
  <1> PICK p \in Path :
        \/ SkipBlocked(n, p)
        \/ SkipUnknown(n, p)
        \/ NoTransfer(n, p)
        \/ BlockForManual(n, p)
        \/ EvacuateLoser(n, p)
        \/ RequestDelete(n, p)
        \/ StartSend(n, p)
    BY DEF Process
  <1>2. CASE SkipBlocked(n, p) \/ SkipUnknown(n, p)
    <2>1. UNCHANGED <<fs, pending, log, deleting, localDone, local, remote, cur, pc,
                      buf>>
      BY <1>2 DEF SkipBlocked, SkipUnknown, NotDone, fsVars
    <2> QED
      BY <1>1, <2>1, WriterQuiet DEF WriterParts, Silent, NoDeletes
  <1>3. CASE BlockForManual(n, p) \/ EvacuateLoser(n, p)
    BY <1>3, WriterMaps DEF BlockForManual, EvacuateLoser, Evacuates
  <1>4. CASE NoTransfer(n, p)
    <2>1. n # w
      <3> SUFFICES ASSUME n = w PROVE FALSE
        OBVIOUS
      <3>1. local[w][p] # 0 /\ fs[w][p] = Absent
        BY <1>4, WriterMaps DEF NoTransfer, Pulls, Pushes, InConflict
      <3>2. log[w] \in Seq(Entry) /\ local[w][p] \in DOMAIN log[w]
        BY <3>1 DEF TypeOK
      <3>3. local[w][p] \in UnsyncedFor(log[w], p)
        BY <1>4, <3>1
           DEF NoTransfer, Proceeds, Takes, NodeInv, ReadIsUnsynced, InLoop
      <3> QED
        BY <3>1, <3>2, <3>3 DEF WriterParts, Speaks, UnsyncedFor
    <2>2. /\ UNCHANGED <<fs, pending, log, deleting, local, remote, cur, pc, buf>>
          /\ localDone'[w] = localDone[w]
      BY <1>4, <2>1 DEF NoTransfer, Done, fsVars, TypeOK
    <2> QED
      BY <1>1, <2>2, WriterQuiet DEF WriterParts, Silent, NoDeletes
  <1>5. CASE RequestDelete(n, p)
    BY <1>5, WriterMaps DEF RequestDelete, Pushes, Pulls
  <1>6. CASE StartSend(n, p)
    <2>1. n = w
      BY <1>6, WriterMaps DEF StartSend, Pushes
    <2>2. /\ UNCHANGED <<fs, pending, log, deleting, local, remote, localDone, buf>>
          /\ pc'[w] = "send" /\ cur'[Peer(w)] = cur[Peer(w)] /\ pc'[Peer(w)] = pc[Peer(w)]
      BY <1>1, <1>6, <2>1 DEF StartSend, NotDone, fsVars, TypeOK
    <2> QED
      BY <1>1, <2>2, NodePeers, WriterQuiet DEF WriterParts, Silent, NoDeletes
  <1> QED
    BY <1>2, <1>3, <1>4, <1>5, <1>6

\* rsync sends what it has read: if that is not the file any more, the later change
\* is still owed although the entry of this one is collected.
LEMMA WriterTransfer ==
    ASSUME NEW w \in Node, OneWriter(w), TypeOK, NodeInv(w), WriterParts(w),
           NEW n \in Node, Transfer(n) \/ Serve(n)
    PROVE  WriterParts(w)'
  <1>1. Peer(w) \in Node /\ Peer(w) # w /\ Peer(Peer(w)) = w
    BY PeerNode
  <1> PICK p \in Path :
        \/ PushEvacuated(n, p)
        \/ DeleteReply(n, p)
        \/ SendRead(n, p)
        \/ SendWrite(n, p)
        \/ SendGivesUp(n, p)
        \/ DeleteRejected(n, p)
        \/ DeleteAccepted(n, p)
    BY DEF Transfer, Serve
  <1>2. SendRead(n, p) \/ SendWrite(n, p) \/ SendGivesUp(n, p)
    BY DEF WriterParts, NoDeletes, PushEvacuated, DeleteReply, DeleteRejected,
           DeleteAccepted
  <1>3. n = w
    BY <1>2, NodePeers DEF WriterParts, Silent, SendRead, SendWrite, SendGivesUp
  <1>4. CASE SendRead(n, p)
    <2>1. /\ UNCHANGED <<fs, pending, log, deleting, local, remote, localDone, cur>>
          /\ pc'[w] = "write" /\ p \in cur[w] /\ buf'[w] = fs[w][p]
          /\ pc'[Peer(w)] = pc[Peer(w)]
      BY <1>1, <1>3, <1>4 DEF SendRead, fsVars, TypeOK
    <2>2. \A x \in cur[w] : x = p
      BY <2>1 DEF NodeInv, TransferIsTaken
    <2> QED
      BY <1>1, <2>1, <2>2, NodePeers, WriterQuiet DEF WriterParts, Silent, NoDeletes
  <1>5. CASE SendGivesUp(n, p)
    <2>1. /\ UNCHANGED <<fs, pending, log, deleting, local, remote, localDone>>
          /\ pc'[w] = "work" /\ cur'[w] = {}
          /\ pc'[Peer(w)] = pc[Peer(w)] /\ cur'[Peer(w)] = cur[Peer(w)]
      BY <1>1, <1>3, <1>5 DEF SendGivesUp, Ends, fsVars, TypeOK
    <2> QED
      BY <1>1, <2>1, NodePeers, WriterQuiet DEF WriterParts, Silent, NoDeletes
  <1>6. CASE SendWrite(n, p)
    <2>1. /\ UNCHANGED <<pending, log, deleting, local, remote>>
          /\ Done(w, p) /\ Ends(w, p) /\ pc[w] = "write"
          /\ fs' = [fs EXCEPT ![Peer(w)][p] = buf[w]]
      BY <1>3, <1>6 DEF SendWrite, OneWriter
    <2>2. /\ pc'[w] = "work" /\ cur'[w] = {} /\ p \in cur[w]
          /\ pc'[Peer(w)] = pc[Peer(w)] /\ cur'[Peer(w)] = cur[Peer(w)]
      BY <1>1, <2>1 DEF Ends, TypeOK
    <2>3. /\ fs'[w] = fs[w] /\ fs'[Peer(w)][p] = buf[w]
          /\ \A x \in Path : x # p => fs'[Peer(w)][x] = fs[Peer(w)][x]
      BY <1>1, <2>1 DEF TypeOK
    <2>4. localDone'[w] = localDone[w] \cup ({local[w][p]} \ {0})
      BY <2>1 DEF Done, TypeOK
    <2>5. Silent(Peer(w))' /\ \A m \in Node : NoDeletes(m)'
      BY <1>1, <2>1, <2>2, NodePeers DEF WriterParts, Silent, NoDeletes
    <2>6. Speaks(w)'
      BY <2>1, <2>3 DEF WriterParts, Speaks
    <2>7. ASSUME NEW x \in Path PROVE Late(w, x)'
      BY <2>2 DEF Late
    <2>8. ASSUME NEW x \in Path PROVE Behind(w, x)'
      <3>1. CASE x = p
        BY <2>1, <2>2, <2>3, <2>4, <3>1 DEF WriterParts, Late, Behind, Owes
      <3>2. CASE x # p
        <4>1. UnsyncedFor(log[w], x) \ localDone[w]
                \subseteq UnsyncedFor(log[w], x) \ localDone'[w]
          BY <2>1, <3>2, DoneLeavesOthers DEF InLoop
        <4> QED
          BY <2>1, <2>3, <3>2, <4>1 DEF WriterParts, Behind, Owes
      <3> QED
        BY <3>1, <3>2
    <2> QED
      BY <2>5, <2>6, <2>7, <2>8 DEF WriterParts
  <1> QED
    BY <1>2, <1>4, <1>5, <1>6

\* What the end of a cycle does: marking takes what the cycle has collected, and no
\* more.
LEMMA MarksKeep ==
    ASSUME TypeOK, NEW n \in Node, MarkLocal(n) \/ AckRemote(n)
    PROVE  /\ UNCHANGED <<fs, pending, saved, deleting, cur, buf, policy, latest, ops>>
           /\ pc[n] \in {"work", "ack"} /\ pc'[n] \in {"idle", "ack"}
           /\ \A k \in Node :
                /\ k # n => pc'[k] = pc[k] /\ localDone'[k] = localDone[k]
                /\ pc'[k] # "idle" => remote'[k] = remote[k]
                /\ localDone'[k] \subseteq localDone[k]
                /\ \A x \in Path :
                     /\ local'[k][x] = local[k][x] \/ local'[k][x] = 0
                     /\ remote'[k][x] = remote[k][x] \/ remote'[k][x] = 0
                     /\ k # n => local'[k][x] = local[k][x]
                /\ Len(log'[k]) = Len(log[k])
                /\ DOMAIN log[k] = 1..Len(log[k]) /\ DOMAIN log'[k] = 1..Len(log[k])
                /\ \A i \in 1..Len(log[k]) :
                     /\ log'[k][i].type = log[k][i].type
                     /\ log'[k][i].path = log[k][i].path
                     /\ log'[k][i].hlc = log[k][i].hlc
                /\ \A x \in Path : UnsyncedFor(log[k], x) \ localDone[k]
                           \subseteq UnsyncedFor(log'[k], x)
                /\ k # n => \A x \in Path :
                     UnsyncedFor(log'[k], x) = UnsyncedFor(log[k], x)
  <1>1. /\ UNCHANGED <<fs, pending, saved, deleting, cur, buf, policy, latest, ops>>
        /\ pc[n] \in {"work", "ack"} /\ pc'[n] \in {"idle", "ack"}
        /\ \A k \in Node : k # n => pc'[k] = pc[k]
    BY DEF MarkLocal, AckRemote, fsVars, TypeOK
  <1>2. \A k \in Node :
          /\ localDone'[k] \subseteq localDone[k]
          /\ k # n => localDone'[k] = localDone[k]
          /\ pc'[k] # "idle" => remote'[k] = remote[k]
          /\ \A x \in Path :
               /\ local'[k][x] = local[k][x] \/ local'[k][x] = 0
               /\ remote'[k][x] = remote[k][x] \/ remote'[k][x] = 0
               /\ k # n => local'[k][x] = local[k][x]
    <2>1. CASE CycleEnds(n) /\ pc'[n] = "idle"
      BY <2>1 DEF CycleEnds, NoEntries, TypeOK
    <2>2. CASE UNCHANGED <<local, remote, localDone>>
      BY <2>2
    <2> QED
      BY <2>1, <2>2 DEF MarkLocal, AckRemote, TypeOK
  <1> SUFFICES ASSUME NEW k \in Node
               PROVE  /\ Len(log'[k]) = Len(log[k])
                      /\ DOMAIN log[k] = 1..Len(log[k])
                      /\ DOMAIN log'[k] = 1..Len(log[k])
                      /\ \A i \in 1..Len(log[k]) :
                           /\ log'[k][i].type = log[k][i].type
                           /\ log'[k][i].path = log[k][i].path
                           /\ log'[k][i].hlc = log[k][i].hlc
                      /\ \A x \in Path : UnsyncedFor(log[k], x) \ localDone[k]
                                 \subseteq UnsyncedFor(log'[k], x)
                      /\ k # n => \A x \in Path :
                            UnsyncedFor(log'[k], x) = UnsyncedFor(log[k], x)
    BY <1>1, <1>2
  <1>3. log[k] \in Seq(Entry)
    BY DEF TypeOK
  <1>4. \/ log'[k] = log[k]
        \/ k = n /\ log'[k] = MarkSynced(log[k], localDone[k])
        \/ log'[k] = MarkPeerAck(log[k], remoteDone[n])
    <2>1. CASE MarkLocal(n)
      BY <2>1 DEF MarkLocal, TypeOK
    <2>2. CASE AckRemote(n)
      BY <2>2, PeerNode DEF AckRemote, TypeOK
    <2> QED
      BY <2>1, <2>2
  <1>5. /\ Len(log'[k]) = Len(log[k]) /\ log'[k] \in Seq(Entry)
        /\ \A i \in 1..Len(log[k]) :
             /\ log'[k][i].type = log[k][i].type
             /\ log'[k][i].path = log[k][i].path
             /\ log'[k][i].hlc = log[k][i].hlc
    BY <1>3, <1>4, MarkSyncedLog, MarkPeerAckLog
  <1>6. ASSUME NEW x \in Path
        PROVE  /\ UnsyncedFor(log[k], x) \ localDone[k] \subseteq UnsyncedFor(log'[k], x)
               /\ k # n => UnsyncedFor(log'[k], x) = UnsyncedFor(log[k], x)
    BY <1>3, <1>4, UnsyncedAfterMark, UnsyncedAfterAck
  <1> QED
    BY <1>3, <1>5, <1>6

LEMMA WriterMarks ==
    ASSUME NEW w \in Node, TypeOK, WriterParts(w), NEW n \in Node,
           MarkLocal(n) \/ AckRemote(n)
    PROVE  WriterParts(w)'
  <1>1. Peer(w) \in Node /\ Peer(w) # w /\ Peer(Peer(w)) = w
    BY PeerNode
  <1>2. Silent(Peer(w))'
    <2>1. log'[Peer(w)] = <<>>
      <3>1. log[Peer(w)] = <<>> /\ Len(log'[Peer(w)]) = Len(log[Peer(w)])
        BY <1>1, MarksKeep DEF WriterParts, Silent
      <3>2. log'[Peer(w)] \in Seq(Entry)
        BY <1>1, TypeMarkLocal, TypeAckRemote DEF TypeOK
      <3> QED
        BY <3>1, <3>2
    <2> QED
      BY <1>1, <2>1, MarksKeep DEF WriterParts, Silent
  <1>3. Speaks(w)'
    BY MarksKeep DEF WriterParts, Speaks
  <1>4. ASSUME NEW x \in Path PROVE Behind(w, x)' /\ Late(w, x)'
    <2>1. UNCHANGED <<fs, pending, cur, buf>>
      BY MarksKeep
    <2>2. CASE n = w
      <3>1. pc'[w] # "write" /\ localDone'[w] \subseteq localDone[w]
        BY <2>2, MarksKeep
      <3>2. UnsyncedFor(log[w], x) \ localDone[w] \subseteq UnsyncedFor(log'[w], x)
        BY <2>2, MarksKeep
      <3> QED
        BY <2>1, <3>1, <3>2 DEF WriterParts, Late, Behind, Owes
    <2>3. CASE n # w
      <3>1. pc'[w] = pc[w] /\ localDone'[w] = localDone[w]
        BY <2>3, MarksKeep
      <3>3. local'[w][x] = local[w][x]
        BY <2>3, MarksKeep
      <3>2. UnsyncedFor(log'[w], x) = UnsyncedFor(log[w], x)
        BY <2>3, MarksKeep
      <3> QED
        BY <2>1, <3>1, <3>2, <3>3 DEF WriterParts, Late, Behind, Owes
    <2> QED
      BY <2>2, <2>3
  <1> QED
    BY <1>2, <1>3, <1>4, MarksKeep DEF WriterParts, NoDeletes

LEMMA WriterFailure ==
    ASSUME NEW w \in Node, OneWriter(w), TypeOK, WriterParts(w), NEW n \in Node,
           Failure(n)
    PROVE  WriterParts(w)'
  <1>1. Peer(w) \in Node /\ Peer(w) # w /\ Peer(Peer(w)) = w
    BY PeerNode
  <1>2. ~Crash(n)
    BY DEF Crash, OneWriter, TypeOK
  <1>3. ASSUME NEW p \in Path, OpFails(n, p) PROVE WriterParts(w)'
    <2>1. n = w
      BY <1>3, NodePeers DEF OpFails, WriterParts, Silent, NoDeletes
    <2>2. /\ UNCHANGED <<fs, pending, log, deleting, local, remote, localDone>>
          /\ pc'[w] = "work" /\ cur'[w] = {}
          /\ pc'[Peer(w)] = pc[Peer(w)] /\ cur'[Peer(w)] = cur[Peer(w)]
      BY <1>1, <1>3, <2>1 DEF OpFails, Ends, fsVars, TypeOK, WriterParts, NoDeletes
    <2> QED
      BY <1>1, <2>2, NodePeers, WriterQuiet DEF WriterParts, Silent, NoDeletes
  <1>4. ASSUME NEW p \in Path, EvacuateFails(n, p) PROVE FALSE
    BY <1>4, WriterMaps DEF EvacuateFails, Evacuates
  <1>5. CASE SendRetry(n)
    <2>1. n = w
      BY <1>5, NodePeers DEF SendRetry, WriterParts, Silent
    <2>2. /\ UNCHANGED <<fs, pending, log, deleting, local, remote, localDone, cur>>
          /\ pc'[w] = "send" /\ pc'[Peer(w)] = pc[Peer(w)]
      BY <1>1, <1>5, <2>1 DEF SendRetry, fsVars, TypeOK
    <2> QED
      BY <1>1, <2>2, NodePeers, WriterQuiet DEF WriterParts, Silent, NoDeletes
  <1> QED
    BY <1>2, <1>3, <1>4, <1>5 DEF Failure

LEMMA WriterStep ==
    ASSUME NEW w \in Node, OneWriter(w), WriterInv(w), [Next]_vars
    PROVE  WriterInv(w)'
  <1>1. TypeOK /\ NodeInv(w) /\ WriterParts(w)
    BY DEF WriterInv, ManualInv
  <1>2. ManualInv'
    BY ManualStep DEF WriterInv
  <1>3. ASSUME NEW n \in Node, NEW p \in Path, RemoveAll(n, p) PROVE FALSE
    BY <1>1, <1>3 DEF WriterParts, NoDeletes, RemoveAll
  <1>4. CASE UNCHANGED vars
    <2>1. Peer(w) \in Node /\ Peer(Peer(w)) = w
      BY PeerNode
    <2>2. UNCHANGED <<fs, pending, log, deleting, local, remote, localDone, cur, pc,
                      buf>>
      BY <1>4 DEF vars
    <2>3. WriterParts(w)'
      BY <1>1, <2>1, <2>2, WriterQuiet DEF WriterParts, Silent, NoDeletes
    <2> QED
      BY <1>2, <2>3 DEF WriterInv
  <1>5. ASSUME Next PROVE WriterParts(w)'
    BY <1>1, <1>3, <1>5, WriterUser, WriterFlush, WriterReads, WriterProcess,
       WriterTransfer, WriterMarks, WriterFailure DEF Next, Cycle
  <1> QED
    BY <1>2, <1>4, <1>5 DEF WriterInv

\* With one node that writes, a difference between the nodes is always owed a step,
\* although the user writes at any moment, during the transfer of the same file too,
\* and transfers and updates of the changelog fail (reconciler.go:94-182, 281-290).
THEOREM DifferenceIsOwedHolds ==
    Spec => []((\E w \in Node : OneWriter(w)) => DifferenceIsOwed)
  <1> DEFINE Inv == \A w \in Node : OneWriter(w) => WriterInv(w)
  <1>1. Init => Inv
    BY WriterInit
  <1>2. Inv /\ [Next]_vars => Inv'
    BY WriterStep DEF OneWriter
  <1>3. Inv => ((\E w \in Node : OneWriter(w)) => DifferenceIsOwed)
    <2> SUFFICES ASSUME NEW w \in Node, WriterInv(w) PROVE DifferenceIsOwed
      OBVIOUS
    <2>1. Peer(w) \in Node /\ Peer(w) # w
      BY PeerNode
    <2> QED
      BY <2>1, NodePeers DEF WriterInv, WriterParts, Behind, DifferenceIsOwed, Node
  <1> QED
    BY <1>1, <1>2, <1>3, PTL DEF Spec

--------------------------------------------------------------------------------
(* A conflict that both changelogs show, and no user who acts any more.  The  *)
(* daemons then only deal with the path in conflict (AtPlace).  Until a file  *)
(* is evacuated no daemon removes one (Plain): a file is removed only for a   *)
(* delete entry, and only an evacuation produces the first of them.  Under    *)
(* lww and alpha_wins nothing is evacuated, every transfer carries the        *)
(* winner (Carries), and as long as the loser's node has not received it the  *)
(* conflict is as it was logged (Open): the winner's entry is unsynced, and   *)
(* the loser's cycles see it and do not push.                                 *)

AtPlace(n) ==
    /\ cur[n] \cup todo[n] \cup deleting[n] \subseteq {Place}
    /\ \A i \in DOMAIN log[n] : log[n][i].path = Place
    /\ \A x \in Path : x # Place => pending[n][x] = "none" /\ remote[n][x] = 0

OnlyPlace == ops = MaxUserOps /\ \A n \in Node : AtPlace(n)

Plain(n) ==
    /\ fs[n][Place] # Absent
    /\ pc[n] = "write" => buf[n] # Absent
    /\ NoDeletes(n)
    /\ \A i \in DOMAIN log[n] : log[n][i].type = "modify"
    /\ \A x \in Path : pending[n][x] # "delete"

LEMMA PlaceReads ==
    ASSUME TypeOK, OnlyPlace, NEW n \in Node, ExchangeChangelog(n) \/ ReadLocal(n)
    PROVE  OnlyPlace'
  <1>1. Peer(n) \in Node
    BY PeerNode
  <1>2. ASSUME NEW k \in Node, NEW x \in Path, x # Place
        PROVE  groupEntries(log[k], x) = 0 /\ remote[k][x] = 0
    <2>1. UnsyncedFor(log[k], x) = {}
      BY <1>2 DEF OnlyPlace, AtPlace, UnsyncedFor, Unsynced
    <2> QED
      BY <1>2, <2>1, GroupedEntry DEF OnlyPlace, AtPlace
  <1>3. UNCHANGED <<pending, log, cur, deleting, ops>>
    BY DEF ExchangeChangelog, ReadLocal, fsVars, bounds
  <1>4. ASSUME NEW k \in Node, NEW x \in Path, x # Place PROVE remote'[k][x] = 0
    <2>1. groupEntries(log[Peer(n)], x) = 0 /\ remote[k][x] = 0
      BY <1>1, <1>2, <1>4
    <2>2. CASE ExchangeChangelog(n)
      BY <2>1, <2>2 DEF ExchangeChangelog, TypeOK
    <2>3. CASE ReadLocal(n)
      BY <2>1, <2>3 DEF ReadLocal
    <2> QED
      BY <2>2, <2>3
  <1>5. ASSUME NEW k \in Node PROVE todo'[k] \subseteq {Place}
    <2>1. todo[k] \subseteq {Place}
      BY DEF OnlyPlace, AtPlace
    <2>2. CASE k = n /\ ReadLocal(n)
      <3>1. todo'[n] = {x \in Path : groupEntries(log[n], x) # 0 \/ remote[n][x] # 0}
        BY <2>2 DEF ReadLocal, TypeOK
      <3> QED
        BY <1>2, <2>2, <3>1
    <2>3. CASE ~(k = n /\ ReadLocal(n))
      BY <2>1, <2>3 DEF ExchangeChangelog, ReadLocal, TypeOK
    <2> QED
      BY <2>2, <2>3
  <1> QED
    BY <1>3, <1>4, <1>5 DEF OnlyPlace, AtPlace

\* Steps that neither read nor write the changelogs.
LEMMA PlaceQuiet ==
    ASSUME OnlyPlace, ops' = ops, UNCHANGED log,
           \A k \in Node :
              /\ cur'[k] \subseteq cur[k] \cup {Place} /\ todo'[k] \subseteq todo[k]
              /\ deleting'[k] \subseteq deleting[k] \cup {Place}
              /\ \A x \in Path : x # Place =>
                   /\ pending'[k][x] = pending[k][x] \/ pending'[k][x] = "none"
                   /\ remote'[k][x] = remote[k][x] \/ remote'[k][x] = 0
    PROVE  OnlyPlace'
  BY DEF OnlyPlace, AtPlace

LEMMA PlaceTransfers ==
    ASSUME TypeOK, OnlyPlace, NEW n \in Node,
           \/ Process(n) \/ Transfer(n) \/ Serve(n) \/ Failure(n)
           \/ \E p \in Path : RemoveAll(n, p)
    PROVE  OnlyPlace'
  <1>1. Peer(n) \in Node /\ ops \in Nat /\ Node = {n, Peer(n)}
    BY PeerNode, NodePeers DEF TypeOK
  <1>2. CASE Process(n)
    <2>1. PICK p \in Path :
            \/ SkipBlocked(n, p)
            \/ SkipUnknown(n, p)
            \/ NoTransfer(n, p)
            \/ BlockForManual(n, p)
            \/ EvacuateLoser(n, p)
            \/ RequestDelete(n, p)
            \/ StartSend(n, p)
      BY <1>2 DEF Process
    <2>2. /\ Takes(n, p) /\ ops' = ops /\ UNCHANGED <<log, deleting, remote>>
          /\ UNCHANGED cur \/ cur' = [cur EXCEPT ![n] = {p}]
          /\ UNCHANGED pending \/ Vacates(n, p)
      BY <2>1 DEF SkipBlocked, SkipUnknown, NoTransfer, BlockForManual, EvacuateLoser,
                  RequestDelete, StartSend, Proceeds, fsVars, bounds
    <2>3. \A k \in Node, x \in Path : x # p => pending'[k][x] = pending[k][x]
      <3>1. CASE Vacates(n, p)
        <4>1. PICK e : pending' = [pending EXCEPT ![n][p] = e]
          BY <3>1 DEF Vacates
        <4> QED
          BY <4>1 DEF TypeOK
      <3> QED
        BY <2>2, <3>1
    <2>5. /\ p \in todo[n]
          /\ \A k \in Node : todo'[k] \subseteq todo[k]
          /\ \A k \in Node : cur'[k] \subseteq cur[k] \cup {p}
      BY <2>2 DEF Takes, TypeOK
    <2>4. p = Place
      BY <2>5 DEF OnlyPlace, AtPlace
    <2> QED
      BY <2>2, <2>3, <2>4, <2>5, PlaceQuiet
  <1>3. CASE Transfer(n) \/ Serve(n)
    <2>1. PICK p \in Path :
            \/ PushEvacuated(n, p)
            \/ DeleteReply(n, p)
            \/ SendRead(n, p)
            \/ SendWrite(n, p)
            \/ SendGivesUp(n, p)
            \/ DeleteRejected(n, p)
            \/ DeleteAccepted(n, p)
      BY <1>3 DEF Transfer, Serve
    <2>2. /\ p \in cur[n] /\ ops' = ops /\ UNCHANGED <<log, remote, todo>>
          /\ \A k \in Node : cur'[k] \subseteq cur[k]
          /\ \A k \in Node : deleting'[k] \subseteq deleting[k] \cup {p}
      <3>1. /\ p \in cur[n] /\ ops' = ops /\ UNCHANGED <<log, remote, todo>>
            /\ UNCHANGED cur \/ cur' = [cur EXCEPT ![n] = {}]
            /\ \/ UNCHANGED deleting
               \/ deleting' = [deleting EXCEPT ![Peer(n)] = @ \cup {p}]
        BY <2>1 DEF PushEvacuated, DeleteReply, SendRead, SendWrite, SendGivesUp,
                    DeleteRejected, DeleteAccepted, Ends, bounds
      <3> QED
        BY <1>1, <3>1 DEF TypeOK
    <2>3. \A k \in Node, x \in Path : x # p => pending'[k][x] = pending[k][x]
      <3>1. \/ UNCHANGED pending
            \/ pending' = [pending EXCEPT ![Peer(n)][p] = "modify"]
        BY <2>1 DEF PushEvacuated, DeleteReply, SendRead, SendWrite, SendGivesUp,
                    DeleteRejected, DeleteAccepted, fsVars
      <3> QED
        BY <1>1, <3>1 DEF TypeOK
    <2>4. p = Place
      BY <2>2 DEF OnlyPlace, AtPlace
    <2> QED
      BY <2>2, <2>3, <2>4, PlaceQuiet
  <1>4. ASSUME NEW p \in Path, RemoveAll(n, p) PROVE OnlyPlace'
    <2>1. /\ p \in deleting[n] /\ ops' = ops /\ UNCHANGED <<log, remote, todo, cur>>
          /\ \A k \in Node : deleting'[k] \subseteq deleting[k]
          /\ \A k \in Node, x \in Path : x # p => pending'[k][x] = pending[k][x]
      BY <1>4 DEF RemoveAll, cycleVars, bounds, TypeOK
    <2>2. p = Place
      BY <2>1 DEF OnlyPlace, AtPlace
    <2> QED
      BY <2>1, <2>2, PlaceQuiet
  <1>5. ASSUME NEW p \in Path, OpFails(n, p) \/ EvacuateFails(n, p) PROVE OnlyPlace'
    <2>1. /\ ops' = ops /\ UNCHANGED <<log, remote, pending>>
          /\ \A k \in Node : todo'[k] \subseteq todo[k]
          /\ \A k \in Node : cur'[k] \subseteq cur[k]
          /\ \A k \in Node : deleting'[k] \subseteq deleting[k]
      <3>1. CASE OpFails(n, p)
        <4>1. /\ ops' = ops /\ UNCHANGED <<log, remote, pending, todo>>
              /\ cur' = [cur EXCEPT ![n] = {}]
              /\ \/ UNCHANGED deleting
                 \/ deleting' = [deleting EXCEPT ![Peer(n)] = @ \ {p}]
          BY <3>1 DEF OpFails, Ends, fsVars
        <4>2. \A k \in Node : cur'[k] \subseteq cur[k]
          BY <4>1 DEF TypeOK
        <4>3. \A k \in Node : deleting'[k] \subseteq deleting[k]
          BY <1>1, <4>1 DEF TypeOK
        <4> QED
          BY <4>1, <4>2, <4>3
      <3>2. CASE EvacuateFails(n, p)
        BY <3>2 DEF EvacuateFails, Proceeds, Takes, fsVars, TypeOK
      <3> QED
        BY <1>5, <3>1, <3>2
    <2> QED
      BY <2>1, PlaceQuiet
  <1>6. CASE SendRetry(n)
    BY <1>6, PlaceQuiet DEF SendRetry, fsVars
  <1>7. CASE Crash(n)
    <2>1. /\ ops' = ops /\ UNCHANGED log
          /\ \A k \in Node : todo'[k] \subseteq todo[k] /\ cur'[k] \subseteq cur[k]
          /\ \A k \in Node : deleting'[k] \subseteq deleting[k]
      BY <1>7 DEF Crash, TypeOK
    <2>2. \A k \in Node, x \in Path :
            /\ pending'[k][x] = pending[k][x] \/ pending'[k][x] = "none"
            /\ remote'[k][x] = remote[k][x] \/ remote'[k][x] = 0
      BY <1>7 DEF Crash, CycleEnds, NoEntries, TypeOK
    <2> QED
      BY <2>1, <2>2, PlaceQuiet
  <1> QED
    BY <1>2, <1>3, <1>4, <1>5, <1>6, <1>7 DEF Failure

\* The daemons deal with the path in conflict only.
LEMMA PlaceStep ==
    ASSUME TypeOK, OnlyPlace, [Next]_vars
    PROVE  OnlyPlace'
  <1>1. ASSUME NEW n \in Node, User(n) PROVE FALSE
    BY <1>1 DEF OnlyPlace, User, UserWrite, UserRemove, UserChange, UserMayAct, TypeOK
  <1>2. ASSUME NEW n \in Node, NEW p \in Path, Flush(n, p) PROVE OnlyPlace'
    <2>1. /\ pending[n][p] # "none" /\ pending'[n][p] = "none"
          /\ Len(log[n]) \in Nat /\ DOMAIN log[n] = 1..Len(log[n])
          /\ DOMAIN log'[n] = 1..(Len(log[n]) + 1)
          /\ \A i \in 1..Len(log[n]) : log'[n][i] = log[n][i]
          /\ log'[n][Len(log[n]) + 1].path = p
          /\ \A m \in Node : m # n => log'[m] = log[m]
          /\ \A m \in Node, x \in Path :
               ~(m = n /\ x = p) => pending'[m][x] = pending[m][x]
          /\ UNCHANGED <<remote, todo, cur, deleting, ops>>
      BY <1>2, FlushLog
    <2>2. p = Place
      BY <2>1 DEF OnlyPlace, AtPlace
    <2>3. ASSUME NEW k \in Node, NEW i \in DOMAIN log'[k]
          PROVE  log'[k][i].path = Place
      <3>1. CASE k = n /\ i = Len(log[n]) + 1
        BY <2>1, <2>2, <3>1
      <3>2. CASE k = n /\ i # Len(log[n]) + 1
        <4>1. i \in 1..Len(log[n])
          BY <2>1, <3>2
        <4> QED
          BY <2>1, <3>2, <4>1 DEF OnlyPlace, AtPlace
      <3>3. CASE k # n
        BY <2>1, <3>3 DEF OnlyPlace, AtPlace
      <3> QED
        BY <3>1, <3>2, <3>3
    <2> QED
      BY <2>1, <2>2, <2>3 DEF OnlyPlace, AtPlace
  <1>3. ASSUME NEW n \in Node, MarkLocal(n) \/ AckRemote(n) PROVE OnlyPlace'
    <2>1. UNCHANGED <<cur, deleting, pending, ops, todo>>
      BY <1>3 DEF MarkLocal, AckRemote, fsVars
    <2>2. ASSUME NEW k \in Node, NEW x \in Path
          PROVE  remote'[k][x] = remote[k][x] \/ remote'[k][x] = 0
      BY <1>3, MarksKeep
    <2>3. ASSUME NEW k \in Node
          PROVE  /\ DOMAIN log'[k] = DOMAIN log[k]
                 /\ \A i \in DOMAIN log[k] : log'[k][i].path = log[k][i].path
      BY <1>3, MarksKeep
    <2> QED
      BY <2>1, <2>2, <2>3 DEF OnlyPlace, AtPlace
  <1>4. CASE UNCHANGED vars
    BY <1>4, PlaceQuiet DEF vars
  <1> QED
    BY <1>1, <1>2, <1>3, <1>4, PlaceReads, PlaceTransfers DEF Next, Cycle

\* No entry is a delete, so that no cycle finds one.
LEMMA PlainTypes ==
    ASSUME TypeOK, \A k \in Node : Plain(k), NEW n \in Node, NEW p \in Path
    PROVE  LocalType(n, p) # "delete" /\ RemoteType(n, p) # "delete"
  <1>1. Peer(n) \in Node
    BY PeerNode
  <1>2. /\ log[n] \in Seq(Entry) /\ log[Peer(n)] \in Seq(Entry)
        /\ local[n][p] \in 0..Len(log[n]) /\ remote[n][p] \in 0..Len(log[Peer(n)])
    BY <1>1 DEF TypeOK
  <1>3. local[n][p] # 0 => log[n][local[n][p]].type = "modify"
    BY <1>2 DEF Plain
  <1>4. remote[n][p] # 0 => log[Peer(n)][remote[n][p]].type = "modify"
    BY <1>1, <1>2 DEF Plain
  <1> QED
    BY <1>3, <1>4 DEF LocalType, RemoteType

LEMMA PlainQuiet ==
    ASSUME \A k \in Node : Plain(k), UNCHANGED <<log, deleting>>,
           \A k \in Node :
              /\ fs'[k][Place] # Absent
              /\ pc'[k] = "write" => buf'[k] # Absent
              /\ pc'[k] \notin {"evacuated", "delete", "deleting"}
              /\ \A x \in Path : pending'[k][x] # "delete"
    PROVE  \A k \in Node : Plain(k)'
  BY DEF Plain, NoDeletes

\* Until a file is evacuated, no daemon removes one.
LEMMA PlainCycle ==
    ASSUME TypeOK, OnlyPlace, \A k \in Node : Plain(k), NEW n \in Node,
           Process(n) \/ Transfer(n) \/ Serve(n) \/ Failure(n)
    PROVE  \/ \A k \in Node : Plain(k)'
           \/ \E p \in Path : EvacuateLoser(n, p)
  <1>1. Peer(n) \in Node /\ Place \in Path
    BY PeerNode, ConflictAssumption
  <1>2. \A k \in Node :
          /\ fs[k][Place] # Absent
          /\ pc[k] = "write" => buf[k] # Absent
          /\ pc[k] \notin {"evacuated", "delete", "deleting"}
          /\ \A x \in Path : pending[k][x] # "delete"
    BY DEF Plain, NoDeletes
  <1>3. ASSUME NEW p \in Path, RequestDelete(n, p) PROVE FALSE
    BY <1>3, PlainTypes DEF RequestDelete
  <1>4. ASSUME NEW p \in Path,
               \/ SkipBlocked(n, p)
               \/ SkipUnknown(n, p)
               \/ NoTransfer(n, p)
               \/ BlockForManual(n, p)
               \/ EvacuateFails(n, p)
        PROVE  \A k \in Node : Plain(k)'
    <2>1. UNCHANGED <<log, deleting, fs, pending, pc, buf>>
      BY <1>4 DEF SkipBlocked, SkipUnknown, NoTransfer, BlockForManual, EvacuateFails,
                  fsVars
    <2> QED
      BY <1>2, <2>1, PlainQuiet
  <1>5. ASSUME NEW p \in Path, StartSend(n, p) PROVE \A k \in Node : Plain(k)'
    <2>1. UNCHANGED <<log, deleting, fs, pending, buf>> /\ pc' = [pc EXCEPT ![n] = "send"]
      BY <1>5 DEF StartSend, fsVars
    <2>2. \A k \in Node : pc'[k] = pc[k] \/ pc'[k] = "send"
      BY <2>1 DEF TypeOK
    <2> QED
      BY <1>2, <2>1, <2>2, PlainQuiet
  <1>6. ASSUME NEW p \in Path, SendRead(n, p) PROVE \A k \in Node : Plain(k)'
    <2>1. /\ UNCHANGED <<log, deleting, fs, pending>> /\ fs[n][p] # Absent
          /\ buf'[n] = fs[n][p] /\ pc'[n] = "write"
          /\ \A k \in Node : k # n => buf'[k] = buf[k] /\ pc'[k] = pc[k]
      BY <1>6 DEF SendRead, fsVars, TypeOK
    <2> QED
      BY <1>2, <2>1, PlainQuiet
  <1>7. ASSUME NEW p \in Path, SendWrite(n, p) PROVE \A k \in Node : Plain(k)'
    <2>1. /\ UNCHANGED <<log, deleting>> /\ p \in cur[n] /\ pc[n] = "write"
          /\ pc'[n] = "work"
          /\ \A k \in Node : k # n => buf'[k] = buf[k] /\ pc'[k] = pc[k]
      BY <1>7 DEF SendWrite, Ends, TypeOK
    <2>2. \A k \in Node : fs'[k][Place] = fs[k][Place] \/ fs'[k][Place] = buf[n]
      BY <1>1, <1>7 DEF SendWrite, TypeOK
    <2>3. \A k \in Node, x \in Path :
            pending'[k][x] = pending[k][x] \/ pending'[k][x] = "modify"
      <3>1. \/ UNCHANGED pending
            \/ pending' = [pending EXCEPT ![Peer(n)][p] = "modify"]
        BY <1>7 DEF SendWrite
      <3>2. pending \in [Node -> [Path -> Event]]
        BY DEF TypeOK
      <3>3. CASE pending' = [pending EXCEPT ![Peer(n)][p] = "modify"]
        BY <1>1, <3>2, <3>3
      <3> QED
        BY <3>1, <3>3
    <2> QED
      BY <1>2, <2>1, <2>2, <2>3, PlainQuiet
  <1>8. ASSUME NEW p \in Path, SendGivesUp(n, p) \/ OpFails(n, p)
        PROVE  \A k \in Node : Plain(k)'
    <2>1. UNCHANGED <<log, deleting, fs, pending>> /\ Ends(n, p)
      BY <1>2, <1>8 DEF SendGivesUp, OpFails, fsVars
    <2>2. /\ pc'[n] = "work"
          /\ \A k \in Node : k # n => buf'[k] = buf[k] /\ pc'[k] = pc[k]
      BY <2>1 DEF Ends, TypeOK
    <2> QED
      BY <1>2, <2>1, <2>2, PlainQuiet
  <1>9. ASSUME NEW p \in Path,
               \/ PushEvacuated(n, p)
               \/ DeleteReply(n, p)
               \/ DeleteRejected(n, p)
               \/ DeleteAccepted(n, p)
        PROVE  FALSE
    BY <1>2, <1>9 DEF PushEvacuated, DeleteReply, DeleteRejected, DeleteAccepted
  <1>10. CASE SendRetry(n)
    <2>1. UNCHANGED <<log, deleting, fs, pending>>
      BY <1>10 DEF SendRetry, fsVars
    <2>2. /\ pc'[n] = "send"
          /\ \A k \in Node : k # n => buf'[k] = buf[k] /\ pc'[k] = pc[k]
      BY <1>10 DEF SendRetry, TypeOK
    <2> QED
      BY <1>2, <2>1, <2>2, PlainQuiet
  <1>11. CASE Crash(n)
    <2>1. /\ UNCHANGED <<log, fs>> /\ pc'[n] = "idle"
          /\ \A k \in Node : k # n => buf'[k] = buf[k] /\ pc'[k] = pc[k]
          /\ \A k \in Node : deleting'[k] \subseteq deleting[k]
      BY <1>2, <1>11 DEF Crash, TypeOK
    <2>2. \A k \in Node, x \in Path :
            pending'[k][x] = pending[k][x] \/ pending'[k][x] = "none"
      BY <1>11 DEF Crash, TypeOK
    <2> QED
      BY <1>2, <2>1, <2>2 DEF Plain, NoDeletes
  <1>12. CASE Process(n)
    BY <1>3, <1>4, <1>5, <1>12 DEF Process
  <1>13. CASE Transfer(n) \/ Serve(n)
    BY <1>6, <1>7, <1>8, <1>9, <1>13 DEF Transfer, Serve
  <1>14. CASE Failure(n)
    BY <1>4, <1>8, <1>10, <1>11, <1>14 DEF Failure
  <1> QED
    BY <1>12, <1>13, <1>14

LEMMA PlainStep ==
    ASSUME TypeOK, OnlyPlace, \A k \in Node : Plain(k), [Next]_vars
    PROVE  \/ \A k \in Node : Plain(k)'
           \/ \E n \in Node, p \in Path : EvacuateLoser(n, p)
  <1>1. ASSUME NEW n \in Node, User(n) PROVE FALSE
    BY <1>1 DEF OnlyPlace, User, UserWrite, UserRemove, UserChange, UserMayAct, TypeOK
  <1>2. ASSUME NEW n \in Node, NEW p \in Path, Flush(n, p)
        PROVE  \A k \in Node : Plain(k)'
    <2>1. /\ pending[n][p] # "none" /\ pending'[n][p] = "none"
          /\ Len(log[n]) \in Nat /\ DOMAIN log[n] = 1..Len(log[n])
          /\ DOMAIN log'[n] = 1..(Len(log[n]) + 1)
          /\ \A i \in 1..Len(log[n]) : log'[n][i] = log[n][i]
          /\ log'[n][Len(log[n]) + 1].type = pending[n][p]
          /\ \A m \in Node : m # n => log'[m] = log[m]
          /\ \A m \in Node, x \in Path :
               ~(m = n /\ x = p) => pending'[m][x] = pending[m][x]
          /\ UNCHANGED <<fs, pc, buf, deleting>>
      BY <1>2, FlushLog
    <2>2. pending[n][p] = "modify"
      BY <2>1 DEF Plain, TypeOK, Event, EventType
    <2>3. ASSUME NEW k \in Node, NEW i \in DOMAIN log'[k]
          PROVE  log'[k][i].type = "modify"
      <3>1. CASE k = n /\ i = Len(log[n]) + 1
        BY <2>1, <2>2, <3>1
      <3>2. CASE k = n /\ i # Len(log[n]) + 1
        <4>1. i \in 1..Len(log[n])
          BY <2>1, <3>2
        <4> QED
          BY <2>1, <3>2, <4>1 DEF Plain
      <3>3. CASE k # n
        BY <2>1, <3>3 DEF Plain
      <3> QED
        BY <3>1, <3>2, <3>3
    <2>4. \A k \in Node, x \in Path : pending'[k][x] # "delete"
      BY <2>1 DEF Plain
    <2> QED
      BY <2>1, <2>3, <2>4 DEF Plain, NoDeletes
  <1>3. ASSUME NEW n \in Node, MarkLocal(n) \/ AckRemote(n)
        PROVE  \A k \in Node : Plain(k)'
    <2>1. UNCHANGED <<fs, deleting, pending, buf>>
      BY <1>3, MarksKeep
    <2>2. ASSUME NEW k \in Node
          PROVE  /\ pc'[k] = pc[k] \/ pc'[k] \in {"idle", "ack"}
                 /\ DOMAIN log'[k] = DOMAIN log[k]
                 /\ \A i \in DOMAIN log[k] : log'[k][i].type = log[k][i].type
      BY <1>3, MarksKeep
    <2> QED
      BY <2>1, <2>2 DEF Plain, NoDeletes
  <1>4. ASSUME NEW n \in Node, ExchangeChangelog(n) \/ ReadLocal(n)
        PROVE  \A k \in Node : Plain(k)'
    <2>1. UNCHANGED <<log, deleting, fs, pending, buf>>
      BY <1>4 DEF ExchangeChangelog, ReadLocal, fsVars
    <2>2. \A k \in Node : pc'[k] = pc[k] \/ pc'[k] \in {"fetched", "work"}
      BY <1>4 DEF ExchangeChangelog, ReadLocal, TypeOK
    <2> QED
      BY <2>1, <2>2 DEF Plain, NoDeletes
  <1>5. ASSUME NEW n \in Node, NEW p \in Path, RemoveAll(n, p) PROVE FALSE
    BY <1>5 DEF RemoveAll, Plain, NoDeletes
  <1>6. CASE UNCHANGED vars
    BY <1>6 DEF vars, Plain, NoDeletes
  <1> QED
    BY <1>1, <1>2, <1>3, <1>4, <1>5, <1>6, PlainCycle DEF Next, Cycle

\* Only an evacuation changes a conflict directory.
LEMMA SavedKept ==
    ASSUME [Next]_vars, ~\E n \in Node, p \in Path : EvacuateLoser(n, p)
    PROVE  saved' = saved
  <1>1. ASSUME NEW n \in Node, Process(n) PROVE saved' = saved
    BY <1>1 DEF Process, SkipBlocked, SkipUnknown, NoTransfer, BlockForManual,
                RequestDelete, StartSend, fsVars
  <1>2. ASSUME NEW n \in Node, Cycle(n), ~Process(n) PROVE saved' = saved
    BY <1>2 DEF Cycle, ExchangeChangelog, ReadLocal, MarkLocal, AckRemote, Transfer,
                PushEvacuated, DeleteReply, SendRead, SendWrite, SendGivesUp, fsVars
  <1>3. ASSUME NEW n \in Node, Serve(n) \/ Failure(n) PROVE saved' = saved
    BY <1>3 DEF Serve, DeleteRejected, DeleteAccepted, Failure, OpFails, EvacuateFails,
                SendRetry, Crash, fsVars
  <1>4. ASSUME NEW n \in Node, User(n) \/ \E p \in Path : Flush(n, p) \/ RemoveAll(n, p)
        PROVE  saved' = saved
    BY <1>4 DEF User, UserWrite, UserRemove, UserChange, Flush, RemoveAll
  <1> QED
    BY <1>1, <1>2, <1>3, <1>4 DEF Next, vars

\* The conflict as it is found.
LEMMA ConflictFound ==
    ASSUME ConflictInit
    PROVE  /\ ManualInv
           /\ policy # "manual" => OnlyPlace
           /\ Content2 # Absent => \A n \in Node : Plain(n)
           /\ \A n \in Node : Len(log[n]) = 1 /\ ~log[n][1].synced
  <1>1. PICK h1 \in 1..2, h2 \in 1..2, f \in [Path -> Content \cup {Absent}] :
          /\ fs = <<[f EXCEPT ![Place] = Content1], [f EXCEPT ![Place] = Content2]>>
          /\ log = <<Logged("modify", h1),
                     Logged(IF Content2 = Absent THEN "delete" ELSE "modify", h2)>>
          /\ clock = <<h1, h2>>
          /\ latest = [f EXCEPT ![Place] = Expected(h1, h2)]
    BY DEF ConflictInit
  <1> DEFINE t2 == IF Content2 = Absent THEN "delete" ELSE "modify"
             e1 == [path |-> Place, type |-> "modify", hlc |-> h1, synced |-> FALSE,
                    ack |-> FALSE]
             e2 == [path |-> Place, type |-> t2, hlc |-> h2, synced |-> FALSE,
                    ack |-> FALSE]
  <1>2. Node = {1, 2} /\ Place \in Path
    BY ConflictAssumption DEF Node
  <1>3. e1 \in Entry /\ e2 \in Entry
    BY <1>2 DEF Entry, EventType
  <1>4. log[1] = <<e1>> /\ log[2] = <<e2>>
    BY <1>1 DEF Logged
  <1>5. /\ e1.path = Place /\ e2.path = Place /\ ~e1.synced /\ ~e2.synced
        /\ e1.type = "modify" /\ (Content2 # Absent => e2.type = "modify")
    OBVIOUS
  <1>6. log \in [Node -> Seq(Entry)] /\ clock \in [Node -> Nat]
    <2> DEFINE s1 == <<e1>>
               s2 == <<e2>>
    <2>1. s1 \in Seq(Entry) /\ s2 \in Seq(Entry)
      BY <1>3
    <2>2. log = <<s1, s2>>
      BY <1>1 DEF Logged
    <2> HIDE DEF s1, s2
    <2> QED
      BY <1>1, <2>1, <2>2 DEF Node
  <1>7. /\ fs \in [Node -> [Path -> Content \cup {Absent}]]
        /\ latest \in [Path -> Content \cup {Absent}]
        /\ fs[1][Place] = Content1 /\ fs[2][Place] = Content2
    <2> DEFINE f1 == [f EXCEPT ![Place] = Content1]
               f2 == [f EXCEPT ![Place] = Content2]
    <2>1. /\ f1 \in [Path -> Content \cup {Absent}]
          /\ f2 \in [Path -> Content \cup {Absent}]
          /\ f1[Place] = Content1 /\ f2[Place] = Content2
      BY ConflictAssumption
    <2>2. latest \in [Path -> Content \cup {Absent}]
      BY <1>1, ConflictAssumption DEF Expected
    <2>3. fs = <<f1, f2>>
      BY <1>1
    <2> HIDE DEF f1, f2
    <2>4. fs \in [1..2 -> [Path -> Content \cup {Absent}]]
      BY <2>1, <2>3
    <2> QED
      BY <2>1, <2>2, <2>3, <2>4 DEF Node
  <1> HIDE DEF e1, e2, t2
  <1>8. \A n \in Node :
          /\ Len(log[n]) = 1 /\ DOMAIN log[n] = {1} /\ ~log[n][1].synced
          /\ log[n][1].path = Place
          /\ Content2 # Absent => log[n][1].type = "modify"
    BY <1>2, <1>4, <1>5
  <1>9. TypeOK
    <2>1. policy \in Policies
      BY PolicyAssumption DEF ConflictInit
    <2>2. /\ \A n \in Node, p \in Path : local[n][p] = 0 /\ remote[n][p] = 0
          /\ local \in [Node -> [Path -> Nat]] /\ remote \in [Node -> [Path -> Nat]]
      BY DEF ConflictInit, NoEntries
    <2>3. \A n \in Node : Len(log[n]) \in Nat /\ Len(log[Peer(n)]) \in Nat
      BY <1>8, PeerNode
    <2>4. /\ pending \in [Node -> [Path -> Event]]
          /\ pc \in [Node -> Phase]
          /\ buf \in [Node -> Content \cup {Absent}]
          /\ saved \in [Node -> [Path -> SUBSET Content]]
      BY DEF ConflictInit, Event, Phase
    <2>5. /\ todo \in [Node -> SUBSET Path] /\ cur \in [Node -> SUBSET Path]
          /\ blocked \in [Node -> SUBSET Path] /\ deleting \in [Node -> SUBSET Path]
          /\ localDone \in [Node -> SUBSET (Nat \ {0})]
          /\ remoteDone \in [Node -> SUBSET (Nat \ {0})]
      BY DEF ConflictInit
    <2>6. ops \in Nat /\ faults \in Nat /\ crashes \in Nat
      BY BoundAssumption DEF ConflictInit
    <2>7. \A n \in Node, p \in Path :
            local[n][p] \in 0..Len(log[n]) /\ remote[n][p] \in 0..Len(log[Peer(n)])
      BY <2>2, <2>3
    <2> QED
      BY <1>6, <1>7, <2>1, <2>2, <2>4, <2>5, <2>6, <2>7 DEF TypeOK
  <1>10. \A n \in Node : NodeInv(n)
    BY DEF ConflictInit, NodeInv, ReadIsUnsynced, DoneIsHandled, TransferIsTaken,
           KeepsEntry, InLoop, NoEntries
  <1>11. policy # "manual" => OnlyPlace
    <2>1. \A n \in Node : cur[n] = {} /\ todo[n] = {} /\ deleting[n] = {}
      BY DEF ConflictInit
    <2>2. \A n \in Node, x \in Path : pending[n][x] = "none" /\ remote[n][x] = 0
      BY DEF ConflictInit, NoEntries
    <2>3. policy # "manual" => ops = MaxUserOps
      BY DEF ConflictInit
    <2> QED
      BY <1>8, <2>1, <2>2, <2>3 DEF OnlyPlace, AtPlace
  <1>12. Content2 # Absent => \A n \in Node : Plain(n)
    <2>1. Content1 # Absent
      BY ConflictAssumption, PathAssumption
    <2> QED
      BY <1>2, <1>7, <1>8, <2>1 DEF ConflictInit, Plain, NoDeletes
  <1> QED
    BY <1>8, <1>9, <1>10, <1>11, <1>12 DEF ManualInv

\* An evacuation leaves something in the conflict directory, if there was a file.
LEMMA EvacuationSaves ==
    ASSUME TypeOK, NEW n \in Node, NEW p \in Path, EvacuateLoser(n, p)
    PROVE  \E s : /\ saved' = [saved EXCEPT ![n][p] = s]
                  /\ s = saved[n][p] \/ s # {}
                  /\ fs[n][p] # Absent => s # {}
  <1>1. PICK kept \in {saved[n][p], {}} :
          saved' = [saved EXCEPT ![n][p] =
                      IF fs[n][p] = Absent THEN @ ELSE kept \cup {fs[n][p]}]
    BY DEF EvacuateLoser
  <1> DEFINE s == IF fs[n][p] = Absent THEN saved[n][p] ELSE kept \cup {fs[n][p]}
  <1>2. saved' = [saved EXCEPT ![n][p] = s]
    BY <1>1 DEF TypeOK
  <1>3. (s = saved[n][p] \/ s # {}) /\ (fs[n][p] # Absent => s # {})
    OBVIOUS
  <1> QED
    BY <1>2, <1>3

\* Either nothing has been evacuated and both nodes have a file, or a conflict
\* directory has one.
SurviveInv ==
    /\ TypeOK
    /\ policy # "manual" =>
         /\ OnlyPlace
         /\ (\A n \in Node : Plain(n)) \/ \E n \in Node : saved[n][Place] # {}

LEMMA SurviveStep == SurviveInv /\ [Next]_vars => SurviveInv'
  <1> SUFFICES ASSUME SurviveInv, [Next]_vars, policy' # "manual"
               PROVE  /\ OnlyPlace'
                      /\ \/ \A n \in Node : Plain(n)'
                         \/ \E n \in Node : saved'[n][Place] # {}
    BY TypeStep DEF SurviveInv
  <1>1. policy # "manual" /\ TypeOK /\ OnlyPlace /\ Place \in Path
    BY PolicyKept, ConflictAssumption DEF SurviveInv
  <1>2. ASSUME NEW n \in Node, NEW p \in Path, EvacuateLoser(n, p),
               NEW m \in Node, saved[m][Place] # {}
        PROVE  saved'[m][Place] # {}
    <2>1. PICK s : /\ saved' = [saved EXCEPT ![n][p] = s]
                   /\ s = saved[n][p] \/ s # {}
      BY <1>1, <1>2, EvacuationSaves
    <2>2. saved \in [Node -> [Path -> SUBSET Content]]
      BY <1>1 DEF TypeOK
    <2> QED
      BY <1>1, <1>2, <2>1, <2>2
  <1>3. ASSUME NEW n \in Node, NEW p \in Path, EvacuateLoser(n, p),
               \A k \in Node : Plain(k)
        PROVE  saved'[n][Place] # {}
    <2>1. p = Place
      BY <1>1, <1>3 DEF EvacuateLoser, Proceeds, Takes, OnlyPlace, AtPlace
    <2>2. PICK s : saved' = [saved EXCEPT ![n][p] = s] /\ s # {}
      BY <1>1, <1>3, <2>1, EvacuationSaves DEF Plain
    <2>3. saved \in [Node -> [Path -> SUBSET Content]]
      BY <1>1 DEF TypeOK
    <2> QED
      BY <2>1, <2>2, <2>3
  <1>4. ASSUME ~\E n \in Node, p \in Path : EvacuateLoser(n, p) PROVE saved' = saved
    BY <1>1, <1>4, SavedKept
  <1>5. OnlyPlace'
    BY <1>1, PlaceStep
  <1>6. CASE \A n \in Node : Plain(n)
    <2>1. CASE \E n \in Node, p \in Path : EvacuateLoser(n, p)
      BY <1>3, <1>5, <1>6, <2>1
    <2>2. CASE ~\E n \in Node, p \in Path : EvacuateLoser(n, p)
      BY <1>1, <1>5, <1>6, <2>2, PlainStep
    <2> QED
      BY <2>1, <2>2
  <1>7. CASE \E n \in Node : saved[n][Place] # {}
    <2>1. CASE \E n \in Node, p \in Path : EvacuateLoser(n, p)
      BY <1>2, <1>5, <1>7, <2>1
    <2>2. CASE ~\E n \in Node, p \in Path : EvacuateLoser(n, p)
      BY <1>4, <1>5, <1>7, <2>2
    <2> QED
      BY <2>1, <2>2
  <1> QED
    BY <1>1, <1>5, <1>6, <1>7 DEF SurviveInv

\* Two changes of one path, logged on both nodes: under every policy that resolves
\* the conflict by itself, one version of the file exists at any moment, on a node or
\* in a conflict directory, although transfers, evacuations, updates and daemons fail
\* between any two steps and events of the daemons' own writes come back
\* (conflict.go:44-141, reconciler.go:133-175).
THEOREM OneVersionSurvivesHolds ==
    ConflictSpec => [](Content2 # Absent => OneVersionSurvives)
  <1>1. ConflictInit => (Content2 # Absent => SurviveInv)
    BY ConflictFound DEF SurviveInv, ManualInv
  <1>2. (Content2 # Absent => SurviveInv) /\ [Next]_vars
          => (Content2 # Absent => SurviveInv)'
    BY SurviveStep
  <1>3. SurviveInv => OneVersionSurvives
    BY DEF SurviveInv, OneVersionSurvives, Plain, Node
  <1> QED
    BY <1>1, <1>2, <1>3, PTL DEF ConflictSpec

Carries(n) ==
    pc[n] \in {"send", "write"} =>
        /\ fs[n][Place] = latest[Place]
        /\ pc[n] = "write" => buf[n] = latest[Place]

\* w's entry wins, and the other node does not have w's file yet.
Open(w) ==
    /\ \A n \in Node : Len(log[n]) = 1 /\ pending[n][Place] = "none"
    /\ 1 \in UnsyncedFor(log[w], Place) /\ 1 \notin localDone[w]
    /\ cur[Peer(w)] = {} /\ pc[Peer(w)] \notin {"send", "write"}
    /\ pc[Peer(w)] # "idle" => remote[Peer(w)][Place] = 1
    /\ policy = "lww" => log[w][1].hlc > log[Peer(w)][1].hlc
    /\ policy = "alpha_wins" => w = 1

WinParts(w) ==
    /\ \A n \in Node : Carries(n)
    /\ fs[w][Place] = latest[Place]
    /\ fs[Peer(w)][Place] # latest[Place] => Open(w)

WinInv ==
    /\ TypeOK /\ OnlyPlace /\ NamesWinner
    /\ \A n \in Node : Plain(n)
    /\ \E w \in Node : WinParts(w)

\* In an open conflict the loser's node does not push, and the winner's does not give
\* way.
LEMMA OpenVerdict ==
    ASSUME TypeOK, NamesWinner, \A n \in Node : Plain(n), NEW w \in Node, Open(w)
    PROVE  /\ pc[Peer(w)] # "idle" => ~Pushes(Peer(w), Place)
           /\ Pulls(w, Place) => local[w][Place] = 0
  <1>1. Peer(w) \in Node /\ Peer(Peer(w)) = w /\ Place \in Path
    BY PeerNode, ConflictAssumption
  <1> DEFINE v == Peer(w)
             ours == log[w][1]
             theirs == log[v][1]
  <1>2. /\ local[w][Place] \in {0, 1} /\ local[v][Place] \in {0, 1}
        /\ remote[w][Place] \in {0, 1} /\ remote[v][Place] \in {0, 1}
    <2>1. \A n \in Node : local[n][Place] \in 0..1 /\ remote[n][Place] \in 0..1
      BY <1>1, PeerNode DEF Open, TypeOK
    <2> QED
      BY <1>1, <2>1
  <1>3. ours.type = "modify" /\ theirs.type = "modify"
    <2>1. 1 \in DOMAIN log[w] /\ 1 \in DOMAIN log[v]
      <3>1. \A n \in Node : log[n] \in Seq(Entry) /\ Len(log[n]) = 1
        BY DEF Open, TypeOK
      <3> QED
        BY <1>1, <3>1
    <2> QED
      BY <1>1, <2>1 DEF Plain
  <1>4. ours.hlc \in Nat /\ theirs.hlc \in Nat
    <2>1. log[w] \in Seq(Entry) /\ log[v] \in Seq(Entry) /\ Len(log[w]) = 1 /\ Len(log[v]) = 1
      BY <1>1 DEF Open, TypeOK
    <2>2. ours \in Entry /\ theirs \in Entry
      BY <2>1
    <2> QED
      BY <2>2 DEF Entry
  <1>5. /\ resolve(policy, w, ours, theirs) = "local"
        /\ resolve(policy, v, theirs, ours) = "remote"
    <2>1. CASE policy = "lww"
      <3>1. ours.hlc > theirs.hlc
        BY <2>1 DEF Open
      <3>2. resolveLWW(ours, theirs) = "local" /\ resolveLWW(theirs, ours) = "remote"
        BY <1>4, <3>1 DEF resolveLWW
      <3> QED
        BY <1>3, <2>1, <3>2 DEF resolve
    <2>2. CASE policy = "alpha_wins"
      <3>1. w = 1 /\ v = 2
        BY <2>2 DEF Open, Peer
      <3>2. resolveAlphaWins(1) = "local" /\ resolveAlphaWins(2) = "remote"
        BY DEF resolveAlphaWins, Peer
      <3> QED
        BY <1>3, <2>2, <3>1, <3>2 DEF resolve
    <2> QED
      BY <2>1, <2>2 DEF NamesWinner
  <1>6. ASSUME pc[v] # "idle", Pushes(v, Place) PROVE FALSE
    <2>1. remote[v][Place] = 1
      BY <1>6 DEF Open
    <2>2. local[v][Place] = 1 /\ Verdict(v, Place) = "local"
      BY <1>2, <1>6, <2>1 DEF Pushes, InConflict
    <2>3. Verdict(v, Place) = resolve(policy, v, theirs, ours)
      BY <1>1, <2>1, <2>2 DEF Verdict
    <2> QED
      BY <1>5, <2>2, <2>3
  <1>7. ASSUME Pulls(w, Place), local[w][Place] # 0 PROVE FALSE
    <2>1. local[w][Place] = 1 /\ remote[w][Place] = 1 /\ Verdict(w, Place) = "remote"
      BY <1>2, <1>7 DEF Pulls, InConflict
    <2>2. Verdict(w, Place) = resolve(policy, w, ours, theirs)
      BY <2>1 DEF Verdict
    <2> QED
      BY <1>5, <2>1, <2>2
  <1> QED
    BY <1>6, <1>7

\* Steps that leave the files and the changelogs alone.
LEMMA WinQuiet ==
    ASSUME NEW w \in Node, WinParts(w), UNCHANGED <<fs, log, latest, policy>>,
           \A k \in Node :
              /\ pc'[k] \in {"send", "write"} =>
                   /\ pc[k] \in {"send", "write"} \/ fs[k][Place] = latest[Place]
                   /\ pc'[k] = "write" => buf'[k] = latest[Place]
              /\ pending'[k][Place] \in {"none", pending[k][Place]},
           Open(w) =>
              /\ 1 \notin localDone'[w]
              /\ cur'[Peer(w)] = {} /\ pc'[Peer(w)] \notin {"send", "write"}
              /\ pc'[Peer(w)] # "idle" => remote'[Peer(w)][Place] = 1
    PROVE  WinParts(w)'
  <1>1. ASSUME NEW k \in Node PROVE Carries(k)'
    BY DEF WinParts, Carries
  <1>2. Open(w) => Open(w)'
    BY DEF Open
  <1> QED
    BY <1>1, <1>2 DEF WinParts

LEMMA WinReads ==
    ASSUME NEW w \in Node, WinInv, WinParts(w), NEW n \in Node,
           ExchangeChangelog(n) \/ ReadLocal(n)
    PROVE  WinParts(w)'
  <1>1. TypeOK /\ Peer(w) \in Node /\ Peer(Peer(w)) = w /\ Place \in Path
    BY PeerNode, ConflictAssumption DEF WinInv
  <1>2. /\ UNCHANGED <<fs, log, latest, policy, pending, cur, buf, localDone>>
        /\ pc'[n] \in {"fetched", "work"}
        /\ \A k \in Node : k # n => pc'[k] = pc[k] /\ remote'[k] = remote[k]
    BY <1>1 DEF ExchangeChangelog, ReadLocal, fsVars, TypeOK
  <1>3. ASSUME Open(w), n = Peer(w) PROVE remote'[n][Place] = 1
    <2>1. CASE ExchangeChangelog(n)
      <3>1. remote'[n][Place] = groupEntries(log[w], Place)
        BY <1>1, <1>3, <2>1 DEF ExchangeChangelog, TypeOK
      <3>2. log[w] \in Seq(Entry) /\ Len(log[w]) = 1 /\ DOMAIN log[w] = {1}
        BY <1>1, <1>3 DEF Open, TypeOK
      <3>3. UnsyncedFor(log[w], Place) = {1}
        BY <1>3, <3>2 DEF Open, UnsyncedFor, Unsynced
      <3>4. log[w][1].hlc \in Nat
        <4>1. log[w][1] \in Entry
          BY <3>2
        <4> QED
          BY <4>1 DEF Entry
      <3>5. NewestFor(log[w], Place) = {1}
        BY <3>3, <3>4 DEF NewestFor
      <3> QED
        BY <3>1, <3>5 DEF groupEntries
    <2>2. CASE ReadLocal(n)
      BY <1>3, <2>2 DEF ReadLocal, Open
    <2> QED
      BY <2>1, <2>2
  <1> QED
    BY <1>1, <1>2, <1>3, WinQuiet DEF Open, WinParts, Carries

LEMMA WinProcess ==
    ASSUME NEW w \in Node, WinInv, WinParts(w), NEW n \in Node, Process(n)
    PROVE  WinParts(w)'
  <1>1. /\ TypeOK /\ NamesWinner /\ \A k \in Node : Plain(k)
        /\ Peer(w) \in Node /\ Peer(w) # w /\ Place \in Path
    BY PeerNode, ConflictAssumption DEF WinInv
  <1>2. PICK p \in Path :
          \/ SkipBlocked(n, p)
          \/ SkipUnknown(n, p)
          \/ NoTransfer(n, p)
          \/ BlockForManual(n, p)
          \/ EvacuateLoser(n, p)
          \/ RequestDelete(n, p)
          \/ StartSend(n, p)
    BY DEF Process
  <1>3. p = Place /\ pc[n] = "work"
    BY <1>2 DEF SkipBlocked, SkipUnknown, NoTransfer, BlockForManual, EvacuateLoser,
                RequestDelete, StartSend, Proceeds, Takes, WinInv, OnlyPlace, AtPlace
  <1>4. ~EvacuateLoser(n, p)
    BY <1>1 DEF EvacuateLoser, Evacuates, NamesWinner
  <1>5. ~RequestDelete(n, p)
    BY <1>1, PlainTypes DEF RequestDelete
  <1>6. CASE SkipBlocked(n, p) \/ SkipUnknown(n, p) \/ BlockForManual(n, p)
    <2>1. UNCHANGED <<fs, log, latest, policy, pending, cur, buf, localDone, pc, remote>>
      BY <1>6 DEF SkipBlocked, SkipUnknown, BlockForManual, NotDone, fsVars
    <2> QED
      BY <2>1, WinQuiet DEF Open, WinParts, Carries
  <1>7. CASE NoTransfer(n, p)
    <2>1. UNCHANGED <<fs, log, latest, policy, pending, cur, buf, pc, remote>>
      BY <1>7 DEF NoTransfer, fsVars
    <2>2. ASSUME Open(w) PROVE 1 \notin localDone'[w]
      <3>1. CASE n # w
        BY <1>7, <2>2, <3>1 DEF NoTransfer, Done, Open, TypeOK, WinInv
      <3>2. CASE n = w
        <4>1. Pulls(w, Place)
          BY <1>1, <1>3, <1>7, <3>2, PlainTypes DEF NoTransfer, Plain
        <4>2. local[w][Place] = 0
          BY <1>1, <2>2, <4>1, OpenVerdict
        <4>3. localDone'[w] = localDone[w] \cup ({0} \ {0})
          BY <1>1, <1>3, <1>7, <3>2, <4>2 DEF NoTransfer, Done, TypeOK
        <4> QED
          BY <2>2, <4>3 DEF Open
      <3> QED
        BY <3>1, <3>2
    <2> QED
      BY <2>1, <2>2, WinQuiet DEF Open, WinParts, Carries
  <1>8. CASE StartSend(n, p)
    <2>1. /\ UNCHANGED <<fs, log, latest, policy, pending, buf, localDone, remote>>
          /\ pc'[n] = "send" /\ Pushes(n, Place)
          /\ \A k \in Node : k # n => pc'[k] = pc[k] /\ cur'[k] = cur[k]
      BY <1>1, <1>3, <1>8 DEF StartSend, NotDone, fsVars, TypeOK
    <2>2. n = Peer(w) => ~Open(w)
      BY <1>1, <1>3, <2>1, OpenVerdict
    <2>3. fs[n][Place] = latest[Place]
      BY <2>2, NodePeers DEF WinParts
    <2> QED
      BY <1>1, <2>1, <2>2, <2>3, WinQuiet DEF Open, WinParts, Carries
  <1> QED
    BY <1>2, <1>4, <1>5, <1>6, <1>7, <1>8

\* Every transfer carries the winner.
LEMMA WinTransfer ==
    ASSUME NEW w \in Node, WinInv, WinParts(w), NEW n \in Node,
           Transfer(n) \/ Serve(n)
    PROVE  WinParts(w)'
  <1>1. /\ TypeOK /\ \A k \in Node : Plain(k) /\ Carries(k)
        /\ Peer(w) \in Node /\ Peer(w) # w /\ Place \in Path
    BY PeerNode, ConflictAssumption DEF WinInv, WinParts
  <1>2. PICK p \in Path :
          \/ PushEvacuated(n, p)
          \/ DeleteReply(n, p)
          \/ SendRead(n, p)
          \/ SendWrite(n, p)
          \/ SendGivesUp(n, p)
          \/ DeleteRejected(n, p)
          \/ DeleteAccepted(n, p)
    BY DEF Transfer, Serve
  <1>3. SendRead(n, p) \/ SendWrite(n, p) \/ SendGivesUp(n, p)
    BY <1>1, <1>2 DEF Plain, NoDeletes, PushEvacuated, DeleteReply, DeleteRejected,
                      DeleteAccepted
  <1>4. p = Place /\ p \in cur[n]
    BY <1>3 DEF SendRead, SendWrite, SendGivesUp, Ends, WinInv, OnlyPlace, AtPlace
  <1>5. CASE SendRead(n, p)
    <2>1. /\ UNCHANGED <<fs, log, latest, policy, pending, cur, localDone, remote>>
          /\ pc[n] = "send" /\ pc'[n] = "write" /\ buf'[n] = fs[n][Place]
          /\ \A k \in Node : k # n => pc'[k] = pc[k] /\ buf'[k] = buf[k]
      BY <1>1, <1>4, <1>5 DEF SendRead, fsVars, TypeOK
    <2>2. fs[n][Place] = latest[Place] /\ (n = Peer(w) => ~Open(w))
      BY <1>1, <2>1 DEF Carries, Open
    <2> QED
      BY <1>1, <2>1, <2>2, WinQuiet DEF Open, WinParts, Carries
  <1>6. CASE SendGivesUp(n, p)
    BY <1>1, <1>4, <1>6 DEF SendGivesUp, Plain
  <1>7. CASE SendWrite(n, p)
    <2>1. /\ UNCHANGED latest /\ pc[n] = "write" /\ pc'[n] = "work"
          /\ \A k \in Node : k # n => pc'[k] = pc[k] /\ buf'[k] = buf[k]
          /\ fs' = [fs EXCEPT ![Peer(n)][Place] = buf[n]]
      BY <1>1, <1>4, <1>7 DEF SendWrite, Ends, TypeOK
    <2>2. buf[n] = latest[Place] /\ fs[n][Place] = latest[Place]
      BY <1>1, <2>1 DEF Carries
    <2>3. \A k \in Node : fs'[k][Place] = latest[Place]
      <3>1. Peer(n) \in Node /\ \A k \in Node : k = n \/ k = Peer(n)
        BY PeerNode, NodePeers
      <3>2. \A k \in Node : fs'[k][Place] = fs[k][Place] \/ fs'[k][Place] = buf[n]
        BY <1>1, <2>1, <3>1 DEF TypeOK
      <3>3. fs'[Peer(n)][Place] = buf[n]
        BY <1>1, <2>1, <3>1 DEF TypeOK
      <3> QED
        BY <2>2, <3>1, <3>2, <3>3
    <2> QED
      BY <1>1, <2>1, <2>3 DEF WinParts, Carries
  <1> QED
    BY <1>3, <1>5, <1>6, <1>7

LEMMA WinFailure ==
    ASSUME NEW w \in Node, WinInv, WinParts(w), NEW n \in Node, Failure(n)
    PROVE  WinParts(w)'
  <1>1. /\ TypeOK /\ \A k \in Node : Plain(k) /\ Carries(k)
        /\ Peer(w) \in Node /\ Peer(w) # w /\ Place \in Path
    BY PeerNode, ConflictAssumption DEF WinInv, WinParts
  <1>2. ASSUME NEW p \in Path, OpFails(n, p) PROVE WinParts(w)'
    <2>1. /\ UNCHANGED <<fs, log, latest, policy, pending, localDone, remote>>
          /\ p \in cur[n] /\ pc'[n] = "work" /\ cur'[n] = {}
          /\ \A k \in Node :
               k # n => pc'[k] = pc[k] /\ buf'[k] = buf[k] /\ cur'[k] = cur[k]
      BY <1>1, <1>2 DEF OpFails, Ends, fsVars, TypeOK
    <2>2. Open(w) => n # Peer(w)
      BY <2>1 DEF Open
    <2> QED
      BY <1>1, <2>1, <2>2, WinQuiet DEF Open, WinParts, Carries
  <1>3. ASSUME NEW p \in Path, EvacuateFails(n, p) PROVE FALSE
    BY <1>3 DEF EvacuateFails, Evacuates, WinInv, NamesWinner
  <1>4. CASE SendRetry(n)
    <2>1. /\ UNCHANGED <<fs, log, latest, policy, pending, localDone, remote, cur>>
          /\ pc[n] = "write" /\ pc'[n] = "send"
          /\ \A k \in Node : k # n => pc'[k] = pc[k] /\ buf'[k] = buf[k]
      BY <1>1, <1>4 DEF SendRetry, fsVars, TypeOK
    <2>2. Open(w) => n # Peer(w)
      BY <2>1 DEF Open
    <2> QED
      BY <1>1, <2>1, <2>2, WinQuiet DEF Open, WinParts, Carries
  <1>5. CASE Crash(n)
    <2>1. /\ UNCHANGED <<fs, log, latest, policy>> /\ pc'[n] = "idle"
          /\ \A k \in Node :
               /\ k # n => pc'[k] = pc[k] /\ buf'[k] = buf[k] /\ remote'[k] = remote[k]
               /\ localDone'[k] \subseteq localDone[k] /\ cur'[k] \subseteq cur[k]
      BY <1>1, <1>5 DEF Crash, CycleEnds, Plain, NoDeletes, TypeOK
    <2>2. \A k \in Node : pending'[k][Place] \in {"none", pending[k][Place]}
      BY <1>1, <1>5 DEF Crash, TypeOK
    <2> QED
      BY <1>1, <2>1, <2>2, WinQuiet DEF Open, WinParts, Carries
  <1> QED
    BY <1>2, <1>3, <1>4, <1>5 DEF Failure

LEMMA WinMarks ==
    ASSUME NEW w \in Node, WinInv, WinParts(w), NEW n \in Node,
           MarkLocal(n) \/ AckRemote(n)
    PROVE  WinParts(w)'
  <1>1. /\ TypeOK /\ Peer(w) \in Node /\ Place \in Path
    BY PeerNode, ConflictAssumption DEF WinInv
  <1>2. /\ UNCHANGED <<fs, pending, cur, buf, policy, latest>>
        /\ pc[n] \in {"work", "ack"} /\ pc'[n] \in {"idle", "ack"}
    BY <1>1, MarksKeep
  <1>3. ASSUME NEW k \in Node
        PROVE  /\ k # n => pc'[k] = pc[k]
               /\ pc'[k] # "idle" => remote'[k] = remote[k]
               /\ localDone'[k] \subseteq localDone[k]
               /\ Len(log'[k]) = Len(log[k]) /\ DOMAIN log[k] = 1..Len(log[k])
               /\ \A i \in 1..Len(log[k]) : log'[k][i].hlc = log[k][i].hlc
    BY <1>1, MarksKeep
  <1>4. UnsyncedFor(log[w], Place) \ localDone[w] \subseteq UnsyncedFor(log'[w], Place)
    BY <1>1, MarksKeep
  <1>5. \A k \in Node : Carries(k)'
    BY <1>2, <1>3 DEF WinParts, Carries
  <1>6. ASSUME Open(w) PROVE Open(w)'
    <2>1. \A k \in Node : Len(log[k]) = 1 /\ log'[k][1].hlc = log[k][1].hlc
      BY <1>3, <1>6 DEF Open
    <2>2. pc'[Peer(w)] # "idle" => pc[Peer(w)] # "idle"
      BY <1>1, <1>2, <1>3
    <2>3. pc'[Peer(w)] \notin {"send", "write"}
      BY <1>1, <1>2, <1>3, <1>6 DEF Open
    <2> QED
      BY <1>1, <1>2, <1>3, <1>4, <1>6, <2>1, <2>2, <2>3 DEF Open
  <1> QED
    BY <1>2, <1>5, <1>6 DEF WinParts

LEMMA WinStep == WinInv /\ [Next]_vars => WinInv'
  <1> SUFFICES ASSUME WinInv, [Next]_vars PROVE WinInv'
    OBVIOUS
  <1>1. TypeOK' /\ OnlyPlace' /\ NamesWinner'
    BY TypeStep, PlaceStep, PolicyKept DEF WinInv, NamesWinner
  <1>2. \A n \in Node : Plain(n)'
    <2>1. ~\E n \in Node, p \in Path : EvacuateLoser(n, p)
      BY DEF WinInv, NamesWinner, EvacuateLoser, Evacuates
    <2> QED
      BY <2>1, PlainStep DEF WinInv
  <1>3. PICK w \in Node : WinParts(w)
    BY DEF WinInv
  <1>4. ASSUME NEW n \in Node, User(n) PROVE FALSE
    BY <1>4 DEF WinInv, OnlyPlace, User, UserWrite, UserRemove, UserChange, UserMayAct,
                TypeOK
  <1>5. ASSUME NEW n \in Node, NEW p \in Path, RemoveAll(n, p) PROVE FALSE
    BY <1>5 DEF RemoveAll, WinInv, Plain, NoDeletes
  <1>6. ASSUME NEW n \in Node, NEW p \in Path, Flush(n, p) PROVE WinParts(w)'
    <2>1. pending[n][p] # "none" /\ UNCHANGED <<fs, latest, pc, buf>>
      BY <1>6 DEF Flush, cycleVars
    <2>2. ~Open(w)
      BY <2>1 DEF WinInv, OnlyPlace, AtPlace, Open
    <2> QED
      BY <1>3, <2>1, <2>2 DEF WinParts, Carries
  <1>7. ASSUME UNCHANGED vars PROVE WinParts(w)'
    <2>1. UNCHANGED <<fs, log, latest, policy, pending, pc, buf, cur, localDone, remote>>
      BY <1>7 DEF vars
    <2> QED
      BY <1>3, <2>1, WinQuiet DEF Open, WinParts, Carries
  <1>8. ASSUME NEW n \in Node, Cycle(n) \/ Serve(n) \/ Failure(n) PROVE WinParts(w)'
    BY <1>3, <1>8, WinReads, WinProcess, WinTransfer, WinMarks, WinFailure DEF Cycle
  <1>9. WinParts(w)'
    BY <1>4, <1>5, <1>6, <1>7, <1>8 DEF Next
  <1> QED
    BY <1>1, <1>2, <1>9 DEF WinInv

LEMMA WinInit ==
    ASSUME ConflictInit, Content2 # Absent, NamesWinner
    PROVE  WinInv
  <1>1. /\ TypeOK /\ OnlyPlace /\ \A n \in Node : Plain(n)
        /\ \A n \in Node : Len(log[n]) = 1 /\ ~log[n][1].synced
    BY ConflictFound DEF ManualInv, NamesWinner
  <1>2. PICK h1 \in 1..2, h2 \in 1..2, f \in [Path -> Content \cup {Absent}] :
          /\ h1 # h2
          /\ fs = <<[f EXCEPT ![Place] = Content1], [f EXCEPT ![Place] = Content2]>>
          /\ log = <<Logged("modify", h1), Logged("modify", h2)>>
          /\ latest = [f EXCEPT ![Place] = Expected(h1, h2)]
    BY DEF ConflictInit
  <1>3. Place \in Path /\ 1 \in Node /\ 2 \in Node /\ Peer(1) = 2 /\ Peer(2) = 1
    BY ConflictAssumption DEF Node, Peer
  <1>4. /\ fs[1][Place] = Content1 /\ fs[2][Place] = Content2
        /\ latest[Place] = Expected(h1, h2)
        /\ log[1][1].hlc = h1 /\ log[2][1].hlc = h2
    BY <1>2, <1>3 DEF Logged
  <1>5. \A n \in Node : 1 \in UnsyncedFor(log[n], Place)
    <2>1. \A n \in Node : 1 \in DOMAIN log[n]
      BY <1>1 DEF TypeOK
    <2> QED
      BY <1>1, <2>1 DEF OnlyPlace, AtPlace, UnsyncedFor, Unsynced
  <1>6. \A n \in Node : pc[n] = "idle" /\ cur[n] = {} /\ localDone[n] = {}
    <2>1. /\ pc = [n \in Node |-> "idle"] /\ cur = [n \in Node |-> {}]
          /\ localDone = [n \in Node |-> {}]
      BY DEF ConflictInit
    <2> QED
      BY <2>1
  <1>7. \A n \in Node : Carries(n) /\ pending[n][Place] = "none"
    <2>1. pending = [n \in Node |-> [x \in Path |-> "none"]]
      BY DEF ConflictInit
    <2> QED
      BY <1>3, <1>6, <2>1 DEF Carries
  <1>8. CASE policy = "alpha_wins" \/ h1 > h2
    <2>1. fs[1][Place] = latest[Place]
      BY <1>4, <1>8 DEF Expected
    <2>2. Open(1)
      BY <1>1, <1>3, <1>4, <1>5, <1>6, <1>7, <1>8 DEF Open
    <2> QED
      BY <1>1, <1>3, <1>7, <2>1, <2>2 DEF WinInv, WinParts
  <1>9. CASE ~(policy = "alpha_wins" \/ h1 > h2)
    <2>1. fs[2][Place] = latest[Place] /\ h2 > h1
      BY <1>2, <1>4, <1>9 DEF Expected
    <2>2. Open(2)
      BY <1>1, <1>3, <1>4, <1>5, <1>6, <1>7, <1>9, <2>1 DEF Open
    <2> QED
      BY <1>1, <1>3, <1>7, <2>1, <2>2 DEF WinInv, WinParts
  <1> QED
    BY <1>8, <1>9

\* Under lww and alpha_wins, two changes of one path that both changelogs show leave
\* the policy's winner on both nodes, however the cycles of the two nodes interleave
\* and whatever fails, is repeated, comes back as an event or crashes on the way
\* (reconciler.go:133-175, conflict.go:44-102).
THEOREM WinnerPrevailsHolds ==
    ConflictSpec => [](Content2 # Absent => WinnerPrevails)
  <1> DEFINE Inv == Content2 # Absent /\ NamesWinner => WinInv
  <1>1. ConflictInit => Inv
    BY WinInit
  <1>2. Inv /\ [Next]_vars => Inv'
    BY WinStep, PolicyKept DEF NamesWinner
  <1>3. Inv => (Content2 # Absent => WinnerPrevails)
    <2> SUFFICES ASSUME WinInv, Quiescent PROVE WinnerEverywhere
      BY DEF WinnerPrevails
    <2>1. PICK w \in Node : WinParts(w)
      BY DEF WinInv
    <2>2. ~Open(w)
      BY DEF Open, Quiescent, UnsyncedFor
    <2> QED
      BY <2>1, <2>2, NodePeers DEF WinParts, WinnerEverywhere
  <1> QED
    BY <1>1, <1>2, <1>3, PTL DEF ConflictSpec

\* From a conflict on, too, a blocked path keeps its entry and two cycles that look at
\* the same two entries do not both push (reconciler.go:99-107, conflict.go:89-102).
THEOREM ConflictIsSafe == ConflictSpec => [](BlockedKeepsEntry /\ OneWinner)
  <1>1. ConflictInit => ManualInv
    BY ConflictFound
  <1>2. ManualInv => BlockedKeepsEntry /\ OneWinner
    BY OneWinnerState DEF ManualInv, NodeInv, KeepsEntry, BlockedKeepsEntry
  <1> QED
    BY <1>1, <1>2, ManualStep, PTL DEF ConflictSpec
================================================================================
