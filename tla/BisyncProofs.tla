------------------------------ MODULE BisyncProofs -----------------------------
(******************************************************************************)
(* Proofs about the two daemons for any paths, contents, configuration,       *)
(* policy, users, failures and bounds: types, with and without restarts, and  *)
(* the resolver's verdicts.                                                   *)
(******************************************************************************)
EXTENDS BisyncRestart, TLAPS

LEMMA PeerNode ==
    ASSUME NEW n \in Node
    PROVE  Peer(n) \in Node /\ Peer(Peer(n)) = n /\ Peer(n) # n
  BY DEF Node, Peer

LEMMA NodePeers ==
    ASSUME NEW n \in Node, NEW m \in Node
    PROVE  m = n \/ m = Peer(n)
  BY DEF Node, Peer

\* Writing one cell of a two-level map keeps its type.
LEMMA CellUpdate ==
    ASSUME NEW S, NEW T, NEW D, NEW f \in [S -> [T -> D]],
           NEW a \in S, NEW b \in T, NEW v \in D
    PROVE  [f EXCEPT ![a][b] = v] \in [S -> [T -> D]]
  OBVIOUS

\* groupEntries returns the id of an unsynced entry of the path, or 0.
LEMMA GroupedEntry ==
    ASSUME NEW lg, NEW p
    PROVE  groupEntries(lg, p) = 0 \/ groupEntries(lg, p) \in UnsyncedFor(lg, p)
  BY DEF groupEntries, NewestFor

LEMMA GroupedId ==
    ASSUME NEW lg \in Seq(Entry), NEW p
    PROVE  groupEntries(lg, p) \in 0..Len(lg)
  BY GroupedEntry DEF UnsyncedFor, Unsynced

\* MarkSynced and MarkPeerAck change one column of a changelog.
LEMMA MarkSyncedLog ==
    ASSUME NEW lg \in Seq(Entry), NEW ids
    PROVE  /\ MarkSynced(lg, ids) \in Seq(Entry)
           /\ Len(MarkSynced(lg, ids)) = Len(lg)
           /\ \A i \in 1..Len(lg) :
                /\ MarkSynced(lg, ids)[i].path = lg[i].path
                /\ MarkSynced(lg, ids)[i].type = lg[i].type
                /\ MarkSynced(lg, ids)[i].hlc = lg[i].hlc
                /\ MarkSynced(lg, ids)[i].synced = (lg[i].synced \/ i \in ids)
  <1> DEFINE new == MarkSynced(lg, ids)
  <1>1. DOMAIN lg = 1..Len(lg) /\ Len(lg) \in Nat
    OBVIOUS
  <1>2. new = [i \in 1..Len(lg) |->
                 IF i \in ids THEN [lg[i] EXCEPT !.synced = TRUE] ELSE lg[i]]
    BY <1>1 DEF MarkSynced
  <1>3. ASSUME NEW i \in 1..Len(lg)
        PROVE  /\ new[i] \in Entry
               /\ new[i].path = lg[i].path
               /\ new[i].type = lg[i].type
               /\ new[i].hlc = lg[i].hlc
               /\ new[i].synced = (lg[i].synced \/ i \in ids)
    <2>1. lg[i] \in Entry
      OBVIOUS
    <2> HIDE DEF new
    <2>2. CASE i \in ids
      <3>1. new[i] = [lg[i] EXCEPT !.synced = TRUE]
        BY <1>2, <2>2
      <3> QED
        BY <2>1, <2>2, <3>1 DEF Entry
    <2>3. CASE i \notin ids
      <3>1. new[i] = lg[i]
        BY <1>2, <2>3
      <3> QED
        BY <2>1, <2>3, <3>1 DEF Entry
    <2> QED
      BY <2>2, <2>3
  <1> HIDE DEF new
  <1>4. new \in [1..Len(lg) -> Entry]
    BY <1>2, <1>3
  <1>5. new \in Seq(Entry) /\ Len(new) = Len(lg)
    BY <1>1, <1>4
  <1> QED
    BY <1>3, <1>5 DEF new

LEMMA MarkPeerAckLog ==
    ASSUME NEW lg \in Seq(Entry), NEW ids
    PROVE  /\ MarkPeerAck(lg, ids) \in Seq(Entry)
           /\ Len(MarkPeerAck(lg, ids)) = Len(lg)
           /\ \A i \in 1..Len(lg) :
                /\ MarkPeerAck(lg, ids)[i].path = lg[i].path
                /\ MarkPeerAck(lg, ids)[i].type = lg[i].type
                /\ MarkPeerAck(lg, ids)[i].hlc = lg[i].hlc
                /\ MarkPeerAck(lg, ids)[i].synced = lg[i].synced
  <1> DEFINE new == MarkPeerAck(lg, ids)
  <1>1. DOMAIN lg = 1..Len(lg) /\ Len(lg) \in Nat
    OBVIOUS
  <1>2. new = [i \in 1..Len(lg) |->
                 IF i \in ids THEN [lg[i] EXCEPT !.ack = TRUE] ELSE lg[i]]
    BY <1>1 DEF MarkPeerAck
  <1>3. ASSUME NEW i \in 1..Len(lg)
        PROVE  /\ new[i] \in Entry
               /\ new[i].path = lg[i].path
               /\ new[i].type = lg[i].type
               /\ new[i].hlc = lg[i].hlc
               /\ new[i].synced = lg[i].synced
    <2>1. lg[i] \in Entry
      OBVIOUS
    <2> HIDE DEF new
    <2>2. CASE i \in ids
      <3>1. new[i] = [lg[i] EXCEPT !.ack = TRUE]
        BY <1>2, <2>2
      <3> QED
        BY <2>1, <2>2, <3>1 DEF Entry
    <2>3. CASE i \notin ids
      <3>1. new[i] = lg[i]
        BY <1>2, <2>3
      <3> QED
        BY <2>1, <2>3, <3>1 DEF Entry
    <2> QED
      BY <2>2, <2>3
  <1> HIDE DEF new
  <1>4. new \in [1..Len(lg) -> Entry]
    BY <1>2, <1>3
  <1>5. new \in Seq(Entry) /\ Len(new) = Len(lg)
    BY <1>1, <1>4
  <1> QED
    BY <1>3, <1>5 DEF new

--------------------------------------------------------------------------------
(* Type correctness                                                           *)

LEMMA TypeInit == Init => TypeOK
  <1> SUFFICES ASSUME Init PROVE TypeOK
    OBVIOUS
  <1>1. \A n \in Node : Len(log[n]) = 0 /\ Len(log[Peer(n)]) = 0
    BY PeerNode DEF Init
  <1>2. policy \in Policies
    BY PolicyAssumption DEF Init
  <1> QED
    BY <1>1, <1>2 DEF Init, TypeOK, NoEntries, Event, Phase

LEMMA TypeUser ==
    ASSUME TypeOK, NEW n \in Node, User(n)
    PROVE  TypeOK'
  <1>1. PICK p \in Path, c \in Content \cup {Absent}, event \in EventType :
          UserChange(n, p, c, event)
    BY DEF User, UserWrite, UserRemove, EventType
  <1> QED
    BY <1>1 DEF UserChange, UserMayAct, TypeOK, cycleVars, Event

\* A row is appended to the changelog of n.
LEMMA TypeAppend ==
    ASSUME TypeOK, NEW n \in Node, NEW e \in Entry,
           log' = [log EXCEPT ![n] = Append(log[n], e)],
           clock' \in [Node -> Nat],
           pending' \in [Node -> [Path -> Event]],
           UNCHANGED <<fs, pc, remote, local, todo, cur, buf, localDone, remoteDone,
                       blocked, deleting, saved, latest, policy, ops, faults,
                       crashes>>
    PROVE  TypeOK'
  <1>1. log[n] \in Seq(Entry)
    BY DEF TypeOK
  <1>2. Append(log[n], e) \in Seq(Entry) /\ Len(Append(log[n], e)) = Len(log[n]) + 1
    BY <1>1
  <1>3. log' \in [Node -> Seq(Entry)]
    BY <1>2 DEF TypeOK
  <1>4. \A m \in Node : Len(log'[m]) \in Nat /\ Len(log'[m]) >= Len(log[m])
    BY <1>1, <1>2 DEF TypeOK
  <1>5. \A m \in Node, x \in Path :
          /\ local'[m][x] \in 0..Len(log'[m])
          /\ remote'[m][x] \in 0..Len(log'[Peer(m)])
    <2> SUFFICES ASSUME NEW m \in Node, NEW x \in Path
                 PROVE  /\ local[m][x] \in 0..Len(log'[m])
                        /\ remote[m][x] \in 0..Len(log'[Peer(m)])
      OBVIOUS
    <2>1. /\ local[m][x] \in 0..Len(log[m])
          /\ remote[m][x] \in 0..Len(log[Peer(m)])
      BY DEF TypeOK
    <2>2. Peer(m) \in Node
      BY PeerNode
    <2>3. /\ Len(log'[m]) \in Nat /\ Len(log'[m]) >= Len(log[m])
          /\ Len(log'[Peer(m)]) \in Nat
          /\ Len(log'[Peer(m)]) >= Len(log[Peer(m)])
      BY <1>4, <2>2
    <2>4. Len(log[m]) \in Nat /\ Len(log[Peer(m)]) \in Nat
      BY <2>2 DEF TypeOK
    <2> QED
      BY <2>1, <2>3, <2>4
  <1> QED
    BY <1>3, <1>5 DEF TypeOK

LEMMA TypeFlush ==
    ASSUME TypeOK, NEW n \in Node, NEW p \in Path, Flush(n, p)
    PROVE  TypeOK'
  <1>1. PICK t \in Stamps(n) :
          /\ log' = [log EXCEPT ![n] = Append(@,
                       [path |-> p, type |-> pending[n][p], hlc |-> t,
                        synced |-> FALSE, ack |-> FALSE])]
          /\ clock' = [clock EXCEPT ![n] = t]
    BY DEF Flush
  <1>2. t \in Nat
    BY DEF Stamps, TypeOK, Node
  <1>3. pending[n][p] \in EventType
    BY DEF Flush, TypeOK, Event
  <1> DEFINE e == [path |-> p, type |-> pending[n][p], hlc |-> t,
                   synced |-> FALSE, ack |-> FALSE]
  <1>4. e \in Entry
    BY <1>2, <1>3 DEF Entry
  <1>5. log' = [log EXCEPT ![n] = Append(log[n], e)]
    BY <1>1 DEF TypeOK
  <1> HIDE DEF e
  <1>6. /\ pending' \in [Node -> [Path -> Event]]
        /\ clock' \in [Node -> Nat]
    BY <1>1, <1>2 DEF Flush, TypeOK, Event
  <1>7. UNCHANGED <<fs, pc, remote, local, todo, cur, buf, localDone, remoteDone,
                    blocked, deleting, saved, latest, policy, ops, faults,
                    crashes>>
    BY DEF Flush, cycleVars, bounds
  <1> QED
    BY <1>4, <1>5, <1>6, <1>7, TypeAppend

LEMMA TypeExchange ==
    ASSUME TypeOK, NEW n \in Node, ExchangeChangelog(n)
    PROVE  TypeOK'
  <1>1. \A p \in Path : groupEntries(log[Peer(n)], p) \in 0..Len(log[Peer(n)])
    BY GroupedId, PeerNode DEF TypeOK
  <1>2. Len(log[Peer(n)]) \in Nat
    BY PeerNode DEF TypeOK
  <1> QED
    BY <1>1, <1>2
       DEF ExchangeChangelog, TypeOK, fsVars, bounds, Phase

LEMMA TypeReadLocal ==
    ASSUME TypeOK, NEW n \in Node, ReadLocal(n)
    PROVE  TypeOK'
  <1>1. \A p \in Path : groupEntries(log[n], p) \in 0..Len(log[n])
    BY GroupedId DEF TypeOK
  <1>2. Len(log[n]) \in Nat
    BY DEF TypeOK
  <1> QED
    BY <1>1, <1>2
       DEF ReadLocal, TypeOK, fsVars, bounds, Phase

\* The ids Done collects are not 0.
LEMMA TypeDone ==
    ASSUME TypeOK, NEW n \in Node, NEW p \in Path, Done(n, p)
    PROVE  /\ localDone' \in [Node -> SUBSET (Nat \ {0})]
           /\ remoteDone' \in [Node -> SUBSET (Nat \ {0})]
  <1>1. local[n][p] \in Nat /\ remote[n][p] \in Nat
    BY DEF TypeOK
  <1> QED
    BY <1>1 DEF TypeOK, Done

LEMMA TypeProcess ==
    ASSUME TypeOK, NEW n \in Node, Process(n)
    PROVE  TypeOK'
  <1> PICK p \in Path :
        \/ SkipBlocked(n, p)
        \/ SkipUnknown(n, p)
        \/ NoTransfer(n, p)
        \/ BlockForManual(n, p)
        \/ EvacuateLoser(n, p)
        \/ RequestDelete(n, p)
        \/ StartSend(n, p)
    BY DEF Process
  <1> USE DEF fsVars, bounds, Takes, Proceeds, NotDone, TypeOK
  <1>1. CASE SkipBlocked(n, p)
    BY <1>1 DEF SkipBlocked
  <1>2. CASE SkipUnknown(n, p)
    BY <1>2 DEF SkipUnknown
  <1>3. CASE NoTransfer(n, p)
    BY <1>3, TypeDone DEF NoTransfer
  <1>4. CASE BlockForManual(n, p)
    BY <1>4 DEF BlockForManual
  <1>5. CASE EvacuateLoser(n, p)
    <2>1. fs' \in [Node -> [Path -> Content \cup {Absent}]]
      BY <1>5 DEF EvacuateLoser, Vacates
    <2>2. pending' \in [Node -> [Path -> Event]]
      <3>1. pending' = [pending EXCEPT ![n][p] = IF fs[n][p] = Absent
                                                   THEN pending[n][p] ELSE "delete"]
        BY <1>5 DEF EvacuateLoser, Vacates
      <3>2. "delete" \in Event
        BY DEF Event, EventType
      <3> QED
        BY <3>1, <3>2, CellUpdate
    <2>3. saved' \in [Node -> [Path -> SUBSET Content]]
      <3>1. PICK kept \in {saved[n][p], {}} :
              saved' = [saved EXCEPT ![n][p] = IF fs[n][p] = Absent
                                                 THEN saved[n][p]
                                                 ELSE kept \cup {fs[n][p]}]
        BY <1>5 DEF EvacuateLoser
      <3>2. fs[n][p] # Absent => fs[n][p] \in Content
        OBVIOUS
      <3>3. (IF fs[n][p] = Absent THEN saved[n][p] ELSE kept \cup {fs[n][p]})
              \in SUBSET Content
        BY <3>2
      <3> QED
        BY <3>1, <3>3, CellUpdate
    <2>4. /\ todo' \in [Node -> SUBSET Path]
          /\ cur' \in [Node -> SUBSET Path]
          /\ pc' \in [Node -> Phase]
      BY <1>5 DEF EvacuateLoser, Phase
    <2>5. UNCHANGED <<log, clock, remote, local, buf, blocked, deleting, localDone,
                      remoteDone, latest, policy, ops, faults, crashes>>
      BY <1>5 DEF EvacuateLoser
    <2> QED
      BY <2>1, <2>2, <2>3, <2>4, <2>5
  <1>6. CASE RequestDelete(n, p)
    BY <1>6 DEF RequestDelete, Phase
  <1>7. CASE StartSend(n, p)
    BY <1>7 DEF StartSend, Phase
  <1> QED
    BY <1>1, <1>2, <1>3, <1>4, <1>5, <1>6, <1>7

LEMMA TypeTransfer ==
    ASSUME TypeOK, NEW n \in Node, Transfer(n)
    PROVE  TypeOK'
  <1> PICK p \in Path :
        \/ PushEvacuated(n, p)
        \/ DeleteReply(n, p)
        \/ SendRead(n, p)
        \/ SendWrite(n, p)
        \/ SendGivesUp(n, p)
    BY DEF Transfer
  <1> USE PeerNode DEF fsVars, bounds, Ends, TypeOK, Phase
  <1>1. CASE DeleteReply(n, p)
    BY <1>1, TypeDone DEF DeleteReply
  <1>2. CASE SendRead(n, p)
    BY <1>2 DEF SendRead
  <1>3. CASE SendWrite(n, p)
    <2>1. /\ fs' \in [Node -> [Path -> Content \cup {Absent}]]
          /\ pending' \in [Node -> [Path -> Event]]
          /\ faults' \in Nat
      <3>1. Peer(n) \in Node /\ buf[n] \in Content \cup {Absent}
        OBVIOUS
      <3>2. fs' \in [Node -> [Path -> Content \cup {Absent}]]
        <4>1. fs' = [fs EXCEPT ![Peer(n)][p] = buf[n]]
          BY <1>3 DEF SendWrite
        <4>2. fs \in [Node -> [Path -> Content \cup {Absent}]]
          OBVIOUS
        <4> HIDE DEF Ends, TypeOK
        <4> QED
          BY <3>1, <4>1, <4>2, CellUpdate
      <3>3. "modify" \in Event
        BY DEF Event, EventType
      <3>4. pending' \in [Node -> [Path -> Event]]
        <4>1. CASE UNCHANGED pending
          BY <4>1
        <4>2. CASE pending' = [pending EXCEPT ![Peer(n)][p] = "modify"]
          BY <3>1, <3>3, <4>2, CellUpdate
        <4> QED
          BY <1>3, <4>1, <4>2 DEF SendWrite
      <3>5. faults' \in Nat
        BY <1>3 DEF SendWrite
      <3> QED
        BY <3>2, <3>4, <3>5
    <2>2. /\ localDone' \in [Node -> SUBSET (Nat \ {0})]
          /\ remoteDone' \in [Node -> SUBSET (Nat \ {0})]
      BY <1>3, TypeDone DEF SendWrite
    <2>3. /\ pc' \in [Node -> Phase]
          /\ cur' \in [Node -> SUBSET Path]
          /\ buf' \in [Node -> Content \cup {Absent}]
      BY <1>3 DEF SendWrite
    <2>4. UNCHANGED <<log, clock, remote, local, todo, blocked, deleting, saved,
                      latest, policy, ops, crashes>>
      BY <1>3 DEF SendWrite
    <2> QED
      BY <2>1, <2>2, <2>3, <2>4
  <1>4. CASE SendGivesUp(n, p)
    BY <1>4 DEF SendGivesUp
  <1>5. CASE PushEvacuated(n, p)
    BY <1>5, TypeDone DEF PushEvacuated, NotDone
  <1> QED
    BY <1>1, <1>2, <1>3, <1>4, <1>5

LEMMA TypeServe ==
    ASSUME TypeOK, NEW n \in Node, Serve(n)
    PROVE  TypeOK'
  <1> PICK p \in Path : DeleteRejected(n, p) \/ DeleteAccepted(n, p)
    BY DEF Serve
  <1> USE PeerNode DEF fsVars, bounds, Ends, TypeOK, Phase
  <1>1. CASE DeleteRejected(n, p)
    BY <1>1 DEF DeleteRejected
  <1>2. CASE DeleteAccepted(n, p)
    BY <1>2 DEF DeleteAccepted
  <1> QED
    BY <1>1, <1>2

LEMMA TypeRemoveAll ==
    ASSUME TypeOK, NEW m \in Node, NEW p \in Path, RemoveAll(m, p)
    PROVE  TypeOK'
  BY DEF RemoveAll, TypeOK, cycleVars, bounds, Event, EventType

\* The cycle's variables after CycleEnds.
LEMMA TypeCycleEnds ==
    ASSUME TypeOK, NEW n \in Node, CycleEnds(n)
    PROVE  /\ local' \in [Node -> [Path -> Nat]]
           /\ remote' \in [Node -> [Path -> Nat]]
           /\ \A m \in Node, p \in Path :
                /\ local'[m][p] \in 0..Len(log[m])
                /\ remote'[m][p] \in 0..Len(log[Peer(m)])
           /\ localDone' \in [Node -> SUBSET (Nat \ {0})]
           /\ remoteDone' \in [Node -> SUBSET (Nat \ {0})]
  <1>1. \A m \in Node : Len(log[m]) \in Nat
    BY DEF TypeOK
  <1> QED
    BY <1>1, PeerNode DEF TypeOK, CycleEnds, NoEntries

\* A step that updates columns of the changelogs keeps their types.
LEMMA TypeLog ==
    ASSUME TypeOK, NEW n \in Node, NEW ids,
           \/ log' = log
           \/ log' = [log EXCEPT ![n] = MarkSynced(@, ids)]
           \/ log' = [log EXCEPT ![n] = MarkPeerAck(@, ids)]
    PROVE  /\ log' \in [Node -> Seq(Entry)]
           /\ \A m \in Node : Len(log'[m]) = Len(log[m])
  <1>1. log \in [Node -> Seq(Entry)]
    BY DEF TypeOK
  <1>2. /\ MarkSynced(log[n], ids) \in Seq(Entry)
        /\ Len(MarkSynced(log[n], ids)) = Len(log[n])
        /\ MarkPeerAck(log[n], ids) \in Seq(Entry)
        /\ Len(MarkPeerAck(log[n], ids)) = Len(log[n])
    BY <1>1, MarkSyncedLog, MarkPeerAckLog
  <1> QED
    BY <1>1, <1>2

LEMMA TypeMarkLocal ==
    ASSUME TypeOK, NEW n \in Node, MarkLocal(n)
    PROVE  TypeOK'
  <1>1. /\ log' \in [Node -> Seq(Entry)]
        /\ \A m \in Node : Len(log'[m]) = Len(log[m])
    BY TypeLog DEF MarkLocal
  <1>2. faults' \in Nat
    BY DEF MarkLocal, Fault, TypeOK
  <1>3. /\ local' \in [Node -> [Path -> Nat]]
        /\ remote' \in [Node -> [Path -> Nat]]
        /\ \A m \in Node, p \in Path :
             /\ local'[m][p] \in 0..Len(log[m])
             /\ remote'[m][p] \in 0..Len(log[Peer(m)])
        /\ localDone' \in [Node -> SUBSET (Nat \ {0})]
        /\ remoteDone' \in [Node -> SUBSET (Nat \ {0})]
    <2>1. CASE CycleEnds(n)
      BY <2>1, TypeCycleEnds
    <2>2. CASE UNCHANGED <<remote, local, localDone, remoteDone>>
      BY <2>2 DEF TypeOK
    <2> QED
      BY <2>1, <2>2 DEF MarkLocal
  <1>4. pc' \in [Node -> Phase]
    BY ZenonT(30) DEF MarkLocal, TypeOK, Phase
  <1> QED
    BY <1>1, <1>2, <1>3, <1>4, PeerNode DEF MarkLocal, TypeOK, fsVars

LEMMA TypeAckRemote ==
    ASSUME TypeOK, NEW n \in Node, AckRemote(n)
    PROVE  TypeOK'
  <1>1. /\ log' \in [Node -> Seq(Entry)]
        /\ \A m \in Node : Len(log'[m]) = Len(log[m])
    BY TypeLog, PeerNode DEF AckRemote
  <1>2. faults' \in Nat
    BY DEF AckRemote, Fault, TypeOK
  <1>3. CycleEnds(n)
    BY DEF AckRemote
  <1>4. pc' \in [Node -> Phase]
    BY DEF AckRemote, TypeOK, Phase
  <1> QED
    BY <1>1, <1>2, <1>3, <1>4, TypeCycleEnds, PeerNode
       DEF AckRemote, TypeOK, fsVars

LEMMA TypeFailure ==
    ASSUME TypeOK, NEW n \in Node, Failure(n)
    PROVE  TypeOK'
  <1> USE DEF fsVars, Ends, Phase, Fault
  <1>1. ASSUME NEW p \in Path, OpFails(n, p) PROVE TypeOK'
    <2>1. deleting' \in [Node -> SUBSET Path]
      <3>1. Peer(n) \in Node /\ deleting \in [Node -> SUBSET Path]
        BY PeerNode DEF TypeOK
      <3>2. \/ deleting' = deleting
            \/ deleting' = [deleting EXCEPT ![Peer(n)] = @ \ {p}]
        BY <1>1 DEF OpFails
      <3> QED
        BY <3>1, <3>2
    <2>2. /\ pc' \in [Node -> Phase]
          /\ cur' \in [Node -> SUBSET Path]
          /\ buf' \in [Node -> Content \cup {Absent}]
          /\ faults' \in Nat
      BY <1>1 DEF OpFails, TypeOK
    <2>3. UNCHANGED <<fs, pending, saved, log, clock, remote, local, todo, localDone,
                      remoteDone, blocked, latest, policy, ops, crashes>>
      BY <1>1 DEF OpFails
    <2> QED
      BY <2>1, <2>2, <2>3 DEF TypeOK
  <1>2. CASE SendRetry(n)
    BY <1>2 DEF SendRetry, TypeOK
  <1>3. CASE Crash(n)
    <2>1. /\ pc' \in [Node -> Phase]
          /\ cur' \in [Node -> SUBSET Path]
          /\ pending' \in [Node -> [Path -> Event]]
      BY <1>3 DEF Crash, TypeOK, Event
    <2>2. /\ local' \in [Node -> [Path -> Nat]]
          /\ remote' \in [Node -> [Path -> Nat]]
          /\ \A m \in Node, p \in Path :
               /\ local'[m][p] \in 0..Len(log[m])
               /\ remote'[m][p] \in 0..Len(log[Peer(m)])
          /\ localDone' \in [Node -> SUBSET (Nat \ {0})]
          /\ remoteDone' \in [Node -> SUBSET (Nat \ {0})]
      BY <1>3, TypeCycleEnds DEF Crash
    <2>3. /\ todo' \in [Node -> SUBSET Path]
          /\ blocked' \in [Node -> SUBSET Path]
          /\ deleting' \in [Node -> SUBSET Path]
          /\ buf' \in [Node -> Content \cup {Absent}]
          /\ crashes' \in Nat
      BY <1>3 DEF Crash, TypeOK
    <2>4. UNCHANGED <<fs, log, clock, saved, latest, policy, ops, faults>>
      BY <1>3 DEF Crash
    <2> HIDE DEF Phase, Fault, Ends
    <2> QED
      BY <2>1, <2>2, <2>3, <2>4 DEF TypeOK
  <1>4. ASSUME NEW p \in Path, EvacuateFails(n, p) PROVE TypeOK'
    BY <1>4 DEF EvacuateFails, Proceeds, Takes, NotDone, TypeOK
  <1> QED
    BY <1>1, <1>2, <1>3, <1>4 DEF Failure

LEMMA TypeStep == TypeOK /\ [Next]_vars => TypeOK'
  <1> SUFFICES ASSUME TypeOK, [Next]_vars PROVE TypeOK'
    OBVIOUS
  <1>1. ASSUME NEW n \in Node, User(n) PROVE TypeOK'
    BY <1>1, TypeUser
  <1>2. ASSUME NEW n \in Node, NEW p \in Path, Flush(n, p) PROVE TypeOK'
    BY <1>2, TypeFlush
  <1>3. ASSUME NEW n \in Node, Cycle(n) PROVE TypeOK'
    BY <1>3, TypeExchange, TypeReadLocal, TypeProcess, TypeTransfer,
       TypeMarkLocal, TypeAckRemote DEF Cycle
  <1>4. ASSUME NEW n \in Node, Serve(n) PROVE TypeOK'
    BY <1>4, TypeServe
  <1>5. ASSUME NEW n \in Node, NEW p \in Path, RemoveAll(n, p) PROVE TypeOK'
    BY <1>5, TypeRemoveAll
  <1>6. ASSUME NEW n \in Node, Failure(n) PROVE TypeOK'
    BY <1>6, TypeFailure
  <1>7. CASE UNCHANGED vars
    BY <1>7 DEF vars, TypeOK
  <1> QED
    BY <1>1, <1>2, <1>3, <1>4, <1>5, <1>6, <1>7 DEF Next

\* Every reachable state of the two daemons is well typed; in particular the ids a
\* cycle holds always name entries of the changelog they were read from.
THEOREM TypeCorrect == Spec => []TypeOK
  BY TypeInit, TypeStep, PTL DEF Spec

--------------------------------------------------------------------------------
(* Type correctness with daemons that stop and start                          *)

RestartParts ==
    /\ proc \in [Node -> {"up", "stopping", "down"}]
    /\ mtime \in [Node -> [Path -> 0..ops]]
    /\ sent \in [Node -> 0..ops] /\ last \in [Node -> 0..ops]
    /\ scan \in [Node -> [Path -> {"no", "walk", "found"}]]
    /\ stops \in 0..MaxStops

\* A step that leaves the restarts alone keeps the times below the count of
\* operations.
LEMMA PartsKept ==
    ASSUME RestartTypeOK, UNCHANGED restartVars, ops' = ops
    PROVE  RestartParts'
  BY DEF RestartTypeOK, RestartParts, restartVars

\* An entry of the scan.
LEMMA TypeScanAppend ==
    ASSUME TypeOK, NEW n \in Node, NEW p \in Path, ScanAppend(n, p)
    PROVE  TypeOK'
  <1>1. PICK t \in Stamps(n) :
          /\ log' = [log EXCEPT ![n] = Append(@,
                       [path |-> p, type |-> "modify", hlc |-> t,
                        synced |-> FALSE, ack |-> FALSE])]
          /\ clock' = [clock EXCEPT ![n] = t]
    BY DEF ScanAppend
  <1> DEFINE e == [path |-> p, type |-> "modify", hlc |-> t,
                   synced |-> FALSE, ack |-> FALSE]
  <1>2. t \in Nat
    BY DEF Stamps, TypeOK, Node
  <1>3. e \in Entry
    BY <1>2 DEF Entry, EventType
  <1>5. log' = [log EXCEPT ![n] = Append(log[n], e)]
    BY <1>1 DEF TypeOK
  <1> HIDE DEF e
  <1>6. clock' \in [Node -> Nat]
    BY <1>1, <1>2 DEF TypeOK
  <1>7. UNCHANGED <<fs, pending, pc, remote, local, todo, cur, buf, localDone,
                    remoteDone, blocked, deleting, saved, latest, policy, ops,
                    faults, crashes>>
    BY DEF ScanAppend, fsVars, cycleVars, bounds
  <1>8. pending' \in [Node -> [Path -> Event]]
    BY <1>7 DEF TypeOK
  <1> QED
    BY <1>3, <1>5, <1>6, <1>7, <1>8, TypeAppend

\* A call finds nobody there.
LEMMA TypeNoAnswer ==
    ASSUME TypeOK, NEW n \in Node, NoAnswer(n)
    PROVE  TypeOK'
  <1> USE DEF fsVars, bounds
  <1>1. ASSUME NEW p \in Path, Ends(n, p),
               UNCHANGED <<remote, local, localDone, remoteDone>>
        PROVE  TypeOK'
    BY <1>1 DEF NoAnswer, Ends, TypeOK, Phase
  <1>2. CASE CycleEnds(n) /\ pc' = [pc EXCEPT ![n] = "idle"] /\ UNCHANGED <<cur, buf>>
    <2>1. pc' \in [Node -> Phase]
      BY <1>2 DEF TypeOK, Phase
    <2> QED
      BY <1>2, <2>1, TypeCycleEnds DEF NoAnswer, TypeOK
  <1> QED
    BY <1>1, <1>2 DEF NoAnswer

LEMMA TypeStop ==
    ASSUME TypeOK, NEW n \in Node, Stop(n)
    PROVE  TypeOK'
  <1>1. CycleEnds(n)
    BY DEF Stop
  <1>2. /\ pc' \in [Node -> Phase]
        /\ cur' \in [Node -> SUBSET Path]
        /\ todo' \in [Node -> SUBSET Path]
        /\ buf' \in [Node -> Content \cup {Absent}]
    BY DEF Stop, TypeOK, Phase
  <1>3. UNCHANGED <<fs, pending, saved, log, clock, blocked, deleting, latest,
                    policy, ops, faults, crashes>>
    BY DEF Stop, fsVars, bounds
  <1> QED
    BY <1>1, <1>2, <1>3, TypeCycleEnds DEF TypeOK

LEMMA TypeExit ==
    ASSUME TypeOK, NEW n \in Node, Exit(n)
    PROVE  TypeOK'
  <1>1. fs' \in [Node -> [Path -> Content \cup {Absent}]]
    <2>1. PICK removed \in SUBSET deleting[n] :
            fs' = [fs EXCEPT ![n] =
                     [p \in Path |-> IF p \in removed THEN Absent ELSE @[p]]]
      BY DEF Exit
    <2> QED
      BY <2>1 DEF TypeOK
  <1>2. /\ pc' \in [Node -> Phase]
        /\ cur' \in [Node -> SUBSET Path]
        /\ blocked' \in [Node -> SUBSET Path]
        /\ deleting' \in [Node -> SUBSET Path]
    BY PeerNode DEF Exit, TypeOK, Phase
  <1>3. UNCHANGED <<pending, saved, log, clock, remote, local, todo, buf, localDone,
                    remoteDone, latest, policy, ops, faults, crashes>>
    BY DEF Exit, bounds
  <1> QED
    BY <1>1, <1>2, <1>3 DEF TypeOK

LEMMA TypeWriteOffline ==
    ASSUME TypeOK, NEW n \in Node, NEW p \in Path, NEW c \in Content,
           WriteOffline(n, p, c)
    PROVE  TypeOK'
  BY DEF WriteOffline, UserMayAct, TypeOK, cycleVars

LEMMA RestartTypeInit == RestartInit => RestartTypeOK
  BY TypeInit, StopsAssumption DEF RestartInit, Init, RestartTypeOK

LEMMA RestartTypeStep ==
    RestartTypeOK /\ [RestartNext \/ \E n \in Node : Dies(n)]_allVars
      => RestartTypeOK'
  <1> SUFFICES ASSUME RestartTypeOK,
                      [RestartNext \/ \E n \in Node : Dies(n)]_allVars
               PROVE  TypeOK' /\ RestartParts'
    BY DEF RestartTypeOK, RestartParts
  <1> USE DEF RestartTypeOK
  <1>a. ops \in Nat
    BY DEF TypeOK
  <1>1. ASSUME NEW n \in Node, Exchange(n) PROVE TypeOK' /\ RestartParts'
    BY <1>1, TypeExchange, PartsKept DEF Exchange, ExchangeChangelog, bounds
  <1>2. ASSUME NEW n \in Node, Local(n) PROVE TypeOK' /\ RestartParts'
    <2>1. CASE ReadLocal(n)
      BY <1>2, <2>1, TypeReadLocal, PartsKept DEF Local, ReadLocal, bounds
    <2>2. CASE Process(n)
      <3>1. ops' = ops
        BY <2>2 DEF Process, SkipBlocked, SkipUnknown, NoTransfer, BlockForManual,
                    EvacuateLoser, RequestDelete, StartSend, bounds
      <3> QED
        BY <1>2, <2>2, <3>1, TypeProcess, PartsKept DEF Local
    <2>3. CASE MarkLocal(n)
      BY <1>2, <2>3, TypeMarkLocal, PartsKept DEF Local, MarkLocal
    <2>4. ASSUME NEW p \in Path,
                 PushEvacuated(n, p) \/ DeleteReply(n, p) \/ SendGivesUp(n, p)
          PROVE  TypeOK' /\ RestartParts'
      <3>1. Transfer(n)
        BY <2>4 DEF Transfer
      <3>2. ops' = ops
        BY <2>4 DEF PushEvacuated, DeleteReply, SendGivesUp, bounds
      <3> QED
        BY <1>2, <3>1, <3>2, TypeTransfer, PartsKept DEF Local
    <2> QED
      BY <1>2, <2>1, <2>2, <2>3, <2>4 DEF Local
  <1>3. ASSUME NEW n \in Node, Acknowledge(n) PROVE TypeOK' /\ RestartParts'
    BY <1>3, TypeAckRemote, PartsKept DEF Acknowledge, AckRemote
  <1>4. ASSUME NEW n \in Node, NoAnswer(n) PROVE TypeOK' /\ RestartParts'
    BY <1>4, TypeNoAnswer, PartsKept DEF NoAnswer, bounds
  <1>5. ASSUME NEW n \in Node, NEW p \in Path, Rsync(n, p)
        PROVE  TypeOK' /\ RestartParts'
    <2>1. Transfer(n) /\ ops' = ops
      BY <1>5 DEF Rsync, Transfer, SendRead, SendWrite, bounds
    <2>2. /\ sent' \in [Node -> 0..ops]
          /\ mtime' \in [Node -> [Path -> 0..ops]]
      <3>1. CASE sent' = [sent EXCEPT ![n] = mtime[n][p]] /\ UNCHANGED mtime
        BY <3>1
      <3>2. CASE mtime' = [mtime EXCEPT ![Peer(n)][p] = sent[n]] /\ UNCHANGED sent
        BY <3>2, PeerNode, CellUpdate
      <3> QED
        BY <1>5, <3>1, <3>2 DEF Rsync
    <2> QED
      BY <1>5, <2>1, <2>2, TypeTransfer DEF Rsync, RestartParts
  <1>6. ASSUME NEW n \in Node, Calls(n) PROVE TypeOK' /\ RestartParts'
    BY <1>6, TypeServe, PartsKept
       DEF Calls, Serve, DeleteRejected, DeleteAccepted, bounds
  <1>7. ASSUME NEW n \in Node, Fails(n) PROVE TypeOK' /\ RestartParts'
    BY <1>7, TypeFailure, PartsKept
       DEF Fails, Failure, SendRetry, OpFails, EvacuateFails
  <1>8. ASSUME NEW n \in Node, Stop(n) PROVE TypeOK' /\ RestartParts'
    <2>1. /\ proc' \in [Node -> {"up", "stopping", "down"}]
          /\ stops' \in 0..MaxStops
      BY <1>8, StopsAssumption DEF Stop
    <2> QED
      BY <1>8, <2>1, TypeStop DEF Stop, RestartParts, bounds
  <1>9. ASSUME NEW n \in Node, Exit(n) PROVE TypeOK' /\ RestartParts'
    <2>1. /\ proc' \in [Node -> {"up", "stopping", "down"}]
          /\ last' \in [Node -> 0..ops]
      BY <1>9, <1>a DEF Exit
    <2> QED
      BY <1>9, <2>1, TypeExit DEF Exit, RestartParts, bounds
  <1>10. ASSUME NEW n \in Node, Start(n) PROVE TypeOK' /\ RestartParts'
    <2>1. /\ proc' \in [Node -> {"up", "stopping", "down"}]
          /\ scan' \in [Node -> [Path -> {"no", "walk", "found"}]]
      BY <1>10 DEF Start
    <2> QED
      BY <1>10, <2>1, TypeStep DEF Start, RestartParts, vars
  <1>11. ASSUME NEW n \in Node, NEW p \in Path,
                UserOnline(n, p) \/ \E c \in Content : WriteOffline(n, p, c)
         PROVE  TypeOK' /\ RestartParts'
    <2>1. TypeOK'
      BY <1>11, TypeUser, TypeWriteOffline DEF UserOnline, User
    <2>2. /\ ops' = ops + 1
          /\ mtime' = [mtime EXCEPT ![n][p] = ops + 1]
          /\ UNCHANGED <<proc, sent, last, scan, stops>>
      BY <1>11 DEF UserOnline, WriteOffline, UserRemove, UserWrite, UserChange,
                   UserMayAct
    <2>3. mtime \in [Node -> [Path -> 0..(ops + 1)]]
      BY <1>a
    <2>4. mtime' \in [Node -> [Path -> 0..(ops + 1)]]
      BY <1>a, <2>2, <2>3, CellUpdate
    <2> QED
      BY <1>a, <2>1, <2>2, <2>4 DEF RestartParts
  <1>12. ASSUME NEW n \in Node, NEW p \in Path, Handler(n, p)
         PROVE  TypeOK' /\ RestartParts'
    BY <1>12, TypeRemoveAll, PartsKept DEF Handler, RemoveAll, bounds
  <1>13. ASSUME NEW n \in Node, NEW p \in Path, Flushes(n, p)
         PROVE  TypeOK' /\ RestartParts'
    BY <1>13, TypeFlush, PartsKept DEF Flushes, Flush, bounds
  <1>14. ASSUME NEW n \in Node, NEW p \in Path, Visit(n, p)
         PROVE  TypeOK' /\ RestartParts'
    <2>1. scan' \in [Node -> [Path -> {"no", "walk", "found"}]]
      BY <1>14 DEF Visit
    <2> QED
      BY <1>14, <2>1, TypeStep DEF Visit, RestartParts, vars
  <1>15. ASSUME NEW n \in Node, NEW p \in Path, ScanAppend(n, p)
         PROVE  TypeOK' /\ RestartParts'
    <2>1. scan' \in [Node -> [Path -> {"no", "walk", "found"}]]
      BY <1>15 DEF ScanAppend
    <2> QED
      BY <1>15, <2>1, TypeScanAppend DEF ScanAppend, RestartParts, bounds
  <1>16. ASSUME NEW n \in Node, Dies(n) PROVE TypeOK' /\ RestartParts'
    <2>1. /\ proc' \in [Node -> {"up", "stopping", "down"}]
          /\ scan' \in [Node -> [Path -> {"no", "walk", "found"}]]
          /\ ops' = ops
      BY <1>16 DEF Dies, Crash
    <2> QED
      BY <1>16, <2>1, TypeFailure DEF Dies, Failure, RestartParts
  <1>17. CASE UNCHANGED allVars
    BY <1>17, TypeStep, PartsKept DEF allVars, vars
  <1> QED
    BY <1>1, <1>2, <1>3, <1>4, <1>5, <1>6, <1>7, <1>8, <1>9, <1>10, <1>11, <1>12,
       <1>13, <1>14, <1>15, <1>16, <1>17 DEF RestartNext, CycleStep

\* Every reachable state is well typed although daemons stop, start and die at any
\* point; in particular no file and no recorded shutdown is later than now.
THEOREM RestartTypeCorrect ==
    /\ RestartSpec => []RestartTypeOK
    /\ CrashSpec => []RestartTypeOK
  <1>1. RestartTypeOK /\ [RestartNext]_allVars => RestartTypeOK'
    BY RestartTypeStep
  <1>2. RestartSpec => []RestartTypeOK
    BY <1>1, RestartTypeInit, PTL DEF RestartSpec
  <1>3. CrashSpec => []RestartTypeOK
    BY RestartTypeInit, RestartTypeStep, PTL DEF CrashSpec
  <1> QED
    BY <1>2, <1>3

--------------------------------------------------------------------------------
(* Conflict resolution                                                        *)

\* The two nodes never both keep their own side of one conflict, whatever the
\* policy, provided the stamps differ (resolve is called by both, each with its
\* own entry first; conflict.go:44-102).
LEMMA ResolveOpposed ==
    ASSUME NEW a, NEW b, a.hlc \in Nat, b.hlc \in Nat, a.hlc # b.hlc,
           ~(a.type = "delete" /\ b.type = "delete"),
           policy \in Policies, resolve(policy, 1, a, b) = "local"
    PROVE  resolve(policy, 2, b, a) # "local"
  <1>1. resolveAlphaWins(2) = "remote"
    BY DEF resolveAlphaWins, Peer
  <1>2. resolveLWW(a, b) = "local" => resolveLWW(b, a) = "remote"
    BY DEF resolveLWW
  <1> QED
    BY <1>1, <1>2 DEF resolve, Policies

LEMMA OneWinnerState == TypeOK => OneWinner
  <1> SUFFICES ASSUME TypeOK, NEW p \in Path, SameConflict(p),
                      log[1][local[1][p]].hlc # log[2][local[2][p]].hlc,
                      Pushes(1, p), Pushes(2, p)
               PROVE  FALSE
    BY DEF OneWinner
  <1>1. 1 \in Node /\ 2 \in Node /\ Peer(1) = 2 /\ Peer(2) = 1
    BY DEF Node, Peer
  <1> DEFINE a == log[1][local[1][p]]
             b == log[2][local[2][p]]
  <1>2. InConflict(1, p) /\ InConflict(2, p)
    BY <1>1 DEF SameConflict
  <1>3. /\ local[1][p] \in 1..Len(log[1]) /\ local[2][p] \in 1..Len(log[2])
        /\ log[1] \in Seq(Entry) /\ log[2] \in Seq(Entry)
    BY <1>1, <1>2 DEF InConflict, TypeOK
  <1>4. a \in Entry /\ b \in Entry
    BY <1>3
  <1>5. a.hlc \in Nat /\ b.hlc \in Nat
    BY <1>4 DEF Entry
  <1>6. ~(a.type = "delete" /\ b.type = "delete")
    BY <1>1, <1>2 DEF InConflict, LocalType, RemoteType, SameConflict
  <1>7. Verdict(1, p) = "local" /\ Verdict(2, p) = "local"
    BY <1>2 DEF Pushes, InConflict
  <1>8. resolve(policy, 1, a, b) = "local" /\ resolve(policy, 2, b, a) = "local"
    BY <1>1, <1>7 DEF Verdict, SameConflict
  <1> HIDE DEF a, b
  <1>9. a.hlc # b.hlc
    BY DEF a, b
  <1>10. policy \in Policies
    BY DEF TypeOK
  <1> QED
    BY <1>5, <1>6, <1>8, <1>9, <1>10, ResolveOpposed

\* Under every policy, with any number of paths, users and failures, two cycles
\* that look at the same two entries never both push (conflict.go:89-102).
THEOREM OneWinnerHolds == Spec => []OneWinner
  BY TypeCorrect, OneWinnerState, PTL
================================================================================
