---------------------------- MODULE ChangelogProofs ----------------------------
(******************************************************************************)
(* Proofs about the changelog for any paths, writers, retention periods and   *)
(* number of entries.                                                         *)
(*                                                                            *)
(* NoChangeForgotten is not inductive alone: that a pruned row was read and   *)
(* marked by both cycles follows from its flags only if a flag is never set   *)
(* on another row than the one that was read (IdsNameTheReadRow), and that    *)
(* needs ids to stay below the AUTOINCREMENT counter (TypeOK).                *)
(******************************************************************************)
EXTENDS Changelog, TLAPS

\* A set flag was set for this very change.
FlagsJustified ==
    \A i \in DOMAIN log :
        /\ log[i].synced => log[i].hlc \in marked
        /\ log[i].ack => log[i].hlc \in acked

Inv == TypeOK /\ IdsNameTheReadRow /\ FlagsJustified /\ NoChangeForgotten

\* groupEntries returns a row of the table, or 0.
LEMMA GroupedRow ==
    ASSUME NEW lg, NEW p
    PROVE  groupEntries(lg, p) = 0 \/ groupEntries(lg, p) \in UnsyncedFor(lg, p)
  BY DEF groupEntries, NewestFor

LEMMA GroupedInLog == Grouped \subseteq DOMAIN log
  BY GroupedRow DEF Grouped, UnsyncedFor, Unsynced

\* Setting a flag leaves the rows the rows they were.
LEMMA MarkSyncedRows ==
    ASSUME NEW lg, \A i \in DOMAIN lg : lg[i] \in Row, NEW ids
    PROVE  /\ DOMAIN MarkSynced(lg, ids) = DOMAIN lg
           /\ \A i \in DOMAIN lg :
                /\ MarkSynced(lg, ids)[i] \in Row
                /\ SameChange(MarkSynced(lg, ids)[i], lg[i])
                /\ MarkSynced(lg, ids)[i].ack = lg[i].ack
                /\ MarkSynced(lg, ids)[i].synced = (lg[i].synced \/ i \in ids)
  BY DEF MarkSynced, Row, SameChange

LEMMA MarkPeerAckRows ==
    ASSUME NEW lg, \A i \in DOMAIN lg : lg[i] \in Row, NEW ids
    PROVE  /\ DOMAIN MarkPeerAck(lg, ids) = DOMAIN lg
           /\ \A i \in DOMAIN lg :
                /\ MarkPeerAck(lg, ids)[i] \in Row
                /\ SameChange(MarkPeerAck(lg, ids)[i], lg[i])
                /\ MarkPeerAck(lg, ids)[i].synced = lg[i].synced
                /\ MarkPeerAck(lg, ids)[i].ack = (lg[i].ack \/ i \in ids)
  BY DEF MarkPeerAck, Row, SameChange

LEMMA InvInit == Init => Inv
  BY DEF Init, Inv, TypeOK, IdsNameTheReadRow, FlagsJustified,
         NoChangeForgotten, Only, None

--------------------------------------------------------------------------------
LEMMA StampInv ==
    ASSUME Inv, NEW w \in Writer, NEW p \in Path, NEW t \in EventType,
           Stamp(w, p, t)
    PROVE  Inv'
  BY DEF Inv, Stamp, TypeOK, IdsNameTheReadRow, FlagsJustified,
         NoChangeForgotten, Live, SameChange, history, Draft

LEMMA InsertInv ==
    ASSUME Inv, NEW w \in Writer, Insert(w)
    PROVE  Inv'
  <1>1. PICK d \in held[w] :
          LET row == [path |-> d.path, type |-> d.type, hlc |-> d.hlc,
                      synced |-> FALSE, ack |-> FALSE, created |-> today]
          IN  /\ log' = [i \in DOMAIN log \cup {NextID} |->
                           IF i = NextID THEN row ELSE log[i]]
              /\ seq' = IF NextID > seq THEN NextID ELSE seq
              /\ held' = [held EXCEPT ![w] = None]
              /\ recorded' = recorded \cup {row}
              /\ UNCHANGED <<clock, today, ownRead, peerRead, maint, marked,
                             acked>>
    BY DEF Insert
  <1> DEFINE row == [path |-> d.path, type |-> d.type, hlc |-> d.hlc,
                     synced |-> FALSE, ack |-> FALSE, created |-> today]
  <1>2. row \in Row /\ seq \in Nat
    BY DEF Inv, TypeOK, Draft, Row
  <1>3. /\ NextID = seq + 1 /\ seq' = seq + 1
        /\ NextID \notin DOMAIN log
        /\ NextID \notin DOMAIN ownRead /\ NextID \notin DOMAIN peerRead
    BY <1>1, <1>2 DEF NextID, Inv, TypeOK
  <1>4. /\ DOMAIN log' = DOMAIN log \cup {NextID}
        /\ log'[NextID] = row
        /\ \A i \in DOMAIN log : log'[i] = log[i]
    BY <1>1, <1>3
  <1>5. /\ ~row.synced /\ ~row.ack
        /\ held' = [held EXCEPT ![w] = {}]
        /\ recorded' = recorded \cup {row}
        /\ UNCHANGED <<clock, today, ownRead, peerRead, maint, marked, acked>>
    BY <1>1 DEF None
  <1> HIDE DEF row
  <1>6. TypeOK'
    <2>1. held' \in [Writer -> SUBSET Draft]
      BY <1>5 DEF Inv, TypeOK
    <2>2. DOMAIN log' \subseteq 1..seq'
      BY <1>2, <1>3, <1>4 DEF Inv, TypeOK
    <2>3. \A i \in DOMAIN log' : log'[i] \in Row
      BY <1>2, <1>4 DEF Inv, TypeOK
    <2>4. DOMAIN ownRead' \subseteq 1..seq' /\ DOMAIN peerRead' \subseteq 1..seq'
      BY <1>2, <1>3, <1>5 DEF Inv, TypeOK
    <2> QED
      BY <1>2, <1>3, <1>5, <2>1, <2>2, <2>3, <2>4 DEF Inv, TypeOK
  <1>7. IdsNameTheReadRow'
    BY <1>3, <1>4, <1>5 DEF Inv, IdsNameTheReadRow, SameChange
  <1>8. FlagsJustified'
    BY <1>4, <1>5 DEF Inv, FlagsJustified
  <1>9. NoChangeForgotten'
    BY <1>4, <1>5 DEF Inv, NoChangeForgotten, Live, SameChange
  <1> QED
    BY <1>6, <1>7, <1>8, <1>9 DEF Inv

LEMMA InsertFailsInv ==
    ASSUME Inv, NEW w \in Writer, InsertFails(w)
    PROVE  Inv'
  BY DEF Inv, InsertFails, TypeOK, IdsNameTheReadRow, FlagsJustified,
         NoChangeForgotten, Live, SameChange, history, None

LEMMA ReadOwnInv ==
    ASSUME Inv, ReadOwn
    PROVE  Inv'
  <1>1. /\ DOMAIN ownRead' = Grouped
        /\ \A i \in Grouped : ownRead'[i] = log[i]
        /\ Grouped \subseteq DOMAIN log
    BY GroupedInLog DEF ReadOwn, Only
  <1> QED
    BY <1>1 DEF Inv, ReadOwn, TypeOK, IdsNameTheReadRow, FlagsJustified,
                NoChangeForgotten, Live, SameChange, history

LEMMA ExchangeInv ==
    ASSUME Inv, Exchange
    PROVE  Inv'
  <1>1. /\ DOMAIN peerRead' = Grouped
        /\ \A i \in Grouped : peerRead'[i] = log[i]
        /\ Grouped \subseteq DOMAIN log
    BY GroupedInLog DEF Exchange, Only
  <1> QED
    BY <1>1 DEF Inv, Exchange, TypeOK, IdsNameTheReadRow, FlagsJustified,
                NoChangeForgotten, Live, SameChange, history

LEMMA MarkOwnInv ==
    ASSUME Inv, MarkOwn
    PROVE  Inv'
  <1>1. PICK ids \in SUBSET DOMAIN ownRead :
          /\ log' = MarkSynced(log, ids)
          /\ marked' = marked \cup {ownRead[i].hlc : i \in ids}
          /\ ownRead' = Only(log, {})
          /\ UNCHANGED <<seq, clock, today, held, peerRead, maint, recorded,
                         acked>>
    BY DEF MarkOwn
  <1>2. \A i \in DOMAIN log : log[i] \in Row
    BY DEF Inv, TypeOK
  <1>3. /\ DOMAIN log' = DOMAIN log
        /\ \A i \in DOMAIN log :
             /\ log'[i] \in Row
             /\ SameChange(log'[i], log[i])
             /\ log'[i].ack = log[i].ack
             /\ log'[i].synced = (log[i].synced \/ i \in ids)
    BY <1>1, <1>2, MarkSyncedRows
  <1>4. DOMAIN ownRead' = {}
    BY <1>1 DEF Only
  <1>5. {ownRead[i].hlc : i \in ids} \subseteq Nat
    BY <1>1 DEF Inv, TypeOK, Row
  <1>6. TypeOK'
    BY <1>1, <1>3, <1>4, <1>5 DEF Inv, TypeOK
  <1>7. IdsNameTheReadRow'
    BY <1>1, <1>3, <1>4 DEF Inv, IdsNameTheReadRow, SameChange
  <1>8. FlagsJustified'
    <2> SUFFICES ASSUME NEW i \in DOMAIN log
                 PROVE  /\ log'[i].synced => log'[i].hlc \in marked'
                        /\ log'[i].ack => log'[i].hlc \in acked'
      BY <1>3 DEF FlagsJustified
    <2>1. log'[i].hlc = log[i].hlc
      BY <1>3 DEF SameChange
    <2>2. i \in ids => log[i].hlc \in marked'
      BY <1>1 DEF Inv, IdsNameTheReadRow, SameChange
    <2>3. log[i].synced => log[i].hlc \in marked'
      BY <1>1 DEF Inv, FlagsJustified
    <2>4. log[i].ack => log[i].hlc \in acked'
      BY <1>1 DEF Inv, FlagsJustified
    <2> QED
      BY <1>3, <2>1, <2>2, <2>3, <2>4
  <1>9. NoChangeForgotten'
    BY <1>1, <1>3 DEF Inv, NoChangeForgotten, Live, SameChange
  <1> QED
    BY <1>6, <1>7, <1>8, <1>9 DEF Inv

LEMMA AckTransferInv ==
    ASSUME Inv, AckTransfer
    PROVE  Inv'
  <1>1. PICK ids \in SUBSET DOMAIN peerRead :
          /\ log' = MarkPeerAck(log, ids)
          /\ acked' = acked \cup {peerRead[i].hlc : i \in ids}
          /\ peerRead' = Only(log, {})
          /\ UNCHANGED <<seq, clock, today, held, ownRead, maint, recorded,
                         marked>>
    BY DEF AckTransfer
  <1>2. \A i \in DOMAIN log : log[i] \in Row
    BY DEF Inv, TypeOK
  <1>3. /\ DOMAIN log' = DOMAIN log
        /\ \A i \in DOMAIN log :
             /\ log'[i] \in Row
             /\ SameChange(log'[i], log[i])
             /\ log'[i].synced = log[i].synced
             /\ log'[i].ack = (log[i].ack \/ i \in ids)
    BY <1>1, <1>2, MarkPeerAckRows
  <1>4. DOMAIN peerRead' = {}
    BY <1>1 DEF Only
  <1>5. {peerRead[i].hlc : i \in ids} \subseteq Nat
    BY <1>1 DEF Inv, TypeOK, Row
  <1>6. TypeOK'
    BY <1>1, <1>3, <1>4, <1>5 DEF Inv, TypeOK
  <1>7. IdsNameTheReadRow'
    BY <1>1, <1>3, <1>4 DEF Inv, IdsNameTheReadRow, SameChange
  <1>8. FlagsJustified'
    <2> SUFFICES ASSUME NEW i \in DOMAIN log
                 PROVE  /\ log'[i].synced => log'[i].hlc \in marked'
                        /\ log'[i].ack => log'[i].hlc \in acked'
      BY <1>3 DEF FlagsJustified
    <2>1. log'[i].hlc = log[i].hlc
      BY <1>3 DEF SameChange
    <2>2. i \in ids => log[i].hlc \in acked'
      BY <1>1 DEF Inv, IdsNameTheReadRow, SameChange
    <2>3. log[i].ack => log[i].hlc \in acked'
      BY <1>1 DEF Inv, FlagsJustified
    <2>4. log[i].synced => log[i].hlc \in marked'
      BY <1>1 DEF Inv, FlagsJustified
    <2> QED
      BY <1>3, <2>1, <2>2, <2>3, <2>4
  <1>9. NoChangeForgotten'
    BY <1>1, <1>3 DEF Inv, NoChangeForgotten, Live, SameChange
  <1> QED
    BY <1>6, <1>7, <1>8, <1>9 DEF Inv

--------------------------------------------------------------------------------
\* Dropping rows keeps the invariant if every dropped row is a tombstone, or has
\* been marked and acknowledged.
LEMMA PruneInv ==
    ASSUME Inv, NEW keep \in SUBSET DOMAIN log,
           log' = Only(log, keep),
           \A i \in DOMAIN log \ keep :
              log[i].type = "delete" \/ (log[i].synced /\ log[i].ack),
           maint' \in {"synced", "tombstones"},
           UNCHANGED <<seq, clock, today, held, ownRead, peerRead, history>>
    PROVE  Inv'
  <1>1. DOMAIN log' = keep /\ \A i \in keep : log'[i] = log[i]
    BY DEF Only
  <1>2. TypeOK'
    BY <1>1 DEF Inv, TypeOK, history
  <1>3. IdsNameTheReadRow'
    BY <1>1 DEF Inv, IdsNameTheReadRow, SameChange
  <1>4. FlagsJustified'
    BY <1>1 DEF Inv, FlagsJustified, history
  <1>5. NoChangeForgotten'
    <2> SUFFICES ASSUME NEW r \in recorded, r.type # "delete",
                        ~(r.hlc \in marked /\ r.hlc \in acked)
                 PROVE  Live(r)'
      BY DEF NoChangeForgotten, history
    <2>1. PICK i \in DOMAIN log : SameChange(log[i], r)
      BY DEF Inv, NoChangeForgotten, Live
    <2>2. i \in keep
      BY <2>1 DEF Inv, FlagsJustified, SameChange
    <2> QED
      BY <1>1, <2>1, <2>2 DEF Live
  <1> QED
    BY <1>2, <1>3, <1>4, <1>5 DEF Inv

LEMMA InvStep == Inv /\ [Next]_vars => Inv'
  <1> SUFFICES ASSUME Inv, [Next]_vars PROVE Inv'
    OBVIOUS
  <1>1. ASSUME NEW w \in Writer, NEW p \in Path, NEW t \in EventType,
               Stamp(w, p, t)
        PROVE  Inv'
    BY <1>1, StampInv
  <1>2. ASSUME NEW w \in Writer, Insert(w) PROVE Inv'
    BY <1>2, InsertInv
  <1>3. ASSUME NEW w \in Writer, InsertFails(w) PROVE Inv'
    BY <1>3, InsertFailsInv
  <1>4. CASE ReadOwn
    BY <1>4, ReadOwnInv
  <1>5. CASE MarkOwn
    BY <1>5, MarkOwnInv
  <1>6. CASE Exchange
    BY <1>6, ExchangeInv
  <1>7. CASE AckTransfer
    BY <1>7, AckTransferInv
  <1>8. CASE deleteOldSynced
    <2> DEFINE keep == {i \in DOMAIN log : ~OldSynced(log[i])}
    <2>1. \A i \in DOMAIN log \ keep : log[i].synced /\ log[i].ack
      BY DEF OldSynced
    <2> QED
      BY <1>8, <2>1, PruneInv DEF deleteOldSynced
  <1>9. CASE deleteStaleTombstones
    <2> DEFINE keep == {i \in DOMAIN log : ~StaleTombstone(log[i])}
    <2>1. \A i \in DOMAIN log \ keep : log[i].type = "delete"
      BY DEF StaleTombstone
    <2> QED
      BY <1>9, <2>1, PruneInv DEF deleteStaleTombstones
  <1>10. CASE NextDay
    BY <1>10 DEF NextDay, Inv, TypeOK, IdsNameTheReadRow, FlagsJustified,
                 NoChangeForgotten, Live, SameChange, history
  <1>11. CASE UNCHANGED vars
    BY <1>11 DEF vars, Inv, TypeOK, IdsNameTheReadRow, FlagsJustified,
                 NoChangeForgotten, Live, SameChange
  <1>12. CASE DeleteFails
    BY <1>12 DEF DeleteFails, Inv, TypeOK, IdsNameTheReadRow, FlagsJustified,
                 NoChangeForgotten, Live, SameChange, history
  <1> QED
    BY <1>1, <1>2, <1>3, <1>4, <1>5, <1>6, <1>7, <1>8, <1>9, <1>10, <1>11, <1>12
       DEF Next, Maintain

LEMMA InvAlways == Spec => []Inv
  BY InvInit, InvStep, PTL DEF Spec

\* The table, its counter and the rows the cycles hold keep their types; in
\* particular no id exceeds the AUTOINCREMENT counter.
THEOREM TypeCorrect == Spec => []TypeOK
  BY InvAlways, PTL DEF Inv

\* MarkSynced and AckTransfer hit the rows that were read, for any number of
\* appends and prunings between the reading and the marking.
THEOREM IdsNameTheReadRowHolds == Spec => []IdsNameTheReadRow
  BY InvAlways, PTL DEF Inv

\* No create or modify leaves the changelog before both nodes' cycles have dealt
\* with it.
THEOREM NoChangeForgottenHolds == Spec => []NoChangeForgotten
  BY InvAlways, PTL DEF Inv
================================================================================
