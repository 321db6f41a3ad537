----------------------------- MODULE WatcherProofs -----------------------------
(******************************************************************************)
(* Proofs about the watcher and the reconcile loop for any paths, channel     *)
(* capacities, events and failures.                                           *)
(******************************************************************************)
EXTENDS Watcher, TLAPS

LEMMA TypeInit == Init => TypeOK
  <1> SUFFICES ASSUME Init PROVE TypeOK
    OBVIOUS
  <1>1. out \in Seq(Event) /\ logged \in Seq(Event) /\ seen \in 0..Len(logged)
    BY DEF Init
  <1>2. 0 \in 0..MaxEvents /\ 0 \in 0..MaxFaults /\ 0 \in 0..NotifyCap
    BY CapAssumption, LimitAssumption
  <1> QED
    BY <1>1, <1>2 DEF Init, TypeOK

LEMMA EventOf ==
    ASSUME NEW p \in Path, NEW e \in 1..MaxEvents
    PROVE  Of(p, e) \in Event
  BY DEF Of, Event

LEMMA TypePush ==
    ASSUME TypeOK, NEW p \in Path, Push(p)
    PROVE  TypeOK'
  <1>1. events + 1 \in 1..MaxEvents
    BY LimitAssumption DEF Push, TypeOK
  <1>2. Of(p, events + 1) \in Event
    BY <1>1, EventOf
  <1>3. /\ pending' \in [Path -> 0..MaxEvents]
        /\ mu' \in {"free", "push", "flush"}
        /\ parked' \subseteq Event
    <2>1. CASE Cardinality(Held) >= limit
      BY <1>2, <2>1 DEF Push, TypeOK
    <2>2. CASE ~(Cardinality(Held) >= limit)
      <3>1. events + 1 \in 0..MaxEvents
        BY <1>1
      <3>2. /\ pending' = [pending EXCEPT ![p] = events + 1]
            /\ mu' = mu /\ parked' = parked
        BY <2>2 DEF Push
      <3> QED
        BY <3>1, <3>2 DEF TypeOK
    <2> QED
      BY <2>1, <2>2
  <1>4. events' \in 0..MaxEvents /\ last' \in [Path -> 0..MaxEvents]
    BY <1>1 DEF Push, TypeOK
  <1> QED
    BY <1>3, <1>4 DEF Push, TypeOK, loopVars, shutVars

LEMMA TypeDebounce ==
    ASSUME TypeOK, Debounce
    PROVE  TypeOK'
  <1> USE DEF TypeOK, loopVars, shutVars, rest
  <1>1. CASE PushFlushed
    BY <1>1 DEF PushFlushed, Event
  <1>2. ASSUME NEW p \in Path, flushLocked(p) PROVE TypeOK'
    <2>1. Of(p, pending[p]) \in Event
      BY <1>2, EventOf, LimitAssumption DEF flushLocked
    <2>2. out' \in Seq(Event)
      BY <1>2, <2>1 DEF flushLocked
    <2> QED
      BY <1>2, <2>2, LimitAssumption DEF flushLocked
  <1>3. ASSUME NEW p \in Path, TimerFires(p) PROVE TypeOK'
    <2>1. Of(p, pending[p]) \in Event
      BY <1>3, EventOf, LimitAssumption DEF TimerFires
    <2>2. sending' \subseteq Event
      BY <1>3, <2>1 DEF TimerFires
    <2> QED
      BY <1>3, <2>2, LimitAssumption DEF TimerFires
  <1>4. ASSUME NEW s \in sending, TimerSends(s) PROVE TypeOK'
    <2>1. out' \in Seq(Event) /\ sending' \subseteq Event
      BY <1>4 DEF TimerSends
    <2> QED
      BY <1>4, <2>1 DEF TimerSends
  <1> QED
    BY <1>1, <1>2, <1>3, <1>4 DEF Debounce

\* Appending to the changelog keeps the index of what has been read.
LEMMA TypeAppend ==
    ASSUME TypeOK, NEW e \in Event,
           Appended(e) \/ AppendFails \/ AppendCancelled
    PROVE  /\ logged' \in Seq(Event) /\ seen \in 0..Len(logged')
           /\ lost' \in BOOLEAN /\ faults' \in 0..MaxFaults
           /\ Len(logged') >= Len(logged)
  <1>1. Append(logged, e) \in Seq(Event) /\ Len(Append(logged, e)) = Len(logged) + 1
    BY DEF TypeOK
  <1>2. CASE Appended(e)
    BY <1>1, <1>2 DEF Appended, TypeOK
  <1>3. CASE AppendFails
    BY <1>3, LimitAssumption DEF AppendFails, TypeOK
  <1>4. CASE AppendCancelled
    BY <1>4 DEF AppendCancelled, TypeOK
  <1> QED
    BY <1>2, <1>3, <1>4

LEMMA TypeConsume ==
    ASSUME TypeOK, Consume
    PROVE  TypeOK'
  <1> USE DEF debouncer, loopVars, shutVars, rest
  <1>1. CASE Receive
    <2>1. Head(out) \in Event /\ Tail(out) \in Seq(Event)
      BY <1>1 DEF Receive, TypeOK
    <2> QED
      BY <1>1, <2>1 DEF Receive, TypeOK
  <1>2. CASE writeToChangelog
    <2>1. PICK e \in got : Appended(e) \/ AppendFails \/ AppendCancelled
      BY <1>2 DEF writeToChangelog
    <2>2. e \in Event
      BY DEF TypeOK
    <2>3. /\ logged' \in Seq(Event) /\ seen \in 0..Len(logged')
          /\ lost' \in BOOLEAN /\ faults' \in 0..MaxFaults
      BY <2>1, <2>2, TypeAppend
    <2> QED
      BY <1>2, <2>3 DEF writeToChangelog, TypeOK
  <1>3. CASE Notify
    BY <1>3, CapAssumption DEF Notify, TypeOK
  <1>4. CASE ConsumerExits
    BY <1>4 DEF ConsumerExits, TypeOK
  <1> QED
    BY <1>1, <1>2, <1>3, <1>4 DEF Consume

LEMMA TypeReconcile ==
    ASSUME TypeOK, Reconcile
    PROVE  TypeOK'
  <1> USE DEF debouncer, shutVars, rest, TypeOK
  <1>1. CASE LoopWakes
    BY <1>1, CapAssumption DEF LoopWakes
  <1>2. CASE LoopDrains
    BY <1>2, CapAssumption DEF LoopDrains
  <1>3. CASE LoopRuns
    <2>1. Len(logged) \in Nat
      OBVIOUS
    <2>2. /\ seen' \in 0..Len(logged) /\ missed' \in BOOLEAN
          /\ faults' \in 0..MaxFaults
      <3>1. CASE seen' = Len(logged) /\ missed' = FALSE /\ UNCHANGED faults
        <4>1. seen' \in 0..Len(logged)
          BY <2>1, <3>1
        <4>2. missed' \in BOOLEAN
          BY <3>1
        <4>3. faults' \in 0..MaxFaults
          BY <3>1
        <4> QED
          BY <4>1, <4>2, <4>3
      <3>2. CASE faults < MaxFaults /\ faults' = faults + 1 /\ missed' = TRUE
                 /\ UNCHANGED seen
        <4>1. faults' \in 0..MaxFaults
          BY <3>2, LimitAssumption
        <4>2. seen' \in 0..Len(logged)
          BY <3>2
        <4> QED
          BY <3>2, <4>1, <4>2
      <3> QED
        BY <1>3, <3>1, <3>2 DEF LoopRuns
    <2>3. loop' \in {"wait", "busy"} /\ logged' = logged
      BY <1>3 DEF LoopRuns
    <2> QED
      BY <1>3, <2>2, <2>3 DEF LoopRuns
  <1>4. CASE LoopReturns
    BY <1>4 DEF LoopReturns
  <1>5. CASE LoopExits
    BY <1>5 DEF LoopExits
  <1> QED
    BY <1>1, <1>2, <1>3, <1>4, <1>5 DEF Reconcile

LEMMA TypeShutdown ==
    ASSUME TypeOK, Shutdown \/ Cancel
    PROVE  TypeOK'
  <1> USE DEF debouncer, loopVars, shutVars, rest
  <1>1. CASE PollExits
    BY <1>1 DEF PollExits, TypeOK
  <1>2. CASE FlushAll
    <2>1. \A p \in Held : Of(p, pending[p]) \in Event
      BY EventOf, LimitAssumption DEF Held, TypeOK
    <2>2. ToSet(out) \subseteq Event
      BY DEF ToSet, TypeOK
    <2>3. due' \subseteq Event
      BY <1>2, <2>1, <2>2 DEF FlushAll
    <2>4. alone' \in BOOLEAN
      BY <1>2 DEF FlushAll
    <2> QED
      BY <1>2, <2>3, <2>4 DEF FlushAll, TypeOK
  <1>3. CASE Flushed
    BY <1>3 DEF Flushed, TypeOK
  <1>4. CASE Drain /\ out = <<>>
    BY <1>4 DEF Drain, TypeOK
  <1>5. CASE Drain /\ out # <<>>
    <2>1. Head(out) \in Event /\ Tail(out) \in Seq(Event)
      BY <1>5 DEF TypeOK
    <2>2. /\ logged' \in Seq(Event) /\ seen \in 0..Len(logged')
          /\ lost' \in BOOLEAN /\ faults' \in 0..MaxFaults
      BY <1>5, <2>1, TypeAppend DEF Drain
    <2> QED
      BY <1>5, <2>1, <2>2 DEF Drain, TypeOK
  <1>6. CASE Cancel
    BY <1>6 DEF Cancel, TypeOK
  <1> QED
    BY <1>1, <1>2, <1>3, <1>4, <1>5, <1>6 DEF Shutdown

LEMMA TypeStep == TypeOK /\ [Next]_vars => TypeOK'
  <1> SUFFICES ASSUME TypeOK, [Next]_vars PROVE TypeOK'
    OBVIOUS
  <1>1. CASE UNCHANGED vars
    BY <1>1 DEF vars, TypeOK
  <1> QED
    BY <1>1, TypePush, TypeDebounce, TypeConsume, TypeReconcile, TypeShutdown
       DEF Next

\* Every reachable state of the watcher, the loop and the shutdown is well typed:
\* in particular notifyCh2 never overflows or underflows.
THEOREM TypeCorrect == Spec => []TypeOK
  BY TypeInit, TypeStep, PTL DEF Spec

--------------------------------------------------------------------------------
(* NoMissedWakeup is inductive once it is known that FlushAll, which appends  *)
(* without a token, runs only after the context is cancelled.                 *)

WakeupInv == TypeOK /\ NoMissedWakeup /\ (shut # "no" => cancelled)

LEMMA WakeupInit == Init => WakeupInv
  BY TypeInit DEF Init, WakeupInv, NoMissedWakeup

LEMMA WakeupStep == WakeupInv /\ [Next]_vars => WakeupInv'
  <1> SUFFICES ASSUME WakeupInv, [Next]_vars PROVE WakeupInv'
    OBVIOUS
  <1>1. TypeOK /\ TypeOK'
    BY TypeStep DEF WakeupInv
  <1>2. Len(logged) \in Nat /\ seen \in Nat /\ notify \in Nat
    BY <1>1, CapAssumption DEF TypeOK
  <1> USE DEF debouncer, loopVars, shutVars, rest, WakeupInv, NoMissedWakeup
  <1>3. ASSUME NEW p \in Path, Push(p) PROVE WakeupInv'
    BY <1>1, <1>3 DEF Push
  <1>4. CASE Debounce
    BY <1>1, <1>4 DEF Debounce, PushFlushed, flushLocked, TimerFires, TimerSends
  <1>5. CASE Receive
    BY <1>1, <1>5 DEF Receive
  <1>6. CASE writeToChangelog
    BY <1>1, <1>6 DEF writeToChangelog
  <1>7. CASE Notify
    BY <1>1, <1>2, <1>7, CapAssumption DEF Notify
  <1>8. CASE ConsumerExits
    BY <1>1, <1>8 DEF ConsumerExits
  <1>9. CASE LoopWakes
    BY <1>1, <1>9 DEF LoopWakes
  <1>10. CASE LoopDrains
    BY <1>1, <1>10 DEF LoopDrains
  <1>11. CASE LoopRuns
    BY <1>1, <1>2, <1>11 DEF LoopRuns
  <1>12. CASE LoopReturns \/ LoopExits
    BY <1>1, <1>12 DEF LoopReturns, LoopExits
  <1>13. CASE Cancel
    BY <1>1, <1>13 DEF Cancel
  <1>14. CASE Shutdown
    BY <1>1, <1>14 DEF Shutdown, PollExits, FlushAll, Flushed, Drain
  <1>15. CASE UNCHANGED vars
    BY <1>1, <1>15 DEF vars
  <1> QED
    BY <1>3, <1>4, <1>5, <1>6, <1>7, <1>8, <1>9, <1>10, <1>11, <1>12, <1>13,
       <1>14, <1>15 DEF Next, Consume, Reconcile

\* The non-blocking send to notifyCh2 never loses a wake-up, whatever the capacity
\* of the channel and however the consumer and reconcileLoop interleave
\* (watcher.go:156-163, daemon.go:165-173).
THEOREM NoMissedWakeupHolds == Spec => []NoMissedWakeup
  <1>1. WakeupInv => NoMissedWakeup
    BY DEF WakeupInv
  <1> QED
    BY <1>1, WakeupInit, WakeupStep, PTL DEF Spec

--------------------------------------------------------------------------------
(* FlushAllComplete: with the consumer gone the channel only grows until the  *)
(* drain, so that what was due is in the debouncer, in the channel or in the  *)
(* changelog, depending on how far FlushAll is.                               *)

FlushOrder ==
    /\ alone => consumer = "exited"
    /\ mu = "flush" <=> shut = "flush"

FlushHas ==
    alone /\ ~lost =>
      /\ shut = "flush" => due \subseteq {Of(p, pending[p]) : p \in Held} \cup ToSet(out)
      /\ shut = "drain" => due \subseteq ToSet(out) \cup ToSet(logged)
      /\ shut = "done" => due \subseteq ToSet(logged)

FlushInv == TypeOK /\ FlushOrder /\ FlushHas

LEMMA ToSetAppend ==
    ASSUME NEW S, NEW s \in Seq(S), NEW e \in S
    PROVE  ToSet(Append(s, e)) = ToSet(s) \cup {e}
  <1>1. /\ Append(s, e) \in Seq(S) /\ Len(Append(s, e)) = Len(s) + 1
        /\ Append(s, e)[Len(s) + 1] = e
        /\ \A i \in 1..Len(s) : Append(s, e)[i] = s[i]
        /\ DOMAIN s = 1..Len(s) /\ DOMAIN Append(s, e) = 1..Len(s) + 1
        /\ Len(s) \in Nat
    OBVIOUS
  <1>2. ToSet(Append(s, e)) \subseteq ToSet(s) \cup {e}
    BY <1>1 DEF ToSet
  <1>3. ToSet(s) \cup {e} \subseteq ToSet(Append(s, e))
    BY <1>1 DEF ToSet
  <1> QED
    BY <1>2, <1>3

LEMMA ToSetTail ==
    ASSUME NEW S, NEW s \in Seq(S), s # <<>>
    PROVE  ToSet(s) \subseteq {Head(s)} \cup ToSet(Tail(s))
  <1>1. /\ Len(s) \in Nat \ {0} /\ DOMAIN s = 1..Len(s) /\ Head(s) = s[1]
        /\ DOMAIN Tail(s) = 1..Len(s) - 1
        /\ \A i \in 1..Len(s) - 1 : Tail(s)[i] = s[i + 1]
    OBVIOUS
  <1>2. ASSUME NEW i \in 1..Len(s) PROVE s[i] \in {Head(s)} \cup ToSet(Tail(s))
    <2>1. CASE i = 1
      BY <1>1, <2>1
    <2>2. CASE i # 1
      <3>1. i - 1 \in 1..Len(s) - 1 /\ (i - 1) + 1 = i
        BY <1>1, <2>2
      <3>2. Tail(s)[i - 1] = s[i]
        BY <1>1, <3>1
      <3> QED
        BY <1>1, <3>1, <3>2 DEF ToSet
    <2> QED
      BY <2>1, <2>2
  <1> QED
    BY <1>1, <1>2 DEF ToSet

LEMMA FlushInit == Init => FlushInv
  BY TypeInit DEF Init, FlushInv, FlushOrder, FlushHas

\* The debouncer: while FlushAll holds the mutex an entry only leaves it for the channel.
LEMMA FlushDebounce ==
    ASSUME FlushInv, Debounce \/ \E p \in Path : Push(p)
    PROVE  FlushOrder' /\ FlushHas'
  <1> USE DEF FlushInv, loopVars, shutVars, rest
  <1>1. UNCHANGED <<consumer, logged, shut, due, alone, lost>>
    BY DEF Debounce, Push, PushFlushed, flushLocked, TimerFires, TimerSends
  <1>2. ASSUME NEW p \in Path, Push(p) PROVE FlushOrder' /\ FlushHas'
    <2>1. mu = "free" /\ mu' # "flush" /\ out' = out
      BY <1>2 DEF Push
    <2> QED
      BY <1>1, <2>1 DEF FlushOrder, FlushHas
  <1>3. CASE PushFlushed
    <2>1. mu = "push" /\ mu' = "free" /\ out' = out
      BY <1>3 DEF PushFlushed
    <2> QED
      BY <1>1, <2>1 DEF FlushOrder, FlushHas
  <1>4. ASSUME NEW p \in Path, flushLocked(p) PROVE FlushOrder' /\ FlushHas'
    <2>1. Of(p, pending[p]) \in Event /\ out \in Seq(Event)
      BY <1>4, EventOf, LimitAssumption DEF flushLocked, TypeOK
    <2>2. ToSet(out') = ToSet(out) \cup {Of(p, pending[p])}
      BY <1>4, <2>1, ToSetAppend DEF flushLocked
    <2>3. {Of(q, pending[q]) : q \in Held}
            \subseteq {Of(q, pending'[q]) : q \in Held'} \cup {Of(p, pending[p])}
      <3>1. \A q \in Path : q # p => pending'[q] = pending[q]
        BY <1>4 DEF flushLocked, TypeOK
      <3>2. \A q \in Held : q = p \/ (q \in Held' /\ Of(q, pending[q]) = Of(q, pending'[q]))
        BY <3>1 DEF Held
      <3> QED
        BY <3>2
    <2>4. mu' = mu
      BY <1>4 DEF flushLocked
    <2> QED
      BY <1>1, <2>2, <2>3, <2>4 DEF FlushOrder, FlushHas
  <1>5. ASSUME NEW p \in Path, TimerFires(p) PROVE FlushOrder' /\ FlushHas'
    <2>1. mu = "free" /\ mu' = mu /\ out' = out
      BY <1>5 DEF TimerFires
    <2> QED
      BY <1>1, <2>1 DEF FlushOrder, FlushHas
  <1>6. ASSUME NEW e \in sending, TimerSends(e) PROVE FlushOrder' /\ FlushHas'
    <2>1. e \in Event /\ out \in Seq(Event)
      BY DEF TypeOK
    <2>2. ToSet(out') = ToSet(out) \cup {e} /\ mu' = mu /\ pending' = pending
      BY <1>6, <2>1, ToSetAppend DEF TimerSends
    <2> QED
      BY <1>1, <2>2 DEF FlushOrder, FlushHas, Held
  <1> QED
    BY <1>2, <1>3, <1>4, <1>5, <1>6 DEF Debounce

\* FlushAll, Flushed and the drain.
LEMMA FlushShutdown ==
    ASSUME FlushInv, FlushAll \/ Flushed \/ Drain
    PROVE  FlushOrder' /\ FlushHas'
  <1> USE DEF FlushInv, debouncer, loopVars, rest
  <1>1. CASE FlushAll
    <2>1. due' = {Of(p, pending'[p]) : p \in Held'} \cup ToSet(out')
      BY <1>1 DEF FlushAll, Held
    <2>2. /\ shut' = "flush" /\ mu' = "flush"
          /\ alone' => consumer' = "exited"
      BY <1>1 DEF FlushAll
    <2> QED
      BY <2>1, <2>2 DEF FlushOrder, FlushHas
  <1>2. CASE Flushed
    <2>1. /\ shut = "flush" /\ shut' = "drain" /\ mu' = "free" /\ Held = {}
          /\ UNCHANGED <<out, logged, due, alone, lost, consumer>>
      BY <1>2 DEF Flushed
    <2>2. alone /\ ~lost => due \subseteq ToSet(out)
      BY <2>1 DEF FlushHas
    <2> QED
      BY <2>1, <2>2 DEF FlushOrder, FlushHas
  <1>3. CASE Drain /\ out = <<>>
    <2>1. /\ shut = "drain" /\ shut' = "done"
          /\ UNCHANGED <<mu, out, logged, due, alone, lost, consumer>>
      BY <1>3 DEF Drain
    <2>2. ToSet(out) = {}
      BY <1>3 DEF ToSet
    <2> QED
      BY <2>1, <2>2 DEF FlushOrder, FlushHas
  <1>4. CASE Drain /\ out # <<>>
    <2>1. /\ shut = "drain" /\ out' = Tail(out)
          /\ UNCHANGED <<mu, shut, due, alone, consumer>>
          /\ Appended(Head(out)) \/ AppendFails
      BY <1>4 DEF Drain
    <2>2. out \in Seq(Event) /\ Head(out) \in Event /\ logged \in Seq(Event)
      BY <1>4 DEF TypeOK
    <2>3. ToSet(out) \subseteq {Head(out)} \cup ToSet(out')
      BY <1>4, <2>1, <2>2, ToSetTail
    <2>4. CASE Appended(Head(out))
      <3>1. ToSet(logged') = ToSet(logged) \cup {Head(out)} /\ lost' = lost
        BY <2>2, <2>4, ToSetAppend DEF Appended
      <3> QED
        BY <2>1, <2>3, <3>1 DEF FlushOrder, FlushHas
    <2>5. CASE AppendFails
      BY <2>1, <2>5 DEF AppendFails, FlushOrder, FlushHas
    <2> QED
      BY <2>1, <2>4, <2>5
  <1> QED
    BY <1>1, <1>2, <1>3, <1>4

LEMMA FlushStep == FlushInv /\ [Next]_vars => FlushInv'
  <1> SUFFICES ASSUME FlushInv, [Next]_vars PROVE FlushInv'
    OBVIOUS
  <1>1. TypeOK'
    BY TypeStep DEF FlushInv
  <1>2. CASE (\E p \in Path : Push(p)) \/ Debounce
    BY <1>1, <1>2, FlushDebounce DEF FlushInv
  <1>3. CASE Receive \/ writeToChangelog
    <2>1. consumer # "exited" /\ UNCHANGED <<alone, mu, shut>>
      BY <1>3 DEF Receive, writeToChangelog, debouncer, shutVars
    <2>2. FlushOrder' /\ FlushHas'
      BY <2>1 DEF FlushInv, FlushOrder, FlushHas
    <2> QED
      BY <1>1, <2>2 DEF FlushInv
  <1>4. CASE Notify \/ ConsumerExits \/ Reconcile \/ Cancel \/ PollExits
    <2>1. /\ UNCHANGED <<pending, mu, out, logged, shut, due, alone, lost>>
          /\ consumer # "exited" \/ UNCHANGED consumer
      BY <1>4 DEF Notify, ConsumerExits, Reconcile, LoopWakes, LoopDrains, LoopRuns,
         LoopReturns, LoopExits, Cancel, PollExits, debouncer, shutVars
    <2>2. FlushOrder' /\ FlushHas'
      BY <2>1 DEF FlushInv, FlushOrder, FlushHas, Held
    <2> QED
      BY <1>1, <2>2 DEF FlushInv
  <1>5. CASE FlushAll \/ Flushed \/ Drain
    BY <1>1, <1>5, FlushShutdown DEF FlushInv
  <1>6. CASE UNCHANGED vars
    BY <1>1, <1>6 DEF vars, FlushInv, FlushOrder, FlushHas, Held
  <1> QED
    BY <1>2, <1>3, <1>4, <1>5, <1>6 DEF Next, Consume, Shutdown

\* "FlushAll flushes all debounce buffers and drains pending events into changelog"
\* (watcher.go:90) once the consumer has gone, for any paths, any capacity of the
\* channel and however timers and the poll loop go on meanwhile.
THEOREM FlushAllIsComplete == Spec => []FlushAllComplete
  <1>1. FlushInv => FlushAllComplete
    BY DEF FlushInv, FlushHas, FlushAllComplete
  <1> QED
    BY <1>1, FlushInit, FlushStep, PTL DEF Spec

--------------------------------------------------------------------------------
(* LatestLoggedLast: the events of a path pass through the parked event of a  *)
(* Push, the debouncer, a timer callback, the channel and the consumer into   *)
(* the changelog, and none overtakes another.  The latest one is therefore    *)
(* the first that is met against the direction of the flow.                   *)

LastIn(s, p) ==
    \E i \in DOMAIN s :
        s[i] = Of(p, last[p]) /\ \A j \in DOMAIN s : j > i => s[j].path # p

Without(s, p) == \A i \in DOMAIN s : s[i].path # p

\* At the consumer or behind it.
LatestConsumed(p) ==
    \/ Of(p, last[p]) \in got
    \/ (\A e \in got : e.path # p) /\ LastIn(logged, p)

LatestSent(p) ==
    \/ LastIn(out, p)
    \/ Without(out, p) /\ LatestConsumed(p)

LatestFired(p) ==
    \/ Of(p, last[p]) \in sending
    \/ (\A e \in sending : e.path # p) /\ LatestSent(p)

LatestFirst(p) ==
    \/ Of(p, last[p]) \in parked
    \/ /\ \A e \in parked : e.path # p
       /\ \/ pending[p] = last[p]
          \/ pending[p] = 0 /\ LatestFired(p)

\* There is one event at a time in the poll loop's and in the consumer's hands, and
\* one of each path in those of timer callbacks.
Singles ==
    /\ \A a, b \in parked : a = b
    /\ parked # {} => mu = "push"
    /\ \A a, b \in got : a = b
    /\ consumer # "write" => got = {}
    /\ SendsPromptly => \A a, b \in sending : a.path = b.path => a = b

LatestInv ==
    /\ TypeOK /\ Singles
    /\ shut # "no" => cancelled
    /\ SendsPromptly /\ ~lost /\ ~cancelled =>
         \A p \in Path : last[p] # 0 => LatestFirst(p)

LEMMA LatestInit == Init => LatestInv
  <1> SUFFICES ASSUME Init PROVE LatestInv
    OBVIOUS
  <1>1. TypeOK
    BY TypeInit
  <1>2. Singles
    BY DEF Init, Singles
  <1>3. \A p \in Path : last[p] = 0
    BY DEF Init
  <1> QED
    BY <1>1, <1>2, <1>3 DEF Init, LatestInv

\* The latest event of p after one has been added to a sequence, or taken from its front.
LEMMA LastInAppend ==
    ASSUME TypeOK, NEW s \in Seq(Event), NEW e \in Event, NEW p \in Path
    PROVE  /\ e = Of(p, last[p]) => LastIn(Append(s, e), p)
           /\ e.path # p => /\ LastIn(s, p) => LastIn(Append(s, e), p)
                            /\ Without(s, p) => Without(Append(s, e), p)
  <1> DEFINE t == Append(s, e)
             n == Len(s)
  <1>1. /\ n \in Nat /\ DOMAIN s = 1..n /\ DOMAIN t = 1..n + 1
        /\ t[n + 1] = e /\ \A i \in 1..n : t[i] = s[i]
    OBVIOUS
  <1> HIDE DEF t, n
  <1>2. ASSUME e = Of(p, last[p]) PROVE LastIn(t, p)
    BY <1>1, <1>2 DEF LastIn
  <1>3. ASSUME e.path # p, LastIn(s, p) PROVE LastIn(t, p)
    <2>1. PICK i \in 1..n : s[i] = Of(p, last[p]) /\ \A j \in 1..n : j > i => s[j].path # p
      BY <1>1, <1>3 DEF LastIn
    <2>2. i \in 1..n + 1 /\ t[i] = Of(p, last[p])
      BY <1>1, <2>1
    <2>3. \A j \in 1..n + 1 : j > i => t[j].path # p
      BY <1>1, <1>3, <2>1
    <2> QED
      BY <1>1, <2>2, <2>3 DEF LastIn
  <1>4. ASSUME e.path # p, Without(s, p) PROVE Without(t, p)
    BY <1>1, <1>4 DEF Without
  <1> QED
    BY <1>2, <1>3, <1>4 DEF t

LEMMA LastInTail ==
    ASSUME TypeOK, NEW s \in Seq(Event), s # <<>>, NEW p \in Path
    PROVE  /\ LastIn(s, p) =>
                LastIn(Tail(s), p) \/ (Without(Tail(s), p) /\ Head(s) = Of(p, last[p]))
           /\ Without(s, p) => Without(Tail(s), p) /\ Head(s).path # p
  <1> DEFINE t == Tail(s)
             n == Len(s)
  <1>1. /\ n \in Nat \ {0} /\ DOMAIN s = 1..n /\ DOMAIN t = 1..n - 1
        /\ Head(s) = s[1] /\ \A i \in 1..n - 1 : t[i] = s[i + 1]
    OBVIOUS
  <1> HIDE DEF t, n
  <1>2. ASSUME LastIn(s, p)
        PROVE  LastIn(t, p) \/ (Without(t, p) /\ Head(s) = Of(p, last[p]))
    <2>1. PICK i \in 1..n : s[i] = Of(p, last[p]) /\ \A j \in 1..n : j > i => s[j].path # p
      BY <1>1, <1>2 DEF LastIn
    <2>2. CASE i = 1
      <3>1. \A j \in 1..n - 1 : t[j].path # p
        BY <1>1, <2>1, <2>2
      <3> QED
        BY <1>1, <2>1, <2>2, <3>1 DEF Without
    <2>3. CASE i # 1
      <3>1. i - 1 \in 1..n - 1 /\ t[i - 1] = Of(p, last[p])
        BY <1>1, <2>1, <2>3
      <3>2. \A j \in 1..n - 1 : j > i - 1 => t[j].path # p
        BY <1>1, <2>1
      <3> QED
        BY <1>1, <3>1, <3>2 DEF LastIn
    <2> QED
      BY <2>2, <2>3
  <1>3. ASSUME Without(s, p) PROVE Without(t, p) /\ Head(s).path # p
    BY <1>1, <1>3, SMTT(30) DEF Without
  <1> QED
    BY <1>2, <1>3 DEF t

\* Events in one place at a time.
LEMMA SinglesStep ==
    ASSUME LatestInv, [Next]_vars
    PROVE  Singles'
  <1> USE DEF LatestInv, Singles, debouncer, loopVars, shutVars, rest
  <1>1. ASSUME NEW p \in Path, Push(p) PROVE Singles'
    BY <1>1 DEF Push
  <1>2. CASE PushFlushed
    BY <1>2 DEF PushFlushed
  <1>3. ASSUME NEW p \in Path, flushLocked(p) PROVE Singles'
    BY <1>3 DEF flushLocked
  <1>4. ASSUME NEW p \in Path, TimerFires(p) PROVE Singles'
    <2>1. Of(p, pending[p]).path = p
      BY DEF Of
    <2>2. SendsPromptly => \A s \in sending : s.path # p
      BY <1>4 DEF TimerFires, InOrder
    <2> QED
      BY <1>4, <2>1, <2>2 DEF TimerFires
  <1>5. ASSUME NEW e \in sending, TimerSends(e) PROVE Singles'
    BY <1>5 DEF TimerSends
  <1>6. CASE Receive
    BY <1>6 DEF Receive
  <1>7. CASE writeToChangelog
    BY <1>7 DEF writeToChangelog
  <1>8. CASE Notify \/ ConsumerExits
    BY <1>8 DEF Notify, ConsumerExits
  <1>9. CASE Reconcile
    BY <1>9 DEF Reconcile, LoopWakes, LoopDrains, LoopRuns, LoopReturns, LoopExits
  <1>10. CASE Cancel \/ PollExits \/ Drain
    BY <1>10 DEF Cancel, PollExits, Drain
  <1>11. CASE FlushAll
    BY <1>11 DEF FlushAll
  <1>12. CASE Flushed
    BY <1>12 DEF Flushed
  <1>13. CASE UNCHANGED vars
    BY <1>13 DEF vars
  <1> QED
    BY <1>1, <1>2, <1>3, <1>4, <1>5, <1>6, <1>7, <1>8, <1>9, <1>10, <1>11, <1>12,
       <1>13 DEF Next, Debounce, Consume, Shutdown

\* A step that leaves a place alone leaves what is said of it.
LEMMA PlacesKept ==
    ASSUME NEW q \in Path, last'[q] = last[q]
    PROVE  /\ UNCHANGED logged => LastIn(logged, q)' = LastIn(logged, q)
           /\ UNCHANGED out => /\ LastIn(out, q)' = LastIn(out, q)
                               /\ Without(out, q)' = Without(out, q)
           /\ UNCHANGED <<logged, got>> => LatestConsumed(q)' = LatestConsumed(q)
           /\ UNCHANGED <<logged, got, out>> => LatestSent(q)' = LatestSent(q)
           /\ UNCHANGED <<logged, got, out, sending>> => LatestFired(q)' = LatestFired(q)
           /\ UNCHANGED <<logged, got, out, sending, parked, pending>> =>
                LatestFirst(q)' = LatestFirst(q)
  <1>1. UNCHANGED logged => LastIn(logged, q)' = LastIn(logged, q)
    BY DEF LastIn
  <1>2. UNCHANGED out => /\ LastIn(out, q)' = LastIn(out, q)
                         /\ Without(out, q)' = Without(out, q)
    BY DEF LastIn, Without
  <1>3. UNCHANGED <<logged, got>> => LatestConsumed(q)' = LatestConsumed(q)
    BY <1>1 DEF LatestConsumed
  <1>4. UNCHANGED <<logged, got, out>> => LatestSent(q)' = LatestSent(q)
    BY <1>2, <1>3 DEF LatestSent
  <1>5. UNCHANGED <<logged, got, out, sending>> => LatestFired(q)' = LatestFired(q)
    BY <1>4 DEF LatestFired
  <1>6. UNCHANGED <<logged, got, out, sending, parked, pending>> =>
          LatestFirst(q)' = LatestFirst(q)
    BY <1>5 DEF LatestFirst
  <1> QED
    BY <1>1, <1>2, <1>3, <1>4, <1>5, <1>6

LEMMA OfPath ==
    ASSUME NEW p, NEW e
    PROVE  Of(p, e).path = p /\ Of(p, e).ev = e
  BY DEF Of

LEMMA LatestPush ==
    ASSUME LatestInv, NEW p \in Path, Push(p), NEW q \in Path, last'[q] # 0,
           last[q] # 0 => LatestFirst(q)
    PROVE  LatestFirst(q)'
  <1>1. UNCHANGED <<sending, out, got, logged>> /\ parked = {}
    BY DEF Push
  <1>2. CASE q = p
    <2>1. last'[p] = events + 1
      BY DEF Push, LatestInv, TypeOK
    <2>2. CASE Cardinality(Held) >= limit
      BY <1>2, <2>1, <2>2 DEF Push, LatestFirst
    <2>3. CASE ~(Cardinality(Held) >= limit)
      <3>1. pending'[p] = events + 1 /\ parked' = {}
        BY <1>1, <2>3 DEF Push, LatestInv, TypeOK
      <3> QED
        BY <1>2, <2>1, <3>1 DEF LatestFirst
    <2> QED
      BY <2>2, <2>3
  <1>3. CASE q # p
    <2>1. last'[q] = last[q]
      BY <1>3 DEF Push, LatestInv, TypeOK
    <2>2. LatestFired(q)' = LatestFired(q)
      BY <1>1, <2>1, PlacesKept
    <2>3. pending'[q] = pending[q] /\ \A e \in parked' : e.path # q
      <3>1. CASE Cardinality(Held) >= limit
        BY <1>3, <3>1, OfPath DEF Push
      <3>2. CASE ~(Cardinality(Held) >= limit)
        BY <1>1, <1>3, <3>2 DEF Push, LatestInv, TypeOK
      <3> QED
        BY <3>1, <3>2
    <2> QED
      BY <1>1, <2>1, <2>2, <2>3 DEF LatestFirst
  <1> QED
    BY <1>2, <1>3

LEMMA LatestDebounce ==
    ASSUME LatestInv, SendsPromptly, Debounce, NEW q \in Path, last[q] # 0, LatestFirst(q)
    PROVE  LatestFirst(q)'
  <1> USE DEF loopVars, shutVars, rest
  <1>1. last'[q] = last[q] /\ UNCHANGED <<got, logged>>
    BY DEF Debounce, PushFlushed, flushLocked, TimerFires, TimerSends
  <1>2. LatestConsumed(q)' = LatestConsumed(q)
    BY <1>1, PlacesKept
  <1>3. CASE PushFlushed
    <2>1. PICK e \in parked : pending' = [pending EXCEPT ![e.path] = e.ev]
      BY <1>3 DEF PushFlushed
    <2>2. parked = {e} /\ e \in Event
      BY DEF LatestInv, Singles, TypeOK
    <2>3. parked' = {} /\ LatestFired(q)' = LatestFired(q)
      BY <1>1, <1>3, PlacesKept DEF PushFlushed
    <2>4. CASE q = e.path
      <3>1. e = Of(q, last[q])
        BY <2>2, <2>4 DEF LatestFirst
      <3>2. pending'[q] = last[q]
        BY <2>1, <2>4, <3>1, OfPath DEF LatestInv, TypeOK
      <3> QED
        BY <1>1, <2>3, <3>2 DEF LatestFirst
    <2>5. CASE q # e.path
      <3>1. pending'[q] = pending[q]
        BY <2>1, <2>2, <2>5 DEF LatestInv, TypeOK
      <3>2. Of(q, last[q]) \notin parked
        BY <2>2, <2>5, OfPath
      <3> QED
        BY <1>1, <2>3, <3>1, <3>2 DEF LatestFirst
    <2> QED
      BY <2>4, <2>5
  <1>4. ASSUME NEW p \in Path, flushLocked(p) PROVE LatestFirst(q)'
    <2>1. /\ pending[p] # 0 /\ UNCHANGED <<parked, sending>>
          /\ out' = Append(out, Of(p, pending[p])) /\ pending' = [pending EXCEPT ![p] = 0]
          /\ \A e \in sending : e.path # p
      BY <1>4 DEF flushLocked, InOrder
    <2>2. Of(p, pending[p]) \in Event /\ out \in Seq(Event)
      BY <2>1, EventOf, LimitAssumption DEF LatestInv, TypeOK
    <2>3. CASE Of(q, last[q]) \in parked
      BY <1>1, <2>1, <2>3 DEF LatestFirst
    <2>4. CASE Of(q, last[q]) \notin parked /\ q = p
      <3>1. pending[q] = last[q] /\ \A e \in parked : e.path # q
        BY <2>1, <2>4 DEF LatestFirst
      <3>2. LastIn(Append(out, Of(p, pending[p])), q)
        BY <2>2, <2>4, <3>1, LastInAppend DEF LatestInv
      <3>3. LastIn(out, q)'
        BY <1>1, <2>1, <3>2 DEF LastIn
      <3>4. pending'[q] = 0
        BY <2>1, <2>4 DEF LatestInv, TypeOK
      <3> QED
        BY <2>1, <2>4, <3>1, <3>3, <3>4 DEF LatestFirst, LatestFired, LatestSent
    <2>5. CASE Of(q, last[q]) \notin parked /\ q # p
      <3>1. pending'[q] = pending[q]
        BY <2>1, <2>5 DEF LatestInv, TypeOK
      <3>2. /\ LastIn(out, q) => LastIn(Append(out, Of(p, pending[p])), q)
            /\ Without(out, q) => Without(Append(out, Of(p, pending[p])), q)
        BY <2>2, <2>5, OfPath, LastInAppend DEF LatestInv
      <3>3. (LastIn(out, q) => LastIn(out, q)') /\ (Without(out, q) => Without(out, q)')
        BY <1>1, <2>1, <3>2 DEF LastIn, Without
      <3>4. LatestSent(q) => LatestSent(q)'
        BY <1>2, <3>3 DEF LatestSent
      <3> QED
        BY <1>1, <2>1, <3>1, <3>4 DEF LatestFirst, LatestFired
    <2> QED
      BY <2>3, <2>4, <2>5
  <1>5. ASSUME NEW p \in Path, TimerFires(p) PROVE LatestFirst(q)'
    <2>1. /\ pending[p] # 0 /\ UNCHANGED <<parked, out>>
          /\ sending' = sending \cup {Of(p, pending[p])}
          /\ pending' = [pending EXCEPT ![p] = 0] /\ mu = "free"
      BY <1>5 DEF TimerFires
    <2>2. parked = {}
      BY <2>1 DEF LatestInv, Singles
    <2>3. CASE q = p
      <3>1. pending[q] = last[q]
        BY <2>1, <2>2, <2>3 DEF LatestFirst
      <3>2. pending'[q] = 0
        BY <2>1, <2>3 DEF LatestInv, TypeOK
      <3> QED
        BY <1>1, <2>1, <2>2, <2>3, <3>1, <3>2 DEF LatestFirst, LatestFired
    <2>4. CASE q # p
      <3>1. pending'[q] = pending[q] /\ LatestSent(q)' = LatestSent(q)
        BY <1>1, <2>1, <2>4, PlacesKept DEF LatestInv, TypeOK
      <3>2. Of(p, pending[p]).path # q
        BY <2>4, OfPath
      <3> QED
        BY <1>1, <2>1, <2>2, <3>1, <3>2 DEF LatestFirst, LatestFired
    <2> QED
      BY <2>3, <2>4
  <1>6. ASSUME NEW s \in sending, TimerSends(s) PROVE LatestFirst(q)'
    <2>1. /\ UNCHANGED <<parked, pending>> /\ sending' = sending \ {s}
          /\ out' = Append(out, s)
      BY <1>6 DEF TimerSends
    <2>2. s \in Event /\ out \in Seq(Event)
      BY DEF LatestInv, TypeOK
    <2>3. LatestFired(q) => LatestFired(q)'
      <3>1. CASE Of(q, last[q]) \in sending /\ s.path = q
        <4>1. s = Of(q, last[q])
          BY <3>1, OfPath DEF LatestInv, Singles
        <4>2. \A e \in sending' : e.path # q
          BY <2>1, <3>1 DEF LatestInv, Singles
        <4>3. LastIn(Append(out, s), q)
          BY <2>2, <4>1, LastInAppend DEF LatestInv
        <4>4. LastIn(out, q)'
          BY <1>1, <2>1, <4>3 DEF LastIn
        <4> QED
          BY <4>2, <4>4 DEF LatestFired, LatestSent
      <3>2. CASE Of(q, last[q]) \in sending /\ s.path # q
        BY <1>1, <2>1, <3>2, OfPath DEF LatestFired
      <3>3. CASE Of(q, last[q]) \notin sending
        <4> SUFFICES ASSUME \A e \in sending : e.path # q, LatestSent(q)
                     PROVE  LatestFired(q)'
          BY <3>3 DEF LatestFired
        <4>1. s.path # q
          OBVIOUS
        <4>2. /\ LastIn(out, q) => LastIn(Append(out, s), q)
              /\ Without(out, q) => Without(Append(out, s), q)
          BY <2>2, <4>1, LastInAppend DEF LatestInv
        <4>3. (LastIn(out, q) => LastIn(out, q)') /\ (Without(out, q) => Without(out, q)')
          BY <1>1, <2>1, <4>2 DEF LastIn, Without
        <4> QED
          BY <1>2, <2>1, <4>3 DEF LatestFired, LatestSent
      <3> QED
        BY <3>1, <3>2, <3>3
    <2> QED
      BY <1>1, <2>1, <2>3 DEF LatestFirst
  <1> QED
    BY <1>3, <1>4, <1>5, <1>6 DEF Debounce

LEMMA LatestConsume ==
    ASSUME LatestInv, Consume, ~lost', ~cancelled, NEW q \in Path, last[q] # 0,
           LatestFirst(q)
    PROVE  LatestFirst(q)'
  <1> USE DEF debouncer, loopVars, shutVars, rest
  <1>1. last'[q] = last[q] /\ UNCHANGED <<pending, parked, sending>>
    BY DEF Consume, Receive, writeToChangelog, Notify, ConsumerExits
  <1>2. SUFFICES ASSUME LatestSent(q) PROVE LatestSent(q)'
    BY <1>1 DEF LatestFirst, LatestFired
  <1>3. CASE Receive
    <2>1. /\ got = {} /\ out # <<>> /\ got' = {Head(out)} /\ out' = Tail(out)
          /\ UNCHANGED logged
      BY <1>3 DEF Receive, LatestInv, Singles
    <2>2. /\ LastIn(out, q) =>
               LastIn(Tail(out), q) \/ (Without(Tail(out), q) /\ Head(out) = Of(q, last[q]))
          /\ Without(out, q) => Without(Tail(out), q) /\ Head(out).path # q
      BY <2>1, LastInTail DEF LatestInv, TypeOK
    <2>3. /\ LastIn(Tail(out), q) => LastIn(out, q)'
          /\ Without(Tail(out), q) => Without(out, q)'
      BY <1>1, <2>1 DEF LastIn, Without
    <2>4. LastIn(logged, q)' = LastIn(logged, q)
      BY <1>1, <2>1, PlacesKept
    <2>5. CASE LastIn(out, q)
      BY <1>1, <2>1, <2>2, <2>3, <2>5 DEF LatestSent, LatestConsumed
    <2>6. CASE Without(out, q) /\ LatestConsumed(q)
      <3>1. LastIn(logged, q)
        BY <2>1, <2>6 DEF LatestConsumed
      <3>2. LatestConsumed(q)'
        BY <2>1, <2>2, <2>4, <2>6, <3>1 DEF LatestConsumed
      <3> QED
        BY <2>2, <2>3, <2>6, <3>2 DEF LatestSent
    <2> QED
      BY <1>2, <2>5, <2>6 DEF LatestSent
  <1>4. CASE writeToChangelog
    <2>1. got' = {} /\ UNCHANGED out
      BY <1>4 DEF writeToChangelog
    <2>2. PICK e \in got : Appended(e)
      BY <1>4 DEF writeToChangelog, AppendFails, AppendCancelled
    <2>3. got = {e} /\ e \in Event /\ logged \in Seq(Event) /\ logged' = Append(logged, e)
      BY <2>2 DEF LatestInv, Singles, TypeOK, Appended
    <2>4. LatestConsumed(q) => LatestConsumed(q)'
      <3>1. CASE e = Of(q, last[q])
        <4>1. LastIn(Append(logged, e), q)
          BY <2>3, <3>1, LastInAppend DEF LatestInv
        <4> QED
          BY <1>1, <2>1, <2>3, <4>1 DEF LatestConsumed, LastIn
      <3>2. CASE e # Of(q, last[q])
        <4> SUFFICES ASSUME e.path # q, LastIn(logged, q) PROVE LatestConsumed(q)'
          BY <2>3, <3>2 DEF LatestConsumed
        <4>1. LastIn(Append(logged, e), q)
          BY <2>3, LastInAppend DEF LatestInv
        <4> QED
          BY <1>1, <2>1, <2>3, <4>1 DEF LatestConsumed, LastIn
      <3> QED
        BY <3>1, <3>2
    <2>5. LastIn(out, q)' = LastIn(out, q) /\ Without(out, q)' = Without(out, q)
      BY <1>1, <2>1, PlacesKept
    <2> QED
      BY <1>2, <2>4, <2>5 DEF LatestSent
  <1>5. CASE Notify \/ ConsumerExits
    <2>1. UNCHANGED <<logged, got, out>>
      BY <1>5 DEF Notify, ConsumerExits
    <2> QED
      BY <1>1, <1>2, <2>1, PlacesKept
  <1> QED
    BY <1>3, <1>4, <1>5 DEF Consume

LEMMA LatestStep == LatestInv /\ [Next]_vars => LatestInv'
  <1> SUFFICES ASSUME LatestInv, [Next]_vars PROVE LatestInv'
    OBVIOUS
  <1>1. TypeOK' /\ Singles'
    BY TypeStep, SinglesStep DEF LatestInv
  <1>2. /\ (shut' # "no" => cancelled') /\ (~cancelled' => ~cancelled)
        /\ ~lost' => ~lost
    BY DEF LatestInv, Next, Push, Debounce, PushFlushed, flushLocked, TimerFires,
       TimerSends, Consume, Receive, writeToChangelog, Appended, AppendFails,
       AppendCancelled, Notify, ConsumerExits, Reconcile, LoopWakes, LoopDrains, LoopRuns,
       LoopReturns, LoopExits, Cancel, Shutdown, PollExits, FlushAll, Flushed, Drain,
       vars, shutVars
  <1>3. ASSUME SendsPromptly, ~lost', ~cancelled', NEW q \in Path, last'[q] # 0
        PROVE  LatestFirst(q)'
    <2>1. last[q] # 0 => LatestFirst(q)
      BY <1>2, <1>3 DEF LatestInv
    <2>2. ASSUME NEW p \in Path, Push(p) PROVE LatestFirst(q)'
      BY <1>3, <2>1, <2>2, LatestPush
    <2>3. CASE Debounce
      <3>1. UNCHANGED last
        BY <2>3 DEF Debounce, PushFlushed, flushLocked, TimerFires, TimerSends, rest
      <3> QED
        BY <1>3, <2>1, <2>3, <3>1, LatestDebounce
    <2>4. CASE Consume
      <3>1. UNCHANGED last
        BY <2>4 DEF Consume, Receive, writeToChangelog, Notify, ConsumerExits, rest
      <3> QED
        BY <1>2, <1>3, <2>1, <2>4, <3>1, LatestConsume
    <2>5. CASE Reconcile \/ Cancel \/ UNCHANGED vars
      <3>1. UNCHANGED <<last, logged, got, out, sending, parked, pending>>
        BY <2>5 DEF Reconcile, LoopWakes, LoopDrains, LoopRuns, LoopReturns, LoopExits,
           Cancel, vars, debouncer, rest
      <3> QED
        BY <1>3, <2>1, <3>1, PlacesKept
    <2>6. CASE Shutdown
      BY <1>2, <1>3, <2>6 DEF LatestInv, Shutdown, PollExits, FlushAll, Flushed, Drain
    <2> QED
      BY <2>2, <2>3, <2>4, <2>5, <2>6 DEF Next
  <1> QED
    BY <1>1, <1>2, <1>3 DEF LatestInv

\* "collapses repeated events for the same path into the latest one" (docs/overview.md;
\* debounce.go:53-110), for any number of paths and events, any limit and any capacity
\* of the channel, if timer callbacks send promptly: no event of a path overtakes a
\* later one on any of the ways to the changelog.
THEOREM LatestIsLoggedLast == Spec => [](SendsPromptly => LatestLoggedLast)
  <1>1. LatestInv => (SendsPromptly => LatestLoggedLast)
    <2> SUFFICES ASSUME LatestInv, SendsPromptly, Settled, ~lost, ~cancelled,
                        NEW p \in Path, last[p] # 0
                 PROVE  LastIn(logged, p)
      BY DEF LatestLoggedLast, LastIn
    <2>1. LatestFirst(p)
      BY DEF LatestInv
    <2>2. pending[p] = 0 /\ parked = {} /\ sending = {} /\ got = {}
      BY DEF Settled, Held
    <2>3. ~LastIn(out, p)
      BY DEF Settled, LastIn
    <2> QED
      BY <2>1, <2>2, <2>3 DEF LatestFirst, LatestFired, LatestSent, LatestConsumed
  <1> QED
    BY <1>1, LatestInit, LatestStep, PTL DEF Spec
================================================================================
