-------------------------------- MODULE Watcher --------------------------------
(******************************************************************************)
(* From a fanotify event to a reconcile cycle, on one node and for one sync   *)
(* pair: the debouncer (internal/watcher/debounce.go), the goroutines of      *)
(* watcher.go around it, the reconcile loop of internal/daemon/daemon.go that *)
(* they wake, and the FlushAll of a graceful shutdown.                        *)
(*                                                                            *)
(* An event is a path and a serial number; its type and metadata are not      *)
(* looked at here.  Time is abstracted: the timer of a pending entry may fire *)
(* at any moment (Reset and stray timers, which find no entry or a newer one, *)
(* then need no state).  out holds the channel's buffer followed by the       *)
(* goroutines blocked in a send, which Go serves in order.                    *)
(******************************************************************************)
EXTENDS Naturals, Sequences, FiniteSets, SequencesExt

CONSTANTS
    Path,          \* paths of the sync pair
    OutCap,        \* capacity of the channel out (1024)
    Limits,        \* the values of maxDebounceEntries to consider (100 000)
    NotifyCap,     \* reconcileChanCap (8)
    SendsPromptly, \* TRUE: a timer callback reaches its send before the next event
                   \* of its path leaves the debouncer
    MayStop,       \* TRUE: the daemon may be told to shut down
    MaxEvents,     \* bound: fanotify events
    MaxFaults      \* bound: failed appends and failed cycles

ASSUME CapAssumption ==
    /\ OutCap \in Nat \ {0} /\ Limits \subseteq Nat \ {0}
    /\ NotifyCap \in Nat \ {0}
ASSUME SwitchAssumption == SendsPromptly \in BOOLEAN /\ MayStop \in BOOLEAN
ASSUME LimitAssumption == MaxEvents \in Nat /\ MaxFaults \in Nat

VARIABLES
    pending,    \* pending[p]: the entry of p in the debouncer, 0 without one
    mu,         \* who holds the debouncer's mutex across a flush, or "free"
    parked,     \* the event Push will add once its flush is over, or {}
    sending,    \* events taken by timer callbacks and not sent yet
    out,        \* the channel of coalesced events
    poll,       \* the poll loop: "run" or "exited"
    consumer,   \* the debounce consumer: "receive", "write", "notify", "exited"
    got,        \* the event the consumer is writing, or {}
    logged,     \* the changelog: the events appended, in order
    notify,     \* tokens in notifyCh2
    loop,       \* reconcileLoop: "wait", "drain", "run", "busy" or "exited"
    seen,       \* history: length of the changelog a cycle last read
    missed,     \* history: the last cycle failed before it read the changelog
    cancelled,  \* the daemon's context is cancelled
    shut,       \* Daemon.shutdown: "no", "flush", "drain" or "done"
    due,        \* history: events in the debouncer and in out when FlushAll began
    alone,      \* history: the consumer had exited when FlushAll began
    lost,       \* history: an append has failed
    last,       \* history: last[p], the latest event of p
    limit,      \* maxDebounceEntries
    events, faults   \* counters for the bounds

debouncer == <<pending, mu, parked, sending>>
loopVars == <<loop, seen, missed>>
shutVars == <<cancelled, shut, due, alone>>
rest == <<limit, last, events>>
vars == <<pending, mu, parked, sending, out, poll, consumer, got, logged, notify,
          loop, seen, missed, cancelled, shut, due, alone, lost, last, limit,
          events, faults>>

Event == [path : Path, ev : 1..MaxEvents]
Of(p, e) == [path |-> p, ev |-> e]
Held == {p \in Path : pending[p] # 0}

Init ==
    /\ pending = [p \in Path |-> 0]
    /\ mu = "free" /\ parked = {} /\ sending = {} /\ out = <<>>
    /\ poll = "run"
    /\ consumer = "receive" /\ got = {}
    /\ logged = <<>> /\ notify = 0
    /\ loop = "wait" /\ seen = 0 /\ missed = FALSE
    /\ cancelled = FALSE /\ shut = "no" /\ due = {} /\ alone = FALSE
    /\ lost = FALSE
    /\ last = [p \in Path |-> 0]
    /\ limit \in Limits
    /\ events = 0 /\ faults = 0

--------------------------------------------------------------------------------
(* The debouncer                                                              *)

\* Mutant: the first event of a window is kept, not the latest.
PushKeepsFirst(p) ==
    /\ poll = "run" /\ parked = {} /\ mu = "free"
    /\ events < MaxEvents
    /\ events' = events + 1
    /\ last' = [last EXCEPT ![p] = events + 1]
    /\ pending' = [pending EXCEPT ![p] = IF @ = 0 THEN events + 1 ELSE @]
    /\ UNCHANGED <<mu, parked, sending, out, poll, consumer, got, logged, notify,
                   loopVars, shutVars, lost, limit, faults>>

\* processEvent pushes an event of p.  With too many entries Push flushes them all
\* first, keeping the mutex.
Push(p) ==
    /\ poll = "run" /\ parked = {} /\ mu = "free"
    /\ events < MaxEvents
    /\ events' = events + 1
    /\ last' = [last EXCEPT ![p] = events + 1]
    /\ IF Cardinality(Held) >= limit
         THEN /\ mu' = "push" /\ parked' = {Of(p, events + 1)}
              /\ UNCHANGED pending
         ELSE /\ pending' = [pending EXCEPT ![p] = events + 1]
              /\ UNCHANGED <<mu, parked>>
    /\ UNCHANGED <<sending, out, poll, consumer, got, logged, notify, loopVars,
                   shutVars, lost, limit, faults>>

PushFlushed ==
    /\ mu = "push" /\ Held = {}
    /\ \E e \in parked : pending' = [pending EXCEPT ![e.path] = e.ev]
    /\ mu' = "free" /\ parked' = {}
    /\ UNCHANGED <<sending, out, poll, consumer, got, logged, notify, loopVars,
                   shutVars, lost, rest, faults>>

InOrder(p) == SendsPromptly => \A s \in sending : s.path # p

\* One round of flushLocked: the send blocks while the channel is full.
flushLocked(p) ==
    /\ mu # "free"
    /\ pending[p] # 0
    /\ InOrder(p)
    /\ Len(out) < OutCap
    /\ out' = Append(out, Of(p, pending[p]))
    /\ pending' = [pending EXCEPT ![p] = 0]
    /\ UNCHANGED <<mu, parked, sending, poll, consumer, got, logged, notify,
                   loopVars, shutVars, lost, rest, faults>>

\* The timer callback removes the entry under the mutex ...
TimerFires(p) ==
    /\ mu = "free"
    /\ pending[p] # 0
    /\ InOrder(p)
    /\ sending' = sending \cup {Of(p, pending[p])}
    /\ pending' = [pending EXCEPT ![p] = 0]
    /\ UNCHANGED <<mu, parked, out, poll, consumer, got, logged, notify, loopVars,
                   shutVars, lost, rest, faults>>

\* ... and sends it without the mutex.
TimerSends(s) ==
    /\ s \in sending
    /\ sending' = sending \ {s}
    /\ out' = Append(out, s)
    /\ UNCHANGED <<pending, mu, parked, poll, consumer, got, logged, notify,
                   loopVars, shutVars, lost, rest, faults>>

--------------------------------------------------------------------------------
(* The consumer goroutine of run                                              *)

\* Mutant: receiving needs the mutex.
ReceiveLocked ==
    /\ consumer = "receive" /\ mu = "free"
    /\ out # <<>>
    /\ got' = {Head(out)}
    /\ out' = Tail(out)
    /\ consumer' = "write"
    /\ UNCHANGED <<debouncer, poll, logged, notify, loopVars, shutVars, lost,
                   rest, faults>>

\* The select takes an event although the context may be cancelled.
Receive ==
    /\ consumer = "receive"
    /\ out # <<>>
    /\ got' = {Head(out)}
    /\ out' = Tail(out)
    /\ consumer' = "write"
    /\ UNCHANGED <<debouncer, poll, logged, notify, loopVars, shutVars, lost,
                   rest, faults>>

\* Append fails, and the event is dropped: an SQL error.
AppendFails ==
    /\ faults < MaxFaults /\ faults' = faults + 1
    /\ lost' = TRUE
    /\ UNCHANGED logged

Appended(e) == logged' = Append(logged, e) /\ UNCHANGED <<lost, faults>>

\* With a cancelled context Append fails, unless it was past the point already.
AppendCancelled == cancelled /\ UNCHANGED <<logged, lost, faults>>

writeToChangelog ==
    /\ consumer = "write"
    /\ \E e \in got : Appended(e) \/ AppendFails \/ AppendCancelled
    /\ got' = {}
    /\ consumer' = "notify"
    /\ UNCHANGED <<debouncer, out, poll, notify, loopVars, shutVars, rest>>

\* Mutant: an unbuffered notifyCh, whose token is lost on a busy loop.
NotifyUnbuffered ==
    /\ consumer = "notify"
    /\ notify' = IF loop = "wait" THEN 1 ELSE notify
    /\ consumer' = "receive"
    /\ UNCHANGED <<debouncer, out, poll, got, logged, loopVars, shutVars, lost,
                   rest, faults>>

\* A token for the reconcile loop, dropped when the channel is full.
Notify ==
    /\ consumer = "notify"
    /\ notify' = IF notify < NotifyCap THEN notify + 1 ELSE notify
    /\ consumer' = "receive"
    /\ UNCHANGED <<debouncer, out, poll, got, logged, loopVars, shutVars, lost,
                   rest, faults>>

ConsumerExits ==
    /\ cancelled /\ consumer = "receive"
    /\ consumer' = "exited"
    /\ UNCHANGED <<debouncer, out, poll, got, logged, notify, loopVars, shutVars,
                   lost, rest, faults>>

--------------------------------------------------------------------------------
(* reconcileLoop                                                              *)

\* A token or the ticker starts a cycle; a token has the others drained first.
LoopWakes ==
    /\ loop = "wait"
    /\ \/ notify > 0 /\ notify' = notify - 1 /\ loop' = "drain"
       \/ UNCHANGED notify /\ loop' = "run"
    /\ UNCHANGED <<debouncer, out, poll, consumer, got, logged, seen, missed,
                   shutVars, lost, rest, faults>>

\* Mutant: one token too many is drained.
LoopDrainsOneMore ==
    /\ loop = "drain"
    /\ IF notify + 1 > 0 THEN notify' = notify - 1 /\ UNCHANGED loop
                         ELSE loop' = "run" /\ UNCHANGED notify
    /\ UNCHANGED <<debouncer, out, poll, consumer, got, logged, seen, missed,
                   shutVars, lost, rest, faults>>

LoopDrains ==
    /\ loop = "drain"
    /\ IF notify > 0 THEN notify' = notify - 1 /\ UNCHANGED loop
                     ELSE loop' = "run" /\ UNCHANGED notify
    /\ UNCHANGED <<debouncer, out, poll, consumer, got, logged, seen, missed,
                   shutVars, lost, rest, faults>>

\* Run reads the changelog and goes on to its transfers, or returns an error before.
LoopRuns ==
    /\ loop = "run"
    /\ \/ /\ seen' = Len(logged) /\ missed' = FALSE /\ loop' = "busy"
          /\ UNCHANGED faults
       \/ /\ faults < MaxFaults /\ faults' = faults + 1
          /\ missed' = TRUE /\ loop' = "wait"
          /\ UNCHANGED seen
    /\ UNCHANGED <<debouncer, out, poll, consumer, got, logged, notify, shutVars,
                   lost, rest>>

\* Run returns, with or without an error.
LoopReturns ==
    /\ loop = "busy"
    /\ loop' = "wait"
    /\ UNCHANGED <<debouncer, out, poll, consumer, got, logged, notify, seen,
                   missed, shutVars, lost, rest, faults>>

LoopExits ==
    /\ cancelled /\ loop = "wait"
    /\ loop' = "exited"
    /\ UNCHANGED <<debouncer, out, poll, consumer, got, logged, notify, seen,
                   missed, shutVars, lost, rest, faults>>

--------------------------------------------------------------------------------
(* Shutdown                                                                   *)

\* A signal cancels the daemon's context.
Cancel ==
    /\ MayStop /\ ~cancelled
    /\ cancelled' = TRUE
    /\ UNCHANGED <<debouncer, out, poll, consumer, got, logged, notify, loopVars,
                   shut, due, alone, lost, rest, faults>>

\* The stopper pipe wakes pollLoop.
PollExits ==
    /\ cancelled /\ poll = "run" /\ parked = {}
    /\ poll' = "exited"
    /\ UNCHANGED <<debouncer, out, consumer, got, logged, notify, loopVars,
                   shutVars, lost, rest, faults>>

\* shutdown calls FlushAll, which calls Flush: the mutex is taken ...
FlushAll ==
    /\ cancelled /\ shut = "no" /\ mu = "free"
    /\ shut' = "flush" /\ mu' = "flush"
    /\ due' = {Of(p, pending[p]) : p \in Held} \cup ToSet(out)
    /\ alone' = (consumer = "exited")
    /\ UNCHANGED <<pending, parked, sending, out, poll, consumer, got, logged,
                   notify, loopVars, cancelled, lost, rest, faults>>

\* ... and released when flushLocked is through.
Flushed ==
    /\ shut = "flush" /\ mu = "flush" /\ Held = {}
    /\ shut' = "drain" /\ mu' = "free"
    /\ UNCHANGED <<pending, parked, sending, out, poll, consumer, got, logged,
                   notify, loopVars, cancelled, due, alone, lost, rest,
                   faults>>

\* Mutant: FlushAll does not drain the channel.
DrainNothing ==
    /\ shut = "drain"
    /\ shut' = "done"
    /\ UNCHANGED <<debouncer, out, poll, consumer, got, logged, notify, loopVars,
                   cancelled, due, alone, lost, rest, faults>>

\* Mutant: the drain ranges over the channel, which nobody closes.
DrainToTheEnd ==
    /\ shut = "drain" /\ out # <<>>
    /\ Appended(Head(out)) \/ AppendFails
    /\ out' = Tail(out)
    /\ UNCHANGED <<debouncer, poll, consumer, got, notify, loopVars, shutVars,
                   rest>>

\* FlushAll writes what it finds in the channel, under a context of its own, and
\* stops at the first moment the channel is empty.
Drain ==
    /\ shut = "drain"
    /\ IF out = <<>>
         THEN shut' = "done" /\ UNCHANGED <<out, logged, lost, faults>>
         ELSE /\ Appended(Head(out)) \/ AppendFails
              /\ out' = Tail(out)
              /\ UNCHANGED shut
    /\ UNCHANGED <<debouncer, poll, consumer, got, notify, loopVars, cancelled,
                   due, alone, rest>>

--------------------------------------------------------------------------------
Debounce ==
    \/ PushFlushed
    \/ \E p \in Path : flushLocked(p)
    \/ \E p \in Path : TimerFires(p)
    \/ \E s \in sending : TimerSends(s)

Consume == Receive \/ writeToChangelog \/ Notify \/ ConsumerExits

Reconcile == LoopWakes \/ LoopDrains \/ LoopRuns \/ LoopReturns \/ LoopExits

Shutdown == PollExits \/ FlushAll \/ Flushed \/ Drain

Next ==
    \/ \E p \in Path : Push(p)
    \/ Debounce
    \/ Consume
    \/ Reconcile
    \/ Cancel
    \/ Shutdown

Spec == Init /\ [][Next]_vars

\* Timers fire, the 30-second ticker ticks, and no goroutine is starved; events
\* and the shutdown signal need not come.
Fairness ==
    WF_vars(Debounce) /\ WF_vars(Consume) /\ WF_vars(Reconcile)
    /\ WF_vars(Shutdown)

FairSpec == Spec /\ Fairness

--------------------------------------------------------------------------------
(* Properties                                                                 *)

TypeOK ==
    /\ pending \in [Path -> 0..MaxEvents]
    /\ mu \in {"free", "push", "flush"}
    /\ parked \subseteq Event /\ sending \subseteq Event
    /\ out \in Seq(Event) /\ logged \in Seq(Event)
    /\ poll \in {"run", "exited"}
    /\ consumer \in {"receive", "write", "notify", "exited"}
    /\ got \subseteq Event
    /\ notify \in 0..NotifyCap
    /\ loop \in {"wait", "drain", "run", "busy", "exited"}
    /\ seen \in 0..Len(logged)
    /\ missed \in BOOLEAN /\ cancelled \in BOOLEAN
    /\ alone \in BOOLEAN /\ lost \in BOOLEAN
    /\ shut \in {"no", "flush", "drain", "done"}
    /\ due \subseteq Event
    /\ last \in [Path -> 0..MaxEvents] /\ limit \in Limits
    /\ events \in 0..MaxEvents /\ faults \in 0..MaxFaults

\* No event is between the kernel and the changelog.
Settled == Held = {} /\ parked = {} /\ sending = {} /\ out = <<>> /\ got = {}

\* "collapses repeated events for the same path into the latest one"
\* (docs/overview.md): once nothing is on its way, the newest entry of each path is
\* its latest event, although a timer, a flush at the limit and the poll loop
\* compete for the path.  It needs SendsPromptly (debounce.go:53-110).
LatestLoggedLast ==
    Settled /\ ~lost /\ ~cancelled =>
        \A p \in Path : last[p] # 0 =>
            \E i \in DOMAIN logged :
                /\ logged[i] = Of(p, last[p])
                /\ \A j \in DOMAIN logged : j > i => logged[j].path # p

\* No lost wake-up: while the changelog holds an entry no cycle has read, a token is
\* waiting or about to be sent, or a cycle is about to read; only a failed cycle is
\* left to the ticker (watcher.go:151-164, daemon.go:157-179).
NoMissedWakeup ==
    ~cancelled /\ seen < Len(logged) =>
        notify > 0 \/ consumer = "notify" \/ loop \in {"drain", "run"} \/ missed

\* Every event reaches the changelog and a cycle unless the daemon is stopped first:
\* Push, which may flush with the mutex held, the timers, the consumer and the loop
\* never wait for each other in a circle (debounce.go:59-61, 101).
AllDelivered == <>[](cancelled \/ (Settled /\ seen = Len(logged)))

\* A shutdown gets through FlushAll, except in the one circle there is: the flush of
\* FlushAll, or of a Push at the limit, has entries left, the channel is full and
\* its only reader has exited (debounce.go:59-61, 91-110; watcher.go:90-104).
FlushStuck ==
    mu # "free" /\ Held # {} /\ Len(out) >= OutCap /\ consumer = "exited"
ShutdownEndsOrStuck == cancelled ~> (shut = "done" \/ FlushStuck)

\* "FlushAll flushes all debounce buffers and drains pending events into changelog"
\* (watcher.go:90): true when the consumer has already gone ...
FlushAllComplete ==
    shut = "done" /\ alone /\ ~lost => due \subseteq ToSet(logged)

\* ... and false otherwise: the consumer may take an event out of the channel and
\* write it under the cancelled context.
FlushAllDrains == shut = "done" /\ ~lost => due \subseteq ToSet(logged)

\* "Flush immediately emits all pending events" (debounce.go:91).  It fails: with
\* more entries than the channel holds and the consumer gone, Flush blocks for ever
\* and so does the shutdown.
ShutdownEnds == cancelled ~> shut = "done"
================================================================================
