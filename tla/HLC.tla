---------------------------------- MODULE HLC ----------------------------------
(******************************************************************************)
(* The hybrid logical clock of internal/changelog/hlc.go: one process-wide    *)
(* clock (globalHLC), read through HLCNow and merged through HLCReceive, over *)
(* a wall clock that the operating system may step in either direction.       *)
(*                                                                            *)
(* Instants are natural numbers; the Go zero time.Time that a fresh HLC       *)
(* starts from is instant 0 and every wall-clock reading is later than it.    *)
(* The logical counter is a uint32: it is kept modulo LogicalMod (2^32 in the *)
(* program, small in the runs so that the wrap is reached).                   *)
(******************************************************************************)
EXTENDS Naturals

CONSTANTS
    MaxWall,     \* bound: the wall clock reads an instant of 1..MaxWall
    LogicalMod   \* 2^32 in the program: the range of the uint32 counter

ASSUME MaxWallAssumption    == MaxWall \in Nat
ASSUME LogicalModAssumption == LogicalMod \in Nat \ {0}

VARIABLES
    now,        \* what time.Now().UTC() returns (wall clock, no monotonic part)
    physical,   \* globalHLC.physical
    logical,    \* globalHLC.logical
    issued,     \* the last timestamp this process returned
    durable     \* the last timestamp the node returned in any process: what its
                \* changelog, which outlives the process, holds

vars == <<now, physical, logical, issued, durable>>

Wall == 1..MaxWall
Logical == 0..(LogicalMod - 1)
Timestamp == [physical : 0..MaxWall, logical : Logical]

Zero == [physical |-> 0, logical |-> 0]

\* CompareHLC(a, b) < 0: the physical part dominates, the counter breaks ties.
Before(a, b) ==
    \/ a.physical < b.physical
    \/ a.physical = b.physical /\ a.logical < b.logical

\* maxTime: the latest of three instants.
maxTime(a, b, c) ==
    LET m == IF b > a THEN b ELSE a IN IF c > m THEN c ELSE m

\* max32: the larger of two counters.
max32(a, b) == IF a > b THEN a ELSE b

--------------------------------------------------------------------------------
(* What tick and receive leave in the clock.                                  *)

\* Mutant: the wall clock is trusted even when it has stepped back.
TickTrustsWall(h, t) ==
    IF t # h.physical
      THEN [physical |-> t, logical |-> 0]
      ELSE [physical |-> h.physical, logical |-> (h.logical + 1) % LogicalMod]

\* Mutant: the wall clock is never looked at.
TickCountsOnly(h, t) == [physical |-> h.physical,
                         logical  |-> (h.logical + 1) % LogicalMod]

\* Mutant: the counter is not kept within its width.
TickUnbounded(h, t) ==
    IF t > h.physical
      THEN [physical |-> t, logical |-> 0]
      ELSE [physical |-> h.physical, logical |-> h.logical + 1]

\* tick(now)
Tick(h, t) ==
    IF t > h.physical
      THEN [physical |-> t, logical |-> 0]
      ELSE [physical |-> h.physical, logical |-> (h.logical + 1) % LogicalMod]

\* Mutant: on equal physical parts only the local counter is advanced.
ReceiveIgnoresRemoteCounter(h, t, r) ==
    LET m == maxTime(t, h.physical, r.physical)
    IN  [physical |-> m,
         logical  |-> IF m = h.physical THEN (h.logical + 1) % LogicalMod
                      ELSE IF m = r.physical THEN (r.logical + 1) % LogicalMod
                      ELSE 0]

\* receive(now, rPhys, rLog)
Receive(h, t, r) ==
    LET m == maxTime(t, h.physical, r.physical)
    IN  [physical |-> m,
         logical  |->
            IF m = h.physical /\ m = r.physical
              THEN (max32(h.logical, r.logical) + 1) % LogicalMod
            ELSE IF m = h.physical THEN (h.logical + 1) % LogicalMod
            ELSE IF m = r.physical THEN (r.logical + 1) % LogicalMod
            ELSE 0]

--------------------------------------------------------------------------------
Clock == [physical |-> physical, logical |-> logical]

Init ==
    /\ now \in Wall
    /\ physical = 0
    /\ logical = 0
    /\ issued = Zero
    /\ durable = Zero

\* The clock takes the value h and returns it formatted.
Issue(h) ==
    /\ physical' = h.physical
    /\ logical' = h.logical
    /\ issued' = h
    /\ durable' = h
    /\ UNCHANGED now

HLCNow == Issue(Tick(Clock, now))

HLCReceive(r) == Issue(Receive(Clock, now, r))

\* The wall clock runs, is stepped forward, or is stepped back by NTP.
WallStep ==
    /\ now' \in Wall \ {now}
    /\ UNCHANGED <<physical, logical, issued, durable>>

\* A new process starts with globalHLC = &HLC{}: nothing re-seeds the clock from
\* the changelog.
Restart ==
    /\ physical' = 0
    /\ logical' = 0
    /\ issued' = Zero
    /\ UNCHANGED <<now, durable>>

Next ==
    \/ HLCNow
    \/ \E r \in Timestamp : HLCReceive(r)
    \/ WallStep
    \/ Restart

Spec == Init /\ [][Next]_vars

--------------------------------------------------------------------------------
(* Properties.                                                                *)

TypeOK ==
    /\ now \in Wall
    /\ physical \in 0..MaxWall
    /\ logical \in Logical
    /\ issued \in Timestamp
    /\ durable \in Timestamp

\* The counter that HLCNow is about to advance is at the end of its range.
AboutToWrap == logical = LogicalMod - 1

\* HLCNow (tick): however the wall clock is stepped between two calls, the
\* timestamp it returns is later than every one the process returned before; the
\* one exception is the uint32 counter wrapping while the wall clock stands still
\* or is behind (hlc.go:69).
NowAdvances == [][HLCNow => AboutToWrap \/ Before(issued, issued')]_vars

\* HLCReceive (receive): the timestamp it returns is later than both the received
\* one and every one the process returned before, unless a counter wraps
\* (hlc.go:82-86).
ReceiveDominates ==
    [][\A r \in Timestamp :
         HLCReceive(r) /\ ~AboutToWrap /\ r.logical # LogicalMod - 1
           => Before(issued, issued') /\ Before(r, issued')]_vars

\* Across restarts: although every process starts from the zero clock (hlc.go:20),
\* the first stamp after the wall clock has passed the last one in the changelog is
\* later than it, however many processes and received stamps lie in between.
RestartCatchesUp ==
    [][HLCNow /\ now > durable.physical => Before(durable, durable')]_vars

\* "each node's HLC advances monotonically" (docs/overview.md): the timestamps of
\* one node's changelog never go back, across restarts too.  It fails: hlc.go:20
\* starts every process from the zero clock, below what the changelog holds.
NodeAdvances == [][HLCNow => AboutToWrap \/ ~Before(durable', durable)]_vars
================================================================================
