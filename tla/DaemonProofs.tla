------------------------------- MODULE DaemonProofs ----------------------------
(******************************************************************************)
(* Proofs about Daemon, for any number of workers, any capacity of the job    *)
(* channel and any bounds: its type invariant, that a closed pool is drained, *)
(* that the scan never meets a closed database, and that no panic comes       *)
(* before the shutdown time is recorded.                                      *)
(*                                                                            *)
(* Each of the three depends on the order of the shutdown: the invariant says *)
(* what has been done when main is at a given point, and which points can be  *)
(* reached without recording (a failed start, when there is no loop to send   *)
(* on the channel).                                                           *)
(******************************************************************************)
EXTENDS Daemon, TLAPS

--------------------------------------------------------------------------------
(* The inductive invariant                                                    *)

Unrecorded == {"start", "run", "flush", "record"}
Returning == {"deferred", "leaving", "exited"}

\* Until the time is recorded the channel is open, or Run returns from a failed start,
\* without a loop: nobody can panic.
Order ==
    /\ main = "start" => loop = "none"
    /\ recorded = "no" =>
         /\ panic = "no" /\ db = "open"
         /\ \/ main \in Unrecorded /\ ~closed
            \/ main \in Returning /\ loop = "none" /\ (main = "deferred" => ~closed)

\* A worker that has returned is idle, and leaves nothing in the closed channel.
Drained ==
    /\ \A w \in gone : busy[w] = 0
    /\ gone # {} => closed /\ jobs = <<>>

\* What main has waited for.
Waited ==
    /\ main \in {"background", "db"} \/ db = "closed" => gone = Worker
    /\ main = "db" \/ db = "closed" => scan # "walk"

Inv == TypeOK /\ Order /\ Drained /\ Waited

LEMMA InvInit == Init => Inv
  <1> SUFFICES ASSUME Init PROVE Inv
    OBVIOUS
  <1> USE DEF Init
  <1>1. TypeOK
    <2>1. <<>> \in Seq(Nat \ {0}) /\ Len(<<>>) <= QueueCap
      BY PoolAssumption
    <2>2. 0 \in 0..MaxKeys /\ 0 \in 0..MaxFaults
      BY CountAssumption
    <2> QED
      BY <2>1, <2>2 DEF TypeOK, MainAt, LoopAt
  <1>2. Order
    BY DEF Order, Unrecorded
  <1>3. Drained /\ Waited
    BY DEF Drained, Waited
  <1> QED
    BY <1>1, <1>2, <1>3 DEF Inv

--------------------------------------------------------------------------------
(* Counters and the queue                                                     *)

LEMMA CountDown ==
    ASSUME NEW n \in Nat, NEW k \in 0..n, k > 0
    PROVE  k - 1 \in 0..n
  OBVIOUS

LEMMA CountUp ==
    ASSUME NEW n \in Nat, NEW k \in 0..n, k < n
    PROVE  k + 1 \in 0..n
  OBVIOUS

LEMMA QueueHead ==
    ASSUME NEW S, NEW s \in Seq(S), NEW n \in Nat, Len(s) <= n, s # <<>>
    PROVE  Head(s) \in S /\ Tail(s) \in Seq(S) /\ Len(Tail(s)) <= n
  OBVIOUS

LEMMA QueueAppend ==
    ASSUME NEW S, NEW s \in Seq(S), NEW n \in Nat, Len(s) < n, NEW e \in S
    PROVE  Append(s, e) \in Seq(S) /\ Len(Append(s, e)) <= n
  OBVIOUS

--------------------------------------------------------------------------------
(* The type invariant                                                         *)

LEMMA TypePool ==
    ASSUME TypeOK, NEW w \in Worker, Pool(w)
    PROVE  TypeOK'
  <1> USE DEF mainVars, loopVars, scanVars, serverVars
  <1>1. CASE Take(w)
    <2>1. jobs \in Seq(Nat \ {0}) /\ Len(jobs) <= QueueCap /\ jobs # <<>>
      BY <1>1 DEF Take, TypeOK
    <2>2. /\ Head(jobs) \in Nat \ {0} /\ Tail(jobs) \in Seq(Nat \ {0})
          /\ Len(Tail(jobs)) <= QueueCap
      BY <2>1, PoolAssumption, QueueHead
    <2> QED
      BY <1>1, <2>2, ZenonT(30) DEF Take, TypeOK
  <1>2. CASE Finish(w)
    BY <1>2, ZenonT(30) DEF Finish, TypeOK
  <1>3. CASE Return(w)
    BY <1>3 DEF Return, TypeOK
  <1> QED
    BY <1>1, <1>2, <1>3 DEF Pool

\* A step of the loop that only moves the loop.
LEMMA TypeLoop ==
    ASSUME TypeOK, LoopKeeps, loop' \in LoopAt, keys' \in 0..MaxKeys, mine' \in Nat,
           UNCHANGED hung
    PROVE  TypeOK'
  BY ZenonT(30) DEF TypeOK, LoopKeeps, mainVars, poolVars, scanVars, serverVars

LEMMA TypeReconcile ==
    ASSUME TypeOK, Reconcile
    PROVE  TypeOK'
  <1>a. keys \in 0..MaxKeys /\ mine \in Nat /\ loop \in LoopAt
    BY DEF TypeOK
  <1>0. /\ keys \in 0..MaxKeys /\ mine \in Nat /\ loop \in LoopAt
        /\ keys > 0 => keys - 1 \in 0..MaxKeys
    BY <1>a, CountAssumption, CountDown
  <1>1. CASE CycleStarts
    BY <1>0, <1>1, TypeLoop DEF CycleStarts, LoopAt
  <1>2. CASE ReadEntries
    <2>1. keys' \in 0..MaxKeys /\ loop' \in {"work", "wait"}
      BY <1>0, <1>2 DEF ReadEntries
    <2> QED
      BY <1>0, <1>2, <2>1, TypeLoop DEF ReadEntries, LoopAt
  <1>3. CASE HandleKey
    BY <1>0, <1>3, TypeLoop DEF HandleKey, LoopAt
  <1>4. CASE StartSend
    BY <1>0, <1>4, TypeLoop DEF StartSend, LoopAt
  <1>5. CASE Submit
    <2>1. /\ submitted + 1 \in Nat \ {0}
          /\ Append(jobs, submitted + 1) \in Seq(Nat \ {0})
          /\ Len(Append(jobs, submitted + 1)) <= QueueCap
      <3>1. jobs \in Seq(Nat \ {0}) /\ Len(jobs) < QueueCap /\ submitted \in Nat
        BY <1>5 DEF Submit, TypeOK
      <3>2. submitted + 1 \in Nat \ {0}
        BY <3>1
      <3> QED
        BY <3>1, <3>2, PoolAssumption, QueueAppend
    <2> QED
      BY <1>5, <2>1 DEF Submit, TypeOK, LoopAt, mainVars, scanVars, serverVars
  <1>6. CASE SubmitPanics
    BY <1>6 DEF SubmitPanics, TypeOK, mainVars, loopVars, poolVars, scanVars, serverVars
  <1>7. CASE SendReturns
    BY <1>0, <1>7, TypeLoop DEF SendReturns, LoopAt
  <1>8. CASE HandlersReturn
    BY <1>0, <1>8, TypeLoop DEF HandlersReturn, LoopAt
  <1>9. CASE MarkEntries
    BY <1>0, <1>9, TypeLoop DEF MarkEntries, LoopAt
  <1>10. CASE LoopExits
    BY <1>0, <1>10, TypeLoop DEF LoopExits, LoopAt
  <1> QED
    BY <1>1, <1>2, <1>3, <1>4, <1>5, <1>6, <1>7, <1>8, <1>9, <1>10 DEF Reconcile

LEMMA FaultType ==
    ASSUME TypeOK, Fault
    PROVE  faults' \in 0..MaxFaults
  <1>1. faults \in 0..MaxFaults /\ faults < MaxFaults /\ faults' = faults + 1
    BY DEF TypeOK, Fault
  <1> QED
    BY <1>1, CountAssumption, CountUp

\* A step of main that only moves main, or also records the time, closes the database
\* or the channel.
LEMMA TypeMain ==
    ASSUME TypeOK, MainKeeps, main' \in MainAt, cancelled' \in BOOLEAN,
           recorded' \in {"no", "done", "failed"}, db' \in {"open", "closed"},
           faults' \in 0..MaxFaults,
           \/ UNCHANGED panic /\ UNCHANGED poolVars
           \/ CloseJobs
    PROVE  TypeOK'
  <1>1. CASE UNCHANGED panic /\ UNCHANGED poolVars
    BY <1>1 DEF TypeOK, MainKeeps, loopVars, poolVars, scanVars, serverVars
  <1>2. CASE CloseJobs
    <2>1. panic' \in {"no", "close of closed channel", "send on closed channel"}
      BY <1>2 DEF CloseJobs, TypeOK
    <2> QED
      BY <1>2, <2>1 DEF CloseJobs, TypeOK, MainKeeps, loopVars, scanVars, serverVars
  <1> QED
    BY <1>1, <1>2

LEMMA TypeShutdown ==
    ASSUME TypeOK, Shutdown
    PROVE  TypeOK'
  <1>0. /\ cancelled \in BOOLEAN /\ recorded \in {"no", "done", "failed"}
        /\ db \in {"open", "closed"} /\ faults \in 0..MaxFaults
    BY DEF TypeOK
  <1> USE TypeMain DEF MainGoes, MainAt
  <1>1. CASE BeginShutdown
    BY <1>0, <1>1 DEF BeginShutdown
  <1>2. CASE FlushAll
    BY <1>0, <1>2 DEF FlushAll
  <1>3. CASE RecordShutdown
    <2>1. recorded' \in {"no", "done", "failed"} /\ faults' \in 0..MaxFaults
      BY <1>0, <1>3, FaultType DEF RecordShutdown
    <2> QED
      BY <1>0, <1>3, <2>1 DEF RecordShutdown
  <1>4. CASE ClosePool
    BY <1>0, <1>4 DEF ClosePool
  <1>5. CASE PoolClosed
    BY <1>0, <1>5 DEF PoolClosed
  <1>6. CASE AwaitBackground
    BY <1>0, <1>6 DEF AwaitBackground
  <1>7. CASE CloseStore
    BY <1>0, <1>7 DEF CloseStore
  <1>8. CASE RunDeferred
    BY <1>0, <1>8 DEF RunDeferred
  <1>9. CASE Exit
    BY <1>0, <1>9 DEF Exit
  <1> QED
    BY <1>1, <1>2, <1>3, <1>4, <1>5, <1>6, <1>7, <1>8, <1>9 DEF Shutdown

LEMMA TypeStep ==
    ASSUME TypeOK, [Next]_vars
    PROVE  TypeOK'
  <1> USE DEF mainVars, loopVars, poolVars, scanVars, serverVars
  <1>1. CASE \E w \in Worker : Pool(w)
    BY <1>1, TypePool
  <1>2. CASE Reconcile
    BY <1>2, TypeReconcile
  <1>3. CASE CommandHangs
    BY <1>3, FaultType DEF CommandHangs, TypeOK
  <1>4. CASE Scan
    <2>1. CASE ScanAppend
      <3>1. files \in 0..MaxFiles /\ files > 0 /\ files' = files - 1
        BY <2>1 DEF ScanAppend, TypeOK
      <3>2. files' \in 0..MaxFiles
        BY <3>1, CountAssumption, CountDown
      <3> QED
        BY <2>1, <3>2 DEF ScanAppend, TypeOK
    <2>2. CASE ScanEnds
      BY <2>2 DEF ScanEnds, TypeOK
    <2> QED
      BY <1>4, <2>1, <2>2 DEF Scan
  <1>5. CASE Serve
    <2>1. CASE HandlerReturns
      BY <2>1 DEF HandlerReturns, TypeOK
    <2>2. CASE GracefulStop
      BY <2>2 DEF GracefulStop, TypeOK
    <2> QED
      BY <1>5, <2>1, <2>2 DEF Serve
  <1>6. CASE HandlerStarts
    BY <1>6 DEF HandlerStarts, TypeOK
  <1>7. CASE Start
    <2>1. CASE Started
      BY <2>1, ZenonT(30) DEF Started, TypeOK, MainAt, LoopAt
    <2>2. CASE StartFails
      <3>1. main' \in MainAt /\ faults' \in 0..MaxFaults
        BY <2>2, FaultType DEF StartFails, MainAt
      <3> QED
        BY <2>2, <3>1, TypeMain DEF StartFails, TypeOK
    <2> QED
      BY <1>7, <2>1, <2>2 DEF Start
  <1>8. CASE Cancel
    BY <1>8, TypeMain DEF Cancel, TypeOK
  <1>9. CASE Shutdown
    BY <1>9, TypeShutdown
  <1>10. CASE UNCHANGED vars
    BY <1>10, ZenonT(30) DEF vars, TypeOK
  <1> QED
    BY <1>1, <1>2, <1>3, <1>4, <1>5, <1>6, <1>7, <1>8, <1>9, <1>10 DEF Next

--------------------------------------------------------------------------------
(* Each action keeps the rest of the invariant                                *)

\* The workers: one that takes a job finds the queue not empty, so that none has gone.
LEMMA KeptByPool ==
    ASSUME Inv, NEW w \in Worker, Pool(w)
    PROVE  Order' /\ Drained' /\ Waited'
  <1> USE DEF mainVars, loopVars, scanVars, serverVars
  <1>1. UNCHANGED <<main, recorded, panic, loop, db, closed, scan>>
    BY DEF Pool, Take, Finish, Return
  <1>2. Order'
    BY <1>1 DEF Inv, Order
  <1>3. Drained' /\ (gone = Worker => gone' = Worker)
    <2>1. CASE Take(w)
      BY <2>1 DEF Take, Inv, Drained, TypeOK
    <2>2. CASE Finish(w)
      BY <2>2 DEF Finish, Inv, Drained, TypeOK
    <2>3. CASE Return(w)
      BY <2>3 DEF Return, Inv, Drained, TypeOK
    <2> QED
      BY <2>1, <2>2, <2>3 DEF Pool
  <1>4. Waited'
    BY <1>1, <1>3 DEF Inv, Waited
  <1> QED
    BY <1>2, <1>3, <1>4

\* The loop: while it runs and no time is recorded the channel is open, so that a send
\* on a closed channel comes after RecordShutdown.
LEMMA KeptByReconcile ==
    ASSUME Inv, Reconcile
    PROVE  Order' /\ Drained' /\ Waited'
  <1> USE DEF mainVars, loopVars, poolVars, scanVars, serverVars
  <1>1. loop # "none" /\ UNCHANGED <<main, recorded, closed, gone, busy, db, scan>>
    BY DEF Reconcile, CycleStarts, ReadEntries, HandleKey, StartSend, Submit,
           SubmitPanics, SendReturns, HandlersReturn, MarkEntries, LoopExits, LoopKeeps
  <1>2. Waited'
    BY <1>1 DEF Inv, Waited
  <1>3. Drained'
    <2>1. UNCHANGED jobs \/ ~closed
      BY DEF Reconcile, CycleStarts, ReadEntries, HandleKey, StartSend, Submit,
             SubmitPanics, SendReturns, HandlersReturn, MarkEntries, LoopExits, LoopKeeps
    <2> QED
      BY <1>1, <2>1 DEF Inv, Drained
  <1>4. Order'
    <2>1. UNCHANGED panic \/ closed
      BY DEF Reconcile, CycleStarts, ReadEntries, HandleKey, StartSend, Submit,
             SubmitPanics, SendReturns, HandlersReturn, MarkEntries, LoopExits, LoopKeeps
    <2>2. main # "start" /\ (recorded = "no" => main \in Unrecorded /\ ~closed)
      BY <1>1 DEF Inv, Order
    <2> QED
      BY <1>1, <2>1, <2>2 DEF Inv, Order
  <1> QED
    BY <1>2, <1>3, <1>4

\* The scan, the handlers, a command that hangs and the cancelling of the context.
LEMMA KeptByOthers ==
    ASSUME Inv, CommandHangs \/ Scan \/ Serve \/ HandlerStarts \/ Cancel
    PROVE  Order' /\ Drained' /\ Waited'
  <1> USE DEF mainVars, loopVars, poolVars, scanVars, serverVars
  <1>1. /\ UNCHANGED <<main, recorded, panic, loop, closed, gone, busy, jobs, db>>
        /\ scan' # "walk" \/ UNCHANGED scan
    BY DEF CommandHangs, Scan, ScanAppend, ScanEnds, Serve, HandlerReturns, GracefulStop,
           HandlerStarts, Cancel, MainKeeps
  <1> QED
    BY <1>1 DEF Inv, Order, Drained, Waited

LEMMA KeptByStart ==
    ASSUME Inv, Start
    PROVE  Order' /\ Drained' /\ Waited'
  <1> USE DEF mainVars, loopVars, poolVars, scanVars, serverVars
  <1>1. /\ main = "start" /\ UNCHANGED <<recorded, panic, closed, gone, busy, jobs, db, scan>>
        /\ \/ main' = "run"
           \/ main' \in {"deferred", "exited"} /\ UNCHANGED loop
    BY DEF Start, Started, StartFails, MainKeeps
  <1>2. Order'
    BY <1>1 DEF Inv, Order, Unrecorded, Returning
  <1>3. Drained' /\ Waited'
    BY <1>1 DEF Inv, Drained, Waited
  <1> QED
    BY <1>2, <1>3

\* The shutdown, step by step.
LEMMA KeptByShutdown ==
    ASSUME Inv, Shutdown
    PROVE  Order' /\ Drained' /\ Waited'
  <1> USE DEF MainGoes, MainKeeps, loopVars, poolVars, scanVars
  <1>1. UNCHANGED <<loop, scan, gone, busy, jobs>>
    BY DEF Shutdown, BeginShutdown, FlushAll, RecordShutdown, ClosePool, PoolClosed,
           AwaitBackground, CloseStore, RunDeferred, Exit, CloseJobs
  <1>2. CASE BeginShutdown \/ FlushAll
    <2>1. /\ main \in {"run", "flush"} /\ main' \in {"flush", "record"}
          /\ UNCHANGED <<recorded, panic, closed, db>>
      BY <1>2 DEF BeginShutdown, FlushAll
    <2> QED
      BY <1>1, <2>1 DEF Inv, Order, Drained, Waited, Unrecorded, Returning
  <1>3. CASE RecordShutdown
    <2>1. /\ main = "record" /\ main' = "close" /\ recorded' # "no"
          /\ UNCHANGED <<panic, closed, db>>
      BY <1>3 DEF RecordShutdown
    <2> QED
      BY <1>1, <2>1 DEF Inv, Order, Drained, Waited
  <1>4. CASE ClosePool
    <2>1. main = "close" /\ main' = "wait" /\ closed' /\ UNCHANGED <<recorded, db>>
      BY <1>4 DEF ClosePool, CloseJobs
    <2> QED
      BY <1>1, <2>1 DEF Inv, Order, Drained, Waited, Unrecorded, Returning
  <1>5. CASE PoolClosed
    <2>1. /\ main = "wait" /\ main' = "background" /\ gone = Worker
          /\ UNCHANGED <<recorded, panic, closed, db>>
      BY <1>5 DEF PoolClosed, WorkersDone
    <2> QED
      BY <1>1, <2>1 DEF Inv, Order, Drained, Waited, Unrecorded, Returning
  <1>6. CASE AwaitBackground
    <2>1. /\ main = "background" /\ main' = "db" /\ scan # "walk"
          /\ UNCHANGED <<recorded, panic, closed, db>>
      BY <1>6 DEF AwaitBackground
    <2> QED
      BY <1>1, <2>1 DEF Inv, Order, Drained, Waited, Unrecorded, Returning
  <1>7. CASE CloseStore
    <2>1. /\ main = "db" /\ main' = "deferred"
          /\ UNCHANGED <<recorded, panic, closed>>
      BY <1>7 DEF CloseStore
    <2> QED
      BY <1>1, <2>1 DEF Inv, Order, Drained, Waited, Unrecorded, Returning
  <1>8. CASE RunDeferred
    <2>1. /\ main = "deferred" /\ main' = "leaving" /\ closed'
          /\ UNCHANGED <<recorded, db>>
          /\ closed \/ UNCHANGED panic
      BY <1>8 DEF RunDeferred, CloseJobs
    <2> QED
      BY <1>1, <2>1 DEF Inv, Order, Drained, Waited, Unrecorded, Returning
  <1>9. CASE Exit
    <2>1. /\ main = "leaving" /\ main' = "exited"
          /\ UNCHANGED <<recorded, panic, closed, db>>
      BY <1>9 DEF Exit
    <2> QED
      BY <1>1, <2>1 DEF Inv, Order, Drained, Waited, Unrecorded, Returning
  <1> QED
    BY <1>2, <1>3, <1>4, <1>5, <1>6, <1>7, <1>8, <1>9 DEF Shutdown

LEMMA InvStep ==
    ASSUME Inv, [Next]_vars
    PROVE  Inv'
  <1>1. TypeOK'
    BY TypeStep DEF Inv
  <1>2. CASE Next
    BY <1>1, <1>2, KeptByPool, KeptByReconcile, KeptByOthers, KeptByStart, KeptByShutdown
    DEF Next, Inv
  <1>3. CASE UNCHANGED vars
    BY <1>1, <1>3 DEF vars, Inv, Order, Drained, Waited
  <1> QED
    BY <1>2, <1>3

--------------------------------------------------------------------------------
(* The theorems                                                               *)

LEMMA InvAlways == Spec => []Inv
  BY InvInit, InvStep, PTL DEF Spec

\* Every reachable state has the types TypeOK gives; the job channel holds no more than
\* its capacity (pool.go:21-40).
THEOREM TypeCorrect == Spec => []TypeOK
  <1>1. Inv => TypeOK
    BY DEF Inv
  <1> QED
    BY <1>1, InvAlways, PTL

\* Past "Close transfer pool" (daemon.go:195) no job is queued or running, for any number
\* of workers: the last one to return has found the closed channel empty, and each is
\* idle when it returns (pool.go:24-30, 42-45).
THEOREM PoolIsDrained == Spec => []PoolDrained
  <1>1. Inv => PoolDrained
    <2> SUFFICES ASSUME Inv,
                        main \in {"background", "db"} \/ (main = "deferred" /\ db = "closed")
                 PROVE  jobs = <<>> /\ \A w \in Worker : busy[w] = 0
      BY DEF PoolDrained
    <2>1. gone = Worker
      BY DEF Inv, Waited
    <2>2. CASE Worker = {}
      <3>1. jobs \in Seq(Nat \ {0}) /\ Len(jobs) <= 0
        BY <2>2, PoolAssumption DEF Inv, TypeOK
      <3> QED
        BY <2>2, <3>1
    <2>3. CASE Worker # {}
      BY <2>1, <2>3 DEF Inv, Drained
    <2> QED
      BY <2>2, <2>3
  <1> QED
    BY <1>1, InvAlways, PTL

\* The catchup scan never meets a closed database (daemon.go:198-205): store.Close() is
\* only reached through bgWg.Wait().
THEOREM StoreOutlivesTheScan == Spec => []StoreOutlivesScan
  <1>1. Inv => StoreOutlivesScan
    BY DEF Inv, Waited, StoreOutlivesScan
  <1> QED
    BY <1>1, InvAlways, PTL

\* Whenever the process dies of its job channel the shutdown time was recorded before,
\* or recording it has failed (daemon.go:181-209): the channel is closed only after
\* RecordShutdown, or by a failed start before there is a loop to send on it.
THEOREM RecordedBeforeAnyPanic == Spec => []RecordedBeforePanic
  <1>1. Inv => RecordedBeforePanic
    BY DEF Inv, Order, RecordedBeforePanic
  <1> QED
    BY <1>1, InvAlways, PTL
================================================================================
