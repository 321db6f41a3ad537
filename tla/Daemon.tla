--------------------------------- MODULE Daemon --------------------------------
(******************************************************************************)
(* One bisync process from start to end (internal/daemon/daemon.go): the main *)
(* goroutine with its shutdown sequence, and the goroutines it does or does   *)
(* not wait for: the reconcile loop, which hands transfers to the worker pool *)
(* (internal/transfer) and runs the notification handlers (internal/notify),  *)
(* the workers, the catchup scan and the handlers of the gRPC server.  Loop,  *)
(* scan and gRPC handlers use the changelog database.                         *)
(*                                                                            *)
(* A cycle is reduced to what it asks of the others: a read of the database,  *)
(* keys of which some are sent through the pool, a write at the end (Bisync   *)
(* has the rest).  FlushAll is one step (Watcher has its inside).             *)
(******************************************************************************)
EXTENDS Naturals, Sequences

CONSTANTS
    Worker,        \* the workers of the pool: transfer.max_concurrent of them
    QueueCap,      \* capacity of jobCh: four times transfer.max_concurrent
    MaxKeys,       \* bound: keys a cycle handles
    MaxJobs,       \* bound: jobs submitted
    MaxFiles,      \* bound: files the catchup scan finds
    MaxFaults      \* bound: failures other than those of a cancelled context

\* A pool of no workers has a channel of no capacity.
ASSUME PoolAssumption == QueueCap \in Nat /\ (Worker = {} => QueueCap = 0)
ASSUME CountAssumption ==
    MaxKeys \in Nat /\ MaxJobs \in Nat /\ MaxFiles \in Nat /\ MaxFaults \in Nat

VARIABLES
    main,        \* where Run, and the shutdown it ends with, are
    cancelled,   \* the context of Run is cancelled
    recorded,    \* RecordShutdown: "no", "done" or "failed"
    panic,       \* "no", or the operation that ended the process
    loop,        \* the reconcile loop and the cycle it runs
    keys,        \* keys the cycle has yet to handle
    mine,        \* the job the cycle's Send waits for
    hung,        \* the command of a notification handler does not end
    jobs,        \* jobCh: the jobs queued
    closed,      \* jobCh is closed
    busy,        \* busy[w]: the job of worker w, 0 when idle
    gone,        \* workers that have returned
    answered,    \* jobs whose result is in their resultCh
    submitted,   \* jobs submitted so far
    scan,        \* the catchup scan: "off", "walk" or "done"
    files,       \* files the scan has yet to append
    server,      \* the gRPC server: "up" or "stopping"
    handler,     \* a handler of the server is using the database
    db,          \* the database: "open" or "closed"
    faults       \* counter for the bound

mainVars == <<main, cancelled, recorded, db>>
loopVars == <<loop, keys, mine, hung>>
poolVars == <<jobs, closed, busy, gone, answered, submitted>>
scanVars == <<scan, files>>
serverVars == <<server, handler>>
vars == <<main, cancelled, recorded, panic, loop, keys, mine, hung, jobs, closed,
          busy, gone, answered, submitted, scan, files, server, handler, db, faults>>

MainAt == {"start", "run", "flush", "record", "close", "wait", "background", "db",
           "deferred", "leaving", "exited"}
LoopAt == {"none", "wait", "read", "work", "submit", "await", "notify", "exited"}

\* The goroutines of a process run until main returns or one of them panics.
Alive == panic = "no" /\ main # "exited"

Fault == faults < MaxFaults /\ faults' = faults + 1

\* Run starts the scan before anything else, in the background.
Init ==
    /\ main = "start" /\ cancelled = FALSE /\ recorded = "no" /\ panic = "no"
    /\ loop = "none" /\ keys = 0 /\ mine = 0 /\ hung = FALSE
    /\ jobs = <<>> /\ closed = FALSE
    /\ busy = [w \in Worker |-> 0] /\ gone = {}
    /\ answered = {} /\ submitted = 0
    /\ scan \in {"off", "walk"} /\ files \in 0..MaxFiles
    /\ server = "up" /\ handler = FALSE
    /\ db = "open"
    /\ faults = 0

--------------------------------------------------------------------------------
(* The worker pool                                                            *)

\* A worker receives from jobCh; buffered jobs are received from a closed channel
\* too.
Take(w) ==
    /\ Alive
    /\ w \notin gone /\ busy[w] = 0
    /\ jobs # <<>>
    /\ busy' = [busy EXCEPT ![w] = Head(jobs)]
    /\ jobs' = Tail(jobs)
    /\ UNCHANGED <<mainVars, panic, loopVars, closed, gone, answered, submitted,
                   scanVars, serverVars, faults>>

\* Mutant: resultCh is unbuffered, so that the worker waits for a Send that may
\* have gone.
FinishUnbuffered(w) ==
    /\ Alive
    /\ busy[w] # 0
    /\ loop = "await" /\ mine = busy[w]
    /\ answered' = answered \cup {busy[w]}
    /\ busy' = [busy EXCEPT ![w] = 0]
    /\ UNCHANGED <<mainVars, panic, loopVars, jobs, closed, gone, submitted,
                   scanVars, serverVars, faults>>

\* Mutant: a worker takes one job and returns.
FinishAndReturn(w) ==
    /\ Alive
    /\ busy[w] # 0
    /\ answered' = answered \cup {busy[w]}
    /\ busy' = [busy EXCEPT ![w] = 0]
    /\ gone' = gone \cup {w}
    /\ UNCHANGED <<mainVars, panic, loopVars, jobs, closed, submitted, scanVars,
                   serverVars, faults>>

\* runRsync ends: the transfer is done, or has failed, or was killed with the
\* context it runs under.  resultCh has room for the answer.
Finish(w) ==
    /\ Alive
    /\ busy[w] # 0
    /\ answered' = answered \cup {busy[w]}
    /\ busy' = [busy EXCEPT ![w] = 0]
    /\ UNCHANGED <<mainVars, panic, loopVars, jobs, closed, gone, submitted,
                   scanVars, serverVars, faults>>

\* The range over jobCh ends: closed and empty.
Return(w) ==
    /\ Alive
    /\ w \notin gone /\ busy[w] = 0
    /\ closed /\ jobs = <<>>
    /\ gone' = gone \cup {w}
    /\ UNCHANGED <<mainVars, panic, loopVars, jobs, closed, busy, answered,
                   submitted, scanVars, serverVars, faults>>

\* close(jobCh), the first half of pool.close.
CloseJobs ==
    /\ closed' = TRUE
    /\ panic' = IF closed THEN "close of closed channel" ELSE panic
    /\ UNCHANGED <<jobs, busy, gone, answered, submitted>>

\* Mutant: pool.close does not wait.
NoWorkersLeft == TRUE

\* wg.Wait(), the second half of pool.close.
WorkersDone == gone = Worker

--------------------------------------------------------------------------------
(* The reconcile loop                                                         *)

LoopKeeps == UNCHANGED <<mainVars, panic, poolVars, scanVars, serverVars, faults>>

\* A token or the ticker; with the context cancelled the select may still choose
\* them.
CycleStarts ==
    /\ Alive
    /\ loop = "wait"
    /\ loop' = "read"
    /\ UNCHANGED <<keys, mine, hung>>
    /\ LoopKeeps

\* ExchangeChangelog and UnsyncedEntries; a cancelled context makes them fail.
ReadEntries ==
    /\ Alive
    /\ loop = "read"
    /\ \/ ~cancelled /\ db = "open" /\ loop' = "work" /\ keys' \in 0..MaxKeys
       \/ cancelled /\ loop' = "wait" /\ UNCHANGED keys
    /\ UNCHANGED <<mine, hung>>
    /\ LoopKeeps

\* A key that needs no transfer.  A failed RPC, and a conflict, call the notifier.
HandleKey ==
    /\ Alive
    /\ loop = "work" /\ keys > 0
    /\ keys' = keys - 1
    /\ loop' \in {"work", "notify"}
    /\ UNCHANGED <<mine, hung>>
    /\ LoopKeeps

\* A key whose file is sent: Send calls submit.
StartSend ==
    /\ Alive
    /\ loop = "work" /\ keys > 0
    /\ submitted < MaxJobs
    /\ keys' = keys - 1
    /\ loop' = "submit"
    /\ UNCHANGED <<mine, hung>>
    /\ LoopKeeps

\* Mutant: the queue takes any number of jobs.
SubmitUnbounded ==
    /\ Alive
    /\ loop = "submit"
    /\ ~closed
    /\ submitted' = submitted + 1
    /\ jobs' = Append(jobs, submitted + 1)
    /\ mine' = submitted + 1
    /\ loop' = "await"
    /\ UNCHANGED <<mainVars, panic, keys, hung, closed, busy, gone, answered,
                   scanVars, serverVars, faults>>

\* submit sends on jobCh, whatever has become of the context: it waits while the
\* channel is full.
Submit ==
    /\ Alive
    /\ loop = "submit"
    /\ ~closed /\ Len(jobs) < QueueCap
    /\ submitted' = submitted + 1
    /\ jobs' = Append(jobs, submitted + 1)
    /\ mine' = submitted + 1
    /\ loop' = "await"
    /\ UNCHANGED <<mainVars, panic, keys, hung, closed, busy, gone, answered,
                   scanVars, serverVars, faults>>

\* A send on a closed channel, one that was waiting when it was closed included,
\* panics, and the process ends.
SubmitPanics ==
    /\ Alive
    /\ loop = "submit"
    /\ closed
    /\ panic' = "send on closed channel"
    /\ UNCHANGED <<mainVars, loopVars, poolVars, scanVars, serverVars, faults>>

\* Send returns with the result, or because the context is done; the job then stays
\* with the pool.  An error calls the notifier, unless the key was in conflict.
SendReturns ==
    /\ Alive
    /\ loop = "await"
    /\ mine \in answered \/ cancelled
    /\ loop' \in {"work", "notify"}
    /\ mine' = 0
    /\ UNCHANGED <<keys, hung>>
    /\ LoopKeeps

\* emit runs the handlers one after the other in the cycle, and their errors are
\* only logged.  A webhook has a timeout, a command has none.
HandlersReturn ==
    /\ Alive
    /\ loop = "notify" /\ ~hung
    /\ loop' = "work"
    /\ UNCHANGED <<keys, mine, hung>>
    /\ LoopKeeps

CommandHangs ==
    /\ Alive
    /\ loop = "notify" /\ ~hung
    /\ Fault
    /\ hung' = TRUE
    /\ UNCHANGED <<mainVars, panic, loop, keys, mine, poolVars, scanVars, serverVars>>

\* MarkSynced and AckTransfer, whose errors are only logged.
MarkEntries ==
    /\ Alive
    /\ loop = "work" /\ keys = 0
    /\ loop' = "wait"
    /\ UNCHANGED <<keys, mine, hung>>
    /\ LoopKeeps

LoopExits ==
    /\ Alive
    /\ loop = "wait" /\ cancelled
    /\ loop' = "exited"
    /\ UNCHANGED <<keys, mine, hung>>
    /\ LoopKeeps

--------------------------------------------------------------------------------
(* The catchup scan and the gRPC server                                       *)

\* A worker of the scan appends an entry.
ScanAppend ==
    /\ Alive
    /\ scan = "walk" /\ files > 0
    /\ ~cancelled /\ db = "open"
    /\ files' = files - 1
    /\ UNCHANGED <<mainVars, panic, loopVars, poolVars, scan, serverVars, faults>>

\* The walk is over, or stops because the context is done; entries still in fileCh
\* then fail.  bgWg.Done().
ScanEnds ==
    /\ Alive
    /\ scan = "walk"
    /\ files = 0 \/ cancelled
    /\ scan' = "done"
    /\ UNCHANGED <<mainVars, panic, loopVars, poolVars, files, serverVars, faults>>

\* A handler starts: it uses the database under the context of its call.
HandlerStarts ==
    /\ Alive
    /\ main # "start" /\ server = "up"
    /\ ~handler
    /\ handler' = TRUE
    /\ UNCHANGED <<mainVars, panic, loopVars, poolVars, scanVars, server, faults>>

\* It returns, with an error if the database has been closed.
HandlerReturns ==
    /\ Alive
    /\ handler
    /\ handler' = FALSE
    /\ UNCHANGED <<mainVars, panic, loopVars, poolVars, scanVars, server, faults>>

\* GracefulStop, called by a goroutine of its own: no new calls, the present ones
\* are waited for by that goroutine only.
GracefulStop ==
    /\ Alive
    /\ cancelled /\ main # "start" /\ server = "up"
    /\ server' = "stopping"
    /\ UNCHANGED <<mainVars, panic, loopVars, poolVars, scanVars, handler, faults>>

--------------------------------------------------------------------------------
(* The main goroutine                                                         *)

MainKeeps == UNCHANGED <<loopVars, scanVars, serverVars>>

\* All components exist: the goroutines are started.
Started ==
    /\ Alive
    /\ main = "start"
    /\ main' = "run" /\ loop' = "wait"
    /\ UNCHANGED <<cancelled, recorded, panic, db, keys, mine, hung, poolVars,
                   scanVars, serverVars, faults>>

\* NewClient or NewServer fails, and Run returns through its deferred calls; or
\* NewWatcher does, when there is no pool to close yet.
StartFails ==
    /\ Alive
    /\ main = "start"
    /\ Fault
    /\ main' \in {"deferred", "exited"}
    /\ UNCHANGED <<cancelled, recorded, panic, db, poolVars>>
    /\ MainKeeps

\* A signal, or the watcher ending with an error, cancels the context.
Cancel ==
    /\ Alive
    /\ main \in {"start", "run"} /\ ~cancelled
    /\ cancelled' = TRUE
    /\ UNCHANGED <<main, recorded, panic, db, poolVars, faults>>
    /\ MainKeeps

\* Main goes from one point of shutdown to the next.
MainGoes(from, to) == Alive /\ main = from /\ main' = to /\ MainKeeps

\* Run sees the context done and calls shutdown.
BeginShutdown ==
    /\ cancelled
    /\ MainGoes("run", "flush")
    /\ UNCHANGED <<cancelled, recorded, panic, db, poolVars, faults>>

\* Mutant: the shutdown time is recorded at the end, after the closing of the pool.
FlushThenClose ==
    /\ MainGoes("flush", "close")
    /\ UNCHANGED <<cancelled, recorded, panic, db, poolVars, faults>>

\* 1. FlushAll.
FlushAll ==
    /\ MainGoes("flush", "record")
    /\ UNCHANGED <<cancelled, recorded, panic, db, poolVars, faults>>

\* 2. RecordShutdown, under a context of its own; an error is only logged.
RecordShutdown ==
    /\ MainGoes("record", "close")
    /\ \/ recorded' = "done" /\ UNCHANGED faults
       \/ recorded' = "failed" /\ Fault
    /\ UNCHANGED <<cancelled, panic, db, poolVars>>

\* 3. tm.Close() closes jobCh ...
ClosePool ==
    /\ MainGoes("close", "wait")
    /\ CloseJobs
    /\ UNCHANGED <<cancelled, recorded, db, faults>>

\* ... and waits for the workers.
PoolClosed ==
    /\ WorkersDone
    /\ MainGoes("wait", "background")
    /\ UNCHANGED <<cancelled, recorded, panic, db, poolVars, faults>>

\* Mutant: the database is closed without waiting for the scan.
SkipBackground ==
    /\ MainGoes("background", "db")
    /\ UNCHANGED <<cancelled, recorded, panic, db, poolVars, faults>>

\* 4. bgWg.Wait().
AwaitBackground ==
    /\ scan # "walk"
    /\ MainGoes("background", "db")
    /\ UNCHANGED <<cancelled, recorded, panic, db, poolVars, faults>>

\* 5. store.Close().
CloseStore ==
    /\ MainGoes("db", "deferred")
    /\ db' = "closed"
    /\ UNCHANGED <<cancelled, recorded, panic, poolVars, faults>>

\* Run returns: the deferred transferMgr.Close() closes jobCh, once more after a
\* shutdown; the deferred cancel runs last.
RunDeferred ==
    /\ Alive
    /\ main = "deferred" /\ main' = "leaving"
    /\ CloseJobs
    /\ UNCHANGED <<cancelled, recorded, db, faults>>
    /\ MainKeeps

\* The workers have returned, and so does Run: the process ends.
Exit ==
    /\ WorkersDone
    /\ MainGoes("leaving", "exited")
    /\ UNCHANGED <<cancelled, recorded, panic, db, poolVars, faults>>

--------------------------------------------------------------------------------
Pool(w) == Take(w) \/ Finish(w) \/ Return(w)

Reconcile ==
    \/ CycleStarts \/ ReadEntries \/ HandleKey \/ StartSend \/ Submit
    \/ SubmitPanics \/ SendReturns \/ HandlersReturn \/ MarkEntries \/ LoopExits

Scan == ScanAppend \/ ScanEnds

Serve == HandlerReturns \/ GracefulStop

Start == Started \/ StartFails

Shutdown ==
    \/ BeginShutdown \/ FlushAll \/ RecordShutdown \/ ClosePool \/ PoolClosed
    \/ AwaitBackground \/ CloseStore \/ RunDeferred \/ Exit

Next ==
    \/ \E w \in Worker : Pool(w)
    \/ Reconcile \/ CommandHangs \/ Scan \/ Serve \/ HandlerStarts
    \/ Start \/ Cancel
    \/ Shutdown

Spec == Init /\ [][Next]_vars

\* Every goroutine goes on; rsync has a timeout and a bounded number of retries, and
\* handlers return.  Signals need not come.
Fairness ==
    /\ \A w \in Worker : WF_vars(Pool(w))
    /\ WF_vars(Start) /\ WF_vars(Reconcile) /\ WF_vars(Scan) /\ WF_vars(Shutdown)

FairSpec == Spec /\ Fairness

--------------------------------------------------------------------------------
(* Properties                                                                 *)

TypeOK ==
    /\ main \in MainAt /\ loop \in LoopAt
    /\ cancelled \in BOOLEAN /\ closed \in BOOLEAN /\ handler \in BOOLEAN
    /\ hung \in BOOLEAN
    /\ recorded \in {"no", "done", "failed"}
    /\ panic \in {"no", "close of closed channel", "send on closed channel"}
    /\ keys \in 0..MaxKeys /\ mine \in Nat /\ submitted \in Nat
    /\ jobs \in Seq(Nat \ {0}) /\ Len(jobs) <= QueueCap
    /\ busy \in [Worker -> Nat] /\ gone \subseteq Worker
    /\ answered \subseteq Nat
    /\ scan \in {"off", "walk", "done"} /\ files \in 0..MaxFiles
    /\ server \in {"up", "stopping"} /\ db \in {"open", "closed"}
    /\ faults \in 0..MaxFaults

\* "Close transfer pool" (daemon.go:195): past step 3 of the shutdown no rsync of
\* this process runs and no job is left in the queue, although a cycle abandons its
\* jobs when the context is cancelled and goes on submitting others
\* (pool.go:21-45, rsync.go:60-69).
PoolDrained ==
    main \in {"background", "db"} \/ (main = "deferred" /\ db = "closed")
      => jobs = <<>> /\ \A w \in Worker : busy[w] = 0

\* "Wait for background goroutines (e.g. catchup scan) to exit before closing the DB
\* they may still be writing to" (daemon.go:198): the scan never meets a closed
\* database.
StoreOutlivesScan == db = "closed" => scan # "walk"

\* A panic does not cost the next start its catchup scan: whenever the process dies
\* of its job channel, the shutdown time was recorded before, or recording it has
\* failed (daemon.go:181-209).
RecordedBeforePanic == panic # "no" => recorded # "no"

\* A shutdown comes to an end, in a return or in a panic: nobody waits for ever for
\* the workers, the jobs they still have, or the scan, even if a cycle hangs
\* (daemon.go:181-209).
ShutdownEnds == cancelled ~> ~Alive

\* A reconcile cycle comes to an end: no Send waits for ever, although submit does
\* not look at the context (pool.go:36-40, rsync.go:60-69), and nothing but a command
\* of the notifier can hold it up (command.go:36).
CycleReturns == loop = "read" ~> (loop \in {"wait", "exited"} \/ ~Alive \/ hung)

\* "Close shuts down the worker pool gracefully" (rsync.go:45).  It fails: shutdown
\* closes the pool (daemon.go:196) and so does the deferred call (daemon.go:105),
\* and a cycle that is still submitting panics before.
GracefulExit == panic = "no"

\* bgWg "tracks background goroutines that access store" (daemon.go:35), and is waited
\* for "before closing the DB they may still be writing to" (daemon.go:198): nobody
\* uses the database once it is closed.  It fails: bgWg counts the scan only, not the
\* reconcile loop and the handlers of the gRPC server.
StoreClosedLast == db = "closed" /\ Alive => ~handler /\ loop \in {"none", "exited"}
================================================================================
