----------------------------- MODULE BisyncRestart -----------------------------
(******************************************************************************)
(* Bisync with daemons that are stopped and started again: a stop flushes the *)
(* debouncer, records the time and loses what the process had in memory; the  *)
(* next start runs the catchup scan beside the cycles and the peer's calls;   *)
(* users go on writing on a node whose daemon is down, and the peer finds     *)
(* nobody there.                                                              *)
(*                                                                            *)
(* Time is the number of user operations.  A stop is one as Recovery allows   *)
(* it: the scan is over and nobody writes on the node while it stops.  Users  *)
(* delete nothing on a node that is down, which no scan would find.           *)
(******************************************************************************)
EXTENDS Bisync

CONSTANT MaxStops   \* bound: stops of a daemon

ASSUME StopsAssumption == MaxStops \in Nat

VARIABLES
    proc,      \* proc[n]: the daemon of n
    mtime,     \* mtime[n][p]: modification time of the file at p
    sent,      \* sent[n]: modification time of what the running rsync has read
    last,      \* last[n]: last_shutdown
    scan,      \* scan[n][p]: whether n's scan has to come to p or has found it
    stops      \* counter for the bound

restartVars == <<proc, mtime, sent, last, scan, stops>>
allVars == <<vars, restartVars>>

\* A daemon that has been stopped before, when all files were old.
RestartInit ==
    /\ Init
    /\ proc = [n \in Node |-> "up"]
    /\ mtime = [n \in Node |-> [p \in Path |-> 0]]
    /\ sent = [n \in Node |-> 0]
    /\ last = [n \in Node |-> 0]
    /\ scan = [n \in Node |-> [p \in Path |-> "no"]]
    /\ stops = 0

\* The scan of n finds p, or is going to: now, or after the next start.
ScanOwes(n, p) ==
    \/ scan[n][p] = "found"
    \/ scan[n][p] = "walk" /\ mtime[n][p] > last[n] /\ fs[n][p] # Absent
    \/ proc[n] = "down" /\ mtime[n][p] > last[n] /\ fs[n][p] # Absent

\* Nobody scans, stops or is owed a scan.
Rested ==
    \A n \in Node :
        /\ proc[n] # "stopping"
        /\ \A p \in Path : scan[n][p] = "no" /\ ~ScanOwes(n, p)

UserWaits == Patient => Rested

--------------------------------------------------------------------------------
(* What goes on as before                                                     *)

\* A user's operation on a node whose daemon runs.
UserOnline(n, p) ==
    /\ proc[n] = "up"
    /\ UserWaits
    /\ UserRemove(n, p) \/ \E c \in Content : UserWrite(n, p, c)
    /\ mtime' = [mtime EXCEPT ![n][p] = ops + 1]
    /\ UNCHANGED <<proc, sent, last, scan, stops>>

\* A cycle begins with a call to the peer.
Exchange(n) ==
    /\ proc[n] = "up" /\ proc[Peer(n)] = "up"
    /\ ExchangeChangelog(n)
    /\ UNCHANGED restartVars

Acknowledge(n) ==
    /\ proc[n] = "up" /\ proc[Peer(n)] = "up"
    /\ AckRemote(n)
    /\ UNCHANGED restartVars

Calls(n) ==
    /\ proc[n] = "up" /\ proc[Peer(n)] = "up"
    /\ Serve(n)
    /\ UNCHANGED restartVars

\* rsync preserves times (-a), and does without the peer's daemon; where that is
\* down no watcher sees the write.
Rsync(n, p) ==
    /\ proc[n] = "up"
    /\ \/ /\ SendRead(n, p)
          /\ sent' = [sent EXCEPT ![n] = mtime[n][p]]
          /\ UNCHANGED mtime
       \/ /\ SendWrite(n, p)
          /\ mtime' = [mtime EXCEPT ![Peer(n)][p] = sent[n]]
          /\ UNCHANGED sent
    /\ proc[Peer(n)] = "down" => UNCHANGED pending
    /\ UNCHANGED <<proc, last, scan, stops>>

\* The other steps of a cycle, a handler that is under way, and what may fail.
Local(n) ==
    /\ proc[n] = "up"
    /\ \/ ReadLocal(n) \/ Process(n) \/ MarkLocal(n)
       \/ \E p \in Path : PushEvacuated(n, p) \/ DeleteReply(n, p) \/ SendGivesUp(n, p)
    /\ UNCHANGED restartVars

Fails(n) ==
    /\ proc[n] = "up"
    /\ SendRetry(n) \/ \E p \in Path : OpFails(n, p) \/ EvacuateFails(n, p)
    /\ UNCHANGED restartVars

Handler(n, p) ==
    /\ proc[n] # "down"
    /\ RemoveAll(n, p)
    /\ UNCHANGED restartVars

\* A timer, or FlushAll when the daemon is stopping.
Flushes(n, p) ==
    /\ proc[n] # "down"
    /\ Flush(n, p)
    /\ UNCHANGED restartVars

--------------------------------------------------------------------------------
(* Daemons that stop and start                                                *)

\* A user writes on a node whose daemon is down: there is no event.
WriteOffline(n, p, c) ==
    /\ proc[n] = "down"
    /\ UserWaits
    /\ UserMayAct
    /\ n \in Writers /\ p \in Configured[n]
    /\ fs[n][p] # c
    /\ fs' = [fs EXCEPT ![n][p] = c]
    /\ latest' = [latest EXCEPT ![p] = c]
    /\ mtime' = [mtime EXCEPT ![n][p] = ops + 1]
    /\ UNCHANGED <<pending, saved, log, clock, cycleVars, blocked, deleting, policy,
                   faults, crashes, proc, sent, last, scan, stops>>

\* DeleteFile, or AckTransfer, finds the peer's server gone.
NoAnswer(n) ==
    /\ proc[n] = "up" /\ proc[Peer(n)] # "up"
    /\ \/ /\ pc[n] = "delete"
          /\ \E p \in Path : Ends(n, p)
          /\ UNCHANGED <<remote, local, localDone, remoteDone>>
       \/ /\ pc[n] = "ack"
          /\ pc' = [pc EXCEPT ![n] = "idle"]
          /\ CycleEnds(n)
          /\ UNCHANGED <<cur, buf>>
    /\ UNCHANGED <<fsVars, log, clock, todo, blocked, deleting, latest, policy,
                   bounds, restartVars>>

\* A signal cancels the context, and with it n's cycle, whatever it was doing: its
\* rsync is killed, its marks are not written.
Stop(n) ==
    /\ proc[n] = "up" /\ stops < MaxStops
    /\ \A p \in Path : scan[n][p] = "no"
    /\ stops' = stops + 1
    /\ proc' = [proc EXCEPT ![n] = "stopping"]
    /\ pc' = [pc EXCEPT ![n] = "idle"]
    /\ cur' = [cur EXCEPT ![n] = {}]
    /\ todo' = [todo EXCEPT ![n] = {}]
    /\ buf' = [buf EXCEPT ![n] = Absent]
    /\ CycleEnds(n)
    /\ UNCHANGED <<fsVars, log, clock, blocked, deleting, latest, policy, bounds,
                   mtime, sent, last, scan>>

\* Mutant: a time ahead of the clock is recorded.
ExitAhead(n) ==
    /\ proc[n] = "stopping"
    /\ \A p \in Path : pending[n][p] = "none"
    /\ deleting[n] = {}
    /\ proc' = [proc EXCEPT ![n] = "down"]
    /\ last' = [last EXCEPT ![n] = ops + 1]
    /\ blocked' = [blocked EXCEPT ![n] = {}]
    /\ UNCHANGED <<fsVars, log, clock, cycleVars, deleting, latest, policy, bounds,
                   mtime, sent, scan, stops>>

\* FlushAll is over, the shutdown is recorded, the process ends.  The removals of its
\* unfinished handlers happen, unseen by the watcher, or not; their callers get an
\* error.
Exit(n) ==
    /\ proc[n] = "stopping"
    /\ \A p \in Path : pending[n][p] = "none"
    /\ proc' = [proc EXCEPT ![n] = "down"]
    /\ last' = [last EXCEPT ![n] = ops]
    /\ \E removed \in SUBSET deleting[n] :
         fs' = [fs EXCEPT ![n] = [p \in Path |-> IF p \in removed THEN Absent ELSE @[p]]]
    /\ deleting' = [deleting EXCEPT ![n] = {}]
    /\ pc' = [pc EXCEPT ![Peer(n)] = IF @ = "deleting" THEN "work" ELSE @]
    /\ cur' = [cur EXCEPT ![Peer(n)] = IF pc[Peer(n)] = "deleting" THEN {} ELSE @]
    /\ blocked' = [blocked EXCEPT ![n] = {}]
    /\ UNCHANGED <<pending, saved, log, clock, remote, local, todo, buf, localDone,
                   remoteDone, latest, policy, bounds, mtime, sent, scan, stops>>

\* The process dies: as Crash, and it is down.  The shutdown is not recorded.
Dies(n) ==
    /\ proc[n] # "down"
    /\ Crash(n)
    /\ proc' = [proc EXCEPT ![n] = "down"]
    /\ scan' = [scan EXCEPT ![n] = [p \in Path |-> "no"]]
    /\ UNCHANGED <<mtime, sent, last, stops>>

\* Mutant: the start replaces the time the scan is to read.
StartRecordsNow(n) ==
    /\ proc[n] = "down"
    /\ proc' = [proc EXCEPT ![n] = "up"]
    /\ scan' = [scan EXCEPT ![n] = [p \in Path |-> "walk"]]
    /\ last' = [last EXCEPT ![n] = ops]
    /\ UNCHANGED <<vars, mtime, sent, stops>>

\* The daemon is started, and the scan with it.
Start(n) ==
    /\ proc[n] = "down"
    /\ proc' = [proc EXCEPT ![n] = "up"]
    /\ scan' = [scan EXCEPT ![n] = [p \in Path |-> "walk"]]
    /\ UNCHANGED <<vars, mtime, sent, last, stops>>

\* Mutant: every file is logged, however old.
VisitAnyAge(n, p) ==
    /\ proc[n] = "up"
    /\ scan[n][p] = "walk"
    /\ scan' = [scan EXCEPT ![n][p] = IF fs[n][p] # Absent THEN "found" ELSE "no"]
    /\ UNCHANGED <<vars, proc, mtime, sent, last, stops>>

\* WalkDir comes to p.
Visit(n, p) ==
    /\ proc[n] = "up"
    /\ scan[n][p] = "walk"
    /\ scan' = [scan EXCEPT ![n][p] =
          IF fs[n][p] # Absent /\ mtime[n][p] > last[n] THEN "found" ELSE "no"]
    /\ UNCHANGED <<vars, proc, mtime, sent, last, stops>>

\* Mutant: the entry is written as already synced.
ScanAppendAsSynced(n, p) ==
    /\ proc[n] = "up"
    /\ scan[n][p] = "found"
    /\ scan' = [scan EXCEPT ![n][p] = "no"]
    /\ \E t \in Stamps(n) :
         /\ log' = [log EXCEPT ![n] = Append(@,
                      [path |-> p, type |-> "modify", hlc |-> t,
                       synced |-> TRUE, ack |-> FALSE])]
         /\ clock' = [clock EXCEPT ![n] = t]
    /\ UNCHANGED <<fsVars, cycleVars, blocked, deleting, latest, policy, bounds,
                   proc, mtime, sent, last, stops>>

\* A worker of the scan appends a "modify" entry with a stamp of its own.
ScanAppend(n, p) ==
    /\ proc[n] = "up"
    /\ scan[n][p] = "found"
    /\ scan' = [scan EXCEPT ![n][p] = "no"]
    /\ \E t \in Stamps(n) :
         /\ log' = [log EXCEPT ![n] = Append(@,
                      [path |-> p, type |-> "modify", hlc |-> t,
                       synced |-> FALSE, ack |-> FALSE])]
         /\ clock' = [clock EXCEPT ![n] = t]
    /\ UNCHANGED <<fsVars, cycleVars, blocked, deleting, latest, policy, bounds,
                   proc, mtime, sent, last, stops>>

--------------------------------------------------------------------------------
CycleStep(n) ==
    \/ Exchange(n) \/ Local(n) \/ Acknowledge(n) \/ NoAnswer(n)
    \/ \E p \in Path : Rsync(n, p)

RestartNext == \E n \in Node :
    \/ CycleStep(n) \/ Calls(n) \/ Fails(n)
    \/ Stop(n) \/ Exit(n) \/ Start(n)
    \/ \E p \in Path :
         \/ UserOnline(n, p) \/ \E c \in Content : WriteOffline(n, p, c)
         \/ Handler(n, p) \/ Flushes(n, p)
         \/ Visit(n, p) \/ ScanAppend(n, p)

RestartSpec == RestartInit /\ [][RestartNext]_allVars

\* Daemons may die as well.
CrashSpec == RestartInit /\ [][RestartNext \/ \E n \in Node : Dies(n)]_allVars

\* As Fairness; somebody starts a daemon that is down.
RestartFairness == \A n \in Node :
    /\ WF_allVars(CycleStep(n)) /\ WF_allVars(Calls(n))
    /\ WF_allVars(Exit(n)) /\ WF_allVars(Start(n))
    /\ \A p \in Path :
         /\ WF_allVars(Flushes(n, p)) /\ WF_allVars(Handler(n, p))
         /\ WF_allVars(Visit(n, p)) /\ WF_allVars(ScanAppend(n, p))

FairRestartSpec == RestartSpec /\ RestartFairness

--------------------------------------------------------------------------------
(* Properties                                                                 *)

RestartTypeOK ==
    /\ TypeOK
    /\ proc \in [Node -> {"up", "stopping", "down"}]
    /\ mtime \in [Node -> [Path -> 0..ops]]
    /\ sent \in [Node -> 0..ops] /\ last \in [Node -> 0..ops]
    /\ scan \in [Node -> [Path -> {"no", "walk", "found"}]]
    /\ stops \in 0..MaxStops

\* While the nodes differ at p, one of them owes the other a step, or its scan owes
\* the changelog an entry: a stop in the middle of a cycle, and a write while the
\* daemon is down, lose nothing (daemon.go:181-193, recovery.go:83-140,
\* reconciler.go:61-199).
OwedAcrossRestarts ==
    \A p \in Path :
        fs[1][p] # fs[2][p] => \E n \in Node : Owes(n, p) \/ ScanOwes(n, p)

\* A stop cuts a cycle at any point, and the next start repeats what it had done, with
\* the scan running beside it; still every settled state holds, on both nodes, what the
\* last user left.
LatestAcrossRestarts == Rested => LatestEverywhere
================================================================================
