-------------------------------- MODULE Recovery -------------------------------
(******************************************************************************)
(* The changes of one node's files over several runs of its daemon: the       *)
(* watcher logs them while it runs, and after a restart the catchup scan      *)
(* (internal/recovery) looks for files whose modification time is later than  *)
(* the last recorded shutdown.                                                *)
(*                                                                            *)
(* A daemon stops cleanly (flush, record the time, exit) or crashes at any    *)
(* point.  Time is the file system's timestamp clock.  The changelog is       *)
(* reduced to which changes have an entry.  What is known to defeat the scan  *)
(* has a name, and a history variable tells whether it has happened.          *)
(******************************************************************************)
EXTENDS Naturals

CONSTANTS
    Path,       \* files of the sync pairs
    Excluded,   \* those that match an exclude pattern
    Cases,      \* the cases of AllCases that may happen
    MaxTime,    \* bound: the clock
    MaxOps,     \* bound: changes of files by users
    MaxRuns     \* bound: starts of the daemon

\* "old mtime": a file appears with an older time (mv, cp -p, tar).
\* "busy stop": a change has not reached the debouncer when the daemon is told to
\*    stop, or is made while it stops, or the watcher takes the flushed event with
\*    the cancelled context.
\* "stop in scan": the daemon is told to stop while it scans.
\* "late watch": a change is made after the scan has passed the file and before the
\*    fanotify mark is set.
\* "first boot": a change while the daemon is down, or a crash, before any shutdown
\*    has been recorded.
\* "walk fails": last_shutdown or a directory cannot be read.
\* "append fails": the INSERT of an entry fails.
AllCases == {"old mtime", "busy stop", "stop in scan", "late watch", "first boot",
             "walk fails", "append fails"}

ASSUME ExcludedAssumption == Excluded \subseteq Path
ASSUME CasesAssumption == Cases \subseteq AllCases
ASSUME RunsAssumption == MaxTime \in Nat \ {0} /\ MaxOps \in Nat /\ MaxRuns \in Nat

VARIABLES
    now,        \* the clock
    mtime,      \* mtime[p]: modification time of the file at p, 0 without one
    unlogged,   \* unlogged[p]: the last change of p while it has no entry, or "none"
    queued,     \* queued[p]: the event of p fanotify has queued, or "none"
    pending,    \* pending[p]: the event of p in the debouncer, or "none"
    proc,       \* the daemon process
    last,       \* last_shutdown in the metadata table, 0 when missing
    since,      \* the last_shutdown the scan has read
    walk,       \* paths the scan's walk has not come to
    found,      \* paths in fileCh, or in the hands of the scan's workers
    clean,      \* history: the previous run ended after recording its shutdown
    early,      \* history: paths whose last change was logged by an earlier run
    mishap,     \* history: a case of AllCases has happened
    ops, runs   \* counters for the bounds

files == <<mtime, unlogged>>
buffers == <<queued, pending>>
scanVars == <<since, walk, found>>
history == <<clean, early, mishap>>
vars == <<now, mtime, unlogged, queued, pending, proc, last, since, walk, found,
          clean, early, mishap, ops, runs>>

Change == {"modify", "delete"}
Proc == {"down", "starting", "up", "flush", "record", "closing"}
Nothing == [p \in Path |-> "none"]

Init ==
    /\ now = 1
    /\ mtime \in [Path -> {0, 1}]
    /\ unlogged = Nothing /\ queued = Nothing /\ pending = Nothing
    /\ proc = "down" /\ last = 0 /\ since = 0 /\ walk = {} /\ found = {}
    /\ clean = FALSE /\ early = Path /\ mishap = FALSE
    /\ ops = 0 /\ runs = 0

\* The step is an instance of the cases in c, all of which may happen.
Meets(c) == c \subseteq Cases /\ mishap' = (mishap \/ c # {})

\* The case a step is an instance of under a condition.
Case(name, condition) == {c \in {name} : condition}

--------------------------------------------------------------------------------
(* Users and time                                                             *)

Tick ==
    /\ now < MaxTime
    /\ now' = now + 1
    /\ UNCHANGED <<files, buffers, proc, last, scanVars, history, ops, runs>>

\* The cases a write at p now is an instance of: nobody is there to see it.
Unseen(p) ==
    Case("first boot", proc = "down" /\ last = 0)
      \cup Case("late watch", proc = "starting" /\ p \notin walk)
      \cup Case("busy stop", proc \in {"flush", "record", "closing"})

\* A user's change at p leaves a file of time t, or none for 0.  With the mark set
\* fanotify queues an event.
UserChange(p, t, change) ==
    /\ ops < MaxOps
    /\ ops' = ops + 1
    /\ mtime' = [mtime EXCEPT ![p] = t]
    /\ unlogged' = [unlogged EXCEPT ![p] = change]
    /\ queued' = [queued EXCEPT ![p] = IF proc = "up" THEN change ELSE @]
    /\ early' = early \ {p}
    /\ UNCHANGED <<now, pending, proc, last, scanVars, clean, runs>>

Write(p) == \E t \in 1..now :
    /\ Meets(Unseen(p) \cup Case("old mtime", t < now))
    /\ UserChange(p, t, "modify")

Remove(p) ==
    /\ mtime[p] # 0
    /\ Meets(Case("first boot", proc = "down" /\ last = 0))
    /\ UserChange(p, 0, "delete")

--------------------------------------------------------------------------------
(* The watcher                                                                *)

\* processEvent: an excluded path is dropped, another one goes to the debouncer.
ProcessEvent(p) ==
    /\ proc = "up"
    /\ queued[p] # "none"
    /\ queued' = [queued EXCEPT ![p] = "none"]
    /\ pending' = [pending EXCEPT ![p] = IF p \in Excluded THEN @ ELSE queued[p]]
    /\ UNCHANGED <<now, files, proc, last, scanVars, history, ops, runs>>

\* The last change of p after an entry of the given type has been appended.
LoggedBy(p, type) == IF unlogged[p] = type THEN "none" ELSE unlogged[p]

\* The debounce window of p ends: writeToChangelog.
WriteToChangelog(p) ==
    /\ proc = "up"
    /\ pending[p] # "none"
    /\ unlogged' = [unlogged EXCEPT ![p] = LoggedBy(p, pending[p])]
    /\ pending' = [pending EXCEPT ![p] = "none"]
    /\ UNCHANGED <<now, mtime, queued, proc, last, scanVars, history, ops, runs>>

--------------------------------------------------------------------------------
(* The daemon and its scan                                                    *)

\* Mutant: the scan looks for what changes from now on.
StartFromNow ==
    /\ proc = "down" /\ runs < MaxRuns
    /\ runs' = runs + 1
    /\ proc' = "starting"
    /\ since' = now
    /\ walk' = IF last = 0 THEN {} ELSE Path
    /\ early' = {p \in Path : unlogged[p] = "none"}
    /\ UNCHANGED <<now, files, buffers, last, found, clean, mishap, ops>>

\* Run begins with the scan, which reads last_shutdown and gives up on a first boot.
Start ==
    /\ proc = "down" /\ runs < MaxRuns
    /\ runs' = runs + 1
    /\ proc' = "starting"
    /\ since' = last
    /\ walk' = IF last = 0 THEN {} ELSE Path
    /\ early' = {p \in Path : unlogged[p] = "none"}
    /\ UNCHANGED <<now, files, buffers, last, found, clean, mishap, ops>>

\* The watcher sets its mark: changes are reported from now on.
FanotifyMark ==
    /\ proc = "starting"
    /\ proc' = "up"
    /\ UNCHANGED <<now, files, buffers, last, scanVars, history, ops, runs>>

Running == proc \in {"starting", "up"}

\* WalkDir comes to p: a file that is newer is sent to the workers.
Visit(p) ==
    /\ Running
    /\ p \in walk
    /\ walk' = walk \ {p}
    /\ found' = IF mtime[p] > since THEN found \cup {p} ELSE found
    /\ UNCHANGED <<now, files, buffers, proc, last, since, history, ops, runs>>

\* The callback returns the error of a directory and WalkDir ends: the files it has
\* not come to are left out, and scanPair's error is only logged.  There is no walk at
\* all if last_shutdown cannot be read.
WalkFails ==
    /\ Meets({"walk fails"})
    /\ Running
    /\ walk # {}
    /\ walk' = {}
    /\ UNCHANGED <<now, files, buffers, proc, last, since, found, clean, early, ops,
                   runs>>

\* A worker appends a "modify" entry, excluded or not, there still or not.
ScanAppend(p) ==
    /\ Running
    /\ p \in found
    /\ found' = found \ {p}
    /\ unlogged' = [unlogged EXCEPT ![p] = LoggedBy(p, "modify")]
    /\ UNCHANGED <<now, mtime, buffers, proc, last, since, walk, history, ops,
                   runs>>

\* The watcher's INSERT, or that of a scan's worker, fails: it is only logged, and the
\* event is gone.
AppendFails(p) ==
    /\ Meets({"append fails"})
    /\ \/ /\ proc = "up" /\ pending[p] # "none"
          /\ pending' = [pending EXCEPT ![p] = "none"]
          /\ UNCHANGED found
       \/ /\ Running /\ p \in found
          /\ found' = found \ {p}
          /\ UNCHANGED pending
    /\ UNCHANGED <<now, files, queued, proc, last, since, walk, clean, early, ops,
                   runs>>

\* A signal cancels the context: the poll loop returns, the walk stops and the
\* appends of the scan's workers fail.  The consumer of the debouncer may still
\* receive an event, and fails to append it.
Stop ==
    /\ Running
    /\ proc' = "flush"
    /\ walk' = {} /\ found' = {}
    /\ queued' = Nothing
    /\ \/ pending' = pending
       \/ \E p \in Path : pending' = [pending EXCEPT ![p] = "none"]
    /\ Meets(Case("stop in scan", walk \cup found # {})
               \cup Case("busy stop", queued # Nothing \/ pending' # pending))
    /\ UNCHANGED <<now, files, last, since, clean, early, ops, runs>>

\* Mutant: the buffers are dropped.
FlushNothing ==
    /\ proc = "flush"
    /\ proc' = "record"
    /\ pending' = Nothing
    /\ UNCHANGED <<now, files, queued, last, scanVars, history, ops, runs>>

\* FlushAll writes every pending event to the changelog.
FlushAll ==
    /\ proc = "flush"
    /\ proc' = "record"
    /\ unlogged' = [p \in Path |-> LoggedBy(p, pending[p])]
    /\ pending' = Nothing
    /\ UNCHANGED <<now, mtime, queued, last, scanVars, history, ops, runs>>

\* Mutant: ON CONFLICT DO NOTHING, the first shutdown recorded stays.
RecordFirstOnly ==
    /\ proc = "record"
    /\ proc' = "closing"
    /\ last' = IF last = 0 THEN now ELSE last
    /\ clean' = TRUE
    /\ UNCHANGED <<now, files, buffers, scanVars, early, mishap, ops, runs>>

\* Mutant: the time recorded is ahead of the clock.
RecordAhead ==
    /\ proc = "record"
    /\ proc' = "closing"
    /\ last' = now + 1
    /\ clean' = TRUE
    /\ UNCHANGED <<now, files, buffers, scanVars, early, mishap, ops, runs>>

\* RecordShutdown replaces last_shutdown by the time; if it fails, which is only
\* logged, the previous one stays.
RecordShutdown ==
    /\ proc = "record"
    /\ proc' = "closing"
    /\ \/ last' = now /\ clean' = TRUE /\ UNCHANGED mishap
       \/ last' = last /\ clean' = FALSE /\ Meets(Case("first boot", last = 0))
    /\ UNCHANGED <<now, files, buffers, scanVars, early, ops, runs>>

\* Closing the pool and the database takes longer than a tick of the timestamps.
Exit ==
    /\ proc = "closing"
    /\ now < MaxTime
    /\ now' = now + 1
    /\ proc' = "down"
    /\ UNCHANGED <<files, buffers, last, scanVars, history, ops, runs>>

\* The process dies, before its shutdown is recorded: what it had in memory is lost,
\* last_shutdown stays.
Crash ==
    /\ proc \in {"starting", "up", "flush", "record"}
    /\ Meets(Case("first boot", last = 0))
    /\ proc' = "down"
    /\ queued' = Nothing /\ pending' = Nothing
    /\ walk' = {} /\ found' = {}
    /\ clean' = FALSE
    /\ UNCHANGED <<now, files, last, since, early, ops, runs>>

--------------------------------------------------------------------------------
User == \E p \in Path : Write(p) \/ Remove(p)

Watch == \E p \in Path : ProcessEvent(p) \/ WriteToChangelog(p)

Scan == WalkFails \/ \E p \in Path : Visit(p) \/ ScanAppend(p) \/ AppendFails(p)

Shutdown == FlushAll \/ RecordShutdown \/ Exit

Next ==
    \/ Tick \/ User \/ Watch \/ Scan
    \/ Start \/ FanotifyMark \/ Stop \/ Shutdown \/ Crash

Spec == Init /\ [][Next]_vars

\* The goroutines of a running daemon go on.  Nobody need start it, and it need not
\* stop.
Fairness ==
    /\ WF_vars(FanotifyMark) /\ WF_vars(Shutdown)
    /\ \A p \in Path :
         /\ WF_vars(ProcessEvent(p)) /\ WF_vars(WriteToChangelog(p))
         /\ WF_vars(Visit(p)) /\ WF_vars(ScanAppend(p))

FairSpec == Spec /\ Fairness

--------------------------------------------------------------------------------
(* Properties                                                                 *)

TypeOK ==
    /\ now \in 1..MaxTime
    /\ mtime \in [Path -> 0..MaxTime]
    /\ unlogged \in [Path -> Change \cup {"none"}]
    /\ queued \in [Path -> Change \cup {"none"}]
    /\ pending \in [Path -> Change \cup {"none"}]
    /\ proc \in Proc
    /\ last \in 0..MaxTime /\ since \in 0..MaxTime
    /\ walk \subseteq Path /\ found \subseteq Path
    /\ clean \in BOOLEAN /\ early \subseteq Path /\ mishap \in BOOLEAN
    /\ ops \in 0..MaxOps /\ runs \in 0..MaxRuns

\* A written file has no entry yet, and should get one.
WriteOwed(p) == p \notin Excluded /\ mtime[p] # 0 /\ unlogged[p] = "modify"

\* The change of p is on its way to the changelog, or the next scan finds the file.
WillBeLogged(p) ==
    \/ queued[p] # "none" \/ pending[p] # "none"
    \/ p \in found
    \/ p \in walk /\ mtime[p] > since
    \/ proc = "down" /\ last # 0 /\ mtime[p] > last

\* No write falls between the watcher and the scans: over any number of clean stops
\* and of crashes, in the middle of a scan or of a shutdown included, a file whose
\* last write has no entry is in the buffers, in the scan, or is found by the scan
\* of the next start.  The cases of AllCases are the only ways to lose a write
\* (recovery.go:35-74, 83-140; daemon.go:72-84, 181-193).
NoWriteMissed == ~mishap => \A p \in Path : WriteOwed(p) => WillBeLogged(p)

\* "records `modify` entries for files changed since the last clean shutdown"
\* (docs/configuration.md): after a clean shutdown the scan does not log again what
\* an earlier run has logged (recovery.go:105, daemon.go:187-191).
NothingLoggedTwice == clean => found \cap early = {}

\* "The catchup scan on restart generates entries for all modified files"
\* (docs/operations.md): a write that has no entry when the daemon starts gets one
\* while it runs.
CatchesUp ==
    \A p \in Path :
        WriteOwed(p) /\ proc # "down" ~> ~WriteOwed(p) \/ proc = "down" \/ mishap

\* "This catches changes that occurred while the daemon was not running"
\* (docs/overview.md): the next scan finds what a user has changed since the last
\* shutdown.  It fails: the walk only meets files that are there, so that a file
\* deleted while the daemon is down is never found (recovery.go:85-111).
DowntimeChangesCaught ==
    [][\A p \in Path \ Excluded :
         proc = "down" /\ last # 0 /\ (Write(p) \/ Remove(p))
           => WillBeLogged(p)']_vars

\* Excluded paths do not enter the changelog.  It fails: the scan does not apply the
\* exclude patterns the watcher applies (recovery.go:85-111, watcher.go:258).
ExcludedStaysOut == [][\A p \in Excluded : ~ScanAppend(p)]_vars
================================================================================
