------------------------------ MODULE RecoveryProofs ---------------------------
(******************************************************************************)
(* Proofs about Recovery, for any files, bounds and cases: its type           *)
(* invariant, that no write is missed, and that nothing is logged twice after *)
(* a clean shutdown.                                                          *)
(*                                                                            *)
(* NoWriteMissed does not say why the next scan finds a file.  It does        *)
(* because a write that has no entry is later than last_shutdown, all the     *)
(* time and not only while the daemon is down, and because nothing is owed    *)
(* once FlushAll is done: RecordShutdown may move last_shutdown past every    *)
(* time stamp then.                                                           *)
(******************************************************************************)
EXTENDS Recovery, TLAPS

--------------------------------------------------------------------------------
(* The inductive invariant                                                    *)

\* A stopped or stopping daemon scans nothing, and has only what its debouncer holds.
Idle ==
    /\ ~Running => walk = {} /\ found = {}
    /\ proc # "up" => queued = Nothing
    /\ proc \notin {"up", "flush"} => pending = Nothing

\* The time recorded is past, strictly from Exit on; the scan uses the one recorded.
Clock ==
    /\ last <= now
    /\ proc # "closing" => last < now
    /\ \A p \in Path : mtime[p] <= now
    /\ Running => since = last

\* Where the write of p that has no entry is, at each point of the daemon's life.
OnItsWay(p) ==
    /\ proc \notin {"record", "closing"}
    /\ mtime[p] > last
    /\ proc = "down" => last # 0
    /\ proc = "starting" => p \in walk \cup found
    /\ proc = "up" => queued[p] # "none" \/ pending[p] # "none" \/ p \in walk \cup found
    /\ proc = "flush" => pending[p] # "none"
    /\ queued[p] \in {"none", "modify"}
    /\ queued[p] = "none" => pending[p] \in {"none", "modify"}

Owed == ~mishap => \A p \in Path : WriteOwed(p) => OnItsWay(p)

\* After a clean shutdown: what has an entry is not newer than the time recorded.
Early ==
    clean =>
      /\ proc \in {"down", "closing"} =>
           \A p \in Path : unlogged[p] = "none" => mtime[p] <= last
      /\ Running => \A p \in early : mtime[p] <= since
      /\ found \cap early = {}

Inv == TypeOK /\ Idle /\ Clock /\ Owed /\ Early

LEMMA InvInit == Init => Inv
  <1> SUFFICES ASSUME Init PROVE Inv
    OBVIOUS
  <1> USE RunsAssumption DEF Init
  <1>1. TypeOK
    <2>1. Nothing \in [Path -> Change \cup {"none"}]
      BY DEF Nothing
    <2>2. mtime \in [Path -> 0..MaxTime]
      OBVIOUS
    <2>3. 1 \in 1..MaxTime /\ 0 \in 0..MaxTime /\ 0 \in 0..MaxOps /\ 0 \in 0..MaxRuns
      OBVIOUS
    <2> QED
      BY <2>1, <2>2, <2>3 DEF TypeOK, Proc
  <1>2. Idle /\ Clock
    BY DEF Idle, Clock, Running
  <1>3. Owed
    BY DEF Owed, WriteOwed, Nothing
  <1>4. Early
    BY DEF Early
  <1> QED
    BY <1>1, <1>2, <1>3, <1>4 DEF Inv

--------------------------------------------------------------------------------
(* What a step may be an instance of                                          *)

\* A step after which no case has happened is an instance of none.
LEMMA NoCase ==
    ASSUME NEW c, Meets(c)
    PROVE  ~mishap' => ~mishap /\ c = {}
  BY DEF Meets

LEMMA CaseEmpty ==
    ASSUME NEW name, NEW condition \in BOOLEAN, Case(name, condition) = {}
    PROVE  ~condition
  BY DEF Case

LEMMA MeetsType ==
    ASSUME NEW c, Meets(c), mishap \in BOOLEAN
    PROVE  mishap' \in BOOLEAN
  BY DEF Meets

--------------------------------------------------------------------------------
(* The type invariant                                                         *)

LEMMA TypeUser ==
    ASSUME TypeOK, User
    PROVE  TypeOK'
  <1>1. ASSUME NEW p \in Path, NEW t \in 0..MaxTime, NEW change \in Change,
               UserChange(p, t, change), mishap' \in BOOLEAN
        PROVE  TypeOK'
    <2>1. ops' \in 0..MaxOps
      BY <1>1, RunsAssumption DEF UserChange, TypeOK
    <2> QED
      BY <1>1, <2>1 DEF UserChange, TypeOK, scanVars
  <1>2. ASSUME NEW p \in Path, Write(p) PROVE TypeOK'
    <2>1. PICK t \in 1..now : /\ Meets(Unseen(p) \cup Case("old mtime", t < now))
                              /\ UserChange(p, t, "modify")
      BY <1>2 DEF Write
    <2>2. t \in 0..MaxTime /\ "modify" \in Change
      BY RunsAssumption DEF TypeOK, Change
    <2> QED
      BY <1>1, <2>1, <2>2, MeetsType DEF TypeOK
  <1>3. ASSUME NEW p \in Path, Remove(p) PROVE TypeOK'
    <2>1. 0 \in 0..MaxTime /\ "delete" \in Change
      BY RunsAssumption DEF Change
    <2> QED
      BY <1>1, <1>3, <2>1, MeetsType DEF TypeOK, Remove
  <1> QED
    BY <1>2, <1>3 DEF User

LEMMA LoggedByType ==
    ASSUME TypeOK, NEW p \in Path, NEW type
    PROVE  LoggedBy(p, type) \in Change \cup {"none"}
  BY DEF TypeOK, LoggedBy

LEMMA TypeScan ==
    ASSUME TypeOK, Scan
    PROVE  TypeOK'
  <1> USE DEF TypeOK, files, buffers, history
  <1>1. CASE WalkFails
    BY <1>1, MeetsType DEF WalkFails
  <1>2. ASSUME NEW p \in Path, Visit(p) PROVE TypeOK'
    BY <1>2 DEF Visit
  <1>3. ASSUME NEW p \in Path, ScanAppend(p) PROVE TypeOK'
    BY <1>3, LoggedByType DEF ScanAppend
  <1>4. ASSUME NEW p \in Path, AppendFails(p) PROVE TypeOK'
    <2>1. mishap' \in BOOLEAN
      BY <1>4, MeetsType DEF AppendFails
    <2> QED
      BY <1>4, <2>1 DEF AppendFails
  <1> QED
    BY <1>1, <1>2, <1>3, <1>4 DEF Scan

LEMMA TypeStep ==
    ASSUME TypeOK, [Next]_vars
    PROVE  TypeOK'
  <1> USE RunsAssumption DEF files, buffers, scanVars, history
  <1>1. CASE Tick
    BY <1>1 DEF Tick, TypeOK
  <1>2. CASE User
    BY <1>2, TypeUser
  <1>3. CASE Watch
    <2>1. ASSUME NEW p \in Path, ProcessEvent(p) PROVE TypeOK'
      BY <2>1 DEF ProcessEvent, TypeOK
    <2>2. ASSUME NEW p \in Path, WriteToChangelog(p) PROVE TypeOK'
      BY <2>2, LoggedByType DEF WriteToChangelog, TypeOK
    <2> QED
      BY <1>3, <2>1, <2>2 DEF Watch
  <1>4. CASE Scan
    BY <1>4, TypeScan
  <1>5. CASE Start
    BY <1>5 DEF Start, TypeOK, Proc
  <1>6. CASE FanotifyMark
    BY <1>6 DEF FanotifyMark, TypeOK, Proc
  <1>7. CASE Stop
    <2>1. mishap' \in BOOLEAN
      BY <1>7, MeetsType DEF Stop, TypeOK
    <2>2. queued' \in [Path -> Change \cup {"none"}]
      BY <1>7 DEF Stop, Nothing
    <2>3. pending' \in [Path -> Change \cup {"none"}]
      BY <1>7 DEF Stop, TypeOK
    <2> QED
      BY <1>7, <2>1, <2>2, <2>3 DEF Stop, TypeOK, Proc
  <1>8. CASE Shutdown
    <2>1. CASE FlushAll
      BY <1>8, <2>1, LoggedByType DEF FlushAll, TypeOK, Proc, Nothing
    <2>2. CASE RecordShutdown
      <3>1. UNCHANGED mishap \/ Meets(Case("first boot", last = 0))
        BY <2>2 DEF RecordShutdown
      <3>4. mishap' \in BOOLEAN
        BY <3>1, MeetsType, Zenon DEF TypeOK
      <3>2. last' \in 0..MaxTime
        <4>1. last' = now \/ last' = last
          BY <2>2 DEF RecordShutdown
        <4> QED
          BY <4>1 DEF TypeOK
      <3>3. clean' \in BOOLEAN
        BY <2>2 DEF RecordShutdown
      <3> QED
        BY <2>2, <3>4, <3>2, <3>3 DEF RecordShutdown, TypeOK, Proc
    <2>3. CASE Exit
      BY <2>3 DEF Exit, TypeOK, Proc
    <2> QED
      BY <1>8, <2>1, <2>2, <2>3 DEF Shutdown
  <1>9. CASE Crash
    <2>1. mishap' \in BOOLEAN
      BY <1>9, MeetsType DEF Crash, TypeOK
    <2> QED
      BY <1>9, <2>1 DEF Crash, TypeOK, Proc, Nothing
  <1>10. CASE UNCHANGED vars
    BY <1>10 DEF vars, TypeOK
  <1> QED
    BY <1>1, <1>2, <1>3, <1>4, <1>5, <1>6, <1>7, <1>8, <1>9, <1>10 DEF Next

--------------------------------------------------------------------------------
(* Each action keeps the rest of the invariant                                *)

\* Users' changes: a write is stamped with the clock, and so later than last_shutdown.
LEMMA KeptByUser ==
    ASSUME Inv, User
    PROVE  Idle' /\ Clock' /\ Owed' /\ Early'
  <1> USE RunsAssumption
  <1>1. ASSUME NEW p \in Path, NEW t \in 0..now, NEW change \in Change,
               UserChange(p, t, change)
        PROVE  Idle' /\ Clock' /\ Early'
    <2> USE <1>1 DEF Inv, TypeOK, UserChange, scanVars
    <2>1. Idle'
      BY DEF Idle, Running
    <2>2. Clock'
      BY DEF Clock, Running
    <2>3. Early'
      BY DEF Early, Running, Change
    <2> QED
      BY <2>1, <2>2, <2>3
  <1>2. ASSUME NEW p \in Path, Write(p) PROVE Idle' /\ Clock' /\ Owed' /\ Early'
    <2>1. PICK t \in 1..now : /\ Meets(Unseen(p) \cup Case("old mtime", t < now))
                              /\ UserChange(p, t, "modify")
      BY <1>2 DEF Write
    <2>2. t \in 0..now /\ "modify" \in Change
      BY DEF Change, Inv, TypeOK
    <2>3. Idle' /\ Clock' /\ Early'
      BY <1>1, <2>1, <2>2
    <2>4. ASSUME ~mishap' PROVE Owed'
      <3>1. ~mishap /\ Unseen(p) = {} /\ Case("old mtime", t < now) = {}
        BY <2>1, <2>4, NoCase
      <3>2. t = now
        <4>1. ~(t < now)
          BY <3>1, CaseEmpty, Zenon
        <4> QED
          BY <4>1 DEF Inv, TypeOK
      <3>3. /\ ~(proc = "down" /\ last = 0)
            /\ ~(proc = "starting" /\ p \notin walk)
            /\ proc \notin {"flush", "record", "closing"}
        <4>1. /\ Case("first boot", proc = "down" /\ last = 0) = {}
              /\ Case("late watch", proc = "starting" /\ p \notin walk) = {}
              /\ Case("busy stop", proc \in {"flush", "record", "closing"}) = {}
          BY <3>1 DEF Unseen
        <4> QED
          BY <4>1, CaseEmpty, Zenon
      <3>4. ASSUME NEW q \in Path, WriteOwed(q)' PROVE OnItsWay(q)'
        <4> USE <2>1 DEF UserChange, Inv, TypeOK, scanVars
        <4>1. CASE q = p
          BY <3>2, <3>3, <4>1 DEF OnItsWay, Clock, Proc, Idle, Nothing
        <4>2. CASE q # p
          <5>1. WriteOwed(q)
            BY <3>4, <4>2 DEF WriteOwed
          <5>2. OnItsWay(q)
            BY <3>1, <5>1 DEF Owed
          <5> QED
            BY <5>2, <4>2 DEF OnItsWay
        <4> QED
          BY <4>1, <4>2
      <3> QED
        BY <3>4 DEF Owed
    <2> QED
      BY <2>3, <2>4 DEF Owed
  <1>3. ASSUME NEW p \in Path, Remove(p) PROVE Idle' /\ Clock' /\ Owed' /\ Early'
    <2>1. /\ Meets(Case("first boot", proc = "down" /\ last = 0))
          /\ UserChange(p, 0, "delete")
      BY <1>3 DEF Remove
    <2>2. 0 \in 0..now /\ "delete" \in Change
      BY DEF Change, Inv, TypeOK
    <2>3. Idle' /\ Clock' /\ Early'
      BY <1>1, <2>1, <2>2
    <2>4. ASSUME ~mishap', NEW q \in Path, WriteOwed(q)' PROVE OnItsWay(q)'
      <3> USE <2>1 DEF UserChange, Inv, TypeOK, scanVars
      <3>1. ~mishap
        BY <2>1, <2>4, NoCase
      <3>2. WriteOwed(q) /\ q # p
        BY <2>4 DEF WriteOwed
      <3>3. OnItsWay(q)
        BY <3>1, <3>2 DEF Owed
      <3> QED
        BY <3>3, <3>2 DEF OnItsWay
    <2> QED
      BY <2>3, <2>4 DEF Owed
  <1> QED
    BY <1>2, <1>3 DEF User

\* The watcher: an event that is logged is that of the last change, or another follows.
LEMMA KeptByWatch ==
    ASSUME Inv, Watch
    PROVE  Idle' /\ Clock' /\ Owed' /\ Early'
  <1> USE DEF Inv, TypeOK, files, scanVars, history
  <1>1. ASSUME NEW p \in Path, ProcessEvent(p) PROVE Idle' /\ Clock' /\ Owed' /\ Early'
    <2> USE <1>1 DEF ProcessEvent
    <2>1. Idle' /\ Clock' /\ Early'
      BY DEF Idle, Clock, Early, Running
    <2>2. ASSUME ~mishap, NEW q \in Path, WriteOwed(q) PROVE OnItsWay(q)'
      <3>1. OnItsWay(q) /\ q \notin Excluded
        BY <2>2 DEF Owed, WriteOwed
      <3>2. CASE q = p
        BY <3>1, <3>2 DEF OnItsWay
      <3>3. CASE q # p
        BY <3>1, <3>3 DEF OnItsWay
      <3> QED
        BY <3>2, <3>3
    <2> QED
      BY <2>1, <2>2 DEF Owed, WriteOwed
  <1>2. ASSUME NEW p \in Path, WriteToChangelog(p)
        PROVE  Idle' /\ Clock' /\ Owed' /\ Early'
    <2> USE <1>2 DEF WriteToChangelog
    <2>1. Idle' /\ Clock' /\ Early'
      BY DEF Idle, Clock, Early, Running
    <2>2. ASSUME ~mishap, NEW q \in Path, WriteOwed(q)' PROVE OnItsWay(q)'
      <3>1. WriteOwed(q)
        BY <2>2 DEF WriteOwed, LoggedBy
      <3>2. OnItsWay(q)
        BY <2>2, <3>1 DEF Owed
      <3>3. CASE q = p
        BY <2>2, <3>1, <3>2, <3>3 DEF OnItsWay, WriteOwed, LoggedBy
      <3>4. CASE q # p
        BY <3>2, <3>4 DEF OnItsWay
      <3> QED
        BY <3>3, <3>4
    <2> QED
      BY <2>1, <2>2 DEF Owed
  <1> QED
    BY <1>1, <1>2 DEF Watch

\* The scan: a file it passes over is not newer than last_shutdown, so that it is not
\* owed, or its event is in the watcher's buffers.
LEMMA KeptByScan ==
    ASSUME Inv, Scan
    PROVE  Idle' /\ Clock' /\ Owed' /\ Early'
  <1> USE DEF Inv, TypeOK, files, buffers, history
  <1>1. CASE WalkFails
    <2> USE <1>1 DEF WalkFails
    <2>1. mishap'
      BY NoCase
    <2> QED
      BY <2>1 DEF Idle, Clock, Owed, Early, Running
  <1>2. ASSUME NEW p \in Path, Visit(p) PROVE Idle' /\ Clock' /\ Owed' /\ Early'
    <2> USE <1>2 DEF Visit
    <2>1. Idle' /\ Clock'
      BY DEF Idle, Clock, Running
    <2>2. Early'
      BY DEF Early, Running
    <2>3. ASSUME ~mishap, NEW q \in Path, WriteOwed(q) PROVE OnItsWay(q)'
      <3>1. OnItsWay(q) /\ since = last
        BY <2>3 DEF Owed, Clock
      <3> QED
        BY <3>1 DEF OnItsWay
    <2> QED
      BY <2>1, <2>2, <2>3 DEF Owed, WriteOwed
  <1>3. ASSUME NEW p \in Path, ScanAppend(p) PROVE Idle' /\ Clock' /\ Owed' /\ Early'
    <2> USE <1>3 DEF ScanAppend
    <2>1. Idle' /\ Clock' /\ Early'
      BY DEF Idle, Clock, Early, Running
    <2>2. ASSUME ~mishap, NEW q \in Path, WriteOwed(q)' PROVE OnItsWay(q)'
      <3>1. WriteOwed(q) /\ q # p
        BY <2>2 DEF WriteOwed, LoggedBy
      <3>2. OnItsWay(q)
        BY <2>2, <3>1 DEF Owed
      <3> QED
        BY <3>1, <3>2 DEF OnItsWay
    <2> QED
      BY <2>1, <2>2 DEF Owed
  <1>4. ASSUME NEW p \in Path, AppendFails(p) PROVE Idle' /\ Clock' /\ Owed' /\ Early'
    <2> USE <1>4 DEF AppendFails
    <2>1. mishap'
      BY NoCase
    <2>2. Idle'
      BY DEF Idle, Running
    <2> QED
      BY <2>1, <2>2 DEF Clock, Owed, Early, Running
  <1> QED
    BY <1>1, <1>2, <1>3, <1>4 DEF Scan

\* Start: what is owed is later than last_shutdown, and the scan looks at every file.
LEMMA KeptByStart ==
    ASSUME Inv, Start \/ FanotifyMark
    PROVE  Idle' /\ Clock' /\ Owed' /\ Early'
  <1> USE DEF Inv, TypeOK, files, buffers, scanVars, history
  <1>1. CASE Start
    <2> USE <1>1 DEF Start
    <2>1. Idle' /\ Clock'
      BY DEF Idle, Clock, Running
    <2>2. Early'
      BY DEF Early, Running, Idle
    <2>3. ASSUME ~mishap, NEW q \in Path, WriteOwed(q) PROVE OnItsWay(q)'
      BY <2>3 DEF OnItsWay, Owed
    <2> QED
      BY <2>1, <2>2, <2>3 DEF Owed, WriteOwed
  <1>2. CASE FanotifyMark
    <2> USE <1>2 DEF FanotifyMark
    <2>1. Idle' /\ Clock' /\ Early'
      BY DEF Idle, Clock, Early, Running
    <2>2. ASSUME ~mishap, NEW q \in Path, WriteOwed(q) PROVE OnItsWay(q)'
      BY <2>2 DEF OnItsWay, Owed
    <2> QED
      BY <2>1, <2>2 DEF Owed, WriteOwed
  <1> QED
    BY <1>1, <1>2

\* Stop: unless a case happens the debouncer holds all there is.
LEMMA KeptByStop ==
    ASSUME Inv, Stop
    PROVE  Idle' /\ Clock' /\ Owed' /\ Early'
  <1> USE DEF Inv, TypeOK, files, Stop
  <1>1. Idle' /\ Clock'
    BY DEF Idle, Clock, Running
  <1>2. Early'
    BY DEF Early, Running
  <1>3. ASSUME ~mishap', NEW q \in Path, WriteOwed(q) PROVE OnItsWay(q)'
    <2>1. /\ ~mishap
          /\ Case("stop in scan", walk \cup found # {}) = {}
          /\ Case("busy stop", queued # Nothing \/ pending' # pending) = {}
      BY <1>3, NoCase
    <2>2. walk \cup found = {} /\ queued = Nothing /\ pending' = pending
      BY <2>1, CaseEmpty, Zenon
    <2>3. OnItsWay(q) /\ queued[q] = "none"
      BY <1>3, <2>1, <2>2 DEF Owed, Nothing
    <2>4. proc \in {"starting", "up"}
      BY DEF Running
    <2> QED
      BY <2>2, <2>3, <2>4 DEF OnItsWay
  <1> QED
    BY <1>1, <1>2, <1>3 DEF Owed, WriteOwed

\* FlushAll leaves nothing owed, and so RecordShutdown may forget every earlier time.
LEMMA KeptByShutdown ==
    ASSUME Inv, Shutdown
    PROVE  Idle' /\ Clock' /\ Owed' /\ Early'
  <1> USE DEF Inv, TypeOK, files, buffers, scanVars, history
  <1>1. CASE FlushAll
    <2> USE <1>1 DEF FlushAll
    <2>1. Idle' /\ Clock' /\ Early'
      BY DEF Idle, Clock, Early, Running
    <2>2. ASSUME ~mishap, NEW q \in Path, WriteOwed(q)' PROVE FALSE
      <3>1. WriteOwed(q)
        BY <2>2 DEF WriteOwed, LoggedBy
      <3>2. pending[q] = "modify"
        BY <2>2, <3>1 DEF Owed, OnItsWay, Idle, Nothing
      <3> QED
        BY <2>2, <3>1, <3>2 DEF WriteOwed, LoggedBy
    <2> QED
      BY <2>1, <2>2 DEF Owed
  <1>2. CASE RecordShutdown
    <2>1. last' = now \/ last' = last
      BY <1>2 DEF RecordShutdown
    <2>2. /\ proc = "record" /\ proc' = "closing"
          /\ UNCHANGED <<now, mtime, unlogged, queued, pending, since, walk, found, early>>
      BY <1>2 DEF RecordShutdown
    <2>3. Idle'
      BY <2>2 DEF Idle, Running
    <2>4. Clock'
      BY <2>1, <2>2 DEF Clock, Running
    <2>5. Early'
      <3>1. clean' => last' = now
        BY <1>2 DEF RecordShutdown
      <3>2. found = {}
        BY <2>2 DEF Idle, Running
      <3> QED
        BY <2>2, <3>1, <3>2 DEF Early, Clock, Running
    <2>6. ~mishap' => ~mishap
      <3>1. UNCHANGED mishap \/ Meets(Case("first boot", last = 0))
        BY <1>2 DEF RecordShutdown
      <3> QED
        BY <3>1, NoCase, Zenon
    <2>7. ASSUME ~mishap', NEW q \in Path, WriteOwed(q)' PROVE FALSE
      BY <2>2, <2>6, <2>7 DEF Owed, OnItsWay, WriteOwed
    <2> QED
      BY <2>3, <2>4, <2>5, <2>7 DEF Owed
  <1>3. CASE Exit
    <2> USE <1>3 DEF Exit
    <2>1. Idle' /\ Clock' /\ Early'
      BY DEF Idle, Clock, Early, Running
    <2>2. ASSUME ~mishap, NEW q \in Path, WriteOwed(q)' PROVE FALSE
      BY <2>2 DEF Owed, OnItsWay, WriteOwed
    <2> QED
      BY <2>1, <2>2 DEF Owed
  <1> QED
    BY <1>1, <1>2, <1>3 DEF Shutdown

\* Crash: what was in memory is still later than last_shutdown.
LEMMA KeptByCrash ==
    ASSUME Inv, Crash
    PROVE  Idle' /\ Clock' /\ Owed' /\ Early'
  <1> USE DEF Inv, TypeOK, files, Crash
  <1>1. Idle' /\ Clock' /\ Early'
    BY DEF Idle, Clock, Early, Running
  <1>2. ASSUME ~mishap', NEW q \in Path, WriteOwed(q) PROVE OnItsWay(q)'
    <2>1. ~mishap /\ Case("first boot", last = 0) = {}
      BY <1>2, NoCase
    <2>2. last # 0
      BY <2>1, CaseEmpty, Zenon
    <2>3. OnItsWay(q)
      BY <1>2, <2>1 DEF Owed
    <2> QED
      BY <2>2, <2>3 DEF OnItsWay, Nothing
  <1> QED
    BY <1>1, <1>2 DEF Owed, WriteOwed

LEMMA InvStep ==
    ASSUME Inv, [Next]_vars
    PROVE  Inv'
  <1>1. TypeOK'
    BY TypeStep DEF Inv
  <1>2. Idle' /\ Clock' /\ Owed' /\ Early'
    <2>1. CASE Tick
      <3> USE <2>1 DEF Tick, Inv, TypeOK, files, buffers, scanVars, history
      <3>1. Idle' /\ Clock' /\ Early'
        BY DEF Idle, Clock, Early, Running
      <3>2. Owed'
        BY DEF Owed, OnItsWay, WriteOwed
      <3> QED
        BY <3>1, <3>2
    <2>2. CASE UNCHANGED vars
      <3> USE <2>2 DEF vars, Inv
      <3>1. Idle' /\ Clock' /\ Early'
        BY DEF Idle, Clock, Early, Running, Nothing
      <3>2. Owed'
        BY DEF Owed, OnItsWay, WriteOwed
      <3> QED
        BY <3>1, <3>2
    <2> QED
      BY <2>1, <2>2, KeptByUser, KeptByWatch, KeptByScan, KeptByStart, KeptByStop,
         KeptByShutdown, KeptByCrash DEF Next
  <1> QED
    BY <1>1, <1>2 DEF Inv

--------------------------------------------------------------------------------
(* The theorems                                                               *)

LEMMA InvAlways == Spec => []Inv
  BY InvInit, InvStep, PTL DEF Spec

\* Every reachable state has the types TypeOK gives, whatever the files, the exclude
\* patterns, the bounds and the cases allowed.
THEOREM TypeCorrect == Spec => []TypeOK
  <1>1. Inv => TypeOK
    BY DEF Inv
  <1> QED
    BY <1>1, InvAlways, PTL

\* No write falls between the watcher and the scans (recovery.go:35-140,
\* daemon.go:181-193), for any number of files, changes, stops and crashes: the cases
\* of AllCases are the only ways to lose one.
THEOREM NoWriteIsMissed == Spec => []NoWriteMissed
  <1>1. Inv => NoWriteMissed
    <2> SUFFICES ASSUME Inv, ~mishap, NEW p \in Path, WriteOwed(p)
                 PROVE  WillBeLogged(p)
      BY DEF NoWriteMissed
    <2>1. OnItsWay(p)
      BY DEF Inv, Owed
    <2>2. proc \in {"down", "starting", "up", "flush"}
      BY <2>1 DEF OnItsWay, Inv, TypeOK, Proc
    <2>3. proc \in {"starting", "up"} => mtime[p] > since
      BY <2>1 DEF OnItsWay, Inv, Clock, Running
    <2> QED
      BY <2>1, <2>2, <2>3 DEF OnItsWay, WillBeLogged
  <1> QED
    BY <1>1, InvAlways, PTL

\* After a clean shutdown the scan finds nothing an earlier run has logged
\* (recovery.go:105, daemon.go:187-191), whatever else has gone wrong.
THEOREM NothingIsLoggedTwice == Spec => []NothingLoggedTwice
  <1>1. Inv => NothingLoggedTwice
    BY DEF Inv, Early, NothingLoggedTwice
  <1> QED
    BY <1>1, InvAlways, PTL
================================================================================
