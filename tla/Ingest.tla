--------------------------------- MODULE Ingest --------------------------------
(******************************************************************************)
(* From the configuration and the operations on files to the entries of the   *)
(* changelog: validate (internal/config) accepts a list of sync pairs, the    *)
(* kernel queues fanotify events for the whole file system, every pair's      *)
(* watcher picks those under its own root (processEvent, internal/watcher),   *)
(* and the reconciler and the gRPC server find the file of an entry again     *)
(* with SyncPairByName.                                                       *)
(*                                                                            *)
(* A path is the sequence of its components.  A queued event that concerns    *)
(* the same file and process as a new one is merged with it, wherever in the  *)
(* queue it is: the masks are united and their order is lost.  One queue      *)
(* stands for the pairs' queues, and an entry for the last one of its key; it *)
(* carries the file it is about as history.                                   *)
(******************************************************************************)
EXTENDS Naturals, SequencesExt

CONSTANTS
    Component,  \* names of files and directories
    File,       \* files, as absolute paths
    Root,       \* directories that may be configured as local_path
    PairName,   \* names of sync pairs
    Pattern,    \* the lists of exclude patterns: each the set of paths it matches
    Process,    \* processes of users
    QueueCap,   \* capacity of the fanotify queue
    MaxPairs,   \* bound: sync pairs
    MaxOps      \* bound: operations on files

rsync == "rsync"

ASSUME PathAssumption == File \subseteq Seq(Component) /\ Root \subseteq Seq(Component)
ASSUME ProcessAssumption == rsync \notin Process
ASSUME SizeAssumption ==
    QueueCap \in Nat \ {0} /\ MaxPairs \in Nat \ {0} /\ MaxOps \in Nat

VARIABLES
    pairs,      \* the configured sync pairs, in the order of the file
    present,    \* files that exist
    touched,    \* history: files a user has operated on
    left,       \* history: files the last operation of a user has left in place
    queue,      \* the fanotify queue
    pending,    \* pending[i]: the debouncer of pair i, from paths to events
    entry,      \* from (pair name, path) to the last entry
    garbled,    \* history: files whose events were merged out of order, or lost
    ops         \* counter for the bound

vars == <<pairs, present, touched, left, queue, pending, entry, garbled, ops>>

Pair == [name : PairName, root : Root, excludes : Pattern]

--------------------------------------------------------------------------------
(* The configuration                                                          *)

\* strings.HasPrefix(b, a+"/"): b lies below a.  Not if a is "/", for "//" begins no
\* path.
Below(a, b) == a # <<>> /\ IsStrictPrefix(a, b)

\* Mutant: only equal roots overlap.
OverlapsIfEqual(a, b) == a = b

Overlaps(a, b) == a = b \/ Below(a, b) \/ Below(b, a)

\* The part of validate that is about sync pairs.
validate(list) ==
    /\ list # <<>>
    /\ \A i, j \in DOMAIN list : i < j => ~Overlaps(list[i].root, list[j].root)

\* The first pair of a name.
SyncPairByName(name) ==
    LET of == {i \in DOMAIN pairs : pairs[i].name = name}
    IN  CHOOSE i \in of : \A j \in of : i <= j

\* The file the reconciler and the server take an entry to be about.
FileOf(key) == pairs[SyncPairByName(key[1])].root \o key[2]

--------------------------------------------------------------------------------
(* The watcher of a pair                                                      *)

\* The path of a file relative to a root above it.
Rel(root, file) == SubSeq(file, Len(root) + 1, Len(file))

\* Excluded: the path, one of the directories above it, or a component matches.
Excluded(patterns, path) ==
    \E k \in 1..Len(path) :
        SubSeq(path, 1, k) \in patterns \/ <<path[k]>> \in patterns

\* Mutant: both halves of a move are treated alike.
classifyMovesAlike(mask) ==
    IF "DELETE" \in mask THEN "delete"
    ELSE IF "CLOSE_WRITE" \in mask THEN "modify"
    ELSE IF "CREATE" \in mask THEN "create"
    ELSE IF mask \cap {"MOVED_FROM", "MOVED_TO"} # {} THEN "create"
    ELSE "attrib"

classifyMask(mask) ==
    IF "DELETE" \in mask THEN "delete"
    ELSE IF "CLOSE_WRITE" \in mask THEN "modify"
    ELSE IF "CREATE" \in mask THEN "create"
    ELSE IF "MOVED_FROM" \in mask THEN "delete"
    ELSE IF "MOVED_TO" \in mask THEN "create"
    ELSE "attrib"

\* Pair i is to log the events of a file.
Watches(i, file) ==
    /\ Below(pairs[i].root, file)
    /\ ~Excluded(pairs[i].excludes, Rel(pairs[i].root, file))

Put(f, k, v) == [x \in DOMAIN f \cup {k} |-> IF x = k THEN v ELSE f[x]]

\* processEvent by every pair's watcher.  An rsync is recognised by its name, unless
\* it has exited.
ProcessEvent ==
    /\ queue # <<>>
    /\ LET e == Head(queue)
       IN  \E passes \in (IF e.process = rsync THEN BOOLEAN ELSE {TRUE}) :
             pending' = [i \in DOMAIN pairs |->
               IF passes /\ Watches(i, e.file)
                 THEN Put(pending[i], Rel(pairs[i].root, e.file),
                          [type |-> classifyMask(e.mask), file |-> e.file])
                 ELSE pending[i]]
    /\ queue' = Tail(queue)
    /\ UNCHANGED <<pairs, present, touched, left, entry, garbled, ops>>

\* The debounce window of a path ends: writeToChangelog.
Flush(i, path) ==
    /\ path \in DOMAIN pending[i]
    /\ entry' = Put(entry, <<pairs[i].name, path>>, pending[i][path])
    /\ pending' = [pending EXCEPT ![i] = [x \in DOMAIN @ \ {path} |-> @[x]]]
    /\ UNCHANGED <<pairs, present, touched, left, queue, garbled, ops>>

--------------------------------------------------------------------------------
(* Operations on files, and the kernel's queue                                *)

Leaves == {"CREATE", "CLOSE_WRITE", "MOVED_TO", "ATTRIB"}
Removes == {"DELETE", "MOVED_FROM"}

\* The operation is possible.
Possible(bit, file) ==
    \/ bit = "MOVED_TO"
    \/ bit = "CREATE" /\ file \notin present
    \/ bit \in {"CLOSE_WRITE", "ATTRIB", "DELETE", "MOVED_FROM"} /\ file \in present

\* Where the queue holds the event a new one is merged with.
Same(file, process) ==
    {i \in 1..Len(queue) : queue[i].file = file /\ queue[i].process = process}

\* Merging misleads: the mask has both, leaving and removing the file, or an event of
\* another process for the file comes later in the queue.
Misleads(at, file, bit) ==
    \/ queue[at].mask \cup {bit} \notin (SUBSET Leaves) \cup (SUBSET Removes)
    \/ \E i \in at + 1..Len(queue) : queue[i].file = file

Operation(file, process, bit) ==
    /\ ops < MaxOps /\ ops' = ops + 1
    /\ Possible(bit, file)
    /\ present' = IF bit \in Leaves THEN present \cup {file} ELSE present \ {file}
    /\ \/ \E at \in Same(file, process) :
            /\ queue' = [queue EXCEPT ![at].mask = @ \cup {bit}]
            /\ garbled' = IF Misleads(at, file, bit) THEN garbled \cup {file} ELSE garbled
       \/ /\ Same(file, process) = {} /\ Len(queue) < QueueCap
          /\ queue' = Append(queue, [file |-> file, process |-> process, mask |-> {bit}])
          /\ UNCHANGED garbled
       \/ /\ Same(file, process) = {} /\ Len(queue) = QueueCap
          /\ garbled' = garbled \cup {file}
          /\ UNCHANGED queue
    /\ UNCHANGED <<pairs, pending, entry>>

UserOperation(file, process, bit) ==
    /\ Operation(file, process, bit)
    /\ touched' = touched \cup {file}
    /\ left' = IF bit \in Leaves THEN left \cup {file} ELSE left \ {file}

\* An rsync of the peer renames a finished copy into place.  Once a user has touched
\* the file, the copy is the user's version or a later one (bound: it is not sent then).
RsyncArrives(file) ==
    /\ file \notin touched
    /\ Operation(file, rsync, "MOVED_TO")
    /\ UNCHANGED <<touched, left>>

--------------------------------------------------------------------------------
Init ==
    /\ pairs \in {list \in UNION {[1..n -> Pair] : n \in 1..MaxPairs} : validate(list)}
    /\ present \in SUBSET File
    /\ touched = {} /\ left = {}
    /\ queue = <<>>
    /\ pending = [i \in DOMAIN pairs |-> <<>>]
    /\ entry = <<>>
    /\ garbled = {}
    /\ ops = 0

Next ==
    \/ ProcessEvent
    \/ \E i \in DOMAIN pairs : \E path \in DOMAIN pending[i] : Flush(i, path)
    \/ \E f \in File :
         \/ RsyncArrives(f)
         \/ \E u \in Process, bit \in Leaves \cup Removes : UserOperation(f, u, bit)

Spec == Init /\ [][Next]_vars

--------------------------------------------------------------------------------
(* Properties                                                                 *)

UniqueNames ==
    \A i, j \in DOMAIN pairs : pairs[i].name = pairs[j].name => i = j

\* Nobody confuses two files: with the names unique, an entry leads the cycles and
\* DeleteFile back to the file the watcher has seen, and no file has entries under two
\* keys, of which one would be handled without regard to the other (config.go:299-318,
\* 337-344; watcher.go:245-256).
EntriesNameFiles ==
    UniqueNames =>
      \A k, l \in DOMAIN entry :
        /\ FileOf(k) = entry[k].file
        /\ entry[k].file = entry[l].file => k = l

Settled == queue = <<>> /\ \A i \in DOMAIN pairs : pending[i] = <<>>

\* The last entry of a file a user has touched is a delete if and only if the user has
\* left no file there.
EntryIsTrue(f) ==
    \A i \in DOMAIN pairs :
        Watches(i, f) =>
          LET k == <<pairs[i].name, Rel(pairs[i].root, f)>>
          IN  k \in DOMAIN entry /\ (entry[k].type = "delete" <=> f \notin left)

\* What a settled watcher has logged is true.  It depends on the order of the events and
\* on what classifyMask makes of united masks; only merges that mix or overtake, and a
\* full queue, mislead it (watcher.go:212-287, 358-376).
LastEntryIsTrue ==
    Settled /\ UniqueNames => \A f \in touched \ garbled : EntryIsTrue(f)

\* The name of a sync pair is "required; must be unique within the config"
\* (docs/configuration.md), which would make every entry lead to its file.  It fails:
\* validate does not look at names, and SyncPairByName takes the entries of the second
\* pair of a name for files of the first.
EveryEntryNamesItsFile == \A k \in DOMAIN entry : FileOf(k) = entry[k].file

\* An entry tells what has become of the file, whatever the kernel has merged.  It
\* fails: a file that is deleted and written again before its events are read is logged
\* as deleted (watcher.go:360).
MergedEntryIsTrue == Settled /\ UniqueNames => \A f \in touched : EntryIsTrue(f)
================================================================================
