------------------------------- MODULE IngestProofs ----------------------------
(******************************************************************************)
(* Proofs about Ingest, for any directories, files, sync pairs, patterns,     *)
(* processes and bounds: entries name files, and the last entry is true.      *)
(*                                                                            *)
(* Entries name files because the watcher and SyncPairByName agree on the     *)
(* pair of a file: roots that are both above a file overlap, which validate   *)
(* rules out.  The last entry is true because the newest event of a file is   *)
(* somewhere in the queue, the debouncer or the changelog, behind all older   *)
(* ones, with a mask that says what the user has left.                        *)
(******************************************************************************)
EXTENDS Ingest, TLAPS

--------------------------------------------------------------------------------
(* The inductive invariant                                                    *)

QueuedEvent ==
    [file : File, process : Process \cup {rsync}, mask : SUBSET (Leaves \cup Removes)]

Configured ==
    /\ DOMAIN pairs \subseteq Nat
    /\ \A i \in DOMAIN pairs : pairs[i] \in Pair
    /\ validate(pairs)

Typed == Configured /\ queue \in Seq(QueuedEvent) /\ DOMAIN pending = DOMAIN pairs

\* The file is below the root of pair i, and has this key there.
Under(i, file) == file \in File /\ Below(pairs[i].root, file)
Key(i, file) == <<pairs[i].name, Rel(pairs[i].root, file)>>

Named ==
    /\ \A i \in DOMAIN pairs : \A path \in DOMAIN pending[i] :
         LET file == pending[i][path].file
         IN  Under(i, file) /\ path = Rel(pairs[i].root, file)
    /\ \A k \in DOMAIN entry :
         \E i \in DOMAIN pairs : Under(i, entry[k].file) /\ k = Key(i, entry[k].file)

\* The event in the queue at n is the newest one of f, and tells what the user has left.
NewestAt(f, n) ==
    /\ queue[n].file = f /\ \A m \in 1..Len(queue) : m > n => queue[m].file # f
    /\ queue[n].process # rsync
    /\ queue[n].mask # {}
    /\ queue[n].mask \subseteq (IF f \in left THEN Leaves ELSE Removes)

\* The newest event of f has left the queue: it is the one in the debouncer, or without
\* one the last entry.
Recorded(f) ==
    /\ \A n \in 1..Len(queue) : queue[n].file # f
    /\ \A i \in DOMAIN pairs :
         Watches(i, f) =>
           LET path == Rel(pairs[i].root, f)
           IN  IF path \in DOMAIN pending[i]
               THEN pending[i][path].type = "delete" <=> f \notin left
               ELSE /\ Key(i, f) \in DOMAIN entry
                    /\ entry[Key(i, f)].type = "delete" <=> f \notin left

Tracked ==
    /\ \A n \in 1..Len(queue) :
         queue[n].process # rsync => queue[n].file \in touched
    /\ touched \subseteq File
    /\ UniqueNames =>
         \A f \in touched \ garbled :
           (\E n \in 1..Len(queue) : NewestAt(f, n)) \/ Recorded(f)

Inv == Typed /\ Named /\ Tracked

--------------------------------------------------------------------------------
(* Paths                                                                      *)

\* A root above a file has the file's first components.
LEMMA BelowElements ==
    ASSUME NEW a \in Seq(Component), NEW f \in Seq(Component), Below(a, f)
    PROVE  /\ Len(a) \in Nat \ {0} /\ Len(a) <= Len(f)
           /\ \A n \in 1..Len(a) : a[n] = f[n]
  <1>1. Len(a) <= Len(f) /\ SubSeq(a, 1, Len(a)) = SubSeq(f, 1, Len(a)) /\ a # <<>>
    BY DEF Below, IsStrictPrefix, IsPrefix
  <1>2. Len(a) \in Nat \ {0}
    BY <1>1
  <1>3. ASSUME NEW n \in 1..Len(a) PROVE a[n] = f[n]
    <2>1. SubSeq(a, 1, Len(a))[n] = a[n]
      OBVIOUS
    <2>2. SubSeq(f, 1, Len(a))[n] = f[n]
      BY <1>1
    <2> QED
      BY <1>1, <2>1, <2>2
  <1> QED
    BY <1>1, <1>2, <1>3

LEMMA ElementsBelow ==
    ASSUME NEW a \in Seq(Component), NEW b \in Seq(Component),
           a # <<>>, a # b, Len(a) <= Len(b), \A n \in 1..Len(a) : a[n] = b[n]
    PROVE  Below(a, b)
  <1>1. SubSeq(a, 1, Len(a)) = SubSeq(b, 1, Len(a))
    OBVIOUS
  <1> QED
    BY <1>1 DEF Below, IsStrictPrefix, IsPrefix

\* Two roots above one file overlap: this is what validate needs to rule out.
LEMMA RootsOfOneFileOverlap ==
    ASSUME NEW a \in Seq(Component), NEW b \in Seq(Component), NEW f \in Seq(Component),
           Below(a, f), Below(b, f)
    PROVE  Overlaps(a, b)
  <1>1. /\ Len(a) \in Nat \ {0} /\ \A n \in 1..Len(a) : a[n] = f[n]
        /\ Len(b) \in Nat \ {0} /\ \A n \in 1..Len(b) : b[n] = f[n]
    BY BelowElements
  <1>2. a # <<>> /\ b # <<>>
    BY DEF Below
  <1>3. CASE a = b
    BY <1>3 DEF Overlaps
  <1>4. CASE a # b /\ Len(a) <= Len(b)
    <2>1. \A n \in 1..Len(a) : a[n] = b[n]
      BY <1>1, <1>4
    <2> QED
      BY <1>2, <1>4, <2>1, ElementsBelow DEF Overlaps
  <1>5. CASE a # b /\ Len(b) <= Len(a)
    <2>1. \A n \in 1..Len(b) : b[n] = a[n]
      BY <1>1, <1>5
    <2> QED
      BY <1>2, <1>5, <2>1, ElementsBelow DEF Overlaps
  <1> QED
    BY <1>1, <1>3, <1>4, <1>5

\* A root and the path relative to it make the file again.
LEMMA Rejoin ==
    ASSUME NEW r \in Seq(Component), NEW f \in Seq(Component), Below(r, f)
    PROVE  r \o Rel(r, f) = f
  <1>1. Len(r) \in Nat /\ Len(r) <= Len(f) /\ \A n \in 1..Len(r) : r[n] = f[n]
    BY BelowElements
  <1>2. /\ Rel(r, f) \in Seq(Component) /\ Len(Rel(r, f)) = Len(f) - Len(r)
        /\ \A n \in 1..Len(f) - Len(r) : Rel(r, f)[n] = f[Len(r) + n]
    BY <1>1 DEF Rel
  <1>3. r \o Rel(r, f) \in Seq(Component) /\ Len(r \o Rel(r, f)) = Len(f)
    BY <1>1, <1>2
  <1>4. ASSUME NEW n \in 1..Len(f) PROVE (r \o Rel(r, f))[n] = f[n]
    <2>1. CASE n <= Len(r)
      <3>1. n \in 1..Len(r)
        BY <1>1, <2>1
      <3>2. (r \o Rel(r, f))[n] = r[n]
        BY <1>2, <3>1
      <3> QED
        BY <1>1, <3>1, <3>2
    <2>2. CASE n > Len(r)
      <3>1. (r \o Rel(r, f))[n] = Rel(r, f)[n - Len(r)]
        BY <1>1, <1>2, <2>2
      <3>2. n - Len(r) \in 1..Len(f) - Len(r) /\ Len(r) + (n - Len(r)) = n
        BY <1>1, <2>2
      <3> QED
        BY <1>2, <3>1, <3>2
    <2>3. n <= Len(r) \/ n > Len(r)
      BY <1>1
    <2> QED
      BY <2>1, <2>2, <2>3, Zenon
  <1> QED
    BY <1>3, <1>4, SMTT(30)

--------------------------------------------------------------------------------
(* Keys and files                                                             *)

LEMMA PathTypes ==
    ASSUME Configured, NEW i \in DOMAIN pairs
    PROVE  pairs[i].root \in Seq(Component)
  BY PathAssumption DEF Configured, Pair

\* Two pairs do not watch the same file.
LEMMA OnePair ==
    ASSUME Configured, NEW i \in DOMAIN pairs, NEW j \in DOMAIN pairs, NEW f,
           Under(i, f), Under(j, f)
    PROVE  i = j
  <1>1. /\ pairs[i].root \in Seq(Component) /\ pairs[j].root \in Seq(Component)
        /\ f \in Seq(Component)
    BY PathTypes, PathAssumption DEF Under
  <1>2. Overlaps(pairs[i].root, pairs[j].root) /\ Overlaps(pairs[j].root, pairs[i].root)
    BY <1>1, RootsOfOneFileOverlap DEF Under
  <1>3. i \in Nat /\ j \in Nat
    BY DEF Configured
  <1>4. ~(i < j) /\ ~(j < i)
    BY <1>2 DEF Configured, validate
  <1> QED
    BY <1>3, <1>4

\* A pair has different paths for different files.
LEMMA OnePath ==
    ASSUME Configured, NEW i \in DOMAIN pairs, NEW f, NEW g, Under(i, f), Under(i, g),
           Rel(pairs[i].root, f) = Rel(pairs[i].root, g)
    PROVE  f = g
  <1>1. pairs[i].root \in Seq(Component) /\ f \in Seq(Component) /\ g \in Seq(Component)
    BY PathTypes, PathAssumption DEF Under
  <1>2. /\ pairs[i].root \o Rel(pairs[i].root, f) = f
        /\ pairs[i].root \o Rel(pairs[i].root, g) = g
    BY <1>1, Rejoin DEF Under
  <1> QED
    BY <1>2

\* With unique names SyncPairByName finds the pair.
LEMMA ByName ==
    ASSUME Configured, UniqueNames, NEW i \in DOMAIN pairs
    PROVE  SyncPairByName(pairs[i].name) = i
  <1> DEFINE of == {j \in DOMAIN pairs : pairs[j].name = pairs[i].name}
  <1>1. of = {i}
    BY DEF UniqueNames
  <1>2. i <= i
    BY DEF Configured
  <1>3. (CHOOSE j \in of : \A l \in of : j <= l) = i
    BY <1>1, <1>2
  <1> QED
    BY <1>3 DEF SyncPairByName

\* The keys of a file lead back to it.
LEMMA KeyLeadsBack ==
    ASSUME Configured, UniqueNames, NEW i \in DOMAIN pairs, NEW f, Under(i, f)
    PROVE  FileOf(Key(i, f)) = f
  <1>1. pairs[i].root \in Seq(Component) /\ f \in Seq(Component)
    BY PathTypes, PathAssumption DEF Under
  <1>2. pairs[i].root \o Rel(pairs[i].root, f) = f
    BY <1>1, Rejoin DEF Under
  <1>3. SyncPairByName(pairs[i].name) = i
    BY ByName
  <1> QED
    BY <1>2, <1>3 DEF FileOf, Key

LEMMA OneKey ==
    ASSUME Configured, UniqueNames, NEW i \in DOMAIN pairs, NEW j \in DOMAIN pairs,
           NEW f, NEW g, Under(i, f), Under(j, g), Key(i, f) = Key(j, g)
    PROVE  i = j /\ f = g
  <1>1. i = j
    BY DEF Key, UniqueNames
  <1>2. Rel(pairs[i].root, f) = Rel(pairs[i].root, g)
    BY <1>1 DEF Key
  <1> QED
    BY <1>1, <1>2, OnePath

--------------------------------------------------------------------------------
(* Initial states                                                             *)

LEMMA EmptyMap == DOMAIN <<>> = {} /\ Len(<<>>) = 0
  OBVIOUS

LEMMA InvInit == Init => Inv
  <1> SUFFICES ASSUME Init PROVE Inv
    OBVIOUS
  <1>1. Configured
    <2>1. PICK n \in 1..MaxPairs : pairs \in [1..n -> Pair] /\ validate(pairs)
      BY DEF Init
    <2> QED
      BY <2>1, SizeAssumption DEF Configured
  <1>2. Typed
    BY <1>1 DEF Typed, Init
  <1>3. Named
    BY EmptyMap DEF Named, Init
  <1>4. Tracked
    BY EmptyMap DEF Tracked, Init
  <1> QED
    BY <1>2, <1>3, <1>4 DEF Inv

--------------------------------------------------------------------------------
(* The debounce window of a path ends                                         *)

LEMMA FlushKeepsNamed ==
    ASSUME Inv, NEW i \in DOMAIN pairs, NEW path, Flush(i, path)
    PROVE  Named'
  <1> USE DEF Inv, Typed
  <1> DEFINE file == pending[i][path].file
  <1>1. /\ path \in DOMAIN pending[i] /\ UNCHANGED pairs
        /\ entry' = Put(entry, <<pairs[i].name, path>>, pending[i][path])
        /\ pending' = [pending EXCEPT ![i] = [x \in DOMAIN pending[i] \ {path} |-> pending[i][x]]]
    BY DEF Flush
  <1>2. Under(i, file) /\ path = Rel(pairs[i].root, file)
    BY <1>1 DEF Named
  <1>3. ASSUME NEW j \in DOMAIN pairs, NEW q \in DOMAIN pending'[j]
        PROVE  Under(j, pending'[j][q].file) /\ q = Rel(pairs[j].root, pending'[j][q].file)
    <2>1. q \in DOMAIN pending[j] /\ pending'[j][q] = pending[j][q]
      BY <1>1, <1>3
    <2> QED
      BY <2>1 DEF Named
  <1>4. ASSUME NEW k \in DOMAIN entry'
        PROVE  \E j \in DOMAIN pairs :
                 Under(j, entry'[k].file) /\ k = Key(j, entry'[k].file)
    <2>1. CASE k = <<pairs[i].name, path>>
      <3>1. entry'[k] = pending[i][path]
        BY <1>1, <2>1 DEF Put
      <3> QED
        BY <1>2, <2>1, <3>1 DEF Key
    <2>2. CASE k # <<pairs[i].name, path>>
      <3>1. k \in DOMAIN entry /\ entry'[k] = entry[k]
        BY <1>1, <1>4, <2>2 DEF Put
      <3> QED
        BY <3>1 DEF Named
    <2> QED
      BY <2>1, <2>2
  <1> QED
    BY <1>1, <1>3, <1>4 DEF Named, Under, Key

LEMMA FlushKeepsTracked ==
    ASSUME Inv, NEW i \in DOMAIN pairs, NEW path, Flush(i, path)
    PROVE  Tracked'
  <1> USE DEF Inv, Typed
  <1> DEFINE file == pending[i][path].file
  <1>1. /\ path \in DOMAIN pending[i]
        /\ UNCHANGED <<pairs, queue, touched, garbled, left>>
        /\ entry' = Put(entry, <<pairs[i].name, path>>, pending[i][path])
        /\ pending' = [pending EXCEPT ![i] = [x \in DOMAIN pending[i] \ {path} |-> pending[i][x]]]
    BY DEF Flush
  <1>2. Under(i, file) /\ path = Rel(pairs[i].root, file)
    BY <1>1 DEF Named
  <1>3. ASSUME UniqueNames, NEW f \in File, Recorded(f) PROVE Recorded(f)'
    <2>1. ASSUME NEW j \in DOMAIN pairs, Watches(j, f)
          PROVE  LET q == Rel(pairs[j].root, f)
                 IN  IF q \in DOMAIN pending'[j]
                     THEN pending'[j][q].type = "delete" <=> f \notin left
                     ELSE /\ Key(j, f) \in DOMAIN entry'
                          /\ entry'[Key(j, f)].type = "delete" <=> f \notin left
      <3> DEFINE q == Rel(pairs[j].root, f)
      <3>1. Under(j, f)
        BY <2>1 DEF Watches, Under
      <3>2. IF q \in DOMAIN pending[j]
            THEN pending[j][q].type = "delete" <=> f \notin left
            ELSE /\ Key(j, f) \in DOMAIN entry
                 /\ entry[Key(j, f)].type = "delete" <=> f \notin left
        BY <1>3, <2>1 DEF Recorded
      <3>3. CASE j = i /\ q = path
        <4>1. Key(j, f) = <<pairs[i].name, path>> /\ q \notin DOMAIN pending'[j]
          BY <1>1, <3>3 DEF Key
        <4>2. Key(j, f) \in DOMAIN entry' /\ entry'[Key(j, f)] = pending[j][q]
          BY <1>1, <3>3, <4>1 DEF Put
        <4> QED
          BY <1>1, <3>2, <3>3, <4>1, <4>2
      <3>4. CASE ~(j = i /\ q = path)
        <4>1. Key(j, f) # <<pairs[i].name, path>>
          <5>1. Key(i, file) = <<pairs[i].name, path>>
            BY <1>2 DEF Key
          <5> QED
            BY <1>2, <1>3, <3>1, <3>4, <5>1, OneKey DEF Key
        <4>2. /\ q \in DOMAIN pending'[j] <=> q \in DOMAIN pending[j]
              /\ q \in DOMAIN pending[j] => pending'[j][q] = pending[j][q]
          BY <1>1, <3>4
        <4>3. Key(j, f) \in DOMAIN entry =>
                Key(j, f) \in DOMAIN entry' /\ entry'[Key(j, f)] = entry[Key(j, f)]
          BY <1>1, <4>1 DEF Put
        <4> QED
          BY <3>2, <4>2, <4>3
      <3> QED
        BY <3>3, <3>4
    <2> QED
      BY <1>1, <1>3, <2>1 DEF Recorded, Watches, Key
  <1>4. \A f, n : NewestAt(f, n)' = NewestAt(f, n)
    BY <1>1 DEF NewestAt
  <1>5. UniqueNames' = UniqueNames
    BY <1>1 DEF UniqueNames
  <1> QED
    BY <1>1, <1>3, <1>4, <1>5 DEF Tracked

--------------------------------------------------------------------------------
(* processEvent                                                               *)

LEMMA PutElements ==
    ASSUME NEW f, NEW k, NEW v
    PROVE  /\ k \in DOMAIN Put(f, k, v) /\ Put(f, k, v)[k] = v
           /\ \A x : x # k => /\ x \in DOMAIN Put(f, k, v) <=> x \in DOMAIN f
                              /\ x \in DOMAIN f => Put(f, k, v)[x] = f[x]
  BY DEF Put

\* What classifyMask makes of a mask that does not mix.
LEMMA Classified ==
    ASSUME NEW mask, mask # {}
    PROVE  /\ mask \subseteq Leaves => classifyMask(mask) # "delete"
           /\ mask \subseteq Removes => classifyMask(mask) = "delete"
  <1>1. ASSUME mask \subseteq Leaves PROVE classifyMask(mask) # "delete"
    BY <1>1 DEF Leaves, classifyMask
  <1>2. ASSUME mask \subseteq Removes PROVE classifyMask(mask) = "delete"
    BY <1>2 DEF Removes, classifyMask
  <1> QED
    BY <1>1, <1>2

LEMMA TailElements ==
    ASSUME NEW S, NEW s \in Seq(S), s # <<>>
    PROVE  /\ Tail(s) \in Seq(S) /\ Len(Tail(s)) = Len(s) - 1
           /\ \A n \in 1..Len(s) - 1 : Tail(s)[n] = s[n + 1]
           /\ Len(s) \in Nat \ {0} /\ Head(s) = s[1] /\ s[1] \in S
  OBVIOUS

\* What ProcessEvent does to the debouncer of a pair.
LEMMA Processed ==
    ASSUME Inv, ProcessEvent
    PROVE  /\ queue # <<>> /\ queue' = Tail(queue)
           /\ UNCHANGED <<pairs, present, touched, left, entry, garbled, ops>>
           /\ DOMAIN pending' = DOMAIN pairs
           /\ \E passes \in BOOLEAN :
                /\ Head(queue).process # rsync => passes
                /\ \A i \in DOMAIN pairs :
                     pending'[i] =
                       IF passes /\ Watches(i, Head(queue).file)
                       THEN Put(pending[i], Rel(pairs[i].root, Head(queue).file),
                                [type |-> classifyMask(Head(queue).mask),
                                 file |-> Head(queue).file])
                       ELSE pending[i]
  <1>1. PICK passes \in (IF Head(queue).process = rsync THEN BOOLEAN ELSE {TRUE}) :
          pending' = [i \in DOMAIN pairs |->
            IF passes /\ Watches(i, Head(queue).file)
              THEN Put(pending[i], Rel(pairs[i].root, Head(queue).file),
                       [type |-> classifyMask(Head(queue).mask), file |-> Head(queue).file])
              ELSE pending[i]]
    BY DEF ProcessEvent
  <1>2. passes \in BOOLEAN /\ (Head(queue).process # rsync => passes)
    OBVIOUS
  <1> QED
    BY <1>1, <1>2 DEF ProcessEvent

LEMMA ProcessKeepsTyped ==
    ASSUME Inv, ProcessEvent
    PROVE  Typed'
  <1>1. queue # <<>> /\ queue' = Tail(queue) /\ UNCHANGED pairs
    BY Processed
  <1>2. queue' \in Seq(QueuedEvent)
    BY <1>1, TailElements DEF Inv, Typed
  <1>3. Configured' /\ DOMAIN pending' = DOMAIN pairs'
    BY <1>1, Processed DEF Inv, Typed, Configured, validate
  <1> QED
    BY <1>2, <1>3 DEF Typed

LEMMA ProcessKeepsNamed ==
    ASSUME Inv, ProcessEvent
    PROVE  Named'
  <1> DEFINE e == Head(queue)
             event == [type |-> classifyMask(e.mask), file |-> e.file]
  <1>1. UNCHANGED <<pairs, entry>> /\ queue # <<>>
    BY Processed
  <1>2. e \in QueuedEvent
    BY <1>1, TailElements DEF Inv, Typed
  <1>3. PICK passes \in BOOLEAN : \A i \in DOMAIN pairs :
          pending'[i] = IF passes /\ Watches(i, e.file)
                        THEN Put(pending[i], Rel(pairs[i].root, e.file), event)
                        ELSE pending[i]
    BY Processed
  <1>4. ASSUME NEW j \in DOMAIN pairs, NEW q \in DOMAIN pending'[j]
        PROVE  Under(j, pending'[j][q].file) /\ q = Rel(pairs[j].root, pending'[j][q].file)
    <2>1. CASE passes /\ Watches(j, e.file) /\ q = Rel(pairs[j].root, e.file)
      <3>1. pending'[j][q] = event
        BY <1>3, <2>1 DEF Put
      <3>2. Under(j, e.file)
        BY <1>2, <2>1 DEF QueuedEvent, Under, Watches
      <3> QED
        BY <2>1, <3>1, <3>2
    <2>2. CASE ~(passes /\ Watches(j, e.file) /\ q = Rel(pairs[j].root, e.file))
      <3>1. q \in DOMAIN pending[j] /\ pending'[j][q] = pending[j][q]
        <4>1. CASE passes /\ Watches(j, e.file)
          <5>1. pending'[j] = Put(pending[j], Rel(pairs[j].root, e.file), event)
            BY <1>3, <4>1
          <5>2. q # Rel(pairs[j].root, e.file)
            BY <2>2, <4>1
          <5> QED
            BY <1>4, <5>1, <5>2, PutElements
        <4>2. CASE ~(passes /\ Watches(j, e.file))
          BY <1>3, <1>4, <4>2
        <4> QED
          BY <4>1, <4>2
      <3> QED
        BY <3>1 DEF Inv, Named
    <2> QED
      BY <2>1, <2>2
  <1> QED
    BY <1>1, <1>4 DEF Inv, Named, Under, Key

\* An older event, and one of another file, leave the state of f as it was.
LEMMA ProcessKeepsRecorded ==
    ASSUME Inv, ProcessEvent, NEW f \in File, Recorded(f)
    PROVE  Recorded(f)'
  <1> DEFINE e == Head(queue)
             event == [type |-> classifyMask(e.mask), file |-> e.file]
  <1>1. UNCHANGED <<pairs, entry, left>> /\ queue # <<>> /\ queue' = Tail(queue)
    BY Processed
  <1>2. /\ e = queue[1] /\ e \in QueuedEvent /\ Len(queue) \in Nat \ {0}
        /\ Len(queue') = Len(queue) - 1
        /\ \A n \in 1..Len(queue) - 1 : queue'[n] = queue[n + 1]
    BY <1>1, TailElements DEF Inv, Typed
  <1>3. PICK passes \in BOOLEAN : \A i \in DOMAIN pairs :
          pending'[i] = IF passes /\ Watches(i, e.file)
                        THEN Put(pending[i], Rel(pairs[i].root, e.file), event)
                        ELSE pending[i]
    BY Processed
  <1>4. e.file # f /\ \A n \in 1..Len(queue') : queue'[n].file # f
    BY <1>2 DEF Recorded
  <1>5. ASSUME NEW j \in DOMAIN pairs, Watches(j, f)
        PROVE  LET q == Rel(pairs[j].root, f)
               IN  /\ q \in DOMAIN pending'[j] <=> q \in DOMAIN pending[j]
                   /\ q \in DOMAIN pending[j] => pending'[j][q] = pending[j][q]
    <2>1. CASE passes /\ Watches(j, e.file)
      <3>1. Under(j, f) /\ Under(j, e.file)
        <4>1. e.file \in File
          BY <1>2 DEF QueuedEvent
        <4> QED
          BY <1>5, <2>1, <4>1 DEF Under, Watches
      <3>2. Rel(pairs[j].root, f) # Rel(pairs[j].root, e.file)
        BY <1>4, <3>1, OnePath DEF Inv, Typed
      <3>3. pending'[j] = Put(pending[j], Rel(pairs[j].root, e.file), event)
        BY <1>3, <2>1
      <3> QED
        BY <3>2, <3>3, PutElements
    <2>2. CASE ~(passes /\ Watches(j, e.file))
      BY <1>3, <2>2
    <2> QED
      BY <2>1, <2>2
  <1> QED
    BY <1>1, <1>4, <1>5 DEF Recorded, Watches, Key

LEMMA ProcessKeepsTracked ==
    ASSUME Inv, ProcessEvent
    PROVE  Tracked'
  <1> DEFINE e == Head(queue)
             event == [type |-> classifyMask(e.mask), file |-> e.file]
  <1>1. /\ UNCHANGED <<pairs, entry, left, touched, garbled>>
        /\ queue # <<>> /\ queue' = Tail(queue)
    BY Processed
  <1>2. /\ e = queue[1] /\ e \in QueuedEvent /\ Len(queue) \in Nat \ {0}
        /\ Len(queue') = Len(queue) - 1
        /\ \A n \in 1..Len(queue) - 1 : queue'[n] = queue[n + 1]
    BY <1>1, TailElements DEF Inv, Typed
  <1>3. \A n \in 1..Len(queue') : queue'[n].process # rsync => queue'[n].file \in touched'
    BY <1>1, <1>2 DEF Inv, Tracked
  <1>4. ASSUME NEW f \in File, NEW n \in 1..Len(queue), n > 1, NewestAt(f, n)
        PROVE  n - 1 \in 1..Len(queue') /\ NewestAt(f, n - 1)'
    <2>1. n - 1 \in 1..Len(queue') /\ queue'[n - 1] = queue[n]
      BY <1>2, <1>4
    <2>2. ASSUME NEW m \in 1..Len(queue'), m > n - 1 PROVE queue'[m].file # f
      <3>1. m + 1 \in 1..Len(queue) /\ m + 1 > n /\ queue'[m] = queue[m + 1]
        BY <1>2, <2>2
      <3> QED
        BY <1>4, <3>1 DEF NewestAt
    <2> QED
      BY <1>1, <1>4, <2>1, <2>2 DEF NewestAt
  <1>5. ASSUME NEW f \in File, NewestAt(f, 1)
        PROVE  Recorded(f)'
    <2>1. e.file = f /\ e.process # rsync /\ e.mask # {}
      BY <1>2, <1>5 DEF NewestAt
    <2>2. e.mask \subseteq (IF f \in left THEN Leaves ELSE Removes)
      BY <1>2, <1>5 DEF NewestAt
    <2>3. event.type = "delete" <=> f \notin left
      BY <2>1, <2>2, Classified
    <2>4. \A m \in 1..Len(queue') : queue'[m].file # f
      BY <1>2, <1>5 DEF NewestAt
    <2>5. ASSUME NEW j \in DOMAIN pairs, Watches(j, f)
          PROVE  pending'[j] = Put(pending[j], Rel(pairs[j].root, f), event)
      BY <2>1, <2>5, Processed
    <2>6. ASSUME NEW j \in DOMAIN pairs, Watches(j, f)
          PROVE  /\ Rel(pairs[j].root, f) \in DOMAIN pending'[j]
                 /\ pending'[j][Rel(pairs[j].root, f)] = event
      BY <2>5, <2>6 DEF Put
    <2> QED
      BY <1>1, <2>3, <2>4, <2>6 DEF Recorded, Watches
  <1>6. ASSUME UniqueNames, NEW f \in touched \ garbled
        PROVE  (\E n \in 1..Len(queue') : NewestAt(f, n)') \/ Recorded(f)'
    <2>1. f \in File
      BY DEF Inv, Tracked
    <2>2. CASE Recorded(f)
      BY <2>1, <2>2, ProcessKeepsRecorded
    <2>3. CASE \E n \in 1..Len(queue) : NewestAt(f, n)
      <3>1. PICK n \in 1..Len(queue) : NewestAt(f, n)
        BY <2>3
      <3>2. n = 1 \/ n > 1
        BY <1>2
      <3> QED
        BY <2>1, <3>1, <3>2, <1>4, <1>5
    <2> QED
      BY <1>6, <2>2, <2>3 DEF Inv, Tracked
  <1>7. UniqueNames' = UniqueNames
    BY <1>1 DEF UniqueNames
  <1> QED
    BY <1>1, <1>3, <1>6, <1>7 DEF Tracked, Inv

--------------------------------------------------------------------------------
(* Operations on files                                                        *)

\* The new event is merged into the queue at at.
Merged(at, file, process, bit) ==
    /\ at \in 1..Len(queue)
    /\ queue[at].file = file /\ queue[at].process = process
    /\ Len(queue') = Len(queue)
    /\ queue'[at] = [queue[at] EXCEPT !.mask = @ \cup {bit}]
    /\ \A n \in 1..Len(queue) : n # at => queue'[n] = queue[n]
    /\ garbled \subseteq garbled' /\ (Misleads(at, file, bit) => file \in garbled')

\* It is the last of the queue.
Queued(file, process, bit) ==
    /\ Len(queue') = Len(queue) + 1
    /\ queue'[Len(queue) + 1] = [file |-> file, process |-> process, mask |-> {bit}]
    /\ \A n \in 1..Len(queue) : queue'[n] = queue[n]
    /\ garbled' = garbled

LEMMA ReplaceElement ==
    ASSUME NEW S, NEW s \in Seq(S), NEW n \in 1..Len(s), NEW e \in S
    PROVE  /\ [s EXCEPT ![n] = e] \in Seq(S) /\ Len([s EXCEPT ![n] = e]) = Len(s)
           /\ [s EXCEPT ![n] = e][n] = e
           /\ \A m \in 1..Len(s) : m # n => [s EXCEPT ![n] = e][m] = s[m]
  OBVIOUS

LEMMA OperationQueue ==
    ASSUME Typed, NEW file \in File, NEW process \in Process \cup {rsync},
           NEW bit \in Leaves \cup Removes, Operation(file, process, bit)
    PROVE  /\ queue' \in Seq(QueuedEvent)
           /\ \/ \E at \in 1..Len(queue) : Merged(at, file, process, bit)
              \/ Queued(file, process, bit)
              \/ queue' = queue /\ garbled' = garbled \cup {file}
  <1> USE DEF Typed
  <1>1. CASE \E at \in Same(file, process) :
               /\ queue' = [queue EXCEPT ![at].mask = @ \cup {bit}]
               /\ garbled' = IF Misleads(at, file, bit) THEN garbled \cup {file}
                             ELSE garbled
    <2>1. PICK at \in Same(file, process) :
            /\ queue' = [queue EXCEPT ![at].mask = @ \cup {bit}]
            /\ garbled' = IF Misleads(at, file, bit) THEN garbled \cup {file}
                          ELSE garbled
      BY <1>1
    <2>2. at \in 1..Len(queue) /\ queue[at].file = file /\ queue[at].process = process
      BY DEF Same
    <2>3. queue[at] \in QueuedEvent
      BY <2>2
    <2> DEFINE e == [queue[at] EXCEPT !.mask = @ \cup {bit}]
    <2>4. e \in QueuedEvent
      BY <2>3 DEF QueuedEvent
    <2>5. queue' = [queue EXCEPT ![at] = e]
      BY <2>1
    <2> HIDE DEF e
    <2>6. /\ queue' \in Seq(QueuedEvent) /\ Len(queue') = Len(queue)
          /\ queue'[at] = e
          /\ \A n \in 1..Len(queue) : n # at => queue'[n] = queue[n]
      BY <2>2, <2>4, <2>5, ReplaceElement
    <2>7. garbled \subseteq garbled' /\ (Misleads(at, file, bit) => file \in garbled')
      BY <2>1
    <2> QED
      BY <2>2, <2>6, <2>7 DEF Merged, e
  <1>2. CASE queue' = Append(queue, [file |-> file, process |-> process, mask |-> {bit}])
             /\ UNCHANGED garbled
    <2>1. [file |-> file, process |-> process, mask |-> {bit}] \in QueuedEvent
      BY DEF QueuedEvent
    <2> DEFINE e == [file |-> file, process |-> process, mask |-> {bit}]
    <2> HIDE DEF e
    <2>2. /\ Append(queue, e) \in Seq(QueuedEvent) /\ Len(Append(queue, e)) = Len(queue) + 1
          /\ Append(queue, e)[Len(queue) + 1] = e
          /\ \A n \in 1..Len(queue) : Append(queue, e)[n] = queue[n]
      BY <2>1 DEF e
    <2> QED
      BY <1>2, <2>2 DEF Queued, e
  <1>3. CASE UNCHANGED queue /\ garbled' = garbled \cup {file}
    BY <1>3
  <1> QED
    BY <1>1, <1>2, <1>3 DEF Operation

LEMMA OperationKeepsOthers ==
    ASSUME Inv, NEW file \in File, NEW process \in Process \cup {rsync},
           NEW bit \in Leaves \cup Removes, Operation(file, process, bit),
           NEW f \in File, f # file, f \in left' <=> f \in left
    PROVE  /\ f \notin garbled' => f \notin garbled
           /\ Recorded(f) => Recorded(f)'
           /\ \A n \in 1..Len(queue) : NewestAt(f, n) => n \in 1..Len(queue') /\ NewestAt(f, n)'
  <1>1. UNCHANGED <<pairs, pending, entry>>
    BY DEF Operation
  <1>2. Len(queue) \in Nat
    BY DEF Inv, Typed
  <1>3. /\ garbled \subseteq garbled'
        /\ Len(queue') \in Nat /\ Len(queue) <= Len(queue')
        /\ \A n \in 1..Len(queue) : queue[n].file = f => queue'[n] = queue[n]
        /\ \A n \in 1..Len(queue') : queue'[n].file = f => n \in 1..Len(queue) /\ queue[n].file = f
    <2>1. ASSUME NEW at \in 1..Len(queue), Merged(at, file, process, bit) PROVE <1>3!:
      <3>1. queue'[at].file = file
        <4>1. queue[at] \in QueuedEvent
          BY DEF Inv, Typed
        <4> QED
          BY <2>1, <4>1 DEF Merged, QueuedEvent
      <3>2. /\ Len(queue') = Len(queue) /\ garbled \subseteq garbled' /\ queue[at].file = file
            /\ \A n \in 1..Len(queue) : n # at => queue'[n] = queue[n]
        BY <2>1 DEF Merged
      <3> QED
        BY <1>2, <3>1, <3>2
    <2>2. CASE Queued(file, process, bit)
      <3>1. queue'[Len(queue) + 1].file = file
        BY <2>2 DEF Queued
      <3> QED
        BY <1>2, <2>2, <3>1 DEF Queued
    <2>3. CASE queue' = queue /\ garbled' = garbled \cup {file}
      BY <1>2, <2>3
    <2> QED
      BY <2>1, <2>2, <2>3, OperationQueue DEF Inv
  <1>4. Recorded(f) => Recorded(f)'
    BY <1>1, <1>3 DEF Recorded, Watches, Key
  <1>5. ASSUME NEW n \in 1..Len(queue), NewestAt(f, n)
        PROVE  n \in 1..Len(queue') /\ NewestAt(f, n)'
    <2>1. n \in 1..Len(queue') /\ queue'[n] = queue[n]
      BY <1>2, <1>3, <1>5 DEF NewestAt
    <2>2. \A m \in 1..Len(queue') : m > n => queue'[m].file # f
      BY <1>3, <1>5 DEF NewestAt
    <2> QED
      BY <1>5, <2>1, <2>2 DEF NewestAt
  <1> QED
    BY <1>3, <1>4, <1>5

\* The file of the operation: unless its events are garbled the new event is its newest.
LEMMA OperationNewest ==
    ASSUME Inv, NEW file \in File, NEW process \in Process,
           NEW bit \in Leaves \cup Removes, Operation(file, process, bit),
           file \in left' <=> bit \in Leaves, file \notin garbled'
    PROVE  \E n \in 1..Len(queue') : NewestAt(file, n)'
  <1>0. process \in Process \cup {rsync} /\ process # rsync
    BY ProcessAssumption
  <1>1. Len(queue) \in Nat
    BY DEF Inv, Typed
  <1>2. bit \in (IF file \in left' THEN Leaves ELSE Removes)
    BY DEF Leaves, Removes
  <1>3. ASSUME NEW at \in 1..Len(queue), Merged(at, file, process, bit)
        PROVE  at \in 1..Len(queue') /\ NewestAt(file, at)'
    <2>1. queue[at] \in QueuedEvent
      BY DEF Inv, Typed
    <2>2. /\ queue'[at].file = file /\ queue'[at].process = process
          /\ queue'[at].mask = queue[at].mask \cup {bit}
      BY <1>3, <2>1 DEF Merged, QueuedEvent
    <2>3. ~Misleads(at, file, bit)
      BY <1>3 DEF Merged
    <2>4. \A m \in 1..Len(queue') : m > at => queue'[m].file # file
      <3>1. /\ Len(queue') = Len(queue)
            /\ \A n \in 1..Len(queue) : n # at => queue'[n] = queue[n]
        BY <1>3 DEF Merged
      <3>2. ASSUME NEW m \in 1..Len(queue'), m > at PROVE queue'[m].file # file
        <4>1. m \in at + 1..Len(queue) /\ m \in 1..Len(queue) /\ m # at
          BY <1>1, <3>1, <3>2
        <4> QED
          BY <2>3, <3>1, <4>1 DEF Misleads
      <3> QED
        BY <3>2
    <2>5. queue[at].mask \cup {bit} \subseteq (IF file \in left' THEN Leaves ELSE Removes)
      <3>1. \/ queue[at].mask \cup {bit} \subseteq Leaves
            \/ queue[at].mask \cup {bit} \subseteq Removes
        BY <2>3 DEF Misleads
      <3> QED
        BY <1>2, <3>1 DEF Leaves, Removes
    <2>6. at \in 1..Len(queue')
      BY <1>3 DEF Merged
    <2> QED
      BY <1>0, <2>2, <2>4, <2>5, <2>6 DEF NewestAt
  <1>4. ASSUME Queued(file, process, bit), NEW n \in Nat, n = Len(queue) + 1
        PROVE  n \in 1..Len(queue') /\ NewestAt(file, n)'
    <2>1. Len(queue') = n /\ n \in 1..Len(queue')
      BY <1>1, <1>4 DEF Queued
    <2>2. queue'[n].file = file /\ queue'[n].process = process /\ queue'[n].mask = {bit}
      BY <1>4 DEF Queued
    <2>3. \A m \in 1..Len(queue') : ~(m > n)
      BY <2>1
    <2> QED
      BY <1>0, <1>2, <2>1, <2>2, <2>3 DEF NewestAt
  <1>5. queue' = queue /\ garbled' = garbled \cup {file} => file \in garbled'
    OBVIOUS
  <1> QED
    <2>1. Len(queue) + 1 \in Nat
      BY <1>1
    <2>2. \/ \E at \in 1..Len(queue) : Merged(at, file, process, bit)
          \/ Queued(file, process, bit)
          \/ queue' = queue /\ garbled' = garbled \cup {file}
      BY <1>0, OperationQueue DEF Inv
    <2> QED
      BY <1>3, <1>4, <1>5, <2>1, <2>2

LEMMA OperationKeeps ==
    ASSUME Inv, NEW file \in File, NEW process \in Process \cup {rsync},
           NEW bit \in Leaves \cup Removes, Operation(file, process, bit),
           touched \subseteq touched', process # rsync => file \in touched'
    PROVE  /\ Typed' /\ Named'
           /\ \A n \in 1..Len(queue') :
                queue'[n].process # rsync => queue'[n].file \in touched'
  <1>1. UNCHANGED <<pairs, pending, entry>>
    BY DEF Operation
  <1>2. Typed'
    BY <1>1, OperationQueue DEF Inv, Typed, Configured, validate
  <1>3. Named'
    BY <1>1 DEF Inv, Named, Under, Key
  <1>4. Len(queue) \in Nat
    BY DEF Inv, Typed
  <1>5. ASSUME NEW n \in 1..Len(queue'), queue'[n].process # rsync
        PROVE  queue'[n].file \in touched'
    <2>1. ASSUME NEW at \in 1..Len(queue), Merged(at, file, process, bit)
          PROVE  queue'[n].file \in touched'
      <3>1. queue[at] \in QueuedEvent
        BY DEF Inv, Typed
      <3>2. /\ queue'[at].file = file /\ queue'[at].process = process
            /\ Len(queue') = Len(queue) /\ (n # at => queue'[n] = queue[n])
        BY <2>1, <3>1 DEF Merged, QueuedEvent
      <3> QED
        BY <1>5, <3>2 DEF Inv, Tracked
    <2>2. CASE Queued(file, process, bit)
      <3>1. n = Len(queue) + 1 \/ n \in 1..Len(queue)
        BY <1>4, <2>2 DEF Queued
      <3>2. CASE n = Len(queue) + 1
        BY <1>5, <2>2, <3>2 DEF Queued
      <3>3. CASE n \in 1..Len(queue)
        BY <1>5, <2>2, <3>3 DEF Queued, Inv, Tracked
      <3> QED
        BY <3>1, <3>2, <3>3
    <2>3. CASE queue' = queue
      BY <1>5, <2>3 DEF Inv, Tracked
    <2> QED
      BY <2>1, <2>2, <2>3, OperationQueue DEF Inv
  <1> QED
    BY <1>2, <1>3, <1>5

\* Files a user's operation is not about.
LEMMA OthersTracked ==
    ASSUME Inv, NEW file \in File, NEW process \in Process \cup {rsync},
           NEW bit \in Leaves \cup Removes, Operation(file, process, bit),
           UniqueNames, NEW f \in touched, f \notin garbled', f # file,
           f \in left' <=> f \in left
    PROVE  (\E n \in 1..Len(queue') : NewestAt(f, n)') \/ Recorded(f)'
  <1>1. f \in File
    BY DEF Inv, Tracked
  <1>2. /\ f \notin garbled
        /\ Recorded(f) => Recorded(f)'
        /\ \A n \in 1..Len(queue) : NewestAt(f, n) => n \in 1..Len(queue') /\ NewestAt(f, n)'
    BY <1>1, OperationKeepsOthers
  <1>3. (\E n \in 1..Len(queue) : NewestAt(f, n)) \/ Recorded(f)
    BY <1>2 DEF Inv, Tracked
  <1> QED
    BY <1>2, <1>3

LEMMA UserKeeps ==
    ASSUME Inv, NEW file \in File, NEW process \in Process,
           NEW bit \in Leaves \cup Removes, UserOperation(file, process, bit)
    PROVE  Inv'
  <1>1. /\ Operation(file, process, bit) /\ touched' = touched \cup {file}
        /\ left' = IF bit \in Leaves THEN left \cup {file} ELSE left \ {file}
        /\ process \in Process \cup {rsync}
    BY DEF UserOperation
  <1>2. UNCHANGED pairs
    BY <1>1 DEF Operation
  <1>3. /\ Typed' /\ Named'
        /\ \A n \in 1..Len(queue') : queue'[n].process # rsync => queue'[n].file \in touched'
    BY <1>1, OperationKeeps
  <1>4. touched' \subseteq File
    BY <1>1 DEF Inv, Tracked
  <1>5. ASSUME UniqueNames, NEW f \in touched' \ garbled'
        PROVE  (\E n \in 1..Len(queue') : NewestAt(f, n)') \/ Recorded(f)'
    <2>1. CASE f = file
      <3>1. file \in left' <=> bit \in Leaves
        BY <1>1
      <3> QED
        BY <1>1, <1>5, <2>1, <3>1, OperationNewest
    <2>2. CASE f # file
      <3>1. f \in touched /\ (f \in left' <=> f \in left)
        BY <1>1, <1>5, <2>2
      <3> QED
        BY <1>1, <1>5, <2>2, <3>1, OthersTracked
    <2> QED
      BY <2>1, <2>2
  <1>6. UniqueNames' = UniqueNames
    BY <1>2 DEF UniqueNames
  <1>7. Tracked'
    BY <1>3, <1>4, <1>5, <1>6 DEF Tracked
  <1> QED
    BY <1>3, <1>7 DEF Inv

LEMMA RsyncKeeps ==
    ASSUME Inv, NEW file \in File, RsyncArrives(file)
    PROVE  Inv'
  <1>1. /\ Operation(file, rsync, "MOVED_TO") /\ file \notin touched
        /\ UNCHANGED <<touched, left>>
        /\ rsync \in Process \cup {rsync} /\ "MOVED_TO" \in Leaves \cup Removes
    BY DEF RsyncArrives, Leaves
  <1>2. UNCHANGED pairs
    BY <1>1 DEF Operation
  <1>3. /\ Typed' /\ Named'
        /\ \A n \in 1..Len(queue') : queue'[n].process # rsync => queue'[n].file \in touched'
    BY <1>1, OperationKeeps
  <1>4. ASSUME UniqueNames, NEW f \in touched' \ garbled'
        PROVE  (\E n \in 1..Len(queue') : NewestAt(f, n)') \/ Recorded(f)'
    BY <1>1, <1>4, OthersTracked
  <1>5. UniqueNames' = UniqueNames
    BY <1>2 DEF UniqueNames
  <1>6. Tracked'
    BY <1>1, <1>3, <1>4, <1>5 DEF Tracked, Inv
  <1> QED
    BY <1>3, <1>6 DEF Inv

LEMMA InvStep ==
    ASSUME Inv, [Next]_vars
    PROVE  Inv'
  <1>1. CASE ProcessEvent
    BY <1>1, ProcessKeepsTyped, ProcessKeepsNamed, ProcessKeepsTracked DEF Inv
  <1>2. ASSUME NEW i \in DOMAIN pairs, NEW path \in DOMAIN pending[i], Flush(i, path)
        PROVE  Inv'
    <2>1. Typed'
      BY <1>2 DEF Flush, Inv, Typed, Configured, validate
    <2> QED
      BY <1>2, <2>1, FlushKeepsNamed, FlushKeepsTracked DEF Inv
  <1>3. ASSUME NEW f \in File, RsyncArrives(f) PROVE Inv'
    BY <1>3, RsyncKeeps
  <1>4. ASSUME NEW f \in File, NEW u \in Process, NEW bit \in Leaves \cup Removes,
               UserOperation(f, u, bit)
        PROVE  Inv'
    BY <1>4, UserKeeps
  <1>5. CASE UNCHANGED vars
    <2>1. Typed'
      BY <1>5 DEF vars, Inv, Typed, Configured, validate
    <2>2. Named'
      BY <1>5 DEF vars, Inv, Named, Under, Key
    <2>3. Tracked'
      BY <1>5 DEF vars, Inv, Tracked, UniqueNames, NewestAt, Recorded, Watches, Key
    <2> QED
      BY <2>1, <2>2, <2>3 DEF Inv
  <1> QED
    BY <1>1, <1>2, <1>3, <1>4, <1>5 DEF Next

--------------------------------------------------------------------------------
(* The theorems                                                               *)

LEMMA InvAlways == Spec => []Inv
  BY InvInit, InvStep, PTL DEF Spec

\* With unique names an entry leads back to the file the watcher has seen, and no file
\* has entries under two keys (config.go:299-318, 337-344; watcher.go:245-256), for any
\* number of pairs, any roots validate accepts and any files.
THEOREM EntriesNameTheirFiles == Spec => []EntriesNameFiles
  <1>1. Inv => EntriesNameFiles
    <2> SUFFICES ASSUME Inv, UniqueNames, NEW k \in DOMAIN entry, NEW l \in DOMAIN entry
                 PROVE  /\ FileOf(k) = entry[k].file
                        /\ entry[k].file = entry[l].file => k = l
      BY DEF EntriesNameFiles
    <2>1. Configured
      BY DEF Inv, Typed
    <2>2. PICK i \in DOMAIN pairs : Under(i, entry[k].file) /\ k = Key(i, entry[k].file)
      BY DEF Inv, Named
    <2>3. PICK j \in DOMAIN pairs : Under(j, entry[l].file) /\ l = Key(j, entry[l].file)
      BY DEF Inv, Named
    <2>4. FileOf(Key(i, entry[k].file)) = entry[k].file
      BY <2>1, <2>2, KeyLeadsBack
    <2>5. ASSUME entry[k].file = entry[l].file PROVE k = l
      <3>1. i = j
        BY <2>1, <2>2, <2>3, <2>5, OnePair
      <3> QED
        BY <2>2, <2>3, <2>5, <3>1
    <2> QED
      BY <2>2, <2>4, <2>5
  <1> QED
    BY <1>1, InvAlways, PTL

\* What a settled watcher has logged last of a file tells whether the user has left a
\* file there (watcher.go:212-287, 358-376), for any files, pairs and processes: only
\* merges that mix or overtake, and a full queue, mislead it.
THEOREM LastEntriesAreTrue == Spec => []LastEntryIsTrue
  <1>1. Inv => LastEntryIsTrue
    <2> SUFFICES ASSUME Inv, Settled, UniqueNames, NEW f \in touched \ garbled,
                        NEW i \in DOMAIN pairs, Watches(i, f)
                 PROVE  /\ Key(i, f) \in DOMAIN entry
                        /\ entry[Key(i, f)].type = "delete" <=> f \notin left
      BY DEF LastEntryIsTrue, EntryIsTrue, Key
    <2>1. Len(queue) = 0 /\ DOMAIN pending[i] = {}
      BY EmptyMap DEF Settled
    <2>2. Recorded(f)
      BY <2>1 DEF Inv, Tracked
    <2> QED
      BY <2>1, <2>2 DEF Recorded
  <1> QED
    BY <1>1, InvAlways, PTL
================================================================================
