------------------------------- MODULE HLCProofs -------------------------------
(******************************************************************************)
(* Proofs about the hybrid logical clock and the text form of its stamps for  *)
(* every range of the wall clock and every width of the counter.              *)
(*                                                                            *)
(* The action properties are not about the clock alone: they compare the new  *)
(* timestamp with the last one handed out.  The invariant that makes them     *)
(* provable is that the two coincide (issued = Clock).                        *)
(******************************************************************************)
EXTENDS HLCText, SequenceTheorems, TLAPS

\* tick returns a timestamp, later than the clock unless the counter wraps.
LEMMA TickLater ==
    ASSUME NEW h \in Timestamp, NEW t \in Wall
    PROVE  /\ Tick(h, t) \in Timestamp
           /\ h.logical = LogicalMod - 1 \/ Before(h, Tick(h, t))
  <1>1. CASE t > h.physical
    BY <1>1, LogicalModAssumption, MaxWallAssumption
       DEF Tick, Before, Timestamp, Wall, Logical
  <1>2. CASE ~(t > h.physical)
    <2>1. (h.logical + 1) % LogicalMod \in Logical
      BY LogicalModAssumption DEF Timestamp, Logical
    <2>2. h.logical # LogicalMod - 1
            => (h.logical + 1) % LogicalMod = h.logical + 1
      BY LogicalModAssumption DEF Timestamp, Logical
    <2>3. Tick(h, t) = [physical |-> h.physical,
                        logical  |-> (h.logical + 1) % LogicalMod]
      BY <1>2 DEF Tick
    <2> QED
      BY <2>1, <2>2, <2>3, LogicalModAssumption
         DEF Before, Timestamp, Wall, Logical
  <1> QED
    BY <1>1, <1>2

\* receive returns a timestamp, later than the clock and than the received one
\* unless a counter wraps.
LEMMA ReceiveLater ==
    ASSUME NEW h \in Timestamp, NEW t \in Wall, NEW r \in Timestamp
    PROVE  /\ Receive(h, t, r) \in Timestamp
           /\ h.logical # LogicalMod - 1 /\ r.logical # LogicalMod - 1
                => Before(h, Receive(h, t, r)) /\ Before(r, Receive(h, t, r))
  <1> DEFINE m == maxTime(t, h.physical, r.physical)
             Succ(x) == (x + 1) % LogicalMod
  <1>1. /\ m \in 0..MaxWall
        /\ m >= t /\ m >= h.physical /\ m >= r.physical
    BY MaxWallAssumption DEF maxTime, Timestamp, Wall
  <1>2. ASSUME NEW x \in Logical
        PROVE  /\ Succ(x) \in Logical
               /\ x # LogicalMod - 1 => Succ(x) = x + 1
    BY LogicalModAssumption DEF Logical
  <1>3. /\ max32(h.logical, r.logical) \in {h.logical, r.logical}
        /\ max32(h.logical, r.logical) >= h.logical
        /\ max32(h.logical, r.logical) >= r.logical
    BY LogicalModAssumption DEF max32, Timestamp, Logical
  <1>4. h.logical \in Logical /\ r.logical \in Logical
    BY DEF Timestamp
  <1>5. Succ(max32(h.logical, r.logical)) \in Logical
        /\ Succ(h.logical) \in Logical /\ Succ(r.logical) \in Logical
        /\ 0 \in Logical
    BY <1>2, <1>3, <1>4, LogicalModAssumption DEF Logical
  <1>6. Receive(h, t, r) =
          [physical |-> m,
           logical |-> IF m = h.physical /\ m = r.physical
                         THEN Succ(max32(h.logical, r.logical))
                       ELSE IF m = h.physical THEN Succ(h.logical)
                       ELSE IF m = r.physical THEN Succ(r.logical)
                       ELSE 0]
    BY DEF Receive
  <1>7. Receive(h, t, r) \in Timestamp
    BY <1>1, <1>5, <1>6 DEF Timestamp
  <1>8. ASSUME h.logical # LogicalMod - 1, r.logical # LogicalMod - 1
        PROVE  Before(h, Receive(h, t, r)) /\ Before(r, Receive(h, t, r))
    <2>1. /\ Succ(h.logical) = h.logical + 1
          /\ Succ(r.logical) = r.logical + 1
          /\ Succ(max32(h.logical, r.logical)) > h.logical
          /\ Succ(max32(h.logical, r.logical)) > r.logical
      BY <1>2, <1>3, <1>4, <1>8, LogicalModAssumption DEF Logical
    <2> HIDE DEF m, Succ
    <2> QED
      BY <1>1, <1>4, <1>6, <2>1, LogicalModAssumption, MaxWallAssumption
         DEF Before, Timestamp, Logical
  <1> QED
    BY <1>7, <1>8

--------------------------------------------------------------------------------
\* The inductive invariant: the clock is the last timestamp handed out, and never
\* ahead of the last one in the changelog.
Inv == TypeOK /\ issued = Clock /\ physical <= durable.physical

LEMMA InvInit == Init => Inv
  BY MaxWallAssumption, LogicalModAssumption
     DEF Init, Inv, TypeOK, Clock, Zero, Timestamp, Logical, Wall

LEMMA ClockType == Inv => Clock \in Timestamp
  BY DEF Inv, TypeOK, Clock, Timestamp

\* Handing out any timestamp keeps the invariant.
LEMMA IssueInv ==
    ASSUME Inv, NEW h \in Timestamp, Issue(h)
    PROVE  Inv'
  BY DEF Inv, TypeOK, Issue, Clock, Timestamp

LEMMA InvStep == Inv /\ [Next]_vars => Inv'
  <1> SUFFICES ASSUME Inv, [Next]_vars PROVE Inv'
    OBVIOUS
  <1> USE DEF Inv
  <1>0. Clock \in Timestamp /\ now \in Wall
    BY ClockType DEF TypeOK
  <1>1. CASE HLCNow
    BY <1>0, <1>1, TickLater, IssueInv DEF HLCNow
  <1>2. ASSUME NEW r \in Timestamp, HLCReceive(r) PROVE Inv'
    BY <1>0, <1>2, ReceiveLater, IssueInv DEF HLCReceive
  <1>3. CASE WallStep
    BY <1>3 DEF WallStep, TypeOK, Clock
  <1>4. CASE Restart
    BY <1>4, MaxWallAssumption, LogicalModAssumption
       DEF Restart, TypeOK, Clock, Zero, Timestamp, Logical
  <1>5. CASE UNCHANGED vars
    BY <1>5 DEF vars, TypeOK, Clock
  <1> QED
    BY <1>1, <1>2, <1>3, <1>4, <1>5 DEF Next

LEMMA InvAlways == Spec => []Inv
  BY InvInit, InvStep, PTL DEF Spec

\* The clock of hlc.go keeps its type: the counter stays within a uint32 and the
\* physical part is an instant some wall clock has read, or the zero time.
THEOREM TypeCorrect == Spec => []TypeOK
  BY InvAlways, PTL DEF Inv

\* HLCNow returns strictly increasing timestamps within a process, whatever the
\* wall clock does, except when the counter wraps.
THEOREM NowAdvancesHolds == Spec => NowAdvances
  <1>1. Inv /\ [Next]_vars
          => [HLCNow => AboutToWrap \/ Before(issued, issued')]_vars
    <2> SUFFICES ASSUME Inv, HLCNow
                 PROVE  AboutToWrap \/ Before(issued, issued')
      OBVIOUS
    <2>1. Clock \in Timestamp /\ now \in Wall /\ issued = Clock
      BY ClockType DEF Inv, TypeOK
    <2>2. issued' = Tick(Clock, now)
      BY DEF HLCNow, Issue
    <2> QED
      BY <2>1, <2>2, TickLater DEF AboutToWrap, Clock
  <1> QED
    BY <1>1, InvAlways, PTL DEF Spec, NowAdvances

\* HLCReceive returns a timestamp later than both the received one and every one
\* the process returned before, except when a counter wraps.
THEOREM ReceiveDominatesHolds == Spec => ReceiveDominates
  <1> DEFINE Dominates ==
        \A r \in Timestamp :
          HLCReceive(r) /\ ~AboutToWrap /\ r.logical # LogicalMod - 1
            => Before(issued, issued') /\ Before(r, issued')
  <1>1. Inv /\ [Next]_vars => [Dominates]_vars
    <2> SUFFICES ASSUME Inv, NEW r \in Timestamp, HLCReceive(r),
                        ~AboutToWrap, r.logical # LogicalMod - 1
                 PROVE  Before(issued, issued') /\ Before(r, issued')
      OBVIOUS
    <2>1. Clock \in Timestamp /\ now \in Wall /\ issued = Clock
      BY ClockType DEF Inv, TypeOK
    <2>2. issued' = Receive(Clock, now, r)
      BY DEF HLCReceive, Issue
    <2>3. Clock.logical # LogicalMod - 1
      BY DEF AboutToWrap, Clock
    <2> QED
      BY <2>1, <2>2, <2>3, ReceiveLater
  <1> QED
    BY <1>1, InvAlways, PTL DEF Spec, ReceiveDominates

\* The first stamp a process returns once the wall clock has passed the last one in
\* the changelog is later than it, although a restart resets the clock.
THEOREM RestartCatchesUpHolds == Spec => RestartCatchesUp
  <1>1. Inv /\ [Next]_vars
          => [HLCNow /\ now > durable.physical => Before(durable, durable')]_vars
    <2> SUFFICES ASSUME Inv, HLCNow, now > durable.physical
                 PROVE  Before(durable, durable')
      OBVIOUS
    <2>1. /\ now \in Nat /\ physical \in Nat /\ durable.physical \in Nat
          /\ physical <= durable.physical
      BY MaxWallAssumption DEF Inv, TypeOK, Wall, Timestamp
    <2>2. durable' = Tick(Clock, now)
      BY DEF HLCNow, Issue
    <2>3. Tick(Clock, now) = [physical |-> now, logical |-> 0]
      BY <2>1 DEF Tick, Clock
    <2> QED
      BY <2>1, <2>2, <2>3 DEF Before
  <1> QED
    BY <1>1, InvAlways, PTL DEF Spec, RestartCatchesUp

--------------------------------------------------------------------------------
(* Stamps as text.  What CurrentHLC chooses exists because the rows, added    *)
(* one at a time, always have a greatest one in the order of the texts; this  *)
(* needs that order to be transitive and irreflexive.                         *)

LEMMA TextIrreflexive ==
    ASSUME NEW s \in Seq(Nat)
    PROVE  ~TextBefore(s, s)
  BY DEF TextBefore

\* The first difference of the first pair or of the second decides.
LEMMA TextTransitive ==
    ASSUME NEW s \in Seq(Nat), NEW t \in Seq(Nat), NEW u \in Seq(Nat),
           TextBefore(s, t), TextBefore(t, u)
    PROVE  TextBefore(s, u)
  <1> DEFINE Differ(a, b, i) ==
               /\ i \in 1..Len(a) /\ i \in 1..Len(b)
               /\ a[i] < b[i] /\ \A j \in 1..(i - 1) : a[j] = b[j]
             Begins(a, b) == Len(a) < Len(b) /\ \A j \in 1..Len(a) : a[j] = b[j]
  <1>1. ASSUME NEW a \in Seq(Nat), NEW b \in Seq(Nat)
        PROVE  TextBefore(a, b) <=> Begins(a, b) \/ \E i \in Nat : Differ(a, b, i)
    <2>1. Len(a) \in Nat /\ Len(b) \in Nat
      OBVIOUS
    <2>2. \A i : i \in 1..(IF Len(a) < Len(b) THEN Len(a) ELSE Len(b))
                  <=> i \in Nat /\ i \in 1..Len(a) /\ i \in 1..Len(b)
      BY <2>1
    <2>3. ASSUME TextBefore(a, b), ~Begins(a, b) PROVE \E i \in Nat : Differ(a, b, i)
      <3>1. PICK i \in 1..(IF Len(a) < Len(b) THEN Len(a) ELSE Len(b)) :
              a[i] < b[i] /\ \A j \in 1..(i - 1) : a[j] = b[j]
        BY <2>3 DEF TextBefore
      <3>2. i \in Nat /\ i \in 1..Len(a) /\ i \in 1..Len(b)
        BY <2>2
      <3> QED
        BY <3>1, <3>2
    <2>4. ASSUME NEW i \in Nat, Differ(a, b, i) PROVE TextBefore(a, b)
      <3>1. i \in 1..(IF Len(a) < Len(b) THEN Len(a) ELSE Len(b))
        BY <2>2, <2>4
      <3> QED
        BY <2>4, <3>1 DEF TextBefore
    <2>5. Begins(a, b) => TextBefore(a, b)
      BY DEF TextBefore
    <2> HIDE DEF Differ, Begins
    <2> QED
      BY <2>3, <2>4, <2>5
  <1>2. /\ Len(s) \in Nat /\ Len(t) \in Nat /\ Len(u) \in Nat
        /\ \A i \in 1..Len(s) : s[i] \in Nat
        /\ \A i \in 1..Len(t) : t[i] \in Nat
        /\ \A i \in 1..Len(u) : u[i] \in Nat
    OBVIOUS
  <1>3. ASSUME NEW i \in Nat, Differ(s, t, i), NEW k \in Nat, Differ(t, u, k)
        PROVE  \E j \in Nat : Differ(s, u, j)
    <2>1. CASE i <= k
      <3>0. /\ i \in 1..Len(s) /\ i \in 1..Len(t) /\ k \in 1..Len(u)
            /\ s[i] < t[i] /\ t[k] < u[k] /\ \A j \in 1..(k - 1) : t[j] = u[j]
        BY <1>3
      <3>1. /\ i \in 1..Len(u)
            /\ s[i] \in Nat /\ t[i] \in Nat /\ u[i] \in Nat /\ s[i] < t[i]
        <4>1. i \in 1..Len(u)
          BY <1>2, <2>1, <3>0
        <4> QED
          BY <1>2, <3>0, <4>1
      <3>2. s[i] < u[i]
        <4>1. CASE i = k
          <5>1. t[i] < u[i]
            BY <3>0, <4>1
          <5>2. \A x \in Nat, y \in Nat, z \in Nat : x < y /\ y < z => x < z
            OBVIOUS
          <5> QED
            BY <3>1, <5>1, <5>2, Zenon
        <4>2. CASE i < k
          <5>1. t[i] = u[i]
            BY <3>0, <4>2
          <5> QED
            BY <3>1, <5>1
        <4> QED
          BY <2>1, <4>1, <4>2
      <3>3. \A j \in 1..(i - 1) : s[j] = u[j]
        BY <1>3, <2>1
      <3> QED
        BY <1>3, <3>1, <3>2, <3>3
    <2>2. CASE k < i
      <3>1. k \in 1..Len(s) /\ s[k] = t[k]
        BY <1>2, <1>3, <2>2
      <3>2. \A j \in 1..(k - 1) : s[j] = u[j]
        BY <1>3, <2>2
      <3> QED
        BY <1>3, <3>1, <3>2
    <2> QED
      BY <1>3, <2>1, <2>2
  <1>4. ASSUME NEW i \in Nat, Differ(s, t, i), Begins(t, u)
        PROVE  Differ(s, u, i)
    <2>1. i \in 1..Len(u) /\ t[i] = u[i]
      BY <1>2, <1>4
    <2>2. \A j \in 1..(i - 1) : s[j] = u[j]
      BY <1>2, <1>4
    <2> QED
      BY <1>4, <2>1, <2>2
  <1>5. ASSUME Begins(s, t), NEW k \in Nat, Differ(t, u, k)
        PROVE  Begins(s, u) \/ Differ(s, u, k)
    BY <1>2, <1>5, SMTT(30)
  <1>6. ASSUME Begins(s, t), Begins(t, u) PROVE Begins(s, u)
    BY <1>2, <1>6
  <1> HIDE DEF Differ, Begins
  <1> QED
    BY <1>1, <1>3, <1>4, <1>5, <1>6

\* The parts of a text: the second first, the counter last, and between them what
\* the instant says.
LEMMA TextParts ==
    ASSUME NEW h \in Timestamp
    PROVE  /\ Fraction(h) \in Seq(Nat) /\ Second(h) \in Nat
           /\ FormatHLC(h) \in Seq(Nat)
           /\ Len(FormatHLC(h)) = Len(Fraction(h)) + 3
           /\ FormatHLC(h)[1] = Second(h)
           /\ FormatHLC(h)[Len(Fraction(h)) + 3] = h.logical
           /\ FormatHLC(h)[Len(Fraction(h)) + 2] = Zed
           /\ \A i \in 1..Len(Fraction(h)) : FormatHLC(h)[i + 1] = Fraction(h)[i]
  <1>1. h.physical \in Nat /\ h.logical \in Nat /\ Base \in Nat /\ Base > 0
    BY MaxWallAssumption, LogicalModAssumption, BaseAssumption
       DEF Timestamp, Logical
  <1>2. ASSUME NEW a \in Nat, NEW b \in Nat, b > 0
        PROVE  a \div b \in Nat /\ a % b \in Nat
    BY <1>2
  <1>3. /\ Second(h) \in Nat /\ Zed \in Nat
        /\ (h.physical \div Base) % Base \in Nat /\ h.physical % Base \in Nat
    <2>1. Base * Base \in Nat /\ Base * Base > 0
      BY <1>1
    <2> QED
      BY <1>1, <1>2, <2>1 DEF Second, Zed
  <1>4. Fraction(h) \in Seq(Nat)
    BY <1>3 DEF Fraction, Point, Digit
  <1> DEFINE g == Fraction(h)
             a == <<Second(h)>>
             z == <<Zed, h.logical>>
  <1>5. a \in Seq(Nat) /\ z \in Seq(Nat) /\ Len(a) = 1 /\ Len(z) = 2
    BY <1>1, <1>3
  <1>6. FormatHLC(h) = (a \o g) \o z
    BY DEF FormatHLC
  <1>7. a[1] = Second(h) /\ z[1] = Zed /\ z[2] = h.logical
    OBVIOUS
  <1> HIDE DEF g, a, z
  <1>8. g \in Seq(Nat) /\ Len(g) \in Nat
    BY <1>4 DEF g
  <1>9. /\ a \o g \in Seq(Nat) /\ Len(a \o g) = Len(g) + 1
        /\ (a \o g)[1] = a[1]
        /\ \A i \in 1..Len(g) : (a \o g)[i + 1] = g[i]
    <2>1. /\ a \o g \in Seq(Nat) /\ Len(a \o g) = Len(a) + Len(g)
          /\ \A i \in 1..Len(a) + Len(g) :
               (a \o g)[i] = IF i <= Len(a) THEN a[i] ELSE g[i - Len(a)]
      BY <1>5, <1>8, ConcatProperties
    <2> QED
      BY <1>5, <1>8, <2>1
  <1>10. /\ (a \o g) \o z \in Seq(Nat) /\ Len((a \o g) \o z) = Len(g) + 3
         /\ \A i \in 1..(Len(g) + 1) : ((a \o g) \o z)[i] = (a \o g)[i]
         /\ ((a \o g) \o z)[Len(g) + 2] = z[1]
         /\ ((a \o g) \o z)[Len(g) + 3] = z[2]
    <2> DEFINE b == a \o g
    <2>1. b \in Seq(Nat) /\ Len(b) = Len(g) + 1
      BY <1>9
    <2> HIDE DEF b
    <2>2. /\ b \o z \in Seq(Nat) /\ Len(b \o z) = Len(b) + Len(z)
          /\ \A i \in 1..Len(b) + Len(z) :
               (b \o z)[i] = IF i <= Len(b) THEN b[i] ELSE z[i - Len(b)]
      <3>1. z \in Seq(Nat)
        BY <1>5
      <3> QED
        BY <2>1, <3>1, ConcatProperties
    <2>3. /\ b \o z \in Seq(Nat) /\ Len(b \o z) = Len(g) + 3
          /\ \A i \in 1..(Len(g) + 1) : (b \o z)[i] = b[i]
          /\ (b \o z)[Len(g) + 2] = z[1]
          /\ (b \o z)[Len(g) + 3] = z[2]
      BY <1>5, <1>8, <2>1, <2>2
    <2> QED
      BY <2>3 DEF b
  <1> QED
    BY <1>3, <1>4, <1>6, <1>7, <1>8, <1>9, <1>10, SMTT(30) DEF g

\* An instant's second does not decrease as the instant grows.
LEMMA SecondMonotone ==
    ASSUME NEW h \in Timestamp, NEW g \in Timestamp, h.physical <= g.physical
    PROVE  Second(h) <= Second(g)
  <1>1. ASSUME NEW x \in Nat, NEW y \in Nat, NEW k \in Nat, k > 0, x <= y
        PROVE  x \div k <= y \div k
    BY <1>1
  <1>2. /\ h.physical \in Nat /\ g.physical \in Nat
        /\ Base * Base \in Nat /\ Base * Base > 0
    BY MaxWallAssumption, BaseAssumption DEF Timestamp
  <1> QED
    BY <1>1, <1>2 DEF Second

\* Stamps of different seconds are ordered as texts, and so are stamps of one instant.
LEMMA TextOrder ==
    ASSUME NEW h \in Timestamp, NEW g \in Timestamp,
           \/ Second(h) < Second(g)
           \/ h.physical = g.physical /\ h.logical < g.logical
    PROVE  TextBefore(FormatHLC(h), FormatHLC(g))
  <1> DEFINE s == FormatHLC(h)
             t == FormatHLC(g)
  <1>1. /\ Fraction(h) \in Seq(Nat) /\ Len(s) = Len(Fraction(h)) + 3
        /\ s \in Seq(Nat) /\ s[1] = Second(h) /\ s[Len(Fraction(h)) + 3] = h.logical
        /\ s[Len(Fraction(h)) + 2] = Zed
        /\ \A i \in 1..Len(Fraction(h)) : s[i + 1] = Fraction(h)[i]
    BY TextParts
  <1>2. /\ Fraction(g) \in Seq(Nat) /\ Len(t) = Len(Fraction(g)) + 3
        /\ t \in Seq(Nat) /\ t[1] = Second(g) /\ t[Len(Fraction(g)) + 3] = g.logical
        /\ t[Len(Fraction(g)) + 2] = Zed
        /\ \A i \in 1..Len(Fraction(g)) : t[i + 1] = Fraction(g)[i]
    BY TextParts
  <1>3. Len(Fraction(h)) \in Nat /\ Len(Fraction(g)) \in Nat
    BY <1>1, <1>2
  <1> HIDE DEF s, t
  <1>4. CASE Second(h) < Second(g)
    <2>1. 1 \in 1..(IF Len(s) < Len(t) THEN Len(s) ELSE Len(t))
      BY <1>1, <1>2, <1>3
    <2>2. s[1] < t[1]
      BY <1>1, <1>2, <1>4
    <2>3. \A j \in 1..(1 - 1) : s[j] = t[j]
      OBVIOUS
    <2> QED
      BY <2>1, <2>2, <2>3 DEF TextBefore, s, t
  <1>5. CASE h.physical = g.physical /\ h.logical < g.logical
    <2>1. Fraction(h) = Fraction(g) /\ Second(h) = Second(g)
      BY <1>5 DEF Fraction, Second
    <2> DEFINE f == Fraction(h)
               l == Len(f) + 3
    <2>2. Len(f) \in Nat /\ Len(s) = l /\ Len(t) = l
      BY <1>1, <1>2, <1>3, <2>1
    <2>3. s[l] < t[l]
      BY <1>1, <1>2, <1>5, <2>1
    <2>4. ASSUME NEW j \in 1..(l - 1) PROVE s[j] = t[j]
      <3>1. CASE j = 1
        BY <1>1, <1>2, <2>1, <3>1
      <3>2. CASE j = Len(f) + 2
        BY <1>1, <1>2, <2>1, <3>2
      <3>3. CASE j # 1 /\ j # Len(f) + 2
        <4>1. j - 1 \in 1..Len(f) /\ (j - 1) + 1 = j
          BY <2>2, <3>3
        <4>2. s[(j - 1) + 1] = f[j - 1] /\ t[(j - 1) + 1] = f[j - 1]
          BY <1>1, <1>2, <2>1, <4>1
        <4> QED
          BY <4>1, <4>2
      <3> QED
        BY <3>1, <3>2, <3>3
    <2>5. l \in 1..(IF Len(s) < Len(t) THEN Len(s) ELSE Len(t))
      BY <2>2
    <2> HIDE DEF l
    <2> QED
      BY <2>3, <2>4, <2>5 DEF TextBefore, s, t
  <1> QED
    BY <1>4, <1>5

TextInv ==
    /\ Inv /\ rows \subseteq Timestamp
    /\ rows # {} =>
         \E h \in rows : \A g \in rows : ~TextBefore(FormatHLC(h), FormatHLC(g))

LEMMA TextInvStep == TextInv /\ [TextNext]_textVars => TextInv'
  <1> SUFFICES ASSUME TextInv, [TextNext]_textVars PROVE TextInv'
    OBVIOUS
  <1>1. [Next]_vars
    BY DEF TextNext, AppendRow, Elsewhere, Next, textVars
  <1>2. Inv'
    BY <1>1, InvStep DEF TextInv
  <1>3. CASE rows' = rows
    BY <1>2, <1>3 DEF TextInv
  <1>4. CASE AppendRow
    <2> DEFINE x == issued'
    <2>1. x \in Timestamp /\ rows' = rows \cup {x}
      BY <1>2, <1>4 DEF AppendRow, Inv, TypeOK
    <2> HIDE DEF x
    <2>2. \A h \in rows' : FormatHLC(h) \in Seq(Nat) /\ h \in Timestamp
      BY <2>1, TextParts DEF TextInv
    <2>3. ~TextBefore(FormatHLC(x), FormatHLC(x))
      BY <2>1, <2>2, TextIrreflexive
    <2>4. CASE rows = {}
      BY <1>2, <2>1, <2>2, <2>3, <2>4 DEF TextInv
    <2>5. CASE rows # {}
      <3>1. PICK h \in rows : \A g \in rows : ~TextBefore(FormatHLC(h), FormatHLC(g))
        BY <2>5 DEF TextInv
      <3>2. CASE ~TextBefore(FormatHLC(h), FormatHLC(x))
        BY <1>2, <2>1, <2>2, <3>1, <3>2 DEF TextInv
      <3>3. CASE TextBefore(FormatHLC(h), FormatHLC(x))
        <4>1. ASSUME NEW g \in rows PROVE ~TextBefore(FormatHLC(x), FormatHLC(g))
          BY <2>1, <2>2, <3>1, <3>3, TextTransitive
        <4> QED
          BY <1>2, <2>1, <2>2, <2>3, <4>1 DEF TextInv
      <3> QED
        BY <3>2, <3>3
    <2> QED
      BY <2>4, <2>5
  <1> QED
    BY <1>3, <1>4 DEF TextNext, Elsewhere, textVars

\* For every number base and any rows, clocks and restarts: comparing stamps as text
\* misorders two of them only within one second, and CurrentHLC returns a stamp of the
\* latest second (store.go:132-142, 197-207).
THEOREM CursorWithinSecondHolds == TextSpec => []CursorWithinSecond
  <1>1. TextInit => TextInv
    BY InvInit DEF TextInit, TextInv
  <1>2. TextInv => CursorWithinSecond
    <2> SUFFICES ASSUME TextInv PROVE CursorWithinSecond
      OBVIOUS
    <2>1. \A h \in rows : h \in Timestamp
      BY DEF TextInv
    <2>2. ASSUME NEW since \in rows, NEW h \in rows, Before(since, h),
                 h \notin EntriesSinceHLC(since)
          PROVE  Second(h) = Second(since) /\ h.physical # since.physical
      <3>1. ~TextBefore(FormatHLC(since), FormatHLC(h))
        BY <2>2 DEF EntriesSinceHLC
      <3>2. Second(h) \in Nat /\ Second(since) \in Nat
        BY <2>1, TextParts
      <3>3. /\ ~(Second(since) < Second(h))
            /\ ~(since.physical = h.physical /\ since.logical < h.logical)
        BY <2>1, <3>1, TextOrder
      <3>4. /\ since.physical \in Nat /\ h.physical \in Nat
            /\ since.physical <= h.physical
        BY <2>1, <2>2, MaxWallAssumption DEF Before, Timestamp
      <3>5. Second(since) <= Second(h)
        BY <2>1, <3>4, SecondMonotone
      <3> QED
        BY <2>2, <3>2, <3>3, <3>4, <3>5 DEF Before
    <2>3. ASSUME NEW h \in rows PROVE Second(h) <= Second(CurrentHLC)
      <3>1. /\ CurrentHLC \in rows
            /\ \A g \in rows : ~TextBefore(FormatHLC(CurrentHLC), FormatHLC(g))
        BY DEF TextInv, CurrentHLC
      <3>2. Second(h) \in Nat /\ Second(CurrentHLC) \in Nat
        BY <2>1, <3>1, TextParts
      <3>3. ~(Second(CurrentHLC) < Second(h))
        BY <2>1, <3>1, TextOrder
      <3> QED
        BY <3>2, <3>3
    <2> QED
      BY <2>2, <2>3 DEF CursorWithinSecond
  <1> QED
    BY <1>1, <1>2, TextInvStep, PTL DEF TextSpec
================================================================================
