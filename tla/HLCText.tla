-------------------------------- MODULE HLCText --------------------------------
(******************************************************************************)
(* The text form of HLC stamps (FormatHLC, hlc.go) and the queries that       *)
(* compare stamps as text: ORDER BY and "hlc_timestamp > ?" of                *)
(* EntriesSinceHLC, and MAX(hlc_timestamp) of CurrentHLC (store.go).          *)
(*                                                                            *)
(* An instant is a number of ticks, Base^2 to the second: a second and a      *)
(* fraction of two digits.  time.RFC3339Nano writes the fraction without its  *)
(* trailing zeros, and without the point when nothing is left; the parts      *)
(* before the fraction have a fixed width, so that one number stands for      *)
(* them, and so does the counter (%08x).                                      *)
(******************************************************************************)
EXTENDS HLC, Sequences, FiniteSets

CONSTANTS
    Base,        \* base of the digits (10 in the program)
    MaxRows      \* bound: rows in the changelog

ASSUME BaseAssumption == Base \in Nat \ {0, 1}
ASSUME MaxRowsAssumption == MaxRows \in Nat

VARIABLE rows    \* the stamps in the changelog's unsynced rows

Second(h) == h.physical \div (Base * Base)

\* The order of the characters in ASCII: "." < digits < ":" < "Z".
Point == 0
Digit(d) == d + 1
Zed == Base + 2

\* The fraction of the second, as RFC3339Nano writes it.
Fraction(h) ==
    LET tenth == (h.physical \div Base) % Base
        hundredth == h.physical % Base
    IN  IF hundredth # 0 THEN <<Point, Digit(tenth), Digit(hundredth)>>
        ELSE IF tenth # 0 THEN <<Point, Digit(tenth)>>
        ELSE <<>>

\* Mutant: the counter is written in front of the time.
CounterFirst(h) == <<h.logical, Second(h)>> \o Fraction(h) \o <<Zed>>

\* FormatHLC: date and time, fraction, "Z", ":", counter.
FormatHLC(h) == <<Second(h)>> \o Fraction(h) \o <<Zed, h.logical>>

\* SQLite's comparison of text (BINARY collation): the first difference decides.
TextBefore(s, t) ==
    \/ \E i \in 1..(IF Len(s) < Len(t) THEN Len(s) ELSE Len(t)) :
         /\ s[i] < t[i]
         /\ \A j \in 1..(i - 1) : s[j] = t[j]
    \/ Len(s) < Len(t) /\ \A j \in 1..Len(s) : s[j] = t[j]

\* EntriesSinceHLC(since), for a non-empty cursor.
EntriesSinceHLC(since) ==
    {h \in rows : TextBefore(FormatHLC(since), FormatHLC(h))}

\* CurrentHLC, for a table that is not empty.
CurrentHLC ==
    CHOOSE h \in rows : \A g \in rows : ~TextBefore(FormatHLC(h), FormatHLC(g))

--------------------------------------------------------------------------------
textVars == <<vars, rows>>

TextInit == Init /\ rows = {}

\* Append: the stamp and the INSERT.
AppendRow ==
    /\ Cardinality(rows) < MaxRows
    /\ HLCNow
    /\ rows' = rows \cup {issued'}

\* Stamps taken without a row, the wall clock, and new processes.
Elsewhere ==
    /\ \/ \E r \in Timestamp : HLCReceive(r)
       \/ WallStep
       \/ Restart
    /\ UNCHANGED rows

TextNext == AppendRow \/ Elsewhere

TextSpec == TextInit /\ [][TextNext]_textVars

--------------------------------------------------------------------------------
(* Properties.                                                                *)

\* A cursor taken from the changelog loses entries of its own second only: an entry
\* later than the cursor that EntriesSinceHLC leaves out was stamped in the same
\* second at another instant, and CurrentHLC is a stamp of the latest second
\* (store.go:132-142, 197-207), whatever the clocks and restarts did before.
CursorWithinSecond ==
    /\ \A since \in rows, h \in rows :
         Before(since, h) /\ h \notin EntriesSinceHLC(since)
           => Second(h) = Second(since) /\ h.physical # since.physical
    /\ \A h \in rows : Second(h) <= Second(CurrentHLC)

\* "EntriesSinceHLC returns unsynced entries whose HLC is after sinceHLC"
\* (store.go:132).  It fails: within a second a shorter fraction sorts after the
\* longer ones that it begins, because "Z" is above the digits.
SinceIsExact ==
    \A since \in rows : EntriesSinceHLC(since) = {h \in rows : Before(since, h)}
================================================================================
