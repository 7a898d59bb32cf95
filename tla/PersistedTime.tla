---------------------------- MODULE PersistedTime ----------------------------
(***************************************************************************)
(* Times as the database keeps and compares them (repository/store.go,     *)
(* utc): the text of RFC3339Nano, which drops the trailing zeros of the    *)
(* fraction and the whole fraction when it is zero.  SQL compares texts,   *)
(* so windows overlap and sessions, keys and authorizations end where a    *)
(* text is no longer greater, and that is not quite the order of times.    *)
(***************************************************************************)
EXTENDS Integers

CONSTANTS
    FractionDigits,   \* nine in the code
    Base              \* ten in the code

ASSUME TextAssumption == FractionDigits \in Nat /\ Base \in Nat \ {0}

Places   == 1..FractionDigits
Fraction == [Places -> 0..(Base - 1)]
Instant  == [sec : Nat, frac : Fraction]

\* The order of times, which Go's time.Before and time.After compare by.
FirstDifference(i, x, y) == x[i] # y[i] /\ \A j \in 1..(i - 1) : x[j] = y[j]

FractionBefore(x, y) == \E i \in Places : FirstDifference(i, x, y) /\ x[i] < y[i]

Before(a, b) == a.sec < b.sec \/ (a.sec = b.sec /\ FractionBefore(a.frac, b.frac))

\* time.Add of a whole number of seconds.
Later(a, seconds) == [a EXCEPT !.sec = @ + seconds]

\* The text of a fraction, from its first place on: the digits up to the last
\* that is not zero, then the Z of UTC, which sorts after every digit.  (The
\* point in front of a fraction sorts before Z, so it changes no comparison;
\* the part up to the seconds has a fixed width and sorts like the time.)
Zulu == Base

IsWritten(x, i) == \E j \in Places : i <= j /\ x[j] # 0

Text(x) == [i \in Places |-> IF IsWritten(x, i) THEN x[i] ELSE Zulu]

\* What SQL finds when it compares the texts of two times with <, and with <=.
TextBefore(a, b) == a.sec < b.sec \/ (a.sec = b.sec /\ FractionBefore(Text(a.frac), Text(b.frac)))
TextUpTo(a, b)   == TextBefore(a, b) \/ a = b
=============================================================================
