---------------------------- MODULE MCContention ----------------------------
(* A small instance of Contention for TLC. *)
EXTENDS Contention

CONSTANTS a, other, twin, k1, k2, st1, st2, st3, s1, i1, i2

\* "other" has a's key for another student; "twin" has a key and a student of
\* its own, but the request id of a.  The call a itself is sent again after a
\* disconnect, a lost answer or a crash.
MCRequest == [c \in Calls |->
    CASE c = a     -> [key |-> k1, student |-> st1, slot |-> s1, id |-> i1]
      [] c = other -> [key |-> k1, student |-> st2, slot |-> s1, id |-> i2]
      [] c = twin  -> [key |-> k2, student |-> st3, slot |-> s1, id |-> i1]]

MCTwoSeats    == [s \in Slots |-> 2]
MCOneReserved == [s \in Slots |-> 1]
=============================================================================
