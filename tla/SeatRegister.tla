---------------------------- MODULE SeatRegister ----------------------------
(***************************************************************************)
(* What the booking ledger promises its users, without counters, statuses, *)
(* wait list positions or ledger entries: every slot has a number of       *)
(* places, the people sitting in it and the people waiting for it, and     *)
(* seats are handed on in the order in which people arrived.  A person is  *)
(* a ticket, and tickets are numbered in order of arrival.                 *)
(***************************************************************************)
EXTENDS Naturals, FiniteSets

CONSTANTS
    Slots,
    Sizes,    \* numbers of places a slot may have
    Taken     \* places of each slot that are not for booking

VARIABLES
    places,   \* number of places of each slot
    open,     \* slots that take bookings
    seated, waiting,   \* tickets in each slot and in its queue
    last      \* the last ticket handed out

register == <<places, open, seated, waiting, last>>

\* A slot without places does not take bookings yet.
Init ==
    /\ places  \in [Slots -> Sizes \cup {0}]
    /\ open    = { s \in Slots : places[s] > 0 }
    /\ seated  = [s \in Slots |-> {}]
    /\ waiting = [s \in Slots |-> {}]
    /\ last    = 0

Room(s, T) == s \in open /\ Taken[s] + Cardinality(T) < places[s]
Free(s)    == Room(s, seated[s])

First(s, n) == n \in waiting[s] /\ \A x \in waiting[s] : n <= x

\* n stops waiting for s and sits down there, where T sit already.
SitDown(s, n, T) ==
    /\ seated'  = [seated  EXCEPT ![s] = T \cup {n}]
    /\ waiting' = [waiting EXCEPT ![s] = @ \ {n}]

Arrive(s) ==
    /\ last' = last + 1
    /\ \/ Free(s) /\ SitDown(s, last', seated[s])
       \/ /\ ~Free(s)
          /\ waiting' = [waiting EXCEPT ![s] = @ \cup {last'}]
          /\ UNCHANGED seated
    /\ UNCHANGED <<places, open>>

\* Whoever leaves hands the place to the first in the queue, if there is one
\* and the place may be used.
Leave(s, b) ==
    LET others == seated[s] \ {b} IN
    /\ b \in seated[s]
    /\ IF Room(s, others) /\ waiting[s] # {}
       THEN \E n \in waiting[s] : First(s, n) /\ SitDown(s, n, others)
       ELSE seated' = [seated EXCEPT ![s] = others] /\ UNCHANGED waiting
    /\ UNCHANGED <<places, open, last>>

GiveUp(s, b) ==
    /\ b \in waiting[s]
    /\ waiting' = [waiting EXCEPT ![s] = @ \ {b}]
    /\ UNCHANGED <<places, open, seated, last>>

Move(s, t, b) ==
    /\ b \in seated[s] /\ Free(t) /\ s # t
    /\ seated' = [seated EXCEPT ![s] = @ \ {b}, ![t] = @ \cup {b}]
    /\ UNCHANGED <<places, open, waiting, last>>

Call(s, n) ==
    /\ Free(s) /\ First(s, n) /\ SitDown(s, n, seated[s])
    /\ UNCHANGED <<places, open, last>>

\* The number of places changes, never to less than are in use.  The first time
\* it does, the slot opens.
Furnish(s, n) ==
    /\ Taken[s] + Cardinality(seated[s]) <= n
    /\ places' = [places EXCEPT ![s] = n]
    /\ open' = IF places[s] = 0 THEN open \cup {s} ELSE open
    /\ UNCHANGED <<seated, waiting, last>>

Shut(S) == open' = open \ S /\ UNCHANGED <<places, seated, waiting, last>>

Open(S) ==
    /\ \A s \in S : places[s] > 0
    /\ open' = open \cup S
    /\ UNCHANGED <<places, seated, waiting, last>>

Next ==
    \/ \E s \in Slots : \/ Arrive(s)
                        \/ \E b \in seated[s] : Leave(s, b) \/ \E t \in Slots : Move(s, t, b)
                        \/ \E b \in waiting[s] : GiveUp(s, b) \/ Call(s, b)
                        \/ \E n \in Sizes : Furnish(s, n)
    \/ \E S \in SUBSET Slots : Shut(S) \/ Open(S)

Spec == Init /\ [][Next]_register
=============================================================================
