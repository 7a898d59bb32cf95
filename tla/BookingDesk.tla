----------------------------- MODULE BookingDesk -----------------------------
(***************************************************************************)
(* What POST /v1/bookings promises its clients, without transactions,      *)
(* snapshots, locks, attempts or lost answers: a request enters the book   *)
(* at most once, whoever sends it how often, and each call is told, once   *)
(* and truly, what became of its request.                                  *)
(***************************************************************************)
EXTENDS Naturals, Sequences, FiniteSets

CONSTANTS
    Calls, Slots,
    Request,   \* the request of each call: its key, student, slot and request id
    Sizes,     \* numbers of seats a slot may have
    Taken      \* seats of each slot that are not for booking

VARIABLES
    seats,     \* number of seats of each slot
    book,      \* the bookings, in the order in which they were entered
    keyed,     \* pairs of an idempotency key and the booking entered under it
    stamped,   \* pairs of a request id and the seated booking it was used for
    expired,   \* keys that are too old to be asked about
    told       \* what each call was told, or Nothing

desk == <<seats, book, keyed, stamped, expired, told>>

Nothing   == [kind |-> "nothing", booking |-> 0]
Booked(n) == [kind |-> "booking", booking |-> n]
Reuse     == [kind |-> "reuse", booking |-> 0]
Conflict  == [kind |-> "conflict", booking |-> 0]
Failed    == [kind |-> "failed", booking |-> 0]

SeatsTaken(s) == { n \in DOMAIN book : book[n].slot = s /\ book[n].seated }
Room(s)       == Taken[s] + Cardinality(SeatsTaken(s)) < seats[s]

KeyUsed(k)      == \E e \in keyed : e[1] = k
Stamped(i, s)   == \E e \in stamped : e[1] = i /\ book[e[2]].slot = s
IsFor(n, r)     == book[n].student = r.student /\ book[n].slot = r.slot

Init ==
    /\ seats \in [Slots -> Sizes]
    /\ book = << >>
    /\ keyed = {}
    /\ stamped = {}
    /\ expired = {}
    /\ told = [c \in Calls |-> Nothing]

\* A request enters the book, with a seat exactly if there is one.
Enter(r) ==
    LET n == Len(book) + 1 IN
    /\ ~KeyUsed(r.key)
    /\ \A m \in DOMAIN book : ~IsFor(m, r)
    /\ Room(r.slot) => ~Stamped(r.id, r.slot)
    /\ book' = Append(book, [student |-> r.student, slot |-> r.slot, seated |-> Room(r.slot)])
    /\ keyed' = keyed \cup {<<r.key, n>>}
    /\ stamped' = stamped \cup (IF Room(r.slot) THEN {<<r.id, n>>} ELSE {})
    /\ UNCHANGED <<seats, expired, told>>

\* The truth about a request: its booking; that the key names another request;
\* that the student is booked under another key, or the key is too old to say;
\* that the request id was used for another booking.
True(r, a) ==
    \/ \E e \in keyed : e[1] = r.key /\ IsFor(e[2], r) /\ a = Booked(e[2])
    \/ \E e \in keyed : e[1] = r.key /\ ~IsFor(e[2], r) /\ a = Reuse
    \/ \E e \in keyed : e[1] # r.key /\ IsFor(e[2], r) /\ a = Conflict
    \/ KeyUsed(r.key) /\ r.key \in expired /\ a = Conflict
    \/ Stamped(r.id, r.slot) /\ a = Failed

Answers == {Reuse, Conflict, Failed} \cup { Booked(n) : n \in DOMAIN book }

Tell(c, a) ==
    /\ told[c] = Nothing
    /\ True(Request[c], a)
    /\ told' = [told EXCEPT ![c] = a]
    /\ UNCHANGED <<seats, book, keyed, stamped, expired>>

Furnish(s, n) ==
    /\ Taken[s] + Cardinality(SeatsTaken(s)) <= n
    /\ seats' = [seats EXCEPT ![s] = n]
    /\ UNCHANGED <<book, keyed, stamped, expired, told>>

Expire(k) ==
    /\ expired' = expired \cup {k}
    /\ UNCHANGED <<seats, book, keyed, stamped, told>>

Next ==
    \/ \E c \in Calls : Enter(Request[c]) \/ \E a \in Answers : Tell(c, a)
    \/ \E s \in Slots, n \in Sizes : Furnish(s, n)
    \/ \E e \in keyed : Expire(e[1])

Spec == Init /\ [][Next]_desk
=============================================================================
