--------------------------- MODULE RegisterProofs ---------------------------
(***************************************************************************)
(* The proof that the booking ledger implements the seat register, for any *)
(* slots, people, capacities, closures and authorizations: every step of   *)
(* SlotLedger is a step of SeatRegister or leaves the register as it is.   *)
(***************************************************************************)
EXTENDS LedgerImplementsRegister, BookingHistoryProofs

-----------------------------------------------------------------------------
(* The invariant: the counter that seat decisions are taken from is true,  *)
(* the wait list is in order, and slots have places since they exist.      *)

Furnished == \A s \in Slots : Exists(s) <=> slots[s].capacity > 0

RegisterInv == SeatInv /\ OrderInv /\ Furnished

\* What a step does to the existence and the capacity of a slot.
LEMMA CapacityChange ==
    ASSUME TypeOK, [Next]_vars, NEW s \in Slots
    PROVE  \/ /\ slots'[s].capacity = slots[s].capacity
              /\ slots'[s].status = "absent" <=> slots[s].status = "absent"
           \/ slots'[s].capacity \in Capacities /\ slots'[s].status # "absent"
<1> DEFINE Same(r, q) == /\ q.capacity = r.capacity
                         /\ q.status = "absent" <=> r.status = "absent"
<1>0. slots \in [Slots -> SlotRow] /\ \A b \in BookingIds : bookings[b].slot \in Slots
  BY TableFacts DEF TypeOK
<1>1. ASSUME NEW r \in SlotRow
      PROVE  /\ Same(r, ReserveSeat(r)) /\ Same(r, ReleaseSeat(r))
             /\ Same(r, ReleaseSeat(ReserveSeat(r))) /\ Same(r, ReserveSeat(ReleaseSeat(r)))
             /\ r.status = "open" => Same(r, Close(r))
             /\ r.status = "closed" => Same(r, Reopen(r))
  BY DEF SlotRow, ReserveSeat, ReleaseSeat, Close, Reopen
<1>2. ASSUME NEW t \in Slots, NEW q, Same(slots[t], q), slots' = [slots EXCEPT ![t] = q]
      PROVE  Same(slots[s], slots'[s])
  BY <1>0, <1>2
<1>3. CASE CreateStep
  <2>1. \/ UNCHANGED slots
        \/ \E t \in Slots : slots' = [slots EXCEPT ![t] = ReserveSeat(slots[t])]
    BY <1>3 DEF CreateStep, CreateHeld, CreateWaitlisted
  <2> QED  BY <1>0, <1>1, <1>2, <2>1
<1>4. CASE OperatorStep
  <2>1. ASSUME NEW a, NEW t \in Slots, NEW n \in Capacities, NEW coach,
               CreateSlot(a, t, n, coach) \/ AdjustCapacity(a, t, n)
        PROVE  \/ Same(slots[s], slots'[s])
               \/ slots'[s].capacity \in Capacities /\ slots'[s].status # "absent"
    BY <1>0, <2>1 DEF CreateSlot, AdjustCapacity, Exists, SlotRow
  <2>2. ASSUME NEW a, NEW c \in Closures, CreateAndApply(a, c) \/ ReopenClosure(a, c)
        PROVE  Same(slots[s], slots'[s])
    BY <1>0, <1>1, <2>2 DEF CreateAndApply, ReopenClosure
  <2> QED  BY <1>4, <2>1, <2>2 DEF OperatorStep
<1>5. CASE BookingStep
  <2>1. PICK b \in BookingIds, a \in Guardians \cup Students \cup Operators \cup Coaches :
          \/ Confirm(a, b) \/ CancelWaiting(a, b) \/ CancelSeat(a, b)
          \/ \E n \in BookingIds : CancelAndPromote(a, b, n)
          \/ \E to \in Slots : Reschedule(a, b, to)
          \/ Redeem(a, b)
    BY <1>5 DEF BookingStep
  <2>2. CASE Confirm(a, b) \/ CancelWaiting(a, b) \/ Redeem(a, b)
    BY <2>2 DEF Confirm, CancelWaiting, Redeem
  <2>3. CASE CancelSeat(a, b)
    BY <1>0, <1>1, <1>2, <2>3 DEF CancelSeat
  <2>4. ASSUME NEW n \in BookingIds, CancelAndPromote(a, b, n) PROVE Same(slots[s], slots'[s])
    BY <1>0, <1>1, <1>2, <2>4 DEF CancelAndPromote
  <2>5. ASSUME NEW to \in Slots, Reschedule(a, b, to) PROVE Same(slots[s], slots'[s])
    <3> DEFINE t == bookings[b].slot
    <3>1. slots' = [[slots EXCEPT ![to] = ReserveSeat(@)] EXCEPT ![t] = ReleaseSeat(@)]
      BY <2>5 DEF Reschedule
    <3>2. slots'[s] \in {slots[s], ReserveSeat(slots[s]), ReleaseSeat(slots[s]),
                         ReleaseSeat(ReserveSeat(slots[s]))}
      BY <1>0, <3>1
    <3> QED  BY <1>0, <1>1, <3>2
  <2> QED  BY <2>1, <2>2, <2>3, <2>4, <2>5
<1>6. CASE PromotionStep
  BY <1>0, <1>1, <1>2, <1>6 DEF PromotionStep, PromoteNext
<1>7. CASE Tick \/ UNCHANGED vars
  BY <1>7 DEF Tick, vars
<1> QED  BY <1>3, <1>4, <1>5, <1>6, <1>7 DEF Next

LEMMA RegisterInvariant == Spec => []RegisterInv
<1>1. Init => Furnished
  BY DEF Init, Furnished, Exists
<1>2. TypeOK /\ Furnished /\ [Next]_vars => Furnished'
  <2>1. \A n \in Capacities : n > 0
    BY CapacityAssumption
  <2> QED  BY <2>1, CapacityChange DEF Furnished, Exists
<1> QED  BY <1>1, <1>2, TypeCorrect, SeatInvariant, OrderInvariant, PTL DEF Spec, RegisterInv

-----------------------------------------------------------------------------
(* The register behind the tables.                                         *)

LEMMA RegisterCardinality == ASSUME NEW S PROVE Register!Cardinality(S) = Cardinality(S)
  BY DEF Register!Cardinality, Cardinality

\* The guards of the statements are the guards of the register.
LEMMA RegisterRoom ==
    ASSUME RegisterInv, NEW s \in Slots
    PROVE  /\ Register!Free(s) <=> CanReserve(slots[s])
           /\ Exists(s) => InitialReserved[s] + Register!Cardinality(Seated(s)) = slots[s].reserved
           /\ \A b \in Seated(s) : Register!Room(s, Seated(s) \ {b}) <=> CanReserve(ReleaseSeat(slots[s]))
<1> USE DEF RegisterInv
<1>1. /\ slots[s] \in SlotRow /\ InitialReserved[s] \in Nat
      /\ IsFiniteSet(Seated(s)) /\ Cardinality(Seated(s)) \in Nat
      /\ SlotBalanced(s)
  BY SeatFacts, SeatedFinite, CapacityAssumption DEF Seated
<1>2. slots[s].reserved \in Nat /\ slots[s].capacity \in Nat
  BY <1>1 DEF SlotRow
<1>3. Exists(s) => slots[s].reserved = InitialReserved[s] + Cardinality(Seated(s))
  BY <1>1 DEF SlotBalanced, Seated
<1>4. s \in OpenSlots <=> slots[s].status = "open"
  BY DEF OpenSlots
<1>5. Register!Free(s) <=> CanReserve(slots[s])
  <2>1. Register!Free(s) <=> /\ s \in OpenSlots
                             /\ InitialReserved[s] + Cardinality(Seated(s)) < slots[s].capacity
    BY RegisterCardinality DEF Register!Free, Register!Room
  <2> QED  BY <1>3, <1>4, <2>1 DEF CanReserve, Exists
<1>6. ASSUME NEW b \in Seated(s)
      PROVE  Register!Room(s, Seated(s) \ {b}) <=> CanReserve(ReleaseSeat(slots[s]))
  <2>1. Cardinality(Seated(s) \ {b}) = Cardinality(Seated(s)) - 1
    BY <1>1, FS_RemoveElement
  <2>2. Register!Room(s, Seated(s) \ {b}) <=>
            /\ s \in OpenSlots
            /\ InitialReserved[s] + Cardinality(Seated(s) \ {b}) < slots[s].capacity
    BY RegisterCardinality DEF Register!Room
  <2>3. /\ ReleaseSeat(slots[s]).status = slots[s].status
        /\ ReleaseSeat(slots[s]).capacity = slots[s].capacity
        /\ ReleaseSeat(slots[s]).reserved = slots[s].reserved - 1
    BY <1>1 DEF ReleaseSeat, SlotRow
  <2> QED  BY <1>1, <1>2, <1>3, <1>4, <2>1, <2>2, <2>3 DEF CanReserve, Exists
<1> QED  BY <1>3, <1>5, <1>6, RegisterCardinality

\* The wait list finds somebody exactly while somebody waits, and finds the
\* one with the smallest ticket.
LEMMA RegisterQueue ==
    ASSUME RegisterInv, NEW s \in Slots
    PROVE  /\ WaitingIn(s) = {} <=> Waiting(s) = {}
           /\ \A n : IsNextWaitlisted(s, n) => n \in BookingIds /\ Register!First(s, n)
<1> USE DEF RegisterInv, OrderInv
<1>1. ASSUME NEW b \in WaitingIn(s)
      PROVE  \E x \in Waiting(s) : x.booking = b
  <2>1. PICK x \in waitlist : x.booking = b /\ ~x.promoted
    BY <1>1 DEF WaitlistCoherent, WaitingIn
  <2> QED  BY <1>1, <2>1 DEF Waiting, OpenEntries, EntriesOf, WaitlistCoherent, WaitingIn
<1>2. ASSUME NEW w \in Waiting(s)
      PROVE  w \in waitlist /\ ~w.promoted /\ w.slot = s /\ w.booking \in WaitingIn(s)
  BY <1>2 DEF Waiting, OpenEntries, EntriesOf, WaitlistCoherent, WaitingIn
<1>3. ASSUME NEW n, IsNextWaitlisted(s, n)
      PROVE  n \in BookingIds /\ Register!First(s, n)
  <2>1. PICK w \in Waiting(s) : w.booking = n /\ \A x \in Waiting(s) : w.position <= x.position
    BY <1>3 DEF IsNextWaitlisted
  <2>2. n \in WaitingIn(s)
    BY <1>2, <2>1
  <2>3. ASSUME NEW c \in WaitingIn(s) PROVE n <= c
    <3>1. PICK x \in Waiting(s) : x.booking = c
      BY <1>1
    <3>2. w.position \in Nat /\ x.position \in Nat /\ w.position <= x.position
      BY <1>2, <2>1 DEF TypeOK, WaitlistRow
    <3>3. ~ c < n
      BY <1>2, <2>1, <3>1, <3>2 DEF ListInOrder
    <3>4. c \in Nat /\ n \in Nat
      BY <2>2, TableFacts DEF WaitingIn
    <3> QED  BY <3>3, <3>4
  <2> QED  BY <2>2, <2>3 DEF Register!First, WaitingIn
<1> QED  BY <1>1, <1>2, <1>3

\* The seats and the queues after one booking's row became r.
Waits(row, s) == row.slot = s /\ row.status = Waitlisted

LEMMA ViewUpdate ==
    ASSUME TypeOK, NEW b \in BookingIds, NEW r, bookings' = [bookings EXCEPT ![b] = r]
    PROVE  /\ Len(bookings)' = Len(bookings)
           /\ \A s \in Slots :
                 /\ Seated(s)' = (Seated(s) \ {b}) \cup (IF SitsIn(r, s) THEN {b} ELSE {})
                 /\ WaitingIn(s)' = (WaitingIn(s) \ {b}) \cup (IF Waits(r, s) THEN {b} ELSE {})
<1>1. /\ BookingIds' = BookingIds /\ bookings'[b] = r /\ bookings \in Seq(BookingRow)
      /\ \A i \in BookingIds \ {b} : bookings'[i] = bookings[i]
  BY TableFacts DEF BookingIds
<1>2. Len(bookings)' = Len(bookings)
  BY <1>1, TableFacts, LenProperties DEF BookingIds
<1>3. ASSUME NEW s \in Slots
      PROVE  Seated(s)' = (Seated(s) \ {b}) \cup (IF SitsIn(r, s) THEN {b} ELSE {})
  BY <1>1 DEF Seated, SeatedIn, BookingIds
<1>4. ASSUME NEW s \in Slots
      PROVE  WaitingIn(s)' = (WaitingIn(s) \ {b}) \cup (IF Waits(r, s) THEN {b} ELSE {})
  BY <1>1 DEF WaitingIn, Waits
<1> QED  BY <1>2, <1>3, <1>4

LEMMA ViewAppend ==
    ASSUME TypeOK, NEW r \in BookingRow, bookings' = Append(bookings, r)
    PROVE  /\ Len(bookings)' = Len(bookings) + 1
           /\ \A s \in Slots :
                 /\ Len(bookings) + 1 \notin WaitingIn(s)
                 /\ Seated(s)' = Seated(s) \cup (IF SitsIn(r, s) THEN {Len(bookings) + 1} ELSE {})
                 /\ WaitingIn(s)' = WaitingIn(s) \cup (IF Waits(r, s) THEN {Len(bookings) + 1} ELSE {})
<1> DEFINE n == Len(bookings) + 1
<1>1. /\ BookingIds' = BookingIds \cup {n} /\ n \notin BookingIds /\ bookings'[n] = r
      /\ \A i \in BookingIds : bookings'[i] = bookings[i]
      /\ Len(bookings)' = n
  BY TableFacts, AppendProperties, LenProperties DEF BookingIds
<1> HIDE DEF n
<1>2. ASSUME NEW s \in Slots
      PROVE  Seated(s)' = Seated(s) \cup (IF SitsIn(r, s) THEN {n} ELSE {})
  BY <1>1 DEF Seated, SeatedIn, BookingIds
<1>3. ASSUME NEW s \in Slots
      PROVE  /\ WaitingIn(s)' = WaitingIn(s) \cup (IF Waits(r, s) THEN {n} ELSE {})
             /\ n \notin WaitingIn(s)
  BY <1>1 DEF WaitingIn, Waits
<1> QED  BY <1>1, <1>2, <1>3 DEF n

\* What ViewUpdate says of a booking that takes, keeps or leaves a place.
LEMMA ViewCases ==
    ASSUME TypeOK, NEW b \in BookingIds, NEW r, bookings' = [bookings EXCEPT ![b] = r],
           NEW s \in Slots
    PROVE  /\ (SitsIn(r, s) <=> SitsIn(bookings[b], s)) => Seated(s)' = Seated(s)
           /\ SitsIn(r, s) => Seated(s)' = Seated(s) \cup {b}
           /\ ~SitsIn(r, s) => Seated(s)' = Seated(s) \ {b}
           /\ (Waits(r, s) <=> Waits(bookings[b], s)) => WaitingIn(s)' = WaitingIn(s)
           /\ ~Waits(r, s) => WaitingIn(s)' = WaitingIn(s) \ {b}
           /\ b \in Seated(s) <=> SitsIn(bookings[b], s)
           /\ b \in WaitingIn(s) <=> Waits(bookings[b], s)
<1>1. /\ Seated(s)' = (Seated(s) \ {b}) \cup (IF SitsIn(r, s) THEN {b} ELSE {})
      /\ WaitingIn(s)' = (WaitingIn(s) \ {b}) \cup (IF Waits(r, s) THEN {b} ELSE {})
  BY ViewUpdate
<1>2. /\ b \in Seated(s) <=> SitsIn(bookings[b], s)
      /\ b \in WaitingIn(s) <=> Waits(bookings[b], s)
  BY DEF Seated, SeatedIn, WaitingIn, Waits, BookingIds
<1>3. CASE SitsIn(r, s)
  BY <1>1, <1>2, <1>3
<1>4. CASE ~SitsIn(r, s)
  BY <1>1, <1>2, <1>4
<1>5. CASE Waits(r, s)
  BY <1>1, <1>2, <1>5
<1>6. CASE ~Waits(r, s)
  BY <1>1, <1>2, <1>6
<1> QED  BY <1>2, <1>3, <1>4, <1>5, <1>6

\* The functions of the register, from what one or two slots' sets become.
Seats  == [s \in Slots |-> Seated(s)]
Queues == [s \in Slots |-> WaitingIn(s)]

LEMMA ViewFunctions ==
    ASSUME NEW s \in Slots, NEW T
    PROVE  /\ (\A t \in Slots : Seated(t)' = Seated(t)) => Seats' = Seats
           /\ (\A t \in Slots : WaitingIn(t)' = WaitingIn(t)) => Queues' = Queues
           /\ Seated(s)' = T /\ (\A t \in Slots : t # s => Seated(t)' = Seated(t))
                 => Seats' = [Seats EXCEPT ![s] = T]
           /\ WaitingIn(s)' = T /\ (\A t \in Slots : t # s => WaitingIn(t)' = WaitingIn(t))
                 => Queues' = [Queues EXCEPT ![s] = T]
           /\ Seats[s] = Seated(s) /\ Queues[s] = WaitingIn(s)
  BY DEF Seats, Queues

\* The rooms of the register: what is furnished, and what is open.
RoomsKept == \A s \in Slots : /\ slots'[s].capacity = slots[s].capacity
                              /\ slots'[s].status = "open" <=> slots[s].status = "open"

LEMMA ViewRooms ==
    ASSUME RoomsKept
    PROVE  /\ [s \in Slots |-> slots[s].capacity]' = [s \in Slots |-> slots[s].capacity]
           /\ OpenSlots' = OpenSlots
  BY DEF RoomsKept, OpenSlots

\* The counters of a slot are no rooms.
LEMMA CountersKeepRooms ==
    ASSUME TypeOK
    PROVE  /\ UNCHANGED slots => RoomsKept
           /\ \A s \in Slots :
                 \/ slots' = [slots EXCEPT ![s] = ReserveSeat(@)]
                 \/ slots' = [slots EXCEPT ![s] = ReleaseSeat(@)]
                 \/ slots' = [slots EXCEPT ![s] = ReserveSeat(ReleaseSeat(@))]
                 \/ \E t \in Slots :
                       slots' = [[slots EXCEPT ![t] = ReserveSeat(@)] EXCEPT ![s] = ReleaseSeat(@)]
                 => RoomsKept
<1>1. ASSUME NEW r \in SlotRow
      PROVE  \A q \in {r, ReserveSeat(r), ReleaseSeat(r), ReserveSeat(ReleaseSeat(r)),
                       ReleaseSeat(ReserveSeat(r))} : q.capacity = r.capacity /\ q.status = r.status
  BY DEF SlotRow, ReserveSeat, ReleaseSeat
<1>2. ASSUME NEW s \in Slots, NEW u \in Slots,
             \/ slots' = [slots EXCEPT ![s] = ReserveSeat(@)]
             \/ slots' = [slots EXCEPT ![s] = ReleaseSeat(@)]
             \/ slots' = [slots EXCEPT ![s] = ReserveSeat(ReleaseSeat(@))]
             \/ \E t \in Slots :
                   slots' = [[slots EXCEPT ![t] = ReserveSeat(@)] EXCEPT ![s] = ReleaseSeat(@)]
      PROVE  slots'[u] \in {slots[u], ReserveSeat(slots[u]), ReleaseSeat(slots[u]),
                            ReserveSeat(ReleaseSeat(slots[u])), ReleaseSeat(ReserveSeat(slots[u]))}
  BY <1>2 DEF TypeOK
<1>3. \A u \in Slots : slots[u] \in SlotRow
  BY DEF TypeOK
<1> QED  BY <1>1, <1>2, <1>3 DEF RoomsKept

\* A step that users do not see.
LEMMA RegisterStutter ==
    ASSUME RoomsKept, Len(bookings)' = Len(bookings),
           \A s \in Slots : Seated(s)' = Seated(s) /\ WaitingIn(s)' = WaitingIn(s)
    PROVE  UNCHANGED Register!register
  BY ViewRooms DEF Register!register

-----------------------------------------------------------------------------
(* The steps.                                                              *)

\* Somebody who books sits down, or joins the queue.
LEMMA ArriveSeated ==
    ASSUME RegisterInv, NEW a, NEW k, NEW g \in Guardians, NEW st \in Students, NEW s \in Slots,
           CreateHeld(a, k, g, st, s)
    PROVE  Register!Next
<1> USE DEF RegisterInv, OrderInv
<1> DEFINE r == [student |-> st, guardian |-> g, slot |-> s, status |-> Held,
                 holdUntil |-> Later(now, HoldDuration), version |-> 1]
<1>1. r \in BookingRow /\ \A t \in Slots : (SitsIn(r, t) <=> t = s) /\ ~Waits(r, t)
  BY HoldTypes
  DEF BookingRow, BookingStatus, TypeOK, SitsIn, Waits, SeatedStatus, Held, Waitlisted
<1>2. bookings' = Append(bookings, r) /\ CanReserve(slots[s])
  BY DEF CreateHeld, CreateOnce
<1>3. RoomsKept
  BY CountersKeepRooms DEF CreateHeld
<1> HIDE DEF r
<1>4. /\ Len(bookings)' = Len(bookings) + 1 /\ Len(bookings) + 1 \notin WaitingIn(s)
      /\ Seated(s)' = Seated(s) \cup {Len(bookings) + 1}
      /\ \A t \in Slots : WaitingIn(t)' = WaitingIn(t) /\ (t # s => Seated(t)' = Seated(t))
  BY <1>1, <1>2, ViewAppend
<1>5. Register!Free(s)
  BY <1>2, RegisterRoom
<1>6. Register!SitDown(s, Len(bookings)', [t \in Slots |-> Seated(t)][s])
  BY <1>4 DEF Register!SitDown
<1>7. Register!Arrive(s)
  BY <1>3, <1>4, <1>5, <1>6, ViewRooms DEF Register!Arrive
<1> QED  BY <1>7 DEF Register!Next

LEMMA ArriveWaiting ==
    ASSUME RegisterInv, NEW a, NEW k, NEW g \in Guardians, NEW st \in Students, NEW s \in Slots,
           NEW p, CreateWaitlisted(a, k, g, st, s, p)
    PROVE  Register!Next
<1> USE DEF RegisterInv, OrderInv
<1> DEFINE r == [student |-> st, guardian |-> g, slot |-> s, status |-> Waitlisted,
                 holdUntil |-> NoHold, version |-> 1]
<1>1. r \in BookingRow /\ \A t \in Slots : (Waits(r, t) <=> t = s) /\ ~SitsIn(r, t)
  BY HoldTypes
  DEF BookingRow, BookingStatus, SitsIn, Waits, SeatedStatus, Held, Confirmed, CheckedIn, Waitlisted
<1>2. bookings' = Append(bookings, r) /\ ~CanReserve(slots[s])
  BY DEF CreateWaitlisted, CreateOnce
<1>3. RoomsKept
  BY CountersKeepRooms DEF CreateWaitlisted
<1> HIDE DEF r
<1>4. /\ Len(bookings)' = Len(bookings) + 1
      /\ WaitingIn(s)' = WaitingIn(s) \cup {Len(bookings) + 1}
      /\ \A t \in Slots : Seated(t)' = Seated(t) /\ (t # s => WaitingIn(t)' = WaitingIn(t))
  <2>1. /\ Len(bookings)' = Len(bookings) + 1
        /\ \A t \in Slots :
              /\ Seated(t)' = Seated(t) \cup {}
              /\ WaitingIn(t)' = WaitingIn(t) \cup (IF t = s THEN {Len(bookings) + 1} ELSE {})
    <3> HIDE DEF RegisterInv, OrderInv
    <3>1. TypeOK
      BY DEF RegisterInv, OrderInv
    <3> QED  BY <1>1, <1>2, <3>1, ViewAppend
  <2> QED  BY <2>1
<1>5. ~Register!Free(s)
  BY <1>2, RegisterRoom
<1>6. Register!Arrive(s)
  BY <1>3, <1>4, <1>5, ViewRooms DEF Register!Arrive
<1> QED  BY <1>6 DEF Register!Next

\* A booking row whose update users do not see.
LEMMA RowUnseen ==
    ASSUME RegisterInv, NEW b \in BookingIds, NEW r, bookings' = [bookings EXCEPT ![b] = r],
           r.slot = bookings[b].slot, RoomsKept,
           r.status \in SeatedStatus /\ bookings[b].status \in SeatedStatus
    PROVE  UNCHANGED Register!register
<1>1. TypeOK
  BY DEF RegisterInv, SeatInv
<1>2. ASSUME NEW s \in Slots
      PROVE  Seated(s)' = Seated(s) /\ WaitingIn(s)' = WaitingIn(s)
  <2>1. SitsIn(r, s) <=> SitsIn(bookings[b], s)
    BY DEF SitsIn
  <2>2. ~Waits(r, s) /\ ~Waits(bookings[b], s)
    BY DEF Waits, SeatedStatus, Held, Confirmed, CheckedIn, Waitlisted
  <2> QED  BY <1>1, <2>1, <2>2, ViewCases
<1> QED  BY <1>1, <1>2, ViewUpdate, RegisterStutter

\* A confirmed or redeemed booking stays where it is.
LEMMA StaySeated ==
    ASSUME RegisterInv, NEW a, NEW b \in BookingIds, Confirm(a, b) \/ Redeem(a, b)
    PROVE  UNCHANGED Register!register
<1> USE DEF RegisterInv, SeatInv
<1>1. PICK to \in {Confirmed, CheckedIn} :
          /\ bookings' = [bookings EXCEPT ![b] = TransitionBooking(@, to)]
          /\ bookings[b].status \in {Held, Confirmed} /\ UNCHANGED slots
  BY DEF Confirm, MayConfirm, Redeem
<1> DEFINE r == TransitionBooking(bookings[b], to)
<1>2. r.slot = bookings[b].slot /\ r.status = to
  BY TableFacts, RowUpdates
<1>3. bookings' = [bookings EXCEPT ![b] = r]
  BY <1>1
<1> HIDE DEF r
<1> QED  BY <1>1, <1>2, <1>3, CountersKeepRooms, RowUnseen DEF SeatedStatus

\* Cancelling a waitlisted booking is giving up.
LEMMA GivesUp ==
    ASSUME RegisterInv, NEW a, NEW b \in BookingIds, CancelWaiting(a, b)
    PROVE  Register!Next
<1> USE DEF RegisterInv, SeatInv
<1>0. PICK s \in Slots : s = bookings[b].slot
  BY TableFacts
<1> DEFINE r == TransitionBooking(bookings[b], Cancelled)
<1>1. bookings' = [bookings EXCEPT ![b] = r] /\ bookings[b].status = Waitlisted /\ UNCHANGED slots
  BY DEF CancelWaiting
<1>2. r.status = Cancelled
  BY TableFacts, RowUpdates
<1>3. \A t \in Slots : /\ ~SitsIn(r, t) /\ ~Waits(r, t) /\ ~SitsIn(bookings[b], t)
                       /\ Waits(bookings[b], t) <=> t = s
  BY <1>0, <1>1, <1>2
  DEF SitsIn, Waits, SeatedStatus, Held, Confirmed, CheckedIn, Waitlisted, Cancelled
<1>4. RoomsKept
  BY <1>1, CountersKeepRooms
<1> HIDE DEF r
<1>5. /\ Len(bookings)' = Len(bookings)
      /\ b \in WaitingIn(s) /\ WaitingIn(s)' = WaitingIn(s) \ {b}
      /\ \A t \in Slots : Seated(t)' = Seated(t) /\ (t # s => WaitingIn(t)' = WaitingIn(t))
  <2>1. Len(bookings)' = Len(bookings)
    BY <1>1, ViewUpdate
  <2> QED  BY <1>1, <1>2, <1>3, <2>1, ViewCases
<1>6. Register!GiveUp(s, b)
  <2>1. Queues' = [Queues EXCEPT ![s] = Queues[s] \ {b}] /\ Seats' = Seats
    BY <1>2, <1>5, ViewFunctions
  <2> QED  BY <1>2, <1>4, <1>5, <2>1, ViewRooms DEF Register!GiveUp, Queues, Seats
<1> QED  BY <1>2, <1>5, <1>6 DEF Register!Next

\* Cancelling a seated booking is leaving: here nobody follows.
LEMMA LeavesEmpty ==
    ASSUME RegisterInv, NEW a, NEW b \in BookingIds, CancelSeat(a, b)
    PROVE  Register!Next
<1> USE DEF RegisterInv, SeatInv
<1>0. PICK s \in Slots : s = bookings[b].slot
  BY TableFacts
<1> DEFINE r == TransitionBooking(bookings[b], Cancelled)
<1>1. /\ bookings' = [bookings EXCEPT ![b] = r] /\ bookings[b].status \in {Held, Confirmed}
      /\ slots' = [slots EXCEPT ![s] = ReleaseSeat(@)] /\ ~PassesSeatOn(s)
  BY <1>0 DEF CancelSeat, GivesSeatBack
<1>2. r.status = Cancelled
  BY TableFacts, RowUpdates
<1>3. \A t \in Slots : /\ ~SitsIn(r, t) /\ ~Waits(r, t) /\ ~Waits(bookings[b], t)
                       /\ SitsIn(bookings[b], t) <=> t = s
  BY <1>0, <1>1, <1>2
  DEF SitsIn, Waits, SeatedStatus, Held, Confirmed, CheckedIn, Waitlisted, Cancelled
<1>4. RoomsKept
  BY <1>1, <1>2, CountersKeepRooms
<1> HIDE DEF r
<1>5. /\ Len(bookings)' = Len(bookings)
      /\ b \in Seated(s) /\ Seated(s)' = Seated(s) \ {b}
      /\ \A t \in Slots : WaitingIn(t)' = WaitingIn(t) /\ (t # s => Seated(t)' = Seated(t))
  <2>1. Len(bookings)' = Len(bookings)
    BY <1>1, ViewUpdate
  <2> QED  BY <1>1, <1>2, <1>3, <2>1, ViewCases
<1>6. ~(Register!Room(s, Seated(s) \ {b}) /\ WaitingIn(s) # {})
  BY <1>1, <1>2, <1>5, RegisterRoom, RegisterQueue DEF PassesSeatOn
<1>7. Register!Leave(s, b)
  <2>1. Seats' = [Seats EXCEPT ![s] = Seats[s] \ {b}] /\ Queues' = Queues
    BY <1>2, <1>5, ViewFunctions
  <2>2. ~(Register!Room(s, Seats[s] \ {b}) /\ Queues[s] # {}) /\ b \in Seats[s]
    BY <1>2, <1>5, <1>6, ViewFunctions
  <2> QED  BY <1>4, <1>5, <2>1, <2>2, ViewRooms DEF Register!Leave, Queues, Seats
<1> QED  BY <1>2, <1>5, <1>7 DEF Register!Next

\* Who sits and who waits after a seat was handed on.
LEMMA HandedOn ==
    ASSUME RegisterInv, NEW a, NEW b \in BookingIds, NEW n \in BookingIds, CancelAndPromote(a, b, n),
           NEW s \in Slots, s = bookings[b].slot
    PROVE  /\ Len(bookings)' = Len(bookings) /\ n # b
           /\ b \in Seated(s) /\ n \in WaitingIn(s) /\ n \notin Seated(s)
           /\ Seated(s)' = (Seated(s) \ {b}) \cup {n} /\ WaitingIn(s)' = WaitingIn(s) \ {n}
           /\ \A t \in Slots : t # s => Seated(t)' = Seated(t) /\ WaitingIn(t)' = WaitingIn(t)
<1> USE DEF RegisterInv, SeatInv
<1> DEFINE r == TransitionBooking(bookings[b], Cancelled)
           q == PromoteWaitlistedBooking(bookings[n])
<1>1. /\ bookings' = [bookings EXCEPT ![b] = r, ![n] = PromoteWaitlistedBooking(@)]
      /\ bookings[b].status \in {Held, Confirmed}
      /\ slots' = [slots EXCEPT ![s] = ReserveSeat(ReleaseSeat(@))]
      /\ PassesSeatOn(s) /\ IsNextWaitlisted(s, n)
  BY DEF CancelAndPromote, GivesSeatBack
<1>2. /\ r.status = Cancelled /\ q.status = Held /\ q.slot = bookings[n].slot
      /\ bookings[n].status = Waitlisted /\ bookings[n].slot = s
  BY <1>1, TableFacts, RowUpdates, FoundInOwnSlot
<1>3. n # b
  BY <1>1, <1>2 DEF Held, Confirmed, Waitlisted
<1>4. /\ BookingIds' = BookingIds /\ Len(bookings)' = Len(bookings)
      /\ bookings'[b] = r /\ bookings'[n] = q
      /\ \A i \in BookingIds \ {b, n} : bookings'[i] = bookings[i]
  BY <1>1, <1>3, TableFacts, LenProperties DEF BookingIds
<1>5. \A t \in Slots : /\ ~SitsIn(r, t) /\ ~Waits(r, t) /\ ~Waits(q, t)
                       /\ SitsIn(q, t) <=> t = s
                       /\ ~Waits(bookings[b], t) /\ ~SitsIn(bookings[n], t)
                       /\ SitsIn(bookings[b], t) <=> t = s
                       /\ Waits(bookings[n], t) <=> t = s
  BY <1>1, <1>2
  DEF SitsIn, Waits, SeatedStatus, Held, Confirmed, CheckedIn, Waitlisted, Cancelled
<1> HIDE DEF r, q
<1>6. /\ b \in Seated(s) /\ n \in WaitingIn(s) /\ n \notin Seated(s)
      /\ Seated(s)' = (Seated(s) \ {b}) \cup {n} /\ WaitingIn(s)' = WaitingIn(s) \ {n}
      /\ \A t \in Slots : t # s => Seated(t)' = Seated(t) /\ WaitingIn(t)' = WaitingIn(t)
  <2>1. \A t \in Slots, i \in BookingIds :
          /\ i \in Seated(t)' <=> SitsIn(bookings'[i], t)
          /\ i \in WaitingIn(t)' <=> Waits(bookings'[i], t)
          /\ i \in Seated(t) <=> SitsIn(bookings[i], t)
          /\ i \in WaitingIn(t) <=> Waits(bookings[i], t)
    BY <1>4 DEF Seated, SeatedIn, WaitingIn, Waits, BookingIds
  <2>2. \A t \in Slots : /\ Seated(t)' \subseteq BookingIds /\ WaitingIn(t)' \subseteq BookingIds
                         /\ Seated(t) \subseteq BookingIds /\ WaitingIn(t) \subseteq BookingIds
    BY <1>4 DEF Seated, SeatedIn, WaitingIn, BookingIds
  <2>3. b \in Seated(s) /\ n \in WaitingIn(s) /\ n \notin Seated(s)
    BY <1>2, <1>5, <2>1
  <2>4. Seated(s)' = (Seated(s) \ {b}) \cup {n} /\ WaitingIn(s)' = WaitingIn(s) \ {n}
    <3>1. \A i \in BookingIds : /\ i \in Seated(s)' <=> (i \in Seated(s) /\ i # b) \/ i = n
                                /\ i \in WaitingIn(s)' <=> i \in WaitingIn(s) /\ i # n
      BY <1>2, <1>3, <1>4, <1>5, <2>1
    <3> QED  BY <1>2, <2>2, <3>1
  <2>5. \A t \in Slots : t # s => Seated(t)' = Seated(t) /\ WaitingIn(t)' = WaitingIn(t)
    <3>1. \A t \in Slots, i \in BookingIds : t # s =>
              (i \in Seated(t)' <=> i \in Seated(t)) /\ (i \in WaitingIn(t)' <=> i \in WaitingIn(t))
      BY <1>4, <1>5, <2>1
    <3> QED  BY <2>2, <3>1
  <2> QED  BY <2>3, <2>4, <2>5
<1> QED  BY <1>3, <1>4, <1>6

\* ... and here the first in the queue does.
LEMMA LeavesToNext ==
    ASSUME RegisterInv, NEW a, NEW b \in BookingIds, NEW n \in BookingIds, CancelAndPromote(a, b, n)
    PROVE  Register!Next
<1> USE DEF RegisterInv, SeatInv
<1>0. PICK s \in Slots : s = bookings[b].slot
  BY TableFacts
<1>1. /\ slots' = [slots EXCEPT ![s] = ReserveSeat(ReleaseSeat(@))]
      /\ PassesSeatOn(s) /\ IsNextWaitlisted(s, n)
  BY <1>0 DEF CancelAndPromote
<1>2. Len(bookings)' = Len(bookings)
  BY <1>0, HandedOn
<1>3. RoomsKept
  BY <1>1, CountersKeepRooms
<1>4. /\ b \in Seated(s) /\ n \in WaitingIn(s)
      /\ Seated(s)' = (Seated(s) \ {b}) \cup {n} /\ WaitingIn(s)' = WaitingIn(s) \ {n}
      /\ \A t \in Slots : t # s => Seated(t)' = Seated(t) /\ WaitingIn(t)' = WaitingIn(t)
  BY <1>0, HandedOn, ZenonT(40)
<1>5. Register!Room(s, Seated(s) \ {b}) /\ Register!First(s, n)
  BY <1>1, <1>4, RegisterRoom, RegisterQueue DEF PassesSeatOn
<1>6. Register!SitDown(s, n, Seated(s) \ {b})
  <2>1. /\ Seats' = [Seats EXCEPT ![s] = (Seated(s) \ {b}) \cup {n}]
        /\ Queues' = [Queues EXCEPT ![s] = Queues[s] \ {n}]
    BY <1>4, ViewFunctions
  <2> QED  BY <2>1 DEF Register!SitDown, Queues, Seats
<1>7. Register!Leave(s, b)
  <2>1. Seats[s] = Seated(s) /\ n \in Queues[s] /\ b \in Seats[s]
    BY <1>4, ViewFunctions
  <2> QED  BY <1>2, <1>3, <1>5, <1>6, <2>1, ViewRooms DEF Register!Leave, Queues, Seats
<1> QED  BY <1>4, <1>7 DEF Register!Next

\* Rescheduling is moving; into the slot where the booking sits, it is nothing.
LEMMA MovesOver ==
    ASSUME RegisterInv, NEW a, NEW b \in BookingIds, NEW to \in Slots, Reschedule(a, b, to)
    PROVE  [Register!Next]_Register!register
<1> USE DEF RegisterInv, SeatInv
<1>0. PICK from \in Slots : from = bookings[b].slot
  BY TableFacts
<1> DEFINE r == MoveBooking(bookings[b], to)
<1>1. /\ bookings' = [bookings EXCEPT ![b] = r] /\ bookings[b].status \in {Held, Confirmed}
      /\ slots' = [[slots EXCEPT ![to] = ReserveSeat(@)] EXCEPT ![from] = ReleaseSeat(@)]
      /\ CanReserve(slots[to])
  BY <1>0 DEF Reschedule, MayReschedule
<1>2. r.status = bookings[b].status /\ r.slot = to
  BY TableFacts, RowUpdates
<1>3. \A t \in Slots : /\ ~Waits(r, t) /\ ~Waits(bookings[b], t)
                       /\ SitsIn(r, t) <=> t = to
                       /\ SitsIn(bookings[b], t) <=> t = from
  BY <1>0, <1>1, <1>2 DEF SitsIn, Waits, SeatedStatus, Held, Confirmed, Waitlisted
<1>4. RoomsKept
  BY <1>0, <1>1, CountersKeepRooms
<1> HIDE DEF r
<1>5. Len(bookings)' = Len(bookings) /\ \A t \in Slots : WaitingIn(t)' = WaitingIn(t)
  BY <1>1, <1>3, ViewUpdate, ViewCases
<1>6. CASE to = from
  <2>1. \A t \in Slots : Seated(t)' = Seated(t)
    BY <1>1, <1>3, <1>6, ViewCases
  <2> QED  BY <1>4, <1>5, <2>1, RegisterStutter
<1>7. CASE to # from
  <2>1. /\ b \in Seated(from) /\ Seated(from)' = Seated(from) \ {b} /\ Seated(to)' = Seated(to) \cup {b}
        /\ \A t \in Slots \ {from, to} : Seated(t)' = Seated(t)
    BY <1>1, <1>3, <1>7, ViewCases
  <2>2. Seats' = [Seats EXCEPT ![from] = @ \ {b}, ![to] = @ \cup {b}]
    BY <1>7, <2>1 DEF Seats
  <2>3. Queues' = Queues /\ b \in Seats[from]
    BY <1>5, <2>1, ViewFunctions
  <2>4. Register!Free(to)
    BY <1>1, RegisterRoom
  <2>5. Register!Move(from, to, b)
    BY <1>4, <1>5, <1>7, <2>2, <2>3, <2>4, ViewRooms DEF Register!Move, Seats, Queues
  <2> QED  BY <2>1, <2>5 DEF Register!Next
<1> QED  BY <1>6, <1>7

\* A promotion calls the first in the queue.
LEMMA CallsFirst ==
    ASSUME RegisterInv, NEW s \in Slots, NEW n \in BookingIds, PromoteNext(s, n)
    PROVE  Register!Next
<1> USE DEF RegisterInv, SeatInv
<1> DEFINE q == PromoteWaitlistedBooking(bookings[n])
<1>1. /\ bookings' = [bookings EXCEPT ![n] = q] /\ CanReserve(slots[s]) /\ IsNextWaitlisted(s, n)
      /\ slots' = [slots EXCEPT ![s] = ReserveSeat(@)]
  BY DEF PromoteNext
<1>2. /\ q.status = Held /\ q.slot = bookings[n].slot
      /\ bookings[n].status = Waitlisted /\ bookings[n].slot = s
  BY <1>1, TableFacts, RowUpdates, FoundInOwnSlot
<1>3. \A t \in Slots : /\ ~Waits(q, t) /\ ~SitsIn(bookings[n], t)
                       /\ SitsIn(q, t) <=> t = s
                       /\ Waits(bookings[n], t) <=> t = s
  BY <1>2 DEF SitsIn, Waits, SeatedStatus, Held, Confirmed, CheckedIn, Waitlisted
<1>4. RoomsKept
  BY <1>1, CountersKeepRooms
<1> HIDE DEF q
<1>5. /\ Len(bookings)' = Len(bookings) /\ n \in WaitingIn(s)
      /\ Seated(s)' = Seated(s) \cup {n} /\ WaitingIn(s)' = WaitingIn(s) \ {n}
      /\ \A t \in Slots : t # s => Seated(t)' = Seated(t) /\ WaitingIn(t)' = WaitingIn(t)
  BY <1>1, <1>3, ViewUpdate, ViewCases
<1>6. Register!Free(s) /\ Register!First(s, n)
  BY <1>1, RegisterRoom, RegisterQueue
<1>7. /\ Seats' = [Seats EXCEPT ![s] = Seats[s] \cup {n}] /\ Queues' = [Queues EXCEPT ![s] = Queues[s] \ {n}]
      /\ n \in Queues[s]
  BY <1>5, ViewFunctions
<1>8. Register!Call(s, n)
  BY <1>4, <1>5, <1>6, <1>7, ViewRooms DEF Register!Call, Register!SitDown, Seats, Queues
<1> QED  BY <1>7, <1>8 DEF Register!Next, Queues

\* A step that leaves the table of bookings alone moves nobody.
LEMMA NobodyMoves ==
    ASSUME UNCHANGED bookings
    PROVE  /\ Len(bookings)' = Len(bookings) /\ Seats' = Seats /\ Queues' = Queues
           /\ \A s \in Slots : Seated(s)' = Seated(s) /\ WaitingIn(s)' = WaitingIn(s)
  BY DEF Seats, Queues, Seated, SeatedIn, WaitingIn, BookingIds

\* A slot that is created or adjusted is furnished.
LEMMA Furnishes ==
    ASSUME RegisterInv, NEW a, NEW s \in Slots, NEW n \in Capacities, NEW coach,
           CreateSlot(a, s, n, coach) \/ AdjustCapacity(a, s, n)
    PROVE  Register!Next
<1> USE DEF RegisterInv
<1>0. /\ slots \in [Slots -> SlotRow] /\ slots[s] \in SlotRow /\ slots[s].capacity \in Nat
      /\ n \in Nat \ {0} /\ InitialReserved[s] \in Nat /\ slots[s].reserved \in Nat
  BY SeatFacts, CapacityAssumption
<1>1. Len(bookings)' = Len(bookings) /\ Seats' = Seats /\ Queues' = Queues
  BY NobodyMoves DEF CreateSlot, AdjustCapacity
<1>2. [t \in Slots |-> slots[t].capacity]' = [[t \in Slots |-> slots[t].capacity] EXCEPT ![s] = n]
  <2>1. slots'[s].capacity = n /\ \A t \in Slots \ {s} : slots'[t] = slots[t]
    BY <1>0 DEF CreateSlot, AdjustCapacity, SlotRow
  <2> QED  BY <2>1
<1>3. InitialReserved[s] + Register!Cardinality(Seats[s]) <= n
  <2>1. CASE CreateSlot(a, s, n, coach)
    <3>1. Seated(s) = {}
      BY <2>1, SeatFacts DEF CreateSlot, Exists, Seated, SeatedIn, SitsIn, BookingIds
    <3>2. Register!Cardinality(Seats[s]) = 0
      BY <3>1, RegisterCardinality, FS_EmptySet DEF Seats
    <3> QED  BY <1>0, <2>1, <3>2 DEF CreateSlot
  <2>2. CASE AdjustCapacity(a, s, n)
    BY <1>0, <2>2, RegisterRoom DEF AdjustCapacity, CanAdjust, Seats
  <2> QED  BY <2>1, <2>2
<1>4. OpenSlots' = IF slots[s].capacity = 0 THEN OpenSlots \cup {s} ELSE OpenSlots
  <2>1. CASE CreateSlot(a, s, n, coach)
    <3>1. slots[s].capacity = 0
      BY <1>0, <2>1 DEF Furnished, CreateSlot
    <3>2. slots'[s].status = "open" /\ \A t \in Slots \ {s} : slots'[t] = slots[t]
      BY <1>0, <2>1 DEF CreateSlot
    <3> QED  BY <3>1, <3>2 DEF OpenSlots
  <2>2. CASE AdjustCapacity(a, s, n)
    <3>1. slots[s].capacity # 0
      BY <1>0, <2>2 DEF Furnished, AdjustCapacity
    <3>2. \A t \in Slots : slots'[t].status = slots[t].status
      BY <1>0, <2>2 DEF AdjustCapacity, SlotRow
    <3> QED  BY <3>1, <3>2 DEF OpenSlots
  <2> QED  BY <2>1, <2>2
<1>5. Register!Furnish(s, n)
  BY <1>1, <1>2, <1>3, <1>4 DEF Register!Furnish, Seats, Queues
<1> QED  BY <1>5 DEF Register!Next

\* A closure shuts slots, a reopening opens slots that have been furnished.
LEMMA ShutsOrOpens ==
    ASSUME RegisterInv, NEW a, NEW c \in Closures, CreateAndApply(a, c) \/ ReopenClosure(a, c)
    PROVE  Register!Next
<1> USE DEF RegisterInv
<1>0. slots \in [Slots -> SlotRow]
  BY SeatFacts
<1>1. Len(bookings)' = Len(bookings) /\ Seats' = Seats /\ Queues' = Queues
  BY NobodyMoves DEF CreateAndApply, ReopenClosure
<1>2. \A r \in SlotRow : /\ Close(r).status = "closed" /\ Close(r).capacity = r.capacity
                         /\ Reopen(r).status = "open" /\ Reopen(r).capacity = r.capacity
  BY DEF SlotRow, Close, Reopen
<1>3. CASE CreateAndApply(a, c)
  <2> DEFINE S == { s \in OpenSlots : Covers(c, s) }
  <2>1. \A s \in Slots : /\ slots'[s].capacity = slots[s].capacity
                         /\ slots'[s].status = "open" <=> slots[s].status = "open" /\ s \notin S
    BY <1>0, <1>2, <1>3 DEF CreateAndApply, OpenSlots
  <2>2. OpenSlots' = OpenSlots \ S /\ S \in SUBSET Slots
    BY <2>1 DEF OpenSlots
  <2>3. [s \in Slots |-> slots[s].capacity]' = [s \in Slots |-> slots[s].capacity]
    BY <2>1
  <2> HIDE DEF S
  <2>4. Register!Shut(S)
    BY <1>1, <2>2, <2>3 DEF Register!Shut, Seats, Queues
  <2> QED  BY <2>2, <2>4 DEF Register!Next
<1>4. CASE ReopenClosure(a, c)
  <2> DEFINE S == { s \in Slots : /\ Covers(c, s) /\ slots[s].status = "closed"
                                  /\ ~StillClosed(closures', s) }
  <2>1. \A s \in Slots : /\ slots'[s].capacity = slots[s].capacity
                         /\ slots'[s].status = "open" <=> slots[s].status = "open" \/ s \in S
                         /\ s \in S => slots[s].status = "closed"
    BY <1>0, <1>2, <1>4 DEF ReopenClosure
  <2>2. OpenSlots' = OpenSlots \cup S /\ S \in SUBSET Slots
    BY <2>1 DEF OpenSlots
  <2>3. [s \in Slots |-> slots[s].capacity]' = [s \in Slots |-> slots[s].capacity]
    BY <2>1
  <2>4. \A s \in S : [t \in Slots |-> slots[t].capacity][s] > 0
    BY <2>1 DEF Furnished, Exists
  <2> HIDE DEF S
  <2>5. Register!Open(S)
    BY <1>1, <2>2, <2>3, <2>4 DEF Register!Open, Seats, Queues
  <2> QED  BY <2>2, <2>5 DEF Register!Next
<1> QED  BY <1>3, <1>4

-----------------------------------------------------------------------------
(* The refinement.                                                         *)

LEMMA RegisterInit == Init => Register!Init
<1> SUFFICES ASSUME Init PROVE Register!Init
  OBVIOUS
<1>1. bookings = << >> /\ Len(bookings) = 0 /\ BookingIds = {}
  BY DEF Init, BookingIds
<1>2. \A s \in Slots : Seated(s) = {} /\ WaitingIn(s) = {}
  BY <1>1 DEF Seated, SeatedIn, WaitingIn, BookingIds
<1>3. \A s \in Slots : slots[s].capacity = 0 /\ slots[s].status = "absent"
  BY DEF Init
<1>4. /\ [s \in Slots |-> slots[s].capacity] \in [Slots -> Capacities \cup {0}]
      /\ \A s \in Slots : ~ ([x \in Slots |-> slots[x].capacity][s] > 0)
  BY <1>3
<1> QED  BY <1>1, <1>2, <1>3, <1>4 DEF Register!Init, OpenSlots

LEMMA RegisterStep == RegisterInv /\ [Next]_vars => [Register!Next]_Register!register
<1> SUFFICES ASSUME RegisterInv, [Next]_vars PROVE [Register!Next]_Register!register
  OBVIOUS
<1>1. CASE OperatorStep
  BY <1>1, Furnishes, ShutsOrOpens DEF OperatorStep
<1>2. CASE CreateStep
  BY <1>2, ArriveSeated, ArriveWaiting DEF CreateStep
<1>3. CASE BookingStep
  BY <1>3, StaySeated, GivesUp, LeavesEmpty, LeavesToNext, MovesOver DEF BookingStep
<1>4. CASE PromotionStep
  BY <1>4, CallsFirst DEF PromotionStep
<1>5. CASE Tick \/ UNCHANGED vars
  <2>1. UNCHANGED <<slots, bookings>>
    BY <1>5 DEF Tick, vars
  <2>2. RoomsKept
    BY <2>1 DEF RoomsKept
  <2> QED  BY <2>1, <2>2, NobodyMoves, RegisterStutter
<1> QED  BY <1>1, <1>2, <1>3, <1>4, <1>5 DEF Next

\* What the service calls do to counters, statuses, wait list positions and
\* ledger entries is, to the people, a register in which seats are neither lost
\* nor handed out twice and the longest waiting is served first.
THEOREM LedgerServesRegister == Spec => ImplementsRegister
<1> QED  BY RegisterInit, RegisterStep, RegisterInvariant, PTL DEF Spec, ImplementsRegister, Register!Spec

-----------------------------------------------------------------------------
(* Seats handed on.                                                        *)

\* A booking loses its seat to a cancellation only in the two calls for that.
LEMMA WhoCancels ==
    ASSUME RegisterInv, [Next]_vars, NEW b \in BookingIds,
           bookings[b].status \in SeatedStatus, bookings'[b].status = Cancelled
    PROVE  \E a : CancelSeat(a, b) \/ \E n \in BookingIds : CancelAndPromote(a, b, n)
<1> USE DEF RegisterInv, SeatInv
<1>0. \A to : to \in SeatedStatus \/ to = Confirmed \/ to = CheckedIn \/ to = Held => to # Cancelled
  BY DEF SeatedStatus, Held, Confirmed, CheckedIn, Cancelled
<1>1. ASSUME NEW x \in BookingIds, NEW r, bookings' = [bookings EXCEPT ![x] = r],
             r.status = Cancelled => bookings[x].status \notin SeatedStatus
      PROVE  FALSE
  BY <1>0, <1>1, TableFacts DEF BookingIds
<1>2. CASE UNCHANGED bookings
  BY <1>0, <1>2
<1>3. CASE CreateStep
  <2>1. PICK r : bookings' = Append(bookings, r)
    BY <1>3 DEF CreateStep, CreateHeld, CreateWaitlisted, CreateOnce
  <2>2. bookings'[b] = bookings[b]
    BY <2>1, TableFacts, LenProperties
  <2> QED  BY <1>0, <2>2
<1>4. CASE BookingStep
  <2>1. PICK x \in BookingIds, a \in Guardians \cup Students \cup Operators \cup Coaches :
          \/ Confirm(a, x) \/ CancelWaiting(a, x) \/ CancelSeat(a, x)
          \/ \E n \in BookingIds : CancelAndPromote(a, x, n)
          \/ \E to \in Slots : Reschedule(a, x, to)
          \/ Redeem(a, x)
    BY <1>4 DEF BookingStep
  <2>2. bookings[x] \in BookingRow
    BY TableFacts
  <2>3. CASE Confirm(a, x) \/ CancelWaiting(a, x) \/ Redeem(a, x)
    <3>1. Waitlisted \notin SeatedStatus
      BY DEF SeatedStatus, Held, Confirmed, CheckedIn, Waitlisted
    <3> QED  BY <1>0, <1>1, <2>2, <2>3, <3>1, RowUpdates DEF Confirm, CancelWaiting, Redeem
  <2>4. ASSUME NEW to \in Slots, Reschedule(a, x, to) PROVE FALSE
    <3>1. MoveBooking(bookings[x], to).status = bookings[x].status
      BY <2>2, RowUpdates
    <3>2. bookings[x].status \in {Held, Confirmed}
      BY <2>4 DEF Reschedule, MayReschedule
    <3> QED  BY <1>0, <1>1, <2>4, <3>1, <3>2 DEF Reschedule
  <2>5. CASE CancelSeat(a, x)
    <3>1. x = b
      BY <1>0, <2>5, TableFacts DEF CancelSeat, BookingIds
    <3> QED  BY <2>5, <3>1
  <2>6. ASSUME NEW n \in BookingIds, CancelAndPromote(a, x, n) PROVE x = b
    <3>1. bookings' = [bookings EXCEPT ![x] = TransitionBooking(@, Cancelled),
                                       ![n] = PromoteWaitlistedBooking(@)]
      BY <2>6 DEF CancelAndPromote
    <3>2. bookings[n].status = Waitlisted
      BY <2>6, FoundInOwnSlot DEF CancelAndPromote
    <3>3. n # b
      BY <3>2 DEF SeatedStatus, Held, Confirmed, CheckedIn, Waitlisted
    <3> QED  BY <1>0, <3>1, <3>3, TableFacts DEF BookingIds
  <2> QED  BY <2>1, <2>3, <2>4, <2>5, <2>6
<1>5. CASE PromotionStep
  <2>1. PICK s \in Slots, n \in BookingIds : PromoteNext(s, n)
    BY <1>5 DEF PromotionStep
  <2>2. PromoteWaitlistedBooking(bookings[n]).status = Held
    BY TableFacts, RowUpdates
  <2> QED  BY <1>0, <1>1, <2>1, <2>2 DEF PromoteNext
<1>6. CASE OperatorStep \/ Tick \/ UNCHANGED vars
  BY <1>2, <1>6
  DEF OperatorStep, CreateSlot, AdjustCapacity, CreateAndApply, ReopenClosure, Tick, vars
<1> QED  BY <1>3, <1>4, <1>5, <1>6 DEF Next

\* While somebody waits for an open slot, cancelling a seat does not empty it:
\* the cancelling transaction itself hands the seat on.
THEOREM CancelsHandOn == Spec => CancelHandsOn
<1>1. ASSUME RegisterInv, RegisterInv', [Next]_vars, NEW b \in BookingIds, NEW n \in BookingIds,
             NEW s \in Slots, s = bookings[b].slot,
             b \in Seated(s), bookings'[b].status = Cancelled, slots[s].status = "open",
             bookings[n].slot = s, bookings[n].status = Waitlisted
      PROVE  Cardinality(Seated(s)') = Cardinality(Seated(s))
  <2> USE DEF RegisterInv
  <2>1. bookings[b].status \in SeatedStatus /\ n \in WaitingIn(s)
    BY <1>1 DEF Seated, SeatedIn, SitsIn, WaitingIn
  <2>2. /\ slots[s] \in SlotRow /\ slots[s].reserved \in Nat /\ slots[s].capacity \in Nat
        /\ slots[s].reserved <= slots[s].capacity
        /\ Waiting(s) # {} /\ Exists(s)
    BY <1>1, <2>1, SeatFacts, RegisterQueue DEF Exists
  <2>3. ASSUME NEW a, CancelSeat(a, b) PROVE FALSE
    <3>1. CanReserve(ReleaseSeat(slots[s]))
      BY <1>1, <2>2 DEF CanReserve, ReleaseSeat, SlotRow
    <3> QED  BY <1>1, <2>2, <2>3, <3>1 DEF CancelSeat, PassesSeatOn
  <2>4. ASSUME NEW a, NEW m \in BookingIds, CancelAndPromote(a, b, m)
        PROVE  slots'[s].reserved = slots[s].reserved /\ slots'[s].status = slots[s].status
    <3>1. slots'[s] = ReserveSeat(ReleaseSeat(slots[s]))
      BY <1>1, <2>4, SeatFacts DEF CancelAndPromote
    <3> QED  BY <2>2, <3>1 DEF ReserveSeat, ReleaseSeat, SlotRow
  <2>5. slots'[s].reserved = slots[s].reserved /\ slots'[s].status = slots[s].status
    BY <1>1, <2>1, <2>3, <2>4, WhoCancels
  <2>6. /\ slots[s].reserved = InitialReserved[s] + Cardinality(Seated(s))
        /\ slots'[s].reserved = InitialReserved[s] + Cardinality(Seated(s)')
    <3>1. SlotBalanced(s) /\ SlotBalanced(s)'
      BY <1>1 DEF SeatInv
    <3> QED  BY <2>2, <2>5, <3>1 DEF SlotBalanced, Exists, Seated
  <2>7. Cardinality(Seated(s)) \in Nat /\ Cardinality(Seated(s)') \in Nat /\ InitialReserved[s] \in Nat
    BY <1>1, SeatedFinite, CapacityAssumption DEF SeatInv, TypeOK, Seated
  <2> QED  BY <2>5, <2>6, <2>7
<1>2. RegisterInv /\ RegisterInv' /\ [Next]_vars =>
        [\A b, n \in BookingIds :
            LET s == bookings[b].slot IN
            /\ b \in Seated(s) /\ bookings'[b].status = Cancelled
            /\ slots[s].status = "open"
            /\ bookings[n].slot = s /\ bookings[n].status = Waitlisted
            => Cardinality(Seated(s)') = Cardinality(Seated(s))]_vars
  <2>1. ASSUME RegisterInv, RegisterInv', [Next]_vars, NEW b \in BookingIds, NEW n \in BookingIds,
               b \in Seated(bookings[b].slot), bookings'[b].status = Cancelled,
               slots[bookings[b].slot].status = "open",
               bookings[n].slot = bookings[b].slot, bookings[n].status = Waitlisted
        PROVE  Cardinality(Seated(bookings[b].slot)') = Cardinality(Seated(bookings[b].slot))
    <3>1. bookings[b].slot \in Slots
      BY <2>1, TableFacts DEF RegisterInv, SeatInv
    <3>2. bookings'[b].slot = bookings[b].slot
      <4>1. BookingChange(b)
        BY <2>1, StepChange DEF RegisterInv, SeatInv, BookingsChange
      <4>2. bookings[b].status \in SeatedStatus
        BY <2>1 DEF Seated, SeatedIn, SitsIn
      <4> QED  BY <2>1, <4>1, <4>2
               DEF BookingChange, RowTransition, RowPromotion, RowMove,
                   SeatedStatus, Held, Confirmed, CheckedIn, Waitlisted, Cancelled
    <3>3. ASSUME NEW s \in Slots, s = bookings[b].slot
          PROVE  Cardinality(Seated(s)') = Cardinality(Seated(s))
      BY <1>1, <2>1, <3>3
    <3>4. \A s \in Slots : s = bookings[b].slot =>
             Cardinality(SeatedIn(bookings', s)) = Cardinality(SeatedIn(bookings, s))
      BY <3>3 DEF Seated
    <3>5. Cardinality(SeatedIn(bookings', bookings'[b].slot))
            = Cardinality(SeatedIn(bookings, bookings[b].slot))
      BY <3>1, <3>2, <3>4
    <3> QED  BY <3>5 DEF Seated
  <2> QED  BY <2>1
<1> QED  BY <1>2, RegisterInvariant, PTL DEF Spec, CancelHandsOn
=============================================================================
