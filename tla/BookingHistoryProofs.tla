------------------------ MODULE BookingHistoryProofs ------------------------
(***************************************************************************)
(* Proofs about what the steps of SlotLedger may do to a booking: the      *)
(* action properties, and the invariants that follow from them.  They all  *)
(* rest on one description of a step, BookingsChange.                      *)
(***************************************************************************)
EXTENDS SlotLedgerProofs

-----------------------------------------------------------------------------
(* The changes a booking row can go through.                               *)

NextVersion(old, new) == new.version = old.version + 1

\* A transition: the booking stays in its slot and its hold is not touched.
RowTransition(old, new) ==
    /\ <<old.status, new.status>> \in
          { <<Held, Confirmed>>, <<Held, Cancelled>>, <<Confirmed, Cancelled>>,
            <<Confirmed, CheckedIn>>, <<Waitlisted, Cancelled>> }
    /\ new.slot = old.slot /\ new.holdUntil = old.holdUntil
    /\ NextVersion(old, new)

RowPromotion(old, new) ==
    /\ old.status = Waitlisted /\ new.status = Held
    /\ new.slot = old.slot
    /\ NextVersion(old, new)

RowMove(old, new) ==
    /\ old.status \in {Held, Confirmed} /\ new.status = old.status
    /\ new.holdUntil = old.holdUntil
    /\ NextVersion(old, new)

IsOpen(s) == slots[s].status = "open"

\* What a step does to booking b, which the table has already.
BookingChange(b) ==
    \/ bookings'[b] = bookings[b]
    \/ RowTransition(bookings[b], bookings'[b])
    \/ /\ RowPromotion(bookings[b], bookings'[b])
       /\ IsOpen(bookings[b].slot) /\ IsNextWaitlisted(bookings[b].slot, b)
    \/ RowMove(bookings[b], bookings'[b]) /\ IsOpen(bookings'[b].slot)

\* What a step does to the table of bookings.
BookingsChange ==
    /\ BookingIds \subseteq BookingIds'
    /\ \A b \in BookingIds : BookingChange(b)
    /\ \A b \in BookingIds' \ BookingIds :
          \/ bookings'[b].status = Waitlisted
          \/ bookings'[b].status = Held /\ IsOpen(bookings'[b].slot)

\* What the row updates do to the status, the hold and the version.
LEMMA RowUpdates ==
    ASSUME NEW r \in BookingRow
    PROVE  /\ \A to : /\ TransitionBooking(r, to).status = to
                      /\ TransitionBooking(r, to).slot = r.slot
                      /\ TransitionBooking(r, to).holdUntil = r.holdUntil
                      /\ NextVersion(r, TransitionBooking(r, to))
           /\ PromoteWaitlistedBooking(r).status = Held
           /\ PromoteWaitlistedBooking(r).slot = r.slot
           /\ NextVersion(r, PromoteWaitlistedBooking(r))
           /\ \A s : /\ MoveBooking(r, s).status = r.status
                     /\ MoveBooking(r, s).slot = s
                     /\ MoveBooking(r, s).holdUntil = r.holdUntil
                     /\ NextVersion(r, MoveBooking(r, s))
  BY DEF BookingRow, TransitionBooking, PromoteWaitlistedBooking, MoveBooking, NextVersion

\* Facts about the table of bookings that every step uses.
LEMMA TableFacts ==
    ASSUME TypeOK
    PROVE  /\ bookings \in Seq(BookingRow)
           /\ Len(bookings) \in Nat /\ BookingIds = 1..Len(bookings)
           /\ \A b \in BookingIds : /\ b \in Nat /\ bookings[b] \in BookingRow
                                    /\ bookings[b].slot \in Slots /\ bookings[b].status \in BookingStatus
                                    /\ bookings[b].version \in Nat
<1>1. bookings \in Seq(BookingRow) /\ Len(bookings) \in Nat /\ BookingIds = 1..Len(bookings)
  BY LenProperties DEF TypeOK, BookingIds
<1>2. \A b \in BookingIds : b \in Nat /\ bookings[b] \in BookingRow
  BY <1>1, ElementOfSeq
<1>3. \A r \in BookingRow : r.slot \in Slots /\ r.status \in BookingStatus /\ r.version \in Nat
  BY DEF BookingRow
<1> QED  BY <1>1, <1>2, <1>3

\* A booking that was updated alone.
LEMMA OneChanges ==
    ASSUME TypeOK, NEW b \in BookingIds, NEW r,
           bookings' = [bookings EXCEPT ![b] = r],
           \/ RowTransition(bookings[b], r)
           \/ /\ RowPromotion(bookings[b], r)
              /\ IsOpen(bookings[b].slot) /\ IsNextWaitlisted(bookings[b].slot, b)
           \/ RowMove(bookings[b], r) /\ IsOpen(r.slot)
    PROVE  BookingsChange
<1>1. /\ BookingIds' = BookingIds /\ bookings'[b] = r
      /\ \A i \in BookingIds \ {b} : bookings'[i] = bookings[i]
  BY TableFacts DEF BookingIds
<1>2. BookingChange(b)
  BY <1>1 DEF BookingChange
<1>3. \A i \in BookingIds \ {b} : BookingChange(i)
  BY <1>1 DEF BookingChange
<1> QED  BY <1>1, <1>2, <1>3 DEF BookingsChange

\* Creating a booking appends a row that waits, or sits in an open slot.
LEMMA OneIsCreated ==
    ASSUME TypeOK, NEW r \in BookingRow, bookings' = Append(bookings, r),
           r.status = Waitlisted \/ (r.status = Held /\ IsOpen(r.slot))
    PROVE  BookingsChange
<1>1. /\ BookingIds' = BookingIds \cup {Len(bookings) + 1}
      /\ \A i \in BookingIds : bookings'[i] = bookings[i]
      /\ bookings'[Len(bookings) + 1] = r
  BY TableFacts, AppendProperties, LenProperties DEF BookingIds
<1>2. \A i \in BookingIds : BookingChange(i)
  BY <1>1 DEF BookingChange
<1> QED  BY <1>1, <1>2 DEF BookingsChange

\* A step that leaves the bookings alone.
LEMMA NoneChanges ==
    ASSUME UNCHANGED bookings
    PROVE  BookingsChange
  BY DEF BookingsChange, BookingChange, BookingIds

\* The entry that is found belongs to the booking's own slot.
LEMMA FoundInOwnSlot ==
    ASSUME WaitlistCoherent, NEW s, NEW n, IsNextWaitlisted(s, n)
    PROVE  bookings[n].status = Waitlisted /\ bookings[n].slot = s
  BY DEF IsNextWaitlisted, Waiting, OpenEntries, EntriesOf, WaitlistCoherent

\* A seat that is passed on is passed on in an open slot.
LEMMA OpenToReserve ==
    ASSUME NEW r \in SlotRow
    PROVE  /\ CanReserve(r) => r.status = "open"
           /\ CanReserve(ReleaseSeat(r)) => r.status = "open"
  BY DEF SlotRow, CanReserve, ReleaseSeat

-----------------------------------------------------------------------------
\* Every step of the ledger changes the bookings as described.
LEMMA StepChange == ASSUME TypeOK, WaitlistCoherent, [Next]_vars PROVE BookingsChange
<1> USE TableFacts, RowUpdates
<1>0. \A s \in Slots : slots[s] \in SlotRow
  BY DEF TypeOK
<1>1. ASSUME NEW a \in Guardians \cup Operators, NEW k \in Keys, NEW g \in Guardians,
             NEW st \in Students, NEW s \in Slots, CreateHeld(a, k, g, st, s)
      PROVE  BookingsChange
  <2> DEFINE r == [student |-> st, guardian |-> g, slot |-> s, status |-> Held,
                   holdUntil |-> Later(now, HoldDuration), version |-> 1]
  <2>1. r \in BookingRow /\ r.status = Held /\ r.slot = s
    BY HoldTypes DEF BookingRow, BookingStatus, TypeOK
  <2>2. bookings' = Append(bookings, r)
    BY <1>1 DEF CreateHeld, CreateOnce
  <2>3. IsOpen(s)
    BY <1>0, <1>1, OpenToReserve DEF CreateHeld, IsOpen
  <2> HIDE DEF r
  <2> QED  BY <2>1, <2>2, <2>3, OneIsCreated
<1>2. ASSUME NEW a \in Guardians \cup Operators, NEW k \in Keys, NEW g \in Guardians,
             NEW st \in Students, NEW s \in Slots, NEW p \in 1..(Len(bookings) + 1),
             CreateWaitlisted(a, k, g, st, s, p)
      PROVE  BookingsChange
  <2> DEFINE r == [student |-> st, guardian |-> g, slot |-> s, status |-> Waitlisted,
                   holdUntil |-> NoHold, version |-> 1]
  <2>1. r \in BookingRow /\ r.status = Waitlisted
    BY HoldTypes DEF BookingRow, BookingStatus
  <2>2. bookings' = Append(bookings, r)
    BY <1>2 DEF CreateWaitlisted, CreateOnce
  <2> HIDE DEF r
  <2> QED  BY <2>1, <2>2, OneIsCreated
<1>3. ASSUME NEW b \in BookingIds, NEW a, Confirm(a, b)
      PROVE  BookingsChange
  <2>1. RowTransition(bookings[b], TransitionBooking(bookings[b], Confirmed))
    BY <1>3 DEF Confirm, MayConfirm, RowTransition
  <2> QED  BY <1>3, <2>1, OneChanges DEF Confirm
<1>4. ASSUME NEW b \in BookingIds, NEW a, CancelWaiting(a, b) \/ CancelSeat(a, b)
      PROVE  BookingsChange
  <2>1. RowTransition(bookings[b], TransitionBooking(bookings[b], Cancelled))
    BY <1>4 DEF CancelWaiting, CancelSeat, GivesSeatBack, RowTransition
  <2> QED  BY <1>4, <2>1, OneChanges DEF CancelWaiting, CancelSeat
<1>5. ASSUME NEW b \in BookingIds, NEW n \in BookingIds, NEW a, CancelAndPromote(a, b, n)
      PROVE  BookingsChange
  <2> DEFINE s == bookings[b].slot
  <2>1. bookings[b].status \in {Held, Confirmed} /\ IsNextWaitlisted(s, n)
          /\ CanReserve(ReleaseSeat(slots[s]))
    BY <1>5 DEF CancelAndPromote, GivesSeatBack, PassesSeatOn
  <2>2. bookings[n].status = Waitlisted /\ bookings[n].slot = s /\ n # b
    BY <2>1, FoundInOwnSlot DEF Held, Confirmed, Waitlisted
  <2>3. /\ BookingIds' = BookingIds
        /\ bookings'[b] = TransitionBooking(bookings[b], Cancelled)
        /\ bookings'[n] = PromoteWaitlistedBooking(bookings[n])
        /\ \A i \in BookingIds \ {b, n} : bookings'[i] = bookings[i]
    BY <1>5, <2>2 DEF CancelAndPromote, BookingIds
  <2>4. s \in Slots /\ IsOpen(s)
    BY <1>0, <2>1, OpenToReserve DEF IsOpen
  <2>5. BookingChange(b)
    BY <2>1, <2>3 DEF BookingChange, RowTransition
  <2>6. RowPromotion(bookings[n], bookings'[n])
    BY <2>2, <2>3 DEF RowPromotion
  <2>7. BookingChange(n)
    BY <2>1, <2>2, <2>4, <2>6 DEF BookingChange
  <2>8. \A i \in BookingIds \ {b, n} : BookingChange(i)
    BY <2>3 DEF BookingChange
  <2> QED  BY <2>3, <2>5, <2>7, <2>8 DEF BookingsChange
<1>6. ASSUME NEW b \in BookingIds, NEW to \in Slots, NEW a, Reschedule(a, b, to)
      PROVE  BookingsChange
  <2>1. bookings[b].status \in {Held, Confirmed} /\ CanReserve(slots[to])
    BY <1>6 DEF Reschedule, MayReschedule
  <2>2. RowMove(bookings[b], MoveBooking(bookings[b], to)) /\ MoveBooking(bookings[b], to).slot = to
    BY <2>1 DEF RowMove
  <2>3. IsOpen(to)
    BY <1>0, <2>1, OpenToReserve DEF IsOpen
  <2> QED  BY <1>6, <2>2, <2>3, OneChanges DEF Reschedule
<1>7. ASSUME NEW b \in BookingIds, NEW a, Redeem(a, b)
      PROVE  BookingsChange
  <2>1. RowTransition(bookings[b], TransitionBooking(bookings[b], CheckedIn))
    BY <1>7 DEF Redeem, RowTransition
  <2> QED  BY <1>7, <2>1, OneChanges DEF Redeem
<1>8. ASSUME NEW s \in Slots, NEW n \in BookingIds, PromoteNext(s, n)
      PROVE  BookingsChange
  <2>1. IsNextWaitlisted(s, n) /\ IsOpen(s) /\ bookings[n].status = Waitlisted /\ bookings[n].slot = s
    BY <1>0, <1>8, OpenToReserve, FoundInOwnSlot DEF PromoteNext, IsOpen
  <2>2. RowPromotion(bookings[n], PromoteWaitlistedBooking(bookings[n]))
    BY <2>1 DEF RowPromotion
  <2> QED  BY <1>8, <2>1, <2>2, OneChanges DEF PromoteNext
<1>9. CASE OperatorStep \/ Tick \/ UNCHANGED vars
  BY <1>9, NoneChanges
  DEF OperatorStep, CreateSlot, AdjustCapacity, CreateAndApply, ReopenClosure, Tick, vars
<1> QED
  BY <1>1, <1>2, <1>3, <1>4, <1>5, <1>6, <1>7, <1>8, <1>9
  DEF Next, CreateStep, BookingStep, PromotionStep

-----------------------------------------------------------------------------
(* Action properties.                                                      *)

\* Whatever happens to a booking, its status only moves along an arrow of
\* domain.bookingTransitions.
THEOREM TransitionsFollowed == Spec => StatusFollowsTransitions
<1>1. ASSUME TypeOK, WaitlistCoherent, [Next]_vars, NEW b \in BookingIds, StatusChanges(b)
      PROVE  CanTransitionBooking(bookings[b].status, bookings'[b].status)
  <2>1. BookingChange(b)
    BY <1>1, StepChange DEF BookingsChange
  <2> QED
    BY <1>1, <2>1 DEF BookingChange, StatusChanges, RowTransition, RowPromotion, RowMove,
                      CanTransitionBooking, bookingTransitions
<1>2. TypeOK /\ WaitlistCoherent /\ [Next]_vars =>
        [\A b \in BookingIds : StatusChanges(b) =>
            CanTransitionBooking(bookings[b].status, bookings'[b].status)]_vars
  BY <1>1
<1> QED  BY <1>2, TypeCorrect, WaitlistIsCoherent, PTL DEF Spec, StatusFollowsTransitions

\* No call renews the hold of a held booking: whoever gets a seat has one
\* HoldDuration to confirm, however often the booking is moved.
THEOREM HoldsNotRenewed == Spec => HoldNotRenewed
<1>1. ASSUME TypeOK, WaitlistCoherent, [Next]_vars, NEW b \in BookingIds, bookings[b].status = Held
      PROVE  bookings'[b].holdUntil = bookings[b].holdUntil
  <2>1. BookingChange(b)
    BY <1>1, StepChange DEF BookingsChange
  <2> QED
    BY <1>1, <2>1 DEF BookingChange, RowTransition, RowPromotion, RowMove, Held, Waitlisted
<1>2. TypeOK /\ WaitlistCoherent /\ [Next]_vars =>
        [\A b \in BookingIds :
            bookings[b].status = Held /\ bookings'[b].status \in {Held, Confirmed}
            => bookings'[b].holdUntil = bookings[b].holdUntil]_vars
  BY <1>1
<1> QED  BY <1>2, TypeCorrect, WaitlistIsCoherent, PTL DEF Spec, HoldNotRenewed

\* Nobody sits down in a slot that is not open.
LEMMA SitsDownWhereOpen ==
    ASSUME TypeOK, WaitlistCoherent, [Next]_vars, NEW s \in Slots, ~IsOpen(s),
           NEW b \in BookingIds', bookings'[b].slot = s
    PROVE  /\ bookings'[b].status \in SeatedStatus =>
                 b \in BookingIds /\ SitsIn(bookings[b], s)
           /\ bookings'[b].status \in {Held, Confirmed} =>
                 b \in BookingIds /\ bookings[b].slot = s /\ bookings[b].status \in {Held, Confirmed}
<1>1. BookingsChange
  BY StepChange
<1>2. CASE b \notin BookingIds
  BY <1>1, <1>2 DEF BookingsChange, SeatedStatus, Held, Confirmed, CheckedIn, Waitlisted
<1>3. CASE b \in BookingIds
  <2>1. BookingChange(b)
    BY <1>1, <1>3 DEF BookingsChange
  <2>2. CASE bookings'[b] = bookings[b]
    BY <1>3, <2>2 DEF SitsIn
  <2>3. CASE RowTransition(bookings[b], bookings'[b])
    BY <1>3, <2>3 DEF RowTransition, SitsIn, SeatedStatus, Held, Confirmed, CheckedIn, Waitlisted, Cancelled
  <2>4. CASE RowMove(bookings[b], bookings'[b]) /\ IsOpen(bookings'[b].slot)
    BY <2>4
  <2>5. CASE RowPromotion(bookings[b], bookings'[b]) /\ IsOpen(bookings[b].slot)
    BY <2>5 DEF RowPromotion
  <2> QED  BY <2>1, <2>2, <2>3, <2>4, <2>5 DEF BookingChange
<1> QED  BY <1>2, <1>3

\* A slot that is closed and stays closed only loses bookings.
THEOREM ClosedSlotsOnlyDrain == Spec => ClosedOnlyDrains
<1>1. ASSUME TypeOK, WaitlistCoherent, [Next]_vars, NEW s \in Slots,
             slots[s].status = "closed"
      PROVE  Seated(s)' \subseteq Seated(s)
  <2>1. ~IsOpen(s)
    BY <1>1 DEF IsOpen
  <2>2. ASSUME NEW b \in Seated(s)' PROVE b \in Seated(s)
    <3>1. b \in BookingIds' /\ bookings'[b].slot = s /\ bookings'[b].status \in SeatedStatus
      BY DEF Seated, SeatedIn, SitsIn, BookingIds
    <3> QED  BY <1>1, <2>1, <3>1, SitsDownWhereOpen DEF Seated, SeatedIn, BookingIds
  <2> QED  BY <2>2
<1>2. TypeOK /\ WaitlistCoherent /\ [Next]_vars =>
        [\A s \in Slots : slots[s].status = "closed" /\ slots'[s].status = "closed"
            => Seated(s)' \subseteq Seated(s)]_vars
  BY <1>1
<1> QED  BY <1>2, TypeCorrect, WaitlistIsCoherent, PTL DEF Spec, ClosedOnlyDrains

-----------------------------------------------------------------------------
(* First come, first served.  AddWaitlistEntry computes the position from  *)
(* the entries not promoted yet, so among those positions grow with ids.   *)

ListInOrder ==
    \A w, x \in waitlist :
        /\ ~w.promoted /\ ~x.promoted /\ w.slot = x.slot
        /\ w.booking < x.booking
        => w.position < x.position

OrderInv == TypeOK /\ WaitlistCoherent /\ ListInOrder

\* What a step does to the wait list.
LEMMA WaitlistChange ==
    ASSUME TypeOK, [Next]_vars
    PROVE  \/ UNCHANGED waitlist
           \/ \E n \in BookingIds : waitlist' = MarkWaitlistPromoted(n)
           \/ \E s \in Slots, p \in Nat :
                 /\ IsNextPosition(s, p)
                 /\ waitlist' = waitlist \cup {[booking |-> Len(bookings) + 1, slot |-> s,
                                                position |-> p, promoted |-> FALSE]}
<1>1. CASE OperatorStep \/ Tick \/ UNCHANGED vars
  BY <1>1 DEF OperatorStep, CreateSlot, AdjustCapacity, CreateAndApply, ReopenClosure, Tick, vars
<1>2. CASE CreateStep
  <2>1. \A p \in 1..(Len(bookings) + 1) : p \in Nat
    BY TableFacts
  <2> QED  BY <1>2, <2>1 DEF CreateStep, CreateHeld, CreateWaitlisted
<1>3. CASE BookingStep
  BY <1>3 DEF BookingStep, Confirm, CancelWaiting, CancelSeat, CancelAndPromote, Reschedule, Redeem
<1>4. CASE PromotionStep
  BY <1>4 DEF PromotionStep, PromoteNext
<1> QED  BY <1>1, <1>2, <1>3, <1>4 DEF Next

\* The open entries stay in the order of their bookings.
LEMMA OrderStep == OrderInv /\ [Next]_vars => OrderInv'
<1> SUFFICES ASSUME OrderInv, [Next]_vars PROVE ListInOrder'
  BY TypeStep, CoherentStep DEF OrderInv
<1> USE DEF OrderInv
<1>1. CASE UNCHANGED waitlist
  BY <1>1 DEF ListInOrder
<1>2. ASSUME NEW n \in BookingIds, waitlist' = MarkWaitlistPromoted(n)
      PROVE  ListInOrder'
  <2>1. ASSUME NEW w \in waitlist', ~w.promoted
        PROVE  w \in waitlist
    <3>1. PICK v \in waitlist : w = IF v.booking = n THEN [v EXCEPT !.promoted = TRUE] ELSE v
      BY <1>2, <2>1 DEF MarkWaitlistPromoted
    <3>2. v \in WaitlistRow
      BY DEF TypeOK
    <3>3. v.booking # n
      BY <2>1, <3>1, <3>2 DEF WaitlistRow
    <3> QED  BY <3>1, <3>3
  <2> QED  BY <2>1 DEF ListInOrder
<1>3. ASSUME NEW s \in Slots, NEW p \in Nat, IsNextPosition(s, p),
             waitlist' = waitlist \cup {[booking |-> Len(bookings) + 1, slot |-> s,
                                         position |-> p, promoted |-> FALSE]}
      PROVE  ListInOrder'
  <2> DEFINE new == [booking |-> Len(bookings) + 1, slot |-> s, position |-> p, promoted |-> FALSE]
  <2>1. new.booking = Len(bookings) + 1 /\ new.slot = s /\ new.position = p /\ waitlist' = waitlist \cup {new}
    BY <1>3
  <2> HIDE DEF new
  <2>2. \A w \in waitlist : w.booking \in Nat /\ w.booking < Len(bookings) + 1
    BY TableFacts DEF WaitlistCoherent
  <2>3. \A w \in waitlist : ~w.promoted /\ w.slot = s => w.position < p
    BY <1>3 DEF IsNextPosition, OpenEntries, EntriesOf
  <2>4. ASSUME NEW w \in waitlist', NEW x \in waitlist',
               ~w.promoted, ~x.promoted, w.slot = x.slot, w.booking < x.booking
        PROVE  w.position < x.position
    <3>1. CASE w \in waitlist /\ x \in waitlist
      BY <2>4, <3>1 DEF ListInOrder
    <3>2. CASE w \in waitlist /\ x = new
      BY <2>1, <2>3, <2>4, <3>2
    <3>3. CASE w = new /\ x \in waitlist
      BY <2>1, <2>2, <2>4, <3>3, TableFacts
    <3>4. CASE w = new /\ x = new
      BY <2>1, <2>4, <3>4, TableFacts
    <3> QED  BY <2>1, <3>1, <3>2, <3>3, <3>4
  <2> QED  BY <2>4 DEF ListInOrder
<1> QED  BY <1>1, <1>2, <1>3, WaitlistChange

LEMMA OrderInvariant == Spec => []OrderInv
<1>1. Init => OrderInv
  BY TypeInit DEF Init, OrderInv, WaitlistCoherent, ListInOrder, BookingIds
<1> QED  BY <1>1, OrderStep, PTL DEF Spec

\* Whoever is promoted booked before everybody who goes on waiting for the slot,
\* although positions are used again and entries of cancelled bookings stay.
THEOREM PromotionsInOrder == Spec => PromotedInOrder
<1>1. ASSUME OrderInv, [Next]_vars, NEW b \in BookingIds, NEW c \in BookingIds,
             bookings[b].status = Waitlisted, bookings'[b].status = Held,
             bookings[c].status = Waitlisted, bookings[c].slot = bookings[b].slot
      PROVE  b <= c
  <2> USE DEF OrderInv
  <2>1. BookingChange(b)
    BY <1>1, StepChange DEF BookingsChange
  <2>2. IsNextWaitlisted(bookings[b].slot, b)
    BY <1>1, <2>1 DEF BookingChange, RowTransition, RowMove, Held, Confirmed, Waitlisted, Cancelled, CheckedIn
  <2>3. PICK w \in Waiting(bookings[b].slot) :
            w.booking = b /\ \A x \in Waiting(bookings[b].slot) : w.position <= x.position
    BY <2>2 DEF IsNextWaitlisted
  <2>4. PICK x \in waitlist : x.booking = c /\ ~x.promoted
    BY <1>1 DEF WaitlistCoherent
  <2>5. x \in Waiting(bookings[b].slot)
    BY <1>1, <2>4 DEF Waiting, OpenEntries, EntriesOf, WaitlistCoherent
  <2>6. w.position <= x.position /\ w \in waitlist /\ ~w.promoted /\ w.slot = x.slot
    BY <2>3, <2>5 DEF Waiting, OpenEntries, EntriesOf
  <2>7. w.position \in Nat /\ x.position \in Nat
    BY <1>1, <2>4, <2>6 DEF TypeOK, WaitlistRow
  <2>8. ~ c < b
    BY <1>1, <2>3, <2>4, <2>6, <2>7 DEF ListInOrder
  <2> QED  BY <1>1, <2>8, TableFacts
<1>2. OrderInv /\ [Next]_vars =>
        [\A b, c \in BookingIds :
            /\ bookings[b].status = Waitlisted /\ bookings'[b].status = Held
            /\ bookings[c].status = Waitlisted /\ bookings[c].slot = bookings[b].slot
            => b <= c]_vars
  BY <1>1
<1> QED  BY <1>2, OrderInvariant, PTL DEF Spec, PromotedInOrder

-----------------------------------------------------------------------------
(* Check-ins.                                                              *)

NobodyChecksIn ==
    /\ UNCHANGED checkins
    /\ \A b \in BookingIds' : bookings'[b].status = CheckedIn =>
          b \in BookingIds /\ bookings[b].status = CheckedIn

\* What a step does to the check-ins.
LEMMA CheckinsChange ==
    ASSUME TypeOK, [Next]_vars
    PROVE  NobodyChecksIn \/ \E b \in BookingIds, a \in Coaches \cup Operators : Redeem(a, b)
<1> USE DEF Held, Confirmed, Waitlisted, Cancelled, CheckedIn
<1>0. \A b \in BookingIds : bookings[b] \in BookingRow
  BY TableFacts
<1>1. ASSUME UNCHANGED <<bookings, checkins>> PROVE NobodyChecksIn
  BY <1>1 DEF NobodyChecksIn, BookingIds
<1>2. ASSUME NEW b \in BookingIds, NEW r, bookings' = [bookings EXCEPT ![b] = r],
             r.status # CheckedIn \/ r.status = bookings[b].status, UNCHANGED checkins
      PROVE  NobodyChecksIn
  BY <1>2, TableFacts DEF NobodyChecksIn, BookingIds
<1>3. ASSUME NEW r \in BookingRow, bookings' = Append(bookings, r), r.status # CheckedIn,
             UNCHANGED checkins
      PROVE  NobodyChecksIn
  BY <1>3, TableFacts, AppendProperties, LenProperties DEF NobodyChecksIn, BookingIds
<1>4. CASE OperatorStep \/ Tick \/ UNCHANGED vars
  BY <1>1, <1>4
  DEF OperatorStep, CreateSlot, AdjustCapacity, CreateAndApply, ReopenClosure, Tick, vars
<1>5. ASSUME NEW a, NEW k, NEW g \in Guardians, NEW st \in Students, NEW s \in Slots,
             NEW status \in {Held, Waitlisted}, NEW h \in Instant, CreateOnce(a, k, g, st, s, status, h)
      PROVE  NobodyChecksIn
  <2> DEFINE r == [student |-> st, guardian |-> g, slot |-> s, status |-> status,
                   holdUntil |-> h, version |-> 1]
  <2>1. r \in BookingRow /\ r.status # CheckedIn
    BY DEF BookingRow, BookingStatus
  <2>2. bookings' = Append(bookings, r) /\ UNCHANGED checkins
    BY <1>5 DEF CreateOnce
  <2> HIDE DEF r
  <2> QED  BY <1>3, <2>1, <2>2
<1>6. CASE CreateStep
  <2>1. Later(now, HoldDuration) \in Instant /\ NoHold \in Instant
    BY HoldTypes DEF TypeOK
  <2> QED  BY <1>5, <1>6, <2>1, ZenonT(40) DEF CreateStep, CreateHeld, CreateWaitlisted
<1>7. ASSUME NEW b \in BookingIds, NEW a,
             Confirm(a, b) \/ CancelWaiting(a, b) \/ CancelSeat(a, b)
      PROVE  NobodyChecksIn
  BY <1>0, <1>2, <1>7, RowUpdates DEF Confirm, CancelWaiting, CancelSeat
<1>8. ASSUME NEW b \in BookingIds, NEW n \in BookingIds, NEW a, CancelAndPromote(a, b, n)
      PROVE  NobodyChecksIn
  <2>1. /\ BookingIds' = BookingIds /\ UNCHANGED checkins
        /\ \A i \in BookingIds \ {b, n} : bookings'[i] = bookings[i]
        /\ bookings'[b].status # CheckedIn /\ bookings'[n].status # CheckedIn
    <3>1. n # b
      BY <1>8 DEF CancelAndPromote, GivesSeatBack, IsNextWaitlisted, Waiting
    <3>2. /\ BookingIds' = BookingIds /\ UNCHANGED checkins
          /\ bookings'[b] = TransitionBooking(bookings[b], Cancelled)
          /\ bookings'[n] = PromoteWaitlistedBooking(bookings[n])
          /\ \A i \in BookingIds \ {b, n} : bookings'[i] = bookings[i]
      BY <1>8, <3>1, TableFacts DEF CancelAndPromote, BookingIds
    <3> QED  BY <1>0, <3>2, RowUpdates
  <2> QED  BY <2>1 DEF NobodyChecksIn
<1>9. ASSUME NEW b \in BookingIds, NEW to \in Slots, NEW a, Reschedule(a, b, to)
      PROVE  NobodyChecksIn
  BY <1>0, <1>2, <1>9, RowUpdates DEF Reschedule
<1>10. ASSUME NEW s \in Slots, NEW n \in BookingIds, PromoteNext(s, n)
       PROVE  NobodyChecksIn
  BY <1>0, <1>2, <1>10, RowUpdates DEF PromoteNext
<1> QED  BY <1>4, <1>6, <1>7, <1>8, <1>9, <1>10 DEF Next, BookingStep, PromotionStep

\* A booking is checked in exactly when it has its one check-in row, and never
\* loses either: it cannot be cancelled, moved or redeemed again.
THEOREM RedeemedOnce == Spec => []CheckedInOnce
<1>1. Init => CheckedInOnce
  BY DEF Init, CheckedInOnce, BookingIds
<1>2. ASSUME TypeOK, WaitlistCoherent, CheckedInOnce, [Next]_vars, checkins \subseteq BookingIds
      PROVE  CheckedInOnce' /\ (checkins \subseteq BookingIds)'
  <2>0. BookingsChange
    BY <1>2, StepChange
  <2>1. CASE NobodyChecksIn
    <3>1. ASSUME NEW b \in BookingIds, bookings[b].status = CheckedIn
          PROVE  bookings'[b].status = CheckedIn
      BY <2>0, <3>1 DEF BookingsChange, BookingChange, RowTransition, RowPromotion, RowMove,
                        Held, Confirmed, Waitlisted, Cancelled, CheckedIn
    <3> QED  BY <1>2, <2>0, <2>1, <3>1 DEF NobodyChecksIn, CheckedInOnce, BookingsChange
  <2>2. ASSUME NEW b \in BookingIds, NEW a, Redeem(a, b)
        PROVE  CheckedInOnce' /\ (checkins \subseteq BookingIds)'
    <3>1. /\ BookingIds' = BookingIds /\ checkins' = checkins \cup {b}
          /\ bookings'[b].status = CheckedIn
          /\ \A i \in BookingIds \ {b} : bookings'[i] = bookings[i]
      BY <1>2, <2>2, TableFacts, RowUpdates DEF Redeem, BookingIds
    <3> QED  BY <1>2, <3>1 DEF CheckedInOnce
  <2> QED  BY <1>2, <2>1, <2>2, CheckinsChange
<1>3. Init => checkins \subseteq BookingIds
  BY DEF Init
<1> QED  BY <1>1, <1>2, <1>3, TypeCorrect, WaitlistIsCoherent, PTL DEF Spec

-----------------------------------------------------------------------------
(* Versions.                                                               *)

\* A slot that was not created yet has no version and no seats.
Unversioned == \A s \in Slots : ~Exists(s) => slots[s].version = 0 /\ slots[s].reserved = 0

\* A row that changed is a row of the table, with a later version.
Grown(old, new) == new = old \/ (new.version > old.version /\ new.status # "absent")

\* What a step does to the rows of the slots.
LEMMA SlotsChange ==
    ASSUME TypeOK, Unversioned, [Next]_vars, NEW s \in Slots
    PROVE  Grown(slots[s], slots'[s])
<1>0. \A t \in Slots : slots[t] \in SlotRow
  BY DEF TypeOK
<1>1. ASSUME NEW r \in SlotRow
      PROVE  /\ ReserveSeat(r).version = r.version + 1 /\ ReleaseSeat(r).version = r.version + 1
             /\ ReserveSeat(r).status = r.status /\ ReleaseSeat(r).status = r.status
             /\ Close(r).version = r.version + 1 /\ Close(r).status = "closed"
             /\ Reopen(r).version = r.version + 1 /\ Reopen(r).status = "open"
             /\ r.version \in Nat
  BY DEF SlotRow, ReserveSeat, ReleaseSeat, Close, Reopen
<1>2. ASSUME NEW t \in Slots, CanRelease(slots[t]) PROVE slots[t].status # "absent"
  BY <1>2 DEF CanRelease, Unversioned, Exists
<1>3. ASSUME NEW t \in Slots, CanReserve(slots[t]), slots' = [slots EXCEPT ![t] = ReserveSeat(@)]
      PROVE  Grown(slots[s], slots'[s])
  BY <1>0, <1>1, <1>3 DEF TypeOK, CanReserve, Grown
<1>4. ASSUME NEW t \in Slots, CanRelease(slots[t]), slots' = [slots EXCEPT ![t] = ReleaseSeat(@)]
      PROVE  Grown(slots[s], slots'[s])
  BY <1>0, <1>1, <1>2, <1>4, SMTT(20) DEF TypeOK, Grown
<1>5. ASSUME NEW t \in Slots, CanRelease(slots[t]),
             slots' = [slots EXCEPT ![t] = ReserveSeat(ReleaseSeat(@))]
      PROVE  Grown(slots[s], slots'[s])
  <2>1. /\ ReleaseSeat(slots[t]) \in SlotRow
        /\ ReserveSeat(ReleaseSeat(slots[t])).version = slots[t].version + 2
        /\ ReserveSeat(ReleaseSeat(slots[t])).status = slots[t].status
    BY <1>0, <1>1, <1>5, SlotUpdates
  <2> QED  BY <1>0, <1>1, <1>2, <1>5, <2>1 DEF TypeOK, Grown
<1>6. ASSUME NEW t \in Slots, NEW u \in Slots, CanReserve(slots[u]),
             CanRelease([slots EXCEPT ![u] = ReserveSeat(@)][t]),
             slots' = [[slots EXCEPT ![u] = ReserveSeat(@)] EXCEPT ![t] = ReleaseSeat(@)]
      PROVE  Grown(slots[s], slots'[s])
  <2>1. CASE t = u
    <3>1. slots' = [slots EXCEPT ![t] = ReleaseSeat(ReserveSeat(@))]
      BY <1>6, <2>1 DEF TypeOK
    <3>2. /\ ReserveSeat(slots[t]) \in SlotRow
          /\ ReleaseSeat(ReserveSeat(slots[t])).version = slots[t].version + 2
          /\ ReleaseSeat(ReserveSeat(slots[t])).status = slots[t].status
      BY <1>0, <1>1, SlotUpdates
    <3>3. slots[t].status = "open" /\ slots[t].version \in Nat
      BY <1>0, <1>1, <1>6, <2>1 DEF CanReserve
    <3>4. s # t => slots'[s] = slots[s]
      BY <3>1 DEF TypeOK
    <3>5. slots'[t] = ReleaseSeat(ReserveSeat(slots[t]))
      BY <3>1 DEF TypeOK
    <3> QED  BY <3>2, <3>3, <3>4, <3>5 DEF Grown
  <2>2. CASE t # u
    <3>1. /\ CanRelease(slots[t])
          /\ slots'[t] = ReleaseSeat(slots[t]) /\ slots'[u] = ReserveSeat(slots[u])
          /\ \A x \in Slots \ {t, u} : slots'[x] = slots[x]
      BY <1>6, <2>2 DEF TypeOK
    <3>2. slots[u].status = "open"
      BY <1>6 DEF CanReserve
    <3>3. Grown(slots[t], slots'[t])
      BY <1>0, <1>1, <1>2, <3>1 DEF Grown
    <3>4. Grown(slots[u], slots'[u])
      BY <1>0, <1>1, <3>1, <3>2 DEF Grown
    <3> QED  BY <3>1, <3>3, <3>4 DEF Grown
  <2> QED  BY <2>1, <2>2
<1>7. ASSUME NEW a, NEW t \in Slots, NEW n \in Capacities, NEW coach, CreateSlot(a, t, n, coach)
      PROVE  Grown(slots[s], slots'[s])
  BY <1>0, <1>7 DEF CreateSlot, Grown, TypeOK, Unversioned
<1>8. ASSUME NEW a, NEW t \in Slots, NEW n \in Capacities, AdjustCapacity(a, t, n)
      PROVE  Grown(slots[s], slots'[s])
  <2>1. slots'[t].version = slots[t].version + 1 /\ slots'[t].status = slots[t].status
          /\ \A x \in Slots \ {t} : slots'[x] = slots[x]
    BY <1>0, <1>8 DEF AdjustCapacity, SlotRow, TypeOK
  <2>2. slots[t].status # "absent" /\ slots[t].version \in Nat
    BY <1>0, <1>1, <1>8 DEF AdjustCapacity, Exists
  <2> QED  BY <2>1, <2>2 DEF Grown
<1>9. ASSUME NEW a, NEW c \in Closures, CreateAndApply(a, c) \/ ReopenClosure(a, c)
      PROVE  Grown(slots[s], slots'[s])
  <2>1. slots'[s] \in {slots[s], Close(slots[s]), Reopen(slots[s])}
    BY <1>9 DEF CreateAndApply, ReopenClosure
  <2> QED  BY <1>0, <1>1, <2>1 DEF Grown
<1>10. CASE OperatorStep
  BY <1>7, <1>8, <1>9, <1>10 DEF OperatorStep
<1>11. CASE CreateStep
  BY <1>3, <1>11 DEF CreateStep, CreateHeld, CreateWaitlisted, Grown
<1>12. CASE BookingStep
  <2>1. PICK b \in BookingIds, a \in Guardians \cup Students \cup Operators \cup Coaches :
          \/ Confirm(a, b) \/ CancelWaiting(a, b) \/ CancelSeat(a, b)
          \/ \E n \in BookingIds : CancelAndPromote(a, b, n)
          \/ \E to \in Slots : Reschedule(a, b, to)
          \/ Redeem(a, b)
    BY <1>12 DEF BookingStep
  <2>2. bookings[b].slot \in Slots
    BY TableFacts
  <2>3. CASE Confirm(a, b) \/ CancelWaiting(a, b) \/ Redeem(a, b)
    BY <2>3 DEF Confirm, CancelWaiting, Redeem, Grown
  <2>4. CASE CancelSeat(a, b)
    BY <1>4, <2>2, <2>4 DEF CancelSeat, GivesSeatBack
  <2>5. ASSUME NEW n \in BookingIds, CancelAndPromote(a, b, n) PROVE Grown(slots[s], slots'[s])
    BY <1>5, <2>2, <2>5 DEF CancelAndPromote, GivesSeatBack
  <2>6. ASSUME NEW to \in Slots, Reschedule(a, b, to) PROVE Grown(slots[s], slots'[s])
    BY <1>6, <2>2, <2>6 DEF Reschedule, MayReschedule
  <2> QED  BY <2>1, <2>3, <2>4, <2>5, <2>6
<1>13. CASE PromotionStep
  BY <1>3, <1>13 DEF PromotionStep, PromoteNext
<1>14. CASE Tick \/ UNCHANGED vars
  BY <1>14 DEF Tick, vars, Grown
<1> QED  BY <1>10, <1>11, <1>12, <1>13, <1>14 DEF Next

\* No row of a booking or a slot is ever two things under one version, so that
\* a caller who sends the version it read acts on the row it read or on nothing.
THEOREM VersionsNameStates == Spec => VersionNamesState
<1>1. Init => Unversioned
  BY DEF Init, Unversioned
<1>2. TypeOK /\ Unversioned /\ [Next]_vars => Unversioned'
  BY SlotsChange DEF Unversioned, Grown, Exists
<1>3. ASSUME TypeOK, WaitlistCoherent, Unversioned, [Next]_vars
      PROVE  /\ \A b \in BookingIds : bookings'[b].version <= bookings[b].version
                                         => bookings'[b] = bookings[b]
             /\ \A s \in Slots : slots'[s].version <= slots[s].version
                                   => slots'[s] = slots[s]
  <2>1. ASSUME NEW b \in BookingIds, bookings'[b].version <= bookings[b].version
        PROVE  bookings'[b] = bookings[b]
    <3>1. BookingChange(b) /\ bookings[b].version \in Nat
      BY <1>3, StepChange, TableFacts DEF BookingsChange
    <3>2. ~NextVersion(bookings[b], bookings'[b])
      BY <2>1, <3>1 DEF NextVersion
    <3> QED  BY <3>1, <3>2 DEF BookingChange, RowTransition, RowPromotion, RowMove
  <2>2. ASSUME NEW s \in Slots, slots'[s].version <= slots[s].version
        PROVE  slots'[s] = slots[s]
    <3>1. slots[s].version \in Nat /\ slots'[s].version \in Nat
      <4>1. slots[s] \in SlotRow /\ slots'[s] \in SlotRow
        BY <1>3, TypeStep DEF TypeOK
      <4> QED  BY <4>1 DEF SlotRow
    <3> QED  BY <1>3, <2>2, <3>1, SlotsChange DEF Grown
  <2> QED  BY <2>1, <2>2
<1>4. TypeOK /\ WaitlistCoherent /\ Unversioned /\ [Next]_vars =>
        [/\ \A b \in BookingIds : bookings'[b].version <= bookings[b].version
                                     => bookings'[b] = bookings[b]
         /\ \A s \in Slots : slots'[s].version <= slots[s].version
                               => slots'[s] = slots[s]]_vars
  BY <1>3
<1> QED  BY <1>1, <1>2, <1>4, TypeCorrect, WaitlistIsCoherent, PTL DEF Spec, VersionNamesState
=============================================================================
