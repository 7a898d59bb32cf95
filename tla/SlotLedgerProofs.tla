-------------------------- MODULE SlotLedgerProofs --------------------------
(***************************************************************************)
(* Proofs about SlotLedger, for every set of slots, users, closures and    *)
(* keys and every bound.                                                   *)
(***************************************************************************)
EXTENDS SlotLedger, FiniteSetTheorems, SequenceTheorems, TLAPS

-----------------------------------------------------------------------------
(* Counting seated bookings and summing ledger deltas, one row at a time.  *)

Sitting(row, s) == IF SitsIn(row, s) THEN 1 ELSE 0

\* The seated bookings of a table are finitely many.
LEMMA SeatedFinite ==
    ASSUME NEW bs \in Seq(BookingRow), NEW s
    PROVE  IsFiniteSet(SeatedIn(bs, s)) /\ Cardinality(SeatedIn(bs, s)) \in Nat
<1>1. Len(bs) \in Nat /\ DOMAIN bs = 1..Len(bs)
  BY LenProperties
<1>2. IsFiniteSet(1..Len(bs))
  BY <1>1, FS_Interval
<1>3. SeatedIn(bs, s) \in SUBSET (1..Len(bs))
  BY <1>1 DEF SeatedIn
<1>4. IsFiniteSet(SeatedIn(bs, s))
  BY <1>2, <1>3, FS_Subset
<1> QED
  BY <1>4, FS_CardinalityType

\* Inserting a row adds one to the count of the slot it sits in.
LEMMA SeatedAppend ==
    ASSUME NEW bs \in Seq(BookingRow), NEW r \in BookingRow, NEW s
    PROVE  Cardinality(SeatedIn(Append(bs, r), s)) = Cardinality(SeatedIn(bs, s)) + Sitting(r, s)
<1> DEFINE n == Len(bs) + 1
<1>1. /\ Len(bs) \in Nat /\ DOMAIN bs = 1..Len(bs)
      /\ DOMAIN Append(bs, r) = 1..n
      /\ \A i \in 1..Len(bs) : Append(bs, r)[i] = bs[i]
      /\ Append(bs, r)[n] = r
  BY LenProperties, AppendProperties
<1>2. IsFiniteSet(SeatedIn(bs, s)) /\ Cardinality(SeatedIn(bs, s)) \in Nat
  BY SeatedFinite
<1>3. n \notin SeatedIn(bs, s)
  BY <1>1 DEF SeatedIn
<1>4. CASE SitsIn(r, s)
  <2>1. SeatedIn(Append(bs, r), s) = SeatedIn(bs, s) \cup {n}
    BY <1>1, <1>4 DEF SeatedIn
  <2> QED  BY <2>1, <1>2, <1>3, <1>4, FS_AddElement DEF Sitting
<1>5. CASE ~SitsIn(r, s)
  <2>1. SeatedIn(Append(bs, r), s) = SeatedIn(bs, s)
    BY <1>1, <1>5 DEF SeatedIn
  <2> QED  BY <2>1, <1>2, <1>5 DEF Sitting
<1> QED  BY <1>4, <1>5

\* Updating a row moves the count of a slot by what the row's seat changes there.
LEMMA SeatedUpdate ==
    ASSUME NEW bs \in Seq(BookingRow), NEW b \in DOMAIN bs, NEW r \in BookingRow, NEW s
    PROVE  Cardinality(SeatedIn([bs EXCEPT ![b] = r], s))
             = Cardinality(SeatedIn(bs, s)) - Sitting(bs[b], s) + Sitting(r, s)
<1> SUFFICES ASSUME NEW new, new = [bs EXCEPT ![b] = r]
             PROVE  Cardinality(SeatedIn(new, s))
                      = Cardinality(SeatedIn(bs, s)) - Sitting(bs[b], s) + Sitting(r, s)
  OBVIOUS
<1>1. DOMAIN new = DOMAIN bs /\ new[b] = r /\ \A i \in DOMAIN bs \ {b} : new[i] = bs[i]
  BY LenProperties
<1>2. IsFiniteSet(SeatedIn(bs, s)) /\ Cardinality(SeatedIn(bs, s)) \in Nat
  BY SeatedFinite
<1>3. CASE SitsIn(r, s) /\ ~SitsIn(bs[b], s)
  <2>1. SeatedIn(new, s) = SeatedIn(bs, s) \cup {b} /\ b \notin SeatedIn(bs, s)
    BY <1>1, <1>3 DEF SeatedIn
  <2>2. Cardinality(SeatedIn(new, s)) = Cardinality(SeatedIn(bs, s)) + 1
    BY <2>1, <1>2, FS_AddElement
  <2> QED  BY <2>2, <1>2, <1>3 DEF Sitting
<1>4. CASE ~SitsIn(r, s) /\ SitsIn(bs[b], s)
  <2>1. SeatedIn(new, s) = SeatedIn(bs, s) \ {b} /\ b \in SeatedIn(bs, s)
    BY <1>1, <1>4 DEF SeatedIn
  <2>2. Cardinality(SeatedIn(new, s)) = Cardinality(SeatedIn(bs, s)) - 1
    BY <2>1, <1>2, FS_RemoveElement
  <2> QED  BY <2>2, <1>2, <1>4 DEF Sitting
<1>5. CASE SitsIn(r, s) <=> SitsIn(bs[b], s)
  <2>1. SeatedIn(new, s) = SeatedIn(bs, s)
    BY <1>1, <1>5 DEF SeatedIn
  <2> QED  BY <2>1, <1>2, <1>5 DEF Sitting
<1> QED  BY <1>3, <1>4, <1>5

\* The entries of a ledger with one delta are finitely many.
LEMMA EntriesFinite ==
    ASSUME NEW l \in Seq(LedgerEntry), NEW d
    PROVE  IsFiniteSet(EntriesWith(l, d)) /\ Cardinality(EntriesWith(l, d)) \in Nat
<1>1. Len(l) \in Nat /\ DOMAIN l = 1..Len(l)
  BY LenProperties
<1>2. IsFiniteSet(1..Len(l))
  BY <1>1, FS_Interval
<1>3. EntriesWith(l, d) \in SUBSET (1..Len(l))
  BY <1>1 DEF EntriesWith
<1>4. IsFiniteSet(EntriesWith(l, d))
  BY <1>2, <1>3, FS_Subset
<1> QED
  BY <1>4, FS_CardinalityType

\* Appending an entry adds one to the count of the entries with its delta.
LEMMA EntriesAppend ==
    ASSUME NEW l \in Seq(LedgerEntry), NEW e \in LedgerEntry, NEW d
    PROVE  Cardinality(EntriesWith(Append(l, e), d))
             = Cardinality(EntriesWith(l, d)) + IF e.delta = d THEN 1 ELSE 0
<1> DEFINE n == Len(l) + 1
<1>1. /\ Len(l) \in Nat /\ DOMAIN l = 1..Len(l)
      /\ DOMAIN Append(l, e) = 1..n
      /\ \A i \in 1..Len(l) : Append(l, e)[i] = l[i]
      /\ Append(l, e)[n] = e
  BY LenProperties, AppendProperties
<1>2. IsFiniteSet(EntriesWith(l, d)) /\ Cardinality(EntriesWith(l, d)) \in Nat
  BY EntriesFinite
<1>3. n \notin EntriesWith(l, d)
  BY <1>1 DEF EntriesWith
<1>4. CASE e.delta = d
  <2>1. EntriesWith(Append(l, e), d) = EntriesWith(l, d) \cup {n}
    BY <1>1, <1>4 DEF EntriesWith
  <2> QED  BY <2>1, <1>2, <1>3, <1>4, FS_AddElement
<1>5. CASE e.delta # d
  <2>1. EntriesWith(Append(l, e), d) = EntriesWith(l, d)
    BY <1>1, <1>5 DEF EntriesWith
  <2> QED  BY <2>1, <1>2, <1>5
<1> QED  BY <1>4, <1>5

\* Appending an entry adds its delta to the balance.
LEMMA SumAppend ==
    ASSUME NEW l \in Seq(LedgerEntry), NEW e \in LedgerEntry
    PROVE  /\ SumOfDeltas(l) \in Int
           /\ SumOfDeltas(Append(l, e)) = SumOfDeltas(l) + e.delta
<1>1. e.delta \in {-1, 0, 1}
  BY DEF LedgerEntry
<1>2. /\ Cardinality(EntriesWith(l, 1)) \in Nat /\ Cardinality(EntriesWith(l, -1)) \in Nat
      /\ Cardinality(EntriesWith(Append(l, e), 1))
            = Cardinality(EntriesWith(l, 1)) + IF e.delta = 1 THEN 1 ELSE 0
      /\ Cardinality(EntriesWith(Append(l, e), -1))
            = Cardinality(EntriesWith(l, -1)) + IF e.delta = -1 THEN 1 ELSE 0
  BY EntriesFinite, EntriesAppend
<1> QED
  BY <1>1, <1>2 DEF SumOfDeltas
-----------------------------------------------------------------------------
(* What the row updates of the repository return.                          *)

\* A hold ends at a time, and so does none.
LEMMA HoldTypes ==
    /\ \A t \in Instant : Later(t, HoldDuration) \in Instant
    /\ NoHold \in Instant
<1>1. ASSUME NEW t \in Instant PROVE Later(t, HoldDuration) \in Instant
  BY PolicyAssumption DEF Later, Instant
<1>2. 0 \in 0..(Base - 1)
  BY TextAssumption
<1>3. NoHold \in Instant
  BY <1>2 DEF NoHold, Instant, Fraction
<1> QED  BY <1>1, <1>3

\* Booking rows stay booking rows; an update touches the row it names only.
LEMMA BookingUpdates ==
    ASSUME NEW r \in BookingRow, now \in Instant
    PROVE  /\ \A to \in BookingStatus :
                 /\ TransitionBooking(r, to) \in BookingRow
                 /\ TransitionBooking(r, to).status = to
                 /\ TransitionBooking(r, to).slot = r.slot
           /\ PromoteWaitlistedBooking(r) \in BookingRow
           /\ PromoteWaitlistedBooking(r).status = Held
           /\ PromoteWaitlistedBooking(r).slot = r.slot
           /\ \A s \in Slots : /\ MoveBooking(r, s) \in BookingRow
                               /\ MoveBooking(r, s).status = r.status
                               /\ MoveBooking(r, s).slot = s
<1>1. Held \in BookingStatus
  BY DEF BookingStatus
<1>2. Later(now, HoldDuration) \in Instant
  BY HoldTypes
<1>3. r.version + 1 \in Nat
  BY DEF BookingRow
<1>4. ASSUME NEW to \in BookingStatus
      PROVE  /\ TransitionBooking(r, to) \in BookingRow
             /\ TransitionBooking(r, to).status = to
             /\ TransitionBooking(r, to).slot = r.slot
  BY <1>3 DEF BookingRow, TransitionBooking
<1>5. /\ PromoteWaitlistedBooking(r) \in BookingRow
      /\ PromoteWaitlistedBooking(r).status = Held
      /\ PromoteWaitlistedBooking(r).slot = r.slot
  BY <1>1, <1>2, <1>3 DEF BookingRow, PromoteWaitlistedBooking
<1>6. ASSUME NEW s \in Slots
      PROVE  /\ MoveBooking(r, s) \in BookingRow
             /\ MoveBooking(r, s).status = r.status
             /\ MoveBooking(r, s).slot = s
  BY <1>3 DEF BookingRow, MoveBooking
<1> QED
  BY <1>4, <1>5, <1>6

\* Slot rows stay slot rows, and a seat moves the reserved count by one.
LEMMA SlotUpdates ==
    ASSUME NEW r \in SlotRow
    PROVE  /\ ReserveSeat(r) \in SlotRow
           /\ ReserveSeat(r).reserved = r.reserved + 1
           /\ ReserveSeat(r).capacity = r.capacity
           /\ ReserveSeat(r).status = r.status
           /\ CanRelease(r) => /\ ReleaseSeat(r) \in SlotRow
                               /\ ReleaseSeat(r).reserved = r.reserved - 1
                               /\ ReleaseSeat(r).reserved \in Nat
                               /\ ReleaseSeat(r).capacity = r.capacity
                               /\ ReleaseSeat(r).status = r.status
<1>1. r.reserved + 1 \in Nat /\ r.version + 1 \in Nat
  BY DEF SlotRow
<1>2. CanRelease(r) => r.reserved - 1 \in Nat
  BY DEF SlotRow, CanRelease
<1>3. /\ ReserveSeat(r) \in SlotRow
      /\ ReserveSeat(r).reserved = r.reserved + 1
      /\ ReserveSeat(r).capacity = r.capacity
      /\ ReserveSeat(r).status = r.status
  BY <1>1 DEF SlotRow, ReserveSeat
<1>4. ASSUME CanRelease(r)
      PROVE  /\ ReleaseSeat(r) \in SlotRow
             /\ ReleaseSeat(r).reserved = r.reserved - 1
             /\ ReleaseSeat(r).capacity = r.capacity
             /\ ReleaseSeat(r).status = r.status
  BY <1>1, <1>2, <1>4 DEF SlotRow, ReleaseSeat
<1> QED
  BY <1>2, <1>3, <1>4

\* An update of one row of a table of bookings.
LEMMA TableUpdate ==
    ASSUME NEW bs \in Seq(BookingRow), NEW b \in DOMAIN bs, NEW r \in BookingRow
    PROVE  /\ [bs EXCEPT ![b] = r] \in Seq(BookingRow)
           /\ DOMAIN [bs EXCEPT ![b] = r] = DOMAIN bs
           /\ Len([bs EXCEPT ![b] = r]) = Len(bs)
           /\ \A i \in DOMAIN bs : [bs EXCEPT ![b] = r][i] = IF i = b THEN r ELSE bs[i]
           /\ bs[b] \in BookingRow
<1>1. Len(bs) \in Nat /\ DOMAIN bs = 1..Len(bs)
  BY LenProperties
<1> QED
  BY <1>1, ExceptSeq, ElementOfSeq, LenProperties

\* An entry appended to the ledger of one slot.
LEMMA LedgerUpdate ==
    ASSUME NEW l \in [Slots -> Seq(LedgerEntry)], NEW s \in Slots, NEW b \in Nat,
           NEW kind \in LedgerKind, NEW delta \in {-1, 0, 1}, NEW bal \in Nat
    PROVE  /\ AppendLedger(l, s, b, kind, delta, bal) \in [Slots -> Seq(LedgerEntry)]
           /\ SumOfDeltas(AppendLedger(l, s, b, kind, delta, bal)[s]) = SumOfDeltas(l[s]) + delta
           /\ SumOfDeltas(l[s]) \in Int
           /\ \A t \in Slots \ {s} : AppendLedger(l, s, b, kind, delta, bal)[t] = l[t]
<1> DEFINE e == [booking |-> b, kind |-> kind, delta |-> delta, balanceAfter |-> bal]
<1>1. e \in LedgerEntry /\ e.delta = delta
  BY DEF LedgerEntry
<1>2. Append(l[s], e) \in Seq(LedgerEntry)
  BY <1>1, AppendProperties
<1>3. SumOfDeltas(l[s]) \in Int /\ SumOfDeltas(Append(l[s], e)) = SumOfDeltas(l[s]) + delta
  BY <1>1, SumAppend
<1>4. AppendLedger(l, s, b, kind, delta, bal) = [l EXCEPT ![s] = Append(l[s], e)]
  BY DEF AppendLedger
<1> QED
  BY <1>2, <1>3, <1>4

-----------------------------------------------------------------------------
(* Type correctness.                                                       *)

\* The type invariant holds initially.
LEMMA TypeInit == Init => TypeOK
<1> SUFFICES ASSUME Init PROVE TypeOK
  OBVIOUS
<1>1. << >> \in Seq(BookingRow) /\ << >> \in Seq(LedgerEntry)
  BY EmptySeq
<1> QED
  BY <1>1, BoundAssumption DEF Init, TypeOK, SlotRow, ClosureStatus

\* ... and is preserved by every step.
LEMMA TypeStep == TypeOK /\ [Next]_vars => TypeOK'
<1> SUFFICES ASSUME TypeOK, [Next]_vars PROVE TypeOK'
  OBVIOUS
<1> USE DEF TypeOK
<1>0. /\ Len(bookings) \in Nat /\ DOMAIN bookings = 1..Len(bookings)
      /\ \A b \in BookingIds : b \in Nat /\ bookings[b] \in BookingRow
  BY LenProperties, ElementOfSeq DEF BookingIds
<1>1. ASSUME NEW s \in Slots, NEW n \in Capacities, NEW coach \in Coaches, NEW a \in Operators,
             CreateSlot(a, s, n, coach)
      PROVE  TypeOK'
  <2>1. [capacity |-> n, version |-> 1, reserved |-> InitialReserved[s], status |-> "open"] \in SlotRow
    BY CapacityAssumption DEF SlotRow
  <2> QED  BY <1>1, <2>1 DEF CreateSlot
<1>2. ASSUME NEW s \in Slots, NEW n \in Capacities, NEW a \in Operators, AdjustCapacity(a, s, n)
      PROVE  TypeOK'
  <2>0. n \in Nat /\ slots[s] \in SlotRow /\ slots[s].version + 1 \in Nat
    BY CapacityAssumption DEF SlotRow
  <2> DEFINE row == [slots[s] EXCEPT !.capacity = n, !.version = @ + 1]
  <2>a. row \in SlotRow
    BY <2>0 DEF SlotRow
  <2>b. slots' = [slots EXCEPT ![s] = row]
    BY <1>2, <2>0 DEF AdjustCapacity
  <2>1. slots' \in [Slots -> SlotRow]
    BY <2>a, <2>b
  <2>2. slots[s].reserved \in Nat
    BY DEF SlotRow
  <2>3. ledger' \in [Slots -> Seq(LedgerEntry)]
    BY <1>2, <2>2, LedgerUpdate DEF AdjustCapacity, LedgerKind
  <2> QED  BY <1>2, <2>1, <2>3 DEF AdjustCapacity
<1>3. ASSUME NEW c \in Closures, NEW a \in Operators, CreateAndApply(a, c)
      PROVE  TypeOK'
  <2>0. ASSUME NEW r \in SlotRow PROVE Close(r) \in SlotRow
    <3>1. r.version + 1 \in Nat
      BY DEF SlotRow
    <3> QED  BY <3>1 DEF SlotRow, Close
  <2>1. ASSUME NEW s \in Slots PROVE slots'[s] \in SlotRow
    <3>1. slots[s] \in SlotRow /\ Close(slots[s]) \in SlotRow
      BY <2>0
    <3> QED  BY <1>3, <3>1 DEF CreateAndApply
  <2>2. slots' = [s \in Slots |-> slots'[s]]
    BY <1>3 DEF CreateAndApply
  <2>3. slots' \in [Slots -> SlotRow]
    BY <2>1, <2>2
  <2> QED  BY <1>3, <2>3 DEF CreateAndApply, ClosureStatus
<1>4. ASSUME NEW c \in Closures, NEW a \in Operators, ReopenClosure(a, c)
      PROVE  TypeOK'
  <2>0. ASSUME NEW r \in SlotRow PROVE Reopen(r) \in SlotRow
    <3>1. r.version + 1 \in Nat
      BY DEF SlotRow
    <3> QED  BY <3>1 DEF SlotRow, Reopen
  <2>1. ASSUME NEW s \in Slots PROVE slots'[s] \in SlotRow
    <3>1. slots[s] \in SlotRow /\ Reopen(slots[s]) \in SlotRow
      BY <2>0
    <3> QED  BY <1>4, <3>1 DEF ReopenClosure
  <2>2. slots' = [s \in Slots |-> slots'[s]]
    BY <1>4 DEF ReopenClosure
  <2>3. slots' \in [Slots -> SlotRow]
    BY <2>1, <2>2
  <2> QED  BY <1>4, <2>3 DEF ReopenClosure, ClosureStatus
<1>5. ASSUME NEW a \in Guardians \cup Operators, NEW k \in Keys, NEW g \in Guardians,
             NEW st \in Students, NEW s \in Slots, NEW status \in BookingStatus, NEW h \in Instant,
             CreateOnce(a, k, g, st, s, status, h)
      PROVE  bookings' \in Seq(BookingRow) /\ keys' \subseteq KeyRow
  <2> DEFINE r == [student |-> st, guardian |-> g, slot |-> s, status |-> status,
                   holdUntil |-> h, version |-> 1]
  <2>1. r \in BookingRow
    BY DEF BookingRow
  <2>2. Append(bookings, r) \in Seq(BookingRow)
    BY <2>1, AppendProperties
  <2> QED  BY <1>5, <1>0, <2>2 DEF CreateOnce, KeyRow
<1>6. ASSUME NEW a \in Guardians \cup Operators, NEW k \in Keys, NEW g \in Guardians,
             NEW st \in Students, NEW s \in Slots, CreateHeld(a, k, g, st, s)
      PROVE  TypeOK'
  <2>1. Held \in BookingStatus /\ Later(now, HoldDuration) \in Instant
    BY <1>0, HoldTypes DEF BookingStatus
  <2>2. CreateOnce(a, k, g, st, s, Held, Later(now, HoldDuration))
    BY <1>6 DEF CreateHeld
  <2>3. bookings' \in Seq(BookingRow) /\ keys' \subseteq KeyRow
    BY <2>1, <2>2, <1>5
  <2>4. slots' \in [Slots -> SlotRow]
    BY <1>6, SlotUpdates DEF CreateHeld
  <2>5. slots[s].reserved + 1 \in Nat /\ Len(bookings) + 1 \in Nat
    BY <1>0 DEF SlotRow
  <2>6. ledger' \in [Slots -> Seq(LedgerEntry)]
    BY <1>6, <2>5, LedgerUpdate DEF CreateHeld, LedgerKind
  <2> QED  BY <1>6, <2>2, <2>3, <2>4, <2>6 DEF CreateHeld, CreateOnce
<1>7. ASSUME NEW a \in Guardians \cup Operators, NEW k \in Keys, NEW g \in Guardians,
             NEW st \in Students, NEW s \in Slots, NEW p \in 1..(Len(bookings) + 1),
             CreateWaitlisted(a, k, g, st, s, p)
      PROVE  TypeOK'
  <2>1. Waitlisted \in BookingStatus /\ NoHold \in Instant
    BY HoldTypes DEF BookingStatus
  <2>2. CreateOnce(a, k, g, st, s, Waitlisted, NoHold)
    BY <1>7 DEF CreateWaitlisted
  <2>3. bookings' \in Seq(BookingRow) /\ keys' \subseteq KeyRow
    BY <2>1, <2>2, <1>5
  <2> DEFINE w == [booking |-> Len(bookings) + 1, slot |-> s, position |-> p, promoted |-> FALSE]
  <2>a. w \in WaitlistRow
    BY <1>0 DEF WaitlistRow
  <2>b. waitlist' = waitlist \cup {w}
    BY <1>7 DEF CreateWaitlisted
  <2>4. waitlist' \subseteq WaitlistRow
    BY <2>a, <2>b
  <2> QED  BY <1>7, <2>2, <2>3, <2>4 DEF CreateWaitlisted, CreateOnce
<1>8. ASSUME NEW b \in BookingIds, NEW a, Confirm(a, b)
      PROVE  TypeOK'
  <2>1. bookings' \in Seq(BookingRow)
    BY <1>8, <1>0, BookingUpdates, TableUpdate DEF Confirm, BookingIds, BookingStatus
  <2> QED  BY <1>8, <2>1 DEF Confirm
<1>9. ASSUME NEW b \in BookingIds, NEW a, CancelWaiting(a, b)
      PROVE  TypeOK'
  <2>1. bookings' \in Seq(BookingRow)
    BY <1>9, <1>0, BookingUpdates, TableUpdate DEF CancelWaiting, BookingIds, BookingStatus
  <2> QED  BY <1>9, <2>1 DEF CancelWaiting
<1>10. ASSUME NEW b \in BookingIds, NEW a, CancelSeat(a, b)
      PROVE  TypeOK'
  <2> DEFINE s == bookings[b].slot
  <2>1. bookings' \in Seq(BookingRow)
    BY <1>10, <1>0, BookingUpdates, TableUpdate DEF CancelSeat, BookingIds, BookingStatus
  <2>2. s \in Slots /\ slots[s] \in SlotRow /\ CanRelease(slots[s])
    BY <1>10, <1>0 DEF CancelSeat, GivesSeatBack, BookingRow
  <2>3. slots' \in [Slots -> SlotRow]
    BY <1>10, <2>2, SlotUpdates DEF CancelSeat
  <2>4. slots[s].reserved - 1 \in Nat
    BY <2>2 DEF SlotRow, CanRelease
  <2>5. ledger' \in [Slots -> Seq(LedgerEntry)]
    BY <1>10, <1>0, <2>2, <2>4, LedgerUpdate DEF CancelSeat, LedgerKind
  <2> QED  BY <1>10, <2>1, <2>3, <2>5 DEF CancelSeat
<1>11. ASSUME NEW n \in BookingIds
       PROVE  MarkWaitlistPromoted(n) \subseteq WaitlistRow
  BY DEF MarkWaitlistPromoted, WaitlistRow
<1>12. ASSUME NEW b \in BookingIds, NEW n \in BookingIds, NEW a, CancelAndPromote(a, b, n)
       PROVE  TypeOK'
  <2> DEFINE s  == bookings[b].slot
             bs == [bookings EXCEPT ![b] = TransitionBooking(@, Cancelled)]
             l  == AppendLedger(ledger, s, b, "release", -1, slots[s].reserved - 1)
  <2>1. s \in Slots /\ slots[s] \in SlotRow /\ CanRelease(slots[s])
    BY <1>12, <1>0 DEF CancelAndPromote, GivesSeatBack, BookingRow
  <2>2. bs \in Seq(BookingRow) /\ DOMAIN bs = DOMAIN bookings
    BY <1>0, BookingUpdates, TableUpdate DEF BookingIds, BookingStatus
  <2>3. n \in DOMAIN bs /\ bs[n] \in BookingRow
    BY <2>2, TableUpdate DEF BookingIds
  <2>0. n # b
    BY <1>12 DEF CancelAndPromote, GivesSeatBack, IsNextWaitlisted, Waiting, Held, Confirmed, Waitlisted
  <2>4. bookings' = [bs EXCEPT ![n] = PromoteWaitlistedBooking(bs[n])]
    BY <1>12, <2>0 DEF CancelAndPromote, BookingIds
  <2>5. bookings' \in Seq(BookingRow)
    BY <2>2, <2>3, <2>4, BookingUpdates, TableUpdate
  <2>6. slots' \in [Slots -> SlotRow]
    BY <1>12, <2>1, SlotUpdates DEF CancelAndPromote
  <2>7. slots[s].reserved - 1 \in Nat /\ slots[s].reserved \in Nat
    BY <2>1 DEF SlotRow, CanRelease
  <2>8. l \in [Slots -> Seq(LedgerEntry)]
    BY <1>0, <2>1, <2>7, LedgerUpdate DEF LedgerKind
  <2>9. ledger' = AppendLedger(l, s, n, "reserve", 1, slots[s].reserved)
    BY <1>12 DEF CancelAndPromote
  <2>10. ledger' \in [Slots -> Seq(LedgerEntry)]
    BY <1>0, <2>1, <2>7, <2>8, <2>9, LedgerUpdate DEF LedgerKind
  <2> QED  BY <1>12, <1>11, <2>5, <2>6, <2>10 DEF CancelAndPromote
<1>13. ASSUME NEW b \in BookingIds, NEW to \in Slots, NEW a, Reschedule(a, b, to)
       PROVE  TypeOK'
  <2> DEFINE from == bookings[b].slot
             reserved == [slots EXCEPT ![to] = ReserveSeat(@)]
             l == AppendLedger(ledger, from, b, "transfer_out", -1, reserved[from].reserved - 1)
  <2>1. from \in Slots
    BY <1>0 DEF BookingRow
  <2>2. bookings' \in Seq(BookingRow)
    BY <1>13, <1>0, BookingUpdates, TableUpdate DEF Reschedule, BookingIds
  <2>3. reserved \in [Slots -> SlotRow] /\ CanRelease(reserved[from])
    BY <1>13, <2>1, SlotUpdates DEF Reschedule
  <2>4. slots' \in [Slots -> SlotRow]
    BY <1>13, <2>1, <2>3, SlotUpdates DEF Reschedule
  <2> HIDE DEF reserved
  <2>5. reserved[from].reserved - 1 \in Nat /\ reserved[to].reserved \in Nat
    <3>1. reserved[from] \in SlotRow /\ reserved[to] \in SlotRow
      BY <2>1, <2>3
    <3>2. \A r \in SlotRow : r.reserved \in Nat /\ (CanRelease(r) => r.reserved - 1 \in Nat)
      BY DEF SlotRow, CanRelease
    <3> QED  BY <2>3, <3>1, <3>2
  <2>6. l \in [Slots -> Seq(LedgerEntry)]
    BY <1>0, <2>1, <2>5, LedgerUpdate DEF LedgerKind
  <2>7. ledger' = AppendLedger(l, to, b, "transfer_in", 1, reserved[to].reserved)
    BY <1>13 DEF Reschedule, reserved
  <2> HIDE DEF l
  <2>8. ledger' \in [Slots -> Seq(LedgerEntry)]
    BY <1>0, <2>5, <2>6, <2>7, LedgerUpdate DEF LedgerKind
  <2> QED  BY <1>13, <2>2, <2>4, <2>8 DEF Reschedule
<1>14. ASSUME NEW b \in BookingIds, NEW a, Redeem(a, b)
       PROVE  TypeOK'
  <2>1. bookings' \in Seq(BookingRow)
    BY <1>14, <1>0, BookingUpdates, TableUpdate DEF Redeem, BookingIds, BookingStatus
  <2> QED  BY <1>14, <1>0, <2>1 DEF Redeem
<1>15. ASSUME NEW s \in Slots, NEW n \in BookingIds, PromoteNext(s, n)
       PROVE  TypeOK'
  <2>1. bookings' \in Seq(BookingRow)
    BY <1>15, <1>0, BookingUpdates, TableUpdate DEF PromoteNext, BookingIds
  <2>2. slots' \in [Slots -> SlotRow]
    BY <1>15, SlotUpdates DEF PromoteNext
  <2>3. slots[s].reserved + 1 \in Nat
    BY DEF SlotRow
  <2>4. ledger' \in [Slots -> Seq(LedgerEntry)]
    BY <1>15, <1>0, <2>3, LedgerUpdate DEF PromoteNext, LedgerKind
  <2> QED  BY <1>15, <1>11, <2>1, <2>2, <2>4 DEF PromoteNext
<1>16. CASE Tick
  BY <1>16, BoundAssumption DEF Tick
<1>17. CASE UNCHANGED vars
  BY <1>17 DEF vars
<1> QED
  BY <1>1, <1>2, <1>3, <1>4, <1>6, <1>7, <1>8, <1>9, <1>10, <1>12, <1>13, <1>14, <1>15, <1>16, <1>17
  DEF Next, OperatorStep, CreateStep, BookingStep, PromotionStep

\* Every table of every reachable database holds rows of its type.
THEOREM TypeCorrect == Spec => []TypeOK
<1> QED  BY TypeInit, TypeStep, PTL DEF Spec

-----------------------------------------------------------------------------
(* The wait list.  Two entries of the same booking cannot exist because an *)
(* entry is only inserted for a booking inserted by the same call.         *)

\* What a step may do to the bookings for the wait list to stay coherent: it
\* appends a row or changes statuses, and leaves the slot of a waiting booking.
LEMMA CoherentUpdate ==
    ASSUME TypeOK, WaitlistCoherent, NEW b \in BookingIds, NEW r \in BookingRow,
           bookings' = [bookings EXCEPT ![b] = r], UNCHANGED waitlist,
           \/ bookings[b].status \in {Held, Confirmed} /\ r.status \in SeatedStatus \cup {Cancelled}
           \/ bookings[b].status = Waitlisted /\ r.status = Cancelled /\ r.slot = bookings[b].slot
    PROVE  WaitlistCoherent'
<1>1. /\ DOMAIN bookings' = DOMAIN bookings
      /\ \A i \in DOMAIN bookings : bookings'[i] = IF i = b THEN r ELSE bookings[i]
  BY TableUpdate DEF TypeOK, BookingIds
<1>2. ASSUME NEW w \in waitlist
      PROVE  /\ w.booking \in BookingIds'
             /\ w.promoted => bookings'[w.booking].status # Waitlisted
             /\ ~w.promoted => /\ bookings'[w.booking].status \in {Waitlisted, Cancelled}
                               /\ bookings'[w.booking].slot = w.slot
  BY <1>1 DEF WaitlistCoherent, BookingIds, SeatedStatus, Held, Confirmed, CheckedIn, Waitlisted, Cancelled
<1>3. ASSUME NEW i \in BookingIds', bookings'[i].status = Waitlisted
      PROVE  \E w \in waitlist : w.booking = i /\ ~w.promoted
  BY <1>1, <1>3 DEF WaitlistCoherent, BookingIds, SeatedStatus, Held, Confirmed, CheckedIn, Waitlisted, Cancelled
<1> QED
  BY <1>2, <1>3 DEF WaitlistCoherent

\* Promoting the next waitlisted booking takes it and its entry off the list.
LEMMA CoherentPromote ==
    ASSUME TypeOK, WaitlistCoherent, NEW s \in Slots, NEW n \in BookingIds,
           IsNextWaitlisted(s, n), waitlist' = MarkWaitlistPromoted(n),
           DOMAIN bookings' = DOMAIN bookings,
           bookings'[n].status = Held,
           \A i \in BookingIds \ {n} :
              \/ bookings'[i] = bookings[i]
              \/ bookings[i].status \in {Held, Confirmed} /\ bookings'[i].status = Cancelled
    PROVE  WaitlistCoherent'
<1>1. \A w \in waitlist : ~w.promoted /\ w.booking # n =>
          /\ bookings'[w.booking].status \in {Waitlisted, Cancelled}
          /\ bookings'[w.booking].slot = w.slot
  BY DEF WaitlistCoherent, Held, Confirmed, Waitlisted, Cancelled
<1>2. \A w \in waitlist : w.promoted \/ w.booking = n => bookings'[w.booking].status # Waitlisted
  BY DEF WaitlistCoherent, Held, Confirmed, Waitlisted, Cancelled
<1>3. ASSUME NEW w \in waitlist'
      PROVE  /\ w.booking \in BookingIds'
             /\ w.promoted => bookings'[w.booking].status # Waitlisted
             /\ ~w.promoted => /\ bookings'[w.booking].status \in {Waitlisted, Cancelled}
                               /\ bookings'[w.booking].slot = w.slot
  <2>1. PICK v \in waitlist : w = IF v.booking = n THEN [v EXCEPT !.promoted = TRUE] ELSE v
    BY DEF MarkWaitlistPromoted
  <2>2. v \in WaitlistRow
    BY DEF TypeOK
  <2>3. w.booking = v.booking /\ w.slot = v.slot /\ (v.booking = n => w.promoted)
          /\ (v.booking # n => w.promoted = v.promoted)
    BY <2>1, <2>2 DEF WaitlistRow
  <2> QED  BY <1>1, <1>2, <2>3 DEF WaitlistCoherent, BookingIds
<1>4. ASSUME NEW i \in BookingIds', bookings'[i].status = Waitlisted
      PROVE  \E w \in waitlist' : w.booking = i /\ ~w.promoted
  <2>1. i \in BookingIds /\ i # n /\ bookings[i].status = Waitlisted
    BY <1>4 DEF BookingIds, Held, Waitlisted, Cancelled
  <2>2. PICK w \in waitlist : w.booking = i /\ ~w.promoted
    BY <2>1 DEF WaitlistCoherent
  <2>3. w \in waitlist'
    BY <2>1, <2>2 DEF MarkWaitlistPromoted
  <2> QED  BY <2>2, <2>3
<1> QED
  BY <1>3, <1>4 DEF WaitlistCoherent

\* The wait list stays coherent in every step.
LEMMA CoherentStep == TypeOK /\ WaitlistCoherent /\ [Next]_vars => WaitlistCoherent'
<1> SUFFICES ASSUME TypeOK, WaitlistCoherent, [Next]_vars PROVE WaitlistCoherent'
  OBVIOUS
<1>0. /\ Len(bookings) \in Nat /\ DOMAIN bookings = 1..Len(bookings)
      /\ bookings \in Seq(BookingRow)
      /\ \A b \in BookingIds : b \in Nat /\ bookings[b] \in BookingRow /\ bookings[b].slot \in Slots
  <2>1. \A r \in BookingRow : r.slot \in Slots
    BY DEF BookingRow
  <2> QED  BY <2>1, LenProperties, ElementOfSeq DEF BookingIds, TypeOK
<1>1. ASSUME UNCHANGED <<bookings, waitlist>>
      PROVE  WaitlistCoherent'
  BY <1>1 DEF WaitlistCoherent, BookingIds
<1>2. ASSUME NEW r \in BookingRow, bookings' = Append(bookings, r)
      PROVE  /\ DOMAIN bookings' = DOMAIN bookings \cup {Len(bookings) + 1}
             /\ Len(bookings) + 1 \notin DOMAIN bookings
             /\ \A i \in DOMAIN bookings : bookings'[i] = bookings[i]
             /\ bookings'[Len(bookings) + 1] = r
  BY <1>0, <1>2, AppendProperties, LenProperties
<1>3. ASSUME NEW a \in Guardians \cup Operators, NEW k \in Keys, NEW g \in Guardians,
             NEW st \in Students, NEW s \in Slots, CreateHeld(a, k, g, st, s)
      PROVE  WaitlistCoherent'
  <2> DEFINE r == [student |-> st, guardian |-> g, slot |-> s, status |-> Held,
                   holdUntil |-> Later(now, HoldDuration), version |-> 1]
  <2>1. r \in BookingRow
    BY HoldTypes DEF BookingRow, BookingStatus, TypeOK
  <2>2. bookings' = Append(bookings, r) /\ waitlist' = waitlist
    BY <1>3 DEF CreateHeld, CreateOnce
  <2> QED  BY <2>1, <2>2, <1>2 DEF WaitlistCoherent, BookingIds, Held, Waitlisted
<1>4. ASSUME NEW a \in Guardians \cup Operators, NEW k \in Keys, NEW g \in Guardians,
             NEW st \in Students, NEW s \in Slots, NEW p \in 1..(Len(bookings) + 1),
             CreateWaitlisted(a, k, g, st, s, p)
      PROVE  WaitlistCoherent'
  <2> DEFINE r == [student |-> st, guardian |-> g, slot |-> s, status |-> Waitlisted,
                   holdUntil |-> NoHold, version |-> 1]
             w == [booking |-> Len(bookings) + 1, slot |-> s, position |-> p, promoted |-> FALSE]
  <2>1. r \in BookingRow
    BY HoldTypes DEF BookingRow, BookingStatus
  <2>2. bookings' = Append(bookings, r) /\ waitlist' = waitlist \cup {w}
    BY <1>4 DEF CreateWaitlisted, CreateOnce
  <2>3. /\ w.booking = Len(bookings) + 1 /\ w.slot = s /\ ~w.promoted
        /\ r.status = Waitlisted /\ r.slot = s
    OBVIOUS
  <2> HIDE DEF w, r
  <2>4. ASSUME NEW x \in waitlist'
        PROVE  /\ x.booking \in BookingIds'
               /\ x.promoted => bookings'[x.booking].status # Waitlisted
               /\ ~x.promoted => /\ bookings'[x.booking].status \in {Waitlisted, Cancelled}
                                 /\ bookings'[x.booking].slot = x.slot
    <3>1. CASE x = w
      BY <2>1, <2>2, <2>3, <3>1, <1>2 DEF BookingIds
    <3>2. CASE x \in waitlist
      BY <2>1, <2>2, <3>2, <1>2 DEF WaitlistCoherent, BookingIds
    <3> QED  BY <2>2, <3>1, <3>2
  <2>5. ASSUME NEW i \in BookingIds', bookings'[i].status = Waitlisted
        PROVE  \E x \in waitlist' : x.booking = i /\ ~x.promoted
    BY <2>1, <2>2, <2>3, <2>5, <1>2 DEF WaitlistCoherent, BookingIds
  <2> QED  BY <2>4, <2>5 DEF WaitlistCoherent
<1>5. ASSUME NEW b \in BookingIds, NEW a, Confirm(a, b)
      PROVE  WaitlistCoherent'
  <2>1. TransitionBooking(bookings[b], Confirmed) \in BookingRow
          /\ TransitionBooking(bookings[b], Confirmed).status = Confirmed
    BY <1>0, BookingUpdates DEF BookingStatus, TypeOK
  <2> QED  BY <1>5, <2>1, CoherentUpdate DEF Confirm, MayConfirm, SeatedStatus
<1>6. ASSUME NEW b \in BookingIds, NEW a, CancelWaiting(a, b) \/ CancelSeat(a, b)
      PROVE  WaitlistCoherent'
  <2>1. /\ TransitionBooking(bookings[b], Cancelled) \in BookingRow
        /\ TransitionBooking(bookings[b], Cancelled).status = Cancelled
        /\ TransitionBooking(bookings[b], Cancelled).slot = bookings[b].slot
    BY <1>0, BookingUpdates DEF BookingStatus, TypeOK
  <2> QED  BY <1>6, <2>1, CoherentUpdate DEF CancelWaiting, CancelSeat, GivesSeatBack
<1>7. ASSUME NEW b \in BookingIds, NEW n \in BookingIds, NEW a, CancelAndPromote(a, b, n)
      PROVE  WaitlistCoherent'
  <2>1. n # b /\ bookings[b].status \in {Held, Confirmed}
    BY <1>7 DEF CancelAndPromote, GivesSeatBack, IsNextWaitlisted, Waiting, Held, Confirmed, Waitlisted
  <2>2. /\ DOMAIN bookings' = DOMAIN bookings
        /\ bookings'[n] = PromoteWaitlistedBooking(bookings[n])
        /\ bookings'[b] = TransitionBooking(bookings[b], Cancelled)
        /\ \A i \in BookingIds \ {b, n} : bookings'[i] = bookings[i]
    BY <1>0, <1>7, <2>1 DEF CancelAndPromote, BookingIds
  <2>3. bookings'[n].status = Held /\ bookings'[b].status = Cancelled
    BY <1>0, <2>2, BookingUpdates DEF TypeOK, BookingStatus
  <2>4. bookings[b].slot \in Slots /\ IsNextWaitlisted(bookings[b].slot, n)
          /\ waitlist' = MarkWaitlistPromoted(n)
    BY <1>0, <1>7 DEF CancelAndPromote
  <2> QED  BY <2>1, <2>2, <2>3, <2>4, CoherentPromote
<1>8. ASSUME NEW b \in BookingIds, NEW to \in Slots, NEW a, Reschedule(a, b, to)
      PROVE  WaitlistCoherent'
  <2>1. MoveBooking(bookings[b], to) \in BookingRow
          /\ MoveBooking(bookings[b], to).status = bookings[b].status
    BY <1>0, BookingUpdates DEF TypeOK
  <2> QED  BY <1>8, <2>1, CoherentUpdate DEF Reschedule, MayReschedule, SeatedStatus
<1>9. ASSUME NEW b \in BookingIds, NEW a, Redeem(a, b)
      PROVE  WaitlistCoherent'
  <2>1. TransitionBooking(bookings[b], CheckedIn) \in BookingRow
          /\ TransitionBooking(bookings[b], CheckedIn).status = CheckedIn
    BY <1>0, BookingUpdates DEF BookingStatus, TypeOK
  <2> QED  BY <1>9, <2>1, CoherentUpdate DEF Redeem, SeatedStatus
<1>10. ASSUME NEW s \in Slots, NEW n \in BookingIds, PromoteNext(s, n)
       PROVE  WaitlistCoherent'
  <2>1. /\ DOMAIN bookings' = DOMAIN bookings
        /\ bookings'[n] = PromoteWaitlistedBooking(bookings[n])
        /\ \A i \in BookingIds \ {n} : bookings'[i] = bookings[i]
    BY <1>0, <1>10 DEF PromoteNext, BookingIds
  <2>2. bookings'[n].status = Held
    BY <1>0, <2>1, BookingUpdates DEF TypeOK
  <2> QED  BY <1>10, <2>1, <2>2, CoherentPromote DEF PromoteNext
<1>11. ASSUME NEW a \in Operators, NEW c \in Closures, CreateAndApply(a, c) \/ ReopenClosure(a, c)
       PROVE  WaitlistCoherent'
  BY <1>1, <1>11 DEF CreateAndApply, ReopenClosure
<1>12. ASSUME NEW a \in Operators, NEW s \in Slots, NEW m \in Capacities,
              \/ \E coach \in Coaches : CreateSlot(a, s, m, coach)
              \/ AdjustCapacity(a, s, m)
       PROVE  WaitlistCoherent'
  BY <1>1, <1>12 DEF CreateSlot, AdjustCapacity
<1>13. CASE Tick
  BY <1>1, <1>13 DEF Tick
<1>14. CASE UNCHANGED vars
  BY <1>1, <1>14 DEF vars
<1> QED
  BY <1>3, <1>4, <1>5, <1>6, <1>7, <1>8, <1>9, <1>10, <1>11, <1>12, <1>13, <1>14
  DEF Next, OperatorStep, CreateStep, BookingStep, PromotionStep

\* In every reachable database the waiting bookings are exactly those that
\* NextWaitlistedBooking can find: none is lost and none is promoted twice.
THEOREM WaitlistIsCoherent == Spec => []WaitlistCoherent
<1>1. Init => WaitlistCoherent
  BY DEF Init, WaitlistCoherent, BookingIds
<1> QED  BY <1>1, TypeInit, TypeStep, CoherentStep, PTL DEF Spec

-----------------------------------------------------------------------------
(* Seats and ledger.  The counter, the bookings and the ledger of a slot   *)
(* move together, so the proof carries them in one invariant.              *)

\* What the three say of one slot; a slot not created yet has none of them.
SlotBalanced(s) ==
    IF Exists(s)
    THEN /\ slots[s].reserved <= slots[s].capacity
         /\ slots[s].reserved = InitialReserved[s] + Cardinality(SeatedIn(bookings, s))
         /\ SumOfDeltas(ledger[s]) = slots[s].reserved - InitialReserved[s]
    ELSE /\ ledger[s] = << >>
         /\ \A b \in BookingIds : bookings[b].slot # s

SeatInv == TypeOK /\ WaitlistCoherent /\ \A s \in Slots : SlotBalanced(s)

\* The three properties of interest follow from the invariant.
LEMMA SeatInvImplies == SeatInv => SeatAccounting /\ NoOversell /\ LedgerFollowsCounter
<1> SUFFICES ASSUME SeatInv PROVE SeatAccounting /\ NoOversell /\ LedgerFollowsCounter
  OBVIOUS
<1>1. ASSUME NEW s \in Slots
      PROVE  /\ Cardinality(SeatedIn(bookings, s)) \in Nat
             /\ slots[s].capacity \in Nat /\ slots[s].reserved \in Nat
             /\ InitialReserved[s] \in Nat
             /\ SlotBalanced(s)
  BY SeatedFinite, CapacityAssumption DEF SeatInv, TypeOK, SlotRow
<1>2. SeatAccounting /\ LedgerFollowsCounter
  BY <1>1 DEF SeatAccounting, LedgerFollowsCounter, LedgerBalance, SlotBalanced, Seated
<1>3. ASSUME NEW s \in Slots
      PROVE  Cardinality(Seated(s)) <= slots[s].capacity
  <2>1. CASE Exists(s)
    BY <1>1, <2>1 DEF SlotBalanced, Seated
  <2>2. CASE ~Exists(s)
    <3>1. SeatedIn(bookings, s) = {}
      BY <1>1, <2>2 DEF SlotBalanced, SeatedIn, SitsIn, BookingIds
    <3> QED  BY <1>1, <3>1, FS_EmptySet DEF Seated
  <2> QED  BY <2>1, <2>2
<1> QED  BY <1>2, <1>3 DEF NoOversell

\* A slot whose row, ledger and seated bookings a step leaves alone.
LEMMA UntouchedSlot ==
    ASSUME NEW s \in Slots, SlotBalanced(s),
           slots'[s].status # "absent" <=> slots[s].status # "absent",
           slots'[s].reserved = slots[s].reserved, slots'[s].capacity = slots[s].capacity,
           ledger'[s] = ledger[s],
           Cardinality(SeatedIn(bookings', s)) = Cardinality(SeatedIn(bookings, s)),
           \A b \in BookingIds' : bookings'[b].slot = s =>
              Exists(s) \/ \E c \in BookingIds : bookings[c].slot = s
    PROVE  SlotBalanced(s)'
<1>1. CASE Exists(s)
  BY <1>1 DEF SlotBalanced, Exists
<1>2. CASE ~Exists(s)
  BY <1>2 DEF SlotBalanced, Exists
<1> QED  BY <1>1, <1>2

\* Initially no slot exists and every table is empty.
LEMMA SeatInit == Init => SeatInv
<1> SUFFICES ASSUME Init PROVE SeatInv
  OBVIOUS
<1>1. TypeOK
  BY TypeInit
<1>2. WaitlistCoherent
  BY DEF Init, WaitlistCoherent, BookingIds
<1>3. \A s \in Slots : SlotBalanced(s)
  BY DEF Init, SlotBalanced, Exists, BookingIds
<1> QED  BY <1>1, <1>2, <1>3 DEF SeatInv

\* A slot whose reserved count, seated bookings and ledger all move by d.
LEMMA BalancedMove ==
    ASSUME SeatInv, NEW s \in Slots, NEW d \in Int, Exists(s), slots'[s].status # "absent",
           slots'[s].reserved = slots[s].reserved + d,
           slots'[s].reserved <= slots'[s].capacity,
           Cardinality(SeatedIn(bookings', s)) = Cardinality(SeatedIn(bookings, s)) + d,
           SumOfDeltas(ledger'[s]) = SumOfDeltas(ledger[s]) + d
    PROVE  SlotBalanced(s)'
<1>1. /\ Cardinality(SeatedIn(bookings, s)) \in Nat
      /\ slots[s].reserved \in Nat /\ InitialReserved[s] \in Nat
      /\ SlotBalanced(s)
  BY SeatedFinite, CapacityAssumption DEF SeatInv, TypeOK, SlotRow
<1>2. /\ slots[s].reserved = InitialReserved[s] + Cardinality(SeatedIn(bookings, s))
      /\ SumOfDeltas(ledger[s]) = slots[s].reserved - InitialReserved[s]
  BY <1>1 DEF SlotBalanced
<1>3. /\ slots'[s].reserved = InitialReserved[s] + Cardinality(SeatedIn(bookings', s))
      /\ SumOfDeltas(ledger'[s]) = slots'[s].reserved - InitialReserved[s]
  BY <1>1, <1>2
<1> QED  BY <1>3 DEF SlotBalanced, Exists

\* Facts about the rows that every case of the step uses.
LEMMA SeatFacts ==
    ASSUME SeatInv
    PROVE  /\ bookings \in Seq(BookingRow) /\ ledger \in [Slots -> Seq(LedgerEntry)]
           /\ slots \in [Slots -> SlotRow] /\ now \in Instant
           /\ Len(bookings) \in Nat /\ DOMAIN bookings = 1..Len(bookings)
           /\ \A b \in BookingIds : /\ b \in Nat /\ bookings[b] \in BookingRow
                                    /\ bookings[b].slot \in Slots
                                    /\ Exists(bookings[b].slot)
           /\ \A s \in Slots : /\ SlotBalanced(s)
                               /\ slots[s] \in SlotRow
                               /\ slots[s].reserved \in Nat /\ slots[s].capacity \in Nat
                               /\ Exists(s) => slots[s].reserved <= slots[s].capacity
                               /\ Cardinality(SeatedIn(bookings, s)) \in Nat
                               /\ SumOfDeltas(ledger[s]) \in Int
<1> USE DEF SeatInv, TypeOK
<1>1. \A r \in BookingRow : r.slot \in Slots
  BY DEF BookingRow
<1>2. /\ Len(bookings) \in Nat /\ DOMAIN bookings = 1..Len(bookings)
      /\ \A b \in BookingIds : b \in Nat /\ bookings[b] \in BookingRow /\ bookings[b].slot \in Slots
  BY <1>1, LenProperties, ElementOfSeq DEF BookingIds
<1>3. \A b \in BookingIds : Exists(bookings[b].slot)
  BY <1>2 DEF SlotBalanced
<1>4. ASSUME NEW s \in Slots
      PROVE  /\ slots[s].reserved \in Nat /\ slots[s].capacity \in Nat
             /\ Exists(s) => slots[s].reserved <= slots[s].capacity
             /\ Cardinality(SeatedIn(bookings, s)) \in Nat
  BY SeatedFinite DEF SlotRow, SlotBalanced
<1>5. ASSUME NEW s \in Slots
      PROVE  SumOfDeltas(ledger[s]) \in Int
  <2>1. /\ Cardinality(EntriesWith(ledger[s], 1)) \in Nat
        /\ Cardinality(EntriesWith(ledger[s], -1)) \in Nat
    BY EntriesFinite
  <2> QED  BY <2>1 DEF SumOfDeltas
<1> QED  BY <1>2, <1>3, <1>4, <1>5

\* A booking that keeps its slot: what its new status does to the count.
LEMMA StatusUpdate ==
    ASSUME SeatInv, NEW b \in BookingIds, NEW r \in BookingRow, r.slot = bookings[b].slot,
           bookings' = [bookings EXCEPT ![b] = r], NEW s \in Slots
    PROVE  /\ Cardinality(SeatedIn(bookings', s)) =
                 Cardinality(SeatedIn(bookings, s))
                   - (IF bookings[b].slot = s /\ bookings[b].status \in SeatedStatus THEN 1 ELSE 0)
                   + (IF bookings[b].slot = s /\ r.status \in SeatedStatus THEN 1 ELSE 0)
           /\ \A c \in BookingIds' : c \in BookingIds /\ bookings'[c].slot = bookings[c].slot
<1>1. bookings \in Seq(BookingRow) /\ b \in DOMAIN bookings
  BY SeatFacts DEF BookingIds
<1>2. Cardinality(SeatedIn(bookings', s))
        = Cardinality(SeatedIn(bookings, s)) - Sitting(bookings[b], s) + Sitting(r, s)
  BY <1>1, SeatedUpdate
<1>3. \A c \in BookingIds' : c \in BookingIds /\ bookings'[c].slot = bookings[c].slot
  BY <1>1, TableUpdate DEF BookingIds
<1> QED  BY <1>2, <1>3 DEF Sitting, SitsIn

\* A call that leaves every seat as it is: only rows of other tables, slot
\* statuses, versions and capacities, or entries without a delta change.
LEMMA NoSeatMoves ==
    ASSUME SeatInv, NEW s \in Slots, slots' \in [Slots -> SlotRow],
           slots'[s].status # "absent" <=> slots[s].status # "absent",
           slots'[s].reserved = slots[s].reserved, slots'[s].capacity = slots[s].capacity,
           ledger'[s] = ledger[s], UNCHANGED bookings
    PROVE  SlotBalanced(s)'
  BY SeatFacts, UntouchedSlot DEF BookingIds

\* A status change that neither takes nor frees a seat.
LEMMA KeepsSeats ==
    ASSUME SeatInv, NEW b \in BookingIds, NEW to \in BookingStatus,
           bookings' = [bookings EXCEPT ![b] = TransitionBooking(@, to)],
           bookings[b].status \in SeatedStatus <=> to \in SeatedStatus,
           UNCHANGED <<slots, ledger>>, NEW s \in Slots
    PROVE  SlotBalanced(s)'
<1> DEFINE r == TransitionBooking(bookings[b], to)
<1>1. r \in BookingRow /\ r.slot = bookings[b].slot /\ r.status = to
  BY SeatFacts, BookingUpdates
<1>2. /\ Cardinality(SeatedIn(bookings', s)) = Cardinality(SeatedIn(bookings, s))
      /\ \A c \in BookingIds' : c \in BookingIds /\ bookings'[c].slot = bookings[c].slot
  <2>1. bookings' = [bookings EXCEPT ![b] = r]
    OBVIOUS
  <2> HIDE DEF r
  <2>2. /\ Cardinality(SeatedIn(bookings', s)) =
              Cardinality(SeatedIn(bookings, s))
                - (IF bookings[b].slot = s /\ bookings[b].status \in SeatedStatus THEN 1 ELSE 0)
                + (IF bookings[b].slot = s /\ r.status \in SeatedStatus THEN 1 ELSE 0)
        /\ \A c \in BookingIds' : c \in BookingIds /\ bookings'[c].slot = bookings[c].slot
    BY <1>1, <2>1, StatusUpdate
  <2>3. Cardinality(SeatedIn(bookings, s)) \in Nat
    BY SeatFacts
  <2> QED  BY <1>1, <2>2, <2>3
<1> QED  BY <1>2, SeatFacts, UntouchedSlot

\* The seat of a new booking.
LEMMA SeatCreate ==
    ASSUME SeatInv, NEW a, NEW k, NEW g \in Guardians, NEW st \in Students, NEW t \in Slots,
           NEW s \in Slots, CreateHeld(a, k, g, st, t)
    PROVE  SlotBalanced(s)'
<1> DEFINE r == [student |-> st, guardian |-> g, slot |-> t, status |-> Held,
                 holdUntil |-> Later(now, HoldDuration), version |-> 1]
<1>1. r \in BookingRow /\ SitsIn(r, t) /\ \A u \in Slots \ {t} : ~SitsIn(r, u)
  BY SeatFacts, HoldTypes DEF BookingRow, BookingStatus, SitsIn, SeatedStatus
<1>2. bookings' = Append(bookings, r) /\ Exists(t) /\ CanReserve(slots[t])
  BY DEF CreateHeld, CreateOnce, MayCreate
<1> HIDE DEF r
<1>3. /\ slots' = [slots EXCEPT ![t] = ReserveSeat(slots[t])]
      /\ ledger' = AppendLedger(ledger, t, Len(bookings) + 1, "reserve", 1, slots[t].reserved + 1)
  BY DEF CreateHeld
<1>4. Cardinality(SeatedIn(bookings', s)) = Cardinality(SeatedIn(bookings, s)) + Sitting(r, s)
  BY <1>1, <1>2, SeatFacts, SeatedAppend
<1>5. Len(bookings) + 1 \in Nat /\ slots[t].reserved + 1 \in Nat
  BY SeatFacts
<1>6. /\ SumOfDeltas(ledger'[t]) = SumOfDeltas(ledger[t]) + 1
      /\ \A u \in Slots \ {t} : ledger'[u] = ledger[u]
  <2>1. ledger \in [Slots -> Seq(LedgerEntry)] /\ "reserve" \in LedgerKind
    BY SeatFacts DEF LedgerKind
  <2> DEFINE i == Len(bookings) + 1
             n == slots[t].reserved + 1
             l == AppendLedger(ledger, t, i, "reserve", 1, n)
  <2>2. i \in Nat /\ n \in Nat /\ ledger' = l
    BY <1>3, <1>5
  <2> HIDE DEF i, n
  <2>3. SumOfDeltas(l[t]) = SumOfDeltas(ledger[t]) + 1
    BY <2>1, <2>2, LedgerUpdate
  <2>4. \A u \in Slots \ {t} : l[u] = ledger[u]
    BY <2>1 DEF AppendLedger
  <2> QED  BY <2>2, <2>3, <2>4
<1>7. /\ slots'[t].reserved = slots[t].reserved + 1 /\ slots'[t].status = slots[t].status
      /\ slots'[t].capacity = slots[t].capacity
      /\ \A u \in Slots \ {t} : slots'[u] = slots[u]
  BY <1>3, SeatFacts, SlotUpdates
<1>8. slots'[t].reserved <= slots'[t].capacity
  BY <1>2, <1>7, SeatFacts DEF CanReserve
<1>9. CASE s = t
  BY <1>1, <1>2, <1>4, <1>6, <1>7, <1>8, <1>9, BalancedMove DEF Sitting, Exists
<1>10. CASE s # t
  <2>1. Cardinality(SeatedIn(bookings', s)) = Cardinality(SeatedIn(bookings, s))
    BY <1>1, <1>4, <1>10, SeatFacts DEF Sitting
  <2>2. \A b \in BookingIds' : bookings'[b].slot = s => \E c \in BookingIds : bookings[c].slot = s
    <3>1. r.slot = t
      BY <1>1 DEF SitsIn
    <3> QED  BY <1>1, <1>2, <1>10, <3>1, SeatFacts, AppendProperties, LenProperties DEF BookingIds
  <2> QED  BY <1>6, <1>7, <1>10, <2>1, <2>2, SeatFacts, UntouchedSlot
<1> QED  BY <1>9, <1>10

\* A waitlisted booking takes no seat.
LEMMA SeatWaitlist ==
    ASSUME SeatInv, NEW a, NEW k, NEW g \in Guardians, NEW st \in Students, NEW t \in Slots,
           NEW p, NEW s \in Slots, CreateWaitlisted(a, k, g, st, t, p)
    PROVE  SlotBalanced(s)'
<1> DEFINE r == [student |-> st, guardian |-> g, slot |-> t, status |-> Waitlisted,
                 holdUntil |-> NoHold, version |-> 1]
<1>1. r \in BookingRow /\ ~SitsIn(r, s) /\ r.slot = t
  BY HoldTypes
  DEF BookingRow, BookingStatus, SitsIn, SeatedStatus, Waitlisted, Held, Confirmed, CheckedIn
<1>2. bookings' = Append(bookings, r) /\ Exists(t) /\ UNCHANGED <<slots, ledger>>
  BY DEF CreateWaitlisted, CreateOnce, MayCreate
<1> HIDE DEF r
<1>3. Cardinality(SeatedIn(bookings', s)) = Cardinality(SeatedIn(bookings, s))
  BY <1>1, <1>2, SeatFacts, SeatedAppend DEF Sitting
<1>4. \A b \in BookingIds' : bookings'[b].slot = s =>
          Exists(s) \/ \E c \in BookingIds : bookings[c].slot = s
  BY <1>1, <1>2, SeatFacts, AppendProperties, LenProperties DEF BookingIds
<1> QED  BY <1>2, <1>3, <1>4, SeatFacts, UntouchedSlot

\* Two entries appended by one call.
LEMMA TwoEntries ==
    ASSUME NEW l \in Seq(LedgerEntry), NEW e \in LedgerEntry, NEW f \in LedgerEntry
    PROVE  SumOfDeltas(Append(Append(l, e), f)) = SumOfDeltas(l) + e.delta + f.delta
<1>1. Append(l, e) \in Seq(LedgerEntry)
  BY AppendProperties
<1>2. SumOfDeltas(Append(l, e)) = SumOfDeltas(l) + e.delta
  BY SumAppend
<1>3. SumOfDeltas(Append(Append(l, e), f)) = SumOfDeltas(Append(l, e)) + f.delta
  BY <1>1, SumAppend
<1> QED  BY <1>2, <1>3

\* A cancelled seat on a slot where nobody is promoted.
LEMMA SeatCancel ==
    ASSUME SeatInv, NEW a, NEW b \in BookingIds, NEW s \in Slots, CancelSeat(a, b)
    PROVE  SlotBalanced(s)'
<1> DEFINE t == bookings[b].slot
           r == TransitionBooking(bookings[b], Cancelled)
<1>1. /\ t \in Slots /\ Exists(t) /\ b \in Nat /\ bookings[b] \in BookingRow
      /\ slots[t] \in SlotRow /\ CanRelease(slots[t]) /\ bookings[b].status \in {Held, Confirmed}
  BY SeatFacts DEF CancelSeat, GivesSeatBack
<1>2. r \in BookingRow /\ r.slot = t /\ r.status = Cancelled
  BY <1>1, SeatFacts, BookingUpdates DEF BookingStatus
<1>3. /\ bookings' = [bookings EXCEPT ![b] = r]
      /\ slots' = [slots EXCEPT ![t] = ReleaseSeat(slots[t])]
      /\ ledger' = AppendLedger(ledger, t, b, "release", -1, slots[t].reserved - 1)
  BY DEF CancelSeat
<1> HIDE DEF r, t
<1>4. /\ slots'[t].reserved = slots[t].reserved - 1 /\ slots'[t].status = slots[t].status
      /\ slots'[t].capacity = slots[t].capacity /\ slots'[t].reserved \in Nat
      /\ \A u \in Slots : u # t => slots'[u] = slots[u]
  BY <1>1, <1>3, SeatFacts, SlotUpdates
<1>5. /\ SumOfDeltas(ledger'[t]) = SumOfDeltas(ledger[t]) - 1
      /\ \A u \in Slots : u # t => ledger'[u] = ledger[u]
  <2>1. ledger \in [Slots -> Seq(LedgerEntry)] /\ "release" \in LedgerKind
          /\ slots[t].reserved - 1 \in Nat /\ SumOfDeltas(ledger[t]) \in Int
    BY <1>1, <1>4, SeatFacts DEF LedgerKind
  <2> DEFINE e == [booking |-> b, kind |-> "release", delta |-> -1,
                   balanceAfter |-> slots[t].reserved - 1]
  <2>2. e \in LedgerEntry /\ e.delta = -1
    BY <1>1, <2>1 DEF LedgerEntry
  <2>3. ledger' = [ledger EXCEPT ![t] = Append(@, e)]
    BY <1>3 DEF AppendLedger
  <2> HIDE DEF e
  <2>4. SumOfDeltas(ledger'[t]) = SumOfDeltas(ledger[t]) + e.delta
    <3>1. ledger[t] \in Seq(LedgerEntry) /\ ledger'[t] = Append(ledger[t], e)
      BY <1>1, <2>1, <2>3
    <3> QED  BY <2>2, <3>1, SumAppend
  <2>5. \A u \in Slots : u # t => ledger'[u] = ledger[u]
    BY <2>1, <2>3
  <2> QED  BY <2>1, <2>2, <2>4, <2>5
<1>6. /\ Cardinality(SeatedIn(bookings', s)) =
            Cardinality(SeatedIn(bookings, s)) - (IF t = s THEN 1 ELSE 0)
      /\ \A c \in BookingIds' : c \in BookingIds /\ bookings'[c].slot = bookings[c].slot
  <2>1. /\ Cardinality(SeatedIn(bookings', s)) =
              Cardinality(SeatedIn(bookings, s))
                - (IF bookings[b].slot = s /\ bookings[b].status \in SeatedStatus THEN 1 ELSE 0)
                + (IF bookings[b].slot = s /\ r.status \in SeatedStatus THEN 1 ELSE 0)
        /\ \A c \in BookingIds' : c \in BookingIds /\ bookings'[c].slot = bookings[c].slot
    BY <1>2, <1>3, StatusUpdate DEF t
  <2>2. bookings[b].status \in SeatedStatus /\ r.status \notin SeatedStatus
    BY <1>1, <1>2 DEF SeatedStatus, Held, Confirmed, CheckedIn, Cancelled
  <2>3. Cardinality(SeatedIn(bookings, s)) \in Nat
    BY SeatFacts
  <2> QED  BY <2>1, <2>2, <2>3 DEF t
<1>7. CASE s = t
  <2>1. slots'[s].reserved <= slots'[s].capacity
    BY <1>1, <1>4, <1>7, SeatFacts
  <2>2. Exists(s) /\ slots'[s].status # "absent"
    BY <1>1, <1>4, <1>7 DEF Exists
  <2>3. slots[s].reserved \in Nat /\ Cardinality(SeatedIn(bookings, s)) \in Nat
          /\ SumOfDeltas(ledger[s]) \in Int
    BY SeatFacts
  <2>4. /\ slots'[s].reserved = slots[s].reserved + (-1)
        /\ Cardinality(SeatedIn(bookings', s)) = Cardinality(SeatedIn(bookings, s)) + (-1)
        /\ SumOfDeltas(ledger'[s]) = SumOfDeltas(ledger[s]) + (-1)
    BY <1>4, <1>5, <1>6, <1>7, <2>3
  <2> QED  BY <2>1, <2>2, <2>4, BalancedMove
<1>8. CASE s # t
  <2>1. Cardinality(SeatedIn(bookings', s)) = Cardinality(SeatedIn(bookings, s))
    BY <1>6, <1>8, SeatFacts
  <2> QED  BY <1>4, <1>5, <1>6, <1>8, <2>1, SeatFacts, UntouchedSlot
<1> QED  BY <1>7, <1>8

\* A waiting booking takes a free seat of its slot.
LEMMA SeatPromote ==
    ASSUME SeatInv, NEW t \in Slots, NEW n \in BookingIds, NEW s \in Slots, PromoteNext(t, n)
    PROVE  SlotBalanced(s)'
<1> DEFINE r == PromoteWaitlistedBooking(bookings[n])
<1>1. /\ n \in Nat /\ bookings[n] \in BookingRow /\ slots[t] \in SlotRow /\ CanReserve(slots[t])
      /\ bookings[n].status = Waitlisted /\ bookings[n].slot = t
  <2>1. PICK w \in Waiting(t) : w.booking = n
    BY DEF PromoteNext, IsNextWaitlisted
  <2>2. w \in waitlist /\ w.slot = t /\ ~w.promoted /\ bookings[n].status = Waitlisted
    BY <2>1 DEF Waiting, OpenEntries, EntriesOf
  <2>3. bookings[n].slot = t
    BY <2>1, <2>2 DEF SeatInv, WaitlistCoherent
  <2> QED  BY <2>2, <2>3, SeatFacts DEF PromoteNext
<1>2. r \in BookingRow /\ r.slot = t /\ r.status = Held
  BY <1>1, SeatFacts, BookingUpdates
<1>3. /\ bookings' = [bookings EXCEPT ![n] = r]
      /\ slots' = [slots EXCEPT ![t] = ReserveSeat(slots[t])]
      /\ ledger' = AppendLedger(ledger, t, n, "reserve", 1, slots[t].reserved + 1)
  BY DEF PromoteNext
<1> HIDE DEF r
<1>4. /\ slots'[t].reserved = slots[t].reserved + 1 /\ slots'[t].status = slots[t].status
      /\ slots'[t].capacity = slots[t].capacity
      /\ \A u \in Slots : u # t => slots'[u] = slots[u]
  BY <1>1, <1>3, SeatFacts, SlotUpdates
<1>5. /\ SumOfDeltas(ledger'[t]) = SumOfDeltas(ledger[t]) + 1
      /\ \A u \in Slots : u # t => ledger'[u] = ledger[u]
  <2>1. ledger \in [Slots -> Seq(LedgerEntry)] /\ "reserve" \in LedgerKind
          /\ slots[t].reserved + 1 \in Nat
    BY SeatFacts DEF LedgerKind
  <2> DEFINE e == [booking |-> n, kind |-> "reserve", delta |-> 1,
                   balanceAfter |-> slots[t].reserved + 1]
  <2>2. e \in LedgerEntry /\ e.delta = 1
    BY <1>1, <2>1 DEF LedgerEntry
  <2>3. ledger' = [ledger EXCEPT ![t] = Append(@, e)]
    BY <1>3 DEF AppendLedger
  <2> HIDE DEF e
  <2>4. SumOfDeltas(ledger'[t]) = SumOfDeltas(ledger[t]) + e.delta
    <3>1. ledger[t] \in Seq(LedgerEntry) /\ ledger'[t] = Append(ledger[t], e)
      BY <1>1, <2>1, <2>3
    <3> QED  BY <2>2, <3>1, SumAppend
  <2>5. \A u \in Slots : u # t => ledger'[u] = ledger[u]
    BY <2>1, <2>3
  <2> QED  BY <2>1, <2>2, <2>4, <2>5
<1>6. /\ Cardinality(SeatedIn(bookings', s)) =
            Cardinality(SeatedIn(bookings, s)) + (IF t = s THEN 1 ELSE 0)
      /\ \A c \in BookingIds' : c \in BookingIds /\ bookings'[c].slot = bookings[c].slot
  <2>1. /\ Cardinality(SeatedIn(bookings', s)) =
              Cardinality(SeatedIn(bookings, s))
                - (IF bookings[n].slot = s /\ bookings[n].status \in SeatedStatus THEN 1 ELSE 0)
                + (IF bookings[n].slot = s /\ r.status \in SeatedStatus THEN 1 ELSE 0)
        /\ \A c \in BookingIds' : c \in BookingIds /\ bookings'[c].slot = bookings[c].slot
    BY <1>1, <1>2, <1>3, StatusUpdate
  <2>2. bookings[n].status \notin SeatedStatus /\ r.status \in SeatedStatus
    BY <1>1, <1>2 DEF SeatedStatus, Held, Confirmed, CheckedIn, Waitlisted
  <2>3. Cardinality(SeatedIn(bookings, s)) \in Nat
    BY SeatFacts
  <2> QED  BY <1>1, <2>1, <2>2, <2>3
<1>7. CASE s = t
  <2>1. slots'[s].reserved <= slots'[s].capacity
    BY <1>1, <1>4, <1>7, SeatFacts DEF CanReserve
  <2>2. Exists(s) /\ slots'[s].status # "absent"
    BY <1>1, <1>4, <1>7 DEF Exists, CanReserve
  <2>3. /\ slots'[s].reserved = slots[s].reserved + 1
        /\ Cardinality(SeatedIn(bookings', s)) = Cardinality(SeatedIn(bookings, s)) + 1
        /\ SumOfDeltas(ledger'[s]) = SumOfDeltas(ledger[s]) + 1
    BY <1>4, <1>5, <1>6, <1>7
  <2> QED  BY <2>1, <2>2, <2>3, BalancedMove
<1>8. CASE s # t
  <2>1. Cardinality(SeatedIn(bookings', s)) = Cardinality(SeatedIn(bookings, s))
    BY <1>6, <1>8, SeatFacts
  <2> QED  BY <1>4, <1>5, <1>6, <1>8, <2>1, SeatFacts, UntouchedSlot
<1> QED  BY <1>7, <1>8

\* A cancelled seat passed on to the next waiting booking of the slot.
LEMMA SeatCancelAndPromote ==
    ASSUME SeatInv, NEW a, NEW b \in BookingIds, NEW n \in BookingIds, NEW s \in Slots,
           CancelAndPromote(a, b, n)
    PROVE  SlotBalanced(s)'
<1> DEFINE t  == bookings[b].slot
           r  == TransitionBooking(bookings[b], Cancelled)
           q  == PromoteWaitlistedBooking(bookings[n])
           bs == [bookings EXCEPT ![b] = r]
           e  == [booking |-> b, kind |-> "release", delta |-> -1,
                  balanceAfter |-> slots[t].reserved - 1]
           f  == [booking |-> n, kind |-> "reserve", delta |-> 1,
                  balanceAfter |-> slots[t].reserved]
<1>1. /\ t \in Slots /\ Exists(t) /\ b \in Nat /\ n \in Nat
      /\ bookings[b] \in BookingRow /\ bookings[n] \in BookingRow
      /\ slots[t] \in SlotRow /\ CanRelease(slots[t]) /\ bookings[b].status \in {Held, Confirmed}
  BY SeatFacts DEF CancelAndPromote, GivesSeatBack
<1>2. bookings[n].status = Waitlisted /\ bookings[n].slot = t /\ n # b
  <2>1. PICK w \in Waiting(t) : w.booking = n
    BY DEF CancelAndPromote, IsNextWaitlisted
  <2>2. w \in waitlist /\ w.slot = t /\ ~w.promoted /\ bookings[n].status = Waitlisted
    BY <2>1 DEF Waiting, OpenEntries, EntriesOf
  <2>3. bookings[n].slot = t
    BY <2>1, <2>2 DEF SeatInv, WaitlistCoherent
  <2> QED  BY <1>1, <2>2, <2>3 DEF Held, Confirmed, Waitlisted
<1>3. /\ r \in BookingRow /\ r.slot = t /\ r.status = Cancelled
      /\ q \in BookingRow /\ q.slot = t /\ q.status = Held
  BY <1>1, <1>2, SeatFacts, BookingUpdates DEF BookingStatus
<1>4. /\ bookings' = [bookings EXCEPT ![b] = r, ![n] = q]
      /\ slots' = [slots EXCEPT ![t] = ReserveSeat(ReleaseSeat(slots[t]))]
      /\ ledger' = AppendLedger(AppendLedger(ledger, t, b, "release", -1, slots[t].reserved - 1),
                                t, n, "reserve", 1, slots[t].reserved)
  BY DEF CancelAndPromote
<1>5. e \in LedgerEntry /\ e.delta = -1 /\ f \in LedgerEntry /\ f.delta = 1
  <2>1. slots[t].reserved - 1 \in Nat /\ slots[t].reserved \in Nat
    BY <1>1, SeatFacts DEF CanRelease
  <2> QED  BY <1>1, <2>1 DEF LedgerEntry, LedgerKind
<1>6. /\ ledger'[t] = Append(Append(ledger[t], e), f)
      /\ \A u \in Slots : u # t => ledger'[u] = ledger[u]
  BY <1>1, <1>4, SeatFacts DEF AppendLedger
<1> HIDE DEF t, r, q, e, f
<1>7. SumOfDeltas(ledger'[t]) = SumOfDeltas(ledger[t])
  <2>1. ledger[t] \in Seq(LedgerEntry) /\ SumOfDeltas(ledger[t]) \in Int
    BY <1>1, SeatFacts
  <2> QED  BY <1>5, <1>6, <2>1, TwoEntries
<1>8. /\ slots'[t].reserved = slots[t].reserved /\ slots'[t].status = slots[t].status
      /\ slots'[t].capacity = slots[t].capacity
      /\ \A u \in Slots : u # t => slots'[u] = slots[u]
  <2>1. /\ ReleaseSeat(slots[t]) \in SlotRow
        /\ ReleaseSeat(slots[t]).reserved = slots[t].reserved - 1
        /\ ReleaseSeat(slots[t]).capacity = slots[t].capacity
        /\ ReleaseSeat(slots[t]).status = slots[t].status
    BY <1>1, SlotUpdates
  <2>2. slots'[t] = ReserveSeat(ReleaseSeat(slots[t])) /\ slots[t].reserved \in Nat
    BY <1>1, <1>4, SeatFacts
  <2>3. /\ slots'[t].reserved = ReleaseSeat(slots[t]).reserved + 1
        /\ slots'[t].capacity = ReleaseSeat(slots[t]).capacity
        /\ slots'[t].status = ReleaseSeat(slots[t]).status
    BY <2>1, <2>2, SlotUpdates
  <2> QED  BY <1>4, <2>1, <2>2, <2>3, SeatFacts
<1>9. /\ Cardinality(SeatedIn(bookings', s)) = Cardinality(SeatedIn(bookings, s))
      /\ \A c \in BookingIds' : c \in BookingIds /\ bookings'[c].slot = bookings[c].slot
  <2>1. bookings \in Seq(BookingRow) /\ b \in DOMAIN bookings /\ n \in DOMAIN bookings
    BY SeatFacts DEF BookingIds
  <2>2. /\ bs \in Seq(BookingRow) /\ DOMAIN bs = DOMAIN bookings /\ bs[n] = bookings[n]
        /\ \A i \in DOMAIN bs : bs[i] = IF i = b THEN r ELSE bookings[i]
    BY <1>2, <1>3, <2>1, TableUpdate
  <2>3. bookings' = [bs EXCEPT ![n] = q]
    BY <1>4
  <2>4. Cardinality(SeatedIn(bs, s))
          = Cardinality(SeatedIn(bookings, s)) - Sitting(bookings[b], s) + Sitting(r, s)
    BY <1>3, <2>1, SeatedUpdate
  <2> HIDE DEF bs
  <2>5. Cardinality(SeatedIn(bookings', s))
          = Cardinality(SeatedIn(bs, s)) - Sitting(bs[n], s) + Sitting(q, s)
    <3>1. Cardinality(SeatedIn([bs EXCEPT ![n] = q], s))
            = Cardinality(SeatedIn(bs, s)) - Sitting(bs[n], s) + Sitting(q, s)
      <4>1. bs \in Seq(BookingRow) /\ n \in DOMAIN bs /\ q \in BookingRow
        BY <1>3, <2>1, <2>2
      <4> QED  BY <4>1, SeatedUpdate
    <3> QED  BY <2>3, <3>1
  <2>6. /\ Sitting(bookings[b], s) = Sitting(q, s) /\ Sitting(q, s) \in Int
        /\ Sitting(r, s) = 0 /\ Sitting(bs[n], s) = 0
    BY <1>1, <1>2, <1>3, <2>2
    DEF Sitting, SitsIn, SeatedStatus, Held, Confirmed, CheckedIn, Waitlisted, Cancelled, t
  <2>7. Cardinality(SeatedIn(bookings, s)) \in Nat
    BY SeatFacts
  <2>8. Cardinality(SeatedIn(bookings', s)) = Cardinality(SeatedIn(bookings, s))
    BY <2>4, <2>5, <2>6, <2>7
  <2>9. \A c \in BookingIds' : c \in BookingIds /\ bookings'[c].slot = bookings[c].slot
    <3>1. /\ DOMAIN bookings' = DOMAIN bs
          /\ \A i \in DOMAIN bs : bookings'[i] = IF i = n THEN q ELSE bs[i]
      BY <1>3, <2>1, <2>2, <2>3, TableUpdate
    <3> QED  BY <1>2, <1>3, <2>2, <3>1 DEF BookingIds, t
  <2> QED  BY <2>8, <2>9
<1>10. CASE s = t
  <2>1. Exists(s) /\ slots'[s].status # "absent" /\ slots'[s].reserved <= slots'[s].capacity
    BY <1>1, <1>8, <1>10, SeatFacts DEF Exists
  <2>2. /\ slots'[s].reserved = slots[s].reserved + 0
        /\ Cardinality(SeatedIn(bookings', s)) = Cardinality(SeatedIn(bookings, s)) + 0
        /\ SumOfDeltas(ledger'[s]) = SumOfDeltas(ledger[s]) + 0
    BY <1>7, <1>8, <1>9, <1>10, SeatFacts
  <2> QED  BY <2>1, <2>2, BalancedMove
<1>11. CASE s # t
  BY <1>6, <1>8, <1>9, <1>11, SeatFacts, UntouchedSlot
<1> QED  BY <1>10, <1>11

\* A booking moved from one slot to another, or to the slot it is in.
LEMMA SeatReschedule ==
    ASSUME SeatInv, NEW a, NEW b \in BookingIds, NEW to \in Slots, NEW s \in Slots,
           Reschedule(a, b, to)
    PROVE  SlotBalanced(s)'
<1> DEFINE from == bookings[b].slot
           reserved == [slots EXCEPT ![to] = ReserveSeat(@)]
           r == MoveBooking(bookings[b], to)
           e == [booking |-> b, kind |-> "transfer_out", delta |-> -1,
                 balanceAfter |-> reserved[from].reserved - 1]
           f == [booking |-> b, kind |-> "transfer_in", delta |-> 1,
                 balanceAfter |-> reserved[to].reserved]
<1>1. /\ from \in Slots /\ Exists(from) /\ Exists(to) /\ b \in Nat /\ bookings[b] \in BookingRow
      /\ bookings[b].status \in SeatedStatus /\ CanReserve(slots[to]) /\ CanRelease(reserved[from])
  BY SeatFacts DEF Reschedule, MayReschedule, SeatedStatus
<1>2. r \in BookingRow /\ r.slot = to /\ r.status = bookings[b].status
  BY <1>1, SeatFacts, BookingUpdates
<1>3. /\ bookings' = [bookings EXCEPT ![b] = r]
      /\ slots' = [reserved EXCEPT ![from] = ReleaseSeat(@)]
      /\ ledger' = AppendLedger(AppendLedger(ledger, from, b, "transfer_out", -1,
                                             reserved[from].reserved - 1),
                                to, b, "transfer_in", 1, reserved[to].reserved)
  BY DEF Reschedule
<1>4. /\ reserved \in [Slots -> SlotRow]
      /\ reserved[to].reserved = slots[to].reserved + 1
      /\ reserved[to].capacity = slots[to].capacity /\ reserved[to].status = slots[to].status
      /\ \A u \in Slots : u # to => reserved[u] = slots[u]
  BY SeatFacts, SlotUpdates
<1>5. /\ slots'[from].reserved = reserved[from].reserved - 1
      /\ slots'[from].capacity = reserved[from].capacity
      /\ slots'[from].status = reserved[from].status
      /\ \A u \in Slots : u # from => slots'[u] = reserved[u]
  <2> HIDE DEF reserved
  <2>1. reserved[from] \in SlotRow /\ slots'[from] = ReleaseSeat(reserved[from])
    BY <1>1, <1>3, <1>4
  <2>2. /\ ReleaseSeat(reserved[from]).reserved = reserved[from].reserved - 1
        /\ ReleaseSeat(reserved[from]).capacity = reserved[from].capacity
        /\ ReleaseSeat(reserved[from]).status = reserved[from].status
    BY <1>1, <2>1, SlotUpdates
  <2>3. \A u \in Slots : u # from => slots'[u] = reserved[u]
    BY <1>3, <1>4
  <2> QED  BY <2>1, <2>2, <2>3
<1> HIDE DEF reserved
<1>6. e \in LedgerEntry /\ e.delta = -1 /\ f \in LedgerEntry /\ f.delta = 1
  <2>1. reserved[from].reserved \in Nat /\ reserved[to].reserved \in Nat
    BY <1>1, <1>4 DEF SlotRow
  <2>2. reserved[from].reserved - 1 \in Nat
    BY <1>1, <2>1 DEF CanRelease
  <2> QED  BY <1>1, <2>1, <2>2 DEF LedgerEntry, LedgerKind
<1> DEFINE m == [ledger EXCEPT ![from] = Append(@, e)]
<1>7. /\ ledger' = [m EXCEPT ![to] = Append(@, f)]
      /\ m \in [Slots -> Seq(LedgerEntry)] /\ m[from] = Append(ledger[from], e)
      /\ \A u \in Slots : u # from => m[u] = ledger[u]
  <2>1. ledger' = [m EXCEPT ![to] = Append(@, f)]
    BY <1>3 DEF AppendLedger
  <2> HIDE DEF e
  <2>2. Append(ledger[from], e) \in Seq(LedgerEntry) /\ ledger \in [Slots -> Seq(LedgerEntry)]
    BY <1>1, <1>6, SeatFacts, AppendProperties
  <2> QED  BY <1>1, <2>1, <2>2
<1> HIDE DEF from, r, e, f, m
<1>8. /\ Cardinality(SeatedIn(bookings', s)) = Cardinality(SeatedIn(bookings, s))
                                                - (IF from = s THEN 1 ELSE 0) + (IF to = s THEN 1 ELSE 0)
      /\ \A c \in BookingIds' : c \in BookingIds /\ bookings'[c].slot \in {bookings[c].slot, to}
  <2>1. bookings \in Seq(BookingRow) /\ b \in DOMAIN bookings
    BY SeatFacts DEF BookingIds
  <2>2. Cardinality(SeatedIn([bookings EXCEPT ![b] = r], s))
          = Cardinality(SeatedIn(bookings, s)) - Sitting(bookings[b], s) + Sitting(r, s)
    BY <1>2, <2>1, SeatedUpdate
  <2>3. /\ Sitting(bookings[b], s) = (IF from = s THEN 1 ELSE 0)
        /\ Sitting(r, s) = (IF to = s THEN 1 ELSE 0)
    BY <1>1, <1>2 DEF Sitting, SitsIn, from
  <2>4. \A c \in BookingIds' : c \in BookingIds /\ bookings'[c].slot \in {bookings[c].slot, to}
    BY <1>2, <1>3, <2>1, TableUpdate DEF BookingIds
  <2> QED  BY <1>3, <2>2, <2>3, <2>4
<1>9. CASE from = to
  <2>1. /\ slots'[to].reserved = slots[to].reserved /\ slots'[to].capacity = slots[to].capacity
        /\ slots'[to].status = slots[to].status
        /\ \A u \in Slots : u # to => slots'[u] = slots[u]
    <3>1. /\ slots'[to].reserved = reserved[to].reserved - 1
          /\ slots'[to].capacity = reserved[to].capacity /\ slots'[to].status = reserved[to].status
          /\ \A u \in Slots : u # to => slots'[u] = reserved[u]
      BY <1>5, <1>9
    <3>2. slots[to].reserved \in Nat
      BY SeatFacts
    <3> QED  BY <1>4, <3>1, <3>2
  <2>2. /\ ledger'[to] = Append(Append(ledger[to], e), f)
        /\ \A u \in Slots : u # to => ledger'[u] = ledger[u]
    <3>1. m[to] = Append(ledger[to], e) /\ \A u \in Slots : u # to => m[u] = ledger[u]
      BY <1>7, <1>9
    <3>2. ledger'[to] = Append(m[to], f) /\ \A u \in Slots : u # to => ledger'[u] = m[u]
      BY <1>7
    <3> QED  BY <3>1, <3>2
  <2>3. SumOfDeltas(ledger'[to]) = SumOfDeltas(ledger[to])
    <3>1. ledger[to] \in Seq(LedgerEntry) /\ SumOfDeltas(ledger[to]) \in Int
      BY SeatFacts
    <3> QED  BY <1>6, <2>2, <3>1, TwoEntries
  <2>4. /\ Cardinality(SeatedIn(bookings', s)) = Cardinality(SeatedIn(bookings, s))
        /\ \A c \in BookingIds' : bookings'[c].slot = s =>
              Exists(s) \/ \E i \in BookingIds : bookings[i].slot = s
    <3>1. Cardinality(SeatedIn(bookings, s)) \in Nat
      BY SeatFacts
    <3>2. Cardinality(SeatedIn(bookings', s)) = Cardinality(SeatedIn(bookings, s))
      BY <1>8, <1>9, <3>1
    <3> QED  BY <1>1, <1>8, <3>2
  <2>5. CASE s = to
    <3>1. Exists(s) /\ slots'[s].status # "absent" /\ slots'[s].reserved <= slots'[s].capacity
      BY <1>1, <2>1, <2>5, SeatFacts DEF Exists
    <3>2. /\ slots'[s].reserved = slots[s].reserved + 0
          /\ Cardinality(SeatedIn(bookings', s)) = Cardinality(SeatedIn(bookings, s)) + 0
          /\ SumOfDeltas(ledger'[s]) = SumOfDeltas(ledger[s]) + 0
      BY <2>1, <2>3, <2>4, <2>5, SeatFacts
    <3> QED  BY <3>1, <3>2, BalancedMove
  <2>6. CASE s # to
    BY <2>1, <2>2, <2>4, <2>6, SeatFacts, UntouchedSlot
  <2> QED  BY <2>5, <2>6
<1>10. CASE from # to
  <2>1. /\ slots'[to].reserved = slots[to].reserved + 1 /\ slots'[to].capacity = slots[to].capacity
        /\ slots'[to].status = slots[to].status
        /\ slots'[from].reserved = slots[from].reserved - 1
        /\ slots'[from].capacity = slots[from].capacity /\ slots'[from].status = slots[from].status
        /\ \A u \in Slots : u # to /\ u # from => slots'[u] = slots[u]
    BY <1>1, <1>4, <1>5, <1>10
  <2>2. /\ ledger'[from] = Append(ledger[from], e) /\ ledger'[to] = Append(ledger[to], f)
        /\ \A u \in Slots : u # to /\ u # from => ledger'[u] = ledger[u]
    BY <1>1, <1>7, <1>10
  <2>3. /\ SumOfDeltas(ledger'[from]) = SumOfDeltas(ledger[from]) + (-1)
        /\ SumOfDeltas(ledger'[to]) = SumOfDeltas(ledger[to]) + 1
    <3>1. ledger[to] \in Seq(LedgerEntry) /\ ledger[from] \in Seq(LedgerEntry)
      BY <1>1, SeatFacts
    <3> QED  BY <1>6, <2>2, <3>1, SumAppend
  <2>4. CASE s = to
    <3>1. Exists(s) /\ slots'[s].status # "absent" /\ slots'[s].reserved <= slots'[s].capacity
      BY <1>1, <2>1, <2>4, SeatFacts DEF Exists, CanReserve
    <3>2. /\ slots'[s].reserved = slots[s].reserved + 1
          /\ Cardinality(SeatedIn(bookings', s)) = Cardinality(SeatedIn(bookings, s)) + 1
          /\ SumOfDeltas(ledger'[s]) = SumOfDeltas(ledger[s]) + 1
      BY <1>8, <1>10, <2>1, <2>3, <2>4, SeatFacts
    <3> QED  BY <3>1, <3>2, BalancedMove
  <2>5. CASE s = from
    <3>1. Exists(s) /\ slots'[s].status # "absent" /\ slots'[s].reserved <= slots'[s].capacity
      BY <1>1, <2>1, <2>5, SeatFacts DEF Exists
    <3>2. /\ slots'[s].reserved = slots[s].reserved + (-1)
          /\ Cardinality(SeatedIn(bookings', s)) = Cardinality(SeatedIn(bookings, s)) + (-1)
          /\ SumOfDeltas(ledger'[s]) = SumOfDeltas(ledger[s]) + (-1)
      BY <1>1, <1>8, <1>10, <2>1, <2>3, <2>5, SeatFacts, SMTT(20)
    <3> QED  BY <3>1, <3>2, BalancedMove
  <2>6. CASE s # to /\ s # from
    <3>1. /\ Cardinality(SeatedIn(bookings', s)) = Cardinality(SeatedIn(bookings, s))
          /\ \A c \in BookingIds' : bookings'[c].slot = s =>
                Exists(s) \/ \E i \in BookingIds : bookings[i].slot = s
      <4>1. Cardinality(SeatedIn(bookings, s)) \in Nat
        BY SeatFacts
      <4>2. Cardinality(SeatedIn(bookings', s)) = Cardinality(SeatedIn(bookings, s))
        BY <1>8, <2>6, <4>1
      <4> QED  BY <1>1, <1>8, <4>2
    <3> QED  BY <2>1, <2>2, <2>6, <3>1, SeatFacts, UntouchedSlot
  <2> QED  BY <2>4, <2>5, <2>6
<1> QED  BY <1>9, <1>10

\* A new capacity is never below the reserved count.
LEMMA SeatAdjust ==
    ASSUME SeatInv, NEW a, NEW t \in Slots, NEW n \in Capacities, NEW s \in Slots,
           AdjustCapacity(a, t, n)
    PROVE  SlotBalanced(s)'
<1> DEFINE e == [booking |-> 0, kind |-> "adjustment", delta |-> 0,
                 balanceAfter |-> slots[t].reserved]
<1>1. Exists(t) /\ CanAdjust(slots[t], n) /\ slots[t] \in SlotRow /\ UNCHANGED bookings
  BY SeatFacts DEF AdjustCapacity
<1>2. /\ slots'[t].reserved = slots[t].reserved /\ slots'[t].capacity = n
      /\ slots'[t].status = slots[t].status
      /\ \A u \in Slots : u # t => slots'[u] = slots[u]
  BY <1>1, SeatFacts DEF AdjustCapacity, SlotRow
<1>3. e \in LedgerEntry /\ e.delta = 0
  BY SeatFacts DEF LedgerEntry, LedgerKind
<1>4. /\ ledger'[t] = Append(ledger[t], e)
      /\ \A u \in Slots : u # t => ledger'[u] = ledger[u]
  BY SeatFacts DEF AdjustCapacity, AppendLedger
<1> HIDE DEF e
<1>5. SumOfDeltas(ledger'[t]) = SumOfDeltas(ledger[t]) + 0
  <2>1. ledger[t] \in Seq(LedgerEntry)
    BY SeatFacts
  <2> QED  BY <1>3, <1>4, <2>1, SumAppend
<1>6. CASE s = t
  <2>1. Exists(s) /\ slots'[s].status # "absent" /\ slots'[s].reserved <= slots'[s].capacity
    BY <1>1, <1>2, <1>6 DEF Exists, CanAdjust
  <2>2. /\ slots'[s].reserved = slots[s].reserved + 0
        /\ Cardinality(SeatedIn(bookings', s)) = Cardinality(SeatedIn(bookings, s)) + 0
    BY <1>1, <1>2, <1>6, SeatFacts
  <2> QED  BY <1>5, <1>6, <2>1, <2>2, BalancedMove
<1>7. CASE s # t
  BY <1>1, <1>2, <1>4, <1>7, SeatFacts, UntouchedSlot DEF BookingIds
<1> QED  BY <1>6, <1>7

\* A new slot has neither bookings nor ledger entries.
LEMMA SeatCreateSlot ==
    ASSUME SeatInv, NEW a, NEW t \in Slots, NEW n \in Capacities, NEW coach, NEW s \in Slots,
           CreateSlot(a, t, n, coach)
    PROVE  SlotBalanced(s)'
<1>1. ~Exists(t) /\ InitialReserved[t] <= n /\ UNCHANGED <<bookings, ledger>>
  BY DEF CreateSlot
<1>2. /\ slots'[t].reserved = InitialReserved[t] /\ slots'[t].capacity = n
      /\ slots'[t].status = "open"
      /\ \A u \in Slots : u # t => slots'[u] = slots[u]
  BY SeatFacts DEF CreateSlot
<1>3. ledger[t] = << >> /\ \A b \in BookingIds : bookings[b].slot # t
  BY <1>1, SeatFacts DEF SlotBalanced
<1>4. Cardinality(SeatedIn(bookings, t)) = 0 /\ SumOfDeltas(ledger[t]) = 0
  <2>1. SeatedIn(bookings, t) = {}
    BY <1>3 DEF SeatedIn, SitsIn, BookingIds
  <2>2. EntriesWith(ledger[t], 1) = {} /\ EntriesWith(ledger[t], -1) = {}
    BY <1>3 DEF EntriesWith
  <2> QED  BY <2>1, <2>2, FS_EmptySet DEF SumOfDeltas
<1>5. CASE s = t
  <2>1. InitialReserved[t] \in Nat
    BY CapacityAssumption
  <2> QED  BY <1>1, <1>2, <1>4, <1>5, <2>1 DEF SlotBalanced, Exists
<1>6. CASE s # t
  BY <1>1, <1>2, <1>6, SeatFacts, UntouchedSlot DEF BookingIds
<1> QED  BY <1>5, <1>6

\* Closing and reopening slots moves no seat.
LEMMA SeatClosure ==
    ASSUME SeatInv, NEW a, NEW c \in Closures, NEW s \in Slots,
           CreateAndApply(a, c) \/ ReopenClosure(a, c)
    PROVE  SlotBalanced(s)'
<1>1. UNCHANGED <<bookings, ledger>>
  BY DEF CreateAndApply, ReopenClosure
<1>2. slots[s] \in SlotRow
  BY SeatFacts
<1>3. \/ slots'[s] = slots[s]
      \/ slots[s].status = "open" /\ slots'[s] = Close(slots[s])
      \/ slots[s].status = "closed" /\ slots'[s] = Reopen(slots[s])
  BY DEF CreateAndApply, ReopenClosure
<1>4. /\ slots'[s].status # "absent" <=> slots[s].status # "absent"
      /\ slots'[s].reserved = slots[s].reserved /\ slots'[s].capacity = slots[s].capacity
  BY <1>2, <1>3 DEF SlotRow, Close, Reopen
<1> QED  BY <1>1, <1>4, SeatFacts, UntouchedSlot DEF BookingIds

\* Every step keeps every slot in balance.
LEMMA SeatStep == SeatInv /\ [Next]_vars => SeatInv'
<1> SUFFICES ASSUME SeatInv, [Next]_vars PROVE SeatInv'
  OBVIOUS
<1>1. TypeOK' /\ WaitlistCoherent'
  BY TypeStep, CoherentStep DEF SeatInv
<1>2. ASSUME NEW s \in Slots
      PROVE  SlotBalanced(s)'
  <2>1. ASSUME UNCHANGED <<slots, bookings, ledger>>
        PROVE  SlotBalanced(s)'
    BY <2>1, SeatFacts, UntouchedSlot DEF BookingIds
  <2>2. CASE OperatorStep
    BY <2>2, SeatCreateSlot, SeatAdjust, SeatClosure DEF OperatorStep
  <2>3. CASE CreateStep
    BY <2>3, SeatCreate, SeatWaitlist DEF CreateStep
  <2>4. ASSUME NEW b \in BookingIds, NEW a, Confirm(a, b)
        PROVE  SlotBalanced(s)'
    BY <2>4, KeepsSeats DEF Confirm, MayConfirm, SeatedStatus, BookingStatus
  <2>5. ASSUME NEW b \in BookingIds, NEW a, CancelWaiting(a, b)
        PROVE  SlotBalanced(s)'
    BY <2>5, KeepsSeats
    DEF CancelWaiting, SeatedStatus, BookingStatus, Held, Confirmed, CheckedIn, Waitlisted, Cancelled
  <2>6. ASSUME NEW b \in BookingIds, NEW a, Redeem(a, b)
        PROVE  SlotBalanced(s)'
    BY <2>6, KeepsSeats DEF Redeem, SeatedStatus, BookingStatus
  <2>7. CASE BookingStep
    BY <2>4, <2>5, <2>6, <2>7, SeatCancel, SeatCancelAndPromote, SeatReschedule DEF BookingStep
  <2>8. CASE PromotionStep
    BY <2>8, SeatPromote DEF PromotionStep
  <2>9. CASE Tick
    BY <2>1, <2>9 DEF Tick
  <2>10. CASE UNCHANGED vars
    BY <2>1, <2>10 DEF vars
  <2> QED  BY <2>2, <2>3, <2>7, <2>8, <2>9, <2>10 DEF Next
<1> QED  BY <1>1, <1>2 DEF SeatInv

\* The balance of every slot is an invariant.
LEMMA SeatInvariant == Spec => []SeatInv
  BY SeatInit, SeatStep, PTL DEF Spec

\* The reserved counter of a slot is the number of bookings sitting in it, in
\* every database the service calls can produce.
THEOREM SeatsAccounted == Spec => []SeatAccounting
  BY SeatInvariant, SeatInvImplies, PTL

\* No slot is ever oversold.
THEOREM NeverOversold == Spec => []NoOversell
  BY SeatInvariant, SeatInvImplies, PTL

\* The ledger of every slot adds up to its reserved count.
THEOREM LedgerAlwaysFollows == Spec => []LedgerFollowsCounter
  BY SeatInvariant, SeatInvImplies, PTL

-----------------------------------------------------------------------------
(* Closures and coaches.                                                   *)

\* Outside the closure service a slot's status only changes from absent to open.
LEMMA StatusKept ==
    ASSUME TypeOK, [Next]_vars, NEW s \in Slots,
           \A a \in Operators, c \in Closures : ~CreateAndApply(a, c) /\ ~ReopenClosure(a, c)
    PROVE  /\ \/ slots'[s].status = slots[s].status
              \/ ~Exists(s) /\ slots'[s].status = "open"
           /\ UNCHANGED closures
<1> USE DEF TypeOK
<1>1. ASSUME NEW r \in SlotRow
      PROVE  ReserveSeat(r).status = r.status /\ ReleaseSeat(r).status = r.status
  BY DEF ReserveSeat, ReleaseSeat, SlotRow
<1>2. \A r \in SlotRow : /\ ReserveSeat(r) \in SlotRow
                         /\ CanRelease(r) => ReleaseSeat(r) \in SlotRow
  BY SlotUpdates
<1>3. \A b \in BookingIds : bookings[b].slot \in Slots
  <2>1. \A r \in BookingRow : r.slot \in Slots
    BY DEF BookingRow
  <2> QED  BY <2>1, ElementOfSeq, LenProperties DEF BookingIds
<1>4. ASSUME NEW a, NEW t \in Slots, NEW n \in Capacities, NEW coach, CreateSlot(a, t, n, coach)
      PROVE  slots'[s].status = slots[s].status \/ (~Exists(s) /\ slots'[s].status = "open")
  BY <1>4 DEF CreateSlot
<1>5. ASSUME NEW a, NEW t \in Slots, NEW n \in Capacities, AdjustCapacity(a, t, n)
      PROVE  slots'[s].status = slots[s].status
  BY <1>5 DEF AdjustCapacity, SlotRow
<1>6. ASSUME NEW t \in Slots, slots' = [slots EXCEPT ![t] = ReserveSeat(@)]
      PROVE  slots'[s].status = slots[s].status
  BY <1>1, <1>6
<1>7. ASSUME NEW t \in Slots, slots' = [slots EXCEPT ![t] = ReleaseSeat(@)]
      PROVE  slots'[s].status = slots[s].status
  BY <1>1, <1>7
<1>8. ASSUME NEW t \in Slots, CanRelease(slots[t]),
             slots' = [slots EXCEPT ![t] = ReserveSeat(ReleaseSeat(@))]
      PROVE  slots'[s].status = slots[s].status
  BY <1>1, <1>2, <1>8
<1>9. ASSUME NEW t \in Slots, NEW u \in Slots,
             slots' = [[slots EXCEPT ![t] = ReserveSeat(@)] EXCEPT ![u] = ReleaseSeat(@)]
      PROVE  slots'[s].status = slots[s].status
  <2> DEFINE reserved == [slots EXCEPT ![t] = ReserveSeat(@)]
  <2>1. reserved \in [Slots -> SlotRow] /\ reserved[s].status = slots[s].status
    BY <1>1, <1>2
  <2>2. slots' = [reserved EXCEPT ![u] = ReleaseSeat(@)]
    BY <1>9
  <2> HIDE DEF reserved
  <2> QED  BY <1>1, <2>1, <2>2
<1>10. CASE OperatorStep
  BY <1>4, <1>5, <1>10 DEF OperatorStep, CreateSlot, AdjustCapacity
<1>11. CASE CreateStep
  BY <1>6, <1>11 DEF CreateStep, CreateHeld, CreateWaitlisted, CreateOnce
<1>12. CASE BookingStep
  <2>1. PICK b \in BookingIds, a \in Guardians \cup Students \cup Operators \cup Coaches :
          \/ Confirm(a, b) \/ CancelWaiting(a, b) \/ CancelSeat(a, b)
          \/ \E n \in BookingIds : CancelAndPromote(a, b, n)
          \/ \E to \in Slots : Reschedule(a, b, to)
          \/ Redeem(a, b)
    BY <1>12 DEF BookingStep
  <2>2. CASE Confirm(a, b) \/ CancelWaiting(a, b) \/ Redeem(a, b)
    BY <2>2 DEF Confirm, CancelWaiting, Redeem
  <2>3. CASE CancelSeat(a, b)
    BY <1>3, <1>7, <2>3 DEF CancelSeat
  <2>4. ASSUME NEW n \in BookingIds, CancelAndPromote(a, b, n)
        PROVE  slots'[s].status = slots[s].status /\ UNCHANGED closures
    BY <1>3, <1>8, <2>4 DEF CancelAndPromote, GivesSeatBack
  <2>5. ASSUME NEW to \in Slots, Reschedule(a, b, to)
        PROVE  slots'[s].status = slots[s].status /\ UNCHANGED closures
    BY <1>3, <1>9, <2>5 DEF Reschedule
  <2> QED  BY <2>1, <2>2, <2>3, <2>4, <2>5
<1>13. CASE PromotionStep
  BY <1>6, <1>13 DEF PromotionStep, PromoteNext
<1>14. CASE Tick \/ UNCHANGED vars
  BY <1>14 DEF Tick, vars
<1> QED  BY <1>10, <1>11, <1>12, <1>13, <1>14 DEF Next

\* No order of overlapping closures, reopenings and slot creations leaves a
\* slot closed without an applied closure over it.
THEOREM ClosedAlwaysHasCause == Spec => []ClosedHasCause
<1>1. Init => ClosedHasCause
  BY DEF Init, ClosedHasCause
<1>2. TypeOK /\ ClosedHasCause /\ [Next]_vars => ClosedHasCause'
  <2> SUFFICES ASSUME TypeOK, ClosedHasCause, [Next]_vars, NEW s \in Slots,
                      slots'[s].status = "closed"
               PROVE  StillClosed(closures, s)'
    BY DEF ClosedHasCause
  <2>1. slots[s] \in SlotRow /\ closures \in [Closures -> ClosureStatus]
    BY DEF TypeOK
  <2>2. ASSUME NEW a \in Operators, NEW c \in Closures, CreateAndApply(a, c)
        PROVE  StillClosed(closures, s)'
    <3>1. closures' = [closures EXCEPT ![c] = "applied"]
      BY <2>2 DEF CreateAndApply
    <3>2. Covers(c, s) \/ slots[s].status = "closed"
      BY <2>1, <2>2 DEF CreateAndApply
    <3> QED  BY <2>1, <3>1, <3>2 DEF ClosedHasCause, StillClosed
  <2>3. ASSUME NEW a \in Operators, NEW c \in Closures, ReopenClosure(a, c)
        PROVE  StillClosed(closures, s)'
    <3>1. closures' = [closures EXCEPT ![c] = "reopened"]
      BY <2>3 DEF ReopenClosure
    <3>2. /\ slots'[s] = IF Covers(c, s) /\ slots[s].status = "closed" /\ ~StillClosed(closures', s)
                         THEN Reopen(slots[s]) ELSE slots[s]
          /\ Reopen(slots[s]).status = "open"
      BY <2>1, <2>3 DEF ReopenClosure, Reopen, SlotRow
    <3>3. slots[s].status = "closed" /\ (Covers(c, s) => StillClosed(closures', s))
      BY <3>2
    <3>4. PICK d \in Closures : closures[d] = "applied" /\ Covers(d, s)
      BY <3>3 DEF ClosedHasCause, StillClosed
    <3>5. CASE Covers(c, s)
      BY <3>3, <3>5 DEF StillClosed
    <3>6. CASE ~Covers(c, s)
      BY <2>1, <3>1, <3>4, <3>6 DEF StillClosed
    <3> QED  BY <3>5, <3>6
  <2>4. ASSUME \A a \in Operators, c \in Closures : ~CreateAndApply(a, c) /\ ~ReopenClosure(a, c)
        PROVE  StillClosed(closures, s)'
    BY <2>4, StatusKept DEF ClosedHasCause, StillClosed
  <2> QED  BY <2>2, <2>3, <2>4
<1> QED  BY <1>1, <1>2, TypeInit, TypeStep, PTL DEF Spec

\* Two slots of a coach, at whatever venues, overlap at most within the second in
\* which one ends and the other begins: the texts AssignCoach compares are in
\* the order of times from one second to the next.
THEOREM CoachOverlapsBounded == Spec => []CoachOverlapsBelowSecond
<1>1. Init => CoachOverlapsBelowSecond
  BY DEF Init, CoachOverlapsBelowSecond
<1>2. TypeOK /\ CoachOverlapsBelowSecond /\ [Next]_vars => CoachOverlapsBelowSecond'
  <2> SUFFICES ASSUME TypeOK, CoachOverlapsBelowSecond, [Next]_vars PROVE CoachOverlapsBelowSecond'
    OBVIOUS
  <2>1. ASSUME NEW a \in Operators, NEW s \in Slots, NEW n \in Capacities, NEW coach \in Coaches,
               CreateSlot(a, s, n, coach)
        PROVE  CoachOverlapsBelowSecond'
    <3>1. assignments' = assignments \cup {<<coach, s>>} /\ CoachFree(coach, s)
      BY <2>1 DEF CreateSlot
    <3>2. \A t \in Slots : SlotWindow[t].starts.sec \in Nat /\ SlotWindow[t].ends.sec \in Nat
      BY WindowAssumption DEF Window, Instant
    <3>3. ASSUME NEW x \in assignments, x[1] = coach
          PROVE  \/ SlotWindow[x[2]].ends.sec <= SlotWindow[s].starts.sec
                 \/ SlotWindow[s].ends.sec <= SlotWindow[x[2]].starts.sec
      <4>1. x[2] \in Slots
        BY DEF TypeOK
      <4>2. \/ ~TextBefore(SlotWindow[x[2]].starts, SlotWindow[s].ends)
            \/ ~TextBefore(SlotWindow[s].starts, SlotWindow[x[2]].ends)
        BY <3>1, <3>3 DEF CoachFree, TextsOverlap
      <4> QED  BY <3>2, <4>1, <4>2 DEF TextBefore
    <3> QED  BY <3>1, <3>3 DEF CoachOverlapsBelowSecond
  <2>2. CASE UNCHANGED assignments
    BY <2>2 DEF CoachOverlapsBelowSecond
  <2>3. CASE CreateStep
    BY <2>2, <2>3 DEF CreateStep, CreateHeld, CreateWaitlisted, CreateOnce
  <2>4. CASE BookingStep
    BY <2>2, <2>4
    DEF BookingStep, Confirm, CancelWaiting, CancelSeat, CancelAndPromote, Reschedule, Redeem
  <2>5. CASE OperatorStep
    BY <2>1, <2>2, <2>5 DEF OperatorStep, AdjustCapacity, CreateAndApply, ReopenClosure
  <2>6. CASE PromotionStep
    BY <2>2, <2>6 DEF PromotionStep, PromoteNext
  <2>7. CASE Tick \/ UNCHANGED vars
    BY <2>2, <2>7 DEF Tick, vars
  <2> QED  BY <2>3, <2>4, <2>5, <2>6, <2>7 DEF Next
<1> QED  BY <1>1, <1>2, TypeInit, TypeStep, PTL DEF Spec
=============================================================================
