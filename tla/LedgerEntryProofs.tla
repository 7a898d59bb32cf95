-------------------------- MODULE LedgerEntryProofs --------------------------
(***************************************************************************)
(* Proofs about the single entries of the seat ledger: that they balance   *)
(* for every booking, and that the running balance is wrong at most while  *)
(* the newest entry is that of a booking moved into its own slot.  Both    *)
(* rest on one description of a step, EntriesChange.                       *)
(***************************************************************************)
EXTENDS RegisterProofs

-----------------------------------------------------------------------------
(* The entries of one booking.                                             *)

Mine(l, b, d) == { i \in EntriesWith(l, d) : l[i].booking = b }
Balance(l, b) == Cardinality(Mine(l, b, 1)) - Cardinality(Mine(l, b, -1))

\* Appending an entry adds one to the count of its booking's entries like it.
LEMMA MineAppend ==
    ASSUME NEW l \in Seq(LedgerEntry), NEW e \in LedgerEntry, NEW b, NEW d
    PROVE  /\ Cardinality(Mine(l, b, d)) \in Nat
           /\ Cardinality(Mine(Append(l, e), b, d))
                = Cardinality(Mine(l, b, d)) + IF e.delta = d /\ e.booking = b THEN 1 ELSE 0
<1> DEFINE n == Len(l) + 1
<1>1. /\ Len(l) \in Nat /\ DOMAIN l = 1..Len(l)
      /\ DOMAIN Append(l, e) = 1..n
      /\ \A i \in 1..Len(l) : Append(l, e)[i] = l[i]
      /\ Append(l, e)[n] = e
  BY LenProperties, AppendProperties
<1>2. IsFiniteSet(Mine(l, b, d)) /\ Cardinality(Mine(l, b, d)) \in Nat
  <2>1. Mine(l, b, d) \in SUBSET EntriesWith(l, d)
    BY DEF Mine
  <2> QED  BY <2>1, EntriesFinite, FS_Subset, FS_CardinalityType
<1>3. n \notin Mine(l, b, d)
  BY <1>1 DEF Mine, EntriesWith
<1>4. CASE e.delta = d /\ e.booking = b
  <2>1. Mine(Append(l, e), b, d) = Mine(l, b, d) \cup {n}
    BY <1>1, <1>4 DEF Mine, EntriesWith
  <2>2. Cardinality(Mine(Append(l, e), b, d)) = Cardinality(Mine(l, b, d)) + 1
    BY <2>1, <1>2, <1>3, FS_AddElement
  <2> QED  BY <2>2, <1>2, <1>4
<1>5. CASE ~(e.delta = d /\ e.booking = b)
  <2>1. Mine(Append(l, e), b, d) = Mine(l, b, d)
    BY <1>1, <1>5 DEF Mine, EntriesWith
  <2> QED  BY <2>1, <1>2, <1>5
<1> QED  BY <1>2, <1>4, <1>5

\* Appending an entry adds its delta to the balance of its booking.
LEMMA BalanceAppend ==
    ASSUME NEW l \in Seq(LedgerEntry), NEW e \in LedgerEntry, NEW b
    PROVE  /\ Balance(l, b) \in Int
           /\ Balance(Append(l, e), b) = Balance(l, b) + IF e.booking = b THEN e.delta ELSE 0
<1>1. e.delta \in {-1, 0, 1}
  BY DEF LedgerEntry
<1>2. /\ Cardinality(Mine(l, b, 1)) \in Nat /\ Cardinality(Mine(l, b, -1)) \in Nat
      /\ Cardinality(Mine(Append(l, e), b, 1))
            = Cardinality(Mine(l, b, 1)) + IF e.delta = 1 /\ e.booking = b THEN 1 ELSE 0
      /\ Cardinality(Mine(Append(l, e), b, -1))
            = Cardinality(Mine(l, b, -1)) + IF e.delta = -1 /\ e.booking = b THEN 1 ELSE 0
  BY MineAppend
<1> QED  BY <1>1, <1>2 DEF Balance

-----------------------------------------------------------------------------
(* What a step does to the ledger of a slot.                               *)

\* Entry e records how the seats S of its slot become T.
Records(e, S, T) ==
    \/ e.delta = 0 /\ T = S
    \/ e.delta = 1 /\ e.booking \notin S /\ T = S \cup {e.booking}
    \/ e.delta = -1 /\ e.booking \in S /\ T = S \ {e.booking}

\* The two entries of a move out of a slot and into it again.
OutAndIn(e, f) == /\ e.kind = "transfer_out" /\ f.kind = "transfer_in"
                  /\ e.booking = f.booking

NoEntry(s) ==
    /\ ledger'[s] = ledger[s]
    /\ SeatedIn(bookings', s) = SeatedIn(bookings, s)
    /\ slots'[s].reserved = slots[s].reserved \/ ledger[s] = << >>

OneEntry(s) ==
    \E e \in LedgerEntry :
        /\ ledger'[s] = Append(ledger[s], e)
        /\ Records(e, SeatedIn(bookings, s), SeatedIn(bookings', s))
        /\ e.balanceAfter = slots'[s].reserved

TwoEntriesMore(s) ==
    \E e, f \in LedgerEntry :
        LET between == SeatedIn(bookings, s) \ {e.booking} IN
        /\ ledger'[s] = Append(Append(ledger[s], e), f)
        /\ Records(e, SeatedIn(bookings, s), between)
        /\ Records(f, between, SeatedIn(bookings', s))
        /\ f.balanceAfter = slots'[s].reserved \/ OutAndIn(e, f)

EntriesChange(s) == NoEntry(s) \/ OneEntry(s) \/ TwoEntriesMore(s)

\* A slot the call does not touch.
LEMMA SlotLeftAlone ==
    ASSUME NEW s \in Slots, ledger'[s] = ledger[s], Seated(s)' = Seated(s),
           slots'[s].reserved = slots[s].reserved
    PROVE  EntriesChange(s)
  BY DEF EntriesChange, NoEntry, Seated

\* Facts about the rows that every case uses.
LEMMA EntryFacts ==
    ASSUME RegisterInv
    PROVE  /\ TypeOK /\ WaitlistCoherent
           /\ ledger \in [Slots -> Seq(LedgerEntry)] /\ slots \in [Slots -> SlotRow]
           /\ Len(bookings) \in Nat
           /\ \A b \in BookingIds : /\ b \in Nat /\ bookings[b] \in BookingRow
                                    /\ bookings[b].slot \in Slots
           /\ \A s \in Slots : slots[s] \in SlotRow /\ slots[s].reserved \in Nat
  BY SeatFacts DEF RegisterInv, SeatInv

-----------------------------------------------------------------------------
(* The steps that write entries.                                           *)

LEMMA CreateWrites ==
    ASSUME RegisterInv, NEW a, NEW k, NEW g \in Guardians, NEW st \in Students, NEW t \in Slots,
           CreateHeld(a, k, g, st, t), NEW s \in Slots
    PROVE  EntriesChange(s)
<1> USE EntryFacts
<1> DEFINE r == [student |-> st, guardian |-> g, slot |-> t, status |-> Held,
                 holdUntil |-> Later(now, HoldDuration), version |-> 1]
           n == Len(bookings) + 1
<1>1. r \in BookingRow /\ \A u \in Slots : SitsIn(r, u) <=> u = t
  BY HoldTypes DEF BookingRow, BookingStatus, TypeOK, SitsIn, SeatedStatus, Held
<1>2. /\ bookings' = Append(bookings, r)
      /\ slots' = [slots EXCEPT ![t] = ReserveSeat(@)]
      /\ ledger' = AppendLedger(ledger, t, n, "reserve", 1, slots[t].reserved + 1)
  BY DEF CreateHeld, CreateOnce
<1> HIDE DEF r
<1>3. Seated(s)' = IF s = t THEN Seated(s) \cup {n} ELSE Seated(s)
  BY <1>1, <1>2, ViewAppend
<1>4. n \notin Seated(s) /\ n \in Nat
  BY DEF Seated, SeatedIn, BookingIds
<1>5. \A u \in Slots : slots'[u].reserved = slots[u].reserved + IF u = t THEN 1 ELSE 0
  BY <1>2, SlotUpdates
<1> HIDE DEF n
<1> DEFINE e == [booking |-> n, kind |-> "reserve", delta |-> 1,
                 balanceAfter |-> slots[t].reserved + 1]
<1>6. /\ e \in LedgerEntry
      /\ e.booking = n /\ e.delta = 1 /\ e.balanceAfter = slots[t].reserved + 1
      /\ ledger'[t] = Append(ledger[t], e)
      /\ \A u \in Slots \ {t} : ledger'[u] = ledger[u]
  <2>1. e \in LedgerEntry
    BY <1>2, <1>4 DEF LedgerEntry, LedgerKind
  <2>2. ledger' = [ledger EXCEPT ![t] = Append(ledger[t], e)]
    BY <1>2 DEF AppendLedger
  <2> QED  BY <2>1, <2>2
<1> HIDE DEF e
<1>7. CASE s # t
  BY <1>3, <1>5, <1>6, <1>7, SlotLeftAlone
<1>8. CASE s = t
  BY <1>3, <1>4, <1>5, <1>6, <1>8 DEF EntriesChange, OneEntry, Records, Seated
<1> QED  BY <1>7, <1>8

LEMMA CancelWrites ==
    ASSUME RegisterInv, NEW a, NEW b \in BookingIds, CancelSeat(a, b), NEW s \in Slots
    PROVE  EntriesChange(s)
<1> USE EntryFacts
<1>0. PICK t \in Slots : t = bookings[b].slot
  OBVIOUS
<1> DEFINE r == TransitionBooking(bookings[b], Cancelled)
<1>1. /\ bookings' = [bookings EXCEPT ![b] = r] /\ bookings[b].status \in {Held, Confirmed}
      /\ slots' = [slots EXCEPT ![t] = ReleaseSeat(@)] /\ CanRelease(slots[t])
      /\ ledger' = AppendLedger(ledger, t, b, "release", -1, slots[t].reserved - 1)
  BY <1>0 DEF CancelSeat, GivesSeatBack
<1>2. r.status = Cancelled
  BY RowUpdates
<1>3. \A u \in Slots : ~SitsIn(r, u) /\ (SitsIn(bookings[b], u) <=> u = t)
  BY <1>0, <1>1, <1>2 DEF SitsIn, SeatedStatus, Held, Confirmed, CheckedIn, Cancelled
<1> HIDE DEF r
<1>4. /\ b \in Seated(t)
      /\ Seated(s)' = IF s = t THEN Seated(s) \ {b} ELSE Seated(s)
  BY <1>1, <1>3, ViewCases
<1>5. /\ \A u \in Slots : slots'[u].reserved = IF u = t THEN slots[u].reserved - 1 ELSE slots[u].reserved
      /\ slots[t].reserved - 1 \in Nat
  BY <1>1, SlotUpdates DEF CanRelease
<1> DEFINE e == [booking |-> b, kind |-> "release", delta |-> -1,
                 balanceAfter |-> slots[t].reserved - 1]
<1>6. /\ e \in LedgerEntry
      /\ e.booking = b /\ e.delta = -1 /\ e.balanceAfter = slots[t].reserved - 1
      /\ ledger'[t] = Append(ledger[t], e)
      /\ \A u \in Slots \ {t} : ledger'[u] = ledger[u]
  <2>1. e \in LedgerEntry
    BY <1>1, <1>5 DEF LedgerEntry, LedgerKind
  <2>2. ledger' = [ledger EXCEPT ![t] = Append(ledger[t], e)]
    BY <1>1 DEF AppendLedger
  <2> QED  BY <2>1, <2>2
<1> HIDE DEF e
<1>7. CASE s # t
  BY <1>4, <1>5, <1>6, <1>7, SlotLeftAlone
<1>8. CASE s = t
  BY <1>4, <1>5, <1>6, <1>8 DEF EntriesChange, OneEntry, Records, Seated
<1> QED  BY <1>7, <1>8

LEMMA PromoteWrites ==
    ASSUME RegisterInv, NEW t \in Slots, NEW n \in BookingIds, PromoteNext(t, n), NEW s \in Slots
    PROVE  EntriesChange(s)
<1> USE EntryFacts
<1> DEFINE q == PromoteWaitlistedBooking(bookings[n])
<1>1. /\ bookings' = [bookings EXCEPT ![n] = q] /\ IsNextWaitlisted(t, n)
      /\ slots' = [slots EXCEPT ![t] = ReserveSeat(@)]
      /\ ledger' = AppendLedger(ledger, t, n, "reserve", 1, slots[t].reserved + 1)
  BY DEF PromoteNext
<1>2. /\ q.status = Held /\ q.slot = bookings[n].slot
      /\ bookings[n].status = Waitlisted /\ bookings[n].slot = t
  BY <1>1, RowUpdates, FoundInOwnSlot
<1>3. \A u \in Slots : ~SitsIn(bookings[n], u) /\ (SitsIn(q, u) <=> u = t)
  BY <1>2 DEF SitsIn, SeatedStatus, Held, Confirmed, CheckedIn, Waitlisted
<1> HIDE DEF q
<1>4. /\ n \notin Seated(t)
      /\ Seated(s)' = IF s = t THEN Seated(s) \cup {n} ELSE Seated(s)
  BY <1>1, <1>3, ViewCases
<1>5. \A u \in Slots : slots'[u].reserved = slots[u].reserved + IF u = t THEN 1 ELSE 0
  BY <1>1, SlotUpdates
<1> DEFINE e == [booking |-> n, kind |-> "reserve", delta |-> 1,
                 balanceAfter |-> slots[t].reserved + 1]
<1>6. /\ e \in LedgerEntry
      /\ e.booking = n /\ e.delta = 1 /\ e.balanceAfter = slots[t].reserved + 1
      /\ ledger'[t] = Append(ledger[t], e)
      /\ \A u \in Slots \ {t} : ledger'[u] = ledger[u]
  <2>1. e \in LedgerEntry
    BY <1>1 DEF LedgerEntry, LedgerKind
  <2>2. ledger' = [ledger EXCEPT ![t] = Append(ledger[t], e)]
    BY <1>1 DEF AppendLedger
  <2> QED  BY <2>1, <2>2
<1> HIDE DEF e
<1>7. CASE s # t
  BY <1>4, <1>5, <1>6, <1>7, SlotLeftAlone, SMTT(20)
<1>8. CASE s = t
  BY <1>4, <1>5, <1>6, <1>8 DEF EntriesChange, OneEntry, Records, Seated
<1> QED  BY <1>7, <1>8

LEMMA AdjustWrites ==
    ASSUME RegisterInv, NEW a, NEW t \in Slots, NEW n \in Capacities, AdjustCapacity(a, t, n),
           NEW s \in Slots
    PROVE  EntriesChange(s)
<1> USE EntryFacts
<1>1. /\ UNCHANGED bookings
      /\ slots' = [slots EXCEPT ![t].capacity = n, ![t].version = @ + 1]
      /\ ledger' = AppendLedger(ledger, t, 0, "adjustment", 0, slots[t].reserved)
  BY DEF AdjustCapacity
<1>2. Seated(s)' = Seated(s)
  BY <1>1, NobodyMoves
<1>3. \A u \in Slots : slots'[u].reserved = slots[u].reserved
  BY <1>1 DEF SlotRow
<1> DEFINE e == [booking |-> 0, kind |-> "adjustment", delta |-> 0,
                 balanceAfter |-> slots[t].reserved]
<1>4. /\ e \in LedgerEntry
      /\ e.booking = 0 /\ e.delta = 0 /\ e.balanceAfter = slots[t].reserved
      /\ ledger'[t] = Append(ledger[t], e)
      /\ \A u \in Slots \ {t} : ledger'[u] = ledger[u]
  <2>1. e \in LedgerEntry
    BY <1>1 DEF LedgerEntry, LedgerKind
  <2>2. ledger' = [ledger EXCEPT ![t] = Append(ledger[t], e)]
    BY <1>1 DEF AppendLedger
  <2> QED  BY <2>1, <2>2
<1> HIDE DEF e
<1>5. CASE s # t
  BY <1>2, <1>3, <1>4, <1>5, SlotLeftAlone
<1>6. CASE s = t
  BY <1>2, <1>3, <1>4, <1>6 DEF EntriesChange, OneEntry, Records, Seated
<1> QED  BY <1>5, <1>6

LEMMA HandOnWrites ==
    ASSUME RegisterInv, NEW a, NEW b \in BookingIds, NEW n \in BookingIds, CancelAndPromote(a, b, n),
           NEW s \in Slots
    PROVE  EntriesChange(s)
<1> USE EntryFacts
<1>0. PICK t \in Slots : t = bookings[b].slot
  OBVIOUS
<1>1. /\ slots' = [slots EXCEPT ![t] = ReserveSeat(ReleaseSeat(@))] /\ CanRelease(slots[t])
      /\ ledger' = AppendLedger(AppendLedger(ledger, t, b, "release", -1, slots[t].reserved - 1),
                                t, n, "reserve", 1, slots[t].reserved)
  BY <1>0 DEF CancelAndPromote, GivesSeatBack
<1>2. /\ n # b /\ b \in Seated(t) /\ n \notin Seated(t)
      /\ Seated(t)' = (Seated(t) \ {b}) \cup {n}
      /\ s # t => Seated(s)' = Seated(s)
  BY <1>0, HandedOn, ZenonT(40)
<1>3. \A u \in Slots : slots'[u].reserved = slots[u].reserved
  <2>1. ReserveSeat(ReleaseSeat(slots[t])).reserved = slots[t].reserved
    <3>1. ReleaseSeat(slots[t]) \in SlotRow /\ ReleaseSeat(slots[t]).reserved = slots[t].reserved - 1
      BY <1>1, SlotUpdates
    <3>2. ReserveSeat(ReleaseSeat(slots[t])).reserved = slots[t].reserved - 1 + 1
      BY <3>1, SlotUpdates
    <3> QED  BY <3>2
  <2> QED  BY <1>1, <2>1
<1> DEFINE e == [booking |-> b, kind |-> "release", delta |-> -1,
                 balanceAfter |-> slots[t].reserved - 1]
           f == [booking |-> n, kind |-> "reserve", delta |-> 1,
                 balanceAfter |-> slots[t].reserved]
<1>4. /\ e \in LedgerEntry /\ e.booking = b /\ e.delta = -1
      /\ f \in LedgerEntry /\ f.booking = n /\ f.delta = 1 /\ f.balanceAfter = slots[t].reserved
  BY <1>1 DEF LedgerEntry, LedgerKind, CanRelease
<1>5. ledger' = [[ledger EXCEPT ![t] = Append(@, e)] EXCEPT ![t] = Append(@, f)]
  BY <1>1 DEF AppendLedger
<1> HIDE DEF e, f
<1>6. /\ ledger'[t] = Append(Append(ledger[t], e), f)
      /\ \A u \in Slots \ {t} : ledger'[u] = ledger[u]
  BY <1>5
<1>7. CASE s # t
  BY <1>2, <1>3, <1>6, <1>7, SlotLeftAlone
<1>8. CASE s = t
  <2>1. Records(e, Seated(t), Seated(t) \ {e.booking})
    BY <1>2, <1>4 DEF Records
  <2>2. Records(f, Seated(t) \ {e.booking}, Seated(t)')
    BY <1>2, <1>4 DEF Records
  <2> QED  BY <1>3, <1>4, <1>6, <1>8, <2>1, <2>2 DEF EntriesChange, TwoEntriesMore, Seated
<1> QED  BY <1>7, <1>8

LEMMA MoveWrites ==
    ASSUME RegisterInv, NEW a, NEW b \in BookingIds, NEW to \in Slots, Reschedule(a, b, to),
           NEW s \in Slots
    PROVE  EntriesChange(s)
<1> USE EntryFacts
<1>0. PICK from \in Slots : from = bookings[b].slot
  OBVIOUS
<1> DEFINE r == MoveBooking(bookings[b], to)
           reserved == [slots EXCEPT ![to] = ReserveSeat(@)]
           out == reserved[from].reserved - 1
           in == reserved[to].reserved
           e == [booking |-> b, kind |-> "transfer_out", delta |-> -1, balanceAfter |-> out]
           f == [booking |-> b, kind |-> "transfer_in", delta |-> 1, balanceAfter |-> in]
<1>1. /\ bookings' = [bookings EXCEPT ![b] = r] /\ bookings[b].status \in {Held, Confirmed}
      /\ slots' = [reserved EXCEPT ![from] = ReleaseSeat(@)] /\ CanRelease(reserved[from])
      /\ ledger' = AppendLedger(AppendLedger(ledger, from, b, "transfer_out", -1, out),
                                to, b, "transfer_in", 1, in)
  BY <1>0 DEF Reschedule, MayReschedule
<1>2. r.status = bookings[b].status /\ r.slot = to
  BY RowUpdates
<1>3. \A t \in Slots : /\ SitsIn(r, t) <=> t = to
                       /\ SitsIn(bookings[b], t) <=> t = from
  BY <1>0, <1>1, <1>2 DEF SitsIn, SeatedStatus
<1>4. reserved \in [Slots -> SlotRow] /\ in = slots[to].reserved + 1
  BY SlotUpdates
<1>5. \A u \in Slots : slots'[u].reserved = IF u = from THEN reserved[u].reserved - 1
                                                        ELSE reserved[u].reserved
  BY <1>1, <1>4, SlotUpdates
<1>6. out \in Nat /\ in \in Nat
  <2>1. /\ reserved[from].reserved \in Nat /\ reserved[from].reserved > 0
        /\ reserved[to].reserved \in Nat
    <3>1. reserved[from] \in SlotRow /\ reserved[to] \in SlotRow
      BY <1>4
    <3>2. CanRelease(reserved[from])
      BY <1>1
    <3> HIDE DEF reserved
    <3> QED  BY <3>1, <3>2 DEF CanRelease, SlotRow
  <2> QED  BY <2>1
<1>7. ledger' = [[ledger EXCEPT ![from] = Append(@, e)] EXCEPT ![to] = Append(@, f)]
  BY <1>1 DEF AppendLedger
<1>8. /\ e \in LedgerEntry /\ e.booking = b /\ e.delta = -1 /\ e.balanceAfter = out
      /\ f \in LedgerEntry /\ f.booking = b /\ f.delta = 1 /\ f.balanceAfter = in
      /\ e.kind = "transfer_out" /\ f.kind = "transfer_in"
  BY <1>6 DEF LedgerEntry, LedgerKind
<1>9. \A u \in Slots \ {to} : reserved[u].reserved = slots[u].reserved
  OBVIOUS
<1> HIDE DEF r, e, f, reserved
<1>10. b \in Seated(from) /\ (from # to => b \notin Seated(to))
  BY <1>1, <1>3, ViewCases
<1>11. CASE s \notin {from, to}
  <2>1. Seated(s)' = Seated(s)
    BY <1>1, <1>3, <1>11, ViewCases
  <2>2. slots'[s].reserved = slots[s].reserved
    BY <1>5, <1>9, <1>11
  <2> QED  BY <1>7, <1>11, <2>1, <2>2, SlotLeftAlone
<1>12. CASE s = from /\ from # to
  <2>1. Seated(s)' = Seated(s) \ {b}
    BY <1>1, <1>3, <1>12, ViewCases
  <2>2. ledger'[s] = Append(ledger[s], e) /\ slots'[s].reserved = out
    BY <1>5, <1>7, <1>12
  <2>3. Records(e, Seated(s), Seated(s)')
    BY <1>8, <1>10, <1>12, <2>1 DEF Records
  <2> QED  BY <1>8, <2>2, <2>3 DEF EntriesChange, OneEntry, Seated
<1>13. CASE s = to /\ from # to
  <2>1. Seated(s)' = Seated(s) \cup {b}
    BY <1>1, <1>3, <1>13, ViewCases
  <2>2. ledger'[s] = Append(ledger[s], f) /\ slots'[s].reserved = in
    BY <1>5, <1>7, <1>13
  <2>3. Records(f, Seated(s), Seated(s)')
    BY <1>8, <1>10, <1>13, <2>1 DEF Records
  <2> QED  BY <1>8, <2>2, <2>3 DEF EntriesChange, OneEntry, Seated
<1>14. CASE s = from /\ from = to
  <2>1. Seated(s)' = Seated(s)
    BY <1>1, <1>3, <1>14, ViewCases
  <2>2. ledger'[s] = Append(Append(ledger[s], e), f)
    BY <1>7, <1>14
  <2>3. Records(e, Seated(s), Seated(s) \ {e.booking})
    BY <1>8, <1>10, <1>14 DEF Records
  <2>4. Records(f, Seated(s) \ {e.booking}, Seated(s)')
    BY <1>8, <1>10, <1>14, <2>1 DEF Records
  <2>5. OutAndIn(e, f)
    BY <1>8 DEF OutAndIn
  <2> QED  BY <1>8, <2>2, <2>3, <2>4, <2>5 DEF EntriesChange, TwoEntriesMore, Seated
<1> QED  BY <1>11, <1>12, <1>13, <1>14

\* Every step writes entries for exactly the seats it moves.
LEMMA EntriesStep ==
    ASSUME RegisterInv, [Next]_vars, NEW s \in Slots
    PROVE  EntriesChange(s)
<1> USE EntryFacts
<1>1. ASSUME UNCHANGED <<slots, ledger>>, Seated(s)' = Seated(s) PROVE EntriesChange(s)
  BY <1>1, SlotLeftAlone
<1>2. CASE OperatorStep
  <2>1. ASSUME NEW a, NEW t \in Slots, NEW n \in Capacities, NEW coach, CreateSlot(a, t, n, coach)
        PROVE  EntriesChange(s)
    <3>1. UNCHANGED <<bookings, ledger>> /\ ~Exists(t)
      BY <2>1 DEF CreateSlot
    <3>2. SeatedIn(bookings', s) = SeatedIn(bookings, s)
      BY <3>1
    <3>3. s # t => slots'[s].reserved = slots[s].reserved
      BY <2>1 DEF CreateSlot
    <3>4. s = t => ledger[s] = << >>
      BY <3>1, SeatFacts DEF RegisterInv, SlotBalanced
    <3> QED  BY <3>1, <3>2, <3>3, <3>4 DEF EntriesChange, NoEntry
  <2>2. ASSUME NEW a, NEW c \in Closures, CreateAndApply(a, c) \/ ReopenClosure(a, c)
        PROVE  EntriesChange(s)
    <3>1. UNCHANGED <<bookings, ledger>>
      BY <2>2 DEF CreateAndApply, ReopenClosure
    <3>2. slots'[s] \in {slots[s], Close(slots[s]), Reopen(slots[s])}
      BY <2>2 DEF CreateAndApply, ReopenClosure
    <3>3. slots'[s].reserved = slots[s].reserved
      BY <3>2 DEF SlotRow, Close, Reopen
    <3> QED  BY <3>1, <3>3, NobodyMoves, SlotLeftAlone
  <2> QED  BY <1>2, <2>1, <2>2, AdjustWrites DEF OperatorStep
<1>3. CASE CreateStep
  <2>1. ASSUME NEW a, NEW k, NEW g \in Guardians, NEW st \in Students, NEW t \in Slots, NEW p,
               CreateWaitlisted(a, k, g, st, t, p)
        PROVE  EntriesChange(s)
    <3> DEFINE r == [student |-> st, guardian |-> g, slot |-> t, status |-> Waitlisted,
                     holdUntil |-> NoHold, version |-> 1]
    <3>1. r \in BookingRow /\ ~SitsIn(r, s)
      BY HoldTypes
      DEF BookingRow, BookingStatus, SitsIn, SeatedStatus, Held, Confirmed, CheckedIn, Waitlisted
    <3>2. bookings' = Append(bookings, r) /\ UNCHANGED <<slots, ledger>>
      BY <2>1 DEF CreateWaitlisted, CreateOnce
    <3> HIDE DEF r
    <3>3. Seated(s)' = Seated(s)
      BY <3>1, <3>2, ViewAppend
    <3> QED  BY <1>1, <3>2, <3>3
  <2> QED  BY <1>3, <2>1, CreateWrites DEF CreateStep
<1>4. CASE BookingStep
  <2>1. PICK b \in BookingIds, a \in Guardians \cup Students \cup Operators \cup Coaches :
          \/ Confirm(a, b) \/ CancelWaiting(a, b) \/ CancelSeat(a, b)
          \/ \E n \in BookingIds : CancelAndPromote(a, b, n)
          \/ \E to \in Slots : Reschedule(a, b, to)
          \/ Redeem(a, b)
    BY <1>4 DEF BookingStep
  <2>2. CASE Confirm(a, b) \/ CancelWaiting(a, b) \/ Redeem(a, b)
    <3>1. PICK to \in {Confirmed, Cancelled, CheckedIn} :
              /\ bookings' = [bookings EXCEPT ![b] = TransitionBooking(@, to)]
              /\ to = Cancelled => bookings[b].status = Waitlisted
              /\ to # Cancelled => bookings[b].status \in {Held, Confirmed}
              /\ UNCHANGED <<slots, ledger>>
      BY <2>2 DEF Confirm, MayConfirm, CancelWaiting, Redeem, Confirmed, Cancelled, CheckedIn
    <3> DEFINE r == TransitionBooking(bookings[b], to)
    <3>2. r.slot = bookings[b].slot /\ r.status = to /\ bookings' = [bookings EXCEPT ![b] = r]
      BY <3>1, RowUpdates
    <3>3. SitsIn(r, s) <=> SitsIn(bookings[b], s)
      BY <3>1, <3>2 DEF SitsIn, SeatedStatus, Held, Confirmed, CheckedIn, Waitlisted, Cancelled
    <3> HIDE DEF r
    <3>4. Seated(s)' = Seated(s)
      BY <3>2, <3>3, ViewCases
    <3> QED  BY <1>1, <3>1, <3>4
  <2> QED  BY <2>1, <2>2, CancelWrites, HandOnWrites, MoveWrites
<1>5. CASE PromotionStep
  BY <1>5, PromoteWrites DEF PromotionStep
<1>6. CASE Tick \/ UNCHANGED vars
  <2>1. UNCHANGED <<slots, ledger, bookings>>
    BY <1>6 DEF Tick, vars
  <2> QED  BY <1>1, <2>1, NobodyMoves
<1> QED  BY <1>2, <1>3, <1>4, <1>5, <1>6 DEF Next

-----------------------------------------------------------------------------
(* Booking by booking.                                                     *)

\* An entry keeps the balances of a slot true when it records its seats.
LEMMA RecordBalances ==
    ASSUME NEW l \in Seq(LedgerEntry), NEW e \in LedgerEntry, NEW S, NEW T, Records(e, S, T),
           NEW b, Balance(l, b) = IF b \in S THEN 1 ELSE 0
    PROVE  Balance(Append(l, e), b) = IF b \in T THEN 1 ELSE 0
<1>1. Balance(Append(l, e), b) = Balance(l, b) + IF e.booking = b THEN e.delta ELSE 0
  BY BalanceAppend
<1>2. CASE e.booking = b
  BY <1>1, <1>2 DEF Records
<1>3. CASE e.booking # b
  BY <1>1, <1>3 DEF Records
<1> QED  BY <1>2, <1>3

\* The balances also of bookings that are not made yet, and of the adjustments.
AllBalanced == \A s \in Slots : \A b \in Nat :
                  Balance(ledger[s], b) = IF b \in SeatedIn(bookings, s) THEN 1 ELSE 0

\* Whoever sits in a slot has taken its seat there once more than left it, and
\* nobody else has anything left in its ledger, however often people move.
THEOREM LedgerBalancesPerBooking == Spec => []LedgerPerBooking
<1>1. Init => AllBalanced
  <2> SUFFICES ASSUME Init, NEW s \in Slots, NEW b \in Nat
               PROVE  Balance(ledger[s], b) = IF b \in SeatedIn(bookings, s) THEN 1 ELSE 0
    BY DEF AllBalanced
  <2>1. ledger[s] = << >> /\ SeatedIn(bookings, s) = {}
    BY DEF Init, SeatedIn
  <2>2. Mine(ledger[s], b, 1) = {} /\ Mine(ledger[s], b, -1) = {}
    BY <2>1 DEF Mine, EntriesWith
  <2>3. Balance(ledger[s], b) = 0
    <3>1. Cardinality(Mine(ledger[s], b, 1)) = 0 /\ Cardinality(Mine(ledger[s], b, -1)) = 0
      BY <2>2, FS_EmptySet
    <3> QED  BY <3>1 DEF Balance
  <2>4. b \notin SeatedIn(bookings, s)
    BY <2>1
  <2> QED  BY <2>3, <2>4
<1>2. RegisterInv /\ AllBalanced /\ [Next]_vars => AllBalanced'
  <2> SUFFICES ASSUME RegisterInv, AllBalanced, [Next]_vars, NEW s \in Slots, NEW b \in Nat
               PROVE  Balance(ledger'[s], b) = IF b \in SeatedIn(bookings', s) THEN 1 ELSE 0
    BY DEF AllBalanced
  <2>1. /\ ledger[s] \in Seq(LedgerEntry)
        /\ Balance(ledger[s], b) = IF b \in SeatedIn(bookings, s) THEN 1 ELSE 0
    BY EntryFacts DEF AllBalanced
  <2>2. CASE NoEntry(s)
    BY <2>1, <2>2 DEF NoEntry
  <2>3. CASE OneEntry(s)
    BY <2>1, <2>3, RecordBalances DEF OneEntry
  <2>4. CASE TwoEntriesMore(s)
    <3>1. PICK e \in LedgerEntry, f \in LedgerEntry :
              LET between == SeatedIn(bookings, s) \ {e.booking} IN
              /\ ledger'[s] = Append(Append(ledger[s], e), f)
              /\ Records(e, SeatedIn(bookings, s), between)
              /\ Records(f, between, SeatedIn(bookings', s))
      BY <2>4 DEF TwoEntriesMore
    <3>2. Append(ledger[s], e) \in Seq(LedgerEntry)
      BY <2>1, AppendProperties
    <3>3. Balance(Append(ledger[s], e), b)
            = IF b \in SeatedIn(bookings, s) \ {e.booking} THEN 1 ELSE 0
      BY <2>1, <3>1, RecordBalances
    <3> DEFINE m == Append(ledger[s], e)
               between == SeatedIn(bookings, s) \ {e.booking}
    <3>4. /\ m \in Seq(LedgerEntry) /\ Balance(m, b) = IF b \in between THEN 1 ELSE 0
          /\ ledger'[s] = Append(m, f) /\ Records(f, between, SeatedIn(bookings', s))
      BY <3>1, <3>2, <3>3
    <3> HIDE DEF m, between
    <3> QED  BY <3>4, RecordBalances
  <2> QED  BY <2>2, <2>3, <2>4, EntriesStep DEF EntriesChange
<1>3. RegisterInv /\ AllBalanced => LedgerPerBooking
  <2> SUFFICES ASSUME RegisterInv, AllBalanced, NEW s \in Slots, NEW b \in BookingIds
               PROVE  BookingBalance(s, b) = IF b \in Seated(s) THEN 1 ELSE 0
    BY DEF LedgerPerBooking
  <2>1. BookingBalance(s, b) = Balance(ledger[s], b)
    BY DEF BookingBalance, Balance, Mine
  <2> QED  BY <2>1, EntryFacts DEF AllBalanced, Seated
<1> QED  BY <1>1, <1>2, <1>3, RegisterInvariant, PTL DEF Spec

-----------------------------------------------------------------------------
(* The running balance.                                                    *)

\* The newest entry of every slot carries its true count, unless it is the
\* second of the two that a booking moved into its own slot writes.
THEOREM RunningBalanceAlwaysHeals == Spec => []RunningBalanceHeals
<1>1. Init => RunningBalanceHeals
  BY DEF Init, RunningBalanceHeals
<1>2. RegisterInv /\ RunningBalanceHeals /\ [Next]_vars => RunningBalanceHeals'
  <2> SUFFICES ASSUME RegisterInv, RunningBalanceHeals, [Next]_vars, NEW s \in Slots,
                      ledger'[s] # << >>, ~AfterSelfMove(ledger'[s])
               PROVE  ledger'[s][Len(ledger'[s])].balanceAfter = slots'[s].reserved
    BY DEF RunningBalanceHeals
  <2>1. ledger[s] \in Seq(LedgerEntry)
    BY EntryFacts
  <2>2. CASE NoEntry(s)
    BY <2>2 DEF NoEntry, RunningBalanceHeals
  <2>3. CASE OneEntry(s)
    BY <2>1, <2>3, AppendProperties, LenProperties DEF OneEntry
  <2>4. CASE TwoEntriesMore(s)
    <3>1. PICK e \in LedgerEntry, f \in LedgerEntry :
              /\ ledger'[s] = Append(Append(ledger[s], e), f)
              /\ f.balanceAfter = slots'[s].reserved \/ OutAndIn(e, f)
      BY <2>4 DEF TwoEntriesMore
    <3> DEFINE n == Len(ledger[s])
    <3>2. /\ n \in Nat /\ Append(ledger[s], e) \in Seq(LedgerEntry)
          /\ Len(Append(ledger[s], e)) = n + 1 /\ Append(ledger[s], e)[n + 1] = e
      BY <2>1, AppendProperties, LenProperties
    <3>3. /\ Len(ledger'[s]) = n + 2
          /\ ledger'[s][n + 2] = f /\ ledger'[s][n + 1] = e
      BY <3>1, <3>2, AppendProperties, LenProperties
    <3>4. ~OutAndIn(e, f)
      BY <3>2, <3>3 DEF OutAndIn, AfterSelfMove
    <3> QED  BY <3>1, <3>3, <3>4
  <2> QED  BY <2>2, <2>3, <2>4, EntriesStep DEF EntriesChange
<1> QED  BY <1>1, <1>2, RegisterInvariant, PTL DEF Spec
=============================================================================
