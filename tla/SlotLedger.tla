----------------------------- MODULE SlotLedger -----------------------------
(***************************************************************************)
(* The booking ledger of the venue service: slots and their seats,         *)
(* bookings, wait lists, the append-only seat ledger, check-ins, coach     *)
(* assignments and temporary venue closures.                               *)
(*                                                                         *)
(* Each action is one service call that commits.  Every call runs in one   *)
(* SQLite transaction (repository.Store.WithTx); SQLite has one writer at  *)
(* a time and refuses to upgrade a stale reader, so the transactions that  *)
(* commit and write are serial and an action is the whole handler.  A call *)
(* that fails is rolled back, and a call answered from the idempotency     *)
(* table writes nothing: both are stuttering steps.  The version a caller  *)
(* sends has to be the current one for the call to commit, so it is not a  *)
(* parameter of the action.                                                *)
(***************************************************************************)
EXTENDS PersistedTime, Sequences, FiniteSets, BookingStates

CONSTANTS
    Slots,            \* the slots an operator may create
    Students, Guardians, Operators, Coaches,    \* users, by role
    Closures,         \* the closures an operator may apply
    Keys,             \* Idempotency-Key header values
    SlotWindow,       \* venue and time window of each slot
    ClosureWindow,    \* venue and time window of each closure
    Authorizations,   \* guardian_authorizations: who may book for whom, when
    Eligible,         \* <<student, slot>> pairs ValidateEligibility accepts
    Capacities,       \* capacities an operator asks for
    InitialReserved,  \* the "reserved" an operator's create request carries
    HoldDuration,     \* booking.Service.holdDuration, in seconds
    CheckInLead,      \* check-in opens this long before the slot starts
    Moments,          \* bound: the times the clock of the instance shows
    MaxBookings, MaxEntries   \* bounds of the checked instance

Window == [venue : Nat, starts : Instant, ends : Instant]

\* Slot.Validate and CreateClosure compare times, not their texts.
ASSUME WindowAssumption ==
    /\ SlotWindow \in [Slots -> Window]
    /\ ClosureWindow \in [Closures -> Window]
    /\ \A s \in Slots : Before(SlotWindow[s].starts, SlotWindow[s].ends)
    /\ \A c \in Closures : Before(ClosureWindow[c].starts, ClosureWindow[c].ends)
ASSUME CapacityAssumption ==
    /\ Capacities \subseteq Nat \ {0}
    /\ InitialReserved \in [Slots -> Nat]
ASSUME PolicyAssumption ==
    /\ HoldDuration \in Nat \ {0}
    /\ CheckInLead \in Nat
    /\ Eligible \subseteq Students \X Slots
    /\ Authorizations \subseteq
          [guardian : Guardians, student : Students, from : Instant, until : Instant]
ASSUME BoundAssumption == MaxBookings \in Nat /\ MaxEntries \in Nat /\ Moments \subseteq Instant

VARIABLES
    slots,        \* rows of table slots; status "absent" before the insert
    assignments,  \* rows <<coach, slot>> of coach_assignments
    bookings,     \* rows of bookings, indexed by their AUTOINCREMENT id
    waitlist,     \* rows of waitlist_entries
    ledger,       \* rows of ledger_entries, by slot, in insertion order
    keys,         \* rows of idempotency_keys
    checkins,     \* booking ids in checkins
    closures,     \* status of each row of closures
    jobs,         \* closures whose compensation job is in worker_jobs
    now           \* the clock of the services

vars == <<slots, assignments, bookings, waitlist, ledger, keys, checkins,
          closures, jobs, now>>

-----------------------------------------------------------------------------
(* Rows.                                                                   *)

SlotRow == [capacity : Nat, reserved : Nat, version : Nat,
            status : {"absent", "open", "closed"}]

\* A booking's holdUntil is NoHold while hold_expires_at is NULL.
NoHold == [sec |-> 0, frac |-> [i \in Places |-> 0]]

BookingRow == [student : Students, guardian : Guardians, slot : Slots,
               status : BookingStatus, holdUntil : Instant, version : Nat]

WaitlistRow == [booking : Nat, slot : Slots, position : Nat, promoted : BOOLEAN]

\* booking is 0 in an adjustment entry, whose booking_id is NULL.
LedgerKind  == {"reserve", "release", "adjustment", "transfer_in", "transfer_out"}
LedgerEntry == [booking : Nat, kind : LedgerKind, delta : {-1, 0, 1}, balanceAfter : Nat]

KeyRow == [actor : Guardians \cup Operators, key : Keys, student : Students,
           guardian : Guardians, slot : Slots, booking : Nat]

Exists(s)  == slots[s].status # "absent"
BookingIds == DOMAIN bookings

\* Windows overlap for SQL, which compares the texts of their ends.
TextsOverlap(v, w) == TextBefore(v.starts, w.ends) /\ TextBefore(w.starts, v.ends)
Overlaps(v, w)     == v.venue = w.venue /\ TextsOverlap(v, w)

\* The bookings of table bs that sit in slot s.
SitsIn(row, s)  == row.slot = s /\ row.status \in SeatedStatus
SeatedIn(bs, s) == { b \in DOMAIN bs : SitsIn(bs[b], s) }
Seated(s)       == SeatedIn(bookings, s)

-----------------------------------------------------------------------------
(* Slips the runs are known to notice: an operator X_Slip, here or right   *)
(* before X, is X with one mistake in it.  No action uses these operators. *)

CanReserve_ClosedToo(row) == row.status # "absent" /\ row.reserved < row.capacity

ReleaseSeat_Uncounted(row) == [row EXCEPT !.version = @ + 1]
ReleaseSeat_Twice(row)     == [row EXCEPT !.reserved = @ - 2, !.version = @ + 1]

PromoteWaitlistedBooking_SameVersion(row) ==
    [row EXCEPT !.status = Held, !.holdUntil = Later(now, HoldDuration)]

MoveBooking_RenewsHold(row, s) ==
    [row EXCEPT !.slot = s, !.holdUntil = Later(now, HoldDuration), !.version = @ + 1]

AppendLedger_OldBalance(l, s, b, kind, delta, balance) ==
    [l EXCEPT ![s] = Append(@, [booking |-> b, kind |-> kind, delta |-> delta,
                                balanceAfter |-> balance - delta])]

AppendLedger_AnonymousMoves(l, s, b, kind, delta, balance) ==
    [l EXCEPT ![s] = Append(@, [booking |-> IF kind \in {"reserve", "release"} THEN b ELSE 0,
                                kind |-> kind, delta |-> delta, balanceAfter |-> balance])]

MarkWaitlistPromoted_Forgotten(b) == waitlist

CoachFree_LaterOnly(coach, s) ==
    \A x \in assignments :
        x[1] = coach => ~ /\ TextUpTo(SlotWindow[x[2]].starts, SlotWindow[s].starts)
                          /\ TextBefore(SlotWindow[s].starts, SlotWindow[x[2]].ends)

CanAdjust_Unchecked(row, capacity) == row.reserved >= 0

-----------------------------------------------------------------------------
(* Statements of the repository, as guards and row updates.                *)

CanReserve(row)  == row.status = "open" /\ row.reserved < row.capacity
ReserveSeat(row) == [row EXCEPT !.reserved = @ + 1, !.version = @ + 1]

CanRelease(row)  == row.reserved > 0
ReleaseSeat(row) == [row EXCEPT !.reserved = @ - 1, !.version = @ + 1]

TransitionBooking(row, to) == [row EXCEPT !.status = to, !.version = @ + 1]

PromoteWaitlistedBooking(row) ==
    [row EXCEPT !.status = Held, !.holdUntil = Later(now, HoldDuration), !.version = @ + 1]

MoveBooking(row, s) == [row EXCEPT !.slot = s, !.version = @ + 1]

\* AppendLedger: one more entry for slot s in the ledger l.
AppendLedger(l, s, b, kind, delta, balance) ==
    [l EXCEPT ![s] = Append(@, [booking |-> b, kind |-> kind, delta |-> delta,
                                balanceAfter |-> balance])]

LedgerRoom(s, n) == Len(ledger[s]) + n <= MaxEntries

\* LedgerBalance: SUM(delta) over the slot's entries; each delta is -1, 0 or 1.
EntriesWith(l, d) == { i \in DOMAIN l : l[i].delta = d }
SumOfDeltas(l)    == Cardinality(EntriesWith(l, 1)) - Cardinality(EntriesWith(l, -1))
LedgerBalance(s)  == SumOfDeltas(ledger[s])

\* AddWaitlistEntry: p is one more than the largest position among the entries
\* not promoted yet, while UNIQUE(slot_id, position) ranges over all of them.
EntriesOf(s)   == { w \in waitlist : w.slot = s }
OpenEntries(s) == { w \in EntriesOf(s) : ~w.promoted }

IsNextPosition(s, p) ==
    /\ \A w \in OpenEntries(s) : w.position < p
    /\ p = 1 \/ \E w \in OpenEntries(s) : w.position = p - 1

PositionFree(s, p) == \A w \in EntriesOf(s) : w.position # p

\* NextWaitlistedBooking: the entries it selects from, and the booking it returns.
Waiting(s) == { w \in OpenEntries(s) : bookings[w.booking].status = Waitlisted }

IsNextWaitlisted_Newest(s, n) ==
    \E w \in Waiting(s) : /\ w.booking = n
                          /\ \A x \in Waiting(s) : w.position >= x.position

IsNextWaitlisted(s, n) ==
    \E w \in Waiting(s) : /\ w.booking = n
                          /\ \A x \in Waiting(s) : w.position <= x.position

MarkWaitlistPromoted(b) ==
    { IF w.booking = b THEN [w EXCEPT !.promoted = TRUE] ELSE w : w \in waitlist }

HasCoachCoverage(s) == \E x \in assignments : x[2] = s

HasActiveGuardianAuthorization(g, st) ==
    \E x \in Authorizations :
        x.guardian = g /\ x.student = st /\ TextUpTo(x.from, now) /\ TextBefore(now, x.until)

HasActiveBooking(st, s) ==
    \E b \in BookingIds : /\ bookings[b].student = st
                          /\ bookings[b].slot = s
                          /\ bookings[b].status \in ActiveStatus

-----------------------------------------------------------------------------
(* Schedule service.                                                       *)

Init ==
    /\ slots = [s \in Slots |-> [capacity |-> 0, reserved |-> 0, version |-> 0,
                                 status |-> "absent"]]
    /\ assignments = {}
    /\ bookings = << >>
    /\ waitlist = {}
    /\ ledger = [s \in Slots |-> << >>]
    /\ keys = {}
    /\ checkins = {}
    /\ closures = [c \in Closures |-> "absent"]
    /\ jobs = {}
    /\ now \in Moments /\ \A t \in Moments : ~Before(t, now)

\* AssignCoach: no slot the coach already has may overlap the new one, at any venue.
CoachFree(coach, s) ==
    \A x \in assignments : x[1] = coach => ~TextsOverlap(SlotWindow[x[2]], SlotWindow[s])

\* Operator a creates slot s.  The slot is open whatever closures are applied,
\* and the request's own "reserved" is stored.
CreateSlot(a, s, capacity, coach) ==
    /\ ~Exists(s)
    /\ InitialReserved[s] <= capacity
    /\ CoachFree(coach, s)
    /\ slots' = [slots EXCEPT ![s] = [capacity |-> capacity, version |-> 1,
                                      reserved |-> InitialReserved[s], status |-> "open"]]
    /\ assignments' = assignments \cup {<<coach, s>>}
    /\ UNCHANGED <<bookings, waitlist, ledger, keys, checkins, closures, jobs, now>>

\* The WHERE clause of AdjustCapacity.
CanAdjust(row, capacity) == row.reserved <= capacity

AdjustCapacity(a, s, capacity) ==
    /\ Exists(s)
    /\ CanAdjust(slots[s], capacity)
    /\ LedgerRoom(s, 1)
    /\ slots' = [slots EXCEPT ![s].capacity = capacity, ![s].version = @ + 1]
    /\ ledger' = AppendLedger(ledger, s, 0, "adjustment", 0, slots[s].reserved)
    /\ UNCHANGED <<assignments, bookings, waitlist, keys, checkins, closures, jobs, now>>

-----------------------------------------------------------------------------
(* Booking service.                                                        *)

KeyUnused(a, k) == \A x \in keys : ~(x.actor = a /\ x.key = k)

MayCreate(a, g, st, s) ==
    /\ a \in Operators \/ a = g
    /\ HasActiveGuardianAuthorization(g, st)
    /\ Exists(s)
    /\ <<st, s>> \in Eligible
    /\ HasCoachCoverage(s)
    /\ ~HasActiveBooking(st, s)

\* What createOnce does in both outcomes: the booking row and the idempotency
\* row.  A key whose record expired is not replayed, but its row still refuses
\* the insert, so the guard is that there is no row at all.
CreateOnce(a, k, g, st, s, status, holdUntil) ==
    /\ Len(bookings) < MaxBookings
    /\ KeyUnused(a, k)
    /\ MayCreate(a, g, st, s)
    /\ bookings' = Append(bookings, [student |-> st, guardian |-> g, slot |-> s,
                                     status |-> status, holdUntil |-> holdUntil,
                                     version |-> 1])
    /\ keys' = keys \cup {[actor |-> a, key |-> k, student |-> st, guardian |-> g,
                           slot |-> s, booking |-> Len(bookings) + 1]}
    /\ UNCHANGED <<assignments, checkins, closures, jobs, now>>

CreateHeld(a, k, g, st, s) ==
    /\ CreateOnce(a, k, g, st, s, Held, Later(now, HoldDuration))
    /\ CanReserve(slots[s])
    /\ LedgerRoom(s, 1)
    /\ slots' = [slots EXCEPT ![s] = ReserveSeat(@)]
    /\ ledger' = AppendLedger(ledger, s, Len(bookings) + 1, "reserve", 1, slots[s].reserved + 1)
    /\ UNCHANGED waitlist

\* The insert of the wait list entry fails, and with it the whole call, when the
\* position p is already used by an entry of the slot.
CreateWaitlisted(a, k, g, st, s, p) ==
    /\ CreateOnce(a, k, g, st, s, Waitlisted, NoHold)
    /\ ~CanReserve(slots[s])
    /\ IsNextPosition(s, p)
    /\ PositionFree(s, p)
    /\ waitlist' = waitlist \cup {[booking |-> Len(bookings) + 1, slot |-> s,
                                   position |-> p, promoted |-> FALSE]}
    /\ UNCHANGED <<slots, ledger>>

MayConfirm(a, b) ==
    /\ a \in Operators \/ a = bookings[b].guardian
    /\ Before(now, bookings[b].holdUntil)
    /\ bookings[b].status = Held

Confirm(a, b) ==
    /\ MayConfirm(a, b)
    /\ bookings' = [bookings EXCEPT ![b] = TransitionBooking(@, Confirmed)]
    /\ UNCHANGED <<slots, assignments, waitlist, ledger, keys, checkins, closures, jobs, now>>

MayCancel(a, b) == a \in Operators \cup {bookings[b].guardian, bookings[b].student}

\* Cancelling a waitlisted booking leaves its wait list entry behind.
CancelWaiting(a, b) ==
    /\ MayCancel(a, b)
    /\ bookings[b].status = Waitlisted
    /\ bookings' = [bookings EXCEPT ![b] = TransitionBooking(@, Cancelled)]
    /\ UNCHANGED <<slots, assignments, waitlist, ledger, keys, checkins, closures, jobs, now>>

PassesSeatOn_Never(s) == FALSE

\* A held or confirmed booking gives its seat back; on an open slot with
\* somebody waiting the same transaction passes the seat on.
GivesSeatBack(a, b) ==
    /\ MayCancel(a, b)
    /\ bookings[b].status \in {Held, Confirmed}
    /\ CanRelease(slots[bookings[b].slot])

PassesSeatOn(s) == CanReserve(ReleaseSeat(slots[s])) /\ Waiting(s) # {}

CancelSeat(a, b) ==
    LET s == bookings[b].slot IN
    /\ GivesSeatBack(a, b)
    /\ ~PassesSeatOn(s)
    /\ LedgerRoom(s, 1)
    /\ bookings' = [bookings EXCEPT ![b] = TransitionBooking(@, Cancelled)]
    /\ slots' = [slots EXCEPT ![s] = ReleaseSeat(@)]
    /\ ledger' = AppendLedger(ledger, s, b, "release", -1, slots[s].reserved - 1)
    /\ UNCHANGED <<assignments, waitlist, keys, checkins, closures, jobs, now>>

CancelAndPromote(a, b, n) ==
    LET s == bookings[b].slot IN
    /\ GivesSeatBack(a, b)
    /\ PassesSeatOn(s)
    /\ IsNextWaitlisted(s, n)
    /\ LedgerRoom(s, 2)
    /\ bookings' = [bookings EXCEPT ![b] = TransitionBooking(@, Cancelled),
                                    ![n] = PromoteWaitlistedBooking(@)]
    /\ waitlist' = MarkWaitlistPromoted(n)
    /\ slots' = [slots EXCEPT ![s] = ReserveSeat(ReleaseSeat(@))]
    /\ ledger' = AppendLedger(AppendLedger(ledger, s, b, "release", -1, slots[s].reserved - 1),
                              s, n, "reserve", 1, slots[s].reserved)
    /\ UNCHANGED <<assignments, keys, checkins, closures, jobs, now>>

MayReschedule_Waiting(a, b, to) ==
    /\ a \in Operators \/ a = bookings[b].guardian
    /\ bookings[b].status # Cancelled
    /\ HasActiveGuardianAuthorization(bookings[b].guardian, bookings[b].student)
    /\ Exists(to) /\ <<bookings[b].student, to>> \in Eligible /\ HasCoachCoverage(to)
    /\ CanReserve(slots[to])
    /\ bookings[b].slot # to => ~HasActiveBooking(bookings[b].student, to)

MayReschedule_FullSlot(a, b, to) ==
    /\ a \in Operators \/ a = bookings[b].guardian
    /\ bookings[b].status \in {Held, Confirmed}
    /\ HasActiveGuardianAuthorization(bookings[b].guardian, bookings[b].student)
    /\ Exists(to) /\ <<bookings[b].student, to>> \in Eligible /\ HasCoachCoverage(to)
    /\ bookings[b].slot # to => ~HasActiveBooking(bookings[b].student, to)

MayReschedule(a, b, to) ==
    /\ a \in Operators \/ a = bookings[b].guardian
    /\ bookings[b].status \in {Held, Confirmed}
    /\ HasActiveGuardianAuthorization(bookings[b].guardian, bookings[b].student)
    /\ Exists(to)
    /\ <<bookings[b].student, to>> \in Eligible
    /\ HasCoachCoverage(to)
    /\ CanReserve(slots[to])
    /\ bookings[b].slot # to => ~HasActiveBooking(bookings[b].student, to)

\* The destination is reserved and read before the source is released: when
\* they are the same slot, transfer_in is written with the count of before the
\* release.
Reschedule(a, b, to) ==
    LET from == bookings[b].slot
        reserved == [slots EXCEPT ![to] = ReserveSeat(@)] IN
    /\ MayReschedule(a, b, to)
    /\ CanRelease(reserved[from])
    /\ LedgerRoom(from, 2) /\ LedgerRoom(to, 2)
    /\ slots' = [reserved EXCEPT ![from] = ReleaseSeat(@)]
    /\ bookings' = [bookings EXCEPT ![b] = MoveBooking(@, to)]
    /\ ledger' = AppendLedger(AppendLedger(ledger, from, b, "transfer_out", -1,
                                           reserved[from].reserved - 1),
                              to, b, "transfer_in", 1, reserved[to].reserved)
    /\ UNCHANGED <<assignments, waitlist, keys, checkins, closures, jobs, now>>

-----------------------------------------------------------------------------
(* Wait list, check-in and closure services, and the clock.                *)

\* waitlist.Service.PromoteNext.  No route or worker of cmd/server calls it.
PromoteNext(s, n) ==
    /\ CanReserve(slots[s])
    /\ IsNextWaitlisted(s, n)
    /\ LedgerRoom(s, 1)
    /\ slots' = [slots EXCEPT ![s] = ReserveSeat(@)]
    /\ bookings' = [bookings EXCEPT ![n] = PromoteWaitlistedBooking(@)]
    /\ waitlist' = MarkWaitlistPromoted(n)
    /\ ledger' = AppendLedger(ledger, s, n, "reserve", 1, slots[s].reserved + 1)
    /\ UNCHANGED <<assignments, keys, checkins, closures, jobs, now>>

InCheckInWindow(w) == ~Before(Later(now, CheckInLead), w.starts) /\ ~Before(w.ends, now)

Redeem(a, b) ==
    /\ bookings[b].status = Confirmed
    /\ InCheckInWindow(SlotWindow[bookings[b].slot])
    /\ b \notin checkins
    /\ checkins' = checkins \cup {b}
    /\ bookings' = [bookings EXCEPT ![b] = TransitionBooking(@, CheckedIn)]
    /\ UNCHANGED <<slots, assignments, waitlist, ledger, keys, closures, jobs, now>>

Close(row)  == [row EXCEPT !.status = "closed", !.version = @ + 1]
Reopen(row) == [row EXCEPT !.status = "open",   !.version = @ + 1]

Covers(c, s) == Overlaps(ClosureWindow[c], SlotWindow[s])

\* closure.Service.CreateAndApply: one transaction inserts the closure, closes
\* the open slots of its window and enqueues the compensation job.
CreateAndApply(a, c) ==
    /\ closures[c] = "absent"
    /\ closures' = [closures EXCEPT ![c] = "applied"]
    /\ slots' = [s \in Slots |-> IF Covers(c, s) /\ slots[s].status = "open"
                                 THEN Close(slots[s]) ELSE slots[s]]
    /\ jobs' = jobs \cup {c}
    /\ UNCHANGED <<assignments, bookings, waitlist, ledger, keys, checkins, now>>

\* Is slot s kept closed by a closure that is applied in the table cs?
StillClosed(cs, s) == \E c \in Closures : cs[c] = "applied" /\ Covers(c, s)

ReopenClosure_OwnRowLast(a, c) ==
    /\ closures[c] = "applied"
    /\ closures' = [closures EXCEPT ![c] = "reopened"]
    /\ slots' = [s \in Slots |->
                   IF Covers(c, s) /\ slots[s].status = "closed" /\ ~StillClosed(closures, s)
                   THEN Reopen(slots[s]) ELSE slots[s]]
    /\ UNCHANGED <<assignments, bookings, waitlist, ledger, keys, checkins, jobs, now>>

\* closure.Service.Reopen.  The closure's own row is updated first.
ReopenClosure(a, c) ==
    /\ closures[c] = "applied"
    /\ closures' = [closures EXCEPT ![c] = "reopened"]
    /\ slots' = [s \in Slots |->
                   IF Covers(c, s) /\ slots[s].status = "closed" /\ ~StillClosed(closures', s)
                   THEN Reopen(slots[s]) ELSE slots[s]]
    /\ UNCHANGED <<assignments, bookings, waitlist, ledger, keys, checkins, jobs, now>>

Tick ==
    /\ \E t \in Moments : Before(now, t) /\ now' = t
    /\ UNCHANGED <<slots, assignments, bookings, waitlist, ledger, keys, checkins, closures, jobs>>

-----------------------------------------------------------------------------
OperatorStep ==
    \E a \in Operators :
        \/ \E s \in Slots, n \in Capacities, coach \in Coaches : CreateSlot(a, s, n, coach)
        \/ \E s \in Slots, n \in Capacities : AdjustCapacity(a, s, n)
        \/ \E c \in Closures : CreateAndApply(a, c) \/ ReopenClosure(a, c)

CreateStep ==
    \E a \in Guardians \cup Operators, k \in Keys, g \in Guardians, st \in Students, s \in Slots :
        \/ CreateHeld(a, k, g, st, s)
        \/ \E p \in 1..(Len(bookings) + 1) : CreateWaitlisted(a, k, g, st, s, p)

BookingStep ==
    \E b \in BookingIds, a \in Guardians \cup Students \cup Operators \cup Coaches :
        \/ Confirm(a, b)
        \/ CancelWaiting(a, b) \/ CancelSeat(a, b)
        \/ \E n \in BookingIds : CancelAndPromote(a, b, n)
        \/ \E to \in Slots : Reschedule(a, b, to)
        \/ a \in Coaches \cup Operators /\ Redeem(a, b)

PromotionStep == \E s \in Slots, n \in BookingIds : PromoteNext(s, n)

Next == OperatorStep \/ CreateStep \/ BookingStep \/ PromotionStep \/ Tick

Spec == Init /\ [][Next]_vars

-----------------------------------------------------------------------------
(* Safety.                                                                 *)

\* Every table holds rows of its type.
TypeOK ==
    /\ slots \in [Slots -> SlotRow]
    /\ assignments \subseteq Coaches \X Slots
    /\ bookings \in Seq(BookingRow)
    /\ waitlist \subseteq WaitlistRow
    /\ ledger \in [Slots -> Seq(LedgerEntry)]
    /\ keys \subseteq KeyRow
    /\ checkins \subseteq Nat
    /\ closures \in [Closures -> ClosureStatus]
    /\ jobs \subseteq Closures
    /\ now \in Instant

\* The counter slots.reserved, which every seat decision is taken from, is the
\* number of bookings that sit in the slot (plus what the create request put in
\* it), however bookings were created, promoted, moved and cancelled.
SeatAccounting ==
    \A s \in Slots : Exists(s) =>
        slots[s].reserved = InitialReserved[s] + Cardinality(Seated(s))

\* A slot never has more bookings in it than its capacity, also after its
\* capacity was lowered.
NoOversell == \A s \in Slots : Cardinality(Seated(s)) <= slots[s].capacity

\* The ledger explains every change of the reserved count since the slot was
\* created.  (It is not what Reconcile compares: see LedgerReconciles.)
LedgerFollowsCounter ==
    \A s \in Slots : Exists(s) =>
        LedgerBalance(s) = slots[s].reserved - InitialReserved[s]

\* What ledger.Service.Reconcile compares, and calls a conflict when it is not
\* so: the reserved count and the sum of the ledger's deltas, of every slot.
LedgerReconciles == \A s \in Slots : Exists(s) => slots[s].reserved = LedgerBalance(s)

\* The ledger also balances booking by booking: what the entries of booking b
\* add up to in a slot is 1 where the booking sits and 0 everywhere else.
BookingBalance(s, b) ==
    LET mine(d) == { i \in EntriesWith(ledger[s], d) : ledger[s][i].booking = b }
    IN  Cardinality(mine(1)) - Cardinality(mine(-1))

LedgerPerBooking ==
    \A s \in Slots, b \in BookingIds :
        BookingBalance(s, b) = (IF b \in Seated(s) THEN 1 ELSE 0)

\* The balance_after of the newest entry of a slot is the slot's reserved count.
RunningBalance ==
    \A s \in Slots : ledger[s] # << >> =>
        ledger[s][Len(ledger[s])].balanceAfter = slots[s].reserved

\* ... which only a booking rescheduled into the slot it is in disturbs, and no
\* longer than until the next entry: a transfer_in not written right after the
\* same booking's transfer_out, and every other entry, carries the true count.
AfterSelfMove(l) ==
    LET n == Len(l) IN
    /\ n > 1
    /\ l[n].kind = "transfer_in" /\ l[n - 1].kind = "transfer_out"
    /\ l[n].booking = l[n - 1].booking

RunningBalanceHeals ==
    \A s \in Slots : ledger[s] # << >> /\ ~AfterSelfMove(ledger[s]) =>
        ledger[s][Len(ledger[s])].balanceAfter = slots[s].reserved

\* A booking is waitlisted exactly while an entry not promoted yet, of its own
\* slot, lets NextWaitlistedBooking find it: nobody is forgotten in the list,
\* and no seated booking can be promoted again.
WaitlistCoherent ==
    /\ \A w \in waitlist :
          /\ w.booking \in BookingIds
          /\ w.promoted => bookings[w.booking].status # Waitlisted
          /\ ~w.promoted => /\ bookings[w.booking].status \in {Waitlisted, Cancelled}
                            /\ bookings[w.booking].slot = w.slot
    /\ \A b \in BookingIds : bookings[b].status = Waitlisted =>
          \E w \in waitlist : w.booking = b /\ ~w.promoted

\* A slot is closed only while some closure that covers it is applied: no
\* sequence of overlapping closures and reopenings leaves it shut for good.
ClosedHasCause == \A s \in Slots : slots[s].status = "closed" => StillClosed(closures, s)

\* Of two slots of a coach, at one venue or at two, one ends at the latest in the
\* second the other begins in.  Within that second they may overlap, since
\* AssignCoach compares texts.
CoachOverlapsBelowSecond ==
    \A x, y \in assignments :
        /\ x[1] = y[1] /\ x # y
        => \/ SlotWindow[x[2]].ends.sec <= SlotWindow[y[2]].starts.sec
           \/ SlotWindow[y[2]].ends.sec <= SlotWindow[x[2]].starts.sec

\* A booking is redeemed once: it is checked in exactly when it has a check-in row.
CheckedInOnce == \A b \in BookingIds : b \in checkins <=> bookings[b].status = CheckedIn

\* A full or closed slot takes the next student on its wait list: the position
\* AddWaitlistEntry computes is not used by another entry.
WaitlistJoinable ==
    \A s \in Slots, p \in 1..(Len(bookings) + 1) :
        IsNextPosition(s, p) => PositionFree(s, p)

-----------------------------------------------------------------------------
(* Action properties.                                                      *)

StatusChanges(b) == bookings'[b].status # bookings[b].status

\* Every status change is one of domain.bookingTransitions, the promotions,
\* which bypass ValidateBookingTransition, included.
StatusFollowsTransitions ==
    [][\A b \in BookingIds : StatusChanges(b) =>
          CanTransitionBooking(bookings[b].status, bookings'[b].status)]_vars

\* A version names one state of a row: whenever a booking or a slot changes,
\* its version grows, so a caller who read the old row cannot act on the new.
VersionNamesState ==
    [][/\ \A b \in BookingIds : bookings'[b].version <= bookings[b].version
                                   => bookings'[b] = bookings[b]
       /\ \A s \in Slots : slots'[s].version <= slots[s].version
                                   => slots'[s] = slots[s]]_vars

\* Seats are passed on first come, first served: whoever is promoted had
\* waited longer than everybody who still waits for the same slot.
PromotedInOrder ==
    [][\A b, c \in BookingIds :
          /\ bookings[b].status = Waitlisted /\ bookings'[b].status = Held
          /\ bookings[c].status = Waitlisted /\ bookings[c].slot = bookings[b].slot
          => b <= c]_vars

\* While somebody waits for an open slot, a cancellation leaves no seat empty:
\* the slot has as many bookings in it after the call as before.
CancelHandsOn ==
    [][\A b, n \in BookingIds :
          LET s == bookings[b].slot IN
          /\ b \in Seated(s) /\ bookings'[b].status = Cancelled
          /\ slots[s].status = "open"
          /\ bookings[n].slot = s /\ bookings[n].status = Waitlisted
          => Cardinality(Seated(s)') = Cardinality(Seated(s))]_vars

\* Nobody new sits down in a slot that is closed and stays closed: closed slots
\* only drain.
ClosedOnlyDrains ==
    [][\A s \in Slots : slots[s].status = "closed" /\ slots'[s].status = "closed"
          => Seated(s)' \subseteq Seated(s)]_vars

\* A hold keeps its end as long as the booking has not been cancelled, also when
\* it moves to another slot: a seat can be confirmed for one HoldDuration after
\* it was given, and never later.  (What is not confirmed keeps its seat all the
\* same: no code releases an expired hold.)
HoldNotRenewed ==
    [][\A b \in BookingIds :
          bookings[b].status = Held /\ bookings'[b].status \in {Held, Confirmed}
          => bookings'[b].holdUntil = bookings[b].holdUntil]_vars
=============================================================================
