----------------------------- MODULE Contention -----------------------------
(***************************************************************************)
(* POST /v1/bookings under contention: overlapping transactions of         *)
(* booking.Service.Create, their retries, lost answers and repeated        *)
(* requests, and the two reads of ledger.Service.Reconcile beside them.    *)
(*                                                                         *)
(* SQLite is modelled by what database/db.go configures and store.go uses: *)
(* BEGIN is deferred, the first read of a transaction takes a snapshot,    *)
(* the first write upgrades it and fails at once with "database is locked" *)
(* when somebody else holds the write lock or has committed since (the     *)
(* busy timeout does not apply to an upgrade), and a transaction reads its *)
(* own writes on its snapshot.  Calls whose transactions are not the       *)
(* subject here, like AdjustCapacity, are one step; what logins, job       *)
(* claims and all the others write is left out, but not that they are      *)
(* there: see Busy.                                                        *)
(***************************************************************************)
EXTENDS Integers, Sequences, FiniteSets, BookingStates

CONSTANTS
    Calls,         \* calls of clients, each sent until it is answered
    Keys, Students, Slots, RequestIds,
    Request,       \* the request of each call; two calls may have the same
    Sizes,         \* capacities of slots
    InitialCapacity, InitialReserved,   \* as each slot was created, with no ledger entry
    MaxAttempts,   \* attempts of Create
    MaxCommits,    \* bound on the commits after which an operator adjusts
    MaxExpired,    \* bound on the keys that expire
    MaxFaults,     \* bound on disconnects, lost answers and crashes
    None           \* no call

RequestRow == [key : Keys, student : Students, slot : Slots, id : RequestIds]

ASSUME CallAssumption ==
    /\ Request \in [Calls -> RequestRow]
    /\ None \notin Calls
    /\ Slots # {}
    /\ Sizes \subseteq Nat \ {0}
    /\ InitialCapacity \in [Slots -> Sizes]
    /\ InitialReserved \in [Slots -> Nat]
    /\ \A s \in Slots : InitialReserved[s] <= InitialCapacity[s]
    /\ MaxAttempts \in Nat \ {0}
    /\ MaxCommits \in Nat /\ MaxExpired \in Nat /\ MaxFaults \in Nat

VARIABLES
    db,        \* the committed database
    expired,   \* keys whose idempotency record has expired
    lock,      \* the call whose transaction holds the write lock, or None
    call,      \* what each call is doing
    audit,     \* the Reconcile that is running, and its last result
    faults

vars == <<db, expired, lock, call, audit, faults>>

-----------------------------------------------------------------------------
(* The tables a booking touches.  commits counts the commits of the WAL.   *)
(* An entry of a waitlisted booking is the booking itself: nothing here    *)
(* promotes it.  entries has the "reserve" entries, each with delta 1; an  *)
(* adjustment has delta 0 and a request id of its own.                     *)

BookingRow == [student : Students, slot : Slots, status : {Held, Waitlisted}]
RecordRow  == [key : Keys, student : Students, slot : Slots, booking : Nat]
EntryRow   == [slot : Slots, id : RequestIds, booking : Nat]

Database == [commits : Nat, capacity : [Slots -> Nat], reserved : [Slots -> Nat],
             bookings : Seq(BookingRow), records : SUBSET RecordRow,
             entries : SUBSET EntryRow]

HeldIn(d, s)  == { n \in DOMAIN d.bookings : d.bookings[n].slot = s
                                             /\ d.bookings[n].status = Held }
Balance(d, s) == Cardinality({ e \in d.entries : e.slot = s })

(* Slips the run is known to notice, as in SlotLedger.                     *)

ReplayAnswer_AnyRequest(x, r) == [kind |-> "booking", booking |-> x.booking]

EntryOf_Waitlisted(d, r, n) == {[slot |-> r.slot, id |-> r.id, booking |-> n]}

KeyFree_Expired(d, r) == TRUE

HasRoom_OffByOne(d, r) == d.reserved[r.slot] <= d.capacity[r.slot]

Fresh_Assumed(c) == TRUE

RolledBack_KeepsLock(c) == lock

-----------------------------------------------------------------------------
\* createOnce: what the call decides from its snapshot d.
Matches(x, r)   == x.student = r.student /\ x.slot = r.slot
HasRoom(d, r)   == d.reserved[r.slot] < d.capacity[r.slot]

\* IdempotencyRecord: the record of the key, unless it has expired.
LiveRecord(d, old, r) == { x \in d.records : x.key = r.key /\ x.key \notin old }

\* The three unique indexes the writes meet: one active booking of a student in
\* a slot, one row for a key, one ledger entry for a request id in a slot.
ActiveFree(d, r) == \A n \in DOMAIN d.bookings : ~Matches(d.bookings[n], r)

KeyFree(d, r)    == \A x \in d.records : x.key # r.key
EntryFree(d, r)  == HasRoom(d, r) => ~\E e \in d.entries : e.slot = r.slot /\ e.id = r.id

Insertable(d, r) == ActiveFree(d, r) /\ KeyFree(d, r) /\ EntryFree(d, r)

EntryOf(d, r, n) == IF HasRoom(d, r) THEN {[slot |-> r.slot, id |-> r.id, booking |-> n]} ELSE {}

\* The database after the writes of createOnce on snapshot d.
Written(d, r) ==
    LET n == Len(d.bookings) + 1 IN
    [commits  |-> d.commits + 1,
     capacity |-> d.capacity,
     reserved |-> [d.reserved EXCEPT ![r.slot] = IF HasRoom(d, r) THEN @ + 1 ELSE @],
     bookings |-> Append(d.bookings, [student |-> r.student, slot |-> r.slot,
                                      status |-> IF HasRoom(d, r) THEN Held ELSE Waitlisted]),
     records  |-> d.records \cup {[key |-> r.key, student |-> r.student, slot |-> r.slot,
                                   booking |-> n]},
     entries  |-> d.entries \cup EntryOf(d, r, n)]

-----------------------------------------------------------------------------
(* Calls.  A call is with its client, about to try again, has read its     *)
(* snapshot, holds the write lock, has its answer on the way, or got it.   *)

Nothing    == [kind |-> "nothing", booking |-> 0]
Booked(n)  == [kind |-> "booking", booking |-> n]
Reuse      == [kind |-> "reuse", booking |-> 0]
Conflict   == [kind |-> "conflict", booking |-> 0]
Failed     == [kind |-> "failed", booking |-> 0]
Exhausted  == [kind |-> "exhausted", booking |-> 0]

Empty == [commits |-> 0, capacity |-> [s \in Slots |-> 0], reserved |-> [s \in Slots |-> 0],
          bookings |-> << >>, records |-> {}, entries |-> {}]

\* Without a transaction there is no snapshot: snap is Empty then.
AtClient == [pc |-> "client", attempt |-> 0, snap |-> Empty, old |-> {}, answer |-> Nothing]

NoAudit == [pc |-> "idle", slot |-> CHOOSE s \in Slots : TRUE, reserved |-> 0, since |-> 0]

Init ==
    /\ db = [Empty EXCEPT !.capacity = InitialCapacity, !.reserved = InitialReserved]
    /\ expired = {}
    /\ lock = None
    /\ call = [c \in Calls |-> AtClient]
    /\ audit = NoAudit
    /\ faults = 0

\* The client sends its request, or Create tries again: createOnce reads the
\* clock, begins, and takes its snapshot by reading the idempotency record.
Begin(c) ==
    /\ call[c].pc \in {"client", "again"}
    /\ call' = [call EXCEPT ![c].pc = "read", ![c].attempt = @ + 1,
                            ![c].snap = db, ![c].old = expired]
    /\ UNCHANGED <<db, expired, lock, audit, faults>>

Reply(a) == [pc |-> "reply", attempt |-> 0, snap |-> Empty, old |-> {}, answer |-> a]

ReplayAnswer(x, r) == IF Matches(x, r) THEN Booked(x.booking) ELSE Reuse

\* A live record answers the call, and nothing is written.
Replay(c) ==
    LET r == Request[c] IN
    /\ call[c].pc = "read"
    /\ \E x \in LiveRecord(call[c].snap, call[c].old, r) :
          call' = [call EXCEPT ![c] = Reply(ReplayAnswer(x, r))]
    /\ UNCHANGED <<db, expired, lock, audit, faults>>

Fresh(c) == call[c].snap.commits = db.commits

ToWrite(c) ==
    /\ call[c].pc = "read"
    /\ LiveRecord(call[c].snap, call[c].old, Request[c]) = {}

\* The first write: ReserveSeat, or the insert of a waitlisted booking.
Acquire(c) ==
    /\ ToWrite(c)
    /\ lock = None /\ Fresh(c)
    /\ lock' = c
    /\ call' = [call EXCEPT ![c].pc = "write"]
    /\ UNCHANGED <<db, expired, audit, faults>>

GivesUp(attempt) == attempt >= MaxAttempts

Retry_CountsAnew(n) ==
    [pc |-> "again", attempt |-> 0, snap |-> Empty, old |-> {}, answer |-> Nothing]

Retry(n) == [pc |-> "again", attempt |-> n, snap |-> Empty, old |-> {}, answer |-> Nothing]

\* ... fails, the transaction is rolled back, and Create tries again after a
\* short sleep or gives up.  That can happen at any time, for the lock and the
\* last commit may be those of a transaction on other tables.
Busy(c) ==
    /\ ToWrite(c)
    /\ call' = [call EXCEPT ![c] =
                  IF GivesUp(@.attempt) THEN Reply(Exhausted)
                  ELSE Retry(@.attempt)]
    /\ UNCHANGED <<db, expired, lock, audit, faults>>

Commit(c) ==
    LET r == Request[c]  d == call[c].snap IN
    /\ call[c].pc = "write"
    /\ Insertable(d, r)
    /\ db' = Written(d, r)
    /\ lock' = None
    /\ call' = [call EXCEPT ![c] = Reply(Booked(Len(d.bookings) + 1))]
    /\ UNCHANGED <<expired, audit, faults>>

RolledBack(c) == IF lock = c THEN None ELSE lock

\* A unique index refuses an insert.  CreateBooking comes first, then the
\* ledger entry, whose error is not a conflict, then the idempotency record.
Rollback(c) ==
    LET r == Request[c]  d == call[c].snap IN
    /\ call[c].pc = "write"
    /\ ~Insertable(d, r)
    /\ lock' = RolledBack(c)
    /\ call' = [call EXCEPT ![c] = Reply(IF ActiveFree(d, r) /\ ~EntryFree(d, r)
                                            THEN Failed ELSE Conflict)]
    /\ UNCHANGED <<db, expired, audit, faults>>

\* The client gets the answer; one that says nothing about the request makes it
\* send the request again.
Receive(c) ==
    /\ call[c].pc = "reply"
    /\ call' = [call EXCEPT ![c] =
                  IF @.answer = Exhausted THEN AtClient ELSE [@ EXCEPT !.pc = "done"]]
    /\ UNCHANGED <<db, expired, lock, audit, faults>>

-----------------------------------------------------------------------------
(* Faults, time, and the callers beside Create.                            *)

Fault == faults < MaxFaults /\ faults' = faults + 1

\* The client disconnects or times out: the cancelled context rolls the
\* transaction back, and the client is free to send its request again.
Disconnect(c) ==
    /\ call[c].pc \in {"again", "read", "write"}
    /\ Fault
    /\ lock' = RolledBack(c)
    /\ call' = [call EXCEPT ![c] = AtClient]
    /\ UNCHANGED <<db, expired, audit>>

LoseAnswer(c) ==
    /\ call[c].pc = "reply"
    /\ Fault
    /\ call' = [call EXCEPT ![c] = AtClient]
    /\ UNCHANGED <<db, expired, lock, audit>>

\* The process stops: what is committed stays, everything else is gone.
Crash ==
    /\ Fault
    /\ lock' = None
    /\ call' = [c \in Calls |-> IF call[c].pc = "done" THEN call[c] ELSE AtClient]
    /\ UNCHANGED <<db, expired, audit>>

\* 24 hours pass after the booking of a key.
Expire(k) ==
    /\ \E x \in db.records : x.key = k
    /\ Cardinality(expired) < MaxExpired
    /\ expired' = expired \cup {k}
    /\ UNCHANGED <<db, lock, call, audit, faults>>

AdjustCapacity(s, n) ==
    /\ lock = None
    /\ db.commits < MaxCommits
    /\ db.reserved[s] <= n
    /\ db' = [db EXCEPT !.commits = @ + 1, !.capacity[s] = n]
    /\ UNCHANGED <<expired, lock, call, audit, faults>>

\* Reconcile: SlotByID and LedgerBalance are two statements without a
\* transaction; each reads what is committed when it runs.
ReadReserved(s) ==
    /\ audit.pc = "idle"
    /\ audit' = [pc |-> "read", slot |-> s, reserved |-> db.reserved[s], since |-> db.commits]
    /\ UNCHANGED <<db, expired, lock, call, faults>>

\* The report is not kept: ReconcileDrift says what it would be in every state
\* the second read can happen in.
ReadBalance ==
    /\ audit.pc = "read"
    /\ audit' = NoAudit
    /\ UNCHANGED <<db, expired, lock, call, faults>>

-----------------------------------------------------------------------------
\* What the server does of a call once it is sent.
Resume(c)  == call[c].pc = "again" /\ Begin(c)
Attempt(c) == Replay(c) \/ Acquire(c) \/ Busy(c)
Finish(c)  == Commit(c) \/ Rollback(c)
Serve(c)   == Resume(c) \/ Attempt(c) \/ Finish(c)

Next ==
    \/ \E c \in Calls : \/ Begin(c) \/ Attempt(c) \/ Finish(c) \/ Receive(c)
                        \/ Disconnect(c) \/ LoseAnswer(c)
    \/ Crash
    \/ \E k \in Keys : Expire(k)
    \/ \E s \in Slots, n \in Sizes : AdjustCapacity(s, n)
    \/ \E s \in Slots : ReadReserved(s)
    \/ ReadBalance

\* The server works on every call it has.  Nothing is assumed of clients, who
\* may stop sending, nor of operators, clocks and faults.
Fairness == \A c \in Calls : WF_vars(Serve(c))

Spec     == Init /\ [][Next]_vars
FairSpec == Spec /\ Fairness

-----------------------------------------------------------------------------
CallState == [pc : {"client", "again", "read", "write", "reply", "done"}, attempt : 0..MaxAttempts,
              snap : Database, old : SUBSET Keys,
              answer : [kind : {"nothing", "booking", "reuse", "conflict", "failed", "exhausted"},
                        booking : Nat]]

\* The database, the calls and the running Reconcile are of their types, and the
\* lock is held by the one call that is writing.
ContentionTypeOK ==
    /\ db \in Database
    /\ expired \subseteq Keys
    /\ lock \in Calls \cup {None}
    /\ call \in [Calls -> CallState]
    /\ \A c \in Calls : call[c].pc = "write" <=> lock = c
    /\ audit \in [pc : {"idle", "read"}, slot : Slots,
                  reserved : Nat, since : Nat]
    /\ faults \in 0..MaxFaults

\* Although every call writes what it decided from a snapshot taken earlier, the
\* counter of a slot, its held bookings and its ledger agree in every committed
\* database, but for what the slot was created with, and no slot is oversold.
CountsAgree ==
    \A s \in Slots : /\ db.reserved[s] = InitialReserved[s] + Cardinality(HeldIn(db, s))
                     /\ db.reserved[s] = InitialReserved[s] + Balance(db, s)
                     /\ db.reserved[s] <= db.capacity[s]

\* A key makes one booking, however often and however late it is sent, and the
\* booking has the student and the slot the key was sent with.
OncePerKey ==
    \A x, y \in db.records :
        /\ x.key = y.key \/ x.booking = y.booking => x = y
        /\ x.booking \in DOMAIN db.bookings
        /\ Matches(db.bookings[x.booking], x)

\* The difference Reconcile is about to report is what the slot was created with
\* (it never goes away, and is a conflict unless it is 0), give or take the
\* commits between its two reads.
ReconcileDrift ==
    LET commits    == db.commits - audit.since
        difference == audit.reserved - Balance(db, audit.slot) IN
    audit.pc = "read" => difference - InitialReserved[audit.slot] \in (-commits)..commits

\* Every call the server took is answered, or its client gone, however often
\* others commit before it: Create's attempts are counted, and whoever holds
\* the write lock gives it back.
Answered ==
    \A c \in Calls :
        (call[c].pc \in {"again", "read", "write"}) ~> (call[c].pc \in {"reply", "client"})

-----------------------------------------------------------------------------
(* The calls implement the booking desk.                                   *)

Desk == INSTANCE BookingDesk WITH
    Taken   <- InitialReserved,
    seats   <- db.capacity,
    book    <- [n \in DOMAIN db.bookings |->
                  [student |-> db.bookings[n].student, slot |-> db.bookings[n].slot,
                   seated |-> db.bookings[n].status = Held]],
    keyed   <- { <<x.key, x.booking>> : x \in db.records },
    stamped <- { <<e.id, e.booking>> : e \in db.entries },
    told    <- [c \in Calls |-> IF call[c].pc = "done" THEN call[c].answer ELSE Nothing]

\* However calls overlap, retry, get lost and are repeated, the clients see a
\* desk that serves one request at a time and tells everyone the truth.
ImplementsDesk == Desk!Spec

-----------------------------------------------------------------------------
(* The calls serve the seat register of SlotLedger, which takes a call of  *)
(* Create as one step.                                                     *)

WaitingFor(s) == { n \in DOMAIN db.bookings : db.bookings[n].slot = s
                                              /\ db.bookings[n].status = Waitlisted }

Seats == INSTANCE SeatRegister WITH
    Taken   <- InitialReserved,
    places  <- db.capacity,
    open    <- Slots,
    seated  <- [s \in Slots |-> HeldIn(db, s)],
    waiting <- [s \in Slots |-> WaitingFor(s)],
    last    <- Len(db.bookings)

\* Overlapping calls, rolled back, repeated and adjusted around, seat people as
\* calls one at a time do: in order of arrival, and only where there is room.
ServesRegister == Seats!Spec
=============================================================================
