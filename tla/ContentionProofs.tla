-------------------------- MODULE ContentionProofs --------------------------
(***************************************************************************)
(* Proofs about Contention, for any number of calls, keys, students and    *)
(* slots and every bound.  The argument: a transaction that holds the      *)
(* write lock works on the current database (WritersAreCurrent), so every  *)
(* commit is a step of the booking desk.                                   *)
(***************************************************************************)
EXTENDS Contention, FiniteSetTheorems, SequenceTheorems, TLAPS

-----------------------------------------------------------------------------
(* The inductive invariant.                                                *)

\* Database e is database d or a later one.
LaterThan(e, d) ==
    /\ d.commits <= e.commits
    /\ d.commits = e.commits => d = e
    /\ d.records \subseteq e.records
    /\ d.entries \subseteq e.entries
    /\ Len(d.bookings) <= Len(e.bookings)
    /\ \A n \in 1..Len(d.bookings) : e.bookings[n] = d.bookings[n]

AttemptsLeft ==
    \A c \in Calls : /\ call[c].pc = "client" => call[c].attempt = 0
                     /\ call[c].pc = "again" => call[c].attempt < MaxAttempts

\* A snapshot is the database of some time ago, and that of the call that is
\* writing is the database itself.
WritersAreCurrent ==
    \A c \in Calls :
        /\ call[c].pc \in {"read", "write"} =>
              LaterThan(db, call[c].snap) /\ call[c].old \subseteq expired
        /\ call[c].pc = "write" =>
              /\ call[c].snap = db
              /\ LiveRecord(db, call[c].old, Request[c]) = {}

\* Bookings, records and entries point at each other.
Indexed ==
    /\ \A n \in DOMAIN db.bookings : \E x \in db.records : x.booking = n
    /\ \A e \in db.entries : /\ e.booking \in DOMAIN db.bookings
                             /\ db.bookings[e.booking].slot = e.slot
    /\ IsFiniteSet(db.entries)

\* Answer a tells the truth about request r.
Tells(r, a) ==
    \/ \E x \in db.records : x.key = r.key /\ Matches(x, r) /\ a = Booked(x.booking)
    \/ \E x \in db.records : x.key = r.key /\ ~Matches(x, r) /\ a = Reuse
    \/ \E x \in db.records : x.key # r.key /\ Matches(x, r) /\ a = Conflict
    \/ \E x \in db.records : x.key = r.key /\ r.key \in expired /\ a = Conflict
    \/ \E e \in db.entries : e.slot = r.slot /\ e.id = r.id /\ a = Failed

AnswersAreTrue ==
    \A c \in Calls :
        /\ call[c].pc = "reply" /\ call[c].answer # Exhausted => Tells(Request[c], call[c].answer)
        /\ call[c].pc = "done" => Tells(Request[c], call[c].answer)

AuditStarted == audit.pc = "read" => audit.since <= db.commits

\* What the proofs of most steps need to know of the constants.
LEMMA CallFacts ==
    /\ Request \in [Calls -> RequestRow]
    /\ None \notin Calls
    /\ Slots # {}
    /\ Sizes \subseteq Nat \ {0}
    /\ MaxAttempts \in Nat \ {0}
    /\ MaxCommits \in Nat /\ MaxFaults \in Nat
  BY CallAssumption

USE CallFacts

-----------------------------------------------------------------------------
(* Types.                                                                  *)

LEMMA RequestType == \A c \in Calls : Request[c] \in RequestRow
  OBVIOUS

LEMMA EmptyType == Empty \in Database
  BY DEF Empty, Database, BookingRow

LEMMA AtClientType == AtClient \in CallState
<1>1. "client" \in {"client", "again", "read", "write", "reply", "done"} /\ 0 \in 0..MaxAttempts
  OBVIOUS
<1> QED  BY <1>1, EmptyType DEF AtClient, CallState, Nothing

\* What the writes of createOnce leave in each table.
LEMMA WrittenTables ==
    ASSUME NEW d \in Database, NEW r \in RequestRow
    PROVE  /\ Written(d, r) \in Database
           /\ Written(d, r).commits = d.commits + 1
           /\ Written(d, r).capacity = d.capacity
           /\ \A s \in Slots : Written(d, r).reserved[s] =
                 IF s = r.slot /\ HasRoom(d, r) THEN d.reserved[s] + 1 ELSE d.reserved[s]
           /\ Written(d, r).bookings = Append(d.bookings,
                 [student |-> r.student, slot |-> r.slot,
                  status |-> IF HasRoom(d, r) THEN Held ELSE Waitlisted])
           /\ Written(d, r).records = d.records \cup
                 {[key |-> r.key, student |-> r.student, slot |-> r.slot,
                   booking |-> Len(d.bookings) + 1]}
           /\ Written(d, r).entries = d.entries \cup EntryOf(d, r, Len(d.bookings) + 1)
<1> DEFINE n == Len(d.bookings) + 1
           row == [student |-> r.student, slot |-> r.slot,
                   status |-> IF HasRoom(d, r) THEN Held ELSE Waitlisted]
           rec == [key |-> r.key, student |-> r.student, slot |-> r.slot, booking |-> n]
<1>1. /\ d.commits \in Nat /\ d.capacity \in [Slots -> Nat] /\ d.reserved \in [Slots -> Nat]
      /\ d.bookings \in Seq(BookingRow) /\ d.records \in SUBSET RecordRow
      /\ d.entries \in SUBSET EntryRow
  BY DEF Database
<1>2. r.key \in Keys /\ r.student \in Students /\ r.slot \in Slots /\ r.id \in RequestIds
  BY DEF RequestRow
<1>3. Len(d.bookings) \in Nat /\ n \in Nat
  BY <1>1, LenProperties
<1>4. row \in BookingRow /\ rec \in RecordRow
  BY <1>2, <1>3 DEF BookingRow, RecordRow
<1>5. Append(d.bookings, row) \in Seq(BookingRow)
  BY <1>1, <1>4, AppendProperties
<1>6. EntryOf(d, r, n) \in SUBSET EntryRow
  BY <1>2, <1>3 DEF EntryOf, EntryRow
<1>7. [d.reserved EXCEPT ![r.slot] = IF HasRoom(d, r) THEN @ + 1 ELSE @] \in [Slots -> Nat]
  BY <1>1, <1>2
<1> QED
  BY <1>1, <1>4, <1>5, <1>6, <1>7 DEF Database, Written

\* One more booking is one more held booking of its slot exactly if it is held.
LEMMA HeldAppend ==
    ASSUME NEW d \in Database, NEW e \in Database, NEW row \in BookingRow, NEW s,
           e.bookings = Append(d.bookings, row)
    PROVE  /\ Cardinality(HeldIn(d, s)) \in Nat
           /\ Cardinality(HeldIn(e, s)) = Cardinality(HeldIn(d, s))
                + IF row.slot = s /\ row.status = Held THEN 1 ELSE 0
<1> DEFINE n == Len(d.bookings) + 1
<1>1. d.bookings \in Seq(BookingRow)
  BY DEF Database
<1>2. /\ Len(d.bookings) \in Nat /\ DOMAIN d.bookings = 1..Len(d.bookings)
      /\ DOMAIN e.bookings = 1..n
      /\ \A i \in 1..Len(d.bookings) : e.bookings[i] = d.bookings[i]
      /\ e.bookings[n] = row
  BY <1>1, LenProperties, AppendProperties
<1>3. IsFiniteSet(1..Len(d.bookings))
  BY <1>2, FS_Interval
<1>4. HeldIn(d, s) \in SUBSET (1..Len(d.bookings))
  BY <1>2 DEF HeldIn
<1>5. IsFiniteSet(HeldIn(d, s))
  BY <1>3, <1>4, FS_Subset
<1>6. Cardinality(HeldIn(d, s)) \in Nat
  BY <1>5, FS_CardinalityType
<1>7. n \notin HeldIn(d, s)
  BY <1>2 DEF HeldIn
<1>8. CASE row.slot = s /\ row.status = Held
  <2>1. HeldIn(e, s) = HeldIn(d, s) \cup {n}
    BY <1>2, <1>8 DEF HeldIn
  <2> QED  BY <2>1, <1>5, <1>6, <1>7, <1>8, FS_AddElement, ZenonT(40)
<1>9. CASE ~(row.slot = s /\ row.status = Held)
  <2>1. HeldIn(e, s) = HeldIn(d, s)
    BY <1>2, <1>9 DEF HeldIn
  <2> QED  BY <2>1, <1>6, <1>9
<1> QED  BY <1>8, <1>9

\* One more ledger entry adds one to the balance of its slot.
LEMMA BalanceAdd ==
    ASSUME NEW d \in Database, NEW e \in Database, NEW x, NEW s, IsFiniteSet(d.entries),
           x \notin d.entries, e.entries = d.entries \cup {x}
    PROVE  /\ Balance(d, s) \in Nat /\ IsFiniteSet(e.entries)
           /\ Balance(e, s) = Balance(d, s) + IF x.slot = s THEN 1 ELSE 0
<1> DEFINE mine == { y \in d.entries : y.slot = s }
<1>1. IsFiniteSet(mine) /\ Cardinality(mine) \in Nat
  BY FS_Subset, FS_CardinalityType
<1>2. IsFiniteSet(e.entries)
  BY FS_AddElement
<1>3. CASE x.slot = s
  <2>1. { y \in e.entries : y.slot = s } = mine \cup {x} /\ x \notin mine
    BY <1>3
  <2>2. Cardinality(mine \cup {x}) = Cardinality(mine) + 1
    BY <2>1, <1>1, FS_AddElement
  <2> QED  BY <2>1, <2>2, <1>1, <1>2, <1>3 DEF Balance
<1>4. CASE x.slot # s
  <2>1. { y \in e.entries : y.slot = s } = mine
    BY <1>4
  <2>2. Balance(e, s) = Balance(d, s) /\ Balance(d, s) \in Nat
    BY <2>1, <1>1 DEF Balance
  <2> QED  BY <2>2, <1>2, <1>4
<1> QED  BY <1>3, <1>4

LEMMA BalanceType ==
    ASSUME NEW d, NEW s, IsFiniteSet(d.entries)
    PROVE  Balance(d, s) \in Nat
<1>1. IsFiniteSet({ y \in d.entries : y.slot = s })
  BY FS_Subset
<1> QED  BY <1>1, FS_CardinalityType DEF Balance

-----------------------------------------------------------------------------
(* Databases only grow.                                                    *)

LEMMA WrittenIsLater ==
    ASSUME NEW d \in Database, NEW r \in RequestRow
    PROVE  LaterThan(Written(d, r), d)
<1> DEFINE row == [student |-> r.student, slot |-> r.slot,
                   status |-> IF HasRoom(d, r) THEN Held ELSE Waitlisted]
<1>1. d.bookings \in Seq(BookingRow) /\ d.commits \in Nat
  BY DEF Database
<1>2. /\ Len(Append(d.bookings, row)) = Len(d.bookings) + 1
      /\ \A n \in 1..Len(d.bookings) : Append(d.bookings, row)[n] = d.bookings[n]
  <2>1. row \in BookingRow
    BY DEF BookingRow, RequestRow
  <2> QED  BY <1>1, <2>1, AppendProperties
<1>3. Len(d.bookings) \in Nat
  BY <1>1, LenProperties
<1>4. Written(d, r).commits = d.commits + 1
  BY WrittenTables
<1>5. d.records \subseteq Written(d, r).records /\ d.entries \subseteq Written(d, r).entries
  BY WrittenTables
<1>6. /\ Len(Written(d, r).bookings) = Len(d.bookings) + 1
      /\ \A n \in 1..Len(d.bookings) : Written(d, r).bookings[n] = d.bookings[n]
  <2>1. Written(d, r).bookings = Append(d.bookings, row)
    BY WrittenTables
  <2> QED  BY <2>1, <1>2
<1> QED
  BY <1>1, <1>3, <1>4, <1>5, <1>6 DEF LaterThan

LEMMA LaterTransitive ==
    ASSUME NEW d \in Database, NEW e \in Database, NEW f \in Database,
           LaterThan(e, d), LaterThan(f, e)
    PROVE  LaterThan(f, d)
<1>1. /\ d.commits \in Nat /\ e.commits \in Nat /\ f.commits \in Nat
      /\ Len(d.bookings) \in Nat /\ Len(e.bookings) \in Nat /\ Len(f.bookings) \in Nat
  BY LenProperties DEF Database
<1> QED  BY <1>1 DEF LaterThan

LEMMA LaterReflexive == ASSUME NEW d \in Database PROVE LaterThan(d, d)
<1>1. d.commits \in Nat /\ Len(d.bookings) \in Nat
  BY LenProperties DEF Database
<1> QED  BY <1>1 DEF LaterThan

\* An operator's adjustment changes the capacity only.
LEMMA AdjustedDb ==
    ASSUME ContentionTypeOK, NEW s \in Slots, NEW n \in Sizes, AdjustCapacity(s, n)
    PROVE  /\ db' \in Database
           /\ db'.commits = db.commits + 1
           /\ db'.capacity = [db.capacity EXCEPT ![s] = n]
           /\ db'.reserved = db.reserved /\ db'.bookings = db.bookings
           /\ db'.records = db.records /\ db'.entries = db.entries
           /\ LaterThan(db', db)
<1>1. /\ db.commits \in Nat /\ db.capacity \in [Slots -> Nat] /\ db.reserved \in [Slots -> Nat]
      /\ db.bookings \in Seq(BookingRow) /\ db.records \in SUBSET RecordRow
      /\ db.entries \in SUBSET EntryRow
  BY DEF ContentionTypeOK, Database
<1>2. /\ db'.commits = db.commits + 1
      /\ db'.capacity = [db.capacity EXCEPT ![s] = n]
      /\ db'.reserved = db.reserved /\ db'.bookings = db.bookings
      /\ db'.records = db.records /\ db'.entries = db.entries
  BY DEF AdjustCapacity, ContentionTypeOK, Database
<1>3. db' \in Database
  <2>1. db = [commits |-> db.commits, capacity |-> db.capacity, reserved |-> db.reserved,
              bookings |-> db.bookings, records |-> db.records, entries |-> db.entries]
    BY DEF ContentionTypeOK, Database
  <2>2. db' = [commits |-> db'.commits, capacity |-> db'.capacity, reserved |-> db'.reserved,
               bookings |-> db'.bookings, records |-> db'.records, entries |-> db'.entries]
    BY <2>1 DEF AdjustCapacity
  <2>3. n \in Nat
    OBVIOUS
  <2>4. db'.commits \in Nat /\ db'.capacity \in [Slots -> Nat]
    BY <1>1, <1>2, <2>3
  <2> QED  BY <1>1, <1>2, <2>2, <2>4 DEF Database
<1>4. Len(db.bookings) \in Nat
  BY <1>1, LenProperties
<1>5. LaterThan(db', db)
  BY <1>1, <1>2, <1>4 DEF LaterThan
<1> QED  BY <1>2, <1>3, <1>5

-----------------------------------------------------------------------------
(* Every step keeps the types.                                             *)

LEMMA ReplyType ==
    ASSUME NEW k \in {"booking", "reuse", "conflict", "failed", "exhausted"}, NEW n \in Nat
    PROVE  Reply([kind |-> k, booking |-> n]) \in CallState
<1>1. 0 \in 0..MaxAttempts
  OBVIOUS
<1> QED  BY <1>1, EmptyType DEF Reply, CallState

LEMMA RetryType ==
    ASSUME NEW n \in 0..MaxAttempts
    PROVE  Retry(n) \in CallState
  BY EmptyType DEF Retry, CallState, Nothing

\* What typing the state of one call gives.
LEMMA CallFields ==
    ASSUME ContentionTypeOK, NEW c \in Calls
    PROVE  /\ call[c] \in CallState
           /\ call[c].snap \in Database /\ call[c].old \subseteq Keys
           /\ call[c].attempt \in 0..MaxAttempts
           /\ Request[c] \in RequestRow
           /\ call[c] = [pc |-> call[c].pc, attempt |-> call[c].attempt, snap |-> call[c].snap,
                         old |-> call[c].old, answer |-> call[c].answer]
<1>1. call[c] \in CallState
  BY DEF ContentionTypeOK
<1>2. Request[c] \in RequestRow
  OBVIOUS
<1> QED  BY <1>1, <1>2 DEF CallState

TypedCalls == /\ ContentionTypeOK
              /\ AttemptsLeft

LEMMA TypeInit == Init => TypedCalls
<1> SUFFICES ASSUME Init PROVE TypedCalls
  OBVIOUS
<1>2. db = [commits |-> 0, capacity |-> InitialCapacity, reserved |-> InitialReserved,
            bookings |-> << >>, records |-> {}, entries |-> {}]
  BY DEF Init, Empty
<1>3. InitialCapacity \in [Slots -> Nat] /\ InitialReserved \in [Slots -> Nat]
      /\ << >> \in Seq(BookingRow)
  <2>1. \A s \in Slots : InitialCapacity[s] \in Nat
    BY CallAssumption
  <2> QED  BY <2>1, CallAssumption
<1>4. db \in Database
  BY <1>2, <1>3 DEF Database
<1>5. audit \in [pc : {"idle", "read"}, slot : Slots, reserved : Nat, since : Nat]
  <2>1. (CHOOSE s \in Slots : TRUE) \in Slots
    OBVIOUS
  <2> QED  BY <2>1 DEF Init, NoAudit
<1>6. \A c \in Calls : call[c].pc = "client" /\ call[c].attempt = 0
  BY DEF Init, AtClient
<1>7. None \notin Calls /\ lock = None
  BY DEF Init
<1> QED
  BY <1>4, <1>5, <1>6, <1>7, AtClientType DEF Init, TypedCalls, ContentionTypeOK, AttemptsLeft

\* A step that replaces the state of one call by v.
LEMMA CallReplaced ==
    ASSUME TypedCalls, NEW c \in Calls, NEW v \in CallState,
           call' = [call EXCEPT ![c] = v],
           v.pc = "client" => v.attempt = 0, v.pc = "again" => v.attempt < MaxAttempts,
           v.pc = "write" <=> lock' = c,
           lock' = lock \/ (lock' = c /\ lock = None) \/ (lock' = None /\ lock = c)
    PROVE  /\ call' \in [Calls -> CallState]
           /\ lock' \in Calls \cup {None}
           /\ \A x \in Calls : call'[x].pc = "write" <=> lock' = x
           /\ AttemptsLeft'
<1>1. call \in [Calls -> CallState] /\ lock \in Calls \cup {None}
  BY DEF TypedCalls, ContentionTypeOK
<1>2. /\ call' \in [Calls -> CallState] /\ call'[c] = v
      /\ \A x \in Calls \ {c} : call'[x] = call[x]
  BY <1>1
<1>3. \A x \in Calls : call[x].pc = "write" <=> lock = x
  BY DEF TypedCalls, ContentionTypeOK
<1>4. \A x \in Calls : call'[x].pc = "write" <=> lock' = x
  BY <1>1, <1>2, <1>3
<1>5. AttemptsLeft'
  BY <1>2 DEF TypedCalls, AttemptsLeft
<1> QED  BY <1>1, <1>2, <1>4, <1>5

\* The state of the call after each of its steps.
LEMMA BeginState ==
    ASSUME TypedCalls, NEW c \in Calls, Begin(c)
    PROVE  \E v \in CallState : /\ v.pc = "read" /\ v.snap = db /\ v.old = expired
                               /\ call' = [call EXCEPT ![c] = v]
<1> DEFINE v == [pc |-> "read", attempt |-> call[c].attempt + 1, snap |-> db,
                 old |-> expired, answer |-> call[c].answer]
<1>1. call \in [Calls -> CallState] /\ db \in Database /\ expired \in SUBSET Keys
  BY DEF TypedCalls, ContentionTypeOK
<1>2. /\ call[c].attempt \in 0..MaxAttempts
      /\ call[c] = [pc |-> call[c].pc, attempt |-> call[c].attempt, snap |-> call[c].snap,
                    old |-> call[c].old, answer |-> call[c].answer]
      /\ call[c] \in CallState
  BY CallFields DEF TypedCalls
<1>3. call[c].attempt + 1 \in 0..MaxAttempts
  BY <1>2 DEF Begin, TypedCalls, AttemptsLeft
<1>4. call[c].answer \in [kind : {"nothing", "booking", "reuse", "conflict", "failed", "exhausted"},
                          booking : Nat]
  BY <1>2 DEF CallState
<1>5. v \in CallState
  BY <1>1, <1>3, <1>4 DEF CallState
<1>6. call' = [call EXCEPT ![c] = v]
  BY <1>1, <1>2 DEF Begin
<1> QED  BY <1>5, <1>6

LEMMA AcquireState ==
    ASSUME TypedCalls, NEW c \in Calls, Acquire(c)
    PROVE  \E v \in CallState : /\ v.pc = "write" /\ v.snap = call[c].snap /\ v.old = call[c].old
                                /\ call' = [call EXCEPT ![c] = v]
<1> DEFINE v == [pc |-> "write", attempt |-> call[c].attempt, snap |-> call[c].snap,
                 old |-> call[c].old, answer |-> call[c].answer]
<1>1. call \in [Calls -> CallState]
  BY DEF TypedCalls, ContentionTypeOK
<1>2. /\ call[c] = [pc |-> call[c].pc, attempt |-> call[c].attempt, snap |-> call[c].snap,
                    old |-> call[c].old, answer |-> call[c].answer]
      /\ call[c] \in CallState
  BY CallFields DEF TypedCalls
<1>3. v \in CallState
  BY <1>2 DEF CallState
<1>4. call' = [call EXCEPT ![c] = v]
  <2>1. [call[c] EXCEPT !.pc = "write"] = v
    BY <1>2
  <2>2. call' = [call EXCEPT ![c] = [call[c] EXCEPT !.pc = "write"]]
    BY DEF Acquire
  <2> QED  BY <2>1, <2>2
<1> QED  BY <1>3, <1>4

LEMMA ReceiveState ==
    ASSUME TypedCalls, NEW c \in Calls, Receive(c), call[c].answer # Exhausted
    PROVE  \E v \in CallState : /\ v.pc = "done" /\ v.answer = call[c].answer
                                /\ call' = [call EXCEPT ![c] = v]
<1> DEFINE v == [pc |-> "done", attempt |-> call[c].attempt, snap |-> call[c].snap,
                 old |-> call[c].old, answer |-> call[c].answer]
<1>1. call \in [Calls -> CallState]
  BY DEF TypedCalls, ContentionTypeOK
<1>2. /\ call[c] = [pc |-> call[c].pc, attempt |-> call[c].attempt, snap |-> call[c].snap,
                    old |-> call[c].old, answer |-> call[c].answer]
      /\ call[c] \in CallState
  BY CallFields DEF TypedCalls
<1>3. v \in CallState
  BY <1>2 DEF CallState
<1>4. call' = [call EXCEPT ![c] = v]
  <2>1. [call[c] EXCEPT !.pc = "done"] = v
    BY <1>2
  <2>2. call' = [call EXCEPT ![c] = [call[c] EXCEPT !.pc = "done"]]
    BY DEF Receive
  <2> QED  BY <2>1, <2>2
<1> QED  BY <1>3, <1>4

\* The answer of a replay, as Reply wants it.
LEMMA ReplayReply ==
    ASSUME TypedCalls, NEW c \in Calls, NEW x \in LiveRecord(call[c].snap, call[c].old, Request[c])
    PROVE  /\ x \in call[c].snap.records /\ x \in RecordRow /\ x.key = Request[c].key
           /\ Reply(ReplayAnswer(x, Request[c])) \in CallState
<1>1. call[c].snap.records \in SUBSET RecordRow
  BY CallFields DEF TypedCalls, Database
<1>2. x \in call[c].snap.records /\ x \in RecordRow /\ x.key = Request[c].key
  BY <1>1 DEF LiveRecord
<1>3. x.booking \in Nat
  BY <1>2 DEF RecordRow
<1> QED
  BY <1>2, <1>3, ReplyType DEF ReplayAnswer, Booked, Reuse

\* Steps of a call that touch no lock.
LEMMA TypedQuietStep ==
    ASSUME TypedCalls, NEW c \in Calls, NEW v \in CallState,
           call' = [call EXCEPT ![c] = v], v.pc # "write",
           v.pc = "client" => v.attempt = 0, v.pc = "again" => v.attempt < MaxAttempts,
           call[c].pc # "write", UNCHANGED <<db, expired, lock, audit>>, faults' \in 0..MaxFaults
    PROVE  TypedCalls'
<1>1. lock # c
  BY DEF TypedCalls, ContentionTypeOK
<1>2. /\ call' \in [Calls -> CallState]
      /\ lock' \in Calls \cup {None}
      /\ \A x \in Calls : call'[x].pc = "write" <=> lock' = x
      /\ AttemptsLeft'
  BY <1>1, CallReplaced
<1> QED  BY <1>2 DEF TypedCalls, ContentionTypeOK

\* Steps of a call that give the lock back.
LEMMA TypedEndOfWrite ==
    ASSUME TypedCalls, NEW c \in Calls, NEW v \in CallState,
           call' = [call EXCEPT ![c] = v], v.pc # "write",
           v.pc = "client" => v.attempt = 0, v.pc # "again",
           lock' = RolledBack(c), db' \in Database,
           UNCHANGED <<expired, audit>>, faults' \in 0..MaxFaults
    PROVE  TypedCalls'
<1>1. lock = c \/ lock # c
  OBVIOUS
<1>2. /\ lock' = lock \/ (lock' = None /\ lock = c)
      /\ lock' # c
  BY DEF RolledBack
<1>3. /\ call' \in [Calls -> CallState]
      /\ lock' \in Calls \cup {None}
      /\ \A x \in Calls : call'[x].pc = "write" <=> lock' = x
      /\ AttemptsLeft'
  BY <1>2, CallReplaced
<1> QED  BY <1>3 DEF TypedCalls, ContentionTypeOK

LEMMA TypeBegin == ASSUME TypedCalls, NEW c \in Calls, Begin(c) PROVE TypedCalls'
<1>1. PICK v \in CallState : v.pc = "read" /\ call' = [call EXCEPT ![c] = v]
  BY BeginState
<1>2. call[c].pc # "write" /\ UNCHANGED <<db, expired, lock, audit, faults>>
  BY DEF Begin
<1>3. faults' \in 0..MaxFaults
  BY <1>2 DEF TypedCalls, ContentionTypeOK
<1> QED  BY <1>1, <1>2, <1>3, TypedQuietStep

LEMMA TypeAttempt == ASSUME TypedCalls, NEW c \in Calls, Attempt(c) PROVE TypedCalls'
<1>1. CASE Replay(c)
  <2>1. PICK x \in LiveRecord(call[c].snap, call[c].old, Request[c]) :
           call' = [call EXCEPT ![c] = Reply(ReplayAnswer(x, Request[c]))]
    BY <1>1 DEF Replay
  <2>2. Reply(ReplayAnswer(x, Request[c])) \in CallState
    BY <2>1, ReplayReply
  <2>3. Reply(ReplayAnswer(x, Request[c])).pc = "reply"
    BY DEF Reply
  <2>4. call[c].pc # "write" /\ UNCHANGED <<db, expired, lock, audit>> /\ faults' \in 0..MaxFaults
    BY <1>1 DEF Replay, TypedCalls, ContentionTypeOK
  <2> QED  BY <2>1, <2>2, <2>3, <2>4, TypedQuietStep
<1>2. CASE Acquire(c)
  <2>1. PICK v \in CallState : v.pc = "write" /\ call' = [call EXCEPT ![c] = v]
    BY <1>2, AcquireState
  <2>2. lock = None /\ lock' = c /\ UNCHANGED <<db, expired, audit, faults>>
    BY <1>2 DEF Acquire
  <2>3. /\ call' \in [Calls -> CallState]
        /\ lock' \in Calls \cup {None}
        /\ \A x \in Calls : call'[x].pc = "write" <=> lock' = x
        /\ AttemptsLeft'
    BY <2>1, <2>2, CallReplaced
  <2> QED  BY <2>2, <2>3 DEF TypedCalls, ContentionTypeOK
<1>3. CASE Busy(c)
  <2>1. call[c].pc # "write" /\ UNCHANGED <<db, expired, lock, audit>> /\ faults' \in 0..MaxFaults
    BY <1>3 DEF Busy, ToWrite, TypedCalls, ContentionTypeOK
  <2>2. call[c].attempt \in 0..MaxAttempts
    BY CallFields DEF TypedCalls
  <2>3. CASE GivesUp(call[c].attempt)
    <3>1. call' = [call EXCEPT ![c] = Reply(Exhausted)]
      BY <1>3, <2>3 DEF Busy
    <3>2. Reply(Exhausted) \in CallState /\ Reply(Exhausted).pc = "reply"
      BY ReplyType DEF Exhausted, Reply
    <3> QED  BY <2>1, <3>1, <3>2, TypedQuietStep
  <2>4. CASE ~GivesUp(call[c].attempt)
    <3>1. call' = [call EXCEPT ![c] = Retry(call[c].attempt)]
      BY <1>3, <2>4 DEF Busy
    <3>2. Retry(call[c].attempt) \in CallState
      BY <2>2, RetryType
    <3>3. /\ Retry(call[c].attempt).pc = "again"
          /\ Retry(call[c].attempt).attempt = call[c].attempt
          /\ call[c].attempt < MaxAttempts
      BY <2>2, <2>4 DEF Retry, GivesUp
    <3> QED  BY <2>1, <3>1, <3>2, <3>3, TypedQuietStep
  <2> QED  BY <2>3, <2>4
<1> QED  BY <1>1, <1>2, <1>3 DEF Attempt

LEMMA TypeFinish ==
    ASSUME TypedCalls, NEW c \in Calls, Finish(c)
    PROVE  TypedCalls'
<1>1. CASE Commit(c)
  <2>1. call[c].pc = "write" /\ UNCHANGED <<expired, audit, faults>> /\ lock' = None /\ lock = c
    BY <1>1 DEF Commit, TypedCalls, ContentionTypeOK
  <2>2. db' = Written(call[c].snap, Request[c])
    BY <1>1 DEF Commit
  <2>3. db' \in Database
    BY <2>2, CallFields, WrittenTables DEF TypedCalls
  <2>4. Len(call[c].snap.bookings) + 1 \in Nat
    BY CallFields, LenProperties DEF TypedCalls, Database
  <2> DEFINE v == Reply(Booked(Len(call[c].snap.bookings) + 1))
  <2>5. v \in CallState /\ v.pc = "reply"
    BY <2>4, ReplyType DEF Booked, Reply
  <2>6. call' = [call EXCEPT ![c] = v]
    BY <1>1 DEF Commit
  <2>7. lock' = RolledBack(c) /\ faults' \in 0..MaxFaults
    BY <2>1 DEF RolledBack, TypedCalls, ContentionTypeOK
  <2> QED  BY <2>1, <2>3, <2>5, <2>6, <2>7, TypedEndOfWrite
<1>2. CASE Rollback(c)
  <2> DEFINE v == Reply(IF ActiveFree(call[c].snap, Request[c]) /\ ~EntryFree(call[c].snap, Request[c])
                        THEN Failed ELSE Conflict)
  <2>1. v \in CallState /\ v.pc = "reply"
    BY ReplyType DEF Failed, Conflict, Reply
  <2>2. call' = [call EXCEPT ![c] = v]
    BY <1>2 DEF Rollback
  <2>3. /\ lock' = RolledBack(c) /\ UNCHANGED <<db, expired, audit, faults>>
        /\ db' \in Database /\ faults' \in 0..MaxFaults
    BY <1>2 DEF Rollback, TypedCalls, ContentionTypeOK
  <2> QED  BY <2>1, <2>2, <2>3, TypedEndOfWrite
<1> QED  BY <1>1, <1>2 DEF Finish

LEMMA TypeEndOfCall ==
    ASSUME TypedCalls, NEW c \in Calls, Receive(c) \/ Disconnect(c) \/ LoseAnswer(c)
    PROVE  TypedCalls'
<1>1. AtClient \in CallState /\ AtClient.pc = "client" /\ AtClient.attempt = 0
  BY AtClientType DEF AtClient
<1>2. CASE Receive(c)
  <2>1. call[c].pc # "write" /\ UNCHANGED <<db, expired, lock, audit>> /\ faults' \in 0..MaxFaults
    BY <1>2 DEF Receive, TypedCalls, ContentionTypeOK
  <2>2. CASE call[c].answer = Exhausted
    <3>1. call' = [call EXCEPT ![c] = AtClient]
      BY <1>2, <2>2 DEF Receive
    <3> QED  BY <1>1, <2>1, <3>1, TypedQuietStep
  <2>3. CASE call[c].answer # Exhausted
    <3>1. PICK v \in CallState : v.pc = "done" /\ call' = [call EXCEPT ![c] = v]
      BY <1>2, <2>3, ReceiveState
    <3> QED  BY <2>1, <3>1, TypedQuietStep
  <2> QED  BY <2>2, <2>3
<1>3. CASE Disconnect(c)
  <2>1. /\ call' = [call EXCEPT ![c] = AtClient] /\ lock' = RolledBack(c)
        /\ UNCHANGED <<db, expired, audit>> /\ db' \in Database
    BY <1>3 DEF Disconnect, TypedCalls, ContentionTypeOK
  <2>2. faults' \in 0..MaxFaults
    BY <1>3 DEF Disconnect, Fault, TypedCalls, ContentionTypeOK
  <2> QED  BY <1>1, <2>1, <2>2, TypedEndOfWrite
<1>4. CASE LoseAnswer(c)
  <2>1. /\ call' = [call EXCEPT ![c] = AtClient] /\ call[c].pc # "write"
        /\ UNCHANGED <<db, expired, lock, audit>>
    BY <1>4 DEF LoseAnswer
  <2>2. faults' \in 0..MaxFaults
    BY <1>4 DEF LoseAnswer, Fault, TypedCalls, ContentionTypeOK
  <2> QED  BY <1>1, <2>1, <2>2, TypedQuietStep
<1> QED  BY <1>2, <1>3, <1>4

LEMMA TypeCrash == ASSUME TypedCalls, Crash PROVE TypedCalls'
<1>1. faults' \in 0..MaxFaults /\ UNCHANGED <<db, expired, audit>> /\ lock' = None
  BY DEF Crash, Fault, TypedCalls, ContentionTypeOK
<1>2. \A c \in Calls : call'[c] = IF call[c].pc = "done" THEN call[c] ELSE AtClient
  BY DEF Crash
<1>3. \A c \in Calls : call[c] \in CallState
  BY DEF TypedCalls, ContentionTypeOK
<1>4. call' \in [Calls -> CallState]
  <2>1. call' = [c \in Calls |-> IF call[c].pc = "done" THEN call[c] ELSE AtClient]
    BY DEF Crash
  <2> QED  BY <2>1, <1>3, AtClientType
<1>5. \A c \in Calls : call'[c].pc \in {"client", "done"} /\ (call'[c].pc = "client" => call'[c].attempt = 0)
  BY <1>2 DEF AtClient
<1>6. \A c \in Calls : call'[c].pc # "write" /\ call'[c].pc # "again"
  BY <1>5
<1> QED
  BY <1>1, <1>4, <1>5, <1>6 DEF TypedCalls, ContentionTypeOK, AttemptsLeft

LEMMA TypeBeside ==
    ASSUME TypedCalls,
           \/ \E k \in Keys : Expire(k)
           \/ \E s \in Slots, n \in Sizes : AdjustCapacity(s, n)
           \/ \E s \in Slots : ReadReserved(s)
           \/ ReadBalance
           \/ UNCHANGED vars
    PROVE  TypedCalls'
<1>1. CASE \E k \in Keys : Expire(k)
  BY <1>1 DEF Expire, TypedCalls, ContentionTypeOK, AttemptsLeft
<1>2. CASE \E s \in Slots, n \in Sizes : AdjustCapacity(s, n)
  <2>1. PICK s \in Slots, n \in Sizes : AdjustCapacity(s, n)
    BY <1>2
  <2>2. db' \in Database
    BY <2>1, AdjustedDb DEF TypedCalls
  <2> QED  BY <2>1, <2>2 DEF AdjustCapacity, TypedCalls, ContentionTypeOK, AttemptsLeft
<1>3. CASE \E s \in Slots : ReadReserved(s)
  <2>1. PICK s \in Slots : ReadReserved(s)
    BY <1>3
  <2>2. db.reserved[s] \in Nat /\ db.commits \in Nat
    BY DEF TypedCalls, ContentionTypeOK, Database
  <2>3. audit' \in [pc : {"idle", "read"}, slot : Slots, reserved : Nat, since : Nat]
    BY <2>1, <2>2 DEF ReadReserved
  <2> QED  BY <2>1, <2>3 DEF ReadReserved, TypedCalls, ContentionTypeOK, AttemptsLeft
<1>4. CASE ReadBalance
  <2>1. (CHOOSE s \in Slots : TRUE) \in Slots
    OBVIOUS
  <2>2. NoAudit \in [pc : {"idle", "read"}, slot : Slots, reserved : Nat, since : Nat]
    BY <2>1 DEF NoAudit
  <2> QED  BY <1>4, <2>2 DEF ReadBalance, TypedCalls, ContentionTypeOK, AttemptsLeft
<1>5. CASE UNCHANGED vars
  BY <1>5 DEF vars, TypedCalls, ContentionTypeOK, AttemptsLeft
<1> QED  BY <1>1, <1>2, <1>3, <1>4, <1>5

LEMMA TypeStep == TypedCalls /\ [Next]_vars => TypedCalls'
  BY TypeBegin, TypeAttempt, TypeFinish, TypeEndOfCall, TypeCrash, TypeBeside DEF Next

\* The database and every call have their types, the lock is held by the one
\* call that is writing, and a call that is to try again has an attempt left.
THEOREM ContentionTypeCorrect == Spec => []ContentionTypeOK
<1>1. Spec => []TypedCalls
  BY TypeInit, TypeStep, PTL DEF Spec
<1>2. TypedCalls => ContentionTypeOK
  BY DEF TypedCalls
<1> QED  BY <1>1, <1>2, PTL

-----------------------------------------------------------------------------
(* Whoever writes works on the current database.                           *)

\* A step that only moves the database on, and calls out of their transactions.
LEMMA WritersKept ==
    ASSUME TypedCalls, WritersAreCurrent, LaterThan(db', db), db' \in Database,
           expired \subseteq expired',
           \A x \in Calls : call'[x] = call[x] \/ call'[x].pc \notin {"read", "write"},
           db' = db \/ \A x \in Calls : call'[x].pc # "write"
    PROVE  WritersAreCurrent'
<1> SUFFICES ASSUME NEW x \in Calls, call'[x] = call[x], call[x].pc \in {"read", "write"}
             PROVE  /\ LaterThan(db', call'[x].snap) /\ call'[x].old \subseteq expired'
                    /\ call'[x].pc = "write" =>
                          /\ call'[x].snap = db'
                          /\ LiveRecord(db', call'[x].old, Request[x]) = {}
  BY DEF WritersAreCurrent
<1>1. LaterThan(db, call[x].snap) /\ call[x].old \subseteq expired
  BY DEF WritersAreCurrent
<1>2. call[x].snap \in Database /\ db \in Database
  BY CallFields DEF TypedCalls, ContentionTypeOK
<1>3. LaterThan(db', call[x].snap)
  BY <1>1, <1>2, LaterTransitive
<1>4. ASSUME call'[x].pc = "write"
      PROVE  call'[x].snap = db' /\ LiveRecord(db', call'[x].old, Request[x]) = {}
  BY <1>4 DEF WritersAreCurrent
<1> QED  BY <1>1, <1>3, <1>4

LEMMA WritersBegin ==
    ASSUME TypedCalls, WritersAreCurrent, NEW c \in Calls, Begin(c)
    PROVE  WritersAreCurrent'
<1>1. PICK v \in CallState : /\ v.pc = "read" /\ v.snap = db /\ v.old = expired
                             /\ call' = [call EXCEPT ![c] = v]
  BY BeginState
<1>2. db' = db /\ expired' = expired
  BY DEF Begin
<1>3. /\ \A x \in Calls \ {c} : call'[x] = call[x]
      /\ call'[c] = v
  BY <1>1 DEF TypedCalls, ContentionTypeOK
<1>4. LaterThan(db, db)
  BY LaterReflexive DEF TypedCalls, ContentionTypeOK
<1> QED  BY <1>1, <1>2, <1>3, <1>4 DEF WritersAreCurrent

LEMMA WritersAcquire ==
    ASSUME TypedCalls, WritersAreCurrent, NEW c \in Calls, Acquire(c)
    PROVE  WritersAreCurrent'
<1>1. PICK v \in CallState : /\ v.pc = "write" /\ v.snap = call[c].snap /\ v.old = call[c].old
                             /\ call' = [call EXCEPT ![c] = v]
  BY AcquireState
<1>2. db' = db /\ expired' = expired
  BY DEF Acquire
<1>3. /\ \A x \in Calls \ {c} : call'[x] = call[x]
      /\ call'[c] = v
  BY <1>1 DEF TypedCalls, ContentionTypeOK
<1>4. /\ call[c].pc = "read" /\ call[c].snap.commits = db.commits
      /\ LiveRecord(call[c].snap, call[c].old, Request[c]) = {}
  BY DEF Acquire, ToWrite, Fresh
<1>5. LaterThan(db, call[c].snap) /\ call[c].old \subseteq expired
  BY <1>4 DEF WritersAreCurrent
<1>6. call[c].snap = db
  BY <1>4, <1>5 DEF LaterThan
<1> QED  BY <1>1, <1>2, <1>3, <1>4, <1>5, <1>6 DEF WritersAreCurrent

\* What the other calls do in a step of call c.
LEMMA OthersKept ==
    ASSUME TypedCalls, NEW c \in Calls,
           \/ Replay(c) \/ Busy(c) \/ Commit(c) \/ Rollback(c)
           \/ Receive(c) \/ Disconnect(c) \/ LoseAnswer(c)
    PROVE  /\ \A x \in Calls \ {c} : call'[x] = call[x]
           /\ call'[c].pc \in {"client", "again", "reply", "done"}
           /\ expired' = expired
           /\ ~Commit(c) => db' = db
<1>1. call \in [Calls -> CallState]
  BY DEF TypedCalls, ContentionTypeOK
<1>2. CASE Replay(c)
  BY <1>1, <1>2 DEF Replay, Reply
<1>3. CASE Busy(c)
  BY <1>1, <1>3 DEF Busy, Reply, Retry
<1>4. CASE Commit(c)
  BY <1>1, <1>4 DEF Commit, Reply
<1>5. CASE Rollback(c)
  BY <1>1, <1>5 DEF Rollback, Reply
<1>6. CASE Receive(c)
  <2>1. CASE call[c].answer = Exhausted
    BY <1>1, <1>6, <2>1 DEF Receive, AtClient
  <2>2. CASE call[c].answer # Exhausted
    <3>1. PICK v \in CallState : v.pc = "done" /\ call' = [call EXCEPT ![c] = v]
      BY <1>6, <2>2, ReceiveState
    <3> QED  BY <1>1, <1>6, <3>1 DEF Receive
  <2> QED  BY <2>1, <2>2
<1>7. CASE Disconnect(c) \/ LoseAnswer(c)
  BY <1>1, <1>7 DEF Disconnect, LoseAnswer, AtClient
<1> QED  BY <1>2, <1>3, <1>4, <1>5, <1>6, <1>7

\* The database a commit leaves, seen from the database before it.
LEMMA CommittedDb ==
    ASSUME TypedCalls, WritersAreCurrent, NEW c \in Calls, Commit(c)
    PROVE  /\ call[c].snap = db /\ db \in Database /\ Request[c] \in RequestRow
           /\ Insertable(db, Request[c]) /\ db' = Written(db, Request[c])
           /\ LiveRecord(db, call[c].old, Request[c]) = {}
           /\ LaterThan(db', db) /\ db' \in Database
           /\ \A x \in Calls : call'[x].pc # "write"
<1>1. call[c].snap = db /\ LiveRecord(db, call[c].old, Request[c]) = {}
  BY DEF Commit, WritersAreCurrent
<1>2. db \in Database /\ Request[c] \in RequestRow
  BY DEF TypedCalls, ContentionTypeOK
<1>3. Insertable(db, Request[c]) /\ db' = Written(db, Request[c])
  BY <1>1 DEF Commit
<1>4. LaterThan(db', db) /\ db' \in Database
  BY <1>2, <1>3, WrittenIsLater, WrittenTables
<1>5. lock' = None /\ TypedCalls'
  BY TypeFinish DEF Finish, Commit
<1>6. \A x \in Calls : call'[x].pc # "write"
  BY <1>5 DEF TypedCalls, ContentionTypeOK
<1> QED  BY <1>1, <1>2, <1>3, <1>4, <1>6

LEMMA WritersStep ==
    ASSUME TypedCalls, WritersAreCurrent, [Next]_vars
    PROVE  WritersAreCurrent'
<1>0. db \in Database /\ LaterThan(db, db)
  BY LaterReflexive DEF TypedCalls, ContentionTypeOK
<1>1. CASE \E c \in Calls : Begin(c)
  BY <1>1, WritersBegin
<1>2. CASE \E c \in Calls : Acquire(c)
  BY <1>2, WritersAcquire
<1>3. ASSUME NEW c \in Calls, Commit(c) PROVE WritersAreCurrent'
  <2>1. LaterThan(db', db) /\ db' \in Database /\ \A x \in Calls : call'[x].pc # "write"
    BY <1>3, CommittedDb
  <2>2. /\ \A x \in Calls \ {c} : call'[x] = call[x]
        /\ call'[c].pc \in {"client", "again", "reply", "done"} /\ expired' = expired
    BY <1>3, OthersKept
  <2> QED  BY <2>1, <2>2, WritersKept
<1>4. ASSUME NEW c \in Calls, ~Commit(c),
             Replay(c) \/ Busy(c) \/ Rollback(c) \/ Receive(c) \/ Disconnect(c) \/ LoseAnswer(c)
      PROVE  WritersAreCurrent'
  <2>1. /\ \A x \in Calls \ {c} : call'[x] = call[x]
        /\ call'[c].pc \in {"client", "again", "reply", "done"} /\ expired' = expired /\ db' = db
    BY <1>4, OthersKept
  <2> QED  BY <1>0, <2>1, WritersKept
<1>5. CASE Crash
  <2>1. db' = db /\ expired' = expired
        /\ \A x \in Calls : call'[x].pc \notin {"read", "write"}
    BY <1>5 DEF Crash, AtClient
  <2> QED  BY <1>0, <2>1, WritersKept
<1>6. CASE \E k \in Keys : Expire(k)
  <2>1. db' = db /\ call' = call /\ expired \subseteq expired'
    BY <1>6 DEF Expire
  <2> QED  BY <1>0, <2>1, WritersKept
<1>7. CASE \E s \in Slots, n \in Sizes : AdjustCapacity(s, n)
  <2>1. PICK s \in Slots, n \in Sizes : AdjustCapacity(s, n)
    BY <1>7
  <2>2. db' \in Database /\ LaterThan(db', db)
    BY <2>1, AdjustedDb DEF TypedCalls
  <2>3. call' = call /\ expired' = expired /\ lock = None
    BY <2>1 DEF AdjustCapacity
  <2>4. \A x \in Calls : call'[x].pc # "write"
    BY <2>3 DEF TypedCalls, ContentionTypeOK
  <2> QED  BY <2>2, <2>3, <2>4, WritersKept
<1>8. CASE (\E s \in Slots : ReadReserved(s)) \/ ReadBalance \/ UNCHANGED vars
  <2>1. db' = db /\ call' = call /\ expired' = expired
    BY <1>8 DEF ReadReserved, ReadBalance, vars
  <2> QED  BY <1>0, <2>1, WritersKept
<1> QED
  BY <1>1, <1>2, <1>3, <1>4, <1>5, <1>6, <1>7, <1>8 DEF Next, Attempt, Finish

-----------------------------------------------------------------------------
(* What is committed is sound.                                             *)

Sound == OncePerKey /\ Indexed /\ CountsAgree

\* Only commits and adjustments change the tables.
LEMMA SoundSame ==
    ASSUME Sound, db' = db
    PROVE  Sound'
  BY DEF Sound, OncePerKey, Indexed, CountsAgree

\* What is compared are numbers.
LEMMA Counted ==
    ASSUME TypedCalls, Sound, NEW s \in Slots
    PROVE  /\ InitialReserved[s] \in Nat /\ db.reserved[s] \in Nat
           /\ Cardinality(HeldIn(db, s)) \in Nat /\ Balance(db, s) \in Nat
<1>1. db \in Database
  BY DEF TypedCalls, ContentionTypeOK
<1>2. db.bookings \in Seq(BookingRow) /\ db.reserved[s] \in Nat
  BY <1>1 DEF Database
<1>3. Len(db.bookings) \in Nat /\ DOMAIN db.bookings = 1..Len(db.bookings)
  BY <1>2, LenProperties
<1>4. IsFiniteSet(1..Len(db.bookings))
  BY <1>3, FS_Interval
<1>5. HeldIn(db, s) \subseteq 1..Len(db.bookings)
  BY <1>3 DEF HeldIn
<1>6. Cardinality(HeldIn(db, s)) \in Nat
  BY <1>4, <1>5, FS_Subset, FS_CardinalityType
<1>8. Balance(db, s) \in Nat
  BY BalanceType DEF Sound, Indexed
<1> QED  BY <1>2, <1>6, <1>8, CallAssumption

LEMMA SoundInit == Init => Sound
<1> SUFFICES ASSUME Init PROVE Sound
  OBVIOUS
<1>2. /\ db.records = {} /\ db.entries = {} /\ db.bookings = << >>
      /\ db.capacity = InitialCapacity /\ db.reserved = InitialReserved
  BY DEF Init, Empty
<1>3. DOMAIN db.bookings = {}
  BY <1>2
<1>4. OncePerKey
  BY <1>2 DEF OncePerKey
<1>5. Indexed
  BY <1>2, <1>3, FS_EmptySet DEF Indexed
<1>6. Cardinality({}) = 0
  BY FS_EmptySet
<1>7. ASSUME NEW s \in Slots
      PROVE  /\ db.reserved[s] = InitialReserved[s] + Cardinality(HeldIn(db, s))
             /\ db.reserved[s] = InitialReserved[s] + Balance(db, s)
             /\ db.reserved[s] <= db.capacity[s]
  <2>1. HeldIn(db, s) = {}
    BY <1>3 DEF HeldIn
  <2>2. { e \in db.entries : e.slot = s } = {}
    BY <1>2
  <2>3. Balance(db, s) = 0
    BY <2>2, <1>6 DEF Balance
  <2>4. InitialReserved[s] \in Nat /\ InitialReserved[s] <= InitialCapacity[s]
    BY CallAssumption
  <2> QED  BY <1>2, <1>6, <2>1, <2>3, <2>4
<1>8. CountsAgree
  BY <1>7 DEF CountsAgree
<1> QED  BY <1>4, <1>5, <1>8 DEF Sound

LEMMA SoundAdjust ==
    ASSUME TypedCalls, Sound, NEW s \in Slots, NEW n \in Sizes, AdjustCapacity(s, n)
    PROVE  Sound'
<1>1. /\ db'.capacity = [db.capacity EXCEPT ![s] = n]
      /\ db'.reserved = db.reserved /\ db'.bookings = db.bookings
      /\ db'.records = db.records /\ db'.entries = db.entries
  BY AdjustedDb DEF TypedCalls
<1>2. OncePerKey'
  BY <1>1 DEF Sound, OncePerKey
<1>3. Indexed'
  BY <1>1 DEF Sound, Indexed
<1>4. ASSUME NEW t \in Slots
      PROVE  /\ db'.reserved[t] = InitialReserved[t] + Cardinality(HeldIn(db', t))
             /\ db'.reserved[t] = InitialReserved[t] + Balance(db', t)
             /\ db'.reserved[t] <= db'.capacity[t]
  <2>1. HeldIn(db', t) = HeldIn(db, t) /\ Balance(db', t) = Balance(db, t)
    BY <1>1 DEF HeldIn, Balance
  <2>2. db.capacity \in [Slots -> Nat]
    BY DEF TypedCalls, ContentionTypeOK, Database
  <2>3. db'.capacity[t] = IF t = s THEN n ELSE db.capacity[t]
    BY <1>1, <2>2
  <2>4. db.reserved[s] <= n
    BY DEF AdjustCapacity
  <2> QED  BY <1>1, <2>1, <2>3, <2>4 DEF Sound, CountsAgree
<1> QED  BY <1>2, <1>3, <1>4 DEF Sound, CountsAgree

\* The tables before and after a commit, in the terms the invariants need.
LEMMA CommitTables ==
    ASSUME TypedCalls, WritersAreCurrent, Sound, NEW c \in Calls, Commit(c)
    PROVE  LET r == Request[c]
               n == Len(db.bookings) + 1
               row == [student |-> r.student, slot |-> r.slot,
                       status |-> IF HasRoom(db, r) THEN Held ELSE Waitlisted]
               rec == [key |-> r.key, student |-> r.student, slot |-> r.slot, booking |-> n]
           IN /\ row \in BookingRow
              /\ Len(db.bookings) \in Nat
              /\ DOMAIN db.bookings = 1..Len(db.bookings)
              /\ DOMAIN db'.bookings = 1..n
              /\ db'.bookings = Append(db.bookings, row)
              /\ db'.bookings[n] = row
              /\ \A i \in DOMAIN db.bookings : db'.bookings[i] = db.bookings[i]
              /\ db'.records = db.records \cup {rec}
              /\ \A x \in db.records : x.key # r.key /\ x.booking # n
              /\ db'.entries = db.entries \cup EntryOf(db, r, n)
              /\ [slot |-> r.slot, id |-> r.id, booking |-> n] \notin db.entries
<1> DEFINE r == Request[c]
           n == Len(db.bookings) + 1
           row == [student |-> r.student, slot |-> r.slot,
                   status |-> IF HasRoom(db, r) THEN Held ELSE Waitlisted]
           rec == [key |-> r.key, student |-> r.student, slot |-> r.slot, booking |-> n]
<1>1. db \in Database /\ r \in RequestRow /\ db' = Written(db, r) /\ Insertable(db, r)
  BY CommittedDb
<1>2. row \in BookingRow /\ db.bookings \in Seq(BookingRow)
  BY <1>1 DEF BookingRow, RequestRow, Database
<1>3. /\ db'.bookings = Append(db.bookings, row)
      /\ db'.records = db.records \cup {rec}
      /\ db'.entries = db.entries \cup EntryOf(db, r, n)
  BY <1>1, WrittenTables
<1>4. /\ Len(db.bookings) \in Nat
      /\ DOMAIN db.bookings = 1..Len(db.bookings)
  BY <1>2, LenProperties
<1>5. /\ DOMAIN db'.bookings = 1..n
      /\ db'.bookings[n] = row
      /\ \A i \in 1..Len(db.bookings) : db'.bookings[i] = db.bookings[i]
  <2> HIDE DEF row
  <2>1. /\ Len(Append(db.bookings, row)) = n
        /\ Append(db.bookings, row) \in Seq(BookingRow)
        /\ Append(db.bookings, row)[n] = row
        /\ \A i \in 1..Len(db.bookings) : Append(db.bookings, row)[i] = db.bookings[i]
    BY <1>2, AppendProperties
  <2> QED  BY <1>3, <2>1, LenProperties
<1>6. \A x \in db.records : x.key # r.key /\ x.booking # n
  <2>1. \A x \in db.records : x.booking \in DOMAIN db.bookings
    BY DEF Sound, OncePerKey
  <2>2. \A x \in db.records : x.key # r.key
    BY <1>1 DEF Insertable, KeyFree
  <2> QED  BY <1>4, <2>1, <2>2
<1>7. [slot |-> r.slot, id |-> r.id, booking |-> n] \notin db.entries
  <2>1. \A e \in db.entries : e.booking \in DOMAIN db.bookings
    BY DEF Sound, Indexed
  <2> QED  BY <1>4, <2>1
<1> QED  BY <1>2, <1>3, <1>4, <1>5, <1>6, <1>7

LEMMA SoundCommit ==
    ASSUME TypedCalls, WritersAreCurrent, Sound, NEW c \in Calls, Commit(c)
    PROVE  Sound'
<1> DEFINE r == Request[c]
           n == Len(db.bookings) + 1
           row == [student |-> r.student, slot |-> r.slot,
                   status |-> IF HasRoom(db, r) THEN Held ELSE Waitlisted]
           rec == [key |-> r.key, student |-> r.student, slot |-> r.slot, booking |-> n]
           new == [slot |-> r.slot, id |-> r.id, booking |-> n]
<1>1. /\ row \in BookingRow
      /\ Len(db.bookings) \in Nat
      /\ DOMAIN db.bookings = 1..Len(db.bookings)
      /\ DOMAIN db'.bookings = 1..n
      /\ db'.bookings = Append(db.bookings, row)
      /\ db'.bookings[n] = row
      /\ \A i \in DOMAIN db.bookings : db'.bookings[i] = db.bookings[i]
      /\ db'.records = db.records \cup {rec}
      /\ \A x \in db.records : x.key # r.key /\ x.booking # n
      /\ db'.entries = db.entries \cup EntryOf(db, r, n)
      /\ new \notin db.entries
  BY CommitTables
<1>2. /\ db \in Database /\ db' \in Database /\ r \in RequestRow /\ db' = Written(db, r)
      /\ db'.capacity = db.capacity
      /\ \A s \in Slots : db'.reserved[s] =
            IF s = r.slot /\ HasRoom(db, r) THEN db.reserved[s] + 1 ELSE db.reserved[s]
  <2>1. db \in Database /\ db' \in Database /\ r \in RequestRow /\ db' = Written(db, r)
    BY CommittedDb
  <2>2. /\ Written(db, r).capacity = db.capacity
        /\ \A s \in Slots : Written(db, r).reserved[s] =
              IF s = r.slot /\ HasRoom(db, r) THEN db.reserved[s] + 1 ELSE db.reserved[s]
    BY <2>1, WrittenTables
  <2> QED  BY <2>1, <2>2
<1>3. n \in 1..n /\ \A i \in DOMAIN db.bookings : i \in 1..n
  BY <1>1
<1>4. OncePerKey'
  <2>1. ASSUME NEW x \in db'.records, NEW y \in db'.records, x.key = y.key \/ x.booking = y.booking
        PROVE  x = y
    BY <1>1, <2>1 DEF Sound, OncePerKey
  <2>2. ASSUME NEW x \in db'.records
        PROVE  x.booking \in DOMAIN db'.bookings /\ Matches(db'.bookings[x.booking], x)
    <3>1. CASE x = rec
      BY <1>1, <1>3, <3>1 DEF Matches
    <3>2. CASE x \in db.records
      <4>1. x.booking \in DOMAIN db.bookings /\ Matches(db.bookings[x.booking], x)
        BY <3>2 DEF Sound, OncePerKey
      <4> QED  BY <4>1, <1>1, <1>3 DEF Matches
    <3> QED  BY <3>1, <3>2, <1>1
  <2> QED  BY <2>1, <2>2 DEF OncePerKey
<1>5. Indexed'
  <2>1. ASSUME NEW i \in DOMAIN db'.bookings
        PROVE  \E x \in db'.records : x.booking = i
    <3>1. CASE i = n
      <4>1. rec \in db'.records /\ rec.booking = n
        BY <1>1
      <4> QED  BY <3>1, <4>1
    <3>2. CASE i # n
      <4>1. i \in DOMAIN db.bookings
        BY <1>1, <3>2
      <4> QED  BY <4>1, <1>1 DEF Sound, Indexed
    <3> QED  BY <3>1, <3>2
  <2>2. ASSUME NEW e \in db'.entries
        PROVE  e.booking \in DOMAIN db'.bookings /\ db'.bookings[e.booking].slot = e.slot
    <3>1. CASE e = new
      BY <1>1, <1>3, <3>1
    <3>2. CASE e \in db.entries
      <4>1. e.booking \in DOMAIN db.bookings /\ db.bookings[e.booking].slot = e.slot
        BY <3>2 DEF Sound, Indexed
      <4> QED  BY <4>1, <1>1, <1>3
    <3>3. e = new \/ e \in db.entries
      BY <1>1 DEF EntryOf
    <3> QED  BY <3>1, <3>2, <3>3
  <2>3. IsFiniteSet(db'.entries)
    <3>1. IsFiniteSet(EntryOf(db, r, n))
      BY FS_EmptySet, FS_Singleton DEF EntryOf
    <3>2. IsFiniteSet(db.entries)
      BY DEF Sound, Indexed
    <3>3. IsFiniteSet(db.entries \cup EntryOf(db, r, n))
      BY <3>1, <3>2, FS_Union
    <3>4. db'.entries = db.entries \cup EntryOf(db, r, n)
      BY <1>1
    <3> QED  BY <3>3, <3>4
  <2> QED  BY <2>1, <2>2, <2>3 DEF Indexed
<1>6. ASSUME NEW s \in Slots
      PROVE  /\ db'.reserved[s] = InitialReserved[s] + Cardinality(HeldIn(db', s))
             /\ db'.reserved[s] = InitialReserved[s] + Balance(db', s)
             /\ db'.reserved[s] <= db'.capacity[s]
  <2>1. /\ db.reserved[s] = InitialReserved[s] + Cardinality(HeldIn(db, s))
        /\ db.reserved[s] = InitialReserved[s] + Balance(db, s)
        /\ db.reserved[s] <= db.capacity[s]
    BY DEF Sound, CountsAgree
  <2>2. /\ db.capacity[s] \in Nat /\ db'.capacity[s] = db.capacity[s]
        /\ InitialReserved[s] \in Nat /\ db.reserved[s] \in Nat
        /\ Cardinality(HeldIn(db, s)) \in Nat /\ Balance(db, s) \in Nat
    BY <1>2, Counted DEF Database
  <2>3. Cardinality(HeldIn(db', s)) = Cardinality(HeldIn(db, s))
           + IF row.slot = s /\ row.status = Held THEN 1 ELSE 0
    BY <1>1, <1>2, HeldAppend
  <2>4. CASE s = r.slot /\ HasRoom(db, r)
    <3>1. db'.reserved[s] = db.reserved[s] + 1
      BY <1>2, <2>4
    <3>2. Cardinality(HeldIn(db', s)) = Cardinality(HeldIn(db, s)) + 1
      BY <2>3, <2>4
    <3>3. Balance(db', s) = Balance(db, s) + 1
      <4>1. db'.entries = db.entries \cup {new}
        BY <1>1, <2>4 DEF EntryOf
      <4>2. Balance(db', s) = Balance(db, s) + IF new.slot = s THEN 1 ELSE 0
        BY <1>1, <1>2, <4>1, BalanceAdd DEF Sound, Indexed
      <4> QED  BY <2>4, <4>2
    <3>4. db.reserved[s] < db.capacity[s]
      BY <2>4 DEF HasRoom
    <3>5. db'.reserved[s] = InitialReserved[s] + Cardinality(HeldIn(db', s))
      BY <2>1, <2>2, <3>1, <3>2
    <3>6. db'.reserved[s] = InitialReserved[s] + Balance(db', s)
      BY <2>1, <2>2, <3>1, <3>3
    <3>7. db'.reserved[s] <= db'.capacity[s]
      BY <2>2, <3>1, <3>4
    <3> QED  BY <3>5, <3>6, <3>7
  <2>5. CASE ~(s = r.slot /\ HasRoom(db, r))
    <3>1. db'.reserved[s] = db.reserved[s]
      BY <1>2, <2>5
    <3>2. Cardinality(HeldIn(db', s)) = Cardinality(HeldIn(db, s))
      <4>1. ~(row.slot = s /\ row.status = Held)
        BY <2>5 DEF Held, Waitlisted
      <4>2. Cardinality(HeldIn(db, s)) \in Nat
        BY <2>1, <2>2
      <4> QED  BY <2>3, <4>1, <4>2
    <3>3. Balance(db', s) = Balance(db, s) + 0
      <4>1. CASE HasRoom(db, r)
        <5>1. db'.entries = db.entries \cup {new}
          BY <1>1, <4>1 DEF EntryOf
        <5>2. Balance(db', s) = Balance(db, s) + IF new.slot = s THEN 1 ELSE 0
          BY <1>1, <1>2, <5>1, BalanceAdd DEF Sound, Indexed
        <5> QED  BY <2>5, <4>1, <5>2
      <4>2. CASE ~HasRoom(db, r)
        <5>1. db'.entries = db.entries
          BY <1>1, <4>2 DEF EntryOf
        <5> QED  BY <5>1, <2>1, <2>2 DEF Balance
      <4> QED  BY <4>1, <4>2
    <3>4. db'.reserved[s] = InitialReserved[s] + Cardinality(HeldIn(db', s))
      BY <2>1, <3>1, <3>2
    <3>5. db'.reserved[s] = InitialReserved[s] + Balance(db', s)
      BY <2>1, <2>2, <3>1, <3>3
    <3>6. db'.reserved[s] <= db'.capacity[s]
      BY <2>1, <2>2, <3>1
    <3> QED  BY <3>4, <3>5, <3>6
  <2> QED  BY <2>4, <2>5
<1> QED  BY <1>4, <1>5, <1>6 DEF Sound, CountsAgree

LEMMA SoundStep ==
    ASSUME TypedCalls, WritersAreCurrent, Sound, [Next]_vars
    PROVE  Sound'
<1>1. CASE \E c \in Calls : Commit(c)
  BY <1>1, SoundCommit
<1>2. CASE \E s \in Slots, n \in Sizes : AdjustCapacity(s, n)
  BY <1>2, SoundAdjust
<1>3. CASE ~(\E c \in Calls : Commit(c)) /\ ~(\E s \in Slots, n \in Sizes : AdjustCapacity(s, n))
  <2>1. db' = db
    BY <1>3 DEF Next, Begin, Attempt, Replay, Acquire, Busy, Finish, Rollback, Receive, Disconnect,
                LoseAnswer, Crash, Expire, ReadReserved, ReadBalance, vars
  <2> QED  BY <2>1, SoundSame
<1> QED  BY <1>1, <1>2, <1>3

Honest == TypedCalls /\ WritersAreCurrent /\ Sound

LEMMA HonestInit == Init => Honest
<1> SUFFICES ASSUME Init PROVE Honest
  OBVIOUS
<1>1. \A c \in Calls : call[c].pc = "client"
  BY DEF Init, AtClient
<1>2. WritersAreCurrent
  BY <1>1 DEF WritersAreCurrent
<1> QED  BY <1>2, TypeInit, SoundInit DEF Honest

LEMMA HonestStep == Honest /\ [Next]_vars => Honest'
  BY TypeStep, WritersStep, SoundStep DEF Honest

LEMMA AlwaysHonest == Spec => []Honest
  BY HonestInit, HonestStep, PTL DEF Spec

\* For any number of calls and attempts, however their transactions overlap, the
\* counter of a slot, its held bookings and its ledger agree, but for the number
\* the slot was created with, and no slot is oversold.
THEOREM CountsAlwaysAgree == Spec => []CountsAgree
<1>1. Honest => CountsAgree
  BY DEF Honest, Sound
<1> QED  BY <1>1, AlwaysHonest, PTL

\* A key makes one booking, however often, however late and by whomever it is
\* sent, and its record leads to the booking of the request it was sent with.
THEOREM AlwaysOncePerKey == Spec => []OncePerKey
<1>1. Honest => OncePerKey
  BY DEF Honest, Sound
<1> QED  BY <1>1, AlwaysHonest, PTL

-----------------------------------------------------------------------------
(* Reconcile's two reads.                                                  *)

\* A step that changes the database commits once, and a commit changes the
\* balance of a slot by one at most.
LEMMA OneCommit ==
    ASSUME Honest, [Next]_vars, db' # db, NEW s \in Slots
    PROVE  /\ db.commits \in Nat /\ db'.commits = db.commits + 1
           /\ Balance(db, s) \in Nat
           /\ Balance(db', s) = Balance(db, s) \/ Balance(db', s) = Balance(db, s) + 1
           /\ audit' = audit
<1>1. db.commits \in Nat /\ db.reserved[s] \in Nat
  BY DEF Honest, TypedCalls, ContentionTypeOK, Database
<1>2. Sound' /\ Sound
  BY SoundStep DEF Honest
<1>3. /\ InitialReserved[s] \in Nat /\ Balance(db, s) \in Nat /\ Balance(db', s) \in Nat
      /\ db.reserved[s] = InitialReserved[s] + Balance(db, s)
      /\ db'.reserved[s] = InitialReserved[s] + Balance(db', s)
  <2>1. Balance(db', s) \in Nat
    BY <1>2, BalanceType DEF Sound, Indexed
  <2> QED  BY <1>2, <2>1, Counted DEF Honest, Sound, CountsAgree
<1>4. CASE \E c \in Calls : Commit(c)
  <2>1. PICK c \in Calls : Commit(c)
    BY <1>4
  <2>2. db \in Database /\ Request[c] \in RequestRow /\ db' = Written(db, Request[c])
    BY <2>1, CommittedDb DEF Honest
  <2>3. /\ Written(db, Request[c]).commits = db.commits + 1
        /\ Written(db, Request[c]).reserved[s] =
              IF s = Request[c].slot /\ HasRoom(db, Request[c])
              THEN db.reserved[s] + 1 ELSE db.reserved[s]
    BY <2>2, WrittenTables, ZenonT(40)
  <2>4. audit' = audit
    BY <2>1 DEF Commit
  <2> QED  BY <1>1, <1>3, <2>2, <2>3, <2>4
<1>5. CASE \E t \in Slots, n \in Sizes : AdjustCapacity(t, n)
  <2>1. PICK t \in Slots, n \in Sizes : AdjustCapacity(t, n)
    BY <1>5
  <2>2. db'.commits = db.commits + 1 /\ db'.reserved = db.reserved
    BY <2>1, AdjustedDb DEF Honest, TypedCalls
  <2>3. audit' = audit
    BY <2>1 DEF AdjustCapacity
  <2> QED  BY <1>1, <1>3, <2>2, <2>3
<1>6. (\E c \in Calls : Commit(c)) \/ (\E t \in Slots, n \in Sizes : AdjustCapacity(t, n))
  BY DEF Next, Begin, Attempt, Replay, Acquire, Busy, Finish, Rollback, Receive, Disconnect,
         LoseAnswer, Crash, Expire, ReadReserved, ReadBalance, vars
<1> QED  BY <1>4, <1>5, <1>6

DriftInv == AuditStarted /\ ReconcileDrift

LEMMA DriftStep ==
    ASSUME Honest, DriftInv, [Next]_vars
    PROVE  DriftInv'
<1>1. Honest'
  BY HonestStep
<1>2. CASE db' # db
  <2>1. SUFFICES ASSUME audit.pc = "read" PROVE DriftInv'
    <3>1. Slots # {} /\ \A s \in Slots : audit' = audit
      BY <1>2, OneCommit
    <3> QED  BY <2>1, <3>1 DEF DriftInv, AuditStarted, ReconcileDrift
  <2>2. audit.slot \in Slots /\ audit.reserved \in Nat /\ audit.since \in Nat
    BY DEF Honest, TypedCalls, ContentionTypeOK
  <2> DEFINE s == audit.slot
  <2>3. /\ db.commits \in Nat /\ db'.commits = db.commits + 1
        /\ Balance(db, s) \in Nat
        /\ Balance(db', s) = Balance(db, s) \/ Balance(db', s) = Balance(db, s) + 1
        /\ audit' = audit
    BY <1>2, <2>2, OneCommit
  <2>4. /\ audit.since <= db.commits
        /\ (audit.reserved - Balance(db, s)) - InitialReserved[s]
              \in (-(db.commits - audit.since))..(db.commits - audit.since)
        /\ InitialReserved[s] \in Nat
    BY <2>2, <2>1, CallAssumption DEF DriftInv, AuditStarted, ReconcileDrift
  <2>5. audit.since <= db'.commits
    BY <2>2, <2>3, <2>4
  <2>6. (audit.reserved - Balance(db', s)) - InitialReserved[s]
           \in (-(db'.commits - audit.since))..(db'.commits - audit.since)
    BY <2>2, <2>3, <2>4
  <2> QED  BY <2>3, <2>5, <2>6 DEF DriftInv, AuditStarted, ReconcileDrift
<1>3. CASE db' = db
  <2>1. CASE \E s \in Slots : ReadReserved(s)
    <3>1. PICK s \in Slots : ReadReserved(s)
      BY <2>1
    <3>2. audit'.slot = s /\ audit'.reserved = db.reserved[s] /\ audit'.since = db.commits
      BY <3>1 DEF ReadReserved
    <3>3. /\ db.commits \in Nat /\ Balance(db, s) \in Nat /\ InitialReserved[s] \in Nat
          /\ db.reserved[s] = InitialReserved[s] + Balance(db, s)
      BY Counted DEF Honest, Sound, CountsAgree, TypedCalls, ContentionTypeOK, Database
    <3>4. /\ db'.commits - audit'.since = 0
          /\ (audit'.reserved - Balance(db', audit'.slot)) - InitialReserved[audit'.slot] = 0
      BY <1>3, <3>2, <3>3
    <3>5. 0 \in (-0)..0
      OBVIOUS
    <3> QED  BY <1>3, <3>2, <3>3, <3>4, <3>5 DEF DriftInv, AuditStarted, ReconcileDrift
  <2>2. CASE ReadBalance
    BY <2>2 DEF ReadBalance, NoAudit, DriftInv, AuditStarted, ReconcileDrift
  <2>3. CASE audit' = audit
    BY <1>3, <2>3 DEF DriftInv, AuditStarted, ReconcileDrift
  <2>4. (\E s \in Slots : ReadReserved(s)) \/ ReadBalance \/ audit' = audit
    BY DEF Next, Begin, Attempt, Replay, Acquire, Busy, Finish, Commit, Rollback, Receive, Disconnect,
           LoseAnswer, Crash, Expire, AdjustCapacity, vars
  <2> QED  BY <2>1, <2>2, <2>3, <2>4
<1> QED  BY <1>2, <1>3

\* The difference Reconcile reports of a slot is what the slot was created with,
\* give or take the number of commits between its two reads.
THEOREM DriftBounded == Spec => []ReconcileDrift
<1>1. Init => DriftInv
  BY DEF Init, NoAudit, DriftInv, AuditStarted, ReconcileDrift
<1>2. Honest /\ DriftInv /\ [Next]_vars => DriftInv'
  BY DriftStep
<1>3. DriftInv => ReconcileDrift
  BY DEF DriftInv
<1> QED  BY <1>1, <1>2, <1>3, AlwaysHonest, PTL DEF Spec

-----------------------------------------------------------------------------
(* Answers.                                                                *)

\* What was true of a request stays true.
LEMMA TellsStable ==
    ASSUME NEW r, NEW a, Tells(r, a), db.records \subseteq db'.records,
           db.entries \subseteq db'.entries, expired \subseteq expired'
    PROVE  Tells(r, a)'
<1>1. CASE \E x \in db.records : x.key = r.key /\ Matches(x, r) /\ a = Booked(x.booking)
  BY <1>1 DEF Tells
<1>2. CASE \E x \in db.records : x.key = r.key /\ ~Matches(x, r) /\ a = Reuse
  BY <1>2 DEF Tells
<1>3. CASE \E x \in db.records : x.key # r.key /\ Matches(x, r) /\ a = Conflict
  BY <1>3 DEF Tells
<1>4. CASE \E x \in db.records : x.key = r.key /\ r.key \in expired /\ a = Conflict
  BY <1>4 DEF Tells
<1>5. CASE \E e \in db.entries : e.slot = r.slot /\ e.id = r.id /\ a = Failed
  BY <1>5 DEF Tells
<1> QED  BY <1>1, <1>2, <1>3, <1>4, <1>5 DEF Tells

LEMMA LaterStep ==
    ASSUME Honest, [Next]_vars
    PROVE  db.records \subseteq db'.records /\ db.entries \subseteq db'.entries /\ expired \subseteq expired'
<1>1. CASE \E c \in Calls : Commit(c)
  <2>1. PICK c \in Calls : Commit(c)
    BY <1>1
  <2>2. LaterThan(db', db) /\ expired' = expired
    BY <2>1, CommittedDb DEF Honest, Commit
  <2> QED  BY <2>2 DEF LaterThan
<1>2. CASE \E s \in Slots, n \in Sizes : AdjustCapacity(s, n)
  <2>1. PICK s \in Slots, n \in Sizes : AdjustCapacity(s, n)
    BY <1>2
  <2>2. LaterThan(db', db) /\ expired' = expired
    BY <2>1, AdjustedDb DEF Honest, TypedCalls, AdjustCapacity
  <2> QED  BY <2>2 DEF LaterThan
<1>3. CASE ~(\E c \in Calls : Commit(c)) /\ ~(\E s \in Slots, n \in Sizes : AdjustCapacity(s, n))
  BY <1>3 DEF Next, Begin, Attempt, Replay, Acquire, Busy, Finish, Rollback, Receive, Disconnect,
              LoseAnswer, Crash, Expire, ReadReserved, ReadBalance, vars
<1> QED  BY <1>1, <1>2, <1>3

\* The answer of a replay, of a commit and of a rollback tells the truth.
LEMMA ReplayTells ==
    ASSUME Honest, NEW c \in Calls, Replay(c)
    PROVE  call'[c].pc = "reply" /\ Tells(Request[c], call'[c].answer)
<1>1. PICK x \in LiveRecord(call[c].snap, call[c].old, Request[c]) :
         call' = [call EXCEPT ![c] = Reply(ReplayAnswer(x, Request[c]))]
  BY DEF Replay
<1>2. x \in call[c].snap.records /\ x.key = Request[c].key
  BY DEF LiveRecord
<1>3. LaterThan(db, call[c].snap)
  BY DEF Replay, Honest, WritersAreCurrent
<1>4. x \in db.records
  BY <1>2, <1>3 DEF LaterThan
<1>5. call'[c].pc = "reply" /\ call'[c].answer = ReplayAnswer(x, Request[c])
  BY <1>1 DEF Reply, Honest, TypedCalls, ContentionTypeOK
<1>6. CASE Matches(x, Request[c])
  BY <1>2, <1>4, <1>5, <1>6 DEF ReplayAnswer, Tells
<1>7. CASE ~Matches(x, Request[c])
  BY <1>2, <1>4, <1>5, <1>7 DEF ReplayAnswer, Tells
<1> QED  BY <1>6, <1>7

LEMMA CommitTells ==
    ASSUME Honest, NEW c \in Calls, Commit(c)
    PROVE  call'[c].pc = "reply" /\ Tells(Request[c], call[c].answer)'
<1> DEFINE r == Request[c]
           n == Len(db.bookings) + 1
           rec == [key |-> r.key, student |-> r.student, slot |-> r.slot, booking |-> n]
<1>1. db'.records = db.records \cup {rec} /\ call[c].snap = db
  BY CommitTables, CommittedDb DEF Honest
<1>2. call'[c].pc = "reply" /\ call'[c].answer = Booked(n)
  BY <1>1 DEF Commit, Reply, Honest, TypedCalls, ContentionTypeOK
<1>3. rec \in db'.records /\ rec.key = r.key /\ Matches(rec, r) /\ rec.booking = n
  BY <1>1 DEF Matches
<1> QED  BY <1>2, <1>3 DEF Tells

LEMMA RollbackTells ==
    ASSUME Honest, NEW c \in Calls, Rollback(c)
    PROVE  call'[c].pc = "reply" /\ Tells(Request[c], call'[c].answer)
<1> DEFINE r == Request[c]
<1>1. /\ call[c].snap = db /\ call[c].old \subseteq expired
      /\ LiveRecord(db, call[c].old, r) = {}
      /\ ~Insertable(db, r)
  BY DEF Rollback, Honest, WritersAreCurrent
<1>2. /\ call'[c].pc = "reply"
      /\ call'[c].answer = IF ActiveFree(db, r) /\ ~EntryFree(db, r) THEN Failed ELSE Conflict
  BY <1>1 DEF Rollback, Reply, Honest, TypedCalls, ContentionTypeOK
<1>3. ASSUME NEW x \in db.records, x.key = r.key PROVE r.key \in expired
  BY <1>1, <1>3 DEF LiveRecord
<1>4. CASE ActiveFree(db, r) /\ ~EntryFree(db, r)
  <2>1. \E e \in db.entries : e.slot = r.slot /\ e.id = r.id
    BY <1>4 DEF EntryFree
  <2> QED  BY <1>2, <1>4, <2>1 DEF Tells
<1>5. CASE ~ActiveFree(db, r)
  <2>1. PICK n \in DOMAIN db.bookings : Matches(db.bookings[n], r)
    BY <1>5 DEF ActiveFree
  <2>2. PICK x \in db.records : x.booking = n
    BY DEF Honest, Sound, Indexed
  <2>3. Matches(x, r)
    BY <2>1, <2>2 DEF Honest, Sound, OncePerKey, Matches
  <2>4. call'[c].answer = Conflict
    BY <1>2, <1>5
  <2> QED  BY <1>2, <1>3, <2>3, <2>4 DEF Tells
<1>6. CASE ActiveFree(db, r) /\ EntryFree(db, r)
  <2>1. PICK x \in db.records : x.key = r.key
    BY <1>1, <1>6 DEF Insertable, KeyFree
  <2>2. call'[c].answer = Conflict
    BY <1>2, <1>6
  <2> QED  BY <1>2, <1>3, <2>1, <2>2 DEF Tells
<1> QED  BY <1>4, <1>5, <1>6

\* A call leaves the answers of the others alone.
LEMMA AnswersKept ==
    ASSUME Honest, AnswersAreTrue, [Next]_vars, NEW x \in Calls, call'[x] = call[x]
    PROVE  /\ call'[x].pc = "reply" /\ call'[x].answer # Exhausted => Tells(Request[x], call[x].answer)'
           /\ call'[x].pc = "done" => Tells(Request[x], call[x].answer)'
<1>1. db.records \subseteq db'.records /\ db.entries \subseteq db'.entries /\ expired \subseteq expired'
  BY LaterStep
<1>2. Tells(Request[x], call[x].answer) => Tells(Request[x], call[x].answer)'
  <2>1. PICK a : a = call[x].answer
    OBVIOUS
  <2>2. Tells(Request[x], a) => Tells(Request[x], a)'
    BY <1>1, TellsStable
  <2>3. call'[x].answer = a
    BY <2>1
  <2> QED  BY <2>1, <2>2, <2>3 DEF Tells
<1> QED  BY <1>2 DEF AnswersAreTrue

\* An answer that was true before the step is true after it.
LEMMA StillTells ==
    ASSUME Honest, [Next]_vars, NEW c \in Calls, Tells(Request[c], call'[c].answer)
    PROVE  Tells(Request[c], call[c].answer)'
<1>1. db.records \subseteq db'.records /\ db.entries \subseteq db'.entries /\ expired \subseteq expired'
  BY LaterStep
<1>2. PICK a : a = call'[c].answer
  OBVIOUS
<1>3. Tells(Request[c], a)'
  BY <1>1, <1>2, TellsStable
<1> QED  BY <1>2, <1>3 DEF Tells

LEMMA AnswersStep ==
    ASSUME Honest, AnswersAreTrue, [Next]_vars
    PROVE  AnswersAreTrue'
<1> DEFINE Good(x) ==
             /\ call'[x].pc = "reply" /\ call'[x].answer # Exhausted => Tells(Request[x], call[x].answer)'
             /\ call'[x].pc = "done" => Tells(Request[x], call[x].answer)'
<1>0. call \in [Calls -> CallState]
  BY DEF Honest, TypedCalls, ContentionTypeOK
<1>1. ASSUME NEW x \in Calls, call'[x] = call[x] PROVE Good(x)
  BY <1>1, AnswersKept
<1>2. ASSUME NEW c \in Calls,
             \/ Begin(c) \/ Attempt(c) \/ Finish(c) \/ Receive(c) \/ Disconnect(c) \/ LoseAnswer(c)
      PROVE  Good(c) /\ \A x \in Calls \ {c} : call'[x] = call[x]
  <2>1. CASE Begin(c)
    <3>1. PICK v \in CallState : v.pc = "read" /\ call' = [call EXCEPT ![c] = v]
      BY <2>1, BeginState DEF Honest
    <3> QED  BY <1>0, <3>1
  <2>2. CASE Acquire(c)
    <3>1. PICK v \in CallState : v.pc = "write" /\ call' = [call EXCEPT ![c] = v]
      BY <2>2, AcquireState DEF Honest
    <3> QED  BY <1>0, <3>1
  <2>3. CASE Replay(c)
    <3>1. Tells(Request[c], call[c].answer)' /\ call'[c].pc = "reply"
      BY <2>3, ReplayTells, StillTells
    <3> QED  BY <3>1, <2>3, OthersKept DEF Honest
  <2>4. CASE Busy(c)
    <3>1. call'[c] = Reply(Exhausted) \/ call'[c].pc = "again"
      BY <1>0, <2>4 DEF Busy, Retry
    <3>2. Good(c)
      BY <3>1 DEF Reply
    <3> QED  BY <3>2, <2>4, OthersKept DEF Honest
  <2>5. CASE Commit(c)
    <3>1. Tells(Request[c], call[c].answer)' /\ call'[c].pc = "reply"
      BY <2>5, CommitTells
    <3> QED  BY <3>1, <2>5, OthersKept DEF Honest
  <2>6. CASE Rollback(c)
    <3>1. Tells(Request[c], call[c].answer)' /\ call'[c].pc = "reply"
      BY <2>6, RollbackTells, StillTells
    <3> QED  BY <3>1, <2>6, OthersKept DEF Honest
  <2>7. CASE Receive(c)
    <3>1. CASE call[c].answer = Exhausted
      <4>1. call'[c] = AtClient
        BY <1>0, <2>7, <3>1 DEF Receive
      <4> QED  BY <4>1, <2>7, OthersKept DEF Honest, AtClient
    <3>2. CASE call[c].answer # Exhausted
      <4>1. PICK v \in CallState : /\ v.pc = "done" /\ v.answer = call[c].answer
                                   /\ call' = [call EXCEPT ![c] = v]
        BY <2>7, <3>2, ReceiveState DEF Honest
      <4>2. call'[c].pc = "done" /\ call'[c].answer = call[c].answer
        BY <1>0, <4>1
      <4>3. Tells(Request[c], call[c].answer)
        BY <2>7, <3>2 DEF Receive, AnswersAreTrue
      <4>4. Tells(Request[c], call[c].answer)'
        BY <4>2, <4>3, StillTells
      <4> QED  BY <4>2, <4>4, <2>7, OthersKept DEF Honest
    <3> QED  BY <3>1, <3>2
  <2>8. CASE Disconnect(c) \/ LoseAnswer(c)
    <3>1. call'[c] = AtClient
      BY <1>0, <2>8 DEF Disconnect, LoseAnswer
    <3> QED  BY <3>1, <2>8, OthersKept DEF Honest, AtClient
  <2> QED  BY <1>2, <2>1, <2>2, <2>3, <2>4, <2>5, <2>6, <2>7, <2>8 DEF Attempt, Finish
<1>3. CASE Crash
  <2>1. ASSUME NEW x \in Calls PROVE Good(x)
    <3>1. CASE call[x].pc = "done"
      BY <1>1, <1>3, <3>1 DEF Crash
    <3>2. CASE call[x].pc # "done"
      BY <1>3, <3>2 DEF Crash, AtClient
    <3> QED  BY <3>1, <3>2
  <2> QED  BY <2>1 DEF AnswersAreTrue
<1>4. CASE call' = call
  BY <1>1, <1>4 DEF AnswersAreTrue
<1>5. CASE \E c \in Calls : \/ Begin(c) \/ Attempt(c) \/ Finish(c) \/ Receive(c)
                            \/ Disconnect(c) \/ LoseAnswer(c)
  <2>1. \A x \in Calls : Good(x)
    BY <1>1, <1>2, <1>5
  <2> QED  BY <2>1 DEF AnswersAreTrue
<1>6. \/ \E c \in Calls : \/ Begin(c) \/ Attempt(c) \/ Finish(c) \/ Receive(c)
                          \/ Disconnect(c) \/ LoseAnswer(c)
      \/ Crash \/ call' = call
  BY DEF Next, Expire, AdjustCapacity, ReadReserved, ReadBalance, vars
<1> QED  BY <1>3, <1>4, <1>5, <1>6

Truthful == Honest /\ AnswersAreTrue

LEMMA AlwaysTruthful == Spec => []Truthful
<1>1. Init => Truthful
  <2>1. ASSUME Init, NEW c \in Calls PROVE call[c].pc = "client"
    BY <2>1 DEF Init, AtClient
  <2>2. Init => AnswersAreTrue
    BY <2>1 DEF AnswersAreTrue
  <2> QED  BY <2>2, HonestInit DEF Truthful
<1>2. Truthful /\ [Next]_vars => Truthful'
  BY HonestStep, AnswersStep DEF Truthful
<1> QED  BY <1>1, <1>2, PTL DEF Spec

-----------------------------------------------------------------------------
(* The booking desk.  deskBook, deskTold and so on are what Desk's variables *)
(* stand for.                                                              *)

deskBook == [n \in DOMAIN db.bookings |->
               [student |-> db.bookings[n].student, slot |-> db.bookings[n].slot,
                seated |-> db.bookings[n].status = Held]]
deskKeyed   == { <<x.key, x.booking>> : x \in db.records }
deskStamped == { <<e.id, e.booking>> : e \in db.entries }
deskTold    == [c \in Calls |-> IF call[c].pc = "done" THEN call[c].answer ELSE Nothing]

LEMMA DeskInit == Init => Desk!Init
<1> SUFFICES ASSUME Init PROVE Desk!Init
  OBVIOUS
<1>2. /\ db.records = {} /\ db.entries = {} /\ db.bookings = << >>
      /\ db.capacity \in [Slots -> Sizes]
  BY CallAssumption DEF Init, Empty
<1>3. deskBook = << >>
  BY <1>2 DEF deskBook
<1>4. deskKeyed = {} /\ deskStamped = {}
  BY <1>2 DEF deskKeyed, deskStamped
<1>5. deskTold = [c \in Calls |-> Desk!Nothing]
  <2>1. \A c \in Calls : call[c].pc # "done"
    BY DEF Init, AtClient
  <2> QED  BY <2>1 DEF deskTold, Desk!Nothing, Nothing
<1> QED
  BY <1>2, <1>3, <1>4, <1>5 DEF Desk!Init, deskBook, deskKeyed, deskStamped, deskTold, Init

LEMMA DeskCardinality == ASSUME NEW S PROVE Desk!Cardinality(S) = Cardinality(S)
  BY DEF Desk!Cardinality, Cardinality

\* A slot has room at the desk if it has room in the database.
LEMMA DeskRoom ==
    ASSUME Honest, NEW s \in Slots
    PROVE  /\ Desk!SeatsTaken(s) = HeldIn(db, s)
           /\ InitialReserved[s] + Cardinality(Desk!SeatsTaken(s)) = db.reserved[s]
           /\ Desk!Room(s) <=> db.reserved[s] < db.capacity[s]
<1>1. Desk!SeatsTaken(s) = HeldIn(db, s)
  BY DEF Desk!SeatsTaken, HeldIn
<1>2. db.reserved[s] = InitialReserved[s] + Cardinality(HeldIn(db, s))
  BY DEF Honest, Sound, CountsAgree
<1> QED  BY <1>1, <1>2, DeskCardinality DEF Desk!Room

LEMMA DeskFor ==
    ASSUME Honest, NEW x \in db.records, NEW r
    PROVE  /\ x.booking \in DOMAIN deskBook
           /\ deskBook[x.booking].student = x.student /\ deskBook[x.booking].slot = x.slot
  BY DEF Honest, Sound, OncePerKey, Matches, deskBook

\* Whatever is true of a request in the database is true at the desk.
LEMMA DeskTrue ==
    ASSUME Honest, NEW r, NEW a, Tells(r, a)
    PROVE  Desk!True(r, a) /\ a \in Desk!Answers
<1>1. ASSUME NEW x \in db.records
      PROVE  /\ <<x.key, x.booking>> \in deskKeyed
             /\ x.booking \in DOMAIN deskBook
             /\ Desk!IsFor(x.booking, r) <=> Matches(x, r)
  <2>1. /\ x.booking \in DOMAIN deskBook
        /\ deskBook[x.booking].student = x.student /\ deskBook[x.booking].slot = x.slot
    BY DeskFor
  <2>2. <<x.key, x.booking>> \in deskKeyed
    BY DEF deskKeyed
  <2> QED  BY <2>1, <2>2 DEF Desk!IsFor, Matches, deskBook
<1>2. ASSUME NEW x \in db.records, x.key = r.key, Matches(x, r), a = Booked(x.booking)
      PROVE  Desk!True(r, a) /\ a \in Desk!Answers
  <2>1. <<x.key, x.booking>> \in deskKeyed /\ x.booking \in DOMAIN deskBook /\ Desk!IsFor(x.booking, r)
    BY <1>1, <1>2
  <2>2. <<x.key, x.booking>>[1] = r.key /\ <<x.key, x.booking>>[2] = x.booking
    BY <1>2
  <2>3. a = Desk!Booked(x.booking)
    BY <1>2 DEF Booked, Desk!Booked
  <2> QED  BY <2>1, <2>2, <2>3 DEF Desk!True, Desk!Answers, deskKeyed, deskBook
<1>3. ASSUME NEW x \in db.records, x.key = r.key, ~Matches(x, r), a = Reuse
      PROVE  Desk!True(r, a) /\ a \in Desk!Answers
  <2>1. <<x.key, x.booking>> \in deskKeyed /\ ~Desk!IsFor(x.booking, r)
    BY <1>1, <1>3
  <2>2. <<x.key, x.booking>>[1] = r.key /\ <<x.key, x.booking>>[2] = x.booking
    BY <1>3
  <2>3. a = Desk!Reuse
    BY <1>3 DEF Reuse, Desk!Reuse
  <2> QED  BY <2>1, <2>2, <2>3 DEF Desk!True, Desk!Answers, deskKeyed
<1>4. ASSUME NEW x \in db.records, x.key # r.key, Matches(x, r), a = Conflict
      PROVE  Desk!True(r, a) /\ a \in Desk!Answers
  <2>1. <<x.key, x.booking>> \in deskKeyed /\ Desk!IsFor(x.booking, r)
    BY <1>1, <1>4
  <2>2. <<x.key, x.booking>>[1] # r.key /\ <<x.key, x.booking>>[2] = x.booking
    BY <1>4
  <2>3. a = Desk!Conflict
    BY <1>4 DEF Conflict, Desk!Conflict
  <2> QED  BY <2>1, <2>2, <2>3 DEF Desk!True, Desk!Answers, deskKeyed
<1>5. ASSUME NEW x \in db.records, x.key = r.key, r.key \in expired, a = Conflict
      PROVE  Desk!True(r, a) /\ a \in Desk!Answers
  <2>1. <<x.key, x.booking>> \in deskKeyed /\ <<x.key, x.booking>>[1] = r.key
    BY <1>1, <1>5
  <2>2. Desk!KeyUsed(r.key)
    BY <2>1 DEF Desk!KeyUsed, deskKeyed
  <2>3. a = Desk!Conflict
    BY <1>5 DEF Conflict, Desk!Conflict
  <2> QED  BY <1>5, <2>2, <2>3 DEF Desk!True, Desk!Answers
<1>6. ASSUME NEW e \in db.entries, e.slot = r.slot, e.id = r.id, a = Failed
      PROVE  Desk!True(r, a) /\ a \in Desk!Answers
  <2>1. <<e.id, e.booking>> \in deskStamped
    BY DEF deskStamped
  <2>2. deskBook[e.booking].slot = r.slot
    BY <1>6 DEF Honest, Sound, Indexed, deskBook
  <2>3. <<e.id, e.booking>>[1] = r.id /\ <<e.id, e.booking>>[2] = e.booking
    BY <1>6
  <2>4. Desk!Stamped(r.id, r.slot)
    BY <2>1, <2>2, <2>3 DEF Desk!Stamped, deskStamped, deskBook
  <2>5. a = Desk!Failed
    BY <1>6 DEF Failed, Desk!Failed
  <2> QED  BY <2>4, <2>5 DEF Desk!True, Desk!Answers
<1> QED  BY <1>2, <1>3, <1>4, <1>5, <1>6 DEF Tells

\* A step that leaves the database and every "done" alone is none at the desk.
LEMMA DeskStutter ==
    ASSUME db' = db, expired' = expired, deskTold' = deskTold
    PROVE  UNCHANGED Desk!desk
  BY DEF Desk!desk, deskTold

\* Who is told what in a step of call c.
LEMMA ToldKept ==
    ASSUME Honest, NEW c \in Calls,
           \A x \in Calls \ {c} : call'[x] = call[x], call[c].pc # "done", call'[c].pc # "done"
    PROVE  deskTold' = deskTold
  BY DEF deskTold

LEMMA PairsAdd ==
    ASSUME NEW S, NEW y
    PROVE  /\ { <<x.key, x.booking>> : x \in S \cup {y} } =
                { <<x.key, x.booking>> : x \in S } \cup {<<y.key, y.booking>>}
           /\ { <<x.id, x.booking>> : x \in S \cup {y} } =
                { <<x.id, x.booking>> : x \in S } \cup {<<y.id, y.booking>>}
  OBVIOUS

\* The book after one more line.
LEMMA BookAppend ==
    ASSUME NEW T, NEW b, NEW e, NEW l \in T, NEW m \in Nat,
           b \in [1..m -> T], e \in [1..(m + 1) -> T],
           \A i \in 1..m : e[i] = b[i], e[m + 1] = l
    PROVE  Len(b) = m /\ e = Append(b, l)
<1>1. b \in Seq(T) /\ Len(b) = m
  BY LenProperties
<1>2. /\ Append(b, l) \in Seq(T) /\ Len(Append(b, l)) = m + 1
      /\ \A i \in 1..m : Append(b, l)[i] = b[i]
      /\ Append(b, l)[m + 1] = l
  BY <1>1, AppendProperties
<1>3. Append(b, l) \in [1..(m + 1) -> T]
  BY <1>2, LenProperties
<1>4. \A i \in 1..(m + 1) : Append(b, l)[i] = e[i]
  BY <1>2
<1> QED  BY <1>1, <1>3, <1>4

\* A commit enters the request in the book.
LEMMA DeskEnter ==
    ASSUME Honest, NEW c \in Calls, Commit(c)
    PROVE  Desk!Enter(Request[c])
<1> DEFINE r == Request[c]
           n == Len(db.bookings) + 1
           row == [student |-> r.student, slot |-> r.slot,
                   status |-> IF HasRoom(db, r) THEN Held ELSE Waitlisted]
           rec == [key |-> r.key, student |-> r.student, slot |-> r.slot, booking |-> n]
           line == [student |-> r.student, slot |-> r.slot, seated |-> Desk!Room(r.slot)]
<1>1. /\ Len(db.bookings) \in Nat
      /\ DOMAIN db.bookings = 1..Len(db.bookings)
      /\ DOMAIN db'.bookings = 1..n
      /\ db'.bookings[n] = row
      /\ \A i \in DOMAIN db.bookings : db'.bookings[i] = db.bookings[i]
      /\ db'.records = db.records \cup {rec}
      /\ \A x \in db.records : x.key # r.key
      /\ db'.entries = db.entries \cup EntryOf(db, r, n)
  BY CommitTables DEF Honest
<1>2. db \in Database /\ r \in RequestRow /\ Insertable(db, r) /\ db' = Written(db, r)
  BY CommittedDb DEF Honest
<1>3. db'.capacity = db.capacity /\ expired' = expired
  <2>1. Written(db, r).capacity = db.capacity
    BY <1>2, WrittenTables
  <2>2. expired' = expired
    BY DEF Commit
  <2> QED  BY <1>2, <2>1, <2>2
<1>4. r.slot \in Slots
  BY <1>2 DEF RequestRow
<1>5. Desk!Room(r.slot) <=> HasRoom(db, r)
  BY <1>4, DeskRoom DEF HasRoom
<1>6. ~Desk!KeyUsed(r.key)
  BY <1>1 DEF Desk!KeyUsed
<1>7. ASSUME NEW m \in DOMAIN deskBook PROVE ~Desk!IsFor(m, r)
  BY <1>2, <1>7 DEF Desk!IsFor, deskBook, Insertable, ActiveFree, Matches
<1>8. ASSUME Desk!Room(r.slot), Desk!Stamped(r.id, r.slot) PROVE FALSE
  <2>3. PICK p \in deskStamped : p[1] = r.id /\ deskBook[p[2]].slot = r.slot
    BY <1>8 DEF Desk!Stamped, deskBook, deskStamped
  <2>4. PICK e \in db.entries : p = <<e.id, e.booking>>
    BY DEF deskStamped
  <2>1. e.id = r.id /\ deskBook[e.booking].slot = r.slot
    BY <2>3, <2>4
  <2>2. e.id = r.id /\ e.slot = r.slot
    BY <2>1 DEF Honest, Sound, Indexed, deskBook
  <2> QED  BY <2>2, <1>2, <1>5, <1>8 DEF Insertable, EntryFree
<1>9. deskTold' = deskTold
  BY OthersKept, ToldKept DEF Honest, Commit, Reply, TypedCalls, ContentionTypeOK
<1>10. Len(deskBook) = Len(db.bookings) /\ deskBook' = Append(deskBook, line)
  <2> DEFINE m == Len(db.bookings)
             T == [student : Students, slot : Slots, seated : BOOLEAN]
  <2>1. /\ \A i \in DOMAIN db.bookings : db.bookings[i] \in BookingRow
        /\ \A i \in DOMAIN db'.bookings : db'.bookings[i] \in BookingRow
    BY CommittedDb DEF Honest, Database
  <2>2. deskBook \in [1..m -> T] /\ deskBook' \in [1..(m + 1) -> T]
    BY <1>1, <2>1 DEF deskBook, BookingRow
  <2>3. ASSUME NEW i \in 1..m PROVE deskBook'[i] = deskBook[i]
    <3>1. i \in DOMAIN db.bookings /\ i \in DOMAIN db'.bookings /\ db'.bookings[i] = db.bookings[i]
      BY <1>1
    <3> QED  BY <3>1 DEF deskBook
  <2>4. Desk!Room(r.slot) \in BOOLEAN
    BY DEF Desk!Room
  <2>5. line \in T
    BY <1>2, <2>4 DEF RequestRow
  <2>6. deskBook'[m + 1] = line
    <3>1. db'.bookings[n].status = Held <=> Desk!Room(r.slot)
      BY <1>1, <1>5 DEF Held, Waitlisted
    <3>2. n \in DOMAIN db'.bookings
      BY <1>1
    <3>3. /\ deskBook'[n] = [student |-> db'.bookings[n].student, slot |-> db'.bookings[n].slot,
                             seated |-> db'.bookings[n].status = Held]
      BY <3>2 DEF deskBook
    <3>4. db'.bookings[n].student = r.student /\ db'.bookings[n].slot = r.slot
      BY <1>1
    <3> QED  BY <3>1, <3>3, <3>4, <2>4
  <2> HIDE DEF T, line
  <2> QED  BY <1>1, <2>2, <2>3, <2>5, <2>6, BookAppend
<1>12. deskKeyed' = deskKeyed \cup {<<r.key, n>>}
  <2>1. <<rec.key, rec.booking>> = <<r.key, n>>
    OBVIOUS
  <2>2. deskKeyed' = { <<x.key, x.booking>> : x \in db.records \cup {rec} }
    BY <1>1 DEF deskKeyed
  <2> HIDE DEF rec
  <2>3. deskKeyed' = deskKeyed \cup {<<rec.key, rec.booking>>}
    BY <2>2, PairsAdd DEF deskKeyed
  <2> QED  BY <2>1, <2>3
<1>13. deskStamped' = deskStamped \cup (IF Desk!Room(r.slot) THEN {<<r.id, n>>} ELSE {})
  <2> DEFINE new == [slot |-> r.slot, id |-> r.id, booking |-> n]
  <2>1. CASE HasRoom(db, r)
    <3>1. <<new.id, new.booking>> = <<r.id, n>>
      OBVIOUS
    <3>2. deskStamped' = { <<x.id, x.booking>> : x \in db.entries \cup {new} }
      BY <1>1, <2>1 DEF deskStamped, EntryOf
    <3> HIDE DEF new
    <3>3. deskStamped' = deskStamped \cup {<<new.id, new.booking>>}
      BY <3>2, PairsAdd DEF deskStamped
    <3> QED  BY <3>1, <3>3, <2>1, <1>5
  <2>2. CASE ~HasRoom(db, r)
    <3>1. db'.entries = db.entries
      BY <1>1, <2>2 DEF EntryOf
    <3> QED  BY <3>1, <2>2, <1>5 DEF deskStamped
  <2> QED  BY <2>1, <2>2
<1> QED
  BY <1>3, <1>6, <1>7, <1>8, <1>9, <1>10, <1>12, <1>13
  DEF Desk!Enter, deskBook, deskKeyed, deskStamped, deskTold

\* An answer that a client receives is told at the desk.
LEMMA DeskTell ==
    ASSUME Truthful, NEW c \in Calls, Receive(c), call[c].answer # Exhausted
    PROVE  \E a \in Desk!Answers : Desk!Tell(c, a)
<1>1. PICK v \in CallState : /\ v.pc = "done" /\ v.answer = call[c].answer
                             /\ call' = [call EXCEPT ![c] = v]
  BY ReceiveState DEF Truthful, Honest
<1>2. call[c].pc = "reply" /\ UNCHANGED <<db, expired>>
  BY DEF Receive
<1>3. Tells(Request[c], call[c].answer)
  BY <1>2 DEF Truthful, AnswersAreTrue
<1>4. Desk!True(Request[c], call[c].answer) /\ call[c].answer \in Desk!Answers
  BY <1>3, DeskTrue DEF Truthful
<1>5. deskTold[c] = Desk!Nothing
  BY <1>2 DEF deskTold, Nothing, Desk!Nothing
<1>6. deskTold' = [deskTold EXCEPT ![c] = call[c].answer]
  BY <1>1 DEF deskTold, Truthful, Honest, TypedCalls, ContentionTypeOK
<1>7. PICK a : a = call[c].answer
  OBVIOUS
<1>8. Desk!Tell(c, a)
  BY <1>2, <1>4, <1>5, <1>6, <1>7 DEF Desk!Tell, deskTold
<1> QED  BY <1>4, <1>7, <1>8

LEMMA DeskStep ==
    ASSUME Truthful, [Next]_vars
    PROVE  [Desk!Next]_Desk!desk
<1>0. call \in [Calls -> CallState] /\ Honest
  BY DEF Truthful, Honest, TypedCalls, ContentionTypeOK
<1>1. CASE \E c \in Calls : Commit(c)
  BY <1>0, <1>1, DeskEnter DEF Desk!Next
<1>2. ASSUME NEW c \in Calls, Receive(c) PROVE [Desk!Next]_Desk!desk
  <2>1. CASE call[c].answer = Exhausted
    <3>1. call' = [call EXCEPT ![c] = AtClient] /\ call[c].pc = "reply" /\ UNCHANGED <<db, expired>>
      BY <1>2, <2>1 DEF Receive
    <3>2. deskTold' = deskTold
      BY <1>0, <3>1, ToldKept DEF AtClient
    <3> QED  BY <3>1, <3>2, DeskStutter
  <2>2. CASE call[c].answer # Exhausted
    <3>1. \E a \in Desk!Answers : Desk!Tell(c, a)
      BY <1>2, <2>2, DeskTell
    <3>2. Desk!Next
      BY <3>1 DEF Desk!Next
    <3> QED  BY <3>2
  <2> QED  BY <2>1, <2>2
<1>3. ASSUME NEW c \in Calls,
             Replay(c) \/ Busy(c) \/ Rollback(c) \/ Disconnect(c) \/ LoseAnswer(c)
      PROVE  [Desk!Next]_Desk!desk
  <2>1. db' = db /\ expired' = expired /\ call[c].pc # "done"
    BY <1>3 DEF Replay, Busy, ToWrite, Rollback, Disconnect, LoseAnswer
  <2>2. \A x \in Calls \ {c} : call'[x] = call[x]
    BY <1>0, <1>3, OthersKept DEF Honest
  <2>3. call'[c].pc # "done"
    BY <1>0, <1>3 DEF Replay, Busy, Rollback, Disconnect, LoseAnswer, Reply, Retry, AtClient
  <2> QED  BY <1>0, <2>1, <2>2, <2>3, ToldKept, DeskStutter
<1>4. ASSUME NEW c \in Calls, Begin(c) \/ Acquire(c)
      PROVE  [Desk!Next]_Desk!desk
  <2>1. db' = db /\ expired' = expired /\ call[c].pc # "done"
    BY <1>4 DEF Begin, Acquire, ToWrite
  <2>2. PICK v \in CallState : v.pc # "done" /\ call' = [call EXCEPT ![c] = v]
    BY <1>0, <1>4, BeginState, AcquireState DEF Honest
  <2> QED  BY <1>0, <2>1, <2>2, ToldKept, DeskStutter
<1>5. CASE Crash
  <2>1. db' = db /\ expired' = expired
    BY <1>5 DEF Crash
  <2>2. deskTold' = deskTold
    BY <1>5 DEF Crash, AtClient, deskTold
  <2> QED  BY <2>1, <2>2, DeskStutter
<1>6. ASSUME NEW k \in Keys, Expire(k) PROVE [Desk!Next]_Desk!desk
  <2>1. PICK x \in db.records : x.key = k
    BY <1>6 DEF Expire
  <2>2. <<x.key, x.booking>> \in deskKeyed /\ <<x.key, x.booking>>[1] = k
    BY <2>1 DEF deskKeyed
  <2>3. expired' = expired \cup {k} /\ db' = db /\ call' = call
    BY <1>6 DEF Expire
  <2>4. Desk!Expire(k)
    BY <2>3 DEF Desk!Expire
  <2> QED  BY <2>2, <2>4 DEF Desk!Next, deskKeyed
<1>7. ASSUME NEW s \in Slots, NEW n \in Sizes, AdjustCapacity(s, n)
      PROVE  [Desk!Next]_Desk!desk
  <2>1. /\ db'.capacity = [db.capacity EXCEPT ![s] = n]
        /\ db'.bookings = db.bookings
        /\ db'.records = db.records /\ db'.entries = db.entries
    BY <1>0, <1>7, AdjustedDb DEF Honest, TypedCalls
  <2>2. db.reserved[s] <= n /\ expired' = expired /\ call' = call
    BY <1>7 DEF AdjustCapacity
  <2>3. InitialReserved[s] + Cardinality(Desk!SeatsTaken(s)) = db.reserved[s]
    BY <1>0, DeskRoom
  <2>4. InitialReserved[s] + Desk!Cardinality(Desk!SeatsTaken(s)) <= n
    BY <2>2, <2>3, DeskCardinality
  <2>5. Desk!Furnish(s, n)
    BY <2>1, <2>2, <2>4 DEF Desk!Furnish
  <2> QED  BY <2>5 DEF Desk!Next
<1>8. CASE (\E s \in Slots : ReadReserved(s)) \/ ReadBalance \/ UNCHANGED vars
  <2>1. db' = db /\ expired' = expired /\ call' = call
    BY <1>8 DEF ReadReserved, ReadBalance, vars
  <2>2. deskTold' = deskTold
    BY <2>1 DEF deskTold
  <2> QED  BY <2>1, <2>2, DeskStutter
<1> QED
  BY <1>1, <1>2, <1>3, <1>4, <1>5, <1>6, <1>7, <1>8 DEF Next, Attempt, Finish

\* However calls overlap, retry, get lost and are repeated, the clients see a
\* desk that serves one request at a time and tells everyone the truth.
THEOREM CallsImplementDesk == Spec => ImplementsDesk
<1>1. Init => Desk!Init
  BY DeskInit
<1>2. Truthful /\ [Next]_vars => [Desk!Next]_Desk!desk
  BY DeskStep
<1> QED  BY <1>1, <1>2, AlwaysTruthful, PTL DEF Spec, ImplementsDesk, Desk!Spec

-----------------------------------------------------------------------------
(* The seat register.                                                      *)

seatedNow  == [s \in Slots |-> HeldIn(db, s)]
waitingNow == [s \in Slots |-> WaitingFor(s)]

LEMMA SeatsCardinality == ASSUME NEW S PROVE Seats!Cardinality(S) = Cardinality(S)
  BY DEF Seats!Cardinality, Cardinality

\* The counter the calls decide by says where there is room.
LEMMA SeatsFree ==
    ASSUME Honest, NEW s \in Slots
    PROVE  Seats!Free(s) <=> db.reserved[s] < db.capacity[s]
<1>1. db.reserved[s] = InitialReserved[s] + Cardinality(HeldIn(db, s))
  BY DEF Honest, Sound, CountsAgree
<1>2. InitialReserved[s] + Seats!Cardinality(HeldIn(db, s)) = db.reserved[s]
  BY <1>1, SeatsCardinality
<1> QED  BY <1>1, <1>2 DEF Seats!Free, Seats!Room

LEMMA SeatsInit == Init => Seats!Init
<1> SUFFICES ASSUME Init PROVE Seats!Init
  OBVIOUS
<1>2. db.bookings = << >> /\ db.capacity = InitialCapacity
  BY DEF Init, Empty
<1>3. db.capacity \in [Slots -> Sizes \cup {0}] /\ \A s \in Slots : db.capacity[s] > 0
  <2>1. \A s \in Slots : InitialCapacity[s] \in Sizes
    BY CallAssumption
  <2>2. \A m \in Sizes : m > 0
    BY CallAssumption
  <2>3. InitialCapacity \in [Slots -> Sizes \cup {0}]
    BY <2>1, CallAssumption
  <2> QED  BY <1>2, <2>1, <2>2, <2>3
<1>4. Slots = { s \in Slots : db.capacity[s] > 0 }
  BY <1>3
<1>5. \A s \in Slots : HeldIn(db, s) = {} /\ WaitingFor(s) = {}
  BY <1>2 DEF HeldIn, WaitingFor
<1> QED  BY <1>2, <1>3, <1>4, <1>5 DEF Seats!Init

\* A commit lets one person in: to a seat if there is room, else to the queue.
LEMMA SeatsArrive ==
    ASSUME Honest, NEW c \in Calls, Commit(c)
    PROVE  Seats!Arrive(Request[c].slot)
<1> DEFINE r == Request[c]
           n == Len(db.bookings) + 1
           s == r.slot
           row == [student |-> r.student, slot |-> r.slot,
                   status |-> IF HasRoom(db, r) THEN Held ELSE Waitlisted]
<1>0. /\ Len(db.bookings) \in Nat
      /\ DOMAIN db.bookings = 1..Len(db.bookings)
      /\ DOMAIN db'.bookings = 1..n
      /\ db'.bookings[n] = row
      /\ \A i \in DOMAIN db.bookings : db'.bookings[i] = db.bookings[i]
  BY CommitTables DEF Honest
<1>1. /\ Len(db.bookings) \in Nat
      /\ DOMAIN db.bookings = 1..Len(db.bookings)
      /\ DOMAIN db'.bookings = 1..n
      /\ db'.bookings[n].slot = s
      /\ db'.bookings[n].status = IF HasRoom(db, r) THEN Held ELSE Waitlisted
      /\ \A i \in DOMAIN db.bookings : db'.bookings[i] = db.bookings[i]
      /\ db'.bookings \in Seq(BookingRow)
  BY <1>0, CommittedDb DEF Honest, Database
<1>2. Len(db'.bookings) = n
  BY <1>1, LenProperties
<1>3. r \in RequestRow /\ db'.capacity = db.capacity
  <2>1. db \in Database /\ r \in RequestRow /\ db' = Written(db, r)
    BY CommittedDb DEF Honest
  <2> QED  BY <2>1, WrittenTables
<1>4. s \in Slots /\ (Seats!Free(s) <=> HasRoom(db, r))
  BY <1>3, SeatsFree DEF RequestRow, HasRoom
<1>5. \A i \in 1..n : i \in DOMAIN db.bookings \/ i = n
  BY <1>1
<1>6. n \notin DOMAIN db.bookings /\ n \in 1..n /\ DOMAIN db.bookings \subseteq 1..n
  BY <1>1
<1> HIDE DEF n
<1>7. \A t \in Slots :
        /\ HeldIn(db', t)  = HeldIn(db, t) \cup (IF t = s /\ HasRoom(db, r) THEN {n} ELSE {})
        /\ WaitingFor(t)'  = WaitingFor(t) \cup (IF t = s /\ ~HasRoom(db, r) THEN {n} ELSE {})
        /\ n \notin WaitingFor(t)
  BY <1>1, <1>5, <1>6 DEF HeldIn, WaitingFor, Held, Waitlisted
<1>8. CASE HasRoom(db, r)
  <2>1. seatedNow' = [seatedNow EXCEPT ![s] = seatedNow[s] \cup {n}]
    BY <1>4, <1>7, <1>8 DEF seatedNow
  <2>2. waitingNow' = [waitingNow EXCEPT ![s] = waitingNow[s] \ {n}]
    BY <1>4, <1>7, <1>8 DEF waitingNow
  <2> QED
    BY <1>2, <1>3, <1>4, <1>8, <2>1, <2>2
    DEF Seats!Arrive, Seats!SitDown, seatedNow, waitingNow, n
<1>9. CASE ~HasRoom(db, r)
  <2>1. waitingNow' = [waitingNow EXCEPT ![s] = waitingNow[s] \cup {n}]
    BY <1>4, <1>7, <1>9, ZenonT(40) DEF waitingNow
  <2>2. seatedNow' = seatedNow
    BY <1>7, <1>9 DEF seatedNow
  <2> QED
    BY <1>2, <1>3, <1>4, <1>9, <2>1, <2>2
    DEF Seats!Arrive, seatedNow, waitingNow, n
<1> QED  BY <1>8, <1>9

LEMMA SeatsStep == Honest /\ [Next]_vars => [Seats!Next]_Seats!register
<1> SUFFICES ASSUME Honest, [Next]_vars PROVE [Seats!Next]_Seats!register
  OBVIOUS
<1>1. ASSUME NEW c \in Calls, Commit(c) PROVE Seats!Next
  <2>1. Request[c].slot \in Slots
    BY RequestType DEF RequestRow
  <2> QED  BY <1>1, <2>1, SeatsArrive DEF Seats!Next
<1>2. ASSUME NEW s \in Slots, NEW n \in Sizes, AdjustCapacity(s, n) PROVE Seats!Next
  <2>1. db'.capacity = [db.capacity EXCEPT ![s] = n] /\ db'.bookings = db.bookings
    BY <1>2, AdjustedDb DEF Honest, TypedCalls
  <2>3. seatedNow' = seatedNow /\ waitingNow' = waitingNow
    BY <2>1 DEF seatedNow, waitingNow, HeldIn, WaitingFor
  <2>4. InitialReserved[s] + Seats!Cardinality(HeldIn(db, s)) <= n
    BY <1>2, SeatsCardinality DEF AdjustCapacity, Honest, Sound, CountsAgree
  <2>5. Seats!Furnish(s, n)
    BY <2>1, <2>3, <2>4 DEF Seats!Furnish, seatedNow, waitingNow
  <2> QED  BY <2>5 DEF Seats!Next
<1>3. CASE UNCHANGED db
  BY <1>3 DEF Seats!register, HeldIn, WaitingFor
<1>4. ASSUME NEW c \in Calls,
             \/ Begin(c) \/ Attempt(c) \/ Rollback(c) \/ Receive(c)
             \/ Disconnect(c) \/ LoseAnswer(c)
      PROVE  UNCHANGED db
  BY <1>4 DEF Begin, Attempt, Replay, Acquire, Busy, Rollback, Receive, Disconnect, LoseAnswer
<1>5. ASSUME \/ Crash \/ (\E k \in Keys : Expire(k)) \/ (\E s \in Slots : ReadReserved(s))
             \/ ReadBalance \/ UNCHANGED vars
      PROVE  UNCHANGED db
  BY <1>5 DEF Crash, Expire, ReadReserved, ReadBalance, vars
<1> QED  BY <1>1, <1>2, <1>3, <1>4, <1>5 DEF Next, Finish

\* Overlapping calls, rolled back, repeated and adjusted around, seat people as
\* calls one at a time do: in order of arrival, and only where there is room.
THEOREM CallsServeRegister == Spec => ServesRegister
  BY SeatsInit, SeatsStep, AlwaysHonest, PTL DEF Spec, ServesRegister, Seats!Spec
=============================================================================
