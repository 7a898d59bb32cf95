# A TLA+ model of Youth Venue Slot Ledger

The program is a Go service over SQLite for a city's summer sports program:
guardians book students into slots of venues, full slots have wait lists, every
seat movement is written to a ledger, operators adjust capacities and close
venues for a time, coaches check students in, and a worker cancels the bookings
of closed slots. This directory holds its specification, the TLC runs that check
it on small instances and the proofs that hold for every instance.

## 1. Inventory

All paths are under `src/`. State is in SQLite tables; the services keep none.

| component | state | operations | works with |
|---|---|---|---|
| booking (`internal/booking`, `repository/bookings.go`) | `bookings`, `idempotency_keys` | Create (held, or waitlisted on a full or closed slot; replayed by Idempotency-Key; retried 5 times on contention), Confirm, Cancel (releases the seat and promotes), Reschedule, List | slots, wait list, ledger, authorizations, coaches |
| schedule (`internal/schedule`, `repository/schedule.go`) | `venues`, `slots`, `coaches`, `coach_assignments` | CreateVenue, CreateSlot with its coach, AdjustCapacity; ReserveSeat and ReleaseSeat for the others | ledger |
| wait list (`internal/waitlist`) | `waitlist_entries` | entry on Create, promotion inside Cancel, PromoteNext | slots, bookings, ledger |
| check-in (`internal/checkin`) | `checkins` | Redeem | bookings |
| ledger (`internal/ledger`, `repository/operations.go`) | `ledger_entries` | append, Reconcile (two reads; nothing in `cmd/server` calls it) | slots |
| closure (`internal/closure`, `repository/closures.go`) | `closures`, slot status | CreateAndApply, Reopen | slots, job queue |
| compensation (`worker/handlers.go`) | none | cancels the bookings of a closure's slots, in batches of 100 | booking, closure |
| job queue and runner (`worker/runner.go`, `repository/jobs.go`) | `worker_jobs` | enqueue, claim with a lease, complete, fail with backoff | handlers |
| sessions (`internal/auth`, `repository/sessions.go`, `worker/maintenance.go`) | `sessions` | login, authenticate, logout, cleaning job | users |
| users (`internal/identity`, `repository/users.go`) | `users`, `guardian_authorizations` | create user, authorize guardian | booking |
| domain (`internal/domain`) | none | transition tables, eligibility, check-in window | all |
| database (`internal/database`, `repository/store.go`) | the file, `schema_migrations` | open (WAL, busy timeout, 8 connections), migrate, WithTx, times as text | all |
| HTTP API, audit, configuration, process | `audit_events` | routing and decoding, insert-only log, environment | all |

Every service call runs in one transaction (`Store.WithTx`): components interact
through the tables, and the closure service reaches the worker through a job row.

What is hard in this code, and what would make each part correct:

* **Seats.** `slots.reserved` is a counter moved by six operations, and every
  decision is taken from it. It has to equal the bookings in the slot after any
  sequence of calls, never exceed the capacity, and agree with the ledger in
  total and booking by booking, but for the count a slot may be created with.
* **The wait list.** Positions are computed, reused and unique; cancelled
  bookings leave entries behind; promotion is four statements. Nobody may be
  forgotten, promoted twice or overtaken.
* **Closures.** Windows overlap, slots are closed and reopened by set, and
  bookings go on meanwhile. A slot is closed only as long as some applied closure
  covers it, and nobody enters it.
* **Time.** Holds expire, authorizations begin and end, check-in has a window.
* **Concurrency.** Transactions overlap on snapshots, versions are read before
  they are used, only Create is retried.
* **The worker.** Leases, retries, crashes, two workers, and a handler that runs
  longer than its lease; compensation reads, then cancels.
* **Stored time.** Times are text, and SQL compares them as text: windows, authorizations,
  sessions. Go compares others as times: holds, check-in, the validation of a slot.

The hazards, each at its line and with the properties that watch it, are in
`PROJECT.json`.

## 2. Modules

| module | what it is |
|---|---|
| `BookingStates` | the states of bookings and closures and the legal moves between them (`domain/state.go`, `domain/types.go`) |
| `SlotLedger` | the core: tables as variables, one action per outcome of a service call, the safety properties |
| `SeatRegister` | the abstract specification: what a user may rely on, without counters, statuses, positions or entries |
| `LedgerImplementsRegister` | the refinement mapping and `ImplementsRegister` |
| `SlotLedgerProofs` | the theorems about `SlotLedger` |
| `BookingHistoryProofs` | the theorems about what a step of `SlotLedger` may never do |
| `RegisterProofs` | the theorem that `SlotLedger` implements `SeatRegister`, and that a cancellation hands the seat on |
| `LedgerEntryProofs` | the theorems about the single entries of the seat ledger |
| `Contention` | overlapping transactions of Create on SQLite's snapshots and write lock, retries, lost answers, replays, and Reconcile as two reads |
| `BookingDesk` | the abstract specification of `Contention`: one request at a time, once, answered truly |
| `ContentionProofs` | the theorems about `Contention`, the refinement among them |
| `WorkerQueue` | the job queue and the runners that claim, complete and fail its jobs |
| `WorkerQueueProofs` | the theorems about `WorkerQueue` |
| `ClosureWorker` | the compensation of a closure, statement by statement, beside every client action of `SlotLedger` (EXTENDS) |
| `ClosureWorkerProofs` | the theorems about the composition, its implementation of `JobAttempts` and `SeatRegister` among them |
| `PersistedTime` | times, their RFC3339Nano text and the order SQL gives it; used by `SlotLedger` and `Accounts` |
| `JobAttempts` | the abstract specification of the job queue, which `WorkerQueue` and `ClosureWorker` both implement |
| `Eligibility` | who may take a place in a slot: ages by the calendar, and abilities (`domain/policy.go`) |
| `Accounts` | the start of processes on one database, accounts, sessions and the maintenance job |
| `AccountsProofs` | the theorems about `PersistedTime`, `Eligibility` and `Accounts` |
| `MCSlotLedger`, `MCContention`, `MCClosureWorker`, `MCAccounts` | the constants of the instances TLC checks |

### SlotLedger

State. One variable per table that a decision is taken from: `slots`,
`assignments` (`coach_assignments`), `bookings`, `waitlist`, `ledger` (a sequence
of entries per slot), `keys` (`idempotency_keys`), `checkins`, `closures`,
`jobs` (closures with a compensation job), and `now`, the services' clock.
Bookings are a sequence: a booking's AUTOINCREMENT id is its index. A slot not
inserted yet has status `absent`.

Actions. An action is one committed transaction. A call that fails is rolled
back, and a replayed call writes nothing: both are stuttering steps.

| action | code | remarks |
|---|---|---|
| `CreateSlot` | `schedule.Service.CreateSlot`, `AssignCoach` | always open, stores the request's reserved count |
| `AdjustCapacity` | `schedule.Service.AdjustCapacity` | an entry with delta 0 |
| `CreateHeld`, `CreateWaitlisted` | `booking.Service.createOnce` | `CreateOnce` is what both outcomes share |
| `Confirm` | `Confirm` | |
| `CancelWaiting`, `CancelSeat`, `CancelAndPromote` | `Cancel` | the status of the booking, and whether somebody can be promoted, decide which |
| `Reschedule` | `Reschedule` | reserves the destination, then releases the source, also when they are one slot |
| `PromoteNext` | `waitlist.Service.PromoteNext` | no route or worker calls it today |
| `Redeem` | `checkin.Service.Redeem` | |
| `CreateAndApply`, `ReopenClosure` | `closure.Service` | |
| `Tick` | the clock | any call may happen at any time |

Statements of the repository layer are operators on rows, named as in the code:
`ReserveSeat`, `ReleaseSeat`, `TransitionBooking`, `MoveBooking`,
`PromoteWaitlistedBooking`, `AppendLedger`, `MarkWaitlistPromoted`, with their
`WHERE` clauses as `CanReserve`, `CanRelease`, `CanAdjust`. Operators named
`X_Slip` are variants of `X` with one plausible mistake, used to make sure that
a run notices it.

Times. Windows, holds, authorizations and the clock are instants of `PersistedTime`. What SQL
compares is compared as text: the overlap of a coach's slots (`CoachFree`) and of a closure with a slot
(`Overlaps`), and authorizations. What Go compares is compared as times (`Before`): the end of a
hold in `Confirm`, the check-in window, the end of a window after its start.

Abstractions. Reasons, timestamps and audit rows are left out. Age and
ability limits are the constant relation `Eligible`; `Eligibility` models what decides it, and the runs
compute it from there: in `queue`, one student was born on the 29th of February and turns 13, the least age, on
the day of the slot; another does so a day later. Users, coaches and authorizations
exist from the start; authorizations have their time windows. A caller's version
has to be the current one for a call to commit, so it is not a parameter. Request
ids are taken to be unique per request here; `Contention` has requests that share one. Two slots of one venue and sport
never start together, as the table demands. Nothing in the code deactivates a user, coach or venue.

Why a transaction may be one action: SQLite has one writer at a time, and a
transaction that has read and then writes after another one committed is refused
(`SQLITE_BUSY_SNAPSHOT`) and rolled back. So those that commit a write are serial
and have read what they overwrite. `Contention` models just that, and the theorems
`CallsImplementDesk` and `CallsServeRegister` show it for Create: overlapping calls serve the same
`SeatRegister` that `SlotLedger` implements with one step per call.

### SeatRegister

A register has places, a set of open slots, and for each slot the tickets seated
and waiting; tickets are numbered in order of arrival. `Arrive` seats or queues a
newcomer; `Leave` hands the place to the first of the queue when it may be used;
`GiveUp`, `Move`, `Call`, `Furnish` (number of places), `Shut` and `Open`
complete it. `LedgerImplementsRegister` maps places to capacities, tickets to
booking ids and the two sets to bookings by status. Moves within a slot,
confirmations, check-ins and ledger entries are stuttering steps of it.

### JobAttempts

A job is absent, open, succeeded or dead; `started` numbers its attempts and `running` are those that
have not ended. `Post` opens a job, once; `Start` begins an attempt of an open job, also while others run;
`End` ends an attempt, which leaves the job alone (it failed early, came too late or was lost) or settles it,
once, as succeeded, or as dead by the `MaxAttempts`-th attempt or a later one. In `WorkerQueue` a job is a
dedupe key; in `ClosureWorker` it is a closure.

### WorkerQueue

State. `rows` is the table `worker_jobs`, indexed by id; `runner` is, for each
process, whether it is up and which job it holds, with the attempt and the lease
it had when it was claimed: `HandleOnce` keeps that copy while the handler runs,
whatever happens to the row. `faults` counts crashes, shutdowns and lost results.

Times are relative: `wait` is what is left until `available_at`, `lease` what is
left until `lease_until < now`, in seconds, so that time needs no bound. What
this would lose is the order of rows whose `available_at` is in the past, by which
`ClaimJob` chooses; the relation `ahead` keeps it.

| action | code | remarks |
|---|---|---|
| `EnqueueJob` | `Store.EnqueueJob` | available at once, as both callers ask; a known dedupe key is a stuttering step |
| `ClaimJob` | `Store.ClaimJob` in `HandleOnce` | the first claimable row, also one whose lease is over, whatever its attempts |
| `CompleteJob`, `FailJob` | the two ends of `HandleOnce` with the statements of the repository | both ask only for `status = 'running'` |
| `FinishRefused` | the conflict both return when the row is not running | |
| `LoseResult` | an error of the statement | the row stays running, the runner polls on |
| `Stop`, `Restart` | a crash, or a cancelled context; `cmd/server` started again | |
| `Tick` | one second passes | |

Between `ClaimJob` and the result a handler may take any time, in particular longer
than its lease, and its outcome is free. What the two handlers do is in
`ClosureWorker` and `Accounts`. A kind without handler fails like a handler that returns an error.

### Contention

State. `db` is the committed database, as far as Create touches it: capacities, the
`reserved` counters, bookings, idempotency records, `reserve` entries, and the
number of commits. A slot starts with the counter it was created with (`InitialReserved`), for which there is no entry. `call` is what each call of `POST /v1/bookings` is doing, with
its snapshot; `lock` is SQLite's write lock; `expired` the keys older than 24 hours;
`audit` the Reconcile that is running.

| action | code | remarks |
|---|---|---|
| `Begin` | `createOnce` up to the idempotency lookup | deferred BEGIN: the first read takes the snapshot, and `now` is read before it |
| `Replay` | a live record was found | the stored booking, or `ErrIdempotencyReuse` |
| `Acquire`, `Busy` | the first write | an upgrade succeeds only on a fresh snapshot and a free lock; it may fail at any time, and then `Create` tries again, or gives up after `MaxAttempts` |
| `Commit`, `Rollback` | the other writes and the end of `WithTx` | three unique indexes decide; the ledger's violation is not mapped to a conflict |
| `Receive`, `Disconnect`, `LoseAnswer`, `Crash` | client and process | the client repeats a request with no answer, or with "retry exhausted" |
| `Expire`, `AdjustCapacity`, `ReadReserved`, `ReadBalance` | the callers beside it | `MaxExpired` keys expire; Reconcile is two statements without a transaction |

That an upgrade needs the snapshot to be the last commit (`Fresh`) is SQLite's rule. `Busy` is not
bound to the commits and the lock of the model: logins, job claims and audit rows of other calls
are transactions too, as many as there may be, so any upgrade may find that one of them was first.

The guards of Create that read tables nobody changes here (authorization, eligibility,
coach coverage) are in `SlotLedger`. Entries are unique in slot, request id and kind, and the
request id can be the client's own `X-Request-ID`: a second seat in one slot under one id is
rolled back as a whole.

What Reconcile would report, should something call it, is the count the slot was created with, give or
take the commits between its two reads (`ReconcileDrift`).

`BookingDesk` knows no transactions: a request enters the book at most once, with a seat
exactly if there is one, and each call is told one true answer. "True" is defined there for
all five answers. `ImplementsDesk` is the refinement. `ServesRegister` maps the same tables to `SeatRegister`.

### ClosureWorker

EXTENDS `SlotLedger`: its tables and all its client actions are there. `task` is the row of
each closure's job, `handler` what each runner's call of `Compensation` has in hand: the
closure, its attempt, the rest of the batch and the version it read last.

| action | code | remarks |
|---|---|---|
| `Claim` | `ClaimJob` | a lease that ends under its handler is a fault and lets a second runner in |
| `Look` | `closure.Status != ClosureApplied` | read once |
| `List` | `BookingIDsAffectedByClosure` | held and confirmed bookings in the window, at most `BatchLimit` |
| `Read` | `BookingByID` | the version |
| `Cancel`, `CancelRefused` | `booking.Service.Cancel` as the operator | the transaction of `SlotLedger`, with its promotion; or a conflict that ends the attempt |
| `Complete`, `Fail`, `Crash`, `Stumble` | `HandleOnce` | `Stumble`: any statement fails |
| `ClientStep` | the HTTP API | every action of `SlotLedger` |

The queue's clock is left to `WorkerQueue`: a retry may be due at once. That the job of a closure, without
clock, backoff and order, is still a job of the queue is not taken for granted: both modules implement `JobAttempts`. `EntriesToCome` keeps
the bound on ledger entries from stopping a cancellation that the code would make.

### PersistedTime and Accounts

`PersistedTime` has the text of a time as `utc` writes it: the fraction without trailing
zeros, then `Z`, which sorts after every digit. `TextBefore` is SQL's `<` on texts. It is the
order of times except within one second, when the earlier text is a beginning of the later one:
a time on the full second sorts after every other time of that second.

`Accounts` has one `process` per `cmd/server` on one file. A start is
`Check` (`migrationApplied`), `Apply` (`applyOne`, one transaction), `Look` and `CreateOperator`
(`EnsureBootstrapOperator`, two statements), `Enqueue` (`EnqueueSessionMaintenance`, one job per
hour); any error ends the process, and `Crash` may end it between any two. While some process is up,
requests create users and authorizations (`CreateUser`, `AuthorizeGuardian`), open and end sessions
(`Login`, `Logout`), and runners claim the maintenance job (`Claim`), run it (`RevokeExpired`, or
`FailToRevoke` when the statement fails) and settle it (`Complete`, or `Fail`: retry, and dead after `MaxAttempts`;
or `LoseResult`). A sweep may fail as often as there are attempts.
`Accepts` is the WHERE clause of `SessionUserByTokenHash`; a request once let in runs to its end
(`ByOperator`). The clock is an instant among `Moments`. Password and token hashing, and the clock of the queue
(leases, backoff), are left out.
What the model shows of the code and no document says:

* The bootstrap operator is looked for by address, not by role: when the configured address
  belongs to, say, a guardian, no operator is created, and with a new address another one is, though there
  are operators. (README.md:16 says "when no operator exists".) So `ReadyWhenUp` promises that there is some
  operator, which holds since the first account always is one; not that the configured address is.
* A process whose start lost a race, for the migration or for the address, stops with an error. It
  comes up when it is started again (`ComesUp`).
* The maintenance job is enqueued at a start and at no other time: sessions that expire
  later are refused, but revoked only after a restart. README.md:27 says that expired sessions are "cleaned by a
  durable worker"; what there is of this is `GetsSwept`: a job that is due revokes what expired before, unless it
  fails until it is dead.
* A session that expires on a full second is accepted until that second is over; one that
  expires within a second can be refused at the beginning of it and accepted later in it.
  `RefusedForGood` says that with the second it ends for good.

## 3. Runs

Runs of the booking core use `MCSlotLedger` and `SPECIFICATION Spec`. `MaxBookings`,
`MaxEntries` (ledger entries per slot) and `Moments` (the times the clock shows) bound an instance; they
occur only in guards (`CreateOnce`, `LedgerRoom`, `Tick`) and in the first value of the clock. When they are reached
the system stops, so deadlock is not checked. Runs that have at least as many
keys as bookings leave `keys` out of the compared state (`WithoutKeys`), since
every actor then always has an unused key. Students are symmetric wherever
`Eligible` and `Authorizations` treat them alike.

| run | instance | question and result |
|---|---|---|
| `queue` | 1 slot, capacities 1 and 2, 4 students of whom one is too young, 4 bookings, 5 entries; the clock shows a second, a moment half a second after the authorizations and the first holds end, and the second after | `NoOversell`, `WaitlistCoherent`, `RunningBalanceHeals`, `VersionNamesState`, `CancelHandsOn`, `HoldNotRenewed`, `ImplementsRegister` hold. Four bookings make a list of three, with gaps left by cancellations and positions used again |
| `venue` | 2 overlapping slots of capacity 2 at one venue, one created with a seat taken, 2 coaches, 2 closures that overlap on one of them, 2 bookings, 3 entries; the closure `c2` begins half a second before slot `s1` ends, and by the order of texts after it | `TypeOK`, `SeatAccounting`, `LedgerFollowsCounter`, `LedgerPerBooking`, `ClosedHasCause`, `CoachOverlapsBelowSecond`, `ClosedOnlyDrains`, `ImplementsRegister` hold under moves between the slots and within one, and every order of applying and reopening |
| `queue_jobs` | 2 processes, 2 jobs, 2 attempts, lease of 1 s, 1 fault, fair | `QueueTypeOK`, `ClaimsNumbered`, `AttemptsBounded`, `ImplementsAttempts`, `Settles` hold |
| `contention` | 3 calls for one slot of size 2, created with a seat taken, one call with another's key, one with another's request id; sizes 2 and 3, 2 attempts, 1 expired key, 1 fault, fair | `ContentionTypeOK`, `CountsAgree`, `OncePerKey`, `ReconcileDrift`, `ImplementsDesk`, `ServesRegister`, `Answered` hold |
| `compensation` | 1 runner, 1 closure, 1 slot, 2 bookings, batches of 1, 2 attempts, 1 fault, fair | `CompensationEnds` holds |
| `takeover` | the same with 2 runners and no fairness | `CompensationTypeOK`, `DrainedWhenDone`, `CompensationAttempts`, `ImplementsAttempts` hold |
| `accounts` | 2 processes, one configured with one address and one with either of two, 3 addresses in all, 1 session of a second, 3 times (a second, half a second after its end, the second after), hours of 2 s, 2 attempts, 1 fault, fair | `AccountsTypeOK`, `ReadyWhenUp`, `AccountsFitLedger`, `RefusedForGood`, `ComesUp`, `GetsSwept` hold |
| `find_waitlist` | 1 slot of capacity 1, 3 bookings | `WaitlistJoinable` is violated |
| `find_balance` | 1 slot | `RunningBalance` is violated |
| `find_reconcile` | 1 slot, created with reserved 1 | `LedgerReconciles` is violated |
| `find_lease` | 2 processes, 1 job, 3 attempts, lease of 1 s, no fault | `LeaseExclusive` is violated |
| `find_compensation` | 1 runner, the instance of `takeover` | `CancelsForClosure` is violated |

Why the bounds are enough: a slot with three waiting bookings is the least that
tells first from last and lets a middle entry be cancelled; two slots are the
least for a move and for a coach with a conflict; two overlapping
closures make every order of apply and reopen. One binary digit of fraction is the least with which the order of
texts is not that of times; theorems say how far it can be from it with any number of digits. The counts themselves
do not rest on the bounds: they are proved (section 5).

In `queue_jobs` two processes are the least that race for a job and two jobs the
least that the order of claims decides between; with two attempts a late failure
can carry the first or the last of them; a lease of one second is shorter than a
handler and as long as the first backoff. Waits and leases count down to
zero, a job is claimed finitely often (`AttemptsBounded`), so only `MaxFaults` is
a bound, in `Fault`. `AttemptsBounded` is tight: TLC finds it violated with one less (with three
processes too, at three attempts). For more processes it is the proof that counts. Here
deadlock is checked: time at least can always pass.

In `contention` every pair of the three calls collides in another way: on the key, on the
request id, on the seats. A call is sent again after a fault or "exhausted", so its own
replay is there too, also of a key that has expired. `MaxCommits` bounds only the operator, and `Busy` none of the other commits.
One conflict, of a student who is
booked in the slot under another key, needs a fourth call; it is covered by the proof.
`Answered` says that a call the server has taken is answered, or its client gone, however often others
commit first. The answer may be "retry exhausted": Create's five attempts with their pauses take some 75 ms, and
no number of attempts ensures a booking. Whether the client then asks again is its choice.

In `compensation` and `takeover` batches of one make the handler list again after each
cancellation, and clients confirm, cancel, move, close and reopen between any two statements.
One slot, because the handler's query ranges over slots as over bookings. `accounts` has an instant in the second
a session expires in and after it, and two hours, so that jobs of two starts are there. Its configured addresses let two
processes race for one address and each insert its own. Larger instances
(three bookings in `venue`, two runners under fairness) run longer than five minutes.

Fairness. The booking core has none and no liveness is claimed of it: every step is
a user's choice. `FairSpec` of `WorkerQueue` is weakly fair to each runner's
`ClaimJob` (`Run` polls for ever), to the end of what it runs (a handler
returns, since its statements time out), to `Restart` (someone starts the
process again, as the README's recovery after restart supposes) and to `Tick`. Nothing is
assumed about who wins a job or about the success of handlers. `Settles`
needs faults to be finite: a process that crashes in every attempt never settles its job, since
reclaiming ignores `max_attempts`. `FairWorkerSpec` asks the same of the runner in
`ClosureWorker` and nothing of clients. Therefore `CompensationEnds` leaves out the case that the slots of the
closure's window are open again and again: the handler lists until it finds nothing and does not look at the
closure again, so clients who book faster than it cancels keep it busy for ever (in the instance
`MaxBookings` would end that, but the property does not rest on it). `FairSpec` of `Contention` is weakly fair to
what the server does of each call it has (`Serve`); of clients, operators, clocks and faults nothing is asked. It needs
no strong fairness, since an upgrade that is refused is an attempt that ends, and attempts are counted. `FairSpec` of `Accounts` asks that a start goes on, that a
runner polls and its handler returns, with an error or without one, and that a process that is down is started again. Crashes and
lost results are finite there; failing sweeps need no bound, since a job that fails is dead after `MaxAttempts`.

## 4. What the violated runs show

* `find_waitlist`. `AddWaitlistEntry` takes the largest position among entries
  not promoted yet, plus one; the unique index covers the promoted ones too. A
  slot of capacity 1: one booking holds it, one waits (position 1), the first is
  cancelled and the second promoted. The next student to wait gets position 1
  again, the insert fails, and so does every Create on that slot until it has a free seat.
* `find_balance`. A booking rescheduled into its own slot writes `transfer_out`
  with the right balance and then `transfer_in` with the balance read before the
  release. `RunningBalanceHeals` holds: only this makes the newest entry wrong,
  and the next entry is right again.
* `find_compensation`. The handler looks at the closure's status once. An operator reopens the
  closure after that look; the slot is open again, and the handler lists a booking of the open slot, made before
  the closure or after the reopening, and cancels it as "temporary venue closure". What still holds: a job that
  succeeded left no seat taken in a slot its closure still shuts (`DrainedWhenDone`).
* `find_reconcile`. `CreateSlot` stores the reserved count of the request and writes no entry for it. Reconcile
  compares the counter with the sum of the entries, so of a slot created with reserved 1 it reports a
  conflict from the first day on. It never gets better or worse: every later call changes both alike
  (`LedgerFollowsCounter`).
* `find_lease`. A result is accepted from whoever held the job: process w1 outlives
  its lease, w2 claims the job, w1 fails and puts it back to `retry` without a
  lease, and after the backoff w1 claims it again while the lease of w2 runs. Two
  handlers then run one job, both within their leases. What still holds:
  that attempts have numbers of their own (`ClaimsNumbered`), that the job is settled once and given up by
  no early attempt (`ImplementsAttempts`), and a bound on the attempts (`AttemptsBounded`): with two
  processes and no fault, two more than configured.

Other places where code and words differ, for which there is a property that holds and says how far:

* A coach's slots may overlap within a second: `AssignCoach` asks with texts, and `10:00:00.5Z` sorts before
  `10:00:00Z` (schedule.go:200). `CoachOverlapsBelowSecond`.
* The bootstrap operator and the cleaning of sessions, README.md:16 and :27 of the repository: see `Accounts`
  in section 2. `ReadyWhenUp`, `GetsSwept`.
* Reconcile is part of the ledger service and nothing in `cmd/server` calls it.
* A hold that expires can no longer be confirmed, but keeps its seat until somebody cancels it: no code
  releases it. `HoldNotRenewed` says only that nobody gets a later end of a hold by moving or confirming.

## 5. Proofs

`SlotLedgerProofs` proves, for every set of slots, students, guardians, coaches
and closures, every capacity and every bound:

| theorem | property |
|---|---|
| `TypeCorrect` | `TypeOK` |
| `WaitlistIsCoherent` | `WaitlistCoherent` |
| `SeatsAccounted` | `SeatAccounting` |
| `NeverOversold` | `NoOversell` |
| `LedgerAlwaysFollows` | `LedgerFollowsCounter` |
| `ClosedAlwaysHasCause` | `ClosedHasCause` |
| `CoachOverlapsBounded` | `CoachOverlapsBelowSecond` |

They rest on the assumptions `SlotLedger` names: windows end after they start, as times,
capacities are positive, initial reserved counts and durations are naturals, the clock's moments are instants.
That the constant sets are finite is not assumed.

The argument. None of the seat properties is inductive. `NoOversell` needs to
know that the counter is right; the counter stays right only if a promotion seats
somebody who was not seated, which needs the wait list to be coherent; and that
`ReleaseSeat` leaves a natural number needs the released booking to have been
counted. So the invariant is

    SeatInv == TypeOK /\ WaitlistCoherent /\ \A s \in Slots : SlotBalanced(s)

where `SlotBalanced(s)` says that the counter is what the slot was created with
plus its seated bookings, at most the capacity, and equal to the ledger's sum
plus the same initial count. The proof of `SeatStep` has a step for each action,
and under it one for each part of `SeatInv` that the action touches. The lemmas
before it count: how the set of seated bookings and the ledger's sum change when
a booking enters, leaves or changes slots. `ClosedHasCause` and `CoachOverlapsBelowSecond` are inductive beside `TypeOK`, the second because the
order of texts is that of times from one second to the next, for any number of digits.

`WorkerQueueProofs` proves, for any processes, keys, lease, attempts and faults:

| theorem | property |
|---|---|
| `QueueTypeCorrect` | `QueueTypeOK` |
| `EveryClaimNumbered` | `ClaimsNumbered` |
| `NeverGivenUpEarly` | `DeadAfterAllAttempts`, which no run checks |
| `SettledForGood` | `TerminalStays`, which no run checks |
| `AttemptsRunOut` | `AttemptsBounded` |
| `QueueImplementsAttempts` | `ImplementsAttempts`: `Spec` implements `Board!Spec` |

They rest on `QueueAssumption`: finitely many processes, at least one attempt and one second of
lease. The invariant of the first four is `QueueInv == QueueTypeOK /\ ClaimsNumbered /\ DeadAfterAllAttempts`.
`DeadAfterAllAttempts` alone is not inductive: `FailJob` compares the attempt in
the runner's hand, which bounds the row's only by `ClaimsNumbered`; and that holds
because a claim takes a number greater than any handed out before.

`AttemptsRunOut` needs a second invariant, `AttemptsCounted`, because reclaiming does not look at the
attempts: what bounds them is who can still make a job claimable. Of the runners that hold a job,
those with an early attempt (`Early`) can put it back to retry once each, after which every free
process may claim it again; those with a last attempt or later (`Late`) can only settle it, or
lose it to a fault. `Left` is what that leaves; each claim past the maximum takes from it and only a fault adds to it.

The refinement maps a runner that holds a job to a pair of the job and an attempt. A claim is a `Start` because
its number is new; a runner that lets go removes one pair because no other runner has the same
(`ClaimsNumbered`), and the job it settles is the one posted under that key because keys are unique in the table
(`KeysUnique`). A settling `FailJob` is allowed by `MaySettle` because it compares the attempt the runner was
given, not the row's. `DeadAfterAllAttempts` and `TerminalStays` say parts of the same of the table; the run
checks the refinement, which implies what a client sees of them.

`BookingHistoryProofs` proves the action properties of `SlotLedger`:

| theorem | property |
|---|---|
| `TransitionsFollowed` | `StatusFollowsTransitions`, which no run checks |
| `HoldsNotRenewed` | `HoldNotRenewed` |
| `ClosedSlotsOnlyDrain` | `ClosedOnlyDrains` |
| `PromotionsInOrder` | `PromotedInOrder`, which no run checks: `ImplementsRegister` asks for the order, too |
| `VersionsNameStates` | `VersionNamesState` |
| `RedeemedOnce` | `CheckedInOnce`, which no run checks |

One lemma carries them, `StepChange`: whatever the call, at most two rows of `bookings` change, and
each by a transition, a promotion or a move. `PromotedInOrder` also needs the invariant
`ListInOrder`: among entries of a slot that wait, the order of positions is the order of
bookings, although positions are given out again.

`RegisterProofs` and `LedgerEntryProofs` prove what relates a slot's tables to each other:

| theorem | property |
|---|---|
| `LedgerServesRegister` | `ImplementsRegister`: `Spec` implements `Register!Spec` |
| `CancelsHandOn` | `CancelHandsOn` |
| `LedgerBalancesPerBooking` | `LedgerPerBooking` |
| `RunningBalanceAlwaysHeals` | `RunningBalanceHeals` |

The refinement needs, beside `SeatInv`, that the wait list is in order (`OrderInv`: the entry with the
lowest position is the booking first in the register's queue) and that a slot has places
exactly since it exists (`Furnished`): together `RegisterInv`. Each call is one lemma that names its step of the
register (`ArriveSeated`, `LeavesToNext`, `MovesOver`, ...), over a few about how the register sees one changed
row. The ledger's two theorems share `EntriesStep`: a call writes nothing in a slot, or one entry that
records how the slot's bookings changed, or the out and in of a move into the same slot. `LedgerPerBooking`
is then inductive; the running balance follows from `SeatAccounting` and the newest entry.

`ContentionProofs` proves, for any calls, keys, students, slots, attempts and faults:

| theorem | property |
|---|---|
| `ContentionTypeCorrect` | `ContentionTypeOK` |
| `CountsAlwaysAgree` | `CountsAgree` |
| `AlwaysOncePerKey` | `OncePerKey` |
| `DriftBounded` | `ReconcileDrift` |
| `CallsImplementDesk` | `ImplementsDesk` |
| `CallsServeRegister` | `ServesRegister`: `Spec` implements `Seats!Spec` |

`CountsAgree` (but for what a slot was created with) is not inductive: a commit writes what was decided from a snapshot. The
invariant says that a snapshot is the database of some time ago, and that of the call which holds
the lock the database itself (`WritersAreCurrent`), because the lock is only taken on a fresh
snapshot and nobody else commits while it is held. With it a commit is a step of the desk.
For the answers the invariant `Truthful` adds that each answer on its way is true: those
given by a rollback at once, those given by a replay because what was true of an old snapshot is
still true (`TellsStable`): bookings, records and entries are only added.

`CallsServeRegister` needs `CountsAgree` again: the register asks whether there is room among the held
bookings, the code asks the counter (`SeatsFree`). A commit is an `Arrive`, an operator's AdjustCapacity a
`Furnish`, and all else (snapshots, refused upgrades, rollbacks, lost answers, crashes) a
stuttering step. It is what entitles `SlotLedger` to take Create as one step.

`ClosureWorkerProofs` proves, for any runners, batch limit, attempts, faults and clients:

| theorem | property |
|---|---|
| `CompensationTypeCorrect` | `CompensationTypeOK` |
| `DrainedWhenSucceeded` | `DrainedWhenDone` |
| `WorkerKeepsSeats` | `SeatAccounting`, `NoOversell`, `LedgerFollowsCounter` and `LedgerPerBooking` of the composed system |
| `WorkerServesRegister` | `ImplementsRegister` of the composed system |
| `CompensationAttemptsBounded` | `CompensationAttempts` |
| `WorkerImplementsAttempts` | `ImplementsAttempts` |

`DrainedWhenDone` is about a moment when the handler may be long gone. The invariant `SuccessIsDrained`
says of every job that succeeded, and every handler about to say so, that the closed slots which
only its closure covers are empty; it is kept because closed slots only drain
(`ClosedSlotsOnlyDrain`) and a closure is applied once. `WorkerKeepsSeats` and
`WorkerServesRegister` are not proved again: the handler changes the tables by calls of `SlotLedger` only (lemma
`WorkerKeepsLedger`), so they follow from the theorems about those calls.

`CompensationAttempts` bounds the attempts of a closure's job by `MaxAttempts + faults`, for any number of
runners. It is not inductive, since a claim does not look at the attempts. The invariant `Paid` counts what
is still to come against the faults. `HoldersPaid`: the runners that hold a job, and one more while it waits for
a runner (`Pending`), are at most one more than the faults, because a second runner gets in only by an
overrun lease. `AttemptsPaid`: once the job had its configured attempts, those made, those of its holders that are
early and can put it back to retry (`Early`), one while it waits, and one while it is running in nobody's hands
(`Forsaken`) are within the bound. A claim turns a waiting or forsaken job into an attempt made, or is paid
by a fault; an early failure turns a holder into a waiting job. Both, and the refinement of `JobAttempts`, rest on
`AttemptsNumbered`: no two holders have the same attempt. `StepOfJob` says once which steps there are, as
the job sees them; a step of a client changes no job but the one it posts.

`AccountsProofs` proves `TextErrsWithinDigits`, about the text order for any number of digits and
any base, and `AccountsTypeCorrect`, `AlwaysReadyWhenUp`, `AccountsAlwaysFit`, `RefusedIsForGood` of the
properties of the same names, and `NeverSweptEarly` of `SweptNotEarly`, which no run checks. The invariant
is `AccountsTypeOK /\ StartedInOrder /\ AccountsFitLedger`; `StartedInOrder` says that schema and record come
together, that who is past a step of the start finds its result, and that accounts begin with
an operator.

Of `Eligibility` it proves, for every birthday and every day of every year: `AgeCountsAnniversaries`, that
`AgeOn` is the number of anniversaries that have come, where the 29th of February is kept on the first of March
of a common year, as `time.Date` normalises it; and `EligibleBetweenAnniversaries`, that the ages a slot allows are a time
without gaps from one anniversary to the day before another.

Checked by TLC only: `Settles`, `CompensationEnds`, `Answered`, `ComesUp`, `GetsSwept`, that is
liveness, which is out of the prover's reach, as are `ENABLED` and what recursive functions compute
for every input. Every invariant, action property and refinement of the passing runs is proved.

## 6. Plan

Done, in this order: the booking core with its register and proofs, the job queue, contention and the
desk, the compensation composed with the core, stored time and accounts, the histories of
bookings, the promises of the job queue with both its implementations, the register as overlapping calls
serve it, eligibility.

Left: proofs that say more of `Accounts` (what a session goes through from login to sweep), and the
bound of `AttemptsBounded` shown to be reached for more processes than TLC can take.

## 7. Not modelled

* HTTP routing, decoding, error envelopes and pagination: no state of their own.
* The audit log: written by every transaction, read by one listing, never decided on.
* Parsing of the configuration: its values are constants. The graceful shutdown of the HTTP server:
  a crash of the model loses no less.
* Password hashing and tokens: data without control.
* CreateVenue: a row that nothing else decides on. Venues of slots are in their windows.
* Listings of venues, slots and bookings: reads.
* Expired holds: no code releases them, so there is no action.
