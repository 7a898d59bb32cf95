---------------------------- MODULE ClosureWorker ----------------------------
(***************************************************************************)
(* The compensation of a closure (worker/handlers.go) run by the job       *)
(* runners (worker/runner.go) on the tables of SlotLedger, while clients   *)
(* go on booking, cancelling, moving, closing and reopening.               *)
(*                                                                         *)
(* Only the cancellation of a booking is a transaction of the ledger.      *)
(* Everything else the handler does is a statement on its own, and what it *)
(* read may be out of date at the next step.  The queue is WorkerQueue     *)
(* without its clock: a retry may be due, and a lease be over, at any time.*)
(***************************************************************************)
EXTENDS SlotLedger

CONSTANTS
    Runners,       \* the processes that run a job runner
    None,          \* no closure
    BatchLimit,    \* the limit Compensation lists bookings with
    MaxAttempts,   \* config.WorkerMaxAttempts
    MaxFaults      \* bound on crashes, failed statements and overrun leases

ASSUME CompensationAssumption ==
    /\ None \notin Closures
    /\ BatchLimit \in Nat \ {0}
    /\ MaxAttempts \in Nat \ {0}
    /\ MaxFaults \in Nat

VARIABLES
    task,      \* the row of worker_jobs of each closure
    handler,   \* each runner's call of Compensation
    faults     \* number of faults so far

ledgerVars == vars
allVars == <<vars, task, handler, faults>>

TaskRow == [status : {"pending", "running", "retry", "succeeded", "dead"}, attempts : Nat]

\* version is that of the first booking of the batch, once it was read.
HandlerState == [pc : {"idle", "look", "list", "read", "cancel", "succeeded", "failed"},
                 closure : Closures \cup {None}, attempt : Nat,
                 batch : SUBSET Nat, version : Nat]

Idle == [pc |-> "idle", closure |-> None, attempt |-> 0, batch |-> {}, version |-> 0]

Holders(c) == { w \in Runners : handler[w].closure = c }

WorkerInit ==
    /\ Init
    /\ task = [c \in Closures |-> [status |-> "pending", attempts |-> 0]]
    /\ handler = [w \in Runners |-> Idle]
    /\ faults = 0

Fault == faults < MaxFaults /\ faults' = faults + 1

-----------------------------------------------------------------------------
(* The runner claims a job.                                                *)

Claimable_NoReclaim(c) == task[c].status \in {"pending", "retry"} /\ UNCHANGED faults

\* A lease that ends while its handler still runs counts as a fault.
Claimable(c) ==
    \/ task[c].status \in {"pending", "retry"} /\ UNCHANGED faults
    \/ task[c].status = "running" /\ Holders(c) = {} /\ UNCHANGED faults
    \/ task[c].status = "running" /\ Holders(c) # {} /\ Fault

Claim(w, c) ==
    /\ handler[w] = Idle
    /\ c \in jobs
    /\ Claimable(c)
    /\ task' = [task EXCEPT ![c].status = "running", ![c].attempts = @ + 1]
    /\ handler' = [handler EXCEPT ![w] = [Idle EXCEPT !.pc = "look", !.closure = c,
                                                      !.attempt = task'[c].attempts]]
    /\ UNCHANGED ledgerVars

-----------------------------------------------------------------------------
(* Slips the runs are known to notice, here and before the definition they *)
(* are a slip of, as in SlotLedger.                                        *)

Affected_HeldOnly(c) ==
    { b \in BookingIds : Covers(c, bookings[b].slot) /\ bookings[b].status = Held }

AfterCancel_ReadsOn(rest) == "read"

AfterCancel_OneBatch(rest) == IF rest = {} THEN "succeeded" ELSE "read"

-----------------------------------------------------------------------------
(* ClosureHandlers.Compensation, one action per statement.                 *)

\* From a statement to the next, at pc.
Goto(w, pc) == handler' = [handler EXCEPT ![w].pc = pc]

\* The closure's status is read once, before the first batch.
Look(w) ==
    /\ handler[w].pc = "look"
    /\ \/ closures[handler[w].closure] = "applied" /\ Goto(w, "list")
       \/ closures[handler[w].closure] # "applied" /\ Goto(w, "succeeded")
    /\ UNCHANGED <<ledgerVars, task, faults>>

\* BookingIDsAffectedByClosure: bookings with a seat, in any slot of the window.
Affected(c) ==
    { b \in BookingIds : Covers(c, bookings[b].slot) /\ bookings[b].status \in {Held, Confirmed} }

FirstOf(S, n) == { b \in S : Cardinality({ x \in S : x < b }) < n }

List(w) ==
    LET batch == FirstOf(Affected(handler[w].closure), BatchLimit) IN
    /\ handler[w].pc = "list"
    /\ \/ batch = {} /\ Goto(w, "succeeded")
       \/ batch # {} /\ handler' = [handler EXCEPT ![w].pc = "read", ![w].batch = batch]
    /\ UNCHANGED <<ledgerVars, task, faults>>

IsHead(w, b) == b \in handler[w].batch /\ \A x \in handler[w].batch : b <= x

\* BookingByID, for its version, whatever became of the booking since it was listed.
Read(w) ==
    /\ handler[w].pc = "read"
    /\ \E b \in handler[w].batch :
          /\ IsHead(w, b)
          /\ handler' = [handler EXCEPT ![w].pc = "cancel", ![w].version = bookings[b].version]
    /\ UNCHANGED <<ledgerVars, task, faults>>

\* After the last booking of a batch the handler asks for another batch.
AfterCancel(rest) == IF rest = {} THEN "list" ELSE "read"

\* What Cancel asks of booking b: nobody changed it since it was read, and it
\* has a seat to give back (a booking that had one never waits again).
StillCancellable(w, b) ==
    handler[w].version = bookings[b].version /\ bookings[b].status \in {Held, Confirmed}

\* booking.Service.Cancel, as the operator who applied the closure.
Cancel(w) ==
    /\ handler[w].pc = "cancel"
    /\ \E b \in handler[w].batch, a \in Operators :
          LET rest == handler[w].batch \ {b} IN
          /\ IsHead(w, b)
          /\ StillCancellable(w, b)
          /\ CancelSeat(a, b) \/ \E n \in BookingIds : CancelAndPromote(a, b, n)
          /\ handler' = [handler EXCEPT ![w].pc = AfterCancel(rest), ![w].batch = rest]
    /\ UNCHANGED <<task, faults>>

\* Cancel refuses the booking, and the error ends the whole attempt.
CancelRefused(w) ==
    /\ handler[w].pc = "cancel"
    /\ \E b \in handler[w].batch : IsHead(w, b) /\ ~StillCancellable(w, b)
    /\ Goto(w, "failed")
    /\ UNCHANGED <<ledgerVars, task, faults>>

-----------------------------------------------------------------------------
(* The runner settles the job, and what can go wrong.                      *)

Release(w) == handler' = [handler EXCEPT ![w] = Idle]

Settle_WhateverStatus(w, status) ==
    /\ task' = [task EXCEPT ![handler[w].closure].status = status]
    /\ Release(w)
    /\ UNCHANGED <<ledgerVars, faults>>

\* CompleteJob and FailJob: only a running row is changed.
Settle(w, status) ==
    LET c == handler[w].closure IN
    /\ task' = [task EXCEPT ![c].status = IF @ = "running" THEN status ELSE @]
    /\ Release(w)
    /\ UNCHANGED <<ledgerVars, faults>>

Complete(w) == handler[w].pc = "succeeded" /\ Settle(w, "succeeded")

Fail_OneLate(w) ==
    /\ handler[w].pc = "failed"
    /\ Settle(w, IF handler[w].attempt > MaxAttempts THEN "dead" ELSE "retry")

Fail(w) ==
    /\ handler[w].pc = "failed"
    /\ Settle(w, IF handler[w].attempt >= MaxAttempts THEN "dead" ELSE "retry")

\* The process stops and starts again, or the result cannot be written: the
\* row stays running, with nobody who holds it.
Crash(w) ==
    /\ handler[w] # Idle
    /\ Fault
    /\ Release(w)
    /\ UNCHANGED <<ledgerVars, task>>

\* A statement of the handler fails (SQLITE_BUSY, an I/O error).
Stumble(w) ==
    /\ handler[w].pc \in {"look", "list", "read", "cancel"}
    /\ Fault
    /\ Goto(w, "failed")
    /\ UNCHANGED <<ledgerVars, task>>

-----------------------------------------------------------------------------
\* The bound on the ledger leaves room for the bookings and cancellations that
\* may still come: one entry for a booking with a seat, two for any before that.
WithStatus(S) == { b \in BookingIds : bookings[b].status \in S }
EntriesToCome == 2 * (MaxBookings - Len(bookings))
                   + 2 * Cardinality(WithStatus({Waitlisted}))
                   + Cardinality(WithStatus({Held, Confirmed}))
RoomToCancel  == \A s \in Slots : Len(ledger[s]) + EntriesToCome <= MaxEntries

ClientStep == Next /\ RoomToCancel' /\ UNCHANGED <<task, handler, faults>>

HandlerStep(w) == Look(w) \/ List(w) \/ Read(w) \/ Cancel(w) \/ CancelRefused(w)
RunnerStep(w)  == (\E c \in Closures : Claim(w, c)) \/ HandlerStep(w) \/ Complete(w) \/ Fail(w)

WorkerNext == ClientStep \/ \E w \in Runners : RunnerStep(w) \/ Crash(w) \/ Stumble(w)

WorkerSpec == WorkerInit /\ [][WorkerNext]_allVars

\* Run polls for ever, a handler goes on to its next statement, and a stopped
\* process is started again.  Nothing is asked of the clients, and faults come to
\* an end (MaxFaults): a process that crashes for ever settles nothing.
FairWorkerSpec == WorkerSpec /\ \A w \in Runners : WF_allVars(RunnerStep(w))

-----------------------------------------------------------------------------
\* Jobs and handlers are of their types; whoever is past claiming holds the job
\* of a closure that was applied, and has a booking at hand while it reads or
\* cancels.
CompensationTypeOK ==
    /\ task \in [Closures -> TaskRow]
    /\ handler \in [Runners -> HandlerState]
    /\ \A w \in Runners :
          /\ handler[w].pc = "idle" <=> handler[w].closure = None
          /\ handler[w].closure \in jobs \cup {None}
          /\ handler[w].batch \subseteq BookingIds
          /\ handler[w].pc \in {"read", "cancel"} => handler[w].batch # {}
    /\ faults \in 0..MaxFaults

\* No other closure could have shut slot s.
OnlyCover(c, s) == Covers(c, s) /\ \A d \in Closures \ {c} : Covers(d, s) => closures[d] = "absent"

\* A job that succeeded did its work: no booking with a seat is left in a slot
\* the closure shut, however many batches it took, whatever the clients did to
\* the bookings meanwhile, and whichever runner finished it.
DrainedWhenDone ==
    \A c \in Closures, s \in Slots :
        /\ task[c].status = "succeeded" /\ closures[c] = "applied"
        /\ OnlyCover(c, s) /\ slots[s].status = "closed"
        => \A b \in BookingIds : bookings[b].slot = s => bookings[b].status \notin {Held, Confirmed}

\* A compensation comes to its end, it succeeds or is dead, also against clients
\* who change the bookings under its hands and processes that crash; unless the
\* slots of its window are open again and again, where clients may book for ever
\* and the handler, which looks at the closure once, finds one more booking.
CompensationEnds ==
    \A c \in Closures :
        \/ []<>(\E s \in Slots : Covers(c, s) /\ slots[s].status = "open")
        \/ (c \in jobs) ~> (task[c].status \in {"succeeded", "dead"})

\* A booking is only cancelled for a closure while a closure shuts its slot.
CancelsForClosure ==
    [][\A w \in Runners, b \in BookingIds :
          Cancel(w) /\ StatusChanges(b) /\ bookings'[b].status = Cancelled
              => StillClosed(closures, bookings[b].slot)]_allVars

-----------------------------------------------------------------------------
(* The jobs here implement the same promise as those of WorkerQueue.       *)

BoardState   == [c \in Closures |-> IF c \notin jobs THEN "absent"
                                     ELSE IF task[c].status \in {"succeeded", "dead"}
                                          THEN task[c].status ELSE "open"]
BoardStarted == [c \in Closures |-> task[c].attempts]

Busy(w)      == handler[w].closure # None
Attempt(w)   == <<handler[w].closure, handler[w].attempt>>
BoardRunning == { Attempt(w) : w \in { w \in Runners : Busy(w) } }

Board == INSTANCE JobAttempts WITH
    Jobs <- Closures, state <- BoardState, started <- BoardStarted, running <- BoardRunning

\* The compensation of a closure is attempted as the queue promises, also when a
\* client reopens the closure, runners overtake each other, or one stumbles.
ImplementsAttempts == Board!Spec

\* A compensation is attempted as often as configured, and once more for each
\* crash, failed statement or overrun lease.
CompensationAttempts == \A c \in Closures : task[c].attempts <= MaxAttempts + faults
=============================================================================
