------------------------ MODULE ClosureWorkerProofs ------------------------
(***************************************************************************)
(* Proofs about ClosureWorker, for any number of runners, any batch limit, *)
(* number of attempts and faults, and any clients.                         *)
(***************************************************************************)
EXTENDS ClosureWorker, LedgerEntryProofs, WellFoundedInduction

-----------------------------------------------------------------------------
(* Batches.                                                                *)

\* A set of booking ids that is not empty has a smallest one.
LEMMA SmallestId ==
    ASSUME NEW S \in SUBSET Nat, S # {}
    PROVE  \E x \in S : \A y \in S : x <= y
<1> DEFINE R == OpToRel(<, Nat)
<1>1. IsWellFoundedOn(R, Nat)
  BY NatLessThanWellFounded
<1>2. \A x, y \in Nat : y < x => <<y, x>> \in R
  BY DEF OpToRel
<1> HIDE DEF R
<1>3. PICK x \in S : \A y \in S : ~ (<<y, x>> \in R)
  BY <1>1, WFMin
<1>4. ASSUME NEW y \in S PROVE x <= y
  <2>1. x \in Nat /\ y \in Nat
    OBVIOUS
  <2>2. ~ y < x
    BY <1>2, <1>3, <2>1
  <2> QED  BY <2>1, <2>2
<1> QED  BY <1>4

\* The list is only empty when nobody is affected.
LEMMA FirstOfSome ==
    ASSUME NEW S \in SUBSET Nat, NEW n \in Nat \ {0}
    PROVE  FirstOf(S, n) \subseteq S /\ (FirstOf(S, n) = {} => S = {})
<1>1. FirstOf(S, n) \subseteq S
  BY DEF FirstOf
<1>2. ASSUME S # {} PROVE FirstOf(S, n) # {}
  <2>1. PICK x \in S : \A y \in S : x <= y
    BY <1>2, SmallestId
  <2>2. ASSUME NEW y \in S PROVE ~ y < x
    <3>1. x \in Nat /\ y \in Nat /\ x <= y
      BY <2>1
    <3> QED  BY <3>1
  <2>3. Cardinality({ y \in S : y < x }) = 0
    <3>1. { y \in S : y < x } = {}
      BY <2>2
    <3> QED  BY <3>1, FS_EmptySet
  <2>4. x \in FirstOf(S, n)
    BY <2>1, <2>3 DEF FirstOf
  <2> QED  BY <2>4
<1> QED  BY <1>1, <1>2

-----------------------------------------------------------------------------
(* The ledger under the worker.                                            *)

\* A closure that is applied stays applied or is reopened, and is never
\* forgotten; whoever has a job was applied.
LEMMA ClosureSteps ==
    ASSUME TypeOK, [Next]_vars, NEW c \in Closures
    PROVE  /\ closures'[c] = "absent" => closures[c] = "absent"
           /\ closures'[c] = "applied" => closures[c] # "reopened"
           /\ jobs \subseteq jobs'
           /\ c \in jobs' => c \in jobs \/ closures'[c] # "absent"
<1>0. closures \in [Closures -> ClosureStatus]
  BY DEF TypeOK
<1>1. ASSUME NEW a, NEW d \in Closures, CreateAndApply(a, d) \/ ReopenClosure(a, d)
      PROVE  /\ closures'[c] = "absent" => closures[c] = "absent"
             /\ closures'[c] = "applied" => closures[c] # "reopened"
             /\ jobs \subseteq jobs'
             /\ c \in jobs' => c \in jobs \/ closures'[c] # "absent"
  BY <1>0, <1>1 DEF CreateAndApply, ReopenClosure
<1>2. CASE UNCHANGED <<closures, jobs>>
  BY <1>2
<1>3. CASE OperatorStep
  BY <1>1, <1>2, <1>3 DEF OperatorStep, CreateSlot, AdjustCapacity
<1>4. CASE CreateStep
  BY <1>2, <1>4 DEF CreateStep, CreateHeld, CreateWaitlisted, CreateOnce
<1>5. CASE BookingStep
  BY <1>2, <1>5
  DEF BookingStep, Confirm, CancelWaiting, CancelSeat, CancelAndPromote, Reschedule, Redeem
<1>6. CASE PromotionStep
  BY <1>2, <1>6 DEF PromotionStep, PromoteNext
<1>7. CASE Tick \/ UNCHANGED vars
  BY <1>2, <1>7 DEF Tick, vars
<1> QED  BY <1>3, <1>4, <1>5, <1>6, <1>7 DEF Next

\* The closure did its work: no booking with a seat is left where it alone shut.
Drained(c) ==
    \A s \in Slots :
        closures[c] = "applied" /\ OnlyCover(c, s) /\ slots[s].status = "closed"
        => \A b \in BookingIds : bookings[b].slot = s => bookings[b].status \notin {Held, Confirmed}

\* What was drained stays drained, whatever happens in the ledger.
LEMMA DrainedStays ==
    ASSUME TypeOK, WaitlistCoherent, [Next]_vars, NEW c \in Closures,
           closures[c] # "absent", Drained(c)
    PROVE  Drained(c)'
<1> SUFFICES ASSUME NEW s \in Slots, closures'[c] = "applied", OnlyCover(c, s)',
                    slots'[s].status = "closed",
                    NEW b \in BookingIds', bookings'[b].slot = s,
                    bookings'[b].status \in {Held, Confirmed}
             PROVE  FALSE
  BY DEF Drained
<1>0. closures \in [Closures -> ClosureStatus] /\ slots \in [Slots -> SlotRow]
  BY DEF TypeOK
<1>1. closures[c] = "applied"
  BY <1>0, ClosureSteps DEF ClosureStatus
<1>2. OnlyCover(c, s)
  BY ClosureSteps DEF OnlyCover
<1>3. slots[s].status = "closed"
  <2>1. CASE \A a \in Operators, d \in Closures : ~CreateAndApply(a, d) /\ ~ReopenClosure(a, d)
    BY <2>1, StatusKept
  <2>2. ASSUME NEW a \in Operators, NEW d \in Closures, CreateAndApply(a, d)
        PROVE  slots[s].status = "closed"
    <3>1. closures[d] = "absent" /\ closures'[d] = "applied"
      BY <1>0, <2>2 DEF CreateAndApply
    <3>2. ~Covers(d, s)
      BY <1>1, <3>1 DEF OnlyCover
    <3> QED  BY <2>2, <3>2 DEF CreateAndApply
  <2>3. ASSUME NEW a \in Operators, NEW d \in Closures, ReopenClosure(a, d)
        PROVE  slots[s].status = "closed"
    BY <1>0, <2>3 DEF ReopenClosure, Reopen, SlotRow
  <2> QED  BY <2>1, <2>2, <2>3
<1>4. ~IsOpen(s)
  BY <1>3 DEF IsOpen
<1>5. b \in BookingIds /\ bookings[b].slot = s /\ bookings[b].status \in {Held, Confirmed}
  BY <1>4, SitsDownWhereOpen
<1> QED  BY <1>1, <1>2, <1>3, <1>5 DEF Drained

-----------------------------------------------------------------------------
(* The invariant of the worker.                                            *)

\* A job that was ever claimed is in the table, and so is its closure.
JobsKnown ==
    /\ \A c \in jobs : closures[c] # "absent"
    /\ \A c \in Closures : task[c].status # "pending" => c \in jobs

\* Whoever is about to report success, or did, has drained its slots.
SuccessIsDrained ==
    /\ \A c \in Closures : task[c].status = "succeeded" => Drained(c)
    /\ \A w \in Runners : handler[w].pc = "succeeded" => Drained(handler[w].closure)

WorkerInv == TypeOK /\ WaitlistCoherent /\ CompensationTypeOK /\ JobsKnown /\ SuccessIsDrained

\* Every step of the worker is a call on the ledger, or does nothing to it.
LEMMA WorkerCallsLedger ==
    ASSUME CompensationTypeOK, [WorkerNext]_allVars
    PROVE  [Next]_vars
<1>1. CASE ClientStep
  BY <1>1 DEF ClientStep
<1>2. ASSUME NEW w \in Runners, Cancel(w)
      PROVE  Next
  <2>1. PICK b \in handler[w].batch, a \in Operators :
            CancelSeat(a, b) \/ \E n \in BookingIds : CancelAndPromote(a, b, n)
    BY <1>2 DEF Cancel
  <2>2. b \in BookingIds
    BY DEF CompensationTypeOK
  <2> QED  BY <2>1, <2>2 DEF Next, BookingStep
<1>3. ASSUME NEW w \in Runners, WorkerNext, ~ClientStep,
             \/ \E c \in Closures : Claim(w, c)
             \/ Look(w) \/ List(w) \/ Read(w) \/ CancelRefused(w)
             \/ Complete(w) \/ Fail(w) \/ Crash(w) \/ Stumble(w)
      PROVE  UNCHANGED vars
  BY <1>3
  DEF Claim, Look, List, Read, CancelRefused, Complete, Fail, Settle, Crash, Stumble, ledgerVars
<1>4. CASE UNCHANGED allVars
  BY <1>4 DEF allVars
<1> QED
  BY <1>1, <1>2, <1>3, <1>4 DEF WorkerNext, RunnerStep, HandlerStep

LEMMA WorkerInit_Inv == WorkerInit => WorkerInv
<1> SUFFICES ASSUME WorkerInit PROVE WorkerInv
  OBVIOUS
<1>1. TypeOK /\ WaitlistCoherent
  BY TypeInit DEF WorkerInit, Init, WaitlistCoherent, BookingIds
<1>2. CompensationTypeOK
  BY CompensationAssumption DEF WorkerInit, CompensationTypeOK, TaskRow, HandlerState, Idle
<1>3. JobsKnown /\ SuccessIsDrained
  BY DEF WorkerInit, Init, JobsKnown, SuccessIsDrained, Idle
<1> QED  BY <1>1, <1>2, <1>3 DEF WorkerInv

-----------------------------------------------------------------------------
(* One step of the worker.  What a handler or a job may look like next is  *)
(* said about the ledger of before the step; the ledger then keeps it.     *)

GoodHandler(r) ==
    /\ r \in HandlerState
    /\ r.pc = "idle" <=> r.closure = None
    /\ r.closure \in jobs \cup {None}
    /\ r.batch \subseteq BookingIds
    /\ r.pc \in {"read", "cancel"} => r.batch # {}
    /\ r.pc = "succeeded" => Drained(r.closure)

GoodTask(c, row) ==
    /\ row \in TaskRow
    /\ row.status # "pending" => c \in jobs
    /\ row.status = "succeeded" => Drained(c)

LEMMA GoodNow ==
    ASSUME WorkerInv
    PROVE  /\ handler \in [Runners -> HandlerState] /\ \A w \in Runners : GoodHandler(handler[w])
           /\ task \in [Closures -> TaskRow] /\ \A c \in Closures : GoodTask(c, task[c])
           /\ faults \in 0..MaxFaults
           /\ jobs \subseteq Closures
  BY DEF WorkerInv, CompensationTypeOK, JobsKnown, SuccessIsDrained, GoodHandler, GoodTask, TypeOK

LEMMA GoodStays ==
    ASSUME WorkerInv, [WorkerNext]_allVars,
           handler' \in [Runners -> HandlerState], \A w \in Runners : GoodHandler(handler'[w]),
           task' \in [Closures -> TaskRow], \A c \in Closures : GoodTask(c, task'[c]),
           faults' \in 0..MaxFaults
    PROVE  WorkerInv'
<1>1. TypeOK /\ WaitlistCoherent /\ CompensationTypeOK /\ JobsKnown /\ SuccessIsDrained
  BY DEF WorkerInv
<1>2. [Next]_vars
  BY <1>1, WorkerCallsLedger
<1>3. TypeOK' /\ WaitlistCoherent'
  BY <1>1, <1>2, TypeStep, CoherentStep
<1>4. BookingIds \subseteq BookingIds'
  BY <1>1, <1>2, StepChange DEF BookingsChange
<1>5. \A c \in Closures : closures'[c] = "absent" => closures[c] = "absent"
  BY <1>1, <1>2, ClosureSteps
<1>6. \A c \in Closures : c \in jobs' => c \in jobs \/ closures'[c] # "absent"
  BY <1>1, <1>2, ClosureSteps
<1>7. jobs \subseteq jobs'
  <2>1. ASSUME NEW c \in jobs PROVE c \in jobs'
    <3>1. c \in Closures
      BY <1>1 DEF TypeOK
    <3> QED  BY <1>1, <1>2, <3>1, ClosureSteps
  <2> QED  BY <2>1
<1>8. \A c \in Closures : c \in jobs /\ Drained(c) => Drained(c)'
  BY <1>1, <1>2, DrainedStays DEF JobsKnown
<1>9. CompensationTypeOK'
  <2>1. ASSUME NEW w \in Runners
        PROVE  /\ handler'[w].pc = "idle" <=> handler'[w].closure = None
               /\ handler'[w].closure \in jobs' \cup {None}
               /\ handler'[w].batch \subseteq BookingIds'
               /\ handler'[w].pc \in {"read", "cancel"} => handler'[w].batch # {}
    <3>1. GoodHandler(handler'[w])
      OBVIOUS
    <3> QED  BY <1>4, <1>7, <3>1 DEF GoodHandler
  <2> QED  BY <2>1 DEF CompensationTypeOK
<1>10. JobsKnown'
  <2>1. ASSUME NEW c \in jobs' PROVE closures'[c] # "absent"
    <3>1. c \in Closures
      BY <1>3 DEF TypeOK
    <3> QED  BY <1>1, <1>5, <1>6, <3>1 DEF JobsKnown
  <2>2. ASSUME NEW c \in Closures, task'[c].status # "pending" PROVE c \in jobs'
    BY <1>7, <2>2 DEF GoodTask
  <2> QED  BY <2>1, <2>2 DEF JobsKnown
<1>11. SuccessIsDrained'
  <2>1. ASSUME NEW c \in Closures, task'[c].status = "succeeded" PROVE Drained(c)'
    <3>1. GoodTask(c, task'[c])
      OBVIOUS
    <3> QED  BY <1>8, <2>1, <3>1 DEF GoodTask
  <2>2. ASSUME NEW w \in Runners, handler'[w].pc = "succeeded" PROVE Drained(handler[w].closure)'
    <3>1. GoodHandler(handler'[w])
      OBVIOUS
    <3>2. PICK c : c = handler'[w].closure
      OBVIOUS
    <3>3. c \in jobs /\ Drained(c)
      BY <2>2, <3>1, <3>2 DEF GoodHandler
    <3>4. c \in Closures
      BY <1>1, <3>3 DEF TypeOK
    <3>5. Drained(c)'
      BY <1>8, <3>3, <3>4
    <3> QED  BY <3>2, <3>5 DEF Drained
  <2> QED  BY <2>1, <2>2 DEF SuccessIsDrained
<1> QED  BY <1>3, <1>9, <1>10, <1>11 DEF WorkerInv

\* A handler that moves on leaves the others as they are.
LEMMA OneHandlerMoves ==
    ASSUME WorkerInv, [WorkerNext]_allVars, NEW w \in Runners, NEW r, GoodHandler(r),
           handler' = [handler EXCEPT ![w] = r],
           task' \in [Closures -> TaskRow], \A c \in Closures : GoodTask(c, task'[c]),
           faults' \in 0..MaxFaults
    PROVE  WorkerInv'
<1>1. handler \in [Runners -> HandlerState] /\ \A v \in Runners : GoodHandler(handler[v])
  BY GoodNow
<1>2. r \in HandlerState
  BY DEF GoodHandler
<1>3. handler' \in [Runners -> HandlerState] /\ \A v \in Runners : GoodHandler(handler'[v])
  BY <1>1, <1>2
<1> QED  BY <1>3, GoodStays

\* ... also when the jobs stay as they are.
LEMMA HandlerGoes ==
    ASSUME WorkerInv, [WorkerNext]_allVars, NEW w \in Runners, NEW r, GoodHandler(r),
           handler' = [handler EXCEPT ![w] = r], UNCHANGED task,
           UNCHANGED faults \/ Fault
    PROVE  WorkerInv'
<1>1. faults' \in 0..MaxFaults
  BY GoodNow, CompensationAssumption DEF Fault
<1> QED  BY <1>1, GoodNow, OneHandlerMoves

LEMMA ClaimedRow ==
    ASSUME NEW row \in TaskRow
    PROVE  /\ [row EXCEPT !.status = "running", !.attempts = @ + 1] \in TaskRow
           /\ [row EXCEPT !.status = "running", !.attempts = @ + 1].status = "running"
<1>1. row.attempts + 1 \in Nat
  BY DEF TaskRow
<1> QED  BY <1>1 DEF TaskRow

LEMMA IdleIsGood == GoodHandler(Idle)
  BY DEF GoodHandler, Idle, HandlerState

LEMMA WorkerStep == WorkerInv /\ [WorkerNext]_allVars => WorkerInv'
<1> SUFFICES ASSUME WorkerInv, [WorkerNext]_allVars PROVE WorkerInv'
  OBVIOUS
<1>0. /\ handler \in [Runners -> HandlerState] /\ \A w \in Runners : GoodHandler(handler[w])
      /\ task \in [Closures -> TaskRow] /\ \A c \in Closures : GoodTask(c, task[c])
      /\ faults \in 0..MaxFaults
      /\ jobs \subseteq Closures
  BY GoodNow
<1>1. CASE UNCHANGED <<task, handler, faults>>
  BY <1>0, <1>1, GoodStays
<1>2. ASSUME NEW w \in Runners, NEW c \in Closures, Claim(w, c)
      PROVE  WorkerInv'
  <2> DEFINE row == [task[c] EXCEPT !.status = "running", !.attempts = @ + 1]
             r   == [Idle EXCEPT !.pc = "look", !.closure = c, !.attempt = row.attempts]
  <2>1. row \in TaskRow /\ row.status = "running"
    BY <1>0, ClaimedRow
  <2>2. task' = [task EXCEPT ![c] = row]
    BY <1>0, <1>2 DEF Claim
  <2>3. task' \in [Closures -> TaskRow] /\ \A d \in Closures : GoodTask(d, task'[d])
    <3>1. c \in jobs
      BY <1>2 DEF Claim
    <3> QED  BY <1>0, <2>1, <2>2, <3>1 DEF GoodTask
  <2>4. task'[c] = row
    BY <1>0, <2>2
  <2>5. handler' = [handler EXCEPT ![w] = r]
    BY <1>2, <2>4 DEF Claim
  <2>6. GoodHandler(r)
    <3>1. row.attempts \in Nat
      BY <2>1 DEF TaskRow
    <3> HIDE DEF row
    <3>2. c \in jobs /\ c # None
      BY <1>2, CompensationAssumption DEF Claim
    <3> QED  BY <3>1, <3>2 DEF GoodHandler, HandlerState, Idle
  <2>7. faults' \in 0..MaxFaults
    BY <1>0, <1>2, CompensationAssumption DEF Claim, Claimable, Fault
  <2> QED  BY <2>3, <2>5, <2>6, <2>7, OneHandlerMoves
<1>3. ASSUME NEW w \in Runners, NEW pc \in {"list", "succeeded", "failed"}, Goto(w, pc),
             handler[w].pc # "idle", pc = "succeeded" => Drained(handler[w].closure),
             UNCHANGED task, UNCHANGED faults \/ Fault
      PROVE  WorkerInv'
  <2> DEFINE r == [handler[w] EXCEPT !.pc = pc]
  <2>1. GoodHandler(r)
    BY <1>0, <1>3 DEF GoodHandler, HandlerState
  <2>2. handler' = [handler EXCEPT ![w] = r]
    BY <1>0, <1>3 DEF Goto
  <2> QED  BY <1>3, <2>1, <2>2, HandlerGoes
<1>4. ASSUME NEW w \in Runners, Look(w)
      PROVE  WorkerInv'
  <2>1. closures[handler[w].closure] # "applied" => Drained(handler[w].closure)
    BY DEF Drained
  <2> QED  BY <1>3, <1>4, <2>1 DEF Look

<1>5. ASSUME NEW w \in Runners, List(w)
      PROVE  WorkerInv'
  <2> DEFINE c     == handler[w].closure
             batch == FirstOf(Affected(c), BatchLimit)
             r     == [handler[w] EXCEPT !.pc = "read", !.batch = batch]
  <2>1. Affected(c) \subseteq BookingIds /\ BookingIds \subseteq Nat
    BY TableFacts DEF Affected, WorkerInv
  <2>2. batch \subseteq BookingIds /\ (batch = {} => Affected(c) = {})
    BY <2>1, FirstOfSome, CompensationAssumption
  <2>3. Affected(c) = {} => Drained(c)
    BY DEF Affected, Drained, OnlyCover
  <2>4. handler[w].pc = "list" /\ UNCHANGED <<task, faults>>
    BY <1>5 DEF List
  <2>5. CASE batch = {} /\ Goto(w, "succeeded")
    BY <1>3, <2>2, <2>3, <2>4, <2>5
  <2>6. CASE batch # {} /\ handler' = [handler EXCEPT ![w].pc = "read", ![w].batch = batch]
    <3>1. batch \subseteq Nat
      BY <2>1, <2>2
    <3> HIDE DEF batch
    <3>2. GoodHandler(r)
      BY <1>0, <2>2, <2>4, <2>6, <3>1 DEF GoodHandler, HandlerState
    <3>3. handler' = [handler EXCEPT ![w] = r]
      BY <1>0, <2>6
    <3> QED  BY <2>4, <3>2, <3>3, HandlerGoes
  <2> QED  BY <1>5, <2>5, <2>6 DEF List
<1>6. ASSUME NEW w \in Runners, Read(w)
      PROVE  WorkerInv'
  <2>1. PICK b \in handler[w].batch :
            handler' = [handler EXCEPT ![w].pc = "cancel", ![w].version = bookings[b].version]
    BY <1>6 DEF Read
  <2> DEFINE r == [handler[w] EXCEPT !.pc = "cancel", !.version = bookings[b].version]
  <2>2. b \in BookingIds
    BY <1>0 DEF GoodHandler
  <2>3. bookings[b].version \in Nat
    BY <2>2, TableFacts DEF WorkerInv, BookingRow
  <2>4. handler[w].pc = "read" /\ UNCHANGED <<task, faults>>
    BY <1>6 DEF Read
  <2>5. GoodHandler(r)
    BY <1>0, <2>3, <2>4 DEF GoodHandler, HandlerState
  <2>6. handler' = [handler EXCEPT ![w] = r]
    BY <1>0, <2>1
  <2> QED  BY <2>4, <2>5, <2>6, HandlerGoes
<1>7. ASSUME NEW w \in Runners, Cancel(w)
      PROVE  WorkerInv'
  <2>1. PICK b \in handler[w].batch :
            handler' = [handler EXCEPT ![w].pc    = AfterCancel(handler[w].batch \ {b}),
                                       ![w].batch = handler[w].batch \ {b}]
    BY <1>7 DEF Cancel
  <2> DEFINE rest == handler[w].batch \ {b}
             r    == [handler[w] EXCEPT !.pc = AfterCancel(rest), !.batch = rest]
  <2>2. handler[w].pc = "cancel" /\ UNCHANGED <<task, faults>>
    BY <1>7 DEF Cancel
  <2>3. /\ AfterCancel(rest) \in {"list", "read"}
        /\ AfterCancel(rest) = "read" => rest # {}
    BY DEF AfterCancel
  <2>4. rest \subseteq handler[w].batch
    OBVIOUS
  <2>5. handler' = [handler EXCEPT ![w] = r]
    BY <1>0, <2>1
  <2> HIDE DEF rest
  <2>6. GoodHandler(r)
    BY <1>0, <2>2, <2>3, <2>4 DEF GoodHandler, HandlerState
  <2> QED  BY <2>2, <2>5, <2>6, HandlerGoes
<1>8. ASSUME NEW w \in Runners, CancelRefused(w) \/ Stumble(w)
      PROVE  WorkerInv'
  <2>1. /\ handler[w].pc # "idle" /\ Goto(w, "failed") /\ UNCHANGED task
        /\ UNCHANGED faults \/ Fault
    BY <1>8 DEF CancelRefused, Stumble
  <2> QED  BY <1>3, <2>1
<1>9. ASSUME NEW w \in Runners, NEW status \in {"succeeded", "retry", "dead"}, Settle(w, status),
             handler[w].pc # "idle",
             status = "succeeded" => Drained(handler[w].closure)
      PROVE  WorkerInv'
  <2> DEFINE c   == handler[w].closure
             row == [task[c] EXCEPT !.status = IF @ = "running" THEN status ELSE @]
  <2>1. c \in jobs /\ c \in Closures
    BY <1>0, <1>9 DEF GoodHandler
  <2>2. task' = [task EXCEPT ![c] = row]
    BY <1>0, <1>9, <2>1 DEF Settle
  <2>3. GoodTask(c, row)
    <3>1. task[c] \in TaskRow /\ GoodTask(c, task[c])
      BY <1>0, <2>1
    <3> QED  BY <1>9, <2>1, <3>1 DEF GoodTask, TaskRow
  <2>4. row \in TaskRow
    BY <2>3 DEF GoodTask
  <2> HIDE DEF row
  <2>5. task' \in [Closures -> TaskRow] /\ \A d \in Closures : GoodTask(d, task'[d])
    BY <1>0, <2>1, <2>2, <2>3, <2>4
  <2>6. handler' = [handler EXCEPT ![w] = Idle] /\ UNCHANGED faults
    BY <1>9 DEF Settle, Release
  <2> QED  BY <1>0, <2>5, <2>6, IdleIsGood, OneHandlerMoves
<1>10. ASSUME NEW w \in Runners, Complete(w)
       PROVE  WorkerInv'
  <2>1. Drained(handler[w].closure)
    BY <1>0, <1>10 DEF Complete, GoodHandler
  <2> QED  BY <1>9, <1>10, <2>1 DEF Complete
<1>11. ASSUME NEW w \in Runners, Fail(w)
       PROVE  WorkerInv'
  <2>1. PICK status \in {"dead", "retry"} : handler[w].pc = "failed" /\ Settle(w, status)
    BY <1>11 DEF Fail
  <2> QED  BY <1>9, <2>1
<1>12. ASSUME NEW w \in Runners, Crash(w)
       PROVE  WorkerInv'
  BY <1>12, IdleIsGood, HandlerGoes DEF Crash, Release
<1> QED
  BY <1>1, <1>2, <1>4, <1>5, <1>6, <1>7, <1>8, <1>10, <1>11, <1>12
  DEF WorkerNext, ClientStep, RunnerStep, HandlerStep, allVars

-----------------------------------------------------------------------------
LEMMA WorkerInvariant == WorkerSpec => []WorkerInv
  BY WorkerInit_Inv, WorkerStep, PTL DEF WorkerSpec

\* The tables of the worker are of their types, and a handler that reads or
\* cancels has a booking at hand, for any number of runners and any batch limit.
THEOREM CompensationTypeCorrect == WorkerSpec => []CompensationTypeOK
<1>1. WorkerInv => CompensationTypeOK
  BY DEF WorkerInv
<1> QED  BY <1>1, WorkerInvariant, PTL

\* A compensation that succeeded left nobody with a seat in a slot that only its
\* closure shuts, whatever the clients and the other runners did meanwhile.
THEOREM DrainedWhenSucceeded == WorkerSpec => []DrainedWhenDone
<1>1. WorkerInv => DrainedWhenDone
  BY DEF WorkerInv, SuccessIsDrained, Drained, DrainedWhenDone
<1> QED  BY <1>1, WorkerInvariant, PTL

\* A step of a runner is a call of the booking service or writes other tables,
\* so that all that is proved of Spec holds with runners.
LEMMA WorkerKeepsLedger == WorkerSpec => Spec
<1>1. WorkerInit => Init
  BY DEF WorkerInit
<1>2. WorkerInv /\ [WorkerNext]_allVars => [Next]_vars
  BY WorkerCallsLedger DEF WorkerInv
<1> QED  BY <1>1, <1>2, WorkerInvariant, PTL DEF WorkerSpec, Spec

\* The seats of a slot, and those of every booking, stay accounted for while
\* compensations run.
THEOREM WorkerKeepsSeats ==
    WorkerSpec => [](SeatAccounting /\ NoOversell /\ LedgerFollowsCounter /\ LedgerPerBooking)
  BY WorkerKeepsLedger, SeatsAccounted, NeverOversold, LedgerAlwaysFollows,
     LedgerBalancesPerBooking, PTL

\* While runners take each other's compensations and empty closed slots, what a
\* user sees is still the seat register.
THEOREM WorkerServesRegister == WorkerSpec => ImplementsRegister
  BY WorkerKeepsLedger, LedgerServesRegister, PTL

-----------------------------------------------------------------------------
(* Attempts.  A runner holds an attempt while it is busy; two attempts of  *)
(* a job have different numbers.                                           *)

AttemptsNumbered ==
    /\ \A w \in Runners : Busy(w) => handler[w].attempt \in 1..task[handler[w].closure].attempts
    /\ \A v, w \in Runners :
          Busy(v) /\ Attempt(v) = Attempt(w) => v = w

\* Who does what for whom is as it was.
SameAttempts ==
    /\ UNCHANGED task
    /\ \A w \in Runners : /\ handler'[w].closure = handler[w].closure
                          /\ handler'[w].attempt = handler[w].attempt

\* The statements of a handler, and the clients, are none of the job's business.
LEMMA StepOfJob ==
    ASSUME WorkerInv, [WorkerNext]_allVars
    PROVE  \/ SameAttempts /\ (UNCHANGED faults \/ Fault)
           \/ \E w \in Runners, c \in Closures : Claim(w, c)
           \/ \E w \in Runners : Complete(w) \/ Fail(w) \/ Crash(w)
<1>0. handler \in [Runners -> HandlerState]
  BY GoodNow
<1>1. CASE ClientStep \/ UNCHANGED allVars
  BY <1>1 DEF ClientStep, allVars, SameAttempts
<1>2. ASSUME NEW w \in Runners, NEW pc, Goto(w, pc), UNCHANGED task
      PROVE  SameAttempts
  BY <1>0, <1>2 DEF Goto, SameAttempts, HandlerState
<1>3. ASSUME NEW w \in Runners, Look(w) \/ CancelRefused(w) \/ Stumble(w)
      PROVE  SameAttempts /\ (UNCHANGED faults \/ Fault)
  BY <1>2, <1>3 DEF Look, CancelRefused, Stumble
<1>4. ASSUME NEW w \in Runners, NEW pc, NEW batch, NEW version, UNCHANGED task,
             handler' = [handler EXCEPT ![w].pc = pc, ![w].batch = batch, ![w].version = version]
      PROVE  SameAttempts
  BY <1>0, <1>4 DEF SameAttempts, HandlerState
<1>5. ASSUME NEW w \in Runners, List(w)
      PROVE  SameAttempts /\ UNCHANGED faults
  BY <1>0, <1>2, <1>5 DEF List, SameAttempts, HandlerState
<1>6. ASSUME NEW w \in Runners, Read(w)
      PROVE  SameAttempts /\ UNCHANGED faults
  BY <1>0, <1>6 DEF Read, SameAttempts, HandlerState
<1>7. ASSUME NEW w \in Runners, Cancel(w)
      PROVE  SameAttempts /\ UNCHANGED faults
  <2>1. PICK b \in handler[w].batch :
            handler' = [handler EXCEPT ![w].pc    = AfterCancel(handler[w].batch \ {b}),
                                       ![w].batch = handler[w].batch \ {b}]
    BY <1>7 DEF Cancel
  <2> QED  BY <1>0, <1>7, <2>1 DEF Cancel, SameAttempts, HandlerState
<1> QED
  BY <1>1, <1>3, <1>5, <1>6, <1>7 DEF WorkerNext, RunnerStep, HandlerStep

\* What a claim does to the job and to the runner.
LEMMA ClaimEffect ==
    ASSUME WorkerInv, NEW w \in Runners, NEW c \in Closures, Claim(w, c)
    PROVE  /\ ~Busy(w) /\ c \in jobs /\ c # None
           /\ task[c] \in TaskRow
           /\ task'[c].status = "running" /\ task'[c].attempts = task[c].attempts + 1
           /\ \A d \in Closures \ {c} : task'[d] = task[d]
           /\ handler'[w].closure = c /\ handler'[w].attempt = task[c].attempts + 1
           /\ \A v \in Runners \ {w} : handler'[v] = handler[v]
<1>0. handler \in [Runners -> HandlerState] /\ task \in [Closures -> TaskRow]
  BY GoodNow
<1>1. task'[c].attempts = task[c].attempts + 1 /\ task'[c].status = "running"
  BY <1>0 DEF Claim, TaskRow
<1>2. handler' = [handler EXCEPT ![w] = [Idle EXCEPT !.pc = "look", !.closure = c,
                                                     !.attempt = task'[c].attempts]]
  BY DEF Claim
<1>3. handler'[w].closure = c /\ handler'[w].attempt = task'[c].attempts
  BY <1>0, <1>2 DEF Idle
<1>4. ~Busy(w) /\ c \in jobs /\ c # None
  BY CompensationAssumption DEF Claim, Busy, Idle
<1> QED  BY <1>0, <1>1, <1>2, <1>3, <1>4 DEF Claim

\* A runner that lets go.
LetsGo(w) ==
    /\ handler'[w].closure = None
    /\ \A v \in Runners \ {w} : handler'[v] = handler[v]

LEMMA ReleaseEffect ==
    ASSUME WorkerInv, NEW w \in Runners, Release(w)
    PROVE  LetsGo(w)
  BY GoodNow DEF Release, LetsGo, Idle

\* What the end of a call does to the job.
LEMMA SettleEffect ==
    ASSUME WorkerInv, NEW w \in Runners, Complete(w) \/ Fail(w)
    PROVE  LET c == handler[w].closure IN
           /\ Busy(w) /\ c \in Closures /\ c \in jobs /\ LetsGo(w)
           /\ task[c] \in TaskRow /\ task'[c].attempts = task[c].attempts
           /\ \A d \in Closures \ {c} : task'[d] = task[d]
           /\ \/ task[c].status # "running" /\ task'[c].status = task[c].status
              \/ task[c].status = "running"
                   /\ \/ task'[c].status = "succeeded"
                      \/ task'[c].status = "dead" /\ handler[w].attempt >= MaxAttempts
                      \/ task'[c].status = "retry" /\ ~(handler[w].attempt >= MaxAttempts)
           /\ UNCHANGED faults /\ UNCHANGED jobs
<1> DEFINE c == handler[w].closure
<1>0. handler \in [Runners -> HandlerState] /\ task \in [Closures -> TaskRow]
      /\ GoodHandler(handler[w]) /\ jobs \subseteq Closures
  BY GoodNow
<1>1. PICK status \in {"succeeded", "dead", "retry"} :
        /\ Settle(w, status)
        /\ status = "dead" => handler[w].attempt >= MaxAttempts
        /\ status = "retry" => ~(handler[w].attempt >= MaxAttempts)
  BY DEF Complete, Fail
<1>2. Busy(w) /\ c \in jobs /\ c \in Closures
  BY <1>0 DEF Complete, Fail, GoodHandler, Busy
<1>3. LetsGo(w) /\ UNCHANGED faults /\ UNCHANGED jobs
  BY <1>1, ReleaseEffect DEF Settle, ledgerVars, vars
<1>4. /\ task[c] \in TaskRow /\ task'[c].attempts = task[c].attempts
      /\ \A d \in Closures \ {c} : task'[d] = task[d]
      /\ task'[c].status = IF task[c].status = "running" THEN status ELSE task[c].status
  BY <1>0, <1>1, <1>2 DEF Settle, TaskRow
<1> QED  BY <1>1, <1>2, <1>3, <1>4

LEMMA NumberedStep ==
    ASSUME WorkerInv, WorkerInv', AttemptsNumbered, [WorkerNext]_allVars
    PROVE  AttemptsNumbered'
<1>0. /\ \A v \in Runners : handler[v] \in HandlerState
      /\ \A v \in Runners : Busy(v) => handler[v].closure \in Closures
      /\ \A d \in Closures : task[d].attempts \in Nat
  BY GoodNow DEF GoodHandler, Busy, TaskRow
<1>1. CASE SameAttempts
  BY <1>1 DEF SameAttempts, AttemptsNumbered, Busy, Attempt
<1>2. ASSUME NEW w \in Runners, NEW c \in Closures, Claim(w, c)
      PROVE  AttemptsNumbered'
  <2>1. /\ task'[c].attempts = task[c].attempts + 1
        /\ \A d \in Closures \ {c} : task'[d] = task[d]
        /\ handler'[w].closure = c /\ handler'[w].attempt = task[c].attempts + 1
        /\ \A v \in Runners \ {w} : handler'[v] = handler[v]
    BY <1>2, ClaimEffect
  <2>2. ASSUME NEW v \in Runners, Busy(v)'
        PROVE  handler'[v].attempt \in 1..task'[handler'[v].closure].attempts
    <3>1. CASE v = w
      BY <1>0, <2>1, <3>1
    <3>2. CASE v # w
      <4>1. Busy(v) /\ handler[v].closure \in Closures
        BY <1>0, <2>1, <2>2, <3>2 DEF Busy
      <4>2. handler[v].attempt \in 1..task[handler[v].closure].attempts
        BY <4>1 DEF AttemptsNumbered
      <4>3. CASE handler[v].closure = c
        BY <1>0, <2>1, <3>2, <4>2, <4>3
      <4>4. CASE handler[v].closure # c
        BY <2>1, <3>2, <4>1, <4>2, <4>4
      <4> QED  BY <4>3, <4>4
    <3> QED  BY <3>1, <3>2
  <2>3. ASSUME NEW v \in Runners \ {w}, Busy(v)
        PROVE  Attempt(v) # <<c, task[c].attempts + 1>>
    <3>1. handler[v].closure = c => handler[v].attempt \in 1..task[c].attempts
      BY <2>3 DEF AttemptsNumbered
    <3> QED  BY <1>0, <3>1 DEF Attempt
  <2>4. /\ Attempt(w)' = <<c, task[c].attempts + 1>>
        /\ \A v \in Runners \ {w} : Attempt(v)' = Attempt(v) /\ (Busy(v)' <=> Busy(v))
    BY <2>1 DEF Attempt, Busy
  <2>5. \A v \in Runners \ {w} : Attempt(v)' = Attempt(w)' => Busy(v)
    BY <2>4, <1>2, ClaimEffect DEF Attempt, Busy
  <2>6. \A u, v \in Runners : Busy(u)' /\ Attempt(u)' = Attempt(v)' => u = v
    BY <2>3, <2>4, <2>5 DEF AttemptsNumbered
  <2> QED  BY <2>2, <2>6 DEF AttemptsNumbered
<1>3. ASSUME NEW w \in Runners, LetsGo(w), \A d \in Closures : task'[d].attempts = task[d].attempts
      PROVE  AttemptsNumbered'
  <2>1. /\ ~Busy(w)'
        /\ \A v \in Runners \ {w} : Attempt(v)' = Attempt(v) /\ (Busy(v)' <=> Busy(v))
    BY <1>3 DEF LetsGo, Attempt, Busy
  <2>2. \A u, v \in Runners : Busy(u)' /\ Attempt(u)' = Attempt(v)' => Busy(v)'
    BY DEF Attempt, Busy
  <2>3. \A v \in Runners : Busy(v)' =>
            handler'[v].attempt \in 1..task'[handler'[v].closure].attempts
    BY <1>0, <1>3, <2>1 DEF LetsGo, AttemptsNumbered
  <2> QED  BY <2>1, <2>2, <2>3 DEF AttemptsNumbered
<1>4. ASSUME NEW w \in Runners, Complete(w) \/ Fail(w)
      PROVE  AttemptsNumbered'
  BY <1>3, <1>4, SettleEffect
<1>5. ASSUME NEW w \in Runners, Crash(w)
      PROVE  AttemptsNumbered'
  BY <1>3, <1>5, ReleaseEffect DEF Crash
<1> QED  BY <1>1, <1>2, <1>4, <1>5, StepOfJob

-----------------------------------------------------------------------------
(* How often a compensation is attempted.  The number of runners that hold *)
(* a job, and what they may still add to its attempts, is paid for by the  *)
(* faults.                                                                 *)

\* Whoever fails early leaves the job to be tried again.
Early(c) == { w \in Holders(c) : handler[w].attempt < MaxAttempts }

Pending(c)  == IF task[c].status \in {"pending", "retry"} THEN 1 ELSE 0
Forsaken(c) == IF task[c].status = "running" /\ Holders(c) = {} THEN 1 ELSE 0

\* One runner at a time, and one more for each fault; a job that waits is still
\* to be held by one.
HoldersPaid(c) ==
    /\ IsFiniteSet(Holders(c))
    /\ Cardinality(Holders(c)) + Pending(c) <= 1 + faults

\* Attempts beyond the configured ones, those made and those to come.
AttemptsPaid(c) ==
    task[c].attempts >= MaxAttempts
        => task[c].attempts + Cardinality(Early(c)) + Pending(c) + Forsaken(c)
               <= MaxAttempts + faults

Paid == \A c \in Closures : HoldersPaid(c) /\ AttemptsPaid(c)

LEMMA EarlyFinite ==
    ASSUME NEW c, IsFiniteSet(Holders(c))
    PROVE  /\ IsFiniteSet(Early(c)) /\ Cardinality(Early(c)) \in Nat
           /\ Cardinality(Holders(c)) \in Nat
           /\ Cardinality(Early(c)) <= Cardinality(Holders(c))
           /\ Holders(c) = {} => Cardinality(Early(c)) = 0
<1>1. Early(c) \subseteq Holders(c)
  BY DEF Early
<1>2. Holders(c) = {} => Early(c) = {}
  BY <1>1
<1> QED  BY <1>1, <1>2, FS_Subset, FS_CardinalityType, FS_EmptySet

\* A claim adds the runner to the holders of the job.
LEMMA ClaimJoins ==
    ASSUME WorkerInv, NEW w \in Runners, NEW c \in Closures, Claim(w, c)
    PROVE  /\ Holders(c)' = Holders(c) \cup {w} /\ w \notin Holders(c)
           /\ \A d \in Closures \ {c} : Holders(d)' = Holders(d) /\ Early(d)' = Early(d)
           /\ ~(task[c].attempts + 1 < MaxAttempts) => Early(c)' = Early(c)
           /\ \A v \in Holders(c) : handler'[v] = handler[v]
<1>1. /\ ~Busy(w) /\ c # None
      /\ handler'[w].closure = c /\ handler'[w].attempt = task[c].attempts + 1
      /\ \A v \in Runners \ {w} : handler'[v] = handler[v]
  BY ClaimEffect
<1>2. \A d \in Closures : w \notin Holders(d)
  BY <1>1, CompensationAssumption DEF Holders, Busy
<1>3. Holders(c)' = Holders(c) \cup {w}
  BY <1>1 DEF Holders
<1>4. \A d \in Closures \ {c} : Holders(d)' = Holders(d)
  BY <1>1, <1>2 DEF Holders
<1>5. \A d \in Closures : \A v \in Holders(d) : handler'[v] = handler[v]
  BY <1>1, <1>2 DEF Holders
<1> QED  BY <1>1, <1>2, <1>3, <1>4, <1>5 DEF Early

\* Letting go leaves the holders of the job.
LEMMA ReleaseLeaves ==
    ASSUME WorkerInv, NEW w \in Runners, LetsGo(w), NEW d \in Closures
    PROVE  /\ Holders(d)' = Holders(d) \ {w}
           /\ Early(d)' = Early(d) \ {w}
           /\ handler[w].closure # d => Holders(d)' = Holders(d) /\ Early(d)' = Early(d)
<1>1. handler'[w].closure # d /\ \A v \in Runners \ {w} : handler'[v] = handler[v]
  BY CompensationAssumption DEF LetsGo
<1>2. Holders(d)' = Holders(d) \ {w}
  BY <1>1 DEF Holders
<1>3. Early(d)' = Early(d) \ {w}
  BY <1>1, <1>2 DEF Early, Holders
<1>4. handler[w].closure # d => w \notin Holders(d) /\ w \notin Early(d)
  BY DEF Holders, Early
<1> QED  BY <1>2, <1>3, <1>4

\* A job nothing happens to stays paid for.
LEMMA PaidKept ==
    ASSUME NEW c, HoldersPaid(c), AttemptsPaid(c), task[c] \in TaskRow,
           task'[c] = task[c], Holders(c)' = Holders(c), Early(c)' = Early(c),
           faults \in Nat, faults' \in Nat, faults <= faults'
    PROVE  HoldersPaid(c)' /\ AttemptsPaid(c)'
<1>1. /\ IsFiniteSet(Holders(c)) /\ Cardinality(Holders(c)) \in Nat
      /\ Cardinality(Early(c)) \in Nat
  BY EarlyFinite DEF HoldersPaid
<1>2. Pending(c)' = Pending(c) /\ Forsaken(c)' = Forsaken(c)
      /\ Pending(c) \in {0, 1} /\ Forsaken(c) \in {0, 1}
  BY DEF Pending, Forsaken
<1>3. task[c].attempts \in Nat /\ MaxAttempts \in Nat
  BY CompensationAssumption DEF TaskRow
<1>4. HoldersPaid(c)'
  BY <1>1, <1>2 DEF HoldersPaid
<1>5. AttemptsPaid(c)'
  BY <1>1, <1>2, <1>3 DEF AttemptsPaid
<1> QED  BY <1>4, <1>5

LEMMA ClaimPaid ==
    ASSUME WorkerInv, WorkerInv', Paid, NEW w \in Runners, NEW c \in Closures, Claim(w, c)
    PROVE  Paid'
<1>0. /\ faults \in Nat /\ faults' \in Nat /\ MaxAttempts \in Nat
      /\ \A d \in Closures : task[d] \in TaskRow
  BY GoodNow, CompensationAssumption DEF WorkerInv, CompensationTypeOK
<1>1. /\ task'[c].status = "running" /\ task'[c].attempts = task[c].attempts + 1
      /\ task[c].attempts \in Nat
      /\ \A d \in Closures \ {c} : task'[d] = task[d]
  BY <1>0, ClaimEffect DEF TaskRow
<1>2. \/ Pending(c) = 1 /\ Forsaken(c) = 0 /\ faults' = faults
      \/ Pending(c) = 0 /\ Holders(c) = {} /\ Forsaken(c) = 1 /\ faults' = faults
      \/ Pending(c) = 0 /\ Forsaken(c) = 0 /\ faults' = faults + 1
  BY DEF Claim, Claimable, Pending, Forsaken, Fault
<1>3. /\ IsFiniteSet(Holders(c)) /\ Cardinality(Holders(c)) \in Nat
      /\ IsFiniteSet(Early(c)) /\ Cardinality(Early(c)) \in Nat
      /\ Cardinality(Early(c)) <= Cardinality(Holders(c))
      /\ Holders(c) = {} => Cardinality(Holders(c)) = 0 /\ Cardinality(Early(c)) = 0
      /\ Cardinality(Holders(c)) + Pending(c) <= 1 + faults
  BY EarlyFinite, FS_EmptySet DEF Paid, HoldersPaid
<1>4. /\ IsFiniteSet(Holders(c)') /\ Cardinality(Holders(c)') = Cardinality(Holders(c)) + 1
  BY <1>3, ClaimJoins, FS_AddElement
<1>5. Pending(c)' = 0 /\ Forsaken(c)' = 0
  BY <1>1, ClaimJoins DEF Pending, Forsaken
<1>6. HoldersPaid(c)'
  BY <1>0, <1>2, <1>3, <1>4, <1>5 DEF HoldersPaid
<1>7. AttemptsPaid(c)'
  <2> SUFFICES ASSUME task[c].attempts + 1 >= MaxAttempts
               PROVE  task[c].attempts + 1 + Cardinality(Early(c)') <= MaxAttempts + faults'
    BY <1>0, <1>1, <1>3, <1>5, ClaimJoins DEF AttemptsPaid
  <2>1. Early(c)' = Early(c)
    BY <1>0, <1>1, ClaimJoins
  <2>2. CASE task[c].attempts + 1 = MaxAttempts
    BY <1>0, <1>1, <1>2, <1>3, <2>1, <2>2
  <2>3. CASE task[c].attempts >= MaxAttempts
    <3>1. task[c].attempts + Cardinality(Early(c)) + Pending(c) + Forsaken(c)
             <= MaxAttempts + faults
      BY <2>3 DEF Paid, AttemptsPaid
    <3> QED  BY <1>0, <1>1, <1>2, <1>3, <2>1, <3>1
  <2> QED  BY <1>0, <1>1, <2>2, <2>3
<1>8. ASSUME NEW d \in Closures \ {c} PROVE HoldersPaid(d)' /\ AttemptsPaid(d)'
  <2>1. faults <= faults'
    BY <1>0, <1>2
  <2> QED  BY <1>0, <1>1, <2>1, ClaimJoins, PaidKept DEF Paid
<1> QED  BY <1>6, <1>7, <1>8 DEF Paid

\* A runner lets go of a job, which then waits, is over or has nobody.
LEMMA ReleasePaid ==
    ASSUME WorkerInv, WorkerInv', Paid, NEW w \in Runners, LetsGo(w), Busy(w),
           handler[w].closure \in Closures,
           LET c == handler[w].closure IN
           /\ task'[c].attempts = task[c].attempts
           /\ \A d \in Closures \ {c} : task'[d] = task[d]
           /\ \/ UNCHANGED faults /\ task[c].status # "running" /\ task'[c].status = task[c].status
              \/ UNCHANGED faults /\ task'[c].status \in {"succeeded", "dead"}
              \/ UNCHANGED faults /\ task'[c].status = "retry" /\ task[c].status = "running"
                    /\ ~(handler[w].attempt >= MaxAttempts)
              \/ faults' = faults + 1 /\ task'[c].status = task[c].status
    PROVE  Paid'
<1> PICK c \in Closures : c = handler[w].closure
  OBVIOUS
<1>0. /\ faults \in Nat /\ faults' \in Nat /\ MaxAttempts \in Nat
      /\ \A d \in Closures : task[d] \in TaskRow /\ task[d].attempts \in Nat
  BY GoodNow, CompensationAssumption DEF WorkerInv, CompensationTypeOK, TaskRow
<1>1. /\ IsFiniteSet(Holders(c)) /\ Cardinality(Holders(c)) \in Nat
      /\ IsFiniteSet(Early(c)) /\ Cardinality(Early(c)) \in Nat
      /\ Cardinality(Holders(c)) + Pending(c) <= 1 + faults
      /\ task[c].attempts >= MaxAttempts
           => task[c].attempts + Cardinality(Early(c)) + Pending(c) + Forsaken(c)
                  <= MaxAttempts + faults
  BY EarlyFinite DEF Paid, HoldersPaid, AttemptsPaid
<1>2. w \in Holders(c)
  BY DEF Holders
<1>3. /\ Holders(c)' = Holders(c) \ {w} /\ IsFiniteSet(Holders(c)')
      /\ Cardinality(Holders(c)') = Cardinality(Holders(c)) - 1
  BY <1>1, <1>2, ReleaseLeaves, FS_RemoveElement
<1>4. /\ Cardinality(Early(c)') \in Nat
      /\ Cardinality(Early(c)') <= Cardinality(Early(c))
      /\ ~(handler[w].attempt >= MaxAttempts)
           => Cardinality(Early(c)') = Cardinality(Early(c)) - 1
  <2>1. Early(c)' = Early(c) \ {w}
    BY ReleaseLeaves
  <2>2. CASE w \in Early(c)
    <3>1. IsFiniteSet(Early(c)') /\ Cardinality(Early(c)') = Cardinality(Early(c)) - 1
      BY <1>1, <2>1, <2>2, FS_RemoveElement
    <3>2. Cardinality(Early(c)') \in Nat
      BY <3>1, FS_CardinalityType
    <3> QED  BY <1>1, <3>1, <3>2
  <2>3. CASE w \notin Early(c)
    <3>1. Early(c)' = Early(c) /\ handler[w].attempt >= MaxAttempts
      <4>1. handler[w].attempt \in Nat
        BY GoodNow DEF HandlerState
      <4> QED  BY <1>0, <1>2, <2>1, <2>3, <4>1 DEF Early
    <3> QED  BY <1>1, <3>1
  <2> QED  BY <2>2, <2>3
<1>5. Pending(c) \in {0, 1} /\ Forsaken(c) = 0 /\ Pending(c)' \in {0, 1} /\ Forsaken(c)' \in {0, 1}
  BY <1>2 DEF Pending, Forsaken
<1>6. \/ faults' = faults /\ Pending(c)' = Pending(c) /\ Forsaken(c)' = 0
      \/ faults' = faults /\ Pending(c)' = 0 /\ Forsaken(c)' = 0
      \/ /\ faults' = faults /\ Pending(c)' = 1 /\ Forsaken(c)' = 0
         /\ Pending(c) = 0 /\ ~(handler[w].attempt >= MaxAttempts)
      \/ faults' = faults + 1 /\ Pending(c)' = Pending(c)
  BY <1>2 DEF Pending, Forsaken
<1>7. HoldersPaid(c)'
  <2>1. Cardinality(Holders(c)') + Pending(c)' <= 1 + faults'
    BY <1>0, <1>1, <1>3, <1>5, <1>6
  <2> QED  BY <1>3, <2>1 DEF HoldersPaid
<1>8. AttemptsPaid(c)'
  <2>1. task[c].attempts >= MaxAttempts
          => task[c].attempts + Cardinality(Early(c)') + Pending(c)' + Forsaken(c)'
                 <= MaxAttempts + faults'
    BY <1>0, <1>1, <1>4, <1>5, <1>6
  <2>2. task'[c].attempts = task[c].attempts
    OBVIOUS
  <2> QED  BY <2>1, <2>2 DEF AttemptsPaid
<1>9. ASSUME NEW d \in Closures \ {c} PROVE HoldersPaid(d)' /\ AttemptsPaid(d)'
  <2>1. faults <= faults'
    BY <1>0
  <2> QED  BY <1>0, <2>1, ReleaseLeaves, PaidKept DEF Paid
<1> QED  BY <1>7, <1>8, <1>9 DEF Paid

LEMMA PaidStep ==
    ASSUME WorkerInv, WorkerInv', Paid, [WorkerNext]_allVars
    PROVE  Paid'
<1>1. CASE SameAttempts /\ (UNCHANGED faults \/ Fault)
  <2>1. \A c \in Closures : Holders(c)' = Holders(c) /\ Early(c)' = Early(c)
    BY <1>1 DEF SameAttempts, Holders, Early
  <2>2. faults \in Nat /\ faults' \in Nat /\ faults <= faults'
    BY <1>1, GoodNow, CompensationAssumption DEF Fault
  <2>3. \A c \in Closures : task[c] \in TaskRow /\ task'[c] = task[c]
    BY <1>1, GoodNow DEF SameAttempts
  <2> QED  BY <2>1, <2>2, <2>3, PaidKept DEF Paid
<1>2. ASSUME NEW w \in Runners, Complete(w) \/ Fail(w)
      PROVE  Paid'
  BY <1>2, SettleEffect, ReleasePaid
<1>3. ASSUME NEW w \in Runners, Crash(w)
      PROVE  Paid'
  <2>1. LetsGo(w) /\ UNCHANGED task /\ faults' = faults + 1
    BY <1>3, ReleaseEffect DEF Crash, Fault
  <2>2. CASE Busy(w)
    <3>1. handler[w].closure \in Closures
      BY <2>2, GoodNow DEF GoodHandler, Busy
    <3> QED  BY <2>1, <2>2, <3>1, ReleasePaid
  <2>3. CASE ~Busy(w)
    <3>1. \A c \in Closures : Holders(c)' = Holders(c) /\ Early(c)' = Early(c)
      BY <2>1, <2>3, ReleaseLeaves, CompensationAssumption DEF Busy
    <3>2. faults \in Nat /\ faults' \in Nat /\ faults <= faults'
      BY <2>1, GoodNow, CompensationAssumption
    <3>3. \A c \in Closures : task[c] \in TaskRow /\ task'[c] = task[c]
      BY <2>1, GoodNow
    <3> QED  BY <3>1, <3>2, <3>3, PaidKept DEF Paid
  <2> QED  BY <2>2, <2>3
<1> QED  BY <1>1, <1>2, <1>3, ClaimPaid, StepOfJob

AttemptsInv == WorkerInv /\ AttemptsNumbered /\ Paid

LEMMA AttemptsInvariant == WorkerSpec => []AttemptsInv
<1>1. WorkerInit => AttemptsInv
  <2> SUFFICES ASSUME WorkerInit PROVE AttemptsInv
    OBVIOUS
  <2>1. \A w \in Runners : handler[w] = Idle /\ ~Busy(w)
    BY DEF WorkerInit, Busy, Idle
  <2>2. AttemptsNumbered
    BY <2>1 DEF AttemptsNumbered
  <2>3. ASSUME NEW c \in Closures PROVE HoldersPaid(c) /\ AttemptsPaid(c)
    <3>1. Holders(c) = {} /\ Early(c) = {}
      BY <2>1, CompensationAssumption DEF Holders, Early, Busy
    <3>2. /\ IsFiniteSet(Holders(c)) /\ Cardinality(Holders(c)) = 0
          /\ Pending(c) = 1 /\ faults = 0 /\ task[c].attempts = 0
      BY <3>1, FS_EmptySet DEF WorkerInit, Pending
    <3>3. HoldersPaid(c)
      BY <3>2 DEF HoldersPaid
    <3>4. AttemptsPaid(c)
      BY <3>2, CompensationAssumption DEF AttemptsPaid
    <3> QED  BY <3>3, <3>4
  <2> QED  BY WorkerInit_Inv, <2>2, <2>3 DEF AttemptsInv, Paid
<1>2. AttemptsInv /\ [WorkerNext]_allVars => AttemptsInv'
  BY WorkerStep, NumberedStep, PaidStep DEF AttemptsInv
<1> QED  BY <1>1, <1>2, PTL DEF WorkerSpec

\* A compensation is attempted as often as configured, and at most once more for
\* each crash, failed statement or overrun lease, however many runners there are.
THEOREM CompensationAttemptsBounded == WorkerSpec => []CompensationAttempts
<1>1. AttemptsInv => CompensationAttempts
  <2> SUFFICES ASSUME AttemptsInv, NEW c \in Closures
               PROVE  task[c].attempts <= MaxAttempts + faults
    BY DEF CompensationAttempts
  <2>1. faults \in Nat /\ task[c].attempts \in Nat /\ MaxAttempts \in Nat
    BY GoodNow, CompensationAssumption DEF AttemptsInv, TaskRow
  <2>2. /\ Cardinality(Early(c)) \in Nat /\ AttemptsPaid(c)
        /\ Pending(c) \in {0, 1} /\ Forsaken(c) \in {0, 1}
    BY EarlyFinite DEF AttemptsInv, Paid, HoldersPaid, Pending, Forsaken
  <2> QED  BY <2>1, <2>2 DEF AttemptsPaid
<1> QED  BY <1>1, AttemptsInvariant, PTL

-----------------------------------------------------------------------------
(* The jobs of the closures keep the promise of the job queue.             *)

\* Board functions that agree in every closure but one.
LEMMA BoardShape ==
    /\ BoardState = [c \in Closures |-> BoardState[c]]
    /\ BoardState' = [c \in Closures |-> BoardState'[c]]
    /\ BoardStarted = [c \in Closures |-> BoardStarted[c]]
    /\ BoardStarted' = [c \in Closures |-> BoardStarted'[c]]
  BY DEF BoardState, BoardStarted

LEMMA BoardKept ==
    ASSUME UNCHANGED <<jobs, task>>
    PROVE  BoardState' = BoardState /\ BoardStarted' = BoardStarted
  BY DEF BoardState, BoardStarted

\* The row of a job decides how the board shows it.
LEMMA BoardAt ==
    ASSUME NEW c \in Closures
    PROVE  /\ BoardState[c] = IF c \notin jobs THEN "absent"
                              ELSE IF task[c].status \in {"succeeded", "dead"}
                                   THEN task[c].status ELSE "open"
           /\ BoardState'[c] = IF c \notin jobs' THEN "absent"
                               ELSE IF task'[c].status \in {"succeeded", "dead"}
                                    THEN task'[c].status ELSE "open"
           /\ BoardStarted[c] = task[c].attempts
           /\ BoardStarted'[c] = task'[c].attempts
  BY DEF BoardState, BoardStarted

\* Only the application of a closure adds a job, that of the closure.
LEMMA JobsOfStep ==
    ASSUME [Next]_vars
    PROVE  UNCHANGED jobs \/ \E c \in Closures : closures[c] = "absent" /\ jobs' = jobs \cup {c}
<1>1. CASE OperatorStep
  BY <1>1 DEF OperatorStep, CreateSlot, AdjustCapacity, CreateAndApply, ReopenClosure
<1>2. CASE CreateStep
  BY <1>2 DEF CreateStep, CreateHeld, CreateWaitlisted, CreateOnce
<1>3. CASE BookingStep
  BY <1>3
  DEF BookingStep, Confirm, CancelWaiting, CancelSeat, CancelAndPromote, Reschedule, Redeem
<1>4. CASE PromotionStep
  BY <1>4 DEF PromotionStep, PromoteNext
<1>5. CASE Tick \/ UNCHANGED vars
  BY <1>5 DEF Tick, vars
<1> QED  BY <1>1, <1>2, <1>3, <1>4, <1>5 DEF Next

\* A step at which every runner goes on with what it has posts at most one job.
LEMMA SamePosts ==
    ASSUME WorkerInv, [WorkerNext]_allVars, SameAttempts
    PROVE  [Board!Next]_Board!board
<1>1. BoardRunning' = BoardRunning
  BY DEF SameAttempts, BoardRunning, Busy, Attempt
<1>2. CASE UNCHANGED jobs
  BY <1>1, <1>2, BoardKept DEF SameAttempts, Board!board
<1>3. ASSUME NEW c \in Closures, closures[c] = "absent", jobs' = jobs \cup {c}
      PROVE  Board!Post(c)
  <2>1. c \notin jobs
    BY <1>3 DEF WorkerInv, JobsKnown
  <2>2. task[c].status = "pending"
    BY <2>1 DEF WorkerInv, JobsKnown
  <2>3. BoardState[c] = "absent" /\ BoardState'[c] = "open"
    BY <1>3, <2>1, <2>2, BoardAt DEF SameAttempts
  <2>4. \A d \in Closures \ {c} : BoardState'[d] = BoardState[d]
    BY <1>3, BoardAt DEF SameAttempts
  <2>5. BoardStarted' = BoardStarted
    BY DEF SameAttempts, BoardStarted
  <2>6. BoardState' = [BoardState EXCEPT ![c] = "open"]
    BY <2>3, <2>4, BoardShape
  <2> QED  BY <1>1, <2>3, <2>5, <2>6 DEF Board!Post
<1>4. [Next]_vars
  BY WorkerCallsLedger DEF WorkerInv
<1> QED  BY <1>2, <1>3, <1>4, JobsOfStep DEF Board!Next

LEMMA ClaimStarts ==
    ASSUME AttemptsInv, NEW w \in Runners, NEW c \in Closures, Claim(w, c)
    PROVE  Board!Start(c)
<1>1. /\ ~Busy(w) /\ c \in jobs /\ c # None
      /\ task'[c].status = "running" /\ task'[c].attempts = task[c].attempts + 1
      /\ \A d \in Closures \ {c} : task'[d] = task[d]
      /\ handler'[w].closure = c /\ handler'[w].attempt = task[c].attempts + 1
      /\ \A v \in Runners \ {w} : handler'[v] = handler[v]
  BY ClaimEffect DEF AttemptsInv
<1>2. jobs' = jobs /\ task[c].status \in {"pending", "retry", "running"}
  BY DEF Claim, Claimable, ledgerVars, vars
<1>3. BoardState[c] = "open" /\ BoardState' = BoardState
  <2>1. \A d \in Closures : BoardState'[d] = BoardState[d]
    BY <1>1, <1>2, BoardAt
  <2> QED  BY <1>1, <1>2, <2>1, BoardAt, BoardShape
<1>4. BoardStarted' = [BoardStarted EXCEPT ![c] = @ + 1]
  <2>1. BoardStarted'[c] = BoardStarted[c] + 1
        /\ \A d \in Closures \ {c} : BoardStarted'[d] = BoardStarted[d]
    BY <1>1, BoardAt
  <2> QED  BY <2>1, BoardShape
<1>5. BoardRunning' = BoardRunning \cup {<<c, BoardStarted[c] + 1>>}
  <2>1. BoardStarted[c] = task[c].attempts
    BY BoardAt
  <2>2. /\ Busy(w)' /\ Attempt(w)' = <<c, BoardStarted[c] + 1>>
        /\ \A v \in Runners \ {w} : (Busy(v)' <=> Busy(v)) /\ Attempt(v)' = Attempt(v)
    BY <1>1, <2>1 DEF Busy, Attempt
  <2> QED  BY <1>1, <2>2 DEF BoardRunning
<1> QED  BY <1>3, <1>4, <1>5 DEF Board!Start

\* Whoever lets go ends the attempt it holds, and no other runs by its number.
LEMMA LetsGoEnds ==
    ASSUME AttemptsInv, NEW w \in Runners, LetsGo(w), Busy(w)
    PROVE  Attempt(w) \in BoardRunning /\ BoardRunning' = BoardRunning \ {Attempt(w)}
<1>1. /\ ~Busy(w)'
      /\ \A v \in Runners \ {w} : (Busy(v)' <=> Busy(v)) /\ Attempt(v)' = Attempt(v)
  BY DEF LetsGo, Busy, Attempt
<1>2. \A v \in Runners \ {w} : Attempt(v) # Attempt(w)
  BY DEF AttemptsInv, AttemptsNumbered
<1> QED  BY <1>1, <1>2 DEF BoardRunning

LEMMA SettleEnds ==
    ASSUME AttemptsInv, NEW w \in Runners, Complete(w) \/ Fail(w)
    PROVE  Board!End(Attempt(w)[1], Attempt(w)[2])
<1> DEFINE c == handler[w].closure
           a == handler[w].attempt
<1>1. /\ Busy(w) /\ c \in Closures /\ c \in jobs /\ LetsGo(w)
      /\ task'[c].attempts = task[c].attempts
      /\ \A d \in Closures \ {c} : task'[d] = task[d]
      /\ \/ task[c].status # "running" /\ task'[c].status = task[c].status
         \/ task[c].status = "running"
              /\ \/ task'[c].status = "succeeded"
                 \/ task'[c].status = "dead" /\ a >= MaxAttempts
                 \/ task'[c].status = "retry"
      /\ jobs' = jobs
  BY SettleEffect DEF AttemptsInv
<1>2. Attempt(w) = <<c, a>> /\ Attempt(w)[1] = c /\ Attempt(w)[2] = a
  BY DEF Attempt
<1>3. Attempt(w) \in BoardRunning /\ BoardRunning' = BoardRunning \ {Attempt(w)}
  BY <1>1, LetsGoEnds
<1>4. BoardStarted' = BoardStarted
  <2>1. \A d \in Closures : BoardStarted'[d] = BoardStarted[d]
    BY <1>1, BoardAt
  <2> QED  BY <2>1, BoardShape
<1>5. \A d \in Closures \ {c} : BoardState'[d] = BoardState[d]
  BY <1>1, BoardAt
<1>6. \/ BoardState'[c] = BoardState[c]
      \/ /\ BoardState[c] = "open" /\ BoardState'[c] \in {"succeeded", "dead"}
         /\ Board!MaySettle(a, BoardState'[c])
  BY <1>1, BoardAt DEF Board!MaySettle
<1> HIDE DEF c, a
<1>7. CASE BoardState'[c] = BoardState[c]
  <2>1. BoardState' = BoardState
    <3>1. \A d \in Closures : BoardState'[d] = BoardState[d]
      BY <1>5, <1>7
    <3> QED  BY <3>1, BoardShape
  <2> QED  BY <1>2, <1>3, <1>4, <2>1 DEF Board!End
<1>8. CASE /\ BoardState[c] = "open" /\ BoardState'[c] \in {"succeeded", "dead"}
           /\ Board!MaySettle(a, BoardState'[c])
  <2> PICK outcome \in {"succeeded", "dead"} : outcome = BoardState'[c]
    BY <1>8
  <2>1. BoardState' = [BoardState EXCEPT ![c] = outcome]
    BY <1>1, <1>5, BoardShape
  <2>2. BoardState[c] = "open" /\ Board!MaySettle(a, outcome)
    BY <1>8
  <2> QED  BY <1>2, <1>3, <1>4, <2>1, <2>2 DEF Board!End
<1> QED  BY <1>6, <1>7, <1>8

LEMMA BoardStep == AttemptsInv /\ [WorkerNext]_allVars => [Board!Next]_Board!board
<1> SUFFICES ASSUME AttemptsInv, [WorkerNext]_allVars PROVE [Board!Next]_Board!board
  OBVIOUS
<1>1. CASE SameAttempts
  BY <1>1, SamePosts DEF AttemptsInv
<1>2. ASSUME NEW w \in Runners, NEW c \in Closures, Claim(w, c) PROVE Board!Next
  BY <1>2, ClaimStarts DEF Board!Next
<1>3. ASSUME NEW w \in Runners, Complete(w) \/ Fail(w) PROVE Board!Next
  <2>1. Attempt(w) \in BoardRunning
    BY <1>3, SettleEffect, LetsGoEnds DEF AttemptsInv
  <2> QED  BY <1>3, <2>1, SettleEnds DEF Board!Next
<1>4. ASSUME NEW w \in Runners, Crash(w) PROVE Board!Next \/ UNCHANGED Board!board
  <2>1. LetsGo(w) /\ UNCHANGED <<jobs, task>>
    BY <1>4, ReleaseEffect DEF Crash, ledgerVars, vars, AttemptsInv
  <2>2. BoardState' = BoardState /\ BoardStarted' = BoardStarted
    BY <2>1, BoardKept
  <2>3. CASE Busy(w)
    <3>1. Attempt(w) \in BoardRunning /\ BoardRunning' = BoardRunning \ {Attempt(w)}
      BY <2>1, <2>3, LetsGoEnds
    <3>2. Attempt(w) = <<Attempt(w)[1], Attempt(w)[2]>>
      BY DEF Attempt
    <3>3. Board!End(Attempt(w)[1], Attempt(w)[2])
      BY <2>2, <3>1, <3>2 DEF Board!End
    <3> QED  BY <3>1, <3>3 DEF Board!Next
  <2>4. CASE ~Busy(w)
    <3>1. \A v \in Runners : (Busy(v)' <=> Busy(v)) /\ (Busy(v) => Attempt(v)' = Attempt(v))
      BY <2>1, <2>4 DEF LetsGo, Busy, Attempt
    <3>2. BoardRunning' = BoardRunning
      BY <3>1 DEF BoardRunning
    <3> QED  BY <2>2, <3>2 DEF Board!board
  <2> QED  BY <2>3, <2>4
<1>5. WorkerInv
  BY DEF AttemptsInv
<1> QED  BY <1>1, <1>2, <1>3, <1>4, <1>5, StepOfJob

\* Clients that reopen a closure, runners that overtake each other and attempts
\* that stumble do nothing to a job that the queue does not allow.
THEOREM WorkerImplementsAttempts == WorkerSpec => ImplementsAttempts
<1>1. WorkerInit => Board!Init
  <2> SUFFICES ASSUME WorkerInit PROVE Board!Init
    OBVIOUS
  <2>1. jobs = {} /\ \A c \in Closures : task[c].attempts = 0
    BY DEF WorkerInit, Init
  <2>2. \A w \in Runners : ~Busy(w)
    BY DEF WorkerInit, Busy, Idle
  <2> QED  BY <2>1, <2>2 DEF Board!Init, BoardState, BoardStarted, BoardRunning
<1> QED
  BY <1>1, BoardStep, AttemptsInvariant, PTL DEF WorkerSpec, ImplementsAttempts, Board!Spec
=============================================================================
