-------------------------- MODULE WorkerQueueProofs --------------------------
(***************************************************************************)
(* Proofs about WorkerQueue, for any number of processes and jobs, any     *)
(* lease and any number of attempts and faults.                            *)
(***************************************************************************)
EXTENDS WorkerQueue, SequenceTheorems, FiniteSetTheorems, TLAPS

QueueInv == QueueTypeOK /\ ClaimsNumbered /\ DeadAfterAllAttempts

-----------------------------------------------------------------------------
(* Rows and their order.                                                   *)

\* The backoff is a number of seconds that is at least one.
LEMMA BackoffPositive ==
    ASSUME NEW attempt \in Nat
    PROVE  retryBackoff(attempt) \in Nat \ {0}
  BY DEF retryBackoff

\* An update of one row keeps the table and its ids.
LEMMA RowUpdate ==
    ASSUME NEW table \in Seq(JobRow), NEW j \in DOMAIN table, NEW r \in JobRow
    PROVE  /\ [table EXCEPT ![j] = r] \in Seq(JobRow)
           /\ DOMAIN [table EXCEPT ![j] = r] = DOMAIN table
           /\ [table EXCEPT ![j] = r][j] = r
           /\ \A i \in DOMAIN table \ {j} : [table EXCEPT ![j] = r][i] = table[i]
<1>1. Len(table) \in Nat /\ DOMAIN table = 1..Len(table) /\ table \in [1..Len(table) -> JobRow]
  BY LenProperties, ElementOfSeq
<1>2. [table EXCEPT ![j] = r] \in [1..Len(table) -> JobRow]
  BY <1>1
<1>3. [table EXCEPT ![j] = r] \in Seq(JobRow)
  BY <1>1, <1>2, SeqDef
<1> QED  BY <1>1, <1>3

\* The order relates rows of the table, the moved one included.
LEMMA OrderedRows ==
    ASSUME rows \in Seq(JobRow), ahead \subseteq JobIds \X JobIds, NEW j, NEW wait,
           NEW Ids, JobIds \cup {j} \subseteq Ids
    PROVE  Reordered(j, wait) \subseteq Ids \X Ids
  BY DEF Reordered, JobIds

-----------------------------------------------------------------------------
(* The invariant.                                                          *)

\* What the steps use of the state before them.
LEMMA QueueFacts ==
    ASSUME QueueInv
    PROVE  /\ Len(rows) \in Nat /\ JobIds = 1..Len(rows) /\ rows \in Seq(JobRow)
           /\ \A j \in JobIds : rows[j] \in JobRow
           /\ \A w \in Workers : runner[w] \in RunnerState
           /\ Idle \in RunnerState /\ Down \in RunnerState
           /\ \A w \in Workers : Holding(w) => runner[w].job \in JobIds
  BY LenProperties, ElementOfSeq
     DEF QueueInv, QueueTypeOK, JobIds, Idle, Down, RunnerState

\* The invariant holds initially.
LEMMA QueueInit == Init => QueueInv
<1> SUFFICES ASSUME Init PROVE QueueInv
  OBVIOUS
<1>1. rows \in Seq(JobRow) /\ JobIds = {}
  BY EmptySeq DEF Init, JobIds
<1>2. Idle \in RunnerState /\ Idle.job = 0
  BY DEF Idle, RunnerState
<1>3. \A w \in Workers : ~Holding(w) /\ runner[w] = Idle
  BY <1>2 DEF Init, Holding
<1>4. QueueTypeOK
  BY <1>1, <1>2, <1>3, QueueAssumption DEF Init, QueueTypeOK
<1>5. ClaimsNumbered
  BY <1>3 DEF ClaimsNumbered
<1>6. DeadAfterAllAttempts
  BY <1>1 DEF DeadAfterAllAttempts
<1> QED
  BY <1>4, <1>5, <1>6 DEF QueueInv

\* A runner that lets go of its job, or starts or stops without one.
LEMMA RunnerLetsGo ==
    ASSUME QueueInv, NEW w \in Workers, NEW r \in {Idle, Down},
           runner' = [runner EXCEPT ![w] = r], UNCHANGED <<rows, ahead>>,
           faults' \in 0..MaxFaults
    PROVE  QueueInv'
<1>1. r \in RunnerState /\ r.job = 0
  <2>1. Idle \in RunnerState /\ Idle.job = 0
    BY DEF Idle, RunnerState
  <2>2. Down \in RunnerState /\ Down.job = 0
    BY DEF Down, RunnerState
  <2> QED  BY <2>1, <2>2
<1>2. runner' \in [Workers -> RunnerState]
  BY <1>1 DEF QueueInv, QueueTypeOK
<1>3. \A v \in Workers : Holding(v)' => v # w /\ Holding(v) /\ runner'[v] = runner[v]
  BY <1>1 DEF Holding, QueueInv, QueueTypeOK
<1>4. QueueTypeOK'
  BY <1>2, <1>3 DEF QueueInv, QueueTypeOK, JobIds, Holding
<1>5. ClaimsNumbered'
  BY <1>1, <1>3 DEF QueueInv, QueueTypeOK, ClaimsNumbered, Holding
<1>6. DeadAfterAllAttempts'
  BY DEF QueueInv, DeadAfterAllAttempts, JobIds
<1> QED
  BY <1>4, <1>5, <1>6 DEF QueueInv

\* The runner that holds row j settles it or puts it back: the row keeps its
\* attempts, and is given up only after all of them.
LEMMA RowLetGo ==
    ASSUME QueueInv, NEW w \in Workers, Holding(w), NEW r \in JobRow,
           r.attempts = rows[runner[w].job].attempts, r.lease = 0,
           r.status = "dead" => r.attempts >= MaxAttempts,
           rows' = [rows EXCEPT ![runner[w].job] = r],
           runner' = [runner EXCEPT ![w] = Idle],
           ahead' \subseteq JobIds \X JobIds, UNCHANGED faults
    PROVE  QueueInv'
<1> DEFINE j == runner[w].job
<1>1. j \in JobIds /\ rows \in Seq(JobRow)
  BY QueueFacts
<1>2. /\ rows' \in Seq(JobRow) /\ JobIds' = JobIds /\ rows'[j] = r
      /\ \A i \in JobIds \ {j} : rows'[i] = rows[i]
  BY <1>1, RowUpdate DEF JobIds
<1>3. Idle \in RunnerState /\ Idle.job = 0
  BY DEF Idle, RunnerState
<1>4. runner' \in [Workers -> RunnerState]
  BY <1>3 DEF QueueInv, QueueTypeOK
<1>5. \A v \in Workers : Holding(v)' => v # w /\ Holding(v) /\ runner'[v] = runner[v]
  BY <1>3 DEF Holding, QueueInv, QueueTypeOK
<1>6. \A i \in JobIds : rows'[i].attempts = rows[i].attempts
  BY <1>2
<1>7. QueueTypeOK'
  BY <1>1, <1>2, <1>4, <1>5 DEF QueueInv, QueueTypeOK, Holding
<1>8. ClaimsNumbered'
  BY <1>3, <1>5, <1>6, QueueFacts DEF QueueInv, QueueTypeOK, ClaimsNumbered, Holding
<1>9. DeadAfterAllAttempts'
  BY <1>2 DEF QueueInv, DeadAfterAllAttempts
<1> QED
  BY <1>7, <1>8, <1>9 DEF QueueInv

\* A new row is appended behind every id in use.
LEMMA InvEnqueue ==
    ASSUME QueueInv, NEW k \in DedupeKeys, EnqueueJob(k)
    PROVE  QueueInv'
<1> DEFINE r == [key |-> k, status |-> "pending", attempts |-> 0, wait |-> 0, lease |-> 0]
           n == Len(rows) + 1
<1>1. r \in JobRow
  BY DEF JobRow, JobStatus
<1>2. Len(rows) \in Nat /\ JobIds = 1..Len(rows) /\ rows \in Seq(JobRow)
  BY QueueFacts
<1>3. /\ rows' \in Seq(JobRow) /\ JobIds' = 1..n /\ rows'[n] = r
      /\ \A i \in JobIds : rows'[i] = rows[i]
  BY <1>1, <1>2, AppendProperties, LenProperties DEF EnqueueJob, JobIds
<1>4. JobIds \cup {n} \subseteq JobIds'
  BY <1>2, <1>3
<1>5. ahead' \subseteq JobIds' \X JobIds'
  BY <1>2, <1>4, OrderedRows DEF EnqueueJob, QueueInv, QueueTypeOK
<1>6. \A i \in JobIds' : i \in JobIds \/ i = n
  BY <1>2, <1>3
<1>7. runner' = runner /\ faults' = faults
  BY DEF EnqueueJob
<1>8. \A v \in Workers : Holding(v) => runner[v].job \in JobIds
  BY QueueFacts
<1>9. QueueTypeOK'
  BY <1>3, <1>4, <1>5, <1>6, <1>7 DEF QueueInv, QueueTypeOK, Holding
<1>10. ClaimsNumbered'
  BY <1>3, <1>7, <1>8 DEF QueueInv, ClaimsNumbered, Holding
<1>11. DeadAfterAllAttempts'
  BY <1>3, <1>6 DEF QueueInv, DeadAfterAllAttempts
<1> QED
  BY <1>9, <1>10, <1>11 DEF QueueInv

\* The claim takes an attempt number above all that runners hold.
LEMMA InvClaim ==
    ASSUME QueueInv, NEW w \in Workers, ClaimJob(w)
    PROVE  QueueInv'
<1> PICK j \in JobIds :
        /\ runner[w] = Idle
        /\ rows' = [rows EXCEPT ![j] = ClaimedRow(@)]
        /\ runner' = [runner EXCEPT ![w] = [up |-> TRUE, job |-> j,
                                            attempt |-> rows'[j].attempts,
                                            lease |-> rows'[j].lease]]
        /\ UNCHANGED <<ahead, faults>>
  BY DEF ClaimJob
<1> DEFINE r == ClaimedRow(rows[j])
           n == rows[j].attempts
           c == [up |-> TRUE, job |-> j, attempt |-> rows'[j].attempts, lease |-> rows'[j].lease]
<1>1. rows \in Seq(JobRow) /\ rows[j] \in JobRow /\ n \in Nat
  BY QueueFacts DEF JobRow
<1>2. r \in JobRow /\ r.attempts = n + 1 /\ r.status = "running" /\ r.lease \in Nat
  <2>1. Lease + 1 \in Nat /\ n + 1 \in Nat /\ "running" \in JobStatus
    BY <1>1, QueueAssumption DEF JobStatus
  <2>2. r = [rows[j] EXCEPT !.status = "running", !.attempts = n + 1, !.lease = Lease + 1]
    BY DEF ClaimedRow
  <2> QED
    BY <1>1, <2>1, <2>2 DEF JobRow
<1>3. /\ rows' \in Seq(JobRow) /\ JobIds' = JobIds /\ rows'[j] = r
      /\ \A i \in JobIds \ {j} : rows'[i] = rows[i]
  BY <1>1, <1>2, RowUpdate DEF JobIds
<1>4. JobIds \subseteq Nat \ {0}
  BY QueueFacts
<1>5. c \in RunnerState /\ c.job = j /\ c.attempt = n + 1 /\ c.up
  BY <1>2, <1>3, <1>4, <1>1 DEF RunnerState
<1>6. /\ runner' \in [Workers -> RunnerState] /\ runner'[w] = c
      /\ \A v \in Workers \ {w} : runner'[v] = runner[v]
  BY <1>5 DEF QueueInv, QueueTypeOK
<1>7. QueueTypeOK'
  BY <1>2, <1>3, <1>5, <1>6 DEF QueueInv, QueueTypeOK, Holding
<1>8. ClaimsNumbered'
  <2> SUFFICES ASSUME NEW u \in Workers, NEW v \in Workers, Holding(u)'
               PROVE  /\ runner'[u].attempt \in 1..rows'[runner'[u].job].attempts
                      /\ u # v /\ runner'[v].job = runner'[u].job
                           => runner'[v].attempt # runner'[u].attempt
    BY DEF ClaimsNumbered
  <2>1. \A x \in Workers \ {w} : Holding(x)' =>
            /\ runner[x].job \in JobIds
            /\ runner[x].attempt \in 1..rows[runner[x].job].attempts
    BY <1>6, QueueFacts DEF QueueInv, ClaimsNumbered, Holding
  <2>2. \A i \in JobIds : rows[i].attempts \in Nat
    BY QueueFacts DEF JobRow
  <2>3. runner'[u].attempt \in 1..rows'[runner'[u].job].attempts
    <3>1. CASE u = w
      BY <3>1, <1>1, <1>2, <1>3, <1>5, <1>6
    <3>2. CASE u # w /\ runner[u].job = j
      BY <3>2, <2>1, <2>2, <1>1, <1>2, <1>3, <1>6
    <3>3. CASE u # w /\ runner[u].job # j
      BY <3>3, <2>1, <1>3, <1>6
    <3> QED  BY <3>1, <3>2, <3>3
  <2>4. ASSUME u # v, runner'[v].job = runner'[u].job
        PROVE  runner'[v].attempt # runner'[u].attempt
    <3>1. Holding(v)'
      BY <2>4 DEF Holding
    <3>2. CASE u = w
      BY <3>1, <3>2, <2>1, <2>2, <2>4, <1>1, <1>5, <1>6
    <3>3. CASE v = w
      BY <3>3, <2>1, <2>2, <2>4, <1>1, <1>5, <1>6
    <3>4. CASE u # w /\ v # w
      BY <3>4, <2>4, <1>6 DEF QueueInv, ClaimsNumbered, Holding
    <3> QED  BY <3>2, <3>3, <3>4
  <2> QED  BY <2>3, <2>4
<1>9. DeadAfterAllAttempts'
  BY <1>2, <1>3 DEF QueueInv, DeadAfterAllAttempts
<1> QED
  BY <1>7, <1>8, <1>9 DEF QueueInv

\* A result settles the row and frees the runner.
LEMMA InvComplete ==
    ASSUME QueueInv, NEW w \in Workers, CompleteJob(w)
    PROVE  QueueInv'
<1> DEFINE j == runner[w].job
           r == CompletedRow(rows[j])
<1>1. Holding(w) /\ j \in JobIds /\ rows[j] \in JobRow
  BY QueueFacts DEF CompleteJob
<1>2. r \in JobRow /\ r.attempts = rows[j].attempts /\ r.lease = 0 /\ r.status = "succeeded"
  BY <1>1 DEF CompletedRow, JobRow, JobStatus
<1>3. rows' = [rows EXCEPT ![j] = r] /\ runner' = [runner EXCEPT ![w] = Idle]
      /\ UNCHANGED <<ahead, faults>>
  BY DEF CompleteJob
<1>4. ahead' \subseteq JobIds \X JobIds
  BY <1>3 DEF QueueInv, QueueTypeOK
<1> QED
  BY <1>1, <1>2, <1>3, <1>4, RowLetGo

\* A failure gives the job up only if the runner's attempt, and so the row's, is the last.
LEMMA InvFail ==
    ASSUME QueueInv, NEW w \in Workers, FailJob(w)
    PROVE  QueueInv'
<1> DEFINE j == runner[w].job
           a == runner[w].attempt
           r == FailedRow(rows[j], FailedStatus(a), retryBackoff(a))
<1>1. Holding(w) /\ j \in JobIds /\ rows[j] \in JobRow /\ rows \in Seq(JobRow)
  BY QueueFacts DEF FailJob
<1>2. a \in Nat /\ rows[j].attempts \in Nat /\ a <= rows[j].attempts
  BY <1>1 DEF QueueInv, ClaimsNumbered, JobRow
<1>3. FailedStatus(a) \in JobStatus /\ (FailedStatus(a) = "dead" => a >= MaxAttempts)
  BY DEF FailedStatus, JobStatus
<1>4. retryBackoff(a) \in Nat
  BY <1>2, BackoffPositive
<1>5. r \in JobRow /\ r.attempts = rows[j].attempts /\ r.lease = 0 /\ r.status = FailedStatus(a)
  BY <1>1, <1>3, <1>4 DEF FailedRow, JobRow
<1>6. r.status = "dead" => r.attempts >= MaxAttempts
  BY <1>2, <1>3, <1>5, QueueAssumption
<1>7. rows' = [rows EXCEPT ![j] = r] /\ runner' = [runner EXCEPT ![w] = Idle]
      /\ ahead' = Reordered(j, retryBackoff(a)) /\ UNCHANGED faults
  BY DEF FailJob
<1>8. ahead' \subseteq JobIds \X JobIds
  BY <1>1, <1>7, OrderedRows DEF QueueInv, QueueTypeOK
<1> QED
  BY <1>1, <1>5, <1>6, <1>7, <1>8, RowLetGo

\* Time lowers waits and leases and nothing else.
LEMMA InvTick ==
    ASSUME QueueInv, Tick
    PROVE  QueueInv'
<1> DEFINE row(j) == [rows[j] EXCEPT !.wait = Less(@), !.lease = Less(@)]
<1>1. \A n \in Nat : Less(n) \in Nat /\ (Less(n) > 0 => n > 0)
  BY DEF Less
<1>2. /\ Len(rows) \in Nat /\ JobIds = 1..Len(rows)
      /\ \A j \in JobIds : rows[j] \in JobRow
  BY QueueFacts
<1>3. \A j \in JobIds : /\ row(j) \in JobRow
                        /\ row(j).attempts = rows[j].attempts
                        /\ row(j).status = rows[j].status
                        /\ row(j).lease = Less(rows[j].lease)
  BY <1>1, <1>2 DEF JobRow
<1>4. rows' = [j \in JobIds |-> row(j)] /\ UNCHANGED <<ahead, faults>>
  BY DEF Tick
<1>5. rows' \in [1..Len(rows) -> JobRow]
  BY <1>2, <1>3, <1>4
<1>6. rows' \in Seq(JobRow) /\ JobIds' = JobIds
  BY <1>2, <1>4, <1>5, SeqDef DEF JobIds
<1>7. \A w \in Workers : /\ runner'[w] \in RunnerState
                         /\ runner'[w].job = runner[w].job
                         /\ runner'[w].attempt = runner[w].attempt
                         /\ runner'[w].up = runner[w].up
  BY <1>1, QueueFacts DEF Tick, RunnerState
<1>8. runner' \in [Workers -> RunnerState]
  BY <1>7 DEF Tick
<1>9. QueueTypeOK'
  <2>1. \A j \in JobIds : rows'[j].lease > 0 => rows'[j].status = "running"
    BY <1>1, <1>2, <1>3, <1>4 DEF QueueInv, QueueTypeOK, JobRow
  <2> QED
    BY <2>1, <1>4, <1>6, <1>7, <1>8 DEF QueueInv, QueueTypeOK, Holding
<1>10. ClaimsNumbered'
  <2>1. \A j \in JobIds : rows'[j].attempts = rows[j].attempts
    BY <1>3, <1>4
  <2>2. \A w \in Workers : Holding(w)' <=> Holding(w)
    BY <1>7 DEF Holding
  <2>3. \A w \in Workers : Holding(w) => rows'[runner'[w].job].attempts = rows[runner[w].job].attempts
    BY <1>7, <2>1, QueueFacts
  <2> QED
    BY <1>7, <2>2, <2>3 DEF QueueInv, ClaimsNumbered
<1>11. DeadAfterAllAttempts'
  BY <1>3, <1>4, <1>6 DEF QueueInv, DeadAfterAllAttempts
<1> QED
  BY <1>9, <1>10, <1>11 DEF QueueInv

\* Every step keeps the invariant.
LEMMA QueueStep == QueueInv /\ [Next]_vars => QueueInv'
<1> SUFFICES ASSUME QueueInv, [Next]_vars PROVE QueueInv'
  OBVIOUS
<1>1. ASSUME NEW k \in DedupeKeys, EnqueueJob(k) PROVE QueueInv'
  BY <1>1, InvEnqueue
<1>2. ASSUME NEW w \in Workers, ClaimJob(w) PROVE QueueInv'
  BY <1>2, InvClaim
<1>3. ASSUME NEW w \in Workers, Finish(w) PROVE QueueInv'
  <2>1. CASE CompleteJob(w)  BY <2>1, InvComplete
  <2>2. CASE FailJob(w)      BY <2>2, InvFail
  <2>3. CASE FinishRefused(w)
    BY <2>3, RunnerLetsGo DEF FinishRefused, QueueInv, QueueTypeOK
  <2> QED  BY <1>3, <2>1, <2>2, <2>3 DEF Finish
<1>4. Fault /\ QueueInv => faults' \in 0..MaxFaults
  BY QueueAssumption DEF Fault, QueueInv, QueueTypeOK
<1>5. ASSUME NEW w \in Workers, Stop(w) \/ LoseResult(w) PROVE QueueInv'
  BY <1>4, <1>5, RunnerLetsGo DEF Stop, LoseResult
<1>6. ASSUME NEW w \in Workers, Restart(w) PROVE QueueInv'
  BY <1>6, RunnerLetsGo DEF Restart, QueueInv, QueueTypeOK
<1>7. CASE Tick
  BY <1>7, InvTick
<1>8. CASE UNCHANGED vars
  BY <1>8 DEF vars, QueueInv, QueueTypeOK, ClaimsNumbered, DeadAfterAllAttempts, JobIds, Holding
<1> QED
  BY <1>1, <1>2, <1>3, <1>5, <1>6, <1>7, <1>8 DEF Next

\* The invariant holds in every state.
LEMMA QueueInvariant == Spec => []QueueInv
  BY QueueInit, QueueStep, PTL DEF Spec

\* Rows, runners and the order of the rows stay of their types (worker_jobs, and
\* the job a Runner holds).
THEOREM QueueTypeCorrect == Spec => []QueueTypeOK
<1>1. QueueInv => QueueTypeOK
  BY DEF QueueInv
<1> QED  BY <1>1, QueueInvariant, PTL

\* ClaimJob numbers every attempt, also those of runners that outlived their lease.
THEOREM EveryClaimNumbered == Spec => []ClaimsNumbered
<1>1. QueueInv => ClaimsNumbered
  BY DEF QueueInv
<1> QED  BY <1>1, QueueInvariant, PTL

\* FailJob gives a job up only after MaxAttempts claims of it.
THEOREM NeverGivenUpEarly == Spec => []DeadAfterAllAttempts
<1>1. QueueInv => DeadAfterAllAttempts
  BY DEF QueueInv
<1> QED  BY <1>1, QueueInvariant, PTL

\* Neither ClaimJob nor a late CompleteJob or FailJob changes a settled job.
THEOREM SettledForGood == Spec => TerminalStays
<1> DEFINE Kept == \A j \in JobIds : rows[j].status \in Terminal =>
                      /\ rows'[j].status = rows[j].status
                      /\ rows'[j].attempts = rows[j].attempts
<1>1. QueueInv /\ [Next]_vars => [Kept]_vars
  <2> SUFFICES ASSUME QueueInv, Next, NEW j \in JobIds, rows[j].status \in Terminal
               PROVE  rows'[j].status = rows[j].status /\ rows'[j].attempts = rows[j].attempts
    OBVIOUS
  <2>1. rows \in Seq(JobRow) /\ rows[j] \in JobRow /\ Len(rows) \in Nat /\ JobIds = 1..Len(rows)
    BY QueueFacts
  <2>2. ~MayFinish(rows[j]) /\ ~Claimable(rows[j])
    BY DEF Terminal, MayFinish, Claimable
  <2>3. ASSUME NEW k \in DedupeKeys, EnqueueJob(k) PROVE rows'[j] = rows[j]
    BY <2>1, <2>3, AppendProperties DEF EnqueueJob, JobRow, JobStatus
  <2>4. ASSUME NEW w \in Workers, ClaimJob(w) \/ Finish(w) PROVE rows'[j] = rows[j]
    BY <2>1, <2>2, <2>4 DEF ClaimJob, Finish, CompleteJob, FailJob, FinishRefused
  <2>5. ASSUME NEW w \in Workers, Stop(w) \/ LoseResult(w) \/ Restart(w) PROVE rows' = rows
    BY <2>5 DEF Stop, LoseResult, Restart
  <2>6. CASE Tick
    BY <2>1, <2>6 DEF Tick, JobRow
  <2> QED  BY <2>3, <2>4, <2>5, <2>6 DEF Next
<1> QED
  BY <1>1, QueueInvariant, PTL DEF Spec, TerminalStays

-----------------------------------------------------------------------------
(* How often a job is attempted.  Once a row has counted MaxAttempts, its  *)
(* further claims are paid for by the runners: one that holds the job with *)
(* an early attempt can still put it back to retry, a late one can only    *)
(* settle it or lose it to a fault.                                        *)

Procs == Cardinality(Workers)

\* The runners that would put job j back if they failed it, and those that would not.
Early(j) == { w \in Workers : runner[w].job = j /\ runner[w].attempt < MaxAttempts }
Late(j)  == { w \in Workers : runner[w].job = j /\ runner[w].attempt >= MaxAttempts }

\* Twice the claims that e early runners make possible, one after the other.
Twice(e) == e * (2 * Procs + 1 - e)

\* Twice the claims that a row in status st may still see without a fault, when e
\* early and h late runners hold its job.
Left(st, e, h) ==
    IF st \in Terminal THEN 0
    ELSE Twice(e) + 2 * (Procs - e) - (IF st = "running" THEN 2 * h ELSE 0)

MostAttempts == 2 * (MaxAttempts + faults) + Procs * (Procs + 1) - 2

Counted(j) ==
    rows[j].attempts >= MaxAttempts =>
        2 * rows[j].attempts + Left(rows[j].status, Cardinality(Early(j)), Cardinality(Late(j)))
            <= MostAttempts

AttemptsCounted == \A j \in JobIds : Counted(j)

\* What one runner more or less is worth.
LEMMA TwiceSteps ==
    ASSUME Procs \in Nat, NEW e \in 0..Procs
    PROVE  /\ Twice(e) \in Nat
           /\ e > 0 => Twice(e) = Twice(e - 1) + 2 * (Procs - e) + 2
<1>1. PICK p \in Nat : p = Procs
  OBVIOUS
<1>2. e \in Nat /\ 2 * p + 1 - e \in Nat
  BY <1>1
<1>3. Twice(e) \in Nat
  BY <1>1, <1>2 DEF Twice
<1>4. e * (2 * p + 1 - e) = (e - 1) * (2 * p + 1 - (e - 1)) + 2 * (p - e) + 2
  BY <1>1, <1>2, SMT
<1>5. Twice(e) = e * (2 * p + 1 - e)
  BY <1>1 DEF Twice
<1>6. Twice(e - 1) = (e - 1) * (2 * p + 1 - (e - 1))
  BY <1>1 DEF Twice
<1> QED
  BY <1>1, <1>3, <1>4, <1>5, <1>6

\* Nothing is left to pay with once every claim is made.
LEMMA LeftNat ==
    ASSUME Procs \in Nat, NEW e \in Nat, NEW h \in Nat, e + h <= Procs, NEW st \in JobStatus
    PROVE  Left(st, e, h) \in Nat
<1>1. Twice(e) \in Nat
  BY TwiceSteps
<1> QED
  BY <1>1 DEF Left

\* A claim by a runner that is late from the start costs one.
LEMMA LeftClaim ==
    ASSUME Procs \in Nat, NEW e \in Nat, NEW h \in Nat, e + h < Procs,
           NEW st \in JobStatus, st \notin Terminal
    PROVE  Left("running", e, h + 1) <= Left(st, e, h) - 2
<1>1. Twice(e) \in Nat
  BY TwiceSteps
<1> QED
  BY <1>1 DEF Left, Terminal

\* The first late claim finds all there is to pay with.
LEMMA LeftFirst ==
    ASSUME Procs \in Nat, NEW e \in Nat, e < Procs
    PROVE  Left("running", e, 1) <= Procs * (Procs + 1) - 2
<1>1. PICK p \in Nat : p = Procs
  OBVIOUS
<1>2. PICK d \in Nat : d = p - e /\ d >= 1
  BY <1>1
<1>3. p = e + d
  BY <1>1, <1>2
<1>4. Left("running", e, 1) = e * (2 * p + 1 - e) + 2 * (p - e) - 2
  BY <1>1 DEF Left, Terminal, Twice
<1>5. d * (d - 1) >= 0
  BY <1>2, SMT
<1>6. e * (2 * p + 1 - e) + 2 * d + d * (d - 1) = p * (p + 1)
  BY <1>2, <1>3, SMT
<1> DEFINE a == e * (2 * p + 1 - e)
           b == d * (d - 1)
           c == p * (p + 1)
<1>7. a \in Int /\ b \in Int /\ c \in Int
  BY <1>2, <1>3
<1> HIDE DEF a, b, c
<1>8. a + 2 * d - 2 <= c - 2
  <2>1. b >= 0 /\ a + 2 * d + b = c
    BY <1>5, <1>6 DEF a, b, c
  <2> QED  BY <2>1, <1>7, <1>2
<1> QED
  BY <1>1, <1>2, <1>4, <1>8 DEF a, c

\* An early runner that lets go, or puts the row back, pays for every late one.
LEMMA LeftEarlyGoes ==
    ASSUME Procs \in Nat, NEW e \in Nat \ {0}, NEW h \in Nat, e + h <= Procs,
           NEW st \in JobStatus
    PROVE  /\ Left(st, e - 1, h) <= Left(st, e, h)
           /\ Left("retry", e - 1, h) <= Left("running", e, h)
<1>1. Twice(e) \in Nat /\ Twice(e - 1) \in Nat
      /\ Twice(e) = Twice(e - 1) + 2 * (Procs - e) + 2
  BY TwiceSteps
<1> QED
  BY <1>1 DEF Left, Terminal

\* A late runner that lets go is worth one claim, if the row is still running.
LEMMA LeftLateGoes ==
    ASSUME Procs \in Nat, NEW e \in Nat, NEW h \in Nat \ {0}, e + h <= Procs,
           NEW st \in JobStatus
    PROVE  /\ Left(st, e, h - 1) <= Left(st, e, h) + 2
           /\ st # "running" => Left(st, e, h - 1) <= Left(st, e, h)
<1>1. Twice(e) \in Nat
  BY TwiceSteps
<1> QED
  BY <1>1 DEF Left, Terminal

\* The runners of a job, and how they count.
LEMMA RunnersCounted ==
    ASSUME QueueInv, NEW j \in JobIds
    PROVE  /\ Procs \in Nat
           /\ IsFiniteSet(Early(j)) /\ Cardinality(Early(j)) \in Nat
           /\ IsFiniteSet(Late(j)) /\ Cardinality(Late(j)) \in Nat
           /\ Cardinality(Early(j)) + Cardinality(Late(j)) <= Procs
           /\ \A w \in Workers : runner[w].job # j =>
                 Cardinality(Early(j)) + Cardinality(Late(j)) < Procs
<1>1. Procs \in Nat /\ Early(j) \subseteq Workers /\ Late(j) \subseteq Workers
  BY QueueAssumption, FS_CardinalityType DEF Procs, Early, Late
<1>2. /\ IsFiniteSet(Early(j)) /\ Cardinality(Early(j)) \in Nat
      /\ IsFiniteSet(Late(j)) /\ Cardinality(Late(j)) \in Nat
  BY <1>1, QueueAssumption, FS_Subset, FS_CardinalityType
<1>3. Early(j) \cap Late(j) = {}
  BY QueueFacts, QueueAssumption DEF Early, Late, RunnerState
<1>4. /\ IsFiniteSet(Early(j) \cup Late(j))
      /\ Cardinality(Early(j) \cup Late(j)) = Cardinality(Early(j)) + Cardinality(Late(j))
  <2>1. /\ IsFiniteSet(Early(j) \cup Late(j))
        /\ Cardinality(Early(j) \cup Late(j))
             = Cardinality(Early(j)) + Cardinality(Late(j)) - Cardinality(Early(j) \cap Late(j))
    BY <1>2, FS_Union
  <2>2. Cardinality(Early(j) \cap Late(j)) = 0
    BY <1>3, FS_EmptySet
  <2> QED  BY <1>2, <2>1, <2>2
<1>5. Cardinality(Early(j) \cup Late(j)) <= Procs
  BY <1>1, QueueAssumption, FS_Subset DEF Procs
<1>6. ASSUME NEW w \in Workers, runner[w].job # j
      PROVE  Cardinality(Early(j) \cup Late(j)) < Procs
  <2>1. Early(j) \cup Late(j) \subseteq Workers \ {w}
    BY <1>6 DEF Early, Late
  <2>2. IsFiniteSet(Workers \ {w}) /\ Cardinality(Workers \ {w}) = Procs - 1
    BY QueueAssumption, FS_RemoveElement DEF Procs
  <2>3. Cardinality(Early(j) \cup Late(j)) <= Cardinality(Workers \ {w})
    BY <2>1, <2>2, FS_Subset
  <2>4. Cardinality(Early(j) \cup Late(j)) \in Nat
    BY <1>4, FS_CardinalityType
  <2> QED  BY <1>1, <2>2, <2>3, <2>4
<1> QED
  BY <1>1, <1>2, <1>4, <1>5, <1>6

\* A runner that lets go of its job, or holds none, is no longer counted.
LEMMA OneRunnerLess ==
    ASSUME QueueInv, NEW w \in Workers, NEW r \in {Idle, Down},
           runner' = [runner EXCEPT ![w] = r], NEW j \in JobIds
    PROVE  \/ /\ w \in Early(j) /\ Cardinality(Early(j)) > 0
              /\ Cardinality(Early(j)') = Cardinality(Early(j)) - 1
              /\ Cardinality(Late(j)') = Cardinality(Late(j))
           \/ /\ w \in Late(j) /\ Cardinality(Late(j)) > 0
              /\ Cardinality(Early(j)') = Cardinality(Early(j))
              /\ Cardinality(Late(j)') = Cardinality(Late(j)) - 1
           \/ /\ runner[w].job # j
              /\ Early(j)' = Early(j) /\ Late(j)' = Late(j)
<1>1. r.job = 0 /\ j # 0
  BY QueueFacts DEF Idle, Down
<1>2. /\ runner' \in [Workers -> {runner'[v] : v \in Workers}] /\ runner'[w] = r
      /\ \A v \in Workers \ {w} : runner'[v] = runner[v]
  BY DEF QueueInv, QueueTypeOK
<1>3. Early(j)' = Early(j) \ {w} /\ Late(j)' = Late(j) \ {w}
  BY <1>1, <1>2 DEF Early, Late
<1>4. /\ IsFiniteSet(Early(j)) /\ Cardinality(Early(j)) \in Nat
      /\ IsFiniteSet(Late(j)) /\ Cardinality(Late(j)) \in Nat
  BY RunnersCounted
<1>5. CASE w \in Early(j)
  <2>1. w \notin Late(j)
    BY <1>5, QueueFacts, QueueAssumption DEF Early, Late, RunnerState
  <2>2. Late(j)' = Late(j)
    BY <1>3, <2>1
  <2>3. Cardinality(Early(j) \ {w}) = Cardinality(Early(j)) - 1 /\ Cardinality(Early(j) \ {w}) \in Nat
    BY <1>4, <1>5, FS_RemoveElement, FS_CardinalityType
  <2>4. Cardinality(Early(j)) > 0
    BY <1>4, <2>3
  <2> QED  BY <1>3, <1>5, <2>2, <2>3, <2>4
<1>6. CASE w \in Late(j)
  <2>1. w \notin Early(j)
    BY <1>6, QueueFacts, QueueAssumption DEF Early, Late, RunnerState
  <2>2. Early(j)' = Early(j)
    BY <1>3, <2>1
  <2>3. Cardinality(Late(j) \ {w}) = Cardinality(Late(j)) - 1 /\ Cardinality(Late(j) \ {w}) \in Nat
    BY <1>4, <1>6, FS_RemoveElement, FS_CardinalityType
  <2>4. Cardinality(Late(j)) > 0
    BY <1>4, <2>3
  <2> QED  BY <1>3, <1>6, <2>2, <2>3, <2>4
<1>7. CASE w \notin Early(j) /\ w \notin Late(j)
  <2>1. runner[w].job # j
    BY <1>7, QueueFacts, QueueAssumption DEF Early, Late, RunnerState
  <2> QED  BY <1>3, <1>7, <2>1
<1> QED
  BY <1>5, <1>6, <1>7

\* One more fault allows one more attempt.
LEMMA FaultsCount ==
    ASSUME QueueInv, faults' \in Nat
    PROVE  /\ MostAttempts \in Int /\ faults \in Nat
           /\ MostAttempts' = MostAttempts + 2 * (faults' - faults)
<1>1. PICK p \in Nat : p = Procs
  BY QueueAssumption, FS_CardinalityType DEF Procs
<1>2. faults \in Nat
  BY QueueAssumption DEF QueueInv, QueueTypeOK
<1>3. PICK q \in Int : q = p * (p + 1)
  BY <1>1
<1>4. Procs' = Procs
  BY DEF Procs
<1> QED
  BY <1>1, <1>2, <1>3, <1>4, QueueAssumption DEF MostAttempts

\* A runner lets go: the row is as it was, settled, or put back by an early runner,
\* and a fault is counted when a late runner leaves the row running.
LEMMA CountedLetGo ==
    ASSUME QueueInv, NEW w \in Workers, NEW r \in {Idle, Down},
           runner' = [runner EXCEPT ![w] = r],
           NEW j \in JobIds, Counted(j), faults' \in Nat, faults' >= faults,
           rows'[j].attempts = rows[j].attempts, rows'[j].status \in JobStatus,
           \/ rows'[j].status = rows[j].status /\
                (w \in Late(j) /\ rows[j].status = "running" => faults' > faults)
           \/ rows'[j].status \in Terminal
           \/ w \in Early(j) /\ rows[j].status = "running" /\ rows'[j].status = "retry"
    PROVE  Counted(j)'
<1> DEFINE e  == Cardinality(Early(j))
           h  == Cardinality(Late(j))
           e1 == Cardinality(Early(j)')
           h1 == Cardinality(Late(j)')
           s  == rows[j].status
           s1 == rows'[j].status
           n  == rows[j].attempts
<1>1. Procs \in Nat /\ e \in Nat /\ h \in Nat /\ e + h <= Procs
  BY RunnersCounted
<1>2. n \in Nat /\ s \in JobStatus
  BY QueueFacts DEF JobRow
<1>3. MostAttempts \in Int /\ faults \in Nat /\ MostAttempts' = MostAttempts + 2 * (faults' - faults)
  BY FaultsCount
<1>4. \/ w \in Early(j) /\ e > 0 /\ e1 = e - 1 /\ h1 = h
      \/ w \in Late(j) /\ h > 0 /\ e1 = e /\ h1 = h - 1
      \/ w \notin Early(j) /\ e1 = e /\ h1 = h
  BY OneRunnerLess DEF Early
<1>5. w \in Early(j) => w \notin Late(j)
  BY QueueFacts, QueueAssumption DEF Early, Late, RunnerState
<1>6. Left(s, e, h) \in Nat /\ Left(s1, e1, h1) \in Nat
  <2>1. e1 \in Nat /\ h1 \in Nat /\ e1 + h1 <= Procs
    BY <1>1, <1>4
  <2>2. Left(s, e, h) \in Nat
    BY <1>1, <1>2, LeftNat
  <2> QED  BY <1>1, <2>1, <2>2, LeftNat
<1>7. Left(s1, e1, h1) <= Left(s, e, h) + 2 * (faults' - faults)
  <2>1. CASE s1 \in Terminal
    <3>1. Left(s1, e1, h1) = 0
      BY <2>1 DEF Left
    <3> QED  BY <1>3, <1>6, <3>1
  <2>2. CASE w \in Early(j) /\ s = "running" /\ s1 = "retry"
    <3>1. e \in Nat \ {0} /\ e1 = e - 1 /\ h1 = h
      BY <2>2, <1>1, <1>4, <1>5
    <3>2. Left("retry", e - 1, h) <= Left("running", e, h)
      BY <3>1, <1>1, <1>2, LeftEarlyGoes
    <3> QED  BY <2>2, <3>1, <3>2, <1>3, <1>6
  <2>3. CASE s1 = s /\ (w \in Late(j) /\ s = "running" => faults' > faults)
    <3>1. CASE w \in Early(j)
      <4>1. e \in Nat \ {0} /\ e1 = e - 1 /\ h1 = h
        BY <3>1, <1>1, <1>4, <1>5
      <4>2. Left(s, e - 1, h) <= Left(s, e, h)
        BY <4>1, <1>1, <1>2, LeftEarlyGoes
      <4> QED  BY <2>3, <4>1, <4>2, <1>3, <1>6
    <3>2. CASE w \in Late(j) /\ h > 0 /\ e1 = e /\ h1 = h - 1
      <4>1. h \in Nat \ {0}
        BY <3>2, <1>1
      <4>2. /\ Left(s, e, h - 1) <= Left(s, e, h) + 2
            /\ s # "running" => Left(s, e, h - 1) <= Left(s, e, h)
        BY <4>1, <1>1, <1>2, LeftLateGoes
      <4> QED  BY <2>3, <3>2, <4>2, <1>3, <1>6
    <3>3. CASE e1 = e /\ h1 = h
      BY <2>3, <3>3, <1>3, <1>6
    <3> QED  BY <3>1, <3>2, <3>3, <1>4
  <2> QED  BY <2>1, <2>2, <2>3
<1>8. SUFFICES ASSUME n >= MaxAttempts
               PROVE  2 * n + Left(s1, e1, h1) <= MostAttempts'
  BY DEF Counted
<1>9. 2 * n + Left(s, e, h) <= MostAttempts
  BY <1>8 DEF Counted
<1> QED
  BY <1>2, <1>3, <1>6, <1>7, <1>9

\* A step that changes neither a row's status and attempts nor who holds its job.
LEMMA CountedKept ==
    ASSUME QueueInv, NEW j \in JobIds, Counted(j), UNCHANGED faults,
           rows'[j].attempts = rows[j].attempts, rows'[j].status = rows[j].status,
           Early(j)' = Early(j), Late(j)' = Late(j)
    PROVE  Counted(j)'
<1>1. MostAttempts' = MostAttempts
  BY DEF MostAttempts, Procs
<1>2. ASSUME rows[j].attempts >= MaxAttempts
      PROVE  2 * rows'[j].attempts
               + Left(rows'[j].status, Cardinality(Early(j)'), Cardinality(Late(j)')) <= MostAttempts'
  BY <1>1, <1>2 DEF Counted
<1> QED
  BY <1>2 DEF Counted

\* A claim past the configured attempts is one of those that were left.
LEMMA CountedClaim ==
    ASSUME QueueInv, NEW w \in Workers, ClaimJob(w), NEW i \in JobIds, Counted(i)
    PROVE  Counted(i)'
<1> PICK j \in JobIds :
        /\ runner[w] = Idle
        /\ Claimable(rows[j])
        /\ rows' = [rows EXCEPT ![j] = ClaimedRow(@)]
        /\ runner' = [runner EXCEPT ![w] = [up |-> TRUE, job |-> j,
                                            attempt |-> rows'[j].attempts,
                                            lease |-> rows'[j].lease]]
        /\ UNCHANGED <<ahead, faults>>
  BY DEF ClaimJob
<1>1. /\ rows \in Seq(JobRow) /\ rows[j] \in JobRow /\ Len(rows) \in Nat /\ JobIds = 1..Len(rows)
      /\ \A v \in Workers : runner[v] \in RunnerState
  BY QueueFacts
<1>2. runner[w].job = 0 /\ i # 0 /\ j # 0
  BY <1>1 DEF Idle
<1>3. /\ \A v \in Workers \ {w} : runner'[v] = runner[v]
      /\ runner'[w].job = j /\ runner'[w].attempt = rows'[j].attempts
  BY DEF QueueInv, QueueTypeOK
<1>4. CASE i # j
  <2>1. rows'[i] = rows[i]
    BY <1>1, <1>4
  <2>2. Early(i)' = Early(i) /\ Late(i)' = Late(i)
    BY <1>2, <1>3, <1>4 DEF Early, Late
  <2> QED  BY <2>1, <2>2, CountedKept
<1>5. CASE i = j
  <2> DEFINE n == rows[j].attempts
             s == rows[j].status
             e == Cardinality(Early(j))
             h == Cardinality(Late(j))
  <2>1. n \in Nat /\ s \in JobStatus /\ s \notin Terminal
    BY <1>1 DEF JobRow, Claimable, Terminal
  <2>2. rows'[j].attempts = n + 1 /\ rows'[j].status = "running"
    BY <1>1 DEF ClaimedRow, JobRow
  <2>3. Procs \in Nat /\ e \in Nat /\ h \in Nat /\ e + h < Procs /\ IsFiniteSet(Late(j))
    BY <1>2, RunnersCounted
  <2>4. /\ MostAttempts \in Int /\ MostAttempts' = MostAttempts
        /\ faults \in Nat
    <3>1. faults \in Nat /\ faults' = faults
      BY DEF QueueInv, QueueTypeOK
    <3> QED  BY <3>1, FaultsCount
  <2> SUFFICES ASSUME n + 1 >= MaxAttempts
               PROVE  2 * (n + 1) + Left("running", Cardinality(Early(j)'), Cardinality(Late(j)'))
                        <= MostAttempts'
    BY <1>5, <2>2 DEF Counted
  <2>5. Early(j)' = Early(j) /\ Late(j)' = Late(j) \cup {w}
    BY <1>2, <1>3, <2>1, <2>2, QueueAssumption DEF Early, Late
  <2>6. w \notin Late(j)
    BY <1>2 DEF Late
  <2>7. Cardinality(Early(j)') = e /\ Cardinality(Late(j)') = h + 1
    BY <2>3, <2>5, <2>6, FS_AddElement
  <2>8. Left("running", e, h + 1) \in Nat /\ Left(s, e, h) \in Nat
    <3>1. e + (h + 1) <= Procs /\ e + h <= Procs /\ h + 1 \in Nat /\ "running" \in JobStatus
      BY <2>3 DEF JobStatus
    <3> QED  BY <3>1, <2>1, <2>3, LeftNat
  <2>9. CASE n >= MaxAttempts
    <3>1. 2 * n + Left(s, e, h) <= MostAttempts
      BY <1>5, <2>9 DEF Counted
    <3>2. Left("running", e, h + 1) <= Left(s, e, h) - 2
      BY <2>1, <2>3, LeftClaim
    <3> QED  BY <3>1, <3>2, <2>1, <2>4, <2>7, <2>8
  <2>10. CASE n + 1 = MaxAttempts
    <3>1. \A v \in Workers : runner[v].job = j => runner[v].attempt < MaxAttempts
      BY <1>1, <1>2, <2>1, <2>10, QueueAssumption DEF QueueInv, ClaimsNumbered, Holding
    <3>2. Late(j) = {}
      BY <1>1, <3>1, QueueAssumption DEF Late, RunnerState
    <3>3. h = 0
      BY <3>2, FS_EmptySet
    <3>4. e < Procs
      BY <2>3, <3>3
    <3>5. Left("running", e, 1) <= Procs * (Procs + 1) - 2
      BY <2>3, <3>4, LeftFirst
    <3>6. PICK q \in Int : q = Procs * (Procs + 1)
      BY <2>3
    <3>7. MostAttempts = 2 * (MaxAttempts + faults) + q - 2
      BY <3>6 DEF MostAttempts
    <3> QED  BY <3>3, <3>5, <3>6, <3>7, <2>1, <2>4, <2>7, <2>8, <2>10, QueueAssumption
  <2> QED  BY <2>1, <2>9, <2>10, QueueAssumption
<1> QED
  BY <1>4, <1>5

\* Every step keeps the count.
LEMMA AttemptsStep == QueueInv /\ AttemptsCounted /\ [Next]_vars => AttemptsCounted'
<1> SUFFICES ASSUME QueueInv, AttemptsCounted, [Next]_vars PROVE AttemptsCounted'
  OBVIOUS
<1>1. /\ Len(rows) \in Nat /\ JobIds = 1..Len(rows) /\ rows \in Seq(JobRow)
      /\ \A j \in JobIds : rows[j] \in JobRow /\ rows[j].status \in JobStatus
      /\ faults \in Nat
  BY QueueFacts DEF JobRow, QueueInv, QueueTypeOK
<1>2. \A j \in JobIds : Counted(j)
  BY DEF AttemptsCounted
<1>3. ASSUME NEW k \in DedupeKeys, EnqueueJob(k) PROVE AttemptsCounted'
  <2> PICK n \in Nat : n = Len(rows) + 1
    BY <1>1
  <2>1. /\ JobIds' = 1..n /\ rows'[n].attempts = 0
        /\ \A j \in JobIds : rows'[j] = rows[j]
    BY <1>1, <1>3, AppendProperties, LenProperties DEF EnqueueJob, JobIds, JobRow, JobStatus
  <2>2. \A j \in JobIds : Early(j)' = Early(j) /\ Late(j)' = Late(j)
    BY <1>3 DEF EnqueueJob, Early, Late
  <2>3. ASSUME NEW j \in JobIds PROVE Counted(j)'
    BY <1>2, <1>3, <2>1, <2>2, CountedKept DEF EnqueueJob
  <2>4. Counted(n)'
    BY <2>1, QueueAssumption DEF Counted
  <2>5. \A j \in JobIds' : j \in JobIds \/ j = n
    BY <1>1, <2>1
  <2> QED  BY <2>3, <2>4, <2>5 DEF AttemptsCounted
<1>4. ASSUME JobIds' = JobIds, \A j \in JobIds : Counted(j)' PROVE AttemptsCounted'
  BY <1>4 DEF AttemptsCounted
<1>5. ASSUME NEW w \in Workers, ClaimJob(w) PROVE AttemptsCounted'
  <2>1. JobIds' = JobIds
    BY <1>1, <1>5 DEF ClaimJob, JobIds
  <2>2. \A j \in JobIds : Counted(j)'
    BY <1>2, <1>5, CountedClaim
  <2> QED  BY <2>1, <2>2, <1>4
<1>6. ASSUME NEW w \in Workers, CompleteJob(w) PROVE AttemptsCounted'
  <2>1. JobIds' = JobIds
    BY <1>1, <1>6 DEF CompleteJob, JobIds
  <2>2. \A j \in JobIds : /\ rows'[j].attempts = rows[j].attempts
                          /\ rows'[j].status \in JobStatus
                          /\ \/ rows'[j].status = rows[j].status /\ w \notin Late(j)
                             \/ rows'[j].status \in Terminal
    BY <1>1, <1>6 DEF CompleteJob, CompletedRow, JobRow, JobStatus, Terminal, Late
  <2>3. \A j \in JobIds : Counted(j)'
    <3>1. runner' = [runner EXCEPT ![w] = Idle] /\ faults' \in Nat /\ faults' >= faults
      BY <1>1, <1>6 DEF CompleteJob
    <3> QED  BY <1>2, <2>2, <3>1, CountedLetGo
  <2> QED  BY <2>1, <2>3, <1>4
<1>7. ASSUME NEW w \in Workers, FailJob(w) PROVE AttemptsCounted'
  <2> DEFINE a == runner[w].attempt
             m == runner[w].job
  <2>1. JobIds' = JobIds
    BY <1>1, <1>7 DEF FailJob, JobIds
  <2>2. m \in JobIds /\ rows[m].status = "running" /\ a \in Nat
    BY <1>7, QueueFacts DEF FailJob, MayFinish, RunnerState
  <2>3. /\ rows'[m].attempts = rows[m].attempts /\ rows'[m].status = FailedStatus(a)
        /\ \A j \in JobIds \ {m} : rows'[j] = rows[j] /\ w \notin Late(j)
    BY <1>1, <1>7, <2>2, SMTT(20) DEF FailJob, FailedRow, JobRow, Late
  <2>4. \/ FailedStatus(a) = "dead"
        \/ FailedStatus(a) = "retry" /\ w \in Early(m)
    BY <2>2, QueueAssumption DEF FailedStatus, Early
  <2>5. \A j \in JobIds : /\ rows'[j].attempts = rows[j].attempts
                          /\ rows'[j].status \in JobStatus
                          /\ \/ rows'[j].status = rows[j].status /\ w \notin Late(j)
                             \/ rows'[j].status \in Terminal
                             \/ w \in Early(j) /\ rows[j].status = "running"
                                  /\ rows'[j].status = "retry"
    BY <1>1, <2>2, <2>3, <2>4 DEF JobStatus, Terminal
  <2>6. \A j \in JobIds : Counted(j)'
    <3>1. runner' = [runner EXCEPT ![w] = Idle] /\ faults' \in Nat /\ faults' >= faults
      BY <1>1, <1>7 DEF FailJob
    <3> QED  BY <1>2, <2>5, <3>1, CountedLetGo
  <2> QED  BY <2>1, <2>6, <1>4
<1>8. ASSUME NEW w \in Workers, FinishRefused(w) PROVE AttemptsCounted'
  <2>1. \A j \in JobIds : w \in Late(j) => rows[j].status # "running"
    BY <1>8 DEF FinishRefused, MayFinish, Late
  <2>2. \A j \in JobIds : Counted(j)'
    <3>1. runner' = [runner EXCEPT ![w] = Idle] /\ faults' \in Nat /\ faults' >= faults
      BY <1>1, <1>8 DEF FinishRefused
    <3>2. rows' = rows
      BY <1>8 DEF FinishRefused
    <3> QED  BY <1>1, <1>2, <2>1, <3>1, <3>2, CountedLetGo
  <2> QED  BY <1>8, <2>2, <1>4 DEF FinishRefused, JobIds
<1>9. ASSUME NEW w \in Workers, Stop(w) \/ LoseResult(w) PROVE AttemptsCounted'
  <2>1. faults' \in Nat /\ faults' > faults /\ rows' = rows
    BY <1>1, <1>9 DEF Stop, LoseResult, Fault
  <2>2. \A j \in JobIds : Counted(j)'
    BY <1>1, <1>2, <1>9, <2>1, CountedLetGo DEF Stop, LoseResult
  <2> QED  BY <2>1, <2>2, <1>4 DEF JobIds
<1>10. ASSUME NEW w \in Workers, Restart(w) PROVE AttemptsCounted'
  <2>1. \A j \in JobIds : w \notin Late(j)
    BY <1>1, <1>10 DEF Restart, Late, QueueInv, QueueTypeOK, Holding
  <2>2. \A j \in JobIds : Counted(j)'
    <3>1. runner' = [runner EXCEPT ![w] = Idle] /\ faults' \in Nat /\ faults' >= faults
      BY <1>1, <1>10 DEF Restart
    <3>2. rows' = rows
      BY <1>10 DEF Restart
    <3> QED  BY <1>1, <1>2, <2>1, <3>1, <3>2, CountedLetGo
  <2> QED  BY <1>10, <2>2, <1>4 DEF Restart, JobIds
<1>11. CASE Tick
  <2>1. JobIds' = JobIds
    BY <1>11 DEF Tick, JobIds
  <2>2. \A j \in JobIds : rows'[j].attempts = rows[j].attempts /\ rows'[j].status = rows[j].status
    BY <1>1, <1>11 DEF Tick, JobRow
  <2>3. \A v \in Workers : runner'[v].job = runner[v].job /\ runner'[v].attempt = runner[v].attempt
    BY <1>11, QueueFacts DEF Tick, RunnerState
  <2>4. \A j \in JobIds : Early(j)' = Early(j) /\ Late(j)' = Late(j)
    BY <2>3 DEF Early, Late
  <2>5. \A j \in JobIds : Counted(j)'
    BY <1>2, <1>11, <2>2, <2>4, CountedKept DEF Tick
  <2> QED  BY <2>1, <2>5, <1>4
<1>12. CASE UNCHANGED vars
  <2>1. \A j \in JobIds : Early(j)' = Early(j) /\ Late(j)' = Late(j)
    BY <1>12 DEF vars, Early, Late
  <2>2. \A j \in JobIds : Counted(j)'
    BY <1>2, <1>12, <2>1, CountedKept DEF vars
  <2> QED  BY <1>12, <2>2, <1>4 DEF vars, JobIds
<1> QED
  BY <1>3, <1>5, <1>6, <1>7, <1>8, <1>9, <1>10, <1>11, <1>12 DEF Next, Finish

\* ClaimJob reclaims a job whatever its attempts are, and FailJob puts it back by the
\* attempt of a runner that lost it: still it is run no more often than this.
THEOREM AttemptsRunOut == Spec => []AttemptsBounded
<1>1. Init => AttemptsCounted
  BY DEF Init, AttemptsCounted, JobIds
<1>2. QueueInv /\ AttemptsCounted => AttemptsBounded
  <2> SUFFICES ASSUME QueueInv, AttemptsCounted, NEW j \in JobIds
               PROVE  rows[j].attempts <= MaxAttempts + faults + LateClaims(Procs)
    BY DEF AttemptsBounded, Procs
  <2> DEFINE left == Left(rows[j].status, Cardinality(Early(j)), Cardinality(Late(j)))
  <2>1. /\ Procs \in Nat /\ Cardinality(Early(j)) \in Nat /\ Cardinality(Late(j)) \in Nat
        /\ Cardinality(Early(j)) + Cardinality(Late(j)) <= Procs
    BY RunnersCounted
  <2>2. rows[j].attempts \in Nat /\ rows[j].status \in JobStatus /\ faults \in Nat
    BY QueueFacts DEF JobRow, QueueInv, QueueTypeOK
  <2>3. left \in Nat
    BY <2>1, <2>2, LeftNat
  <2>4. PICK p \in Nat : p = Procs
    BY <2>1
  <2>5. Counted(j)
    BY DEF AttemptsCounted
  <2>6. PICK q \in Nat : q = p * (p + 1)
    BY <2>4
  <2>7. LateClaims(Procs) = q \div 2 - 1 /\ MostAttempts = 2 * (MaxAttempts + faults) + q - 2
    BY <2>4, <2>6 DEF LateClaims, MostAttempts
  <2>8. CASE rows[j].attempts >= MaxAttempts
    <3>1. 2 * rows[j].attempts + left <= 2 * (MaxAttempts + faults) + q - 2
      BY <2>5, <2>7, <2>8 DEF Counted
    <3>2. 2 * rows[j].attempts <= 2 * (MaxAttempts + faults) + q - 2
      BY <3>1, <2>2, <2>3, QueueAssumption
    <3> QED  BY <3>2, <2>2, <2>7, QueueAssumption
  <2>9. CASE rows[j].attempts < MaxAttempts
    BY <2>2, <2>7, <2>9, QueueAssumption
  <2> QED  BY <2>2, <2>8, <2>9, QueueAssumption
<1> QED
  BY <1>1, <1>2, AttemptsStep, QueueInvariant, PTL DEF Spec

-----------------------------------------------------------------------------
(* The queue implements JobAttempts: every step posts, starts or ends      *)
(* something on the board, or leaves the board as it is.                   *)

KeysUnique == \A i, j \in JobIds : rows[i].key = rows[j].key => i = j

BoardInv == QueueInv /\ KeysUnique

\* Every step but an enqueueing keeps the ids and their keys.
LEMMA KeysKept ==
    ASSUME QueueInv, [Next]_vars, \A k \in DedupeKeys : ~EnqueueJob(k)
    PROVE  JobIds' = JobIds /\ \A j \in JobIds : rows'[j].key = rows[j].key
<1>1. /\ rows \in Seq(JobRow) /\ Len(rows) \in Nat /\ JobIds = 1..Len(rows)
      /\ \A j \in JobIds : rows[j] \in JobRow
  BY QueueFacts
<1>2. ASSUME NEW j \in JobIds, NEW r, r.key = rows[j].key, rows' = [rows EXCEPT ![j] = r]
      PROVE  JobIds' = JobIds /\ \A i \in JobIds : rows'[i].key = rows[i].key
  BY <1>1, <1>2 DEF JobIds
<1>3. ASSUME NEW w \in Workers, ClaimJob(w)
      PROVE  JobIds' = JobIds /\ \A i \in JobIds : rows'[i].key = rows[i].key
  <2>1. PICK j \in JobIds : rows' = [rows EXCEPT ![j] = ClaimedRow(rows[j])]
    BY <1>3 DEF ClaimJob
  <2>2. ClaimedRow(rows[j]).key = rows[j].key
    BY <1>1 DEF ClaimedRow, JobRow
  <2> QED  BY <1>2, <2>1, <2>2
<1>4. ASSUME NEW w \in Workers, Finish(w)
      PROVE  JobIds' = JobIds /\ \A i \in JobIds : rows'[i].key = rows[i].key
  <2> DEFINE j == runner[w].job
  <2>1. CASE CompleteJob(w)
    <3>1. j \in JobIds /\ rows' = [rows EXCEPT ![j] = CompletedRow(rows[j])]
      BY <2>1, QueueFacts DEF CompleteJob
    <3>2. CompletedRow(rows[j]).key = rows[j].key
      BY <1>1, <3>1 DEF CompletedRow, JobRow
    <3> QED  BY <1>2, <3>1, <3>2
  <2>2. CASE FailJob(w)
    <3> DEFINE r == FailedRow(rows[j], FailedStatus(runner[w].attempt),
                              retryBackoff(runner[w].attempt))
    <3>1. j \in JobIds /\ rows' = [rows EXCEPT ![j] = r]
      BY <2>2, QueueFacts DEF FailJob
    <3>2. r.key = rows[j].key
      BY <1>1, <3>1 DEF FailedRow, JobRow
    <3> QED  BY <1>2, <3>1, <3>2
  <2>3. CASE FinishRefused(w)
    BY <2>3 DEF FinishRefused, JobIds
  <2> QED  BY <1>4, <2>1, <2>2, <2>3 DEF Finish
<1>5. ASSUME NEW w \in Workers, Stop(w) \/ LoseResult(w) \/ Restart(w)
      PROVE  rows' = rows
  BY <1>5 DEF Stop, LoseResult, Restart
<1>6. CASE Tick
  BY <1>1, <1>6 DEF Tick, JobIds, JobRow
<1> QED
  BY <1>3, <1>4, <1>5, <1>6 DEF Next, vars, JobIds

\* A dedupe key is inserted once.
LEMMA BoardInvStep == BoardInv /\ [Next]_vars => BoardInv'
<1> SUFFICES ASSUME BoardInv, [Next]_vars PROVE KeysUnique'
  BY QueueStep DEF BoardInv
<1>1. QueueInv /\ KeysUnique
  BY DEF BoardInv
<1>2. ASSUME NEW k \in DedupeKeys, EnqueueJob(k) PROVE KeysUnique'
  <2>1. Len(rows) \in Nat /\ JobIds = 1..Len(rows) /\ rows \in Seq(JobRow)
    BY <1>1, QueueFacts
  <2> PICK n \in Nat : n = Len(rows) + 1
    BY <2>1
  <2>2. /\ JobIds' = 1..n /\ rows'[n].key = k
        /\ \A j \in JobIds : rows'[j] = rows[j]
    BY <1>2, <2>1, AppendProperties, LenProperties DEF EnqueueJob, JobIds, JobRow, JobStatus
  <2>3. \A j \in JobIds' : j \in JobIds \/ j = n
    BY <2>1, <2>2
  <2>4. \A j \in JobIds : rows[j].key # k
    BY <1>2 DEF EnqueueJob
  <2> QED  BY <1>1, <2>2, <2>3, <2>4 DEF KeysUnique
<1>3. CASE \A k \in DedupeKeys : ~EnqueueJob(k)
  BY <1>1, <1>3, KeysKept DEF KeysUnique
<1> QED  BY <1>2, <1>3

LEMMA BoardInvariant == Spec => []BoardInv
<1>1. Init => BoardInv
  BY QueueInit DEF Init, BoardInv, KeysUnique, JobIds
<1> QED  BY <1>1, BoardInvStep, PTL DEF Spec

\* The row of a key.
LEMMA RowOfKey ==
    ASSUME BoardInv, NEW j \in JobIds
    PROVE  /\ rows[j].key \in DedupeKeys /\ Enqueued(rows[j].key) /\ IdOf(rows[j].key) = j
           /\ BoardState[rows[j].key] = Seen(rows[j].status)
           /\ BoardStarted[rows[j].key] = rows[j].attempts
<1>1. rows[j].key \in DedupeKeys
  BY QueueFacts DEF BoardInv, JobRow
<1>2. Enqueued(rows[j].key) /\ IdOf(rows[j].key) = j
  BY DEF BoardInv, KeysUnique, IdOf, Enqueued
<1> QED  BY <1>1, <1>2 DEF BoardState, BoardStarted

\* A step that changes one row changes the board for its key only.
LEMMA BoardRow ==
    ASSUME BoardInv, BoardInv', JobIds' = JobIds, NEW j \in JobIds,
           \A i \in JobIds : rows'[i].key = rows[i].key,
           \A i \in JobIds \ {j} : Seen(rows'[i].status) = Seen(rows[i].status)
                                   /\ rows'[i].attempts = rows[i].attempts
    PROVE  /\ BoardState' = [BoardState EXCEPT ![rows[j].key] = Seen(rows'[j].status)]
           /\ BoardStarted' = [BoardStarted EXCEPT ![rows[j].key] = rows'[j].attempts]
<1> PICK kj : kj = rows[j].key
  OBVIOUS
<1>0. kj \in DedupeKeys
  BY RowOfKey
<1>1. /\ DOMAIN BoardState = DedupeKeys /\ DOMAIN BoardState' = DedupeKeys
      /\ DOMAIN BoardStarted = DedupeKeys /\ DOMAIN BoardStarted' = DedupeKeys
      /\ BoardState = [k \in DedupeKeys |-> BoardState[k]]
      /\ BoardState' = [k \in DedupeKeys |-> BoardState'[k]]
      /\ BoardStarted = [k \in DedupeKeys |-> BoardStarted[k]]
      /\ BoardStarted' = [k \in DedupeKeys |-> BoardStarted'[k]]
  BY DEF BoardState, BoardStarted
<1>2. BoardState'[kj] = Seen(rows'[j].status) /\ BoardStarted'[kj] = rows'[j].attempts
  <2>1. (BoardState[rows[j].key])' = Seen(rows'[j].status)
        /\ (BoardStarted[rows[j].key])' = rows'[j].attempts
    <3>1. j \in JobIds'
      OBVIOUS
    <3>2. rows'[j].key \in DedupeKeys /\ Enqueued(kj)' /\ IdOf(kj)' = j
      BY <1>0, <3>1 DEF BoardInv, KeysUnique, IdOf, Enqueued
    <3> QED  BY <1>0, <3>1, <3>2 DEF BoardState, BoardStarted, Seen
  <2> QED  BY <2>1
<1>3. ASSUME NEW k \in DedupeKeys, k # kj
      PROVE  BoardState'[k] = BoardState[k] /\ BoardStarted'[k] = BoardStarted[k]
  <2>1. CASE Enqueued(k)
    <3>1. PICK i \in JobIds : rows[i].key = k
      BY <2>1 DEF Enqueued
    <3>2. i # j
      BY <1>3, <3>1
    <3>3. IdOf(k) = i /\ BoardState[k] = Seen(rows[i].status) /\ BoardStarted[k] = rows[i].attempts
      BY <3>1, RowOfKey
    <3>4. i \in JobIds' /\ rows'[i].key = k
      BY <3>1
    <3>5. Enqueued(k)' /\ IdOf(k)' = i
      BY <3>4 DEF BoardInv, KeysUnique, IdOf, Enqueued
    <3>6. BoardState'[k] = Seen(rows'[i].status) /\ BoardStarted'[k] = rows'[i].attempts
      BY <3>5 DEF BoardState, BoardStarted, Seen
    <3> QED  BY <3>1, <3>2, <3>3, <3>6
  <2>2. CASE ~Enqueued(k)
    <3>1. ~Enqueued(k)'
      BY <2>2 DEF Enqueued
    <3> QED  BY <2>2, <3>1 DEF BoardState, BoardStarted
  <2> QED  BY <2>1, <2>2
<1> HIDE DEF BoardState, BoardStarted
<1> QED  BY <1>0, <1>1, <1>2, <1>3

\* Who runs what depends on the runners and on the keys of their jobs.
LEMMA RunningKept ==
    ASSUME QueueInv, \A j \in JobIds : rows'[j].key = rows[j].key,
           \A w \in Workers : /\ runner'[w].job = runner[w].job
                              /\ runner'[w].attempt = runner[w].attempt
    PROVE  BoardRunning' = BoardRunning
<1>1. \A w \in Workers : Holding(w)' <=> Holding(w)
  BY DEF Holding
<1>2. \A w \in Workers : Holding(w) => Attempt(w)' = Attempt(w)
  BY QueueFacts DEF Attempt
<1> QED  BY <1>1, <1>2 DEF BoardRunning

\* A runner that lets go ends the attempt it holds, and no other runs by its number.
LEMMA AttemptEnds ==
    ASSUME BoardInv, NEW w \in Workers, NEW r \in {Idle, Down},
           runner' = [runner EXCEPT ![w] = r], \A j \in JobIds : rows'[j].key = rows[j].key
    PROVE  /\ Holding(w) => Attempt(w) \in BoardRunning
                            /\ BoardRunning' = BoardRunning \ {Attempt(w)}
           /\ ~Holding(w) => BoardRunning' = BoardRunning
<1>1. r.job = 0
  BY DEF Idle, Down
<1>2. runner'[w] = r /\ \A v \in Workers \ {w} : runner'[v] = runner[v]
  BY DEF BoardInv, QueueInv, QueueTypeOK
<1>3. \A v \in Workers : Holding(v)' <=> Holding(v) /\ v # w
  BY <1>1, <1>2 DEF Holding
<1>4. \A v \in Workers \ {w} : Holding(v) => Attempt(v)' = Attempt(v)
  BY <1>2, QueueFacts DEF Attempt, BoardInv
<1>5. ASSUME NEW v \in Workers \ {w}, Holding(v), Holding(w)
      PROVE  Attempt(v) # Attempt(w)
  <2>1. runner[v].job \in JobIds /\ runner[w].job \in JobIds
    BY <1>5, QueueFacts DEF BoardInv
  <2>2. runner[v].job = runner[w].job => runner[v].attempt # runner[w].attempt
    BY <1>5 DEF BoardInv, QueueInv, ClaimsNumbered
  <2> QED  BY <2>1, <2>2 DEF Attempt, BoardInv, KeysUnique
<1>6. ASSUME Holding(w)
      PROVE  Attempt(w) \in BoardRunning /\ BoardRunning' = BoardRunning \ {Attempt(w)}
  <2>1. BoardRunning' = { Attempt(v)' : v \in { v \in Workers : Holding(v)' } }
    BY DEF BoardRunning
  <2>2. { Attempt(v)' : v \in { v \in Workers : Holding(v)' } }
          = { Attempt(v) : v \in { v \in Workers : Holding(v) /\ v # w } }
    BY <1>3, <1>4
  <2> QED  BY <1>5, <1>6, <2>1, <2>2 DEF BoardRunning
<1>7. ASSUME ~Holding(w) PROVE BoardRunning' = BoardRunning
  BY <1>3, <1>4, <1>7 DEF BoardRunning
<1> QED  BY <1>6, <1>7

\* Posting.
LEMMA EnqueuePosts ==
    ASSUME BoardInv, BoardInv', NEW k \in DedupeKeys, EnqueueJob(k)
    PROVE  Board!Post(k)
<1>1. Len(rows) \in Nat /\ JobIds = 1..Len(rows) /\ rows \in Seq(JobRow)
  BY QueueFacts DEF BoardInv
<1> PICK n \in Nat : n = Len(rows) + 1
  BY <1>1
<1>2. /\ JobIds' = 1..n /\ n \in JobIds'
      /\ rows'[n].key = k /\ rows'[n].status = "pending" /\ rows'[n].attempts = 0
      /\ \A j \in JobIds : rows'[j] = rows[j] /\ j \in JobIds'
  BY <1>1, AppendProperties, LenProperties DEF EnqueueJob, JobIds, JobRow, JobStatus
<1>3. \A j \in JobIds' : j \in JobIds \/ j = n
  BY <1>1, <1>2
<1>4. ~Enqueued(k)
  BY DEF EnqueueJob, Enqueued
<1>5. BoardState[k] = "absent" /\ BoardStarted[k] = 0
  BY <1>4 DEF BoardState, BoardStarted
<1>6. Enqueued(k)' /\ IdOf(k)' = n
  BY <1>2 DEF BoardInv, KeysUnique, IdOf, Enqueued
<1>7. BoardState'[k] = "open" /\ BoardStarted'[k] = 0
  BY <1>2, <1>6 DEF BoardState, BoardStarted, Seen, Terminal
<1>8. ASSUME NEW h \in DedupeKeys, h # k
      PROVE  BoardState'[h] = BoardState[h] /\ BoardStarted'[h] = BoardStarted[h]
  <2>1. CASE Enqueued(h)
    <3>1. PICK i \in JobIds : rows[i].key = h
      BY <2>1 DEF Enqueued
    <3>2. IdOf(h) = i /\ BoardState[h] = Seen(rows[i].status) /\ BoardStarted[h] = rows[i].attempts
      BY <3>1, RowOfKey
    <3>3. i \in JobIds' /\ rows'[i] = rows[i]
      BY <1>2
    <3>4. Enqueued(h)' /\ IdOf(h)' = i
      BY <3>1, <3>3 DEF BoardInv, KeysUnique, IdOf, Enqueued
    <3> QED  BY <3>2, <3>3, <3>4 DEF BoardState, BoardStarted, Seen
  <2>2. CASE ~Enqueued(h)
    <3>1. ~Enqueued(h)'
      BY <1>2, <1>3, <1>8, <2>2 DEF Enqueued
    <3> QED  BY <2>2, <3>1 DEF BoardState, BoardStarted
  <2> QED  BY <2>1, <2>2
<1>9. /\ DOMAIN BoardState = DedupeKeys /\ DOMAIN BoardState' = DedupeKeys
      /\ BoardState = [h \in DedupeKeys |-> BoardState[h]]
      /\ BoardState' = [h \in DedupeKeys |-> BoardState'[h]]
      /\ BoardStarted = [h \in DedupeKeys |-> BoardStarted[h]]
      /\ BoardStarted' = [h \in DedupeKeys |-> BoardStarted'[h]]
  BY DEF BoardState, BoardStarted
<1>10. BoardRunning' = BoardRunning
  <2>1. \A j \in JobIds : rows'[j].key = rows[j].key
    BY <1>2
  <2> QED  BY <2>1, RunningKept DEF EnqueueJob, BoardInv
<1> HIDE DEF BoardState, BoardStarted, BoardRunning
<1>11. BoardState' = [BoardState EXCEPT ![k] = "open"] /\ BoardStarted' = BoardStarted
  BY <1>5, <1>7, <1>8, <1>9
<1> QED  BY <1>5, <1>10, <1>11 DEF Board!Post

\* Claiming starts an attempt.
LEMMA ClaimStarts ==
    ASSUME BoardInv, BoardInv', NEW w \in Workers, ClaimJob(w)
    PROVE  \E k \in DedupeKeys : Board!Start(k)
<1> PICK j \in JobIds :
        /\ runner[w] = Idle
        /\ Claimable(rows[j])
        /\ rows' = [rows EXCEPT ![j] = ClaimedRow(@)]
        /\ runner' = [runner EXCEPT ![w] = [up |-> TRUE, job |-> j,
                                            attempt |-> rows'[j].attempts,
                                            lease |-> rows'[j].lease]]
  BY DEF ClaimJob
<1>1. /\ rows \in Seq(JobRow) /\ rows[j] \in JobRow /\ Len(rows) \in Nat /\ JobIds = 1..Len(rows)
  BY QueueFacts DEF BoardInv
<1>2. /\ JobIds' = JobIds /\ \A i \in JobIds \ {j} : rows'[i] = rows[i]
      /\ rows'[j].key = rows[j].key /\ rows'[j].status = "running"
      /\ rows'[j].attempts = rows[j].attempts + 1
  BY <1>1 DEF ClaimedRow, JobRow, JobIds
<1>3. Seen(rows[j].status) = "open" /\ Seen(rows'[j].status) = "open"
  BY <1>1, <1>2 DEF Claimable, Seen, Terminal
<1> PICK k \in DedupeKeys : k = rows[j].key
  BY RowOfKey
<1>4. BoardState[k] = "open" /\ BoardStarted[k] = rows[j].attempts
  BY <1>3, RowOfKey
<1>5. /\ BoardState' = [BoardState EXCEPT ![k] = "open"]
      /\ BoardStarted' = [BoardStarted EXCEPT ![k] = rows[j].attempts + 1]
  <2>1. /\ \A i \in JobIds : rows'[i].key = rows[i].key
        /\ \A i \in JobIds \ {j} : Seen(rows'[i].status) = Seen(rows[i].status)
                                   /\ rows'[i].attempts = rows[i].attempts
    BY <1>2
  <2> QED  BY <1>2, <1>3, <2>1, BoardRow
<1>6. BoardRunning' = BoardRunning \cup {<<k, rows[j].attempts + 1>>}
  <2>1. /\ \A v \in Workers \ {w} : runner'[v] = runner[v]
        /\ runner'[w].job = j /\ runner'[w].attempt = rows[j].attempts + 1
    BY <1>2 DEF BoardInv, QueueInv, QueueTypeOK
  <2>2. j # 0 /\ ~Holding(w) /\ Holding(w)'
    BY <1>1, <2>1 DEF Holding, Idle
  <2>3. \A v \in Workers \ {w} : Holding(v)' <=> Holding(v)
    BY <2>1 DEF Holding
  <2>4. \A v \in Workers \ {w} : Holding(v) => Attempt(v)' = Attempt(v)
    BY <1>2, <2>1, QueueFacts DEF Attempt, BoardInv
  <2>5. Attempt(w)' = <<k, rows[j].attempts + 1>>
    BY <1>2, <2>1 DEF Attempt
  <2> QED  BY <2>2, <2>3, <2>4, <2>5 DEF BoardRunning
<1>7. BoardState' = BoardState
  <2>1. BoardState = [h \in DedupeKeys |-> BoardState[h]]
    BY DEF BoardState
  <2> HIDE DEF BoardState
  <2> QED  BY <1>4, <1>5, <2>1
<1> QED
  BY <1>4, <1>5, <1>6, <1>7 DEF Board!Start

\* A result, accepted or not, ends the attempt.
LEMMA FinishEnds ==
    ASSUME BoardInv, BoardInv', [Next]_vars, NEW w \in Workers, Finish(w)
    PROVE  Board!End(Attempt(w)[1], Attempt(w)[2])
<1> DEFINE j == runner[w].job
           a == runner[w].attempt
<1>1. /\ rows \in Seq(JobRow) /\ Len(rows) \in Nat /\ JobIds = 1..Len(rows)
      /\ Holding(w) /\ j \in JobIds /\ rows[j] \in JobRow /\ a \in Nat
      /\ runner' = [runner EXCEPT ![w] = Idle]
  BY QueueFacts DEF BoardInv, Finish, CompleteJob, FailJob, FinishRefused, RunnerState
<1>2. JobIds' = JobIds /\ \A i \in JobIds : rows'[i].key = rows[i].key
  <2>1. \A k \in DedupeKeys : ~EnqueueJob(k)
    <3>1. runner' # runner
      <4>1. runner'[w] = Idle /\ Idle.job = 0
        BY <1>1 DEF BoardInv, QueueInv, QueueTypeOK, Idle
      <4> QED  BY <4>1, <1>1 DEF Holding
    <3> QED  BY <3>1 DEF EnqueueJob
  <2> QED  BY <2>1, KeysKept DEF BoardInv
<1>3. Attempt(w) \in BoardRunning /\ BoardRunning' = BoardRunning \ {Attempt(w)}
  BY <1>1, <1>2, AttemptEnds
<1> PICK k \in DedupeKeys : k = rows[j].key
  BY <1>1, RowOfKey
<1>4. Attempt(w) = <<k, a>> /\ Attempt(w)[1] = k /\ Attempt(w)[2] = a
  BY DEF Attempt
<1>5. BoardState[k] = Seen(rows[j].status) /\ BoardStarted[k] = rows[j].attempts
  BY <1>1, RowOfKey
<1>6. /\ BoardState = [h \in DedupeKeys |-> BoardState[h]]
      /\ BoardStarted = [h \in DedupeKeys |-> BoardStarted[h]]
  BY DEF BoardState, BoardStarted
<1>7. ASSUME \A i \in JobIds \ {j} : rows'[i] = rows[i], rows'[j].attempts = rows[j].attempts,
             NEW outcome, Seen(rows'[j].status) = outcome,
             \/ outcome = Seen(rows[j].status)
             \/ Seen(rows[j].status) = "open" /\ outcome \in {"succeeded", "dead"}
                  /\ Board!MaySettle(a, outcome)
      PROVE  Board!End(Attempt(w)[1], Attempt(w)[2])
  <2>1. /\ BoardState' = [BoardState EXCEPT ![k] = outcome]
        /\ BoardStarted' = [BoardStarted EXCEPT ![k] = rows[j].attempts]
    <3>1. \A i \in JobIds \ {j} : Seen(rows'[i].status) = Seen(rows[i].status)
                                  /\ rows'[i].attempts = rows[i].attempts
      BY <1>7
    <3> QED  BY <1>1, <1>2, <1>7, <3>1, BoardRow
  <2> HIDE DEF BoardState, BoardStarted
  <2>2. BoardStarted' = BoardStarted
    BY <1>5, <1>6, <2>1
  <2>3. outcome = Seen(rows[j].status) => BoardState' = BoardState
    BY <1>5, <1>6, <2>1
  <2> QED  BY <1>3, <1>4, <1>5, <1>7, <2>1, <2>2, <2>3 DEF Board!End
<1>8. CASE CompleteJob(w)
  <2>1. /\ rows' = [rows EXCEPT ![j] = CompletedRow(rows[j])]
        /\ rows[j].status = "running"
    BY <1>8 DEF CompleteJob, MayFinish
  <2>2. /\ \A i \in JobIds \ {j} : rows'[i] = rows[i]
        /\ rows'[j].attempts = rows[j].attempts /\ rows'[j].status = "succeeded"
    BY <1>1, <2>1 DEF CompletedRow, JobRow
  <2> QED  BY <1>7, <2>1, <2>2 DEF Seen, Terminal, Board!MaySettle
<1>9. CASE FailJob(w)
  <2>1. /\ rows' = [rows EXCEPT ![j] = FailedRow(rows[j], FailedStatus(a), retryBackoff(a))]
        /\ rows[j].status = "running"
    BY <1>9 DEF FailJob, MayFinish
  <2>2. /\ \A i \in JobIds \ {j} : rows'[i] = rows[i]
        /\ rows'[j].attempts = rows[j].attempts /\ rows'[j].status = FailedStatus(a)
    BY <1>1, <2>1 DEF FailedRow, JobRow
  <2> QED  BY <1>1, <1>7, <2>1, <2>2 DEF Seen, Terminal, FailedStatus, Board!MaySettle
<1>10. CASE FinishRefused(w)
  <2>1. rows' = rows
    BY <1>10 DEF FinishRefused
  <2> QED  BY <1>7, <2>1
<1> QED
  BY <1>8, <1>9, <1>10 DEF Finish

\* Rows that keep their status and attempts show the same board.
LEMMA BoardKept ==
    ASSUME BoardInv, JobIds' = JobIds,
           \A j \in JobIds : /\ rows'[j].key = rows[j].key
                             /\ rows'[j].status = rows[j].status
                             /\ rows'[j].attempts = rows[j].attempts
    PROVE  BoardState' = BoardState /\ BoardStarted' = BoardStarted
<1>1. ASSUME NEW k \in DedupeKeys
      PROVE  /\ Enqueued(k)' <=> Enqueued(k)
             /\ Enqueued(k) => /\ IdOf(k)' = IdOf(k) /\ IdOf(k) \in JobIds
                               /\ rows'[IdOf(k)].status = rows[IdOf(k)].status
                               /\ rows'[IdOf(k)].attempts = rows[IdOf(k)].attempts
  <2>1. Enqueued(k)' <=> Enqueued(k)
    BY DEF Enqueued
  <2>2. ASSUME Enqueued(k)
        PROVE  /\ IdOf(k)' = IdOf(k) /\ IdOf(k) \in JobIds
               /\ rows'[IdOf(k)].status = rows[IdOf(k)].status
               /\ rows'[IdOf(k)].attempts = rows[IdOf(k)].attempts
    <3>1. PICK i \in JobIds : rows[i].key = k
      BY <2>2 DEF Enqueued
    <3>2. IdOf(k) = i
      BY <3>1, RowOfKey
    <3>3. IdOf(k)' = i
      BY <3>1 DEF BoardInv, KeysUnique, IdOf
    <3> QED  BY <3>2, <3>3
  <2> QED  BY <2>1, <2>2
<1> QED  BY <1>1 DEF BoardState, BoardStarted, Seen

LEMMA BoardStep == BoardInv /\ BoardInv' /\ [Next]_vars => [Board!Next]_Board!board
<1> SUFFICES ASSUME BoardInv, BoardInv', [Next]_vars PROVE [Board!Next]_Board!board
  OBVIOUS
<1>1. ASSUME NEW k \in DedupeKeys, EnqueueJob(k) PROVE Board!Next
  BY <1>1, EnqueuePosts DEF Board!Next
<1>2. ASSUME NEW w \in Workers, ClaimJob(w) PROVE Board!Next
  BY <1>2, ClaimStarts DEF Board!Next
<1>3. ASSUME NEW w \in Workers, Finish(w) PROVE Board!Next
  <2>1. Holding(w)
    BY <1>3 DEF Finish, CompleteJob, FailJob, FinishRefused
  <2>2. Attempt(w) \in BoardRunning
    BY <2>1 DEF BoardRunning
  <2> QED  BY <1>3, <2>2, FinishEnds DEF Board!Next
<1>4. ASSUME NEW w \in Workers, Stop(w) \/ LoseResult(w) \/ Restart(w)
      PROVE  Board!Next \/ UNCHANGED Board!board
  <2>1. PICK r \in {Idle, Down} : runner' = [runner EXCEPT ![w] = r] /\ rows' = rows
    BY <1>4 DEF Stop, LoseResult, Restart
  <2>2. BoardState' = BoardState /\ BoardStarted' = BoardStarted
    BY <2>1, BoardKept DEF JobIds
  <2>3. CASE ~Holding(w)
    BY <2>1, <2>2, <2>3, AttemptEnds DEF Board!board
  <2>4. CASE Holding(w)
    <3>1. Attempt(w) \in BoardRunning /\ BoardRunning' = BoardRunning \ {Attempt(w)}
      BY <2>1, <2>4, AttemptEnds
    <3>2. Attempt(w) = <<Attempt(w)[1], Attempt(w)[2]>>
      BY DEF Attempt
    <3>3. Board!End(Attempt(w)[1], Attempt(w)[2])
      BY <2>2, <3>1, <3>2 DEF Board!End
    <3> QED  BY <3>1, <3>3 DEF Board!Next
  <2> QED  BY <2>3, <2>4
<1>5. CASE Tick
  <2>1. /\ JobIds' = JobIds
        /\ \A j \in JobIds : /\ rows'[j].key = rows[j].key
                             /\ rows'[j].status = rows[j].status
                             /\ rows'[j].attempts = rows[j].attempts
    BY <1>5, QueueFacts DEF Tick, JobIds, JobRow, BoardInv
  <2>2. \A w \in Workers : runner'[w].job = runner[w].job /\ runner'[w].attempt = runner[w].attempt
    BY <1>5, QueueFacts DEF Tick, RunnerState, BoardInv
  <2>3. BoardRunning' = BoardRunning
    BY <2>1, <2>2, RunningKept DEF BoardInv
  <2> QED  BY <2>1, <2>3, BoardKept DEF Board!board
<1>6. CASE UNCHANGED vars
  <2>1. BoardRunning' = BoardRunning
    BY <1>6, RunningKept DEF vars, BoardInv
  <2> QED  BY <1>6, <2>1, BoardKept DEF vars, JobIds, Board!board
<1> QED
  BY <1>1, <1>2, <1>3, <1>4, <1>5, <1>6 DEF Next

\* Runners that outlive their leases, results that come too late and processes that
\* stop do nothing to a job that JobAttempts would not allow.
THEOREM QueueImplementsAttempts == Spec => ImplementsAttempts
<1>1. Init => Board!Init
  <2> SUFFICES ASSUME Init PROVE Board!Init
    OBVIOUS
  <2>1. \A k \in DedupeKeys : ~Enqueued(k)
    BY DEF Init, Enqueued, JobIds
  <2>2. \A w \in Workers : ~Holding(w)
    BY DEF Init, Holding, Idle
  <2> QED  BY <2>1, <2>2 DEF Board!Init, BoardState, BoardStarted, BoardRunning
<1> QED
  BY <1>1, BoardStep, BoardInvariant, PTL DEF Spec, ImplementsAttempts, Board!Spec
=============================================================================
