---------------------------- MODULE WorkerQueue ----------------------------
(***************************************************************************)
(* The durable job queue: table worker_jobs (repository/jobs.go) and the   *)
(* runners that claim jobs with a lease, run their handlers and complete   *)
(* or fail them (worker/runner.go).  Each process of cmd/server runs one   *)
(* runner on the shared database file.                                     *)
(*                                                                         *)
(* Times are kept as what is left of them, in seconds: row.wait until      *)
(* available_at is reached, row.lease until lease_until is passed.  Zero   *)
(* means reached, passed, or NULL, and Tick counts down.  So that the      *)
(* order of available_at is not lost when it is in the past, the relation  *)
(* ahead keeps it.                                                         *)
(***************************************************************************)
EXTENDS Integers, Sequences, FiniteSets

CONSTANTS
    Workers,       \* the processes that run a runner
    DedupeKeys,    \* worker_jobs.dedupe_key, one per closure or maintenance hour
    MaxAttempts,   \* config.WorkerMaxAttempts
    Lease,         \* config.WorkerLease
    MaxFaults      \* bound on crashes, shutdowns and lost results

ASSUME QueueAssumption ==
    /\ IsFiniteSet(Workers)
    /\ MaxAttempts \in Nat \ {0}
    /\ Lease \in Nat \ {0}
    /\ MaxFaults \in Nat

VARIABLES
    rows,    \* rows of worker_jobs, indexed by their AUTOINCREMENT id
    ahead,   \* <<i, j>>: row i comes before row j in ORDER BY available_at, id
    runner,  \* each process's runner: the job it holds, as it claimed it
    faults   \* number of faults so far

vars == <<rows, ahead, runner, faults>>

JobStatus == {"pending", "running", "retry", "succeeded", "dead"}
Terminal  == {"succeeded", "dead"}

JobRow == [key : DedupeKeys, status : JobStatus, attempts : Nat, wait : Nat, lease : Nat]

\* job is 0 when the runner holds none; attempt and lease are the fields of the
\* job as claimed, which nothing refreshes while the handler runs.
RunnerState == [up : BOOLEAN, job : Nat, attempt : Nat, lease : Nat]

Idle == [up |-> TRUE,  job |-> 0, attempt |-> 0, lease |-> 0]
Down == [up |-> FALSE, job |-> 0, attempt |-> 0, lease |-> 0]

JobIds == DOMAIN rows

Init ==
    /\ rows = << >>
    /\ ahead = {}
    /\ runner = [w \in Workers |-> Idle]
    /\ faults = 0

-----------------------------------------------------------------------------
(* Slips the runs are known to notice, as in SlotLedger.                   *)

Claimable_NoReclaim(row) == row.wait = 0 /\ row.status \in {"pending", "retry"}

ClaimedRow_SameAttempt(row) == [row EXCEPT !.status = "running", !.lease = Lease + 1]

MayFinish_Always(row) == row.status \in JobStatus

FailedStatus_OneEarly(attempt) == IF attempt + 1 >= MaxAttempts THEN "dead" ELSE "retry"
FailedStatus_OneLate(attempt)  == IF attempt > MaxAttempts THEN "dead" ELSE "retry"

FailedRow_KeepsLease(row, status, wait) == [row EXCEPT !.status = status, !.wait = wait]

-----------------------------------------------------------------------------
retryBackoff(attempt) ==
    << 1, 2, 4, 8, 16, 32 >>[IF attempt < 1 THEN 1 ELSE IF attempt > 6 THEN 6 ELSE attempt]

\* The order of available_at and id once row j becomes available after wait.
Reordered(j, wait) ==
    LET earlier(i) == rows[i].wait < wait \/ (rows[i].wait = wait /\ i < j) IN
    { p \in ahead : p[1] # j /\ p[2] # j }
        \cup { <<i, j>> : i \in { i \in JobIds \ {j} : earlier(i) } }
        \cup { <<j, i>> : i \in { i \in JobIds \ {j} : ~earlier(i) } }

\* A job whose dedupe key is in the table already is not inserted again.
EnqueueJob(k) ==
    /\ \A i \in JobIds : rows[i].key # k
    /\ rows' = Append(rows, [key |-> k, status |-> "pending", attempts |-> 0,
                             wait |-> 0, lease |-> 0])
    /\ ahead' = Reordered(Len(rows) + 1, 0)
    /\ UNCHANGED <<runner, faults>>

\* A running job may be claimed when its lease is over, whatever its attempts.
Claimable(row) ==
    /\ row.wait = 0
    /\ row.status \in {"pending", "retry"} \/ (row.status = "running" /\ row.lease = 0)

\* lease_until < now holds one second after the lease's last.
ClaimedRow(row) ==
    [row EXCEPT !.status = "running", !.attempts = @ + 1, !.lease = Lease + 1]

ClaimJob(w) ==
    \E j \in JobIds :
        /\ runner[w] = Idle
        /\ Claimable(rows[j])
        /\ \A i \in JobIds : Claimable(rows[i]) => <<i, j>> \notin ahead
        /\ rows' = [rows EXCEPT ![j] = ClaimedRow(@)]
        /\ runner' = [runner EXCEPT ![w] = [up |-> TRUE, job |-> j,
                                            attempt |-> rows'[j].attempts,
                                            lease |-> rows'[j].lease]]
        /\ UNCHANGED <<ahead, faults>>

Holding(w) == runner[w].job # 0

\* CompleteJob and FailJob ask for a running row, not for the caller's attempt.
MayFinish(row) == row.status = "running"

CompletedRow(row) == [row EXCEPT !.status = "succeeded", !.lease = 0]

FailedStatus(attempt) == IF attempt >= MaxAttempts THEN "dead" ELSE "retry"

FailedRow(row, status, wait) == [row EXCEPT !.status = status, !.wait = wait, !.lease = 0]

\* The handler returned nil.
CompleteJob(w) ==
    LET j == runner[w].job IN
    /\ Holding(w)
    /\ MayFinish(rows[j])
    /\ rows' = [rows EXCEPT ![j] = CompletedRow(@)]
    /\ runner' = [runner EXCEPT ![w] = Idle]
    /\ UNCHANGED <<ahead, faults>>

\* The handler returned an error.
FailJob(w) ==
    LET j == runner[w].job
        backoff == retryBackoff(runner[w].attempt) IN
    /\ Holding(w)
    /\ MayFinish(rows[j])
    /\ rows' = [rows EXCEPT ![j] = FailedRow(@, FailedStatus(runner[w].attempt), backoff)]
    /\ ahead' = Reordered(j, backoff)
    /\ runner' = [runner EXCEPT ![w] = Idle]
    /\ UNCHANGED faults

\* Whatever the handler returned, another runner has finished the job: the
\* conditional update changes nothing and HandleOnce returns the conflict.
FinishRefused(w) ==
    /\ Holding(w)
    /\ ~MayFinish(rows[runner[w].job])
    /\ runner' = [runner EXCEPT ![w] = Idle]
    /\ UNCHANGED <<rows, ahead, faults>>

Fault == faults < MaxFaults /\ faults' = faults + 1

\* The process crashes, or is told to stop: then the handler and FailJob see a
\* cancelled context and the row stays as it is.
Stop(w) ==
    /\ runner[w].up
    /\ Fault
    /\ runner' = [runner EXCEPT ![w] = Down]
    /\ UNCHANGED <<rows, ahead>>

\* CompleteJob or FailJob fails (SQLITE_BUSY, an I/O error): the runner goes on
\* without the job, whose row stays running.
LoseResult(w) ==
    /\ Holding(w)
    /\ Fault
    /\ runner' = [runner EXCEPT ![w] = Idle]
    /\ UNCHANGED <<rows, ahead>>

Restart(w) ==
    /\ ~runner[w].up
    /\ runner' = [runner EXCEPT ![w] = Idle]
    /\ UNCHANGED <<rows, ahead, faults>>

Less(n) == IF n = 0 THEN 0 ELSE n - 1

Tick ==
    /\ rows' = [j \in JobIds |-> [rows[j] EXCEPT !.wait = Less(@), !.lease = Less(@)]]
    /\ runner' = [w \in Workers |-> [runner[w] EXCEPT !.lease = Less(@)]]
    /\ UNCHANGED <<ahead, faults>>

-----------------------------------------------------------------------------
Finish(w) == CompleteJob(w) \/ FailJob(w) \/ FinishRefused(w)

Next ==
    \/ \E k \in DedupeKeys : EnqueueJob(k)
    \/ \E w \in Workers : ClaimJob(w) \/ Finish(w) \/ Stop(w) \/ LoseResult(w) \/ Restart(w)
    \/ Tick

\* Run polls for ever, a handler returns, a stopped process is started again
\* by whoever runs it, and time passes.
Fairness ==
    /\ \A w \in Workers : WF_vars(ClaimJob(w)) /\ WF_vars(Finish(w)) /\ WF_vars(Restart(w))
    /\ WF_vars(Tick)

Spec     == Init /\ [][Next]_vars
FairSpec == Spec /\ Fairness

-----------------------------------------------------------------------------
\* Rows and runners are of their types, and a lease is set only while running.
QueueTypeOK ==
    /\ rows \in Seq(JobRow)
    /\ \A j \in JobIds : rows[j].lease > 0 => rows[j].status = "running"
    /\ ahead \subseteq JobIds \X JobIds
    /\ runner \in [Workers -> RunnerState]
    /\ \A w \in Workers : Holding(w) => runner[w].up /\ runner[w].job \in JobIds
    /\ faults \in 0..MaxFaults

\* Every claim has an attempt number of its own: two runners that hold the same
\* job, one of them for longer than its lease, never took it as the same attempt,
\* and the row counts at least as many attempts as any of them.
ClaimsNumbered ==
    \A v, w \in Workers :
        Holding(v) =>
            /\ runner[v].attempt \in 1..rows[runner[v].job].attempts
            /\ v # w /\ runner[w].job = runner[v].job => runner[w].attempt # runner[v].attempt

\* A job is given up only after all its attempts, though FailJob decides by the
\* attempt of a runner that may have lost the job long ago.
DeadAfterAllAttempts ==
    \A j \in JobIds : rows[j].status = "dead" => rows[j].attempts >= MaxAttempts

\* 2 + 3 + ... + n
LateClaims(n) == ((n * (n + 1)) \div 2) - 1

\* Reclaiming does not look at max_attempts.  Still a job is attempted only as
\* often as configured, once more for each fault, and, of n runners, at most
\* 2 + 3 + ... + n times more: each but one can hold the job beyond its lease with
\* an early attempt and put it back to retry when a later attempt should have
\* settled it, and every runner that is free by then may claim it again.
AttemptsBounded ==
    \A j \in JobIds :
        rows[j].attempts <= MaxAttempts + faults + LateClaims(Cardinality(Workers))

\* The lease is exclusive: two runners never hold one job both within their leases.
LeaseExclusive ==
    \A v, w \in Workers :
        /\ v # w /\ Holding(v) /\ runner[w].job = runner[v].job
        => runner[v].lease = 0 \/ runner[w].lease = 0

\* A job that succeeded or died keeps its row: no late result and no claim
\* changes it any more, and terminal failures are retained.
TerminalStays ==
    [][\A j \in JobIds : rows[j].status \in Terminal =>
          /\ rows'[j].status = rows[j].status
          /\ rows'[j].attempts = rows[j].attempts]_vars

\* Every job is settled at last, whatever crashed while it ran.
Settles == \A j \in 1..Cardinality(DedupeKeys) :
    (j \in JobIds) ~> (j \in JobIds /\ rows[j].status \in Terminal)

-----------------------------------------------------------------------------
(* The queue implements the promise of JobAttempts.                        *)

IdOf(k) == CHOOSE j \in JobIds : rows[j].key = k

Enqueued(k) == \E j \in JobIds : rows[j].key = k

\* Waiting for its time, for a runner or for its lease: an open job all the same.
Seen(status) == IF status \in Terminal THEN status ELSE "open"

BoardState   == [k \in DedupeKeys |-> IF Enqueued(k) THEN Seen(rows[IdOf(k)].status) ELSE "absent"]
BoardStarted == [k \in DedupeKeys |-> IF Enqueued(k) THEN rows[IdOf(k)].attempts ELSE 0]

Attempt(w)   == <<rows[runner[w].job].key, runner[w].attempt>>
BoardRunning == { Attempt(w) : w \in { w \in Workers : Holding(w) } }

Board == INSTANCE JobAttempts WITH
    Jobs <- DedupeKeys, state <- BoardState, started <- BoardStarted, running <- BoardRunning

\* Whatever outlives its lease, comes too late or gets lost, a job is posted once
\* per dedupe key, settled once and for good by an attempt of its own, and given
\* up by no early one.
ImplementsAttempts == Board!Spec
=============================================================================
