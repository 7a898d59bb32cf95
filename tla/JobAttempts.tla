----------------------------- MODULE JobAttempts -----------------------------
(***************************************************************************)
(* What the job queue promises whoever enqueues a job, without rows,       *)
(* leases, backoffs, runners or handlers: a job is posted once, attempted  *)
(* only while it is open, settled once by one of its attempts, and given   *)
(* up by none but the MaxAttempts-th or a later one.  Attempts may overlap *)
(* and may end without a word.                                             *)
(***************************************************************************)
EXTENDS Naturals

CONSTANTS
    Jobs,
    MaxAttempts

VARIABLES
    state,     \* of each job: "absent", "open", "succeeded" or "dead"
    started,   \* number of attempts of each job
    running    \* pairs of a job and the number of an attempt that has not ended

board == <<state, started, running>>

Init ==
    /\ state = [j \in Jobs |-> "absent"]
    /\ started = [j \in Jobs |-> 0]
    /\ running = {}

Post(j) ==
    /\ state[j] = "absent"
    /\ state' = [state EXCEPT ![j] = "open"]
    /\ UNCHANGED <<started, running>>

Start(j) ==
    /\ state[j] = "open"
    /\ started' = [started EXCEPT ![j] = @ + 1]
    /\ running' = running \cup {<<j, started[j] + 1>>}
    /\ UNCHANGED state

\* What an attempt may settle its job as when it ends.
MaySettle(attempt, outcome) ==
    \/ outcome = "succeeded"
    \/ outcome = "dead" /\ attempt >= MaxAttempts

\* Attempt a of job j ends and settles the job, or leaves it as it is: it failed
\* early, came too late, or was lost.
End(j, a) ==
    /\ <<j, a>> \in running
    /\ running' = running \ {<<j, a>>}
    /\ \/ UNCHANGED state
       \/ /\ state[j] = "open"
          /\ \E outcome \in {"succeeded", "dead"} :
                MaySettle(a, outcome) /\ state' = [state EXCEPT ![j] = outcome]
    /\ UNCHANGED started

Next ==
    \/ \E j \in Jobs : Post(j) \/ Start(j)
    \/ \E e \in running : End(e[1], e[2])

Spec == Init /\ [][Next]_board
=============================================================================
