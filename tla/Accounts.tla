------------------------------ MODULE Accounts ------------------------------
(***************************************************************************)
(* The processes of the service (cmd/server): how they start on one        *)
(* database file, the accounts they create, the sessions they open and     *)
(* accept, and the maintenance job each start enqueues.                    *)
(*                                                                         *)
(* A start is a sequence of statements and short transactions that other   *)
(* processes and crashes come between.  The job queue is WorkerQueue       *)
(* without its clock, as in ClosureWorker.                                 *)
(***************************************************************************)
EXTENDS PersistedTime, Sequences, FiniteSets

CONSTANTS
    Processes,
    Emails,           \* normalised addresses
    Configured,       \* addresses each process may be configured with
    Provisioned,      \* <<email, role>> pairs operators ask CreateUser for
    Windows,          \* <<from, until>> pairs they ask AuthorizeGuardian for
    SessionTTL,       \* config.SessionTTL, in seconds
    Hour,             \* seconds in an hour
    MaxAttempts,      \* config.WorkerMaxAttempts
    Moments,          \* bound: the times the clock of the instance shows
    MaxSessions, MaxFaults   \* bounds of the checked instance

Role == {"student", "guardian", "operator", "coach"}

ASSUME AccountsAssumption ==
    /\ Configured \in [Processes -> SUBSET Emails]
    /\ Provisioned \subseteq Emails \X Role
    /\ Windows \subseteq Nat \X Nat
    /\ SessionTTL \in Nat \ {0} /\ Hour \in Nat \ {0} /\ MaxAttempts \in Nat \ {0}
    /\ Moments \subseteq Instant /\ MaxSessions \in Nat /\ MaxFaults \in Nat

VARIABLES
    tables,          \* does the schema exist?
    recorded,        \* is its migration in schema_migrations?
    users,           \* the role of each address in users, or "none"
    coaches,         \* addresses with a row in coaches
    authorizations,  \* rows of guardian_authorizations
    sessions,        \* rows of sessions, by id
    maintenance,     \* status of each hour's session_maintenance job, or "absent"
    attempts,        \* its attempts
    process,         \* how far each process has come
    now,             \* the clock of the services
    faults           \* number of crashes, lost results and overrun leases so far

accounts == <<users, coaches, authorizations>>
jobRows  == <<maintenance, attempts>>
vars == <<tables, recorded, accounts, sessions, jobRows, process, now, faults>>

HourOf(t) == t.sec \div Hour
Hours     == { HourOf(t) : t \in Moments }

SessionRow    == [user : Emails, expires : Instant, revoked : BOOLEAN]
Authorization == [guardian : Emails, student : Emails, from : Nat, until : Nat]

JobStatus == {"absent", "pending", "running", "retry", "succeeded", "dead"}

\* While it is up a process has a runner: job is the hour it holds the job of.
ProcessState == [pc : {"down", "check", "apply", "look", "create", "enqueue", "up"},
                 email : Emails, step : {"idle", "sweep", "complete", "fail"},
                 job : Nat, attempt : Nat]

Init ==
    /\ tables = FALSE /\ recorded = FALSE
    /\ users = [e \in Emails |-> "none"]
    /\ coaches = {} /\ authorizations = {}
    /\ sessions = << >>
    /\ maintenance = [h \in Hours |-> "absent"] /\ attempts = [h \in Hours |-> 0]
    /\ process \in [Processes -> [pc : {"down"}, email : Emails, step : {"idle"},
                                  job : {0}, attempt : {0}]]
    /\ \A p \in Processes : process[p].email \in Configured[p]
    /\ now \in Moments /\ \A t \in Moments : ~Before(t, now)
    /\ faults = 0

At(p, pc)   == process[p].pc = pc
Goto(p, pc) == process' = [process EXCEPT ![p].pc = pc]
Fault       == faults < MaxFaults /\ faults' = faults + 1

-----------------------------------------------------------------------------
(* Slips the run is known to notice, here and before the definition they   *)
(* are a slip of.                                                          *)

Apply_NoTransaction(p) ==
    /\ At(p, "apply")
    /\ \/ tables /\ Goto(p, "down") /\ UNCHANGED <<tables, recorded, faults>>
       \/ ~tables /\ tables' = TRUE /\ recorded' = TRUE /\ Goto(p, "look") /\ UNCHANGED faults
       \/ ~tables /\ tables' = TRUE /\ Goto(p, "down") /\ Fault /\ UNCHANGED recorded
    /\ UNCHANGED <<accounts, sessions, jobRows, now>>

Enqueued_Again(h) == [maintenance EXCEPT ![h] = "pending"]

Claimed_Finished(h) == [maintenance EXCEPT ![h] = "succeeded"]

RolesMatch_GuardianOnly(g, st) == users[g] = "guardian"

Accepts_ExpiredToo(i) == ~sessions[i].revoked

-----------------------------------------------------------------------------
(* Start-up: database.ApplyMigrations, auth.EnsureBootstrapOperator and    *)
(* worker.EnqueueSessionMaintenance.  An error ends the process.           *)

\* Somebody starts the process, with the address of its environment.
Start(p) ==
    /\ At(p, "down")
    /\ Goto(p, "check")
    /\ UNCHANGED <<tables, recorded, accounts, sessions, jobRows, now, faults>>

\* migrationApplied, outside the transaction that applies.
Check(p) ==
    /\ At(p, "check")
    /\ Goto(p, IF recorded THEN "look" ELSE "apply")
    /\ UNCHANGED <<tables, recorded, accounts, sessions, jobRows, now, faults>>

\* applyOne: the schema and its record in one transaction.  CREATE TABLE fails
\* when another process has been faster.
Apply(p) ==
    /\ At(p, "apply")
    /\ \/ tables /\ Goto(p, "down") /\ UNCHANGED <<tables, recorded>>
       \/ ~tables /\ tables' = TRUE /\ recorded' = TRUE /\ Goto(p, "look")
    /\ UNCHANGED <<accounts, sessions, jobRows, now, faults>>

\* UserByEmail finds whoever has the address, of whatever role.
HasAccount(e) == users[e] # "none"

Look(p) ==
    /\ At(p, "look")
    /\ Goto(p, IF HasAccount(process[p].email) THEN "enqueue" ELSE "create")
    /\ UNCHANGED <<tables, recorded, accounts, sessions, jobRows, now, faults>>

\* The address is unique: the insert fails when somebody created it meanwhile.
CreateOperator(p) ==
    LET e == process[p].email IN
    /\ At(p, "create")
    /\ \/ users[e] # "none" /\ Goto(p, "down") /\ UNCHANGED users
       \/ users[e] = "none" /\ Goto(p, "enqueue") /\ users' = [users EXCEPT ![e] = "operator"]
    /\ UNCHANGED <<tables, recorded, coaches, authorizations, sessions, jobRows, now, faults>>

\* EnqueueJob leaves a job with the same dedupe key, the hour of the start, alone.
Enqueued(h) == [maintenance EXCEPT ![h] = IF @ = "absent" THEN "pending" ELSE @]

Enqueue(p) ==
    /\ At(p, "enqueue")
    /\ Goto(p, "up")
    /\ maintenance' = Enqueued(HourOf(now))
    /\ UNCHANGED <<tables, recorded, accounts, sessions, attempts, now, faults>>

-----------------------------------------------------------------------------
(* Requests, which a process that is up serves.                            *)

Serving == \E p \in Processes : At(p, "up")

Accepts(i) == ~sessions[i].revoked /\ TextBefore(now, sessions[i].expires)

\* A request that was let in for operator e runs to its end, also when e logs
\* out or the session expires meanwhile.
ByOperator ==
    Serving /\ \E i \in DOMAIN sessions : users[sessions[i].user] = "operator"

\* identity.Service.CreateUser: a coach gets a row in coaches as well.
CreateUser(e, role) ==
    /\ ByOperator
    /\ users[e] = "none"
    /\ users' = [users EXCEPT ![e] = role]
    /\ coaches' = IF role = "coach" THEN coaches \cup {e} ELSE coaches
    /\ UNCHANGED <<tables, recorded, authorizations, sessions, jobRows, process, now, faults>>

RolesMatch(g, st) == users[g] = "guardian" /\ users[st] = "student"

AuthorizeGuardian(g, st, from, until) ==
    /\ ByOperator
    /\ RolesMatch(g, st)
    /\ from < until
    /\ ~ \E x \in authorizations : x.guardian = g /\ x.student = st /\ x.from = from
    /\ authorizations' = authorizations \cup
          {[guardian |-> g, student |-> st, from |-> from, until |-> until]}
    /\ UNCHANGED <<tables, recorded, users, coaches, sessions, jobRows, process, now, faults>>

\* auth.Service.Login, with the right password.
Login(e) ==
    /\ Serving
    /\ users[e] # "none"
    /\ Len(sessions) < MaxSessions
    /\ sessions' = Append(sessions, [user |-> e, revoked |-> FALSE,
                                     expires |-> Later(now, SessionTTL)])
    /\ UNCHANGED <<tables, recorded, accounts, jobRows, process, now, faults>>

\* auth.Service.Logout, of a session that was accepted when the request came in.
Logout(i) ==
    /\ Serving
    /\ ~sessions[i].revoked
    /\ sessions' = [sessions EXCEPT ![i].revoked = TRUE]
    /\ UNCHANGED <<tables, recorded, accounts, jobRows, process, now, faults>>

-----------------------------------------------------------------------------
(* The runner and the maintenance job.                                     *)

Holders(h) == { p \in Processes : process[p].step # "idle" /\ process[p].job = h }

Claimed(h) == [maintenance EXCEPT ![h] = "running"]

\* A job that is running may be claimed again when its holder is gone; a lease
\* that ends under a holder counts as a fault.
Claim(p, h) ==
    /\ At(p, "up") /\ process[p].step = "idle"
    /\ \/ maintenance[h] \in {"pending", "retry"} /\ UNCHANGED faults
       \/ maintenance[h] = "running" /\ Holders(h) = {} /\ UNCHANGED faults
       \/ maintenance[h] = "running" /\ Holders(h) # {} /\ Fault
    /\ maintenance' = Claimed(h)
    /\ attempts' = [attempts EXCEPT ![h] = @ + 1]
    /\ process' = [process EXCEPT ![p].step = "sweep", ![p].job = h, ![p].attempt = attempts'[h]]
    /\ UNCHANGED <<tables, recorded, accounts, sessions, now>>

\* RevokeExpiredSessions, one statement.
ExpiredRows(t) == { i \in DOMAIN sessions : ~sessions[i].revoked /\ TextUpTo(sessions[i].expires, t) }

RevokeExpired(p) ==
    /\ process[p].step = "sweep"
    /\ sessions' = [i \in DOMAIN sessions |->
                       IF i \in ExpiredRows(now) THEN [sessions[i] EXCEPT !.revoked = TRUE]
                                                 ELSE sessions[i]]
    /\ process' = [process EXCEPT ![p].step = "complete"]
    /\ UNCHANGED <<tables, recorded, accounts, jobRows, now, faults>>

\* ... which may fail (SQLITE_BUSY, an I/O error), as often as there are attempts.
FailToRevoke(p) ==
    /\ process[p].step = "sweep"
    /\ process' = [process EXCEPT ![p].step = "fail"]
    /\ UNCHANGED <<tables, recorded, accounts, sessions, jobRows, now, faults>>

Unoccupied(r) == [r EXCEPT !.step = "idle", !.job = 0, !.attempt = 0]

\* CompleteJob and FailJob: only a running row is changed.
Settle(p, status) ==
    /\ maintenance' = [maintenance EXCEPT ![process[p].job] = IF @ = "running" THEN status ELSE @]
    /\ process' = [process EXCEPT ![p] = Unoccupied(@)]
    /\ UNCHANGED <<tables, recorded, accounts, sessions, attempts, now, faults>>

Complete(p) == process[p].step = "complete" /\ Settle(p, "succeeded")

Fail(p) ==
    /\ process[p].step = "fail"
    /\ Settle(p, IF process[p].attempt >= MaxAttempts THEN "dead" ELSE "retry")

\* The result cannot be written: the row stays running.
LoseResult(p) ==
    /\ process[p].step \in {"complete", "fail"}
    /\ Fault
    /\ process' = [process EXCEPT ![p] = Unoccupied(@)]
    /\ UNCHANGED <<tables, recorded, accounts, sessions, jobRows, now>>

-----------------------------------------------------------------------------
\* The process stops, wherever it is; what it holds of a job is lost.
Crash(p) ==
    /\ ~At(p, "down")
    /\ Fault
    /\ process' = [process EXCEPT ![p] = [Unoccupied(@) EXCEPT !.pc = "down"]]
    /\ UNCHANGED <<tables, recorded, accounts, sessions, jobRows, now>>

Tick ==
    /\ \E t \in Moments : Before(now, t) /\ now' = t
    /\ UNCHANGED <<tables, recorded, accounts, sessions, jobRows, process, faults>>

StartStep(p)  == Start(p) \/ Check(p) \/ Apply(p) \/ Look(p) \/ CreateOperator(p) \/ Enqueue(p)
RunnerStep(p) == (\E h \in Hours : Claim(p, h)) \/ RevokeExpired(p) \/ Complete(p) \/ Fail(p)
FaultStep(p)  == Crash(p) \/ FailToRevoke(p) \/ LoseResult(p)

RequestStep ==
    \/ \E x \in Provisioned : CreateUser(x[1], x[2])
    \/ \E g, st \in Emails, w \in Windows : AuthorizeGuardian(g, st, w[1], w[2])
    \/ \E e \in Emails : Login(e)
    \/ \E i \in DOMAIN sessions : Logout(i)

Next == (\E p \in Processes : StartStep(p) \/ RunnerStep(p) \/ FaultStep(p)) \/ RequestStep \/ Tick

Spec == Init /\ [][Next]_vars

\* A start goes on, a runner polls, and a process that is down is started again.
FairSpec == Spec /\ \A p \in Processes : WF_vars(StartStep(p)) /\ WF_vars(RunnerStep(p))

-----------------------------------------------------------------------------
\* Every table holds rows of its type, and only a process that is up holds a
\* job, which was claimed.
AccountsTypeOK ==
    /\ tables \in BOOLEAN /\ recorded \in BOOLEAN
    /\ users \in [Emails -> Role \cup {"none"}]
    /\ coaches \subseteq Emails /\ authorizations \subseteq Authorization
    /\ sessions \in Seq(SessionRow)
    /\ maintenance \in [Hours -> JobStatus] /\ attempts \in [Hours -> Nat]
    /\ process \in [Processes -> ProcessState]
    /\ \A p \in Processes : process[p].step # "idle" =>
          /\ At(p, "up") /\ process[p].job \in Hours
          /\ maintenance[process[p].job] \notin {"absent", "pending"}
    /\ now \in Moments
    /\ faults \in 0..MaxFaults

\* A process that serves has its whole schema, and there is an operator to log in
\* as, whichever of the processes that started together created them and
\* wherever others crashed.  (Who that is depends on the address: see Look.)
ReadyWhenUp ==
    /\ tables <=> recorded
    /\ \A p \in Processes : At(p, "up") => recorded /\ \E e \in Emails : users[e] = "operator"

\* What SlotLedger takes for granted of the accounts: an authorization is a
\* guardian's for a student and ends after it begins, and whoever has the role
\* coach can be assigned to a slot.
AccountsFitLedger ==
    /\ \A x \in authorizations :
          users[x.guardian] = "guardian" /\ users[x.student] = "student" /\ x.from < x.until
    /\ \A e \in Emails : users[e] = "coach" <=> e \in coaches

\* Comparing texts keeps a session alive at most to the end of the second it
\* expires in, and what is refused then, or was revoked, is never accepted again.
RefusedForGood ==
    [][\A i \in DOMAIN sessions :
          sessions[i].revoked \/ now.sec > sessions[i].expires.sec
          => ~Accepts(i) /\ ~Accepts(i)']_vars

\* ... and the maintenance never ends a session before the second it expires in.
SweptNotEarly ==
    [][\A p \in Processes, i \in DOMAIN sessions :
          RevokeExpired(p) /\ sessions'[i] # sessions[i]
          => sessions[i].expires.sec <= now.sec]_vars

\* A process that is started comes up, also when another one is faster, and
\* when one stops in the middle of its start.
ComesUp == \A p \in Processes : At(p, "down") ~> At(p, "up")

\* What expired before this second is revoked by any maintenance job that is due
\* now, wherever the processes that run it stop, unless it fails so often that it
\* is dead.  (No job is due when none was enqueued since: see the README.)
GetsSwept ==
    \A i \in 1..MaxSessions, h \in Hours :
        (/\ i \in DOMAIN sessions /\ sessions[i].expires.sec < now.sec
         /\ maintenance[h] = "pending")
        ~> (\/ i \in DOMAIN sessions /\ sessions[i].revoked
            \/ maintenance[h] = "dead")
=============================================================================
