---------------------------- MODULE AccountsProofs ----------------------------
(***************************************************************************)
(* Proofs about PersistedTime, for any number of digits, Eligibility, for  *)
(* any days, and Accounts, for any number of processes, addresses and      *)
(* sessions.                                                               *)
(***************************************************************************)
EXTENDS Accounts, Eligibility, TLAPS, SequenceTheorems

-----------------------------------------------------------------------------
(* Texts of times.                                                         *)

\* Texts and times only disagree within one second, and only when the earlier
\* time is written as a beginning of the later one.
THEOREM TextErrsWithinDigits ==
    ASSUME NEW a \in Instant, NEW b \in Instant, Before(a, b), ~TextBefore(a, b)
    PROVE  /\ a.sec = b.sec
           /\ \A i \in Places : IsWritten(a.frac, i) =>
                 IsWritten(b.frac, i) /\ a.frac[i] = b.frac[i]
<1> DEFINE x == a.frac
           y == b.frac
<1>1. a.sec = b.sec
  BY DEF Before, TextBefore
<1>2. PICK d \in Places : FirstDifference(d, x, y) /\ x[d] < y[d]
  BY <1>1 DEF Before, FractionBefore, Instant
<1>3. x \in Fraction /\ y \in Fraction
  BY DEF Instant
<1>4. FractionDigits \in Nat /\ d \in Nat
  BY TextAssumption DEF Places
<1>5. \A i \in Places : i <= d => IsWritten(y, i)
  <2>1. y[d] # 0
    <3>1. x[d] \in Nat /\ y[d] \in Nat
      BY <1>3, TextAssumption DEF Fraction
    <3> QED  BY <1>2, <3>1
  <2> QED  BY <2>1 DEF IsWritten
<1>6. ~IsWritten(x, d)
  <2> SUFFICES ASSUME IsWritten(x, d) PROVE FALSE
    OBVIOUS
  <2>1. \A i \in Places : i <= d => IsWritten(x, i)
    BY <1>4 DEF IsWritten, Places
  <2>2. \A i \in Places : i <= d => Text(x)[i] = x[i] /\ Text(y)[i] = y[i]
    BY <1>5, <2>1 DEF Text
  <2>3. \A i \in 1..(d - 1) : i \in Places /\ i <= d
    BY <1>4 DEF Places
  <2>4. FirstDifference(d, Text(x), Text(y)) /\ Text(x)[d] < Text(y)[d]
    BY <1>2, <1>4, <2>2, <2>3 DEF FirstDifference
  <2> QED  BY <1>1, <2>4 DEF TextBefore, FractionBefore
<1>7. ASSUME NEW i \in Places, IsWritten(x, i)
      PROVE  IsWritten(y, i) /\ x[i] = y[i]
  <2>1. i < d
    BY <1>4, <1>6, <1>7 DEF IsWritten, Places
  <2>2. i \in 1..(d - 1)
    BY <1>4, <2>1 DEF Places
  <2> QED  BY <1>2, <1>4, <1>5, <2>1, <2>2 DEF FirstDifference, Places
<1> QED  BY <1>1, <1>7

-----------------------------------------------------------------------------
(* The invariant.                                                          *)

\* What each step of a start relies on.
StartedInOrder ==
    /\ tables <=> recorded
    /\ \A p \in Processes : process[p].pc \in {"look", "create", "enqueue", "up"} => recorded
    /\ \A p \in Processes :
          process[p].pc \in {"enqueue", "up"} => users[process[p].email] # "none"
    /\ \A e \in Emails : users[e] # "none" => \E x \in Emails : users[x] = "operator"

AccountsInv == AccountsTypeOK /\ StartedInOrder /\ AccountsFitLedger

LEMMA MomentsAreInstants == Moments \subseteq Instant
  BY AccountsAssumption

LEMMA HoursAreNat == Hours \subseteq Nat
<1>1. ASSUME NEW t \in Moments PROVE HourOf(t) \in Nat
  <2>1. t.sec \in Nat /\ Hour \in Nat \ {0}
    BY AccountsAssumption DEF Instant
  <2> QED  BY <2>1 DEF HourOf
<1> QED  BY <1>1 DEF Hours

LEMMA AccountsInit == Init => AccountsInv
<1> SUFFICES ASSUME Init PROVE AccountsInv
  OBVIOUS
<1>1. now \in Moments
  BY DEF Init
<1>2. process \in [Processes -> ProcessState]
  BY DEF Init, ProcessState
<1>3. \A p \in Processes : process[p].pc = "down" /\ process[p].step = "idle"
  BY DEF Init
<1>4. << >> \in Seq(SessionRow)
  BY EmptySeq
<1>5. AccountsTypeOK
  <2>1. /\ users \in [Emails -> Role \cup {"none"}]
        /\ maintenance \in [Hours -> JobStatus] /\ attempts \in [Hours -> Nat]
    BY DEF Init, JobStatus
  <2>2. faults \in 0..MaxFaults
    BY AccountsAssumption DEF Init
  <2>3. sessions \in Seq(SessionRow)
    BY <1>4 DEF Init
  <2> QED  BY <1>1, <1>2, <1>3, <2>1, <2>2, <2>3 DEF Init, AccountsTypeOK
<1>6. StartedInOrder /\ AccountsFitLedger
  BY <1>3 DEF Init, StartedInOrder, AccountsFitLedger
<1> QED  BY <1>5, <1>6 DEF AccountsInv

\* A process goes to pc, and nothing else of it changes.
LEMMA ProcessGoes ==
    ASSUME process \in [Processes -> ProcessState], NEW p \in Processes,
           NEW pc \in {"down", "check", "apply", "look", "create", "enqueue", "up"}, Goto(p, pc)
    PROVE  /\ process' \in [Processes -> ProcessState]
           /\ process'[p].pc = pc
           /\ \A q \in Processes :
                 /\ process'[q].email = process[q].email /\ process'[q].step = process[q].step
                 /\ process'[q].job = process[q].job /\ process'[q].attempt = process[q].attempt
                 /\ q # p => process'[q] = process[q]
<1> DEFINE r == [process[p] EXCEPT !.pc = pc]
<1>1. process' = [process EXCEPT ![p] = r]
  BY DEF Goto
<1>2. process[p] \in ProcessState
  OBVIOUS
<1>3. r \in ProcessState /\ r.pc = pc /\ r.email = process[p].email /\ r.step = process[p].step
      /\ r.job = process[p].job /\ r.attempt = process[p].attempt
  BY <1>2 DEF ProcessState
<1> HIDE DEF r
<1> QED  BY <1>1, <1>3

\* What a step of a start does to the invariant, apart from its tables.
LEMMA StartGoes ==
    ASSUME AccountsInv, NEW p \in Processes, process[p].pc # "up",
           NEW pc \in {"down", "check", "apply", "look", "create", "enqueue", "up"}, Goto(p, pc),
           UNCHANGED <<sessions, authorizations, coaches, attempts, now, faults>>,
           tables' \in BOOLEAN, recorded' \in BOOLEAN, tables' <=> recorded',
           recorded => recorded',
           \A h \in Hours : maintenance'[h] = maintenance[h] \/ maintenance[h] = "absent",
           maintenance' \in [Hours -> JobStatus],
           users' \in [Emails -> Role \cup {"none"}],
           \A e \in Emails : users'[e] = users[e] \/ (users[e] = "none" /\ users'[e] = "operator"),
           pc \in {"look", "create", "enqueue", "up"} => recorded',
           pc \in {"enqueue", "up"} => users'[process[p].email] # "none"
    PROVE  AccountsInv'
<1> USE DEF AccountsInv
<1>1. process \in [Processes -> ProcessState]
  BY DEF AccountsTypeOK
<1>2. /\ process' \in [Processes -> ProcessState]
      /\ process'[p].pc = pc
      /\ \A q \in Processes :
            /\ process'[q].email = process[q].email /\ process'[q].step = process[q].step
            /\ process'[q].job = process[q].job
            /\ q # p => process'[q] = process[q]
  BY <1>1, ProcessGoes
<1>3. ASSUME NEW q \in Processes, process'[q].step # "idle"
      PROVE  /\ process'[q].pc = "up" /\ process'[q].job \in Hours
             /\ maintenance'[process'[q].job] \notin {"absent", "pending"}
  <2>1. process[q].step # "idle"
    BY <1>2, <1>3
  <2>2. /\ process[q].pc = "up" /\ process[q].job \in Hours
        /\ maintenance[process[q].job] \notin {"absent", "pending"}
    BY <2>1 DEF AccountsTypeOK, At
  <2>3. q # p
    BY <2>2
  <2> QED  BY <1>2, <2>2, <2>3
<1>4. AccountsTypeOK'
  BY <1>2, <1>3 DEF AccountsTypeOK, At
<1>5. StartedInOrder'
  <2>1. \A q \in Processes : process[q].email \in Emails
    BY <1>1 DEF ProcessState
  <2>2. \A e \in Emails : users[e] # "none" => users'[e] = users[e]
    OBVIOUS
  <2>3. \A q \in Processes :
           process'[q].pc \in {"enqueue", "up"} => users'[process'[q].email] # "none"
    BY <1>2, <2>1, <2>2 DEF StartedInOrder
  <2>4. \A e \in Emails : users'[e] # "none" => \E x \in Emails : users'[x] = "operator"
    BY <2>2 DEF StartedInOrder
  <2>5. \A q \in Processes : process'[q].pc \in {"look", "create", "enqueue", "up"} => recorded'
    BY <1>2 DEF StartedInOrder
  <2> QED  BY <2>3, <2>4, <2>5 DEF StartedInOrder
<1>6. AccountsFitLedger'
  <2>1. \A x \in authorizations : x.guardian \in Emails /\ x.student \in Emails
    BY DEF AccountsTypeOK, Authorization
  <2>2. \A x \in authorizations :
           users[x.guardian] = "guardian" /\ users[x.student] = "student" /\ x.from < x.until
    BY DEF AccountsFitLedger
  <2>3. \A e \in Emails : users'[e] = "coach" <=> e \in coaches'
    BY DEF AccountsFitLedger
  <2>4. ASSUME NEW x \in authorizations
        PROVE  users'[x.guardian] = "guardian" /\ users'[x.student] = "student" /\ x.from < x.until
    <3>1. /\ x.guardian \in Emails /\ x.student \in Emails
          /\ users[x.guardian] = "guardian" /\ users[x.student] = "student" /\ x.from < x.until
      BY <2>1, <2>2
    <3> QED  BY <3>1
  <2> QED  BY <2>3, <2>4 DEF AccountsFitLedger
<1> QED  BY <1>4, <1>5, <1>6

LEMMA StartKeeps ==
    ASSUME AccountsInv, NEW p \in Processes, StartStep(p)
    PROVE  AccountsInv'
<1> USE DEF AccountsInv
<1>0. /\ tables \in BOOLEAN /\ recorded \in BOOLEAN /\ (tables <=> recorded)
      /\ maintenance \in [Hours -> JobStatus]
      /\ users \in [Emails -> Role \cup {"none"}]
      /\ process[p].email \in Emails
  BY DEF AccountsTypeOK, StartedInOrder, ProcessState
<1>1. CASE Start(p)
  BY <1>0, <1>1, StartGoes DEF Start, At, accounts, jobRows
<1>2. CASE Check(p)
  <2>1. CASE recorded
    BY <1>0, <1>2, <2>1, StartGoes DEF Check, At, accounts, jobRows
  <2>2. CASE ~recorded
    BY <1>0, <1>2, <2>2, StartGoes DEF Check, At, accounts, jobRows
  <2> QED  BY <2>1, <2>2
<1>3. CASE Apply(p)
  <2>1. CASE tables /\ Goto(p, "down") /\ UNCHANGED <<tables, recorded>>
    BY <1>0, <1>3, <2>1, StartGoes DEF Apply, At, accounts, jobRows
  <2>2. CASE ~tables /\ tables' = TRUE /\ recorded' = TRUE /\ Goto(p, "look")
    BY <1>0, <1>3, <2>2, StartGoes DEF Apply, At, accounts, jobRows
  <2> QED  BY <1>3, <2>1, <2>2 DEF Apply
<1>4. CASE Look(p)
  <2>1. recorded
    BY <1>4 DEF Look, At, StartedInOrder
  <2>2. CASE HasAccount(process[p].email)
    BY <1>0, <1>4, <2>1, <2>2, StartGoes DEF Look, At, accounts, jobRows, HasAccount
  <2>3. CASE ~HasAccount(process[p].email)
    BY <1>0, <1>4, <2>1, <2>3, StartGoes DEF Look, At, accounts, jobRows
  <2> QED  BY <2>2, <2>3
<1>5. CASE CreateOperator(p)
  <2>1. recorded
    BY <1>5 DEF CreateOperator, At, StartedInOrder
  <2>2. CASE users[process[p].email] # "none" /\ Goto(p, "down") /\ UNCHANGED users
    BY <1>0, <1>5, <2>1, <2>2, StartGoes DEF CreateOperator, At, jobRows
  <2>3. CASE users[process[p].email] = "none" /\ Goto(p, "enqueue")
             /\ users' = [users EXCEPT ![process[p].email] = "operator"]
    <3>1. users' \in [Emails -> Role \cup {"none"}]
      BY <1>0, <2>3 DEF Role
    <3>2. users'[process[p].email] = "operator"
      BY <1>0, <2>3
    <3>3. \A e \in Emails : users'[e] = users[e] \/ (users[e] = "none" /\ users'[e] = "operator")
      BY <1>0, <2>3
    <3> QED  BY <1>0, <1>5, <2>1, <2>3, <3>1, <3>2, <3>3, StartGoes DEF CreateOperator, At, jobRows
  <2> QED  BY <1>5, <2>2, <2>3 DEF CreateOperator
<1>6. CASE Enqueue(p)
  <2>1. recorded /\ users[process[p].email] # "none"
    BY <1>6 DEF Enqueue, At, StartedInOrder
  <2>2. /\ maintenance' \in [Hours -> JobStatus]
        /\ \A h \in Hours : maintenance'[h] = maintenance[h] \/ maintenance[h] = "absent"
    <3>1. PICK k : k = HourOf(now)
      OBVIOUS
    <3>2. maintenance' = [maintenance EXCEPT ![k] = IF @ = "absent" THEN "pending" ELSE @]
      BY <1>6, <3>1 DEF Enqueue, Enqueued
    <3> QED  BY <1>0, <3>2 DEF JobStatus
  <2> QED  BY <1>0, <1>6, <2>1, <2>2, StartGoes DEF Enqueue, At, accounts
<1> QED  BY <1>1, <1>2, <1>3, <1>4, <1>5, <1>6 DEF StartStep

-----------------------------------------------------------------------------
(* Requests.                                                               *)

\* No step takes a session away, changes when it expires or takes back its
\* revocation, and the clock does not go back.
LEMMA SessionsKept ==
    ASSUME AccountsInv, [Next]_vars
    PROVE  /\ sessions' \in Seq(SessionRow)
           /\ \A i \in DOMAIN sessions :
                 /\ i \in DOMAIN sessions'
                 /\ sessions'[i].expires = sessions[i].expires
                 /\ sessions[i].revoked => sessions'[i].revoked
           /\ now' \in Moments /\ now.sec <= now'.sec
<1> DEFINE Kept == /\ sessions' \in Seq(SessionRow)
                   /\ \A i \in DOMAIN sessions :
                         /\ i \in DOMAIN sessions'
                         /\ sessions'[i].expires = sessions[i].expires
                         /\ sessions[i].revoked => sessions'[i].revoked
           ClockOn == now' \in Moments /\ now.sec <= now'.sec
<1>0. /\ sessions \in Seq(SessionRow) /\ now \in Moments /\ now \in Instant
      /\ Len(sessions) \in Nat /\ DOMAIN sessions = 1..Len(sessions)
      /\ \A i \in DOMAIN sessions : sessions[i] \in SessionRow
  <2>1. sessions \in Seq(SessionRow) /\ now \in Moments
    BY DEF AccountsInv, AccountsTypeOK
  <2> QED  BY <2>1, LenProperties, ElementOfSeq, MomentsAreInstants
<1>1. ASSUME UNCHANGED sessions PROVE Kept
  BY <1>0, <1>1
<1>2. ASSUME UNCHANGED now PROVE ClockOn
  BY <1>0, <1>2 DEF Instant
<1>3. ASSUME NEW e \in Emails, Login(e)
      PROVE  Kept /\ ClockOn
  <2> DEFINE r == [user |-> e, revoked |-> FALSE, expires |-> Later(now, SessionTTL)]
  <2>1. r \in SessionRow
    <3>1. now.sec + SessionTTL \in Nat
      BY <1>0, AccountsAssumption DEF Instant
    <3> QED  BY <1>0, <3>1 DEF SessionRow, Instant, Later
  <2>2. sessions' = Append(sessions, r) /\ UNCHANGED now
    BY <1>3 DEF Login
  <2> HIDE DEF r
  <2>3. /\ sessions' \in Seq(SessionRow)
        /\ \A i \in DOMAIN sessions : i \in DOMAIN sessions' /\ sessions'[i] = sessions[i]
    BY <1>0, <2>1, <2>2, AppendProperties
  <2> QED  BY <1>2, <2>2, <2>3
<1>4. ASSUME NEW i \in DOMAIN sessions, Logout(i)
      PROVE  Kept /\ ClockOn
  <2> DEFINE r == [sessions[i] EXCEPT !.revoked = TRUE]
  <2>1. r \in SessionRow /\ r.expires = sessions[i].expires /\ r.revoked
    BY <1>0 DEF SessionRow
  <2>2. sessions' = [sessions EXCEPT ![i] = r] /\ UNCHANGED now
    BY <1>4 DEF Logout
  <2> HIDE DEF r
  <2>3. sessions' \in Seq(SessionRow)
    BY <1>0, <2>1, <2>2, ExceptSeq
  <2>4. DOMAIN sessions' = DOMAIN sessions
    BY <2>2
  <2> QED  BY <1>2, <2>1, <2>2, <2>3, <2>4
<1>5. ASSUME NEW p \in Processes, RevokeExpired(p)
      PROVE  Kept /\ ClockOn
  <2> DEFINE row(i) == IF i \in ExpiredRows(now) THEN [sessions[i] EXCEPT !.revoked = TRUE]
                                                 ELSE sessions[i]
  <2>1. \A i \in DOMAIN sessions : /\ row(i) \in SessionRow /\ row(i).expires = sessions[i].expires
                                   /\ sessions[i].revoked => row(i).revoked
    BY <1>0 DEF SessionRow
  <2>2. sessions' = [i \in 1..Len(sessions) |-> row(i)] /\ UNCHANGED now
    BY <1>0, <1>5 DEF RevokeExpired, accounts
  <2> HIDE DEF row
  <2>3. sessions' \in Seq(SessionRow)
    <3>1. \A i \in 1..Len(sessions) : row(i) \in SessionRow
      BY <1>0, <2>1
    <3> QED  BY <1>0, <2>2, <3>1, IsASeq
  <2> QED  BY <1>0, <1>2, <2>1, <2>2, <2>3
<1>6. CASE Tick
  <2>1. now' \in Moments /\ Before(now, now') /\ UNCHANGED sessions
    BY <1>6 DEF Tick
  <2>2. now'.sec \in Nat /\ now.sec \in Nat
    BY <1>0, <2>1, MomentsAreInstants DEF Instant
  <2> QED  BY <1>1, <2>1, <2>2 DEF Before
<1>7. ASSUME UNCHANGED <<sessions, now>>
      PROVE  Kept /\ ClockOn
  BY <1>1, <1>2, <1>7
<1>8. ASSUME NEW p \in Processes, StartStep(p) \/ FaultStep(p) \/ Complete(p) \/ Fail(p) \/ (\E h \in Hours : Claim(p, h))
      PROVE  Kept /\ ClockOn
  BY <1>7, <1>8
  DEF StartStep, Start, Check, Apply, Look, CreateOperator, Enqueue, FaultStep, Crash,
      FailToRevoke, LoseResult, Complete, Fail, Settle, Claim
<1>9. CASE \E x \in Provisioned : CreateUser(x[1], x[2])
  BY <1>7, <1>9 DEF CreateUser
<1>10. CASE \E g, st \in Emails, w \in Windows : AuthorizeGuardian(g, st, w[1], w[2])
  BY <1>7, <1>10 DEF AuthorizeGuardian
<1>11. CASE UNCHANGED vars
  BY <1>7, <1>11 DEF vars
<1> QED
  BY <1>3, <1>4, <1>5, <1>6, <1>8, <1>9, <1>10, <1>11 DEF Next, RequestStep, RunnerStep

-----------------------------------------------------------------------------
(* Requests, the runner and crashes keep the invariant.                    *)

\* Users are only ever added, by somebody who was let in as an operator.
LEMMA RequestKeeps ==
    ASSUME AccountsInv, RequestStep, sessions' \in Seq(SessionRow)
    PROVE  AccountsInv'
<1> USE DEF AccountsInv
<1>0. /\ users \in [Emails -> Role \cup {"none"}] /\ coaches \subseteq Emails
      /\ authorizations \subseteq Authorization
  BY DEF AccountsTypeOK
<1>1. ASSUME NEW x \in Provisioned, CreateUser(x[1], x[2])
      PROVE  AccountsInv'
  <2> DEFINE e == x[1]
             role == x[2]
  <2>1. e \in Emails /\ role \in Role /\ role # "none"
    BY AccountsAssumption DEF Role
  <2>2. users[e] = "none" /\ users' = [users EXCEPT ![e] = role]
        /\ coaches' = (IF role = "coach" THEN coaches \cup {e} ELSE coaches)
        /\ ByOperator
    BY <1>1 DEF CreateUser
  <2>3. UNCHANGED <<tables, recorded, authorizations, sessions, jobRows, process, now, faults>>
    BY <1>1 DEF CreateUser
  <2> HIDE DEF e, role
  <2>4. users' \in [Emails -> Role \cup {"none"}] /\ coaches' \subseteq Emails
    BY <1>0, <2>1, <2>2
  <2>5. users'[e] = role /\ \A f \in Emails : f # e => users'[f] = users[f]
    BY <1>0, <2>1, <2>2
  <2>6. \A f \in Emails : users[f] # "none" => users'[f] = users[f]
    BY <2>2, <2>5
  <2>7. AccountsTypeOK'
    BY <2>3, <2>4 DEF AccountsTypeOK, At, jobRows
  <2>8. StartedInOrder'
    <3>1. \A q \in Processes : process[q].email \in Emails
      BY DEF AccountsTypeOK, ProcessState
    <3>2. PICK i \in DOMAIN sessions : users[sessions[i].user] = "operator"
      BY <2>2 DEF ByOperator
    <3>3. sessions[i].user \in Emails
      <4>1. sessions[i] \in SessionRow
        BY ElementOfSeq, LenProperties DEF AccountsTypeOK
      <4> QED  BY <4>1 DEF SessionRow
    <3>4. users'[sessions[i].user] = "operator"
      BY <2>6, <3>2, <3>3
    <3> QED  BY <2>3, <2>6, <3>1, <3>3, <3>4 DEF StartedInOrder
  <2>9. AccountsFitLedger'
    <3>1. ASSUME NEW y \in authorizations
          PROVE  users'[y.guardian] = "guardian" /\ users'[y.student] = "student" /\ y.from < y.until
      <4>1. y.guardian \in Emails /\ y.student \in Emails
        BY <1>0 DEF Authorization
      <4>2. users[y.guardian] = "guardian" /\ users[y.student] = "student" /\ y.from < y.until
        BY DEF AccountsFitLedger
      <4> QED  BY <2>6, <4>1, <4>2
    <3>2. \A f \in Emails : users'[f] = "coach" <=> f \in coaches'
      BY <2>1, <2>2, <2>5 DEF AccountsFitLedger
    <3> QED  BY <2>3, <3>1, <3>2 DEF AccountsFitLedger
  <2> QED  BY <2>7, <2>8, <2>9
<1>2. ASSUME NEW g \in Emails, NEW st \in Emails, NEW w \in Windows,
             AuthorizeGuardian(g, st, w[1], w[2])
      PROVE  AccountsInv'
  <2> DEFINE y == [guardian |-> g, student |-> st, from |-> w[1], until |-> w[2]]
  <2>1. w[1] \in Nat /\ w[2] \in Nat
    BY AccountsAssumption
  <2>2. y \in Authorization /\ users[y.guardian] = "guardian" /\ users[y.student] = "student"
        /\ y.from < y.until
    BY <1>2, <2>1 DEF Authorization, AuthorizeGuardian, RolesMatch
  <2>3. authorizations' = authorizations \cup {y}
        /\ UNCHANGED <<tables, recorded, users, coaches, sessions, jobRows, process, now, faults>>
    BY <1>2 DEF AuthorizeGuardian
  <2> HIDE DEF y
  <2>4. AccountsTypeOK'
    BY <1>0, <2>2, <2>3 DEF AccountsTypeOK, At, jobRows
  <2>5. StartedInOrder' /\ AccountsFitLedger'
    BY <2>2, <2>3 DEF StartedInOrder, AccountsFitLedger
  <2> QED  BY <2>4, <2>5
<1>3. ASSUME UNCHANGED <<tables, recorded, accounts, jobRows, process, now, faults>>
      PROVE  AccountsInv'
  BY <1>3 DEF AccountsTypeOK, At, StartedInOrder, AccountsFitLedger, accounts, jobRows
<1> QED
  BY <1>1, <1>2, <1>3 DEF RequestStep, Login, Logout

\* The accounts do not change, and the processes start nowhere.
LEMMA RunnerKeeps ==
    ASSUME AccountsInv, NEW p \in Processes, NEW r \in ProcessState,
           process' = [process EXCEPT ![p] = r], UNCHANGED <<tables, recorded, accounts, now>>,
           sessions' \in Seq(SessionRow),
           maintenance' \in [Hours -> JobStatus], attempts' \in [Hours -> Nat],
           \A h \in Hours : maintenance[h] \notin {"absent", "pending"}
                               => maintenance'[h] \notin {"absent", "pending"},
           UNCHANGED faults \/ Fault,
           r.email = process[p].email, r.pc \in {process[p].pc, "down"},
           r.step # "idle" => r.pc = "up" /\ r.job \in Hours
                              /\ maintenance'[r.job] \notin {"absent", "pending"}
    PROVE  AccountsInv'
<1> USE DEF AccountsInv
<1>1. /\ process \in [Processes -> ProcessState]
      /\ process'[p] = r /\ \A q \in Processes : q # p => process'[q] = process[q]
      /\ process' \in [Processes -> ProcessState]
  BY DEF AccountsTypeOK
<1>2. faults' \in 0..MaxFaults
  BY AccountsAssumption DEF AccountsTypeOK, Fault
<1>3. \A q \in Processes : process'[q].step # "idle" =>
         /\ process'[q].pc = "up" /\ process'[q].job \in Hours
         /\ maintenance'[process'[q].job] \notin {"absent", "pending"}
  <2>1. ASSUME NEW q \in Processes, q # p, process[q].step # "idle"
        PROVE  /\ process[q].pc = "up" /\ process[q].job \in Hours
               /\ maintenance[process[q].job] \notin {"absent", "pending"}
    BY <2>1 DEF AccountsTypeOK, At
  <2> QED  BY <1>1, <2>1
<1>4. AccountsTypeOK'
  BY <1>1, <1>2, <1>3 DEF AccountsTypeOK, At, accounts
<1>5. StartedInOrder'
  BY <1>1 DEF StartedInOrder, accounts
<1>6. AccountsFitLedger'
  BY DEF AccountsFitLedger, accounts
<1> QED  BY <1>4, <1>5, <1>6

LEMMA AccountsStep == AccountsInv /\ [Next]_vars => AccountsInv'
<1> SUFFICES ASSUME AccountsInv, [Next]_vars PROVE AccountsInv'
  OBVIOUS
<1> USE DEF AccountsInv
<1>0. /\ process \in [Processes -> ProcessState]
      /\ maintenance \in [Hours -> JobStatus] /\ attempts \in [Hours -> Nat]
      /\ sessions' \in Seq(SessionRow) /\ now' \in Moments
  BY SessionsKept DEF AccountsTypeOK
<1>1. ASSUME NEW p \in Processes, NEW h \in Hours, Claim(p, h)
      PROVE  AccountsInv'
  <2> DEFINE n == attempts[h] + 1
             r == [process[p] EXCEPT !.step = "sweep", !.job = h, !.attempt = n]
  <2>1. h \in Nat /\ n \in Nat
    BY <1>0, HoursAreNat
  <2>2. attempts' = [attempts EXCEPT ![h] = n] /\ attempts'[h] = n
    BY <1>0, <1>1 DEF Claim
  <2>3. process' = [process EXCEPT ![p] = r] /\ maintenance' = [maintenance EXCEPT ![h] = "running"]
    BY <1>0, <1>1, <2>2 DEF Claim, Claimed
  <2>4. UNCHANGED <<tables, recorded, accounts, now>> /\ (UNCHANGED faults \/ Fault)
    BY <1>1 DEF Claim
  <2>5. attempts' \in [Hours -> Nat]
    BY <1>0, <2>1, <2>2
  <2>6. maintenance' \in [Hours -> JobStatus] /\ maintenance'[h] = "running"
        /\ \A k \in Hours : k # h => maintenance'[k] = maintenance[k]
    BY <1>0, <2>3 DEF JobStatus
  <2> HIDE DEF n
  <2>7. r \in ProcessState /\ r.email = process[p].email /\ r.pc = "up" /\ process[p].pc = "up"
        /\ r.job = h
    <3>1. process[p] \in ProcessState
      BY <1>0
    <3> QED  BY <1>1, <2>1, <3>1 DEF ProcessState, Claim, At
  <2> HIDE DEF r
  <2> QED  BY <1>0, <2>3, <2>4, <2>5, <2>6, <2>7, RunnerKeeps
\* A sweep goes on to its next step.
<1>2. ASSUME NEW p \in Processes, NEW step \in {"complete", "fail"},
             process[p].step = "sweep", process' = [process EXCEPT ![p].step = step],
             UNCHANGED <<tables, recorded, accounts, jobRows, now, faults>>
      PROVE  AccountsInv'
  <2> DEFINE r == [process[p] EXCEPT !.step = step]
  <2>1. process[p] \in ProcessState
    BY <1>0
  <2>2. r \in ProcessState /\ r.email = process[p].email /\ r.pc = process[p].pc
        /\ r.job = process[p].job
    BY <2>1 DEF ProcessState
  <2>3. process' = [process EXCEPT ![p] = r] /\ UNCHANGED <<maintenance, attempts, faults>>
    BY <1>0, <1>2 DEF jobRows
  <2> HIDE DEF r
  <2>4. /\ process[p].pc = "up" /\ process[p].job \in Hours
        /\ maintenance[process[p].job] \notin {"absent", "pending"}
    BY <1>2 DEF AccountsTypeOK, At
  <2>5. UNCHANGED <<tables, recorded, accounts, now>>
    BY <1>2
  <2> QED  BY <1>0, <2>2, <2>3, <2>4, <2>5, RunnerKeeps
\* Somebody lets go of a job, whose row may have been settled.
<1>3. ASSUME NEW p \in Processes, NEW pc \in {process[p].pc, "down"},
             process' = [process EXCEPT ![p] = [Unoccupied(@) EXCEPT !.pc = pc]],
             UNCHANGED <<tables, recorded, accounts, attempts, now>>, UNCHANGED faults \/ Fault,
             maintenance' \in [Hours -> JobStatus],
             \A k \in Hours : maintenance[k] \notin {"absent", "pending"}
                                  => maintenance'[k] \notin {"absent", "pending"}
      PROVE  AccountsInv'
  <2> DEFINE r == [Unoccupied(process[p]) EXCEPT !.pc = pc]
  <2>1. process[p] \in ProcessState
    BY <1>0
  <2>2. r \in ProcessState /\ r.email = process[p].email /\ r.pc = pc /\ r.step = "idle"
    BY <2>1 DEF ProcessState, Unoccupied
  <2>3. process' = [process EXCEPT ![p] = r]
    BY <1>0, <1>3
  <2> HIDE DEF r
  <2> QED  BY <1>0, <1>3, <2>2, <2>3, RunnerKeeps
<1>4. ASSUME NEW p \in Processes, NEW status \in JobStatus \ {"absent", "pending"},
             Settle(p, status)
      PROVE  AccountsInv'
  <2>1. process[p] \in ProcessState
    BY <1>0
  <2>2. [Unoccupied(process[p]) EXCEPT !.pc = process[p].pc] = Unoccupied(process[p])
    BY <2>1 DEF ProcessState, Unoccupied
  <2>3. process' = [process EXCEPT ![p] = [Unoccupied(@) EXCEPT !.pc = process[p].pc]]
    BY <1>0, <1>4, <2>2 DEF Settle
  <2>4. PICK h : h = process[p].job
    OBVIOUS
  <2>5. maintenance' = [maintenance EXCEPT ![h] = IF @ = "running" THEN status ELSE @]
    BY <1>4, <2>4 DEF Settle
  <2>6. /\ maintenance' \in [Hours -> JobStatus]
        /\ \A k \in Hours : maintenance[k] \notin {"absent", "pending"}
                               => maintenance'[k] \notin {"absent", "pending"}
    BY <1>0, <1>4, <2>5
  <2> QED  BY <1>3, <1>4, <2>3, <2>6 DEF Settle
<1>5. ASSUME NEW p \in Processes, RunnerStep(p)
      PROVE  AccountsInv'
  <2>1. CASE RevokeExpired(p)
    BY <1>2, <2>1 DEF RevokeExpired
  <2>2. CASE Complete(p)
    BY <1>4, <2>2 DEF Complete, JobStatus
  <2>3. CASE Fail(p)
    BY <1>4, <2>3 DEF Fail, JobStatus
  <2> QED  BY <1>1, <1>5, <2>1, <2>2, <2>3 DEF RunnerStep
<1>6. ASSUME NEW p \in Processes, FaultStep(p)
      PROVE  AccountsInv'
  <2>1. CASE Crash(p)
    BY <1>0, <1>3, <2>1 DEF Crash, jobRows
  <2>2. CASE FailToRevoke(p)
    BY <1>2, <2>2 DEF FailToRevoke
  <2>3. CASE LoseResult(p)
    <3>1. process[p] \in ProcessState
      BY <1>0
    <3>2. [Unoccupied(process[p]) EXCEPT !.pc = process[p].pc] = Unoccupied(process[p])
      BY <3>1 DEF ProcessState, Unoccupied
    <3>3. process' = [process EXCEPT ![p] = [Unoccupied(@) EXCEPT !.pc = process[p].pc]]
      BY <1>0, <2>3, <3>2 DEF LoseResult
    <3> QED  BY <1>0, <1>3, <2>3, <3>3 DEF LoseResult, jobRows
  <2> QED  BY <1>6, <2>1, <2>2, <2>3 DEF FaultStep
<1>7. CASE UNCHANGED <<tables, recorded, accounts, sessions, jobRows, process, faults>>
  BY <1>0, <1>7 DEF AccountsTypeOK, At, StartedInOrder, AccountsFitLedger, accounts, jobRows
<1> QED
  BY <1>0, <1>5, <1>6, <1>7, StartKeeps, RequestKeeps DEF Next, Tick, vars

-----------------------------------------------------------------------------
LEMMA AccountsInvariant == Spec => []AccountsInv
  BY AccountsInit, AccountsStep, PTL DEF Spec

\* The tables of accounts, sessions and maintenance jobs keep their types.
THEOREM AccountsTypeCorrect == Spec => []AccountsTypeOK
<1>1. AccountsInv => AccountsTypeOK
  BY DEF AccountsInv
<1> QED  BY <1>1, AccountsInvariant, PTL

\* However many processes start together, and wherever they stop: one that
\* serves has the schema and an operator.
THEOREM AlwaysReadyWhenUp == Spec => []ReadyWhenUp
<1>1. AccountsInv => ReadyWhenUp
  <2> SUFFICES ASSUME AccountsInv PROVE ReadyWhenUp
    OBVIOUS
  <2>1. \A p \in Processes : process[p].email \in Emails
    BY DEF AccountsInv, AccountsTypeOK, ProcessState
  <2> QED  BY <2>1 DEF AccountsInv, StartedInOrder, ReadyWhenUp, At
<1> QED  BY <1>1, AccountsInvariant, PTL

\* The accounts always are what the ledger is proved to work with.
THEOREM AccountsAlwaysFit == Spec => []AccountsFitLedger
<1>1. AccountsInv => AccountsFitLedger
  BY DEF AccountsInv
<1> QED  BY <1>1, AccountsInvariant, PTL

\* A session that was revoked, or whose last second is over, is never accepted
\* again, for times of any precision.
THEOREM RefusedIsForGood == Spec => RefusedForGood
<1>1. ASSUME AccountsInv, [Next]_vars, NEW i \in DOMAIN sessions,
             sessions[i].revoked \/ now.sec > sessions[i].expires.sec
      PROVE  ~Accepts(i) /\ ~Accepts(i)'
  <2>1. sessions[i].expires.sec \in Nat /\ now.sec \in Nat
    <3>1. sessions[i] \in SessionRow /\ now \in Instant
      BY <1>1, ElementOfSeq, LenProperties, MomentsAreInstants DEF AccountsInv, AccountsTypeOK
    <3> QED  BY <3>1 DEF SessionRow, Instant
  <2>2. /\ sessions'[i].expires = sessions[i].expires
        /\ sessions[i].revoked => sessions'[i].revoked
        /\ now' \in Moments /\ now.sec <= now'.sec
    BY <1>1, SessionsKept
  <2>3. now'.sec \in Nat
    BY <2>2, MomentsAreInstants DEF Instant
  <2> QED  BY <1>1, <2>1, <2>2, <2>3 DEF Accepts, TextBefore
<1>2. AccountsInv /\ [Next]_vars => [\A i \in DOMAIN sessions :
          sessions[i].revoked \/ now.sec > sessions[i].expires.sec
          => ~Accepts(i) /\ ~Accepts(i)']_vars
  BY <1>1
<1> QED  BY <1>2, AccountsInvariant, PTL DEF Spec, RefusedForGood

\* The maintenance job revokes no session before the second it expires in.
THEOREM NeverSweptEarly == Spec => SweptNotEarly
<1>1. ASSUME AccountsInv, NEW p \in Processes, NEW i \in DOMAIN sessions,
             RevokeExpired(p), sessions'[i] # sessions[i]
      PROVE  sessions[i].expires.sec <= now.sec
  <2>1. sessions[i].expires.sec \in Nat /\ now.sec \in Nat
    <3>1. sessions[i] \in SessionRow /\ now \in Instant
      BY <1>1, ElementOfSeq, LenProperties, MomentsAreInstants DEF AccountsInv, AccountsTypeOK
    <3> QED  BY <3>1 DEF SessionRow, Instant
  <2>2. i \in ExpiredRows(now)
    BY <1>1 DEF RevokeExpired
  <2> QED  BY <2>1, <2>2 DEF ExpiredRows, TextUpTo, TextBefore
<1>2. AccountsInv /\ [Next]_vars => [\A p \in Processes, i \in DOMAIN sessions :
          RevokeExpired(p) /\ sessions'[i] # sessions[i]
          => sessions[i].expires.sec <= now.sec]_vars
  BY <1>1
<1> QED  BY <1>2, AccountsInvariant, PTL DEF Spec, SweptNotEarly

-----------------------------------------------------------------------------
(* Ages.                                                                   *)

\* The age that decides on a booking counts the anniversaries that have come, for
\* every birthday and every day, also for who is born on the 29th of February.
THEOREM AgeCountsAnniversaries ==
    ASSUME NEW birth \in Date, NEW at \in Date
    PROVE  \A n \in Int : n = AgeOn(birth, at) <=> CompletedYears(birth, at, n)
<1>1. birth.year \in Nat /\ at.year \in Nat
  BY DEF Date
<1>2. \A y \in Int : InYear(birth, y).year = y
  BY DEF InYear, Date
<1>3. ASSUME NEW n \in Int PROVE n = AgeOn(birth, at) <=> CompletedYears(birth, at, n)
  <2> DEFINE years == at.year - birth.year
  <2>1. years \in Int /\ birth.year + n \in Int /\ birth.year + (n + 1) \in Int
    BY <1>1
  <2>2. /\ InYear(birth, birth.year + n).year = birth.year + n
        /\ InYear(birth, birth.year + (n + 1)).year = birth.year + (n + 1)
    BY <1>2, <2>1
  <2>3. CASE n = years
    <3>1. birth.year + n = at.year
      BY <1>1, <2>3
    <3>2. Earlier(at, Anniversary(birth, n + 1))
      BY <1>1, <2>2, <3>1 DEF Earlier, Anniversary
    <3> QED  BY <2>1, <2>3, <3>1, <3>2 DEF AgeOn, CompletedYears, Anniversary
  <2>4. CASE n = years - 1
    <3>1. birth.year + (n + 1) = at.year
      BY <1>1, <2>4
    <3>2. ~Earlier(at, Anniversary(birth, n))
      BY <1>1, <2>2, <3>1 DEF Earlier, Anniversary
    <3> QED  BY <2>1, <2>4, <3>1, <3>2 DEF AgeOn, CompletedYears, Anniversary
  <2>5. CASE n < years - 1
    <3>1. ~Earlier(at, Anniversary(birth, n + 1))
      BY <1>1, <2>2, <2>5 DEF Earlier, Anniversary
    <3> QED  BY <2>1, <2>5, <3>1 DEF AgeOn, CompletedYears
  <2>6. CASE n > years
    <3>1. Earlier(at, Anniversary(birth, n))
      BY <1>1, <2>2, <2>6 DEF Earlier, Anniversary
    <3> QED  BY <2>1, <2>6, <3>1 DEF AgeOn, CompletedYears
  <2> QED  BY <2>1, <2>3, <2>4, <2>5, <2>6
<1> QED  BY <1>3

\* A student may take part from the anniversary of the minimum age on, until the
\* one after the maximum age: a time without gaps.
THEOREM EligibleBetweenAnniversaries ==
    ASSUME NEW birth \in Date, NEW at \in Date, NEW min \in Nat, NEW max \in Nat
    PROVE  Within(AgeOn(birth, at), [min |-> min, max |-> max])
             <=> ~Earlier(at, Anniversary(birth, min)) /\ Earlier(at, Anniversary(birth, max + 1))
<1>1. birth.year \in Nat /\ at.year \in Nat
  BY DEF Date
<1>2. \A y \in Int : InYear(birth, y).year = y
  BY DEF InYear, Date
<1>3. AgeOn(birth, at) \in Int
  BY <1>1 DEF AgeOn
<1> PICK age \in Int : age = AgeOn(birth, at)
  BY <1>3
<1>4. CompletedYears(birth, at, age)
  BY AgeCountsAnniversaries
<1>5. ASSUME NEW n \in Nat PROVE n <= age <=> ~Earlier(at, Anniversary(birth, n))
  <2>1. age = at.year - birth.year \/ age = at.year - birth.year - 1
    BY DEF AgeOn
  <2>2. InYear(birth, birth.year + n).year = birth.year + n
    BY <1>1, <1>2
  <2>3. CASE n = at.year - birth.year
    <3>1. birth.year + n = at.year
      BY <1>1, <2>3
    <3> QED  BY <1>1, <2>3, <3>1 DEF AgeOn, Anniversary
  <2>4. CASE n < at.year - birth.year
    BY <1>1, <2>1, <2>2, <2>4 DEF Anniversary, Earlier
  <2>5. CASE n > at.year - birth.year
    BY <1>1, <2>1, <2>2, <2>5 DEF Anniversary, Earlier
  <2> QED  BY <1>1, <2>3, <2>4, <2>5
<1>6. age <= max <=> ~(max + 1 <= age)
  OBVIOUS
<1>7. (min <= age <=> ~Earlier(at, Anniversary(birth, min)))
      /\ (max + 1 <= age <=> ~Earlier(at, Anniversary(birth, max + 1)))
  BY <1>5
<1> QED  BY <1>6, <1>7 DEF Within
=============================================================================
