----------------------------- MODULE Eligibility -----------------------------
(***************************************************************************)
(* Who may take a place in a slot (domain/policy.go): a student whose age  *)
(* on the day the slot starts, and whose ability, are within its limits.   *)
(* Both days are read from the database in UTC, and a birthday begins at   *)
(* midnight, so that the time of day decides nothing.                      *)
(***************************************************************************)
EXTENDS Integers

Date == [year : Nat, month : 1..12, day : 1..31]

Earlier(d, e) ==
    \/ d.year < e.year
    \/ d.year = e.year /\ d.month < e.month
    \/ d.year = e.year /\ d.month = e.month /\ d.day < e.day

IsLeap(year) == (year % 4 = 0 /\ year % 100 # 0) \/ year % 400 = 0

\* time.Date: the 29th of February of a common year is the first of March.
InYear(birth, year) ==
    IF birth.month = 2 /\ birth.day = 29 /\ ~IsLeap(year)
    THEN [year |-> year, month |-> 3, day |-> 1]
    ELSE [birth EXCEPT !.year = year]

AgeOn(birth, at) ==
    LET years == at.year - birth.year IN
    IF Earlier(at, InYear(birth, at.year)) THEN years - 1 ELSE years

Within(n, limits) == limits.min <= n /\ n <= limits.max

\* ValidateEligibility.  A student has a birth date since the account was created.
IsEligible(student, slot) ==
    /\ student.role = "student" /\ student.active
    /\ Within(AgeOn(student.birth, slot.starts), slot.ages)
    /\ Within(student.ability, slot.abilities)

-----------------------------------------------------------------------------
\* The day a person completes n years.
Anniversary(birth, n) == InYear(birth, birth.year + n)

\* The reference: a person is n years old from the n-th anniversary on, until the
\* next one.
CompletedYears(birth, at, n) ==
    ~Earlier(at, Anniversary(birth, n)) /\ Earlier(at, Anniversary(birth, n + 1))
=============================================================================
