---------------------------- MODULE MCSlotLedger ----------------------------
(* Small instances of SlotLedger for TLC. *)
EXTENDS LedgerImplementsRegister, TLC

CONSTANTS s1, s2, st1, st2, st3, young, g1, op, co1, co2, c1, c2, k1, k2, k3, k4

Symmetry == Permutations(Students \ {young}) \cup Permutations(Keys) \cup Permutations(Coaches)

\* The time of a second, or half a second later where FractionDigits is 1.
Sec(n)  == [sec |-> n, frac |-> [i \in Places |-> 0]]
Half(n) == [sec |-> n, frac |-> [i \in Places |-> 1]]

Win(v, from, until) == [venue |-> v, starts |-> from, ends |-> until]

\* The slots are at one venue and overlap.
MCSlotWindow == [s \in Slots |->
    IF s = s1 THEN Win(1, Sec(2), Half(4)) ELSE Win(1, Sec(3), Sec(6))]

\* c1 covers s1 and s2.  c2 covers s2, but not s1, which ends half a second after
\* c2 begins: as texts are compared, that is before it begins.
MCClosureWindow == [c \in Closures |->
    IF c = c1 THEN Win(1, Sec(2), Sec(5)) ELSE Win(1, Sec(4), Sec(6))]

\* A clock that stands still, and one on which holds of one second and the
\* authorizations that end with second 2 end.  Half a second later their texts
\* say that they have not.
MCMoment  == {Sec(1)}
MCMoments == {Sec(1), Half(2), Sec(3)}

MCAuthorizations ==
    [guardian : Guardians, student : Students, from : {Sec(0)}, until : {Sec(100)}]
MCEndingAuthorizations ==
    [guardian : Guardians, student : Students, from : {Sec(0)}, until : {Sec(2)}]

Policy == INSTANCE Eligibility

Day(y, m, d)    == [year |-> y, month |-> m, day |-> d]
Limits(low, up) == [min |-> low, max |-> up]

\* st2, born on the 29th of February, turns 13 on the day of the slots; young
\* does so a day later.
MCStudent == [st \in Students |->
    [role |-> "student", active |-> TRUE, ability |-> 3,
     birth |-> CASE st = st2   -> Day(2012, 2, 29)
                 [] st = young -> Day(2012, 3, 2)
                 [] OTHER      -> Day(2009, 7, 15)]]
MCSlotRules ==
    [starts |-> Day(2025, 3, 1), abilities |-> Limits(2, 5), ages |-> Limits(13, 17)]

MCEligible == { p \in Students \X Slots : Policy!IsEligible(MCStudent[p[1]], MCSlotRules) }

\* In the runs with as many keys as bookings every actor always has an unused
\* key, so the idempotency rows enable and disable nothing: leave them out of
\* the state TLC compares.
WithoutKeys == <<slots, assignments, bookings, waitlist, ledger, checkins, closures, jobs, now>>

MCNoneReserved == [s \in Slots |-> 0]
MCOneReserved  == [s \in Slots |-> IF s = s1 THEN 1 ELSE 0]
=============================================================================
