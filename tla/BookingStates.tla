--------------------------- MODULE BookingStates ---------------------------
(***************************************************************************)
(* The states of a booking and of a closure and the moves between them     *)
(* that domain/state.go allows.  The status strings are the ones stored in *)
(* the database (domain/types.go).                                         *)
(***************************************************************************)

Held       == "held"
Confirmed  == "confirmed"
Waitlisted == "waitlisted"
Cancelled  == "cancelled"
CheckedIn  == "checked_in"
NoShow     == "no_show"

BookingStatus == {Held, Confirmed, Waitlisted, Cancelled, CheckedIn, NoShow}

bookingTransitions ==
    { <<Held, Confirmed>>,      <<Held, Cancelled>>,      <<Held, NoShow>>,
      <<Confirmed, Cancelled>>, <<Confirmed, CheckedIn>>, <<Confirmed, NoShow>>,
      <<Waitlisted, Held>>,     <<Waitlisted, Cancelled>> }

CanTransitionBooking(from, to) == <<from, to>> \in bookingTransitions

\* A closure row is inserted as planned and applied by the same transaction,
\* so "planned" is never visible; "absent" is a row not inserted yet.
ClosureStatus == {"absent", "applied", "reopened"}

closureTransitions == { <<"absent", "applied">>, <<"applied", "reopened">> }

\* Statuses the partial index bookings_active_student_slot_idx covers.
ActiveStatus == {Held, Confirmed, Waitlisted, CheckedIn}

\* The statuses whose booking occupies a seat counted in slots.reserved.
SeatedStatus == {Held, Confirmed, CheckedIn}
=============================================================================
