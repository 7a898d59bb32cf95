---------------------- MODULE LedgerImplementsRegister ----------------------
(***************************************************************************)
(* The booking ledger implements the seat register: bookings are tickets,  *)
(* numbered by their AUTOINCREMENT ids, and the tables' counters, statuses *)
(* and wait list positions serve people in the order of their ids.         *)
(***************************************************************************)
EXTENDS SlotLedger

OpenSlots   == { s \in Slots : slots[s].status = "open" }
WaitingIn(s) == { b \in BookingIds : bookings[b].slot = s /\ bookings[b].status = Waitlisted }

Register == INSTANCE SeatRegister WITH
    Sizes   <- Capacities,
    Taken   <- InitialReserved,
    places  <- [s \in Slots |-> slots[s].capacity],
    open    <- OpenSlots,
    seated  <- [s \in Slots |-> Seated(s)],
    waiting <- [s \in Slots |-> WaitingIn(s)],
    last    <- Len(bookings)

\* Whatever the services do to the tables, what a user sees is the register:
\* seats are neither lost nor handed out twice, somebody who leaves is followed
\* by whoever has waited longest, and nobody sits down in a closed slot.
ImplementsRegister == Register!Spec
=============================================================================
