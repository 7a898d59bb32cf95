------------------------------ MODULE MCAccounts ------------------------------
(* A small instance of Accounts for TLC. *)
EXTENDS Accounts

CONSTANTS p1, p2, e1, e2, e3

MCProvisioned == {<<e2, "guardian">>, <<e3, "student">>, <<e3, "coach">>}
\* Both processes with one address, or each with its own.
MCConfigured  == [p \in Processes |-> IF p = p1 THEN {e1} ELSE {e1, e2}]
MCWindows     == {<<0, 1>>}

\* A session opened at 0 ends with second 1, half a second after which its text
\* says that it has not.
Sec(n)    == [sec |-> n, frac |-> [i \in Places |-> 0]]
Half(n)   == [sec |-> n, frac |-> [i \in Places |-> 1]]
MCMoments == {Sec(0), Half(1), Sec(2)}
=============================================================================
