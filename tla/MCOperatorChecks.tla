-------------------------- MODULE MCOperatorChecks ---------------------------
(***************************************************************************)
(* The two checks an operator's actions wait for, on a small instance.     *)
(* They share no variable, so a behaviour of both is an interleaving of    *)
(* one of each, and either is explored while the other rests in one        *)
(* initial state of its own.                                               *)
(***************************************************************************)
EXTENDS ClockCheck, AgeSearch

\* The epoch, the ends of months, years, centuries and an era, and year 0.
SomeStarts ==
    {[y |-> y, m |-> 2, d |-> 28] : y \in {0, 1900, 2000, 2024, 2025}}
    \union {[y |-> y, m |-> 12, d |-> 31] : y \in {1969, 1999, 2026}}
    \union {[y |-> 2000, m |-> 2, d |-> 29], [y |-> 0, m |-> 1, d |-> 1],
            [y |-> 2025, m |-> 4, d |-> 30], [y |-> 2025, m |-> 7, d |-> 31]}

\* On both sides of each limit of the gate, and no offset at all.
SomeOffsets == {-10, -9, -4, -3, 0, 2, 3, 7, 8}

AgeRests ==
    height = 0 /\ search = "idle" /\ \A b \in DOMAIN code : ~ code[b]

ClockRests ==
    ticks = 0 /\ check = "idle" /\ offset = 0 /\ date = [y |-> 0, m |-> 1, d |-> 1]

Init == ClockInit /\ AgeInit /\ (AgeRests \/ ClockRests)

Next ==
    \/ AgeRests /\ ClockNext /\ UNCHANGED ageVars
    \/ ClockRests /\ AgeNext /\ UNCHANGED clockVars

Spec == Init /\ [][Next]_<<clockVars, ageVars>>
==============================================================================
