----------------------------- MODULE SerialMint ------------------------------
(***************************************************************************)
(* What one delegated run announces: it is refused, or it starts, tells    *)
(* one result for each receiver, one after the other, and closes with the  *)
(* tally of what it told.  It stops at the first result it cannot vouch    *)
(* for.  A run that cannot even begin may be abandoned unannounced.        *)
(***************************************************************************)
EXTENDS Naturals, Sequences, FiniteSets

CONSTANT Count  \* of receivers

VARIABLES
    phase,  \* "new", "refused", "open", "abandoned" or "complete"
    told,   \* the results told so far
    tally   \* minted and attempted, as told at the end

vars == <<phase, told, tally>>

Results == {"minted", "reverted", "failed", "unconfirmed"}
NoTally == [minted |-> 0, attempted |-> 0]

Init == phase = "new" /\ told = <<>> /\ tally = NoTally

Refuse ==
    /\ phase = "new"
    /\ phase' = "refused"
    /\ UNCHANGED <<told, tally>>

Start ==
    /\ phase = "new"
    /\ phase' = "open"
    /\ UNCHANGED <<told, tally>>

Abandon ==
    /\ phase = "open" /\ told = <<>>
    /\ phase' = "abandoned"
    /\ UNCHANGED <<told, tally>>

Sure == \A i \in 1 .. Len(told) : told[i] # "unconfirmed"

Complete(results) ==
    /\ phase' = "complete"
    /\ tally' = [minted |-> Cardinality({i \in 1 .. Len(results) : results[i] = "minted"}),
                 attempted |-> Len(results)]

\* The last result and the tally are told in one breath.
Tell ==
    /\ phase = "open"
    /\ Len(told) < Count /\ Sure
    /\ \E r \in Results :
          /\ told' = Append(told, r)
          /\ IF r = "unconfirmed" \/ Len(told') = Count
             THEN Complete(told')
             ELSE UNCHANGED <<phase, tally>>

Next == Refuse \/ Start \/ Abandon \/ Tell

Spec == Init /\ [][Next]_vars
==============================================================================
