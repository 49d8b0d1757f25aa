------------------------------ MODULE AgeSearch ------------------------------
(***************************************************************************)
(* estimate_contract_age_secs (target.rs): a binary search over the blocks *)
(* of the chain for the one a contract was deployed in.  Every probe is a  *)
(* call to an RPC endpoint, which may fail, and the chain grows meanwhile. *)
(* The contract may have been destroyed and deployed again: its code need  *)
(* not be there in every block after the first that has it.                *)
(*                                                                         *)
(* A definition named Bug... is a faulty variant of the one that follows   *)
(* it.  AgeNext uses none of them.                                         *)
(***************************************************************************)
EXTENDS Integers

CONSTANT MaxHeight \* bound on the blocks

ASSUME AgeAssumption == MaxHeight \in Nat

VARIABLES
    code,   \* of each block, those to come too: does the contract have code in it?
    height, \* the newest block
    search, \* "idle", "asked", "checking", "probing", "answered", "unknown"
    latest, \* the newest block when the search began
    lo, hi, \* what the search is down to
    power   \* 2 to the number of probes the search has made (history)

ageVars == <<code, height, search, latest, lo, hi, power>>

Searching == search \in {"asked", "checking", "probing"}

AgeTypeOK ==
    /\ code \in [0 .. MaxHeight -> BOOLEAN]
    /\ height \in 0 .. MaxHeight
    /\ search \in {"idle", "asked", "checking", "probing", "answered", "unknown"}
    /\ latest \in 0 .. height
    /\ lo \in 0 .. latest
    /\ hi \in 0 .. latest
    /\ power \in Nat \ {0}

AgeInit ==
    /\ code \in [0 .. MaxHeight -> BOOLEAN]
    /\ height = 0
    /\ search = "idle"
    /\ latest = 0
    /\ lo = 0
    /\ hi = 0
    /\ power = 1

\* A block is added to the chain.
Mine ==
    /\ height < MaxHeight
    /\ height' = height + 1
    /\ UNCHANGED <<code, search, latest, lo, hi, power>>

\* The operator has a target resolved.
Resolve ==
    /\ ~ Searching
    /\ search' = "asked"
    /\ UNCHANGED <<code, height, latest, lo, hi, power>>

ReadLatest ==
    /\ search = "asked"
    /\ search' = "checking"
    /\ latest' = height
    /\ lo' = 0
    /\ hi' = height
    /\ power' = 1
    /\ UNCHANGED <<code, height>>

\* A contract that has no code now has no age.
CheckLatest ==
    /\ search = "checking"
    /\ search' = IF code[latest] THEN "probing" ELSE "unknown"
    /\ UNCHANGED <<code, height, latest, lo, hi, power>>

Middle == lo + (hi - lo) \div 2

\* A probe that found no code and is not left behind.
BugProbeKeepsMiddle ==
    /\ search = "probing"
    /\ lo < hi
    /\ IF code[Middle] THEN hi' = Middle /\ UNCHANGED lo
                       ELSE lo' = Middle /\ UNCHANGED hi
    /\ power' = 2 * power
    /\ UNCHANGED <<code, height, search, latest>>

\* A probe that found code and is left behind all the same.
BugProbePastMiddle ==
    /\ search = "probing"
    /\ lo < hi
    /\ IF code[Middle] /\ Middle > lo THEN hi' = Middle - 1 /\ UNCHANGED lo
                                      ELSE lo' = Middle + 1 /\ UNCHANGED hi
    /\ power' = 2 * power
    /\ UNCHANGED <<code, height, search, latest>>

Probe ==
    /\ search = "probing"
    /\ lo < hi
    /\ IF code[Middle] THEN hi' = Middle /\ UNCHANGED lo
                       ELSE lo' = Middle + 1 /\ UNCHANGED hi
    /\ power' = 2 * power
    /\ UNCHANGED <<code, height, search, latest>>

\* The block found is read for its timestamp.
ReadBlock ==
    /\ search = "probing"
    /\ lo >= hi
    /\ search' = "answered"
    /\ UNCHANGED <<code, height, latest, lo, hi, power>>

\* A call fails: no age is given from half a search.
RpcFails ==
    /\ Searching
    /\ search' = "unknown"
    /\ UNCHANGED <<code, height, latest, lo, hi, power>>

AgeNext ==
    \/ Mine
    \/ Resolve
    \/ ReadLatest
    \/ CheckLatest
    \/ Probe
    \/ ReadBlock
    \/ RpcFails

AgeSpec == AgeInit /\ [][AgeNext]_ageVars

------------------------------------------------------------------------------
\* The block an age is computed from is one the contract was deployed in,
\* whatever was destroyed and deployed before and while the chain grows
\* (estimate_contract_age_secs, "never guesses a wrong age").
AgeIsADeployment ==
    search = "answered" => code[lo] /\ (lo = 0 \/ ~ code[lo - 1])

\* Where n is the newest block, a search makes floor(log2(n)) + 1 probes at
\* most, and none where n is 0, however the code comes and goes: an operator
\* who resolves a target does not spend an endpoint's quota (target.rs:186-188,
\* which says ceil(log2(n)): one less where n is a power of 2).
ProbesBounded == power = 1 \/ power <= 2 * latest
==============================================================================
