---------------------------- MODULE MintOutcome ------------------------------
(***************************************************************************)
(* What a fire promises about each wallet: one outcome, told once, and     *)
(* true.  "minted" and "reverted" are what the chain says; "unconfirmed"   *)
(* only when somebody accepted the transaction, "failed" only when nobody  *)
(* did.  How it is broadcast and how a receipt is found do not show.       *)
(***************************************************************************)
CONSTANT Wallets

VARIABLES
    chain,    \* what became of each wallet's transaction
    acked,    \* wallets whose transaction an endpoint accepted
    outcome,  \* what was reported
    phase     \* "firing", "returned", or "bailed" without trying

vars == <<chain, acked, outcome, phase>>

Init ==
    /\ chain = [w \in Wallets |-> "absent"]
    /\ acked = {}
    /\ outcome = [w \in Wallets |-> "none"]
    /\ phase = "firing"

\* A transaction that reached a node may be included without anybody having
\* been told that it was accepted.
Reach(w) ==
    /\ outcome[w] = "none"
    /\ chain' = [chain EXCEPT ![w] = IF @ = "absent" THEN "pending" ELSE @]
    /\ acked' \in {acked, acked \union {w}}
    /\ UNCHANGED <<outcome, phase>>

Mine(w) ==
    /\ chain[w] = "pending"
    /\ \E status \in {"success", "reverted"} :
          chain' = [chain EXCEPT ![w] = status]
    /\ UNCHANGED <<acked, outcome, phase>>

Outcomes == {"minted", "reverted", "unconfirmed", "failed"}

Holds(w, r) ==
    \/ r = "failed" /\ w \notin acked
    \/ r = "unconfirmed" /\ w \in acked
    \/ r = "minted" /\ w \in acked /\ chain[w] = "success"
    \/ r = "reverted" /\ w \in acked /\ chain[w] = "reverted"

Report(w) ==
    /\ phase = "firing"
    /\ outcome[w] = "none"
    /\ \E r \in Outcomes :
          Holds(w, r) /\ outcome' = [outcome EXCEPT ![w] = r]
    /\ UNCHANGED <<chain, acked, phase>>

Return ==
    /\ phase = "firing"
    /\ \A w \in Wallets : outcome[w] # "none"
    /\ phase' = "returned"
    /\ UNCHANGED <<chain, acked, outcome>>

\* There is nothing to broadcast to.
Bail ==
    /\ phase = "firing"
    /\ acked = {}
    /\ \A w \in Wallets : outcome[w] = "none"
    /\ phase' = "bailed"
    /\ UNCHANGED <<chain, acked, outcome>>

Next ==
    \/ \E w \in Wallets : Reach(w) \/ Mine(w) \/ Report(w)
    \/ Return \/ Bail

Spec == Init /\ [][Next]_vars
==============================================================================
