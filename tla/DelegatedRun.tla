---------------------------- MODULE DelegatedRun -----------------------------
(***************************************************************************)
(* Delegated minting (delegated/executor.rs, run_delegated_mint): the      *)
(* operator mints to one receiver after the other, waiting for a receipt   *)
(* before it goes on.  Each FireDelegated spawns a run of its own          *)
(* (main.rs:1234-1260); all of them send from the operator's one account.  *)
(*                                                                         *)
(* A node takes a transaction unless its nonce was used, and replaces a    *)
(* pending one of the same nonce only for a higher fee.  A send that       *)
(* returned an error may have arrived all the same.                        *)
(*                                                                         *)
(* A definition named Bug... is a faulty variant of the one that follows   *)
(* it.  Next uses none of them.                                            *)
(***************************************************************************)
EXTENDS Naturals, Sequences

CONSTANTS
    Runs,   \* the runs that are started
    Count,  \* delegate_count
    Fees    \* the fees a gas price may lead to

ASSUME DelegatedRunAssumption == Count \in Nat \ {0} /\ Fees \subseteq Nat

VARIABLES
    stage,   \* per run: where run_delegated_mint is
    current, \* per run: the receiver of the loop
    nonce,   \* per run: the operator's nonce as the run believes it
    signed,  \* per run: the transactions it signed, per receiver
    told,    \* per run: the results sent, in order
    tally,   \* per run: minted and attempted
    used,    \* the operator's nonce on chain
    pool,    \* pending transactions of the operator
    ledger   \* included transactions of the operator, and what they came to

run   == <<stage, current, nonce, signed, told, tally>>
chain == <<used, pool, ledger>>
vars  == <<run, chain>>

Receivers == 1 .. Count
NoTx == [receiver |-> 0, nonce |-> 0, fee |-> 0]
Txs == [receiver : Receivers, nonce : Nat, fee : Fees]
Statuses == {"minted", "reverted"}
Results == Statuses \union {"failed", "unconfirmed"}
Ended == {"refused", "abandoned", "complete"}

TypeOK ==
    /\ stage \in [Runs -> {"idle", "preflight", "opening", "attempt",
                           "broadcast", "receipt"} \union Ended]
    /\ current \in [Runs -> Receivers]
    /\ nonce \in [Runs -> Nat]
    /\ signed \in [Runs -> [Receivers -> Txs \union {NoTx}]]
    /\ told \in [Runs -> Seq(Results)]
    /\ tally \in [Runs -> [minted : Nat, attempted : 0 .. Count]]
    /\ used \in Nat
    /\ pool \subseteq Txs
    /\ ledger \in Seq([tx : Txs, status : Statuses]) /\ Len(ledger) = used

Init ==
    /\ stage = [r \in Runs |-> "idle"]
    /\ current = [r \in Runs |-> 1]
    /\ nonce = [r \in Runs |-> 0]
    /\ signed = [r \in Runs |-> [i \in Receivers |-> NoTx]]
    /\ told = [r \in Runs |-> <<>>]
    /\ tally = [r \in Runs |-> [minted |-> 0, attempted |-> 0]]
    /\ used = 0
    /\ pool = {}
    /\ ledger = <<>>

------------------------------------------------------------------------------
(* The operator's account.                                                 *)

Include(tx) ==
    /\ tx \in pool
    /\ tx.nonce = used
    /\ \E s \in Statuses : ledger' = Append(ledger, [tx |-> tx, status |-> s])
    /\ used' = used + 1
    /\ pool' = {t \in pool : t.nonce > used}
    /\ UNCHANGED run

\* Nodes forget a transaction that pays too little.
Evict(tx) ==
    /\ tx \in pool
    /\ pool' = pool \ {tx}
    /\ UNCHANGED <<run, used, ledger>>

Acceptable(tx) ==
    /\ tx.nonce >= used
    /\ \A t \in pool : t.nonce = tx.nonce => t.fee < tx.fee

Arrive(tx) == pool' = {t \in pool : t.nonce # tx.nonce} \union {tx}

------------------------------------------------------------------------------
(* A run.                                                                  *)

Move(r, to) == stage' = [stage EXCEPT ![r] = to]

Fire(r) ==
    /\ stage[r] = "idle"
    /\ Move(r, "preflight")
    /\ UNCHANGED <<current, nonce, signed, told, tally, chain>>

\* No mnemonic, a bad address, no RPC, a mismatch, or any other failure.
Refuse(r) ==
    /\ stage[r] = "preflight"
    /\ Move(r, "refused")
    /\ UNCHANGED <<current, nonce, signed, told, tally, chain>>

\* The preflight passed: DelegatedRunStarted.
Start(r) ==
    /\ stage[r] = "preflight"
    /\ Move(r, "opening")
    /\ UNCHANGED <<current, nonce, signed, told, tally, chain>>

\* getPublicDrop, the chain id or the nonce cannot be read.
Abandon(r) ==
    /\ stage[r] = "opening"
    /\ Move(r, "abandoned")
    /\ UNCHANGED <<current, nonce, signed, told, tally, chain>>

ReadNonce(r) ==
    /\ stage[r] = "opening"
    /\ nonce' = [nonce EXCEPT ![r] = used]
    /\ Move(r, "attempt")
    /\ UNCHANGED <<current, signed, told, tally, chain>>

BugTellGoesOn(r, result) ==
    /\ told' = [told EXCEPT ![r] = Append(@, result)]
    /\ tally' = [tally EXCEPT ![r].attempted = @ + 1,
                              ![r].minted = IF result = "minted" THEN @ + 1 ELSE @]
    /\ IF current[r] = Count
       THEN Move(r, "complete") /\ UNCHANGED current
       ELSE Move(r, "attempt") /\ current' = [current EXCEPT ![r] = @ + 1]

BugTellCountsReverts(r, result) ==
    /\ told' = [told EXCEPT ![r] = Append(@, result)]
    /\ tally' = [tally EXCEPT ![r].attempted = @ + 1,
                              ![r].minted = IF result \in Statuses THEN @ + 1 ELSE @]
    /\ IF result = "unconfirmed" \/ current[r] = Count
       THEN Move(r, "complete") /\ UNCHANGED current
       ELSE Move(r, "attempt") /\ current' = [current EXCEPT ![r] = @ + 1]

\* Tell the result of the current receiver, and what the loop does then.  The
\* run closes with its tally after the last receiver or at an ambiguous one.
Tell(r, result) ==
    /\ told' = [told EXCEPT ![r] = Append(@, result)]
    /\ tally' = [tally EXCEPT ![r].attempted = @ + 1,
                              ![r].minted = IF result = "minted" THEN @ + 1 ELSE @]
    /\ IF result = "unconfirmed" \/ current[r] = Count
       THEN Move(r, "complete") /\ UNCHANGED current
       ELSE Move(r, "attempt") /\ current' = [current EXCEPT ![r] = @ + 1]

\* The calldata, the gas price, the gas estimate or the signature fails.
AttemptFails(r) ==
    /\ stage[r] = "attempt"
    /\ Tell(r, "failed")
    /\ UNCHANGED <<nonce, signed, chain>>

Sign(r) ==
    /\ stage[r] = "attempt"
    /\ \E fee \in Fees :
          signed' = [signed EXCEPT ![r][current[r]] =
                        [receiver |-> current[r], nonce |-> nonce[r], fee |-> fee]]
    /\ Move(r, "broadcast")
    /\ UNCHANGED <<current, nonce, told, tally, chain>>

Tx(r) == signed[r][current[r]]

SendAccepted(r) ==
    /\ stage[r] = "broadcast"
    /\ Acceptable(Tx(r))
    /\ Arrive(Tx(r))
    /\ Move(r, "receipt")
    /\ UNCHANGED <<current, nonce, signed, told, tally, used, ledger>>

BugSendFailsAdvancing(r) ==
    /\ stage[r] = "broadcast"
    /\ Tell(r, "failed")
    /\ nonce' = [nonce EXCEPT ![r] = @ + 1]
    /\ UNCHANGED <<signed, chain>>

\* An error, from the node or on the way; the nonce is not advanced.
SendFails(r) ==
    /\ stage[r] = "broadcast"
    /\ \/ UNCHANGED pool
       \/ Acceptable(Tx(r)) /\ Arrive(Tx(r))
    /\ Tell(r, "failed")
    /\ UNCHANGED <<nonce, signed, used, ledger>>

BugReceiptIsMint(r) ==
    /\ stage[r] = "receipt"
    /\ \E k \in 1 .. Len(ledger) : ledger[k].tx = Tx(r) /\ Tell(r, "minted")
    /\ nonce' = [nonce EXCEPT ![r] = @ + 1]
    /\ UNCHANGED <<signed, chain>>

\* A receipt: the nonce is consumed, whatever its status.
ReceiptFound(r) ==
    /\ stage[r] = "receipt"
    /\ \E k \in 1 .. Len(ledger) :
          ledger[k].tx = Tx(r) /\ Tell(r, ledger[k].status)
    /\ nonce' = [nonce EXCEPT ![r] = @ + 1]
    /\ UNCHANGED <<signed, chain>>

BugWaitWhilePending(r) ==
    /\ stage[r] = "receipt"
    /\ Tx(r) \in pool
    /\ Tell(r, "unconfirmed")
    /\ UNCHANGED <<nonce, signed, chain>>

\* Whether the nonce is consumed is unknown: the run stops.
ReceiptTimesOut(r) ==
    /\ stage[r] = "receipt"
    /\ Tell(r, "unconfirmed")
    /\ UNCHANGED <<nonce, signed, chain>>

------------------------------------------------------------------------------
Step(r) ==
    \/ Refuse(r) \/ Start(r) \/ Abandon(r) \/ ReadNonce(r)
    \/ AttemptFails(r) \/ Sign(r)
    \/ SendAccepted(r) \/ SendFails(r)
    \/ ReceiptFound(r) \/ ReceiptTimesOut(r)

Next ==
    \/ \E r \in Runs : Fire(r) \/ Step(r)
    \/ \E tx \in pool : Include(tx) \/ Evict(tx)

\* Only the wait for a receipt has a timeout; no other RPC call has one.
Fairness == \A r \in Runs : WF_vars(ReceiptFound(r) \/ ReceiptTimesOut(r))

Spec == Init /\ [][Next]_vars /\ Fairness

------------------------------------------------------------------------------
(* Safety.                                                                 *)

\* No run ever strands the operator's account: a pending transaction never
\* waits for a nonce that no transaction carries, however sends fail and
\* however many runs there are.
NoNonceGap == \A tx \in pool : tx.nonce <= used

\* A result is what the chain says of the very transaction the run signed,
\* also when another run replaced or duplicated it.
ResultsTrue ==
    \A r \in Runs : \A i \in 1 .. Len(told[r]) :
        told[r][i] \in Statuses =>
            \E k \in 1 .. Len(ledger) :
                ledger[k] = [tx |-> signed[r][i], status |-> told[r][i]]

\* One transaction at a time: a run signs only when none of its earlier ones
\* may still be included, except those whose send failed.
Serial ==
    \A r \in Runs : \A i \in Receivers :
        (stage[r] \in {"attempt", "broadcast"} /\ i < current[r] /\ signed[r][i] \in pool)
            => told[r][i] = "failed"

\* A run starts, tells each result once and in order, stops when it cannot
\* know, and its tally is that of the results it told (SerialMint).
PhaseOf(r) ==
    CASE stage[r] \in {"idle", "preflight"} -> "new"
      [] stage[r] \in Ended -> stage[r]
      [] OTHER -> "open"
TallyOf(r) ==
    IF stage[r] = "complete" THEN tally[r] ELSE [minted |-> 0, attempted |-> 0]
Announced(r) == INSTANCE SerialMint WITH
    phase <- PhaseOf(r), told <- told[r], tally <- TallyOf(r)
AnnouncesSerially ==
    /\ \A r \in Runs : Announced(r)!Init
    /\ [][\A r \in Runs : [Announced(r)!Next]_(Announced(r)!vars)]_vars

------------------------------------------------------------------------------
(* Liveness.                                                               *)

\* A run that was fired ends, whatever becomes of its transactions, unless an
\* RPC call outside the wait for a receipt is never answered.
Calls == {"preflight", "opening", "attempt", "broadcast"}
EveryRunEnds ==
    \A r \in Runs : stage[r] = "preflight" ~>
        (stage[r] \in Ended \/ \E s \in Calls : [](stage[r] = s))
==============================================================================
