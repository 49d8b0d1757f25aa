---------------------------- MODULE FirePrepared -----------------------------
(***************************************************************************)
(* One fire (executor.rs, fire_prepared): every wallet's task races the    *)
(* sequencer and all backup RPCs with one signed transaction, waits for a  *)
(* receipt wherever a send was accepted (inclusion.rs, wait_for_receipt),  *)
(* and reports exactly one MintResult.                                     *)
(*                                                                         *)
(* The tasks share the block ticker, a WebSocket subscription that wakes   *)
(* every wait at a new block; when it was never opened, or dies, waits     *)
(* poll.  Time is not modelled: a bounded await may end at any moment.     *)
(*                                                                         *)
(* A definition named Bug... is a faulty variant of the one that follows   *)
(* it.  Next uses none of them.                                            *)
(***************************************************************************)
EXTENDS Naturals

CONSTANTS
    Wallets,    \* the wallets that fire
    MaxBackups  \* bound on http_rpc_urls

ASSUME FirePreparedAssumption == MaxBackups \in Nat

VARIABLES
    backups,    \* how many backup providers were warmed
    sequencer,  \* a sequencer provider was warmed
    reads,      \* the sequencer endpoint answers eth_getTransactionReceipt
    seqUrl,     \* sequencer_http_url is set in the configuration of the fire
    jitterOk,   \* jitter_ms_min <= jitter_ms_max, or jitter_ms_max = 0
    phase,      \* "called", "firing", "returned" or "bailed"
    task,       \* per wallet: where its task is
    seqSend,    \* per wallet: what the send to the sequencer came to
    wait,       \* per wallet and backup: its send and its wait for a receipt;
                \* 0 is the wait that stands in when all backups fail
    chain,      \* per wallet: what became of its transaction
    ticker,     \* the block ticker: "none", "live" or "dead"
    outcome,    \* per wallet: the MintResult reported
    source      \* per wallet: its ack_source

setup   == <<backups, sequencer, reads, seqUrl, jitterOk>>
results == <<outcome, source>>
vars    == <<setup, phase, task, seqSend, wait, chain, ticker, results>>

Slots == 0 .. MaxBackups
Backups == 1 .. backups

\* "check": asking for the receipt; "sleep": until the next block or poll.
Waiting == {"check", "sleep"}
Accepted == Waiting \union {"included", "timedout"}
Settled == {"included", "timedout", "failed"}
Stages == {"none", "sending"} \union Waiting \union Settled
Mined == {"success", "reverted"}

TypeOK ==
    /\ backups \in Slots
    /\ sequencer \in BOOLEAN
    /\ reads \in BOOLEAN
    /\ seqUrl \in BOOLEAN
    /\ jitterOk \in BOOLEAN
    /\ phase \in {"called", "firing", "returned", "bailed"}
    /\ task \in [Wallets -> {"jitter", "race", "fallback", "done"}]
    /\ seqSend \in [Wallets -> {"none", "sending", "acked", "failed"}]
    /\ wait \in [Wallets -> [Slots -> Stages]]
    /\ chain \in [Wallets -> {"absent", "pending"} \union Mined]
    /\ ticker \in {"none", "live", "dead"}
    /\ outcome \in [Wallets -> {"none", "minted", "reverted", "unconfirmed",
                                "ackOnly", "failed", "panicked"}]
    /\ source \in [Wallets -> {"none", "sequencer", "backup"}]

\* The providers were warmed when the loop armed; the configuration is read
\* again when it fires, and may have changed in between.
Init ==
    /\ backups \in Slots
    /\ sequencer \in BOOLEAN
    /\ reads \in BOOLEAN
    /\ seqUrl \in BOOLEAN
    /\ jitterOk \in BOOLEAN
    /\ phase = "called"
    /\ task = [w \in Wallets |-> "jitter"]
    /\ seqSend = [w \in Wallets |-> "none"]
    /\ wait = [w \in Wallets |-> [i \in Slots |-> "none"]]
    /\ chain = [w \in Wallets |-> "absent"]
    /\ ticker \in {"none", "live", "dead"}
    /\ outcome = [w \in Wallets |-> "none"]
    /\ source = [w \in Wallets |-> "none"]

------------------------------------------------------------------------------
(* The chain and the block subscription.                                   *)

\* A mined transaction stays as it is: reorganisations are left out.
Mine(w) ==
    /\ chain[w] = "pending"
    /\ \E status \in Mined : chain' = [chain EXCEPT ![w] = status]
    /\ UNCHANGED <<setup, phase, task, seqSend, wait, ticker, results>>

Tick ==
    /\ ticker = "live"
    /\ wait' = [w \in Wallets |->
                   [i \in Slots |->
                       IF wait[w][i] = "sleep" THEN "check" ELSE wait[w][i]]]
    /\ UNCHANGED <<setup, phase, task, seqSend, chain, ticker, results>>

TickerDies ==
    /\ ticker = "live"
    /\ ticker' = "dead"
    /\ UNCHANGED <<setup, phase, task, seqSend, wait, chain, results>>

------------------------------------------------------------------------------
(* Starting.                                                               *)

Bail ==
    /\ phase = "called"
    /\ backups = 0 /\ ~sequencer
    /\ phase' = "bailed"
    /\ UNCHANGED <<setup, task, seqSend, wait, chain, ticker, results>>

Begin ==
    /\ phase = "called"
    /\ backups > 0 \/ sequencer
    /\ phase' = "firing"
    /\ UNCHANGED <<setup, task, seqSend, wait, chain, ticker, results>>

\* The jitter sleep is over, or there is none: race all endpoints.
Dispatch(w) ==
    /\ phase = "firing"
    /\ task[w] = "jitter"
    /\ jitterOk
    /\ task' = [task EXCEPT ![w] = "race"]
    /\ seqSend' = [seqSend EXCEPT ![w] = IF sequencer THEN "sending" ELSE "none"]
    /\ wait' = [wait EXCEPT ![w] =
                   [i \in Slots |-> IF i \in Backups THEN "sending" ELSE "none"]]
    /\ UNCHANGED <<setup, phase, chain, ticker, results>>

\* gen_range panics on an empty range; the panic is awaited and reported.
JitterPanics(w) ==
    /\ phase = "firing"
    /\ task[w] = "jitter"
    /\ ~jitterOk
    /\ task' = [task EXCEPT ![w] = "done"]
    /\ outcome' = [outcome EXCEPT ![w] = "panicked"]
    /\ UNCHANGED <<setup, phase, seqSend, wait, chain, ticker, source>>

------------------------------------------------------------------------------
(* Sends.                                                                  *)

Reached(w) == [chain EXCEPT ![w] = IF @ = "absent" THEN "pending" ELSE @]

SequencerAcks(w) ==
    /\ seqSend[w] = "sending"
    /\ seqSend' = [seqSend EXCEPT ![w] = "acked"]
    /\ chain' = Reached(w)
    /\ UNCHANGED <<setup, phase, task, wait, ticker, results>>

\* An RPC error or SEND_RAW_TX_TIMEOUT.  The transaction may have arrived.
SequencerFails(w) ==
    /\ seqSend[w] = "sending"
    /\ seqSend' = [seqSend EXCEPT ![w] = "failed"]
    /\ chain' \in {chain, Reached(w)}
    /\ UNCHANGED <<setup, phase, task, wait, ticker, results>>

BackupAcks(w, i) ==
    /\ wait[w][i] = "sending"
    /\ wait' = [wait EXCEPT ![w][i] = "check"]
    /\ chain' = Reached(w)
    /\ UNCHANGED <<setup, phase, task, seqSend, ticker, results>>

BackupFails(w, i) ==
    /\ wait[w][i] = "sending"
    /\ wait' = [wait EXCEPT ![w][i] = "failed"]
    /\ chain' \in {chain, Reached(w)}
    /\ UNCHANGED <<setup, phase, task, seqSend, ticker, results>>

------------------------------------------------------------------------------
(* Waiting for a receipt.  The stand-in wait asks the first backup, or the *)
(* sequencer when there is none.                                           *)

Answers(i) == i = 0 /\ backups = 0 => reads

ReceiptFound(w, i) ==
    /\ wait[w][i] = "check"
    /\ chain[w] \in Mined
    /\ Answers(i)
    /\ wait' = [wait EXCEPT ![w][i] = "included"]
    /\ UNCHANGED <<setup, phase, task, seqSend, chain, ticker, results>>

\* Not included yet, an endpoint that lags behind, or an error.
ReceiptMissed(w, i) ==
    /\ wait[w][i] = "check"
    /\ wait' = [wait EXCEPT ![w][i] = "sleep"]
    /\ UNCHANGED <<setup, phase, task, seqSend, chain, ticker, results>>

BugPollNeverAfterPush(w, i) ==
    /\ wait[w][i] = "sleep"
    /\ ticker = "none"
    /\ wait' = [wait EXCEPT ![w][i] = "check"]
    /\ UNCHANGED <<setup, phase, task, seqSend, chain, ticker, results>>

\* Without a ticker, and after it died, a wait polls every block_time_ms.
Poll(w, i) ==
    /\ wait[w][i] = "sleep"
    /\ ticker # "live"
    /\ wait' = [wait EXCEPT ![w][i] = "check"]
    /\ UNCHANGED <<setup, phase, task, seqSend, chain, ticker, results>>

BugPushNeverTimesOut(w, i) ==
    /\ wait[w][i] \in Waiting
    /\ ticker # "live"
    /\ wait' = [wait EXCEPT ![w][i] = "timedout"]
    /\ UNCHANGED <<setup, phase, task, seqSend, chain, ticker, results>>

WaitTimesOut(w, i) ==
    /\ wait[w][i] \in Waiting
    /\ wait' = [wait EXCEPT ![w][i] = "timedout"]
    /\ UNCHANGED <<setup, phase, task, seqSend, chain, ticker, results>>

------------------------------------------------------------------------------
(* The verdict.                                                            *)

RaceOver(w) ==
    /\ task[w] = "race"
    /\ seqSend[w] # "sending"
    /\ \A i \in Backups : wait[w][i] \in Settled

BugNeedsFallback(w) ==
    /\ seqSend[w] = "acked"
    /\ \A i \in Backups : wait[w][i] = "failed"
    /\ backups > 0

\* Every backup failed (or there is none), but the sequencer took it.
NeedsFallback(w) ==
    /\ seqSend[w] = "acked"
    /\ \A i \in Backups : wait[w][i] = "failed"

Fallback(w) ==
    /\ RaceOver(w)
    /\ NeedsFallback(w)
    /\ task' = [task EXCEPT ![w] = "fallback"]
    /\ wait' = [wait EXCEPT ![w][0] = "check"]
    /\ UNCHANGED <<setup, phase, seqSend, chain, ticker, results>>

Some(w, stage) == \E i \in Slots : wait[w][i] = stage

BugVerdictBroadcastIsMinted(w) ==
    IF Some(w, "included") \/ Some(w, "timedout") THEN "minted" ELSE "failed"

BugVerdictTimeoutFirst(w) ==
    IF Some(w, "timedout") THEN "unconfirmed"
    ELSE IF Some(w, "included")
         THEN IF chain[w] = "success" THEN "minted" ELSE "reverted"
    ELSE IF seqSend[w] = "acked" THEN "ackOnly"
    ELSE "failed"

\* The first Included, else the first TimedOut, else the bare ack, else none.
Verdict(w) ==
    IF Some(w, "included")
    THEN IF chain[w] = "success" THEN "minted" ELSE "reverted"
    ELSE IF Some(w, "timedout") THEN "unconfirmed"
    ELSE IF seqSend[w] = "acked" THEN "ackOnly"
    ELSE "failed"

\* The sequencer's ack is preferred whenever there is one; its name is told
\* by comparing it with sequencer_http_url of the configuration of now.
Source(w) ==
    IF Verdict(w) = "failed" THEN "none"
    ELSE IF seqSend[w] = "acked" /\ seqUrl THEN "sequencer"
    ELSE IF Verdict(w) = "ackOnly" THEN "sequencer"
    ELSE "backup"

Conclude(w) ==
    /\ \/ RaceOver(w) /\ ~NeedsFallback(w)
       \/ task[w] = "fallback" /\ wait[w][0] \in Settled
    /\ task' = [task EXCEPT ![w] = "done"]
    /\ outcome' = [outcome EXCEPT ![w] = Verdict(w)]
    /\ source' = [source EXCEPT ![w] = Source(w)]
    /\ UNCHANGED <<setup, phase, seqSend, wait, chain, ticker>>

Return ==
    /\ phase = "firing"
    /\ \A w \in Wallets : task[w] = "done"
    /\ phase' = "returned"
    /\ UNCHANGED <<setup, task, seqSend, wait, chain, ticker, results>>

------------------------------------------------------------------------------
Sends(w) ==
    \/ SequencerAcks(w) \/ SequencerFails(w)
    \/ \E i \in Slots : BackupAcks(w, i) \/ BackupFails(w, i)

TimeOut == \E w \in Wallets, i \in Slots : WaitTimesOut(w, i)

Next ==
    \/ Bail \/ Begin \/ Return
    \/ Tick \/ TickerDies \/ TimeOut
    \/ \E w \in Wallets :
          \/ Mine(w)
          \/ Dispatch(w) \/ JitterPanics(w) \/ Sends(w)
          \/ Fallback(w) \/ Conclude(w)
          \/ \E i \in Slots : ReceiptFound(w, i) \/ ReceiptMissed(w, i) \/ Poll(w, i)

\* Tasks run, sends are bounded by SEND_RAW_TX_TIMEOUT, a live subscription
\* delivers blocks, and an endpoint that is asked for the receipt of a mined
\* transaction again and again answers with it once.  Timeouts are not fair
\* here: what must not depend on them holds without them.
Fairness ==
    /\ WF_vars(Bail \/ Begin) /\ WF_vars(Return) /\ WF_vars(Tick)
    /\ \A w \in Wallets :
          /\ WF_vars(Dispatch(w) \/ JitterPanics(w)) /\ WF_vars(Sends(w))
          /\ WF_vars(Fallback(w)) /\ WF_vars(Conclude(w))
          /\ \A i \in Slots : SF_vars(ReceiptFound(w, i)) /\ WF_vars(Poll(w, i))

Spec == Init /\ [][Next]_vars /\ Fairness

------------------------------------------------------------------------------
(* Safety.                                                                 *)

\* A task never ends without a MintResult, panics included (executor.rs:
\* 805-817, "every fire-path outcome must be a result or a logged error").
NobodySilent == \A w \in Wallets : task[w] = "done" => outcome[w] # "none"

\* A wallet whose transaction the sequencer took is always confirmed or timed
\* out by somebody: the branch for a bare ack is unreachable, whichever
\* backups failed and however few there are (executor.rs:739-747).
NoBareAck == \A w \in Wallets : outcome[w] # "ackOnly"

\* A receipt seen by any endpoint decides, whatever the others came to.
InclusionDecides ==
    \A w \in Wallets :
        task[w] = "done" /\ Some(w, "included") => outcome[w] \in {"minted", "reverted"}

\* What ack_source says when the configuration of the fire is the one the
\* endpoints were warmed from: the sequencer if it took the transaction, a
\* backup if only a backup did, nobody if nobody did (bus.rs:62-76).
Took(w) ==
    IF seqSend[w] = "acked" THEN "sequencer"
    ELSE IF \E i \in Backups : wait[w][i] \in Accepted THEN "backup"
    ELSE "none"
SourceIsTrue ==
    seqUrl = sequencer => \A w \in Wallets : task[w] = "done" => source[w] = Took(w)

\* Each wallet's one report is true and final (MintOutcome).
Taken == {w \in Wallets : \/ seqSend[w] = "acked"
                          \/ \E i \in Slots : wait[w][i] \in Accepted}
Told ==
    [w \in Wallets |->
        IF outcome[w] = "ackOnly" THEN "unconfirmed"
        ELSE IF outcome[w] = "panicked" THEN "failed"
        ELSE outcome[w]]
ToldPhase == IF phase = "called" THEN "firing" ELSE phase

Promise == INSTANCE MintOutcome WITH
    acked <- Taken, outcome <- Told, phase <- ToldPhase
KeepsPromise == Promise!Spec

------------------------------------------------------------------------------
(* Liveness.                                                               *)

\* A mined transaction is noticed by every endpoint still waiting for it,
\* without the help of the timeout, also when the subscription dies in the
\* middle (inclusion.rs:184-196).
InclusionNoticed ==
    \A w \in Wallets, i \in Slots :
        (wait[w][i] \in Waiting /\ chain[w] \in Mined /\ Answers(i))
            ~> wait[w][i] \in Settled

\* With the timeouts a fire always returns to the loop that waits for it.
AlwaysReturns == WF_vars(TimeOut) => <>(phase \in {"returned", "bailed"})
==============================================================================
