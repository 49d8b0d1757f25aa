----------------------------- MODULE ControlLoop -----------------------------
(***************************************************************************)
(* The control loop of mint-sniper (main.rs, control_loop): the one task   *)
(* that owns the wallet signers.  Everything that arms, disarms, retargets *)
(* or fires reaches it as a ControlMsg over one bounded FIFO channel.      *)
(*                                                                         *)
(* The processes around it are                                             *)
(*   - the HTTP handlers (and the copymint watcher), which send commands;  *)
(*   - per arm session, a watcher task (supervised unless it waits on the  *)
(*     clock), a forwarder that turns the watcher's trigger into a FireNow,*)
(*     and either a one-shot prepare timer or a periodic re-prepare task;  *)
(*   - the operator saving a configuration and the drop changing its price.*)
(*                                                                         *)
(* All wallets are signed, broadcast and advanced together (prepare_fire   *)
(* fails as a whole), so one nonce, relative to the nonces read at boot,   *)
(* stands for the next_nonce of every wallet.                              *)
(*                                                                         *)
(* A definition named Bug... is a faulty variant of the one that follows   *)
(* it.  Next uses none of them; they serve to show that properties bite.   *)
(***************************************************************************)
EXTENDS Integers, Sequences, FiniteSets

CONSTANTS
    QueueCap,     \* slots of the control channel
    Configs,      \* the configurations an operator may save
    Targets,      \* the drops (nft contracts) that may be minted
    Prices,       \* the prices a drop may ask
    Kinds,        \* the commands the outside world issues
    MaxRequests   \* bound on how many of them are issued

Modes == {"timestamp", "mempool_watch", "poll_state"}

\* The part of Config that control_loop branches on: `ts` is
\* trigger_timestamp_unix > 0, `gate` is clock_drift_refuse_arm_ms > 0,
\* `seadrop` is mint_mode = "seadrop", `rpcs` is a non-empty http_rpc_urls.
Config == [mode : Modes, ts : BOOLEAN, gate : BOOLEAN, seadrop : BOOLEAN,
           rpcs : BOOLEAN, quantity : Nat]

\* What a transaction does: the drop and quantity its calldata encodes, and
\* the msg.value it carries.
Mint == [nft : Targets, quantity : Nat, value : Nat]

CommandKinds == {"Arm", "Disarm", "FireNow", "FireDelegated"}
MintKinds == {"SetTarget", "FireCopymint"}

ASSUME ControlLoopAssumption ==
    /\ QueueCap \in Nat \ {0}
    /\ MaxRequests \in Nat
    /\ Configs \subseteq Config
    /\ Prices \subseteq Nat
    /\ Kinds \subseteq CommandKinds \union MintKinds

VARIABLES
    queue,      \* the control channel
    pc,         \* where control_loop is
    snap,       \* the configuration the latest Arm cloned
    armed,      \* AppState.armed
    watcher,    \* the task behind watcher_handle, "none" when there is none
    timer,      \* the prepare timer is sleeping
    reprepare,  \* the re-prepare task is alive
    warmed,     \* warmed_providers is not empty
    prepared,   \* prepared_fire: {} or the one batch signed ahead
    mint,       \* admin_watch_target, mint_calldata and mint_value
    nextNonce,  \* next_nonce of the wallets
    session,    \* how many times the loop has armed
    forwarding, \* sessions whose forwarder saw the trigger, FireNow not yet sent
    fires,      \* history: the batches FireNow broadcast
    copyFires,  \* history: the batches FireCopymint broadcast
    cfg,        \* AppState.config
    price,      \* what each drop asks on chain
    requests    \* how many commands were issued

loopVars == <<pc, snap, armed, watcher, timer, reprepare, warmed, prepared,
              mint, nextNonce, session>>
history  == <<fires, copyFires>>
world    == <<cfg, price, requests>>
vars     == <<queue, loopVars, forwarding, history, world>>

------------------------------------------------------------------------------
(* Messages and the channel.                                               *)

\* `from` is the arm session whose task sent the message, 0 for a command.
PlainMsg == [type : {"Arm", "Disarm", "FireNow", "FireDelegated", "Prepare"},
             from : Nat]
MintMsg  == [type : MintKinds, from : {0}, mint : Mint]
Message  == PlainMsg \union MintMsg

Plain(type, from) == [type |-> type, from |-> from]

\* A send waits for a free slot; once the loop is gone it fails at once.
Send(m) ==
    /\ pc # "panicked"
    /\ Len(queue) < QueueCap
    /\ queue' = Append(queue, m)

BugReceiveWhileFiring(type) ==
    /\ pc \in {"recv", "firing"}
    /\ queue # <<>>
    /\ Head(queue).type = type
    /\ queue' = Tail(queue)

Receive(type) ==
    /\ pc = "recv"
    /\ queue # <<>>
    /\ Head(queue).type = type
    /\ queue' = Tail(queue)

------------------------------------------------------------------------------
Batch == [nonce : Nat, mint : Mint]

\* `from`: whose trigger asked for the fire; `during`: the arm session that
\* was live when it was broadcast.  0 stands for a command, or no session.
Fire == [nonce : Nat, mint : Mint, from : Nat, during : Nat]

TypeOK ==
    /\ queue \in Seq(Message)
    /\ Len(queue) <= QueueCap
    /\ pc \in {"recv", "arming", "sendPrepare", "firing", "copymint", "panicked"}
    /\ snap \in Config
    /\ armed \in BOOLEAN
    /\ watcher \in {"none", "running", "triggered", "ended", "failing", "failed"}
    /\ timer \in BOOLEAN
    /\ reprepare \in BOOLEAN
    /\ warmed \in BOOLEAN
    /\ prepared \in SUBSET Batch
    /\ mint \in Mint
    /\ nextNonce \in Nat
    /\ session \in Nat
    /\ forwarding \subseteq Nat
    /\ fires \in Seq(Fire)
    /\ copyFires \in Seq(Batch)
    /\ cfg \in Config
    /\ price \in [Targets -> Prices]
    /\ requests \in Nat

\* main() reads http_rpc_urls[0] to reach the chain, so it boots with one.
Init ==
    /\ queue = <<>>
    /\ pc = "recv"
    /\ cfg \in {c \in Configs : c.rpcs}
    /\ snap = cfg
    /\ price \in [Targets -> Prices]
    /\ mint \in {[nft |-> t, quantity |-> cfg.quantity,
                  value |-> price[t] * cfg.quantity] : t \in Targets}
    /\ armed = FALSE
    /\ watcher = "none"
    /\ timer = FALSE
    /\ reprepare = FALSE
    /\ warmed = FALSE
    /\ prepared = {}
    /\ nextNonce = 0
    /\ session = 0
    /\ forwarding = {}
    /\ fires = <<>>
    /\ copyFires = <<>>
    /\ requests = 0

------------------------------------------------------------------------------
(* The outside world.                                                      *)

\* A mint resolved by a handler: it read price and quantity some awaits
\* before it sends, so they may be any that were ever current.
Resolved ==
    {[nft |-> t, quantity |-> c.quantity, value |-> p * c.quantity] :
        t \in Targets, c \in Configs, p \in Prices}

Commands ==
    {Plain(k, 0) : k \in Kinds \intersect CommandKinds}
        \union {[type |-> k, from |-> 0, mint |-> m] :
                    k \in Kinds \intersect MintKinds, m \in Resolved}

Request ==
    /\ requests < MaxRequests
    /\ requests' = requests + 1
    /\ \E m \in Commands : Send(m)
    /\ UNCHANGED <<loopVars, forwarding, history, cfg, price>>

PutConfig ==
    /\ cfg' \in Configs
    /\ UNCHANGED <<queue, loopVars, forwarding, history, price, requests>>

PriceMoves ==
    /\ price' \in [Targets -> Prices]
    /\ UNCHANGED <<queue, loopVars, forwarding, history, cfg, requests>>

------------------------------------------------------------------------------
(* The tasks of an arm session.  Aborting a task disables its actions.     *)

Supervised(c) == c.mode # "timestamp"

BugWatcherGoesOn ==
    /\ watcher = "running"
    /\ forwarding' = forwarding \union {session}
    /\ UNCHANGED <<queue, loopVars, history, world>>

\* Every watcher sets the trigger and returns; the forwarder wakes up.
WatcherTrigger ==
    /\ watcher = "running"
    /\ watcher' = "triggered"
    /\ forwarding' = forwarding \union {session}
    /\ UNCHANGED <<queue, pc, snap, armed, timer, reprepare, warmed, prepared,
                   mint, nextNonce, session, history, world>>

\* The WebSocket stream ends: the watcher leaves its loop and returns Ok.
WatcherEnds ==
    /\ watcher = "running"
    /\ Supervised(snap)
    /\ watcher' = "ended"
    /\ UNCHANGED <<queue, pc, snap, armed, timer, reprepare, warmed, prepared,
                   mint, nextNonce, session, forwarding, history, world>>

\* Connecting or subscribing fails: the watcher returns Err.
WatcherFails ==
    /\ watcher = "running"
    /\ Supervised(snap)
    /\ watcher' = "failing"
    /\ UNCHANGED <<queue, pc, snap, armed, timer, reprepare, warmed, prepared,
                   mint, nextNonce, session, forwarding, history, world>>

BugSuperviseSilently ==
    /\ watcher = "failing"
    /\ watcher' = "failed"
    /\ UNCHANGED <<queue, pc, snap, armed, timer, reprepare, warmed, prepared,
                   mint, nextNonce, session, forwarding, history, world>>

SuperviseDisarm ==
    /\ watcher = "failing"
    /\ Send(Plain("Disarm", session))
    /\ watcher' = "failed"
    /\ UNCHANGED <<pc, snap, armed, timer, reprepare, warmed, prepared,
                   mint, nextNonce, session, forwarding, history, world>>

BugTryForward(s) ==
    /\ s \in forwarding
    /\ \/ Send(Plain("FireNow", s))
       \/ Len(queue) = QueueCap /\ UNCHANGED queue
    /\ forwarding' = forwarding \ {s}
    /\ UNCHANGED <<loopVars, history, world>>

\* The forwarder is never tracked, so nothing aborts it.
ForwardFireNow(s) ==
    /\ s \in forwarding
    /\ Send(Plain("FireNow", s))
    /\ forwarding' = forwarding \ {s}
    /\ UNCHANGED <<loopVars, history, world>>

PrepareTimer ==
    /\ timer
    /\ Send(Plain("Prepare", session))
    /\ timer' = FALSE
    /\ UNCHANGED <<pc, snap, armed, watcher, reprepare, warmed, prepared,
                   mint, nextNonce, session, forwarding, history, world>>

ReprepareTick ==
    /\ reprepare
    /\ Send(Plain("Prepare", session))
    /\ UNCHANGED <<loopVars, forwarding, history, world>>

------------------------------------------------------------------------------
(* The handlers of control_loop.                                           *)

BugEndSessionLeavingTasks ==
    /\ watcher' = "none"
    /\ prepared' = {}
    /\ warmed' = FALSE
    /\ armed' = FALSE
    /\ UNCHANGED <<timer, reprepare>>

BugEndSessionLeavingBatch ==
    /\ watcher' = "none"
    /\ timer' = FALSE
    /\ reprepare' = FALSE
    /\ warmed' = FALSE
    /\ armed' = FALSE
    /\ UNCHANGED prepared

\* What Disarm, SetTarget and the end of FireNow share: abort the tasks and
\* forget everything that was warmed or signed for the session.
EndSession ==
    /\ watcher' = "none"
    /\ timer' = FALSE
    /\ reprepare' = FALSE
    /\ prepared' = {}
    /\ warmed' = FALSE
    /\ armed' = FALSE

ArmIgnored ==
    /\ Receive("Arm")
    /\ watcher # "none"
    /\ UNCHANGED <<loopVars, forwarding, history, world>>

\* The measured clock drift is at or above the configured threshold.
ArmRefused ==
    /\ Receive("Arm")
    /\ watcher = "none"
    /\ cfg.mode = "timestamp" /\ cfg.gate
    /\ UNCHANGED <<loopVars, forwarding, history, world>>

BeginArm ==
    /\ Receive("Arm")
    /\ watcher = "none"
    /\ pc' = "arming"
    /\ snap' = cfg
    /\ UNCHANGED <<armed, watcher, timer, reprepare, warmed, prepared, mint,
                   nextNonce, session, forwarding, history, world>>

\* A provider per endpoint, also when the probe of its connection fails.
Warms(c) == c.rpcs

\* Warming is over.  With a known instant a timer will ask for the prepare;
\* otherwise the loop asks itself, through its own channel.
CompleteArm ==
    /\ pc = "arming"
    /\ warmed' = Warms(snap)
    /\ prepared' = {}
    /\ armed' = TRUE
    /\ watcher' = "running"
    /\ session' = session + 1
    /\ \/ /\ snap.mode = "timestamp" /\ snap.ts
          /\ timer' = TRUE
          /\ pc' = "recv"
       \/ /\ ~(snap.mode = "timestamp" /\ snap.ts)
          /\ timer' = timer
          /\ pc' = "sendPrepare"
    /\ UNCHANGED <<queue, snap, reprepare, mint, nextNonce, forwarding,
                   history, world>>

SelfSendPrepare ==
    /\ pc = "sendPrepare"
    /\ Send(Plain("Prepare", session))
    /\ reprepare' = TRUE
    /\ pc' = "recv"
    /\ UNCHANGED <<snap, armed, watcher, timer, warmed, prepared, mint,
                   nextNonce, session, forwarding, history, world>>

PrepareSkipped ==
    /\ Receive("Prepare")
    /\ ~warmed
    /\ UNCHANGED <<loopVars, forwarding, history, world>>

Rechecks(c) == c.seadrop /\ c.mode # "timestamp"

\* fetch_public_drop answers with the price of now, or fails and the last
\* known value stays.
RecheckedValues ==
    IF Rechecks(cfg) THEN {mint.value, price[mint.nft] * cfg.quantity}
                     ELSE {mint.value}

\* prepare_fire takes next_nonce of every wallet and leaves it there.
Sign(m) == [nonce |-> nextNonce, mint |-> m]

\* Every time the same still unused nonce is signed; when that fails, the batch
\* of an earlier Prepare stays in place.
Prepare ==
    /\ Receive("Prepare")
    /\ warmed
    /\ Rechecks(cfg) => cfg.rpcs
    /\ \E v \in RecheckedValues : mint' = [mint EXCEPT !.value = v]
    /\ prepared' \in {prepared, {Sign(mint')}}
    /\ UNCHANGED <<pc, snap, armed, watcher, timer, reprepare, warmed,
                   nextNonce, session, forwarding, history, world>>

\* The re-check indexes http_rpc_urls[0] of the configuration of now, which
\* may have been saved empty: the task panics and its channel is gone.
PreparePanics ==
    /\ Receive("Prepare")
    /\ warmed
    /\ Rechecks(cfg) /\ ~cfg.rpcs
    /\ pc' = "panicked"
    /\ UNCHANGED <<snap, armed, watcher, timer, reprepare, warmed, prepared,
                   mint, nextNonce, session, forwarding, history, world>>

BugDisarmStaysArmed ==
    /\ Receive("Disarm")
    /\ watcher' = "none"
    /\ timer' = FALSE
    /\ reprepare' = FALSE
    /\ UNCHANGED <<pc, snap, mint, nextNonce, session, prepared, warmed, armed,
                   forwarding, history, world>>

Disarm ==
    /\ Receive("Disarm")
    /\ EndSession
    /\ UNCHANGED <<pc, snap, mint, nextNonce, session, forwarding, history, world>>

SetTarget ==
    /\ Receive("SetTarget")
    /\ EndSession
    /\ mint' = Head(queue).mint
    /\ UNCHANGED <<pc, snap, nextNonce, session, forwarding, history, world>>

Live == IF armed THEN session ELSE 0

BugBroadcastWithoutAdvance(b) ==
    /\ UNCHANGED nextNonce
    /\ fires' = Append(fires, [nonce |-> b.nonce, mint |-> b.mint,
                               from |-> Head(queue).from, during |-> Live])

\* advance_nonces, then fire_prepared: `b` is broadcast from here on.
Broadcast(b) ==
    /\ nextNonce' = nextNonce + 1
    /\ fires' = Append(fires, [nonce |-> b.nonce, mint |-> b.mint,
                               from |-> Head(queue).from, during |-> Live])

FirePrepared ==
    /\ Receive("FireNow")
    /\ \E b \in prepared : Broadcast(b)
    /\ prepared' = {}
    /\ pc' = "firing"
    /\ UNCHANGED <<snap, armed, watcher, timer, reprepare, warmed, mint,
                   session, forwarding, copyFires, world>>

\* Nothing was signed ahead: sign now, on warmed or fresh connections.
FireJustInTime ==
    /\ Receive("FireNow")
    /\ prepared = {}
    /\ warmed \/ Warms(cfg)
    /\ Broadcast(Sign(mint))
    /\ pc' = "firing"
    /\ UNCHANGED <<snap, armed, watcher, timer, reprepare, warmed, prepared,
                   mint, session, forwarding, copyFires, world>>

\* Signing now failed (a read timed out or reverted, or there is no RPC).
FireFails ==
    /\ Receive("FireNow")
    /\ prepared = {}
    /\ pc' = "firing"
    /\ UNCHANGED <<snap, armed, watcher, timer, reprepare, warmed, prepared,
                   mint, nextNonce, session, forwarding, history, world>>

EndFire ==
    /\ pc = "firing"
    /\ EndSession
    /\ pc' = "recv"
    /\ UNCHANGED <<queue, snap, mint, nextNonce, session, forwarding, history,
                   world>>

BugCopymintKeepsNonce ==
    /\ Receive("FireCopymint")
    /\ copyFires' = Append(copyFires, Sign(Head(queue).mint))
    /\ pc' = "copymint"
    /\ UNCHANGED <<snap, armed, watcher, timer, reprepare, warmed, prepared,
                   mint, nextNonce, session, forwarding, fires, world>>

\* A copymint fire signs and broadcasts beside whatever session is live.
BeginCopymint ==
    /\ Receive("FireCopymint")
    /\ \/ /\ warmed \/ Warms(cfg)
          /\ copyFires' = Append(copyFires, Sign(Head(queue).mint))
          /\ nextNonce' = nextNonce + 1
       \/ UNCHANGED <<copyFires, nextNonce>>
    /\ pc' = "copymint"
    /\ UNCHANGED <<snap, armed, watcher, timer, reprepare, warmed, prepared,
                   mint, session, forwarding, fires, world>>

EndCopymint ==
    /\ pc = "copymint"
    /\ pc' = "recv"
    /\ UNCHANGED <<queue, snap, armed, watcher, timer, reprepare, warmed,
                   prepared, mint, nextNonce, session, forwarding, history,
                   world>>

\* The run is spawned (module DelegatedRun); the loop keeps none of its state.
FireDelegated ==
    /\ Receive("FireDelegated")
    /\ UNCHANGED <<loopVars, forwarding, history, world>>

------------------------------------------------------------------------------
Loop ==
    \/ ArmIgnored \/ ArmRefused \/ BeginArm \/ CompleteArm \/ SelfSendPrepare
    \/ PrepareSkipped \/ Prepare \/ PreparePanics
    \/ Disarm \/ SetTarget
    \/ FirePrepared \/ FireJustInTime \/ FireFails \/ EndFire
    \/ BeginCopymint \/ EndCopymint \/ FireDelegated

Tasks ==
    \/ WatcherTrigger \/ WatcherEnds \/ WatcherFails \/ SuperviseDisarm
    \/ \E s \in forwarding : ForwardFireNow(s)
    \/ PrepareTimer \/ ReprepareTick

\* Every session began with a command.
Sessions == 1 .. MaxRequests

Next == Loop \/ Tasks \/ Request \/ PutConfig \/ PriceMoves

\* Every await of the loop is bounded by a timeout, so it makes progress.
\* Waiting senders are served in the order they came, so a send that keeps
\* finding slots is not overtaken for ever: strong fairness.
Fairness ==
    /\ WF_vars(Loop)
    /\ SF_vars(SuperviseDisarm)
    /\ \A s \in Sessions : SF_vars(ForwardFireNow(s))

Spec == Init /\ [][Next]_vars /\ Fairness

------------------------------------------------------------------------------
(* Safety.                                                                 *)

\* Outside a session nothing of an earlier one survives: no task is tracked,
\* nothing is warmed, nothing is signed.  This is the cleanup that Disarm,
\* SetTarget and the end of FireNow repeat (main.rs:1032-1049, 1128-1142,
\* 1197-1212) and that Arm relies on.
DisarmedIsClean ==
    ~armed => /\ watcher = "none"
              /\ ~timer /\ ~reprepare /\ ~warmed
              /\ prepared = {}

\* A batch signed ahead is for the target of now: a target swap never leaves
\* one signed for the old drop behind (main.rs:1198-1201).  Its value may
\* differ from mint_value: a Prepare that learns a new price and then fails to
\* sign leaves the batch of the old one.
PreparedForTarget ==
    \A b \in prepared : /\ b.mint.nft = mint.nft
                        /\ b.mint.quantity = mint.quantity
                        /\ b.nonce <= nextNonce

\* An arm session broadcasts at most one batch, whatever triggers, clicks and
\* re-prepares are in flight: FireNow always ends the session it fires in
\* (main.rs:1126-1142).
OneFirePerSession ==
    \A i, j \in DOMAIN fires :
        fires[i].during # 0 /\ fires[i].during = fires[j].during => i = j

\* The trigger of a session broadcasts at most one batch, however long its
\* FireNow waits and whatever is armed meanwhile: what a stale signal can do
\* is to fire in another session, never to fire again (main.rs:862-883).
OneFirePerTrigger ==
    \A i, j \in DOMAIN fires :
        fires[i].from # 0 /\ fires[i].from = fires[j].from => i = j

\* FireNow never broadcasts a nonce of an earlier FireNow again, however often
\* it was signed in between (prepare_fire and advance_nonces, main.rs:1265).
MainNoncesIncrease ==
    \A i, j \in DOMAIN fires : i < j => fires[i].nonce < fires[j].nonce

\* As long as no copymint fires, the nonces broadcast are 0, 1, 2, ...: none
\* is skipped, so none waits in a mempool for a predecessor that never comes.
ContiguousWithoutCopymint ==
    copyFires = <<>> =>
        /\ nextNonce = Len(fires)
        /\ \A i \in DOMAIN fires : fires[i].nonce = i - 1

\* With copymint fires a nonce may be broadcast by both paths.  Every one that
\* is costs another that nobody broadcasts, and behind which whatever comes
\* later waits; no other step skips one (main.rs:1173-1186, 1265-1278).
Nonces(batches) == {batches[i].nonce : i \in DOMAIN batches}
Skipped == {n \in 0 .. nextNonce - 1 : n \notin Nonces(fires) \union Nonces(copyFires)}
Collided == Nonces(fires) \intersect Nonces(copyFires)
CollisionsSkip == Cardinality(Skipped) = Cardinality(Collided)

\* Every batch is broadcast for the target the loop has at that moment.
FiresAtTarget ==
    [][fires' # fires => /\ fires'[Len(fires')].mint.nft = mint.nft
                         /\ fires'[Len(fires')].mint.quantity = mint.quantity]_vars

\* The loop implements the session the operator is promised (MintSession):
\* what the channel, the tasks and the signing add is invisible there.
Session == INSTANCE MintSession WITH
    firing <- pc = "firing",
    nft <- mint.nft,
    broadcasts <- [i \in DOMAIN fires |-> fires[i].mint.nft]
ImplementsSession == Session!Spec

------------------------------------------------------------------------------
(* Liveness.  Two states are beyond help: the loop waiting for a slot of    *)
(* the full channel that only itself empties, and the loop gone.           *)

Wedged == pc = "sendPrepare" /\ Len(queue) = QueueCap
Stuck  == Wedged \/ pc = "panicked"

Queued(type) == \E i \in DOMAIN queue : queue[i].type = type

\* An abort that was accepted takes effect, also behind a fire in progress.
AbortDisarms == Queued("Disarm") ~> (~armed \/ Stuck)

\* A trigger is never lost between the watcher and the loop: it leads to a
\* fire sequence (main.rs:878-883).
SignalPending(s) ==
    \/ s \in forwarding
    \/ \E i \in DOMAIN queue : queue[i] = Plain("FireNow", s)
SignalFires ==
    \A s \in Sessions : SignalPending(s) ~> (pc = "firing" \/ Stuck)

\* A watcher that returns Err disarms (main.rs:559-561).
WatcherFailureDisarms == watcher = "failing" ~> (~armed \/ Stuck)

------------------------------------------------------------------------------
(* What the repository says and the code does not do.                      *)

\* main.rs:1126: "a completed mint attempt shouldn't silently stay armed and
\* re-fire on a stale watcher signal": once a batch was broadcast in a
\* session, the trigger of that session does not broadcast another.
NoRefireOnStaleSignal ==
    \A i, j \in DOMAIN fires :
        i < j /\ fires[i].during # 0 => fires[j].from # fires[i].during

\* main.rs:1146: "a copymint fire is independent of the main trigger_mode's
\* arm/disarm lifecycle": the two never broadcast the same nonce.
NonceBroadcastOnce ==
    \A i \in DOMAIN fires, j \in DOMAIN copyFires :
        fires[i].nonce # copyFires[j].nonce

\* main.rs:559-561: ARMED is not shown while the watcher has silently died.
DeadWatcherDisarms == watcher = "ended" ~> (~armed \/ Stuck)
==============================================================================
