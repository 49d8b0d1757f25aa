# A verification project for mint-sniper

TLA+ models of the bot in `src/mint-sniper`, model-checked with TLC on small
instances, and theorems about them checked with TLAPS for every value of the
constants. Paths below are relative to `src/mint-sniper/src` unless they start
with `ui/`.

mint-sniper mints NFTs from a SeaDrop drop the moment it opens. One Rust process
keeps the wallets, watches the chain, signs ahead of time, races one signed
transaction per wallet to a sequencer and several RPC nodes, and shows everything
to a browser page that arms, aborts and fires it.

## 1. Inventory

| Component | State it keeps | Operations | Modelled in |
|---|---|---|---|
| Control loop (`main.rs` `control_loop`) | wallets and `next_nonce`, `armed`, watcher and prepare tasks, warmed providers, `prepared_fire`, target calldata and value | one handler per `ControlMsg`: Arm, Prepare, Disarm, FireNow, FireCopymint, SetTarget, FireDelegated | `ControlLoop`, against `MintSession` |
| Watchers (`watcher.rs`) | a WebSocket subscription or a timer | trigger, end, fail; `spawn_supervised_watcher` | `ControlLoop` |
| Fire and inclusion (`executor.rs`, `inclusion.rs`) | one task per wallet, one attempt per endpoint, the block ticker | `fire_prepared`, `wait_for_receipt` | `FirePrepared`, against `MintOutcome` |
| Bus, audit log, live page (`bus.rs`, `audit.rs`, `stream_events`, `ui/src/App.tsx`, `useEventSocket.ts`) | 256 buffered events, a cursor per receiver, the socket, the page's flags, `audit.jsonl` | send, subscribe, snapshot, forward, lag, reconnect, status request, restart | `EventFeed` |
| Delegated minting (`delegated/`) | per run: receiver, nonce, tally | `run_delegated_mint` | `DelegatedRun`, against `SerialMint` |
| Configuration store (`api.rs`, `config.rs`) | configuration in memory and in `config.toml` | PUT, target set, load, validate, the forms' copies | `ConfigStore` |
| Copymint watcher (`copymint.rs`, `post_copymint_fire`) | the tracked wallets of its attempt, a subscription, the candidate it handles | wake, connect, candidate, click, drop read, verdict, order | `Copymint`, against `CopyPolicy`; the fire itself in `ControlLoop` |
| Identity (`identity/`, the `/auth` routes of `api.rs`) | rows: sessions, TOTP secret and last step, devices; in memory: login flows, pending ceremonies | sign-in, TOTP and passkey stages, step-up, logout, device removal | `IdentitySession`, against `AdminSignIn` |
| Clock check (`main.rs`) | none beyond a request | HTTP date arithmetic, measurement, the gate of Arm | `ClockCheck` |
| Contract age (`target.rs`) | the ends of a binary search | probes of the chain | `AgeSearch` |
| Polls (`main.rs`) | ranking | balances, health, ranking | emitters of `EventFeed` only |
| SeaDrop, OpenSea, GoPlus, key files and sealing, deploy scripts, UI forms | none of their own, or pure I/O | | not modelled |

How they interact. HTTP handlers, watchers, forwarders and the loop itself reach
the loop through **one bounded channel of 8 messages**. The loop awaits a whole
fire, so commands queue up behind it. Everything tells its news to the
**broadcast bus**, whose receivers lose what they are too slow for. The
configuration is a shared lock that every handler reads anew, so what was
warmed or signed under one configuration may meet another. A delegated run is
**spawned**: several may send from one account.

What is hard here: tasks of a session that outlive it; values signed ahead and
used later; a nonce shared by two fire paths; sends whose failure does not mean
that nothing was sent; receipts that come late or never; receivers that lag;
pages that outlive the process. `PROJECT.json` lists each such hazard at its
line with the properties aimed at it.

What makes each component correct:

- loop: nothing of a session survives it, one fire per session, at the target of
  the moment, with fresh nonces; aborts, triggers and watcher errors take effect;
- fire: one true result per wallet, whatever endpoints do; it returns;
- feed: the page ends showing the bot's flag; the audit log admits its gaps;
- delegated run: no nonce gap, receipts told that are the chain's, a stop when in doubt;
- configuration: memory, file and loop agree on what was accepted last, across
  refusals, failures, crashes and restarts;
- copymint: only free drops fire by themselves, clicks stay under the ceiling, each
  trigger ends with one order at most, a saved list of wallets is watched in the end;
- clock check and age: the header parses to its second on every day, the gate's
  verdict is about the real offset, the search gives a deployment only and costs
  the logarithm of the chain;
- identity: `admin_tier` only after both stages, and always after both; the device
  cap holds; a login flow is used once, and so is a code from one verified setup to
  the next; signing out is for good.

## 2. Modules

| Module | What it is |
|---|---|
| `ControlLoop` | the loop, its channel and the tasks around it |
| `MintSession` | abstract: armed, firing, the target, what was broadcast |
| `ControlLoopProofs` | theorems about `ControlLoop` |
| `FirePrepared` | one fire, all wallets and endpoints |
| `MintOutcome` | abstract: one true and final outcome per wallet |
| `FirePreparedProofs` | theorems about `FirePrepared` |
| `EventFeed` | the bus, one page with its socket and status request, the audit writer, restarts |
| `EventFeedProofs` | theorems about `EventFeed` |
| `DelegatedRun` | delegated runs on one operator account, and that account |
| `SerialMint` | abstract: what one run announces |
| `DelegatedRunProofs` | theorems about `DelegatedRun` |
| `IdentitySession` | sign-in: flows, sessions, TOTP, passkeys, across restarts |
| `AdminSignIn` | abstract: who is signed in, and who may call itself admin |
| `IdentitySessionProofs` | theorems about `IdentitySession` |
| `ConfigStore` | memory, `config.toml`, the loop's drop and the pages' copies, across crashes |
| `ConfigStoreProofs` | theorems about `ConfigStore` |
| `Copymint` | the copymint watcher, the manual route, and their orders in the loop's channel |
| `CopyPolicy` | abstract: what an order may rest on |
| `CopymintProofs` | theorems about `Copymint` |
| `ClockCheck` | the clock check and the gate of Arm, beside a calendar |
| `AgeSearch` | the binary search for a contract's age |
| `OperatorChecksProofs` | theorems about `ClockCheck` and `AgeSearch` |
| `MC...` | TLC instances; the `.cfg` files give the constants |

Definitions named `Bug...` are faulty variants of the definition after them, used
to show that each property can fail. No `Next` reaches them.

### 2.1 ControlLoop

`queue` is the channel, `pc` the handler the loop is in when the handler awaits
something others can see (`arming`, `sendPrepare`, `firing`, `copymint`). Every
other handler is one step: between two awaits nothing else touches the loop's
local variables. `watcher`, `timer`, `reprepare` are the tasks the loop tracks,
`forwarding` the forwarders it does **not** track (`main.rs:878`): they survive
the end of their session. `warmed`, `prepared`, `mint`, `nextNonce` are the
loop's locals; `session` numbers arm sessions; `fires` and `copyFires` are the
history of broadcast batches, each with the session whose trigger it answers
(`from`) and the session it ended (`during`). `Skipped` and `Collided` are the nonces
that none and both of the two histories hold.

Choices worth knowing:

- *One nonce for all wallets.* `prepare_fire` fails as a whole and
  `advance_nonces` advances all of its wallets, so their nonces move together.
- *A copymint batch is history apart*, since `FireCopymint` shares nothing with
  the session but `next_nonce`.
- *Prepare is sent by the loop to itself* when it arms without a known trigger
  instant (`main.rs:908`), with an awaited send. With a full channel that is a
  deadlock (`Wedged`), which the model has and the liveness properties name.
- *Configurations* are the fields the loop branches on. An empty
  `http_rpc_urls` is one that `validate()` accepts without `race_mode`.
- *The drift check* may come out either way; `ClockCheck` says how.
- *Abort is immediate* for a tracked task. A watcher that has already triggered
  has handed over to its forwarder.

### 2.2 FirePrepared

Per wallet: `task`, `seqSend`, and `wait[w][i]` for backup `i`, with slot 0 for
the fallback wait after a sequencer ack without any backup (`executor.rs:605`).
`chain[w]` is the transaction itself, which every accepted send, and any send
that failed after it had arrived, may have delivered. Time is not modelled: a
bounded await may end at any moment, so a result that depends on a timeout being
long enough cannot be proved by accident. `Verdict` is the precedence of
`executor.rs:651-797`, and `Source` is `classify_ack_source`. A fire without any
provider bails out; a fire with a sequencer and no backup is legal. Blocks are
never reorganised.

### 2.3 EventFeed

`sent` is every event of this process; a receiver that wants event `n` has lost
it when `Capacity` newer ones exist. `conn`, `next` and `wire` are
`stream_events` and the frames in flight: snapshot and events are written by one
task, in order. `connected`, `shown`, `told` and `status` are the page: what it
displays as the armed flag, who told it so, and its `GET /api/status`. The audit
file is counted: since when the writer listens, entries written, events admitted
as missed, writes that failed. `Restart` is a new, disarmed process with a new
bus; pages stay open. The UI ignores ConfigChanged, and so does the model. A TCP
connection that is gone without either side learning of it is left out.

### 2.4 DelegatedRun

`stage`, `current`, `nonce`, `signed`, `told` and `tally` are the locals of each
run and what it sent to the bus. `used`, `pool` and `ledger` are the operator's
account, modelled from how the code uses it: a node takes a transaction unless
its nonce is used, and replaces a pending one only for a higher fee; it may
forget one; `get_transaction_count` counts mined ones only. `SendFails` may or may
not have delivered. Two runs that read the same nonce may even sign the same
transaction, and both are then right to report it.

### 2.5 IdentitySession

`user`, `session`, `totp`, `key` are the rows of the database; `flows`, `regs`,
`auths` are the maps in memory (`pending_flows`, `pending_registrations`,
`pending_authentications`), which a `Restart` empties. A request is `at` its next
step, `of` a session or, for a callback, a flow, and carries in `arg` what it has
read. One step is one statement or one lock: marking a stage and promoting are
two (`session.rs:144-177`), so are reading the TOTP row and writing it
(`totp.rs:109-180`), and a registration takes the count, the ceremony, the count
again and the insert in four. Between any two of them other requests run, the
clock moves, or the request is cut off: `Refuse` stands for a failed statement,
an answer the library rejects, and a client that goes away. `require_session` is
read once, at `Begin`: a session that signs out keeps the requests it has.

Choices worth knowing:

- *One user.* The repository is for one operator; a second first sign-in
  collides on `google_sub` (`NewUser`).
- *A secret is a number*, a code the pair of its secret and the step it matched.
  The clock counts TOTP steps; a code of the step before or after is good
  (`Window`), so 10 minutes of `FLOW_TTL_SECS` shrink to `FlowLife` steps.
- *`earned`, `source`, `cut`, `spent`, `fresh`, `raced`* are history: what the
  session proved, the flow it came from, sessions with a request cut off just
  before its promotion, codes accepted ever and since the last verified setup, and
  whether one of the latter was accepted for a row that had changed since its read.
- *Codes.* The repository says that a code is accepted once (`api.rs:1050`,
  `migrations/0003`). The code does not keep that in two ways. `verify_setup`
  (`identity/totp.rs:131`) asks neither for the last step nor whether the secret is
  enabled already: a used code passes there with no other request in progress, and
  may set the last step back. And a verification reads the row and writes it in two
  statements, so two requests may pass with one code. `CodesOnce` is what the
  repository says and fails (section 6). `LoginCodesOnce` is what holds: from one
  verified setup to the next, the login and step-up routes accept no code twice,
  the setup's own included, as long as requests take turns on the row (`raced`).
  `EnabledIsProven` asks for turns too: a setup that is verified while another
  replaces the secret enables a secret nobody proved.
- *Cut off before the promotion*, a session has both marks and no `admin_tier`
  until a stage is verified again: `StagesPromote` excepts it (`cut`).

`AdminSignIn` knows a session's `tier`, the sign-in it came `from`, the stages it
`passed` and the sessions `closed`, and nothing of requests, rows, flows or
ceremonies. `ImplementsSignIn` maps `Tier(s)`, `source`, `earned` and the revoked
rows to these: a mark is a stutter, the accepted proof before it is the `Pass`, and a
session is made once for its flow whatever callbacks are under way.

### 2.6 ConfigStore

`memory` is `AppState.config`, `file` is `config.toml`, `loop` the drop the
control loop mints, `chan` the SetTarget messages on their way to it, `draft` the
copy that each page's form edits and that it took when it loaded. A request is
`at` its next step and carries in `body` the configuration it will write. One
step is one lock or one wait: a target set reads (`resolve`), sets the memory
(`commit`), truncates the file (`open`), writes it (`write`) and tells the loop
(`send`); a save has the middle three. In between other requests run, the clock
moves, the disk fails, the client goes away (`GoAway`), or the process dies
(`Crash`). A configuration is its drop, its trigger and a record of what
`validate()` and the routes tell apart.

Choices worth knowing:

- *A file is a configuration, `Empty` or `Garbled`.* `tokio::fs::write` truncates
  and then writes, in a thread that goes on when its request is dropped; so
  a request without a client (`orphan`) finishes its write and then stops. Two
  writers may mix their texts. The operating system does not crash.
- *The start replaces a trigger time of 0* by the drop's start in memory, not in
  the file (`Timed`). Saves of a page that loaded later write it to the file.
- *`choice`, `durable`, `crossed`, `cut`* are history: the settings accepted last
  and who chose the drop; whether the file was written since; whether two
  requests overlapped; whether the last target set never told the loop. When
  requests overlap, an update can be lost and file and memory can differ: no
  comment denies it, and the properties speak of requests that take turns.
- *A save of another drop* does not tell the loop; the page says that it needs a
  restart. `LoopFollowsConfig` excepts it, and a target set that was cut off before
  its message. It speaks of the configuration in memory, which a page shows that
  loads now; one that loaded earlier shows its own copy (`ui/src/App.tsx:261`),
  about which nothing is promised.
- *Not every configuration that passes can start.* `validate()` lets
  `http_rpc_urls` be empty, and `Start` asks for its first entry.
  `OnlyTimeInvalidates` is about `validate()` alone.
- Left out: step-up and arming (`IdentitySession`, `ControlLoop`), the bound of 20
  years on the trigger time.

### 2.7 Copymint

A trigger is one tracked mint in the mempool or one click, and `step` says how far
its handler is; `about`, `cfgOf` and `seen` are the handler's locals: the drop, the
configuration copied at the start, the listing read from the chain. `watcher` and
`watched` are the watching task and the wallets its attempt began with. `orders` is
every order the loop's channel took, `served` how many the loop received; `loop` is
`wedged` or `gone` where `ControlLoop` is `Stuck`. While a handler works, `heard`
collects the configurations and listings that are in force: `CopyPolicy` lets an
order rest on any of those, and on a drop that was live at some time since.

Choices worth knowing:

- *The watcher handles one candidate at a time* inside its receive loop (`Busy`), so
  the subscription's own buffer may lose others meanwhile (`Lag`), and a stream that
  ended is noticed only afterwards. Clicks run beside it and beside each other.
- *A click names any drop*: the route checks the address, not that it was offered.
- *A changed SeaDrop address* and tracked entries that do not parse are abstracted
  to whether an address is there (`seadropOk`). Encoding cannot fail here.
- *The result of the send is thrown away* (`let _ =`): with a loop that is gone the
  handler ends as after a success, and a click is answered 202.
- Left out: `check_eligibility`, which only reads; the page's list.

### 2.8 ClockCheck and AgeSearch

`now` is true time in ticks; `date`, `sec` and `tick` are the same time as the
calendar of the server that writes the header. `offset` is what the machine's clock
is off by, and may be changed at any time (`Adjust`), under a request too, which
`steady` notes. `StartCheck`, `Stamp` and `Receive` are the request, the answer's
date cut to the second, and the measurement with the gate; `CheckFails` is an empty
URL, an error, a bad header or the timeout, after which Arm goes on. The header's
time of day is one number, leap seconds are left out, the server's clock is right,
and doubles are exact. The check at the start of the program is the same
measurement, and only logs.

`code` says of each block whether the contract has code in it, also of those to
come: it may lose its code and get it again. `height` is the newest block; `lo`,
`hi` and `latest` are the locals of the search, and `power`, 2 to the number of its
probes, is history. Any call may fail (`RpcFails`).
Reorganisations are left out, and so is the subtraction of the block's timestamp
from the machine's clock, which is off by what `ClockCheck` measures.

## 3. Runs

| Run | Constants | Properties | What it shows |
|---|---|---|---|
| `control_safety` | channel 2, 3 commands of any kind, 2 drops, 2 prices, 3 configurations | 5 invariants, ImplementsSession | no interleaving leaves a session dirty, fires twice for one trigger or one session, fires at another drop or repeats a main-path nonce, and each nonce that both fire paths use leaves one that nobody uses |
| `control_liveness` | as above, 1 drop and price, session commands only | AbortDisarms, SignalFires, WatcherFailureDisarms | accepted aborts, triggers and watcher errors take effect, unless the loop is `Stuck` |
| `fire` | 1 wallet, up to 2 backups, with and without sequencer | 2 invariants, KeepsPromise, InclusionNoticed, AlwaysReturns | one true result, found without help of the timeout, and a return |
| `feed` | buffer 1, 2 events per process, 1 restart, 1 load, 1 broken connection | 2 invariants, PageSettles | the page settles on the truth of the stream; the audit log admits its gaps |
| `delegated` | 2 runs, 2 receivers, 2 fees | 3 invariants, AnnouncesSerially, EveryRunEnds | no stranded transaction, true receipts, serial announcements |
| `identity` | 2 requests, 2 sessions, 2 keys, 2 flows, cap 1, 6 requests in all, 2 secrets, 2 clock steps | 3 invariants, ImplementsSignIn, LoginCodesOnce, SignedOutForGood | sign-in implements `AdminSignIn`: both stages and no fewer make a session `admin_tier`, a flow makes one session; the cap holds in every interleaving, and a login code is good once from setup to setup while requests take turns |
| `config` | 1 page, 2 drops, 4 settings, 3 requests, 1 crash, a clock of two values, channel 1 | 3 invariants, RestartKeepsChoice | memory, file and loop keep what was accepted last, whatever fails or crashes, and but for its start time `validate()` passes what is in use |
| `copymint` | 2 triggers, 2 wallets, 1 drop, 2 listings, 3 configurations, channel 1, a save, a relisting, a tick | ImplementsPolicy, EveryTriggerSettles, ListCatchesUp | orders rest on what was in force, every trigger ends, a saved list is watched after a reconnect |
| `checks` | 12 dates, a second of 2 ticks, a day of 3 seconds, timeout 3, threshold 6, 9 offsets, 7 ticks; 7 blocks | DateParsed, GateSound, AgeIsADeployment, ProbesBounded | the header parses, the gate is right up to its error, an age is that of a deployment and takes a bounded number of probes |
| `stale_signal`, `copymint_nonce`, `dead_watcher` | smallest that show it | one each | what a comment says and the code does not do, section 6 |

The type invariants are proved (section 4), so no run repeats them. Nor do the runs
repeat six properties that are theorems and that a property of a run contains or
makes plain: `OneFirePerSession`, `FiresAtTarget` (part of `ImplementsSession`),
`ContiguousWithoutCopymint` (a skipped nonce is the price of a collision,
`CollisionsSkip`), `NobodySilent` (part of `KeepsPromise`), `AdminEarned` and
`OneSessionPerFlow` (part of `ImplementsSignIn`).

**Bounds and why they suffice.** The channel of two slots is full after two
messages, so every blocked sender of the real channel of eight occurs; three
commands arm, trigger and interrupt a session or span two of them. Two drops and
two prices tell the old from the new one. Symmetry over drops is used in
`control_safety` only, which checks no liveness. Wallets of one fire share
nothing but the ticker, so one wallet with two backups has every race; the
theorems hold for any number. One buffered event makes a receiver lag after two.
Two runs and two receivers give replacement, duplicates and a stop in the middle.
Two tabs and a cap of one device give every race on the cap, six requests are
enough to set TOTP up, register a device and promote with one to spare for each
race on the way, and two clock steps give both an expired flow and a later code;
symmetry over requests, sessions, keys and flows is sound, since no operator tells
them apart. One page of the control panel has a save and a target set under way at
once, which is every kind of overlap but that of two saves; three requests put one
between two others or after a crash, and the theorems hold for any number of pages.
The two clock values are before and at the start of a drop. The third setting of
`config` passes `validate()` but panics the next start, the fourth is one it refuses
when a page saves it. Seven blocks give searches of up to three probes. In
`copymint` a full channel, a busy watcher and a click beside a candidate need two
triggers and one slot; one save, one relisting and one tick can each fall between any
two steps of a handler. In `checks` a day is short enough to pass midnight from every
date. Of the nine offsets -10 and 8 are always refused once measured, -3, 0 and 2
never; -9, -4, 3 and 7 lie between a limit of the gate and the error of a request
of three ticks, where either verdict is allowed. So a gate that refuses a clock too soon or
arms with one too far off is found on either side. The `checks` instance runs each of the two while the other rests, as they share nothing.
Every bound is a constant of a module (`QueueCap`, `MaxRequests`, `MaxBackups`,
`Capacity`, `MaxEvents`, `MaxRestarts`, `MaxMounts`, `MaxBreaks`, `Count`,
`MaxCalls`, `MaxCrashes`, `MaxTime`, `MaxSecrets`, `MaxStep`, `MaxTriggers`,
`MaxNow`, `MaxPuts`, `MaxMoves`, `MaxTicks`, `MaxHeight`).

**Deadlock** is checked in `checks` only: elsewhere, with all commands, events, runs or requests spent,
or after a panic of the loop, the system really has nothing left to do.

**Fairness.**

- Loop: weak. All its awaits are bounded (`SEADROP_READ_TIMEOUT`,
  `PREPARE_READ_TIMEOUT`, `SEND_RAW_TX_TIMEOUT`, the inclusion and drift-check
  timeouts), except the send to itself, which is why `Stuck` is an exception.
- Forwarders and the supervisor: strong. They wait for a slot in the order of
  arrival (tokio's channel is fair), so they are not overtaken for ever.
- A fire: weak for tasks and sends, strong for reading a receipt that exists from
  an endpoint that answers such calls. Timeouts are *not* fair, so noticing an
  inclusion does not rest on them; `AlwaysReturns` assumes them explicitly.
- Feed: tasks run, and what the network does not drop it delivers.
- Delegated run: only the receipt wait has a timeout, so only it is fair.
  `EveryRunEnds` therefore says: a run ends, or waits for ever in a call the
  code set no timeout on.

- Copymint: tasks run; a drop read ends within its ten seconds; the loop receives
  while it is up; strong for the send, as the channel serves its senders in turn.
  That a connect attempt ends is assumed: the code leaves it to the network.
  `ListCatchesUp` speaks of runs whose subscriptions keep ending, and of the time
  after the last save.

## 4. What is proved

All theorems hold for every value of the constants that satisfies the named
assumptions (`ControlLoopAssumption`, `FirePreparedAssumption`,
`DelegatedRunAssumption`, `IdentityAssumption`, `ConfigAssumption`,
`CopymintAssumption`, `ClockAssumption`, `AgeAssumption`), and rest on nothing else.

**ControlLoop.** `TypeCorrect`; `DisarmedCorrect`, `PreparedCorrect`,
`NoncesIncrease`, `NoncesContiguous`, `CollisionsSkipCorrect`,
`OnlyStaleFiresCollide`, `OneFire`, `OneFireOfTrigger`, `TargetCorrect` and
`Refinement` (the loop implements `MintSession`). None of these invariants is
inductive alone:

- `SessionInv` adds to `DisarmedIsClean` that an armed loop has a watcher and a
  session number, and that `pc` agrees with `armed`: without it a late
  `CompleteArm` could arm an armed loop.
- `NonceInv` says that a prepared batch is newer than everything broadcast and,
  without copymint fires, carries exactly the next nonce.
- `OnceInv` says that the live session has not been fired in, which
  `OneFirePerSession` needs to survive the next broadcast.
- `TriggerInv` says that the trigger of a session is in one place at a time: in the
  watcher that runs, with a forwarder, in the channel, or broadcast. The forwarders
  outlive their sessions, so this is about the triggers of all sessions so far, and
  it needs that a session's number is never used again.
- `CollisionInv` says that between the signature of a batch and its broadcast only a
  copymint can have used its nonce. A batch that is stale so repeats a copymint's
  nonce, while the loop's counter moves past one that nobody used: `CollisionsSkip`
  counts both, with the cardinalities of sets of nonces. `NonceSteps` lists the three
  ways in which a step changes the nonces. `OnlyStaleFiresCollide` is read off the
  same proof: a copymint collides only with a batch prepared before it.

**FirePrepared.** `FireTypeCorrect`, `NobodySilentCorrect`, `NoBareAckCorrect`,
`InclusionCorrect`, `SourceCorrect`, `FireRefinement`, all from
`FireInv = PhaseInv /\ \A w : SlotsInv(w) /\ TaskInv(w)`. `SlotsInv` says which
slots can be in use when; `TaskInv` freezes everything once a task is done, so
that a verdict taken from the slots stays their verdict.

**DelegatedRun.** `DelegatedTypeCorrect`, `NoNonceGapCorrect`,
`ResultsTrueCorrect`, `SerialCorrect`, `DelegatedRefinement`, for any number of
runs on the account. `LoopInv` ties the results told to the loop's position;
`SendInv` says that no run believes a nonce the chain has not reached, and
`ChainInv` that every pending transaction carries the next nonce. Each needs
the other: a run advances only on a receipt, whose nonce `ChainInv` knows to be
below `used`. `Serial` then follows: an earlier transaction with a receipt has a
used nonce, so it cannot be pending. The refinement adds that the tally counts
the mints told, by induction over steps on the cardinality of a set.

**IdentitySession.** For any number of tabs, sessions, devices, flows and secrets:
`IdentityTypeCorrect`, `AdminEarnedCorrect`, `StagesPromoteCorrect`, `DeviceCapCorrect`,
`OneSessionPerFlowCorrect`, `EnabledIsProvenCorrect`, `LoginCodesOnceCorrect`,
`SignedOutForGoodCorrect`, and `SignInRefinement` (sign-in implements `AdminSignIn`).
`CallsInv` (a request of a login flow has a flow, any other a session, an idle one
neither) is used by all.

- `EarnInv`: a request about to mark a stage has passed it, a mark was earned,
  and only two marks promote. `AdminEarned` alone says nothing of a mark.
- `StagesPromote` is inductive: a mark leaves its request before its promotion,
  and a promotion that is lost puts its session into `cut`.
- `DeviceCap` is inductive because the trigger counts in the insert itself; the
  two earlier counts are not needed.
- `FlowInv`: past the flow, a callback owns it; no other callback and no session
  has it until its own session is made.
- `SecretInv`: of an enabled row and while requests take turns, the codes accepted
  since the last verified setup are of its secret and no later than its last step,
  and a login about to write has a later one. Its code is then none of them.
- `MadeInv`: a request acts for a session that was made, and so does a promotion. The
  refinement needs it together with `EarnInv` (a promotion finds both stages passed)
  and `FlowInv` (a new session's flow has no session yet); every other step of the
  requests, a restart and a cut included, maps to a stutter.

**ConfigStore.** `StoreTypeCorrect`, `SavesStickCorrect`, `LoopFollowsConfigCorrect`,
`RestartKeepsChoiceCorrect` and `OnlyTimeInvalidatesCorrect`, for any number of pages,
requests and crashes.

- `Running`: a program that is up has a configuration in memory, one that is down
  has no messages under way, and every request is one of a program that is up and
  carries a configuration.
- `Turns`: as long as no two requests overlapped, one at most is past the memory; it
  writes what was accepted last, over an empty file, and memory and, once written,
  file hold the same. `SavesStick` alone says nothing of a request under way, and
  so nothing of the step that ends one.
- `Heard`: when no target set is half done, the newest message, or what the loop
  made of it, is the drop accepted last. `LoopFollowsConfig` speaks of an
  empty channel only; the step that empties it needs this.
- `SoundInv`: memory, file and whatever a request carries meet all of `validate()` but
  its question about the time, which is asked anew at every set and start. A
  configuration that passed can fail `validate()` later by the clock alone.

**EventFeed.** `FeedTypeCorrect`, `StreamTruthCorrect`, `AuditCorrect`, for any
buffer and any number of events, restarts, loads and breaks. `StreamTruth` needs that
the last flag event still on its way, be it in the bus, taken by the stream or on the
wire, is the flag unless the loop owes one, and that a page told by the stream shows
the last it was told. `AuditAdmitsGaps` needs where the writer's cursor stands.

**Copymint.** `CopymintTypeCorrect`, `EvidenceCorrect` and `CopymintRefinement`
(copymint implements `CopyPolicy`). `Evidence` says of a handler at work that what it
copied is among what was in force since it began, and of one that waits for the channel
that the policy allows its order; a refinement step needs it when the order is taken,
long after the checks were made.

**ClockCheck and AgeSearch.** `DaysFromCivilCorrect`: for every date from year 0 on,
`days_from_civil` is the number of the day, counted with the days of the months and the
leap years. Its lemmas turn the eras into leap years (`ErasCount`), the March table
into that of January (`MarchDaysTable`), and show that the next date has the next
number (`NextDateCounts`). `DateParsedCorrect` follows by induction over ticks.
`GateCorrect` rests on `DriftBounded`: a measurement is off by at most half of the
round trip either way, and by up to a second more upwards. So with a clock that is
not set meanwhile, a refused one is off by more than the threshold less that error,
and an armed one by less than the threshold and it, where the error is half of the
time that very request took; a slow clock hides a second
more than a fast one. `AgeCorrect`: `hi` has code and the block before `lo` has none, at every step;
`OnlyDeploymentFound` adds that of a contract deployed once it is the deployment.
`ProbesBoundedCorrect` rests on `Halved`: the width times 2 to the number of probes
never exceeds the newest block.

**Model-checked only.** All liveness properties, and the violation runs.

## 5. Not modelled

Chain reorganisations; gas and fee numbers (only their order in a delegated
run); cost estimates; ABI encoding; the ranking of endpoints; the target's
resolution but for the age, which changes no state; token exchange,
sealing and cookies of the sign-in; forms and layout of the page;
deployment and benchmark scripts.

Notes from reading that no run covers: `jitter_ms_min > jitter_ms_max` passes
`validate()` outside race mode and panics every wallet's task after the nonces
were advanced. `executor.rs:605-617` calls the sequencer an equally valid receipt
client while 104-117 says that it answers -32601; the model lets it be either. A
sequencer-only configuration validates but can never fire. `put_config` with
another `nft_contract` does not retarget the loop. A delegated run that fails
after `DelegatedRunStarted` announces no end, and its page stays at RUN IN
PROGRESS. The write of an audit gap is not checked for failure.
An empty `http_rpc_urls` passes `validate()` outside race mode or with a sequencer
(`config.rs:561`); saved while armed, it panics the loop at the next re-prepare
(`main.rs:961`), although `config.rs:403` wants bad input refused before arm and fire
time (`PreparePanics` has it). `delegated/executor.rs:43` says that a failed
broadcast spent no nonce; the node may have taken it before the error, and its
receiver then stands as failed although it was minted (`SendFails`). A crash while
the file is truncated leaves one that no restart reads. After a start that took
its trigger time from the drop, every save is refused once the drop is open, and a
save made before writes the time to the file, which a restart after it refuses.
The warning threshold of 1500 ms does not "sit comfortably above" the noise
(`config.rs:326-331`): the round trip holds the TLS handshake, and one of a second may
add half of it to the second of the header (`DriftBounded`). `check_eligibility` reads
the supply anew for every wallet, though `copymint.rs:166-168` says once; `copymint.rs:303-308`
has the tracked wallets read on every candidate, which the code does at a connect only.
The sequencer's provider is the one warmed at Arm and its ack is named by the
configuration of the fire (`executor.rs:426`): change the URL in between and a
sequencer's ack is reported as a backup's. `target.rs:186-188` bounds the age search by
`ceil(log2(latest_block))` round trips: it makes up to `floor(log2(latest_block)) + 1`
probes, one more where that is a power of two, and three other calls.

## 6. Disagreements between the repository's words and its code

| Run | Says | Does |
|---|---|---|
| `stale_signal` | `main.rs:1126`: a completed attempt does not re-fire on a stale signal | the forwarder's FireNow still fires, disarmed |
| `copymint_nonce` | `main.rs:1146`: a copymint fire is independent of the session | it uses up the nonce of the batch prepared for the session |
| `dead_watcher` | `main.rs:559`: ARMED is not shown with a dead watcher | a watcher whose stream ends returns Ok, which nobody acts on |

Three more have a property and a configuration that shows them, and no place among
the runs: `tlc -config MCSilentlyStale.cfg MCEventFeed` finds `NeverSilentlyStale`
(`useEventSocket.ts:17`: the page cannot silently go stale) violated by a late
status answer that overwrites the stream (`App.tsx:269`), and
`tlc -config MCSettable.cfg MCConfigStore` finds `SettableIsSet` (`api.rs:343`: a drop is
settable if it is live and takes the fee recipient) violated by the set of a live drop
that is refused with 500 once the trigger time taken at the start is past
(`api.rs:464`, `config.rs:592`). `tlc -config MCCodeReplay.cfg MCIdentitySession` finds
`CodesOnce` (`api.rs:1050`: "a code can only ever be accepted once"; `migrations/0003`:
"a new code is only accepted if its matched step is strictly greater than this")
violated by one tab with one request at a time: the code a setup was verified with is
accepted by the setup route again (`identity/totp.rs:131-148`).

## 7. Plan

Done: `ControlLoop`, `FirePrepared`, `EventFeed`, `DelegatedRun`, `IdentitySession`,
`ConfigStore`, `Copymint`, `ClockCheck`, `AgeSearch`, their abstract specifications, and
the proofs above. What would come next:

1. `ConfigStore` and `Copymint` composed with `ControlLoop` through its one channel.
2. The page's forms: the safety cover, the delegated card and the list of
   opportunities.
