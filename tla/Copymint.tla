------------------------------ MODULE Copymint -------------------------------
(***************************************************************************)
(* Copymint (copymint.rs): the task that watches the mempool for mints of  *)
(* tracked wallets, and the manual route (api.rs, post_copymint_fire).     *)
(* Both read the drop from the chain before they order a fire, and both    *)
(* put the order into the control loop's bounded channel.                  *)
(*                                                                         *)
(* A trigger is one tracked mint in the mempool or one click.  Its steps:  *)
(*   pending  reported by the subscription, not looked at yet              *)
(*   reading  configuration copied, getPublicDrop on its way               *)
(*   read     the drop is known                                            *)
(*   sending  an order is made, the channel has not taken it               *)
(* and it ends ignored, lost, skipped, offered (to the operator), refused, *)
(* sent or cut (off with its client).                                      *)
(*                                                                         *)
(* A definition named Bug... is a faulty variant of the one that follows   *)
(* it.  Next uses none of them.                                            *)
(***************************************************************************)
EXTENDS Naturals, Sequences

CONSTANTS
    Wallets,     \* wallets that may be tracked
    Drops,       \* NFT contracts
    Listings,    \* what getPublicDrop may answer: [price, from, to]
    Configs,     \* configurations: [tracked, auto, ceiling, quantity, seadropOk]
    QueueCap,    \* of the control loop's channel: 8 in main.rs
    MaxTriggers, \* bound on the triggers
    MaxNow,      \* bound on the time
    MaxPuts,     \* bound on the configurations saved
    MaxMoves     \* bound on the changes of listings

ASSUME CopymintAssumption ==
    /\ Drops # {}
    /\ Listings \subseteq [price : Nat, from : Nat, to : Nat]
    /\ Configs \subseteq [tracked : SUBSET Wallets, auto : BOOLEAN, ceiling : Nat,
                          quantity : Nat, seadropOk : BOOLEAN]
    /\ QueueCap \in Nat \ {0}
    /\ MaxTriggers \in Nat
    /\ MaxNow \in Nat
    /\ MaxPuts \in Nat
    /\ MaxMoves \in Nat

Triggers == 1 .. MaxTriggers

VARIABLES
    config,  \* AppState.config
    listing, \* what the chain says of each drop
    now,     \* the time
    puts,    \* how often a configuration was saved
    moves,   \* how often a listing changed
    watcher, \* "resting" (asleep before its next attempt), "connecting", "subscribed"
    watched, \* the tracked wallets the last attempt started with
    loop,    \* the control loop: "up", "wedged" on its own channel, "gone"
    served,  \* how many orders it has received
    step,    \* of each trigger
    about,   \* what it is about: its kind and its drop
    cfgOf,   \* the configuration its handler copied
    seen,    \* the listing its handler read
    orders,  \* history: the orders the channel took
    heard    \* history: what was in force since the handler at work began

world == <<config, listing, now, puts, moves>>
watch == <<watcher, watched>>
own   == <<step, about, cfgOf, seen>>
vars  == <<world, watch, loop, served, own, orders, heard>>

Kinds == {"candidate", "click"}
Abouts == [kind : Kinds, drop : Drops]
\* What stands in about, cfgOf and seen before anything is known.
Unknown == CHOOSE a \in Abouts : TRUE
NoConfig == [tracked |-> {}, auto |-> FALSE, ceiling |-> 0, quantity |-> 0,
             seadropOk |-> FALSE]
NoListing == [price |-> 0, from |-> 1, to |-> 0]
Nothing == [since |-> 0, configs |-> {}, listings |-> {}]

Working == {"reading", "read", "sending"}
Settled == {"ignored", "lost", "skipped", "offered", "refused", "sent", "cut"}

TypeOK ==
    /\ config \in Configs
    /\ listing \in [Drops -> Listings]
    /\ now \in 0 .. MaxNow
    /\ puts \in 0 .. MaxPuts
    /\ moves \in 0 .. MaxMoves
    /\ watcher \in {"resting", "connecting", "subscribed"}
    /\ watched \in SUBSET Wallets
    /\ loop \in {"up", "wedged", "gone"}
    /\ served \in 0 .. Len(orders)
    /\ step \in [Triggers -> {"none", "pending"} \union Working \union Settled]
    /\ about \in [Triggers -> Abouts]
    /\ cfgOf \in [Triggers -> Configs \union {NoConfig}]
    /\ seen \in [Triggers -> Listings \union {NoListing}]
    /\ orders \in Seq([trigger : Triggers, kind : Kinds, drop : Drops,
                       quantity : Nat, value : Nat])
    /\ Len(orders) - served <= QueueCap
    /\ heard \in [Triggers -> [since : Nat, configs : SUBSET Configs,
                               listings : SUBSET Listings]]

-------------------------------------------------------------------------------
Init ==
    /\ config \in Configs
    /\ listing \in [Drops -> Listings]
    /\ now = 0
    /\ puts = 0
    /\ moves = 0
    /\ watcher = "resting"
    /\ watched = {}
    /\ loop = "up"
    /\ served = 0
    /\ step = [t \in Triggers |-> "none"]
    /\ about = [t \in Triggers |-> Unknown]
    /\ cfgOf = [t \in Triggers |-> NoConfig]
    /\ seen = [t \in Triggers |-> NoListing]
    /\ orders = <<>>
    /\ heard = [t \in Triggers |-> Nothing]

IsCandidate(t) == about[t].kind = "candidate"
\* The watcher handles one candidate at a time, inside its receive loop.
Busy == \E t \in Triggers : IsCandidate(t) /\ step[t] \in Working
\* Triggers get their names in the order in which they come up.
Fresh(t) == step[t] = "none" /\ \A u \in 1 .. t - 1 : step[u] # "none"

Goto(t, s) == step' = [step EXCEPT ![t] = s]
\* A trigger that has ended leaves nothing behind.
Forget(t) ==
    /\ about' = [about EXCEPT ![t] = Unknown]
    /\ cfgOf' = [cfgOf EXCEPT ![t] = NoConfig]
    /\ seen' = [seen EXCEPT ![t] = NoListing]
    /\ heard' = [heard EXCEPT ![t] = Nothing]
End(t, s) == Goto(t, s) /\ Forget(t)

-------------------------------------------------------------------------------
(* The watching task.                                                      *)

\* A list that is read once.
BugWakeKeepsList ==
    /\ watcher = "resting"
    /\ config.tracked # {} /\ config.seadropOk
    /\ watcher' = "connecting"
    /\ watched' = IF watched = {} THEN config.tracked ELSE watched
    /\ UNCHANGED <<world, loop, served, own, orders, heard>>

\* Nothing to watch, or an address that does not parse: it rests again.
Wake ==
    /\ watcher = "resting"
    /\ config.tracked # {} /\ config.seadropOk
    /\ watcher' = "connecting"
    /\ watched' = config.tracked
    /\ UNCHANGED <<world, loop, served, own, orders, heard>>

Connected ==
    /\ watcher = "connecting"
    /\ watcher' = "subscribed"
    /\ UNCHANGED <<world, watched, loop, served, own, orders, heard>>

ConnectFails ==
    /\ watcher = "connecting"
    /\ watcher' = "resting"
    /\ UNCHANGED <<world, watched, loop, served, own, orders, heard>>

\* A wallet's mint of drop d enters the mempool.  Of the wallets that are not
\* in the list the watcher started with it takes no notice.
TxSeen(t, w, d) ==
    /\ watcher = "subscribed"
    /\ Fresh(t)
    /\ w \in watched
    /\ Goto(t, "pending")
    /\ about' = [about EXCEPT ![t] = [kind |-> "candidate", drop |-> d]]
    /\ UNCHANGED <<world, watch, loop, served, cfgOf, seen, orders, heard>>

\* The subscription's own buffer overflows while a candidate is handled.
Lag(t) ==
    /\ Busy
    /\ step[t] = "pending"
    /\ End(t, "lost")
    /\ UNCHANGED <<world, watch, loop, served, orders>>

\* The stream ends, which the loop notices when it asks for the next transaction.
StreamEnds ==
    /\ watcher = "subscribed"
    /\ ~Busy
    /\ watcher' = "resting"
    /\ step' = [t \in Triggers |-> IF step[t] = "pending" THEN "lost" ELSE step[t]]
    /\ about' = [t \in Triggers |-> IF step[t] = "pending" THEN Unknown ELSE about[t]]
    /\ UNCHANGED <<world, watched, loop, served, cfgOf, seen, orders, heard>>

-------------------------------------------------------------------------------
(* A handler, from its copy of the configuration to its order.             *)

Begin(t, d) ==
    /\ cfgOf' = [cfgOf EXCEPT ![t] = config]
    /\ heard' = [heard EXCEPT ![t] =
          [since |-> now, configs |-> {config}, listings |-> {listing[d]}]]

NextUp(t) ==
    /\ watcher = "subscribed"
    /\ step[t] = "pending"
    /\ \A u \in 1 .. t - 1 : step[u] # "pending"
    /\ ~Busy

\* handle_candidate. With an address that does not parse it only logs.
Ignore(t) ==
    /\ NextUp(t)
    /\ ~config.seadropOk
    /\ End(t, "ignored")
    /\ UNCHANGED <<world, watch, loop, served, orders>>

Take(t) ==
    /\ NextUp(t)
    /\ config.seadropOk
    /\ Goto(t, "reading")
    /\ Begin(t, about[t].drop)
    /\ UNCHANGED <<world, watch, loop, served, about, seen, orders>>

\* verify_and_fire, for any drop an authenticated client names.
ClickRefused(t) ==
    /\ Fresh(t)
    /\ ~config.seadropOk
    /\ End(t, "refused")
    /\ UNCHANGED <<world, watch, loop, served, orders>>

Click(t, d) ==
    /\ Fresh(t)
    /\ config.seadropOk
    /\ Goto(t, "reading")
    /\ about' = [about EXCEPT ![t] = [kind |-> "click", drop |-> d]]
    /\ Begin(t, d)
    /\ UNCHANGED <<world, watch, loop, served, seen, orders>>

\* The getPublicDrop call, which ends within ten seconds.
ReadDrop(t) ==
    /\ step[t] = "reading"
    /\ Goto(t, "read")
    /\ seen' = [seen EXCEPT ![t] = listing[about[t].drop]]
    /\ UNCHANGED <<world, watch, loop, served, about, cfgOf, orders, heard>>

Unmoved(t) == IF IsCandidate(t) THEN "skipped" ELSE "refused"

LookupFails(t) ==
    /\ step[t] = "reading"
    /\ End(t, Unmoved(t))
    /\ UNCHANGED <<world, watch, loop, served, orders>>

Live(l) == l.from <= now /\ now <= l.to
IsFree(l) == l.price = 0
TotalValue(c, l) == l.price * c.quantity
Fireable(c, l) == IsFree(l) \/ TotalValue(c, l) <= c.ceiling

\* A paid drop within the ceiling fires by itself.
BugAutoFirePaid(c, l) == c.auto /\ Fireable(c, l)

ShouldAutoFire(c, l) == IsFree(l) /\ c.auto

\* A candidate that does not fire by itself is shown to the operator, as
\* fireable or not.
Verdict(t, c, l) ==
    IF ~Live(l) THEN Unmoved(t)
    ELSE IF IsCandidate(t)
    THEN IF ShouldAutoFire(c, l) THEN "sending"
         ELSE IF Fireable(c, l) THEN "offered" ELSE "skipped"
    ELSE IF Fireable(c, l) THEN "sending" ELSE "refused"

Decide(t) ==
    /\ step[t] = "read"
    /\ LET verdict == Verdict(t, cfgOf[t], seen[t])
       IN  IF verdict = "sending" THEN Goto(t, verdict) /\ UNCHANGED <<about, cfgOf, seen, heard>>
           ELSE End(t, verdict)
    /\ UNCHANGED <<world, watch, loop, served, orders>>

OrderOf(t) ==
    [trigger |-> t, kind |-> about[t].kind, drop |-> about[t].drop,
     quantity |-> cfgOf[t].quantity, value |-> TotalValue(cfgOf[t], seen[t])]

HasRoom == Len(orders) - served < QueueCap

\* A send that waits for a loop that is gone.
BugSendBlind(t) ==
    /\ step[t] = "sending"
    /\ HasRoom
    /\ orders' = Append(orders, OrderOf(t))
    /\ End(t, "sent")
    /\ UNCHANGED <<world, watch, loop, served>>

\* The send waits for a free slot, and returns at once when the loop is gone:
\* its result is thrown away, and a click is answered as if it had been heard.
Send(t) ==
    /\ step[t] = "sending"
    /\ \/ loop # "gone" /\ HasRoom /\ orders' = Append(orders, OrderOf(t))
       \/ loop = "gone" /\ UNCHANGED orders
    /\ End(t, "sent")
    /\ UNCHANGED <<world, watch, loop, served>>

\* The client of a click goes away; axum drops the handler where it waits.
CutOff(t) ==
    /\ ~IsCandidate(t)
    /\ step[t] \in {"reading", "sending"}
    /\ End(t, "cut")
    /\ UNCHANGED <<world, watch, loop, served, orders>>

-------------------------------------------------------------------------------
(* The world around.                                                       *)

\* The control loop receives an order; ControlLoop says what it does with it.
Consume ==
    /\ loop = "up"
    /\ served < Len(orders)
    /\ served' = served + 1
    /\ UNCHANGED <<world, watch, loop, own, orders, heard>>

\* It waits for a slot of its own channel, or panics (ControlLoop, Stuck).
LoopStops ==
    /\ loop = "up"
    /\ loop' \in {"wedged", "gone"}
    /\ UNCHANGED <<world, watch, served, own, orders, heard>>

Put ==
    /\ puts < MaxPuts
    /\ puts' = puts + 1
    /\ config' \in Configs
    /\ heard' = [t \in Triggers |->
          IF step[t] \in Working THEN [heard[t] EXCEPT !.configs = @ \union {config'}]
          ELSE heard[t]]
    /\ UNCHANGED <<listing, now, moves, watch, loop, served, own, orders>>

Relist(d, l) ==
    /\ moves < MaxMoves
    /\ moves' = moves + 1
    /\ listing' = [listing EXCEPT ![d] = l]
    /\ heard' = [t \in Triggers |->
          IF step[t] \in Working
          THEN [heard[t] EXCEPT !.listings = @ \union {listing'[about[t].drop]}]
          ELSE heard[t]]
    /\ UNCHANGED <<config, now, puts, watch, loop, served, own, orders>>

Tick ==
    /\ now < MaxNow
    /\ now' = now + 1
    /\ UNCHANGED <<config, listing, puts, moves, watch, loop, served, own, orders, heard>>

-------------------------------------------------------------------------------
Reading(t) == ReadDrop(t) \/ LookupFails(t)

Next ==
    \/ Wake \/ Connected \/ ConnectFails \/ StreamEnds
    \/ \E t \in Triggers :
          \/ \E w \in Wallets, d \in Drops : TxSeen(t, w, d)
          \/ \E d \in Drops : Click(t, d)
          \/ ClickRefused(t) \/ Lag(t) \/ Ignore(t) \/ Take(t) \/ Reading(t) \/ Decide(t) \/ Send(t) \/ CutOff(t)
    \/ Consume \/ LoopStops \/ Put \/ Tick
    \/ \E d \in Drops, l \in Listings : Relist(d, l)

\* Tasks that can run do, a read ends within its timeout, and the channel gives
\* its slots to waiting senders in turn.
Fairness ==
    /\ WF_vars(Wake)
    /\ WF_vars(Connected \/ ConnectFails)
    /\ WF_vars(Consume)
    /\ \A t \in Triggers :
          /\ WF_vars(Ignore(t) \/ Take(t)) /\ WF_vars(Reading(t)) /\ WF_vars(Decide(t))
          /\ SF_vars(Send(t))

Spec == Init /\ [][Next]_vars /\ Fairness

-------------------------------------------------------------------------------
(* What copymint promises.                                                 *)

\* An order answers one trigger, which gets one order at most; without a click
\* only a free drop is bought, with a click within the ceiling; and price, live
\* window, ceiling and quantity are ones that were in force after the handler
\* began, whatever is saved or relisted while it reads (copymint.rs:303-308,
\* 566-573, api.rs:264-275).
\* A candidate that no handler took up is none at all.
Untaken == {"none", "pending", "ignored", "lost"}
CaseOf(s) ==
    CASE s \in Untaken -> "none"
      [] s \in Working -> "open"
      [] OTHER -> "closed"
Policy == INSTANCE CopyPolicy WITH
    case  <- [t \in Triggers |-> CaseOf(step[t])],
    about <- [t \in Triggers |->
                IF step[t] \in Working THEN about[t] ELSE Unknown]
ImplementsPolicy == Policy!Spec

\* Every candidate reported and every click ends: with an order, or shown,
\* skipped, refused or lost.  Only a control loop that waits for itself leaves
\* one waiting (copymint.rs:549-556, seadrop.rs:77-92).
EveryTriggerSettles ==
    \A t \in Triggers : step[t] # "none" ~> (step[t] \in Settled \/ loop = "wedged")

\* If the watcher's attempts keep ending, it ends up watching the wallets the
\* configuration names (copymint.rs:303-308).  While one subscription lasts, a
\* saved list waits.
ListCatchesUp ==
    []<>(watcher = "resting") => <>[](watcher = "subscribed" => watched = config.tracked)
==============================================================================
