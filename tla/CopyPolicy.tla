----------------------------- MODULE CopyPolicy ------------------------------
(***************************************************************************)
(* What copymint promises whoever pays: a fire order answers one trigger,  *)
(* a tracked wallet's mint or an operator's click; a trigger gets one      *)
(* order at most; and an order rests on a listing and a configuration that *)
(* were in force after its trigger was opened.  How a drop is read, how    *)
(* long that takes and how orders reach the control loop do not show.      *)
(***************************************************************************)
EXTENDS Naturals, Sequences

CONSTANTS Triggers, Drops, Listings, Configs

VARIABLES
    config,   \* the configuration in force
    listing,  \* what the chain says of each drop
    now,      \* the time
    case,     \* of each trigger: "none", "open" or "closed"
    about,    \* what an open trigger is about: its kind and its drop
    heard,    \* what was in force since it was opened
    orders    \* the fire orders given, in order

world == <<config, listing, now>>
vars  == <<world, case, about, heard, orders>>

Kinds == {"candidate", "click"}
Abouts == [kind : Kinds, drop : Drops]
Unknown == CHOOSE a \in Abouts : TRUE

Nothing == [since |-> 0, configs |-> {}, listings |-> {}]

Init ==
    /\ config \in Configs
    /\ listing \in [Drops -> Listings]
    /\ now = 0
    /\ case = [t \in Triggers |-> "none"]
    /\ about = [t \in Triggers |-> Unknown]
    /\ heard = [t \in Triggers |-> Nothing]
    /\ orders = <<>>

Total(c, l) == l.price * c.quantity

\* Without a click only a free drop is bought, and only if that is switched on;
\* a click may spend what the ceiling allows.
Allowed(kind, c, l) ==
    IF kind = "candidate"
    THEN l.price = 0 /\ c.auto
    ELSE l.price = 0 \/ Total(c, l) <= c.ceiling

LiveSince(since, l) == \E n \in since .. now : l.from <= n /\ n <= l.to

Open(t) ==
    /\ case[t] = "none"
    /\ case' = [case EXCEPT ![t] = "open"]
    /\ \E a \in Abouts :
          /\ about' = [about EXCEPT ![t] = a]
          /\ heard' = [heard EXCEPT ![t] =
                [since |-> now, configs |-> {config}, listings |-> {listing[a.drop]}]]
    /\ UNCHANGED <<world, orders>>

Shut(t) ==
    /\ case' = [case EXCEPT ![t] = "closed"]
    /\ about' = [about EXCEPT ![t] = Unknown]
    /\ heard' = [heard EXCEPT ![t] = Nothing]

Order(t) ==
    /\ case[t] = "open"
    /\ \E c \in heard[t].configs, l \in heard[t].listings :
          /\ Allowed(about[t].kind, c, l)
          /\ LiveSince(heard[t].since, l)
          /\ orders' = Append(orders, [trigger |-> t, kind |-> about[t].kind,
                                       drop |-> about[t].drop,
                                       quantity |-> c.quantity, value |-> Total(c, l)])
    /\ Shut(t)
    /\ UNCHANGED world

Close(t) ==
    /\ case[t] \in {"none", "open"}
    /\ Shut(t)
    /\ UNCHANGED <<world, orders>>

Put ==
    /\ config' \in Configs
    /\ heard' = [t \in Triggers |->
          IF case[t] = "open" THEN [heard[t] EXCEPT !.configs = @ \union {config'}]
          ELSE heard[t]]
    /\ UNCHANGED <<listing, now, case, about, orders>>

Relist ==
    /\ listing' \in [Drops -> Listings]
    /\ heard' = [t \in Triggers |->
          IF case[t] = "open"
          THEN [heard[t] EXCEPT !.listings = @ \union {listing'[about[t].drop]}]
          ELSE heard[t]]
    /\ UNCHANGED <<config, now, case, about, orders>>

Tick == now' = now + 1 /\ UNCHANGED <<config, listing, case, about, heard, orders>>

Next ==
    \/ \E t \in Triggers : Open(t) \/ Order(t) \/ Close(t)
    \/ Put \/ Relist \/ Tick

Spec == Init /\ [][Next]_vars
==============================================================================
