--------------------------- MODULE CopymintProofs ----------------------------
(***************************************************************************)
(* Theorems about Copymint, for any number of triggers, any wallets, drops *)
(* and configurations, any capacity of the channel, any number of saves    *)
(* and relistings.                                                         *)
(***************************************************************************)
EXTENDS Copymint, TLAPS

\* What a handler holds was in force since it began, and an order on its way
\* to the channel is one the policy allows.
Evidence(t) ==
    /\ step[t] \in Working =>
          /\ heard[t].since <= now
          /\ cfgOf[t] \in heard[t].configs
          /\ cfgOf[t] \in Configs
          /\ listing[about[t].drop] \in heard[t].listings
    /\ step[t] \in {"read", "sending"} =>
          seen[t] \in heard[t].listings /\ seen[t] \in Listings
    /\ step[t] = "sending" =>
          /\ Policy!Allowed(about[t].kind, cfgOf[t], seen[t])
          /\ Policy!LiveSince(heard[t].since, seen[t])
    /\ step[t] \notin Working => heard[t] = Nothing

IInv == TypeOK /\ \A t \in Triggers : Evidence(t)

------------------------------------------------------------------------------
LEMMA UnknownTyped == Unknown \in Abouts
  <1>1. PICK d \in Drops : TRUE
    BY CopymintAssumption
  <1>2. [kind |-> "click", drop |-> d] \in Abouts
    BY <1>1 DEF Abouts, Kinds
  <1> QED BY <1>2 DEF Unknown

HeardTypes == [since : Nat, configs : SUBSET Configs, listings : SUBSET Listings]

LEMMA NothingTyped == Nothing \in HeardTypes
  BY DEF Nothing, HeardTypes

\* The order a handler makes is an order.
LEMMA OrderTyped ==
    ASSUME TypeOK, NEW t \in Triggers
    PROVE  OrderOf(t) \in [trigger : Triggers, kind : Kinds, drop : Drops,
                           quantity : Nat, value : Nat]
  <1>1. about[t] \in Abouts /\ cfgOf[t] \in Configs \union {NoConfig}
        /\ seen[t] \in Listings \union {NoListing}
    BY DEF TypeOK
  <1>2. cfgOf[t].quantity \in Nat
    BY <1>1, CopymintAssumption DEF NoConfig
  <1>3. seen[t].price \in Nat
    BY <1>1, CopymintAssumption DEF NoListing
  <1>4. seen[t].price * cfgOf[t].quantity \in Nat
    BY <1>2, <1>3
  <1> QED BY <1>1, <1>2, <1>4 DEF OrderOf, TotalValue, Abouts

\* Ending a trigger keeps the types of what belongs to the triggers.
LEMMA EndTyped ==
    ASSUME TypeOK, NEW t \in Triggers, NEW s \in Settled, End(t, s)
    PROVE  /\ step' \in [Triggers -> {"none", "pending"} \union Working \union Settled]
           /\ about' \in [Triggers -> Abouts]
           /\ cfgOf' \in [Triggers -> Configs \union {NoConfig}]
           /\ seen' \in [Triggers -> Listings \union {NoListing}]
           /\ heard' \in [Triggers -> HeardTypes]
  BY UnknownTyped, NothingTyped DEF End, Goto, Forget, TypeOK, HeardTypes

LEMMA UnmovedSettles == \A t : Unmoved(t) \in Settled
  BY DEF Unmoved, Settled

LEMMA BeginTyped ==
    ASSUME TypeOK, NEW t \in Triggers, NEW d \in Drops, Begin(t, d)
    PROVE  /\ cfgOf' \in [Triggers -> Configs \union {NoConfig}]
           /\ heard' \in [Triggers -> HeardTypes]
  <1>1. [since |-> now, configs |-> {config}, listings |-> {listing[d]}] \in HeardTypes
    BY CopymintAssumption DEF TypeOK, HeardTypes
  <1> QED BY <1>1 DEF Begin, TypeOK, HeardTypes

LEMMA HeardGrows ==
    ASSUME TypeOK, NEW t \in Triggers
    PROVE  /\ \A c \in Configs : [heard[t] EXCEPT !.configs = @ \union {c}] \in HeardTypes
           /\ \A l \in Listings : [heard[t] EXCEPT !.listings = @ \union {l}] \in HeardTypes
  <1>1. heard[t] \in HeardTypes
    BY DEF TypeOK, HeardTypes
  <1> QED BY <1>1 DEF HeardTypes

LEMMA DropTyped == ASSUME TypeOK, NEW t \in Triggers
                   PROVE  about[t].drop \in Drops /\ about[t].kind \in Kinds
  BY DEF TypeOK, Abouts

------------------------------------------------------------------------------
(* The types.                                                              *)

LEMMA TypeStep == TypeOK /\ [Next]_vars => TypeOK'
  <1> SUFFICES ASSUME TypeOK, [Next]_vars PROVE TypeOK'
    OBVIOUS
  <1> USE CopymintAssumption
  <1>1. CASE Wake
    BY <1>1 DEF Wake, TypeOK, world, own
  <1>2. CASE Connected \/ ConnectFails
    BY <1>2 DEF Connected, ConnectFails, TypeOK, world, own
  <1>3. CASE StreamEnds
    BY <1>3, UnknownTyped DEF StreamEnds, TypeOK, world, Settled
  <1>4. ASSUME NEW t \in Triggers, NEW w \in Wallets, NEW d \in Drops, TxSeen(t, w, d)
        PROVE  TypeOK'
    BY <1>4 DEF TxSeen, Goto, TypeOK, world, watch, Abouts, Kinds
  <1>5. ASSUME NEW t \in Triggers, NEW d \in Drops, Click(t, d)
        PROVE  TypeOK'
    <2>1. step' \in [Triggers -> {"none", "pending"} \union Working \union Settled]
      BY <1>5 DEF Click, Goto, TypeOK, Working
    <2>2. about' \in [Triggers -> Abouts]
      BY <1>5 DEF Click, TypeOK, Abouts, Kinds
    <2>3. cfgOf' \in [Triggers -> Configs \union {NoConfig}] /\ heard' \in [Triggers -> HeardTypes]
      BY <1>5, BeginTyped DEF Click
    <2> QED BY <1>5, <2>1, <2>2, <2>3 DEF Click, TypeOK, world, watch, HeardTypes
  <1>6. ASSUME NEW t \in Triggers, ClickRefused(t) \/ Lag(t) \/ Ignore(t) \/ CutOff(t) \/ LookupFails(t)
        PROVE  TypeOK'
    <2>1. PICK s \in Settled : End(t, s)
      BY <1>6, UnmovedSettles DEF ClickRefused, Lag, Ignore, CutOff, LookupFails, Settled
    <2> QED BY <1>6, <2>1, EndTyped
            DEF ClickRefused, Lag, Ignore, CutOff, LookupFails, TypeOK, world, watch, HeardTypes
  <1>7. ASSUME NEW t \in Triggers, Take(t)
        PROVE  TypeOK'
    <2>1. step' \in [Triggers -> {"none", "pending"} \union Working \union Settled]
      BY <1>7 DEF Take, Goto, TypeOK, Working
    <2>2. cfgOf' \in [Triggers -> Configs \union {NoConfig}] /\ heard' \in [Triggers -> HeardTypes]
      BY <1>7, BeginTyped, DropTyped DEF Take
    <2> QED BY <1>7, <2>1, <2>2 DEF Take, TypeOK, world, watch, HeardTypes
  <1>8. ASSUME NEW t \in Triggers, ReadDrop(t)
        PROVE  TypeOK'
    BY <1>8, DropTyped DEF ReadDrop, Goto, TypeOK, world, watch, Working
  <1>9. ASSUME NEW t \in Triggers, Decide(t)
        PROVE  TypeOK'
    <2> DEFINE verdict == Verdict(t, cfgOf[t], seen[t])
    <2>1. CASE verdict = "sending"
      BY <1>9, <2>1 DEF Decide, Goto, TypeOK, world, watch, Working
    <2>2. CASE verdict # "sending"
      <3>1. verdict \in Settled
        BY <2>2, UnmovedSettles DEF Verdict, Settled
      <3>2. End(t, verdict)
        BY <1>9, <2>2 DEF Decide
      <3> QED BY <1>9, <3>1, <3>2, EndTyped DEF Decide, TypeOK, world, watch, HeardTypes
    <2> QED BY <2>1, <2>2
  <1>10. ASSUME NEW t \in Triggers, Send(t)
         PROVE  TypeOK'
    <2>1. End(t, "sent") /\ "sent" \in Settled
      BY <1>10 DEF Send, Settled
    <2>2. CASE HasRoom /\ orders' = Append(orders, OrderOf(t))
      <3>1. /\ orders' \in Seq([trigger : Triggers, kind : Kinds, drop : Drops,
                                quantity : Nat, value : Nat])
            /\ Len(orders') = Len(orders) + 1
        BY <2>2, OrderTyped DEF TypeOK
      <3>2. served' \in 0 .. Len(orders') /\ Len(orders') - served' <= QueueCap
        <4>1. Len(orders) \in Nat /\ served \in 0 .. Len(orders)
          BY DEF TypeOK
        <4>2. Len(orders) - served < QueueCap /\ served' = served
          BY <1>10, <2>2 DEF Send, HasRoom
        <4> QED BY <3>1, <4>1, <4>2
      <3> QED BY <1>10, <2>1, <3>1, <3>2, EndTyped DEF Send, TypeOK, world, watch, HeardTypes
    <2>3. CASE UNCHANGED orders
      BY <1>10, <2>1, <2>3, EndTyped DEF Send, TypeOK, world, watch, HeardTypes
    <2> QED BY <1>10, <2>2, <2>3 DEF Send
  <1>11. CASE Consume
    <2>1. Len(orders) \in Nat /\ served \in 0 .. Len(orders) /\ Len(orders) - served <= QueueCap
      BY DEF TypeOK
    <2>2. served' \in 0 .. Len(orders') /\ Len(orders') - served' <= QueueCap
      BY <1>11, <2>1 DEF Consume
    <2> QED BY <1>11, <2>2 DEF Consume, TypeOK, world, watch, own
  <1>12. CASE LoopStops
    BY <1>12 DEF LoopStops, TypeOK, world, watch, own
  <1>13. CASE Put
    <2>1. heard' \in [Triggers -> HeardTypes]
      <3>1. \A t \in Triggers : [heard[t] EXCEPT !.configs = @ \union {config'}] \in HeardTypes
        BY <1>13, HeardGrows DEF Put
      <3>2. heard \in [Triggers -> HeardTypes]
        BY DEF TypeOK, HeardTypes
      <3> DEFINE grown(t) == IF step[t] \in Working
                             THEN [heard[t] EXCEPT !.configs = @ \union {config'}]
                             ELSE heard[t]
      <3>3. heard' = [t \in Triggers |-> grown(t)]
        BY <1>13 DEF Put
      <3>4. \A t \in Triggers : grown(t) \in HeardTypes
        BY <3>1, <3>2
      <3> HIDE DEF grown
      <3> QED BY <3>3, <3>4
    <2>2. /\ config' \in Configs
          /\ puts < MaxPuts /\ puts' = puts + 1
          /\ UNCHANGED <<listing, now, moves, watch, loop, served, own, orders>>
      BY <1>13, Zenon DEF Put
    <2> QED BY <2>1, <2>2 DEF TypeOK, watch, own, HeardTypes
  <1>14. ASSUME NEW d \in Drops, NEW l \in Listings, Relist(d, l)
         PROVE  TypeOK'
    <2>1. listing' \in [Drops -> Listings]
      BY <1>14 DEF Relist, TypeOK
    <2>2. heard' \in [Triggers -> HeardTypes]
      <3>1. \A t \in Triggers :
               [heard[t] EXCEPT !.listings = @ \union {listing'[about[t].drop]}] \in HeardTypes
        BY <2>1, HeardGrows, DropTyped
      <3>2. heard \in [Triggers -> HeardTypes]
        BY DEF TypeOK, HeardTypes
      <3> DEFINE grown(t) == IF step[t] \in Working
                             THEN [heard[t] EXCEPT !.listings = @ \union {listing'[about[t].drop]}]
                             ELSE heard[t]
      <3>3. heard' = [t \in Triggers |-> grown(t)]
        BY <1>14 DEF Relist
      <3>4. \A t \in Triggers : grown(t) \in HeardTypes
        BY <3>1, <3>2
      <3> HIDE DEF grown
      <3> QED BY <3>3, <3>4
    <2>3. /\ moves < MaxMoves /\ moves' = moves + 1
          /\ UNCHANGED <<config, now, puts, watch, loop, served, own, orders>>
      BY <1>14, Zenon DEF Relist
    <2>4. moves' \in 0 .. MaxMoves
      BY <2>3 DEF TypeOK
    <2>5. UNCHANGED <<config, now, puts, watcher, watched, loop, served, step, about,
                      cfgOf, seen, orders>>
      BY <2>3 DEF watch, own
    <2> QED BY <2>1, <2>2, <2>4, <2>5 DEF TypeOK, HeardTypes
  <1>15. CASE Tick
    BY <1>15 DEF Tick, TypeOK, watch, own
  <1>16. CASE UNCHANGED vars
    BY <1>16 DEF vars, world, watch, own, TypeOK
  <1> QED BY <1>1, <1>2, <1>3, <1>4, <1>5, <1>6, <1>7, <1>8, <1>9, <1>10, <1>11,
             <1>12, <1>13, <1>14, <1>15, <1>16 DEF Next, Reading

\* Every variable of copymint keeps its type and the channel its capacity.
THEOREM CopymintTypeCorrect == Spec => []TypeOK
  <1>1. Init => TypeOK
    BY CopymintAssumption, UnknownTyped, NothingTyped
       DEF Init, TypeOK, HeardTypes, Working, Settled
  <1> QED BY <1>1, TypeStep, PTL DEF Spec

------------------------------------------------------------------------------
(* The evidence behind an order.                                           *)

\* Nothing that leaves a trigger alone takes its evidence away.
LEMMA EvidenceKept ==
    ASSUME TypeOK, NEW t \in Triggers, Evidence(t),
           now' \in {now, now + 1}, listing' = listing,
           step'[t] = step[t], about'[t] = about[t], cfgOf'[t] = cfgOf[t],
           seen'[t] = seen[t], heard'[t] = heard[t]
    PROVE  Evidence(t)'
  <1>1. now \in Nat /\ heard[t].since \in Nat
    BY CopymintAssumption DEF TypeOK
  <1>2. heard[t].since <= now => heard'[t].since <= now'
    BY <1>1
  <1>3. Policy!LiveSince(heard[t].since, seen[t])
        => Policy!LiveSince(heard[t].since, seen[t])'
    BY <1>1 DEF Policy!LiveSince
  <1>4. heard[t].since' = heard[t].since /\ seen[t]' = seen[t]
    OBVIOUS
  <1>5. Policy!LiveSince(heard[t].since, seen[t])
        => Policy!LiveSince(heard[t].since, seen[t])'
    BY <1>3
  <1>6. Policy!Allowed(about[t].kind, cfgOf[t], seen[t])
        => Policy!Allowed(about[t].kind, cfgOf[t], seen[t])'
    BY DEF Policy!Allowed, Policy!Total
  <1> QED BY <1>2, <1>5, <1>6 DEF Evidence

\* A verdict to send is one the policy allows.
LEMMA VerdictAllowed ==
    ASSUME TypeOK, NEW t \in Triggers, Evidence(t), step[t] = "read",
           Verdict(t, cfgOf[t], seen[t]) = "sending"
    PROVE  /\ Policy!Allowed(about[t].kind, cfgOf[t], seen[t])
           /\ Policy!LiveSince(heard[t].since, seen[t])
  <1>1. Live(seen[t])
    BY DEF Verdict, Unmoved
  <1>2. now \in Nat /\ heard[t].since \in Nat /\ heard[t].since <= now
    BY CopymintAssumption DEF TypeOK, Evidence, Working
  <1>3. Policy!LiveSince(heard[t].since, seen[t])
    BY <1>1, <1>2 DEF Live, Policy!LiveSince
  <1>4. Policy!Allowed(about[t].kind, cfgOf[t], seen[t])
    BY <1>1, DropTyped DEF Verdict, Unmoved, IsCandidate, Kinds, ShouldAutoFire, IsFree,
       Fireable, TotalValue, Policy!Allowed, Policy!Total
  <1> QED BY <1>3, <1>4

LEMMA EvidenceStep ==
    IInv /\ [Next]_vars => \A u \in Triggers : Evidence(u)'
  <1> SUFFICES ASSUME IInv, [Next]_vars, NEW u \in Triggers PROVE Evidence(u)'
    OBVIOUS
  <1>0. TypeOK /\ Evidence(u)
    BY DEF IInv
  <1> USE <1>0
  <1>e. ASSUME NEW t \in Triggers, NEW s \in Settled, End(t, s), UNCHANGED world
        PROVE  Evidence(u)'
    <2>1. CASE u = t
      <3>1. step'[u] \notin Working /\ heard'[u] = Nothing
        BY <1>e, <2>1 DEF End, Goto, Forget, Settled, Working, TypeOK
      <3> QED BY <3>1 DEF Evidence, Working
    <2>2. CASE u # t
      BY <1>e, <2>2, EvidenceKept DEF End, Goto, Forget, TypeOK, world
    <2> QED BY <2>1, <2>2
  <1>1. CASE Wake \/ Connected \/ ConnectFails \/ Consume \/ LoopStops
    BY <1>1, EvidenceKept DEF Wake, Connected, ConnectFails, Consume, LoopStops, own, world
  <1>2. CASE StreamEnds
    <2>1. CASE step[u] = "pending"
      BY <1>2, <2>1 DEF StreamEnds, TypeOK, Evidence, Working
    <2>2. CASE step[u] # "pending"
      BY <1>2, <2>2, EvidenceKept DEF StreamEnds, world, TypeOK
    <2> QED BY <2>1, <2>2
  <1>3. ASSUME NEW t \in Triggers, NEW w \in Wallets, NEW d \in Drops, TxSeen(t, w, d)
        PROVE  Evidence(u)'
    <2>1. CASE u = t
      BY <1>3, <2>1 DEF TxSeen, Fresh, Goto, TypeOK, Evidence, Working
    <2>2. CASE u # t
      BY <1>3, <2>2, EvidenceKept DEF TxSeen, Goto, world, TypeOK
    <2> QED BY <2>1, <2>2
  <1>4. ASSUME NEW t \in Triggers, NEW d \in Drops, Begin(t, d), Goto(t, "reading"),
               (about' = about /\ about[t].drop = d)
               \/ about' = [about EXCEPT ![t] = [kind |-> "click", drop |-> d]],
               UNCHANGED <<world, seen>>
        PROVE  Evidence(u)'
    <2>1. CASE u = t
      <3>1. /\ step'[u] = "reading" /\ about'[u].drop = d /\ cfgOf'[u] = config
            /\ heard'[u] = [since |-> now, configs |-> {config}, listings |-> {listing[d]}]
        BY <1>4, <2>1 DEF Goto, Begin, TypeOK
      <3>2. now \in Nat
        BY CopymintAssumption DEF TypeOK
      <3> QED BY <1>4, <3>1, <3>2 DEF Evidence, Working, world, TypeOK
    <2>2. CASE u # t
      BY <1>4, <2>2, EvidenceKept DEF Begin, Goto, world, TypeOK
    <2> QED BY <2>1, <2>2
  <1>5. ASSUME NEW t \in Triggers, NEW d \in Drops, Click(t, d)
        PROVE  Evidence(u)'
    BY <1>5, <1>4 DEF Click
  <1>6. ASSUME NEW t \in Triggers, Take(t)
        PROVE  Evidence(u)'
    BY <1>6, <1>4, DropTyped DEF Take
  <1>7. ASSUME NEW t \in Triggers, ClickRefused(t) \/ Lag(t) \/ Ignore(t) \/ CutOff(t) \/ LookupFails(t)
        PROVE  Evidence(u)'
    <2>1. PICK s \in Settled : End(t, s)
      BY <1>7, UnmovedSettles DEF ClickRefused, Lag, Ignore, CutOff, LookupFails, Settled
    <2> QED BY <1>7, <2>1, <1>e DEF ClickRefused, Lag, Ignore, CutOff, LookupFails
  <1>8. ASSUME NEW t \in Triggers, ReadDrop(t)
        PROVE  Evidence(u)'
    <2>1. CASE u = t
      <3>1. step'[u] = "read" /\ seen'[u] = listing[about[u].drop]
        BY <1>8, <2>1 DEF ReadDrop, Goto, TypeOK
      <3>2. listing[about[u].drop] \in Listings
        BY DropTyped DEF TypeOK
      <3> QED BY <1>8, <2>1, <3>1, <3>2 DEF ReadDrop, Evidence, Working, world
    <2>2. CASE u # t
      BY <1>8, <2>2, EvidenceKept DEF ReadDrop, Goto, world, TypeOK
    <2> QED BY <2>1, <2>2
  <1>9. ASSUME NEW t \in Triggers, Decide(t)
        PROVE  Evidence(u)'
    <2> DEFINE verdict == Verdict(t, cfgOf[t], seen[t])
    <2>1. CASE verdict # "sending"
      <3>1. verdict \in Settled
        BY <2>1, UnmovedSettles DEF Verdict, Settled
      <3> QED BY <1>9, <2>1, <3>1, <1>e DEF Decide
    <2>2. CASE verdict = "sending"
      <3>1. /\ Goto(t, "sending") /\ step[t] = "read"
            /\ UNCHANGED <<about, cfgOf, seen, heard, world>>
        BY <1>9, <2>2 DEF Decide
      <3>2. CASE u = t
        <4>1. step'[u] = "sending"
          BY <3>1, <3>2 DEF Goto, TypeOK
        <4>2. /\ Policy!Allowed(about[u].kind, cfgOf[u], seen[u])
              /\ Policy!LiveSince(heard[u].since, seen[u])
          BY <2>2, <3>1, <3>2, VerdictAllowed
        <4>3. /\ Policy!Allowed(about[u].kind, cfgOf[u], seen[u])'
              /\ Policy!LiveSince(heard[u].since, seen[u])'
          BY <3>1, <4>2 DEF Policy!Allowed, Policy!Total, Policy!LiveSince, world
        <4> QED BY <3>1, <3>2, <4>1, <4>3 DEF Evidence, Working, world
      <3>3. CASE u # t
        BY <3>1, <3>3, EvidenceKept DEF Goto, world, TypeOK
      <3> QED BY <3>2, <3>3
    <2> QED BY <2>1, <2>2
  <1>10. ASSUME NEW t \in Triggers, Send(t)
         PROVE  Evidence(u)'
    BY <1>10, <1>e DEF Send, Settled
  <1>11. CASE Tick
    BY <1>11, EvidenceKept DEF Tick, own
  <1>12. CASE UNCHANGED vars
    BY <1>12, EvidenceKept DEF vars, own, world
  <1>13. CASE Put
    <2>1. /\ UNCHANGED <<listing, now, own>>
          /\ heard'[u] = IF step[u] \in Working
                         THEN [heard[u] EXCEPT !.configs = @ \union {config'}] ELSE heard[u]
      BY <1>13, Zenon DEF Put
    <2>2. CASE step[u] \in Working
      <3>1. heard[u] \in HeardTypes
        BY DEF TypeOK, HeardTypes
      <3>2. /\ heard'[u].since = heard[u].since
            /\ heard'[u].listings = heard[u].listings
            /\ heard[u].configs \subseteq heard'[u].configs
        BY <2>1, <2>2, <3>1 DEF HeardTypes
      <3>3. Policy!LiveSince(heard[u].since, seen[u])
            => Policy!LiveSince(heard[u].since, seen[u])'
        BY <2>1, <3>2 DEF Policy!LiveSince, own
      <3>4. Policy!Allowed(about[u].kind, cfgOf[u], seen[u])
            => Policy!Allowed(about[u].kind, cfgOf[u], seen[u])'
        BY <2>1 DEF Policy!Allowed, Policy!Total, own
      <3>5. UNCHANGED <<listing, now, step, about, cfgOf, seen>>
        BY <2>1 DEF own
      <3> QED BY <2>2, <3>2, <3>3, <3>4, <3>5 DEF Evidence
    <2>3. CASE step[u] \notin Working
      BY <2>1, <2>3, EvidenceKept DEF own
    <2> QED BY <2>2, <2>3
  <1>14. ASSUME NEW d \in Drops, NEW l \in Listings, Relist(d, l)
         PROVE  Evidence(u)'
    <2>1. /\ UNCHANGED <<now, own>>
          /\ heard'[u] = IF step[u] \in Working
                         THEN [heard[u] EXCEPT !.listings = @ \union {listing'[about[u].drop]}]
                         ELSE heard[u]
      BY <1>14, Zenon DEF Relist, world
    <2>2. CASE step[u] \in Working
      <3>1. heard[u] \in HeardTypes
        BY DEF TypeOK, HeardTypes
      <3>2. /\ heard'[u].since = heard[u].since
            /\ heard'[u].configs = heard[u].configs
            /\ heard[u].listings \subseteq heard'[u].listings
            /\ listing'[about[u].drop] \in heard'[u].listings
        BY <2>1, <2>2, <3>1 DEF HeardTypes
      <3>3. Policy!LiveSince(heard[u].since, seen[u])
            => Policy!LiveSince(heard[u].since, seen[u])'
        BY <2>1, <3>2 DEF Policy!LiveSince, own
      <3>4. Policy!Allowed(about[u].kind, cfgOf[u], seen[u])
            => Policy!Allowed(about[u].kind, cfgOf[u], seen[u])'
        BY <2>1 DEF Policy!Allowed, Policy!Total, own
      <3>5. UNCHANGED <<now, step, about, cfgOf, seen>>
        BY <2>1 DEF own
      <3> QED BY <2>2, <3>2, <3>3, <3>4, <3>5 DEF Evidence
    <2>3. CASE step[u] \notin Working
      BY <2>1, <2>3 DEF own, Evidence, Working
    <2> QED BY <2>2, <2>3
  <1> QED BY <1>1, <1>2, <1>3, <1>5, <1>6, <1>7, <1>8, <1>9, <1>10, <1>11, <1>12,
             <1>13, <1>14 DEF Next, Reading

\* What a handler acts on was in force after it began.
THEOREM EvidenceCorrect == Spec => []IInv
  <1>1. Init => IInv
    <2> SUFFICES ASSUME Init PROVE IInv
      OBVIOUS
    <2>1. TypeOK
      BY CopymintAssumption, UnknownTyped, NothingTyped
         DEF Init, TypeOK, HeardTypes, Working, Settled
    <2>2. \A t \in Triggers : Evidence(t)
      BY DEF Init, Evidence, Working
    <2> QED BY <2>1, <2>2 DEF IInv
  <1>2. IInv /\ [Next]_vars => IInv'
    BY TypeStep, EvidenceStep DEF IInv
  <1> QED BY <1>1, <1>2, PTL DEF Spec

------------------------------------------------------------------------------
(* Copymint implements CopyPolicy.                                         *)

Cases == [t \in Triggers |-> CaseOf(step[t])]
Known == [t \in Triggers |-> IF step[t] \in Working THEN about[t] ELSE Unknown]

LEMMA CaseByStep ==
    /\ \A s \in {"none", "pending", "ignored", "lost"} : CaseOf(s) = "none"
    /\ \A s \in Working : CaseOf(s) = "open"
    /\ \A s \in Settled \ Untaken : CaseOf(s) = "closed"
  <1>1. \A s \in {"none", "pending", "ignored", "lost"} : s \in Untaken /\ s \notin Working
    BY DEF Untaken, Working
  <1>2. \A s \in Working : s \notin Untaken
    BY DEF Untaken, Working
  <1>3. \A s \in Settled \ Untaken : s \notin Working
    BY DEF Settled, Working
  <1> QED BY <1>1, <1>2, <1>3, Zenon DEF CaseOf

LEMMA SameUnknown == Policy!Unknown = Unknown /\ Policy!Nothing = Nothing
                     /\ Policy!Abouts = Abouts
  BY DEF Policy!Unknown, Unknown, Policy!Abouts, Abouts, Policy!Kinds, Kinds,
         Policy!Nothing, Nothing

\* A step that neither opens nor closes a trigger does not show.
LEMMA Unshown ==
    ASSUME Cases' = Cases, Known' = Known, UNCHANGED <<config, listing, now, heard, orders>>
    PROVE  UNCHANGED Policy!vars
  BY DEF Policy!vars, Policy!world, Cases, Known

LEMMA EndShuts ==
    ASSUME TypeOK, NEW t \in Triggers, NEW s \in Settled \ Untaken, End(t, s)
    PROVE  Policy!Shut(t)
  <1>1. CaseOf(s) = "closed" /\ s \notin Working
    BY DEF CaseOf, Untaken, Settled, Working
  <1>2. Cases' = [Cases EXCEPT ![t] = "closed"]
    BY <1>1 DEF Cases, End, Goto, TypeOK
  <1>3. Known' = [Known EXCEPT ![t] = Unknown]
    BY <1>1 DEF Known, End, Goto, Forget, TypeOK
  <1> QED BY <1>2, <1>3, SameUnknown DEF Policy!Shut, Cases, Known, End, Forget

LEMMA BeginOpens ==
    ASSUME TypeOK, NEW t \in Triggers, NEW d \in Drops, step[t] \in {"none", "pending"},
           Begin(t, d), Goto(t, "reading"), about'[t].drop = d,
           about' = about \/ about' = [about EXCEPT ![t] = [kind |-> "click", drop |-> d]],
           UNCHANGED <<world, orders>>
    PROVE  Policy!Open(t)
  <1>1. about'[t] \in Abouts
    BY DEF TypeOK, Abouts, Kinds
  <1>2. Cases[t] = "none"
    BY CaseByStep DEF Cases
  <1>3. Cases' = [Cases EXCEPT ![t] = "open"]
    <2>1. CaseOf("reading") = "open"
      BY DEF CaseOf, Untaken, Working
    <2> QED BY <2>1 DEF Cases, Goto, TypeOK
  <1>4. Known' = [Known EXCEPT ![t] = about'[t]]
    BY DEF Known, Goto, TypeOK, Working
  <1> QED BY <1>1, <1>2, <1>3, <1>4, SameUnknown
          DEF Policy!Open, Policy!world, Cases, Known, Begin, world

LEMMA OpenCase ==
    ASSUME NEW t \in Triggers, step[t] \in Working
    PROVE  Cases[t] = "open" /\ Known[t] = about[t]
  BY DEF Cases, Known, CaseOf, Untaken, Working

\* A trigger at work, or one that nobody opened yet, may end without an order.
LEMMA EndCloses ==
    ASSUME TypeOK, NEW t \in Triggers, step[t] \in Working \union {"none"},
           NEW s \in Settled \ Untaken, End(t, s), UNCHANGED <<world, orders>>
    PROVE  Policy!Close(t)
  <1>1. Cases[t] \in {"none", "open"}
    BY DEF Cases, CaseOf, Untaken
  <1> QED BY <1>1, EndShuts DEF Policy!Close, Policy!world, Cases, world

LEMMA PolicyStep == IInv /\ [Next]_vars => [Policy!Next]_(Policy!vars)
  <1> SUFFICES ASSUME IInv, [Next]_vars PROVE [Policy!Next]_(Policy!vars)
    OBVIOUS
  <1>0. TypeOK /\ \A t \in Triggers : Evidence(t)
    BY DEF IInv
  <1> USE <1>0
  <1>u. \A t : Unmoved(t) \in Settled \ Untaken
    BY DEF Unmoved, Settled, Untaken
  <1>1. CASE Wake \/ Connected \/ ConnectFails \/ Consume \/ LoopStops
    BY <1>1, Unshown DEF Wake, Connected, ConnectFails, Consume, LoopStops, own, world,
       Cases, Known
  <1>2. CASE StreamEnds
    <2>1. Cases' = Cases
      BY <1>2, CaseByStep DEF StreamEnds, Cases, TypeOK
    <2>2. Known' = Known
      BY <1>2 DEF StreamEnds, Known, Working, TypeOK
    <2> QED BY <1>2, <2>1, <2>2, Unshown DEF StreamEnds, world
  <1>3. ASSUME NEW t \in Triggers, NEW w \in Wallets, NEW d \in Drops, TxSeen(t, w, d)
        PROVE  UNCHANGED Policy!vars
    <2>1. Cases' = Cases
      BY <1>3, CaseByStep DEF TxSeen, Fresh, Goto, Cases, TypeOK
    <2>2. Known' = Known
      BY <1>3 DEF TxSeen, Fresh, Goto, Known, Working, TypeOK
    <2> QED BY <1>3, <2>1, <2>2, Unshown DEF TxSeen, world
  <1>4. ASSUME NEW t \in Triggers, Lag(t) \/ Ignore(t)
        PROVE  UNCHANGED Policy!vars
    <2>1. PICK s \in {"lost", "ignored"} : End(t, s)
      BY <1>4 DEF Lag, Ignore
    <2>2. step[t] = "pending" /\ UNCHANGED <<world, orders>>
      BY <1>4 DEF Lag, Ignore, NextUp
    <2>3. Cases' = Cases
      BY <2>1, <2>2, CaseByStep DEF End, Goto, Cases, TypeOK
    <2>4. Known' = Known
      BY <2>1, <2>2 DEF End, Goto, Forget, Known, Working, TypeOK
    <2>5. heard' = heard
      <3>1. heard[t] = Nothing
        BY <2>2 DEF Evidence, Working
      <3> QED BY <2>1, <3>1 DEF End, Forget, TypeOK
    <2> QED BY <2>2, <2>3, <2>4, <2>5, Unshown DEF world
  <1>5. ASSUME NEW t \in Triggers, Take(t)
        PROVE  Policy!Open(t)
    BY <1>5, BeginOpens, DropTyped DEF Take, NextUp
  <1>6. ASSUME NEW t \in Triggers, NEW d \in Drops, Click(t, d)
        PROVE  Policy!Open(t)
    <2>1. about'[t].drop = d
      BY <1>6 DEF Click, TypeOK
    <2> QED BY <1>6, <2>1, BeginOpens DEF Click, Fresh
  <1>7. ASSUME NEW t \in Triggers, ClickRefused(t) \/ LookupFails(t) \/ CutOff(t)
        PROVE  Policy!Close(t)
    <2>1. PICK s \in Settled \ Untaken : End(t, s)
      BY <1>7, <1>u DEF ClickRefused, LookupFails, CutOff, Settled, Untaken
    <2>2. step[t] \in Working \union {"none"}
      BY <1>7 DEF ClickRefused, Fresh, LookupFails, CutOff, Working
    <2>3. UNCHANGED <<world, orders>>
      BY <1>7 DEF ClickRefused, LookupFails, CutOff
    <2> QED BY <2>1, <2>2, <2>3, EndCloses
  <1>8. ASSUME NEW t \in Triggers, ReadDrop(t)
        PROVE  UNCHANGED Policy!vars
    <2>1. Cases' = Cases
      BY <1>8 DEF ReadDrop, Goto, Cases, CaseOf, Untaken, Working, TypeOK
    <2>2. Known' = Known
      BY <1>8 DEF ReadDrop, Goto, Known, Working, TypeOK
    <2> QED BY <1>8, <2>1, <2>2, Unshown DEF ReadDrop, world
  <1>9. ASSUME NEW t \in Triggers, Decide(t)
        PROVE  Policy!Close(t) \/ UNCHANGED Policy!vars
    <2> DEFINE verdict == Verdict(t, cfgOf[t], seen[t])
    <2>1. CASE verdict = "sending"
      <3>1. Goto(t, "sending") /\ step[t] = "read"
            /\ UNCHANGED <<about, heard, world, orders>>
        BY <1>9, <2>1 DEF Decide
      <3>2. Cases' = Cases
        BY <3>1 DEF Goto, Cases, CaseOf, Untaken, Working, TypeOK
      <3>3. Known' = Known
        BY <3>1 DEF Goto, Known, Working, TypeOK
      <3> QED BY <3>1, <3>2, <3>3, Unshown DEF world
    <2>2. CASE verdict # "sending"
      <3>1. verdict \in Settled \ Untaken
        BY <2>2, <1>u DEF Verdict, Settled, Untaken
      <3>2. End(t, verdict) /\ step[t] \in Working /\ UNCHANGED <<world, orders>>
        BY <1>9, <2>2 DEF Decide, Working
      <3> QED BY <3>1, <3>2, EndCloses
    <2> QED BY <2>1, <2>2
  <1>10. ASSUME NEW t \in Triggers, Send(t)
         PROVE  Policy!Order(t) \/ Policy!Close(t)
    <2>1. /\ step[t] = "sending" /\ step[t] \in Working /\ End(t, "sent")
          /\ "sent" \in Settled \ Untaken /\ UNCHANGED world
      BY <1>10 DEF Send, Settled, Untaken, Working
    <2>2. CASE UNCHANGED orders
      BY <2>1, <2>2, EndCloses
    <2>3. CASE orders' = Append(orders, OrderOf(t))
      <3>1. Cases[t] = "open" /\ Known[t] = about[t]
        BY <2>1, OpenCase
      <3>2. /\ cfgOf[t] \in heard[t].configs /\ seen[t] \in heard[t].listings
            /\ Policy!Allowed(about[t].kind, cfgOf[t], seen[t])
            /\ Policy!LiveSince(heard[t].since, seen[t])
        BY <2>1 DEF Evidence
      <3>3. Policy!Shut(t)
        BY <2>1, EndShuts
      <3>4. OrderOf(t) = [trigger |-> t, kind |-> Known[t].kind, drop |-> Known[t].drop,
                          quantity |-> cfgOf[t].quantity,
                          value |-> Policy!Total(cfgOf[t], seen[t])]
        BY <3>1 DEF OrderOf, TotalValue, Policy!Total
      <3> QED BY <2>1, <2>3, <3>1, <3>2, <3>3, <3>4
              DEF Policy!Order, Policy!world, Cases, Known, world
    <2> QED BY <1>10, <2>2, <2>3 DEF Send
  <1>11. ASSUME Put
         PROVE  Policy!Put
    <2>1. \A t \in Triggers : Cases[t] = "open" <=> step[t] \in Working
      BY DEF Cases, CaseOf, Untaken, Working
    <2>2. config' \in Configs /\ UNCHANGED <<listing, now, own, orders>>
      BY <1>11, Zenon DEF Put
    <2>3. heard' = [t \in Triggers |->
              IF Cases[t] = "open" THEN [heard[t] EXCEPT !.configs = @ \union {config'}]
              ELSE heard[t]]
      BY <1>11, <2>1 DEF Put
    <2>4. Cases' = Cases /\ Known' = Known
      BY <2>2 DEF own, Cases, Known
    <2> QED BY <2>2, <2>3, <2>4 DEF Policy!Put, Cases, Known
  <1>12. ASSUME NEW d \in Drops, NEW l \in Listings, Relist(d, l)
         PROVE  Policy!Relist
    <2>1. \A t \in Triggers : Cases[t] = "open" <=> step[t] \in Working
      BY DEF Cases, CaseOf, Untaken, Working
    <2>2. listing' \in [Drops -> Listings]
      BY <1>12 DEF Relist, TypeOK
    <2>3. UNCHANGED <<config, now, own, orders>>
      BY <1>12, Zenon DEF Relist
    <2>4. heard' = [t \in Triggers |->
              IF Cases[t] = "open"
              THEN [heard[t] EXCEPT !.listings = @ \union {listing'[Known[t].drop]}]
              ELSE heard[t]]
      BY <1>12, <2>1, OpenCase DEF Relist
    <2>5. Cases' = Cases /\ Known' = Known
      BY <2>3 DEF own, Cases, Known
    <2> QED BY <2>2, <2>3, <2>4, <2>5 DEF Policy!Relist, Cases, Known
  <1>13. ASSUME Tick
         PROVE  Policy!Tick
    BY <1>13 DEF Tick, Policy!Tick, own
  <1>14. ASSUME UNCHANGED vars
         PROVE  UNCHANGED Policy!vars
    BY <1>14, Unshown DEF vars, own, world, Cases, Known
  <1> QED BY <1>1, <1>2, <1>3, <1>4, <1>5, <1>6, <1>7, <1>8, <1>9, <1>10, <1>11,
             <1>12, <1>13, <1>14 DEF Next, Reading, Policy!Next

\* Copymint implements CopyPolicy: one order at most for a trigger, no paid
\* drop without a click, nothing above the ceiling, and every order on what was
\* in force while its handler worked.
THEOREM CopymintRefinement == Spec => ImplementsPolicy
  <1>1. Init => Policy!Init
    <2> SUFFICES ASSUME Init PROVE Policy!Init
      OBVIOUS
    <2>1. Cases = [t \in Triggers |-> "none"]
      BY CaseByStep DEF Init, Cases
    <2>2. Known = [t \in Triggers |-> Policy!Unknown]
      BY SameUnknown DEF Init, Known, Working
    <2> QED BY <2>1, <2>2, SameUnknown DEF Init, Policy!Init, Cases, Known
  <1> QED BY <1>1, PolicyStep, EvidenceCorrect, PTL
          DEF Spec, ImplementsPolicy, Policy!Spec
==============================================================================
