-------------------------- MODULE ControlLoopProofs ---------------------------
(***************************************************************************)
(* Theorems about ControlLoop, for every channel capacity, every set of    *)
(* configurations, targets and prices, and any number of commands.         *)
(***************************************************************************)
EXTENDS ControlLoop, FiniteSetTheorems, TLAPS

------------------------------------------------------------------------------
(* Type correctness.                                                       *)

\* The channel keeps its type and its capacity when a send finds a slot.
LEMMA SendType ==
    ASSUME TypeOK, NEW m \in Message, Send(m)
    PROVE  queue' \in Seq(Message) /\ Len(queue') <= QueueCap
  BY ControlLoopAssumption DEF TypeOK, Send

\* Receiving keeps the channel's type and yields a message.
LEMMA ReceiveType ==
    ASSUME TypeOK, NEW type, Receive(type)
    PROVE  /\ queue' \in Seq(Message) /\ Len(queue') <= QueueCap
           /\ Head(queue) \in Message
           /\ Head(queue).type = type
  <1>1. queue \in Seq(Message) /\ queue # <<>> /\ queue' = Tail(queue)
        /\ Len(queue) <= QueueCap /\ Head(queue).type = type
    BY DEF TypeOK, Receive
  <1>2. Head(queue) \in Message /\ Tail(queue) \in Seq(Message)
        /\ Len(Tail(queue)) = Len(queue) - 1 /\ Len(queue) \in Nat
    BY <1>1
  <1> QED BY <1>1, <1>2, ControlLoopAssumption

\* A message of a type that carries a mint carries one; every message says
\* who sent it.
LEMMA MessageParts ==
    ASSUME NEW m \in Message
    PROVE  /\ m.from \in Nat
           /\ m.type \in MintKinds => m.mint \in Mint
  BY DEF Message, PlainMsg, MintMsg, MintKinds

\* Every command the outside world may issue is a message.
LEMMA CommandsType == Commands \subseteq Message
  <1>1. Resolved \subseteq Mint
    BY ControlLoopAssumption DEF Resolved, Mint, Config
  <1>2. \A k \in CommandKinds : Plain(k, 0) \in Message
    BY DEF CommandKinds, Plain, Message, PlainMsg
  <1> QED BY <1>1, <1>2 DEF Commands, Message, MintMsg

\* Every variable keeps its type through every step.
THEOREM TypeCorrect == Spec => []TypeOK
  <1>1. Init => TypeOK
    <2> SUFFICES ASSUME Init PROVE TypeOK
      OBVIOUS
    <2>1. cfg \in Config /\ cfg.quantity \in Nat
      BY ControlLoopAssumption DEF Init, Config
    <2>2. \A t \in Targets : price[t] \in Nat
      BY ControlLoopAssumption DEF Init
    <2>3. \A t \in Targets : price[t] * cfg.quantity \in Nat
      BY <2>1, <2>2
    <2>4. mint \in Mint
      BY <2>1, <2>3 DEF Init, Mint
    <2>5. queue \in Seq(Message) /\ fires \in Seq(Fire) /\ copyFires \in Seq(Batch)
          /\ Len(queue) = 0
      BY DEF Init
    <2>6. Len(queue) <= QueueCap
      BY <2>5, ControlLoopAssumption
    <2> QED BY <2>1, <2>4, <2>5, <2>6 DEF Init, TypeOK
  <1>2. TypeOK /\ [Next]_vars => TypeOK'
    <2> SUFFICES ASSUME TypeOK, [Next]_vars
                 PROVE  TypeOK'
      OBVIOUS
    <2> USE ControlLoopAssumption DEF loopVars, history, world
    <2>1. CASE UNCHANGED vars
      BY <2>1 DEF TypeOK, vars
    <2>2. CASE Request
      BY <2>2, SendType, CommandsType DEF Request, TypeOK
    <2>3. CASE PutConfig
      BY <2>3 DEF PutConfig, TypeOK
    <2>4. CASE PriceMoves
      BY <2>4 DEF PriceMoves, TypeOK
    <2>5. CASE WatcherTrigger
      BY <2>5 DEF WatcherTrigger, TypeOK
    <2>6. CASE WatcherEnds
      BY <2>6 DEF WatcherEnds, TypeOK
    <2>7. CASE WatcherFails
      BY <2>7 DEF WatcherFails, TypeOK
    <2>8. CASE SuperviseDisarm
      <3>1. Plain("Disarm", session) \in Message
        BY DEF TypeOK, Plain, Message, PlainMsg
      <3> QED BY <2>8, <3>1, SendType DEF SuperviseDisarm, TypeOK
    <2>9. ASSUME NEW s \in forwarding, ForwardFireNow(s)
          PROVE  TypeOK'
      <3>1. Plain("FireNow", s) \in Message
        BY DEF TypeOK, Plain, Message, PlainMsg
      <3> QED BY <2>9, <3>1, SendType DEF ForwardFireNow, TypeOK
    <2>10. CASE PrepareTimer
      <3>1. Plain("Prepare", session) \in Message
        BY DEF TypeOK, Plain, Message, PlainMsg
      <3> QED BY <2>10, <3>1, SendType DEF PrepareTimer, TypeOK
    <2>11. CASE ReprepareTick
      <3>1. Plain("Prepare", session) \in Message
        BY DEF TypeOK, Plain, Message, PlainMsg
      <3> QED BY <2>11, <3>1, SendType DEF ReprepareTick, TypeOK
    <2>12. CASE ArmIgnored
      BY <2>12, ReceiveType DEF ArmIgnored, TypeOK
    <2>13. CASE ArmRefused
      BY <2>13, ReceiveType DEF ArmRefused, TypeOK
    <2>14. CASE BeginArm
      BY <2>14, ReceiveType DEF BeginArm, TypeOK
    <2>15. CASE CompleteArm
      <3>1. snap.rpcs \in BOOLEAN
        BY DEF TypeOK, Config
      <3>2. timer' \in BOOLEAN /\ pc' \in {"recv", "sendPrepare"}
        BY <2>15 DEF CompleteArm, TypeOK
      <3>3. warmed' \in BOOLEAN
        BY <2>15, <3>1 DEF CompleteArm, Warms
      <3>4. session' \in Nat
        BY <2>15 DEF CompleteArm, TypeOK
      <3> QED BY <2>15, <3>2, <3>3, <3>4 DEF CompleteArm, TypeOK
    <2>16. CASE SelfSendPrepare
      <3>1. Plain("Prepare", session) \in Message
        BY DEF TypeOK, Plain, Message, PlainMsg
      <3> QED BY <2>16, <3>1, SendType DEF SelfSendPrepare, TypeOK
    <2>17. CASE PrepareSkipped
      BY <2>17, ReceiveType DEF PrepareSkipped, TypeOK
    <2>18. CASE Prepare
      <3>1. RecheckedValues \subseteq Nat
        <4>1. mint.value \in Nat /\ mint.nft \in Targets /\ cfg.quantity \in Nat
          BY DEF TypeOK, Mint, Config
        <4>2. price[mint.nft] \in Nat
          BY <4>1 DEF TypeOK
        <4>3. price[mint.nft] * cfg.quantity \in Nat
          BY <4>1, <4>2
        <4> QED BY <4>1, <4>3 DEF RecheckedValues
      <3>2. mint' \in Mint
        BY <2>18, <3>1 DEF Prepare, TypeOK, Mint
      <3>3. prepared' \in SUBSET Batch
        <4>1. {[nonce |-> nextNonce, mint |-> mint']} \in SUBSET Batch
          BY <3>2 DEF TypeOK, Batch
        <4> QED BY <2>18, <4>1 DEF Prepare, TypeOK, Sign
      <3> QED BY <2>18, <3>2, <3>3, ReceiveType DEF Prepare, TypeOK
    <2>19. CASE PreparePanics
      BY <2>19, ReceiveType DEF PreparePanics, TypeOK
    <2>20. CASE Disarm
      BY <2>20, ReceiveType DEF Disarm, EndSession, TypeOK
    <2>21. CASE SetTarget
      BY <2>21, ReceiveType, MessageParts DEF SetTarget, EndSession, MintKinds, TypeOK
    <2>22. CASE FirePrepared
      <3>1. PICK b \in Batch : Broadcast(b)
        BY <2>22 DEF FirePrepared, TypeOK, Batch
      <3>2. Head(queue).from \in Nat /\ Live \in Nat
        BY <2>22, ReceiveType, MessageParts DEF FirePrepared, Live, TypeOK
      <3>3. fires' \in Seq(Fire) /\ nextNonce' \in Nat
        BY <3>1, <3>2 DEF Broadcast, TypeOK, Batch, Fire
      <3> QED BY <2>22, <3>3, ReceiveType DEF FirePrepared, TypeOK
    <2>23. CASE FireJustInTime
      <3>1. PICK b \in Batch : Broadcast(b)
        BY <2>23 DEF FireJustInTime, TypeOK, Batch, Sign
      <3>2. Head(queue).from \in Nat /\ Live \in Nat
        BY <2>23, ReceiveType, MessageParts DEF FireJustInTime, Live, TypeOK
      <3>3. fires' \in Seq(Fire) /\ nextNonce' \in Nat
        BY <3>1, <3>2 DEF Broadcast, TypeOK, Batch, Fire
      <3> QED BY <2>23, <3>3, ReceiveType DEF FireJustInTime, TypeOK
    <2>24. CASE FireFails
      BY <2>24, ReceiveType DEF FireFails, TypeOK
    <2>25. CASE EndFire
      BY <2>25 DEF EndFire, EndSession, TypeOK
    <2>26. CASE BeginCopymint
      <3>1. Head(queue).mint \in Mint
        BY <2>26, ReceiveType, MessageParts DEF BeginCopymint, MintKinds
      <3>2. [nonce |-> nextNonce, mint |-> Head(queue).mint] \in Batch
        BY <3>1 DEF TypeOK, Batch
      <3>3. copyFires' \in Seq(Batch) /\ nextNonce' \in Nat
        <4>1. CASE UNCHANGED <<copyFires, nextNonce>>
          BY <4>1 DEF TypeOK
        <4>2. CASE /\ copyFires' = Append(copyFires, [nonce |-> nextNonce,
                                                      mint |-> Head(queue).mint])
                   /\ nextNonce' = nextNonce + 1
          BY <3>2, <4>2 DEF TypeOK
        <4> QED BY <2>26, <4>1, <4>2 DEF BeginCopymint, Sign
      <3> QED BY <2>26, <3>3, ReceiveType DEF BeginCopymint, TypeOK
    <2>27. CASE EndCopymint
      BY <2>27 DEF EndCopymint, TypeOK
    <2>28. CASE FireDelegated
      BY <2>28, ReceiveType DEF FireDelegated, TypeOK
    <2> QED BY <2>1, <2>2, <2>3, <2>4, <2>5, <2>6, <2>7, <2>8, <2>9, <2>10, <2>11, <2>12, <2>13, <2>14, <2>15, <2>16, <2>17, <2>18, <2>19, <2>20, <2>21, <2>22, <2>23, <2>24, <2>25, <2>26, <2>27, <2>28 DEF Next, Loop, Tasks
  <1> QED BY <1>1, <1>2, PTL DEF Spec

------------------------------------------------------------------------------
(* The session and what is left of it.                                     *)

\* DisarmedIsClean with what makes it inductive: ARMED is shown only while a
\* session exists, and the loop is between the two halves of Arm only before
\* it is armed, respectively once it is.
SessionInv ==
    /\ DisarmedIsClean
    /\ armed => watcher # "none" /\ session > 0
    /\ pc = "arming" => ~armed
    /\ pc = "sendPrepare" => armed

\* SessionInv is an invariant of the loop.
LEMMA SessionInductive == Spec => []SessionInv
  <1>1. Init => SessionInv
    BY DEF Init, SessionInv, DisarmedIsClean
  <1>2. TypeOK /\ SessionInv /\ [Next]_vars => SessionInv'
    <2> SUFFICES ASSUME TypeOK, SessionInv, [Next]_vars
                 PROVE  SessionInv'
      OBVIOUS
    <2> USE DEF DisarmedIsClean, Receive
    <2> USE DEF loopVars, history, world
    <2>1. CASE UNCHANGED vars
      BY <2>1 DEF SessionInv, vars
    <2>2. CASE Request
      BY <2>2 DEF Request, SessionInv
    <2>3. CASE PutConfig
      BY <2>3 DEF PutConfig, SessionInv
    <2>4. CASE PriceMoves
      BY <2>4 DEF PriceMoves, SessionInv
    <2>5. CASE WatcherTrigger
      BY <2>5 DEF WatcherTrigger, SessionInv
    <2>6. CASE WatcherEnds
      BY <2>6 DEF WatcherEnds, SessionInv
    <2>7. CASE WatcherFails
      BY <2>7 DEF WatcherFails, SessionInv
    <2>8. CASE SuperviseDisarm
      BY <2>8 DEF SuperviseDisarm, SessionInv
    <2>9. ASSUME NEW s \in forwarding, ForwardFireNow(s)
          PROVE  SessionInv'
      BY <2>9 DEF ForwardFireNow, SessionInv
    <2>10. CASE PrepareTimer
      BY <2>10 DEF PrepareTimer, SessionInv
    <2>11. CASE ReprepareTick
      BY <2>11 DEF ReprepareTick, SessionInv
    <2>12. CASE ArmIgnored
      BY <2>12 DEF ArmIgnored, SessionInv
    <2>13. CASE ArmRefused
      BY <2>13 DEF ArmRefused, SessionInv
    <2>14. CASE BeginArm
      BY <2>14 DEF BeginArm, SessionInv
    <2>15. CASE CompleteArm
      BY <2>15 DEF CompleteArm, SessionInv, TypeOK
    <2>16. CASE SelfSendPrepare
      BY <2>16 DEF SelfSendPrepare, SessionInv
    <2>17. CASE PrepareSkipped
      BY <2>17 DEF PrepareSkipped, SessionInv
    <2>18. CASE Prepare
      BY <2>18 DEF Prepare, SessionInv
    <2>19. CASE PreparePanics
      BY <2>19 DEF PreparePanics, SessionInv
    <2>20. CASE Disarm
      BY <2>20 DEF Disarm, EndSession, SessionInv
    <2>21. CASE SetTarget
      BY <2>21 DEF SetTarget, EndSession, SessionInv
    <2>22. CASE FirePrepared
      BY <2>22 DEF FirePrepared, SessionInv
    <2>23. CASE FireJustInTime
      BY <2>23 DEF FireJustInTime, SessionInv
    <2>24. CASE FireFails
      BY <2>24 DEF FireFails, SessionInv
    <2>25. CASE EndFire
      BY <2>25 DEF EndFire, EndSession, SessionInv
    <2>26. CASE BeginCopymint
      BY <2>26 DEF BeginCopymint, SessionInv
    <2>27. CASE EndCopymint
      BY <2>27 DEF EndCopymint, SessionInv
    <2>28. CASE FireDelegated
      BY <2>28 DEF FireDelegated, SessionInv
    <2> QED BY <2>1, <2>2, <2>3, <2>4, <2>5, <2>6, <2>7, <2>8, <2>9, <2>10, <2>11, <2>12, <2>13, <2>14, <2>15, <2>16, <2>17, <2>18, <2>19, <2>20, <2>21, <2>22, <2>23, <2>24, <2>25, <2>26, <2>27, <2>28 DEF Next, Loop, Tasks
  <1> QED BY <1>1, <1>2, TypeCorrect, PTL DEF Spec

\* A disarmed loop keeps nothing of an earlier session.
THEOREM DisarmedCorrect == Spec => []DisarmedIsClean
  BY SessionInductive, PTL DEF SessionInv

------------------------------------------------------------------------------
(* What lies prepared.                                                     *)

\* No step leaves a batch that is not for the target of now.
LEMMA PreparedInductive == TypeOK /\ PreparedForTarget /\ [Next]_vars => PreparedForTarget'
  <1> SUFFICES ASSUME TypeOK, PreparedForTarget, [Next]_vars
               PROVE  PreparedForTarget'
    OBVIOUS
  <1> USE DEF loopVars, history, world
  <1>1. CASE UNCHANGED vars
    BY <1>1 DEF PreparedForTarget, vars
  <1>2. CASE Request
    BY <1>2 DEF Request, PreparedForTarget
  <1>3. CASE PutConfig
    BY <1>3 DEF PutConfig, PreparedForTarget
  <1>4. CASE PriceMoves
    BY <1>4 DEF PriceMoves, PreparedForTarget
  <1>5. CASE WatcherTrigger
    BY <1>5 DEF WatcherTrigger, PreparedForTarget
  <1>6. CASE WatcherEnds
    BY <1>6 DEF WatcherEnds, PreparedForTarget
  <1>7. CASE WatcherFails
    BY <1>7 DEF WatcherFails, PreparedForTarget
  <1>8. CASE SuperviseDisarm
    BY <1>8 DEF SuperviseDisarm, PreparedForTarget
  <1>9. ASSUME NEW s \in forwarding, ForwardFireNow(s)
        PROVE  PreparedForTarget'
    BY <1>9 DEF ForwardFireNow, PreparedForTarget
  <1>10. CASE PrepareTimer
    BY <1>10 DEF PrepareTimer, PreparedForTarget
  <1>11. CASE ReprepareTick
    BY <1>11 DEF ReprepareTick, PreparedForTarget
  <1>12. CASE ArmIgnored
    BY <1>12 DEF ArmIgnored, PreparedForTarget
  <1>13. CASE ArmRefused
    BY <1>13 DEF ArmRefused, PreparedForTarget
  <1>14. CASE BeginArm
    BY <1>14 DEF BeginArm, PreparedForTarget
  <1>15. CASE CompleteArm
    BY <1>15 DEF CompleteArm, PreparedForTarget
  <1>16. CASE SelfSendPrepare
    BY <1>16 DEF SelfSendPrepare, PreparedForTarget
  <1>17. CASE PrepareSkipped
    BY <1>17 DEF PrepareSkipped, PreparedForTarget
  <1>18. CASE Prepare
    <2>1. PICK v : mint' = [mint EXCEPT !.value = v]
      BY <1>18 DEF Prepare
    <2>2. mint'.nft = mint.nft /\ mint'.quantity = mint.quantity
      BY <2>1 DEF TypeOK, Mint
    <2>3. ASSUME NEW b \in prepared'
          PROVE  b.mint.nft = mint'.nft /\ b.mint.quantity = mint'.quantity
                 /\ b.nonce <= nextNonce
      <3>1. CASE b \in prepared
        BY <2>2, <3>1 DEF PreparedForTarget
      <3>2. CASE b = [nonce |-> nextNonce, mint |-> mint']
        BY <3>2 DEF TypeOK
      <3> QED BY <1>18, <3>1, <3>2 DEF Prepare, Sign
    <2> QED BY <1>18, <2>3 DEF Prepare, PreparedForTarget
  <1>19. CASE PreparePanics
    BY <1>19 DEF PreparePanics, PreparedForTarget
  <1>20. CASE Disarm
    BY <1>20 DEF Disarm, EndSession, PreparedForTarget
  <1>21. CASE SetTarget
    BY <1>21 DEF SetTarget, EndSession, PreparedForTarget
  <1>22. CASE FirePrepared
    BY <1>22 DEF FirePrepared, PreparedForTarget
  <1>23. CASE FireJustInTime
    BY <1>23 DEF FireJustInTime, PreparedForTarget
  <1>24. CASE FireFails
    BY <1>24 DEF FireFails, PreparedForTarget
  <1>25. CASE EndFire
    BY <1>25 DEF EndFire, EndSession, PreparedForTarget
  <1>26. CASE BeginCopymint
    <2>1. nextNonce' \in {nextNonce, nextNonce + 1}
      BY <1>26 DEF BeginCopymint
    <2>2. \A b \in prepared : b.nonce \in Nat
      BY DEF TypeOK, Batch
    <2> QED BY <1>26, <2>1, <2>2 DEF BeginCopymint, PreparedForTarget, TypeOK
  <1>27. CASE EndCopymint
    BY <1>27 DEF EndCopymint, PreparedForTarget
  <1>28. CASE FireDelegated
    BY <1>28 DEF FireDelegated, PreparedForTarget
  <1> QED BY <1>1, <1>2, <1>3, <1>4, <1>5, <1>6, <1>7, <1>8, <1>9, <1>10, <1>11, <1>12, <1>13, <1>14, <1>15, <1>16, <1>17, <1>18, <1>19, <1>20, <1>21, <1>22, <1>23, <1>24, <1>25, <1>26, <1>27, <1>28 DEF Next, Loop, Tasks

\* A target swap never leaves a batch signed for the old drop behind.
THEOREM PreparedCorrect == Spec => []PreparedForTarget
  <1>1. Init => PreparedForTarget
    BY DEF Init, PreparedForTarget
  <1> QED BY <1>1, PreparedInductive, TypeCorrect, PTL DEF Spec

------------------------------------------------------------------------------
(* Nonces.                                                                 *)

\* Every nonce broadcast by FireNow lies below next_nonce, and a batch signed
\* ahead holds a later one; it holds next_nonce itself until a copymint fires.
NonceInv ==
    /\ \A i \in DOMAIN fires : fires[i].nonce < nextNonce
    /\ \A b \in prepared : \A i \in DOMAIN fires : fires[i].nonce < b.nonce
    /\ copyFires = <<>> => \A b \in prepared : b.nonce = nextNonce
    /\ MainNoncesIncrease
    /\ ContiguousWithoutCopymint

\* The fields of a broadcast batch that the arithmetic below needs.
LEMMA FireTypes ==
    ASSUME TypeOK, NEW i \in DOMAIN fires
    PROVE  fires[i].nonce \in Nat /\ fires[i].during \in Nat
  <1>1. fires \in Seq(Fire)
    BY DEF TypeOK
  <1>2. fires[i] \in Fire
    BY <1>1
  <1> QED BY <1>2 DEF Fire

\* What Broadcast appends, and that it leaves the rest of the history alone.
LEMMA BroadcastAppends ==
    ASSUME TypeOK, NEW b \in Batch, Broadcast(b)
    PROVE  /\ Len(fires) \in Nat
           /\ DOMAIN fires = 1 .. Len(fires)
           /\ DOMAIN fires' = 1 .. Len(fires) + 1
           /\ \A i \in DOMAIN fires : fires'[i] = fires[i]
           /\ Len(fires') = Len(fires) + 1
           /\ fires'[Len(fires) + 1].nonce = b.nonce
           /\ fires'[Len(fires) + 1].mint = b.mint
           /\ fires'[Len(fires) + 1].from = Head(queue).from
           /\ fires'[Len(fires) + 1].during = Live
           /\ nextNonce' = nextNonce + 1
  <1>1. fires \in Seq(Fire)
    BY DEF TypeOK
  <1> DEFINE f == [nonce |-> b.nonce, mint |-> b.mint,
                   from |-> Head(queue).from, during |-> Live]
  <1>2. fires' = Append(fires, f) /\ nextNonce' = nextNonce + 1
    BY DEF Broadcast
  <1>3. /\ f.nonce = b.nonce /\ f.mint = b.mint
        /\ f.from = Head(queue).from /\ f.during = Live
    OBVIOUS
  <1> HIDE DEF f
  <1> QED BY <1>1, <1>2, <1>3

\* Broadcasting a batch whose nonce is later than all broadcast before.
LEMMA BroadcastNonces ==
    ASSUME TypeOK, NonceInv, NEW b \in Batch, Broadcast(b),
           prepared' = {}, copyFires' = copyFires,
           \A i \in DOMAIN fires : fires[i].nonce < b.nonce,
           b.nonce <= nextNonce,
           copyFires = <<>> => b.nonce = nextNonce
    PROVE  NonceInv'
  <1> DEFINE n == Len(fires)
  <1>1. /\ n \in Nat
        /\ DOMAIN fires = 1 .. n
        /\ DOMAIN fires' = 1 .. n + 1
        /\ \A i \in 1 .. n : fires'[i] = fires[i]
        /\ Len(fires') = n + 1
        /\ fires'[n + 1].nonce = b.nonce
        /\ nextNonce' = nextNonce + 1
    BY BroadcastAppends
  <1>2. nextNonce \in Nat /\ b.nonce \in Nat
    BY DEF TypeOK, Batch
  <1>3. \A i \in 1 .. n : fires[i].nonce \in Nat
    BY <1>1, FireTypes
  <1> HIDE DEF n
  <1>4. \A i \in DOMAIN fires' : fires'[i].nonce < nextNonce'
    BY <1>1, <1>2, <1>3 DEF NonceInv
  <1>5. MainNoncesIncrease'
    BY <1>1, <1>2, <1>3 DEF NonceInv, MainNoncesIncrease
  <1>6. ContiguousWithoutCopymint'
    <2> SUFFICES ASSUME copyFires = <<>>
                 PROVE  /\ nextNonce' = Len(fires')
                        /\ \A i \in DOMAIN fires' : fires'[i].nonce = i - 1
      BY DEF ContiguousWithoutCopymint
    <2>1. nextNonce = n /\ \A i \in 1 .. n : fires[i].nonce = i - 1
      BY <1>1 DEF NonceInv, ContiguousWithoutCopymint, n
    <2> QED BY <1>1, <1>2, <2>1
  <1> QED BY <1>4, <1>5, <1>6 DEF NonceInv

\* No step breaks NonceInv.
LEMMA NonceInductive ==
    TypeOK /\ PreparedForTarget /\ NonceInv /\ [Next]_vars => NonceInv'
  <1> SUFFICES ASSUME TypeOK, PreparedForTarget, NonceInv, [Next]_vars
               PROVE  NonceInv'
    OBVIOUS
  <1> USE DEF MainNoncesIncrease, ContiguousWithoutCopymint
  <1> USE DEF loopVars, history, world
  <1>1. CASE UNCHANGED vars
    BY <1>1 DEF NonceInv, vars
  <1>2. CASE Request
    BY <1>2 DEF Request, NonceInv
  <1>3. CASE PutConfig
    BY <1>3 DEF PutConfig, NonceInv
  <1>4. CASE PriceMoves
    BY <1>4 DEF PriceMoves, NonceInv
  <1>5. CASE WatcherTrigger
    BY <1>5 DEF WatcherTrigger, NonceInv
  <1>6. CASE WatcherEnds
    BY <1>6 DEF WatcherEnds, NonceInv
  <1>7. CASE WatcherFails
    BY <1>7 DEF WatcherFails, NonceInv
  <1>8. CASE SuperviseDisarm
    BY <1>8 DEF SuperviseDisarm, NonceInv
  <1>9. ASSUME NEW s \in forwarding, ForwardFireNow(s)
        PROVE  NonceInv'
    BY <1>9 DEF ForwardFireNow, NonceInv
  <1>10. CASE PrepareTimer
    BY <1>10 DEF PrepareTimer, NonceInv
  <1>11. CASE ReprepareTick
    BY <1>11 DEF ReprepareTick, NonceInv
  <1>12. CASE ArmIgnored
    BY <1>12 DEF ArmIgnored, NonceInv
  <1>13. CASE ArmRefused
    BY <1>13 DEF ArmRefused, NonceInv
  <1>14. CASE BeginArm
    BY <1>14 DEF BeginArm, NonceInv
  <1>15. CASE CompleteArm
    BY <1>15 DEF CompleteArm, NonceInv
  <1>16. CASE SelfSendPrepare
    BY <1>16 DEF SelfSendPrepare, NonceInv
  <1>17. CASE PrepareSkipped
    BY <1>17 DEF PrepareSkipped, NonceInv
  <1>18. CASE Prepare
    <2>1. ASSUME NEW b \in prepared', b \notin prepared
          PROVE  b.nonce = nextNonce
      BY <1>18, <2>1 DEF Prepare, Sign
    <2> QED BY <1>18, <2>1 DEF Prepare, NonceInv
  <1>19. CASE PreparePanics
    BY <1>19 DEF PreparePanics, NonceInv
  <1>20. CASE Disarm
    BY <1>20 DEF Disarm, EndSession, NonceInv
  <1>21. CASE SetTarget
    BY <1>21 DEF SetTarget, EndSession, NonceInv
  <1>22. CASE FirePrepared
    <2>1. PICK b \in prepared : Broadcast(b)
      BY <1>22 DEF FirePrepared
    <2>2. b \in Batch /\ b.nonce <= nextNonce
      BY <2>1 DEF TypeOK, PreparedForTarget
    <2>3. /\ \A i \in DOMAIN fires : fires[i].nonce < b.nonce
          /\ copyFires = <<>> => b.nonce = nextNonce
      BY <2>1 DEF NonceInv
    <2>4. prepared' = {} /\ copyFires' = copyFires
      BY <1>22 DEF FirePrepared
    <2> QED BY <2>1, <2>2, <2>3, <2>4, BroadcastNonces
  <1>23. CASE FireJustInTime
    <2> DEFINE b == [nonce |-> nextNonce, mint |-> mint]
    <2>1. b \in Batch /\ b.nonce = nextNonce /\ nextNonce <= nextNonce
      BY DEF TypeOK, Batch
    <2>2. Broadcast(b) /\ prepared' = {} /\ copyFires' = copyFires
      BY <1>23 DEF FireJustInTime, Sign
    <2>3. \A i \in DOMAIN fires : fires[i].nonce < b.nonce
      BY DEF NonceInv
    <2> HIDE DEF b
    <2> QED BY <2>1, <2>2, <2>3, BroadcastNonces
  <1>24. CASE FireFails
    BY <1>24 DEF FireFails, NonceInv
  <1>25. CASE EndFire
    BY <1>25 DEF EndFire, EndSession, NonceInv
  <1>26. CASE BeginCopymint
    <2>1. CASE UNCHANGED <<copyFires, nextNonce>>
      BY <1>26, <2>1 DEF BeginCopymint, NonceInv
    <2>2. CASE ~UNCHANGED <<copyFires, nextNonce>>
      <3>1. copyFires' = Append(copyFires, [nonce |-> nextNonce, mint |-> Head(queue).mint])
            /\ nextNonce' = nextNonce + 1
        BY <1>26, <2>2 DEF BeginCopymint, Sign
      <3>2. copyFires \in Seq(Batch)
        BY DEF TypeOK
      <3>3. copyFires' # <<>>
        BY <3>1, <3>2
      <3>4. \A i \in DOMAIN fires : fires[i].nonce < nextNonce'
        <4>1. \A i \in DOMAIN fires : fires[i].nonce \in Nat /\ nextNonce \in Nat
          BY FireTypes DEF TypeOK
        <4> QED BY <3>1, <4>1 DEF NonceInv
      <3>5. UNCHANGED <<fires, prepared>>
        BY <1>26 DEF BeginCopymint
      <3> QED BY <3>3, <3>4, <3>5 DEF NonceInv
    <2> QED BY <2>1, <2>2
  <1>27. CASE EndCopymint
    BY <1>27 DEF EndCopymint, NonceInv
  <1>28. CASE FireDelegated
    BY <1>28 DEF FireDelegated, NonceInv
  <1> QED
    BY <1>1, <1>2, <1>3, <1>4, <1>5, <1>6, <1>7, <1>8, <1>9, <1>10, <1>11, <1>12, <1>13, <1>14, <1>15, <1>16, <1>17, <1>18, <1>19, <1>20, <1>21, <1>22, <1>23, <1>24, <1>25, <1>26, <1>27, <1>28
    DEF Next, Loop, Tasks

\* NonceInv is an invariant of the loop.
LEMMA NonceInvariant == Spec => []NonceInv
  <1>1. Init => NonceInv
    BY DEF Init, NonceInv, MainNoncesIncrease, ContiguousWithoutCopymint
  <1> QED BY <1>1, NonceInductive, PreparedCorrect, TypeCorrect, PTL DEF Spec

\* No FireNow broadcasts the nonce of an earlier FireNow again.
THEOREM NoncesIncrease == Spec => []MainNoncesIncrease
  BY NonceInvariant, PTL DEF NonceInv

\* Without copymint fires no nonce is skipped.
THEOREM NoncesContiguous == Spec => []ContiguousWithoutCopymint
  BY NonceInvariant, PTL DEF NonceInv

------------------------------------------------------------------------------
(* Nonces that two paths broadcast, and nonces that none does.             *)

\* Between a signature and its broadcast only a copymint can use the nonce.
CollisionInv ==
    /\ \A i \in DOMAIN copyFires : copyFires[i].nonce < nextNonce
    /\ \A b \in prepared : b.nonce # nextNonce => b.nonce \in Nonces(copyFires)
    /\ CollisionsSkip

\* A nonce collides by the fire of a batch that was signed before a copymint.
StaleFire == \E b \in prepared : b.nonce # nextNonce /\ Broadcast(b)

\* The nonces of a history with one more batch.
LEMMA NoncesGrow ==
    ASSUME NEW S, NEW s \in Seq(S), NEW e \in S
    PROVE  Nonces(Append(s, e)) = Nonces(s) \union {e.nonce}
  <1>1. /\ DOMAIN s = 1 .. Len(s) /\ Len(s) \in Nat
        /\ DOMAIN Append(s, e) = 1 .. Len(s) + 1
        /\ \A i \in 1 .. Len(s) : Append(s, e)[i] = s[i]
        /\ Append(s, e)[Len(s) + 1] = e
    OBVIOUS
  <1>2. 1 .. Len(s) + 1 = 1 .. Len(s) \union {Len(s) + 1}
    BY <1>1
  <1> QED BY <1>1, <1>2 DEF Nonces

\* What any step does to the nonces.
LEMMA NonceSteps ==
    ASSUME TypeOK, PreparedForTarget, [Next]_vars
    PROVE  \/ /\ UNCHANGED <<fires, copyFires, nextNonce>>
              /\ \A b \in prepared' : b \in prepared \/ b.nonce = nextNonce
           \/ /\ UNCHANGED copyFires /\ prepared' = {}
              /\ \E b \in Batch : /\ Broadcast(b)
                                  /\ b \in prepared \/ b.nonce = nextNonce
           \/ /\ UNCHANGED <<fires, prepared>> /\ nextNonce' = nextNonce + 1
              /\ \E b \in Batch : copyFires' = Append(copyFires, b) /\ b.nonce = nextNonce
  <1> USE DEF loopVars, history, world
  <1>1. CASE UNCHANGED vars
    BY <1>1 DEF vars
  <1>2. CASE Request \/ PutConfig \/ PriceMoves
    BY <1>2 DEF Request, PutConfig, PriceMoves
  <1>3. CASE Tasks
    BY <1>3 DEF Tasks, WatcherTrigger, WatcherEnds, WatcherFails, SuperviseDisarm,
                ForwardFireNow, PrepareTimer, ReprepareTick
  <1>4. CASE ArmIgnored \/ ArmRefused \/ BeginArm \/ PrepareSkipped \/ PreparePanics
    BY <1>4 DEF ArmIgnored, ArmRefused, BeginArm, PrepareSkipped, PreparePanics
  <1>5. CASE CompleteArm \/ SelfSendPrepare
    BY <1>5 DEF CompleteArm, SelfSendPrepare
  <1>6. CASE Prepare
    BY <1>6 DEF Prepare, Sign
  <1>7. CASE Disarm \/ SetTarget \/ EndFire
    BY <1>7 DEF Disarm, SetTarget, EndFire, EndSession
  <1>8. CASE FirePrepared
    <2>1. PICK b \in prepared : Broadcast(b)
      BY <1>8 DEF FirePrepared
    <2>2. b \in Batch
      BY DEF TypeOK
    <2> QED BY <1>8, <2>1, <2>2 DEF FirePrepared
  <1>9. CASE FireJustInTime
    <2>1. Sign(mint) \in Batch /\ Sign(mint).nonce = nextNonce
      BY DEF TypeOK, Batch, Sign
    <2> QED BY <1>9, <2>1 DEF FireJustInTime
  <1>10. CASE BeginCopymint
    <2>1. CASE UNCHANGED <<copyFires, nextNonce>>
      BY <1>10, <2>1 DEF BeginCopymint
    <2>2. CASE ~UNCHANGED <<copyFires, nextNonce>>
      <3> DEFINE b == Sign(Head(queue).mint)
      <3>1. Head(queue) \in Message /\ Head(queue).type \in MintKinds
        BY <1>10, ReceiveType DEF BeginCopymint, MintKinds
      <3>2. b \in Batch /\ b.nonce = nextNonce
        BY <3>1, MessageParts DEF Sign, Batch, TypeOK
      <3> QED BY <1>10, <2>2, <3>2 DEF BeginCopymint
    <2> QED BY <2>1, <2>2
  <1>11. CASE FireFails \/ EndCopymint \/ FireDelegated
    BY <1>11 DEF FireFails, EndCopymint, FireDelegated
  <1> QED BY <1>1, <1>2, <1>3, <1>4, <1>5, <1>6, <1>7, <1>8, <1>9, <1>10, <1>11
          DEF Next, Loop

\* No step breaks CollisionInv, and one kind of step makes a collision.
LEMMA CollisionInductive ==
    TypeOK /\ PreparedForTarget /\ NonceInv /\ CollisionInv /\ [Next]_vars
        => CollisionInv' /\ (Collided' = Collided \/ StaleFire)
  <1> DEFINE Goal == CollisionInv' /\ (Collided' = Collided \/ StaleFire)
  <1> SUFFICES ASSUME TypeOK, PreparedForTarget, NonceInv, CollisionInv, [Next]_vars
               PROVE  Goal
    OBVIOUS
  <1>1. /\ nextNonce \in Nat /\ fires \in Seq(Fire) /\ copyFires \in Seq(Batch)
        /\ prepared \subseteq Batch
    BY DEF TypeOK
  <1>2. \A n \in Nonces(fires) : n \in Nat /\ n < nextNonce
    BY FireTypes DEF Nonces, NonceInv
  <1>3. \A n \in Nonces(copyFires) : n \in Nat /\ n < nextNonce
    <2>1. \A i \in DOMAIN copyFires : copyFires[i] \in Batch
      BY <1>1
    <2> QED BY <2>1 DEF Nonces, CollisionInv, Batch
  <1>4. IsFiniteSet(Skipped) /\ IsFiniteSet(Collided)
    <2>1. IsFiniteSet(0 .. nextNonce - 1)
      BY <1>1, FS_Interval
    <2>2. Skipped \subseteq 0 .. nextNonce - 1 /\ Collided \subseteq 0 .. nextNonce - 1
      BY <1>1, <1>2 DEF Skipped, Collided
    <2> QED BY <2>1, <2>2, FS_Subset
  <1>5. Cardinality(Skipped) = Cardinality(Collided)
    BY DEF CollisionInv, CollisionsSkip
  <1>6. CASE /\ UNCHANGED <<fires, copyFires, nextNonce>>
             /\ \A b \in prepared' : b \in prepared \/ b.nonce = nextNonce
    <2>1. Skipped' = Skipped /\ Collided' = Collided
      BY <1>6 DEF Skipped, Collided, Nonces
    <2>2. Nonces(copyFires)' = Nonces(copyFires)
      BY <1>6 DEF Nonces
    <2> QED BY <1>5, <1>6, <2>1, <2>2 DEF CollisionInv, CollisionsSkip
  <1>7. ASSUME NEW b \in Batch, Broadcast(b), b \in prepared \/ b.nonce = nextNonce,
               UNCHANGED copyFires, prepared' = {}
        PROVE  Goal
    <2>1. nextNonce' = nextNonce + 1 /\ Nonces(fires)' = Nonces(fires) \union {b.nonce}
      <3> DEFINE f == [nonce |-> b.nonce, mint |-> b.mint,
                       from |-> Head(queue).from, during |-> Live]
      <3>1. fires' = Append(fires, f) /\ nextNonce' = nextNonce + 1
        BY <1>7 DEF Broadcast
      <3>2. fires \in Seq(Fire \union {f}) /\ f.nonce = b.nonce
        BY <1>1
      <3> HIDE DEF f
      <3>3. Nonces(Append(fires, f)) = Nonces(fires) \union {f.nonce}
        BY <3>2, NoncesGrow
      <3> QED BY <3>1, <3>2, <3>3 DEF Nonces
    <2>2. Nonces(copyFires)' = Nonces(copyFires)
      BY <1>7 DEF Nonces
    <2>3. b.nonce \in Nat /\ b.nonce <= nextNonce /\ b.nonce \notin Nonces(fires)
      <3>1. b.nonce \in Nat
        BY DEF Batch
      <3>2. CASE b.nonce = nextNonce
        BY <1>1, <1>2, <3>2
      <3>3. CASE b \in prepared
        BY <3>1, <3>3, FireTypes DEF PreparedForTarget, NonceInv, Nonces
      <3> QED BY <1>7, <3>1, <3>2, <3>3
    <2>4. \A i \in DOMAIN copyFires' : copyFires'[i].nonce < nextNonce'
      <3>1. \A i \in DOMAIN copyFires : copyFires[i] \in Batch
        BY <1>1
      <3>2. \A i \in DOMAIN copyFires : copyFires[i].nonce \in Nat
        BY <3>1 DEF Batch
      <3> QED BY <1>1, <1>7, <2>1, <3>2 DEF CollisionInv
    <2>5. CollisionsSkip' /\ (Collided' = Collided \/ StaleFire)
      <3>1. CASE b.nonce = nextNonce
        <4>1. Skipped' = Skipped
          BY <1>1, <2>1, <2>2, <3>1 DEF Skipped
        <4>2. Collided' = Collided
          BY <1>1, <1>3, <2>1, <2>2, <3>1 DEF Collided
        <4> QED BY <1>5, <4>1, <4>2 DEF CollisionsSkip
      <3>2. CASE b.nonce # nextNonce
        <4>1. b.nonce \in Nonces(copyFires)
          BY <1>7, <3>2 DEF CollisionInv
        <4>2. Skipped' = Skipped \union {nextNonce}
          BY <1>1, <1>2, <1>3, <2>1, <2>2, <2>3, <3>2, <4>1 DEF Skipped
        <4>3. Collided' = Collided \union {b.nonce}
          BY <2>1, <2>2, <4>1 DEF Collided
        <4>4. nextNonce \notin Skipped /\ b.nonce \notin Collided
          BY <1>1, <2>3 DEF Skipped, Collided
        <4>5. /\ Cardinality(Skipped') = Cardinality(Skipped) + 1
              /\ Cardinality(Collided') = Cardinality(Collided) + 1
          BY <1>4, <4>2, <4>3, <4>4, FS_AddElement
        <4>6. StaleFire
          BY <1>7, <3>2 DEF StaleFire
        <4> QED BY <1>5, <4>5, <4>6 DEF CollisionsSkip
      <3> QED BY <3>1, <3>2
    <2> QED BY <1>7, <2>4, <2>5 DEF CollisionInv
  <1>8. ASSUME NEW b \in Batch, copyFires' = Append(copyFires, b), b.nonce = nextNonce,
               UNCHANGED <<fires, prepared>>, nextNonce' = nextNonce + 1
        PROVE  Goal
    <2>1. Nonces(copyFires)' = Nonces(copyFires) \union {nextNonce}
      <3>1. Nonces(Append(copyFires, b)) = Nonces(copyFires) \union {b.nonce}
        BY <1>1, NoncesGrow
      <3> QED BY <1>8, <3>1 DEF Nonces
    <2>2. Nonces(fires)' = Nonces(fires)
      BY <1>8 DEF Nonces
    <2>3. \A i \in DOMAIN copyFires' : copyFires'[i].nonce < nextNonce'
      <3>1. \A i \in DOMAIN copyFires' : copyFires'[i].nonce \in Nonces(copyFires) \union {nextNonce}
        BY <2>1 DEF Nonces
      <3> QED BY <1>1, <1>3, <1>8, <3>1
    <2>4. \A c \in prepared : c.nonce # nextNonce' => c.nonce \in Nonces(copyFires)'
      BY <2>1 DEF CollisionInv
    <2>5. Skipped' = Skipped
      BY <1>1, <1>8, <2>1, <2>2 DEF Skipped
    <2>6. Collided' = Collided
      BY <1>1, <1>2, <2>1, <2>2 DEF Collided
    <2> QED BY <1>5, <1>8, <2>3, <2>4, <2>5, <2>6 DEF CollisionInv, CollisionsSkip
  <1> QED BY <1>6, <1>7, <1>8, NonceSteps

LEMMA CollisionInit == Init => CollisionInv
  <1> SUFFICES ASSUME Init PROVE CollisionInv
    OBVIOUS
  <1>1. Skipped = {} /\ Collided = {}
    BY DEF Init, Skipped, Collided, Nonces
  <1>2. CollisionsSkip
    BY <1>1 DEF CollisionsSkip
  <1> QED BY <1>2 DEF Init, CollisionInv

\* As many nonces stay unused as are broadcast by both paths.
THEOREM CollisionsSkipCorrect == Spec => []CollisionsSkip
  <1>1. CollisionInv => CollisionsSkip
    BY DEF CollisionInv
  <1> QED BY <1>1, CollisionInit, CollisionInductive, NonceInvariant, PreparedCorrect, TypeCorrect,
             PTL DEF Spec

\* The only step that makes a collision is the fire of a prepared batch that a
\* copymint came before: a copymint beside an unprepared session, or between
\* sessions, collides with nothing (main.rs:1145-1186).
THEOREM OnlyStaleFiresCollide ==
    Spec => [][Collided' = Collided \/ StaleFire]_vars
  BY CollisionInit, CollisionInductive, NonceInvariant, PreparedCorrect, TypeCorrect,
     PTL DEF Spec

------------------------------------------------------------------------------
(* One broadcast per arm session.                                          *)

\* No broadcast belongs to a session still to come, and none belongs to the
\* live one unless its fire sequence is the one that is running.
OnceInv ==
    /\ \A i \in DOMAIN fires : fires[i].during <= session
    /\ armed /\ pc # "firing" => \A i \in DOMAIN fires : fires[i].during # session
    /\ OneFirePerSession

\* A broadcast of the live session is the first of that session.
LEMMA BroadcastOnce ==
    ASSUME TypeOK, SessionInv, OnceInv, NEW b \in Batch, Broadcast(b),
           pc = "recv", pc' = "firing", session' = session
    PROVE  OnceInv'
  <1> DEFINE n == Len(fires)
  <1>1. /\ n \in Nat
        /\ DOMAIN fires = 1 .. n
        /\ DOMAIN fires' = 1 .. n + 1
        /\ \A i \in 1 .. n : fires'[i] = fires[i]
        /\ fires'[n + 1].during = Live
    BY BroadcastAppends
  <1>2. session \in Nat /\ Live \in {0, session}
    BY DEF TypeOK, Live
  <1>3. \A i \in 1 .. n : fires[i].during <= session
    BY <1>1 DEF OnceInv
  <1>4. Live # 0 => \A i \in 1 .. n : fires[i].during # Live
    BY <1>1 DEF OnceInv, Live
  <1> HIDE DEF n
  <1>5. \A i \in DOMAIN fires' : fires'[i].during <= session'
    BY <1>1, <1>2, <1>3
  <1>6. OneFirePerSession'
    BY <1>1, <1>4 DEF OnceInv, OneFirePerSession
  <1> QED BY <1>5, <1>6 DEF OnceInv

\* No step breaks OnceInv.
LEMMA OnceInductive ==
    TypeOK /\ SessionInv /\ OnceInv /\ [Next]_vars => OnceInv'
  <1> SUFFICES ASSUME TypeOK, SessionInv, OnceInv, [Next]_vars
               PROVE  OnceInv'
    OBVIOUS
  <1> USE DEF OneFirePerSession, Receive
  <1> USE DEF loopVars, history, world
  <1>1. CASE UNCHANGED vars
    BY <1>1 DEF OnceInv, vars
  <1>2. CASE Request
    BY <1>2 DEF Request, OnceInv
  <1>3. CASE PutConfig
    BY <1>3 DEF PutConfig, OnceInv
  <1>4. CASE PriceMoves
    BY <1>4 DEF PriceMoves, OnceInv
  <1>5. CASE WatcherTrigger
    BY <1>5 DEF WatcherTrigger, OnceInv
  <1>6. CASE WatcherEnds
    BY <1>6 DEF WatcherEnds, OnceInv
  <1>7. CASE WatcherFails
    BY <1>7 DEF WatcherFails, OnceInv
  <1>8. CASE SuperviseDisarm
    BY <1>8 DEF SuperviseDisarm, OnceInv
  <1>9. ASSUME NEW s \in forwarding, ForwardFireNow(s)
        PROVE  OnceInv'
    BY <1>9 DEF ForwardFireNow, OnceInv
  <1>10. CASE PrepareTimer
    BY <1>10 DEF PrepareTimer, OnceInv
  <1>11. CASE ReprepareTick
    BY <1>11 DEF ReprepareTick, OnceInv
  <1>12. CASE ArmIgnored
    BY <1>12 DEF ArmIgnored, OnceInv
  <1>13. CASE ArmRefused
    BY <1>13 DEF ArmRefused, OnceInv
  <1>14. CASE BeginArm
    BY <1>14 DEF BeginArm, OnceInv
  <1>15. CASE CompleteArm
    <2>1. session' = session + 1 /\ fires' = fires
      BY <1>15 DEF CompleteArm
    <2>2. \A i \in DOMAIN fires : fires[i].during < session'
      BY <2>1, FireTypes DEF OnceInv, TypeOK
    <2>3. \A i \in DOMAIN fires' : fires'[i].during <= session' /\ fires'[i].during # session'
      BY <2>1, <2>2, FireTypes DEF TypeOK
    <2> QED BY <2>1, <2>3 DEF OnceInv
  <1>16. CASE SelfSendPrepare
    BY <1>16 DEF SelfSendPrepare, OnceInv
  <1>17. CASE PrepareSkipped
    BY <1>17 DEF PrepareSkipped, OnceInv
  <1>18. CASE Prepare
    BY <1>18 DEF Prepare, OnceInv
  <1>19. CASE PreparePanics
    BY <1>19 DEF PreparePanics, OnceInv
  <1>20. CASE Disarm
    BY <1>20 DEF Disarm, EndSession, OnceInv
  <1>21. CASE SetTarget
    BY <1>21 DEF SetTarget, EndSession, OnceInv
  <1>22. CASE FirePrepared
    BY <1>22, BroadcastOnce DEF FirePrepared, TypeOK
  <1>23. CASE FireJustInTime
    <2>1. [nonce |-> nextNonce, mint |-> mint] \in Batch
      BY DEF TypeOK, Batch
    <2> QED BY <1>23, <2>1, BroadcastOnce DEF FireJustInTime, Sign
  <1>24. CASE FireFails
    BY <1>24 DEF FireFails, OnceInv
  <1>25. CASE EndFire
    BY <1>25 DEF EndFire, EndSession, OnceInv
  <1>26. CASE BeginCopymint
    BY <1>26 DEF BeginCopymint, OnceInv
  <1>27. CASE EndCopymint
    BY <1>27 DEF EndCopymint, OnceInv
  <1>28. CASE FireDelegated
    BY <1>28 DEF FireDelegated, OnceInv
  <1> QED
    BY <1>1, <1>2, <1>3, <1>4, <1>5, <1>6, <1>7, <1>8, <1>9, <1>10, <1>11, <1>12, <1>13, <1>14, <1>15, <1>16, <1>17, <1>18, <1>19, <1>20, <1>21, <1>22, <1>23, <1>24, <1>25, <1>26, <1>27, <1>28
    DEF Next, Loop, Tasks

\* An arm session broadcasts at most one batch.
THEOREM OneFire == Spec => []OneFirePerSession
  <1>1. Init => OnceInv
    BY DEF Init, OnceInv, OneFirePerSession
  <1>2. OnceInv => OneFirePerSession
    BY DEF OnceInv
  <1> QED BY <1>1, <1>2, OnceInductive, SessionInductive, TypeCorrect, PTL DEF Spec

------------------------------------------------------------------------------
(* One broadcast per trigger.                                              *)

\* Whose FireNow waits in the channel, and whose was broadcast.
Asked == {queue[i].from : i \in {k \in DOMAIN queue : queue[k].type = "FireNow"}}
Fired == {fires[i].from : i \in DOMAIN fires}

\* No trigger has two FireNows waiting.
AskedOnce ==
    \A i, j \in DOMAIN queue :
        /\ queue[i].type = "FireNow" /\ queue[j].type = "FireNow"
        /\ queue[i].from # 0 /\ queue[i].from = queue[j].from
        => i = j

\* The trigger of a session is in one place at a time: in the watcher, in the
\* forwarder, in the channel, or broadcast.
TriggerInv ==
    /\ forwarding \subseteq 1 .. session
    /\ Asked \union Fired \subseteq 0 .. session
    /\ watcher = "running" => session \notin forwarding \union Asked \union Fired
    /\ forwarding \intersect (Asked \union Fired) = {}
    /\ Asked \intersect Fired \subseteq {0}
    /\ AskedOnce
    /\ OneFirePerTrigger

\* What one more message adds.
LEMMA AskedGrows ==
    ASSUME TypeOK, NEW m \in Message, queue' = Append(queue, m)
    PROVE  /\ m.type # "FireNow" => Asked' = Asked
           /\ m.type = "FireNow" => Asked' = Asked \union {m.from}
           /\ m.type # "FireNow" \/ m.from = 0 \/ m.from \notin Asked
                => (AskedOnce => AskedOnce')
  <1>1. /\ DOMAIN queue = 1 .. Len(queue) /\ Len(queue) \in Nat
        /\ DOMAIN queue' = 1 .. Len(queue) + 1
        /\ \A i \in 1 .. Len(queue) : queue'[i] = queue[i]
        /\ queue'[Len(queue) + 1] = m
    BY DEF TypeOK
  <1>2. DOMAIN queue' = DOMAIN queue \union {Len(queue) + 1}
    BY <1>1
  <1>3. m.type # "FireNow" => Asked' = Asked
    BY <1>1, <1>2 DEF Asked
  <1>4. m.type = "FireNow" => Asked' = Asked \union {m.from}
    BY <1>1, <1>2 DEF Asked
  <1>5. ASSUME m.type # "FireNow" \/ m.from = 0 \/ m.from \notin Asked, AskedOnce
        PROVE  AskedOnce'
    BY <1>1, <1>2, <1>5 DEF Asked, AskedOnce
  <1> QED BY <1>3, <1>4, <1>5

\* What taking a message leaves: the trigger it came from waits no more.
LEMMA AskedShrinks ==
    ASSUME TypeOK, AskedOnce, queue # <<>>, queue' = Tail(queue)
    PROVE  /\ Asked' \subseteq Asked
           /\ AskedOnce'
           /\ Head(queue).type = "FireNow" =>
                /\ Head(queue).from \in Asked
                /\ Head(queue).from # 0 => Head(queue).from \notin Asked'
  <1>1. /\ DOMAIN queue = 1 .. Len(queue) /\ Len(queue) \in Nat \ {0}
        /\ DOMAIN queue' = 1 .. Len(queue) - 1
        /\ \A i \in 1 .. Len(queue) - 1 : queue'[i] = queue[i + 1]
        /\ Head(queue) = queue[1]
    BY DEF TypeOK
  <1>2. \A i \in DOMAIN queue' : i + 1 \in DOMAIN queue /\ i + 1 # 1 /\ queue'[i] = queue[i + 1]
    BY <1>1
  <1>3. Asked' \subseteq Asked
    BY <1>2 DEF Asked
  <1>4. AskedOnce'
    BY <1>1, <1>2 DEF AskedOnce
  <1>5. ASSUME Head(queue).type = "FireNow"
        PROVE  /\ Head(queue).from \in Asked
               /\ Head(queue).from # 0 => Head(queue).from \notin Asked'
    BY <1>1, <1>2, <1>5 DEF Asked, AskedOnce
  <1> QED BY <1>3, <1>4, <1>5

\* What a broadcast adds.
LEMMA FiredGrows ==
    ASSUME TypeOK, NEW b \in Batch, Broadcast(b), OneFirePerTrigger,
           Head(queue).from = 0 \/ Head(queue).from \notin Fired
    PROVE  /\ Fired' = Fired \union {Head(queue).from}
           /\ OneFirePerTrigger'
  <1>1. /\ DOMAIN fires = 1 .. Len(fires) /\ Len(fires) \in Nat
        /\ DOMAIN fires' = 1 .. Len(fires) + 1
        /\ \A i \in DOMAIN fires : fires'[i] = fires[i]
        /\ fires'[Len(fires) + 1].from = Head(queue).from
    BY BroadcastAppends
  <1>2. DOMAIN fires' = DOMAIN fires \union {Len(fires) + 1}
    BY <1>1
  <1> QED BY <1>1, <1>2 DEF Fired, OneFirePerTrigger

\* What any step does to the triggers under way.
LEMMA TriggerSteps ==
    ASSUME TypeOK, [Next]_vars
    PROVE  \/ /\ UNCHANGED <<queue, forwarding, fires, session>>
              /\ watcher' = "running" => watcher = "running"
           \/ /\ queue # <<>> /\ queue' = Tail(queue)
              /\ UNCHANGED <<forwarding, fires, session>>
              /\ watcher' = "running" => watcher = "running"
           \/ /\ queue # <<>> /\ queue' = Tail(queue) /\ Head(queue).type = "FireNow"
              /\ \E b \in Batch : Broadcast(b)
              /\ UNCHANGED <<forwarding, session, watcher>>
           \/ /\ \E m \in Message : /\ m.type # "FireNow" \/ m.from = 0
                                    /\ queue' = Append(queue, m)
              /\ UNCHANGED <<forwarding, fires, session>>
              /\ watcher' = "running" => watcher = "running"
           \/ /\ \E s \in forwarding : /\ queue' = Append(queue, Plain("FireNow", s))
                                       /\ forwarding' = forwarding \ {s}
              /\ UNCHANGED <<fires, session, watcher>>
           \/ /\ watcher = "running" /\ watcher' = "triggered"
              /\ forwarding' = forwarding \union {session}
              /\ UNCHANGED <<queue, fires, session>>
           \/ /\ session' = session + 1
              /\ UNCHANGED <<queue, forwarding, fires>>
  <1> USE DEF loopVars, history, world, Receive, Send
  <1>0. \A type \in {"Prepare", "Disarm"} : Plain(type, session) \in Message
    BY DEF TypeOK, Plain, Message, PlainMsg
  <1>1. CASE UNCHANGED vars
    BY <1>1 DEF vars
  <1>2. CASE Request
    <2>1. PICK m \in Commands : Send(m)
      BY <1>2 DEF Request
    <2>2. m \in Message /\ m.from = 0
      BY CommandsType DEF Commands, Plain
    <2> QED BY <1>2, <2>1, <2>2 DEF Request
  <1>3. CASE PutConfig \/ PriceMoves
    BY <1>3 DEF PutConfig, PriceMoves
  <1>4. CASE WatcherTrigger
    BY <1>4 DEF WatcherTrigger
  <1>5. CASE WatcherEnds \/ WatcherFails
    BY <1>5 DEF WatcherEnds, WatcherFails
  <1>6. CASE SuperviseDisarm
    BY <1>0, <1>6 DEF SuperviseDisarm, Plain
  <1>7. ASSUME NEW s \in forwarding, ForwardFireNow(s)
        PROVE  /\ queue' = Append(queue, Plain("FireNow", s))
               /\ forwarding' = forwarding \ {s}
               /\ UNCHANGED <<fires, session, watcher>>
    BY <1>7 DEF ForwardFireNow
  <1>8. CASE PrepareTimer \/ ReprepareTick
    BY <1>0, <1>8 DEF PrepareTimer, ReprepareTick, Plain
  <1>9. CASE ArmIgnored \/ ArmRefused \/ BeginArm \/ PrepareSkipped \/ PreparePanics
    BY <1>9 DEF ArmIgnored, ArmRefused, BeginArm, PrepareSkipped, PreparePanics
  <1>10. CASE CompleteArm
    BY <1>10 DEF CompleteArm
  <1>11. CASE SelfSendPrepare
    BY <1>0, <1>11 DEF SelfSendPrepare, Plain
  <1>12. CASE Prepare
    BY <1>12 DEF Prepare
  <1>13. CASE Disarm \/ SetTarget
    BY <1>13 DEF Disarm, SetTarget, EndSession
  <1>14. CASE FirePrepared
    <2>1. \E b \in Batch : Broadcast(b)
      BY <1>14 DEF FirePrepared, TypeOK
    <2> QED BY <1>14, <2>1 DEF FirePrepared
  <1>15. CASE FireJustInTime
    <2>1. Sign(mint) \in Batch
      BY DEF TypeOK, Batch, Sign
    <2> QED BY <1>15, <2>1 DEF FireJustInTime
  <1>16. CASE FireFails \/ BeginCopymint \/ FireDelegated
    BY <1>16 DEF FireFails, BeginCopymint, FireDelegated
  <1>17. CASE EndFire \/ EndCopymint
    BY <1>17 DEF EndFire, EndSession, EndCopymint
  <1> QED BY <1>1, <1>2, <1>3, <1>4, <1>5, <1>6, <1>7, <1>8, <1>9, <1>10, <1>11, <1>12,
             <1>13, <1>14, <1>15, <1>16, <1>17
          DEF Next, Loop, Tasks

\* No step breaks TriggerInv.
LEMMA TriggerInductive ==
    TypeOK /\ SessionInv /\ TriggerInv /\ [Next]_vars => TriggerInv'
  <1> SUFFICES ASSUME TypeOK, SessionInv, TriggerInv, [Next]_vars
               PROVE  TriggerInv'
    OBVIOUS
  <1>1. session \in Nat /\ (watcher = "running" => session > 0)
    BY DEF TypeOK, SessionInv, DisarmedIsClean
  <1>2. CASE /\ UNCHANGED <<queue, forwarding, fires, session>>
             /\ watcher' = "running" => watcher = "running"
    BY <1>2 DEF TriggerInv, AskedOnce, OneFirePerTrigger, Asked, Fired
  <1>3. CASE /\ queue # <<>> /\ queue' = Tail(queue)
             /\ UNCHANGED <<forwarding, fires, session>>
             /\ watcher' = "running" => watcher = "running"
    <2>1. Asked' \subseteq Asked /\ AskedOnce'
      BY <1>3, AskedShrinks DEF TriggerInv
    <2>2. Fired' = Fired /\ OneFirePerTrigger'
      BY <1>3 DEF Fired, OneFirePerTrigger, TriggerInv
    <2> QED BY <1>3, <2>1, <2>2 DEF TriggerInv
  <1>4. CASE /\ queue # <<>> /\ queue' = Tail(queue) /\ Head(queue).type = "FireNow"
             /\ \E b \in Batch : Broadcast(b)
             /\ UNCHANGED <<forwarding, session, watcher>>
    <2> DEFINE s == Head(queue).from
    <2>1. /\ Asked' \subseteq Asked /\ AskedOnce'
          /\ s \in Asked /\ (s # 0 => s \notin Asked')
      BY <1>4, AskedShrinks DEF TriggerInv
    <2>2. Fired' = Fired \union {s} /\ OneFirePerTrigger'
      <3>1. s = 0 \/ s \notin Fired
        BY <2>1 DEF TriggerInv
      <3> QED BY <1>4, <3>1, FiredGrows DEF TriggerInv
    <2> HIDE DEF s
    <2> QED BY <1>4, <2>1, <2>2 DEF TriggerInv
  <1>5. ASSUME NEW m \in Message, m.type # "FireNow" \/ m.from = 0,
               queue' = Append(queue, m), UNCHANGED <<forwarding, fires, session>>,
               watcher' = "running" => watcher = "running"
        PROVE  TriggerInv'
    <2>1. Asked' \subseteq Asked \union {0} /\ AskedOnce'
      BY <1>5, AskedGrows DEF TriggerInv
    <2>2. Fired' = Fired /\ OneFirePerTrigger'
      BY <1>5 DEF Fired, OneFirePerTrigger, TriggerInv
    <2>3. 0 \notin forwarding
      BY DEF TriggerInv
    <2> QED BY <1>1, <1>5, <2>1, <2>2, <2>3 DEF TriggerInv
  <1>6. ASSUME NEW s \in forwarding, queue' = Append(queue, Plain("FireNow", s)),
               forwarding' = forwarding \ {s}, UNCHANGED <<fires, session, watcher>>
        PROVE  TriggerInv'
    <2>1. s \in 1 .. session /\ s \notin Asked /\ s \notin Fired
      BY DEF TriggerInv
    <2>2. /\ Plain("FireNow", s) \in Message
          /\ Plain("FireNow", s).type = "FireNow" /\ Plain("FireNow", s).from = s
      BY DEF TypeOK, Plain, Message, PlainMsg
    <2>3. Asked' = Asked \union {s} /\ AskedOnce'
      BY <1>6, <2>1, <2>2, AskedGrows DEF TriggerInv
    <2>4. Fired' = Fired /\ OneFirePerTrigger'
      BY <1>6 DEF Fired, OneFirePerTrigger, TriggerInv
    <2> QED BY <1>1, <1>6, <2>1, <2>3, <2>4 DEF TriggerInv
  <1>7. CASE /\ watcher = "running" /\ watcher' = "triggered"
             /\ forwarding' = forwarding \union {session}
             /\ UNCHANGED <<queue, fires, session>>
    <2>1. Asked' = Asked /\ AskedOnce' /\ Fired' = Fired /\ OneFirePerTrigger'
      BY <1>7 DEF Asked, AskedOnce, Fired, OneFirePerTrigger, TriggerInv
    <2> QED BY <1>1, <1>7, <2>1 DEF TriggerInv
  <1>8. CASE /\ session' = session + 1
             /\ UNCHANGED <<queue, forwarding, fires>>
    <2>1. Asked' = Asked /\ AskedOnce' /\ Fired' = Fired /\ OneFirePerTrigger'
      BY <1>8 DEF Asked, AskedOnce, Fired, OneFirePerTrigger, TriggerInv
    <2> QED BY <1>1, <1>8, <2>1 DEF TriggerInv
  <1> QED BY <1>2, <1>3, <1>4, <1>5, <1>6, <1>7, <1>8, TriggerSteps

\* The trigger of a session broadcasts at most one batch.
THEOREM OneFireOfTrigger == Spec => []OneFirePerTrigger
  <1>1. Init => TriggerInv
    BY DEF Init, TriggerInv, Asked, Fired, AskedOnce, OneFirePerTrigger
  <1>2. TriggerInv => OneFirePerTrigger
    BY DEF TriggerInv
  <1> QED BY <1>1, <1>2, TriggerInductive, SessionInductive, TypeCorrect, PTL DEF Spec

------------------------------------------------------------------------------
(* Where a batch goes, and what the operator sees.                         *)

\* The only steps that broadcast, and what they broadcast.
LEMMA BroadcastSteps ==
    ASSUME TypeOK, PreparedForTarget, [Next]_vars, fires' # fires
    PROVE  /\ pc = "recv" /\ pc' = "firing"
           /\ UNCHANGED <<armed, mint>>
           /\ \E b \in Batch : /\ Broadcast(b)
                               /\ b.mint.nft = mint.nft
                               /\ b.mint.quantity = mint.quantity
  <1> USE DEF loopVars, history, world
  <1>1. CASE UNCHANGED vars
    BY <1>1 DEF Receive, vars
  <1>2. CASE Request
    BY <1>2 DEF Request, Receive
  <1>3. CASE PutConfig
    BY <1>3 DEF PutConfig, Receive
  <1>4. CASE PriceMoves
    BY <1>4 DEF PriceMoves, Receive
  <1>5. CASE WatcherTrigger
    BY <1>5 DEF WatcherTrigger, Receive
  <1>6. CASE WatcherEnds
    BY <1>6 DEF WatcherEnds, Receive
  <1>7. CASE WatcherFails
    BY <1>7 DEF WatcherFails, Receive
  <1>8. CASE SuperviseDisarm
    BY <1>8 DEF SuperviseDisarm, Receive
  <1>9. ASSUME NEW s \in forwarding, ForwardFireNow(s)
        PROVE  FALSE
    BY <1>9 DEF ForwardFireNow, Receive
  <1>10. CASE PrepareTimer
    BY <1>10 DEF PrepareTimer, Receive
  <1>11. CASE ReprepareTick
    BY <1>11 DEF ReprepareTick, Receive
  <1>12. CASE ArmIgnored
    BY <1>12 DEF ArmIgnored, Receive
  <1>13. CASE ArmRefused
    BY <1>13 DEF ArmRefused, Receive
  <1>14. CASE BeginArm
    BY <1>14 DEF BeginArm, Receive
  <1>15. CASE CompleteArm
    BY <1>15 DEF CompleteArm, Receive
  <1>16. CASE SelfSendPrepare
    BY <1>16 DEF SelfSendPrepare, Receive
  <1>17. CASE PrepareSkipped
    BY <1>17 DEF PrepareSkipped, Receive
  <1>18. CASE Prepare
    BY <1>18 DEF Prepare, Receive
  <1>19. CASE PreparePanics
    BY <1>19 DEF PreparePanics, Receive
  <1>20. CASE Disarm
    BY <1>20 DEF Disarm, EndSession
  <1>21. CASE SetTarget
    BY <1>21 DEF SetTarget, EndSession
  <1>22. CASE FirePrepared
    <2>1. PICK b \in prepared : Broadcast(b)
      BY <1>22 DEF FirePrepared
    <2>2. b \in Batch /\ b.mint.nft = mint.nft /\ b.mint.quantity = mint.quantity
      BY <2>1 DEF TypeOK, PreparedForTarget
    <2> QED BY <1>22, <2>1, <2>2 DEF FirePrepared, Receive
  <1>23. CASE FireJustInTime
    <2>1. [nonce |-> nextNonce, mint |-> mint] \in Batch
      BY DEF TypeOK, Batch
    <2> QED BY <1>23, <2>1 DEF FireJustInTime, Receive, Sign
  <1>24. CASE FireFails
    BY <1>24 DEF FireFails, Receive
  <1>25. CASE EndFire
    BY <1>25 DEF EndFire, EndSession
  <1>26. CASE BeginCopymint
    BY <1>26 DEF BeginCopymint, Receive
  <1>27. CASE EndCopymint
    BY <1>27 DEF EndCopymint, Receive
  <1>28. CASE FireDelegated
    BY <1>28 DEF FireDelegated, Receive
  <1> QED
    BY <1>1, <1>2, <1>3, <1>4, <1>5, <1>6, <1>7, <1>8, <1>9, <1>10, <1>11, <1>12, <1>13, <1>14, <1>15, <1>16, <1>17, <1>18, <1>19, <1>20, <1>21, <1>22, <1>23, <1>24, <1>25, <1>26, <1>27, <1>28
    DEF Next, Loop, Tasks

\* Every batch FireNow broadcasts is for the target of that moment.
THEOREM TargetCorrect == Spec => FiresAtTarget
  <1>1. TypeOK /\ PreparedForTarget /\ [Next]_vars =>
            [fires' # fires => /\ fires'[Len(fires')].mint.nft = mint.nft
                               /\ fires'[Len(fires')].mint.quantity = mint.quantity]_vars
    <2> SUFFICES ASSUME TypeOK, PreparedForTarget, [Next]_vars, fires' # fires
                 PROVE  /\ fires'[Len(fires')].mint.nft = mint.nft
                        /\ fires'[Len(fires')].mint.quantity = mint.quantity
      OBVIOUS
    <2>1. PICK b \in Batch : /\ Broadcast(b)
                            /\ b.mint.nft = mint.nft
                            /\ b.mint.quantity = mint.quantity
      BY BroadcastSteps
    <2>2. fires'[Len(fires')].mint = b.mint
      BY <2>1, BroadcastAppends
    <2> QED BY <2>1, <2>2
  <1> QED BY <1>1, TypeCorrect, PreparedCorrect, PTL DEF Spec, FiresAtTarget

\* The refinement mapping, named for the proof.
Sent == [i \in DOMAIN fires |-> fires[i].mint.nft]

\* A broadcast appends its target to the abstract history.
LEMMA SentGrows ==
    ASSUME TypeOK, NEW b \in Batch, Broadcast(b)
    PROVE  Sent' = Append(Sent, b.mint.nft)
  <1> DEFINE n == Len(fires)
  <1>1. /\ n \in Nat
        /\ DOMAIN fires = 1 .. n
        /\ DOMAIN fires' = 1 .. n + 1
        /\ \A i \in 1 .. n : fires'[i] = fires[i]
        /\ fires'[n + 1].mint = b.mint
    BY BroadcastAppends
  <1>2. \A i \in 1 .. n : fires[i].mint.nft \in Targets
    <2> SUFFICES ASSUME NEW i \in 1 .. n
                 PROVE  fires[i].mint.nft \in Targets
      OBVIOUS
    <2>1. fires \in Seq(Fire)
      BY DEF TypeOK
    <2>2. fires[i] \in Fire
      BY <1>1, <2>1
    <2> QED BY <2>2 DEF Fire, Mint
  <1>3. b.mint.nft \in Targets
    BY DEF Batch, Mint
  <1> HIDE DEF n
  <1>4. Sent = [i \in 1 .. n |-> fires[i].mint.nft] /\ Sent \in Seq(Targets) /\ Len(Sent) = n
    BY <1>1, <1>2 DEF Sent
  <1>5. Sent' = [i \in 1 .. n + 1 |-> fires'[i].mint.nft]
    BY <1>1 DEF Sent
  <1>6. \A i \in 1 .. n + 1 : Sent'[i] = Append(Sent, b.mint.nft)[i]
    BY <1>1, <1>3, <1>4, <1>5
  <1>7. Append(Sent, b.mint.nft) \in Seq(Targets) /\ Len(Append(Sent, b.mint.nft)) = n + 1
    BY <1>1, <1>3, <1>4
  <1> QED BY <1>1, <1>5, <1>6, <1>7

\* Every step of the loop is a step of the promised session or invisible in it.
LEMMA SessionStep ==
    TypeOK /\ SessionInv /\ PreparedForTarget /\ [Next]_vars
        => [Session!Next]_(Session!vars)
  <1> SUFFICES ASSUME TypeOK, SessionInv, PreparedForTarget, [Next]_vars
               PROVE  [Session!Next]_(Session!vars)
    OBVIOUS
  <1>0. [Session!Next]_(Session!vars)
           <=> \/ Session!Next
               \/ UNCHANGED <<armed, pc = "firing", mint.nft, Sent>>
    BY DEF Session!vars, Sent
  <1> USE DEF Receive
  <1> USE DEF loopVars, history, world
  <1>1. CASE UNCHANGED vars
    BY <1>0, <1>1 DEF vars, Sent
  <1>2. CASE Request
    <2>1. UNCHANGED <<armed, pc = "firing", mint.nft, fires>>
      BY <1>2 DEF Request
    <2> QED BY <1>0, <2>1 DEF Sent
  <1>3. CASE PutConfig
    <2>1. UNCHANGED <<armed, pc = "firing", mint.nft, fires>>
      BY <1>3 DEF PutConfig
    <2> QED BY <1>0, <2>1 DEF Sent
  <1>4. CASE PriceMoves
    <2>1. UNCHANGED <<armed, pc = "firing", mint.nft, fires>>
      BY <1>4 DEF PriceMoves
    <2> QED BY <1>0, <2>1 DEF Sent
  <1>5. CASE WatcherTrigger
    <2>1. UNCHANGED <<armed, pc = "firing", mint.nft, fires>>
      BY <1>5 DEF WatcherTrigger
    <2> QED BY <1>0, <2>1 DEF Sent
  <1>6. CASE WatcherEnds
    <2>1. UNCHANGED <<armed, pc = "firing", mint.nft, fires>>
      BY <1>6 DEF WatcherEnds
    <2> QED BY <1>0, <2>1 DEF Sent
  <1>7. CASE WatcherFails
    <2>1. UNCHANGED <<armed, pc = "firing", mint.nft, fires>>
      BY <1>7 DEF WatcherFails
    <2> QED BY <1>0, <2>1 DEF Sent
  <1>8. CASE SuperviseDisarm
    <2>1. UNCHANGED <<armed, pc = "firing", mint.nft, fires>>
      BY <1>8 DEF SuperviseDisarm
    <2> QED BY <1>0, <2>1 DEF Sent
  <1>9. ASSUME NEW s \in forwarding, ForwardFireNow(s)
        PROVE  [Session!Next]_(Session!vars)
    <2>1. UNCHANGED <<armed, pc = "firing", mint.nft, fires>>
      BY <1>9 DEF ForwardFireNow
    <2> QED BY <1>0, <2>1 DEF Sent
  <1>10. CASE PrepareTimer
    <2>1. UNCHANGED <<armed, pc = "firing", mint.nft, fires>>
      BY <1>10 DEF PrepareTimer
    <2> QED BY <1>0, <2>1 DEF Sent
  <1>11. CASE ReprepareTick
    <2>1. UNCHANGED <<armed, pc = "firing", mint.nft, fires>>
      BY <1>11 DEF ReprepareTick
    <2> QED BY <1>0, <2>1 DEF Sent
  <1>12. CASE ArmIgnored
    <2>1. UNCHANGED <<armed, pc = "firing", mint.nft, fires>>
      BY <1>12 DEF ArmIgnored
    <2> QED BY <1>0, <2>1 DEF Sent
  <1>13. CASE ArmRefused
    <2>1. UNCHANGED <<armed, pc = "firing", mint.nft, fires>>
      BY <1>13 DEF ArmRefused
    <2> QED BY <1>0, <2>1 DEF Sent
  <1>14. CASE BeginArm
    <2>1. UNCHANGED <<armed, pc = "firing", mint.nft, fires>>
      BY <1>14 DEF BeginArm
    <2> QED BY <1>0, <2>1 DEF Sent
  <1>15. CASE CompleteArm
    <2>1. ~armed /\ armed' /\ pc # "firing" /\ pc' # "firing" /\ UNCHANGED <<mint, fires>>
      BY <1>15 DEF CompleteArm, SessionInv
    <2> QED BY <2>1, <1>15 DEF CompleteArm, Session!Next, Session!Arm
  <1>16. CASE SelfSendPrepare
    <2>1. UNCHANGED <<armed, pc = "firing", mint.nft, fires>>
      BY <1>16 DEF SelfSendPrepare
    <2> QED BY <1>0, <2>1 DEF Sent
  <1>17. CASE PrepareSkipped
    <2>1. UNCHANGED <<armed, pc = "firing", mint.nft, fires>>
      BY <1>17 DEF PrepareSkipped
    <2> QED BY <1>0, <2>1 DEF Sent
  <1>18. CASE Prepare
    <2>1. PICK v : mint' = [mint EXCEPT !.value = v]
      BY <1>18 DEF Prepare
    <2>2. mint'.nft = mint.nft
      BY <2>1 DEF TypeOK, Mint
    <2>3. UNCHANGED <<armed, pc = "firing", mint.nft, fires>>
      BY <1>18, <2>2 DEF Prepare
    <2> QED BY <1>0, <2>3 DEF Sent
  <1>19. CASE PreparePanics
    <2>1. UNCHANGED <<armed, pc = "firing", mint.nft, fires>>
      BY <1>19 DEF PreparePanics
    <2> QED BY <1>0, <2>1 DEF Sent
  <1>20. CASE Disarm
    <2>1. ~armed' /\ pc # "firing" /\ UNCHANGED <<pc, mint, fires>>
      BY <1>20 DEF Disarm, EndSession
    <2> QED BY <2>1, <1>20 DEF Disarm, EndSession, Session!Next, Session!Disarm
  <1>21. CASE SetTarget
    <2>1. pc # "firing" /\ UNCHANGED <<pc, fires>> /\ armed' = FALSE
      BY <1>21 DEF SetTarget, EndSession
    <2>2. Head(queue).mint \in Mint /\ mint' = Head(queue).mint
      BY <1>21, ReceiveType, MessageParts DEF SetTarget, MintKinds
    <2>3. mint'.nft \in Targets
      BY <2>2 DEF Mint
    <2> QED BY <2>1, <2>3 DEF Session!Next, Session!Retarget
  <1>22. CASE FirePrepared
    <2>1. PICK b \in Batch : Broadcast(b) /\ b.mint.nft = mint.nft
      BY <1>22 DEF FirePrepared, TypeOK, PreparedForTarget
    <2>2. Sent' = Append(Sent, mint.nft)
      BY <2>1, SentGrows
    <2>3. pc # "firing" /\ pc' = "firing" /\ UNCHANGED <<armed, mint>>
      BY <1>22 DEF FirePrepared
    <2> QED BY <2>2, <2>3 DEF Session!Next, Session!Fire, Sent
  <1>23. CASE FireJustInTime
    <2>1. PICK b \in Batch : Broadcast(b) /\ b.mint.nft = mint.nft
      <3>1. [nonce |-> nextNonce, mint |-> mint] \in Batch
        BY DEF TypeOK, Batch
      <3> QED BY <1>23, <3>1 DEF FireJustInTime, Sign
    <2>2. Sent' = Append(Sent, mint.nft)
      BY <2>1, SentGrows
    <2>3. pc # "firing" /\ pc' = "firing" /\ UNCHANGED <<armed, mint>>
      BY <1>23 DEF FireJustInTime
    <2> QED BY <2>2, <2>3 DEF Session!Next, Session!Fire, Sent
  <1>24. CASE FireFails
    <2>1. pc # "firing" /\ pc' = "firing" /\ UNCHANGED <<armed, mint, fires>>
      BY <1>24 DEF FireFails
    <2> QED BY <2>1 DEF Session!Next, Session!Fire
  <1>25. CASE EndFire
    <2>1. pc = "firing" /\ pc' = "recv" /\ armed' = FALSE /\ UNCHANGED <<mint, fires>>
      BY <1>25 DEF EndFire, EndSession
    <2> QED BY <2>1 DEF Session!Next, Session!EndFire
  <1>26. CASE BeginCopymint
    <2>1. UNCHANGED <<armed, pc = "firing", mint.nft, fires>>
      BY <1>26 DEF BeginCopymint
    <2> QED BY <1>0, <2>1 DEF Sent
  <1>27. CASE EndCopymint
    <2>1. UNCHANGED <<armed, pc = "firing", mint.nft, fires>>
      BY <1>27 DEF EndCopymint
    <2> QED BY <1>0, <2>1 DEF Sent
  <1>28. CASE FireDelegated
    <2>1. UNCHANGED <<armed, pc = "firing", mint.nft, fires>>
      BY <1>28 DEF FireDelegated
    <2> QED BY <1>0, <2>1 DEF Sent
  <1> QED
    BY <1>1, <1>2, <1>3, <1>4, <1>5, <1>6, <1>7, <1>8, <1>9, <1>10, <1>11, <1>12, <1>13, <1>14, <1>15, <1>16, <1>17, <1>18, <1>19, <1>20, <1>21, <1>22, <1>23, <1>24, <1>25, <1>26, <1>27, <1>28
    DEF Next, Loop, Tasks

\* The control loop implements the session it promises the operator.
THEOREM Refinement == Spec => ImplementsSession
  <1>1. TypeOK /\ Init => Session!Init
    BY DEF Init, Session!Init, TypeOK, Mint
  <1> QED BY <1>1, SessionStep, TypeCorrect, SessionInductive, PreparedCorrect, PTL
          DEF Spec, ImplementsSession, Session!Spec
==============================================================================
