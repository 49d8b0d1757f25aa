------------------------- MODULE FirePreparedProofs --------------------------
(***************************************************************************)
(* Theorems about FirePrepared, for any set of wallets and any number of   *)
(* backup providers.                                                       *)
(***************************************************************************)
EXTENDS FirePrepared, TLAPS

\* Moving one wait of one wallet to another stage keeps the type of all.
LEMMA WaitType ==
    ASSUME TypeOK, NEW w \in Wallets, NEW i \in Slots, NEW v \in Stages
    PROVE  [wait EXCEPT ![w][i] = v] \in [Wallets -> [Slots -> Stages]]
  BY DEF TypeOK

\* Every variable keeps its type through every step.
THEOREM FireTypeCorrect == Spec => []TypeOK
  <1> USE FirePreparedAssumption DEF setup, results
  <1>1. Init => TypeOK
    BY DEF Init, TypeOK, Slots, Stages
  <1>2. TypeOK /\ [Next]_vars => TypeOK'
    <2> SUFFICES ASSUME TypeOK, [Next]_vars PROVE TypeOK'
      OBVIOUS
    <2>1. CASE UNCHANGED vars
      BY <2>1 DEF TypeOK, vars
    <2>2. CASE Bail \/ Begin \/ Return \/ TickerDies
      BY <2>2 DEF TypeOK, Bail, Begin, Return, TickerDies
    <2>3. CASE Tick
      BY <2>3 DEF TypeOK, Tick, Stages, Waiting
    <2>4. ASSUME NEW w \in Wallets,
                 Mine(w) \/ JitterPanics(w) \/ SequencerAcks(w) \/ SequencerFails(w)
          PROVE  TypeOK'
      BY <2>4 DEF TypeOK, Mine, JitterPanics, SequencerAcks, SequencerFails,
                  Reached, Mined
    <2>5. ASSUME NEW w \in Wallets, Dispatch(w) PROVE TypeOK'
      BY <2>5 DEF TypeOK, Dispatch, Stages
    <2>6. ASSUME NEW w \in Wallets, Fallback(w) PROVE TypeOK'
      <3>1. 0 \in Slots BY DEF Slots
      <3> QED BY <2>6, <3>1 DEF TypeOK, Fallback, Stages, Waiting
    <2>7. ASSUME NEW w \in Wallets, Conclude(w) PROVE TypeOK'
      <3>1. Verdict(w) \in {"minted", "reverted", "unconfirmed", "ackOnly", "failed"}
        BY DEF Verdict
      <3>2. Source(w) \in {"none", "sequencer", "backup"}
        BY DEF Source
      <3> QED BY <2>7, <3>1, <3>2 DEF TypeOK, Conclude
    <2>8. ASSUME NEW w \in Wallets, NEW i \in Slots,
                 \/ BackupAcks(w, i) \/ BackupFails(w, i)
          PROVE  TypeOK'
      <3>1. PICK v \in {"check", "failed"} : wait' = [wait EXCEPT ![w][i] = v]
        BY <2>8 DEF BackupAcks, BackupFails
      <3>3. v \in Stages
        BY DEF Stages, Waiting, Settled
      <3>4. wait' \in [Wallets -> [Slots -> Stages]]
        BY <3>1, <3>3, WaitType
      <3>2. chain' \in [Wallets -> {"absent", "pending"} \union Mined]
        BY <2>8 DEF TypeOK, BackupAcks, BackupFails, Reached
      <3> QED BY <2>8, <3>4, <3>2 DEF TypeOK, BackupAcks, BackupFails
    <2>9. ASSUME NEW w \in Wallets, NEW i \in Slots,
                 \/ ReceiptFound(w, i) \/ ReceiptMissed(w, i)
                 \/ Poll(w, i) \/ WaitTimesOut(w, i)
          PROVE  TypeOK'
      <3>1. PICK v \in {"included", "sleep", "check", "timedout"} :
                wait' = [wait EXCEPT ![w][i] = v]
        BY <2>9 DEF ReceiptFound, ReceiptMissed, Poll, WaitTimesOut
      <3>2. v \in Stages
        BY DEF Stages, Waiting, Settled
      <3>3. wait' \in [Wallets -> [Slots -> Stages]]
        BY <3>1, <3>2, WaitType
      <3> QED BY <2>9, <3>3 DEF TypeOK, ReceiptFound, ReceiptMissed, Poll, WaitTimesOut
    <2> QED
      BY <2>1, <2>2, <2>3, <2>4, <2>5, <2>6, <2>7, <2>8, <2>9
      DEF Next, Sends, TimeOut
  <1> QED BY <1>1, <1>2, PTL DEF Spec

------------------------------------------------------------------------------
(* The inductive invariant: what a wallet's task has decided follows from  *)
(* what its sends and waits have come to.                                  *)

Quiet(w) ==
    /\ seqSend[w] = "none"
    /\ \A i \in Slots : wait[w][i] = "none"

SlotsInv(w) ==
    /\ \A i \in Slots : i # 0 /\ i \notin Backups => wait[w][i] = "none"
    /\ \A i \in Slots : wait[w][i] = "included" => chain[w] \in Mined
    /\ task[w] \in {"jitter", "race"} => wait[w][0] = "none"
    /\ wait[w][0] # "none" => seqSend[w] = "acked"
    /\ seqSend[w] # "none" => sequencer
    /\ task[w] = "race" => \A i \in Backups : wait[w][i] # "none"
    /\ task[w] = "fallback" => NeedsFallback(w) /\ wait[w][0] \in Accepted

TaskInv(w) ==
    /\ task[w] = "jitter" => Quiet(w)
    /\ task[w] # "done" => outcome[w] = "none" /\ source[w] = "none"
    /\ task[w] = "done" =>
          /\ seqSend[w] # "sending"
          /\ \A i \in Slots : wait[w][i] \in Settled \union {"none"}
          /\ \/ outcome[w] = "panicked" /\ source[w] = "none" /\ Quiet(w)
             \/ /\ outcome[w] = Verdict(w)
                /\ source[w] = Source(w)
                /\ Verdict(w) # "ackOnly"

PhaseInv ==
    /\ phase \in {"called", "bailed"} => \A w \in Wallets : task[w] = "jitter"
    /\ phase = "returned" => \A w \in Wallets : task[w] = "done"

FireInv == PhaseInv /\ \A w \in Wallets : SlotsInv(w) /\ TaskInv(w)

\* A task nothing happened to keeps its part of the invariant.
LEMMA Bystander ==
    ASSUME NEW w, SlotsInv(w), TaskInv(w), UNCHANGED setup,
           task'[w] = task[w], seqSend'[w] = seqSend[w], wait'[w] = wait[w],
           chain'[w] = chain[w], outcome'[w] = outcome[w], source'[w] = source[w]
    PROVE  SlotsInv(w)' /\ TaskInv(w)'
  BY DEF setup, SlotsInv, TaskInv, NeedsFallback, Quiet, Verdict, Source, Some, Backups

\* A task that has not concluded is only bound by its stage.
LEMMA SlotsStep ==
    ASSUME TypeOK, FireInv, NEW w \in Wallets,
           \/ Dispatch(w) \/ JitterPanics(w) \/ SequencerAcks(w) \/ SequencerFails(w)
           \/ Fallback(w) \/ Conclude(w) \/ Mine(w)
    PROVE  SlotsInv(w)' /\ TaskInv(w)'
  <1> USE DEF setup, results
  <1>0. SlotsInv(w) /\ TaskInv(w)
        /\ 0 \in Slots /\ 0 \notin Backups /\ Backups \subseteq Slots
    BY FirePreparedAssumption DEF FireInv, Slots, Backups, TypeOK
  <1>1. CASE Dispatch(w)
    <2>1. /\ wait'[w] = [i \in Slots |-> IF i \in Backups THEN "sending" ELSE "none"]
          /\ task'[w] = "race" /\ outcome'[w] = "none" /\ source'[w] = "none"
          /\ seqSend'[w] \in {"none", "sending"} /\ (seqSend'[w] # "none" => sequencer')
      BY <1>0, <1>1 DEF Dispatch, TaskInv, TypeOK
    <2>2. Backups' = Backups
      BY <1>1 DEF Dispatch, Backups
    <2> QED BY <1>0, <2>1, <2>2 DEF SlotsInv, TaskInv
  <1>2. CASE JitterPanics(w)
    BY <1>0, <1>2 DEF JitterPanics, SlotsInv, TaskInv, TypeOK, Quiet, Backups
  <1>3. CASE SequencerAcks(w) \/ SequencerFails(w)
    BY <1>0, <1>3 DEF SequencerAcks, SequencerFails, Reached, SlotsInv, TaskInv,
                      TypeOK, Quiet, NeedsFallback, Backups, Mined
  <1>4. CASE Fallback(w)
    BY <1>0, <1>4 DEF Fallback, RaceOver, SlotsInv, TaskInv, TypeOK, NeedsFallback,
                      Backups, Accepted, Waiting, Settled
  <1>5. CASE Conclude(w)
    <2>1. /\ seqSend[w] # "sending"
          /\ \A i \in Backups : wait[w][i] \in Settled
          /\ wait[w][0] \in Settled \union {"none"}
      BY <1>0, <1>5 DEF Conclude, RaceOver, SlotsInv, NeedsFallback, Settled
    <2>2. \A i \in Slots : wait[w][i] \in Settled \union {"none"}
      BY <1>0, <2>1 DEF SlotsInv
    <2>3. Verdict(w) # "ackOnly"
      <3>1. SUFFICES ASSUME seqSend[w] = "acked"
                     PROVE  Some(w, "included") \/ Some(w, "timedout")
        BY DEF Verdict
      <3>2. CASE ~NeedsFallback(w)
        <4>1. PICK i \in Backups : wait[w][i] # "failed"
          BY <3>1, <3>2 DEF NeedsFallback
        <4> QED BY <1>0, <2>1, <4>1 DEF Some, Settled
      <3>3. CASE task[w] = "fallback" /\ wait[w][0] \in Settled
        BY <1>0, <3>3 DEF SlotsInv, Accepted, Waiting, Settled, Some
      <3> QED BY <1>5, <3>2, <3>3 DEF Conclude
    <2>4. /\ task'[w] = "done" /\ outcome'[w] = Verdict(w) /\ source'[w] = Source(w)
          /\ UNCHANGED <<setup, seqSend, wait, chain>>
      BY <1>5 DEF Conclude, TypeOK
    <2>5. Verdict(w)' = Verdict(w) /\ Source(w)' = Source(w) /\ Backups' = Backups
      BY <2>4 DEF Verdict, Source, Some, Backups
    <2> QED BY <1>0, <2>1, <2>2, <2>3, <2>4, <2>5 DEF SlotsInv, TaskInv
  <1>6. CASE Mine(w)
    BY <1>0, <1>6 DEF Mine, SlotsInv, TaskInv, TypeOK, NeedsFallback, Quiet,
                      Backups, Mined, Verdict, Source, Some
  <1> QED BY <1>1, <1>2, <1>3, <1>4, <1>5, <1>6

\* A send or a wait of one slot moves on.
LEMMA WaitStep ==
    ASSUME TypeOK, FireInv, NEW w \in Wallets, NEW i \in Slots,
           \/ BackupAcks(w, i) \/ BackupFails(w, i)
           \/ ReceiptFound(w, i) \/ ReceiptMissed(w, i)
           \/ Poll(w, i) \/ WaitTimesOut(w, i)
    PROVE  SlotsInv(w)' /\ TaskInv(w)'
  <1> USE DEF setup, results
  <1>1. SlotsInv(w) /\ TaskInv(w)
    BY DEF FireInv
  <1>2. PICK v \in {"check", "sleep", "included", "timedout", "failed"} :
            /\ wait' = [wait EXCEPT ![w][i] = v]
            /\ v = "included" => chain[w] \in Mined
            /\ wait[w][i] # "sending" => v \in Accepted
    BY DEF BackupAcks, BackupFails, ReceiptFound, ReceiptMissed, Poll, WaitTimesOut,
           Accepted, Waiting
  <1>3. /\ wait[w][i] \in Waiting \union {"sending"}
        /\ UNCHANGED <<setup, task, seqSend, results>>
    BY DEF BackupAcks, BackupFails, ReceiptFound, ReceiptMissed, Poll, WaitTimesOut,
           Waiting
  <1>4. chain[w] \in Mined => chain'[w] = chain[w]
    BY DEF BackupAcks, BackupFails, ReceiptFound, ReceiptMissed, Poll, WaitTimesOut,
           Reached, Mined, TypeOK
  <1>5. /\ wait'[w][i] = v
        /\ \A j \in Slots : j # i => wait'[w][j] = wait[w][j]
    BY <1>2 DEF TypeOK
  <1>6. task[w] \in {"race", "fallback"}
    BY <1>1, <1>3 DEF TaskInv, Quiet, Waiting, Settled, TypeOK
  <1>7. i \in Backups \union {0} /\ Backups' = Backups
    BY <1>1, <1>3 DEF SlotsInv, Backups, Waiting
  <1>8. CASE task[w] = "race"
    <2>1. i \in Backups
      BY <1>1, <1>3, <1>7, <1>8 DEF SlotsInv, Waiting
    <2> QED BY <1>1, <1>2, <1>3, <1>4, <1>5, <1>7, <1>8, <2>1, FirePreparedAssumption
            DEF SlotsInv, TaskInv, Backups, Slots
  <1>9. CASE task[w] = "fallback"
    <2>1. i = 0
      BY <1>1, <1>3, <1>7, <1>9 DEF SlotsInv, NeedsFallback, Waiting
    <2>2. v \in Accepted
      BY <1>1, <1>2, <1>9, <2>1 DEF SlotsInv, Accepted, Waiting
    <2>3. NeedsFallback(w)'
      BY <1>1, <1>3, <1>5, <1>7, <1>9, <2>1, FirePreparedAssumption
      DEF SlotsInv, NeedsFallback, Backups, Slots, TypeOK
    <2>4. seqSend[w] = "acked"
      BY <1>1, <1>9 DEF SlotsInv, NeedsFallback
    <2> QED BY <1>1, <1>2, <1>3, <1>4, <1>5, <1>7, <1>9, <2>1, <2>2, <2>3, <2>4
            DEF SlotsInv, TaskInv
  <1> QED BY <1>6, <1>8, <1>9

\* A block wakes sleeping waits only, and a concluded task has none.
LEMMA TickStep ==
    ASSUME TypeOK, FireInv, NEW w \in Wallets, Tick
    PROVE  SlotsInv(w)' /\ TaskInv(w)'
  <1>1. SlotsInv(w) /\ TaskInv(w)
    BY DEF FireInv
  <1>2. wait'[w] = [i \in Slots |-> IF wait[w][i] = "sleep" THEN "check" ELSE wait[w][i]]
    BY DEF Tick
  <1>3. UNCHANGED <<setup, task, seqSend, chain, results>>
    BY DEF Tick
  <1>4. \A i \in Slots : /\ wait'[w][i] # wait[w][i] =>
                              wait[w][i] = "sleep" /\ wait'[w][i] = "check"
    BY <1>2
  <1>5. Backups' = Backups /\ Backups \subseteq Slots /\ 0 \in Slots
    BY <1>3, FirePreparedAssumption DEF setup, Backups, Slots, TypeOK
  <1>6. SlotsInv(w)'
    BY <1>1, <1>3, <1>4, <1>5 DEF setup, SlotsInv, NeedsFallback, Accepted, Waiting
  <1>7. CASE task[w] = "done"
    <2>1. \A i \in Slots : wait[w][i] # "sleep"
      BY <1>1, <1>7 DEF TaskInv, Settled
    <2>2. wait'[w] = wait[w]
      BY <1>2, <2>1 DEF TypeOK
    <2> QED BY <1>1, <1>3, <2>2, Bystander DEF results
  <1>8. CASE task[w] # "done"
    BY <1>1, <1>3, <1>4, <1>6, <1>8 DEF TaskInv, Quiet, results
  <1> QED BY <1>6, <1>7, <1>8

\* Every step keeps what each wallet's task has decided in line with its
\* sends and waits.
LEMMA FireInvStep == TypeOK /\ FireInv /\ [Next]_vars => FireInv'
  <1> SUFFICES ASSUME TypeOK, FireInv, [Next]_vars PROVE FireInv'
    OBVIOUS
  <1> DEFINE Good(v) == SlotsInv(v)' /\ TaskInv(v)'
  <1>1. CASE UNCHANGED vars
    <2>1. \A v \in Wallets : Good(v)
      BY <1>1, Bystander DEF vars, results, FireInv
    <2> QED BY <1>1, <2>1 DEF FireInv, PhaseInv, vars
  <1>2. CASE Bail \/ Begin \/ Return \/ TickerDies
    <2>1. \A v \in Wallets : Good(v)
      BY <1>2, Bystander DEF results, FireInv, Bail, Begin, Return, TickerDies
    <2> QED BY <1>2, <2>1 DEF FireInv, PhaseInv, Bail, Begin, Return, TickerDies
  <1>3. CASE Tick
    BY <1>3, TickStep DEF FireInv, PhaseInv, Tick
  <1>4. ASSUME NEW w \in Wallets,
               \/ Dispatch(w) \/ JitterPanics(w) \/ SequencerAcks(w) \/ SequencerFails(w)
               \/ Fallback(w) \/ Conclude(w) \/ Mine(w)
        PROVE  FireInv'
    <2>1. Good(w)
      BY <1>4, SlotsStep
    <2>2. \A v \in Wallets \ {w} : Good(v)
      <3> SUFFICES ASSUME NEW v \in Wallets \ {w} PROVE Good(v)
        OBVIOUS
      <3>1. /\ UNCHANGED setup
            /\ task'[v] = task[v] /\ seqSend'[v] = seqSend[v] /\ wait'[v] = wait[v]
            /\ chain'[v] = chain[v] /\ outcome'[v] = outcome[v] /\ source'[v] = source[v]
        BY <1>4 DEF TypeOK, results, Dispatch, JitterPanics, SequencerAcks,
                    SequencerFails, Reached, Fallback, Conclude, Mine
      <3> QED BY <3>1, Bystander DEF FireInv
    <2>3. /\ UNCHANGED phase
          /\ task[w] = "done" => task'[w] = "done"
          /\ task[w] = "jitter" /\ phase # "firing" => task'[w] = "jitter"
      BY <1>4 DEF TypeOK, results, Dispatch, JitterPanics, SequencerAcks,
                  SequencerFails, Fallback, Conclude, Mine, RaceOver
    <2>4. \A v \in Wallets \ {w} : task'[v] = task[v]
      BY <1>4 DEF TypeOK, results, Dispatch, JitterPanics, SequencerAcks,
                  SequencerFails, Fallback, Conclude, Mine
    <2>5. PhaseInv'
      BY <2>3, <2>4 DEF FireInv, PhaseInv
    <2> QED BY <2>1, <2>2, <2>5 DEF FireInv
  <1>5. ASSUME NEW w \in Wallets, NEW i \in Slots,
               \/ BackupAcks(w, i) \/ BackupFails(w, i)
               \/ ReceiptFound(w, i) \/ ReceiptMissed(w, i)
               \/ Poll(w, i) \/ WaitTimesOut(w, i)
        PROVE  FireInv'
    <2>1. Good(w)
      BY <1>5, WaitStep
    <2>2. \A v \in Wallets \ {w} : wait'[v] = wait[v] /\ chain'[v] = chain[v]
      BY <1>5 DEF TypeOK, BackupAcks, BackupFails, Reached, ReceiptFound,
                  ReceiptMissed, Poll, WaitTimesOut
    <2>3. UNCHANGED <<setup, phase, task, seqSend, results>>
      BY <1>5 DEF BackupAcks, BackupFails, ReceiptFound, ReceiptMissed, Poll,
                  WaitTimesOut
    <2>4. \A v \in Wallets \ {w} : Good(v)
      BY <2>2, <2>3, Bystander DEF FireInv, results
    <2> QED BY <2>1, <2>3, <2>4 DEF FireInv, PhaseInv
  <1> QED BY <1>1, <1>2, <1>3, <1>4, <1>5 DEF Next, Sends, TimeOut

THEOREM FireInductive == Spec => []FireInv
  <1>1. Init => FireInv
    BY FirePreparedAssumption
    DEF Init, FireInv, PhaseInv, SlotsInv, TaskInv, Quiet, Slots, Backups
  <1> QED BY <1>1, FireInvStep, FireTypeCorrect, PTL DEF Spec

------------------------------------------------------------------------------
(* Safety.                                                                 *)

\* Every task that ends has reported, also one that panicked.
THEOREM NobodySilentCorrect == Spec => []NobodySilent
  <1>1. FireInv => NobodySilent
    BY DEF FireInv, TaskInv, NobodySilent, Verdict
  <1> QED BY <1>1, FireInductive, PTL

\* The branch for a bare sequencer ack is unreachable.
THEOREM NoBareAckCorrect == Spec => []NoBareAck
  <1>1. FireInv => NoBareAck
    BY DEF FireInv, TaskInv, NoBareAck
  <1> QED BY <1>1, FireInductive, PTL

\* A receipt seen by any endpoint decides the outcome.
THEOREM InclusionCorrect == Spec => []InclusionDecides
  <1>1. FireInv => InclusionDecides
    BY DEF FireInv, TaskInv, Quiet, InclusionDecides, Some, Verdict
  <1> QED BY <1>1, FireInductive, PTL

\* ack_source names who took the transaction, as long as the configuration
\* of the fire is the one its endpoints were warmed from.
THEOREM SourceCorrect == Spec => []SourceIsTrue
  <1>1. TypeOK /\ FireInv => SourceIsTrue
    <2> SUFFICES ASSUME TypeOK, FireInv, seqUrl = sequencer,
                        NEW w \in Wallets, task[w] = "done"
                 PROVE  source[w] = Took(w)
      BY DEF SourceIsTrue
    <2>1. SlotsInv(w) /\ TaskInv(w) /\ Backups \subseteq Slots
      BY FirePreparedAssumption DEF FireInv, Backups, Slots, TypeOK
    <2>2. CASE outcome[w] = "panicked" /\ source[w] = "none" /\ Quiet(w)
      BY <2>1, <2>2 DEF Quiet, Took, Accepted, Waiting
    <2>3. CASE source[w] = Source(w) /\ Verdict(w) # "ackOnly"
      <3>1. \A i \in Slots : i = 0 \/ i \in Backups \/ wait[w][i] = "none"
        BY <2>1 DEF SlotsInv
      <3>2. CASE seqSend[w] = "acked"
        BY <2>1, <2>3, <3>2 DEF SlotsInv, Source, Verdict, Took
      <3>3. CASE seqSend[w] # "acked"
        <4>1. wait[w][0] = "none"
          BY <2>1, <3>3 DEF SlotsInv
        <4>2. (Some(w, "included") \/ Some(w, "timedout"))
                  <=> \E i \in Backups : wait[w][i] \in Accepted
          BY <2>1, <3>1, <4>1 DEF TaskInv, Some, Settled, Accepted, Waiting
        <4> QED BY <2>3, <3>3, <4>2 DEF Source, Verdict, Took
      <3> QED BY <3>2, <3>3
    <2> QED BY <2>1, <2>2, <2>3 DEF TaskInv
  <1> QED BY <1>1, FireTypeCorrect, FireInductive, PTL

------------------------------------------------------------------------------
(* A fire keeps the promise of MintOutcome.                                *)

\* A send that ends lets its transaction reach the chain, acknowledged or not.
LEMMA SendIsReach ==
    ASSUME TypeOK, FireInv, NEW w \in Wallets,
           \/ SequencerAcks(w) \/ SequencerFails(w)
           \/ \E i \in Slots : BackupAcks(w, i) \/ BackupFails(w, i)
    PROVE  Promise!Reach(w) \/ UNCHANGED Promise!vars
  <1> USE DEF setup, results
  <1>1. SlotsInv(w) /\ TaskInv(w)
    BY DEF FireInv
  <1>2. UNCHANGED <<outcome, phase>>
    BY DEF SequencerAcks, SequencerFails, BackupAcks, BackupFails
  <1>3. outcome[w] = "none"
    BY <1>1 DEF TaskInv, Quiet, SequencerAcks, SequencerFails, BackupAcks, BackupFails,
                Settled
  <1>4. UNCHANGED <<Told, ToldPhase>>
    BY <1>2 DEF Told, ToldPhase
  <1>5. ASSUME chain' \in {chain, Reached(w)}, Taken' = Taken
        PROVE  Promise!Reach(w) \/ UNCHANGED Promise!vars
    BY <1>3, <1>4, <1>5 DEF Reached, Promise!Reach, Promise!vars, Told
  <1>6. ASSUME chain' = Reached(w), Taken' = Taken \union {w}
        PROVE  Promise!Reach(w)
    BY <1>3, <1>4, <1>6 DEF Reached, Promise!Reach, Told
  <1>7. CASE SequencerAcks(w)
    <2>1. Taken' = Taken \union {w}
      BY <1>7 DEF SequencerAcks, Taken, TypeOK
    <2> QED BY <1>6, <1>7, <2>1 DEF SequencerAcks
  <1>8. CASE SequencerFails(w)
    <2>1. Taken' = Taken
      BY <1>8 DEF SequencerFails, Taken, TypeOK
    <2> QED BY <1>5, <1>8, <2>1 DEF SequencerFails
  <1>9. ASSUME NEW i \in Slots, BackupAcks(w, i)
        PROVE  Promise!Reach(w)
    <2>1. /\ wait'[w][i] = "check" /\ UNCHANGED seqSend
          /\ \A v \in Wallets, j \in Slots : v # w \/ j # i => wait'[v][j] = wait[v][j]
      BY <1>9 DEF BackupAcks, TypeOK
    <2>2. Taken' = Taken \union {w}
      BY <1>9, <2>1 DEF BackupAcks, Taken, Accepted, Waiting
    <2> QED BY <1>6, <1>9, <2>2 DEF BackupAcks
  <1>10. ASSUME NEW i \in Slots, BackupFails(w, i)
         PROVE  Promise!Reach(w) \/ UNCHANGED Promise!vars
    <2>1. /\ wait'[w][i] = "failed" /\ wait[w][i] = "sending" /\ UNCHANGED seqSend
          /\ \A v \in Wallets, j \in Slots : v # w \/ j # i => wait'[v][j] = wait[v][j]
      BY <1>10 DEF BackupFails, TypeOK
    <2>2. Taken' = Taken
      BY <2>1 DEF Taken, Accepted, Waiting
    <2> QED BY <1>5, <1>10, <2>2 DEF BackupFails
  <1> QED BY <1>7, <1>8, <1>9, <1>10

\* Waiting for a receipt does not show.
LEMMA WaitIsStutter ==
    ASSUME TypeOK, NEW w \in Wallets, NEW i \in Slots,
           \/ ReceiptFound(w, i) \/ ReceiptMissed(w, i)
           \/ Poll(w, i) \/ WaitTimesOut(w, i)
    PROVE  UNCHANGED Promise!vars
  <1> USE DEF setup, results
  <1>1. /\ wait[w][i] \in Accepted /\ wait'[w][i] \in Accepted
        /\ \A v \in Wallets, j \in Slots : v # w \/ j # i => wait'[v][j] = wait[v][j]
        /\ UNCHANGED <<seqSend, chain, outcome, phase>>
    BY DEF ReceiptFound, ReceiptMissed, Poll, WaitTimesOut, TypeOK, Accepted, Waiting
  <1>2. Taken' = Taken
    BY <1>1 DEF Taken
  <1> QED BY <1>1, <1>2 DEF Told, ToldPhase, Promise!vars

\* A concluding task reports what the chain and its endpoints bear out.
LEMMA ConcludeIsReport ==
    ASSUME TypeOK, FireInv, FireInv', NEW w \in Wallets, Conclude(w)
    PROVE  Promise!Report(w)
  <1> USE DEF setup, results
  <1>1. SlotsInv(w) /\ TaskInv(w) /\ TaskInv(w)' /\ PhaseInv /\ 0 \in Slots
    BY FirePreparedAssumption DEF FireInv, Slots
  <1>2. task[w] \in {"race", "fallback"} /\ task'[w] = "done" /\ outcome'[w] = Verdict(w)
        /\ UNCHANGED <<setup, phase, seqSend, wait, chain>>
        /\ \A v \in Wallets \ {w} : outcome'[v] = outcome[v]
    BY DEF Conclude, RaceOver, TypeOK
  <1>3. outcome[w] = "none" /\ Told[w] = "none" /\ ToldPhase = "firing"
    BY <1>1, <1>2 DEF TaskInv, PhaseInv, Told, ToldPhase, TypeOK
  <1>4. Verdict(w) # "ackOnly"
    BY <1>1, <1>2 DEF TaskInv, Verdict, Some, Quiet
  <1>5. Told' = [Told EXCEPT ![w] = Verdict(w)]
    BY <1>2, <1>4 DEF Told, Verdict
  <1>6. /\ Verdict(w) = "failed" => w \notin Taken
        /\ Verdict(w) # "failed" => w \in Taken
    <2>1. \A i \in Slots : wait[w][i] \in Settled \union {"none"}
      BY <1>1, <1>2 DEF TaskInv, Quiet
    <2> QED BY <2>1 DEF Verdict, Some, Taken, Settled, Accepted, Waiting
  <1>7. /\ Verdict(w) = "minted" => chain[w] = "success"
        /\ Verdict(w) = "reverted" => chain[w] = "reverted"
    BY <1>1 DEF Verdict, Some, SlotsInv, Mined
  <1>8. Verdict(w) \in Promise!Outcomes /\ Promise!Holds(w, Verdict(w))
    BY <1>4, <1>6, <1>7 DEF Verdict, Promise!Outcomes, Promise!Holds
  <1>9. Taken' = Taken /\ ToldPhase' = ToldPhase
    BY <1>2 DEF Taken, ToldPhase
  <1> QED BY <1>2, <1>3, <1>5, <1>8, <1>9 DEF Promise!Report

LEMMA PromiseStep ==
    TypeOK /\ FireInv /\ FireInv' /\ [Next]_vars => [Promise!Next]_(Promise!vars)
  <1> SUFFICES ASSUME TypeOK, FireInv, FireInv', [Next]_vars
               PROVE  Promise!Next \/ UNCHANGED Promise!vars
    OBVIOUS
  <1> USE DEF setup, results, Promise!vars
  <1>1. CASE UNCHANGED vars
    BY <1>1 DEF vars, Taken, Told, ToldPhase
  <1>2. CASE Begin \/ TickerDies
    BY <1>2 DEF Begin, TickerDies, Taken, Told, ToldPhase
  <1>3. CASE Tick
    <2>1. \A w \in Wallets, i \in Slots :
              wait'[w][i] \in Accepted <=> wait[w][i] \in Accepted
      BY <1>3 DEF Tick, Accepted, Waiting
    <2>2. Taken' = Taken
      BY <1>3, <2>1 DEF Tick, Taken
    <2> QED BY <1>3, <2>2 DEF Tick, Told, ToldPhase
  <1>4. CASE Bail
    <2>1. phase' = "bailed" /\ phase = "called"
          /\ UNCHANGED <<seqSend, wait, chain, outcome>>
      BY <1>4 DEF Bail
    <2>2. ToldPhase = "firing" /\ ToldPhase' = "bailed" /\ Taken' = Taken /\ Told' = Told
      BY <2>1 DEF ToldPhase, Taken, Told
    <2>3. \A w \in Wallets : Quiet(w) /\ outcome[w] = "none"
      BY <2>1 DEF FireInv, PhaseInv, TaskInv
    <2>4. Taken = {} /\ \A w \in Wallets : Told[w] = "none"
      BY <2>3 DEF Taken, Told, Quiet, Accepted, Waiting
    <2> QED BY <2>1, <2>2, <2>4 DEF Promise!Bail, Promise!Next
  <1>5. CASE Return
    <2>1. phase = "firing" /\ phase' = "returned" /\ (\A w \in Wallets : task[w] = "done")
          /\ UNCHANGED <<seqSend, wait, chain, outcome>>
      BY <1>5 DEF Return
    <2>2. ToldPhase = "firing" /\ ToldPhase' = "returned" /\ Taken' = Taken /\ Told' = Told
      BY <2>1 DEF ToldPhase, Taken, Told
    <2>3. \A w \in Wallets : Told[w] # "none"
      BY <2>1 DEF FireInv, TaskInv, Told, Verdict
    <2> QED BY <2>1, <2>2, <2>3 DEF Promise!Return, Promise!Next
  <1>6. ASSUME NEW w \in Wallets, Mine(w)
        PROVE  Promise!Next
    BY <1>6 DEF Mine, Mined, Promise!Mine, Promise!Next, Taken, Told, ToldPhase
  <1>7. ASSUME NEW w \in Wallets, Dispatch(w) \/ Fallback(w)
        PROVE  UNCHANGED Promise!vars
    <2>1. UNCHANGED <<chain, outcome, phase>>
      BY <1>7 DEF Dispatch, Fallback
    <2>2. \A v \in Wallets : v \in Taken' <=> v \in Taken
      <3>1. CASE Dispatch(w)
        <4>1. Quiet(w)
          BY <3>1 DEF Dispatch, FireInv, TaskInv
        <4>2. seqSend'[w] # "acked" /\ \A i \in Slots : wait'[w][i] \in {"none", "sending"}
          BY <3>1 DEF Dispatch, TypeOK
        <4>3. \A v \in Wallets \ {w} : seqSend'[v] = seqSend[v] /\ wait'[v] = wait[v]
          BY <3>1 DEF Dispatch, TypeOK
        <4> QED BY <4>1, <4>2, <4>3 DEF Quiet, Taken, Accepted, Waiting
      <3>2. CASE Fallback(w)
        <4>1. seqSend[w] = "acked" /\ UNCHANGED seqSend
              /\ \A v \in Wallets \ {w} : wait'[v] = wait[v]
          BY <3>2 DEF Fallback, NeedsFallback, TypeOK
        <4> QED BY <4>1 DEF Taken
      <3> QED BY <1>7, <3>1, <3>2
    <2>3. Taken' = Taken
      BY <2>2 DEF Taken
    <2> QED BY <2>1, <2>3 DEF Told, ToldPhase
  <1>8. ASSUME NEW w \in Wallets, JitterPanics(w)
        PROVE  Promise!Next
    <2>1. /\ Quiet(w) /\ outcome[w] = "none" /\ phase = "firing"
          /\ outcome' = [outcome EXCEPT ![w] = "panicked"]
          /\ UNCHANGED <<phase, seqSend, wait, chain>>
      BY <1>8 DEF JitterPanics, FireInv, TaskInv
    <2>2. w \notin Taken /\ Taken' = Taken /\ ToldPhase = "firing" /\ ToldPhase' = ToldPhase
      BY <2>1 DEF Quiet, Taken, ToldPhase, Accepted, Waiting
    <2>3. Told[w] = "none" /\ Told' = [Told EXCEPT ![w] = "failed"]
      BY <2>1 DEF Told, TypeOK
    <2> QED BY <2>1, <2>2, <2>3
            DEF Promise!Report, Promise!Outcomes, Promise!Holds, Promise!Next
  <1>9. ASSUME NEW w \in Wallets, Sends(w)
        PROVE  Promise!Next \/ UNCHANGED Promise!vars
    BY <1>9, SendIsReach DEF Sends, Promise!Next
  <1>10. ASSUME NEW w \in Wallets, Conclude(w)
         PROVE  Promise!Next
    BY <1>10, ConcludeIsReport DEF Promise!Next
  <1>11. ASSUME NEW w \in Wallets, NEW i \in Slots,
                \/ ReceiptFound(w, i) \/ ReceiptMissed(w, i)
                \/ Poll(w, i) \/ WaitTimesOut(w, i)
         PROVE  UNCHANGED Promise!vars
    BY <1>11, WaitIsStutter
  <1> QED
    BY <1>1, <1>2, <1>3, <1>4, <1>5, <1>6, <1>7, <1>8, <1>9, <1>10, <1>11
    DEF Next, TimeOut

\* Every fire, with any number of wallets and backups, keeps the promise of
\* MintOutcome: one report per wallet, and only what is true.
THEOREM FireRefinement == Spec => KeepsPromise
  <1>1. Init => Promise!Init
    BY DEF Init, Promise!Init, Taken, Told, ToldPhase, Accepted, Waiting
  <1> QED BY <1>1, PromiseStep, FireTypeCorrect, FireInductive, PTL
          DEF Spec, KeepsPromise, Promise!Spec
==============================================================================
