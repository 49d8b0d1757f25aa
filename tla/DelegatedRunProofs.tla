------------------------- MODULE DelegatedRunProofs --------------------------
(***************************************************************************)
(* Theorems about DelegatedRun, for any set of runs that share the         *)
(* operator's account, any number of receivers and any fees.               *)
(***************************************************************************)
EXTENDS DelegatedRun, TLAPS, FiniteSetTheorems, SequenceTheorems

Looping == {"attempt", "broadcast", "receipt"}

\* What a run told and counted follows from where its loop is.
LoopInv(r) ==
    /\ stage[r] \in {"idle", "preflight", "opening", "refused", "abandoned"} =>
          current[r] = 1 /\ told[r] = <<>>
    /\ stage[r] \in Looping => Len(told[r]) + 1 = current[r]
    /\ \A i \in 1 .. Len(told[r]) : told[r][i] = "unconfirmed" => stage[r] = "complete"
    /\ stage[r] \in {"broadcast", "receipt"} => Tx(r) \in Txs
    /\ Len(told[r]) <= Count
    /\ tally[r].attempted = Len(told[r])

\* A run never believes a nonce the chain has not reached, and what it sent
\* carries the nonce it believes.
SendInv(r) ==
    /\ nonce[r] <= used
    /\ stage[r] \in {"broadcast", "receipt"} => Tx(r).nonce = nonce[r]

\* Every pending transaction is the next one; the ledger has one per nonce.
ChainInv ==
    /\ \A tx \in pool : tx.nonce = used
    /\ \A k \in 1 .. Len(ledger) : ledger[k].tx.nonce + 1 = k

RunsInOrder == TypeOK /\ \A r \in Runs : LoopInv(r)

------------------------------------------------------------------------------
(* The types.                                                              *)

LEMMA LedgerEntry ==
    ASSUME TypeOK, NEW k \in 1 .. Len(ledger)
    PROVE  ledger[k] \in [tx : Txs, status : Statuses]
  <1>1. ledger \in Seq([tx : Txs, status : Statuses])
    BY DEF TypeOK
  <1> QED BY <1>1, ElementOfSeq

\* Telling a result keeps the loop of every run in order.
LEMMA TellLoop ==
    ASSUME RunsInOrder,
           NEW r \in Runs, stage[r] \in Looping,
           NEW result \in Results, Tell(r, result), signed' = signed
    PROVE  /\ stage' \in [Runs -> {"idle", "preflight", "opening", "attempt",
                                   "broadcast", "receipt"} \union Ended]
           /\ current' \in [Runs -> Receivers]
           /\ told' \in [Runs -> Seq(Results)]
           /\ tally' \in [Runs -> [minted : Nat, attempted : 0 .. Count]]
           /\ \A q \in Runs : LoopInv(q)'
  <1> USE DelegatedRunAssumption DEF RunsInOrder
  <1>1. Len(told[r]) + 1 = current[r] /\ current[r] <= Count
    BY DEF TypeOK, LoopInv, Receivers
  <1>2. told' \in [Runs -> Seq(Results)]
    BY DEF TypeOK, Tell
  <1>3. /\ tally[r] \in [minted : Nat, attempted : 0 .. Count]
        /\ tally[r].attempted = Len(told[r])
        /\ tally[r].minted \in Nat
        /\ told[r] \in Seq(Results) /\ Len(told[r]) \in Nat
    BY DEF TypeOK, LoopInv
  <1>4. [tally[r] EXCEPT !.attempted = @ + 1,
                         !.minted = IF result = "minted" THEN @ + 1 ELSE @]
            \in [minted : Nat, attempted : 0 .. Count]
    <2>1. tally[r].attempted + 1 \in 0 .. Count
      BY <1>1, <1>3
    <2>2. (IF result = "minted" THEN tally[r].minted + 1 ELSE tally[r].minted) \in Nat
      BY <1>3
    <2> QED BY <1>3, <2>1, <2>2
  <1>5. tally' \in [Runs -> [minted : Nat, attempted : 0 .. Count]]
    BY <1>4 DEF TypeOK, Tell
  <1>6. /\ stage' \in [Runs -> {"idle", "preflight", "opening", "attempt",
                                "broadcast", "receipt"} \union Ended]
        /\ current' \in [Runs -> Receivers]
    <2>1. current[r] \in Nat /\ 1 <= current[r]
      BY DEF TypeOK, Receivers
    <2>2. current[r] # Count => current[r] + 1 \in Receivers
      BY <1>1, <2>1 DEF Receivers
    <2> QED BY <2>2 DEF TypeOK, Tell, Move, Ended
  <1>7. /\ told'[r] = Append(told[r], result)
        /\ Len(told'[r]) = Len(told[r]) + 1
        /\ \A i \in 1 .. Len(told[r]) : told'[r][i] = told[r][i]
        /\ told'[r][Len(told[r]) + 1] = result
        /\ tally'[r].attempted = Len(told[r]) + 1
    BY <1>3 DEF TypeOK, Tell
  <1>8. LoopInv(r)'
    <2>1. CASE result = "unconfirmed" \/ current[r] = Count
      <3>1. stage'[r] = "complete"
        BY <2>1 DEF TypeOK, Tell, Move
      <3> QED BY <1>1, <1>3, <1>7, <3>1 DEF LoopInv, Looping
    <2>2. CASE ~(result = "unconfirmed" \/ current[r] = Count)
      <3>1. stage'[r] = "attempt" /\ current'[r] = current[r] + 1
        BY <2>2 DEF TypeOK, Tell, Move
      <3>2. \A i \in 1 .. Len(told[r]) : told[r][i] # "unconfirmed"
        BY DEF LoopInv, Looping
      <3>3. \A i \in 1 .. Len(told'[r]) : told'[r][i] # "unconfirmed"
        BY <1>3, <1>7, <2>2, <3>2
      <3> QED BY <1>1, <1>3, <1>7, <3>1, <3>3 DEF LoopInv, Looping
    <2> QED BY <2>1, <2>2
  <1>9. ASSUME NEW q \in Runs, q # r PROVE LoopInv(q)'
    <2>1. /\ stage'[q] = stage[q] /\ current'[q] = current[q]
          /\ told'[q] = told[q] /\ tally'[q] = tally[q]
      BY <1>9 DEF TypeOK, Tell, Move
    <2> QED BY <2>1 DEF LoopInv, Tx
  <1> QED BY <1>2, <1>5, <1>6, <1>8, <1>9

LEMMA TypeStep ==
    ASSUME RunsInOrder, [Next]_vars
    PROVE  RunsInOrder'
  <1> USE DelegatedRunAssumption DEF run, chain, RunsInOrder
  <1>1. CASE UNCHANGED vars
    BY <1>1 DEF vars, TypeOK, LoopInv, Tx
  <1>2. ASSUME NEW tx \in pool, Include(tx) PROVE RunsInOrder'
    <2>1. PICK s \in Statuses : ledger' = Append(ledger, [tx |-> tx, status |-> s])
      BY <1>2 DEF Include
    <2>2. ledger' \in Seq([tx : Txs, status : Statuses]) /\ Len(ledger') = used'
      BY <1>2, <2>1 DEF TypeOK, Include
    <2> QED BY <1>2, <2>2 DEF TypeOK, Include, LoopInv, Tx
  <1>3. ASSUME NEW tx \in pool, Evict(tx) PROVE RunsInOrder'
    BY <1>3 DEF TypeOK, Evict, LoopInv, Tx
  <1>4. ASSUME NEW r \in Runs,
               Fire(r) \/ Refuse(r) \/ Start(r) \/ Abandon(r) \/ ReadNonce(r)
        PROVE  RunsInOrder'
    <2>1. TypeOK'
      BY <1>4 DEF TypeOK, Fire, Refuse, Start, Abandon, ReadNonce, Move, Ended
    <2>2. \A q \in Runs : LoopInv(q)'
      BY <1>4 DEF TypeOK, LoopInv, Looping, Tx, Fire, Refuse, Start, Abandon, ReadNonce, Move
    <2> QED BY <2>1, <2>2
  <1>5. ASSUME NEW r \in Runs, Sign(r) PROVE RunsInOrder'
    <2>1. PICK fee \in Fees :
              signed' = [signed EXCEPT ![r][current[r]] =
                            [receiver |-> current[r], nonce |-> nonce[r], fee |-> fee]]
      BY <1>5 DEF Sign
    <2>2. [receiver |-> current[r], nonce |-> nonce[r], fee |-> fee] \in Txs
      BY DEF TypeOK, Txs
    <2>3. signed' \in [Runs -> [Receivers -> Txs \union {NoTx}]]
      BY <2>1, <2>2 DEF TypeOK
    <2>4. TypeOK'
      BY <1>5, <2>3 DEF TypeOK, Sign, Move
    <2>5. \A q \in Runs : LoopInv(q)'
      BY <1>5, <2>1, <2>2 DEF TypeOK, LoopInv, Looping, Tx, Sign, Move
    <2> QED BY <2>4, <2>5
  <1>6. ASSUME NEW r \in Runs, AttemptFails(r) \/ SendFails(r)
        PROVE  RunsInOrder'
    <2>1. stage[r] \in Looping /\ Tell(r, "failed")
      BY <1>6 DEF AttemptFails, SendFails, Looping
    <2>2. "failed" \in Results
      BY DEF Results
    <2>3. SendFails(r) => Tx(r) \in Txs
      BY DEF SendFails, LoopInv
    <2>4. pool' \subseteq Txs /\ used' = used /\ ledger' = ledger /\ nonce' = nonce /\ signed' = signed
      <3>1. CASE AttemptFails(r)
        BY <3>1 DEF TypeOK, AttemptFails
      <3>2. CASE SendFails(r)
        BY <3>2, <2>3 DEF TypeOK, SendFails, Arrive
      <3> QED BY <1>6, <3>1, <3>2
    <2> QED BY <2>1, <2>2, <2>4, TellLoop DEF TypeOK
  <1>7. ASSUME NEW r \in Runs, SendAccepted(r) PROVE RunsInOrder'
    BY <1>7 DEF TypeOK, LoopInv, Looping, SendAccepted, Arrive, Move, Tx
  <1>8. ASSUME NEW r \in Runs, ReceiptFound(r) PROVE RunsInOrder'
    <2>1. PICK k \in 1 .. Len(ledger) : ledger[k].tx = Tx(r) /\ Tell(r, ledger[k].status)
      BY <1>8 DEF ReceiptFound
    <2>2. stage[r] \in Looping
      BY <1>8 DEF ReceiptFound, Looping
    <2>3. ledger[k].status \in Results
      <3>1. ledger[k] \in [tx : Txs, status : Statuses]
        BY <2>1, LedgerEntry
      <3> QED BY <3>1 DEF Results
    <2>4. nonce' \in [Runs -> Nat] /\ UNCHANGED <<signed, used, pool, ledger>>
      BY <1>8 DEF TypeOK, ReceiptFound
    <2> QED BY <2>1, <2>2, <2>3, <2>4, TellLoop DEF TypeOK
  <1>9. ASSUME NEW r \in Runs, ReceiptTimesOut(r) PROVE RunsInOrder'
    <2>1. stage[r] \in Looping /\ Tell(r, "unconfirmed") /\ "unconfirmed" \in Results
      BY <1>9 DEF ReceiptTimesOut, Looping, Results
    <2>2. UNCHANGED <<nonce, signed, used, pool, ledger>>
      BY <1>9 DEF ReceiptTimesOut
    <2> QED BY <2>1, <2>2, TellLoop DEF TypeOK
  <1> QED
    BY <1>1, <1>2, <1>3, <1>4, <1>5, <1>6, <1>7, <1>8, <1>9 DEF Next, Step

LEMMA TypeInit == Init => RunsInOrder
  BY DelegatedRunAssumption
  DEF Init, RunsInOrder, TypeOK, LoopInv, Looping, Receivers, Statuses, Results, Ended

\* Every variable keeps its type through every step.
THEOREM DelegatedTypeCorrect == Spec => []TypeOK
  <1>1. RunsInOrder /\ [Next]_vars => RunsInOrder'
    BY TypeStep
  <1>2. RunsInOrder => TypeOK
    BY DEF RunsInOrder
  <1> QED BY TypeInit, <1>1, <1>2, PTL DEF Spec

------------------------------------------------------------------------------
(* Nonces: no run is ahead of the chain.                                   *)

NoncesInOrder == ChainInv /\ \A r \in Runs : SendInv(r)

\* Telling a result sends nothing: the other runs stay where they are.
LEMMA TellMoves ==
    ASSUME TypeOK, NEW r \in Runs, NEW result, Tell(r, result)
    PROVE  /\ stage'[r] \in {"complete", "attempt"}
           /\ \A q \in Runs \ {r} : stage'[q] = stage[q] /\ current'[q] = current[q]
  BY DEF TypeOK, Tell, Move

\* A transaction of a run that a node accepts carries the next nonce.
LEMMA SentIsNext ==
    ASSUME TypeOK, NEW r \in Runs, LoopInv(r), SendInv(r),
           stage[r] = "broadcast", Acceptable(Tx(r))
    PROVE  Tx(r).nonce = used
  <1>1. Tx(r) \in Txs /\ Tx(r).nonce = nonce[r] /\ nonce[r] <= used
    BY DEF LoopInv, SendInv
  <1>2. nonce[r] \in Nat /\ used \in Nat
    BY DEF TypeOK
  <1> QED BY <1>1, <1>2 DEF Acceptable

LEMMA NonceStep ==
    ASSUME RunsInOrder, NoncesInOrder, [Next]_vars
    PROVE  NoncesInOrder'
  <1> USE DEF run, chain
  <1>0. TypeOK /\ ChainInv /\ \A r \in Runs : LoopInv(r) /\ SendInv(r)
    BY DEF RunsInOrder, NoncesInOrder
  <1>1. CASE UNCHANGED vars
    BY <1>1 DEF vars, NoncesInOrder, ChainInv, SendInv, Tx
  <1>2. ASSUME NEW tx \in pool, Include(tx) PROVE NoncesInOrder'
    <2>1. PICK s \in Statuses : ledger' = Append(ledger, [tx |-> tx, status |-> s])
      BY <1>2 DEF Include
    <2>2. Len(ledger) = used /\ used \in Nat /\ ledger \in Seq([tx : Txs, status : Statuses])
      BY <1>0 DEF TypeOK
    <2>3. /\ Len(ledger') = Len(ledger) + 1
          /\ ledger'[Len(ledger) + 1].tx.nonce = used
          /\ \A k \in 1 .. Len(ledger) : ledger'[k] = ledger[k]
      BY <1>2, <2>1, <2>2 DEF Include
    <2>4. \A k \in 1 .. Len(ledger') : ledger'[k].tx.nonce + 1 = k
      BY <1>0, <2>2, <2>3 DEF ChainInv
    <2>5. \A t \in pool' : t.nonce = used'
      BY <1>0, <1>2, <2>2 DEF ChainInv, Include
    <2>6. \A r \in Runs : SendInv(r)'
      BY <1>0, <1>2, <2>2 DEF TypeOK, SendInv, Include, Tx
    <2> QED BY <2>4, <2>5, <2>6 DEF NoncesInOrder, ChainInv
  <1>3. ASSUME NEW tx \in pool, Evict(tx) PROVE NoncesInOrder'
    BY <1>0, <1>3 DEF NoncesInOrder, ChainInv, SendInv, Evict, Tx
  <1>4. ASSUME NEW r \in Runs,
               Fire(r) \/ Refuse(r) \/ Start(r) \/ Abandon(r) \/ ReadNonce(r)
        PROVE  NoncesInOrder'
    <2>1. ChainInv'
      BY <1>0, <1>4 DEF ChainInv, Fire, Refuse, Start, Abandon, ReadNonce
    <2>2. /\ signed' = signed /\ used' = used
          /\ nonce' = nonce \/ nonce' = [nonce EXCEPT ![r] = used]
      BY <1>4 DEF Fire, Refuse, Start, Abandon, ReadNonce
    <2>3. /\ stage'[r] \notin {"broadcast", "receipt"} /\ current' = current
          /\ \A q \in Runs \ {r} : stage'[q] = stage[q]
      BY <1>0, <1>4 DEF TypeOK, Fire, Refuse, Start, Abandon, ReadNonce, Move
    <2>4. SendInv(r)'
      <3>1. nonce'[r] = nonce[r] \/ nonce'[r] = used
        BY <1>0, <2>2 DEF TypeOK
      <3>2. used <= used /\ nonce[r] <= used
        BY <1>0 DEF TypeOK, SendInv
      <3> QED BY <2>2, <2>3, <3>1, <3>2 DEF SendInv
    <2>5. ASSUME NEW q \in Runs \ {r} PROVE SendInv(q)'
      <3>1. nonce'[q] = nonce[q]
        BY <1>0, <2>2 DEF TypeOK
      <3> QED BY <1>0, <2>2, <2>3, <3>1 DEF SendInv, Tx
    <2> QED BY <2>1, <2>4, <2>5 DEF NoncesInOrder
  <1>5. ASSUME NEW r \in Runs, Sign(r) PROVE NoncesInOrder'
    <2>1. PICK fee \in Fees :
              signed' = [signed EXCEPT ![r][current[r]] =
                            [receiver |-> current[r], nonce |-> nonce[r], fee |-> fee]]
      BY <1>5 DEF Sign
    <2>2. ChainInv'
      BY <1>0, <1>5 DEF ChainInv, Sign
    <2>3. \A q \in Runs : SendInv(q)'
      BY <1>0, <1>5, <2>1 DEF TypeOK, SendInv, Tx, Sign, Move
    <2> QED BY <2>2, <2>3 DEF NoncesInOrder
  <1>6. ASSUME NEW r \in Runs, SendAccepted(r) PROVE NoncesInOrder'
    <2>1. Tx(r).nonce = used
      BY <1>0, <1>6, SentIsNext DEF SendAccepted
    <2>2. ChainInv'
      BY <1>0, <1>6, <2>1 DEF ChainInv, SendAccepted, Arrive
    <2>3. \A q \in Runs : SendInv(q)'
      BY <1>0, <1>6 DEF TypeOK, SendInv, Tx, SendAccepted, Move
    <2> QED BY <2>2, <2>3 DEF NoncesInOrder
  <1>7. ASSUME NEW r \in Runs,
               AttemptFails(r) \/ SendFails(r) \/ ReceiptTimesOut(r)
        PROVE  NoncesInOrder'
    <2>1. PICK result \in Results : Tell(r, result)
      BY <1>7 DEF AttemptFails, SendFails, ReceiptTimesOut, Results
    <2>2. /\ UNCHANGED <<nonce, signed, used, ledger>>
          /\ pool' = pool \/ (stage[r] = "broadcast" /\ Acceptable(Tx(r)) /\ Arrive(Tx(r)))
      BY <1>7 DEF AttemptFails, SendFails, ReceiptTimesOut
    <2>3. ChainInv'
      BY <1>0, <2>2, SentIsNext DEF ChainInv, Arrive
    <2>4. \A q \in Runs : SendInv(q)'
      BY <1>0, <2>1, <2>2, TellMoves DEF SendInv, Tx
    <2> QED BY <2>3, <2>4 DEF NoncesInOrder
  <1>8. ASSUME NEW r \in Runs, ReceiptFound(r) PROVE NoncesInOrder'
    <2>1. PICK k \in 1 .. Len(ledger) : ledger[k].tx = Tx(r) /\ Tell(r, ledger[k].status)
      BY <1>8 DEF ReceiptFound
    <2>2. UNCHANGED <<signed, used, pool, ledger>> /\ nonce' = [nonce EXCEPT ![r] = @ + 1]
      BY <1>8 DEF ReceiptFound
    <2>3. nonce[r] + 1 <= used
      <3>1. nonce[r] + 1 = k
        BY <1>0, <1>8, <2>1 DEF ChainInv, SendInv, ReceiptFound
      <3> QED BY <1>0, <2>1, <3>1 DEF TypeOK
    <2>4. \A q \in Runs : SendInv(q)'
      BY <1>0, <2>1, <2>2, <2>3, TellMoves DEF TypeOK, SendInv, Tx
    <2> QED BY <1>0, <2>2, <2>4 DEF NoncesInOrder, ChainInv
  <1> QED
    BY <1>1, <1>2, <1>3, <1>4, <1>5, <1>6, <1>7, <1>8 DEF Next, Step

LEMMA NonceInit == Init => NoncesInOrder
  BY DEF Init, NoncesInOrder, ChainInv, SendInv

\* Every run is in order and none is ahead of the chain.
THEOREM DelegatedInductive == Spec => [](RunsInOrder /\ NoncesInOrder)
  <1>1. RunsInOrder /\ NoncesInOrder /\ [Next]_vars
            => RunsInOrder' /\ NoncesInOrder'
    BY TypeStep, NonceStep
  <1> QED BY TypeInit, NonceInit, <1>1, PTL DEF Spec

\* However sends fail, no pending transaction waits for a nonce that no
\* transaction carries (delegated/executor.rs:40-51).
THEOREM NoNonceGapCorrect == Spec => []NoNonceGap
  <1>1. RunsInOrder /\ NoncesInOrder => NoNonceGap
    BY DEF RunsInOrder, TypeOK, NoncesInOrder, ChainInv, NoNonceGap
  <1> QED BY DelegatedInductive, <1>1, PTL

------------------------------------------------------------------------------
(* Results: a receipt told is a receipt of the transaction signed.         *)

\* The result of a receipt is the chain's word on the current transaction.
LEMMA ToldByLedger ==
    ASSUME RunsInOrder, ResultsTrue, signed' = signed, ledger' = ledger,
           NEW r \in Runs, stage[r] \in Looping,
           NEW result, Tell(r, result),
           result \in Statuses => \E k \in 1 .. Len(ledger) :
               ledger[k] = [tx |-> Tx(r), status |-> result]
    PROVE  ResultsTrue'
  <1>1. /\ Len(told[r]) + 1 = current[r]
        /\ told[r] \in Seq(Results) /\ Len(told[r]) \in Nat
    BY DEF RunsInOrder, TypeOK, LoopInv
  <1>2. /\ told'[r] = Append(told[r], result)
        /\ \A q \in Runs \ {r} : told'[q] = told[q]
    BY DEF RunsInOrder, TypeOK, Tell
  <1>3. /\ Len(told'[r]) = current[r]
        /\ told'[r][current[r]] = result
        /\ \A i \in 1 .. Len(told[r]) : told'[r][i] = told[r][i]
    BY <1>1, <1>2
  <1>4. SUFFICES ASSUME NEW q \in Runs, NEW i \in 1 .. Len(told'[q]),
                        told'[q][i] \in Statuses
                 PROVE  \E k \in 1 .. Len(ledger) :
                            ledger[k] = [tx |-> signed[q][i], status |-> told'[q][i]]
    BY DEF ResultsTrue
  <1>5. CASE q = r /\ i = current[r]
    BY <1>3, <1>4, <1>5 DEF Tx
  <1>6. CASE q # r \/ i # current[r]
    <2>1. i \in 1 .. Len(told[q]) /\ told'[q][i] = told[q][i]
      <3>1. CASE q = r
        BY <1>1, <1>3, <1>6, <3>1
      <3>2. CASE q # r
        BY <1>2, <3>2
      <3> QED BY <3>1, <3>2
    <2> QED BY <1>4, <2>1 DEF ResultsTrue
  <1> QED BY <1>5, <1>6

LEMMA ResultsStep ==
    ASSUME RunsInOrder, ResultsTrue, [Next]_vars
    PROVE  ResultsTrue'
  <1> USE DEF run, chain
  <1>1. CASE UNCHANGED <<told, signed, ledger>>
    BY <1>1 DEF ResultsTrue
  <1>2. ASSUME NEW tx \in pool, Include(tx) PROVE ResultsTrue'
    <2>1. told' = told /\ signed' = signed
      BY <1>2 DEF Include
    <2>2. /\ Len(ledger) \in Nat /\ Len(ledger') = Len(ledger) + 1
          /\ \A k \in 1 .. Len(ledger) : ledger'[k] = ledger[k]
      BY <1>2 DEF RunsInOrder, TypeOK, Include
    <2> QED BY <2>1, <2>2 DEF ResultsTrue
  <1>3. ASSUME NEW r \in Runs, Sign(r) PROVE ResultsTrue'
    <2>1. /\ Len(told[r]) + 1 = current[r] /\ Len(told[r]) \in Nat
          /\ told' = told /\ ledger' = ledger
      BY <1>3 DEF RunsInOrder, TypeOK, LoopInv, Looping, Sign
    <2>2. \A q \in Runs : \A i \in Receivers :
              q # r \/ i # current[r] => signed'[q][i] = signed[q][i]
      BY <1>3 DEF RunsInOrder, TypeOK, Sign
    <2>3. \A q \in Runs : \A i \in 1 .. Len(told[q]) :
              signed'[q][i] = signed[q][i]
      <3>1. ASSUME NEW q \in Runs, NEW i \in 1 .. Len(told[q])
            PROVE  i \in Receivers /\ (q # r \/ i # current[r])
        <4>1. Len(told[q]) \in Nat /\ Len(told[q]) <= Count
          BY DEF RunsInOrder, TypeOK, LoopInv
        <4> QED BY <2>1, <4>1, DelegatedRunAssumption DEF Receivers
      <3> QED BY <2>2, <3>1
    <2> QED BY <2>1, <2>3 DEF ResultsTrue
  <1>4. ASSUME NEW r \in Runs,
               AttemptFails(r) \/ SendFails(r) \/ ReceiptTimesOut(r)
        PROVE  ResultsTrue'
    <2>1. PICK result \in {"failed", "unconfirmed"} : Tell(r, result)
      BY <1>4 DEF AttemptFails, SendFails, ReceiptTimesOut
    <2>2. stage[r] \in Looping /\ signed' = signed /\ ledger' = ledger
      BY <1>4 DEF AttemptFails, SendFails, ReceiptTimesOut, Looping
    <2>3. result \notin Statuses
      BY DEF Statuses
    <2> QED BY <2>1, <2>2, <2>3, ToldByLedger
  <1>5. ASSUME NEW r \in Runs, ReceiptFound(r) PROVE ResultsTrue'
    <2>1. PICK k \in 1 .. Len(ledger) : ledger[k].tx = Tx(r) /\ Tell(r, ledger[k].status)
      BY <1>5 DEF ReceiptFound
    <2>2. stage[r] \in Looping /\ signed' = signed /\ ledger' = ledger
      BY <1>5 DEF ReceiptFound, Looping
    <2>3. ledger[k] = [tx |-> Tx(r), status |-> ledger[k].status]
      <3>1. ledger[k] \in [tx : Txs, status : Statuses]
        BY LedgerEntry DEF RunsInOrder
      <3> QED BY <2>1, <3>1
    <2> QED BY <2>1, <2>2, <2>3, ToldByLedger
  <1>6. ASSUME NEW r \in Runs,
               \/ Fire(r) \/ Refuse(r) \/ Start(r) \/ Abandon(r)
               \/ ReadNonce(r) \/ SendAccepted(r)
        PROVE  UNCHANGED <<told, signed, ledger>>
    BY <1>6 DEF Fire, Refuse, Start, Abandon, ReadNonce, SendAccepted
  <1>7. ASSUME NEW tx \in pool, Evict(tx) PROVE UNCHANGED <<told, signed, ledger>>
    BY <1>7 DEF Evict
  <1>8. UNCHANGED vars => UNCHANGED <<told, signed, ledger>>
    BY DEF vars
  <1> QED
    BY <1>1, <1>2, <1>3, <1>4, <1>5, <1>6, <1>7, <1>8 DEF Next, Step

\* Every receipt a run told is on the chain, for the transaction it signed
\* (delegated/executor.rs, the receipt's status).
THEOREM ResultsTrueCorrect == Spec => []ResultsTrue
  <1>1. Init => ResultsTrue
    BY DEF Init, ResultsTrue
  <1>2. RunsInOrder /\ ResultsTrue /\ [Next]_vars => ResultsTrue'
    BY ResultsStep
  <1> QED BY <1>1, <1>2, DelegatedInductive, PTL DEF Spec

\* A run signs its next transaction only when the earlier ones are settled,
\* failed sends excepted (delegated/executor.rs:34-51).
THEOREM SerialCorrect == Spec => []Serial
  <1>1. ASSUME RunsInOrder, NoncesInOrder, ResultsTrue PROVE Serial
    <2> SUFFICES ASSUME NEW r \in Runs, NEW i \in Receivers,
                        stage[r] \in {"attempt", "broadcast"}, i < current[r],
                        signed[r][i] \in pool
                 PROVE  told[r][i] = "failed"
      BY DEF Serial
    <2>1. i \in 1 .. Len(told[r]) /\ told[r][i] \in Results
      <3>1. /\ Len(told[r]) + 1 = current[r]
            /\ told[r] \in Seq(Results) /\ Len(told[r]) \in Nat
        BY <1>1 DEF RunsInOrder, TypeOK, LoopInv, Looping
      <3>2. i \in 1 .. Len(told[r])
        BY <3>1 DEF Receivers
      <3> QED BY <3>1, <3>2, ElementOfSeq
    <2>2. told[r][i] # "unconfirmed"
      BY <1>1, <2>1 DEF RunsInOrder, LoopInv
    <2>3. ASSUME told[r][i] \in Statuses PROVE FALSE
      <3>1. PICK k \in 1 .. Len(ledger) :
                ledger[k] = [tx |-> signed[r][i], status |-> told[r][i]]
        BY <1>1, <2>1, <2>3 DEF ResultsTrue
      <3>2. signed[r][i].nonce = used /\ signed[r][i].nonce + 1 = k
        BY <1>1, <3>1 DEF NoncesInOrder, ChainInv
      <3> QED BY <1>1, <3>2 DEF RunsInOrder, TypeOK
    <2> QED BY <2>1, <2>2, <2>3 DEF Results
  <1> QED BY <1>1, DelegatedInductive, ResultsTrueCorrect, PTL

------------------------------------------------------------------------------
(* Each run implements SerialMint.                                         *)

MintedIn(results) == {i \in 1 .. Len(results) : results[i] = "minted"}

\* One more result counts when it is a mint.
LEMMA MintedAppend ==
    ASSUME NEW s \in Seq(Results), NEW x \in Results
    PROVE  /\ Cardinality(MintedIn(s)) \in Nat
           /\ Cardinality(MintedIn(Append(s, x))) =
                 IF x = "minted" THEN Cardinality(MintedIn(s)) + 1
                                 ELSE Cardinality(MintedIn(s))
  <1>1. Len(s) \in Nat /\ Len(Append(s, x)) = Len(s) + 1
    OBVIOUS
  <1>2. IsFiniteSet(MintedIn(s)) /\ Cardinality(MintedIn(s)) \in Nat
    <2>1. IsFiniteSet(1 .. Len(s))
      BY <1>1, FS_Interval
    <2> QED BY <2>1, FS_Subset, FS_CardinalityType DEF MintedIn
  <1>3. /\ \A i \in 1 .. Len(s) : Append(s, x)[i] = s[i]
        /\ Append(s, x)[Len(s) + 1] = x
    OBVIOUS
  <1>4. CASE x = "minted"
    <2>1. MintedIn(Append(s, x)) = MintedIn(s) \union {Len(s) + 1}
      BY <1>1, <1>3, <1>4 DEF MintedIn
    <2>2. Len(s) + 1 \notin MintedIn(s)
      BY <1>1 DEF MintedIn
    <2> QED BY <1>2, <1>4, <2>1, <2>2, FS_AddElement
  <1>5. CASE x # "minted"
    <2>1. MintedIn(Append(s, x)) = MintedIn(s)
      BY <1>1, <1>3, <1>5 DEF MintedIn
    <2> QED BY <1>2, <1>5, <2>1
  <1> QED BY <1>4, <1>5

\* The tally counts the mints a run told, and only a run that is over or whose
\* results are complete has told all of them.
CountInv(r) ==
    /\ tally[r].minted = Cardinality(MintedIn(told[r]))
    /\ stage[r] = "complete" => told[r] # <<>>

Counted == \A r \in Runs : CountInv(r)

\* What one result does to the run that tells it, seen as SerialMint.
LEMMA TellAnnounces ==
    ASSUME RunsInOrder, Counted, NEW r \in Runs, stage[r] \in Looping,
           NEW result \in Results, Tell(r, result)
    PROVE  /\ Announced(r)!Tell
           /\ \A q \in Runs \ {r} : UNCHANGED Announced(q)!vars
           /\ Counted'
  <1> DEFINE minted == Cardinality(MintedIn(told[r]))
             attempted == Len(told[r])
  <1>1. /\ Len(told[r]) + 1 = current[r] /\ current[r] <= Count
        /\ told[r] \in Seq(Results) /\ Len(told[r]) \in Nat
        /\ tally[r] \in [minted : Nat, attempted : 0 .. Count]
        /\ tally[r].minted = minted /\ tally[r].attempted = attempted
        /\ \A i \in 1 .. Len(told[r]) : told[r][i] # "unconfirmed"
    <2>1. current[r] <= Count
      BY DelegatedRunAssumption DEF RunsInOrder, TypeOK, Receivers
    <2> QED BY <2>1 DEF RunsInOrder, TypeOK, LoopInv, Counted, CountInv, Looping
  <1>2. /\ told'[r] = Append(told[r], result)
        /\ Len(told'[r]) = current[r]
        /\ \A q \in Runs \ {r} : /\ told'[q] = told[q] /\ tally'[q] = tally[q]
                                 /\ stage'[q] = stage[q]
    BY <1>1 DEF RunsInOrder, TypeOK, Tell, Move
  <1>3. tally'[r] = [minted |-> Cardinality(MintedIn(told'[r])),
                     attempted |-> Len(told'[r])]
    <2>1. tally'[r] = [tally[r] EXCEPT !.attempted = @ + 1,
                                       !.minted = IF result = "minted" THEN @ + 1 ELSE @]
      BY DEF RunsInOrder, TypeOK, Tell
    <2>2. Cardinality(MintedIn(told'[r])) = IF result = "minted" THEN minted + 1 ELSE minted
      BY <1>1, <1>2, MintedAppend
    <2>3. tally'[r] = [minted |-> IF result = "minted" THEN minted + 1 ELSE minted,
                       attempted |-> attempted + 1]
      BY <1>1, <2>1
    <2> QED BY <1>1, <1>2, <2>2, <2>3
  <1>4. stage'[r] = IF result = "unconfirmed" \/ Len(told'[r]) = Count
                    THEN "complete" ELSE "attempt"
    BY <1>1, <1>2 DEF RunsInOrder, TypeOK, Tell, Move
  <1>5. PhaseOf(r) = "open" /\ TallyOf(r) = Announced(r)!NoTally
    BY DEF PhaseOf, TallyOf, Looping, Ended, Announced!NoTally
  <1>6. Announced(r)!Tell
    <2>1. Len(told[r]) < Count /\ Announced(r)!Sure
      BY <1>1, DelegatedRunAssumption DEF Announced!Sure
    <2>2. CASE result = "unconfirmed" \/ Len(told'[r]) = Count
      <3>1. stage'[r] = "complete"
        BY <1>4, <2>2
      <3>2. PhaseOf(r)' = "complete" /\ TallyOf(r)' = tally'[r]
        BY <3>1 DEF PhaseOf, TallyOf, Ended
      <3>3. Announced(r)!Complete(told'[r])
        BY <1>3, <3>2 DEF Announced!Complete, MintedIn, Cardinality, Announced!Cardinality
      <3> QED BY <1>2, <1>5, <2>1, <2>2, <3>3
              DEF Announced!Tell, Announced!Results, Results, Statuses
    <2>3. CASE ~(result = "unconfirmed" \/ Len(told'[r]) = Count)
      <3>1. stage'[r] = "attempt"
        BY <1>4, <2>3
      <3>2. PhaseOf(r)' = "open" /\ TallyOf(r)' = Announced(r)!NoTally
        BY <3>1 DEF PhaseOf, TallyOf, Ended, Announced!NoTally
      <3> QED BY <1>2, <1>5, <2>1, <2>3, <3>2
              DEF Announced!Tell, Announced!Results, Results, Statuses
    <2> QED BY <2>2, <2>3
  <1>7. \A q \in Runs \ {r} : UNCHANGED Announced(q)!vars
    BY <1>2 DEF Announced!vars, PhaseOf, TallyOf
  <1>8. Counted'
    <2>1. CountInv(r)'
      BY <1>1, <1>2, <1>3 DEF CountInv
    <2>2. \A q \in Runs \ {r} : CountInv(q)'
      BY <1>2 DEF Counted, CountInv
    <2> QED BY <2>1, <2>2 DEF Counted
  <1> QED BY <1>6, <1>7, <1>8

\* What a step shows of a run that neither moves nor tells.
LEMMA Silent ==
    ASSUME NEW q \in Runs,
           stage'[q] = stage[q], told'[q] = told[q], tally'[q] = tally[q]
    PROVE  UNCHANGED Announced(q)!vars
  BY DEF Announced!vars, PhaseOf, TallyOf

\* Only the results and the tally count, and only for a run that is complete.
LEMMA CountedStays ==
    ASSUME Counted, told' = told, tally' = tally,
           \A q \in Runs : stage'[q] = "complete" => stage[q] = "complete"
    PROVE  Counted'
  BY DEF Counted, CountInv

LEMMA AnnounceStep ==
    ASSUME RunsInOrder, Counted, [Next]_vars
    PROVE  /\ \A r \in Runs : [Announced(r)!Next]_(Announced(r)!vars)
           /\ Counted'
  <1> USE DEF run, chain
  <1>1. CASE UNCHANGED <<stage, told, tally>>
    BY <1>1, Silent DEF Counted, CountInv
  <1>2. ASSUME NEW r \in Runs,
               \/ ReadNonce(r) \/ Sign(r) \/ SendAccepted(r)
               \/ Fire(r) \/ Refuse(r) \/ Start(r) \/ Abandon(r)
        PROVE  /\ \A q \in Runs : [Announced(q)!Next]_(Announced(q)!vars)
               /\ Counted'
    <2>1. told' = told /\ tally' = tally
      BY <1>2 DEF ReadNonce, Sign, SendAccepted, Fire, Refuse, Start, Abandon
    <2>2. \A q \in Runs \ {r} : stage'[q] = stage[q]
      BY <1>2 DEF RunsInOrder, TypeOK, Move,
                  ReadNonce, Sign, SendAccepted, Fire, Refuse, Start, Abandon
    <2>3. \A q \in Runs \ {r} : UNCHANGED Announced(q)!vars
      BY <2>1, <2>2, Silent
    <2>4. \/ stage[r] = "idle" /\ stage'[r] = "preflight"
          \/ stage[r] = "opening" /\ stage'[r] = "attempt"
          \/ stage[r] = "attempt" /\ stage'[r] = "broadcast"
          \/ stage[r] = "broadcast" /\ stage'[r] = "receipt"
          \/ stage[r] = "preflight" /\ stage'[r] = "refused"
          \/ stage[r] = "preflight" /\ stage'[r] = "opening"
          \/ stage[r] = "opening" /\ stage'[r] = "abandoned"
      BY <1>2 DEF RunsInOrder, TypeOK, Move,
                  ReadNonce, Sign, SendAccepted, Fire, Refuse, Start, Abandon
    <2>5. told[r] = <<>> \/ stage[r] \notin {"preflight", "opening"}
      BY DEF RunsInOrder, LoopInv
    <2>6. [Announced(r)!Next]_(Announced(r)!vars)
      <3>1. CASE PhaseOf(r)' = PhaseOf(r) /\ TallyOf(r)' = TallyOf(r)
        BY <2>1, <3>1 DEF Announced!vars
      <3>2. CASE stage[r] = "preflight" /\ stage'[r] = "refused"
        <4>1. PhaseOf(r) = "new" /\ PhaseOf(r)' = "refused" /\ TallyOf(r)' = TallyOf(r)
          BY <3>2 DEF PhaseOf, TallyOf, Ended
        <4> QED BY <2>1, <4>1 DEF Announced!Next, Announced!Refuse
      <3>3. CASE stage[r] = "preflight" /\ stage'[r] = "opening"
        <4>1. PhaseOf(r) = "new" /\ PhaseOf(r)' = "open" /\ TallyOf(r)' = TallyOf(r)
          BY <3>3 DEF PhaseOf, TallyOf, Ended
        <4> QED BY <2>1, <4>1 DEF Announced!Next, Announced!Start
      <3>4. CASE stage[r] = "opening" /\ stage'[r] = "abandoned"
        <4>1. PhaseOf(r) = "open" /\ PhaseOf(r)' = "abandoned" /\ TallyOf(r)' = TallyOf(r)
          BY <3>4 DEF PhaseOf, TallyOf, Ended
        <4> QED BY <2>1, <2>5, <3>4, <4>1 DEF Announced!Next, Announced!Abandon
      <3>5. CASE \/ stage[r] = "idle" /\ stage'[r] = "preflight"
                 \/ stage[r] = "opening" /\ stage'[r] = "attempt"
                 \/ stage[r] = "attempt" /\ stage'[r] = "broadcast"
                 \/ stage[r] = "broadcast" /\ stage'[r] = "receipt"
        <4>1. PhaseOf(r)' = PhaseOf(r) /\ TallyOf(r)' = TallyOf(r)
          BY <3>5 DEF PhaseOf, TallyOf, Ended
        <4> QED BY <3>1, <4>1
      <3> QED BY <2>4, <3>2, <3>3, <3>4, <3>5
    <2>7. Counted'
      <3>1. \A q \in Runs : stage'[q] = "complete" => stage[q] = "complete"
        BY <2>2, <2>4
      <3> QED BY <2>1, <3>1, CountedStays
    <2> QED BY <2>3, <2>6, <2>7
  <1>3. ASSUME NEW r \in Runs,
               AttemptFails(r) \/ SendFails(r) \/ ReceiptFound(r) \/ ReceiptTimesOut(r)
        PROVE  /\ \A q \in Runs : [Announced(q)!Next]_(Announced(q)!vars)
               /\ Counted'
    <2>1. stage[r] \in Looping
      BY <1>3 DEF AttemptFails, SendFails, ReceiptFound, ReceiptTimesOut, Looping
    <2>2. \E result \in Results : Tell(r, result)
      <3>1. CASE ReceiptFound(r)
        <4>1. PICK k \in 1 .. Len(ledger) : Tell(r, ledger[k].status)
          BY <3>1 DEF ReceiptFound
        <4>2. ledger[k].status \in Statuses
          BY LedgerEntry DEF RunsInOrder
        <4> QED BY <4>1, <4>2 DEF Results
      <3>2. CASE AttemptFails(r) \/ SendFails(r) \/ ReceiptTimesOut(r)
        BY <3>2 DEF AttemptFails, SendFails, ReceiptTimesOut, Results
      <3> QED BY <1>3, <3>1, <3>2
    <2>3. PICK result \in Results : Tell(r, result)
      BY <2>2
    <2>4. /\ Announced(r)!Tell
          /\ \A q \in Runs \ {r} : UNCHANGED Announced(q)!vars
          /\ Counted'
      BY <2>1, <2>3, TellAnnounces
    <2> QED BY <2>4 DEF Announced!Next
  <1>4. UNCHANGED vars => UNCHANGED <<stage, told, tally>>
    BY DEF vars
  <1>5. ASSUME NEW tx \in pool, Include(tx) \/ Evict(tx)
        PROVE  UNCHANGED <<stage, told, tally>>
    BY <1>5 DEF Include, Evict
  <1> QED BY <1>1, <1>2, <1>3, <1>4, <1>5 DEF Next, Step

\* A run starts, tells each result once and in order, stops when it cannot
\* know, and closes with the tally of what it told.
THEOREM DelegatedRefinement == Spec => AnnouncesSerially
  <1>1. Init => Counted /\ \A r \in Runs : Announced(r)!Init
    <2> SUFFICES ASSUME Init, NEW r \in Runs PROVE CountInv(r) /\ Announced(r)!Init
      BY DEF Counted
    <2>1. stage[r] = "idle" /\ told[r] = <<>> /\ tally[r].minted = 0
      BY DEF Init
    <2>2. MintedIn(told[r]) = {}
      BY <2>1 DEF MintedIn
    <2>3. CountInv(r)
      <3>1. Cardinality(MintedIn(told[r])) = 0
        BY <2>2, FS_EmptySet
      <3> QED BY <2>1, <3>1 DEF CountInv
    <2>4. PhaseOf(r) = "new" /\ TallyOf(r) = Announced(r)!NoTally
      BY <2>1 DEF PhaseOf, TallyOf, Ended, Announced!NoTally
    <2> QED BY <2>1, <2>3, <2>4 DEF Announced!Init
  <1>2. RunsInOrder /\ Counted /\ [Next]_vars
            => /\ [\A r \in Runs : [Announced(r)!Next]_(Announced(r)!vars)]_vars
               /\ Counted'
    BY AnnounceStep
  <1> QED BY <1>1, <1>2, DelegatedInductive, PTL DEF Spec, AnnouncesSerially
==============================================================================
