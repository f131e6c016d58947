------------------------ MODULE WithdrawServiceProofs ------------------------
(***************************************************************************)
(* The safety properties of WithdrawService, for every number of callers,  *)
(* every configuration the assumptions admit, every answer of the node and *)
(* any number of disturbances.                                             *)
(***************************************************************************)
EXTENDS WithdrawService, GasPolicyProofs

\* The rows the service inserts are rows of the table.
LEMMA RowFacts ==
  /\ [status |-> "noop", tx |-> None] \in Row
  /\ [status |-> "simulation_failed", tx |-> None] \in Row
  /\ \A t \in Tx : [status |-> "submitted", tx |-> t] \in Row
  BY DEF Row

\* A caller outside ExecuteFullExit has the empty locals, which are locals.
LEMMA NoCallType == NoCall \in Call
  BY DEF NoCall, Call, NoFeeCaps, FeeCaps

\* The transaction a call has built is a transaction.
LEMMA TxOfType ==
  ASSUME TypeOK, NEW c \in Callers
  PROVE  TxOf(c) \in Tx
  BY DEF TypeOK, TxOf, Tx, Call

\* The type of what counts disturbances.
DisturbType == happened \subseteq Kinds /\ left \in 0..MaxDisturbances

\* A disturbance is counted and its kind remembered.
LEMMA DisturbFacts ==
  ASSUME TypeOK, NEW kind, Disturb(kind)
  PROVE  DisturbType'
  BY ChainAssumption DEF TypeOK, Disturb, DisturbType

\* A step that is no disturbance leaves the count alone.
LEMMA CalmFacts ==
  ASSUME TypeOK, UNCHANGED disturbances
  PROVE  DisturbType'
  BY DEF TypeOK, disturbances, DisturbType

\* The type of what a call changes of its own.
CallType ==
  /\ holder \in Callers \cup {None}
  /\ pc \in [Callers -> Steps]
  /\ call \in [Callers -> Call]

\* A return of ExecuteFullExit leaves the lock, the program counters and the
\* locals in their types.
LEMMA ReturnFacts ==
  ASSUME TypeOK, NEW c \in Callers, Return(c)
  PROVE  CallType'
  BY NoCallType DEF TypeOK, Return, Goto, CallType, Steps

-----------------------------------------------------------------------------

\* Every step of every action keeps the types.
LEMMA TypeStep == TypeOK /\ [Next]_vars => TypeOK'
<1> SUFFICES ASSUME TypeOK, [Next]_vars PROVE TypeOK'
  OBVIOUS
<1> USE ServiceAssumption, ChainAssumption
<1>1. ASSUME NEW c \in Callers, Begin(c) PROVE TypeOK'
  <2>1. [NoCall EXCEPT !.waited = pendingAge] \in Call
    BY DEF TypeOK, NoCall, Call, NoFeeCaps, FeeCaps
  <2>2. CallType'
    BY <1>1, <2>1 DEF Begin, Lock, Goto, TypeOK, CallType, Steps
  <2>3. QED
    BY <1>1, <2>2 DEF Begin, TypeOK, CallType, chainVars, disturbances
<1>2. ASSUME NEW c \in Callers, ReadPosition(c) PROVE TypeOK'
  <2>1. DisturbType'
    BY <1>2, DisturbFacts, CalmFacts DEF ReadPosition
  <2>2. CallType'
    BY <1>2 DEF ReadPosition, Goto, TypeOK, CallType, Steps, Call
  <2>3. QED
    BY <1>2, <2>1, <2>2 DEF ReadPosition, TypeOK, CallType, DisturbType
<1>3. ASSUME NEW c \in Callers, RecordNoop(c) PROVE TypeOK'
  <2>1. DisturbType'
    BY <1>3, DisturbFacts, CalmFacts DEF RecordNoop
  <2>2. attempts' \subseteq Row
    BY <1>3, RowFacts DEF RecordNoop, TypeOK
  <2>3. CallType'
    BY <1>3, ReturnFacts DEF RecordNoop
  <2>4. QED
    BY <1>3, <2>1, <2>2, <2>3 DEF RecordNoop, TypeOK, CallType, DisturbType
<1>4. ASSUME NEW c \in Callers, Simulate(c) PROVE TypeOK'
  <2>1. ASSUME pending # None PROVE Replacement(c) \in Call
    <3>1. /\ pending.nonce \in Nat
          /\ Bumped(pending.fees) \in FeeCaps
      BY <2>1, BumpedType DEF TypeOK, Tx
    <3>2. QED
      BY <3>1 DEF Replacement, TypeOK, Call
  <2>2. CallType'
    <3>1. CASE Return(c)
      BY <3>1, ReturnFacts
    <3>2. CASE /\ pending # None
               /\ call' = [call EXCEPT ![c] = Replacement(c)]
               /\ Goto(c, "send")
               /\ UNCHANGED holder
      BY <3>2, <2>1 DEF Goto, TypeOK, CallType, Steps
    <3>3. CASE Goto(c, "nonce") /\ UNCHANGED <<call, holder>>
      BY <3>3 DEF Goto, TypeOK, CallType, Steps
    <3>4. QED
      BY <1>4, <3>1, <3>2, <3>3 DEF Simulate
  <2>3. DisturbType'
    BY <1>4, DisturbFacts, CalmFacts DEF Simulate
  <2>4. QED
    BY <1>4, <2>2, <2>3 DEF Simulate, TypeOK, CallType, DisturbType
<1>5. ASSUME NEW c \in Callers, SimulateFails(c) PROVE TypeOK'
  <2>1. DisturbType'
    BY <1>5, DisturbFacts, CalmFacts DEF SimulateFails
  <2>2. QED
    BY <1>5, <2>1 DEF SimulateFails, Goto, TypeOK, DisturbType, Steps
<1>6. ASSUME NEW c \in Callers, RecordSimulationFailed(c) PROVE TypeOK'
  <2>1. DisturbType'
    BY <1>6, DisturbFacts, CalmFacts DEF RecordSimulationFailed
  <2>2. attempts' \subseteq Row
    BY <1>6, RowFacts DEF RecordSimulationFailed, TypeOK
  <2>3. CallType'
    BY <1>6, ReturnFacts DEF RecordSimulationFailed
  <2>4. QED
    BY <1>6, <2>1, <2>2, <2>3 DEF RecordSimulationFailed, TypeOK, CallType, DisturbType
<1>7. ASSUME NEW c \in Callers, ReadNonce(c) PROVE TypeOK'
  <2>1. DisturbType'
    BY <1>7, DisturbFacts, CalmFacts DEF ReadNonce
  <2>2. PendingNonceAt \cup LaggingNonceAt \subseteq Nat
    BY DEF PendingNonceAt, LaggingNonceAt, TypeOK, Tx
  <2>3. CallType'
    BY <1>7, <2>2 DEF ReadNonce, Goto, TypeOK, CallType, Steps, Call
  <2>4. QED
    BY <1>7, <2>1, <2>3 DEF ReadNonce, TypeOK, CallType, DisturbType
<1>8. ASSUME NEW c \in Callers, ReadGasPrice(c) PROVE TypeOK'
  <2>1. PICK gasPrice \in GasPrices :
          \/ /\ call' = [call EXCEPT ![c].fees = [NoFeeCaps EXCEPT !.MaxFeePerGas = gasPrice]]
             /\ Goto(c, "tip")
             /\ UNCHANGED holder
          \/ Return(c)
    BY <1>8 DEF ReadGasPrice
  <2>2. [NoFeeCaps EXCEPT !.MaxFeePerGas = gasPrice] \in FeeCaps
    BY DEF NoFeeCaps, FeeCaps
  <2>3. CallType'
    <3>1. CASE Return(c)
      BY <3>1, ReturnFacts
    <3>2. CASE /\ call' = [call EXCEPT ![c].fees = [NoFeeCaps EXCEPT !.MaxFeePerGas = gasPrice]]
               /\ Goto(c, "tip")
               /\ UNCHANGED holder
      BY <3>2, <2>2 DEF Goto, TypeOK, CallType, Steps, Call
    <3>3. QED
      BY <2>1, <3>1, <3>2
  <2>4. QED
    BY <1>8, <2>3 DEF ReadGasPrice, TypeOK, CallType, chainVars, disturbances
<1>9. ASSUME NEW c \in Callers, ReadTipCap(c) PROVE TypeOK'
  <2> DEFINE gasPrice == call[c].fees.MaxFeePerGas
  <2>1. PICK tipCap \in TipCaps :
          \/ /\ call' = [call EXCEPT ![c].fees = initialFeeCaps(gasPrice, tipCap)]
             /\ Goto(c, "send")
             /\ UNCHANGED holder
          \/ Return(c)
    BY <1>9 DEF ReadTipCap
  <2>2. gasPrice \in Nat
    BY DEF TypeOK, Call, FeeCaps
  <2> HIDE DEF gasPrice
  <2>3. initialFeeCaps(gasPrice, tipCap) \in FeeCaps
    BY <2>2, InitialType
  <2>4. CallType'
    <3>1. CASE Return(c)
      BY <3>1, ReturnFacts
    <3>2. CASE /\ call' = [call EXCEPT ![c].fees = initialFeeCaps(gasPrice, tipCap)]
               /\ Goto(c, "send")
               /\ UNCHANGED holder
      BY <3>2, <2>3 DEF Goto, TypeOK, CallType, Steps, Call
    <3>3. QED
      BY <2>1, <3>1, <3>2
  <2>5. QED
    BY <1>9, <2>4 DEF ReadTipCap, TypeOK, CallType, chainVars, disturbances
<1>10. ASSUME NEW c \in Callers, PreviewRedeem(c) PROVE TypeOK'
  BY <1>10 DEF PreviewRedeem, Goto, TypeOK, Steps, chainVars, disturbances
<1>11. ASSUME NEW c \in Callers, Send(c) PROVE TypeOK'
  <2>1. TxOf(c) \in Tx
    BY TxOfType
  <2>2. CallType'
    BY <1>11, ReturnFacts DEF Send, Goto, TypeOK, CallType, Steps
  <2>3. pool' \subseteq Tx /\ pending' \in Tx \cup {None} /\ pendingAge' \in 0..ReplacementTimeout
    BY <1>11, <2>1 DEF Send, Broadcast, Remember, TypeOK
  <2>4. QED
    BY <1>11, <2>2, <2>3 DEF Send, TypeOK, CallType, disturbances
<1>12. ASSUME NEW c \in Callers, RecordSubmitted(c) PROVE TypeOK'
  <2>1. DisturbType'
    BY <1>12, DisturbFacts, CalmFacts DEF RecordSubmitted
  <2>2. attempts' \subseteq Row
    BY <1>12, RowFacts, TxOfType DEF RecordSubmitted, TypeOK
  <2>3. CallType'
    BY <1>12, ReturnFacts DEF RecordSubmitted
  <2>4. QED
    BY <1>12, <2>1, <2>2, <2>3 DEF RecordSubmitted, TypeOK, CallType, DisturbType
<1>13. ASSUME NEW c \in Callers, SendLosesReply(c) PROVE TypeOK'
  <2>1. DisturbType' /\ CallType'
    BY <1>13, DisturbFacts, ReturnFacts DEF SendLosesReply
  <2>2. pool' \subseteq Tx
    BY <1>13, TxOfType DEF SendLosesReply, Broadcast, TypeOK
  <2>3. QED
    BY <1>13, <2>1, <2>2 DEF SendLosesReply, TypeOK, CallType, DisturbType
<1>14. ASSUME NEW c \in Callers, Fail(c) PROVE TypeOK'
  <2>1. DisturbType' /\ CallType'
    BY <1>14, DisturbFacts, ReturnFacts DEF Fail
  <2>2. QED
    BY <1>14, <2>1 DEF Fail, TypeOK, CallType, DisturbType
<1>15. ASSUME NEW t \in pool, Mine(t), UNCHANGED serviceVars PROVE TypeOK'
  BY <1>15 DEF Mine, TypeOK, Tx, serviceVars, disturbances
<1>16. ASSUME OwnerTx, UNCHANGED serviceVars PROVE TypeOK'
  BY <1>16, DisturbFacts DEF OwnerTx, TypeOK, DisturbType, serviceVars
<1>17. ASSUME Deposit, UNCHANGED serviceVars PROVE TypeOK'
  BY <1>17, DisturbFacts DEF Deposit, TypeOK, DisturbType, serviceVars
<1>18. ASSUME Liquidity, UNCHANGED serviceVars PROVE TypeOK'
  BY <1>18, DisturbFacts DEF Liquidity, TypeOK, DisturbType, serviceVars
<1>19. ASSUME Price, UNCHANGED serviceVars PROVE TypeOK'
  BY <1>19, DisturbFacts DEF Price, TypeOK, DisturbType, serviceVars
<1>20. ASSUME Evict, UNCHANGED serviceVars PROVE TypeOK'
  BY <1>20, DisturbFacts DEF Evict, TypeOK, DisturbType, serviceVars
<1>21. ASSUME Tick PROVE TypeOK'
  BY <1>21 DEF Tick, TypeOK, chainVars, disturbances
<1>22. ASSUME Crash PROVE TypeOK'
  BY <1>22, DisturbFacts, NoCallType DEF Crash, TypeOK, DisturbType, Steps
<1>23. ASSUME UNCHANGED vars PROVE TypeOK'
  BY <1>23 DEF vars, chainVars, serviceVars, disturbances, TypeOK
<1>24. QED
  BY <1>1, <1>2, <1>3, <1>4, <1>5, <1>6, <1>7, <1>8, <1>11, <1>12, <1>13, <1>14,
     <1>15, <1>16, <1>17, <1>18, <1>19, <1>20, <1>21, <1>22, <1>23, <1>9, <1>10
     DEF Next, Step, ChainStep, ChainNext

-----------------------------------------------------------------------------

\* The steps of one caller.
Act(c) == Step(c) \/ SendLosesReply(c) \/ Fail(c)

\* A caller inside ExecuteFullExit, and one that enters it, is alone there.
LEMMA Alone ==
  ASSUME TypeOK, Exclusive, NEW c \in Callers, Act(c), NEW d \in Callers, d # c
  PROVE  pc[d] = "idle" /\ pc'[d] = "idle"
<1>1. holder = None \/ pc[c] # "idle"
  BY DEF Act, Step, Begin, Lock, ReadPosition, RecordNoop, PreviewRedeem, Simulate,
         SimulateFails,
         RecordSimulationFailed, ReadNonce, ReadGasPrice, ReadTipCap, Send, RecordSubmitted,
         SendLosesReply, Fail
<1>2. pc[d] = "idle"
  BY <1>1, ServiceAssumption DEF Exclusive
<1>3. \E step \in Steps : pc' = [pc EXCEPT ![c] = step]
  BY DEF Act, Step, Begin, ReadPosition, RecordNoop, PreviewRedeem, Simulate, SimulateFails,
         RecordSimulationFailed, ReadNonce, ReadGasPrice, ReadTipCap, Send, RecordSubmitted,
         SendLosesReply, Fail, Return, Goto, Steps
<1>4. QED
  BY <1>2, <1>3 DEF TypeOK

\* The mutex does its work: whoever is inside holds it.
LEMMA ExclusiveStep == TypeOK /\ Exclusive /\ [Next]_vars => Exclusive'
<1> SUFFICES ASSUME TypeOK, Exclusive, [Next]_vars PROVE Exclusive'
  OBVIOUS
<1>1. ASSUME NEW c \in Callers, Act(c) PROVE Exclusive'
  <2>1. pc'[c] = "idle" \/ holder' = c
    <3>1. ASSUME Return(c) PROVE pc'[c] = "idle"
      BY <3>1 DEF Return, Goto, TypeOK
    <3>2. ASSUME pc[c] # "idle", UNCHANGED holder PROVE holder' = c
      BY <3>2 DEF Exclusive
    <3>3. QED
      BY <1>1, <3>1, <3>2
         DEF Act, Step, Begin, Lock, ReadPosition, RecordNoop, PreviewRedeem, Simulate,
             SimulateFails,
             RecordSimulationFailed, ReadNonce, ReadGasPrice, ReadTipCap, Send, RecordSubmitted,
             SendLosesReply, Fail
  <2>2. \A d \in Callers : d # c => pc'[d] = "idle"
    BY <1>1, Alone
  <2>3. QED
    BY <2>1, <2>2 DEF Exclusive
<1>2. ASSUME UNCHANGED <<pc, holder>> PROVE Exclusive'
  BY <1>2 DEF Exclusive
<1>3. ASSUME Crash PROVE Exclusive'
  BY <1>3 DEF Crash, Exclusive
<1>4. QED
  BY <1>1, <1>2, <1>3 DEF Next, Act, ChainStep, Tick, vars, serviceVars

\* Replacing in the pool keeps one transaction per nonce; nothing else adds.
LEMMA OnePerNonceStep == TypeOK /\ OnePerNonce /\ [Next]_vars => OnePerNonce'
<1> SUFFICES ASSUME TypeOK, OnePerNonce, [Next]_vars PROVE OnePerNonce'
  OBVIOUS
<1>1. ASSUME NEW c \in Callers, Broadcast(TxOf(c)) PROVE OnePerNonce'
  BY <1>1 DEF Broadcast, At, OnePerNonce
<1>2. ASSUME pool' \subseteq pool PROVE OnePerNonce'
  BY <1>2 DEF OnePerNonce
<1>3. ASSUME NEW c \in Callers, Act(c) PROVE OnePerNonce'
  BY <1>1, <1>2, <1>3
     DEF Act, Step, Begin, ReadPosition, RecordNoop, PreviewRedeem, Simulate, SimulateFails,
         RecordSimulationFailed, ReadNonce, ReadGasPrice, ReadTipCap, Send, RecordSubmitted,
         SendLosesReply, Fail, chainVars
<1>4. ASSUME ChainStep PROVE pool' \subseteq pool
  BY <1>4 DEF ChainStep, ChainNext, Mine, OwnerTx, Deposit, Liquidity, Price, Evict
<1>5. ASSUME Tick \/ Crash \/ UNCHANGED vars PROVE pool' \subseteq pool
  BY <1>5 DEF Tick, Crash, vars, chainVars
<1>6. QED
  BY <1>2, <1>3, <1>4, <1>5 DEF Next, Act

\* Fees that enter a call come from initialFeeCaps or BumpChecked, so they are
\* within the caps, and everything that is sent or remembered comes from there.
LEMMA FeesStep == TypeOK /\ Exclusive /\ FeesInv /\ [Next]_vars => FeesInv'
<1> SUFFICES ASSUME TypeOK, Exclusive, FeesInv, [Next]_vars PROVE FeesInv'
  OBVIOUS
<1> DEFINE Sane(c) == pc[c] \in {"send", "record"} => WithinCaps(call[c].fees)
<1>1. ASSUME NEW c \in Callers, Act(c),
             FeesWithinCaps', (pending # None => WithinCaps(pending.fees))', Sane(c)'
      PROVE  FeesInv'
  <2>1. ASSUME NEW d \in Callers, d # c PROVE Sane(d)'
    BY <1>1, <2>1, Alone
  <2>2. QED
    BY <1>1, <2>1 DEF FeesInv
<1>2. ASSUME NEW c \in Callers, Return(c) PROVE Sane(c)'
  BY <1>2 DEF Return, Goto, TypeOK
<1>3. ASSUME pool' \subseteq pool PROVE FeesWithinCaps'
  BY <1>3 DEF FeesInv, FeesWithinCaps, WithinCaps, Validate
<1>4. ASSUME UNCHANGED pending \/ pending' = None
      PROVE  (pending # None => WithinCaps(pending.fees))'
  BY <1>4 DEF FeesInv, WithinCaps, Validate
<1>5. ASSUME NEW c \in Callers, Simulate(c) PROVE FeesInv'
  <2>1. Sane(c)'
    <3>1. CASE /\ pending # None
               /\ BumpChecked(pending.fees)
               /\ call' = [call EXCEPT ![c] = Replacement(c)]
      <4>1. WithinCaps(Bumped(pending.fees))
        BY <3>1, BumpedFees DEF FeesInv, TypeOK, Tx
      <4>2. call'[c].fees = Bumped(pending.fees)
        BY <3>1 DEF Replacement, TypeOK, Call
      <4>3. QED
        BY <4>1, <4>2 DEF WithinCaps, Validate
    <3>2. CASE Goto(c, "nonce")
      BY <3>2 DEF Goto, TypeOK
    <3>3. QED
      BY <1>5, <1>2, <3>1, <3>2 DEF Simulate
  <2>2. QED
    BY <1>5, <2>1, <1>1, <1>3, <1>4 DEF Simulate, Act, Step, chainVars
<1>6. ASSUME NEW c \in Callers, ReadTipCap(c) PROVE FeesInv'
  <2> DEFINE gasPrice == call[c].fees.MaxFeePerGas
  <2>1. Sane(c)'
    <3>1. ASSUME NEW tipCap \in TipCaps,
                 InitialFeeCapsOK(gasPrice, tipCap),
                 call' = [call EXCEPT ![c].fees = initialFeeCaps(gasPrice, tipCap)]
          PROVE  Sane(c)'
      <4>1. gasPrice \in Nat /\ tipCap \in Nat
        BY ServiceAssumption DEF TypeOK, Call, FeeCaps
      <4>2. call'[c].fees = initialFeeCaps(gasPrice, tipCap)
        BY <3>1 DEF TypeOK, Call
      <4> HIDE DEF gasPrice
      <4>3. WithinCaps(initialFeeCaps(gasPrice, tipCap))
        BY <3>1, <4>1, InitialFees
      <4>4. QED
        BY <4>2, <4>3 DEF WithinCaps, Validate
    <3>2. QED
      BY <1>6, <1>2, <3>1 DEF ReadTipCap
  <2>2. QED
    BY <1>6, <2>1, <1>1, <1>3, <1>4 DEF ReadTipCap, Act, Step, chainVars
<1>7. ASSUME NEW c \in Callers, pc[c] = "send", Broadcast(TxOf(c))
      PROVE  FeesWithinCaps' /\ WithinCaps(TxOf(c).fees)
  <2>1. WithinCaps(TxOf(c).fees)
    BY <1>7 DEF FeesInv, TxOf
  <2>2. QED
    BY <1>7, <2>1 DEF Broadcast, FeesInv, FeesWithinCaps, WithinCaps, Validate
<1>8. ASSUME NEW c \in Callers, Send(c) PROVE FeesInv'
  <2>1. CASE /\ Broadcast(TxOf(c))
             /\ Remember(c)
             /\ UNCHANGED call
    <3>1. FeesWithinCaps' /\ WithinCaps(TxOf(c).fees)
      BY <1>8, <2>1, <1>7 DEF Send
    <3>2. (pending # None => WithinCaps(pending.fees))'
      BY <2>1, <3>1 DEF Remember, WithinCaps, Validate
    <3>3. Sane(c)'
      BY <1>8, <2>1 DEF Send, FeesInv, WithinCaps, Validate
    <3>4. QED
      BY <1>8, <1>1, <3>1, <3>2, <3>3 DEF Act, Step
  <2>2. CASE Return(c) /\ UNCHANGED <<pool, pending>>
    BY <1>8, <2>2, <1>1, <1>2, <1>3, <1>4 DEF Act, Step
  <2>3. QED
    BY <1>8, <2>1, <2>2 DEF Send
<1>9. ASSUME NEW c \in Callers, SendLosesReply(c) PROVE FeesInv'
  BY <1>9, <1>1, <1>2, <1>4, <1>7 DEF SendLosesReply, Act
<1>10. ASSUME NEW c \in Callers,
              RecordNoop(c) \/ RecordSimulationFailed(c) \/ RecordSubmitted(c) \/ Fail(c)
       PROVE  FeesInv'
  BY <1>10, <1>1, <1>2, <1>3, <1>4
     DEF RecordNoop, RecordSimulationFailed, RecordSubmitted, Fail, Act, Step
<1>11. ASSUME NEW c \in Callers,
              \/ Begin(c) \/ ReadPosition(c) \/ PreviewRedeem(c) \/ SimulateFails(c)
              \/ ReadNonce(c) \/ ReadGasPrice(c)
       PROVE  FeesInv'
  <2>1. pc'[c] \notin {"send", "record"}
    BY <1>11 DEF Begin, ReadPosition, PreviewRedeem, SimulateFails, ReadNonce, ReadGasPrice,
                 Return, Goto, TypeOK
  <2>2. UNCHANGED <<pool, pending>>
    BY <1>11 DEF Begin, ReadPosition, PreviewRedeem, SimulateFails, ReadNonce, ReadGasPrice,
                 chainVars
  <2>3. QED
    BY <1>11, <2>1, <2>2, <1>1, <1>3, <1>4 DEF Act, Step
<1>12. ASSUME pool' \subseteq pool, UNCHANGED <<pc, call, pending>> PROVE FeesInv'
  BY <1>12 DEF FeesInv, FeesWithinCaps, WithinCaps, Validate
<1>13. ASSUME ChainStep \/ Tick \/ UNCHANGED vars PROVE FeesInv'
  BY <1>13, <1>12 DEF ChainStep, ChainNext, Mine, OwnerTx, Deposit, Liquidity, Price,
                      Evict, Tick, vars, chainVars, serviceVars
<1>14. ASSUME Crash PROVE FeesInv'
  BY <1>14 DEF Crash, FeesInv, FeesWithinCaps, WithinCaps, Validate
<1>15. QED
  BY <1>5, <1>6, <1>8, <1>9, <1>10, <1>11, <1>13, <1>14 DEF Next, Step

\* What one call knows of service.pending at each of its steps.
Knows(c) ==
  /\ pc[c] \in {"position", "preview", "simulate", "send"} /\ pending # None
       => call[c].waited <= pendingAge
  /\ pc[c] \in {"nonce", "fees", "tip"} => pending = None
  /\ pc[c] = "send" /\ pending # None
       => call[c].waited >= ReplacementTimeout /\ call[c] = Replacement(c)
  /\ pc[c] = "record" => pending = TxOf(c)

\* A call with another nonce and other fees.
Override(r, n, f) == [r EXCEPT !.nonce = n, !.fees = f]

\* Giving a call the same nonce and fees twice is giving them once.
LEMMA OverrideTwice ==
  ASSUME NEW r \in Call, NEW n, NEW f
  PROVE  /\ Override(r, n, f).waited = r.waited
         /\ Override(Override(r, n, f), n, f) = Override(r, n, f)
BY DEF Call, Override

\* Only the call itself changes service.pending, so what it read stays true.
LEMMA CallStep == TypeOK /\ Exclusive /\ CallInv /\ [Next]_vars => CallInv'
<1> SUFFICES ASSUME TypeOK, Exclusive, CallInv, [Next]_vars PROVE CallInv'
  OBVIOUS
<1> USE ServiceAssumption
<1>0. ASSUME NEW c \in Callers PROVE Knows(c)
  BY DEF CallInv, Knows
<1>1. ASSUME NEW c \in Callers, Act(c), Knows(c)' PROVE CallInv'
  <2>1. ASSUME NEW d \in Callers PROVE Knows(d)'
    BY <1>1, <2>1, Alone DEF Knows
  <2>2. QED
    BY <2>1 DEF CallInv, Knows
<1>2. ASSUME NEW c \in Callers, Return(c) PROVE Knows(c)'
  BY <1>2 DEF Return, Goto, TypeOK, Knows
<1>3. ASSUME NEW c \in Callers, Begin(c) PROVE CallInv'
  <2>1. pc'[c] = "position" /\ call'[c].waited = pendingAge
    BY <1>3 DEF Begin, Goto, TypeOK, NoCall, Call
  <2>2. Knows(c)'
    BY <1>3, <2>1 DEF Begin, Knows, TypeOK
  <2>3. QED
    BY <1>3, <2>2, <1>1 DEF Act, Step
<1>4. ASSUME NEW c \in Callers, ReadPosition(c) PROVE CallInv'
  <2>1. pc'[c] \in {"noop", "preview"} /\ call'[c].waited = call[c].waited
    BY <1>4 DEF ReadPosition, Goto, TypeOK, Call
  <2>2. Knows(c)'
    BY <1>4, <2>1, <1>0 DEF ReadPosition, Knows
  <2>3. QED
    BY <1>4, <2>2, <1>1 DEF Act, Step
<1>5. ASSUME NEW c \in Callers, Simulate(c) PROVE CallInv'
  <2>1. CASE /\ ~TooEarly(c)
             /\ pending # None
             /\ call' = [call EXCEPT ![c] = Replacement(c)]
             /\ Goto(c, "send")
    <3>1. pc'[c] = "send" /\ call'[c] = Replacement(c) /\ UNCHANGED <<pending, pendingAge>>
      BY <1>5, <2>1 DEF Simulate, Goto, TypeOK
    <3>2. call[c].waited >= ReplacementTimeout /\ call[c].waited <= pendingAge
      BY <1>5, <1>0, <2>1 DEF TooEarly, TypeOK, Call, Knows, Simulate
    <3>3. call'[c].waited = call[c].waited /\ call'[c] = Replacement(c)'
      <4>1. call[c] \in Call
        BY DEF TypeOK
      <4>2. call'[c] = Override(call[c], pending.nonce, Bumped(pending.fees))
        BY <3>1 DEF Replacement, Override
      <4>3. Replacement(c)' = Override(call'[c], pending.nonce, Bumped(pending.fees))
        BY <3>1 DEF Replacement, Override
      <4>4. Override(call[c], pending.nonce, Bumped(pending.fees)).waited = call[c].waited
        BY <4>1, OverrideTwice
      <4>5. Override(Override(call[c], pending.nonce, Bumped(pending.fees)),
                     pending.nonce, Bumped(pending.fees))
              = Override(call[c], pending.nonce, Bumped(pending.fees))
        BY <4>1, OverrideTwice
      <4>6. QED
        BY <4>2, <4>3, <4>4, <4>5
    <3>4. Knows(c)'
      BY <3>1, <3>2, <3>3 DEF Knows
    <3>5. QED
      BY <1>5, <3>4, <1>1 DEF Act, Step
  <2>2. CASE pending = None /\ Goto(c, "nonce")
    <3>1. Knows(c)'
      BY <1>5, <2>2 DEF Simulate, Goto, TypeOK, Knows
    <3>2. QED
      BY <1>5, <3>1, <1>1 DEF Act, Step
  <2>3. CASE Return(c)
    BY <1>5, <2>3, <1>1, <1>2 DEF Act, Step
  <2>4. QED
    BY <1>5, <2>1, <2>2, <2>3 DEF Simulate
<1>6. ASSUME NEW c \in Callers, SimulateFails(c) PROVE CallInv'
  <2>1. Knows(c)'
    BY <1>6 DEF SimulateFails, Goto, TypeOK, Knows
  <2>2. QED
    BY <1>6, <2>1, <1>1 DEF Act, Step
<1>7. ASSUME NEW c \in Callers, ReadNonce(c) PROVE CallInv'
  <2>1. Knows(c)'
    BY <1>7, <1>0 DEF ReadNonce, Goto, TypeOK, Knows
  <2>2. QED
    BY <1>7, <2>1, <1>1 DEF Act, Step
<1>8. ASSUME NEW c \in Callers, PreviewRedeem(c) \/ ReadGasPrice(c) \/ ReadTipCap(c)
      PROVE  CallInv'
  <2>1. CASE PreviewRedeem(c)
    <3>1. Knows(c)'
      BY <2>1, <1>0 DEF PreviewRedeem, Goto, TypeOK, Knows
    <3>2. QED
      BY <1>8, <3>1, <1>1 DEF Act, Step
  <2>2. CASE Return(c)
    BY <1>8, <2>2, <1>1, <1>2 DEF Act, Step
  <2>3. CASE (ReadGasPrice(c) \/ ReadTipCap(c)) /\ (Goto(c, "tip") \/ Goto(c, "send"))
    <3>1. Knows(c)'
      BY <2>3, <1>0 DEF ReadGasPrice, ReadTipCap, Goto, TypeOK, Knows
    <3>2. QED
      BY <1>8, <3>1, <1>1 DEF Act, Step
  <2>4. QED
    BY <1>8, <2>1, <2>2, <2>3 DEF ReadGasPrice, ReadTipCap
<1>9. ASSUME NEW c \in Callers, Send(c) PROVE CallInv'
  <2>1. CASE Remember(c) /\ Goto(c, "record") /\ UNCHANGED call
    <3>1. pc'[c] = "record" /\ pending' = TxOf(c)'
      BY <2>1 DEF Remember, Goto, TypeOK, TxOf
    <3>2. Knows(c)'
      BY <3>1 DEF Knows
    <3>3. QED
      BY <1>9, <3>2, <1>1 DEF Act, Step
  <2>2. CASE Return(c)
    BY <1>9, <2>2, <1>1, <1>2 DEF Act, Step
  <2>3. QED
    BY <1>9, <2>1, <2>2 DEF Send
<1>10. ASSUME NEW c \in Callers,
              \/ RecordNoop(c) \/ RecordSimulationFailed(c) \/ RecordSubmitted(c)
              \/ SendLosesReply(c) \/ Fail(c)
       PROVE  CallInv'
  BY <1>10, <1>1, <1>2
     DEF RecordNoop, RecordSimulationFailed, RecordSubmitted, SendLosesReply, Fail, Act, Step
<1>11. ASSUME UNCHANGED <<pc, call, pending>>, pendingAge' >= pendingAge PROVE CallInv'
  <2>1. pendingAge' \in Nat
    BY TypeStep DEF TypeOK
  <2>2. ASSUME NEW c \in Callers PROVE Knows(c)'
    <3>1. Replacement(c)' = Replacement(c) /\ TxOf(c)' = TxOf(c)
      BY <1>11 DEF Replacement, TxOf
    <3>2. call[c].waited \in Nat /\ pendingAge \in Nat
      BY DEF TypeOK, Call
    <3>3. call[c].waited <= pendingAge => call[c].waited <= pendingAge'
      BY <1>11, <2>1, <3>2
    <3>4. QED
      BY <1>0, <1>11, <3>1, <3>3 DEF Knows
  <2>3. QED
    BY <2>2 DEF CallInv, Knows
<1>12. ASSUME ChainStep \/ Tick \/ UNCHANGED vars PROVE CallInv'
  BY <1>12, <1>11 DEF ChainStep, Tick, vars, serviceVars, TypeOK
<1>13. ASSUME Crash PROVE CallInv'
  BY <1>13 DEF Crash, CallInv
<1>14. QED
  BY <1>3, <1>4, <1>5, <1>6, <1>7, <1>8, <1>9, <1>10, <1>12, <1>13 DEF Next, Step

-----------------------------------------------------------------------------

\* Disturbances are never forgotten.
LEMMA HappenedGrows == [Next]_vars => happened \subseteq happened'
<1> SUFFICES ASSUME [Next]_vars PROVE happened \subseteq happened'
  OBVIOUS
<1>1. ASSUME NEW kind, Disturb(kind) PROVE happened \subseteq happened'
  BY <1>1 DEF Disturb
<1>2. ASSUME UNCHANGED disturbances PROVE happened \subseteq happened'
  BY <1>2 DEF disturbances
<1>3. ASSUME NEW c \in Callers, Act(c) PROVE happened \subseteq happened'
  BY <1>1, <1>2, <1>3
     DEF Act, Step, Begin, ReadPosition, RecordNoop, PreviewRedeem, Simulate, SimulateFails,
         RecordSimulationFailed, ReadNonce, ReadGasPrice, ReadTipCap, Send, RecordSubmitted,
         SendLosesReply, Fail, chainVars
<1>4. ASSUME ChainStep PROVE happened \subseteq happened'
  BY <1>1, <1>2, <1>4
     DEF ChainStep, ChainNext, Mine, OwnerTx, Deposit, Liquidity, Price, Evict
<1>5. ASSUME Tick \/ Crash \/ UNCHANGED vars PROVE happened \subseteq happened'
  BY <1>1, <1>2, <1>5 DEF Tick, Crash, vars, chainVars
<1>6. QED
  BY <1>3, <1>4, <1>5 DEF Next, Act

\* After one of these the service is not Steady any more.
LEMMA NotSteady ==
  ASSUME NEW kind \in {"crash", "lost_ack", "lag", "owner"}, Disturb(kind)
  PROVE  ~Steady'
  BY DEF Disturb, Steady

\* What SteadyInv says of one call.
Grounded(c) ==
  /\ pc[c] \in Exiting =>
       shares > 0 \/ (pending # None /\ pending.nonce < chainNonce)
  /\ pc[c] = "noop" => pool = {}

\* The heart of the argument: while the service is Steady, what it sends has
\* the nonce it tracks, and what it forgets is not in the pool.
LEMMA SteadyStep ==
  TypeOK /\ Exclusive /\ OnePerNonce /\ CallInv /\ SingleActiveNonce /\ SteadyInv
    /\ [Next]_vars => SingleActiveNonce' /\ SteadyInv'
<1> SUFFICES ASSUME TypeOK, Exclusive, OnePerNonce, CallInv, SingleActiveNonce,
                    SteadyInv, [Next]_vars, Steady'
             PROVE  /\ \A t \in pool' : pending' # None /\ pending'.nonce = t.nonce
                    /\ pool' # {} => shares' > 0
                    /\ \A c \in Callers : Grounded(c)'
  BY DEF SingleActiveNonce, SteadyInv, Grounded
<1> USE ServiceAssumption
<1> DEFINE Tracked == \A t \in pool : pending # None /\ pending.nonce = t.nonce
           Funded == pool # {} => shares > 0
<1>1. Steady
  BY HappenedGrows DEF Steady
<1>2. Tracked /\ Funded /\ \A c \in Callers : Grounded(c)
  BY <1>1 DEF SingleActiveNonce, SteadyInv, Grounded
<1>3. ASSUME NEW c \in Callers, Act(c), Tracked', Funded', Grounded(c)'
      PROVE  Tracked' /\ Funded' /\ \A d \in Callers : Grounded(d)'
  BY <1>3, Alone DEF Grounded, Exiting
<1>4. ASSUME NEW c \in Callers, Return(c) PROVE Grounded(c)'
  BY <1>4 DEF Return, Goto, TypeOK, Grounded, Exiting
<1>5. ASSUME NEW c \in Callers, UNCHANGED <<pool, pending, shares, chainNonce>>,
             \/ Begin(c) \/ ReadPosition(c) \/ PreviewRedeem(c) \/ Simulate(c)
             \/ SimulateFails(c) \/ RecordSimulationFailed(c) \/ ReadNonce(c)
             \/ ReadGasPrice(c) \/ ReadTipCap(c) \/ RecordSubmitted(c) \/ Fail(c)
      PROVE  Tracked' /\ Funded' /\ \A d \in Callers : Grounded(d)'
  <2>1. Tracked' /\ Funded'
    BY <1>2, <1>5
  <2>2. ASSUME ReadPosition(c) PROVE Grounded(c)'
    <3>1. PICK balance \in {shares, oldShares} :
            /\ balance = shares \/ Disturb("lag")
            /\ Goto(c, IF balance = 0 THEN "noop" ELSE "preview")
      BY <2>2 DEF ReadPosition
    <3>2. balance = shares
      BY <3>1, NotSteady
    <3>3. pc'[c] = IF shares = 0 THEN "noop" ELSE "preview"
      BY <3>1, <3>2 DEF Goto, TypeOK
    <3>4. QED
      BY <1>2, <1>5, <3>3, ChainAssumption DEF Grounded, TypeOK, Exiting
  <2>3. ASSUME pc[c] \in Exiting, pc'[c] \in Exiting \cup {"idle", "simfailed"}
        PROVE  Grounded(c)'
    BY <1>2, <1>5, <2>3 DEF Grounded, Exiting
  <2>4. ASSUME \/ PreviewRedeem(c) \/ Simulate(c) \/ SimulateFails(c) \/ ReadNonce(c)
               \/ ReadGasPrice(c) \/ ReadTipCap(c)
        PROVE  Grounded(c)'
    <3>1. pc[c] \in Exiting /\ pc'[c] \in Exiting \cup {"idle", "simfailed"}
      BY <2>4 DEF PreviewRedeem, Simulate, SimulateFails, ReadNonce, ReadGasPrice,
                  ReadTipCap, Return, Goto, TypeOK, Exiting
    <3>2. QED
      BY <3>1, <2>3
  <2>5. ASSUME Begin(c) PROVE Grounded(c)'
    BY <2>5 DEF Begin, Goto, TypeOK, Grounded, Exiting
  <2>6. Grounded(c)'
    BY <1>4, <1>5, <2>2, <2>4, <2>5 DEF RecordSimulationFailed, RecordSubmitted, Fail
  <2>7. QED
    BY <1>3, <1>5, <2>1, <2>6 DEF Act, Step
<1>6. ASSUME NEW c \in Callers, RecordNoop(c)
      PROVE  Tracked' /\ Funded' /\ \A d \in Callers : Grounded(d)'
  <2>1. pool' = {}
    BY <1>2, <1>6 DEF RecordNoop, Grounded
  <2>2. Return(c)
    BY <1>6 DEF RecordNoop
  <2>3. QED
    BY <1>3, <1>4, <1>6, <2>1, <2>2 DEF Act, Step
<1>7. ASSUME NEW c \in Callers, Send(c)
      PROVE  Tracked' /\ Funded' /\ \A d \in Callers : Grounded(d)'
  <2>1. CASE /\ Accepts(TxOf(c)) /\ Broadcast(TxOf(c)) /\ Remember(c)
             /\ Goto(c, "record") /\ UNCHANGED <<call, holder>>
    <3>1. TxOf(c).nonce = call[c].nonce /\ TxOf(c).nonce \in Nat
      BY TxOfType DEF TxOf, Tx
    <3>2. pending # None => call[c].nonce = pending.nonce
      BY <1>7 DEF CallInv, Send, Replacement, TypeOK, Call
    <3>3. pending' = TxOf(c) /\ TxOf(c) # None
      BY <2>1, TxOfType DEF Remember
    <3>4. \A t \in pool' : t.nonce = TxOf(c).nonce
      BY <1>2, <2>1, <3>1, <3>2 DEF Broadcast, At
    <3>5. ~(pending # None /\ pending.nonce < chainNonce)
      BY <2>1, <3>1, <3>2 DEF Accepts, TypeOK
    <3>6. shares' > 0
      BY <1>2, <1>7, <3>5 DEF Grounded, Send, Exiting
    <3>7. Grounded(c)'
      BY <2>1 DEF Goto, TypeOK, Grounded, Exiting
    <3>8. QED
      BY <1>3, <1>7, <3>3, <3>4, <3>6, <3>7 DEF Act, Step
  <2>2. CASE Return(c) /\ UNCHANGED <<pool, pending>>
    BY <1>2, <1>3, <1>4, <1>7, <2>2 DEF Send, Act, Step
  <2>3. QED
    BY <1>7, <2>1, <2>2 DEF Send
<1>8. ASSUME NEW c \in Callers, SendLosesReply(c) PROVE FALSE
  BY <1>8, NotSteady DEF SendLosesReply
<1>9. ASSUME NEW c \in Callers, Act(c)
      PROVE  Tracked' /\ Funded' /\ \A d \in Callers : Grounded(d)'
  <2>1. ASSUME \/ Begin(c) \/ ReadPosition(c) \/ PreviewRedeem(c) \/ Simulate(c)
               \/ SimulateFails(c) \/ RecordSimulationFailed(c) \/ ReadNonce(c)
               \/ ReadGasPrice(c) \/ ReadTipCap(c) \/ RecordSubmitted(c) \/ Fail(c)
        PROVE  UNCHANGED <<pool, pending, shares, chainNonce>>
    BY <2>1 DEF Begin, ReadPosition, PreviewRedeem, Simulate, SimulateFails,
                RecordSimulationFailed, ReadNonce, ReadGasPrice, ReadTipCap, RecordSubmitted,
                Fail, chainVars
  <2>2. QED
    BY <1>5, <1>6, <1>7, <1>8, <1>9, <2>1 DEF Act, Step
<1>10. ASSUME NEW t \in pool, Mine(t), UNCHANGED serviceVars
       PROVE  Tracked' /\ Funded' /\ \A d \in Callers : Grounded(d)'
  <2>1. pool' = {}
    BY <1>2, <1>10 DEF Mine, OnePerNonce
  <2>2. pending' # None /\ pending'.nonce < chainNonce'
    BY <1>2, <1>10 DEF Mine, serviceVars, TypeOK
  <2>3. QED
    BY <2>1, <2>2 DEF Grounded
<1>11. ASSUME UNCHANGED <<pc, pending, chainNonce>>, pool' \subseteq pool, shares' >= shares
       PROVE  Tracked' /\ Funded' /\ \A d \in Callers : Grounded(d)'
  <2>1. shares > 0 => shares' > 0
    BY <1>11, TypeStep, ChainAssumption DEF TypeOK
  <2>2. QED
    BY <1>2, <1>11, <2>1 DEF Grounded
<1>12. ASSUME Deposit \/ Liquidity \/ Price \/ Evict, UNCHANGED serviceVars
       PROVE  Tracked' /\ Funded' /\ \A d \in Callers : Grounded(d)'
  BY <1>11, <1>12 DEF Deposit, Liquidity, Price, Evict, serviceVars, TypeOK
<1>13. ASSUME Tick \/ UNCHANGED vars
       PROVE  Tracked' /\ Funded' /\ \A d \in Callers : Grounded(d)'
  BY <1>11, <1>13 DEF Tick, vars, chainVars, serviceVars, TypeOK
<1>14. ASSUME OwnerTx \/ Crash PROVE FALSE
  BY <1>14, NotSteady DEF OwnerTx, Crash
<1>15. QED
  BY <1>9, <1>10, <1>12, <1>13, <1>14 DEF Next, Act, ChainStep, ChainNext

\* What PromiseInv says of one call.
Ready(c) ==
  /\ pc[c] \in Exiting =>
       /\ call[c].shares > 0
       /\ call[c].shares <= shares \/ (pending # None /\ pending.nonce < chainNonce)
  /\ pc[c] \in {"fees", "tip", "send"} /\ pending = None => call[c].nonce = chainNonce

\* What the node can include next is what the service has just read it may:
\* only a block can use the nonce or the shares, and it then takes the one
\* transaction that was live.
LEMMA PromiseStep ==
  TypeOK /\ Exclusive /\ OnePerNonce /\ CallInv /\ SingleActiveNonce /\ PromiseInv
    /\ [Next]_vars => PromiseInv'
<1> DEFINE Past == pending # None => pending.nonce <= chainNonce
           Includable == \A t \in pool : t.nonce = chainNonce /\ t.shares \in 1..shares
           Kept == Past /\ Includable /\ \A c \in Callers : Ready(c)
<1> SUFFICES ASSUME TypeOK, Exclusive, OnePerNonce, CallInv, SingleActiveNonce,
                    PromiseInv, [Next]_vars, Steady'
             PROVE  Kept'
  BY DEF PromiseInv, Ready
<1> USE ServiceAssumption
<1>1. Steady
  BY HappenedGrows DEF Steady
<1>2. Past /\ Includable /\ \A c \in Callers : Ready(c)
  BY <1>1 DEF PromiseInv, Ready, Exiting
<1>3. \A t \in pool : pending # None /\ pending.nonce = t.nonce
  BY <1>1 DEF SingleActiveNonce
<1>4. /\ chainNonce \in Nat /\ shares \in Nat
      /\ pending # None => pending.nonce \in Nat
      /\ \A c \in Callers : call[c] \in Call
      /\ pc \in [Callers -> Steps] /\ call \in [Callers -> Call]
  BY ChainAssumption DEF TypeOK, Tx
<1>5. ASSUME NEW c \in Callers, Act(c), Past', Includable', Ready(c)' PROVE Kept'
  BY <1>5, Alone DEF Ready, Exiting
<1>6. ASSUME NEW c \in Callers, Return(c) PROVE Ready(c)'
  BY <1>6, <1>4 DEF Return, Goto, Ready, Exiting
<1>7. ASSUME NEW c \in Callers, UNCHANGED <<pool, pending, shares, chainNonce>>,
             \/ Begin(c) \/ ReadPosition(c) \/ PreviewRedeem(c) \/ Simulate(c)
             \/ SimulateFails(c) \/ RecordSimulationFailed(c) \/ ReadNonce(c)
             \/ ReadGasPrice(c) \/ ReadTipCap(c) \/ RecordSubmitted(c) \/ Fail(c)
      PROVE  Kept'
  <2>1. Past' /\ Includable'
    BY <1>2, <1>7
  <2>2. ASSUME Begin(c) PROVE Ready(c)'
    BY <2>2, <1>4 DEF Begin, Goto, Ready, Exiting
  <2>3. ASSUME ReadPosition(c) PROVE Ready(c)'
    <3>1. PICK balance \in {shares, oldShares} :
            /\ balance = shares \/ Disturb("lag")
            /\ call' = [call EXCEPT ![c].shares = balance]
            /\ Goto(c, IF balance = 0 THEN "noop" ELSE "preview")
      BY <2>3 DEF ReadPosition
    <3>2. balance = shares
      BY <3>1, NotSteady
    <3>3. call'[c].shares = shares /\ pc'[c] = IF shares = 0 THEN "noop" ELSE "preview"
      BY <3>1, <3>2, <1>4 DEF Goto, Call
    <3>4. QED
      BY <1>4, <1>7, <3>3 DEF Ready, Exiting
  <2>4. ASSUME Simulate(c) PROVE Ready(c)'
    <3>1. CASE /\ pending # None
               /\ call' = [call EXCEPT ![c] = Replacement(c)]
               /\ Goto(c, "send")
      <4>1. call'[c].shares = call[c].shares /\ pc[c] = "simulate"
        BY <2>4, <3>1, <1>4 DEF Simulate, Replacement, Call
      <4>2. QED
        BY <1>2, <1>7, <3>1, <4>1 DEF Ready, Exiting
    <3>2. CASE pending = None /\ Goto(c, "nonce") /\ UNCHANGED call
      <4>1. pc'[c] = "nonce" /\ pc[c] = "simulate"
        BY <2>4, <3>2, <1>4 DEF Simulate, Goto
      <4>2. QED
        BY <1>2, <1>7, <3>2, <4>1 DEF Ready, Exiting
    <3>3. QED
      BY <2>4, <1>6, <3>1, <3>2 DEF Simulate
  <2>5. ASSUME SimulateFails(c) PROVE Ready(c)'
    BY <2>5, <1>4 DEF SimulateFails, Goto, Ready, Exiting
  <2>6. ASSUME ReadNonce(c) PROVE Ready(c)'
    <3>1. pool = {}
      BY <2>6, <1>3 DEF ReadNonce, CallInv
    <3>2. PendingNonceAt \subseteq {chainNonce}
      BY <3>1 DEF PendingNonceAt
    <3>3. PICK n \in PendingNonceAt \cup LaggingNonceAt :
            /\ n \in PendingNonceAt \/ Disturb("lag")
            /\ call' = [call EXCEPT ![c].nonce = n]
      BY <2>6 DEF ReadNonce
    <3>4. n = chainNonce
      BY <3>2, <3>3, NotSteady
    <3>5. call'[c].nonce = chainNonce /\ call'[c].shares = call[c].shares
      BY <3>3, <3>4, <1>4 DEF Call
    <3>6. pc[c] = "nonce"
      BY <2>6 DEF ReadNonce
    <3>7. QED
      BY <1>2, <1>7, <3>5, <3>6 DEF Ready, Exiting
  <2>7. ASSUME ReadGasPrice(c) \/ ReadTipCap(c) PROVE Ready(c)'
    <3>1. CASE \E fees : call' = [call EXCEPT ![c].fees = fees]
      <4>1. /\ call'[c].shares = call[c].shares /\ call'[c].nonce = call[c].nonce
            /\ pc[c] \in {"fees", "tip"}
        BY <2>7, <3>1, <1>4 DEF ReadGasPrice, ReadTipCap, Call
      <4>2. QED
        BY <1>2, <1>7, <4>1 DEF Ready, Exiting
    <3>2. QED
      BY <2>7, <1>6, <3>1 DEF ReadGasPrice, ReadTipCap
  <2>8. ASSUME PreviewRedeem(c) PROVE Ready(c)'
    <3>1. pc[c] = "preview" /\ pc'[c] = "simulate" /\ UNCHANGED call
      BY <2>8, <1>4 DEF PreviewRedeem, Goto
    <3>2. QED
      BY <1>2, <1>7, <3>1 DEF Ready, Exiting
  <2>9. QED
    BY <1>5, <1>6, <1>7, <2>1, <2>2, <2>3, <2>4, <2>5, <2>6, <2>7, <2>8
       DEF Act, Step, RecordSimulationFailed, RecordSubmitted, Fail
<1>8. ASSUME NEW c \in Callers, RecordNoop(c) PROVE Kept'
  <2>1. UNCHANGED <<pool, shares, chainNonce>> /\ (pending' = None \/ pending' = pending)
    BY <1>8 DEF RecordNoop
  <2>2. Past' /\ Includable'
    BY <1>2, <2>1
  <2>3. QED
    BY <1>5, <1>6, <1>8, <2>2 DEF RecordNoop, Act, Step
<1>9. ASSUME NEW c \in Callers, Send(c) PROVE Kept'
  <2>1. CASE /\ Accepts(TxOf(c)) /\ Broadcast(TxOf(c)) /\ Remember(c)
             /\ Goto(c, "record")
    <3>1. /\ TxOf(c).nonce = call[c].nonce /\ TxOf(c).shares = call[c].shares
          /\ call[c].nonce \in Nat /\ call[c].shares \in Nat
      BY <1>4 DEF TxOf, Call
    <3>2. pending # None => call[c].nonce = pending.nonce
      BY <1>9, <1>4 DEF CallInv, Send, Replacement, Call
    <3>3. pc[c] = "send"
      BY <1>9 DEF Send
    <3>4. call[c].nonce = chainNonce
      BY <1>2, <1>4, <2>1, <3>1, <3>2, <3>3 DEF Accepts, Ready, Exiting
    <3>5. call[c].shares \in 1..shares
      BY <1>2, <1>4, <3>1, <3>2, <3>3, <3>4 DEF Ready, Exiting
    <3>6. UNCHANGED <<shares, chainNonce>>
      BY <1>9 DEF Send
    <3>7. pending' = TxOf(c) /\ pool' \subseteq pool \cup {TxOf(c)}
      BY <2>1 DEF Remember, Broadcast
    <3>8. Past' /\ Includable'
      BY <1>2, <1>4, <3>1, <3>4, <3>5, <3>6, <3>7
    <3>9. Ready(c)'
      BY <2>1, <1>4 DEF Goto, Ready, Exiting
    <3>10. QED
      BY <1>5, <1>9, <3>8, <3>9 DEF Act, Step
  <2>2. CASE Return(c) /\ UNCHANGED <<pool, pending>>
    <3>1. Past' /\ Includable'
      BY <1>2, <1>9, <2>2 DEF Send
    <3>2. QED
      BY <1>5, <1>6, <1>9, <2>2, <3>1 DEF Act, Step
  <2>3. QED
    BY <1>9, <2>1, <2>2 DEF Send
<1>10. ASSUME NEW c \in Callers, SendLosesReply(c) PROVE FALSE
  BY <1>10, NotSteady DEF SendLosesReply
<1>11. ASSUME NEW c \in Callers, Act(c) PROVE Kept'
  <2>1. ASSUME \/ Begin(c) \/ ReadPosition(c) \/ PreviewRedeem(c) \/ Simulate(c)
               \/ SimulateFails(c) \/ RecordSimulationFailed(c) \/ ReadNonce(c)
               \/ ReadGasPrice(c) \/ ReadTipCap(c) \/ RecordSubmitted(c) \/ Fail(c)
        PROVE  UNCHANGED <<pool, pending, shares, chainNonce>>
    BY <2>1 DEF Begin, ReadPosition, PreviewRedeem, Simulate, SimulateFails,
                RecordSimulationFailed, ReadNonce, ReadGasPrice, ReadTipCap, RecordSubmitted,
                Fail, chainVars
  <2>2. QED
    BY <1>7, <1>8, <1>9, <1>10, <1>11, <2>1 DEF Act, Step
<1>12. ASSUME NEW t \in pool, Mine(t), UNCHANGED serviceVars PROVE Kept'
  <2>1. pool' = {}
    BY <1>3, <1>12 DEF Mine, OnePerNonce
  <2>2. pending' # None /\ pending'.nonce < chainNonce'
    BY <1>3, <1>4, <1>12 DEF Mine, serviceVars
  <2>3. Past'
    BY <1>4, <1>12, <2>2 DEF Mine, serviceVars
  <2>4. QED
    BY <1>2, <1>12, <2>1, <2>2, <2>3 DEF Ready, Exiting, serviceVars
<1>13. ASSUME UNCHANGED <<pc, call, pending, chainNonce>>, pool' \subseteq pool,
              shares' = shares \/ shares' = shares + 1
       PROVE  Kept'
  <2>1. \A n \in Nat : n <= shares => n <= shares'
    BY <1>4, <1>13
  <2>2. Includable'
    BY <1>2, <1>4, <1>13, <2>1
  <2>3. ASSUME NEW c \in Callers PROVE Ready(c)'
    BY <1>2, <1>4, <1>13, <2>1 DEF Ready, Exiting, Call
  <2>4. QED
    BY <1>2, <1>13, <2>2, <2>3
<1>14. ASSUME Deposit \/ Liquidity \/ Price \/ Evict, UNCHANGED serviceVars PROVE Kept'
  BY <1>13, <1>14 DEF Deposit, Liquidity, Price, Evict, serviceVars
<1>15. ASSUME Tick \/ UNCHANGED vars PROVE Kept'
  BY <1>13, <1>15 DEF Tick, vars, chainVars, serviceVars
<1>16. ASSUME OwnerTx \/ Crash PROVE FALSE
  BY <1>16, NotSteady DEF OwnerTx, Crash
<1>17. QED
  BY <1>11, <1>12, <1>14, <1>15, <1>16 DEF Next, Act, ChainStep, ChainNext

\* A transaction enters the pool in the step that puts its caller at "record",
\* and the caller leaves "record" by inserting the row.
LEMMA AuditStep == TypeOK /\ Exclusive /\ AuditTrail /\ [Next]_vars => AuditTrail'
<1> DEFINE Quiet == \A k \in {"crash", "lost_ack", "repo"} : k \notin happened
           Rowed(t) == [status |-> "submitted", tx |-> t] \in attempts
           InHand(t) == \E c \in Callers : pc[c] = "record" /\ t = TxOf(c)
<1> SUFFICES ASSUME TypeOK, Exclusive, AuditTrail, [Next]_vars, Quiet',
                    NEW t \in pool'
             PROVE  Rowed(t)' \/ InHand(t)'
  BY DEF AuditTrail
<1> USE ServiceAssumption
<1>1. t \in pool => Rowed(t) \/ InHand(t)
  BY HappenedGrows DEF AuditTrail
<1>2. ASSUME NEW kind \in {"crash", "lost_ack", "repo"}, Disturb(kind) PROVE FALSE
  BY <1>2 DEF Disturb
<1>3. ASSUME t \in pool, UNCHANGED <<pc, call, attempts>> PROVE Rowed(t)' \/ InHand(t)'
  BY <1>1, <1>3 DEF TxOf
<1>4. ASSUME NEW c \in Callers, Act(c), t \in pool, pc[c] # "record",
attempts \subseteq attempts'
      PROVE  Rowed(t)' \/ InHand(t)'
  <2>1. ASSUME NEW d \in Callers PROVE pc[d] # "record"
    BY <1>4, <2>1, Alone
  <2>2. QED
    BY <1>1, <1>4, <2>1
<1>5. ASSUME NEW c \in Callers, Send(c) PROVE Rowed(t)' \/ InHand(t)'
  <2>1. CASE t \in pool
    BY <1>4, <1>5, <2>1 DEF Act, Step, Send
  <2>2. CASE t \notin pool
    <3>1. t = TxOf(c) /\ Goto(c, "record") /\ UNCHANGED call
      BY <1>5, <2>2 DEF Send, Broadcast
    <3>2. pc'[c] = "record" /\ t = TxOf(c)'
      BY <3>1 DEF Goto, TypeOK, TxOf
    <3>3. QED
      BY <3>2
  <2>3. QED
    BY <2>1, <2>2
<1>6. ASSUME NEW c \in Callers, RecordSubmitted(c) PROVE Rowed(t)' \/ InHand(t)'
  <2>1. /\ attempts' = attempts \cup {[status |-> "submitted", tx |-> TxOf(c)]}
        /\ t \in pool
    BY <1>2, <1>6 DEF RecordSubmitted
  <2>2. ASSUME NEW d \in Callers, pc[d] = "record" PROVE d = c
    BY <1>6, <2>2, Alone DEF Act, Step
  <2>3. QED
    BY <1>1, <2>1, <2>2
<1>7. ASSUME NEW c \in Callers, SendLosesReply(c) PROVE FALSE
  BY <1>2, <1>7 DEF SendLosesReply
<1>8. ASSUME NEW c \in Callers,
             \/ Begin(c) \/ ReadPosition(c) \/ RecordNoop(c) \/ PreviewRedeem(c)
             \/ Simulate(c) \/ SimulateFails(c) \/ RecordSimulationFailed(c)
             \/ ReadNonce(c) \/ ReadGasPrice(c) \/ ReadTipCap(c) \/ Fail(c)
      PROVE  Rowed(t)' \/ InHand(t)'
  <2>1. pc[c] # "record" /\ UNCHANGED pool
    BY <1>8 DEF Begin, ReadPosition, RecordNoop, PreviewRedeem, Simulate, SimulateFails,
                RecordSimulationFailed, ReadNonce, ReadGasPrice, ReadTipCap, Fail, chainVars
  <2>2. attempts \subseteq attempts'
    BY <1>8 DEF Begin, ReadPosition, RecordNoop, PreviewRedeem, Simulate, SimulateFails,
                RecordSimulationFailed, ReadNonce, ReadGasPrice, ReadTipCap, Fail
  <2>3. QED
    BY <1>4, <1>8, <2>1, <2>2 DEF Act, Step
<1>9. ASSUME ChainStep \/ Tick \/ UNCHANGED vars PROVE Rowed(t)' \/ InHand(t)'
  <2>1. t \in pool
    BY <1>9 DEF ChainStep, ChainNext, Mine, OwnerTx, Deposit, Liquidity, Price, Evict,
                Tick, vars, chainVars
  <2>2. UNCHANGED <<pc, call, attempts>>
    BY <1>9 DEF ChainStep, Tick, vars, serviceVars
  <2>3. QED
    BY <1>3, <2>1, <2>2
<1>10. ASSUME Crash PROVE FALSE
  BY <1>2, <1>10 DEF Crash
<1>11. QED
  BY <1>5, <1>6, <1>7, <1>8, <1>9, <1>10 DEF Next, Step

-----------------------------------------------------------------------------

\* A process that has just started, with an empty pool, satisfies IInv.
LEMMA InitInv == Init => IInv
<1> SUFFICES ASSUME Init PROVE IInv
  OBVIOUS
<1> USE DEF Init, ChainInit
<1>1. TypeOK
  BY NoCallType, ChainAssumption, ServiceAssumption DEF TypeOK, Steps
<1>2. Exclusive /\ OnePerNonce /\ FeesInv /\ CallInv
  BY DEF Exclusive, OnePerNonce, FeesInv, FeesWithinCaps, CallInv
<1>3. SingleActiveNonce /\ SteadyInv /\ PromiseInv /\ AuditTrail
  BY DEF SingleActiveNonce, SteadyInv, PromiseInv, AuditTrail, Exiting
<1>4. QED
  BY <1>1, <1>2, <1>3 DEF IInv

\* Every step of the service, the chain, the clock or a crash keeps IInv.
LEMMA InvStep == IInv /\ [Next]_vars => IInv'
  BY TypeStep, ExclusiveStep, OnePerNonceStep, FeesStep, CallStep, SteadyStep, PromiseStep,
     AuditStep
     DEF IInv

\* The inductive invariant holds in every reachable state.
THEOREM Invariant == Spec => []IInv
<1>1. Init => IInv
  BY InitInv
<1>2. IInv /\ [Next]_vars => IInv'
  BY InvStep
<1>3. QED
  BY <1>1, <1>2, PTL DEF Spec

\* The variables keep their types: balances in range, one table of rows, ages
\* that stop at the timeout.
THEOREM TypeSafety == Spec => []TypeOK
<1>1. IInv => TypeOK
  BY DEF IInv
<1>2. QED
  BY <1>1, Invariant, PTL

\* Unless the process restarts, loses a reply, reads from a lagging node or
\* shares the account, it tracks the nonce of everything it has in the pool.
THEOREM NonceSafety == Spec => []SingleActiveNonce
<1>1. IInv => SingleActiveNonce
  BY DEF IInv
<1>2. QED
  BY <1>1, Invariant, PTL

\* No transaction is ever sent with fees that are invalid or above a cap.
THEOREM FeeSafety == Spec => []FeesWithinCaps
<1>1. IInv => FeesWithinCaps
  BY DEF IInv, FeesInv
<1>2. QED
  BY <1>1, Invariant, PTL

\* Every live transaction has its row, but for the failures the code lets pass.
THEOREM AuditSafety == Spec => []AuditTrail
<1>1. IInv => AuditTrail
  BY DEF IInv
<1>2. QED
  BY <1>1, Invariant, PTL

\* A pending withdrawal is only replaced, under its nonce, with fees that are
\* not lower, after the timeout; or forgotten.
THEOREM ReplacementSafety == Spec => ReplacementDiscipline
<1> DEFINE Disciplined ==
      (pending # None /\ pending' # None /\ pending' # pending) =>
        /\ pending'.nonce = pending.nonce
        /\ pending'.fees.MaxFeePerGas >= pending.fees.MaxFeePerGas
        /\ pending'.fees.MaxPriorityFeePerGas >= pending.fees.MaxPriorityFeePerGas
        /\ pendingAge >= ReplacementTimeout
<1>1. IInv /\ [Next]_vars => [Disciplined]_vars
  <2> SUFFICES ASSUME IInv, Next, pending # None, pending' # None, pending' # pending
               PROVE  Disciplined
    OBVIOUS
  <2>1. PICK c \in Callers : Send(c) /\ Remember(c)
    BY DEF Next, Step, Begin, ReadPosition, RecordNoop, PreviewRedeem, Simulate, SimulateFails,
           RecordSimulationFailed, ReadNonce, ReadGasPrice, ReadTipCap, Send, RecordSubmitted,
           SendLosesReply, Fail, ChainStep, serviceVars, Tick, Crash
  <2>2. /\ pc[c] = "send"
        /\ call[c].waited <= pendingAge
        /\ call[c].waited >= ReplacementTimeout
        /\ call[c] = Replacement(c)
    BY <2>1 DEF IInv, CallInv, Send
  <2>3. pending'.nonce = pending.nonce /\ pending'.fees = Bumped(pending.fees)
    BY <2>1, <2>2 DEF Remember, TxOf, Replacement, IInv, TypeOK, Call
  <2>4. /\ Bumped(pending.fees).MaxFeePerGas >= pending.fees.MaxFeePerGas
        /\ Bumped(pending.fees).MaxPriorityFeePerGas >= pending.fees.MaxPriorityFeePerGas
    BY BumpedFees DEF IInv, FeesInv, TypeOK, Tx
  <2>5. pendingAge >= ReplacementTimeout
    BY <2>2, ServiceAssumption DEF IInv, TypeOK, Call
  <2>6. QED
    BY <2>3, <2>4, <2>5
<1>2. QED
  BY <1>1, Invariant, PTL DEF Spec, ReplacementDiscipline

-----------------------------------------------------------------------------

\* While the service is Steady the pool holds at most one transaction, which is
\* the withdrawal an onlooker sees, and it keeps what Exit asks of it.
LEMMA LiveFacts ==
  ASSUME IInv, Steady
  PROVE  /\ pool = {} => LiveExit = None
         /\ \A t \in pool : pool = {t} /\ LiveExit = t /\ Promised!Sound(t)
<1>1. ASSUME NEW t \in pool PROVE pool = {t} /\ LiveExit = t
  <2>1. \A u \in pool : u = t
    BY DEF IInv, SingleActiveNonce, OnePerNonce
  <2>2. QED
    BY <2>1 DEF LiveExit
<1>2. ASSUME NEW t \in pool PROVE Promised!Sound(t)
  <2>1. t.nonce = chainNonce /\ t.shares \in 1..shares
    BY DEF IInv, PromiseInv
  <2>2. WithinCaps(t.fees)
    BY DEF IInv, FeesInv, FeesWithinCaps
  <2>3. QED
    BY <2>1, <2>2 DEF Promised!Sound, Promised!WithinCaps, Promised!Validate, WithinCaps,
                      Validate
<1>3. QED
  BY <1>1, <1>2 DEF LiveExit

\* A transaction the node accepts is a first withdrawal, or one that outbids
\* the withdrawal it replaces.
LEMMA SendKeepsPromise ==
  ASSUME IInv, IInv', Steady, Steady', NEW c \in Callers, Send(c), Accepts(TxOf(c)),
         Broadcast(TxOf(c))
  PROVE  Promised!Submit \/ Promised!Replace
<1> DEFINE tx == TxOf(c)
<1>1. UNCHANGED <<shares, chainNonce>>
  BY DEF Send
<1>2. tx \in pool' /\ tx \in Tx /\ tx # None
  BY TxOfType, ServiceAssumption DEF Broadcast, IInv
<1>3. LiveExit' = tx
  <2>1. \A u \in pool' : u = tx
    BY <1>2 DEF IInv, SingleActiveNonce, OnePerNonce
  <2>2. QED
    BY <1>2, <2>1 DEF LiveExit
<1>4. tx.nonce = chainNonce /\ tx.shares \in 1..shares
  BY <1>1, <1>2 DEF IInv, PromiseInv
<1>5. WithinCaps(tx.fees)
  BY <1>2 DEF IInv, FeesInv, FeesWithinCaps, WithinCaps, Validate
<1>6. Promised!Sound(tx)
  BY <1>4, <1>5 DEF Promised!Sound, Promised!WithinCaps, Promised!Validate, WithinCaps, Validate
<1>7. CASE pool = {}
  <2>1. LiveExit = None
    BY <1>7, LiveFacts
  <2>2. QED
    BY <1>1, <1>2, <1>3, <1>6, <2>1 DEF Promised!Submit
<1>8. CASE pool # {}
  <2>1. PICK t \in pool : LiveExit = t /\ t.nonce = chainNonce
    BY <1>8, LiveFacts DEF IInv, PromiseInv
  <2>2. t # None
    BY <2>1, ServiceAssumption DEF IInv, TypeOK
  <2>3. Outbids(tx.fees, t.fees)
    BY <1>4, <2>1 DEF Accepts, At
  <2>4. QED
    BY <1>1, <1>2, <1>3, <1>6, <2>1, <2>2, <2>3 DEF Promised!Replace, Promised!Outbids, Outbids
<1>9. QED
  BY <1>7, <1>8

\* Every step keeps the promise of Exit, or changes nothing an onlooker sees,
\* or is one after which nothing is promised any more.
LEMMA PromiseKept == IInv /\ IInv' /\ [Next]_vars => [Promised!Next]_(Promised!exitVars)
<1> SUFFICES ASSUME IInv, IInv', [Next]_vars PROVE [Promised!Next]_(Promised!exitVars)
  OBVIOUS
<1> DEFINE Promise == \/ Promised!Submit \/ Promised!Replace \/ Promised!Settle
                      \/ Promised!Drop \/ Promised!Receive
           Stays == UNCHANGED <<pool, shares, chainNonce>>
<1>1. CASE ~Steady'
  <2>1. Steady' = FALSE
    BY <1>1
  <2>2. QED
    BY <2>1 DEF Promised!Next
<1>2. CASE Steady'
  <2>1. Steady
    BY <1>2, HappenedGrows DEF Steady
  <2>2. Steady = TRUE /\ Steady' = TRUE
    BY <1>2, <2>1 DEF Steady
  <2>3. ASSUME Promise PROVE Promised!Next
    BY <2>2, <2>3 DEF Promised!Next
  <2>4. ASSUME Stays PROVE UNCHANGED Promised!exitVars
    BY <2>2, <2>4 DEF Promised!exitVars, LiveExit
  <2>5. ASSUME NEW c \in Callers, Act(c) PROVE Promise \/ Stays
    <3>1. CASE Send(c)
      <4>1. CASE Accepts(TxOf(c)) /\ Broadcast(TxOf(c))
        BY <1>2, <2>1, <3>1, <4>1, SendKeepsPromise
      <4>2. CASE UNCHANGED pool
        BY <3>1, <4>2 DEF Send
      <4>3. QED
        BY <3>1, <4>1, <4>2 DEF Send
    <3>2. CASE SendLosesReply(c)
      BY <1>2, <3>2, NotSteady DEF SendLosesReply
    <3>3. CASE ~Send(c) /\ ~SendLosesReply(c)
      BY <2>5, <3>3 DEF Act, Step, Begin, ReadPosition, RecordNoop, PreviewRedeem,
                        Simulate, SimulateFails,
         RecordSimulationFailed, ReadNonce, ReadGasPrice, ReadTipCap, RecordSubmitted,
         Fail, chainVars
    <3>4. QED
      BY <3>1, <3>2, <3>3
  <2>6. ASSUME NEW t \in pool, Mine(t) PROVE Promised!Settle
    <3>1. pool = {t} /\ LiveExit = t /\ t # None
      BY <2>1, LiveFacts, ServiceAssumption DEF IInv, TypeOK
    <3>2. pool' = {}
      BY <2>6, <3>1 DEF Mine
    <3>3. LiveExit' = None
      BY <3>2 DEF LiveExit
    <3>4. QED
      BY <2>6, <3>1, <3>3 DEF Promised!Settle, Mine
  <2>7. ASSUME Deposit PROVE Promised!Receive
    BY <2>7, ChainAssumption DEF Promised!Receive, Deposit, LiveExit, IInv, TypeOK
  <2>8. ASSUME Evict PROVE Promised!Drop
    <3>1. PICK t \in pool : pool' = pool \ {t}
      BY <2>8 DEF Evict
    <3>2. pool = {t} /\ LiveExit = t /\ t # None
      BY <2>1, LiveFacts, ServiceAssumption DEF IInv, TypeOK
    <3>3. LiveExit' = None
      BY <3>1, <3>2 DEF LiveExit
    <3>4. QED
      BY <2>8, <3>2, <3>3 DEF Promised!Drop, Evict
  <2>9. ASSUME Liquidity \/ Price \/ Tick \/ UNCHANGED vars PROVE Stays
    BY <2>9 DEF Liquidity, Price, Tick, vars, chainVars
  <2>10. ASSUME OwnerTx \/ Crash PROVE FALSE
    BY <1>2, <2>10, NotSteady DEF OwnerTx, Crash
  <2>11. QED
    BY <2>3, <2>4, <2>5, <2>6, <2>7, <2>8, <2>9, <2>10 DEF Next, Act, ChainStep, ChainNext
<1>3. QED
  BY <1>1, <1>2

\* ExecuteFullExit implements Exit: as long as the service can know its own
\* transactions, at most one withdrawal is live, at the account's next nonce,
\* for shares the owner has and within the caps, and it is only ever replaced
\* by one that pays more.
THEOREM ExitSafety == Spec => ImplementsExit
<1>1. Init => Promised!Init
  BY ChainAssumption DEF Init, ChainInit, Promised!Init, Steady, LiveExit
<1>2. IInv /\ IInv' /\ [Next]_vars => [Promised!Next]_(Promised!exitVars)
  BY PromiseKept
<1>3. QED
  BY <1>1, <1>2, Invariant, PTL DEF Spec, ImplementsExit, Promised!Spec
=============================================================================
