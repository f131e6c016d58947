--------------------------- MODULE TelegramProofs ---------------------------
(***************************************************************************)
(* The command loop implements Thresholds, and acknowledges to the server  *)
(* only updates it is through with, for every set of users, commands and   *)
(* values, through any failures and restarts.                              *)
(***************************************************************************)
EXTENDS Telegram, ThresholdsProofs, WellFoundedInduction

\* The update handleUpdate takes from the batch is its first.
LEMMA FirstOfBatch ==
  ASSUME NEW S \in SUBSET Nat, S # {}
  PROVE  LET id == CHOOSE n \in S : \A m \in S : n <= m
         IN  id \in S /\ \A m \in S : id <= m
<1>1. \E n \in S : \A m \in S : n <= m
  <2>1. PICK n \in S : \A m \in S : <<m, n>> \notin OpToRel(<, Nat)
    BY NatLessThanWellFounded, WFMin, Zenon
  <2>2. \A m \in S : ~(m < n)
    BY <2>1 DEF OpToRel
  <2> QED
    BY <2>2
<1> QED
  BY <1>1

\* What is known of the update the loop takes on.
LEMMA NextUpdate ==
  ASSUME TTypeOK, HandleUpdate
  PROVE  \E id \in batch :
           /\ \A m \in batch : id <= m
           /\ id \in 1..Len(sent)
           /\ sent[id] \in Command
           /\ offset' = id
           /\ batch' = batch \ {id}
           /\ \/ sent[id].user \in Users /\ dispatch(sent[id]) /\ UNCHANGED rejects
              \/ sent[id].user \notin Users /\ Reject(id)
<1> DEFINE id == CHOOSE n \in batch : \A m \in batch : n <= m
<1>1. batch \subseteq 1..Len(sent) /\ Len(sent) \in Nat /\ sent \in Seq(Command)
  BY DEF TTypeOK
<1>2. id \in batch /\ \A m \in batch : id <= m
  BY <1>1, FirstOfBatch DEF HandleUpdate
<1>3. /\ offset' = id
      /\ batch' = batch \ {id}
      /\ \/ sent[id].user \in Users /\ dispatch(sent[id]) /\ UNCHANGED rejects
         \/ sent[id].user \notin Users /\ Reject(id)
  BY DEF HandleUpdate, Advance
<1> HIDE DEF id
<1>4. id \in 1..Len(sent) /\ sent[id] \in Command
  BY <1>1, <1>2
<1> QED
  BY <1>2, <1>3, <1>4

\* Every command of the loop, failure and restart is a step of Thresholds.
LEMMA StepImplements ==
  ASSUME TTypeOK, [TNext]_vars
  PROVE  [Next]_thresholdVars
<1> USE ThresholdsAssumption, TelegramAssumption
<1>1. CASE HandleUpdate
  <2>1. PICK id \in batch :
          /\ sent[id] \in Command
          /\ \/ sent[id].user \in Users /\ dispatch(sent[id])
             \/ Reject(id)
    BY <1>1, NextUpdate
  <2>2. CASE dispatch(sent[id]) /\ sent[id].user \in Users
    <3> DEFINE command == sent[id]
    <3>1. command.key \in Asked /\ command.value \in Values /\ command.owner \in Users
      BY <2>1 DEF Command
    <3> QED
      BY <2>2, <3>1 DEF dispatch, Next
  <2>3. CASE Reject(id)
    BY <1>1, <2>3 DEF HandleUpdate, Reject, Next, Query, thresholdVars
  <2> QED
    BY <2>1, <2>2, <2>3
<1>2. CASE ConfirmStep
  BY <1>2 DEF ConfirmStep, Next
<1>3. CASE Respond
  BY <1>3 DEF Respond, Fail, Next
<1>4. CASE Fail /\ (Fault \/ UNCHANGED faults)
  BY <1>4 DEF Fail, Next
<1>5. CASE (Tick /\ Quiet) \/ (~up /\ Reconfigure /\ Quiet)
  BY <1>5 DEF Next
<1>6. CASE SendUpdate \/ GetUpdates \/ Restart \/ UNCHANGED vars
  BY <1>6 DEF SendUpdate, GetUpdates, Restart, vars
<1> QED
  BY <1>1, <1>2, <1>3, <1>4, <1>5, <1>6 DEF TNext

\* No message, failure or restart takes the loop out of its types.
LEMMA LoopTypeStep ==
  ASSUME TTypeOK, CommandUnderWay, [TNext]_vars
  PROVE  TTypeOK'
<1> USE TelegramAssumption
<1>0. TypeOK'
  BY StepImplements, TypeStep DEF TTypeOK
<1>1. Len(sent) \in Nat /\ sent \in Seq(Command)
  BY DEF TTypeOK
<1>2a. ASSUME UNCHANGED <<sent, confirmed, answered, rejects>>, up' \in BOOLEAN,
             \/ offset' = 0 /\ batch' = {}
             \/ UNCHANGED <<offset, batch>>
      PROVE  TTypeOK'
  <2>1. Len(sent') = Len(sent) /\ 0 \in 0..Len(sent)
    BY <1>1, <1>2a
  <2> QED
    BY <1>0, <1>1, <1>2a, <2>1 DEF TTypeOK
<1>2. CASE SendUpdate
  <2>1. PICK command \in Command : sent' = Append(sent, command)
    BY <1>2 DEF SendUpdate
  <2>2. sent' \in Seq(Command) /\ Len(sent') = Len(sent) + 1
    BY <1>1, <2>1
  <2> QED
    BY <1>0, <1>1, <1>2, <2>2 DEF SendUpdate, loopVars, TTypeOK
<1>3. CASE GetUpdates
  BY <1>0, <1>1, <1>3 DEF GetUpdates, TTypeOK
<1>4. CASE HandleUpdate
  <2>1. PICK id \in 1..Len(sent) :
          /\ offset' = id
          /\ batch' = batch \ {id}
          /\ UNCHANGED rejects \/ rejects' = rejects \cup {id}
    BY <1>4, NextUpdate DEF Reject
  <2>2. UNCHANGED <<sent, confirmed, up, answered>>
    BY <1>4 DEF HandleUpdate
  <2>3. Len(sent') = Len(sent) /\ offset' \in 0..Len(sent)
    BY <1>1, <2>1, <2>2
  <2>4. batch' \subseteq 1..Len(sent) /\ rejects' \subseteq 1..Len(sent)
    BY <2>1 DEF TTypeOK
  <2> QED
    BY <1>0, <2>2, <2>3, <2>4 DEF TTypeOK
<1>5. CASE ConfirmStep \/ (Tick /\ Quiet) \/ (~up /\ Reconfigure /\ Quiet)
  BY <1>2a, <1>5 DEF ConfirmStep, Quiet, loopVars, TTypeOK
<1>6. CASE Respond
  <2>1. \/ /\ answered' = answered \cup {offset}
           /\ UNCHANGED <<sent, confirmed, offset, batch, up, rejects>>
           /\ offset > 0
        \/ Stop
    BY <1>6 DEF Respond, Fail, CommandUnderWay
  <2>2. CASE Stop
    BY <1>2a, <2>2 DEF Stop
  <2>3. CASE /\ answered' = answered \cup {offset}
             /\ UNCHANGED <<sent, confirmed, offset, batch, up, rejects>>
             /\ offset > 0
    <3>1. Len(sent') = Len(sent) /\ offset \in 1..Len(sent)
      BY <1>1, <2>3 DEF TTypeOK
    <3> QED
      BY <1>0, <2>3, <3>1 DEF TTypeOK
  <2> QED
    BY <2>1, <2>2, <2>3
<1>7. CASE Fail /\ (Fault \/ UNCHANGED faults)
  BY <1>2a, <1>7 DEF Fail, Stop
<1>8. CASE Restart
  BY <1>2a, <1>8 DEF Restart
<1>9. CASE UNCHANGED vars
  BY <1>2a, <1>9 DEF vars, loopVars, TTypeOK
<1> QED
  BY <1>2, <1>3, <1>4, <1>5, <1>6, <1>7, <1>8, <1>9 DEF TNext
\* A handler leaves an answer, or a Confirm under way.
LEMMA DispatchReplies ==
  ASSUME NEW command, dispatch(command)
  PROVE  reply' \in {"busy", "ok", "error"}
  BY DEF dispatch, BuildSetConfirmation, Consume, Query

\* What one step does to the loop, as far as its updates are concerned.  The
\* four parts of the invariant are proved from it.
LEMMA LoopFacts ==
  ASSUME IInv, TTypeOK, CommandUnderWay, [TNext]_vars
  PROVE  \/ /\ \E command \in Command : sent' = Append(sent, command)
            /\ UNCHANGED <<reply, loopVars>>
         \/ GetUpdates
         \/ HandleUpdate
         \/ /\ UNCHANGED <<sent, loopVars>>
            /\ reply' = reply \/ (up /\ reply = "busy" /\ reply' \in {"busy", "ok", "error"})
         \/ /\ reply = "ok" /\ reply' = "idle"
            /\ answered' = answered \cup {offset}
            /\ UNCHANGED <<sent, confirmed, offset, batch, up, rejects>>
         \/ Stop /\ reply' = "idle"
         \/ Restart /\ reply' = reply
<1>1. CASE SendUpdate
  BY <1>1, TelegramAssumption DEF SendUpdate, thresholdVars
<1>2. CASE ConfirmStep
  <2>1. up /\ reply = "busy" /\ UNCHANGED <<sent, loopVars>>
    BY <1>2 DEF ConfirmStep, Upsert, RecordOverride, IInv, OneCommand
  <2>2. reply' \in {"busy", "ok", "error"}
    BY <1>2, <2>1 DEF ConfirmStep, Upsert, RecordOverride
  <2> QED
    BY <2>1, <2>2
<1>3. CASE Respond
  BY <1>3 DEF Respond, Answered, Fail, Lose
<1>4. CASE Fail /\ (Fault \/ UNCHANGED faults)
  BY <1>4 DEF Fail, Lose
<1>5. CASE Restart
  BY <1>5 DEF Restart, thresholdVars
<1>6. CASE (Tick /\ Quiet) \/ (~up /\ Reconfigure /\ Quiet) \/ UNCHANGED vars
  BY <1>6 DEF Tick, Reconfigure, Quiet, vars, thresholdVars
<1> QED
  BY <1>1, <1>2, <1>3, <1>4, <1>5, <1>6 DEF TNext

\* Whether the loop is through with an update is not taken back.
LEMMA DoneStays ==
  ASSUME TTypeOK, NEW id \in 1..Len(sent), Done(id),
         answered \subseteq answered', rejects \subseteq rejects',
         sent' = sent \/ (\E command \in Command : sent' = Append(sent, command))
  PROVE  Done(id)'
<1>1. sent'[id] = sent[id]
  BY DEF TTypeOK
<1> QED
  BY <1>1 DEF Done

\* What is acknowledged and what is taken on stay done, and the batch goes on
\* where they end.
LEMMA LoopInvStep ==
  ASSUME TInv, [TNext]_vars
  PROVE  TInv'
<1> USE DEF TInv
<1>0. IInv' /\ TTypeOK'
  BY StepImplements, InvStep, LoopTypeStep
<1>1. /\ Len(sent) \in Nat /\ confirmed \in 0..Len(sent) /\ offset \in 0..Len(sent)
      /\ batch \subseteq 1..Len(sent) /\ sent \in Seq(Command)
  BY DEF TTypeOK
<1>2. CASE (\E command \in Command : sent' = Append(sent, command)) /\ UNCHANGED <<reply, loopVars>>
  <2>1. \A id \in 1..Len(sent) : sent'[id] = sent[id]
    BY <1>1, <1>2
  <2>2. UNCHANGED <<reply, confirmed, offset, batch, up, answered, rejects>>
    BY <1>2 DEF loopVars
  <2>3. 1..confirmed \subseteq 1..Len(sent) /\ (confirmed + 1)..offset \subseteq 1..Len(sent)
    BY <1>1
  <2>4. \A id \in 1..Len(sent) : Done(id) => Done(id)'
    BY <2>1, <2>2 DEF Done
  <2>5. AcknowledgedIsDone' /\ TakenOnIsDone'
    BY <2>2, <2>3, <2>4 DEF AcknowledgedIsDone, TakenOnIsDone
  <2>6. BatchFollows'
    BY <2>2 DEF BatchFollows
  <2>7. CommandUnderWay'
    <3>1. offset > 0 => sent'[offset] = sent[offset]
      BY <1>1, <2>1
    <3> QED
      BY <2>2, <3>1 DEF CommandUnderWay
  <2> QED
    BY <1>0, <2>5, <2>6, <2>7
<1>3. CASE GetUpdates
  <2>1. /\ reply = "idle" /\ up
        /\ confirmed' = (IF offset > confirmed THEN offset ELSE confirmed)
        /\ batch' = (confirmed' + 1)..Len(sent)
        /\ UNCHANGED <<reply, sent, offset, up, answered, rejects>>
    BY <1>3 DEF GetUpdates, thresholdVars
  <2>2. \A id \in 1..confirmed' : Done(id)
    BY <1>1, <2>1 DEF AcknowledgedIsDone, TakenOnIsDone
  <2>3. AcknowledgedIsDone'
    BY <2>1, <2>2 DEF AcknowledgedIsDone, Done
  <2>4. offset' <= confirmed'
    BY <1>1, <2>1
  <2>5. TakenOnIsDone'
    BY <1>1, <2>1, <2>4 DEF TakenOnIsDone
  <2>6. BatchFollows'
    BY <1>1, <2>1, <2>4 DEF BatchFollows
  <2>7. CommandUnderWay'
    BY <2>1 DEF CommandUnderWay
  <2> QED
    BY <1>0, <2>3, <2>5, <2>6, <2>7
<1>4. CASE HandleUpdate
  <2>1. PICK id \in batch :
          /\ \A m \in batch : id <= m
          /\ id \in 1..Len(sent)
          /\ offset' = id
          /\ batch' = batch \ {id}
          /\ \/ sent[id].user \in Users /\ dispatch(sent[id]) /\ UNCHANGED rejects
             \/ sent[id].user \notin Users /\ Reject(id)
    BY <1>4, NextUpdate
  <2>2. up /\ reply = "idle" /\ UNCHANGED <<sent, confirmed, up, answered>>
    BY <1>4 DEF HandleUpdate
  <2>3. rejects \subseteq rejects'
    BY <2>1 DEF Reject
  <2>4. reply' # "idle" \/ (sent[id].user \notin Users /\ id \in rejects')
    BY <2>1, DispatchReplies DEF Reject
  <2>5. \A n : Done(n) => Done(n)'
    BY <2>2, <2>3 DEF Done
  <2>6. AcknowledgedIsDone'
    BY <2>2, <2>5 DEF AcknowledgedIsDone
  <2>7. TakenOnIsDone'
    <3> SUFFICES ASSUME NEW n \in (confirmed + 1)..id, n # id
                 PROVE  Done(n)
      BY <2>1, <2>2, <2>4, <2>5 DEF TakenOnIsDone, Done
    <3>1. n < id /\ n > confirmed /\ n \in Nat
      BY <1>1, <2>1
    <3>2. n \notin batch
      BY <2>1, <3>1
    <3>3. n <= offset
      BY <1>1, <2>1, <3>1, <3>2 DEF BatchFollows
    <3> QED
      BY <1>1, <2>2, <3>1, <3>3 DEF TakenOnIsDone
  <2>8. BatchFollows'
    BY <1>1, <2>1, <2>2 DEF BatchFollows
  <2>9. CommandUnderWay'
    <3>1. reply' \in {"busy", "ok"} => sent[id].user \in Users
      BY <2>1, <2>2 DEF Reject, thresholdVars
    <3> QED
      BY <2>1, <2>2, <3>1 DEF CommandUnderWay
  <2> QED
    BY <1>0, <2>6, <2>7, <2>8, <2>9
<1>5. CASE /\ UNCHANGED <<sent, loopVars>>
           /\ reply' = reply \/ (up /\ reply = "busy" /\ reply' \in {"busy", "ok", "error"})
  BY <1>0, <1>5 DEF loopVars, AcknowledgedIsDone, TakenOnIsDone, BatchFollows, CommandUnderWay, Done
<1>6. CASE /\ reply = "ok" /\ reply' = "idle"
           /\ answered' = answered \cup {offset}
           /\ UNCHANGED <<sent, confirmed, offset, batch, up, rejects>>
  <2>1. sent[offset].user \in Users /\ up
    BY <1>1, <1>6 DEF CommandUnderWay, TTypeOK
  <2>2. Done(offset)' /\ \A n : Done(n) => Done(n)'
    BY <1>0, <1>6, <2>1 DEF Done
  <2> QED
    BY <1>0, <1>6, <2>1, <2>2 DEF AcknowledgedIsDone, TakenOnIsDone, BatchFollows, CommandUnderWay
<1>7. CASE Stop /\ reply' = "idle"
  <2>1. (confirmed' + 1)..offset' = {}
    BY <1>1, <1>7 DEF Stop
  <2> QED
    BY <1>0, <1>7, <2>1 DEF Stop, AcknowledgedIsDone, TakenOnIsDone, BatchFollows, CommandUnderWay, Done
<1>8. CASE Restart /\ reply' = reply
  BY <1>0, <1>8 DEF Restart, AcknowledgedIsDone, TakenOnIsDone, BatchFollows, CommandUnderWay, Done
<1> QED
  BY <1>0, <1>2, <1>3, <1>4, <1>5, <1>6, <1>7, <1>8, LoopFacts

\* Nothing sent, nothing taken on.
LEMMA LoopInitInv ==
  ASSUME TInit
  PROVE  TInv
<1>1. IInv
  BY InitInv DEF TInit
<1>2. sent \in Seq(Command) /\ Len(sent) = 0
  BY DEF TInit
<1>3. TTypeOK
  <2>1. confirmed \in 0..Len(sent) /\ offset \in 0..Len(sent)
    BY <1>2 DEF TInit
  <2>2. batch = {} /\ answered = {} /\ rejects = {} /\ up \in BOOLEAN
    BY DEF TInit
  <2> QED
    BY <1>1, <1>2, <2>1, <2>2 DEF TTypeOK, IInv
<1> QED
  BY <1>1, <1>2, <1>3 DEF TInit, Init, TInv, AcknowledgedIsDone, TakenOnIsDone, BatchFollows,
    CommandUnderWay

\* The inductive invariant of the command loop.
THEOREM LoopInvariant == TSpec => []TInv
<1>1. TInit => TInv
  BY LoopInitInv
<1>2. TInv /\ [TNext]_vars => TInv'
  BY LoopInvStep
<1> QED
  BY <1>1, <1>2, PTL DEF TSpec

\* The loop acknowledges to the server only what it is through with, whatever
\* is sent, fails or restarts.
THEOREM AcknowledgedSafety == TSpec => []AcknowledgedIsDone
<1>1. TInv => AcknowledgedIsDone
  BY DEF TInv
<1> QED
  BY <1>1, LoopInvariant, PTL

\* The command loop implements Thresholds: what is proved of Spec holds of it.
THEOREM LoopImplementsThresholds == TSpec => ImplementsThresholds
<1>1. TInit => Init
  BY DEF TInit
<1>2. TInv /\ [TNext]_vars => [Next]_thresholdVars
  BY StepImplements DEF TInv
<1> QED
  BY <1>1, <1>2, LoopInvariant, PTL DEF TSpec, Spec, ImplementsThresholds
=============================================================================
