------------------------ MODULE MonitorServiceProofs ------------------------
(***************************************************************************)
(* The safety properties of the monitor loop, for any number of modules,   *)
(* any reports and any number of failing calls.                            *)
(***************************************************************************)
EXTENDS MonitorService, WellFoundedInduction, TLAPS

\* Some finding comes first: the order of results and findings is well-founded.
LEMMA FirstExists ==
  ASSUME NEW S \in SUBSET (Nat \X Nat), S # {}
  PROVE  \E p \in S : \A q \in S : q = p \/ Before(p, q)
<1>1. PICK R : IsWellFoundedOn(R, Nat) /\ R = {ss \in Nat \X Nat : ss[1] < ss[2]}
  BY NatLessThanWellFounded DEF OpToRel
<1>2. IsWellFoundedOn(LexPairOrdering(R, R, Nat, Nat), Nat \X Nat)
  BY <1>1, WFLexPairOrdering
<1>3. PICK p \in S : \A q \in S : <<q, p>> \notin LexPairOrdering(R, R, Nat, Nat)
  BY <1>2, WFMin
<1>4. ASSUME NEW q \in S PROVE q = p \/ Before(p, q)
  <2>1. p \in Nat \X Nat /\ q \in Nat \X Nat /\ <<q, p>> \in (Nat \X Nat) \X (Nat \X Nat)
    OBVIOUS
  <2>2. <<q[1], p[1]>> \notin R /\ ~(q[1] = p[1] /\ <<q[2], p[2]>> \in R)
    BY <1>3, <2>1 DEF LexPairOrdering
  <2>3. \A i, j \in Nat : i < j => <<i, j>> \in R
    BY <1>1
  <2>4. ~(q[1] < p[1]) /\ ~(q[1] = p[1] /\ q[2] < p[2])
    BY <2>1, <2>2, <2>3
  <2>5. q = p \/ q[1] # p[1] \/ q[2] # p[2]
    BY <2>1
  <2> QED
    BY <2>1, <2>4, <2>5 DEF Before
<1> QED
  BY <1>4

\* No finding is both before and after another.
LEMMA BeforeAsymmetric ==
  ASSUME NEW p \in Nat \X Nat, NEW q \in Nat \X Nat, Before(p, q)
  PROVE  p # q /\ ~Before(q, p)
  BY DEF Before

\* Urgent findings belong to modules that have a result.
LEMMA UrgentType ==
  ASSUME TypeOK, CollectInv
  PROVE  Urgent \subseteq Modules \X Nat /\ Urgent \in SUBSET (Nat \X Nat)
<1>1. N \in Nat /\ Len(results) <= N /\ results \in Seq(Result)
  BY MonitorAssumption DEF TypeOK, CollectInv
<1>2. DOMAIN results = 1..Len(results) /\ Len(results) \in Nat
  BY <1>1
<1>3. DOMAIN results \subseteq Modules /\ Modules \subseteq Nat
  BY <1>1, <1>2 DEF Modules
<1>4. ASSUME NEW m \in DOMAIN results PROVE DOMAIN results[m].findings \subseteq Nat
  <2>1. results[m] \in Result
    BY <1>1, <1>2
  <2>2. results[m].findings \in Seq(Severities)
    BY <2>1 DEF Result
  <2> QED
    BY <2>2
<1>5. ASSUME NEW p \in Urgent PROVE p \in Modules \X Nat /\ p \in Nat \X Nat
  <2>1. PICK m \in DOMAIN results : \E f \in DOMAIN results[m].findings : p = <<m, f>>
    BY DEF Urgent
  <2>2. PICK f \in DOMAIN results[m].findings : p = <<m, f>>
    BY <2>1
  <2>3. m \in Modules /\ m \in Nat /\ f \in Nat
    BY <1>3, <1>4
  <2> QED
    BY <2>2, <2>3
<1> QED
  BY <1>5

\* The next finding is one still to be handled, and none of those precedes it.
LEMMA NextFindingFacts ==
  ASSUME TypeOK, CollectInv, Urgent \ exited # {}
  PROVE  /\ NextFinding \in Urgent \ exited
         /\ \A q \in Urgent \ exited : ~Before(q, NextFinding)
<1> DEFINE Open == Urgent \ exited
<1>1. Open \in SUBSET (Nat \X Nat) /\ Open # {}
  BY UrgentType
<1>2. \E p \in Open : \A q \in Open : q = p \/ Before(p, q)
  BY <1>1, FirstExists
<1>3. NextFinding \in Open /\ \A q \in Open : q = NextFinding \/ Before(NextFinding, q)
  BY <1>2 DEF NextFinding
<1>4. ASSUME NEW q \in Open PROVE ~Before(q, NextFinding)
  BY <1>1, <1>3, BeforeAsymmetric
<1> QED
  BY <1>3, <1>4

\* What a module returns, and what RunOnce puts in its place, is a result.
LEMMA ResultType ==
  /\ Unknown \in Result
  /\ \A report \in Reports : [known |-> TRUE, findings |-> report] \in Result
  BY MonitorAssumption DEF Unknown, Result, Severities

\* The urgent findings follow the results.
LEMMA UrgentStep ==
  /\ results' = <<>> => Urgent' = {}
  /\ results' = results => Urgent' = Urgent
<1>1. ASSUME results' = <<>> PROVE Urgent' = {}
  <2>1. DOMAIN results' = {}
    BY <1>1
  <2> QED
    BY <2>1 DEF Urgent
<1> QED
  BY <1>1 DEF Urgent

\* RunOnce returns to a loop that waits or has stopped.
LEMMA AfterRunFacts ==
  ASSUME NEW errors
  PROVE  /\ AfterRun(errors) = "wait" \/ AfterRun(errors) = "stopped"
         /\ AfterRun(errors) = "wait" <=> ("invalid" \notin errors /\ "storage" \notin errors)
  BY DEF AfterRun, isRecoverable

-----------------------------------------------------------------------------

\* A new process, and one that has ended, have done nothing in this tick.
LEMMA FreshInv ==
  ASSUME IInv, NEW step \in {"wait", "stopped"}, Fresh(step), faults' \in 0..MaxFaults
  PROVE  IInv'
<1> USE MonitorAssumption DEF Fresh
<1>1. TypeOK'
  BY DEF IInv, TypeOK, Modules
<1>2. Urgent' = {}
  BY UrgentStep
<1>3. CollectInv' /\ HandleInv' /\ AgeInv'
  BY DEF CollectInv, HandleInv, AgeInv
<1>4. HandledInOrder' /\ ActsOnStored'
  BY <1>2 DEF HandledInOrder, ActsOnStored
<1> QED
  BY <1>1, <1>3, <1>4 DEF IInv

\* Each step of the loop keeps the types.
LEMMA TypeStep ==
  ASSUME IInv, [Next]_vars
  PROVE  TypeOK'
<1> USE MonitorAssumption DEF IInv
<1>1. Fault => faults' \in 0..MaxFaults
  BY DEF Fault, TypeOK
<1>2. CASE Tick
  <2>1. age' \in [Modules -> 0..2]
    BY <1>2 DEF Tick, TypeOK
  <2> QED
    BY <1>2, <2>1 DEF Tick, TypeOK, Modules
<1>3. ASSUME ConfigRejected, faults' \in 0..MaxFaults PROVE TypeOK'
  BY <1>3, AfterRunFacts DEF ConfigRejected, TypeOK, Errors
<1>4. CASE ValidateConfig
  BY <1>1, <1>3, <1>4 DEF ValidateConfig, TypeOK, tickVars
<1>5. CASE Monitor
  <2>1. PICK result \in Result :
          /\ results' = Append(results, result)
          /\ Latest' = [Latest EXCEPT ![at] = result]
          /\ age' = [age EXCEPT ![at] = 0]
    <3>1. CASE world[at] # None
      <4>1. world[at] \in Reports
        BY <3>1 DEF TypeOK
      <4> QED
        BY <1>5, <3>1, <4>1, ResultType DEF Monitor, Publish
    <3>2. CASE Publish(Unknown) /\ results' = Append(results, Unknown)
      BY <3>2, ResultType DEF Publish
    <3> QED
      BY <1>5, <3>1, <3>2 DEF Monitor
  <2>2. /\ results' \in Seq(Result)
        /\ Latest' \in [Modules -> Result \cup {None}]
        /\ age' \in [Modules -> 0..2]
    BY <2>1 DEF TypeOK
  <2>3. errs' \subseteq Errors
    BY <1>5 DEF Monitor, TypeOK, Errors
  <2>4. faults' \in 0..MaxFaults
    BY <1>1, <1>5 DEF Monitor, TypeOK
  <2> QED
    BY <1>5, <2>2, <2>3, <2>4 DEF Monitor, TypeOK
<1>6. CASE Store
  <2>1. stored' \subseteq Modules /\ errs' \subseteq Errors
    BY <1>6 DEF Store, InsertMonitorResult, TypeOK, Errors
  <2>2. at' \in Modules
    BY <1>6 DEF Store, MoreModules, TypeOK, Modules
  <2>3. faults' \in 0..MaxFaults
    BY <1>1, <1>6 DEF Store, TypeOK
  <2>4. pc' \in {"validate", "alert", "wait", "stopped"}
    BY <1>6, AfterRunFacts DEF Store
  <2> QED
    BY <1>6, <2>1, <2>2, <2>3, <2>4 DEF Store, TypeOK
<1>7. ASSUME pc \in {"alert", "exit"} PROVE NextFinding \in Modules \X Nat
  BY <1>7, NextFindingFacts, UrgentType DEF HandleInv
<1>8. ASSUME AlertFails, faults' \in 0..MaxFaults PROVE TypeOK'
  BY <1>8, AfterRunFacts DEF AlertFails, TypeOK, Errors
<1>9. CASE SendAlert
  BY <1>1, <1>7, <1>8, <1>9 DEF SendAlert, TypeOK
<1>10. CASE HandleUrgent
  <2>1. pc' \in {"alert", "wait", "stopped"} /\ errs' \subseteq Errors
    BY <1>10, AfterRunFacts DEF HandleUrgent, TypeOK, Errors
  <2> QED
    BY <1>7, <1>10, <2>1 DEF HandleUrgent, TypeOK
<1>11. CASE Restart \/ Cancel
  <2>1. faults' \in 0..MaxFaults
    BY <1>1, <1>11 DEF Restart, Cancel, TypeOK
  <2>2. Fresh("wait") \/ Fresh("stopped")
    BY <1>11 DEF Restart, Cancel, Halt
  <2>3. IInv'
    BY <2>1, <2>2, FreshInv
  <2> QED
    BY <2>3
<1>12. CASE WorldChanges
  BY <1>12 DEF WorldChanges, TypeOK, tickVars
<1>13. CASE UNCHANGED vars
  BY <1>13 DEF vars, tickVars, TypeOK
<1> QED
  BY <1>2, <1>4, <1>5, <1>6, <1>9, <1>10, <1>11, <1>12, <1>13 DEF Next, Step

\* The order of handling, in the form its steps need: nothing is handled yet,
\* everything handled stays so, or the next finding has been alerted.
LEMMA OrderStep ==
  ASSUME HandledInOrder, pc' # "wait" \/ ~(errs' \subseteq {"module"}) \/ exited' = Urgent',
         \/ exited' = {} /\ alerted' = {}
         \/ UNCHANGED <<results, exited, alerted>>
         \/ /\ UNCHANGED <<results, exited>>
            /\ alerted' = alerted \cup {NextFinding}
            /\ NextFinding \in Urgent
            /\ \A q \in Urgent \ exited : ~Before(q, NextFinding)
         \/ /\ UNCHANGED <<results, alerted>>
            /\ exited \subseteq exited' /\ exited' \subseteq alerted
  PROVE  HandledInOrder'
<1>1. results' = results => Urgent' = Urgent
  BY UrgentStep
<1> QED
  BY <1>1 DEF HandledInOrder

\* The loop over the modules: what it has taken, stored and published.
LEMMA CollectStep ==
  ASSUME IInv, TypeOK', Tick \/ ValidateConfig \/ ConfigRejected \/ Monitor
  PROVE  IInv'
<1> USE MonitorAssumption DEF IInv
<1>1. CASE Tick
  <2>1. CollectInv' /\ HandleInv' /\ ActsOnStored'
    BY <1>1 DEF Tick, CollectInv, HandleInv, ActsOnStored
  <2>2. AgeInv'
    BY <1>1 DEF Tick, AgeInv, TypeOK, Modules
  <2>3. HandledInOrder'
    BY <1>1, OrderStep DEF Tick
  <2> QED
    BY <2>1, <2>2, <2>3
<1>2. CASE ConfigRejected
  <2>1. pc' = "stopped" /\ UNCHANGED <<results, stored, alerted, exited>>
    BY <1>2, AfterRunFacts DEF ConfigRejected
  <2>2. CollectInv' /\ HandleInv' /\ AgeInv' /\ ActsOnStored'
    BY <2>1 DEF CollectInv, HandleInv, AgeInv, ActsOnStored
  <2>3. HandledInOrder'
    BY <2>1, OrderStep
  <2> QED
    BY <2>2, <2>3
<1>3. CASE ValidateConfig /\ ~ConfigRejected
  <2>1. /\ pc = "validate" /\ pc' = "monitor"
        /\ UNCHANGED <<at, results, stored, errs, alerted, exited, age>>
    BY <1>3 DEF ValidateConfig, tickVars
  <2>2. CollectInv' /\ HandleInv' /\ AgeInv' /\ ActsOnStored'
    BY <2>1 DEF CollectInv, HandleInv, AgeInv, ActsOnStored
  <2>3. HandledInOrder'
    BY <2>1, OrderStep
  <2> QED
    BY <2>2, <2>3
<1>4. CASE Monitor
  <2>1. /\ pc = "monitor" /\ pc' = "store" /\ UNCHANGED <<at, stored, alerted, exited>>
        /\ errs' \subseteq errs \cup {"module"} /\ errs \subseteq errs'
        /\ age' = [age EXCEPT ![at] = 0]
        /\ alerted = {} /\ exited = {}
    BY <1>4 DEF Monitor, Publish, CollectInv, HandledInOrder
  <2>2. Len(results') = at
    <3>1. PICK result : results' = Append(results, result)
      BY <1>4 DEF Monitor
    <3>2. results \in Seq(Result) /\ Len(results) = at - 1 /\ at \in Nat
      BY <2>1 DEF TypeOK, CollectInv, Modules
    <3> QED
      BY <3>1, <3>2
  <2>3. CollectInv'
    BY <2>1, <2>2 DEF CollectInv, TypeOK, Modules
  <2>4. AgeInv'
    BY <2>1 DEF AgeInv, TypeOK, Modules
  <2>5. HandledInOrder'
    BY <2>1, OrderStep
  <2> QED
    BY <2>1, <2>3, <2>4, <2>5 DEF HandleInv, ActsOnStored
<1> QED
  BY <1>1, <1>2, <1>3, <1>4

\* The end of the loop over the modules, after which the handler starts, or
\* the tick is over.
LEMMA StoreStep ==
  ASSUME IInv, TypeOK', Store
  PROVE  IInv'
<1> USE MonitorAssumption DEF IInv
<1>1. /\ pc = "store" /\ UNCHANGED <<results, age, alerted, exited>>
      /\ Len(results) = at /\ alerted = {} /\ exited = {}
      /\ errs \subseteq errs' /\ errs' \subseteq errs \cup {"storage"}
      /\ errs \subseteq {"module", "storage"}
      /\ at \in 1..N /\ N \in Nat
  BY DEF Store, CollectInv, HandledInOrder, TypeOK, Modules
<1>2. "storage" \in errs' \/ stored' = 1..at
  <2>1. "storage" \in errs' \/ (stored' = stored \cup {at} /\ errs' = errs)
    BY DEF Store, InsertMonitorResult
  <2>2. "storage" \in errs \/ stored = 1..(at - 1)
    BY <1>1 DEF CollectInv
  <2>3. 1..at = 1..(at - 1) \cup {at}
    BY <1>1
  <2> QED
    BY <1>1, <2>1, <2>2, <2>3
<1>3. Urgent' = Urgent
  BY <1>1, UrgentStep
<1>4. CASE MoreModules /\ at' = at + 1 /\ pc' = "validate"
  <2>1. at' - 1 = at
    BY <1>1, <1>4
  <2>2. CollectInv' /\ HandleInv' /\ ActsOnStored'
    BY <1>1, <1>2, <1>4, <2>1 DEF CollectInv, HandleInv, ActsOnStored
  <2>3. AgeInv'
    BY <1>1, <1>4 DEF AgeInv, Modules
  <2>4. HandledInOrder'
    BY <1>1, <1>4, OrderStep
  <2> QED
    BY <2>2, <2>3, <2>4
<1>5. CASE ~MoreModules /\ at' = at
  <2>1. at = N
    BY <1>1, <1>5 DEF MoreModules
  <2>2. \A m \in Modules : age'[m] = 0
    BY <1>1, <2>1 DEF AgeInv, Modules
  <2>3. AgeInv' /\ ActsOnStored'
    BY <1>1, <2>2 DEF AgeInv, ActsOnStored
  <2>4. CASE shouldHandle(errs') /\ Urgent # {} /\ pc' = "alert"
    <3>1. stored' = Modules /\ errs' \subseteq {"module"}
      BY <1>1, <1>2, <2>1, <2>4 DEF shouldHandle, Modules
    <3>2. CollectInv' /\ HandleInv'
      BY <1>1, <1>3, <2>4, <3>1 DEF CollectInv, HandleInv
    <3>3. HandledInOrder'
      BY <1>1, <2>4, OrderStep
    <3> QED
      BY <2>3, <3>2, <3>3
  <2>5. CASE (~shouldHandle(errs') \/ Urgent = {}) /\ pc' = AfterRun(errs')
    <3>1. pc' = "wait" \/ pc' = "stopped"
      BY <2>5, AfterRunFacts
    <3>2. pc' = "wait" => exited' = Urgent'
      BY <1>1, <1>3, <2>5, AfterRunFacts DEF shouldHandle
    <3>3. CollectInv' /\ HandleInv'
      BY <1>1, <3>1 DEF CollectInv, HandleInv
    <3>4. HandledInOrder'
      BY <1>1, <3>1, <3>2, OrderStep
    <3> QED
      BY <2>3, <3>3, <3>4
  <2> QED
    BY <1>5, <2>4, <2>5 DEF Store
<1> QED
  BY <1>4, <1>5 DEF Store

\* The handler: an alert, an exit, and the next finding in order.
LEMMA HandleStep ==
  ASSUME IInv, TypeOK', SendAlert \/ AlertFails \/ HandleUrgent
  PROVE  IInv'
<1> USE MonitorAssumption DEF IInv
<1>1. pc \in {"alert", "exit"} /\ UNCHANGED <<results, stored, age>>
  BY DEF SendAlert, AlertFails, HandleUrgent
<1>2. /\ NextFinding \in Urgent \ exited
      /\ \A q \in Urgent \ exited : ~Before(q, NextFinding)
  BY <1>1, NextFindingFacts DEF HandleInv
<1>3. stored = Modules /\ errs \subseteq {"module"}
  BY <1>1 DEF HandleInv
<1>4. Urgent' = Urgent
  BY <1>1, UrgentStep
<1>5. \A m \in Modules : age'[m] = 0
  BY <1>1 DEF AgeInv
<1>6. AgeInv' /\ ActsOnStored'
  BY <1>1, <1>3, <1>5 DEF AgeInv, ActsOnStored
<1>7. pc' \in {"alert", "exit", "wait", "stopped"}
  BY AfterRunFacts DEF SendAlert, AlertFails, HandleUrgent
<1>8. CollectInv'
  BY <1>1, <1>7 DEF CollectInv
<1>9. CASE AlertFails
  <2>1. /\ errs' = errs \cup {"handler"} /\ UNCHANGED <<alerted, exited>>
        /\ pc' = "wait" \/ pc' = "stopped"
    BY <1>9, AfterRunFacts DEF AlertFails
  <2>2. HandleInv' /\ HandledInOrder'
    BY <1>1, <2>1, OrderStep DEF HandleInv
  <2> QED
    BY <1>6, <1>8, <2>2
<1>10. CASE SendAlert /\ ~AlertFails
  <2>1. /\ pc = "alert" /\ pc' = "exit" /\ UNCHANGED <<errs, exited>>
        /\ alerted' = alerted \cup {NextFinding}
    BY <1>10 DEF SendAlert
  <2>2. NextFinding' = NextFinding
    BY <1>4, <2>1 DEF NextFinding
  <2>3. HandleInv'
    BY <1>2, <1>3, <1>1, <1>4, <2>1, <2>2 DEF HandleInv
  <2>4. HandledInOrder'
    BY <1>1, <1>2, <2>1, OrderStep
  <2> QED
    BY <1>6, <1>8, <2>3, <2>4
<1>11. CASE HandleUrgent
  <2>1. /\ pc = "exit" /\ exited' = exited \cup {NextFinding} /\ UNCHANGED alerted
        /\ alerted = exited'
    BY <1>11 DEF HandleUrgent, HandleInv
  <2>2. CASE errs' = errs \cup {"handler"} /\ pc' = AfterRun(errs')
    <3>1. pc' = "wait" \/ pc' = "stopped"
      BY <2>2, AfterRunFacts
    <3>2. HandleInv' /\ HandledInOrder'
      BY <1>1, <2>1, <2>2, <3>1, OrderStep DEF HandleInv
    <3> QED
      BY <1>6, <1>8, <3>2
  <2>3. CASE Urgent = exited' /\ pc' = AfterRun(errs)
    <3>1. pc' = "wait" \/ pc' = "stopped"
      BY <2>3, AfterRunFacts
    <3>2. HandleInv' /\ HandledInOrder'
      BY <1>1, <1>4, <2>1, <2>3, <3>1, OrderStep DEF HandleInv
    <3> QED
      BY <1>6, <1>8, <3>2
  <2>4. CASE Urgent # exited' /\ pc' = "alert" /\ UNCHANGED errs
    <3>1. exited' \subseteq Urgent
      BY <1>2, <2>1 DEF HandledInOrder
    <3>2. HandleInv'
      BY <1>1, <1>3, <1>4, <2>1, <2>4, <3>1 DEF HandleInv
    <3>3. HandledInOrder'
      BY <1>1, <2>1, <2>4, OrderStep
    <3> QED
      BY <1>6, <1>8, <3>2, <3>3
  <2> QED
    BY <1>11, <2>2, <2>3, <2>4 DEF HandleUrgent
<1> QED
  BY <1>9, <1>10, <1>11

\* What happens around the loop disturbs nothing: overrides that are rejected,
\* an alert that cannot be sent, the end of the process, a failure elsewhere.
LEMMA OutsideStep ==
  ASSUME IInv, faults' \in 0..MaxFaults,
         \/ ConfigRejected
         \/ AlertFails
         \/ Halt
         \/ WorldChanges
         \/ UNCHANGED <<world, pc, tickVars, Latest, age>>
  PROVE  IInv'
<1> USE MonitorAssumption DEF IInv
<1>1. CASE Halt
  BY <1>1, FreshInv DEF Halt
<1>2. CASE ConfigRejected
  <2>1. TypeOK'
    BY <1>2, AfterRunFacts DEF ConfigRejected, TypeOK, Errors
  <2> QED
    BY <1>2, <2>1, CollectStep
<1>3. CASE AlertFails
  <2>1. TypeOK'
    BY <1>3, AfterRunFacts DEF AlertFails, TypeOK, Errors
  <2> QED
    BY <1>3, <2>1, HandleStep
<1>4. CASE WorldChanges \/ UNCHANGED <<world, pc, tickVars, Latest, age>>
  <2>1. /\ UNCHANGED <<pc, at, results, stored, errs, alerted, exited, Latest, age>>
        /\ world' \in [Modules -> Reports \cup {None}]
    BY <1>4 DEF WorldChanges, tickVars, TypeOK
  <2>2. Urgent' = Urgent /\ NextFinding' = NextFinding
    BY <2>1 DEF Urgent, NextFinding
  <2>3. TypeOK'
    BY <2>1 DEF TypeOK
  <2> QED
    BY <2>1, <2>2, <2>3
       DEF CollectInv, HandleInv, AgeInv, HandledInOrder, ActsOnStored
<1> QED
  BY <1>1, <1>2, <1>3, <1>4

\* Every step of the loop, its restarts and its surroundings keeps IInv.
LEMMA InvStep ==
  ASSUME IInv, [Next]_vars
  PROVE  IInv'
<1>1. TypeOK'
  BY TypeStep
<1>2. CASE Restart \/ Cancel
  <2>1. faults' \in 0..MaxFaults
    BY <1>1 DEF TypeOK
  <2>2. Fresh("wait") \/ Fresh("stopped")
    BY <1>2 DEF Restart, Cancel, Halt
  <2> QED
    BY <2>1, <2>2, FreshInv
<1>3. CASE WorldChanges \/ UNCHANGED vars
  BY <1>1, <1>3, OutsideStep DEF vars, TypeOK
<1> QED
  BY <1>1, <1>2, <1>3, CollectStep, StoreStep, HandleStep DEF Next, Step

-----------------------------------------------------------------------------

\* A process that has not started yet has done nothing.
LEMMA InitInv ==
  ASSUME Init
  PROVE  IInv
<1> USE MonitorAssumption DEF Init
<1>1. TypeOK
  BY DEF TypeOK, Modules
<1>2. Urgent = {}
  BY DEF Urgent
<1> QED
  BY <1>1, <1>2 DEF IInv, CollectInv, HandleInv, AgeInv, HandledInOrder, ActsOnStored

\* The inductive invariant of the monitor loop holds in every reachable state.
THEOREM Invariant == Spec => []IInv
<1>1. Init => IInv
  BY InitInv
<1>2. IInv /\ [Next]_vars => IInv'
  BY InvStep
<1> QED
  BY <1>1, <1>2, PTL DEF Spec

\* The variables of a tick keep their types, with any number of modules.
THEOREM TypeSafety == Spec => []TypeOK
<1>1. IInv => TypeOK
  BY DEF IInv
<1> QED
  BY <1>1, Invariant, PTL

\* Urgent findings are alerted before they are withdrawn for, in order, and
\* none is left out when no alert, exit or insert has failed.
THEOREM HandlingSafety == Spec => []HandledInOrder
<1>1. IInv => HandledInOrder
  BY DEF IInv
<1> QED
  BY <1>1, Invariant, PTL

\* Nothing is announced or withdrawn before the whole tick is in the database.
THEOREM StoredSafety == Spec => []ActsOnStored
<1>1. IInv => ActsOnStored
  BY DEF IInv
<1> QED
  BY <1>1, Invariant, PTL

\* The snapshot /stats shows is never older than the last tick.
THEOREM FreshSafety == Spec => []LatestFresh
<1>1. IInv => LatestFresh
  BY DEF IInv, AgeInv, LatestFresh
<1> QED
  BY <1>1, Invariant, PTL
=============================================================================
