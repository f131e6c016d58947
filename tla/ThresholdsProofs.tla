------------------------- MODULE ThresholdsProofs --------------------------
(***************************************************************************)
(* What commands do to the thresholds in force is valid and announced, for *)
(* every set of YAML files, users and requested values.                    *)
(***************************************************************************)
EXTENDS Thresholds, TLAPS

\* allowedThresholdKeys gives every key to one module.
LEMMA OwnModule ==
  ASSUME NEW k \in Keys
  PROVE  /\ ModuleOf(k) \in Modules
         /\ k \in KeysOf[ModuleOf(k)]
         /\ \A m \in Modules : k \in KeysOf[m] => m = ModuleOf(k)
<1>1. PICK m \in Modules : k \in KeysOf[m]
  BY DEF Keys
<1>2. ModuleOf(k) \in Modules /\ k \in KeysOf[ModuleOf(k)]
  BY <1>1 DEF ModuleOf
<1>3. \A a, b \in Modules : k \in KeysOf[a] /\ k \in KeysOf[b] => a = b
  BY DEF Modules, KeysOf
<1> QED
  BY <1>2, <1>3

\* ValidateConfig of a module looks at the thresholds of that module only.
LEMMA OwnThresholds ==
  ASSUME NEW m \in Modules, NEW f, NEW g,
         \A j \in KeysOf[m] : f[j] = g[j],
         ValidateConfig(m, f)
  PROVE  ValidateConfig(m, g)
<1>1. \A j \in KeysOf[m] : g[j] > 0
  BY DEF ValidateConfig
<1>2. m = "share_price_loss" => {"loss_warn_bps", "loss_urgent_bps"} \subseteq KeysOf[m]
  BY DEF KeysOf, Modules
<1>3. m = "withdraw_liquidity" => {"idle_warn", "idle_urgent"} \subseteq KeysOf[m]
  BY DEF KeysOf, Modules
<1>4. m = "vault_state" => "change_severity" \in KeysOf[m]
  BY DEF KeysOf, Modules
<1> QED
  BY <1>1, <1>2, <1>3, <1>4 DEF ValidateConfig

\* A change that validateChange accepts leaves a valid module valid: the one it
\* belongs to is checked, and no threshold of another is touched.
LEMMA ChangeKeepsModule ==
  ASSUME TypeOK, NEW k \in Keys, NEW v \in Nat, validateChange(k, v),
         NEW m \in Modules, m = ModuleOf(k) \/ EffectiveOK(m, overrides)
  PROVE  EffectiveOK(m, [overrides EXCEPT ![k] = v])
<1> DEFINE changed == [overrides EXCEPT ![k] = v]
<1>1. CASE m = ModuleOf(k)
  BY <1>1 DEF validateChange
<1>2. CASE m # ModuleOf(k)
  <2>1. k \notin KeysOf[m]
    BY <1>2, OwnModule
  <2>2. KeysOf[m] \subseteq Keys
    BY DEF Keys
  <2>3. \A j \in KeysOf[m] : changed[j] = overrides[j] /\ Effective(changed)[j] = Effective(overrides)[j]
    BY <2>1, <2>2 DEF TypeOK, Effective
  <2>4. EffectiveOK(m, overrides)
    BY <1>2
  <2>5. \A j \in KeysOf[m] : changed[j] # None => validateThresholdValue(j, changed[j])
    BY <2>3, <2>4 DEF EffectiveOK
  <2>6. ValidateConfig(m, Effective(overrides))
    BY <2>4 DEF EffectiveOK
  <2>7. ValidateConfig(m, Effective(changed))
    BY <2>3, <2>6, OwnThresholds
  <2> QED
    BY <2>5, <2>7 DEF EffectiveOK
<1> QED
  BY <1>1, <1>2

\* So it leaves every module valid that was, and its own.
LEMMA ChangeKeepsValid ==
  ASSUME TypeOK, EffectiveValid,
         NEW k \in Keys, NEW v \in Nat, validateChange(k, v)
  PROVE  \A m \in Modules \ (unvalidated \ {ModuleOf(k)}) : EffectiveOK(m, [overrides EXCEPT ![k] = v])
  BY ChangeKeepsModule DEF EffectiveValid

\* Another YAML file leaves a module valid unless it changes thresholds of that
\* module next to stored overrides, or to thresholds that are not in order.
LEMMA EditKeepsValid ==
  ASSUME TypeOK, EffectiveValid, Reconfigure
  PROVE  EffectiveValid'
<1> USE ThresholdsAssumption
<1>1. /\ UNCHANGED overrides
      /\ unvalidated' =
           {m \in Modules :
              IF m \in EditedBy(static')
              THEN ~ValidateConfig(m, static') \/ \E k \in KeysOf[m] : overrides[k] # None
              ELSE m \in unvalidated}
  BY DEF Reconfigure
<1> SUFFICES ASSUME NEW m \in Modules \ unvalidated'
             PROVE  EffectiveOK(m, overrides)'
  BY DEF EffectiveValid
<1>2. KeysOf[m] \subseteq Keys
  BY DEF Keys
<1>3. CASE m \notin EditedBy(static')
  <2>1. EffectiveOK(m, overrides)
    BY <1>1, <1>3 DEF EffectiveValid
  <2>2. \A k \in KeysOf[m] : Effective(overrides)[k] = Effective(overrides)'[k]
    BY <1>1, <1>2, <1>3 DEF Effective, EditedBy
  <2>3. ValidateConfig(m, Effective(overrides)')
    <3>1. ValidateConfig(m, Effective(overrides))
      BY <2>1 DEF EffectiveOK
    <3> QED
      BY <2>2, <3>1, OwnThresholds
  <2> QED
    BY <1>1, <2>1, <2>3 DEF EffectiveOK, validateThresholdValue
<1>4. CASE m \in EditedBy(static')
  <2>1. ValidateConfig(m, static') /\ \A k \in KeysOf[m] : overrides[k] = None
    BY <1>1, <1>4
  <2>2. \A k \in KeysOf[m] : static'[k] = Effective(overrides)'[k]
    BY <1>1, <1>2, <2>1 DEF Effective
  <2>3. ValidateConfig(m, Effective(overrides)')
    BY <2>1, <2>2, OwnThresholds
  <2> QED
    BY <1>1, <2>1, <2>3 DEF EffectiveOK
<1> QED
  BY <1>3, <1>4

\* No command, failure or restart takes the state out of its types.
LEMMA TypeStep ==
  ASSUME TypeOK, [Next]_thresholdVars
  PROVE  TypeOK'
<1> USE ThresholdsAssumption DEF TypeOK, lifeVars
<1>1. CASE UNCHANGED thresholdVars
  BY <1>1 DEF thresholdVars
<1>2. ASSUME NEW u \in Users, NEW k \in Asked, NEW v \in Values, BuildSetConfirmation(u, k, v)
      PROVE  TypeOK'
  <2>1. [value |-> v, age |-> 0] \in Confirmation
    <3>1. v \in Nat /\ 0 \in 0..TTL
      OBVIOUS
    <3> HIDE DEF TypeOK
    <3> QED
      BY <3>1 DEF Confirmation
  <2> QED
    BY <1>2, <2>1 DEF BuildSetConfirmation, InsertPendingConfirmation, Fault
<1>3. ASSUME NEW u \in Users, NEW owner \in Users, NEW k \in Asked, Consume(u, k, owner)
      PROVE  TypeOK'
  <2>1. confirmations[<<k, owner>>] # None => confirmations[<<k, owner>>].value \in Nat
    BY DEF Confirmation
  <2> QED
    BY <1>3, <2>1 DEF Consume, Fault, Job
<1>4. CASE Upsert
  BY <1>4 DEF Upsert, UpsertThresholdOverride, Fault, Job
<1>5. CASE RecordOverride
  BY <1>5 DEF RecordOverride, InsertEvent, Fault, Job
<1>6. CASE Tick
  <2>1. ASSUME NEW id \in Keys \X Users
        PROVE  confirmations'[id] \in Confirmation \cup {None}
    <3>1. CASE confirmations[id] = None \/ confirmations[id].age = TTL
      BY <1>6, <3>1 DEF Tick
    <3>2. CASE confirmations[id] # None /\ confirmations[id].age # TTL
      <4>1. confirmations'[id] = [confirmations[id] EXCEPT !.age = @ + 1]
        BY <1>6, <3>2 DEF Tick
      <4>2. confirmations[id] \in Confirmation /\ confirmations[id].age \in 0..TTL
        BY <3>2 DEF Confirmation
      <4>3. confirmations[id].age + 1 \in 0..TTL
        BY <3>2, <4>2
      <4> HIDE DEF TypeOK
      <4> QED
        BY <4>1, <4>2, <4>3 DEF Confirmation
    <3> QED
      BY <3>1, <3>2
  <2>2. confirmations' \in [Keys \X Users -> Confirmation \cup {None}]
    BY <1>6, <2>1 DEF Tick
  <2> QED
    BY <1>6, <2>2 DEF Tick
<1>7. CASE Lose /\ (Fault \/ UNCHANGED faults)
  BY <1>7 DEF Fault, Lose
<1>8. CASE Answered
  BY <1>8 DEF Answered
<1>9. CASE Query
  BY <1>9 DEF Query, Fault
<1>10. CASE Reconfigure
  BY <1>10 DEF Reconfigure
<1> QED
  BY <1>1, <1>2, <1>3, <1>4, <1>5, <1>6, <1>7, <1>8, <1>9, <1>10 DEF Next

\* The three facts a step keeps, together.
LEMMA InvStep ==
  ASSUME IInv, [Next]_thresholdVars
  PROVE  IInv'
<1> USE ThresholdsAssumption DEF IInv, lifeVars
<1>0. TypeOK'
  BY TypeStep
<1>1. ASSUME UNCHANGED <<overrides, static, unvalidated>>
      PROVE  EffectiveValid'
  BY <1>1 DEF EffectiveValid, EffectiveOK, Effective
<1>2. CASE UNCHANGED thresholdVars
  BY <1>0, <1>1, <1>2 DEF thresholdVars, OneCommand, OverridesAudited
<1>3. ASSUME NEW u \in Users, NEW k \in Asked, NEW v \in Values, BuildSetConfirmation(u, k, v)
      PROVE  IInv'
  <2>1. /\ UNCHANGED <<overrides, audit, job, static, unvalidated, cut>>
        /\ faults' = faults \/ faults' = faults + 1
        /\ job = None
    BY <1>3 DEF BuildSetConfirmation, InsertPendingConfirmation, Fault, OneCommand
  <2>2. faults' = 0 => faults = 0
    BY <2>1 DEF TypeOK
  <2> QED
    BY <1>0, <1>1, <2>1, <2>2 DEF OneCommand, OverridesAudited
<1>4. ASSUME NEW u \in Users, NEW owner \in Users, NEW k \in Asked, Consume(u, k, owner)
      PROVE  IInv'
  <2>1. UNCHANGED <<overrides, audit, static, unvalidated, cut>> /\ (faults' = faults \/ faults' = faults + 1)
    BY <1>4 DEF Consume, Fault
  <2>2. faults' = 0 => faults = 0
    BY <2>1 DEF TypeOK
  <2>3. job = None
    BY <1>4 DEF Consume, OneCommand
  <2>4. job' = None \/ (job'.step = "upsert" /\ reply' = "busy")
    BY <1>4, <2>3 DEF Consume
  <2> QED
    BY <1>0, <1>1, <2>1, <2>2, <2>3, <2>4 DEF OneCommand, OverridesAudited
<1>5. CASE Upsert
  <2>1. job \in Job /\ job.step = "upsert" /\ UNCHANGED <<audit, static, cut>>
    BY <1>5 DEF Upsert, UpsertThresholdOverride, TypeOK
  <2>2. CASE /\ validateChange(job.key, job.value)
             /\ overrides' = [overrides EXCEPT ![job.key] = job.value]
             /\ unvalidated' = unvalidated \ {ModuleOf(job.key)}
             /\ job' = [job EXCEPT !.step = "record"]
             /\ UNCHANGED <<reply, faults>>
    <3>1. job.key \in Keys /\ job.value \in Nat
      BY <2>1 DEF Job
    <3>2. EffectiveValid'
      <4>1. \A m \in Modules \ unvalidated' : EffectiveOK(m, overrides')
        BY <2>2, <3>1, ChangeKeepsValid
      <4>2. static' = static
        BY <2>1
      <4> QED
        BY <4>1, <4>2 DEF EffectiveValid, EffectiveOK, Effective
    <3>3. job' # None /\ job'.step = "record" /\ job'.key = job.key /\ job'.value = job.value
      BY <1>0, <2>1, <2>2 DEF Job, TypeOK
    <3>4. \A j \in Keys : overrides'[j] = IF j = job.key THEN job.value ELSE overrides[j]
      BY <2>2, <3>1 DEF TypeOK
    <3>5. OneCommand'
      BY <1>5, <2>2, <3>1, <3>3, <3>4 DEF OneCommand, Upsert, UpsertThresholdOverride
    <3>6. OverridesAudited'
      BY <2>1, <2>2, <3>3, <3>4 DEF OverridesAudited
    <3> QED
      BY <1>0, <3>2, <3>5, <3>6
  <2>3. CASE UNCHANGED <<overrides, unvalidated>> /\ job' = None /\ (faults' = faults \/ faults' = faults + 1)
    <3>1. faults' = 0 => faults = 0
      BY <2>3 DEF TypeOK
    <3> QED
      BY <1>0, <1>1, <2>1, <2>3, <3>1 DEF OneCommand, OverridesAudited
  <2> QED
    BY <1>5, <2>2, <2>3 DEF Upsert, UpsertThresholdOverride, Fault
<1>6. CASE RecordOverride
  <2>1. job \in Job /\ job.step = "record" /\ UNCHANGED <<overrides, lifeVars>> /\ job' = None
    BY <1>6 DEF RecordOverride, InsertEvent, TypeOK
  <2>2. overrides[job.key] = job.value
    BY <2>1, <1>6 DEF OneCommand, RecordOverride, InsertEvent
  <2>3. \/ audit' = [audit EXCEPT ![job.key] = job.value] /\ UNCHANGED faults
        \/ faults' = faults + 1
    BY <1>6 DEF RecordOverride, InsertEvent, Fault
  <2>4. OverridesAudited'
    BY <2>1, <2>2, <2>3 DEF OverridesAudited, TypeOK, Job
  <2> QED
    BY <1>0, <1>1, <2>1, <2>4 DEF OneCommand
<1>7. CASE Tick
  BY <1>0, <1>1, <1>7 DEF Tick, OneCommand, OverridesAudited
<1>8. CASE Lose /\ (Fault \/ UNCHANGED faults)
  <2>1. /\ UNCHANGED <<overrides, audit, static, unvalidated>> /\ job' = None
        /\ faults' = faults \/ faults' = faults + 1
        /\ ~cut' => ~cut /\ job = None
    BY <1>8 DEF Fault, Lose, TypeOK
  <2>2. faults' = 0 => faults = 0
    BY <2>1 DEF TypeOK
  <2> QED
    BY <1>0, <1>1, <2>1, <2>2 DEF OneCommand, OverridesAudited
<1>9. CASE Answered
  BY <1>0, <1>1, <1>9 DEF Answered, OneCommand, OverridesAudited
<1>10. CASE Query
  <2>1. /\ UNCHANGED <<overrides, audit, job, static, unvalidated, cut>>
        /\ faults' = faults \/ faults' = faults + 1
        /\ job = None
    BY <1>10 DEF Query, Fault, OneCommand
  <2>2. faults' = 0 => faults = 0
    BY <2>1 DEF TypeOK
  <2> QED
    BY <1>0, <1>1, <2>1, <2>2 DEF OneCommand, OverridesAudited
<1>11. CASE Reconfigure
  <2>1. EffectiveValid'
    BY <1>11, EditKeepsValid
  <2> QED
    BY <1>0, <1>11, <2>1 DEF Reconfigure, OneCommand, OverridesAudited
<1> QED
  BY <1>2, <1>3, <1>4, <1>5, <1>6, <1>7, <1>8, <1>9, <1>10, <1>11 DEF Next

\* No override and no command yet: what is in force is the YAML.
LEMMA InitInv ==
  ASSUME Init
  PROVE  IInv
<1> USE ThresholdsAssumption DEF Init
<1>1. TypeOK
  <2>1. cut \in BOOLEAN
    OBVIOUS
  <2>2. /\ overrides \in [Keys -> Nat \cup {None}]
        /\ audit \in [Keys -> Nat \cup {None}]
        /\ confirmations \in [Keys \X Users -> Confirmation \cup {None}]
    BY DEF NoConfirmations
  <2> QED
    BY <2>1, <2>2 DEF TypeOK
<1>2. Effective(overrides) = static
  BY DEF Effective
<1>3. \A m \in Modules : \A k \in KeysOf[m] : overrides[k] = None
  BY DEF Keys
<1>4. EffectiveValid
  <2>1. \A m \in Modules \ unvalidated : ValidateConfig(m, static)
    OBVIOUS
  <2> QED
    BY <1>2, <1>3, <2>1 DEF EffectiveValid, EffectiveOK
<1> QED
  BY <1>1, <1>4 DEF IInv, OneCommand, OverridesAudited

\* The inductive invariant: types, valid thresholds, and what the running
\* Confirm has stored but not yet announced.
THEOREM Invariant == Spec => []IInv
<1>1. Init => IInv
  BY InitInv
<1>2. IInv /\ [Next]_thresholdVars => IInv'
  BY InvStep
<1> QED
  BY <1>1, <1>2, PTL DEF Spec

\* No command, failure or restart takes the tables and the running Confirm out
\* of their types.
THEOREM TypeSafety == Spec => []TypeOK
<1>1. IInv => TypeOK
  BY DEF IInv
<1> QED
  BY <1>1, Invariant, PTL

\* Nothing users ask for and confirm, in any order and through any restart,
\* makes RunOnce reject a module: it can reject only one whose YAML is wrong by
\* itself or was edited under stored overrides, as long as no change to that
\* module has been confirmed since.
THEOREM EffectiveSafety == Spec => []EffectiveValid
<1>1. IInv => EffectiveValid
  BY DEF IInv
<1> QED
  BY <1>1, Invariant, PTL

\* The last security event about a threshold tells the override in force, as
\* long as no database call has failed and the process has not died.
THEOREM AuditSafety == Spec => []OverridesAudited
<1>1. IInv => OverridesAudited
  BY DEF IInv
<1> QED
  BY <1>1, Invariant, PTL
=============================================================================
