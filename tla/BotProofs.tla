----------------------------- MODULE BotProofs ------------------------------
(***************************************************************************)
(* The whole process keeps what its parts promise, for every set of users, *)
(* commands, configured modules and fallback clients: the theorems about   *)
(* Thresholds, Telegram and MonitorService hold of it, and the two loops,  *)
(* main and the operator do not break them for each other.                 *)
(***************************************************************************)
EXTENDS Bot, TelegramProofs

\* The theorems about the monitor loop, for the configured modules.
MonP == INSTANCE MonitorServiceProofs WITH N <- Len(Watched), pc <- mpc, faults <- mfaults

\* The configuration is one that MonitorService and its theorems are about.
LEMMA WatchedFacts ==
  /\ Len(Watched) \in Nat \ {0}
  /\ MonP!MonitorAssumption
  /\ \A i \in 1..Len(Watched) : Watched[i] \in Modules
<1>1. Len(Watched) \in Nat \ {0} /\ \A i \in 1..Len(Watched) : Watched[i] \in Modules
  BY BotAssumption
<1>2. MonP!MonitorAssumption
  BY <1>1, BotAssumption, ThresholdsAssumption DEF MonP!MonitorAssumption, MonP!Severities
<1> QED
  BY <1>1, <1>2

\* The invariant of the monitor loop, as the process has it.
LEMMA SameInv == Mon!IInv <=> MonP!IInv
<1>1. Mon!TypeOK <=> MonP!TypeOK
  BY DEF Mon!TypeOK, MonP!TypeOK, Mon!Modules, MonP!Modules, Mon!Result, MonP!Result,
    Mon!Errors, MonP!Errors, Mon!Severities, MonP!Severities
<1>2. Mon!Urgent = MonP!Urgent
  BY DEF Mon!Urgent, MonP!Urgent
<1>3. \A p, q : Mon!Before(p, q) <=> MonP!Before(p, q)
  BY DEF Mon!Before, MonP!Before
<1>4. Mon!NextFinding = MonP!NextFinding
  BY <1>2 DEF Mon!NextFinding, MonP!NextFinding, Mon!Before, MonP!Before
<1>5. Mon!HandledInOrder <=> MonP!HandledInOrder
  BY <1>2, <1>3 DEF Mon!HandledInOrder, MonP!HandledInOrder
<1>6. Mon!CollectInv <=> MonP!CollectInv
  BY DEF Mon!CollectInv, MonP!CollectInv
<1>7. Mon!HandleInv <=> MonP!HandleInv
  BY <1>2, <1>4 DEF Mon!HandleInv, MonP!HandleInv, Mon!Modules, MonP!Modules
<1>8. Mon!AgeInv <=> MonP!AgeInv
  BY DEF Mon!AgeInv, MonP!AgeInv, Mon!Modules, MonP!Modules
<1>9. Mon!ActsOnStored <=> MonP!ActsOnStored
  BY DEF Mon!ActsOnStored, MonP!ActsOnStored, Mon!Modules, MonP!Modules
<1> QED
  BY <1>1, <1>5, <1>6, <1>7, <1>8, <1>9 DEF Mon!IInv, MonP!IInv

\* And its steps.
LEMMA SameSteps ==
  /\ Mon!Tick => MonP!Tick
  /\ Mon!ValidateConfig => MonP!ValidateConfig
  /\ Mon!ConfigRejected => MonP!ConfigRejected
  /\ Mon!Monitor => MonP!Monitor
  /\ Mon!Store => MonP!Store
  /\ Mon!SendAlert => MonP!SendAlert
  /\ Mon!AlertFails => MonP!AlertFails
  /\ Mon!HandleUrgent => MonP!HandleUrgent
  /\ Mon!Restart => MonP!Restart
  /\ Mon!Halt => MonP!Halt
  /\ Mon!WorldChanges => MonP!WorldChanges
<1> USE DEF Mon!Modules, MonP!Modules, Mon!tickVars, MonP!tickVars, Mon!Fault, MonP!Fault,
      Mon!AfterRun, MonP!AfterRun, Mon!isRecoverable, MonP!isRecoverable
<1>1. Mon!Tick => MonP!Tick
  BY DEF Mon!Tick, MonP!Tick
<1>2. Mon!ConfigRejected => MonP!ConfigRejected
  BY DEF Mon!ConfigRejected, MonP!ConfigRejected
<1>3. Mon!ValidateConfig => MonP!ValidateConfig
  BY <1>2 DEF Mon!ValidateConfig, MonP!ValidateConfig
<1>4. Mon!Monitor => MonP!Monitor
  BY DEF Mon!Monitor, MonP!Monitor, Mon!Publish, MonP!Publish, Mon!Unknown, MonP!Unknown
<1>5. Mon!Urgent = MonP!Urgent /\ Mon!NextFinding = MonP!NextFinding
  BY DEF Mon!Urgent, MonP!Urgent, Mon!NextFinding, MonP!NextFinding, Mon!Before, MonP!Before
<1>6. Mon!Store => MonP!Store
  BY <1>5 DEF Mon!Store, MonP!Store, Mon!InsertMonitorResult, MonP!InsertMonitorResult,
    Mon!MoreModules, MonP!MoreModules, Mon!shouldHandle, MonP!shouldHandle
<1>7. Mon!AlertFails => MonP!AlertFails
  BY DEF Mon!AlertFails, MonP!AlertFails
<1>8. Mon!SendAlert => MonP!SendAlert
  BY <1>5, <1>7 DEF Mon!SendAlert, MonP!SendAlert
<1>9. Mon!HandleUrgent => MonP!HandleUrgent
  BY <1>5 DEF Mon!HandleUrgent, MonP!HandleUrgent
<1>10. (Mon!Restart => MonP!Restart) /\ (Mon!Halt => MonP!Halt)
  BY DEF Mon!Restart, MonP!Restart, Mon!Halt, MonP!Halt, Mon!Fresh, MonP!Fresh
<1>11. Mon!WorldChanges => MonP!WorldChanges
  BY DEF Mon!WorldChanges, MonP!WorldChanges
<1> QED
  BY <1>1, <1>2, <1>3, <1>4, <1>6, <1>7, <1>8, <1>9, <1>10, <1>11

-----------------------------------------------------------------------------

\* A failing call counts up to the bound.
LEMMA FaultType ==
  ASSUME Mon!TypeOK
  PROVE  /\ mfaults \in 0..MaxFaults
         /\ Mon!Fault => mfaults' \in 0..MaxFaults /\ mfaults' > mfaults
  BY ThresholdsAssumption DEF Mon!TypeOK, Mon!Fault

\* Seen from the command loop, all that happens in the process is a step of
\* Telegram: main only starts and ends it.
LEMMA StepImplementsTelegram ==
  ASSUME BInv, [BNext]_botVars
  PROVE  [TNext]_vars
<1>1. CASE TelegramStep
  BY <1>1 DEF TelegramStep, TelegramCalls, TelegramAnswers, TNext, Respond
<1>2. CASE MonitorStep \/ TelegramFails
  BY <1>2 DEF MonitorStep, TelegramFails, TelegramIdle
<1>3. ASSUME Forget PROVE [TNext]_vars
  <2>1. CASE up
    BY <1>3, <2>1 DEF Forget, Fail, TNext
  <2>2. CASE ~up
    <3>1. offset = 0 /\ batch = {} /\ reply = "idle" /\ up \in BOOLEAN /\ cut \in BOOLEAN
      BY <2>2 DEF BInv, TInv, CommandUnderWay, TTypeOK, TypeOK
    <3>2. job = None
      BY <3>1 DEF BInv, TInv, IInv, OneCommand
    <3> QED
      BY <1>3, <2>2, <3>1, <3>2 DEF Forget, Lose, Stop, vars, thresholdVars, lifeVars, loopVars
  <2> QED
    BY <2>1, <2>2
<1>4. CASE MainStep
  <2>1. CASE TelegramIdle
    BY <2>1 DEF TelegramIdle
  <2>2. CASE Launch
    BY <2>2 DEF Launch, TNext
  <2>3. CASE Forget
    BY <1>3, <2>3
  <2> QED
    BY <1>4, <2>1, <2>2, <2>3 DEF MainStep, StartUp, CancelLoops
<1>5. CASE Crash
  BY <1>3, <1>5 DEF Crash
<1>6. CASE Outside
  <2>1. CASE Deploy
    <3>1. ~up
      BY <2>1 DEF Deploy, BInv, LoopsUnderMain
    <3> QED
      BY <2>1, <3>1 DEF Deploy, TNext, Quiet, vars
  <2>2. CASE SendUpdate \/ (Tick /\ Quiet) \/ TelegramIdle
    BY <2>2 DEF TNext, TelegramIdle
  <2> QED
    BY <1>6, <2>1, <2>2 DEF Outside
<1>7. CASE UNCHANGED botVars
  BY <1>7 DEF botVars
<1> QED
  BY <1>1, <1>2, <1>4, <1>5, <1>6, <1>7 DEF BNext

\* Seen from the monitor loop, it is a step of MonitorService, or one of its
\* surroundings that leaves its invariant alone.
LEMMA MonitorInvStep ==
  ASSUME BInv, [BNext]_botVars
  PROVE  Mon!IInv'
<1>1. MonP!IInv /\ Mon!TypeOK
  BY SameInv DEF BInv, Mon!IInv
<1>2. (Mon!IInv <=> MonP!IInv)'
  BY SameInv, PTL
<1>3. ASSUME MonP!Step PROVE Mon!IInv'
  BY <1>1, <1>2, <1>3, WatchedFacts, MonP!InvStep DEF MonP!Next
<1>4. ASSUME mfaults' \in 0..MaxFaults,
             \/ Mon!ConfigRejected
             \/ Mon!AlertFails
             \/ Mon!Halt
             \/ Mon!WorldChanges
             \/ UNCHANGED monitorVars
      PROVE  Mon!IInv'
  <2>1. \/ MonP!ConfigRejected \/ MonP!AlertFails \/ MonP!Halt \/ MonP!WorldChanges
        \/ UNCHANGED <<world, mpc, MonP!tickVars, Latest, age>>
    BY <1>4, SameSteps DEF monitorVars, MonP!tickVars
  <2> QED
    BY <1>1, <1>2, <1>4, <2>1, WatchedFacts, MonP!OutsideStep
<1>5. mfaults' = mfaults \/ Mon!Fault => mfaults' \in 0..MaxFaults
  BY <1>1, FaultType
<1>6. CASE TelegramStep \/ UNCHANGED botVars
  BY <1>4, <1>5, <1>6 DEF TelegramStep, MonitorIdle, botVars
<1>7. CASE MonitorStep
  <2>1. CASE Mon!ConfigRejected /\ UNCHANGED mfaults
    BY <1>4, <1>5, <2>1
  <2>2. CASE Mon!AlertFails /\ UNCHANGED mfaults
    BY <1>4, <1>5, <2>2
  <2>3. CASE \/ Mon!Tick \/ Mon!ValidateConfig \/ Mon!Monitor \/ Mon!Store \/ Mon!SendAlert
             \/ Mon!HandleUrgent
    BY <1>3, <2>3, SameSteps DEF MonP!Step
  <2> QED
    BY <1>7, <2>1, <2>2, <2>3 DEF MonitorStep, MonitorCalls, MonitorAlerts
<1>8. CASE MainStep
  <2>1. CASE MonitorIdle
    BY <1>4, <1>5, <2>1 DEF MonitorIdle
  <2>2. CASE StartUp
    BY <1>4, <1>5, <2>2 DEF StartUp
  <2>3. CASE Launch
    BY <1>3, <2>3, SameSteps DEF Launch, MonP!Step
  <2>4. CASE Forget /\ UNCHANGED mfaults
    BY <1>4, <1>5, <2>4 DEF Forget
  <2> QED
    BY <1>8, <2>1, <2>2, <2>3, <2>4 DEF MainStep, CancelLoops
<1>9. CASE Crash
  BY <1>4, <1>5, <1>9 DEF Crash, Forget
<1>10. CASE TelegramFails
  BY <1>4, <1>5, <1>10 DEF TelegramFails
<1>11. CASE Outside
  <2>1. CASE MonitorIdle
    BY <1>4, <1>5, <2>1 DEF MonitorIdle
  <2>2. CASE Mon!WorldChanges
    <3>1. UNCHANGED mfaults
      BY <2>2 DEF Mon!WorldChanges
    <3> QED
      BY <1>4, <1>5, <2>2, <3>1
  <2> QED
    BY <1>11, <2>1, <2>2 DEF Outside
<1> QED
  BY <1>6, <1>7, <1>8, <1>9, <1>10, <1>11 DEF BNext

\* What a step does to main and its handles.
LEMMA MainFacts ==
  ASSUME [BNext]_botVars
  PROVE  \/ \E ok \in BOOLEAN : Rt!StartUp(ok)
         \/ Rt!Begin \/ Rt!Launch \/ Rt!Cancel \/ Rt!Cleanup \/ Rt!Close
         \/ main' = "off" /\ open' = {} /\ UNCHANGED deployed
         \/ UNCHANGED <<main, open>> /\ (deployed' = deployed \/ deployed' \in Rt!Deployments)
<1>1. CASE TelegramStep \/ MonitorStep \/ TelegramFails \/ UNCHANGED botVars
  BY <1>1 DEF TelegramStep, MonitorStep, TelegramFails, MainIdle, runtimeVars, botVars
<1>2. CASE MainStep
  BY <1>2 DEF MainStep, StartUp, Launch, CancelLoops
<1>3. CASE Crash
  BY <1>3 DEF Crash
<1>4. CASE Outside
  BY <1>4 DEF Outside, Deploy, MainIdle, runtimeVars
<1> QED
  BY <1>1, <1>2, <1>3, <1>4 DEF BNext

\* Every step of Run leaves open what the next one expects, and what a failing
\* step and its callers close is all there was.
LEMMA HandlesStep ==
  ASSUME Rt!TypeOK, Rt!HandlesByStep, [BNext]_botVars
  PROVE  Rt!TypeOK' /\ Rt!HandlesByStep'
<1> USE DEF Rt!TypeOK, Rt!HandlesByStep, Rt!Handles, Rt!Clients
<1>1. ASSUME NEW ok \in BOOLEAN, Rt!StartUp(ok)
      PROVE  Rt!TypeOK' /\ Rt!HandlesByStep'
  <2>1. CASE Rt!LoadConfig(ok) \/ Rt!LoadSecrets(ok) \/ Rt!ParseAddress(ok)
    BY <2>1 DEF Rt!LoadConfig, Rt!LoadSecrets, Rt!ParseAddress, Rt!Checks
  <2>2. CASE Rt!DialMulti(ok)
    BY <2>2 DEF Rt!DialMulti
  <2>3. CASE Rt!BuildModules(ok)
    BY <2>3 DEF Rt!BuildModules
  <2>4. CASE Rt!SetupRuntimeLogger(ok)
    BY <2>4 DEF Rt!SetupRuntimeLogger
  <2>5. CASE Rt!OpenStorage(ok)
    BY <2>5 DEF Rt!OpenStorage
  <2>6. CASE Rt!NewTelegramBot(ok)
    BY <2>6 DEF Rt!NewTelegramBot
  <2> QED
    BY <1>1, <2>1, <2>2, <2>3, <2>4, <2>5, <2>6 DEF Rt!StartUp
<1>2. CASE Rt!Begin \/ Rt!Launch \/ Rt!Cancel
  BY <1>2 DEF Rt!Begin, Rt!Launch, Rt!Cancel
<1>3. CASE Rt!Cleanup \/ Rt!Close
  BY <1>3 DEF Rt!Cleanup, Rt!Close
<1>4. CASE main' = "off" /\ open' = {} /\ UNCHANGED deployed
  BY <1>4
<1>5. CASE UNCHANGED <<main, open>> /\ (deployed' = deployed \/ deployed' \in Rt!Deployments)
  BY <1>5 DEF Rt!Deployments
<1> QED
  BY <1>1, <1>2, <1>3, <1>4, <1>5, MainFacts

\* main starts both loops at once, and has seen them end, or ends them, before
\* it is through.
LEMMA LoopsStep ==
  ASSUME BInv, [BNext]_botVars
  PROVE  LoopsUnderMain' /\ grace' \subseteq {"telegram", "monitor"} /\ outage' \in BOOLEAN
<1> USE DEF BInv, LoopsUnderMain
<1>1. CASE TelegramStep
  <2>1. UNCHANGED <<main, mpc, outage>> /\ grace' \subseteq grace
    BY <1>1 DEF TelegramStep, MonitorIdle, MainIdle, monitorVars, runtimeVars, TelegramCalls,
      TelegramAnswers, MayCall
  <2>2. ~up => reply = "idle" /\ UNCHANGED up
    <3>1. ~up => reply = "idle"
      BY DEF TInv, CommandUnderWay
    <3> QED
      BY <1>1, <3>1 DEF TelegramStep, TelegramCalls, TelegramAnswers, HandleUpdate, ConfirmStep,
        GetUpdates, Fail, Respond
  <2> QED
    BY <2>1, <2>2
<1>2. CASE MonitorStep
  <2>1. UNCHANGED <<main, up, outage>> /\ grace' \subseteq grace
    BY <1>2 DEF MonitorStep, TelegramIdle, MainIdle, vars, loopVars, runtimeVars, MonitorCalls,
      MonitorAlerts, MayCall
  <2>2. mpc # "stopped"
    BY <1>2 DEF MonitorStep, MonitorCalls, MonitorAlerts, Mon!Tick, Mon!ValidateConfig,
      Mon!ConfigRejected, Mon!Monitor, Mon!Store, Mon!HandleUrgent, Mon!SendAlert, Mon!AlertFails
  <2> QED
    BY <2>1, <2>2
<1>3. CASE MainStep
  <2>1. CASE Forget /\ UNCHANGED outage
    BY <2>1 DEF Forget, Stop, Mon!Halt, Mon!Fresh
  <2>2. CASE Launch
    BY <2>2 DEF Launch, Rt!Launch
  <2>3. CASE CancelLoops
    BY <2>3 DEF CancelLoops, Rt!Cancel
  <2>4. CASE TelegramIdle /\ MonitorIdle /\ UNCHANGED <<grace, outage>> /\ (Rt!Begin \/ Rt!Cleanup)
    BY <2>4 DEF TelegramIdle, MonitorIdle, vars, loopVars, monitorVars, Rt!Begin, Rt!Cleanup
  <2>5. CASE StartUp
    <3>1. UNCHANGED <<up, mpc, grace, outage>>
      BY <2>5 DEF StartUp, TelegramIdle, vars, loopVars, monitorVars
    <3>2. main \notin {"running", "cancelled", "closing"}
      BY <2>5 DEF StartUp, Rt!StartUp, Rt!LoadConfig, Rt!LoadSecrets, Rt!ParseAddress, Rt!DialMulti,
        Rt!BuildModules, Rt!SetupRuntimeLogger, Rt!OpenStorage, Rt!NewTelegramBot
    <3> QED
      BY <3>1, <3>2
  <2> QED
    BY <1>3, <2>1, <2>2, <2>3, <2>4, <2>5 DEF MainStep
<1>4. CASE Crash
  BY <1>4 DEF Crash, Forget, Stop, Mon!Halt, Mon!Fresh
<1>5. CASE TelegramFails
  BY <1>5 DEF TelegramFails, TelegramIdle, MainIdle, vars, loopVars, runtimeVars, monitorVars
<1>6. CASE Outside
  <2>1. UNCHANGED <<main, up, grace, outage>>
    BY <1>6 DEF Outside, SendUpdate, Deploy, Quiet, MainIdle, TelegramIdle, vars, loopVars, runtimeVars
  <2>2. UNCHANGED mpc
    BY <1>6 DEF Outside, MonitorIdle, monitorVars, Mon!WorldChanges
  <2> QED
    BY <2>1, <2>2
<1>7. CASE UNCHANGED botVars
  BY <1>7 DEF botVars, vars, loopVars, runtimeVars, monitorVars
<1> QED
  BY <1>1, <1>2, <1>3, <1>4, <1>5, <1>6, <1>7 DEF BNext

-----------------------------------------------------------------------------

\* The YAML thresholds change only between two lives of the process, and the
\* overrides only by a change that validateChange accepts at that moment.
LEMMA OverridesStep ==
  ASSUME BInv, [BNext]_botVars, main # "off"
  PROVE  /\ static' = static
         /\ \/ overrides' = overrides
            \/ \E k \in Keys, v \in Nat :
                 validateChange(k, v) /\ overrides' = [overrides EXCEPT ![k] = v]
<1>1. static' = static
  <2>1. CASE TelegramStep
    <3>1. CASE HandleUpdate
      <4>1. \E id \in batch : dispatch(sent[id]) \/ Reject(id)
        BY <3>1, NextUpdate DEF BInv, TInv
      <4> QED
        BY <4>1 DEF dispatch, Reject, BuildSetConfirmation, Consume, Query, thresholdVars, lifeVars
    <3>2. CASE ConfirmStep \/ GetUpdates \/ Fail \/ Respond
      BY <3>2 DEF ConfirmStep, Upsert, RecordOverride, GetUpdates, Fail, Respond, Answered, Lose,
        thresholdVars, lifeVars
    <3> QED
      BY <2>1, <3>1, <3>2 DEF TelegramStep, TelegramCalls, TelegramAnswers
  <2>2. CASE TelegramIdle \/ UNCHANGED botVars
    BY <2>2 DEF TelegramIdle, botVars, vars, thresholdVars, lifeVars
  <2>3. CASE Forget
    BY <2>3 DEF Forget, Lose
  <2>4. CASE Launch
    BY <2>4 DEF Launch, Restart, thresholdVars, lifeVars
  <2>5. CASE SendUpdate \/ Tick
    BY <2>5 DEF SendUpdate, Tick, thresholdVars, lifeVars
  <2> QED
    BY <2>1, <2>2, <2>3, <2>4, <2>5
       DEF BNext, MonitorStep, MainStep, StartUp, CancelLoops, Crash, TelegramFails, Outside, Deploy
<1>2. [Next]_thresholdVars /\ TypeOK
  BY StepImplementsTelegram, StepImplements DEF BInv, TInv, TTypeOK
<1>3. CASE Upsert
  <2>1. job \in Job
    BY <1>2, <1>3 DEF Upsert, TypeOK
  <2>2. job.key \in Keys /\ job.value \in Nat
    BY <2>1 DEF Job
  <2> QED
    BY <1>1, <1>3, <2>2 DEF Upsert, UpsertThresholdOverride
<1>4. CASE ~Upsert
  BY <1>1, <1>2, <1>4 DEF Next, BuildSetConfirmation, Consume, RecordOverride, Query, Tick, Lose,
    Reconfigure, Answered, thresholdVars
<1> QED
  BY <1>3, <1>4

\* A module that was accepted stays so while its turn lasts, whatever the other
\* goroutine confirms meanwhile.
LEMMA AcceptedStays ==
  ASSUME BInv, [BNext]_botVars, main # "off", Accepted, at' = at
  PROVE  Accepted'
<1> DEFINE m == Watched[at]
<1>1. m \in Modules /\ TypeOK
  BY WatchedFacts DEF BInv, TInv, TTypeOK, Mon!IInv, Mon!TypeOK, Mon!Modules
<1>2. EffectiveOK(m, overrides)
  BY DEF Accepted
<1>3. static' = static
  BY OverridesStep
<1>4. EffectiveOK(m, overrides')
  <2>1. CASE overrides' = overrides
    BY <1>2, <2>1
  <2>2. ASSUME NEW k \in Keys, NEW v \in Nat, validateChange(k, v),
               overrides' = [overrides EXCEPT ![k] = v]
        PROVE  EffectiveOK(m, overrides')
    BY <1>1, <1>2, <2>2, ChangeKeepsModule
  <2> QED
    BY <2>1, <2>2, OverridesStep
<1> QED
  BY <1>3, <1>4 DEF Accepted, EffectiveOK, Effective

\* RunOnce calls Monitor of the module it has just validated.
LEMMA ValidStep ==
  ASSUME BInv, [BNext]_botVars
  PROVE  ValidatedStaysValid'
<1> SUFFICES ASSUME mpc' = "monitor" PROVE Accepted'
  BY DEF ValidatedStaysValid
<1>1. at' = at /\ mpc # "stopped" /\ Accepted
  <2>1. CASE mpc = "monitor" /\ UNCHANGED <<mpc, at>>
    BY <2>1 DEF BInv, ValidatedStaysValid
  <2>2. CASE MonitorStep
    BY <2>2
       DEF MonitorStep, MonitorCalls, MonitorAlerts, Mon!Tick, Mon!ValidateConfig, Mon!ConfigRejected,
           Mon!Monitor, Mon!Store, Mon!HandleUrgent, Mon!SendAlert, Mon!AlertFails, Mon!AfterRun,
           Mon!tickVars
  <2>3. CASE MonitorIdle \/ UNCHANGED monitorVars
    BY <2>1, <2>3 DEF MonitorIdle, monitorVars
  <2>4. CASE Forget \/ Launch
    BY <2>4 DEF Forget, Launch, Mon!Halt, Mon!Restart, Mon!Fresh
  <2>5. CASE Mon!WorldChanges
    BY <2>1, <2>5 DEF Mon!WorldChanges, Mon!tickVars
  <2> QED
    BY <2>2, <2>3, <2>4, <2>5
       DEF BNext, TelegramStep, MainStep, StartUp, CancelLoops, Crash, TelegramFails, Outside, botVars
<1>2. main # "off"
  BY <1>1 DEF BInv, LoopsUnderMain
<1> QED
  BY <1>1, <1>2, AcceptedStays

\* The invariant of the whole process is inductive.
LEMMA BInvStep ==
  ASSUME BInv, [BNext]_botVars
  PROVE  BInv'
<1>1. TInv'
  BY StepImplementsTelegram, LoopInvStep DEF BInv
<1>2. Rt!TypeOK' /\ Rt!HandlesByStep'
  BY HandlesStep DEF BInv
<1> QED
  BY <1>1, <1>2, MonitorInvStep, LoopsStep, ValidStep DEF BInv

-----------------------------------------------------------------------------

\* The inductive invariant of the process: those of its parts, and how main,
\* the two loops and the overrides hang together.
THEOREM BotInvariant == BSpec => []BInv
<1>1. BInit => BInv
  <2> SUFFICES ASSUME BInit PROVE BInv
    OBVIOUS
  <2>1. TInv
    BY LoopInitInv DEF BInit
  <2>2. Rt!TypeOK /\ Rt!HandlesByStep
    BY DEF BInit, Rt!Init, Rt!TypeOK, Rt!HandlesByStep, Rt!Deployments
  <2>3. Mon!IInv
    <3>1. MonP!Init
      BY DEF BInit, Mon!Init, MonP!Init, Mon!Modules, MonP!Modules
    <3> QED
      BY <3>1, WatchedFacts, MonP!InitInv, SameInv
  <2>4. LoopsUnderMain /\ ValidatedStaysValid /\ grace = {} /\ outage \in BOOLEAN
    BY DEF BInit, TInit, Mon!Init, LoopsUnderMain, ValidatedStaysValid
  <2> QED
    BY <2>1, <2>2, <2>3, <2>4 DEF BInv
<1>2. BInv /\ [BNext]_botVars => BInv'
  BY BInvStep
<1> QED
  BY <1>1, <1>2, PTL DEF BSpec

\* No step of main, of either loop or of the operator takes the state of the
\* process out of its types.
THEOREM BotTypeSafety == BSpec => []BTypeOK
<1>1. BInv => BTypeOK
  BY DEF BInv, BTypeOK, TInv, Mon!IInv
<1> QED
  BY <1>1, BotInvariant, PTL

\* No path through start-up, failure and shutdown leaks a handle, and the loops
\* run with all of them open.
THEOREM HandlesSafety == BSpec => []HandlesClosed
<1>1. BInv => HandlesClosed
  BY DEF BInv, HandlesClosed, Rt!HandlesAccounted, Rt!HandlesByStep
<1> QED
  BY <1>1, BotInvariant, PTL

\* Monitor runs with thresholds that ValidateConfig would accept still, though
\* a command may change them between the two calls.
THEOREM ValidatedSafety == BSpec => []ValidatedStaysValid
<1>1. BInv => ValidatedStaysValid
  BY DEF BInv
<1> QED
  BY <1>1, BotInvariant, PTL

\* The command loop inside the process is the command loop of Telegram.
LEMMA LoopWithinProcess == BSpec => TSpec
<1>1. BInit => TInit
  BY DEF BInit
<1>2. BInv /\ [BNext]_botVars => [TNext]_vars
  BY StepImplementsTelegram
<1> QED
  BY <1>1, <1>2, BotInvariant, PTL DEF BSpec, TSpec

\* Nothing changes an override but a confirmed request that was valid at that
\* moment, with the monitor loop, the shutdown and the restarts around it.
THEOREM BotImplementsThresholds == BSpec => ImplementsThresholds
  BY LoopWithinProcess, LoopImplementsThresholds

\* Through crashes, shutdowns and outages of Telegram an update is acknowledged
\* only when the loop is through with it.
THEOREM BotAcknowledges == BSpec => []AcknowledgedIsDone
  BY LoopWithinProcess, AcknowledgedSafety

\* What is proved of a tick holds inside the process: whichever way a tick is
\* cut short, exits follow their alerts in order and act on stored results.
THEOREM BotTicksInOrder == BSpec => [](Mon!HandledInOrder /\ Mon!ActsOnStored)
<1>1. BInv => Mon!HandledInOrder /\ Mon!ActsOnStored
  BY DEF BInv, Mon!IInv
<1> QED
  BY <1>1, BotInvariant, PTL
=============================================================================
