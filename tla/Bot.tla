-------------------------------- MODULE Bot ---------------------------------
(***************************************************************************)
(* The whole process in monitor mode, over many lives: main (Runtime)      *)
(* starts the Telegram loop (Telegram, on Thresholds) and the monitor loop *)
(* (MonitorService) as two goroutines that share the database, and waits   *)
(* for the first of them to return: runMonitor in internal/app/app.go.     *)
(*                                                                         *)
(* The two loops meet in the threshold overrides, which each tick reads    *)
(* twice (validate, monitor) while a command may change them; in Telegram, *)
(* which carries commands, answers and alerts; and in errCh: the first     *)
(* error of either cancels the context of the other and ends the process.  *)
(* docker-compose.yml starts it again (restart: unless-stopped).  main     *)
(* passes context.Background(): no signal is handled, a stop is a crash.   *)
(*                                                                         *)
(* After cancel() a loop may finish the call it is in; its other calls     *)
(* fail, as far as they take the context.  The Telegram library takes      *)
(* none, so answers and alerts still go out.  (A command that only reads   *)
(* memory, /stats or /help, would be answered too; it is left out there.)  *)
(***************************************************************************)
EXTENDS Telegram

CONSTANTS
  Watched,      \* the configured modules, in the order of RunOnce
  Reports,      \* the finding sequences a module may return
  Fallbacks     \* the fallback RPC clients

ASSUME BotAssumption ==
  /\ Watched \in Seq(Modules)
  /\ Watched # <<>>
  /\ Reports \subseteq Seq({"warn", "urgent"})

VARIABLES
  main, open, deployed,                           \* see Runtime
  world, mpc, at, results, stored, errs, Latest,  \* see MonitorService ...
  age, alerted, exited,
  mfaults,      \* ... and its failing calls; those of main too
  grace,        \* loops that may still finish a call after cancel()
  outage        \* Telegram cannot be reached

runtimeVars == <<main, open, deployed>>
monitorVars == <<world, mpc, at, results, stored, errs, Latest, age, alerted, exited>>
botVars == <<vars, runtimeVars, monitorVars, mfaults, grace, outage>>

Rt == INSTANCE Runtime

Mon == INSTANCE MonitorService WITH N <- Len(Watched), pc <- mpc, faults <- mfaults

\* MaxFaults bounds the failing calls of the whole process.
Bounded == faults' + mfaults' <= MaxFaults

TelegramIdle == UNCHANGED vars
MonitorIdle == UNCHANGED <<monitorVars, mfaults>>
MainIdle == UNCHANGED runtimeVars

\* No process yet.
BInit ==
  /\ TInit
  /\ Rt!Init
  /\ Mon!Init
  /\ grace = {}
  /\ outage = FALSE

\* A loop may make a call that takes the context: before cancel(), or to
\* finish the one it was in.
MayCall(loop) ==
  \/ main = "running" /\ UNCHANGED grace
  \/ main \in {"cancelled", "closing"} /\ loop \in grace /\ grace' = grace \ {loop}

\* pollBotUpdates.
TelegramCalls ==
  /\ MayCall("telegram")
  /\ \/ HandleUpdate
     \/ ConfirmStep
     \/ ~outage /\ GetUpdates
     \/ outage /\ batch = {} /\ reply = "idle" /\ Fail /\ UNCHANGED faults

\* SendCommandResponse, which ignores the context; or the error of a command.
TelegramAnswers ==
  /\ \/ (outage => reply = "error") /\ Respond
     \/ outage /\ reply = "ok" /\ Fail /\ UNCHANGED faults
  /\ UNCHANGED grace

TelegramStep ==
  /\ TelegramCalls \/ TelegramAnswers
  /\ MonitorIdle /\ MainIdle /\ UNCHANGED outage
  /\ Bounded

\* The module RunOnce is at accepts its thresholds with the stored overrides:
\* thresholdOverrideModule reads them at every call.
Accepted == EffectiveOK(Watched[at], overrides)

\* RunLoop and RunOnce.
MonitorCalls ==
  /\ MayCall("monitor")
  /\ \/ Mon!Tick
     \/ Accepted /\ Mon!ValidateConfig
     \/ ~Accepted /\ Mon!ConfigRejected /\ UNCHANGED mfaults
     \/ Mon!Monitor
     \/ Mon!Store
     \/ Mon!HandleUrgent

\* telegramAlertNotifier.SendAlert, which ignores the context.
MonitorAlerts ==
  /\ \/ ~outage /\ Mon!SendAlert
     \/ outage /\ Mon!AlertFails /\ UNCHANGED mfaults
  /\ UNCHANGED grace

MonitorStep ==
  /\ MonitorCalls \/ MonitorAlerts
  /\ TelegramIdle /\ MainIdle /\ UNCHANGED outage
  /\ Bounded

\* A failure that is not by chance: of what is deployed, or without Telegram.
Doomed == main \in {"config", "secrets", "addresses", "modules"} \/ (main = "bot" /\ outage)

\* buildRuntime and buildMonitorServices.
StartUp ==
  /\ \E ok \in BOOLEAN :
       /\ Rt!StartUp(ok)
       /\ \/ ok /\ (main = "bot" => ~outage) /\ UNCHANGED mfaults
          \/ ~ok /\ Doomed /\ UNCHANGED mfaults
          \/ ~ok /\ ~Doomed /\ Mon!Fault
  /\ TelegramIdle /\ UNCHANGED <<monitorVars, grace, outage>>
  /\ Bounded

\* The two go statements of runMonitor.
Launch == Rt!Launch /\ Restart /\ Mon!Restart /\ UNCHANGED <<grace, outage>>

AwaitsBoth == ~up /\ mpc = "stopped"

\* firstErr := <-errCh
FirstErr == ~up \/ mpc = "stopped"

CancelLoops ==
  /\ FirstErr
  /\ Rt!Cancel
  /\ grace' = {"telegram", "monitor"}
  /\ TelegramIdle /\ MonitorIdle /\ UNCHANGED outage

\* What the process had in memory is gone.
Forget == Lose /\ Stop /\ UNCHANGED faults /\ Mon!Halt /\ grace' = {}

MainStep ==
  \/ Rt!Begin /\ TelegramIdle /\ MonitorIdle /\ UNCHANGED <<grace, outage>>
  \/ StartUp
  \/ Launch
  \/ CancelLoops
  \/ Rt!Cleanup /\ TelegramIdle /\ MonitorIdle /\ UNCHANGED <<grace, outage>>
  \/ Rt!Close /\ Forget /\ UNCHANGED <<mfaults, outage>>

\* The machine, the container or the process is killed.
Crash ==
  /\ main # "off"
  /\ main' = "off"
  /\ open' = {}
  /\ UNCHANGED deployed
  /\ Mon!Fault
  /\ Forget
  /\ UNCHANGED outage
  /\ Bounded

\* New files: they are read when a process starts.
Deploy ==
  /\ main = "off"
  /\ Reconfigure \/ UNCHANGED thresholdVars
  /\ deployed' \in Rt!Deployments
  /\ UNCHANGED <<main, open>> /\ Quiet

\* Telegram can no longer be reached, or can again.
TelegramFails ==
  /\ outage' = ~outage
  /\ IF outage THEN UNCHANGED mfaults ELSE Mon!Fault
  /\ TelegramIdle /\ MainIdle /\ UNCHANGED <<monitorVars, grace>>
  /\ Bounded

Outside ==
  \/ /\ SendUpdate \/ (Tick /\ Quiet)
     /\ MonitorIdle /\ MainIdle /\ UNCHANGED <<grace, outage>>
  \/ Deploy /\ MonitorIdle /\ UNCHANGED <<grace, outage>>
  \/ Mon!WorldChanges /\ TelegramIdle /\ MainIdle /\ UNCHANGED <<grace, outage>>

BNext ==
  \/ TelegramStep
  \/ MonitorStep
  \/ MainStep
  \/ Crash
  \/ TelegramFails
  \/ Outside

BSpec == BInit /\ [][BNext]_botVars

\* Each goroutine goes on as long as it can: every call returns, the ticker
\* fires, the container is started again.  Nothing is assumed of how fast one
\* goroutine is next to the other.
BFairSpec ==
  /\ BSpec
  /\ WF_botVars(TelegramStep)
  /\ WF_botVars(MonitorStep)
  /\ WF_botVars(MainStep)

-----------------------------------------------------------------------------

BTypeOK ==
  /\ TTypeOK
  /\ Rt!TypeOK
  /\ Mon!TypeOK
  /\ grace \subseteq {"telegram", "monitor"}
  /\ outage \in BOOLEAN

\* See Runtime: no path through start-up, failure and shutdown leaks a handle,
\* and no loop runs on a closed one before the other has failed.
HandlesClosed == Rt!HandlesAccounted

\* A module that was accepted is monitored with thresholds that would be
\* accepted still, although Monitor reads the overrides again and a Confirm of
\* the other goroutine may have come between the two reads.
ValidatedStaysValid == mpc = "monitor" => Accepted

\* Once Telegram can be reached and a usable configuration is deployed for
\* good, both loops run again and again: the process never lives on with one
\* loop only, nor fails to shut down.
LoopsComeBack ==
  <>[](~outage /\ deployed = "good") => []<>up /\ []<>(mpc # "stopped")

Danger ==
  \E m \in DOMAIN Watched :
    world[m] # None /\ \E f \in DOMAIN world[m] : world[m][f] = "urgent"

\* What main, the alerts and each tick need from outside.
Served ==
  /\ ~outage
  /\ deployed = "good"
  /\ \A i \in DOMAIN Watched : EffectiveOK(Watched[i], overrides)

\* A lasting danger is met with exit after exit, through crashes and restarts,
\* unless Telegram or a usable configuration stays away or some command fails
\* again and again: there is no other way for one goroutine to keep the other
\* from its work.
DangerKeepsExiting ==
  <>[](Danger /\ Served) => []<>(mpc = "exit") \/ []<>(reply = "error")

\* All that was sent is answered in the chat, or is in the security log, in the
\* end: whichever of the two loops has ended the process in the middle of it, it
\* is fetched again, unless some command fails again and again.  A loop that has
\* ended alone, or an update the server forgets too early, would be silence.
UpdatesGetThrough ==
  <>[]Served => []<>(\A id \in DOMAIN sent : Done(id)) \/ []<>(reply = "error")

\* "Urgent monitor findings trigger automatic full exit ... so the bot can
\* withdraw while the operator is offline."
DangerAlwaysExits == <>[](Danger /\ Served) => []<>(mpc = "exit")

-----------------------------------------------------------------------------
(* What makes the invariants of the process inductive (proved in           *)
(* BotProofs).                                                             *)

\* A goroutine runs only while main waits for it or shuts down.
LoopsUnderMain ==
  main \notin {"running", "cancelled", "closing"} => ~up /\ mpc = "stopped"

BInv ==
  /\ TInv
  /\ Rt!TypeOK
  /\ Rt!HandlesByStep
  /\ Mon!IInv
  /\ grace \subseteq {"telegram", "monitor"}
  /\ outage \in BOOLEAN
  /\ LoopsUnderMain
  /\ ValidatedStaysValid
=============================================================================
