--------------------------- MODULE MonitorService ---------------------------
(***************************************************************************)
(* The monitor loop: Service.RunLoop and RunOnce (internal/monitor/        *)
(* service.go) with the handler of its results, AlertService, and          *)
(* urgentWithdrawer (internal/app/alerts.go).                              *)
(*                                                                         *)
(* RunOnce is cut at its calls out of the process: for each module in turn *)
(* validate (reads the overrides), monitor (reads the chain) and store (an *)
(* insert), then for each urgent finding an alert (Telegram) and an exit   *)
(* (ExecuteFullExit).  The locals of a tick stay in the state until the    *)
(* next one begins.  Latest is what the Telegram goroutine reads with      *)
(* Snapshot at any time.                                                   *)
(*                                                                         *)
(* What a module would see on the chain now is world; a finding is its     *)
(* severity.  A withdrawal may fail at every tick (WithdrawService says    *)
(* when), the other failures are bounded by MaxFaults.  A loop that has    *)
(* stopped ends the process, and the container starts it again (Bot says   *)
(* how).                                                                   *)
(***************************************************************************)
EXTENDS Naturals, Sequences

CONSTANTS
  N,           \* number of modules
  Reports,     \* the finding sequences a module may return
  None,        \* no result, no report
  MaxFaults    \* bound on failing database, RPC and Telegram calls

Severities == {"warn", "urgent"}

ASSUME MonitorAssumption ==
  /\ N \in Nat \ {0}
  /\ Reports \subseteq Seq(Severities)
  /\ MaxFaults \in Nat

Modules == 1..N

Errors == {"invalid", "module", "storage", "handler"}

\* A result: does the module know its state, and its findings.
Result == [known : BOOLEAN, findings : Seq(Severities)]

\* The result RunOnce puts in place of one a module could not give.
Unknown == [known |-> FALSE, findings |-> <<"warn">>]

VARIABLES
  world,       \* what each module would report, or None if it would fail
  pc,          \* the next external call of the loop
  at,          \* the module RunOnce is at
  results,     \* results of this tick
  stored,      \* modules whose result of this tick is in the database
  errs,        \* kinds of error joined into resultErr
  Latest,      \* last result of each module
  age,         \* ticks begun since it was taken (2 stands for more)
  alerted,     \* urgent findings of this tick alerted ...
  exited,      \* ... and handed to ExecuteFullExit, as <<module, finding>>
  faults

tickVars == <<at, results, stored, errs, alerted, exited>>
vars == <<world, pc, tickVars, Latest, age, faults>>

Fault == faults < MaxFaults /\ faults' = faults + 1

\* The urgent findings of the tick, in the order of results and findings.
Urgent ==
  UNION {{<<m, f>> : f \in {g \in DOMAIN results[m].findings :
                              results[m].findings[g] = "urgent"}}
           : m \in DOMAIN results}

Before(p, q) == p[1] < q[1] \/ (p[1] = q[1] /\ p[2] < q[2])

\* The finding the loops of HandleMonitorResults come to next.
NextFinding == CHOOSE p \in Urgent \ exited : \A q \in Urgent \ exited : q = p \/ Before(p, q)

HandlesUnstored(errors) == "invalid" \notin errors

HandlesOnlyCleanTicks(errors) == errors = {}

\* shouldHandleMonitorResults
shouldHandle(errors) == "invalid" \notin errors /\ "storage" \notin errors

GoesOnAfterAny(errors) == TRUE

\* No error, or one that isRecoverableMonitorError lets the loop go on after.
isRecoverable(errors) == "invalid" \notin errors /\ "storage" \notin errors

\* RunOnce returns to RunLoop, which waits for the next tick or returns.
AfterRun(errors) == IF isRecoverable(errors) THEN "wait" ELSE "stopped"

Init ==
  /\ world \in [Modules -> Reports \cup {None}]
  /\ pc = "stopped"
  /\ at = 1
  /\ results = <<>>
  /\ stored = {}
  /\ errs = {}
  /\ Latest = [m \in Modules |-> None]
  /\ age = [m \in Modules |-> 0]
  /\ alerted = {}
  /\ exited = {}
  /\ faults = 0

\* The ticker fires (or the loop starts): RunOnce begins.
Tick ==
  /\ pc = "wait"
  /\ pc' = "validate"
  /\ at' = 1
  /\ results' = <<>>
  /\ stored' = {}
  /\ errs' = {}
  /\ alerted' = {}
  /\ exited' = {}
  /\ age' = [m \in Modules |-> IF Latest[m] # None /\ age[m] < 2 THEN age[m] + 1 ELSE age[m]]
  /\ UNCHANGED <<world, Latest, faults>>

\* module.ValidateConfig fails: RunOnce returns at once.
ConfigRejected ==
  /\ pc = "validate"
  /\ errs' = errs \cup {"invalid"}
  /\ pc' = AfterRun(errs')
  /\ UNCHANGED <<world, at, results, stored, Latest, age, alerted, exited>>

\* module.ValidateConfig, with the stored overrides applied.  As long as they
\* are valid (Thresholds, Bot), what can fail is to read them.
ValidateConfig ==
  \/ /\ pc = "validate"
     /\ pc' = "monitor"
     /\ UNCHANGED <<world, tickVars, Latest, age, faults>>
  \/ Fault /\ ConfigRejected

\* service.Latest[id] = result, under the lock Snapshot takes.
Publish(result) ==
  /\ Latest' = [Latest EXCEPT ![at] = result]
  /\ age' = [age EXCEPT ![at] = 0]

\* module.Monitor.  Its error becomes an unknown result, published like any.
Monitor ==
  /\ pc = "monitor"
  /\ \/ /\ world[at] # None
        /\ LET result == [known |-> TRUE, findings |-> world[at]]
           IN  Publish(result) /\ results' = Append(results, result)
        /\ UNCHANGED <<errs, faults>>
     \/ /\ \/ world[at] = None /\ UNCHANGED faults
           \/ Fault
        /\ Publish(Unknown)
        /\ results' = Append(results, Unknown)
        /\ errs' = errs \cup {"module"}
  /\ pc' = "store"
  /\ UNCHANGED <<world, at, stored, alerted, exited>>

MoreByOne == at <= N

\* The loop over service.Modules has another module to go to.
MoreModules == at < N

\* One row, for the module RunOnce is at.
InsertMonitorResult == stored' = stored \cup {at}

\* InsertMonitorResult; then the next module, or the handler, or the end.
Store ==
  /\ pc = "store"
  /\ \/ InsertMonitorResult /\ UNCHANGED <<errs, faults>>
     \/ Fault /\ errs' = errs \cup {"storage"} /\ UNCHANGED stored
  /\ \/ MoreModules /\ at' = at + 1 /\ pc' = "validate"
     \/ ~MoreModules /\ shouldHandle(errs') /\ Urgent # {} /\ pc' = "alert" /\ UNCHANGED at
     \/ /\ ~MoreModules
        /\ ~shouldHandle(errs') \/ Urgent = {}
        /\ pc' = AfterRun(errs')
        /\ UNCHANGED at
  /\ UNCHANGED <<world, results, Latest, age, alerted, exited>>

IgnoresLostAlert ==
  /\ pc = "alert"
  /\ \/ alerted' = alerted \cup {NextFinding} /\ UNCHANGED faults
     \/ Fault /\ UNCHANGED alerted
  /\ pc' = "exit"
  /\ UNCHANGED <<world, at, results, stored, errs, Latest, age, exited>>

\* Notifier.SendAlert fails: its error ends the handler.
AlertFails ==
  /\ pc = "alert"
  /\ errs' = errs \cup {"handler"}
  /\ pc' = AfterRun(errs')
  /\ UNCHANGED <<world, at, results, stored, Latest, age, alerted, exited>>

\* Notifier.SendAlert for the next urgent finding.
SendAlert ==
  \/ /\ pc = "alert"
     /\ alerted' = alerted \cup {NextFinding}
     /\ pc' = "exit"
     /\ UNCHANGED <<world, at, results, stored, errs, Latest, age, exited, faults>>
  \/ Fault /\ AlertFails

\* Withdrawer.HandleUrgent: ExecuteFullExit for that finding; its error ends
\* the handler too.
HandleUrgent ==
  /\ pc = "exit"
  /\ exited' = exited \cup {NextFinding}
  /\ \/ errs' = errs \cup {"handler"} /\ pc' = AfterRun(errs')
     \/ Urgent = exited' /\ pc' = AfterRun(errs) /\ UNCHANGED errs
     \/ Urgent # exited' /\ pc' = "alert" /\ UNCHANGED errs
  /\ UNCHANGED <<world, at, results, stored, Latest, age, alerted, faults>>

\* What NewService makes: no result, no tick under way.
Fresh(step) ==
  /\ pc' = step
  /\ at' = 1
  /\ results' = <<>>
  /\ stored' = {}
  /\ errs' = {}
  /\ Latest' = [m \in Modules |-> None]
  /\ age' = [m \in Modules |-> 0]
  /\ alerted' = {}
  /\ exited' = {}
  /\ UNCHANGED world

\* The process ends wherever the loop is, with everything it had in memory.
Halt == Fresh("stopped")

\* The other goroutine has failed, or a signal came.
Cancel == pc # "stopped" /\ Fault /\ Halt

\* A new process: RunLoop starts over.
Restart == pc = "stopped" /\ Fresh("wait") /\ UNCHANGED faults

\* The chain, or the node, changes what a module sees.
WorldChanges ==
  /\ \E m \in Modules, seen \in Reports \cup {None} :
       seen # world[m] /\ world' = [world EXCEPT ![m] = seen]
  /\ UNCHANGED <<pc, tickVars, Latest, age, faults>>

Step ==
  \/ Tick
  \/ ValidateConfig
  \/ Monitor
  \/ Store
  \/ SendAlert
  \/ HandleUrgent
  \/ Restart

Next == Step \/ Cancel \/ WorldChanges

Spec == Init /\ [][Next]_vars

\* The ticker fires for ever, every call returns, and docker-compose restarts
\* the container.
FairSpec == Spec /\ WF_vars(Step)

-----------------------------------------------------------------------------

TypeOK ==
  /\ world \in [Modules -> Reports \cup {None}]
  /\ pc \in {"wait", "validate", "monitor", "store", "alert", "exit", "stopped"}
  /\ at \in Modules
  /\ results \in Seq(Result)
  /\ stored \subseteq Modules
  /\ errs \subseteq Errors
  /\ Latest \in [Modules -> Result \cup {None}]
  /\ age \in [Modules -> 0..2]
  /\ alerted \subseteq Modules \X Nat
  /\ exited \subseteq Modules \X Nat
  /\ faults \in 0..MaxFaults

\* HandleMonitorResults withdraws for a finding only after its alert has gone
\* out, takes the urgent findings of all modules in order, skips none, and a
\* tick without storage or handler error leaves none behind, even when other
\* modules have failed.
HandledInOrder ==
  /\ exited \subseteq alerted
  /\ alerted \subseteq Urgent
  /\ \A p \in alerted, q \in Urgent : Before(q, p) => q \in exited
  /\ pc = "wait" /\ errs \subseteq {"module"} => exited = Urgent

\* Nothing is announced or withdrawn before the results of the whole tick are
\* in the database: the audit trail explains every exit, also after a crash.
ActsOnStored == alerted # {} => stored = Modules

\* While the loop runs, what Snapshot gives /stats at any moment is of this tick
\* or of the one before, and between two ticks all of it is of the last one: no
\* error the loop goes on after leaves the entry of an earlier tick behind.  An
\* entry may be UNKNOWN, put in place of the result a module gave before.
LatestFresh ==
  pc # "stopped" => \A m \in Modules : age[m] <= 1 /\ (age[m] = 1 => pc # "wait")

\* While a module keeps seeing an urgent condition the loop keeps asking for
\* the exit, whatever the other modules see or fail to see and however often
\* the process was restarted in between: findings of healthy modules are not
\* lost to a failing one.
UrgentKeepsExiting ==
  \A m \in Modules :
    <>[](world[m] # None /\ \E f \in DOMAIN world[m] : world[m][f] = "urgent")
      => []<>(pc = "exit")

\* "If a module remains unknown or stale longer than its configured urgent
\* threshold, it emits an URGENT stale_data finding", which triggers the exit.
StaleTriggersExit ==
  \A m \in Modules :
    <>[](world[m] = None) => <>(pc = "exit")

-----------------------------------------------------------------------------
(* What makes HandledInOrder, ActsOnStored and LatestFresh inductive       *)
(* (proved in MonitorServiceProofs).                                       *)

\* Each module before the one RunOnce is at has its result of this tick, and
\* its row unless an insert failed; nothing is alerted yet.
CollectInv ==
  /\ Len(results) <= N
  /\ pc \in {"validate", "monitor"} => Len(results) = at - 1
  /\ pc = "store" => Len(results) = at
  /\ pc \in {"validate", "monitor", "store"} =>
       /\ alerted = {}
       /\ errs \subseteq {"module", "storage"}
       /\ "storage" \in errs \/ stored = 1..(at - 1)

\* The handler has an urgent finding to go on with, and is one alert ahead of
\* its exits when it withdraws.
HandleInv ==
  pc \in {"alert", "exit"} =>
    /\ stored = Modules
    /\ errs \subseteq {"module"}
    /\ Urgent \ exited # {}
    /\ alerted = IF pc = "alert" THEN exited ELSE exited \cup {NextFinding}

\* Only the result of a module still to come is as old as the last tick.
AgeInv ==
  pc # "stopped" => \A m \in Modules :
    \/ age[m] = 0
    \/ /\ age[m] = 1
       /\ \/ pc \in {"validate", "monitor"} /\ at <= m
          \/ pc = "store" /\ at < m

IInv ==
  /\ TypeOK
  /\ CollectInv
  /\ HandleInv
  /\ AgeInv
  /\ HandledInOrder
  /\ ActsOnStored
=============================================================================
