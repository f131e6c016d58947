------------------------------ MODULE Runtime -------------------------------
(***************************************************************************)
(* One life of the process in monitor mode: Run, buildRuntime and          *)
(* buildMonitorServices (internal/app), DialMulti (internal/ethereum) and  *)
(* Open (internal/storage), with the handles they open and the paths that  *)
(* close them again.                                                       *)
(*                                                                         *)
(* main is the next call that may fail.  A failing step closes what its    *)
(* own function has opened; what the callers have opened is closed by      *)
(* their deferred calls, innermost first: cleanup (log and database), then *)
(* runtime.Close (the RPC clients).  A log file is configured.             *)
(*                                                                         *)
(* What the operator has deployed (the YAML file, the environment) may be  *)
(* unusable, for as long as it stays; which step finds out tells the kinds *)
(* apart.                                                                  *)
(***************************************************************************)
CONSTANT Fallbacks    \* the fallback RPC clients of the configuration

VARIABLES
  main,       \* what Run does next
  open,       \* handles that are open
  deployed    \* "good", or why a start with what is deployed must fail

Clients == {"primary"} \cup Fallbacks

Handles == Clients \cup {"log", "db"}

Deployments == {"good", "invalid", "no_secrets", "bad_address", "unbuildable"}

Init == main = "off" /\ open = {} /\ deployed \in Deployments

\* The container starts the process.
Begin ==
  /\ main = "off"
  /\ main' = "config"
  /\ UNCHANGED <<open, deployed>>

\* A check of what is deployed, with nothing open yet.
Checks(ok, defect, next) ==
  /\ ok <=> deployed # defect
  /\ main' = IF ok THEN next ELSE "off"
  /\ UNCHANGED <<open, deployed>>

\* config.Load: read, parse, Validate.
LoadConfig(ok) == main = "config" /\ Checks(ok, "invalid", "secrets")

\* LoadSecretsFromEnv
LoadSecrets(ok) == main = "secrets" /\ Checks(ok, "no_secrets", "addresses")

\* The vault and the receiver; Validate has only seen that there is a vault.
ParseAddress(ok) == main = "addresses" /\ Checks(ok, "bad_address", "dial")

LeavesPrimary(ok) ==
  /\ main = "dial"
  /\ \E client \in Clients \ open :
       /\ client # "primary" => "primary" \in open
       /\ open' = IF ok THEN open \cup {client} ELSE open \ Fallbacks
  /\ main' = IF ~ok THEN "off" ELSE IF Clients \subseteq open' THEN "modules" ELSE "dial"
  /\ UNCHANGED deployed

\* dialMulti: the primary first.  A fallback that fails closes the others.
DialMulti(ok) ==
  /\ main = "dial"
  /\ \E client \in Clients \ open :
       /\ client # "primary" => "primary" \in open
       /\ open' = IF ok THEN open \cup {client} ELSE {}
  /\ main' = IF ~ok THEN "off" ELSE IF Clients \subseteq open' THEN "modules" ELSE "dial"
  /\ UNCHANGED deployed

\* The rest of buildRuntime: newSigner, Address, BuildModules, each with a
\* call of closeRuntime when it fails.
BuildModules(ok) ==
  /\ main = "modules"
  /\ ok <=> deployed # "unbuildable"
  /\ main' = IF ok THEN "logger" ELSE "off"
  /\ open' = IF ok THEN open ELSE open \ Clients
  /\ UNCHANGED deployed

\* buildMonitorServices, up to setupRuntimeLogger.
SetupRuntimeLogger(ok) ==
  /\ main = "logger"
  /\ main' = IF ok THEN "storage" ELSE "closing"
  /\ open' = IF ok THEN open \cup {"log"} ELSE open
  /\ UNCHANGED deployed

\* openStorage with the migrations; Open closes its own database on failure.
OpenStorage(ok) ==
  /\ main = "storage"
  /\ main' = IF ok THEN "bot" ELSE "closing"
  /\ open' = IF ok THEN open \cup {"db"} ELSE open \ {"log"}
  /\ UNCHANGED deployed

\* newTelegramBot (a request to Telegram), then the durations and fees, which
\* Validate has parsed before.
NewTelegramBot(ok) ==
  /\ main = "bot"
  /\ main' = IF ok THEN "launch" ELSE "closing"
  /\ open' = IF ok THEN open ELSE open \ {"log", "db"}
  /\ UNCHANGED deployed

StartUp(ok) ==
  \/ LoadConfig(ok)
  \/ LoadSecrets(ok)
  \/ ParseAddress(ok)
  \/ DialMulti(ok)
  \/ BuildModules(ok)
  \/ SetupRuntimeLogger(ok)
  \/ OpenStorage(ok)
  \/ NewTelegramBot(ok)

\* Both goroutines are started; runMonitor waits for the first error.
Launch ==
  /\ main = "launch"
  /\ main' = "running"
  /\ UNCHANGED <<open, deployed>>

\* The first error has come: cancel(), and runMonitor returns.
Cancel ==
  /\ main = "running"
  /\ main' = "cancelled"
  /\ UNCHANGED <<open, deployed>>

\* The deferred cleanup of runMonitor.
Cleanup ==
  /\ main = "cancelled"
  /\ main' = "closing"
  /\ open' = open \ {"log", "db"}
  /\ UNCHANGED deployed

\* The deferred runtime.Close of Run; then the process exits.
Close ==
  /\ main = "closing"
  /\ main' = "off"
  /\ open' = open \ Clients
  /\ UNCHANGED deployed

-----------------------------------------------------------------------------

TypeOK ==
  /\ main \in {"off", "config", "secrets", "addresses", "dial", "modules", "logger",
               "storage", "bot", "launch", "running", "cancelled", "closing"}
  /\ open \subseteq Handles
  /\ deployed \in Deployments

\* Every way out of Run, after a failing step of the start-up or after the
\* first error of a loop, has closed each RPC client, the log file and the
\* database; while the loops run, all of them are open.
HandlesAccounted ==
  /\ main = "off" => open = {}
  /\ main \in {"launch", "running", "cancelled"} => open = Handles

\* What is open at each step of Run: a step that fails finds exactly the
\* handles it and its callers close (makes HandlesAccounted inductive).
HandlesByStep ==
  /\ main \in {"off", "config", "secrets", "addresses"} => open = {}
  /\ main \in {"dial", "closing"} => open \subseteq Clients
  /\ main \in {"modules", "logger"} => open = Clients
  /\ main = "storage" => open = Clients \cup {"log"}
  /\ main \in {"bot", "launch", "running", "cancelled"} => open = Handles
=============================================================================
