----------------------------- MODULE Thresholds -----------------------------
(***************************************************************************)
(* Threshold overrides: thresholdProvider (internal/app/providers.go), the *)
(* confirmation and override tables (internal/storage/repositories.go) and *)
(* the validation of a change (internal/morpho/overrides.go).              *)
(*                                                                         *)
(* A change takes two commands.  BuildSetConfirmation validates it and     *)
(* stores a confirmation under the id threshold:<module>:<key>:<user>;     *)
(* Confirm consumes that row, validates the change AGAIN against the       *)
(* overrides of that moment, stores the override and an audit event.       *)
(* Confirm is cut at its database calls: consume, upsert, record.          *)
(* (validateChange only reads, and the one goroutine that handles commands *)
(* is the only writer of overrides, so it belongs to the upsert.)          *)
(*                                                                         *)
(* Thresholds are integers; severities "warn" and "urgent" are 1 and 2.    *)
(* All three modules are configured (with no configuration a module is not *)
(* built, and a change to it is not checked against anything).             *)
(*                                                                         *)
(* The YAML thresholds are read once per life of the process; the operator *)
(* may edit them between two lives, with the overrides still in the        *)
(* database.  Neither config.Validate nor BuildModules checks them, alone  *)
(* or with the overrides: that happens at the first tick.                  *)
(***************************************************************************)
EXTENDS Integers

CONSTANTS
  Users,       \* authorised Telegram users
  Asked,       \* keys users ask for
  Values,      \* values users ask for, invalid ones included
  Configs,     \* the YAML thresholds the operator may deploy
  TTL,         \* life of a confirmation, in ticks
  None,        \* no row
  MaxFaults    \* bound on failing database calls

Modules == {"share_price_loss", "withdraw_liquidity", "vault_state"}

\* The keys a user may override, per module (allowedThresholdKeys).
KeysOf == [m \in Modules |->
  IF m = "share_price_loss" THEN {"loss_warn_bps", "loss_urgent_bps"}
  ELSE IF m = "withdraw_liquidity" THEN {"idle_warn", "idle_urgent"}
  ELSE {"change_severity"}]

Keys == UNION {KeysOf[m] : m \in Modules}

ModuleOf(k) == CHOOSE m \in Modules : k \in KeysOf[m]

\* validateThresholdValue: the value on its own.
validateThresholdValue(k, v) ==
  /\ v > 0
  /\ ModuleOf(k) = "share_price_loss" => v <= 10000
  /\ ModuleOf(k) = "vault_state" => v <= 2

\* ValidateConfig of each module, on its thresholds: a loss must warn before it
\* is urgent, idle liquidity falls through the warning level first.
ValidateConfig(m, thresholds) ==
  /\ \A k \in KeysOf[m] : thresholds[k] > 0
  /\ m = "share_price_loss" => thresholds["loss_warn_bps"] <= thresholds["loss_urgent_bps"]
  /\ m = "withdraw_liquidity" => thresholds["idle_warn"] >= thresholds["idle_urgent"]
  /\ m = "vault_state" => thresholds["change_severity"] <= 2

\* A row of pending_confirmations, and the locals of a running Confirm.
Confirmation == [value : Nat, age : 0..TTL]

Job == [step : {"upsert", "record"}, key : Keys, value : Nat]

ASSUME ThresholdsAssumption ==
  /\ Asked \subseteq Keys
  /\ Values \subseteq Nat
  /\ None \notin Nat
  /\ None \notin Confirmation
  /\ None \notin Job
  /\ TTL \in Nat
  /\ MaxFaults \in Nat
  /\ Configs \subseteq [Keys -> Int]

VARIABLES
  overrides,       \* threshold_overrides: value per key, or None
  confirmations,   \* pending_confirmations: [value, age] per key and user, or None
  audit,           \* security events: the last value announced per key, or None
  job,             \* the Confirm that runs, or None
  reply,           \* "idle", "busy", or what the last command returned
  static,          \* the YAML thresholds of this life of the process
  unvalidated,     \* modules whose YAML no command has been checked with: edited
                   \* under stored overrides, or wrong by itself; until an
                   \* override of theirs is confirmed or the YAML is edited
  cut,             \* the process has ended with a Confirm under way
  faults

lifeVars == <<static, unvalidated, cut>>
thresholdVars == <<overrides, confirmations, audit, job, reply, lifeVars, faults>>

Fault == faults < MaxFaults /\ faults' = faults + 1

\* ApplyOverrides: static thresholds, replaced by the stored ones.
Effective(stored) == [k \in Keys |-> IF stored[k] = None THEN static[k] ELSE stored[k]]

\* A module with the stored overrides applied is one that RunOnce accepts.
EffectiveOK(m, stored) ==
  /\ \A k \in KeysOf[m] : stored[k] # None => validateThresholdValue(k, stored[k])
  /\ ValidateConfig(m, Effective(stored))

\* ValidateThresholdChange: the value, then the module it would lead to.
validateChange(k, v) ==
  /\ validateThresholdValue(k, v)
  /\ EffectiveOK(ModuleOf(k), [overrides EXCEPT ![k] = v])

NoConfirmations == [id \in Keys \X Users |-> None]

Init ==
  /\ overrides = [k \in Keys |-> None]
  /\ confirmations = NoConfirmations
  /\ audit = [k \in Keys |-> None]
  /\ job = None
  /\ reply = "idle"
  /\ static \in Configs
  /\ unvalidated = {m \in Modules : ~ValidateConfig(m, static)}
  /\ cut = FALSE
  /\ faults = 0

\* The three inserts of this module, each a transaction of its own.
InsertPendingConfirmation(id, v) ==
  /\ confirmations[id] = None
  /\ confirmations' = [confirmations EXCEPT ![id] = [value |-> v, age |-> 0]]

UpsertThresholdOverride(k, v) == overrides' = [overrides EXCEPT ![k] = v]

InsertEvent(k, v) == audit' = [audit EXCEPT ![k] = v]

\* BuildSetConfirmation.  Refused if the change is invalid now, or if the same
\* user already has a confirmation for that key (the id is the primary key),
\* expired or not; or if the insert fails.
BuildSetConfirmation(u, k, v) ==
  /\ reply = "idle"
  /\ \/ /\ validateChange(k, v)
        /\ InsertPendingConfirmation(<<k, u>>, v)
        /\ reply' = "ok"
        /\ UNCHANGED faults
     \/ /\ ~validateChange(k, v) \/ confirmations[<<k, u>>] # None
        /\ reply' = "error"
        /\ UNCHANGED <<confirmations, faults>>
     \/ /\ Fault
        /\ reply' = "error"
        /\ UNCHANGED confirmations
  /\ UNCHANGED <<overrides, audit, job, lifeVars>>

\* Confirm, up to the commit of ConsumePendingConfirmationForUser: an unknown
\* id or another user's is refused and kept; an expired one is deleted first
\* and refused then.
Consume(u, k, owner) ==
  LET row == confirmations[<<k, owner>>]
  IN  /\ reply = "idle"
      /\ \/ /\ row = None \/ owner # u
            /\ reply' = "error"
            /\ UNCHANGED <<confirmations, job, faults>>
         \/ /\ row # None /\ owner = u
            /\ confirmations' = [confirmations EXCEPT ![<<k, u>>] = None]
            /\ IF row.age < TTL
               THEN /\ job' = [step |-> "upsert", key |-> k, value |-> row.value]
                    /\ reply' = "busy"
               ELSE reply' = "error" /\ UNCHANGED job
            /\ UNCHANGED faults
         \/ /\ Fault
            /\ reply' = "error"
            /\ UNCHANGED <<confirmations, job>>
      /\ UNCHANGED <<overrides, audit, lifeVars>>

UpsertUnvalidated ==
  /\ job # None /\ job.step = "upsert"
  /\ UpsertThresholdOverride(job.key, job.value)
  /\ job' = [job EXCEPT !.step = "record"]
  /\ UNCHANGED <<confirmations, audit, reply, lifeVars, faults>>

\* Confirm, up to UpsertThresholdOverride: validate again, with what the YAML
\* and the other overrides are by now, then store.
Upsert ==
  /\ job # None
  /\ job.step = "upsert"
  /\ \/ /\ validateChange(job.key, job.value)
        /\ UpsertThresholdOverride(job.key, job.value)
        /\ unvalidated' = unvalidated \ {ModuleOf(job.key)}
        /\ job' = [job EXCEPT !.step = "record"]
        /\ UNCHANGED <<reply, faults>>
     \/ /\ \/ ~validateChange(job.key, job.value) /\ UNCHANGED faults
           \/ Fault
        /\ job' = None
        /\ reply' = "error"
        /\ UNCHANGED <<overrides, unvalidated>>
  /\ UNCHANGED <<confirmations, audit, static, cut>>

RecordSkipped ==
  /\ job # None /\ job.step = "record"
  /\ job' = None
  /\ reply' = "ok"
  /\ UNCHANGED <<overrides, confirmations, audit, lifeVars, faults>>

RecordKeepsJob ==
  /\ job # None /\ job.step = "record"
  /\ job' = [job EXCEPT !.step = "done"]
  /\ reply' = "ok"
  /\ UNCHANGED <<overrides, confirmations, audit, lifeVars, faults>>

\* Confirm, the audit event.  If it fails the override stays without one.
RecordOverride ==
  /\ job # None
  /\ job.step = "record"
  /\ \/ /\ InsertEvent(job.key, job.value)
        /\ reply' = "ok"
        /\ UNCHANGED faults
     \/ /\ Fault
        /\ reply' = "error"
        /\ UNCHANGED audit
  /\ job' = None
  /\ UNCHANGED <<overrides, confirmations, lifeVars>>

\* List, or another command that only reads.  Its failure is a failing call,
\* counted as one; so is a dry run of the exit that the chain rejects, though
\* that may fail each time (DryRunFullExit returns it as an error).
Query ==
  /\ reply = "idle"
  /\ \/ reply' = "ok" /\ UNCHANGED faults
     \/ Fault /\ reply' = "error"
  /\ UNCHANGED <<overrides, confirmations, audit, job, lifeVars>>

\* Time passes for the confirmations that are stored.
Tick ==
  /\ confirmations' = [id \in Keys \X Users |->
       IF confirmations[id] = None \/ confirmations[id].age = TTL
       THEN confirmations[id]
       ELSE [confirmations[id] EXCEPT !.age = @ + 1]]
  /\ confirmations' # confirmations
  /\ UNCHANGED <<overrides, audit, job, reply, lifeVars, faults>>

\* The process ends, wherever it is; the tables stay.
Lose ==
  /\ cut' = (cut \/ job # None)
  /\ job' = None
  /\ reply' = "idle"
  /\ UNCHANGED <<overrides, confirmations, audit, static, unvalidated>>

\* The modules whose thresholds another YAML file changes.
EditedBy(config) == {m \in Modules : \E k \in KeysOf[m] : config[k] # static[k]}

\* Between two lives of the process the operator deploys another YAML file, of
\* whatever thresholds.
Reconfigure ==
  /\ reply = "idle"
  /\ \E config \in Configs \ {static} :
       /\ static' = config
       /\ unvalidated' =
            {m \in Modules :
               IF m \in EditedBy(config)
               THEN ~ValidateConfig(m, config) \/ \E k \in KeysOf[m] : overrides[k] # None
               ELSE m \in unvalidated}
  /\ UNCHANGED <<overrides, confirmations, audit, job, reply, cut, faults>>

\* The caller takes the answer.
Answered ==
  /\ reply \in {"ok", "error"}
  /\ reply' = "idle"
  /\ UNCHANGED <<overrides, confirmations, audit, job, lifeVars, faults>>

\* Users may send any command in any order.
Next ==
  \/ \E u \in Users, k \in Asked, v \in Values : BuildSetConfirmation(u, k, v)
  \/ \E u, owner \in Users, k \in Asked : Consume(u, k, owner)
  \/ Upsert
  \/ RecordOverride
  \/ Query
  \/ Tick
  \/ Lose /\ (Fault \/ UNCHANGED faults)
  \/ Reconfigure
  \/ Answered

Spec == Init /\ [][Next]_thresholdVars

-----------------------------------------------------------------------------

TypeOK ==
  /\ overrides \in [Keys -> Nat \cup {None}]
  /\ confirmations \in [Keys \X Users -> Confirmation \cup {None}]
  /\ audit \in [Keys -> Nat \cup {None}]
  /\ job \in Job \cup {None}
  /\ reply \in {"idle", "busy", "ok", "error"}
  /\ static \in Configs
  /\ unvalidated \subseteq Modules
  /\ cut \in BOOLEAN
  /\ faults \in 0..MaxFaults

\* No sequence of commands makes RunOnce reject a module: a change valid when
\* it was requested is applied only if it still is, next to whatever another
\* user has had confirmed meanwhile and whatever YAML the process has restarted
\* with.  The YAML itself can: the modules of a file that is wrong by itself, or
\* was edited under stored overrides, are excepted, and one confirmed change
\* brings such a module back in order.
EffectiveValid == \A m \in Modules \ unvalidated : EffectiveOK(m, overrides)

\* The last security event about a threshold tells the override in force, but
\* for the one being recorded, unless a database call failed or the process
\* ended in between: Confirm stores the override before it records it.
OverridesAudited ==
  faults = 0 /\ ~cut =>
    \A k \in Keys :
      \/ overrides[k] = audit[k]
      \/ job # None /\ job.step = "record" /\ job.key = k

\* Commands are handled one at a time, so that a Confirm which has stored its
\* override still has its value to announce (needed to prove OverridesAudited).
OneCommand ==
  job # None => /\ reply = "busy"
                /\ job.step = "record" => overrides[job.key] = job.value

IInv == TypeOK /\ EffectiveValid /\ OneCommand /\ OverridesAudited
=============================================================================
