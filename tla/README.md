# Verification of withdraw-bot

withdraw-bot watches one Morpho Vault V2 position, reports to one Telegram chat
and redeems the whole position when a monitor module reports something urgent.
This directory holds TLA+ models of the daemon, the TLC configurations that
check them on small instances, and TLAPS proofs of the properties that matter
most for every instance. Paths below are relative to `src/internal/` unless they
start with `src/`; "the design" is
`src/docs/superpowers/specs/2026-05-09-morpho-withdraw-bot-design.md`.

## 1. The system

Two goroutines share one process, one SQLite database and one owner account:

* the **monitor loop** (`monitor/service.go`): every tick each module validates
  its thresholds, reads the vault and yields a result, which is stored; the
  urgent findings of the whole tick are then alerted and handed to the withdraw
  service (`app/alerts.go`);
* the **Telegram loop** (`interactions/telegram/service.go`): long-polls for
  commands, checks the sender, runs the command (reports, a dry run of the exit,
  threshold changes with confirmation) and answers.

The first loop to return an error ends the process (`app/app.go`), and
`src/docker-compose.yml` starts it again.

| component | state | operations | talks to |
|---|---|---|---|
| withdraw service (`withdraw/service.go`) | mutex, `pending` (in memory) | `ExecuteFullExit`, dry run | vault, nodes, database |
| gas policy (`withdraw/gas.go`) | none | initial fees, bump, caps | – |
| Morpho adapter (`withdraw/morpho_adapter.go`) | none | position, simulation, call data | vault |
| Ethereum client (`ethereum/client.go`) | list of nodes | reads with fallback, submission to the primary | nodes |
| monitor service (`monitor/service.go`) | `Latest` | `RunLoop`, `RunOnce`, `Snapshot` | modules, database, alert service |
| monitor modules (`monitor/modules/morpho`) | none | `Monitor`, `ValidateConfig`, `Bootstrap` | vault reader |
| module factory, vault reader (`morpho/factory.go`) | none | `BuildModules`, the reads | nodes |
| alert service (`app/alerts.go`) | none | `HandleMonitorResults` | Telegram, withdraw service |
| threshold overrides (`app/providers.go`, `app/overrides.go`, `morpho/overrides.go`) | tables `threshold_overrides`, `pending_confirmations`, `event_records` | list, request, confirm, apply | database |
| Telegram interaction | offset of the poll | fetch, authorise, dispatch, answer | Telegram, providers |
| storage (`storage/`) | the SQLite file | one transaction per repository call | – |
| runtime (`app/app.go`, `app/runtime.go`) | open handles, `errCh` | start-up, start and end of the loops, shutdown | all |
| configuration (`config/`) | the YAML file, the environment | load, validate | – |
| signer, reports, logging, core types, one-shot modes | – | signing, formatting | – |

What is hard here, and what correctness means for each part:

* *Withdraw service.* Balance, simulation, nonce and fees are read one by one
  while the chain moves; replies get lost; the process restarts. There should be
  one active nonce, fees within the configured caps, a row for every
  transaction, no replacement before the timeout, and in the end no shares.
* *Gas policy.* Rounding against two caps, repeated without end.
* *Monitor and alerts.* A failing module, insert, alert or exit must neither
  hide other findings nor lead to an exit that no stored result explains.
* *Modules and client.* A picture of the vault made of several calls at several
  blocks, from nodes that lag: nothing lasting is overlooked, nothing is made up.
* *Thresholds.* Two-step changes by several users that are valid one by one and
  not together; three transactions for one command; a YAML file that is wrong, by
  itself or under stored overrides, and that nothing checks before the first tick.
* *Telegram.* Redelivery after a restart; commands that fail each time.
* *Runtime.* Two goroutines of which either ends the other: what is half done
  when the context is cancelled and the database closed, a start-up that fails
  half way, a process that ends again and again before the monitor has acted.

`PROJECT.json` lists these hazards line by line with the properties for each.

## 2. The modules

| module | models | extends |
|---|---|---|
| `GasPolicy` | fee arithmetic, validation, the pool's replacement rule | – |
| `FeeEscalation` | first fees and any number of bumps | `GasPolicy` |
| `Chain` | account nonce, pool, shares, liquidity, fee level (external) | `GasPolicy` |
| `Exit` | what `ExecuteFullExit` promises (abstract) | `GasPolicy` |
| `WithdrawService` | `ExecuteFullExit`, concurrent callers, restarts | `Chain`; implements `Exit` |
| `MonitorService` | `RunLoop`, `RunOnce`, alert service | – |
| `VaultMonitor` | the three modules, vault reader, `MultiClient` | – |
| `Thresholds` | overrides, confirmations, audit events, YAML files | – |
| `Telegram` | command loop on top of `Thresholds`, Telegram server | `Thresholds`; implements it |
| `Runtime` | start-up and shutdown of one life of the process, its handles | – |
| `Bot` | the whole process: `main`, both loops, restarts, outages | `Telegram`, with instances of `MonitorService` and `Runtime`; implements `Thresholds` |

Each `...Proofs` module extends the module it is about (section 4). Each `MC...`
module only gives values to constants. A definition whose name the
map in `PROJECT.json` does not list and that stands before the one it varies
(`NeverTooEarly`, `GoesOnAfterAny`, ...) is a deliberately wrong form of it: put
in its place it makes TLC find the property it is listed with violated.

**Where actions are cut.** An operation is one action from one call out of the
process to the next: what happens between two such calls is local to the
goroutine and cannot be observed. `ExecuteFullExit` is thus
`Begin, ReadPosition, RecordNoop | PreviewRedeem, Simulate | SimulateFails,
ReadNonce, ReadGasPrice, ReadTipCap, Send, RecordSubmitted`, with `call[c]` for
its locals and `holder` for the mutex; `RunOnce` is `ValidateConfig, Monitor, Store` per module and then
`SendAlert, HandleUrgent` per urgent finding; `Confirm` is
`Consume, Upsert, RecordOverride`; a `Monitor` of a module is one `Read...`
per call and an `Evaluate...`; `Run` is one action per call of the start-up that
may fail, and one per deferred close.

**Refinement.** `WithdrawService` implements `Exit` under the mapping
`trusted <- Steady, nonce <- chainNonce, position <- shares, live <- LiveExit`
(the one transaction of the pool): at most one withdrawal is live, at the next
nonce, for shares the owner has, within the caps; it is replaced only by one
that outbids it. `Exit` promises nothing once the service cannot know its own
transactions (`Steady`: no restart, lost reply, lagging node or other use of
the account). `Telegram` and `Bot` implement `Thresholds`, whose variables they
share, so the mapping is the identity: what is shown is that the loop reaches the
tables only by what `Thresholds` allows, one command at a time.

**The composition.** In `Bot` the monitor's `validate` step fails exactly when the
module rejects its YAML thresholds with the overrides stored at that moment;
an outage of Telegram fails polls, answers, alerts and the `getMe` of the
start-up; `FirstErr` is `errCh`. After `cancel()` each loop may finish the one
call it is in (`grace`), and answers and alerts, which take no context, still go
out until the process is gone. `Deploy` is the operator: other thresholds, or
files that `Load`, `LoadSecretsFromEnv`, `parseAddress` or `BuildModules` refuse.
`ExecuteFullExit` is one step there; what happens inside it, and when it is cut,
is in `WithdrawService`.

**Data.** Amounts are naturals, in the units of the configuration of the run
(the code computes with big integers, so no width is lost). A finding is its
severity in `MonitorService`, and its key and place in `VaultMonitor`.
Severities that are threshold values are 1 and 2. Time is an age counted up to
the only value it is compared with (`ReplacementTimeout`, `TTL`).

**Failures.** `WithdrawService` and `Chain` call them disturbances and remember
which kinds have happened, so that a property can name the ones it does not
survive: a failing RPC, a lost reply to a submission, a lagging node, a failing
insert, a crash, an eviction, a transaction of the owner's own, a deposit, a
change of liquidity, a change of the fee level. The other modules count faults.

## 3. The runs

| run | instance | properties | distinct states |
|---|---|---|---|
| `withdraw_safety` | 2 callers, all 10 kinds, any 2 disturbances, tip cap above fee cap | `TypeOK`, `SingleActiveNonce`, `FeesWithinCaps`, `AuditTrail`, `ReplacementDiscipline`, `ImplementsExit` | 904 000 |
| `withdraw_liveness` | 1 caller, all kinds but a lost reply, any 2 disturbances, room below the caps | `ExitsUnlessStranded`, `LockReleased` | 450 000 |
| `fee_escalation` | gas prices 0..150 and tips 0..130 suggested, caps 300 and 120 | `EscalationWithinCaps`, `OutbidsBelowCaps`, `NeverStuckOnValidate`, `EscalationMonotone` | 24 000 |
| `monitor` | 2 modules with none, one or two urgent findings or failing, 2 faults, restarts | `TypeOK`, `HandledInOrder`, `ActsOnStored`, `LatestFresh`, `UrgentKeepsExiting` | 15 000 |
| `vault_monitor` | 2 nodes, chains of 3 blocks over 5 vault states, 2 outages | `TypeOK`, `LastingDangerReported`, `AlarmsHaveCause`, `DangerKeepsBeingReported` | 307 000 |
| `thresholds` | 2 users, both loss thresholds, values 0..2, 3 YAML files, one wrong by itself, 1 fault, restarts | `TypeOK`, `EffectiveValid`, `OverridesAudited` | 973 000 |
| `bot` | 1 module that fails or is urgent, 2 updates out of set, confirm, query and an outsider's, 2 YAML files, one wrong by itself, and 4 unusable deployments, 1 fault, crash or outage, a primary and a fallback client | `BTypeOK`, `AcknowledgedIsDone`, `HandlesClosed`, `ValidatedStaysValid`, `ImplementsThresholds`, `LoopsComeBack`, `DangerKeepsExiting`, `UpdatesGetThrough` | 296 000 |

What they show:

* **`SingleActiveNonce`**: while the process has not restarted, no submission
  reply was lost, no node lagged and nobody else uses the account, everything
  live has the nonce of `service.pending`; concurrent callers, failing inserts,
  evictions, deposits and reverted exits included.
* **`ReplacementDiscipline`**: a step that changes what is pending keeps the
  nonce, lowers no fee and comes no earlier than the timeout.
* **`FeesWithinCaps`, `AuditTrail`**: what is live has valid fees within both
  caps, and a submitted row, but for the failures named in the property.
* **`ExitsUnlessStranded`**: once the vault can pay for good the position is closed
  again and again, however often shares come back, unless the exit is `Stranded`
  for good: the nonce of `pending` is no longer the account's next one. That
  happens after a revert, after a deposit between the send and the mining, after
  a transaction of the owner, or after a restart with a withdrawal live, and
  `exit_after_revert` shows that it then does last. A lost reply is the one
  disturbance left out: the same bump is computed again and refused.
* **`LockReleased`**: no return path keeps the mutex.
* **`ImplementsExit`**: the service keeps the promise of `Exit`. It is more than
  `SingleActiveNonce`: the live withdrawal is at the account's next nonce and for
  shares that are there, although balance, nonce and fees were read earlier.
* **`HandledInOrder`, `ActsOnStored`**: alert before exit, in order, none
  skipped, and only when all results of the tick are in the database.
* **`LatestFresh`**: no entry of what `/stats` shows is older than the last tick,
  but an entry may be UNKNOWN (see below).
* **`UrgentKeepsExiting`**: while one module keeps being urgent the loop keeps
  asking for the exit, whatever the others do and however often the process is
  started again.
* **`LastingDangerReported`, `AlarmsHaveCause`**: a module reports what is so in
  every block its calls can have read, and nothing that is so in none of them,
  with every mix of nodes and blocks. The exceptions are part of the
  properties: the price is right only while the supply does not change, an
  outage during the simulation looks like a simulation that failed, and a list
  of adapters is compared place by place.
* **`DangerKeepsBeingReported`**: a danger that stays is reported again and
  again once the nodes have caught up.
* **`EffectiveValid`, `OverridesAudited`**: no sequence of requests, confirmations
  and restarts makes `RunOnce` reject a module. What can is the YAML, which no
  start-up code checks: the modules of a file that is wrong by itself, or that was
  edited under stored overrides, are kept in `unvalidated` and excepted, until one
  confirmed change brings them back in order. The last security event tells the
  override in force unless a call failed or the process ended in between, which
  does leave an override without its event.
* **`AcknowledgedIsDone`**: the server forgets an update only when the loop is
  through with it, also when the monitor ends the process in the middle of it.
  **`ImplementsThresholds`**: in the whole process commands take effect only as
  `Thresholds` allows. **`UpdatesGetThrough`**: in the end every update is answered
  or in the security log, whichever loop has ended the process in the middle of
  it, unless some command fails again and again.
* **`ValidatedStaysValid`**: `Monitor` reads the overrides a second time after
  `ValidateConfig`; whatever the Telegram loop has stored in between, the module
  would be accepted still.
* **`HandlesClosed`**: every way out of `Run` has closed every client, the log and
  the database. **`LoopsComeBack`**: either loop's end is followed by a shutdown
  and a start of both, also when a YAML file ends each life at its first tick.
* **`DangerKeepsExiting`**: with a usable deployment, valid thresholds and
  Telegram within reach, a lasting danger is met with exit after exit, or else
  some command fails again and again: no other interference exists.

Five runs end in a violation on purpose: each checks what the design says
against what the code does.

| run | the design | the code |
|---|---|---|
| `nonce_after_restart` | "Keep one active withdrawal nonce" (327) | `pending` is lost with the process; the next urgent tick opens a second nonce (`withdraw/service.go:209`) |
| `exit_after_revert` | repeated ticks "keep managing the active exit attempt until shares are gone" (309) | a withdrawal that reverts stays `pending`; each replacement reuses a spent nonce (`withdraw/service.go:238`); property `ExitsWhenPossible` |
| `stale_data` | a module unknown for too long emits an `URGENT` finding (264) | it warns for ever; the setting is not read (`monitor/service.go:70`) |
| `danger_exits` | "Urgent monitor findings trigger automatic full exit ... so the bot can withdraw while the operator is offline" (298) | one command that fails ends the process, unacknowledged, and is redelivered to every later life, which may each time end before the monitor loop has come to the exit (`interactions/telegram/service.go:263`) |
| `torn_price` | "Emit `URGENT` if either loss crosses urgent bps" (197) | assets and supply are read at two blocks; a deposit in between is an urgent loss (`morpho/factory.go:196`) |

`danger_exits` needs neither a failing call nor an outage. How often the monitor
loop loses the race against the failing command is a matter of timing, which the
code does not control; the run shows that nothing excludes losing it each time.

Four smaller things the models show and no run is about:

* a module that fails has its UNKNOWN result put in place of its last success in
  `Latest` (`monitor/service.go:79`), and no code reads the rows of
  `monitor_results`; the design says "Last successful snapshot remains available
  but is marked stale" (261) and has `/stats` show its age (268);
* a price of zero is an error and not a loss (`share_price.go:71`, expected by
  `share_price_test.go:278`), so a vault that has lost everything is UNKNOWN and
  not urgent, whatever the design says of losses (197);
* once the tip has met its cap the pool refuses further replacements
  (`withdraw_liveness` with `MaxTipCap = 100` shows it);
* `PreviousSharePrice` is never set, so only the loss against the baseline is
  ever computed.

### Bounds

Two callers are enough for every pair of concurrent exits, as a third would only
wait for the same mutex; two disturbances reach every pair of failures. The caps
leave room for two or three bumps, so that the first submission, a plain
replacement and a capped one all occur. In `withdraw_liveness` two disturbances
are a deposit or a revert and one failure on top, and the caps hold the bump
that the dearer fee level takes. Two modules with up to two findings each give
every order of handling across and within modules; two users are what it takes
to confirm a change after somebody else's. Three blocks let the vault change
before and during a run of a module, and back. In `bot` two updates are a
request and its confirmation, a request sent twice, or a command before and
after one that fails; one module is enough for what the loops share, as
`monitor` has the order of several. Of the two YAML files one is wrong by itself
and put right by the change that is asked for, the other is right and the change
would break it, so that a deployment repairs the stored overrides or makes them
invalid, and a request may be confirmed under the other file. There `MaxFaults`
bounds failing calls, crashes and outages together; restarts after an error are
not bounded. Faults are bounded because each is free; the liveness properties
therefore speak of failures that stop at some time. A dry run of the exit that
the chain rejects is one of these failures too, though it can fail each time it
is asked for: that is the command that fails again and again which the
properties of `Bot` except.

### Fairness

* `WithdrawService`: weak fairness of the steps of a running call and of calling
  again (the ticker, while the finding stays), of time, and of inclusion of a
  transaction that stays includable. Disturbances are not fair.
* `MonitorService`: weak fairness of the loop (`time.Ticker`) and of the restart.
* `VaultMonitor`: weak fairness of the running module and of each node importing
  blocks.
* `Bot`: weak fairness of `main`, which includes being started again (`restart:
  unless-stopped` in `src/docker-compose.yml`), and of each loop, one by one.
  Nothing is assumed about their relative speed, so a life of the process may end
  before the other loop has done anything. Users, operators, outages, crashes and
  the chain are not fair.

All of them assume that a call to a node, to Telegram or to the database
returns. The code sets no deadline on calls to nodes; a connection that hangs
for ever is outside the models and is listed among the hazards.

## 4. The proofs

All theorems are checked by TLAPS to the last leaf, for every value of the
constants that satisfies the named assumptions. No number of callers, users,
modules, findings, nodes, vault states, commands, disturbances or fee levels is
fixed. Every safety invariant, action property and refinement of the passing
runs is proved.

| assumption | what it asks, and why the code justifies it |
|---|---|
| `GasConfigAssumption`, `SuggestionAssumption`, `ChainAssumption`, `ServiceAssumption` | what `Config.Validate` guarantees of the caps and the bump; naturals for what the nodes suggest |
| `MonitorAssumption` | at least one module (`BuildModules` accepts none enabled too: then a tick does nothing, and nothing is to be shown); a module reports a list of severities |
| `ThresholdsAssumption` | users ask for known keys and naturals (a negative value is refused as zero is); nothing is assumed of a YAML file but that thresholds are integers |
| `TelegramAssumption` | outsiders are not users; commands are of the kinds the loop knows |
| `VaultMonitorAssumption` | at least one node; amounts are naturals, lists are sequences; a positive baseline price, scale and warning thresholds, urgent beyond warning (`ValidateConfig`); every state has the scalar fields of the baseline; a missing answer is no boolean |
| `BotAssumption` | a non-empty list of the known modules (`knownModuleIDs`); reports as above |

| module | theorems |
|---|---|
| `GasPolicyProofs` | lemmas on `bumpBPS` and the caps |
| `FeeEscalationProofs` | `EscalationSafe`, `EscalationNeverLowers`, `EscalationOutbids`, `EscalationNeverStuck` |
| `WithdrawServiceProofs` | `Invariant`, `TypeSafety`, `NonceSafety`, `FeeSafety`, `AuditSafety`, `ReplacementSafety`, `ExitSafety` |
| `MonitorServiceProofs` | `Invariant`, `TypeSafety`, `HandlingSafety`, `StoredSafety`, `FreshSafety` |
| `VaultMonitorProofs` | `Invariant`, `TypeSafety`, `AlarmSafety`, `DangerSafety` |
| `ThresholdsProofs` | `Invariant`, `TypeSafety`, `EffectiveSafety`, `AuditSafety` |
| `TelegramProofs` | `LoopInvariant`, `AcknowledgedSafety`, `LoopImplementsThresholds` |
| `BotProofs` | `BotInvariant`, `BotTypeSafety`, `HandlesSafety`, `ValidatedSafety`, `BotImplementsThresholds`, `BotAcknowledges`, `BotTicksInOrder` |

Each inductive invariant stands at the end of the module it is about and was
checked by TLC on the instance of that module's run before it was proved.

* **Gas.** `GasPolicyProofs` has what a division by 10000 yields, monotonicity and
  the 10 % rule. `EscalationWithinCaps` is inductive as it stands; the others
  follow from it and the lemmas.
* **Withdraw service.** `SingleActiveNonce` alone is not inductive: a call between
  its reads may hold a nonce, or be about to forget `pending`, while the pool
  changes. `IInv` adds that only the holder of the mutex is inside
  (`Exclusive`), that the pool has one transaction per nonce (`OnePerNonce`),
  that fees are within caps wherever they are kept (`FeesInv`), what each point
  of a call knows of `pending` (`CallInv`: past `ReadNonce` there is none, at
  `Send` of a replacement it is unchanged and old enough, at `RecordSubmitted` it
  is what was sent), and, while steady, that what is live has shares to redeem
  and that a call about to clear `pending` has an empty pool before it
  (`SteadyInv`).
* **The promise of `Exit`.** `ExitSafety` needs `PromiseInv` besides: while steady,
  what is live is at the account's next nonce and for shares that are there,
  and a call past its reads will send just that, or a nonce that is spent and
  the node refuses. Each action of the service is then a step of `Exit`, or
  leaves what `Exit` speaks of unchanged; a disturbance ends the trust.
* **Monitor service.** `CollectInv` says how far `RunOnce` is: the results before the
  module at hand are there, their rows too unless an insert failed. `HandleInv`
  says that handling starts only when all are, and that alerts are one ahead of
  exits while an exit runs. "The next urgent finding" is the least of an order
  on pairs of module and position; that it exists is by well-founded induction
  on a product of naturals. `AgeInv`: only a module still to come in this tick
  has a result of the last one.
* **Monitor modules.** `IInv` says that no node answers from before the window of
  the run (`ViewsInWindow`), that the n-th thing read is the answer of some block
  in the window to the n-th call (`AnswersSeen`), how many answers there are at
  each call (`CallsInOrder`), and that a report is computed from them
  (`ReportComputed`). The window only grows, so what was seen in it stays seen.
  `AlarmSafety` and `DangerSafety` follow without induction. For the price they
  need that the rounded `lossBPS` meets a threshold exactly when the unrounded
  loss does (`LossReaches`), and that with a steady supply the assets of one
  block and the supply of another are both those of the first (`PriceRead`). A
  list of adapters read one by one at several blocks may be the list of no
  block; that it differs from the baseline still tells that one block's does,
  and conversely place by place, because its length was read too (`StateRead`).
* **Thresholds.** `IInv` is `TypeOK`, `EffectiveValid`, `OverridesAudited` and
  `OneCommand` (a single command is between its steps, since one goroutine
  handles them). The second validation in `Confirm` is what carries
  `EffectiveValid`; the lemma `ChangeKeepsValid` states it. A module
  that is not in `unvalidated` has the YAML its overrides were validated with, or
  no overrides and a YAML that is in order, so an edit leaves it valid
  (`OwnThresholds`, `EditKeepsValid`). Nothing is assumed of the YAML files.
* **Telegram.** `TInv` puts on top of it what carries `AcknowledgedIsDone` although
  the offset moves before the command is handled: what was taken on in this
  life is done but for the command under way (`TakenOnIsDone`), the batch follows
  the offset without a gap (`BatchFollows`), and only a running loop has a command
  under way, the last one taken on (`CommandUnderWay`). Every step of the loop is
  a step of `Thresholds` or none of its business, so `Thresholds`' own lemmas
  give `IInv` again.
* **The process.** `BInv` is the conjunction of `TInv`, `IInv` of the monitor instance,
  `HandlesByStep` (which handles are open at each step of `Run`) and
  `LoopsUnderMain` (a goroutine runs only between `launch` and the end of the
  shutdown). The lemmas of `MonitorServiceProofs` are used through an instance
  of it, so nothing about a tick is proved twice. `ValidatedStaysValid` is part
  of the invariant: between `validate` and `monitor` the other goroutine can
  change overrides only through `Confirm`, which validates with the same YAML
  (`ChangeKeepsModule`), and the YAML changes only while the process is down. The
  refinement follows from the inclusion of each action of `Bot` in one of
  `Telegram` (`LoopWithinProcess`), and of that in one of `Thresholds`.

Only model-checked: the liveness properties `ExitsUnlessStranded`, `LockReleased`,
`UrgentKeepsExiting`, `DangerKeepsBeingReported`, `LoopsComeBack`,
`DangerKeepsExiting` and `UpdatesGetThrough` (fairness and `ENABLED` are beyond the
prover), and the five runs that end in a violation.

## 5. Not modelled

Encoding and formatting (ABI, YAML fields, reports, messages, event listings),
logging, the redaction of secrets, the signer (one local key, no state), the
one-shot modes `bootstrap` and `config-check` (a sequence of reads and an output,
no state that outlives them), and `DryRunFullExit` (reads only). A call that never
returns is outside the models. Reorganisations of the chain are left out: a node only moves
forward. Role, timelock and penalty maps of the vault are compared by
`DiffVaultState` but never read by the code; they are empty in the model too.

## 6. Plan

What the runs check is proved as far as the prover goes. What is left:

1. Theorems about what follows from the promises: that `Exit` by itself allows
   at most one live withdrawal, and what that means for the shares, so that a
   reader of `Exit` need not look at the service.
2. Steps and step sequences as action properties of `MonitorService` and `Runtime`
   (an urgent finding is handed on once per tick; a handle is never used after
   its close), proved from the invariants at hand.
3. The recorded part of the withdraw service between restarts: what the rows in
   the database tell of the pool when `pending` is lost.
