---------------------------- MODULE VaultMonitor ----------------------------
(***************************************************************************)
(* The three monitor modules (internal/monitor/modules/morpho), the        *)
(* vaultReader they read the vault with (internal/morpho/factory.go) and   *)
(* the MultiClient under it (internal/ethereum/client.go).                 *)
(*                                                                         *)
(* A module puts its picture of the vault together from several calls,     *)
(* each at the latest block of the node that answers it.  Between two      *)
(* calls the chain moves, a node catches up, or a node fails and another,  *)
(* which may be blocks behind, answers.  MultiClient cannot tell a revert  *)
(* from an outage: it goes on to the next node on both.                    *)
(*                                                                         *)
(* A module runs from Begin to pc = "done", where report is what Monitor   *)
(* returns.  MonitorService says what becomes of it.                       *)
(***************************************************************************)
EXTENDS Naturals, Sequences, FiniteSetsExt

CONSTANTS
  N,               \* number of RPC clients; 1 is the primary
  VaultStates,     \* states of the vault a block may leave
  Baseline,        \* vault_state_baseline: [fields, adapters]
  BaselinePrice,   \* baseline_share_price_asset_units
  Scale,           \* 10^asset_decimals
  WarnBPS, UrgentBPS,
  IdleWarn, IdleUrgent,
  ChangeSeverity,
  None,            \* no answer: an outage or a revert; no result
  MaxBlocks,       \* bound on the length of the chain
  MaxOutages       \* bound on the calls a node does not answer

Clients == 1..N

\* The scalar fields of VaultStateSnapshot, in the order they are read.  The
\* maps of roles, timelocks and penalties are never read: they are empty on
\* both sides.
Fields == DOMAIN Baseline.fields

\* s is a sequence.
IsList(s) == Len(s) \in Nat /\ s = [i \in 1..Len(s) |-> s[i]]

ASSUME VaultMonitorAssumption ==
  /\ N \in Nat \ {0}
  /\ \A v \in VaultStates :
       /\ {v.totalAssets, v.totalSupply, v.idle, v.shares} \subseteq Nat
       /\ v.redeemable \in BOOLEAN
       /\ Len(v.fields) = Len(Baseline.fields)
       /\ IsList(v.adapters)
  /\ IsList(Baseline.fields) /\ IsList(Baseline.adapters)
  /\ Len(Baseline.fields) > 0
  /\ None \notin BOOLEAN
  /\ BaselinePrice \in Nat \ {0} /\ Scale \in Nat \ {0}
  /\ WarnBPS \in Nat \ {0} /\ UrgentBPS \in Nat /\ WarnBPS <= UrgentBPS
  /\ IdleUrgent \in Nat \ {0} /\ IdleWarn \in Nat /\ IdleWarn >= IdleUrgent
  /\ ChangeSeverity \in {"WARN", "URGENT"}
  /\ MaxBlocks \in Nat \ {0} /\ MaxOutages \in Nat

VARIABLES
  blocks,      \* the vault after each block
  view,        \* the block each node is at
  module,      \* the module that runs
  pc,          \* its next call, or "evaluate", or "done"
  got,         \* what its calls have returned
  report,      \* what Monitor returned; None is an error
  since,       \* lowest block of a node, and outages, when the module began
  outages

chainVars == <<blocks, view>>
vars == <<chainVars, module, pc, got, report, since, outages>>

-----------------------------------------------------------------------------
(* The vault contract, and the client that asks the nodes for it.          *)

\* A call to vault v.  "redeem" stands for previewRedeem and the gas estimate
\* of redeem(arg, ...), "idle" for asset() and the balance of that token.
Answer(v, method, arg) ==
  CASE method = "totalAssets" -> v.totalAssets
    [] method = "totalSupply" -> v.totalSupply
    [] method = "idle" -> v.idle
    [] method = "balanceOf" -> v.shares
    [] method = "redeem" -> IF v.redeemable /\ arg <= v.shares THEN arg ELSE None
    [] method = "field" -> v.fields[arg]
    [] method = "adaptersLength" -> Len(v.adapters)
    [] method = "adapters" -> IF arg <= Len(v.adapters) THEN v.adapters[arg] ELSE None

\* The loop of MultiClient.CallContract and EstimateGas: the answer of the
\* first client that gives one, when those in down do not answer.
CallContract(down, method, arg) ==
  LET ok == {n \in Clients \ down : Answer(blocks[view[n]], method, arg) # None}
  IN  IF ok = {} THEN None ELSE Answer(blocks[view[Min(ok)]], method, arg)

\* The clients that may be unable to answer the next call.
Outages == {down \in SUBSET Clients : down = {} \/ outages < MaxOutages}

CountOutage(down) == outages' = IF down = {} THEN outages ELSE outages + 1

-----------------------------------------------------------------------------
(* What the modules compute.                                               *)

RoundsUp(reference, current) ==
  IF current >= reference THEN 0
  ELSE ((reference - current) * 10000 + reference - 1) \div reference

lossBPS(reference, current) ==
  IF current >= reference THEN 0
  ELSE ((reference - current) * 10000) \div reference

CurrentSharePrice(totalAssets, totalSupply) == (totalAssets * Scale) \div totalSupply

Finding(key, at, severity) == [key |-> key, at |-> at, severity |-> severity]

\* SharePriceModule.  PreviousSharePrice is set nowhere: previousLoss is 0.
PriceFindings(price) ==
  LET loss == lossBPS(BaselinePrice, price)
  IN  IF loss >= UrgentBPS THEN {Finding("share_price", 0, "URGENT")}
      ELSE IF loss >= WarnBPS THEN {Finding("share_price", 0, "WARN")} ELSE {}

TakesErrorForSuccess(idle, exits) ==
  IF idle < IdleUrgent THEN {Finding("idle", 0, "URGENT")}
  ELSE IF idle < IdleWarn THEN {Finding("idle", 0, "WARN")} ELSE {}

\* WithdrawLiquidityModule; exits is simulation.Success.
LiquidityFindings(idle, exits) ==
  (IF idle < IdleUrgent THEN {Finding("idle", 0, "URGENT")}
   ELSE IF idle < IdleWarn THEN {Finding("idle", 0, "WARN")} ELSE {})
  \cup (IF exits THEN {} ELSE {Finding("exit", 0, "URGENT")})

SkipsAnyEmpty(fields, adapters) ==
  {Finding("field", f, ChangeSeverity) : f \in {g \in Fields : fields[g] # Baseline.fields[g]}}
  \cup (IF adapters = <<>> \/ Baseline.adapters = <<>> \/ adapters = Baseline.adapters
          THEN {} ELSE {Finding("adapters", 0, ChangeSeverity)})

\* VaultStateModule: a finding for each difference of DiffVaultState.
DiffVaultState(fields, adapters) ==
  {Finding("field", f, ChangeSeverity) : f \in {g \in Fields : fields[g] # Baseline.fields[g]}}
  \cup (IF adapters = Baseline.adapters THEN {} ELSE {Finding("adapters", 0, ChangeSeverity)})

-----------------------------------------------------------------------------

Modules == <<"share_price_loss", "withdraw_liquidity", "vault_state">>

FirstCall == <<"totalAssets", "idle", "field">>

MinView == Min({view[n] : n \in Clients})

Init ==
  /\ \E v \in VaultStates : blocks = <<v>>
  /\ view = [n \in Clients |-> 1]
  /\ module = 1
  /\ pc = FirstCall[1]
  /\ got = <<>>
  /\ report = None
  /\ since = [height |-> 1, outages |-> 0]
  /\ outages = 0

\* The monitor goes on to the next module, or to the first at the next tick.
Begin ==
  /\ pc = "done"
  /\ module' = (module % Len(Modules)) + 1
  /\ pc' = FirstCall[module']
  /\ got' = <<>>
  /\ report' = None
  /\ since' = [height |-> MinView, outages |-> outages]
  /\ UNCHANGED <<chainVars, outages>>

\* Monitor returns.
Return(result) == report' = result /\ pc' = "done"

Known(findings) == [findings |-> findings]

KeepsGoing(method, arg, next) ==
  /\ pc = method
  /\ \E down \in Outages :
       /\ CountOutage(down)
       /\ got' = Append(got, CallContract(down, method, arg))
       /\ pc' = next
  /\ UNCHANGED <<chainVars, module, report, since>>

\* A call of the vaultReader: keep the answer, or return the error.
Read(method, arg, next) ==
  /\ pc = method
  /\ \E down \in Outages :
       LET answer == CallContract(down, method, arg)
       IN  /\ CountOutage(down)
           /\ \/ answer = None /\ Return(None) /\ UNCHANGED got
              \/ answer # None /\ got' = Append(got, answer) /\ pc' = next /\ UNCHANGED report
  /\ UNCHANGED <<chainVars, module, since>>

ReadTotalAssets == Read("totalAssets", 0, "totalSupply")

ReadTotalSupply == Read("totalSupply", 0, "evaluate")

\* The rest of SharePriceModule.Monitor.  A price of zero is an error too.
EvaluatePrice ==
  /\ module = 1 /\ pc = "evaluate"
  /\ \/ /\ got[2] = 0 \/ CurrentSharePrice(got[1], got[2]) = 0
        /\ Return(None)
     \/ /\ got[2] # 0 /\ CurrentSharePrice(got[1], got[2]) # 0
        /\ Return(Known(PriceFindings(CurrentSharePrice(got[1], got[2]))))
  /\ UNCHANGED <<chainVars, module, got, since, outages>>

ReadIdleAssets == Read("idle", 0, "balanceOf")

ReadPosition == Read("balanceOf", 0, "redeem")

\* SimulateFullExit for the balance that was read; without one Monitor fails.
\* An error of the simulation is a simulation that does not succeed.
SimulateFullExit ==
  /\ pc = "redeem"
  /\ \/ got[2] = 0 /\ Return(None) /\ UNCHANGED <<got, outages>>
     \/ /\ got[2] # 0
        /\ \E down \in Outages :
             /\ CountOutage(down)
             /\ got' = Append(got, CallContract(down, "redeem", got[2]) # None)
        /\ pc' = "evaluate"
        /\ UNCHANGED report
  /\ UNCHANGED <<chainVars, module, since>>

EvaluateLiquidity ==
  /\ module = 2 /\ pc = "evaluate"
  /\ Return(Known(LiquidityFindings(got[1], got[3])))
  /\ UNCHANGED <<chainVars, module, got, since, outages>>

\* CurrentVaultState, field by field ...
ReadField ==
  Read("field", Len(got) + 1,
       IF Len(got) + 1 < Len(Baseline.fields) THEN "field" ELSE "adaptersLength")

ReadAdaptersLength == Read("adaptersLength", 0, "adapters")

FieldsRead == SubSeq(got, 1, Len(Baseline.fields))
LengthRead == got[Len(Baseline.fields) + 1]
AdaptersRead == SubSeq(got, Len(Baseline.fields) + 2, Len(got))

\* ... and adapter by adapter, up to the length read before.
ReadAdapter ==
  /\ pc = "adapters"
  /\ Len(AdaptersRead) < LengthRead
  /\ Read("adapters", Len(AdaptersRead) + 1, "adapters")

EvaluateState ==
  /\ pc = "adapters"
  /\ Len(AdaptersRead) = LengthRead
  /\ Return(Known(DiffVaultState(FieldsRead, AdaptersRead)))
  /\ UNCHANGED <<chainVars, module, got, since, outages>>

Step ==
  \/ Begin
  \/ ReadTotalAssets \/ ReadTotalSupply \/ EvaluatePrice
  \/ ReadIdleAssets \/ ReadPosition \/ SimulateFullExit \/ EvaluateLiquidity
  \/ ReadField \/ ReadAdaptersLength \/ ReadAdapter \/ EvaluateState

\* A block changes the vault.
NewBlock ==
  /\ Len(blocks) < MaxBlocks
  /\ \E v \in VaultStates : v # blocks[Len(blocks)] /\ blocks' = Append(blocks, v)
  /\ UNCHANGED <<view, module, pc, got, report, since, outages>>

\* A node imports the next block.
CatchUp(n) ==
  /\ view[n] < Len(blocks)
  /\ view' = [view EXCEPT ![n] = @ + 1]
  /\ UNCHANGED <<blocks, module, pc, got, report, since, outages>>

Next == Step \/ NewBlock \/ \E n \in Clients : CatchUp(n)

Spec == Init /\ [][Next]_vars

\* The loop goes on (MonitorService), every call returns, every node syncs.
FairSpec == Spec /\ WF_vars(Step) /\ \A n \in Clients : WF_vars(CatchUp(n))

-----------------------------------------------------------------------------

TypeOK ==
  /\ blocks \in Seq(VaultStates) /\ Len(blocks) \in 1..MaxBlocks
  /\ view \in [Clients -> 1..Len(blocks)]
  /\ module \in DOMAIN Modules
  /\ pc \in {"totalAssets", "totalSupply", "idle", "balanceOf", "redeem", "field",
             "adaptersLength", "adapters", "evaluate", "done"}
  /\ \A i \in DOMAIN got : got[i] # None
  /\ since.height \in 1..Len(blocks)
  /\ since.outages \in 0..outages
  /\ outages \in 0..MaxOutages

Done(m) == pc = "done" /\ Modules[module] = m

Reports(key, at, severity) == report # None /\ Finding(key, at, severity) \in report.findings

\* The vault states a call of this run can have been answered from.
Window == {blocks[h] : h \in since.height..Len(blocks)}

PriceOf(v) == CurrentSharePrice(v.totalAssets, v.totalSupply)

\* The price of v, where it has one, has lost bps: without rounding.
HasLost(v, bps) ==
  /\ v.totalSupply > 0 /\ PriceOf(v) > 0
  /\ PriceOf(v) * 10000 <= BaselinePrice * (10000 - bps)

\* No shares were minted or burnt while the module ran.
SteadySupply == \A v, w \in Window : v.totalSupply = w.totalSupply

\* What is at a place of a list of adapters.
AdapterAt(list, i) == IF i \in DOMAIN list THEN list[i] ELSE None

\* Nothing lasting is overlooked: when the vault is in danger in every block a
\* run can have read, the module reports it or fails, whichever nodes answered
\* and in whichever order (for the price: if the supply did not change).
LastingDangerReported ==
  report # None =>
    /\ Done("share_price_loss") /\ SteadySupply =>
         ((\A v \in Window : HasLost(v, UrgentBPS)) => Reports("share_price", 0, "URGENT"))
    /\ Done("withdraw_liquidity") =>
         /\ (\A v \in Window : v.idle < IdleUrgent) => Reports("idle", 0, "URGENT")
         /\ (\A v \in Window : ~v.redeemable) => Reports("exit", 0, "URGENT")
    /\ Done("vault_state") =>
         /\ \A f \in Fields :
              (\A v \in Window : v.fields[f] # Baseline.fields[f])
                => Reports("field", f, ChangeSeverity)
         /\ \A i \in 1..Max({Len(v.adapters) : v \in Window} \cup {Len(Baseline.adapters)}) :
              (\A v \in Window : AdapterAt(v.adapters, i) # AdapterAt(Baseline.adapters, i))
                => Reports("adapters", 0, ChangeSeverity)

\* No alarm comes out of thin air: behind every finding there is a block the
\* run can have read in which it is true, or, for the exit simulation, an
\* outage or a balance that went down (for the price: if the supply did not
\* change).
AlarmsHaveCause ==
  report # None =>
    /\ Done("share_price_loss") /\ SteadySupply =>
         /\ Reports("share_price", 0, "URGENT") => \E v \in Window : HasLost(v, UrgentBPS)
         /\ Reports("share_price", 0, "WARN") => \E v \in Window : HasLost(v, WarnBPS)
    /\ Done("withdraw_liquidity") =>
         /\ Reports("idle", 0, "URGENT") => \E v \in Window : v.idle < IdleUrgent
         /\ Reports("idle", 0, "WARN") => \E v \in Window : v.idle < IdleWarn
         /\ Reports("exit", 0, "URGENT") =>
              \/ outages > since.outages
              \/ \E v \in Window : ~v.redeemable \/ v.shares < got[2]
    /\ Done("vault_state") =>
         /\ \A f \in Fields : Reports("field", f, ChangeSeverity)
              => \E v \in Window : v.fields[f] # Baseline.fields[f]
         /\ Reports("adapters", 0, ChangeSeverity)
              => \E v \in Window : v.adapters # Baseline.adapters

Tip == blocks[Len(blocks)]

\* A danger that stays is reported again and again, however far the nodes were
\* behind: the urgent condition UrgentKeepsExiting of MonitorService builds on.
DangerKeepsBeingReported ==
  /\ <>[]HasLost(Tip, UrgentBPS)
       => []<>(Done("share_price_loss") /\ Reports("share_price", 0, "URGENT"))
  /\ <>[](Tip.shares > 0 /\ ~Tip.redeemable)
       => []<>(Done("withdraw_liquidity") /\ Reports("exit", 0, "URGENT"))
  /\ <>[](Tip.adapters # Baseline.adapters)
       => []<>(Done("vault_state") /\ Reports("adapters", 0, ChangeSeverity))

\* "Emit URGENT if either loss crosses urgent bps": an urgent loss of the share
\* price is one that some block the run can have read really shows.
PriceAlarmIsReal ==
  Done("share_price_loss") /\ Reports("share_price", 0, "URGENT")
    => \E v \in Window : HasLost(v, UrgentBPS)

-----------------------------------------------------------------------------
(* What makes AlarmsHaveCause and LastingDangerReported inductive (proved  *)
(* in VaultMonitorProofs).                                                 *)

\* No node answers from before the window.
ViewsInWindow == \A n \in Clients : view[n] >= since.height

Seen(method, arg, answer) == \E v \in Window : Answer(v, method, arg) = answer

\* What the simulation of the exit has told: nothing but an outage or a state of
\* the vault makes it fail.
ExitSeen ==
  IF got[3] THEN \E v \in Window : v.redeemable
  ELSE outages > since.outages \/ \E v \in Window : ~v.redeemable \/ v.shares < got[2]

\* Everything read is an answer of some block in the window.
AnswersSeen ==
  /\ module = 1 =>
       /\ Len(got) >= 1 => Seen("totalAssets", 0, got[1])
       /\ Len(got) >= 2 => Seen("totalSupply", 0, got[2])
  /\ module = 2 =>
       /\ Len(got) >= 1 => Seen("idle", 0, got[1])
       /\ Len(got) >= 2 => Seen("balanceOf", 0, got[2])
       /\ Len(got) >= 3 => got[3] \in BOOLEAN /\ ExitSeen
  /\ module = 3 =>
       \A i \in 1..Len(got) :
         IF i <= Len(Baseline.fields) THEN Seen("field", i, got[i])
         ELSE IF i = Len(Baseline.fields) + 1 THEN Seen("adaptersLength", 0, got[i])
         ELSE Seen("adapters", i - Len(Baseline.fields) - 1, got[i])

\* How much a module has read before its next call.
CallsInOrder ==
  /\ IsList(got)
  /\ pc = "totalAssets" => module = 1 /\ Len(got) = 0
  /\ pc = "totalSupply" => module = 1 /\ Len(got) = 1
  /\ pc = "idle" => module = 2 /\ Len(got) = 0
  /\ pc = "balanceOf" => module = 2 /\ Len(got) = 1
  /\ pc = "redeem" => module = 2 /\ Len(got) = 2
  /\ pc = "field" => module = 3 /\ Len(got) < Len(Baseline.fields)
  /\ pc = "adaptersLength" => module = 3 /\ Len(got) = Len(Baseline.fields)
  /\ pc = "adapters" => module = 3 /\ Len(got) > Len(Baseline.fields)
  /\ pc = "evaluate" => (module = 1 /\ Len(got) = 2) \/ (module = 2 /\ Len(got) = 3)

\* A report is what the module computes from what it has read.
ReportComputed ==
  report # None =>
    /\ pc = "done"
    /\ \/ /\ module = 1 /\ Len(got) = 2
          /\ got[2] # 0 /\ CurrentSharePrice(got[1], got[2]) # 0
          /\ report = Known(PriceFindings(CurrentSharePrice(got[1], got[2])))
       \/ /\ module = 2 /\ Len(got) = 3
          /\ report = Known(LiquidityFindings(got[1], got[3]))
       \/ /\ module = 3 /\ Len(got) > Len(Baseline.fields) /\ Len(AdaptersRead) = LengthRead
          /\ report = Known(DiffVaultState(FieldsRead, AdaptersRead))

IInv ==
  /\ TypeOK
  /\ ViewsInWindow
  /\ AnswersSeen
  /\ CallsInOrder
  /\ ReportComputed
=============================================================================
