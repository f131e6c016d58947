----------------------------- MODULE GasPolicy -----------------------------
(***************************************************************************)
(* The fee arithmetic of the withdraw service (internal/withdraw/gas.go    *)
(* and initialFeeCaps in internal/withdraw/service.go).  Everything here   *)
(* is a pure operator: WithdrawService applies them, FeeEscalation iterates *)
(* them, GasPolicyProofs proves what both rely on.                         *)
(*                                                                         *)
(* Fees are natural numbers (big.Int in the code, so nothing overflows).   *)
(* A nil cap ("no cap") does not occur in the daemon: runtime.go always    *)
(* parses both caps from the configuration.  A cap of zero does: the       *)
(* configuration check accepts it.                                         *)
(***************************************************************************)
EXTENDS Integers

CONSTANTS
  BumpBPS,     \* gas.fee_bump_bps, in basis points
  MaxFeeCap,   \* gas.max_fee_per_gas_gwei
  MaxTipCap    \* gas.max_priority_fee_per_gas_gwei

\* What Config.Validate guarantees of the three settings, and no more.
ASSUME GasConfigAssumption ==
  /\ BumpBPS \in 0..10000
  /\ MaxFeeCap \in Nat
  /\ MaxTipCap \in Nat

FeeCaps == [MaxFeePerGas : Nat, MaxPriorityFeePerGas : Nat]

NoFeeCaps == [MaxFeePerGas |-> 0, MaxPriorityFeePerGas |-> 0]

BumpTooSmall(value) == (value * BumpBPS) \div 10000

\* value * (10000 + bps) / 10000, rounded down.
bumpBPS(value) == (value * (10000 + BumpBPS)) \div 10000

capBig(value, cap) == IF value > cap THEN cap ELSE value

validateCaps == MaxFeeCap > 0 /\ MaxTipCap > 0

\* FeeCaps.Validate: both fees are positive and the tip fits in the fee.
Validate(fees) ==
  /\ fees.MaxFeePerGas > 0
  /\ fees.MaxPriorityFeePerGas > 0
  /\ fees.MaxFeePerGas >= fees.MaxPriorityFeePerGas

BumpForgetsTipCap(fees) ==
  [MaxFeePerGas |-> capBig(bumpBPS(fees.MaxFeePerGas), MaxFeeCap),
   MaxPriorityFeePerGas |-> bumpBPS(fees.MaxPriorityFeePerGas)]

BumpsOnlyFee(fees) ==
  [MaxFeePerGas |-> capBig(bumpBPS(fees.MaxFeePerGas), MaxFeeCap),
   MaxPriorityFeePerGas |-> fees.MaxPriorityFeePerGas]

\* The result BumpChecked builds, before it validates it.
Bumped(fees) ==
  [MaxFeePerGas |-> capBig(bumpBPS(fees.MaxFeePerGas), MaxFeeCap),
   MaxPriorityFeePerGas |-> capBig(bumpBPS(fees.MaxPriorityFeePerGas), MaxTipCap)]

BumpUnchecked(fees) == validateCaps /\ Validate(fees)

\* BumpChecked returns Bumped(fees) exactly when this holds, else an error.
BumpChecked(fees) ==
  validateCaps /\ Validate(fees) /\ Validate(Bumped(fees))

\* The fees of a first submission, from the node's two suggestions.
initialFeeCaps(gasPrice, tipCap) ==
  LET priorityFee == capBig(tipCap, MaxTipCap)
  IN  [MaxFeePerGas |-> capBig(gasPrice + priorityFee, MaxFeeCap),
       MaxPriorityFeePerGas |-> priorityFee]

\* initialFeeCaps returns those fees exactly when this holds, else an error.
InitialFeeCapsOK(gasPrice, tipCap) ==
  /\ validateCaps
  /\ gasPrice > 0
  /\ tipCap > 0
  /\ Validate(initialFeeCaps(gasPrice, tipCap))

\* Fees the service may put on the wire: valid and within both caps.
WithinCaps(fees) ==
  /\ Validate(fees)
  /\ fees.MaxFeePerGas <= MaxFeeCap
  /\ fees.MaxPriorityFeePerGas <= MaxTipCap

\* The pool replaces a transaction only for one that offers at least 10%
\* more on both fees.
Outbids(fees, old) ==
  /\ 10 * fees.MaxFeePerGas >= 11 * old.MaxFeePerGas
  /\ 10 * fees.MaxPriorityFeePerGas >= 11 * old.MaxPriorityFeePerGas

\* value is large enough for the rounded-down bump to clear the pool's 10%.
Clears(value) == value * (BumpBPS - 1000) >= 10000
=============================================================================
