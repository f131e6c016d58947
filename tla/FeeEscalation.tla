--------------------------- MODULE FeeEscalation ----------------------------
(***************************************************************************)
(* The life of one withdrawal's fees: initialFeeCaps once, then BumpChecked *)
(* on every replacement, for as long as it succeeds.  It asks of the fee   *)
(* arithmetic alone what WithdrawService relies on.                        *)
(***************************************************************************)
EXTENDS GasPolicy

CONSTANTS GasPrices, TipCaps    \* answers of the node

ASSUME SuggestionAssumption == GasPrices \subseteq Nat /\ TipCaps \subseteq Nat

VARIABLE fees

Init ==
  \E gasPrice \in GasPrices, tipCap \in TipCaps :
    /\ InitialFeeCapsOK(gasPrice, tipCap)
    /\ fees = initialFeeCaps(gasPrice, tipCap)

Next == BumpChecked(fees) /\ fees' = Bumped(fees)

Spec == Init /\ [][Next]_fees

-----------------------------------------------------------------------------

\* Fees stay valid and within both caps through any number of bumps: the
\* caps are applied after each bump, and Validate still sees the result.
EscalationWithinCaps == fees \in FeeCaps /\ WithinCaps(fees)

\* A bump never lowers a fee, in spite of the division and the caps.
EscalationMonotone ==
  [][/\ fees'.MaxFeePerGas >= fees.MaxFeePerGas
     /\ fees'.MaxPriorityFeePerGas >= fees.MaxPriorityFeePerGas]_fees

\* The pool takes every replacement as long as neither fee has met its cap
\* and both are large enough for rounding not to matter: below the caps the
\* bump of the code is enough for the node.
OutbidsBelowCaps ==
  LET fee == fees.MaxFeePerGas
      tip == fees.MaxPriorityFeePerGas
  IN  (Clears(fee) /\ Clears(tip) /\ bumpBPS(fee) <= MaxFeeCap /\ bumpBPS(tip) <= MaxTipCap)
        => Outbids(Bumped(fees), fees)

\* If the caps are in order (tip cap not above fee cap) BumpChecked never
\* fails on fees the service has sent: replacing cannot get stuck on
\* "max fee per gas must be greater than or equal to max priority fee".
NeverStuckOnValidate == MaxTipCap <= MaxFeeCap => BumpChecked(fees)
=============================================================================
