------------------------- MODULE FeeEscalationProofs -------------------------
(***************************************************************************)
(* The properties of FeeEscalation, from the lemmas on the fee arithmetic. *)
(***************************************************************************)
EXTENDS FeeEscalation, GasPolicyProofs

\* Any number of bumps leaves the fees valid and within both caps.
THEOREM EscalationSafe == Spec => []EscalationWithinCaps
<1>1. Init => EscalationWithinCaps
  BY InitialFees, SuggestionAssumption, SMT DEF Init, EscalationWithinCaps
<1>2. EscalationWithinCaps /\ [Next]_fees => EscalationWithinCaps'
  <2>1. ASSUME EscalationWithinCaps, Next PROVE EscalationWithinCaps'
    BY <2>1, BumpedFees DEF EscalationWithinCaps, Next
  <2>2. ASSUME EscalationWithinCaps, UNCHANGED fees PROVE EscalationWithinCaps'
    BY <2>2 DEF EscalationWithinCaps, WithinCaps, Validate
  <2>3. QED
    BY <2>1, <2>2
<1>3. QED
  BY <1>1, <1>2, PTL DEF Spec

\* No replacement lowers a fee.
THEOREM EscalationNeverLowers == Spec => EscalationMonotone
<1>1. EscalationWithinCaps /\ [Next]_fees
        => [/\ fees'.MaxFeePerGas >= fees.MaxFeePerGas
            /\ fees'.MaxPriorityFeePerGas >= fees.MaxPriorityFeePerGas]_fees
  BY BumpedFees DEF EscalationWithinCaps, Next
<1>2. QED
  BY <1>1, EscalationSafe, PTL DEF Spec, EscalationMonotone

\* Below the caps the pool never calls a replacement underpriced.
THEOREM EscalationOutbids == Spec => []OutbidsBelowCaps
<1>1. EscalationWithinCaps => OutbidsBelowCaps
  <2> SUFFICES ASSUME EscalationWithinCaps,
                      Clears(fees.MaxFeePerGas),
                      Clears(fees.MaxPriorityFeePerGas),
                      bumpBPS(fees.MaxFeePerGas) <= MaxFeeCap,
                      bumpBPS(fees.MaxPriorityFeePerGas) <= MaxTipCap
               PROVE  Outbids(Bumped(fees), fees)
    BY DEF OutbidsBelowCaps
  <2>1. /\ fees.MaxFeePerGas \in Nat
        /\ fees.MaxPriorityFeePerGas \in Nat
    BY DEF EscalationWithinCaps, FeeCaps
  <2>2. /\ 10 * bumpBPS(fees.MaxFeePerGas) >= 11 * fees.MaxFeePerGas
        /\ 10 * bumpBPS(fees.MaxPriorityFeePerGas) >= 11 * fees.MaxPriorityFeePerGas
    BY <2>1, BumpClears
  <2>3. /\ bumpBPS(fees.MaxFeePerGas) \in Nat
        /\ bumpBPS(fees.MaxPriorityFeePerGas) \in Nat
    BY <2>1, BumpBounds
  <2>4. /\ Bumped(fees).MaxFeePerGas = bumpBPS(fees.MaxFeePerGas)
        /\ Bumped(fees).MaxPriorityFeePerGas = bumpBPS(fees.MaxPriorityFeePerGas)
    BY <2>3, GasConfigAssumption DEF Bumped, capBig
  <2>5. QED
    BY <2>2, <2>4 DEF Outbids
<1>2. QED
  BY <1>1, EscalationSafe, PTL

\* With the caps in order, replacing never fails inside the process.
THEOREM EscalationNeverStuck == Spec => []NeverStuckOnValidate
<1>1. EscalationWithinCaps => NeverStuckOnValidate
  <2> SUFFICES ASSUME EscalationWithinCaps, MaxTipCap <= MaxFeeCap
               PROVE  BumpChecked(fees)
    BY DEF NeverStuckOnValidate
  <2>1. /\ fees.MaxFeePerGas \in Nat
        /\ fees.MaxPriorityFeePerGas \in Nat
        /\ fees.MaxPriorityFeePerGas <= fees.MaxFeePerGas
    BY DEF EscalationWithinCaps, FeeCaps, WithinCaps, Validate
  <2>2. bumpBPS(fees.MaxPriorityFeePerGas) <= bumpBPS(fees.MaxFeePerGas)
    BY <2>1, BumpOrder
  <2>3. /\ bumpBPS(fees.MaxFeePerGas) \in Nat
        /\ bumpBPS(fees.MaxPriorityFeePerGas) \in Nat
        /\ bumpBPS(fees.MaxFeePerGas) >= fees.MaxFeePerGas
        /\ bumpBPS(fees.MaxPriorityFeePerGas) >= fees.MaxPriorityFeePerGas
    BY <2>1, BumpBounds, BumpGrows
  <2>4. QED
    BY <2>1, <2>2, <2>3, GasConfigAssumption, SMT
       DEF EscalationWithinCaps, WithinCaps, Validate, BumpChecked, validateCaps,
           Bumped, capBig
<1>2. QED
  BY <1>1, EscalationSafe, PTL
=============================================================================
