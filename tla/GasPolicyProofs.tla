--------------------------- MODULE GasPolicyProofs ---------------------------
(***************************************************************************)
(* Lemmas about the fee arithmetic, for every setting Config.Validate      *)
(* accepts and every answer of the node.                                   *)
(***************************************************************************)
EXTENDS GasPolicy, TLAPS

\* What integer division by 10000 means.
LEMMA DivBounds ==
  ASSUME NEW x \in Nat
  PROVE  /\ x \div 10000 \in Nat
         /\ 10000 * (x \div 10000) <= x
         /\ x < 10000 * (x \div 10000) + 10000
  BY SMT

\* bumpBPS rounds down, by less than one: the reference it implements.
LEMMA BumpBounds ==
  ASSUME NEW v \in Nat
  PROVE  /\ bumpBPS(v) \in Nat
         /\ 10000 * bumpBPS(v) <= v * (10000 + BumpBPS)
         /\ v * (10000 + BumpBPS) < 10000 * bumpBPS(v) + 10000
<1> DEFINE x == v * (10000 + BumpBPS)
<1>1. x \in Nat
  BY GasConfigAssumption, SMT
<1>2. bumpBPS(v) = x \div 10000
  BY DEF bumpBPS
<1> HIDE DEF x
<1>3. /\ x \div 10000 \in Nat
      /\ 10000 * (x \div 10000) <= x
      /\ x < 10000 * (x \div 10000) + 10000
  BY <1>1, DivBounds
<1>4. QED
  BY <1>2, <1>3 DEF x

\* The bump never lowers a fee and never drops a positive one to zero.
LEMMA BumpGrows ==
  ASSUME NEW v \in Nat
  PROVE  bumpBPS(v) >= v
<1>1. v * (10000 + BumpBPS) = 10000 * v + v * BumpBPS /\ v * BumpBPS \in Nat
  BY GasConfigAssumption, SMT
<1>2. 10000 * v < 10000 * bumpBPS(v) + 10000
  BY <1>1, BumpBounds, SMT
<1>3. QED
  BY <1>2, BumpBounds, SMT

\* A larger fee is bumped to no less than a smaller one.
LEMMA BumpOrder ==
  ASSUME NEW v \in Nat, NEW w \in Nat, v <= w
  PROVE  bumpBPS(v) <= bumpBPS(w)
<1>1. PICK d \in Nat : w = v + d
  <2>1. w - v \in Nat /\ w = v + (w - v)
    BY SMT
  <2>2. QED
    BY <2>1
<1>2. w * (10000 + BumpBPS) = v * (10000 + BumpBPS) + d * (10000 + BumpBPS)
  BY <1>1, GasConfigAssumption, SMT
<1>3. d * (10000 + BumpBPS) \in Nat /\ v * (10000 + BumpBPS) \in Nat
  BY <1>1, GasConfigAssumption, SMT
<1>4. v * (10000 + BumpBPS) <= w * (10000 + BumpBPS)
  BY <1>2, <1>3, SMT
<1>5. 10000 * bumpBPS(v) < 10000 * bumpBPS(w) + 10000
  <2> DEFINE x == v * (10000 + BumpBPS)
             y == w * (10000 + BumpBPS)
  <2>1. x \in Nat /\ y \in Nat /\ x <= y
    BY <1>2, <1>3, <1>4, SMT
  <2>2. /\ bumpBPS(v) \in Nat /\ 10000 * bumpBPS(v) <= x
        /\ bumpBPS(w) \in Nat /\ y < 10000 * bumpBPS(w) + 10000
    BY BumpBounds
  <2> HIDE DEF x, y
  <2>3. QED
    BY <2>1, <2>2, SMT
<1>6. QED
  BY <1>5, BumpBounds, SMT

\* A fee that is large enough is bumped by at least the pool's 10%.
LEMMA BumpClears ==
  ASSUME NEW v \in Nat, Clears(v)
  PROVE  10 * bumpBPS(v) >= 11 * v
<1>1. v * (10000 + BumpBPS) = 11000 * v + v * (BumpBPS - 1000)
  BY GasConfigAssumption, SMT
<1>2. v * (BumpBPS - 1000) \in Int /\ v * (BumpBPS - 1000) >= 10000
  BY GasConfigAssumption, SMT DEF Clears
<1>3. 11000 * v < 10000 * bumpBPS(v)
  BY <1>1, <1>2, BumpBounds, SMT
<1>4. QED
  BY <1>3, BumpBounds, SMT

\* The operators that build fees build pairs of natural numbers.
LEMMA BumpedType ==
  ASSUME NEW f \in FeeCaps
  PROVE  Bumped(f) \in FeeCaps
<1>1. /\ bumpBPS(f.MaxFeePerGas) \in Nat
      /\ bumpBPS(f.MaxPriorityFeePerGas) \in Nat
  BY BumpBounds DEF FeeCaps
<1>2. QED
  BY <1>1, GasConfigAssumption DEF Bumped, capBig, FeeCaps

\* initialFeeCaps yields fees.
LEMMA InitialType ==
  ASSUME NEW gasPrice \in Nat, NEW tipCap \in Nat
  PROVE  initialFeeCaps(gasPrice, tipCap) \in FeeCaps
  BY GasConfigAssumption DEF initialFeeCaps, capBig, FeeCaps

\* Fees within the caps are bumped to fees within the caps, none lowered;
\* only the order of fee and tip is left for Validate to find wrong.
LEMMA BumpedFees ==
  ASSUME NEW f \in FeeCaps, WithinCaps(f)
  PROVE  /\ Bumped(f) \in FeeCaps
         /\ Bumped(f).MaxFeePerGas >= f.MaxFeePerGas
         /\ Bumped(f).MaxPriorityFeePerGas >= f.MaxPriorityFeePerGas
         /\ Bumped(f).MaxFeePerGas <= MaxFeeCap
         /\ Bumped(f).MaxPriorityFeePerGas <= MaxTipCap
         /\ BumpChecked(f) => WithinCaps(Bumped(f))
<1>1. /\ f.MaxFeePerGas \in Nat
      /\ f.MaxPriorityFeePerGas \in Nat
  BY DEF FeeCaps
<1>2. /\ bumpBPS(f.MaxFeePerGas) \in Nat
      /\ bumpBPS(f.MaxPriorityFeePerGas) \in Nat
      /\ bumpBPS(f.MaxFeePerGas) >= f.MaxFeePerGas
      /\ bumpBPS(f.MaxPriorityFeePerGas) >= f.MaxPriorityFeePerGas
  BY <1>1, BumpBounds, BumpGrows
<1>3. QED
  BY <1>1, <1>2, GasConfigAssumption, SMT
     DEF Bumped, capBig, BumpChecked, WithinCaps, Validate, FeeCaps

\* The fees of a first submission are within the caps.
LEMMA InitialFees ==
  ASSUME NEW gasPrice \in Nat, NEW tipCap \in Nat, InitialFeeCapsOK(gasPrice, tipCap)
  PROVE  /\ initialFeeCaps(gasPrice, tipCap) \in FeeCaps
         /\ WithinCaps(initialFeeCaps(gasPrice, tipCap))
  BY GasConfigAssumption, SMT
     DEF InitialFeeCapsOK, initialFeeCaps, capBig, WithinCaps, Validate, FeeCaps
=============================================================================
