------------------------- MODULE MCWithdrawService --------------------------
(***************************************************************************)
(* Instances of WithdrawService for TLC.  Fees are small multiples of the  *)
(* real ones (tip 100, gas price 1000): large enough for the code's        *)
(* rounded 12.5% bump to clear the pool's 10%.                             *)
(***************************************************************************)
EXTENDS WithdrawService

Symmetry == {[c \in Callers |-> IF c = a THEN b ELSE IF c = b THEN a ELSE c]
               : a, b \in Callers}

=============================================================================
