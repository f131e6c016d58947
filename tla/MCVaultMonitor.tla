--------------------------- MODULE MCVaultMonitor ---------------------------
(* Vault states and baseline for VaultMonitor.                             *)
EXTENDS VaultMonitor

Vault(assets, supply, idle, shares, redeemable, fields, adapters) ==
  [totalAssets |-> assets, totalSupply |-> supply, idle |-> idle, shares |-> shares,
   redeemable |-> redeemable, fields |-> fields, adapters |-> adapters]

BaselineState == [fields |-> <<"a", "b">>, adapters |-> <<"x", "y">>]

\* A healthy vault; one with twice the deposits; one that has lost just under,
\* and just at, the urgent threshold; one without liquidity, after the owner has
\* redeemed half; and one that was taken over.
States == {
  Vault(30000, 100, 30, 2, TRUE, <<"a", "b">>, <<"x", "y">>),
  Vault(60000, 200, 30, 2, TRUE, <<"a", "b">>, <<"x", "z">>),
  Vault(28501, 100, 20, 2, TRUE, <<"a", "c">>, <<"z", "y">>),
  Vault(28500, 100, 10, 1, FALSE, <<"a", "b">>, <<"y">>),
  Vault(0, 100, 9, 0, FALSE, <<"d", "c">>, <<>>)}

\* A vault that never loses anything and takes a deposit.
Deposits == {
  Vault(30000, 100, 30, 2, TRUE, <<"a", "b">>, <<"x", "y">>),
  Vault(60000, 200, 30, 2, TRUE, <<"a", "b">>, <<"x", "y">>)}
=============================================================================
