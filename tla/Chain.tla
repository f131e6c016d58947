------------------------------- MODULE Chain --------------------------------
(***************************************************************************)
(* What the bot sees of Ethereum: the nonce of the owner's account, the    *)
(* transaction pool, the vault shares of the owner, whether the vault can  *)
(* pay a full exit out, and the fee a block currently asks for.  None of   *)
(* this is code of the repository; it is modelled from how internal/       *)
(* ethereum and internal/withdraw use it and from the public rules of the  *)
(* node they talk to (account nonces, the price bump for replacements).    *)
(*                                                                         *)
(* Whatever does not belong to an undisturbed exit, on the chain or in the *)
(* service, is a disturbance of some kind.  A run says which kinds may     *)
(* happen (Allowed) and how many in all (MaxDisturbances); happened keeps  *)
(* the kinds seen so far, so that a property can say which of them it does *)
(* not survive.                                                            *)
(***************************************************************************)
EXTENDS GasPolicy

CONSTANTS
  MaxShares,        \* bound on the owner's share balance
  Prices,           \* fee levels a block may ask for
  Allowed,          \* kinds of disturbance that may happen
  MaxDisturbances   \* bound on their number

Kinds == {"rpc", "lost_ack", "lag", "repo", "crash",   \* met by the service
          "evict", "owner", "deposit", "liquidity", "price"}    \* by the chain

ASSUME ChainAssumption ==
  /\ MaxShares \in Nat
  /\ Prices \subseteq Nat
  /\ Allowed \subseteq Kinds
  /\ MaxDisturbances \in Nat

VARIABLES
  chainNonce,    \* next nonce of the owner's account
  pool,          \* pending transactions of the owner, as a set
  shares,        \* balanceOf(owner) in the latest block
  oldShares,     \* balanceOf(owner) in the block a lagging node is at
  redeemable,    \* the vault has the liquidity for a full exit
  price,         \* fee per gas needed to enter the next block
  happened,      \* kinds of disturbance that have happened
  left           \* disturbances that may still happen

disturbances == <<happened, left>>
chainVars == <<chainNonce, pool, shares, oldShares, redeemable, price, disturbances>>

\* A full-exit transaction: its nonce, its fees, the shares it redeems.
Tx == [nonce : Nat, fees : FeeCaps, shares : Nat]

Disturb(kind) ==
  /\ kind \in Allowed
  /\ left > 0
  /\ left' = left - 1
  /\ happened' = happened \cup {kind}

At(n) == {t \in pool : t.nonce = n}

\* eth_sendRawTransaction: "nonce too low" and "replacement transaction
\* underpriced" are the two refusals.
Accepts(tx) ==
  /\ tx.nonce >= chainNonce
  /\ \A t \in At(tx.nonce) : Outbids(tx.fees, t.fees)

Broadcast(tx) == pool' = (pool \ At(tx.nonce)) \cup {tx}

\* eth_getTransactionCount(pending): the first nonce that is free.
PendingNonceAt ==
  {n \in {chainNonce} \cup {t.nonce + 1 : t \in pool} :
     /\ n >= chainNonce
     /\ At(n) = {}
     /\ \A m \in chainNonce..(n - 1) : At(m) # {}}

\* What a node that is a block behind and does not share the pool answers.
LaggingNonceAt == {chainNonce, chainNonce - 1} \cap Nat

ChainInit ==
  /\ chainNonce = 0
  /\ pool = {}
  /\ shares \in 0..MaxShares
  /\ oldShares = shares
  /\ redeemable \in BOOLEAN
  /\ price \in Prices
  /\ happened = {}
  /\ left = MaxDisturbances

\* A block includes t.  The redeem succeeds if the vault can pay and the
\* owner still has the shares; otherwise it reverts and only uses the nonce.
Mine(t) ==
  /\ t.nonce = chainNonce
  /\ t.fees.MaxFeePerGas >= price
  /\ pool' = pool \ {t}
  /\ chainNonce' = chainNonce + 1
  /\ shares' = IF redeemable /\ t.shares <= shares THEN shares - t.shares
                                                   ELSE shares
  /\ oldShares' = shares
  /\ UNCHANGED <<redeemable, price, disturbances>>

\* The owner's wallet gets a transaction of its own mined: it takes the next
\* nonce, out of the pool if need be, and may leave any balance (a manual
\* exit, a further deposit, or something unrelated to the vault).
OwnerTx ==
  /\ Disturb("owner")
  /\ chainNonce' = chainNonce + 1
  /\ pool' = pool \ At(chainNonce)
  /\ shares' \in 0..MaxShares
  /\ oldShares' = shares
  /\ UNCHANGED <<redeemable, price>>

\* Somebody else deposits for the owner: no nonce of the owner is used.
Deposit ==
  /\ Disturb("deposit")
  /\ shares < MaxShares
  /\ shares' = shares + 1
  /\ oldShares' = shares
  /\ UNCHANGED <<chainNonce, pool, redeemable, price>>

Liquidity ==
  /\ Disturb("liquidity")
  /\ redeemable' = ~redeemable
  /\ UNCHANGED <<chainNonce, pool, shares, oldShares, price>>

Price ==
  /\ Disturb("price")
  /\ price' \in Prices \ {price}
  /\ UNCHANGED <<chainNonce, pool, shares, oldShares, redeemable>>

\* The node drops a transaction (pool full, lifetime over).
Evict ==
  /\ Disturb("evict")
  /\ \E t \in pool : pool' = pool \ {t}
  /\ UNCHANGED <<chainNonce, shares, oldShares, redeemable, price>>

ChainNext ==
  \/ \E t \in pool : Mine(t)
  \/ OwnerTx
  \/ Deposit
  \/ Liquidity
  \/ Price
  \/ Evict
=============================================================================
