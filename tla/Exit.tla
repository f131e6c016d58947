-------------------------------- MODULE Exit --------------------------------
(***************************************************************************)
(* What ExecuteFullExit promises to the owner of the position, without its *)
(* calls, its lock, its clock or its database: at any time at most one     *)
(* withdrawal is live; it is at the account's next nonce, so that nothing  *)
(* can keep it from being mined but its price; it redeems shares the owner *)
(* really has; a live withdrawal is only ever replaced by one that pays    *)
(* more; and the position shrinks only by a withdrawal that is mined.      *)
(*                                                                         *)
(* The promise is made while the service can be trusted to know its own    *)
(* transactions.  Once it cannot (a restart, an answer lost or out of      *)
(* date, somebody else on the account) nothing is promised any more.       *)
(***************************************************************************)
EXTENDS GasPolicy

CONSTANT None   \* no withdrawal is live

VARIABLES
  trusted,     \* nothing has happened that the promise excludes
  nonce,       \* next nonce of the owner's account
  position,    \* shares of the owner
  live         \* the withdrawal that waits to be mined, or None

exitVars == <<trusted, nonce, position, live>>

Init ==
  /\ trusted = TRUE
  /\ position \in Nat
  /\ nonce = 0
  /\ live = None

\* What may wait to be mined.
Sound(tx) ==
  /\ tx.nonce = nonce
  /\ tx.shares \in 1..position
  /\ WithinCaps(tx.fees)

Submit ==
  /\ live = None /\ live' # None
  /\ Sound(live')
  /\ UNCHANGED <<nonce, position>>

Replace ==
  /\ live # None /\ live' # None
  /\ Sound(live')
  /\ Outbids(live'.fees, live.fees)
  /\ UNCHANGED <<nonce, position>>

\* Mined: it redeems its shares, or reverts.
Settle ==
  /\ live # None
  /\ live' = None
  /\ nonce' = nonce + 1
  /\ position' \in {position, position - live.shares}

\* Dropped by the nodes.
Drop ==
  /\ live # None
  /\ live' = None
  /\ UNCHANGED <<nonce, position>>

Receive ==
  /\ position' > position
  /\ UNCHANGED <<nonce, live>>

Next ==
  \/ /\ UNCHANGED trusted
     /\ trusted => Submit \/ Replace \/ Settle \/ Drop \/ Receive
  \/ trusted' = FALSE

Spec == Init /\ [][Next]_exitVars
=============================================================================
