-------------------------- MODULE WithdrawService ---------------------------
(***************************************************************************)
(* withdraw.Service (internal/withdraw/service.go) on top of Chain.        *)
(*                                                                         *)
(* ExecuteFullExit is cut at every call that leaves the process (an RPC or *)
(* a database insert): between two such calls the chain may move, time may *)
(* pass and the process may die.  pc[c] names the call that caller c makes *)
(* next:                                                                   *)
(*                                                                         *)
(*  idle -> position -> preview -> simulate -> nonce -> fees -> tip        *)
(*              |          |         |    |                      |         *)
(*              v          v         v    +- replacement -> send <         *)
(*            noop         simfailed                          |            *)
(*                                                         record          *)
(*                                                                         *)
(* The mutex is held from Begin to Return, so Begin's guard is the lock.   *)
(* Signing and building the call data are local and cannot fail once the   *)
(* request has been validated; a transaction stands for its hash.          *)
(*                                                                         *)
(* Time is kept as ages that stop counting at ReplacementTimeout, which is *)
(* all the code compares them with: pendingAge is the time since           *)
(* pending.SubmittedAt, callAge the time since the running call read the   *)
(* clock.  SubmittedAt is the clock of the START of the call that sent.    *)
(***************************************************************************)
EXTENDS Chain

CONSTANTS
  Callers,              \* goroutines that call ExecuteFullExit
  None,                 \* nil
  ReplacementTimeout,   \* gas.replacement_timeout, in ticks
  GasPrices,            \* answers of eth_gasPrice
  TipCaps               \* answers of eth_maxPriorityFeePerGas

ASSUME ServiceAssumption ==
  /\ None \notin Callers
  /\ None \notin Tx
  /\ ReplacementTimeout \in Nat
  /\ GasPrices \subseteq Nat
  /\ TipCaps \subseteq Nat

VARIABLES
  holder,       \* who holds service.mu, or None
  pc,           \* the next external call of each caller
  call,         \* the locals of each running call
  pending,      \* service.pending: the transaction last sent, or None
  pendingAge,
  callAge,
  attempts      \* the withdrawal_attempts table

serviceVars == <<holder, pc, call, pending, pendingAge, callAge, attempts>>
vars == <<chainVars, serviceVars>>

Steps == {"idle", "position", "noop", "preview", "simulate", "simfailed", "nonce",
          "fees", "tip", "send", "record"}

\* Past the balance check, with nothing sent yet.
Exiting == {"preview", "simulate", "nonce", "fees", "tip", "send"}

\* Locals of ExecuteFullExit: now - pending.SubmittedAt (capped), the share
\* balance of the request, and the nonce and fees of the transaction.
Call == [waited : Nat, shares : Nat, nonce : Nat, fees : FeeCaps]

NoCall == [waited |-> 0, shares |-> 0, nonce |-> 0, fees |-> NoFeeCaps]

\* Rows of withdrawal_attempts: the status, and the transaction if any.
Row == {[status |-> "noop", tx |-> None],
        [status |-> "simulation_failed", tx |-> None]}
       \cup [status : {"submitted"}, tx : Tx]

TxOf(c) == [nonce |-> call[c].nonce, fees |-> call[c].fees, shares |-> call[c].shares]

Goto(c, step) == pc' = [pc EXCEPT ![c] = step]

ReturnLocked(c) ==
  /\ Goto(c, "idle")
  /\ call' = [call EXCEPT ![c] = NoCall]
  /\ UNCHANGED holder

\* ExecuteFullExit returns; the deferred unlock runs.
Return(c) ==
  /\ Goto(c, "idle")
  /\ call' = [call EXCEPT ![c] = NoCall]
  /\ holder' = None

Init ==
  /\ ChainInit
  /\ holder = None
  /\ pc = [c \in Callers |-> "idle"]
  /\ call = [c \in Callers |-> NoCall]
  /\ pending = None
  /\ pendingAge = 0
  /\ callAge = 0
  /\ attempts = {}

-----------------------------------------------------------------------------

\* service.mu.Lock()
Lock(c) == holder = None /\ holder' = c

\* Take the lock, check the configuration (wired once, by runtime.go) and
\* read the clock.
Begin(c) ==
  /\ pc[c] = "idle"
  /\ Lock(c)
  /\ Goto(c, "position")
  /\ call' = [call EXCEPT ![c] = [NoCall EXCEPT !.waited = pendingAge]]
  /\ callAge' = 0
  /\ UNCHANGED <<chainVars, pending, pendingAge, attempts>>

\* Adapter.Position: balanceOf the owner, from the primary node or, if that
\* fails, from a fallback that may be a block behind.
ReadPosition(c) ==
  /\ pc[c] = "position"
  /\ \E balance \in {shares, oldShares} :
       /\ \/ balance = shares /\ UNCHANGED disturbances
          \/ balance # shares /\ Disturb("lag")
       /\ call' = [call EXCEPT ![c].shares = balance]
       /\ Goto(c, IF balance = 0 THEN "noop" ELSE "preview")
  /\ UNCHANGED <<chainNonce, pool, shares, oldShares, redeemable, price, holder,
                 pending, pendingAge, callAge, attempts>>

\* Nothing to exit: record it and only then forget the pending transaction.
\* If the insert fails the call returns its error and pending stays.
RecordNoop(c) ==
  /\ pc[c] = "noop"
  /\ \/ /\ attempts' = attempts \cup {[status |-> "noop", tx |-> None]}
        /\ pending' = None
        /\ pendingAge' = 0
        /\ UNCHANGED disturbances
     \/ /\ Disturb("repo")
        /\ UNCHANGED <<pending, pendingAge, attempts>>
  /\ Return(c)
  /\ UNCHANGED <<chainNonce, pool, shares, oldShares, redeemable, price, callAge>>

-----------------------------------------------------------------------------

NeverTooEarly(c) == FALSE

AlwaysTooEarly(c) == pending # None

\* now.Sub(pending.SubmittedAt) < ReplacementTimeout: leave pending alone.
TooEarly(c) ==
  /\ pending # None
  /\ ReplacementTimeout > 0
  /\ call[c].waited < ReplacementTimeout

\* SimulateFullExit: PreviewRedeem, whose answer is only reported ...
PreviewRedeem(c) ==
  /\ pc[c] = "preview"
  /\ Goto(c, "simulate")
  /\ UNCHANGED <<chainVars, holder, call, pending, pendingAge, callAge, attempts>>

\* ... and EstimateGas of the redeem with the balance read before.
SimulationSucceeds(c) == redeemable /\ call[c].shares <= shares

ReplacementAtNextNonce(c) ==
  [call[c] EXCEPT !.nonce = pending.nonce + 1, !.fees = Bumped(pending.fees)]

\* nonceAndFeeCaps with a transaction pending: its nonce, bumped fees.
Replacement(c) ==
  [call[c] EXCEPT !.nonce = pending.nonce, !.fees = Bumped(pending.fees)]

\* The simulation succeeds, on the latest block or on that of a fallback that
\* is behind and may find the opposite.  A transaction that is pending is left
\* alone until the timeout, and then replaced: same nonce, bumped fees.  With
\* nothing pending a new nonce is read next.
Simulate(c) ==
  /\ pc[c] = "simulate"
  /\ \/ SimulationSucceeds(c) /\ UNCHANGED disturbances
     \/ ~SimulationSucceeds(c) /\ Disturb("lag")
  /\ \/ TooEarly(c) /\ Return(c)
     \/ /\ ~TooEarly(c)
        /\ pending # None
        /\ BumpChecked(pending.fees)
        /\ call' = [call EXCEPT ![c] = Replacement(c)]
        /\ Goto(c, "send")
        /\ UNCHANGED holder
     \/ /\ ~TooEarly(c)
        /\ pending # None
        /\ ~BumpChecked(pending.fees)
        /\ Return(c)
     \/ /\ pending = None
        /\ Goto(c, "nonce")
        /\ UNCHANGED <<call, holder>>
  /\ UNCHANGED <<chainNonce, pool, shares, oldShares, redeemable, price, pending,
                 pendingAge, callAge, attempts>>

\* The simulation fails: the redeem would revert, on the latest block or on
\* that of a fallback that is behind, or a call of the two gets no answer.  All
\* end in status simulation_failed.
SimulateFails(c) ==
  /\ \/ pc[c] = "simulate" /\ ~SimulationSucceeds(c) /\ UNCHANGED disturbances
     \/ pc[c] = "simulate" /\ SimulationSucceeds(c) /\ Disturb("lag")
     \/ pc[c] \in {"preview", "simulate"} /\ Disturb("rpc")
  /\ Goto(c, "simfailed")
  /\ UNCHANGED <<chainNonce, pool, shares, oldShares, redeemable, price, holder,
                 call, pending, pendingAge, callAge, attempts>>

\* Insert the simulation_failed row; the call returns an error either way.
RecordSimulationFailed(c) ==
  /\ pc[c] = "simfailed"
  /\ \/ /\ attempts' = attempts \cup {[status |-> "simulation_failed", tx |-> None]}
        /\ UNCHANGED disturbances
     \/ Disturb("repo") /\ UNCHANGED attempts
  /\ Return(c)
  /\ UNCHANGED <<chainNonce, pool, shares, oldShares, redeemable, price, pending,
                 pendingAge, callAge>>

-----------------------------------------------------------------------------

\* nonceAndFeeCaps with nothing pending: PendingNonceAt ...
ReadNonce(c) ==
  /\ pc[c] = "nonce"
  /\ \E n \in PendingNonceAt \cup LaggingNonceAt :
       /\ \/ n \in PendingNonceAt /\ UNCHANGED disturbances
          \/ n \notin PendingNonceAt /\ Disturb("lag")
       /\ call' = [call EXCEPT ![c].nonce = n]
  /\ Goto(c, "fees")
  /\ UNCHANGED <<chainNonce, pool, shares, oldShares, redeemable, price, holder,
                 pending, pendingAge, callAge, attempts>>

\* ... and initialFeeCaps: SuggestGasPrice, kept where the fee will be, unless
\* a cap or the price is not positive, ...
ReadGasPrice(c) ==
  /\ pc[c] = "fees"
  /\ \E gasPrice \in GasPrices :
       \/ /\ validateCaps /\ gasPrice > 0
          /\ call' = [call EXCEPT ![c].fees = [NoFeeCaps EXCEPT !.MaxFeePerGas = gasPrice]]
          /\ Goto(c, "tip")
          /\ UNCHANGED holder
       \/ /\ ~(validateCaps /\ gasPrice > 0)
          /\ Return(c)
  /\ UNCHANGED <<chainVars, pending, pendingAge, callAge, attempts>>

\* ... and SuggestGasTipCap.
ReadTipCap(c) ==
  /\ pc[c] = "tip"
  /\ \E tipCap \in TipCaps :
       LET gasPrice == call[c].fees.MaxFeePerGas
       IN  \/ /\ InitialFeeCapsOK(gasPrice, tipCap)
              /\ call' = [call EXCEPT ![c].fees = initialFeeCaps(gasPrice, tipCap)]
              /\ Goto(c, "send")
              /\ UNCHANGED holder
           \/ /\ ~InitialFeeCapsOK(gasPrice, tipCap)
              /\ Return(c)
  /\ UNCHANGED <<chainVars, pending, pendingAge, callAge, attempts>>

RemembersNothing(c) == UNCHANGED <<pending, pendingAge>>

RememberEarlier(c) ==
  /\ pending' = TxOf(c)
  /\ pendingAge' = callAge + 1

\* service.pending = &pendingWithdrawal{...}, dated with the start of the call.
Remember(c) ==
  /\ pending' = TxOf(c)
  /\ pendingAge' = callAge

\* SendTransaction.  Accepted, the transaction becomes service.pending;
\* refused, the call returns and pending stays.
Send(c) ==
  /\ pc[c] = "send"
  /\ \/ /\ Accepts(TxOf(c))
        /\ Broadcast(TxOf(c))
        /\ Remember(c)
        /\ Goto(c, "record")
        /\ UNCHANGED <<call, holder>>
     \/ /\ ~Accepts(TxOf(c))
        /\ Return(c)
        /\ UNCHANGED <<pool, pending, pendingAge>>
  /\ UNCHANGED <<chainNonce, shares, oldShares, redeemable, price, disturbances, callAge,
                 attempts>>

\* The node takes the transaction but its reply is lost (a timeout, a dropped
\* connection): to the service this is a failed submission.
SendLosesReply(c) ==
  /\ pc[c] = "send"
  /\ Accepts(TxOf(c))
  /\ Broadcast(TxOf(c))
  /\ Disturb("lost_ack")
  /\ Return(c)
  /\ UNCHANGED <<chainNonce, shares, oldShares, redeemable, price, pending,
                 pendingAge, callAge, attempts>>

RecordsNothing(c) ==
  /\ pc[c] = "record"
  /\ Return(c)
  /\ UNCHANGED <<chainVars, pending, pendingAge, callAge, attempts>>

\* Insert the submitted row; if that fails the error is returned and pending
\* stays.
RecordSubmitted(c) ==
  /\ pc[c] = "record"
  /\ \/ /\ attempts' = attempts \cup {[status |-> "submitted", tx |-> TxOf(c)]}
        /\ UNCHANGED disturbances
     \/ Disturb("repo") /\ UNCHANGED attempts
  /\ Return(c)
  /\ UNCHANGED <<chainNonce, pool, shares, oldShares, redeemable, price, pending,
                 pendingAge, callAge>>

\* An RPC or the signer fails before anything has been sent.
Fail(c) ==
  /\ pc[c] \in {"position", "nonce", "fees", "tip", "send"}
  /\ Disturb("rpc")
  /\ Return(c)
  /\ UNCHANGED <<chainNonce, pool, shares, oldShares, redeemable, price, pending,
                 pendingAge, callAge, attempts>>

-----------------------------------------------------------------------------

\* Time passes, for the pending transaction and for the running call.
Tick ==
  /\ LET older(age) == IF age < ReplacementTimeout THEN age + 1 ELSE age
     IN  /\ pendingAge' = IF pending # None THEN older(pendingAge) ELSE pendingAge
         /\ callAge' = IF holder # None THEN older(callAge) ELSE callAge
  /\ <<pendingAge', callAge'>> # <<pendingAge, callAge>>
  /\ UNCHANGED <<chainVars, holder, pc, call, pending, attempts>>

\* The process dies and is restarted: everything in memory is gone, the
\* database and the chain are not.
Crash ==
  /\ Disturb("crash")
  /\ holder' = None
  /\ pc' = [c \in Callers |-> "idle"]
  /\ call' = [c \in Callers |-> NoCall]
  /\ pending' = None
  /\ pendingAge' = 0
  /\ callAge' = 0
  /\ UNCHANGED <<chainNonce, pool, shares, oldShares, redeemable, price, attempts>>

Step(c) ==
  \/ Begin(c)
  \/ ReadPosition(c)
  \/ RecordNoop(c)
  \/ PreviewRedeem(c)
  \/ Simulate(c)
  \/ SimulateFails(c)
  \/ RecordSimulationFailed(c)
  \/ ReadNonce(c)
  \/ ReadGasPrice(c)
  \/ ReadTipCap(c)
  \/ Send(c)
  \/ RecordSubmitted(c)

ChainStep == ChainNext /\ UNCHANGED serviceVars

Next ==
  \/ \E c \in Callers : Step(c) \/ SendLosesReply(c) \/ Fail(c)
  \/ ChainStep
  \/ Tick
  \/ Crash

Spec == Init /\ [][Next]_vars

\* The scheduling the daemon relies on: the monitor keeps calling while the
\* finding stays urgent and a running call gets on (each RPC answers or fails;
\* the code sets no deadline of its own), time passes, and a block producer
\* takes a transaction that stays includable.  Disturbances have no fairness.
Fairness ==
  /\ \A c \in Callers : WF_vars(Step(c))
  /\ WF_vars(Tick)
  /\ WF_vars((\E t \in pool : Mine(t)) /\ UNCHANGED serviceVars)

FairSpec == Spec /\ Fairness

-----------------------------------------------------------------------------

TypeOK ==
  /\ chainNonce \in Nat
  /\ pool \subseteq Tx
  /\ shares \in 0..MaxShares
  /\ oldShares \in 0..MaxShares
  /\ redeemable \in BOOLEAN
  /\ price \in Prices
  /\ happened \subseteq Kinds
  /\ left \in 0..MaxDisturbances
  /\ holder \in Callers \cup {None}
  /\ pc \in [Callers -> Steps]
  /\ call \in [Callers -> Call]
  /\ pending \in Tx \cup {None}
  /\ pendingAge \in 0..ReplacementTimeout
  /\ callAge \in 0..ReplacementTimeout
  /\ attempts \subseteq Row

\* The process has not restarted, has heard of every transaction the node took
\* from it, has read every answer from an up-to-date node, and is the only user
\* of the owner's account.
Steady == \A k \in {"crash", "lost_ack", "lag", "owner"} : k \notin happened

\* While the service is Steady there is never a live transaction it does not
\* track: everything in the pool has the nonce of service.pending.  It is what
\* "keep one active withdrawal nonce" asks of ExecuteFullExit, across
\* concurrent callers, failed inserts and RPCs, evictions, deposits, reverted
\* exits and fee spikes.
SingleActiveNonce ==
  Steady => \A t \in pool : pending # None /\ pending.nonce = t.nonce

\* Every transaction the service has put on the wire carries valid fees within
\* both configured caps (GasPolicy, initialFeeCaps), however often it was
\* replaced and whatever the node suggested.
FeesWithinCaps == \A t \in pool : WithinCaps(t.fees)

\* No transaction is live without a submitted row in withdrawal_attempts, but
\* for the one whose row is being inserted, unless the insert failed, the
\* process died, or the node's reply was lost.
AuditTrail ==
  (\A k \in {"crash", "lost_ack", "repo"} : k \notin happened) =>
    \A t \in pool :
      \/ [status |-> "submitted", tx |-> t] \in attempts
      \/ \E c \in Callers : pc[c] = "record" /\ t = TxOf(c)

\* Once something is pending, the service changes it only into a replacement
\* that keeps the nonce, does not lower a fee, and comes no earlier than
\* ReplacementTimeout after SubmittedAt; otherwise it forgets it altogether
\* (balance zero, or restart).
ReplacementDiscipline ==
  [][(pending # None /\ pending' # None /\ pending' # pending) =>
       /\ pending'.nonce = pending.nonce
       /\ pending'.fees.MaxFeePerGas >= pending.fees.MaxFeePerGas
       /\ pending'.fees.MaxPriorityFeePerGas >= pending.fees.MaxPriorityFeePerGas
       /\ pendingAge >= ReplacementTimeout]_vars

\* The withdrawal an onlooker sees, for the refinement of Exit.
LiveExit == IF pool = {} THEN None ELSE CHOOSE t \in pool : TRUE

Promised == INSTANCE Exit WITH
  trusted <- Steady, nonce <- chainNonce, position <- shares, live <- LiveExit

\* ExecuteFullExit keeps the promise of Exit, whatever callers, failures,
\* evictions, deposits, fees and reverts come between its calls: a balance, a
\* nonce or a fee read before is never used once it would break the promise.
ImplementsExit == Promised!Spec

\* "Keep one active withdrawal nonce", without the proviso: no two live
\* transactions of the bot have different nonces.
OneLiveNonce == \A t, u \in pool : t.nonce = u.nonce

\* The exit is not being managed: there are shares to redeem, but the nonce the
\* service keeps replacing is not the one the account uses next.  It is used (a
\* reverted exit, a deposit before the exit was mined, a transaction of the
\* owner), or it waits behind a live transaction the service has forgotten.
Stranded == shares > 0 /\ pending # None /\ pending.nonce # chainNonce

\* Repeated urgent ticks go on with the exit, whatever restarts, deposits,
\* transactions of the owner, evictions, failed RPCs and inserts, answers of a
\* lagging node and changes of liquidity come between two calls of the code: if
\* the vault can eventually pay for good, the position is closed again and
\* again, however often shares come back, unless the exit is Stranded for good.
\* A lost reply is left out: the replacement then bumps fees the node already
\* has, and is refused for as long as these are too low for a block.
ExitsUnlessStranded == <>[]redeemable => []<>(shares = 0) \/ <>[]Stranded

\* Repeated urgent ticks "keep managing the active exit attempt until shares
\* are gone", without the proviso: if the vault can eventually pay for good, the
\* position is closed.
ExitsWhenPossible == <>[]redeemable => []<>(shares = 0)

\* Every call gives the lock back: no return path of ExecuteFullExit leaves
\* the mutex held and the urgent path blocked.
LockReleased == \A c \in Callers : holder = c ~> holder # c

-----------------------------------------------------------------------------
(* What makes SingleActiveNonce, FeesWithinCaps, AuditTrail and            *)
(* ReplacementDiscipline inductive (proved in WithdrawServiceProofs).      *)

\* Only the holder of the lock is inside ExecuteFullExit.
Exclusive == \A c \in Callers : pc[c] # "idle" => holder = c

\* The pool holds one transaction per nonce.
OnePerNonce == \A t, u \in pool : t.nonce = u.nonce => t = u

\* Fees are within the caps wherever they are kept.
FeesInv ==
  /\ FeesWithinCaps
  /\ pending # None => WithinCaps(pending.fees)
  /\ \A c \in Callers : pc[c] \in {"send", "record"} => WithinCaps(call[c].fees)

\* How far a call has got says what it knows of service.pending.
CallInv ==
  \A c \in Callers :
    /\ pc[c] \in {"position", "preview", "simulate", "send"} /\ pending # None
         => call[c].waited <= pendingAge
    /\ pc[c] \in {"nonce", "fees", "tip"} => pending = None
    /\ pc[c] = "send" /\ pending # None
         => call[c].waited >= ReplacementTimeout /\ call[c] = Replacement(c)
    /\ pc[c] = "record" => pending = TxOf(c)

\* While the service is Steady: a live transaction has shares to redeem; a call
\* past its balance check has too, unless the pending nonce has been used; and
\* a call about to forget pending has nothing live to forget.
SteadyInv ==
  Steady =>
    /\ pool # {} => shares > 0
    /\ \A c \in Callers :
         /\ pc[c] \in Exiting =>
              shares > 0 \/ (pending # None /\ pending.nonce < chainNonce)
         /\ pc[c] = "noop" => pool = {}

\* What ImplementsExit needs besides: while the service is Steady, what is live
\* is at the account's next nonce, for shares that are there; and so will be
\* what a call past its reads sends, unless the pending nonce has been used, in
\* which case the node refuses it.
PromiseInv ==
  Steady =>
    /\ pending # None => pending.nonce <= chainNonce
    /\ \A t \in pool : t.nonce = chainNonce /\ t.shares \in 1..shares
    /\ \A c \in Callers :
         /\ pc[c] \in Exiting =>
              /\ call[c].shares > 0
              /\ call[c].shares <= shares \/ (pending # None /\ pending.nonce < chainNonce)
         /\ pc[c] \in {"fees", "tip", "send"} /\ pending = None => call[c].nonce = chainNonce

IInv ==
  /\ TypeOK
  /\ Exclusive
  /\ OnePerNonce
  /\ FeesInv
  /\ CallInv
  /\ SingleActiveNonce
  /\ SteadyInv
  /\ PromiseInv
  /\ AuditTrail
=============================================================================
