------------------------- MODULE VaultMonitorProofs -------------------------
(***************************************************************************)
(* What the monitor modules report of the vault is true of some block they *)
(* can have read, and no lasting danger escapes them, for any number of    *)
(* RPC nodes, any vault states, thresholds and baseline.                   *)
(***************************************************************************)
EXTENDS VaultMonitor, SequenceTheorems, WellFoundedInduction, TLAPS

\* A list is a sequence in the sense of the library.
LEMMA ListFacts ==
  ASSUME NEW s, IsList(s)
  PROVE  s \in Seq(Range(s)) /\ DOMAIN s = 1..Len(s) /\ Len(s) \in Nat
<1>1. s = [i \in 1..Len(s) |-> s[i]] /\ Len(s) \in Nat
  BY DEF IsList
<1>2. DOMAIN s = 1..Len(s)
  BY <1>1
<1>3. s \in [1..Len(s) -> Range(s)]
  BY <1>1, <1>2 DEF Range
<1> QED
  BY <1>1, <1>2, <1>3, SeqDef

\* And the other way round.
LEMMA SeqIsList ==
  ASSUME NEW S, NEW s \in Seq(S)
  PROVE  IsList(s)
<1>1. Len(s) \in Nat /\ s \in [1..Len(s) -> S]
  BY LenProperties
<1>2. s = [i \in 1..Len(s) |-> s[i]]
  BY <1>1
<1> QED
  BY <1>1, <1>2 DEF IsList

\* Two lists are equal if they have the same length and elements.
LEMMA ListEqual ==
  ASSUME NEW s, NEW t, IsList(s), IsList(t), Len(s) = Len(t), \A i \in 1..Len(s) : s[i] = t[i]
  PROVE  s = t
<1>1. s = [i \in 1..Len(s) |-> s[i]] /\ t = [i \in 1..Len(s) |-> t[i]]
  BY DEF IsList
<1>2. [i \in 1..Len(s) |-> s[i]] = [i \in 1..Len(s) |-> t[i]]
  OBVIOUS
<1> QED
  BY <1>1, <1>2

\* The next answer goes to the end of the list.
LEMMA ListAppend ==
  ASSUME NEW s, IsList(s), NEW x
  PROVE  /\ IsList(Append(s, x))
         /\ Len(Append(s, x)) = Len(s) + 1
         /\ \A i \in 1..Len(s) : Append(s, x)[i] = s[i]
         /\ Append(s, x)[Len(s) + 1] = x
<1> DEFINE T == Range(s) \cup {x}
<1>1. s \in Seq(T) /\ x \in T /\ Len(s) \in Nat
  BY ListFacts, SeqMonotonic
<1>2. /\ Append(s, x) \in Seq(T)
      /\ Len(Append(s, x)) = Len(s) + 1
      /\ \A i \in 1..Len(s) : Append(s, x)[i] = s[i]
      /\ Append(s, x)[Len(s) + 1] = x
  BY <1>1
<1>3. IsList(Append(s, x))
  BY <1>2, SeqIsList
<1> QED
  BY <1>2, <1>3

\* A part of a list is a list.
LEMMA ListPart ==
  ASSUME NEW s, IsList(s), NEW m \in Nat \ {0}, NEW n \in Nat, n <= Len(s), m <= n + 1
  PROVE  /\ IsList(SubSeq(s, m, n))
         /\ Len(SubSeq(s, m, n)) = n - m + 1
         /\ \A i \in 1..(n - m + 1) : SubSeq(s, m, n)[i] = s[m + i - 1]
<1>1. \A i \in m..n : s[i] \in Range(s)
  BY ListFacts DEF Range
<1>2. SubSeq(s, m, n) \in Seq(Range(s))
  BY <1>1, SubSeqProperties
<1>3. Len(SubSeq(s, m, n)) = n - m + 1
  BY <1>1, SubSeqProperties
<1>4. \A i \in 1..(n - m + 1) : SubSeq(s, m, n)[i] = s[m + i - 1]
  BY <1>1, SubSeqProperties
<1>5. IsList(SubSeq(s, m, n))
  BY <1>2, SeqIsList
<1> QED
  BY <1>3, <1>4, <1>5

\* A set of naturals has a least one.
LEMMA MinFacts ==
  ASSUME NEW S \in SUBSET Nat, S # {}
  PROVE  Min(S) \in S /\ \A m \in S : Min(S) <= m
<1>1. \E n \in S : \A m \in S : n <= m
  <2>1. PICK n \in S : \A m \in S : <<m, n>> \notin OpToRel(<, Nat)
    BY NatLessThanWellFounded, WFMin, Zenon
  <2>2. \A m \in S : ~(m < n)
    BY <2>1 DEF OpToRel
  <2> QED
    BY <2>2
<1> QED
  BY <1>1 DEF Min

-----------------------------------------------------------------------------
(* What the calls return.                                                  *)

\* The blocks of the window, and those every node is at.
LEMMA WindowFacts ==
  ASSUME TypeOK, ViewsInWindow
  PROVE  /\ Window \subseteq VaultStates
         /\ \A n \in Clients : blocks[view[n]] \in Window
         /\ blocks[since.height] \in Window
<1>1. since.height \in 1..Len(blocks) /\ Len(blocks) \in Nat /\ blocks \in Seq(VaultStates)
  BY DEF TypeOK
<1>2. \A h \in since.height..Len(blocks) : blocks[h] \in VaultStates
  BY <1>1
<1>3. \A n \in Clients : view[n] \in since.height..Len(blocks)
  BY <1>1 DEF TypeOK, ViewsInWindow
<1>4. since.height \in since.height..Len(blocks)
  BY <1>1
<1> QED
  BY <1>2, <1>3, <1>4 DEF Window

\* MultiClient returns an answer of a block in the window, and none only if
\* every node it reaches has none.
LEMMA CallFacts ==
  ASSUME TypeOK, ViewsInWindow, NEW down, NEW method, NEW arg
  PROVE  /\ CallContract(down, method, arg) # None => Seen(method, arg, CallContract(down, method, arg))
         /\ CallContract(down, method, arg) = None =>
              \A n \in Clients \ down : \E v \in Window : v = blocks[view[n]] /\ Answer(v, method, arg) = None
<1> DEFINE ok == {n \in Clients \ down : Answer(blocks[view[n]], method, arg) # None}
<1>1. ok \in SUBSET Nat
  BY VaultMonitorAssumption DEF Clients
<1>2. CASE ok = {}
  <2>1. CallContract(down, method, arg) = None
    BY <1>2 DEF CallContract
  <2> QED
    BY <1>2, <2>1, WindowFacts
<1>3. CASE ok # {}
  <2>1. Min(ok) \in ok
    BY <1>1, <1>3, MinFacts
  <2>2. CallContract(down, method, arg) = Answer(blocks[view[Min(ok)]], method, arg)
    BY <1>3 DEF CallContract
  <2>3. blocks[view[Min(ok)]] \in Window
    BY <2>1, WindowFacts
  <2> QED
    BY <2>1, <2>2, <2>3 DEF Seen
<1> QED
  BY <1>2, <1>3

\* What the methods the modules call return.
LEMMA AnswerFacts ==
  ASSUME NEW v, NEW arg
  PROVE  /\ Answer(v, "totalAssets", arg) = v.totalAssets
         /\ Answer(v, "totalSupply", arg) = v.totalSupply
         /\ Answer(v, "idle", arg) = v.idle
         /\ Answer(v, "balanceOf", arg) = v.shares
         /\ Answer(v, "redeem", arg) = IF v.redeemable /\ arg <= v.shares THEN arg ELSE None
         /\ Answer(v, "field", arg) = v.fields[arg]
         /\ Answer(v, "adaptersLength", arg) = Len(v.adapters)
         /\ Answer(v, "adapters", arg) = IF arg <= Len(v.adapters) THEN v.adapters[arg] ELSE None
  BY DEF Answer

\* An outage is counted.
LEMMA OutageFacts ==
  ASSUME TypeOK, NEW down \in Outages, CountOutage(down)
  PROVE  /\ outages' \in 0..MaxOutages /\ outages' >= outages
         /\ down # {} => outages' > since.outages
  BY VaultMonitorAssumption DEF TypeOK, Outages, CountOutage

\* The window of a run only grows, and what was seen in it stays seen.
LEMMA WindowGrows ==
  ASSUME TypeOK, UNCHANGED since,
         blocks' = blocks \/ \E v \in VaultStates : blocks' = Append(blocks, v)
  PROVE  /\ Window \subseteq Window'
         /\ \A method, arg, answer : Seen(method, arg, answer) => Seen(method, arg, answer)'
<1>1. /\ blocks \in Seq(VaultStates) /\ Len(blocks) \in Nat
      /\ since.height \in Nat
  BY DEF TypeOK
<1>2. Len(blocks') >= Len(blocks) /\ Len(blocks') \in Nat /\ \A h \in 1..Len(blocks) : blocks'[h] = blocks[h]
  BY <1>1
<1>3. Window \subseteq Window'
  <2> SUFFICES ASSUME NEW h \in since.height..Len(blocks) PROVE blocks[h] \in Window'
    BY DEF Window
  <2>1. h \in 1..Len(blocks) /\ h \in since'.height..Len(blocks')
    BY <1>1, <1>2 DEF TypeOK
  <2> QED
    BY <1>2, <2>1 DEF Window
<1>4. \A method, arg, answer : Seen(method, arg, answer) => Seen(method, arg, answer)'
  BY <1>3 DEF Seen, Answer
<1> QED
  BY <1>3, <1>4

-----------------------------------------------------------------------------
(* The invariant.                                                          *)

\* A step of a module keeps the types, and the list of answers a list.
LEMMA TypeKept ==
  ASSUME IInv, UNCHANGED <<chainVars, module, since>>,
         outages' \in 0..MaxOutages, outages' >= outages,
         pc' \in {"totalAssets", "totalSupply", "idle", "balanceOf", "redeem", "field",
                 "adaptersLength", "adapters", "evaluate", "done"},
         got' = got \/ \E a : a # None /\ got' = Append(got, a)
  PROVE  TypeOK' /\ ViewsInWindow' /\ IsList(got)'
<1>1. UNCHANGED <<blocks, view>>
  BY DEF chainVars
<1>2. IsList(got) /\ \A i \in DOMAIN got : got[i] # None
  BY DEF IInv, CallsInOrder, TypeOK
<1>3. IsList(got) /\ IsList(got') /\ \A i \in DOMAIN got' : got'[i] # None
  <2>1. CASE got' = got
    BY <1>2, <2>1
  <2>2. ASSUME NEW a, a # None, got' = Append(got, a)
        PROVE  IsList(got') /\ \A i \in DOMAIN got' : got'[i] # None
    <3>1. /\ IsList(got') /\ Len(got') = Len(got) + 1 /\ got'[Len(got) + 1] = a
          /\ \A i \in 1..Len(got) : got'[i] = got[i]
      BY <1>2, <2>2, ListAppend
    <3>2. DOMAIN got' = 1..Len(got') /\ DOMAIN got = 1..Len(got) /\ Len(got) \in Nat
      BY <1>2, <3>1, ListFacts
    <3>3. \A i \in 1..Len(got') : i \in 1..Len(got) \/ i = Len(got) + 1
      BY <3>1, <3>2
    <3>4. \A i \in 1..Len(got') : got'[i] # None
      BY <1>2, <2>2, <3>1, <3>2, <3>3
    <3> QED
      BY <3>1, <3>2, <3>4
  <2> QED
    BY <1>2, <2>1, <2>2
<1>4. since.outages \in 0..outages'
  BY DEF IInv, TypeOK
<1>5. TypeOK'
  BY <1>1, <1>3, <1>4 DEF IInv, TypeOK
<1>6. ViewsInWindow'
  BY <1>1 DEF IInv, ViewsInWindow
<1> QED
  BY <1>3, <1>5, <1>6 DEF IsList

\* What was read stays an answer of the window.
LEMMA SeenKept ==
  ASSUME IInv, UNCHANGED <<module, got, since>>, outages' >= outages, outages' \in Nat,
         blocks' = blocks \/ \E v \in VaultStates : blocks' = Append(blocks, v)
  PROVE  AnswersSeen'
<1>1. /\ Window \subseteq Window'
      /\ \A method, arg, answer : Seen(method, arg, answer) => Seen(method, arg, answer)'
  BY WindowGrows DEF IInv
<1>2. outages \in Nat /\ since.outages \in Nat
  BY DEF IInv, TypeOK
<1>3. ExitSeen => ExitSeen'
  BY <1>1, <1>2 DEF ExitSeen
<1>4. AnswersSeen
  BY DEF IInv
<1>5. CASE module = 1
  BY <1>1, <1>4, <1>5 DEF AnswersSeen
<1>6. CASE module = 2
  BY <1>1, <1>3, <1>4, <1>6 DEF AnswersSeen
<1>7. CASE module = 3
  BY <1>1, <1>4, <1>7 DEF AnswersSeen
<1>8. CASE module \notin {1, 2, 3}
  BY <1>8 DEF AnswersSeen
<1> QED
  BY <1>5, <1>6, <1>7, <1>8

\* A module that fails, or returns what it has computed.
LEMMA ReturnStep ==
  ASSUME IInv, NEW result, Return(result), UNCHANGED <<chainVars, module, got, since>>,
         outages' \in 0..MaxOutages, outages' >= outages,
         result # None =>
           \/ /\ module = 1 /\ Len(got) = 2
              /\ got[2] # 0 /\ CurrentSharePrice(got[1], got[2]) # 0
              /\ result = Known(PriceFindings(CurrentSharePrice(got[1], got[2])))
           \/ /\ module = 2 /\ Len(got) = 3
              /\ result = Known(LiquidityFindings(got[1], got[3]))
           \/ /\ module = 3 /\ Len(got) > Len(Baseline.fields) /\ Len(AdaptersRead) = LengthRead
              /\ result = Known(DiffVaultState(FieldsRead, AdaptersRead))
  PROVE  IInv'
<1>1. pc' = "done" /\ report' = result /\ blocks' = blocks
  BY DEF Return, chainVars
<1>2. TypeOK' /\ ViewsInWindow' /\ IsList(got)'
  BY <1>1, TypeKept
<1>3. outages' \in Nat
  BY VaultMonitorAssumption
<1>4. AnswersSeen'
  BY <1>1, <1>3, SeenKept
<1>5. CallsInOrder'
  BY <1>1, <1>2 DEF CallsInOrder
<1>6. ReportComputed'
  BY <1>1 DEF ReportComputed, AdaptersRead, LengthRead, FieldsRead
<1> QED
  BY <1>2, <1>4, <1>5, <1>6 DEF IInv

\* A module that goes on with one more answer.
LEMMA AppendStep ==
  ASSUME IInv, pc # "done", NEW a, a # None, got' = Append(got, a),
         UNCHANGED <<chainVars, module, report, since>>,
         outages' \in 0..MaxOutages, outages' >= outages,
         pc' \in {"totalSupply", "balanceOf", "redeem", "field", "adaptersLength", "adapters", "evaluate"},
         AnswersSeen', IsList(got') => CallsInOrder'
  PROVE  IInv'
<1>1. TypeOK' /\ ViewsInWindow' /\ IsList(got)'
  BY TypeKept
<1>2. IsList(got')
  BY <1>1 DEF IsList
<1>3. report' = None
  BY DEF IInv, ReportComputed
<1> QED
  BY <1>1, <1>2, <1>3 DEF IInv, ReportComputed

\* A call of the reader returns an answer of the window, or ends the module.
LEMMA ReadFacts ==
  ASSUME IInv, NEW method, NEW arg, NEW next, Read(method, arg, next), method # "done"
  PROVE  /\ pc = method /\ UNCHANGED <<chainVars, module, since>>
         /\ outages' \in 0..MaxOutages /\ outages' >= outages
         /\ \/ IInv'
            \/ \E a : /\ a # None /\ Seen(method, arg, a)
                     /\ got' = Append(got, a) /\ pc' = next /\ UNCHANGED report
<1>1. PICK down \in Outages :
        /\ CountOutage(down)
        /\ \/ Return(None) /\ UNCHANGED got
           \/ /\ CallContract(down, method, arg) # None
              /\ got' = Append(got, CallContract(down, method, arg))
              /\ pc' = next /\ UNCHANGED report
  BY DEF Read
<1>2. pc = method /\ UNCHANGED <<chainVars, module, since>>
  BY DEF Read
<1>3. outages' \in 0..MaxOutages /\ outages' >= outages
  BY <1>1, OutageFacts DEF IInv
<1>4. CASE Return(None) /\ UNCHANGED got
  BY <1>2, <1>3, <1>4, ReturnStep
<1>5. CASE ~(Return(None) /\ UNCHANGED got)
  <2> DEFINE a == CallContract(down, method, arg)
  <2>1. a # None /\ got' = Append(got, a) /\ pc' = next /\ UNCHANGED report
    BY <1>1, <1>5
  <2>2. Seen(method, arg, a)
    BY <2>1, CallFacts DEF IInv
  <2> HIDE DEF a
  <2> QED
    BY <1>2, <1>3, <2>1, <2>2
<1> QED
  BY <1>2, <1>3, <1>4, <1>5

\* Where an answer goes, and that the window is the same after a call.
LEMMA AnswerKept ==
  ASSUME IInv, UNCHANGED <<chainVars, since>>, NEW a, got' = Append(got, a)
  PROVE  /\ Len(got) \in Nat /\ Len(got') = Len(got) + 1 /\ got'[Len(got) + 1] = a
         /\ \A n \in 1..Len(got) : got'[n] = got[n]
         /\ Window' = Window
<1>1. IsList(got)
  BY DEF IInv, CallsInOrder
<1>2. Window' = Window
  BY DEF chainVars, Window
<1> QED
  BY <1>1, <1>2, ListFacts, ListAppend

\* SharePriceModule.
LEMMA PriceStep ==
  ASSUME IInv, ReadTotalAssets \/ ReadTotalSupply \/ EvaluatePrice
  PROVE  IInv'
<1>1. CASE ReadTotalAssets
  <2>1. Read("totalAssets", 0, "totalSupply")
    BY <1>1 DEF ReadTotalAssets
  <2>2. /\ pc = "totalAssets" /\ UNCHANGED <<chainVars, module, since>>
        /\ outages' \in 0..MaxOutages /\ outages' >= outages
    BY <2>1, ReadFacts
  <2>3. module = 1 /\ Len(got) = 0
    BY <2>2 DEF IInv, CallsInOrder
  <2> SUFFICES ASSUME NEW a, a # None, Seen("totalAssets", 0, a),
                      got' = Append(got, a), pc' = "totalSupply", UNCHANGED report
               PROVE  IInv'
    BY <2>1, ReadFacts
  <2>4. Len(got') = 1 /\ got'[1] = a /\ Window' = Window
    BY <2>2, <2>3, AnswerKept
  <2>5. AnswersSeen' /\ (IsList(got') => CallsInOrder')
    BY <2>2, <2>3, <2>4 DEF AnswersSeen, Seen, CallsInOrder, IsList
  <2> QED
    BY <2>2, <2>5, AppendStep
<1>2. CASE ReadTotalSupply
  <2>1. Read("totalSupply", 0, "evaluate")
    BY <1>2 DEF ReadTotalSupply
  <2>2. /\ pc = "totalSupply" /\ UNCHANGED <<chainVars, module, since>>
        /\ outages' \in 0..MaxOutages /\ outages' >= outages
    BY <2>1, ReadFacts
  <2>3. module = 1 /\ Len(got) = 1 /\ Seen("totalAssets", 0, got[1])
    BY <2>2 DEF IInv, CallsInOrder, AnswersSeen
  <2> SUFFICES ASSUME NEW a, a # None, Seen("totalSupply", 0, a),
                      got' = Append(got, a), pc' = "evaluate", UNCHANGED report
               PROVE  IInv'
    BY <2>1, ReadFacts
  <2>4. Len(got') = 2 /\ got'[1] = got[1] /\ got'[2] = a /\ Window' = Window
    BY <2>2, <2>3, AnswerKept
  <2>5. AnswersSeen' /\ (IsList(got') => CallsInOrder')
    BY <2>2, <2>3, <2>4 DEF AnswersSeen, Seen, CallsInOrder, IsList
  <2> QED
    BY <2>2, <2>5, AppendStep
<1>3. CASE EvaluatePrice
  <2>1. /\ module = 1 /\ pc = "evaluate" /\ UNCHANGED <<chainVars, module, got, since, outages>>
        /\ \/ Return(None)
           \/ /\ got[2] # 0 /\ CurrentSharePrice(got[1], got[2]) # 0
              /\ Return(Known(PriceFindings(CurrentSharePrice(got[1], got[2]))))
    BY <1>3 DEF EvaluatePrice
  <2>2. Len(got) = 2
    BY <2>1 DEF IInv, CallsInOrder
  <2>3. outages' \in 0..MaxOutages /\ outages' >= outages
    BY <2>1, VaultMonitorAssumption DEF IInv, TypeOK
  <2> QED
    BY <2>1, <2>2, <2>3, ReturnStep
<1> QED
  BY <1>1, <1>2, <1>3

\* WithdrawLiquidityModule.
LEMMA LiquidityStep ==
  ASSUME IInv, ReadIdleAssets \/ ReadPosition \/ SimulateFullExit \/ EvaluateLiquidity
  PROVE  IInv'
<1>0. outages \in 0..MaxOutages /\ MaxOutages \in Nat
  BY VaultMonitorAssumption DEF IInv, TypeOK
<1>1. CASE ReadIdleAssets
  <2>1. Read("idle", 0, "balanceOf")
    BY <1>1 DEF ReadIdleAssets
  <2>2. /\ pc = "idle" /\ UNCHANGED <<chainVars, module, since>>
        /\ outages' \in 0..MaxOutages /\ outages' >= outages
    BY <2>1, ReadFacts
  <2>3. module = 2 /\ Len(got) = 0
    BY <2>2 DEF IInv, CallsInOrder
  <2> SUFFICES ASSUME NEW a, a # None, Seen("idle", 0, a),
                      got' = Append(got, a), pc' = "balanceOf", UNCHANGED report
               PROVE  IInv'
    BY <2>1, ReadFacts
  <2>4. Len(got') = 1 /\ got'[1] = a /\ Window' = Window
    BY <2>2, <2>3, AnswerKept
  <2>5. AnswersSeen' /\ (IsList(got') => CallsInOrder')
    BY <2>2, <2>3, <2>4 DEF AnswersSeen, Seen, CallsInOrder, IsList
  <2> QED
    BY <2>2, <2>5, AppendStep
<1>2. CASE ReadPosition
  <2>1. Read("balanceOf", 0, "redeem")
    BY <1>2 DEF ReadPosition
  <2>2. /\ pc = "balanceOf" /\ UNCHANGED <<chainVars, module, since>>
        /\ outages' \in 0..MaxOutages /\ outages' >= outages
    BY <2>1, ReadFacts
  <2>3. module = 2 /\ Len(got) = 1 /\ Seen("idle", 0, got[1])
    BY <2>2 DEF IInv, CallsInOrder, AnswersSeen
  <2> SUFFICES ASSUME NEW a, a # None, Seen("balanceOf", 0, a),
                      got' = Append(got, a), pc' = "redeem", UNCHANGED report
               PROVE  IInv'
    BY <2>1, ReadFacts
  <2>4. Len(got') = 2 /\ got'[1] = got[1] /\ got'[2] = a /\ Window' = Window
    BY <2>2, <2>3, AnswerKept
  <2>5. AnswersSeen' /\ (IsList(got') => CallsInOrder')
    BY <2>2, <2>3, <2>4 DEF AnswersSeen, Seen, CallsInOrder, IsList
  <2> QED
    BY <2>2, <2>5, AppendStep
<1>3. CASE SimulateFullExit
  <2>1. pc = "redeem" /\ UNCHANGED <<chainVars, module, since>>
    BY <1>3 DEF SimulateFullExit
  <2>2. /\ module = 2 /\ Len(got) = 2
        /\ Seen("idle", 0, got[1]) /\ Seen("balanceOf", 0, got[2])
    BY <2>1 DEF IInv, CallsInOrder, AnswersSeen
  <2>3. CASE got[2] = 0
    <3>1. Return(None) /\ UNCHANGED <<got, outages>>
      BY <1>3, <2>3 DEF SimulateFullExit
    <3> QED
      BY <1>0, <2>1, <3>1, ReturnStep
  <2>4. CASE got[2] # 0
    <3>1. PICK down \in Outages :
            /\ CountOutage(down)
            /\ got' = Append(got, CallContract(down, "redeem", got[2]) # None)
      BY <1>3, <2>4 DEF SimulateFullExit
    <3>2. pc' = "evaluate" /\ UNCHANGED report
      BY <1>3, <2>4 DEF SimulateFullExit
    <3>3. /\ outages' \in 0..MaxOutages /\ outages' >= outages
          /\ down # {} => outages' > since.outages
      BY <3>1, OutageFacts DEF IInv
    <3>4. PICK a \in BOOLEAN :
            /\ got' = Append(got, a)
            /\ a <=> CallContract(down, "redeem", got[2]) # None
      BY <3>1
    <3>5. /\ Len(got') = 3 /\ got'[1] = got[1] /\ got'[2] = got[2] /\ got'[3] = a
          /\ Window' = Window
      BY <2>1, <2>2, <3>4, AnswerKept
    <3>6. ASSUME a = TRUE PROVE AnswersSeen'
      <4>1. \E v \in Window : Answer(v, "redeem", got[2]) # None
        BY <3>4, <3>6, CallFacts DEF IInv, Seen
      <4>2. \E v \in Window : v.redeemable
        BY <4>1, AnswerFacts
      <4>3. got'[3] = TRUE /\ \E v \in Window' : v.redeemable
        BY <3>5, <3>6, <4>2
      <4>4. ExitSeen'
        BY <4>3, Zenon DEF ExitSeen
      <4>5. AnswersSeen'
        BY <2>1, <2>2, <3>5, <4>3, <4>4 DEF AnswersSeen, Seen
      <4> QED
        BY <4>5
    <3>7. ASSUME a = FALSE PROVE AnswersSeen'
      <4>1. down # {} => outages' > since.outages
        BY <3>3
      <4>2. ASSUME down = {} PROVE \E v \in Window : ~v.redeemable \/ v.shares < got[2]
        <5>1. 1 \in Clients \ down
          BY <4>2, VaultMonitorAssumption DEF Clients
        <5>2. PICK v \in Window : Answer(v, "redeem", got[2]) = None
          BY <3>4, <3>7, <5>1, CallFacts DEF IInv
        <5>3. got[2] # None
          BY <2>2, ListFacts DEF IInv, TypeOK, CallsInOrder
        <5>4. ~(v.redeemable /\ got[2] <= v.shares)
          BY <5>2, <5>3, AnswerFacts
        <5>5. v.shares \in Nat /\ got[2] \in Nat
          <6>1. PICK w \in Window : got[2] = w.shares
            BY <2>2, AnswerFacts DEF Seen
          <6>2. v \in VaultStates /\ w \in VaultStates
            BY WindowFacts DEF IInv
          <6> QED
            BY <6>1, <6>2, VaultMonitorAssumption
        <5>6. ~v.redeemable \/ v.shares < got[2]
          BY <5>4, <5>5
        <5> QED
          BY <5>6
      <4>3. /\ got'[3] = FALSE
            /\ outages' > since'.outages \/ \E v \in Window' : ~v.redeemable \/ v.shares < got'[2]
        BY <2>1, <3>5, <3>7, <4>1, <4>2
      <4>4. ExitSeen'
        BY <4>3, Zenon DEF ExitSeen
      <4>5. AnswersSeen'
        BY <2>1, <2>2, <3>5, <4>3, <4>4 DEF AnswersSeen, Seen
      <4> QED
        BY <4>5
    <3>8. AnswersSeen'
      BY <3>6, <3>7
    <3>9. IsList(got') => CallsInOrder'
      BY <2>1, <2>2, <3>2, <3>5 DEF CallsInOrder, IsList
    <3>10. a # None
      BY VaultMonitorAssumption
    <3> QED
      BY <2>1, <3>2, <3>3, <3>4, <3>8, <3>9, <3>10, AppendStep
  <2> QED
    BY <2>3, <2>4
<1>4. CASE EvaluateLiquidity
  <2>1. /\ module = 2 /\ pc = "evaluate" /\ UNCHANGED <<chainVars, module, got, since, outages>>
        /\ Return(Known(LiquidityFindings(got[1], got[3])))
    BY <1>4 DEF EvaluateLiquidity
  <2>2. Len(got) = 3
    BY <2>1 DEF IInv, CallsInOrder
  <2> QED
    BY <1>0, <2>1, <2>2, ReturnStep
<1> QED
  BY <1>1, <1>2, <1>3, <1>4

\* VaultStateModule: one more field, the number of adapters, or one of them.
LEMMA StateStep ==
  ASSUME IInv, ReadField \/ ReadAdaptersLength \/ ReadAdapter \/ EvaluateState
  PROVE  IInv'
<1> DEFINE F == Len(Baseline.fields)
<1>1. F \in Nat /\ IsList(got) /\ Len(got) \in Nat
  BY VaultMonitorAssumption, ListFacts DEF IInv, CallsInOrder, IsList
<1>2. ASSUME NEW method, NEW arg, NEW next, Read(method, arg, next), method # "done",
             pc = method => module = 3,
             pc = method =>
               \/ method = "field" /\ Len(got) < F /\ arg = Len(got) + 1
                  /\ next = (IF Len(got) + 1 < F THEN "field" ELSE "adaptersLength")
               \/ method = "adaptersLength" /\ Len(got) = F /\ arg = 0 /\ next = "adapters"
               \/ method = "adapters" /\ Len(got) > F /\ arg = Len(got) - F /\ next = "adapters"
      PROVE  IInv'
  <2>1. /\ pc = method /\ UNCHANGED <<chainVars, module, since>>
        /\ outages' \in 0..MaxOutages /\ outages' >= outages
    BY <1>2, ReadFacts
  <2>2. module = 3
    BY <1>2, <2>1
  <2> SUFFICES ASSUME NEW a, a # None, Seen(method, arg, a),
                      got' = Append(got, a), pc' = next, UNCHANGED report
               PROVE  IInv'
    BY <1>2, ReadFacts
  <2>3. /\ Len(got') = Len(got) + 1 /\ got'[Len(got) + 1] = a /\ Window' = Window
        /\ \A n \in 1..Len(got) : got'[n] = got[n]
    BY <2>1, AnswerKept
  <2>4. AnswersSeen'
    <3> SUFFICES ASSUME NEW i \in 1..Len(got')
                 PROVE  \E v \in Window' :
                          IF i <= F THEN Answer(v, "field", i) = got'[i]
                          ELSE IF i = F + 1 THEN Answer(v, "adaptersLength", 0) = got'[i]
                          ELSE Answer(v, "adapters", i - F - 1) = got'[i]
      BY <2>1, <2>2 DEF AnswersSeen, Seen
    <3>1. CASE i \in 1..Len(got)
      <4>1. IF i <= F THEN Seen("field", i, got[i])
            ELSE IF i = F + 1 THEN Seen("adaptersLength", 0, got[i])
            ELSE Seen("adapters", i - F - 1, got[i])
        BY <2>2, <3>1 DEF IInv, AnswersSeen
      <4> QED
        BY <2>3, <3>1, <4>1 DEF Seen
    <3>2. CASE i = Len(got) + 1
      <4>1. got'[i] = a
        BY <2>3, <3>2
      <4>2. \/ method = "field" /\ i <= F /\ arg = i
            \/ method = "adaptersLength" /\ i = F + 1 /\ arg = 0
            \/ method = "adapters" /\ i > F + 1 /\ arg = i - F - 1
        <5>1. \/ method = "field" /\ Len(got) < F /\ arg = Len(got) + 1
              \/ method = "adaptersLength" /\ Len(got) = F /\ arg = 0
              \/ method = "adapters" /\ Len(got) > F /\ arg = Len(got) - F
          BY <1>2, <2>1
        <5> HIDE DEF F
        <5> QED
          BY <1>1, <3>2, <5>1
      <4>3. \E v \in Window' : Answer(v, method, arg) = a
        BY <2>3 DEF Seen
      <4> QED
        BY <1>1, <4>1, <4>2, <4>3
    <3> QED
      BY <1>1, <2>3, <3>1, <3>2
  <2>5. IsList(got') => CallsInOrder'
    BY <1>1, <1>2, <2>1, <2>2, <2>3 DEF CallsInOrder, IsList
  <2>6. pc' \in {"field", "adaptersLength", "adapters"}
    BY <1>2, <2>1
  <2> QED
    BY <1>2, <2>1, <2>4, <2>5, <2>6, AppendStep
<1>3. CASE ReadField
  BY <1>2, <1>3 DEF ReadField, IInv, CallsInOrder
<1>4. CASE ReadAdaptersLength
  BY <1>2, <1>4 DEF ReadAdaptersLength, IInv, CallsInOrder
<1>5. ASSUME pc = "adapters" PROVE module = 3 /\ Len(got) > F /\ Len(AdaptersRead) = Len(got) - F - 1
  <2>1. module = 3 /\ Len(got) > F
    BY <1>5 DEF IInv, CallsInOrder
  <2>2. F + 2 \in Nat \ {0} /\ F + 2 <= Len(got) + 1 /\ Len(got) <= Len(got)
    BY <1>1, <2>1
  <2>3. Len(AdaptersRead) = Len(got) - (F + 2) + 1
    BY <1>1, <2>2, ListPart, Zenon DEF AdaptersRead
  <2> HIDE DEF AdaptersRead
  <2> QED
    BY <1>1, <2>1, <2>3
<1>6. CASE ReadAdapter
  <2>1. pc = "adapters" /\ Read("adapters", Len(AdaptersRead) + 1, "adapters")
    BY <1>6 DEF ReadAdapter
  <2>2. Len(AdaptersRead) + 1 = Len(got) - F
    <3>1. Len(AdaptersRead) = Len(got) - F - 1
      BY <1>5, <2>1
    <3> HIDE DEF F
    <3> QED
      BY <1>1, <3>1
  <2> QED
    BY <1>2, <1>5, <2>1, <2>2
<1>7. CASE EvaluateState
  <2>1. /\ pc = "adapters" /\ Len(AdaptersRead) = LengthRead
        /\ Return(Known(DiffVaultState(FieldsRead, AdaptersRead)))
        /\ UNCHANGED <<chainVars, module, got, since, outages>>
    BY <1>7 DEF EvaluateState
  <2>2. outages' \in 0..MaxOutages /\ outages' >= outages
    BY <2>1, VaultMonitorAssumption DEF IInv, TypeOK
  <2> QED
    BY <1>5, <2>1, <2>2, ReturnStep
<1> QED
  BY <1>3, <1>4, <1>6, <1>7

\* The next module starts with what the nodes are at now.
LEMMA BeginStep ==
  ASSUME IInv, Begin
  PROVE  IInv'
<1>1. /\ UNCHANGED <<blocks, view, outages>> /\ got' = <<>> /\ report' = None
      /\ since' = [height |-> MinView, outages |-> outages]
      /\ module' = (module % Len(Modules)) + 1 /\ pc' = FirstCall[module']
  BY DEF Begin, chainVars
<1>2. \/ module' = 1 /\ pc' = "totalAssets"
      \/ module' = 2 /\ pc' = "idle"
      \/ module' = 3 /\ pc' = "field"
  <2>1. module \in 1..3 /\ Len(Modules) = 3
    BY DEF IInv, TypeOK, Modules
  <2>2. module' \in {1, 2, 3}
    BY <1>1, <2>1
  <2> QED
    BY <1>1, <2>2 DEF FirstCall
<1>3. MinView \in {view[n] : n \in Clients} /\ \A n \in Clients : MinView <= view[n]
  <2> DEFINE S == {view[n] : n \in Clients}
  <2>1. 1 \in Clients
    BY VaultMonitorAssumption DEF Clients
  <2>2. S \in SUBSET Nat /\ S # {}
    BY <2>1 DEF IInv, TypeOK
  <2>3. Min(S) \in S /\ \A m \in S : Min(S) <= m
    BY <2>2, MinFacts
  <2> QED
    BY <2>3 DEF MinView
<1>4. since'.height = MinView /\ since'.outages = outages
  BY <1>1
<1>5. TypeOK'
  <2>1. MinView \in 1..Len(blocks)
    BY <1>3 DEF IInv, TypeOK
  <2>2. outages \in 0..outages
    BY VaultMonitorAssumption DEF IInv, TypeOK
  <2>3. module' \in DOMAIN Modules /\ pc' \in {"totalAssets", "idle", "field"}
    BY <1>2 DEF Modules
  <2>4. DOMAIN got' = {}
    BY <1>1
  <2> QED
    BY <1>1, <1>4, <2>1, <2>2, <2>3, <2>4 DEF IInv, TypeOK
<1>6. ViewsInWindow'
  BY <1>1, <1>3, <1>4 DEF ViewsInWindow, IInv, TypeOK
<1>7. Len(got') = 0 /\ IsList(got')
  BY <1>1, EmptySeq, SeqIsList
<1>8. AnswersSeen'
  BY <1>7 DEF AnswersSeen
<1>9. CallsInOrder'
  <2>1. IsList(got)'
    BY <1>7 DEF IsList
  <2> QED
    BY <1>2, <1>7, <2>1, VaultMonitorAssumption DEF CallsInOrder
<1>10. ReportComputed'
  BY <1>1 DEF ReportComputed
<1> QED
  BY <1>5, <1>6, <1>8, <1>9, <1>10 DEF IInv

\* The chain and the nodes move on while a module runs.
LEMMA ChainStep ==
  ASSUME IInv, NewBlock \/ (\E n \in Clients : CatchUp(n)) \/ UNCHANGED vars
  PROVE  IInv'
<1>0. UNCHANGED <<module, pc, got, report, since, outages>>
  BY DEF NewBlock, CatchUp, vars
<1>1. /\ blocks \in Seq(VaultStates) /\ Len(blocks) \in 1..MaxBlocks /\ MaxBlocks \in Nat
      /\ view \in [Clients -> 1..Len(blocks)]
  BY VaultMonitorAssumption DEF IInv, TypeOK
<1>2. blocks' = blocks \/ \E v \in VaultStates : blocks' = Append(blocks, v)
  BY DEF NewBlock, CatchUp, vars, chainVars
<1>3. blocks' \in Seq(VaultStates) /\ Len(blocks') \in 1..MaxBlocks /\ Len(blocks') >= Len(blocks)
  <2>1. CASE NewBlock
    BY <1>1, <2>1 DEF NewBlock
  <2>2. CASE blocks' = blocks
    BY <1>1, <2>2
  <2> QED
    BY <2>1, <2>2 DEF CatchUp, vars, chainVars
<1>4. view' \in [Clients -> 1..Len(blocks')] /\ \A n \in Clients : view'[n] >= view[n]
  <2>1. CASE UNCHANGED view
    BY <1>1, <1>3, <2>1
  <2>2. CASE \E n \in Clients : CatchUp(n)
    BY <1>1, <2>2 DEF CatchUp
  <2> QED
    BY <2>1, <2>2 DEF NewBlock, vars, chainVars
<1>5. TypeOK'
  <2>1. since.height \in 1..Len(blocks')
    BY <1>1, <1>3 DEF IInv, TypeOK
  <2> QED
    BY <1>0, <1>3, <1>4, <2>1 DEF IInv, TypeOK
<1>6. ViewsInWindow'
  BY <1>0, <1>1, <1>4 DEF IInv, ViewsInWindow, TypeOK
<1>7. AnswersSeen'
  <2>1. outages' >= outages /\ outages' \in Nat
    BY <1>0, VaultMonitorAssumption DEF IInv, TypeOK
  <2> QED
    BY <1>0, <1>2, <2>1, SeenKept
<1>8. CallsInOrder' /\ ReportComputed'
  BY <1>0 DEF IInv, CallsInOrder, ReportComputed, IsList, AdaptersRead, LengthRead, FieldsRead
<1> QED
  BY <1>5, <1>6, <1>7, <1>8 DEF IInv

\* The inductive invariant of the monitor modules.
THEOREM Invariant == Spec => []IInv
<1>1. Init => IInv
  <2> SUFFICES ASSUME Init PROVE IInv
    OBVIOUS
  <2>1. PICK v \in VaultStates : blocks = <<v>>
    BY DEF Init
  <2>2. blocks \in Seq(VaultStates) /\ Len(blocks) = 1
    BY <2>1
  <2>3. Len(got) = 0 /\ IsList(got) /\ DOMAIN got = {}
    <3>1. got = <<>> /\ got \in Seq({})
      BY DEF Init
    <3>2. Len(got) = 0 /\ IsList(got)
      BY <3>1, SeqIsList
    <3> QED
      BY <3>2, ListFacts
  <2>4. module = 1 /\ pc = "totalAssets" /\ report = None
    BY DEF Init, FirstCall
  <2>5. TypeOK
    BY <2>2, <2>3, <2>4, VaultMonitorAssumption DEF Init, TypeOK, Modules
  <2>6. ViewsInWindow
    BY DEF Init, ViewsInWindow
  <2> QED
    BY <2>3, <2>4, <2>5, <2>6 DEF IInv, AnswersSeen, CallsInOrder, ReportComputed
<1>2. IInv /\ [Next]_vars => IInv'
  BY PriceStep, LiquidityStep, StateStep, BeginStep, ChainStep DEF Next, Step
<1> QED
  BY <1>1, <1>2, PTL DEF Spec

\* Whatever nodes answer, whatever blocks come, the types are kept: in
\* particular no missing answer is ever used as a value.
THEOREM TypeSafety == Spec => []TypeOK
<1>1. IInv => TypeOK
  BY DEF IInv
<1> QED
  BY <1>1, Invariant, PTL
-----------------------------------------------------------------------------
(* What the reports say.                                                   *)

\* A quotient is rounded down: it reaches u exactly when u times the divisor fits.
LEMMA QuotientReaches ==
  ASSUME NEW a \in Nat, NEW b \in Nat \ {0}, NEW u \in Nat
  PROVE  a \div b \in Nat /\ (a \div b >= u <=> a >= u * b)
<1>1. PICK q \in Nat : q = a \div b
  OBVIOUS
<1>2. b * q <= a /\ a < b * q + b
  BY <1>1
<1>3. ASSUME q >= u PROVE a >= u * b
  <2>1. PICK d \in Nat : q = u + d
    BY <1>3
  <2>2. b * q = u * b + b * d /\ b * d \in Nat
    BY <2>1
  <2> QED
    BY <1>2, <2>2
<1>4. ASSUME ~(q >= u) PROVE ~(a >= u * b)
  <2>1. PICK d \in Nat : u = q + 1 + d
    BY <1>4
  <2>2. u * b = b * q + b + b * d /\ b * d \in Nat
    BY <2>1
  <2> QED
    BY <1>2, <2>2
<1> QED
  BY <1>1, <1>3, <1>4

\* lossBPS reaches a threshold exactly when the price has lost that much.
LEMMA LossReaches ==
  ASSUME NEW P \in Nat, NEW B \in Nat \ {0}, NEW bps \in Nat \ {0}
  PROVE  lossBPS(B, P) >= bps <=> P * 10000 <= B * (10000 - bps)
<1>1. B * (10000 - bps) = B * 10000 - B * bps /\ B * bps \in Nat \ {0}
  OBVIOUS
<1>2. CASE P >= B
  BY <1>1, <1>2 DEF lossBPS
<1>3. CASE P < B
  <2>1. (B - P) * 10000 \in Nat /\ (B - P) * 10000 = B * 10000 - P * 10000
    BY <1>3
  <2>2. lossBPS(B, P) >= bps <=> (B - P) * 10000 >= bps * B
    BY <1>3, <2>1, QuotientReaches DEF lossBPS
  <2> QED
    BY <1>1, <2>1, <2>2
<1> QED
  BY <1>2, <1>3

\* A module that is done and reported has computed its report from its answers.
LEMMA ModuleReports ==
  ASSUME IInv, report # None
  PROVE  /\ pc = "done" /\ module \in 1..3
         /\ Done("share_price_loss") <=> module = 1
         /\ Done("withdraw_liquidity") <=> module = 2
         /\ Done("vault_state") <=> module = 3
<1>1. pc = "done" /\ module \in 1..3
  BY DEF IInv, ReportComputed, TypeOK, Modules
<1> QED
  BY <1>1 DEF Done, Modules

\* While the supply is steady the price reported is that of one block, although
\* the assets and the supply were read from two.
LEMMA PriceRead ==
  ASSUME IInv, report # None, module = 1, SteadySupply
  PROVE  \E v \in Window : /\ v.totalSupply > 0 /\ PriceOf(v) > 0 /\ PriceOf(v) \in Nat
                           /\ report = Known(PriceFindings(PriceOf(v)))
<1>1. /\ Len(got) = 2 /\ got[2] # 0 /\ CurrentSharePrice(got[1], got[2]) # 0
      /\ report = Known(PriceFindings(CurrentSharePrice(got[1], got[2])))
  BY DEF IInv, ReportComputed
<1>2. PICK v \in Window : v.totalAssets = got[1]
  BY <1>1, AnswerFacts DEF IInv, AnswersSeen, Seen
<1>3. PICK w \in Window : w.totalSupply = got[2]
  BY <1>1, AnswerFacts DEF IInv, AnswersSeen, Seen
<1>4. v.totalSupply = got[2]
  BY <1>3 DEF SteadySupply
<1>5. PriceOf(v) = CurrentSharePrice(got[1], got[2])
  BY <1>2, <1>4 DEF PriceOf
<1>6. v.totalAssets \in Nat /\ v.totalSupply \in Nat \ {0} /\ Scale \in Nat
  BY <1>1, <1>4, WindowFacts, VaultMonitorAssumption DEF IInv
<1>7. v.totalAssets * Scale \in Nat
  BY <1>6
<1>8. PriceOf(v) \in Nat
  BY <1>6, <1>7, QuotientReaches DEF PriceOf, CurrentSharePrice
<1> QED
  BY <1>1, <1>5, <1>6, <1>8

\* The urgent and the warning finding of the price, for a loss without rounding.
LEMMA PriceFindingsFacts ==
  ASSUME NEW P \in Nat
  PROVE  /\ Finding("share_price", 0, "URGENT") \in PriceFindings(P)
              <=> P * 10000 <= BaselinePrice * (10000 - UrgentBPS)
         /\ Finding("share_price", 0, "WARN") \in PriceFindings(P)
              => P * 10000 <= BaselinePrice * (10000 - WarnBPS)
<1> DEFINE loss == lossBPS(BaselinePrice, P)
<1>1. BaselinePrice \in Nat \ {0} /\ UrgentBPS \in Nat \ {0} /\ WarnBPS \in Nat \ {0}
  BY VaultMonitorAssumption
<1>2. /\ loss >= UrgentBPS <=> P * 10000 <= BaselinePrice * (10000 - UrgentBPS)
      /\ loss >= WarnBPS <=> P * 10000 <= BaselinePrice * (10000 - WarnBPS)
  BY <1>1, LossReaches
<1>3. PriceFindings(P) =
        IF loss >= UrgentBPS THEN {Finding("share_price", 0, "URGENT")}
        ELSE IF loss >= WarnBPS THEN {Finding("share_price", 0, "WARN")} ELSE {}
  BY DEF PriceFindings
<1>4. Finding("share_price", 0, "URGENT") # Finding("share_price", 0, "WARN")
  BY DEF Finding
<1> HIDE DEF loss
<1>5. Finding("share_price", 0, "URGENT") \in PriceFindings(P) <=> loss >= UrgentBPS
  BY <1>3, <1>4
<1>6. Finding("share_price", 0, "WARN") \in PriceFindings(P) => loss >= WarnBPS
  BY <1>3, <1>4
<1> QED
  BY <1>2, <1>5, <1>6

\* What a liquidity report was computed from.
LEMMA LiquidityRead ==
  ASSUME IInv, report # None, module = 2
  PROVE  /\ report = Known(LiquidityFindings(got[1], got[3]))
         /\ \E v \in Window : v.idle = got[1]
         /\ got[3] \in BOOLEAN /\ ExitSeen
<1>1. Len(got) = 3 /\ report = Known(LiquidityFindings(got[1], got[3]))
  BY DEF IInv, ReportComputed
<1> QED
  BY <1>1, AnswerFacts DEF IInv, AnswersSeen, Seen

\* The findings of a liquidity report.
LEMMA LiquidityFindingsFacts ==
  ASSUME NEW idle, NEW exits \in BOOLEAN
  PROVE  /\ Finding("idle", 0, "URGENT") \in LiquidityFindings(idle, exits) <=> idle < IdleUrgent
         /\ Finding("idle", 0, "WARN") \in LiquidityFindings(idle, exits) => idle < IdleWarn
         /\ Finding("exit", 0, "URGENT") \in LiquidityFindings(idle, exits) <=> ~exits
<1>1. /\ Finding("idle", 0, "URGENT") # Finding("idle", 0, "WARN")
      /\ Finding("idle", 0, "URGENT") # Finding("exit", 0, "URGENT")
      /\ Finding("idle", 0, "WARN") # Finding("exit", 0, "URGENT")
  BY DEF Finding
<1> QED
  BY <1>1 DEF LiquidityFindings

\* What a state report was computed from: every field of some block, and as many
\* adapters, each of some block, as some block has.
LEMMA StateRead ==
  ASSUME IInv, report # None, module = 3
  PROVE  /\ report = Known(DiffVaultState(FieldsRead, AdaptersRead))
         /\ \A f \in Fields : \E v \in Window : v.fields[f] = FieldsRead[f]
         /\ IsList(AdaptersRead)
         /\ \E v \in Window : Len(v.adapters) = Len(AdaptersRead)
         /\ \A i \in 1..Len(AdaptersRead) :
              \E v \in Window : i <= Len(v.adapters) /\ v.adapters[i] = AdaptersRead[i]
<1> DEFINE k == Len(Baseline.fields)
<1>1. /\ Len(got) > k /\ Len(AdaptersRead) = LengthRead
      /\ report = Known(DiffVaultState(FieldsRead, AdaptersRead))
  BY DEF IInv, ReportComputed
<1>2. k \in Nat \ {0} /\ Fields = 1..k
  BY VaultMonitorAssumption, ListFacts DEF Fields
<1>3. /\ IsList(got) /\ Len(got) \in Nat /\ DOMAIN got = 1..Len(got)
      /\ \A i \in 1..Len(got) : got[i] # None
  BY ListFacts DEF IInv, CallsInOrder, TypeOK
<1>4. \A i \in 1..Len(got) :
        IF i <= k THEN Seen("field", i, got[i])
        ELSE IF i = k + 1 THEN Seen("adaptersLength", 0, got[i])
        ELSE Seen("adapters", i - k - 1, got[i])
  BY DEF IInv, AnswersSeen
<1>5. \A f \in Fields : \E v \in Window : v.fields[f] = FieldsRead[f]
  <2>1. \A i \in 1..(k - 1 + 1) : FieldsRead[i] = got[1 + i - 1]
    <3>1. 1 \in Nat \ {0} /\ k \in Nat /\ k <= Len(got) /\ 1 <= k + 1
      BY <1>1, <1>2, <1>3
    <3> QED
      BY <1>3, <3>1, ListPart, Zenon DEF FieldsRead
  <2> SUFFICES ASSUME NEW f \in Fields PROVE \E v \in Window : v.fields[f] = FieldsRead[f]
    OBVIOUS
  <2>2. f \in 1..Len(got) /\ f <= k /\ f \in 1..(k - 1 + 1) /\ 1 + f - 1 = f
    BY <1>1, <1>2, <1>3
  <2>3. Seen("field", f, got[f]) /\ FieldsRead[f] = got[f]
    BY <1>4, <2>1, <2>2
  <2> QED
    BY <2>3, AnswerFacts DEF Seen
<1>6. \E v \in Window : Len(v.adapters) = Len(AdaptersRead)
  <2>1. k + 1 \in 1..Len(got) /\ ~(k + 1 <= k)
    BY <1>1, <1>2, <1>3
  <2>2. Seen("adaptersLength", 0, LengthRead)
    BY <1>4, <2>1 DEF LengthRead
  <2> QED
    BY <1>1, <2>2, AnswerFacts DEF Seen
<1>7. /\ IsList(AdaptersRead)
      /\ Len(AdaptersRead) = Len(got) - (k + 2) + 1
      /\ \A i \in 1..(Len(got) - (k + 2) + 1) : AdaptersRead[i] = got[k + 2 + i - 1]
  <2>1. k + 2 \in Nat \ {0} /\ Len(got) <= Len(got) /\ k + 2 <= Len(got) + 1
    BY <1>1, <1>2, <1>3
  <2> QED
    BY <1>3, <2>1, ListPart, Zenon DEF AdaptersRead
<1>8. ASSUME NEW i \in 1..Len(AdaptersRead)
      PROVE  \E v \in Window : i <= Len(v.adapters) /\ v.adapters[i] = AdaptersRead[i]
  <2>1. /\ i \in 1..(Len(got) - (k + 2) + 1)
        /\ k + 1 + i \in 1..Len(got) /\ k + 2 + i - 1 = k + 1 + i
        /\ ~(k + 1 + i <= k) /\ k + 1 + i # k + 1 /\ (k + 1 + i) - k - 1 = i
    <3>1. k \in Nat /\ Len(got) \in Nat /\ Len(AdaptersRead) = Len(got) - (k + 2) + 1
      BY <1>2, <1>3, <1>7
    <3>2. i \in Nat \ {0} /\ i <= Len(got) - (k + 2) + 1
      BY <3>1
    <3> HIDE DEF k
    <3> QED
      BY <3>1, <3>2
  <2>2. Seen("adapters", i, got[k + 1 + i])
    <3>1. Seen("adapters", (k + 1 + i) - k - 1, got[k + 1 + i])
      BY <1>4, <2>1
    <3> QED
      BY <2>1, <3>1
  <2>3. got[k + 1 + i] = AdaptersRead[i] /\ got[k + 1 + i] # None
    BY <1>3, <1>7, <2>1
  <2>4. PICK v \in Window : Answer(v, "adapters", i) = AdaptersRead[i] /\ AdaptersRead[i] # None
    BY <2>2, <2>3 DEF Seen
  <2> QED
    BY <2>4, AnswerFacts
<1> QED
  BY <1>1, <1>5, <1>6, <1>7, <1>8

\* The findings of a state report.
LEMMA DiffFacts ==
  ASSUME NEW fields, NEW adapters
  PROVE  /\ \A f \in Fields : Finding("field", f, ChangeSeverity) \in DiffVaultState(fields, adapters)
                                <=> fields[f] # Baseline.fields[f]
         /\ Finding("adapters", 0, ChangeSeverity) \in DiffVaultState(fields, adapters)
                                <=> adapters # Baseline.adapters
<1>1. \A f, g : Finding("field", f, ChangeSeverity) = Finding("field", g, ChangeSeverity) => f = g
  BY DEF Finding
<1>2. \A f : Finding("field", f, ChangeSeverity) # Finding("adapters", 0, ChangeSeverity)
  BY DEF Finding
<1> QED
  BY <1>1, <1>2 DEF DiffVaultState

\* No alarm out of thin air: behind each finding of a module there is a state of
\* the vault, in the window of that run, in which it is true; a failed simulation
\* of the exit may also be an outage or a balance that went down.
THEOREM AlarmSafety == Spec => []AlarmsHaveCause
<1>1. IInv => AlarmsHaveCause
  <2> SUFFICES ASSUME IInv, report # None PROVE AlarmsHaveCause
    BY DEF AlarmsHaveCause
  <2>1. CASE module = 1
    <3>1. ASSUME SteadySupply
          PROVE  /\ Reports("share_price", 0, "URGENT") => \E v \in Window : HasLost(v, UrgentBPS)
                 /\ Reports("share_price", 0, "WARN") => \E v \in Window : HasLost(v, WarnBPS)
      <4>1. PICK v \in Window : /\ v.totalSupply > 0 /\ PriceOf(v) > 0 /\ PriceOf(v) \in Nat
                                /\ report = Known(PriceFindings(PriceOf(v)))
        BY <2>1, <3>1, PriceRead
      <4>2. report.findings = PriceFindings(PriceOf(v))
        BY <4>1 DEF Known
      <4> QED
        BY <4>1, <4>2, PriceFindingsFacts DEF Reports, HasLost
    <3> QED
      BY <2>1, <3>1, ModuleReports DEF AlarmsHaveCause
  <2>2. CASE module = 2
    <3>1. report.findings = LiquidityFindings(got[1], got[3]) /\ got[3] \in BOOLEAN
      BY <2>2, LiquidityRead DEF Known
    <3>2. /\ Reports("idle", 0, "URGENT") => \E v \in Window : v.idle < IdleUrgent
          /\ Reports("idle", 0, "WARN") => \E v \in Window : v.idle < IdleWarn
      BY <2>2, <3>1, LiquidityRead, LiquidityFindingsFacts DEF Reports
    <3>3. Reports("exit", 0, "URGENT") =>
            outages > since.outages \/ \E v \in Window : ~v.redeemable \/ v.shares < got[2]
      <4>1. Reports("exit", 0, "URGENT") => ~got[3]
        BY <3>1, LiquidityFindingsFacts DEF Reports
      <4> QED
        BY <2>2, <4>1, LiquidityRead DEF ExitSeen
    <3> QED
      BY <2>2, <3>2, <3>3, ModuleReports DEF AlarmsHaveCause
  <2>3. CASE module = 3
    <3>1. report.findings = DiffVaultState(FieldsRead, AdaptersRead)
      BY <2>3, StateRead DEF Known
    <3>2. ASSUME NEW f \in Fields, Reports("field", f, ChangeSeverity)
          PROVE  \E v \in Window : v.fields[f] # Baseline.fields[f]
      <4>1. FieldsRead[f] # Baseline.fields[f]
        BY <3>1, <3>2, DiffFacts DEF Reports
      <4> QED
        BY <2>3, <4>1, StateRead
    <3>3. ASSUME \A v \in Window : v.adapters = Baseline.adapters
          PROVE  ~Reports("adapters", 0, ChangeSeverity)
      <4>1. IsList(AdaptersRead) /\ IsList(Baseline.adapters)
        BY <2>3, StateRead, VaultMonitorAssumption
      <4>2. Len(AdaptersRead) = Len(Baseline.adapters)
        BY <2>3, <3>3, StateRead
      <4>3. \A i \in 1..Len(AdaptersRead) : AdaptersRead[i] = Baseline.adapters[i]
        BY <2>3, <3>3, StateRead
      <4>4. AdaptersRead = Baseline.adapters
        BY <4>1, <4>2, <4>3, ListEqual
      <4> QED
        BY <3>1, <4>4, DiffFacts DEF Reports
    <3> QED
      BY <2>3, <3>2, <3>3, ModuleReports DEF AlarmsHaveCause
  <2> QED
    BY <2>1, <2>2, <2>3, ModuleReports
<1> QED
  BY <1>1, Invariant, PTL

\* Nothing lasting is overlooked: a danger in every state of the vault a run can
\* have read is in its report, or the run has failed, whichever nodes answered
\* and however far they were behind.
THEOREM DangerSafety == Spec => []LastingDangerReported
<1>1. IInv => LastingDangerReported
  <2> SUFFICES ASSUME IInv, report # None PROVE LastingDangerReported
    BY DEF LastingDangerReported
  <2>1. CASE module = 1
    <3>1. ASSUME SteadySupply, \A v \in Window : HasLost(v, UrgentBPS)
          PROVE  Reports("share_price", 0, "URGENT")
      <4>1. PICK v \in Window : /\ v.totalSupply > 0 /\ PriceOf(v) > 0 /\ PriceOf(v) \in Nat
                                /\ report = Known(PriceFindings(PriceOf(v)))
        BY <2>1, <3>1, PriceRead
      <4>2. report.findings = PriceFindings(PriceOf(v))
        BY <4>1 DEF Known
      <4> QED
        BY <3>1, <4>1, <4>2, PriceFindingsFacts DEF Reports, HasLost
    <3> QED
      BY <2>1, <3>1, ModuleReports DEF LastingDangerReported
  <2>2. CASE module = 2
    <3>1. report.findings = LiquidityFindings(got[1], got[3]) /\ got[3] \in BOOLEAN
      BY <2>2, LiquidityRead DEF Known
    <3>2. (\A v \in Window : v.idle < IdleUrgent) => Reports("idle", 0, "URGENT")
      BY <2>2, <3>1, LiquidityRead, LiquidityFindingsFacts DEF Reports
    <3>3. (\A v \in Window : ~v.redeemable) => Reports("exit", 0, "URGENT")
      <4>1. (\A v \in Window : ~v.redeemable) => ~got[3]
        BY <2>2, LiquidityRead DEF ExitSeen
      <4> QED
        BY <3>1, <4>1, LiquidityFindingsFacts DEF Reports
    <3> QED
      BY <2>2, <3>2, <3>3, ModuleReports DEF LastingDangerReported
  <2>3. CASE module = 3
    <3>1. report.findings = DiffVaultState(FieldsRead, AdaptersRead)
      BY <2>3, StateRead DEF Known
    <3>2. ASSUME NEW f \in Fields, \A v \in Window : v.fields[f] # Baseline.fields[f]
          PROVE  Reports("field", f, ChangeSeverity)
      <4>1. FieldsRead[f] # Baseline.fields[f]
        BY <2>3, <3>2, StateRead
      <4> QED
        BY <3>1, <4>1, DiffFacts DEF Reports
    <3>3. ASSUME NEW i, i \in Nat \ {0}, ~Reports("adapters", 0, ChangeSeverity)
          PROVE  \E v \in Window : AdapterAt(v.adapters, i) = AdapterAt(Baseline.adapters, i)
      <4>1. AdaptersRead = Baseline.adapters
        BY <3>1, <3>3, DiffFacts DEF Reports
      <4>2. \A v \in Window : DOMAIN v.adapters = 1..Len(v.adapters) /\ Len(v.adapters) \in Nat
        BY WindowFacts, VaultMonitorAssumption, ListFacts DEF IInv
      <4>3. DOMAIN Baseline.adapters = 1..Len(Baseline.adapters) /\ Len(Baseline.adapters) \in Nat
        BY VaultMonitorAssumption, ListFacts
      <4>4. CASE i <= Len(Baseline.adapters)
        <5>1. PICK v \in Window : i <= Len(v.adapters) /\ v.adapters[i] = Baseline.adapters[i]
          BY <2>3, <3>3, <4>1, <4>3, <4>4, StateRead
        <5>2. i \in DOMAIN v.adapters /\ i \in DOMAIN Baseline.adapters
          BY <3>3, <4>2, <4>3, <4>4, <5>1
        <5> QED
          BY <5>1, <5>2 DEF AdapterAt
      <4>5. CASE ~(i <= Len(Baseline.adapters))
        <5>1. PICK v \in Window : Len(v.adapters) = Len(Baseline.adapters)
          BY <2>3, <4>1, StateRead
        <5>2. i \notin DOMAIN v.adapters /\ i \notin DOMAIN Baseline.adapters
          BY <4>2, <4>3, <4>5, <5>1
        <5> QED
          BY <5>1, <5>2 DEF AdapterAt
      <4> QED
        BY <4>4, <4>5
    <3>4. \A i \in 1..Max({Len(v.adapters) : v \in Window} \cup {Len(Baseline.adapters)}) :
            i \in Nat \ {0}
      OBVIOUS
    <3> QED
      BY <2>3, <3>2, <3>3, <3>4, ModuleReports DEF LastingDangerReported
  <2> QED
    BY <2>1, <2>2, <2>3, ModuleReports
<1> QED
  BY <1>1, Invariant, PTL
=============================================================================
