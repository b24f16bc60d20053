------------------------ MODULE MorselAggregateProofs ------------------------
(***************************************************************************)
(* Theorems about MorselAggregate for every file, worker count, morsel     *)
(* size and number of failures, and its refinement of AggregateOnce: one   *)
(* lemma for each conjunct of the inductive invariant, and what the        *)
(* invariant implies.                                                      *)
(***************************************************************************)
EXTENDS MorselAggregateInv, FiniteSetTheorems, TLAPS

-----------------------------------------------------------------------------
(***************************************************************************)
(* Facts about the constants and about sequences.                          *)
(***************************************************************************)

(* NewParallelHashAggregate leaves at least one worker and a morsel of at
   least one row group. *)
LEMMA ParametersPositive ==
  /\ NumWorkers \in Nat /\ NumWorkers >= 1
  /\ MorselSize \in Nat /\ MorselSize >= 1
BY ConstantsAssumption DEF NumWorkers, MorselSize

(* A batch is a pair of its row group and its position in it. *)
LEMMA BatchShape ==
  /\ \A b \in Batches : /\ b[1] \in RowGroups
                       /\ b[2] \in 1 .. BlocksOf[b[1]]
                       /\ b = <<b[1], b[2]>>
  /\ \A rg \in RowGroups : \A k \in 1 .. BlocksOf[rg] : <<rg, k>> \in Batches
BY DEF Batches

(* The table has finitely many batches and an aggregate finitely many groups. *)
LEMMA KeysFinite ==
  ASSUME NEW agg
  PROVE  IsFiniteSet(KeysOf(agg)) /\ Cardinality(KeysOf(agg)) \in Nat
<1>1. IsFiniteSet(RowGroups)
  BY FS_Interval, ConstantsAssumption DEF RowGroups
<1>2. \A rg \in RowGroups : IsFiniteSet({rg} \X (1 .. BlocksOf[rg]))
  <2> TAKE rg \in RowGroups
  <2>1. BlocksOf[rg] \in Int
    BY ConstantsAssumption
  <2>2. IsFiniteSet(1 .. BlocksOf[rg])
    BY <2>1, FS_Interval
  <2>3. IsFiniteSet({rg})
    BY Zenon, FS_Singleton
  <2> QED BY Zenon, <2>2, <2>3, FS_Product
<1>3. IsFiniteSet({{rg} \X (1 .. BlocksOf[rg]) : rg \in RowGroups})
  <2> DEFINE f(rg) == {rg} \X (1 .. BlocksOf[rg])
             F == [rg \in RowGroups |-> f(rg)]
             R == {f(rg) : rg \in RowGroups}
  <2>1. F \in Surjection(RowGroups, R)
    BY Zenon DEF Surjection
  <2> QED BY <1>1, <2>1, FS_Surjection, Zenon
<1>4. IsFiniteSet(Batches)
  BY Zenon, <1>2, <1>3, FS_UNION DEF Batches
<1>5. IsFiniteSet({x \in Batches : agg[x] > 0})
  BY <1>4, FS_Subset, Zenon
<1>6. IsFiniteSet({KeysIn[b] : b \in {x \in Batches : agg[x] > 0}})
  <2> DEFINE B == {x \in Batches : agg[x] > 0}
             F == [b \in B |-> KeysIn[b]]
             R == {KeysIn[b] : b \in B}
  <2>1. F \in Surjection(B, R)
    BY Zenon DEF Surjection
  <2> QED BY <1>5, <2>1, FS_Surjection, Zenon
<1>7. \A K \in {KeysIn[b] : b \in {x \in Batches : agg[x] > 0}} : IsFiniteSet(K)
  BY ConstantsAssumption, Zenon
<1> QED BY Zenon, <1>6, <1>7, FS_UNION, FS_CardinalityType DEF KeysOf

(* setup starts exactly numWorkers goroutines. *)
LEMMA GoroutineCount ==
  ASSUME NEW n \in 1 .. MaxSetups
  PROVE  LET C == {g \in Goroutines : g[1] = n}
         IN  IsFiniteSet(C) /\ Cardinality(C) = NumWorkers
<1> DEFINE W == 1 .. NumWorkers
<1>1. {g \in Goroutines : g[1] = n} = {n} \X W
  BY Zenon DEF Goroutines
<1>2. IsFiniteSet(W) /\ Cardinality(W) = NumWorkers
  BY FS_Interval, ParametersPositive
<1>3. IsFiniteSet({n}) /\ Cardinality({n}) = 1
  BY FS_Singleton, Zenon
<1> HIDE DEF W
<1>4. IsFiniteSet({n} \X W) /\ Cardinality({n} \X W) = 1 * NumWorkers
  BY <1>2, <1>3, FS_Product, Zenon
<1> QED BY <1>1, <1>4, ParametersPositive

(* Appending a result that is not there yet. *)
LEMMA AppendMembers ==
  ASSUME NEW S, NEW s \in Seq(S), NEW x \in S
  PROVE  /\ Members(Append(s, x)) = Members(s) \cup {x}
         /\ Len(Append(s, x)) = Len(s) + 1
         /\ Distinct(s) /\ x \notin Members(s) => Distinct(Append(s, x))
<1>1. Members(Append(s, x)) \subseteq Members(s) \cup {x}
  BY DEF Members
<1>2. Members(s) \subseteq Members(Append(s, x))
  <2> SUFFICES ASSUME NEW i \in DOMAIN s PROVE s[i] \in Members(Append(s, x))
    BY Zenon DEF Members
  <2> i \in DOMAIN Append(s, x) /\ Append(s, x)[i] = s[i]
    OBVIOUS
  <2> QED BY Zenon DEF Members
<1>3. x \in Members(Append(s, x))
  <2> Len(s) + 1 \in DOMAIN Append(s, x) /\ Append(s, x)[Len(s) + 1] = x
    OBVIOUS
  <2> QED BY Zenon DEF Members
<1>4. Distinct(s) /\ x \notin Members(s) => Distinct(Append(s, x))
  BY DEF Members, Distinct
<1> QED BY <1>1, <1>2, <1>3, <1>4

(* Taking the first result off a queue. *)
LEMMA TailMembers ==
  ASSUME NEW S, NEW s \in Seq(S), s # <<>>
  PROVE  /\ Members(s) = {Head(s)} \cup Members(Tail(s))
         /\ Len(Tail(s)) = Len(s) - 1 /\ Len(s) >= 1
         /\ Head(s) \in S /\ Tail(s) \in Seq(S)
         /\ Distinct(s) => Distinct(Tail(s)) /\ Head(s) \notin Members(Tail(s))
<1>1. Members(s) \subseteq {Head(s)} \cup Members(Tail(s))
  <2> SUFFICES ASSUME NEW i \in DOMAIN s, i # 1 PROVE s[i] \in Members(Tail(s))
    BY DEF Members
  <2> i - 1 \in DOMAIN Tail(s) /\ Tail(s)[i - 1] = s[i]
    OBVIOUS
  <2> QED BY Zenon DEF Members
<1>2. {Head(s)} \cup Members(Tail(s)) \subseteq Members(s)
  BY DEF Members
<1> QED BY <1>1, <1>2 DEF Members, Distinct

-----------------------------------------------------------------------------
(***************************************************************************)
(* Each conjunct of the invariant is preserved by every step.              *)
(***************************************************************************)

(* Every step keeps the types. *)
LEMMA TypeStep ==
  ASSUME TypeOK, [Next]_vars
  PROVE  TypeOK'
<1>1. CASE Setup
  <2>1. CASE TotalRGs = 0
    BY <1>1, <2>1, ConstantsAssumption DEF TypeOK, Setup, Empty, collector, delegate, output, worker
  <2>2. CASE TotalRGs # 0
    BY <1>1, <2>2, ParametersPositive, ConstantsAssumption DEF TypeOK, Setup, collector, delegate, output, worker
  <2> QED BY <2>1, <2>2, Zenon
<1>2. CASE Receive
  <2>1. Head(ch) \in Goroutines /\ Tail(ch) \in Seq(Goroutines)
    BY <1>2, TailMembers, Zenon DEF TypeOK, Receive
  <2> QED BY SMTT(30), <1>2, <2>1, ParametersPositive DEF TypeOK, Receive, ErrorAfter, Kept, collector, delegate, output, worker
<1>3. CASE SetupFails
  BY <1>3, Zenon DEF TypeOK, SetupFails, collector, delegate, output, worker
<1>4. CASE StartMerge
  BY <1>4, Zenon DEF TypeOK, StartMerge, collector, delegate, output, worker, Empty
<1>5. CASE MergeOne
  <2>1. Head(results) \in Goroutines /\ Tail(results) \in Seq(Goroutines)
    BY <1>5, TailMembers, Zenon DEF TypeOK, MergeOne
  <2>2. merged \in [Batches -> Nat] /\ acc[Head(results)] \in [Batches -> Nat]
    BY SMTT(30), <2>1 DEF TypeOK
  <2>3. merged' \in [Batches -> Nat]
    BY <1>5, <2>2 DEF MergeOne
  <2> QED BY Zenon, <1>5, <2>1, <2>3 DEF TypeOK, MergeOne, collector, delegate, output, worker
<1>6. CASE InstallDelegate
  BY <1>6, Zenon DEF TypeOK, InstallDelegate, OwesEmptyRow, collector, delegate, output, worker
<1>7. CASE NextWithDelegate
  BY <1>7, Zenon DEF TypeOK, NextWithDelegate, collector, delegate, output, worker
<1>8. CASE EmitEmptyGlobal
  <2>1. outPos' \in Nat /\ emitted' \in Nat
    BY <1>8 DEF TypeOK, EmitEmptyGlobal
  <2> QED BY Zenon, <1>8, <2>1 DEF TypeOK, EmitEmptyGlobal, collector, delegate, output, worker
<1>9. CASE EmitRows
  <2>1. Cardinality(KeysOf(merged)) \in Nat
    BY KeysFinite, Zenon
  <2>2. outPos \in Nat /\ emitted \in Nat /\ BlockRows \in Nat
    BY ConstantsAssumption, Zenon DEF TypeOK
  <2>3. outPos' \in Nat /\ emitted' \in Nat
    BY <1>9, <2>1, <2>2 DEF EmitRows, EmitEnd
  <2> QED BY <1>9, <2>3, Zenon DEF TypeOK, EmitRows, collector, delegate, output, worker
<1>10. CASE EmitEOF
  BY <1>10, Zenon DEF TypeOK, EmitEOF, collector, delegate, output, worker
<1>11. ASSUME NEW g \in Goroutines, Claim(g) PROVE TypeOK'
  <2>1. next \in Nat /\ TotalRGs \in Nat
    BY ConstantsAssumption, Zenon DEF TypeOK
  <2>2. next' \in Nat
    BY <1>11, <2>1, ParametersPositive DEF Claim, CursorAfter
  <2>3. CASE next >= TotalRGs
    BY Zenon, <1>11, <2>2, <2>3 DEF TypeOK, Claim, Goto, collector, delegate, output, worker
  <2>4. CASE next < TotalRGs
    <3>1. ClaimStop(next) \in 0 .. TotalRGs /\ next \in 0 .. TotalRGs
      BY <2>1, <2>4, ParametersPositive DEF ClaimStop
    <3>2. next .. ClaimStop(next) - 1 \subseteq RowGroups
      BY <2>1, <3>1 DEF RowGroups
    <3>3. ~(next >= TotalRGs)
      BY <2>1, <2>4
    <3>4. /\ hi' = [hi EXCEPT ![g] = ClaimStop(next)]
          /\ rgIdx' = [rgIdx EXCEPT ![g] = next]
          /\ blk' = [blk EXCEPT ![g] = 1]
          /\ claimed' = [claimed EXCEPT ![g] = @ \cup (next .. ClaimStop(next) - 1)]
      BY <1>11, <3>3, Zenon DEF Claim
    <3>5. hi' \in [Goroutines -> 0 .. TotalRGs] /\ rgIdx' \in [Goroutines -> 0 .. TotalRGs]
      BY <3>1, <3>4, Zenon DEF TypeOK
    <3>6. blk' \in [Goroutines -> Nat \ {0}]
      BY <3>4 DEF TypeOK
    <3>7. claimed' \in [Goroutines -> SUBSET RowGroups]
      BY SMTT(30), <3>2, <3>4 DEF TypeOK
    <3> QED BY Zenon, <1>11, <2>2, <3>3, <3>5, <3>6, <3>7 DEF TypeOK, Claim, Goto, collector, delegate, output, worker
  <2> QED BY <2>1, <2>3, <2>4
<1>12. ASSUME NEW g \in Goroutines, Accumulate(g) PROVE TypeOK'
  <2>1. rgIdx[g] \in RowGroups /\ blk[g] \in 1 .. BlocksOf[rgIdx[g]]
    BY <1>12, ConstantsAssumption DEF TypeOK, Accumulate, RowGroups
  <2>2. <<rgIdx[g], blk[g]>> \in Batches
    BY <2>1, BatchShape, Zenon
  <2>3. acc' \in [Goroutines -> [Batches -> Nat]]
    <3>1. acc' = [acc EXCEPT ![g] = Folded(acc[g], <<rgIdx[g], blk[g]>>)]
      BY <1>12, Zenon DEF Accumulate
    <3>2. acc[g] \in [Batches -> Nat]
      BY Zenon DEF TypeOK
    <3>3. Folded(acc[g], <<rgIdx[g], blk[g]>>) \in [Batches -> Nat]
      BY <2>2, <3>2 DEF Folded
    <3> QED BY Zenon, <3>1, <3>3 DEF TypeOK
  <2>4. blk' \in [Goroutines -> Nat \ {0}]
    BY <1>12 DEF TypeOK, Accumulate
  <2> QED BY Zenon, <1>12, <2>3, <2>4 DEF TypeOK, Accumulate, collector, delegate, output, worker
<1>13. ASSUME NEW g \in Goroutines, NextRowGroup(g) PROVE TypeOK'
  BY SMTT(30), <1>13, ConstantsAssumption DEF TypeOK, NextRowGroup, collector, delegate, output, worker
<1>14. ASSUME NEW g \in Goroutines, EndMorsel(g) PROVE TypeOK'
  BY SMTT(30), <1>14 DEF TypeOK, EndMorsel, collector, delegate, output, worker, Goto
<1>15. ASSUME NEW g \in Goroutines, MorselFails(g) PROVE TypeOK'
  BY SMTT(30), <1>15, ConstantsAssumption DEF TypeOK, MorselFails, Goto, ErrorPath, collector, delegate, output, worker
<1>16. ASSUME NEW g \in Goroutines, Send(g) PROVE TypeOK'
  BY <1>16 DEF TypeOK, Send, collector, delegate, output, worker, Goto
<1>17. CASE UNCHANGED vars
  BY <1>17, Zenon DEF TypeOK, vars, collector, delegate, output, worker
<1> QED
  BY <1>1, <1>2, <1>3, <1>4, <1>5, <1>6, <1>7, <1>8, <1>9, <1>10, <1>11, <1>12, <1>13, <1>14, <1>15, <1>16, <1>17, Zenon
  DEF Next, CallerStep, WorkerStep

(* Between a start of setup and the next one, the calling goroutine touches
   neither the cursor nor the workers. *)
LEMMA CallerFrame ==
  ASSUME CallerStep, ~(Setup /\ TotalRGs # 0)
  PROVE  UNCHANGED <<setups, next, worker>>
<1>1. CASE Setup
  BY <1>1, Zenon DEF Setup, worker
<1>2. CASE ~Setup
  BY <1>2, Zenon DEF CallerStep, Receive, SetupFails, StartMerge, MergeOne, InstallDelegate,
              NextWithDelegate, EmitEmptyGlobal, EmitRows, EmitEOF, worker
<1> QED BY <1>1, <1>2, Zenon

(* A worker touches neither the caller's state nor the operator's. *)
LEMMA WorkerFrame ==
  ASSUME NEW g \in Goroutines, WorkerStep(g)
  PROVE  UNCHANGED <<callerPc, setups, collector, delegate, output>>
BY Zenon DEF WorkerStep, Claim, Accumulate, NextRowGroup, EndMorsel, MorselFails, Send

(* Only a goroutine of the running setup takes steps. *)
LEMMA ActiveIsCurrent ==
  ASSUME IndInv, NEW g \in Goroutines, pc[g] \in {"claim", "drain", "send"}
  PROVE  g \in Current /\ setups > 0 /\ setups \in 1 .. MaxSetups
<1>1. g[1] \in 1 .. MaxSetups /\ setups \in 0 .. MaxSetups /\ MaxSetups \in Nat
  BY ConstantsAssumption, Zenon DEF Goroutines, IndInv, TypeOK
<1>2. ~(g[1] < setups) /\ ~(g[1] > setups)
  BY Zenon DEF IndInv, OtherSetups
<1>3. g[1] = setups
  BY <1>1, <1>2
<1> QED BY <1>1, <1>3 DEF Current

(* A step of one goroutine leaves the others alone. *)
LEMMA OnlyOneMoves ==
  ASSUME TypeOK, NEW g \in Goroutines, WorkerStep(g)
  PROVE  \A h \in Goroutines \ {g} :
           /\ pc'[h] = pc[h]        /\ failed'[h] = failed[h]
           /\ claimed'[h] = claimed[h]  /\ acc'[h] = acc[h]
           /\ hi'[h] = hi[h]  /\ rgIdx'[h] = rgIdx[h]  /\ blk'[h] = blk[h]
BY SMTT(30) DEF TypeOK, WorkerStep, Claim, Accumulate, NextRowGroup, EndMorsel, MorselFails,
                Send, Goto, worker

(* Who may take a step of its own. *)
LEMMA MoverIsCurrent ==
  ASSUME IndInv, NEW g \in Goroutines, WorkerStep(g)
  PROVE  g \in Current /\ setups > 0 /\ setups \in 1 .. MaxSetups /\ Current' = Current
<1>1. pc[g] \in {"claim", "drain", "send"}
  BY Zenon DEF WorkerStep, Claim, Accumulate, NextRowGroup, EndMorsel, MorselFails, Send
<1>2. setups' = setups
  BY WorkerFrame, Zenon
<1> QED BY <1>1, <1>2, ActiveIsCurrent, Zenon DEF Current

(* Once numWorkers results are received, every goroutine has sent its result
   and the channel is empty. *)
LEMMA AllSent ==
  ASSUME IndInv, setups > 0, received = NumWorkers
  PROVE  Sent = Current /\ Len(ch) = 0 /\ \A g \in Current : pc[g] = "sent"
<1>1. setups \in 1 .. MaxSetups /\ Len(ch) \in Nat
  BY ConstantsAssumption DEF IndInv, TypeOK
<1>2. IsFiniteSet(Current) /\ Cardinality(Current) = NumWorkers
  BY <1>1, GoroutineCount, Zenon DEF Current
<1>3. Sent \subseteq Current
  BY Zenon DEF Sent
<1>4. Cardinality(Sent) <= NumWorkers /\ Cardinality(Sent) \in Nat
  BY <1>2, <1>3, FS_Subset, FS_CardinalityType, Zenon
<1>5. NumWorkers + Len(ch) = Cardinality(Sent)
  BY Zenon DEF IndInv, Accounting
<1>6. Len(ch) = 0 /\ Cardinality(Sent) = NumWorkers
  BY <1>1, <1>4, <1>5, ParametersPositive
<1>7. Sent = Current
  BY <1>2, <1>3, <1>6, FS_Subset, Zenon
<1> QED BY <1>6, <1>7, Zenon DEF Sent

(* Goroutines of other setups stay as they are; starting a setup finds the
   goroutines of the one before it finished. *)
LEMMA OtherSetupsStep ==
  ASSUME IndInv, [Next]_vars
  PROVE  OtherSetups'
<1>1. TypeOK /\ OtherSetups
  BY Zenon DEF IndInv
<1>2. CASE Setup /\ TotalRGs # 0
  <2>1. setups > 0 => \A g \in Current : pc[g] = "sent"
    <3> SUFFICES ASSUME setups > 0 PROVE \A g \in Current : pc[g] = "sent"
      BY Zenon
    <3>1. received = NumWorkers
      BY <1>2, Zenon DEF Setup, IndInv, Accounting
    <3> QED BY <3>1, AllSent, Zenon
  <2>2. \A g \in Goroutines : g[1] \in 1 .. MaxSetups
    BY Zenon DEF Goroutines
  <2>3. /\ setups' = setups + 1
        /\ pc' = [g \in Goroutines |-> IF g[1] = setups + 1 THEN "claim" ELSE pc[g]]
        /\ UNCHANGED <<acc, failed, claimed>>
    BY <1>2, Zenon DEF Setup
  <2>4. setups \in Nat /\ MaxSetups \in Nat
    BY <1>1, ConstantsAssumption DEF TypeOK
  <2> SUFFICES ASSUME NEW g \in Goroutines
               PROVE  /\ g[1] < setups' => pc'[g] = "sent"
                      /\ g[1] > setups' => /\ pc'[g] = "off"
                                           /\ ~failed'[g]
                                           /\ claimed'[g] = {}
                                           /\ acc'[g] = Empty
    BY Zenon DEF OtherSetups
  <2>5. CASE g[1] = setups
    BY <2>1, <2>2, <2>3, <2>4, <2>5 DEF Current
  <2>6. CASE g[1] < setups
    BY <1>1, <2>2, <2>3, <2>4, <2>6 DEF OtherSetups
  <2>7. CASE g[1] > setups
    BY <1>1, <2>2, <2>3, <2>4, <2>7 DEF OtherSetups
  <2> QED BY <2>2, <2>4, <2>5, <2>6, <2>7
<1>3. CASE CallerStep /\ ~(Setup /\ TotalRGs # 0)
  BY <1>1, <1>3, CallerFrame, Zenon DEF OtherSetups, worker
<1>4. ASSUME NEW g \in Goroutines, WorkerStep(g) PROVE OtherSetups'
  <2>1. g[1] = setups /\ setups' = setups
    BY <1>4, MoverIsCurrent, WorkerFrame, Zenon DEF Current
  <2>2. setups \in Nat
    BY <1>1, ConstantsAssumption DEF TypeOK
  <2> QED BY <1>1, <1>4, <2>1, <2>2, OnlyOneMoves DEF OtherSetups
<1>5. CASE UNCHANGED vars
  BY <1>1, <1>5, Zenon DEF OtherSetups, vars, worker
<1> QED BY <1>2, <1>3, <1>4, <1>5, Zenon DEF Next, CallerStep

(* What a successful claim does. *)
LEMMA ClaimTakes ==
  ASSUME IndInv, NEW g \in Goroutines, Claim(g), next < TotalRGs
  PROVE  /\ next \in Nat /\ ClaimStop(next) \in Nat
         /\ next < ClaimStop(next) /\ ClaimStop(next) <= TotalRGs
         /\ ClaimStop(next) <= next + MorselSize
         /\ \A rg \in RowGroups : next <= rg /\ rg < next' => rg < ClaimStop(next)
         /\ claimed'[g] = claimed[g] \cup (next .. ClaimStop(next) - 1)
         /\ hi'[g] = ClaimStop(next) /\ rgIdx'[g] = next /\ blk'[g] = 1
         /\ pc'[g] = "drain" /\ next' = next + MorselSize
<1>1. next \in Nat /\ TotalRGs \in Nat
  BY ConstantsAssumption, Zenon DEF IndInv, TypeOK
<1>2. ~(next >= TotalRGs)
  BY <1>1
<1>3. next' = next + MorselSize
  BY Zenon DEF Claim, CursorAfter
<1>4. /\ ClaimStop(next) \in Nat /\ next < ClaimStop(next) /\ ClaimStop(next) <= TotalRGs
      /\ ClaimStop(next) <= next + MorselSize
      /\ \A rg \in RowGroups : next <= rg /\ rg < next' => rg < ClaimStop(next)
  BY <1>1, <1>3, ParametersPositive DEF ClaimStop, RowGroups
<1>5. /\ hi' = [hi EXCEPT ![g] = ClaimStop(next)]
      /\ rgIdx' = [rgIdx EXCEPT ![g] = next]
      /\ blk' = [blk EXCEPT ![g] = 1]
      /\ claimed' = [claimed EXCEPT ![g] = @ \cup (next .. ClaimStop(next) - 1)]
      /\ pc' = [pc EXCEPT ![g] = "drain"]
  BY <1>2, Zenon DEF Claim, Goto
<1>6. claimed'[g] = claimed[g] \cup (next .. ClaimStop(next) - 1)
  BY <1>5, Zenon DEF IndInv, TypeOK
<1>7. hi'[g] = ClaimStop(next) /\ rgIdx'[g] = next /\ blk'[g] = 1 /\ pc'[g] = "drain"
  BY <1>5, Zenon DEF IndInv, TypeOK
<1> QED BY <1>1, <1>3, <1>4, <1>6, <1>7, Zenon

(* The cursor hands out every row group once. *)
LEMMA ClaimsStep ==
  ASSUME IndInv, [Next]_vars
  PROVE  Claims'
<1>1. TypeOK /\ OtherSetups /\ Claims
  BY Zenon DEF IndInv
<1>2. CASE Setup /\ TotalRGs # 0
  <2>1. next' = 0 /\ setups' = setups + 1 /\ claimed' = claimed /\ setups \in Nat
    BY <1>1, <1>2, ConstantsAssumption DEF Setup, TypeOK
  <2>2. \A g \in Current' : claimed'[g] = {}
    BY <1>1, <2>1 DEF OtherSetups, Current
  <2>3. \A rg \in RowGroups : ~(rg < 0)
    BY DEF RowGroups
  <2> QED BY <2>1, <2>2, <2>3, Zenon DEF Claims, ClaimsDisjoint
<1>3. CASE CallerStep /\ ~(Setup /\ TotalRGs # 0)
  BY <1>1, <1>3, CallerFrame DEF Claims, ClaimsDisjoint, Current, worker
<1>4. ASSUME NEW g \in Goroutines, Claim(g) PROVE Claims'
  <2>1. WorkerStep(g)
    BY <1>4, Zenon DEF WorkerStep
  <2>2. g \in Current /\ Current' = Current /\ setups' = setups /\ setups > 0
    BY <2>1, MoverIsCurrent, WorkerFrame, Zenon
  <2>3. Current \subseteq Goroutines
    BY Zenon DEF Current
  <2>4. \A h \in Current \ {g} : claimed'[h] = claimed[h]
    BY <1>1, <2>1, <2>3, OnlyOneMoves, Zenon
  <2>5. /\ next \in Nat /\ TotalRGs \in Nat /\ next' = next + MorselSize
        /\ \A h \in Current : claimed[h] \subseteq RowGroups
        /\ RowGroups \subseteq Int
    BY <1>1, <1>4, <2>3, ConstantsAssumption DEF TypeOK, Claim, CursorAfter, RowGroups
  <2>6. CASE next >= TotalRGs
    <3>1. claimed' = claimed
      BY <1>4, <2>6, Zenon DEF Claim
    <3>2. \A rg \in RowGroups : rg < next /\ rg < next'
      BY <2>5, <2>6, ParametersPositive DEF RowGroups
    <3> QED BY Zenon, <1>1, <2>2, <2>3, <2>5, <3>1, <3>2 DEF Claims, ClaimsDisjoint
  <2>7. CASE next < TotalRGs
    <3> DEFINE new == next .. ClaimStop(next) - 1
    <3>1. /\ claimed'[g] = claimed[g] \cup new
          /\ \A rg \in RowGroups : next <= rg /\ rg < next' => rg \in new
          /\ \A rg \in new : rg < next' /\ ~(rg < next)
      <4>1. /\ ClaimStop(next) \in Nat /\ ClaimStop(next) <= next + MorselSize
            /\ claimed'[g] = claimed[g] \cup new
            /\ \A rg \in RowGroups : next <= rg /\ rg < next' => rg < ClaimStop(next)
        BY <1>4, <2>5, <2>7, ClaimTakes, Zenon
      <4> QED BY <2>5, <4>1, ParametersPositive
    <3> HIDE DEF new
    <3>2. ClaimsDisjoint'
      BY <1>1, <2>2, <2>4, <3>1 DEF Claims, ClaimsDisjoint
    <3>3. \A h \in Current : \A rg \in claimed'[h] : rg < next'
      <4> SUFFICES ASSUME NEW h \in Current, NEW rg \in claimed'[h] PROVE rg < next'
        BY Zenon
      <4>1. CASE rg \in claimed[h]
        <5>1. rg \in Int /\ rg < next
          BY Zenon, <1>1, <2>5, <4>1 DEF Claims
        <5> QED BY <2>5, <5>1, ParametersPositive
      <4>2. CASE rg \notin claimed[h]
        BY <2>4, <3>1, <4>2, Zenon
      <4> QED BY <4>1, <4>2, Zenon
    <3>4. \A rg \in RowGroups : rg < next' => \E h \in Current : rg \in claimed'[h]
      <4> SUFFICES ASSUME NEW rg \in RowGroups, rg < next'
                   PROVE  \E h \in Current : rg \in claimed'[h]
        BY Zenon
      <4>1. CASE rg < next
        BY <1>1, <2>2, <2>4, <3>1, <4>1, Zenon DEF Claims
      <4>2. CASE next <= rg
        BY <2>2, <3>1, <4>2, Zenon
      <4> QED BY <2>5, <4>1, <4>2
    <3> QED BY <2>2, <3>2, <3>3, <3>4, Zenon DEF Claims
  <2> QED BY <2>5, <2>6, <2>7
<1>5. ASSUME NEW g \in Goroutines, WorkerStep(g), ~Claim(g) PROVE Claims'
  <2>1. UNCHANGED <<next, claimed>>
    BY <1>5, Zenon DEF WorkerStep, Accumulate, NextRowGroup, EndMorsel, MorselFails, Send, worker
  <2>2. UNCHANGED setups
    BY Zenon, <1>5, WorkerFrame
  <2> QED BY <1>1, <2>1, <2>2, Zenon DEF Claims, ClaimsDisjoint, Current
<1>6. CASE UNCHANGED vars
  BY Zenon, <1>1, <1>6 DEF Claims, ClaimsDisjoint, Current, vars, worker
<1> QED BY <1>2, <1>3, <1>4, <1>5, <1>6, Zenon DEF Next, CallerStep, WorkerStep

-----------------------------------------------------------------------------

(* Within a setup the cursor only moves forward. *)
LEMMA CursorGrows ==
  ASSUME TypeOK, NEW g \in Goroutines, WorkerStep(g)
  PROVE  next \in Nat /\ next' \in Nat /\ next <= next'
<1>1. next \in Nat
  BY Zenon DEF TypeOK
<1>2. CASE Claim(g)
  BY <1>1, <1>2, ParametersPositive DEF Claim, CursorAfter
<1>3. CASE ~Claim(g)
  BY <1>1, <1>3 DEF WorkerStep, Accumulate, NextRowGroup, EndMorsel, MorselFails, Send
<1> QED BY <1>2, <1>3, Zenon

(* The goroutine that claims starts its range with nothing accumulated. *)
LEMMA ProgressOfClaim ==
  ASSUME IndInv, NEW g \in Current, Claim(g)
  PROVE  ProgressOf(g)'
<1>1. ProgressOf(g) /\ TypeOK /\ g \in Goroutines
  BY Zenon DEF IndInv, Progress, Current
<1>2. pc[g] = "claim" /\ acc' = acc /\ failed' = failed /\ ~failed[g]
  BY <1>1, Zenon DEF Claim, ProgressOf
<1>3. next \in Nat /\ TotalRGs \in Nat /\ next' = next + MorselSize
  BY <1>1, ConstantsAssumption, Zenon DEF TypeOK, Claim, CursorAfter
<1>4. \A b \in Batches : acc[g][b] = IF b[1] \in claimed[g] THEN 1 ELSE 0
  BY <1>1, <1>2, Zenon DEF ProgressOf, Undone
<1>5. CASE next >= TotalRGs
  <2>1. pc' = [pc EXCEPT ![g] = "send"] /\ claimed' = claimed
    BY <1>5, Zenon DEF Claim, Goto
  <2>2. pc'[g] = "send"
    BY <1>1, <2>1, Zenon DEF TypeOK
  <2>3. next' >= TotalRGs
    BY <1>3, <1>5, ParametersPositive
  <2> QED BY <1>2, <1>4, <2>1, <2>2, <2>3, Zenon DEF ProgressOf, Undone
<1>6. CASE next < TotalRGs
  <2>1. /\ ClaimStop(next) \in Nat /\ next < ClaimStop(next)
        /\ claimed'[g] = claimed[g] \cup (next .. ClaimStop(next) - 1)
        /\ hi'[g] = ClaimStop(next) /\ rgIdx'[g] = next /\ blk'[g] = 1
        /\ pc'[g] = "drain"
    BY <1>1, <1>6, ClaimTakes, Zenon
  <2>2. ASSUME NEW b \in Batches
        PROVE  acc'[g][b] = IF b[1] \in claimed'[g] /\ b \notin Undone(g)' THEN 1 ELSE 0
    <3>1. b[1] \in Nat /\ b[2] \in Nat /\ b[2] >= 1
      BY BatchShape, ConstantsAssumption DEF RowGroups
    <3>2. CASE b[1] \in claimed[g]
      <4>1. b[1] < next
        BY <3>2, Zenon DEF IndInv, Claims
      <4>2. b \notin Undone(g)'
        BY <1>3, <2>1, <3>1, <4>1 DEF Undone
      <4> QED BY <1>2, <1>4, <2>1, <3>2, <4>2, Zenon
    <3>3. CASE b[1] \notin claimed[g]
      <4>1. b[1] \in claimed'[g] => b \in Undone(g)'
        BY <1>3, <2>1, <3>1, <3>3 DEF Undone
      <4> QED BY <1>2, <1>4, <3>3, <4>1, Zenon
    <3> QED BY <3>2, <3>3, Zenon
  <2>3. rgIdx'[g] <= hi'[g] /\ rgIdx'[g] .. hi'[g] - 1 \subseteq claimed'[g]
    BY <1>3, <2>1
  <2> QED BY <1>2, <2>1, <2>2, <2>3, Zenon DEF ProgressOf
<1> QED BY <1>3, <1>5, <1>6

(* Accumulating a batch makes it the one batch that is no longer undone. *)
LEMMA ProgressOfAccumulate ==
  ASSUME IndInv, NEW g \in Current, Accumulate(g)
  PROVE  ProgressOf(g)'
<1> DEFINE b0 == <<rgIdx[g], blk[g]>>
<1>1. ProgressOf(g) /\ TypeOK /\ g \in Goroutines
  BY Zenon DEF IndInv, Progress, Current
<1>2. /\ pc[g] = "drain" /\ rgIdx[g] < hi[g] /\ blk[g] <= BlocksOf[rgIdx[g]]
      /\ UNCHANGED <<next, pc, hi, rgIdx, failed, claimed>>
      /\ blk' = [blk EXCEPT ![g] = @ + 1]
      /\ acc' = [acc EXCEPT ![g] = Folded(acc[g], b0)]
  BY Zenon DEF Accumulate
<1>3. /\ rgIdx[g] \in Nat /\ hi[g] \in Nat /\ hi[g] <= TotalRGs /\ TotalRGs \in Nat
      /\ blk[g] \in Nat /\ blk[g] >= 1
  BY <1>1, ConstantsAssumption DEF TypeOK
<1>4. b0 \in Batches /\ b0[1] = rgIdx[g] /\ b0[2] = blk[g]
  <2>1. rgIdx[g] \in RowGroups
    BY <1>2, <1>3 DEF RowGroups
  <2>2. blk[g] \in 1 .. BlocksOf[rgIdx[g]]
    BY <1>2, <1>3, <2>1, ConstantsAssumption
  <2> QED BY <2>1, <2>2, BatchShape, Zenon
<1>5. blk'[g] = blk[g] + 1 /\ acc'[g] = Folded(acc[g], b0) /\ acc[g] \in [Batches -> Nat]
  BY <1>1, <1>2, Zenon DEF TypeOK
<1>6. ~failed[g] /\ rgIdx[g] \in claimed[g]
  BY <1>1, <1>2, <1>3 DEF ProgressOf
<1>7. b0 \in Undone(g) /\ b0 \notin Undone(g)'
  BY <1>2, <1>3, <1>4, <1>5 DEF Undone
<1>8. ASSUME NEW b \in Batches, b # b0
      PROVE  b \in Undone(g)' <=> b \in Undone(g)
  <2>1. /\ b[1] \in Nat /\ b[2] \in Nat
        /\ ~(b[1] = rgIdx[g] /\ b[2] = blk[g])
    BY <1>8, BatchShape, ConstantsAssumption DEF RowGroups
  <2> QED BY <1>2, <1>3, <1>5, <2>1 DEF Undone
<1>9. ASSUME NEW b \in Batches
      PROVE  acc'[g][b] = IF b[1] \in claimed'[g] /\ b \notin Undone(g)' THEN 1 ELSE 0
  <2>1. acc[g][b] = IF b[1] \in claimed[g] /\ b \notin Undone(g) THEN 1 ELSE 0
    BY <1>1, <1>6, Zenon DEF ProgressOf
  <2>2. CASE b = b0
    BY <1>2, <1>4, <1>5, <1>6, <1>7, <2>1, <2>2 DEF Folded
  <2>3. CASE b # b0
    BY <1>2, <1>5, <1>8, <2>1, <2>3, Zenon DEF Folded
  <2> QED BY <2>2, <2>3, Zenon
<1> QED BY <1>1, <1>2, <1>6, <1>9, Zenon DEF ProgressOf

(* Moving past an exhausted row group leaves the same batches undone. *)
LEMMA ProgressOfNextRowGroup ==
  ASSUME IndInv, NEW g \in Current, NextRowGroup(g)
  PROVE  ProgressOf(g)'
<1>1. ProgressOf(g) /\ TypeOK /\ g \in Goroutines
  BY Zenon DEF IndInv, Progress, Current
<1>2. /\ pc[g] = "drain" /\ rgIdx[g] < hi[g] /\ blk[g] > BlocksOf[rgIdx[g]]
      /\ UNCHANGED <<next, pc, hi, failed, claimed, acc>>
      /\ blk' = [blk EXCEPT ![g] = 1] /\ rgIdx' = [rgIdx EXCEPT ![g] = @ + 1]
  BY Zenon DEF NextRowGroup
<1>3. rgIdx[g] \in Nat /\ hi[g] \in Nat /\ blk[g] \in Nat
  BY <1>1, ConstantsAssumption DEF TypeOK
<1>4. blk'[g] = 1 /\ rgIdx'[g] = rgIdx[g] + 1
  BY <1>1, <1>2, Zenon DEF TypeOK
<1>5. ASSUME NEW b \in Batches PROVE b \in Undone(g)' <=> b \in Undone(g)
  <2>1. /\ b[1] \in Nat /\ b[2] \in Nat /\ b[2] >= 1
        /\ b[1] = rgIdx[g] => b[2] < blk[g]
    <3>1. b[1] \in RowGroups /\ b[2] \in 1 .. BlocksOf[b[1]] /\ BlocksOf[b[1]] \in Nat
      BY BatchShape, ConstantsAssumption, Zenon
    <3> QED BY <1>2, <1>3, <3>1 DEF RowGroups
  <2> QED BY <1>2, <1>3, <1>4, <2>1 DEF Undone
<1>6. rgIdx'[g] <= hi'[g] /\ rgIdx'[g] .. hi'[g] - 1 \subseteq claimed'[g]
  BY <1>1, <1>2, <1>3, <1>4 DEF ProgressOf
<1> QED BY <1>1, <1>2, <1>5, <1>6, Zenon DEF ProgressOf

(* Every goroutine's partial aggregate stays what its position says. *)
LEMMA ProgressStep ==
  ASSUME IndInv, [Next]_vars
  PROVE  Progress'
<1>1. TypeOK /\ OtherSetups /\ Progress
  BY Zenon DEF IndInv
<1>2. CASE Setup /\ TotalRGs # 0
  <2>1. /\ setups' = setups + 1 /\ setups \in Nat
        /\ UNCHANGED <<failed, claimed, acc>>
        /\ pc' = [g \in Goroutines |-> IF g[1] = setups + 1 THEN "claim" ELSE pc[g]]
    BY <1>1, <1>2, ConstantsAssumption DEF Setup, TypeOK
  <2>2. ASSUME NEW g \in Current' PROVE ProgressOf(g)'
    <3>1. g \in Goroutines /\ g[1] = setups + 1
      BY <2>1, <2>2, Zenon DEF Current
    <3>2. pc'[g] = "claim" /\ ~failed'[g] /\ claimed'[g] = {} /\ acc'[g] = Empty
      BY <1>1, <2>1, <3>1 DEF OtherSetups
    <3> QED BY <3>2, Zenon DEF ProgressOf, Undone, Empty
  <2> QED BY <2>2, Zenon DEF Progress
<1>3. CASE CallerStep /\ ~(Setup /\ TotalRGs # 0)
  BY <1>1, <1>3, CallerFrame DEF Progress, ProgressOf, Undone, Current, worker
<1>4. ASSUME NEW g \in Goroutines, WorkerStep(g) PROVE Progress'
  <2>1. g \in Current /\ Current' = Current /\ Current \subseteq Goroutines
    BY <1>4, MoverIsCurrent, Zenon DEF Current
  <2>2. ASSUME NEW h \in Current, h # g PROVE ProgressOf(h)'
    <3>1. next' >= TotalRGs \/ ~(next >= TotalRGs)
      BY <1>1, <1>4, CursorGrows, ConstantsAssumption
    <3>2. /\ pc'[h] = pc[h] /\ failed'[h] = failed[h] /\ claimed'[h] = claimed[h]
          /\ acc'[h] = acc[h] /\ hi'[h] = hi[h] /\ rgIdx'[h] = rgIdx[h] /\ blk'[h] = blk[h]
      BY <1>1, <1>4, <2>1, <2>2, OnlyOneMoves, Zenon
    <3>3. Undone(h)' = Undone(h)
      BY <3>2, Zenon DEF Undone
    <3>4. ProgressOf(h)
      BY <1>1, Zenon DEF Progress
    <3> QED BY <3>1, <3>2, <3>3, <3>4, Zenon DEF ProgressOf
  <2>3. ProgressOf(g)'
    <3>0. ProgressOf(g)
      BY <1>1, <2>1, Zenon DEF Progress
    <3>1. CASE Claim(g)
      BY <2>1, <3>1, ProgressOfClaim, Zenon
    <3>2. CASE Accumulate(g)
      BY <2>1, <3>2, ProgressOfAccumulate, Zenon
    <3>3. CASE NextRowGroup(g)
      BY <2>1, <3>3, ProgressOfNextRowGroup, Zenon
    <3>4. CASE EndMorsel(g)
      <4>1. /\ pc[g] = "drain" /\ rgIdx[g] >= hi[g] /\ pc'[g] = "claim"
            /\ UNCHANGED <<next, failed, claimed, acc>>
        BY <1>1, <3>4, Zenon DEF EndMorsel, Goto, TypeOK
      <4>2. rgIdx[g] \in Nat /\ hi[g] \in Nat
        BY <1>1, ConstantsAssumption DEF TypeOK
      <4>3. \A b \in Batches : b[1] \in Int
        BY BatchShape DEF RowGroups
      <4>4. Undone(g) = {} /\ Undone(g)' = {}
        BY <4>1, <4>2, <4>3 DEF Undone
      <4> QED BY <3>0, <4>1, <4>4, Zenon DEF ProgressOf
    <3>5. CASE MorselFails(g)
      <4>1. pc'[g] = "send" /\ failed'[g]
        BY <1>1, <3>5, Zenon DEF MorselFails, Goto, ErrorPath, TypeOK
      <4> QED BY <4>1, Zenon DEF ProgressOf
    <3>6. CASE Send(g)
      <4>1. pc[g] = "send" /\ pc'[g] = "sent" /\ UNCHANGED <<next, failed, claimed, acc>>
        BY <1>1, <3>6, Zenon DEF Send, Goto, TypeOK
      <4>2. Undone(g) = {} /\ Undone(g)' = {}
        BY <4>1, Zenon DEF Undone
      <4> QED BY <3>0, <4>1, <4>2, Zenon DEF ProgressOf
    <3> QED BY <1>4, <3>1, <3>2, <3>3, <3>4, <3>5, <3>6, Zenon DEF WorkerStep
  <2> QED BY <2>1, <2>2, <2>3, Zenon DEF Progress
<1>5. CASE UNCHANGED vars
  BY <1>1, <1>5, Zenon DEF Progress, ProgressOf, Undone, Current, vars, worker
<1> QED BY <1>2, <1>3, <1>4, <1>5, Zenon DEF Next, CallerStep

(* Results sent, buffered and received add up. *)
LEMMA AccountingStep ==
  ASSUME IndInv, [Next]_vars
  PROVE  Accounting'
<1>1. TypeOK /\ OtherSetups /\ Progress /\ Accounting
  BY Zenon DEF IndInv
<1>2. CASE Setup /\ TotalRGs # 0
  <2>1. /\ received' = 0 /\ ch' = <<>> /\ results' = <<>> /\ callerPc' = "collect"
        /\ setups' = setups + 1
        /\ pc' = [g \in Goroutines |-> IF g[1] = setups + 1 THEN "claim" ELSE pc[g]]
    BY <1>2, Zenon DEF Setup
  <2>2. Sent' = {}
    BY <2>1, Zenon DEF Sent, Current
  <2>3. Cardinality(Sent') = 0
    BY <2>2, FS_EmptySet, Zenon
  <2> QED BY <2>1, <2>3 DEF Accounting, Members, Distinct
<1>3. ASSUME CallerStep, ~(Setup /\ TotalRGs # 0) PROVE Accounting'
  <2>1. UNCHANGED <<setups, pc>> /\ Sent' = Sent
    BY <1>3, CallerFrame, Zenon DEF worker, Sent, Current
  <2>2. CASE Receive
    <3> DEFINE h == Head(ch)
    <3>1. /\ callerPc = "collect" /\ received' = received + 1 /\ ch' = Tail(ch) /\ ch # <<>>
          /\ callerPc' = "collect"
          /\ results' = results \/ results' = Append(results, h)
      BY <2>2, Zenon DEF Receive, Kept
    <3>2. /\ ch \in Seq(Goroutines) /\ results \in Seq(Goroutines)
          /\ received \in Nat /\ Len(ch) \in Nat
      BY <1>1, ParametersPositive DEF TypeOK
    <3>3. /\ Members(ch) = {h} \cup Members(ch') /\ Len(ch') = Len(ch) - 1
          /\ Distinct(ch') /\ h \notin Members(ch') /\ h \in Goroutines
      BY <1>1, <3>1, <3>2, TailMembers, Zenon DEF Accounting
    <3>4. /\ Members(results') \subseteq Members(results) \cup {h}
          /\ Distinct(results')
      <4>1. h \notin Members(results) /\ Distinct(results)
        BY <1>1, <3>3, Zenon DEF Accounting
      <4>2. /\ Members(Append(results, h)) = Members(results) \cup {h}
            /\ Distinct(Append(results, h))
        BY <3>2, <3>3, <4>1, AppendMembers
      <4> QED BY Zenon, <3>1, <4>1, <4>2
    <3>5. received' + Len(ch') = Cardinality(Sent)
      BY <1>1, <3>1, <3>2, <3>3 DEF Accounting
    <3> QED BY <1>1, <2>1, <3>1, <3>3, <3>4, <3>5, Zenon DEF Accounting
  <2>3. CASE MergeOne
    <3>1. results # <<>> /\ results' = Tail(results) /\ UNCHANGED <<callerPc, received, ch>>
      BY <2>3, Zenon DEF MergeOne
    <3>2. Members(results') \subseteq Members(results) /\ Distinct(results')
      BY <1>1, <3>1, TailMembers DEF TypeOK, Accounting
    <3> QED BY <1>1, <2>1, <3>1, <3>2, Zenon DEF Accounting
  <2>4. CASE ~Receive /\ ~MergeOne
    <3>1. UNCHANGED <<received, results, ch>>
      BY <1>3, <2>4, Zenon DEF CallerStep, Setup, SetupFails, StartMerge, InstallDelegate,
           NextWithDelegate, EmitEmptyGlobal, EmitRows, EmitEOF, collector
    <3>2. callerPc = "collect" => received = NumWorkers
      BY <1>3, <2>4, Zenon DEF CallerStep, Setup, SetupFails, StartMerge, InstallDelegate,
           NextWithDelegate, EmitEmptyGlobal, EmitRows, EmitEOF
    <3> QED BY SMTT(30), <1>1, <2>1, <3>1, <3>2 DEF Accounting
  <2> QED BY <2>2, <2>3, <2>4, Zenon
<1>4. ASSUME NEW g \in Goroutines, WorkerStep(g) PROVE Accounting'
  <2>1. /\ g \in Current /\ setups \in 1 .. MaxSetups
        /\ Current' = Current /\ Current \subseteq Goroutines
        /\ UNCHANGED <<callerPc, setups, received, results>>
    BY SMTT(30), <1>4, MoverIsCurrent, WorkerFrame DEF Current, collector
  <2>2. pc[g] # "sent" /\ g \notin Sent
    BY <1>4, Zenon DEF WorkerStep, Claim, Accumulate, NextRowGroup, EndMorsel, MorselFails, Send, Sent
  <2>3. CASE Send(g)
    <3>1. ch' = Append(ch, g) /\ pc' = [pc EXCEPT ![g] = "sent"]
      BY <2>3, Zenon DEF Send, Goto
    <3>2. Sent' = Sent \cup {g}
      BY <1>1, <2>1, <3>1, Zenon DEF Sent, TypeOK
    <3>3. IsFiniteSet(Sent)
      <4>1. IsFiniteSet(Current)
        BY <2>1, GoroutineCount, Zenon DEF Current
      <4> QED BY <4>1, FS_Subset, Zenon DEF Sent
    <3>4. Cardinality(Sent') = Cardinality(Sent) + 1 /\ Cardinality(Sent) \in Nat
      BY Zenon, <2>2, <3>2, <3>3, FS_AddElement, FS_CardinalityType
    <3>5. ch \in Seq(Goroutines) /\ received \in Nat /\ Len(ch) \in Nat
      BY <1>1, ParametersPositive DEF TypeOK
    <3>6. Members(ch') = Members(ch) \cup {g} /\ Len(ch') = Len(ch) + 1 /\ Distinct(ch')
      BY <1>1, <2>2, <3>1, <3>5, AppendMembers, Zenon DEF Accounting
    <3>7. received' + Len(ch') = Cardinality(Sent')
      BY <1>1, <2>1, <3>4, <3>5, <3>6 DEF Accounting
    <3> QED BY <1>1, <2>1, <2>2, <3>2, <3>6, <3>7, Zenon DEF Accounting
  <2>4. CASE ~Send(g)
    <3>1. ch' = ch /\ pc'[g] # "sent"
      BY SMTT(30), <1>1, <1>4, <2>4 DEF WorkerStep, Claim, Accumulate, NextRowGroup, EndMorsel,
           MorselFails, ErrorPath, Goto, TypeOK
    <3>2. Sent' = Sent
      BY <1>1, <1>4, <2>1, <2>2, <3>1, OnlyOneMoves DEF Sent
    <3> QED BY <1>1, <2>1, <3>1, <3>2, Zenon DEF Accounting
  <2> QED BY <2>3, <2>4, Zenon
<1>5. CASE UNCHANGED vars
  BY <1>1, <1>5, Zenon DEF Accounting, Sent, Current, vars, collector, worker
<1> QED BY <1>2, <1>3, <1>4, <1>5, Zenon DEF Next, CallerStep

(* No goroutine of a finished collection takes a step. *)
LEMMA WorkersOnlyInCollect ==
  ASSUME IndInv, NEW g \in Goroutines, WorkerStep(g)
  PROVE  callerPc = "collect" /\ ~hasDelegate
<1>1. g \in Current /\ setups > 0
  BY SMTT(30), MoverIsCurrent
<1>2. pc[g] # "sent"
  BY Zenon DEF WorkerStep, Claim, Accumulate, NextRowGroup, EndMorsel, MorselFails, Send
<1>3. received # NumWorkers
  BY <1>1, <1>2, AllSent, Zenon
<1>4. callerPc = "collect"
  BY <1>1, <1>3, Zenon DEF IndInv, Accounting
<1> QED BY <1>4, Zenon DEF IndInv, Errors

(* A collection without an error has every goroutine's result. *)
LEMMA CollectedAll ==
  ASSUME IndInv, callerPc = "collect", received = NumWorkers, firstErr = NoErr
  PROVE  /\ Members(results) = Current
         /\ \A g \in Current : pc[g] = "sent" /\ ~failed[g]
<1>1. setups > 0
  BY Zenon DEF IndInv, Errors
<1>2. Sent = Current /\ Len(ch) = 0 /\ \A g \in Current : pc[g] = "sent"
  BY <1>1, AllSent, Zenon
<1>3. Members(ch) = {}
  BY <1>2 DEF Members, IndInv, TypeOK
<1>4. Sent \subseteq Members(results) /\ Members(results) \subseteq Sent
  BY <1>3, Zenon DEF IndInv, Errors, Accounting
<1> QED BY Zenon, <1>2, <1>4 DEF IndInv, Errors

(* Errors are kept until setup returns, and only setups without an error
   produce a delegate. *)
LEMMA ErrorsStep ==
  ASSUME IndInv, [Next]_vars
  PROVE  Errors'
<1>1. TypeOK /\ OtherSetups /\ Accounting /\ Errors
  BY Zenon DEF IndInv
<1>2. CASE Setup /\ TotalRGs # 0
  <2>1. /\ callerPc = "idle" /\ ~hasDelegate /\ callerPc' = "collect" /\ setups' = setups + 1
        /\ results' = <<>> /\ firstErr' = NoErr /\ hasDelegate' = hasDelegate
        /\ pc' = [g \in Goroutines |-> IF g[1] = setups + 1 THEN "claim" ELSE pc[g]]
        /\ setups \in Nat
    BY <1>1, <1>2, ConstantsAssumption DEF Setup, delegate, TypeOK
  <2>2. Sent' = {} /\ Members(results') = {} /\ setups' > 0
    BY <2>1 DEF Sent, Current, Members
  <2> QED BY <1>2, <2>1, <2>2, Zenon DEF Errors
<1>3. CASE Setup /\ TotalRGs = 0
  <2>1. /\ callerPc = "idle" /\ hasDelegate' /\ callerPc' = "emit"
        /\ UNCHANGED <<setups, results, firstErr, pc, failed, ret>>
    BY <1>3, Zenon DEF Setup, collector
  <2>2. Current = {}
    BY <1>1, <1>3, ConstantsAssumption DEF Errors, Current, Goroutines
  <2> QED BY <1>1, <1>3, <2>1, <2>2, Zenon DEF Errors, Sent, Current
<1>4. ASSUME CallerStep, ~Setup PROVE Errors'
  <2>1. UNCHANGED <<setups, pc, failed>> /\ Sent' = Sent /\ Current' = Current
    BY <1>4, CallerFrame, Zenon DEF worker, Sent, Current
  <2>2. CASE Receive
    <3> DEFINE h == Head(ch)
    <3>1. /\ callerPc = "collect" /\ ch' = Tail(ch) /\ ch # <<>>
          /\ results' = IF failed[h] THEN results ELSE Append(results, h)
          /\ firstErr' = IF failed[h] /\ firstErr = NoErr THEN h ELSE firstErr
          /\ UNCHANGED <<callerPc, hasDelegate>>
      BY <2>2, Zenon DEF Receive, Kept, ErrorAfter, delegate
    <3>2. ch \in Seq(Goroutines) /\ results \in Seq(Goroutines)
      BY <1>1, Zenon DEF TypeOK
    <3>3. Members(ch) = {h} \cup Members(ch') /\ h \in Goroutines /\ h \in Sent
      BY <1>1, <3>1, <3>2, TailMembers DEF Accounting
    <3>4. Members(results') = Members(results) \cup (IF failed[h] THEN {} ELSE {h})
      BY <3>1, <3>2, <3>3, AppendMembers
    <3>5. h # NoErr
      BY <3>3 DEF Goroutines, NoErr
    <3> QED BY <1>1, <2>1, <3>1, <3>3, <3>4, <3>5, Zenon DEF Errors
  <2>3. CASE StartMerge
    <3>1. /\ callerPc = "collect" /\ received = NumWorkers /\ firstErr = NoErr
          /\ callerPc' = "merge" /\ UNCHANGED <<results, firstErr, hasDelegate>>
      BY <2>3, Zenon DEF StartMerge, collector
    <3> QED BY <1>1, <2>1, <3>1, CollectedAll, Zenon DEF Errors
  <2>4. CASE MergeOne
    <3>1. /\ callerPc = "merge" /\ results # <<>> /\ results' = Tail(results)
          /\ UNCHANGED <<callerPc, firstErr, hasDelegate>>
      BY <2>4, Zenon DEF MergeOne
    <3>2. Members(results') \subseteq Members(results)
      BY <1>1, <3>1, TailMembers DEF TypeOK
    <3> QED BY <1>1, <2>1, <3>1, <3>2, Zenon DEF Errors
  <2>5. CASE InstallDelegate
    BY <1>1, <2>1, <2>5, Zenon DEF Errors, InstallDelegate, collector
  <2>6. CASE SetupFails
    BY SMTT(30), <1>1, <2>1, <2>6 DEF Errors, SetupFails, collector, delegate
  <2>7. CASE NextWithDelegate \/ EmitEmptyGlobal \/ EmitRows \/ EmitEOF
    BY SMTT(30), <1>1, <2>1, <2>7 DEF Errors, NextWithDelegate, EmitEmptyGlobal, EmitRows, EmitEOF,
         collector, delegate, output
  <2> QED BY <1>4, <2>2, <2>3, <2>4, <2>5, <2>6, <2>7, Zenon DEF CallerStep
<1>5. ASSUME NEW g \in Goroutines, WorkerStep(g) PROVE Errors'
  <2>1. /\ callerPc = "collect" /\ ~hasDelegate /\ g \in Current
        /\ Current' = Current /\ Current \subseteq Goroutines
        /\ UNCHANGED <<callerPc, setups, results, firstErr, hasDelegate>>
    BY SMTT(30), <1>5, WorkersOnlyInCollect, MoverIsCurrent, WorkerFrame DEF Current, collector, delegate
  <2>2. g \notin Sent
    BY <1>5, Zenon DEF WorkerStep, Claim, Accumulate, NextRowGroup, EndMorsel, MorselFails, Send, Sent
  <2>3. \A h \in Sent : h \in Sent' /\ failed'[h] = failed[h]
    BY <1>1, <1>5, <2>1, <2>2, OnlyOneMoves, Zenon DEF Sent
  <2>4. Sent' \subseteq Sent \cup {g} /\ (~Send(g) => Sent' = Sent /\ ch' = ch)
    <3>1. Sent' \subseteq Sent \cup {g}
      BY Zenon, <1>1, <1>5, <2>1, OnlyOneMoves DEF Sent
    <3>2. ASSUME ~Send(g) PROVE g \notin Sent' /\ ch' = ch
      BY <1>1, <1>5, <3>2, Zenon DEF WorkerStep, Claim, Accumulate, NextRowGroup, EndMorsel,
           MorselFails, ErrorPath, Goto, TypeOK, Sent
    <3> QED BY SMTT(30), <2>3, <3>1, <3>2
  <2>5. Sent \subseteq Members(ch) \cup Members(results)
          => Sent' \subseteq Members(ch') \cup Members(results)
    <3>1. CASE Send(g)
      <4>1. ch' = Append(ch, g) /\ ch \in Seq(Goroutines)
        BY <1>1, <3>1, Zenon DEF Send, TypeOK
      <4>2. Members(ch') = Members(ch) \cup {g}
        BY <4>1, AppendMembers
      <4> QED BY <2>4, <4>2, Zenon
    <3>2. CASE ~Send(g)
      BY SMTT(30), <2>4, <3>2
    <3> QED BY <3>1, <3>2, Zenon
  <2> QED BY <1>1, <2>1, <2>3, <2>5, Zenon DEF Errors, Accounting
<1>6. CASE UNCHANGED vars
  BY <1>1, <1>6, Zenon DEF Errors, Sent, Current, vars, collector, delegate, output, worker
<1> QED BY <1>2, <1>3, <1>4, <1>5, <1>6, Zenon DEF Next, CallerStep

(* The merge loop moves the claims of one goroutine after the other into the
   merged aggregate. *)
LEMMA MergingStep ==
  ASSUME IndInv, [Next]_vars
  PROVE  Merging'
<1>1. TypeOK /\ Claims /\ Progress /\ Accounting /\ Errors /\ Merging
  BY Zenon DEF IndInv
<1>2. CASE Setup
  <2>1. CASE TotalRGs = 0
    <3>1. Batches = {} /\ callerPc' = "emit"
      BY <1>2, <2>1 DEF Setup, Batches, RowGroups
    <3> QED BY <3>1, Zenon DEF Merging
  <2>2. CASE TotalRGs # 0
    BY <1>2, <2>2, Zenon DEF Setup, Merging, delegate
  <2> QED BY <2>1, <2>2, Zenon
<1>3. CASE StartMerge
  <2>1. /\ callerPc = "collect" /\ received = NumWorkers /\ firstErr = NoErr
        /\ merged' = Empty /\ UNCHANGED <<setups, results, hasDelegate>>
    BY <1>3, Zenon DEF StartMerge, collector
  <2>2. Members(results) = Current /\ ~hasDelegate
    BY <1>1, <2>1, CollectedAll, Zenon DEF Errors
  <2> QED BY <2>1, <2>2, Zenon DEF Merging, Empty, Current
<1>4. CASE MergeOne
  <2> DEFINE h == Head(results)
  <2>1. /\ callerPc = "merge" /\ results # <<>> /\ results' = Tail(results) /\ ~hasDelegate
        /\ merged' = [b \in Batches |-> merged[b] + acc[h][b]]
        /\ UNCHANGED <<setups, callerPc, hasDelegate, claimed>>
    BY <1>1, <1>4, Zenon DEF MergeOne, worker, Errors
  <2>2. /\ Members(results) = {h} \cup Members(results') /\ h \notin Members(results')
        /\ h \in Current /\ pc[h] = "sent" /\ ~failed[h]
    <3>1. results \in Seq(Goroutines)
      BY <1>1, Zenon DEF TypeOK
    <3>2. Members(results) = {h} \cup Members(results') /\ h \notin Members(results')
      BY <1>1, <2>1, <3>1, TailMembers, Zenon DEF Accounting
    <3> QED BY <1>1, <3>2, Zenon DEF Accounting, Errors, Sent
  <2>3. \A b \in Batches : acc[h][b] = IF b[1] \in claimed[h] THEN 1 ELSE 0
    BY <1>1, <2>2, Zenon DEF Progress, ProgressOf, Undone
  <2>4. \A g \in Current : g # h => claimed[g] \cap claimed[h] = {}
    BY <1>1, <2>2, Zenon DEF Claims, ClaimsDisjoint
  <2>5. ASSUME NEW b \in Batches
        PROVE  merged'[b] = IF \E g \in Current : g \notin Members(results') /\ b[1] \in claimed[g]
                            THEN 1 ELSE 0
    <3>1. merged[b] = IF \E g \in Current : g \notin Members(results) /\ b[1] \in claimed[g]
                      THEN 1 ELSE 0
      BY <1>1, <2>1, Zenon DEF Merging
    <3>2. merged'[b] = merged[b] + (IF b[1] \in claimed[h] THEN 1 ELSE 0)
      BY <2>1, <2>3, Zenon
    <3>3. CASE b[1] \in claimed[h]
      <4>1. merged[b] = 0
        BY <2>2, <2>4, <3>1, <3>3, Zenon
      <4> QED BY <2>2, <3>2, <3>3, <4>1
    <3>4. CASE b[1] \notin claimed[h]
      BY <2>2, <3>1, <3>2, <3>4
    <3> QED BY <3>3, <3>4, Zenon
  <2> QED BY <2>1, <2>5, Zenon DEF Merging, Current
<1>5. CASE InstallDelegate
  <2>1. callerPc = "merge" /\ results = <<>> /\ callerPc' = "emit" /\ merged' = merged
    BY <1>5, Zenon DEF InstallDelegate
  <2>2. Members(results) = {}
    BY <2>1 DEF Members
  <2>3. next >= TotalRGs
    <3>1. setups > 0 /\ received = NumWorkers /\ setups \in 1 .. MaxSetups
      BY <1>1, <2>1, ConstantsAssumption DEF Errors, Accounting, TypeOK
    <3>2. <<setups, 1>> \in Current
      BY <3>1, ParametersPositive DEF Current, Goroutines
    <3>3. pc[<<setups, 1>>] = "sent" /\ ~failed[<<setups, 1>>]
      BY <1>1, <2>1, <3>1, <3>2, AllSent, Zenon DEF Errors
    <3> QED BY <1>1, <3>2, <3>3, Zenon DEF Progress, ProgressOf
  <2>4. ASSUME NEW b \in Batches PROVE merged[b] = 1
    <3>1. b[1] \in RowGroups /\ b[1] < next
      BY SMTT(30), <1>1, <2>3, BatchShape, ConstantsAssumption DEF RowGroups, TypeOK
    <3>2. \E g \in Current : b[1] \in claimed[g]
      BY <1>1, <2>1, <3>1, Zenon DEF Claims, Errors
    <3> QED BY <1>1, <2>1, <2>2, <3>2, Zenon DEF Merging
  <2> QED BY <2>1, <2>4, Zenon DEF Merging
<1>6. CASE Receive \/ SetupFails
  BY <1>1, <1>6 DEF Merging, Errors, Receive, SetupFails, delegate
<1>7. CASE NextWithDelegate \/ EmitEmptyGlobal \/ EmitRows \/ EmitEOF
  BY <1>1, <1>7 DEF Merging, NextWithDelegate, EmitEmptyGlobal, EmitRows, EmitEOF, delegate
<1>8. ASSUME NEW g \in Goroutines, WorkerStep(g) PROVE Merging'
  <2>1. callerPc = "collect" /\ ~hasDelegate /\ UNCHANGED <<callerPc, hasDelegate>>
    BY <1>8, WorkersOnlyInCollect, WorkerFrame, Zenon DEF delegate
  <2> QED BY <2>1, Zenon DEF Merging
<1>9. CASE UNCHANGED vars
  BY <1>1, <1>9, Zenon DEF Merging, Current, vars, collector, delegate, worker
<1> QED BY <1>2, <1>3, <1>4, <1>5, <1>6, <1>7, <1>8, <1>9, Zenon DEF Next, CallerStep

(* The groups of a complete aggregate. *)
LEMMA CompleteKeys ==
  ASSUME NEW agg, \A b \in Batches : agg[b] = 1
  PROVE  /\ KeysOf(agg) = TableKeys
         /\ Cardinality(TableKeys) \in Nat
         /\ TableKeys # {} <=> Cardinality(TableKeys) # 0
         /\ ~Grouped => TableKeys = {} \/ Cardinality(TableKeys) = 1
<1>1. {x \in Batches : agg[x] > 0} = Batches
  OBVIOUS
<1>2. KeysOf(agg) = TableKeys
  BY <1>1, Zenon DEF KeysOf, TableKeys
<1>3. IsFiniteSet(TableKeys) /\ Cardinality(TableKeys) \in Nat
  BY <1>2, KeysFinite, Zenon
<1>4. TableKeys # {} <=> Cardinality(TableKeys) # 0
  BY <1>3, FS_EmptySet, Zenon
<1>5. ASSUME ~Grouped, TableKeys # {} PROVE Cardinality(TableKeys) = 1
  <2>1. PICK b \in Batches : KeysIn[b] # {}
    BY <1>5, Zenon DEF TableKeys
  <2>2. TableKeys = KeysIn[b]
    BY <1>5, ConstantsAssumption DEF TableKeys
  <2> QED BY <1>5, <2>2, ConstantsAssumption, Zenon
<1> QED BY <1>2, <1>3, <1>4, <1>5, Zenon

(* The rows returned are those of the complete aggregate. *)
LEMMA EmissionStep ==
  ASSUME IndInv, [Next]_vars, Merging'
  PROVE  Emission'
<1>1. TypeOK /\ Errors /\ Merging /\ Emission
  BY Zenon DEF IndInv
<1>2. hasDelegate => /\ KeysOf(merged) = TableKeys
                     /\ Cardinality(TableKeys) \in Nat
                     /\ TableKeys # {} <=> Cardinality(TableKeys) # 0
                     /\ ~Grouped => TableKeys = {} \/ Cardinality(TableKeys) = 1
  BY <1>1, CompleteKeys, Zenon DEF Merging
<1>3. CASE Setup /\ TotalRGs = 0
  <2>1. /\ hasDelegate' /\ pending' = ~Grouped /\ UNCHANGED <<outPos, ret, emitted>>
        /\ ~hasDelegate
    BY <1>3, Zenon DEF Setup
  <2>2. TableKeys = {}
    BY <1>3 DEF TableKeys, Batches, RowGroups
  <2>3. Cardinality(TableKeys) = 0
    BY <2>2, FS_EmptySet, Zenon
  <2>4. outPos' = 0 /\ emitted' = 0 /\ ret' \in {"none", "err"} /\ 0 <= Cardinality(TableKeys)
    BY <1>1, <2>1, <2>3 DEF Emission
  <2>5. CASE Grouped
    BY Zenon, <2>1, <2>4, <2>5 DEF Emission
  <2>6. CASE ~Grouped
    BY Zenon, <2>1, <2>2, <2>4, <2>6 DEF Emission
  <2> QED BY <2>5, <2>6, Zenon
<1>4. CASE InstallDelegate
  <2>1. /\ hasDelegate' /\ merged' = merged /\ ~hasDelegate /\ UNCHANGED <<outPos, ret, emitted>>
        /\ pending' = (KeysOf(merged) = {} /\ ~Grouped)
    BY <1>1, <1>4, Zenon DEF InstallDelegate, OwesEmptyRow, Errors
  <2>2. \A b \in Batches : merged[b] = 1
    BY <2>1, Zenon DEF Merging
  <2>3. /\ KeysOf(merged) = TableKeys
        /\ Cardinality(TableKeys) \in Nat
        /\ ~Grouped => TableKeys = {} \/ Cardinality(TableKeys) = 1
    BY <2>2, CompleteKeys, Zenon
  <2>4. outPos' = 0 /\ emitted' = 0 /\ ret' \in {"none", "err"} /\ 0 <= Cardinality(TableKeys)
    BY <1>1, <2>1, <2>3 DEF Emission
  <2>5. CASE TableKeys = {} /\ ~Grouped
    BY Zenon, <2>1, <2>3, <2>4, <2>5 DEF Emission
  <2>6. CASE ~(TableKeys = {} /\ ~Grouped)
    <3>1. ~pending' /\ (Grouped \/ Cardinality(TableKeys) = 1)
      BY Zenon, <2>1, <2>3, <2>6
    <3> QED BY <2>1, <2>4, <3>1, Zenon DEF Emission
  <2> QED BY <2>5, <2>6, Zenon
<1>5. CASE EmitEmptyGlobal
  <2>1. /\ pending /\ ~pending' /\ outPos' = 1 /\ emitted' = emitted + 1 /\ ret' = "rows"
        /\ hasDelegate /\ hasDelegate' = hasDelegate
    BY <1>1, <1>5, Zenon DEF EmitEmptyGlobal, Errors, delegate
  <2>2. TableKeys = {} /\ ~Grouped /\ emitted' = 1
    BY <1>1, <2>1 DEF Emission
  <2> QED BY <2>1, <2>2, Zenon DEF Emission
<1>6. CASE EmitRows
  <2>1. /\ ~pending /\ ~pending' /\ outPos < Cardinality(TableKeys) /\ ret' = "rows"
        /\ hasDelegate /\ hasDelegate' = hasDelegate
        /\ outPos' = EmitEnd /\ emitted' = emitted + (EmitEnd - outPos)
    BY <1>1, <1>2, <1>6, Zenon DEF EmitRows, Errors, delegate
  <2>2. EmitEnd \in Nat /\ EmitEnd <= Cardinality(TableKeys)
    BY <1>1, <1>2, <2>1, ConstantsAssumption DEF EmitEnd, TypeOK
  <2>3. emitted = outPos /\ (Grouped \/ Cardinality(TableKeys) = 1) /\ outPos \in Nat
    BY <1>1, <1>2, <2>1 DEF Emission, TypeOK
  <2>4. emitted' = outPos'
    BY <2>1, <2>2, <2>3
  <2> QED BY <2>1, <2>2, <2>3, <2>4, Zenon DEF Emission
<1>7. CASE EmitEOF
  BY <1>1, <1>2, <1>7, Zenon DEF EmitEOF, Emission, Errors, delegate
<1>8. CASE SetupFails
  BY <1>1, <1>8, Zenon DEF SetupFails, Emission, Errors, delegate
<1>9. CASE (Setup /\ TotalRGs # 0) \/ Receive \/ StartMerge \/ MergeOne \/ NextWithDelegate
  BY <1>1, <1>9 DEF Setup, Receive, StartMerge, MergeOne, NextWithDelegate, Emission, delegate,
       output
<1>10. ASSUME NEW g \in Goroutines, WorkerStep(g) PROVE Emission'
  BY <1>1, <1>10, WorkerFrame, Zenon DEF Emission, delegate, output
<1>11. CASE UNCHANGED vars
  BY <1>1, <1>11, Zenon DEF Emission, vars, delegate, output
<1> QED BY <1>3, <1>4, <1>5, <1>6, <1>7, <1>8, <1>9, <1>10, <1>11, Zenon DEF Next, CallerStep

(* The invariant holds initially. *)
LEMMA InitInv == Init => IndInv
<1> SUFFICES ASSUME Init PROVE IndInv
  BY Zenon
<1>1. TypeOK
  <2>1. 0 \in 0 .. MaxSetups /\ 0 \in 0 .. NumWorkers /\ 0 \in 0 .. TotalRGs /\ 0 \in 0 .. MaxFaults
    BY ParametersPositive, ConstantsAssumption
  <2>2. Empty \in [Batches -> Nat] /\ 1 \in Nat \ {0}
    BY DEF Empty
  <2>3. <<>> \in Seq(Goroutines)
    OBVIOUS
  <2>4. /\ acc \in [Goroutines -> [Batches -> Nat]] /\ merged \in [Batches -> Nat]
        /\ claimed \in [Goroutines -> SUBSET RowGroups]
        /\ hi \in [Goroutines -> 0 .. TotalRGs] /\ rgIdx \in [Goroutines -> 0 .. TotalRGs]
        /\ blk \in [Goroutines -> Nat \ {0}]
    BY <2>1, <2>2, Zenon DEF Init
  <2> QED BY Zenon, <2>1, <2>3, <2>4 DEF Init, TypeOK
<1>2. Current = {} /\ Sent = {} /\ Cardinality(Sent) = 0
  <2>1. Current = {}
    BY ConstantsAssumption DEF Init, Current, Goroutines
  <2>2. Sent = {}
    BY <2>1, Zenon DEF Sent
  <2> QED BY <2>1, <2>2, FS_EmptySet, Zenon
<1>3. OtherSetups
  BY DEF Init, OtherSetups, Goroutines
<1>4. Claims /\ Progress
  BY <1>2 DEF Init, Claims, ClaimsDisjoint, Progress
<1>5. Accounting
  BY <1>2 DEF Init, Accounting, Members, Distinct
<1>6. Errors
  BY <1>2 DEF Init, Errors, Members
<1>7. Merging /\ Emission
  BY Zenon DEF Init, Merging, Emission
<1> QED BY <1>1, <1>3, <1>4, <1>5, <1>6, <1>7, Zenon DEF IndInv

(* The invariant is inductive. *)
LEMMA StepInv == IndInv /\ [Next]_vars => IndInv'
BY TypeStep, OtherSetupsStep, ClaimsStep, ProgressStep, AccountingStep, ErrorsStep, MergingStep,
   EmissionStep, Zenon DEF IndInv

(* The end of the stream under the invariant. *)
LEMMA EofComplete == IndInv => RowsComplete
<1>1. ASSUME IndInv, ret = "eof"
      PROVE  emitted = ResultRows
  <2>1. /\ hasDelegate /\ ~pending /\ outPos >= Cardinality(TableKeys)
        /\ \/ /\ emitted = outPos
              /\ outPos <= Cardinality(TableKeys)
              /\ Grouped \/ Cardinality(TableKeys) = 1
           \/ TableKeys = {} /\ ~Grouped /\ outPos = 1 /\ emitted = 1
    BY <1>1, Zenon DEF IndInv, Emission
  <2>2. Cardinality(TableKeys) \in Nat /\ outPos \in Nat
    BY <1>1, <2>1, CompleteKeys, Zenon DEF IndInv, Merging, TypeOK
  <2>3. CASE Grouped
    BY <2>1, <2>2, <2>3 DEF ResultRows
  <2>4. CASE ~Grouped
    BY <2>1, <2>2, <2>4 DEF ResultRows
  <2> QED BY <2>3, <2>4, Zenon
<1> QED BY <1>1, Zenon DEF RowsComplete

-----------------------------------------------------------------------------
(***************************************************************************)
(* The theorems.                                                           *)
(***************************************************************************)

(* The inductive invariant holds throughout every execution. *)
THEOREM Invariance == Spec => []IndInv
BY InitInv, StepInv, PTL DEF Spec

(* Every variable of the operator, its goroutines and its channel keeps its
   type. *)
THEOREM TypeCorrect == Spec => []TypeOK
<1>1. IndInv => TypeOK
  BY Zenon DEF IndInv
<1> QED BY <1>1, Invariance, PTL

(* morselQueue.claim never hands a row group to two workers of one setup,
   whatever the number of workers and the morsel size. *)
THEOREM ClaimsAreDisjoint == Spec => []ClaimsDisjoint
<1>1. IndInv => ClaimsDisjoint
  BY Zenon DEF IndInv, Claims
<1> QED BY <1>1, Invariance, PTL

(* setup installs only a delegate that holds every batch of the file exactly
   once. *)
THEOREM DelegateIsComplete == Spec => []ExactlyOnce
<1>1. IndInv => ExactlyOnce
  BY Zenon DEF IndInv, Merging, ExactlyOnce
<1> QED BY <1>1, Invariance, PTL

(* A worker's send on the result channel finds room: the comment "goroutines
   never block on send" holds for every worker count. *)
THEOREM SendsDoNotBlock == Spec => []SendNeverBlocks
<1>1. ASSUME IndInv, NEW g \in Goroutines, pc[g] = "send"
      PROVE  Len(ch) < ChanCap
  <2>1. g \in Current /\ setups \in 1 .. MaxSetups
    BY <1>1, ActiveIsCurrent, Zenon
  <2>2. IsFiniteSet(Current) /\ Cardinality(Current) = NumWorkers
    BY <2>1, GoroutineCount, Zenon DEF Current
  <2>3. Sent \subseteq Current /\ g \notin Sent
    BY <1>1, Zenon DEF Sent
  <2>4. Cardinality(Sent) <= NumWorkers /\ Cardinality(Sent) # NumWorkers
        /\ Cardinality(Sent) \in Nat
    BY <2>1, <2>2, <2>3, FS_Subset, FS_CardinalityType, Zenon
  <2>5. received \in Nat /\ Len(ch) \in Nat /\ received + Len(ch) = Cardinality(Sent)
    BY <1>1, ParametersPositive DEF IndInv, TypeOK, Accounting
  <2> QED BY <2>4, <2>5, ParametersPositive DEF ChanCap
<1>2. IndInv => SendNeverBlocks
  BY <1>1, Zenon DEF SendNeverBlocks
<1> QED BY <1>2, Invariance, PTL

(* An error of any worker leaves the operator without an answer and is the
   error Next returns. *)
THEOREM FailuresAreReported == Spec => []FailureIsReported
<1>1. IndInv => FailureIsReported
  BY Zenon DEF IndInv, Errors, FailureIsReported, Sent
<1> QED BY <1>1, Invariance, PTL

(* At the end of the stream the caller has seen one row per group, or the one
   row of an ungrouped aggregate. *)
THEOREM StreamIsComplete == Spec => []RowsComplete
BY EofComplete, Invariance, PTL

(* The operator with its goroutines implements the operator that has the
   answer at once: every step is a step of AggregateOnce or changes nothing
   the caller of Next can see. *)
THEOREM Implements == Spec => ImplementsAggregateOnce
<1>1. Init => Abstract!Init
  BY Zenon DEF Init, Abstract!Init
<1>2. ASSUME IndInv, IndInv', [Next]_vars
      PROVE  [Abstract!Next]_(Abstract!vars)
  <2>1. TypeOK /\ Errors /\ Merging /\ Emission
    BY <1>2, Zenon DEF IndInv
  <2>2. CASE Setup /\ TotalRGs = 0
    <3>1. ~hasDelegate /\ hasDelegate' /\ merged' = Empty /\ UNCHANGED <<ret, emitted>>
      BY <2>2, Zenon DEF Setup
    <3>2. merged' = [b \in Batches |-> 1]
      BY <2>2, <3>1 DEF Empty, Batches, RowGroups
    <3> QED BY <3>1, <3>2, Zenon DEF Abstract!Next, Abstract!Decide
  <2>3. CASE InstallDelegate
    <3>1. ~hasDelegate /\ hasDelegate' /\ merged' = merged /\ UNCHANGED <<ret, emitted>>
      BY <2>1, <2>3, Zenon DEF InstallDelegate, Errors
    <3>2. merged' \in [Batches -> Nat] /\ \A b \in Batches : merged'[b] = 1
      BY <1>2, <3>1, Zenon DEF IndInv, TypeOK, Merging
    <3>3. merged' = [b \in Batches |-> 1]
      BY <3>2, Zenon
    <3> QED BY <3>1, <3>3, Zenon DEF Abstract!Next, Abstract!Decide
  <2>4. CASE SetupFails
    BY <2>1, <2>4, Zenon DEF SetupFails, Errors, delegate, Abstract!Next, Abstract!Fail
  <2>5. CASE EmitEmptyGlobal
    <3>1. /\ hasDelegate /\ UNCHANGED <<hasDelegate, merged>> /\ ret' = "rows"
          /\ emitted' = emitted + 1 /\ emitted = 0 /\ ~Grouped
      BY <2>1, <2>5, Zenon DEF EmitEmptyGlobal, Errors, Emission, delegate
    <3>2. 1 \in 1 .. BlockRows /\ emitted' <= 1
      BY <3>1, ConstantsAssumption
    <3> QED BY <3>1, <3>2, Zenon DEF Abstract!Next, Abstract!Emit, ResultRows
  <2>6. CASE EmitRows
    <3>1. /\ hasDelegate /\ UNCHANGED <<hasDelegate, merged>> /\ ret' = "rows"
          /\ ~pending /\ outPos < Cardinality(KeysOf(merged))
          /\ emitted' = emitted + (EmitEnd - outPos) /\ outPos' = EmitEnd /\ ~pending'
      BY <2>1, <2>6, Zenon DEF EmitRows, Errors, delegate
    <3>2. KeysOf(merged) = TableKeys /\ Cardinality(TableKeys) \in Nat
      BY <2>1, <3>1, CompleteKeys, Zenon DEF Merging
    <3>3. EmitEnd - outPos \in 1 .. BlockRows
      <4>1. outPos \in Nat /\ BlockRows \in Nat \ {0}
        BY <2>1, ConstantsAssumption, Zenon DEF TypeOK
      <4> QED BY <3>1, <3>2, <4>1 DEF EmitEnd
    <3>4. emitted' <= ResultRows
      <4>1. \/ /\ emitted' = outPos' /\ outPos' <= Cardinality(TableKeys)
               /\ Grouped \/ Cardinality(TableKeys) = 1
            \/ emitted' = 1 /\ ~Grouped
        BY <1>2, <3>1, Zenon DEF IndInv, Emission
      <4>2. CASE Grouped
        BY <4>1, <4>2, Zenon DEF ResultRows
      <4>3. CASE ~Grouped
        BY <3>2, <4>1, <4>3 DEF ResultRows
      <4> QED BY <4>2, <4>3, Zenon
    <3> QED BY <3>1, <3>3, <3>4, Zenon DEF Abstract!Next, Abstract!Emit
  <2>7. CASE EmitEOF
    <3>1. /\ hasDelegate /\ UNCHANGED <<hasDelegate, merged, emitted>> /\ ret' = "eof"
      BY <2>1, <2>7, Zenon DEF EmitEOF, Errors, delegate
    <3>2. IndInv' => RowsComplete'
      BY EofComplete, PTL
    <3> QED BY <1>2, <3>1, <3>2, Zenon DEF RowsComplete, Abstract!Next, Abstract!End
  <2>8. CASE (Setup /\ TotalRGs # 0) \/ Receive \/ StartMerge \/ MergeOne \/ NextWithDelegate
    <3>1. UNCHANGED <<hasDelegate, ret, emitted>> /\ (hasDelegate => merged' = merged)
      BY <2>1, <2>8, Zenon DEF Setup, Receive, StartMerge, MergeOne, NextWithDelegate, Errors,
           delegate, output
    <3> QED BY <3>1, Zenon DEF Abstract!vars
  <2>9. ASSUME NEW g \in Goroutines, WorkerStep(g) PROVE UNCHANGED Abstract!vars
    BY <2>9, WorkerFrame DEF Abstract!vars, delegate, output
  <2>10. CASE UNCHANGED vars
    BY <2>10, Zenon DEF vars, Abstract!vars, delegate, output
  <2> QED BY <1>2, <2>2, <2>3, <2>4, <2>5, <2>6, <2>7, <2>8, <2>9, <2>10, Zenon DEF Next, CallerStep
<1> QED BY <1>1, <1>2, Invariance, PTL DEF Spec, Abstract!Spec, ImplementsAggregateOnce
=============================================================================
