--------------------------- MODULE RadixBuildProofs ---------------------------
(***************************************************************************)
(* Theorems about RadixBuild, for any build side and any number of         *)
(* workers, row groups, partitions and faults: what pass 2 writes, and     *)
(* what the caller gets.                                                   *)
(***************************************************************************)
EXTENDS RadixBuildInv

-----------------------------------------------------------------------------
(***************************************************************************)
(* Pass 2.                                                                 *)
(***************************************************************************)

(* Pass 2 has not started initially. *)
LEMMA Pass2Init == Init => Pass2Inv
<1> SUFFICES ASSUME Init PROVE Pass2Inv
  BY Zenon
<1>1. 0 \in Indices
  BY RowSets DEF Indices
<1>2. NoChains \in [Keys -> Seq(Indices)]
  BY EmptySeq, Zenon DEF NoChains
<1>3. 0 \in Parts /\ 0 \in 0 .. NumMorsels
  BY Constants DEF Parts
<1>4. Pass2Typed
  BY <1>1, <1>2, <1>3, Zenon DEF Init, Pass2Typed, AtMostOne
<1>5. ~Started /\ \A w \in Pass2Workers : pc2[w] = "off"
  BY Zenon DEF Init, Started
<1>6. Phases
  BY <1>5, Zenon DEF Init, Phases
<1>7. Claiming /\ Bucketed /\ Copying /\ Publishing
  BY <1>5, Zenon DEF Claiming, Bucketed, Copying, Publishing
<1> QED BY <1>4, <1>6, <1>7, Zenon DEF Pass2Inv

(* Before pass 2, and when it never starts, nothing of it changes. *)
LEMMA IdleStep ==
  ASSUME Pass2Inv, ~Started, ~Started', UNCHANGED pass2,
         callerPc' \in {"pass1", "pass2"} => result' = "none"
  PROVE  Pass2Inv'
<1>1. UNCHANGED <<counts, offsets, pc2, part, mi, kr, dst, tbl, store, parts>>
  BY Zenon DEF pass2
<1>2. Pass2Typed'
  BY <1>1, Zenon DEF Pass2Inv, Pass2Typed
<1>3. \A w \in Pass2Workers : pc2'[w] = "off"
  BY <1>1, Zenon DEF Pass2Inv, Phases
<1>4. result' # "ok"
  BY Zenon DEF Started
<1>5. Phases'
  BY <1>1, <1>4, Zenon DEF Pass2Inv, Phases
<1>6. Claiming' /\ Bucketed' /\ Copying' /\ Publishing'
  BY <1>3, Zenon DEF Claiming, Bucketed, Copying, Publishing
<1> QED BY <1>2, <1>5, <1>6, Zenon DEF Pass2Inv

(* A step that only concerns the caller. *)
LEMMA SameStep ==
  ASSUME Pass2Inv, UNCHANGED <<cursor, buckets, pass2>>, Started' <=> Started,
         callerPc' \in {"pass1", "pass2"} => result' = "none",
         result' = "ok" => \A w \in Pass2Workers : pc2[w] = "done"
  PROVE  Pass2Inv'
<1>1. UNCHANGED <<cursor, buckets, counts, offsets, pc2, part, mi, kr, dst, tbl, store, parts>>
  BY Zenon DEF pass2
<1>2. Pass2Typed'
  BY <1>1, Zenon DEF Pass2Inv, Pass2Typed
<1>3. Phases'
  BY <1>1, Zenon DEF Pass2Inv, Phases
<1>4. \A w, p : Copies(w, p)' <=> Copies(w, p)
  BY <1>1, Zenon DEF Copies
<1>5. Claiming'
  BY <1>1, <1>4, Zenon DEF Pass2Inv, Claiming
<1>6. Bucketed'
  BY <1>1, <1>4, Zenon DEF Pass2Inv, Bucketed
<1>7. \A w : CopyingOf(w)' <=> CopyingOf(w)
  BY <1>1 DEF CopyingOf, Copied, BucketRows
<1>8. Copying'
  BY <1>1, <1>7, Zenon DEF Pass2Inv, Copying
<1>9. Publishing'
  BY <1>1, Zenon DEF Pass2Inv, Publishing
<1> QED BY <1>2, <1>3, <1>5, <1>6, <1>8, <1>9, Zenon DEF Pass2Inv

(* When pass 1 ends without an error, every bucket is filed. *)
LEMMA Pass1Complete ==
  ASSUME Channel, Pass1Inv, callerPc = "pass1",
         received = Cardinality(Pass1Workers), firstErr = "nil"
  PROVE  AllFiled
<1>1. \A w \in Pass1Workers : pc[w] = "sent" /\ err[w] = "nil"
  BY AllReceived, Zenon
<1>2. PICK w \in Pass1Workers : TRUE
  BY Constants, Zenon
<1>3. cursor >= TotalRGs
  BY <1>1, <1>2, Zenon DEF Pass1Inv, Filing
<1>4. cursor \in Nat /\ TotalRGs \in Nat /\ MorselSize \in Nat
  BY Constants, Zenon DEF Pass1Inv, Pass1Typed
<1>5. ASSUME NEW m \in Morsels PROVE buckets[m] # {}
  <2>1. m \in Nat /\ m * MorselSize < TotalRGs
    BY MorselBegins, Constants DEF Morsels
  <2>2. m * MorselSize < cursor
    <3>1. m * MorselSize \in Nat
      BY <1>4, <2>1
    <3> QED BY <1>3, <1>4, <2>1, <3>1
  <2> QED BY <1>1, <2>2, Zenon DEF Pass1Inv, Filing
<1>6. \A m \in Morsels : AtMostOne(buckets[m])
  BY Zenon DEF Pass1Inv, Pass1Typed
<1>7. \A m \in Morsels : \A b \in buckets[m] : \A p \in Parts : Serial(b[p], MorselRows(m, p))
  BY Zenon DEF Pass1Inv, Filing
<1> QED BY <1>5, <1>6, <1>7, Zenon DEF AllFiled

(* Pass 2 starts with an empty store of the right size. *)
LEMMA StartPass2Step ==
  ASSUME IndInv, StartPass2
  PROVE  Pass2Inv'
<1>1. callerPc = "pass1" /\ result = "none" /\ ~Started
  BY Zenon DEF StartPass2, IndInv, Pass2Inv, Phases, Started
<1>2. CASE Total > maxBuildRows
  <2>1. result' = "overflow" /\ callerPc' = "returned" /\ UNCHANGED pass2
    BY <1>2, Zenon DEF StartPass2
  <2>2. ~Started'
    BY <2>1, Zenon DEF Started
  <2> QED BY <1>1, <2>1, <2>2, IdleStep, Zenon DEF IndInv
<1>3. CASE ~(Total > maxBuildRows)
  <2>1. /\ counts' = [p \in Parts |-> CountOf(p)] /\ offsets' = [p \in Parts |-> OffsetOf(p)]
        /\ store' = [d \in 0 .. Total - 1 |-> {}] /\ cursor' = 0
        /\ pc2' = [w \in Pass2Workers |-> "claim"] /\ callerPc' = "pass2"
        /\ UNCHANGED <<part, mi, kr, dst, tbl, parts, result, buckets>>
    BY <1>3, Zenon DEF StartPass2
  <2>2. AllFiled
    BY Pass1Complete, Zenon DEF StartPass2, IndInv
  <2>3. /\ \A p \in Parts : CountOf(p) = Cardinality(PartRows(p)) /\ OffsetOf(p) = First(p)
        /\ Total = First(NumParts)
    BY <2>2, Counted, Zenon
  <2>4. \A p \in Parts : /\ counts'[p] = Cardinality(PartRows(p)) /\ offsets'[p] = First(p)
                         /\ p \in Nat
    BY <2>1, <2>3 DEF Parts
  <2>5. counts' \in [Parts -> Indices] /\ offsets' \in [Parts -> Indices]
    <3>1. \A p \in Parts : First(p) \in Indices
      BY <2>4, Ranges, Zenon
    <3>2. \A p \in Parts : Cardinality(PartRows(p)) \in Indices
      BY RowSets, Zenon DEF PartRows
    <3> QED BY <2>1, <2>3, <3>1, <3>2, Zenon
  <2>6. Pass2Typed'
    BY <2>1, <2>5, Zenon DEF IndInv, Pass2Inv, Pass2Typed
  <2>7. \A w \in Pass2Workers : pc2'[w] = "claim"
    BY <2>1, Zenon
  <2>8. Started' /\ result' = "none"
    BY <1>1, <2>1, Zenon DEF Started
  <2>9. store' \in [0 .. First(NumParts) - 1 -> SUBSET BuildRows]
        /\ \A d \in 0 .. First(NumParts) - 1 : store'[d] = {}
    BY <2>1, <2>3, Zenon
  <2>10. Phases'
    BY <2>4, <2>8, <2>9, Zenon DEF Phases
  <2>11. \A p \in Parts : p >= cursor' /\ ~(p < cursor') /\ parts'[p] = {}
    BY <1>1, <2>1, <2>4 DEF IndInv, Pass2Inv, Phases
  <2>12. Claiming'
    BY <2>7, <2>11, Zenon DEF Claiming
  <2>13. Bucketed'
    BY <2>1, <2>2, Zenon DEF Bucketed, AllFiled
  <2>14. Copying'
    BY <2>7, Zenon DEF Copying
  <2>15. \A p \in Parts : Vacant(store', First(p), Past(p))
    BY <2>9, RangesApart, Zenon DEF Vacant
  <2>16. Publishing'
    BY <2>11, <2>15, Zenon DEF Publishing
  <2> QED BY <2>6, <2>10, <2>12, <2>13, <2>14, <2>16, Zenon DEF Pass2Inv
<1> QED BY <1>2, <1>3, Zenon

(* Where a copying worker is: inside the range of its partition, with the  *)
(* rows of the bucket it is at still there.                                *)
LEMMA CopierAt ==
  ASSUME IndInv, NEW w \in Pass2Workers, pc2[w] = "copy"
  PROVE  /\ part[w] \in Parts /\ part[w] \in Nat /\ mi[w] \in Nat /\ mi[w] <= NumMorsels
         /\ kr[w] \in Nat /\ dst[w] \in Nat
         /\ First(part[w]) \in Nat /\ Past(part[w]) \in Nat
         /\ First(part[w]) <= dst[w] /\ dst[w] <= Past(part[w])
         /\ mi[w] < NumMorsels =>
              /\ mi[w] \in Morsels
              /\ Serial(BucketRows(w), MorselRows(mi[w], part[w]))
              /\ Len(BucketRows(w)) = Cardinality(MorselRows(mi[w], part[w]))
              /\ Len(BucketRows(w)) \in Nat
              /\ First(part[w]) + Cardinality(Earlier(mi[w], part[w])) + Len(BucketRows(w))
                   <= Past(part[w])
<1> DEFINE p == part[w]
           m == mi[w]
<1>1. p \in Parts /\ m \in 0 .. NumMorsels /\ kr[w] \in Indices /\ dst[w] \in Indices
  BY Zenon DEF IndInv, Pass2Inv, Pass2Typed
<1>2. p \in Nat /\ m \in Nat /\ m <= NumMorsels /\ kr[w] \in Nat /\ dst[w] \in Nat
  BY <1>1, Constants, RowSets DEF Parts, Indices
<1>3. CopyingOf(w)
  BY Zenon DEF IndInv, Pass2Inv, Copying
<1>4. First(p) \in Nat /\ Past(p) \in Nat /\ Past(p) = First(p) + Cardinality(PartRows(p))
  BY <1>2, Ranges, Zenon
<1>5. /\ Cardinality(Earlier(m, p)) \in Nat /\ Cardinality(PartRows(p)) \in Nat
      /\ Cardinality(Earlier(m, p)) <= Cardinality(PartRows(p))
  <2>1. Earlier(m, p) \in SUBSET PartRows(p) /\ PartRows(p) \in SUBSET BuildRows
    BY Zenon DEF Earlier, PartRows
  <2>2. IsFiniteSet(PartRows(p)) /\ Cardinality(PartRows(p)) \in Nat
    BY <2>1, RowSets, Zenon
  <2>3. Cardinality(Earlier(m, p)) \in Nat
    BY <2>1, RowSets, Zenon
  <2> QED BY <2>1, <2>2, <2>3, FS_Subset, Zenon
<1>6. dst[w] = First(p) + Cardinality(Earlier(m, p)) + kr[w]
  BY <1>3, Zenon DEF CopyingOf
<1>7. ASSUME m < NumMorsels
      PROVE  /\ m \in Morsels
             /\ Serial(BucketRows(w), MorselRows(m, p))
             /\ Len(BucketRows(w)) = Cardinality(MorselRows(m, p))
             /\ Len(BucketRows(w)) \in Nat
             /\ First(p) + Cardinality(Earlier(m, p)) + Len(BucketRows(w)) <= Past(p)
             /\ kr[w] <= Len(BucketRows(w))
  <2>1. m \in Morsels
    BY <1>2, <1>7, Constants DEF Morsels
  <2>2. Started
    BY Zenon DEF IndInv, Pass2Inv, Phases
  <2>3. buckets[m] # {} /\ \A b \in buckets[m] : Serial(b[p], MorselRows(m, p))
    <3>1. Copies(w, p) /\ mi[w] <= m
      BY <1>2 DEF Copies
    <3>2. \A b \in buckets[m], q \in Parts :
            q >= cursor \/ (\E v \in Pass2Workers : Copies(v, q) /\ mi[v] <= m)
              => Serial(b[q], MorselRows(m, q))
      BY <2>1, <2>2, Zenon DEF IndInv, Pass2Inv, Bucketed
    <3>3. buckets[m] # {}
      BY <2>1, <2>2, Zenon DEF IndInv, Pass2Inv, Bucketed
    <3> QED BY <1>1, <3>1, <3>2, <3>3, Zenon
  <2>4. Serial(BucketRows(w), MorselRows(m, p))
    BY <2>3, Zenon DEF BucketRows
  <2>5. Len(BucketRows(w)) = Cardinality(MorselRows(m, p))
    BY <2>4, SerialLength, Zenon
  <2>6. Len(BucketRows(w)) \in Nat
    BY <2>4, LenProperties, Zenon DEF Serial
  <2>7. Cardinality(Earlier(m + 1, p)) = Cardinality(Earlier(m, p)) + Cardinality(MorselRows(m, p))
    BY <1>2, EarlierRows, Zenon
  <2>8. Cardinality(Earlier(m + 1, p)) <= Cardinality(PartRows(p))
    <3>1. Earlier(m + 1, p) \in SUBSET PartRows(p) /\ PartRows(p) \in SUBSET BuildRows
      BY Zenon DEF Earlier, PartRows
    <3>2. IsFiniteSet(PartRows(p))
      BY <3>1, RowSets, Zenon
    <3> QED BY <3>1, <3>2, FS_Subset, Zenon
  <2>9. kr[w] <= Len(BucketRows(w))
    BY <1>3, <1>7, Zenon DEF CopyingOf
  <2>10. First(p) + Cardinality(Earlier(m, p)) + Len(BucketRows(w)) <= Past(p)
    BY <1>4, <1>5, <2>5, <2>6, <2>7, <2>8
  <2> QED BY <2>1, <2>4, <2>5, <2>6, <2>9, <2>10, Zenon
<1>8. m = NumMorsels => kr[w] = 0
  BY <1>3, Zenon DEF CopyingOf
<1>9. First(p) <= dst[w]
  BY <1>2, <1>4, <1>5, <1>6
<1>10. dst[w] <= Past(p)
  <2>1. CASE m < NumMorsels
    BY <1>2, <1>4, <1>5, <1>6, <1>7, <2>1
  <2>2. CASE ~(m < NumMorsels)
    <3>1. m = NumMorsels
      BY <1>2, <2>2, Constants
    <3> QED BY <1>2, <1>4, <1>5, <1>6, <1>8, <3>1
  <2> QED BY <2>1, <2>2, Zenon
<1> QED BY <1>1, <1>2, <1>4, <1>7, <1>9, <1>10, Zenon

(* A worker that does not move, whose bucket and whose range of the store  *)
(* stay as they are.                                                       *)
LEMMA CopierFrame ==
  ASSUME IndInv, NEW v \in Pass2Workers, pc2[v] = "copy",
         part'[v] = part[v], mi'[v] = mi[v], kr'[v] = kr[v], dst'[v] = dst[v], tbl'[v] = tbl[v],
         mi[v] < NumMorsels => BucketRows(v)' = BucketRows(v),
         \A d \in First(part[v]) .. Past(part[v]) - 1 : store'[d] = store[d]
  PROVE  CopyingOf(v)'
<1> DEFINE p == part[v]
<1>1. /\ p \in Nat /\ First(p) \in Nat /\ Past(p) \in Nat /\ dst[v] \in Nat /\ kr[v] \in Nat
      /\ First(p) <= dst[v] /\ dst[v] <= Past(p) /\ mi[v] \in Nat /\ mi[v] <= NumMorsels
  BY CopierAt, Zenon
<1>2. CopyingOf(v)
  BY Zenon DEF IndInv, Pass2Inv, Copying
<1>3. \A d \in First(p) .. dst[v] - 1 : store'[d] = store[d]
  BY <1>1
<1>4. \A d \in dst[v] .. Past(p) - 1 : store'[d] = store[d]
  BY <1>1
<1>5. Copied(v)' = Copied(v)
  <2>1. CASE mi[v] < NumMorsels
    BY <2>1, Zenon DEF Copied
  <2>2. CASE ~(mi[v] < NumMorsels)
    <3>1. kr[v] = 0
      BY <1>1, <1>2, <2>2, Constants DEF CopyingOf
    <3>2. \A i \in 1 .. kr[v] : FALSE
      BY <3>1
    <3> QED BY <3>2, Zenon DEF Copied
  <2> QED BY <2>1, <2>2, Zenon
<1>6. Filled(store', p, dst[v], Copied(v)) /\ Chained(store', p, tbl[v], dst[v])
  <2>1. Filled(store, p, dst[v], Copied(v)) /\ Chained(store, p, tbl[v], dst[v])
    BY <1>2, Zenon DEF CopyingOf
  <2> HIDE DEF p
  <2> QED BY ONLY <1>3, <2>1, StoreFrame, Zenon
<1>7. Vacant(store', dst[v], Past(p))
  BY <1>2, <1>4, Zenon DEF CopyingOf, Vacant
<1>8. /\ mi[v] < NumMorsels => kr[v] <= Len(BucketRows(v))
      /\ mi[v] = NumMorsels => kr[v] = 0
      /\ dst[v] = First(p) + Cardinality(Earlier(mi[v], p)) + kr[v]
  BY <1>2, Zenon DEF CopyingOf
<1> QED BY <1>5, <1>6, <1>7, <1>8, Zenon DEF CopyingOf

(* A worker claims the next partition, or finds that there is none. *)
LEMMA ClaimPartStep ==
  ASSUME IndInv, NEW w \in Pass2Workers, ClaimPart(w)
  PROVE  Pass2Inv'
<1>1. callerPc = "pass2" /\ Started /\ result = "none" /\ pc2[w] = "claim"
  BY Pass2Running, Zenon DEF ClaimPart, IndInv, Pass2Inv
<1>2. /\ UNCHANGED <<callerPc, result, counts, offsets, buckets, store, parts>>
      /\ cursor' = cursor + 1
  BY Zenon DEF ClaimPart, outsidePass2Worker
<1>3. Started' /\ cursor \in Nat /\ NumParts \in Nat
  BY <1>1, <1>2, Constants, Zenon DEF Started, IndInv, Pass1Inv, Pass1Typed
<1>4. \A p \in Parts : p \in Nat
  BY DEF Parts
<1>5. \A v \in Pass2Workers : v # w =>
        /\ pc2'[v] = pc2[v] /\ part'[v] = part[v] /\ mi'[v] = mi[v]
        /\ kr'[v] = kr[v] /\ dst'[v] = dst[v] /\ tbl'[v] = tbl[v]
  BY DEF ClaimPart, IndInv, Pass2Inv, Pass2Typed
<1>6. Phases'
  BY <1>1, <1>2, <1>3, Zenon DEF Phases, IndInv, Pass2Inv
<1>7. ASSUME NEW v \in Pass2Workers, v # w, pc2'[v] = "copy" PROVE CopyingOf(v)'
  <2>1. pc2[v] = "copy" /\ buckets' = buckets /\ mi'[v] = mi[v] /\ part'[v] = part[v]
    BY <1>2, <1>5, <1>7, Zenon
  <2>2. BucketRows(v)' = BucketRows(v)
    BY ONLY <2>1 DEF BucketRows
  <2> QED BY <1>2, <1>5, <1>7, <2>1, <2>2, CopierFrame, Zenon
<1>8. \A v \in Pass2Workers : \A p : Copies(v, p) => Copies(v, p)' /\ mi'[v] = mi[v]
  BY <1>1, <1>5, Zenon DEF Copies
<1>9. \A p \in Parts : p >= cursor' => p >= cursor /\ p # cursor
  BY <1>2, <1>3, <1>4
<1>10. CASE cursor >= NumParts
  <2>1. pc2' = [pc2 EXCEPT ![w] = "done"] /\ UNCHANGED <<part, mi, kr, dst, tbl>>
    BY <1>10, Zenon DEF ClaimPart
  <2>2. pc2'[w] = "done"
    BY <2>1, Zenon DEF IndInv, Pass2Inv, Pass2Typed
  <2>3. Pass2Typed'
    BY <1>2, <2>1, Zenon DEF IndInv, Pass2Inv, Pass2Typed
  <2>4. Copying'
    BY <1>7, <2>2, Zenon DEF Copying
  <2>5. cursor' >= NumParts /\ \A p \in Parts : p < cursor /\ p < cursor' /\ ~(p >= cursor')
    BY <1>2, <1>3, <1>10 DEF Parts
  <2>6. Claiming'
    <3>1. \A u, v \in Pass2Workers :
            pc2'[u] = "copy" /\ pc2'[v] = "copy" /\ part'[u] = part'[v] => u = v
      BY <1>5, <2>2 DEF IndInv, Pass2Inv, Claiming
    <3>2. \A v \in Pass2Workers : pc2'[v] = "copy" => part'[v] < cursor' /\ parts'[part'[v]] = {}
      <4> TAKE v \in Pass2Workers
      <4>1. pc2'[v] = "copy" => pc2[v] = "copy" /\ part'[v] = part[v] /\ part[v] \in Parts
        BY <1>5, <2>2, Zenon DEF IndInv, Pass2Inv, Pass2Typed
      <4> QED BY <1>2, <2>5, <4>1, Zenon DEF IndInv, Pass2Inv, Claiming
    <3>3. \A p \in Parts : parts'[p] # {} \/ \E v \in Pass2Workers : Copies(v, p)'
      BY <1>1, <1>2, <1>8, <2>5, Zenon DEF IndInv, Pass2Inv, Claiming
    <3> QED BY <2>5, <3>1, <3>2, <3>3, Zenon DEF Claiming
  <2>7. Bucketed'
    <3>1. \A v \in Pass2Workers, p \in Parts : Copies(v, p)' => Copies(v, p) /\ mi'[v] = mi[v]
      BY <1>5, <2>2, Zenon DEF Copies
    <3>2. SUFFICES ASSUME NEW m \in Morsels
                   PROVE  /\ buckets[m] # {}
                          /\ \A b \in buckets[m], p \in Parts :
                               (\E v \in Pass2Workers : Copies(v, p) /\ mi[v] <= m)
                                 => Serial(b[p], MorselRows(m, p))
      BY <1>2, <2>5, <3>1, Zenon DEF Bucketed
    <3> QED BY <1>1, Zenon DEF IndInv, Pass2Inv, Bucketed
  <2>8. Publishing'
    BY <1>1, <1>2, <2>5, Zenon DEF IndInv, Pass2Inv, Publishing
  <2> QED BY <1>6, <2>3, <2>4, <2>6, <2>7, <2>8, Zenon DEF Pass2Inv
<1>11. CASE ~(cursor >= NumParts)
  <2>1. /\ part' = [part EXCEPT ![w] = cursor] /\ mi' = [mi EXCEPT ![w] = 0]
        /\ kr' = [kr EXCEPT ![w] = 0] /\ dst' = [dst EXCEPT ![w] = offsets[cursor]]
        /\ tbl' = [tbl EXCEPT ![w] = NoChains] /\ pc2' = [pc2 EXCEPT ![w] = "copy"]
    BY <1>11, Zenon DEF ClaimPart
  <2>2. cursor \in Parts
    BY <1>3, <1>11 DEF Parts
  <2>3. offsets[cursor] = First(cursor) /\ First(cursor) \in Indices /\ First(cursor) \in Nat
    BY <1>1, <1>3, <2>2, Ranges, Zenon DEF IndInv, Pass2Inv, Phases
  <2>4. /\ part'[w] = cursor /\ mi'[w] = 0 /\ kr'[w] = 0 /\ dst'[w] = First(cursor)
        /\ tbl'[w] = NoChains /\ pc2'[w] = "copy"
    BY <2>1, <2>3, Zenon DEF IndInv, Pass2Inv, Pass2Typed
  <2>5. 0 \in Indices /\ 0 \in 0 .. NumMorsels /\ NoChains \in [Keys -> Seq(Indices)]
    <3>1. 0 \in Indices
      BY RowSets DEF Indices
    <3>2. 0 \in 0 .. NumMorsels
      BY Constants
    <3>3. NoChains \in [Keys -> Seq(Indices)]
      BY EmptySeq, Zenon DEF NoChains
    <3> QED BY <3>1, <3>2, <3>3, Zenon
  <2>6. Pass2Typed'
    BY <1>2, <2>1, <2>2, <2>3, <2>5, Zenon DEF IndInv, Pass2Inv, Pass2Typed
  <2>7. CopyingOf(w)'
    <3>1. Copied(w)' = {}
      <4>1. \A i \in 1 .. kr'[w] : FALSE
        BY <2>4
      <4>2. \A r \in PartRows(cursor) : ~(MorselOf(r) < 0)
        BY EarlierRows, Zenon DEF Earlier
      <4> QED BY <2>4, <4>1, <4>2, Zenon DEF Copied
    <3>2. Cardinality(Earlier(0, cursor)) = 0
      BY EarlierRows, FS_EmptySet, Zenon
    <3>3. \A d \in First(cursor) .. First(cursor) - 1 : FALSE
      BY <2>3
    <3>4. Filled(store', cursor, First(cursor), {})
      BY <3>3, Zenon DEF Filled
    <3>5. Chained(store', cursor, NoChains, First(cursor))
      <4>1. \A k \in Keys : NoChains[k] = <<>> /\ \A i \in 1 .. Len(NoChains[k]) : FALSE
        BY EmptySeq DEF NoChains
      <4> QED BY <3>3, <4>1, Zenon DEF Chained, ChainOf
    <3>6. cursor >= cursor
      BY <1>3
    <3>7. Vacant(store, First(cursor), Past(cursor))
      BY <1>1, <2>2, <3>6, Zenon DEF IndInv, Pass2Inv, Publishing
    <3>8. First(cursor) = First(cursor) + 0 + 0
      BY <2>3
    <3>9. mi'[w] < NumMorsels => kr'[w] <= Len(BucketRows(w)')
      <4>1. ASSUME 0 < NumMorsels PROVE 0 <= Len(BucketRows(w)')
        <5>1. 0 \in Morsels
          BY <4>1, Constants DEF Morsels
        <5>2. BucketRows(w)' \in Seq(BuildRows)
          BY <1>2, <2>2, <2>4, <5>1, EmptySeq, Zenon DEF BucketRows, IndInv, Pass1Inv, Pass1Typed
        <5> QED BY <5>2, LenProperties
      <4> QED BY <2>4, <4>1, Zenon
    <3> QED BY <1>2, <2>4, <3>1, <3>2, <3>4, <3>5, <3>7, <3>8, <3>9, Zenon DEF CopyingOf
  <2>8. Copying'
    BY <1>7, <2>7, Zenon DEF Copying
  <2>9. parts[cursor] = {}
    BY <1>1, <1>3, <2>2 DEF IndInv, Pass2Inv, Claiming
  <2>10. Claiming'
    <3>1. \A v \in Pass2Workers : pc2[v] = "copy" => part[v] \in Nat /\ part[v] < cursor /\ parts[part[v]] = {}
      BY <1>4, Zenon DEF IndInv, Pass2Inv, Claiming, Pass2Typed
    <3>2. \A v \in Pass2Workers : pc2[v] = "copy" => part[v] # cursor
      BY <1>3, <3>1
    <3>3. \A u, v \in Pass2Workers :
            pc2'[u] = "copy" /\ pc2'[v] = "copy" /\ part'[u] = part'[v] => u = v
      BY <1>5, <2>4, <3>2 DEF IndInv, Pass2Inv, Claiming
    <3>4. \A v \in Pass2Workers : pc2'[v] = "copy" => part'[v] < cursor' /\ parts'[part'[v]] = {}
      <4> TAKE v \in Pass2Workers
      <4>1. CASE v = w
        BY <1>2, <1>3, <2>4, <2>9, <4>1, SMTT(60)
      <4>2. CASE v # w
        BY <1>2, <1>3, <1>5, <3>1, <4>2
      <4> QED BY <4>1, <4>2, Zenon
    <3>5. \A v \in Pass2Workers : pc2'[v] = "done" => cursor' >= NumParts
      <4>1. \A v \in Pass2Workers : pc2'[v] = "done" => cursor >= NumParts
        BY <1>5, <2>4, Zenon DEF IndInv, Pass2Inv, Claiming
      <4> QED BY ONLY <1>2, <1>3, <4>1
    <3>6. ASSUME NEW p \in Parts, p < cursor'
          PROVE  parts'[p] # {} \/ \E v \in Pass2Workers : Copies(v, p)'
      <4>1. CASE p = cursor
        BY <2>4, <4>1, Zenon DEF Copies
      <4>2. CASE p < cursor
        BY <1>1, <1>2, <1>8, <4>2, Zenon DEF IndInv, Pass2Inv, Claiming
      <4> QED BY <1>2, <1>3, <1>4, <3>6, <4>1, <4>2
    <3>7. \A p \in Parts : p >= cursor' => parts'[p] = {}
      BY <1>1, <1>2, <1>9, Zenon DEF IndInv, Pass2Inv, Claiming
    <3> QED BY ONLY <3>3, <3>4, <3>5, <3>6, <3>7, Zenon DEF Claiming
  <2>11. Bucketed'
    <3>1. \A v \in Pass2Workers, p \in Parts :
            Copies(v, p)' => (Copies(v, p) /\ mi'[v] = mi[v]) \/ p = cursor
      BY <1>5, <2>4, Zenon DEF Copies
    <3>2. cursor >= cursor
      BY <1>3
    <3>3. SUFFICES ASSUME NEW m \in Morsels
                   PROVE  /\ buckets[m] # {}
                          /\ \A b \in buckets[m], p \in Parts :
                               p >= cursor' \/ (\E v \in Pass2Workers : Copies(v, p)' /\ mi'[v] <= m)
                                 => Serial(b[p], MorselRows(m, p))
      BY <1>2, Zenon DEF Bucketed
    <3>4. /\ buckets[m] # {}
          /\ \A b \in buckets[m], p \in Parts :
               p >= cursor \/ (\E v \in Pass2Workers : Copies(v, p) /\ mi[v] <= m)
                 => Serial(b[p], MorselRows(m, p))
      BY <1>1, Zenon DEF IndInv, Pass2Inv, Bucketed
    <3> QED BY <1>9, <3>1, <3>2, <3>4, Zenon
  <2>12. Publishing'
    BY <1>1, <1>2, <1>9, Zenon DEF IndInv, Pass2Inv, Publishing
  <2> QED BY <1>6, <2>6, <2>8, <2>10, <2>11, <2>12, Zenon DEF Pass2Inv
<1> QED BY <1>10, <1>11, Zenon

(* A worker copies a row to the next index of its range and links it. *)
LEMMA CopyRowStep ==
  ASSUME IndInv, NEW w \in Pass2Workers, CopyRow(w)
  PROVE  Pass2Inv'
<1> DEFINE p == part[w]
           m == mi[w]
           n == dst[w]
           row == BucketRows(w)[kr[w] + 1]
<1>1. callerPc = "pass2" /\ Started /\ result = "none" /\ pc2[w] = "copy"
  BY Pass2Running, Zenon DEF CopyRow, IndInv, Pass2Inv
<1>2. /\ UNCHANGED <<callerPc, result, counts, offsets, cursor, buckets, pc2, part, mi, parts>>
      /\ m < NumMorsels /\ kr[w] < Len(BucketRows(w))
      /\ store' = [store EXCEPT ![n] = @ \cup {row}]
      /\ tbl' = [tbl EXCEPT ![w][KeyOf(row)] = Append(@, n)]
      /\ dst' = [dst EXCEPT ![w] = @ + 1] /\ kr' = [kr EXCEPT ![w] = @ + 1]
  BY Zenon DEF CopyRow, outsidePass2Worker
<1>3. /\ p \in Parts /\ p \in Nat /\ m \in Nat /\ kr[w] \in Nat /\ n \in Nat
      /\ First(p) \in Nat /\ Past(p) \in Nat /\ First(p) <= n /\ n <= Past(p)
      /\ m \in Morsels /\ Serial(BucketRows(w), MorselRows(m, p))
      /\ Len(BucketRows(w)) = Cardinality(MorselRows(m, p)) /\ Len(BucketRows(w)) \in Nat
      /\ First(p) + Cardinality(Earlier(m, p)) + Len(BucketRows(w)) <= Past(p)
  BY <1>1, <1>2, CopierAt, Zenon
<1>4. CopyingOf(w)
  BY <1>1, Zenon DEF IndInv, Pass2Inv, Copying
<1>5. n = First(p) + Cardinality(Earlier(m, p)) + kr[w] /\ Cardinality(Earlier(m, p)) \in Nat
  BY <1>4, RowSets, Zenon DEF CopyingOf, Earlier, PartRows
<1>6. m < NumMorsels /\ kr[w] < Len(BucketRows(w))
  BY <1>2, Zenon
<1>7. n < Past(p) /\ n \in First(p) .. Past(p) - 1
  BY <1>6, <1>3, <1>5
<1>8. kr[w] + 1 \in 1 .. Len(BucketRows(w))
  BY <1>6, <1>3
<1>9. row \in MorselRows(m, p) /\ row \in PartRows(p) /\ row \in BuildRows /\ MorselOf(row) = m
  BY <1>3, <1>8, Zenon DEF Serial, MorselRows, PartRows
<1>10. KeyOf(row) \in Keys
  BY <1>9, RowFacts, Zenon DEF PartRows
<1>11. n \in Indices /\ n + 1 \in Indices /\ kr[w] + 1 \in Indices
  <2>1. Past(p) \in Indices
    BY <1>3, Ranges, Zenon
  <2>2. Cardinality(MorselRows(m, p)) \in Indices
    BY RowSets, Zenon DEF MorselRows, PartRows
  <2>3. Cardinality(BuildRows) \in Nat
    BY RowSets, Zenon
  <2> QED BY <1>3, <1>7, <1>8, <2>1, <2>2, <2>3, SMTT(60) DEF Indices
<1>12. /\ n \in 0 .. First(NumParts) - 1
       /\ \A q \in Parts : q # p => n \notin First(q) .. Past(q) - 1
  BY <1>3, <1>7, RangesApart, Zenon
<1>13. store \in [0 .. First(NumParts) - 1 -> SUBSET BuildRows]
  BY <1>1, Zenon DEF IndInv, Pass2Inv, Phases
<1>14. store[n] = {}
  BY <1>3, <1>4, <1>7 DEF CopyingOf, Vacant
<1> HIDE DEF row, n
<1>15. /\ store' \in [0 .. First(NumParts) - 1 -> SUBSET BuildRows]
       /\ store'[n] = {row}
       /\ \A d \in 0 .. First(NumParts) - 1 : d # n => store'[d] = store[d]
  BY <1>2, <1>9, <1>12, <1>13, <1>14, Zenon
<1>16. /\ dst'[w] = n + 1 /\ kr'[w] = kr[w] + 1
       /\ \A v \in Pass2Workers : v # w => dst'[v] = dst[v] /\ kr'[v] = kr[v] /\ tbl'[v] = tbl[v]
  BY <1>2, Zenon DEF IndInv, Pass2Inv, Pass2Typed, n
<1>17. tbl[w] \in [Keys -> Seq(Indices)]
  BY Zenon DEF IndInv, Pass2Inv, Pass2Typed
<1>18. /\ tbl \in [Pass2Workers -> [Keys -> Seq(Indices)]]
         /\ tbl' = [tbl EXCEPT ![w] = [tbl[w] EXCEPT ![KeyOf(row)] = Append(tbl[w][KeyOf(row)], n)]]
  <2>1. tbl \in [Pass2Workers -> [Keys -> Seq(Indices)]]
    BY Zenon DEF IndInv, Pass2Inv, Pass2Typed
  <2>2. tbl' = [tbl EXCEPT ![w][KeyOf(row)] = Append(@, n)]
    BY <1>2, Zenon
  <2> QED BY ONLY <2>1, <2>2, Zenon
<1>19. \A k \in Keys : tbl'[w][k] = IF k = KeyOf(row) THEN Append(tbl[w][k], n) ELSE tbl[w][k]
  <2>1. tbl'[w] = [tbl[w] EXCEPT ![KeyOf(row)] = Append(tbl[w][KeyOf(row)], n)]
    BY <1>18, Zenon
  <2> QED BY <1>17, <2>1, Zenon
<1>20. Pass2Typed'
  <2>1. tbl' \in [Pass2Workers -> [Keys -> Seq(Indices)]]
    <3>1. Append(tbl[w][KeyOf(row)], n) \in Seq(Indices)
      BY <1>10, <1>11, <1>17, AppendProperties, Zenon
    <3>2. [tbl[w] EXCEPT ![KeyOf(row)] = Append(tbl[w][KeyOf(row)], n)] \in [Keys -> Seq(Indices)]
      BY <1>17, <3>1, Zenon
    <3> QED BY <1>18, <3>2, Zenon
  <2>2. dst' \in [Pass2Workers -> Indices] /\ kr' \in [Pass2Workers -> Indices]
    BY <1>2, <1>11, Zenon DEF IndInv, Pass2Inv, Pass2Typed, n
  <2> QED BY <1>2, <2>1, <2>2, Zenon DEF IndInv, Pass2Inv, Pass2Typed
<1>21. Started'
  BY <1>1, <1>2, Zenon DEF Started
<1>22. Phases'
  BY <1>1, <1>2, <1>15, <1>21, Zenon DEF Phases, IndInv, Pass2Inv
<1>23. \A v, q : Copies(v, q)' <=> Copies(v, q)
  BY <1>2, Zenon DEF Copies
<1>24. Claiming'
  BY <1>1, <1>2, <1>21, <1>23, Zenon DEF IndInv, Pass2Inv, Claiming
<1>25. Bucketed'
  BY <1>1, <1>2, <1>21, <1>23, Zenon DEF IndInv, Pass2Inv, Bucketed
<1>26. ASSUME NEW q \in Parts, q # p
       PROVE  \A d \in First(q) .. Past(q) - 1 : store'[d] = store[d]
  <2> TAKE d \in First(q) .. Past(q) - 1
  <2>1. d \in 0 .. First(NumParts) - 1
    BY RangesApart, Zenon
  <2>2. d # n
    BY <1>12, <1>26, Zenon
  <2> QED BY <1>15, <2>1, <2>2, Zenon
<1>27. \A v : BucketRows(v)' = BucketRows(v)
  BY <1>2 DEF BucketRows
<1>28. ASSUME NEW v \in Pass2Workers, v # w, pc2[v] = "copy" PROVE CopyingOf(v)'
  <2>1. part[v] \in Parts /\ part[v] # p
    BY <1>1, <1>28, Zenon DEF IndInv, Pass2Inv, Pass2Typed, Claiming
  <2>2. \A d \in First(part[v]) .. Past(part[v]) - 1 : store'[d] = store[d]
    BY <1>26, <2>1, Zenon
  <2>3. /\ part'[v] = part[v] /\ mi'[v] = mi[v] /\ kr'[v] = kr[v] /\ dst'[v] = dst[v]
        /\ tbl'[v] = tbl[v]
    BY <1>2, <1>16, <1>28, Zenon
  <2> QED BY <1>27, <1>28, <2>2, <2>3, CopierFrame, Zenon
<1>29. CopyingOf(w)'
  <2>1. \A r : r \in Copied(w)' <=> r \in Copied(w) \cup {row}
    <3>1. \A i \in 1 .. kr'[w] : i \in 1 .. kr[w] \/ i = kr[w] + 1
      BY <1>3, <1>16
    <3>2. kr[w] + 1 \in 1 .. kr'[w] /\ \A i \in 1 .. kr[w] : i \in 1 .. kr'[w]
      BY <1>3, <1>16
    <3>3. \A r : (\E i \in 1 .. kr'[w] : r = BucketRows(w)[i]) <=>
                 (\E i \in 1 .. kr[w] : r = BucketRows(w)[i]) \/ r = row
      BY <3>1, <3>2, Zenon DEF row
    <3>4. part'[w] = p /\ mi'[w] = m
      BY <1>2, Zenon
    <3> QED BY <1>9, <1>27, <3>3, <3>4, Zenon DEF Copied
  <2>2. Copied(w)' = Copied(w) \cup {row}
    BY ONLY <2>1, Zenon
  <2>3. ASSUME NEW r \in Copied(w) PROVE RowBefore(r, row)
    <3>1. CASE MorselOf(r) < m
      BY <1>9, <2>3, <3>1, MorselOrder, Zenon DEF Copied, PartRows
    <3>2. CASE \E i \in 1 .. kr[w] : r = BucketRows(w)[i]
      <4>1. PICK i \in 1 .. kr[w] : r = BucketRows(w)[i]
        BY <3>2, Zenon
      <4>2. i \in 1 .. Len(BucketRows(w)) /\ i < kr[w] + 1
        BY <1>2, <1>3
      <4> QED BY <1>3, <1>8, <4>1, <4>2, Zenon DEF Serial, row
    <3> QED BY <2>3, <3>1, <3>2, Zenon DEF Copied
  <2>4. \A d \in First(p) .. n - 1 : store'[d] = store[d]
    <3> TAKE d \in First(p) .. n - 1
    <3>1. d \in First(p) .. Past(p) - 1 /\ d # n
      BY <1>3, <1>7 DEF n
    <3>2. d \in 0 .. First(NumParts) - 1
      BY <1>3, <3>1, RangesApart, Zenon
    <3> QED BY <1>15, <3>1, <3>2, Zenon
  <2>5. Filled(store, p, n, Copied(w)) /\ Chained(store, p, tbl[w], n)
    BY <1>4, Zenon DEF CopyingOf, n
  <2>6. n \in Nat /\ First(p) <= n /\ p \in Nat
    BY <1>3, Zenon DEF n
  <2>7. Filled(store', p, n + 1, Copied(w) \cup {row})
    <3> HIDE DEF p
    <3>1. \A r \in Copied(w) : RowBefore(r, row)
      BY ONLY <2>3, Zenon
    <3>2. store'[n] = {row}
      BY <1>15, Zenon
    <3> QED BY ONLY <2>4, <2>5, <2>6, <3>1, <3>2, FilledGrows, Zenon
  <2>8. Chained(store', p, tbl'[w], n + 1)
    <3> HIDE DEF p
    <3>1. store'[n] = {row}
      BY <1>15, Zenon
    <3>2. n \in Indices
      BY <1>11, Zenon
    <3> QED BY ONLY <1>10, <1>17, <1>19, <2>4, <2>5, <2>6, <3>1, <3>2, ChainedGrows, Zenon
  <2>9. Vacant(store', n + 1, Past(p))
    <3> SUFFICES ASSUME NEW d \in n + 1 .. Past(p) - 1 PROVE store'[d] = {}
      BY Zenon DEF Vacant
    <3>1. d \in n .. Past(p) - 1 /\ d \in First(p) .. Past(p) - 1 /\ d # n
      BY <1>3, <2>6
    <3>2. store[d] = {}
      BY <1>4, <3>1, Zenon DEF CopyingOf, Vacant, n
    <3>3. d \in 0 .. First(NumParts) - 1
      BY <1>3, <3>1, RangesApart, Zenon
    <3> QED BY <1>15, <3>1, <3>2, <3>3, Zenon
  <2>10. /\ kr'[w] <= Len(BucketRows(w)) /\ mi'[w] = m /\ part'[w] = p /\ m # NumMorsels
         /\ dst'[w] = First(p) + Cardinality(Earlier(m, p)) + kr'[w]
    <3>1. mi'[w] = m /\ part'[w] = p
      BY <1>2, Zenon
    <3>2. m # NumMorsels /\ kr'[w] <= Len(BucketRows(w))
      <4>1. m # NumMorsels
        BY <1>6, <1>3, Constants, LessThan, Zenon
      <4>2. kr[w] + 1 <= Len(BucketRows(w))
        BY <1>6, <1>3, LessThan, Zenon
      <4> QED BY <1>16, <4>1, <4>2, Zenon
    <3>3. n + 1 = First(p) + Cardinality(Earlier(m, p)) + (kr[w] + 1)
      BY <1>3, <1>5 DEF n
    <3> QED BY <1>16, <3>1, <3>2, <3>3, Zenon
  <2> QED BY <1>16, <1>27, <2>2, <2>7, <2>8, <2>9, <2>10, Zenon DEF CopyingOf
<1>30. Copying'
  BY <1>2, <1>28, <1>29, Zenon DEF Copying
<1>31. Publishing'
  <2> SUFFICES ASSUME NEW q \in Parts
               PROVE  /\ q >= cursor => Vacant(store', First(q), Past(q))
                      /\ \A t \in parts[q] : /\ Filled(store', q, Past(q), PartRows(q))
                                             /\ Chained(store', q, t, Past(q))
    BY <1>2, Zenon DEF Publishing
  <2>1. /\ q >= cursor => Vacant(store, First(q), Past(q))
        /\ \A t \in parts[q] : Filled(store, q, Past(q), PartRows(q)) /\ Chained(store, q, t, Past(q))
    BY <1>1, Zenon DEF IndInv, Pass2Inv, Publishing
  <2>2. p < cursor /\ parts[p] = {} /\ cursor \in Nat
    BY <1>1, Zenon DEF IndInv, Pass2Inv, Claiming, Pass1Inv, Pass1Typed
  <2>3. CASE q = p
    BY <1>3, <2>2, <2>3
  <2>4. CASE q # p
    <3>1. \A d \in First(q) .. Past(q) - 1 : store'[d] = store[d]
      BY <1>26, <2>4, Zenon
    <3>2. q >= cursor => Vacant(store', First(q), Past(q))
      BY <2>1, <3>1, Zenon DEF Vacant
    <3>3. ASSUME NEW t \in parts[q]
          PROVE  Filled(store', q, Past(q), PartRows(q)) /\ Chained(store', q, t, Past(q))
      BY ONLY <2>1, <3>1, <3>3, StoreFrame, Zenon
    <3> QED BY <3>2, <3>3, Zenon
  <2> QED BY <2>3, <2>4, Zenon
<1> QED BY <1>20, <1>22, <1>24, <1>25, <1>30, <1>31, Zenon DEF Pass2Inv

(* A worker has copied all rows of a bucket and releases them. *)
LEMMA NextBucketStep ==
  ASSUME IndInv, NEW w \in Pass2Workers, NextBucket(w)
  PROVE  Pass2Inv'
<1> DEFINE p == part[w]
           m == mi[w]
<1>1. callerPc = "pass2" /\ Started /\ result = "none" /\ pc2[w] = "copy"
  BY Pass2Running, Zenon DEF NextBucket, IndInv, Pass2Inv
<1>2. /\ UNCHANGED <<callerPc, result, counts, offsets, cursor, pc2, part, dst, tbl, store, parts>>
      /\ buckets' = [buckets EXCEPT ![m] = Released(w)]
      /\ mi' = [mi EXCEPT ![w] = @ + 1] /\ kr' = [kr EXCEPT ![w] = 0]
  BY Zenon DEF NextBucket, outsidePass2Worker
<1>3. m < NumMorsels /\ kr[w] = Len(BucketRows(w))
  BY Zenon DEF NextBucket
<1>4. /\ p \in Parts /\ p \in Nat /\ m \in Nat /\ dst[w] \in Nat /\ First(p) \in Nat
      /\ m \in Morsels /\ Serial(BucketRows(w), MorselRows(m, p))
      /\ Len(BucketRows(w)) = Cardinality(MorselRows(m, p)) /\ Len(BucketRows(w)) \in Nat
  BY <1>1, <1>3, CopierAt, Zenon
<1>5. CopyingOf(w)
  BY <1>1, Zenon DEF IndInv, Pass2Inv, Copying
<1>6. /\ mi'[w] = m + 1 /\ kr'[w] = 0
      /\ \A v \in Pass2Workers : v # w => mi'[v] = mi[v] /\ kr'[v] = kr[v]
  BY <1>2, Zenon DEF IndInv, Pass2Inv, Pass2Typed
<1>7. /\ buckets'[m] = Released(w) /\ \A n \in Morsels : n # m => buckets'[n] = buckets[n]
      /\ buckets[m] \subseteq [Parts -> Seq(BuildRows)] /\ AtMostOne(buckets[m])
  BY <1>2, <1>4, Zenon DEF IndInv, Pass1Inv, Pass1Typed
<1>8. PICK b \in buckets[m] : buckets[m] = {b}
  <2>1. buckets[m] # {}
    BY <1>1, <1>4, Zenon DEF IndInv, Pass2Inv, Bucketed
  <2> QED BY <1>7, <2>1 DEF AtMostOne
<1> DEFINE c == [b EXCEPT ![p] = <<>>]
<1>9. buckets'[m] = {c}
  BY <1>7, <1>8, ZenonT(40) DEF Released
<1>10. \A q \in Parts : q # p => c[q] = b[q]
  BY <1>7, Zenon
<1> HIDE DEF c
<1>11. Pass2Typed'
  <2>1. m + 1 \in 0 .. NumMorsels /\ 0 \in Indices
    BY <1>3, <1>4, Constants, RowSets DEF Indices
  <2>2. mi' \in [Pass2Workers -> 0 .. NumMorsels] /\ kr' \in [Pass2Workers -> Indices]
    BY <1>2, <2>1, Zenon DEF IndInv, Pass2Inv, Pass2Typed
  <2> QED BY <1>2, <2>2, Zenon DEF IndInv, Pass2Inv, Pass2Typed
<1>12. Started'
  BY <1>1, <1>2, Zenon DEF Started
<1>13. Phases'
  BY <1>1, <1>2, <1>12, Zenon DEF Phases, IndInv, Pass2Inv
<1>14. \A v, q : Copies(v, q)' <=> Copies(v, q)
  BY <1>2, Zenon DEF Copies
<1>15. Claiming'
  BY <1>1, <1>2, <1>12, <1>14, Zenon DEF IndInv, Pass2Inv, Claiming
<1>16. p < cursor /\ cursor \in Nat
  BY <1>1, Zenon DEF IndInv, Pass2Inv, Claiming, Pass1Inv, Pass1Typed
<1>17. \A v \in Pass2Workers : v # w /\ pc2[v] = "copy" => part[v] \in Parts /\ part[v] # p
  BY <1>1, Zenon DEF IndInv, Pass2Inv, Pass2Typed, Claiming
<1>18. Bucketed'
  <2> SUFFICES ASSUME NEW n \in Morsels
               PROVE  /\ buckets'[n] # {}
                      /\ \A e \in buckets'[n], q \in Parts :
                           q >= cursor \/ (\E v \in Pass2Workers : Copies(v, q) /\ mi'[v] <= n)
                             => Serial(e[q], MorselRows(n, q))
    BY <1>2, <1>14, Zenon DEF Bucketed
  <2>1. /\ buckets[n] # {}
        /\ \A e \in buckets[n], q \in Parts :
             q >= cursor \/ (\E v \in Pass2Workers : Copies(v, q) /\ mi[v] <= n)
               => Serial(e[q], MorselRows(n, q))
    BY <1>1, Zenon DEF IndInv, Pass2Inv, Bucketed
  <2>2. n \in Nat /\ NumMorsels \in Nat
    BY Constants DEF Morsels
  <2>3. \A v \in Pass2Workers : mi'[v] <= n => mi[v] <= n
    BY <1>4, <1>6, <2>2
  <2>4. CASE n # m
    BY <1>7, <2>1, <2>3, <2>4, Zenon
  <2>5. CASE n = m
    <3>1. buckets'[n] = {c} /\ buckets[n] = {b}
      BY <1>8, <1>9, <2>5, Zenon
    <3>2. ASSUME NEW q \in Parts,
                 q >= cursor \/ (\E v \in Pass2Workers : Copies(v, q) /\ mi'[v] <= n)
          PROVE  Serial(c[q], MorselRows(n, q))
      <4>1. q # p
        <5>1. CASE q >= cursor
          BY <1>4, <1>16, <5>1
        <5>2. CASE \E v \in Pass2Workers : Copies(v, q) /\ mi'[v] <= n
          <6>1. PICK v \in Pass2Workers : Copies(v, q) /\ mi'[v] <= n
            BY <5>2, Zenon
          <6>2. v # w
            BY <1>4, <1>6, <2>5, <6>1
          <6> QED BY <1>17, <6>1, <6>2, Zenon DEF Copies
        <5> QED BY <3>2, <5>1, <5>2, Zenon
      <4>2. Serial(b[q], MorselRows(n, q))
        BY <2>1, <2>3, <3>1, <3>2, Zenon
      <4> QED BY <1>10, <4>1, <4>2, Zenon
    <3> QED BY <3>1, <3>2, Zenon
  <2> QED BY <2>4, <2>5, Zenon
<1>19. ASSUME NEW v \in Pass2Workers, v # w, pc2[v] = "copy" PROVE CopyingOf(v)'
  <2>1. part[v] \in Parts /\ part[v] # p
    BY <1>17, <1>19, Zenon
  <2>2. /\ part'[v] = part[v] /\ mi'[v] = mi[v] /\ kr'[v] = kr[v] /\ dst'[v] = dst[v]
        /\ tbl'[v] = tbl[v] /\ store' = store
    BY <1>2, <1>6, <1>19, Zenon
  <2>3. ASSUME mi[v] < NumMorsels PROVE BucketRows(v)' = BucketRows(v)
    <3>1. mi[v] \in Morsels
      BY <1>19, <2>3, CopierAt, Zenon
    <3>2. CASE mi[v] # m
      <4>1. buckets'[mi[v]] = buckets[mi[v]]
        BY <1>7, <3>1, <3>2, Zenon
      <4> QED BY ONLY <2>2, <4>1 DEF BucketRows
    <3>3. CASE mi[v] = m
      <4>1. BucketRows(v)' = c[part[v]]
        <5>1. buckets'[mi'[v]] = {c} /\ part'[v] = part[v]
          BY <1>9, <2>2, <3>3, Zenon
        <5> QED BY ONLY <5>1, Zenon DEF BucketRows
      <4>2. BucketRows(v) = b[part[v]]
        BY <1>8, <3>3 DEF BucketRows
      <4> QED BY <1>10, <2>1, <4>1, <4>2, Zenon
    <3> QED BY <3>2, <3>3, Zenon
  <2> QED BY <1>19, <2>2, <2>3, CopierFrame, Zenon
<1>20. CopyingOf(w)'
  <2>1. \A r : r \in Copied(w)' <=> r \in Copied(w)
    <3>1. \A i \in 1 .. kr'[w] : FALSE
      BY <1>6
    <3>2. \A r \in PartRows(p) : MorselOf(r) \in Nat
      BY RowFacts, MorselNumbers, Zenon DEF PartRows
    <3>3. \A r \in PartRows(p) : MorselOf(r) < m + 1 <=> MorselOf(r) < m \/ MorselOf(r) = m
      BY <1>4, <3>2
    <3>4. \A r \in PartRows(p) :
            MorselOf(r) = m <=> \E i \in 1 .. kr[w] : r = BucketRows(w)[i]
      BY <1>3, <1>4, Zenon DEF Serial, MorselRows
    <3>5. part'[w] = p
      BY <1>2, Zenon
    <3> QED BY <1>6, <3>1, <3>3, <3>4, <3>5, SMTT(60) DEF Copied
  <2>2. Copied(w)' = Copied(w)
    BY ONLY <2>1, Zenon
  <2>3. dst[w] = First(p) + Cardinality(Earlier(m + 1, p)) + 0
    <3>1. Cardinality(Earlier(m + 1, p)) = Cardinality(Earlier(m, p)) + Cardinality(MorselRows(m, p))
      BY <1>4, EarlierRows, Zenon
    <3>2. dst[w] = First(p) + Cardinality(Earlier(m, p)) + kr[w]
      BY <1>5, Zenon DEF CopyingOf
    <3>3. Cardinality(Earlier(m, p)) \in Nat
      BY RowSets, Zenon DEF Earlier, PartRows
    <3> QED BY <1>3, <1>4, <3>1, <3>2, <3>3
  <2>4. mi'[w] < NumMorsels => kr'[w] <= Len(BucketRows(w)')
    <3>1. ASSUME m + 1 < NumMorsels PROVE 0 <= Len(BucketRows(w)')
      <4>1. m + 1 \in Morsels /\ m + 1 # m
        BY <1>4, <3>1, MorselNumbers, Zenon
      <4>2. buckets'[m + 1] = buckets[m + 1] /\ buckets[m + 1] \subseteq [Parts -> Seq(BuildRows)]
        BY <1>7, <4>1, Zenon DEF IndInv, Pass1Inv, Pass1Typed
      <4>3. part'[w] = p
        BY <1>2, Zenon
      <4>4. BucketRows(w)' \in Seq(BuildRows)
        BY <1>4, <1>6, <4>2, <4>3, EmptySeq, Zenon DEF BucketRows
      <4> QED BY <4>4, LengthNat, Zenon
    <3> QED BY <1>6, <3>1, Zenon
  <2>5. /\ Filled(store, p, dst[w], Copied(w)) /\ Chained(store, p, tbl[w], dst[w])
        /\ Vacant(store, dst[w], Past(p))
    BY <1>5, Zenon DEF CopyingOf
  <2> QED BY <1>2, <1>6, <2>2, <2>3, <2>4, <2>5, Zenon DEF CopyingOf
<1>21. Copying'
  BY <1>2, <1>19, <1>20, Zenon DEF Copying
<1>22. Publishing'
  BY <1>1, <1>2, Zenon DEF IndInv, Pass2Inv, Publishing
<1> QED BY <1>11, <1>13, <1>15, <1>18, <1>21, <1>22, Zenon DEF Pass2Inv

(* A worker publishes its partition. *)
LEMMA PublishPartStep ==
  ASSUME IndInv, NEW w \in Pass2Workers, PublishPart(w)
  PROVE  Pass2Inv'
<1> DEFINE p == part[w]
<1>1. callerPc = "pass2" /\ Started /\ result = "none" /\ pc2[w] = "copy" /\ mi[w] = NumMorsels
  BY Pass2Running, Zenon DEF PublishPart, IndInv, Pass2Inv
<1>2. /\ UNCHANGED <<callerPc, result, counts, offsets, cursor, buckets, part, mi, kr, dst, tbl, store>>
      /\ parts' = [parts EXCEPT ![p] = {tbl[w]}] /\ pc2' = [pc2 EXCEPT ![w] = "claim"]
  BY Zenon DEF PublishPart, outsidePass2Worker
<1>3. p \in Parts /\ p \in Nat
  BY <1>1, CopierAt, Zenon
<1>4. CopyingOf(w)
  BY <1>1, Zenon DEF IndInv, Pass2Inv, Copying
<1>5. /\ pc2'[w] = "claim" /\ \A v \in Pass2Workers : v # w => pc2'[v] = pc2[v]
      /\ parts'[p] = {tbl[w]} /\ \A q \in Parts : q # p => parts'[q] = parts[q]
      /\ tbl[w] \in [Keys -> Seq(Indices)]
  BY <1>2, <1>3, Zenon DEF IndInv, Pass2Inv, Pass2Typed
<1>6. Pass2Typed'
  <2>1. pc2' \in [Pass2Workers -> {"off", "claim", "copy", "done"}]
    BY <1>2, Zenon DEF IndInv, Pass2Inv, Pass2Typed
  <2>2. parts' \in [Parts -> SUBSET [Keys -> Seq(Indices)]]
    BY <1>2, <1>3, <1>5, ZenonT(40) DEF IndInv, Pass2Inv, Pass2Typed
  <2>3. AtMostOne(parts'[p])
    BY <1>5, Zenon DEF AtMostOne
  <2>4. \A q \in Parts : q # p => AtMostOne(parts'[q])
    BY <1>5, Zenon DEF IndInv, Pass2Inv, Pass2Typed
  <2> QED BY <1>2, <2>1, <2>2, <2>3, <2>4, Zenon DEF IndInv, Pass2Inv, Pass2Typed
<1>7. Started'
  BY <1>1, <1>2, Zenon DEF Started
<1>8. Phases'
  BY <1>1, <1>2, <1>7, Zenon DEF Phases, IndInv, Pass2Inv
<1>9. \A v \in Pass2Workers : \A q : Copies(v, q)' <=> Copies(v, q) /\ v # w
  BY <1>2, <1>5, Zenon DEF Copies
<1>10. \A v \in Pass2Workers : v # w /\ pc2[v] = "copy" => part[v] \in Parts /\ part[v] # p
  BY <1>1, Zenon DEF IndInv, Pass2Inv, Pass2Typed, Claiming
<1>11. p < cursor /\ cursor \in Nat
  BY <1>1, Zenon DEF IndInv, Pass2Inv, Claiming, Pass1Inv, Pass1Typed
<1>12. Claiming'
  <2>1. \A u, v \in Pass2Workers :
          pc2'[u] = "copy" /\ pc2'[v] = "copy" /\ part'[u] = part'[v] => u = v
    <3>1. \A v \in Pass2Workers : pc2'[v] = "copy" => pc2[v] = "copy"
      BY <1>5, Zenon
    <3> QED BY <1>2, <3>1, Zenon DEF IndInv, Pass2Inv, Claiming
  <2>2. \A v \in Pass2Workers : pc2'[v] = "copy" => part'[v] < cursor' /\ parts'[part'[v]] = {}
    <3> SUFFICES ASSUME NEW v \in Pass2Workers, pc2'[v] = "copy"
                 PROVE  part[v] < cursor /\ parts'[part[v]] = {}
      BY <1>2, Zenon
    <3>1. v # w /\ pc2[v] = "copy"
      BY <1>5, Zenon
    <3>2. parts'[part[v]] = parts[part[v]]
      BY <1>5, <1>10, <3>1, Zenon
    <3> QED BY <3>1, <3>2, Zenon DEF IndInv, Pass2Inv, Claiming
  <2>3. \A v \in Pass2Workers : pc2'[v] = "done" => cursor' >= NumParts
    BY <1>2, <1>5, Zenon DEF IndInv, Pass2Inv, Claiming
  <2>4. ASSUME NEW q \in Parts, q < cursor
        PROVE  parts'[q] # {} \/ \E v \in Pass2Workers : Copies(v, q)'
    <3>1. CASE q = p
      BY <1>5, <3>1, Zenon
    <3>2. CASE q # p
      <4>1. parts[q] # {} \/ \E v \in Pass2Workers : Copies(v, q)
        BY <1>1, <2>4, Zenon DEF IndInv, Pass2Inv, Claiming
      <4>2. \A v \in Pass2Workers : Copies(v, q) => v # w
        BY <3>2, Zenon DEF Copies
      <4> QED BY <1>5, <1>9, <3>2, <4>1, <4>2, Zenon
    <3> QED BY <3>1, <3>2, Zenon
  <2>5. \A q \in Parts : q >= cursor => parts'[q] = {}
    <3> SUFFICES ASSUME NEW q \in Parts, q >= cursor PROVE parts'[q] = {}
      BY Zenon
    <3>1. q # p
      BY <1>3, <1>11
    <3> QED BY <1>1, <1>5, <3>1, Zenon DEF IndInv, Pass2Inv, Claiming
  <2> QED BY <1>2, <2>1, <2>2, <2>3, <2>4, <2>5, Zenon DEF Claiming
<1>13. Bucketed'
  BY <1>1, <1>2, <1>9, Zenon DEF IndInv, Pass2Inv, Bucketed
<1>14. Copying'
  <2> SUFFICES ASSUME NEW v \in Pass2Workers, pc2'[v] = "copy" PROVE CopyingOf(v)'
    BY Zenon DEF Copying
  <2>1. pc2[v] = "copy" /\ buckets' = buckets /\ mi'[v] = mi[v] /\ part'[v] = part[v]
    BY <1>2, <1>5, Zenon
  <2>2. BucketRows(v)' = BucketRows(v)
    BY ONLY <2>1 DEF BucketRows
  <2> QED BY <1>2, <2>1, <2>2, CopierFrame, Zenon
<1>15. Filled(store, p, Past(p), PartRows(p)) /\ Chained(store, p, tbl[w], Past(p))
  <2>1. kr[w] = 0 /\ dst[w] = First(p) + Cardinality(Earlier(NumMorsels, p)) + 0
    BY <1>1, <1>4, Zenon DEF CopyingOf
  <2>2. Earlier(NumMorsels, p) = PartRows(p)
    BY EarlierRows, Zenon
  <2>3. dst[w] = Past(p)
    <3>1. /\ First(p) \in Nat /\ Cardinality(PartRows(p)) \in Nat
          /\ Past(p) = First(p) + Cardinality(PartRows(p))
      BY <1>3, Ranges, Zenon
    <3> QED BY <2>1, <2>2, <3>1
  <2>4. \A r : r \in Copied(w) <=> r \in Earlier(NumMorsels, p)
    <3>1. \A i \in 1 .. kr[w] : FALSE
      BY <2>1
    <3> QED BY <1>1, <3>1, Zenon DEF Copied, Earlier
  <2>5. Copied(w) = PartRows(p)
    BY <2>2, <2>4, Zenon
  <2> QED BY <1>4, <2>3, <2>5, Zenon DEF CopyingOf
<1>16. Publishing'
  <2> SUFFICES ASSUME NEW q \in Parts
               PROVE  /\ q >= cursor => Vacant(store, First(q), Past(q))
                      /\ \A t \in parts'[q] : /\ Filled(store, q, Past(q), PartRows(q))
                                              /\ Chained(store, q, t, Past(q))
    BY <1>2, Zenon DEF Publishing
  <2>1. /\ q >= cursor => Vacant(store, First(q), Past(q))
        /\ \A t \in parts[q] : Filled(store, q, Past(q), PartRows(q)) /\ Chained(store, q, t, Past(q))
    BY <1>1, Zenon DEF IndInv, Pass2Inv, Publishing
  <2>2. CASE q = p
    BY <1>5, <1>15, <2>1, <2>2, Zenon
  <2>3. CASE q # p
    BY <1>5, <2>1, <2>3, Zenon
  <2> QED BY <2>2, <2>3, Zenon
<1> QED BY <1>6, <1>8, <1>12, <1>13, <1>14, <1>16, Zenon DEF Pass2Inv

(* Every step keeps what pass 2 has done. *)
LEMMA Pass2Steps == ASSUME IndInv, [Next]_vars PROVE Pass2Inv'
<1> USE DEF IndInv
<1>1. ASSUME NEW w \in Pass2Workers, Pass2Step(w) PROVE Pass2Inv'
  BY <1>1, ClaimPartStep, CopyRowStep, NextBucketStep, PublishPartStep, Zenon DEF Pass2Step
<1>2. CASE StartPass2
  BY <1>2, StartPass2Step, Zenon
<1>3. ASSUME callerPc = "pass1", UNCHANGED pass2, callerPc' = "pass1", result' = result
      PROVE  Pass2Inv'
  <2>1. result = "none"
    BY <1>3, Zenon DEF Pass2Inv, Phases
  <2>2. ~Started /\ ~Started'
    BY <1>3, <2>1, Zenon DEF Started
  <2> QED BY <1>3, <2>1, <2>2, IdleStep, Zenon
<1>4. ASSUME NEW w \in Pass1Workers, Pass1Step(w) PROVE Pass2Inv'
  <2>1. UNCHANGED <<callerPc, pass2, result>> /\ pc[w] # "sent"
    BY <1>4, Zenon DEF Pass1Step, ClaimMorsel, ReadBatch, EndMorsel, MorselFails, MorselCanceled, Send
  <2>2. callerPc = "pass1"
    BY <2>1, Zenon DEF Channel, Accounts
  <2> QED BY <1>3, <2>1, <2>2, Zenon
<1>5. CASE Receive \/ CancelCtx
  BY <1>3, <1>5, Zenon DEF Receive, CancelCtx
<1>6. CASE Pass1Fails
  <2>1. callerPc = "pass1" /\ result' = "err" /\ callerPc' = "returned" /\ UNCHANGED pass2
    BY <1>6, Zenon DEF Pass1Fails
  <2>2. ~Started /\ ~Started'
    BY <2>1, Zenon DEF Started, Pass2Inv, Phases
  <2> QED BY <2>1, <2>2, IdleStep, Zenon
<1>7. CASE Pass2Done
  <2>1. /\ callerPc = "pass2" /\ result' = "ok" /\ callerPc' = "returned"
        /\ UNCHANGED <<cursor, buckets, pass2>> /\ \A w \in Pass2Workers : pc2[w] = "done"
    BY <1>7, Zenon DEF Pass2Done
  <2>2. Started /\ Started'
    BY <2>1, Zenon DEF Started
  <2> QED BY <2>1, <2>2, SameStep, Zenon
<1>8. CASE UNCHANGED vars
  <2>1. UNCHANGED <<cursor, buckets, pass2, callerPc, result>>
    BY <1>8, Zenon DEF vars
  <2>2. Started' <=> Started
    BY <2>1, Zenon DEF Started
  <2> QED BY <2>1, <2>2, SameStep, Zenon DEF Pass2Inv, Phases
<1> QED BY <1>1, <1>2, <1>4, <1>5, <1>6, <1>7, <1>8, Zenon DEF Next, CallerStep

-----------------------------------------------------------------------------
(***************************************************************************)
(* The theorems.                                                           *)
(***************************************************************************)

(***************************************************************************)
(* The three parts of the invariant together are inductive: what is on the *)
(* error channel, what pass 1 filed and what pass 2 wrote agree in every   *)
(* reachable state of BuildSharedHashTableParallel.                        *)
(***************************************************************************)
THEOREM Invariance == Spec => []IndInv
<1>1. Init => IndInv
  BY ChannelInit, Pass1Init, Pass2Init, Zenon DEF IndInv
<1>2. IndInv /\ [Next]_vars => IndInv'
  BY ChannelStep, Pass1Steps, Pass2Steps, Zenon DEF IndInv
<1> QED BY <1>1, <1>2, PTL DEF Spec

(* A set with at most one element. *)
LEMMA AtMostOneCardinality == ASSUME NEW S, AtMostOne(S) PROVE Cardinality(S) <= 1
<1>1. CASE S = {}
  BY <1>1, FS_EmptySet
<1>2. CASE S # {}
  <2>1. PICK x \in S : S = {x}
    BY <1>2, Zenon DEF AtMostOne
  <2>2. Cardinality({x}) = 1
    BY FS_Singleton, Zenon
  <2> QED BY <2>1, <2>2
<1> QED BY <1>1, <1>2, Zenon

(***************************************************************************)
(* Every variable of the build keeps its type: no slot of buckets or parts *)
(* is filled twice, every cursor and store index stays within its range.   *)
(***************************************************************************)
THEOREM TypeCorrect == Spec => []TypeOK
<1>1. ASSUME IndInv PROVE TypeOK
  <2> USE <1>1 DEF IndInv
  <2>1. received \in 0 .. Cardinality(Pass1Workers)
    <3>1. received \in Nat /\ Len(errCh) \in Nat /\ Cardinality(SentSet) = received + Len(errCh)
      BY LenProperties, Zenon DEF Channel, ChannelTyped, Accounts
    <3> QED BY <3>1, SentFinite
  <2>2. \A m \in Morsels : Cardinality(buckets[m]) <= 1
    BY AtMostOneCardinality, Zenon DEF Pass1Inv, Pass1Typed
  <2>3. \A p \in Parts : Cardinality(parts[p]) <= 1
    BY AtMostOneCardinality, Zenon DEF Pass2Inv, Pass2Typed
  <2>4. \A d \in DOMAIN store : d \in Indices /\ store[d] \subseteq BuildRows
    <3>1. CASE ~Started
      BY <3>1 DEF Pass2Inv, Phases
    <3>2. CASE Started
      <4>1. store \in [0 .. First(NumParts) - 1 -> SUBSET BuildRows]
        BY <3>2, Zenon DEF Pass2Inv, Phases
      <4>2. First(NumParts) \in Indices /\ Cardinality(BuildRows) \in Nat
        BY Constants, Ranges, RowSets, Zenon
      <4>3. \A d \in 0 .. First(NumParts) - 1 : d \in Indices
        BY <4>2 DEF Indices
      <4> QED BY <4>1, <4>3, Zenon
    <3> QED BY <3>1, <3>2, Zenon
  <2>5. canceled \in BOOLEAN /\ ctxCanceled \in BOOLEAN
    BY Zenon DEF Channel, ChannelTyped
  <2>6. /\ callerPc \in {"pass1", "pass2", "returned"}
        /\ pc \in [Pass1Workers -> {"claim", "drain", "send", "sent"}]
        /\ err \in [Pass1Workers -> {"nil", "fault", "canceled"}]
        /\ errCh \in Seq({"nil", "fault", "canceled"})
        /\ firstErr \in {"nil", "fault", "canceled"}
        /\ faults \in 0 .. MaxFaults
        /\ result \in {"none", "ok", "err", "overflow"}
    BY Zenon DEF Channel, ChannelTyped, Errs
  <2>7. /\ cursor \in Nat
        /\ start \in [Pass1Workers -> 0 .. TotalRGs - 1]
        /\ at \in [Pass1Workers -> 0 .. Len(Build)]
        /\ local \in [Pass1Workers -> [Parts -> Seq(BuildRows)]]
        /\ buckets \in [Morsels -> SUBSET [Parts -> Seq(BuildRows)]]
    BY Zenon DEF Pass1Inv, Pass1Typed
  <2>8. Pass2Typed
    BY Zenon DEF Pass2Inv
  <2> QED BY <2>1, <2>2, <2>3, <2>4, <2>5, <2>6, <2>7, <2>8, Zenon DEF TypeOK, Pass2Typed
<1> QED BY <1>1, Invariance, PTL

(* In a finished build every partition is published, and its range of the  *)
(* store holds its rows.                                                   *)
LEMMA Finished ==
  ASSUME IndInv, result = "ok", NEW p \in Parts
  PROVE  /\ parts[p] # {} /\ AtMostOne(parts[p]) /\ parts[p] \subseteq [Keys -> Seq(Indices)]
         /\ \A t \in parts[p] :
              Filled(store, p, Past(p), PartRows(p)) /\ Chained(store, p, t, Past(p))
<1> USE DEF IndInv, Pass2Inv
<1>1. Started /\ \A w \in Pass2Workers : pc2[w] = "done"
  BY Zenon DEF Started, Phases
<1>2. PICK w \in Pass2Workers : pc2[w] = "done"
  BY <1>1, Constants, Zenon
<1>3. p < cursor
  <2>1. cursor >= NumParts
    BY <1>2, Zenon DEF Claiming
  <2>2. cursor \in Nat /\ NumParts \in Nat /\ p \in Nat /\ p < NumParts
    BY Constants DEF Pass1Inv, Pass1Typed, Parts
  <2> QED BY <2>1, <2>2
<1>4. parts[p] # {}
  BY <1>1, <1>3, Zenon DEF Claiming, Copies
<1> QED BY <1>1, <1>4, Zenon DEF Publishing, Pass2Typed

(***************************************************************************)
(* exec/parallel_join.go, pass 2, "Distinct goroutines write distinct      *)
(* store rows": no index is written twice, a worker stays in the range of  *)
(* its partition, and a build that succeeds has written every index.       *)
(***************************************************************************)
THEOREM StoreRows == Spec => []StoreWrittenOnce
<1>1. ASSUME IndInv PROVE StoreWrittenOnce
  <2> USE <1>1 DEF IndInv, Pass2Inv
  <2>1. ASSUME NEW d \in DOMAIN store PROVE Cardinality(store[d]) <= 1
    <3>1. Started /\ d \in 0 .. First(NumParts) - 1
      <4>1. store # <<>>
        BY <2>1
      <4>2. Started
        BY <4>1, Zenon DEF Phases
      <4>3. DOMAIN store = 0 .. First(NumParts) - 1
        BY <4>2, Zenon DEF Phases
      <4> QED BY <2>1, <4>2, <4>3, Zenon
    <3>2. PICK p \in Parts : d \in First(p) .. Past(p) - 1
      BY <3>1, InSomeRange, Zenon
    <3>3. store[d] = {} \/ \E r : store[d] = {r}
      <4>1. CASE p >= cursor
        <5>1. Vacant(store, First(p), Past(p))
          BY <3>1, <4>1, Zenon DEF Publishing
        <5> QED BY <3>2, <5>1, Zenon DEF Vacant
      <4>2. CASE parts[p] # {}
        <5>1. Filled(store, p, Past(p), PartRows(p))
          BY <3>1, <4>2, Zenon DEF Publishing
        <5> QED BY <3>2, <5>1, Zenon DEF Filled
      <4>3. CASE \E w \in Pass2Workers : Copies(w, p)
        <5>1. PICK w \in Pass2Workers : pc2[w] = "copy" /\ part[w] = p
          BY <4>3, Zenon DEF Copies
        <5>2. Filled(store, p, dst[w], Copied(w)) /\ Vacant(store, dst[w], Past(p))
          BY <5>1, Zenon DEF Copying, CopyingOf
        <5>3. dst[w] \in Nat /\ First(p) \in Nat /\ Past(p) \in Nat
          BY <5>1, CopierAt, Zenon
        <5>4. d \in First(p) .. dst[w] - 1 \/ d \in dst[w] .. Past(p) - 1
          BY <3>2, <5>3
        <5> QED BY <5>2, <5>4, Zenon DEF Filled, Vacant
      <4>4. p < cursor \/ p >= cursor
        BY Constants DEF Parts, Pass1Inv, Pass1Typed
      <4> QED BY <3>1, <4>1, <4>2, <4>3, <4>4, Zenon DEF Claiming
    <3> QED BY <3>3, FS_EmptySet, FS_Singleton
  <2>2. ASSUME NEW w \in Pass2Workers, pc2[w] = "copy"
        PROVE  dst[w] \in offsets[part[w]] .. offsets[part[w]] + counts[part[w]]
    <3> DEFINE p == part[w]
    <3>1. /\ p \in Parts /\ p \in Nat /\ dst[w] \in Nat /\ First(p) <= dst[w] /\ dst[w] <= Past(p)
      BY <2>2, CopierAt, Zenon
    <3>2. Started
      BY <2>2, Zenon DEF Phases
    <3>3. offsets[p] = First(p) /\ counts[p] = Cardinality(PartRows(p))
      BY <3>1, <3>2, Zenon DEF Phases
    <3>4. First(p) \in Nat /\ Cardinality(PartRows(p)) \in Nat /\ Past(p) = First(p) + Cardinality(PartRows(p))
      BY <3>1, Ranges, Zenon
    <3> HIDE DEF p
    <3>5. dst[w] \in offsets[p] .. offsets[p] + counts[p]
      BY <3>1, <3>3, <3>4
    <3> QED BY <3>5, Zenon DEF p
  <2>3. ASSUME result = "ok", NEW d \in DOMAIN store PROVE store[d] # {}
    <3>1. d \in 0 .. First(NumParts) - 1
      BY <2>3, Zenon DEF Phases, Started
    <3>2. PICK p \in Parts : d \in First(p) .. Past(p) - 1
      BY <3>1, InSomeRange, Zenon
    <3>3. Filled(store, p, Past(p), PartRows(p))
      BY <2>3, Finished, Zenon
    <3> QED BY <3>2, <3>3, Zenon DEF Filled
  <2> QED BY <2>1, <2>2, <2>3, Zenon DEF StoreWrittenOnce
<1> QED BY <1>1, Invariance, PTL

(***************************************************************************)
(* exec/parallel_join.go, "the chain of rows stored for each key is        *)
(* identical to what a serial drain of the same build side produces": in   *)
(* every finished table, whatever the order in which morsels and           *)
(* partitions were claimed.                                                *)
(***************************************************************************)
THEOREM SerialTable == Spec => []TableIsSerial
<1>1. ASSUME IndInv PROVE TableIsSerial
  <2> SUFFICES ASSUME result = "ok", NEW k \in Keys, NEW p \in Parts
               PROVE  LET t == CHOOSE t \in parts[p] : TRUE
                          row(i) == CHOOSE r \in store[t[k][i]] : TRUE IN
                        /\ parts[p] # {}
                        /\ {row(i) : i \in DOMAIN t[k]} =
                             IF PartOf[k] = p THEN {r \in BuildRows : KeyOf(r) = k} ELSE {}
                        /\ \A i, j \in DOMAIN t[k] : i < j => RowBefore(row(i), row(j))
    BY Zenon DEF TableIsSerial
  <2> DEFINE t == CHOOSE t \in parts[p] : TRUE
             row(i) == CHOOSE r \in store[t[k][i]] : TRUE
             top == Past(p)
  <2>1. parts[p] # {} /\ t \in parts[p] /\ t \in [Keys -> Seq(Indices)]
    BY <1>1, Finished, Zenon
  <2>2. Filled(store, p, top, PartRows(p)) /\ ChainOf(store, p, t, top, k)
    BY <1>1, <2>1, Finished, Zenon DEF Chained
  <2> HIDE DEF t, top
  <2>3. DOMAIN t[k] = 1 .. Len(t[k]) /\ Len(t[k]) \in Nat
    BY <2>1, LenProperties, Zenon
  <2>4. ASSUME NEW i \in DOMAIN t[k]
        PROVE  /\ t[k][i] \in First(p) .. top - 1 /\ store[t[k][i]] = {row(i)}
               /\ row(i) \in PartRows(p) /\ KeyOf(row(i)) = k
    <3>1. t[k][i] \in First(p) .. top - 1 /\ \E r \in store[t[k][i]] : KeyOf(r) = k
      BY <2>2, <2>3, Zenon DEF ChainOf
    <3>2. PICK r \in PartRows(p) : store[t[k][i]] = {r}
      BY <2>2, <3>1, Zenon DEF Filled
    <3>3. row(i) = r
      BY <3>2, Zenon
    <3> QED BY <3>1, <3>2, <3>3, Zenon
  <2>5. \A i, j \in DOMAIN t[k] : i < j => RowBefore(row(i), row(j))
    <3> SUFFICES ASSUME NEW i \in DOMAIN t[k], NEW j \in DOMAIN t[k], i < j
                 PROVE  RowBefore(row(i), row(j))
      BY Zenon
    <3>1. t[k][i] < t[k][j]
      BY <2>2, <2>3, Zenon DEF ChainOf
    <3>2. /\ t[k][i] \in First(p) .. top - 1 /\ t[k][j] \in First(p) .. top - 1
          /\ row(i) \in store[t[k][i]] /\ row(j) \in store[t[k][j]]
      BY <2>4, Zenon
    <3> HIDE DEF row
    <3> QED BY <2>2, <3>1, <3>2, Zenon DEF Filled
  <2>6. ASSUME NEW r
        PROVE  (\E i \in DOMAIN t[k] : row(i) = r) <=> PartOf[k] = p /\ r \in BuildRows /\ KeyOf(r) = k
    <3>1. ASSUME NEW i \in DOMAIN t[k], row(i) = r
          PROVE  PartOf[k] = p /\ r \in BuildRows /\ KeyOf(r) = k
      <4>1. row(i) \in PartRows(p) /\ KeyOf(row(i)) = k
        BY <2>4, Zenon
      <4> HIDE DEF row
      <4> QED BY <3>1, <4>1, Zenon DEF PartRows
    <3>2. ASSUME PartOf[k] = p, r \in BuildRows, KeyOf(r) = k
          PROVE  \E i \in DOMAIN t[k] : row(i) = r
      <4>1. r \in PartRows(p)
        BY <3>2, RadixAssumption, Zenon DEF PartRows
      <4>2. PICK d \in First(p) .. top - 1 : store[d] = {r}
        BY <2>2, <4>1, Zenon DEF Filled
      <4>3. PICK i \in 1 .. Len(t[k]) : t[k][i] = d
        BY <2>2, <3>2, <4>2, Zenon DEF ChainOf
      <4>4. store[t[k][i]] = {row(i)}
        BY <2>3, <2>4, Zenon
      <4> HIDE DEF row
      <4>5. row(i) = r
        BY <4>2, <4>3, <4>4, Zenon
      <4> QED BY <2>3, <4>5, Zenon
    <3> QED BY <3>1, <3>2, Zenon
  <2>7. {row(i) : i \in DOMAIN t[k]} = IF PartOf[k] = p THEN {r \in BuildRows : KeyOf(r) = k} ELSE {}
    <3> HIDE DEF row
    <3> QED BY <2>6, Zenon
  <2> HIDE DEF row
  <2> QED BY <2>1, <2>5, <2>7, Zenon DEF t, row
<1> QED BY <1>1, Invariance, PTL

(***************************************************************************)
(* exec/parallel_join.go, "firstErr is set before cancel()": the error a   *)
(* build returns is a genuine failure, or a cancellation by its caller.    *)
(***************************************************************************)
THEOREM ReportsGenuineError == Spec => []GenuineError
<1>1. IndInv => GenuineError
  BY Zenon DEF IndInv, Channel, ChannelTyped, Causes, Errs, GenuineError
<1> QED BY <1>1, Invariance, PTL

(***************************************************************************)
(* exec/parallel_join.go, errCh := make(chan error, workers): a worker     *)
(* that is about to send finds room, whoever failed or was canceled, and   *)
(* the collector never receives more than one error per worker.            *)
(***************************************************************************)
THEOREM ErrorsFindRoom ==
  Spec => [](/\ received <= Cardinality(Pass1Workers)
             /\ \A w \in Pass1Workers : pc[w] = "send" => Len(errCh) < Cardinality(Pass1Workers))
<1>1. ASSUME IndInv
      PROVE  /\ received <= Cardinality(Pass1Workers)
             /\ \A w \in Pass1Workers : pc[w] = "send" => Len(errCh) < Cardinality(Pass1Workers)
  <2>1. /\ received \in Nat /\ Len(errCh) \in Nat
        /\ Cardinality(SentSet) = received + Len(errCh)
    BY <1>1, LenProperties, Zenon DEF IndInv, Channel, ChannelTyped, Accounts
  <2>2. ASSUME NEW w \in Pass1Workers, pc[w] = "send"
        PROVE  Cardinality(SentSet) < Cardinality(Pass1Workers)
    BY <2>2, SentFinite
  <2> QED BY <2>1, <2>2, SentFinite
<1> QED BY <1>1, Invariance, PTL
=============================================================================
