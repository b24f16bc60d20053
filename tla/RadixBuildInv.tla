---------------------------- MODULE RadixBuildInv ----------------------------
(***************************************************************************)
(* The inductive invariant of RadixBuild, the facts about build rows,      *)
(* their order and their places in the store it rests on, and its parts    *)
(* about the error channel and about pass 1: for any build side, any       *)
(* number of workers, row groups and partitions, and any morsel size.      *)
(***************************************************************************)
EXTENDS RadixBuild, FiniteSetTheorems, SequenceTheorems, WellFoundedInduction, TLAPS

(* The rows of partition p, those of the partitions before it, and those   *)
(* of p in morsel m or in an earlier one.                                  *)
PartRows(p) == {r \in BuildRows : KeyOf(r) # Null /\ PartOf[KeyOf(r)] = p}
Before(p) == {r \in BuildRows : KeyOf(r) # Null /\ PartOf[KeyOf(r)] < p}
MorselOf(r) == Build[r[1]].rg \div MorselSize
MorselRows(m, p) == {r \in PartRows(p) : MorselOf(r) = m}
Earlier(m, p) == {r \in PartRows(p) : MorselOf(r) < m}
DrainedRows(m, p, b) == {r \in MorselRows(m, p) : r[1] <= b}

(* The range of the store that belongs to p. *)
First(p) == Cardinality(Before(p))
Past(p) == Cardinality(Before(p + 1))

(* s lists the rows of S in file order. *)
Serial(s, S) ==
  /\ s \in Seq(BuildRows)
  /\ \A i \in 1 .. Len(s) : s[i] \in S
  /\ \A r \in S : \E i \in 1 .. Len(s) : s[i] = r
  /\ \A i, j \in 1 .. Len(s) : i < j => RowBefore(s[i], s[j])

-----------------------------------------------------------------------------
(***************************************************************************)
(* The error channel.                                                      *)
(***************************************************************************)
Errs == {"nil", "fault", "canceled"}

(* Somebody other than the collector is to blame for a cancellation: a     *)
(* genuine failure was received, or the caller canceled.                   *)
Blamed == firstErr = "fault" \/ ctxCanceled

(* The workers that have sent. *)
SentSet == {w \in Pass1Workers : pc[w] = "sent"}

ChannelTyped ==
  /\ callerPc \in {"pass1", "pass2", "returned"}
  /\ pc \in [Pass1Workers -> {"claim", "drain", "send", "sent"}]
  /\ err \in [Pass1Workers -> Errs]
  /\ errCh \in Seq(Errs)
  /\ received \in Nat
  /\ firstErr \in Errs
  /\ canceled \in BOOLEAN /\ ctxCanceled \in BOOLEAN
  /\ faults \in 0 .. MaxFaults
  /\ result \in {"none", "ok", "err", "overflow"}

(* A cancellation, wherever it is on its way to the collector, has         *)
(* somebody to blame.                                                      *)
Causes ==
  /\ canceled => Blamed
  /\ \A w \in Pass1Workers : err[w] = "canceled" => Blamed
  /\ \A i \in 1 .. Len(errCh) : errCh[i] = "canceled" => Blamed
  /\ firstErr = "canceled" => ctxCanceled
  /\ result = "err" => firstErr # "nil"

(* What was sent is in the channel or was received, an error that was sent *)
(* is in the channel or known to the collector, and pass 1 is over when    *)
(* every worker has sent.                                                  *)
Accounts ==
  /\ Cardinality(SentSet) = received + Len(errCh)
  /\ \A w \in Pass1Workers : pc[w] = "sent" /\ err[w] # "nil" =>
       firstErr # "nil" \/ \E i \in 1 .. Len(errCh) : errCh[i] # "nil"
  /\ callerPc # "pass1" => \A w \in Pass1Workers : pc[w] = "sent"

Channel == ChannelTyped /\ Causes /\ Accounts

-----------------------------------------------------------------------------
(***************************************************************************)
(* Pass 1.                                                                 *)
(***************************************************************************)
AtMostOne(S) == \A x, y \in S : x = y

Pass1Typed ==
  /\ cursor \in Nat
  /\ start \in [Pass1Workers -> 0 .. TotalRGs - 1]
  /\ at \in [Pass1Workers -> 0 .. Len(Build)]
  /\ local \in [Pass1Workers -> [Parts -> Seq(BuildRows)]]
  /\ buckets \in [Morsels -> SUBSET [Parts -> Seq(BuildRows)]]
  /\ \A m \in Morsels : AtMostOne(buckets[m])

(* A worker has the rows of its morsel up to the batch it is at. *)
Draining ==
  \A w \in Pass1Workers : pc[w] = "drain" =>
    /\ BucketOf(w) \in Morsels /\ start[w] = BucketOf(w) * MorselSize
    /\ \A p \in Parts : Serial(local[w][p], DrainedRows(BucketOf(w), p, at[w]))

(* A filed bucket has all rows of its morsel; a claimed morsel is filed,   *)
(* being drained, or was given up with an error; and a worker that is      *)
(* through has an error or found no morsel left.                           *)
Filing ==
  callerPc = "pass1" =>
    /\ \A m \in Morsels : \A b \in buckets[m] : \A p \in Parts : Serial(b[p], MorselRows(m, p))
    /\ \E j \in 0 .. cursor : cursor = j * MorselSize
    /\ \A m \in Morsels : m * MorselSize < cursor =>
         \/ buckets[m] # {}
         \/ \E w \in Pass1Workers : err[w] # "nil" \/ (pc[w] = "drain" /\ BucketOf(w) = m)
    /\ \A w \in Pass1Workers : pc[w] \in {"send", "sent"} => err[w] # "nil" \/ cursor >= TotalRGs

Pass1Inv == Pass1Typed /\ Draining /\ Filing

-----------------------------------------------------------------------------
(***************************************************************************)
(* Pass 2.                                                                 *)
(***************************************************************************)
Started == callerPc = "pass2" \/ result = "ok"

Copies(w, p) == pc2[w] = "copy" /\ part[w] = p

Pass2Typed ==
  /\ pc2 \in [Pass2Workers -> {"off", "claim", "copy", "done"}]
  /\ part \in [Pass2Workers -> Parts]
  /\ mi \in [Pass2Workers -> 0 .. NumMorsels]
  /\ kr \in [Pass2Workers -> Indices]
  /\ dst \in [Pass2Workers -> Indices]
  /\ tbl \in [Pass2Workers -> [Keys -> Seq(Indices)]]
  /\ parts \in [Parts -> SUBSET [Keys -> Seq(Indices)]]
  /\ \A p \in Parts : AtMostOne(parts[p])
  /\ counts \in [Parts -> Indices] /\ offsets \in [Parts -> Indices]

Phases ==
  /\ callerPc \in {"pass1", "pass2"} => result = "none"
  /\ result = "ok" => \A w \in Pass2Workers : pc2[w] = "done"
  /\ ~Started => store = <<>> /\ \A w \in Pass2Workers : pc2[w] = "off"
  /\ ~Started => \A p \in Parts : parts[p] = {}
  /\ Started => \A p \in Parts : offsets[p] = First(p) /\ counts[p] = Cardinality(PartRows(p))
  /\ Started => store \in [0 .. First(NumParts) - 1 -> SUBSET BuildRows]

(* A partition is claimed once: it is being copied, or published. *)
Claiming ==
  /\ \A v, w \in Pass2Workers :
       pc2[v] = "copy" /\ pc2[w] = "copy" /\ part[v] = part[w] => v = w
  /\ \A w \in Pass2Workers : pc2[w] = "copy" => part[w] < cursor /\ parts[part[w]] = {}
  /\ \A w \in Pass2Workers : pc2[w] = "done" => cursor >= NumParts
  /\ Started => \A p \in Parts :
       /\ p < cursor => parts[p] # {} \/ \E w \in Pass2Workers : Copies(w, p)
       /\ p >= cursor => parts[p] = {}

(* What nobody has copied is still in its bucket. *)
Bucketed ==
  Started => \A m \in Morsels : buckets[m] # {} /\
    \A b \in buckets[m], p \in Parts :
      p >= cursor \/ (\E w \in Pass2Workers : Copies(w, p) /\ mi[w] <= m)
        => Serial(b[p], MorselRows(m, p))

(* The store st from p's first index to top has the rows of S in order,    *)
(* and the chain of each key in t is the indices of the rows with that     *)
(* key.                                                                    *)
Filled(st, p, top, S) ==
  /\ \A d \in First(p) .. top - 1 : \E r \in S : st[d] = {r}
  /\ \A r \in S : \E d \in First(p) .. top - 1 : st[d] = {r}
  /\ \A d, e \in First(p) .. top - 1 :
       d < e => \A r \in st[d], s \in st[e] : RowBefore(r, s)

ChainOf(st, p, t, top, k) ==
  /\ \A i \in 1 .. Len(t[k]) :
       t[k][i] \in First(p) .. top - 1 /\ \E r \in st[t[k][i]] : KeyOf(r) = k
  /\ \A d \in First(p) .. top - 1 :
       (\E r \in st[d] : KeyOf(r) = k) => \E i \in 1 .. Len(t[k]) : t[k][i] = d
  /\ \A i, j \in 1 .. Len(t[k]) : i < j => t[k][i] < t[k][j]

Chained(st, p, t, top) == \A k \in Keys : ChainOf(st, p, t, top, k)

Vacant(st, from, to) == \A d \in from .. to - 1 : st[d] = {}

(* The rows of its partition a worker has copied. *)
Copied(w) ==
  {r \in PartRows(part[w]) :
     MorselOf(r) < mi[w] \/ \E i \in 1 .. kr[w] : r = BucketRows(w)[i]}

CopyingOf(w) ==
  /\ mi[w] < NumMorsels => kr[w] <= Len(BucketRows(w))
  /\ mi[w] = NumMorsels => kr[w] = 0
  /\ dst[w] = First(part[w]) + Cardinality(Earlier(mi[w], part[w])) + kr[w]
  /\ Filled(store, part[w], dst[w], Copied(w))
  /\ Chained(store, part[w], tbl[w], dst[w])
  /\ Vacant(store, dst[w], Past(part[w]))

Copying == \A w \in Pass2Workers : pc2[w] = "copy" => CopyingOf(w)

Publishing ==
  Started => \A p \in Parts :
    /\ p >= cursor => Vacant(store, First(p), Past(p))
    /\ \A t \in parts[p] :
         Filled(store, p, Past(p), PartRows(p)) /\ Chained(store, p, t, Past(p))

Pass2Inv == Pass2Typed /\ Phases /\ Claiming /\ Bucketed /\ Copying /\ Publishing

IndInv == Channel /\ Pass1Inv /\ Pass2Inv

-----------------------------------------------------------------------------
(***************************************************************************)
(* Numbers and morsels.                                                    *)
(***************************************************************************)

(* A non-empty set of naturals has a least element. *)
LEMMA LeastNatural ==
  ASSUME NEW S \in SUBSET Nat, S # {}
  PROVE  \E x \in S : \A y \in S : x <= y
<1>1. PICK x \in S : \A y \in S : ~(<<y, x>> \in OpToRel(<, Nat))
  BY NatLessThanWellFounded, WFMin, Zenon
<1>2. \A y \in S : ~(y < x)
  BY <1>1, Zenon DEF OpToRel
<1>3. \A y \in S : x <= y
  BY <1>2
<1> QED BY <1>3, Zenon

(* m is the quotient of n by q exactly if n lies in the m-th interval of   *)
(* length q.                                                               *)
LEMMA Quotient ==
  ASSUME NEW n \in Nat, NEW q \in Nat \ {0}, NEW m \in Nat
  PROVE  /\ n \div q \in Nat
         /\ n \div q = m <=> m * q <= n /\ n < m * q + q
<1> DEFINE d == n \div q
<1>1. d \in Nat /\ q * d <= n /\ n < q * d + q
  OBVIOUS
<1> HIDE DEF d
<1>2. q * d = d * q /\ q * m = m * q
  BY <1>1
<1>3. d < m => (d + 1) * q <= m * q
  BY <1>1
<1>4. m < d => (m + 1) * q <= d * q
  BY <1>1
<1>5. (d + 1) * q = d * q + q /\ (m + 1) * q = m * q + q
  BY <1>1
<1>6. d * q \in Nat /\ m * q \in Nat
  BY <1>1
<1>7. d = m <=> m * q <= n /\ n < m * q + q
  BY <1>1, <1>2, <1>3, <1>4, <1>5, <1>6
<1> QED BY <1>1, <1>7, Zenon DEF d

(* The types of the constants. *)
LEMMA Constants ==
  /\ MorselSize \in Nat \ {0} /\ TotalRGs \in Nat \ {0} /\ NumParts \in Nat \ {0}
  /\ NumMorsels \in Nat
  /\ Len(Build) \in Nat /\ DOMAIN Build = 1 .. Len(Build)
  /\ IsFiniteSet(Pass1Workers) /\ Pass1Workers # {}
  /\ IsFiniteSet(Pass2Workers) /\ Pass2Workers # {}
<1>1. MorselSize \in Nat \ {0} /\ NumWorkers \in Int /\ TotalRGs \in Nat \ {0} /\ NumParts \in Nat \ {0}
  BY RadixAssumption DEF MorselSize
<1>2. NumMorsels \in Nat
  <2>1. TotalRGs + MorselSize - 1 \in Nat
    BY <1>1
  <2> QED BY <1>1, <2>1, Quotient, Zenon DEF NumMorsels
<1>3. Len(Build) \in Nat /\ DOMAIN Build = 1 .. Len(Build)
  BY RadixAssumption, LenProperties, Zenon
<1>4. Clamped(IF NumWorkers < NumMorsels THEN NumWorkers ELSE NumMorsels) \in Nat \ {0}
  BY <1>1, <1>2 DEF Clamped
<1>5. Clamped(IF NumWorkers < NumParts THEN NumWorkers ELSE NumParts) \in Nat \ {0}
  BY <1>1 DEF Clamped
<1>6. IsFiniteSet(Pass1Workers) /\ Pass1Workers # {}
  <2>1. 1 \in Pass1Workers
    BY <1>4 DEF Pass1Workers
  <2> QED BY <2>1, <1>4, FS_Interval DEF Pass1Workers
<1>7. IsFiniteSet(Pass2Workers) /\ Pass2Workers # {}
  <2>1. 1 \in Pass2Workers
    BY <1>5 DEF Pass2Workers
  <2> QED BY <2>1, <1>5, FS_Interval DEF Pass2Workers
<1> QED BY <1>1, <1>2, <1>3, <1>6, <1>7, Zenon

(* Morsels are numbered from 0, and lengths are natural numbers. *)
LEMMA MorselNumbers ==
  /\ Morsels \subseteq Nat
  /\ \A m \in Nat : m + 1 < NumMorsels => m + 1 \in Morsels /\ m + 1 # m
<1> USE Constants
<1>1. Morsels \subseteq Nat
  BY DEF Morsels
<1>2. \A m \in Nat : m + 1 < NumMorsels => m + 1 \in Morsels /\ m + 1 # m
  BY DEF Morsels
<1> QED BY <1>1, <1>2, Zenon

LEMMA LengthNat == ASSUME NEW S, NEW s \in Seq(S) PROVE 0 <= Len(s)
<1>1. Len(s) \in Nat
  BY LenProperties, Zenon
<1> QED BY <1>1

(* What a number below another one is. *)
LEMMA LessThan == \A i, n \in Nat : i < n => i # n /\ i + 1 <= n
OBVIOUS

(* The morsels are those that begin inside the file. *)
LEMMA MorselBegins ==
  ASSUME NEW m \in Nat
  PROVE  m \in Morsels <=> m * MorselSize < TotalRGs
<1> DEFINE q == MorselSize
<1> DEFINE n == TotalRGs + q - 1
<1>1. q \in Nat \ {0} /\ n \in Nat /\ TotalRGs \in Nat /\ n = TotalRGs + q - 1
  BY Constants
<1>2. NumMorsels = n \div q /\ NumMorsels \in Nat
  BY Constants, Zenon DEF NumMorsels
<1> HIDE DEF q, n
<1>3. NumMorsels * q <= n /\ n < NumMorsels * q + q
  BY <1>1, <1>2, Quotient, Zenon
<1>4. m < NumMorsels => (m + 1) * q <= NumMorsels * q
  BY <1>1, <1>2
<1>5. NumMorsels <= m => NumMorsels * q <= m * q
  BY <1>1, <1>2
<1>6. (m + 1) * q = m * q + q /\ m * q \in Nat /\ NumMorsels * q \in Nat
  BY <1>1, <1>2
<1>7. m < NumMorsels <=> m * q < TotalRGs
  BY <1>1, <1>2, <1>3, <1>4, <1>5, <1>6
<1>8. m \in Morsels <=> m < NumMorsels
  BY <1>2 DEF Morsels
<1> QED BY <1>7, <1>8, Zenon DEF q

-----------------------------------------------------------------------------
(***************************************************************************)
(* Build rows and their order.                                             *)
(***************************************************************************)

(* A batch of the build side. *)
LEMMA BatchType ==
  ASSUME NEW b \in DOMAIN Build
  PROVE  /\ b \in 1 .. Len(Build)
         /\ Build[b].rg \in 0 .. TotalRGs - 1
         /\ Build[b].keys \in Seq(Keys \cup {Null})
         /\ Len(Build[b].keys) \in Nat
         /\ DOMAIN Build[b].keys = 1 .. Len(Build[b].keys)
<1>1. Build[b] \in [rg : 0 .. TotalRGs - 1, keys : Seq(Keys \cup {Null})]
  BY Constants, RadixAssumption, ElementOfSeq, Zenon
<1>2. Build[b].rg \in 0 .. TotalRGs - 1 /\ Build[b].keys \in Seq(Keys \cup {Null})
  BY <1>1, Zenon
<1> QED BY <1>2, Constants, LenProperties, Zenon

(* A build row is a batch and a position in it. *)
LEMMA RowType ==
  ASSUME NEW r
  PROVE  r \in BuildRows <=> /\ r = <<r[1], r[2]>>
                             /\ r[1] \in DOMAIN Build
                             /\ r[2] \in DOMAIN Build[r[1]].keys
  BY DEF BuildRows

(* The batch, key and morsel of a row. *)
LEMMA RowFacts ==
  ASSUME NEW r \in BuildRows
  PROVE  /\ r[1] \in 1 .. Len(Build) /\ r[2] \in Nat
         /\ KeyOf(r) \in Keys \cup {Null}
         /\ KeyOf(r) # Null => PartOf[KeyOf(r)] \in Parts
         /\ MorselOf(r) \in Morsels
<1>1. r[1] \in DOMAIN Build /\ r[2] \in DOMAIN Build[r[1]].keys
  BY RowType, Zenon
<1>2. KeyOf(r) \in Keys \cup {Null}
  BY <1>1, BatchType, ElementOfSeq, Zenon DEF KeyOf
<1>3. KeyOf(r) # Null => PartOf[KeyOf(r)] \in Parts
  BY <1>2, RadixAssumption, Zenon
<1> DEFINE g == Build[r[1]].rg
<1>4. g \in Nat /\ g < TotalRGs /\ MorselSize \in Nat \ {0} /\ TotalRGs \in Nat
  BY <1>1, BatchType, Constants
<1>5. MorselOf(r) \in Nat
  BY <1>4, Quotient, Zenon DEF MorselOf
<1>6. MorselOf(r) * MorselSize <= g
  BY <1>4, <1>5, Quotient, Zenon DEF MorselOf
<1> HIDE DEF g
<1>7. MorselOf(r) * MorselSize < TotalRGs
  <2>1. MorselOf(r) * MorselSize \in Nat
    BY <1>4, <1>5
  <2> QED BY <2>1, <1>4, <1>6
<1>8. MorselOf(r) \in Morsels
  BY <1>5, <1>7, MorselBegins, Zenon
<1> QED BY <1>1, <1>2, <1>3, <1>8, BatchType, Constants

(* There are finitely many. *)
LEMMA RowsFinite == IsFiniteSet(BuildRows)
<1> DEFINE Rows(b) == {b} \X DOMAIN Build[b].keys
           R == {Rows(b) : b \in DOMAIN Build}
           f == [b \in DOMAIN Build |-> Rows(b)]
<1>1. \A b \in DOMAIN Build : IsFiniteSet(Rows(b))
  <2> TAKE b \in DOMAIN Build
  <2>1. IsFiniteSet(DOMAIN Build[b].keys)
    <3>1. Len(Build[b].keys) \in Int /\ DOMAIN Build[b].keys = 1 .. Len(Build[b].keys)
      BY BatchType
    <3>2. IsFiniteSet(1 .. Len(Build[b].keys))
      BY <3>1, FS_Interval
    <3> QED BY <3>1, <3>2, Zenon
  <2>2. IsFiniteSet({b})
    BY FS_Singleton, Zenon
  <2> QED BY <2>1, <2>2, FS_Product, Zenon
<1>2. IsFiniteSet(DOMAIN Build)
  BY Constants, FS_Interval
<1>3. f \in Surjection(DOMAIN Build, R)
  BY Zenon DEF Surjection
<1>4. IsFiniteSet(R)
  BY <1>2, <1>3, FS_Surjection, Zenon
<1>5. \A T \in R : IsFiniteSet(T)
  BY <1>1, Zenon
<1>6. IsFiniteSet(UNION R)
  BY <1>4, <1>5, FS_UNION, Zenon
<1> QED BY <1>6, Zenon DEF BuildRows

(* Any set of rows has a size, and it is at most that of all rows. *)
LEMMA RowSets ==
  ASSUME NEW S \in SUBSET BuildRows
  PROVE  /\ IsFiniteSet(S) /\ Cardinality(S) \in Nat
         /\ Cardinality(S) <= Cardinality(BuildRows)
         /\ Cardinality(S) \in Indices
         /\ Cardinality(BuildRows) \in Nat
<1>1. IsFiniteSet(S) /\ Cardinality(S) <= Cardinality(BuildRows)
  BY RowsFinite, FS_Subset, Zenon
<1>2. Cardinality(S) \in Nat /\ Cardinality(BuildRows) \in Nat
  BY <1>1, RowsFinite, FS_CardinalityType, Zenon
<1> QED BY <1>1, <1>2 DEF Indices

(* File order is a strict total order. *)
LEMMA RowOrder ==
  ASSUME NEW r \in BuildRows, NEW s \in BuildRows
  PROVE  /\ ~RowBefore(r, r)
         /\ RowBefore(r, s) => ~RowBefore(s, r)
         /\ r # s => RowBefore(r, s) \/ RowBefore(s, r)
         /\ \A t \in BuildRows : RowBefore(r, s) /\ RowBefore(s, t) => RowBefore(r, t)
<1>1. \A x \in BuildRows : x[1] \in Nat /\ x[2] \in Nat /\ x = <<x[1], x[2]>>
  BY RowFacts, RowType, Constants
<1> QED BY <1>1 DEF RowBefore

(* Morsels are in file order. *)
LEMMA MorselOrder ==
  ASSUME NEW r \in BuildRows, NEW s \in BuildRows, MorselOf(r) < MorselOf(s)
  PROVE  RowBefore(r, s)
<1> DEFINE q == MorselSize
           g == Build[r[1]].rg
           h == Build[s[1]].rg
           m == MorselOf(r)
           n == MorselOf(s)
<1>1. r[1] \in DOMAIN Build /\ s[1] \in DOMAIN Build
  BY RowType, Zenon
<1>2. q \in Nat \ {0} /\ g \in Nat /\ h \in Nat /\ m \in Nat /\ n \in Nat /\ m < n
  BY <1>1, BatchType, Constants, RowFacts DEF Morsels
<1>3. m = g \div q /\ n = h \div q
  BY Zenon DEF MorselOf
<1> HIDE DEF q, g, h, m, n
<1>4. g < m * q + q /\ n * q <= h
  BY <1>2, <1>3, Quotient, Zenon
<1>5. (m + 1) * q <= n * q /\ (m + 1) * q = m * q + q /\ n * q \in Nat
  BY <1>2
<1>6. g < h
  BY <1>2, <1>4, <1>5
<1>7. ~(s[1] <= r[1])
  BY <1>1, <1>2, <1>6, RadixAssumption, SMTT(60) DEF g, h
<1>8. r[1] < s[1]
  BY <1>7, RowFacts, Constants
<1> QED BY <1>8, Zenon DEF RowBefore

-----------------------------------------------------------------------------
(***************************************************************************)
(* Lists of rows in file order.                                            *)
(***************************************************************************)

(* A list in file order is as long as its set of rows. *)
LEMMA SerialLength ==
  ASSUME NEW s, NEW S, Serial(s, S)
  PROVE  /\ S \subseteq BuildRows
         /\ Len(s) = Cardinality(S)
         /\ \A i, j \in 1 .. Len(s) : s[i] = s[j] => i = j
<1>1. Len(s) \in Nat /\ \A i \in 1 .. Len(s) : s[i] \in BuildRows
  BY LenProperties, ElementOfSeq, Zenon DEF Serial
<1>2. S \subseteq BuildRows
  BY <1>1, Zenon DEF Serial
<1>3. ASSUME NEW i \in 1 .. Len(s), NEW j \in 1 .. Len(s), s[i] = s[j] PROVE i = j
  <2>1. ~RowBefore(s[i], s[j]) /\ ~RowBefore(s[j], s[i])
    BY <1>1, <1>3, RowOrder, Zenon
  <2>2. ~(i < j) /\ ~(j < i)
    BY <2>1, Zenon DEF Serial
  <2> QED BY <1>1, <2>2
<1> DEFINE f == [i \in 1 .. Len(s) |-> s[i]]
<1>4. f \in Bijection(1 .. Len(s), S)
  <2>1. f \in [1 .. Len(s) -> S]
    BY Zenon DEF Serial
  <2>2. \A r \in S : \E i \in 1 .. Len(s) : f[i] = r
    BY Zenon DEF Serial
  <2>3. \A i, j \in 1 .. Len(s) : f[i] = f[j] => i = j
    BY <1>3, Zenon
  <2> HIDE DEF f
  <2>4. f \in Injection(1 .. Len(s), S)
    BY <2>1, <2>3, Zenon DEF Injection, IsInjective
  <2>5. f \in Surjection(1 .. Len(s), S)
    BY <2>1, <2>2, Zenon DEF Surjection
  <2> QED BY <2>4, <2>5, Zenon DEF Bijection
<1>5. ExistsBijection(1 .. Len(s), S)
  BY <1>4, Zenon DEF ExistsBijection
<1>6. Cardinality(S) = Len(s)
  BY <1>1, <1>5, FS_CountingElements, Zenon
<1> QED BY <1>2, <1>3, <1>6, Zenon

(* The empty list. *)
LEMMA SerialEmpty == Serial(<<>>, {})
  BY EmptySeq DEF Serial

(* A list of rows followed by one of later rows. *)
LEMMA SerialConcat ==
  ASSUME NEW s, NEW S, NEW t, NEW T, Serial(s, S), Serial(t, T),
         \A x \in S, y \in T : RowBefore(x, y)
  PROVE  Serial(s \o t, S \cup T)
<1>1. Len(s) \in Nat /\ Len(t) \in Nat
  BY LenProperties, Zenon DEF Serial
<1>2. /\ s \o t \in Seq(BuildRows)
      /\ Len(s \o t) = Len(s) + Len(t)
      /\ \A i \in 1 .. Len(s) + Len(t) : (s \o t)[i] = IF i <= Len(s) THEN s[i] ELSE t[i - Len(s)]
  BY ConcatProperties, Zenon DEF Serial
<1> DEFINE u == s \o t
<1> HIDE DEF u
<1>3. \A i \in 1 .. Len(s) : i \in 1 .. Len(u) /\ u[i] = s[i] /\ u[i] \in S
  BY <1>1, <1>2 DEF u, Serial
<1>4. \A i \in 1 .. Len(u) : ~(i <= Len(s)) =>
        i - Len(s) \in 1 .. Len(t) /\ u[i] = t[i - Len(s)] /\ u[i] \in T
  BY <1>1, <1>2 DEF u, Serial
<1>5. \A j \in 1 .. Len(t) : Len(s) + j \in 1 .. Len(u) /\ u[Len(s) + j] = t[j]
  BY <1>1, <1>2 DEF u
<1>6. \A i \in 1 .. Len(u) : u[i] \in S \cup T
  BY <1>1, <1>3, <1>4
<1>7. \A r \in S \cup T : \E i \in 1 .. Len(u) : u[i] = r
  <2>1. ASSUME NEW r \in S PROVE \E i \in 1 .. Len(u) : u[i] = r
    BY <2>1, <1>3, Zenon DEF Serial
  <2>2. ASSUME NEW r \in T PROVE \E i \in 1 .. Len(u) : u[i] = r
    BY <2>2, <1>5, Zenon DEF Serial
  <2> QED BY <2>1, <2>2, Zenon
<1>8. ASSUME NEW i \in 1 .. Len(u), NEW j \in 1 .. Len(u), i < j
      PROVE  RowBefore(u[i], u[j])
  <2>1. CASE j <= Len(s)
    <3>1. i \in 1 .. Len(s) /\ j \in 1 .. Len(s)
      BY <1>1, <1>8, <2>1
    <3> QED BY <3>1, <1>3, <1>8, Zenon DEF Serial
  <2>2. CASE i <= Len(s) /\ ~(j <= Len(s))
    <3>1. i \in 1 .. Len(s)
      BY <1>1, <2>2
    <3> QED BY <3>1, <1>3, <1>4, <2>2, Zenon
  <2>3. CASE ~(i <= Len(s)) /\ ~(j <= Len(s))
    <3>1. i - Len(s) < j - Len(s)
      BY <1>1, <1>8
    <3> QED BY <3>1, <1>4, <2>3, Zenon DEF Serial
  <2> QED BY <1>1, <1>8, <2>1, <2>2, <2>3, Zenon
<1>9. u \in Seq(BuildRows)
  BY <1>2, Zenon DEF u
<1>10. Serial(u, S \cup T)
  BY <1>6, <1>7, <1>8, <1>9, Zenon DEF Serial
<1> QED BY <1>10, Zenon DEF u

(* The place of each number in a finite set of naturals. *)
Below(K, i) == {j \in K : j < i}

(* Every place is taken, by one number, and larger numbers come later. *)
LEMMA Ranks ==
  ASSUME NEW K \in SUBSET Nat, IsFiniteSet(K)
  PROVE  /\ Cardinality(K) \in Nat
         /\ \A i \in K : Cardinality(Below(K, i)) \in 0 .. Cardinality(K) - 1
         /\ \A i, j \in K : i < j => Cardinality(Below(K, i)) < Cardinality(Below(K, j))
         /\ \A n \in 1 .. Cardinality(K) : \E i \in K : Cardinality(Below(K, i)) = n - 1
<1> DEFINE N == Cardinality(K)
           f == [i \in K |-> Cardinality(Below(K, i))]
<1>1. N \in Nat
  BY FS_CardinalityType, Zenon
<1>2. \A i \in K : IsFiniteSet(Below(K, i)) /\ Cardinality(Below(K, i)) \in Nat
  <2> TAKE i \in K
  <2>1. Below(K, i) \in SUBSET K
    BY Zenon DEF Below
  <2>2. IsFiniteSet(Below(K, i))
    BY <2>1, FS_Subset, Zenon
  <2> QED BY <2>2, FS_CardinalityType, Zenon
<1>3. ASSUME NEW S, NEW T, IsFiniteSet(T), S \subseteq T, S # T
      PROVE  Cardinality(S) < Cardinality(T)
  <2>1. IsFiniteSet(S) /\ Cardinality(S) <= Cardinality(T) /\ Cardinality(T) # Cardinality(S)
    BY <1>3, FS_Subset, Zenon
  <2>2. Cardinality(S) \in Nat /\ Cardinality(T) \in Nat
    BY <1>3, <2>1, FS_CardinalityType, Zenon
  <2> QED BY <2>1, <2>2
<1>4. \A i \in K : Cardinality(Below(K, i)) < N
  <2> TAKE i \in K
  <2>1. Below(K, i) \subseteq K /\ i \notin Below(K, i)
    BY DEF Below
  <2>2. Below(K, i) # K
    BY <2>1, Zenon
  <2> QED BY <2>1, <2>2, <1>3, Zenon
<1>5. ASSUME NEW i \in K, NEW j \in K, i < j
      PROVE  Cardinality(Below(K, i)) < Cardinality(Below(K, j))
  <2>1. i \in Below(K, j) /\ i \notin Below(K, i) /\ Below(K, i) \subseteq Below(K, j)
    <3>1. \A k \in K : k \in Nat
      BY Zenon
    <3>2. \A k \in K : k < i => k < j
      BY <1>5, <3>1
    <3>3. ~(i < i)
      BY <3>1
    <3> QED BY <1>5, <3>2, <3>3, Zenon DEF Below
  <2>2. Below(K, i) # Below(K, j)
    BY <2>1, Zenon
  <2> QED BY <2>1, <2>2, <1>2, <1>3, Zenon
<1>6. \A i \in K : Cardinality(Below(K, i)) \in 0 .. N - 1
  BY <1>1, <1>2, <1>4
<1>7. f \in [K -> 0 .. N - 1]
  BY <1>6, Zenon
<1>8. \A i, j \in K : f[i] = f[j] => i = j
  <2>1. SUFFICES ASSUME NEW i \in K, NEW j \in K, f[i] = f[j], i # j PROVE FALSE
    BY Zenon
  <2>2. i < j \/ j < i
    BY <2>1
  <2>3. f[i] < f[j] \/ f[j] < f[i]
    BY <1>5, <2>2, Zenon
  <2>4. f[i] \in Nat /\ f[j] \in Nat
    BY <1>2, Zenon
  <2> QED BY <2>1, <2>3, <2>4
<1>9. IsFiniteSet(0 .. N - 1) /\ Cardinality(0 .. N - 1) = N
  <2>1. 0 \in Int /\ N - 1 \in Int
    BY <1>1
  <2>2. IsFiniteSet(0 .. N - 1) /\ Cardinality(0 .. N - 1) = IF 0 > N - 1 THEN 0 ELSE N - 1 - 0 + 1
    BY <2>1, FS_Interval, Zenon
  <2> QED BY <1>1, <2>2
<1>10. f \in Surjection(K, 0 .. N - 1)
  <2>1. f \in Injection(K, 0 .. N - 1)
    <3> HIDE DEF f
    <3> QED BY <1>7, <1>8, Zenon DEF Injection, IsInjective
  <2> HIDE DEF f
  <2> QED BY <1>9, <2>1, FS_Injection, Zenon
<1>11. ASSUME NEW n \in 1 .. N PROVE \E i \in K : Cardinality(Below(K, i)) = n - 1
  <2>1. n - 1 \in 0 .. N - 1
    BY <1>1
  <2>2. \A t \in 0 .. N - 1 : \E i \in K : f[i] = t
    <3> HIDE DEF f
    <3> QED BY <1>10, Zenon DEF Surjection
  <2> QED BY <2>1, <2>2, Zenon
<1> QED BY <1>1, <1>5, <1>6, <1>11, Zenon

(* The rows of one batch that go to partition p, and their positions. *)
BatchRows(b, p) == {r \in PartRows(p) : r[1] = b}
Kept(b, p) == {i \in DOMAIN Build[b].keys :
                 Build[b].keys[i] # Null /\ PartOf[Build[b].keys[i]] = p}

(* forEachBuildRow lists them in order. *)
LEMMA RowsForSerial ==
  ASSUME NEW b \in DOMAIN Build, NEW p
  PROVE  Serial(RowsFor(b, p), BatchRows(b, p))
<1> DEFINE K == Kept(b, p)
           N == Cardinality(K)
           nth(n) == CHOOSE i \in K : Cardinality(Below(K, i)) = n - 1
           s == RowsFor(b, p)
<1>1. s = [n \in 1 .. N |-> <<b, nth(n)>>]
  BY Zenon DEF RowsFor, Kept, Below
<1>2. K \subseteq DOMAIN Build[b].keys /\ DOMAIN Build[b].keys = 1 .. Len(Build[b].keys)
  BY BatchType, Zenon DEF Kept
<1>3. IsFiniteSet(K) /\ K \in SUBSET Nat
  <2>1. Len(Build[b].keys) \in Nat
    BY BatchType, Zenon
  <2>2. IsFiniteSet(1 .. Len(Build[b].keys))
    BY <2>1, FS_Interval
  <2>3. K \in SUBSET (1 .. Len(Build[b].keys))
    BY <1>2, Zenon
  <2> HIDE DEF K
  <2>4. IsFiniteSet(K)
    BY ONLY <2>2, <2>3, FS_Subset, Zenon
  <2> QED BY <2>1, <2>3, <2>4
<1> HIDE DEF K
<1>4. /\ N \in Nat
      /\ \A i \in K : Cardinality(Below(K, i)) \in 0 .. N - 1
      /\ \A i, j \in K : i < j => Cardinality(Below(K, i)) < Cardinality(Below(K, j))
      /\ \A n \in 1 .. N : \E i \in K : Cardinality(Below(K, i)) = n - 1
  BY <1>3, Ranks, Zenon
<1> HIDE DEF N
<1>5. \A n \in 1 .. N : nth(n) \in K /\ Cardinality(Below(K, nth(n))) = n - 1
  BY <1>4, Zenon
<1>6. ASSUME NEW i \in K PROVE \E n \in 1 .. N : nth(n) = i
  <2> DEFINE n == Cardinality(Below(K, i)) + 1
  <2>1. n \in 1 .. N /\ n - 1 = Cardinality(Below(K, i))
    BY <1>4
  <2>2. nth(n) \in K /\ Cardinality(Below(K, nth(n))) = Cardinality(Below(K, i))
    BY <1>5, <2>1, Zenon
  <2> HIDE DEF n
  <2>3. ~(nth(n) < i) /\ ~(i < nth(n))
    BY <1>4, <2>2
  <2>4. nth(n) \in Nat /\ i \in Nat
    BY <1>3, <2>2, Zenon
  <2>5. nth(n) = i
    BY ONLY <2>3, <2>4
  <2> QED BY <2>1, <2>5, Zenon
<1>7. ASSUME NEW i \in 1 .. N, NEW j \in 1 .. N, i < j PROVE nth(i) < nth(j)
  <2>1. nth(i) \in K /\ nth(j) \in K
    BY <1>5, Zenon
  <2>2. nth(i) \in Nat /\ nth(j) \in Nat
    BY <1>3, <2>1, Zenon
  <2>3. ~(nth(j) < nth(i))
    <3>1. SUFFICES ASSUME nth(j) < nth(i) PROVE FALSE
      BY Zenon
    <3>2. Cardinality(Below(K, nth(j))) < Cardinality(Below(K, nth(i)))
      BY <1>4, <2>1, <3>1, Zenon
    <3>3. j - 1 < i - 1
      BY <1>5, <3>2, Zenon
    <3> QED BY <1>4, <1>7, <3>3
  <2>4. nth(j) # nth(i)
    <3>1. i - 1 # j - 1
      BY <1>4, <1>7
    <3> QED BY <1>5, <3>1, Zenon
  <2> QED BY ONLY <2>2, <2>3, <2>4
<1> HIDE DEF nth
<1>8. \A i \in K : <<b, i>> \in BatchRows(b, p)
  BY RowType, Zenon DEF K, Kept, BatchRows, PartRows, KeyOf
<1>9. \A r \in BatchRows(b, p) : r[2] \in K /\ r = <<b, r[2]>>
  BY RowType, Zenon DEF K, Kept, BatchRows, PartRows, KeyOf
<1>10. s \in [1 .. N -> BuildRows]
  BY <1>1, <1>5, <1>8, Zenon DEF BatchRows, PartRows
<1>11. s \in Seq(BuildRows)
  BY <1>4, <1>10, SeqDef, Zenon
<1>12. Len(s) = N
  BY <1>4, <1>10, <1>11, LenProperties
<1> HIDE DEF s
<1>13. \A n \in 1 .. N : s[n] = <<b, nth(n)>>
  BY <1>1, Zenon
<1>14. \A n \in 1 .. N : s[n] \in BatchRows(b, p)
  BY <1>5, <1>8, <1>13, Zenon
<1>15. \A r \in BatchRows(b, p) : \E n \in 1 .. N : s[n] = r
  BY <1>6, <1>9, <1>13
<1>16. \A i, j \in 1 .. N : i < j => RowBefore(s[i], s[j])
  BY <1>7, <1>13 DEF RowBefore
<1>17. Serial(s, BatchRows(b, p))
  BY <1>11, <1>12, <1>14, <1>15, <1>16, Zenon DEF Serial
<1> QED BY <1>17, Zenon DEF s

-----------------------------------------------------------------------------
(***************************************************************************)
(* Morsels and the ranges of the store.                                    *)
(***************************************************************************)

(* The size of two sets of rows that have none in common. *)
LEMMA DisjointRows ==
  ASSUME NEW S \in SUBSET BuildRows, NEW T \in SUBSET BuildRows, S \cap T = {}
  PROVE  Cardinality(S \cup T) = Cardinality(S) + Cardinality(T)
<1>1. IsFiniteSet(S) /\ IsFiniteSet(T) /\ Cardinality(S) \in Nat /\ Cardinality(T) \in Nat
  BY RowSets, Zenon
<1>2. Cardinality(S \cup T) = Cardinality(S) + Cardinality(T) - Cardinality(S \cap T)
  BY <1>1, FS_Union, Zenon
<1>3. Cardinality(S \cap T) = 0
  BY FS_EmptySet, Zenon
<1> QED BY <1>1, <1>2, <1>3

(* The rows of the morsels before m + 1 are those before m and those of m. *)
LEMMA EarlierRows ==
  ASSUME NEW p
  PROVE  /\ Earlier(0, p) = {}
         /\ Earlier(NumMorsels, p) = PartRows(p)
         /\ \A m \in Nat :
              /\ Earlier(m, p) \subseteq PartRows(p)
              /\ MorselRows(m, p) \subseteq PartRows(p)
              /\ Earlier(m + 1, p) = Earlier(m, p) \cup MorselRows(m, p)
              /\ Cardinality(Earlier(m + 1, p)) =
                   Cardinality(Earlier(m, p)) + Cardinality(MorselRows(m, p))
<1>1. \A r \in PartRows(p) : r \in BuildRows /\ MorselOf(r) \in Nat /\ MorselOf(r) < NumMorsels
  <2> TAKE r \in PartRows(p)
  <2>1. r \in BuildRows
    BY Zenon DEF PartRows
  <2>2. MorselOf(r) \in 0 .. NumMorsels - 1
    BY <2>1, RowFacts, Zenon DEF Morsels
  <2> QED BY <2>1, <2>2, Constants
<1>2. Earlier(0, p) = {} /\ Earlier(NumMorsels, p) = PartRows(p)
  BY <1>1 DEF Earlier
<1>3. ASSUME NEW m \in Nat
      PROVE  /\ Earlier(m, p) \subseteq PartRows(p) /\ MorselRows(m, p) \subseteq PartRows(p)
             /\ Earlier(m + 1, p) = Earlier(m, p) \cup MorselRows(m, p)
             /\ Cardinality(Earlier(m + 1, p)) =
                  Cardinality(Earlier(m, p)) + Cardinality(MorselRows(m, p))
  <2>1. Earlier(m, p) \subseteq PartRows(p) /\ MorselRows(m, p) \subseteq PartRows(p)
    BY Zenon DEF Earlier, MorselRows
  <2>2. \A r \in PartRows(p) : MorselOf(r) < m + 1 <=> MorselOf(r) < m \/ MorselOf(r) = m
    BY <1>1
  <2>3. Earlier(m + 1, p) = Earlier(m, p) \cup MorselRows(m, p)
    BY <2>2, Zenon DEF Earlier, MorselRows
  <2>4. \A r \in PartRows(p) : ~(MorselOf(r) < m /\ MorselOf(r) = m)
    BY <1>1
  <2>5. Earlier(m, p) \cap MorselRows(m, p) = {}
    BY <2>4, Zenon DEF Earlier, MorselRows
  <2>6. Earlier(m, p) \in SUBSET BuildRows /\ MorselRows(m, p) \in SUBSET BuildRows
    BY <1>1, <2>1, Zenon
  <2> QED BY <2>1, <2>3, <2>5, <2>6, DisjointRows, Zenon
<1> QED BY <1>2, <1>3, Zenon

(* Partitions have adjacent ranges of the store, in order. *)
LEMMA Ranges ==
  ASSUME NEW p \in Nat
  PROVE  /\ First(p) \in Indices /\ Past(p) \in Indices
         /\ First(p) \in Nat /\ Past(p) \in Nat /\ Cardinality(PartRows(p)) \in Nat
         /\ Past(p) = First(p) + Cardinality(PartRows(p))
         /\ First(0) = 0
         /\ \A q \in Nat : p < q => Past(p) <= First(q)
<1>1. \A r \in BuildRows : KeyOf(r) # Null => PartOf[KeyOf(r)] \in Nat
  BY RowFacts DEF Parts
<1>2. \A q \in Nat : Before(q) \in SUBSET BuildRows
  BY Zenon DEF Before
<1>3. PartRows(p) \in SUBSET BuildRows
  BY Zenon DEF PartRows
<1>4. p + 1 \in Nat
  OBVIOUS
<1>5. /\ First(p) \in Indices /\ Past(p) \in Indices
      /\ First(p) \in Nat /\ Past(p) \in Nat /\ Cardinality(PartRows(p)) \in Nat
  BY <1>2, <1>3, <1>4, RowSets, Zenon DEF First, Past
<1>6. Past(p) = First(p) + Cardinality(PartRows(p))
  <2>1. Before(p + 1) = Before(p) \cup PartRows(p) /\ Before(p) \cap PartRows(p) = {}
    BY <1>1 DEF Before, PartRows
  <2> QED BY <2>1, <1>2, <1>3, DisjointRows, Zenon DEF First, Past
<1>7. First(0) = 0
  <2>1. Before(0) = {}
    BY <1>1 DEF Before
  <2> QED BY <2>1, FS_EmptySet, Zenon DEF First
<1>8. ASSUME NEW q \in Nat, p < q PROVE Past(p) <= First(q)
  <2>1. Before(p + 1) \subseteq Before(q)
    BY <1>1, <1>8 DEF Before
  <2>2. IsFiniteSet(Before(q))
    BY <1>2, RowSets, Zenon
  <2> QED BY <2>1, <2>2, FS_Subset, Zenon DEF First, Past
<1> QED BY <1>5, <1>6, <1>7, <1>8, Zenon

(* Every index of the store belongs to a partition. *)
LEMMA InSomeRange ==
  ASSUME NEW d \in 0 .. First(NumParts) - 1
  PROVE  \E p \in Parts : d \in First(p) .. Past(p) - 1
<1> DEFINE S == {p \in Nat : d < Past(p)}
<1>1. \A p \in Nat : First(p) \in Nat /\ Past(p) \in Nat
  BY Ranges, Zenon
<1>2. NumParts \in Nat \ {0} /\ NumParts - 1 \in Nat
  BY Constants
<1>3. d \in Nat /\ d < First(NumParts)
  BY <1>1, <1>2
<1>4. Past(NumParts - 1) = First(NumParts)
  <2>1. NumParts - 1 + 1 = NumParts
    BY <1>2
  <2> QED BY <2>1, Zenon DEF First, Past
<1>5. NumParts - 1 \in S
  BY <1>2, <1>3, <1>4, Zenon
<1>6. PICK p \in S : \A q \in S : p <= q
  BY <1>5, LeastNatural, Zenon
<1>7. p \in Parts
  BY <1>2, <1>5, <1>6 DEF Parts
<1>8. First(p) <= d
  <2>1. CASE p = 0
    BY <2>1, <1>3, Ranges
  <2>2. CASE p # 0
    <3>1. p - 1 \in Nat /\ p - 1 \notin S
      BY <1>6, <2>2
    <3>2. ~(d < Past(p - 1))
      BY <3>1, Zenon
    <3>3. p - 1 + 1 = p
      BY <1>6
    <3>4. Past(p - 1) = First(p)
      BY <3>3, Zenon DEF First, Past
    <3> QED BY <1>1, <1>3, <3>1, <3>2, <3>4
  <2> QED BY <2>1, <2>2, Zenon
<1>9. d \in First(p) .. Past(p) - 1
  BY <1>1, <1>3, <1>6, <1>8
<1> QED BY <1>7, <1>9, Zenon

(* The ranges of two partitions have no index in common, and lie inside    *)
(* the store.                                                              *)
LEMMA RangesApart ==
  ASSUME NEW p \in Parts, NEW d \in First(p) .. Past(p) - 1
  PROVE  /\ d \in 0 .. First(NumParts) - 1
         /\ \A q \in Parts : q # p => d \notin First(q) .. Past(q) - 1
<1>1. NumParts \in Nat /\ \A q \in Parts : q \in Nat /\ q < NumParts
  BY Constants DEF Parts
<1>2. /\ \A q \in Nat : First(q) \in Nat /\ Past(q) \in Nat
      /\ \A q, r \in Nat : q < r => Past(q) <= First(r)
  BY Ranges, Zenon
<1>3. d \in 0 .. First(NumParts) - 1
  <2>1. Past(p) <= First(NumParts) /\ First(p) \in Nat /\ Past(p) \in Nat /\ First(NumParts) \in Nat
    BY <1>1, <1>2, Zenon
  <2> QED BY <2>1
<1>4. ASSUME NEW q \in Parts, q # p PROVE d \notin First(q) .. Past(q) - 1
  <2>1. p < q \/ q < p
    BY <1>1, <1>4
  <2>2. Past(p) <= First(q) \/ Past(q) <= First(p)
    BY <1>1, <1>2, <2>1, Zenon
  <2>3. First(p) \in Nat /\ Past(p) \in Nat /\ First(q) \in Nat /\ Past(q) \in Nat
    BY <1>1, <1>2, Zenon
  <2> QED BY <2>2, <2>3
<1> QED BY <1>3, <1>4, Zenon

(* The rows of a morsel drained with its next batch. *)
LEMMA DrainedNext ==
  ASSUME NEW m \in Nat, NEW p, NEW a \in Nat, NEW b \in DOMAIN Build,
         Build[b].rg \div MorselSize = m, a < b,
         \A c \in DOMAIN Build : a < c /\ Build[c].rg \div MorselSize = m => b <= c
  PROVE  \A r : r \in DrainedRows(m, p, b) <=> r \in DrainedRows(m, p, a) \/ r \in BatchRows(b, p)
<1>1. \A r \in PartRows(p) : r[1] \in DOMAIN Build /\ r[1] \in Nat
  BY RowType, RowFacts, Constants DEF PartRows
<1>2. b \in Nat
  BY Constants
<1>3. ASSUME NEW r \in PartRows(p)
      PROVE  (MorselOf(r) = m /\ r[1] <= b) <=> (MorselOf(r) = m /\ r[1] <= a) \/ r[1] = b
  <2>1. r[1] = b => MorselOf(r) = m
    BY Zenon DEF MorselOf
  <2>2. MorselOf(r) = m /\ a < r[1] => b <= r[1]
    BY <1>1, Zenon DEF MorselOf
  <2> QED BY <1>1, <1>2, <2>1, <2>2
<1> QED BY <1>3, Zenon DEF DrainedRows, MorselRows, BatchRows

(* No rows are drained before the first batch of a morsel, and all of them *)
(* after the last.                                                         *)
LEMMA DrainedEnds ==
  ASSUME NEW m \in Nat, NEW p, NEW a \in Nat
  PROVE  /\ DrainedRows(m, p, 0) = {}
         /\ (\A c \in DOMAIN Build : ~(a < c /\ Build[c].rg \div MorselSize = m))
              => DrainedRows(m, p, a) = MorselRows(m, p)
<1>1. \A r \in PartRows(p) : r[1] \in DOMAIN Build /\ r[1] \in Nat /\ r[1] >= 1
  BY RowType, RowFacts, Constants DEF PartRows
<1>2. DrainedRows(m, p, 0) = {}
  BY <1>1 DEF DrainedRows, MorselRows
<1>3. ASSUME \A c \in DOMAIN Build : ~(a < c /\ Build[c].rg \div MorselSize = m)
      PROVE  DrainedRows(m, p, a) = MorselRows(m, p)
  <2>1. \A r \in PartRows(p) : MorselOf(r) = m => r[1] <= a
    BY <1>1, <1>3 DEF MorselOf
  <2> QED BY <2>1, Zenon DEF DrainedRows, MorselRows
<1> QED BY <1>2, <1>3, Zenon

-----------------------------------------------------------------------------
(***************************************************************************)
(* What pass 2 counts when pass 1 has filed every bucket.                  *)
(***************************************************************************)
AllFiled ==
  \A m \in Morsels :
    /\ buckets[m] # {} /\ AtMostOne(buckets[m])
    /\ \A b \in buckets[m], p \in Parts : Serial(b[p], MorselRows(m, p))

(* The bucket of a morsel. *)
BucketAt(m) == CHOOSE b \in buckets[m] : TRUE

(* A found row is a position in a bucket's list. *)
LEMMA FoundType ==
  ASSUME AllFiled, NEW g
  PROVE  g \in AllFound <=> /\ g = <<g[1], <<g[2][1], g[2][2]>>>>
                            /\ g[1] \in Parts /\ g[2][1] \in Morsels
                            /\ g[2][2] \in 1 .. Len(BucketAt(g[2][1])[g[1]])
<1>1. \A m \in Morsels : \A b \in buckets[m] : b = BucketAt(m)
  BY Zenon DEF AllFiled, AtMostOne, BucketAt
<1>2. \A m \in Morsels : BucketAt(m) \in buckets[m]
  BY Zenon DEF AllFiled, BucketAt
<1>3. \A m \in Morsels, p \in Parts :
        /\ Len(BucketAt(m)[p]) \in Nat /\ Len(BucketAt(m)[p]) <= Cardinality(BuildRows)
        /\ Cardinality(BuildRows) \in Nat
  <2> TAKE m \in Morsels, p \in Parts
  <2>1. Serial(BucketAt(m)[p], MorselRows(m, p))
    BY <1>2, Zenon DEF AllFiled
  <2>2. MorselRows(m, p) \in SUBSET BuildRows
    BY Zenon DEF MorselRows, PartRows
  <2> QED BY <2>1, <2>2, SerialLength, RowSets, Zenon
<1>4. ASSUME NEW p \in Parts, NEW f
      PROVE  f \in Found(p) <=> /\ f = <<f[1], f[2]>> /\ f[1] \in Morsels
                                /\ f[2] \in 1 .. Len(BucketAt(f[1])[p])
  <2>1. f \in Found(p) <=> /\ f = <<f[1], f[2]>> /\ f[1] \in Morsels
                           /\ f[2] \in 1 .. Cardinality(BuildRows)
                           /\ \E b \in buckets[f[1]] : f[2] <= Len(b[p])
    BY DEF Found
  <2>2. f[1] \in Morsels =>
          ((\E b \in buckets[f[1]] : f[2] <= Len(b[p])) <=> f[2] <= Len(BucketAt(f[1])[p]))
    BY <1>1, <1>2, Zenon
  <2> QED BY <1>3, <2>1, <2>2
<1>5. g \in AllFound <=> \E p \in Parts : \E f \in Found(p) : g = <<p, f>>
  BY DEF AllFound
<1>6. ASSUME g \in AllFound
      PROVE  /\ g = <<g[1], <<g[2][1], g[2][2]>>>>
             /\ g[1] \in Parts /\ g[2][1] \in Morsels
             /\ g[2][2] \in 1 .. Len(BucketAt(g[2][1])[g[1]])
  <2>1. PICK p \in Parts : \E f \in Found(p) : g = <<p, f>>
    BY <1>5, <1>6, Zenon
  <2>2. PICK f \in Found(p) : g = <<p, f>>
    BY <2>1, Zenon
  <2>3. g[1] = p /\ g[2] = f
    BY <2>2, Zenon
  <2> QED BY <2>1, <2>2, <2>3, <1>4, Zenon
<1>7. ASSUME g = <<g[1], <<g[2][1], g[2][2]>>>>, g[1] \in Parts, g[2][1] \in Morsels,
             g[2][2] \in 1 .. Len(BucketAt(g[2][1])[g[1]])
      PROVE  g \in AllFound
  <2>1. g[2] = <<g[2][1], g[2][2]>>
    BY <1>7
  <2>2. g[2] \in Found(g[1])
    BY <2>1, <1>4, <1>7, Zenon
  <2>3. g = <<g[1], g[2]>>
    BY <1>7, <2>1, Zenon
  <2> QED BY <1>5, <1>7, <2>2, <2>3, Zenon
<1> QED BY <1>6, <1>7, Zenon

(* As many rows are found for a set of partitions as it has. *)
LEMMA CountFound ==
  ASSUME AllFiled, NEW Q, NEW G, NEW R,
         \A g : g \in G <=> g \in AllFound /\ g[1] \in Q,
         \A r : r \in R <=> r \in BuildRows /\ KeyOf(r) # Null /\ PartOf[KeyOf(r)] \in Q
  PROVE  IsFiniteSet(G) /\ Cardinality(G) = Cardinality(R)
<1> DEFINE row(g) == BucketAt(g[2][1])[g[1]][g[2][2]]
           h == [g \in G |-> row(g)]
<1>1. ASSUME NEW m \in Morsels, NEW p \in Parts
      PROVE  Serial(BucketAt(m)[p], MorselRows(m, p))
  BY Zenon DEF AllFiled, BucketAt
<1>2. ASSUME NEW g \in G
      PROVE  /\ g = <<g[1], <<g[2][1], g[2][2]>>>>
             /\ g[1] \in Parts /\ g[1] \in Q /\ g[2][1] \in Morsels
             /\ g[2][2] \in 1 .. Len(BucketAt(g[2][1])[g[1]])
             /\ row(g) \in MorselRows(g[2][1], g[1])
  <2>1. g \in AllFound /\ g[1] \in Q
    BY Zenon
  <2>2. /\ g = <<g[1], <<g[2][1], g[2][2]>>>>
        /\ g[1] \in Parts /\ g[2][1] \in Morsels
        /\ g[2][2] \in 1 .. Len(BucketAt(g[2][1])[g[1]])
    BY <2>1, FoundType, Zenon
  <2>3. row(g) \in MorselRows(g[2][1], g[1])
    BY <2>2, <1>1, Zenon DEF Serial
  <2> QED BY <2>1, <2>2, <2>3, Zenon
<1>3. \A g \in G : row(g) \in R
  BY <1>2, Zenon DEF MorselRows, PartRows
<1>4. ASSUME NEW g \in G, NEW f \in G, row(g) = row(f) PROVE g = f
  <2>1. g[1] = f[1] /\ g[2][1] = f[2][1]
    BY <1>2, <1>4 DEF MorselRows, PartRows
  <2>2. Serial(BucketAt(g[2][1])[g[1]], MorselRows(g[2][1], g[1]))
    BY <1>1, <1>2, Zenon
  <2>3. g[2][2] = f[2][2]
    BY <1>2, <1>4, <2>1, <2>2, SerialLength
  <2> QED BY <1>2, <2>1, <2>3, Zenon
<1>5. ASSUME NEW r \in R PROVE \E g \in G : row(g) = r
  <2> DEFINE p == PartOf[KeyOf(r)]
             m == MorselOf(r)
  <2>1. r \in BuildRows /\ KeyOf(r) # Null /\ p \in Q
    BY Zenon
  <2>2. p \in Parts /\ m \in Morsels
    BY <2>1, RowFacts, Zenon
  <2>3. r \in MorselRows(m, p)
    BY <2>1, Zenon DEF MorselRows, PartRows
  <2> HIDE DEF m, p
  <2>4. PICK i \in 1 .. Len(BucketAt(m)[p]) : BucketAt(m)[p][i] = r
    BY <1>1, <2>2, <2>3, Zenon DEF Serial
  <2> DEFINE g == <<p, <<m, i>>>>
  <2>5. g[1] = p /\ g[2][1] = m /\ g[2][2] = i
    BY Zenon
  <2> HIDE DEF g
  <2>6. g = <<g[1], <<g[2][1], g[2][2]>>>>
    BY <2>5, Zenon DEF g
  <2>7. g \in AllFound
    BY <2>2, <2>4, <2>5, <2>6, FoundType, Zenon
  <2>8. g \in G /\ row(g) = r
    BY <2>1, <2>4, <2>5, <2>7, Zenon
  <2> QED BY <2>8, Zenon
<1> HIDE DEF row
<1>6. h \in [G -> R] /\ (\A g \in G : h[g] = row(g))
  BY <1>3, Zenon
<1> HIDE DEF h
<1>7. h \in Injection(G, R)
  BY <1>4, <1>6, Zenon DEF Injection, IsInjective
<1>8. h \in Surjection(G, R)
  BY <1>5, <1>6, Zenon DEF Surjection
<1>9. IsFiniteSet(R)
  BY RowSets, Zenon
<1> QED BY <1>7, <1>8, <1>9, FS_Injection, Zenon

(* The counts, the offsets and the size of the store. *)
LEMMA Counted ==
  ASSUME AllFiled
  PROVE  /\ \A p \in Parts : CountOf(p) = Cardinality(PartRows(p)) /\ OffsetOf(p) = First(p)
         /\ Total = First(NumParts)
<1>1. \A r \in BuildRows : KeyOf(r) # Null => PartOf[KeyOf(r)] \in Parts
  BY RowFacts, Zenon
<1>2. \A g \in AllFound : g[1] \in Parts
  BY FoundType, Zenon
<1>3. NumParts \in Nat /\ \A p \in Parts : p \in Nat /\ p < NumParts
  BY Constants DEF Parts
<1>4. ASSUME NEW p \in Parts PROVE OffsetOf(p) = First(p)
  <2> DEFINE Q == {q \in Parts : q < p}
             G == {f \in AllFound : f[1] < p}
  <2>1. \A g : g \in G <=> g \in AllFound /\ g[1] \in Q
    BY <1>2, Zenon
  <2>2. \A r : r \in Before(p) <=> r \in BuildRows /\ KeyOf(r) # Null /\ PartOf[KeyOf(r)] \in Q
    BY <1>1, Zenon DEF Before
  <2> HIDE DEF Q, G
  <2>3. Cardinality(G) = Cardinality(Before(p))
    BY <2>1, <2>2, CountFound, Zenon
  <2> QED BY <2>3, Zenon DEF G, OffsetOf, First
<1>5. Total = First(NumParts)
  <2>1. \A g : g \in AllFound <=> g \in AllFound /\ g[1] \in Parts
    BY <1>2, Zenon
  <2>2. \A r : r \in Before(NumParts) <=>
          r \in BuildRows /\ KeyOf(r) # Null /\ PartOf[KeyOf(r)] \in Parts
    BY <1>1, <1>3, Zenon DEF Before
  <2>3. Cardinality(AllFound) = Cardinality(Before(NumParts))
    BY <2>1, <2>2, CountFound, Zenon
  <2> QED BY <2>3, Zenon DEF Total, First
<1>6. ASSUME NEW p \in Parts PROVE CountOf(p) = Cardinality(PartRows(p))
  <2> DEFINE G == {g \in AllFound : g[1] = p}
             e == [f \in Found(p) |-> <<p, f>>]
  <2>1. \A g : g \in G <=> g \in AllFound /\ g[1] \in {p}
    BY Zenon
  <2>2. \A r : r \in PartRows(p) <=>
          r \in BuildRows /\ KeyOf(r) # Null /\ PartOf[KeyOf(r)] \in {p}
    BY Zenon DEF PartRows
  <2>3. G = {p} \X Found(p)
    BY DEF AllFound
  <2> HIDE DEF G
  <2>4. IsFiniteSet(G) /\ Cardinality(G) = Cardinality(PartRows(p))
    BY <2>1, <2>2, CountFound, Zenon
  <2>5. e \in [Found(p) -> G] /\ \A f \in Found(p) : e[f] = <<p, f>>
    BY <2>3, Zenon
  <2> HIDE DEF e
  <2>6. e \in Injection(Found(p), G)
    BY <2>5 DEF Injection, IsInjective
  <2>7. e \in Surjection(Found(p), G)
    BY <2>3, <2>5 DEF Surjection
  <2>8. Cardinality(Found(p)) = Cardinality(G)
    BY <2>4, <2>6, <2>7, FS_Injection, Zenon
  <2> QED BY <2>4, <2>8, Zenon DEF CountOf
<1> QED BY <1>4, <1>5, <1>6, Zenon

-----------------------------------------------------------------------------
(***************************************************************************)
(* Writing the store and linking a row.                                    *)
(***************************************************************************)

(* Only the indices of a partition matter to it. *)
LEMMA StoreFrame ==
  ASSUME NEW st, NEW su, NEW p, NEW top, NEW S, NEW t,
         \A d \in First(p) .. top - 1 : su[d] = st[d]
  PROVE  /\ Filled(st, p, top, S) => Filled(su, p, top, S)
         /\ Chained(st, p, t, top) => Chained(su, p, t, top)
<1>1. ASSUME Filled(st, p, top, S) PROVE Filled(su, p, top, S)
  BY <1>1, Zenon DEF Filled
<1>2. ASSUME Chained(st, p, t, top) PROVE Chained(su, p, t, top)
  BY <1>2, Zenon DEF Chained, ChainOf
<1> QED BY <1>1, <1>2, Zenon

(* A row later than all others is written at the next index. *)
LEMMA FilledGrows ==
  ASSUME NEW st, NEW su, NEW p \in Nat, NEW top \in Nat, First(p) <= top,
         NEW S, NEW row, \A r \in S : RowBefore(r, row),
         Filled(st, p, top, S),
         su[top] = {row}, \A d \in First(p) .. top - 1 : su[d] = st[d]
  PROVE  Filled(su, p, top + 1, S \cup {row})
<1>1. First(p) \in Nat
  BY Ranges, Zenon
<1>2. \A d \in First(p) .. top + 1 - 1 : d \in First(p) .. top - 1 \/ d = top
  BY <1>1
<1>3. top \in First(p) .. top + 1 - 1 /\ First(p) .. top - 1 \subseteq First(p) .. top + 1 - 1
  BY <1>1
<1>4. \A d \in First(p) .. top - 1 : d < top /\ ~(top < d) /\ \E r \in S : su[d] = {r}
  BY <1>1 DEF Filled
<1>5. \A d \in First(p) .. top + 1 - 1 : \E r \in S \cup {row} : su[d] = {r}
  BY <1>2, <1>4, Zenon
<1>6. \A r \in S \cup {row} : \E d \in First(p) .. top + 1 - 1 : su[d] = {r}
  BY <1>3, Zenon DEF Filled
<1>7. ASSUME NEW d \in First(p) .. top + 1 - 1, NEW e \in First(p) .. top + 1 - 1, d < e,
             NEW r \in su[d], NEW s \in su[e]
      PROVE  RowBefore(r, s)
  <2>1. d \in First(p) .. top - 1
    BY <1>1, <1>7
  <2>2. CASE e = top
    BY <2>1, <2>2, <1>4, Zenon
  <2>3. CASE e \in First(p) .. top - 1
    BY <2>1, <2>3, <1>7, Zenon DEF Filled
  <2> QED BY <1>2, <2>2, <2>3, Zenon
<1>8. \A d, e \in First(p) .. top + 1 - 1 :
        d < e => \A r \in su[d], s \in su[e] : RowBefore(r, s)
  BY ONLY <1>7, Zenon
<1> QED BY ONLY <1>5, <1>6, <1>8, SMTT(60) DEF Filled

(* The index joins the chain of its row's key. *)
LEMMA ChainedGrows ==
  ASSUME NEW st, NEW su, NEW p \in Nat, NEW top \in Nat, First(p) <= top,
         NEW t \in [Keys -> Seq(Indices)], NEW u, NEW row, KeyOf(row) \in Keys, top \in Indices,
         Chained(st, p, t, top),
         \A k \in Keys : u[k] = IF k = KeyOf(row) THEN Append(t[k], top) ELSE t[k],
         su[top] = {row}, \A d \in First(p) .. top - 1 : su[d] = st[d]
  PROVE  Chained(su, p, u, top + 1)
<1>1. First(p) \in Nat
  BY Ranges, Zenon
<1>2. \A d \in First(p) .. top + 1 - 1 : d \in First(p) .. top - 1 \/ d = top
  BY <1>1
<1>3. top \in First(p) .. top + 1 - 1 /\ First(p) .. top - 1 \subseteq First(p) .. top + 1 - 1
  BY <1>1
<1> SUFFICES ASSUME NEW k \in Keys PROVE ChainOf(su, p, u, top + 1, k)
  BY Zenon DEF Chained
<1>4. /\ \A i \in 1 .. Len(t[k]) :
           t[k][i] \in First(p) .. top - 1 /\ \E r \in st[t[k][i]] : KeyOf(r) = k
      /\ \A d \in First(p) .. top - 1 :
           (\E r \in st[d] : KeyOf(r) = k) => \E i \in 1 .. Len(t[k]) : t[k][i] = d
      /\ \A i, j \in 1 .. Len(t[k]) : i < j => t[k][i] < t[k][j]
  BY Zenon DEF Chained, ChainOf
<1>5. CASE k # KeyOf(row)
  <2>1. u[k] = t[k]
    BY <1>5, Zenon
  <2>2. \A d \in First(p) .. top + 1 - 1 : (\E r \in su[d] : KeyOf(r) = k) => d \in First(p) .. top - 1
    BY <1>2, <1>5, Zenon
  <2>3. \A i \in 1 .. Len(u[k]) :
          u[k][i] \in First(p) .. top + 1 - 1 /\ \E r \in su[u[k][i]] : KeyOf(r) = k
    BY <1>3, <1>4, <2>1, Zenon
  <2>4. \A d \in First(p) .. top + 1 - 1 :
          (\E r \in su[d] : KeyOf(r) = k) => \E i \in 1 .. Len(u[k]) : u[k][i] = d
    BY <1>4, <2>1, <2>2, Zenon
  <2>5. \A i, j \in 1 .. Len(u[k]) : i < j => u[k][i] < u[k][j]
    BY <1>4, <2>1, Zenon
  <2> QED BY ONLY <2>3, <2>4, <2>5 DEF ChainOf
<1>6. CASE k = KeyOf(row)
  <2> DEFINE n == Len(t[k])
  <2>1. t[k] \in Seq(Indices)
    BY Zenon
  <2>2. /\ Len(u[k]) = n + 1 /\ u[k][n + 1] = top /\ n \in Nat
        /\ \A i \in 1 .. n : u[k][i] = t[k][i]
    <3>1. u[k] = Append(t[k], top)
      BY <1>6, Zenon
    <3>2. top \in Indices
      BY Zenon
    <3> QED BY ONLY <2>1, <3>1, <3>2, AppendProperties, LenProperties
  <2> HIDE DEF n
  <2>3. \A i \in 1 .. Len(u[k]) : i \in 1 .. n \/ i = n + 1
    BY <2>2
  <2>4. n + 1 \in 1 .. Len(u[k]) /\ \A i \in 1 .. n : i \in 1 .. Len(u[k])
    BY <2>2
  <2>5. \A i \in 1 .. Len(u[k]) :
          u[k][i] \in First(p) .. top + 1 - 1 /\ \E r \in su[u[k][i]] : KeyOf(r) = k
    <3> TAKE i \in 1 .. Len(u[k])
    <3>1. CASE i \in 1 .. n
      BY <3>1, <1>3, <1>4, <2>2, Zenon DEF n
    <3>2. CASE i = n + 1
      BY <3>2, <1>3, <1>6, <2>2, Zenon
    <3> QED BY <2>3, <3>1, <3>2, Zenon
  <2>6. ASSUME NEW d \in First(p) .. top + 1 - 1, \E r \in su[d] : KeyOf(r) = k
        PROVE  \E i \in 1 .. Len(u[k]) : u[k][i] = d
    <3>1. CASE d = top
      BY <3>1, <2>2, <2>4, Zenon
    <3>2. CASE d \in First(p) .. top - 1
      <4>1. PICK i \in 1 .. n : t[k][i] = d
        BY <3>2, <1>4, <2>6, Zenon DEF n
      <4> QED BY <4>1, <2>2, <2>4, Zenon
    <3> QED BY <1>2, <3>1, <3>2, Zenon
  <2>7. ASSUME NEW i \in 1 .. Len(u[k]), NEW j \in 1 .. Len(u[k]), i < j
        PROVE  u[k][i] < u[k][j]
    <3>1. i \in 1 .. n
      BY <2>2, <2>7
    <3>2. CASE j \in 1 .. n
      BY <3>1, <3>2, <1>4, <2>2, <2>7, Zenon DEF n
    <3>3. CASE j = n + 1
      <4>1. u[k][i] \in First(p) .. top - 1
        BY <3>1, <1>4, <2>2, Zenon DEF n
      <4>2. u[k][i] < top
        BY <1>1, <4>1
      <4> QED BY <3>3, <4>2, <2>2, Zenon
    <3> QED BY <2>3, <3>2, <3>3, Zenon
  <2>8. \A i, j \in 1 .. Len(u[k]) : i < j => u[k][i] < u[k][j]
    BY ONLY <2>7, Zenon
  <2>9. \A d \in First(p) .. top + 1 - 1 :
          (\E r \in su[d] : KeyOf(r) = k) => \E i \in 1 .. Len(u[k]) : u[k][i] = d
    BY ONLY <2>6, Zenon
  <2> QED BY ONLY <2>5, <2>8, <2>9 DEF ChainOf
<1> QED BY <1>5, <1>6, Zenon
-----------------------------------------------------------------------------
(***************************************************************************)
(* The error channel.                                                      *)
(***************************************************************************)

(* The workers that have sent are a finite set, and all of them when there *)
(* are as many as workers.                                                 *)
LEMMA SentFinite ==
  /\ IsFiniteSet(SentSet)
  /\ Cardinality(SentSet) \in Nat /\ Cardinality(Pass1Workers) \in Nat
  /\ Cardinality(SentSet) <= Cardinality(Pass1Workers)
  /\ Cardinality(SentSet) = Cardinality(Pass1Workers) => \A w \in Pass1Workers : pc[w] = "sent"
<1>1. SentSet \in SUBSET Pass1Workers /\ IsFiniteSet(Pass1Workers)
  BY Constants, Zenon DEF SentSet
<1>2. /\ IsFiniteSet(SentSet) /\ Cardinality(SentSet) <= Cardinality(Pass1Workers)
      /\ Cardinality(Pass1Workers) = Cardinality(SentSet) => Pass1Workers = SentSet
  BY ONLY <1>1, FS_Subset, Zenon
<1>3. Cardinality(SentSet) \in Nat /\ Cardinality(Pass1Workers) \in Nat
  BY <1>1, <1>2, FS_CardinalityType, Zenon
<1>4. Pass1Workers = SentSet => \A w \in Pass1Workers : pc[w] = "sent"
  BY Zenon DEF SentSet
<1> QED BY <1>2, <1>3, <1>4, Zenon

(* Pass 1 is over when all errors are received: then the channel is empty. *)
LEMMA AllReceived ==
  ASSUME Channel, received = Cardinality(Pass1Workers)
  PROVE  /\ \A w \in Pass1Workers : pc[w] = "sent"
         /\ firstErr = "nil" => \A w \in Pass1Workers : err[w] = "nil"
<1>1. errCh \in Seq(Errs) /\ received \in Nat /\ Len(errCh) \in Nat
  BY LenProperties, Zenon DEF Channel, ChannelTyped
<1>2. Cardinality(SentSet) = Cardinality(Pass1Workers) /\ Len(errCh) = 0
  BY <1>1, SentFinite DEF Channel, Accounts
<1>3. \A w \in Pass1Workers : pc[w] = "sent"
  BY <1>2, SentFinite, Zenon
<1>4. \A i \in 1 .. Len(errCh) : FALSE
  BY <1>2
<1> QED BY <1>3, <1>4, Zenon DEF Channel, Accounts

(* The channel is accounted for initially. *)
LEMMA ChannelInit == Init => Channel
<1> SUFFICES ASSUME Init PROVE Channel
  BY Zenon
<1>1. errCh = <<>> /\ errCh \in Seq(Errs) /\ Len(errCh) = 0
  BY EmptySeq, Zenon DEF Init
<1>2. ChannelTyped
  <2>1. canceled \in BOOLEAN /\ ctxCanceled \in BOOLEAN
    BY Zenon DEF Init
  <2>2. faults \in 0 .. MaxFaults
    BY RadixAssumption DEF Init
  <2>3. pc \in [Pass1Workers -> {"claim", "drain", "send", "sent"}] /\ err \in [Pass1Workers -> Errs]
    BY Zenon DEF Init, Errs
  <2> QED BY <1>1, <2>1, <2>2, <2>3, Zenon DEF Init, ChannelTyped, Errs
<1>3. Causes
  BY <1>1 DEF Init, Causes
<1>4. SentSet = {}
  BY Zenon DEF Init, SentSet
<1>5. Accounts
  BY <1>1, <1>4, FS_EmptySet DEF Init, Accounts
<1> QED BY <1>2, <1>3, <1>5, Zenon DEF Channel

(* The steps that touch neither the channel nor an error. *)
Quiet == UNCHANGED <<err, errCh, received, firstErr, canceled, ctxCanceled, faults>>

(* A step that leaves channel and errors alone, sends nothing and reports  *)
(* no error keeps the accounts.                                            *)
LEMMA QuietStep ==
  ASSUME Channel, Quiet,
         pc' \in [Pass1Workers -> {"claim", "drain", "send", "sent"}],
         \A w \in Pass1Workers : pc'[w] = "sent" <=> pc[w] = "sent",
         callerPc' \in {"pass1", "pass2", "returned"},
         callerPc' # "pass1" => \A w \in Pass1Workers : pc[w] = "sent",
         result' \in {"none", "ok", "err", "overflow"},
         result' = "err" => firstErr # "nil"
  PROVE  Channel'
<1>1. ChannelTyped' /\ Causes'
  BY Zenon DEF Channel, ChannelTyped, Causes, Blamed, Quiet
<1>2. SentSet' = SentSet
  BY Zenon DEF SentSet
<1>3. Accounts'
  BY <1>2, Zenon DEF Channel, Accounts, Quiet
<1> QED BY <1>1, <1>3, Zenon DEF Channel

(* Every step keeps the accounts. *)
LEMMA ChannelStep == ASSUME Channel, [Next]_vars PROVE Channel'
<1> USE DEF Channel
<1>1. ASSUME NEW w \in Pass1Workers, ClaimMorsel(w) \/ EndMorsel(w) PROVE Channel'
  <2>1. Quiet /\ result' = result /\ callerPc' = callerPc
    BY <1>1, Zenon DEF ClaimMorsel, EndMorsel, Quiet
  <2>2. /\ pc' \in [Pass1Workers -> {"claim", "drain", "send", "sent"}]
        /\ \A v \in Pass1Workers : pc'[v] = "sent" <=> pc[v] = "sent"
    BY <1>1, Zenon DEF ClaimMorsel, EndMorsel, ChannelTyped
  <2> QED BY <2>1, <2>2, QuietStep, Zenon DEF Causes, Accounts, ChannelTyped
<1>2. ASSUME NEW w \in Pass1Workers, ReadBatch(w) PROVE Channel'
  <2>1. Quiet /\ result' = result /\ callerPc' = callerPc /\ pc' = pc
    BY <1>2, Zenon DEF ReadBatch, Quiet
  <2> QED BY <2>1, QuietStep, Zenon DEF Causes, Accounts, ChannelTyped
<1>3. ASSUME NEW w \in Pass1Workers, MorselFails(w) \/ MorselCanceled(w) PROVE Channel'
  <2>1. /\ UNCHANGED <<callerPc, errCh, received, firstErr, canceled, ctxCanceled, result>>
        /\ pc[w] = "drain" /\ pc' = [pc EXCEPT ![w] = "send"]
        /\ faults' \in 0 .. MaxFaults
        /\ \/ err' = [err EXCEPT ![w] = "fault"]
           \/ canceled /\ err' = [err EXCEPT ![w] = "canceled"]
    BY <1>3, RadixAssumption DEF MorselFails, MorselCanceled, CanceledByWorker, ChannelTyped
  <2>2. ChannelTyped'
    BY <2>1, Zenon DEF ChannelTyped, Errs
  <2>3. Causes'
    BY <2>1, Zenon DEF ChannelTyped, Causes, Blamed
  <2>4. SentSet' = SentSet
    BY <2>1, Zenon DEF SentSet, ChannelTyped
  <2>5. \A v \in Pass1Workers : pc'[v] = "sent" => pc[v] = "sent" /\ err'[v] = err[v]
    BY <2>1, Zenon DEF ChannelTyped
  <2>6. callerPc = "pass1"
    BY <2>1, Zenon DEF Accounts
  <2> QED BY <2>1, <2>2, <2>3, <2>4, <2>5, <2>6, Zenon DEF Accounts
<1>4. ASSUME NEW w \in Pass1Workers, Send(w) PROVE Channel'
  <2>1. /\ UNCHANGED <<callerPc, err, received, firstErr, canceled, ctxCanceled, faults, result>>
        /\ pc[w] = "send" /\ pc' = [pc EXCEPT ![w] = "sent"]
        /\ errCh' = Append(errCh, err[w])
    BY <1>4, Zenon DEF Send, SentBy
  <2>2. /\ errCh' \in Seq(Errs) /\ Len(errCh) \in Nat /\ Len(errCh') = Len(errCh) + 1
        /\ \A i \in 1 .. Len(errCh) : errCh'[i] = errCh[i]
        /\ errCh'[Len(errCh) + 1] = err[w]
    BY <2>1, AppendProperties, LenProperties DEF ChannelTyped
  <2>3. ChannelTyped'
    BY <2>1, <2>2, Zenon DEF ChannelTyped
  <2>4. Causes'
    BY <2>1, <2>2 DEF Causes, Blamed
  <2>5. SentSet' = SentSet \cup {w} /\ w \notin SentSet
    BY <2>1, Zenon DEF SentSet, ChannelTyped
  <2>6. Cardinality(SentSet') = Cardinality(SentSet) + 1
    BY <2>5, SentFinite, FS_AddElement, Zenon
  <2>7. ASSUME NEW v \in Pass1Workers, pc'[v] = "sent", err'[v] # "nil", firstErr' = "nil"
        PROVE  \E i \in 1 .. Len(errCh') : errCh'[i] # "nil"
    <3>1. Len(errCh) + 1 \in 1 .. Len(errCh') /\ \A i \in 1 .. Len(errCh) : i \in 1 .. Len(errCh')
      BY <2>2
    <3>2. CASE v = w
      BY <2>1, <2>2, <2>7, <3>1, <3>2, Zenon
    <3>3. CASE v # w
      <4>1. pc[v] = "sent" /\ err[v] # "nil" /\ firstErr = "nil"
        BY <2>1, <2>7, <3>3, Zenon DEF ChannelTyped
      <4> QED BY <4>1, <2>2, <3>1, Zenon DEF Accounts
    <3> QED BY <3>2, <3>3, Zenon
  <2>8. callerPc = "pass1"
    BY <2>1, Zenon DEF Accounts
  <2>9. Cardinality(SentSet)' = received' + Len(errCh')
    BY <2>1, <2>2, <2>6, SentFinite DEF Accounts, ChannelTyped
  <2> QED BY <2>1, <2>3, <2>4, <2>7, <2>8, <2>9, Zenon DEF Accounts
<1>5. CASE Receive
  <2>1. /\ UNCHANGED <<pc, err, callerPc, ctxCanceled, faults, result>>
        /\ received' = received + 1 /\ errCh' = Tail(errCh) /\ errCh # <<>>
        /\ IF Head(errCh) # "nil" /\ firstErr = "nil"
           THEN firstErr' = Head(errCh) /\ canceled' = TRUE
           ELSE UNCHANGED <<firstErr, canceled>>
    BY <1>5, Zenon DEF Receive, pass1
  <2>2. /\ Len(errCh) \in Nat \ {0} /\ Head(errCh) = errCh[1] /\ Head(errCh) \in Errs
        /\ errCh' \in Seq(Errs) /\ Len(errCh') = Len(errCh) - 1
        /\ \A i \in 1 .. Len(errCh') : errCh'[i] = errCh[i + 1]
    BY <2>1, EmptySeq, LenProperties, HeadTailProperties DEF ChannelTyped
  <2>3. ChannelTyped'
    <3>1. canceled' \in BOOLEAN
      BY <2>1, Zenon DEF ChannelTyped
    <3>2. firstErr' \in Errs
      BY <2>1, <2>2, Zenon DEF ChannelTyped
    <3>3. received' \in Nat
      BY <2>1 DEF ChannelTyped
    <3> QED BY <2>1, <2>2, <3>1, <3>2, <3>3, Zenon DEF ChannelTyped
  <2>4. Blamed => Blamed'
    BY <2>1, Zenon DEF Blamed
  <2>5. Head(errCh) = "canceled" => Blamed
    BY <2>2 DEF Causes
  <2>6. canceled' => Blamed'
    BY <2>1, <2>2, <2>4, <2>5, Zenon DEF Causes, Blamed, Errs
  <2>7. \A i \in 1 .. Len(errCh') : errCh'[i] = "canceled" => Blamed'
    BY <2>2, <2>4 DEF Causes
  <2>8. firstErr' = "canceled" => ctxCanceled'
    BY <2>1, <2>5, Zenon DEF Causes, Blamed
  <2>9. Causes'
    BY <2>1, <2>4, <2>6, <2>7, <2>8, Zenon DEF Causes
  <2>10. SentSet' = SentSet
    BY <2>1, Zenon DEF SentSet
  <2>11. ASSUME NEW v \in Pass1Workers, pc'[v] = "sent", err'[v] # "nil", firstErr' = "nil"
         PROVE  \E i \in 1 .. Len(errCh') : errCh'[i] # "nil"
    <3>1. pc[v] = "sent" /\ err[v] # "nil" /\ firstErr = "nil" /\ Head(errCh) = "nil"
      BY <2>1, <2>11, Zenon
    <3>2. PICK i \in 1 .. Len(errCh) : errCh[i] # "nil"
      BY <3>1, Zenon DEF Accounts
    <3>3. i # 1
      BY <2>2, <3>1, <3>2, Zenon
    <3>4. i - 1 \in 1 .. Len(errCh') /\ i - 1 + 1 = i
      BY <2>2, <3>3
    <3>5. errCh'[i - 1] = errCh[i]
      BY <2>2, <3>4, Zenon
    <3> QED BY <3>2, <3>4, <3>5, Zenon
  <2>12. Cardinality(SentSet)' = received' + Len(errCh')
    BY <2>1, <2>2, <2>10 DEF Accounts, ChannelTyped
  <2> QED BY <2>1, <2>3, <2>9, <2>11, <2>12, Zenon DEF Accounts
<1>6. CASE CancelCtx
  <2>1. /\ UNCHANGED <<pc, err, callerPc, errCh, received, firstErr, faults, result>>
        /\ ctxCanceled' = TRUE /\ canceled' = TRUE
    BY <1>6, Zenon DEF CancelCtx, pass1
  <2>2. ChannelTyped' /\ SentSet' = SentSet
    BY <2>1, Zenon DEF ChannelTyped, SentSet
  <2>3. Causes'
    BY <2>1, Zenon DEF Causes, Blamed
  <2> QED BY <2>1, <2>2, <2>3, Zenon DEF Accounts
<1>7. CASE Pass1Fails \/ StartPass2 \/ Pass2Done
  <2>1. /\ Quiet /\ pc' = pc /\ (result' = "err" => firstErr # "nil")
        /\ callerPc' \in {"pass1", "pass2", "returned"}
        /\ result' \in {"none", "ok", "err", "overflow"}
    BY <1>7, Zenon DEF Pass1Fails, StartPass2, Pass2Done, Quiet, pass1, pass2, Causes, ChannelTyped
  <2>2. \A w \in Pass1Workers : pc[w] = "sent"
    <3>1. CASE Pass2Done
      BY <3>1, Zenon DEF Pass2Done, Accounts
    <3>2. CASE Pass1Fails \/ StartPass2
      BY <3>2, AllReceived, Zenon DEF Pass1Fails, StartPass2
    <3> QED BY <1>7, <3>1, <3>2, Zenon
  <2> QED BY <2>1, <2>2, QuietStep, Zenon DEF ChannelTyped
<1>8. ASSUME NEW w \in Pass2Workers, Pass2Step(w) PROVE Channel'
  <2>1. Quiet /\ pc' = pc /\ result' = result /\ callerPc' = callerPc
    BY <1>8, Zenon DEF Pass2Step, ClaimPart, CopyRow, NextBucket, PublishPart, outsidePass2Worker,
                pass1, Quiet
  <2> QED BY <2>1, QuietStep, Zenon DEF ChannelTyped, Causes, Accounts
<1>9. CASE UNCHANGED vars
  <2>1. Quiet /\ pc' = pc /\ result' = result /\ callerPc' = callerPc
    BY <1>9, Zenon DEF vars, pass1, Quiet
  <2> QED BY <2>1, QuietStep, Zenon DEF ChannelTyped, Causes, Accounts
<1> QED BY <1>1, <1>2, <1>3, <1>4, <1>5, <1>6, <1>7, <1>8, <1>9, Zenon
        DEF Next, CallerStep, Pass1Step

-----------------------------------------------------------------------------
(***************************************************************************)
(* Pass 1.                                                                 *)
(***************************************************************************)

(* No morsel is claimed initially. *)
LEMMA Pass1Init == Init => Pass1Inv
<1> SUFFICES ASSUME Init PROVE Pass1Inv
  BY Zenon
<1>1. NoRows \in [Parts -> Seq(BuildRows)]
  BY EmptySeq, Zenon DEF NoRows
<1>2. 0 \in 0 .. TotalRGs - 1 /\ 0 \in 0 .. Len(Build) /\ MorselSize \in Nat
  BY Constants
<1>3. Pass1Typed
  BY <1>1, <1>2, Zenon DEF Init, Pass1Typed, AtMostOne
<1>4. Draining
  BY Zenon DEF Init, Draining
<1>5. Filing
  <2>1. \E j \in 0 .. cursor : cursor = j * MorselSize
    <3>1. 0 \in 0 .. cursor /\ cursor = 0 * MorselSize
      BY <1>2 DEF Init
    <3> QED BY <3>1, Zenon
  <2>2. \A m \in Morsels : ~(m * MorselSize < cursor)
    BY <1>2, Constants DEF Init, Morsels
  <2>3. \A m \in Morsels : buckets[m] = {}
    BY Zenon DEF Init
  <2>4. \A w \in Pass1Workers : pc[w] \notin {"send", "sent"}
    BY Zenon DEF Init
  <2> QED BY <2>1, <2>2, <2>3, <2>4, Zenon DEF Filing
<1> QED BY <1>3, <1>4, <1>5, Zenon DEF Pass1Inv

(* The batches ahead of a worker are those of its morsel after the one it  *)
(* is at.                                                                  *)
LEMMA AheadInMorsel ==
  ASSUME Pass1Inv, NEW w \in Pass1Workers, pc[w] = "drain"
  PROVE  /\ BucketOf(w) \in Nat /\ at[w] \in Nat
         /\ \A c \in DOMAIN Build :
              c \in Ahead(w) <=> at[w] < c /\ Build[c].rg \div MorselSize = BucketOf(w)
<1> DEFINE m == BucketOf(w)
           q == MorselSize
<1>1. q \in Nat \ {0} /\ DOMAIN Build = 1 .. Len(Build) /\ Len(Build) \in Nat
  BY Constants, Zenon
<1>2. m \in Morsels /\ start[w] = m * q /\ at[w] \in Nat
  BY <1>1 DEF Pass1Inv, Draining, Pass1Typed
<1>3. m \in Nat
  BY <1>2, Constants DEF Morsels
<1> HIDE DEF m, q
<1>4. ASSUME NEW c \in DOMAIN Build
      PROVE  c \in Ahead(w) <=> at[w] < c /\ Build[c].rg \div q = m
  <2>1. Build[c].rg \in Nat
    BY BatchType, Constants
  <2>2. Build[c].rg \div q = m <=> m * q <= Build[c].rg /\ Build[c].rg < m * q + q
    BY <2>1, <1>1, <1>3, Quotient, Zenon
  <2>3. m * q \in Nat
    BY <1>1, <1>3
  <2>4. c \in Ahead(w) <=> c > at[w] /\ Build[c].rg >= m * q /\ Build[c].rg < m * q + q
    BY <1>2, Zenon DEF Ahead, q
  <2> QED BY <1>1, <1>2, <2>1, <2>2, <2>3, <2>4, Zenon
<1> QED BY <1>2, <1>3, <1>4, Zenon DEF m, q

(* A worker claims the next morsel, or finds that there is none. *)
LEMMA ClaimMorselStep ==
  ASSUME Channel, Pass1Inv, NEW w \in Pass1Workers, ClaimMorsel(w)
  PROVE  Pass1Inv'
<1> DEFINE q == MorselSize
<1>1. callerPc = "pass1"
  BY Zenon DEF ClaimMorsel, Channel, Accounts
<1>2. q \in Nat \ {0} /\ TotalRGs \in Nat \ {0} /\ Len(Build) \in Nat
  BY Constants, Zenon
<1>3. PICK j \in 0 .. cursor : cursor = j * q
  BY <1>1, Zenon DEF Pass1Inv, Filing
<1>4. cursor \in Nat /\ j \in Nat /\ cursor' = cursor + q /\ buckets' = buckets /\ err' = err
  BY <1>3 DEF ClaimMorsel, Pass1Inv, Pass1Typed
<1> HIDE DEF q
<1>5. cursor' \in Nat /\ j + 1 \in 0 .. cursor' /\ cursor' = (j + 1) * q
  <2>1. (j + 1) * q = j * q + q
    BY <1>2, <1>4
  <2>2. j + 1 <= cursor + q
    BY <1>2, <1>3, <1>4
  <2> QED BY <1>2, <1>3, <1>4, <2>1, <2>2
<1>6. \A v \in Pass1Workers : v # w =>
        /\ pc'[v] = pc[v] /\ start'[v] = start[v] /\ at'[v] = at[v] /\ local'[v] = local[v]
  BY Zenon DEF ClaimMorsel, Channel, ChannelTyped, Pass1Inv, Pass1Typed
<1>7. \A m \in Morsels : m \in Nat /\ m * q \in Nat /\ m * q < TotalRGs
  BY <1>2, MorselBegins, Constants DEF Morsels, q
<1>8. ASSUME NEW v \in Pass1Workers, v # w, pc'[v] = "drain"
      PROVE  /\ BucketOf(v)' \in Morsels /\ start'[v] = BucketOf(v)' * MorselSize
             /\ \A p \in Parts : Serial(local'[v][p], DrainedRows(BucketOf(v)', p, at'[v]))
  BY <1>6, <1>8, Zenon DEF Pass1Inv, Draining, BucketOf
<1>9. CASE cursor >= TotalRGs
  <2>1. pc' = [pc EXCEPT ![w] = "send"] /\ UNCHANGED <<start, at, local>>
    BY <1>9, Zenon DEF ClaimMorsel
  <2>2. Pass1Typed'
    BY <1>4, <1>5, <2>1, Zenon DEF Pass1Inv, Pass1Typed
  <2>3. pc'[w] = "send" /\ pc[w] = "claim"
    BY <2>1, Zenon DEF Channel, ChannelTyped, ClaimMorsel
  <2>4. Draining'
    BY <1>8, <2>3, Zenon DEF Draining
  <2>5. \A v \in Pass1Workers : pc[v] = "drain" => pc'[v] = "drain" /\ BucketOf(v)' = BucketOf(v)
    BY <1>6, <2>1, <2>3, Zenon DEF BucketOf
  <2>6. \A m \in Morsels :
          \/ buckets'[m] # {}
          \/ \E v \in Pass1Workers : err'[v] # "nil" \/ (pc'[v] = "drain" /\ BucketOf(v)' = m)
    <3> TAKE m \in Morsels
    <3>1. m * MorselSize < cursor
      BY <1>2, <1>4, <1>7, <1>9 DEF q
    <3> QED BY <1>1, <1>4, <2>5, <3>1, Zenon DEF Pass1Inv, Filing
  <2>7. cursor' >= TotalRGs
    BY <1>2, <1>4, <1>9
  <2>8. \E i \in 0 .. cursor' : cursor' = i * MorselSize
    BY <1>5, Zenon DEF q
  <2>9. Filing'
    BY <1>1, <1>4, <2>6, <2>7, <2>8, Zenon DEF Pass1Inv, Filing
  <2> QED BY <2>2, <2>4, <2>9, Zenon DEF Pass1Inv
<1>10. CASE ~(cursor >= TotalRGs)
  <2>1. /\ start' = [start EXCEPT ![w] = cursor] /\ at' = [at EXCEPT ![w] = 0]
        /\ local' = [local EXCEPT ![w] = NoRows] /\ pc' = [pc EXCEPT ![w] = "drain"]
    BY <1>10, Zenon DEF ClaimMorsel
  <2>2. /\ start'[w] = cursor /\ at'[w] = 0 /\ local'[w] = NoRows /\ pc'[w] = "drain"
        /\ pc[w] = "claim"
    BY <2>1, Zenon DEF ClaimMorsel, Channel, ChannelTyped, Pass1Inv, Pass1Typed
  <2>3. cursor \in 0 .. TotalRGs - 1
    BY <1>2, <1>4, <1>10
  <2>4. NoRows \in [Parts -> Seq(BuildRows)]
    BY EmptySeq, Zenon DEF NoRows
  <2>5. 0 \in 0 .. Len(Build)
    BY <1>2
  <2>6. Pass1Typed'
    BY <1>4, <1>5, <2>1, <2>3, <2>4, <2>5, Zenon DEF Pass1Inv, Pass1Typed
  <2>7. BucketOf(w)' = j
    <3>1. cursor \div q = j
      <4>1. j * q <= cursor /\ cursor < j * q + q
        BY <1>2, <1>3, <1>4
      <4> QED BY <1>2, <1>4, <4>1, Quotient, Zenon
    <3> QED BY <2>2, <3>1, Zenon DEF BucketOf, q
  <2>8. j \in Morsels
    BY <1>2, <1>3, <1>4, <1>10, MorselBegins DEF q
  <2>9. \A p \in Parts : Serial(local'[w][p], DrainedRows(j, p, 0))
    <3> TAKE p \in Parts
    <3>1. local'[w][p] = <<>>
      BY <2>2, Zenon DEF NoRows
    <3>2. DrainedRows(j, p, 0) = {}
      BY <1>4, DrainedEnds, Zenon
    <3> QED BY <3>1, <3>2, SerialEmpty, Zenon
  <2>10. start'[w] = j * MorselSize
    BY <1>3, <2>2, Zenon DEF q
  <2>11. Draining'
    BY <1>8, <2>2, <2>7, <2>8, <2>9, <2>10, Zenon DEF Draining
  <2>12. \A v \in Pass1Workers : pc[v] = "drain" => pc'[v] = "drain" /\ BucketOf(v)' = BucketOf(v)
    BY <1>6, <2>2, Zenon DEF BucketOf
  <2>13. ASSUME NEW m \in Morsels, m * MorselSize < cursor'
         PROVE  \/ buckets'[m] # {}
                \/ \E v \in Pass1Workers : err'[v] # "nil" \/ (pc'[v] = "drain" /\ BucketOf(v)' = m)
    <3>1. CASE m = j
      BY <2>2, <2>7, <3>1, Zenon
    <3>2. CASE m # j
      <4>1. m * MorselSize < cursor
        <5>1. m \in Nat /\ m * q < (j + 1) * q
          BY <1>5, <1>7, <2>13, Zenon DEF q
        <5>2. ~(m >= j + 1)
          <6>1. m >= j + 1 => m * q >= (j + 1) * q
            BY <1>2, <1>4, <5>1
          <6>2. m * q \in Nat /\ (j + 1) * q \in Nat
            BY <1>2, <1>4, <5>1
          <6> QED BY <5>1, <6>1, <6>2
        <5>3. m + 1 <= j
          BY <1>4, <3>2, <5>1, <5>2
        <5>4. (m + 1) * q <= j * q /\ (m + 1) * q = m * q + q /\ m * q \in Nat
          BY <1>2, <1>4, <5>1, <5>3
        <5>5. m * q < cursor
          BY <1>2, <1>3, <1>4, <5>4
        <5> QED BY <5>5, Zenon DEF q
      <4> QED BY <1>1, <1>4, <2>12, <4>1, Zenon DEF Pass1Inv, Filing
    <3> QED BY <3>1, <3>2, Zenon
  <2>14. \E i \in 0 .. cursor' : cursor' = i * MorselSize
    BY <1>5, Zenon DEF q
  <2>15. \A v \in Pass1Workers : pc'[v] \in {"send", "sent"} => err'[v] # "nil" \/ cursor' >= TotalRGs
    <3> TAKE v \in Pass1Workers
    <3>1. pc'[v] \in {"send", "sent"} => pc[v] \in {"send", "sent"}
      BY <1>6, <2>2, Zenon
    <3>2. pc[v] \in {"send", "sent"} => err[v] # "nil" \/ cursor >= TotalRGs
      BY <1>1, Zenon DEF Pass1Inv, Filing
    <3> QED BY <1>4, <1>10, <3>1, <3>2, Zenon
  <2>16. \A m \in Morsels : \A b \in buckets'[m] : \A p \in Parts : Serial(b[p], MorselRows(m, p))
    BY <1>1, <1>4, Zenon DEF Pass1Inv, Filing
  <2>17. Filing'
    BY ONLY <2>13, <2>14, <2>15, <2>16, Zenon DEF Filing
  <2> QED BY <2>6, <2>11, <2>17, Zenon DEF Pass1Inv
<1> QED BY <1>9, <1>10, Zenon

(* A worker reads the next batch of its morsel. *)
LEMMA ReadBatchStep ==
  ASSUME Channel, Pass1Inv, NEW w \in Pass1Workers, ReadBatch(w)
  PROVE  Pass1Inv'
<1> DEFINE b == FirstOf(Ahead(w))
           m == BucketOf(w)
<1>1. /\ pc[w] = "drain" /\ Ahead(w) # {} /\ at' = [at EXCEPT ![w] = b]
      /\ local' = [local EXCEPT ![w] = [p \in Parts |-> local[w][p] \o RowsFor(b, p)]]
      /\ UNCHANGED <<callerPc, cursor, pc, start, err, buckets>>
  BY Zenon DEF ReadBatch
<1>2. Ahead(w) \subseteq DOMAIN Build /\ DOMAIN Build = 1 .. Len(Build) /\ Len(Build) \in Nat
  BY Constants, Zenon DEF Ahead
<1>3. b \in Ahead(w) /\ \A c \in Ahead(w) : b <= c
  <2>1. Ahead(w) \in SUBSET Nat
    BY <1>2
  <2>2. \E x \in Ahead(w) : \A y \in Ahead(w) : x <= y
    BY <1>1, <2>1, LeastNatural, Zenon
  <2> QED BY <2>2, Zenon DEF FirstOf
<1> HIDE DEF b
<1>4. /\ m \in Nat /\ at[w] \in Nat
      /\ \A c \in DOMAIN Build : c \in Ahead(w) <=> at[w] < c /\ Build[c].rg \div MorselSize = m
  BY <1>1, AheadInMorsel, Zenon
<1>5. b \in DOMAIN Build /\ at[w] < b /\ Build[b].rg \div MorselSize = m
  BY <1>2, <1>3, <1>4, Zenon
<1>6. ASSUME NEW p \in Parts
      PROVE  Serial(local[w][p] \o RowsFor(b, p), DrainedRows(m, p, b))
  <2>1. DrainedRows(m, p, b) = DrainedRows(m, p, at[w]) \cup BatchRows(b, p)
    <3> HIDE DEF m
    <3>1. \A c \in DOMAIN Build : at[w] < c /\ Build[c].rg \div MorselSize = m => b <= c
      BY <1>3, <1>4, Zenon
    <3>2. m \in Nat /\ at[w] \in Nat
      BY <1>4, Zenon
    <3>3. \A r : r \in DrainedRows(m, p, b) <=>
                 r \in DrainedRows(m, p, at[w]) \/ r \in BatchRows(b, p)
      BY ONLY <1>5, <3>1, <3>2, DrainedNext, Zenon
    <3> QED BY ONLY <3>3, Zenon
  <2>2. Serial(local[w][p], DrainedRows(m, p, at[w]))
    BY <1>1, Zenon DEF Pass1Inv, Draining
  <2>3. Serial(RowsFor(b, p), BatchRows(b, p))
    BY <1>5, RowsForSerial, Zenon
  <2>4. ASSUME NEW x \in DrainedRows(m, p, at[w]), NEW y \in BatchRows(b, p)
        PROVE  RowBefore(x, y)
    <3>1. x \in BuildRows /\ x[1] <= at[w] /\ y[1] = b
      BY Zenon DEF DrainedRows, MorselRows, PartRows, BatchRows
    <3>2. x[1] \in Nat /\ b \in Nat
      BY <1>2, <1>5, <3>1, RowFacts
    <3>3. x[1] < y[1]
      BY <1>4, <1>5, <3>1, <3>2
    <3> QED BY <3>3, Zenon DEF RowBefore
  <2>5. Serial(local[w][p] \o RowsFor(b, p), DrainedRows(m, p, at[w]) \cup BatchRows(b, p))
    BY <2>2, <2>3, <2>4, SerialConcat, Zenon
  <2> QED BY <2>1, <2>5, Zenon
<1>7. /\ at'[w] = b /\ \A p \in Parts : local'[w][p] = local[w][p] \o RowsFor(b, p)
      /\ \A v \in Pass1Workers : v # w => at'[v] = at[v] /\ local'[v] = local[v]
  BY <1>1, Zenon DEF Pass1Inv, Pass1Typed
<1>8. [p \in Parts |-> local[w][p] \o RowsFor(b, p)] \in [Parts -> Seq(BuildRows)]
  BY <1>6, Zenon DEF Serial
<1>9. Pass1Typed'
  BY <1>1, <1>2, <1>5, <1>8 DEF Pass1Inv, Pass1Typed
<1>10. \A v \in Pass1Workers : BucketOf(v)' = BucketOf(v)
  BY <1>1, Zenon DEF BucketOf
<1>11. Draining'
  <2> SUFFICES ASSUME NEW v \in Pass1Workers, pc[v] = "drain"
               PROVE  /\ BucketOf(v) \in Morsels /\ start[v] = BucketOf(v) * MorselSize
                      /\ \A p \in Parts : Serial(local'[v][p], DrainedRows(BucketOf(v), p, at'[v]))
    BY <1>1, <1>10, Zenon DEF Draining
  <2>1. BucketOf(v) \in Morsels /\ start[v] = BucketOf(v) * MorselSize
    BY Zenon DEF Pass1Inv, Draining
  <2>2. CASE v = w
    BY <1>6, <1>7, <2>1, <2>2, Zenon
  <2>3. CASE v # w
    BY <1>7, <2>1, <2>3, Zenon DEF Pass1Inv, Draining
  <2> QED BY <2>2, <2>3, Zenon
<1>12. Filing'
  BY <1>1, <1>10, Zenon DEF Pass1Inv, Filing
<1> QED BY <1>9, <1>11, <1>12, Zenon DEF Pass1Inv

(* A worker files the bucket of the morsel it has drained. *)
LEMMA EndMorselStep ==
  ASSUME Channel, Pass1Inv, NEW w \in Pass1Workers, EndMorsel(w)
  PROVE  Pass1Inv'
<1> DEFINE m == BucketOf(w)
<1>1. /\ pc[w] = "drain" /\ Ahead(w) = {} /\ buckets' = [buckets EXCEPT ![m] = {local[w]}]
      /\ pc' = [pc EXCEPT ![w] = "claim"]
      /\ UNCHANGED <<callerPc, cursor, start, at, local, err>>
  BY Zenon DEF EndMorsel
<1>2. callerPc = "pass1"
  BY <1>1, Zenon DEF Channel, Accounts
<1>3. m \in Morsels /\ local[w] \in [Parts -> Seq(BuildRows)]
  BY <1>1, Zenon DEF Pass1Inv, Draining, Pass1Typed
<1>4. /\ buckets'[m] = {local[w]}
      /\ \A n \in Morsels : n # m => buckets'[n] = buckets[n]
      /\ buckets' \in [Morsels -> SUBSET [Parts -> Seq(BuildRows)]]
  BY <1>1, <1>3, Zenon DEF Pass1Inv, Pass1Typed
<1>5. /\ pc'[w] = "claim" /\ \A v \in Pass1Workers : v # w => pc'[v] = pc[v]
      /\ \A v \in Pass1Workers : BucketOf(v)' = BucketOf(v)
  BY <1>1, Zenon DEF Channel, ChannelTyped, BucketOf
<1>6. \A p \in Parts : Serial(local[w][p], MorselRows(m, p))
  <2> TAKE p \in Parts
  <2>1. /\ m \in Nat /\ at[w] \in Nat
        /\ \A c \in DOMAIN Build : c \in Ahead(w) <=> at[w] < c /\ Build[c].rg \div MorselSize = m
    BY <1>1, AheadInMorsel, Zenon
  <2>2. DrainedRows(m, p, at[w]) = MorselRows(m, p)
    BY <1>1, <2>1, DrainedEnds, Zenon
  <2>3. Serial(local[w][p], DrainedRows(m, p, at[w]))
    BY <1>1, Zenon DEF Pass1Inv, Draining
  <2> QED BY <2>2, <2>3, Zenon
<1> HIDE DEF m
<1>7. Pass1Typed'
  <2>1. AtMostOne(buckets'[m])
    BY <1>4, Zenon DEF AtMostOne
  <2>2. \A n \in Morsels : n # m => AtMostOne(buckets'[n])
    BY <1>4, Zenon DEF Pass1Inv, Pass1Typed
  <2> QED BY <1>1, <1>4, <2>1, <2>2, Zenon DEF Pass1Inv, Pass1Typed
<1>8. Draining'
  BY <1>1, <1>5, Zenon DEF Pass1Inv, Draining
<1>9. \A n \in Morsels : \A b \in buckets'[n] : \A p \in Parts : Serial(b[p], MorselRows(n, p))
  <2> TAKE n \in Morsels
  <2>1. CASE n = m
    BY <1>4, <1>6, <2>1, Zenon
  <2>2. CASE n # m
    BY <1>2, <1>4, <2>2, Zenon DEF Pass1Inv, Filing
  <2> QED BY <2>1, <2>2, Zenon
<1>10. ASSUME NEW n \in Morsels, n * MorselSize < cursor
       PROVE  \/ buckets'[n] # {}
              \/ \E v \in Pass1Workers : err[v] # "nil" \/ (pc'[v] = "drain" /\ BucketOf(v) = n)
  <2>1. CASE n = m
    BY <1>4, <2>1, Zenon
  <2>2. CASE n # m
    <3>1. \/ buckets[n] # {}
          \/ \E v \in Pass1Workers : err[v] # "nil" \/ (pc[v] = "drain" /\ BucketOf(v) = n)
      BY <1>2, <1>10, Zenon DEF Pass1Inv, Filing
    <3>2. \A v \in Pass1Workers : BucketOf(v) = n => v # w
      BY <2>2, Zenon DEF m
    <3> QED BY <1>4, <1>5, <2>2, <3>1, <3>2, Zenon
  <2> QED BY <2>1, <2>2, Zenon
<1>11. \A v \in Pass1Workers : pc'[v] \in {"send", "sent"} => err[v] # "nil" \/ cursor >= TotalRGs
  BY <1>2, <1>5, Zenon DEF Pass1Inv, Filing
<1>12. \E j \in 0 .. cursor : cursor = j * MorselSize
  BY <1>2, Zenon DEF Pass1Inv, Filing
<1>13. Filing'
  BY <1>1, <1>5, <1>9, <1>10, <1>11, <1>12 DEF Filing
<1> QED BY <1>7, <1>8, <1>13, Zenon DEF Pass1Inv

(* A worker gives its morsel up with an error, or sends. *)
LEMMA StopStep ==
  ASSUME Channel, Pass1Inv, NEW w \in Pass1Workers,
         MorselFails(w) \/ MorselCanceled(w) \/ Send(w)
  PROVE  Pass1Inv'
<1>1. UNCHANGED <<callerPc, cursor, start, at, local, buckets>>
  BY Zenon DEF MorselFails, MorselCanceled, Send
<1>2. /\ pc'[w] \in {"send", "sent"} /\ (pc[w] = "drain" => err'[w] # "nil")
      /\ (pc[w] # "drain" => err'[w] = err[w] /\ pc[w] = "send")
      /\ \A v \in Pass1Workers : v # w => pc'[v] = pc[v] /\ err'[v] = err[v]
  BY Zenon DEF MorselFails, MorselCanceled, Send, Channel, ChannelTyped
<1>3. \A v \in Pass1Workers : BucketOf(v)' = BucketOf(v)
  BY <1>1, Zenon DEF BucketOf
<1>4. Pass1Typed'
  BY <1>1, Zenon DEF Pass1Inv, Pass1Typed
<1>5. Draining'
  BY <1>1, <1>2, <1>3, Zenon DEF Pass1Inv, Draining
<1>6. ASSUME callerPc = "pass1" PROVE Filing'
  <2>1. \A n \in Morsels : n * MorselSize < cursor =>
          \/ buckets[n] # {}
          \/ \E v \in Pass1Workers : err'[v] # "nil" \/ (pc'[v] = "drain" /\ BucketOf(v) = n)
    <3> SUFFICES ASSUME NEW n \in Morsels, n * MorselSize < cursor, buckets[n] = {}
                 PROVE  \E v \in Pass1Workers : err'[v] # "nil" \/ (pc'[v] = "drain" /\ BucketOf(v) = n)
      BY Zenon
    <3>1. PICK v \in Pass1Workers : err[v] # "nil" \/ (pc[v] = "drain" /\ BucketOf(v) = n)
      BY <1>6, Zenon DEF Pass1Inv, Filing
    <3>2. err'[v] # "nil" \/ (pc'[v] = "drain" /\ BucketOf(v) = n)
      BY <1>2, <3>1, Zenon
    <3> QED BY <3>2, Zenon
  <2>2. \A v \in Pass1Workers : pc'[v] \in {"send", "sent"} => err'[v] # "nil" \/ cursor >= TotalRGs
    <3> TAKE v \in Pass1Workers
    <3>1. pc[v] \in {"send", "sent"} => err[v] # "nil" \/ cursor >= TotalRGs
      BY <1>6, Zenon DEF Pass1Inv, Filing
    <3> QED BY <1>2, <3>1, Zenon
  <2> QED BY <1>1, <1>3, <1>6, <2>1, <2>2, Zenon DEF Pass1Inv, Filing
<1>7. Filing'
  BY <1>1, <1>6, Zenon DEF Filing
<1> QED BY <1>4, <1>5, <1>7, Zenon DEF Pass1Inv

(* A pass-2 worker runs in pass 2 only. *)
LEMMA Pass2Running ==
  ASSUME Channel, Phases, NEW w \in Pass2Workers, pc2[w] \in {"claim", "copy"}
  PROVE  callerPc = "pass2" /\ Started /\ result = "none"
  BY Zenon DEF Phases, Started, Channel, ChannelTyped

(* Every step keeps what pass 1 has done. *)
LEMMA Pass1Steps == ASSUME IndInv, [Next]_vars PROVE Pass1Inv'
<1> USE DEF IndInv
<1>1. ASSUME NEW w \in Pass1Workers, Pass1Step(w) PROVE Pass1Inv'
  BY <1>1, ClaimMorselStep, ReadBatchStep, EndMorselStep, StopStep, Zenon DEF Pass1Step
<1>2. CASE Receive \/ CancelCtx \/ UNCHANGED vars
  <2>1. UNCHANGED <<callerPc, cursor, pc, start, at, local, err, buckets>>
    BY <1>2, Zenon DEF Receive, CancelCtx, vars, pass1
  <2>2. \A v \in Pass1Workers : BucketOf(v)' = BucketOf(v)
    BY <2>1, Zenon DEF BucketOf
  <2> QED BY <2>1, <2>2, Zenon DEF Pass1Inv, Pass1Typed, Draining, Filing
<1>3. ASSUME callerPc' # "pass1", \A w \in Pass1Workers : pc'[w] = "sent", Pass1Typed'
      PROVE  Pass1Inv'
  BY <1>3, Zenon DEF Pass1Inv, Draining, Filing
<1>4. CASE Pass1Fails \/ StartPass2
  <2>1. /\ callerPc' # "pass1" /\ UNCHANGED <<pc, start, at, local, buckets>>
        /\ cursor' = cursor \/ cursor' = 0
        /\ received = Cardinality(Pass1Workers)
    BY <1>4, Zenon DEF Pass1Fails, StartPass2, pass1
  <2>2. \A w \in Pass1Workers : pc'[w] = "sent"
    BY <2>1, AllReceived, Zenon
  <2>3. Pass1Typed'
    BY <2>1 DEF Pass1Inv, Pass1Typed
  <2> QED BY <1>3, <2>1, <2>2, <2>3, Zenon
<1>5. CASE Pass2Done
  <2>1. callerPc' # "pass1" /\ callerPc # "pass1" /\ UNCHANGED <<cursor, pc, start, at, local, buckets>>
    BY <1>5, Zenon DEF Pass2Done, pass1
  <2>2. \A w \in Pass1Workers : pc'[w] = "sent"
    BY <2>1, Zenon DEF Channel, Accounts
  <2>3. Pass1Typed'
    BY <2>1, Zenon DEF Pass1Inv, Pass1Typed
  <2> QED BY <1>3, <2>1, <2>2, <2>3, Zenon
<1>6. ASSUME NEW w \in Pass2Workers, Pass2Step(w) PROVE Pass1Inv'
  <2>1. callerPc = "pass2"
    BY <1>6, Pass2Running, Zenon DEF Pass2Step, ClaimPart, CopyRow, NextBucket, PublishPart, Pass2Inv
  <2>2. UNCHANGED <<callerPc, pc, start, at, local>>
    BY <1>6, Zenon DEF Pass2Step, ClaimPart, CopyRow, NextBucket, PublishPart, outsidePass2Worker, pass1
  <2>3. \A v \in Pass1Workers : pc'[v] = "sent"
    BY <2>1, <2>2, Zenon DEF Channel, Accounts
  <2>4. cursor' \in Nat
    <3>1. cursor' = cursor \/ cursor' = cursor + 1
      BY <1>6, Zenon DEF Pass2Step, ClaimPart, CopyRow, NextBucket, PublishPart
    <3>2. cursor \in Nat
      BY Zenon DEF Pass1Inv, Pass1Typed
    <3> QED BY ONLY <3>1, <3>2
  <2>5. /\ buckets' \in [Morsels -> SUBSET [Parts -> Seq(BuildRows)]]
        /\ \A m \in Morsels : AtMostOne(buckets'[m])
    <3>1. CASE ~NextBucket(w)
      <4>1. buckets' = buckets
        BY <1>6, <3>1, Zenon DEF Pass2Step, ClaimPart, CopyRow, PublishPart
      <4> QED BY <4>1, Zenon DEF Pass1Inv, Pass1Typed
    <3>2. CASE NextBucket(w)
      <4>1. mi[w] \in Morsels /\ buckets' = [buckets EXCEPT ![mi[w]] = Released(w)]
        BY <3>2, Constants DEF NextBucket, Pass2Inv, Pass2Typed, Morsels
      <4>2. buckets[mi[w]] \subseteq [Parts -> Seq(BuildRows)] /\ AtMostOne(buckets[mi[w]])
        BY <4>1, Zenon DEF Pass1Inv, Pass1Typed
      <4>3. Released(w) \subseteq [Parts -> Seq(BuildRows)]
        <5>1. <<>> \in Seq(BuildRows)
          BY EmptySeq, Zenon
        <5>2. \A b \in [Parts -> Seq(BuildRows)] :
                [b EXCEPT ![part[w]] = <<>>] \in [Parts -> Seq(BuildRows)]
          BY ONLY <5>1, Zenon
        <5> QED BY ONLY <4>2, <5>2, Zenon DEF Released
      <4>4. AtMostOne(Released(w))
        BY <4>2, Zenon DEF Released, AtMostOne
      <4>5. \A m \in Morsels : buckets'[m] = IF m = mi[w] THEN Released(w) ELSE buckets[m]
        BY <4>1, Zenon DEF Pass1Inv, Pass1Typed
      <4> QED BY <4>1, <4>3, <4>4, <4>5, Zenon DEF Pass1Inv, Pass1Typed
    <3> QED BY <3>1, <3>2, Zenon
  <2>6. Pass1Typed'
    BY <2>2, <2>4, <2>5, Zenon DEF Pass1Inv, Pass1Typed
  <2> QED BY <1>3, <2>1, <2>2, <2>3, <2>6, Zenon
<1> QED BY <1>1, <1>2, <1>4, <1>5, <1>6, Zenon DEF Next, CallerStep
=============================================================================
