-------------------------- MODULE SectionScanBuffers --------------------------
(***************************************************************************)
(* Why no buffer of SectionScan is ever in two places, and no row group is *)
(* read by two workers, for any file, any number of processes and any      *)
(* sizes: each step keeps the types and the buffers part of the invariant, *)
(* and what a step does to row groups keeps what the workers share.        *)
(***************************************************************************)
EXTENDS SectionScanInv, WellFoundedInduction, TLAPS

-----------------------------------------------------------------------------
(***************************************************************************)
(* Loops.  A loop over 1..n is a recursive function on 0..n.               *)
(***************************************************************************)

(* What holds before a loop and is kept by each of its turns holds after   *)
(* every turn.                                                             *)
LEMMA EveryTurn ==
  ASSUME NEW n \in Nat, NEW T, 0 \in T, \A i \in 1..n : i - 1 \in T => i \in T
  PROVE  \A i \in 0..n : i \in T
<1> DEFINE S == {i \in 0..n : i \notin T}
<1> SUFFICES ASSUME S # {} PROVE FALSE
  BY Zenon
<1>1. S \in SUBSET Nat
  OBVIOUS
<1>2. PICK x \in S : \A y \in S : ~(<<y, x>> \in OpToRel(<, Nat))
  BY <1>1, NatLessThanWellFounded, WFMin, Zenon
<1>3. \A y \in S : ~(y < x)
  BY <1>1, <1>2, Zenon DEF OpToRel
<1>4. x \in 1..n /\ x - 1 \in 0..n /\ x - 1 < x
  <2>1. x \in 0..n /\ x \notin T
    BY Zenon
  <2>2. x # 0
    BY <2>1, Zenon
  <2> QED BY ONLY <2>1, <2>2, n \in Nat
<1>5. x - 1 \in T
  BY <1>3, <1>4, Zenon
<1> QED BY <1>4, <1>5, Zenon

(* The values of the loop that starts from a in S and applies F[i] in turn i. *)
IsLoop(f, n, S, a, F) ==
  f \in [0..n -> S] /\ f[0] = a /\ \A i \in 1..n : f[i] = F[i][f[i - 1]]

(* The recursive function exists. *)
LEMMA LoopExists ==
  ASSUME NEW n \in Nat, NEW S, NEW a \in S, NEW F \in [1..n -> [S -> S]]
  PROVE  \E f : IsLoop(f, n, S, a, F)
<1> DEFINE Good(m, f) == f \in [0..m -> S] /\ f[0] = a /\ \A i \in 1..m : f[i] = F[i][f[i - 1]]
           T == {m \in 0..n : \E f : Good(m, f)}
<1>1. 0 \in T
  <2>1. Good(0, [i \in 0..0 |-> a])
    OBVIOUS
  <2>2. 0 \in 0..n
    OBVIOUS
  <2> HIDE DEF Good
  <2> QED BY <2>1, <2>2, Zenon
<1>2. ASSUME NEW m \in 1..n, m - 1 \in T PROVE m \in T
  <2>1. PICK f : Good(m - 1, f)
    BY <1>2, Zenon
  <2> DEFINE g == [i \in 0..m |-> IF i = m THEN F[m][f[m - 1]] ELSE f[i]]
  <2>2. m - 1 \in 0..(m - 1) /\ \A i \in 0..m : i # m => i \in 0..(m - 1)
    OBVIOUS
  <2>3. F[m][f[m - 1]] \in S
    BY <2>1, <2>2, Zenon
  <2>4. g \in [0..m -> S]
    BY <2>1, <2>2, <2>3, Zenon
  <2>5. g[0] = a
    BY <2>1
  <2>6. ASSUME NEW i \in 1..m PROVE g[i] = F[i][g[i - 1]]
    <3>1. i \in 0..m /\ i - 1 \in 0..m /\ i - 1 # m
      OBVIOUS
    <3>2. g[i - 1] = f[i - 1]
      BY <3>1, Zenon
    <3>3. CASE i = m
      BY <3>1, <3>2, <3>3, Zenon
    <3>4. CASE i # m
      <4>1. i \in 1..(m - 1)
        BY <3>4
      <4> QED BY <2>1, <3>1, <3>2, <3>4, <4>1, Zenon
    <3> QED BY <3>3, <3>4, Zenon
  <2> HIDE DEF g
  <2>7. m \in 0..n
    OBVIOUS
  <2>8. Good(m, g)
    BY <2>4, <2>5, <2>6, Zenon
  <2> HIDE DEF Good
  <2> QED BY <2>7, <2>8, Zenon
<1>3. n \in T
  <2> HIDE DEF T
  <2>1. \A m \in 0..n : m \in T
    BY <1>1, <1>2, EveryTurn, Zenon
  <2> QED BY <2>1
<1> QED BY <1>3, Zenon DEF IsLoop

-----------------------------------------------------------------------------
(***************************************************************************)
(* The file.                                                               *)
(***************************************************************************)

(* The shape of the file and the ranges of the constants. *)
LEMMA Constants ==
  /\ Cols \in Nat /\ 1 \in 1..Cols /\ NumRGs \in Nat
  /\ \A g \in 1..NumRGs : NumBlocks(g) \in Nat
  /\ \A c \in 1..Cols : \A g \in 1..NumRGs : \A k \in 1..NumBlocks(g) :
       Sizes[c][g][k] \in Nat /\ Sizes[c][g][k] > 0
  /\ \A b \in Bufs : b # NoBuf
<1>1. Cols \in Nat /\ 1 \in 1..Cols /\ \A b \in Bufs : b # NoBuf
  BY ScanAssumption DEF NoBuf
<1>2. \A c \in 1..Cols : /\ Sizes[c] \in Seq(Seq(Nat \ {0})) /\ Len(Sizes[c]) = NumRGs
                         /\ \A g \in 1..NumRGs : Len(Sizes[c][g]) = NumBlocks(g)
  BY ScanAssumption, Zenon DEF NumRGs, NumBlocks
<1>3. NumRGs \in Nat
  BY <1>1, <1>2
<1>4. \A c \in 1..Cols : \A g \in 1..NumRGs : Sizes[c][g] \in Seq(Nat \ {0})
  BY <1>2
<1>5. \A g \in 1..NumRGs : NumBlocks(g) \in Nat
  BY <1>1, <1>2, <1>4
<1>6. ASSUME NEW c \in 1..Cols, NEW g \in 1..NumRGs, NEW k \in 1..NumBlocks(g)
      PROVE  Sizes[c][g][k] \in Nat \ {0}
  BY <1>2, <1>4
<1> QED BY <1>1, <1>3, <1>5, <1>6

(* Blocks follow one another, and no two begin at the same place. *)
LEMMA Offsets ==
  ASSUME NEW c \in 1..Cols, NEW g \in 1..NumRGs
  PROVE  /\ Offset(c, g, 1) = 0
         /\ \A k \in 1..(NumBlocks(g) + 1) : Offset(c, g, k) \in Nat
         /\ \A k \in 1..NumBlocks(g) : Offset(c, g, k + 1) = Offset(c, g, k) + Sizes[c][g][k]
         /\ \A j, k \in 1..(NumBlocks(g) + 1) : Offset(c, g, j) = Offset(c, g, k) => j = k
<1> DEFINE n == NumBlocks(g)
           s == Sizes[c][g]
           Turn(f) == [j \in 0..n |-> IF j = 0 THEN 0 ELSE f[j - 1] + s[j]]
           upTo == CHOOSE f : f = Turn(f)
<1>1. n \in Nat /\ \A j \in 1..n : s[j] \in Nat /\ s[j] > 0
  BY Constants, Zenon
<1>2. \A k : Offset(c, g, k) = upTo[k - 1]
  BY Zenon DEF Offset
<1> HIDE DEF n, s
<1>3. \E f \in [0..n -> Nat] : f = Turn(f)
  <2> DEFINE F == [i \in 1..n |-> [x \in Nat |-> x + s[i]]]
  <2>1. F \in [1..n -> [Nat -> Nat]]
    BY <1>1
  <2>2. PICK f : IsLoop(f, n, Nat, 0, F)
    <3> HIDE DEF F
    <3>1. 0 \in Nat
      BY Zenon
    <3> QED BY <1>1, <2>1, <3>1, LoopExists, Zenon
  <2>3. ASSUME NEW i \in 1..n PROVE f[i] = f[i - 1] + s[i]
    <3>1. f[i - 1] \in Nat
      BY <1>1, <2>2 DEF IsLoop
    <3>2. F[i] = [x \in Nat |-> x + s[i]]
      BY Zenon
    <3> QED BY <2>2, <3>1, <3>2, Zenon DEF IsLoop
  <2>4. f \in [0..n -> Nat] /\ f[0] = 0
    BY <2>2, Zenon DEF IsLoop
  <2>5. f = Turn(f)
    BY <2>3, <2>4
  <2> QED BY <2>4, <2>5, Zenon
<1>4. upTo = Turn(upTo)
  BY <1>3, Zenon
<1> HIDE DEF upTo
<1>5. upTo[0] = 0 /\ \A j \in 1..n : upTo[j] = upTo[j - 1] + s[j]
  BY <1>1, <1>4
<1>6. \A j \in 0..n : upTo[j] \in Nat
  <2> DEFINE T == {j \in 0..n : upTo[j] \in Nat}
  <2>1. 0 \in T
    BY <1>1, <1>5
  <2>2. \A j \in 1..n : j - 1 \in T => j \in T
    BY <1>1, <1>5
  <2> HIDE DEF T
  <2>3. \A j \in 0..n : j \in T
    BY <1>1, <2>1, <2>2, EveryTurn, Zenon
  <2> QED BY <2>3, Zenon DEF T
<1>7. ASSUME NEW i \in 0..n PROVE \A j \in 0..n : i < j => upTo[i] < upTo[j]
  <2> DEFINE T == {j \in 0..n : i < j => upTo[i] < upTo[j]}
  <2>1. 0 \in T
    BY <1>1
  <2>2. ASSUME NEW j \in 1..n, j - 1 \in T PROVE j \in T
    <3>1. upTo[j] = upTo[j - 1] + s[j] /\ s[j] > 0 /\ s[j] \in Nat
      BY <1>1, <1>5, Zenon
    <3>2. j - 1 \in 0..n /\ j \in 0..n
      BY <1>1
    <3>3. upTo[j - 1] \in Nat /\ upTo[j] \in Nat /\ upTo[i] \in Nat
      BY <1>6, <3>2, Zenon
    <3>4. i < j => i = j - 1 \/ i < j - 1
      BY <1>1
    <3> QED BY <2>2, <3>1, <3>2, <3>3, <3>4
  <2> HIDE DEF T
  <2>3. \A j \in 0..n : j \in T
    BY <1>1, <2>1, <2>2, EveryTurn, Zenon
  <2> QED BY <2>3, Zenon DEF T
<1>8. \A i, j \in 0..n : upTo[i] = upTo[j] => i = j
  <2> SUFFICES ASSUME NEW i \in 0..n, NEW j \in 0..n, upTo[i] = upTo[j] PROVE i = j
    BY Zenon
  <2>1. ~(i < j) /\ ~(j < i)
    BY <1>6, <1>7
  <2> QED BY <1>1, <2>1
<1>9. \A k \in 1..(n + 1) : k - 1 \in 0..n
  BY <1>1
<1>10. \A k \in 1..n : k + 1 - 1 = k
  BY <1>1
<1>11. Offset(c, g, 1) = 0
  BY <1>2, <1>5
<1>12. \A j, k \in 1..(n + 1) : Offset(c, g, j) = Offset(c, g, k) => j = k
  <2> SUFFICES ASSUME NEW j \in 1..(n + 1), NEW k \in 1..(n + 1), Offset(c, g, j) = Offset(c, g, k)
               PROVE  j = k
    BY Zenon
  <2>1. j - 1 = k - 1
    BY <1>2, <1>8, <1>9, Zenon
  <2> QED BY <1>1, <2>1
<1>13. \A k \in 1..(n + 1) : Offset(c, g, k) \in Nat
  BY <1>2, <1>6, <1>9, Zenon
<1>14. \A k \in 1..n : Offset(c, g, k + 1) = Offset(c, g, k) + s[k]
  BY <1>2, <1>5, <1>10
<1> QED BY <1>11, <1>12, <1>13, <1>14, Zenon DEF n, s

-----------------------------------------------------------------------------
(***************************************************************************)
(* Buffers that wait.                                                      *)
(***************************************************************************)

(* putSharedBuf files the buffer it is given, or drops it. *)
LEMMA Filed ==
  ASSUME NEW pl \in [Bufs -> Nat], NEW b \in Bufs
  PROVE  /\ putSharedBuf(pl, b) \in [Bufs -> Nat]
         /\ \A x \in Bufs : x # b => putSharedBuf(pl, b)[x] = pl[x]
         /\ putSharedBuf(pl, b)[b] \in {pl[b], pl[b] + 1}
<1>1. CASE poolClassOf(cap[b]) = 0
  BY <1>1, Zenon DEF putSharedBuf
<1>2. CASE poolClassOf(cap[b]) # 0
  <2>1. putSharedBuf(pl, b) = [pl EXCEPT ![b] = pl[b] + 1]
    BY <1>2, Zenon DEF putSharedBuf
  <2>2. pl[b] + 1 \in Nat
    OBVIOUS
  <2> QED BY <2>1, <2>2, Zenon
<1> QED BY <1>1, <1>2, Zenon

(* What waits, as a set of buffers. *)
LEMMA WaitsWithin ==
  ASSUME NEW w, NEW S, \A i \in 1..Len(w.free) : w.free[i] \in S,
         \A x \in Bufs : w.pool[x] = 1 => x \in S
  PROVE  Waits(w) \subseteq S
BY Zenon DEF Waits

(* Buffers wait alike where the free list and the pool are the same. *)
LEMMA SameWaiting ==
  ASSUME NEW u, NEW w, u.free = w.free, u.pool = w.pool
  PROVE  (Tidy(u) <=> Tidy(w)) /\ Waits(u) = Waits(w)
BY Zenon DEF Tidy, Waits

(* What stands for no buffer is never filed as one. *)
LEMMA NeverNoBuf ==
  ASSUME NEW w, Tidy(w)
  PROVE  NoBuf \notin Waits(w)
<1>1. \A i \in 1..Len(w.free) : w.free[i] \in Bufs
  BY DEF Tidy
<1> QED BY <1>1, Constants, Zenon DEF Waits

(* releaseBuf puts a buffer that waits nowhere in one place, or drops it. *)
LEMMA Released ==
  ASSUME NEW w, Tidy(w), NEW b \in Bufs \union {NoBuf}, b \notin Waits(w)
  PROVE  Tidy(releaseBuf(w, b)) /\ Waits(releaseBuf(w, b)) \subseteq Waits(w) \union {b}
<1>1. CASE b = NoBuf
  BY <1>1, Zenon DEF releaseBuf
<1>2. CASE b # NoBuf /\ Len(w.free) >= MaxPooled
  <2> DEFINE pl == putSharedBuf(w.pool, b)
             r == Waiting(w.free, pl)
  <2>1. releaseBuf(w, b) = r
    BY <1>2, Zenon DEF releaseBuf
  <2>2. /\ b \in Bufs /\ pl \in [Bufs -> Nat] /\ \A x \in Bufs : x # b => pl[x] = w.pool[x]
        /\ pl[b] \in {w.pool[b], w.pool[b] + 1}
    BY <1>2, Filed, Zenon DEF Tidy
  <2>3. w.pool[b] = 0 /\ \A i \in 1..Len(w.free) : w.free[i] # b
    BY <2>2 DEF Tidy, Waits
  <2>4. r.free = w.free /\ r.pool = pl
    BY Zenon DEF Waiting
  <2> HIDE DEF pl, r
  <2>5. Tidy(r)
    BY <2>2, <2>3, <2>4, SMTT(60) DEF Tidy
  <2>6. Waits(r) \subseteq Waits(w) \union {b}
    BY <2>2, <2>4 DEF Waits
  <2> QED BY <2>1, <2>5, <2>6, Zenon
<1>3. CASE b # NoBuf /\ ~(Len(w.free) >= MaxPooled)
  <2> DEFINE f == Append(w.free, b)
             r == Waiting(f, w.pool)
             n == Len(w.free)
  <2>1. releaseBuf(w, b) = r
    BY <1>3, Zenon DEF releaseBuf
  <2>2. b \in Bufs /\ w.pool[b] = 0 /\ \A i \in 1..n : w.free[i] # b
    BY <1>3 DEF Tidy, Waits
  <2>3. /\ f \in Seq(Bufs) /\ Len(f) = n + 1 /\ n \in Nat /\ f[n + 1] = b
        /\ \A i \in 1..n : f[i] = w.free[i]
    BY <2>2 DEF Tidy
  <2>4. r.free = f /\ r.pool = w.pool
    BY Zenon DEF Waiting
  <2>5. n + 1 <= MaxPooled
    BY <1>3, <2>3, ScanAssumption
  <2> HIDE DEF f, r
  <2>6. \A i \in 1..(n + 1) : i \in 1..n \/ i = n + 1
    BY <2>3
  <2>7. Tidy(r)
    <3>1. \A i, j \in 1..Len(f) : f[i] = f[j] => i = j
      <4> SUFFICES ASSUME NEW i \in 1..(n + 1), NEW j \in 1..(n + 1), f[i] = f[j] PROVE i = j
        BY <2>3, Zenon
      <4>1. i \in 1..n /\ j \in 1..n => i = j
        BY <2>3, Zenon DEF Tidy
      <4>2. i = n + 1 => j = n + 1
        BY <2>2, <2>3, <2>6, Zenon
      <4>3. j = n + 1 => i = n + 1
        BY <2>2, <2>3, <2>6, Zenon
      <4> QED BY <2>6, <4>1, <4>2, <4>3, Zenon
    <3>2. \A i \in 1..Len(f) : w.pool[f[i]] = 0
      BY <2>2, <2>3, <2>6, ZenonT(40) DEF Tidy
    <3> QED BY <2>3, <2>4, <2>5, <3>1, <3>2, Zenon DEF Tidy
  <2>8. Waits(r) \subseteq Waits(w) \union {b}
    <3>1. \A i \in 1..Len(r.free) : r.free[i] \in Waits(w) \union {b}
      BY <2>3, <2>4, <2>6, Zenon DEF Waits
    <3>2. \A x \in Bufs : r.pool[x] = 1 => x \in Waits(w) \union {b}
      BY <2>4, Zenon DEF Waits
    <3> QED BY <3>1, <3>2, WaitsWithin, Zenon
  <2> QED BY <2>1, <2>7, <2>8, Zenon
<1> QED BY <1>1, <1>2, <1>3, Zenon

(* acquireBuf takes what it hands out from where it waited. *)
LEMMA Acquired ==
  ASSUME NEW w, Tidy(w), NEW n \in Nat
  PROVE  LET a == acquireBuf(w, n)
         IN /\ Tidy(a.w) /\ Waits(a.w) \subseteq Waits(w)
            /\ a.buf \in Bufs \union {NoBuf}
            /\ a.buf # NoBuf => a.buf \in Waits(w) /\ a.buf \notin Waits(a.w) /\ cap[a.buf] >= n
<1> DEFINE a == acquireBuf(w, n)
           last == Len(w.free)
           b == w.free[last]
           rest == SubSeq(w.free, 1, last - 1)
<1>1. w.free \in Seq(Bufs) /\ last \in Nat
  BY DEF Tidy
<1>2. CASE last = 0
  <2>1. a = [buf |-> NoBuf, w |-> w]
    BY <1>2, Zenon DEF acquireBuf
  <2>2. a.buf = NoBuf /\ a.w = w
    BY <2>1
  <2> QED BY <2>2, Zenon
<1>3. CASE last # 0
  <2>1. /\ b \in Bufs /\ rest \in Seq(Bufs) /\ Len(rest) = last - 1
        /\ last \in 1..last /\ \A i \in 1..(last - 1) : rest[i] = w.free[i] /\ i \in 1..last /\ i # last
    BY <1>1, <1>3
  <2>2. Len(rest) <= MaxPooled
    BY <1>1, <2>1, ScanAssumption DEF Tidy
  <2>3. b # NoBuf
    BY <2>1, Constants, Zenon
  <2> DEFINE pl == putSharedBuf(w.pool, b)
  <2>4. a = IF cap[b] >= n THEN [buf |-> b, w |-> Waiting(rest, w.pool)]
            ELSE [buf |-> NoBuf, w |-> Waiting(rest, pl)]
    BY <1>3, Zenon DEF acquireBuf
  <2>5. /\ pl \in [Bufs -> Nat] /\ \A x \in Bufs : x # b => pl[x] = w.pool[x]
        /\ pl[b] \in {w.pool[b], w.pool[b] + 1}
    BY <2>1, Filed, ZenonT(40) DEF Tidy
  <2>6. w.pool[b] = 0 /\ \A i \in 1..(last - 1) : rest[i] # b
    BY <2>1, Zenon DEF Tidy
  <2>7. b \in Waits(w)
    BY <2>1, Zenon DEF Waits
  <2> HIDE DEF rest, pl, a, b
  <2>8. /\ \A i \in 1..(last - 1) : rest[i] \in Bufs /\ w.pool[rest[i]] = 0
        /\ \A i, j \in 1..(last - 1) : rest[i] = rest[j] => i = j
        /\ \A x \in Bufs : w.pool[x] <= 1
    <3>1. \A i \in 1..last : w.free[i] \in Bufs
      BY <1>1
    <3> QED BY <2>1, <3>1, Zenon DEF Tidy
  <2>9. /\ \A i \in 1..Len(rest) : rest[i] \in Waits(w)
        /\ \A x \in Bufs : w.pool[x] = 1 => x \in Waits(w)
    BY <2>1, Zenon DEF Waits
  <2>10. CASE cap[b] >= n
    <3>1. a.buf = b /\ a.w.free = rest /\ a.w.pool = w.pool
      BY <2>4, <2>10, Zenon DEF Waiting
    <3>2. Tidy(a.w)
      BY <2>1, <2>2, <2>8, <3>1, Zenon DEF Tidy
    <3>3. Waits(a.w) \subseteq Waits(w)
      BY <2>9, <3>1, WaitsWithin, Zenon
    <3>4. b \notin Waits(a.w)
      BY <2>1, <2>6, <3>1 DEF Waits
    <3> QED BY <2>1, <2>7, <2>10, <3>1, <3>2, <3>3, <3>4, Zenon DEF a
  <2>11. CASE ~(cap[b] >= n)
    <3>1. a.buf = NoBuf /\ a.w.free = rest /\ a.w.pool = pl
      BY <2>4, <2>11, Zenon DEF Waiting
    <3>2. \A x \in Bufs : pl[x] <= 1
      BY <2>5, <2>6 DEF Tidy
    <3>3. \A i \in 1..(last - 1) : pl[rest[i]] = 0
      BY <2>1, <2>5, <2>6, <2>8, ZenonT(40)
    <3>4. Tidy(a.w)
      BY <2>1, <2>2, <2>5, <2>8, <3>1, <3>2, <3>3, Zenon DEF Tidy
    <3>5. \A x \in Bufs : pl[x] = 1 => x \in Waits(w)
      BY <2>5, <2>7, <2>9, Zenon
    <3>6. Waits(a.w) \subseteq Waits(w)
      BY <2>9, <3>1, <3>5, WaitsWithin, Zenon
    <3> QED BY <3>1, <3>4, <3>6, Zenon DEF a
  <2> QED BY <2>10, <2>11, Zenon
<1> QED BY <1>2, <1>3, Zenon

(* closeRowGroup gives back every window, each to one place. *)
LEMMA GroupClosed ==
  ASSUME NEW p \in Procs, NEW r \in [1..Cols -> ColumnReader], Tidy(Waiting(free[p], pool)),
         \A c \in 1..Cols : r[c].win \notin Waits(Waiting(free[p], pool)),
         \A c, d \in 1..Cols : r[c].win = r[d].win /\ r[c].win # NoBuf => c = d
  PROVE  /\ Tidy(closeRowGroup(p, r))
         /\ Waits(closeRowGroup(p, r)) \subseteq
              Waits(Waiting(free[p], pool)) \union {r[c].win : c \in 1..Cols}
<1> DEFINE w0 == Waiting(free[p], pool)
           S == [free : Seq(Bufs), pool : [Bufs -> Nat]]
           Turn(f) == [c \in 0..Cols |-> IF c = 0 THEN w0 ELSE releaseBuf(f[c - 1], r[c].win)]
           upTo == CHOOSE f : f = Turn(f)
           wins(c) == {r[d].win : d \in 1..c}
<1>1. closeRowGroup(p, r) = upTo[Cols]
  BY Zenon DEF closeRowGroup
<1>2. Cols \in Nat /\ \A c \in 1..Cols : r[c].win \in Bufs \union {NoBuf}
  BY Constants, Zenon DEF ColumnReader
<1>3. w0 \in S
  BY Zenon DEF Tidy, Waiting
<1>4. \A w \in S : \A b \in Bufs \union {NoBuf} : releaseBuf(w, b) \in S
  <2> SUFFICES ASSUME NEW w \in S, NEW b \in Bufs \union {NoBuf} PROVE releaseBuf(w, b) \in S
    BY Zenon
  <2>1. w.free \in Seq(Bufs) /\ w.pool \in [Bufs -> Nat]
    BY Zenon
  <2>2. b \in Bufs => putSharedBuf(w.pool, b) \in [Bufs -> Nat] /\ Append(w.free, b) \in Seq(Bufs)
    BY <2>1, Filed
  <2> QED BY <2>1, <2>2, Zenon DEF releaseBuf, Waiting
<1> HIDE DEF S, w0
<1>5. \E f : f = Turn(f)
  <2> DEFINE F == [c \in 1..Cols |-> [w \in S |-> releaseBuf(w, r[c].win)]]
  <2>1. F \in [1..Cols -> [S -> S]]
    BY <1>2, <1>4, Zenon
  <2>2. PICK f : IsLoop(f, Cols, S, w0, F)
    <3> HIDE DEF F
    <3> QED BY <1>2, <1>3, <2>1, LoopExists, Zenon
  <2>3. ASSUME NEW c \in 1..Cols PROVE f[c] = releaseBuf(f[c - 1], r[c].win)
    <3>1. f[c - 1] \in S
      BY <1>2, <2>2 DEF IsLoop
    <3>2. F[c] = [w \in S |-> releaseBuf(w, r[c].win)]
      BY Zenon
    <3> QED BY <2>2, <3>1, <3>2, Zenon DEF IsLoop
  <2>4. f \in [0..Cols -> S] /\ f[0] = w0
    BY <2>2, Zenon DEF IsLoop
  <2>5. \A c \in 0..Cols : c # 0 => c \in 1..Cols
    BY <1>2
  <2>6. f = Turn(f)
    BY <2>3, <2>4, <2>5, Zenon
  <2> QED BY <2>6, Zenon
<1>6. upTo = Turn(upTo)
  BY <1>5, Zenon
<1> HIDE DEF upTo
<1>7. upTo[0] = w0 /\ \A c \in 1..Cols : upTo[c] = releaseBuf(upTo[c - 1], r[c].win)
  BY <1>2, <1>6
<1> DEFINE T == {c \in 0..Cols : Tidy(upTo[c]) /\ Waits(upTo[c]) \subseteq Waits(w0) \union wins(c)}
<1>8. 0 \in T
  BY <1>2, <1>7 DEF w0
<1>9. ASSUME NEW c \in 1..Cols, c - 1 \in T PROVE c \in T
  <2>1. c - 1 \in 0..Cols /\ c \in 0..Cols /\ 1..(c - 1) \subseteq 1..c /\ c \in 1..c
        /\ 1..(c - 1) \subseteq 1..Cols /\ c \notin 1..(c - 1)
    BY <1>2
  <2>2. Tidy(upTo[c - 1]) /\ Waits(upTo[c - 1]) \subseteq Waits(w0) \union wins(c - 1)
    BY <1>9, Zenon
  <2> DEFINE b == r[c].win
  <2>3. b # NoBuf => b \notin wins(c - 1)
    BY <2>1, Zenon
  <2>4. b \notin Waits(w0)
    BY Zenon DEF w0
  <2>5. b # NoBuf => b \notin Waits(upTo[c - 1])
    BY <2>2, <2>3, <2>4, ZenonT(40)
  <2>6. NoBuf \notin Waits(upTo[c - 1])
    BY <2>2, NeverNoBuf, Zenon
  <2>7. b \in Bufs \union {NoBuf} /\ b \notin Waits(upTo[c - 1])
    BY <1>2, <2>5, <2>6, Zenon
  <2>8. Tidy(upTo[c]) /\ Waits(upTo[c]) \subseteq Waits(upTo[c - 1]) \union {b}
    <3>1. upTo[c] = releaseBuf(upTo[c - 1], b)
      BY <1>7, Zenon
    <3> HIDE DEF b
    <3>2. Tidy(releaseBuf(upTo[c - 1], b))
          /\ Waits(releaseBuf(upTo[c - 1], b)) \subseteq Waits(upTo[c - 1]) \union {b}
      BY <2>2, <2>7, Released, ZenonT(40)
    <3> QED BY <3>1, <3>2, Zenon
  <2>9. wins(c - 1) \union {b} \subseteq wins(c)
    BY <2>1, Zenon
  <2> HIDE DEF wins, b
  <2> QED BY <2>1, <2>2, <2>8, <2>9, Zenon
<1>10. Cols \in T
  <2> HIDE DEF T
  <2>1. \A c \in 0..Cols : c \in T
    BY <1>2, <1>8, <1>9, EveryTurn, Zenon
  <2> QED BY <1>2, <2>1
<1> QED BY <1>1, <1>10, Zenon DEF w0

(* Reader.Close puts what is in the free list in the pool, or drops it. *)
LEMMA Drained ==
  ASSUME NEW w, Tidy(w)
  PROVE  /\ drained(w) \in [Bufs -> Nat]
         /\ \A b \in Bufs : drained(w)[b] <= 1 /\ (drained(w)[b] = 1 => b \in Waits(w))
<1> DEFINE n == Len(w.free)
           S == [Bufs -> Nat]
           Turn(f) == [i \in 0..n |-> IF i = 0 THEN w.pool ELSE putSharedBuf(f[i - 1], w.free[i])]
           upTo == CHOOSE f : f = Turn(f)
<1>1. drained(w) = upTo[n]
  BY Zenon DEF drained
<1>2. n \in Nat /\ w.pool \in S /\ \A i \in 1..n : w.free[i] \in Bufs
  BY DEF Tidy
<1>3. \A pl \in S : \A b \in Bufs : putSharedBuf(pl, b) \in S
  BY Filed, Zenon
<1>4. \E f : f = Turn(f)
  <2> DEFINE F == [i \in 1..n |-> [pl \in S |-> putSharedBuf(pl, w.free[i])]]
  <2> HIDE DEF n, S
  <2>1. F \in [1..n -> [S -> S]]
    BY <1>2, <1>3, Zenon
  <2>2. PICK f : IsLoop(f, n, S, w.pool, F)
    <3> HIDE DEF F
    <3> QED BY <1>2, <2>1, LoopExists, Zenon
  <2>3. ASSUME NEW i \in 1..n PROVE f[i] = putSharedBuf(f[i - 1], w.free[i])
    <3>1. f[i - 1] \in S
      BY <1>2, <2>2 DEF IsLoop
    <3>2. F[i] = [pl \in S |-> putSharedBuf(pl, w.free[i])]
      BY Zenon
    <3> QED BY <2>2, <3>1, <3>2, Zenon DEF IsLoop
  <2>4. f \in [0..n -> S] /\ f[0] = w.pool
    BY <2>2, Zenon DEF IsLoop
  <2>5. \A i \in 0..n : i # 0 => i \in 1..n
    BY <1>2
  <2>6. f = Turn(f)
    BY <2>3, <2>4, <2>5, Zenon
  <2> QED BY <2>6, Zenon
<1>5. upTo = Turn(upTo)
  BY <1>4, Zenon
<1> HIDE DEF upTo
<1>6. upTo[0] = w.pool /\ \A i \in 1..n : upTo[i] = putSharedBuf(upTo[i - 1], w.free[i])
  BY <1>2, <1>5, SMTT(60)
<1> DEFINE Good(i) == /\ upTo[i] \in S
                      /\ \A b \in Bufs : upTo[i][b] <= 1 /\ (upTo[i][b] = 1 => b \in Waits(w))
                      /\ \A j \in 1..n : i < j => upTo[i][w.free[j]] = 0
           T == {i \in 0..n : Good(i)}
<1>7. 0 \in T
  <2>1. Good(0)
    BY <1>2, <1>6, Zenon DEF Tidy, Waits
  <2> QED BY <1>2, <2>1
<1>8. ASSUME NEW i \in 1..n, i - 1 \in T PROVE i \in T
  <2> DEFINE b == w.free[i]
             pl == upTo[i - 1]
             new == upTo[i]
  <2>1. Good(i - 1) /\ i - 1 < i /\ b \in Bufs /\ b \in Waits(w)
    BY <1>2, <1>8 DEF Waits
  <2>2. /\ new \in S /\ \A x \in Bufs : x # b => new[x] = pl[x]
        /\ new[b] \in {pl[b], pl[b] + 1}
    <3>1. new = putSharedBuf(pl, b) /\ pl \in [Bufs -> Nat]
      BY <1>6, <2>1, Zenon
    <3> HIDE DEF pl, b, new
    <3> QED BY <2>1, <3>1, Filed, Zenon
  <2>3. pl[b] = 0
    BY <2>1, Zenon
  <2>4. \A x \in Bufs : new[x] <= 1 /\ (new[x] = 1 => x \in Waits(w))
    BY <2>1, <2>2, <2>3
  <2>5. ASSUME NEW j \in 1..n, i < j PROVE new[w.free[j]] = 0
    <3>1. w.free[j] # b
      BY <1>2, <2>5 DEF Tidy
    <3>2. w.free[j] \in Bufs /\ pl[w.free[j]] = 0
      BY <1>2, <2>1, <2>5
    <3> QED BY <2>2, <3>1, <3>2, Zenon
  <2> QED BY <1>2, <2>2, <2>4, <2>5
<1>9. n \in T
  <2> HIDE DEF T
  <2>1. \A i \in 0..n : i \in T
    BY <1>2, <1>7, <1>8, EveryTurn, Zenon
  <2> QED BY <1>2, <2>1
<1> QED BY <1>1, <1>9, Zenon

-----------------------------------------------------------------------------
(***************************************************************************)
(* A step of a process leaves the buffers of the others alone.             *)
(***************************************************************************)

(* Each of the variables that hold one value for each process still does,  *)
(* and what the others have is left alone: when NextBlock fails, when it   *)
(* asks for a window, and in every step.                                   *)
LEMMA FailsFrame ==
  ASSUME OneEach, NEW p \in Procs, NEW cr, NEW w, Fails(p, cr, w)
  PROVE  OneEach' /\ Others(p)
<1>1. CASE p \in fsck /\ pass[p] = "verify"
  BY <1>1, ZenonT(40) DEF OneEach, Others, Fails, LeaveColumn, NextColumn, SetWaiting, GoTo, CountError
<1>2. CASE ~(p \in fsck /\ pass[p] = "verify")
  BY <1>2, ZenonT(40) DEF OneEach, Others, Fails, SetWaiting, SetCr, GoTo, CountError
<1> QED BY <1>1, <1>2, Zenon

(* So it is when a window is asked for. *)
LEMMA WindowFrame ==
  ASSUME OneEach, NEW p \in Procs, NEW cr, NEW n, window(p, cr, n)
  PROVE  OneEach' /\ Others(p)
<1>1. CASE cr.pos + n > End(col[p], rg[p])
  BY <1>1, FailsFrame, Zenon DEF window
<1>2. CASE ~(cr.pos + n > End(col[p], rg[p])) /\ Buffered(cr, n)
  BY <1>2, Zenon DEF OneEach, Others, window, SetCr, GoTo
<1>3. CASE ~(cr.pos + n > End(col[p], rg[p])) /\ ~Buffered(cr, n)
  BY <1>3, ZenonT(40) DEF OneEach, Others, window, SetCr, GoTo, SetWaiting
<1> QED BY <1>1, <1>2, <1>3, Zenon

(* And in every step, which leaves the program and the file alone too. *)
LEMMA Frame ==
  ASSUME Typed, NEW p \in Procs, Step(p)
  PROVE  OneEach' /\ Others(p) /\ fsck' = fsck /\ damage' = damage
<1>1. OneEach
  BY Zenon DEF Typed
<1>2. CASE Claim(p)
  BY <1>1, <1>2, Zenon DEF OneEach, Others, Claim, GoTo
<1>3. CASE GetShared(p)
  BY <1>1, <1>3, Zenon DEF OneEach, Others, GetShared, GoTo
<1>4. CASE ReadAt(p)
  BY <1>1, <1>4, Zenon DEF OneEach, Others, ReadAt, GoTo, SetCr
<1>5. CASE Cancelled(p)
  BY <1>1, <1>5, Zenon DEF OneEach, Others, Cancelled, GoTo, CountError
<1>6. CASE CloseReader(p)
  BY <1>1, <1>6, ZenonT(40) DEF OneEach, Others, CloseReader, GoTo
<1>7. CASE EndOfSection(p) /\ p \in fsck
  BY <1>1, <1>7 DEF OneEach, Others, EndOfSection, LeaveColumn, NextColumn, SetWaiting, GoTo, CountError
<1>8. CASE EndOfSection(p) /\ p \notin fsck
  BY <1>1, <1>8, Zenon DEF OneEach, Others, EndOfSection, SetWaiting, GoTo
<1>9. CASE NextBlock(p)
  BY <1>1, <1>9, WindowFrame, Zenon DEF NextBlock
<1>10. CASE ReadFails(p)
  BY <1>1, <1>10, FailsFrame, Zenon DEF ReadFails
<1>11. CASE BoolHeader(p)
  BY <1>1, <1>11, WindowFrame, FailsFrame, Zenon DEF BoolHeader
<1>12. CASE TakeBlock(p)
  <2>1. fsck' = fsck /\ damage' = damage
    BY <1>12, Zenon DEF TakeBlock
  <2>2. CASE Fails(p, [Cr(p) EXCEPT !.pos = @ + need[p]], Around(p))
    BY <1>1, <2>1, <2>2, FailsFrame, Zenon
  <2>3. CASE ~Fails(p, [Cr(p) EXCEPT !.pos = @ + need[p]], Around(p))
    BY <1>1, <1>12, <2>3 DEF OneEach, Others, TakeBlock, SetCr, GoTo, Around
  <2> QED BY <2>2, <2>3, Zenon
<1> QED BY <1>2, <1>3, <1>4, <1>5, <1>6, <1>7, <1>8, <1>9, <1>10, <1>11, <1>12, Zenon DEF Step

(* The types are kept when those of the process that moves are. *)
LEMMA TypedStep ==
  ASSUME Typed, NEW p \in Procs, Step(p), Globals', Own(p)'
  PROVE  Typed'
<1>1. OneEach' /\ Others(p) /\ fsck' = fsck
  BY Frame, Zenon
<1>2. ASSUME NEW q \in Procs, q # p PROVE Own(q)'
  <2>1. Own(q)
    BY Zenon DEF Typed
  <2> QED BY <1>1, <1>2, <2>1, Zenon DEF Own, Others
<1> QED BY <1>1, <1>2, Zenon DEF Typed

(* The types of what one process has. *)
LEMMA TypedOf ==
  ASSUME Typed, NEW p \in Procs
  PROVE  /\ free[p] \in Seq(Bufs) /\ DOMAIN free[p] = 1..Len(free[p])
         /\ \A i \in 1..Len(free[p]) : free[p][i] \in Bufs
         /\ hand[p] \in Bufs \union {NoBuf} /\ need[p] \in Nat /\ pass[p] \in {"check", "verify"}
         /\ rg[p] \in 1..(NumRGs + 1) /\ col[p] \in 1..Cols
         /\ crs[p] \in [1..Cols -> ColumnReader] /\ Cr(p) \in ColumnReader
         /\ \A c \in 1..Cols : crs[p][c].win \in Bufs \union {NoBuf}
         /\ \A b \in Bufs : cap[b] \in Nat /\ content[b] \in FileRange
<1>1. /\ free[p] \in Seq(Bufs) /\ hand[p] \in Bufs \union {NoBuf} /\ need[p] \in Nat
      /\ pass[p] \in {"check", "verify"} /\ rg[p] \in 1..(NumRGs + 1) /\ col[p] \in 1..Cols
      /\ crs[p] \in [1..Cols -> ColumnReader]
      /\ \A b \in Bufs : cap[b] \in Nat /\ content[b] \in FileRange
  BY Zenon DEF Typed, Own, Globals
<1>2. DOMAIN free[p] = 1..Len(free[p]) /\ \A i \in 1..Len(free[p]) : free[p][i] \in Bufs
  BY <1>1
<1>3. Cr(p) \in ColumnReader
  BY <1>1, Zenon DEF Cr
<1>4. \A c \in 1..Cols : crs[p][c].win \in Bufs \union {NoBuf}
  BY <1>1, Zenon DEF ColumnReader
<1> QED BY <1>1, <1>2, <1>3, <1>4, Zenon

(* What waits around a process is its free list and the shared pool. *)
LEMMA AroundFields ==
  \A p : /\ Around(p).free = free[p] /\ Around(p).pool = pool
         /\ Around(p)'.free = free'[p] /\ Around(p)'.pool = pool'
BY Zenon DEF Around, Waiting

(* The places a buffer can be. *)
LEMMA Places ==
  ASSUME Typed, Apart, NEW q \in Procs
  PROVE  /\ \A b \in Bufs : pool[b] \in {0, 1}
         /\ \A b \in Bufs : b \in Waits(Around(q)) => b \in OwnedBy(q) \/ pool[b] = 1
         /\ \A b \in Bufs : pool[b] = 1 => b \notin OwnedBy(q)
         /\ \A b \in OwnedBy(q) : b = NoBuf \/ (b \in Bufs /\ Held(b))
         /\ NoBuf \notin Waits(Around(q))
<1>1. /\ Neat(q) /\ Around(q).free = free[q] /\ Around(q).pool = pool
      /\ free[q] \in Seq(Bufs) /\ hand[q] \in Bufs \union {NoBuf}
      /\ \A c \in 1..Cols : crs[q][c].win \in Bufs \union {NoBuf}
  BY TypedOf, AroundFields, Zenon DEF Apart
<1>2. \A i \in 1..Len(free[q]) : free[q][i] \in Bufs /\ pool[free[q][i]] = 0
  <2>1. \A i \in 1..Len(Around(q).free) : Around(q).pool[Around(q).free[i]] = 0
    BY <1>1, Zenon DEF Neat, Tidy
  <2>2. \A i \in 1..Len(free[q]) : free[q][i] \in Bufs
    BY TypedOf, Zenon
  <2> QED BY <1>1, <2>1, <2>2, Zenon
<1>3. \A b \in Bufs : pool[b] \in {0, 1}
  BY <1>1 DEF Neat, Tidy
<1>4. \A b \in Bufs : b \in Waits(Around(q)) => b \in OwnedBy(q) \/ pool[b] = 1
  BY <1>1, Zenon DEF Waits, OwnedBy
<1>5. ASSUME NEW b \in Bufs, pool[b] = 1 PROVE b \notin OwnedBy(q)
  <2>1. b \in Waits(Around(q))
    BY <1>1, <1>5, Zenon DEF Waits
  <2>2. \A i \in 1..Len(free[q]) : free[q][i] # b
    BY <1>2, <1>5
  <2> QED BY <1>1, <2>1, <2>2, ZenonT(40) DEF Neat, OwnedBy
<1>6. ASSUME NEW b \in OwnedBy(q) PROVE b = NoBuf \/ (b \in Bufs /\ Held(b))
  <2>1. CASE \E i \in 1..Len(free[q]) : b = free[q][i]
    <3>1. DOMAIN free[q] = 1..Len(free[q])
      BY <1>1
    <3> QED BY <1>2, <2>1, <3>1, Zenon DEF Held
  <2>2. CASE \E c \in 1..Cols : b = crs[q][c].win
    BY <1>1, <2>2, Zenon DEF Held
  <2>3. CASE b = hand[q]
    BY <1>1, <2>3, Zenon DEF Held
  <2> QED BY <2>1, <2>2, <2>3, Zenon DEF OwnedBy
<1>7. NoBuf \notin Waits(Around(q))
  BY <1>1, <1>2, Constants, Zenon DEF Waits
<1> QED BY <1>3, <1>4, <1>5, <1>6, <1>7, Zenon

(* A process that keeps its own buffers in order, and takes only what      *)
(* waits or is nobody's, keeps all of them in order.                       *)
LEMMA ApartStep ==
  ASSUME Typed, Apart, NEW p \in Procs, Neat(p)',
         \A q \in Procs : q # p => free'[q] = free[q] /\ crs'[q] = crs[q] /\ hand'[q] = hand[q],
         Takes(p)
  PROVE  Apart'
<1>0. /\ Waits(Around(p))' \subseteq Waits(Around(p)) \union OwnedBy(p)
      /\ \A b \in Bufs : b \in OwnedBy(p)' => b \in OwnedBy(p) \union Waits(Around(p)) \/ ~Held(b)
  BY Zenon DEF Takes
<1>1. /\ Around(p)'.free = free'[p] /\ Around(p)'.pool = pool'
      /\ \A q \in Procs : /\ Around(q).free = free[q] /\ Around(q).pool = pool
                          /\ Around(q)'.free = free'[q] /\ Around(q)'.pool = pool'
  BY AroundFields, Zenon
<1>2. pool' \in [Bufs -> Nat] /\ \A b \in Bufs : pool'[b] <= 1
  BY <1>1, Zenon DEF Neat, Tidy
<1>3. ASSUME NEW q \in Procs, q # p, NEW b \in OwnedBy(q), b # NoBuf
      PROVE  b \in Bufs /\ pool'[b] = 0 /\ pool[b] = 0 /\ b \notin OwnedBy(p)'
  <2>1. b \in Bufs /\ Held(b)
    BY <1>3, Places, Zenon
  <2>2. b \notin OwnedBy(p)
    BY <1>3, <2>1, Zenon DEF Apart
  <2>3. pool[b] # 1
    BY <2>1, Places, Zenon
  <2>4. b \notin Waits(Around(p))
    BY <2>1, <2>2, <2>3, Places, Zenon
  <2>5. pool'[b] # 1
    <3>1. b \notin Waits(Around(p))'
      BY <1>0, <2>2, <2>4, Zenon
    <3> QED BY <1>1, <2>1, <3>1, Zenon DEF Waits
  <2>6. b \notin OwnedBy(p)'
    BY <1>0, <2>1, <2>2, <2>4, Zenon
  <2>7. pool'[b] = 0 /\ pool[b] = 0
    BY <1>2, <2>1, <2>3, <2>5, Places
  <2> QED BY <2>1, <2>6, <2>7, Zenon
<1>4. \A q \in Procs : q # p => OwnedBy(q)' = OwnedBy(q)
  BY ZenonT(40) DEF OwnedBy
<1>5. ASSUME NEW q \in Procs, q # p PROVE Neat(q)'
  <2>1. /\ free'[q] = free[q] /\ crs'[q] = crs[q] /\ hand'[q] = hand[q] /\ Neat(q)
        /\ free[q] \in Seq(Bufs) /\ hand[q] \in Bufs \union {NoBuf}
        /\ \A c \in 1..Cols : crs[q][c].win \in Bufs \union {NoBuf}
    BY <1>5, TypedOf, Zenon DEF Apart
  <2>2. \A i \in 1..Len(free[q]) : free[q][i] \in OwnedBy(q) /\ free[q][i] # NoBuf
    <3>1. \A i \in 1..Len(free[q]) : free[q][i] \in Bufs
      BY <2>1
    <3> QED BY <3>1, Constants, ZenonT(40) DEF OwnedBy
  <2>3. \A c \in 1..Cols : crs[q][c].win \in OwnedBy(q)
    BY Zenon DEF OwnedBy
  <2>4. hand[q] \in OwnedBy(q)
    BY Zenon DEF OwnedBy
  <2>5. Tidy(Around(q))'
    <3>1. \A i \in 1..Len(free[q]) : pool'[free[q][i]] = 0
      BY <1>3, <1>5, <2>2, Zenon
    <3>2. Tidy(Around(q))
      BY <2>1, Zenon DEF Neat
    <3>3. /\ free[q] \in Seq(Bufs) /\ Len(free[q]) <= MaxPooled
          /\ \A i, j \in 1..Len(free[q]) : free[q][i] = free[q][j] => i = j
      BY <1>1, <3>2, Zenon DEF Tidy
    <3> QED BY <1>1, <1>2, <2>1, <3>1, <3>3, ZenonT(40) DEF Tidy
  <2>6. ASSUME NEW b \in OwnedBy(q), b \notin Waits(Around(q)) PROVE b \notin Waits(Around(q))'
    <3>1. \A i \in 1..Len(free[q]) : free[q][i] # b
      BY <1>1, <2>6 DEF Waits
    <3>2. b \in Bufs => pool'[b] # 1
      <4>1. b \in Bufs => pool'[b] = 0
        BY <1>3, <1>5, <2>6, Constants, Zenon
      <4> QED BY <4>1
    <3> QED BY <1>1, <2>1, <3>1, <3>2, SMTT(60) DEF Waits
  <2> QED BY <2>1, <2>3, <2>4, <2>5, <2>6, ZenonT(40) DEF Neat
<1>6. ASSUME NEW q \in Procs, NEW s \in Procs, NEW b \in Bufs, b \in OwnedBy(q)', b \in OwnedBy(s)'
      PROVE  q = s
  <2>1. b # NoBuf
    BY Constants, Zenon
  <2>2. CASE q = p /\ s # p
    BY <1>3, <1>4, <1>6, <2>1, <2>2, Zenon
  <2>3. CASE q # p /\ s = p
    BY <1>3, <1>4, <1>6, <2>1, <2>3, Zenon
  <2>4. CASE q # p /\ s # p
    BY <1>4, <1>6, <2>4, Zenon DEF Apart
  <2> QED BY <2>2, <2>3, <2>4, Zenon
<1> QED BY <1>5, <1>6, Zenon DEF Apart

(* The same for what is in the windows, when the process that moves keeps  *)
(* its own as they should be.                                              *)
LEMMA BuffersStep ==
  ASSUME Typed, Buffers, NEW p \in Procs, Step(p), Takes(p), Touches(p),
         Neat(p)', Windows(p)', Fetch(p)'
  PROVE  Buffers'
<1>1. Others(p) /\ damage' = damage
  BY Frame, Zenon
<1>2. Apart'
  BY <1>1, ApartStep, Zenon DEF Others, Buffers
<1>3. ASSUME NEW q \in Procs, q # p PROVE Windows(q)' /\ Fetch(q)'
  <2>1. /\ crs'[q] = crs[q] /\ hand'[q] = hand[q] /\ need'[q] = need[q] /\ pc'[q] = pc[q]
        /\ rg'[q] = rg[q] /\ col'[q] = col[q] /\ Cr(q)' = Cr(q)
    BY <1>1, <1>3, Zenon DEF Others, Cr
  <2>2. Windows(q) /\ Fetch(q) /\ Apart
    BY Zenon DEF Buffers
  <2>3. ASSUME NEW b \in OwnedBy(q), b # NoBuf PROVE cap'[b] = cap[b] /\ content'[b] = content[b]
    <3>1. b \in Bufs /\ Held(b)
      BY <2>2, <2>3, Places, Zenon
    <3>2. b \notin OwnedBy(p)
      BY <1>3, <2>2, <2>3, <3>1, Zenon DEF Apart
    <3> QED BY <3>1, <3>2, Zenon DEF Touches
  <2>4. \A c \in 1..Cols : crs[q][c].win \in OwnedBy(q)
    BY Zenon DEF OwnedBy
  <2>5. hand[q] \in OwnedBy(q)
    BY ZenonT(40) DEF OwnedBy
  <2>6. Windows(q)'
    <3>1. \A c \in 1..Cols : crs[q][c].win # NoBuf =>
            cap'[crs[q][c].win] = cap[crs[q][c].win] /\ content'[crs[q][c].win] = content[crs[q][c].win]
      BY <2>3, <2>4, Zenon
    <3>2. ASSUME NEW c \in 1..Cols, crs[q][c].win # NoBuf
          PROVE  /\ crs[q][c].len <= cap'[crs[q][c].win]
                 /\ content'[crs[q][c].win] =
                      [g |-> rg[q], c |-> c, from |-> crs[q][c].start, len |-> crs[q][c].len]
      BY <2>2, <3>1, <3>2, Zenon DEF Windows
    <3> QED BY <2>1, <3>2, Zenon DEF Windows
  <2>7. \A c, g : End(c, g)' = End(c, g)
    BY <1>1, Zenon DEF End
  <2>8. Want(q, Cr(q), need[q])' = Want(q, Cr(q), need[q])
    BY <2>1, <2>7, Zenon DEF Want
  <2>9. pc[q] = "read" => cap'[hand[q]] = cap[hand[q]]
    BY <2>2, <2>3, <2>5, Zenon DEF Fetch
  <2>10. Fetch(q)'
    BY <2>1, <2>2, <2>7, <2>8, <2>9, Zenon DEF Fetch
  <2> QED BY <2>6, <2>10, Zenon
<1> QED BY <1>2, <1>3, Zenon DEF Buffers

(* A process that gives windows back, and no more, keeps its buffers in    *)
(* order whatever waits afterwards among those that waited or were its own.*)
LEMMA MoveStep ==
  ASSUME Typed, Apart, NEW p \in Procs, NEW w, Tidy(w), free'[p] = w.free, pool' = w.pool,
         Waits(w) \subseteq Waits(Around(p)) \union OwnedBy(p),
         \A c \in 1..Cols : /\ crs'[p][c].win \in {NoBuf, crs[p][c].win}
                            /\ crs'[p][c].win # NoBuf => crs'[p][c].win \notin Waits(w),
         hand'[p] # NoBuf =>
           /\ hand'[p] \notin Waits(w) /\ \A c \in 1..Cols : crs'[p][c].win # hand'[p]
           /\ hand'[p] \in OwnedBy(p) \union Waits(Around(p)) \/ ~Held(hand'[p])
  PROVE  Neat(p)' /\ Takes(p)
<1>1. Around(p)'.free = w.free /\ Around(p)'.pool = w.pool
  BY AroundFields, ZenonT(40)
<1>2. Tidy(Around(p))' /\ Waits(Around(p))' = Waits(w)
  BY <1>1, SameWaiting, Zenon
<1>3. NoBuf \notin Waits(w)
  BY NeverNoBuf, Zenon
<1>4. Neat(p)'
  <2>1. \A c \in 1..Cols : crs'[p][c].win \notin Waits(w)
    BY <1>3, Zenon
  <2>2. hand'[p] \notin Waits(w)
    BY <1>3, Zenon
  <2>3. Neat(p)
    BY Zenon DEF Apart
  <2>4. \A c, d \in 1..Cols : crs'[p][c].win = crs'[p][d].win /\ crs'[p][c].win # NoBuf => c = d
    BY <2>3, Zenon DEF Neat
  <2> QED BY <1>2, <2>1, <2>2, <2>4, Zenon DEF Neat
<1>5. ASSUME NEW b \in Bufs, b \in OwnedBy(p)'
      PROVE  b \in OwnedBy(p) \union Waits(Around(p)) \/ ~Held(b)
  <2>1. b # NoBuf
    BY Constants, Zenon
  <2>2. CASE \E i \in 1..Len(free'[p]) : b = free'[p][i]
    <3>1. b \in Waits(w)
      BY <2>2, Zenon DEF Waits
    <3> QED BY <3>1, Zenon
  <2>3. CASE \E c \in 1..Cols : b = crs'[p][c].win
    <3>1. PICK c \in 1..Cols : b = crs'[p][c].win
      BY <2>3, Zenon
    <3>2. b = crs[p][c].win
      BY <2>1, <3>1, Zenon
    <3> QED BY <3>2, ZenonT(40) DEF OwnedBy
  <2>4. CASE b = hand'[p]
    BY <2>1, <2>4, ZenonT(40)
  <2> QED BY <1>5, <2>2, <2>3, <2>4, ZenonT(40) DEF OwnedBy
<1> QED BY <1>2, <1>4, <1>5, Zenon DEF Takes

-----------------------------------------------------------------------------
(***************************************************************************)
(* The types and the buffers, step by step.                                *)
(***************************************************************************)

(* A reader just opened, and one that is closed. *)
LEMMA Readers ==
  /\ NewColumnReader \in ColumnReader /\ NewColumnReader.win = NoBuf
  /\ NewColumnReader.pos = 0 /\ NewColumnReader.done = 0
  /\ \A cr \in ColumnReader : /\ ClosedCr(cr) \in ColumnReader /\ ClosedCr(cr).win = NoBuf
                              /\ ClosedCr(cr).pos = cr.pos /\ ClosedCr(cr).done = cr.done
                              /\ ClosedCr(cr).len = cr.len
BY Zenon DEF NewColumnReader, ColumnReader, ClosedCr

(* fsck goes on with a column of the file, or closes. *)
LEMMA ColumnAfter ==
  ASSUME Typed, NEW p \in Procs, rg[p] <= NumRGs, NextColumn(p)
  PROVE  /\ pass'[p] \in {"check", "verify"} /\ col'[p] \in 1..Cols /\ rg'[p] \in 1..(NumRGs + 1)
         /\ pc'[p] = "close" \/ (pc'[p] = "block" /\ rg'[p] <= NumRGs)
<1>1. /\ rg[p] \in 1..NumRGs /\ col[p] \in 1..Cols /\ Cols \in Nat /\ NumRGs \in Nat
      /\ Cols >= 1
  BY TypedOf, Constants
<1>2. /\ pass'[p] = IF pass[p] = "check" THEN "verify" ELSE "check"
      /\ col'[p] = IF pass[p] = "check" THEN col[p] ELSE IF col[p] = Cols THEN 1 ELSE col[p] + 1
      /\ rg'[p] = IF pass[p] # "check" /\ col[p] = Cols THEN rg[p] + 1 ELSE rg[p]
      /\ pc'[p] = IF pass[p] # "check" /\ col[p] = Cols /\ rg[p] = NumRGs THEN "close" ELSE "block"
  BY Zenon DEF NextColumn, GoTo, Typed, OneEach
<1>3. pass'[p] \in {"check", "verify"}
  BY <1>2, Zenon
<1>4. col'[p] \in 1..Cols
  BY <1>1, <1>2
<1>5. rg'[p] \in 1..(NumRGs + 1)
  BY <1>1, <1>2
<1>6. pc'[p] = "close" \/ (pc'[p] = "block" /\ rg'[p] <= NumRGs)
  BY <1>1, <1>2
<1> QED BY <1>3, <1>4, <1>5, <1>6, Zenon

(* A step that changes no buffer touches none. *)
LEMMA TouchesNone ==
  ASSUME NEW p \in Procs, cap' = cap, content' = content PROVE Touches(p)
BY Zenon DEF Touches

(* fsck leaves a column: its window is released, and every reader is new. *)
LEMMA LeaveKeeps ==
  ASSUME Typed, Buffers, NEW p \in Procs, rg[p] <= NumRGs, NEW cr, cr.win = Cr(p).win,
         NEW w, Tidy(w), Waits(w) \subseteq Waits(Around(p)) \union OwnedBy(p),
         Cr(p).win \notin Waits(w), LeaveColumn(p, cr, w), hand'[p] = NoBuf,
         need'[p] \in Nat, errs'[p] \in 0..MaxErrs, out' = out, fsck' = fsck,
         cap' = cap, content' = content
  PROVE  Keeps(p) /\ pool' \in [Bufs -> Nat]
<1> DEFINE r == releaseBuf(w, cr.win)
<1>1. col[p] \in 1..Cols /\ Cr(p).win \in Bufs \union {NoBuf} /\ Cr(p).win \in OwnedBy(p)
  BY TypedOf, Zenon DEF Cr, OwnedBy
<1>2. Tidy(r) /\ Waits(r) \subseteq Waits(w) \union {cr.win}
  BY <1>1, Released, Zenon
<1>3. free'[p] = r.free /\ pool' = r.pool
  BY Zenon DEF LeaveColumn, SetWaiting, Typed, OneEach
<1>4. crs'[p] = [c \in 1..Cols |-> NewColumnReader]
  BY Zenon DEF LeaveColumn, Typed, OneEach
<1> HIDE DEF r
<1>5. \A c \in 1..Cols : crs'[p][c].win = NoBuf
  BY <1>4, Readers, Zenon
<1>6. Neat(p)' /\ Takes(p)
  <2>1. Waits(r) \subseteq Waits(Around(p)) \union OwnedBy(p)
    BY <1>1, <1>2, Zenon
  <2>2. Apart
    BY ZenonT(40) DEF Buffers
  <2> QED BY <1>2, <1>3, <1>5, <2>1, <2>2, MoveStep, Zenon
<1>7. Windows(p)'
  BY <1>5, Zenon DEF Windows
<1>8. /\ pass'[p] \in {"check", "verify"} /\ col'[p] \in 1..Cols /\ rg'[p] \in 1..(NumRGs + 1)
      /\ pc'[p] = "close" \/ (pc'[p] = "block" /\ rg'[p] <= NumRGs)
  BY ColumnAfter, ZenonT(40) DEF LeaveColumn
<1>9. Fetch(p)'
  BY <1>8, Zenon DEF Fetch, Fetching, Active
<1>10. Own(p)'
  <2>1. crs'[p] \in [1..Cols -> ColumnReader]
    BY <1>4, Readers, Zenon
  <2>2. free'[p] \in Seq(Bufs) /\ Len(free'[p]) <= MaxPooled
    BY <1>2, <1>3, Zenon DEF Tidy
  <2>3. vecs'[p] \in Seq(Block) /\ out'[p] \in Seq(IF p \in fsck' THEN Block ELSE Seq(Block))
    BY Zenon DEF LeaveColumn, Typed, Own
  <2>4. pc'[p] \in {"claim", "block", "get", "read", "served", "close", "closed"}
    BY <1>8, Zenon
  <2>5. hand'[p] \in Bufs \union {NoBuf}
    BY Zenon
  <2> QED BY <1>8, <2>1, <2>2, <2>3, <2>4, <2>5, Zenon DEF Own
<1>11. pool' \in [Bufs -> Nat]
  BY <1>2, <1>3, Zenon DEF Tidy
<1> QED BY <1>6, <1>7, <1>9, <1>10, <1>11, TouchesNone, Zenon DEF Keeps

(* CountError counts, as far as MaxErrs. *)
LEMMA ErrorCounted ==
  ASSUME Typed, NEW p \in Procs, CountError(p)
  PROVE  errs'[p] \in 0..MaxErrs /\ errs'[p] > 0
<1>1. errs[p] \in 0..MaxErrs /\ errs'[p] = Smaller(errs[p] + 1, MaxErrs)
  BY Zenon DEF Typed, OneEach, Own, CountError
<1> QED BY <1>1, ScanAssumption DEF Smaller

(* SetCr changes the reader of the column the process is at, and no other. *)
LEMMA ReaderSet ==
  ASSUME Typed, NEW p \in Procs, NEW cr \in ColumnReader, SetCr(p, cr)
  PROVE  /\ crs'[p] \in [1..Cols -> ColumnReader] /\ crs'[p][col[p]] = cr
         /\ \A c \in 1..Cols : c # col[p] => crs'[p][c] = crs[p][c]
<1>1. crs[p] \in [1..Cols -> ColumnReader] /\ col[p] \in 1..Cols
  BY TypedOf, Zenon
<1>2. crs'[p] = [crs[p] EXCEPT ![col[p]] = cr]
  BY Zenon DEF SetCr, Typed, OneEach
<1> QED BY <1>1, <1>2, ZenonT(40)

(* The readers' windows when only what has been read of one changes. *)
LEMMA WindowsKept ==
  ASSUME Typed, NEW p \in Procs, Windows(p), NEW cr \in ColumnReader, SetCr(p, cr),
         cr.win \in {NoBuf, Cr(p).win}, cr.win # NoBuf => cr.start = Cr(p).start /\ cr.len = Cr(p).len,
         rg'[p] = rg[p], cap' = cap, content' = content
  PROVE  Windows(p)'
<1> SUFFICES ASSUME NEW c \in 1..Cols, crs'[p][c].win # NoBuf
             PROVE  /\ crs'[p][c].len <= cap[crs'[p][c].win]
                    /\ content[crs'[p][c].win] = [g |-> rg[p], c |-> c, from |-> crs'[p][c].start,
                                                  len |-> crs'[p][c].len]
  BY ZenonT(40) DEF Windows
<1>1. CASE c = col[p]
  <2>1. crs'[p][c] = cr /\ crs[p][c] = Cr(p)
    BY <1>1, ReaderSet, Zenon DEF Cr
  <2>2. cr.win = Cr(p).win /\ cr.start = Cr(p).start /\ cr.len = Cr(p).len
    BY <2>1, ZenonT(40)
  <2> QED BY <2>1, <2>2 DEF Windows
<1>2. CASE c # col[p]
  <2>1. crs'[p][c] = crs[p][c]
    BY <1>2, ReaderSet, ZenonT(40)
  <2> QED BY <2>1, Zenon DEF Windows
<1> QED BY <1>1, <1>2, Zenon

(* NextBlock failed with what waits in w. *)
LEMMA FailsKeeps ==
  ASSUME Typed, Buffers, NEW p \in Procs, rg[p] <= NumRGs, NEW cr \in ColumnReader,
         cr.win = Cr(p).win, cr.start = Cr(p).start, cr.len = Cr(p).len,
         NEW w, Tidy(w), Waits(w) \subseteq Waits(Around(p)) \union OwnedBy(p),
         \A c \in 1..Cols : crs[p][c].win \notin Waits(w),
         Fails(p, cr, w), fsck' = fsck, cap' = cap, content' = content
  PROVE  Keeps(p) /\ pool' \in [Bufs -> Nat]
<1>1. hand'[p] = NoBuf /\ need'[p] = 0 /\ need'[p] \in Nat
  BY Zenon DEF Fails, Typed, OneEach
<1>2. errs'[p] \in 0..MaxErrs /\ out' = out
  BY ErrorCounted, Zenon DEF Fails
<1>3. col[p] \in 1..Cols /\ crs[p][col[p]] = Cr(p)
  BY TypedOf, Zenon DEF Cr
<1>4. CASE p \in fsck /\ pass[p] = "verify"
  <2>1. LeaveColumn(p, cr, w)
    BY <1>4, Zenon DEF Fails
  <2>2. Cr(p).win \notin Waits(w)
    BY <1>3, Zenon
  <2> QED BY <1>1, <1>2, <2>1, <2>2, LeaveKeeps, Zenon
<1>5. CASE ~(p \in fsck /\ pass[p] = "verify")
  <2>1. /\ SetCr(p, cr) /\ SetWaiting(p, w) /\ GoTo(p, IF p \in fsck THEN "block" ELSE "close")
        /\ rg' = rg /\ col' = col /\ pass' = pass /\ vecs' = vecs
    BY <1>5, ZenonT(40) DEF Fails
  <2>2. free'[p] = w.free /\ pool' = w.pool /\ pc'[p] \in {"block", "close"}
    BY <2>1, Zenon DEF SetWaiting, GoTo, Typed, OneEach
  <2>3. ASSUME NEW c \in 1..Cols PROVE crs'[p][c].win = crs[p][c].win
    <3>1. crs'[p][col[p]] = cr /\ (c # col[p] => crs'[p][c] = crs[p][c])
      BY <2>1, ReaderSet, ZenonT(40)
    <3> QED BY <1>3, <3>1, Zenon
  <2>4. Neat(p)' /\ Takes(p)
    <3>1. Apart
      BY Zenon DEF Buffers
    <3> QED BY <1>1, <2>2, <2>3, <3>1, MoveStep, Zenon
  <2>5. Windows(p)'
    BY <2>1, WindowsKept, ZenonT(40) DEF Buffers
  <2>6. Fetch(p)'
    BY <1>1, <2>1, <2>2, Zenon DEF Fetch, Fetching, Active
  <2>7. Own(p)'
    <3>1. crs'[p] \in [1..Cols -> ColumnReader]
      BY <2>1, ReaderSet, Zenon
    <3>2. free'[p] \in Seq(Bufs) /\ Len(free'[p]) <= MaxPooled
      BY <2>2, Zenon DEF Tidy
    <3>3. vecs'[p] \in Seq(Block) /\ out'[p] \in Seq(IF p \in fsck' THEN Block ELSE Seq(Block))
      BY <1>2, <2>1, ZenonT(40) DEF Typed, Own
    <3>4. pc'[p] \in {"claim", "block", "get", "read", "served", "close", "closed"}
      BY <2>2, Zenon
    <3>5. hand'[p] \in Bufs \union {NoBuf}
      BY <1>1, Zenon
    <3>6. rg'[p] \in 1..(NumRGs + 1) /\ col'[p] \in 1..Cols /\ pass'[p] \in {"check", "verify"}
      BY <2>1, TypedOf, Zenon
    <3> QED BY <1>1, <1>2, <3>1, <3>2, <3>3, <3>4, <3>5, <3>6, ZenonT(40) DEF Own
  <2>8. pool' \in [Bufs -> Nat]
    BY <2>2, Zenon DEF Tidy
  <2> QED BY <2>4, <2>5, <2>6, <2>7, <2>8, TouchesNone, Zenon DEF Keeps
<1> QED BY <1>4, <1>5, Zenon

(* A section ends somewhere. *)
LEMMA EndTyped == \A c \in 1..Cols, g \in 1..NumRGs : End(c, g) \in Int
<1> SUFFICES ASSUME NEW c \in 1..Cols, NEW g \in 1..NumRGs PROVE End(c, g) \in Int
  BY Zenon
<1>1. NumBlocks(g) \in Nat
  BY Constants, Zenon
<1>2. NumBlocks(g) + 1 \in 1..(NumBlocks(g) + 1)
  BY <1>1
<1>3. Offset(c, g, NumBlocks(g) + 1) \in Nat
  BY <1>2, Offsets, ZenonT(40)
<1> QED BY <1>3 DEF End

(* A window is as long as was asked for, or longer. *)
LEMMA WantTyped ==
  ASSUME Typed, NEW p \in Procs, rg[p] <= NumRGs, NEW cr \in ColumnReader, NEW n \in Nat
  PROVE  Want(p, cr, n) \in Nat /\ Want(p, cr, n) >= n
<1>1. rg[p] \in 1..NumRGs /\ col[p] \in 1..Cols
  BY TypedOf, Constants
<1>2. End(col[p], rg[p]) \in Int
  BY <1>1, EndTyped, Zenon
<1>3. cr.pos \in Nat
  BY Zenon DEF ColumnReader
<1> QED BY <1>2, <1>3, ScanAssumption DEF Want, Larger, Smaller

(* window serves from the buffer it has, takes another, or fails. *)
LEMMA WindowKeeps ==
  ASSUME Typed, Buffers, NEW p \in Procs, rg[p] <= NumRGs, hand[p] = NoBuf, NEW cr \in ColumnReader,
         cr.pos = Cr(p).pos, cr.win = Cr(p).win, cr.start = Cr(p).start, cr.len = Cr(p).len,
         cr.done \in 1..NumBlocks(rg[p]), NEW n \in Nat, n >= 1,
         window(p, cr, n), fsck' = fsck, damage' = damage, cap' = cap, content' = content
  PROVE  Keeps(p) /\ pool' \in [Bufs -> Nat]
<1>1. Apart /\ Neat(p) /\ Windows(p)
  BY Zenon DEF Buffers, Apart
<1>2. /\ Tidy(Around(p)) /\ \A c \in 1..Cols : crs[p][c].win \notin Waits(Around(p))
      /\ Waits(Around(p)) \subseteq Waits(Around(p)) \union OwnedBy(p)
  BY <1>1, Zenon DEF Neat
<1>3. /\ col[p] \in 1..Cols /\ crs[p][col[p]] = Cr(p) /\ Cr(p).win \in Bufs \union {NoBuf}
      /\ Cr(p).win \in OwnedBy(p)
  BY TypedOf, Zenon DEF Cr, OwnedBy
<1>4. CASE cr.pos + n > End(col[p], rg[p])
  <2>1. Fails(p, cr, Around(p))
    BY <1>4, ZenonT(40) DEF window, Around
  <2> QED BY <1>2, <2>1, FailsKeeps, Zenon
<1>5. CASE ~(cr.pos + n > End(col[p], rg[p]))
  <2>1. /\ need' = [need EXCEPT ![p] = n] /\ rg' = rg /\ col' = col /\ pass' = pass
        /\ vecs' = vecs /\ out' = out /\ errs' = errs
    BY <1>5, Zenon DEF window
  <2>2. need'[p] = n
    BY <2>1, Zenon DEF Typed, OneEach
  <2>3. \A c, g : End(c, g)' = End(c, g)
    BY ZenonT(40) DEF End
  <2>4. cr.pos + n <= End(col[p], rg[p])
    <3>1. rg[p] \in 1..NumRGs
      BY TypedOf, Constants
    <3>2. End(col[p], rg[p]) \in Int
      BY <1>3, <3>1, EndTyped, ZenonT(40)
    <3>3. cr.pos \in Nat
      BY Zenon DEF ColumnReader
    <3> QED BY <1>5, <3>2, <3>3, SMTT(60)
  <2>5. ASSUME free'[p] \in Seq(Bufs), Len(free'[p]) <= MaxPooled, hand'[p] \in Bufs \union {NoBuf},
               crs'[p] \in [1..Cols -> ColumnReader], pc'[p] \in {"get", "read", "served"}
        PROVE  Own(p)'
    <3>1. vecs'[p] \in Seq(Block) /\ out'[p] \in Seq(IF p \in fsck' THEN Block ELSE Seq(Block))
          /\ errs'[p] \in 0..MaxErrs
      BY <2>1, ZenonT(40) DEF Typed, Own
    <3>2. pc'[p] \in {"claim", "block", "get", "read", "served", "close", "closed"}
      BY <2>5, Zenon
    <3>3. rg'[p] \in 1..(NumRGs + 1) /\ col'[p] \in 1..Cols /\ pass'[p] \in {"check", "verify"}
      BY <2>1, TypedOf, Zenon
    <3> QED BY <2>2, <2>5, <3>1, <3>2, <3>3, ZenonT(40) DEF Own
  <2>6. CASE Buffered(cr, n)
    <3>1. /\ SetCr(p, cr) /\ GoTo(p, "served") /\ free' = free /\ pool' = pool /\ hand' = hand
      BY <1>5, <2>6, ZenonT(40) DEF window
    <3>2. pc'[p] = "served"
      BY <3>1, Zenon DEF GoTo, Typed, OneEach
    <3>3. /\ crs'[p] \in [1..Cols -> ColumnReader] /\ crs'[p][col[p]] = cr
          /\ \A c \in 1..Cols : c # col[p] => crs'[p][c] = crs[p][c]
      BY <3>1, ReaderSet, ZenonT(40)
    <3>4. \A c \in 1..Cols : crs'[p][c].win = crs[p][c].win
      BY <1>3, <3>3, Zenon
    <3>5. Around(p).free = free'[p] /\ Around(p).pool = pool' /\ hand'[p] = NoBuf
      BY <3>1, AroundFields, ZenonT(40)
    <3>6. Neat(p)' /\ Takes(p)
      BY <1>1, <1>2, <3>4, <3>5, MoveStep, Zenon
    <3>7. Windows(p)'
      BY <1>1, <2>1, <3>1, WindowsKept, ZenonT(40)
    <3>8. Fetch(p)'
      <4>1. Cr(p)' = cr /\ col'[p] = col[p] /\ rg'[p] = rg[p]
        BY <2>1, <3>3, Zenon DEF Cr
      <4>2. cr.win # NoBuf
        BY <2>6, Zenon DEF Buffered
      <4> QED BY <2>2, <2>3, <2>4, <3>2, <3>5, <4>1, <4>2, Zenon DEF Fetch
    <3>9. Own(p)'
      <4>1. free'[p] \in Seq(Bufs) /\ Len(free'[p]) <= MaxPooled
        BY <3>1, Zenon DEF Typed, Own
      <4>2. pc'[p] \in {"get", "read", "served"} /\ hand'[p] \in Bufs \union {NoBuf}
        BY <3>2, <3>5, Zenon
      <4> QED BY <2>5, <3>3, <4>1, <4>2, Zenon
    <3>10. pool' \in [Bufs -> Nat]
      BY <3>1, ZenonT(40) DEF Typed, Globals
    <3> QED BY <3>6, <3>7, <3>8, <3>9, <3>10, TouchesNone, ZenonT(40) DEF Keeps
  <2>7. CASE ~Buffered(cr, n)
    <3> DEFINE want == Want(p, cr, n)
               r == releaseBuf(Around(p), cr.win)
               a == acquireBuf(r, want)
               new == ClosedCr(cr)
    <3>1. /\ SetCr(p, new) /\ SetWaiting(p, a.w) /\ hand' = [hand EXCEPT ![p] = a.buf]
          /\ GoTo(p, IF a.buf = NoBuf THEN "get" ELSE "read")
      BY <1>5, <2>7, Zenon DEF window, Around
    <3>2. want \in Nat /\ want >= n
      BY WantTyped, Zenon
    <3>3. Tidy(r) /\ Waits(r) \subseteq Waits(Around(p)) \union {cr.win}
      BY <1>2, <1>3, Released, Zenon
    <3> HIDE DEF r, want
    <3>4. /\ Tidy(a.w) /\ Waits(a.w) \subseteq Waits(r) /\ a.buf \in Bufs \union {NoBuf}
          /\ a.buf # NoBuf => a.buf \in Waits(r) /\ a.buf \notin Waits(a.w) /\ cap[a.buf] >= want
      BY <3>2, <3>3, Acquired, ZenonT(40)
    <3> HIDE DEF a
    <3>5. /\ free'[p] = a.w.free /\ pool' = a.w.pool /\ hand'[p] = a.buf
          /\ pc'[p] = IF a.buf = NoBuf THEN "get" ELSE "read"
      BY <3>1, Zenon DEF SetWaiting, GoTo, Typed, OneEach
    <3>6. new \in ColumnReader /\ new.win = NoBuf /\ new.pos = cr.pos /\ new.done = cr.done
      BY Readers, Zenon
    <3> HIDE DEF new
    <3>7. /\ crs'[p] \in [1..Cols -> ColumnReader] /\ crs'[p][col[p]] = new
          /\ \A c \in 1..Cols : c # col[p] => crs'[p][c] = crs[p][c]
      BY <3>1, <3>6, ReaderSet, ZenonT(40)
    <3>8. ASSUME NEW c \in 1..Cols
          PROVE  /\ crs'[p][c].win \in {NoBuf, crs[p][c].win}
                 /\ crs'[p][c].win # NoBuf => crs'[p][c].win \notin Waits(r)
      <4>1. CASE c = col[p]
        BY <3>6, <3>7, <4>1, Zenon
      <4>2. CASE c # col[p]
        <5>1. crs'[p][c] = crs[p][c]
          BY <3>7, <4>2, Zenon
        <5>2. crs[p][c].win # NoBuf => crs[p][c].win # Cr(p).win
          BY <1>1, <1>3, <4>2, Zenon DEF Neat
        <5> QED BY <1>2, <3>3, <5>1, <5>2, Zenon
      <4> QED BY <4>1, <4>2, ZenonT(40)
    <3>9. Neat(p)' /\ Takes(p)
      <4>1. Waits(r) \subseteq Waits(Around(p)) \union OwnedBy(p)
        BY <1>3, <3>3, Zenon
      <4>2. Waits(a.w) \subseteq Waits(Around(p)) \union OwnedBy(p)
        BY <3>4, <4>1, Zenon
      <4>3. \A c \in 1..Cols : /\ crs'[p][c].win \in {NoBuf, crs[p][c].win}
                               /\ crs'[p][c].win # NoBuf => crs'[p][c].win \notin Waits(a.w)
        BY <3>4, <3>8, Zenon
      <4>4. hand'[p] # NoBuf =>
              /\ hand'[p] \notin Waits(a.w) /\ \A c \in 1..Cols : crs'[p][c].win # hand'[p]
              /\ hand'[p] \in OwnedBy(p) \union Waits(Around(p)) \/ ~Held(hand'[p])
        BY <3>4, <3>5, <3>8, <4>1, Zenon
      <4> QED BY <1>1, <3>4, <3>5, <4>2, <4>3, <4>4, MoveStep, ZenonT(40)
    <3>10. Windows(p)'
      BY <1>1, <2>1, <3>1, <3>6, WindowsKept, ZenonT(40)
    <3>11. Fetch(p)'
      <4>1. Cr(p)' = new /\ col'[p] = col[p] /\ rg'[p] = rg[p]
        BY <2>1, <3>7, Zenon DEF Cr
      <4>2. Want(p, Cr(p), need[p])' = want
        BY <2>2, <2>3, <3>6, <4>1, ZenonT(40) DEF Want, want
      <4>3. CASE a.buf = NoBuf
        BY <2>2, <2>3, <2>4, <3>5, <3>6, <4>1, <4>3, Zenon DEF Fetch
      <4>4. CASE a.buf # NoBuf
        BY <2>2, <2>3, <2>4, <3>4, <3>5, <3>6, <4>1, <4>2, <4>4, ZenonT(40) DEF Fetch
      <4> QED BY <4>3, <4>4, Zenon
    <3>12. Own(p)'
      <4>1. free'[p] \in Seq(Bufs) /\ Len(free'[p]) <= MaxPooled
        BY <3>4, <3>5, Zenon DEF Tidy
      <4>2. pc'[p] \in {"get", "read", "served"} /\ hand'[p] \in Bufs \union {NoBuf}
        BY <3>4, <3>5, Zenon
      <4> QED BY <2>5, <3>7, <4>1, <4>2, Zenon
    <3>13. pool' \in [Bufs -> Nat]
      BY <3>4, <3>5, Zenon DEF Tidy
    <3> QED BY <3>9, <3>10, <3>11, <3>12, <3>13, TouchesNone, Zenon DEF Keeps
  <2> QED BY <2>6, <2>7, Zenon
<1> QED BY <1>4, <1>5, Zenon

(* What a process holds when it moves. *)
LEMMA Holding ==
  ASSUME Typed, Buffers, NEW p \in Procs
  PROVE  /\ Apart /\ Neat(p) /\ Windows(p) /\ Fetch(p) /\ Own(p) /\ Globals
         /\ Tidy(Around(p)) /\ \A c \in 1..Cols : crs[p][c].win \notin Waits(Around(p))
         /\ Waits(Around(p)) \subseteq Waits(Around(p)) \union OwnedBy(p)
         /\ pc[p] # "read" => hand[p] = NoBuf
         /\ pc[p] \in {"block", "get", "read", "served"} => rg[p] <= NumRGs
<1>1. Apart /\ Windows(p) /\ Fetch(p) /\ Own(p) /\ Globals
  BY Zenon DEF Buffers, Typed
<1>2. Neat(p)
  BY <1>1, Zenon DEF Apart
<1>3. pc[p] # "read" => hand[p] = NoBuf
  BY <1>1, Zenon DEF Fetch
<1>4. pc[p] \in {"block", "get", "read", "served"} => rg[p] <= NumRGs
  BY <1>1, ZenonT(40) DEF Fetch, Active
<1> QED BY <1>1, <1>2, <1>3, <1>4, Zenon DEF Neat

(* A process that gives no buffer away and takes none. *)
LEMMA SameBuffers ==
  ASSUME Typed, Buffers, NEW p \in Procs, pc[p] # "read", free' = free, pool' = pool, hand' = hand,
         \A c \in 1..Cols : crs'[p][c].win \in {NoBuf, crs[p][c].win}
  PROVE  Neat(p)' /\ Takes(p)
<1>1. Around(p).free = free'[p] /\ Around(p).pool = pool' /\ hand'[p] = NoBuf
  BY AroundFields, Holding, Zenon
<1>2. \A c \in 1..Cols : crs'[p][c].win # NoBuf => crs'[p][c].win \notin Waits(Around(p))
  BY Holding, Zenon
<1>3. Apart /\ Tidy(Around(p)) /\ Waits(Around(p)) \subseteq Waits(Around(p)) \union OwnedBy(p)
  BY Holding, Zenon
<1> QED BY <1>1, <1>2, <1>3, MoveStep, Zenon

(* A claim: every reader is new. *)
LEMMA ClaimKeeps ==
  ASSUME Typed, Buffers, NEW p \in Procs, Claim(p)
  PROVE  Keeps(p) /\ Globals'
<1>1. /\ pc[p] = "claim" /\ fsck' = fsck /\ damage' = damage /\ pool' = pool /\ cap' = cap
      /\ content' = content /\ free' = free /\ hand' = hand /\ need' = need /\ pass' = pass
      /\ vecs' = vecs /\ out' = out /\ errs' = errs /\ faults' = faults /\ hit' = hit
  BY ZenonT(40) DEF Claim
<1>2. /\ Windows(p) /\ Fetch(p) /\ Own(p) /\ Globals /\ hand[p] = NoBuf
  BY <1>1, Holding, Zenon
<1>3. CASE next > NumRGs
  <2>1. next' = next /\ rg' = rg /\ col' = col /\ crs' = crs /\ pc'[p] = "close"
    BY <1>3, Zenon DEF Claim, GoTo, Typed, OneEach
  <2>2. Neat(p)' /\ Takes(p)
    BY <1>1, <2>1, SameBuffers, Zenon
  <2>3. Windows(p)'
    BY <1>1, <1>2, <2>1, ZenonT(40) DEF Windows
  <2>4. Fetch(p)'
    BY <1>1, <1>2, <2>1, Zenon DEF Fetch, Active, Fetching
  <2>5. Own(p)'
    BY <1>1, <1>2, <2>1, Zenon DEF Own
  <2>6. Globals'
    BY <1>1, <1>2, <2>1, ZenonT(40) DEF Globals
  <2> QED BY <1>1, <2>2, <2>3, <2>4, <2>5, <2>6, TouchesNone, ZenonT(40) DEF Keeps
<1>4. CASE ~(next > NumRGs)
  <2>1. /\ next' = next + 1 /\ rg'[p] = next /\ col'[p] = 1 /\ pc'[p] = "block"
        /\ crs'[p] = [c \in 1..Cols |-> NewColumnReader]
    BY <1>4, Zenon DEF Claim, GoTo, Typed, OneEach
  <2>2. next \in 1..NumRGs /\ next' \in 1..(NumRGs + 1) /\ next \in 1..(NumRGs + 1) /\ next <= NumRGs
    BY <1>2, <1>4, <2>1, Constants DEF Globals
  <2>3. \A c \in 1..Cols : crs'[p][c].win = NoBuf
    BY <2>1, Readers, Zenon
  <2>4. Neat(p)' /\ Takes(p)
    BY <1>1, <2>3, SameBuffers, Zenon
  <2>5. Windows(p)'
    BY <2>3, Zenon DEF Windows
  <2>6. Fetch(p)'
    BY <1>1, <1>2, <2>1, <2>2, Zenon DEF Fetch, Fetching
  <2>7. crs'[p] \in [1..Cols -> ColumnReader] /\ 1 \in 1..Cols
    BY <2>1, Readers, Constants, Zenon
  <2>8. Own(p)'
    BY <1>1, <1>2, <2>1, <2>2, <2>7, Zenon DEF Own
  <2>9. Globals'
    BY <1>1, <1>2, <2>2, Zenon DEF Globals
  <2> QED BY <1>1, <2>4, <2>5, <2>6, <2>8, <2>9, TouchesNone, Zenon DEF Keeps
<1> QED BY <1>3, <1>4, Zenon

(* A cancelled scan moves no buffer. *)
LEMMA CancelledKeeps ==
  ASSUME Typed, Buffers, NEW p \in Procs, Cancelled(p)
  PROVE  Keeps(p) /\ Globals'
<1>1. /\ pc[p] = "block" /\ CountError(p) /\ fsck' = fsck /\ damage' = damage /\ next' = next
      /\ pool' = pool /\ cap' = cap /\ content' = content /\ free' = free /\ crs' = crs /\ hand' = hand
      /\ need' = need /\ rg' = rg /\ col' = col /\ pass' = pass /\ vecs' = vecs /\ out' = out
      /\ faults' = faults /\ hit' = hit
  BY ZenonT(40) DEF Cancelled
<1>2. /\ Windows(p) /\ Fetch(p) /\ Own(p) /\ Globals /\ hand[p] = NoBuf
  BY <1>1, Holding, Zenon
<1>3. pc'[p] = "close"
  BY Zenon DEF Cancelled, GoTo, Typed, OneEach
<1>4. Neat(p)' /\ Takes(p)
  BY <1>1, SameBuffers, Zenon
<1>5. Windows(p)'
  BY <1>1, <1>2, ZenonT(40) DEF Windows
<1>6. Fetch(p)'
  BY <1>1, <1>2, <1>3, Zenon DEF Fetch, Active, Fetching
<1>7. errs'[p] \in 0..MaxErrs
  BY <1>1, ErrorCounted, Zenon
<1>8. Own(p)'
  BY <1>1, <1>2, <1>3, <1>7, Zenon DEF Own
<1>9. Globals'
  BY <1>1, <1>2, Zenon DEF Globals
<1> QED BY <1>1, <1>4, <1>5, <1>6, <1>8, <1>9, TouchesNone, Zenon DEF Keeps

(* Every window given back, after a row group and at the end. *)
LEMMA AllClosed ==
  ASSUME Typed, Buffers, NEW p \in Procs
  PROVE  /\ Tidy(closeRowGroup(p, crs[p]))
         /\ Waits(closeRowGroup(p, crs[p])) \subseteq Waits(Around(p)) \union OwnedBy(p)
<1>1. /\ crs[p] \in [1..Cols -> ColumnReader] /\ Tidy(Around(p))
      /\ \A c \in 1..Cols : crs[p][c].win \notin Waits(Around(p))
      /\ \A c, d \in 1..Cols : crs[p][c].win = crs[p][d].win /\ crs[p][c].win # NoBuf => c = d
  BY TypedOf, Holding, Zenon DEF Neat
<1>2. /\ Tidy(closeRowGroup(p, crs[p]))
      /\ Waits(closeRowGroup(p, crs[p])) \subseteq Waits(Around(p)) \union {crs[p][c].win : c \in 1..Cols}
  BY <1>1, GroupClosed, Zenon DEF Around
<1>3. {crs[p][c].win : c \in 1..Cols} \subseteq OwnedBy(p)
  BY Zenon DEF OwnedBy
<1> QED BY <1>2, <1>3, Zenon

(* The end of a section: a scan gives its windows up, fsck its one. *)
LEMMA EndKeeps ==
  ASSUME Typed, Buffers, NEW p \in Procs, EndOfSection(p)
  PROVE  Keeps(p) /\ Globals'
<1>1. /\ pc[p] = "block" /\ fsck' = fsck /\ damage' = damage /\ next' = next
      /\ cap' = cap /\ content' = content /\ hand' = hand /\ need' = need /\ out' = out
      /\ faults' = faults /\ hit' = hit
  BY ZenonT(40) DEF EndOfSection
<1>2. /\ Apart /\ Windows(p) /\ Fetch(p) /\ Own(p) /\ Globals /\ hand[p] = NoBuf /\ rg[p] <= NumRGs
      /\ Tidy(Around(p)) /\ Waits(Around(p)) \subseteq Waits(Around(p)) \union OwnedBy(p)
      /\ \A c \in 1..Cols : crs[p][c].win \notin Waits(Around(p))
  BY <1>1, Holding, Zenon
<1>3. ASSUME pool' \in [Bufs -> Nat] PROVE Globals'
  BY <1>1, <1>2, <1>3, Zenon DEF Globals
<1>4. CASE p \in fsck
  <2>1. LeaveColumn(p, Cr(p), Around(p)) /\ (CountError(p) \/ errs' = errs)
    BY <1>4, Zenon DEF EndOfSection, Around
  <2>2. errs'[p] \in 0..MaxErrs
    BY <1>2, <2>1, ErrorCounted, Zenon DEF Own
  <2>3. Cr(p).win \notin Waits(Around(p))
    BY <1>2, TypedOf, Zenon DEF Cr
  <2>4. hand'[p] = NoBuf /\ need'[p] \in Nat
    BY <1>1, <1>2, TypedOf, Zenon
  <2>5. Keeps(p) /\ pool' \in [Bufs -> Nat]
    BY <1>1, <1>2, <2>1, <2>2, <2>3, <2>4, LeaveKeeps, Zenon
  <2> QED BY <1>3, <2>5, Zenon
<1>5. CASE p \notin fsck
  <2> DEFINE w == closeRowGroup(p, crs[p])
  <2>1. /\ SetWaiting(p, w) /\ crs'[p] = [c \in 1..Cols |-> ClosedCr(crs[p][c])]
        /\ vecs'[p] = <<>> /\ pc'[p] = "claim" /\ rg' = rg /\ col' = col /\ pass' = pass /\ errs' = errs
    BY <1>5, Zenon DEF EndOfSection, GoTo, Typed, OneEach
  <2>2. Tidy(w) /\ Waits(w) \subseteq Waits(Around(p)) \union OwnedBy(p)
    BY AllClosed, Zenon
  <2> HIDE DEF w
  <2>3. free'[p] = w.free /\ pool' = w.pool
    BY <2>1, Zenon DEF SetWaiting, Typed, OneEach
  <2>4. crs'[p] \in [1..Cols -> ColumnReader] /\ \A c \in 1..Cols : crs'[p][c].win = NoBuf
    <3>1. \A c \in 1..Cols : ClosedCr(crs[p][c]) \in ColumnReader /\ ClosedCr(crs[p][c]).win = NoBuf
      BY TypedOf, Readers, ZenonT(40)
    <3> QED BY <2>1, <3>1, Zenon
  <2>5. Neat(p)' /\ Takes(p)
    BY <1>1, <1>2, <2>2, <2>3, <2>4, MoveStep, ZenonT(40)
  <2>6. Windows(p)'
    BY <2>4, ZenonT(40) DEF Windows
  <2>7. Fetch(p)'
    BY <1>1, <1>2, <2>1, Zenon DEF Fetch, Active, Fetching
  <2>8. free'[p] \in Seq(Bufs) /\ Len(free'[p]) <= MaxPooled /\ pool' \in [Bufs -> Nat]
    BY <2>2, <2>3, Zenon DEF Tidy
  <2>9. vecs'[p] \in Seq(Block)
    BY <2>1
  <2>10. Own(p)'
    BY <1>1, <1>2, <2>1, <2>4, <2>8, <2>9, ZenonT(40) DEF Own
  <2> QED BY <1>1, <1>3, <2>5, <2>6, <2>7, <2>8, <2>10, TouchesNone, ZenonT(40) DEF Keeps
<1> QED BY <1>4, <1>5, Zenon

(* Closing gives up the windows, then the free list. *)
LEMMA CloseKeeps ==
  ASSUME Typed, Buffers, NEW p \in Procs, CloseReader(p)
  PROVE  Keeps(p) /\ Globals'
<1> DEFINE w == closeRowGroup(p, crs[p])
           pl == drained(w)
           v == Waiting(<<>>, pl)
<1>1. /\ pc[p] = "close" /\ fsck' = fsck /\ damage' = damage /\ next' = next /\ cap' = cap
      /\ content' = content /\ hand' = hand /\ need' = need /\ rg' = rg /\ col' = col /\ pass' = pass
      /\ vecs' = vecs /\ out' = out /\ errs' = errs /\ faults' = faults /\ hit' = hit /\ pool' = pl
  BY ZenonT(40) DEF CloseReader
<1>2. free'[p] = <<>> /\ pc'[p] = "closed" /\ crs'[p] = [c \in 1..Cols |-> ClosedCr(crs[p][c])]
  BY Zenon DEF CloseReader, GoTo, Typed, OneEach
<1>3. /\ Apart /\ Windows(p) /\ Fetch(p) /\ Own(p) /\ Globals /\ hand[p] = NoBuf
  BY <1>1, Holding, Zenon
<1>4. Tidy(w) /\ Waits(w) \subseteq Waits(Around(p)) \union OwnedBy(p)
  BY AllClosed, Zenon
<1> HIDE DEF w
<1>5. pl \in [Bufs -> Nat] /\ \A b \in Bufs : pl[b] <= 1 /\ (pl[b] = 1 => b \in Waits(w))
  BY <1>4, Drained, Zenon
<1> HIDE DEF pl
<1>6. v.free = <<>> /\ v.pool = pl
  BY Zenon DEF Waiting
<1> HIDE DEF v
<1>7. Tidy(v) /\ Waits(v) \subseteq Waits(w)
  <2>1. <<>> \in Seq(Bufs) /\ Len(<<>>) = 0 /\ 0 <= MaxPooled /\ 1..0 = {}
    BY ScanAssumption
  <2> QED BY <1>5, <1>6, <2>1, Zenon DEF Tidy, Waits
<1>8. crs'[p] \in [1..Cols -> ColumnReader] /\ \A c \in 1..Cols : crs'[p][c].win = NoBuf
  <2>1. \A c \in 1..Cols : ClosedCr(crs[p][c]) \in ColumnReader /\ ClosedCr(crs[p][c]).win = NoBuf
    BY TypedOf, Readers, Zenon
  <2> QED BY <1>2, <2>1, Zenon
<1>9. Neat(p)' /\ Takes(p)
  <2>1. Waits(v) \subseteq Waits(Around(p)) \union OwnedBy(p)
    BY <1>4, <1>7, ZenonT(40)
  <2>2. free'[p] = v.free /\ pool' = v.pool /\ hand'[p] = NoBuf
    BY <1>1, <1>2, <1>3, <1>6, Zenon
  <2> QED BY <1>3, <1>7, <1>8, <2>1, <2>2, MoveStep, ZenonT(40)
<1>10. Windows(p)'
  BY <1>8, Zenon DEF Windows
<1>11. Fetch(p)'
  BY <1>1, <1>2, <1>3, ZenonT(40) DEF Fetch, Active, Fetching
<1>12. free'[p] \in Seq(Bufs) /\ Len(free'[p]) <= MaxPooled
  BY <1>2, ScanAssumption
<1>13. Own(p)'
  BY <1>1, <1>2, <1>3, <1>8, <1>12, Zenon DEF Own
<1>14. Globals'
  BY <1>1, <1>3, <1>5, Zenon DEF Globals
<1> QED BY <1>1, <1>9, <1>10, <1>11, <1>13, <1>14, TouchesNone, ZenonT(40) DEF Keeps

(* A reader that counts, or moves, and keeps its window. *)
LEMMA SameWindow ==
  ASSUME Typed, NEW p \in Procs
  PROVE  /\ \A k \in BlockNumbers : LET cr == [Cr(p) EXCEPT !.done = k]
              IN /\ cr \in ColumnReader /\ cr.done = k /\ cr.pos = Cr(p).pos
                 /\ cr.win = Cr(p).win /\ cr.start = Cr(p).start /\ cr.len = Cr(p).len
         /\ LET cr == [Cr(p) EXCEPT !.pos = @ + need[p]]
            IN /\ cr \in ColumnReader /\ cr.done = Cr(p).done /\ cr.pos = Cr(p).pos + need[p]
               /\ cr.win = Cr(p).win /\ cr.start = Cr(p).start /\ cr.len = Cr(p).len
<1>1. Cr(p) \in ColumnReader /\ need[p] \in Nat
  BY TypedOf, Zenon
<1>2. Cr(p).pos + need[p] \in Nat
  BY <1>1 DEF ColumnReader
<1> QED BY <1>1, <1>2, Zenon DEF ColumnReader

(* A block is counted, then its window asked for. *)
LEMMA NextBlockKeeps ==
  ASSUME Typed, Buffers, NEW p \in Procs, NextBlock(p)
  PROVE  Keeps(p) /\ Globals'
<1> DEFINE k == Cr(p).done + 1
           cr == [Cr(p) EXCEPT !.done = k]
           n == IF col[p] \in Bools THEN 1 ELSE Sizes[col[p]][rg[p]][k]
<1>1. /\ pc[p] = "block" /\ Cr(p).done < NumBlocks(rg[p]) /\ window(p, cr, n) /\ fsck' = fsck
      /\ damage' = damage /\ next' = next /\ cap' = cap /\ content' = content /\ faults' = faults
      /\ hit' = hit
  BY Zenon DEF NextBlock
<1>2. Globals /\ hand[p] = NoBuf /\ rg[p] <= NumRGs
  BY <1>1, Holding, Zenon
<1>3. rg[p] \in 1..NumRGs /\ col[p] \in 1..Cols /\ NumBlocks(rg[p]) \in Nat
  BY <1>2, TypedOf, Constants
<1>4. \A g \in 1..NumRGs : \A j \in 1..NumBlocks(g) : j \in BlockNumbers /\ j \in Nat
  BY Constants DEF BlockNumbers
<1>5. Cr(p).done \in Nat
  <2>1. Cr(p).done \in BlockNumbers \union {0}
    BY TypedOf, Zenon DEF ColumnReader
  <2> QED BY <2>1, Constants DEF BlockNumbers
<1>6. k \in 1..NumBlocks(rg[p])
  BY <1>1, <1>3, <1>5, SMTT(60)
<1>7. n \in Nat /\ n >= 1
  <2>1. Sizes[col[p]][rg[p]][k] \in Nat /\ Sizes[col[p]][rg[p]][k] > 0
    BY <1>3, <1>6, Constants, Zenon
  <2> HIDE DEF k
  <2> QED BY <2>1
<1>8. k \in BlockNumbers
  BY <1>3, <1>4, <1>6, Zenon
<1> HIDE DEF k, n
<1>9. /\ cr \in ColumnReader /\ cr.done = k /\ cr.pos = Cr(p).pos
      /\ cr.win = Cr(p).win /\ cr.start = Cr(p).start /\ cr.len = Cr(p).len
  BY <1>8, SameWindow, Zenon
<1> HIDE DEF cr
<1>10. cr.done \in 1..NumBlocks(rg[p])
  BY <1>6, <1>9, Zenon
<1>11. Keeps(p) /\ pool' \in [Bufs -> Nat]
  BY <1>1, <1>2, <1>7, <1>9, <1>10, WindowKeeps, Zenon
<1>12. Globals'
  BY <1>1, <1>2, <1>11, ZenonT(40) DEF Globals
<1> QED BY <1>11, <1>12, Zenon

(* A buffer of the class of n is large enough for n: one that is made, and *)
(* one that is found in the pool.                                          *)
LEMMA ClassFits ==
  ASSUME NEW n \in Nat
  PROVE  /\ bufClassOf(n) \in Nat
         /\ bufClassOf(n) # 0 => bufClassOf(n) * ClassBytes \in Nat /\ bufClassOf(n) * ClassBytes >= n
         /\ \A m \in Nat : bufClassOf(n) # 0 /\ poolClassOf(m) = bufClassOf(n) => m >= n
<1> DEFINE C == ClassBytes
           a == n + C - 1
           d == a \div C
<1>1. C \in Nat \ {0} /\ MaxPrefetch \in Nat
  BY ScanAssumption, Zenon
<1>2. a \in Nat
  BY <1>1
<1>3. bufClassOf(n) = 0 \/ bufClassOf(n) = d
  BY Zenon DEF bufClassOf
<1>4. d \in Nat /\ a < C * (d + 1)
  <2> HIDE DEF a, C
  <2> QED BY <1>1, <1>2
<1>5. ASSUME NEW m \in Nat, poolClassOf(m) = d, d # 0 PROVE C * d <= m
  <2> HIDE DEF d
  <2>1. m \div C = d
    BY <1>5, Zenon DEF poolClassOf
  <2> HIDE DEF C
  <2>2. C * (m \div C) <= m
    BY <1>1
  <2> QED BY <2>1, <2>2, Zenon
<1> HIDE DEF C, d
<1>6. C * (d + 1) = C * d + C /\ C * d \in Nat /\ d * C = C * d
  BY <1>1, <1>4
<1>7. d * C \in Nat /\ d * C >= n
  BY <1>1, <1>4, <1>6
<1>8. ASSUME NEW m \in Nat, d # 0, poolClassOf(m) = d PROVE m >= n
  BY <1>5, <1>6, <1>7, <1>8
<1> QED BY <1>3, <1>4, <1>7, <1>8 DEF C

(* A buffer from the pool, or a new one. *)
LEMMA GetSharedKeeps ==
  ASSUME Typed, Buffers, NEW p \in Procs, GetShared(p)
  PROVE  Keeps(p) /\ Globals'
<1> DEFINE n == Want(p, Cr(p), need[p])
           cl == bufClassOf(n)
           None == [g |-> 0, c |-> 0, from |-> 0, len |-> 0]
           FromPool(b) == /\ pool[b] > 0 /\ cl # 0 /\ poolClassOf(cap[b]) = cl
                          /\ pool' = [pool EXCEPT ![b] = @ - 1] /\ cap' = cap /\ content' = content
           Made(b) == /\ ~Held(b) /\ pool' = pool /\ content' = [content EXCEPT ![b] = None]
                      /\ cap' = [cap EXCEPT ![b] = IF cl = 0 THEN n ELSE cl * ClassBytes]
<1>1. /\ pc[p] = "get" /\ fsck' = fsck /\ damage' = damage /\ next' = next /\ free' = free
      /\ crs' = crs /\ need' = need /\ rg' = rg /\ col' = col /\ pass' = pass
      /\ vecs' = vecs /\ out' = out /\ errs' = errs /\ faults' = faults /\ hit' = hit
  BY Zenon DEF GetShared
<1>2. PICK b \in Bufs : hand' = [hand EXCEPT ![p] = b] /\ (FromPool(b) \/ Made(b))
  BY ZenonT(40) DEF GetShared
<1>3. pc'[p] = "read" /\ hand'[p] = b /\ b # NoBuf
  BY <1>2, Constants, Zenon DEF GetShared, GoTo, Typed, OneEach
<1>4. /\ Apart /\ Windows(p) /\ Fetch(p) /\ Own(p) /\ Globals /\ hand[p] = NoBuf /\ rg[p] <= NumRGs
      /\ Tidy(Around(p)) /\ \A c \in 1..Cols : crs[p][c].win \notin Waits(Around(p))
      /\ Waits(Around(p)) \subseteq Waits(Around(p)) \union OwnedBy(p)
  BY <1>1, Holding, Zenon
<1>5. n \in Nat
  BY <1>4, TypedOf, WantTyped, Zenon
<1>6. Want(p, Cr(p), need[p])' = n /\ Cr(p)' = Cr(p) /\ \A c, g : End(c, g)' = End(c, g)
  <2>1. Cr(p)' = Cr(p)
    BY <1>1, Zenon DEF Cr
  <2>2. \A c, g : End(c, g)' = End(c, g)
    BY <1>1, Zenon DEF End
  <2> QED BY <1>1, <2>1, <2>2, Zenon DEF Want
<1> HIDE DEF n
<1>7. ASSUME cap'[b] >= n PROVE Fetch(p)'
  <2>1. pc[p] \in Active /\ pc[p] \in Fetching
    BY <1>1, Zenon DEF Active, Fetching
  <2> QED BY <1>1, <1>3, <1>4, <1>6, <1>7, <2>1, ZenonT(40) DEF Fetch
<1>8. Own(p)'
  BY <1>1, <1>3, <1>4, Zenon DEF Own
<1>9. Around(p).free = free[p] /\ Around(p).pool = pool /\ \A c \in 1..Cols : crs[p][c].win \in OwnedBy(p)
  BY AroundFields, Zenon DEF OwnedBy
<1>10. CASE FromPool(b)
  <2> DEFINE w == Waiting(free[p], pool')
  <2>1. w.free = free[p] /\ w.pool = pool'
    BY Zenon DEF Waiting
  <2>2. pool \in [Bufs -> Nat] /\ pool[b] = 1
    BY <1>4, <1>9, <1>10 DEF Tidy
  <2>3. pool' \in [Bufs -> Nat] /\ pool'[b] = 0 /\ \A x \in Bufs : x # b => pool'[x] = pool[x]
    BY <1>10, <2>2
  <2>4. b \in Waits(Around(p))
    BY <1>9, <2>2, ZenonT(40) DEF Waits
  <2>5. \A i \in 1..Len(free[p]) : free[p][i] # b /\ free[p][i] \in Bufs /\ pool[free[p][i]] = 0
    BY <1>4, <1>9, <2>2, SMTT(60) DEF Tidy
  <2> HIDE DEF w, FromPool, Made
  <2>6. Tidy(w)
    <3>1. \A x \in Bufs : pool'[x] <= 1
      BY <1>4, <1>9, <2>3 DEF Tidy
    <3>2. \A i \in 1..Len(free[p]) : pool'[free[p][i]] = 0
      BY <2>3, <2>5, ZenonT(40)
    <3>3. /\ free[p] \in Seq(Bufs) /\ Len(free[p]) <= MaxPooled
          /\ \A i, j \in 1..Len(free[p]) : free[p][i] = free[p][j] => i = j
      BY <1>4, <1>9, ZenonT(40) DEF Tidy
    <3> QED BY <2>1, <2>3, <3>1, <3>2, <3>3, SMTT(60) DEF Tidy
  <2>7. Waits(w) \subseteq Waits(Around(p)) /\ b \notin Waits(w)
    BY <1>9, <2>1, <2>3, <2>5 DEF Waits
  <2>8. Neat(p)' /\ Takes(p)
    <3>1. Waits(w) \subseteq Waits(Around(p)) \union OwnedBy(p)
      BY <2>7, Zenon
    <3>2. free'[p] = w.free /\ pool' = w.pool
      BY <1>1, <2>1, Zenon
    <3>3. \A c \in 1..Cols : crs'[p][c].win \in {NoBuf, crs[p][c].win} /\ crs'[p][c].win \notin Waits(w)
      BY <1>1, <1>4, <2>7, Zenon
    <3>4. hand'[p] \notin Waits(w) /\ \A c \in 1..Cols : crs'[p][c].win # hand'[p]
      BY <1>1, <1>3, <1>4, <2>4, <2>7, Zenon
    <3>5. hand'[p] \in OwnedBy(p) \union Waits(Around(p))
      BY <1>3, <2>4, Zenon
    <3> QED BY <1>4, <2>6, <3>1, <3>2, <3>3, <3>4, <3>5, MoveStep, Zenon
  <2>9. cap'[b] >= n
    <3>1. cap[b] \in Nat
      BY TypedOf, Zenon
    <3> QED BY <1>5, <1>10, <3>1, ClassFits, Zenon DEF FromPool
  <2>10. cap' = cap /\ content' = content
    BY <1>10, Zenon DEF FromPool
  <2>11. Windows(p)'
    BY <1>1, <1>4, <2>10, Zenon DEF Windows
  <2>12. Globals'
    BY <1>1, <1>4, <2>3, <2>10, Zenon DEF Globals
  <2> QED BY <1>7, <1>8, <2>8, <2>9, <2>10, <2>11, <2>12, TouchesNone, ZenonT(40) DEF Keeps
<1>11. CASE Made(b)
  <2>1. cap \in [Bufs -> Nat] /\ content \in [Bufs -> FileRange]
    BY <1>4, Zenon DEF Globals
  <2> DEFINE size == IF cl = 0 THEN n ELSE cl * ClassBytes
  <2>2. size \in Nat /\ size >= n
    BY <1>5, ClassFits
  <2>3. None \in FileRange
    BY Constants DEF FileRange
  <2> HIDE DEF size, None
  <2>4. /\ ~Held(b) /\ pool' = pool /\ content' = [content EXCEPT ![b] = None]
        /\ cap' = [cap EXCEPT ![b] = size]
    BY <1>11, Zenon DEF size
  <2> HIDE DEF FromPool, Made
  <2>5. /\ cap' \in [Bufs -> Nat] /\ cap'[b] = size /\ content' \in [Bufs -> FileRange]
        /\ \A x \in Bufs : x # b => cap'[x] = cap[x] /\ content'[x] = content[x]
    BY <2>1, <2>2, <2>3, <2>4, Zenon
  <2>6. b \notin OwnedBy(p) /\ b \notin Waits(Around(p))
    <3>1. b \notin OwnedBy(p)
      BY <1>3, <1>4, <2>4, Places, ZenonT(40)
    <3>2. pool[b] # 1
      BY <2>4 DEF Held
    <3> QED BY <1>4, <3>1, <3>2, Places, Zenon
  <2>7. Neat(p)' /\ Takes(p)
    <3>1. free'[p] = Around(p).free /\ pool' = Around(p).pool
      BY <1>1, <1>9, <2>4, Zenon
    <3>2. \A c \in 1..Cols : /\ crs'[p][c].win \in {NoBuf, crs[p][c].win}
                             /\ crs'[p][c].win \notin Waits(Around(p))
      BY <1>1, <1>4, Zenon
    <3>3. /\ hand'[p] \notin Waits(Around(p)) /\ \A c \in 1..Cols : crs'[p][c].win # hand'[p]
          /\ ~Held(hand'[p])
      BY <1>1, <1>3, <1>9, <2>4, <2>6, ZenonT(40)
    <3> QED BY <1>4, <3>1, <3>2, <3>3, MoveStep, Zenon
  <2>8. Windows(p)'
    <3>1. \A c \in 1..Cols : crs[p][c].win \in Bufs \union {NoBuf} /\ crs[p][c].win # b
      BY <1>9, <2>6, TypedOf, Zenon
    <3> QED BY <1>1, <1>4, <2>5, <3>1, ZenonT(40) DEF Windows
  <2>9. Fetch(p)'
    BY <1>7, <2>2, <2>5, Zenon
  <2>10. Touches(p)
    BY <2>4, <2>5, Zenon DEF Touches
  <2>11. Globals'
    BY <1>1, <1>4, <2>4, <2>5, Zenon DEF Globals
  <2> QED BY <1>8, <2>7, <2>8, <2>9, <2>10, <2>11, ZenonT(40) DEF Keeps
<1> QED BY <1>2, <1>10, <1>11, Zenon

(* The buffer in hand becomes the window, with what was read into it. *)
LEMMA ReadAtKeeps ==
  ASSUME Typed, Buffers, NEW p \in Procs, ReadAt(p)
  PROVE  Keeps(p) /\ Globals'
<1> DEFINE h == hand[p]
           n == Want(p, Cr(p), need[p])
           x == [g |-> rg[p], c |-> col[p], from |-> Cr(p).pos, len |-> n]
           new == [Cr(p) EXCEPT !.win = h, !.start = Cr(p).pos, !.len = n]
<1>1. /\ pc[p] = "read" /\ fsck' = fsck /\ damage' = damage /\ next' = next /\ pool' = pool
      /\ cap' = cap /\ free' = free /\ need' = need /\ rg' = rg /\ col' = col /\ pass' = pass
      /\ vecs' = vecs /\ out' = out /\ errs' = errs /\ faults' = faults /\ hit' = hit
      /\ content' = [content EXCEPT ![h] = x] /\ SetCr(p, new)
  BY Zenon DEF ReadAt
<1>2. hand'[p] = NoBuf /\ pc'[p] = "served"
  BY Zenon DEF ReadAt, GoTo, Typed, OneEach
<1>3. /\ Apart /\ Neat(p) /\ Windows(p) /\ Fetch(p) /\ Own(p) /\ Globals /\ rg[p] <= NumRGs
  BY <1>1, Holding, Zenon
<1>4. h # NoBuf /\ h \in Bufs /\ cap[h] >= n
  BY <1>1, <1>3, TypedOf, ZenonT(40) DEF Fetch
<1>5. n \in Nat /\ Cr(p) \in ColumnReader /\ col[p] \in 1..Cols /\ rg[p] \in 1..NumRGs
  <2>1. Cr(p) \in ColumnReader /\ need[p] \in Nat /\ col[p] \in 1..Cols /\ rg[p] \in 1..(NumRGs + 1)
    BY TypedOf, Zenon
  <2>2. n \in Nat
    BY <1>3, <2>1, WantTyped, ZenonT(40)
  <2> HIDE DEF n
  <2> QED BY <1>3, <2>1, <2>2, Constants
<1> HIDE DEF h, n
<1>6. x \in FileRange
  BY <1>5, Constants DEF ColumnReader, FileRange
<1>7. /\ new \in ColumnReader /\ new.win = h /\ new.start = Cr(p).pos /\ new.len = n
      /\ new.pos = Cr(p).pos /\ new.done = Cr(p).done
  BY <1>4, <1>5, Zenon DEF ColumnReader
<1> HIDE DEF new
<1>8. /\ crs'[p] \in [1..Cols -> ColumnReader] /\ crs'[p][col[p]] = new
      /\ \A c \in 1..Cols : c # col[p] => crs'[p][c] = crs[p][c]
  BY <1>1, <1>7, ReaderSet, Zenon
<1>9. /\ content' \in [Bufs -> FileRange] /\ content'[h] = x
      /\ \A b \in Bufs : b # h => content'[b] = content[b]
  <2>1. content \in [Bufs -> FileRange]
    BY <1>3, Zenon DEF Globals
  <2> HIDE DEF x
  <2> QED BY <1>1, <1>4, <1>6, <2>1, Zenon
<1>10. Around(p)' = Around(p)
  BY <1>1, Zenon DEF Around
<1>11. h \in OwnedBy(p)
  BY Zenon DEF OwnedBy, h
<1>12. /\ h \notin Waits(Around(p)) /\ \A c \in 1..Cols : crs[p][c].win # h
  BY <1>3, <1>4, Zenon DEF Neat, h
<1>13. Neat(p)'
  <2>1. \A c \in 1..Cols : crs'[p][c].win \notin Waits(Around(p))
    <3> SUFFICES ASSUME NEW c \in 1..Cols PROVE crs'[p][c].win \notin Waits(Around(p))
      BY ZenonT(40)
    <3>1. CASE c = col[p]
      BY <1>7, <1>8, <1>12, <3>1, Zenon
    <3>2. CASE c # col[p]
      BY <1>3, <1>8, <3>2, Zenon DEF Neat
    <3> QED BY <3>1, <3>2, Zenon
  <2>2. NoBuf \notin Waits(Around(p))
    BY <1>3, Places, Zenon
  <2>3. ASSUME NEW c \in 1..Cols, NEW d \in 1..Cols, crs'[p][c].win = crs'[p][d].win,
               crs'[p][c].win # NoBuf
        PROVE  c = d
    <3>1. \A e \in 1..Cols : e # col[p] => crs'[p][e] = crs[p][e] /\ crs[p][e].win # h
      BY <1>8, <1>12, ZenonT(40)
    <3>2. crs'[p][col[p]].win = h
      BY <1>7, <1>8, Zenon
    <3>3. CASE c = col[p] \/ d = col[p]
      BY <2>3, <3>1, <3>2, <3>3, Zenon
    <3>4. CASE c # col[p] /\ d # col[p]
      <4>1. crs[p][c].win = crs[p][d].win /\ crs[p][c].win # NoBuf
        BY <2>3, <3>1, <3>4, Zenon
      <4> QED BY <1>3, <4>1, ZenonT(40) DEF Neat
    <3> QED BY <3>3, <3>4, Zenon
  <2>4. Tidy(Around(p))
    BY <1>3, Zenon DEF Neat
  <2> QED BY <1>2, <1>10, <2>1, <2>2, <2>3, <2>4, ZenonT(40) DEF Neat
<1>14. Takes(p)
  <2>1. ASSUME NEW b \in Bufs, b \in OwnedBy(p)' PROVE b \in OwnedBy(p)
    <3>1. CASE \E i \in 1..Len(free[p]) : b = free[p][i]
      BY <3>1, Zenon DEF OwnedBy
    <3>2. CASE \E c \in 1..Cols : b = crs'[p][c].win
      <4>1. PICK c \in 1..Cols : b = crs'[p][c].win
        BY <3>2, Zenon
      <4>2. CASE c = col[p]
        BY <1>7, <1>8, <1>11, <4>1, <4>2, Zenon
      <4>3. CASE c # col[p]
        <5>1. b = crs[p][c].win
          BY <1>8, <4>1, <4>3, Zenon
        <5> QED BY <5>1, ZenonT(40) DEF OwnedBy
      <4> QED BY <4>2, <4>3, Zenon
    <3>3. b # hand'[p]
      BY <1>2, Constants, Zenon
    <3> QED BY <1>1, <2>1, <3>1, <3>2, <3>3, Zenon DEF OwnedBy
  <2> QED BY <1>10, <2>1, Zenon DEF Takes
<1>15. Touches(p)
  BY <1>1, <1>9, <1>11, ZenonT(40) DEF Touches
<1>16. Windows(p)'
  <2> SUFFICES ASSUME NEW c \in 1..Cols, crs'[p][c].win # NoBuf
               PROVE  /\ crs'[p][c].len <= cap[crs'[p][c].win]
                      /\ content'[crs'[p][c].win] = [g |-> rg[p], c |-> c, from |-> crs'[p][c].start,
                                                     len |-> crs'[p][c].len]
    BY <1>1, ZenonT(40) DEF Windows
  <2>1. CASE c = col[p]
    <3>1. crs'[p][c].win = h /\ crs'[p][c].start = Cr(p).pos /\ crs'[p][c].len = n
      BY <1>7, <1>8, <2>1, Zenon
    <3>2. n <= cap[h]
      BY <1>4, <1>5, TypedOf, Zenon
    <3> QED BY <1>9, <2>1, <3>1, <3>2, ZenonT(40)
  <2>2. CASE c # col[p]
    <3>1. crs'[p][c] = crs[p][c] /\ crs[p][c].win # h
      BY <1>8, <1>12, <2>2, ZenonT(40)
    <3>2. crs[p][c].win \in Bufs
      BY <3>1, TypedOf
    <3>3. content'[crs[p][c].win] = content[crs[p][c].win]
      BY <1>9, <3>1, <3>2, ZenonT(40)
    <3> QED BY <1>3, <3>1, <3>3, Zenon DEF Windows
  <2> QED BY <2>1, <2>2, Zenon
<1>17. Fetch(p)'
  <2>1. Cr(p)' = new /\ col'[p] = col[p] /\ rg'[p] = rg[p] /\ need'[p] = need[p]
    BY <1>1, <1>8, Zenon DEF Cr
  <2>2. \A c, g : End(c, g)' = End(c, g)
    BY <1>1, ZenonT(40) DEF End
  <2>3. /\ need[p] >= 1 /\ Cr(p).pos + need[p] <= End(col[p], rg[p])
        /\ Cr(p).done \in 1..NumBlocks(rg[p])
    BY <1>1, <1>3, Zenon DEF Fetch, Fetching
  <2> QED BY <1>2, <1>3, <1>4, <1>7, <2>1, <2>2, <2>3, Zenon DEF Fetch
<1>18. Own(p)'
  <2>1. hand'[p] \in Bufs \union {NoBuf}
    BY <1>2, Zenon
  <2> QED BY <1>1, <1>2, <1>3, <1>8, <2>1, Zenon DEF Own
<1>19. Globals'
  BY <1>1, <1>3, <1>9, Zenon DEF Globals
<1> QED BY <1>13, <1>14, <1>15, <1>16, <1>17, <1>18, <1>19, ZenonT(40) DEF Keeps

(* The buffer in hand is given back. *)
LEMMA ReadFailsKeeps ==
  ASSUME Typed, Buffers, NEW p \in Procs, ReadFails(p)
  PROVE  Keeps(p) /\ Globals'
<1> DEFINE h == hand[p]
           w == releaseBuf(Around(p), h)
<1>1. /\ pc[p] = "read" /\ faults < MaxFaults /\ faults' = faults + 1 /\ hit' = hit \union {p}
      /\ Fails(p, Cr(p), w) /\ fsck' = fsck /\ damage' = damage /\ next' = next /\ cap' = cap
      /\ content' = content
  BY ZenonT(40) DEF ReadFails, Around
<1>2. /\ Neat(p) /\ Fetch(p) /\ Globals /\ rg[p] <= NumRGs /\ Tidy(Around(p))
      /\ \A c \in 1..Cols : crs[p][c].win \notin Waits(Around(p))
  BY <1>1, Holding, Zenon
<1>3. /\ h # NoBuf /\ h \in Bufs \union {NoBuf} /\ h \notin Waits(Around(p)) /\ h \in OwnedBy(p)
      /\ \A c \in 1..Cols : crs[p][c].win # h
  BY <1>1, <1>2, TypedOf, Zenon DEF Fetch, Neat, OwnedBy
<1> HIDE DEF h
<1>4. Tidy(w) /\ Waits(w) \subseteq Waits(Around(p)) \union {h}
  BY <1>2, <1>3, Released, Zenon
<1> HIDE DEF w
<1>5. Waits(w) \subseteq Waits(Around(p)) \union OwnedBy(p)
  BY <1>3, <1>4, Zenon
<1>6. \A c \in 1..Cols : crs[p][c].win \notin Waits(w)
  BY <1>2, <1>3, <1>4, Zenon
<1>7. Cr(p) \in ColumnReader
  BY TypedOf, Zenon
<1>8. Keeps(p) /\ pool' \in [Bufs -> Nat]
  BY <1>1, <1>2, <1>4, <1>5, <1>6, <1>7, FailsKeeps, ZenonT(40)
<1>9. faults' \in 0..MaxFaults
  BY <1>1, <1>2, ScanAssumption DEF Globals
<1>10. Globals'
  BY <1>1, <1>2, <1>8, <1>9, Zenon DEF Globals
<1> QED BY <1>8, <1>10, Zenon

(* What the reader finds in its window is the block of its own column and  *)
(* row group that begins where it looks.                                   *)
LEMMA FoundHere ==
  ASSUME Typed, Buffers, NEW p \in Procs, pc[p] = "served", NEW b \in Found(p)
  PROVE  /\ b = [g |-> rg[p], c |-> col[p], k |-> b.k] /\ b \in Block
         /\ b.k \in 1..NumBlocks(rg[p]) /\ Offset(col[p], rg[p], b.k) = Cr(p).pos
         /\ Size(b) \in Nat /\ Size(b) > 0
<1> DEFINE cr == Cr(p)
           x == content[cr.win]
           at == x.from + cr.pos - cr.start
<1>1. Windows(p) /\ Fetch(p) /\ rg[p] <= NumRGs
  BY Holding, ZenonT(40)
<1>2. rg[p] \in 1..NumRGs /\ col[p] \in 1..Cols /\ crs[p][col[p]] = cr
  BY <1>1, TypedOf, Constants DEF Cr
<1>3. cr.win # NoBuf
  BY <1>1, Zenon DEF Fetch
<1>4. x = [g |-> rg[p], c |-> col[p], from |-> cr.start, len |-> cr.len]
  BY <1>1, <1>2, <1>3, ZenonT(40) DEF Windows
<1>5. cr.pos \in Nat /\ cr.start \in Nat
  BY TypedOf, Zenon DEF ColumnReader
<1>6. x.g = rg[p] /\ x.c = col[p] /\ x.from = cr.start
  BY <1>4, SMTT(60)
<1>7. at = cr.pos
  BY <1>5, <1>6
<1>8. PICK k \in 1..NumBlocks(x.g) : Offset(x.c, x.g, k) = at /\ b = [g |-> x.g, c |-> x.c, k |-> k]
  <2>1. Found(p) = IF x.g = 0 \/ at + need[p] > x.from + x.len THEN {}
                   ELSE {[g |-> x.g, c |-> x.c, k |-> k] :
                           k \in {j \in 1..NumBlocks(x.g) : Offset(x.c, x.g, j) = at}}
    BY Zenon DEF Found
  <2> HIDE DEF x, at
  <2> QED BY <2>1, Zenon
<1> HIDE DEF x, at, cr
<1>9. k \in 1..NumBlocks(rg[p]) /\ Offset(col[p], rg[p], k) = cr.pos /\ b = [g |-> rg[p], c |-> col[p], k |-> k]
  BY <1>6, <1>7, <1>8, ZenonT(40)
<1>10. b.k = k /\ b.g = rg[p] /\ b.c = col[p]
  BY <1>9, Zenon
<1>11. b \in Block
  <2>1. k \in BlockNumbers
    BY <1>2, <1>9, Zenon DEF BlockNumbers
  <2> QED BY <1>2, <1>9, <2>1, Zenon DEF Block
<1>12. Size(b) \in Nat /\ Size(b) > 0
  BY <1>2, <1>9, <1>10, Constants, Zenon DEF Size
<1> QED BY <1>9, <1>10, <1>11, <1>12, Zenon DEF cr

(* The header of a BOOL block: an error, or the window of the whole block. *)
LEMMA BoolHeaderKeeps ==
  ASSUME Typed, Buffers, NEW p \in Procs, BoolHeader(p)
  PROVE  Keeps(p) /\ Globals'
<1>1. /\ pc[p] = "served" /\ fsck' = fsck /\ damage' = damage /\ next' = next /\ cap' = cap
      /\ content' = content /\ faults' = faults /\ hit' = hit
      /\ Fails(p, Cr(p), Around(p)) \/ \E b \in Found(p) : window(p, Cr(p), Size(b))
  BY ZenonT(40) DEF BoolHeader, Around
<1>2. /\ Fetch(p) /\ Globals /\ rg[p] <= NumRGs /\ hand[p] = NoBuf /\ Tidy(Around(p))
      /\ \A c \in 1..Cols : crs[p][c].win \notin Waits(Around(p))
      /\ Waits(Around(p)) \subseteq Waits(Around(p)) \union OwnedBy(p)
  BY <1>1, Holding, Zenon
<1>3. Cr(p) \in ColumnReader
  BY TypedOf, Zenon
<1>4. Keeps(p) /\ pool' \in [Bufs -> Nat]
  <2>1. CASE Fails(p, Cr(p), Around(p))
    BY <1>1, <1>2, <1>3, <2>1, FailsKeeps, Zenon
  <2>2. CASE \E b \in Found(p) : window(p, Cr(p), Size(b))
    <3>1. PICK b \in Found(p) : window(p, Cr(p), Size(b))
      BY <2>2, Zenon
    <3>2. Size(b) \in Nat /\ Size(b) >= 1
      BY <1>1, FoundHere
    <3>3. Cr(p).done \in 1..NumBlocks(rg[p])
      BY <1>1, <1>2, Zenon DEF Fetch, Fetching
    <3> QED BY <1>1, <1>2, <1>3, <3>1, <3>2, <3>3, WindowKeeps, ZenonT(40)
  <2> QED BY <1>1, <2>1, <2>2, Zenon
<1>5. Globals'
  BY <1>1, <1>2, <1>4, Zenon DEF Globals
<1> QED BY <1>4, <1>5, Zenon

(* There is one block where the reader looks. *)
LEMMA FoundOne ==
  ASSUME Typed, Buffers, NEW p \in Procs, pc[p] = "served", NEW a \in Found(p), NEW b \in Found(p)
  PROVE  a = b
<1>1. rg[p] \in 1..NumRGs /\ col[p] \in 1..Cols
  BY TypedOf, Holding, Constants
<1>2. \A j, k \in 1..(NumBlocks(rg[p]) + 1) :
        Offset(col[p], rg[p], j) = Offset(col[p], rg[p], k) => j = k
  BY <1>1, Offsets, Zenon
<1>3. /\ a = [g |-> rg[p], c |-> col[p], k |-> a.k] /\ b = [g |-> rg[p], c |-> col[p], k |-> b.k]
      /\ a.k \in 1..NumBlocks(rg[p]) /\ b.k \in 1..NumBlocks(rg[p])
      /\ Offset(col[p], rg[p], a.k) = Offset(col[p], rg[p], b.k)
  BY FoundHere, Zenon
<1>4. NumBlocks(rg[p]) \in Nat
  BY <1>1, Constants, ZenonT(40)
<1>5. a.k \in 1..(NumBlocks(rg[p]) + 1) /\ b.k \in 1..(NumBlocks(rg[p]) + 1)
  BY <1>3, <1>4
<1>6. a.k = b.k
  BY <1>2, <1>3, <1>5, ZenonT(40)
<1> QED BY <1>3, <1>6, ZenonT(40)

(* TakeBlock fails past the block, or takes the one block that is there,   *)
(* which is as long as what was read and has a good checksum.              *)
LEMMA BlockTaken ==
  ASSUME Typed, Buffers, NEW p \in Procs, TakeBlock(p)
  PROVE  \/ Fails(p, [Cr(p) EXCEPT !.pos = @ + need[p]], Around(p))
         \/ /\ SetCr(p, [Cr(p) EXCEPT !.pos = @ + need[p]])
            /\ need'[p] = 0 /\ pc'[p] = "block" /\ pool' = pool /\ free' = free /\ hand' = hand
            /\ rg' = rg /\ pass' = pass /\ errs' = errs
            /\ \E b \in Found(p) :
                 /\ Size(b) = need[p] /\ ~Damaged(b, "crc")
                 /\ p \in fsck => out'[p] = Append(out[p], b) /\ col' = col /\ vecs' = vecs
                 /\ p \notin fsck /\ col[p] = Cols =>
                      vecs'[p] = <<>> /\ out'[p] = Append(out[p], Append(vecs[p], b)) /\ col'[p] = 1
                 /\ p \notin fsck /\ col[p] # Cols =>
                      vecs'[p] = Append(vecs[p], b) /\ out'[p] = out[p] /\ col'[p] = col[p] + 1
<1> DEFINE cr == [Cr(p) EXCEPT !.pos = @ + need[p]]
           good(b) == /\ Size(b) = need[p] /\ ~Damaged(b, "crc")
                      /\ ~(Damaged(b, "rows") /\ p \in fsck /\ pass[p] = "verify")
<1>1. pc[p] = "served"
  BY Zenon DEF TakeBlock
<1>2. CASE ~\E b \in Found(p) : good(b)
  BY <1>2, Zenon DEF TakeBlock, Around
<1>3. CASE \E b \in Found(p) : good(b)
  <2>1. PICK a \in Found(p) : good(a)
    BY <1>3, Zenon
  <2>2. /\ SetCr(p, cr) /\ need' = [need EXCEPT ![p] = 0] /\ GoTo(p, "block")
        /\ pool' = pool /\ free' = free /\ hand' = hand /\ rg' = rg /\ pass' = pass /\ errs' = errs
    BY <1>3, Zenon DEF TakeBlock
  <2>3. need'[p] = 0 /\ pc'[p] = "block"
    BY <2>2, Zenon DEF GoTo, Typed, OneEach
  <2>4. PICK b \in Found(p) :
          IF p \in fsck THEN out' = [out EXCEPT ![p] = Append(@, b)] /\ UNCHANGED <<col, vecs>>
          ELSE /\ vecs' = [vecs EXCEPT ![p] = IF col[p] = Cols THEN <<>> ELSE Append(@, b)]
               /\ out' = [out EXCEPT ![p] = IF col[p] = Cols THEN Append(@, Append(vecs[p], b)) ELSE @]
               /\ col' = [col EXCEPT ![p] = IF col[p] = Cols THEN 1 ELSE @ + 1]
    BY <1>3, Zenon DEF TakeBlock
  <2>5. a = b
    BY <1>1, FoundOne, ZenonT(40)
  <2>6. /\ p \in fsck => out'[p] = Append(out[p], b) /\ col' = col /\ vecs' = vecs
        /\ p \notin fsck /\ col[p] = Cols =>
             vecs'[p] = <<>> /\ out'[p] = Append(out[p], Append(vecs[p], b)) /\ col'[p] = 1
        /\ p \notin fsck /\ col[p] # Cols =>
             vecs'[p] = Append(vecs[p], b) /\ out'[p] = out[p] /\ col'[p] = col[p] + 1
    BY <2>4, Zenon DEF Typed, OneEach
  <2> HIDE DEF cr
  <2> QED BY <2>1, <2>2, <2>3, <2>5, <2>6, ZenonT(40) DEF cr
<1> QED BY <1>2, <1>3, Zenon

(* A block is copied out of a window that stays. *)
LEMMA TakeBlockKeeps ==
  ASSUME Typed, Buffers, NEW p \in Procs, TakeBlock(p)
  PROVE  Keeps(p) /\ Globals'
<1> DEFINE cr == [Cr(p) EXCEPT !.pos = @ + need[p]]
<1>1. /\ pc[p] = "served" /\ fsck' = fsck /\ damage' = damage /\ next' = next /\ cap' = cap
      /\ content' = content /\ faults' = faults /\ hit' = hit
  BY ZenonT(40) DEF TakeBlock
<1>2. /\ Windows(p) /\ Fetch(p) /\ Own(p) /\ Globals /\ rg[p] <= NumRGs /\ hand[p] = NoBuf
      /\ Tidy(Around(p)) /\ \A c \in 1..Cols : crs[p][c].win \notin Waits(Around(p))
      /\ Waits(Around(p)) \subseteq Waits(Around(p)) \union OwnedBy(p)
  BY <1>1, Holding, Zenon
<1>3. /\ cr \in ColumnReader /\ cr.done = Cr(p).done /\ cr.pos = Cr(p).pos + need[p]
      /\ cr.win = Cr(p).win /\ cr.start = Cr(p).start /\ cr.len = Cr(p).len
  BY SameWindow, Zenon
<1>4. CASE Fails(p, cr, Around(p))
  <2> HIDE DEF cr
  <2>1. Keeps(p) /\ pool' \in [Bufs -> Nat]
    BY <1>1, <1>2, <1>3, <1>4, FailsKeeps, Zenon
  <2>2. Globals'
    BY <1>1, <1>2, <2>1, Zenon DEF Globals
  <2> QED BY <2>1, <2>2, Zenon
<1>5. CASE ~Fails(p, cr, Around(p))
  <2>1. /\ SetCr(p, cr) /\ need'[p] = 0 /\ pc'[p] = "block" /\ pool' = pool /\ free' = free
        /\ hand' = hand /\ rg' = rg /\ pass' = pass /\ errs' = errs
    BY <1>5, BlockTaken, Zenon
  <2>2. PICK b \in Found(p) :
          /\ p \in fsck => out'[p] = Append(out[p], b) /\ col' = col /\ vecs' = vecs
          /\ p \notin fsck /\ col[p] = Cols =>
               vecs'[p] = <<>> /\ out'[p] = Append(out[p], Append(vecs[p], b)) /\ col'[p] = 1
          /\ p \notin fsck /\ col[p] # Cols =>
               vecs'[p] = Append(vecs[p], b) /\ out'[p] = out[p] /\ col'[p] = col[p] + 1
    BY <1>5, BlockTaken, Zenon
  <2>3. b \in Block
    BY <1>1, FoundHere, Zenon
  <2> HIDE DEF cr
  <2>4. /\ crs'[p] \in [1..Cols -> ColumnReader] /\ crs'[p][col[p]] = cr
        /\ \A c \in 1..Cols : c # col[p] => crs'[p][c] = crs[p][c]
    BY <1>3, <2>1, ReaderSet, ZenonT(40)
  <2>5. \A c \in 1..Cols : crs'[p][c].win = crs[p][c].win
    <3>1. crs[p][col[p]] = Cr(p)
      BY ZenonT(40) DEF Cr
    <3> QED BY <1>3, <2>4, <3>1, Zenon
  <2>6. Neat(p)' /\ Takes(p)
    BY <1>1, <2>1, <2>5, SameBuffers, Zenon
  <2>7. Windows(p)'
    BY <1>1, <1>2, <1>3, <2>1, WindowsKept, ZenonT(40)
  <2>8. Fetch(p)'
    BY <1>2, <2>1, Zenon DEF Fetch, Fetching
  <2>9. vecs[p] \in Seq(Block) /\ out[p] \in Seq(IF p \in fsck THEN Block ELSE Seq(Block))
        /\ col[p] \in 1..Cols /\ Cols \in Nat
    BY <1>2, Constants, ZenonT(40) DEF Own
  <2>10. vecs'[p] \in Seq(Block) /\ out'[p] \in Seq(IF p \in fsck' THEN Block ELSE Seq(Block))
    <3> HIDE DEF Block
    <3>1. Append(vecs[p], b) \in Seq(Block) /\ <<>> \in Seq(Block)
      BY <2>3, <2>9
    <3>2. CASE p \in fsck
      <4>1. out[p] \in Seq(Block)
        BY <2>9, <3>2, Zenon
      <4>2. Append(out[p], b) \in Seq(Block)
        BY <2>3, <4>1
      <4> QED BY <1>1, <2>2, <2>9, <3>2, <4>2, Zenon
    <3>3. CASE p \notin fsck
      <4>1. out[p] \in Seq(Seq(Block))
        BY <2>9, <3>3, Zenon
      <4>2. Append(out[p], Append(vecs[p], b)) \in Seq(Seq(Block))
        BY <3>1, <4>1, SMTT(60)
      <4> QED BY <1>1, <2>2, <3>1, <3>3, <4>1, <4>2, Zenon
    <3> QED BY <3>2, <3>3, Zenon
  <2>11. col'[p] \in 1..Cols
    BY <2>2, <2>9
  <2>12. 0 \in Nat
    BY Zenon
  <2>13. Own(p)'
    BY <1>2, <2>1, <2>4, <2>10, <2>11, <2>12, ZenonT(40) DEF Own
  <2>14. Globals'
    BY <1>1, <1>2, <2>1, Zenon DEF Globals
  <2> QED BY <1>1, <2>6, <2>7, <2>8, <2>13, <2>14, TouchesNone, ZenonT(40) DEF Keeps
<1> QED BY <1>4, <1>5, Zenon

(* Every step keeps the types, and the buffers where they should be. *)
LEMMA BuffersKept ==
  ASSUME Typed, Buffers, NEW p \in Procs, Step(p)
  PROVE  Typed' /\ Buffers'
<1>1. Keeps(p) /\ Globals'
  BY ClaimKeeps, EndKeeps, NextBlockKeeps, GetSharedKeeps, ReadAtKeeps, ReadFailsKeeps,
     BoolHeaderKeeps, TakeBlockKeeps, CancelledKeeps, CloseKeeps, ZenonT(40) DEF Step
<1>2. Typed'
  BY <1>1, TypedStep, Zenon DEF Keeps
<1>3. Buffers'
  BY <1>1, BuffersStep, Zenon DEF Keeps
<1> QED BY <1>2, <1>3, Zenon

-----------------------------------------------------------------------------
(***************************************************************************)
(* Who reads which row group.                                              *)
(***************************************************************************)

(* The order of blocks is transitive. *)
LEMMA Later ==
  ASSUME NEW x, NEW y, NEW z, x.g \in Nat, x.k \in Nat, y.g \in Nat, y.k \in Nat,
         z.g \in Nat, z.k \in Nat, Precedes(x, y), Precedes(y, z)
  PROVE  Precedes(x, z)
BY DEF Precedes

(* What the others have returned and are reading stays as it is. *)
LEMMA OthersServe ==
  ASSUME NEW p \in Procs, Others(p), NEW q \in Procs, q # p
  PROVE  /\ \A g : Serves(q, g)' <=> Serves(q, g)
         /\ \A g, k : Returned(q, g, k)' <=> Returned(q, g, k)
         /\ Ascending(q)' <=> Ascending(q)
         /\ UpToNow(q)' <=> UpToNow(q)
<1>1. /\ pc'[q] = pc[q] /\ rg'[q] = rg[q] /\ out'[q] = out[q] /\ Number(q)' = Number(q)
  BY Zenon DEF Others, Number, Cr
<1>2. \A g, k : Returned(q, g, k)' <=> Returned(q, g, k)
  BY <1>1, Zenon DEF Returned
<1>3. \A g : Serves(q, g)' <=> Serves(q, g)
  BY <1>1, Zenon DEF Serves
<1>4. Ascending(q)' <=> Ascending(q)
  BY <1>1, Zenon DEF Ascending
<1>5. UpToNow(q)' <=> UpToNow(q)
  BY <1>1, <1>2, Zenon DEF UpToNow
<1> QED BY <1>2, <1>3, <1>4, <1>5, Zenon

(* A step that leaves the batches, the row group and the number alone. *)
LEMMA SharedQuiet ==
  ASSUME Shared, NEW p \in Procs, Others(p), fsck' = fsck, next' = next, out'[p] = out[p],
         errs'[p] = errs[p], pc'[p] \in Active <=> pc[p] \in Active,
         pc[p] \in Active => rg'[p] = rg[p] /\ Number(p)' = Number(p),
         pc'[p] \in {"close", "closed"} => errs[p] > 0 \/ next > NumRGs
  PROVE  Shared'
<1> SUFFICES ASSUME fsck = {} PROVE (Claimed /\ Exclusive /\ Covered)'
                    /\ \A q \in Procs : (Ascending(q) /\ UpToNow(q) /\ StopsLate(q))'
  BY Zenon DEF Shared
<1>1. /\ Claimed /\ Exclusive /\ Covered /\ \A q \in Procs : Ascending(q) /\ UpToNow(q) /\ StopsLate(q)
  BY Zenon DEF Shared
<1>2. /\ \A g : Serves(p, g)' <=> Serves(p, g)
      /\ \A g, k : Returned(p, g, k)' <=> Returned(p, g, k)
  BY Zenon DEF Serves, Returned
<1>3. \A q \in Procs : /\ \A g : Serves(q, g)' <=> Serves(q, g)
                       /\ \A g, k : Returned(q, g, k)' <=> Returned(q, g, k)
  BY <1>2, OthersServe, Zenon
<1>4. \A q \in Procs : /\ errs'[q] = errs[q]
                       /\ pc'[q] \in Active <=> pc[q] \in Active
                       /\ pc[q] \in Active => rg'[q] = rg[q]
  BY Zenon DEF Others
<1>5. Claimed'
  BY <1>1, <1>3, Zenon DEF Claimed
<1>6. Exclusive'
  BY <1>1, <1>3, Zenon DEF Exclusive
<1>7. Covered'
  <2> SUFFICES ASSUME NEW g \in 1..(next - 1)
               PROVE  \/ \E q \in Procs : errs'[q] > 0
                      \/ \E q \in Procs : pc'[q] \in Active /\ rg'[q] = g
                      \/ \E q \in Procs : \A k \in 1..NumBlocks(g) : Returned(q, g, k)'
    BY Zenon DEF Covered
  <2>1. CASE \E q \in Procs : errs[q] > 0
    BY <1>4, <2>1, Zenon
  <2>2. CASE \E q \in Procs : pc[q] \in Active /\ rg[q] = g
    BY <1>4, <2>2, Zenon
  <2>3. CASE \E q \in Procs : \A k \in 1..NumBlocks(g) : Returned(q, g, k)
    BY <1>3, <2>3, Zenon
  <2> QED BY <1>1, <2>1, <2>2, <2>3, Zenon DEF Covered
<1>8. ASSUME NEW q \in Procs PROVE (Ascending(q) /\ UpToNow(q) /\ StopsLate(q))'
  <2>1. CASE q = p
    BY <1>1, <1>2, <2>1, Zenon DEF Ascending, UpToNow, StopsLate
  <2>2. CASE q # p
    <3>1. Ascending(q)' /\ UpToNow(q)'
      BY <1>1, <2>2, OthersServe, Zenon
    <3>2. StopsLate(q)'
      BY <1>1, <2>2, Zenon DEF StopsLate, Others
    <3> QED BY <3>1, <3>2, Zenon
  <2> QED BY <2>1, <2>2, Zenon
<1> QED BY <1>5, <1>6, <1>7, <1>8, Zenon

(* A scan that ends in an error. *)
LEMMA SharedFail ==
  ASSUME Shared, NEW p \in Procs, Others(p), fsck' = fsck, next' = next, out'[p] = out[p],
         errs'[p] > 0, pc'[p] = "close"
  PROVE  Shared'
<1> SUFFICES ASSUME fsck = {} PROVE (Claimed /\ Exclusive /\ Covered)'
                    /\ \A q \in Procs : (Ascending(q) /\ UpToNow(q) /\ StopsLate(q))'
  BY Zenon DEF Shared
<1>1. /\ Claimed /\ Exclusive /\ Covered /\ \A q \in Procs : Ascending(q) /\ UpToNow(q) /\ StopsLate(q)
  BY Zenon DEF Shared
<1>2. pc'[p] \notin Active
  BY Zenon DEF Active
<1>3. \A g : Serves(p, g)' => Serves(p, g)
  BY <1>2, Zenon DEF Serves
<1>4. \A q \in Procs : \A g : Serves(q, g)' => Serves(q, g)
  BY <1>3, OthersServe, Zenon
<1>5. Claimed'
  BY <1>1, <1>4, Zenon DEF Claimed
<1>6. Exclusive'
  BY <1>1, <1>4, Zenon DEF Exclusive
<1>7. Covered'
  BY Zenon DEF Covered
<1>8. ASSUME NEW q \in Procs PROVE (Ascending(q) /\ UpToNow(q) /\ StopsLate(q))'
  <2>1. CASE q = p
    BY <1>1, <1>2, <2>1, Zenon DEF Ascending, UpToNow, StopsLate
  <2>2. CASE q # p
    <3>1. Ascending(q)' /\ UpToNow(q)'
      BY <1>1, <2>2, OthersServe, Zenon
    <3>2. StopsLate(q)'
      BY <1>1, <2>2, Zenon DEF StopsLate, Others
    <3> QED BY <3>1, <3>2, Zenon
  <2> QED BY <2>1, <2>2, Zenon
<1> QED BY <1>5, <1>6, <1>7, <1>8, Zenon

(* A scan that is through with its row group. *)
LEMMA SharedEnd ==
  ASSUME Shared, NEW p \in Procs, Others(p), fsck' = fsck, next' = next, out'[p] = out[p],
         errs'[p] = errs[p], pc[p] \in Active, Number(p) - 1 = NumBlocks(rg[p]), pc'[p] = "claim"
  PROVE  Shared'
<1> SUFFICES ASSUME fsck = {} PROVE (Claimed /\ Exclusive /\ Covered)'
                    /\ \A q \in Procs : (Ascending(q) /\ UpToNow(q) /\ StopsLate(q))'
  BY Zenon DEF Shared
<1>1. /\ Claimed /\ Exclusive /\ Covered /\ \A q \in Procs : Ascending(q) /\ UpToNow(q) /\ StopsLate(q)
  BY Zenon DEF Shared
<1>2. pc'[p] \notin Active /\ pc'[p] \notin {"close", "closed"}
  BY Zenon DEF Active
<1>3. /\ \A g : Serves(p, g)' => Serves(p, g)
      /\ \A g, k : Returned(p, g, k)' <=> Returned(p, g, k)
  BY <1>2, Zenon DEF Serves, Returned
<1>4. \A q \in Procs : /\ \A g : Serves(q, g)' => Serves(q, g)
                       /\ \A g, k : Returned(q, g, k)' <=> Returned(q, g, k)
  BY <1>3, OthersServe, Zenon
<1>5. Claimed'
  BY <1>1, <1>4, Zenon DEF Claimed
<1>6. Exclusive'
  BY <1>1, <1>4, Zenon DEF Exclusive
<1>7. \A k \in 1..NumBlocks(rg[p]) : Returned(p, rg[p], k)
  BY <1>1, Zenon DEF UpToNow
<1>8. ASSUME NEW g \in 1..(next - 1)
      PROVE  \/ \E q \in Procs : errs'[q] > 0
             \/ \E q \in Procs : pc'[q] \in Active /\ rg'[q] = g
             \/ \E q \in Procs : \A k \in 1..NumBlocks(g) : Returned(q, g, k)'
  <2>1. \A q \in Procs : errs'[q] = errs[q] /\ (q # p => pc'[q] = pc[q] /\ rg'[q] = rg[q])
    BY Zenon DEF Others
  <2>2. CASE \E q \in Procs : errs[q] > 0
    BY <2>1, <2>2, Zenon
  <2>3. CASE \E q \in Procs : pc[q] \in Active /\ rg[q] = g
    BY <1>4, <1>7, <2>1, <2>3, Zenon
  <2>4. CASE \E q \in Procs : \A k \in 1..NumBlocks(g) : Returned(q, g, k)
    BY <1>4, <2>4, Zenon
  <2> QED BY <1>1, <2>2, <2>3, <2>4, Zenon DEF Covered
<1>9. Covered'
  BY <1>8, Zenon DEF Covered
<1>10. ASSUME NEW q \in Procs PROVE (Ascending(q) /\ UpToNow(q) /\ StopsLate(q))'
  <2>1. CASE q = p
    BY <1>1, <1>2, <2>1, Zenon DEF Ascending, UpToNow, StopsLate
  <2>2. CASE q # p
    <3>1. Ascending(q)' /\ UpToNow(q)'
      BY <1>1, <2>2, OthersServe, Zenon
    <3>2. StopsLate(q)'
      BY <1>1, <2>2, Zenon DEF StopsLate, Others
    <3> QED BY <3>1, <3>2, Zenon
  <2> QED BY <2>1, <2>2, Zenon
<1> QED BY <1>5, <1>6, <1>9, <1>10, Zenon

(* A process that claims the next row group. *)
LEMMA SharedClaim ==
  ASSUME Typed, Shared, NEW p \in Procs, Others(p), fsck' = fsck, next <= NumRGs, next' = next + 1,
         out'[p] = out[p], errs'[p] = errs[p], pc[p] \notin Active, pc'[p] = "block", rg'[p] = next,
         Number(p)' = 1
  PROVE  Shared'
<1> SUFFICES ASSUME fsck = {} PROVE (Claimed /\ Exclusive /\ Covered)'
                    /\ \A q \in Procs : (Ascending(q) /\ UpToNow(q) /\ StopsLate(q))'
  BY Zenon DEF Shared
<1>1. /\ Claimed /\ Exclusive /\ Covered /\ \A q \in Procs : Ascending(q) /\ UpToNow(q) /\ StopsLate(q)
  BY Zenon DEF Shared
<1>2. next \in 1..NumRGs /\ NumRGs \in Nat /\ next \in Nat
  BY Constants DEF Typed, Globals
<1>3. pc'[p] \in Active /\ pc'[p] \notin {"close", "closed"}
  BY Zenon DEF Active
<1>4. \A g : Serves(p, g)' => Serves(p, g) \/ g = next
  BY Zenon DEF Serves
<1>5. \A q \in Procs : \A g : Serves(q, g)' => Serves(q, g) \/ (q = p /\ g = next)
  BY <1>4, OthersServe, Zenon
<1>6. \A q \in Procs : \A g, k : Returned(q, g, k)' <=> Returned(q, g, k)
  <2>1. \A g, k : Returned(p, g, k)' <=> Returned(p, g, k)
    BY Zenon DEF Returned
  <2> QED BY <2>1, OthersServe, Zenon
<1>7. Claimed'
  <2> SUFFICES ASSUME NEW q \in Procs, NEW g \in 1..NumRGs, Serves(q, g)' PROVE g < next'
    BY Zenon DEF Claimed
  <2>1. Serves(q, g) => g < next
    BY <1>1, Zenon DEF Claimed
  <2>2. g < next \/ g = next
    BY <1>5, <2>1, Zenon
  <2> QED BY <1>2, <2>2
<1>8. Exclusive'
  <2> SUFFICES ASSUME NEW q \in Procs, NEW s \in Procs, NEW g \in 1..NumRGs,
                      Serves(q, g)', Serves(s, g)'
               PROVE  q = s
    BY Zenon DEF Exclusive
  <2>1. \A x \in Procs : ~Serves(x, next)
    <3>1. ~(next < next)
      BY <1>2
    <3> QED BY <1>1, <1>2, <3>1, Zenon DEF Claimed
  <2> QED BY <1>1, <1>5, <2>1, ZenonT(40) DEF Exclusive
<1>9. Covered'
  <2> SUFFICES ASSUME NEW g \in 1..(next' - 1)
               PROVE  \/ \E q \in Procs : errs'[q] > 0
                      \/ \E q \in Procs : pc'[q] \in Active /\ rg'[q] = g
                      \/ \E q \in Procs : \A k \in 1..NumBlocks(g) : Returned(q, g, k)'
    BY Zenon DEF Covered
  <2>1. g = next \/ g \in 1..(next - 1)
    BY <1>2
  <2>2. CASE g = next
    BY <1>3, <2>2, Zenon
  <2>3. CASE g \in 1..(next - 1)
    <3>1. CASE \E q \in Procs : errs[q] > 0
      BY <3>1, Zenon DEF Others
    <3>2. CASE \E q \in Procs : pc[q] \in Active /\ rg[q] = g
      BY <3>2, Zenon DEF Others
    <3>3. CASE \E q \in Procs : \A k \in 1..NumBlocks(g) : Returned(q, g, k)
      BY <1>6, <3>3, Zenon
    <3> QED BY <1>1, <2>3, <3>1, <3>2, <3>3, Zenon DEF Covered
  <2> QED BY <2>1, <2>2, <2>3, Zenon
<1>10. ASSUME NEW q \in Procs PROVE (Ascending(q) /\ UpToNow(q) /\ StopsLate(q))'
  <2>1. CASE q = p
    <3>1. Ascending(p)'
      BY <1>1, Zenon DEF Ascending
    <3>2. 1..(1 - 1) = {}
      OBVIOUS
    <3>3. UpToNow(p)'
      BY <3>2, Zenon DEF UpToNow
    <3>4. StopsLate(p)'
      BY <1>3, Zenon DEF StopsLate
    <3> QED BY <2>1, <3>1, <3>3, <3>4, Zenon
  <2>2. CASE q # p
    <3>1. Ascending(q)' /\ UpToNow(q)'
      BY <1>1, <2>2, OthersServe, Zenon
    <3>2. StopsLate(q)'
      <4>1. pc'[q] = pc[q] /\ errs'[q] = errs[q]
        BY <2>2, Zenon DEF Others
      <4>2. pc[q] \in {"close", "closed"} => errs[q] > 0
        BY <1>1, <1>2 DEF StopsLate
      <4> QED BY <4>1, <4>2, Zenon DEF StopsLate
    <3> QED BY <3>1, <3>2, Zenon
  <2> QED BY <2>1, <2>2, Zenon
<1> QED BY <1>7, <1>8, <1>9, <1>10, Zenon

(* The batches of a scan, and the blocks they begin with. *)
LEMMA FirstBlocks ==
  ASSUME Typed, NEW p \in Procs, p \notin fsck, Ordered(p)
  PROVE  /\ out[p] \in Seq(Seq(Block)) /\ Len(out[p]) \in Nat /\ DOMAIN out[p] = 1..Len(out[p])
         /\ \A j \in 1..Len(out[p]) : /\ out[p][j][1] \in Block /\ out[p][j][1].g \in 1..NumRGs
                                      /\ out[p][j][1].g \in Nat /\ out[p][j][1].k \in Nat
<1>1. out[p] \in Seq(Seq(Block))
  BY Zenon DEF Typed, Own
<1>2. /\ Len(out[p]) \in Nat /\ DOMAIN out[p] = 1..Len(out[p])
      /\ \A j \in 1..Len(out[p]) : out[p][j] \in Seq(Block)
  BY <1>1
<1>3. \A j \in 1..Len(out[p]) : Len(out[p][j]) = Cols
  BY <1>2, Zenon DEF Ordered
<1>4. \A x \in Seq(Block) : 1 \in 1..Len(x) => x[1] \in Block
  OBVIOUS
<1>5. \A j \in 1..Len(out[p]) : out[p][j][1] \in Block
  BY <1>2, <1>3, <1>4, Constants, Zenon
<1>6. \A b \in Block : b.g \in 1..NumRGs /\ b.g \in Nat /\ b.k \in Nat
  <2>1. \A k \in BlockNumbers : k \in Nat
    BY DEF BlockNumbers
  <2> QED BY <2>1, Constants DEF Block
<1> QED BY <1>1, <1>2, <1>5, <1>6, Zenon

(* A scan that returns a batch, of the block its row group is at. *)
LEMMA SharedTake ==
  ASSUME Typed, Shared, NEW p \in Procs, Others(p), fsck' = fsck, next' = next, p \notin fsck,
         NEW batch \in Seq(Block), out'[p] = Append(out[p], batch),
         batch[1] = [g |-> rg[p], c |-> 1, k |-> Number(p)],
         errs'[p] = errs[p], pc[p] \in Active, pc'[p] = "block", rg'[p] = rg[p],
         Number(p) \in Nat, Number(p)' = Number(p) + 1, Ordered(p), Follows(p)
  PROVE  Shared'
<1> SUFFICES ASSUME fsck = {} PROVE (Claimed /\ Exclusive /\ Covered)'
                    /\ \A q \in Procs : (Ascending(q) /\ UpToNow(q) /\ StopsLate(q))'
  BY Zenon DEF Shared
<1>1. /\ Claimed /\ Exclusive /\ Covered /\ \A q \in Procs : Ascending(q) /\ UpToNow(q) /\ StopsLate(q)
  BY Zenon DEF Shared
<1>2. pc'[p] \in Active /\ pc'[p] \notin {"close", "closed"}
  BY Zenon DEF Active
<1> DEFINE n == Len(out[p])
<1>3. out[p] \in Seq(Seq(Block)) /\ n \in Nat
  <2>1. out[p] \in Seq(Seq(Block))
    BY Zenon DEF Typed, Own
  <2> HIDE DEF Block
  <2> QED BY <2>1
<1>4. Len(out'[p]) = n + 1 /\ out'[p][n + 1] = batch /\ \A i \in 1..n : out'[p][i] = out[p][i]
  <2> HIDE DEF Block
  <2> QED BY <1>3
<1>5. \A i \in 1..(n + 1) : i \in 1..n \/ i = n + 1
  BY <1>3
<1>6. 1..n \subseteq 1..(n + 1) /\ n + 1 \in 1..(n + 1)
  BY <1>3
<1>7. batch[1].g = rg[p] /\ batch[1].k = Number(p)
  OBVIOUS
<1> HIDE DEF n
<1>8. \A g : Serves(p, g)' => Serves(p, g)
  BY <1>4, <1>5, <1>7, Zenon DEF Serves, n
<1>9. /\ \A g, k : Returned(p, g, k) => Returned(p, g, k)'
      /\ \A g, k : g = rg[p] /\ k = Number(p) => Returned(p, g, k)'
  <2>1. \A g, k : g = rg[p] /\ k = Number(p) => Returned(p, g, k)'
    BY <1>4, <1>6, <1>7, Zenon DEF Returned
  <2>2. \A g, k : Returned(p, g, k) => Returned(p, g, k)'
    BY <1>4, <1>6, Zenon DEF Returned, n
  <2> QED BY <2>1, <2>2, Zenon
<1>10. \A q \in Procs : /\ \A g : Serves(q, g)' => Serves(q, g)
                        /\ \A g, k : Returned(q, g, k) => Returned(q, g, k)'
  BY <1>8, <1>9, OthersServe, Zenon
<1>11. Claimed'
  BY <1>1, <1>10, Zenon DEF Claimed
<1>12. Exclusive'
  BY <1>1, <1>10, Zenon DEF Exclusive
<1>13. Covered'
  <2> SUFFICES ASSUME NEW g \in 1..(next - 1)
               PROVE  \/ \E q \in Procs : errs'[q] > 0
                      \/ \E q \in Procs : pc'[q] \in Active /\ rg'[q] = g
                      \/ \E q \in Procs : \A k \in 1..NumBlocks(g) : Returned(q, g, k)'
    BY Zenon DEF Covered
  <2>1. \A q \in Procs : /\ errs'[q] = errs[q] /\ rg'[q] = rg[q]
                         /\ pc[q] \in Active => pc'[q] \in Active
    BY <1>2, Zenon DEF Others
  <2>2. CASE \E q \in Procs : errs[q] > 0
    BY <2>1, <2>2, Zenon
  <2>3. CASE \E q \in Procs : pc[q] \in Active /\ rg[q] = g
    BY <2>1, <2>3, Zenon
  <2>4. CASE \E q \in Procs : \A k \in 1..NumBlocks(g) : Returned(q, g, k)
    BY <1>10, <2>4, Zenon
  <2> QED BY <1>1, <2>2, <2>3, <2>4, Zenon DEF Covered
<1>14. Ascending(p)'
  <2>1. ASSUME NEW i \in 1..n PROVE Precedes(out[p][i][1], batch[1])
    <3> DEFINE a == out[p][i][1]
               z == Latest(p)
    <3>1. n > 0 /\ n \in 1..n
      BY <1>3
    <3>2. /\ a.g \in Nat /\ a.k \in Nat /\ z.g \in Nat /\ z.k \in Nat
      BY <3>1, FirstBlocks, Zenon DEF Latest, n
    <3>3. a = z \/ Precedes(a, z)
      <4>1. i = n \/ i < n
        BY <1>3
      <4> QED BY <1>1, <3>1, <4>1, Zenon DEF Ascending, Latest, n
    <3>4. Precedes(z, batch[1])
      <4>1. CASE Number(p) > 1
        <5>1. z = [g |-> rg[p], c |-> 1, k |-> Number(p) - 1]
          BY <4>1, Zenon DEF Follows
        <5>2. z.g = rg[p] /\ z.k = Number(p) - 1
          BY <5>1
        <5> QED BY <1>7, <5>2 DEF Precedes
      <4>2. CASE ~(Number(p) > 1)
        <5>1. z.g < rg[p]
          BY <3>1, <4>2, Zenon DEF Follows, EndedBefore, n
        <5> QED BY <1>7, <5>1, Zenon DEF Precedes
      <4> QED BY <4>1, <4>2, Zenon
    <3> HIDE DEF a, z
    <3>5. rg[p] \in Nat
      BY TypedOf, Constants
    <3>6. batch[1].g \in Nat /\ batch[1].k \in Nat
      BY <1>7, <3>5, Zenon
    <3>7. CASE a = z
      BY <3>4, <3>7, Zenon DEF a
    <3>8. CASE Precedes(a, z)
      BY <3>2, <3>4, <3>6, <3>8, Later, Zenon DEF a
    <3> QED BY <3>3, <3>7, <3>8, Zenon
  <2>2. ASSUME NEW i \in 1..(n + 1), NEW j \in 1..(n + 1), i < j
        PROVE  Precedes(out'[p][i][1], out'[p][j][1])
    <3>1. i \in 1..n
      BY <1>3, <2>2
    <3>2. CASE j = n + 1
      BY <1>4, <2>1, <3>1, <3>2, Zenon
    <3>3. CASE j \in 1..n
      BY <1>1, <1>4, <2>2, <3>1, <3>3, Zenon DEF Ascending, n
    <3> QED BY <1>5, <3>2, <3>3, Zenon
  <2> QED BY <1>4, <2>2, Zenon DEF Ascending
<1>15. UpToNow(p)'
  <2>1. ASSUME NEW k \in 1..(Number(p)' - 1) PROVE Returned(p, rg[p], k)'
    <3>1. k = Number(p) \/ k \in 1..(Number(p) - 1)
      OBVIOUS
    <3>2. k \in 1..(Number(p) - 1) => Returned(p, rg[p], k)
      BY <1>1, Zenon DEF UpToNow
    <3> QED BY <1>9, <3>1, <3>2, Zenon
  <2> QED BY <2>1, Zenon DEF UpToNow
<1>16. ASSUME NEW q \in Procs PROVE (Ascending(q) /\ UpToNow(q) /\ StopsLate(q))'
  <2>1. CASE q = p
    BY <1>2, <1>14, <1>15, <2>1, Zenon DEF StopsLate
  <2>2. CASE q # p
    <3>1. Ascending(q)' /\ UpToNow(q)'
      BY <1>1, <2>2, OthersServe, Zenon
    <3>2. StopsLate(q)'
      BY <1>1, <2>2, Zenon DEF StopsLate, Others
    <3> QED BY <3>1, <3>2, Zenon
  <2> QED BY <2>1, <2>2, Zenon
<1> QED BY <1>11, <1>12, <1>13, <1>16, Zenon
=============================================================================
