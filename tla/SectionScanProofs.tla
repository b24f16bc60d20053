-------------------------- MODULE SectionScanProofs --------------------------
(***************************************************************************)
(* Theorems about SectionScan, for any file, any number of processes and   *)
(* any sizes: no buffer is ever in two places, and a scan returns what its *)
(* row groups hold, in order and once, whatever buffers it is given.       *)
(***************************************************************************)
EXTENDS SectionScanBuffers, FiniteSetTheorems

-----------------------------------------------------------------------------
(***************************************************************************)
(* How far a scan has come, step by step.                                  *)
(***************************************************************************)

(* What a scan relies on when it moves. *)
LEMMA ScanOf ==
  ASSUME Typed, Scans, NEW p \in Procs, p \notin fsck, pc[p] # "closed"
  PROVE  /\ Ordered(p) /\ Scanning(p) /\ Shared /\ fsck = {}
         /\ pc[p] \in Active => InStep(p) /\ Gathered(p) /\ Follows(p)
<1>1. Ordered(p) /\ Scanning(p) /\ Shared
  BY Zenon DEF Scans
<1> QED BY <1>1, Zenon DEF Scanning

(* Batches that stay as they are stay in order. *)
LEMMA OrderedSame ==
  ASSUME NEW p \in Procs, Ordered(p), out'[p] = out[p], damage' = damage
  PROVE  Ordered(p)'
BY DEF Ordered, Sound, Damaged

(* A scan whose step is another's. *)
LEMMA OtherScans ==
  ASSUME Typed, Scans, NEW p \in Procs, Others(p), damage' = damage, fsck' = fsck, next' \in Nat,
         next' >= next, NEW q \in Procs, q # p, q \notin fsck
  PROVE  (Ordered(q) /\ Scanning(q))'
<1>1. Ordered(q) /\ Scanning(q)
  BY Zenon DEF Scans
<1>2. /\ crs'[q] = crs[q] /\ need'[q] = need[q] /\ pc'[q] = pc[q] /\ rg'[q] = rg[q]
      /\ col'[q] = col[q] /\ vecs'[q] = vecs[q] /\ out'[q] = out[q]
  BY Zenon DEF Others
<1>3. Ordered(q)'
  BY <1>1, <1>2, OrderedSame, Zenon
<1>4. Number(q)' = Number(q) /\ Cr(q)' = Cr(q) /\ Latest(q)' = Latest(q)
  BY <1>2, Zenon DEF Number, Cr, Latest
<1>5. \A c : BlockAt(q, c)' = BlockAt(q, c)
  BY <1>2, <1>4, Zenon DEF BlockAt
<1>6. InStep(q) => InStep(q)'
  BY <1>2, <1>4, Zenon DEF InStep
<1>7. Gathered(q) => Gathered(q)'
  <2>1. ASSUME NEW b PROVE Sound(b)' <=> Sound(b)
    BY Zenon DEF Sound, Damaged
  <2> QED BY <1>2, <1>5, <2>1, Zenon DEF Gathered, Damaged
<1>8. \A g : EndedBefore(q, g) => EndedBefore(q, g)'
  BY <1>2, <1>4, Zenon DEF EndedBefore
<1>9. Follows(q) => Follows(q)'
  BY <1>2, <1>4, <1>8, Zenon DEF Follows
<1>10. pc[q] = "claim" => EndedBefore(q, next)'
  <2>1. CASE pc[q] = "claim" /\ Len(out[q]) > 0
    <3>1. Latest(q).k = NumBlocks(Latest(q).g) /\ Latest(q).g < next
      BY <1>1, <2>1, Zenon DEF Scanning, EndedBefore
    <3>2. Latest(q).g \in Nat
      <4>1. Len(out[q]) \in 1..Len(out[q])
        BY <1>1, <2>1, FirstBlocks
      <4> QED BY <1>1, <4>1, FirstBlocks, Zenon DEF Latest
    <3>3. Latest(q).g < next'
      BY <3>1, <3>2 DEF Typed, Globals
    <3> QED BY <1>2, <1>4, <3>1, <3>3, Zenon DEF EndedBefore
  <2>2. CASE ~(Len(out[q]) > 0)
    BY <1>2, <2>2, Zenon DEF EndedBefore
  <2> QED BY <2>1, <2>2, Zenon
<1>11. Scanning(q)'
  BY <1>1, <1>2, <1>6, <1>7, <1>9, <1>10, Zenon DEF Scanning
<1> QED BY <1>3, <1>11, Zenon

(* An error ends a scan. *)
LEMMA ScanFails ==
  ASSUME Typed, Scans, NEW p \in Procs, p \notin fsck, pc[p] # "closed", Others(p),
         fsck' = fsck, damage' = damage, next' = next, NEW cr, NEW w, Fails(p, cr, w)
  PROVE  Continues(p)
<1>1. Ordered(p) /\ Shared /\ fsck = {}
  BY ScanOf, Zenon
<1>2. out' = out /\ CountError(p) /\ GoTo(p, "close")
  BY Zenon DEF Fails
<1>3. errs'[p] > 0
  BY <1>2, ErrorCounted, Zenon
<1>4. pc'[p] = "close"
  BY <1>2, Zenon DEF GoTo, Typed, OneEach
<1>5. Shared'
  BY <1>1, <1>2, <1>3, <1>4, SharedFail, Zenon
<1>6. Ordered(p)'
  BY <1>1, <1>2, OrderedSame, Zenon
<1>7. Scanning(p)'
  BY <1>1, <1>4, Zenon DEF Scanning, Active
<1> QED BY <1>5, <1>6, <1>7, Zenon DEF Continues

(* A scan on its way to the block it is at. *)
LEMMA ScanQuiet ==
  ASSUME Typed, Scans, NEW p \in Procs, p \notin fsck, Others(p), fsck' = fsck, damage' = damage,
         next' = next, rg' = rg, col' = col, vecs' = vecs, out' = out, errs' = errs,
         pc[p] \in Active, pc'[p] \in Fetching, Number(p)' = Number(p),
         crs'[p][col[p]].pos = Cr(p).pos, \A c \in 1..Cols : c # col[p] => crs'[p][c] = crs[p][c],
         col[p] \in Bools /\ need'[p] # 1 => ~Damaged(BlockAt(p, col[p]), "runs")
  PROVE  Continues(p)
<1>1. pc[p] # "closed" /\ pc'[p] \in Active /\ pc'[p] \notin {"claim", "close", "closed"}
  BY Zenon DEF Active, Fetching
<1>2. Ordered(p) /\ Shared /\ fsck = {} /\ InStep(p) /\ Gathered(p) /\ Follows(p)
  BY <1>1, ScanOf, Zenon
<1>3. Shared'
  BY <1>1, <1>2, SharedQuiet, Zenon
<1>4. Ordered(p)'
  BY <1>2, OrderedSame, Zenon
<1>5. InStep(p)'
  <2>1. Cr(p)'.pos = Cr(p).pos
    BY Zenon DEF Cr
  <2> QED BY <1>2, <2>1, Zenon DEF InStep
<1>6. \A c : BlockAt(p, c)' = BlockAt(p, c)
  BY Zenon DEF BlockAt
<1>7. Gathered(p)'
  <2>1. ASSUME NEW b PROVE Sound(b)' <=> Sound(b)
    BY Zenon DEF Sound, Damaged
  <2> QED BY <1>2, <1>6, <2>1, Zenon DEF Gathered, Damaged
<1>8. Follows(p)'
  BY <1>2, Zenon DEF Follows, EndedBefore, Latest
<1>9. Scanning(p)'
  BY <1>1, <1>2, <1>5, <1>7, <1>8, Zenon DEF Scanning
<1> QED BY <1>3, <1>4, <1>9, Zenon DEF Continues

(* A window that was asked for: an error, or the reader on its way to it. *)
LEMMA WindowAsked ==
  ASSUME Typed, NEW p \in Procs, NEW cr \in ColumnReader, NEW n, window(p, cr, n)
  PROVE  \/ Fails(p, cr, Around(p))
         \/ /\ need'[p] = n /\ rg' = rg /\ col' = col /\ vecs' = vecs /\ out' = out /\ errs' = errs
            /\ pc'[p] \in Fetching /\ crs'[p][col[p]].pos = cr.pos /\ crs'[p][col[p]].done = cr.done
            /\ \A c \in 1..Cols : c # col[p] => crs'[p][c] = crs[p][c]
<1>1. CASE cr.pos + n > End(col[p], rg[p])
  BY <1>1, Zenon DEF window, Around
<1>2. CASE ~(cr.pos + n > End(col[p], rg[p]))
  <2>1. /\ need' = [need EXCEPT ![p] = n]
        /\ rg' = rg /\ col' = col /\ vecs' = vecs /\ out' = out /\ errs' = errs
    BY <1>2, Zenon DEF window
  <2>2. /\ SetCr(p, cr) \/ SetCr(p, ClosedCr(cr))
        /\ GoTo(p, "served") \/ GoTo(p, "get") \/ GoTo(p, "read")
    BY <1>2, Zenon DEF window
  <2>3. need'[p] = n /\ pc'[p] \in Fetching
    BY <2>1, <2>2, Zenon DEF GoTo, Fetching, Typed, OneEach
  <2>4. PICK x \in {cr, ClosedCr(cr)} : SetCr(p, x)
    BY <2>2, Zenon
  <2>5. x \in ColumnReader /\ x.pos = cr.pos /\ x.done = cr.done
    BY <2>4, Readers, Zenon
  <2>6. crs'[p][col[p]] = x /\ \A c \in 1..Cols : c # col[p] => crs'[p][c] = crs[p][c]
    BY <2>4, <2>5, ReaderSet, Zenon
  <2> QED BY <2>1, <2>3, <2>5, <2>6, Zenon
<1> QED BY <1>1, <1>2, Zenon

(* The block in the window is the one the scan is at. *)
LEMMA FoundBlock ==
  ASSUME Typed, Buffers, NEW p \in Procs, pc[p] = "served", InStep(p), NEW b \in Found(p)
  PROVE  b = BlockAt(p, col[p]) /\ Number(p) \in 1..NumBlocks(rg[p])
<1>1. rg[p] \in 1..NumRGs /\ col[p] \in 1..Cols
  BY TypedOf, Holding, Constants
<1>2. Number(p) \in 1..NumBlocks(rg[p])
  BY Holding, Zenon DEF Number, Fetch, Fetching
<1>3. NumBlocks(rg[p]) \in Nat
  BY <1>1, Constants, Zenon
<1>4. /\ b = [g |-> rg[p], c |-> col[p], k |-> b.k] /\ b.k \in 1..NumBlocks(rg[p])
      /\ Offset(col[p], rg[p], b.k) = Offset(col[p], rg[p], Number(p))
  BY FoundHere, Zenon DEF InStep
<1>5. b.k \in 1..(NumBlocks(rg[p]) + 1) /\ Number(p) \in 1..(NumBlocks(rg[p]) + 1)
  BY <1>2, <1>3, <1>4
<1>6. b.k = Number(p)
  BY <1>1, <1>4, <1>5, Offsets, Zenon
<1> QED BY <1>2, <1>4, <1>6, Zenon DEF BlockAt

(* The steps of NextBlock on the way to the block. *)
LEMMA NextBlockScans ==
  ASSUME Typed, Buffers, Scans, NEW p \in Procs, p \notin fsck, Others(p), NextBlock(p)
  PROVE  Continues(p)
<1> DEFINE k == Cr(p).done + 1
           cr == [Cr(p) EXCEPT !.done = k]
           n == IF col[p] \in Bools THEN 1 ELSE Sizes[col[p]][rg[p]][k]
<1>1. /\ pc[p] = "block" /\ Cr(p).done < NumBlocks(rg[p]) /\ window(p, cr, n)
      /\ fsck' = fsck /\ damage' = damage /\ next' = next
  BY Zenon DEF NextBlock
<1>2. rg[p] \in 1..NumRGs
  BY <1>1, TypedOf, Holding, Constants
<1>3. k \in BlockNumbers
  <2>1. Cr(p).done \in Nat /\ NumBlocks(rg[p]) \in Nat
    <3>1. \A j \in BlockNumbers : j \in Nat
      BY DEF BlockNumbers
    <3>2. Cr(p).done \in BlockNumbers \union {0}
      BY TypedOf, Zenon DEF ColumnReader
    <3> QED BY <1>2, <3>1, <3>2, Constants
  <2>2. k \in 1..NumBlocks(rg[p])
    BY <1>1, <2>1
  <2> QED BY <1>2, <2>2, Zenon DEF BlockNumbers
<1>4. cr \in ColumnReader /\ cr.done = k /\ cr.pos = Cr(p).pos
  BY <1>3, SameWindow, Zenon
<1>5. pc[p] \in Active /\ pc[p] # "closed"
  BY <1>1, Zenon DEF Active
<1>6. Number(p) = k
  BY <1>1, Zenon DEF Number
<1>7. col[p] \in Bools => n = 1
  BY Zenon
<1> HIDE DEF cr, n, k
<1>8. CASE Fails(p, cr, Around(p))
  BY <1>1, <1>5, <1>8, ScanFails, Zenon
<1>9. CASE ~Fails(p, cr, Around(p))
  <2>1. /\ need'[p] = n /\ rg' = rg /\ col' = col /\ vecs' = vecs /\ out' = out /\ errs' = errs
        /\ pc'[p] \in Fetching /\ crs'[p][col[p]].pos = cr.pos /\ crs'[p][col[p]].done = cr.done
        /\ \A c \in 1..Cols : c # col[p] => crs'[p][c] = crs[p][c]
    BY <1>1, <1>4, <1>9, WindowAsked, Zenon
  <2>2. Number(p)' = Number(p)
    <3>1. pc'[p] # "block"
      BY <2>1, Zenon DEF Fetching
    <3> QED BY <1>4, <1>6, <2>1, <3>1, Zenon DEF Number, Cr
  <2> QED BY <1>1, <1>4, <1>5, <1>7, <2>1, <2>2, ScanQuiet, Zenon
<1> QED BY <1>8, <1>9, Zenon

(* The header of a BOOL block has a run count that can be. *)
LEMMA BoolHeaderScans ==
  ASSUME Typed, Buffers, Scans, NEW p \in Procs, p \notin fsck, Others(p), BoolHeader(p)
  PROVE  Continues(p)
<1>1. /\ pc[p] = "served" /\ fsck' = fsck /\ damage' = damage /\ next' = next
      /\ \/ Fails(p, Cr(p), Around(p))
         \/ \E b, a \in Found(p) : window(p, Cr(p), Size(b)) /\ ~Damaged(a, "runs")
  BY Zenon DEF BoolHeader, Around
<1>2. pc[p] \in Active /\ pc[p] # "closed"
  BY <1>1, Zenon DEF Active
<1>3. CASE Fails(p, Cr(p), Around(p))
  BY <1>1, <1>2, <1>3, ScanFails, Zenon
<1>4. CASE ~Fails(p, Cr(p), Around(p))
  <2>1. PICK b \in Found(p), a \in Found(p) : window(p, Cr(p), Size(b)) /\ ~Damaged(a, "runs")
    BY <1>1, <1>4, Zenon
  <2>2. Cr(p) \in ColumnReader
    BY TypedOf, Zenon
  <2>3. /\ need'[p] = Size(b) /\ rg' = rg /\ col' = col /\ vecs' = vecs /\ out' = out /\ errs' = errs
        /\ pc'[p] \in Fetching /\ crs'[p][col[p]].pos = Cr(p).pos
        /\ crs'[p][col[p]].done = Cr(p).done
        /\ \A c \in 1..Cols : c # col[p] => crs'[p][c] = crs[p][c]
    BY <1>4, <2>1, <2>2, WindowAsked, ZenonT(40)
  <2>4. ~Damaged(BlockAt(p, col[p]), "runs")
    BY <1>1, <1>2, <2>1, ScanOf, FoundBlock, Zenon
  <2>5. Number(p)' = Number(p)
    <3>1. pc'[p] # "block"
      BY <2>3, Zenon DEF Fetching
    <3> QED BY <1>1, <2>3, <3>1, Zenon DEF Number, Cr
  <2> QED BY <1>1, <1>2, <2>3, <2>4, <2>5, ScanQuiet, Zenon
<1> QED BY <1>3, <1>4, Zenon

(* A buffer is found and read into. *)
LEMMA ReadsScan ==
  ASSUME Typed, Buffers, Scans, NEW p \in Procs, p \notin fsck, Others(p),
         GetShared(p) \/ ReadAt(p)
  PROVE  Continues(p)
<1>1. /\ fsck' = fsck /\ damage' = damage /\ next' = next /\ need' = need /\ rg' = rg /\ col' = col
      /\ vecs' = vecs /\ out' = out /\ errs' = errs
      /\ pc[p] \in {"get", "read"} /\ (GoTo(p, "read") \/ GoTo(p, "served"))
  BY Zenon DEF GetShared, ReadAt
<1>2. pc[p] \in Active /\ pc[p] \in Fetching /\ pc[p] \notin {"block", "closed"}
  BY <1>1, Zenon DEF Active, Fetching
<1>3. pc'[p] \in Fetching /\ pc'[p] # "block"
  BY <1>1, Zenon DEF GoTo, Fetching, Typed, OneEach
<1>4. /\ crs'[p][col[p]].pos = Cr(p).pos /\ crs'[p][col[p]].done = Cr(p).done
      /\ \A c \in 1..Cols : c # col[p] => crs'[p][c] = crs[p][c]
  <2>1. CASE GetShared(p)
    BY <2>1, Zenon DEF GetShared, Cr
  <2>2. CASE ReadAt(p)
    <3> DEFINE cr == [Cr(p) EXCEPT !.win = hand[p], !.start = Cr(p).pos,
                                   !.len = Want(p, Cr(p), need[p])]
    <3>1. SetCr(p, cr)
      BY <2>2, Zenon DEF ReadAt
    <3>2. Cr(p) \in ColumnReader /\ crs[p] \in [1..Cols -> ColumnReader] /\ col[p] \in 1..Cols
      BY TypedOf, Zenon
    <3>3. cr.pos = Cr(p).pos /\ cr.done = Cr(p).done
      BY <3>2, Zenon DEF ColumnReader
    <3> HIDE DEF cr
    <3>4. crs'[p] = [crs[p] EXCEPT ![col[p]] = cr]
      BY <3>1, Zenon DEF SetCr, Typed, OneEach
    <3> QED BY <3>2, <3>3, <3>4, Zenon
  <2> QED BY <2>1, <2>2, Zenon
<1>5. Number(p)' = Number(p)
  BY <1>1, <1>2, <1>3, <1>4, Zenon DEF Number, Cr
<1>6. col[p] \in Bools /\ need'[p] # 1 => ~Damaged(BlockAt(p, col[p]), "runs")
  BY <1>1, <1>2, ScanOf, Zenon DEF Gathered
<1> QED BY <1>1, <1>2, <1>3, <1>4, <1>5, <1>6, ScanQuiet, Zenon

(* A worker that claims a row group, or finds none left. *)
LEMMA ClaimScans ==
  ASSUME Typed, Buffers, Scans, NEW p \in Procs, p \notin fsck, Others(p), Claim(p)
  PROVE  Continues(p)
<1>1. /\ pc[p] = "claim" /\ fsck' = fsck /\ damage' = damage /\ vecs' = vecs /\ out' = out
      /\ errs' = errs
  BY Zenon DEF Claim
<1>2. /\ Ordered(p) /\ Shared /\ fsck = {} /\ vecs[p] = <<>> /\ EndedBefore(p, next)
  BY <1>1, ScanOf, Zenon DEF Scanning
<1>3. pc[p] \notin Active
  BY <1>1, Zenon DEF Active
<1>4. Ordered(p)'
  BY <1>1, <1>2, OrderedSame, Zenon
<1>5. CASE next > NumRGs
  <2>1. next' = next /\ rg' = rg /\ GoTo(p, "close")
    BY <1>5, Zenon DEF Claim
  <2>2. pc'[p] = "close" /\ pc'[p] \notin Active
    BY <2>1, Zenon DEF GoTo, Active, Typed, OneEach
  <2>3. Shared'
    BY <1>1, <1>2, <1>3, <1>5, <2>1, <2>2, SharedQuiet, Zenon
  <2>4. Scanning(p)'
    BY <1>1, <1>2, <2>2, Zenon DEF Scanning
  <2> QED BY <1>4, <2>3, <2>4, Zenon DEF Continues
<1>6. CASE ~(next > NumRGs)
  <2>1. /\ next' = next + 1 /\ rg' = [rg EXCEPT ![p] = next] /\ col' = [col EXCEPT ![p] = 1]
        /\ crs' = [crs EXCEPT ![p] = [c \in 1..Cols |-> NewColumnReader]] /\ GoTo(p, "block")
    BY <1>6, Zenon DEF Claim
  <2>2. /\ rg'[p] = next /\ col'[p] = 1 /\ crs'[p] = [c \in 1..Cols |-> NewColumnReader]
        /\ pc'[p] = "block"
    BY <2>1, Zenon DEF GoTo, Typed, OneEach
  <2>3. \A c \in 1..Cols : crs'[p][c].pos = 0 /\ crs'[p][c].done = 0
    BY <2>2, Readers, Zenon
  <2>4. next \in 1..NumRGs /\ next <= NumRGs /\ NumBlocks(next) \in Nat
    BY <1>6, Constants DEF Typed, Globals
  <2>5. \A c \in 1..Cols : Offset(c, next, 1) = 0
    BY <2>4, Offsets, Zenon
  <2>6. 1 \in 1..Cols /\ Cr(p)'.pos = 0 /\ Cr(p)'.done = 0
    BY <2>2, <2>3, Constants, Zenon DEF Cr
  <2>7. Number(p)' = 1
    BY <2>2, <2>6 DEF Number
  <2>8. Shared'
    BY <1>1, <1>2, <1>3, <2>1, <2>2, <2>4, <2>7, SharedClaim, Zenon
  <2>9. InStep(p)'
    <3>1. ASSUME NEW d \in 1..Cols PROVE ~(d < 1)
      OBVIOUS
    <3>2. ASSUME NEW d \in 1..Cols PROVE crs'[p][d].done = 1 - 1 /\ crs'[p][d].pos = Offset(d, next, 1)
      BY <2>3, <2>5
    <3>3. 1 <= NumBlocks(next) + 1
      BY <2>4
    <3> QED BY <2>2, <2>5, <2>6, <2>7, <3>1, <3>2, <3>3, Zenon DEF InStep
  <2>10. Gathered(p)'
    <3>1. 1..(1 - 1) = {} /\ Len(<<>>) = 1 - 1 /\ "block" \notin Fetching
      BY DEF Fetching
    <3> QED BY <1>1, <1>2, <2>2, <3>1, Zenon DEF Gathered
  <2>11. Follows(p)'
    <3>1. ~(1 > 1)
      OBVIOUS
    <3>2. EndedBefore(p, rg[p])'
      BY <1>1, <1>2, <2>2, Zenon DEF EndedBefore, Latest
    <3> QED BY <2>7, <3>1, <3>2, Zenon DEF Follows
  <2>12. Scanning(p)'
    BY <1>1, <1>2, <2>2, <2>9, <2>10, <2>11, Zenon DEF Scanning
  <2> QED BY <1>4, <2>8, <2>12, Zenon DEF Continues
<1> QED BY <1>5, <1>6, Zenon

(* A scan that is through with its row group. *)
LEMMA EndScans ==
  ASSUME Typed, Buffers, Scans, NEW p \in Procs, p \notin fsck, Others(p), EndOfSection(p)
  PROVE  Continues(p)
<1>1. /\ pc[p] = "block" /\ Cr(p).done >= NumBlocks(rg[p]) /\ fsck' = fsck /\ damage' = damage
      /\ next' = next /\ out' = out /\ errs' = errs /\ GoTo(p, "claim")
      /\ crs' = [crs EXCEPT ![p] = [c \in 1..Cols |-> ClosedCr(crs[p][c])]]
      /\ vecs' = [vecs EXCEPT ![p] = <<>>]
  BY Zenon DEF EndOfSection
<1>2. pc[p] \in Active /\ pc[p] # "closed"
  BY <1>1, Zenon DEF Active
<1>3. /\ Ordered(p) /\ Shared /\ fsck = {} /\ InStep(p) /\ Follows(p)
  BY <1>1, <1>2, ScanOf, Zenon
<1>4. /\ pc'[p] = "claim" /\ vecs'[p] = <<>>
      /\ crs'[p] = [c \in 1..Cols |-> ClosedCr(crs[p][c])]
  BY <1>1, Zenon DEF GoTo, Typed, OneEach
<1>5. rg[p] \in 1..NumRGs /\ NumBlocks(rg[p]) \in Nat
  <2>1. rg[p] \in 1..NumRGs
    BY <1>1, TypedOf, Holding, Constants
  <2> QED BY <2>1, Constants, ZenonT(40)
<1>6. Cr(p).done \in Nat
  <2>1. \A j \in BlockNumbers : j \in Nat
    BY DEF BlockNumbers
  <2> QED BY <2>1, TypedOf DEF ColumnReader
<1>7. Number(p) = NumBlocks(rg[p]) + 1
  <2>1. Number(p) = Cr(p).done + 1 /\ Number(p) <= NumBlocks(rg[p]) + 1
    BY <1>1, <1>3, Zenon DEF Number, InStep
  <2> QED BY <1>1, <1>5, <1>6, <2>1
<1>8. Number(p) - 1 = NumBlocks(rg[p])
  BY <1>5, <1>7
<1>9. Shared'
  BY <1>1, <1>2, <1>3, <1>4, <1>8, SharedEnd, Zenon
<1>10. rg[p] < next
  BY <1>2, <1>3, <1>5, Zenon DEF Shared, Claimed, Serves
<1>11. EndedBefore(p, next)
  <2>1. CASE Number(p) > 1
    <3>1. Latest(p) = [g |-> rg[p], c |-> 1, k |-> NumBlocks(rg[p])]
      BY <1>3, <1>8, <2>1, Zenon DEF Follows
    <3>2. Latest(p).g = rg[p] /\ Latest(p).k = NumBlocks(rg[p])
      BY <3>1
    <3> QED BY <1>10, <3>2, Zenon DEF EndedBefore
  <2>2. CASE ~(Number(p) > 1)
    <3> SUFFICES ASSUME Len(out[p]) > 0
                 PROVE  Latest(p).k = NumBlocks(Latest(p).g) /\ Latest(p).g < next
      BY Zenon DEF EndedBefore
    <3>1. Latest(p).k = NumBlocks(Latest(p).g) /\ Latest(p).g < rg[p]
      BY <1>3, <2>2, Zenon DEF Follows, EndedBefore
    <3>2. Latest(p).g \in Nat
      <4>1. Len(out[p]) \in 1..Len(out[p])
        BY <1>3, FirstBlocks
      <4> QED BY <1>3, <4>1, FirstBlocks, Zenon DEF Latest
    <3>3. Latest(p).g < next
      BY <1>5, <1>10, <3>1, <3>2, SMTT(60) DEF Typed, Globals
    <3> QED BY <3>1, <3>3, Zenon
  <2> QED BY <2>1, <2>2, Zenon
<1>12. \A c \in 1..Cols : crs'[p][c].win = NoBuf
  <2>1. \A c \in 1..Cols : crs[p][c] \in ColumnReader
    BY TypedOf, Zenon
  <2>2. \A c \in 1..Cols : ClosedCr(crs[p][c]).win = NoBuf
    BY <2>1, Readers, Zenon
  <2> QED BY <1>4, <2>2, Zenon
<1>13. EndedBefore(p, next)'
  BY <1>1, <1>11, Zenon DEF EndedBefore, Latest
<1>14. Scanning(p)'
  BY <1>1, <1>3, <1>4, <1>12, <1>13, Zenon DEF Scanning, Active
<1>15. Ordered(p)'
  BY <1>1, <1>3, OrderedSame, Zenon
<1> QED BY <1>9, <1>14, <1>15, Zenon DEF Continues

(* The readers once a block is taken: those up to the column have it. *)
LEMMA ReadersTaken ==
  ASSUME Typed, Buffers, NEW p \in Procs, pc[p] = "served", InStep(p),
         NEW b \in Found(p), Size(b) = need[p], SetCr(p, [Cr(p) EXCEPT !.pos = @ + need[p]]),
         NEW d \in 1..Cols
  PROVE  /\ d <= col[p] => /\ crs'[p][d].done = Number(p)
                           /\ crs'[p][d].pos = Offset(d, rg[p], Number(p) + 1)
         /\ d > col[p] => /\ crs'[p][d].done = Number(p) - 1
                          /\ crs'[p][d].pos = Offset(d, rg[p], Number(p))
<1> DEFINE cr == [Cr(p) EXCEPT !.pos = @ + need[p]]
<1>1. b = BlockAt(p, col[p]) /\ Number(p) \in 1..NumBlocks(rg[p])
  BY FoundBlock, Zenon
<1>2. rg[p] \in 1..NumRGs /\ col[p] \in 1..Cols /\ Cols \in Nat
  BY TypedOf, Holding, Constants
<1>3. cr \in ColumnReader /\ cr.done = Cr(p).done /\ cr.pos = Cr(p).pos + need[p]
  BY SameWindow, Zenon
<1>4. crs'[p][col[p]] = cr /\ \A c \in 1..Cols : c # col[p] => crs'[p][c] = crs[p][c]
  BY <1>3, ReaderSet, Zenon
<1>5. Cr(p).done = Number(p)
  BY Zenon DEF Number
<1>6. NumBlocks(rg[p]) \in Nat
  BY <1>2, Constants, Zenon
<1> HIDE DEF cr
<1>7. CASE d = col[p]
  <2>1. b.g = rg[p] /\ b.c = col[p] /\ b.k = Number(p)
    BY <1>1, Zenon DEF BlockAt
  <2>2. need[p] = Sizes[col[p]][rg[p]][Number(p)]
    BY <2>1, Zenon DEF Size
  <2>3. cr.pos = Offset(col[p], rg[p], Number(p) + 1)
    <3>1. Offset(col[p], rg[p], Number(p) + 1)
            = Offset(col[p], rg[p], Number(p)) + Sizes[col[p]][rg[p]][Number(p)]
      BY <1>1, <1>2, Offsets, Zenon
    <3> QED BY <1>3, <2>2, <3>1, Zenon DEF InStep
  <2>4. ~(col[p] > col[p])
    BY <1>2
  <2> QED BY <1>3, <1>4, <1>5, <1>7, <2>3, <2>4, Zenon
<1>8. CASE d # col[p]
  <2>1. d < col[p] \/ d > col[p]
    BY <1>2, <1>8
  <2>2. LET k == IF d < col[p] THEN Number(p) + 1 ELSE Number(p)
        IN crs[p][d].done = k - 1 /\ crs[p][d].pos = Offset(d, rg[p], k)
    BY <1>8, Zenon DEF InStep
  <2>3. crs'[p][d] = crs[p][d]
    BY <1>4, <1>8, Zenon
  <2>4. CASE d < col[p]
    <3>1. crs[p][d].done = Number(p) /\ crs[p][d].pos = Offset(d, rg[p], Number(p) + 1)
      BY <1>1, <1>6, <2>2, <2>4
    <3>2. ~(d > col[p])
      BY <1>2, <2>4
    <3> QED BY <2>3, <3>1, <3>2, Zenon
  <2>5. CASE d > col[p]
    <3>1. ~(d < col[p]) /\ ~(d <= col[p])
      BY <1>2, <2>5
    <3> QED BY <2>2, <2>3, <3>1, Zenon
  <2> QED BY <2>1, <2>4, <2>5, Zenon
<1> QED BY <1>7, <1>8, Zenon

(* The block taken is sound: a run count that cannot be was seen before. *)
LEMMA TakenSound ==
  ASSUME Typed, Buffers, NEW p \in Procs, pc[p] = "served", InStep(p), Gathered(p),
         NEW b \in Found(p), ~Damaged(b, "crc"), col[p] \notin Bools \/ need[p] # 1
  PROVE  Sound(b)
<1>1. b = BlockAt(p, col[p])
  BY FoundBlock, Zenon
<1>2. CASE col[p] \in Bools
  BY <1>1, <1>2, Zenon DEF Gathered, Fetching, Sound
<1>3. CASE col[p] \notin Bools
  <2>1. b.c = col[p]
    BY <1>1, Zenon DEF BlockAt
  <2>2. ASSUME Damaged(b, "runs") PROVE FALSE
    <3>1. damage.kind = "runs" /\ damage.c = b.c
      BY <2>2, Zenon DEF Damaged
    <3>2. damage \in Damages
      BY Zenon DEF Typed, Globals
    <3>3. damage.c \in Bools
      BY <3>1, <3>2, ScanAssumption, Zenon
    <3> QED BY <1>3, <2>1, <3>1, <3>3, Zenon
  <2> QED BY <2>2, Zenon DEF Sound
<1> QED BY <1>2, <1>3, Zenon

(* A block of a column before the last. *)
LEMMA TakenMore ==
  ASSUME Typed, Buffers, Scans, NEW p \in Procs, p \notin fsck, Others(p), pc[p] = "served",
         InStep(p), Gathered(p), Follows(p), fsck' = fsck, damage' = damage, next' = next,
         NEW b \in Found(p), Size(b) = need[p], Sound(b),
         SetCr(p, [Cr(p) EXCEPT !.pos = @ + need[p]]), pc'[p] = "block", rg' = rg, errs' = errs,
         col[p] # Cols, vecs'[p] = Append(vecs[p], b), out'[p] = out[p], col'[p] = col[p] + 1
  PROVE  Continues(p)
<1>1. /\ col[p] \in 1..Cols /\ Cols \in Nat /\ vecs[p] \in Seq(Block)
      /\ rg[p] \in 1..NumRGs
  BY TypedOf, Holding, Constants DEF Own
<1>2. b = BlockAt(p, col[p]) /\ Number(p) \in 1..NumBlocks(rg[p])
  BY FoundBlock, Zenon
<1>3. NumBlocks(rg[p]) \in Nat
  BY <1>1, Constants, Zenon
<1>4. col[p] + 1 \in 1..Cols /\ col[p] + 1 > col[p] /\ Number(p) - 1 + 1 = Number(p)
  BY <1>1, <1>2, <1>3, SMTT(60)
<1>5. /\ crs'[p][col[p] + 1].done = Number(p) - 1
      /\ crs'[p][col[p] + 1].pos = Offset(col[p] + 1, rg[p], Number(p))
  BY <1>4, ReadersTaken, Zenon
<1>6. Number(p)' = Number(p) /\ Cr(p)'.pos = Offset(col[p] + 1, rg[p], Number(p))
  BY <1>4, <1>5, Zenon DEF Number, Cr
<1>7. InStep(p)'
  <2>1. Number(p) <= NumBlocks(rg[p]) + 1 /\ Number(p) <= NumBlocks(rg[p])
    BY <1>2, <1>3
  <2>2. ASSUME NEW d \in 1..Cols, d # col[p] + 1, NEW k, k = IF d < col[p] + 1 THEN Number(p) + 1 ELSE Number(p)
        PROVE  crs'[p][d].done = k - 1 /\ crs'[p][d].pos = Offset(d, rg[p], k)
    <3>1. CASE d < col[p] + 1
      <4>1. d <= col[p] /\ Number(p) \in Nat
        BY <1>1, <1>2, <1>3, <3>1
      <4>2. k = Number(p) + 1
        BY <2>2, <3>1, Zenon
      <4>3. crs'[p][d].done = Number(p) /\ crs'[p][d].pos = Offset(d, rg[p], Number(p) + 1)
        BY <4>1, ReadersTaken, Zenon
      <4> QED BY <4>1, <4>2, <4>3
    <3>2. CASE ~(d < col[p] + 1)
      <4>1. d > col[p]
        BY <1>1, <3>2
      <4>2. k = Number(p)
        BY <2>2, <3>2, Zenon
      <4>3. crs'[p][d].done = Number(p) - 1 /\ crs'[p][d].pos = Offset(d, rg[p], Number(p))
        BY <4>1, ReadersTaken, Zenon
      <4> QED BY <4>2, <4>3, Zenon
    <3> QED BY <3>1, <3>2, Zenon
  <2> QED BY <1>6, <2>1, <2>2, Zenon DEF InStep
<1>8. \A c : BlockAt(p, c)' = BlockAt(p, c)
  BY <1>6, Zenon DEF BlockAt
<1>9. Gathered(p)'
  <2>2. /\ Len(vecs[p]) = col[p] - 1
        /\ \A d \in 1..(col[p] - 1) : vecs[p][d] = BlockAt(p, d) /\ Sound(vecs[p][d])
    BY Zenon DEF Gathered
  <2>3. Len(vecs'[p]) = col'[p] - 1
    BY <1>1, <2>2
  <2>4. ASSUME NEW d \in 1..(col'[p] - 1) PROVE vecs'[p][d] = BlockAt(p, d) /\ Sound(vecs'[p][d])
    <3>1. CASE d = col[p]
      <4>1. vecs'[p][d] = b
        BY <1>1, <2>2, <3>1
      <4> QED BY <1>2, <3>1, <4>1, Zenon
    <3>2. CASE d # col[p]
      <4>1. d \in 1..(col[p] - 1)
        BY <1>1, <3>2
      <4>2. vecs'[p][d] = vecs[p][d]
        BY <1>1, <2>2, <4>1
      <4> QED BY <2>2, <4>1, <4>2, Zenon
    <3> QED BY <3>1, <3>2, Zenon
  <2>5. pc'[p] \notin Fetching
    BY Zenon DEF Fetching
  <2>6. \A d \in 1..(col'[p] - 1) : vecs'[p][d] = BlockAt(p, d)' /\ Sound(vecs[p][d])'
    BY <1>8, <2>4, Zenon DEF Sound, Damaged
  <2> QED BY <2>3, <2>5, <2>6, Zenon DEF Gathered
<1>10. Follows(p)'
  BY <1>6, Zenon DEF Follows, EndedBefore, Latest
<1>11. pc[p] \in Active /\ pc'[p] \in Active /\ pc[p] # "closed" /\ pc'[p] \notin {"claim", "close", "closed"}
  BY Zenon DEF Active
<1>12. Ordered(p) /\ Shared /\ fsck = {}
  BY <1>11, ScanOf, Zenon
<1>13. Shared'
  BY <1>6, <1>11, <1>12, SharedQuiet, Zenon
<1>14. Ordered(p)'
  BY <1>12, OrderedSame, Zenon
<1>15. Scanning(p)'
  BY <1>7, <1>9, <1>10, <1>11, <1>12, Zenon DEF Scanning
<1> QED BY <1>13, <1>14, <1>15, Zenon DEF Continues

(* The batch that the last column completes. *)
LEMMA BatchComplete ==
  ASSUME Typed, Buffers, NEW p \in Procs, pc[p] = "served", InStep(p), Gathered(p),
         NEW b \in Found(p), Sound(b), col[p] = Cols
  PROVE  LET batch == Append(vecs[p], b)
         IN /\ batch \in Seq(Block) /\ Len(batch) = Cols
            /\ \A c \in 1..Cols : batch[c] = BlockAt(p, c) /\ Sound(batch[c])
<1>1. col[p] \in 1..Cols /\ Cols \in Nat /\ vecs[p] \in Seq(Block)
  BY TypedOf, Holding, Constants, Zenon DEF Own
<1>2. b = BlockAt(p, col[p]) /\ b \in Block
  BY FoundBlock, FoundHere, Zenon
<1>3. /\ Len(vecs[p]) = Cols - 1
      /\ \A d \in 1..(Cols - 1) : vecs[p][d] = BlockAt(p, d) /\ Sound(vecs[p][d])
  BY Zenon DEF Gathered
<1>4. Append(vecs[p], b) \in Seq(Block) /\ Len(Append(vecs[p], b)) = Cols
  BY <1>1, <1>2, <1>3
<1>5. ASSUME NEW c \in 1..Cols
      PROVE  Append(vecs[p], b)[c] = BlockAt(p, c) /\ Sound(Append(vecs[p], b)[c])
  <2>1. CASE c = Cols
    <3>1. Append(vecs[p], b)[c] = b
      BY <1>1, <1>3, <2>1
    <3> QED BY <1>2, <2>1, <3>1, Zenon
  <2>2. CASE c # Cols
    <3>1. c \in 1..(Cols - 1)
      BY <1>1, <2>2
    <3>2. Append(vecs[p], b)[c] = vecs[p][c]
      BY <1>1, <1>3, <3>1
    <3> QED BY <1>3, <3>1, <3>2, Zenon
  <2> QED BY <2>1, <2>2, Zenon
<1> QED BY <1>4, <1>5, Zenon

(* The block of the last column, and the batch is returned. *)
LEMMA TakenLast ==
  ASSUME Typed, Buffers, Scans, NEW p \in Procs, p \notin fsck, Others(p), pc[p] = "served",
         InStep(p), Gathered(p), Follows(p), fsck' = fsck, damage' = damage, next' = next,
         NEW b \in Found(p), Size(b) = need[p], Sound(b),
         SetCr(p, [Cr(p) EXCEPT !.pos = @ + need[p]]), pc'[p] = "block", rg' = rg, errs' = errs,
         col[p] = Cols, vecs'[p] = <<>>, out'[p] = Append(out[p], Append(vecs[p], b)), col'[p] = 1
  PROVE  Continues(p)
<1> DEFINE batch == Append(vecs[p], b)
           n == Len(out[p])
<1>1. /\ 1 \in 1..Cols /\ Cols \in Nat /\ rg[p] \in 1..NumRGs
  BY TypedOf, Holding, Constants
<1>2. Number(p) \in 1..NumBlocks(rg[p])
  BY FoundBlock, Zenon
<1>3. NumBlocks(rg[p]) \in Nat
  BY <1>1, Constants, Zenon
<1>4. Number(p) \in Nat /\ Number(p) >= 1
  BY <1>2, <1>3
<1>5. \A d \in 1..Cols : /\ crs'[p][d].done = Number(p)
                         /\ crs'[p][d].pos = Offset(d, rg[p], Number(p) + 1)
  <2>1. \A d \in 1..Cols : d <= Cols
    BY <1>1
  <2> QED BY <2>1, ReadersTaken, Zenon
<1>6. Number(p)' = Number(p) + 1 /\ Cr(p)'.pos = Offset(1, rg[p], Number(p) + 1)
  BY <1>1, <1>5, Zenon DEF Number, Cr
<1>7. InStep(p)'
  <2>1. Number(p) + 1 <= NumBlocks(rg[p]) + 1
    BY <1>2, <1>3
  <2>2. \A d \in 1..Cols : ~(d < 1)
    OBVIOUS
  <2>3. \A d \in 1..Cols : crs'[p][d].done = Number(p) + 1 - 1
    BY <1>4, <1>5
  <2>4. ASSUME NEW d \in 1..Cols, NEW k, k = IF d < 1 THEN Number(p) + 2 ELSE Number(p) + 1
        PROVE  crs'[p][d].done = k - 1 /\ crs'[p][d].pos = Offset(d, rg[p], k)
    <3>1. k = Number(p) + 1
      BY <2>2, <2>4, Zenon
    <3>2. k - 1 = Number(p)
      BY <1>4, <3>1
    <3>3. crs'[p][d].pos = Offset(d, rg[p], k)
      BY <1>5, <3>1, Zenon
    <3> QED BY <1>5, <3>2, <3>3, Zenon
  <2> QED BY <1>4, <1>6, <2>1, <2>4, SMTT(60) DEF InStep
<1>8. Gathered(p)'
  <2>1. 1..(1 - 1) = {} /\ Len(<<>>) = 1 - 1 /\ "block" \notin Fetching
    BY DEF Fetching
  <2> QED BY <2>1, Zenon DEF Gathered
<1>9. /\ batch \in Seq(Block) /\ Len(batch) = Cols
      /\ \A c \in 1..Cols : batch[c] = BlockAt(p, c) /\ Sound(batch[c])
  BY BatchComplete, Zenon
<1>10. batch[1] = [g |-> rg[p], c |-> 1, k |-> Number(p)]
  BY <1>1, <1>9, Zenon DEF BlockAt
<1> HIDE DEF batch
<1>11. pc[p] \in Active /\ pc'[p] \in Active /\ pc[p] # "closed" /\ pc'[p] \notin {"claim", "close", "closed"}
  BY Zenon DEF Active
<1>12. Ordered(p) /\ Shared /\ fsck = {}
  BY <1>11, ScanOf, Zenon
<1>13. Shared'
  BY <1>4, <1>6, <1>9, <1>10, <1>11, <1>12, SharedTake, Zenon DEF batch
<1>14. out[p] \in Seq(Seq(Block)) /\ n \in Nat /\ DOMAIN out[p] = 1..n
  BY <1>12, FirstBlocks, Zenon
<1>15. /\ Len(out'[p]) = n + 1 /\ DOMAIN out'[p] = 1..(n + 1) /\ out'[p][n + 1] = batch
       /\ \A i \in 1..n : out'[p][i] = out[p][i]
  <2>1. out'[p] = Append(out[p], batch)
    BY Zenon DEF batch
  <2> QED BY <1>9, <1>14, <2>1
<1> HIDE DEF n
<1>16. Follows(p)'
  <2>1. Latest(p)' = [g |-> rg[p], c |-> 1, k |-> Number(p)]
    BY <1>10, <1>15, Zenon DEF Latest
  <2>2. Number(p)' > 1 /\ Number(p)' - 1 = Number(p)
    BY <1>4, <1>6
  <2>3. Len(out'[p]) > 0
    BY <1>14, <1>15
  <2> QED BY <2>1, <2>2, <2>3, Zenon DEF Follows
<1>17. Scanning(p)'
  BY <1>7, <1>8, <1>11, <1>12, <1>16, ZenonT(40) DEF Scanning
<1>18. Ordered(p)'
  <2>1. ASSUME NEW i \in 1..n, NEW x, x = out[p][i]
        PROVE  /\ Len(x) = Cols
               /\ \A c \in 1..Cols : x[c] = [x[1] EXCEPT !.c = c]
               /\ \A c \in 1..Cols : Sound(x[c])
               /\ IF x[1].k > 1 THEN i > 1 /\ out'[p][i - 1][1] = [x[1] EXCEPT !.k = @ - 1]
                  ELSE i > 1 => LET prev == out'[p][i - 1][1]
                                IN prev.k = NumBlocks(prev.g) /\ prev.g < x[1].g
    <3>1. i > 1 => i - 1 \in 1..n /\ out'[p][i - 1] = out[p][i - 1]
      BY <1>14, <1>15
    <3> QED BY <1>12, <1>14, <2>1, <3>1, ZenonT(40) DEF Ordered
  <2>2. /\ \A c \in 1..Cols : batch[c] = [batch[1] EXCEPT !.c = c]
        /\ batch[1].g = rg[p] /\ batch[1].k = Number(p)
    BY <1>9, <1>10 DEF BlockAt
  <2>3. IF batch[1].k > 1 THEN n + 1 > 1 /\ out'[p][n][1] = [batch[1] EXCEPT !.k = @ - 1]
        ELSE n + 1 > 1 => LET prev == out'[p][n][1]
                          IN prev.k = NumBlocks(prev.g) /\ prev.g < batch[1].g
    <3>1. n > 0 => Latest(p) = out'[p][n][1]
      BY <1>14, <1>15 DEF Latest, n
    <3>2. CASE Number(p) > 1
      <4>1. n > 0 /\ Latest(p) = [g |-> rg[p], c |-> 1, k |-> Number(p) - 1]
        BY <3>2, Zenon DEF Follows, n
      <4>2. [batch[1] EXCEPT !.k = @ - 1] = [g |-> rg[p], c |-> 1, k |-> Number(p) - 1]
        BY <1>10
      <4>3. n + 1 > 1
        BY <1>14, <4>1
      <4> QED BY <2>2, <3>1, <3>2, <4>1, <4>2, <4>3, Zenon
    <3>3. CASE ~(Number(p) > 1)
      <4>1. n > 0 => Latest(p).k = NumBlocks(Latest(p).g) /\ Latest(p).g < rg[p]
        BY <3>3, Zenon DEF Follows, EndedBefore, n
      <4>2. n + 1 > 1 => n > 0
        BY <1>14
      <4> QED BY <2>2, <3>1, <3>3, <4>1, <4>2, Zenon
    <3> QED BY <3>2, <3>3, Zenon
  <2>4. n + 1 - 1 = n /\ \A i \in 1..(n + 1) : i \in 1..n \/ i = n + 1
    BY <1>14
  <2>5. ASSUME NEW i \in 1..(n + 1), NEW x, x = out'[p][i]
        PROVE  /\ Len(x) = Cols
               /\ \A c \in 1..Cols : x[c] = [x[1] EXCEPT !.c = c]
               /\ \A c \in 1..Cols : Sound(x[c])
               /\ IF x[1].k > 1 THEN i > 1 /\ out'[p][i - 1][1] = [x[1] EXCEPT !.k = @ - 1]
                  ELSE i > 1 => LET prev == out'[p][i - 1][1]
                                IN prev.k = NumBlocks(prev.g) /\ prev.g < x[1].g
    <3>1. CASE i \in 1..n
      <4>1. x = out[p][i]
        BY <1>15, <2>5, <3>1, Zenon
      <4> QED BY <2>1, <3>1, <4>1, ZenonT(40)
    <3>2. CASE i = n + 1
      <4>1. x = batch
        BY <1>15, <2>5, <3>2, Zenon
      <4>2. i - 1 = n
        BY <1>14, <3>2
      <4>3. IF x[1].k > 1 THEN i > 1 /\ out'[p][i - 1][1] = [x[1] EXCEPT !.k = @ - 1]
            ELSE i > 1 => LET prev == out'[p][i - 1][1]
                          IN prev.k = NumBlocks(prev.g) /\ prev.g < x[1].g
        BY <2>3, <3>2, <4>1, <4>2, Zenon
      <4>4. /\ Len(x) = Cols /\ \A c \in 1..Cols : Sound(x[c])
            /\ \A c \in 1..Cols : x[c] = [x[1] EXCEPT !.c = c]
        BY <1>9, <2>2, <4>1, Zenon
      <4> QED BY <4>3, <4>4, Zenon
    <3> QED BY <2>4, <3>1, <3>2, Zenon
  <2>6. \A i \in 1..(n + 1) : \A c \in 1..Cols : Sound(out[p][i][c])'
    <3> SUFFICES ASSUME NEW i \in 1..(n + 1), NEW c \in 1..Cols PROVE Sound(out[p][i][c])'
      BY Zenon
    <3>1. PICK x : x = out'[p][i]
      BY Zenon
    <3>2. Sound(x[c])
      BY <2>5, <3>1, Zenon
    <3> QED BY <3>1, <3>2, Zenon DEF Sound, Damaged
  <2> QED BY <1>15, <2>5, <2>6, ZenonT(40) DEF Ordered
<1> QED BY <1>13, <1>17, <1>18, Zenon DEF Continues

(* A block is taken, or the scan fails. *)
LEMMA TakeBlockScans ==
  ASSUME Typed, Buffers, Scans, NEW p \in Procs, p \notin fsck, Others(p), TakeBlock(p)
  PROVE  Continues(p)
<1> DEFINE cr == [Cr(p) EXCEPT !.pos = @ + need[p]]
<1>1. /\ pc[p] = "served" /\ fsck' = fsck /\ damage' = damage /\ next' = next
      /\ col[p] \notin Bools \/ need[p] # 1
  BY Zenon DEF TakeBlock
<1>2. pc[p] \in Active /\ pc[p] # "closed"
  BY <1>1, Zenon DEF Active
<1>3. InStep(p) /\ Gathered(p) /\ Follows(p)
  BY <1>2, ScanOf, Zenon
<1>4. CASE Fails(p, cr, Around(p))
  BY <1>1, <1>2, <1>4, ScanFails, Zenon
<1>5. CASE ~Fails(p, cr, Around(p))
  <2>1. SetCr(p, cr) /\ pc'[p] = "block" /\ rg' = rg /\ errs' = errs
    BY <1>5, BlockTaken, Zenon
  <2>2. PICK b \in Found(p) :
          /\ Size(b) = need[p] /\ ~Damaged(b, "crc")
          /\ p \notin fsck /\ col[p] = Cols =>
               vecs'[p] = <<>> /\ out'[p] = Append(out[p], Append(vecs[p], b)) /\ col'[p] = 1
          /\ p \notin fsck /\ col[p] # Cols =>
               vecs'[p] = Append(vecs[p], b) /\ out'[p] = out[p] /\ col'[p] = col[p] + 1
    BY <1>5, BlockTaken, Zenon
  <2>3. Sound(b)
    BY <1>1, <1>3, <2>2, TakenSound, Zenon
  <2>4. CASE col[p] = Cols
    BY <1>1, <1>3, <2>1, <2>2, <2>3, <2>4, TakenLast, Zenon
  <2>5. CASE col[p] # Cols
    BY <1>1, <1>3, <2>1, <2>2, <2>3, <2>5, TakenMore, Zenon
  <2> QED BY <2>4, <2>5, Zenon
<1> QED BY <1>4, <1>5, Zenon

(* A scan that finds the query cancelled, or whose read failed. *)
LEMMA FailureScans ==
  ASSUME Typed, Buffers, Scans, NEW p \in Procs, p \notin fsck, Others(p),
         Cancelled(p) \/ ReadFails(p)
  PROVE  Continues(p)
<1>1. CASE ReadFails(p)
  <2>1. /\ pc[p] = "read" /\ fsck' = fsck /\ damage' = damage /\ next' = next
        /\ Fails(p, Cr(p), releaseBuf(Waiting(free[p], pool), hand[p]))
    BY <1>1, Zenon DEF ReadFails
  <2>2. pc[p] # "closed"
    BY <2>1, Zenon
  <2> QED BY <2>1, <2>2, ScanFails, Zenon
<1>2. CASE Cancelled(p)
  <2>1. /\ pc[p] = "block" /\ CountError(p) /\ GoTo(p, "close") /\ fsck' = fsck
        /\ damage' = damage /\ next' = next /\ out' = out
    BY <1>2, Zenon DEF Cancelled
  <2>2. errs'[p] > 0 /\ pc'[p] = "close" /\ pc[p] # "closed"
    BY <2>1, ErrorCounted, Zenon DEF GoTo, Typed, OneEach
  <2>3. Ordered(p) /\ Shared /\ fsck = {}
    BY <2>2, ScanOf, Zenon
  <2>4. Shared'
    BY <2>1, <2>2, <2>3, SharedFail, Zenon
  <2>5. Ordered(p)'
    BY <2>1, <2>3, OrderedSame, ZenonT(40)
  <2>6. Scanning(p)'
    BY <2>1, <2>2, <2>3, Zenon DEF Scanning, Active
  <2> QED BY <2>4, <2>5, <2>6, Zenon DEF Continues
<1> QED BY <1>1, <1>2, Zenon

(* A scan that closes. *)
LEMMA CloseScans ==
  ASSUME Typed, Buffers, Scans, NEW p \in Procs, p \notin fsck, Others(p), CloseReader(p)
  PROVE  Continues(p)
<1>1. /\ pc[p] = "close" /\ GoTo(p, "closed") /\ fsck' = fsck /\ damage' = damage /\ next' = next
      /\ out' = out /\ errs' = errs /\ rg' = rg
  BY Zenon DEF CloseReader
<1>2. pc'[p] = "closed"
  BY <1>1, Zenon DEF GoTo, Typed, OneEach
<1>3. pc[p] \notin Active /\ pc'[p] \notin Active /\ pc[p] # "closed" /\ pc'[p] # "claim"
  BY <1>1, <1>2, Zenon DEF Active
<1>4. Ordered(p) /\ Shared /\ fsck = {}
  BY <1>3, ScanOf, Zenon
<1>5. errs[p] > 0 \/ next > NumRGs
  BY <1>1, <1>4, Zenon DEF Shared, StopsLate
<1>6. Shared'
  BY <1>1, <1>3, <1>4, <1>5, SharedQuiet, Zenon
<1>7. Ordered(p)'
  BY <1>1, <1>4, OrderedSame, Zenon
<1>8. Scanning(p)'
  BY <1>2, <1>3, Zenon DEF Scanning
<1> QED BY <1>6, <1>7, <1>8, Zenon DEF Continues

(* Every step keeps what is known of the scans. *)
LEMMA ScansKept ==
  ASSUME Typed, Buffers, Scans, NEW p \in Procs, Step(p)
  PROVE  Scans'
<1>1. Others(p) /\ fsck' = fsck /\ damage' = damage
  BY Frame, Zenon
<1>2. Typed'
  BY BuffersKept, Zenon
<1>3. next' \in Nat /\ next' >= next
  <2>1. next \in Nat /\ next' \in Nat
    BY <1>2 DEF Typed, Globals
  <2>2. next' = next \/ next' = next + 1
    BY Zenon DEF Step, Claim, EndOfSection, NextBlock, GetShared, ReadAt, ReadFails, BoolHeader,
                 TakeBlock, Cancelled, CloseReader
  <2> QED BY <2>1, <2>2
<1>4. \A q \in Procs \ fsck : q # p => (Ordered(q) /\ Scanning(q))'
  BY <1>1, <1>3, OtherScans, Zenon
<1>5. CASE p \in fsck
  <2>1. Shared'
    BY <1>1, <1>5, Zenon DEF Shared
  <2> QED BY <1>1, <1>4, <1>5, <2>1, Zenon DEF Scans
<1>6. CASE p \notin fsck
  <2>1. Continues(p)
    BY <1>1, <1>6, ClaimScans, EndScans, NextBlockScans, ReadsScan, BoolHeaderScans, TakeBlockScans,
       FailureScans, CloseScans, Zenon DEF Step
  <2> QED BY <1>1, <1>4, <1>6, <2>1, Zenon DEF Scans, Continues
<1> QED BY <1>5, <1>6, Zenon

-----------------------------------------------------------------------------
(***************************************************************************)
(* The invariant.                                                          *)
(***************************************************************************)

(* What a process has when the program starts. *)
LEMMA Started ==
  ASSUME Init, NEW p \in Procs
  PROVE  /\ free[p] = <<>> /\ hand[p] = NoBuf /\ need[p] = 0 /\ rg[p] = 1 /\ col[p] = 1
         /\ pass[p] = "check" /\ vecs[p] = <<>> /\ out[p] = <<>> /\ errs[p] = 0
         /\ crs[p] = [c \in 1..Cols |-> NewColumnReader]
         /\ \A c \in 1..Cols : crs[p][c].win = NoBuf
         /\ pc[p] = IF p \notin fsck THEN IF fsck = {} THEN "claim" ELSE "closed"
                    ELSE IF NumRGs = 0 THEN "close" ELSE "block"
<1>1. /\ free[p] = <<>> /\ hand[p] = NoBuf /\ need[p] = 0 /\ rg[p] = 1 /\ col[p] = 1
      /\ pass[p] = "check" /\ vecs[p] = <<>> /\ out[p] = <<>> /\ errs[p] = 0
      /\ crs[p] = [c \in 1..Cols |-> NewColumnReader]
  BY Zenon DEF Init
<1>2. \A c \in 1..Cols : crs[p][c].win = NoBuf
  BY <1>1, Readers, Zenon
<1>3. pc[p] = IF p \notin fsck THEN IF fsck = {} THEN "claim" ELSE "closed"
              ELSE IF NumRGs = 0 THEN "close" ELSE "block"
  BY Zenon DEF Init
<1> QED BY <1>1, <1>2, <1>3, Zenon

(* Every variable starts with its type. *)
LEMMA InitTyped == Init => Typed
<1> SUFFICES ASSUME Init PROVE Typed
  BY Zenon
<1>1. Globals
  <2>1. [g |-> 0, c |-> 0, from |-> 0, len |-> 0] \in FileRange
    BY Constants DEF FileRange
  <2>2. next \in 1..(NumRGs + 1)
    BY Constants DEF Init
  <2>3. faults \in 0..MaxFaults /\ hit \subseteq Procs
    BY ScanAssumption DEF Init
  <2>4. pool \in [Bufs -> Nat] /\ cap \in [Bufs -> Nat] /\ content \in [Bufs -> FileRange]
    BY <2>1, Zenon DEF Init
  <2> QED BY <2>2, <2>3, <2>4, Zenon DEF Init, Globals
<1>2. OneEach
  BY Zenon DEF Init, OneEach
<1>3. ASSUME NEW p \in Procs PROVE Own(p)
  <2>1. (\A S : <<>> \in Seq(S)) /\ Len(<<>>) <= MaxPooled
    BY ScanAssumption
  <2>2. /\ free[p] \in Seq(Bufs) /\ Len(free[p]) <= MaxPooled /\ vecs[p] \in Seq(Block)
        /\ out[p] \in Seq(IF p \in fsck THEN Block ELSE Seq(Block))
    BY <2>1, Started, Zenon
  <2>3. crs[p] \in [1..Cols -> ColumnReader]
    <3>1. [c \in 1..Cols |-> NewColumnReader] \in [1..Cols -> ColumnReader]
      BY Readers, Zenon
    <3> QED BY <3>1, Started, Zenon
  <2>4. need[p] \in Nat /\ rg[p] \in 1..(NumRGs + 1) /\ col[p] \in 1..Cols /\ errs[p] \in 0..MaxErrs
    BY Started, Constants, ScanAssumption
  <2>5. pc[p] \in {"claim", "block", "get", "read", "served", "close", "closed"}
        /\ pass[p] \in {"check", "verify"}
    BY Started, Zenon
  <2>6. hand[p] \in Bufs \union {NoBuf}
    BY Started, Zenon
  <2> QED BY <2>1, <2>2, <2>3, <2>4, <2>5, <2>6, Zenon DEF Own
<1> QED BY <1>1, <1>2, <1>3, Zenon DEF Typed

(* Every window is closed, and every list of buffers empty. *)
LEMMA InitBuffers == Init => Buffers
<1> SUFFICES ASSUME Init PROVE Buffers
  BY Zenon
<1>1. \A b \in Bufs : b # NoBuf
  BY Constants, Zenon
<1>2. ASSUME NEW p \in Procs
      PROVE  /\ Waits(Around(p)) = {} /\ Tidy(Around(p)) /\ OwnedBy(p) \subseteq {NoBuf}
             /\ Windows(p) /\ Fetch(p)
  <2>1. free[p] = <<>> /\ hand[p] = NoBuf /\ \A c \in 1..Cols : crs[p][c].win = NoBuf
    BY Started, Zenon
  <2>2. pool = [b \in Bufs |-> 0]
    BY Zenon DEF Init
  <2>3. Around(p).free = <<>> /\ Around(p).pool = pool
    BY <2>1, AroundFields, Zenon
  <2>4. 1..Len(<<>>) = {}
    OBVIOUS
  <2>5. Waits(Around(p)) = {}
    BY <2>2, <2>3, <2>4, SMTT(60) DEF Waits
  <2>6. Tidy(Around(p))
    BY <2>2, <2>3, <2>4, ScanAssumption, SMTT(60) DEF Tidy
  <2>7. OwnedBy(p) \subseteq {NoBuf}
    BY <2>1, <2>4, Zenon DEF OwnedBy
  <2>8. Windows(p)
    BY <2>1, Zenon DEF Windows
  <2>9. Fetch(p)
    BY <2>1, Started, Constants, SMTT(60) DEF Fetch, Active, Fetching
  <2> QED BY <2>5, <2>6, <2>7, <2>8, <2>9, Zenon
<1>3. ASSUME NEW p \in Procs PROVE Neat(p)
  BY <1>2, Started, Zenon DEF Neat
<1>4. ASSUME NEW p \in Procs, NEW q \in Procs, NEW b \in Bufs PROVE b \notin OwnedBy(p)
  BY <1>1, <1>2, Zenon
<1> QED BY <1>2, <1>3, <1>4, Zenon DEF Buffers, Apart

(* Nothing is claimed, and nothing returned. *)
LEMMA InitScans == Init => Scans
<1> SUFFICES ASSUME Init PROVE Scans
  BY Zenon
<1>1. next = 1 /\ 1..(1 - 1) = {} /\ 1..Len(<<>>) = {} /\ DOMAIN <<>> = {} /\ ~(Len(<<>>) > 0)
  BY DEF Init
<1>2. ASSUME NEW p \in Procs, p \notin fsck
      PROVE  /\ pc[p] \notin Active
             /\ fsck = {} => pc[p] = "claim"
             /\ fsck # {} => pc[p] = "closed"
  BY <1>2, Started, Zenon DEF Active
<1>3. ASSUME NEW p \in Procs, p \notin fsck PROVE Ordered(p) /\ Scanning(p)
  <2>1. Ordered(p)
    BY <1>1, Started, Zenon DEF Ordered
  <2>2. EndedBefore(p, next)
    BY <1>1, Started, Zenon DEF EndedBefore
  <2> QED BY <1>2, <1>3, <2>1, <2>2, Started, Zenon DEF Scanning
<1>4. ASSUME fsck = {} PROVE /\ Claimed /\ Exclusive /\ Covered
                             /\ \A p \in Procs : Ascending(p) /\ UpToNow(p) /\ StopsLate(p)
  <2>1. \A p \in Procs : pc[p] = "claim" /\ pc[p] \notin Active
    BY <1>2, <1>4, Zenon
  <2>2. \A p \in Procs : \A g : ~Serves(p, g)
    BY <1>1, <2>1, Started, Zenon DEF Serves
  <2>3. Claimed /\ Exclusive
    BY <2>2, Zenon DEF Claimed, Exclusive
  <2>4. Covered
    BY <1>1, Zenon DEF Covered
  <2>5. \A p \in Procs : Ascending(p) /\ UpToNow(p) /\ StopsLate(p)
    BY <1>1, <2>1, Started, Zenon DEF Ascending, UpToNow, StopsLate
  <2> QED BY <2>3, <2>4, <2>5, Zenon
<1> QED BY <1>3, <1>4, Zenon DEF Scans, Shared

(* A step that changes nothing. *)
LEMMA Stutter == IndInv /\ UNCHANGED vars => IndInv'
<1> SUFFICES ASSUME IndInv, UNCHANGED vars PROVE IndInv'
  BY Zenon
<1> USE DEF vars
<1>1. Typed'
  <2>1. (Globals /\ OneEach)'
    BY Zenon DEF IndInv, Typed, Globals, OneEach
  <2>2. \A p \in Procs : Own(p)'
    BY Zenon DEF IndInv, Typed, Own
  <2> QED BY <2>1, <2>2, Zenon DEF Typed
<1>2. Buffers'
  <2>1. \A p : OwnedBy(p)' = OwnedBy(p) /\ Neat(p)' = Neat(p)
    BY Zenon DEF OwnedBy, Neat, Around
  <2>2. \A p : Windows(p)' = Windows(p)
    BY Zenon DEF Windows
  <2>3. \A p : Fetch(p)' = Fetch(p)
    <3>1. \A p : Cr(p)' = Cr(p) /\ \A c, g : End(c, g)' = End(c, g)
      BY Zenon DEF Cr, End
    <3>2. \A p : Want(p, Cr(p), need[p])' = Want(p, Cr(p), need[p])
      BY <3>1, Zenon DEF Want
    <3> QED BY <3>1, <3>2, ZenonT(40) DEF Fetch
  <2> QED BY <2>1, <2>2, <2>3, Zenon DEF IndInv, Buffers, Apart
<1>3. Scans'
  <2>1. ASSUME NEW p \in Procs, p \notin fsck PROVE (Ordered(p) /\ Scanning(p))'
    <3>1. Ordered(p) /\ Scanning(p)
      BY <2>1, Zenon DEF IndInv, Scans
    <3>2. Ordered(p)'
      BY <3>1, OrderedSame, Zenon
    <3>3. /\ InStep(p)' <=> InStep(p)
          /\ Follows(p)' <=> Follows(p)
          /\ EndedBefore(p, next)' <=> EndedBefore(p, next)
      BY Zenon DEF InStep, Follows, EndedBefore, Latest, Number, Cr
    <3>4. Gathered(p)' <=> Gathered(p)
      BY Zenon DEF Gathered, BlockAt, Sound, Damaged, Number, Cr
    <3>5. Scanning(p)'
      BY <3>1, <3>3, <3>4, Zenon DEF Scanning
    <3> QED BY <3>2, <3>5, Zenon
  <2>2. Shared'
    <3>1. Shared
      BY Zenon DEF IndInv, Scans
    <3>2. \A p : \A g, k : /\ Serves(p, g)' <=> Serves(p, g)
                           /\ Returned(p, g, k)' <=> Returned(p, g, k)
      BY Zenon DEF Serves, Returned
    <3>3. (Claimed /\ Exclusive /\ Covered)' <=> (Claimed /\ Exclusive /\ Covered)
      BY <3>2, Zenon DEF Claimed, Exclusive, Covered
    <3>4. \A p : (Ascending(p) /\ UpToNow(p) /\ StopsLate(p))' <=> (Ascending(p) /\ UpToNow(p) /\ StopsLate(p))
      BY <3>2, Zenon DEF Ascending, UpToNow, StopsLate, Number, Cr
    <3> QED BY <3>1, <3>3, <3>4, Zenon DEF Shared
  <2> QED BY <2>1, <2>2, Zenon DEF Scans
<1> QED BY <1>1, <1>2, <1>3, Zenon DEF IndInv

(* IndInv holds in every reachable state: however the workers and fsck     *)
(* interleave, every buffer is in one place, every window holds what its   *)
(* reader believes, and every scan is where its readers say it is.         *)
THEOREM Invariance == Spec => []IndInv
<1>1. Init => IndInv
  BY InitTyped, InitBuffers, InitScans, Zenon DEF IndInv
<1>2. IndInv /\ [Next]_vars => IndInv'
  <2> SUFFICES ASSUME IndInv, [Next]_vars PROVE IndInv'
    BY Zenon
  <2>1. ASSUME NEW p \in Procs, Step(p) PROVE IndInv'
    BY <2>1, BuffersKept, ScansKept, Zenon DEF IndInv
  <2>2. CASE UNCHANGED vars
    BY <2>2, Stutter, Zenon
  <2> QED BY <2>1, <2>2, Zenon DEF Next, Finished
<1> QED BY <1>1, <1>2, PTL DEF Spec

(* Every variable keeps its type, no window claims more than its buffer,   *)
(* and no free list outgrows maxPooledBufs.                                *)
THEOREM TypeCorrect == Spec => []TypeOK
<1>1. IndInv => TypeOK
  <2> SUFFICES ASSUME IndInv PROVE TypeOK
    BY Zenon
  <2>1. Typed /\ Globals /\ Buffers
    BY Zenon DEF IndInv, Typed
  <2>2. ASSUME NEW p \in Procs, NEW c \in 1..Cols
        PROVE  /\ crs[p][c].done \in BlockNumbers \union {0} /\ crs[p][c].win \in Bufs \union {NoBuf}
               /\ crs[p][c].win # NoBuf => crs[p][c].len <= cap[crs[p][c].win]
    <3>1. crs[p][c] \in ColumnReader
      BY <2>1, TypedOf, Zenon
    <3>2. crs[p][c].done \in BlockNumbers \union {0} /\ crs[p][c].win \in Bufs \union {NoBuf}
      BY <3>1, Zenon DEF ColumnReader
    <3>3. crs[p][c].win # NoBuf => crs[p][c].len <= cap[crs[p][c].win]
      BY <2>1, Zenon DEF Buffers, Windows
    <3> QED BY <3>2, <3>3, Zenon
  <2>3. \A p \in Procs : Own(p)
    BY <2>1, Zenon DEF Typed
  <2> QED BY <2>1, <2>2, <2>3, Zenon DEF TypeOK, Globals, Own
<1> QED BY <1>1, Invariance, PTL

(* A set whose members are all the same. *)
LEMMA AtMostOne ==
  ASSUME NEW S, \A x, y \in S : x = y
  PROVE  (S = {} /\ Cardinality(S) = 0) \/ (S # {} /\ Cardinality(S) = 1)
<1>1. CASE S = {}
  BY <1>1, FS_EmptySet, Zenon
<1>2. CASE S # {}
  <2>1. PICK x \in S : S = {x}
    BY <1>2, Zenon
  <2>2. Cardinality({x}) = 1
    BY FS_Singleton, Zenon
  <2> QED BY <1>2, <2>1, <2>2, Zenon
<1> QED BY <1>1, <1>2, Zenon

(* No buffer is in two places at once: not in two windows, not in a window *)
(* and a free list, not twice in the pool.                                 *)
THEOREM BuffersHeldOnce == Spec => []BufferHeldOnce
<1>1. IndInv => BufferHeldOnce
  <2> SUFFICES ASSUME IndInv, NEW b \in Bufs
               PROVE  LET inFree == {x \in Procs \X (1..MaxPooled) :
                                       x[2] <= Len(free[x[1]]) /\ free[x[1]][x[2]] = b}
                          inWin  == {x \in Procs \X (1..Cols) : crs[x[1]][x[2]].win = b}
                          inHand == {p \in Procs : hand[p] = b}
                      IN pool[b] + Cardinality(inFree) + Cardinality(inWin) + Cardinality(inHand) <= 1
    BY Zenon DEF BufferHeldOnce
  <2> DEFINE inFree == {x \in Procs \X (1..MaxPooled) :
                          x[2] <= Len(free[x[1]]) /\ free[x[1]][x[2]] = b}
             inWin  == {x \in Procs \X (1..Cols) : crs[x[1]][x[2]].win = b}
             inHand == {p \in Procs : hand[p] = b}
  <2>1. Typed /\ Buffers /\ Apart /\ b # NoBuf
    BY Constants, Zenon DEF IndInv, Buffers
  <2>2. pool[b] \in {0, 1}
    <3>1. Fscker \in Procs
      BY ScanAssumption, Zenon
    <3> QED BY <2>1, <3>1, Places, Zenon
  <2>3. ASSUME NEW x \in inFree
        PROVE  /\ x[1] \in Procs /\ x[2] \in 1..Len(free[x[1]]) /\ free[x[1]][x[2]] = b
               /\ b \in OwnedBy(x[1]) /\ b \in Waits(Around(x[1])) /\ pool[b] = 0
               /\ x = <<x[1], x[2]>>
    <3>1. /\ x[1] \in Procs /\ x[2] \in 1..MaxPooled /\ x[2] <= Len(free[x[1]])
          /\ free[x[1]][x[2]] = b /\ x = <<x[1], x[2]>>
      OBVIOUS
    <3>2. Len(free[x[1]]) \in Nat
      BY <2>1, <3>1, TypedOf, SMTT(60)
    <3>3. x[2] \in 1..Len(free[x[1]])
      BY <3>1, <3>2, ScanAssumption
    <3> HIDE DEF inFree
    <3>4. b \in OwnedBy(x[1])
      BY <3>1, <3>3, Zenon DEF OwnedBy
    <3>5. b \in Waits(Around(x[1]))
      BY <3>1, <3>3, AroundFields, ZenonT(40) DEF Waits
    <3>6. Tidy(Around(x[1]))
      BY <2>1, <3>1, Holding, Zenon
    <3>7. \A i \in 1..Len(free[x[1]]) : pool[free[x[1]][i]] = 0
      BY <3>6, Zenon DEF Tidy, Around, Waiting
    <3>8. pool[b] = 0
      BY <3>1, <3>3, <3>7, Zenon
    <3> QED BY <3>1, <3>3, <3>4, <3>5, <3>8, Zenon
  <2>4. ASSUME NEW x \in inWin
        PROVE  /\ x[1] \in Procs /\ x[2] \in 1..Cols /\ crs[x[1]][x[2]].win = b
               /\ b \in OwnedBy(x[1]) /\ b \notin Waits(Around(x[1])) /\ x = <<x[1], x[2]>>
    <3>1. /\ x[1] \in Procs /\ x[2] \in 1..Cols /\ crs[x[1]][x[2]].win = b /\ x = <<x[1], x[2]>>
      OBVIOUS
    <3> HIDE DEF inWin
    <3>2. b \in OwnedBy(x[1])
      BY <3>1, Zenon DEF OwnedBy
    <3>3. b \notin Waits(Around(x[1]))
      BY <2>1, <3>1, Holding, Zenon
    <3> QED BY <3>1, <3>2, <3>3, Zenon
  <2>5. ASSUME NEW p \in inHand
        PROVE  p \in Procs /\ hand[p] = b /\ b \in OwnedBy(p) /\ b \notin Waits(Around(p))
    <3>1. p \in Procs /\ hand[p] = b
      BY Zenon
    <3> HIDE DEF inHand
    <3>2. b \in OwnedBy(p)
      BY <3>1, Zenon DEF OwnedBy
    <3>3. b \notin Waits(Around(p))
      BY <2>1, <3>1, Zenon DEF Apart, Neat
    <3> QED BY <3>1, <3>2, <3>3, Zenon
  <2> HIDE DEF inFree, inWin, inHand
  <2>6. \A p, q \in Procs : b \in OwnedBy(p) /\ b \in OwnedBy(q) => p = q
    BY <2>1, Zenon DEF Apart
  <2>7. \A x, y \in inFree : x = y
    <3> SUFFICES ASSUME NEW x \in inFree, NEW y \in inFree PROVE x = y
      BY Zenon
    <3>1. x[1] = y[1]
      BY <2>3, <2>6, Zenon
    <3>2. \A i, j \in 1..Len(free[x[1]]) : free[x[1]][i] = free[x[1]][j] => i = j
      <4>1. Tidy(Around(x[1]))
        BY <2>1, <2>3, Holding, Zenon
      <4> QED BY <4>1, Zenon DEF Tidy, Around, Waiting
    <3>3. y[2] \in 1..Len(free[x[1]]) /\ free[x[1]][y[2]] = b
      BY <2>3, <3>1, Zenon
    <3>4. x[2] = y[2]
      BY <2>3, <3>2, <3>3, Zenon
    <3> QED BY <2>3, <3>1, <3>4, Zenon
  <2>8. \A x, y \in inWin : x = y
    <3> SUFFICES ASSUME NEW x \in inWin, NEW y \in inWin PROVE x = y
      BY Zenon
    <3>1. x[1] = y[1]
      BY <2>4, <2>6, Zenon
    <3>2. \A c, d \in 1..Cols : crs[x[1]][c].win = crs[x[1]][d].win /\ crs[x[1]][c].win # NoBuf => c = d
      BY <2>1, <2>4, Zenon DEF Apart, Neat
    <3>3. crs[x[1]][y[2]].win = b
      BY <2>4, <3>1, Zenon
    <3>4. x[2] = y[2]
      BY <2>1, <2>4, <3>2, <3>3, Zenon
    <3> QED BY <2>4, <3>1, <3>4, Zenon
  <2>9. \A p, q \in inHand : p = q
    BY <2>5, <2>6, Zenon
  <2>10. inFree # {} => inWin = {} /\ inHand = {} /\ pool[b] = 0
    BY <2>3, <2>4, <2>5, <2>6, Zenon
  <2>11. inWin # {} => inHand = {}
    <3> SUFFICES ASSUME NEW x \in inWin, NEW p \in inHand PROVE FALSE
      BY Zenon
    <3>1. x[1] = p
      BY <2>4, <2>5, <2>6, Zenon
    <3>2. \A c \in 1..Cols : crs[p][c].win # hand[p]
      <4>1. hand[p] # NoBuf
        BY <2>1, <2>5, Zenon
      <4> QED BY <2>1, <2>5, <4>1, Zenon DEF Apart, Neat
    <3> QED BY <2>4, <2>5, <3>1, <3>2, Zenon
  <2>12. pool[b] = 1 => \A p \in Procs : b \in Waits(Around(p))
    BY AroundFields, Zenon DEF Waits
  <2>13. pool[b] = 1 => inWin = {} /\ inHand = {}
    BY <2>4, <2>5, <2>12, Zenon
  <2>14. /\ (inFree = {} /\ Cardinality(inFree) = 0) \/ (inFree # {} /\ Cardinality(inFree) = 1)
         /\ (inWin = {} /\ Cardinality(inWin) = 0) \/ (inWin # {} /\ Cardinality(inWin) = 1)
         /\ (inHand = {} /\ Cardinality(inHand) = 0) \/ (inHand # {} /\ Cardinality(inHand) = 1)
    BY <2>7, <2>8, <2>9, AtMostOne, Zenon
  <2>15. pool[b] + Cardinality(inFree) + Cardinality(inWin) + Cardinality(inHand) <= 1
    BY <2>2, <2>10, <2>11, <2>13, <2>14, SMTT(60)
  <2> QED BY <2>15, Zenon DEF inFree, inWin, inHand
<1> QED BY <1>1, Invariance, PTL

(* Every batch a scan returns has the same block of every column, all      *)
(* sound, and follows the batch before it: no worker sees what another     *)
(* read into a buffer that went from one to the other through the pool.    *)
THEOREM ScansInOrder == Spec => []BatchesInOrder
<1>1. IndInv => BatchesInOrder
  BY Zenon DEF IndInv, Scans, Ordered, Sound, BatchesInOrder
<1> QED BY <1>1, Invariance, PTL

(* When every worker has closed and none failed, each block of each row    *)
(* group was returned exactly once, by one of them.                        *)
THEOREM GroupsComplete == Spec => []RowGroupsComplete
<1>1. IndInv => RowGroupsComplete
  <2> DEFINE times(g, k) == UNION {{<<p, i>> : i \in {j \in DOMAIN out[p] :
                                 out[p][j][1].g = g /\ out[p][j][1].k = k}} : p \in Procs}
  <2> SUFFICES ASSUME IndInv, fsck = {}, \A p \in Procs : pc[p] = "closed" /\ errs[p] = 0,
                      NEW g \in 1..NumRGs, NEW k \in 1..NumBlocks(g)
               PROVE  Cardinality(times(g, k)) = 1
    BY Zenon DEF RowGroupsComplete
  <2>1. /\ Typed /\ Claimed /\ Exclusive /\ Covered
        /\ \A p \in Procs : Ascending(p) /\ StopsLate(p) /\ Ordered(p)
    BY Zenon DEF IndInv, Scans, Shared
  <2>2. Fscker \in Procs /\ next \in Nat /\ NumRGs \in Nat
    BY <2>1, ScanAssumption, Constants, SMTT(60) DEF Typed, Globals
  <2>3. next > NumRGs
    BY <2>1, <2>2 DEF StopsLate
  <2>4. g \in 1..(next - 1)
    BY <2>2, <2>3
  <2>5. \A p \in Procs : pc[p] \notin Active /\ ~(errs[p] > 0)
    BY DEF Active
  <2>6. PICK p \in Procs : Returned(p, g, k)
    BY <2>1, <2>4, <2>5, Zenon DEF Covered
  <2>7. ASSUME NEW q \in Procs
        PROVE  /\ DOMAIN out[q] = 1..Len(out[q])
               /\ \A j \in 1..Len(out[q]) : out[q][j][1].g \in Nat /\ out[q][j][1].k \in Nat
    BY <2>1, FirstBlocks, Zenon
  <2>8. PICK i \in 1..Len(out[p]) : out[p][i][1].g = g /\ out[p][i][1].k = k
    BY <2>6, Zenon DEF Returned
  <2>9. <<p, i>> \in times(g, k)
    BY <2>7, <2>8
  <2>10. ASSUME NEW x \in times(g, k) PROVE x = <<p, i>>
    <3>0. PICK q \in Procs : x \in {<<q, j>> : j \in {y \in DOMAIN out[q] :
                                     out[q][y][1].g = g /\ out[q][y][1].k = k}}
      BY Zenon
    <3>1. PICK j \in DOMAIN out[q] : x = <<q, j>> /\ out[q][j][1].g = g /\ out[q][j][1].k = k
      BY <3>0, Zenon
    <3>2. j \in 1..Len(out[q])
      BY <2>7, <3>1, Zenon
    <3>3. Serves(q, g) /\ Serves(p, g)
      BY <2>8, <3>1, <3>2, Zenon DEF Serves
    <3>4. q = p
      BY <2>1, <3>3, Zenon DEF Exclusive
    <3>5. j \in 1..Len(out[p]) /\ out[p][j][1].g = g /\ out[p][j][1].k = k
      BY <3>1, <3>2, <3>4, Zenon
    <3>6. Len(out[p]) \in Nat /\ g \in Nat /\ k \in Nat
      <4>1. Len(out[p]) \in Nat
        BY <2>1, FirstBlocks, Zenon
      <4> QED BY <4>1
    <3>7. ~Precedes(out[p][i][1], out[p][j][1]) /\ ~Precedes(out[p][j][1], out[p][i][1])
      <4>1. ~(g < g) /\ ~(k < k)
        BY <3>6
      <4> QED BY <2>8, <3>5, <4>1, Zenon DEF Precedes
    <3>8. ~(i < j) /\ ~(j < i)
      BY <2>1, <3>5, <3>7, Zenon DEF Ascending
    <3>9. i = j
      BY <3>5, <3>6, <3>8
    <3> QED BY <3>1, <3>4, <3>9, Zenon
  <2> HIDE DEF times
  <2>11. times(g, k) = {<<p, i>>}
    BY <2>9, <2>10, Zenon
  <2>12. Cardinality({<<p, i>>}) = 1
    BY FS_Singleton, Zenon
  <2> QED BY <2>11, <2>12, Zenon
<1> QED BY <1>1, Invariance, PTL

=============================================================================
