------------------------------ MODULE SectionScan ------------------------------
(***************************************************************************)
(* Reading column sections: the ColumnReader windows of                    *)
(* storage/rowgroup.go, the free list of each Reader and the process-wide  *)
(* pool of windows behind it (storage/reader.go), under the two programs   *)
(* that pull blocks: the TableScans of the morsel workers (exec/scan.go),  *)
(* one block of every column per batch, each worker with a Reader of its   *)
(* own over the same file and the pool between them; or fsck               *)
(* (cmd/vexq/main.go), alone in its program, which goes on after a bad     *)
(* block.                                                                  *)
(*                                                                         *)
(* Sizes are in units.  What a buffer holds is a range of a column's       *)
(* section, so a block read from it is known by the row group, the column  *)
(* and the number it has in the file.  Dictionaries are read past the      *)
(* windows, into memory of their own, and are left out.                    *)
(***************************************************************************)
EXTENDS Integers, Sequences, FiniteSets

CONSTANTS
  Procs,        \* processes
  Fscker,       \* the one that runs fsck when the program is fsck
  Cols,         \* number of columns
  Bools,        \* the BOOL columns, whose blocks say their own size
  Sizes,        \* Sizes[c][g]: the sizes of the blocks of a section
  Damages,      \* what may be wrong with the file
  MaxPrefetch,  \* maxPrefetchBytes
  ClassBytes,   \* bufClassBytes
  MaxPooled,    \* maxPooledBufs
  Bufs,         \* bound: buffers in existence
  MaxFaults,    \* bound: reads that fail
  MaxErrs       \* bound: errors counted, one meaning "or more" at the bound

ASSUME ScanAssumption ==
  /\ Fscker \in Procs
  /\ Cols \in Nat \ {0} /\ Bools \subseteq 1..Cols
  /\ \A c \in 1..Cols :
       /\ Sizes[c] \in Seq(Seq(Nat \ {0})) /\ Len(Sizes[c]) = Len(Sizes[1])
       /\ \A g \in 1..Len(Sizes[1]) : Len(Sizes[c][g]) = Len(Sizes[1][g])
  /\ \A c \in Bools : \A g \in 1..Len(Sizes[c]) : \A k \in 1..Len(Sizes[c][g]) : Sizes[c][g][k] > 1
  /\ \A d \in Damages : d.kind = "runs" => d.c \in Bools
  /\ ClassBytes \in Nat \ {0} /\ MaxPrefetch \in Nat /\ MaxPrefetch % ClassBytes = 0
  /\ Bufs \subseteq Nat \ {0} /\ MaxPooled \in Nat /\ MaxFaults \in Nat /\ MaxErrs \in Nat \ {0}

VARIABLES
  fsck,     \* the processes that run fsck, chosen once: {} or {Fscker}
  damage,   \* what is wrong with the file, [kind, g, c, k], chosen once
  next,     \* the next morsel; a morsel is one row group
  pool,     \* sharedBufPool: how often it holds each buffer
  cap,      \* capacity of each buffer
  content,  \* the file range last read into each buffer
  free,     \* bufPool of each process's Reader
  crs,      \* the ColumnReaders of each process
  hand,     \* the buffer between acquireBuf and cr.win
  need,     \* the argument n of window
  pc, rg, col,
  pass,     \* fsck: "check", then "verify" for VerifyColumnStats
  vecs,     \* the vectors of the batch being read
  out,      \* the batches returned
  errs,     \* errors: a scan stops at the first, fsck counts them
  faults, hit   \* reads that failed, and the processes they hit

vars == <<fsck, damage, next, pool, cap, content, free, crs, hand, need, pc, rg, col, pass,
          vecs, out, errs, faults, hit>>

NoBuf == 0
NumRGs == Len(Sizes[1])
NumBlocks(g) == Len(Sizes[1][g])

(* Where block k of a section begins; past the last block, where the       *)
(* section ends.                                                           *)
Offset(c, g, k) ==
  LET upTo[j \in 0..NumBlocks(g)] == IF j = 0 THEN 0 ELSE upTo[j - 1] + Sizes[c][g][j]
  IN upTo[k - 1]

(* cr.end.  A section is short when its length and the row count disagree, *)
(* as they do when AppendColumn was given fewer values than rows.          *)
End(c, g) == LET short == damage.kind = "short" /\ damage.c = c /\ damage.g = g
             IN Offset(c, g, NumBlocks(g) + 1) - IF short THEN 1 ELSE 0

Smaller(a, b) == IF a < b THEN a ELSE b
Larger(a, b)  == IF a < b THEN b ELSE a

-----------------------------------------------------------------------------
(* Size classes.  A buffer outside them is never filed. *)
bufClassOf(n) ==
  IF n <= 0 \/ n > MaxPrefetch THEN 0 ELSE (n + ClassBytes - 1) \div ClassBytes
poolClassOf(n) ==
  IF n <= 0 \/ n > MaxPrefetch \/ n % ClassBytes # 0 THEN 0 ELSE n \div ClassBytes

putSharedBuf(pl, b) == IF poolClassOf(cap[b]) = 0 THEN pl ELSE [pl EXCEPT ![b] = @ + 1]

(* Where buffers wait: a Reader's free list and the shared pool. *)
Waiting(f, pl) == [free |-> f, pool |-> pl]

releaseBuf(w, b) ==
  IF b = NoBuf THEN w
  ELSE IF Len(w.free) >= MaxPooled THEN Waiting(w.free, putSharedBuf(w.pool, b))
  ELSE Waiting(Append(w.free, b), w.pool)

(* Mutant: the last buffer is handed out but stays in the free list. *)
acquireBufKeepingIt(w, n) ==
  LET last == Len(w.free)
      b    == w.free[last]
      rest == SubSeq(w.free, 1, last - 1)
  IN IF last = 0 THEN [buf |-> NoBuf, w |-> w]
     ELSE IF cap[b] >= n THEN [buf |-> b, w |-> w]
     ELSE [buf |-> NoBuf, w |-> Waiting(rest, putSharedBuf(w.pool, b))]

(* Mutant: the last buffer is handed out whatever its capacity. *)
acquireBufAnySize(w, n) ==
  LET last == Len(w.free)
  IN IF last = 0 THEN [buf |-> NoBuf, w |-> w]
     ELSE [buf |-> w.free[last], w |-> Waiting(SubSeq(w.free, 1, last - 1), w.pool)]

(* The last buffer of the free list when it is large enough; otherwise it  *)
(* is filed, and buf is NoBuf: the shared pool has to be asked.            *)
acquireBuf(w, n) ==
  LET last == Len(w.free)
      b    == w.free[last]
      rest == SubSeq(w.free, 1, last - 1)
  IN IF last = 0 THEN [buf |-> NoBuf, w |-> w]
     ELSE IF cap[b] >= n THEN [buf |-> b, w |-> Waiting(rest, w.pool)]
     ELSE [buf |-> NoBuf, w |-> Waiting(rest, putSharedBuf(w.pool, b))]

(* Buffers nobody holds: the collector took them, or they were never made. *)
Held(b) ==
  \/ pool[b] > 0
  \/ \E p \in Procs : \/ hand[p] = b
                      \/ \E i \in DOMAIN free[p] : free[p][i] = b
                      \/ \E c \in 1..Cols : crs[p][c].win = b

-----------------------------------------------------------------------------
(* OpenColumn *)
NewColumnReader == [pos |-> 0, done |-> 0, win |-> NoBuf, start |-> 0, len |-> 0]

Init ==
  /\ fsck \in {{}, {Fscker}}
  /\ damage \in Damages
  /\ next = 1
  /\ pool = [b \in Bufs |-> 0]
  /\ cap = [b \in Bufs |-> 0]
  /\ content = [b \in Bufs |-> [g |-> 0, c |-> 0, from |-> 0, len |-> 0]]
  /\ free = [p \in Procs |-> <<>>]
  /\ crs = [p \in Procs |-> [c \in 1..Cols |-> NewColumnReader]]
  /\ hand = [p \in Procs |-> NoBuf]
  /\ need = [p \in Procs |-> 0]
  /\ pc = [p \in Procs |-> IF p \notin fsck THEN IF fsck = {} THEN "claim" ELSE "closed"
                        ELSE IF NumRGs = 0 THEN "close" ELSE "block"]
  /\ rg = [p \in Procs |-> 1]
  /\ col = [p \in Procs |-> 1]
  /\ pass = [p \in Procs |-> "check"]
  /\ vecs = [p \in Procs |-> <<>>]
  /\ out = [p \in Procs |-> <<>>]
  /\ errs = [p \in Procs |-> 0]
  /\ faults = 0
  /\ hit = {}

Cr(p) == crs[p][col[p]]
SetWaiting(p, w) == free' = [free EXCEPT ![p] = w.free] /\ pool' = w.pool
GoTo(p, where) == pc' = [pc EXCEPT ![p] = where]
SetCr(p, cr) == crs' = [crs EXCEPT ![p][col[p]] = cr]

(* Mutant: the released window is not forgotten. *)
ClosedCrKeepingWindow(cr) == cr

(* ColumnReader.Close *)
ClosedCr(cr) == [cr EXCEPT !.win = NoBuf, !.start = 0]

(* TableScan.closeRowGroup: every ColumnReader, in order. *)
closeRowGroup(p, readers) ==
  LET upTo[c \in 0..Cols] ==
        IF c = 0 THEN Waiting(free[p], pool) ELSE releaseBuf(upTo[c - 1], readers[c].win)
  IN upTo[Cols]

(* Reader.Close: the buffers of the free list go to the shared pool. *)
drained(w) ==
  LET upTo[i \in 0..Len(w.free)] ==
        IF i = 0 THEN w.pool ELSE putSharedBuf(upTo[i - 1], w.free[i])
  IN upTo[Len(w.free)]

-----------------------------------------------------------------------------
(* What the two programs do next.                                          *)

(* Mutant: fsck does not verify the statistics of the column. *)
NextColumnUnverified(p) ==
  LET last == col[p] = Cols
  IN /\ col' = [col EXCEPT ![p] = IF last THEN 1 ELSE @ + 1]
     /\ rg' = [rg EXCEPT ![p] = IF last THEN @ + 1 ELSE @]
     /\ GoTo(p, IF last /\ rg[p] = NumRGs THEN "close" ELSE "block")
     /\ UNCHANGED pass

(* fsck after a column: VerifyColumnStats reads it again, then the next    *)
(* column, then the next row group.                                        *)
NextColumn(p) ==
  LET again == pass[p] = "check"
      last  == col[p] = Cols
  IN /\ pass' = [pass EXCEPT ![p] = IF again THEN "verify" ELSE "check"]
     /\ col' = [col EXCEPT ![p] = IF again THEN @ ELSE IF last THEN 1 ELSE @ + 1]
     /\ rg' = [rg EXCEPT ![p] = IF ~again /\ last THEN @ + 1 ELSE @]
     /\ GoTo(p, IF ~again /\ last /\ rg[p] = NumRGs THEN "close" ELSE "block")

(* VerifyColumnStats also finds what no checksum covers: a zone map that   *)
(* is not the one of the data.                                             *)
StatsDiffer(p) ==
  pass[p] = "verify" /\ damage.kind = "stats" /\ damage.g = rg[p] /\ damage.c = col[p]

CountError(p) == errs' = [errs EXCEPT ![p] = Smaller(@ + 1, MaxErrs)]

(* fsck leaves the column, whose reader is cr, and opens the next one. *)
LeaveColumn(p, cr, w) ==
  /\ SetWaiting(p, releaseBuf(w, cr.win))
  /\ crs' = [crs EXCEPT ![p] = [c \in 1..Cols |-> NewColumnReader]]
  /\ NextColumn(p)
  /\ UNCHANGED vecs

(* Mutant: a block is counted only when it was read well. *)
FailsUncounted(p, cr, w) ==
  /\ CountError(p)
  /\ hand' = [hand EXCEPT ![p] = NoBuf]
  /\ need' = [need EXCEPT ![p] = 0]
  /\ UNCHANGED out
  /\ IF p \in fsck /\ pass[p] = "verify" THEN LeaveColumn(p, cr, w)
     ELSE /\ SetCr(p, [cr EXCEPT !.done = @ - 1])
          /\ SetWaiting(p, w)
          /\ GoTo(p, IF p \in fsck THEN "block" ELSE "close")
          /\ UNCHANGED <<rg, col, pass, vecs>>

(* NextBlock returned an error, leaving cr and the waiting buffers w.  The *)
(* scan's caller closes it; fsck reports and goes on, VerifyColumnStats    *)
(* gives the column up.                                                    *)
Fails(p, cr, w) ==
  /\ CountError(p)
  /\ hand' = [hand EXCEPT ![p] = NoBuf]
  /\ need' = [need EXCEPT ![p] = 0]
  /\ UNCHANGED out
  /\ IF p \in fsck /\ pass[p] = "verify" THEN LeaveColumn(p, cr, w)
     ELSE /\ SetCr(p, cr)
          /\ SetWaiting(p, w)
          /\ GoTo(p, IF p \in fsck THEN "block" ELSE "close")
          /\ UNCHANGED <<rg, col, pass, vecs>>

(* Mutant: the column readers of the row group before stay open. *)
ClaimKeepingReaders(p) ==
  /\ pc[p] = "claim"
  /\ IF next > NumRGs THEN GoTo(p, "close") /\ UNCHANGED <<next, rg, col>>
     ELSE /\ next' = next + 1
          /\ rg' = [rg EXCEPT ![p] = next]
          /\ col' = [col EXCEPT ![p] = 1]
          /\ GoTo(p, "block")
  /\ UNCHANGED <<fsck, damage, pool, cap, content, free, crs, hand, need, pass, vecs, out, errs,
                 faults, hit>>

(* A worker's next morsel: TableScan.Reset and openRowGroup. *)
Claim(p) ==
  /\ pc[p] = "claim"
  /\ IF next > NumRGs THEN GoTo(p, "close") /\ UNCHANGED <<next, rg, col, crs>>
     ELSE /\ next' = next + 1
          /\ rg' = [rg EXCEPT ![p] = next]
          /\ col' = [col EXCEPT ![p] = 1]
          /\ crs' = [crs EXCEPT ![p] = [c \in 1..Cols |-> NewColumnReader]]
          /\ GoTo(p, "block")
  /\ UNCHANGED <<fsck, damage, pool, cap, content, free, hand, need, pass, vecs, out, errs, faults, hit>>

(* io.EOF from a column: a scan is done with the row group, fsck with the column. *)
EndOfSection(p) ==
  /\ pc[p] = "block"
  /\ Cr(p).done >= NumBlocks(rg[p])
  /\ IF p \in fsck
       THEN /\ LeaveColumn(p, Cr(p), Waiting(free[p], pool))
            /\ IF StatsDiffer(p) THEN CountError(p) ELSE UNCHANGED errs
     ELSE /\ SetWaiting(p, closeRowGroup(p, crs[p]))
          /\ crs' = [crs EXCEPT ![p] = [c \in 1..Cols |-> ClosedCr(crs[p][c])]]
          /\ vecs' = [vecs EXCEPT ![p] = <<>>]
          /\ GoTo(p, "claim")
          /\ UNCHANGED <<rg, col, pass, errs>>
  /\ UNCHANGED <<fsck, damage, next, cap, content, hand, need, out, faults, hit>>

-----------------------------------------------------------------------------
(* ColumnReader.window(cr.pos, n): fails outside the section, serves from  *)
(* the window, or gives the window back and takes a buffer for a new one.  *)
Want(p, cr, n) == Larger(n, Smaller(End(col[p], rg[p]) - cr.pos, MaxPrefetch))
Buffered(cr, n) == cr.win # NoBuf /\ cr.pos >= cr.start /\ cr.pos - cr.start + n <= cr.len

window(p, cr, n) ==
  LET w == Waiting(free[p], pool)
      a == acquireBuf(releaseBuf(w, cr.win), Want(p, cr, n))
  IN IF cr.pos + n > End(col[p], rg[p]) THEN Fails(p, cr, w)
     ELSE /\ need' = [need EXCEPT ![p] = n]
          /\ UNCHANGED <<rg, col, pass, vecs, out, errs>>
          /\ IF Buffered(cr, n)
               THEN SetCr(p, cr) /\ GoTo(p, "served") /\ UNCHANGED <<free, pool, hand>>
             ELSE /\ SetCr(p, ClosedCr(cr))
                  /\ SetWaiting(p, a.w)
                  /\ hand' = [hand EXCEPT ![p] = a.buf]
                  /\ GoTo(p, IF a.buf = NoBuf THEN "get" ELSE "read")

(* NextBlock: the block is counted before anything is read.  A BOOL block  *)
(* begins with a header of one unit that says how long it is.              *)
NextBlock(p) ==
  /\ pc[p] = "block"
  /\ Cr(p).done < NumBlocks(rg[p])
  /\ LET k == Cr(p).done + 1
     IN window(p, [Cr(p) EXCEPT !.done = k],
               IF col[p] \in Bools THEN 1 ELSE Sizes[col[p]][rg[p]][k])
  /\ UNCHANGED <<fsck, damage, next, cap, content, faults, hit>>

(* getSharedBuf: sync.Pool may hand out a buffer of the class, or none. *)
GetShared(p) ==
  LET n == Want(p, Cr(p), need[p])
      c == bufClassOf(n)
  IN /\ pc[p] = "get"
     /\ \/ \E b \in Bufs : /\ pool[b] > 0 /\ c # 0 /\ poolClassOf(cap[b]) = c
                           /\ pool' = [pool EXCEPT ![b] = @ - 1]
                           /\ hand' = [hand EXCEPT ![p] = b]
                           /\ UNCHANGED <<cap, content>>
        \/ \E b \in Bufs : /\ ~Held(b)
                           /\ \A x \in Bufs : x < b => Held(x)
                           /\ cap' = [cap EXCEPT ![b] = IF c = 0 THEN n ELSE c * ClassBytes]
                           /\ content' = [content EXCEPT ![b] = [g |-> 0, c |-> 0, from |-> 0, len |-> 0]]
                           /\ hand' = [hand EXCEPT ![p] = b]
                           /\ UNCHANGED pool
     /\ GoTo(p, "read")
     /\ UNCHANGED <<fsck, damage, next, free, crs, need, rg, col, pass, vecs, out, errs, faults, hit>>

(* readAt fills the buffer, which becomes the window. *)
ReadAt(p) ==
  /\ pc[p] = "read"
  /\ content' = [content EXCEPT ![hand[p]] = [g |-> rg[p], c |-> col[p], from |-> Cr(p).pos,
                                            len |-> Want(p, Cr(p), need[p])]]
  /\ SetCr(p, [Cr(p) EXCEPT !.win = hand[p], !.start = Cr(p).pos,
                            !.len = Want(p, Cr(p), need[p])])
  /\ hand' = [hand EXCEPT ![p] = NoBuf]
  /\ GoTo(p, "served")
  /\ UNCHANGED <<fsck, damage, next, pool, cap, free, need, rg, col, pass, vecs, out, errs, faults, hit>>

(* readAt fails: the buffer is released, and no window is left. *)
ReadFails(p) ==
  /\ pc[p] = "read"
  /\ faults < MaxFaults
  /\ faults' = faults + 1
  /\ hit' = hit \union {p}
  /\ Fails(p, Cr(p), releaseBuf(Waiting(free[p], pool), hand[p]))
  /\ UNCHANGED <<fsck, damage, next, cap, content>>

-----------------------------------------------------------------------------
(* The blocks of the file that begin where the reader looks: what the      *)
(* buffer holds there, whoever filled it.                                  *)
Found(p) ==
  LET cr == Cr(p)
      x  == content[cr.win]
      at == x.from + cr.pos - cr.start
  IN IF x.g = 0 \/ at + need[p] > x.from + x.len THEN {}
     ELSE {[g |-> x.g, c |-> x.c, k |-> k] :
             k \in {j \in 1..NumBlocks(x.g) : Offset(x.c, x.g, j) = at}}
Size(b) == Sizes[b.c][b.g][b.k]
Damaged(b, kind) == damage = [kind |-> kind, g |-> b.g, c |-> b.c, k |-> b.k]

(* The header of a BOOL block: a run count the block cannot have is an     *)
(* error that leaves the position where it is; otherwise the whole block.  *)
BoolHeader(p) ==
  /\ pc[p] = "served"
  /\ col[p] \in Bools /\ need[p] = 1
  /\ IF \E b \in Found(p) : ~Damaged(b, "runs")
       THEN \E b \in Found(p) : window(p, Cr(p), Size(b))
       ELSE Fails(p, Cr(p), Waiting(free[p], pool))
  /\ UNCHANGED <<fsck, damage, next, cap, content, faults, hit>>

(* The whole block is there: past it, then its checksum, then its values   *)
(* are copied out.  That a BOOL block decodes to fewer rows than it should *)
(* is seen by VerifyColumnStats only.  After the last column of a scan the *)
(* batch is complete.                                                      *)
TakeBlock(p) ==
  LET fewer(b) == Damaged(b, "rows") /\ p \in fsck /\ pass[p] = "verify"
      good(b)  == Size(b) = need[p] /\ ~Damaged(b, "crc") /\ ~fewer(b)
      cr   == [Cr(p) EXCEPT !.pos = @ + need[p]]
      last == col[p] = Cols
  IN /\ pc[p] = "served"
     /\ col[p] \notin Bools \/ need[p] # 1
     /\ IF ~\E b \in Found(p) : good(b) THEN Fails(p, cr, Waiting(free[p], pool))
        ELSE /\ SetCr(p, cr)
             /\ need' = [need EXCEPT ![p] = 0]
             /\ GoTo(p, "block")
             /\ UNCHANGED <<pool, free, hand, rg, pass, errs>>
             /\ \E b \in Found(p) :
                  IF p \in fsck THEN out' = [out EXCEPT ![p] = Append(@, b)] /\ UNCHANGED <<col, vecs>>
                  ELSE /\ vecs' = [vecs EXCEPT ![p] = IF last THEN <<>> ELSE Append(@, b)]
                       /\ out' = [out EXCEPT ![p] = IF last THEN Append(@, Append(vecs[p], b)) ELSE @]
                       /\ col' = [col EXCEPT ![p] = IF last THEN 1 ELSE @ + 1]
     /\ UNCHANGED <<fsck, damage, next, cap, content, faults, hit>>

(* TableScan.Next finds the context cancelled, as the first worker to fail leaves it. *)
Cancelled(p) ==
  /\ pc[p] = "block" /\ p \notin fsck /\ col[p] = 1
  /\ \E q \in Procs \ (fsck \union {p}) : errs[q] > 0
  /\ CountError(p)
  /\ GoTo(p, "close")
  /\ UNCHANGED <<fsck, damage, next, pool, cap, content, free, crs, hand, need, rg, col, pass,
                 vecs, out, faults, hit>>

(* TableScan.Close, and Reader.Close: what is left goes to the shared pool. *)
CloseReader(p) ==
  /\ pc[p] = "close"
  /\ pool' = drained(closeRowGroup(p, crs[p]))
  /\ free' = [free EXCEPT ![p] = <<>>]
  /\ crs' = [crs EXCEPT ![p] = [c \in 1..Cols |-> ClosedCr(crs[p][c])]]
  /\ GoTo(p, "closed")
  /\ UNCHANGED <<fsck, damage, next, cap, content, hand, need, rg, col, pass, vecs, out, errs, faults, hit>>

Step(p) ==
  \/ Claim(p) \/ EndOfSection(p) \/ NextBlock(p) \/ GetShared(p) \/ ReadAt(p) \/ ReadFails(p)
  \/ BoolHeader(p) \/ TakeBlock(p) \/ Cancelled(p) \/ CloseReader(p)

Finished == (\A p \in Procs : pc[p] = "closed") /\ UNCHANGED vars

Next == (\E p \in Procs : Step(p)) \/ Finished

Spec == Init /\ [][Next]_vars /\ \A p \in Procs : WF_vars(Step(p))

-----------------------------------------------------------------------------
BlockNumbers == UNION {1..NumBlocks(g) : g \in 1..NumRGs}
Block == [g : 1..NumRGs, c : 1..Cols, k : BlockNumbers]

(* Types; and a window never claims more bytes than its buffer has, nor    *)
(* does a free list outgrow maxPooledBufs.                                 *)
TypeOK ==
  /\ fsck \in {{}, {Fscker}} /\ damage \in Damages
  /\ next \in 1..(NumRGs + 1)
  /\ pool \in [Bufs -> Nat] /\ cap \in [Bufs -> Nat]
  /\ \A p \in Procs :
       /\ free[p] \in Seq(Bufs) /\ Len(free[p]) <= MaxPooled
       /\ hand[p] \in Bufs \union {NoBuf}
       /\ col[p] \in 1..Cols /\ pass[p] \in {"check", "verify"}
       /\ pc[p] \in {"claim", "block", "get", "read", "served", "close", "closed"}
       /\ vecs[p] \in Seq(Block) /\ out[p] \in Seq(IF p \in fsck THEN Block ELSE Seq(Block))
       /\ errs[p] \in 0..MaxErrs
       /\ \A c \in 1..Cols : LET cr == crs[p][c] IN
            /\ cr.done \in BlockNumbers \union {0} /\ cr.win \in Bufs \union {NoBuf}
            /\ cr.win # NoBuf => cr.len <= cap[cr.win]
  /\ faults \in 0..MaxFaults /\ hit \subseteq Procs

(* A buffer is in one place at a time: the shared pool, one Reader's free  *)
(* list, one window, or the hand of one goroutine between acquireBuf and   *)
(* cr.win.  Two windows over one buffer would each read what the other     *)
(* fetched, and the checksum of a block from elsewhere would still hold.   *)
BufferHeldOnce ==
  \A b \in Bufs :
    LET inFree == {x \in Procs \X (1..MaxPooled) : x[2] <= Len(free[x[1]]) /\ free[x[1]][x[2]] = b}
        inWin  == {x \in Procs \X (1..Cols) : crs[x[1]][x[2]].win = b}
        inHand == {p \in Procs : hand[p] = b}
    IN pool[b] + Cardinality(inFree) + Cardinality(inWin) + Cardinality(inHand) <= 1

(* Every batch a scan returns has one block of each column, all of the     *)
(* same number of the same row group, none with a bad checksum or an       *)
(* impossible run count; and it follows the batch before it, whatever      *)
(* other workers read into the buffers they pass around.                   *)
BatchesInOrder ==
  \A p \in Procs \ fsck : \A i \in DOMAIN out[p] :
    LET batch == out[p][i]
        first == batch[1]
    IN /\ Len(batch) = Cols
       /\ \A c \in 1..Cols : batch[c] = [first EXCEPT !.c = c]
       /\ \A c \in 1..Cols : ~Damaged(batch[c], "crc") /\ ~Damaged(batch[c], "runs")
       /\ IF first.k > 1 THEN i > 1 /\ out[p][i - 1][1] = [first EXCEPT !.k = @ - 1]
          ELSE i > 1 => LET prev == out[p][i - 1][1]
                        IN prev.k = NumBlocks(prev.g) /\ prev.g < first.g

(* When every worker has closed and none failed, the workers together have *)
(* returned each block of each row group exactly once.                     *)
RowGroupsComplete ==
  LET times(g, k) == UNION {{<<p, i>> : i \in {j \in DOMAIN out[p] :
                                 out[p][j][1].g = g /\ out[p][j][1].k = k}} : p \in Procs}
  IN (fsck = {} /\ \A p \in Procs : pc[p] = "closed" /\ errs[p] = 0) =>
       \A g \in 1..NumRGs : \A k \in 1..NumBlocks(g) : Cardinality(times(g, k)) = 1

Section(g, c) == [k \in 1..NumBlocks(g) |-> [g |-> g, c |-> c, k |-> k]]

(* The first i of the sections read when each is read twice. *)
EachTwice[i \in 0..(NumRGs * Cols * 2)] ==
  IF i = 0 THEN <<>>
  ELSE EachTwice[i - 1] \o Section((i - 1) \div (Cols * 2) + 1, ((i - 1) % (Cols * 2)) \div 2 + 1)

(* fsck says OK exactly when the file is sound and every read of its own   *)
(* succeeded: going on after a bad block, whose failure may leave the      *)
(* position behind, hides no damage and invents none.  On OK it has read   *)
(* every block of every column in order, twice.                            *)
FsckVerdict ==
  \A p \in fsck : pc[p] = "closed" =>
    /\ errs[p] = 0 <=> damage.kind = "none" /\ p \notin hit
    /\ errs[p] = 0 => out[p] = EachTwice[NumRGs * Cols * 2]

(* Every scan and every fsck comes to an end, bad blocks and failed reads  *)
(* included: a block is counted before it is read, so none is tried twice. *)
AllClose == \A p \in Procs : <>(pc[p] = "closed")
=============================================================================
