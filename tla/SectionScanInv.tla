--------------------------- MODULE SectionScanInv ---------------------------
(***************************************************************************)
(* The inductive invariant of SectionScan, for any file, any number of     *)
(* processes and any sizes of windows, classes and free lists: who holds   *)
(* each buffer, what is in a window, and how far a scan has come.          *)
(***************************************************************************)
EXTENDS SectionScan

ColumnReader == [pos : Nat, done : BlockNumbers \union {0}, win : Bufs \union {NoBuf},
                 start : Nat, len : Nat]
FileRange == [g : 0..NumRGs, c : 0..Cols, from : Nat, len : Nat]

(* What there is one of; that there is one of the rest for each process;   *)
(* and what each of those is.                                              *)
Globals ==
  /\ fsck \in {{}, {Fscker}} /\ damage \in Damages
  /\ next \in 1..(NumRGs + 1)
  /\ pool \in [Bufs -> Nat] /\ cap \in [Bufs -> Nat] /\ content \in [Bufs -> FileRange]
  /\ faults \in 0..MaxFaults /\ hit \subseteq Procs

OneEach ==
  /\ free = [p \in Procs |-> free[p]] /\ crs = [p \in Procs |-> crs[p]]
  /\ hand = [p \in Procs |-> hand[p]] /\ need = [p \in Procs |-> need[p]]
  /\ pc = [p \in Procs |-> pc[p]] /\ rg = [p \in Procs |-> rg[p]]
  /\ col = [p \in Procs |-> col[p]] /\ pass = [p \in Procs |-> pass[p]]
  /\ vecs = [p \in Procs |-> vecs[p]] /\ out = [p \in Procs |-> out[p]]
  /\ errs = [p \in Procs |-> errs[p]]

Own(p) ==
  /\ free[p] \in Seq(Bufs) /\ Len(free[p]) <= MaxPooled
  /\ crs[p] \in [1..Cols -> ColumnReader]
  /\ hand[p] \in Bufs \union {NoBuf}
  /\ need[p] \in Nat /\ rg[p] \in 1..(NumRGs + 1) /\ col[p] \in 1..Cols
  /\ pc[p] \in {"claim", "block", "get", "read", "served", "close", "closed"}
  /\ pass[p] \in {"check", "verify"}
  /\ vecs[p] \in Seq(Block) /\ out[p] \in Seq(IF p \in fsck THEN Block ELSE Seq(Block))
  /\ errs[p] \in 0..MaxErrs

Typed == Globals /\ OneEach /\ \A p \in Procs : Own(p)

(* A step of p leaves what the other processes have alone. *)
Others(p) ==
  \A q \in Procs : q # p =>
    /\ free'[q] = free[q] /\ crs'[q] = crs[q] /\ hand'[q] = hand[q] /\ need'[q] = need[q]
    /\ pc'[q] = pc[q] /\ rg'[q] = rg[q] /\ col'[q] = col[q] /\ pass'[q] = pass[q]
    /\ vecs'[q] = vecs[q] /\ out'[q] = out[q] /\ errs'[q] = errs[q]

-----------------------------------------------------------------------------
(***************************************************************************)
(* Who holds a buffer.  The buffers that wait in w, each in one place:     *)
(***************************************************************************)
Waits(w) == {w.free[i] : i \in 1..Len(w.free)} \union {b \in Bufs : w.pool[b] = 1}

Tidy(w) ==
  /\ w.free \in Seq(Bufs) /\ Len(w.free) <= MaxPooled
  /\ w.pool \in [Bufs -> Nat] /\ \A b \in Bufs : w.pool[b] <= 1
  /\ \A i, j \in 1..Len(w.free) : w.free[i] = w.free[j] => i = j
  /\ \A i \in 1..Len(w.free) : w.pool[w.free[i]] = 0

(* What a process may take a buffer from, and the buffers that are its own. *)
Around(p) == Waiting(free[p], pool)
OwnedBy(p) ==
  {free[p][i] : i \in 1..Len(free[p])} \union {crs[p][c].win : c \in 1..Cols} \union {hand[p]}

(* It holds none twice, and no two processes hold the same one. *)
Neat(p) ==
  /\ Tidy(Around(p))
  /\ \A c \in 1..Cols : crs[p][c].win \notin Waits(Around(p))
  /\ hand[p] \notin Waits(Around(p))
  /\ \A c, d \in 1..Cols : crs[p][c].win = crs[p][d].win /\ crs[p][c].win # NoBuf => c = d
  /\ hand[p] # NoBuf => \A c \in 1..Cols : crs[p][c].win # hand[p]

Apart ==
  /\ \A p \in Procs : Neat(p)
  /\ \A p, q \in Procs : \A b \in Bufs : b \in OwnedBy(p) /\ b \in OwnedBy(q) => p = q

-----------------------------------------------------------------------------
(***************************************************************************)
(* What is in a window, and a window being fetched.                        *)
(***************************************************************************)
Active == {"block", "get", "read", "served"}
Fetching == {"get", "read", "served"}

Windows(p) ==
  \A c \in 1..Cols : LET cr == crs[p][c] IN cr.win # NoBuf =>
    /\ cr.len <= cap[cr.win]
    /\ content[cr.win] = [g |-> rg[p], c |-> c, from |-> cr.start, len |-> cr.len]

Fetch(p) ==
  /\ pc[p] \in Active => rg[p] <= NumRGs
  /\ pc[p] \in Fetching =>
       /\ need[p] >= 1 /\ Cr(p).pos + need[p] <= End(col[p], rg[p])
       /\ Cr(p).done \in 1..NumBlocks(rg[p])
  /\ pc[p] = "read" <=> hand[p] # NoBuf
  /\ pc[p] \in {"get", "read"} => Cr(p).win = NoBuf
  /\ pc[p] = "read" => cap[hand[p]] >= Want(p, Cr(p), need[p])
  /\ pc[p] = "served" => Cr(p).win # NoBuf

Buffers == Apart /\ \A p \in Procs : Windows(p) /\ Fetch(p)

(* A step of p takes only buffers that wait or are nobody's, and touches   *)
(* only those and its own.                                                 *)
Takes(p) ==
  /\ Waits(Around(p))' \subseteq Waits(Around(p)) \union OwnedBy(p)
  /\ \A b \in Bufs : b \in OwnedBy(p)' => b \in OwnedBy(p) \union Waits(Around(p)) \/ ~Held(b)
Touches(p) ==
  \A b \in Bufs : cap'[b] # cap[b] \/ content'[b] # content[b] => b \in OwnedBy(p) \/ ~Held(b)

(* What a step of p has to show for its own state. *)
Keeps(p) == Takes(p) /\ Touches(p) /\ (Own(p) /\ Neat(p) /\ Windows(p) /\ Fetch(p))'

-----------------------------------------------------------------------------
(***************************************************************************)
(* How far a scan has come.  It is about to read, or reading, block        *)
(* Number(p) of the column it is at; the columns before have it, those     *)
(* after still want it.                                                    *)
(***************************************************************************)
Number(p) == IF pc[p] = "block" THEN Cr(p).done + 1 ELSE Cr(p).done
BlockAt(p, c) == [g |-> rg[p], c |-> c, k |-> Number(p)]
Sound(b) == ~Damaged(b, "crc") /\ ~Damaged(b, "runs")

InStep(p) ==
  /\ Cr(p).pos = Offset(col[p], rg[p], Number(p))
  /\ Number(p) <= NumBlocks(rg[p]) + 1
  /\ col[p] # 1 => Number(p) <= NumBlocks(rg[p])
  /\ \A d \in 1..Cols : d # col[p] =>
       LET k == IF d < col[p] THEN Number(p) + 1 ELSE Number(p)
       IN crs[p][d].done = k - 1 /\ crs[p][d].pos = Offset(d, rg[p], k)

Gathered(p) ==
  /\ Len(vecs[p]) = col[p] - 1
  /\ \A d \in 1..(col[p] - 1) : vecs[p][d] = BlockAt(p, d) /\ Sound(vecs[p][d])
  /\ pc[p] \in Fetching /\ col[p] \in Bools /\ need[p] # 1 =>
       ~Damaged(BlockAt(p, col[p]), "runs")

(* The first block of the last batch returned. *)
Latest(p) == out[p][Len(out[p])][1]

(* The last batch ends a row group before g. *)
EndedBefore(p, g) ==
  Len(out[p]) > 0 => Latest(p).k = NumBlocks(Latest(p).g) /\ Latest(p).g < g

Follows(p) ==
  IF Number(p) > 1
    THEN Len(out[p]) > 0 /\ Latest(p) = [g |-> rg[p], c |-> 1, k |-> Number(p) - 1]
    ELSE EndedBefore(p, rg[p])

(* Workers scan only when the program is not fsck. *)
Scanning(p) ==
  /\ fsck # {} => pc[p] = "closed"
  /\ pc[p] \in Active => InStep(p) /\ Gathered(p) /\ Follows(p)
  /\ pc[p] = "claim" => vecs[p] = <<>> /\ EndedBefore(p, next)
                        /\ \A c \in 1..Cols : crs[p][c].win = NoBuf

-----------------------------------------------------------------------------
(***************************************************************************)
(* Which row groups are read by whom.                                      *)
(***************************************************************************)
Returned(p, g, k) == \E i \in 1..Len(out[p]) : out[p][i][1].g = g /\ out[p][i][1].k = k
Serves(p, g) ==
  (pc[p] \in Active /\ rg[p] = g) \/ \E i \in 1..Len(out[p]) : out[p][i][1].g = g
Precedes(a, b) == a.g < b.g \/ (a.g = b.g /\ a.k < b.k)

(* A row group is read by the process that claimed it, from its first      *)
(* block to its last.                                                      *)
Claimed == \A p \in Procs : \A g \in 1..NumRGs : Serves(p, g) => g < next
Exclusive == \A p, q \in Procs : \A g \in 1..NumRGs : Serves(p, g) /\ Serves(q, g) => p = q
Ascending(p) == \A i, j \in 1..Len(out[p]) : i < j => Precedes(out[p][i][1], out[p][j][1])
UpToNow(p) == pc[p] \in Active => \A k \in 1..(Number(p) - 1) : Returned(p, rg[p], k)

(* None is left out unless a scan failed. *)
Covered ==
  \A g \in 1..(next - 1) :
    \/ \E p \in Procs : errs[p] > 0
    \/ \E p \in Procs : pc[p] \in Active /\ rg[p] = g
    \/ \E p \in Procs : \A k \in 1..NumBlocks(g) : Returned(p, g, k)
StopsLate(p) == pc[p] \in {"close", "closed"} => errs[p] > 0 \/ next > NumRGs

Shared ==
  fsck = {} =>
    /\ Claimed /\ Exclusive /\ Covered
    /\ \A p \in Procs : Ascending(p) /\ UpToNow(p) /\ StopsLate(p)

(* The batches of one scan, as BatchesInOrder has them. *)
Ordered(p) ==
  \A i \in DOMAIN out[p] :
    LET batch == out[p][i]
        first == batch[1]
    IN /\ Len(batch) = Cols
       /\ \A c \in 1..Cols : batch[c] = [first EXCEPT !.c = c]
       /\ \A c \in 1..Cols : Sound(batch[c])
       /\ IF first.k > 1 THEN i > 1 /\ out[p][i - 1][1] = [first EXCEPT !.k = @ - 1]
          ELSE i > 1 => LET prev == out[p][i - 1][1]
                        IN prev.k = NumBlocks(prev.g) /\ prev.g < first.g

Scans == (\A p \in Procs \ fsck : Ordered(p) /\ Scanning(p)) /\ Shared

(* What a step of the scan p has to show. *)
Continues(p) == (Ordered(p) /\ Scanning(p))' /\ Shared'

IndInv == Typed /\ Buffers /\ Scans
=============================================================================
