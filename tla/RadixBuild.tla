------------------------------ MODULE RadixBuild ------------------------------
(***************************************************************************)
(* BuildSharedHashTableParallel (exec/parallel_join.go): the build side of *)
(* a parallel join, materialised by several goroutines without a lock.     *)
(*                                                                         *)
(* Pass 1 claims row-group morsels from an atomic cursor; each morsel's    *)
(* rows go into a bucket of its own, split by radix partition.  A failed   *)
(* morsel cancels the others.  Pass 2 claims partitions; each partition    *)
(* copies its rows, morsel by morsel, into its own range of one row store  *)
(* and links them into its own table.                                      *)
(*                                                                         *)
(* A build row is <<b, i>>, row i of the b-th batch in file order.  What a *)
(* table does with a key is module JoinTable's subject: here a table is a  *)
(* chain of store indices per key, and inserting appends to it.            *)
(***************************************************************************)
EXTENDS Integers, Sequences, FiniteSets

CONSTANTS
  NumWorkers,           \* as the planner passes it
  TotalRGs,             \* row groups of the build side
  RequestedMorselSize,
  Build,                \* the batches in file order: their row group and keys
  Null,                 \* the NULL join key
  NumParts,             \* 1 << radixBits
  PartOf,               \* radixPart: key -> partition
  maxBuildRows,
  MaxFaults             \* bound: injected pipeline or read errors

MorselSize == IF RequestedMorselSize < 1 THEN 1 ELSE RequestedMorselSize

NumMorsels == (TotalRGs + MorselSize - 1) \div MorselSize

Clamped(m) == IF m < 1 THEN 1 ELSE m

Pass1Workers == 1 .. Clamped(IF NumWorkers < NumMorsels THEN NumWorkers ELSE NumMorsels)
Pass2Workers == 1 .. Clamped(IF NumWorkers < NumParts THEN NumWorkers ELSE NumParts)

Morsels == 0 .. NumMorsels - 1
Parts == 0 .. NumParts - 1
Keys == DOMAIN PartOf

BuildRows == UNION {{b} \X DOMAIN Build[b].keys : b \in DOMAIN Build}

KeyOf(row) == Build[row[1]].keys[row[2]]

ASSUME RadixAssumption ==
  /\ NumWorkers \in Int
  /\ TotalRGs \in Nat \ {0}
  /\ RequestedMorselSize \in Int
  /\ NumParts \in Nat \ {0}
  /\ PartOf \in [Keys -> Parts]
  /\ Null \notin Keys
  /\ Build \in Seq([rg : 0 .. TotalRGs - 1, keys : Seq(Keys \cup {Null})])
  /\ \A b, c \in DOMAIN Build : b <= c => Build[b].rg <= Build[c].rg
  /\ maxBuildRows \in Nat
  /\ MaxFaults \in Nat

VARIABLES
  callerPc,    \* "pass1", "pass2", "returned"
  cursor,      \* morselQueue.next of the running pass
  pc,          \* pass-1 workers: "claim", "drain", "send", "sent"
  start,       \* first row group of the claimed morsel
  at,          \* batches of it drained so far: index of the last one
  local,       \* the morsel's bucket: partition -> rows in drain order
  err,         \* what the worker is going to send
  buckets,     \* morsel -> set of at most one bucket (empty stands for nil)
  errCh,       \* buffered by pass-1 worker count
  received,
  firstErr,
  canceled,    \* wCtx is canceled
  ctxCanceled, \* the caller's ctx is
  faults,
  counts, offsets,  \* pass 2: rows and first store index of each partition
  pc2,         \* pass-2 workers: "claim", "copy", "done"
  part, mi, kr, \* claimed partition, morsel and position within its rows
  dst,         \* next store index
  tbl,         \* the partition's table: key -> chain of store indices
  store,       \* store index -> set of the rows written there
  parts,       \* partition -> set of at most one table
  result       \* "none", "ok", "err" or "overflow"

pass1 == <<pc, start, at, local, err>>
pass2 == <<counts, offsets, pc2, part, mi, kr, dst, tbl, store, parts>>
vars  == <<callerPc, cursor, pass1, buckets, errCh, received, firstErr, canceled,
           ctxCanceled, faults, pass2, result>>

NoRows == [p \in Parts |-> <<>>]
NoChains == [k \in Keys |-> <<>>]

Init ==
  /\ callerPc = "pass1"  /\ cursor = 0
  /\ pc = [w \in Pass1Workers |-> "claim"]
  /\ start = [w \in Pass1Workers |-> 0]  /\ at = [w \in Pass1Workers |-> 0]
  /\ local = [w \in Pass1Workers |-> NoRows]
  /\ err = [w \in Pass1Workers |-> "nil"]
  /\ buckets = [m \in Morsels |-> {}]
  /\ errCh = <<>>  /\ received = 0  /\ firstErr = "nil"
  /\ canceled = FALSE  /\ ctxCanceled = FALSE  /\ faults = 0
  /\ counts = [p \in Parts |-> 0]  /\ offsets = [p \in Parts |-> 0]
  /\ pc2 = [w \in Pass2Workers |-> "off"]
  /\ part = [w \in Pass2Workers |-> 0]  /\ mi = [w \in Pass2Workers |-> 0]
  /\ kr = [w \in Pass2Workers |-> 0]  /\ dst = [w \in Pass2Workers |-> 0]
  /\ tbl = [w \in Pass2Workers |-> NoChains]
  /\ store = <<>>  /\ parts = [p \in Parts |-> {}]
  /\ result = "none"

-----------------------------------------------------------------------------
(***************************************************************************)
(* Pass 1: a worker goroutine.                                             *)
(***************************************************************************)

\* The batches of the worker's morsel it has not drained yet.
Ahead(w) == {b \in DOMAIN Build :
               b > at[w] /\ Build[b].rg >= start[w] /\ Build[b].rg < start[w] + MorselSize}

FirstOf(S) == CHOOSE b \in S : \A c \in S : b <= c

ClaimMorsel(w) ==
  /\ pc[w] = "claim"
  /\ cursor' = cursor + MorselSize
  /\ IF cursor >= TotalRGs
     THEN pc' = [pc EXCEPT ![w] = "send"] /\ UNCHANGED <<start, at, local>>
     ELSE /\ start' = [start EXCEPT ![w] = cursor]
          /\ at' = [at EXCEPT ![w] = 0]
          /\ local' = [local EXCEPT ![w] = NoRows]
          /\ pc' = [pc EXCEPT ![w] = "drain"]
  /\ UNCHANGED <<callerPc, err, buckets, errCh, received, firstErr, canceled, ctxCanceled,
                 faults, pass2, result>>

\* forEachBuildRow on one batch: the rows with a key, in order, each appended to
\* its partition's list.
RowsFor(b, p) ==
  LET kept == {i \in DOMAIN Build[b].keys :
                 Build[b].keys[i] # Null /\ PartOf[Build[b].keys[i]] = p}
      nth(n) == CHOOSE i \in kept : Cardinality({j \in kept : j < i}) = n - 1
  IN  [n \in 1 .. Cardinality(kept) |-> <<b, nth(n)>>]

ReadBatch(w) ==
  /\ pc[w] = "drain"
  /\ ~canceled
  /\ Ahead(w) # {}
  /\ LET b == FirstOf(Ahead(w)) IN
       /\ at' = [at EXCEPT ![w] = b]
       /\ local' = [local EXCEPT ![w] = [p \in Parts |-> local[w][p] \o RowsFor(b, p)]]
  /\ UNCHANGED <<callerPc, cursor, pc, start, err, buckets, errCh, received, firstErr,
                 canceled, ctxCanceled, faults, pass2, result>>

\* Mutant: buckets are filed in the order in which morsels finish.
NextFreeBucket(w) == Cardinality({m \in Morsels : buckets[m] # {}})

\* buckets[int(start)/morselSize]
BucketOf(w) == start[w] \div MorselSize

\* partitionMorsel succeeded: the bucket is filed under its morsel.
EndMorsel(w) ==
  /\ pc[w] = "drain"
  /\ ~canceled
  /\ Ahead(w) = {}
  /\ buckets' = [buckets EXCEPT ![BucketOf(w)] = {local[w]}]
  /\ pc' = [pc EXCEPT ![w] = "claim"]
  /\ UNCHANGED <<callerPc, cursor, start, at, local, err, errCh, received, firstErr,
                 canceled, ctxCanceled, faults, pass2, result>>

\* Mutant: a worker that fails cancels its siblings before its error is received.
CancelAtFailure == TRUE

\* Only the collector cancels.
CanceledByWorker == canceled

\* runner.open or the pipeline fails.
MorselFails(w) ==
  /\ pc[w] = "drain"
  /\ faults < MaxFaults
  /\ faults' = faults + 1
  /\ err' = [err EXCEPT ![w] = "fault"]
  /\ pc' = [pc EXCEPT ![w] = "send"]
  /\ canceled' = CanceledByWorker
  /\ UNCHANGED <<callerPc, cursor, start, at, local, buckets, errCh, received, firstErr,
                 ctxCanceled, pass2, result>>

\* TableScan.Next: ctx.Err() # nil.
MorselCanceled(w) ==
  /\ pc[w] = "drain"
  /\ canceled
  /\ err' = [err EXCEPT ![w] = "canceled"]
  /\ pc' = [pc EXCEPT ![w] = "send"]
  /\ UNCHANGED <<callerPc, cursor, start, at, local, buckets, errCh, received, firstErr,
                 canceled, ctxCanceled, faults, pass2, result>>

\* Mutant: an error is not sent when the build is already canceled.
SentUnlessCanceled(w) == IF canceled /\ err[w] # "nil" THEN errCh ELSE Append(errCh, err[w])

\* errCh <- err: every worker sends exactly once.
SentBy(w) == Append(errCh, err[w])

Send(w) ==
  /\ pc[w] = "send"
  /\ Len(errCh) < Cardinality(Pass1Workers)
  /\ errCh' = SentBy(w)
  /\ pc' = [pc EXCEPT ![w] = "sent"]
  /\ UNCHANGED <<callerPc, cursor, start, at, local, err, buckets, received, firstErr,
                 canceled, ctxCanceled, faults, pass2, result>>

Pass1Step(w) ==
  \/ ClaimMorsel(w) \/ ReadBatch(w) \/ EndMorsel(w) \/ MorselFails(w) \/ MorselCanceled(w) \/ Send(w)

-----------------------------------------------------------------------------
(***************************************************************************)
(* The calling goroutine.                                                  *)
(***************************************************************************)

\* err := <-errCh: the first error is kept, and only then are the others stopped.
Receive ==
  /\ callerPc = "pass1"
  /\ errCh # <<>>
  /\ received' = received + 1
  /\ errCh' = Tail(errCh)
  /\ IF Head(errCh) # "nil" /\ firstErr = "nil"
     THEN firstErr' = Head(errCh) /\ canceled' = TRUE
     ELSE UNCHANGED <<firstErr, canceled>>
  /\ UNCHANGED <<callerPc, cursor, pass1, buckets, ctxCanceled, faults, pass2, result>>

\* The caller's context is canceled, and wCtx with it.
CancelCtx ==
  /\ callerPc = "pass1"
  /\ ~ctxCanceled
  /\ ctxCanceled' = TRUE
  /\ canceled' = TRUE
  /\ UNCHANGED <<callerPc, cursor, pass1, buckets, errCh, received, firstErr, faults,
                 pass2, result>>

Pass1Fails ==
  /\ callerPc = "pass1"
  /\ received = Cardinality(Pass1Workers)
  /\ firstErr # "nil"
  /\ result' = "err"
  /\ callerPc' = "returned"
  /\ UNCHANGED <<cursor, pass1, buckets, errCh, received, firstErr, canceled, ctxCanceled,
                 faults, pass2>>

\* The rows pass 1 found for partition p: <<morsel, position>>.
Found(p) ==
  {f \in Morsels \X (1 .. Cardinality(BuildRows)) :
     \E b \in buckets[f[1]] : f[2] <= Len(b[p])}

CountOf(p) == Cardinality(Found(p))

\* The rows of all partitions: <<partition, row>>.
AllFound == UNION {{p} \X Found(p) : p \in Parts}

\* Mutant: a partition's range starts where it should end.
OffsetPastOwn(p) == Cardinality({f \in AllFound : f[1] <= p})

\* The prefix sums of the counts.
OffsetOf(p) == Cardinality({f \in AllFound : f[1] < p})

Total == Cardinality(AllFound)

\* All of pass 1 received: count, refuse more rows than an int32 can index, size
\* the store and start pass 2.
StartPass2 ==
  /\ callerPc = "pass1"
  /\ received = Cardinality(Pass1Workers)
  /\ firstErr = "nil"
  /\ IF Total > maxBuildRows
     THEN result' = "overflow" /\ callerPc' = "returned" /\ UNCHANGED <<cursor, pass2>>
     ELSE /\ counts' = [p \in Parts |-> CountOf(p)]
          /\ offsets' = [p \in Parts |-> OffsetOf(p)]
          /\ store' = [d \in 0 .. Total - 1 |-> {}]
          /\ cursor' = 0
          /\ pc2' = [w \in Pass2Workers |-> "claim"]
          /\ callerPc' = "pass2"
          /\ UNCHANGED <<part, mi, kr, dst, tbl, parts, result>>
  /\ UNCHANGED <<pass1, buckets, errCh, received, firstErr, canceled, ctxCanceled, faults>>

\* Every pass-2 worker has sent on done.
Pass2Done ==
  /\ callerPc = "pass2"
  /\ \A w \in Pass2Workers : pc2[w] = "done"
  /\ result' = "ok"
  /\ callerPc' = "returned"
  /\ UNCHANGED <<cursor, pass1, buckets, errCh, received, firstErr, canceled, ctxCanceled,
                 faults, pass2>>

CallerStep == Receive \/ Pass1Fails \/ StartPass2 \/ Pass2Done

-----------------------------------------------------------------------------
(***************************************************************************)
(* Pass 2: a worker goroutine.                                             *)
(***************************************************************************)

outsidePass2Worker == <<callerPc, pass1, errCh, received, firstErr, canceled, ctxCanceled,
                        faults, counts, offsets, result>>

ClaimPart(w) ==
  /\ pc2[w] = "claim"
  /\ cursor' = cursor + 1
  /\ IF cursor >= NumParts
     THEN pc2' = [pc2 EXCEPT ![w] = "done"] /\ UNCHANGED <<part, mi, kr, dst, tbl>>
     ELSE /\ part' = [part EXCEPT ![w] = cursor]
          /\ mi' = [mi EXCEPT ![w] = 0]
          /\ kr' = [kr EXCEPT ![w] = 0]
          /\ dst' = [dst EXCEPT ![w] = offsets[cursor]]
          /\ tbl' = [tbl EXCEPT ![w] = NoChains]
          /\ pc2' = [pc2 EXCEPT ![w] = "copy"]
  /\ UNCHANGED <<outsidePass2Worker, buckets, store, parts>>

\* The rows of the worker's partition in the bucket it is at; none in a nil bucket.
BucketRows(w) == IF buckets[mi[w]] = {} THEN <<>>
                 ELSE (CHOOSE b \in buckets[mi[w]] : TRUE)[part[w]]

\* setFrom, insert and dst++ for one row.
CopyRow(w) ==
  /\ pc2[w] = "copy"
  /\ mi[w] < NumMorsels
  /\ kr[w] < Len(BucketRows(w))
  /\ LET row == BucketRows(w)[kr[w] + 1] IN
       /\ store' = [store EXCEPT ![dst[w]] = @ \cup {row}]
       /\ tbl' = [tbl EXCEPT ![w][KeyOf(row)] = Append(@, dst[w])]
  /\ dst' = [dst EXCEPT ![w] = @ + 1]
  /\ kr' = [kr EXCEPT ![w] = @ + 1]
  /\ UNCHANGED <<outsidePass2Worker, cursor, buckets, pc2, part, mi, parts>>

\* Mutant: the bucket of every partition is released, not only the worker's own.
ReleasedAll(w) == {[p \in Parts |-> <<>>] : b \in buckets[mi[w]]}

\* b.rows[p] = nil
Released(w) == {[b EXCEPT ![part[w]] = <<>>] : b \in buckets[mi[w]]}

NextBucket(w) ==
  /\ pc2[w] = "copy"
  /\ mi[w] < NumMorsels
  /\ kr[w] = Len(BucketRows(w))
  /\ buckets' = [buckets EXCEPT ![mi[w]] = Released(w)]
  /\ mi' = [mi EXCEPT ![w] = @ + 1]
  /\ kr' = [kr EXCEPT ![w] = 0]
  /\ UNCHANGED <<outsidePass2Worker, cursor, pc2, part, dst, tbl, store, parts>>

\* sht.parts[p] = tbl
PublishPart(w) ==
  /\ pc2[w] = "copy"
  /\ mi[w] = NumMorsels
  /\ parts' = [parts EXCEPT ![part[w]] = {tbl[w]}]
  /\ pc2' = [pc2 EXCEPT ![w] = "claim"]
  /\ UNCHANGED <<outsidePass2Worker, cursor, buckets, part, mi, kr, dst, tbl, store>>

Pass2Step(w) == ClaimPart(w) \/ CopyRow(w) \/ NextBucket(w) \/ PublishPart(w)

Next ==
  \/ CallerStep
  \/ CancelCtx
  \/ \E w \in Pass1Workers : Pass1Step(w)
  \/ \E w \in Pass2Workers : Pass2Step(w)

Spec == Init /\ [][Next]_vars

\* Every goroutine keeps running; nothing obliges anyone to cancel the context.
FairSpec ==
  /\ Spec
  /\ WF_vars(CallerStep)
  /\ \A w \in Pass1Workers : WF_vars(Pass1Step(w))
  /\ \A w \in Pass2Workers : WF_vars(Pass2Step(w))

-----------------------------------------------------------------------------
Indices == 0 .. Cardinality(BuildRows)

TypeOK ==
  /\ callerPc \in {"pass1", "pass2", "returned"}
  /\ cursor \in Nat
  /\ pc \in [Pass1Workers -> {"claim", "drain", "send", "sent"}]
  /\ start \in [Pass1Workers -> 0 .. TotalRGs - 1]
  /\ at \in [Pass1Workers -> 0 .. Len(Build)]
  /\ local \in [Pass1Workers -> [Parts -> Seq(BuildRows)]]
  /\ err \in [Pass1Workers -> {"nil", "fault", "canceled"}]
  /\ buckets \in [Morsels -> SUBSET [Parts -> Seq(BuildRows)]]
  /\ \A m \in Morsels : Cardinality(buckets[m]) <= 1
  /\ errCh \in Seq({"nil", "fault", "canceled"})
  /\ received \in 0 .. Cardinality(Pass1Workers)
  /\ firstErr \in {"nil", "fault", "canceled"}
  /\ canceled \in BOOLEAN /\ ctxCanceled \in BOOLEAN
  /\ faults \in 0 .. MaxFaults
  /\ counts \in [Parts -> Indices] /\ offsets \in [Parts -> Indices]
  /\ pc2 \in [Pass2Workers -> {"off", "claim", "copy", "done"}]
  /\ part \in [Pass2Workers -> Parts]
  /\ mi \in [Pass2Workers -> 0 .. NumMorsels]
  /\ kr \in [Pass2Workers -> Indices]
  /\ dst \in [Pass2Workers -> Indices]
  /\ tbl \in [Pass2Workers -> [Keys -> Seq(Indices)]]
  /\ \A d \in DOMAIN store : d \in Indices /\ store[d] \subseteq BuildRows
  /\ parts \in [Parts -> SUBSET [Keys -> Seq(Indices)]]
  /\ \A p \in Parts : Cardinality(parts[p]) <= 1
  /\ result \in {"none", "ok", "err", "overflow"}

(***************************************************************************)
(* Pass 2: "Distinct goroutines write distinct store rows": no index of    *)
(* the store is written twice, each worker stays inside the range of its   *)
(* partition, and a finished build has written every index.                *)
(***************************************************************************)
StoreWrittenOnce ==
  /\ \A d \in DOMAIN store : Cardinality(store[d]) <= 1
  /\ \A w \in Pass2Workers : pc2[w] = "copy" =>
       dst[w] \in offsets[part[w]] .. offsets[part[w]] + counts[part[w]]
  /\ result = "ok" => \A d \in DOMAIN store : store[d] # {}

RowBefore(r, s) == r[1] < s[1] \/ (r[1] = s[1] /\ r[2] < s[2])

(***************************************************************************)
(* "the chain of rows stored for each key is identical to what a serial    *)
(* drain of the same build side produces, whatever order workers happened  *)
(* to claim morsels in": in a finished table the chain of a key, read      *)
(* through the store, is the rows of that key in file order, and it is in  *)
(* the key's partition only.                                               *)
(***************************************************************************)
TableIsSerial ==
  result = "ok" =>
    \A k \in Keys, p \in Parts :
      LET t == CHOOSE t \in parts[p] : TRUE
          row(i) == CHOOSE r \in store[t[k][i]] : TRUE IN
        /\ parts[p] # {}
        /\ {row(i) : i \in DOMAIN t[k]} =
             IF PartOf[k] = p THEN {r \in BuildRows : KeyOf(r) = k} ELSE {}
        /\ \A i, j \in DOMAIN t[k] : i < j => RowBefore(row(i), row(j))

(***************************************************************************)
(* "firstErr is set before cancel() so the genuine failure is reported     *)
(* rather than a cancellation it caused": a build reports a cancellation   *)
(* only if its caller canceled it.                                         *)
(***************************************************************************)
GenuineError ==
  result = "err" => firstErr = "fault" \/ (firstErr = "canceled" /\ ctxCanceled)

(***************************************************************************)
(* "Each worker still sends exactly once, so the collection loop below     *)
(* cannot deadlock": the build returns, whoever fails or is canceled.      *)
(***************************************************************************)
BuildReturns == <>(result # "none")
=============================================================================
