--------------------------- MODULE MorselAggregate ---------------------------
(***************************************************************************)
(* The morsel-parallel aggregate of exec/parallel.go.                      *)
(*                                                                         *)
(* A caller pulls the operator with Next.  The first Next runs setup: it   *)
(* starts numWorkers goroutines, each of which claims row-group ranges     *)
(* from one atomic cursor, drains a pipeline over each range into a        *)
(* partial aggregate of its own, and sends one result on a channel; the    *)
(* calling goroutine receives exactly numWorkers results and merges the    *)
(* partial aggregates.  A setup that fails leaves the operator without a   *)
(* delegate, so the next Next runs setup again with new goroutines.        *)
(* runMorselAggWorkers (exec/parallel_join.go) is the same worker loop     *)
(* over probe-side pipelines.                                              *)
(*                                                                         *)
(* Data is abstracted to which batches were accumulated how often: a       *)
(* partial aggregate is a function from the batches of the table to the    *)
(* number of times the batch was folded in.  What folding and merging      *)
(* compute from the rows is the subject of module AggregateMerge, and how  *)
(* a worker's pipeline is built, kept and closed that of MorselRunner.     *)
(***************************************************************************)
EXTENDS Integers, Sequences, FiniteSets

CONSTANTS
  RequestedWorkers,     \* numWorkers as the planner passes it
  TotalRGs,             \* row groups of the scanned file
  RequestedMorselSize,  \* morselSize as passed, 0 meaning the default
  BlocksOf,             \* row group -> batches its pipeline yields (0: pruned or filtered out)
  KeysIn,               \* batch -> the group keys of its rows
  Grouped,              \* whether the query has a GROUP BY
  BlockRows,            \* output rows per emitted batch
  MaxFaults,            \* bound: injected pipeline, read or accumulate errors
  MaxSetups             \* bound: how often setup may run (retries after an error)

RowGroups == 0 .. TotalRGs - 1

Batches == UNION {{rg} \X (1 .. BlocksOf[rg]) : rg \in RowGroups}

(***************************************************************************)
(* NewParallelHashAggregate: the worker count is capped to the row groups  *)
(* and both parameters are raised to at least one.                         *)
(***************************************************************************)
NumWorkers ==
  LET capped == IF RequestedWorkers > TotalRGs /\ TotalRGs > 0
                THEN TotalRGs ELSE RequestedWorkers
  IN  IF capped < 1 THEN 1 ELSE capped

MorselSize == IF RequestedMorselSize < 1 THEN 1 ELSE RequestedMorselSize

\* Goroutine <<s, i>> is worker i of the s-th run of setup.
Goroutines == (1 .. MaxSetups) \X (1 .. NumWorkers)

ASSUME ConstantsAssumption ==
  /\ RequestedWorkers \in Int
  /\ TotalRGs \in Nat
  /\ RequestedMorselSize \in Int
  /\ BlocksOf \in [RowGroups -> Nat]
  /\ DOMAIN KeysIn = Batches
  /\ \A b \in Batches : IsFiniteSet(KeysIn[b]) /\ KeysIn[b] # {}
  /\ Grouped \in BOOLEAN
  /\ ~Grouped => \A b, c \in Batches : KeysIn[b] = KeysIn[c] /\ Cardinality(KeysIn[b]) = 1
  /\ BlockRows \in Nat \ {0}
  /\ MaxFaults \in Nat
  /\ MaxSetups \in Nat

VARIABLES
  callerPc,     \* the calling goroutine: "idle" between Next calls, else where Next is
  setups,       \* how often setup has started goroutines
  received,     \* results received so far in this setup
  results,      \* goroutines whose partial aggregate waits to be merged
  firstErr,     \* the goroutine whose error was received first, or NoErr
  hasDelegate,  \* p.delegate # nil
  merged,       \* the aggregate being merged, then p.delegate
  pending,      \* p.emptyGlobalPending
  outPos,       \* p.delegate.outPos
  ret,          \* what the last Next call returned
  emitted,      \* rows returned so far
  next,         \* morselQueue.next
  ch,           \* the buffered result channel
  pc,           \* control state of each goroutine
  hi,           \* end of the range the goroutine claimed
  rgIdx, blk,   \* its scan's position: row group and next block
  acc,          \* its partial aggregate
  failed,       \* whether it met an error
  claimed,      \* history: the row groups it claimed
  faults        \* injected errors so far

collector == <<received, results, firstErr>>
delegate  == <<hasDelegate, merged>>
output    == <<pending, outPos, ret, emitted>>
worker    == <<pc, hi, rgIdx, blk, acc, failed, claimed, faults>>
vars      == <<callerPc, setups, collector, delegate, output, next, ch, worker>>

NoErr == <<0, 0>>

Empty == [b \in Batches |-> 0]

KeysOf(agg) == UNION {KeysIn[b] : b \in {x \in Batches : agg[x] > 0}}

\* What the query returns: a row per group of the table, and exactly one row
\* without a GROUP BY, even over no rows.
TableKeys == UNION {KeysIn[b] : b \in Batches}

ResultRows == IF Grouped THEN Cardinality(TableKeys) ELSE 1

\* The goroutines of the setup that is running or ran last.
Current == {g \in Goroutines : g[1] = setups}

Init ==
  /\ callerPc = "idle"  /\ setups = 0
  /\ received = 0  /\ results = <<>>  /\ firstErr = NoErr
  /\ hasDelegate = FALSE  /\ merged = Empty
  /\ pending = FALSE  /\ outPos = 0  /\ ret = "none"  /\ emitted = 0
  /\ next = 0  /\ ch = <<>>
  /\ pc = [g \in Goroutines |-> "off"]
  /\ hi = [g \in Goroutines |-> 0]
  /\ rgIdx = [g \in Goroutines |-> 0]  /\ blk = [g \in Goroutines |-> 1]
  /\ acc = [g \in Goroutines |-> Empty]
  /\ failed = [g \in Goroutines |-> FALSE]
  /\ claimed = [g \in Goroutines |-> {}]
  /\ faults = 0

-----------------------------------------------------------------------------
(***************************************************************************)
(* The calling goroutine.                                                  *)
(***************************************************************************)

\* Mutant: the one row of an ungrouped aggregate over no rows is forgotten.
OwesEmptyRowNever(agg) == FALSE

\* SQL wants one row from an ungrouped aggregate that saw no rows.
OwesEmptyRow(agg) == KeysOf(agg) = {} /\ ~Grouped

\* Next without a delegate runs setup.  Over a file without row groups there is
\* nothing to scan; otherwise setup makes a queue and a channel and starts the
\* goroutines, each with an empty partial aggregate.
Setup ==
  /\ callerPc = "idle"
  /\ ~hasDelegate
  /\ IF TotalRGs = 0
     THEN /\ hasDelegate' = TRUE
          /\ merged' = Empty
          /\ pending' = ~Grouped
          /\ callerPc' = "emit"
          /\ UNCHANGED <<setups, collector, next, ch, pc>>
     ELSE /\ setups < MaxSetups
          /\ setups' = setups + 1
          /\ next' = 0
          /\ ch' = <<>>
          /\ received' = 0  /\ results' = <<>>  /\ firstErr' = NoErr
          /\ pc' = [g \in Goroutines |-> IF g[1] = setups + 1 THEN "claim" ELSE pc[g]]
          /\ callerPc' = "collect"
          /\ UNCHANGED <<delegate, pending>>
  /\ UNCHANGED <<outPos, ret, emitted, hi, rgIdx, blk, acc, failed, claimed, faults>>

\* Only a result without an error carries a partial aggregate.
Kept(g) == IF failed[g] THEN results ELSE Append(results, g)

\* Mutant: the first error is not recorded.
NeverAnError(g) == firstErr

\* The first error received is the one setup returns.
ErrorAfter(g) == IF failed[g] /\ firstErr = NoErr THEN g ELSE firstErr

\* r := <-ch
Receive ==
  /\ callerPc = "collect"
  /\ received < NumWorkers
  /\ ch # <<>>
  /\ firstErr' = ErrorAfter(Head(ch))
  /\ results' = Kept(Head(ch))
  /\ ch' = Tail(ch)
  /\ received' = received + 1
  /\ UNCHANGED <<callerPc, setups, delegate, output, next, worker>>

\* if firstErr != nil { return firstErr }
SetupFails ==
  /\ callerPc = "collect"
  /\ received = NumWorkers
  /\ firstErr # NoErr
  /\ callerPc' = "idle"
  /\ ret' = "err"
  /\ UNCHANGED <<setups, collector, delegate, pending, outPos, emitted, next, ch, worker>>

\* merged := newPartialAggregate(...)
StartMerge ==
  /\ callerPc = "collect"
  /\ received = NumWorkers
  /\ firstErr = NoErr
  /\ merged' = Empty
  /\ callerPc' = "merge"
  /\ UNCHANGED <<setups, collector, hasDelegate, output, next, ch, worker>>

\* One iteration of the merge loop: mergePartialAgg(merged, ha).
MergeOne ==
  /\ callerPc = "merge"
  /\ results # <<>>
  /\ merged' = [b \in Batches |-> merged[b] + acc[Head(results)][b]]
  /\ results' = Tail(results)
  /\ UNCHANGED <<callerPc, setups, received, firstErr, hasDelegate, output, next, ch, worker>>

\* The merged aggregate becomes the delegate.
InstallDelegate ==
  /\ callerPc = "merge"
  /\ results = <<>>
  /\ hasDelegate' = TRUE
  /\ pending' = OwesEmptyRow(merged)
  /\ callerPc' = "emit"
  /\ UNCHANGED <<setups, collector, merged, outPos, ret, emitted, next, ch, worker>>

\* Next on an operator that has its delegate.
NextWithDelegate ==
  /\ callerPc = "idle"  /\ hasDelegate
  /\ callerPc' = "emit"
  /\ UNCHANGED <<setups, collector, delegate, output, next, ch, worker>>

\* The tail of Next: first the row an empty ungrouped aggregate owes.
EmitEmptyGlobal ==
  /\ callerPc = "emit"
  /\ pending
  /\ pending' = FALSE
  /\ outPos' = 1
  /\ emitted' = emitted + 1
  /\ ret' = "rows"
  /\ callerPc' = "idle"
  /\ UNCHANGED <<setups, collector, delegate, next, ch, worker>>

\* Mutant: an output batch always advances by BlockRows.
EmitEndUncut == outPos + BlockRows

EmitEnd == IF outPos + BlockRows > Cardinality(KeysOf(merged))
           THEN Cardinality(KeysOf(merged)) ELSE outPos + BlockRows

\* HashAggregate.Next on the delegate: up to BlockRows groups per batch.
EmitRows ==
  /\ callerPc = "emit"
  /\ ~pending
  /\ outPos < Cardinality(KeysOf(merged))
  /\ emitted' = emitted + (EmitEnd - outPos)
  /\ outPos' = EmitEnd
  /\ ret' = "rows"
  /\ callerPc' = "idle"
  /\ UNCHANGED <<setups, collector, delegate, pending, next, ch, worker>>

EmitEOF ==
  /\ callerPc = "emit"
  /\ ~pending
  /\ outPos >= Cardinality(KeysOf(merged))
  /\ ret' = "eof"
  /\ callerPc' = "idle"
  /\ UNCHANGED <<setups, collector, delegate, pending, outPos, emitted, next, ch, worker>>

-----------------------------------------------------------------------------
(***************************************************************************)
(* A worker goroutine.                                                     *)
(***************************************************************************)

Goto(g, label) == pc' = [pc EXCEPT ![g] = label]

\* Mutant: the last morsel is not cut at the end of the queue.
ClaimStopUncut(start) == start + MorselSize

\* morselQueue.claim cuts the range at the end of the queue.
ClaimStop(start) == IF start + MorselSize > TotalRGs THEN TotalRGs ELSE start + MorselSize

\* Mutant: the cursor advances by one row group although a morsel has MorselSize.
CursorByOne(start) == start + 1

\* morselQueue.claim: next.Add(size).
CursorAfter(start) == start + MorselSize

\* One atomic add on the cursor decides the whole claim.  A worker that finds
\* the queue exhausted turns to sending its partial aggregate.
Claim(g) ==
  /\ pc[g] = "claim"
  /\ next' = CursorAfter(next)
  /\ IF next >= TotalRGs
     THEN Goto(g, "send") /\ UNCHANGED <<hi, rgIdx, blk, claimed>>
     ELSE /\ hi' = [hi EXCEPT ![g] = ClaimStop(next)]
          /\ rgIdx' = [rgIdx EXCEPT ![g] = next]
          /\ blk' = [blk EXCEPT ![g] = 1]
          /\ claimed' = [claimed EXCEPT ![g] = @ \cup (next .. ClaimStop(next) - 1)]
          /\ Goto(g, "drain")
  /\ UNCHANGED <<callerPc, setups, collector, delegate, output, ch, acc, failed, faults>>

\* ha.accumulate folds one batch into a partial aggregate.
Folded(agg, b) == [agg EXCEPT ![b] = @ + 1]

\* pipeline.Next returns a batch and ha.accumulate folds it in.
Accumulate(g) ==
  /\ pc[g] = "drain"
  /\ rgIdx[g] < hi[g]
  /\ blk[g] <= BlocksOf[rgIdx[g]]
  /\ acc' = [acc EXCEPT ![g] = Folded(acc[g], <<rgIdx[g], blk[g]>>)]
  /\ blk' = [blk EXCEPT ![g] = @ + 1]
  /\ UNCHANGED <<callerPc, setups, collector, delegate, output, next, ch,
                 pc, hi, rgIdx, failed, claimed, faults>>

\* Inside pipeline.Next: the scan closes a finished row group and moves on.
NextRowGroup(g) ==
  /\ pc[g] = "drain"
  /\ rgIdx[g] < hi[g]
  /\ blk[g] > BlocksOf[rgIdx[g]]
  /\ rgIdx' = [rgIdx EXCEPT ![g] = @ + 1]
  /\ blk' = [blk EXCEPT ![g] = 1]
  /\ UNCHANGED <<callerPc, setups, collector, delegate, output, next, ch,
                 pc, hi, acc, failed, claimed, faults>>

\* pipeline.Next returns nil: the worker turns to its next claim.
EndMorsel(g) ==
  /\ pc[g] = "drain"
  /\ rgIdx[g] >= hi[g]
  /\ Goto(g, "claim")
  /\ UNCHANGED <<callerPc, setups, collector, delegate, output, next, ch,
                 hi, rgIdx, blk, acc, failed, claimed, faults>>

\* Mutant: an error path that returns without sending.
ReturnUnsent == "sent"

\* Every error path of the worker ends in a send.
ErrorPath == "send"

\* The pipeline cannot be opened, or pipeline.Next or ha.accumulate returns an
\* error: the worker gives up, and no one tells its siblings.
MorselFails(g) ==
  /\ pc[g] = "drain"
  /\ faults < MaxFaults
  /\ faults' = faults + 1
  /\ failed' = [failed EXCEPT ![g] = TRUE]
  /\ Goto(g, ErrorPath)
  /\ UNCHANGED <<callerPc, setups, collector, delegate, output, next, ch,
                 hi, rgIdx, blk, acc, claimed>>

\* Mutant: a channel with one slot too few.
ChanCapShort == NumWorkers - 1

\* make(chan workerResult, numWorkers)
ChanCap == NumWorkers

\* ch <- workerResult{...}: a send waits for room in the buffer.
Send(g) ==
  /\ pc[g] = "send"
  /\ Len(ch) < ChanCap
  /\ ch' = Append(ch, g)
  /\ Goto(g, "sent")
  /\ UNCHANGED <<callerPc, setups, collector, delegate, output, next,
                 hi, rgIdx, blk, acc, failed, claimed, faults>>

-----------------------------------------------------------------------------
CallerStep ==
  \/ Setup \/ Receive \/ SetupFails \/ StartMerge \/ MergeOne
  \/ InstallDelegate \/ NextWithDelegate \/ EmitEmptyGlobal \/ EmitRows \/ EmitEOF

WorkerStep(g) ==
  \/ Claim(g) \/ Accumulate(g) \/ NextRowGroup(g) \/ EndMorsel(g) \/ MorselFails(g) \/ Send(g)

Next == CallerStep \/ \E g \in Goroutines : WorkerStep(g)

Spec == Init /\ [][Next]_vars

(***************************************************************************)
(* Fairness: the Go scheduler runs every runnable goroutine eventually,    *)
(* and a caller inside Next keeps executing it.  Nothing obliges the       *)
(* caller to call Next again, and no error ever has to happen.             *)
(***************************************************************************)
InsideNext == callerPc # "idle" /\ CallerStep

FairSpec == Spec /\ WF_vars(InsideNext) /\ \A g \in Goroutines : WF_vars(WorkerStep(g))

-----------------------------------------------------------------------------
TypeOK ==
  /\ callerPc \in {"idle", "collect", "merge", "emit"}
  /\ setups \in 0 .. MaxSetups
  /\ received \in 0 .. NumWorkers
  /\ results \in Seq(Goroutines)
  /\ firstErr \in Goroutines \cup {NoErr}
  /\ hasDelegate \in BOOLEAN
  /\ merged \in [Batches -> Nat]
  /\ pending \in BOOLEAN
  /\ outPos \in Nat
  /\ ret \in {"none", "rows", "err", "eof"}
  /\ emitted \in Nat
  /\ next \in Nat
  /\ ch \in Seq(Goroutines)
  /\ pc \in [Goroutines -> {"off", "claim", "drain", "send", "sent"}]
  /\ hi \in [Goroutines -> 0 .. TotalRGs]
  /\ rgIdx \in [Goroutines -> 0 .. TotalRGs]
  /\ blk \in [Goroutines -> Nat \ {0}]
  /\ acc \in [Goroutines -> [Batches -> Nat]]
  /\ failed \in [Goroutines -> BOOLEAN]
  /\ claimed \in [Goroutines -> SUBSET RowGroups]
  /\ faults \in 0 .. MaxFaults

(***************************************************************************)
(* morselQueue.claim: no row group is handed to two workers of one setup.  *)
(***************************************************************************)
ClaimsDisjoint ==
  \A g, h \in Current : g # h => claimed[g] \cap claimed[h] = {}

(***************************************************************************)
(* setup: once the operator has its delegate, every batch of every row     *)
(* group went into it exactly once, however the row groups were divided    *)
(* among the workers and in whatever order their results arrived.          *)
(***************************************************************************)
ExactlyOnce ==
  hasDelegate => \A b \in Batches : merged[b] = 1

(***************************************************************************)
(* "Buffer = numWorkers so goroutines never block on send even if we       *)
(* return early": a worker about to send always finds room.                *)
(***************************************************************************)
SendNeverBlocks ==
  \A g \in Goroutines : pc[g] = "send" => Len(ch) < ChanCap

(***************************************************************************)
(* Next after a run of setup in which a worker failed: the operator has no *)
(* answer, whatever the other workers achieved, and the error it returned  *)
(* is that of a worker that did fail.                                      *)
(***************************************************************************)
FailureIsReported ==
  /\ hasDelegate => \A g \in Current : ~failed[g]
  /\ ret = "err" /\ callerPc = "idle" => firstErr \in Current /\ failed[firstErr]

(***************************************************************************)
(* Next at the end of the stream: an ungrouped aggregate has returned      *)
(* exactly one row and a grouped one exactly one row per group of the      *)
(* table.                                                                  *)
(***************************************************************************)
RowsComplete ==
  ret = "eof" => emitted = ResultRows

(***************************************************************************)
(* setup returns: a caller inside Next gets out of it, whichever workers   *)
(* fail, because each of them sends exactly once and none waits for ever.  *)
(***************************************************************************)
NextReturns == callerPc # "idle" ~> callerPc = "idle"

(***************************************************************************)
(* Next as a whole: the operator with its goroutines, its cursor and its   *)
(* channel does what the one-goroutine operator of AggregateOnce does.     *)
(***************************************************************************)
Abstract == INSTANCE AggregateOnce WITH
  answers <- IF hasDelegate THEN {merged} ELSE {}

ImplementsAggregateOnce == Abstract!Spec
=============================================================================
