----------------------------- MODULE MorselRunner -----------------------------
(***************************************************************************)
(* How one worker goroutine obtains, keeps and closes its pipelines: the   *)
(* morselRunner of exec/morsel.go, driven by the worker loop of            *)
(* exec/parallel.go (and of runMorselAggWorkers in exec/parallel_join.go). *)
(* A runner belongs to exactly one goroutine, so one goroutine is the      *)
(* whole system here; what the queue gives it is a number of morsels.      *)
(*                                                                         *)
(* A pipeline is a chain of operators, listed from the top down to its     *)
(* leaf.  The factory may build a different chain for every morsel.        *)
(***************************************************************************)
EXTENDS Integers, Sequences

CONSTANTS
  Shapes,      \* the chains the factory can build
  MaxMorsels   \* bound: morsels this worker can claim

ASSUME RunnerAssumption ==
  /\ Shapes # {}
  /\ \A s \in Shapes : s # <<>>
  /\ MaxMorsels \in Nat

VARIABLES
  pc,       \* "claim", "open", "drain", "failed", "exit", "done"
  morsels,  \* morsels claimed
  pipes,    \* the pipelines built: their chain, Close calls, and what they scan
  op,       \* index of the pipeline open returned, 0 before the first
  held,     \* index of the retained pipeline, 0 for nil
  probed,   \* reusability already tested
  sent      \* results sent on the channel

vars == <<pc, morsels, pipes, op, held, probed, sent>>

\* reusableMorselPipeline: repositioning is known for scans, filters, projections
\* and joins that probe a shared table, and for nothing else in the chain.
Reusable(chain) ==
  /\ \A i \in 1 .. Len(chain) - 1 : chain[i] \in {"Filter", "Project", "SharedJoin"}
  /\ chain[Len(chain)] = "TableScan"

Init ==
  /\ pc = "claim"
  /\ morsels = 0
  /\ pipes = <<>>
  /\ op = 0
  /\ held = 0
  /\ probed = FALSE
  /\ sent = 0

-----------------------------------------------------------------------------
Claim ==
  /\ pc = "claim"
  /\ morsels < MaxMorsels
  /\ morsels' = morsels + 1
  /\ pc' = "open"
  /\ UNCHANGED <<pipes, op, held, probed, sent>>

\* The queue is exhausted: the partial aggregate is sent and the goroutine
\* returns, running its deferred close.
Exhausted ==
  /\ pc = "claim"
  /\ sent' = sent + 1
  /\ pc' = "exit"
  /\ UNCHANGED <<morsels, pipes, op, held, probed>>

\* open with a retained pipeline: m.reuse.Reset(rgStart, rgEnd).
OpenReset ==
  /\ pc = "open"
  /\ held # 0
  /\ op' = held
  /\ pipes' = [pipes EXCEPT ![held].morsel = morsels]
  /\ pc' = "drain"
  /\ UNCHANGED <<morsels, held, probed, sent>>

\* Mutant: every pipeline is retained, reusable or not.
RetainsAny(chain) == ~probed

\* The first pipeline decides whether pipelines are retained.
Retains(chain) == ~probed /\ Reusable(chain)

\* open without one: m.factory(ctx, rgStart, rgEnd).
OpenFactory ==
  /\ pc = "open"
  /\ held = 0
  /\ \E chain \in Shapes :
       /\ pipes' = Append(pipes, [chain |-> chain, closes |-> 0, morsel |-> morsels])
       /\ held' = IF Retains(chain) THEN Len(pipes) + 1 ELSE held
  /\ op' = Len(pipes) + 1
  /\ probed' = TRUE
  /\ pc' = "drain"
  /\ UNCHANGED <<morsels, sent>>

\* The factory fails: it leaves no pipeline behind (see planner/parallel.go) and
\* the worker sends the error.
OpenFails ==
  /\ pc = "open"
  /\ held = 0
  /\ sent' = sent + 1
  /\ pc' = "exit"
  /\ UNCHANGED <<morsels, pipes, op, held, probed>>

\* Mutant: closing repositions the pipeline to no morsel at all.
ClosedByReset(ps, i) == [ps EXCEPT ![i].morsel = 0]

\* Close on a pipeline.
Closed(ps, i) == [ps EXCEPT ![i].closes = @ + 1]

\* Mutant: release closes the pipeline whether or not it is retained.
ReleaseAlways == Closed(pipes, op)

\* release(op): closes the pipeline unless it is retained.
Release == IF held = 0 THEN Closed(pipes, op) ELSE pipes

\* pipeline.Next returned nil.
EndMorsel ==
  /\ pc = "drain"
  /\ pipes' = Release
  /\ pc' = "claim"
  /\ UNCHANGED <<morsels, op, held, probed, sent>>

\* pipeline.Next or ha.accumulate fails: release first, ...
DrainFails ==
  /\ pc = "drain"
  /\ pipes' = Release
  /\ pc' = "failed"
  /\ UNCHANGED <<morsels, op, held, probed, sent>>

\* Mutant: the return after the send is missing.
NoReturn == "claim"

\* The worker function returns, which runs its deferred close.
Return == "exit"

\* ... then the error is sent.
SendError ==
  /\ pc = "failed"
  /\ sent' = sent + 1
  /\ pc' = Return
  /\ UNCHANGED <<morsels, pipes, op, held, probed>>

\* close(): releases the retained pipeline.
CloseHeld == IF held # 0 THEN Closed(pipes, held) ELSE pipes

\* The deferred runner.close().
DeferredClose ==
  /\ pc = "exit"
  /\ pipes' = CloseHeld
  /\ held' = 0
  /\ pc' = "done"
  /\ UNCHANGED <<morsels, op, probed, sent>>

Next ==
  \/ Claim \/ Exhausted \/ OpenReset \/ OpenFactory \/ OpenFails \/ EndMorsel
  \/ DrainFails \/ SendError \/ DeferredClose

Spec == Init /\ [][Next]_vars

\* The Go scheduler runs the goroutine until it returns.
FairSpec == Spec /\ WF_vars(Next)

-----------------------------------------------------------------------------
Pipe == [chain : Shapes, closes : Nat, morsel : 1 .. MaxMorsels]

TypeOK ==
  /\ pc \in {"claim", "open", "drain", "failed", "exit", "done"}
  /\ morsels \in 0 .. MaxMorsels
  /\ pipes \in Seq(Pipe)
  /\ op \in 0 .. Len(pipes)
  /\ held \in 0 .. Len(pipes)
  /\ probed \in BOOLEAN
  /\ sent \in Nat

(***************************************************************************)
(* morselRunner: "every exit path - including an error return part-way     *)
(* through a morsel - closes the pipeline exactly once", and no pipeline   *)
(* is drained after it was closed, or while it covers another morsel's     *)
(* row groups.                                                             *)
(***************************************************************************)
ClosedExactlyOnce ==
  /\ \A i \in 1 .. Len(pipes) : pipes[i].closes <= 1
  /\ pc = "done" => \A i \in 1 .. Len(pipes) : pipes[i].closes = 1
  /\ pc = "drain" => pipes[op].closes = 0 /\ pipes[op].morsel = morsels

(***************************************************************************)
(* open: "a pipeline is either reused for every morsel or rebuilt for      *)
(* every morsel, never half-repositioned".  A pipeline that covers a       *)
(* second morsel is one that knows how to be repositioned, and at most one *)
(* pipeline is open at any time.                                           *)
(***************************************************************************)
ReusedOrRebuilt ==
  /\ held # 0 => held = 1 /\ Len(pipes) = 1 /\ Reusable(pipes[1].chain)
  /\ \A i, j \in 1 .. Len(pipes) : pipes[i].closes = 0 /\ pipes[j].closes = 0 => i = j

(***************************************************************************)
(* The worker goroutine ends, having sent exactly one result: the          *)
(* collector in setup waits for exactly one per worker.                    *)
(***************************************************************************)
SendsOnceAndReturns ==
  <>[](pc = "done" /\ sent = 1)
=============================================================================
