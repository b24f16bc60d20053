# A TLA+ model of vexq

vexq is a vectorized SQL engine over immutable columnar files. This directory models
the parts of it in which several goroutines, several code paths or a crash decide
whether an answer is right: a query from its syntax tree to the printed rows,
morsel-parallel aggregation, the build side of hash joins, and the writing, scanning and
checking of `.vxq` files. TLC checks each model on a small instance, and TLAPS proves the
parallel aggregate, the laws by which partial aggregates merge, the morsel runner, the
join table, the parallel join build, the writer and the scans correct for every instance.

## The system

| part | state | operations | what is hard about it |
|---|---|---|---|
| `sql` | none: text to syntax tree | lex, parse, format | text only |
| `planner` build, optimizer | logical plans | build, push predicates down, prune columns | a predicate moved past an operator that changes its meaning |
| `planner` physical, parallel | operators being opened | build operators, choose serial or parallel, derive zone-map predicates | who closes what when a plan fails half-way; pruning that is stronger than the filter |
| `exec` scan | row-group range, column readers, decode buffers | Next, Reset, Close | buffers reused between batches |
| `exec` expressions | scratch vectors, literal caches | Eval | three-valued logic; a literal that is not in a dictionary |
| `exec` filter, project, limit, distinct, sort | skip and remaining counts, seen keys | Next, Reset, Close | boundaries inside a batch; rows kept across batches |
| `exec` hash aggregate | group maps, packed-key maps, global dictionaries | accumulate, merge, Next | three key paths, a fallback between them in mid-scan, partials that saw only NULLs |
| `exec` parallel aggregate | cursor, goroutines, result channel, delegate | setup, Next | interleavings, failing workers, retried setups |
| `exec` morsel runner | the retained pipeline | open, release, close | exactly one Close on every path |
| `exec` join table | row store, slots, chains | append, insert, grow, lookup | load limit, wrap-around, order of duplicates |
| `exec` parallel join | buckets, partitions, shared store | two-pass build, probe workers | lock-free writes, cancellation |
| `storage` writer | offset, open row group, metadata | begin, append, end, finish, abort | crash at any point, offsets |
| `storage` reader | windows, buffer pools, dictionaries | open, NextBlock, Dictionary, Close | aliasing buffers, progress after an error |
| `catalog` | table entries | Lookup, loadSchema | two critical sections for one decision |
| `cmd` | - | run a query, generate a file, fsck | error paths that skip Abort |

A query runs as a tree of operators pulled with `Next`. For an aggregate over a scan
(or over a join) the planner builds a parallel operator instead: its workers claim
ranges of row groups ("morsels") from an atomic cursor, run a pipeline of their own
over each, and fold the batches into a partial aggregate of their own. For a join, the
build side is first materialized by the same kind of workers into one shared table.

`PROJECT.json` lists the components with their status, the hazards at the lines where
they bite, and the source lines behind every definition.

## Modules

| module | models |
|---|---|
| `MorselAggregate` | `exec/parallel.go`: queue, workers, channel, collector, merge, emission; also the loop of `runMorselAggWorkers` |
| `AggregateOnce` | the abstract operator: it answers at some point, at once, or fails and may be asked again |
| `MorselAggregateInv`, `MorselAggregateProofs` | the inductive invariant; its preservation, the theorems and the refinement |
| `MorselRunner` | `exec/morsel.go` on every path of the worker loop |
| `AggregateFold` | one aggregate of one group: start value, fold, merge, output |
| `WorkerProofs` | theorems about one worker: its pipelines (`MorselRunner`) and the laws of merging its slots (`AggregateFold`) |
| `AggregateMerge` | `HashAggregate` over batches: direct, packed-key and string-key paths, fallback, materialization, merging |
| `JoinTable`, `JoinTableInv`, `JoinTableProofs` | `exec/join_table.go` and the probe of `HashJoin.Next`; the inductive invariant; slot arrays, steps and theorems |
| `RadixBuild`, `RadixBuildInv`, `RadixBuildProofs` | `BuildSharedHashTableParallel`; the invariant with facts about build rows, the error channel and pass 1; pass 2 and the theorems |
| `VxqWriter`, `VxqWriterProofs` | `storage/writer.go` as `vexqgen` drives it, over a file system that can lose unsynced data |
| `SectionScan` | `storage/rowgroup.go`, the buffer pools of `storage/reader.go`, `TableScan` above them, and fsck of `cmd/vexq` |
| `SectionScanInv`, `SectionScanBuffers`, `SectionScanProofs` | the inductive invariant; its parts about buffers and about who reads which row group; its part about scans, and the theorems |
| `SqlValues`, `SqlAst` | values with NULL, NaN and inexact floats; expressions of `sql/ast.go` and their rendering |
| `ExecExpr` | `exec/expr.go`: `Eval` of every node |
| `PlanExpr` | translation and coercion of expressions, zone-map predicates (`planner/physical.go`) |
| `ExecOps` | the operators of `exec/` as a tree; `Pull` is one `Next` |
| `PlanBuild`, `PlanOptimize` | `planner/build.go`, `logical.go`, `optimizer.go` |
| `PlanPhysical`, `PlanParallel` | the serial and the parallel physical plan, and which reader each failure closes |
| `Reference` | the reference evaluator of the golden tests, `internal/goldentest/reference.go` |
| `Query` | `runQuery` of `cmd/vexq`: composes all of these |
| `MC*` | values of the constants for TLC |

Data is abstracted to what the properties tell apart. In `MorselAggregate` a partial
aggregate is a count per batch; what folding computes is `AggregateMerge`'s subject.
There, strings are numbers in string order and floats are integers whose sums are
exact, so rounding is not covered. Integer sums wrap as int64 does. In `JoinTable` a
row is its key, and a probing loop is one step that names the slot where the loop
stops; if there is none, no step is possible. A probe batch there has one row. In
`RadixBuild` inserting into a table appends to the key's chain, which is what
`JoinTable` shows. In `VxqWriter` a file is a sequence of items and an offset is an
index into it. An action stands for one atomic step of the code: an atomic add, a
channel operation, a batch, one call of `Finish`. External parts (file system, write
buffer) are modelled from how the code uses them.

In `Query` an action is a phase of `runQuery`: build and optimize, plan, one `Next`,
Close. Below `Next` everything is a function of the operator tree, so `Query` does not
interleave workers: it takes the order in which morsels are merged as an input, and how
they get there is `MorselAggregate`'s and `AggregateMerge`'s subject, as the join's table
is `JoinTable`'s and `RadixBuild`'s. A float64 is an exact fraction, except that integers
beyond `MaxExact` (2^53 in the code) lose their last bit; there are no infinities and no
negative zero. A vector is a value: that operators and expressions reuse their buffers is
not modelled. In `SectionScan` a buffer holds a range of the file, so that a block read
through a buffer someone else refilled is seen for what it is; dictionaries, which are
read past the windows, are left out.

## Runs

| run | checks | bounds |
|---|---|---|
| `agg_grouped` | types, disjoint claims, every batch exactly once in an installed delegate, failures reported, refinement of `AggregateOnce` | 3 row groups (one pruned, one with two batches), morsels of 2 (the last is cut), 1 fault, 2 setups, 3 groups in output batches of 2 |
| `agg_ungrouped` | the one row of an aggregate over nothing, sends never block, every `Next` returns | 2 workers, 3 row groups without rows, 1 fault, 2 setups |
| `morsel_runner` | each pipeline closed exactly once, reused only if every operator in it can be repositioned, one send | 3 morsels, 5 operator chains |
| `aggregate_merge` | groups live in one place; every partial and the result equal the SQL answer | up to 3 batches out of 7, 6 queries, 2 workers, 2-bit key fields, 3-bit integers |
| `aggregate_identity` | a violation, see below | float MIN and MAX over batches with +Inf |
| `join_table` | an empty slot always exists, lookup finds each chain, presized tables never grow, matches in build order | 5 keys with collisions and wrap-around, 6 rows, 4 slots growing |
| `radix_build` | each store row written once, chains as a serial build makes them, the genuine error reported, the build returns | 5 row groups in 3 morsels, 3 workers, 3 partitions (one empty), 2 faults, caller's cancellation |
| `vxq_writer` | the path never names a partial file, offsets address the data | 2 columns (one with a dictionary), 2 row groups, 2 writers on one path, crashes anywhere |
| `query` | printed rows against the reference, open readers, pruning | 70 statements, 9 layouts of two tables (empty files, row groups of one to six rows), batches of 2 rows, serial and parallel, one failing `storage.Open` of the planner or of the workers, 3 merge orders |
| `query_dictionary`, `query_readers` | violations, see below | as `query`, over their own statements |
| `section_scan` | no buffer in two places, blocks in order and in lockstep, each block once, fsck's verdict, everyone closes | 2 processes, 3 row groups, a fixed-size and a BOOL column, 10 damages or none, 1 failed read, free lists of 1, 5 buffers |

The bounds are the smallest at which each hazard occurs: two workers and more morsels
than workers or a cut last morsel, a fault with a retry after it, more distinct strings
than a key field holds, a probe that wraps and collides again after growth, a second
writer that meets the first one's temporary file. Not reached by TLC: a file without
row groups in `MorselAggregate` (the proofs cover it), and the overflow branch of
`RadixBuild` (`maxBuildRows` is above the instance's rows).

Deadlock checking is off where the modelled operation ends (`morsel_runner`,
`radix_build`, `aggregate_merge`). `Query` and `SectionScan` end in a stuttering step
instead, so that a stop anywhere else is a deadlock.

Fairness is used by the liveness properties only: weak fairness of each goroutine and
of a caller that is inside a call, which is what the Go scheduler gives runnable
goroutines; `SectionScan` has weak fairness of each process. `Query` has none and no
liveness property: a statement's termination is not checked. No fairness is assumed of a caller that has returned, of faults, or of
cancellation.

Each property has a mutant in `PROJECT.json`: a plausible slip in one definition that
makes TLC report the property violated.

### What `query` does and does not show

Of its 70 statements, 49 are compared with the reference evaluator. 11 (`Unsettled`) are
not, because on them the reference itself departs from SQL: integers no float64 holds, NaN,
dates written as strings. They have to end without an error, and the other three
properties cover them. 10 have no plan and must be refused. Under ORDER BY the keys
must agree row by row; ties may come in any order.

The statements were chosen, and some were left out because the engine fails on them.
`query` passing says nothing about these shapes. TLC was run on each alone:

| statement | fails | why |
|---|---|---|
| `s <> 'absent'`, `NOT (s = 'absent')` | `ResultIsReference` | run `query_dictionary` |
| `WHERE a`, `HAVING COUNT(*)`, `SUM(CASE WHEN s = 1 THEN a END)` | `ReadersOwned` | run `query_readers` |
| `a / 2.0` (`DivideStatements`) | `ResultIsReference` | `coercePair` (`planner/physical.go:582`) makes the literal an INT64 and the division truncates, though `resolveExprType` types it FLOAT64: 1 / 2.0 prints 0 |
| `c BETWEEN 9 AND 9.5`, 9 standing for an integer above 2^53 (`BoundStatements`) | `PruningKeepsRows` | the filter compares all three as FLOAT64 (`physical.go:447`), the zone map compares the integral bound exactly (`:685-687`); the comment at `:667-668` says that "a wrong false silently loses rows" |
| `t.a = u.k AND (f OR u.a = 1)` (`JoinedBoolStatements`) | `ResultIsReference` | a BOOL column leaves a join as an `Int64Vector` (`exec/join.go:312-320`), which OR refuses: the query ends with an error |

The last three have no run of their own; to see one, give `Statements` that definition in
`Query_dictionary.cfg` and name the property. Two more statements differ from the
reference without the engine being at fault: `a / 2`, where `docs/sql.md` promises integer
division and the reference divides exactly, and BETWEEN with a NULL bound, which the
planner refuses and the reference answers.

### Disagreements between docs and code

- `aggregate_identity`: `newAccums` says that MIN and MAX "start at the identity for their
  comparison so the first value always wins". For FLOAT64 they start at `MaxFloat64` and
  `-MaxFloat64`, which the infinities do not beat: MIN over a group whose only value is +Inf
  answers `MaxFloat64`. `vexqgen` accepts "Inf" in a FLOAT64 column.
- `query_dictionary`: `StringEqExpr` ignores NULLs when the row group's dictionary lacks
  the literal (`exec/expr.go:1425-1434`). `<>` then keeps NULL rows; `=` is NULL for every
  row, so its negation keeps none. `docs/sql.md:53-55` promises three-valued logic.
- `query_readers`: a predicate that is not BOOL is refused by `NewFilter` after the scan was
  opened, and nobody closes it (`planner/physical.go:64`, `:85`); an aggregate argument that
  does not translate makes `physicalAggregate` call Close on a nil operator (`:117-119`),
  a panic. `planner/parallel.go:114-115` says "Each builder closes its child on failure".
  The parallel factories have the same gap for a filter left above the scan
  (`parallel.go:235`; `parallel_join.go:272-275` calls Close on the nil Filter).
  `PlanParallel` follows the first, and makes the second an error of the worker, not a
  panic; no statement of the runs gets there, because the filter is pushed into the scan.

## Proofs

Each theorem below holds for every value of the constants that satisfies the named
assumption, which TLC evaluates in the runs. Those about a specification follow from an
inductive invariant `IndInv`; those about `AggregateFold` are laws of its operators.

### `MorselAggregate` (`ConstantsAssumption`)

For any number of workers, row groups, batches, faults and setups:

- `TypeCorrect`, `ClaimsAreDisjoint`, `SendsDoNotBlock`, `FailuresAreReported`;
- `DelegateIsComplete`: an installed delegate holds every batch exactly once;
- `StreamIsComplete`: at EOF exactly the result's rows have been emitted;
- `Implements`: the specification implements `AggregateOnce`.

None of these is inductive by itself. `IndInv` adds what ties them together:

- `OtherSetups`: goroutines of earlier setups have sent, those of later ones are untouched;
- `Claims`: exactly the row groups below the cursor are claimed, each by one worker;
- `Progress`: a worker that has not failed has folded in exactly the batches of its
  claims up to its scan's position, once, and turns to sending only when the queue is
  exhausted;
- `Accounting`: every result sent is in the channel or received, so the channel has room;
- `Errors`: a failed result never enters `results`, and while no error was received
  everything sent is in the channel or in `results`;
- `Merging`: half-way through the merge loop `merged` holds exactly the claims of the
  workers that are no longer in `results`;
- `Emission`: how `pending`, `outPos` and `emitted` move together.

`ExactlyOnce` follows at the end of the merge: no worker failed, so all have exhausted
the queue, so the claims cover the table, and `results` is empty.

### `MorselRunner` (`RunnerAssumption`), in `WorkerProofs`

For any operator chains the factory may build and any number of morsels: `TypeCorrect`,
`PipelinesClosedOnce`, `PipelinesReusedOrRebuilt`, `OneResultPerWorker`. The invariant
says which pipeline is open at each point of the loop (`Ownership`), that a retained one
is the only one ever built, and that what is drained scans the morsel just claimed.

### `JoinTable` (`JoinTableAssumption`, `HashIsWide`)

For any keys and hash function, any load factor below one, any number of rows and any
tight bound: `TypeCorrect`, `NeverFull`, `LookupCorrect`, `PresizedCorrect`,
`ProbeCorrect`. `HashIsWide` says that the hash has enough bits for every table that
`maxBuildRows` rows can ask for (64 bits against 2^31 rows in the code). The invariant
has, besides the types:

- `Probing`: from a stored key's home slot to its own no slot is empty, no key is stored
  twice, and in the middle of a grow the new array holds exactly the old slots moved so far;
- `Room`: the occupied slots are as many as `keys`, and with the row being inserted still
  fewer than the slots. This needs that growing at the load limit comes before the insert;
- `Chains`: a slot's head and tail are the first and last row of its key, and each row is
  linked to the key's next one. While a row is being inserted it is not in a chain yet;
- `Allocation`: a presized build stays below its bound and its load limit;
- `Walking`: a probe has matched the rows of its key that come before the one it is at.

That a probing loop stops at all is a minimum argument: among the empty slots there is one
nearest to the home slot going round (`FirstEmpty`), and a probe stops at one slot only
(`StopsOnce`).

### `VxqWriter` (`WriterAssumption`)

For any columns, row groups and runs, and crashes at any step: `TypeCorrect`,
`CrashSafety`, `OffsetsCorrect`, `WritersNeverTouchThePath`. `Directory` says that every
directory a crash may leave names only files that are complete and synced, and that the
temporary file, which the next writer truncates, is none of them; `Layout` follows the
offsets and the footer through `Finish`. `TypeCorrect` bounds the length of every file, for
which `Sizes` counts what a writer has written: the magic, two items at most for each column
of each row group, and the footer.

### `RadixBuild` (`RadixAssumption`)

For any build side and any number of workers, morsels, partitions and faults: `TypeCorrect`,
`StoreRows` (each store row is written at most once, and every one when the build succeeds),
`SerialTable` (every chain is the one a serial build makes), `ReportsGenuineError`,
`ErrorsFindRoom`. The invariant has three parts:

- `Channel`: a cancellation, wherever it is on its way to the collector, comes after a
  genuine error was recorded or after the caller's own (`Causes`), and every worker that has
  sent is in the channel or was received (`Accounts`);
- `Pass1Inv`: a bucket holds the rows of its morsel and partition in file order, up to where
  its worker has come, and each morsel below the cursor is filed or being drained (`Filing`,
  `Draining`);
- `Pass2Inv`: pass 2 starts only when all morsels are filed (`Phases`), so the ranges of the
  partitions are disjoint and cover the store; a worker has copied exactly the rows of the
  buckets before its own and the first of its own, and chained them (`Copying`); what is
  ahead of it in its range is still unwritten; a published table is complete (`Publishing`).

That the chains are serial rests on two orders being the same one: buckets are taken by
morsel, and rows within a morsel and then across morsels ascend in the file (`SerialConcat`,
`MorselOrder`). The ranges rest on counting: the rows of the partitions before p are as many
as the place where p begins (`Counted`, `Ranges`).

### `SectionScan` (`ScanAssumption`)

For any file, any number of processes and buffers, any sizes of windows, classes and free
lists, any damages and any number of failed reads: `TypeCorrect`, `BuffersHeldOnce`,
`ScansInOrder`, `GroupsComplete`. The assumption says what the writer guarantees: every column
has the same blocks, none is empty, a BOOL block is larger than the header that gives its
size, and only a BOOL block can have a wrong run count. The invariant has three parts:

- `Typed`;
- `Buffers`: a buffer waits in one place or is owned by one process, which has it once
  (`Apart`); a window contains the range of the file its reader thinks it does (`Windows`);
  and a window being fetched has room for the block asked for (`Fetch`);
- `Scans`: the columns of a scan are in lockstep (`InStep`), the batch being read has the
  blocks of the columns before the current one (`Gathered`) and follows the last one returned
  (`Follows`); a row group is read by the one process that claimed it, from its first block
  to its last, and none is left out unless a scan failed (`Shared`).

The central step is a buffer changing hands. A process takes only buffers that wait or that
nobody holds (`Takes`) and writes only into those and its own (`Touches`), so no other
process's window changes under it. Blocks are found by their offset: offsets ascend strictly,
so a range that begins at a block's offset and is as long as the block names that block only.
The loops that close readers and the sums behind the offsets are recursive functions over
`0..n`; facts about them are proved with a least counterexample (`EveryTurn`), which needs no
induction rule with an operator parameter.

### `AggregateFold` (`WidthAssumption`), in `WorkerProofs`

For integers of any width and any largest float, for COUNT, SUM, AVG, MIN and MAX
(COUNT(DISTINCT) is never merged):

- `MergeFold`: a value folded into a partial that is then merged counts as if it had been
  folded into the merged slot. For SUM this is that it does not matter when a sum wraps
  (`WrapSum`); for MIN and MAX of strings it is the guard on the empty partial;
- `MergeNothing`: a partial that saw no row adds nothing;
- `MergeCommutes`, `MergeAssociates`: the order of the partials does not matter;
- `PartialsMerge`: merging a partial folded from any number of values gives what folding
  them one by one into the merged slot gives;
- `SlotsReached`: the condition `Reached`, under which `MergeNothing` and `MergeCommutes` hold,
  is one every slot of the program meets. It is needed: a float MIN above `MaxFloat` would
  lose to the empty partial's start value, and two different strings that no value was
  compared with would not commute. Values of integer columns are int64.

Float sums are exact here as in the model, so nothing is said about rounding.

### Only model-checked

- Liveness (`NextReturns`, `SendsOnceAndReturns`, `BuildReturns`, `AllClose`), which is out of
  the prover's reach.
- `Query`: its modules are recursive operators over plans and expressions.
- `AggregateMerge`: the laws above are about one slot. That tables of groups, packed keys and
  the fallback between them compute the answer is a fold over batches, and what a fold
  computes for every input needs an induction with an operator parameter.
- `SectionScan`'s `FsckVerdict`: what fsck has read is compared with a fold over all sections,
  and going on after a bad block needs an invariant of its own for positions left behind.

## Not modelled

- Lexer and parser: text to syntax tree; statements are given parsed.
- `catalog`: `Lookup` reads a schema outside its lock. In `vexq` schemas are loaded before
  planning and one goroutine plans, so no program here meets it.
- Reuse of scratch vectors, decode buffers and selection vectors (`exec/scratch.go`): the
  models' vectors are values, so they cannot show a buffer read after it was rewritten.
- Bytes: footer, dictionary blobs, codecs, checksums. A damaged block is one whose checksum
  or run count is wrong. A scan does not notice a BOOL block that decodes to fewer rows
  than it should; fsck does.
- Rounding of float sums, infinities in `Query`, negative zero.
- `BuildSharedHashTableRadix`, and interleaved workers of a parallel join's probe.
- Arguments, printing, the parsing of `vexqgen`'s input, the golden tests' data generator.
