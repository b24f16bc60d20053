--------------------------------- MODULE Query ---------------------------------
(***************************************************************************)
(* One run of `vexq query` (cmd/vexq/main.go runQuery): a parsed statement *)
(* is built into a logical plan, optimized, turned into operators and      *)
(* pulled until it ends, and the operators are closed whatever happened.   *)
(* The statement, the files, serial or parallel execution and the          *)
(* storage.Open that fails are chosen at the start.                        *)
(***************************************************************************)
EXTENDS PlanParallel, Reference

CONSTANTS Statements,   \* a sequence of statements
          Rejected,     \* the ones, by number, that have no plan
          Unsettled,    \* the ones the reference answers in its own way
          Layouts,      \* a sequence of contents: table -> row groups -> rows
          FailAt,       \* which storage.Open of the planner may fail; 0: none
          Orders        \* orders in which the morsels of a file may be merged

ASSUME QueryAssumption == /\ Rejected \union Unsettled \subseteq DOMAIN Statements
                          /\ FailAt \subseteq Nat

VARIABLES stmt, layout, parallel, failAt,   \* chosen once
          phase, plan, tree, readers,       \* tree: the operators; readers: open files
          faulted,                          \* whether some storage.Open failed
          out                               \* the rows printed so far
vars == <<stmt, layout, parallel, failAt, phase, plan, tree, readers, faulted, out>>
input == <<stmt, layout, parallel, failAt>>

Files == Layouts[layout]

Init ==
  /\ stmt \in DOMAIN Statements
  /\ layout \in DOMAIN Layouts
  /\ parallel \in BOOLEAN
  /\ failAt \in FailAt
  /\ phase = "parsed" /\ plan = Null /\ tree = Null
  /\ readers = {} /\ faulted = FALSE /\ out = <<>>

(* planner.Build and planner.Optimize *)
BuildPlan ==
  /\ phase = "parsed"
  /\ \E n \in {Build(Statements[stmt])} :
       IF n.k = "bad" THEN phase' = "failed" /\ UNCHANGED plan
       ELSE phase' = "built" /\ plan' = Optimize(n)
  /\ UNCHANGED <<input, tree, readers, faulted, out>>

(* planner.Parallel or planner.Physical *)
PlanQuery ==
  /\ phase = "built"
  /\ LET W == [files |-> Files, failAt |-> failAt] IN
     \E r \in {IF parallel THEN Parallel(plan, StartPlanning, W)
               ELSE Physical(plan, StartPlanning, W)} :
       /\ readers' = r.st.open
       /\ faulted' = (failAt \in 1..r.st.opens)
       /\ tree' = r.op
       /\ phase' = IF r.ok THEN "running" ELSE IF r.st.panicked THEN "panicked" ELSE "failed"
  /\ UNCHANGED <<input, plan, out>>

(* Whether the next call opens the files of a parallel aggregate. *)
RECURSIVE Starts(_)
Starts(op) ==
  CASE op.k = "paragg" -> ~op.done
    [] op.k \in {"filter", "project", "limit", "distinct", "sort"} -> Starts(op.child)
    [] OTHER -> FALSE

Printed(b) == LET rs == batchRows(b) IN
  [i \in DOMAIN rs |-> [c \in DOMAIN b.vecs |-> [t |-> b.vecs[c].t, x |-> b.vecs[c].v[rs[i]]]]]

(* One turn of the loop: op.Next, and the rows it returned. *)
NextBatch ==
  /\ phase = "running"
  /\ \E order \in Orders, openFails \in BOOLEAN :
       /\ ~Starts(tree) => order = [i \in DOMAIN order |-> i] /\ ~openFails
       /\ \E r \in {Pull(tree, [files |-> Files, order |-> order, openFails |-> openFails])} :
          /\ tree' = r.op
          /\ faulted' = (faulted \/ openFails)
          /\ out' = IF r.out.k = "batch" THEN out \o Printed(r.out) ELSE out
          /\ phase' = CASE r.out.k = "batch" -> "running"
                        [] r.out.k = "eof"   -> "finished"
                        [] r.out.k = "error" -> "erring"
  /\ UNCHANGED <<input, plan, readers>>

(* The deferred op.Close. *)
CloseTree ==
  /\ phase \in {"finished", "erring"}
  /\ readers' = readers \ ReadersOf(tree)
  /\ phase' = IF phase = "finished" THEN "done" ELSE "failed"
  /\ UNCHANGED <<input, plan, tree, faulted, out>>

Exited ==
  /\ phase \in {"done", "failed", "panicked"}
  /\ UNCHANGED vars

Next == BuildPlan \/ PlanQuery \/ NextBatch \/ CloseTree \/ Exited

Spec == Init /\ [][Next]_vars

-----------------------------------------------------------------------------
(* The type invariant: the phases of runQuery, and every printed row has   *)
(* one typed cell for each entry of the SELECT list, stars expanded.       *)
TypeOK ==
  /\ stmt \in DOMAIN Statements /\ layout \in DOMAIN Layouts /\ parallel \in BOOLEAN
  /\ failAt \in FailAt /\ faulted \in BOOLEAN /\ readers \subseteq Nat
  /\ phase \in {"parsed", "built", "running", "finished", "erring", "done", "failed", "panicked"}
  /\ \A i \in DOMAIN out :
       /\ LET S == Statements[stmt] IN
          Len(out[i]) = Len(expandSelectList(S.cols, newSymbolTable(S.from)))
       /\ \A c \in DOMAIN out[i] : out[i][c].t \in {"int", "float", "bool", "string", "date"}

(* What a printed cell and a reference Value denote, for comparing them. *)
Denotes(v) ==
  IF v = Null \/ v.x = Null THEN Null
  ELSE CASE v.t \in {"string", "float"} -> v.x
         [] v.t = "bool" -> IF v.x THEN <<1, 1>> ELSE <<0, 1>>
         [] v.t \in {"int", "date"} -> <<v.x, 1>>
DenotesRows(rows) == [i \in DOMAIN rows |-> [c \in DOMAIN rows[i] |-> Denotes(rows[i][c])]]
Occurrences(rows, row) == Cardinality({i \in DOMAIN rows : rows[i] = row})

Tables ==
  [n \in DOMAIN Schemas |->
     LET S == Schemas[n]
         rows == FlattenSeq(Files[n])
         value(x, t) == IF x = Null THEN Null ELSE Value(t, x)
     IN [schema |-> S,
         rows |-> [i \in DOMAIN rows |-> [c \in DOMAIN S |-> value(rows[i][c], S[c].t)]]]]

SortKeys(rows) ==
  LET S == Statements[stmt]
      col(j) == resolveOrderByCol(S.order[j].e, S.cols)
      keys == SelectSeq([j \in DOMAIN S.order |-> col(j)], LAMBDA c : c # 0)
  IN [i \in DOMAIN rows |-> [j \in DOMAIN keys |-> rows[i][keys[j]]]]

(* got may be printed for a query with the rows all, of which OFFSET and   *)
(* LIMIT leave want.                                                       *)
Answers(got, all, want) ==
  /\ Len(got) = Len(want)
  /\ \A i \in DOMAIN got : Occurrences(got, got[i]) <= Occurrences(all, got[i])
  /\ SortKeys(got) = SortKeys(want)

(* The engine prints what the reference evaluator of the golden tests      *)
(* returns: as many rows, each of them one of the reference's as often at  *)
(* most as it has it, and in an order with the same ORDER BY keys.  This   *)
(* holds for serial and for parallel execution, in whatever order the      *)
(* morsels are merged.  A query ends without its answer only if a file     *)
(* could not be opened or the statement has no plan.                       *)
ResultIsReference ==
  /\ phase = "done" => stmt \notin Rejected
  /\ phase = "done" /\ stmt \notin Unsettled =>
       \E all \in {EvaluateAll(Statements[stmt], Tables)} :
         Answers(DenotesRows(out), DenotesRows(all), DenotesRows(Evaluate(Statements[stmt], all)))
  /\ phase \in {"failed", "panicked"} => faulted \/ stmt \in Rejected

(* Readers: while operators exist, exactly their readers are open; at any  *)
(* other time none is, so a planning error, at whichever storage.Open it   *)
(* struck, closes every file opened before it.  The planner breaks this    *)
(* where NewFilter or buildPreProjection refuses: run query_readers.       *)
ReadersOwned ==
  readers = IF phase \in {"running", "finished", "erring"} THEN ReadersOf(tree) ELSE {}

(* The scans of a logical plan. *)
RECURSIVE ScansOf(_)
ScansOf(n) ==
  CASE n.k = "scan" -> <<n>>
    [] n.k = "join" -> ScansOf(n.left) \o ScansOf(n.right)
    [] OTHER        -> ScansOf(n.child)

(* A row group's rows as one batch. *)
GroupBatch(schema, rows) ==
  LET dict(c) == {rows[i][c] : i \in {j \in DOMAIN rows : rows[j][c] # Null}} IN
  Batch([c \in DOMAIN schema |-> Vec(schema[c].t, Column(rows, c),
                                     IF schema[c].t = "string" THEN dict(c) ELSE Null)],
        Len(rows), Null)

(* Zone maps: a row group whose statistics rule out the scan's predicate   *)
(* holds no row the predicate, as the executor evaluates it, would keep.   *)
PruningKeepsRows ==
  phase = "built" =>
    \A i \in DOMAIN ScansOf(plan) :
      LET n == ScansOf(plan)[i] IN
      n.pred.k # "none" =>
        \A e \in {buildExecExpr(n.pred, n.schema)} :
          ~IsBad(e) =>
            \A g \in DOMAIN Files[n.table] :
              LET rows == Files[n.table][g]
                  b    == GroupBatch(n.schema, rows)
              IN BoolToSelVecInto(b, Eval(e, b)) # <<>> => zonePredEval(n.pred, n.schema, rows)
=============================================================================
