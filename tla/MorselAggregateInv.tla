-------------------------- MODULE MorselAggregateInv --------------------------
(***************************************************************************)
(* The inductive invariant of MorselAggregate: the goroutines of other     *)
(* setups, the cursor, what each goroutine has accumulated, how results    *)
(* are counted, which errors are kept, what is merged and what is emitted. *)
(***************************************************************************)
EXTENDS MorselAggregate

-----------------------------------------------------------------------------
(***************************************************************************)
(* The inductive invariant.                                                *)
(***************************************************************************)
Members(s) == {s[i] : i \in DOMAIN s}

Distinct(s) == \A i, j \in DOMAIN s : s[i] = s[j] => i = j

Sent == {g \in Current : pc[g] = "sent"}

\* The batches of its claim that a goroutine has not accumulated yet.
Undone(g) ==
  {b \in Batches : /\ pc[g] = "drain"
                   /\ b[1] < hi[g]
                   /\ b[1] > rgIdx[g] \/ (b[1] = rgIdx[g] /\ b[2] >= blk[g])}

\* Goroutines of earlier setups are through, those of later ones not started.
OtherSetups ==
  \A g \in Goroutines :
    /\ g[1] < setups => pc[g] = "sent"
    /\ g[1] > setups => /\ pc[g] = "off"
                        /\ ~failed[g]
                        /\ claimed[g] = {}
                        /\ acc[g] = Empty

\* The cursor and the ranges handed out.
Claims ==
  /\ ClaimsDisjoint
  /\ \A g \in Current : \A rg \in claimed[g] : rg < next
  /\ setups > 0 => \A rg \in RowGroups : rg < next => \E g \in Current : rg \in claimed[g]

\* A goroutine that has not failed accumulated its claim up to its position.
ProgressOf(g) ==
  /\ pc[g] # "off"
  /\ failed[g] => pc[g] \in {"send", "sent"}
  /\ pc[g] \in {"send", "sent"} /\ ~failed[g] => next >= TotalRGs
  /\ pc[g] = "drain" => /\ rgIdx[g] <= hi[g]
                        /\ rgIdx[g] .. hi[g] - 1 \subseteq claimed[g]
  /\ ~failed[g] =>
       \A b \in Batches :
         acc[g][b] = IF b[1] \in claimed[g] /\ b \notin Undone(g) THEN 1 ELSE 0

Progress == \A g \in Current : ProgressOf(g)

\* Every result sent is in the channel or has been received.
Accounting ==
  /\ received + Len(ch) = Cardinality(Sent)
  /\ callerPc # "collect" /\ setups > 0 => received = NumWorkers
  /\ Distinct(ch) /\ Distinct(results)
  /\ Members(ch) \subseteq Sent /\ Members(results) \subseteq Sent
  /\ Members(ch) \cap Members(results) = {}

Errors ==
  /\ \A g \in Members(results) : ~failed[g]
  /\ firstErr # NoErr => firstErr \in Sent /\ failed[firstErr]
  /\ callerPc = "collect" /\ firstErr = NoErr => Sent \subseteq Members(ch) \cup Members(results)
  /\ callerPc \in {"collect", "merge"} => ~hasDelegate /\ setups > 0
  /\ callerPc = "merge" => \A g \in Current : ~failed[g]
  /\ callerPc = "emit" => hasDelegate
  /\ hasDelegate => \A g \in Current : ~failed[g]
  /\ ret = "err" /\ callerPc = "idle" => firstErr # NoErr
  /\ TotalRGs = 0 => setups = 0

\* Half-way through the merge loop exactly the claims of the goroutines that
\* are no longer in results are in merged.
Merging ==
  /\ callerPc = "merge" =>
       \A b \in Batches :
         merged[b] = IF \E g \in Current : g \notin Members(results) /\ b[1] \in claimed[g]
                     THEN 1 ELSE 0
  /\ hasDelegate => \A b \in Batches : merged[b] = 1

\* The rows returned so far.
Emission ==
  /\ ~hasDelegate => ~pending /\ outPos = 0 /\ emitted = 0 /\ ret \in {"none", "err"}
  /\ hasDelegate /\ pending => TableKeys = {} /\ ~Grouped /\ outPos = 0 /\ emitted = 0
  /\ hasDelegate /\ ~pending =>
       \/ /\ emitted = outPos
          /\ outPos <= Cardinality(TableKeys)
          /\ Grouped \/ Cardinality(TableKeys) = 1
       \/ TableKeys = {} /\ ~Grouped /\ outPos = 1 /\ emitted = 1
  /\ ret = "eof" => hasDelegate /\ ~pending /\ outPos >= Cardinality(TableKeys)

IndInv ==
  TypeOK /\ OtherSetups /\ Claims /\ Progress /\ Accounting /\ Errors /\ Merging /\ Emission
=============================================================================
