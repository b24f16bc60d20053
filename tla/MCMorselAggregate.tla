-------------------------- MODULE MCMorselAggregate --------------------------
(***************************************************************************)
(* Instances of MorselAggregate for TLC: three row groups, the second one  *)
(* pruned by its zone map, and a file whose row groups are all filtered    *)
(* out.                                                                    *)
(***************************************************************************)
EXTENDS MorselAggregate

MCBlocksOf == [rg \in RowGroups |-> IF rg = 1 THEN 0 ELSE IF rg = 2 THEN 2 ELSE 1]

MCNoBlocks == [rg \in RowGroups |-> 0]

MCKeysIn == [b \in Batches |-> {b[1], b[2]}]

MCOneKey == [b \in Batches |-> {"the only group"}]
=============================================================================
