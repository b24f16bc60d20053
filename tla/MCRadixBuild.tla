----------------------------- MODULE MCRadixBuild -----------------------------
(***************************************************************************)
(* RadixBuild for TLC: five row groups in three morsels, the last one cut  *)
(* short, one row group pruned, keys that occur in several morsels, a NULL *)
(* key, a batch without rows, and a partition that stays empty.            *)
(***************************************************************************)
EXTENDS RadixBuild

MCBuild == << [rg |-> 0, keys |-> <<"a", "b">>],
              [rg |-> 1, keys |-> <<Null, "a">>],
              [rg |-> 2, keys |-> <<>>],
              [rg |-> 2, keys |-> <<"c", "a">>],
              [rg |-> 4, keys |-> <<"b">>] >>

MCPartOf == [k \in {"a", "b", "c"} |-> IF k = "b" THEN 1 ELSE 0]
=============================================================================
