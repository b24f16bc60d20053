--------------------------- MODULE MCMorselRunner ---------------------------
(***************************************************************************)
(* MorselRunner for TLC: chains with and without an operator that cannot   *)
(* be repositioned.                                                        *)
(***************************************************************************)
EXTENDS MorselRunner

MCShapes ==
  {<<"TableScan">>, <<"Project", "SharedJoin", "Filter", "TableScan">>,
   <<"Filter", "SelfBuildingJoin", "TableScan">>, <<"Limit", "TableScan">>, <<"RowSource">>}
=============================================================================
