------------------------- MODULE MCSeasonalityWorker -------------------------
(* Values for the model checking of SeasonalityWorker. *)
EXTENDS SeasonalityWorker, TLC

CONSTANTS i1, i2
MCImports == {i1, i2}
ImportSymmetry == Permutations(MCImports)
MCImport  == {i1}
(* Items 1 and 3 are of one product, item 2 of the last one and of another month. *)
MCProduct == [id \in SaleIds |-> IF id = 2 THEN NumProducts ELSE 1]
MCCalendarMonth == [id \in SaleIds |-> IF id = 2 THEN 2 ELSE 1]
=============================================================================
