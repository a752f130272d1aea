----------------------- MODULE MCForecastCoordinator -----------------------
(***************************************************************************)
(* TLC's instances of ForecastCoordinator: its Apps are interchangeable.   *)
(***************************************************************************)
EXTENDS ForecastCoordinatorProofs, TLC

Symmetry == Permutations(Apps)
=============================================================================
