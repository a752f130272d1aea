------------------------ MODULE MCForecastRetention ------------------------
(***************************************************************************)
(* TLC's instances of ForecastRetention.                                   *)
(***************************************************************************)
EXTENDS ForecastRetention
=============================================================================
