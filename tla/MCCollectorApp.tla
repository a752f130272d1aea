---------------------------- MODULE MCCollectorApp ----------------------------
(* TLC instances of CollectorApp. *)
EXTENDS CollectorApp
=============================================================================
