------------------------- MODULE MCWeatherCollection -------------------------
(* TLC instances of WeatherCollection: Apps, and configurations, are alike. *)
EXTENDS WeatherCollection, TLC

Alike == Permutations(Apps) \cup Permutations(Scopes)
=============================================================================
