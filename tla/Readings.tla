-------------------------------- MODULE Readings --------------------------------
(***************************************************************************)
(* What the computations over readings share: a reading that is missing is  *)
(* None, and a rating is made of a score. Slot is the number of ticks in    *)
(* five minutes.                                                            *)
(***************************************************************************)
EXTENDS Integers, SequencesExt

CONSTANTS None, Slot

ASSUME SlotAssumption == Slot \in Nat \ {0}
ASSUME NoneAssumption == None \notin BOOLEAN

Positive(x) == IF x > 0 THEN x ELSE 0
Abs(x) == IF x < 0 THEN -x ELSE x
OrZero(x) == IF x = None THEN 0 ELSE x

\* Python's round of n/d: halves go to the even neighbour.
Rounded(n, d) == LET q == n \div d
                 IN  IF 2 * (n % d) > d \/ (2 * (n % d) = d /\ q % 2 = 1)
                     THEN q + 1 ELSE q

Rating(score) == IF score >= 80 THEN "high" ELSE IF score >= 55 THEN "medium"
                 ELSE IF score >= 40 THEN "medium_low" ELSE "low"
=============================================================================
