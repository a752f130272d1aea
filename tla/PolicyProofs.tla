----------------------------- MODULE PolicyProofs -----------------------------
(***************************************************************************)
(* What the computations of the advisory policy keep, whatever they are     *)
(* given: the phases of the paired experiment, a decision, a reserve.        *)
(***************************************************************************)
EXTENDS ShadowDecision, ReserveEstimate, Dispatch, FiniteSetTheorems, WellFoundedInduction, TLAPS

----------------------------------------------------------------------------
(* The phases of the paired experiment: the routing is balanced and within  *)
(* the ports, and the stored energy stays within its bounds.                *)

PortsType == [charge : Nat, discharge : Nat, import : Nat, export : Nat]

\* What is bought for the battery is never negative, is bought for one action only,
\* and fits what is left of the request, the import port, the charge port and the
\* battery; none is bought while energy is exported.
LEMMA GridChargeFits ==
  ASSUME NEW port \in PortsType, NEW action, NEW request \in Nat,
         NEW imports \in Nat, NEW charge \in Nat, NEW export \in Nat, NEW headroom \in Nat,
         imports <= port.import, charge <= port.charge, charge <= headroom
  PROVE  LET bought == GridCharge(port, action, request, imports, charge, export, headroom)
         IN  /\ bought \in Nat
             /\ bought > 0 => action = "CHARGE_BATTERY_FROM_GRID" /\ export = 0
             /\ bought <= request /\ imports + bought <= port.import
             /\ charge + bought <= port.charge /\ charge + bought <= headroom
  BY DEF GridCharge, PortsType, Lesser, Greater

\* A phase: every unit on the bus comes from somewhere and goes somewhere, no port
\* and no request is exceeded, and nothing flows both ways (_route and the checks
\* of _ledger_reasons).
THEOREM RouteIsSound ==
  ASSUME NEW port \in PortsType, NEW load \in Nat, NEW pv \in Nat, NEW action,
         NEW request \in Nat, NEW headroom \in Nat, NEW available \in Nat
  PROVE  LET r == Route(port, load, pv, action, request, headroom, available)
         IN  /\ r \in [imports : Nat, export : Nat, charge : Nat, discharge : Nat,
                       curtail : Nat, unserved : Nat, delivered : Nat]
             /\ pv + r.imports + r.discharge + r.unserved
                  = load + r.export + r.charge + r.curtail
             /\ r.imports <= port.import /\ r.export <= port.export
             /\ r.charge <= port.charge /\ r.discharge <= port.discharge
             /\ r.charge <= headroom /\ r.discharge <= available
             /\ r.curtail <= pv /\ r.unserved <= load
             /\ ~(r.imports > 0 /\ r.export > 0) /\ ~(r.charge > 0 /\ r.discharge > 0)
             /\ action \in NoDischarge => r.discharge = 0
             /\ action \in EnergyActions => r.delivered <= request
<1> DEFINE used      == Lesser(pv, load)
           surplus   == pv - used
           deficit   == load - used
           charge    == Lesser(surplus, Lesser(port.charge, headroom))
           export    == Lesser(surplus - charge, port.export)
           able      == Lesser(deficit, Lesser(port.discharge, available))
           discharge == IF action \in NoDischarge THEN 0
                        ELSE IF action = "DISCHARGE_FOR_SELF_CONSUMPTION"
                             THEN Lesser(able, request) ELSE able
           imports   == Lesser(deficit - discharge, port.import)
           bought    == GridCharge(port, action, request, imports, charge, export, headroom)
<1>1. port.charge \in Nat /\ port.discharge \in Nat /\ port.import \in Nat /\ port.export \in Nat
  BY DEF PortsType
<1>2. /\ surplus \in Nat /\ deficit \in Nat /\ surplus <= pv /\ deficit <= load
      /\ (surplus = 0 \/ deficit = 0) /\ pv - surplus = load - deficit
  BY DEF Lesser
<1>3. /\ charge \in Nat /\ charge <= surplus /\ charge <= port.charge /\ charge <= headroom
  BY <1>1, <1>2 DEF Lesser
<1>4. export \in Nat /\ export <= surplus - charge /\ export <= port.export
  BY <1>1, <1>2, <1>3 DEF Lesser
<1>5. /\ discharge \in Nat /\ discharge <= deficit /\ discharge <= port.discharge
      /\ discharge <= available
      /\ action \in NoDischarge => discharge = 0
      /\ action = "DISCHARGE_FOR_SELF_CONSUMPTION" => discharge <= request
  BY <1>1, <1>2 DEF Lesser, NoDischarge
<1>6. imports \in Nat /\ imports <= deficit - discharge /\ imports <= port.import
  BY <1>1, <1>2, <1>5 DEF Lesser
<1>7. /\ bought \in Nat
      /\ bought > 0 => action = "CHARGE_BATTERY_FROM_GRID" /\ export = 0
      /\ bought <= request /\ imports + bought <= port.import
      /\ charge + bought <= port.charge /\ charge + bought <= headroom
  BY <1>3, <1>4, <1>6, GridChargeFits
<1> DEFINE r == [imports |-> imports + bought, export |-> export, charge |-> charge + bought,
                 discharge |-> discharge, curtail |-> surplus - charge - export,
                 unserved |-> deficit - discharge - imports,
                 delivered |-> IF action = "DISCHARGE_FOR_SELF_CONSUMPTION" THEN discharge
                               ELSE bought]
<1>8. r = Route(port, load, pv, action, request, headroom, available)
  BY DEF Route
<1> HIDE DEF used, surplus, deficit, charge, export, able, discharge, imports, bought
<1>9. QED
  BY <1>1, <1>2, <1>3, <1>4, <1>5, <1>6, <1>7, <1>8 DEF NoDischarge, EnergyActions

----------------------------------------------------------------------------
(* The battery.                                                             *)

PlantType ==
  [capacity : Nat, floor : Nat, minimum : Nat, chargeLoss : Nat \ {0}, dischargeLoss : Nat \ {0}]

\* A quotient: it is the multiple of the divisor next below.
LEMMA QuotientBound ==
  ASSUME NEW n \in Nat \ {0}, NEW a \in Nat
  PROVE  a \div n \in Nat /\ (a \div n) * n <= a /\ a < (a \div n) * n + n
  OBVIOUS

LEMMA QuotientAtMost ==
  ASSUME NEW n \in Nat \ {0}, NEW a \in Nat, NEW b \in Nat, a <= b * n
  PROVE  a \div n <= b
<1>1. SUFFICES ASSUME a \div n > b PROVE FALSE
  BY QuotientBound
<1>2. (a \div n) >= b + 1
  BY <1>1, QuotientBound
<1>3. (a \div n) * n >= (b + 1) * n
  BY <1>2, QuotientBound, SMTT(30)
<1>4. (b + 1) * n = b * n + n
  OBVIOUS
<1>5. QED
  BY <1>3, <1>4, QuotientBound

\* A phase that routes what the battery can take and give leaves its stored energy
\* within the physical bounds, never draws it below the floor (a battery that is
\* there already is not drawn at all: the state bounds _ledger_reasons checks).
THEOREM BatteryStaysInBounds ==
  ASSUME NEW p \in PlantType, NEW port \in PortsType, NEW load \in Nat, NEW pv \in Nat,
         NEW action, NEW request \in Nat, NEW energy \in Nat,
         p.minimum <= p.floor, p.floor <= p.capacity,
         p.minimum <= energy, energy <= p.capacity
  PROVE  LET r == Route(port, load, pv, action, request, Headroom(p, energy),
                        Available(p, energy))
             after == Stored(p, energy, r)
         IN  /\ after \in p.minimum .. p.capacity
             /\ r.discharge > 0 => after >= p.floor
             /\ energy >= p.floor => after >= p.floor
             /\ energy < p.floor => after >= energy
<1> DEFINE r == Route(port, load, pv, action, request, Headroom(p, energy),
                      Available(p, energy))
<1>1. /\ p.capacity \in Nat /\ p.floor \in Nat /\ p.minimum \in Nat
      /\ p.chargeLoss \in Nat \ {0} /\ p.dischargeLoss \in Nat \ {0}
  BY DEF PlantType
<1>2. Headroom(p, energy) = (p.capacity - energy) * p.chargeLoss /\ Headroom(p, energy) \in Nat
  BY <1>1 DEF Headroom, Greater
<1>3. Available(p, energy) \in Nat
  BY <1>1, QuotientBound DEF Available, Greater
<1>4. /\ r.charge \in Nat /\ r.discharge \in Nat
      /\ r.charge <= Headroom(p, energy) /\ r.discharge <= Available(p, energy)
      /\ ~(r.charge > 0 /\ r.discharge > 0)
  BY <1>2, <1>3, RouteIsSound
<1> DEFINE stored == r.charge \div p.chargeLoss
           spent == r.discharge * p.dischargeLoss
<1>5. stored \in Nat /\ stored <= p.capacity - energy
  BY <1>1, <1>2, <1>4, QuotientAtMost, QuotientBound
<1>6. spent \in Nat /\ spent <= Greater(0, energy - p.floor)
  <2>1. Greater(0, energy - p.floor) \in Nat
    BY <1>1 DEF Greater
  <2>2. Available(p, energy) * p.dischargeLoss <= Greater(0, energy - p.floor)
    BY <1>1, <2>1, QuotientBound DEF Available
  <2>3. spent <= Available(p, energy) * p.dischargeLoss
    BY <1>1, <1>3, <1>4, SMTT(30)
  <2>4. spent \in Nat
    BY <1>1, <1>4
  <2>5. Available(p, energy) * p.dischargeLoss \in Nat
    BY <1>1, <1>3
  <2>6. QED
    BY <2>1, <2>2, <2>3, <2>4, <2>5
<1>7. Stored(p, energy, r) = energy + stored - spent
  BY DEF Stored
<1>8. r.discharge > 0 => stored = 0 /\ energy > p.floor
  <2>1. r.discharge > 0 => r.charge = 0
    BY <1>4
  <2>2. r.charge = 0 => stored = 0
    BY <1>1, QuotientBound, QuotientAtMost
  <2>3. r.discharge > 0 => spent > 0
    BY <1>1, <1>4
  <2>4. spent > 0 => energy > p.floor
    BY <1>1, <1>6 DEF Greater
  <2>5. QED
    BY <2>1, <2>2, <2>3, <2>4
<1>9. r.discharge = 0 => spent = 0
  BY <1>1, <1>4
<1> HIDE DEF r, stored, spent
<1>10. QED
  BY <1>1, <1>4, <1>5, <1>6, <1>7, <1>8, <1>9 DEF Greater, r

----------------------------------------------------------------------------
(* Numbers, sets and sums.                                                  *)

\* A set that has 0 and the successor of each of its members has every number.
LEMMA SetInduction ==
  ASSUME NEW S, 0 \in S, \A n \in Nat : n \in S => n + 1 \in S
  PROVE  Nat \subseteq S
<1> DEFINE T == Nat \ S
<1> SUFFICES ASSUME T # {} PROVE FALSE
  OBVIOUS
<1>1. PICK m \in T : \A y \in T : ~(<<y, m>> \in OpToRel(<, Nat))
  <2>1. T \subseteq Nat
    OBVIOUS
  <2> QED
    BY <2>1, NatLessThanWellFounded, WFMin, Zenon
<1>2. \A y \in T : ~(y < m)
  <2> TAKE y \in T
  <2>1. <<y, m>> \in Nat \X Nat
    OBVIOUS
  <2> QED
    BY <1>1, <2>1 DEF OpToRel
<1>3. m # 0
  OBVIOUS
<1>4. m - 1 \in Nat /\ m - 1 < m
  BY <1>3
<1>5. m - 1 \in S
  BY <1>2, <1>4
<1> QED
  BY <1>4, <1>5

LEMMA TwoInts ==
  ASSUME NEW a \in Int, NEW b \in Int
  PROVE  /\ Max({a, b}) \in {a, b} /\ Max({a, b}) >= a /\ Max({a, b}) >= b
         /\ Min({a, b}) \in {a, b} /\ Min({a, b}) <= a /\ Min({a, b}) <= b
<1>1. \E x \in {a, b} : \A y \in {a, b} : x >= y
  OBVIOUS
<1>2. \E x \in {a, b} : \A y \in {a, b} : x <= y
  OBVIOUS
<1> QED
  BY <1>1, <1>2 DEF Max, Min

LEMMA LeastOfTwo ==
  ASSUME NEW a \in Nat, NEW b \in Nat
  PROVE  Min({a, b}) \in Nat /\ Min({a, b}) <= a /\ Min({a, b}) <= b
<1>1. \E x \in {a, b} : \A y \in {a, b} : x <= y
  OBVIOUS
<1> QED
  BY <1>1 DEF Min

LEMMA LeastOfThree ==
  ASSUME NEW a \in Nat, NEW b \in Nat, NEW c \in Nat
  PROVE  /\ Min({a, b, c}) \in Nat
         /\ Min({a, b, c}) <= a /\ Min({a, b, c}) <= b /\ Min({a, b, c}) <= c
<1>1. \E x \in {a, b, c} : \A y \in {a, b, c} : x <= y
  OBVIOUS
<1> QED
  BY <1>1 DEF Min

LEMMA Scaled ==
  ASSUME NEW a \in Int, NEW b \in Int, NEW k \in Nat, a <= b
  PROVE  a * k \in Int /\ b * k \in Int /\ a * k <= b * k
  OBVIOUS

LEMMA Product ==
  ASSUME NEW a \in Nat, NEW b \in Nat
  PROVE  a * b \in Nat
  OBVIOUS

LEMMA ElementOfSeq ==
  ASSUME NEW R, NEW s \in Seq(R), NEW n \in DOMAIN s
  PROVE  n \in Nat /\ s[n] \in R
  OBVIOUS

\* it is the recursion by which MapThenSumSet adds g over the subsets of S.
Adds(it, g, S) ==
  it = [s \in SUBSET S |-> IF s = {} THEN 0
                           ELSE g[CHOOSE x \in s : TRUE] + it[s \ {CHOOSE x \in s : TRUE}]]

LEMMA SumExists ==
  ASSUME NEW S, IsFiniteSet(S), NEW g
  PROVE  \E it : Adds(it, g, S)
<1> DEFINE Picked(s) == CHOOSE x \in s : TRUE
           Upto(n) == {s \in SUBSET S : Cardinality(s) <= n}
           Is(f, n) == f = [s \in Upto(n) |-> IF s = {} THEN 0 ELSE g[Picked(s)] + f[s \ {Picked(s)}]]
           Made == {n \in Nat : \E f : Is(f, n)}
<1>0. \A s \in SUBSET S : IsFiniteSet(s) /\ Cardinality(s) \in Nat /\ Cardinality(s) <= Cardinality(S)
  BY FS_Subset, FS_CardinalityType
<1>00. \A s \in SUBSET S : s # {} => /\ Picked(s) \in s
                                     /\ Cardinality(s \ {Picked(s)}) = Cardinality(s) - 1
  <2> TAKE s \in SUBSET S
  <2> HAVE s # {}
  <2>1. Picked(s) \in s
    OBVIOUS
  <2> HIDE DEF Picked
  <2> QED
    BY <1>0, <2>1, FS_RemoveElement
<1> HIDE DEF Picked
<1>1. 0 \in Made
  <2>1. \A s \in Upto(0) : s = {}
    BY <1>0, FS_EmptySet
  <2>2. Is([s \in Upto(0) |-> 0], 0)
    <3> HIDE DEF Upto
    <3> QED
      BY <2>1
  <2> QED
    BY <2>2
<1>2. \A n \in Nat : n \in Made => n + 1 \in Made
  <2> TAKE n \in Nat
  <2> HAVE n \in Made
  <2> PICK f : Is(f, n)
    BY Zenon
  <2> DEFINE h == [s \in Upto(n + 1) |-> IF s = {} THEN 0
                     ELSE g[Picked(s)] + f[s \ {Picked(s)}]]
  <2>1. \A s \in Upto(n) : s \in Upto(n + 1) /\ h[s] = f[s]
    <3>1. \A s \in Upto(n) : f[s] = IF s = {} THEN 0 ELSE g[Picked(s)] + f[s \ {Picked(s)}]
      <4> HIDE DEF Upto
      <4> DEFINE e == [s \in Upto(n) |-> IF s = {} THEN 0 ELSE g[Picked(s)] + f[s \ {Picked(s)}]]
      <4>1. f = e
        OBVIOUS
      <4>2. \A s \in Upto(n) : e[s] = IF s = {} THEN 0 ELSE g[Picked(s)] + f[s \ {Picked(s)}]
        OBVIOUS
      <4> QED
        BY <4>1, <4>2, Zenon
    <3>2. \A s \in Upto(n) : s \in Upto(n + 1)
      BY <1>0
    <3> HIDE DEF Upto
    <3> QED
      BY <3>1, <3>2
  <2>2. \A s \in Upto(n + 1) : s # {} => s \ {Picked(s)} \in Upto(n)
    BY <1>0, <1>00
  <2>3. Is(h, n + 1)
    <3> HIDE DEF Upto
    <3> DEFINE e == [s \in Upto(n + 1) |-> IF s = {} THEN 0 ELSE g[Picked(s)] + h[s \ {Picked(s)}]]
    <3>1. \A s \in Upto(n + 1) : e[s] = h[s]
      BY <2>1, <2>2
    <3>2. h = e
      BY <3>1
    <3> QED
      BY <3>2
  <2>4. n + 1 \in Nat
    OBVIOUS
  <2> QED
    BY <2>3, <2>4, Zenon
<1>3. Cardinality(S) \in Made
  <2> HIDE DEF Made
  <2> QED
    BY <1>1, <1>2, SetInduction, FS_CardinalityType
<1>4. PICK f : Is(f, Cardinality(S))
  BY <1>3, Zenon
<1>5. Upto(Cardinality(S)) = SUBSET S
  BY <1>0
<1> QED
  BY <1>4, <1>5 DEF Adds, Picked

\* A sum of numbers is a number, and of naturals a natural.
LEMMA SumIsNumber ==
  ASSUME NEW S, IsFiniteSet(S), NEW g, NEW it, Adds(it, g, S),
         NEW N \in {Nat, Int}, \A x \in S : g[x] \in N
  PROVE  it[S] \in N
<1> DEFINE Picked(s) == CHOOSE x \in s : TRUE
           Holds(n) == \A s \in SUBSET S : Cardinality(s) = n => it[s] \in N
           So == {n \in Nat : Holds(n)}
<1>0. \A s \in SUBSET S : IsFiniteSet(s) /\ Cardinality(s) \in Nat
  BY FS_Subset, FS_CardinalityType
<1>1. \A s \in SUBSET S : s # {} => /\ Picked(s) \in s
                                    /\ Cardinality(s \ {Picked(s)}) = Cardinality(s) - 1
  <2> TAKE s \in SUBSET S
  <2> HAVE s # {}
  <2>1. Picked(s) \in s
    OBVIOUS
  <2> HIDE DEF Picked
  <2> QED
    BY <1>0, <2>1, FS_RemoveElement
<1>2. \A s \in SUBSET S : it[s] = IF s = {} THEN 0 ELSE g[Picked(s)] + it[s \ {Picked(s)}]
  <2> DEFINE e == [s \in SUBSET S |-> IF s = {} THEN 0 ELSE g[Picked(s)] + it[s \ {Picked(s)}]]
  <2>1. it = e
    BY DEF Adds
  <2>2. \A s \in SUBSET S : e[s] = IF s = {} THEN 0 ELSE g[Picked(s)] + it[s \ {Picked(s)}]
    OBVIOUS
  <2> QED
    BY <2>1, <2>2, Zenon
<1> HIDE DEF Picked
<1>a. 0 \in N /\ \A a, b \in N : a + b \in N
  OBVIOUS
<1>3. 0 \in So
  <2>1. \A s \in SUBSET S : Cardinality(s) = 0 => s = {}
    BY <1>0, FS_EmptySet
  <2>2. it[{}] = 0
    BY <1>2
  <2> QED
    BY <1>a, <2>1, <2>2
<1>4. \A n \in Nat : n \in So => n + 1 \in So
  <2> TAKE n \in Nat
  <2> HAVE n \in So
  <2>1. ASSUME NEW s \in SUBSET S, Cardinality(s) = n + 1 PROVE it[s] \in N
    <3>1. s # {}
      BY <2>1, FS_EmptySet
    <3>2. Picked(s) \in S /\ s \ {Picked(s)} \in SUBSET S /\ Cardinality(s \ {Picked(s)}) = n
      BY <1>1, <2>1, <3>1
    <3>3. it[s \ {Picked(s)}] \in N /\ g[Picked(s)] \in N
      BY <3>2
    <3> QED
      BY <1>2, <1>a, <3>1, <3>3
  <2> QED
    BY <2>1
<1> QED
  <2>1. Cardinality(S) \in So
    <3> HIDE DEF So
    <3> QED
      BY <1>3, <1>4, SetInduction, FS_CardinalityType
  <2> QED
    BY <2>1

\* What is added at one member, and that nothing depends on which one is chosen first.
LEMMA SumUnfolds ==
  ASSUME NEW S, NEW g, NEW it, Adds(it, g, S)
  PROVE  /\ it[{}] = 0
         /\ \A s \in SUBSET S : s # {} => \E x \in s : it[s] = g[x] + it[s \ {x}]
<1> DEFINE Picked(s) == CHOOSE x \in s : TRUE
           e == [s \in SUBSET S |-> IF s = {} THEN 0 ELSE g[Picked(s)] + it[s \ {Picked(s)}]]
<1>1. it = e
  BY DEF Adds
<1>2. \A s \in SUBSET S : e[s] = IF s = {} THEN 0 ELSE g[Picked(s)] + it[s \ {Picked(s)}]
  OBVIOUS
<1>3. \A s \in SUBSET S : it[s] = IF s = {} THEN 0 ELSE g[Picked(s)] + it[s \ {Picked(s)}]
  BY <1>1, <1>2, Zenon
<1>4. \A s \in SUBSET S : s # {} => Picked(s) \in s
  OBVIOUS
<1> HIDE DEF Picked
<1> QED
  BY <1>3, <1>4

Summed(it, g, S) == IsFiniteSet(S) /\ Adds(it, g, S) /\ \A x \in S : g[x] \in Int

Splits(it, g, S) ==
  \A s \in SUBSET S : it[s] \in Int /\ \A x \in s : it[s] = g[x] + it[s \ {x}]

LEMMA SumSplits ==
  ASSUME NEW S, NEW g, NEW it, Summed(it, g, S)
  PROVE  Splits(it, g, S)
<1> USE DEF Summed
<1> DEFINE Holds(n) == \A s \in SUBSET S : Cardinality(s) <= n =>
                         it[s] \in Int /\ \A x \in s : it[s] = g[x] + it[s \ {x}]
           So == {n \in Nat : Holds(n)}
<1>0. \A s \in SUBSET S : IsFiniteSet(s) /\ Cardinality(s) \in Nat /\ Cardinality(s) <= Cardinality(S)
  BY FS_Subset, FS_CardinalityType
<1>1. \A s \in SUBSET S : \A x \in s : /\ s \ {x} \in SUBSET S
                                       /\ Cardinality(s \ {x}) = Cardinality(s) - 1
  BY <1>0, FS_RemoveElement
<1>2. /\ it[{}] = 0
      /\ \A s \in SUBSET S : s # {} => \E x \in s : it[s] = g[x] + it[s \ {x}]
  BY SumUnfolds
<1>3. 0 \in So
  <2>1. \A s \in SUBSET S : Cardinality(s) <= 0 => s = {}
    BY <1>0, FS_EmptySet
  <2>2. Holds(0)
    <3> TAKE s \in SUBSET S
    <3> HAVE Cardinality(s) <= 0
    <3>1. s = {}
      BY <2>1
    <3> QED
      BY <1>2, <3>1
  <2> QED
    BY <2>2
<1>4. \A n \in Nat : n \in So => n + 1 \in So
  <2> TAKE n \in Nat
  <2> HAVE n \in So
  <2>0. Holds(n)
    OBVIOUS
  <2>1. ASSUME NEW s \in SUBSET S, Cardinality(s) <= n + 1
        PROVE  it[s] \in Int /\ \A x \in s : it[s] = g[x] + it[s \ {x}]
    <3>1. CASE s = {}
      BY <1>2, <3>1
    <3>2. CASE s # {}
      <4>1. PICK c \in s : it[s] = g[c] + it[s \ {c}]
        BY <1>2, <3>2
      <4>2. \A x \in s : Cardinality(s \ {x}) <= n /\ s \ {x} \in SUBSET S
        BY <1>0, <1>1, <2>1
      <4>3. it[s \ {c}] \in Int /\ it[s] \in Int
        BY <2>0, <4>1, <4>2
      <4>4. ASSUME NEW x \in s PROVE it[s] = g[x] + it[s \ {x}]
        <5>1. CASE x = c
          BY <4>1, <5>1
        <5>2. CASE x # c
          <6>1. x \in s \ {c} /\ c \in s \ {x} /\ (s \ {c}) \ {x} = (s \ {x}) \ {c}
            BY <5>2
          <6>2. it[s \ {c}] = g[x] + it[(s \ {c}) \ {x}]
            BY <2>0, <4>2, <6>1
          <6>3. it[s \ {x}] = g[c] + it[(s \ {x}) \ {c}]
            BY <2>0, <4>2, <6>1
          <6>4. it[(s \ {x}) \ {c}] \in Int
            <7>1. Cardinality((s \ {x}) \ {c}) <= n
              <8>1. Cardinality(s \ {x}) \in Nat /\ Cardinality(s \ {x}) <= n
                BY <1>0, <4>2
              <8>2. Cardinality((s \ {x}) \ {c}) = Cardinality(s \ {x}) - 1
                BY <1>1, <4>2, <6>1
              <8> QED
                BY <8>1, <8>2
            <7> QED
              BY <2>0, <7>1
          <6>5. g[x] \in Int /\ g[c] \in Int
            OBVIOUS
          <6> DEFINE rest == it[(s \ {x}) \ {c}]
                     p == it[s \ {c}]
                     q == it[s \ {x}]
          <6>6. p = g[x] + rest /\ q = g[c] + rest /\ rest \in Int /\ it[s] = g[c] + p
            BY <4>1, <6>1, <6>2, <6>3, <6>4
          <6> HIDE DEF rest, p, q
          <6>7. it[s] = g[x] + q
            BY <6>5, <6>6
          <6> QED
            BY <6>7 DEF q
        <5> QED
          BY <5>1, <5>2
      <4> QED
        BY <4>3, <4>4
    <3> QED
      BY <3>1, <3>2
  <2> QED
    BY <2>1
<1>5. Holds(Cardinality(S))
  <2>1. Cardinality(S) \in So
    <3> HIDE DEF So
    <3> QED
      BY <1>3, <1>4, SetInduction, FS_CardinalityType
  <2> QED
    BY <2>1
<1> QED
  BY <1>0, <1>5 DEF Splits

\* Two recursions agree where what they add agrees.
LEMMA SumsAgree ==
  ASSUME NEW S, NEW T, NEW g, NEW h, NEW it, NEW jt,
         Summed(it, g, S), Summed(jt, h, T), \A x \in S \cap T : g[x] = h[x]
  PROVE  \A s \in SUBSET (S \cap T) : it[s] = jt[s]
<1> DEFINE U == S \cap T
           Holds(n) == \A s \in SUBSET U : Cardinality(s) = n => it[s] = jt[s]
           So == {n \in Nat : Holds(n)}
<1>0. IsFiniteSet(U) /\ \A s \in SUBSET U : IsFiniteSet(s) /\ Cardinality(s) \in Nat
  BY FS_Subset, FS_CardinalityType DEF Summed
<1>1. \A s \in SUBSET U : \A x \in s : /\ s \ {x} \in SUBSET U
                                       /\ Cardinality(s \ {x}) = Cardinality(s) - 1
  BY <1>0, FS_RemoveElement
<1>2. it[{}] = 0 /\ jt[{}] = 0
  BY SumUnfolds DEF Summed
<1>3. \A s \in SUBSET U : \A x \in s : /\ it[s] = g[x] + it[s \ {x}]
                                       /\ jt[s] = h[x] + jt[s \ {x}] /\ g[x] = h[x]
  <2>1. Splits(it, g, S) /\ Splits(jt, h, T)
    BY SumSplits
  <2> QED
    BY <2>1 DEF Splits
<1>4. 0 \in So
  BY <1>0, <1>2, FS_EmptySet
<1>5. \A n \in Nat : n \in So => n + 1 \in So
  <2> TAKE n \in Nat
  <2> HAVE n \in So
  <2>1. ASSUME NEW s \in SUBSET U, Cardinality(s) = n + 1 PROVE it[s] = jt[s]
    <3>1. s # {}
      <4> HIDE DEF U
      <4> QED
        BY <2>1, FS_EmptySet
    <3>2. PICK x \in s : TRUE
      BY <3>1
    <3>3. it[s \ {x}] = jt[s \ {x}]
      BY <1>1, <2>1, <3>2
    <3> HIDE DEF U
    <3> QED
      BY <1>3, <3>2, <3>3
  <2> QED
    BY <2>1
<1> QED
  <2> HIDE DEF So, U
  <2>1. \A n \in Nat : n \in So
    BY <1>4, <1>5, SetInduction
  <2> QED
    BY <1>0, <2>1 DEF So, U

\* The sum of g over S.
Total(g, S) == (CHOOSE it : Adds(it, g, S))[S]

Addable(g, S) == IsFiniteSet(S) /\ \A x \in S : g[x] \in Int

LEMMA TotalIsSum ==
  ASSUME NEW S, NEW g, Addable(g, S), NEW it, Adds(it, g, S)
  PROVE  Total(g, S) = it[S]
<1>1. Adds(CHOOSE jt : Adds(jt, g, S), g, S)
  OBVIOUS
<1> DEFINE jt == CHOOSE jt : Adds(jt, g, S)
<1> HIDE DEF jt
<1>2. Summed(it, g, S) /\ Summed(jt, g, S)
  BY <1>1 DEF Summed, Addable, jt
<1>3. S \in SUBSET (S \cap S)
  OBVIOUS
<1> QED
  BY <1>2, <1>3, SumsAgree DEF Total, jt

LEMMA TotalsAgree ==
  ASSUME NEW S, NEW g, NEW h, Addable(g, S), Addable(h, S), \A x \in S : g[x] = h[x]
  PROVE  Total(g, S) = Total(h, S)
<1>1. PICK it : Adds(it, g, S)
  BY SumExists DEF Addable
<1>2. PICK jt : Adds(jt, h, S)
  BY SumExists DEF Addable
<1>3. Summed(it, g, S) /\ Summed(jt, h, S)
  BY <1>1, <1>2 DEF Summed, Addable
<1>4. S \in SUBSET (S \cap S)
  OBVIOUS
<1>5. it[S] = jt[S]
  BY <1>3, <1>4, SumsAgree
<1> QED
  BY <1>1, <1>2, <1>5, TotalIsSum

LEMMA TotalSplits ==
  ASSUME NEW S, NEW g, Addable(g, S)
  PROVE  /\ Total(g, S) \in Int /\ Total(g, {}) = 0
         /\ \A x \in S : Total(g, S) = g[x] + Total(g, S \ {x})
<1>1. PICK it : Adds(it, g, S)
  BY SumExists DEF Addable
<1>2. Total(g, S) = it[S] /\ Splits(it, g, S)
  BY <1>1, TotalIsSum, SumSplits DEF Summed, Addable
<1>3. Total(g, {}) = 0
  <2>1. IsFiniteSet({})
    BY FS_EmptySet
  <2>2. PICK jt : Adds(jt, g, {})
    BY <2>1, SumExists
  <2>3. Addable(g, {})
    BY <2>1 DEF Addable
  <2>4. jt[{}] = 0
    BY <2>2, SumUnfolds
  <2> QED
    BY <2>2, <2>3, <2>4, TotalIsSum
<1>4. ASSUME NEW x \in S PROVE Total(g, S) = g[x] + Total(g, S \ {x})
  <2> DEFINE R == S \ {x}
  <2>1. R \in SUBSET S /\ IsFiniteSet(R) /\ Addable(g, R)
    BY FS_Subset DEF Addable
  <2> HIDE DEF R
  <2>2. PICK jt : Adds(jt, g, R)
    BY <2>1, SumExists
  <2>3. Summed(it, g, S) /\ Summed(jt, g, R)
    BY <1>1, <2>1, <2>2 DEF Summed, Addable
  <2>4. it[R] = jt[R]
    BY <2>1, <2>3, SumsAgree
  <2>5. it[S] = g[x] + it[R]
    BY <1>2 DEF Splits, R
  <2> QED
    BY <1>2, <2>1, <2>2, <2>4, <2>5, TotalIsSum DEF R
<1> QED
  BY <1>2, <1>3, <1>4 DEF Splits

\* The clipped rows of a source are a finite set of intervals with numbers.
Piece == [row : Nat, from : Int, to : Int, value : Int]
Row == [from : Int, to : Int, value : Int \cup {None}]

LEMMA SegmentsArePieces ==
  ASSUME NEW rows \in Seq(Row), NEW from \in Int, NEW to \in Int,
         ~Absent(Segments(rows, from, to))
  PROVE  IsFiniteSet(Segments(rows, from, to)) /\ Segments(rows, from, to) \subseteq Piece
<1> DEFINE used == {n \in DOMAIN rows : Overlaps(rows[n], from, to)}
           At(n) == [row |-> n, from |-> Max({from, rows[n].from}),
                     to |-> Min({to, rows[n].to}), value |-> rows[n].value]
<1>1. CASE Segments(rows, from, to) = {}
  BY <1>1, FS_EmptySet
<1>2. CASE Segments(rows, from, to) # {}
  <2>1. /\ Segments(rows, from, to) = {At(n) : n \in used}
        /\ \A n \in used : rows[n].value # None
    BY <1>2 DEF Segments, Absent
  <2>2. IsFiniteSet(used)
    <3>1. DOMAIN rows = 1 .. Len(rows) /\ Len(rows) \in Nat
      OBVIOUS
    <3>2. IsFiniteSet(1 .. Len(rows))
      BY <3>1, FS_Interval
    <3> QED
      BY <3>1, <3>2, FS_Subset
  <2>3. IsFiniteSet({At(n) : n \in used})
    <3> DEFINE f == [n \in used |-> At(n)]
               T == {At(n) : n \in used}
    <3> HIDE DEF At, used
    <3>1. f \in Surjection(used, T)
      BY DEF Surjection
    <3> HIDE DEF f, T
    <3>2. IsFiniteSet(T)
      BY <2>2, <3>1, FS_Surjection
    <3> QED
      BY <3>2 DEF T
  <2>4. ASSUME NEW n \in used PROVE At(n) \in Piece
    <3>1. n \in Nat /\ rows[n] \in Row
      BY ElementOfSeq
    <3>2. rows[n].from \in Int /\ rows[n].to \in Int /\ rows[n].value \in Int
      BY <2>1, <3>1 DEF Row
    <3> QED
      BY <3>1, <3>2, TwoInts DEF Piece
  <2> HIDE DEF At, used
  <2> QED
    BY <2>1, <2>3, <2>4, Zenon
<1> QED
  BY <1>1, <1>2

LEMMA DemandIsNumber ==
  ASSUME NEW w, Situated(w), NEW from \in Int, NEW to \in Int
  PROVE  WindowDemand(w.run, w.reserve, from, to) \in Int \cup {None}
<1> DEFINE run == w.run
           reserve == w.reserve
           early == IF from >= run.start THEN {}
                    ELSE IF \/ \E n \in DOMAIN run.points :
                                 /\ run.points[n].from < run.start
                                 /\ run.points[n].to > from
                            \/ ~PartialCompatible(run, reserve, from)
                            \/ reserve.slots = <<>>
                         THEN None
                         ELSE Segments(reserve.slots, from, Min({to, run.start}))
           late == Segments(run.points, Max({from, run.start}), to)
           pieces == early \cup late
           Amount(p) == (p.to - p.from) * p.value
           sum == MapThenSumSet(LAMBDA p : (p.to - p.from) * p.value, pieces)
<1>1. CASE WindowDemand(run, reserve, from, to) = None
  BY <1>1
<1>2. CASE WindowDemand(run, reserve, from, to) # None
  <2>1. /\ run # None /\ reserve # None /\ early # None /\ late # None
        /\ WindowDemand(run, reserve, from, to) = sum
    BY <1>2 DEF WindowDemand, Absent
  <2>2. run.start \in Int /\ run.points \in Seq(Row) /\ reserve.slots \in Seq(Row)
    BY <2>1 DEF Situated, Row
  <2>3. IsFiniteSet(late) /\ late \subseteq Piece
    <3>1. Max({from, run.start}) \in Int
      BY <2>2, TwoInts
    <3> QED
      BY <2>1, <2>2, <3>1, SegmentsArePieces DEF Absent
  <2>4. IsFiniteSet(early) /\ early \subseteq Piece
    <3>1. CASE early = {}
      BY <3>1, FS_EmptySet
    <3>2. CASE early # {}
      <4>1. early = Segments(reserve.slots, from, Min({to, run.start}))
        BY <2>1, <3>2
      <4>2. Min({to, run.start}) \in Int
        BY <2>2, TwoInts
      <4> QED
        BY <2>1, <2>2, <4>1, <4>2, SegmentsArePieces DEF Absent
    <3> QED
      BY <3>1, <3>2
  <2>5. IsFiniteSet(pieces) /\ pieces \subseteq Piece
    BY <2>3, <2>4, FS_Union
  <2> HIDE DEF early, late, pieces
  <2> DEFINE g == [p \in pieces |-> Amount(p)]
             Is(it) == it = [s \in SUBSET pieces |->
                         IF s = {} THEN 0
                         ELSE Amount(CHOOSE x \in s : TRUE) + it[s \ {CHOOSE x \in s : TRUE}]]
  <2>6. \A p \in pieces : g[p] = Amount(p) /\ g[p] \in Int
    BY <2>5 DEF Piece
  <2>7. ASSUME NEW it PROVE Adds(it, g, pieces) <=> Is(it)
    <3> DEFINE a == [s \in SUBSET pieces |->
                         IF s = {} THEN 0
                         ELSE g[CHOOSE x \in s : TRUE] + it[s \ {CHOOSE x \in s : TRUE}]]
               b == [s \in SUBSET pieces |->
                         IF s = {} THEN 0
                         ELSE Amount(CHOOSE x \in s : TRUE) + it[s \ {CHOOSE x \in s : TRUE}]]
    <3>1. a = b
      <4>1. \A s \in SUBSET pieces : s # {} => (CHOOSE x \in s : TRUE) \in pieces
        OBVIOUS
      <4> HIDE DEF g, Amount
      <4> QED
        BY <2>6, <4>1
    <3> QED
      BY <3>1, Zenon DEF Adds
  <2>8. PICK it : Adds(it, g, pieces)
    BY <2>5, SumExists
  <2>9. Is(CHOOSE jt : Is(jt))
    <3> HIDE DEF Is, g
    <3> QED
      BY <2>7, <2>8
  <2>10. sum = (CHOOSE jt : Is(jt))[pieces]
    BY DEF MapThenSumSet, MapThenFoldSet
  <2>11. (CHOOSE jt : Is(jt))[pieces] \in Int
    <3> HIDE DEF Is, g
    <3> QED
      BY <2>5, <2>6, <2>7, <2>9, SumIsNumber
  <2> QED
    BY <2>1, <2>10, <2>11
<1> QED
  BY <1>1, <1>2

----------------------------------------------------------------------------
(* What the candidates are computed from, and what they do.                 *)

Known == Int \cup {None}

\* The facts of a situation, as far as the battery is concerned.
FactsOK(f, demand, reserve) ==
  /\ f.hours \in Nat /\ f.battery \in Known
  /\ f.available # None => /\ f.battery \in Int /\ reserve \in Int
                           /\ f.available = Positive(f.battery - reserve)
  /\ f.deficit # None => /\ f.deficit \in Nat /\ demand \in Int
                         /\ f.deficit <= Positive(demand)

LEMMA FactsAreKnown ==
  ASSUME NEW w, Situated(w)
  PROVE  FactsOK(Facts(w), WindowDemand(w.run, w.reserve, w.now, w.end), w.reserve.energy)
<1> DEFINE o == w.observation
           demand == WindowDemand(w.run, w.reserve, w.now, w.end)
           hours == Positive(w.end - w.now)
           solar == IF Absent(o) THEN 0 ELSE IF Absent(o.p10) THEN 0
                    ELSE o.p10 * Min({hours, 12 * Slot})
           battery == IF Absent(o) THEN None
                      ELSE IF ~Absent(o.energy) THEN o.energy
                      ELSE IF w.config.capacity > 0 THEN o.soc ELSE None
           floor == IF Absent(w.reserve) THEN None ELSE w.reserve.energy
           f == Facts(w)
<1>1. /\ w.now \in Int /\ w.end \in Int /\ battery \in Known /\ floor \in Known
      /\ o # None => o.p10 \in Nat \cup {None}
  BY DEF Situated, Known, Absent
<1>2. hours \in Nat
  BY <1>1 DEF Positive
<1>3. demand \in Known
  BY <1>1, DemandIsNumber DEF Known
<1>4. solar \in Nat
  <2>1. 12 * Slot \in Nat
    BY SlotAssumption
  <2> DEFINE hour == 12 * Slot
  <2>a. hour \in Nat
    BY <2>1
  <2> HIDE DEF hours, hour
  <2>b. Min({hours, hour}) \in Nat
    BY <1>2, <2>a, TwoInts
  <2>2. Min({hours, 12 * Slot}) \in Nat
    BY <2>b DEF hour
  <2>3. ASSUME NEW a \in Nat, NEW b \in Nat PROVE a * b \in Nat
    OBVIOUS
  <2> QED
    BY <1>1, <2>2, <2>3 DEF Absent
<1>5. /\ f.hours = hours /\ f.battery = battery
      /\ f.available = IF Absent(battery) \/ Absent(floor) THEN None
                       ELSE Positive(battery - floor)
      /\ f.deficit = IF Absent(demand) THEN None ELSE Positive(demand - solar)
  BY DEF Facts
<1>6. floor # None => floor = w.reserve.energy
  BY DEF Absent
<1> HIDE DEF f, hours, battery, floor, demand, solar
<1>7. f.available # None => /\ battery \in Int /\ floor \in Int /\ floor = w.reserve.energy
                           /\ f.available = Positive(battery - floor)
  BY <1>1, <1>5, <1>6 DEF Known, Absent
<1>8. f.deficit # None => /\ f.deficit \in Nat /\ demand \in Int
                         /\ f.deficit <= Positive(demand)
  BY <1>3, <1>4, <1>5 DEF Known, Absent, Positive
<1> QED
  BY <1>1, <1>2, <1>5, <1>7, <1>8 DEF FactsOK, f, demand

\* What a candidate does to the battery.
Keeps(candidate, battery, reserve, c) ==
  /\ candidate.move > 0 => battery * c.loss + candidate.move <= c.capacity * c.loss
  /\ candidate.move < 0 => battery * c.loss + candidate.move >= reserve * c.loss

ConfigOK(c) ==
  /\ c.loss \in Nat \ {0}
  /\ {c.capacity, c.charge, c.discharge, c.import, c.export} \subseteq Int

LEMMA ChargeKeeps ==
  ASSUME NEW f, NEW c, NEW demand, NEW reserve, FactsOK(f, demand, reserve), ConfigOK(c)
  PROVE  Keeps(Charge(f, c), f.battery, reserve, c)
<1> DEFINE room == Positive(c.capacity - f.battery) * c.loss
           flow == Min({c.charge, c.import}) * f.hours
           grid == Min({room, flow})
<1>1. CASE Charge(f, c) = Infeasible
  BY <1>1 DEF Infeasible, Keeps
<1>2. CASE Charge(f, c) # Infeasible
  <2>1. f.battery # None /\ ~(f.battery >= c.capacity) /\ ~(c.charge <= 0) /\ ~(c.import <= 0)
    BY <1>2 DEF Charge, Absent
  <2>2. Charge(f, c).move = grid
    BY <1>2 DEF Charge, Feasible
  <2>3. f.battery \in Int /\ f.hours \in Nat
    BY <2>1 DEF FactsOK, Known
  <2>4. room \in Int /\ room = (c.capacity - f.battery) * c.loss
    BY <2>1, <2>3 DEF ConfigOK, Positive
  <2>5. flow \in Nat
    <3> DEFINE a == c.charge
               b == c.import
    <3>1. a \in Nat /\ b \in Nat
      BY <2>1 DEF ConfigOK
    <3> HIDE DEF a, b
    <3>2. Min({a, b}) \in {a, b}
      BY <3>1, TwoInts
    <3>3. Min({a, b}) \in Nat
      BY <3>1, <3>2
    <3> QED
      BY <3>3, <2>3 DEF a, b
  <2>6. grid <= room /\ grid \in Int /\ (grid = room \/ grid = flow)
    <3> HIDE DEF room, flow
    <3>1. room \in Int /\ flow \in Int
      BY <2>4, <2>5
    <3>2. Min({room, flow}) \in {room, flow} /\ Min({room, flow}) <= room
      BY <3>1, TwoInts
    <3> QED
      BY <3>1, <3>2
  <2>7. room > 0
    <3>1. c.capacity - f.battery \in Nat \ {0} /\ c.loss \in Nat \ {0}
      BY <2>1, <2>3 DEF ConfigOK
    <3>2. ASSUME NEW a \in Nat \ {0}, NEW b \in Nat \ {0} PROVE a * b > 0
      OBVIOUS
    <3> QED
      BY <2>4, <3>1, <3>2
  <2>8. (c.capacity - f.battery) * c.loss = c.capacity * c.loss - f.battery * c.loss
        /\ c.capacity * c.loss \in Int /\ f.battery * c.loss \in Int
    BY <2>3 DEF ConfigOK
  <2>9. grid >= 0
    <3> HIDE DEF grid, room, flow
    <3> QED
      BY <2>5, <2>6, <2>7
  <2> HIDE DEF grid, room, flow
  <2> QED
    BY <2>2, <2>4, <2>6, <2>8, <2>9 DEF Keeps
<1> QED
  BY <1>1, <1>2

\* What is taken from the battery, at most what is available, leaves the reserve.
LEMMA TakenKeeps ==
  ASSUME NEW f, NEW c, NEW demand, NEW reserve, FactsOK(f, demand, reserve), ConfigOK(c),
         NEW taken \in Nat, f.available # None, taken <= f.available, NEW value
  PROVE  Keeps(Feasible(value, -taken * c.loss), f.battery, reserve, c)
<1>1. /\ f.battery \in Int /\ reserve \in Int /\ f.available = Positive(f.battery - reserve)
      /\ c.loss \in Nat
  BY DEF FactsOK, ConfigOK
<1>2. Feasible(value, -taken * c.loss).move = -taken * c.loss
  BY DEF Feasible
<1>3. -taken * c.loss <= 0 /\ -taken * c.loss \in Int
  BY <1>1
<1>4. -taken * c.loss < 0 => reserve <= f.battery - taken
  <2>1. taken = 0 => -taken * c.loss = 0
    BY <1>1
  <2> QED
    BY <1>1, <2>1 DEF Positive
<1>5. (f.battery - taken) * c.loss = f.battery * c.loss + (-taken * c.loss)
  BY <1>1
<1>6. -taken * c.loss < 0 => reserve * c.loss <= (f.battery - taken) * c.loss
  BY <1>1, <1>4, Scaled
<1>7. -taken * c.loss < 0 => f.battery * c.loss + (-taken * c.loss) >= reserve * c.loss
  <2>1. reserve * c.loss \in Int /\ (f.battery - taken) * c.loss \in Int
    BY <1>1
  <2> QED
    BY <1>5, <1>6, <2>1
<1> DEFINE move == -taken * c.loss
<1> HIDE DEF move
<1>8. Feasible(value, move).move = move
  BY DEF Feasible
<1> QED
  BY <1>3, <1>7, <1>8 DEF Keeps, move

LEMMA DischargeKeeps ==
  ASSUME NEW f, NEW c, NEW demand, NEW reserve, FactsOK(f, demand, reserve), ConfigOK(c)
  PROVE  /\ Keeps(Discharge(f, c), f.battery, reserve, c)
         /\ Discharge(f, c).feasible => /\ demand \in Int
                                        /\ -Discharge(f, c).move <= demand * c.loss * c.loss
<1> DEFINE x == f.deficit * c.loss
           y == c.discharge * f.hours * c.loss
           z == f.available
           use == SelfUse(f, c)
<1>1. CASE Discharge(f, c) = Infeasible
  BY <1>1 DEF Infeasible, Keeps
<1>2. CASE Discharge(f, c) # Infeasible
  <2>1. /\ f.available # None /\ f.deficit # None /\ f.deficit # 0 /\ ~(c.discharge <= 0)
    BY <1>2 DEF Discharge, Absent
  <2>2. \E value : Discharge(f, c) = Feasible(value, -use * c.loss)
    BY <1>2 DEF Discharge
  <2>3. /\ f.deficit \in Nat /\ c.loss \in Nat /\ f.hours \in Nat /\ f.available \in Nat
        /\ c.discharge \in Nat /\ demand \in Int /\ f.deficit <= Positive(demand)
    BY <2>1 DEF FactsOK, ConfigOK, Positive
  <2>4. x \in Nat /\ y \in Nat /\ z \in Nat
    BY <2>3, Product
  <2>5. use = Min({x, y, z})
    BY DEF SelfUse
  <2> HIDE DEF x, y, z, use
  <2>6. use \in Nat /\ use <= x /\ use <= z
    BY <2>4, <2>5, LeastOfThree
  <2>7. Keeps(Discharge(f, c), f.battery, reserve, c)
    BY <2>1, <2>2, <2>6, TakenKeeps DEF z
  <2>8. Discharge(f, c).move = -use * c.loss
    BY <2>2 DEF Feasible
  <2>9. f.deficit <= demand
    BY <2>1, <2>3 DEF Positive
  <2>10. x \in Int /\ demand * c.loss \in Int /\ x <= demand * c.loss
    BY <2>3, <2>9, Scaled DEF x
  <2> DEFINE whole == demand * c.loss
  <2>11. whole \in Int /\ use <= whole
    BY <2>6, <2>10
  <2> HIDE DEF whole
  <2>12. use * c.loss <= whole * c.loss
    BY <2>3, <2>6, <2>11, Scaled
  <2>13. -(-use * c.loss) = use * c.loss
    BY <2>3, <2>6
  <2> QED
    BY <2>3, <2>7, <2>8, <2>12, <2>13 DEF whole
<1> QED
  BY <1>1, <1>2

LEMMA ExportKeeps ==
  ASSUME NEW f, NEW c, NEW demand, NEW reserve, FactsOK(f, demand, reserve), ConfigOK(c)
  PROVE  Keeps(Export(f, c), f.battery, reserve, c)
<1> DEFINE power == Min({c.export, c.discharge})
           x == power * f.hours * c.loss
           z == f.available
           out == Exportable(f, c)
<1>1. CASE Export(f, c) = Infeasible
  BY <1>1 DEF Infeasible, Keeps
<1>2. CASE Export(f, c) # Infeasible
  <2>1. f.available # None /\ ~(c.discharge <= 0) /\ ~(c.export <= 0)
    BY <1>2 DEF Export, Absent
  <2>2. \E value : Export(f, c) = Feasible(value, -out * c.loss)
    BY <1>2 DEF Export
  <2>3. /\ c.loss \in Nat /\ f.hours \in Nat /\ f.available \in Nat
        /\ c.discharge \in Nat /\ c.export \in Nat
    BY <2>1 DEF FactsOK, ConfigOK, Positive
  <2>4. power \in Nat
    BY <2>3, LeastOfTwo
  <2>5. x \in Nat /\ z \in Nat
    <3> HIDE DEF power
    <3> QED
      BY <2>3, <2>4, Product
  <2>6. out = Min({x, z})
    BY DEF Exportable
  <2> HIDE DEF x, z, out
  <2>7. out \in Nat /\ out <= z
    BY <2>5, <2>6, LeastOfTwo
  <2> QED
    BY <2>1, <2>2, <2>7, TakenKeeps DEF z
<1> QED
  BY <1>1, <1>2

\* Every candidate of every situation keeps the battery between the reserve and its
\* capacity, and gives to the household at most what it is expected to draw.
THEOREM CandidatesKeepBattery ==
  ASSUME NEW w, Situated(w), NEW action \in ToSet(Actions)
  PROVE  /\ KeepsBattery(w, action)
         /\ action = DISCHARGE /\ Candidates(w)[action].feasible =>
              LET demand == WindowDemand(w.run, w.reserve, w.now, w.end)
              IN  /\ demand \in Int
                  /\ -Candidates(w)[action].move <= demand * w.config.loss * w.config.loss
<1> DEFINE f == Facts(w)
           c == w.config
           demand == WindowDemand(w.run, w.reserve, w.now, w.end)
           x == Candidates(w)[action]
<1>1. FactsOK(f, demand, w.reserve.energy) /\ ConfigOK(c)
  BY FactsAreKnown DEF Situated, ConfigOK
<1>2. action \in {HOLD, CHARGE, PRESERVE, DISCHARGE, EXPORT, DEFER}
  <2>1. DOMAIN Actions = 1 .. 6
    BY DEF Actions
  <2> QED
    BY <2>1 DEF ToSet, Actions
<1>3. /\ action = CHARGE => x \in {Infeasible, Charge(f, c)}
      /\ action = DISCHARGE => x \in {Infeasible, Discharge(f, c)}
      /\ action = EXPORT => x \in {Infeasible, Export(f, c)}
  BY <1>2 DEF Candidates, HOLD, CHARGE, PRESERVE, DISCHARGE, EXPORT, DEFER
<1>4. /\ action = HOLD => x = Feasible(0, 0)
      /\ action = PRESERVE => x \in {Infeasible, Preserve(f)}
      /\ action = DEFER => x \in {Infeasible, Defer(f, c)}
  BY <1>2 DEF Candidates, HOLD, CHARGE, PRESERVE, DISCHARGE, EXPORT, DEFER
<1> HIDE DEF x, f, c, demand
<1>5. Keeps(x, f.battery, w.reserve.energy, c)
  <2>1. Infeasible.move = 0
    BY DEF Infeasible
  <2>2. Preserve(f).move = 0
    BY DEF Feasible, Infeasible, Preserve
  <2>3. Defer(f, c).move = 0
    <3>1. \A value : Feasible(value, 0).move = 0
      BY DEF Feasible
    <3> QED
      BY <2>1, <3>1 DEF Defer
  <2>4. Feasible(0, 0).move = 0
    BY DEF Feasible
  <2>5. CASE action \in {HOLD, PRESERVE, DEFER}
    <3>1. x.move = 0
      <4>1. x \in {Feasible(0, 0), Infeasible, Preserve(f), Defer(f, c)}
        BY <1>4, <2>5
      <4> QED
        BY <2>1, <2>2, <2>3, <2>4, <4>1, Zenon
    <3> QED
      BY <3>1 DEF Keeps
  <2>6. CASE action \in {CHARGE, DISCHARGE, EXPORT}
    <3>1. Keeps(Infeasible, f.battery, w.reserve.energy, c)
      BY <2>1 DEF Keeps
    <3> QED
      BY <1>1, <1>3, <2>6, <3>1, ChargeKeeps, DischargeKeeps, ExportKeeps
  <2> QED
    BY <1>2, <2>5, <2>6
<1>6. action = DISCHARGE /\ x.feasible => demand \in Int /\ -x.move <= demand * c.loss * c.loss
  BY <1>1, <1>3, DischargeKeeps DEF Infeasible
<1> QED
  BY <1>5, <1>6 DEF KeepsBattery, Keeps, x, f, c, demand

\* An action is recommended only in a situation that nothing blocks and through open
\* gates, and keeps the battery.
THEOREM RecommendationIsGrounded ==
  ASSUME NEW w, Situated(w), None \notin ToSet(Actions),
         Decide(w).action \in ToSet(Tail(Actions))
  PROVE  /\ Blockers(w) = {}
         /\ \A n \in DOMAIN Gates(w, Facts(w)) : Gates(w, Facts(w))[n][2]
         /\ KeepsBattery(w, Decide(w).action)
         /\ Decide(w).action = DISCHARGE =>
              LET demand == WindowDemand(w.run, w.reserve, w.now, w.end)
              IN  /\ demand \in Int
                  /\ -Candidates(w)[DISCHARGE].move <= demand * w.config.loss * w.config.loss
<1> DEFINE f == Facts(w)
           a == Decide(w).action
           eligible == Eligible(w, Candidates(w), f)
           closed == {n \in DOMAIN Gates(w, f) : ~Gates(w, f)[n][2]}
           places == {n \in DOMAIN Actions : Actions[n] \in eligible}
<1>1. DOMAIN Actions = 1 .. 6 /\ Tail(Actions) = <<CHARGE, PRESERVE, DISCHARGE, EXPORT, DEFER>>
  BY DEF Actions
<1>2. ToSet(Tail(Actions)) = {CHARGE, PRESERVE, DISCHARGE, EXPORT, DEFER}
  <2> DEFINE s == <<CHARGE, PRESERVE, DISCHARGE, EXPORT, DEFER>>
  <2>1. DOMAIN s = 1 .. 5
    OBVIOUS
  <2>2. {s[n] : n \in 1 .. 5} = {s[1], s[2], s[3], s[4], s[5]}
    <3> HIDE DEF s
    <3>1. 1 .. 5 = {1, 2, 3, 4, 5}
      OBVIOUS
    <3> QED
      BY <3>1, Zenon
  <2> QED
    BY <1>1, <2>1, <2>2 DEF ToSet
<1>3. ToSet(Actions) = {HOLD, CHARGE, PRESERVE, DISCHARGE, EXPORT, DEFER}
  BY <1>1 DEF ToSet, Actions
<1>4. a # None /\ a # HOLD /\ a \in ToSet(Actions)
  BY <1>2, <1>3 DEF HOLD, CHARGE, PRESERVE, DISCHARGE, EXPORT, DEFER
<1>5. closed = {} /\ eligible # {} /\ a = Actions[Min(places)]
  <2> HIDE DEF f
  <2>1. \A reason : Selected(HOLD, reason).action = HOLD
    BY DEF Selected
  <2>2. \A action, reason : Selected(action, reason).action = action
    BY DEF Selected
  <2> HIDE DEF closed, eligible
  <2>3. a = IF CurrentStateBlockers(w) \cap StateBlocks # {} THEN None
            ELSE IF closed # {} \/ eligible = {} THEN HOLD ELSE FirstBuilt(eligible)
    BY <2>1, <2>2 DEF Decide, f, closed, eligible
  <2> HIDE DEF a
  <2> QED
    BY <1>4, <2>3 DEF FirstBuilt
<1>6. Min(places) \in places
  <2>1. eligible \subseteq ToSet(Tail(Actions))
    BY DEF Eligible
  <2> HIDE DEF eligible
  <2>2. places # {} /\ places \subseteq 1 .. 6
    BY <1>1, <1>2, <1>5, <2>1 DEF Actions
  <2> HIDE DEF places
  <2>3. \E n \in places : \A m \in places : n <= m
    <3>1. CASE 1 \in places
      BY <2>2, <3>1
    <3>2. CASE 1 \notin places /\ 2 \in places
      BY <2>2, <3>2
    <3>3. CASE 1 \notin places /\ 2 \notin places /\ 3 \in places
      BY <2>2, <3>3
    <3>4. CASE 1 \notin places /\ 2 \notin places /\ 3 \notin places /\ 4 \in places
      BY <2>2, <3>4
    <3>5. CASE 1 \notin places /\ 2 \notin places /\ 3 \notin places /\ 4 \notin places
      <4>1. CASE 5 \in places
        BY <2>2, <3>5, <4>1
      <4>2. CASE 5 \notin places
        <5>1. \A m \in places : m = 6
          BY <2>2, <3>5, <4>2
        <5>2. 6 \in places
          BY <2>2, <5>1
        <5> QED
          BY <5>1, <5>2
      <4> QED
        BY <4>1, <4>2
    <3> QED
      BY <3>1, <3>2, <3>3, <3>4, <3>5
  <2> QED
    BY <2>3 DEF Min
<1>7. a \in eligible
  BY <1>5, <1>6
<1>8. Candidates(w)[a].feasible
  BY <1>7 DEF Eligible
<1>9. Blockers(w) = {}
  <2>1. a \in {CHARGE, PRESERVE, DISCHARGE, EXPORT, DEFER}
    BY <1>2
  <2>2. Blockers(w) # {} => Candidates(w)[a] = Infeasible
    <3> HIDE DEF a
    <3> QED
      BY <2>1 DEF Candidates, HOLD, CHARGE, PRESERVE, DISCHARGE, EXPORT, DEFER
  <2> QED
    BY <1>8, <2>2 DEF Infeasible
<1>10. KeepsBattery(w, a)
  BY <1>4, CandidatesKeepBattery
<1>11. a = DISCHARGE =>
         LET demand == WindowDemand(w.run, w.reserve, w.now, w.end)
         IN  /\ demand \in Int
             /\ -Candidates(w)[DISCHARGE].move <= demand * w.config.loss * w.config.loss
  <2> HIDE DEF a
  <2> QED
    BY <1>4, <1>8, CandidatesKeepBattery
<1> QED
  BY <1>5, <1>9, <1>10, <1>11

----------------------------------------------------------------------------
(* Opportunities.                                                           *)

Windows == [kind : {"solar", "cheap_grid"}, start : Int, end : Int, confidence : {1, 2}]
Opportunities ==
  [kind : {"solar", "cheap_grid", "both", "overnight_reserve"}, start : Int, end : Int,
   confidence : {0, 1, 2},
   state : {"before_opportunity", "inside_opportunity", "waiting_for_next_opportunity"}]

LEMMA SolarIsWindow ==
  ASSUME NEW o, NEW c, NEW now \in Int
  PROVE  /\ SolarWindow(o, c, now) \subseteq Windows
         /\ \A v, w \in SolarWindow(o, c, now) : v = w
         /\ \A w \in SolarWindow(o, c, now) : w.kind = "solar"
<1>1. Midnight(now) \in Int
  BY DEF Midnight, Day
<1> DEFINE dusk == Midnight(now) + Dusk
           soon == now + 2
           start == IF o.sunny THEN Midnight(now) + Dawn ELSE Min({soon, dusk})
           today == Window("solar", start, dusk, 1)
           next == Window("solar", Midnight(now) + Day + Dawn, Midnight(now) + Day + Dusk, 1)
<1>2. start \in Int
  <2>1. soon \in Int /\ dusk \in Int
    BY <1>1 DEF Dusk
  <2> HIDE DEF soon, dusk
  <2>2. Min({soon, dusk}) \in {soon, dusk}
    BY <2>1, TwoInts
  <2> QED
    BY <1>1, <2>1, <2>2 DEF Dawn
<1>3. today \in Windows /\ next \in Windows /\ today.kind = "solar" /\ next.kind = "solar"
  <2> HIDE DEF start
  <2> QED
    BY <1>1, <1>2 DEF Window, Windows, Dawn, Dusk, Day
<1>4. SolarWindow(o, c, now) \in {{today}, {next}, {}}
  BY DEF SolarWindow
<1> HIDE DEF today, next
<1> QED
  BY <1>3, <1>4

LEMMA CheapIsWindow ==
  ASSUME NEW o, NEW c, NEW now \in Int,
         NEW T, o.prices \in Seq([from : Int, to : Int, price : T])
  PROVE  /\ CheapGridWindow(o, c, now) \subseteq Windows
         /\ \A v, w \in CheapGridWindow(o, c, now) : v = w
         /\ \A w \in CheapGridWindow(o, c, now) : w.kind = "cheap_grid"
<1> DEFINE p == o.prices
           cheap == {n \in DOMAIN p : /\ p[n].price # None /\ p[n].to > now
                                      /\ p[n].price <= c.cheap}
           First(n) == \A m \in cheap : \/ p[n].from < p[m].from
                                        \/ p[n].from = p[m].from /\ n <= m
           At(n) == Window("cheap_grid", p[n].from, p[n].to, 2)
<1>1. CheapGridWindow(o, c, now) = {At(n) : n \in {n \in cheap : First(n)}}
  BY Zenon DEF CheapGridWindow
<1>2. ASSUME NEW n \in cheap PROVE n \in Nat /\ p[n].from \in Int /\ p[n].to \in Int
  <2> DEFINE R == [from : Int, to : Int, price : T]
  <2>1. n \in DOMAIN p /\ p \in Seq(R)
    OBVIOUS
  <2> HIDE DEF R, p, cheap
  <2>2. n \in Nat /\ p[n] \in R
    BY <2>1, ElementOfSeq
  <2> QED
    BY <2>2 DEF R
<1> HIDE DEF cheap
<1>3. ASSUME NEW n \in cheap PROVE At(n) \in Windows /\ At(n).kind = "cheap_grid"
  BY <1>2 DEF Window, Windows
<1>4. ASSUME NEW n \in cheap, NEW m \in cheap, First(n), First(m) PROVE n = m
  BY <1>2, <1>4
<1> HIDE DEF First, At, p
<1> QED
  BY <1>1, <1>3, <1>4

LEMMA EarliestIsWindow ==
  ASSUME NEW windows, windows \subseteq Windows, windows # {},
         \A v, w \in windows : v.kind = w.kind => v = w
  PROVE  Earliest(windows) \in [kind : {"solar", "cheap_grid", "both"}, start : Int, end : Int,
                                confidence : {1, 2}]
<1> DEFINE First(w) == \A v \in windows \ {w} : Earlier(w, v)
           one == CHOOSE w \in windows : \A v \in windows \ {w} : Earlier(w, v)
           two == CHOOSE w \in windows \ {one} : TRUE
           both == Window("both", one.start, Max({one.end, two.end}),
                          Min({one.confidence, two.confidence}))
           overlap == windows # {one} /\ Max({one.start, two.start}) < Min({one.end, two.end})
<1>1. one \in windows
  <2> SUFFICES \E w \in windows : First(w)
    OBVIOUS
  <2>1. PICK w \in windows : TRUE
    OBVIOUS
  <2>2. CASE First(w)
    BY <2>2
  <2>3. CASE ~First(w)
    <3>1. PICK v \in windows \ {w} : ~Earlier(w, v)
      BY <2>3
    <3>2. /\ v \in Windows /\ w \in Windows /\ v.kind # w.kind
      BY <2>1, <3>1
    <3>3. \A u \in windows : u.kind \in {"solar", "cheap_grid"}
      BY DEF Windows
    <3>4. \A u \in windows : u \in {v, w}
      BY <3>1, <3>2, <3>3
    <3>5. /\ v.start \in Int /\ w.start \in Int
          /\ v.kind = "solar" \/ w.kind = "solar"
      BY <3>2 DEF Windows
    <3>6. Earlier(v, w)
      BY <3>1, <3>2, <3>5 DEF Earlier
    <3> QED
      BY <3>1, <3>4, <3>6
  <2> QED
    BY <2>2, <2>3
<1>2. windows # {one} => two \in windows
  BY <1>1
<1>3. Earliest(windows) = IF overlap THEN both ELSE one
  BY Zenon DEF Earliest
<1>4. overlap => windows # {one}
  OBVIOUS
<1> HIDE DEF one, two, overlap
<1>5. one \in [kind : {"solar", "cheap_grid", "both"}, start : Int, end : Int,
               confidence : {1, 2}]
  BY <1>1 DEF Windows
<1>6. ASSUME windows # {one}
      PROVE  both \in [kind : {"solar", "cheap_grid", "both"}, start : Int, end : Int,
                       confidence : {1, 2}]
  <2> DEFINE a == one.end
             b == two.end
             p == one.confidence
             q == two.confidence
  <2>0. one \in Windows /\ two \in Windows
    BY <1>1, <1>2, <1>6
  <2>1. /\ one.start \in Int /\ a \in Int /\ b \in Int
        /\ p \in {1, 2} /\ q \in {1, 2} /\ p \in Int /\ q \in Int
    BY <2>0 DEF Windows
  <2> HIDE DEF a, b, p, q
  <2>2. Max({a, b}) \in {a, b} /\ Min({p, q}) \in {p, q}
    BY <2>1, TwoInts
  <2>3. Max({a, b}) \in Int /\ Min({p, q}) \in {1, 2}
    BY <2>1, <2>2
  <2> QED
    BY <2>1, <2>3 DEF Window, a, b, p, q
<1> HIDE DEF both
<1> QED
  BY <1>3, <1>4, <1>5, <1>6

LEMMA NextIsOpportunity ==
  ASSUME NEW o, NEW c, NEW d, NEW t, Estimable(o, c, d, t), NEW now \in Int
  PROVE  /\ NextOpportunity(o, c, now) \in Opportunities
         /\ NextOpportunity(o, c, now).state = "inside_opportunity" =>
              NextOpportunity(o, c, now).start <= now /\ now < NextOpportunity(o, c, now).end
<1> DEFINE solar == SolarWindow(o, c, now)
           grid == CheapGridWindow(o, c, now)
           windows == {w \in solar \cup grid : w.start <= now + c.horizon}
           none == [kind |-> "overnight_reserve", start |-> now + c.horizon,
                    end |-> now + c.horizon, confidence |-> 0,
                    state |-> "waiting_for_next_opportunity"]
           next == NextOpportunity(o, c, now)
<1>1. /\ solar \subseteq Windows /\ grid \subseteq Windows
      /\ \A v, w \in solar : v = w
      /\ \A v, w \in grid : v = w
      /\ \A w \in solar : w.kind = "solar"
      /\ \A w \in grid : w.kind = "cheap_grid"
  BY SolarIsWindow, CheapIsWindow DEF Estimable
<1>2. c.horizon \in Nat
  BY DEF Estimable
<1>3. next = IF windows = {} THEN none ELSE Opportunity(Earliest(windows), now)
  BY Zenon DEF NextOpportunity
<1> SUFFICES /\ next \in Opportunities
             /\ next.state = "inside_opportunity" => next.start <= now /\ now < next.end
  OBVIOUS
<1> HIDE DEF solar, grid, next
<1>4. windows \subseteq Windows /\ \A v, w \in windows : v.kind = w.kind => v = w
  BY <1>1
<1> HIDE DEF windows
<1>5. ASSUME NEW v \in [kind : {"solar", "cheap_grid", "both"}, start : Int, end : Int,
                        confidence : {1, 2}]
      PROVE  /\ Opportunity(v, now) \in Opportunities
             /\ Opportunity(v, now).state = "inside_opportunity" =>
                  Opportunity(v, now).start <= now /\ now < Opportunity(v, now).end
  BY DEF Opportunity, Opportunities, StateAt
<1>6. none \in Opportunities /\ none.state # "inside_opportunity"
  BY <1>2 DEF Opportunities
<1> HIDE DEF none
<1>7. CASE windows = {}
  BY <1>3, <1>6, <1>7
<1>8. CASE windows # {}
  BY <1>3, <1>4, <1>5, <1>8, EarliestIsWindow
<1> QED
  BY <1>7, <1>8

----------------------------------------------------------------------------
(* Searches.                                                                *)

\* it is n steps from `first'.
Steps(it, first, step, n) ==
  /\ it[0] = first
  /\ \A k \in 1 .. n : it[k] = step[it[k - 1]]

\* A step that stays in a set can be repeated.
LEMMA StepsExist ==
  ASSUME NEW S, NEW first \in S, NEW step \in [S -> S], NEW n \in Nat
  PROVE  \E it \in [0 .. n -> S] : Steps(it, first, step, n)
<1> DEFINE So == {k \in Nat : \E it \in [0 .. k -> S] : Steps(it, first, step, k)}
<1>1. 0 \in So
  <2>1. [k \in 0 .. 0 |-> first] \in [0 .. 0 -> S]
    OBVIOUS
  <2>2. Steps([k \in 0 .. 0 |-> first], first, step, 0)
    BY DEF Steps
  <2> QED
    BY <2>1, <2>2
<1>2. \A k \in Nat : k \in So => k + 1 \in So
  <2> TAKE k \in Nat
  <2> HAVE k \in So
  <2>1. PICK it \in [0 .. k -> S] : Steps(it, first, step, k)
    BY Zenon
  <2> DEFINE jt == [m \in 0 .. k + 1 |-> IF m = k + 1 THEN step[it[k]] ELSE it[m]]
  <2>2. jt \in [0 .. k + 1 -> S]
    OBVIOUS
  <2>3. Steps(jt, first, step, k + 1)
    BY <2>1 DEF Steps
  <2>4. k + 1 \in Nat
    OBVIOUS
  <2> HIDE DEF jt
  <2> QED
    BY <2>2, <2>3, <2>4, Zenon
<1> QED
  <2> HIDE DEF So
  <2>1. n \in So
    BY <1>1, <1>2, SetInduction
  <2> QED
    BY <2>1 DEF So

\* What holds at first and is kept by each step holds after all of them.
LEMMA StepsStay ==
  ASSUME NEW S, NEW first \in S, NEW n \in Nat, NEW it, it[0] = first,
         \A k \in 1 .. n : it[k - 1] \in S => it[k] \in S
  PROVE  it[n] \in S
<1> DEFINE So == {k \in Nat : k <= n => it[k] \in S}
<1>1. 0 \in So
  OBVIOUS
<1>2. \A k \in Nat : k \in So => k + 1 \in So
  OBVIOUS
<1> QED
  <2> HIDE DEF So
  <2>1. n \in So
    BY <1>1, <1>2, SetInduction
  <2> QED
    BY <2>1 DEF So

\* Looks from a time on, which find nothing before it.
Looks(from) ==
  {s \in [cursor : Int, found : Opportunities \cup {None}] :
     s.cursor >= from /\ (s.found # None => s.found.start >= from)}

LEMMA LookStays ==
  ASSUME NEW o, NEW c, NEW d, NEW t, Estimable(o, c, d, t),
         NEW from \in Int, NEW s \in Looks(from)
  PROVE  Look(o, c, s) \in Looks(from)
<1> DEFINE next == NextOpportunity(o, c, s.cursor)
           later == Max({s.cursor, next.end})
<1>1. s.cursor \in Int /\ s.cursor >= from /\ s.found \in Opportunities \cup {None}
  BY DEF Looks
<1>2. next \in Opportunities
  BY <1>1, NextIsOpportunity
<1>3. next.start \in Int /\ next.end \in Int
  BY <1>2 DEF Opportunities
<1>4. later \in Int /\ later >= from
  <2> DEFINE a == s.cursor
             b == next.end
  <2>1. a \in Int /\ b \in Int /\ a >= from
    BY <1>1, <1>3
  <2> HIDE DEF a, b
  <2>2. Max({a, b}) \in {a, b} /\ Max({a, b}) >= a
    BY <2>1, TwoInts
  <2>3. Max({a, b}) \in Int /\ Max({a, b}) >= from
    BY <2>1, <2>2
  <2> QED
    BY <2>3 DEF a, b
<1>5. Look(o, c, s) = IF s.found # None THEN s
                      ELSE IF next.start >= s.cursor THEN [s EXCEPT !.found = next]
                      ELSE [s EXCEPT !.cursor = later]
  BY DEF Look
<1> HIDE DEF next, later
<1> QED
  BY <1>1, <1>2, <1>3, <1>4, <1>5 DEF Looks

\* The following opportunity starts no earlier than the candidate ends.
LEMMA FollowingIsLater ==
  ASSUME NEW o, NEW c, NEW d, NEW t, Estimable(o, c, d, t), NEW candidate \in Opportunities
  PROVE  /\ Following(o, c, candidate) \in Opportunities
         /\ Following(o, c, candidate).start >= candidate.end
<1> DEFINE from == candidate.end
           first == [cursor |-> candidate.end, found |-> None]
           Is(it) == it = [n \in 0 .. 8 |-> IF n = 0 THEN first ELSE Look(o, c, it[n - 1])]
           look == CHOOSE it : Is(it)
           step == [s \in Looks(from) |-> Look(o, c, s)]
           overnight == [kind |-> "overnight_reserve", start |-> look[8].cursor + c.horizon,
                         end |-> look[8].cursor + c.horizon, confidence |-> 0,
                         state |-> "waiting_for_next_opportunity"]
<1>1. from \in Int
  BY DEF Opportunities
<1>2. first \in Looks(from)
  BY <1>1 DEF Looks
<1>3. step \in [Looks(from) -> Looks(from)]
  BY <1>1, LookStays
<1>4. Is(look)
  <2>1. PICK it \in [0 .. 8 -> Looks(from)] : Steps(it, first, step, 8)
    <3> HIDE DEF step, first, from
    <3> QED
      BY <1>2, <1>3, StepsExist
  <2>2. \A n \in 0 .. 8 : it[n] = IF n = 0 THEN first ELSE Look(o, c, it[n - 1])
    <3> TAKE n \in 0 .. 8
    <3>1. CASE n = 0
      BY <2>1, <3>1 DEF Steps
    <3>2. CASE n # 0
      <4>1. n \in 1 .. 8 /\ n - 1 \in 0 .. 8
        BY <3>2
      <4>2. it[n - 1] \in Looks(from) /\ it[n] = step[it[n - 1]]
        BY <2>1, <4>1 DEF Steps
      <4> QED
        BY <3>2, <4>2
    <3> QED
      BY <3>1, <3>2
  <2>3. Is(it)
    <3> DEFINE e == [n \in 0 .. 8 |-> IF n = 0 THEN first ELSE Look(o, c, it[n - 1])]
    <3>1. it = [n \in 0 .. 8 |-> it[n]] /\ \A n \in 0 .. 8 : e[n] = it[n]
      BY <2>2
    <3>2. it = e
      <4> HIDE DEF first
      <4> QED
        BY <2>2, <3>1
    <3> QED
      BY <3>2
  <2> HIDE DEF Is
  <2> QED
    BY <2>3
<1>5. Following(o, c, candidate) = IF look[8].found # None THEN look[8].found ELSE overnight
  BY DEF Following
<1> HIDE DEF look
<1>6. \A n \in 0 .. 8 : look[n] = IF n = 0 THEN first ELSE Look(o, c, look[n - 1])
  <2> DEFINE e == [n \in 0 .. 8 |-> IF n = 0 THEN first ELSE Look(o, c, look[n - 1])]
  <2>1. look = e
    BY <1>4
  <2>2. \A n \in 0 .. 8 : e[n] = IF n = 0 THEN first ELSE Look(o, c, look[n - 1])
    OBVIOUS
  <2> QED
    BY <2>1, <2>2, Zenon
<1>7. look[8] \in Looks(from)
  <2>1. look[0] = first
    BY <1>6
  <2>2. \A k \in 1 .. 8 : look[k - 1] \in Looks(from) => look[k] \in Looks(from)
    <3> TAKE k \in 1 .. 8
    <3>1. k \in 0 .. 8 /\ k # 0
      OBVIOUS
    <3>2. look[k] = Look(o, c, look[k - 1])
      BY <1>6, <3>1
    <3> QED
      BY <1>1, <3>2, LookStays
  <2> HIDE DEF first, from
  <2> QED
    BY <1>2, <2>1, <2>2, StepsStay
<1>8. c.horizon \in Nat
  BY DEF Estimable
<1>9. overnight \in Opportunities /\ overnight.start >= from
  BY <1>1, <1>7, <1>8 DEF Opportunities, Looks
<1> HIDE DEF overnight
<1> QED
  BY <1>5, <1>7, <1>9 DEF Looks

----------------------------------------------------------------------------
(* The house and the sun.                                                   *)

LEMMA DemandIsNatural ==
  ASSUME NEW o, NEW c, NEW d, NEW t, Estimable(o, c, d, t), NEW from \in Int, NEW to \in Int
  PROVE  Demand(d, from, to) \in Nat
<1> DEFINE S == from .. (to - 1)
           At(x) == d.rate[x % Day]
           g == [x \in S |-> At(x)]
           Is(it) == it = [s \in SUBSET S |->
                       IF s = {} THEN 0
                       ELSE At(CHOOSE x \in s : TRUE) + it[s \ {CHOOSE x \in s : TRUE}]]
<1>1. IsFiniteSet(S)
  BY FS_Interval
<1>2. \A x \in S : g[x] = At(x) /\ g[x] \in Nat
  <2> TAKE x \in S
  <2>1. x % Day \in 0 .. Day - 1
    BY DEF Day
  <2>2. d.rate \in [0 .. Day - 1 -> Nat]
    BY DEF Estimable
  <2> QED
    BY <2>1, <2>2
<1>3. ASSUME NEW it PROVE Adds(it, g, S) <=> Is(it)
  <2> DEFINE a == [s \in SUBSET S |->
                     IF s = {} THEN 0
                     ELSE g[CHOOSE x \in s : TRUE] + it[s \ {CHOOSE x \in s : TRUE}]]
             b == [s \in SUBSET S |->
                     IF s = {} THEN 0
                     ELSE At(CHOOSE x \in s : TRUE) + it[s \ {CHOOSE x \in s : TRUE}]]
  <2>1. a = b
    <3>1. \A s \in SUBSET S : s # {} => (CHOOSE x \in s : TRUE) \in S
      OBVIOUS
    <3> HIDE DEF g, At
    <3> QED
      BY <1>2, <3>1
  <2> QED
    BY <2>1, Zenon DEF Adds
<1>4. PICK it : Adds(it, g, S)
  BY <1>1, SumExists
<1>5. Is(CHOOSE jt : Is(jt))
  <2> HIDE DEF Is, g
  <2> QED
    BY <1>3, <1>4
<1>6. Demand(d, from, to) = (CHOOSE jt : Is(jt))[S]
  BY DEF Demand, MapThenSumSet, MapThenFoldSet
<1> HIDE DEF Is, g
<1> QED
  BY <1>1, <1>2, <1>3, <1>5, <1>6, SumIsNumber

\* An opportunity as it was analysed.
Analyses ==
  [opportunity : Opportunities, solar : Nat \cup {None}, expected : Nat \cup {None},
   projected : Int \cup {None}, sufficient : {TRUE, FALSE, None}]

\* The solar energy of each.
Suns(list) == [n \in DOMAIN list |-> OrZero(list[n].solar)]

LEMMA SunIsTotal ==
  ASSUME NEW list \in Seq(Analyses)
  PROVE  /\ DOMAIN list = 1 .. Len(list) /\ Len(list) \in Nat
         /\ \A n \in DOMAIN list : Suns(list)[n] = OrZero(list[n].solar) /\ Suns(list)[n] \in Nat
         /\ Addable(Suns(list), DOMAIN list) /\ Sun(list) = Total(Suns(list), DOMAIN list)
<1> DEFINE S == DOMAIN list
           At(n) == OrZero(list[n].solar)
           g == Suns(list)
           Is(it) == it = [s \in SUBSET S |->
                       IF s = {} THEN 0
                       ELSE At(CHOOSE x \in s : TRUE) + it[s \ {CHOOSE x \in s : TRUE}]]
<1>0. DOMAIN list = 1 .. Len(list) /\ Len(list) \in Nat
  OBVIOUS
<1>1. IsFiniteSet(S)
  BY <1>0, FS_Interval
<1>2. \A n \in S : g[n] = At(n) /\ g[n] \in Nat
  <2> TAKE n \in S
  <2>1. list[n] \in Analyses
    BY ElementOfSeq
  <2>2. list[n].solar \in Nat \cup {None}
    BY <2>1 DEF Analyses
  <2> QED
    BY <2>2 DEF OrZero, Suns
<1>3. ASSUME NEW it PROVE Adds(it, g, S) <=> Is(it)
  <2> DEFINE a == [s \in SUBSET S |->
                     IF s = {} THEN 0
                     ELSE g[CHOOSE x \in s : TRUE] + it[s \ {CHOOSE x \in s : TRUE}]]
             b == [s \in SUBSET S |->
                     IF s = {} THEN 0
                     ELSE At(CHOOSE x \in s : TRUE) + it[s \ {CHOOSE x \in s : TRUE}]]
  <2>1. a = b
    <3>1. \A s \in SUBSET S : s # {} => (CHOOSE x \in s : TRUE) \in S
      OBVIOUS
    <3> HIDE DEF g, At
    <3> QED
      BY <1>2, <3>1
  <2> QED
    BY <2>1, Zenon DEF Adds
<1>4. PICK it : Adds(it, g, S)
  BY <1>1, SumExists
<1>5. Is(CHOOSE jt : Is(jt))
  <2> HIDE DEF Is, g
  <2> QED
    BY <1>3, <1>4
<1>6. Sun(list) = (CHOOSE jt : Is(jt))[S]
  BY DEF Sun, MapThenSumSet, MapThenFoldSet
<1>7. Addable(g, S)
  BY <1>1, <1>2 DEF Addable
<1>8. Sun(list) = Total(g, S)
  <2> HIDE DEF Is, g, S
  <2> QED
    BY <1>3, <1>5, <1>6, <1>7, TotalIsSum
<1> QED
  BY <1>0, <1>2, <1>7, <1>8

LEMMA SunOfNone == Sun(<<>>) = 0
<1>1. <<>> \in Seq(Analyses) /\ DOMAIN <<>> = {}
  OBVIOUS
<1>2. Addable(Suns(<<>>), DOMAIN <<>>) /\ Sun(<<>>) = Total(Suns(<<>>), DOMAIN <<>>)
  BY <1>1, SunIsTotal
<1> QED
  BY <1>1, <1>2, TotalSplits

\* The sum over the first k of a sequence is that over the same k of a longer one.
LEMMA SunOfAppended ==
  ASSUME NEW list \in Seq(Analyses), NEW a \in Analyses
  PROVE  /\ Append(list, a) \in Seq(Analyses)
         /\ Sun(Append(list, a)) = Sun(list) + OrZero(a.solar)
<1> DEFINE b == Append(list, a)
           n == Len(list)
<1>1. /\ b \in Seq(Analyses) /\ DOMAIN b = 1 .. n + 1 /\ b[n + 1] = a
      /\ \A k \in 1 .. n : b[k] = list[k]
  OBVIOUS
<1> HIDE DEF b
<1>2. /\ DOMAIN list = 1 .. n /\ n \in Nat /\ Addable(Suns(list), 1 .. n)
      /\ Sun(list) = Total(Suns(list), 1 .. n)
      /\ \A k \in 1 .. n : Suns(list)[k] = OrZero(list[k].solar)
  BY SunIsTotal
<1>3. /\ Addable(Suns(b), 1 .. n + 1) /\ Sun(b) = Total(Suns(b), 1 .. n + 1)
      /\ \A k \in 1 .. n + 1 : Suns(b)[k] = OrZero(b[k].solar)
  BY <1>1, SunIsTotal
<1>4. n + 1 \in 1 .. n + 1 /\ (1 .. n + 1) \ {n + 1} = 1 .. n /\ 1 .. n \subseteq 1 .. n + 1
  BY <1>2
<1>5. Total(Suns(b), 1 .. n + 1) = Suns(b)[n + 1] + Total(Suns(b), 1 .. n)
  BY <1>3, <1>4, TotalSplits
<1>6. Addable(Suns(b), 1 .. n)
  BY <1>3, <1>4, FS_Subset DEF Addable
<1>7. \A k \in 1 .. n : Suns(b)[k] = Suns(list)[k]
  BY <1>1, <1>2, <1>3, <1>4
<1>8. Total(Suns(b), 1 .. n) = Total(Suns(list), 1 .. n) /\ Total(Suns(list), 1 .. n) \in Int
  BY <1>2, <1>6, <1>7, TotalsAgree, TotalSplits
<1>9. Suns(b)[n + 1] = OrZero(a.solar) /\ Suns(b)[n + 1] \in Int
  BY <1>1, <1>3, <1>4 DEF Addable
<1> QED
  BY <1>1, <1>2, <1>3, <1>5, <1>8, <1>9 DEF b

LEMMA SunOfFollowed ==
  ASSUME NEW list \in Seq(Analyses), NEW a \in Analyses
  PROVE  /\ <<a>> \o list \in Seq(Analyses)
         /\ Sun(<<a>> \o list) = OrZero(a.solar) + Sun(list)
<1> DEFINE b == <<a>> \o list
           n == Len(list)
<1>1. /\ b \in Seq(Analyses) /\ DOMAIN b = 1 .. n + 1 /\ b[1] = a
      /\ \A k \in 1 .. n : b[k + 1] = list[k]
  OBVIOUS
<1> HIDE DEF b
<1>2. /\ DOMAIN list = 1 .. n /\ n \in Nat /\ Addable(Suns(list), 1 .. n)
      /\ Sun(list) = Total(Suns(list), 1 .. n)
      /\ \A k \in 1 .. n : Suns(list)[k] = OrZero(list[k].solar) /\ Suns(list)[k] \in Nat
  BY SunIsTotal
<1>3. /\ Addable(Suns(b), 1 .. n + 1) /\ Sun(b) = Total(Suns(b), 1 .. n + 1)
      /\ \A k \in 1 .. n + 1 : Suns(b)[k] = OrZero(b[k].solar) /\ Suns(b)[k] \in Nat
  BY <1>1, SunIsTotal
<1> DEFINE first == Suns(b)[1]
           Holds(k) == Total(Suns(b), 1 .. k + 1) = first + Total(Suns(list), 1 .. k)
           So == {k \in Nat : k <= n => Holds(k)}
<1>4. first \in Nat /\ first = OrZero(a.solar)
  BY <1>1, <1>2, <1>3
<1>5. \A k \in Nat : k <= n => Addable(Suns(b), 1 .. k + 1) /\ Addable(Suns(list), 1 .. k)
  <2> TAKE k \in Nat
  <2> HAVE k <= n
  <2>1. 1 .. k + 1 \subseteq 1 .. n + 1 /\ 1 .. k \subseteq 1 .. n
    BY <1>2
  <2> QED
    BY <1>2, <1>3, <2>1, FS_Subset DEF Addable
<1> HIDE DEF first
<1>6. 0 \in So
  <2>1. 1 .. 0 = {} /\ 1 .. 0 + 1 = {1} /\ {1} \ {1} = {} /\ 1 \in {1}
    OBVIOUS
  <2>a. Addable(Suns(b), 1 .. 0 + 1) /\ Addable(Suns(list), 1 .. 0)
    <3>1. 0 <= n
      BY <1>2
    <3> QED
      BY <1>5, <3>1
  <2>2. Addable(Suns(b), {1}) /\ Addable(Suns(list), {})
    BY <2>1, <2>a
  <2>3. Total(Suns(b), {1}) = Suns(b)[1] + Total(Suns(b), {}) /\ Total(Suns(b), {}) = 0
    BY <2>1, <2>2, TotalSplits
  <2>4. Total(Suns(list), {}) = 0
    BY <2>2, TotalSplits
  <2>5. Holds(0)
    BY <1>4, <2>1, <2>3, <2>4 DEF first
  <2> QED
    BY <2>5
<1>7. \A k \in Nat : k \in So => k + 1 \in So
  <2> TAKE k \in Nat
  <2> HAVE k \in So
  <2> SUFFICES ASSUME k + 1 <= n PROVE Holds(k + 1)
    <3> HIDE DEF Holds
    <3> QED
      OBVIOUS
  <2>1. Holds(k)
    <3> HIDE DEF Holds
    <3>1. k <= n
      BY <1>2
    <3> QED
      BY <3>1
  <2> DEFINE m == k + 1
             p == m + 1
  <2>2. /\ m \in Nat /\ m <= n /\ m \in 1 .. m /\ p \in 1 .. p /\ m \in 1 .. n /\ p \in 1 .. n + 1
        /\ (1 .. p) \ {p} = 1 .. m /\ (1 .. m) \ {m} = 1 .. k
    BY <1>2
  <2>3. Addable(Suns(b), 1 .. p) /\ Addable(Suns(list), 1 .. m)
    BY <1>5, <2>2
  <2>4. b[p] = list[m]
    BY <1>1, <2>2
  <2> HIDE DEF m, p
  <2>5. Total(Suns(b), 1 .. p) = Suns(b)[p] + Total(Suns(b), 1 .. m)
    <3>0. p \in 1 .. p /\ Addable(Suns(b), 1 .. p)
      BY <2>2, <2>3
    <3>1. Total(Suns(b), 1 .. p) = Suns(b)[p] + Total(Suns(b), (1 .. p) \ {p})
      BY <3>0, TotalSplits, Zenon
    <3> QED
      BY <2>2, <3>1
  <2>6. Total(Suns(list), 1 .. m) = Suns(list)[m] + Total(Suns(list), 1 .. k)
    <3>1. Total(Suns(list), 1 .. m) = Suns(list)[m] + Total(Suns(list), (1 .. m) \ {m})
      BY <2>2, <2>3, TotalSplits, Zenon
    <3> QED
      BY <2>2, <3>1
  <2>7. Suns(b)[p] = Suns(list)[m] /\ Suns(list)[m] \in Int
    BY <1>2, <1>3, <2>2, <2>4
  <2>8. Total(Suns(list), 1 .. k) \in Int
    <3>1. k <= n
      BY <1>2
    <3> QED
      BY <1>5, <3>1, TotalSplits
  <2>9. Total(Suns(b), 1 .. m) = first + Total(Suns(list), 1 .. k)
    BY <2>1 DEF m
  <2>10. Total(Suns(b), 1 .. p) = first + Total(Suns(list), 1 .. m)
    BY <1>4, <2>5, <2>6, <2>7, <2>8, <2>9
  <2> QED
    BY <2>10 DEF p, m
<1>8. Holds(n)
  <2> HIDE DEF Holds
  <2>1. n \in So
    <3> HIDE DEF So
    <3> QED
      BY <1>2, <1>6, <1>7, SetInduction
  <2> QED
    BY <1>2, <2>1
<1> QED
  BY <1>1, <1>2, <1>3, <1>4, <1>8 DEF b

----------------------------------------------------------------------------
(* One opportunity, and the search for a sufficient one.                    *)

LEMMA FloorIsNumber ==
  ASSUME NEW o, NEW c, NEW d, NEW t, Estimable(o, c, d, t)
  PROVE  Floor(c) \in Int
<1> DEFINE a == c.technical
           b == c.emergency
<1>1. a \in Int /\ b \in Int
  BY DEF Estimable
<1> HIDE DEF a, b
<1>2. Max({a, b}) \in {a, b}
  BY <1>1, TwoInts
<1>3. Max({a, b}) \in Int
  BY <1>1, <1>2
<1> QED
  BY <1>3 DEF Floor, a, b

LEMMA BufferIsNumber ==
  ASSUME NEW o, NEW c, NEW d, NEW t, Estimable(o, c, d, t), NEW e \in Nat, NEW factor \in Nat
  PROVE  Uncertainty(e, factor, c) \in Nat
<1>1. c.ratio \in Nat
  BY DEF Estimable
<1>2. e * c.ratio \in Nat
  BY <1>1, Product
<1>3. (e * c.ratio) * factor \in Nat
  BY <1>2, Product
<1>4. \A x \in Nat : x \div 16 \in Nat
  OBVIOUS
<1> QED
  BY <1>3, <1>4 DEF Uncertainty

\* A quotient of naturals is one, and at most the dividend.
LEMMA QuotientIsNatural ==
  ASSUME NEW a \in Nat, NEW n \in Nat \ {0}
  PROVE  a \div n \in Nat /\ a \div n <= a
<1>1. a \div n \in Nat /\ (a \div n) * n <= a
  OBVIOUS
<1> DEFINE q == a \div n
<1> HIDE DEF q
<1>2. q \in Nat /\ q * n <= a
  BY <1>1 DEF q
<1>3. q <= q * n
  BY <1>2
<1>4. q * n \in Int
  BY <1>2
<1>5. q <= a
  BY <1>2, <1>3, <1>4
<1> QED
  BY <1>1, <1>5 DEF q

\* What an opportunity is expected to bring is what its sun leaves the house.
LEMMA ReplenishmentIsSun ==
  ASSUME NEW o, NEW c, NEW d, NEW t, Estimable(o, c, d, t),
         NEW solar \in Nat, NEW active \in Nat, NEW ticks \in Nat, NEW energy \in Int \cup {None}
  PROVE  /\ Replenishment(solar, active, ticks, energy, c) \in Nat
         /\ Replenishment(solar, active, ticks, energy, c) <= Positive(solar - active)
<1> DEFINE p == Positive(solar - active)
           x == p \div c.loss
           y == (c.charge * ticks) \div c.loss
           z == IF energy = None THEN solar ELSE Positive(c.capacity - energy)
<1>1. c.loss \in Nat \ {0} /\ c.charge \in Nat /\ c.capacity \in Int
  BY DEF Estimable
<1>2. p \in Nat
  BY DEF Positive
<1>3. x \in Nat /\ x <= p
  <2> HIDE DEF p
  <2> QED
    BY <1>1, <1>2, QuotientIsNatural
<1>4. y \in Nat
  <2>1. c.charge * ticks \in Nat
    BY <1>1, Product
  <2> QED
    BY <1>1, <2>1, QuotientIsNatural
<1>5. z \in Nat
  BY <1>1 DEF Positive
<1>6. Replenishment(solar, active, ticks, energy, c) = Min({x, y, z})
  BY DEF Replenishment
<1> HIDE DEF p, x, y, z
<1>7. Min({x, y, z}) \in Nat /\ Min({x, y, z}) <= x
  BY <1>3, <1>4, <1>5, LeastOfThree
<1> QED
  BY <1>2, <1>3, <1>6, <1>7 DEF p

\* An analysis: what the house does not take of its sun is all that it counts on.
Accounts(a, opportunity, active) ==
  /\ a \in Analyses /\ a.opportunity = opportunity
  /\ active - Positive(active - OrZero(a.solar)) + OrZero(a.expected) <= OrZero(a.solar)
  /\ OrZero(a.expected) <= OrZero(a.solar)
  /\ a.sufficient = TRUE => a.expected # None

LEMMA AnalysisIsCovered ==
  ASSUME NEW o, NEW c, NEW d, NEW t, Estimable(o, c, d, t),
         NEW opportunity \in Opportunities, NEW time \in Int, NEW active \in Nat,
         NEW future \in Nat, NEW energy \in Int \cup {None}, NEW uncertainty \in Nat
  PROVE  Accounts(Analysis(o, c, opportunity, time, active, future, energy, uncertainty),
                  opportunity, active)
<1> DEFINE a == Analysis(o, c, opportunity, time, active, future, energy, uncertainty)
           late == Max({opportunity.start, time})
           ticks == Positive(opportunity.end - late)
           solar == ConservativeSolar(o, opportunity)
           expected == IF opportunity.kind = "cheap_grid" THEN 0
                       ELSE IF solar = None THEN None
                       ELSE Replenishment(solar, active, ticks, energy, c)
           deficit == Positive(active - OrZero(solar))
           after == energy - deficit + OrZero(expected)
           projected == IF energy = None THEN None
                        ELSE Positive(Min({after, c.capacity}))
           sufficient == IF expected = None THEN None
                         ELSE expected >= future + o.ev + uncertainty
<1>0. SUFFICES Accounts(a, opportunity, active)
  OBVIOUS
<1>1. opportunity.start \in Int /\ opportunity.end \in Int
  BY DEF Opportunities
<1>2. ticks \in Nat
  <2> DEFINE b == opportunity.start
  <2>1. b \in Int
    BY <1>1
  <2> HIDE DEF b
  <2>2. Max({b, time}) \in {b, time}
    BY <2>1, TwoInts
  <2>3. Max({b, time}) \in Int
    BY <2>1, <2>2
  <2>4. late \in Int
    BY <2>3 DEF b
  <2> HIDE DEF late
  <2> QED
    BY <1>1, <2>4 DEF Positive
<1>3. solar \in Nat \cup {None} /\ (opportunity.kind = "cheap_grid" => solar = None)
  BY DEF ConservativeSolar, Positive, Estimable
<1> HIDE DEF ticks, solar
<1>4. solar # None /\ opportunity.kind # "cheap_grid" =>
        /\ Replenishment(solar, active, ticks, energy, c) \in Nat
        /\ Replenishment(solar, active, ticks, energy, c) <= Positive(solar - active)
  BY <1>2, <1>3, ReplenishmentIsSun
<1>5. /\ expected \in Nat \cup {None} /\ OrZero(expected) \in Nat /\ OrZero(solar) \in Nat
      /\ OrZero(expected) <= Positive(OrZero(solar) - active)
  BY <1>3, <1>4 DEF OrZero, Positive
<1> HIDE DEF expected
<1>6. projected \in Int \cup {None}
  <2> SUFFICES ASSUME energy # None PROVE projected \in Int
    OBVIOUS
  <2>1. deficit \in Nat
    BY <1>5 DEF Positive
  <2>2. after \in Int
    <3> HIDE DEF deficit
    <3> QED
      BY <1>5, <2>1
  <2> DEFINE b == c.capacity
  <2>3. b \in Int
    BY DEF Estimable
  <2> HIDE DEF after, b
  <2>4. Min({after, b}) \in {after, b}
    BY <2>2, <2>3, TwoInts
  <2>5. Min({after, b}) \in Int
    BY <2>2, <2>3, <2>4
  <2> QED
    BY <2>5 DEF b, Positive
<1>7. /\ sufficient \in {TRUE, FALSE, None}
      /\ sufficient = TRUE => expected # None
  <2>1. (expected >= future + o.ev + uncertainty) \in BOOLEAN
    OBVIOUS
  <2> DEFINE enough == expected >= future + o.ev + uncertainty
  <2>2. sufficient = IF expected = None THEN None ELSE enough
    OBVIOUS
  <2> HIDE DEF enough
  <2> QED
    BY <2>1, <2>2, NoneAssumption, Zenon DEF enough
<1>8. a = [opportunity |-> opportunity, solar |-> solar, expected |-> expected,
           projected |-> projected, sufficient |-> sufficient]
  BY Zenon DEF Analysis, expected, ticks, solar
<1> HIDE DEF a, projected, sufficient
<1>9. a \in Analyses
  BY <1>3, <1>5, <1>6, <1>7, <1>8 DEF Analyses
<1>10. /\ OrZero(expected) <= OrZero(solar)
       /\ active - Positive(active - OrZero(solar)) + OrZero(expected) <= OrZero(solar)
  BY <1>5 DEF Positive
<1> QED
  BY <1>7, <1>8, <1>9, <1>10 DEF Accounts

\* Opportunities that follow one another from a time on, and start before another.
Follows(list, from, until) ==
  /\ \A n \in DOMAIN list : /\ list[n].opportunity.start >= from
                             /\ list[n].opportunity.start < until
  /\ \A n \in 2 .. Len(list) :
       list[n - 1].opportunity.end <= list[n].opportunity.start

\* All of them end before a time.
EndBy(list, time) == \A n \in DOMAIN list : list[n].opportunity.end <= time

LEMMA FollowsLonger ==
  ASSUME NEW list \in Seq(Analyses), NEW a \in Analyses, NEW from \in Int, NEW until \in Int,
         Follows(list, from, until), EndBy(list, a.opportunity.start),
         a.opportunity.start >= from, a.opportunity.start < until,
         a.opportunity.start < a.opportunity.end
  PROVE  /\ Follows(Append(list, a), from, until)
         /\ EndBy(Append(list, a), a.opportunity.end)
<1> DEFINE b == Append(list, a)
           n == Len(list)
<1>1. /\ n \in Nat /\ DOMAIN list = 1 .. n /\ DOMAIN b = 1 .. n + 1 /\ Len(b) = n + 1
      /\ b[n + 1] = a /\ \A k \in 1 .. n : b[k] = list[k]
  OBVIOUS
<1> HIDE DEF b, n
<1>2. \A k \in 1 .. n : list[k].opportunity.end \in Int
  <2> TAKE k \in 1 .. n
  <2>1. list[k] \in Analyses
    BY <1>1, ElementOfSeq
  <2> QED
    BY <2>1 DEF Analyses, Opportunities
<1>3. a.opportunity.start \in Int /\ a.opportunity.end \in Int
  BY DEF Analyses, Opportunities
<1>4. ASSUME NEW k \in 1 .. n + 1
      PROVE  /\ b[k].opportunity.start >= from /\ b[k].opportunity.start < until
             /\ b[k].opportunity.end <= a.opportunity.end
  <2>1. CASE k = n + 1
    BY <1>1, <1>3, <2>1
  <2>2. CASE k # n + 1
    <3>1. k \in 1 .. n
      BY <1>1, <2>2
    <3>2. list[k].opportunity.end <= a.opportunity.start
      BY <1>1, <3>1 DEF EndBy
    <3>3. list[k].opportunity.start >= from /\ list[k].opportunity.start < until
      BY <1>1, <3>1 DEF Follows
    <3> QED
      BY <1>1, <1>2, <1>3, <3>1, <3>2, <3>3
  <2> QED
    BY <2>1, <2>2
<1>5. ASSUME NEW k \in 2 .. n + 1
      PROVE  b[k - 1].opportunity.end <= b[k].opportunity.start
  <2>1. CASE k = n + 1
    <3>1. k - 1 \in 1 .. n
      BY <1>1, <2>1
    <3> QED
      BY <1>1, <2>1, <3>1 DEF EndBy
  <2>2. CASE k # n + 1
    <3>1. k \in 2 .. n /\ k \in 1 .. n /\ k - 1 \in 1 .. n
      BY <1>1, <2>2
    <3>2. list[k - 1].opportunity.end <= list[k].opportunity.start
      BY <3>1 DEF Follows, n
    <3> QED
      BY <1>1, <3>1, <3>2
  <2> QED
    BY <2>1, <2>2
<1> QED
  BY <1>1, <1>4, <1>5 DEF Follows, EndBy, b

Searches(from, until) ==
  {s \in [candidate : Opportunities, cursor : Int, projected : Int \cup {None},
          analyses : Seq(Analyses), skipped : Nat, boundary : Opportunities \cup {None},
          done : BOOLEAN] :
     /\ s.skipped <= Sun(s.analyses)
     /\ Follows(s.analyses, from, until)
     /\ s.candidate.start >= from
     /\ ~s.done => EndBy(s.analyses, s.candidate.start)}

LEMMA ConsiderStays ==
  ASSUME NEW o, NEW c, NEW d, NEW t, Estimable(o, c, d, t),
         NEW from \in Int, NEW until \in Int, NEW s \in Searches(from, until)
  PROVE  Consider(o, c, d, until, s) \in Searches(from, until)
<1> DEFINE candidate == s.candidate
           following == Following(o, c, candidate)
           entered == IF s.projected = None THEN None
                      ELSE Positive(s.projected - Demand(d, s.cursor, candidate.start))
           end == Min({candidate.end, until})
           bound == Min({following.start, until})
           active == Demand(d, candidate.start, end)
           future == Demand(d, end, bound)
           buffer == Uncertainty(active + future, 7, c)
           analysis == Analysis(o, c, candidate, candidate.start, active, future, entered, buffer)
           analyses == Append(s.analyses, analysis)
           stop == \/ s.done \/ candidate.kind = "overnight_reserve"
                   \/ candidate.start >= until \/ candidate.end <= candidate.start
           last == following.start <= candidate.end
           more == s.skipped + OrZero(analysis.expected)
           next == Consider(o, c, d, until, s)
<1>1. /\ candidate \in Opportunities /\ s.cursor \in Int /\ s.projected \in Int \cup {None}
      /\ s.analyses \in Seq(Analyses) /\ s.skipped \in Nat
      /\ s.boundary \in Opportunities \cup {None} /\ s.done \in BOOLEAN
      /\ s.skipped <= Sun(s.analyses) /\ Follows(s.analyses, from, until)
      /\ candidate.start >= from
      /\ ~s.done => EndBy(s.analyses, candidate.start)
  BY DEF Searches
<1>2. candidate.start \in Int /\ candidate.end \in Int
  BY <1>1 DEF Opportunities
<1>3. /\ following \in Opportunities /\ following.start \in Int
      /\ following.start >= candidate.end
  <2>1. following \in Opportunities /\ following.start >= candidate.end
    BY <1>1, FollowingIsLater
  <2> QED
    BY <2>1 DEF Opportunities
<1>4. end \in Int /\ bound \in Int
  <2> DEFINE a == candidate.end
             b == following.start
  <2>1. a \in Int /\ b \in Int
    BY <1>2, <1>3
  <2> HIDE DEF a, b
  <2>2. Min({a, until}) \in {a, until} /\ Min({b, until}) \in {b, until}
    BY <2>1, TwoInts
  <2>3. Min({a, until}) \in Int /\ Min({b, until}) \in Int
    BY <2>1, <2>2
  <2> QED
    BY <2>3 DEF a, b
<1>5. /\ active \in Nat /\ future \in Nat
      /\ Demand(d, s.cursor, candidate.start) \in Nat
  <2> HIDE DEF end, bound, candidate
  <2> QED
    BY <1>1, <1>2, <1>4, DemandIsNatural
<1>6. entered \in Int \cup {None}
  <2> HIDE DEF candidate
  <2> QED
    BY <1>1, <1>5 DEF Positive
<1>7. buffer \in Nat
  <2>1. active + future \in Nat
    BY <1>5
  <2> HIDE DEF active, future
  <2> QED
    BY <2>1, BufferIsNumber
<1> HIDE DEF candidate, following, entered, end, bound, active, future, buffer
<1>8. /\ analysis \in Analyses /\ analysis.opportunity = candidate
      /\ OrZero(analysis.expected) <= OrZero(analysis.solar)
  <2>1. /\ candidate \in Opportunities /\ candidate.start \in Int /\ active \in Nat
        /\ future \in Nat /\ entered \in Int \cup {None} /\ buffer \in Nat
    BY <1>1, <1>2, <1>5, <1>6, <1>7
  <2> DEFINE time == candidate.start
  <2>2. time \in Int
    BY <2>1
  <2>3. analysis = Analysis(o, c, candidate, time, active, future, entered, buffer)
    OBVIOUS
  <2> HIDE DEF analysis, time
  <2> QED
    <3>1. Accounts(Analysis(o, c, candidate, time, active, future, entered, buffer),
                   candidate, active)
      BY <2>1, <2>2, AnalysisIsCovered
    <3>2. Accounts(analysis, candidate, active)
      BY <2>3, <3>1
    <3> QED
      BY <3>2 DEF Accounts
<1> DEFINE found == [s EXCEPT !.done = TRUE, !.boundary = candidate, !.analyses = analyses]
           passed == [s EXCEPT !.done = last, !.analyses = analyses, !.skipped = more,
                               !.projected = analysis.projected, !.cursor = candidate.end,
                               !.candidate = following]
<1>9. next = IF stop THEN [s EXCEPT !.done = TRUE]
             ELSE IF analysis.sufficient = TRUE THEN found ELSE passed
  BY Zenon DEF Consider, candidate, following, entered, end, bound, active, future, buffer
<1>10. [s EXCEPT !.done = TRUE] \in Searches(from, until)
  BY <1>1 DEF Searches, candidate
<1>11. ASSUME ~stop PROVE found \in Searches(from, until) /\ passed \in Searches(from, until)
  <2>1. /\ ~s.done /\ candidate.start < until /\ candidate.start < candidate.end
    BY <1>2, <1>11
  <2>2. /\ analysis.expected \in Nat \cup {None} /\ analysis.solar \in Nat \cup {None}
        /\ analysis.projected \in Int \cup {None}
    BY <1>8 DEF Analyses
  <2> HIDE DEF analysis
  <2>3. analyses \in Seq(Analyses) /\ Sun(analyses) = Sun(s.analyses) + OrZero(analysis.solar)
    BY <1>1, <1>8, SunOfAppended
  <2>4. /\ Follows(analyses, from, until) /\ EndBy(analyses, candidate.end)
    <3>1. EndBy(s.analyses, analysis.opportunity.start)
      BY <1>1, <1>8, <2>1
    <3> QED
      BY <1>1, <1>8, <2>1, <3>1, FollowsLonger
  <2>5. Sun(s.analyses) \in Int
    BY <1>1, SunIsTotal, TotalSplits
  <2>6. /\ more \in Nat /\ more <= Sun(analyses) /\ s.skipped <= Sun(analyses)
    BY <1>1, <1>8, <2>2, <2>3, <2>5 DEF OrZero
  <2>7. EndBy(analyses, following.start)
    <3>1. \A n \in DOMAIN analyses : analyses[n].opportunity.end \in Int
      <4> TAKE n \in DOMAIN analyses
      <4>1. analyses[n] \in Analyses
        BY <2>3, ElementOfSeq
      <4> QED
        BY <4>1 DEF Analyses, Opportunities
    <3> HIDE DEF analyses
    <3> QED
      BY <1>2, <1>3, <2>4, <3>1 DEF EndBy
  <2>8. last \in BOOLEAN
    OBVIOUS
  <2>9. following.start >= from
    BY <1>1, <1>2, <1>3, <2>1
  <2> HIDE DEF analyses, more, last
  <2>10. found \in Searches(from, until)
    <3>1. /\ found.candidate = candidate /\ found.cursor = s.cursor
          /\ found.projected = s.projected /\ found.analyses = analyses
          /\ found.skipped = s.skipped /\ found.boundary = candidate /\ found.done = TRUE
          /\ found \in [candidate : Opportunities, cursor : Int, projected : Int \cup {None},
                        analyses : Seq(Analyses), skipped : Nat,
                        boundary : Opportunities \cup {None}, done : BOOLEAN]
      BY <1>1, <2>3 DEF Searches, candidate
    <3> HIDE DEF found
    <3> QED
      BY <1>1, <2>4, <2>6, <3>1 DEF Searches
  <2>11. passed \in Searches(from, until)
    <3>1. /\ passed.candidate = following /\ passed.analyses = analyses
          /\ passed.skipped = more
          /\ passed \in [candidate : Opportunities, cursor : Int, projected : Int \cup {None},
                        analyses : Seq(Analyses), skipped : Nat,
                        boundary : Opportunities \cup {None}, done : BOOLEAN]
      BY <1>1, <1>2, <1>3, <2>2, <2>3, <2>6, <2>8 DEF Searches
    <3> HIDE DEF passed
    <3> QED
      BY <2>4, <2>6, <2>7, <2>9, <3>1 DEF Searches
  <2> QED
    BY <2>10, <2>11
<1> HIDE DEF next, stop, found, passed, analysis
<1> QED
  BY <1>9, <1>10, <1>11 DEF next

LEMMA UpcomingStays ==
  ASSUME NEW o, NEW c, NEW d, NEW t, Estimable(o, c, d, t),
         NEW first \in Opportunities, NEW now \in Int, NEW energy \in Int \cup {None},
         NEW until \in Int, NEW from \in Int, first.start >= from
  PROVE  Upcoming(o, c, d, first, now, energy, until) \in Searches(from, until)
<1> DEFINE S == Searches(from, until)
           begin == [candidate |-> first, cursor |-> now, projected |-> energy,
                     analyses |-> <<>>, skipped |-> 0, boundary |-> None, done |-> FALSE]
           Is(it) == it = [n \in 0 .. 32 |-> IF n = 0 THEN begin
                                             ELSE Consider(o, c, d, until, it[n - 1])]
           search == CHOOSE it : Is(it)
           step == [s \in S |-> Consider(o, c, d, until, s)]
<1>1. begin \in S
  <2>1. Follows(<<>>, from, until) /\ EndBy(<<>>, first.start) /\ <<>> \in Seq(Analyses)
    BY DEF Follows, EndBy
  <2> QED
    BY <2>1, SunOfNone DEF Searches
<1>2. step \in [S -> S]
  BY ConsiderStays
<1> HIDE DEF S, begin
<1>3. Is(search)
  <2>1. PICK it \in [0 .. 32 -> S] : Steps(it, begin, step, 32)
    <3> HIDE DEF step
    <3> QED
      BY <1>1, <1>2, StepsExist
  <2>2. \A n \in 0 .. 32 : it[n] = IF n = 0 THEN begin ELSE Consider(o, c, d, until, it[n - 1])
    <3> TAKE n \in 0 .. 32
    <3>1. CASE n = 0
      BY <2>1, <3>1 DEF Steps
    <3>2. CASE n # 0
      <4>1. n \in 1 .. 32 /\ n - 1 \in 0 .. 32
        BY <3>2
      <4>2. it[n - 1] \in S /\ it[n] = step[it[n - 1]]
        BY <2>1, <4>1 DEF Steps
      <4> QED
        BY <3>2, <4>2
    <3> QED
      BY <3>1, <3>2
  <2>3. Is(it)
    <3> DEFINE e == [n \in 0 .. 32 |-> IF n = 0 THEN begin
                                       ELSE Consider(o, c, d, until, it[n - 1])]
    <3>1. it = [n \in 0 .. 32 |-> it[n]] /\ \A n \in 0 .. 32 : e[n] = it[n]
      BY <2>2
    <3>2. it = e
      BY <2>2, <3>1
    <3> QED
      BY <3>2
  <2> HIDE DEF Is
  <2> QED
    BY <2>3
<1>4. Upcoming(o, c, d, first, now, energy, until) = search[32]
  BY DEF Upcoming, begin
<1> HIDE DEF search
<1>5. \A n \in 0 .. 32 : search[n] = IF n = 0 THEN begin
                                      ELSE Consider(o, c, d, until, search[n - 1])
  <2> DEFINE e == [n \in 0 .. 32 |-> IF n = 0 THEN begin
                                     ELSE Consider(o, c, d, until, search[n - 1])]
  <2>1. search = e
    BY <1>3
  <2>2. \A n \in 0 .. 32 : e[n] = IF n = 0 THEN begin
                                   ELSE Consider(o, c, d, until, search[n - 1])
    OBVIOUS
  <2> QED
    BY <2>1, <2>2, Zenon
<1>6. search[32] \in S
  <2>1. search[0] = begin
    BY <1>5
  <2>2. \A k \in 1 .. 32 : search[k - 1] \in S => search[k] \in S
    <3> TAKE k \in 1 .. 32
    <3>1. k \in 0 .. 32 /\ k # 0
      OBVIOUS
    <3>2. search[k] = Consider(o, c, d, until, search[k - 1])
      BY <1>5, <3>1
    <3> QED
      BY <3>2, ConsiderStays DEF S
  <2> QED
    BY <1>1, <2>1, <2>2, StepsStay
<1> QED
  BY <1>4, <1>6 DEF S

LEMMA FactorIsNumber == \A x : Factor[Rating(x)] \in Nat
<1>1. /\ Factor["low"] = 7 /\ Factor["medium_low"] = 6 /\ Factor["medium"] = 5
      /\ Factor["high"] = 4
  BY DEF Factor
<1>2. \A x : Rating(x) \in {"low", "medium_low", "medium", "high"}
  BY DEF Rating
<1> HIDE DEF Factor
<1> QED
  BY <1>1, <1>2

\* The reserve of what is gross, and what is beyond the capacity.
LEMMA ReserveIsGross ==
  ASSUME NEW capacity \in Int, NEW floor \in Int, NEW need \in Int
  PROVE  LET gross == Max({floor, need})
             reserve == Min({capacity, gross})
         IN  /\ gross \in Int /\ gross >= need
             /\ reserve \in Min({capacity, floor}) .. capacity
             /\ reserve + Positive(gross - capacity) = gross
<1> DEFINE gross == Max({floor, need})
           reserve == Min({capacity, gross})
           least == Min({capacity, floor})
<1>1. gross \in Int /\ gross >= need /\ gross >= floor
  <2>1. gross \in {floor, need} /\ gross >= need /\ gross >= floor
    BY TwoInts
  <2> HIDE DEF gross
  <2> QED
    BY <2>1
<1> HIDE DEF gross
<1>2. reserve \in {capacity, gross} /\ reserve <= capacity /\ reserve <= gross
  BY <1>1, TwoInts
<1>3. least \in {capacity, floor} /\ least <= capacity /\ least <= floor
  BY TwoInts
<1> HIDE DEF reserve, least
<1>4. reserve \in least .. capacity
  BY <1>1, <1>2, <1>3
<1>5. reserve + Positive(gross - capacity) = gross
  BY <1>1, <1>2 DEF Positive
<1> QED
  BY <1>1, <1>4, <1>5 DEF gross, reserve, least

\* What a search for an opportunity ends with.
Ends(s, from, until) ==
  /\ s.analyses \in Seq(Analyses) /\ s.skipped \in Nat
  /\ s.boundary \in Opportunities \cup {None}
  /\ s.skipped <= Sun(s.analyses) /\ Follows(s.analyses, from, until)

LEMMA SearchEnds ==
  ASSUME NEW from, NEW until, NEW s \in Searches(from, until)
  PROVE  Ends(s, from, until)
BY DEF Searches, Ends

LEMMA NoSearchEnds ==
  ASSUME NEW from, NEW until, NEW boundary \in Opportunities \cup {None}
  PROVE  Ends(NoSearch(boundary), from, until)
BY SunOfNone DEF NoSearch, Ends, Follows

LEMMA UntilIsNumber ==
  ASSUME NEW from, NEW until \in Int, NEW s, Ends(s, from, until)
  PROVE  Until(s, until) \in Int
<1>1. s.boundary # None => s.boundary.start \in Int
  BY DEF Ends, Opportunities
<1> QED
  BY <1>1 DEF Until

\* Whatever the observation, the forecast and the limits, the reserve lies between
\* the safety floor and the capacity, the opportunities it was planned over follow
\* one another inside the horizon, and the sun they were analysed with pays for all
\* that the reserve leaves uncovered of the house, the vehicle and the buffer.
THEOREM EstimateIsCovered ==
  ASSUME NEW o, NEW c, NEW d, NEW now, Estimable(o, c, d, now)
  PROVE  Covered(o, c, d, now)
<1> DEFINE until == now + c.horizon
           found == NextOpportunity(o, c, now)
           inside == found.state = "inside_opportunity"
           doubtful == inside /\ found.kind \in {"solar", "both"} /\ o.remaining10 = None
           opportunity == IF doubtful THEN [found EXCEPT !.confidence = 0] ELSE found
           next == NextOpportunity(o, c, opportunity.end)
           ahead == IF opportunity.state = "before_opportunity"
                    THEN Upcoming(o, c, d, opportunity, now, o.energy, until)
                    ELSE NoSearch(IF inside THEN opportunity ELSE None)
           factor == Factor[Rating(OverallScore(o, d, opportunity))]
           active == Demand(d, now, opportunity.end)
           first == IF inside THEN next.start ELSE Until(ahead, until)
           future == Demand(d, opportunity.end, next.start)
           margin == Uncertainty(Demand(d, now, first), factor, c)
           analysis == Analysis(o, c, opportunity, now, active, future, o.energy, margin)
           enough == inside /\ analysis.sufficient = TRUE
           search == IF ~inside THEN ahead
                     ELSE IF enough THEN NoSearch(opportunity)
                     ELSE Upcoming(o, c, d, next, opportunity.end, analysis.projected,
                                   until)
           end == IF enough THEN first ELSE Until(search, until)
           demand == Demand(d, now, end)
           house == IF inside THEN active ELSE demand
           known == IF inside THEN OrZero(analysis.solar) ELSE 0
           skipped == search.skipped
                      + (IF inside /\ ~enough THEN OrZero(analysis.expected) ELSE 0)
           buffer == Uncertainty(demand, factor, c)
           due == IF enough THEN analysis.expected ELSE 0
           gross == Gross(o, c, Positive(house - known), demand - house, buffer, due, skipped)
           reserve == Min({c.capacity, gross})
           analyses == (IF inside THEN <<analysis>> ELSE <<>>) \o search.analyses
           tradable == IF search.boundary = None THEN None
                       ELSE Positive(OrZero(o.energy) - reserve)
           late == inside /\ next.start < opportunity.end
           e == [end |-> end, demand |-> demand, opportunity |-> opportunity,
                 boundary |-> search.boundary, skipped |-> skipped, analyses |-> analyses,
                 reserve |-> reserve, buffer |-> buffer,
                 unmet |-> Positive(gross - c.capacity), tradable |-> tradable]
<1>1. Estimate(o, c, d, now) = IF late THEN None ELSE e
  BY Zenon DEF Estimate
<1>2. /\ now \in Int /\ until \in Int /\ now < until /\ c.capacity \in Int /\ o.ev \in Int
      /\ o.energy \in Int \cup {None} /\ Floor(c) \in Int
  <2>1. Floor(c) \in Int
    BY FloorIsNumber
  <2>2. /\ now \in Int /\ c.horizon \in Nat \ {0} /\ c.capacity \in Int /\ o.ev \in Int
        /\ o.energy \in Int \cup {None}
    BY DEF Estimable
  <2> QED
    BY <2>1, <2>2
<1>3. /\ found \in Opportunities /\ inside \in BOOLEAN
      /\ inside => found.start <= now /\ now < found.end
  BY <1>2, NextIsOpportunity
<1> HIDE DEF until, found
<1>4. /\ opportunity \in Opportunities
      /\ inside => opportunity.start <= now /\ now < opportunity.end
  <2> DEFINE other == [found EXCEPT !.confidence = 0]
  <2>1. other \in Opportunities /\ other.start = found.start /\ other.end = found.end
    BY <1>3 DEF Opportunities
  <2> HIDE DEF inside, doubtful, other
  <2>2. opportunity = IF doubtful THEN other ELSE found
    BY DEF other
  <2> HIDE DEF opportunity
  <2> QED
    BY <1>3, <2>1, <2>2
<1> HIDE DEF inside, doubtful, opportunity
<1>5. opportunity.start \in Int /\ opportunity.end \in Int
  BY <1>4 DEF Opportunities
<1>6. next \in Opportunities /\ next.start \in Int
  <2>1. next \in Opportunities
    BY <1>5, NextIsOpportunity
  <2> QED
    BY <2>1 DEF Opportunities
<1> HIDE DEF next
<1>7. Ends(ahead, opportunity.start, until)
  <2>1. CASE opportunity.state = "before_opportunity"
    <3> DEFINE energy == o.energy
               a == opportunity.start
    <3>1. ahead = Upcoming(o, c, d, opportunity, now, energy, until)
      BY <2>1
    <3>2. energy \in Int \cup {None} /\ a \in Int /\ opportunity.start >= a
      BY <1>2, <1>5
    <3> HIDE DEF energy, ahead, a
    <3>3. ahead \in Searches(a, until)
      BY <1>2, <1>4, <3>1, <3>2, UpcomingStays
    <3> QED
      BY <3>3, SearchEnds DEF a
  <2>2. CASE opportunity.state # "before_opportunity"
    <3> DEFINE boundary == IF inside THEN opportunity ELSE None
    <3>1. boundary \in Opportunities \cup {None} /\ ahead = NoSearch(boundary)
      BY <1>4, <2>2
    <3> HIDE DEF ahead, boundary
    <3> QED
      BY <3>1, NoSearchEnds
  <2> QED
    BY <2>1, <2>2
<1>8. first \in Int
  <2> HIDE DEF ahead
  <2>1. Until(ahead, until) \in Int
    BY <1>2, <1>7, UntilIsNumber
  <2> QED
    BY <1>6, <2>1
<1> HIDE DEF ahead, first
<1>9. factor \in Nat /\ active \in Nat /\ future \in Nat
  <2>1. \A x : Factor[Rating(x)] \in Nat
    BY FactorIsNumber
  <2>2. factor \in Nat
    BY <2>1
  <2> HIDE DEF factor
  <2> DEFINE a == opportunity.end
             b == next.start
  <2>3. a \in Int /\ b \in Int
    BY <1>5, <1>6
  <2> HIDE DEF a, b
  <2>4. Demand(d, now, a) \in Nat /\ Demand(d, a, b) \in Nat
    BY <1>2, <2>3, DemandIsNatural
  <2> QED
    BY <2>2, <2>4 DEF a, b
<1> HIDE DEF factor, active, future
<1>10. margin \in Nat
  <2>1. Demand(d, now, first) \in Nat
    BY <1>2, <1>8, DemandIsNatural
  <2> QED
    BY <1>9, <2>1, BufferIsNumber
<1> HIDE DEF margin
<1>11. /\ analysis \in Analyses /\ analysis.opportunity = opportunity
       /\ active - Positive(active - OrZero(analysis.solar)) + OrZero(analysis.expected)
            <= OrZero(analysis.solar)
       /\ OrZero(analysis.expected) <= OrZero(analysis.solar)
       /\ analysis.sufficient = TRUE => analysis.expected # None
  <2> DEFINE energy == o.energy
  <2>1. energy \in Int \cup {None}
    BY <1>2
  <2>2. analysis = Analysis(o, c, opportunity, now, active, future, energy, margin)
    OBVIOUS
  <2> HIDE DEF analysis, energy
  <2> QED
    <3>1. Accounts(Analysis(o, c, opportunity, now, active, future, energy, margin),
                   opportunity, active)
      BY <1>2, <1>4, <1>9, <1>10, <2>1, AnalysisIsCovered
    <3>2. Accounts(analysis, opportunity, active)
      BY <2>2, <3>1
    <3> QED
      BY <3>2 DEF Accounts
<1> HIDE DEF analysis
<1>12. /\ analysis.solar \in Nat \cup {None} /\ analysis.expected \in Nat \cup {None}
       /\ analysis.projected \in Int \cup {None}
  BY <1>11 DEF Analyses
<1>13. SUFFICES ASSUME ~late PROVE Covered(o, c, d, now)
  <2>1. late => Estimate(o, c, d, now) = None
    <3> HIDE DEF e, late
    <3> QED
      BY <1>1
  <2> HIDE DEF late, e
  <2> QED
    BY <2>1 DEF Covered
<1> DEFINE from == IF inside THEN opportunity.end ELSE opportunity.start
<1>14. Ends(search, from, until)
  <2>1. CASE ~inside
    BY <1>7, <2>1
  <2>2. CASE enough
    <3>1. Ends(NoSearch(opportunity), from, until)
      BY <1>4, NoSearchEnds
    <3> QED
      BY <2>2, <3>1
  <2>3. CASE inside /\ ~enough
    <3> DEFINE a == opportunity.end
               projected == analysis.projected
               more == Upcoming(o, c, d, next, a, projected, until)
    <3>1. a \in Int /\ projected \in Int \cup {None} /\ next.start >= a
      BY <1>5, <1>6, <1>12, <1>13, <2>3
    <3>2. more \in Searches(a, until)
      <4> HIDE DEF a, projected
      <4> QED
        BY <1>2, <1>6, <3>1, UpcomingStays
    <3>3. search = more /\ from = a
      <4> HIDE DEF enough
      <4> QED
        BY <2>3
    <3> HIDE DEF search, from, a, more
    <3> QED
      BY <3>2, <3>3, SearchEnds
  <2> QED
    BY <2>1, <2>2, <2>3
<1> HIDE DEF search
<1>15. end \in Int /\ demand \in Nat /\ house \in Nat /\ buffer \in Nat
  <2>1. Until(search, until) \in Int
    <3> HIDE DEF from
    <3> QED
      BY <1>2, <1>14, UntilIsNumber
  <2>2. end \in Int
    <3> HIDE DEF enough
    <3> QED
      BY <1>8, <2>1
  <2> HIDE DEF end
  <2>3. demand \in Nat
    BY <1>2, <2>2, DemandIsNatural
  <2> HIDE DEF demand
  <2>4. house \in Nat
    BY <1>9, <2>3
  <2>5. buffer \in Nat
    BY <1>9, <2>3, BufferIsNumber
  <2> QED
    BY <2>2, <2>3, <2>4, <2>5
<1> HIDE DEF end, demand, buffer
<1>16. /\ analyses \in Seq(Analyses) /\ known \in Nat
       /\ Sun(analyses) \in Int /\ Sun(analyses) = known + Sun(search.analyses)
  <2> DEFINE list == search.analyses
  <2>1. list \in Seq(Analyses)
    BY <1>14 DEF Ends
  <2> HIDE DEF list
  <2>2. known \in Nat
    BY <1>12 DEF OrZero
  <2>3. Sun(list) \in Int
    BY <2>1, SunIsTotal, TotalSplits
  <2>4. CASE inside
    <3>1. /\ <<analysis>> \o list \in Seq(Analyses)
          /\ Sun(<<analysis>> \o list) = OrZero(analysis.solar) + Sun(list)
      BY <1>11, <2>1, SunOfFollowed
    <3>2. analyses = <<analysis>> \o list /\ known = OrZero(analysis.solar)
      BY <2>4 DEF list
    <3> HIDE DEF analyses, known
    <3> QED
      BY <2>2, <2>3, <3>1, <3>2 DEF list
  <2>5. CASE ~inside
    <3>1. <<>> \o list = list
      BY <2>1
    <3>2. analyses = <<>> \o list /\ known = 0
      BY <2>5 DEF list
    <3> HIDE DEF analyses, known
    <3> QED
      BY <2>1, <2>3, <3>1, <3>2 DEF list
  <2> QED
    BY <2>4, <2>5
<1> HIDE DEF analyses
<1>17. due \in Nat /\ skipped \in Nat
  <2>1. search.skipped \in Nat
    BY <1>14 DEF Ends
  <2>2. OrZero(analysis.expected) \in Nat
    BY <1>12 DEF OrZero
  <2>3. enough => analysis.expected \in Nat
    BY <1>11, <1>12
  <2> HIDE DEF enough
  <2> QED
    BY <2>1, <2>2, <2>3
<1>18. house - Positive(house - known) + due + skipped <= Sun(analyses)
  <2>1. search.skipped \in Nat /\ search.skipped <= Sun(search.analyses)
    BY <1>14 DEF Ends
  <2>2. Sun(search.analyses) \in Int
    BY <1>14, SunIsTotal, TotalSplits DEF Ends
  <2>3. CASE ~inside
    <3>1. house = demand /\ known = 0 /\ due = 0 /\ skipped = search.skipped
      BY <2>1, <2>3
    <3> HIDE DEF house, known, due, skipped
    <3>2. Positive(house - known) = house
      BY <1>15, <3>1 DEF Positive
    <3> QED
      BY <1>15, <1>16, <2>1, <2>2, <3>1, <3>2
  <2>4. CASE inside
    <3>1. house = active /\ known = OrZero(analysis.solar)
      BY <2>4
    <3>2. due + skipped = search.skipped + OrZero(analysis.expected)
      <4>1. CASE enough
        <5>1. due = analysis.expected /\ skipped = search.skipped + 0
          BY <4>1
        <5>2. OrZero(analysis.expected) = analysis.expected
          BY <1>11, <4>1 DEF OrZero
        <5> HIDE DEF due, skipped
        <5> QED
          BY <1>17, <2>1, <5>1, <5>2
      <4>2. CASE ~enough
        <5>1. due = 0 /\ skipped = search.skipped + OrZero(analysis.expected)
          <6> HIDE DEF enough
          <6> QED
            BY <2>4, <4>2
        <5> HIDE DEF due, skipped
        <5> QED
          BY <1>17, <5>1
      <4> QED
        BY <4>1, <4>2
    <3> DEFINE a == OrZero(analysis.solar)
               b == OrZero(analysis.expected)
    <3>3. a \in Nat /\ b \in Nat /\ active - Positive(active - a) + b <= a
      BY <1>11, <1>12 DEF OrZero
    <3>4. house = active /\ known = a /\ due + skipped = search.skipped + b
      BY <3>1, <3>2
    <3> HIDE DEF a, b, house, known, due, skipped
    <3>5. Positive(active - a) \in Nat
      BY <1>9, <3>3 DEF Positive
    <3> QED
      BY <1>9, <1>16, <1>17, <2>1, <2>2, <3>3, <3>4, <3>5
  <2> QED
    BY <2>3, <2>4
<1>19. /\ \A n \in DOMAIN analyses : analyses[n].opportunity.start < until
       /\ \A n \in 2 .. Len(analyses) :
            analyses[n - 1].opportunity.end <= analyses[n].opportunity.start
  <2> DEFINE list == search.analyses
             size == Len(list)
  <2>1. list \in Seq(Analyses) /\ Follows(list, from, until)
    BY <1>14 DEF Ends
  <2> HIDE DEF list
  <2>2. size \in Nat /\ DOMAIN list = 1 .. size
    BY <2>1
  <2>3. CASE ~inside
    <3>1. analyses = list
      BY <2>1, <2>3 DEF analyses, list
    <3> QED
      BY <2>1, <3>1 DEF Follows
  <2>4. CASE inside
    <3>1. analyses = <<analysis>> \o list
      BY <2>4 DEF analyses, list
    <3>2. /\ DOMAIN analyses = 1 .. size + 1 /\ Len(analyses) = size + 1
          /\ analyses[1] = analysis /\ \A k \in 1 .. size : analyses[k + 1] = list[k]
      BY <2>1, <3>1
    <3> HIDE DEF size
    <3>3. \A k \in 1 .. size : list[k].opportunity.start \in Int /\ list[k] \in Analyses
      <4> TAKE k \in 1 .. size
      <4>1. list[k] \in Analyses
        BY <2>1, <2>2, ElementOfSeq
      <4> QED
        BY <4>1 DEF Analyses, Opportunities
    <3>4. ASSUME NEW n \in 1 .. size + 1 PROVE analyses[n].opportunity.start < until
      <4>1. CASE n = 1
        BY <1>2, <1>4, <1>5, <1>11, <2>4, <3>2, <4>1
      <4>2. CASE n # 1
        <5>1. n - 1 \in 1 .. size /\ (n - 1) + 1 = n
          BY <2>2, <4>2
        <5>2. list[n - 1].opportunity.start < until /\ analyses[n] = list[n - 1]
          <6>1. analyses[(n - 1) + 1] = list[n - 1]
            BY <3>2, <5>1
          <6> QED
            BY <2>1, <2>2, <5>1, <6>1 DEF Follows
        <5> QED
          BY <5>2
      <4> QED
        BY <4>1, <4>2
    <3>5. ASSUME NEW n \in 2 .. size + 1
          PROVE  analyses[n - 1].opportunity.end <= analyses[n].opportunity.start
      <4> DEFINE k == n - 1
      <4>1. k \in 1 .. size /\ k + 1 = n
        BY <2>2
      <4>2. analyses[n] = list[k]
        <5>1. analyses[k + 1] = list[k]
          BY <3>2, <4>1
        <5> QED
          BY <4>1, <5>1
      <4>3. CASE k = 1
        <5>1. list[1].opportunity.start >= opportunity.end
          BY <2>1, <2>2, <2>4, <4>1, <4>3 DEF Follows
        <5> HIDE DEF k
        <5> QED
          BY <1>5, <1>11, <3>2, <3>3, <4>1, <4>2, <4>3, <5>1 DEF k
      <4>4. CASE k # 1
        <5> DEFINE m == k - 1
        <5>1. m \in 1 .. size /\ m + 1 = k /\ k \in 2 .. size
          BY <2>2, <4>1, <4>4
        <5>2. analyses[k] = list[m]
          <6>1. analyses[m + 1] = list[m]
            BY <3>2, <5>1
          <6> QED
            BY <5>1, <6>1
        <5>3. list[k - 1].opportunity.end <= list[k].opportunity.start
          <6> HIDE DEF k
          <6> QED
            BY <2>1, <5>1 DEF Follows, size
        <5> QED
          BY <4>2, <5>2, <5>3
      <4> QED
        BY <4>3, <4>4
    <3> QED
      BY <3>2, <3>4, <3>5
  <2> QED
    BY <2>3, <2>4
<1>20. /\ reserve \in Min({c.capacity, Floor(c)}) .. c.capacity
       /\ reserve + Positive(gross - c.capacity) + Sun(analyses)
            >= Floor(c) + demand + o.ev + buffer
  <2> DEFINE floor == Floor(c)
             capacity == c.capacity
             ev == o.ev
             net == Positive(house - known)
             need == floor + net + (demand - house) + ev + buffer - due - skipped
             most == Max({floor, need})
             kept == Min({capacity, most})
             sun == Sun(analyses)
  <2>1. gross = most
    BY Zenon DEF Gross
  <2>2. net \in Nat
    BY <1>15, <1>16 DEF Positive
  <2>3. /\ floor \in Int /\ capacity \in Int /\ ev \in Int /\ sun \in Int
        /\ house - net + due + skipped <= sun
    BY <1>2, <1>16, <1>18
  <2> HIDE DEF floor, capacity, ev, net, sun, due, skipped, house, known
  <2>4. need \in Int /\ need + sun >= floor + demand + ev + buffer
    BY <1>15, <1>17, <2>2, <2>3
  <2> HIDE DEF need
  <2>5. /\ most \in Int /\ most >= need
        /\ kept \in Min({capacity, floor}) .. capacity
        /\ kept + Positive(most - capacity) = most
    BY <2>3, <2>4, ReserveIsGross
  <2>6. most + sun >= floor + demand + ev + buffer
    <3> HIDE DEF most
    <3> QED
      BY <1>15, <2>3, <2>4, <2>5
  <2>7. reserve = kept /\ gross = most
    BY <2>1 DEF capacity
  <2> HIDE DEF most, kept, gross, reserve
  <2>8. kept + Positive(most - capacity) + sun >= floor + demand + ev + buffer
    BY <2>5, <2>6
  <2> QED
    BY <2>5, <2>7, <2>8 DEF floor, capacity, ev, sun
<1>21. /\ e.reserve = reserve /\ e.unmet = Positive(gross - c.capacity)
       /\ e.analyses = analyses /\ e.demand = demand /\ e.buffer = buffer
  <2> HIDE DEF reserve, gross, tradable
  <2> QED
    OBVIOUS
<1>22. Estimate(o, c, d, now) = e
  <2> HIDE DEF e, late
  <2> QED
    BY <1>1, <1>13
<1> HIDE DEF e, reserve, gross
<1> QED
  BY <1>19, <1>20, <1>21, <1>22 DEF Covered, until
=============================================================================
