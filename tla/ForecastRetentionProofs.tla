------------------------ MODULE ForecastRetentionProofs ------------------------
(***************************************************************************)
(* IInv is an invariant of ForecastRetention, for any number of days, slots,*)
(* tools and batches, and with it the properties the run retention checks.  *)
(***************************************************************************)
EXTENDS ForecastRetention, FiniteSetTheorems, WellFoundedInduction, TLAPS

-----------------------------------------------------------------------------
(* Dates.                                                                  *)

LEMMA Quotient ==
  ASSUME NEW a \in Nat, NEW n \in Nat \ {0}
  PROVE  a \div n \in Nat /\ n * (a \div n) <= a /\ a < n * (a \div n) + n
  OBVIOUS

\* The quotient is the only number with this remainder.
LEMMA QuotientIs ==
  ASSUME NEW a \in Nat, NEW n \in Nat \ {0}, NEW q \in Int, n * q <= a
  PROVE  q <= a \div n
<1>1. a \div n \in Nat /\ a < n * (a \div n + 1)
  BY Quotient
<1>2. n * q < n * (a \div n + 1)
  BY <1>1
<1>3. SUFFICES ASSUME q >= a \div n + 1 PROVE FALSE
  BY <1>1
<1>4. PICK k \in Nat : q = (a \div n + 1) + k
  BY <1>1, <1>3
<1>5. n * q = n * (a \div n + 1) + n * k
  BY <1>1, <1>4
<1>6. n * k \in Nat
  BY <1>4
<1>7. QED
  BY <1>1, <1>2, <1>5, <1>6

LEMMA Later ==
  ASSUME NEW a \in Nat, NEW b \in Nat, NEW n \in Nat \ {0}, NEW k \in Nat, a + k * n <= b
  PROVE  (a \div n) + k <= b \div n
<1>1. a \div n \in Nat /\ n * (a \div n) <= a
  BY Quotient
<1>2. n * ((a \div n) + k) = n * (a \div n) + k * n
  BY <1>1
<1>3. k * n \in Nat /\ n * (a \div n) \in Nat
  BY <1>1
<1>4. n * ((a \div n) + k) <= b
  BY <1>1, <1>2, <1>3
<1>5. QED
  BY <1>1, <1>4, QuotientIs

LEMMA Soon ==
  ASSUME NEW a \in Nat, NEW n \in Nat \ {0}
  PROVE  (a + 1) \div n <= (a \div n) + 1
<1>1. /\ a \div n \in Nat /\ a < n * (a \div n) + n
      /\ (a + 1) \div n \in Nat /\ n * ((a + 1) \div n) <= a + 1
  BY Quotient
<1>2. n * (a \div n) + n = n * (a \div n + 1)
  BY <1>1
<1>3. SUFFICES ASSUME (a + 1) \div n >= (a \div n) + 2 PROVE FALSE
  BY <1>1
<1>4. PICK k \in Nat : (a + 1) \div n = (a \div n + 1) + (1 + k)
  BY <1>1, <1>3
<1>5. n * ((a + 1) \div n) = n * (a \div n + 1) + n * (1 + k)
  BY <1>1, <1>4
<1>6. n * (1 + k) = n + n * k /\ n * k \in Nat
  BY <1>4
<1>7. n * (a \div n + 1) \in Nat /\ n * ((a + 1) \div n) \in Nat
  BY <1>1
<1>8. QED
  BY <1>1, <1>2, <1>5, <1>6, <1>7

LEMMA Below ==
  ASSUME NEW a \in Nat, NEW n \in Nat \ {0}, NEW k \in Nat, a < n * (k + 1)
  PROVE  a \div n <= k
<1>1. a \div n \in Nat /\ n * (a \div n) <= a
  BY Quotient
<1>2. SUFFICES ASSUME a \div n >= k + 1 PROVE FALSE
  BY <1>1
<1>3. PICK j \in Nat : a \div n = (k + 1) + j
  BY <1>1, <1>2
<1>4. n * (a \div n) = n * (k + 1) + n * j /\ n * j \in Nat /\ n * (k + 1) \in Nat
  BY <1>1, <1>3
<1>5. QED
  BY <1>1, <1>4

LEMMA Parameters ==
  /\ Days \in Nat \ {0} /\ Slots \in Nat \ {0} /\ Window \in Nat \ {0} /\ Keep \in Nat \ {0}
  /\ RunKeep \in Nat \ {0} /\ DetailBatch \in Nat \ {0} /\ MaxBatches \in Nat \ {0}
  /\ Offset \in 0 .. Slots /\ Window + 1 < Keep
  /\ Days * Slots \in Nat \ {0} /\ Keep * Slots \in Nat /\ Keep * Slots >= 3
<1>1. Days \in Nat \ {0} /\ Slots \in Nat \ {0} /\ Window \in Nat \ {0} /\ Keep \in Nat \ {0}
  BY RetentionAssumption
<1>2. Keep >= 3 /\ Slots >= 1
  BY RetentionAssumption, <1>1
<1>3. PICK k \in Nat, l \in Nat : Keep = 3 + k /\ Slots = 1 + l
  BY <1>1, <1>2
<1>4. Keep * Slots = 3 + k + 3 * l + k * l /\ k * l \in Nat
  BY <1>3
<1>5. Days * Slots \in Nat \ {0}
  BY <1>1
<1>6. QED
  BY <1>1, <1>4, <1>5, RetentionAssumption

LEMMA DatesOfSlots ==
  /\ \A t \in 0 .. Days * Slots : Date(t) \in Dates
  /\ \A t \in Now : UtcDate(t) \in Dates
<1>1. ASSUME NEW t \in 0 .. Days * Slots PROVE Date(t) \in Dates
  <2>1. t < Slots * (Days + 1)
    <3>1. Slots * (Days + 1) = Days * Slots + Slots
      BY Parameters
    <3>2. QED
      BY <3>1, Parameters
  <2>2. QED
    BY <2>1, Parameters, Below, Quotient DEF Date, Dates
<1>2. ASSUME NEW t \in Now PROVE UtcDate(t) \in Dates
  <2>1. t + Slots - Offset \in Nat /\ t + Slots - Offset < Days * Slots + Slots
    BY Parameters DEF Now
  <2>2. Slots * (Days + 1) = Days * Slots + Slots
    BY Parameters
  <2>3. QED
    BY <2>1, <2>2, Parameters, Below, Quotient DEF UtcDate, Dates
<1>3. QED
  BY <1>1, <1>2

\* An earlier slot is of an earlier date, or of the same.
LEMMA DatesInOrder ==
  ASSUME NEW s \in Nat, NEW t \in Nat
  PROVE  /\ Date(s) \in Nat
         /\ s <= t => Date(s) <= Date(t)
         /\ t <= s + 1 => Date(t) <= Date(s) + 1
         /\ s <= t - Keep * Slots => Date(s) + Keep <= Date(t)
<1>1. Date(s) \in Nat
  BY Quotient, Parameters DEF Date
<1>2. ASSUME s <= t PROVE Date(s) <= Date(t)
  <2>1. s + 0 * Slots <= t
    BY <1>2, Parameters
  <2>2. (s \div Slots) + 0 <= t \div Slots
    BY <2>1, Later, Parameters
  <2>3. QED
    BY <2>2, Quotient, Parameters DEF Date
<1>3. ASSUME t <= s + 1 PROVE Date(t) <= Date(s) + 1
  <2>1. CASE t = s + 1
    BY <2>1, Soon, Parameters DEF Date
  <2>2. CASE t <= s
    <3>1. t + 0 * Slots <= s
      BY <2>2, Parameters
    <3>2. (t \div Slots) + 0 <= s \div Slots
      BY <3>1, Later, Parameters
    <3>3. QED
      BY <3>2, Quotient, Parameters DEF Date
  <2>3. QED
    BY <1>3, <2>1, <2>2
<1>4. ASSUME s <= t - Keep * Slots PROVE Date(s) + Keep <= Date(t)
  BY <1>4, Later, Parameters DEF Date
<1>5. QED
  BY <1>1, <1>2, <1>3, <1>4

-----------------------------------------------------------------------------
(* Sets of points and of dates.                                            *)

LEMMA PointsAreFinite == IsFiniteSet(Points)
<1>1. IsFiniteSet(0 .. Days * Slots)
  BY FS_Interval, Parameters
<1>2. IsFiniteSet({"near"}) /\ IsFiniteSet({"far"})
  BY FS_Singleton
<1>3. Horizons = {"near"} \cup {"far"}
  BY DEF Horizons
<1>4. IsFiniteSet(Horizons)
  BY <1>2, <1>3, FS_Union
<1>5. QED
  BY <1>1, <1>4, FS_Product DEF Points

\* Before is a strict order: of two points one comes first, and with it fewer others.
LEMMA OrderOfPoints ==
  ASSUME NEW p \in Points, NEW q \in Points
  PROVE  /\ ~Before(p, p)
         /\ p # q => Before(p, q) \/ Before(q, p)
         /\ \A r \in Points : Before(r, p) /\ Before(p, q) => Before(r, q)
<1>1. \A r \in Points : r[1] \in Int /\ r[2] \in {"near", "far"} /\ r = <<r[1], r[2]>>
  BY Parameters DEF Points, Horizons
<1>2. QED
  BY <1>1 DEF Before, Target

LEMMA OldestIsSmall ==
  ASSUME NEW S \in SUBSET Points, NEW n \in Nat
  PROVE  /\ Oldest(S, n) \subseteq S
         /\ IsFiniteSet(Oldest(S, n))
         /\ Cardinality(Oldest(S, n)) \in Nat
         /\ Cardinality(Oldest(S, n)) <= n
<1> DEFINE O == Oldest(S, n)
           Preds(p) == {q \in S : Before(q, p)}
           f == [p \in O |-> Cardinality(Preds(p))]
<1>1. O \subseteq S
  BY DEF Oldest
<1>2. IsFiniteSet(S) /\ IsFiniteSet(O)
  BY <1>1, PointsAreFinite, FS_Subset
<1>3. \A p \in S : IsFiniteSet(Preds(p)) /\ Cardinality(Preds(p)) \in Nat
  BY <1>2, FS_Subset, FS_CardinalityType
<1>4. \A p \in O : f[p] \in 0 .. n - 1
  <2>1. \A p \in O : Cardinality(Preds(p)) < n
    BY DEF Oldest
  <2>2. QED
    BY <1>1, <1>3, <2>1
<1>5. ASSUME NEW p \in O, NEW q \in O, Before(p, q) PROVE f[p] # f[q]
  <2>1. Preds(p) \subseteq Preds(q) /\ p \in Preds(q) /\ p \notin Preds(p)
    BY <1>1, <1>5, OrderOfPoints
  <2>2. Cardinality(Preds(p)) # Cardinality(Preds(q))
    BY <1>1, <1>3, <2>1, FS_Subset
  <2>3. QED
    BY <2>2
<1>6. \A p, q \in O : f[p] = f[q] => p = q
  <2>1. SUFFICES ASSUME NEW p \in O, NEW q \in O, f[p] = f[q], p # q PROVE FALSE
    OBVIOUS
  <2>2. Before(p, q) \/ Before(q, p)
    BY <1>1, <2>1, OrderOfPoints
  <2>3. QED
    BY <1>5, <2>1, <2>2
<1>7. f \in Injection(O, 0 .. n - 1)
  BY <1>4, <1>6 DEF Injection, IsInjective
<1>8. IsFiniteSet(0 .. n - 1) /\ Cardinality(0 .. n - 1) = n
  BY FS_Interval
<1>9. Cardinality(O) <= n
  BY <1>7, <1>8, FS_Injection
<1>10. QED
  BY <1>1, <1>2, <1>9, FS_CardinalityType

LEMMA GreatestOf ==
  ASSUME NEW n \in Nat, NEW S \in SUBSET (-1 .. n), S # {}
  PROVE  Max(S) \in S
<1> DEFINE A == -1 .. n
           T == {x .. n : x \in S}
           R == StrictSubsetOrdering(A)
           F == FiniteSubsetsOf(A)
<1>1. \A x \in S : x .. n \in SUBSET A
  OBVIOUS
<1>2. T \subseteq F /\ T # {}
  <2>1. \A x \in S : IsFiniteSet(x .. n)
    BY FS_Interval
  <2>2. QED
    BY <1>1, <2>1 DEF FiniteSubsetsOf
<1>3. IsWellFoundedOn(R, F)
  BY FS_StrictSubsetOrderingWellFounded
<1>4. \E t \in T : \A u \in T : <<u, t>> \notin R
  <2> HIDE DEF T, R, F
  <2>1. QED
    BY <1>2, <1>3, WFMin, Zenon
<1>5. PICK x \in S : \A y \in S : <<y .. n, x .. n>> \notin R
  BY <1>4
<1>6. ASSUME NEW y \in S, y > x PROVE FALSE
  <2>1. y .. n \subseteq x .. n /\ y .. n # x .. n
    BY <1>6
  <2>2. <<y .. n, x .. n>> \in R
    BY <1>1, <2>1 DEF StrictSubsetOrdering
  <2>3. QED
    BY <1>5, <2>2
<1>7. \E z \in S : \A y \in S : z >= y
  BY <1>6
<1>8. QED
  BY <1>7 DEF Max

LEMMA LeastOf ==
  ASSUME NEW n \in Nat, NEW S \in SUBSET (0 .. n), S # {}
  PROVE  Min(S) \in S
<1> DEFINE A == 0 .. n
           T == {0 .. x : x \in S}
           R == StrictSubsetOrdering(A)
           F == FiniteSubsetsOf(A)
<1>1. \A x \in S : 0 .. x \in SUBSET A
  OBVIOUS
<1>2. T \subseteq F /\ T # {}
  <2>1. \A x \in S : IsFiniteSet(0 .. x)
    BY FS_Interval
  <2>2. QED
    BY <1>1, <2>1 DEF FiniteSubsetsOf
<1>3. IsWellFoundedOn(R, F)
  BY FS_StrictSubsetOrderingWellFounded
<1>4. \E t \in T : \A u \in T : <<u, t>> \notin R
  <2> HIDE DEF T, R, F
  <2>1. QED
    BY <1>2, <1>3, WFMin, Zenon
<1>5. PICK x \in S : \A y \in S : <<0 .. y, 0 .. x>> \notin R
  BY <1>4
<1>6. ASSUME NEW y \in S, y < x PROVE FALSE
  <2>1. 0 .. y \subseteq 0 .. x /\ 0 .. y # 0 .. x
    BY <1>6
  <2>2. <<0 .. y, 0 .. x>> \in R
    BY <1>1, <2>1 DEF StrictSubsetOrdering
  <2>3. QED
    BY <1>5, <2>2
<1>7. \E z \in S : \A y \in S : z <= y
  BY <1>6
<1>8. QED
  BY <1>7 DEF Min

-----------------------------------------------------------------------------
(* The initial states.                                                     *)

LEMMA Initially == Init => IInv
<1> SUFFICES ASSUME Init PROVE IInv
  OBVIOUS
<1>1. TypeOK
  <2>1. now \in Now /\ op \in Now /\ scored \in 0 .. Days * Slots
    BY Parameters DEF Init, Now
  <2>2. /\ points \subseteq Points /\ deleted \in [Dates -> SUBSET Points]
        /\ rollup \in [Dates -> SUBSET Points] /\ latest \in [Dates \X Horizons -> Int]
    BY DEF Init
  <2>3. /\ claim \in [Dates -> {"none", "running", "success", "failed"}]
        /\ audited \in [Dates -> Nat]
    BY DEF Init
  <2>4. /\ pc \in [Workers -> {"idle", "preflight", "claim", "detail", "attempts",
                               "runs", "success", "failed"}]
        /\ cut \in [Workers -> Int]
    BY DEF Init
  <2>5. day \in [Workers -> Dates] /\ batches \in [Workers -> 0 .. MaxBatches]
    BY Parameters DEF Init, Dates
  <2>6. QED
    BY <2>1, <2>2, <2>3, <2>4, <2>5 DEF Init, TypeOK
<1>2. Gone = {}
  BY DEF Init, Gone
<1>3. OperationInv /\ GoneInv
  BY <1>2 DEF Init, OperationInv, GoneInv
<1>4. RollupInv /\ RollupIsWhole
  BY DEF Init, RollupInv, RollupIsWhole
<1>5. ClaimInv
  BY DEF Init, ClaimInv, Working
<1>6. DailyCapacity
  <2>1. 0 <= DetailBatch * MaxBatches
    BY Parameters
  <2>2. QED
    BY <2>1 DEF Init, DailyCapacity
<1>7. AuditIsExact
  BY FS_EmptySet DEF Init, AuditIsExact
<1>8. QED
  BY <1>1, <1>3, <1>4, <1>5, <1>6, <1>7 DEF IInv

-----------------------------------------------------------------------------
(* Types.                                                                  *)

LEMMA LatestIsInt ==
  ASSUME TypeOK, NEW d \in Dates, NEW h \in Horizons
  PROVE  Max({Target(p) : p \in {q \in Of(d) : q[2] = h /\ Eligible(q)}} \cup {-1}) \in Int
<1> DEFINE S == {Target(p) : p \in {q \in Of(d) : q[2] = h /\ Eligible(q)}} \cup {-1}
<1>1. \A p \in points : Target(p) \in 0 .. Days * Slots
  BY DEF TypeOK, Points, Target
<1>2. S \in SUBSET (-1 .. Days * Slots) /\ S # {}
  BY <1>1, Parameters DEF Of
<1>3. Max(S) \in S
  <2> HIDE DEF S
  <2>1. QED
    BY <1>2, GreatestOf, Parameters
<1>4. QED
  BY <1>2, <1>3

LEMMA Beginning ==
  ASSUME TypeOK, NEW w \in Workers, Begin(w)
  PROVE  /\ pc' \in [Workers -> {"idle", "preflight", "claim", "detail", "attempts",
                                  "runs", "success", "failed"}]
         /\ cut' \in [Workers -> Int] /\ day' \in [Workers -> Dates] /\ batches' = batches
  BY Parameters, DatesOfSlots DEF TypeOK, Begin, Now

LEMMA Leaving ==
  ASSUME TypeOK, NEW w \in Workers, Leave(w)
  PROVE  /\ pc' \in [Workers -> {"idle", "preflight", "claim", "detail", "attempts",
                                  "runs", "success", "failed"}]
         /\ cut' \in [Workers -> Int] /\ day' \in [Workers -> Dates]
         /\ batches' \in [Workers -> 0 .. MaxBatches]
  BY Parameters DEF TypeOK, Leave, Dates

LEMMA Continuing ==
  ASSUME TypeOK, NEW w \in Workers, NEW size, NEW full, NEW here, NEW next,
         {here, next} \subseteq {"detail", "attempts", "runs", "success"},
         Continue(w, size, full, here, next)
  PROVE  /\ pc' \in [Workers -> {"idle", "preflight", "claim", "detail", "attempts",
                                  "runs", "success", "failed"}]
         /\ cut' = cut /\ day' = day
         /\ batches' \in [Workers -> 0 .. MaxBatches]
  BY Parameters DEF TypeOK, Continue

LEMMA TypeStep ==
  ASSUME IInv, Next
  PROVE  TypeOK'
<1> USE DEF IInv
<1>1. CASE Tick
  BY <1>1, Parameters DEF TypeOK, Tick, Now, detail, metadata, audit, operation, retention
<1>2. CASE Kill
  <2>1. "app" \in Workers
    BY DEF Workers
  <2>2. QED
    BY <1>2, <2>1, Parameters, Leaving
       DEF TypeOK, Kill, EndOperation, Now, detail, accuracy, metadata, audit
<1>3. CASE OperationFault
  BY <1>3, Parameters
     DEF TypeOK, OperationFault, EndOperation, Now, detail, accuracy, metadata, audit, retention
<1>4. CASE StartOperation
  BY <1>4 DEF TypeOK, StartOperation, detail, accuracy, audit, retention
<1>5. CASE SaveRun
  <2>1. MadeBy(op) \subseteq Points
    BY Parameters DEF TypeOK, MadeBy, Points, Horizons, Now
  <2>2. QED
    BY <1>5, <2>1 DEF TypeOK, SaveRun, accuracy, audit, retention
<1>6. CASE Score
  BY <1>6, Parameters DEF TypeOK, Score, Now, detail, metadata, audit, retention
<1>7. CASE Inventory
  <2>1. todo' \subseteq Dates
    BY <1>7 DEF Inventory, Remaining
  <2>2. QED
    BY <1>7, <2>1 DEF TypeOK, Inventory, detail, accuracy, metadata, audit, retention
<1>8. CASE Refresh
  <2>1. UNCHANGED <<now, points, deleted, scored, measured, runs, decided, attempts, claim,
                    audited, op, pc, cut, day, batches>>
    BY <1>8 DEF Refresh, detail, metadata, audit, retention
  <2>2. CASE todo = {}
    BY <1>8, <2>1, <2>2 DEF TypeOK, Refresh
  <2>3. CASE todo # {}
    <3>1. Min(todo) \in Dates
      BY <2>3, LeastOf, Parameters DEF TypeOK, Dates
    <3>2. Of(Min(todo)) \subseteq Points
      BY DEF TypeOK, Of
    <3>3. rollup' \in [Dates -> SUBSET Points] /\ todo' \subseteq Dates /\ step' = step
      BY <1>8, <2>3, <3>1, <3>2 DEF TypeOK, Refresh
    <3>4. latest' \in [Dates \X Horizons -> Int]
      <4> DEFINE L(h) == Max({Target(p) : p \in {q \in Of(Min(todo)) : q[2] = h /\ Eligible(q)}}
                               \cup {-1})
      <4>1. \A h \in Horizons : L(h) \in Int
        BY <3>1, LatestIsInt
      <4>2. latest' = [g \in Dates \X Horizons |->
                         IF g[1] = Min(todo) THEN L(g[2]) ELSE latest[g]]
        BY <1>8, <2>3 DEF Refresh
      <4>3. QED
        <5> HIDE DEF L
        <5>1. QED
          BY <4>1, <4>2 DEF TypeOK
    <3>5. QED
      BY <2>1, <3>3, <3>4 DEF TypeOK
  <2>4. QED
    BY <2>2, <2>3
<1>9. CASE Decide
  <2>1. "app" \in Workers
    BY DEF Workers
  <2>2. step = "decide" /\ decided' \subseteq runs
    BY <1>9 DEF TypeOK, OperationInv, Decide
  <2>3. /\ pc' \in [Workers -> {"idle", "preflight", "claim", "detail", "attempts",
                                "runs", "success", "failed"}]
        /\ cut' \in [Workers -> Int] /\ day' \in [Workers -> Dates] /\ batches' = batches
    <3>1. CASE UNCHANGED retention
      BY <3>1 DEF TypeOK, retention
    <3>2. CASE Begin("app")
      BY <2>1, <3>2, Beginning
    <3>3. QED
      BY <1>9, <3>1, <3>2 DEF Decide
  <2>4. QED
    BY <1>9, <2>2, <2>3, Parameters DEF TypeOK, Decide, EndOperation, Now, detail, accuracy, audit
<1>10. ASSUME NEW w \in Workers, StartTool(w) PROVE TypeOK'
  BY <1>10, Beginning
     DEF TypeOK, StartTool, detail, accuracy, metadata, audit, operation
<1>11. ASSUME NEW w \in Workers, Preflight(w) PROVE TypeOK'
  <2>1. Leave(w) \/ Goto(w, "claim")
    BY <1>11 DEF Preflight
  <2>2. QED
    BY <1>11, <2>1, Leaving
       DEF TypeOK, Preflight, Goto, detail, accuracy, metadata, audit, operation
<1>12. ASSUME NEW w \in Workers, Claim(w) PROVE TypeOK'
  <2>1. Leave(w) \/ Goto(w, "detail")
    BY <1>12 DEF Claim
  <2>2. claim' \in [Dates -> {"none", "running", "success", "failed"}]
    BY <1>12 DEF Claim, TypeOK
  <2>3. QED
    BY <1>12, <2>1, <2>2, Leaving
       DEF TypeOK, Claim, Goto, detail, accuracy, metadata, operation
<1>13. ASSUME NEW w \in Workers, PruneDetail(w) PROVE TypeOK'
  <2> DEFINE B == Oldest(Candidates(w), DetailBatch)
  <2>1. B \subseteq points /\ Cardinality(B) \in Nat
    BY OldestIsSmall, Parameters DEF Candidates, TypeOK
  <2>2. /\ points' = points \ B /\ deleted' = [deleted EXCEPT ![day[w]] = @ \cup B]
        /\ audited' = [audited EXCEPT ![day[w]] = @ + Cardinality(B)]
        /\ Continue(w, Cardinality(B), DetailBatch, "detail", "attempts")
    BY <1>13 DEF PruneDetail
  <2>3. points' \subseteq Points /\ deleted' \in [Dates -> SUBSET Points]
        /\ audited' \in [Dates -> Nat]
    <3> HIDE DEF B
    <3>1. QED
      BY <2>1, <2>2 DEF TypeOK
  <2>4. /\ pc' \in [Workers -> {"idle", "preflight", "claim", "detail", "attempts",
                                "runs", "success", "failed"}]
        /\ cut' = cut /\ day' = day /\ batches' \in [Workers -> 0 .. MaxBatches]
    BY <2>2, Continuing
  <2>5. QED
    BY <1>13, <2>3, <2>4 DEF TypeOK, PruneDetail, accuracy, metadata, operation
<1>14. ASSUME NEW w \in Workers, PruneAttempts(w) PROVE TypeOK'
  <2>1. attempts' \subseteq attempts /\ \E n : Continue(w, n, RunBatch, "attempts", "runs")
    BY <1>14 DEF PruneAttempts
  <2>2. /\ pc' \in [Workers -> {"idle", "preflight", "claim", "detail", "attempts",
                                "runs", "success", "failed"}]
        /\ cut' = cut /\ day' = day /\ batches' \in [Workers -> 0 .. MaxBatches]
    BY <2>1, Continuing
  <2>3. QED
    BY <1>14, <2>1, <2>2 DEF TypeOK, PruneAttempts, detail, accuracy, audit, operation
<1>15. ASSUME NEW w \in Workers, PruneRuns(w) PROVE TypeOK'
  <2>1. runs' \subseteq runs /\ decided \subseteq runs'
    BY <1>15 DEF PruneRuns, TypeOK
  <2>2. /\ pc' \in [Workers -> {"idle", "preflight", "claim", "detail", "attempts",
                                "runs", "success", "failed"}]
        /\ cut' = cut /\ day' = day /\ batches' \in [Workers -> 0 .. MaxBatches]
    <3>1. Goto(w, "failed") \/ \E n : Continue(w, n, RunBatch, "runs", "success")
      BY <1>15 DEF PruneRuns
    <3>2. QED
      BY <3>1, Continuing DEF Goto, TypeOK
  <2>3. QED
    BY <1>15, <2>1, <2>2 DEF TypeOK, PruneRuns, detail, accuracy, audit, operation
<1>16. ASSUME NEW w \in Workers, Interrupt(w) PROVE TypeOK'
  BY <1>16 DEF TypeOK, Interrupt, Goto, detail, accuracy, metadata, audit, operation
<1>17. ASSUME NEW w \in Workers, Finish(w) PROVE TypeOK'
  <2>1. claim' \in [Dates -> {"none", "running", "success", "failed"}]
    BY <1>17 DEF Finish, TypeOK
  <2>2. QED
    BY <1>17, <2>1, Leaving
       DEF TypeOK, Finish, detail, accuracy, metadata, operation
<1>18. ASSUME NEW w \in Workers, RetentionFault(w) PROVE TypeOK'
  BY <1>18, Leaving DEF TypeOK, RetentionFault, detail, accuracy, metadata, audit, operation
<1>19. QED
  BY <1>1, <1>2, <1>3, <1>4, <1>5, <1>6, <1>7, <1>8, <1>9, <1>10, <1>11, <1>12, <1>13, <1>14,
     <1>15, <1>16, <1>17, <1>18 DEF Next, Operate, Retain

-----------------------------------------------------------------------------
(* What a step of a worker leaves alone.                                   *)

LEMMA WorkerFrame ==
  ASSUME NEW w \in Workers, Retain(w)
  PROVE  /\ UNCHANGED <<now, scored, measured, rollup, latest, decided, step, op, todo>>
         /\ PruneDetail(w) \/ UNCHANGED <<points, deleted, audited>>
         /\ PruneRuns(w) \/ UNCHANGED runs
  BY DEF Retain, StartTool, Preflight, Claim, PruneDetail, PruneAttempts, PruneRuns, Interrupt,
         Finish, RetentionFault, detail, accuracy, metadata, audit, operation

\* A batch is of points that are there and have expired.
LEMMA BatchOfDetail ==
  ASSUME IInv, NEW w \in Workers, PruneDetail(w)
  PROVE  \E B \in SUBSET points :
           /\ IsFiniteSet(B) /\ Cardinality(B) \in Nat /\ Cardinality(B) <= DetailBatch
           /\ \A p \in B : Target(p) <= Expired
           /\ points' = points \ B
           /\ deleted' = [deleted EXCEPT ![day[w]] = @ \cup B]
           /\ audited' = [audited EXCEPT ![day[w]] = @ + Cardinality(B)]
           /\ Gone' = Gone \cup B
           /\ Continue(w, Cardinality(B), DetailBatch, "detail", "attempts")
<1> DEFINE B == Oldest(Candidates(w), DetailBatch)
<1>1. /\ B \subseteq Candidates(w) /\ IsFiniteSet(B) /\ Cardinality(B) \in Nat
      /\ Cardinality(B) <= DetailBatch
  BY OldestIsSmall, Parameters DEF Candidates, IInv, TypeOK
<1>2. \A p \in B : p \in points /\ Target(p) <= Expired
  <2>1. cut[w] \in Int /\ cut[w] <= Expired /\ Expired \in Int
    BY Parameters DEF IInv, TypeOK, GoneInv, PruneDetail, Expired, Now
  <2>2. \A p \in B : p \in points /\ Target(p) <= cut[w] /\ Target(p) \in Int
    BY <1>1, Parameters DEF Candidates, IInv, TypeOK, Points, Target
  <2>3. QED
    BY <2>1, <2>2
<1>3. /\ points' = points \ B
      /\ deleted' = [deleted EXCEPT ![day[w]] = @ \cup B]
      /\ audited' = [audited EXCEPT ![day[w]] = @ + Cardinality(B)]
      /\ Continue(w, Cardinality(B), DetailBatch, "detail", "attempts")
  BY DEF PruneDetail
<1> HIDE DEF B
<1>4. Gone' = Gone \cup B
  BY <1>3 DEF IInv, TypeOK, Gone
<1>5. QED
  BY <1>1, <1>2, <1>3, <1>4

LEMMA TargetsOfRun ==
  ASSUME TypeOK, OperationInv, step # "idle"
  PROVE  /\ op \in Nat /\ now \in Nat /\ Expired \in Int /\ Expired < op
         /\ \A p \in MadeBy(op) : Target(p) \in Nat /\ op <= Target(p)
         /\ MadeBy(op) # {}
<1>1. op \in Nat /\ now \in Nat /\ now <= op + 1
  BY Parameters DEF TypeOK, OperationInv, Now
<1>2. Expired \in Int /\ Expired < op
  BY <1>1, Parameters DEF Expired
<1>3. QED
  BY <1>1, <1>2 DEF MadeBy, Target

-----------------------------------------------------------------------------
(* The operation.                                                          *)

LEMMA OperationStep ==
  ASSUME IInv, Next
  PROVE  OperationInv'
<1> USE DEF IInv
<1>1. CASE Tick
  BY <1>1, Parameters
     DEF TypeOK, OperationInv, InWindow, Tick, Now, detail, metadata, operation, retention
<1>2. CASE Kill
  BY <1>2 DEF OperationInv, Kill, EndOperation
<1>3. CASE OperationFault
  BY <1>3
     DEF OperationInv, OperationFault, EndOperation, InWindow, detail, metadata, retention
<1>4. CASE StartOperation
  BY <1>4, Parameters DEF TypeOK, OperationInv, StartOperation, Now, detail, retention
<1>5. CASE SaveRun
  BY <1>5 DEF OperationInv, SaveRun, retention
<1>6. CASE Score
  BY <1>6 DEF OperationInv, Score, detail, metadata, retention
<1>7. CASE Inventory
  <2>1. \A d \in todo' : InWindow(d)
    BY <1>7 DEF Inventory, Remaining
  <2>2. QED
    BY <1>7, <2>1 DEF OperationInv, Inventory, InWindow, detail, metadata, retention
<1>8. CASE Refresh
  BY <1>8 DEF OperationInv, Refresh, InWindow, detail, metadata, retention
<1>9. CASE Decide
  BY <1>9 DEF OperationInv, Decide, EndOperation
<1>10. ASSUME NEW w \in Workers, Retain(w) PROVE OperationInv'
  <2>1. UNCHANGED <<now, step, op, todo>>
    BY <1>10, WorkerFrame
  <2>2. CASE step = "idle"
    BY <2>1, <2>2 DEF OperationInv
  <2>3. CASE step # "idle"
    <3>1. w # "app" => pc'["app"] = "idle"
      BY <1>10, <2>3 DEF OperationInv, TypeOK, Retain, StartTool, Begin, Leave, Goto, Continue,
            Preflight, Claim, PruneDetail, PruneAttempts, PruneRuns, Interrupt, Finish,
            RetentionFault, Workers
    <3>2. w # "app"
      BY <1>10, <2>3, RetentionAssumption
         DEF OperationInv, Retain, StartTool, Preflight, Claim, PruneDetail, PruneAttempts,
            PruneRuns, Interrupt, Finish, RetentionFault
    <3>3. MadeBy(op) \subseteq points => MadeBy(op) \subseteq points'
      <4>1. CASE PruneDetail(w)
        <5>1. PICK B \in SUBSET points : points' = points \ B /\ \A p \in B : Target(p) <= Expired
          BY <4>1, BatchOfDetail
        <5>2. QED
          BY <2>3, <5>1, TargetsOfRun
      <4>2. QED
        BY <1>10, <4>1, WorkerFrame
    <3>4. op \in runs /\ MadeBy(op) \subseteq points => op \in runs'
      <4>1. CASE PruneRuns(w)
        <5>1. \A n \in runs \ runs' : MadeBy(n) \cap points = {}
          BY <4>1 DEF PruneRuns, OldestSlots
        <5>2. QED
          BY <2>3, <5>1, TargetsOfRun
      <4>2. QED
        BY <1>10, <4>1, WorkerFrame
    <3>5. QED
      BY <2>1, <2>3, <3>1, <3>2, <3>3, <3>4 DEF OperationInv, InWindow, MadeBy
  <2>4. QED
    BY <2>2, <2>3
<1>11. QED
  BY <1>1, <1>2, <1>3, <1>4, <1>5, <1>6, <1>7, <1>8, <1>9, <1>10 DEF Next, Operate

-----------------------------------------------------------------------------
(* What is deleted.                                                        *)

LEMMA GoneStep ==
  ASSUME IInv, Next
  PROVE  GoneInv'
<1> USE DEF IInv
<1>1. now \in Nat /\ Expired \in Int
  BY Parameters DEF TypeOK, Now, Expired
<1>2. CASE Tick
  <2>1. Expired' = Expired + 1
    BY <1>1, <1>2, Parameters DEF Tick, Expired
  <2>2. \A w \in Workers : cut[w] \in Int
    BY DEF TypeOK
  <2>3. \A p \in Gone : Target(p) \in Int
    BY Parameters DEF Gone, TypeOK, Points, Target
  <2>4. QED
    BY <1>1, <1>2, <2>1, <2>2, <2>3 DEF GoneInv, Gone, Tick, detail, retention
<1>3. CASE Kill
  BY <1>3 DEF TypeOK, GoneInv, Gone, Expired, Kill, Leave, detail
<1>4. CASE OperationFault
  BY <1>4 DEF GoneInv, Gone, Expired, OperationFault, detail, retention
<1>5. CASE StartOperation \/ Score \/ Inventory \/ Refresh
  BY <1>5 DEF GoneInv, Gone, Expired, StartOperation, Score, Inventory, Refresh, detail, retention
<1>6. CASE SaveRun
  <2>1. MadeBy(op) \cap Gone = {}
    <3>1. step # "idle"
      BY <1>6 DEF SaveRun
    <3>2. SUFFICES ASSUME NEW p \in MadeBy(op), p \in Gone PROVE FALSE
      OBVIOUS
    <3>3. Target(p) <= Expired
      BY <3>2 DEF GoneInv
    <3>4. QED
      BY <3>1, <3>2, <3>3, TargetsOfRun
  <2>2. QED
    BY <1>6, <2>1 DEF GoneInv, Gone, Expired, SaveRun, retention
<1>7. CASE Decide
  BY <1>1, <1>7, Parameters
     DEF TypeOK, GoneInv, Gone, Expired, Decide, Begin, detail, retention
<1>8. ASSUME NEW w \in Workers, Retain(w) PROVE GoneInv'
  <2>1. \A v \in Workers : pc'[v] # "idle" => cut'[v] <= Expired
    BY <1>1, <1>8, Parameters
       DEF TypeOK, GoneInv, Expired, Retain, StartTool, Begin, Leave, Goto, Continue, Preflight,
          Claim, PruneDetail, PruneAttempts, PruneRuns, Interrupt, Finish, RetentionFault
  <2>2. Expired' = Expired
    BY <1>8, WorkerFrame DEF Expired
  <2>3. points' \cap Gone' = {} /\ \A p \in Gone' : Target(p) <= Expired
    <3>1. CASE PruneDetail(w)
      <4>1. PICK B \in SUBSET points : /\ points' = points \ B /\ Gone' = Gone \cup B
                                      /\ \A p \in B : Target(p) <= Expired
        BY <3>1, BatchOfDetail
      <4>2. QED
        BY <4>1 DEF GoneInv
    <3>2. CASE UNCHANGED <<points, deleted, audited>>
      BY <3>2 DEF GoneInv, Gone
    <3>3. QED
      BY <1>8, <3>1, <3>2, WorkerFrame
  <2>4. QED
    BY <2>1, <2>2, <2>3 DEF GoneInv
<1>9. QED
  BY <1>2, <1>3, <1>4, <1>5, <1>6, <1>7, <1>8 DEF Next, Operate

-----------------------------------------------------------------------------
(* Rollups.                                                                *)

\* What the refresh takes from todo is a date before the operation's.
LEMMA NextRefresh ==
  ASSUME IInv, todo # {}
  PROVE  Min(todo) \in Dates /\ Min(todo) \in todo /\ InWindow(Min(todo)) /\ step = "refresh"
<1>1. todo \in SUBSET (0 .. Days)
  BY DEF IInv, TypeOK, Dates
<1>2. Min(todo) \in todo
  BY <1>1, LeastOf, Parameters
<1>3. QED
  BY <1>1, <1>2 DEF IInv, OperationInv, Dates

LEMMA RollupStep ==
  ASSUME IInv, Next
  PROVE  RollupInv' /\ RollupIsWhole'
<1> USE DEF IInv
<1>1. /\ now \in Nat /\ op \in Nat /\ Date(now) \in Nat /\ Date(op) \in Nat
      /\ \A d \in Dates : d \in Int
  <2>1. now \in Nat /\ op \in Nat
    BY Parameters DEF TypeOK, Now
  <2>2. Date(now) \in Nat /\ Date(op) \in Nat
    BY <2>1, DatesInOrder
  <2>3. QED
    BY <2>1, <2>2 DEF Dates
<1>2. CASE Tick
  <2>1. Date(now) <= Date(now') /\ Date(now') \in Nat
    BY <1>1, <1>2, DatesInOrder DEF Tick
  <2>2. UNCHANGED <<rollup, step, op, points, deleted>>
    BY <1>2 DEF Tick, detail, operation
  <2>3. RollupInv'
    BY <1>1, <2>1, <2>2 DEF RollupInv, Date
  <2>4. QED
    BY <2>2, <2>3 DEF RollupIsWhole, Gone, Of
<1>3. CASE Kill \/ OperationFault \/ StartOperation \/ Score \/ Inventory \/ Decide
  <2>1. /\ UNCHANGED <<now, rollup, points, deleted>>
        /\ step' # "idle" => op' = now \/ (op' = op /\ step # "idle")
    BY <1>3 DEF Kill, OperationFault, StartOperation, Score, Inventory, Decide, EndOperation,
                detail, accuracy
  <2>2. RollupInv'
    BY <2>1 DEF RollupInv, Date
  <2>3. QED
    BY <2>1, <2>2 DEF RollupIsWhole, Gone, Of
<1>4. CASE SaveRun
  <2>1. /\ UNCHANGED <<now, rollup, deleted, op>> /\ step = "save"
        /\ points' = points \cup MadeBy(op)
    BY <1>4 DEF SaveRun, accuracy
  <2>2. RollupInv'
    BY <2>1 DEF RollupInv, Date
  <2>3. ASSUME NEW d \in Dates, rollup[d] # {} PROVE Of(d)' = Of(d)
    <3>1. d < Date(op)
      BY <2>1, <2>3 DEF RollupInv
    <3>2. \A p \in MadeBy(op) : Date(Target(p)) \in Nat /\ Date(op) <= Date(Target(p))
      BY <1>1, <2>1, TargetsOfRun, DatesInOrder
    <3>3. \A p \in MadeBy(op) : Date(Target(p)) # d
      BY <1>1, <3>1, <3>2
    <3>4. QED
      BY <2>1, <3>3 DEF Of
  <2>4. QED
    BY <2>1, <2>2, <2>3 DEF RollupIsWhole, Gone
<1>5. CASE Refresh
  <2>1. UNCHANGED <<now, points, deleted, op>> /\ (UNCHANGED rollup \/ todo # {})
        /\ step = "refresh"
    BY <1>5 DEF Refresh, detail
  <2>2. CASE UNCHANGED rollup
    <3>1. RollupInv'
      BY <2>1, <2>2 DEF RollupInv, Date
    <3>2. QED
      BY <2>1, <2>2, <3>1 DEF RollupIsWhole, Gone, Of
  <2>3. CASE todo # {}
    <3>1. Min(todo) \in Dates /\ Min(todo) < Date(op)
      BY <2>3, NextRefresh DEF InWindow
    <3>2. rollup' = [rollup EXCEPT ![Min(todo)] = Of(Min(todo))]
      BY <1>5, <2>3 DEF Refresh
    <3>3. Date(op) <= Date(now)
      BY <1>1, <2>1, DatesInOrder DEF OperationInv
    <3>4. Min(todo) < Date(now)
      BY <1>1, <3>1, <3>3
    <3>5. \A d \in Dates : rollup'[d] = IF d = Min(todo) THEN Of(d) ELSE rollup[d]
      BY <3>1, <3>2 DEF TypeOK
    <3>6. RollupInv'
      BY <2>1, <3>1, <3>4, <3>5 DEF RollupInv, Date, Of
    <3>7. RollupIsWhole'
      <4>1. Gone' = Gone /\ \A d \in Dates : Of(d)' = Of(d)
        BY <2>1 DEF Gone, Of
      <4>2. QED
        BY <3>5, <4>1 DEF RollupIsWhole, Date, Target
    <3>8. QED
      BY <3>6, <3>7
  <2>4. QED
    BY <2>1, <2>2, <2>3
<1>6. ASSUME NEW w \in Workers, Retain(w) PROVE RollupInv' /\ RollupIsWhole'
  <2>1. UNCHANGED <<now, rollup, step, op>>
    BY <1>6, WorkerFrame
  <2>2. RollupInv'
    BY <2>1 DEF RollupInv, Date
  <2>3. RollupIsWhole'
    <3>1. CASE UNCHANGED <<points, deleted, audited>>
      BY <2>1, <3>1 DEF RollupIsWhole, Gone, Of
    <3>2. CASE PruneDetail(w)
      <4>1. PICK B \in SUBSET points : points' = points \ B /\ Gone' = Gone \cup B
        BY <3>2, BatchOfDetail
      <4>2. SUFFICES ASSUME NEW d \in Dates, rollup[d] # {}, \A p \in Gone' : Date(Target(p)) # d
                     PROVE  rollup[d] = Of(d)'
        BY <2>1 DEF RollupIsWhole, Date, Target
      <4>3. rollup[d] = Of(d)
        BY <4>1, <4>2 DEF RollupIsWhole
      <4>4. Of(d)' = Of(d)
        BY <4>1, <4>2 DEF Of
      <4>5. QED
        BY <4>3, <4>4
    <3>3. QED
      BY <1>6, <3>1, <3>2, WorkerFrame
  <2>4. QED
    BY <2>2, <2>3
<1>7. QED
  BY <1>2, <1>3, <1>4, <1>5, <1>6 DEF Next, Operate

-----------------------------------------------------------------------------
(* Claims and what is deleted under them.                                  *)

\* A worker that begins or leaves works on no claim.
LEMMA NotWorking ==
  ASSUME IInv, NEW w \in Workers, Leave(w) \/ (Begin(w) /\ pc[w] = "idle"),
         UNCHANGED audited, \A d \in Dates : claim'[d] = "none" <=> claim[d] = "none"
  PROVE  ClaimInv' /\ DailyCapacity'
<1>1. /\ pc'[w] \in {"idle", "preflight"} /\ batches'[w] = 0
      /\ \A v \in Workers \ {w} : pc'[v] = pc[v] /\ day'[v] = day[v] /\ batches'[v] = batches[v]
  BY DEF IInv, TypeOK, ClaimInv, Begin, Leave
<1>2. \A v \in Workers : day[v] \in Dates
  BY DEF IInv, TypeOK
<1>3. ClaimInv'
  BY <1>1, <1>2 DEF IInv, ClaimInv, Working
<1>4. QED
  BY <1>3 DEF IInv, DailyCapacity

\* A worker goes on with the claim it has, or asks for one.
LEMMA StillWorking ==
  ASSUME IInv, NEW w \in Workers, UNCHANGED <<claim, audited, day>>,
         \A v \in Workers \ {w} : pc'[v] = pc[v] /\ batches'[v] = batches[v],
         \/ pc'[w] = "claim" /\ batches'[w] = 0
         \/ pc[w] \in Working /\ pc'[w] \in Working \ {"detail"}
  PROVE  ClaimInv' /\ DailyCapacity'
<1>1. ClaimInv'
  BY DEF IInv, ClaimInv, Working
<1>2. QED
  BY <1>1 DEF IInv, DailyCapacity

LEMMA ClaimStep ==
  ASSUME IInv, Next
  PROVE  ClaimInv' /\ DailyCapacity'
<1> USE DEF IInv
<1>1. "app" \in Workers
  BY DEF Workers
<1>2. CASE UNCHANGED <<retention, audit>>
  BY <1>2 DEF ClaimInv, DailyCapacity, retention, audit
<1>3. CASE Kill
  BY <1>1, <1>3, NotWorking DEF Kill, audit
<1>4. CASE Decide
  <2>1. UNCHANGED audit /\ pc["app"] = "idle" /\ (UNCHANGED retention \/ Begin("app"))
    BY <1>4 DEF Decide, OperationInv
  <2>2. QED
    BY <1>1, <1>2, <2>1, NotWorking DEF audit
<1>5. ASSUME NEW w \in Workers, StartTool(w) PROVE ClaimInv' /\ DailyCapacity'
  BY <1>5, NotWorking DEF StartTool, audit
<1>6. ASSUME NEW w \in Workers, Preflight(w) PROVE ClaimInv' /\ DailyCapacity'
  <2>1. CASE Leave(w)
    BY <1>6, <2>1, NotWorking DEF Preflight, audit
  <2>2. CASE Goto(w, "claim")
    BY <1>6, <2>2, StillWorking DEF TypeOK, ClaimInv, Preflight, Goto, audit
  <2>3. QED
    BY <1>6, <2>1, <2>2 DEF Preflight
<1>7. ASSUME NEW w \in Workers, Claim(w) PROVE ClaimInv' /\ DailyCapacity'
  <2>1. pc[w] = "claim" /\ UNCHANGED audited
    BY <1>7 DEF Claim
  <2>2. CASE claim[day[w]] # "none"
    BY <1>7, <2>1, <2>2, NotWorking DEF Claim
  <2>3. CASE claim[day[w]] = "none"
    <3>1. /\ claim' = [claim EXCEPT ![day[w]] = "running"]
          /\ Goto(w, "detail") \/ Leave(w)
      BY <1>7, <2>3 DEF Claim
    <3>2. day[w] \in Dates /\ audited[day[w]] = 0 /\ batches[w] = 0
      BY <2>1, <2>3 DEF TypeOK, ClaimInv
    <3>3. \A d \in Dates : claim'[d] = IF d = day[w] THEN "running" ELSE claim[d]
      BY <3>1 DEF TypeOK
    <3>4. \A v \in Workers : day[v] \in Dates
      BY DEF TypeOK
    <3>5. \A v \in Workers : pc[v] \in Working => day[v] # day[w]
      BY <2>3 DEF ClaimInv
    <3>6. \A v \in Workers \ {w} : pc'[v] = pc[v] /\ batches'[v] = batches[v] /\ day'[v] = day[v]
      BY <3>1 DEF TypeOK, Goto, Leave
    <3>7. \/ pc'[w] = "detail" /\ day'[w] = day[w] /\ batches'[w] = 0
          \/ pc'[w] = "idle" /\ batches'[w] = 0
      BY <3>1, <3>2 DEF TypeOK, Goto, Leave
    <3>8. ClaimInv'
      BY <2>1, <3>2, <3>3, <3>4, <3>5, <3>6, <3>7, Parameters DEF ClaimInv, Working
    <3>9. QED
      BY <2>1, <3>8 DEF DailyCapacity
  <2>4. QED
    BY <2>2, <2>3
<1>8. ASSUME NEW w \in Workers, PruneDetail(w) PROVE ClaimInv' /\ DailyCapacity'
  <2>1. pc[w] = "detail" /\ UNCHANGED claim
    BY <1>8 DEF PruneDetail
  <2>2. PICK n \in Nat : /\ n <= DetailBatch
                         /\ audited' = [audited EXCEPT ![day[w]] = @ + n]
                         /\ Continue(w, n, DetailBatch, "detail", "attempts")
    BY <1>8, BatchOfDetail
  <2>3. /\ day[w] \in Dates /\ batches[w] \in Nat /\ batches[w] + 1 <= MaxBatches
        /\ audited[day[w]] \in Nat /\ audited[day[w]] <= DetailBatch * batches[w]
    BY <2>1, Parameters DEF TypeOK, ClaimInv
  <2>4. audited'[day[w]] <= DetailBatch * (batches[w] + 1)
    <3>1. DetailBatch * (batches[w] + 1) = DetailBatch * batches[w] + DetailBatch
      BY <2>3, Parameters
    <3>2. audited'[day[w]] = audited[day[w]] + n
      BY <2>2, <2>3 DEF TypeOK
    <3>3. DetailBatch * batches[w] \in Nat
      BY <2>3, Parameters
    <3>4. QED
      BY <2>2, <2>3, <3>1, <3>2, <3>3, Parameters
  <2>5. DetailBatch * (batches[w] + 1) <= DetailBatch * MaxBatches
    <3> DEFINE rest == MaxBatches - (batches[w] + 1)
    <3>1. rest \in Nat /\ MaxBatches = (batches[w] + 1) + rest
      BY <2>3, Parameters
    <3> HIDE DEF rest
    <3>2. DetailBatch * MaxBatches = DetailBatch * (batches[w] + 1) + DetailBatch * rest
      BY <2>3, <3>1, Parameters
    <3>3. DetailBatch * rest \in Nat /\ DetailBatch * (batches[w] + 1) \in Nat
      BY <2>3, <3>1, Parameters
    <3>4. QED
      BY <3>2, <3>3
  <2>6. \A d \in Dates : d # day[w] => audited'[d] = audited[d]
    BY <2>2 DEF TypeOK
  <2>7. \A v \in Workers \ {w} : /\ pc'[v] = pc[v] /\ batches'[v] = batches[v]
                                 /\ pc[v] \in Working => day[v] # day[w]
    BY <2>1, <2>2 DEF TypeOK, ClaimInv, Working, Continue
  <2>8. /\ day' = day
        /\ \/ pc'[w] = "detail" /\ batches'[w] = batches[w] + 1 /\ batches[w] + 1 < MaxBatches
           \/ pc'[w] = "attempts"
    BY <2>2 DEF TypeOK, Continue
  <2>9. ClaimInv'
    <3>1. \A v \in Workers : day[v] \in Dates
      BY DEF TypeOK
    <3>2. claim[day[w]] # "none"
      BY <2>1 DEF ClaimInv, Working
    <3>3. \A v \in Workers : pc'[v] \in Working => pc[v] \in Working
      BY <2>1, <2>7 DEF Working
    <3>4. \A d \in Dates : claim[d] = "none" => audited'[d] = 0
      BY <2>6, <3>2 DEF ClaimInv
    <3>5. \A v \in Workers \ {w} : pc[v] = "detail" => audited'[day[v]] = audited[day[v]]
      BY <2>6, <2>7, <3>1 DEF Working
    <3>6. pc'[w] = "detail" => batches'[w] < MaxBatches /\ audited'[day[w]] <= DetailBatch * batches'[w]
      BY <2>4, <2>8
    <3>7. \A v \in Workers : pc'[v] = "detail" =>
            batches'[v] < MaxBatches /\ audited'[day[v]] <= DetailBatch * batches'[v]
      <4>1. SUFFICES ASSUME NEW v \in Workers \ {w}, pc'[v] = "detail"
                     PROVE  batches'[v] < MaxBatches /\ audited'[day[v]] <= DetailBatch * batches'[v]
        BY <3>6
      <4>2. batches'[v] = batches[v] /\ pc[v] = "detail" /\ audited'[day[v]] = audited[day[v]]
        BY <2>7, <3>5, <4>1
      <4>3. batches[v] < MaxBatches /\ audited[day[v]] <= DetailBatch * batches[v]
        BY <4>2 DEF ClaimInv
      <4>4. QED
        BY <4>2, <4>3
    <3>8. \A v \in Workers : pc'[v] \in {"idle", "preflight", "claim"} => batches'[v] = 0
      BY <2>7, <2>8 DEF ClaimInv
    <3>9. QED
      BY <2>1, <2>8, <3>3, <3>4, <3>7, <3>8 DEF ClaimInv
  <2>10. DailyCapacity'
    <3>1. DetailBatch * (batches[w] + 1) \in Nat /\ DetailBatch * MaxBatches \in Nat
      BY <2>3, Parameters
    <3>2. audited'[day[w]] \in Nat
      BY <2>2, <2>3 DEF TypeOK
    <3>3. audited'[day[w]] <= DetailBatch * MaxBatches
      BY <2>4, <2>5, <3>1, <3>2
    <3>4. QED
      BY <2>6, <3>3 DEF DailyCapacity
  <2>11. QED
    BY <2>9, <2>10
<1>9. ASSUME NEW w \in Workers, PruneAttempts(w) PROVE ClaimInv' /\ DailyCapacity'
  <2>1. pc[w] = "attempts" /\ UNCHANGED audit /\ \E n : Continue(w, n, RunBatch, "attempts", "runs")
    BY <1>9 DEF PruneAttempts
  <2>2. QED
    BY <2>1, StillWorking DEF TypeOK, Continue, audit, Working
<1>10. ASSUME NEW w \in Workers, PruneRuns(w) PROVE ClaimInv' /\ DailyCapacity'
  <2>1. /\ pc[w] = "runs" /\ UNCHANGED audit
        /\ Goto(w, "failed") \/ \E n : Continue(w, n, RunBatch, "runs", "success")
    BY <1>10 DEF PruneRuns
  <2>2. QED
    BY <2>1, StillWorking DEF TypeOK, Continue, Goto, audit, Working
<1>11. ASSUME NEW w \in Workers, Interrupt(w) PROVE ClaimInv' /\ DailyCapacity'
  BY <1>11, StillWorking DEF TypeOK, Interrupt, Goto, audit, Working
<1>12. ASSUME NEW w \in Workers, Finish(w) PROVE ClaimInv' /\ DailyCapacity'
  <2>1. Leave(w) /\ UNCHANGED audited
    BY <1>12 DEF Finish
  <2>2. \A d \in Dates : claim'[d] = "none" <=> claim[d] = "none"
    BY <1>12 DEF TypeOK, ClaimInv, Working, Finish
  <2>3. QED
    BY <2>1, <2>2, NotWorking
<1>13. ASSUME NEW w \in Workers, RetentionFault(w) PROVE ClaimInv' /\ DailyCapacity'
  BY <1>13, NotWorking DEF RetentionFault, audit
<1>14. CASE Tick \/ OperationFault \/ StartOperation \/ SaveRun \/ Score \/ Inventory \/ Refresh
  BY <1>2, <1>14 DEF Tick, OperationFault, StartOperation, SaveRun, Score, Inventory, Refresh
<1>15. QED
  BY <1>3, <1>4, <1>5, <1>6, <1>7, <1>8, <1>9, <1>10, <1>11, <1>12, <1>13, <1>14
     DEF Next, Operate, Retain

-----------------------------------------------------------------------------
(* The audit.                                                              *)

LEMMA AuditStep ==
  ASSUME IInv, Next
  PROVE  AuditIsExact'
<1> USE DEF IInv
<1>1. CASE UNCHANGED <<deleted, audited>>
  BY <1>1 DEF AuditIsExact
<1>2. ASSUME NEW w \in Workers, PruneDetail(w) PROVE AuditIsExact'
  <2>1. PICK B \in SUBSET points :
          /\ IsFiniteSet(B)
          /\ deleted' = [deleted EXCEPT ![day[w]] = @ \cup B]
          /\ audited' = [audited EXCEPT ![day[w]] = @ + Cardinality(B)]
    BY <1>2, BatchOfDetail
  <2>2. day[w] \in Dates /\ deleted[day[w]] \subseteq Points
    BY DEF TypeOK
  <2>3. B \cap deleted[day[w]] = {}
    BY <2>2 DEF GoneInv, Gone
  <2>4. IsFiniteSet(deleted[day[w]])
    BY <2>2, PointsAreFinite, FS_Subset
  <2>5. Cardinality(deleted[day[w]] \cup B) = Cardinality(deleted[day[w]]) + Cardinality(B)
    <3>1. /\ Cardinality(deleted[day[w]] \cup B)
              = Cardinality(deleted[day[w]]) + Cardinality(B)
                  - Cardinality(deleted[day[w]] \cap B)
      BY <2>1, <2>4, FS_Union
    <3>2. Cardinality(deleted[day[w]] \cap B) = 0
      BY <2>3, FS_EmptySet
    <3>3. Cardinality(deleted[day[w]]) \in Nat /\ Cardinality(B) \in Nat
      BY <2>1, <2>4, FS_CardinalityType
    <3>4. QED
      BY <3>1, <3>2, <3>3
  <2>6. /\ deleted'[day[w]] = deleted[day[w]] \cup B
        /\ audited'[day[w]] = audited[day[w]] + Cardinality(B)
        /\ \A d \in Dates : d # day[w] => deleted'[d] = deleted[d] /\ audited'[d] = audited[d]
    BY <2>1, <2>2 DEF TypeOK
  <2>7. QED
    BY <2>2, <2>5, <2>6 DEF AuditIsExact
<1>3. ASSUME NEW w \in Workers, Retain(w) PROVE AuditIsExact'
  BY <1>1, <1>2, <1>3, WorkerFrame
<1>4. CASE Tick \/ Kill \/ OperationFault \/ Operate
  BY <1>1, <1>4 DEF Tick, Kill, OperationFault, Operate, StartOperation, SaveRun, Score,
                    Inventory, Refresh, Decide, detail, audit
<1>5. QED
  BY <1>3, <1>4 DEF Next

-----------------------------------------------------------------------------
(* The theorems.                                                           *)

LEMMA Stuttering ==
  ASSUME IInv, UNCHANGED vars
  PROVE  IInv'
<1> USE DEF IInv, vars
<1>1. TypeOK'
  BY DEF TypeOK
<1>2. OperationInv'
  BY DEF OperationInv, InWindow
<1>3. GoneInv'
  BY DEF GoneInv, Gone, Expired
<1>4. RollupInv' /\ RollupIsWhole'
  BY DEF RollupInv, RollupIsWhole, Gone, Of
<1>5. ClaimInv'
  BY DEF ClaimInv
<1>6. DailyCapacity' /\ AuditIsExact'
  BY DEF DailyCapacity, AuditIsExact
<1>7. QED
  BY <1>1, <1>2, <1>3, <1>4, <1>5, <1>6

LEMMA Invariance == Spec => []IInv
<1>1. IInv /\ [Next]_vars => IInv'
  <2>1. ASSUME IInv, Next PROVE IInv'
    BY <2>1, TypeStep, OperationStep, GoneStep, RollupStep, ClaimStep, AuditStep DEF IInv
  <2>2. QED
    BY <2>1, Stuttering
<1>2. QED
  BY <1>1, Initially, PTL DEF Spec

\* The variables keep their types, for all constants: the state that
\* forecast_operations.py, forecast_rollups.py and forecast_retention.py share.
THEOREM TypeIsPreserved == Spec => []TypeOK
<1>1. IInv => TypeOK
  BY DEF IInv
<1>2. QED
  BY <1>1, Invariance, PTL

\* However many processes start retention on a UTC date, fail or are killed,
\* what is deleted on it stays within the batches of one run (_claim_daily_run
\* and the loop of _prune_detail_batch).
THEOREM DeletionStaysInCapacity == Spec => []DailyCapacity
<1>1. IInv => DailyCapacity
  BY DEF IInv
<1>2. QED
  BY <1>1, Invariance, PTL

\* points_deleted of a date is at all times the number of points that are
\* deleted under its claim (_prune_detail_batch).
THEOREM AuditIsKept == Spec => []AuditIsExact
<1>1. IInv => AuditIsExact
  BY DEF IInv
<1>2. QED
  BY <1>1, Invariance, PTL

\* A date that has a rollup and has lost no detail is counted to its last
\* point (refresh_forecast_accuracy_rollups).
THEOREM RollupsAreWhole == Spec => []RollupIsWhole
<1>1. IInv => RollupIsWhole
  BY DEF IInv
<1>2. QED
  BY <1>1, Invariance, PTL

\* No refresh rebuilds a date from what retention has left of it: the dates of
\* the calibration window are younger than any that has lost detail, because
\* the window and a day are shorter than the retention of detail.
THEOREM DeletedDetailStaysCounted == Spec => DeletedStayCounted
<1>1. ASSUME IInv, [Next]_vars
      PROVE  \A d \in Dates : rollup[d] \cap Gone \subseteq rollup'[d]
  <2> USE DEF IInv
  <2>1. CASE UNCHANGED rollup
    BY <2>1
  <2>2. CASE Refresh /\ todo # {}
    <3>1. /\ Min(todo) \in Dates /\ InWindow(Min(todo))
          /\ rollup' = [rollup EXCEPT ![Min(todo)] = Of(Min(todo))]
      BY <1>1, <2>2, NextRefresh DEF Refresh
    <3>2. ASSUME NEW p \in rollup[Min(todo)], p \in Gone PROVE FALSE
      <4>1. Date(Target(p)) = Min(todo)
        BY <1>1, <3>1, <3>2 DEF RollupInv
      <4>2. now \in Nat /\ op \in Nat /\ now <= op + 1
        BY <1>1, <2>2, Parameters DEF TypeOK, OperationInv, Now, Refresh
      <4>3. Target(p) \in Nat /\ Target(p) <= now - Keep * Slots
        BY <1>1, <3>2, Parameters DEF GoneInv, Gone, Expired, TypeOK, Points, Target
      <4>4. /\ Date(now) \in Nat /\ Date(op) \in Nat /\ Date(Target(p)) \in Nat
            /\ Date(now) <= Date(op) + 1
        BY <4>2, <4>3, DatesInOrder
      <4>5. Date(Target(p)) + Keep <= Date(now)
        BY <4>2, <4>3, DatesInOrder
      <4>6. QED
        BY <3>1, <4>1, <4>4, <4>5, Parameters DEF InWindow
    <3>3. \A d \in Dates : d # Min(todo) => rollup'[d] = rollup[d]
      BY <1>1, <3>1 DEF TypeOK
    <3>4. QED
      BY <3>2, <3>3
  <2>3. CASE Next
    <3>1. UNCHANGED rollup \/ (Refresh /\ todo # {})
      BY <2>3, WorkerFrame
         DEF Next, Operate, Tick, Kill, OperationFault, StartOperation, SaveRun, Score, Inventory,
             Refresh, Decide, accuracy
    <3>2. QED
      BY <2>1, <2>2, <3>1
  <2>4. QED
    BY <1>1, <2>1, <2>3 DEF vars
<1>2. QED
  BY <1>1, Invariance, PTL DEF Spec, DeletedStayCounted
================================================================================
