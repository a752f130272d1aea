---------------------------- MODULE TransferProofs ----------------------------
(***************************************************************************)
(* What a transfer does to any target, from any source.                     *)
(***************************************************************************)
EXTENDS Transfer, FiniteSetTheorems, WellFoundedInduction, TLAPS

----------------------------------------------------------------------------
(* Induction, over a set of numbers.                                        *)

\* A set that has 0 and the successor of each of its members has every number.
LEMMA SetInduction ==
  ASSUME NEW S, 0 \in S, \A n \in Nat : n \in S => n + 1 \in S
  PROVE  Nat \subseteq S
<1> DEFINE T == Nat \ S
<1> SUFFICES ASSUME T # {} PROVE FALSE
  OBVIOUS
<1>1. PICK m \in T : \A y \in T : ~(<<y, m>> \in OpToRel(<, Nat))
  <2>1. T \subseteq Nat
    OBVIOUS
  <2> QED
    BY <2>1, NatLessThanWellFounded, WFMin, Zenon
<1>2. \A y \in T : ~(y < m)
  <2> TAKE y \in T
  <2>1. <<y, m>> \in Nat \X Nat
    OBVIOUS
  <2> QED
    BY <1>1, <2>1 DEF OpToRel
<1>3. m # 0
  OBVIOUS
<1>4. m - 1 \in Nat /\ m - 1 < m
  BY <1>3
<1>5. m - 1 \in S
  BY <1>2, <1>4
<1> QED
  BY <1>4, <1>5

\* What two sequences bring to their concatenation.
LEMMA Joined ==
  ASSUME NEW S, NEW a \in Seq(S), NEW b \in Seq(S)
  PROVE  /\ a \o b \in Seq(S) /\ Len(a \o b) = Len(a) + Len(b)
         /\ \A k \in DOMAIN a : k \in DOMAIN (a \o b) /\ (a \o b)[k] = a[k]
         /\ \A p \in 1 .. Len(b) :
              Len(a) + p \in DOMAIN (a \o b) /\ (a \o b)[Len(a) + p] = b[p]
  OBVIOUS

\* Whatever is in one of the sequences is in s.
Covers(s, seqs) ==
  \A i \in 1 .. Len(seqs) : \A p \in DOMAIN seqs[i] : \E k \in DOMAIN s : s[k] = seqs[i][p]

\* The concatenation of sequences is a sequence, and whatever is in one of them is in it.
LEMMA Flattened ==
  ASSUME NEW S, NEW seqs \in Seq(Seq(S)), Len(seqs) # 0
  PROVE  FlattenSeq(seqs) \in Seq(S) /\ Covers(FlattenSeq(seqs), seqs)
<1> DEFINE n == Len(seqs)
<1>0. n \in Nat \ {0} /\ \A i \in 1 .. n : seqs[i] \in Seq(S)
  OBVIOUS
<1> DEFINE Is(f, m) == f = [i \in 1 .. m |-> IF i = 1 THEN seqs[i] ELSE f[i - 1] \o seqs[i]]
           Made == {m \in Nat : \E f : Is(f, m)}
<1>1. 0 \in Made
  <2>1. Is([i \in 1 .. 0 |-> 0], 0)
    OBVIOUS
  <2> QED
    BY <2>1
<1>2. \A m \in Nat : m \in Made => m + 1 \in Made
  <2> TAKE m \in Nat
  <2> HAVE m \in Made
  <2> PICK f : Is(f, m)
    BY Zenon
  <2> DEFINE g == [i \in 1 .. m + 1 |-> IF i = 1 THEN seqs[i]
                                        ELSE IF i = m + 1 THEN f[m] \o seqs[i] ELSE f[i]]
  <2>1. \A i \in 1 .. m : f[i] = IF i = 1 THEN seqs[i] ELSE f[i - 1] \o seqs[i]
    <3> DEFINE e == [i \in 1 .. m |-> IF i = 1 THEN seqs[i] ELSE f[i - 1] \o seqs[i]]
    <3>1. f = e
      OBVIOUS
    <3>2. \A i \in 1 .. m : e[i] = IF i = 1 THEN seqs[i] ELSE f[i - 1] \o seqs[i]
      OBVIOUS
    <3> QED
      BY <3>1, <3>2, Zenon
  <2>2. \A i \in 1 .. m : g[i] = f[i]
    BY <2>1
  <2>3. \A i \in 1 .. m + 1 : g[i] = IF i = 1 THEN seqs[i] ELSE g[i - 1] \o seqs[i]
    <3> TAKE i \in 1 .. m + 1
    <3>1. CASE i = 1
      BY <3>1
    <3>2. CASE i # 1
      <4>1. i - 1 \in 1 .. m /\ g[i - 1] = f[i - 1]
        BY <2>2, <3>2
      <4>2. CASE i = m + 1
        <5>1. g[i] = f[m] \o seqs[i]
          BY <3>2, <4>2
        <5>2. i - 1 = m
          BY <4>2
        <5> QED
          BY <3>2, <4>1, <5>1, <5>2
      <4>3. CASE i # m + 1
        <5>1. i \in 1 .. m
          BY <4>3
        <5>2. g[i] = f[i] /\ f[i] = f[i - 1] \o seqs[i]
          BY <2>1, <2>2, <3>2, <5>1
        <5> QED
          BY <3>2, <4>1, <5>2
      <4> QED
        BY <4>2, <4>3
    <3> QED
      BY <3>1, <3>2
  <2>4. Is(g, m + 1)
    <3> DEFINE h == [i \in 1 .. m + 1 |-> IF i = 1 THEN seqs[i] ELSE g[i - 1] \o seqs[i]]
    <3>1. \A i \in 1 .. m + 1 : h[i] = g[i]
      BY <2>3
    <3>2. h = g
      <4> HIDE DEF h
      <4>1. h = [i \in 1 .. m + 1 |-> h[i]] /\ g = [i \in 1 .. m + 1 |-> g[i]]
        BY DEF h
      <4> QED
        BY <3>1, <4>1
    <3> QED
      BY <3>2
  <2>5. m + 1 \in Nat
    OBVIOUS
  <2> QED
    BY <2>4, <2>5, Zenon
<1>3. n \in Made
  <2> HIDE DEF Made
  <2> QED
    BY <1>1, <1>2, SetInduction
<1> DEFINE f == CHOOSE f : Is(f, n)
<1>4. Is(f, n)
  BY <1>3
<1>5. FlattenSeq(seqs) = f[n]
  BY DEF FlattenSeq
<1> HIDE DEF f
<1>6. \A i \in 1 .. n : f[i] = IF i = 1 THEN seqs[i] ELSE f[i - 1] \o seqs[i]
  <2> DEFINE e == [i \in 1 .. n |-> IF i = 1 THEN seqs[i] ELSE f[i - 1] \o seqs[i]]
  <2>1. f = e
    BY <1>4
  <2>2. \A i \in 1 .. n : e[i] = IF i = 1 THEN seqs[i] ELSE f[i - 1] \o seqs[i]
    OBVIOUS
  <2> QED
    BY <2>1, <2>2, Zenon
<1> DEFINE Holds(j) == /\ f[j] \in Seq(S)
                       /\ \A i \in 1 .. j : \A p \in DOMAIN seqs[i] :
                            \E k \in DOMAIN f[j] : f[j][k] = seqs[i][p]
           So == {j \in Nat : j \in 1 .. n => Holds(j)}
<1>7. 0 \in So
  OBVIOUS
<1>8. \A j \in Nat : j \in So => j + 1 \in So
  <2> TAKE j \in Nat
  <2> HAVE j \in So
  <2> SUFFICES ASSUME j + 1 \in 1 .. n PROVE Holds(j + 1)
    <3> HIDE DEF Holds
    <3> QED
      OBVIOUS
  <2>0. j \in 1 .. n => Holds(j)
    <3> HIDE DEF Holds
    <3> QED
      OBVIOUS
  <2>1. seqs[j + 1] \in Seq(S)
    OBVIOUS
  <2>2. CASE j = 0
    <3>1. f[j + 1] = seqs[j + 1]
      <4>1. j + 1 = 1
        BY <2>2
      <4> HIDE DEF n
      <4> QED
        BY <1>6, <4>1
    <3> QED
      BY <2>1, <2>2, <3>1
  <2>3. CASE j # 0
    <3>1. Holds(j) /\ j \in 1 .. n
      <4> HIDE DEF Holds
      <4> QED
        BY <2>0, <2>3
    <3>2. f[j + 1] = f[j] \o seqs[j + 1]
      <4>1. j + 1 # 1 /\ (j + 1) - 1 = j
        BY <2>3
      <4> QED
        BY <1>6, <4>1
    <3> HIDE DEF Holds
    <3>3. f[j] \in Seq(S) /\ f[j + 1] \in Seq(S)
      BY <2>1, <3>1, <3>2 DEF Holds
    <3>5. /\ \A k \in DOMAIN f[j] : k \in DOMAIN f[j + 1] /\ f[j + 1][k] = f[j][k]
          /\ \A p \in 1 .. Len(seqs[j + 1]) :
               Len(f[j]) + p \in DOMAIN f[j + 1] /\ f[j + 1][Len(f[j]) + p] = seqs[j + 1][p]
      <4> DEFINE a == f[j]
                 b == seqs[j + 1]
      <4>1. a \in Seq(S) /\ b \in Seq(S) /\ f[j + 1] = a \o b
        BY <2>1, <3>2, <3>3
      <4> HIDE DEF a, b
      <4>2. /\ \A k \in DOMAIN a : k \in DOMAIN (a \o b) /\ (a \o b)[k] = a[k]
            /\ \A p \in 1 .. Len(b) :
                 Len(a) + p \in DOMAIN (a \o b) /\ (a \o b)[Len(a) + p] = b[p]
        BY <4>1, Joined
      <4>3. /\ \A k \in DOMAIN a : k \in DOMAIN f[j + 1] /\ f[j + 1][k] = a[k]
            /\ \A p \in 1 .. Len(b) :
                 Len(a) + p \in DOMAIN f[j + 1] /\ f[j + 1][Len(a) + p] = b[p]
        BY <4>1, <4>2, Zenon
      <4> QED
        BY <4>3 DEF a, b
    <3>4. ASSUME NEW i \in 1 .. j + 1, NEW p \in DOMAIN seqs[i]
          PROVE  \E k \in DOMAIN f[j + 1] : f[j + 1][k] = seqs[i][p]
      <4>1. CASE i = j + 1
        <5>1. p \in 1 .. Len(seqs[j + 1])
          BY <2>1, <4>1
        <5>2. Len(f[j]) + p \in DOMAIN f[j + 1] /\ f[j + 1][Len(f[j]) + p] = seqs[i][p]
          BY <3>5, <4>1, <5>1
        <5> QED
          BY <5>2
      <4>2. CASE i # j + 1
        <5>1. PICK k \in DOMAIN f[j] : f[j][k] = seqs[i][p]
          BY <3>1, <4>2 DEF Holds
        <5>2. k \in DOMAIN f[j + 1] /\ f[j + 1][k] = f[j][k]
          BY <3>5, <5>1
        <5> QED
          BY <5>1, <5>2
      <4> QED
        BY <4>1, <4>2
    <3> QED
      BY <3>3, <3>4 DEF Holds
  <2> QED
    BY <2>2, <2>3
<1>9. Holds(n)
  <2> HIDE DEF Holds
  <2>1. n \in So
    <3> HIDE DEF So
    <3> QED
      BY <1>7, <1>8, SetInduction
  <2> QED
    BY <2>1
<1> QED
  BY <1>5, <1>9 DEF Covers

----------------------------------------------------------------------------
(* The transactions of a call.                                              *)

\* A source: its tables are finite, and their rows have their keys, of numbers.
SourceOK(source) ==
  \A table \in TableNames \cap DOMAIN source :
    /\ IsFiniteSet(source[table])
    /\ \A r \in source[table] :
         /\ KeyColumns(table) \subseteq DOMAIN r
         /\ Place(table, r) \in Int
         /\ table = "observations" => "raw" \in DOMAIN r

Kinds(apply) == IF apply THEN {"batch", "progress", "sequence"} ELSE {"batch"}
Steps(source, apply) ==
  [kind : Kinds(apply), table : TableNames,
   rows : SUBSET UNION {source[table] : table \in TableNames \cap DOMAIN source}]

\* A quotient: its multiple of the divisor is the next below.
LEMMA Quotient ==
  ASSUME NEW n \in Nat \ {0}, NEW a \in Nat
  PROVE  a \div n \in Nat /\ (a \div n) * n <= a /\ a < (a \div n) * n + n
  OBVIOUS

\* Places before the c-th fall into the first c / size batches, rounded up.
LEMMA LastBatch ==
  ASSUME NEW size \in Nat \ {0}, NEW c \in Nat, NEW rank \in Nat, rank < c
  PROVE  (rank \div size) + 1 \in 1 .. (c + size - 1) \div size
<1> DEFINE a == rank \div size
           q == (c + size - 1) \div size
<1>1. a \in Nat /\ a * size <= rank
  BY Quotient
<1>2. c + size - 1 \in Nat
  OBVIOUS
<1>3. q \in Nat /\ c + size - 1 < q * size + size
  BY <1>2, Quotient
<1> HIDE DEF a, q
<1>4. a < q
  <2> SUFFICES ASSUME q <= a PROVE FALSE
    BY <1>1, <1>3
  <2>1. q * size <= a * size
    BY <1>1, <1>3, SMTT(30)
  <2>2. q * size \in Int /\ a * size \in Int
    BY <1>1, <1>3
  <2> QED
    BY <1>1, <1>3, <2>1, <2>2
<1> QED
  BY <1>1, <1>3, <1>4 DEF a, q

\* Every row of a table is in one of its batches.
LEMMA BatchesCover ==
  ASSUME NEW table \in TableNames, NEW rows, IsFiniteSet(rows),
         \A r \in rows : Place(table, r) \in Int, NEW size \in Nat \ {0}
  PROVE  /\ Batches(table, rows, size)
              \in Seq([kind : {"batch"}, table : {table}, rows : SUBSET rows])
         /\ \A r \in rows : \E p \in DOMAIN Batches(table, rows, size) :
              r \in Batches(table, rows, size)[p].rows
<1> DEFINE c == Cardinality(rows)
           last == (c + size - 1) \div size
           At(n) == [kind |-> "batch", table |-> table,
                     rows |-> {r \in rows : Rank(table, rows, r) \div size = n - 1}]
<1>1. c \in Nat
  BY FS_CardinalityType
<1>2. last \in Nat
  <2>1. c + size - 1 \in Nat
    BY <1>1
  <2> QED
    BY <2>1, Quotient
<1>3. Batches(table, rows, size) = [n \in 1 .. last |-> At(n)]
  BY DEF Batches, InBatches
<1>4. \A n \in 1 .. last : At(n) \in [kind : {"batch"}, table : {table}, rows : SUBSET rows]
  OBVIOUS
<1>5. ASSUME NEW r \in rows PROVE Rank(table, rows, r) \in Nat /\ Rank(table, rows, r) < c
  <2> DEFINE before == {o \in rows : Place(table, o) < Place(table, r)}
  <2>1. before \in SUBSET (rows \ {r})
    OBVIOUS
  <2>2. IsFiniteSet(rows \ {r}) /\ Cardinality(rows \ {r}) = c - 1
    BY FS_RemoveElement
  <2>3. IsFiniteSet(before) /\ Cardinality(before) <= c - 1
    BY <2>1, <2>2, FS_Subset
  <2>4. Cardinality(before) \in Nat
    BY <2>3, FS_CardinalityType
  <2> QED
    BY <1>1, <2>3, <2>4 DEF Rank
<1>6. ASSUME NEW r \in rows
      PROVE  \E n \in 1 .. last : r \in At(n).rows
  <2> DEFINE n == (Rank(table, rows, r) \div size) + 1
  <2>1. n \in 1 .. last
    BY <1>1, <1>5, LastBatch
  <2>2. Rank(table, rows, r) \div size \in Nat
    BY <1>5, Quotient
  <2>3. r \in At(n).rows
    BY <2>2
  <2> QED
    BY <2>1, <2>3
<1> HIDE DEF last, At
<1> QED
  BY <1>2, <1>3, <1>4, <1>6

\* What a table adds to a call: its batches, and what follows a table that was copied.
Parts(source, size, apply) ==
  [n \in DOMAIN TransferOrder |->
    LET table == TransferOrder[n]
    IN  IF table \notin DOMAIN source THEN <<>>
        ELSE Batches(table, source[table], size) \o Completing(table, source[table], apply)]

\* The transactions of a call are batches, when it applies them also progress and
\* sequences, and every row of the source is in one of the batches.
LEMMA StepsOfCall ==
  ASSUME NEW source, SourceOK(source), NEW size \in Nat \ {0}, NEW apply \in BOOLEAN
  PROVE  /\ Transactions(source, size, apply) \in Seq(Steps(source, apply))
         /\ \A table \in TableNames \cap DOMAIN source : \A r \in source[table] :
              \E k \in DOMAIN Transactions(source, size, apply) :
                LET step == Transactions(source, size, apply)[k]
                IN  step.kind = "batch" /\ step.table = table /\ r \in step.rows
<1> DEFINE parts == Parts(source, size, apply)
           S == Steps(source, apply)
<1>1. DOMAIN TransferOrder = 1 .. 6 /\ \A n \in 1 .. 6 : TransferOrder[n] \in TableNames
  <2>1. DOMAIN TransferOrder = 1 .. 6
    BY DEF TransferOrder
  <2> QED
    BY <2>1 DEF TableNames, Range
<1>2. ASSUME NEW n \in 1 .. 6
      PROVE  LET table == TransferOrder[n]
             IN  /\ parts[n] \in Seq(S)
                 /\ table \in DOMAIN source => \A r \in source[table] : \E p \in DOMAIN parts[n] :
                      /\ parts[n][p].kind = "batch" /\ parts[n][p].table = table
                      /\ r \in parts[n][p].rows
  <2> DEFINE table == TransferOrder[n]
             a == Batches(table, source[table], size)
             b == Completing(table, source[table], apply)
  <2>1. table \in TableNames
    BY <1>1
  <2>2. CASE table \notin DOMAIN source
    <3>1. parts[n] = <<>>
      BY <1>1, <2>2 DEF Parts
    <3> QED
      BY <2>2, <3>1
  <2>3. CASE table \in DOMAIN source
    <3>1. parts[n] = a \o b
      BY <1>1, <2>3 DEF Parts
    <3>2. /\ IsFiniteSet(source[table]) /\ \A r \in source[table] : Place(table, r) \in Int
      <4> HIDE DEF table
      <4> QED
        BY <2>1, <2>3, Zenon DEF SourceOK
    <3>3. source[table] \subseteq UNION {source[t] : t \in TableNames \cap DOMAIN source}
      BY <2>1, <2>3
    <3> HIDE DEF table
    <3>4. /\ a \in Seq([kind : {"batch"}, table : {table}, rows : SUBSET source[table]])
          /\ \A r \in source[table] : \E p \in DOMAIN a : r \in a[p].rows
      BY <2>1, <3>2, BatchesCover
    <3>5. [kind : {"batch"}, table : {table}, rows : SUBSET source[table]] \subseteq S
      BY <2>1, <3>3 DEF Steps, Kinds
    <3> DEFINE T == [kind : {"batch"}, table : {table}, rows : SUBSET source[table]]
    <3>6. a \in Seq(S) /\ \A p \in DOMAIN a : a[p] \in T
      <4> HIDE DEF a, T, S
      <4>1. a \in Seq(T) /\ T \subseteq S
        BY <3>4, <3>5 DEF T, S
      <4> QED
        BY <4>1
    <3>7. b \in Seq(S)
      <4> DEFINE one == [kind |-> "progress", table |-> table, rows |-> source[table]]
                 two == [kind |-> "sequence", table |-> table, rows |-> {}]
      <4>1. CASE apply
        <5>1. one \in S /\ two \in S
          BY <2>1, <3>3, <4>1 DEF Steps, Kinds
        <5>2. b = <<one>> \o (IF table \in Serial THEN <<two>> ELSE <<>>)
          BY <4>1 DEF Completing
        <5> HIDE DEF one, two, S, b
        <5> QED
          BY <5>1, <5>2
      <4>2. CASE ~apply
        <5>1. b = <<>> \o <<>>
          BY <4>2 DEF Completing
        <5> HIDE DEF S, b
        <5> QED
          BY <5>1
      <4> QED
        BY <4>1, <4>2
    <3>8. /\ a \o b \in Seq(S)
          /\ \A p \in DOMAIN a : p \in DOMAIN (a \o b) /\ (a \o b)[p] = a[p]
      <4> HIDE DEF a, b, S
      <4> QED
        BY <3>6, <3>7, Joined
    <3>9. \A p \in DOMAIN a : a[p].kind = "batch" /\ a[p].table = table
      <4> HIDE DEF a
      <4> QED
        BY <3>6
    <3> HIDE DEF a, b, S, parts
    <3>10. /\ parts[n] \in Seq(S)
           /\ \A r \in source[table] : \E p \in DOMAIN parts[n] :
                 /\ parts[n][p].kind = "batch" /\ parts[n][p].table = table
                 /\ r \in parts[n][p].rows
      BY <3>1, <3>4, <3>8, <3>9
    <3> QED
      BY <3>10 DEF table
  <2> QED
    BY <2>2, <2>3
<1>3. parts \in Seq(Seq(S)) /\ Len(parts) = 6
  <2>1. parts = [n \in 1 .. 6 |-> parts[n]]
    BY <1>1 DEF Parts
  <2> HIDE DEF parts, S
  <2> QED
    BY <1>2, <2>1
<1>4. Transactions(source, size, apply) = FlattenSeq(parts)
  BY DEF Transactions, Parts
<1> DEFINE steps == FlattenSeq(parts)
<1> HIDE DEF parts, S, steps
<1>5. /\ steps \in Seq(S)
      /\ \A i \in 1 .. 6 : \A p \in DOMAIN parts[i] : \E k \in DOMAIN steps : steps[k] = parts[i][p]
  <2>1. Len(parts) # 0
    BY <1>3
  <2>2. FlattenSeq(parts) \in Seq(S) /\ Covers(FlattenSeq(parts), parts)
    BY <1>3, <2>1, Flattened
  <2> QED
    BY <1>3, <2>2 DEF steps, Covers
<1>6. ASSUME NEW table \in TableNames \cap DOMAIN source, NEW r \in source[table]
      PROVE  \E k \in DOMAIN steps :
               steps[k].kind = "batch" /\ steps[k].table = table /\ r \in steps[k].rows
  <2>1. PICK n \in 1 .. 6 : TransferOrder[n] = table
    BY <1>1 DEF TableNames, Range
  <2>2. PICK p \in DOMAIN parts[n] : /\ parts[n][p].kind = "batch" /\ parts[n][p].table = table
                                     /\ r \in parts[n][p].rows
    BY <1>2, <2>1
  <2> QED
    BY <1>5, <2>2
<1> QED
  BY <1>4, <1>5, <1>6 DEF S, steps

----------------------------------------------------------------------------
(* One transaction.                                                         *)

\* A target has its tables; the state of a call is what a call starts with, changed.
TargetOK(db) ==
  /\ db = [rows |-> db.rows, next |-> db.next, progress |-> db.progress]
  /\ DOMAIN db.rows = TableNames
CallOK(call) ==
  /\ call = [db |-> call.db, copied |-> call.copied, conflicts |-> call.conflicts,
             failed |-> call.failed]
  /\ TargetOK(call.db)

\* A row is in the target, with the columns it has.
Arrived(rows, table, r) == \E e \in Existing(rows[table], table, r) : ~Differs(e, r)

\* What was in a table stays there, and with it what has arrived.
LEMMA KeptArrives ==
  ASSUME NEW before, NEW after, Kept(before, after), NEW table \in TableNames, NEW r,
         Arrived(before.rows, table, r)
  PROVE  Arrived(after.rows, table, r)
  BY DEF Arrived, Existing, Kept

LEMMA KeptIsTransitive ==
  ASSUME NEW a, NEW b, NEW c, Kept(a, b), Kept(b, c)
  PROVE  Kept(a, c)
  BY DEF Kept

\* A row that is written with what it lacks differs in nothing from the one read.
LEMMA CompletedArrives ==
  ASSUME NEW table \in TableNames, NEW r, KeyColumns(table) \subseteq DOMAIN r
  PROVE  /\ Same(Completed(table, r), r, KeyColumns(table))
         /\ ~Differs(Completed(table, r), r)
<1> DEFINE e == Completed(table, r)
<1>1. \A c \in DOMAIN r : e[c] = r[c]
  BY DEF Completed
<1> HIDE DEF e
<1>2. Same(e, r, KeyColumns(table)) /\ ~Differs(e, r)
  BY <1>1 DEF Same, Differs
<1> QED
  BY <1>2 DEF e

\* A table is still valid when the others, which it may refer to, have grown.
LEMMA OthersStayValid ==
  ASSUME NEW before, NEW after, NEW table \in TableNames, Valid(before, table),
         after[table] = before[table], \A t \in TableNames : before[t] \subseteq after[t]
  PROVE  Valid(after, table)
<1>1. \A f \in References(table) : f[2] \in TableNames
  BY DEF References, TableNames, TransferOrder, Range
<1> QED
  BY <1>1 DEF Valid

\* What a transaction makes of the state of a call.
Advances(call, after, step, apply) ==
  /\ CallOK(after) /\ Kept(call.db, after.db)
  /\ Related(call.db) => Related(after.db)
  /\ ~apply => after.db = call.db
  /\ Passes(after) => Passes(call)
  /\ apply /\ Passes(after) /\ step.kind = "batch" =>
       \A r \in step.rows : KeyColumns(step.table) \subseteq DOMAIN r =>
         Arrived(after.db.rows, step.table, r)

\* One transaction keeps every row and every relation; when it succeeds without a
\* conflict, its batch has arrived.
LEMMA ExecuteKeeps ==
  ASSUME NEW call, CallOK(call), NEW apply \in BOOLEAN, NEW source, SourceOK(source),
         NEW step \in Steps(source, apply)
  PROVE  Advances(call, Execute(call, step, apply), step, apply)
<1> DEFINE after == Execute(call, step, apply)
           table == step.table
           rows  == call.db.rows
           missing == {r \in step.rows : Existing(rows[table], table, r) = {}}
           unequal == {r \in step.rows : \E e \in Existing(rows[table], table, r) : Differs(e, r)}
           written == [rows EXCEPT ![table] = @ \cup {Completed(table, r) : r \in missing}]
<1>1. table \in TableNames /\ step.kind \in Kinds(apply) /\ TargetOK(call.db)
  BY DEF Steps, CallOK
<1>2. CASE call.failed
  <2>1. after = call
    BY <1>2 DEF Execute
  <2> QED
    BY <1>2, <2>1 DEF Advances, Passes, Kept
<1>3. CASE ~call.failed /\ step.kind # "batch"
  <2>1. apply /\ step.kind \in {"progress", "sequence"}
    BY <1>1, <1>3 DEF Kinds
  <2>2. \/ after = [call EXCEPT !.db.progress[step.table] = Cardinality(step.rows)]
        \/ after = [call EXCEPT !.db.next[step.table] = Synchronized(call.db.rows[step.table])]
    BY <1>3, <2>1 DEF Execute
  <2>3. /\ CallOK(after) /\ after.db.rows = call.db.rows
        /\ after.failed = call.failed /\ after.conflicts = call.conflicts
    BY <2>2 DEF CallOK, TargetOK
  <2> HIDE DEF after
  <2>4. Advances(call, after, step, apply)
    BY <1>3, <2>1, <2>3 DEF Advances, Kept, Related, Passes
  <2> QED
    BY <2>4 DEF after
<1>4. CASE ~call.failed /\ step.kind = "batch"
  <2>1. after = WriteBatch(call, table, step.rows, apply)
    BY <1>4 DEF Execute
  <2>2. CASE apply /\ ~Valid(written, table)
    <3>1. after = [call EXCEPT !.failed = TRUE]
      BY <2>1, <2>2 DEF WriteBatch
    <3>2. CallOK(after) /\ after.db = call.db /\ after.failed
      BY <3>1 DEF CallOK
    <3> HIDE DEF after
    <3>3. Advances(call, after, step, apply)
      BY <2>2, <3>2 DEF Advances, Kept, Passes
    <3> QED
      BY <3>3 DEF after
  <2>3. CASE ~(apply /\ ~Valid(written, table))
    <3>1. after = [call EXCEPT !.copied = @ + Cardinality(missing),
                               !.conflicts = @ \cup {<<table, r>> : r \in unequal},
                               !.db.rows = IF apply THEN written ELSE @]
      BY <2>1, <2>3 DEF WriteBatch
    <3> HIDE DEF missing, unequal
    <3>2. /\ CallOK(after) /\ after.failed = call.failed
          /\ after.conflicts = call.conflicts \cup {<<table, r>> : r \in unequal}
          /\ apply => after.db.rows = written
          /\ ~apply => after.db = call.db
      <4> DEFINE conflicts == call.conflicts \cup {<<table, r>> : r \in unequal}
                 copied == call.copied + Cardinality(missing)
                 stored == IF apply THEN written ELSE rows
      <4>1. call = [db |-> call.db, copied |-> call.copied, conflicts |-> call.conflicts,
                    failed |-> call.failed]
        BY DEF CallOK
      <4>2. call.db = [rows |-> rows, next |-> call.db.next, progress |-> call.db.progress]
        BY <1>1 DEF TargetOK
      <4>3. DOMAIN written = TableNames /\ DOMAIN rows = TableNames
        BY <1>1 DEF TargetOK
      <4> HIDE DEF conflicts, copied, written
      <4>4. after = [db |-> [rows |-> stored, next |-> call.db.next,
                             progress |-> call.db.progress],
                     copied |-> copied, conflicts |-> conflicts, failed |-> call.failed]
        BY <3>1, <4>1, <4>2 DEF conflicts, copied
      <4> HIDE DEF after, stored
      <4>5. DOMAIN stored = TableNames /\ (apply => stored = written) /\ (~apply => stored = rows)
        BY <4>3 DEF stored
      <4>6. CallOK(after) /\ after.failed = call.failed /\ after.conflicts = conflicts
        BY <4>4, <4>5 DEF CallOK, TargetOK
      <4>7. after.db = [rows |-> stored, next |-> call.db.next, progress |-> call.db.progress]
        BY <4>4
      <4> QED
        BY <4>2, <4>5, <4>6, <4>7 DEF conflicts
    <3>3. /\ written[table] = rows[table] \cup {Completed(table, r) : r \in missing}
          /\ \A t \in TableNames \ {table} : written[t] = rows[t]
      BY <1>1 DEF TargetOK
    <3> HIDE DEF after, written, table
    <3>4. Kept(call.db, after.db)
      BY <3>2, <3>3 DEF Kept
    <3>5. Passes(after) => Passes(call)
      BY <3>2 DEF Passes
    <3>6. Related(call.db) => Related(after.db)
      <4> SUFFICES ASSUME Related(call.db), apply PROVE Related(after.db)
        BY <3>2
      <4>1. \A t \in TableNames : rows[t] \subseteq written[t]
        BY <3>3
      <4>2. ASSUME NEW t \in TableNames PROVE Valid(written, t)
        <5>1. CASE t = table
          BY <2>3, <5>1
        <5>2. CASE t # table
          BY <3>3, <4>1, <5>2, OthersStayValid DEF Related
        <5> QED
          BY <5>1, <5>2
      <4> QED
        BY <3>2, <4>2 DEF Related
    <3>7. ASSUME apply, Passes(after), NEW r \in step.rows, KeyColumns(table) \subseteq DOMAIN r
          PROVE  Arrived(after.db.rows, table, r)
      <4>1. r \notin unequal
        BY <3>2, <3>7 DEF Passes
      <4>2. CASE r \in missing
        <5>1. Completed(table, r) \in written[table]
          BY <3>3, <4>2
        <5> QED
          BY <1>1, <3>2, <3>7, <5>1, CompletedArrives DEF Arrived, Existing
      <4>3. CASE r \notin missing
        <5>1. PICK e \in Existing(rows[table], table, r) : TRUE
          BY <4>3 DEF missing
        <5>2. ~Differs(e, r)
          BY <4>1, <5>1 DEF unequal
        <5> QED
          BY <3>2, <3>3, <3>7, <5>1, <5>2 DEF Arrived, Existing
      <4> QED
        BY <4>2, <4>3
    <3>8. Advances(call, after, step, apply)
      BY <3>2, <3>4, <3>5, <3>6, <3>7 DEF Advances, table
    <3> QED
      BY <3>8 DEF after
  <2> QED
    BY <2>2, <2>3
<1> QED
  BY <1>2, <1>3, <1>4

----------------------------------------------------------------------------
(* A call, cut off anywhere or whole.                                       *)

Begun(db) == [db |-> db, copied |-> 0, conflicts |-> {}, failed |-> FALSE]

\* call is the state after each of the first n transactions.
Calls(call, source, db, size, apply, n) ==
  /\ call[0] = Begun(db)
  /\ \A k \in 1 .. n :
       call[k] = Execute(call[k - 1], Transactions(source, size, apply)[k], apply)

\* What TransferTo defines there is.
LEMMA CallsAreMade ==
  ASSUME NEW source, NEW db, NEW size, NEW apply \in BOOLEAN, NEW n \in Nat
  PROVE  \E call : /\ Calls(call, source, db, size, apply, n)
                   /\ TransferTo(source, db, size, apply, n) = call[n]
<1> DEFINE steps == Transactions(source, size, apply)
           Is(f, m) == f = [k \in 0 .. m |-> IF k = 0 THEN Begun(db)
                                            ELSE Execute(f[k - 1], steps[k], apply)]
           Made == {m \in Nat : \E f : Is(f, m)}
<1> HIDE DEF steps
<1>1. 0 \in Made
  <2>1. Is([k \in 0 .. 0 |-> Begun(db)], 0)
    OBVIOUS
  <2> QED
    BY <2>1
<1>2. \A m \in Nat : m \in Made => m + 1 \in Made
  <2> TAKE m \in Nat
  <2> HAVE m \in Made
  <2> PICK f : Is(f, m)
    BY Zenon
  <2> DEFINE g == [k \in 0 .. m + 1 |-> IF k = m + 1 THEN Execute(f[m], steps[k], apply) ELSE f[k]]
             h == [k \in 0 .. m + 1 |-> IF k = 0 THEN Begun(db)
                                        ELSE Execute(g[k - 1], steps[k], apply)]
  <2>1. \A k \in 0 .. m : f[k] = IF k = 0 THEN Begun(db) ELSE Execute(f[k - 1], steps[k], apply)
    <3> DEFINE e == [k \in 0 .. m |-> IF k = 0 THEN Begun(db)
                                      ELSE Execute(f[k - 1], steps[k], apply)]
    <3>1. \A k \in 0 .. m :
            e[k] = IF k = 0 THEN Begun(db) ELSE Execute(f[k - 1], steps[k], apply)
      OBVIOUS
    <3> QED
      BY <3>1, Zenon
  <2>2. /\ \A k \in 0 .. m : g[k] = f[k]
        /\ g[m + 1] = Execute(f[m], steps[m + 1], apply)
    OBVIOUS
  <2>3. \A k \in 0 .. m + 1 : g[k] = h[k]
    <3> TAKE k \in 0 .. m + 1
    <3>1. h[k] = IF k = 0 THEN Begun(db) ELSE Execute(g[k - 1], steps[k], apply)
      OBVIOUS
    <3> HIDE DEF g, h
    <3>2. CASE k = m + 1
      <4>1. k # 0 /\ k - 1 = m /\ m \in 0 .. m
        BY <3>2
      <4> QED
        BY <2>2, <3>1, <3>2, <4>1
    <3>3. CASE k # m + 1 /\ k # 0
      <4>1. k \in 0 .. m /\ k - 1 \in 0 .. m
        BY <3>3
      <4> QED
        BY <2>1, <2>2, <3>1, <3>3, <4>1
    <3>4. CASE k = 0
      BY <2>1, <2>2, <3>1, <3>4
    <3> QED
      BY <3>2, <3>3, <3>4
  <2>4. g = h
    <3> HIDE DEF h
    <3>1. h = [k \in 0 .. m + 1 |-> h[k]] /\ g = [k \in 0 .. m + 1 |-> g[k]]
      BY DEF h
    <3> HIDE DEF g
    <3> QED
      BY <2>3, <3>1
  <2>5. Is(g, m + 1) /\ m + 1 \in Nat
    BY <2>4
  <2> QED
    BY <2>5, Zenon
<1>3. n \in Made
  <2> HIDE DEF Made
  <2> QED
    BY <1>1, <1>2, SetInduction
<1> DEFINE call == CHOOSE f : Is(f, n)
<1>4. Is(call, n)
  BY <1>3
<1>5. TransferTo(source, db, size, apply, n) = call[n]
  BY DEF TransferTo, Begun, steps
<1> HIDE DEF call
<1>6. \A k \in 0 .. n :
        call[k] = IF k = 0 THEN Begun(db) ELSE Execute(call[k - 1], steps[k], apply)
  <2> DEFINE e == [k \in 0 .. n |-> IF k = 0 THEN Begun(db)
                                    ELSE Execute(call[k - 1], steps[k], apply)]
  <2>1. \A k \in 0 .. n :
          e[k] = IF k = 0 THEN Begun(db) ELSE Execute(call[k - 1], steps[k], apply)
    OBVIOUS
  <2> QED
    BY <1>4, <2>1, Zenon
<1>7. Calls(call, source, db, size, apply, n)
  BY <1>6 DEF Calls, steps
<1> QED
  BY <1>5, <1>7

\* What the first k transactions have made of the state of a call.
Advanced(call, source, db, size, apply, k) ==
  /\ CallOK(call[k]) /\ Kept(db, call[k].db)
  /\ Related(db) => Related(call[k].db)
  /\ ~apply => call[k].db = db
  /\ apply /\ Passes(call[k]) =>
       \A j \in 1 .. k :
         LET step == Transactions(source, size, apply)[j]
         IN  step.kind = "batch" =>
               \A r \in step.rows : KeyColumns(step.table) \subseteq DOMAIN r =>
                 Arrived(call[k].db.rows, step.table, r)

LEMMA CallsAdvance ==
  ASSUME NEW source, SourceOK(source), NEW db, TargetOK(db), NEW size \in Nat \ {0},
         NEW apply \in BOOLEAN, NEW n \in 0 .. Len(Transactions(source, size, apply)),
         NEW call, Calls(call, source, db, size, apply, n)
  PROVE  Advanced(call, source, db, size, apply, n)
<1> DEFINE steps == Transactions(source, size, apply)
           Sofar(k) == Advanced(call, source, db, size, apply, k)
           Good == {k \in Nat : k <= n => Sofar(k)}
<1>1. steps \in Seq(Steps(source, apply))
  BY StepsOfCall
<1>2. 0 \in Good
  <2>1. call[0] = Begun(db)
    BY DEF Calls
  <2>2. CallOK(call[0]) /\ call[0].db = db
    BY <2>1 DEF Begun, CallOK
  <2>3. Sofar(0)
    BY <2>2 DEF Advanced, Kept
  <2> QED
    BY <2>3
<1>3. \A k \in Nat : k \in Good => k + 1 \in Good
  <2> TAKE k \in Nat
  <2> HAVE k \in Good
  <2> HIDE DEF Sofar
  <2> SUFFICES ASSUME k + 1 <= n PROVE Sofar(k + 1)
    OBVIOUS
  <2>1. Sofar(k)
    OBVIOUS
  <2> DEFINE step == steps[k + 1]
  <2> HIDE DEF steps
  <2>2. k + 1 \in 1 .. n /\ k + 1 \in 1 .. Len(steps) /\ (k + 1) - 1 = k
    BY DEF steps
  <2>3. step \in Steps(source, apply)
    BY <1>1, <2>2
  <2>4. call[k + 1] = Execute(call[k], step, apply)
    BY <2>2 DEF Calls, steps
  <2>5. CallOK(call[k]) /\ Kept(db, call[k].db)
    BY <2>1 DEF Sofar, Advanced
  <2> HIDE DEF step
  <2>6. Advances(call[k], call[k + 1], step, apply)
    BY <2>3, <2>4, <2>5, ExecuteKeeps
  <2>7. Kept(db, call[k + 1].db)
    BY <2>5, <2>6, KeptIsTransitive DEF Advances
  <2>8. ASSUME apply, Passes(call[k + 1]), NEW j \in 1 .. k + 1, steps[j].kind = "batch",
               NEW r \in steps[j].rows, KeyColumns(steps[j].table) \subseteq DOMAIN r
        PROVE  Arrived(call[k + 1].db.rows, steps[j].table, r)
    <3>1. CASE j = k + 1
      BY <2>6, <2>8, <3>1 DEF Advances, step
    <3>2. CASE j # k + 1
      <4>1. j \in 1 .. k /\ Passes(call[k])
        BY <2>6, <2>8, <3>2 DEF Advances
      <4>2. Arrived(call[k].db.rows, steps[j].table, r)
        BY <2>1, <2>8, <4>1 DEF Sofar, Advanced, steps
      <4>3. Kept(call[k].db, call[k + 1].db)
        BY <2>6 DEF Advances
      <4>4. steps[j].table \in TableNames
        <5>1. j \in 1 .. Len(steps)
          BY <2>2, <4>1
        <5>2. steps[j] \in Steps(source, apply)
          BY <1>1, <5>1
        <5> HIDE DEF steps
        <5> QED
          BY <5>2 DEF Steps
      <4> QED
        BY <4>2, <4>3, <4>4, KeptArrives
    <3> QED
      BY <3>1, <3>2
  <2> QED
    BY <2>1, <2>6, <2>7, <2>8 DEF Sofar, Advanced, Advances, steps
<1>4. n \in Good
  <2> HIDE DEF Good
  <2> QED
    BY <1>2, <1>3, SetInduction
<1> QED
  BY <1>4

\* However many of its transactions a call has made, and whichever of them failed or met
\* a conflict: no row of the target is lost or rewritten, and keys and references are as
\* sound as they were; a dry run changes nothing.
THEOREM TransferLosesNothing ==
  ASSUME NEW source, SourceOK(source), NEW db, TargetOK(db), NEW size \in Nat \ {0},
         NEW apply \in BOOLEAN, NEW n \in 0 .. Len(Transactions(source, size, apply))
  PROVE  LET cut == TransferTo(source, db, size, apply, n).db
         IN  /\ Kept(db, cut)
             /\ Related(db) => Related(cut)
             /\ ~apply => cut = db
<1>1. n \in Nat
  OBVIOUS
<1>2. PICK call : /\ Calls(call, source, db, size, apply, n)
                  /\ TransferTo(source, db, size, apply, n) = call[n]
  BY <1>1, CallsAreMade
<1>3. Advanced(call, source, db, size, apply, n)
  BY <1>2, CallsAdvance
<1> QED
  BY <1>2, <1>3 DEF Advanced

\* What PASS is worth: a call that ends without a failure and without a conflict has
\* brought every row of the source, whatever the target was and however it was cut into
\* transactions before; when the target's keys and references were sound, validation of
\* what is preserved succeeds, the count of the matched observations included.
THEOREM PassIsPreserved ==
  ASSUME NEW source, SourceOK(source), NEW db, TargetOK(db), NEW size \in Nat \ {0}
  PROVE  LET done == Transfer(source, db, size, TRUE)
         IN  Passes(done) =>
               /\ Preserved(source, done.db)
               /\ Related(db) => ValidatePreserved(source, done.db)
<1> DEFINE steps == Transactions(source, size, TRUE)
           n == Len(steps)
           done == Transfer(source, db, size, TRUE)
           after == done.db
<1>1. /\ steps \in Seq(Steps(source, TRUE))
      /\ \A table \in TableNames \cap DOMAIN source : \A r \in source[table] :
           \E k \in DOMAIN steps :
             steps[k].kind = "batch" /\ steps[k].table = table /\ r \in steps[k].rows
  BY StepsOfCall
<1>2. n \in Nat /\ n \in 0 .. n /\ DOMAIN steps = 1 .. n
  <2> HIDE DEF steps
  <2> QED
    BY <1>1
<1>3. PICK call : Calls(call, source, db, size, TRUE, n) /\ done = call[n]
  <2>1. done = TransferTo(source, db, size, TRUE, n)
    BY DEF Transfer
  <2> HIDE DEF n, done
  <2>2. n \in Nat
    BY <1>2
  <2>3. \A apply \in BOOLEAN : \E call : /\ Calls(call, source, db, size, apply, n)
                                       /\ TransferTo(source, db, size, apply, n) = call[n]
    BY <2>2, CallsAreMade
  <2>4. TRUE \in BOOLEAN
    OBVIOUS
  <2>5. \E call : /\ Calls(call, source, db, size, TRUE, n)
                 /\ TransferTo(source, db, size, TRUE, n) = call[n]
    BY <2>3, <2>4, Zenon
  <2> QED
    BY <2>1, <2>5
<1>4. Advanced(call, source, db, size, TRUE, n)
  BY <1>2, <1>3, CallsAdvance
<1> HIDE DEF n, done, steps
<1> SUFFICES ASSUME Passes(done)
             PROVE  /\ Preserved(source, after)
                    /\ Related(db) => ValidatePreserved(source, after)
  BY DEF done
<1>5. ASSUME NEW table \in TableNames \cap DOMAIN source, NEW r \in source[table]
      PROVE  Arrived(after.rows, table, r)
  <2>1. PICK k \in 1 .. n :
          steps[k].kind = "batch" /\ steps[k].table = table /\ r \in steps[k].rows
    BY <1>1, <1>2
  <2>2. KeyColumns(table) \subseteq DOMAIN r
    BY DEF SourceOK
  <2> QED
    BY <1>3, <1>4, <2>1, <2>2 DEF Advanced, steps
<1>6. Preserved(source, after)
  <2> SUFFICES ASSUME NEW table \in TableNames, NEW r \in RowsOf(source, table)
               PROVE  Arrived(after.rows, table, r)
    BY DEF Preserved, Arrived
  <2>1. table \in DOMAIN source /\ r \in source[table]
    BY DEF RowsOf
  <2> QED
    BY <1>5, <2>1
<1>7. ASSUME Related(db) PROVE ValidatePreserved(source, after)
  <2> DEFINE here == RowsOf(source, "observations")
             there == after.rows["observations"]
             matches == {m \in here \X there : m[1].slot = m[2].slot}
  <2>0. "observations" \in TableNames /\ KeyColumns("observations") = {"slot"}
    BY DEF TableNames, TransferOrder, Range, KeyColumns
  <2>1. Related(after)
    BY <1>3, <1>4, <1>7 DEF Advanced
  <2>2. \A e \in there, o \in there : e.slot = o.slot => e = o
    <3>1. Valid(after.rows, "observations") /\ {"slot"} \in UniqueColumns("observations")
      BY <2>0, <2>1 DEF Related, UniqueColumns
    <3> QED
      BY <3>1 DEF Valid, Same
  <2>3. ASSUME NEW r \in here
        PROVE  \E e \in there : r.slot = e.slot /\ r.raw = e.raw
    <3>1. "observations" \in TableNames \cap DOMAIN source /\ r \in source["observations"]
      BY <2>0 DEF RowsOf
    <3>2. Arrived(after.rows, "observations", r)
      BY <1>5, <3>1
    <3>3. PICK e \in Existing(there, "observations", r) : ~Differs(e, r)
      BY <3>2 DEF Arrived
    <3>4. e \in there /\ Same(e, r, {"slot"})
      BY <2>0 DEF Existing
    <3>5. "raw" \in DOMAIN r
      BY <3>1 DEF SourceOK
    <3>6. e["slot"] = r["slot"] /\ e["raw"] = r["raw"]
      BY <3>3, <3>4, <3>5 DEF Same, Differs
    <3> QED
      BY <3>4, <3>6
  <2> HIDE DEF here, there
  <2>4. \A m \in matches : m[1].raw = m[2].raw
    <3> TAKE m \in matches
    <3>1. m[1] \in here /\ m[2] \in there /\ m[1].slot = m[2].slot
      OBVIOUS
    <3>2. PICK e \in there : m[1].slot = e.slot /\ m[1].raw = e.raw
      BY <2>3, <3>1
    <3>3. e = m[2]
      BY <2>2, <3>1, <3>2
    <3> QED
      BY <3>2, <3>3
  <2>5. Cardinality(matches) = Cardinality(here)
    <3> DEFINE mate(r) == CHOOSE e \in there : r.slot = e.slot
               pair == [r \in here |-> <<r, mate(r)>>]
    <3>1. IsFiniteSet(here)
      <4>1. CASE "observations" \in DOMAIN source
        BY <2>0, <4>1 DEF here, RowsOf, SourceOK
      <4>2. CASE "observations" \notin DOMAIN source
        BY <4>2, FS_EmptySet DEF here, RowsOf
      <4> QED
        BY <4>1, <4>2
    <3>2. \A r \in here : mate(r) \in there /\ r.slot = mate(r).slot
      BY <2>3
    <3> HIDE DEF mate
    <3>3. pair \in [here -> matches]
      BY <3>2
    <3>4. \A r \in here, o \in here : pair[r] = pair[o] => r = o
      OBVIOUS
    <3>5. \A m \in matches : \E r \in here : pair[r] = m
      <4> TAKE m \in matches
      <4>1. m = <<m[1], m[2]>> /\ m[1] \in here /\ m[2] \in there /\ m[1].slot = m[2].slot
        OBVIOUS
      <4>2. mate(m[1]) = m[2]
        BY <2>2, <3>2, <4>1
      <4>3. pair[m[1]] = m
        BY <4>1, <4>2
      <4> QED
        BY <4>1, <4>3
    <3> HIDE DEF pair, matches
    <3>6. ExistsBijection(here, matches)
      <4>1. pair \in Bijection(here, matches)
        BY <3>3, <3>4, <3>5 DEF Bijection, Injection, Surjection, IsInjective
      <4> QED
        BY <4>1 DEF ExistsBijection
    <3> QED
      BY <3>1, <3>6, FS_Bijection
  <2> QED
    BY <1>6, <2>1, <2>4, <2>5 DEF ValidatePreserved, here, there
<1> QED
  BY <1>6, <1>7
=============================================================================
