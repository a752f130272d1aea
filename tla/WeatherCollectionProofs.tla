------------------------ MODULE WeatherCollectionProofs ------------------------
(***************************************************************************)
(* Machine-checked facts about WeatherCollection, for any number of Apps,  *)
(* pages and cycles, any cap and window, whatever answers come and         *)
(* whichever requests, saves and processes fail.                           *)
(*                                                                         *)
(* The argument: cycles are made at increasing times, so that the one that *)
(* collects is the last; the one request that may be reserved is for its   *)
(* next page, and the pages before it were received in order; an answer is *)
(* held by the App that reserved its request and nobody else; and a cycle  *)
(* that collects was opened with the requests for the rest of its pages.   *)
(***************************************************************************)
EXTENDS WeatherCollection, FiniteSetTheorems, SequenceTheorems, WellFoundedInduction, TLAPS

-----------------------------------------------------------------------------
(* The inductive invariant: the archive.                                   *)

\* Cycles are made one after the other, and only the last one can collect.
CyclesInv ==
  /\ \A c, d \in DOMAIN cycles : c < d => cycles[c].made < cycles[d].made
  /\ \A c \in Collecting : c = Len(cycles) /\ cycles[c].pages < MaxPages

\* A request that is out is for the next page of that cycle, the others of which
\* were answered.
RequestsInv == \A i \in DOMAIN attempts :
  /\ attempts[i].status = "RESERVED" =>
       /\ attempts[i].cycle \in Collecting
       /\ attempts[i].number = cycles[attempts[i].cycle].pages + 1
       /\ attempts[i].start = cycles[attempts[i].cycle].next
       /\ attempts[i].targets = {}
  /\ attempts[i].cycle \in Collecting /\ attempts[i].status # "RESERVED" =>
       /\ attempts[i].status = "RECEIVED"
       /\ attempts[i].number <= cycles[attempts[i].cycle].pages
       /\ attempts[i].start < cycles[attempts[i].cycle].next
  /\ attempts[i].status \in {"RESERVED", "UNKNOWN"} => attempts[i].got = None
  /\ attempts[i].status = "RECEIVED" => attempts[i].got # None
  /\ setbacks = 0 => attempts[i].got <= now

\* A page is requested after the answer to the page before has come.
PagesInv == \A i, j \in DOMAIN attempts :
  i < j /\ attempts[i].cycle = attempts[j].cycle =>
    /\ attempts[i].status = "RECEIVED"
    /\ attempts[i].number < attempts[j].number
    /\ attempts[i].start < attempts[j].start
    /\ setbacks = 0 => attempts[i].got <= attempts[j].asked

\* The requests for the rest of its pages were there when a cycle was opened.
FundedInv == \A c \in Collecting :
  Used(cycles[c].made) + MaxPages <= Cap + Cardinality(PagesOf(c))

WholeInv == \A c \in DOMAIN cycles : cycles[c].status = "COMPLETE" =>
  /\ \A i \in PagesOf(c) : attempts[i].status = "RECEIVED"
  /\ \A t \in Window : \E i \in PagesOf(c) : t \in attempts[i].targets
  /\ \A i, j \in PagesOf(c) : i # j => attempts[i].targets \cap attempts[j].targets = {}
  /\ setbacks = 0 => \A i \in PagesOf(c) : attempts[i].got <= cycles[c].closed

-----------------------------------------------------------------------------
(* The inductive invariant: the Apps.                                      *)

\* A page an App holds is of a request of its own.
PageInv(p) == p # NoPage =>
  /\ p.id \in DOMAIN attempts
  /\ p.next # None => p.next > attempts[p.id].start
  /\ p.kind = "lost" => p.targets = {}
  /\ attempts[p.id].status \in {"RECEIVED", "LATE_RESPONSE"} => Archived(p)
  /\ setbacks = 0 => attempts[p.id].asked <= p.at /\ p.at <= now

SamePage(p, q) ==
  /\ p.id = q.id /\ p.at = q.at /\ p.targets = q.targets
  /\ p.kind = "lost" <=> q.kind = "lost"

Holder(a) ==
  /\ PageInv(pending[a]) /\ PageInv(spool[a])
  /\ pending[a] # NoPage /\ spool[a] # NoPage => SamePage(pending[a], spool[a])
  /\ claim[a] # 0 => pc[a] = "asking"
  /\ pc[a] = "asking" =>
       /\ claim[a] \in DOMAIN attempts
       /\ pending[a] = NoPage /\ spool[a] = NoPage
       /\ attempts[claim[a]].status \in {"RESERVED", "UNKNOWN"}
       /\ setbacks = 0 => attempts[claim[a]].asked <= now
  /\ pc[a] \in {"received", "read", "saved", "committed"} => pending[a] # NoPage
  /\ pc[a] = "received" => spool[a] = NoPage
  /\ pc[a] \in {"saved", "committed"} => spool[a] = pending[a]
  /\ pc[a] = "committed" => Archived(pending[a])

HolderInv == \A a \in Apps : Holder(a)

Ids(a) == {claim[a], pending[a].id, spool[a].id}

OwnersInv == \A a, b \in Apps : a # b => Ids(a) \cap Ids(b) \subseteq {0}

IInv ==
  /\ TypeOK /\ CyclesInv /\ RequestsInv /\ PagesInv /\ FundedInv /\ WholeInv
  /\ HolderInv /\ OwnersInv /\ RequestBudget

-----------------------------------------------------------------------------
(* Sequences and greatest elements.                                        *)

LEMMA FunctionIsSeq ==
  ASSUME NEW S, NEW n \in Nat, NEW f \in [1 .. n -> S]
  PROVE  f \in Seq(S) /\ Len(f) = n /\ DOMAIN f = 1 .. n
  OBVIOUS

LEMMA AppendSeq ==
  ASSUME NEW S, NEW s \in Seq(S), NEW e \in S
  PROVE  /\ Append(s, e) \in Seq(S)
         /\ Len(Append(s, e)) = Len(s) + 1
         /\ DOMAIN Append(s, e) = 1 .. Len(s) + 1
         /\ \A i \in 1 .. Len(s) : Append(s, e)[i] = s[i]
         /\ Append(s, e)[Len(s) + 1] = e
  OBVIOUS

LEMMA GreatestOf ==
  ASSUME NEW n \in Nat, NEW S \in SUBSET (0 .. n), S # {}
  PROVE  Max(S) \in S /\ \A x \in S : Max(S) >= x
<1> DEFINE A == 0 .. n
           T == {x .. n : x \in S}
           R == StrictSubsetOrdering(A)
           F == FiniteSubsetsOf(A)
<1>1. IsFiniteSet(A)
  BY FS_Interval
<1>2. \A x \in S : x .. n \in SUBSET A
  OBVIOUS
<1>3. \A x \in S : IsFiniteSet(x .. n)
  BY FS_Interval
<1>4. T \subseteq F /\ T # {}
  BY <1>2, <1>3 DEF FiniteSubsetsOf
<1>5. IsWellFoundedOn(R, F)
  BY FS_StrictSubsetOrderingWellFounded
<1>6. \E t \in T : \A u \in T : <<u, t>> \notin R
  <2> HIDE DEF T, R, F
  <2>1. QED
    BY <1>4, <1>5, WFMin, Zenon
<1>7. PICK x \in S : \A y \in S : <<y .. n, x .. n>> \notin R
  BY <1>6
<1>8. ASSUME NEW y \in S, y > x PROVE FALSE
  <2>1. y .. n \subseteq x .. n /\ y .. n # x .. n
    BY <1>8
  <2>2. <<y .. n, x .. n>> \in R
    BY <1>2, <2>1 DEF StrictSubsetOrdering
  <2>3. QED
    BY <1>7, <2>2
<1>9. \E z \in S : \A y \in S : z >= y
  BY <1>8
<1>10. QED
  BY <1>9 DEF Max

LEMMA GreatestOfThree ==
  ASSUME NEW x \in Int, NEW y \in Int, NEW z \in Int
  PROVE  Max({x} \cup {y} \cup {z}) \in Int /\ Max({x} \cup {y} \cup {}) \in Int
         /\ Max({x} \cup {} \cup {z}) \in Int /\ Max({x} \cup {} \cup {}) \in Int
<1>1. \E m \in {x, y} : \A k \in {x, y} : m >= k
  OBVIOUS
<1>2. \E m \in {x, z} : \A k \in {x, z} : m >= k
  OBVIOUS
<1>3. \E m \in {x, y, z} : \A k \in {x, y, z} : m >= k
  <2>1. PICK m \in {x, y} : \A k \in {x, y} : m >= k
    BY <1>1
  <2>2. CASE m >= z
    BY <2>1, <2>2
  <2>3. CASE ~(m >= z)
    BY <2>1, <2>3
  <2>4. QED
    BY <2>2, <2>3
<1>4. \A m \in {x} : m >= m
  OBVIOUS
<1>5. {x} \cup {y} \cup {z} = {x, y, z} /\ {x} \cup {y} \cup {} = {x, y}
      /\ {x} \cup {} \cup {z} = {x, z} /\ {x} \cup {} \cup {} = {x}
  OBVIOUS
<1>6. Max({x, y, z}) \in {x, y, z} /\ Max({x, y}) \in {x, y}
      /\ Max({x, z}) \in {x, z} /\ Max({x}) \in {x}
  BY <1>1, <1>2, <1>3, <1>4 DEF Max
<1>7. QED
  BY <1>5, <1>6

-----------------------------------------------------------------------------
(* Types, and what a step does to the archive.                             *)

CycleRec ==
  [scope : Scopes, made : 0 .. Last, closed : None .. Last, next : Starts,
   pages : 0 .. MaxPages, status : {"COLLECTING", "COMPLETE", "PARTIAL"}]

AttemptRec(D) ==
  [cycle : D, number : 1 .. MaxPages, start : Starts, asked : 0 .. Last,
   got : None .. Last, targets : SUBSET Window,
   status : {"RESERVED", "UNKNOWN", "RECEIVED", "LATE_RESPONSE"}]

ArchiveOK == cycles \in Seq(CycleRec) /\ attempts \in Seq(AttemptRec(DOMAIN cycles))

LEMMA ArchiveTyped ==
  ASSUME TypeOK
  PROVE  /\ ArchiveOK
         /\ Len(cycles) \in Nat /\ DOMAIN cycles = 1 .. Len(cycles)
         /\ \A c \in DOMAIN cycles : cycles[c] \in CycleRec
         /\ Len(attempts) \in Nat /\ DOMAIN attempts = 1 .. Len(attempts)
         /\ \A i \in DOMAIN attempts :
              attempts[i] \in AttemptRec(DOMAIN cycles) /\ attempts[i].cycle \in DOMAIN cycles
<1>1. ArchiveOK
  BY DEF TypeOK, ArchiveOK, CycleRec, AttemptRec
<1>2. /\ Len(cycles) \in Nat /\ DOMAIN cycles = 1 .. Len(cycles)
      /\ Len(attempts) \in Nat /\ DOMAIN attempts = 1 .. Len(attempts)
  BY <1>1, LenProperties DEF ArchiveOK
<1>3. \A c \in DOMAIN cycles : cycles[c] \in CycleRec
  BY <1>1, <1>2, ElementOfSeq DEF ArchiveOK
<1>4. \A i \in DOMAIN attempts : attempts[i] \in AttemptRec(DOMAIN cycles)
  BY <1>1, <1>2, ElementOfSeq DEF ArchiveOK
<1>5. QED
  BY <1>1, <1>2, <1>3, <1>4 DEF AttemptRec

NewRec(c, number, start) ==
  [cycle |-> c, number |-> number, start |-> start, asked |-> now,
   status |-> "RESERVED", got |-> None, targets |-> {}]

\* A reservation adds the newest attempt.
LEMMA Reserves ==
  ASSUME TypeOK, NEW a \in Apps, NEW c \in Nat, NEW number \in 1 .. MaxPages,
         NEW start \in Starts, NewAttempt(a, c, number, start),
         cycles' \in Seq(CycleRec), DOMAIN cycles \subseteq DOMAIN cycles',
         c \in DOMAIN cycles'
  PROVE  /\ ArchiveOK'
         /\ Len(attempts') = Len(attempts) + 1
         /\ DOMAIN attempts' = DOMAIN attempts \cup {Len(attempts) + 1}
         /\ \A i \in DOMAIN attempts : attempts'[i] = attempts[i]
         /\ attempts'[Len(attempts) + 1] = NewRec(c, number, start)
         /\ claim' \in [Apps -> 0 .. Len(attempts')]
<1> DEFINE new == NewRec(c, number, start)
           T == AttemptRec(DOMAIN cycles')
<1>1. new \in T
  BY WeatherAssumption DEF NewRec, AttemptRec, TypeOK, None
<1>2. attempts \in Seq(T)
  <2>1. AttemptRec(DOMAIN cycles) \subseteq T
    BY DEF AttemptRec
  <2>2. QED
    BY <2>1, ArchiveTyped, SeqMonotonic DEF ArchiveOK
<1>3. attempts' = Append(attempts, new)
  BY DEF NewAttempt, NewRec
<1> HIDE DEF new, T
<1>4. /\ attempts' \in Seq(T) /\ Len(attempts') = Len(attempts) + 1
      /\ DOMAIN attempts' = 1 .. Len(attempts) + 1
      /\ \A i \in 1 .. Len(attempts) : attempts'[i] = attempts[i]
      /\ attempts'[Len(attempts) + 1] = new
  BY <1>1, <1>2, <1>3, AppendSeq
<1>5. /\ Len(attempts) \in Nat /\ DOMAIN attempts = 1 .. Len(attempts)
  BY ArchiveTyped
<1>6. claim' \in [Apps -> 0 .. Len(attempts')]
  BY <1>4, <1>5 DEF TypeOK, NewAttempt
<1>7. QED
  BY <1>4, <1>5, <1>6 DEF ArchiveOK, new, T

LEMMA NextPageDoes ==
  ASSUME TypeOK, NEW a \in Apps, NextPage(a)
  PROVE  \E c \in Latest \cap Collecting :
           /\ Reserved(c) = {} /\ Remaining >= 1 /\ cycles[c].pages < MaxPages
           /\ ArchiveOK' /\ cycles' = cycles
           /\ Len(attempts') = Len(attempts) + 1
           /\ DOMAIN attempts' = DOMAIN attempts \cup {Len(attempts) + 1}
           /\ \A i \in DOMAIN attempts : attempts'[i] = attempts[i]
           /\ attempts'[Len(attempts) + 1] = NewRec(c, cycles[c].pages + 1, cycles[c].next)
           /\ claim' \in [Apps -> 0 .. Len(attempts')]
<1>1. PICK c \in Latest \cap Collecting :
        /\ Reserved(c) = {} /\ Remaining >= 1 /\ cycles[c].pages < MaxPages
        /\ NewAttempt(a, c, cycles[c].pages + 1, cycles[c].next)
  BY DEF NextPage
<1>2. c \in DOMAIN cycles /\ cycles[c] \in CycleRec /\ c \in Nat
  BY ArchiveTyped DEF Collecting
<1>3. cycles[c].pages + 1 \in 1 .. MaxPages /\ cycles[c].next \in Starts
  BY <1>1, <1>2, WeatherAssumption DEF CycleRec
<1>4. cycles' = cycles
  BY DEF NextPage
<1>5. cycles' \in Seq(CycleRec) /\ DOMAIN cycles \subseteq DOMAIN cycles' /\ c \in DOMAIN cycles'
  BY <1>2, <1>4, ArchiveTyped DEF ArchiveOK
<1>6. QED
  BY <1>1, <1>2, <1>3, <1>4, <1>5, Reserves

NewCycle(a) ==
  [scope |-> scope[a], made |-> now, closed |-> None, next |-> 0, pages |-> 0,
   status |-> "COLLECTING"]

LEMMA OpenCycleDoes ==
  ASSUME TypeOK, NEW a \in Apps, OpenCycle(a)
  PROVE  /\ ArchiveOK'
         /\ Len(cycles') = Len(cycles) + 1
         /\ DOMAIN cycles' = DOMAIN cycles \cup {Len(cycles) + 1}
         /\ \A c \in DOMAIN cycles : cycles'[c] = cycles[c]
         /\ cycles'[Len(cycles) + 1] = NewCycle(a)
         /\ Len(attempts') = Len(attempts) + 1
         /\ DOMAIN attempts' = DOMAIN attempts \cup {Len(attempts) + 1}
         /\ \A i \in DOMAIN attempts : attempts'[i] = attempts[i]
         /\ attempts'[Len(attempts) + 1] = NewRec(Len(cycles) + 1, 1, 0)
         /\ claim' \in [Apps -> 0 .. Len(attempts')]
<1>1. NewCycle(a) \in CycleRec
  BY WeatherAssumption DEF NewCycle, CycleRec, TypeOK, None, Starts
<1>2. /\ cycles' = Append(cycles, NewCycle(a))
      /\ NewAttempt(a, Len(cycles) + 1, 1, 0)
  BY DEF OpenCycle, NewCycle
<1>3. /\ cycles' \in Seq(CycleRec) /\ Len(cycles') = Len(cycles) + 1
      /\ DOMAIN cycles' = 1 .. Len(cycles) + 1
      /\ \A c \in 1 .. Len(cycles) : cycles'[c] = cycles[c]
      /\ cycles'[Len(cycles) + 1] = NewCycle(a)
  BY <1>1, <1>2, ArchiveTyped, AppendSeq DEF ArchiveOK
<1>4. Len(cycles) \in Nat /\ DOMAIN cycles = 1 .. Len(cycles)
  BY ArchiveTyped
<1>5. 1 \in 1 .. MaxPages /\ 0 \in Starts /\ Len(cycles) + 1 \in Nat
  BY <1>4, WeatherAssumption DEF Starts
<1>6. DOMAIN cycles \subseteq DOMAIN cycles' /\ Len(cycles) + 1 \in DOMAIN cycles'
  BY <1>3, <1>4
<1>7. QED
  <2>1. DOMAIN cycles' = DOMAIN cycles \cup {Len(cycles) + 1}
    BY <1>3, <1>4
  <2>2. \A c \in DOMAIN cycles : cycles'[c] = cycles[c]
    BY <1>3, <1>4
  <2>3. QED
    BY <1>2, <1>3, <1>5, <1>6, <2>1, <2>2, Reserves

LEMMA GiveUpDoes ==
  ASSUME TypeOK, NEW a \in Apps, GiveUp(a)
  PROVE  \E c \in Latest \cap Collecting :
           /\ ArchiveOK'
           /\ DOMAIN cycles' = DOMAIN cycles /\ Len(cycles') = Len(cycles)
           /\ \A d \in DOMAIN cycles \ {c} : cycles'[d] = cycles[d]
           /\ cycles'[c] = [cycles[c] EXCEPT !.status = "PARTIAL", !.closed = now]
           /\ DOMAIN attempts' = DOMAIN attempts /\ Len(attempts') = Len(attempts)
           /\ \A i \in Reserved(c) : attempts'[i] = [attempts[i] EXCEPT !.status = "UNKNOWN"]
           /\ \A i \in DOMAIN attempts \ Reserved(c) : attempts'[i] = attempts[i]
<1>1. PICK c \in Latest \cap Collecting :
        /\ cycles' = [cycles EXCEPT ![c].status = "PARTIAL", ![c].closed = now]
        /\ attempts' = [i \in DOMAIN attempts |->
             IF i \in Reserved(c) THEN [attempts[i] EXCEPT !.status = "UNKNOWN"]
             ELSE attempts[i]]
  BY DEF GiveUp
<1> DEFINE e == [cycles[c] EXCEPT !.status = "PARTIAL", !.closed = now]
           n == Len(attempts)
           T == AttemptRec(DOMAIN cycles)
<1>2. /\ c \in 1 .. Len(cycles) /\ cycles[c] \in CycleRec /\ DOMAIN cycles = 1 .. Len(cycles)
      /\ cycles \in Seq(CycleRec)
      /\ n \in Nat /\ DOMAIN attempts = 1 .. n /\ \A i \in 1 .. n : attempts[i] \in T
  BY ArchiveTyped DEF Collecting, ArchiveOK
<1>3. e \in CycleRec
  <2>1. now \in None .. Last
    BY WeatherAssumption DEF TypeOK, None
  <2>2. [cycles[c] EXCEPT !.status = "PARTIAL"] \in CycleRec
    BY <1>2 DEF CycleRec
  <2>3. e = [[cycles[c] EXCEPT !.status = "PARTIAL"] EXCEPT !.closed = now]
    OBVIOUS
  <2>4. QED
    BY <2>1, <2>2, <2>3 DEF CycleRec
<1>4. cycles' = [cycles EXCEPT ![c] = e]
  BY <1>1, <1>2
<1> HIDE DEF e
<1>5. /\ cycles' \in Seq(CycleRec) /\ Len(cycles') = Len(cycles)
      /\ \A d \in 1 .. Len(cycles) : cycles'[d] = IF d = c THEN e ELSE cycles[d]
  <2>1. /\ [cycles EXCEPT ![c] = e] \in Seq(CycleRec)
        /\ Len([cycles EXCEPT ![c] = e]) = Len(cycles)
        /\ \A d \in 1 .. Len(cycles) :
             [cycles EXCEPT ![c] = e][d] = IF d = c THEN e ELSE cycles[d]
    BY <1>2, <1>3, ExceptSeq
  <2>2. QED
    BY <1>4, <2>1
<1>6. DOMAIN cycles' = DOMAIN cycles
  BY <1>2, <1>4
<1>7. \A i \in 1 .. n : [attempts[i] EXCEPT !.status = "UNKNOWN"] \in T
  BY <1>2 DEF AttemptRec
<1>8. attempts' \in [1 .. n -> T]
  BY <1>1, <1>2, <1>7
<1>9. attempts' \in Seq(T) /\ Len(attempts') = n /\ DOMAIN attempts' = 1 .. n
  BY <1>2, <1>8, FunctionIsSeq
<1>10. \A i \in DOMAIN attempts :
         attempts'[i] = IF i \in Reserved(c) THEN [attempts[i] EXCEPT !.status = "UNKNOWN"]
                        ELSE attempts[i]
  BY <1>1
<1>11. Reserved(c) \subseteq DOMAIN attempts
  BY DEF Reserved, PagesOf
<1>12. QED
  BY <1>2, <1>5, <1>6, <1>9, <1>10, <1>11 DEF ArchiveOK, e

LEMMA FinishedIs ==
  ASSUME NEW D, NEW page \in Page, attempts[page.id] \in AttemptRec(D)
  PROVE  LET old == attempts[page.id]
             new == Finished(page)
         IN  /\ new \in AttemptRec(D)
             /\ new.cycle = old.cycle /\ new.number = old.number /\ new.start = old.start
             /\ new.asked = old.asked /\ new.targets = page.targets
             /\ new.got = IF page.kind = "lost" THEN None ELSE page.at
             /\ new.status = IF Late(page) THEN "LATE_RESPONSE"
                             ELSE IF page.kind = "lost" THEN "UNKNOWN" ELSE "RECEIVED"
<1> DEFINE old == attempts[page.id]
           status == IF Late(page) THEN "LATE_RESPONSE"
                     ELSE IF page.kind = "lost" THEN "UNKNOWN" ELSE "RECEIVED"
           got == IF page.kind = "lost" THEN None ELSE page.at
<1>1. Finished(page) =
        [[[old EXCEPT !.status = status] EXCEPT !.got = got] EXCEPT !.targets = page.targets]
  BY DEF Finished
<1>2. /\ status \in {"RESERVED", "UNKNOWN", "RECEIVED", "LATE_RESPONSE"}
      /\ got \in None .. Last /\ page.targets \in SUBSET Window
  BY WeatherAssumption DEF Page, None
<1> HIDE DEF status, got
<1>3. QED
  <2>1. [old EXCEPT !.status = status] \in AttemptRec(D)
    BY <1>2 DEF AttemptRec
  <2>2. [[old EXCEPT !.status = status] EXCEPT !.got = got] \in AttemptRec(D)
    BY <1>2, <2>1 DEF AttemptRec
  <2>3. Finished(page) \in AttemptRec(D)
    BY <1>1, <1>2, <2>2 DEF AttemptRec
  <2>4. QED
    BY <1>1, <2>3 DEF AttemptRec, status, got

LEMMA ClosedIs ==
  ASSUME NEW c, NEW page \in Page, cycles[c] \in CycleRec,
         attempts[page.id].number \in 1 .. MaxPages,
         NEW st \in {"COLLECTING", "COMPLETE", "PARTIAL"}
  PROVE  LET new == Closed(c, page, st)
         IN  /\ new \in CycleRec
             /\ new.made = cycles[c].made /\ new.status = st
             /\ new.pages = attempts[page.id].number
             /\ new.next = IF page.next = None THEN cycles[c].next ELSE page.next
             /\ new.closed = IF st = "COLLECTING" THEN None ELSE page.at
<1> DEFINE old == cycles[c]
           pages == attempts[page.id].number
           next == IF page.next = None THEN old.next ELSE page.next
           closed == IF st = "COLLECTING" THEN None ELSE page.at
<1>1. Closed(c, page, st) =
        [[[[old EXCEPT !.status = st] EXCEPT !.pages = pages] EXCEPT !.next = next]
           EXCEPT !.closed = closed]
  BY DEF Closed
<1>2. pages \in 0 .. MaxPages /\ next \in Starts /\ closed \in None .. Last
  BY WeatherAssumption DEF CycleRec, Page, Starts, None
<1> HIDE DEF pages, next, closed
<1>3. QED
  <2>1. [old EXCEPT !.status = st] \in CycleRec
    BY DEF CycleRec
  <2>2. [[old EXCEPT !.status = st] EXCEPT !.pages = pages] \in CycleRec
    BY <1>2, <2>1 DEF CycleRec
  <2>3. [[[old EXCEPT !.status = st] EXCEPT !.pages = pages] EXCEPT !.next = next] \in CycleRec
    BY <1>2, <2>2 DEF CycleRec
  <2>4. Closed(c, page, st) \in CycleRec
    BY <1>1, <1>2, <2>3 DEF CycleRec
  <2>5. QED
    BY <1>1, <2>4 DEF CycleRec, pages, next, closed

\* What a page that is accepted makes of its cycle.
Outcome(c, page) ==
  IF page.kind # "paged" THEN "PARTIAL"
  ELSE IF Covered(c, page) THEN "COMPLETE"
  ELSE IF Overlap(c, page) \/ page.next = None \/ attempts[page.id].number >= MaxPages
    THEN "PARTIAL"
  ELSE "COLLECTING"

LEMMA AdvancedIs ==
  ASSUME NEW c, NEW page \in Page
  PROVE  Advanced(c, page) = IF Late(page) THEN cycles[c] ELSE Closed(c, page, Outcome(c, page))
  BY DEF Advanced, Outcome

LEMMA BlockedTyped ==
  ASSUME NEW page \in Page, blocked \in Int
  PROVE  BlockedUntil(page) \in Int
<1>1. page.at + Cooldown \in Int /\ (page.at \div Day + 1) * Day \in Int
  BY WeatherAssumption DEF Page
<1> DEFINE y == page.at + Cooldown
           z == (page.at \div Day + 1) * Day
<1>2. BlockedUntil(page) \in {Max({blocked} \cup {y} \cup {}), Max({blocked} \cup {} \cup {z}),
                              Max({blocked} \cup {} \cup {})}
  BY DEF BlockedUntil
<1> HIDE DEF y, z
<1>3. QED
  BY <1>1, <1>2, GreatestOfThree DEF y, z

LEMMA DeliverDoes ==
  ASSUME TypeOK, HolderInv, NEW a \in Apps, Deliver(a)
  PROVE  LET page == pending[a]
             id   == page.id
             c    == attempts[id].cycle
         IN  /\ page \in Page /\ page # NoPage
             /\ id \in DOMAIN attempts /\ c \in DOMAIN cycles
             /\ \/ /\ attempts[id].status \notin {"RESERVED", "UNKNOWN"}
                   /\ UNCHANGED archive
                \/ /\ attempts[id].status \in {"RESERVED", "UNKNOWN"}
                   /\ ArchiveOK' /\ blocked' \in Int
                   /\ DOMAIN cycles' = DOMAIN cycles /\ Len(cycles') = Len(cycles)
                   /\ DOMAIN attempts' = DOMAIN attempts /\ Len(attempts') = Len(attempts)
                   /\ \A d \in DOMAIN cycles \ {c} : cycles'[d] = cycles[d]
                   /\ cycles'[c] = Advanced(c, page)
                   /\ \A i \in DOMAIN attempts \ {id} : attempts'[i] = attempts[i]
                   /\ attempts'[id] = Finished(page)
<1> DEFINE page == pending[a]
           id   == page.id
           c    == attempts[id].cycle
<1>1. page \in Page /\ page # NoPage /\ id \in DOMAIN attempts
  BY DEF Deliver, HolderInv, Holder, PageInv, TypeOK
<1>2. /\ c \in DOMAIN cycles /\ cycles[c] \in CycleRec
      /\ attempts[id] \in AttemptRec(DOMAIN cycles) /\ attempts[id].number \in 1 .. MaxPages
  <2>1. attempts[id] \in AttemptRec(DOMAIN cycles) /\ c \in DOMAIN cycles
    BY <1>1, ArchiveTyped
  <2>2. cycles[c] \in CycleRec
    BY <2>1, ArchiveTyped
  <2>3. QED
    BY <2>1, <2>2 DEF AttemptRec
<1>3. CASE attempts[id].status \notin {"RESERVED", "UNKNOWN"}
  BY <1>1, <1>2, <1>3 DEF Deliver
<1>4. CASE attempts[id].status \in {"RESERVED", "UNKNOWN"}
  <2>1. /\ attempts' = [attempts EXCEPT ![id] = Finished(page)]
        /\ cycles' = [cycles EXCEPT ![c] = Advanced(c, page)]
        /\ blocked' = BlockedUntil(page)
    BY <1>4 DEF Deliver
  <2>2. Finished(page) \in AttemptRec(DOMAIN cycles)
    BY <1>1, <1>2, FinishedIs
  <2>3. Advanced(c, page) \in CycleRec
    <3>1. Outcome(c, page) \in {"COLLECTING", "COMPLETE", "PARTIAL"}
      BY DEF Outcome
    <3>2. Closed(c, page, Outcome(c, page)) \in CycleRec
      BY <1>1, <1>2, <3>1, ClosedIs
    <3>3. QED
      BY <1>1, <1>2, <3>2, AdvancedIs
  <2> DEFINE f == Finished(page)
             g == Advanced(c, page)
  <2>4. /\ cycles \in Seq(CycleRec) /\ attempts \in Seq(AttemptRec(DOMAIN cycles))
        /\ c \in 1 .. Len(cycles) /\ id \in 1 .. Len(attempts)
        /\ DOMAIN cycles = 1 .. Len(cycles) /\ DOMAIN attempts = 1 .. Len(attempts)
    BY <1>1, <1>2, ArchiveTyped DEF ArchiveOK
  <2>5. blocked' \in Int
    BY <1>1, <2>1, BlockedTyped DEF TypeOK
  <2> HIDE DEF f, g
  <2>6. /\ [cycles EXCEPT ![c] = g] \in Seq(CycleRec)
        /\ Len([cycles EXCEPT ![c] = g]) = Len(cycles)
        /\ \A d \in 1 .. Len(cycles) :
             [cycles EXCEPT ![c] = g][d] = IF d = c THEN g ELSE cycles[d]
    BY <2>3, <2>4, ExceptSeq DEF g
  <2>7. /\ [attempts EXCEPT ![id] = f] \in Seq(AttemptRec(DOMAIN cycles))
        /\ Len([attempts EXCEPT ![id] = f]) = Len(attempts)
        /\ \A i \in 1 .. Len(attempts) :
             [attempts EXCEPT ![id] = f][i] = IF i = id THEN f ELSE attempts[i]
    BY <2>2, <2>4, ExceptSeq DEF f
  <2>8. /\ cycles' = [cycles EXCEPT ![c] = g] /\ attempts' = [attempts EXCEPT ![id] = f]
        /\ DOMAIN cycles' = DOMAIN cycles /\ DOMAIN attempts' = DOMAIN attempts
    BY <2>1 DEF f, g
  <2> HIDE DEF c, id, page
  <2>9. /\ ArchiveOK' /\ Len(cycles') = Len(cycles) /\ Len(attempts') = Len(attempts)
        /\ \A d \in DOMAIN cycles \ {c} : cycles'[d] = cycles[d]
        /\ \A i \in DOMAIN attempts \ {id} : attempts'[i] = attempts[i]
        /\ cycles'[c] = g /\ attempts'[id] = f
    BY <2>4, <2>6, <2>7, <2>8 DEF ArchiveOK
  <2>10. QED
    BY <1>1, <1>2, <1>4, <2>5, <2>8, <2>9 DEF f, g, c, id, page
<1>5. QED
  BY <1>3, <1>4

\* The part of the types that is not about the archive.
AppsOK ==
  /\ now \in 0 .. Last /\ faults \in Nat /\ setbacks \in Nat
  /\ blocked \in Int
  /\ pc \in [Apps -> {"idle", "asking", "received", "read", "saved", "committed", "down"}]
  /\ scope \in [Apps -> Scopes]
  /\ claim \in [Apps -> 0 .. Len(attempts)]
  /\ pending \in [Apps -> Page] /\ spool \in [Apps -> Page]
  /\ torn \in [Apps -> BOOLEAN]

LEMMA TypeIsBoth == TypeOK <=> ArchiveOK /\ AppsOK
  BY DEF TypeOK, ArchiveOK, AppsOK, CycleRec, AttemptRec

LEMMA PagesTyped ==
  /\ NoPage \in Page
  /\ \A p \in Page : Unpaged(p) \in Page
<1>1. NoPage \in Page
  BY WeatherAssumption DEF NoPage, Page, None
<1>2. ASSUME NEW p \in Page PROVE Unpaged(p) \in Page
  <2>1. CASE p.kind = "paged"
    <3>1. Unpaged(p) = [[p EXCEPT !.kind = "unpaged"] EXCEPT !.next = None]
      BY <2>1 DEF Unpaged
    <3>2. None \in None .. Width
      BY WeatherAssumption DEF None
    <3>3. [p EXCEPT !.kind = "unpaged"] \in Page
      BY DEF Page
    <3>4. QED
      BY <3>1, <3>2, <3>3 DEF Page
  <2>2. CASE p.kind # "paged"
    BY <2>2 DEF Unpaged
  <2>3. QED
    BY <2>1, <2>2
<1>3. QED
  BY <1>1, <1>2

\* What is received.
LEMMA ReceiveDoes ==
  ASSUME TypeOK, HolderInv, NEW a \in Apps, Receive(a)
  PROVE  LET id == claim[a]
             p  == pending'[a]
         IN  /\ id \in DOMAIN attempts /\ p \in Page /\ p.id = id /\ p.at = now
             /\ p # NoPage
             /\ p.next # None => p.next > attempts[id].start
             /\ p.kind = "lost" => p.targets = {}
             /\ pc'[a] = IF p.kind = "lost" THEN "read" ELSE "received"
             /\ \A b \in Apps \ {a} : pending'[b] = pending[b] /\ pc'[b] = pc[b]
             /\ pending' \in [Apps -> Page]
<1> DEFINE id == claim[a]
<1>1. id \in DOMAIN attempts /\ id \in Nat /\ id # 0 /\ attempts[id].start \in 0 .. Width
  <2>1. id \in DOMAIN attempts
    BY DEF HolderInv, Holder, Receive
  <2>2. QED
    BY <2>1, ArchiveTyped DEF AttemptRec, Starts
<1>2. PICK answer \in Answers(attempts[id].start) :
        /\ pending' = [pending EXCEPT ![a] =
             [id |-> id, at |-> now, targets |-> answer.targets,
              next |-> answer.next, kind |-> answer.kind]]
        /\ pc' = [pc EXCEPT ![a] = IF answer.kind = "lost" THEN "read" ELSE "received"]
  BY DEF Receive
<1>3. answer \in [targets : SUBSET Window, next : None .. Width, kind : Kinds]
  BY <1>2 DEF Answers
<1>4. answer.next # None => answer.next > attempts[id].start
  <2>1. SUFFICES ASSUME answer.next # None
                 PROVE  answer.next > attempts[id].start
    OBVIOUS
  <2>2. answer.kind = "paged"
    BY <1>2, <2>1 DEF Answers
  <2>3. /\ answer.targets \subseteq attempts[id].start .. Width - 1
        /\ answer.next \in NextStarts(answer.targets)
    BY <1>2, <2>2 DEF Answers
  <2>4. answer.targets # {} /\ answer.next \in Max(answer.targets) + 1 .. Width
    BY <2>1, <2>3 DEF NextStarts
  <2>5. Width \in Nat /\ answer.targets \in SUBSET (0 .. Width)
    BY <1>3, WeatherAssumption DEF Window
  <2>6. Max(answer.targets) \in answer.targets
    BY <2>4, <2>5, GreatestOf
  <2>7. QED
    BY <1>1, <2>3, <2>4, <2>6
<1>5. answer.kind = "lost" => answer.targets = {}
  BY <1>2 DEF Answers
<1> DEFINE p == [id |-> id, at |-> now, targets |-> answer.targets,
                 next |-> answer.next, kind |-> answer.kind]
<1>6. p \in Page /\ p.id = id /\ p.at = now /\ p.targets = answer.targets
      /\ p.next = answer.next /\ p.kind = answer.kind
  BY <1>1, <1>3 DEF Page, TypeOK
<1>7. p # NoPage
  BY <1>1, <1>6 DEF NoPage
<1> HIDE DEF p
<1>8. /\ pending' = [pending EXCEPT ![a] = p]
      /\ pc' = [pc EXCEPT ![a] = IF p.kind = "lost" THEN "read" ELSE "received"]
  BY <1>2, <1>6 DEF p
<1>9. /\ pending'[a] = p /\ pc'[a] = IF p.kind = "lost" THEN "read" ELSE "received"
      /\ \A b \in Apps \ {a} : pending'[b] = pending[b] /\ pc'[b] = pc[b]
      /\ pending' \in [Apps -> Page]
  BY <1>6, <1>8 DEF TypeOK
<1>10. QED
  BY <1>1, <1>4, <1>5, <1>6, <1>7, <1>9

\* Every step of an App or of its environment keeps the types.
LEMMA TypeStep == TypeOK /\ HolderInv /\ [Next]_vars => TypeOK'
<1> SUFFICES ASSUME TypeOK, HolderInv, [Next]_vars
             PROVE  TypeOK'
  OBVIOUS
<1>t. ArchiveOK /\ AppsOK
  BY TypeIsBoth
<1>w. {now, faults, setbacks} \subseteq Nat /\ Last \in Nat
  BY <1>t, WeatherAssumption DEF AppsOK
<1> SUFFICES ArchiveOK' /\ AppsOK'
  BY DEF TypeOK, ArchiveOK, AppsOK, CycleRec, AttemptRec
<1>a. ASSUME UNCHANGED archive
      PROVE  ArchiveOK'
  BY <1>a, <1>t DEF ArchiveOK, archive
<1>1. CASE UNCHANGED vars
  BY <1>1, <1>t, <1>a DEF vars, archive, AppsOK
<1>2. ASSUME NEW a \in Apps, GiveUp(a)
      PROVE  ArchiveOK' /\ AppsOK'
  <2>1. ArchiveOK' /\ Len(attempts') = Len(attempts)
    BY <1>2, GiveUpDoes
  <2>2. QED
    BY <1>2, <1>t, <2>1 DEF GiveUp, AppsOK, collector, disk
<1>3. ASSUME NEW a \in Apps, NextPage(a)
      PROVE  ArchiveOK' /\ AppsOK'
  <2>1. ArchiveOK' /\ claim' \in [Apps -> 0 .. Len(attempts')]
    BY <1>3, NextPageDoes
  <2>2. QED
    BY <1>3, <1>t, <2>1 DEF NextPage, NewAttempt, AppsOK, disk
<1>4. ASSUME NEW a \in Apps, OpenCycle(a)
      PROVE  ArchiveOK' /\ AppsOK'
  <2>1. ArchiveOK' /\ claim' \in [Apps -> 0 .. Len(attempts')]
    BY <1>4, OpenCycleDoes
  <2>2. QED
    BY <1>4, <1>t, <2>1 DEF OpenCycle, NewAttempt, AppsOK, disk
<1>5. ASSUME NEW a \in Apps, Receive(a)
      PROVE  ArchiveOK' /\ AppsOK'
  <2>1. pending' \in [Apps -> Page]
    BY <1>5, ReceiveDoes
  <2>2. pc' \in [Apps -> {"idle", "asking", "received", "read", "saved", "committed", "down"}]
    BY <1>5, <1>t DEF Receive, AppsOK
  <2>3. claim' \in [Apps -> 0 .. Len(attempts)]
    BY <1>5, <1>t, ArchiveTyped DEF Receive, AppsOK
  <2>4. QED
    BY <1>5, <1>a, <1>t, <2>1, <2>2, <2>3 DEF Receive, AppsOK, disk, archive
<1>6. ASSUME NEW a \in Apps, Keep(a) \/ Resume(a) \/ Save(a) \/ Acknowledge(a)
      PROVE  ArchiveOK' /\ AppsOK'
  <2>1. Unpaged(pending[a]) \in Page /\ NoPage \in Page
    BY <1>t, PagesTyped DEF AppsOK
  <2>2. UNCHANGED archive
    BY <1>6 DEF Keep, Resume, Save, Acknowledge
  <2>3. AppsOK'
    BY <1>6, <1>t, <2>1, <2>2 DEF Keep, Resume, Save, Acknowledge, AppsOK, disk, archive
  <2>4. QED
    BY <1>a, <2>2, <2>3
<1>7. ASSUME NEW a \in Apps, Deliver(a)
      PROVE  ArchiveOK' /\ AppsOK'
  <2>1. ArchiveOK' /\ blocked' \in Int /\ Len(attempts') = Len(attempts)
    <3>1. CASE UNCHANGED archive
      BY <1>a, <1>t, <3>1 DEF archive, AppsOK
    <3>2. CASE ~UNCHANGED archive
      BY <1>7, <3>2, DeliverDoes
    <3>3. QED
      BY <3>1, <3>2
  <2>2. QED
    BY <1>7, <1>t, <2>1 DEF Deliver, AppsOK, disk
<1>8. ASSUME NEW a \in Apps, Fail(a) \/ Crash(a) \/ Start(a)
      PROVE  ArchiveOK' /\ AppsOK'
  <2>1. Unpaged(pending[a]) \in Page /\ NoPage \in Page /\ 0 \in 0 .. Len(attempts)
    BY <1>t, PagesTyped, ArchiveTyped DEF AppsOK
  <2>2. UNCHANGED archive
    BY <1>8 DEF Fail, Crash, Start
  <2>3. CASE Fail(a) \/ Crash(a)
    <3>1. pending' \in [Apps -> Page] /\ claim' \in [Apps -> 0 .. Len(attempts)]
      BY <1>t, <2>1, <2>3 DEF Fail, Crash, AppsOK
    <3>2. torn' \in [Apps -> BOOLEAN]
      BY <1>t, <2>3 DEF Fail, Crash, TornBy, AppsOK
    <3>3. /\ pc' \in [Apps -> {"idle", "asking", "received", "read", "saved", "committed", "down"}]
          /\ faults' \in Nat /\ UNCHANGED <<now, setbacks, scope, spool>>
      <4>1. UNCHANGED <<now, setbacks, scope, spool>> /\ faults' = faults + 1
        BY <2>3 DEF Fail, Crash, Faulty
      <4>2. \E l \in {"idle", "down"} : pc' = [pc EXCEPT ![a] = l]
        BY <2>3 DEF Fail, Crash
      <4>3. QED
        BY <1>t, <4>1, <4>2 DEF AppsOK
    <3>4. AppsOK'
      BY <1>t, <2>2, <3>1, <3>2, <3>3 DEF AppsOK, archive
    <3>5. QED
      BY <1>a, <2>2, <3>4
  <2>4. CASE Start(a)
    BY <1>a, <1>t, <2>2, <2>4 DEF Start, AppsOK, disk, archive
  <2>5. QED
    BY <1>8, <2>3, <2>4
<1>9. CASE Tick \/ StepBack
  <2>1. UNCHANGED archive /\ now' \in 0 .. Last /\ setbacks' \in Nat
    BY <1>9, <1>t, <1>w DEF Tick, StepBack, AppsOK
  <2>2. QED
    BY <1>9, <1>a, <1>t, <2>1 DEF Tick, StepBack, AppsOK, collector, disk, archive
<1>10. QED
  BY <1>1, <1>2, <1>3, <1>4, <1>5, <1>6, <1>7, <1>8, <1>9 DEF Next, Step

-----------------------------------------------------------------------------
(* The archive.                                                            *)

LEMMA SlotMonotone ==
  ASSUME NEW s \in Nat, NEW t \in Nat, s <= t
  PROVE  SlotOf(s) <= SlotOf(t)
<1> DEFINE a == SlotOf(s)
           b == SlotOf(t)
<1>1. /\ a \in Nat /\ Slot * a <= s
      /\ b \in Nat /\ t < Slot * b + Slot
      /\ Slot \in Nat \ {0}
  BY WeatherAssumption DEF SlotOf
<1> HIDE DEF a, b
<1>2. SUFFICES ASSUME a > b PROVE FALSE
  BY <1>1 DEF a, b
<1>3. Slot * a >= Slot * (b + 1)
  BY <1>1, <1>2, SMTT(30)
<1>4. Slot * (b + 1) = Slot * b + Slot
  BY <1>1
<1>5. QED
  BY <1>1, <1>3, <1>4

\* The cycle that was made last is the last one in the table.
LEMMA LatestIsLast ==
  ASSUME TypeOK, CyclesInv
  PROVE  /\ \A c \in Latest : c = Len(cycles)
         /\ DOMAIN cycles # {} => Len(cycles) \in Latest
<1>1. /\ Len(cycles) \in Nat /\ DOMAIN cycles = 1 .. Len(cycles)
      /\ \A c \in DOMAIN cycles : cycles[c].made \in Nat
  BY ArchiveTyped DEF CycleRec
<1>2. QED
  BY <1>1 DEF CyclesInv, Latest

ArchiveInv == CyclesInv /\ RequestsInv /\ PagesInv /\ WholeInv

\* The numbers a row holds.
LEMMA RowsTyped ==
  ASSUME TypeOK
  PROVE  /\ now \in Nat /\ setbacks \in Nat
         /\ \A i \in DOMAIN attempts :
              /\ attempts[i].number \in Nat /\ attempts[i].start \in Nat
              /\ attempts[i].asked \in Nat /\ attempts[i].got \in Int
              /\ attempts[i].cycle \in DOMAIN cycles /\ attempts[i].targets \subseteq Window
         /\ \A c \in DOMAIN cycles :
              /\ cycles[c].made \in Nat /\ cycles[c].closed \in Int
              /\ cycles[c].pages \in Nat /\ cycles[c].next \in Nat
         /\ Len(attempts) \in Nat /\ DOMAIN attempts = 1 .. Len(attempts)
         /\ Len(cycles) \in Nat /\ DOMAIN cycles = 1 .. Len(cycles)
<1>1. now \in Nat /\ setbacks \in Nat
  BY WeatherAssumption DEF TypeOK
<1>2. ASSUME NEW i \in DOMAIN attempts
      PROVE  /\ attempts[i].number \in Nat /\ attempts[i].start \in Nat
             /\ attempts[i].asked \in Nat /\ attempts[i].got \in Int
             /\ attempts[i].targets \subseteq Window
  BY ArchiveTyped DEF AttemptRec, Starts
<1>3. ASSUME NEW c \in DOMAIN cycles
      PROVE  /\ cycles[c].made \in Nat /\ cycles[c].closed \in Int
             /\ cycles[c].pages \in Nat /\ cycles[c].next \in Nat
  BY ArchiveTyped DEF CycleRec, Starts
<1>4. QED
  BY <1>1, <1>2, <1>3, ArchiveTyped

LEMMA NextPageKeepsArchive ==
  ASSUME TypeOK, ArchiveInv, NEW a \in Apps, NextPage(a)
  PROVE  ArchiveInv'
<1>1. PICK c \in Latest \cap Collecting :
        /\ Reserved(c) = {} /\ cycles[c].pages < MaxPages /\ cycles' = cycles
        /\ DOMAIN attempts' = DOMAIN attempts \cup {Len(attempts) + 1}
        /\ \A i \in DOMAIN attempts : attempts'[i] = attempts[i]
        /\ attempts'[Len(attempts) + 1] = NewRec(c, cycles[c].pages + 1, cycles[c].next)
  BY NextPageDoes
<1> DEFINE n == Len(attempts) + 1
<1>2. /\ attempts'[n].cycle = c /\ attempts'[n].number = cycles[c].pages + 1
      /\ attempts'[n].start = cycles[c].next /\ attempts'[n].asked = now
      /\ attempts'[n].status = "RESERVED" /\ attempts'[n].got = None
      /\ attempts'[n].targets = {}
  BY <1>1 DEF NewRec
<1>3. now' = now /\ setbacks' = setbacks
  BY DEF NextPage
<1>4. c \in Collecting /\ Collecting' = Collecting /\ c \in DOMAIN cycles
  BY <1>1 DEF Collecting
<1>5. \A i \in DOMAIN attempts : i < n
  BY RowsTyped
<1> HIDE DEF n
<1>6. CyclesInv'
  BY <1>1, <1>4 DEF ArchiveInv, CyclesInv
<1>7. RequestsInv'
  <2>1. ASSUME NEW i \in DOMAIN attempts
        PROVE  attempts'[i] = attempts[i] /\ i \in DOMAIN attempts
    BY <1>1
  <2>2. None <= now
    BY RowsTyped DEF None
  <2>3. QED
    BY <1>1, <1>2, <1>3, <1>4, <2>1, <2>2 DEF ArchiveInv, RequestsInv, n
<1>8. PagesInv'
  <2>1. ASSUME NEW i \in DOMAIN attempts, attempts[i].cycle = c
        PROVE  /\ attempts[i].status = "RECEIVED"
               /\ attempts[i].number < cycles[c].pages + 1
               /\ attempts[i].start < cycles[c].next
               /\ setbacks = 0 => attempts[i].got <= now
    <3>1. attempts[i].status # "RESERVED"
      BY <1>1, <2>1 DEF Reserved, PagesOf
    <3>2. QED
      BY <1>4, <2>1, <3>1, RowsTyped DEF ArchiveInv, RequestsInv
  <2>2. \A i \in DOMAIN attempts' : i \in DOMAIN attempts \/ i = n
    BY <1>1 DEF n
  <2>3. \A j \in DOMAIN attempts : ~(n < j)
    BY <1>5, RowsTyped DEF n
  <2>4. ~(n < n)
    BY RowsTyped DEF n
  <2>5. QED
    BY <1>1, <1>2, <1>3, <2>1, <2>2, <2>3, <2>4 DEF ArchiveInv, PagesInv
<1>9. WholeInv'
  <2>1. ASSUME NEW d \in DOMAIN cycles, cycles[d].status = "COMPLETE"
        PROVE  PagesOf(d)' = PagesOf(d)
    <3>1. d # c
      BY <1>4, <2>1 DEF Collecting
    <3>2. QED
      BY <1>1, <1>2, <3>1 DEF PagesOf, n
  <2>2. \A d \in DOMAIN cycles : \A i \in PagesOf(d) : attempts'[i] = attempts[i]
    BY <1>1 DEF PagesOf
  <2>3. QED
    BY <1>1, <1>3, <2>1, <2>2 DEF ArchiveInv, WholeInv
<1>10. QED
  BY <1>6, <1>7, <1>8, <1>9 DEF ArchiveInv

LEMMA OpenCycleKeepsArchive ==
  ASSUME TypeOK, ArchiveInv, NEW a \in Apps, OpenCycle(a)
  PROVE  ArchiveInv'
<1> DEFINE n == Len(attempts) + 1
           m == Len(cycles) + 1
<1>1. /\ Len(cycles') = m
      /\ DOMAIN cycles' = DOMAIN cycles \cup {m}
      /\ \A c \in DOMAIN cycles : cycles'[c] = cycles[c]
      /\ cycles'[m] = NewCycle(a)
      /\ DOMAIN attempts' = DOMAIN attempts \cup {n}
      /\ \A i \in DOMAIN attempts : attempts'[i] = attempts[i]
      /\ attempts'[n] = NewRec(m, 1, 0)
  BY OpenCycleDoes
<1>2. /\ attempts'[n].cycle = m /\ attempts'[n].number = 1
      /\ attempts'[n].start = 0 /\ attempts'[n].asked = now
      /\ attempts'[n].status = "RESERVED" /\ attempts'[n].got = None
      /\ attempts'[n].targets = {}
  BY <1>1 DEF NewRec
<1>3. cycles'[m].made = now /\ cycles'[m].status = "COLLECTING" /\ cycles'[m].pages = 0
      /\ cycles'[m].next = 0
  BY <1>1 DEF NewCycle
<1>4. now' = now /\ setbacks' = setbacks
  BY DEF OpenCycle
<1>5. /\ \A i \in DOMAIN attempts : i < n /\ attempts[i].cycle # m
      /\ \A c \in DOMAIN cycles : c < m
      /\ n \notin DOMAIN attempts /\ m \notin DOMAIN cycles
  BY RowsTyped
<1>6. Collecting = {}
  <2>1. Latest \cap Collecting = {}
    BY DEF OpenCycle
  <2>2. QED
    BY <2>1, LatestIsLast DEF ArchiveInv, CyclesInv, Collecting
<1>7. \A c \in DOMAIN cycles : cycles[c].made < now
  <2>1. SUFFICES ASSUME NEW c \in DOMAIN cycles PROVE cycles[c].made < now
    OBVIOUS
  <2>2. Len(cycles) \in Latest /\ Len(cycles) \in DOMAIN cycles
    BY LatestIsLast, RowsTyped DEF ArchiveInv
  <2>3. SlotOf(cycles[Len(cycles)].made) < SlotOf(now)
    BY <2>2 DEF OpenCycle
  <2>4. cycles[Len(cycles)].made \in Nat /\ now \in Nat /\ cycles[c].made \in Nat
    BY <2>2, RowsTyped
  <2>5. SlotOf(cycles[Len(cycles)].made) \in Int /\ SlotOf(now) \in Int
    BY <2>4, WeatherAssumption DEF SlotOf
  <2>6. cycles[Len(cycles)].made < now
    BY <2>3, <2>4, <2>5, SlotMonotone
  <2>7. cycles[c].made <= cycles[Len(cycles)].made
    BY <2>2 DEF Latest
  <2>8. QED
    BY <2>4, <2>6, <2>7
<1> HIDE DEF n, m
<1>8. Collecting' = {m}
  BY <1>1, <1>3, <1>6 DEF Collecting
<1>9. CyclesInv'
  <2>1. ASSUME NEW c \in DOMAIN cycles', NEW d \in DOMAIN cycles', c < d
        PROVE  cycles'[c].made < cycles'[d].made
    <3>1. c \in DOMAIN cycles
      BY <1>1, <1>5, <2>1, RowsTyped DEF m
    <3>2. CASE d = m
      BY <1>1, <1>3, <1>7, <3>1, <3>2
    <3>3. CASE d \in DOMAIN cycles
      BY <1>1, <2>1, <3>1, <3>3 DEF ArchiveInv, CyclesInv
    <3>4. QED
      BY <1>1, <3>2, <3>3
  <2>2. m = Len(cycles') /\ cycles'[m].pages < MaxPages
    BY <1>1, <1>3, WeatherAssumption
  <2>3. QED
    BY <1>8, <2>1, <2>2 DEF CyclesInv
<1>10. RequestsInv'
  <2>1. None <= now
    BY RowsTyped DEF None
  <2>2. QED
    BY <1>1, <1>2, <1>3, <1>4, <1>5, <1>6, <1>8, <2>1 DEF ArchiveInv, RequestsInv
<1>11. PagesInv'
  <2>1. ~(n < n) /\ \A j \in DOMAIN attempts : ~(n < j)
    BY <1>5, RowsTyped DEF n
  <2>2. QED
    BY <1>1, <1>2, <1>4, <1>5, <2>1 DEF ArchiveInv, PagesInv
<1>12. WholeInv'
  <2>1. \A d \in DOMAIN cycles : PagesOf(d)' = PagesOf(d)
    BY <1>1, <1>2, <1>5 DEF PagesOf
  <2>2. \A d \in DOMAIN cycles : \A i \in PagesOf(d) : attempts'[i] = attempts[i]
    BY <1>1 DEF PagesOf
  <2>3. QED
    BY <1>1, <1>3, <1>4, <2>1, <2>2 DEF ArchiveInv, WholeInv
<1>13. QED
  BY <1>9, <1>10, <1>11, <1>12 DEF ArchiveInv

LEMMA GiveUpKeepsArchive ==
  ASSUME TypeOK, ArchiveInv, NEW a \in Apps, GiveUp(a)
  PROVE  ArchiveInv'
<1>1. PICK c \in Latest \cap Collecting :
        /\ DOMAIN cycles' = DOMAIN cycles /\ Len(cycles') = Len(cycles)
        /\ \A d \in DOMAIN cycles \ {c} : cycles'[d] = cycles[d]
        /\ cycles'[c] = [cycles[c] EXCEPT !.status = "PARTIAL", !.closed = now]
        /\ DOMAIN attempts' = DOMAIN attempts
        /\ \A i \in Reserved(c) : attempts'[i] = [attempts[i] EXCEPT !.status = "UNKNOWN"]
        /\ \A i \in DOMAIN attempts \ Reserved(c) : attempts'[i] = attempts[i]
  BY GiveUpDoes
<1>2. c \in DOMAIN cycles /\ c \in Collecting /\ cycles[c] \in CycleRec
  BY <1>1, ArchiveTyped DEF Collecting
<1>3. cycles'[c].status = "PARTIAL" /\ cycles'[c].made = cycles[c].made
  <2>1. cycles'[c] = [[cycles[c] EXCEPT !.status = "PARTIAL"] EXCEPT !.closed = now]
    BY <1>1
  <2>2. QED
    BY <1>2, <2>1 DEF CycleRec
<1>4. now' = now /\ setbacks' = setbacks
  BY DEF GiveUp
<1>5. \A i \in DOMAIN attempts :
        /\ attempts'[i].cycle = attempts[i].cycle /\ attempts'[i].number = attempts[i].number
        /\ attempts'[i].start = attempts[i].start /\ attempts'[i].asked = attempts[i].asked
        /\ attempts'[i].got = attempts[i].got /\ attempts'[i].targets = attempts[i].targets
        /\ i \in Reserved(c) => attempts'[i].status = "UNKNOWN"
        /\ i \notin Reserved(c) => attempts'[i].status = attempts[i].status
  <2>1. ASSUME NEW i \in DOMAIN attempts
        PROVE  LET r == [attempts[i] EXCEPT !.status = "UNKNOWN"]
               IN  /\ r.cycle = attempts[i].cycle /\ r.number = attempts[i].number
                   /\ r.start = attempts[i].start /\ r.asked = attempts[i].asked
                   /\ r.got = attempts[i].got /\ r.targets = attempts[i].targets
                   /\ r.status = "UNKNOWN"
    BY <2>1, ArchiveTyped DEF AttemptRec
  <2>2. \A i \in DOMAIN attempts :
          \/ i \in Reserved(c) /\ attempts'[i] = [attempts[i] EXCEPT !.status = "UNKNOWN"]
          \/ i \notin Reserved(c) /\ attempts'[i] = attempts[i]
    BY <1>1
  <2>3. QED
    BY <2>1, <2>2
<1>6. \A i \in DOMAIN attempts : i \in Reserved(c) <=> attempts[i].status = "RESERVED"
  <2>1. Collecting \subseteq {c}
    BY <1>2 DEF ArchiveInv, CyclesInv
  <2>2. QED
    BY <2>1 DEF ArchiveInv, RequestsInv, Reserved, PagesOf
<1>7. Collecting' = {}
  <2>1. ASSUME NEW d \in DOMAIN cycles, cycles'[d].status = "COLLECTING"
        PROVE  FALSE
    <3>1. d # c
      BY <1>3, <2>1
    <3>2. d \in Collecting
      BY <1>1, <2>1, <3>1 DEF Collecting
    <3>3. QED
      BY <1>2, <3>1, <3>2 DEF ArchiveInv, CyclesInv
  <2>2. QED
    BY <1>1, <2>1 DEF Collecting
<1>8. CyclesInv'
  <2>1. \A d \in DOMAIN cycles : cycles'[d].made = cycles[d].made
    BY <1>1, <1>3
  <2>2. QED
    BY <1>1, <1>7, <2>1 DEF ArchiveInv, CyclesInv
<1>9. RequestsInv'
  BY <1>1, <1>4, <1>5, <1>6, <1>7 DEF ArchiveInv, RequestsInv
<1>10. PagesInv'
  BY <1>1, <1>4, <1>5, <1>6 DEF ArchiveInv, PagesInv
<1>11. WholeInv'
  <2>1. \A d \in DOMAIN cycles : PagesOf(d)' = PagesOf(d)
    BY <1>1, <1>5 DEF PagesOf
  <2>2. \A d \in DOMAIN cycles : cycles'[d].status = "COMPLETE" => cycles'[d] = cycles[d]
    BY <1>1, <1>3
  <2>3. \A d \in DOMAIN cycles : \A i \in PagesOf(d) : i \in DOMAIN attempts
    BY DEF PagesOf
  <2>4. QED
    BY <1>1, <1>4, <1>5, <1>6, <2>1, <2>2, <2>3 DEF ArchiveInv, WholeInv
<1>12. QED
  BY <1>8, <1>9, <1>10, <1>11 DEF ArchiveInv

LEMMA DeliverKeepsArchive ==
  ASSUME TypeOK, HolderInv, ArchiveInv, NEW a \in Apps, Deliver(a)
  PROVE  ArchiveInv'
<1> DEFINE page == pending[a]
           id   == page.id
           c    == attempts[id].cycle
<1>0. now' = now /\ setbacks' = setbacks
  BY DEF Deliver
<1>1. CASE UNCHANGED archive
  BY <1>0, <1>1 DEF archive, ArchiveInv, CyclesInv, RequestsInv, PagesInv, WholeInv, Collecting,
                    PagesOf
<1>2. CASE ~UNCHANGED archive
  <2>1. /\ page \in Page /\ id \in DOMAIN attempts /\ c \in DOMAIN cycles
        /\ attempts[id].status \in {"RESERVED", "UNKNOWN"}
        /\ DOMAIN cycles' = DOMAIN cycles /\ Len(cycles') = Len(cycles)
        /\ DOMAIN attempts' = DOMAIN attempts
        /\ \A d \in DOMAIN cycles \ {c} : cycles'[d] = cycles[d]
        /\ cycles'[c] = Advanced(c, page)
        /\ \A i \in DOMAIN attempts \ {id} : attempts'[i] = attempts[i]
        /\ attempts'[id] = Finished(page)
    BY <1>2, DeliverDoes
  <2>2. /\ attempts'[id].cycle = c /\ attempts'[id].number = attempts[id].number
        /\ attempts'[id].start = attempts[id].start /\ attempts'[id].asked = attempts[id].asked
        /\ attempts'[id].targets = page.targets
        /\ attempts'[id].got = IF page.kind = "lost" THEN None ELSE page.at
        /\ attempts'[id].status = IF Late(page) THEN "LATE_RESPONSE"
                                  ELSE IF page.kind = "lost" THEN "UNKNOWN" ELSE "RECEIVED"
    BY <2>1, ArchiveTyped, FinishedIs
  <2>3. /\ page.at \in Nat /\ page.next \in None .. Width
        /\ page.next # None => page.next > attempts[id].start
        /\ setbacks = 0 => attempts[id].asked <= page.at /\ page.at <= now
    BY <2>1, DeliverDoes DEF HolderInv, Holder, PageInv, Page
  <2>4. \A j \in DOMAIN attempts : id < j => attempts[j].cycle # c
    BY <2>1 DEF ArchiveInv, PagesInv
  <2>5. Late(page) <=> c \notin Collecting
    BY <2>1 DEF Late, Collecting, ArchiveInv, RequestsInv
  <2>6. \A i \in DOMAIN attempts : attempts'[i].cycle = attempts[i].cycle
    BY <2>1, <2>2
  <2>7. \A d \in DOMAIN cycles : PagesOf(d)' = PagesOf(d)
    BY <2>1, <2>6 DEF PagesOf
  <2>8. PagesInv'
    <3>1. \A i \in DOMAIN attempts :
            /\ attempts'[i].number = attempts[i].number /\ attempts'[i].start = attempts[i].start
            /\ attempts'[i].asked = attempts[i].asked
            /\ i # id => attempts'[i].status = attempts[i].status /\ attempts'[i].got = attempts[i].got
      BY <2>1, <2>2
    <3>2. QED
      BY <1>0, <2>1, <2>4, <2>6, <3>1 DEF ArchiveInv, PagesInv
  <2>9. /\ attempts'[id].got = None \/ attempts'[id].got = page.at
        /\ attempts'[id].status \in {"RESERVED", "UNKNOWN"} => attempts'[id].got = None
        /\ attempts'[id].status = "RECEIVED" => attempts'[id].got # None
        /\ setbacks = 0 => attempts'[id].got <= now
        /\ attempts'[id].status # "RESERVED"
    BY <2>2, <2>3, RowsTyped DEF None
  <2> HIDE DEF c, id, page
  <2>10. CASE Late(page)
    <3>1. cycles'[c] = cycles[c] /\ c \notin Collecting
      BY <2>1, <2>5, <2>10, AdvancedIs
    <3>2. \A d \in DOMAIN cycles : cycles'[d] = cycles[d]
      BY <2>1, <3>1
    <3>3. Collecting' = Collecting
      BY <2>1, <3>2 DEF Collecting
    <3>4. CyclesInv'
      BY <2>1, <3>2, <3>3 DEF ArchiveInv, CyclesInv, Collecting
    <3>5. RequestsInv'
      <4>1. \A d \in Collecting : d \in DOMAIN cycles
        BY DEF Collecting
      <4>2. QED
        BY <1>0, <2>1, <2>2, <2>9, <3>1, <3>2, <3>3, <4>1 DEF ArchiveInv, RequestsInv
    <3>6. WholeInv'
      <4>1. cycles[c].status # "COMPLETE"
        BY <2>1 DEF ArchiveInv, WholeInv, PagesOf, c
      <4>2. \A d \in DOMAIN cycles : d # c => \A i \in PagesOf(d) : attempts'[i] = attempts[i]
        BY <2>1 DEF PagesOf, c
      <4>3. QED
        BY <1>0, <2>1, <2>7, <3>2, <4>1, <4>2 DEF ArchiveInv, WholeInv
    <3>7. QED
      BY <2>8, <3>4, <3>5, <3>6 DEF ArchiveInv
  <2>11. CASE ~Late(page)
    <3> DEFINE st == Outcome(c, page)
    <3>1. /\ c \in Collecting /\ c = Len(cycles) /\ attempts[id].status = "RESERVED"
          /\ attempts[id].number = cycles[c].pages + 1 /\ attempts[id].start = cycles[c].next
          /\ attempts[id].targets = {}
      <4>1. c \in Collecting
        BY <2>5, <2>11
      <4>2. attempts[id].status = "RESERVED"
        BY <2>11 DEF Late, c, id
      <4>3. QED
        BY <2>1, <4>1, <4>2 DEF ArchiveInv, CyclesInv, RequestsInv, c
    <3>2. st \in {"COLLECTING", "COMPLETE", "PARTIAL"}
      BY DEF Outcome
    <3>3. /\ cycles'[c].made = cycles[c].made /\ cycles'[c].status = st
          /\ cycles'[c].pages = attempts[id].number
          /\ cycles'[c].next = IF page.next = None THEN cycles[c].next ELSE page.next
          /\ cycles'[c].closed = IF st = "COLLECTING" THEN None ELSE page.at
      <4>1. cycles'[c] = Closed(c, page, st)
        BY <2>1, <2>11, AdvancedIs
      <4>2. cycles[c] \in CycleRec /\ attempts[id].number \in 1 .. MaxPages
        BY <2>1, ArchiveTyped DEF AttemptRec
      <4>3. QED
        BY <2>1, <3>2, <4>1, <4>2, ClosedIs DEF id
    <3>4. st = "COLLECTING" => /\ page.kind = "paged" /\ page.next # None
                               /\ attempts[id].number < MaxPages
      <4>1. attempts[id].number \in Nat /\ MaxPages \in Nat
        BY <2>1, RowsTyped, WeatherAssumption
      <4>2. QED
        BY <4>1 DEF Outcome, id
    <3>5. st = "COMPLETE" => page.kind = "paged" /\ Covered(c, page)
      BY DEF Outcome
    <3> HIDE DEF st
    <3>6. \A i \in DOMAIN attempts \ {id} : attempts[i].cycle = c =>
            /\ attempts[i].status = "RECEIVED" /\ i < id
            /\ attempts[i].number < attempts[id].number
            /\ attempts[i].start < attempts[id].start
            /\ setbacks = 0 => attempts[i].got <= attempts[id].asked
      <4>1. \A i \in DOMAIN attempts \ {id} : i < id \/ id < i
        BY <2>1, RowsTyped
      <4>2. QED
        BY <2>1, <2>4, <4>1 DEF ArchiveInv, PagesInv, c
    <3>7. Collecting' \subseteq {c} /\ (Collecting' # {} => st = "COLLECTING")
      <4>1. Collecting \subseteq {c}
        BY <3>1 DEF ArchiveInv, CyclesInv
      <4>2. \A d \in DOMAIN cycles : d # c => d \notin Collecting'
        BY <2>1, <4>1 DEF Collecting
      <4>3. QED
        BY <2>1, <3>3, <4>2 DEF Collecting
    <3>8. CyclesInv'
      <4>1. \A d \in DOMAIN cycles : cycles'[d].made = cycles[d].made
        BY <2>1, <3>3
      <4>2. QED
        BY <2>1, <3>1, <3>3, <3>4, <3>7, <4>1 DEF ArchiveInv, CyclesInv
    <3>9. RequestsInv'
      <4>1. \A i \in DOMAIN attempts : attempts'[i].status # "RESERVED"
        <5>1. \A i \in DOMAIN attempts \ {id} : attempts[i].status # "RESERVED"
          <6>1. SUFFICES ASSUME NEW i \in DOMAIN attempts \ {id}, attempts[i].status = "RESERVED"
                         PROVE  FALSE
            OBVIOUS
          <6>2. attempts[i].cycle \in Collecting
            BY <6>1 DEF ArchiveInv, RequestsInv
          <6>3. attempts[i].cycle = c
            BY <3>1, <6>2 DEF ArchiveInv, CyclesInv
          <6>4. QED
            BY <3>6, <6>1, <6>3
        <5>2. QED
          BY <2>1, <2>9, <5>1
      <4>2. ASSUME NEW i \in DOMAIN attempts, attempts'[i].cycle \in Collecting'
            PROVE  /\ attempts'[i].status = "RECEIVED"
                   /\ attempts'[i].number <= cycles'[attempts'[i].cycle].pages
                   /\ attempts'[i].start < cycles'[attempts'[i].cycle].next
        <5>1. attempts'[i].cycle = c /\ attempts[i].cycle = c /\ st = "COLLECTING"
          BY <2>6, <3>7, <4>2
        <5>2. cycles'[c].pages = attempts[id].number /\ cycles'[c].next = page.next
              /\ page.next > attempts[id].start /\ page.next \in Int /\ page.kind = "paged"
          BY <2>3, <3>3, <3>4, <5>1
        <5>3. CASE i = id
          BY <2>1, <2>2, <2>11, <5>1, <5>2, <5>3, RowsTyped
        <5>4. CASE i # id
          BY <2>1, <3>6, <5>1, <5>2, <5>4, RowsTyped
        <5>5. QED
          BY <5>3, <5>4
      <4>3. ASSUME NEW i \in DOMAIN attempts
            PROVE  /\ attempts'[i].status \in {"RESERVED", "UNKNOWN"} => attempts'[i].got = None
                   /\ attempts'[i].status = "RECEIVED" => attempts'[i].got # None
                   /\ setbacks' = 0 => attempts'[i].got <= now'
        BY <1>0, <2>1, <2>9 DEF ArchiveInv, RequestsInv
      <4>4. QED
        BY <2>1, <4>1, <4>2, <4>3 DEF RequestsInv
    <3>10. WholeInv'
      <4>1. ASSUME NEW d \in DOMAIN cycles, d # c
            PROVE  cycles'[d] = cycles[d] /\ \A i \in PagesOf(d) : attempts'[i] = attempts[i]
        BY <2>1, <4>1 DEF PagesOf, c
      <4>2. ASSUME st = "COMPLETE"
            PROVE  /\ \A i \in PagesOf(c) : attempts'[i].status = "RECEIVED"
                   /\ \A t \in Window : \E i \in PagesOf(c) : t \in attempts'[i].targets
                   /\ \A i, j \in PagesOf(c) :
                        i # j => attempts'[i].targets \cap attempts'[j].targets = {}
                   /\ setbacks = 0 => \A i \in PagesOf(c) : attempts'[i].got <= cycles'[c].closed
        <5>1. page.kind = "paged" /\ Covered(c, page) /\ cycles'[c].closed = page.at
          BY <3>3, <3>5, <4>2
        <5>2. /\ attempts'[id].status = "RECEIVED" /\ attempts'[id].targets = page.targets
              /\ attempts'[id].got = page.at
          BY <2>2, <2>11, <5>1
        <5>3. \A i \in PagesOf(c) : i \in DOMAIN attempts
                /\ (i # id => attempts[i].cycle = c /\ attempts'[i] = attempts[i])
          BY <2>1 DEF PagesOf
        <5>4. id \in PagesOf(c)
          BY <2>1 DEF PagesOf, c
        <5>5. \A i \in PagesOf(c) : attempts'[i].status = "RECEIVED"
          BY <3>6, <5>2, <5>3
        <5>6. \A t \in Window : \E i \in PagesOf(c) : t \in attempts'[i].targets
          <6>1. ASSUME NEW t \in Window PROVE \E i \in PagesOf(c) : t \in attempts'[i].targets
            <7>1. t \in page.targets \/ \E i \in PagesOf(c) : t \in attempts[i].targets
              <8>1. TargetsOf(c, page) \cap Window = Window
                BY <5>1 DEF Covered
              <8>2. t \in TargetsOf(c, page)
                BY <6>1, <8>1
              <8> DEFINE S == {attempts[i].targets : i \in PagesOf(c)}
              <8>3. \A T \in S : \E i \in PagesOf(c) : T = attempts[i].targets
                OBVIOUS
              <8>4. t \in (UNION S) \cup page.targets
                BY <8>2 DEF TargetsOf
              <8> HIDE DEF S
              <8>5. t \in page.targets \/ \E T \in S : t \in T
                BY <8>4
              <8>6. QED
                BY <8>3, <8>5
            <7>2. CASE t \in page.targets
              BY <5>2, <5>4, <7>2
            <7>3. ASSUME NEW i \in PagesOf(c), t \in attempts[i].targets
                  PROVE  \E k \in PagesOf(c) : t \in attempts'[k].targets
              <8>1. i # id
                BY <3>1, <7>3
              <8>2. QED
                BY <5>3, <7>3, <8>1
            <7>4. QED
              BY <7>1, <7>2, <7>3
          <6>2. QED
            BY <6>1
        <5>7. \A i, j \in PagesOf(c) : i # j => attempts'[i].targets \cap attempts'[j].targets = {}
          <6>1. ~Overlap(c, page)
            BY <5>1 DEF Covered
          <6>2. \A i \in PagesOf(c) : attempts[i].targets \subseteq Window
            BY <5>3, RowsTyped
          <6>3. \A i \in PagesOf(c) \ {id} : \A t \in attempts[i].targets :
                  /\ t \notin page.targets
                  /\ \A j \in PagesOf(c) \ {i, id} : t \notin attempts[j].targets
            BY <6>1, <6>2 DEF Overlap, id
          <6>4. \A i \in PagesOf(c) \ {id} : attempts'[i].targets = attempts[i].targets
            BY <5>3
          <6>5. QED
            BY <5>2, <5>4, <6>3, <6>4
        <5>8. setbacks = 0 => \A i \in PagesOf(c) : attempts'[i].got <= cycles'[c].closed
          <6>1. SUFFICES ASSUME setbacks = 0, NEW i \in PagesOf(c)
                         PROVE  attempts'[i].got <= page.at
            BY <5>1
          <6>2. CASE i = id
            BY <2>3, <5>2, <6>2
          <6>3. CASE i # id
            <7>1. /\ attempts'[i].got = attempts[i].got
                  /\ attempts[i].got <= attempts[id].asked /\ attempts[id].asked <= page.at
              BY <2>3, <3>6, <5>3, <6>1, <6>3
            <7>2. attempts[i].got \in Int /\ attempts[id].asked \in Int /\ page.at \in Int
              BY <2>1, <2>3, <5>3, RowsTyped
            <7>3. QED
              BY <7>1, <7>2
          <6>4. QED
            BY <6>2, <6>3
        <5>9. QED
          BY <5>5, <5>6, <5>7, <5>8
      <4>3. QED
        BY <1>0, <2>1, <2>7, <3>3, <4>1, <4>2 DEF ArchiveInv, WholeInv
    <3>11. QED
      BY <2>8, <3>8, <3>9, <3>10 DEF ArchiveInv
  <2>12. QED
    BY <2>10, <2>11
<1>3. QED
  BY <1>1, <1>2

\* What is left are steps that do not touch the archive.
LEMMA ArchiveStep ==
  ASSUME TypeOK, HolderInv, ArchiveInv, [Next]_vars
  PROVE  ArchiveInv'
<1>1. ASSUME NEW a \in Apps, GiveUp(a) \/ NextPage(a) \/ OpenCycle(a) \/ Deliver(a)
      PROVE  ArchiveInv'
  BY <1>1, GiveUpKeepsArchive, NextPageKeepsArchive, OpenCycleKeepsArchive, DeliverKeepsArchive
<1>2. CASE ~\E a \in Apps : GiveUp(a) \/ NextPage(a) \/ OpenCycle(a) \/ Deliver(a)
  <2>1. /\ UNCHANGED <<cycles, attempts>>
        /\ setbacks' = 0 => setbacks = 0 /\ now <= now'
    <3>1. now \in Int /\ setbacks \in Nat
      BY RowsTyped
    <3>2. QED
      BY <1>2, <3>1 DEF Next, Step, Receive, Keep, Resume, Save, Acknowledge, Fail, Crash, Start,
                        Tick, StepBack, vars, archive
  <2>2. ASSUME NEW i \in DOMAIN attempts, setbacks' = 0
        PROVE  attempts[i].got <= now'
    <3>1. attempts[i].got <= now /\ now <= now'
      BY <2>1, <2>2 DEF ArchiveInv, RequestsInv
    <3>2. attempts[i].got \in Int /\ now \in Int /\ now' \in Int
      <4>1. TypeOK'
        BY TypeStep
      <4>2. now' \in Int
        BY <4>1 DEF TypeOK
      <4>3. QED
        BY <2>2, <4>2, RowsTyped
    <3>3. QED
      BY <3>1, <3>2
  <2>3. Collecting' = Collecting /\ \A d \in DOMAIN cycles : PagesOf(d)' = PagesOf(d)
    BY <2>1 DEF Collecting, PagesOf
  <2>4. QED
    BY <2>1, <2>2, <2>3 DEF ArchiveInv, CyclesInv, RequestsInv, PagesInv, WholeInv
<1>3. QED
  BY <1>1, <1>2

-----------------------------------------------------------------------------
(* The Apps.                                                               *)

\* What may become of an attempt of another App.
KeptRow(i) ==
  /\ i \in DOMAIN attempts'
  /\ attempts'[i].start = attempts[i].start /\ attempts'[i].asked = attempts[i].asked
  /\ attempts'[i].got = attempts[i].got /\ attempts'[i].targets = attempts[i].targets
  /\ \/ attempts'[i].status = attempts[i].status
     \/ attempts[i].status = "RESERVED" /\ attempts'[i].status = "UNKNOWN"

OnTime == setbacks' = 0 => setbacks = 0 /\ now <= now'

LEMMA PagesStay ==
  ASSUME TypeOK, TypeOK', OnTime
  PROVE  \A p \in Page : PageInv(p) /\ (p # NoPage => KeptRow(p.id)) =>
           /\ PageInv(p)'
           /\ p # NoPage /\ Archived(p) => Archived(p)'
<1>1. now \in Int /\ now' \in Int
  BY DEF TypeOK
<1>2. SUFFICES ASSUME NEW p \in Page, p # NoPage, PageInv(p), KeptRow(p.id)
               PROVE  PageInv(p)' /\ (Archived(p) => Archived(p)')
  BY DEF PageInv
<1>3. Archived(p) => Archived(p)'
  BY <1>2 DEF KeptRow, Archived
<1>4. attempts'[p.id].status \in {"RECEIVED", "LATE_RESPONSE"} => Archived(p)
  BY <1>2 DEF KeptRow, PageInv
<1>5. p.at \in Int
  BY DEF Page
<1>6. PageInv(p)'
  BY <1>1, <1>2, <1>3, <1>4, <1>5 DEF PageInv, KeptRow, OnTime
<1>7. QED
  BY <1>3, <1>6

\* An App that does nothing holds what it held.
LEMMA HolderStays ==
  ASSUME TypeOK, TypeOK', HolderInv, OnTime, NEW b \in Apps,
         pc'[b] = pc[b], claim'[b] = claim[b], pending'[b] = pending[b], spool'[b] = spool[b],
         \A i \in Ids(b) \cap DOMAIN attempts : KeptRow(i)
  PROVE  Holder(b)'
<1>1. Holder(b) /\ pending[b] \in Page /\ spool[b] \in Page
  BY DEF HolderInv, TypeOK
<1>2. now \in Int /\ now' \in Int
  BY DEF TypeOK
<1>3. /\ pending[b] # NoPage => KeptRow(pending[b].id)
      /\ spool[b] # NoPage => KeptRow(spool[b].id)
      /\ pc[b] = "asking" => KeptRow(claim[b])
  BY <1>1 DEF Holder, PageInv, Ids
<1>4. /\ PageInv(pending[b])' /\ PageInv(spool[b])'
      /\ pending[b] # NoPage /\ Archived(pending[b]) => Archived(pending[b])'
  <2>1. \A p \in Page : p = pending[b] \/ p = spool[b] =>
          PageInv(p)' /\ (p # NoPage /\ Archived(p) => Archived(p)')
    BY <1>1, <1>3, PagesStay DEF Holder
  <2>2. QED
    BY <1>1, <2>1 DEF PageInv, Archived
<1>5. pc[b] = "asking" =>
        /\ claim[b] \in DOMAIN attempts'
        /\ attempts'[claim[b]].status \in {"RESERVED", "UNKNOWN"}
        /\ setbacks' = 0 => attempts'[claim[b]].asked <= now'
  <2>1. pc[b] = "asking" => claim[b] \in DOMAIN attempts /\ attempts[claim[b]].asked \in Int
    BY <1>1, RowsTyped DEF Holder
  <2>2. QED
    BY <1>1, <1>2, <1>3, <2>1 DEF Holder, KeptRow, OnTime
<1>6. QED
  BY <1>1, <1>4, <1>5 DEF Holder, SamePage

\* Time and the archive under the steps of the Apps.
LEMMA RowsOfOthers ==
  ASSUME TypeOK, HolderInv, [Next]_vars
  PROVE  /\ OnTime
         /\ UNCHANGED attempts => \A i \in DOMAIN attempts : KeptRow(i)
         /\ \A a \in Apps : GiveUp(a) \/ NextPage(a) \/ OpenCycle(a) =>
              \A i \in DOMAIN attempts : KeptRow(i)
         /\ \A a \in Apps : Deliver(a) =>
              \A i \in DOMAIN attempts : i # pending[a].id => KeptRow(i)
<1>1. now \in Int /\ setbacks \in Nat
  BY RowsTyped
<1>2. OnTime
  <2>1. ASSUME NEW a \in Apps, Step(a) \/ Fail(a) \/ Crash(a) \/ Start(a)
        PROVE  UNCHANGED <<now, setbacks>>
    BY <2>1 DEF Step, GiveUp, NextPage, OpenCycle, Receive, Keep, Resume, Save, Deliver,
                Acknowledge, Fail, Crash, Start
  <2>2. CASE UNCHANGED <<now, setbacks>>
    BY <1>1, <2>2 DEF OnTime
  <2>3. CASE Tick
    BY <1>1, <2>3 DEF OnTime, Tick
  <2>4. CASE StepBack
    BY <1>1, <2>4 DEF OnTime, StepBack
  <2>5. CASE UNCHANGED vars
    BY <2>2, <2>5 DEF vars
  <2>6. QED
    BY <2>1, <2>2, <2>3, <2>4, <2>5 DEF Next
<1>3. ASSUME UNCHANGED attempts
      PROVE  \A i \in DOMAIN attempts : KeptRow(i)
  BY <1>3 DEF KeptRow
<1>4. ASSUME NEW a \in Apps, GiveUp(a)
      PROVE  \A i \in DOMAIN attempts : KeptRow(i)
  <2>1. PICK c \in DOMAIN cycles :
          /\ DOMAIN attempts' = DOMAIN attempts
          /\ \A i \in Reserved(c) : attempts'[i] = [attempts[i] EXCEPT !.status = "UNKNOWN"]
          /\ \A i \in DOMAIN attempts \ Reserved(c) : attempts'[i] = attempts[i]
    BY <1>4, GiveUpDoes DEF Latest
  <2>2. ASSUME NEW i \in Reserved(c) PROVE KeptRow(i)
    <3>1. i \in DOMAIN attempts /\ attempts[i].status = "RESERVED"
      BY <2>2 DEF Reserved, PagesOf
    <3>2. attempts[i] \in AttemptRec(DOMAIN cycles)
      BY <3>1, ArchiveTyped
    <3>3. QED
      BY <2>1, <2>2, <3>1, <3>2 DEF KeptRow, AttemptRec
  <2>3. ASSUME NEW i \in DOMAIN attempts \ Reserved(c) PROVE KeptRow(i)
    BY <2>1, <2>3 DEF KeptRow
  <2>4. QED
    BY <2>2, <2>3
<1>5. ASSUME NEW a \in Apps, NextPage(a)
      PROVE  \A i \in DOMAIN attempts : KeptRow(i)
  BY <1>5, NextPageDoes DEF KeptRow
<1>6. ASSUME NEW a \in Apps, OpenCycle(a)
      PROVE  \A i \in DOMAIN attempts : KeptRow(i)
  BY <1>6, OpenCycleDoes DEF KeptRow
<1>7. ASSUME NEW a \in Apps, Deliver(a)
      PROVE  \A i \in DOMAIN attempts : i # pending[a].id => KeptRow(i)
  <2>1. CASE UNCHANGED archive
    BY <2>1 DEF archive, KeptRow
  <2>2. CASE ~UNCHANGED archive
    BY <1>7, <2>2, DeliverDoes DEF KeptRow
  <2>3. QED
    BY <2>1, <2>2
<1>8. QED
  BY <1>2, <1>3, <1>4, <1>5, <1>6, <1>7

LEMMA OthersHold ==
  ASSUME TypeOK, TypeOK', HolderInv, OwnersInv, OnTime, NEW a \in Apps, NEW b \in Apps, b # a,
         pc'[b] = pc[b], claim'[b] = claim[b], pending'[b] = pending[b], spool'[b] = spool[b],
         \A i \in DOMAIN attempts : i # pending[a].id => KeptRow(i)
  PROVE  Holder(b)'
<1>1. 0 \notin DOMAIN attempts
  BY RowsTyped
<1>2. \A i \in Ids(b) \cap DOMAIN attempts : i # pending[a].id
  BY <1>1 DEF OwnersInv, Ids
<1>3. QED
  BY <1>2, HolderStays

\* The page as it is kept first, and no page, are held as well as the page.
LEMMA PagesHeld ==
  ASSUME TypeOK
  PROVE  /\ PageInv(NoPage)
         /\ \A p \in Page : PageInv(p) /\ p # NoPage =>
              /\ PageInv(Unpaged(p)) /\ SamePage(p, Unpaged(p)) /\ SamePage(Unpaged(p), p)
              /\ Unpaged(p) # NoPage
<1>1. PageInv(NoPage)
  BY DEF PageInv
<1>2. ASSUME NEW p \in Page, PageInv(p), p # NoPage
      PROVE  /\ PageInv(Unpaged(p)) /\ SamePage(p, Unpaged(p)) /\ SamePage(Unpaged(p), p)
             /\ Unpaged(p) # NoPage
  <2>1. CASE p.kind # "paged"
    BY <1>2, <2>1 DEF Unpaged, SamePage
  <2>2. CASE p.kind = "paged"
    <3>1. Unpaged(p) = [[p EXCEPT !.kind = "unpaged"] EXCEPT !.next = None]
      BY <2>2 DEF Unpaged
    <3>2. /\ Unpaged(p).id = p.id /\ Unpaged(p).at = p.at /\ Unpaged(p).targets = p.targets
          /\ Unpaged(p).kind = "unpaged" /\ Unpaged(p).next = None
      BY <3>1 DEF Page
    <3>3. p.id # 0
      BY <1>2, RowsTyped DEF PageInv
    <3>4. QED
      BY <1>2, <2>2, <3>2, <3>3 DEF PageInv, SamePage, Archived, NoPage
  <2>3. QED
    BY <2>1, <2>2
<1>3. QED
  BY <1>1, <1>2

LEMMA SameIsSame ==
  \A p, q : /\ SamePage(p, p)
            /\ SamePage(p, q) => SamePage(q, p)
  BY DEF SamePage

LEMMA HolderStep ==
  ASSUME TypeOK, TypeOK', HolderInv, OwnersInv, [Next]_vars
  PROVE  HolderInv'
<1>0. OnTime /\ now \in Int /\ now' \in Int
  BY RowsOfOthers, RowsTyped DEF TypeOK
<1>e. \A b \in Apps : Holder(b) /\ pending[b] \in Page /\ spool[b] \in Page
  BY DEF HolderInv, TypeOK
<1>1. CASE UNCHANGED vars
  BY <1>0, <1>1, HolderStays, RowsOfOthers DEF vars, HolderInv
<1>2. CASE Tick \/ StepBack
  BY <1>0, <1>2, HolderStays, RowsOfOthers
     DEF Tick, StepBack, archive, collector, disk, HolderInv
<1>3. ASSUME NEW a \in Apps, GiveUp(a)
      PROVE  HolderInv'
  BY <1>0, <1>3, HolderStays, RowsOfOthers DEF GiveUp, collector, disk, HolderInv
<1>4. ASSUME NEW a \in Apps, NextPage(a) \/ OpenCycle(a)
      PROVE  HolderInv'
  <2>1. /\ pending[a] = NoPage /\ spool[a] = NoPage /\ pending' = pending /\ spool' = spool
        /\ pc' = [pc EXCEPT ![a] = "asking"]
        /\ claim' = [claim EXCEPT ![a] = Len(attempts) + 1] /\ now' = now
    BY <1>4 DEF NextPage, OpenCycle, FreeToClaim, NewAttempt, disk
  <2>2. \A b \in Apps \ {a} : Holder(b)'
    BY <1>0, <1>4, <2>1, OthersHold, RowsOfOthers DEF TypeOK
  <2>3. /\ Len(attempts) + 1 \in DOMAIN attempts'
        /\ attempts'[Len(attempts) + 1].status = "RESERVED"
        /\ attempts'[Len(attempts) + 1].asked = now
    <3>1. CASE NextPage(a)
      <4>1. \E c : /\ DOMAIN attempts' = DOMAIN attempts \cup {Len(attempts) + 1}
                  /\ attempts'[Len(attempts) + 1]
                       = NewRec(c, cycles[c].pages + 1, cycles[c].next)
        BY <3>1, NextPageDoes
      <4>2. QED
        BY <4>1 DEF NewRec
    <3>2. CASE OpenCycle(a)
      BY <3>2, OpenCycleDoes DEF NewRec
    <3>3. QED
      BY <1>4, <3>1, <3>2
  <2>4. pc'[a] = "asking" /\ claim'[a] = Len(attempts) + 1
    BY <2>1 DEF TypeOK
  <2>5. Holder(a)'
    BY <1>0, <2>1, <2>3, <2>4 DEF Holder, PageInv
  <2>6. QED
    BY <2>2, <2>5 DEF HolderInv
<1>5. ASSUME NEW a \in Apps, Receive(a)
      PROVE  HolderInv'
  <2>1. /\ spool' = spool /\ claim' = [claim EXCEPT ![a] = 0] /\ pc[a] = "asking"
        /\ UNCHANGED <<cycles, attempts, now, setbacks>>
    BY <1>5 DEF Receive, disk, archive
  <2>2. /\ pending'[a] # NoPage /\ pending'[a].id = claim[a] /\ pending'[a].at = now
        /\ pending'[a].next # None => pending'[a].next > attempts[claim[a]].start
        /\ pending'[a].kind = "lost" => pending'[a].targets = {}
        /\ pc'[a] \in {"read", "received"}
        /\ \A b \in Apps \ {a} : pending'[b] = pending[b] /\ pc'[b] = pc[b]
    BY <1>5, ReceiveDoes
  <2>3. \A b \in Apps \ {a} : Holder(b)'
    BY <1>0, <2>1, <2>2, OthersHold, RowsOfOthers DEF TypeOK
  <2>4. /\ claim[a] \in DOMAIN attempts /\ spool[a] = NoPage
        /\ attempts[claim[a]].status \in {"RESERVED", "UNKNOWN"}
        /\ setbacks = 0 => attempts[claim[a]].asked <= now
    BY <1>e, <2>1 DEF Holder
  <2>5. PageInv(pending[a])'
    BY <1>0, <2>1, <2>2, <2>4 DEF PageInv
  <2>6. claim'[a] = 0 /\ spool'[a] = NoPage
    BY <2>1, <2>4 DEF TypeOK
  <2>7. Holder(a)'
    BY <2>2, <2>5, <2>6 DEF Holder, PageInv
  <2>8. QED
    BY <2>3, <2>7 DEF HolderInv
\* Steps that leave the archive alone and move pages of an App within it.
<1>6. ASSUME NEW a \in Apps,
             Keep(a) \/ Resume(a) \/ Save(a) \/ Acknowledge(a) \/ Fail(a) \/ Crash(a) \/ Start(a)
      PROVE  HolderInv'
  <2>1. UNCHANGED <<cycles, attempts, blocked, now, setbacks>>
    BY <1>6 DEF Keep, Resume, Save, Acknowledge, Fail, Crash, Start, archive
  <2>2. ASSUME NEW b \in Apps, b # a
        PROVE  /\ pc'[b] = pc[b] /\ claim'[b] = claim[b]
               /\ pending'[b] = pending[b] /\ spool'[b] = spool[b]
    BY <1>6, <2>2 DEF Keep, Resume, Save, Acknowledge, Fail, Crash, Start, disk, TypeOK
  <2>3. \A b \in Apps \ {a} : Holder(b)'
    BY <1>0, <2>1, <2>2, OthersHold, RowsOfOthers
  <2>4. \A p : (PageInv(p)' <=> PageInv(p)) /\ (Archived(p)' <=> Archived(p))
    BY <2>1 DEF PageInv, Archived
  <2> DEFINE p == pending[a]
             q == spool[a]
  <2>5. /\ PageInv(p) /\ PageInv(q) /\ p \in Page /\ q \in Page
        /\ p # NoPage /\ q # NoPage => SamePage(p, q)
        /\ claim[a] # 0 => pc[a] = "asking"
        /\ pc[a] \in {"received", "read", "saved", "committed"} => p # NoPage
        /\ pc[a] = "received" => q = NoPage
    BY <1>e DEF Holder
  <2>6. /\ PageInv(NoPage)
        /\ p # NoPage => /\ PageInv(Unpaged(p)) /\ SamePage(p, Unpaged(p)) /\ Unpaged(p) # NoPage
    BY <2>5, PagesHeld
  <2>7. /\ PageInv(pending'[a]) /\ PageInv(spool'[a])
        /\ pending'[a] # NoPage /\ spool'[a] # NoPage => SamePage(pending'[a], spool'[a])
        /\ claim'[a] = 0 /\ pc'[a] \in {"idle", "read", "saved", "down"}
        /\ pc'[a] \in {"read", "saved"} => pending'[a] # NoPage
        /\ pc'[a] = "saved" => spool'[a] = pending'[a]
    <3>1. CASE Keep(a)
      BY <2>5, <2>6, <3>1 DEF Keep, TypeOK
    <3>2. CASE Resume(a)
      BY <2>5, <2>6, <3>2, SameIsSame DEF Resume, TypeOK, disk
    <3>3. CASE Save(a)
      BY <2>5, <2>6, <3>3, SameIsSame DEF Save, TypeOK
    <3>4. CASE Acknowledge(a)
      BY <2>5, <2>6, <3>4 DEF Acknowledge, TypeOK
    <3>5. CASE Fail(a)
      BY <2>5, <2>6, <3>5 DEF Fail, TypeOK
    <3>6. CASE Crash(a)
      BY <2>5, <2>6, <3>6 DEF Crash, TypeOK
    <3>7. CASE Start(a)
      BY <2>5, <2>6, <3>7 DEF Start, TypeOK, disk
    <3>8. QED
      BY <1>6, <3>1, <3>2, <3>3, <3>4, <3>5, <3>6, <3>7
  <2>8. Holder(a)'
    <3>1. PageInv(pending[a])' /\ PageInv(spool[a])'
      BY <2>1, <2>7 DEF PageInv, Archived
    <3>2. QED
      BY <2>7, <3>1 DEF Holder, SamePage, PageInv, Archived
  <2>9. QED
    BY <2>3, <2>8 DEF HolderInv
<1>7. ASSUME NEW a \in Apps, Deliver(a)
      PROVE  HolderInv'
  <2> DEFINE p  == pending[a]
             id == p.id
  <2>1. /\ UNCHANGED <<pending, spool, claim, now, setbacks>>
        /\ pc' = [pc EXCEPT ![a] = "committed"] /\ pc[a] = "saved"
    BY <1>7 DEF Deliver, disk
  <2>2. \A b \in Apps \ {a} : Holder(b)'
    BY <1>0, <1>7, <2>1, OthersHold, RowsOfOthers DEF TypeOK
  <2>3. /\ PageInv(p) /\ p \in Page /\ p # NoPage /\ spool[a] = p /\ claim[a] = 0
        /\ id \in DOMAIN attempts
    BY <1>e, <2>1 DEF Holder, PageInv
  <2>4. /\ id \in DOMAIN attempts' /\ attempts'[id].start = attempts[id].start
        /\ attempts'[id].asked = attempts[id].asked /\ attempts'[id].status # "RESERVED"
        /\ p.kind # "lost" => attempts'[id].got = p.at /\ attempts'[id].targets = p.targets
    <3>1. CASE attempts[id].status \notin {"RESERVED", "UNKNOWN"}
      <4>1. attempts' = attempts
        BY <1>7, <3>1, DeliverDoes DEF archive
      <4>2. attempts[id].status \in {"RECEIVED", "LATE_RESPONSE"}
        BY <2>3, <3>1, ArchiveTyped DEF AttemptRec
      <4>3. QED
        BY <2>3, <4>1, <4>2 DEF PageInv, Archived
    <3>2. CASE attempts[id].status \in {"RESERVED", "UNKNOWN"}
      <4>1. DOMAIN attempts' = DOMAIN attempts /\ attempts'[id] = Finished(p)
        BY <1>7, <3>2, DeliverDoes
      <4>2. attempts[id] \in AttemptRec(DOMAIN cycles)
        BY <2>3, ArchiveTyped
      <4>3. QED
        BY <2>3, <4>1, <4>2, FinishedIs
    <3>3. QED
      BY <3>1, <3>2
  <2>5. Archived(pending[a])' /\ PageInv(pending[a])'
    BY <2>1, <2>3, <2>4 DEF PageInv, Archived
  <2>6. pc'[a] = "committed"
    BY <2>1 DEF TypeOK
  <2>7. Holder(a)'
    BY <2>1, <2>3, <2>5, <2>6 DEF Holder, SamePage, PageInv, Archived
  <2>8. QED
    BY <2>2, <2>7 DEF HolderInv
<1>8. QED
  BY <1>1, <1>2, <1>3, <1>4, <1>5, <1>6, <1>7 DEF Next, Step

\* The ids an App holds are those it held, but for the one it reserves.
LEMMA OwnersStep ==
  ASSUME TypeOK, TypeOK', HolderInv, OwnersInv, [Next]_vars
  PROVE  OwnersInv'
<1> DEFINE n == Len(attempts) + 1
<1>1. \A b \in Apps : n \notin Ids(b) /\ 0 # n
  <2>1. ASSUME NEW b \in Apps PROVE Ids(b) \subseteq 0 .. Len(attempts)
    <3>1. PageInv(pending[b]) /\ PageInv(spool[b])
      BY DEF HolderInv, Holder
    <3>2. claim[b] \in 0 .. Len(attempts)
      BY DEF TypeOK
    <3>3. pending[b].id \in 0 .. Len(attempts) /\ spool[b].id \in 0 .. Len(attempts)
      BY <3>1, RowsTyped DEF PageInv, NoPage
    <3>4. QED
      BY <3>2, <3>3 DEF Ids
  <2>2. QED
    BY <2>1, RowsTyped
<1> HIDE DEF n
<1>2. ASSUME NEW a \in Apps, Step(a) \/ Fail(a) \/ Crash(a) \/ Start(a)
      PROVE  /\ \A b \in Apps \ {a} : Ids(b)' = Ids(b)
             /\ Ids(a)' \subseteq Ids(a) \cup {0} \/ Ids(a)' \subseteq {0, n}
  <2>1. CASE NextPage(a) \/ OpenCycle(a)
    <3>1. /\ pending[a] = NoPage /\ spool[a] = NoPage /\ pending' = pending /\ spool' = spool
          /\ claim' = [claim EXCEPT ![a] = n]
      BY <2>1 DEF NextPage, OpenCycle, FreeToClaim, NewAttempt, disk, n
    <3>2. QED
      BY <3>1 DEF TypeOK, Ids, NoPage
  <2>2. CASE Receive(a)
    <3>1. /\ spool' = spool /\ claim' = [claim EXCEPT ![a] = 0]
          /\ pending'[a].id = claim[a] /\ \A b \in Apps \ {a} : pending'[b] = pending[b]
      BY <2>2, ReceiveDoes DEF Receive, disk
    <3>2. QED
      BY <3>1 DEF TypeOK, Ids
  <2>3. CASE ~(NextPage(a) \/ OpenCycle(a) \/ Receive(a))
    <3>1. \A b \in Apps \ {a} :
            claim'[b] = claim[b] /\ pending'[b] = pending[b] /\ spool'[b] = spool[b]
      BY <1>2, <2>3 DEF Step, GiveUp, Keep, Resume, Save, Deliver, Acknowledge, Fail, Crash, Start,
                        TypeOK, collector, disk
    <3>2. Unpaged(pending[a]).id = pending[a].id
      BY DEF Unpaged, TypeOK, Page
    <3>3. /\ claim'[a] \in {claim[a], 0}
          /\ pending'[a] \in {pending[a], spool[a], NoPage, Unpaged(pending[a])}
          /\ spool'[a] \in {pending[a], spool[a], NoPage, Unpaged(pending[a])}
      BY <1>2, <2>3 DEF Step, GiveUp, Keep, Resume, Save, Deliver, Acknowledge, Fail, Crash, Start,
                        TypeOK, collector, disk
    <3>4. NoPage.id = 0
      BY DEF NoPage
    <3>5. QED
      BY <3>1, <3>2, <3>3, <3>4 DEF Ids
  <2>4. QED
    BY <2>1, <2>2, <2>3
<1>3. CASE UNCHANGED vars \/ Tick \/ StepBack
  BY <1>3 DEF vars, Tick, StepBack, collector, disk, OwnersInv, Ids
<1>4. ASSUME NEW a \in Apps, Step(a) \/ Fail(a) \/ Crash(a) \/ Start(a)
      PROVE  OwnersInv'
  BY <1>1, <1>2, <1>4 DEF OwnersInv
<1>5. QED
  BY <1>3, <1>4 DEF Next

-----------------------------------------------------------------------------
(* Requests.                                                               *)

Asked(t) == {i \in DOMAIN attempts : attempts[i].asked > t - Day}
In(t)    == {i \in DOMAIN attempts : attempts[i].asked \in t - Day + 1 .. t}

LEMMA Finite ==
  ASSUME TypeOK
  PROVE  \A S \in SUBSET DOMAIN attempts :
           /\ IsFiniteSet(S) /\ Cardinality(S) \in Nat
           /\ \A T \in SUBSET S : Cardinality(T) <= Cardinality(S)
           /\ Len(attempts) + 1 \notin S
           /\ IsFiniteSet(S \cup {Len(attempts) + 1})
           /\ Cardinality(S \cup {Len(attempts) + 1}) = Cardinality(S) + 1
<1>1. Len(attempts) \in Nat /\ DOMAIN attempts = 1 .. Len(attempts)
  BY RowsTyped
<1>2. IsFiniteSet(DOMAIN attempts)
  BY <1>1, FS_Interval
<1>3. SUFFICES ASSUME NEW S \in SUBSET DOMAIN attempts
               PROVE  /\ IsFiniteSet(S) /\ Cardinality(S) \in Nat
                      /\ \A T \in SUBSET S : Cardinality(T) <= Cardinality(S)
                      /\ Len(attempts) + 1 \notin S
                      /\ IsFiniteSet(S \cup {Len(attempts) + 1})
                      /\ Cardinality(S \cup {Len(attempts) + 1}) = Cardinality(S) + 1
  OBVIOUS
<1>4. IsFiniteSet(S) /\ Len(attempts) + 1 \notin S
  BY <1>1, <1>2, FS_Subset
<1>5. QED
  BY <1>4, FS_Subset, FS_CardinalityType, FS_AddElement

LEMMA OneMore ==
  ASSUME TypeOK, NEW S \in SUBSET DOMAIN attempts,
         NEW T \in SUBSET (S \cup {Len(attempts) + 1})
  PROVE  Cardinality(T) \in Nat /\ Cardinality(T) <= Cardinality(S) + 1
<1>1. /\ IsFiniteSet(S \cup {Len(attempts) + 1})
      /\ Cardinality(S \cup {Len(attempts) + 1}) = Cardinality(S) + 1
  BY Finite
<1>2. QED
  BY <1>1, FS_Subset, FS_CardinalityType

\* A page that is requested is one more attempt, asked for now, and fits.
LEMMA RequestFits ==
  ASSUME TypeOK, RequestBudget, Remaining >= 1,
         DOMAIN attempts' = DOMAIN attempts \cup {Len(attempts) + 1},
         \A i \in DOMAIN attempts : attempts'[i] = attempts[i],
         attempts'[Len(attempts) + 1].asked = now
  PROVE  RequestBudget'
<1> DEFINE n == Len(attempts) + 1
<1>1. ASSUME NEW t \in 0 .. Last
      PROVE  Cardinality(In(t)') <= Cap
  <2>1. now \in Nat /\ t \in Int /\ Day \in Nat /\ Cap \in Nat /\ Cardinality(In(t)) <= Cap
    BY <1>1, RowsTyped, WeatherAssumption DEF RequestBudget, In
  <2>2. In(t) \in SUBSET DOMAIN attempts
    BY DEF In
  <2>3. CASE now \notin t - Day + 1 .. t
    <3>1. In(t)' = In(t)
      BY <2>3, RowsTyped DEF In
    <3>2. QED
      BY <2>1, <3>1
  <2>4. CASE now \in t - Day + 1 .. t
    <3>1. In(t)' = In(t) \cup {n}
      BY <2>4, RowsTyped DEF In
    <3>2. In(t) \in SUBSET Asked(now) /\ Asked(now) \in SUBSET DOMAIN attempts
      BY <2>1, <2>4, RowsTyped DEF In, Asked
    <3>3. Cardinality(In(t)) <= Cardinality(Asked(now)) /\ Cardinality(Asked(now)) \in Nat
          /\ Cardinality(In(t)) \in Nat
      BY <2>2, <3>2, Finite
    <3>4. Cardinality(Asked(now)) <= Cap - 1
      BY <2>1, <3>3 DEF Remaining, Used, Asked
    <3>5. Cardinality(In(t)') = Cardinality(In(t)) + 1
      BY <2>2, <3>1, Finite
    <3>6. QED
      BY <2>1, <3>3, <3>4, <3>5
  <2>5. QED
    BY <2>3, <2>4
<1>2. QED
  BY <1>1 DEF RequestBudget, In

\* The steps that ask for nothing.
LEMMA AskNothing ==
  ASSUME TypeOK, HolderInv, ArchiveInv, [Next]_vars,
         \A a \in Apps : ~NextPage(a) /\ ~OpenCycle(a)
  PROVE  /\ DOMAIN attempts' = DOMAIN attempts
         /\ \A i \in DOMAIN attempts : attempts'[i].asked = attempts[i].asked
                                         /\ attempts'[i].cycle = attempts[i].cycle
         /\ Collecting' \subseteq Collecting
         /\ \A c \in Collecting : cycles'[c].made = cycles[c].made
<1>1. CASE UNCHANGED <<cycles, attempts>>
  BY <1>1 DEF Collecting
<1>2. ASSUME NEW a \in Apps, GiveUp(a)
      PROVE  /\ DOMAIN attempts' = DOMAIN attempts
             /\ \A i \in DOMAIN attempts : attempts'[i].asked = attempts[i].asked
                                             /\ attempts'[i].cycle = attempts[i].cycle
             /\ Collecting' \subseteq Collecting
             /\ \A c \in Collecting : cycles'[c].made = cycles[c].made
  <2>1. PICK c \in Latest \cap Collecting :
          /\ DOMAIN cycles' = DOMAIN cycles
          /\ \A d \in DOMAIN cycles \ {c} : cycles'[d] = cycles[d]
          /\ cycles'[c] = [cycles[c] EXCEPT !.status = "PARTIAL", !.closed = now]
          /\ DOMAIN attempts' = DOMAIN attempts
          /\ \A i \in Reserved(c) : attempts'[i] = [attempts[i] EXCEPT !.status = "UNKNOWN"]
          /\ \A i \in DOMAIN attempts \ Reserved(c) : attempts'[i] = attempts[i]
    BY <1>2, GiveUpDoes
  <2>2. c \in Collecting /\ c \in DOMAIN cycles /\ cycles[c] \in CycleRec
    BY <2>1, ArchiveTyped DEF Collecting
  <2>3. cycles'[c].made = cycles[c].made
    <3>1. cycles'[c] = [[cycles[c] EXCEPT !.status = "PARTIAL"] EXCEPT !.closed = now]
      BY <2>1
    <3>2. QED
      BY <2>2, <3>1 DEF CycleRec
  <2>4. Collecting' \subseteq Collecting /\ \A d \in Collecting : cycles'[d].made = cycles[d].made
    BY <2>1, <2>2, <2>3 DEF Collecting
  <2>5. ASSUME NEW i \in DOMAIN attempts
        PROVE  attempts'[i].asked = attempts[i].asked /\ attempts'[i].cycle = attempts[i].cycle
    <3>1. attempts[i] \in AttemptRec(DOMAIN cycles)
      BY <2>5, ArchiveTyped
    <3>2. attempts'[i] = attempts[i] \/ attempts'[i] = [attempts[i] EXCEPT !.status = "UNKNOWN"]
      BY <2>1, <2>5
    <3>3. QED
      BY <3>1, <3>2 DEF AttemptRec
  <2>6. QED
    BY <2>1, <2>4, <2>5
<1>3. ASSUME NEW a \in Apps, Deliver(a), ~UNCHANGED archive
      PROVE  /\ DOMAIN attempts' = DOMAIN attempts
             /\ \A i \in DOMAIN attempts : attempts'[i].asked = attempts[i].asked
                                             /\ attempts'[i].cycle = attempts[i].cycle
             /\ Collecting' \subseteq Collecting
             /\ \A c \in Collecting : cycles'[c].made = cycles[c].made
  <2> DEFINE page == pending[a]
             id == page.id
             c == attempts[id].cycle
  <2>1. /\ page \in Page /\ id \in DOMAIN attempts /\ c \in DOMAIN cycles
        /\ DOMAIN cycles' = DOMAIN cycles /\ DOMAIN attempts' = DOMAIN attempts
        /\ \A d \in DOMAIN cycles \ {c} : cycles'[d] = cycles[d]
        /\ cycles'[c] = Advanced(c, page)
        /\ \A i \in DOMAIN attempts \ {id} : attempts'[i] = attempts[i]
        /\ attempts'[id] = Finished(page)
        /\ attempts[id].status \in {"RESERVED", "UNKNOWN"}
    BY <1>3, DeliverDoes
  <2>2. attempts'[id].asked = attempts[id].asked /\ attempts'[id].cycle = c
    BY <2>1, ArchiveTyped, FinishedIs
  <2>3. cycles'[c].made = cycles[c].made /\ (c \notin Collecting => cycles'[c] = cycles[c])
    <3>1. cycles[c] \in CycleRec /\ attempts[id].number \in 1 .. MaxPages
      BY <2>1, ArchiveTyped DEF AttemptRec
    <3>2. Outcome(c, page) \in {"COLLECTING", "COMPLETE", "PARTIAL"}
      BY DEF Outcome
    <3>3. Closed(c, page, Outcome(c, page)).made = cycles[c].made
      BY <2>1, <3>1, <3>2, ClosedIs
    <3>4. c \notin Collecting => Late(page)
      BY <2>1 DEF Late, Collecting
    <3>5. QED
      BY <2>1, <3>3, <3>4, AdvancedIs
  <2> HIDE DEF c, id, page
  <2>4. Collecting' \subseteq Collecting
    BY <2>1, <2>3 DEF Collecting
  <2>5. \A d \in Collecting : cycles'[d].made = cycles[d].made
    BY <2>1, <2>3 DEF Collecting
  <2>6. \A i \in DOMAIN attempts :
          attempts'[i].asked = attempts[i].asked /\ attempts'[i].cycle = attempts[i].cycle
    BY <2>1, <2>2 DEF c
  <2>7. QED
    BY <2>1, <2>4, <2>5, <2>6
<1>4. \/ UNCHANGED <<cycles, attempts>> \/ \E a \in Apps : GiveUp(a)
      \/ \E a \in Apps : Deliver(a) /\ ~UNCHANGED archive
  BY DEF Next, Step, Receive, Keep, Resume, Save, Acknowledge, Fail, Crash, Start, Tick, StepBack,
         vars, archive
<1>5. QED
  BY <1>1, <1>2, <1>3, <1>4

LEMMA BudgetStep ==
  ASSUME TypeOK, HolderInv, ArchiveInv, RequestBudget, [Next]_vars
  PROVE  RequestBudget'
<1>1. ASSUME NEW a \in Apps, NextPage(a)
      PROVE  RequestBudget'
  <2>1. PICK c \in Latest \cap Collecting :
          /\ Remaining >= 1 /\ DOMAIN attempts' = DOMAIN attempts \cup {Len(attempts) + 1}
          /\ \A i \in DOMAIN attempts : attempts'[i] = attempts[i]
          /\ attempts'[Len(attempts) + 1] = NewRec(c, cycles[c].pages + 1, cycles[c].next)
    BY <1>1, NextPageDoes
  <2>2. attempts'[Len(attempts) + 1].asked = now
    BY <2>1 DEF NewRec
  <2>3. QED
    BY <2>1, <2>2, RequestFits
<1>2. ASSUME NEW a \in Apps, OpenCycle(a)
      PROVE  RequestBudget'
  <2>1. /\ DOMAIN attempts' = DOMAIN attempts \cup {Len(attempts) + 1}
        /\ \A i \in DOMAIN attempts : attempts'[i] = attempts[i]
        /\ attempts'[Len(attempts) + 1] = NewRec(Len(cycles) + 1, 1, 0)
    BY <1>2, OpenCycleDoes
  <2>2. Remaining >= 1
    <3>1. Remaining >= MaxPages
      BY <1>2 DEF OpenCycle
    <3>2. Asked(now) \in SUBSET DOMAIN attempts
      BY DEF Asked
    <3>3. Remaining \in Int
      <4>1. Cardinality(Asked(now)) \in Nat
        BY <3>2, Finite
      <4>2. Remaining = Cap - Cardinality(Asked(now))
        BY DEF Remaining, Used, Asked
      <4>3. QED
        BY <4>1, <4>2, WeatherAssumption
    <3>4. QED
      BY <3>1, <3>3, WeatherAssumption
  <2>3. attempts'[Len(attempts) + 1].asked = now
    BY <2>1 DEF NewRec
  <2>4. QED
    BY <2>1, <2>2, <2>3, RequestFits
<1>3. CASE \A a \in Apps : ~NextPage(a) /\ ~OpenCycle(a)
  <2>1. \A t \in 0 .. Last : In(t)' = In(t)
    BY <1>3, AskNothing DEF In
  <2>2. QED
    BY <2>1 DEF RequestBudget, In
<1>4. QED
  BY <1>1, <1>2, <1>3

LEMMA FundedStep ==
  ASSUME TypeOK, HolderInv, ArchiveInv, FundedInv, [Next]_vars
  PROVE  FundedInv'
<1> DEFINE n == Len(attempts) + 1
<1>0. n \notin DOMAIN attempts
  BY RowsTyped
<1>1. ASSUME NEW a \in Apps, NextPage(a)
      PROVE  FundedInv'
  <2>1. PICK c \in Latest \cap Collecting :
          /\ cycles' = cycles
          /\ DOMAIN attempts' = DOMAIN attempts \cup {n}
          /\ \A i \in DOMAIN attempts : attempts'[i] = attempts[i]
          /\ attempts'[n] = NewRec(c, cycles[c].pages + 1, cycles[c].next)
    BY <1>1, NextPageDoes
  <2>2. Collecting' = Collecting /\ Collecting = {c}
    BY <2>1 DEF Collecting, ArchiveInv, CyclesInv
  <2>3. PagesOf(c)' = PagesOf(c) \cup {n} /\ PagesOf(c) \in SUBSET DOMAIN attempts
    BY <1>0, <2>1 DEF PagesOf, NewRec
  <2>t. PICK t \in Nat : t = cycles[c].made
    BY RowsTyped DEF Collecting
  <2>4. Asked(t) \in SUBSET DOMAIN attempts /\ Used(t) = Cardinality(Asked(t))
    BY DEF Asked, Used
  <2>5. Asked(t)' \in SUBSET (Asked(t) \cup {n}) /\ Used(t)' = Cardinality(Asked(t)')
    BY <1>0, <2>1 DEF Asked, Used
  <2>6. Cardinality(PagesOf(c)') = Cardinality(PagesOf(c)) + 1
    BY <2>3, Finite
  <2>7. Cardinality(Asked(t)') <= Cardinality(Asked(t)) + 1 /\ Cardinality(Asked(t)') \in Nat
    BY <2>4, <2>5, OneMore
  <2>8. Used(t) + MaxPages <= Cap + Cardinality(PagesOf(c))
    BY <2>2, <2>t DEF FundedInv
  <2>9. Cardinality(PagesOf(c)) \in Nat /\ Cardinality(Asked(t)) \in Nat
    BY <2>3, <2>4, Finite
  <2>10. Used(t)' + MaxPages <= Cap + Cardinality(PagesOf(c)')
    BY <2>4, <2>5, <2>6, <2>7, <2>8, <2>9, WeatherAssumption
  <2>11. QED
    BY <2>1, <2>2, <2>t, <2>10 DEF FundedInv
<1>2. ASSUME NEW a \in Apps, OpenCycle(a)
      PROVE  FundedInv'
  <2>m. PICK m \in Nat : m = Len(cycles) + 1
    BY RowsTyped
  <2>1. /\ DOMAIN cycles' = DOMAIN cycles \cup {m}
        /\ \A d \in DOMAIN cycles : cycles'[d] = cycles[d]
        /\ cycles'[m] = NewCycle(a)
        /\ DOMAIN attempts' = DOMAIN attempts \cup {n}
        /\ \A i \in DOMAIN attempts : attempts'[i] = attempts[i]
        /\ attempts'[n] = NewRec(m, 1, 0)
    BY <1>2, <2>m, OpenCycleDoes
  <2>2. m \notin DOMAIN cycles
    BY <2>m, RowsTyped
  <2>3. Collecting = {}
    <3>1. \A c \in Collecting : c \in DOMAIN cycles /\ c = Len(cycles)
      BY DEF ArchiveInv, CyclesInv, Collecting
    <3>2. DOMAIN cycles # {} => Len(cycles) \in Latest
      BY LatestIsLast DEF ArchiveInv
    <3>3. QED
      BY <1>2, <3>1, <3>2 DEF OpenCycle
  <2>4. Collecting' = {m} /\ cycles'[m].made = now
    BY <2>1, <2>2, <2>3 DEF Collecting, NewCycle
  <2>5. PagesOf(m)' = {n}
    <3>1. \A i \in DOMAIN attempts : attempts[i].cycle # m
      BY <2>2, RowsTyped
    <3>2. QED
      BY <2>1, <3>1 DEF PagesOf, NewRec
  <2>6. Asked(now) \in SUBSET DOMAIN attempts /\ Used(now) = Cardinality(Asked(now))
    BY DEF Asked, Used
  <2> DEFINE U == {i \in DOMAIN attempts' : attempts'[i].asked > now - Day}
  <2>u. Used(cycles[m].made)' = Cardinality(U)
    BY <2>4 DEF Used
  <2>7. U \in SUBSET (Asked(now) \cup {n})
    BY <1>0, <2>1 DEF Asked
  <2>8. Cardinality(U) <= Cardinality(Asked(now)) + 1 /\ Cardinality(U) \in Nat
        /\ Cardinality(Asked(now)) \in Nat
    BY <2>6, <2>7, Finite, OneMore
  <2>9. Cap - Cardinality(Asked(now)) >= MaxPages
    BY <1>2, <2>6 DEF OpenCycle, Remaining
  <2>10. Cardinality(PagesOf(m)') = 1
    BY <2>5, FS_Singleton
  <2> HIDE DEF U
  <2>11. Used(cycles[m].made)' + MaxPages <= Cap + Cardinality(PagesOf(m)')
    BY <2>u, <2>8, <2>9, <2>10, WeatherAssumption
  <2>12. QED
    BY <2>4, <2>11 DEF FundedInv
<1>3. CASE \A a \in Apps : ~NextPage(a) /\ ~OpenCycle(a)
  <2>1. SUFFICES ASSUME NEW c \in Collecting'
                 PROVE  (Used(cycles[c].made) + MaxPages <= Cap + Cardinality(PagesOf(c)))'
    BY DEF FundedInv
  <2>2. c \in Collecting /\ cycles'[c].made = cycles[c].made
    BY <1>3, <2>1, AskNothing
  <2>3. PagesOf(c)' = PagesOf(c) /\ Used(cycles[c].made)' = Used(cycles[c].made)
    BY <1>3, <2>2, AskNothing DEF PagesOf, Used
  <2>4. Used(cycles[c].made) + MaxPages <= Cap + Cardinality(PagesOf(c))
    BY <2>2 DEF FundedInv
  <2>5. QED
    BY <2>3, <2>4
<1>4. QED
  BY <1>1, <1>2, <1>3

-----------------------------------------------------------------------------
(* The invariant.                                                          *)

LEMMA Initially == Init => IInv
<1> SUFFICES ASSUME Init PROVE IInv
  OBVIOUS
<1>1. cycles = <<>> /\ attempts = <<>> /\ DOMAIN cycles = {} /\ DOMAIN attempts = {}
      /\ Len(attempts) = 0
  BY DEF Init
<1>2. NoPage \in Page
  BY WeatherAssumption DEF NoPage, Page, None
<1>3. TypeOK
  <2>1. ArchiveOK
    BY <1>1 DEF ArchiveOK
  <2>2. AppsOK
    BY <1>1, <1>2, WeatherAssumption DEF AppsOK, Init, None
  <2>3. QED
    BY <2>1, <2>2, TypeIsBoth
<1>4. CyclesInv /\ RequestsInv /\ PagesInv /\ FundedInv /\ WholeInv
  BY <1>1 DEF CyclesInv, RequestsInv, PagesInv, FundedInv, WholeInv, Collecting
<1>5. HolderInv /\ OwnersInv
  BY DEF Init, HolderInv, Holder, PageInv, OwnersInv, Ids, NoPage
<1>6. RequestBudget
  <2>1. \A t \in 0 .. Last : {i \in DOMAIN attempts : attempts[i].asked \in t - Day + 1 .. t} = {}
    BY <1>1
  <2>2. Cardinality({}) = 0
    BY FS_EmptySet
  <2>3. 0 <= Cap
    BY WeatherAssumption
  <2>4. QED
    BY <2>1, <2>2, <2>3 DEF RequestBudget
<1>7. QED
  BY <1>3, <1>4, <1>5, <1>6 DEF IInv

LEMMA Stays == IInv /\ [Next]_vars => IInv'
<1> SUFFICES ASSUME IInv, [Next]_vars PROVE IInv'
  OBVIOUS
<1>1. TypeOK /\ HolderInv /\ ArchiveInv /\ FundedInv /\ OwnersInv /\ RequestBudget
  BY DEF IInv, ArchiveInv
<1>2. TypeOK'
  BY <1>1, TypeStep
<1>3. ArchiveInv'
  BY <1>1, ArchiveStep
<1>4. HolderInv'
  BY <1>1, <1>2, <1>3, HolderStep
<1>5. OwnersInv'
  BY <1>1, <1>2, OwnersStep
<1>6. FundedInv' /\ RequestBudget'
  BY <1>1, FundedStep, BudgetStep
<1>7. QED
  BY <1>2, <1>3, <1>4, <1>5, <1>6 DEF IInv, ArchiveInv

LEMMA Invariance == Spec => []IInv
  BY Initially, Stays, PTL DEF Spec

-----------------------------------------------------------------------------
(* The theorems.                                                           *)

\* Type correctness of the tables, the spools and the Apps that collect.
THEOREM TypeIsPreserved == Spec => []TypeOK
  BY Invariance, PTL DEF IInv

\* claim_page never asks for more than the cap in any 24 hours, whatever Apps and
\* clocks do: a reservation counts from the moment it is made.
THEOREM RequestsStayInBudget == Spec => []RequestBudget
  BY Invariance, PTL DEF IInv

\* claim_page opens a cycle with the requests for all of its pages, and none of
\* them is lost to anything else.
THEOREM CyclesAreFunded == Spec => []OpenCycleIsFunded
<1>1. IInv => OpenCycleIsFunded
  <2>1. SUFFICES ASSUME IInv, NEW c \in Collecting
                 PROVE  /\ cycles[c].pages < MaxPages
                        /\ cycles[c].made <= now =>
                             Remaining >= MaxPages - Cardinality(PagesOf(c))
    BY DEF OpenCycleIsFunded
  <2>2. TypeOK /\ cycles[c].pages < MaxPages /\ cycles[c].made \in Nat /\ now \in Nat
    BY <2>1, RowsTyped DEF IInv, CyclesInv, Collecting
  <2>3. ASSUME cycles[c].made <= now
        PROVE  Remaining >= MaxPages - Cardinality(PagesOf(c))
    <3>t. PICK t \in Nat : t = cycles[c].made
      BY <2>2
    <3>1. Asked(now) \in SUBSET Asked(t) /\ Asked(t) \in SUBSET DOMAIN attempts
      <4>1. \A i \in DOMAIN attempts : attempts[i].asked \in Int
        BY <2>2, RowsTyped
      <4>2. now >= t /\ now \in Int /\ t \in Int /\ Day \in Int
        BY <2>2, <2>3, <3>t, WeatherAssumption
      <4>3. \A i \in DOMAIN attempts : attempts[i].asked > now - Day => attempts[i].asked > t - Day
        BY <4>1, <4>2
      <4>4. QED
        BY <4>3 DEF Asked
    <3>2. Cardinality(Asked(now)) <= Cardinality(Asked(t)) /\ Cardinality(Asked(now)) \in Nat
          /\ Cardinality(Asked(t)) \in Nat
      BY <2>2, <3>1, Finite
    <3>3. Cardinality(Asked(t)) + MaxPages <= Cap + Cardinality(PagesOf(c))
      BY <2>1, <3>t DEF IInv, FundedInv, Used, Asked
    <3>4. Cardinality(PagesOf(c)) \in Nat
      BY <2>2, Finite DEF PagesOf
    <3>5. Remaining = Cap - Cardinality(Asked(now))
      BY DEF Remaining, Used, Asked
    <3>6. QED
      BY <3>2, <3>3, <3>4, <3>5, WeatherAssumption
  <2>4. QED
    BY <2>2, <2>3
<1>2. QED
  BY <1>1, Invariance, PTL

\* However many Apps claim pages, one cycle collects, one request is out, and the
\* pages of a cycle are asked for in order.
THEOREM ReservationsAreSerial == Spec => []OneReservation
<1>1. IInv => OneReservation
  BY DEF IInv, CyclesInv, RequestsInv, PagesInv, OneReservation
<1>2. QED
  BY <1>1, Invariance, PTL

\* What finish_page calls COMPLETE has every target of its window once.
THEOREM CompleteCyclesAreWhole == Spec => []CompleteIsWhole
<1>1. IInv => CompleteIsWhole
  <2>1. SUFFICES ASSUME IInv, NEW c \in DOMAIN cycles, cycles[c].status = "COMPLETE"
                 PROVE  /\ \A i \in PagesOf(c) : attempts[i].status = "RECEIVED"
                        /\ (UNION {attempts[i].targets : i \in PagesOf(c)}) \cap Window = Window
                        /\ \A i, j \in PagesOf(c) :
                             i # j => attempts[i].targets \cap attempts[j].targets = {}
    BY DEF CompleteIsWhole
  <2>2. \A t \in Window : \E i \in PagesOf(c) : t \in attempts[i].targets
    BY <2>1 DEF IInv, WholeInv
  <2>3. (UNION {attempts[i].targets : i \in PagesOf(c)}) \cap Window = Window
    BY <2>2
  <2>4. QED
    BY <2>1, <2>3 DEF IInv, WholeInv
<1>2. QED
  BY <1>1, Invariance, PTL

\* A read of the archive as of a time shows all targets of what it calls COMPLETE.
THEOREM CompleteReadsAreWhole == Spec => []CompleteAsOfIsWhole
<1>1. IInv => CompleteAsOfIsWhole
  <2>1. SUFFICES ASSUME IInv, setbacks = 0, NEW c \in DOMAIN cycles, NEW t \in 0 .. Last,
                        StatusAsOf(c, t) = "COMPLETE"
                 PROVE  TargetsAsOf(c, t) = Window
    BY DEF CompleteAsOfIsWhole
  <2>2. cycles[c].closed \in 0 .. t /\ cycles[c].status = "COMPLETE"
    BY <2>1 DEF StatusAsOf
  <2>3. \A i \in PagesOf(c) : attempts[i].got \in 0 .. t
    <3>1. SUFFICES ASSUME NEW i \in PagesOf(c) PROVE attempts[i].got \in 0 .. t
      OBVIOUS
    <3>2. i \in DOMAIN attempts /\ attempts[i].status = "RECEIVED" /\ attempts[i].got <= cycles[c].closed
      BY <2>1, <2>2 DEF IInv, WholeInv, PagesOf
    <3>3. attempts[i].got # None /\ attempts[i].got \in None .. Last
      BY <2>1, <3>2, ArchiveTyped DEF IInv, RequestsInv, AttemptRec
    <3>4. QED
      BY <2>1, <2>2, <3>2, <3>3 DEF None
  <2>4. \A x \in Window : \E i \in PagesOf(c) : x \in attempts[i].targets
    BY <2>1, <2>2 DEF IInv, WholeInv
  <2>5. QED
    BY <2>3, <2>4 DEF TargetsAsOf
<1>2. QED
  BY <1>1, Invariance, PTL

\* An answer leaves the spool when the archive has it.
THEOREM SpoolWaitsForArchive == Spec => SpoolIsDelivered
<1>1. IInv /\ [Next]_vars =>
        [\A a \in Apps :
          spool[a] # NoPage => spool'[a].id = spool[a].id \/ Archived(spool[a])]_vars
  <2>1. SUFFICES ASSUME IInv, Next, NEW a \in Apps, spool[a] # NoPage
                 PROVE  spool'[a].id = spool[a].id \/ Archived(spool[a])
    OBVIOUS
  <2>2. Holder(a) /\ TypeOK
    BY <2>1 DEF IInv, HolderInv
  <2>3. CASE spool'[a] = spool[a]
    BY <2>3
  <2>4. CASE Keep(a)
    BY <2>1, <2>2, <2>4 DEF Holder, Keep
  <2>5. CASE Save(a)
    <3>1. spool'[a] = pending[a] /\ pending[a] # NoPage
      BY <2>2, <2>5 DEF Holder, Save, TypeOK
    <3>2. QED
      BY <2>1, <2>2, <3>1 DEF Holder, SamePage
  <2>6. CASE Acknowledge(a)
    BY <2>2, <2>6 DEF Holder, Acknowledge
  <2>7. spool'[a] = spool[a] \/ Keep(a) \/ Save(a) \/ Acknowledge(a)
    <3>1. \/ spool' = spool \/ \E b \in Apps : Keep(b) \/ Save(b) \/ Acknowledge(b)
      BY <2>1 DEF Next, Step, GiveUp, NextPage, OpenCycle, Receive, Resume, Deliver, Fail, Crash,
                  Start, Tick, StepBack, disk
    <3>2. ASSUME NEW b \in Apps \ {a}, Keep(b) \/ Save(b) \/ Acknowledge(b)
          PROVE  spool'[a] = spool[a]
      BY <2>2, <3>2 DEF Keep, Save, Acknowledge, TypeOK
    <3>3. QED
      BY <3>1, <3>2
  <2>8. QED
    BY <2>3, <2>4, <2>5, <2>6, <2>7
<1>2. QED
  BY <1>1, Invariance, PTL DEF Spec, SpoolIsDelivered

\* Closed cycles and stored answers are never rewritten, by finish_page or by the
\* Apps that give a cycle up.
THEOREM ArchiveIsHistory == Spec => ArchiveIsFinal
<1>1. IInv /\ [Next]_vars =>
        [/\ \A c \in DOMAIN cycles : c \notin Collecting => cycles'[c] = cycles[c]
         /\ \A i \in DOMAIN attempts : attempts[i].got # None => attempts'[i] = attempts[i]]_vars
  <2> DEFINE Final ==
        /\ \A c \in DOMAIN cycles : c \notin Collecting => cycles'[c] = cycles[c]
        /\ \A i \in DOMAIN attempts : attempts[i].got # None => attempts'[i] = attempts[i]
  <2>1. SUFFICES ASSUME IInv, Next PROVE Final
    OBVIOUS
  <2>2. TypeOK /\ HolderInv /\ RequestsInv
    BY <2>1 DEF IInv
  <2>3. CASE UNCHANGED <<cycles, attempts>>
    BY <2>3
  <2>4. ASSUME NEW a \in Apps, NextPage(a) PROVE Final
    BY <2>2, <2>4, NextPageDoes
  <2>5. ASSUME NEW a \in Apps, OpenCycle(a) PROVE Final
    BY <2>2, <2>5, OpenCycleDoes
  <2>6. ASSUME NEW a \in Apps, GiveUp(a) PROVE Final
    <3>1. PICK c \in Latest \cap Collecting :
            /\ \A d \in DOMAIN cycles \ {c} : cycles'[d] = cycles[d]
            /\ \A i \in DOMAIN attempts \ Reserved(c) : attempts'[i] = attempts[i]
      BY <2>2, <2>6, GiveUpDoes
    <3>2. \A i \in Reserved(c) : i \in DOMAIN attempts /\ attempts[i].got = None
      BY <2>2 DEF RequestsInv, Reserved, PagesOf
    <3>3. QED
      BY <3>1, <3>2
  <2>7. ASSUME NEW a \in Apps, Deliver(a), ~UNCHANGED archive PROVE Final
    <3> DEFINE page == pending[a]
               id == page.id
               k == attempts[id].cycle
    <3>1. /\ page \in Page /\ id \in DOMAIN attempts /\ k \in DOMAIN cycles
          /\ attempts[id].status \in {"RESERVED", "UNKNOWN"}
          /\ \A d \in DOMAIN cycles \ {k} : cycles'[d] = cycles[d]
          /\ cycles'[k] = Advanced(k, page)
          /\ \A i \in DOMAIN attempts \ {id} : attempts'[i] = attempts[i]
      BY <2>2, <2>7, DeliverDoes
    <3>2. attempts[id].got = None
      BY <2>2, <3>1 DEF RequestsInv
    <3>3. k \notin Collecting => cycles'[k] = cycles[k]
      BY <3>1, AdvancedIs DEF Late, Collecting
    <3> HIDE DEF page, id, k
    <3>4. QED
      BY <3>1, <3>2, <3>3
  <2>8. \/ UNCHANGED <<cycles, attempts>>
        \/ \E a \in Apps : GiveUp(a) \/ NextPage(a) \/ OpenCycle(a)
        \/ \E a \in Apps : Deliver(a) /\ ~UNCHANGED archive
    BY <2>1 DEF Next, Step, Receive, Keep, Resume, Save, Acknowledge, Fail, Crash, Start, Tick,
                StepBack, archive
  <2>9. QED
    BY <2>3, <2>4, <2>5, <2>6, <2>7, <2>8
<1>2. QED
  BY <1>1, Invariance, PTL DEF Spec, ArchiveIsFinal

=============================================================================
