-------------------------- MODULE WeatherCollection --------------------------
(***************************************************************************)
(* Weather collection (weather/): a page of forecast is reserved in the    *)
(* database before it is requested, the answer is written to a spool file  *)
(* before it is delivered, and the file is removed after the delivery has  *)
(* committed.  Pages make up a cycle, of which there is one per ten-minute *)
(* slot of the account; every App that uses the account works on them.     *)
(*                                                                         *)
(* Forecast targets are numbered from the start of the cycle's window.     *)
(* Those of a page that are outside the window are left out, and a cursor  *)
(* of Width is the end of the window.                                      *)
(***************************************************************************)
EXTENDS Integers, Sequences, FiniteSets, FiniteSetsExt

CONSTANTS Apps,        \* processes that collect for the account
          Scopes,      \* configurations: place and key
          Width,       \* targets of a window (192)
          MaxPages,    \* max_pages (5)
          Cap,         \* local_attempt_cap (900)
          Day,         \* 24 hours
          Slot,        \* ten minutes
          Life,        \* a cycle may be continued for so long (5 minutes)
          Lease,       \* a request may be in flight for so long (120 s)
          Cooldown,    \* block after a 401 or 403 (an hour)
          Kinds,       \* the answers there are
          Last,        \* bound: the clock stops here
          MaxFaults    \* bound: exceptions, crashes, clocks set back

ASSUME WeatherAssumption ==
  /\ {Width, MaxPages, Cap, Day, Slot, Cooldown} \subseteq Nat \ {0}
  /\ {Life, Lease, Last, MaxFaults} \subseteq Nat
  /\ MaxPages <= Cap
  /\ Kinds \subseteq {"paged", "unpaged", "unusable", "rejected", "limited", "lost"}

None    == -1
Window  == 0 .. Width - 1
Starts  == 0 .. Width

VARIABLES now,       \* the clock of all Apps
          setbacks,  \* how often it stepped back
          faults,    \* exceptions and crashes so far
          cycles,    \* weather_collection_cycles, in order of insertion
          attempts,  \* weather_page_attempts, with the targets they link
          blocked,   \* blocked_until
          pc,        \* where an App is in WeatherCollector.step
          scope,     \* its configuration
          claim,     \* the attempt it has reserved, 0: none
          pending,   \* _pending
          spool,     \* the .json file of its spool
          torn       \* its spool has a .tmp file

archive   == <<cycles, attempts, blocked>>
collector == <<pc, claim, pending>>
disk      == <<spool, torn>>
vars      == <<now, setbacks, faults, cycles, attempts, blocked, pc, scope, claim,
               pending, spool, torn>>

-----------------------------------------------------------------------------
(* Pages.  The kind says what finish_page will find: targets and a cursor   *)
(* ("paged"), targets without a navigation that was parsed and persisted    *)
(* ("unpaged"), a receipt without targets ("unusable"), 401 or 403          *)
(* ("rejected"), 429 ("limited"), or no answer ("lost").                    *)

Page == [id : Nat, at : 0 .. Last, targets : SUBSET Window, next : None .. Width,
         kind : Kinds \cup {"unpaged", "lost"}]

NoPage == [id |-> 0, at |-> 0, targets |-> {}, next |-> None, kind |-> "lost"]

(* The cursors page_metadata accepts after the last target of a page. *)
NextStarts(S) ==
  IF S = {} \/ Width - 1 \in S THEN {None} ELSE {None} \cup Max(S) + 1 .. Width

(* What an answer to a request from start on can be. *)
Answers(start) ==
  {answer \in [targets : SUBSET Window, next : None .. Width, kind : Kinds] :
     CASE answer.kind = "paged" ->
            /\ answer.targets \subseteq start .. Width - 1
            /\ answer.targets = {} => start = Width
            /\ answer.next \in NextStarts(answer.targets)
       [] answer.kind = "unpaged" -> answer.targets = Window /\ answer.next = None
       [] OTHER -> answer.targets = {} /\ answer.next = None}

(* The page before its navigation is parsed: PAGINATION_NOT_PERSISTED. *)
Unpaged(page) ==
  IF page.kind = "paged" THEN [page EXCEPT !.kind = "unpaged", !.next = None]
  ELSE page

-----------------------------------------------------------------------------
(* claim_page *)

PagesOf(c)   == {i \in DOMAIN attempts : attempts[i].cycle = c}
Reserved(c)  == {i \in PagesOf(c) : attempts[i].status = "RESERVED"}
Collecting   == {c \in DOMAIN cycles : cycles[c].status = "COLLECTING"}
SlotOf(t)    == t \div Slot

(* The cycle with the newest created_at, as a set: there may be none. *)
Latest ==
  {c \in DOMAIN cycles : \A d \in DOMAIN cycles : cycles[d].made <= cycles[c].made}

\* Mutant: a request without an answer is not counted.
UsedAnswered(t) ==
  Cardinality({i \in DOMAIN attempts :
                 attempts[i].asked > t - Day /\ attempts[i].status # "UNKNOWN"})

Used(t)   == Cardinality({i \in DOMAIN attempts : attempts[i].asked > t - Day})
Remaining == Cap - Used(now)

ClockIsFine ==
  /\ \A c \in DOMAIN cycles : cycles[c].made <= now
  /\ \A i \in DOMAIN attempts : attempts[i].asked <= now

(* prepare and load: nothing is left to deliver, and no torn file. *)
FreeToClaim(a) ==
  /\ pc[a] = "idle"
  /\ pending[a] = NoPage /\ spool[a] = NoPage /\ ~torn[a]
  /\ blocked <= now
  /\ \A c \in Latest : cycles[c].made <= now

InFlight(c) == \E i \in Reserved(c) : now - attempts[i].asked <= Lease
Stale(a, c) == now - cycles[c].made > Life \/ cycles[c].scope # scope[a]

NewAttempt(a, c, number, start) ==
  /\ attempts' = Append(attempts,
       [cycle |-> c, number |-> number, start |-> start, asked |-> now,
        status |-> "RESERVED", got |-> None, targets |-> {}])
  /\ pc' = [pc EXCEPT ![a] = "asking"]
  /\ claim' = [claim EXCEPT ![a] = Len(attempts) + 1]

(* The collecting cycle is given up: its request was interrupted, or it     *)
(* cannot be continued.                                                     *)
GiveUp(a) ==
  /\ FreeToClaim(a)
  /\ \E c \in Latest \cap Collecting :
       /\ ~InFlight(c)
       /\ \/ Reserved(c) # {}
          \/ Stale(a, c)
          \/ ClockIsFine /\ (Remaining < 1 \/ cycles[c].pages >= MaxPages)
       /\ cycles' = [cycles EXCEPT ![c].status = "PARTIAL", ![c].closed = now]
       /\ attempts' = [i \in DOMAIN attempts |->
            IF i \in Reserved(c) THEN [attempts[i] EXCEPT !.status = "UNKNOWN"]
            ELSE attempts[i]]
  /\ UNCHANGED <<now, setbacks, faults, blocked, collector, scope, disk>>

\* Mutant: a request in flight is not looked for.
NextPageAnyway(a) ==
  /\ FreeToClaim(a) /\ ClockIsFine
  /\ \E c \in Latest \cap Collecting :
       /\ ~Stale(a, c)
       /\ Remaining >= 1 /\ cycles[c].pages < MaxPages
       /\ NewAttempt(a, c, cycles[c].pages + 1, cycles[c].next)
  /\ UNCHANGED <<now, setbacks, faults, cycles, blocked, scope, pending, disk>>

NextPage(a) ==
  /\ FreeToClaim(a) /\ ClockIsFine
  /\ \E c \in Latest \cap Collecting :
       /\ Reserved(c) = {}
       /\ ~Stale(a, c)
       /\ Remaining >= 1
       /\ cycles[c].pages < MaxPages
       /\ NewAttempt(a, c, cycles[c].pages + 1, cycles[c].next)
  /\ UNCHANGED <<now, setbacks, faults, cycles, blocked, scope, pending, disk>>

\* Mutant: a cycle is opened while one request is left.
OpenCycleForOne(a) ==
  /\ FreeToClaim(a) /\ ClockIsFine
  /\ Latest \cap Collecting = {}
  /\ Remaining >= 1
  /\ \A c \in Latest : SlotOf(cycles[c].made) < SlotOf(now)
  /\ cycles' = Append(cycles,
       [scope |-> scope[a], made |-> now, closed |-> None, next |-> 0, pages |-> 0,
        status |-> "COLLECTING"])
  /\ NewAttempt(a, Len(cycles) + 1, 1, 0)
  /\ UNCHANGED <<now, setbacks, faults, blocked, scope, pending, disk>>

OpenCycle(a) ==
  /\ FreeToClaim(a) /\ ClockIsFine
  /\ Latest \cap Collecting = {}
  /\ Remaining >= MaxPages
  /\ \A c \in Latest : SlotOf(cycles[c].made) < SlotOf(now)
  /\ cycles' = Append(cycles,
       [scope |-> scope[a], made |-> now, closed |-> None, next |-> 0, pages |-> 0,
        status |-> "COLLECTING"])
  /\ NewAttempt(a, Len(cycles) + 1, 1, 0)
  /\ UNCHANGED <<now, setbacks, faults, blocked, scope, pending, disk>>

-----------------------------------------------------------------------------
(* _fetch and the rest of step *)

(* The request is answered, or its outcome is unknown. *)
Receive(a) ==
  /\ pc[a] = "asking"
  /\ \E answer \in Answers(attempts[claim[a]].start) :
       /\ pending' = [pending EXCEPT ![a] =
            [id |-> claim[a], at |-> now, targets |-> answer.targets,
             next |-> answer.next, kind |-> answer.kind]]
       /\ pc' = [pc EXCEPT ![a] = IF answer.kind = "lost" THEN "read" ELSE "received"]
  /\ claim' = [claim EXCEPT ![a] = 0]
  /\ UNCHANGED <<now, setbacks, faults, archive, scope, disk>>

(* The first save: the answer as it came, before its navigation is parsed. *)
Keep(a) ==
  /\ pc[a] = "received"
  /\ spool' = [spool EXCEPT ![a] = Unpaged(pending[a])]
  /\ torn' = [torn EXCEPT ![a] = FALSE]
  /\ pc' = [pc EXCEPT ![a] = "read"]
  /\ UNCHANGED <<now, setbacks, faults, archive, scope, claim, pending>>

(* A page that was not acknowledged is delivered before anything is claimed. *)
Resume(a) ==
  /\ pc[a] = "idle"
  /\ pending[a] # NoPage \/ spool[a] # NoPage
  /\ pending' = [pending EXCEPT ![a] = IF @ # NoPage THEN @ ELSE spool[a]]
  /\ pc' = [pc EXCEPT ![a] = "read"]
  /\ UNCHANGED <<now, setbacks, faults, archive, scope, claim, disk>>

Save(a) ==
  /\ pc[a] = "read"
  /\ spool' = [spool EXCEPT ![a] = pending[a]]
  /\ torn' = [torn EXCEPT ![a] = FALSE]
  /\ pc' = [pc EXCEPT ![a] = "saved"]
  /\ UNCHANGED <<now, setbacks, faults, archive, scope, claim, pending>>

Late(page) ==
  \/ cycles[attempts[page.id].cycle].status # "COLLECTING"
  \/ attempts[page.id].status # "RESERVED"

\* Mutant: received_at is the time of the delivery.
FinishedNow(page) ==
  [attempts[page.id] EXCEPT
     !.status = IF Late(page) THEN "LATE_RESPONSE"
                ELSE IF page.kind = "lost" THEN "UNKNOWN" ELSE "RECEIVED",
     !.got = IF page.kind = "lost" THEN None ELSE now,
     !.targets = page.targets]

Finished(page) ==
  [attempts[page.id] EXCEPT
     !.status = IF Late(page) THEN "LATE_RESPONSE"
                ELSE IF page.kind = "lost" THEN "UNKNOWN" ELSE "RECEIVED",
     !.got = IF page.kind = "lost" THEN None ELSE page.at,
     !.targets = page.targets]

(* Coverage of the window by the pages of a cycle, the present one included. *)
TargetsOf(c, page) ==
  (UNION {attempts[i].targets : i \in PagesOf(c)}) \cup page.targets
Overlap(c, page) ==
  \E i \in PagesOf(c) \ {page.id} :
    \E t \in attempts[i].targets \cap Window :
      \/ t \in page.targets
      \/ \E j \in PagesOf(c) \ {i, page.id} : t \in attempts[j].targets
\* Mutant: a cycle is complete when its last target has come.
CoveredToEnd(c, page) == Width - 1 \in page.targets /\ ~Overlap(c, page)
Covered(c, page) ==
  TargetsOf(c, page) \cap Window = Window /\ ~Overlap(c, page)

Closed(c, page, status) ==
  [cycles[c] EXCEPT !.status = status,
                    !.pages = attempts[page.id].number,
                    !.next = IF page.next = None THEN @ ELSE page.next,
                    !.closed = IF status = "COLLECTING" THEN None ELSE page.at]

\* Mutant: an answer that came too late goes on with its cycle.
AdvancedLate(c, page) ==
  IF page.kind # "paged" THEN Closed(c, page, "PARTIAL")
  ELSE IF Covered(c, page) THEN Closed(c, page, "COMPLETE")
  ELSE IF Overlap(c, page) \/ page.next = None \/ attempts[page.id].number >= MaxPages
    THEN Closed(c, page, "PARTIAL")
  ELSE Closed(c, page, "COLLECTING")

Advanced(c, page) ==
  IF Late(page) THEN cycles[c]
  ELSE IF page.kind # "paged" THEN Closed(c, page, "PARTIAL")
  ELSE IF Covered(c, page) THEN Closed(c, page, "COMPLETE")
  ELSE IF Overlap(c, page) \/ page.next = None \/ attempts[page.id].number >= MaxPages
    THEN Closed(c, page, "PARTIAL")
  ELSE Closed(c, page, "COLLECTING")

(* After 429 to the next day; its first five minutes are less than a tick. *)
BlockedUntil(page) ==
  Max({blocked} \cup (IF page.kind = "rejected" THEN {page.at + Cooldown} ELSE {})
                \cup (IF page.kind = "limited" THEN {(page.at \div Day + 1) * Day} ELSE {}))

(* finish_page, one transaction. *)
Deliver(a) ==
  /\ pc[a] = "saved"
  /\ LET page == pending[a]
         c    == attempts[page.id].cycle
     IN IF attempts[page.id].status \notin {"RESERVED", "UNKNOWN"}
        THEN UNCHANGED archive
        ELSE /\ attempts' = [attempts EXCEPT ![page.id] = Finished(page)]
             /\ cycles' = [cycles EXCEPT ![c] = Advanced(c, page)]
             /\ blocked' = BlockedUntil(page)
  /\ pc' = [pc EXCEPT ![a] = "committed"]
  /\ UNCHANGED <<now, setbacks, faults, scope, claim, pending, disk>>

Acknowledge(a) ==
  /\ pc[a] = "committed"
  /\ spool' = [spool EXCEPT ![a] = NoPage]
  /\ pending' = [pending EXCEPT ![a] = NoPage]
  /\ pc' = [pc EXCEPT ![a] = "idle"]
  /\ UNCHANGED <<now, setbacks, faults, archive, scope, claim, torn>>

-----------------------------------------------------------------------------
(* Exceptions, crashes, time *)

(* What a save that does not finish leaves behind. *)
TornBy(a) ==
  \E left \in BOOLEAN :
    /\ left => pc[a] \in {"received", "read"}
    /\ torn' = [torn EXCEPT ![a] = @ \/ left]

Faulty == faults + setbacks < MaxFaults /\ faults' = faults + 1

(* The except clause of step: a page that was received stays in memory. *)
Fail(a) ==
  /\ Faulty
  /\ pc[a] \notin {"idle", "down"}
  /\ TornBy(a)
  /\ pending' = [pending EXCEPT ![a] = IF pc[a] = "received" THEN Unpaged(@) ELSE @]
  /\ claim' = [claim EXCEPT ![a] = 0]
  /\ pc' = [pc EXCEPT ![a] = "idle"]
  /\ UNCHANGED <<now, setbacks, archive, scope, spool>>

Crash(a) ==
  /\ Faulty
  /\ pc[a] # "down"
  /\ TornBy(a)
  /\ pending' = [pending EXCEPT ![a] = NoPage]
  /\ claim' = [claim EXCEPT ![a] = 0]
  /\ pc' = [pc EXCEPT ![a] = "down"]
  /\ UNCHANGED <<now, setbacks, archive, scope, spool>>

\* Mutant: the spool does not survive a restart.
StartClean(a) ==
  /\ pc[a] = "down"
  /\ scope' \in {[scope EXCEPT ![a] = s] : s \in Scopes}
  /\ spool' = [spool EXCEPT ![a] = NoPage]
  /\ pc' = [pc EXCEPT ![a] = "idle"]
  /\ UNCHANGED <<now, setbacks, faults, archive, claim, pending, torn>>

(* An App starts with the options it finds. *)
Start(a) ==
  /\ pc[a] = "down"
  /\ scope' \in {[scope EXCEPT ![a] = s] : s \in Scopes}
  /\ pc' = [pc EXCEPT ![a] = "idle"]
  /\ UNCHANGED <<now, setbacks, faults, archive, claim, pending, disk>>

Tick ==
  /\ now < Last
  /\ now' = now + 1
  /\ UNCHANGED <<setbacks, faults, archive, collector, scope, disk>>

StepBack ==
  /\ now > 0 /\ faults + setbacks < MaxFaults
  /\ now' = now - 1
  /\ setbacks' = setbacks + 1
  /\ UNCHANGED <<faults, archive, collector, scope, disk>>

Init ==
  /\ now = 0 /\ setbacks = 0 /\ faults = 0
  /\ cycles = <<>> /\ attempts = <<>> /\ blocked = None
  /\ pc = [a \in Apps |-> "idle"]
  /\ scope \in [Apps -> Scopes]
  /\ claim = [a \in Apps |-> 0]
  /\ pending = [a \in Apps |-> NoPage]
  /\ spool = [a \in Apps |-> NoPage]
  /\ torn = [a \in Apps |-> FALSE]

Step(a) ==
  \/ GiveUp(a) \/ NextPage(a) \/ OpenCycle(a) \/ Receive(a) \/ Keep(a)
  \/ Resume(a) \/ Save(a) \/ Deliver(a) \/ Acknowledge(a)

Next ==
  \/ \E a \in Apps : Step(a) \/ Fail(a) \/ Crash(a) \/ Start(a)
  \/ Tick \/ StepBack

Spec == Init /\ [][Next]_vars

-----------------------------------------------------------------------------
(* What GET /api/v1/weather shows of a cycle as of t (repository.cycle). *)

StatusAsOf(c, t) ==
  IF cycles[c].closed \in 0 .. t THEN cycles[c].status ELSE "INCOMPLETE_AS_OF"

TargetsAsOf(c, t) ==
  UNION {attempts[i].targets \cap Window : i \in {j \in PagesOf(c) : attempts[j].got \in 0 .. t}}

-----------------------------------------------------------------------------
(* Properties *)

TypeOK ==
  /\ now \in 0 .. Last /\ faults \in Nat /\ setbacks \in Nat
  /\ cycles \in Seq([scope : Scopes, made : 0 .. Last, closed : None .. Last,
                     next : Starts, pages : 0 .. MaxPages,
                     status : {"COLLECTING", "COMPLETE", "PARTIAL"}])
  /\ attempts \in Seq([cycle : DOMAIN cycles, number : 1 .. MaxPages, start : Starts,
                       asked : 0 .. Last, got : None .. Last, targets : SUBSET Window,
                       status : {"RESERVED", "UNKNOWN", "RECEIVED", "LATE_RESPONSE"}])
  /\ blocked \in Int
  /\ pc \in [Apps -> {"idle", "asking", "received", "read", "saved", "committed", "down"}]
  /\ scope \in [Apps -> Scopes]
  /\ claim \in [Apps -> 0 .. Len(attempts)]
  /\ pending \in [Apps -> Page] /\ spool \in [Apps -> Page]
  /\ torn \in [Apps -> BOOLEAN]

(* However the clock steps and Apps race or die, the requests of any 24     *)
(* hours stay within the cap: all reservations count, whatever became of    *)
(* them.                                                                    *)
RequestBudget == \A t \in 0 .. Last :
  Cardinality({i \in DOMAIN attempts : attempts[i].asked \in t - Day + 1 .. t}) <= Cap

(* A cycle is opened only with requests left for all of its pages, and      *)
(* nothing else can use them up: a cycle that is collecting has a page to   *)
(* go and the requests for it, so that QUOTA_STOP and PAGE_LIMIT never end  *)
(* a cycle.                                                                 *)
OpenCycleIsFunded == \A c \in Collecting :
  /\ cycles[c].pages < MaxPages
  /\ cycles[c].made <= now => Remaining >= MaxPages - Cardinality(PagesOf(c))

(* Whichever App asks: one cycle collects at a time, the one made last; one *)
(* request is reserved at a time, for its next page; and the pages of a     *)
(* cycle are numbered in order, each starting after the one before.         *)
OneReservation ==
  /\ \A c \in Collecting : c = Len(cycles)
  /\ \A i \in DOMAIN attempts : attempts[i].status = "RESERVED" =>
       /\ attempts[i].cycle \in Collecting
       /\ attempts[i].number = cycles[attempts[i].cycle].pages + 1
  /\ \A i, j \in DOMAIN attempts :
       i < j /\ attempts[i].cycle = attempts[j].cycle =>
         /\ attempts[i].number < attempts[j].number
         /\ attempts[i].start < attempts[j].start

(* A cycle that is COMPLETE was received whole: each target of its window   *)
(* once, from answers that came in time, all for its configuration.         *)
CompleteIsWhole == \A c \in DOMAIN cycles : cycles[c].status = "COMPLETE" =>
  /\ \A i \in PagesOf(c) : attempts[i].status = "RECEIVED"
  /\ (UNION {attempts[i].targets : i \in PagesOf(c)}) \cap Window = Window
  /\ \A i, j \in PagesOf(c) : i # j => attempts[i].targets \cap attempts[j].targets = {}

(* What a read as of some time calls COMPLETE it shows whole, although the  *)
(* pages may have been delivered later than that.  A clock that stepped     *)
(* back may date the last page before an earlier one.                       *)
CompleteAsOfIsWhole ==
  setbacks = 0 => \A c \in DOMAIN cycles, t \in 0 .. Last :
    StatusAsOf(c, t) = "COMPLETE" => TargetsAsOf(c, t) = Window

(* An answer that is in the spool stays there until the archive has it,     *)
(* with its time and targets, whatever fails in between.                    *)
Archived(page) ==
  /\ attempts[page.id].status # "RESERVED"
  /\ page.kind # "lost" =>
       attempts[page.id].got = page.at /\ attempts[page.id].targets = page.targets
SpoolIsDelivered == [][\A a \in Apps :
  spool[a] # NoPage =>
    spool'[a].id = spool[a].id \/ Archived(spool[a])]_vars

(* The archive is history: a cycle that was closed keeps its outcome and an *)
(* answer that was stored its record, however late, and however often, a    *)
(* page is delivered.                                                       *)
ArchiveIsFinal == [][
  /\ \A c \in DOMAIN cycles : c \notin Collecting => cycles'[c] = cycles[c]
  /\ \A i \in DOMAIN attempts : attempts[i].got # None => attempts'[i] = attempts[i]]_vars

=============================================================================
