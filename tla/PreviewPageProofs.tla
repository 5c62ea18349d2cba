-------------------------- MODULE PreviewPageProofs -------------------------
(***************************************************************************)
(* Theorems about the server half of the preview.                          *)
(*                                                                         *)
(* The observation.  The second transport is judged against an attempt     *)
(* kept across an await; it is still the one HTTP brought (Waits), so the  *)
(* choice between the two is a matter of cases.  The currency borrowed     *)
(* from HTTP leaves the confidence of the browser's extraction alone.      *)
(*                                                                         *)
(* The cache.  The Map's order of insertion is the order of last use       *)
(* (InOrder), whatever expired or was read in between; so of one entry too *)
(* many, the first is the one unread for longest, and it alone goes.       *)
(*                                                                         *)
(* The suggestions, which the module Ranking orders: the bands of scores   *)
(* do not meet, and the budget of runs reaches both modes.                 *)
(***************************************************************************)
EXTENDS PreviewPage, Ranking, FiniteSetTheorems, WellFoundedInduction, TLAPS

(* A call under way was let through, and one that waits for the browser    *)
(* keeps what HTTP brought.                                                *)
Waits ==
    /\ request.step # "idle" => request.mode \in Modes /\ (request.mode = "browser" => renderUrl)
    /\ request.step = "second" =>
         \E reading \in Readings :
            request.attempts = <<[transport |-> "http", reading |-> reading]>>

IInv == Waits /\ StrongestShown
-----------------------------------------------------------------------------
(* The observation of one transport.                                       *)
LEMMA SingleIsStrongest ==
    ASSUME NEW transport, NEW reading \in Readings, NEW a,
           a = [transport |-> transport, reading |-> reading],
           answer' = SingleAttemptOutcome(a)
    PROVE  StrongestShown'
<1>1. a.reading = reading /\ (Extracted(a) => Retrieved(a))
  BY PreviewAssumption DEF Extracted, Retrieved
<1>2. ASSUME NEW kind, NEW e, answer' = Outcome(kind, a.transport, e, <<a>>)
      PROVE  answer'.kind = kind /\ answer'.extraction = e /\ Ran' = {a}
  BY <1>2 DEF Outcome, Ran, ToSet
<1>3. CASE Extracted(a)
  <2>1. answer' = Outcome("extracted", a.transport, a.reading, <<a>>)
    BY <1>3 DEF SingleAttemptOutcome
  <2>2. answer'.kind = "extracted" /\ answer'.extraction = reading /\ Ran' = {a}
    BY <1>1, <1>2, <2>1
  <2> QED
    BY <1>1, <2>2 DEF StrongestShown
<1>4. CASE ~Extracted(a) /\ Retrieved(a)
  <2>1. answer' = Outcome("no_extraction", a.transport, None, <<a>>)
    BY <1>4 DEF SingleAttemptOutcome
  <2>2. answer'.kind = "no_extraction" /\ Ran' = {a}
    BY <1>2, <2>1
  <2> QED
    BY <1>4, <2>2 DEF StrongestShown
<1>5. CASE ~Retrieved(a)
  <2>1. answer' = Outcome("failed", None, None, <<a>>)
    BY <1>1, <1>5 DEF SingleAttemptOutcome
  <2>2. Ran' = {a}
    BY <2>1 DEF Outcome, Ran, ToSet
  <2> QED
    BY <1>1, <1>5, <2>2 DEF StrongestShown
<1> QED
  BY <1>3, <1>4, <1>5

LEMMA BorrowedCurrency ==
    ASSUME NEW h \in Extractions, NEW b \in Extractions
    PROVE  WithHttpFallbackCurrency(h, b).confidence = b.confidence
BY PreviewAssumption DEF WithHttpFallbackCurrency, Fields

(* The choice between two.                                                 *)
LEMMA SecondIsStrongest ==
    ASSUME NEW hr \in Readings, NEW br \in Readings, NEW h, NEW b,
           h = [transport |-> "http", reading |-> hr],
           b = [transport |-> "browser", reading |-> br],
           answer' = SecondAttemptOutcome(h, b)
    PROVE  StrongestShown'
<1>1. /\ h.reading = hr /\ b.reading = br
      /\ Extracted(h) => Retrieved(h) /\ hr \in Extractions
      /\ Extracted(b) => Retrieved(b) /\ br \in Extractions
  BY PreviewAssumption DEF Extracted, Retrieved
<1>2. \A e \in Extractions : e.confidence \in {"high", "low"}
  BY PreviewAssumption
<1>3. ASSUME NEW kind, NEW t, NEW e, answer' = Outcome(kind, t, e, <<h, b>>)
      PROVE  answer'.kind = kind /\ answer'.extraction = e /\ Ran' = {h, b}
  BY <1>3 DEF Outcome, Ran, ToSet
<1>4. ASSUME NEW t, NEW e, answer' = Outcome("extracted", t, e, <<h, b>>),
             (Extracted(h) /\ hr.confidence = "high") \/ (Extracted(b) /\ br.confidence = "high")
                => e.confidence = "high"
      PROVE  StrongestShown'
  <2>1. answer'.kind = "extracted" /\ answer'.extraction = e /\ Ran' = {h, b}
    BY <1>3, <1>4
  <2> QED
    BY <1>1, <1>4, <2>1 DEF StrongestShown
<1>5. CASE Extracted(b) /\ ~Extracted(h)
  <2>1. answer' = Outcome("extracted", b.transport, br, <<h, b>>)
    BY <1>1, <1>5 DEF SecondAttemptOutcome
  <2> QED
    BY <1>4, <1>5, <2>1
<1>6. CASE Extracted(b) /\ Extracted(h) /\ BrowserShouldWin(hr, br)
  <2>1. answer' = Outcome("extracted", b.transport, WithHttpFallbackCurrency(hr, br), <<h, b>>)
    BY <1>1, <1>6 DEF SecondAttemptOutcome
  <2>2. hr.confidence = "high" => br.confidence = "high"
    BY <1>6 DEF BrowserShouldWin
  <2> QED
    BY <1>1, <1>4, <1>6, <2>1, <2>2, BorrowedCurrency
<1>7. CASE Extracted(h) /\ (Extracted(b) => ~BrowserShouldWin(hr, br))
  <2>1. answer' = Outcome("extracted", h.transport, hr, <<h, b>>)
    BY <1>1, <1>7 DEF SecondAttemptOutcome
  <2>2. Extracted(b) /\ br.confidence = "high" => hr.confidence = "high"
    BY <1>1, <1>2, <1>7 DEF BrowserShouldWin
  <2> QED
    BY <1>4, <2>1, <2>2
<1>8. CASE ~Extracted(h) /\ ~Extracted(b) /\ (Retrieved(h) \/ Retrieved(b))
  <2>1. \E t : answer' = Outcome("no_extraction", t, None, <<h, b>>)
    BY <1>8 DEF SecondAttemptOutcome
  <2>2. answer'.kind = "no_extraction" /\ Ran' = {h, b}
    BY <1>3, <2>1
  <2> QED
    BY <1>8, <2>2 DEF StrongestShown
<1>9. CASE ~Retrieved(h) /\ ~Retrieved(b)
  <2>1. answer' = Outcome("failed", None, None, <<h, b>>)
    BY <1>1, <1>9 DEF SecondAttemptOutcome
  <2> QED
    BY <1>1, <1>3, <1>9, <2>1 DEF StrongestShown
<1> QED
  BY <1>1, <1>5, <1>6, <1>7, <1>8, <1>9

-----------------------------------------------------------------------------
LEMMA OtherStep ==
    ASSUME Waits, StrongestShown,
           \/ PageRejected \/ Restart \/ Tick
           \/ \E mode \in Modes : Page(mode)
           \/ \E id \in Ids : Ask(id) \/ Forget(id)
    PROVE  Waits' /\ StrongestShown'
<1>1. ASSUME answer'.kind \notin {"failed", "no_extraction", "extracted"}
      PROVE  StrongestShown'
  BY <1>1 DEF StrongestShown, Answered
<1>2. CASE PageRejected
  BY <1>1, <1>2 DEF PageRejected, Waits
<1>3. CASE Restart
  BY <1>1, <1>3 DEF Restart, Waits, NoRequest
<1>4. CASE Tick
  BY <1>4 DEF Tick, Waits, StrongestShown, Answered, Ran
<1>5. ASSUME NEW mode \in Modes, Page(mode)
      PROVE  Waits' /\ StrongestShown'
  BY <1>1, <1>5 DEF Page, Waits
<1>6. ASSUME NEW id \in Ids, Ask(id) \/ Forget(id)
      PROVE  Waits' /\ StrongestShown'
  <2>1. answer'.kind \in {"read", "gone", "none"}
    BY <1>6 DEF Ask, Forget
  <2>2. UNCHANGED <<request, renderUrl>>
    BY <1>6 DEF Ask, Forget
  <2> QED
    BY <1>1, <2>1, <2>2 DEF Waits
<1> QED
  BY <1>2, <1>3, <1>4, <1>5, <1>6

LEMMA FirstStep ==
    ASSUME Waits, StrongestShown, NEW reading \in Readings, FirstAttempt(reading)
    PROVE  Waits' /\ StrongestShown'
<1> DEFINE transports == PreviewTransports(request.mode)
           a == [transport |-> transports[1], reading |-> reading]
<1>1. /\ request.step = "first" /\ request.mode \in Modes
      /\ request.mode = "browser" => renderUrl
  BY DEF FirstAttempt, Waits
<1>2. \/ transports = <<"http">> \/ transports = <<"browser">> \/ transports = <<"http", "browser">>
  BY <1>1 DEF PreviewTransports, Modes, Transports
<1>3. Len(transports) \in {1, 2} /\ (Len(transports) = 2 => transports[1] = "http")
  BY <1>2
<1> HIDE DEF transports
<1>4. CASE Len(transports) = 1 \/ Decisive(a)
  <2>1. Finish(SingleAttemptOutcome(a))
    BY <1>3, <1>4 DEF FirstAttempt, transports
  <2>2. request' = NoRequest /\ answer' = SingleAttemptOutcome(a)
    BY <2>1 DEF Finish
  <2> QED
    BY <2>2, SingleIsStrongest DEF Waits, NoRequest
<1>5. CASE Len(transports) = 2 /\ ~Decisive(a)
  <2>1. /\ request' = [request EXCEPT !.step = "second", !.attempts = <<a>>]
        /\ UNCHANGED <<renderUrl, answer>>
    BY <1>3, <1>5 DEF FirstAttempt, transports
  <2>2. a = [transport |-> "http", reading |-> reading]
    BY <1>3, <1>5
  <2> QED
    BY <1>1, <2>1, <2>2 DEF Waits, StrongestShown, Answered, Ran
<1> QED
  BY <1>3, <1>4, <1>5

LEMMA SecondStep ==
    ASSUME Waits, NEW reading \in Readings, SecondAttempt(reading)
    PROVE  Waits' /\ StrongestShown'
<1> DEFINE b == [transport |-> "browser", reading |-> reading]
<1>1. PICK hr \in Readings : request.attempts = <<[transport |-> "http", reading |-> hr]>>
  BY DEF SecondAttempt, Waits
<1>2. Finish(SecondAttemptOutcome([transport |-> "http", reading |-> hr], b))
  BY <1>1 DEF SecondAttempt
<1>3. request' = NoRequest
      /\ answer' = SecondAttemptOutcome([transport |-> "http", reading |-> hr], b)
  BY <1>2 DEF Finish
<1> QED
  BY <1>3, SecondIsStrongest DEF Waits, NoRequest

LEMMA WaitsStep ==
    ASSUME IInv, [Next]_vars
    PROVE  IInv'
<1>1. CASE Next
  BY <1>1, OtherStep, FirstStep, SecondStep DEF Next, IInv
<1>2. CASE UNCHANGED vars
  BY <1>2 DEF vars, server, IInv, Waits, StrongestShown, Answered, Ran
<1> QED
  BY <1>1, <1>2

(* "Chooses the stronger observation without discarding a usable HTTP      *)
(* fallback": what is shown is the strongest kind of answer any transport  *)
(* gave, and as confident as the best of them (orchestratePreview).        *)
THEOREM StrongestIsShown == Spec => []StrongestShown
<1>1. Init => IInv
  BY DEF Init, NoRequest, IInv, Waits, StrongestShown, Answered
<1>2. IInv => StrongestShown
  BY DEF IInv
<1> QED
  BY <1>1, <1>2, WaitsStep, PTL DEF Spec

-----------------------------------------------------------------------------
(* The cache.  Insertion order is order of use (InOrder), so that the      *)
(* entries the Map evicts first are the ones used longest ago.             *)

Table(map) == DOMAIN map \subseteq Ids /\ map \in [DOMAIN map -> Entry]

(* Of any two ids one was used after the other. *)
Recency(u) ==
    \A k, l \in DOMAIN u :
        /\ k \notin u[k]
        /\ k # l => (l \in u[k] <=> k \notin u[l])
        /\ l \in u[k] => u[l] \subseteq u[k]

Follows(map, u) ==
    /\ DOMAIN map \subseteq DOMAIN u
    /\ \A k \in DOMAIN map : map[k].after = u[k] \cap DOMAIN map

InOrder == Recency(used) /\ Follows(cache, used)

Request ==
    /\ request \in [step : {"idle", "first", "second"}, mode : Modes, attempts : Seq(Attempt)]
    /\ answer.kind \in {"none", "rejected", "failed", "no_extraction", "extracted", "gone", "read"}

Server ==
    /\ Table(cache)
    /\ IsFiniteSet(DOMAIN cache) /\ Cardinality(DOMAIN cache) <= MaxEntries
    /\ DOMAIN used \subseteq Ids /\ used \in [DOMAIN used -> SUBSET DOMAIN used]
    /\ InOrder

(* What EvictedInOrderOfUse says of a step. *)
LeastUsedGo ==
    \A id \in DOMAIN cache \ DOMAIN cache' :
         ~Expired(cache[id]) =>
            /\ Cardinality(DOMAIN cache') = MaxEntries
            /\ DOMAIN cache' \subseteq used'[id]

(* Deleting from the Map and inserting into it. *)
LEMMA WithoutTable ==
    ASSUME NEW map, Table(map), NEW gone
    PROVE  /\ Table(Without(map, gone))
           /\ DOMAIN Without(map, gone) = DOMAIN map \ gone
           /\ \A k \in DOMAIN map \ gone :
                /\ Without(map, gone)[k].age = map[k].age
                /\ Without(map, gone)[k].after = map[k].after \cap (DOMAIN map \ gone)
<1> DEFINE kept == DOMAIN map \ gone
<1>1. \A k \in kept : map[k] \in Entry
  BY DEF Table
<1>2. \A k \in kept :
         /\ [map[k] EXCEPT !.after = @ \cap kept] = [age |-> map[k].age, after |-> map[k].after \cap kept]
         /\ [map[k] EXCEPT !.after = @ \cap kept] \in Entry
  BY <1>1 DEF Entry
<1>3. Without(map, gone) = [k \in kept |-> [map[k] EXCEPT !.after = @ \cap kept]]
  BY DEF Without
<1> QED
  BY <1>2, <1>3 DEF Table

LEMMA InsertedEarlier ==
    ASSUME NEW map, Table(map), NEW id \in Ids, NEW age \in Ages, NEW k \in DOMAIN map \ {id}
    PROVE  Inserted(map, id, age)[k] = [age |-> map[k].age, after |-> map[k].after \cup {id}]
<1>1. map[k] \in Entry
  BY DEF Table
<1>2. Inserted(map, id, age)[k] = [map[k] EXCEPT !.after = @ \cup {id}]
  BY DEF Inserted
<1> QED
  BY <1>1, <1>2 DEF Entry

LEMMA InsertedTable ==
    ASSUME NEW map, Table(map), NEW id \in Ids, NEW age \in Ages
    PROVE  Table(Inserted(map, id, age))
<1> DEFINE m == Inserted(map, id, age)
<1>1. m = [k \in DOMAIN m |-> m[k]] /\ DOMAIN m = DOMAIN map \cup {id}
  BY DEF Inserted
<1>2. m[id] \in Entry
  <2>1. m[id] = [age |-> age, after |-> {}]
    BY DEF Inserted
  <2> QED
    BY <2>1 DEF Entry
<1>3. ASSUME NEW k \in DOMAIN map \ {id}
      PROVE  m[k] \in Entry
  <2>1. map[k] \in Entry
    BY DEF Table
  <2>2. m[k] = [age |-> map[k].age, after |-> map[k].after \cup {id}]
    BY InsertedEarlier
  <2> QED
    BY <2>1, <2>2 DEF Entry
<1> HIDE DEF m
<1>4. m \in [DOMAIN m -> Entry]
  BY <1>1, <1>2, <1>3
<1> QED
  BY <1>1, <1>4 DEF Table, m

LEMMA WithoutFollows ==
    ASSUME NEW map, NEW u, NEW gone, Table(map), Follows(map, u)
    PROVE  Follows(Without(map, gone), u)
<1> DEFINE kept == DOMAIN map \ gone
<1>1. /\ DOMAIN Without(map, gone) = kept
      /\ \A k \in kept : Without(map, gone)[k].after = map[k].after \cap kept
  BY WithoutTable
<1>2. \A k \in kept : map[k].after \cap kept = u[k] \cap kept
  BY DEF Follows
<1> QED
  BY <1>1, <1>2 DEF Follows

LEMMA InsertedFollows ==
    ASSUME NEW map, NEW id \in Ids, NEW age \in Ages, Table(map), Follows(map, used), Use(id)
    PROVE  Follows(Inserted(map, id, age), used')
<1>1. /\ DOMAIN used' = DOMAIN used \cup {id} /\ used'[id] = {}
      /\ \A k \in DOMAIN used \ {id} : used'[k] = used[k] \cup {id}
  BY DEF Use
<1>0. /\ DOMAIN Inserted(map, id, age) = DOMAIN map \cup {id}
      /\ Inserted(map, id, age)[id].after = {}
      /\ \A k \in DOMAIN map \ {id} : Inserted(map, id, age)[k].after = map[k].after \cup {id}
  <2>1. ASSUME NEW k \in DOMAIN map \ {id}
        PROVE  Inserted(map, id, age)[k].after = map[k].after \cup {id}
    <3>1. Inserted(map, id, age)[k] = [age |-> map[k].age, after |-> map[k].after \cup {id}]
      BY InsertedEarlier
    <3> QED
      BY <3>1
  <2>2. Inserted(map, id, age)[id] = [age |-> age, after |-> {}]
    BY DEF Inserted
  <2>3. DOMAIN Inserted(map, id, age) = DOMAIN map \cup {id}
    BY DEF Inserted
  <2> QED
    BY <2>1, <2>2, <2>3
<1>2. ASSUME NEW k \in DOMAIN map \cup {id}
      PROVE  Inserted(map, id, age)[k].after = used'[k] \cap (DOMAIN map \cup {id})
  <2>1. CASE k = id
    BY <1>0, <1>1, <2>1
  <2>2. CASE k # id
    <3>1. Inserted(map, id, age)[k].after = (used[k] \cap DOMAIN map) \cup {id}
      BY <1>0, <2>2 DEF Follows
    <3>2. used'[k] = used[k] \cup {id}
      BY <1>1, <1>2, <2>2 DEF Follows
    <3> QED
      BY <3>1, <3>2
  <2> QED
    BY <2>1, <2>2
<1> QED
  BY <1>0, <1>1, <1>2 DEF Follows

LEMMA UseRecency ==
    ASSUME NEW id \in Ids, DOMAIN used \subseteq Ids,
           used \in [DOMAIN used -> SUBSET DOMAIN used], Recency(used), Use(id)
    PROVE  /\ Recency(used')
           /\ DOMAIN used' = DOMAIN used \cup {id}
           /\ used' \in [DOMAIN used' -> SUBSET DOMAIN used']
<1>1. /\ DOMAIN used' = DOMAIN used \cup {id} /\ used'[id] = {}
      /\ \A k \in DOMAIN used \ {id} : used'[k] = used[k] \cup {id}
      /\ used' \in [DOMAIN used' -> SUBSET DOMAIN used']
  BY DEF Use
<1>2. ASSUME NEW k \in DOMAIN used', NEW l \in DOMAIN used'
      PROVE  /\ k \notin used'[k]
             /\ k # l => (l \in used'[k] <=> k \notin used'[l])
             /\ l \in used'[k] => used'[l] \subseteq used'[k]
  BY <1>1, <1>2 DEF Recency
<1> QED
  BY <1>1, <1>2 DEF Recency

(* There is an entry all others were used after.                           *)
LEMMA LeastUsed ==
    ASSUME NEW u, NEW T, Recency(u), T \subseteq DOMAIN u, IsFiniteSet(T), T # {}
    PROVE  \E x \in T : \A y \in T \ {x} : y \in u[x]
<1> DEFINE before(x) == T \ u[x]
           B == {before(x) : x \in T}
<1>1. B \subseteq FiniteSubsetsOf(T) /\ B # {}
  <2>1. \A x \in T : IsFiniteSet(before(x)) /\ before(x) \subseteq T
    BY FS_Subset
  <2> QED
    BY <2>1 DEF FiniteSubsetsOf
<1>2. PICK b \in B : \A c \in B : ~(<<c, b>> \in StrictSubsetOrdering(T))
  <2>1. IsWellFoundedOn(StrictSubsetOrdering(T), FiniteSubsetsOf(T))
    BY FS_StrictSubsetOrderingWellFounded
  <2> HIDE DEF B
  <2> QED
    BY <1>1, <2>1, WFMin
<1>3. PICK x \in T : b = before(x)
  OBVIOUS
<1>4. ASSUME NEW y \in T \ {x}, y \notin u[x]
      PROVE  FALSE
  <2>1. x \in u[y] /\ u[x] \subseteq u[y] /\ x \notin u[x]
    BY <1>4 DEF Recency
  <2>2. before(y) \subseteq before(x) /\ before(y) # before(x)
    BY <2>1
  <2>3. <<before(y), b>> \in StrictSubsetOrdering(T)
    BY <1>3, <2>2 DEF StrictSubsetOrdering
  <2> QED
    BY <1>2, <2>3
<1> QED
  BY <1>4

(* The entries with too few after them to be evicted.                      *)
Newest(u, T) == {k \in T : ~(Cardinality(u[k] \cap T) >= MaxEntries)}

(* Of one entry too many, the one used longest ago goes and no other.      *)
LEMMA OneTooMany ==
    ASSUME NEW u, NEW T, Recency(u), T \subseteq DOMAIN u, IsFiniteSet(T),
           Cardinality(T) <= MaxEntries + 1
    PROVE  /\ IsFiniteSet(Newest(u, T)) /\ Cardinality(Newest(u, T)) <= MaxEntries
           /\ \A x \in T \ Newest(u, T) :
                Cardinality(Newest(u, T)) = MaxEntries /\ Newest(u, T) \subseteq u[x]
<1> DEFINE kept == {k \in T : ~(Cardinality(u[k] \cap T) >= MaxEntries)}
<1>0. MaxEntries \in Nat \ {0} /\ Cardinality(T) \in Nat
  BY PreviewAssumption, FS_CardinalityType
<1>1. \A S \in SUBSET T : IsFiniteSet(S) /\ Cardinality(S) \in Nat /\ Cardinality(S) <= Cardinality(T)
  BY FS_Subset, FS_CardinalityType
<1>2. \A x \in T : IsFiniteSet(T \ {x}) /\ Cardinality(T \ {x}) = Cardinality(T) - 1
  BY FS_RemoveElement
<1>3. ASSUME NEW x \in T \ kept
      PROVE  Cardinality(kept) = MaxEntries /\ kept \subseteq u[x]
  <2>1. Cardinality(u[x] \cap T) >= MaxEntries
    BY <1>3
  <2>2. u[x] \cap T \subseteq T \ {x}
    BY DEF Recency
  <2>3. Cardinality(u[x] \cap T) <= Cardinality(T \ {x}) /\ Cardinality(u[x] \cap T) \in Nat
    BY <1>1, <1>2, <2>2, FS_Subset
  <2>4. Cardinality(T) = MaxEntries + 1 /\ Cardinality(T \ {x}) = MaxEntries
        /\ Cardinality(T \ {x}) = Cardinality(u[x] \cap T)
    <3>1. Cardinality(T \ {x}) = Cardinality(T) - 1
      BY <1>2
    <3> HIDE DEF Recency
    <3> QED
      BY ONLY <1>0, <2>1, <2>3, <3>1, Cardinality(T) <= MaxEntries + 1
  <2>5. T \ {x} = u[x] \cap T
    BY <1>2, <2>2, <2>4, FS_Subset
  <2>6. ASSUME NEW y \in T \ {x}
        PROVE  y \in kept
    <3>1. u[y] \cap T \subseteq (T \ {x}) \ {y}
      BY <2>5, <2>6 DEF Recency
    <3>2. IsFiniteSet((T \ {x}) \ {y}) /\ Cardinality((T \ {x}) \ {y}) = MaxEntries - 1
      BY <1>2, <2>4, FS_RemoveElement
    <3>3. Cardinality(u[y] \cap T) <= MaxEntries - 1 /\ Cardinality(u[y] \cap T) \in Nat
      BY <1>1, <3>1, <3>2, FS_Subset
    <3> QED
      BY <1>0, <3>3
  <2>7. kept = T \ {x}
    BY <1>3, <2>6
  <2> QED
    BY <2>4, <2>5, <2>7
<1>4. IsFiniteSet(kept) /\ Cardinality(kept) <= MaxEntries
  <2>1. kept \subseteq T /\ IsFiniteSet(kept)
    BY <1>1
  <2>2. CASE T \ kept # {}
    <3>1. PICK x \in T \ kept : TRUE
      BY <2>2
    <3>2. Cardinality(kept) = MaxEntries
      BY <1>3, <3>1
    <3> QED
      BY ONLY <1>0, <2>1, <3>2
  <2>3. CASE T = kept /\ T # {}
    <3>1. PICK x \in T : \A y \in T \ {x} : y \in u[x]
      BY <2>3, LeastUsed
    <3>2. T \ {x} = u[x] \cap T
      BY <3>1 DEF Recency
    <3>3. ~(Cardinality(T \ {x}) >= MaxEntries)
      BY <2>3, <3>2
    <3>4. Cardinality(T \ {x}) = Cardinality(T) - 1
      BY <1>2
    <3>5. Cardinality(T) <= MaxEntries
      BY ONLY <1>0, <3>3, <3>4
    <3> QED
      BY <2>3, <3>5
  <2>4. CASE T = {}
    BY ONLY <1>0, <2>1, <2>4, FS_EmptySet
  <2> QED
    BY <2>1, <2>2, <2>3, <2>4
<1> QED
  BY <1>3, <1>4 DEF Newest
-----------------------------------------------------------------------------
(* preview.page keeps what was retrieved under a fresh id.                 *)
LEMMA StoreStep ==
    ASSUME Server, NEW id \in Ids \ DOMAIN used, cache' = Stored(id), Use(id)
    PROVE  Server' /\ LeastUsedGo
<1> DEFINE gone == {k \in DOMAIN cache : Expired(cache[k])}
           S == DOMAIN cache \ gone
           T == S \cup {id}
           map == Inserted(Pruned, id, 0)
           dropped == {k \in DOMAIN map : Cardinality(map[k].after) >= MaxEntries}
           kept == T \ dropped
<1>0. 0 \in Ages /\ MaxEntries \in Nat
  BY PreviewAssumption DEF Ages
<1>1. Table(Pruned) /\ DOMAIN Pruned = S /\ Follows(Pruned, used)
  BY WithoutTable, WithoutFollows DEF Server, InOrder, Pruned
<1>2. DOMAIN map = T
  BY <1>1 DEF Inserted
<1>3. Table(map) /\ Follows(map, used')
  <2> HIDE DEF S
  <2> QED
    BY <1>0, <1>1, InsertedTable, InsertedFollows
<1>4. /\ Recency(used') /\ DOMAIN used' = DOMAIN used \cup {id}
      /\ used' \in [DOMAIN used' -> SUBSET DOMAIN used']
  BY UseRecency DEF Server, InOrder
<1>5. cache' = Without(map, dropped)
  BY DEF Stored
<1> HIDE DEF map
<1>6. kept = Newest(used', T)
  <2>1. \A k \in T : map[k].after = used'[k] \cap T
    BY <1>2, <1>3 DEF Follows
  <2> QED
    BY <1>2, <2>1 DEF Newest
<1>7. Table(cache') /\ DOMAIN cache' = kept /\ Follows(cache', used')
  <2> HIDE DEF dropped
  <2>1. Table(Without(map, dropped))
    BY <1>3, WithoutTable
  <2>2. Follows(Without(map, dropped), used')
    BY <1>3, WithoutFollows
  <2>3. DOMAIN Without(map, dropped) = kept
    BY <1>2 DEF Without
  <2> QED
    BY <1>5, <2>1, <2>2, <2>3
<1>8. IsFiniteSet(T) /\ Cardinality(T) <= MaxEntries + 1
  <2>1. IsFiniteSet(S) /\ Cardinality(S) <= MaxEntries /\ Cardinality(S) \in Nat
    <3>1. /\ IsFiniteSet(DOMAIN cache) /\ Cardinality(DOMAIN cache) <= MaxEntries
          /\ Cardinality(DOMAIN cache) \in Nat
      BY FS_CardinalityType DEF Server
    <3>2. IsFiniteSet(S) /\ Cardinality(S) <= Cardinality(DOMAIN cache)
      BY <3>1, FS_Subset
    <3>3. Cardinality(S) \in Nat
      BY <3>2, FS_CardinalityType
    <3> HIDE DEF S
    <3> QED
      BY <1>0, <3>1, <3>2, <3>3
  <2> HIDE DEF S
  <2>2. IsFiniteSet(T) /\ Cardinality(T) = IF id \in S THEN Cardinality(S) ELSE Cardinality(S) + 1
    BY <2>1, FS_AddElement
  <2> QED
    BY <1>0, <2>1, <2>2
<1>9. T \subseteq DOMAIN used'
  BY <1>4 DEF Server, InOrder, Follows
<1> HIDE DEF T, kept
<1>10. /\ IsFiniteSet(kept) /\ Cardinality(kept) <= MaxEntries
       /\ \A x \in T \ kept : Cardinality(kept) = MaxEntries /\ kept \subseteq used'[x]
  BY <1>4, <1>6, <1>8, <1>9, OneTooMany
<1>11. Server'
  <2>1. DOMAIN used' \subseteq Ids
    BY <1>4 DEF Server
  <2> QED
    BY <1>4, <1>7, <1>10, <2>1 DEF Server, InOrder
<1>12. LeastUsedGo
  BY <1>7, <1>10 DEF LeastUsedGo, T
<1> QED
  BY <1>11, <1>12

(* A live page that is asked about moves to the end; nothing live goes.    *)
LEMMA AskStep ==
    ASSUME Server, NEW id \in Ids, Ask(id)
    PROVE  Server' /\ LeastUsedGo
<1>1. CASE Holds(id)
  <2>1. cache' = Inserted(cache, id, cache[id].age) /\ Use(id)
    BY <1>1 DEF Ask, Read
  <2>2. cache[id].age \in Ages /\ DOMAIN cache \cup {id} = DOMAIN cache
    <3>1. cache[id] \in Entry
      BY <1>1 DEF Holds, Server, Table
    <3> QED
      BY <1>1, <3>1 DEF Holds, Entry
  <2>3. Table(cache') /\ Follows(cache', used')
    BY <2>1, <2>2, InsertedTable, InsertedFollows DEF Server, InOrder
  <2>4. DOMAIN cache' = DOMAIN cache
    BY <2>1, <2>2 DEF Inserted
  <2>5. /\ Recency(used') /\ DOMAIN used' = DOMAIN used \cup {id}
        /\ used' \in [DOMAIN used' -> SUBSET DOMAIN used']
    BY <2>1, UseRecency DEF Server, InOrder
  <2>6. Server'
    BY <2>3, <2>4, <2>5 DEF Server, InOrder
  <2> QED
    BY <2>4, <2>6 DEF LeastUsedGo
<1>2. CASE ~Holds(id)
  <2>1. cache' = Without(cache, {id}) /\ UNCHANGED used
    BY <1>2 DEF Ask, Read
  <2>2. Table(cache') /\ Follows(cache', used') /\ DOMAIN cache' = DOMAIN cache \ {id}
    BY <2>1, WithoutTable, WithoutFollows DEF Server, InOrder
  <2>3. IsFiniteSet(DOMAIN cache') /\ Cardinality(DOMAIN cache') <= MaxEntries
    <3>1. IsFiniteSet(DOMAIN cache) /\ Cardinality(DOMAIN cache) <= MaxEntries
      BY DEF Server
    <3>2. /\ IsFiniteSet(DOMAIN cache') /\ Cardinality(DOMAIN cache') <= Cardinality(DOMAIN cache)
          /\ Cardinality(DOMAIN cache') \in Nat /\ Cardinality(DOMAIN cache) \in Nat
      BY <2>2, <3>1, FS_Subset, FS_CardinalityType
    <3>3. MaxEntries \in Nat
      BY PreviewAssumption
    <3> QED
      BY <3>1, <3>2, <3>3
  <2>4. Server'
    BY <2>1, <2>2, <2>3 DEF Server, InOrder
  <2> QED
    BY <1>2, <2>2, <2>4 DEF LeastUsedGo, Holds
<1> QED
  BY <1>1, <1>2

LEMMA TickStep ==
    ASSUME Server, Tick
    PROVE  Server' /\ LeastUsedGo
<1>0. Ttl \in Nat
  BY PreviewAssumption
<1>1. DOMAIN cache' = DOMAIN cache /\ UNCHANGED used
  BY DEF Tick
<1>2. ASSUME NEW k \in DOMAIN cache
      PROVE  cache'[k] \in Entry /\ cache'[k].after = cache[k].after
  <2>1. cache[k] \in Entry
    BY DEF Server, Table
  <2>2. cache'[k] = [cache[k] EXCEPT !.age = IF @ > Ttl THEN @ ELSE @ + 1]
    BY DEF Tick
  <2>3. cache[k].age \in 0..(Ttl + 1) /\ cache[k].after \in SUBSET Ids
    BY <2>1 DEF Entry, Ages
  <2>4. (IF cache[k].age > Ttl THEN cache[k].age ELSE cache[k].age + 1) \in 0..(Ttl + 1)
    BY <1>0, <2>3
  <2>5. cache'[k] = [age |-> IF cache[k].age > Ttl THEN cache[k].age ELSE cache[k].age + 1,
                     after |-> cache[k].after]
    BY <2>1, <2>2 DEF Entry
  <2> QED
    BY <2>3, <2>4, <2>5 DEF Entry, Ages
<1>3. cache' = [k \in DOMAIN cache |-> cache'[k]]
  BY DEF Tick
<1>4. Table(cache')
  BY <1>1, <1>2, <1>3 DEF Table, Server
<1>5. Follows(cache', used')
  BY <1>1, <1>2 DEF Follows, Server, InOrder
<1>6. Server'
  BY <1>1, <1>4, <1>5 DEF Server, InOrder
<1> QED
  BY <1>1, <1>6 DEF LeastUsedGo

LEMMA ForgetStep ==
    ASSUME Server, NEW id \in Ids, Forget(id)
    PROVE  Server' /\ LeastUsedGo
<1>1. /\ cache' = cache /\ id \notin DOMAIN cache
      /\ DOMAIN used' = DOMAIN used \ {id}
      /\ \A k \in DOMAIN used \ {id} : used'[k] = used[k] \ {id}
  BY DEF Forget
<1>2. used' \in [DOMAIN used' -> SUBSET DOMAIN used']
  BY DEF Forget, Server
<1>3. Recency(used')
  BY <1>1 DEF Recency, Server, InOrder
<1>4. Follows(cache', used')
  BY <1>1 DEF Follows, Server, InOrder
<1>5. Server'
  BY <1>1, <1>2, <1>3, <1>4 DEF Server, InOrder
<1> QED
  BY <1>1, <1>5 DEF LeastUsedGo

LEMMA EmptyServer ==
    ASSUME cache = Empty, used = Empty
    PROVE  Server
<1>1. DOMAIN cache = {} /\ DOMAIN used = {}
  BY DEF Empty
<1>2. cache \in [{} -> Entry] /\ used \in [{} -> SUBSET {}]
  BY DEF Empty
<1>3. IsFiniteSet({}) /\ Cardinality({}) = 0 /\ MaxEntries \in Nat
  BY FS_EmptySet, PreviewAssumption
<1> QED
  BY <1>1, <1>2, <1>3 DEF Server, Table, InOrder, Recency, Follows
LEMMA FinishStep ==
    ASSUME Server, NEW o, Finish(o)
    PROVE  Server' /\ LeastUsedGo
<1>1. CASE o.kind = "failed"
  <2>1. UNCHANGED <<cache, used>>
    BY <1>1 DEF Finish, server
  <2> QED
    BY <2>1 DEF Server, Table, InOrder, Follows, Recency, LeastUsedGo
<1>2. CASE o.kind # "failed"
  <2>1. PICK id \in Ids \ DOMAIN used : cache' = Stored(id) /\ Use(id)
    BY <1>2 DEF Finish
  <2> QED
    BY <2>1, StoreStep
<1> QED
  BY <1>1, <1>2

LEMMA ServerStep ==
    ASSUME Server, [Next]_vars
    PROVE  Server' /\ (DOMAIN used' # {} => LeastUsedGo)
<1>1. ASSUME UNCHANGED <<cache, used>>
      PROVE  Server' /\ LeastUsedGo
  BY <1>1 DEF Server, Table, InOrder, Follows, Recency, LeastUsedGo
<1>2. CASE PageRejected
  BY <1>1, <1>2 DEF PageRejected, server
<1>3. CASE Restart
  <2>1. cache' = Empty /\ used' = Empty
    BY <1>3 DEF Restart
  <2>2. DOMAIN cache' = {} /\ DOMAIN used' = {}
    BY <2>1 DEF Empty
  <2>3. cache' \in [{} -> Entry] /\ used' \in [{} -> SUBSET {}]
    BY <2>1 DEF Empty
  <2>4. IsFiniteSet({}) /\ Cardinality({}) = 0 /\ MaxEntries \in Nat
    BY FS_EmptySet, PreviewAssumption
  <2> QED
    BY <2>2, <2>3, <2>4 DEF Server, Table, InOrder, Recency, Follows
<1>4. ASSUME NEW mode \in Modes, Page(mode)
      PROVE  Server' /\ LeastUsedGo
  BY <1>1, <1>4 DEF Page, server
<1>5. ASSUME NEW reading \in Readings, FirstAttempt(reading)
      PROVE  Server' /\ LeastUsedGo
  <2>1. UNCHANGED server \/ \E o : Finish(o)
    BY <1>5 DEF FirstAttempt
  <2> QED
    BY <1>1, <2>1, FinishStep DEF server
<1>6. ASSUME NEW reading \in Readings, SecondAttempt(reading)
      PROVE  Server' /\ LeastUsedGo
  BY <1>6, FinishStep DEF SecondAttempt
<1>7. ASSUME NEW id \in Ids, Ask(id) \/ Forget(id)
      PROVE  Server' /\ LeastUsedGo
  BY <1>7, AskStep, ForgetStep
<1>8. CASE Tick
  BY <1>8, TickStep
<1>9. CASE UNCHANGED vars
  BY <1>1, <1>9 DEF vars
<1> QED
  BY <1>2, <1>3, <1>4, <1>5, <1>6, <1>7, <1>8, <1>9 DEF Next

LEMMA ServerInit == Init => Server
BY EmptyServer DEF Init

(* "The page being actively worked on is never the one evicted to make     *)
(* room": but for a restart, a live page leaves the cache only when it is  *)
(* full, and for pages that were all used since (PreviewCache).            *)
THEOREM LeastUsedGoes == Spec => EvictedInOrderOfUse
<1>1. Server /\ [Next]_vars =>
        [DOMAIN used' # {} => \A id \in DOMAIN cache \ DOMAIN cache' :
           ~Expired(cache[id]) =>
              /\ Cardinality(DOMAIN cache') = MaxEntries
              /\ DOMAIN cache' \subseteq used'[id]]_vars
  BY ServerStep DEF LeastUsedGo
<1> QED
  BY <1>1, ServerInit, ServerStep, PTL DEF Spec, EvictedInOrderOfUse

-----------------------------------------------------------------------------
(* Types.                                                                  *)

LEMMA Outcomes ==
    ASSUME NEW reading \in Readings
    PROVE  /\ \A t : LET a == [transport |-> t, reading |-> reading]
                     IN  SingleAttemptOutcome(a).kind \in {"failed", "no_extraction", "extracted"}
           /\ \A h, b : SecondAttemptOutcome(h, b).kind \in {"failed", "no_extraction", "extracted"}
<1>1. \A kind, t, e, as : Outcome(kind, t, e, as).kind = kind
  BY DEF Outcome
<1>2. ASSUME NEW t, NEW a, a = [transport |-> t, reading |-> reading]
      PROVE  SingleAttemptOutcome(a).kind \in {"failed", "no_extraction", "extracted"}
  BY <1>1 DEF SingleAttemptOutcome
<1>3. ASSUME NEW h, NEW b
      PROVE  SecondAttemptOutcome(h, b).kind \in {"failed", "no_extraction", "extracted"}
  <2>1. /\ Extracted(h) => Retrieved(h)
        /\ Extracted(b) => Retrieved(b)
    BY PreviewAssumption DEF Extracted, Retrieved
  <2> QED
    BY <1>1, <2>1 DEF SecondAttemptOutcome
<1> QED
  BY <1>2, <1>3

LEMMA RequestStep ==
    ASSUME Waits, Request, renderUrl \in BOOLEAN, [Next]_vars
    PROVE  Request' /\ renderUrl' \in BOOLEAN
<1>0. /\ <<>> \in Seq(Attempt)
      /\ NoRequest \in [step : {"idle", "first", "second"}, mode : Modes, attempts : Seq(Attempt)]
  BY DEF NoRequest, Modes
<1>1. CASE PageRejected
  BY <1>1 DEF PageRejected, Request
<1>2. CASE Restart
  BY <1>0, <1>2 DEF Restart, Request
<1>3. CASE Tick
  BY <1>3 DEF Tick, Request
<1>4. ASSUME NEW mode \in Modes, Page(mode)
      PROVE  Request' /\ renderUrl' \in BOOLEAN
  BY <1>0, <1>4 DEF Page, Request
<1>5. ASSUME NEW id \in Ids, Ask(id) \/ Forget(id)
      PROVE  Request' /\ renderUrl' \in BOOLEAN
  BY <1>5 DEF Ask, Forget, Request
<1>6. ASSUME NEW o, Finish(o), o.kind \in {"failed", "no_extraction", "extracted"}
      PROVE  Request' /\ renderUrl' \in BOOLEAN
  BY <1>0, <1>6 DEF Finish, Request
<1>7. ASSUME NEW reading \in Readings, SecondAttempt(reading)
      PROVE  Request' /\ renderUrl' \in BOOLEAN
  BY <1>6, <1>7, Outcomes DEF SecondAttempt
<1>8. ASSUME NEW reading \in Readings, FirstAttempt(reading)
      PROVE  Request' /\ renderUrl' \in BOOLEAN
  <2> DEFINE transports == PreviewTransports(request.mode)
             a == [transport |-> transports[1], reading |-> reading]
  <2>1. CASE Finish(SingleAttemptOutcome(a))
    BY <1>6, <2>1, Outcomes
  <2>2. CASE request' = [request EXCEPT !.step = "second", !.attempts = <<a>>]
             /\ UNCHANGED <<renderUrl, answer>>
    <3>1. /\ request.step = "first" /\ request.mode \in Modes
          /\ request.mode = "browser" => renderUrl
      BY <1>8 DEF FirstAttempt, Waits
    <3>2. transports[1] \in Transports
      BY <3>1 DEF PreviewTransports, Modes, Transports
    <3>3. <<a>> \in Seq(Attempt)
      BY <3>2 DEF Attempt
    <3>4. request \in [step : {"idle", "first", "second"}, mode : Modes, attempts : Seq(Attempt)]
      BY DEF Request
    <3> HIDE DEF a
    <3>5. request' = [step |-> "second", mode |-> request.mode, attempts |-> <<a>>]
      BY <2>2, <3>4
    <3> QED
      BY <2>2, <3>3, <3>4, <3>5 DEF Request
  <2> QED
    BY <1>8, <2>1, <2>2 DEF FirstAttempt
<1>9. CASE UNCHANGED vars
  BY <1>9 DEF vars, Request
<1> QED
  BY <1>1, <1>2, <1>3, <1>4, <1>5, <1>7, <1>8, <1>9 DEF Next

(* The type invariant: at most MaxEntries pages are kept.                  *)
THEOREM PageTypes == Spec => []TypeOK
<1> DEFINE Typed == Waits /\ StrongestShown /\ Server /\ Request /\ renderUrl \in BOOLEAN
<1>1. Init => Typed
  BY ServerInit DEF Init, NoRequest, Waits, StrongestShown, Answered, Request, Modes
<1>2. Typed /\ [Next]_vars => Typed'
  BY WaitsStep, ServerStep, RequestStep DEF IInv
<1>3. Typed => TypeOK
  BY DEF TypeOK, Server, Table, Request
<1> QED
  BY <1>1, <1>2, <1>3, PTL DEF Spec
-----------------------------------------------------------------------------
(* What preview.suggestExpressions answers is ranked.                      *)

(* What a stable sort by key puts before the i-th element.                 *)
Before(key, i) ==
    {j \in DOMAIN key : key[j] < key[i] \/ (key[j] = key[i] /\ j < i)}

(* Fewer elements are before what is itself before.                        *)
LEMMA Precedes ==
    ASSUME NEW n \in Nat, NEW key \in [1..n -> Int], NEW i \in 1..n
    PROVE  /\ IsFiniteSet(Before(key, i)) /\ Cardinality(Before(key, i)) \in 0..(n - 1)
           /\ \A j \in Before(key, i) : Cardinality(Before(key, j)) < Cardinality(Before(key, i))
<1>1. IsFiniteSet(1..n) /\ Cardinality(1..n) = n
  BY FS_Interval
<1>2. Before(key, i) \subseteq (1..n) \ {i}
  BY DEF Before
<1>3. IsFiniteSet((1..n) \ {i}) /\ Cardinality((1..n) \ {i}) = n - 1
  BY <1>1, FS_RemoveElement
<1>4. /\ IsFiniteSet(Before(key, i))
      /\ Cardinality(Before(key, i)) \in Nat /\ Cardinality(Before(key, i)) <= n - 1
  BY <1>2, <1>3, FS_Subset, FS_CardinalityType
<1>5. ASSUME NEW j \in Before(key, i)
      PROVE  Cardinality(Before(key, j)) < Cardinality(Before(key, i))
  <2>1. Before(key, j) \subseteq Before(key, i) \ {j}
    BY DEF Before
  <2>2. /\ IsFiniteSet(Before(key, i) \ {j})
        /\ Cardinality(Before(key, i) \ {j}) = Cardinality(Before(key, i)) - 1
    BY <1>4, FS_RemoveElement
  <2>3. Cardinality(Before(key, j)) \in Nat /\ Cardinality(Before(key, j)) <= Cardinality(Before(key, i) \ {j})
    BY <2>1, <2>2, FS_Subset, FS_CardinalityType
  <2> QED
    BY <1>4, <2>2, <2>3
<1> QED
  BY <1>4, <1>5

(* So no two elements have the same place ...                              *)
LEMMA RanksDiffer ==
    ASSUME NEW n \in Nat, NEW key \in [1..n -> Int], NEW i \in 1..n, NEW j \in 1..n,
           Cardinality(Before(key, i)) = Cardinality(Before(key, j))
    PROVE  i = j
<1>1. Cardinality(Before(key, i)) \in 0..(n - 1)
  BY Precedes
<1>2. i \notin Before(key, j) /\ j \notin Before(key, i)
  BY <1>1, Precedes
<1> QED
  BY <1>2 DEF Before

(* ... there are as many places as elements, and each is somebody's ...    *)
LEMMA EveryRank ==
    ASSUME NEW n \in Nat, NEW key \in [1..n -> Int]
    PROVE  \A m \in 1..n : \E i \in 1..n : Cardinality(Before(key, i)) = m - 1
<1> DEFINE rank == [i \in 1..n |-> Cardinality(Before(key, i))]
<1>1. rank \in [1..n -> 0..(n - 1)]
  BY Precedes
<1>2. \A i, j \in 1..n : rank[i] = rank[j] => i = j
  BY RanksDiffer
<1>3. rank \in Injection(1..n, 0..(n - 1))
  BY <1>1, <1>2 DEF Injection, IsInjective
<1>4. Cardinality(1..n) = Cardinality(0..(n - 1)) /\ IsFiniteSet(0..(n - 1))
  BY FS_Interval
<1>5. rank \in Surjection(1..n, 0..(n - 1))
  <2> HIDE DEF rank
  <2> QED
    BY <1>3, <1>4, FS_Injection
<1>6. \A m \in 1..n : m - 1 \in 0..(n - 1)
  OBVIOUS
<1>7. \A r \in 0..(n - 1) : \E i \in 1..n : rank[i] = r
  <2> HIDE DEF rank
  <2> QED
    BY <1>5 DEF Surjection
<1>8. ASSUME NEW m \in 1..n
      PROVE  \E i \in 1..n : Cardinality(Before(key, i)) = m - 1
  <2>1. PICK i \in 1..n : rank[i] = m - 1
    BY <1>6, <1>7
  <2> QED
    BY <2>1
<1> QED
  BY <1>8

(* ... in the order of the keys.                                           *)
LEMMA RankIsOrder ==
    ASSUME NEW n \in Nat, NEW key \in [1..n -> Int], NEW i \in 1..n, NEW j \in 1..n,
           Cardinality(Before(key, i)) < Cardinality(Before(key, j))
    PROVE  key[i] <= key[j]
<1>1. Cardinality(Before(key, i)) \in Nat /\ Cardinality(Before(key, j)) \in Nat
  BY Precedes
<1>2. j \notin Before(key, i)
  BY <1>1, Precedes
<1> QED
  BY <1>2 DEF Before

(* A draft whose expression has less than 15,000 characters; one that can   *)
(* be saved has 500.                                                       *)
Candidate(c) ==
    /\ c.tier \in 0..2 /\ c.tens \in Nat /\ c.tens < 1500
    /\ c.charged \subseteq Flags

(* No number of slight flags weighs as much as one risk.                   *)
LEMMA Scores ==
    ASSUME NEW c, Candidate(c)
    PROVE  LET score == DraftScore(c)
           IN  /\ score \in Nat
               /\ c.charged \cap Risks = {} => score < 4400
               /\ c.charged \cap Risks # {} => score >= 10100
<1> DEFINE charge(f) == IF f \in c.charged THEN Penalty[f] ELSE 0
<1>1. /\ charge("unnamed") \in {0, 10600} /\ charge("stale") \in {0, 10600}
      /\ charge("other") \in {0, 10500} /\ charge("struck") \in {0, 10400}
      /\ charge("prose") \in {0, 10300} /\ charge("positional") \in {0, 10100}
      /\ charge("weak") \in {0, 500} /\ charge("wrapper") \in {0, 400}
  BY DEF Penalty
<1>4. Risks = {"unnamed", "other", "positional", "prose", "struck", "stale"}
  BY DEF Risks, Flags, Penalty
<1>2. \A f \in Risks : f \in c.charged => charge(f) >= 10100
  BY <1>4 DEF Penalty
<1>3. c.charged \cap Risks = {} => \A f \in Risks : charge(f) = 0
  OBVIOUS
<1>5. DraftScore(c) =
         1000 * c.tier + c.tens
           + charge("unnamed") + charge("other") + charge("positional") + charge("prose")
           + charge("struck") + charge("stale") + charge("weak") + charge("wrapper")
  BY DEF DraftScore
<1> HIDE DEF charge
<1>6. c.tier \in 0..2 /\ c.tens \in Nat /\ c.tens < 1500
  BY DEF Candidate
<1>7. DraftScore(c) \in Nat
  BY <1>1, <1>5, <1>6
<1>8. ASSUME c.charged \cap Risks = {}
      PROVE  DraftScore(c) < 4400
  BY <1>1, <1>3, <1>4, <1>5, <1>6, <1>8
<1>9. ASSUME c.charged \cap Risks # {}
      PROVE  DraftScore(c) >= 10100
  <2>1. PICK f \in Risks : charge(f) >= 10100
    BY <1>2, <1>9
  <2> QED
    BY <1>1, <1>4, <1>5, <1>6, <2>1
<1> QED
  BY <1>7, <1>8, <1>9

(* A lower total is never in a higher band.                                *)
LEMMA BandsApart ==
    ASSUME NEW c, NEW d, Candidate(c), Candidate(d),
           NEW onFile \in BOOLEAN, NEW p \in BOOLEAN, NEW q \in BOOLEAN,
           Total(c, p, onFile) <= Total(d, q, onFile)
    PROVE  Band(c, p, onFile) <= Band(d, q, onFile)
<1>1. /\ DraftScore(c) \in Nat /\ DraftScore(d) \in Nat
      /\ c.charged \cap Risks = {} => DraftScore(c) < 4400
      /\ c.charged \cap Risks # {} => DraftScore(c) >= 10100
      /\ d.charged \cap Risks = {} => DraftScore(d) < 4400
      /\ d.charged \cap Risks # {} => DraftScore(d) >= 10100
  BY Scores
<1> QED
  BY <1>1 DEF Total, CurrencyPenalty, Band

(* "Three bands, spaced clear of each other" (suggest.ts:1229): sorted by   *)
(* their totals no candidates are lost, and what reads the wrong number is *)
(* behind what cannot run yet, and that behind what can, whatever tier,    *)
(* length, flags and currency each has and however many there are.         *)
THEOREM RisksRankLast ==
    ASSUME NEW n \in Nat, NEW list, DOMAIN list = 1..n, \A i \in 1..n : Candidate(list[i]),
           NEW onFile \in BOOLEAN
    PROVE  LET ranked == SortedBy(list, LAMBDA c : Total(c, c.currency # None, onFile))
               band(c) == Band(c, c.currency # None, onFile)
           IN  /\ DOMAIN ranked = 1..n
               /\ \A i \in 1..n : \E m \in 1..n : ranked[m] = list[i]
               /\ \A i, j \in 1..n : i < j => band(ranked[i]) <= band(ranked[j])
<1> DEFINE Key(c) == Total(c, c.currency # None, onFile)
           key == [i \in 1..n |-> Key(list[i])]
           before(i) == {j \in DOMAIN list : Key(list[j]) < Key(list[i])
                                               \/ (Key(list[j]) = Key(list[i]) /\ j < i)}
           place(m) == CHOOSE i \in DOMAIN list : Cardinality(before(i)) = m - 1
           ranked == SortedBy(list, LAMBDA c : Total(c, c.currency # None, onFile))
<1>1. key \in [1..n -> Int]
  <2>1. ASSUME NEW i \in 1..n
        PROVE  Key(list[i]) \in Int
    <3>1. DraftScore(list[i]) \in Nat
      BY Scores
    <3> QED
      BY <3>1 DEF Total, CurrencyPenalty
  <2> QED
    BY <2>1
<1>2. ranked = [m \in DOMAIN list |-> list[place(m)]]
  BY DEF SortedBy
<1>3. \A i \in 1..n : before(i) = Before(key, i)
  <2> HIDE DEF Key
  <2> QED
    BY DEF Before
<1> HIDE DEF ranked, before
<1>4. ASSUME NEW m \in 1..n
      PROVE  /\ place(m) \in 1..n /\ Cardinality(before(place(m))) = m - 1
             /\ ranked[m] = list[place(m)]
  <2>1. \E i \in 1..n : Cardinality(before(i)) = m - 1
    <3> HIDE DEF key
    <3> QED
      BY <1>1, <1>3, EveryRank
  <2> QED
    BY <1>2, <2>1
<1> HIDE DEF place
<1>5. ASSUME NEW i \in 1..n
      PROVE  \E m \in 1..n : ranked[m] = list[i]
  <2> DEFINE m == Cardinality(before(i)) + 1
  <2>1. m \in 1..n
    <3> HIDE DEF key
    <3>1. Cardinality(before(i)) \in 0..(n - 1)
      BY <1>1, <1>3, Precedes
    <3> QED
      BY <3>1
  <2>2. Cardinality(before(place(m))) = Cardinality(before(i))
    <3>1. Cardinality(before(i)) \in 0..(n - 1)
      <4> HIDE DEF key
      <4> QED
        BY <1>1, <1>3, Precedes
    <3>2. Cardinality(before(place(m))) = m - 1
      BY <1>4, <2>1
    <3> QED
      BY <3>1, <3>2
  <2>3. place(m) = i
    <3> HIDE DEF key, m
    <3>1. place(m) \in 1..n
      BY <1>4, <2>1
    <3> QED
      BY <1>1, <1>3, <2>2, <3>1, RanksDiffer
  <2> QED
    BY <1>4, <2>1, <2>3
<1>6. ASSUME NEW i \in 1..n, NEW j \in 1..n, i < j
      PROVE  Band(ranked[i], ranked[i].currency # None, onFile)
                <= Band(ranked[j], ranked[j].currency # None, onFile)
  <2>1. /\ place(i) \in 1..n /\ place(j) \in 1..n
        /\ ranked[i] = list[place(i)] /\ ranked[j] = list[place(j)]
    BY <1>4
  <2>2. key[place(i)] <= key[place(j)]
    <3>1. Cardinality(Before(key, place(i))) = i - 1 /\ Cardinality(Before(key, place(j))) = j - 1
      BY <1>3, <1>4, <2>1
    <3> HIDE DEF key
    <3>2. Cardinality(Before(key, place(i))) < Cardinality(Before(key, place(j)))
      BY <1>6, <3>1
    <3> QED
      BY <1>1, <2>1, <3>2, RankIsOrder
  <2>3. Key(ranked[i]) <= Key(ranked[j])
    BY <2>1, <2>2
  <2>4. Candidate(ranked[i]) /\ Candidate(ranked[j])
    BY <2>1
  <2> QED
    BY <2>3, <2>4, BandsApart
<1>7. DOMAIN ranked = 1..n
  BY <1>2
<1> QED
  BY <1>5, <1>6, <1>7 DEF ranked
-----------------------------------------------------------------------------
(* Before, a budget of runs is shared between the two modes.               *)

(* Induction, of a set of numbers.                                         *)
LEMMA AllNumbers ==
    ASSUME NEW S \in SUBSET Nat, 0 \in S, \A i \in S : i + 1 \in S
    PROVE  S = Nat
<1> DEFINE Less == {ss \in Nat \X Nat : ss[1] < ss[2]}
<1>1. IsWellFoundedOn(Less, Nat)
  <2>1. Less = OpToRel(<, Nat)
    BY Zenon DEF OpToRel
  <2> QED
    BY <2>1, NatLessThanWellFounded, Zenon
<1>2. ASSUME Nat \ S # {}
      PROVE  FALSE
  <2>1. PICK i \in Nat \ S : \A j \in Nat \ S : ~(<<j, i>> \in Less)
    <3> HIDE DEF Less
    <3> QED
      BY <1>1, <1>2, WFMin
  <2>2. i - 1 \in Nat /\ i - 1 \notin S
    <3>1. i - 1 \in S => (i - 1) + 1 \in S
      OBVIOUS
    <3> QED
      BY <3>1
  <2>3. <<i - 1, i>> \in Less
    BY <2>2
  <2> QED
    BY <2>1, <2>2, <2>3
<1> QED
  BY <1>2

(* What is taken after the i-th draft, and a record of it from the first.   *)
Step(drafts, sofar, i) == IF HasRoom(drafts, sofar, i) THEN sofar \cup {i} ELSE sofar
Chain(drafts, m, f) == f = [i \in 0..m |-> IF i = 0 THEN {} ELSE Step(drafts, f[i - 1], i)]

(* There is one of any length.                                             *)
LEMMA ChainOf ==
    ASSUME NEW drafts, NEW m \in Nat
    PROVE  \E f : Chain(drafts, m, f)
<1> DEFINE S == {k \in Nat : \E f : Chain(drafts, k, f)}
<1>1. 0 \in S
  <2>1. Chain(drafts, 0, [i \in 0..0 |-> {}])
    BY DEF Chain
  <2> QED
    BY <2>1
<1>2. ASSUME NEW k \in S
      PROVE  k + 1 \in S
  <2>1. PICK f : Chain(drafts, k, f)
    OBVIOUS
  <2> DEFINE g == [i \in 0..(k + 1) |-> IF i = k + 1 THEN Step(drafts, f[k], k + 1) ELSE f[i]]
  <2>2. \A i \in 0..k : g[i] = f[i]
    OBVIOUS
  <2>3. \A i \in 0..k : f[i] = IF i = 0 THEN {} ELSE Step(drafts, f[i - 1], i)
    BY <2>1 DEF Chain
  <2>4. ASSUME NEW i \in 0..(k + 1)
        PROVE  g[i] = IF i = 0 THEN {} ELSE Step(drafts, g[i - 1], i)
    <3>1. CASE i = k + 1
      <4>1. g[i - 1] = f[k] /\ i # 0
        BY <2>2, <3>1
      <4>2. g[i] = Step(drafts, f[k], k + 1)
        BY <3>1
      <4> HIDE DEF g
      <4> QED
        BY <3>1, <4>1, <4>2
    <3>2. CASE i \in 1..k
      <4>1. g[i - 1] = f[i - 1] /\ g[i] = f[i] /\ i # 0 /\ i \in 0..k
        BY <2>2, <3>2
      <4> HIDE DEF g
      <4> QED
        BY <2>3, <4>1
    <3>3. CASE i = 0
      BY <2>2, <2>3, <3>3
    <3> QED
      BY <3>1, <3>2, <3>3
  <2>5. Chain(drafts, k + 1, g)
    <3>1. g = [i \in 0..(k + 1) |-> g[i]]
      OBVIOUS
    <3> HIDE DEF g
    <3> QED
      BY <2>4, <3>1 DEF Chain
  <2> QED
    BY <2>5
<1>3. S = Nat
  <2>1. S \in SUBSET Nat
    OBVIOUS
  <2> HIDE DEF S
  <2> QED
    BY <1>1, <1>2, <2>1, AllNumbers
<1> QED
  BY <1>3

(* budgeted goes through the drafts once, best first.                      *)
LEMMA TakenSteps ==
    ASSUME NEW drafts, Len(drafts) \in Nat
    PROVE  /\ TakenOf(drafts)[0] = {}
           /\ \A i \in 1..Len(drafts) :
                TakenOf(drafts)[i] = Step(drafts, TakenOf(drafts)[i - 1], i)
<1>1. TakenOf(drafts) = CHOOSE f : Chain(drafts, Len(drafts), f)
  BY DEF TakenOf, Chain, Step
<1>2. Chain(drafts, Len(drafts), TakenOf(drafts))
  BY <1>1, ChainOf
<1>3. \A i \in 0..Len(drafts) :
         TakenOf(drafts)[i] = IF i = 0 THEN {} ELSE Step(drafts, TakenOf(drafts)[i - 1], i)
  BY <1>2 DEF Chain
<1> QED
  BY <1>3

(* The modes of a list of drafts.                                          *)
OfModes(drafts) == DOMAIN drafts = 1..Len(drafts) /\ Len(drafts) \in Nat
                 /\ \A i \in 1..Len(drafts) : drafts[i] \in ExpressionModes

(* The drafts of the two modes make up what is taken.                      *)
LEMMA TwoModes ==
    ASSUME NEW drafts, OfModes(drafts), NEW taken \in SUBSET (1..Len(drafts)), NEW mode \in ExpressionModes
    PROVE  /\ IsFiniteSet(taken) /\ Cardinality(taken) \in Nat
           /\ Spent(drafts, taken, mode) \in Nat
           /\ Spent(drafts, taken, OtherMode(mode)) \in Nat
           /\ Cardinality(taken) = Spent(drafts, taken, mode) + Spent(drafts, taken, OtherMode(mode))
<1> DEFINE of(m) == {j \in taken : drafts[j] = m}
<1>1. IsFiniteSet(taken) /\ Cardinality(taken) \in Nat
  <2>1. IsFiniteSet(1..Len(drafts))
    BY FS_Interval DEF OfModes
  <2> QED
    BY <2>1, FS_Subset, FS_CardinalityType
<1>2. /\ IsFiniteSet(of(mode)) /\ Cardinality(of(mode)) \in Nat
      /\ IsFiniteSet(of(OtherMode(mode))) /\ Cardinality(of(OtherMode(mode))) \in Nat
  BY <1>1, FS_Subset, FS_CardinalityType
<1>3. of(mode) \cup of(OtherMode(mode)) = taken /\ of(mode) \cap of(OtherMode(mode)) = {}
  BY DEF OfModes, OtherMode, ExpressionModes
<1>4. Cardinality(taken) = Cardinality(of(mode)) + Cardinality(of(OtherMode(mode))) - Cardinality({})
  <2> HIDE DEF of
  <2> QED
    BY <1>2, <1>3, FS_Union
<1> QED
  BY <1>1, <1>2, <1>4, FS_EmptySet DEF Spent

(* What one more draft changes.                                            *)
LEMMA OneMore ==
    ASSUME NEW drafts, OfModes(drafts), NEW i \in 1..Len(drafts), NEW sofar \in SUBSET (1..(i - 1)),
           NEW mode
    PROVE  /\ Unseen(drafts, i - 1, mode) \in Nat /\ Unseen(drafts, i, mode) \in Nat
           /\ Unseen(drafts, i - 1, mode) =
                IF drafts[i] = mode THEN Unseen(drafts, i, mode) + 1 ELSE Unseen(drafts, i, mode)
           /\ Cardinality(sofar \cup {i}) = Cardinality(sofar) + 1
           /\ Spent(drafts, sofar \cup {i}, mode) =
                IF drafts[i] = mode THEN Spent(drafts, sofar, mode) + 1 ELSE Spent(drafts, sofar, mode)
<1> DEFINE left(k) == {j \in 1..Len(drafts) : j > k /\ drafts[j] = mode}
           of(s) == {j \in s : drafts[j] = mode}
<1>0. Len(drafts) \in Nat /\ DOMAIN drafts = 1..Len(drafts) /\ IsFiniteSet(1..Len(drafts))
  BY FS_Interval DEF OfModes
<1>1. \A k : IsFiniteSet(left(k)) /\ Cardinality(left(k)) \in Nat
  <2>1. \A k : left(k) \subseteq 1..Len(drafts)
    OBVIOUS
  <2> HIDE DEF left
  <2> QED
    BY <1>0, <2>1, FS_Subset, FS_CardinalityType
<1>2. left(i - 1) = IF drafts[i] = mode THEN left(i) \cup {i} ELSE left(i)
  BY <1>0
<1>3. i \notin left(i)
  BY <1>0
<1>4. \A k : Unseen(drafts, k, mode) = Cardinality(left(k))
  BY <1>0 DEF Unseen
<1>5. Cardinality(left(i) \cup {i}) = Cardinality(left(i)) + 1
  <2> HIDE DEF left
  <2> QED
    BY <1>1, <1>3, FS_AddElement
<1>6. IsFiniteSet(sofar) /\ IsFiniteSet(of(sofar)) /\ i \notin sofar /\ i \notin of(sofar)
  <2>1. i \notin sofar /\ sofar \subseteq 1..Len(drafts)
    BY <1>0
  <2>2. of(sofar) \subseteq sofar
    OBVIOUS
  <2> HIDE DEF of
  <2> QED
    BY <1>0, <2>1, <2>2, FS_Subset
<1>7. of(sofar \cup {i}) = IF drafts[i] = mode THEN of(sofar) \cup {i} ELSE of(sofar)
  OBVIOUS
<1>8. /\ Cardinality(sofar \cup {i}) = Cardinality(sofar) + 1
      /\ Cardinality(of(sofar) \cup {i}) = Cardinality(of(sofar)) + 1
  <2> HIDE DEF of
  <2> QED
    BY <1>6, FS_AddElement
<1>9. \A s : Spent(drafts, s, mode) = Cardinality(of(s))
  BY DEF Spent
<1> HIDE DEF left, of
<1> QED
  BY <1>1, <1>2, <1>4, <1>5, <1>7, <1>8, <1>9

(* A draft was passed over only for what is left of the other mode ...     *)
Filling(drafts, taken, i) ==
    \/ taken = 1..i
    \/ Cardinality(taken) = MaxValidations
    \/ \E mode \in ExpressionModes :
         /\ Spent(drafts, taken, mode) >= MaxValidations - ReservedValidations
         /\ Cardinality(taken) + Unseen(drafts, i, OtherMode(mode)) >= MaxValidations

(* ... and there is room while a mode has had no turn.                     *)
Waiting(drafts, taken, i) ==
    \A mode \in ExpressionModes :
        Spent(drafts, taken, mode) = 0 =>
            /\ \A j \in 1..i : drafts[j] # mode
            /\ Unseen(drafts, i, mode) > 0 => Cardinality(taken) < MaxValidations

Shared(drafts, taken, i) ==
    /\ taken \subseteq 1..i /\ Cardinality(taken) <= MaxValidations
    /\ Filling(drafts, taken, i) /\ Waiting(drafts, taken, i)

(* When a draft is taken.                                                  *)
LEMMA Rooms ==
    ASSUME NEW drafts, OfModes(drafts), NEW i \in 1..Len(drafts), NEW sofar \in SUBSET (1..(i - 1)),
           NEW mode, mode = drafts[i]
    PROVE  LET unseen == Unseen(drafts, i, OtherMode(mode))
           IN  /\ HasRoom(drafts, sofar, i) <=>
                     /\ Cardinality(sofar) < MaxValidations
                     /\ Spent(drafts, sofar, mode) + unseen < MaxValidations
                         \/ Spent(drafts, sofar, mode) + ReservedValidations < MaxValidations
<1>1. Unseen(drafts, i, OtherMode(mode)) \in Nat
  BY OneMore
<1>2. sofar \subseteq 1..Len(drafts) /\ mode \in ExpressionModes
  BY DEF OfModes
<1>3. Spent(drafts, sofar, mode) \in Nat
  BY <1>2, TwoModes
<1> QED
  BY <1>1, <1>3, BudgetAssumption DEF HasRoom, HeldForOther, Smaller

(* A mode that is passed over has spent what is not reserved, and what it   *)
(* leaves the other will use; both cannot be, for twice the reserve fits.  *)
LEMMA FillingStep ==
    ASSUME NEW drafts, OfModes(drafts), NEW i \in 1..Len(drafts), NEW sofar, Shared(drafts, sofar, i - 1)
    PROVE  Filling(drafts, Step(drafts, sofar, i), i)
<1> DEFINE mode == drafts[i]
           other == OtherMode(mode)
           left(m) == Unseen(drafts, i, m)
           of(m) == Spent(drafts, sofar, m)
           of1(m) == Spent(drafts, sofar \cup {i}, m)
           size == Cardinality(sofar)
<1>0. /\ sofar \in SUBSET (1..(i - 1)) /\ sofar \in SUBSET (1..Len(drafts)) /\ size <= MaxValidations
      /\ mode \in ExpressionModes /\ other \in ExpressionModes /\ other # mode /\ OtherMode(other) = mode
      /\ \A m \in ExpressionModes : m = mode \/ m = other
  BY DEF Shared, OfModes, OtherMode, ExpressionModes
<1>1. /\ size \in Nat /\ of(mode) \in Nat /\ of(other) \in Nat /\ size = of(mode) + of(other)
  BY <1>0, TwoModes
<1>2. /\ left(mode) \in Nat /\ left(other) \in Nat
      /\ Unseen(drafts, i - 1, mode) = left(mode) + 1 /\ Unseen(drafts, i - 1, other) = left(other)
      /\ Cardinality(sofar \cup {i}) = size + 1
      /\ of1(mode) = of(mode) + 1 /\ of1(other) = of(other)
  BY <1>0, OneMore
<1>3. HasRoom(drafts, sofar, i) <=>
         /\ size < MaxValidations
         /\ of(mode) + left(other) < MaxValidations \/ of(mode) + ReservedValidations < MaxValidations
  BY <1>0, Rooms
<1>4. MaxValidations \in Nat /\ ReservedValidations \in Nat /\ 2 * ReservedValidations <= MaxValidations
  BY BudgetAssumption
<1>5. CASE sofar = 1..(i - 1) /\ HasRoom(drafts, sofar, i)
  <2>1. sofar \cup {i} = 1..i
    BY <1>5, i \in Nat \ {0} DEF OfModes
  <2> QED
    BY <1>5, <2>1 DEF Filling, Step
<1>6. CASE ~HasRoom(drafts, sofar, i)
  <2>1. CASE size = MaxValidations
    BY <1>6, <2>1 DEF Filling, Step
  <2>2. CASE size < MaxValidations
    <3>1. of(mode) >= MaxValidations - ReservedValidations /\ size + left(other) >= MaxValidations
      <4> HIDE DEF of, left, size
      <4> QED
        BY <1>1, <1>2, <1>3, <1>4, <1>6, <2>2
    <3> QED
      BY <1>0, <1>6, <3>1 DEF Filling, Step
  <2> QED
    BY <1>0, <1>1, <1>4, <2>1, <2>2
<1>7. CASE sofar # 1..(i - 1) /\ HasRoom(drafts, sofar, i)
  <2>1. PICK m \in ExpressionModes :
             /\ of(m) >= MaxValidations - ReservedValidations
             /\ size + Unseen(drafts, i - 1, OtherMode(m)) >= MaxValidations
    <3>1. size # MaxValidations
      <4> HIDE DEF size
      <4> QED
        BY <1>1, <1>3, <1>4, <1>7
    <3> QED
      BY <1>7, <3>1 DEF Shared, Filling
  <2>2. /\ of1(m) >= MaxValidations - ReservedValidations
        /\ size + 1 + left(OtherMode(m)) >= MaxValidations
    <3>1. CASE m = mode
      <4> HIDE DEF of, of1, left, size, mode, other
      <4>1. of(mode) >= MaxValidations - ReservedValidations
        BY <2>1, <3>1
      <4>2. size + Unseen(drafts, i - 1, OtherMode(mode)) >= MaxValidations
        BY <2>1, <3>1
      <4>3. size + left(OtherMode(mode)) >= MaxValidations
        BY <1>2, <4>2 DEF other
      <4>4. left(OtherMode(mode)) \in Nat
        BY <1>2 DEF other
      <4> QED
        BY <1>1, <1>2, <1>4, <3>1, <4>1, <4>3, <4>4
    <3>2. CASE m = other
      <4> HIDE DEF of, of1, left, size, mode, other
      <4>1. of(other) >= MaxValidations - ReservedValidations
        BY <2>1, <3>2
      <4>2. size + Unseen(drafts, i - 1, mode) >= MaxValidations /\ OtherMode(m) = mode
        BY <1>0, <2>1, <3>2
      <4> QED
        BY <1>1, <1>2, <1>4, <3>2, <4>1, <4>2
    <3> QED
      BY <1>0, <3>1, <3>2
  <2> QED
    BY <1>2, <1>7, <2>2 DEF Filling, Step
<1> QED
  BY <1>5, <1>6, <1>7

(* The last place is not taken from a mode that has had none.              *)
LEMMA WaitingStep ==
    ASSUME NEW drafts, OfModes(drafts), NEW i \in 1..Len(drafts), NEW sofar, Shared(drafts, sofar, i - 1)
    PROVE  Waiting(drafts, Step(drafts, sofar, i), i)
<1> DEFINE mode == drafts[i]
           other == OtherMode(mode)
           taken == Step(drafts, sofar, i)
<1>0. /\ sofar \in SUBSET (1..(i - 1)) /\ sofar \in SUBSET (1..Len(drafts))
      /\ mode \in ExpressionModes /\ other \in ExpressionModes /\ other # mode
      /\ \A m \in ExpressionModes : m = mode \/ m = other
  BY DEF Shared, OfModes, OtherMode, ExpressionModes
<1>1. /\ Cardinality(sofar) \in Nat /\ Spent(drafts, sofar, mode) \in Nat /\ Spent(drafts, sofar, other) \in Nat
      /\ Cardinality(sofar) = Spent(drafts, sofar, mode) + Spent(drafts, sofar, other)
  BY <1>0, TwoModes
<1>2. /\ Unseen(drafts, i, mode) \in Nat /\ Unseen(drafts, i, other) \in Nat
      /\ Unseen(drafts, i - 1, mode) = Unseen(drafts, i, mode) + 1
      /\ Unseen(drafts, i - 1, other) = Unseen(drafts, i, other)
      /\ Cardinality(sofar \cup {i}) = Cardinality(sofar) + 1
      /\ Spent(drafts, sofar \cup {i}, mode) = Spent(drafts, sofar, mode) + 1
      /\ Spent(drafts, sofar \cup {i}, other) = Spent(drafts, sofar, other)
  BY <1>0, OneMore
<1>3. HasRoom(drafts, sofar, i) <=>
         /\ Cardinality(sofar) < MaxValidations
         /\ \/ Spent(drafts, sofar, mode) + Unseen(drafts, i, other) < MaxValidations
            \/ Spent(drafts, sofar, mode) + ReservedValidations < MaxValidations
  BY <1>0, Rooms
<1>4. /\ MaxValidations \in Nat /\ ReservedValidations \in Nat \ {0}
      /\ 2 * ReservedValidations <= MaxValidations
  BY BudgetAssumption
<1>5. \A m \in ExpressionModes :
         Spent(drafts, sofar, m) = 0 =>
            /\ \A j \in 1..(i - 1) : drafts[j] # m
            /\ Unseen(drafts, i - 1, m) > 0 => Cardinality(sofar) < MaxValidations
  BY DEF Shared, Waiting
<1>6. Spent(drafts, taken, mode) # 0
  <2>1. CASE Spent(drafts, sofar, mode) = 0
    <3>1. Cardinality(sofar) < MaxValidations
      BY <1>0, <1>2, <1>5, <2>1
    <3>2. HasRoom(drafts, sofar, i)
      BY <1>3, <1>4, <2>1, <3>1
    <3> QED
      BY <1>1, <1>2, <3>2 DEF Step
  <2>2. CASE Spent(drafts, sofar, mode) # 0
    BY <1>1, <1>2, <2>2 DEF Step
  <2> QED
    BY <2>1, <2>2
<1>7. ASSUME Spent(drafts, taken, other) = 0
      PROVE  /\ \A j \in 1..i : drafts[j] # other
             /\ Unseen(drafts, i, other) > 0 => Cardinality(taken) < MaxValidations
  <2>1. Spent(drafts, sofar, other) = 0
    BY <1>2, <1>7 DEF Step
  <2>2. \A j \in 1..(i - 1) : drafts[j] # other
    BY <1>0, <1>5, <2>1
  <2>3. \A j \in 1..i : drafts[j] # other
    <3>1. drafts[i] # other
      BY <1>0
    <3>2. \A j \in 1..i : j = i \/ j \in 1..(i - 1)
      BY DEF OfModes
    <3> HIDE DEF other
    <3> QED
      BY <2>2, <3>1, <3>2
  <2>4. ASSUME Unseen(drafts, i, other) > 0
        PROVE  Cardinality(taken) < MaxValidations
    <3>1. Cardinality(sofar) < MaxValidations
      BY <1>0, <1>2, <1>5, <2>1, <2>4
    <3>2. CASE HasRoom(drafts, sofar, i)
      <4>1. Cardinality(sofar) + 1 < MaxValidations
        BY <1>1, <1>2, <1>3, <1>4, <2>1, <2>4, <3>2
      <4> QED
        BY <1>2, <3>2, <4>1 DEF Step
    <3>3. CASE ~HasRoom(drafts, sofar, i)
      BY <3>1, <3>3 DEF Step
    <3> QED
      BY <3>2, <3>3
  <2> QED
    BY <2>3, <2>4
<1> HIDE DEF mode, other, taken
<1>8. ASSUME NEW m \in ExpressionModes, Spent(drafts, taken, m) = 0
      PROVE  /\ \A j \in 1..i : drafts[j] # m
             /\ Unseen(drafts, i, m) > 0 => Cardinality(taken) < MaxValidations
  <2>1. m = other
    BY <1>0, <1>6, <1>8
  <2> QED
    BY <1>7, <1>8, <2>1
<1> QED
  BY <1>8 DEF Waiting, taken

(* Both hold all along the list.                                           *)
LEMMA SharedAlong ==
    ASSUME NEW drafts, OfModes(drafts)
    PROVE  \A i \in 0..Len(drafts) : Shared(drafts, TakenOf(drafts)[i], i)
<1> DEFINE S == {i \in Nat : i <= Len(drafts) => Shared(drafts, TakenOf(drafts)[i], i)}
<1>0. Len(drafts) \in Nat
  BY DEF OfModes
<1>1. 0 \in S
  <2>1. TakenOf(drafts)[0] = {}
    BY <1>0, TakenSteps
  <2>2. {} = 1..0 /\ Cardinality({}) = 0 /\ MaxValidations \in Nat
    BY FS_EmptySet, BudgetAssumption
  <2>3. Filling(drafts, {}, 0)
    BY <2>2 DEF Filling
  <2>4. Waiting(drafts, {}, 0)
    BY <2>2, BudgetAssumption DEF Waiting
  <2>5. Shared(drafts, {}, 0)
    BY <2>2, <2>3, <2>4 DEF Shared
  <2> QED
    BY <2>1, <2>5
<1>2. ASSUME NEW i \in S
      PROVE  i + 1 \in S
  <2>1. CASE i + 1 <= Len(drafts)
    <3> DEFINE sofar == TakenOf(drafts)[i]
               taken == TakenOf(drafts)[i + 1]
    <3>1. i + 1 \in 1..Len(drafts) /\ (i + 1) - 1 = i /\ i \in Nat
      BY <1>0, <2>1
    <3>2. Shared(drafts, sofar, i)
      BY <1>0, <2>1
    <3>3. taken = Step(drafts, sofar, i + 1)
      BY <1>0, <3>1, TakenSteps
    <3> HIDE DEF sofar, taken
    <3>4. Filling(drafts, taken, i + 1) /\ Waiting(drafts, taken, i + 1)
      BY <3>1, <3>2, <3>3, FillingStep, WaitingStep
    <3>5. taken \subseteq 1..(i + 1)
      <4>1. sofar \subseteq 1..i
        BY <3>2 DEF Shared
      <4> QED
        BY <3>1, <3>3, <4>1 DEF Step
    <3>6. Cardinality(taken) <= MaxValidations
      <4>1. sofar \in SUBSET (1..i) /\ Cardinality(sofar) <= MaxValidations
        BY <3>2 DEF Shared
      <4>2. CASE HasRoom(drafts, sofar, i + 1)
        <5>1. Cardinality(sofar) < MaxValidations
          BY <4>2 DEF HasRoom
        <5>2. Cardinality(sofar \cup {i + 1}) = Cardinality(sofar) + 1
          BY <3>1, <4>1, OneMore
        <5>3. Cardinality(sofar) \in Nat
          <6>1. IsFiniteSet(1..i)
            BY <3>1, FS_Interval
          <6> QED
            BY <4>1, <6>1, FS_Subset, FS_CardinalityType
        <5> QED
          BY <3>3, <4>2, <5>1, <5>2, <5>3, BudgetAssumption DEF Step
      <4>3. CASE ~HasRoom(drafts, sofar, i + 1)
        BY <3>3, <4>1, <4>3 DEF Step
      <4> QED
        BY <4>2, <4>3
    <3>7. Shared(drafts, taken, i + 1)
      BY <3>4, <3>5, <3>6 DEF Shared
    <3> QED
      BY <3>1, <3>7 DEF taken
  <2>2. CASE ~(i + 1 <= Len(drafts))
    BY <2>2
  <2> QED
    BY <2>1, <2>2
<1>3. S = Nat
  <2>1. S \in SUBSET Nat
    OBVIOUS
  <2> HIDE DEF S
  <2> QED
    BY <1>1, <1>2, <2>1, AllNumbers
<1> QED
  BY <1>0, <1>3

(* "neither mode may starve the other" and "a page whose drafts fit in the  *)
(* budget is unaffected" (budgeted, suggest.ts:1412): for every list of    *)
(* drafts the budget is spent to the last, and on both modes.              *)
THEOREM BudgetReachesBothModes ==
    ASSUME NEW drafts \in Seq(ExpressionModes)
    PROVE  /\ Budgeted(drafts) \subseteq DOMAIN drafts
           /\ Cardinality(Budgeted(drafts)) = Smaller(Len(drafts), MaxValidations)
           /\ \A j \in DOMAIN drafts : \E i \in Budgeted(drafts) : drafts[i] = drafts[j]
<1> DEFINE n == Len(drafts)
           taken == Budgeted(drafts)
<1>1. OfModes(drafts) /\ n \in Nat
  BY DEF OfModes
<1>2. Shared(drafts, taken, n)
  BY <1>1, SharedAlong DEF Budgeted
<1>3. taken \in SUBSET (1..n) /\ Cardinality(taken) <= MaxValidations
  BY <1>2 DEF Shared
<1>4. IsFiniteSet(1..n) /\ Cardinality(1..n) = n
  BY <1>1, FS_Interval
<1>5. Cardinality(taken) \in Nat /\ Cardinality(taken) <= n
  BY <1>1, <1>3, <1>4, FS_Subset, TwoModes, FS_CardinalityType
<1>6. \A mode : Unseen(drafts, n, mode) = 0
  <2>1. \A mode : {j \in DOMAIN drafts : j > n /\ drafts[j] = mode} = {}
    BY <1>1 DEF OfModes
  <2> QED
    BY <2>1, FS_EmptySet DEF Unseen
<1> HIDE DEF taken, n
<1>7. Cardinality(taken) = n \/ Cardinality(taken) = MaxValidations
  <2>1. CASE taken = 1..n
    BY <1>4, <2>1
  <2>2. CASE \E mode \in ExpressionModes : Cardinality(taken) + Unseen(drafts, n, OtherMode(mode)) >= MaxValidations
    BY <1>3, <1>5, <1>6, <2>2, BudgetAssumption
  <2> QED
    BY <1>2, <2>1, <2>2 DEF Shared, Filling
<1>8. Cardinality(taken) = Smaller(n, MaxValidations)
  BY <1>1, <1>3, <1>5, <1>7, BudgetAssumption DEF Smaller
<1>9. ASSUME NEW j \in 1..n
      PROVE  \E i \in taken : drafts[i] = drafts[j]
  <2>1. drafts[j] \in ExpressionModes
    BY <1>9, <1>1 DEF OfModes, n
  <2>2. Spent(drafts, taken, drafts[j]) # 0
    BY <1>2, <2>1 DEF Shared, Waiting
  <2>3. {i \in taken : drafts[i] = drafts[j]} # {}
    BY <2>2, FS_EmptySet DEF Spent
  <2> QED
    BY <2>3
<1> QED
  BY <1>3, <1>8, <1>9, <1>1 DEF taken, n, OfModes
=============================================================================
