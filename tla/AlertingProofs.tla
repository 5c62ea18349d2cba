-------------------------- MODULE AlertingProofs --------------------------
(***************************************************************************)
(* Theorems about Alerting, for every number of listings and handlers, any *)
(* prices, settings and accounts.                                          *)
(*                                                                         *)
(* The alarm properties rest on AlarmInv: a listing is in the hands of one *)
(* handler (Exclusive), so the flag and the run it goes by are those of    *)
(* the listing until it is done (FlagKnown, RunsKnown).  The dedupe        *)
(* property rests on StillNews: what a handler found to be news is news    *)
(* when it sends it, which needs checks of a product that do not overlap,  *)
(* because the memory belongs to the product.                              *)
(***************************************************************************)
EXTENDS Alerting, FiniteSetTheorems, NaturalsInduction, TLAPS

(* inFlight: a listing is in the hands of one handler at most.             *)
Exclusive ==
    \A g, h \in Handlers : cur[g] # None /\ cur[g] = cur[h] => g = h

(* The flag a handler loaded is the flag of its listing as long as it      *)
(* works on it; it goes on to the alarm only where the flag was not set.   *)
FlagKnown ==
    \A h \in Handlers :
        /\ cur[h] # None => (snap[h].broken <=> cur[h] \in broken)
        /\ pc[h] \in {"alarm", "mark"} => result[h].status = "failed" /\ ~snap[h].broken

(* What it recorded is the newest of the listing's runs, and the streak it *)
(* counted is still there.                                                 *)
RunsKnown ==
    \A h \in Handlers :
        /\ result[h] # None =>
              runs[cur[h]] # <<>> /\ runs[cur[h]][1] = result[h].status
        /\ pc[h] \in {"alarm", "mark"} =>
              Failures(cur[h], via[h].threshold) >= via[h].threshold

(* The price it is to evaluate is there.                                   *)
SampleKnown ==
    \A h \in Handlers :
        /\ pc[h] = "samples" => result[h].written
        /\ result[h] # None /\ result[h].written => points[cur[h]] # <<>>

AlarmInv == Exclusive /\ FlagKnown /\ RunsKnown
IInv == TypeOK /\ AlarmInv /\ SampleKnown

-----------------------------------------------------------------------------
(* The first n of a history, and of one that x was just put in front of.   *)
LEMMA TakeBounds ==
    ASSUME NEW S, NEW s \in Seq(S), NEW n \in Nat
    PROVE  /\ Take(s, n) \in Seq(S)
           /\ Len(Take(s, n)) <= n
<1> DEFINE k == IF Len(s) < n THEN Len(s) ELSE n
<1>1. k \in 0..Len(s) /\ k <= n
  OBVIOUS
<1>2. Take(s, n) = SubSeq(s, 1, k)
  BY DEF Take
<1> HIDE DEF k
<1>3. SubSeq(s, 1, k) \in Seq(S) /\ Len(SubSeq(s, 1, k)) = k
  BY <1>1
<1> QED
  BY <1>1, <1>2, <1>3

LEMMA TakeFirst ==
    ASSUME NEW S, NEW s \in Seq(S), NEW x \in S, NEW n \in Nat \ {0}
    PROVE  /\ Take(<<x>> \o s, n) # <<>>
           /\ Take(<<x>> \o s, n)[1] = x
<1> DEFINE w == <<x>> \o s
           k == IF Len(w) < n THEN Len(w) ELSE n
<1>1. /\ w \in Seq(S) /\ Len(w) = Len(s) + 1 /\ Len(s) \in Nat
      /\ w[1] = x
  OBVIOUS
<1>2. k \in 1..Len(w)
  BY <1>1
<1>3. Take(w, n) = SubSeq(w, 1, k)
  BY DEF Take
<1> HIDE DEF w, k
<1>4. SubSeq(w, 1, k) # <<>> /\ SubSeq(w, 1, k)[1] = w[1]
  BY <1>1, <1>2
<1>5. Take(w, n) # <<>> /\ Take(w, n)[1] = x
  BY <1>1, <1>3, <1>4
<1> QED
  BY <1>5 DEF w

(* No more failures lead n runs than there are, and none if the first is   *)
(* ok.                                                                     *)
LEMMA LeadingBounds ==
    ASSUME NEW S, NEW s \in Seq(S), NEW n \in Nat
    PROVE  /\ LeadingFailures(Take(s, n)) \in Nat
           /\ LeadingFailures(Take(s, n)) <= n
           /\ s # <<>> /\ s[1] = "ok" => LeadingFailures(s) = 0
<1> DEFINE t == Take(s, n)
           L == {i \in DOMAIN t : \A j \in 1..i : t[j] # "ok"}
<1>1. DOMAIN t \subseteq 1..n
  BY DEF Take
<1>2. L \in SUBSET (1..n)
  BY <1>1
<1>3. IsFiniteSet(1..n) /\ Cardinality(1..n) = n
  BY FS_Interval
<1>4. IsFiniteSet(L) /\ Cardinality(L) <= n /\ Cardinality(L) \in Nat
  BY <1>2, <1>3, FS_Subset, FS_CardinalityType
<1>5. LeadingFailures(t) = Cardinality(L)
  BY DEF LeadingFailures
<1>6. ASSUME s # <<>>, s[1] = "ok"
      PROVE  LeadingFailures(s) = 0
  <2>1. {i \in DOMAIN s : \A j \in 1..i : s[j] # "ok"} = {}
    BY <1>6
  <2> QED
    BY <2>1, FS_EmptySet DEF LeadingFailures
<1> QED
  BY <1>4, <1>5, <1>6

(* Rules in order are those of the set, each once.                         *)
LEMMA RulesInOrder ==
    ASSUME NEW S \in SUBSET Rules
    PROVE  /\ InRuleOrder(S) \in Seq(S)
           /\ \A i, j \in DOMAIN InRuleOrder(S) :
                 InRuleOrder(S)[i] = InRuleOrder(S)[j] => i = j
<1> DEFINE Kept(r) == IF r \in S THEN <<r>> ELSE <<>>
           t == Kept("target")
           d == Kept("drop_percent")
           k == Kept("restock")
           w == t \o d \o k
<1>1. /\ t \in Seq(S) /\ Len(t) \in {0, 1} /\ \A i \in 1..Len(t) : t[i] = "target"
      /\ d \in Seq(S) /\ Len(d) \in {0, 1} /\ \A i \in 1..Len(d) : d[i] = "drop_percent"
      /\ k \in Seq(S) /\ Len(k) \in {0, 1} /\ \A i \in 1..Len(k) : k[i] = "restock"
  OBVIOUS
<1>2. InRuleOrder(S) = w
  BY DEF InRuleOrder
<1> HIDE DEF t, d, k
<1>3. /\ w \in Seq(S)
      /\ Len(w) = Len(t) + Len(d) + Len(k)
      /\ \A i \in 1..Len(w) :
            w[i] = IF i <= Len(t) THEN "target"
                   ELSE IF i <= Len(t) + Len(d) THEN "drop_percent" ELSE "restock"
  BY <1>1
<1>4. \A i, j \in DOMAIN w : w[i] = w[j] => i = j
  <2> HIDE DEF w
  <2> SUFFICES ASSUME NEW i \in 1..Len(w), NEW j \in 1..Len(w), w[i] = w[j]
               PROVE  i = j
    BY <1>3
  <2> QED
    BY <1>1, <1>3
<1> QED
  BY <1>2, <1>3, <1>4

(* There is a least price among those of any observations.                 *)
LEMMA LeastPrice ==
    ASSUME NEW S \in SUBSET Observations
    PROVE  CheapestRow(S) \in S \cup {None}
<1>1. CASE S = {}
  BY <1>1 DEF CheapestRow
<1>2. CASE S # {}
  <2> DEFINE T == {r.price : r \in S}
  <2>1. T \subseteq Nat /\ T # {}
    BY <1>2, AlertingAssumption
  <2> DEFINE Less == {ss \in Nat \X Nat : ss[1] < ss[2]}
  <2>7. IsWellFoundedOn(Less, Nat)
    <3>1. Less = OpToRel(<, Nat)
      BY Zenon DEF OpToRel
    <3> QED
      BY <3>1, NatLessThanWellFounded, Zenon
  <2>2. PICK m \in T : \A y \in T : ~(<<y, m>> \in Less)
    <3> HIDE DEF Less, T
    <3> QED
      BY <2>1, <2>7, WFMin
  <2>3. ASSUME NEW y \in T
        PROVE  m <= y
    <3>1. y \in Nat /\ m \in Nat
      BY <2>1
    <3>2. y < m => <<y, m>> \in Less
      <4> HIDE DEF T
      <4> QED
        BY <3>1
    <3>3. ~(y < m)
      BY <2>2, <3>2
    <3> QED
      BY <3>1, <3>3
  <2>4. PICK r \in S : r.price = m
    OBVIOUS
  <2>5. \A s \in S : r.price <= s.price
    BY <2>3, <2>4
  <2>6. CheapestRow(S) = CHOOSE q \in S : \A s \in S : q.price <= s.price
    BY <1>2 DEF CheapestRow
  <2> QED
    BY <2>4, <2>5, <2>6
<1> QED
  BY <1>1, <1>2

-----------------------------------------------------------------------------
(* Typing, one group of variables after the other.                         *)

LEMMA OfferedTypes ==
    ASSUME NEW s \in SettingsRow
    PROVE  [threshold |-> s.failureThreshold, channels |-> Offered(s)] \in Route
BY DEF SettingsRow, Route, Offered

LEMMA SeedTypes ==
    ASSUME SettingsTypes
    PROVE  Seeded \in SettingsRow /\ Seeded # None
<1>1. SeedRow \in SettingsRow
  BY DeliveryAssumption DEF SeedRow, SettingsRow, Columns, Needs, Instance
<1> QED
  BY <1>1, AlertingAssumption DEF SettingsTypes, Seeded

LEMMA PatchTypes ==
    ASSUME NEW s \in SettingsRow, NEW p \in SettingsPatch
    PROVE  Patched(s, p) \in SettingsRow
BY DEF Patched, SettingsRow, SettingsPatch

LEMMA SettingsTypesStep ==
    ASSUME TypeOK, Next
    PROVE  SettingsTypes'
<1> USE DEF TypeOK, SettingsTypes
<1>1. CASE UNCHANGED settingsVars
  BY <1>1 DEF settingsVars
<1>2. ASSUME NEW h \in Handlers, SeedSettings(h)
      PROVE  SettingsTypes'
  BY <1>2, SeedTypes DEF SeedSettings
<1>3. ASSUME NEW p \in Patches, RequestSettings(p)
      PROVE  SettingsTypes'
  <2>1. saving' \in Request
    BY <1>3, AlertingAssumption DEF RequestSettings, Request
  <2> QED
    BY <1>3, <2>1 DEF RequestSettings
<1>4. CASE SeedForRequest
  <2>1. saving' \in Request
    BY <1>4 DEF SeedForRequest, Request
  <2> QED
    BY <1>4, <2>1, SeedTypes DEF SeedForRequest
<1>5. CASE SaveSettings
  <2>1. Patched(settings, saving.patch) \in SettingsRow
    BY <1>5, PatchTypes DEF SaveSettings, Request
  <2> QED
    BY <1>5, <2>1 DEF SaveSettings
<1>6. ASSUME NEW w \in BOOLEAN, UpdateEmailPrefs(w)
      PROVE  SettingsTypes'
  BY <1>6 DEF UpdateEmailPrefs, Owner
<1>7. CASE \/ \E h \in Handlers : (\E l \in Listings : LoadCheckable(h, l))
           \/ \E h \in Handlers : HandlerStep(h) /\ ~SeedSettings(h)
           \/ \E h \in Handlers : AlertingFails(h)
           \/ Crash
           \/ \E c \in Configs : EditProduct(c)
           \/ \E l \in Listings, a \in BOOLEAN : EditListing(l, a)
           \/ \E r \in Rules : CooldownPasses(r)
  <2>1. UNCHANGED settingsVars
    BY <1>7
    DEF LoadCheckable, HandlerStep, RecordPrice, RecordUnchanged, RecordFailure,
        Committed, RecordStale, ReadSettings, OpenAlerting, AlertingOff,
        ReadSamples, EvaluateRules, SendAlert, SendAlarm, RememberAlert, Recover,
        CountFailures, MarkBroken, AlertingFails, Crash, EditProduct, EditListing,
        CooldownPasses
  <2> QED
    BY <1>1, <2>1
<1> QED
  BY <1>2, <1>3, <1>4, <1>5, <1>6, <1>7 DEF Next, Edit

(* What a step of a handler's may do to the rows of the product.           *)
LEMMA RowTypesStep ==
    ASSUME IInv, Next
    PROVE  RowTypes'
<1> USE DEF IInv, TypeOK, RowTypes
<1>1. CASE UNCHANGED <<productVars, historyVars, alertVars>>
  BY <1>1 DEF productVars, historyVars, alertVars
<1>2. MaxThreshold \in Nat \ {0}
  BY AlertingAssumption, DeliveryAssumption
<1>3. ASSUME NEW l \in Listings, NEW status \in {"ok", "failed"}, LogRun(l, status)
      PROVE  /\ runs' \in [Listings -> Seq({"ok", "failed"})]
             /\ \A k \in Listings : Len(runs'[k]) <= MaxThreshold
  <2>1. /\ Take(<<status>> \o runs[l], MaxThreshold) \in Seq({"ok", "failed"})
        /\ Len(Take(<<status>> \o runs[l], MaxThreshold)) <= MaxThreshold
    <3>1. <<status>> \o runs[l] \in Seq({"ok", "failed"})
      OBVIOUS
    <3> QED
      BY <1>2, <3>1, TakeBounds
  <2> QED
    BY <1>3, <2>1 DEF LogRun
<1>4. ASSUME NEW h \in Handlers, NEW o \in Observations, RecordPrice(h, o)
      PROVE  RowTypes'
  <2>1. cur[h] \in Listings /\ snap[h] \in Snapshot /\ o.currency \in Currencies
    BY <1>4, AlertingAssumption DEF RecordPrice, Committed, HandlerTypes, Whole
  <2>2. /\ runs' \in [Listings -> Seq({"ok", "failed"})]
        /\ \A k \in Listings : Len(runs'[k]) <= MaxThreshold
    BY <1>3, <1>4, <2>1 DEF RecordPrice, Committed
  <2>3. /\ Take(<<o>> \o points[cur[h]], 2) \in Seq(Observations)
        /\ Len(Take(<<o>> \o points[cur[h]], 2)) <= 2
    <3>1. <<o>> \o points[cur[h]] \in Seq(Observations) /\ 2 \in Nat
      BY <2>1
    <3> QED
      BY <3>1, TakeBounds
  <2>4. /\ points' \in [Listings -> Seq(Observations)]
        /\ \A k \in Listings : Len(points'[k]) <= 2
    BY <1>4, <2>1, <2>3 DEF RecordPrice
  <2>5. newestIn' \in [Listings -> [Currencies -> Observations \cup {None}]]
    BY <1>4, <2>1 DEF RecordPrice
  <2>6. denomination' \in Currencies \cup {None}
    BY <1>4, <2>1 DEF RecordPrice
  <2> QED
    BY <1>4, <2>2, <2>4, <2>5, <2>6 DEF RecordPrice, Committed, alertVars
<1>5. ASSUME NEW h \in Handlers,
             \/ RecordUnchanged(h) \/ RecordFailure(h)
             \/ \E status \in {"ok", "failed"} : RecordStale(h, status)
      PROVE  RowTypes'
  <2>1. cur[h] \in Listings
    BY <1>5 DEF RecordUnchanged, RecordFailure, Committed, RecordStale, HandlerTypes, Whole
  <2>2. /\ runs' \in [Listings -> Seq({"ok", "failed"})]
        /\ \A k \in Listings : Len(runs'[k]) <= MaxThreshold
    BY <1>3, <1>5, <2>1 DEF RecordUnchanged, RecordFailure, Committed, RecordStale
  <2> QED
    BY <1>5, <2>2
    DEF RecordUnchanged, RecordFailure, Committed, RecordStale, productVars, alertVars
<1>6. ASSUME NEW h \in Handlers, RememberAlert(h)
      PROVE  RowTypes'
  <2>1. pending[h][1] \in Trigger
    BY <1>6 DEF RememberAlert, HandlerTypes, Whole
  <2>2. /\ pending[h][1].rule \in Rules
        /\ [price |-> pending[h][1].price, cooling |-> TRUE] \in Memory
    BY <2>1 DEF Trigger, Memory
  <2>3. memory' \in [Rules -> Memory \cup {None}]
    BY <1>6, <2>2 DEF RememberAlert
  <2> QED
    BY <1>6, <2>3 DEF RememberAlert, productVars, historyVars
<1>7. ASSUME NEW h \in Handlers, AlertingOff(h) \/ Recover(h) \/ MarkBroken(h)
      PROVE  RowTypes'
  <2>1. cur[h] \in Listings
    BY <1>7 DEF AlertingOff, Recover, MarkBroken, HandlerTypes, Whole
  <2> QED
    BY <1>7, <2>1
    DEF AlertingOff, Recover, MarkBroken, ClearedBy, productVars, historyVars
<1>8. ASSUME NEW r \in Rules, CooldownPasses(r)
      PROVE  RowTypes'
  <2>1. memory' \in [Rules -> Memory \cup {None}]
    BY <1>8 DEF CooldownPasses, Memory
  <2> QED
    BY <1>8, <2>1 DEF CooldownPasses, productVars, historyVars
<1>9. CASE Edit
  BY <1>9
  DEF Edit, EditProduct, EditListing, RequestSettings, SeedForRequest,
      SaveSettings, UpdateEmailPrefs, productVars, historyVars, alertVars
<1>10. CASE \/ \E h \in Handlers : \E l \in Listings : LoadCheckable(h, l)
            \/ \E h \in Handlers : AlertingFails(h)
            \/ Crash
  BY <1>1, <1>10 DEF LoadCheckable, AlertingFails, Crash
<1>11. ASSUME NEW h \in Handlers, HandlerStep(h)
       PROVE  RowTypes'
  BY <1>1, <1>4, <1>5, <1>6, <1>7, <1>11
  DEF HandlerStep, ReadSettings, SeedSettings, OpenAlerting, ReadSamples,
      EvaluateRules, SendAlert, SendAlarm, CountFailures
<1> QED
  BY <1>8, <1>9, <1>10, <1>11 DEF Next

(* A handler that is done has nothing left, and the others what they had.  *)
LEMMA FinishTypes ==
    ASSUME HandlerTypes, NEW h \in Handlers, Finish(h)
    PROVE  HandlerTypes'
<1>1. /\ pc' \in [Handlers -> {"idle", "fetch", "open", "seed", "targets", "samples",
                               "evaluate", "send", "remember", "failure", "alarm", "mark"}]
      /\ cur' \in [Handlers -> Listings \cup {None}]
      /\ snap' \in [Handlers -> Snapshot \cup {None}]
      /\ moved' \subseteq Handlers
      /\ via' \in [Handlers -> Route \cup {None}]
      /\ result' \in [Handlers -> Outcome \cup {None}]
      /\ seen' \in [Handlers -> Sight \cup {None}]
      /\ pending' \in [Handlers -> Seq(Trigger)]
  BY DEF HandlerTypes, Finish, Goto
<1>2. /\ pc'[h] = "idle" /\ cur'[h] = None /\ snap'[h] = None /\ via'[h] = None
      /\ result'[h] = None /\ seen'[h] = None /\ pending'[h] = <<>>
      /\ \A g \in Handlers \ {h} :
            /\ pc'[g] = pc[g] /\ cur'[g] = cur[g] /\ snap'[g] = snap[g]
            /\ via'[g] = via[g] /\ result'[g] = result[g] /\ seen'[g] = seen[g]
            /\ pending'[g] = pending[g]
  BY DEF HandlerTypes, Finish, Goto
<1>3. ASSUME NEW g \in Handlers
      PROVE  Whole(g)'
  <2>1. Whole(g)
    BY DEF HandlerTypes
  <2>2. CASE g = h
    BY <1>2, <2>2 DEF Whole
  <2>3. CASE g # h
    BY <1>2, <2>1, <2>3 DEF Whole
  <2> QED
    BY <2>2, <2>3
<1> QED
  BY <1>1, <1>3 DEF HandlerTypes

(* What the rules find worth an alert: triggers, one to a rule, and news.  *)
LEMMA TriggerTypes ==
    ASSUME NEW c \in Configs, NEW s \in Sight,
           NEW m \in [Rules -> Memory \cup {None}]
    PROVE  LET news == Triggers(c, s.latest, s.previous, s.cheapest, m)
           IN  /\ news \in Seq(Trigger)
               /\ \A i, j \in DOMAIN news : news[i].rule = news[j].rule => i = j
               /\ \A i \in DOMAIN news : ShouldFire(news[i].price, m[news[i].rule])
<1> DEFINE Price(r) == Subject(r, s.latest, s.cheapest).price
           M == ConditionsMet(c, s.latest, s.previous, s.cheapest)
           N == {r \in M : ShouldFire(Price(r), m[r])}
           w == InRuleOrder(N)
           news == Triggers(c, s.latest, s.previous, s.cheapest, m)
<1>1. c.rules \subseteq Rules
  BY AlertingAssumption
<1>2. ASSUME NEW r \in M
      PROVE  r \in Rules /\ Price(r) \in Nat
  <2>1. r = "target" => s.cheapest # None
    BY DEF ConditionsMet, RuleMet, TargetMet
  <2>2. Subject(r, s.latest, s.cheapest) \in Observations
    BY <2>1 DEF Subject, Sight
  <2>3. Price(r) \in Nat
    BY <2>2, AlertingAssumption
  <2> QED
    BY <1>1, <2>3 DEF ConditionsMet
<1>3. N \in SUBSET Rules
  BY <1>2
<1>4. /\ w \in Seq(N)
      /\ \A i, j \in DOMAIN w : w[i] = w[j] => i = j
  BY <1>3, RulesInOrder
<1>5. news = [i \in DOMAIN w |-> [rule |-> w[i], price |-> Price(w[i])]]
  BY DEF Triggers
<1>6. \A i \in DOMAIN w : w[i] \in N
  BY <1>4
<1> HIDE DEF w, N, news
<1>7. ASSUME NEW i \in DOMAIN w
      PROVE  /\ news[i] \in Trigger
             /\ news[i].rule = w[i]
             /\ ShouldFire(news[i].price, m[news[i].rule])
  <2>1. w[i] \in M /\ ShouldFire(Price(w[i]), m[w[i]])
    BY <1>6 DEF N
  <2>2. news[i] = [rule |-> w[i], price |-> Price(w[i])]
    BY <1>5
  <2>3. w[i] \in Rules /\ Price(w[i]) \in Nat
    BY <1>2, <2>1
  <2> QED
    BY <2>1, <2>2, <2>3 DEF Trigger
<1>8. DOMAIN news = DOMAIN w /\ DOMAIN w = 1..Len(w) /\ Len(w) \in Nat
  BY <1>4, <1>5
<1>9. news \in [1..Len(w) -> Trigger]
  BY <1>5, <1>7, <1>8
<1>10. news \in Seq(Trigger)
  BY <1>8, <1>9
<1>11. \A i, j \in DOMAIN news : news[i].rule = news[j].rule => i = j
  BY <1>4, <1>7, <1>8
<1>12. \A i \in DOMAIN news : ShouldFire(news[i].price, m[news[i].rule])
  BY <1>7, <1>8
<1> QED
  BY <1>10, <1>11, <1>12 DEF news

LEMMA CurrentTypes ==
    ASSUME RowTypes, NEW d \in Currencies \cup {None}
    PROVE  Current(d) \in SUBSET Observations
<1>1. \A l \in Listings : Latest(l) \in Observations \cup {None}
  BY DEF RowTypes, Latest
<1>2. ASSUME NEW l \in Listings
      PROVE  (IF d = None THEN Latest(l) ELSE newestIn[l][d]) \in Observations \cup {None}
  BY <1>1 DEF RowTypes
<1> QED
  BY <1>2 DEF Current

(* A step that takes one handler on, where the others keep what they have. *)
LEMMA OthersWhole ==
    ASSUME HandlerTypes, NEW h \in Handlers, Whole(h)',
           pc' \in [Handlers -> {"idle", "fetch", "open", "seed", "targets", "samples",
                                "evaluate", "send", "remember", "failure", "alarm", "mark"}],
           cur' \in [Handlers -> Listings \cup {None}],
           snap' \in [Handlers -> Snapshot \cup {None}],
           moved' \subseteq Handlers,
           via' \in [Handlers -> Route \cup {None}],
           result' \in [Handlers -> Outcome \cup {None}],
           seen' \in [Handlers -> Sight \cup {None}],
           pending' \in [Handlers -> Seq(Trigger)],
           \A g \in Handlers \ {h} :
              /\ pc'[g] = pc[g] /\ cur'[g] = cur[g] /\ snap'[g] = snap[g]
              /\ via'[g] = via[g] /\ result'[g] = result[g] /\ seen'[g] = seen[g]
              /\ pending'[g] = pending[g]
    PROVE  HandlerTypes'
<1>1. ASSUME NEW g \in Handlers, g # h
      PROVE  Whole(g)'
  <2>1. Whole(g)
    BY DEF HandlerTypes
  <2>2. /\ pc'[g] = pc[g] /\ cur'[g] = cur[g] /\ snap'[g] = snap[g]
        /\ via'[g] = via[g] /\ result'[g] = result[g] /\ seen'[g] = seen[g]
        /\ pending'[g] = pending[g]
    BY <1>1
  <2> QED
    BY <2>1, <2>2 DEF Whole
<1> QED
  BY <1>1 DEF HandlerTypes

LEMMA HandlerTypesStep ==
    ASSUME IInv, Next
    PROVE  HandlerTypes'
<1> USE DEF IInv, TypeOK
<1>1. ASSUME NEW h \in Handlers, Finish(h)
      PROVE  HandlerTypes'
  BY <1>1, FinishTypes
<1>2. ASSUME NEW h \in Handlers, NEW l \in Listings, LoadCheckable(h, l)
      PROVE  HandlerTypes'
  <2>1. [broken |-> l \in broken, config |-> config, denomination |-> denomination]
          \in Snapshot
    BY DEF RowTypes, Snapshot
  <2>2. /\ pc' = [pc EXCEPT ![h] = "fetch"] /\ pc[h] = "idle"
        /\ cur' = [cur EXCEPT ![h] = l]
        /\ snap' = [snap EXCEPT ![h] = [broken |-> l \in broken, config |-> config,
                                       denomination |-> denomination]]
        /\ UNCHANGED <<moved, via, result, seen, pending>>
    BY <1>2 DEF LoadCheckable, Goto
  <2>3. Whole(h) /\ None \notin Snapshot /\ None \notin Listings
    BY AlertingAssumption DEF HandlerTypes
  <2>4. Whole(h)'
    BY <2>1, <2>2, <2>3 DEF HandlerTypes, Whole
  <2> QED
    BY <2>1, <2>2, <2>4, OthersWhole DEF HandlerTypes
<1>3. ASSUME NEW h \in Handlers, NEW status \in {"ok", "failed"}, NEW w \in BOOLEAN,
             Committed(h, status, w)
      PROVE  HandlerTypes'
  <2>1. [status |-> status, written |-> w] \in Outcome
    BY DEF Outcome
  <2>2. /\ pc' = [pc EXCEPT ![h] = "open"] /\ pc[h] = "fetch"
        /\ result' = [result EXCEPT ![h] = [status |-> status, written |-> w]]
        /\ UNCHANGED <<cur, snap, moved, via, seen, pending>>
    BY <1>3 DEF Committed, Goto
  <2>3. Whole(h) /\ None \notin Outcome
    BY AlertingAssumption DEF HandlerTypes
  <2>4. Whole(h)'
    BY <2>1, <2>2, <2>3 DEF HandlerTypes, Whole
  <2> QED
    BY <2>1, <2>2, <2>4, OthersWhole DEF HandlerTypes
<1>4. ASSUME NEW h \in Handlers, ReadSettings(h)
      PROVE  HandlerTypes'
  <2>1. CASE settings = None
    <3>1. /\ pc' = [pc EXCEPT ![h] = "seed"] /\ pc[h] = "open"
          /\ UNCHANGED <<cur, snap, moved, via, result, seen, pending>>
      BY <1>4, <2>1 DEF ReadSettings, Goto
    <3>2. Whole(h)'
      BY <3>1 DEF HandlerTypes, Whole
    <3> QED
      BY <3>1, <3>2, OthersWhole DEF HandlerTypes
  <2>2. CASE settings # None
    <3> DEFINE route == [threshold |-> settings.failureThreshold,
                         channels |-> Offered(settings)]
    <3>1. route \in Route
      BY <2>2, OfferedTypes DEF SettingsTypes
    <3> HIDE DEF route
    <3>2. /\ pc' = [pc EXCEPT ![h] = "targets"] /\ pc[h] = "open"
          /\ via' = [via EXCEPT ![h] = route]
          /\ UNCHANGED <<cur, snap, moved, result, seen, pending>>
      BY <1>4, <2>2 DEF ReadSettings, Goto, route
    <3>3. None \notin Route
      BY AlertingAssumption
    <3>4. Whole(h)'
      BY <3>1, <3>2, <3>3 DEF HandlerTypes, Whole
    <3> QED
      BY <3>1, <3>2, <3>4, OthersWhole DEF HandlerTypes
  <2> QED
    BY <2>1, <2>2
<1>5. ASSUME NEW h \in Handlers, SeedSettings(h)
      PROVE  HandlerTypes'
  <2>1. /\ pc' = [pc EXCEPT ![h] = "open"] /\ pc[h] = "seed"
        /\ UNCHANGED <<cur, snap, moved, via, result, seen, pending>>
    BY <1>5 DEF SeedSettings, Goto
  <2>2. Whole(h)'
    BY <2>1 DEF HandlerTypes, Whole
  <2> QED
    BY <2>1, <2>2, OthersWhole DEF HandlerTypes
<1>6. ASSUME NEW h \in Handlers, OpenAlerting(h)
      PROVE  HandlerTypes'
  <2>1. via[h] \in Route /\ pc[h] = "targets"
    BY <1>6 DEF OpenAlerting, HandlerTypes, Whole
  <2> DEFINE route == [via[h] EXCEPT !.channels = Targets(h)]
  <2>2. route \in Route /\ route.channels = Targets(h)
    BY <2>1 DEF Route, Targets
  <2> HIDE DEF route
  <2>3. /\ \E p \in {"samples", "failure"} : pc' = [pc EXCEPT ![h] = p]
        /\ via' = [via EXCEPT ![h] = route]
        /\ Targets(h) # {}
        /\ UNCHANGED <<cur, snap, moved, result, seen, pending>>
    BY <1>6 DEF OpenAlerting, Goto, route
  <2>4. None \notin Route
    BY AlertingAssumption
  <2>5. Whole(h)'
    BY <2>1, <2>2, <2>3, <2>4 DEF HandlerTypes, Whole
  <2> QED
    BY <2>2, <2>3, <2>5, OthersWhole DEF HandlerTypes
<1>7. ASSUME NEW h \in Handlers, ReadSamples(h)
      PROVE  HandlerTypes'
  <2> DEFINE sight == [latest |-> Latest(cur[h]), previous |-> Previous(cur[h]),
                       cheapest |-> CheapestRow(Current(snap[h].denomination))]
  <2>1. /\ cur[h] \in Listings /\ snap[h] \in Snapshot
        /\ points[cur[h]] # <<>> /\ pc[h] = "samples"
    BY <1>7 DEF ReadSamples, HandlerTypes, Whole, SampleKnown
  <2>2. Latest(cur[h]) \in Observations /\ Previous(cur[h]) \in Observations \cup {None}
    BY <2>1 DEF Latest, Previous, RowTypes
  <2>3. CheapestRow(Current(snap[h].denomination)) \in Observations \cup {None}
    BY <2>1, CurrentTypes, LeastPrice DEF Snapshot
  <2>4. sight \in Sight
    BY <2>2, <2>3 DEF Sight
  <2> HIDE DEF sight
  <2>5. /\ pc' = [pc EXCEPT ![h] = "evaluate"]
        /\ seen' = [seen EXCEPT ![h] = sight]
        /\ UNCHANGED <<cur, snap, moved, via, result, pending>>
    BY <1>7 DEF ReadSamples, Goto, sight
  <2>6. None \notin Sight
    BY AlertingAssumption
  <2>7. Whole(h)'
    BY <2>1, <2>4, <2>5, <2>6 DEF HandlerTypes, Whole
  <2> QED
    BY <2>4, <2>5, <2>7, OthersWhole DEF HandlerTypes
<1>8. ASSUME NEW h \in Handlers, EvaluateRules(h)
      PROVE  HandlerTypes'
  <2> DEFINE news == Triggers(snap[h].config, seen[h].latest, seen[h].previous,
                              seen[h].cheapest, memory)
  <2>1. pc[h] = "evaluate" /\ seen[h] \in Sight /\ snap[h].config \in Configs
    BY <1>8 DEF EvaluateRules, HandlerTypes, Whole, Snapshot
  <2>2. news \in Seq(Trigger)
    BY <2>1, TriggerTypes DEF RowTypes
  <2>3. /\ pc' = [pc EXCEPT ![h] = IF news = <<>> THEN "failure" ELSE "send"]
        /\ seen' = [seen EXCEPT ![h] = None]
        /\ pending' = [pending EXCEPT ![h] = news]
        /\ UNCHANGED <<cur, snap, moved, via, result>>
    BY <1>8 DEF EvaluateRules, Goto
  <2> HIDE DEF news
  <2>4. Whole(h)'
    BY <2>1, <2>2, <2>3 DEF HandlerTypes, Whole
  <2> QED
    BY <2>2, <2>3, <2>4, OthersWhole DEF HandlerTypes
<1>9. ASSUME NEW h \in Handlers, pc[h] \in {"send", "remember"}, NextTrigger(h),
             UNCHANGED <<cur, snap, moved, via, result, seen>>
      PROVE  HandlerTypes'
  <2> DEFINE s == pending[h]
  <2>1. s \in Seq(Trigger) /\ s # <<>>
    BY <1>9 DEF HandlerTypes, Whole
  <2>2. /\ pc' = [pc EXCEPT ![h] = IF Len(s) = 1 THEN "failure" ELSE "send"]
        /\ pending' = [pending EXCEPT ![h] = Tail(s)]
    BY <1>9 DEF NextTrigger, Goto
  <2> HIDE DEF s
  <2>3. Tail(s) \in Seq(Trigger) /\ (Tail(s) = <<>> <=> Len(s) = 1)
    <3>1. Len(s) \in Nat \ {0} /\ Tail(s) \in Seq(Trigger)
          /\ Len(Tail(s)) = Len(s) - 1
      BY <2>1
    <3>2. \A t \in Seq(Trigger) : t = <<>> <=> Len(t) = 0
      OBVIOUS
    <3>3. Tail(s) = <<>> <=> Len(Tail(s)) = 0
      BY <3>1, <3>2, Zenon
    <3> QED
      BY <3>1, <3>3
  <2>4. Whole(h)'
    BY <1>9, <2>2, <2>3 DEF HandlerTypes, Whole
  <2> QED
    BY <1>9, <2>2, <2>3, <2>4, OthersWhole DEF HandlerTypes
<1>10. ASSUME NEW h \in Handlers, pc[h] \in {"send", "failure", "alarm"},
              \/ pc[h] = "send" /\ Goto(h, "remember")
              \/ pc[h] = "failure" /\ Goto(h, "alarm")
              \/ pc[h] = "alarm" /\ Goto(h, "mark"),
              UNCHANGED <<cur, snap, moved, via, result, seen, pending>>
       PROVE  HandlerTypes'
  <2>1. Whole(h)'
    BY <1>10 DEF HandlerTypes, Whole, Goto
  <2> QED
    BY <1>10, <2>1, OthersWhole DEF HandlerTypes, Goto
<1>11. CASE UNCHANGED handlerVars
  BY <1>11 DEF HandlerTypes, Whole, handlerVars
<1>12. CASE Crash
  BY <1>12 DEF Crash, HandlerTypes, Whole
<1>13. ASSUME NEW l \in Listings, NEW a \in BOOLEAN, EditListing(l, a)
       PROVE  HandlerTypes'
  BY <1>13 DEF EditListing, HandlerTypes, Whole
<1>14. ASSUME NEW h \in Handlers, HandlerStep(h)
       PROVE  HandlerTypes'
  <2>1. CASE \/ \E o \in Observations : RecordPrice(h, o)
             \/ RecordUnchanged(h) \/ RecordFailure(h)
    BY <1>3, <2>1 DEF RecordPrice, RecordUnchanged, RecordFailure
  <2>2. CASE \/ \E status \in {"ok", "failed"} : RecordStale(h, status)
             \/ AlertingOff(h) \/ Recover(h) \/ MarkBroken(h)
    BY <1>1, <2>2 DEF RecordStale, AlertingOff, Recover, MarkBroken
  <2>3. CASE CountFailures(h) \/ \E answers : SendAlarm(h, answers)
    BY <1>1, <1>10, <2>3 DEF CountFailures, SendAlarm
  <2>4. CASE RememberAlert(h) \/ \E answers : SendAlert(h, answers)
    BY <1>9, <1>10, <2>4 DEF RememberAlert, SendAlert
  <2> QED
    BY <1>4, <1>5, <1>6, <1>7, <1>8, <1>14, <2>1, <2>2, <2>3, <2>4 DEF HandlerStep
<1>15. CASE (\E h \in Handlers : AlertingFails(h)) \/ Edit
            \/ \E r \in Rules : CooldownPasses(r)
  BY <1>1, <1>11, <1>13, <1>15
  DEF AlertingFails, CooldownPasses, Edit, EditProduct, RequestSettings,
      SeedForRequest, SaveSettings, UpdateEmailPrefs
<1> QED
  BY <1>2, <1>12, <1>14, <1>15 DEF Next

LEMMA CountersStep ==
    ASSUME TypeOK, Next
    PROVE  edits' \in 0..MaxEdits /\ faults' \in 0..MaxFaults
<1> USE DEF TypeOK
<1>1. edits' = edits \/ (edits < MaxEdits /\ edits' = edits + 1)
  BY DEF Next, LoadCheckable, HandlerStep, RecordPrice, RecordUnchanged, RecordFailure,
         Committed, RecordStale, ReadSettings, SeedSettings, OpenAlerting, AlertingOff,
         ReadSamples, EvaluateRules, SendAlert, SendAlarm, RememberAlert, Recover,
         CountFailures, MarkBroken, AlertingFails, Crash, Edit, EditProduct, EditListing,
         RequestSettings, SeedForRequest, SaveSettings, UpdateEmailPrefs,
         CooldownPasses, boundVars
<1>2. faults' = faults \/ (faults < MaxFaults /\ faults' = faults + 1)
  BY DEF Next, LoadCheckable, HandlerStep, RecordPrice, RecordUnchanged, RecordFailure,
         Committed, RecordStale, ReadSettings, SeedSettings, OpenAlerting, AlertingOff,
         ReadSamples, EvaluateRules, SendAlert, SendAlarm, RememberAlert, Recover,
         CountFailures, MarkBroken, AlertingFails, Crash, Edit, EditProduct, EditListing,
         RequestSettings, SeedForRequest, SaveSettings, UpdateEmailPrefs,
         CooldownPasses, boundVars
<1> QED
  BY <1>1, <1>2, AlertingAssumption

-----------------------------------------------------------------------------
(* What a step does to the flags and to what the handlers know of them.    *)

(* Nothing.                                                                *)
Quiet == UNCHANGED <<pc, cur, snap, via, result, broken, runs, points>>

(* Handler h goes on with its listing; to the alarm only over a streak.    *)
GoesOn(h) ==
    /\ pc[h] \notin {"idle", "fetch"} /\ pc'[h] \notin {"idle", "fetch"}
    /\ \A g \in Handlers \ {h} : pc'[g] = pc[g] /\ via'[g] = via[g]
    /\ pc'[h] \in {"alarm", "mark"} =>
          /\ via'[h] = via[h]
          /\ pc[h] \in {"alarm", "mark"}
             \/ /\ result[h].status = "failed" /\ ~snap[h].broken
                /\ Failures(cur[h], via[h].threshold) >= via[h].threshold
    /\ pc'[h] = "samples" => result[h].written
    /\ UNCHANGED <<cur, snap, result, broken, runs, points>>

(* Handler h is done with its listing, and with its flag.                  *)
Done(h) ==
    /\ pc[h] # "idle"
    /\ pc'[h] = "idle" /\ cur'[h] = None /\ result'[h] = None
    /\ \A g \in Handlers \ {h} :
          /\ pc'[g] = pc[g] /\ cur'[g] = cur[g] /\ snap'[g] = snap[g]
          /\ via'[g] = via[g] /\ result'[g] = result[g]
    /\ UNCHANGED points
    /\ \/ UNCHANGED <<broken, runs>>
       \/ /\ pc[h] = "fetch" /\ UNCHANGED broken
          /\ \A l \in Listings \ {cur[h]} : runs'[l] = runs[l]
       \/ pc[h] # "fetch" /\ broken' = ClearedBy(h) /\ UNCHANGED runs
       \/ pc[h] = "mark" /\ broken' = broken \cup {cur[h]} /\ UNCHANGED runs
    /\ result[h] # None /\ faults' = faults =>
          result[h].status = "failed" \/ broken' = ClearedBy(h)

(* Handler h has its result, with the run and perhaps a price.             *)
Commits(h) ==
    /\ pc[h] = "fetch"
    /\ pc'[h] = "open"
    /\ result'[h] \in Outcome
    /\ runs'[cur[h]] # <<>> /\ runs'[cur[h]][1] = result'[h].status
    /\ result'[h].written => points'[cur[h]] # <<>>
    /\ \A g \in Handlers \ {h} : pc'[g] = pc[g] /\ result'[g] = result[g]
    /\ \A l \in Listings \ {cur[h]} : runs'[l] = runs[l] /\ points'[l] = points[l]
    /\ UNCHANGED <<cur, snap, via, broken>>

(* A run, or a price, that was just recorded is the newest of its listing. *)
LEMMA NewestRun ==
    ASSUME RowTypes, NEW l \in Listings, NEW s \in {"ok", "failed"}
    PROVE  /\ Take(<<s>> \o runs[l], MaxThreshold) # <<>>
           /\ Take(<<s>> \o runs[l], MaxThreshold)[1] = s
<1>1. MaxThreshold \in Nat \ {0}
  BY AlertingAssumption, DeliveryAssumption
<1>2. runs[l] \in Seq({"ok", "failed"})
  BY DEF RowTypes
<1> QED
  BY <1>1, <1>2, TakeFirst

LEMMA NewestPoint ==
    ASSUME RowTypes, NEW l \in Listings, NEW o \in Observations
    PROVE  Take(<<o>> \o points[l], 2) # <<>>
<1>1. points[l] \in Seq(Observations) /\ 2 \in Nat \ {0}
  BY DEF RowTypes
<1> QED
  BY <1>1, TakeFirst

LEMMA StepKinds ==
    ASSUME IInv, Next
    PROVE  \/ Quiet \/ Crash
           \/ \E h \in Handlers, l \in Listings : LoadCheckable(h, l)
           \/ \E h \in Handlers : GoesOn(h) \/ Done(h) \/ Commits(h)
<1> USE DEF IInv, TypeOK, HandlerTypes
<1>1. ASSUME NEW h \in Handlers, Finish(h)
      PROVE  /\ pc'[h] = "idle" /\ cur'[h] = None /\ result'[h] = None
             /\ \A g \in Handlers \ {h} :
                   /\ pc'[g] = pc[g] /\ cur'[g] = cur[g] /\ snap'[g] = snap[g]
                   /\ via'[g] = via[g] /\ result'[g] = result[g]
  BY <1>1 DEF Finish, Goto
<1>2. ASSUME NEW h \in Handlers, NEW s \in {"ok", "failed"}, NEW w \in BOOLEAN,
             Committed(h, s, w),
             \/ UNCHANGED points /\ ~w
             \/ \E o \in Observations :
                   points' = [points EXCEPT ![cur[h]] = Take(<<o>> \o @, 2)]
      PROVE  Commits(h)
  <2>1. cur[h] \in Listings /\ pc[h] = "fetch"
    BY <1>2 DEF Committed, Whole
  <2> DEFINE r == Take(<<s>> \o runs[cur[h]], MaxThreshold)
  <2>2. r # <<>> /\ r[1] = s
    BY <2>1, NewestRun
  <2>3. runs' = [runs EXCEPT ![cur[h]] = r]
    BY <1>2 DEF Committed, LogRun
  <2>4. /\ runs'[cur[h]] # <<>> /\ runs'[cur[h]][1] = s
        /\ \A l \in Listings \ {cur[h]} : runs'[l] = runs[l]
    <3> HIDE DEF r
    <3> QED
      BY <2>1, <2>2, <2>3 DEF RowTypes
  <2>5. /\ w => points'[cur[h]] # <<>>
        /\ \A l \in Listings \ {cur[h]} : points'[l] = points[l]
    <3>1. \A o \in Observations : Take(<<o>> \o points[cur[h]], 2) # <<>>
      BY <2>1, NewestPoint
    <3> QED
      BY <1>2, <2>1, <3>1 DEF RowTypes
  <2>6. /\ result' = [result EXCEPT ![h] = [status |-> s, written |-> w]]
        /\ pc' = [pc EXCEPT ![h] = "open"]
        /\ UNCHANGED <<cur, snap, via, broken>>
    BY <1>2 DEF Committed, Goto, alertVars
  <2> QED
    BY <2>1, <2>4, <2>5, <2>6 DEF Commits, Outcome
<1>3. ASSUME NEW h \in Handlers, HandlerStep(h)
      PROVE  Quiet \/ GoesOn(h) \/ Done(h) \/ Commits(h)
  <2>1. CASE \/ \E o \in Observations : RecordPrice(h, o)
             \/ RecordUnchanged(h) \/ RecordFailure(h)
    BY <1>2, <2>1 DEF RecordPrice, RecordUnchanged, RecordFailure
  <2>2. ASSUME NEW s \in {"ok", "failed"}, RecordStale(h, s)
        PROVE  Done(h)
    <3>1. \A l \in Listings \ {cur[h]} : runs'[l] = runs[l]
      BY <2>2 DEF RecordStale, LogRun, RowTypes
    <3> QED
      BY <1>1, <2>2, <3>1 DEF RecordStale, Done, Whole, alertVars
  <2>3. CASE AlertingOff(h) \/ Recover(h) \/ MarkBroken(h)
    BY <1>1, <2>3
    DEF AlertingOff, Recover, MarkBroken, Done, historyVars, AlarmInv, FlagKnown
  <2>4. CASE \/ ReadSettings(h) \/ SeedSettings(h) \/ ReadSamples(h)
             \/ EvaluateRules(h) \/ RememberAlert(h)
             \/ \E answers : SendAlert(h, answers)
    BY <2>4
    DEF ReadSettings, SeedSettings, ReadSamples, EvaluateRules, RememberAlert,
        SendAlert, NextTrigger, Goto, GoesOn, historyVars, alertVars
  <2>5. CASE OpenAlerting(h)
    BY <2>5 DEF OpenAlerting, Goto, GoesOn, historyVars, alertVars
  <2>6. CASE CountFailures(h)
    <3>1. CASE ShouldReportBroken(Failures(cur[h], via[h].threshold), snap[h].broken,
                                  via[h].threshold)
      BY <2>6, <3>1
      DEF CountFailures, ShouldReportBroken, Goto, GoesOn, historyVars, alertVars
    <3>2. CASE ~ShouldReportBroken(Failures(cur[h], via[h].threshold), snap[h].broken,
                                   via[h].threshold)
      BY <1>1, <2>6, <3>2 DEF CountFailures, Done, historyVars, alertVars
    <3> QED
      BY <3>1, <3>2
  <2>7. ASSUME NEW answers, SendAlarm(h, answers)
        PROVE  GoesOn(h) \/ Done(h)
    BY <1>1, <2>7
    DEF SendAlarm, Goto, GoesOn, Done, historyVars, alertVars, AlarmInv, FlagKnown
  <2> QED
    BY <1>3, <2>1, <2>2, <2>3, <2>4, <2>5, <2>6, <2>7 DEF HandlerStep
<1>4. ASSUME NEW h \in Handlers, AlertingFails(h)
      PROVE  Done(h)
  <2>1. faults' # faults
    BY <1>4, AlertingAssumption DEF AlertingFails
  <2> QED
    BY <1>1, <1>4, <2>1 DEF AlertingFails, Done, historyVars, alertVars
<1>5. CASE Edit \/ \E r \in Rules : CooldownPasses(r)
  BY <1>5
  DEF Edit, EditProduct, EditListing, RequestSettings, SeedForRequest, SaveSettings,
      UpdateEmailPrefs, CooldownPasses, Quiet, handlerVars, historyVars, alertVars
<1> QED
  BY <1>3, <1>4, <1>5 DEF Next

(* A handler that leaves its listing leaves the others theirs.             *)
LEMMA DoneApart ==
    ASSUME IInv, NEW h \in Handlers, Done(h), NEW g \in Handlers, cur'[g] # None
    PROVE  /\ g # h /\ cur[g] # cur[h]
           /\ pc'[g] = pc[g] /\ cur'[g] = cur[g] /\ snap'[g] = snap[g]
           /\ via'[g] = via[g] /\ result'[g] = result[g]
           /\ cur[g] \in broken' <=> cur[g] \in broken
           /\ cur[g] \in Listings => runs'[cur[g]] = runs[cur[g]]
<1>1. g # h
  BY DEF Done
<1>2. /\ pc'[g] = pc[g] /\ cur'[g] = cur[g] /\ snap'[g] = snap[g]
      /\ via'[g] = via[g] /\ result'[g] = result[g]
  BY <1>1 DEF Done
<1>3. cur[g] # cur[h]
  BY <1>1, <1>2 DEF IInv, AlarmInv, Exclusive
<1>4. cur[g] \in broken' <=> cur[g] \in broken
  BY <1>3 DEF Done, ClearedBy
<1>5. cur[g] \in Listings => runs'[cur[g]] = runs[cur[g]]
  BY <1>3 DEF Done
<1> QED
  BY <1>1, <1>2, <1>3, <1>4, <1>5

(* LoadCheckable takes a listing nobody has.                               *)
LEMMA LoadApart ==
    ASSUME IInv, NEW h \in Handlers, NEW l \in Listings, LoadCheckable(h, l)
    PROVE  /\ \A g \in Handlers : cur[g] # l
           /\ pc'[h] = "fetch" /\ cur'[h] = l /\ result'[h] = None
           /\ snap'[h].broken <=> l \in broken
           /\ \A g \in Handlers \ {h} :
                 pc'[g] = pc[g] /\ cur'[g] = cur[g] /\ snap'[g] = snap[g]
           /\ UNCHANGED <<via, result, broken, runs, points>>
<1>1. result[h] = None
  BY DEF IInv, TypeOK, HandlerTypes, Whole, LoadCheckable
<1> QED
  BY <1>1
  DEF IInv, TypeOK, HandlerTypes, LoadCheckable, Goto, alertVars, historyVars

LEMMA ExclusiveStep ==
    ASSUME IInv, Next
    PROVE  Exclusive'
<1> SUFFICES ASSUME NEW g \in Handlers, NEW k \in Handlers,
                    cur'[g] # None, cur'[g] = cur'[k]
             PROVE  g = k
  BY DEF Exclusive
<1>1. cur[g] # None /\ cur[g] = cur[k] => g = k
  BY DEF IInv, AlarmInv, Exclusive
<1>2. CASE Quiet \/ \E h \in Handlers : GoesOn(h) \/ Commits(h)
  BY <1>1, <1>2 DEF Quiet, GoesOn, Commits
<1>3. CASE Crash
  BY <1>3 DEF Crash
<1>4. ASSUME NEW h \in Handlers, NEW l \in Listings, LoadCheckable(h, l)
      PROVE  g = k
  BY <1>1, <1>4, LoadApart
<1>5. ASSUME NEW h \in Handlers, Done(h)
      PROVE  g = k
  BY <1>1, <1>5, DoneApart
<1> QED
  BY <1>2, <1>3, <1>4, <1>5, StepKinds

LEMMA FlagKnownStep ==
    ASSUME IInv, Next
    PROVE  FlagKnown'
<1> SUFFICES ASSUME NEW g \in Handlers
             PROVE  /\ cur'[g] # None => (snap'[g].broken <=> cur'[g] \in broken')
                    /\ pc'[g] \in {"alarm", "mark"} =>
                          result'[g].status = "failed" /\ ~snap'[g].broken
  BY DEF FlagKnown
<1>1. /\ cur[g] # None => (snap[g].broken <=> cur[g] \in broken)
      /\ pc[g] \in {"alarm", "mark"} => result[g].status = "failed" /\ ~snap[g].broken
  BY DEF IInv, AlarmInv, FlagKnown
<1>2. CASE Quiet
  BY <1>1, <1>2 DEF Quiet
<1>3. CASE Crash
  BY <1>3 DEF Crash
<1>4. ASSUME NEW h \in Handlers, NEW l \in Listings, LoadCheckable(h, l)
      PROVE  /\ cur'[g] # None => (snap'[g].broken <=> cur'[g] \in broken')
             /\ pc'[g] \in {"alarm", "mark"} =>
                   result'[g].status = "failed" /\ ~snap'[g].broken
  BY <1>1, <1>4, LoadApart
<1>5. ASSUME NEW h \in Handlers, GoesOn(h)
      PROVE  /\ cur'[g] # None => (snap'[g].broken <=> cur'[g] \in broken')
             /\ pc'[g] \in {"alarm", "mark"} =>
                   result'[g].status = "failed" /\ ~snap'[g].broken
  <2>1. CASE g = h
    BY <1>1, <1>5, <2>1 DEF GoesOn
  <2>2. CASE g # h
    BY <1>1, <1>5, <2>2 DEF GoesOn
  <2> QED
    BY <2>1, <2>2
<1>6. ASSUME NEW h \in Handlers, Commits(h)
      PROVE  /\ cur'[g] # None => (snap'[g].broken <=> cur'[g] \in broken')
             /\ pc'[g] \in {"alarm", "mark"} =>
                   result'[g].status = "failed" /\ ~snap'[g].broken
  BY <1>1, <1>6 DEF Commits
<1>7. ASSUME NEW h \in Handlers, Done(h)
      PROVE  /\ cur'[g] # None => (snap'[g].broken <=> cur'[g] \in broken')
             /\ pc'[g] \in {"alarm", "mark"} =>
                   result'[g].status = "failed" /\ ~snap'[g].broken
  <2>1. CASE cur'[g] = None
    <3>1. Whole(g)'
      BY HandlerTypesStep DEF HandlerTypes
    <3> QED
      BY <2>1, <3>1 DEF Whole
  <2>2. CASE cur'[g] # None
    BY <1>1, <1>7, <2>2, DoneApart
  <2> QED
    BY <2>1, <2>2
<1> QED
  BY <1>2, <1>3, <1>4, <1>5, <1>6, <1>7, StepKinds

LEMMA RunsKnownStep ==
    ASSUME IInv, Next
    PROVE  RunsKnown'
<1> DEFINE Known(g) ==
              /\ result[g] # None =>
                    runs[cur[g]] # <<>> /\ runs[cur[g]][1] = result[g].status
              /\ pc[g] \in {"alarm", "mark"} =>
                    Failures(cur[g], via[g].threshold) >= via[g].threshold
<1> SUFFICES ASSUME NEW g \in Handlers
             PROVE  Known(g)'
  BY DEF RunsKnown
<1>1. Known(g)
  BY DEF IInv, AlarmInv, RunsKnown
<1>2. CASE Quiet
  BY <1>1, <1>2 DEF Quiet, Failures
<1>3. CASE Crash
  BY <1>3 DEF Crash
<1>8. /\ cur[g] \in Listings \cup {None} /\ Whole(g)
      /\ Whole(g)'
  BY HandlerTypesStep DEF HandlerTypes, IInv, TypeOK
<1>4. ASSUME NEW h \in Handlers, NEW l \in Listings, LoadCheckable(h, l)
      PROVE  Known(g)'
  <2>1. CASE g = h
    BY <1>4, <2>1, LoadApart
  <2>2. CASE g # h
    BY <1>1, <1>4, <2>2, LoadApart DEF Failures
  <2> QED
    BY <2>1, <2>2
<1>5. ASSUME NEW h \in Handlers, GoesOn(h)
      PROVE  Known(g)'
  <2>1. CASE g = h
    BY <1>1, <1>5, <2>1 DEF GoesOn, Failures
  <2>2. CASE g # h
    BY <1>1, <1>5, <2>2 DEF GoesOn, Failures
  <2> QED
    BY <2>1, <2>2
<1>6. ASSUME NEW h \in Handlers, Commits(h)
      PROVE  Known(g)'
  <2>1. CASE g = h
    BY <1>6, <2>1 DEF Commits
  <2>2. CASE g # h
    <3>1. cur[g] # None => cur[g] # cur[h]
      BY <2>2 DEF IInv, AlarmInv, Exclusive
    <3>2. result[g] # None => cur[g] # None
      BY <1>8 DEF Whole
    <3>3. pc[g] \in {"alarm", "mark"} => cur[g] # None
      BY <1>8 DEF Whole
    <3> QED
      BY <1>1, <1>6, <1>8, <2>2, <3>1, <3>2, <3>3 DEF Commits, Failures
  <2> QED
    BY <2>1, <2>2
<1>7. ASSUME NEW h \in Handlers, Done(h)
      PROVE  Known(g)'
  <2>1. CASE cur'[g] = None
    BY <1>8, <2>1 DEF Whole
  <2>2. CASE cur'[g] # None
    BY <1>1, <1>7, <1>8, <2>2, DoneApart DEF Failures
  <2> QED
    BY <2>1, <2>2
<1> QED
  BY <1>2, <1>3, <1>4, <1>5, <1>6, <1>7, StepKinds

LEMMA SampleKnownStep ==
    ASSUME IInv, Next
    PROVE  SampleKnown'
<1> DEFINE Known(g) ==
              /\ pc[g] = "samples" => result[g].written
              /\ result[g] # None /\ result[g].written => points[cur[g]] # <<>>
<1> SUFFICES ASSUME NEW g \in Handlers
             PROVE  Known(g)'
  BY DEF SampleKnown
<1>1. Known(g)
  BY DEF IInv, SampleKnown
<1>2. CASE Quiet
  BY <1>1, <1>2 DEF Quiet
<1>3. CASE Crash
  BY <1>3 DEF Crash
<1>8. /\ cur[g] \in Listings \cup {None} /\ Whole(g)
      /\ Whole(g)'
  BY HandlerTypesStep DEF HandlerTypes, IInv, TypeOK
<1>4. ASSUME NEW h \in Handlers, NEW l \in Listings, LoadCheckable(h, l)
      PROVE  Known(g)'
  <2>1. CASE g = h
    BY <1>4, <2>1, LoadApart
  <2>2. CASE g # h
    BY <1>1, <1>4, <2>2, LoadApart
  <2> QED
    BY <2>1, <2>2
<1>5. ASSUME NEW h \in Handlers, GoesOn(h)
      PROVE  Known(g)'
  <2>1. CASE g = h
    BY <1>1, <1>5, <2>1 DEF GoesOn
  <2>2. CASE g # h
    BY <1>1, <1>5, <2>2 DEF GoesOn
  <2> QED
    BY <2>1, <2>2
<1>6. ASSUME NEW h \in Handlers, Commits(h)
      PROVE  Known(g)'
  <2>1. CASE g = h
    BY <1>6, <2>1 DEF Commits
  <2>2. CASE g # h
    <3>1. cur[g] # None => cur[g] # cur[h]
      BY <2>2 DEF IInv, AlarmInv, Exclusive
    <3>2. result[g] # None => cur[g] # None
      BY <1>8 DEF Whole
    <3> QED
      BY <1>1, <1>6, <1>8, <2>2, <3>1, <3>2 DEF Commits
  <2> QED
    BY <2>1, <2>2
<1>7. ASSUME NEW h \in Handlers, Done(h)
      PROVE  Known(g)'
  <2>1. CASE cur'[g] = None
    BY <1>8, <2>1 DEF Whole
  <2>2. CASE cur'[g] # None
    <3>1. UNCHANGED points
      BY <1>7 DEF Done
    <3> QED
      BY <1>1, <1>7, <2>2, <3>1, DoneApart
  <2> QED
    BY <2>1, <2>2
<1> QED
  BY <1>2, <1>3, <1>4, <1>5, <1>6, <1>7, StepKinds

LEMMA InitInv == Init => IInv
<1> SUFFICES ASSUME Init PROVE IInv
  OBVIOUS
<1>1. RowTypes
  BY AlertingAssumption DEF Init, RowTypes, NoMemory
<1>2. SettingsTypes
  BY AlertingAssumption DEF Init, SettingsTypes
<1>3. HandlerTypes
  BY DEF Init, HandlerTypes, Whole
<1>4. AlarmInv /\ SampleKnown
  BY DEF Init, AlarmInv, Exclusive, FlagKnown, RunsKnown, SampleKnown
<1> QED
  BY <1>1, <1>2, <1>3, <1>4, AlertingAssumption DEF Init, IInv, TypeOK

LEMMA StepInv == IInv /\ [Next]_vars => IInv'
<1> SUFFICES ASSUME IInv, [Next]_vars PROVE IInv'
  OBVIOUS
<1>1. CASE Next
  <2>1. TypeOK'
    BY <1>1, RowTypesStep, SettingsTypesStep, HandlerTypesStep, CountersStep
    DEF IInv, TypeOK
  <2> QED
    BY <1>1, <2>1, ExclusiveStep, FlagKnownStep, RunsKnownStep, SampleKnownStep
    DEF IInv, AlarmInv
<1>2. CASE UNCHANGED vars
  <2> USE <1>2 DEF vars, productVars, historyVars, alertVars, settingsVars,
                   handlerVars, boundVars
  <2>1. RowTypes' /\ SettingsTypes'
    BY DEF IInv, TypeOK, RowTypes, SettingsTypes
  <2>2. HandlerTypes'
    BY DEF IInv, TypeOK, HandlerTypes, Whole
  <2>3. AlarmInv' /\ SampleKnown'
    BY DEF IInv, AlarmInv, Exclusive, FlagKnown, RunsKnown, SampleKnown, Failures
  <2> QED
    BY <2>1, <2>2, <2>3 DEF IInv, TypeOK
<1> QED
  BY <1>1, <1>2

LEMMA InvHolds == Spec => []IInv
BY InitInv, StepInv, PTL DEF Spec

(* Every variable holds a value of its type, and a handler has what the    *)
(* place it is at in runAlerting needs.                                    *)
THEOREM AlertingTypes == Spec => []TypeOK
<1>1. IInv => TypeOK
  BY DEF IInv
<1> QED
  BY <1>1, InvHolds, PTL

-----------------------------------------------------------------------------
(* The flag of a listing and the runs it goes by.                          *)
LEMMA OneAlarmStep ==
    ASSUME IInv, [Next]_vars, NEW l \in Listings
    PROVE  /\ \A h \in Handlers :
                 cur[h] = l /\ pc[h] = "alarm" /\ pc'[h] = "mark" => l \notin broken
           /\ l \notin broken /\ l \in broken' =>
                 \E h \in Handlers : cur[h] = l /\ pc[h] = "mark"
                     /\ Failures(l, via[h].threshold) = via[h].threshold
           /\ l \in broken /\ l \notin broken' => LeadingFailures(runs[l]) = 0
<1>1. ASSUME NEW h \in Handlers, cur[h] = l, pc[h] = "alarm"
      PROVE  l \notin broken
  BY <1>1, AlertingAssumption DEF IInv, AlarmInv, FlagKnown
<1>2. CASE UNCHANGED broken
  BY <1>1, <1>2
<1>3. ASSUME NEW h \in Handlers, Done(h), pc[h] = "mark",
             broken' = broken \cup {cur[h]}, l \notin broken, l \in broken'
      PROVE  cur[h] = l /\ Failures(l, via[h].threshold) = via[h].threshold
  <2>1. cur[h] = l
    BY <1>3
  <2>2. Failures(l, via[h].threshold) >= via[h].threshold
    BY <1>3, <2>1 DEF IInv, AlarmInv, RunsKnown
  <2>3. via[h].threshold \in Nat
    BY <1>3 DEF IInv, TypeOK, HandlerTypes, Whole, Route
  <2>4. runs[l] \in Seq({"ok", "failed"})
    BY DEF IInv, TypeOK, RowTypes
  <2>5. /\ Failures(l, via[h].threshold) \in Nat
        /\ Failures(l, via[h].threshold) <= via[h].threshold
    BY <2>3, <2>4, LeadingBounds DEF Failures
  <2> QED
    BY <2>1, <2>2, <2>3, <2>5
<1>4. ASSUME NEW h \in Handlers, Done(h), pc[h] # "fetch",
             broken' = ClearedBy(h), l \in broken, l \notin broken'
      PROVE  LeadingFailures(runs[l]) = 0
  <2>1. cur[h] = l /\ result[h].status = "ok"
    BY <1>4 DEF ClearedBy
  <2>2. result[h] # None
    BY <1>4 DEF Done, IInv, TypeOK, HandlerTypes, Whole
  <2>3. runs[l] # <<>> /\ runs[l][1] = "ok"
    BY <2>1, <2>2 DEF IInv, AlarmInv, RunsKnown
  <2>4. runs[l] \in Seq({"ok", "failed"}) /\ 0 \in Nat
    BY DEF IInv, TypeOK, RowTypes
  <2> QED
    BY <2>3, <2>4, LeadingBounds
<1>5. ASSUME NEW h \in Handlers, Done(h)
      PROVE  \/ UNCHANGED broken
             \/ pc[h] # "fetch" /\ broken' = ClearedBy(h)
             \/ pc[h] = "mark" /\ broken' = broken \cup {cur[h]}
  BY <1>5 DEF Done
<1>6. ASSUME NEW h \in Handlers, Done(h)
      PROVE  /\ l \notin broken /\ l \in broken' =>
                   \E k \in Handlers : cur[k] = l /\ pc[k] = "mark"
                       /\ Failures(l, via[k].threshold) = via[k].threshold
             /\ l \in broken /\ l \notin broken' => LeadingFailures(runs[l]) = 0
  <2>1. ASSUME l \notin broken, l \in broken'
        PROVE  pc[h] = "mark" /\ broken' = broken \cup {cur[h]}
    BY <1>5, <1>6, <2>1 DEF ClearedBy
  <2>2. ASSUME l \in broken, l \notin broken'
        PROVE  pc[h] # "fetch" /\ broken' = ClearedBy(h)
    BY <1>5, <1>6, <2>2
  <2> QED
    BY <1>3, <1>4, <1>6, <2>1, <2>2
<1>7. CASE \/ Quiet \/ Crash \/ UNCHANGED vars
           \/ \E h \in Handlers, k \in Listings : LoadCheckable(h, k)
           \/ \E h \in Handlers : GoesOn(h) \/ Commits(h)
  BY <1>2, <1>7
  DEF Quiet, Crash, LoadCheckable, GoesOn, Commits, vars, alertVars
<1> QED
  BY <1>1, <1>6, <1>7, StepKinds

(* One alarm per outage: none lands while the listing is flagged, the flag *)
(* goes up only over a full streak of failed runs, and down only after a   *)
(* run that was ok (runFailureAlert), whatever crashes and edits happen.   *)
THEOREM OneAlarm == Spec => OneAlarmPerOutage
<1>1. IInv /\ [Next]_vars =>
         [\A l \in Listings :
          /\ \A h \in Handlers :
                cur[h] = l /\ pc[h] = "alarm" /\ pc'[h] = "mark" => l \notin broken
          /\ l \notin broken /\ l \in broken' =>
                \E h \in Handlers : cur[h] = l /\ pc[h] = "mark"
                    /\ Failures(l, via[h].threshold) = via[h].threshold
          /\ l \in broken /\ l \notin broken' => LeadingFailures(runs[l]) = 0]_vars
  BY OneAlarmStep
<1> QED
  BY <1>1, InvHolds, PTL DEF Spec, OneAlarmPerOutage

LEMMA RecoveryStep ==
    ASSUME IInv, [Next]_vars, NEW h \in Handlers,
           result[h] # None, pc'[h] = "idle", faults' = faults, result[h].status = "ok"
    PROVE  cur[h] \notin broken'
<1>1. Whole(h)
  BY DEF IInv, TypeOK, HandlerTypes
<1>2. pc[h] \notin {"idle", "fetch"} /\ cur[h] # None
  BY <1>1 DEF Whole
<1>3. Done(h)
  <2>1. ~UNCHANGED vars
    BY <1>2 DEF vars, handlerVars
  <2>2. ~Quiet
    BY <1>2 DEF Quiet
  <2>3. ~Crash
    BY AlertingAssumption DEF Crash, IInv, TypeOK
  <2>4. ASSUME NEW g \in Handlers, NEW l \in Listings, LoadCheckable(g, l)
        PROVE  FALSE
    BY <1>2, <2>4, LoadApart
  <2>5. ASSUME NEW g \in Handlers, GoesOn(g) \/ Commits(g)
        PROVE  FALSE
    BY <1>2, <2>5 DEF GoesOn, Commits
  <2>6. ASSUME NEW g \in Handlers, Done(g)
        PROVE  g = h
    BY <1>2, <2>6 DEF Done
  <2> QED
    BY <2>1, <2>2, <2>3, <2>4, <2>5, <2>6, StepKinds
<1>4. broken' = ClearedBy(h)
  BY <1>3 DEF Done
<1>5. ~snap[h].broken => cur[h] \notin broken
  BY <1>2 DEF IInv, AlarmInv, FlagKnown
<1> QED
  BY <1>4, <1>5 DEF ClearedBy

(* A check recorded as ok whose alerting is not cut short leaves its       *)
(* listing unflagged, whether or not any channel is configured.            *)
THEOREM RecoveryIsCleared == Spec => RecoveryClears
<1>1. IInv /\ [Next]_vars =>
         [\A h \in Handlers :
             result[h] # None /\ pc'[h] = "idle" /\ faults' = faults =>
                (result[h].status = "ok" => cur[h] \notin broken')]_vars
  BY RecoveryStep
<1> QED
  BY <1>1, InvHolds, PTL DEF Spec, RecoveryClears

(* The settings row, once there, changes by an admin's save and by nothing *)
(* else: a seed that comes late keeps the row it finds.                    *)
THEOREM SettingsOutliveSeeds == Spec => SavedSettingsKept
<1>1. [Next]_vars =>
         [settings # None /\ settings' # settings =>
             saving # None /\ saving' = None
             /\ settings' = Patched(settings, saving.patch)]_vars
  <2> SUFFICES ASSUME [Next]_vars, settings # None, settings' # settings
               PROVE  saving # None /\ saving' = None
                      /\ settings' = Patched(settings, saving.patch)
    OBVIOUS
  <2>1. CASE SaveSettings
    BY <2>1 DEF SaveSettings
  <2>2. CASE ~SaveSettings
    <3>1. settings' = settings
      BY <2>2
      DEF Next, LoadCheckable, HandlerStep, RecordPrice, RecordUnchanged, RecordFailure,
          Committed, RecordStale, ReadSettings, SeedSettings, OpenAlerting, AlertingOff,
          ReadSamples, EvaluateRules, SendAlert, SendAlarm, RememberAlert, Recover,
          CountFailures, MarkBroken, AlertingFails, Crash, Edit, EditProduct,
          EditListing, RequestSettings, SeedForRequest, UpdateEmailPrefs,
          CooldownPasses, settingsVars, vars, Seeded
    <3> QED
      BY <3>1
  <2> QED
    BY <2>1, <2>2
<1> QED
  BY <1>1, PTL DEF Spec, SavedSettingsKept

-----------------------------------------------------------------------------
(* The dedupe memory of a product whose checks do not overlap.             *)

(* So it is with one store, or with one handler at work.  The memory is    *)
(* the product's: a check of a second listing beside this one could alert  *)
(* between this one's reading of it and its send.                          *)
OneCheck == (\A k, l \in Listings : k = l) \/ (\A g, h \in Handlers : g = h)

(* The triggers s: one to a rule, and each news to memory m.               *)
News(s, m) ==
    /\ \A i, j \in DOMAIN s : s[i].rule = s[j].rule => i = j
    /\ \A i \in DOMAIN s : ShouldFire(s[i].price, m[s[i].rule])

(* What a handler found to be news is news until it is sent.               *)
StillNews == \A h \in Handlers : News(pending[h], memory)

LEMMA TailNews ==
    ASSUME NEW s \in Seq(Trigger), s # <<>>,
           NEW m \in [Rules -> Memory \cup {None}], News(s, m)
    PROVE  /\ News(Tail(s), m)
           /\ \A i \in DOMAIN Tail(s) : Tail(s)[i].rule # s[1].rule
<1> DEFINE t == Tail(s)
<1>1. /\ Len(s) \in Nat \ {0} /\ DOMAIN s = 1..Len(s)
      /\ DOMAIN t = 1..(Len(s) - 1)
      /\ \A i \in 1..(Len(s) - 1) : t[i] = s[i + 1]
  OBVIOUS
<1> HIDE DEF t
<1>2. \A i \in DOMAIN t : i + 1 \in DOMAIN s /\ i + 1 # 1 /\ t[i] = s[i + 1] /\ 1 \in DOMAIN s
  BY <1>1
<1>3. \A i, j \in DOMAIN t : i + 1 = j + 1 => i = j
  BY <1>1
<1>4. \A i \in DOMAIN t : t[i].rule # s[1].rule
  BY <1>2 DEF News
<1>5. \A i, j \in DOMAIN t : t[i].rule = t[j].rule => i = j
  BY <1>2, <1>3 DEF News
<1>6. \A i \in DOMAIN t : ShouldFire(t[i].price, m[t[i].rule])
  BY <1>2 DEF News
<1> QED
  BY <1>4, <1>5, <1>6 DEF News, t

LEMMA TriggerRules ==
    ASSUME NEW s \in Seq(Trigger), NEW i \in DOMAIN s
    PROVE  s[i].rule \in Rules
<1>1. s[i] \in Trigger
  OBVIOUS
<1> QED
  BY <1>1 DEF Trigger

LEMMA NoNews == ASSUME NEW m PROVE News(<<>>, m)
BY DEF News

(* What a step does to the triggers, and to the memory.                    *)
LEMMA NewsKinds ==
    ASSUME IInv, Next
    PROVE  \/ \E h \in Handlers : RememberAlert(h) \/ EvaluateRules(h)
           \/ /\ \A h \in Handlers :
                    \/ pending'[h] = pending[h] \/ pending'[h] = <<>>
                    \/ pending[h] # <<>> /\ pending'[h] = Tail(pending[h])
              /\ memory' = memory \/ \E r \in Rules : CooldownPasses(r)
<1> USE DEF IInv, TypeOK, HandlerTypes
<1>1. ASSUME NEW h \in Handlers, Finish(h)
      PROVE  \A g \in Handlers : pending'[g] = pending[g] \/ pending'[g] = <<>>
  BY <1>1 DEF Finish
<1>2. ASSUME NEW h \in Handlers, NEW answers, SendAlert(h, answers)
      PROVE  \A g \in Handlers :
                \/ pending'[g] = pending[g]
                \/ pending[g] # <<>> /\ pending'[g] = Tail(pending[g])
  BY <1>2 DEF SendAlert, NextTrigger, Whole
<1>3. ASSUME NEW h \in Handlers, HandlerStep(h),
             ~RememberAlert(h), ~EvaluateRules(h)
      PROVE  /\ UNCHANGED memory
             /\ \A g \in Handlers :
                   \/ pending'[g] = pending[g] \/ pending'[g] = <<>>
                   \/ pending[g] # <<>> /\ pending'[g] = Tail(pending[g])
  <2>1. UNCHANGED memory
    BY <1>3
    DEF HandlerStep, RecordPrice, RecordUnchanged, RecordFailure, Committed, RecordStale,
        ReadSettings, SeedSettings, OpenAlerting, AlertingOff, ReadSamples, SendAlert,
        SendAlarm, Recover, CountFailures, MarkBroken, alertVars
  <2>2. CASE UNCHANGED pending
    BY <2>1, <2>2
  <2>3. CASE Finish(h)
    BY <1>1, <2>1, <2>3
  <2>4. CASE \E answers : SendAlert(h, answers)
    BY <1>2, <2>1, <2>4
  <2> QED
    BY <1>3, <2>2, <2>3, <2>4
    DEF HandlerStep, RecordPrice, RecordUnchanged, RecordFailure, Committed, RecordStale,
        ReadSettings, SeedSettings, OpenAlerting, AlertingOff, ReadSamples,
        SendAlarm, Recover, CountFailures, MarkBroken
<1>4. CASE \/ \E h \in Handlers, l \in Listings : LoadCheckable(h, l)
           \/ \E h \in Handlers : AlertingFails(h)
           \/ Crash \/ Edit
  BY <1>1, <1>4
  DEF LoadCheckable, AlertingFails, Crash, Edit, EditProduct, EditListing,
      RequestSettings, SeedForRequest, SaveSettings, UpdateEmailPrefs, alertVars,
      handlerVars
<1>5. ASSUME NEW r \in Rules, CooldownPasses(r)
      PROVE  UNCHANGED pending
  BY <1>5 DEF CooldownPasses, handlerVars
<1> QED
  BY <1>3, <1>4, <1>5 DEF Next

LEMMA StillNewsStep ==
    ASSUME OneCheck, IInv, StillNews, [Next]_vars
    PROVE  StillNews'
<1> SUFFICES ASSUME NEW g \in Handlers PROVE News(pending'[g], memory')
  BY DEF StillNews
<1>1. /\ pending[g] \in Seq(Trigger)
      /\ memory \in [Rules -> Memory \cup {None}]
      /\ News(pending[g], memory)
  BY DEF StillNews, IInv, TypeOK, HandlerTypes, RowTypes
(* Only one handler has a listing, so only one has triggers.               *)
<1>2. ASSUME NEW h \in Handlers, h # g, pc[h] # "idle"
      PROVE  pending[g] = <<>>
  <2>1. /\ cur[h] \in Listings
        /\ cur[g] # None => cur[g] \in Listings
    BY <1>2 DEF IInv, TypeOK, HandlerTypes, Whole
  <2>2. cur[g] = None
    BY <1>2, <2>1 DEF OneCheck, IInv, AlarmInv, Exclusive
  <2> QED
    BY <2>2 DEF IInv, TypeOK, HandlerTypes, Whole
<1>3. ASSUME NEW h \in Handlers, EvaluateRules(h)
      PROVE  News(pending'[g], memory')
  <2>1. UNCHANGED memory
    BY <1>3 DEF EvaluateRules, alertVars
  <2>2. CASE g # h
    BY <1>1, <1>3, <2>1, <2>2 DEF EvaluateRules, IInv, TypeOK, HandlerTypes
  <2>3. CASE g = h
    <3>1. seen[h] \in Sight /\ snap[h].config \in Configs
      BY <1>3 DEF EvaluateRules, IInv, TypeOK, HandlerTypes, Whole, Snapshot
    <3> DEFINE news == Triggers(snap[h].config, seen[h].latest, seen[h].previous,
                                seen[h].cheapest, memory)
    <3>2. pending'[h] = news
      BY <1>3 DEF EvaluateRules, IInv, TypeOK, HandlerTypes
    <3>3. News(news, memory)
      BY <1>1, <3>1, TriggerTypes DEF News
    <3> HIDE DEF news
    <3> QED
      BY <2>1, <2>3, <3>2, <3>3
  <2> QED
    BY <2>2, <2>3
<1>4. ASSUME NEW h \in Handlers, RememberAlert(h)
      PROVE  News(pending'[g], memory')
  <2>1. CASE g # h
    <3>1. pending'[g] = pending[g]
      BY <1>4, <2>1 DEF RememberAlert, NextTrigger, IInv, TypeOK, HandlerTypes
    <3>2. pc[h] # "idle"
      BY <1>4 DEF RememberAlert
    <3> QED
      BY <1>2, <2>1, <3>1, <3>2, NoNews
  <2>2. CASE g = h
    <3> DEFINE s == pending[h]
               m == [price |-> s[1].price, cooling |-> TRUE]
    <3>1. s # <<>> /\ s \in Seq(Trigger)
      BY <1>4 DEF RememberAlert, IInv, TypeOK, HandlerTypes, Whole
    <3>2. pending'[h] = Tail(s) /\ memory' = [memory EXCEPT ![s[1].rule] = m]
      BY <1>4 DEF RememberAlert, NextTrigger, IInv, TypeOK, HandlerTypes
    <3>3. /\ News(Tail(s), memory)
          /\ \A i \in DOMAIN Tail(s) : Tail(s)[i].rule # s[1].rule
      BY <1>1, <2>2, <3>1, TailNews
    <3> HIDE DEF s, m
    <3>4. \A i \in DOMAIN Tail(s) : memory'[Tail(s)[i].rule] = memory[Tail(s)[i].rule]
      <4> DEFINE t == Tail(s)
      <4>1. t \in Seq(Trigger)
        BY <3>1
      <4> HIDE DEF t
      <4>3. \A i \in DOMAIN t : t[i].rule \in Rules
        BY <4>1, TriggerRules
      <4>2. \A i \in DOMAIN Tail(s) : Tail(s)[i].rule \in Rules
        BY <4>3 DEF t
      <4> QED
        BY <1>1, <3>2, <3>3, <4>2
    <3>5. News(Tail(s), memory')
      BY <3>3, <3>4 DEF News
    <3> QED
      BY <2>2, <3>2, <3>5
  <2> QED
    BY <2>1, <2>2
<1>5. ASSUME NEW r \in Rules, CooldownPasses(r), NEW s \in Seq(Trigger), News(s, memory)
      PROVE  News(s, memory')
  <2>1. ASSUME NEW i \in DOMAIN s
        PROVE  ShouldFire(s[i].price, memory'[s[i].rule])
    <3>1. s[i].rule \in Rules
      BY TriggerRules
    <3>2. ShouldFire(s[i].price, memory[s[i].rule])
      BY <1>5 DEF News
    <3>3. CASE s[i].rule = r
      <4>1. memory[r] \in Memory /\ memory'[r] = [memory[r] EXCEPT !.cooling = FALSE]
        BY <1>1, <1>5 DEF CooldownPasses
      <4>2. ~memory'[r].cooling
        BY <4>1 DEF Memory
      <4> QED
        BY <3>3, <4>2 DEF ShouldFire
    <3>4. CASE s[i].rule # r
      BY <1>1, <1>5, <3>1, <3>2, <3>4 DEF CooldownPasses
    <3> QED
      BY <3>3, <3>4
  <2> QED
    BY <1>5, <2>1 DEF News
<1>6. CASE /\ \/ pending'[g] = pending[g] \/ pending'[g] = <<>>
              \/ pending[g] # <<>> /\ pending'[g] = Tail(pending[g])
           /\ memory' = memory \/ \E r \in Rules : CooldownPasses(r)
  <2>1. News(pending'[g], memory)
    BY <1>1, <1>6, TailNews, NoNews
  <2>2. pending'[g] \in Seq(Trigger)
    <3>1. ASSUME NEW s \in Seq(Trigger), s # <<>>
          PROVE  Tail(s) \in Seq(Trigger)
      BY <3>1
    <3>2. <<>> \in Seq(Trigger)
      OBVIOUS
    <3> QED
      BY <1>1, <1>6, <3>1, <3>2, Zenon
  <2> QED
    BY <1>5, <1>6, <2>1, <2>2
<1>7. CASE UNCHANGED vars
  BY <1>1, <1>7 DEF vars, handlerVars, alertVars
<1> QED
  BY <1>3, <1>4, <1>6, <1>7, NewsKinds

(* Where no two checks of a product overlap, an alert that lands is news   *)
(* when it lands: the rule never alerted, or at a higher price, or its     *)
(* cooldown has run out.                                                   *)
THEOREM AlertsAreNews ==
    ASSUME OneCheck
    PROVE  Spec => AlertIsNews
<1>1. Init => StillNews
  BY NoNews DEF Init, StillNews
<1>2. IInv /\ StillNews /\ [Next]_vars => StillNews'
  BY StillNewsStep
<1>3. IInv /\ StillNews /\ [Next]_vars =>
         [\A h \in Handlers :
             pc[h] = "send" /\ pc'[h] = "remember" =>
                LET t == pending[h][1]
                    m == memory[t.rule]
                IN  m # None /\ m.cooling => t.price < m.price]_vars
  <2> SUFFICES ASSUME IInv, StillNews, NEW h \in Handlers, pc[h] = "send",
                      memory[pending[h][1].rule] # None,
                      memory[pending[h][1].rule].cooling
               PROVE  pending[h][1].price < memory[pending[h][1].rule].price
    OBVIOUS
  <2>1. pending[h] \in Seq(Trigger) /\ pending[h] # <<>>
    BY DEF IInv, TypeOK, HandlerTypes, Whole
  <2>2. 1 \in DOMAIN pending[h]
    BY <2>1
  <2> QED
    BY <2>2 DEF StillNews, News, ShouldFire
<1> QED
  BY <1>1, <1>2, <1>3, InvHolds, PTL DEF Spec, AlertIsNews
=============================================================================
