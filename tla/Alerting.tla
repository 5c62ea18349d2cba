------------------------------ MODULE Alerting ------------------------------
(***************************************************************************)
(* The alerting half of a check (apps/worker/src/alerting.ts): once a      *)
(* check is committed, read the settings, the newest observations and the  *)
(* dedupe memory, decide, send, and only then remember.  Every await is a  *)
(* step of its own, so checks of two listings of one product interleave.   *)
(*                                                                         *)
(* The check itself is CheckPipeline's; here it is two steps, the load and *)
(* the commit, whose result is any the store may cause.  One product;      *)
(* rows are neither added nor removed.  Time is the flag `cooling` of a    *)
(* remembered alert: its cooldown has not run out.                         *)
(***************************************************************************)
EXTENDS Delivery

CONSTANTS
    Listings,      \* the listings of the product
    Handlers,      \* handler invocations that may be running at once
    Observations,  \* price points: [price, inStock, currency]
    Currencies,
    Configs,       \* alert configurations: [rules, target, drop]
    Owners,        \* accounts the product's owner may have
    Patches,       \* changes an admin may make to the settings
    MaxThreshold,  \* bound: the largest failureThreshold, hence of `runs`
    Conditional,   \* listings whose store answers conditional requests
    MaxEdits,      \* bound: edits of product, listings, settings and account
    MaxFaults      \* bound: worker crashes and failed database calls

(* What the rows, the variables of a handler and the requests may hold.    *)
Memory == [price : Nat, cooling : BOOLEAN]
Snapshot == [broken : BOOLEAN, config : Configs,
             denomination : Currencies \cup {None}]
Route == [threshold : Nat \ {0}, channels : SUBSET ChannelNames]
Outcome == [status : {"ok", "failed"}, written : BOOLEAN]
Sight == [latest : Observations, previous : Observations \cup {None},
          cheapest : Observations \cup {None}]
Trigger == [rule : Rules, price : Nat]
Request == [step : {"seed", "write"}, patch : SettingsPatch]

ASSUME AlertingAssumption ==
    /\ Observations \subseteq [price : Nat, inStock : {"yes", "no", "unknown"},
                               currency : Currencies]
    /\ Configs \subseteq [rules : SUBSET Rules, target : Nat \cup {None},
                          drop : Nat \cup {None}]
    /\ Owners \subseteq Owner
    /\ Patches \subseteq SettingsPatch
    /\ MaxThreshold \in Nat /\ DefaultThreshold <= MaxThreshold
    /\ \A p \in Patches : p.failureThreshold # None => p.failureThreshold <= MaxThreshold
    /\ Conditional \subseteq Listings
    /\ MaxEdits \in Nat
    /\ MaxFaults \in Nat
    /\ None \notin Listings \cup Currencies \cup Nat \cup Observations
    (* null is none of the records the handlers and tables hold.            *)
    /\ None \notin SettingsRow \cup Memory \cup Snapshot \cup Route \cup Outcome
                   \cup Sight \cup Request

VARIABLES
    config,       \* the product's alert configuration
    denomination, \* products.currency
    active,       \* listings.active
    points,       \* the newest two price points of each listing, newest first
    newestIn,     \* the newest price point of each listing in each currency
    runs,         \* the newest check runs of each listing, newest first
    broken,       \* the listings whose brokenReportedAt is set
    memory,       \* alert_state: rule -> [price, cooling] or None
    settings,     \* the settings row, or None before it is seeded
    owner,        \* the owner's account
    saving,       \* the admin's request: [step, patch] or None
    pc,           \* where each handler stands
    cur,          \* the listing it is checking, or None
    snap,         \* the rows it loaded
    moved,        \* handlers whose listing was edited since they loaded it
    via,          \* the threshold and the channels it goes by
    result,       \* what it recorded: the run's status, was a price written
    seen,         \* the observations it has read
    pending,      \* the triggers it has still to send
    edits,        \* edits so far (bounded by MaxEdits)
    faults        \* crashes and failed calls so far (MaxFaults)

productVars == <<config, denomination, active>>
historyVars == <<points, newestIn, runs>>
alertVars == <<broken, memory>>
settingsVars == <<settings, owner, saving>>
handlerVars == <<pc, cur, snap, moved, via, result, seen, pending>>
boundVars == <<edits, faults>>
vars == <<productVars, historyVars, alertVars, settingsVars, handlerVars, boundVars>>

-----------------------------------------------------------------------------
Take(s, n) == SubSeq(s, 1, IF Len(s) < n THEN Len(s) ELSE n)

Latest(l) == IF points[l] = <<>> THEN None ELSE points[l][1]
Previous(l) == IF Len(points[l]) < 2 THEN None ELSE points[l][2]

(* latestSampleByListing: the newest point of every active listing among   *)
(* those in currency d, or among all while the product has no currency.    *)
Current(d) ==
    {o \in {IF d = None THEN Latest(l) ELSE newestIn[l][d] :
               l \in {k \in Listings : active[k]}} : o # None}

NoMemory == [r \in Rules |-> None]

(* The failures runFailureAlert counts when it goes by threshold n.        *)
Failures(l, n) == LeadingFailures(Take(runs[l], n))

(* Where an alert of now would go.                                         *)
Destinations ==
    IF settings = None THEN {} ELSE Offered(settings) \cap Allowed(owner)

(* Is every one of the newest runs of l a failure, as many as the settings *)
(* of now ask for?                                                         *)
Streak(l) ==
    LET s == IF settings = None THEN SeedRow ELSE settings
    IN  Failures(l, s.failureThreshold) >= s.failureThreshold

Goto(h, where) == pc' = [pc EXCEPT ![h] = where]

(* checkListing's `finally`: handler h is done with its listing.           *)
Finish(h) ==
    /\ Goto(h, "idle")
    /\ cur' = [cur EXCEPT ![h] = None]
    /\ snap' = [snap EXCEPT ![h] = None]
    /\ moved' = moved \ {h}
    /\ via' = [via EXCEPT ![h] = None]
    /\ result' = [result EXCEPT ![h] = None]
    /\ seen' = [seen EXCEPT ![h] = None]
    /\ pending' = [pending EXCEPT ![h] = <<>>]

-----------------------------------------------------------------------------
Init ==
    /\ config \in Configs
    /\ denomination = None
    /\ active = [l \in Listings |-> TRUE]
    /\ points = [l \in Listings |-> <<>>]
    /\ newestIn = [l \in Listings |-> [d \in Currencies |-> None]]
    /\ runs = [l \in Listings |-> <<>>]
    /\ broken = {}
    /\ memory = NoMemory
    /\ settings = None
    /\ owner \in Owners
    /\ saving = None
    /\ pc = [h \in Handlers |-> "idle"]
    /\ cur = [h \in Handlers |-> None]
    /\ snap = [h \in Handlers |-> None]
    /\ moved = {}
    /\ via = [h \in Handlers |-> None]
    /\ result = [h \in Handlers |-> None]
    /\ seen = [h \in Handlers |-> None]
    /\ pending = [h \in Handlers |-> <<>>]
    /\ edits = 0
    /\ faults = 0

-----------------------------------------------------------------------------
(* The check, up to its commit.                                            *)

(* inFlight lets one check of a listing run; it works from the rows as     *)
(* they are now.                                                           *)
LoadCheckable(h, l) ==
    /\ pc[h] = "idle"
    /\ \A g \in Handlers : cur[g] # l
    /\ active[l]
    /\ Goto(h, "fetch")
    /\ cur' = [cur EXCEPT ![h] = l]
    /\ snap' = [snap EXCEPT ![h] = [broken |-> l \in broken, config |-> config,
                                    denomination |-> denomination]]
    /\ UNCHANGED <<productVars, historyVars, alertVars, settingsVars, moved, via, result,
                   seen, pending, boundVars>>

(* The check run every persisted or stale check leaves behind.             *)
LogRun(l, status) ==
    runs' = [runs EXCEPT ![l] = Take(<<status>> \o @, MaxThreshold)]

Committed(h, status, written) ==
    /\ pc[h] = "fetch"
    /\ h \notin moved
    /\ LogRun(cur[h], status)
    /\ result' = [result EXCEPT ![h] = [status |-> status, written |-> written]]
    /\ Goto(h, "open")
    /\ UNCHANGED <<config, active, alertVars, settingsVars, cur, snap, moved, via, seen,
                   pending, boundVars>>

(* A price was read: its point, and the product's currency if it had none. *)
RecordPrice(h, o) ==
    /\ Committed(h, "ok", TRUE)
    /\ points' = [points EXCEPT ![cur[h]] = Take(<<o>> \o @, 2)]
    /\ newestIn' = [newestIn EXCEPT ![cur[h]][o.currency] = o]
    /\ denomination' =
          IF snap[h].denomination = None THEN o.currency ELSE denomination

(* A 304: a healthy check, and nothing new to record.                      *)
RecordUnchanged(h) ==
    /\ Committed(h, "ok", FALSE)
    /\ cur[h] \in Conditional /\ points[cur[h]] # <<>>
    /\ UNCHANGED <<points, newestIn, denomination>>

RecordFailure(h) ==
    /\ Committed(h, "failed", FALSE)
    /\ UNCHANGED <<points, newestIn, denomination>>

(* The listing was edited meanwhile: the run is kept, alerting is not run. *)
RecordStale(h, status) ==
    /\ pc[h] = "fetch"
    /\ h \in moved
    /\ LogRun(cur[h], status)
    /\ Finish(h)
    /\ UNCHANGED <<productVars, points, newestIn, alertVars, settingsVars, boundVars>>

-----------------------------------------------------------------------------
(* runAlerting                                                             *)

(* loadSettings: the row, if it is there.                                  *)
ReadSettings(h) ==
    /\ pc[h] = "open"
    /\ IF settings = None
         THEN Goto(h, "seed") /\ UNCHANGED via
         ELSE /\ Goto(h, "targets")
              /\ via' = [via EXCEPT ![h] =
                    [threshold |-> settings.failureThreshold,
                     channels |-> Offered(settings)]]
    /\ UNCHANGED <<productVars, historyVars, alertVars, settingsVars, cur, snap,
                   moved, result, seen, pending, boundVars>>

(* MUTANT of Seeded: the insert overwrites a row that came in meanwhile.   *)
SeededOver == SeedRow

(* insert ... on conflict do nothing                                       *)
Seeded == IF settings = None THEN SeedRow ELSE settings

(* The row was missing: create it, and read it again.                      *)
SeedSettings(h) ==
    /\ pc[h] = "seed"
    /\ settings' = Seeded
    /\ Goto(h, "open")
    /\ UNCHANGED <<productVars, historyVars, alertVars, owner, saving, cur, snap,
                   moved, via, result, seen, pending, boundVars>>

(* The channels an alert of this check goes out on: alertTargets reads the *)
(* account after the settings.                                             *)
Targets(h) == via[h].channels \cap Allowed(owner)

OpenAlerting(h) ==
    /\ pc[h] = "targets"
    /\ Targets(h) # {}
    /\ via' = [via EXCEPT ![h].channels = Targets(h)]
    /\ Goto(h, IF result[h].written THEN "samples" ELSE "failure")
    /\ UNCHANGED <<productVars, historyVars, alertVars, settingsVars, cur, snap,
                   moved, result, seen, pending, boundVars>>

(* What an ok check does about the flag it loaded.                         *)
ClearedBy(h) ==
    IF result[h].status = "ok" /\ snap[h].broken THEN broken \ {cur[h]}
                                                ELSE broken

(* MUTANT of AlertingOff: no channel, nothing to do.                       *)
AlertingOffForgetful(h) ==
    /\ pc[h] = "targets"
    /\ Targets(h) = {}
    /\ Finish(h)
    /\ UNCHANGED <<productVars, historyVars, alertVars, settingsVars, boundVars>>

(* No channel at all: only the flag of a recovered listing is cleared.     *)
AlertingOff(h) ==
    /\ pc[h] = "targets"
    /\ Targets(h) = {}
    /\ broken' = ClearedBy(h)
    /\ Finish(h)
    /\ UNCHANGED <<productVars, historyVars, memory, settingsVars, boundVars>>

(* recentSamples and cheapestCurrentSample.  Only this handler can add a   *)
(* point to its listing, so the two reads are one step.                    *)
ReadSamples(h) ==
    /\ pc[h] = "samples"
    /\ seen' = [seen EXCEPT ![h] =
          [latest |-> Latest(cur[h]), previous |-> Previous(cur[h]),
           cheapest |-> CheapestRow(Current(snap[h].denomination))]]
    /\ Goto(h, "evaluate")
    /\ UNCHANGED <<productVars, historyVars, alertVars, settingsVars, cur, snap,
                   moved, via, result, pending, boundVars>>

(* loadMemory and evaluateAlerts, with the configuration it loaded.        *)
EvaluateRules(h) ==
    LET news == Triggers(snap[h].config, seen[h].latest, seen[h].previous,
                         seen[h].cheapest, memory)
    IN
    /\ pc[h] = "evaluate"
    /\ pending' = [pending EXCEPT ![h] = news]
    /\ seen' = [seen EXCEPT ![h] = None]
    /\ Goto(h, IF news = <<>> THEN "failure" ELSE "send")
    /\ UNCHANGED <<productVars, historyVars, alertVars, settingsVars, cur, snap,
                   moved, via, result, boundVars>>

(* The next trigger in rule order, or on to the failure alarm.             *)
NextTrigger(h) ==
    /\ pending' = [pending EXCEPT ![h] = Tail(@)]
    /\ Goto(h, IF Len(pending[h]) = 1 THEN "failure" ELSE "send")

(* deliver: the alert goes out on every channel of the check.              *)
SendAlert(h, answers) ==
    /\ pc[h] = "send"
    /\ IF Delivered(answers) THEN Goto(h, "remember") /\ UNCHANGED pending
                    ELSE NextTrigger(h)
    /\ UNCHANGED <<productVars, historyVars, alertVars, settingsVars, cur, snap,
                   moved, via, result, seen, boundVars>>

RememberAlert(h) ==
    LET t == pending[h][1] IN
    /\ pc[h] = "remember"
    /\ memory' = [memory EXCEPT ![t.rule] = [price |-> t.price, cooling |-> TRUE]]
    /\ NextTrigger(h)
    /\ UNCHANGED <<productVars, historyVars, broken, settingsVars, cur, snap, moved,
                   via, result, seen, boundVars>>

(* runFailureAlert after an ok check                                       *)
Recover(h) ==
    /\ pc[h] = "failure"
    /\ result[h].status = "ok"
    /\ broken' = ClearedBy(h)
    /\ Finish(h)
    /\ UNCHANGED <<productVars, historyVars, memory, settingsVars, boundVars>>

(* runFailureAlert after a failed one: the streak is read from check_runs, *)
(* the flag from the row the check loaded.                                 *)
CountFailures(h) ==
    /\ pc[h] = "failure"
    /\ result[h].status = "failed"
    /\ IF ShouldReportBroken(Failures(cur[h], via[h].threshold), snap[h].broken,
                             via[h].threshold)
         THEN Goto(h, "alarm") /\ UNCHANGED <<cur, snap, moved, via, result, seen, pending>>
         ELSE Finish(h)
    /\ UNCHANGED <<productVars, historyVars, alertVars, settingsVars, boundVars>>

SendAlarm(h, answers) ==
    /\ pc[h] = "alarm"
    /\ IF Delivered(answers)
         THEN Goto(h, "mark") /\ UNCHANGED <<cur, snap, moved, via, result, seen, pending>>
         ELSE Finish(h)
    /\ UNCHANGED <<productVars, historyVars, alertVars, settingsVars, boundVars>>

MarkBroken(h) ==
    /\ pc[h] = "mark"
    /\ broken' = broken \cup {cur[h]}
    /\ Finish(h)
    /\ UNCHANGED <<productVars, historyVars, memory, settingsVars, boundVars>>

(* A database call throws; runAlerting swallows it and gives up.           *)
AlertingFails(h) ==
    /\ faults < MaxFaults
    /\ pc[h] \in {"open", "seed", "targets", "samples", "evaluate", "remember", "failure", "mark"}
    /\ faults' = faults + 1
    /\ Finish(h)
    /\ UNCHANGED <<productVars, historyVars, alertVars, settingsVars, edits>>

Crash ==
    /\ faults < MaxFaults
    /\ \E h \in Handlers : pc[h] # "idle"
    /\ faults' = faults + 1
    /\ pc' = [h \in Handlers |-> "idle"]
    /\ cur' = [h \in Handlers |-> None]
    /\ snap' = [h \in Handlers |-> None]
    /\ moved' = {}
    /\ via' = [h \in Handlers |-> None]
    /\ result' = [h \in Handlers |-> None]
    /\ seen' = [h \in Handlers |-> None]
    /\ pending' = [h \in Handlers |-> <<>>]
    /\ UNCHANGED <<productVars, historyVars, alertVars, settingsVars, edits>>

-----------------------------------------------------------------------------
(* Beside the worker: users edit, cooldowns run out.                       *)

(* products.update; it does not touch the listings' updatedAt.             *)
EditProduct(c) ==
    /\ edits < MaxEdits
    /\ c # config
    /\ config' = c
    /\ edits' = edits + 1
    /\ UNCHANGED <<denomination, active, historyVars, alertVars, settingsVars,
                   handlerVars, faults>>

(* listings.update: paused, resumed, or edited in some other way.          *)
EditListing(l, a) ==
    /\ edits < MaxEdits
    /\ active' = [active EXCEPT ![l] = a]
    /\ moved' = moved \cup {h \in Handlers : cur[h] = l /\ pc[h] = "fetch"}
    /\ edits' = edits + 1
    /\ UNCHANGED <<config, denomination, historyVars, alertVars, settingsVars, pc,
                   cur, snap, via, result, seen, pending, faults>>

(* settings.update; it loads the row first.  A patch that changes nothing  *)
(* is settings.get, which loads it too.                                    *)
RequestSettings(p) ==
    /\ edits < MaxEdits
    /\ saving = None
    /\ saving' = [step |-> IF settings = None THEN "seed" ELSE "write", patch |-> p]
    /\ edits' = edits + 1
    /\ UNCHANGED <<productVars, historyVars, alertVars, settings, owner,
                   handlerVars, faults>>

SeedForRequest ==
    /\ saving # None /\ saving.step = "seed"
    /\ settings' = Seeded
    /\ saving' = [saving EXCEPT !.step = "write"]
    /\ UNCHANGED <<productVars, historyVars, alertVars, owner, handlerVars, boundVars>>

SaveSettings ==
    /\ saving # None /\ saving.step = "write"
    /\ settings' = Patched(settings, saving.patch)
    /\ saving' = None
    /\ UNCHANGED <<productVars, historyVars, alertVars, owner, handlerVars, boundVars>>

(* settings.updateEmailPrefs, for the owner's own account.                 *)
UpdateEmailPrefs(wanted) ==
    /\ edits < MaxEdits
    /\ wanted # owner.emailAlertsEnabled
    /\ owner' = [owner EXCEPT !.emailAlertsEnabled = wanted]
    /\ edits' = edits + 1
    /\ UNCHANGED <<productVars, historyVars, alertVars, settings, saving,
                   handlerVars, faults>>

CooldownPasses(r) ==
    /\ memory[r] # None
    /\ memory[r].cooling
    /\ memory' = [memory EXCEPT ![r].cooling = FALSE]
    /\ UNCHANGED <<productVars, historyVars, broken, settingsVars, handlerVars,
                   boundVars>>

-----------------------------------------------------------------------------
HandlerStep(h) ==
    \/ \E o \in Observations : RecordPrice(h, o)
    \/ RecordUnchanged(h)
    \/ RecordFailure(h)
    \/ \E status \in {"ok", "failed"} : RecordStale(h, status)
    \/ ReadSettings(h)
    \/ SeedSettings(h)
    \/ OpenAlerting(h)
    \/ AlertingOff(h)
    \/ ReadSamples(h)
    \/ EvaluateRules(h)
    \/ /\ pc[h] \in {"send", "alarm"}
       /\ \E answers \in [via[h].channels -> Answers] :
             SendAlert(h, answers) \/ SendAlarm(h, answers)
    \/ RememberAlert(h)
    \/ Recover(h)
    \/ CountFailures(h)
    \/ MarkBroken(h)

Edit ==
    \/ \E c \in Configs : EditProduct(c)
    \/ \E l \in Listings, a \in BOOLEAN : EditListing(l, a)
    \/ \E p \in Patches : RequestSettings(p)
    \/ SeedForRequest
    \/ SaveSettings
    \/ \E wanted \in BOOLEAN : UpdateEmailPrefs(wanted)

Next ==
    \/ \E h \in Handlers : (\E l \in Listings : LoadCheckable(h, l)) \/ HandlerStep(h)
    \/ \E h \in Handlers : AlertingFails(h)
    \/ Crash
    \/ Edit
    \/ \E r \in Rules : CooldownPasses(r)

Spec == Init /\ [][Next]_vars

AlarmLands(h) ==
    /\ pc[h] = "alarm"
    /\ \E answers \in [via[h].channels -> Answers] :
          Delivered(answers) /\ SendAlarm(h, answers)

(* A due listing is checked in the end (CheckPipeline's DueIsChecked), its *)
(* check goes on, and a channel that is tried again and again lands.       *)
Fairness ==
    /\ \A l \in Listings : SF_vars(\E h \in Handlers : LoadCheckable(h, l))
    /\ \A h \in Handlers : WF_vars(HandlerStep(h))
    /\ \A h \in Handlers, l \in Listings : SF_vars(cur[h] = l /\ AlarmLands(h))

FairSpec == Spec /\ Fairness

-----------------------------------------------------------------------------
RowTypes ==
    /\ config \in Configs
    /\ denomination \in Currencies \cup {None}
    /\ active \in [Listings -> BOOLEAN]
    /\ points \in [Listings -> Seq(Observations)]
    /\ newestIn \in [Listings -> [Currencies -> Observations \cup {None}]]
    /\ runs \in [Listings -> Seq({"ok", "failed"})]
    /\ \A l \in Listings : Len(points[l]) <= 2 /\ Len(runs[l]) <= MaxThreshold
    /\ broken \subseteq Listings
    /\ memory \in [Rules -> Memory \cup {None}]

SettingsTypes ==
    /\ settings \in SettingsRow \cup {None}
    /\ owner \in Owner
    /\ saving \in Request \cup {None}
    /\ saving # None /\ saving.step = "write" => settings # None

(* A handler has what the place it is at needs, and nothing else.          *)
Whole(h) ==
    /\ pc[h] = "idle" <=> cur[h] = None
    /\ pc[h] = "idle" <=> snap[h] = None
    /\ pc[h] \in {"idle", "fetch"} <=> result[h] = None
    /\ pc[h] \in {"idle", "fetch", "open", "seed"} <=> via[h] = None
    /\ pc[h] \in {"samples", "evaluate", "send", "remember", "failure",
                  "alarm", "mark"} => via[h].channels # {}
    /\ pc[h] = "evaluate" <=> seen[h] # None
    /\ pc[h] \in {"send", "remember"} <=> pending[h] # <<>>

HandlerTypes ==
    /\ pc \in [Handlers -> {"idle", "fetch", "open", "seed", "targets", "samples",
                            "evaluate", "send", "remember", "failure", "alarm", "mark"}]
    /\ cur \in [Handlers -> Listings \cup {None}]
    /\ snap \in [Handlers -> Snapshot \cup {None}]
    /\ moved \subseteq Handlers
    /\ via \in [Handlers -> Route \cup {None}]
    /\ result \in [Handlers -> Outcome \cup {None}]
    /\ seen \in [Handlers -> Sight \cup {None}]
    /\ pending \in [Handlers -> Seq(Trigger)]
    /\ \A h \in Handlers : Whole(h)

(* Every variable holds a value of its type, and a handler has a listing,  *)
(* a result, observations or triggers exactly where runAlerting does.      *)
TypeOK ==
    /\ RowTypes
    /\ SettingsTypes
    /\ HandlerTypes
    /\ edits \in 0..MaxEdits
    /\ faults \in 0..MaxFaults

(* An alert that lands is news when it lands, whichever store it is about: *)
(* the rule never alerted, or at a higher price, or its cooldown has run   *)
(* out (core/rules, "a target alert about store A does not let store B     *)
(* re-notify a minute later at the same price").                           *)
AlertIsNews ==
    [][\A h \in Handlers :
          pc[h] = "send" /\ pc'[h] = "remember" =>
             LET t == pending[h][1]
                 m == memory[t.rule]
             IN  m # None /\ m.cooling => t.price < m.price]_vars

(* One alarm per outage: none lands while the listing is already flagged,  *)
(* the flag appears only over a full streak of failed runs, and goes only  *)
(* after a run that was ok; whatever crashes and edits come between.       *)
OneAlarmPerOutage ==
    [][\A l \in Listings :
          /\ \A h \in Handlers :
                cur[h] = l /\ pc[h] = "alarm" /\ pc'[h] = "mark" => l \notin broken
          /\ l \notin broken /\ l \in broken' =>
                \E h \in Handlers : cur[h] = l /\ pc[h] = "mark"
                    /\ Failures(l, via[h].threshold) = via[h].threshold
          /\ l \in broken /\ l \notin broken' => LeadingFailures(runs[l]) = 0]_vars

(* A check that was recorded as ok and whose alerting is not cut short     *)
(* leaves the listing unflagged, whether or not any channel is configured  *)
(* (alerting.ts, "a later configuration does not inherit a stale flag").   *)
RecoveryClears ==
    [][\A h \in Handlers :
          result[h] # None /\ pc'[h] = "idle" /\ faults' = faults =>
             (result[h].status = "ok" => cur[h] \notin broken')]_vars

(* A listing that goes on failing is reported, unless it is paused or      *)
(* there is nowhere to report it to.                                       *)
BrokenIsTold ==
    \A l \in Listings :
        []<>(Streak(l) /\ Destinations # {} /\ active[l] => l \in broken)

(* A row once it is there changes by a save and by nothing else: neither   *)
(* process's seed undoes what an admin saved between its read and its      *)
(* insert ("the loser of that race wants the winner's row", settings.ts).  *)
SavedSettingsKept ==
    [][settings # None /\ settings' # settings =>
          saving # None /\ saving' = None /\ settings' = Patched(settings, saving.patch)]_vars
=============================================================================
