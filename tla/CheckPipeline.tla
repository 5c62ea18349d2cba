--------------------------- MODULE CheckPipeline ---------------------------
(***************************************************************************)
(* A price check from the moment a listing falls due until its result is   *)
(* in the database: the minutely dispatcher, the two pg-boss check queues, *)
(* the worker's batch handlers with their process-local `inFlight` set,    *)
(* the snapshot / fetch / persist / alert steps of one check, and the API  *)
(* requests (update, remove, pause, check now) that run beside them in the *)
(* web process.                                                            *)
(*                                                                         *)
(* Time is the flag `due` (nextCheckAt has passed).  The column updatedAt  *)
(* is used by the code for one thing, to tell whether a row was updated    *)
(* since a check loaded it, so it is kept as that fact: `moved` holds the  *)
(* handlers whose row was updated after their snapshot.  (Two updates in   *)
(* one millisecond are not told apart by the code; they are here.)         *)
(***************************************************************************)
EXTENDS Naturals, FiniteSets

CONSTANTS
    Listings,    \* listing ids (uuids: never reused)
    Products,    \* product ids
    ProductOf,   \* the product each listing belongs to
    Settings,    \* extractor / expression / locale / render, as one value
    Browser,     \* the settings that render in the sidecar: no validators
    Pages,       \* versions of a store page's body
    Readable,    \* <<s, p>>: settings s read an unambiguous price off page p
    Tagged,      \* the pages served with an etag / last-modified header
    Currencies,
    CurrencyOf,  \* the currency a page states, or None
    Handlers,    \* handler invocations that may be running at once
    Editors,     \* API requests that may be in progress at once
    BatchSize,   \* CHECK_BATCH_SIZE
    RetryLimit,  \* CHECK_RETRY_LIMIT
    MaxEdits,    \* bound: listing and product updates per behaviour
    MaxFaults,   \* bound: worker crashes, expiries and database faults
    None,        \* SQL null, or "nothing yet"
    Keep         \* a key the update input does not carry

ASSUME PipelineAssumption ==
    /\ ProductOf \in [Listings -> Products]
    /\ Settings # {}
    /\ Browser \subseteq Settings
    /\ Readable \subseteq Settings \X Pages
    /\ Tagged \subseteq Pages
    /\ CurrencyOf \in [Pages -> Currencies \cup {None}]
    /\ BatchSize \in Nat \ {0}
    /\ RetryLimit \in Nat
    /\ MaxEdits \in Nat
    /\ MaxFaults \in Nat
    /\ None \notin Listings \cup Settings \cup Pages \cup Currencies
    /\ Keep \notin Settings \cup Currencies \cup BOOLEAN \cup {None}

Scheduled == "check-listing"
Manual == "check-listing-now"
Queues == {Scheduled, Manual}

VARIABLES
    product,    \* products: status, active, title
    listing,    \* listings: status, active, settings, currency, etag, due
    latest,     \* the newest price point of each listing, or None
    page,       \* what each listing's store serves now
    job,        \* the live pg-boss job of each listing in each queue
    tick,       \* due listings the dispatcher has read and not yet sent
    pc,         \* where each handler invocation stands
    queue,      \* the queue a handler invocation serves
    batch,      \* the jobs it will complete or fail; {} once they expired
    todo,       \* the jobs of its batch it has not started
    cur,        \* the listing it is checking, or None
    snap,       \* what loadCheckable returned for it
    resp,       \* what retrievePage returned for it
    moved,      \* handlers whose listing row was updated since loadCheckable
    inFlight,   \* the worker's inFlight set
    api,        \* API requests between their read and their write
    edits,      \* updates so far (bounded by MaxEdits)
    faults      \* crashes, expiries and database faults so far (MaxFaults)

rowVars == <<product, listing, latest>>
jobVars == <<job, tick>>
checkVars == <<cur, snap, resp, moved, inFlight>>
handlerVars == <<pc, queue, batch, todo>>
boundVars == <<edits, faults>>
vars == <<rowVars, page, jobVars, checkVars, handlerVars, api, boundVars>>

-----------------------------------------------------------------------------
Status == {"absent", "live", "gone"}
ProductRow == [status : Status, active : BOOLEAN, title : {None, "user", "page"}]
ListingRow == [status : Status, active : BOOLEAN, settings : Settings,
               currency : Currencies \cup {None}, etag : Pages \cup {None},
               due : BOOLEAN]
PricePoint == [page : Pages, currency : Currencies]
Job == [state : {"none", "queued", "active"}, tries : 0..RetryLimit]
Snapshot == [settings : Settings, currency : Currencies \cup {None},
             etag : Pages \cup {None}, titled : BOOLEAN]
Response == [kind : {"ok", "not_modified", "failed"}, page : Pages \cup {None}]
Request == [op : {"idle", "update", "remove"}, listing : Listings \cup {None},
            settings : Settings \cup {None}, due : BOOLEAN]

ASSUME NoneAssumption == None \notin Snapshot \cup Response \cup PricePoint

Idle == [op |-> "idle", listing |-> None, settings |-> None, due |-> FALSE]
NoJob == [state |-> "none", tries |-> 0]

Live(l) == listing[l].status = "live"
LiveListings(p) == {l \in Listings : ProductOf[l] = p /\ Live(l)}

(* The dispatcher's WHERE clause without its clock.                        *)
Checkable(l) ==
    Live(l) /\ listing[l].active /\ product[ProductOf[l]].active

(* `extractedCurrency ?? listing.currency`                                 *)
Resolved(s, p) == IF CurrencyOf[p] # None THEN CurrencyOf[p] ELSE s.currency

(* MUTANT of Accepted: the ambiguity gate is forgotten.                    *)
AcceptedAmbiguous(s, r) ==
    /\ r.kind = "ok"
    /\ Resolved(s, r.page) # None

(* acceptedObservation: an unambiguous price and a currency to store it in *)
Accepted(s, r) ==
    /\ r.kind = "ok"
    /\ <<s.settings, r.page>> \in Readable
    /\ Resolved(s, r.page) # None

(* Does fetching page p under snapshot s come back with a validator?       *)
CarriesTag(s, p) == s.settings \notin Browser /\ p \in Tagged

(* MUTANTS of EarnsValidator: any 200 earns its validator; a validator     *)
(* once stored is never replaced.                                          *)
EarnsValidatorAlways(s, r) ==
    \/ r.kind = "not_modified"
    \/ r.kind = "ok" /\ CarriesTag(s, r.page)

EarnsValidatorOnce(s, r) ==
    \/ r.kind = "not_modified"
    \/ Accepted(s, r) /\ CarriesTag(s, r.page) /\ s.etag = None

(* validatorUpdate: a 200 earns its validator only with an accepted price; *)
(* a 304 may refresh the stored one.                                       *)
EarnsValidator(s, r) ==
    \/ r.kind = "not_modified"
    \/ Accepted(s, r) /\ CarriesTag(s, r.page)

(* What retrievePage may return for snapshot s while the store serves p. A *)
(* server may ignore the conditional headers; "failed" is http_error,      *)
(* network_error, timeout and renderer_error.                              *)
Responses(s, p) ==
    {[kind |-> "ok", page |-> p], [kind |-> "failed", page |-> None]}
      \cup {r \in {[kind |-> "not_modified", page |-> p]} :
                CarriesTag(s, p) /\ s.etag = p}

(* MUTANT of Loaded: an update does not stamp updatedAt.                   *)
LoadedUnstamped(l) == {}

(* The handlers that hold a snapshot of listing l.                         *)
Loaded(l) == {h \in Handlers : cur[h] = l /\ pc[h] \in {"retrieve", "persist"}}

-----------------------------------------------------------------------------
Init ==
    /\ product = [p \in Products |->
                    [status |-> "absent", active |-> TRUE, title |-> None]]
    /\ listing = [l \in Listings |->
                    [status |-> "absent", active |-> TRUE,
                     settings |-> CHOOSE s \in Settings : TRUE,
                     currency |-> None, etag |-> None, due |-> FALSE]]
    /\ latest = [l \in Listings |-> None]
    /\ page \in [Listings -> Pages]
    /\ job = [q \in Queues |-> [l \in Listings |-> NoJob]]
    /\ tick = {}
    /\ pc = [h \in Handlers |-> "idle"]
    /\ queue = [h \in Handlers |-> Scheduled]
    /\ batch = [h \in Handlers |-> {}]
    /\ todo = [h \in Handlers |-> {}]
    /\ cur = [h \in Handlers |-> None]
    /\ snap = [h \in Handlers |-> None]
    /\ resp = [h \in Handlers |-> None]
    /\ moved = {}
    /\ inFlight = {}
    /\ api = [e \in Editors |-> Idle]
    /\ edits = 0
    /\ faults = 0

-----------------------------------------------------------------------------
(* The world outside: stores change their pages, nextCheckAt passes.       *)

PageChanges(l) ==
    /\ \E p \in Pages \ {page[l]} : page' = [page EXCEPT ![l] = p]
    /\ UNCHANGED <<rowVars, jobVars, checkVars, handlerVars, api, boundVars>>

NextCheckPasses(l) ==
    /\ Live(l) /\ ~listing[l].due
    /\ listing' = [listing EXCEPT ![l].due = TRUE]
    /\ UNCHANGED <<product, latest, page, jobVars, checkVars, handlerVars,
                   api, boundVars>>

-----------------------------------------------------------------------------
(* pg-boss, as the two check queues are configured: policy `exclusive` on  *)
(* singletonKey = listing id admits one queued or active job per listing   *)
(* and queue, a failed or expired job is queued again until its retries    *)
(* run out.                                                                *)

Sent(q, l) ==
    IF job[q][l].state = "none"
      THEN [job EXCEPT ![q][l] = [state |-> "queued", tries |-> 0]]
      ELSE job

Retried(j) ==
    IF j.tries < RetryLimit THEN [state |-> "queued", tries |-> j.tries + 1]
                            ELSE NoJob

Failed(q, S) ==
    [job EXCEPT ![q] = [l \in Listings |-> IF l \in S THEN Retried(@[l]) ELSE @[l]]]

Completed(q, S) ==
    [job EXCEPT ![q] = [l \in Listings |-> IF l \in S THEN NoJob ELSE @[l]]]

(* The dispatcher reads the due listings, then sends one job after another. *)
EnqueueDueChecks ==
    /\ tick = {}
    /\ tick' = {l \in Listings : Checkable(l) /\ listing[l].due}
    /\ tick' # {}
    /\ UNCHANGED <<rowVars, page, job, checkVars, handlerVars, api, boundVars>>

SendDueCheck(l) ==
    /\ l \in tick
    /\ job' = Sent(Scheduled, l)
    /\ tick' = tick \ {l}
    /\ UNCHANGED <<rowVars, page, checkVars, handlerVars, api, boundVars>>

(* listings.checkNow; products.checkNow is one of these per active listing. *)
CheckNow(l) ==
    /\ Live(l)
    /\ job' = Sent(Manual, l)
    /\ UNCHANGED <<rowVars, page, tick, checkVars, handlerVars, api, boundVars>>

(* boss.work: one poller per queue hands a batch of queued jobs to the     *)
(* handler and waits until they are completed, failed or expired.          *)
FetchBatch(q, h, S) ==
    /\ pc[h] = "idle"
    /\ \A g \in Handlers : batch[g] # {} => queue[g] # q
    /\ S # {} /\ Cardinality(S) <= BatchSize
    /\ \A l \in S : job[q][l].state = "queued"
    /\ job' = [job EXCEPT ![q] = [l \in Listings |->
                  IF l \in S THEN [@[l] EXCEPT !.state = "active"] ELSE @[l]]]
    /\ pc' = [pc EXCEPT ![h] = "next"]
    /\ queue' = [queue EXCEPT ![h] = q]
    /\ batch' = [batch EXCEPT ![h] = S]
    /\ todo' = [todo EXCEPT ![h] = S]
    /\ UNCHANGED <<rowVars, page, tick, checkVars, api, boundVars>>

(* The batch outlives CHECK_EXPIRE_SECONDS: its jobs are retried or given  *)
(* up, but nothing stops the handler, which goes on with what it has left. *)
Expire(h) ==
    /\ faults < MaxFaults
    /\ batch[h] # {}
    /\ job' = Failed(queue[h], batch[h])
    /\ batch' = [batch EXCEPT ![h] = {}]
    /\ faults' = faults + 1
    /\ UNCHANGED <<rowVars, page, tick, checkVars, pc, queue, todo, api, edits>>

(* MUTANT of Reclaim: nobody supervises the queues.                         *)
ReclaimNever(q, l) == FALSE /\ UNCHANGED vars

(* pg-boss's supervision finds an active job no living handler holds.      *)
Reclaim(q, l) ==
    /\ job[q][l].state = "active"
    /\ \A h \in Handlers : queue[h] = q => l \notin batch[h]
    /\ job' = Failed(q, {l})
    /\ UNCHANGED <<rowVars, page, tick, checkVars, handlerVars, api, boundVars>>

(* The worker process dies; so does what its handlers were doing.          *)
Crash ==
    /\ faults < MaxFaults
    /\ faults' = faults + 1
    /\ pc' = [h \in Handlers |-> "idle"]
    /\ batch' = [h \in Handlers |-> {}]
    /\ todo' = [h \in Handlers |-> {}]
    /\ cur' = [h \in Handlers |-> None]
    /\ snap' = [h \in Handlers |-> None]
    /\ resp' = [h \in Handlers |-> None]
    /\ moved' = {}
    /\ inFlight' = {}
    /\ tick' = {}
    /\ UNCHANGED <<rowVars, page, job, queue, api, edits>>

-----------------------------------------------------------------------------
(* checkHandler and checkListing in the worker.                            *)

(* MUTANT of LeaveCheck: the inFlight entry is never deleted.              *)
LeaveCheckLocked(h) ==
    /\ cur' = [cur EXCEPT ![h] = None]
    /\ snap' = [snap EXCEPT ![h] = None]
    /\ resp' = [resp EXCEPT ![h] = None]
    /\ moved' = moved \ {h}
    /\ UNCHANGED inFlight

(* The `finally` of checkListing.                                          *)
LeaveCheck(h) ==
    /\ cur' = [cur EXCEPT ![h] = None]
    /\ snap' = [snap EXCEPT ![h] = None]
    /\ resp' = [resp EXCEPT ![h] = None]
    /\ moved' = moved \ {h}
    /\ inFlight' = inFlight \ {cur[h]}

(* MUTANT of BeginCheck: the inFlight test is left to the queue's policy.  *)
BeginCheckUnguarded(h, l) ==
    /\ pc[h] = "next"
    /\ l \in todo[h]
    /\ inFlight' = inFlight \cup {l}
    /\ cur' = [cur EXCEPT ![h] = l]
    /\ todo' = [todo EXCEPT ![h] = @ \ {l}]
    /\ pc' = [pc EXCEPT ![h] = "load"]
    /\ UNCHANGED <<rowVars, page, jobVars, snap, resp, moved, queue, batch,
                   api, boundVars>>

BeginCheck(h, l) ==
    /\ pc[h] = "next"
    /\ l \in todo[h]
    /\ l \notin inFlight
    /\ inFlight' = inFlight \cup {l}
    /\ cur' = [cur EXCEPT ![h] = l]
    /\ todo' = [todo EXCEPT ![h] = @ \ {l}]
    /\ pc' = [pc EXCEPT ![h] = "load"]
    /\ UNCHANGED <<rowVars, page, jobVars, snap, resp, moved, queue, batch,
                   api, boundVars>>

(* "check already in flight": the job is dropped, and completes as done.   *)
SkipInFlight(h, l) ==
    /\ pc[h] = "next"
    /\ l \in todo[h]
    /\ l \in inFlight
    /\ todo' = [todo EXCEPT ![h] = @ \ {l}]
    /\ UNCHANGED <<rowVars, page, jobVars, checkVars, pc, queue, batch, api,
                   boundVars>>

CompleteBatch(h) ==
    /\ pc[h] = "next"
    /\ todo[h] = {}
    /\ job' = Completed(queue[h], batch[h])
    /\ batch' = [batch EXCEPT ![h] = {}]
    /\ pc' = [pc EXCEPT ![h] = "idle"]
    /\ UNCHANGED <<rowVars, page, tick, checkVars, queue, todo, api, boundVars>>

LoadCheckable(h) ==
    /\ pc[h] = "load"
    /\ Checkable(cur[h])
    /\ LET row == listing[cur[h]] IN
         snap' = [snap EXCEPT ![h] =
                    [settings |-> row.settings, currency |-> row.currency,
                     etag |-> row.etag,
                     titled |-> product[ProductOf[cur[h]]].title # None]]
    /\ moved' = moved \ {h}
    /\ pc' = [pc EXCEPT ![h] = "retrieve"]
    /\ UNCHANGED <<rowVars, page, jobVars, cur, resp, inFlight, queue, batch,
                   todo, api, boundVars>>

(* Not found, product inactive or listing inactive: nothing to check.      *)
NothingToCheck(h) ==
    /\ pc[h] = "load"
    /\ ~Checkable(cur[h])
    /\ LeaveCheck(h)
    /\ pc' = [pc EXCEPT ![h] = "next"]
    /\ UNCHANGED <<rowVars, page, jobVars, queue, batch, todo, api, boundVars>>

RetrievePage(h) ==
    /\ pc[h] = "retrieve"
    /\ \E r \in Responses(snap[h], page[cur[h]]) : resp' = [resp EXCEPT ![h] = r]
    /\ pc' = [pc EXCEPT ![h] = "persist"]
    /\ UNCHANGED <<rowVars, page, jobVars, cur, snap, moved, inFlight, queue,
                   batch, todo, api, boundVars>>

(* The row is claimed: reschedule, validators and backfills, price point,  *)
(* check run and product backfill commit together (buildWrite, persist).   *)
(* The backfills go by the snapshot; a page need not carry a title.        *)
PersistClaimed(h) ==
    LET l == cur[h]
        s == snap[h]
        r == resp[h]
        accepted == Accepted(s, r)
        row == listing[l]
    IN
    /\ pc[h] = "persist"
    /\ Live(l)
    /\ h \notin moved
    /\ listing' = [listing EXCEPT ![l] =
          [row EXCEPT
             !.due = FALSE,
             !.etag = IF EarnsValidator(s, r) THEN r.page ELSE row.etag,
             !.currency = IF accepted /\ s.currency = None
                            THEN Resolved(s, r.page) ELSE row.currency]]
    /\ latest' = IF accepted
                   THEN [latest EXCEPT ![l] =
                          [page |-> r.page, currency |-> Resolved(s, r.page)]]
                   ELSE latest
    /\ \/ UNCHANGED product
       \/ /\ accepted /\ ~s.titled
          /\ product' = [product EXCEPT ![ProductOf[l]].title = "page"]
    /\ moved' = (moved \cup Loaded(l)) \ {h}
    /\ snap' = [snap EXCEPT ![h] = None]
    /\ resp' = [resp EXCEPT ![h] = None]
    /\ pc' = [pc EXCEPT ![h] = "alert"]
    /\ UNCHANGED <<page, jobVars, cur, inFlight, queue, batch, todo,
                   api, boundVars>>

(* MUTANT of PersistStale: the stale branch reschedules the listing.       *)
PersistStaleReschedules(h) ==
    /\ pc[h] = "persist"
    /\ Live(cur[h])
    /\ h \in moved
    /\ listing' = [listing EXCEPT ![cur[h]].due = FALSE]
    /\ LeaveCheck(h)
    /\ pc' = [pc EXCEPT ![h] = "next"]
    /\ UNCHANGED <<product, latest, page, jobVars, queue, batch, todo, api,
                   boundVars>>

(* The row was updated since the snapshot: only the check run is kept.     *)
PersistStale(h) ==
    /\ pc[h] = "persist"
    /\ Live(cur[h])
    /\ h \in moved
    /\ LeaveCheck(h)
    /\ pc' = [pc EXCEPT ![h] = "next"]
    /\ UNCHANGED <<rowVars, page, jobVars, queue, batch, todo, api, boundVars>>

(* An error leaves checkListing and ends the handler: pg-boss fails every  *)
(* job of the batch, those already checked included.                       *)
Throw(h) ==
    /\ LeaveCheck(h)
    /\ pc' = [pc EXCEPT ![h] = "idle"]
    /\ todo' = [todo EXCEPT ![h] = {}]
    /\ batch' = [batch EXCEPT ![h] = {}]
    /\ job' = Failed(queue[h], batch[h])

(* The row is gone: the update claims nothing and the check run's foreign  *)
(* key no longer holds.                                                    *)
PersistOrphaned(h) ==
    /\ pc[h] = "persist"
    /\ ~Live(cur[h])
    /\ Throw(h)
    /\ UNCHANGED <<rowVars, page, tick, queue, api, boundVars>>

(* The database is unreachable while a check loads or persists.            *)
DatabaseFault(h) ==
    /\ faults < MaxFaults
    /\ faults' = faults + 1
    /\ pc[h] \in {"load", "persist"}
    /\ Throw(h)
    /\ UNCHANGED <<rowVars, page, tick, queue, api, edits>>

(* runAlerting swallows its errors.  What it writes (alert_state and       *)
(* brokenReportedAt) no check reads here, and the inFlight entry it still  *)
(* holds keeps every other check of the listing from having a snapshot.    *)
RunAlerting(h) ==
    /\ pc[h] = "alert"
    /\ LeaveCheck(h)
    /\ pc' = [pc EXCEPT ![h] = "next"]
    /\ UNCHANGED <<rowVars, page, jobVars, queue, batch, todo, api, boundVars>>

-----------------------------------------------------------------------------
(* API requests of the web process.                                        *)

(* buildListingInsert: the supplied settings, and nextCheckAt = now.       *)
Tracked(s, c) == [status |-> "live", active |-> TRUE, settings |-> s,
                  currency |-> c, etag |-> None, due |-> TRUE]

(* products.create: the product and its first listing, in one transaction. *)
CreateProduct(l, s, c, t) ==
    LET p == ProductOf[l] IN
    /\ product[p].status = "absent"
    /\ listing[l].status = "absent"
    /\ product' = [product EXCEPT ![p].status = "live", ![p].title = t]
    /\ listing' = [listing EXCEPT ![l] = Tracked(s, c)]
    /\ UNCHANGED <<latest, page, jobVars, checkVars, handlerVars, api, boundVars>>

AddListing(l, s, c) ==
    /\ product[ProductOf[l]].status = "live"
    /\ listing[l].status = "absent"
    /\ listing' = [listing EXCEPT ![l] = Tracked(s, c)]
    /\ UNCHANGED <<product, latest, page, jobVars, checkVars, handlerVars, api,
                   boundVars>>

(* listings.update, first half: the row the patch is computed against.     *)
BeginUpdate(e, l) ==
    /\ api[e].op = "idle"
    /\ edits < MaxEdits
    /\ Live(l)
    /\ edits' = edits + 1
    /\ api' = [api EXCEPT ![e] = [op |-> "update", listing |-> l,
                                  settings |-> listing[l].settings,
                                  due |-> listing[l].due]]
    /\ UNCHANGED <<rowVars, page, jobVars, checkVars, handlerVars, faults>>

Patched(old, new) == IF new = Keep THEN old ELSE new

(* buildListingUpdatePatch, applied to the row as it is by then.  `sooner` *)
(* is a new interval that ends before the nextCheckAt the request read.    *)
FinishUpdate(e, s, c, a, sooner) ==
    LET l == api[e].listing
        row == listing[l]
        changed == s # Keep /\ s # api[e].settings
    IN
    /\ api[e].op = "update"
    /\ sooner => ~api[e].due
    /\ api' = [api EXCEPT ![e] = Idle]
    /\ IF Live(l) /\ (s # Keep \/ c # Keep \/ a # Keep \/ sooner)
         THEN /\ listing' = [listing EXCEPT ![l] =
                   [row EXCEPT
                      !.settings = Patched(row.settings, s),
                      !.currency = Patched(row.currency, c),
                      !.active = Patched(row.active, a),
                      !.etag = IF changed THEN None ELSE row.etag,
                      !.due = changed \/ (row.due /\ ~sooner)]]
              /\ moved' = moved \cup Loaded(l)
         ELSE UNCHANGED <<listing, moved>>
    /\ UNCHANGED <<product, latest, page, jobVars, cur, snap, resp, inFlight,
                   handlerVars, boundVars>>

(* products.update writes what it was given; it reads nothing it patches.  *)
UpdateProduct(p, t, a) ==
    /\ edits < MaxEdits
    /\ product[p].status = "live"
    /\ edits' = edits + 1
    /\ product' = [product EXCEPT ![p].title = Patched(@, t),
                                  ![p].active = Patched(@, a)]
    /\ UNCHANGED <<listing, latest, page, jobVars, checkVars, handlerVars, api,
                   faults>>

(* listings.remove: the sibling count is read, then the row is deleted.    *)
BeginRemove(e, l) ==
    /\ api[e].op = "idle"
    /\ Live(l)
    /\ Cardinality(LiveListings(ProductOf[l])) > 1
    /\ api' = [api EXCEPT ![e] = [op |-> "remove", listing |-> l,
                                  settings |-> None, due |-> FALSE]]
    /\ UNCHANGED <<rowVars, page, jobVars, checkVars, handlerVars, boundVars>>

(* A deleted row takes its price points along and its id never comes back. *)
Deleted(S) ==
    /\ listing' = [l \in Listings |->
          IF l \in S THEN [listing[l] EXCEPT !.status = "gone", !.etag = None]
                     ELSE listing[l]]
    /\ latest' = [l \in Listings |-> IF l \in S THEN None ELSE latest[l]]

FinishRemove(e) ==
    /\ api[e].op = "remove"
    /\ Deleted({api[e].listing})
    /\ api' = [api EXCEPT ![e] = Idle]
    /\ UNCHANGED <<product, page, jobVars, checkVars, handlerVars, boundVars>>

(* products.remove: the listings go by cascade.                            *)
RemoveProduct(p) ==
    /\ product[p].status = "live"
    /\ product' = [product EXCEPT ![p].status = "gone"]
    /\ Deleted(LiveListings(p))
    /\ UNCHANGED <<page, jobVars, checkVars, handlerVars, api, boundVars>>

-----------------------------------------------------------------------------
CheckStep(h) ==
    \/ \E l \in Listings : BeginCheck(h, l) \/ SkipInFlight(h, l)
    \/ CompleteBatch(h)
    \/ LoadCheckable(h)
    \/ NothingToCheck(h)
    \/ RetrievePage(h)
    \/ PersistClaimed(h)
    \/ PersistStale(h)
    \/ PersistOrphaned(h)
    \/ RunAlerting(h)

FetchFor(q, l) ==
    \E h \in Handlers, S \in SUBSET Listings : l \in S /\ FetchBatch(q, h, S)

QueueStep ==
    \/ EnqueueDueChecks
    \/ \E l \in Listings : SendDueCheck(l)
    \/ \E q \in Queues, l \in Listings : FetchFor(q, l) \/ Reclaim(q, l)
    \/ \E h \in Handlers : Expire(h)

UserStep ==
    \/ \E l \in Listings, s \in Settings, c \in Currencies \cup {None} :
          \/ \E t \in {None, "user"} : CreateProduct(l, s, c, t)
          \/ AddListing(l, s, c)
    \/ \E l \in Listings : CheckNow(l)
    \/ \E e \in Editors, l \in Listings : BeginUpdate(e, l) \/ BeginRemove(e, l)
    \/ \E e \in Editors, s \in Settings \cup {Keep},
          c \in Currencies \cup {None, Keep}, a \in BOOLEAN \cup {Keep},
          sooner \in BOOLEAN : FinishUpdate(e, s, c, a, sooner)
    \/ \E e \in Editors : FinishRemove(e)
    \/ \E p \in Products, t \in {None, "user", Keep}, a \in BOOLEAN \cup {Keep} :
          UpdateProduct(p, t, a)
    \/ \E p \in Products : RemoveProduct(p)

Next ==
    \/ \E l \in Listings : PageChanges(l) \/ NextCheckPasses(l)
    \/ QueueStep
    \/ \E h \in Handlers : CheckStep(h) \/ DatabaseFault(h)
    \/ Crash
    \/ UserStep

Spec == Init /\ [][Next]_vars

-----------------------------------------------------------------------------
(* The dispatcher's cron fires every minute, pg-boss polls its queues and  *)
(* its supervision runs, and every await of a handler is bounded by a      *)
(* timeout, so all of these go on; the poller of a queue is busy now and   *)
(* then and serves jobs in the order they were created, hence SF.  Nothing *)
(* makes a user, a store or a fault act.                                   *)
Fairness ==
    /\ WF_vars(EnqueueDueChecks)
    /\ \A l \in Listings : WF_vars(SendDueCheck(l))
    /\ \A q \in Queues, l \in Listings :
          SF_vars(FetchFor(q, l)) /\ WF_vars(Reclaim(q, l))
    /\ \A h \in Handlers : WF_vars(CheckStep(h))

FairSpec == Spec /\ Fairness

-----------------------------------------------------------------------------
RowTypes ==
    /\ product \in [Products -> ProductRow]
    /\ listing \in [Listings -> ListingRow]
    /\ latest \in [Listings -> PricePoint \cup {None}]
    /\ page \in [Listings -> Pages]

JobTypes ==
    /\ job \in [Queues -> [Listings -> Job]]
    /\ tick \in SUBSET Listings
    /\ queue \in [Handlers -> Queues]
    /\ batch \in [Handlers -> SUBSET Listings]
    /\ todo \in [Handlers -> SUBSET Listings]

CheckTypes ==
    /\ pc \in [Handlers -> {"idle", "next", "load", "retrieve", "persist", "alert"}]
    /\ cur \in [Handlers -> Listings \cup {None}]
    /\ snap \in [Handlers -> Snapshot \cup {None}]
    /\ resp \in [Handlers -> Response \cup {None}]
    /\ moved \in SUBSET Handlers
    /\ inFlight \in SUBSET Listings
    /\ \A h \in Handlers :
          /\ pc[h] \in {"idle", "next"} <=> cur[h] = None
          /\ pc[h] \in {"retrieve", "persist"} <=> snap[h] # None
          /\ pc[h] = "persist" <=> resp[h] # None

RequestTypes ==
    /\ api \in [Editors -> Request]
    /\ \A e \in Editors : api[e].op = "idle" <=> api[e].listing = None
    /\ edits \in Nat
    /\ faults \in Nat

(* Every variable holds a row, a job, a handler context or a request of    *)
(* its type, and a handler has a listing, a snapshot and a response        *)
(* exactly in the steps of a check that need them (runCheck's locals).     *)
TypeOK == RowTypes /\ JobTypes /\ CheckTypes /\ RequestTypes

(* No two handler invocations ever check the same listing at once: not the *)
(* two queues', and not a handler that outlived its jobs and the one that  *)
(* was given the retries (check-listing.ts inFlight).                      *)
OneCheckPerListing ==
    \A g, h \in Handlers : g # h /\ cur[g] # None => cur[g] # cur[h]

(* A stored cache validator names a page whose price the settings now in   *)
(* force do read (check-persistence.ts validatorUpdate, listing-insert.ts  *)
(* buildListingUpdatePatch): a 304 can never stand for a body that was     *)
(* refused, or that only other settings could read.                        *)
ValidatorEarned ==
    \A l \in Listings :
        Live(l) /\ listing[l].etag # None =>
            <<listing[l].settings, listing[l].etag>> \in Readable

(* A 304 about to be recorded as a healthy check with nothing new really   *)
(* has nothing new: the store serves the page the newest price point was   *)
(* read from (outcome.ts, the not_modified case).                          *)
NotModifiedMeansUnchanged ==
    \A h \in Handlers :
        LET l == cur[h] IN
        pc[h] = "persist" /\ resp[h].kind = "not_modified"
              /\ Live(l) /\ h \notin moved =>
            latest[l] # None /\ latest[l].page = resp[h].page

(* A check is only recorded when the settings and the currency it read the *)
(* page under are the ones the listing has at that moment, however long    *)
(* ago the check began (persist's claim on updatedAt).                     *)
RecordedUnderCurrentSettings ==
    [][\A h \in Handlers :
          pc[h] = "persist" /\ pc'[h] = "alert" =>
             /\ snap[h].settings = listing[cur[h]].settings
             /\ snap[h].currency = listing[cur[h]].currency
             /\ snap[h].etag = listing[cur[h]].etag]_vars

(* A due listing leaves the schedule's "due" only because a check of it    *)
(* was recorded under its current settings, or because its owner moved the *)
(* schedule; a stale, failed or crashed check leaves it due.               *)
DueUntilRecorded ==
    [][\A l \in Listings :
          Live(l) /\ listing[l].due /\ Live(l)' /\ ~listing'[l].due =>
             \/ \E h \in Handlers :
                   /\ cur[h] = l /\ pc[h] = "persist" /\ pc'[h] = "alert"
                   /\ snap[h].settings = listing[l].settings
             \/ \E e \in Editors :
                   api[e].op = "update" /\ api[e].listing = l /\ api' # api]_vars

(* A listing that is due, and neither paused nor removed, is eventually    *)
(* checked and rescheduled, whatever crashed, expired or went stale on the *)
(* way.                                                                    *)
DueIsChecked ==
    \A l \in Listings : []<>(Checkable(l) => ~listing[l].due)

(* No job stays active for ever, so the queue's policy never shuts a       *)
(* listing out: whoever held the job completes it, fails it, or is         *)
(* replaced.                                                               *)
JobsSettle ==
    \A q \in Queues, l \in Listings : []<>(job[q][l].state # "active")

-----------------------------------------------------------------------------
(* The ledger this implements: what a listing is configured as, the page   *)
(* its validator names and the page its newest price was read from.        *)
config == [l \in Listings |-> IF Live(l) THEN listing[l].settings ELSE None]

validator == [l \in Listings |-> IF Live(l) THEN listing[l].etag ELSE None]

observed ==
    [l \in Listings |-> IF latest[l] = None THEN None ELSE latest[l].page]

Ledger == INSTANCE PriceLedger

(* Jobs, snapshots, retries, crashes and edits in between, every check     *)
(* still adds up to one step of the ledger or to none.                     *)
ImplementsLedger == Ledger!LedgerSpec
=============================================================================
