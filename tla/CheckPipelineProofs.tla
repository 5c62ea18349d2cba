------------------------ MODULE CheckPipelineProofs ------------------------
(***************************************************************************)
(* Theorems about CheckPipeline, for every value of its constants.         *)
(*                                                                         *)
(* The properties are not inductive by themselves.  What carries them:     *)
(*   InFlightHeld   a listing being checked is in the worker's inFlight    *)
(*                  set, so BeginCheck cannot start a second check of it;  *)
(*   SnapshotFresh  a handler that is not in `moved` holds a snapshot that *)
(*                  agrees with the row it will write;                     *)
(*   ResponseFresh  a 304 answers the validator the snapshot carried, so   *)
(*                  a claim never stores a validator it did not earn;      *)
(*   RequestFresh   an update request in progress read the settings the    *)
(*                  row still has, which needs one update at a time        *)
(*                  (OneEditor);                                           *)
(*   ValidatorPaid  a stored validator is that of the page the newest      *)
(*                  price was read off, where prices come with validators  *)
(*                  (PricesAreTagged);                                     *)
(*   NothingLeft    a listing that is not there has neither a price nor a  *)
(*                  validator, so the ledger sees it start afresh.         *)
(* For each group of variables a first lemma names the actions that write  *)
(* it (RowWriters, JobWriters, CheckWriters) or what one step can do to    *)
(* one row, handler or request (RowSteps, HandlerSteps, RequestSteps); the *)
(* invariants are proved from those, not from Next.                        *)
(***************************************************************************)
EXTENDS CheckPipeline, TLAPS

(* Which actions write the rows; every other one leaves them alone.        *)
LEMMA RowWriters ==
    ASSUME Next
    PROVE  \/ UNCHANGED <<rowVars, page>>
           \/ \E l \in Listings : PageChanges(l) \/ NextCheckPasses(l)
           \/ \E h \in Handlers : PersistClaimed(h)
           \/ \E l \in Listings, s \in Settings, c \in Currencies \cup {None} :
                 \/ \E t \in {None, "user"} : CreateProduct(l, s, c, t)
                 \/ AddListing(l, s, c)
           \/ \E e \in Editors, s \in Settings \cup {Keep},
                 c \in Currencies \cup {None, Keep}, a \in BOOLEAN \cup {Keep},
                 sooner \in BOOLEAN : FinishUpdate(e, s, c, a, sooner)
           \/ \E e \in Editors : FinishRemove(e)
           \/ \E p \in Products, t \in {None, "user", Keep},
                 a \in BOOLEAN \cup {Keep} : UpdateProduct(p, t, a)
           \/ \E p \in Products : RemoveProduct(p)
<1>1. CASE QueueStep
  BY <1>1 DEF QueueStep, EnqueueDueChecks, SendDueCheck, FetchFor, FetchBatch,
              Reclaim, Expire
<1>2. CASE \E h \in Handlers : CheckStep(h) \/ DatabaseFault(h)
  BY <1>2 DEF CheckStep, BeginCheck, SkipInFlight, CompleteBatch, LoadCheckable,
              NothingToCheck, RetrievePage, PersistStale, PersistOrphaned,
              RunAlerting, DatabaseFault
<1>3. CASE Crash
  BY <1>3 DEF Crash
<1>4. CASE UserStep
  BY <1>4 DEF UserStep, CheckNow, BeginUpdate, BeginRemove
<1> QED
  BY <1>1, <1>2, <1>3, <1>4 DEF Next

(* A response that is accepted carries a page, and a currency to store it. *)
LEMMA AcceptedTypes ==
    ASSUME NEW s \in Snapshot, NEW r \in Response, Accepted(s, r)
    PROVE  r.page \in Pages /\ Resolved(s, r.page) \in Currencies
BY PipelineAssumption DEF Accepted, Resolved, Snapshot

LEMMA RowTypesStep ==
    ASSUME TypeOK, Next
    PROVE  RowTypes'
<1> USE DEF TypeOK
<1>1. CASE UNCHANGED <<rowVars, page>>
  BY <1>1 DEF RowTypes, rowVars
<1>2. ASSUME NEW l \in Listings, PageChanges(l) \/ NextCheckPasses(l)
      PROVE  RowTypes'
  <2>1. page' \in [Listings -> Pages]
    BY <1>2 DEF RowTypes, PageChanges, NextCheckPasses
  <2>2. listing' \in [Listings -> ListingRow]
    BY <1>2 DEF RowTypes, PageChanges, NextCheckPasses, rowVars, ListingRow
  <2> QED
    BY <1>2, <2>1, <2>2 DEF RowTypes, PageChanges, NextCheckPasses, rowVars
<1>3. ASSUME NEW h \in Handlers, PersistClaimed(h)
      PROVE  RowTypes'
  <2>1. cur[h] \in Listings /\ snap[h] \in Snapshot /\ resp[h] \in Response
    BY <1>3 DEF CheckTypes, PersistClaimed
  <2>2. Accepted(snap[h], resp[h]) =>
          resp[h].page \in Pages /\ Resolved(snap[h], resp[h].page) \in Currencies
    BY <2>1, AcceptedTypes
  <2>3. listing' \in [Listings -> ListingRow]
    <3> DEFINE row == listing[cur[h]]
               earned == EarnsValidator(snap[h], resp[h])
               filled == Accepted(snap[h], resp[h]) /\ snap[h].currency = None
               etag == IF earned THEN resp[h].page ELSE row.etag
               currency == IF filled THEN Resolved(snap[h], resp[h].page)
                                     ELSE row.currency
    <3>1. row \in ListingRow
      BY <2>1 DEF RowTypes
    <3>2. etag \in Pages \cup {None} /\ currency \in Currencies \cup {None}
      BY <2>1, <2>2, <3>1 DEF ListingRow, Response
    <3>3. [row EXCEPT !.due = FALSE, !.etag = etag, !.currency = currency]
            \in ListingRow
      <4> HIDE DEF row, etag, currency
      <4> QED
        BY <3>1, <3>2 DEF ListingRow
    <3> QED
      BY <1>3, <2>1, <3>3 DEF PersistClaimed, RowTypes
  <2>4. latest' \in [Listings -> PricePoint \cup {None}]
    BY <1>3, <2>1, <2>2 DEF PersistClaimed, RowTypes, PricePoint
  <2>5. product' \in [Products -> ProductRow]
    BY <1>3, <2>1 DEF PersistClaimed, RowTypes, ProductRow
  <2> QED
    BY <1>3, <2>3, <2>4, <2>5 DEF PersistClaimed, RowTypes
<1>4. ASSUME NEW l \in Listings, NEW s \in Settings,
             NEW c \in Currencies \cup {None},
             \/ \E t \in {None, "user"} : CreateProduct(l, s, c, t)
             \/ AddListing(l, s, c)
      PROVE  RowTypes'
  <2>1. Tracked(s, c) \in ListingRow
    BY <1>4 DEF Tracked, ListingRow, Status
  <2>2. listing' = [listing EXCEPT ![l] = Tracked(s, c)]
    BY <1>4 DEF CreateProduct, AddListing
  <2>3. product' \in [Products -> ProductRow]
    BY <1>4, PipelineAssumption
    DEF CreateProduct, AddListing, RowTypes, ProductRow, Status
  <2> QED
    BY <1>4, <2>1, <2>2, <2>3 DEF CreateProduct, AddListing, RowTypes
<1>5. ASSUME NEW e \in Editors, NEW s \in Settings \cup {Keep},
             NEW c \in Currencies \cup {None, Keep},
             NEW a \in BOOLEAN \cup {Keep}, NEW sooner \in BOOLEAN,
             FinishUpdate(e, s, c, a, sooner)
      PROVE  RowTypes'
  <2>1. api[e].listing \in Listings
    BY <1>5 DEF FinishUpdate, RequestTypes, Request
  <2>2. listing' \in [Listings -> ListingRow]
    <3> DEFINE row == listing[api[e].listing]
               changed == s # Keep /\ s # api[e].settings
               etag == IF changed THEN None ELSE row.etag
               due == changed \/ (row.due /\ ~sooner)
    <3>1. row \in ListingRow
      BY <2>1 DEF RowTypes
    <3>2. /\ Patched(row.settings, s) \in Settings
          /\ Patched(row.currency, c) \in Currencies \cup {None}
          /\ Patched(row.active, a) \in BOOLEAN
          /\ etag \in Pages \cup {None}
          /\ due \in BOOLEAN
      BY <3>1 DEF ListingRow, Patched
    <3>3. [row EXCEPT !.settings = Patched(row.settings, s),
                      !.currency = Patched(row.currency, c),
                      !.active = Patched(row.active, a),
                      !.etag = etag,
                      !.due = due] \in ListingRow
      <4> HIDE DEF row, etag, due
      <4> QED
        BY <3>1, <3>2 DEF ListingRow
    <3> QED
      BY <1>5, <2>1, <3>3 DEF FinishUpdate, RowTypes
  <2> QED
    BY <1>5, <2>2 DEF FinishUpdate, RowTypes
<1>6. ASSUME NEW S \in SUBSET Listings, Deleted(S)
      PROVE  /\ listing' \in [Listings -> ListingRow]
             /\ latest' \in [Listings -> PricePoint \cup {None}]
  BY <1>6 DEF Deleted, RowTypes, ListingRow, Status
<1>7. CASE \E e \in Editors : FinishRemove(e)
  <2> PICK e \in Editors : FinishRemove(e)
    BY <1>7
  <2>1. {api[e].listing} \in SUBSET Listings
    BY DEF FinishRemove, RequestTypes, Request
  <2> QED
    BY <2>1, <1>6 DEF FinishRemove, RowTypes
<1>8. ASSUME NEW p \in Products, NEW t \in {None, "user", Keep},
             NEW a \in BOOLEAN \cup {Keep}, UpdateProduct(p, t, a)
      PROVE  RowTypes'
  <2>1. /\ Patched(product[p].title, t) \in {None, "user", "page"}
        /\ Patched(product[p].active, a) \in BOOLEAN
    BY DEF RowTypes, ProductRow, Patched
  <2>2. product' \in [Products -> ProductRow]
    BY <1>8, <2>1 DEF UpdateProduct, RowTypes, ProductRow
  <2> QED
    BY <1>8, <2>2 DEF UpdateProduct, RowTypes
<1>9. CASE \E p \in Products : RemoveProduct(p)
  <2> PICK p \in Products : RemoveProduct(p)
    BY <1>9
  <2>1. LiveListings(p) \in SUBSET Listings
    BY DEF LiveListings
  <2>2. product' \in [Products -> ProductRow]
    BY DEF RemoveProduct, RowTypes, ProductRow, Status
  <2> QED
    BY <2>1, <2>2, <1>6 DEF RemoveProduct, RowTypes
<1> QED
  BY RowWriters, <1>1, <1>2, <1>3, <1>4, <1>5, <1>7, <1>8, <1>9

-----------------------------------------------------------------------------
(* Which actions touch a job, the dispatcher's tick or a batch.            *)
LEMMA JobWriters ==
    ASSUME Next
    PROVE  \/ UNCHANGED <<jobVars, queue, batch, todo>>
           \/ EnqueueDueChecks
           \/ \E l \in Listings : SendDueCheck(l) \/ CheckNow(l)
           \/ \E q \in Queues, h \in Handlers, S \in SUBSET Listings :
                 FetchBatch(q, h, S)
           \/ \E q \in Queues, l \in Listings : Reclaim(q, l)
           \/ \E h \in Handlers :
                 \/ Expire(h) \/ CompleteBatch(h)
                 \/ PersistOrphaned(h) \/ DatabaseFault(h)
           \/ \E h \in Handlers, l \in Listings :
                 BeginCheck(h, l) \/ SkipInFlight(h, l)
           \/ Crash
<1>1. CASE \E l \in Listings : PageChanges(l) \/ NextCheckPasses(l)
  BY <1>1 DEF PageChanges, NextCheckPasses, handlerVars
<1>2. CASE QueueStep
  BY <1>2 DEF QueueStep, FetchFor
<1>3. CASE \E h \in Handlers : CheckStep(h) \/ DatabaseFault(h)
  BY <1>3 DEF CheckStep, LoadCheckable, NothingToCheck, RetrievePage,
              PersistClaimed, PersistStale, RunAlerting
<1>4. ASSUME UserStep, ~\E l \in Listings : CheckNow(l)
      PROVE  UNCHANGED <<jobVars, handlerVars>>
  <2>1. CASE \E l \in Listings, s \in Settings, c \in Currencies \cup {None} :
                \/ \E t \in {None, "user"} : CreateProduct(l, s, c, t)
                \/ AddListing(l, s, c)
    BY <2>1 DEF CreateProduct, AddListing
  <2>2. CASE \E e \in Editors, l \in Listings : BeginUpdate(e, l) \/ BeginRemove(e, l)
    BY <2>2 DEF BeginUpdate, BeginRemove
  <2>3. CASE \E e \in Editors, s \in Settings \cup {Keep},
                c \in Currencies \cup {None, Keep}, a \in BOOLEAN \cup {Keep},
                sooner \in BOOLEAN : FinishUpdate(e, s, c, a, sooner)
    BY <2>3 DEF FinishUpdate
  <2>4. CASE \/ \E e \in Editors : FinishRemove(e)
             \/ \E p \in Products, t \in {None, "user", Keep},
                   a \in BOOLEAN \cup {Keep} : UpdateProduct(p, t, a)
             \/ \E p \in Products : RemoveProduct(p)
    BY <2>4 DEF FinishRemove, UpdateProduct, RemoveProduct
  <2> QED
    BY <1>4, <2>1, <2>2, <2>3, <2>4 DEF UserStep
<1> QED
  BY <1>1, <1>2, <1>3, <1>4 DEF Next, handlerVars

(* Sending, failing and completing jobs keep the queues well-typed.        *)
LEMMA SentTypes ==
    ASSUME job \in [Queues -> [Listings -> Job]], NEW q \in Queues,
           NEW l \in Listings
    PROVE  Sent(q, l) \in [Queues -> [Listings -> Job]]
<1>1. [state |-> "queued", tries |-> 0] \in Job
  BY PipelineAssumption DEF Job
<1>2. [job[q] EXCEPT ![l] = [state |-> "queued", tries |-> 0]]
        \in [Listings -> Job]
  BY <1>1
<1> QED
  BY <1>2 DEF Sent

LEMMA FailedTypes ==
    ASSUME job \in [Queues -> [Listings -> Job]], NEW q \in Queues,
           NEW S \in SUBSET Listings
    PROVE  /\ Failed(q, S) \in [Queues -> [Listings -> Job]]
           /\ Completed(q, S) \in [Queues -> [Listings -> Job]]
<1>1. NoJob \in Job
  BY PipelineAssumption DEF NoJob, Job
<1>2. ASSUME NEW j \in Job
      PROVE  Retried(j) \in Job
  BY <1>1, <1>2, PipelineAssumption DEF Retried, Job
<1>3. /\ [l \in Listings |-> IF l \in S THEN Retried(job[q][l]) ELSE job[q][l]]
            \in [Listings -> Job]
      /\ [l \in Listings |-> IF l \in S THEN NoJob ELSE job[q][l]]
            \in [Listings -> Job]
  BY <1>1, <1>2
<1> QED
  BY <1>3 DEF Failed, Completed

LEMMA JobTypesStep ==
    ASSUME TypeOK, Next
    PROVE  JobTypes'
<1> USE DEF TypeOK
<1>1. CASE UNCHANGED <<jobVars, queue, batch, todo>>
  BY <1>1 DEF JobTypes, jobVars
<1>2. CASE EnqueueDueChecks
  BY <1>2 DEF EnqueueDueChecks, JobTypes, handlerVars
<1>3. ASSUME NEW l \in Listings, SendDueCheck(l) \/ CheckNow(l)
      PROVE  JobTypes'
  <2>1. Scheduled \in Queues /\ Manual \in Queues
    BY DEF Queues
  <2>2. job' \in [Queues -> [Listings -> Job]]
    BY <1>3, <2>1, SentTypes DEF SendDueCheck, CheckNow, JobTypes
  <2> QED
    BY <1>3, <2>2 DEF SendDueCheck, CheckNow, JobTypes, handlerVars
<1>4. ASSUME NEW q \in Queues, NEW h \in Handlers, NEW S \in SUBSET Listings,
             FetchBatch(q, h, S)
      PROVE  JobTypes'
  <2>1. ASSUME NEW l \in Listings
        PROVE  [job[q][l] EXCEPT !.state = "active"] \in Job
    <3>1. job[q][l] \in Job
      BY DEF JobTypes
    <3> QED
      BY <3>1 DEF Job
  <2>2. [l \in Listings |-> IF l \in S THEN [job[q][l] EXCEPT !.state = "active"]
                                       ELSE job[q][l]] \in [Listings -> Job]
    BY <2>1 DEF JobTypes
  <2>3. job' \in [Queues -> [Listings -> Job]]
    BY <1>4, <2>2 DEF FetchBatch, JobTypes
  <2> QED
    BY <1>4, <2>3 DEF FetchBatch, JobTypes
<1>5. ASSUME NEW q \in Queues, NEW l \in Listings, Reclaim(q, l)
      PROVE  JobTypes'
  <2>1. {l} \in SUBSET Listings
    OBVIOUS
  <2> QED
    BY <1>5, <2>1, FailedTypes DEF Reclaim, JobTypes, handlerVars
<1>6. ASSUME NEW h \in Handlers,
             \/ Expire(h) \/ CompleteBatch(h)
             \/ PersistOrphaned(h) \/ DatabaseFault(h)
      PROVE  JobTypes'
  <2>1. queue[h] \in Queues /\ batch[h] \in SUBSET Listings
    BY DEF JobTypes
  <2>2. job' \in [Queues -> [Listings -> Job]]
    BY <1>6, <2>1, FailedTypes
    DEF Expire, CompleteBatch, PersistOrphaned, DatabaseFault, Throw, JobTypes
  <2> QED
    BY <1>6, <2>2
    DEF Expire, CompleteBatch, PersistOrphaned, DatabaseFault, Throw, JobTypes
<1>7. ASSUME NEW h \in Handlers, NEW l \in Listings,
             BeginCheck(h, l) \/ SkipInFlight(h, l)
      PROVE  JobTypes'
  BY <1>7 DEF BeginCheck, SkipInFlight, JobTypes, jobVars
<1>8. CASE Crash
  BY <1>8 DEF Crash, JobTypes
<1> QED
  BY JobWriters, <1>1, <1>2, <1>3, <1>4, <1>5, <1>6, <1>7, <1>8

-----------------------------------------------------------------------------
(* Which actions move a handler or what it holds of its check.             *)
LEMMA CheckWriters ==
    ASSUME Next
    PROVE  \/ UNCHANGED <<checkVars, pc>>
           \/ \E q \in Queues, h \in Handlers, S \in SUBSET Listings :
                 FetchBatch(q, h, S)
           \/ \E h \in Handlers : CheckStep(h) \/ DatabaseFault(h)
           \/ Crash
           \/ \E e \in Editors, s \in Settings \cup {Keep},
                 c \in Currencies \cup {None, Keep}, a \in BOOLEAN \cup {Keep},
                 sooner \in BOOLEAN : FinishUpdate(e, s, c, a, sooner)
<1>1. CASE \E l \in Listings : PageChanges(l) \/ NextCheckPasses(l)
  BY <1>1 DEF PageChanges, NextCheckPasses, handlerVars
<1>2. CASE QueueStep
  BY <1>2 DEF QueueStep, FetchFor, EnqueueDueChecks, SendDueCheck, Reclaim,
              Expire, handlerVars
<1>3. CASE UserStep
  <2>1. CASE \E l \in Listings, s \in Settings, c \in Currencies \cup {None} :
                \/ \E t \in {None, "user"} : CreateProduct(l, s, c, t)
                \/ AddListing(l, s, c)
    BY <2>1 DEF CreateProduct, AddListing, handlerVars
  <2>2. CASE \/ \E e \in Editors, l \in Listings :
                   BeginUpdate(e, l) \/ BeginRemove(e, l)
             \/ \E l \in Listings : CheckNow(l)
    BY <2>2 DEF BeginUpdate, BeginRemove, CheckNow, handlerVars
  <2>3. CASE \/ \E e \in Editors : FinishRemove(e)
             \/ \E p \in Products, t \in {None, "user", Keep},
                   a \in BOOLEAN \cup {Keep} : UpdateProduct(p, t, a)
             \/ \E p \in Products : RemoveProduct(p)
    BY <2>3 DEF FinishRemove, UpdateProduct, RemoveProduct, handlerVars
  <2> QED
    BY <1>3, <2>1, <2>2, <2>3 DEF UserStep
<1> QED
  BY <1>1, <1>2, <1>3 DEF Next

LEMMA CheckTypesStep ==
    ASSUME TypeOK, Next
    PROVE  CheckTypes'
<1> USE DEF TypeOK
<1>1. CASE UNCHANGED <<checkVars, pc>>
  BY <1>1 DEF CheckTypes, checkVars
<1>2. ASSUME NEW q \in Queues, NEW h \in Handlers, NEW S \in SUBSET Listings,
             FetchBatch(q, h, S)
      PROVE  CheckTypes'
  BY <1>2 DEF FetchBatch, CheckTypes, checkVars
<1>3. ASSUME NEW h \in Handlers, NEW l \in Listings, BeginCheck(h, l)
      PROVE  CheckTypes'
  BY <1>3, PipelineAssumption DEF BeginCheck, CheckTypes
<1>4. ASSUME NEW h \in Handlers,
             (\E l \in Listings : SkipInFlight(h, l)) \/ CompleteBatch(h)
      PROVE  CheckTypes'
  BY <1>4 DEF SkipInFlight, CompleteBatch, CheckTypes, checkVars
<1>5. ASSUME NEW h \in Handlers, LoadCheckable(h)
      PROVE  CheckTypes'
  <2>1. cur[h] \in Listings
    BY <1>5 DEF LoadCheckable, CheckTypes
  <2>2. listing[cur[h]] \in ListingRow
    BY <2>1 DEF RowTypes
  <2>3. snap'[h] \in Snapshot
    BY <1>5, <2>2 DEF LoadCheckable, CheckTypes, ListingRow, Snapshot
  <2>4. snap' = [snap EXCEPT ![h] = snap'[h]]
    BY <1>5 DEF LoadCheckable, CheckTypes
  <2> QED
    BY <1>5, <2>3, <2>4, NoneAssumption DEF LoadCheckable, CheckTypes
<1>6. ASSUME NEW h \in Handlers, RetrievePage(h)
      PROVE  CheckTypes'
  <2>1. cur[h] \in Listings
    BY <1>6 DEF RetrievePage, CheckTypes
  <2>2. Responses(snap[h], page[cur[h]]) \subseteq Response
    BY <2>1 DEF Responses, Response, RowTypes
  <2> QED
    BY <1>6, <2>2, NoneAssumption DEF RetrievePage, CheckTypes
<1>7. ASSUME NEW h \in Handlers, PersistClaimed(h)
      PROVE  CheckTypes'
  BY <1>7 DEF PersistClaimed, CheckTypes, Loaded
<1>8. ASSUME NEW h \in Handlers, LeaveCheck(h), NEW where \in {"idle", "next"},
             pc' = [pc EXCEPT ![h] = where]
      PROVE  CheckTypes'
  BY <1>8 DEF LeaveCheck, CheckTypes
<1>9. ASSUME NEW h \in Handlers,
             \/ NothingToCheck(h) \/ PersistStale(h) \/ PersistOrphaned(h)
             \/ RunAlerting(h) \/ DatabaseFault(h)
      PROVE  CheckTypes'
  BY <1>8, <1>9
  DEF NothingToCheck, PersistStale, PersistOrphaned, RunAlerting, DatabaseFault,
      Throw
<1>10. CASE Crash
  BY <1>10 DEF Crash, CheckTypes
<1>11. ASSUME NEW e \in Editors, NEW s \in Settings \cup {Keep},
              NEW c \in Currencies \cup {None, Keep},
              NEW a \in BOOLEAN \cup {Keep}, NEW sooner \in BOOLEAN,
              FinishUpdate(e, s, c, a, sooner)
       PROVE  CheckTypes'
  <2>1. UNCHANGED <<pc, cur, snap, resp, inFlight>> /\ moved' \in SUBSET Handlers
    BY <1>11 DEF FinishUpdate, Loaded, CheckTypes, handlerVars
  <2> QED
    BY <2>1 DEF CheckTypes
<1> QED
  BY CheckWriters, <1>1, <1>2, <1>3, <1>4, <1>5, <1>6, <1>7, <1>9, <1>10, <1>11
  DEF CheckStep

LEMMA RequestTypesStep ==
    ASSUME TypeOK, Next
    PROVE  RequestTypes'
<1> USE DEF TypeOK
<1>0. ASSUME UNCHANGED api, edits' \in {edits, edits + 1},
             faults' \in {faults, faults + 1}
      PROVE  RequestTypes'
  BY <1>0 DEF RequestTypes
<1>1. CASE \E l \in Listings : PageChanges(l) \/ NextCheckPasses(l)
  BY <1>1 DEF PageChanges, NextCheckPasses, RequestTypes, boundVars
<1>2. CASE QueueStep
  <2>1. UNCHANGED <<api, edits>> /\ faults' \in {faults, faults + 1}
    BY <1>2 DEF QueueStep, EnqueueDueChecks, SendDueCheck, FetchFor, FetchBatch,
                Reclaim, Expire, boundVars
  <2> QED
    BY <2>1, <1>0
<1>3. CASE \E h \in Handlers : CheckStep(h) \/ DatabaseFault(h)
  <2>1. UNCHANGED <<api, edits>> /\ faults' \in {faults, faults + 1}
    BY <1>3 DEF CheckStep, BeginCheck, SkipInFlight, CompleteBatch,
                LoadCheckable, NothingToCheck, RetrievePage, PersistClaimed,
                PersistStale, PersistOrphaned, RunAlerting, DatabaseFault,
                boundVars
  <2> QED
    BY <2>1, <1>0
<1>4. CASE Crash
  BY <1>4 DEF Crash, RequestTypes
<1>5. CASE \E l \in Listings, s \in Settings, c \in Currencies \cup {None} :
              \/ \E t \in {None, "user"} : CreateProduct(l, s, c, t)
              \/ AddListing(l, s, c)
  BY <1>5 DEF CreateProduct, AddListing, RequestTypes, boundVars
<1>6. ASSUME NEW e \in Editors, NEW l \in Listings,
             CheckNow(l) \/ BeginUpdate(e, l) \/ BeginRemove(e, l)
      PROVE  RequestTypes'
  <2>1. CASE CheckNow(l)
    BY <2>1 DEF CheckNow, RequestTypes, boundVars
  <2>2. CASE BeginUpdate(e, l)
    <3>1. listing[l] \in ListingRow
      BY DEF RowTypes
    <3>2. api'[e] \in Request /\ api'[e].op # "idle" /\ api'[e].listing # None
      BY <2>2, <3>1, PipelineAssumption
      DEF BeginUpdate, RequestTypes, Request, ListingRow
    <3>3. api' = [api EXCEPT ![e] = api'[e]]
      BY <2>2 DEF BeginUpdate, RequestTypes
    <3> QED
      BY <2>2, <3>2, <3>3 DEF BeginUpdate, RequestTypes
  <2>3. CASE BeginRemove(e, l)
    BY <2>3, PipelineAssumption DEF BeginRemove, RequestTypes, Request, boundVars
  <2> QED
    BY <1>6, <2>1, <2>2, <2>3
<1>7. ASSUME NEW e \in Editors, api' = [api EXCEPT ![e] = Idle],
             UNCHANGED boundVars
      PROVE  RequestTypes'
  BY <1>7 DEF RequestTypes, Request, Idle, boundVars
<1>8. ASSUME UserStep
      PROVE  RequestTypes'
  <2>1. CASE \/ \E p \in Products, t \in {None, "user", Keep},
                   a \in BOOLEAN \cup {Keep} : UpdateProduct(p, t, a)
             \/ \E p \in Products : RemoveProduct(p)
             \/ \E l \in Listings : CheckNow(l)
    <3>1. UNCHANGED <<api, faults>> /\ edits' \in {edits, edits + 1}
      BY <2>1 DEF UpdateProduct, RemoveProduct, CheckNow, boundVars
    <3> QED
      BY <3>1, <1>0
  <2>2. CASE \/ \E e \in Editors : FinishRemove(e)
             \/ \E e \in Editors, s \in Settings \cup {Keep},
                   c \in Currencies \cup {None, Keep}, a \in BOOLEAN \cup {Keep},
                   sooner \in BOOLEAN : FinishUpdate(e, s, c, a, sooner)
    BY <2>2, <1>7 DEF FinishRemove, FinishUpdate
  <2> QED
    BY <1>5, <1>6, <1>8, <2>1, <2>2 DEF UserStep
<1> QED
  BY <1>1, <1>2, <1>3, <1>4, <1>8 DEF Next

LEMMA TypeInit ==
    ASSUME Init
    PROVE  TypeOK
<1>1. (CHOOSE s \in Settings : TRUE) \in Settings
  BY PipelineAssumption
<1>2. RowTypes
  BY <1>1 DEF Init, RowTypes, ProductRow, ListingRow, Status
<1>3. JobTypes
  BY PipelineAssumption DEF Init, JobTypes, Job, NoJob, Queues
<1>4. CheckTypes /\ RequestTypes
  BY DEF Init, CheckTypes, RequestTypes, Request, Idle
<1> QED
  BY <1>2, <1>3, <1>4 DEF TypeOK

(* TypeOK is an invariant of the pipeline, for any number of listings,     *)
(* handlers, editors, retries and faults.                                  *)
THEOREM TypeCorrect == Spec => []TypeOK
<1>1. TypeOK /\ [Next]_vars => TypeOK'
  <2> SUFFICES ASSUME TypeOK, [Next]_vars
               PROVE  TypeOK'
    OBVIOUS
  <2>1. CASE Next
    BY <2>1, RowTypesStep, JobTypesStep, CheckTypesStep, RequestTypesStep
    DEF TypeOK
  <2>2. CASE UNCHANGED vars
    BY <2>2 DEF TypeOK, RowTypes, JobTypes, CheckTypes, RequestTypes, vars,
                rowVars, jobVars, checkVars, handlerVars, boundVars
  <2> QED
    BY <2>1, <2>2
<1> QED
  BY TypeInit, <1>1, PTL DEF Spec

-----------------------------------------------------------------------------
(* A listing is being checked only while it is in inFlight.                *)
InFlightHeld ==
    \A h \in Handlers : cur[h] # None => cur[h] \in inFlight

LEMMA OneCheckStep ==
    ASSUME TypeOK, InFlightHeld, OneCheckPerListing, Next
    PROVE  InFlightHeld' /\ OneCheckPerListing'
<1> USE DEF TypeOK, CheckTypes, InFlightHeld, OneCheckPerListing
<1>1. CASE UNCHANGED <<cur, inFlight>>
  BY <1>1
<1>2. ASSUME NEW h \in Handlers, NEW l \in Listings, BeginCheck(h, l)
      PROVE  InFlightHeld' /\ OneCheckPerListing'
  BY <1>2 DEF BeginCheck
<1>3. ASSUME NEW h \in Handlers, LeaveCheck(h)
      PROVE  InFlightHeld' /\ OneCheckPerListing'
  BY <1>3 DEF LeaveCheck
<1>4. ASSUME NEW h \in Handlers, CheckStep(h) \/ DatabaseFault(h)
      PROVE  \/ UNCHANGED <<cur, inFlight>>
             \/ \E l \in Listings : BeginCheck(h, l)
             \/ LeaveCheck(h)
  BY <1>4 DEF CheckStep, SkipInFlight, CompleteBatch, LoadCheckable,
              NothingToCheck, RetrievePage, PersistClaimed, PersistStale,
              PersistOrphaned, RunAlerting, DatabaseFault, Throw, checkVars
<1>5. CASE Crash
  BY <1>5 DEF Crash
<1>6. CASE \E e \in Editors, s \in Settings \cup {Keep},
              c \in Currencies \cup {None, Keep}, a \in BOOLEAN \cup {Keep},
              sooner \in BOOLEAN : FinishUpdate(e, s, c, a, sooner)
  BY <1>1, <1>6 DEF FinishUpdate
<1>7. CASE \E q \in Queues, h \in Handlers, S \in SUBSET Listings :
              FetchBatch(q, h, S)
  BY <1>1, <1>7 DEF FetchBatch, checkVars
<1> QED
  BY CheckWriters, <1>1, <1>2, <1>3, <1>4, <1>5, <1>6, <1>7 DEF checkVars

(* Never two handlers on one listing, however many queues, handlers,       *)
(* expiries, retries and crashes there are.                                *)
THEOREM ChecksExclude == Spec => []OneCheckPerListing
<1> DEFINE Inv == TypeOK /\ InFlightHeld /\ OneCheckPerListing
<1>1. Init => Inv
  BY TypeInit DEF Init, InFlightHeld, OneCheckPerListing
<1>2. Inv /\ [Next]_vars => (InFlightHeld /\ OneCheckPerListing)'
  <2> SUFFICES ASSUME Inv, [Next]_vars
               PROVE  (InFlightHeld /\ OneCheckPerListing)'
    OBVIOUS
  <2>1. CASE UNCHANGED vars
    BY <2>1 DEF vars, checkVars, InFlightHeld, OneCheckPerListing
  <2> QED
    BY <2>1, OneCheckStep
<1> QED
  BY <1>1, <1>2, TypeCorrect, PTL DEF Spec

-----------------------------------------------------------------------------
(* What one step can do to the row of one listing.                         *)

SameRow(l) ==
    /\ listing'[l].status = listing[l].status
    /\ listing'[l].settings = listing[l].settings
    /\ listing'[l].currency = listing[l].currency
    /\ listing'[l].etag = listing[l].etag

ClaimOf(h, l) ==
    /\ cur[h] = l
    /\ PersistClaimed(h)

UpdateOf(e, l) ==
    /\ api[e].listing = l
    /\ \E s \in Settings \cup {Keep}, c \in Currencies \cup {None, Keep},
          a \in BOOLEAN \cup {Keep}, sooner \in BOOLEAN :
          FinishUpdate(e, s, c, a, sooner)

Inserted(l) ==
    /\ listing[l].status = "absent"
    /\ listing'[l].status = "live"
    /\ listing'[l].etag = None
    /\ UNCHANGED <<checkVars, pc, api>>

Dropped(l) ==
    /\ listing'[l].status = "gone"
    /\ listing'[l].etag = None
    /\ UNCHANGED <<checkVars, pc>>
    /\ \A e \in Editors : api'[e] \in {api[e], Idle}

LEMMA RowSteps ==
    ASSUME TypeOK, Next, NEW l \in Listings
    PROVE  \/ SameRow(l)
           \/ \E h \in Handlers : ClaimOf(h, l)
           \/ \E e \in Editors : UpdateOf(e, l)
           \/ Inserted(l)
           \/ Dropped(l)
<1> USE DEF TypeOK, RowTypes
<1>1. CASE UNCHANGED <<rowVars, page>>
  BY <1>1 DEF SameRow, rowVars
<1>2. ASSUME NEW k \in Listings, PageChanges(k) \/ NextCheckPasses(k)
      PROVE  SameRow(l)
  BY <1>2 DEF PageChanges, NextCheckPasses, SameRow, rowVars, ListingRow
<1>3. ASSUME NEW h \in Handlers, PersistClaimed(h)
      PROVE  SameRow(l) \/ ClaimOf(h, l)
  BY <1>3 DEF PersistClaimed, SameRow, ClaimOf
<1>4. ASSUME NEW k \in Listings, NEW s \in Settings,
             NEW c \in Currencies \cup {None},
             \/ \E t \in {None, "user"} : CreateProduct(k, s, c, t)
             \/ AddListing(k, s, c)
      PROVE  SameRow(l) \/ Inserted(l)
  <2>1. /\ listing[k].status = "absent"
        /\ listing' = [listing EXCEPT ![k] = Tracked(s, c)]
        /\ UNCHANGED <<checkVars, pc, api>>
    BY <1>4 DEF CreateProduct, AddListing, handlerVars
  <2> QED
    BY <2>1 DEF SameRow, Inserted, Tracked
<1>5. ASSUME NEW e \in Editors, NEW s \in Settings \cup {Keep},
             NEW c \in Currencies \cup {None, Keep},
             NEW a \in BOOLEAN \cup {Keep}, NEW sooner \in BOOLEAN,
             FinishUpdate(e, s, c, a, sooner)
      PROVE  SameRow(l) \/ UpdateOf(e, l)
  <2>1. CASE api[e].listing = l
    BY <1>5, <2>1 DEF UpdateOf
  <2>2. CASE api[e].listing # l
    BY <1>5, <2>2 DEF FinishUpdate, SameRow
  <2> QED
    BY <2>1, <2>2
<1>6. ASSUME NEW S \in SUBSET Listings, Deleted(S),
             UNCHANGED <<checkVars, handlerVars>>,
             \A e \in Editors : api'[e] \in {api[e], Idle}
      PROVE  SameRow(l) \/ Dropped(l)
  <2>1. listing'[l] = IF l \in S
                        THEN [listing[l] EXCEPT !.status = "gone", !.etag = None]
                        ELSE listing[l]
    BY <1>6 DEF Deleted
  <2>2. listing[l] \in ListingRow
    OBVIOUS
  <2> QED
    BY <1>6, <2>1, <2>2 DEF SameRow, Dropped, handlerVars, ListingRow
<1>7. ASSUME NEW e \in Editors, FinishRemove(e)
      PROVE  SameRow(l) \/ Dropped(l)
  <2>1. {api[e].listing} \in SUBSET Listings
    BY <1>7 DEF FinishRemove, RequestTypes, Request
  <2>2. \A f \in Editors : api'[f] \in {api[f], Idle}
    BY <1>7 DEF FinishRemove, RequestTypes
  <2> QED
    BY <1>6, <1>7, <2>1, <2>2 DEF FinishRemove
<1>8. ASSUME NEW p \in Products, RemoveProduct(p)
      PROVE  SameRow(l) \/ Dropped(l)
  <2>1. LiveListings(p) \in SUBSET Listings
    BY DEF LiveListings
  <2> QED
    BY <1>6, <1>8, <2>1 DEF RemoveProduct
<1>9. CASE \E p \in Products, t \in {None, "user", Keep},
              a \in BOOLEAN \cup {Keep} : UpdateProduct(p, t, a)
  BY <1>9 DEF UpdateProduct, SameRow
<1> QED
  BY RowWriters, <1>1, <1>2, <1>3, <1>4, <1>5, <1>7, <1>8, <1>9

(* A claim leaves status and settings alone; an update leaves the status   *)
(* alone, and the row is the requested patch of what it was.               *)
LEMMA ClaimedRow ==
    ASSUME TypeOK, NEW h \in Handlers, NEW l \in Listings, ClaimOf(h, l)
    PROVE  /\ Live(l) /\ h \notin moved /\ pc[h] = "persist"
           /\ snap[h] \in Snapshot /\ resp[h] \in Response
           /\ listing'[l].status = listing[l].status
           /\ listing'[l].settings = listing[l].settings
           /\ listing'[l].etag = IF EarnsValidator(snap[h], resp[h])
                                   THEN resp[h].page ELSE listing[l].etag
<1>1. listing[l] \in ListingRow
  BY DEF TypeOK, RowTypes
<1>2. snap[h] \in Snapshot /\ resp[h] \in Response
  BY DEF ClaimOf, PersistClaimed, TypeOK, CheckTypes
<1> QED
  BY <1>1, <1>2 DEF ClaimOf, PersistClaimed, TypeOK, RowTypes, ListingRow

LEMMA UpdatedRow ==
    ASSUME TypeOK, NEW e \in Editors, NEW l \in Listings, UpdateOf(e, l)
    PROVE  /\ api[e].op = "update" /\ api' = [api EXCEPT ![e] = Idle]
           /\ UNCHANGED <<pc, cur, snap, resp, inFlight>>
           /\ listing'[l].status = listing[l].status
           /\ \/ SameRow(l) /\ UNCHANGED moved
              \/ /\ Live(l) /\ moved' = moved \cup Loaded(l)
                 /\ \/ listing'[l].etag = None
                    \/ /\ listing'[l].etag = listing[l].etag
                       /\ listing'[l].settings \in
                            {listing[l].settings, api[e].settings}
<1>1. listing[l] \in ListingRow
  BY DEF TypeOK, RowTypes
<1>2. PICK s \in Settings \cup {Keep}, c \in Currencies \cup {None, Keep},
           a \in BOOLEAN \cup {Keep}, sooner \in BOOLEAN :
             FinishUpdate(e, s, c, a, sooner)
  BY DEF UpdateOf
<1>3. api[e].listing = l
  BY DEF UpdateOf
<1>4. CASE Live(l) /\ (s # Keep \/ c # Keep \/ a # Keep \/ sooner)
  <2> DEFINE changed == s # Keep /\ s # api[e].settings
             etag == IF changed THEN None ELSE listing[l].etag
             due == changed \/ (listing[l].due /\ ~sooner)
  <2>1. listing'[l] = [listing[l] EXCEPT
                         !.settings = Patched(listing[l].settings, s),
                         !.currency = Patched(listing[l].currency, c),
                         !.active = Patched(listing[l].active, a),
                         !.etag = etag,
                         !.due = due]
    BY <1>2, <1>3, <1>4 DEF FinishUpdate, TypeOK, RowTypes
  <2>2. /\ listing'[l].status = listing[l].status
        /\ listing'[l].etag = etag
        /\ listing'[l].settings = Patched(listing[l].settings, s)
    <3> HIDE DEF etag, due
    <3> QED
      BY <1>1, <2>1 DEF ListingRow
  <2>3. /\ api[e].op = "update" /\ api' = [api EXCEPT ![e] = Idle]
        /\ UNCHANGED <<pc, cur, snap, resp, inFlight>>
        /\ moved' = moved \cup Loaded(l)
    BY <1>2, <1>3, <1>4 DEF FinishUpdate, handlerVars
  <2> QED
    BY <1>4, <2>2, <2>3 DEF Patched
<1>5. CASE ~(Live(l) /\ (s # Keep \/ c # Keep \/ a # Keep \/ sooner))
  BY <1>2, <1>3, <1>5 DEF FinishUpdate, SameRow, handlerVars
<1> QED
  BY <1>4, <1>5

-----------------------------------------------------------------------------
(* What one step can do to one handler that has a snapshot.                *)

SameCheck(h) ==
    /\ pc'[h] = pc[h] /\ cur'[h] = cur[h]
    /\ snap'[h] = snap[h] /\ resp'[h] = resp[h]
    /\ h \in moved => h \in moved'

LEMMA HandlerSteps ==
    ASSUME TypeOK, Next, NEW h \in Handlers, pc'[h] \in {"retrieve", "persist"}
    PROVE  SameCheck(h) \/ LoadCheckable(h) \/ RetrievePage(h)
<1> USE DEF TypeOK, CheckTypes
<1>1. CASE UNCHANGED <<checkVars, pc>>
  BY <1>1 DEF SameCheck, checkVars
<1>2. ASSUME NEW q \in Queues, NEW g \in Handlers, NEW S \in SUBSET Listings,
             FetchBatch(q, g, S)
      PROVE  SameCheck(h)
  BY <1>2 DEF FetchBatch, SameCheck, checkVars
<1>3. ASSUME NEW g \in Handlers, CheckStep(g) \/ DatabaseFault(g)
      PROVE  SameCheck(h) \/ LoadCheckable(h) \/ RetrievePage(h)
  <2>1. CASE \E l \in Listings : BeginCheck(g, l) \/ SkipInFlight(g, l)
    BY <2>1 DEF BeginCheck, SkipInFlight, SameCheck, checkVars
  <2>2. CASE CompleteBatch(g)
    BY <2>2 DEF CompleteBatch, SameCheck, checkVars
  <2>3. CASE LoadCheckable(g)
    BY <2>3 DEF LoadCheckable, SameCheck
  <2>4. CASE RetrievePage(g)
    BY <2>4 DEF RetrievePage, SameCheck
  <2>5. CASE PersistClaimed(g)
    BY <2>5 DEF PersistClaimed, SameCheck
  <2>6. CASE \/ NothingToCheck(g) \/ PersistStale(g) \/ PersistOrphaned(g)
             \/ RunAlerting(g) \/ DatabaseFault(g)
    BY <2>6 DEF NothingToCheck, PersistStale, PersistOrphaned, RunAlerting,
                DatabaseFault, Throw, LeaveCheck, SameCheck
  <2> QED
    BY <1>3, <2>1, <2>2, <2>3, <2>4, <2>5, <2>6 DEF CheckStep
<1>4. CASE Crash
  BY <1>4 DEF Crash
<1>5. CASE \E e \in Editors, s \in Settings \cup {Keep},
              c \in Currencies \cup {None, Keep}, a \in BOOLEAN \cup {Keep},
              sooner \in BOOLEAN : FinishUpdate(e, s, c, a, sooner)
  BY <1>5 DEF FinishUpdate, SameCheck, handlerVars
<1> QED
  BY CheckWriters, <1>1, <1>2, <1>3, <1>4, <1>5

(* Until the row is updated, a snapshot says what the row says.            *)
SnapshotFresh ==
    \A h \in Handlers :
        pc[h] \in {"retrieve", "persist"} =>
            /\ listing[cur[h]].status # "absent"
            /\ Live(cur[h]) /\ h \notin moved =>
                  /\ snap[h].settings = listing[cur[h]].settings
                  /\ snap[h].currency = listing[cur[h]].currency
                  /\ snap[h].etag = listing[cur[h]].etag

(* A 304 is an answer to the validator the snapshot carried.               *)
ResponseFresh ==
    \A h \in Handlers :
        pc[h] = "persist" /\ resp[h].kind = "not_modified" =>
            resp[h].page = snap[h].etag /\ resp[h].page # None

LEMMA SnapshotStep ==
    ASSUME TypeOK, SnapshotFresh, Next
    PROVE  SnapshotFresh'
<1> SUFFICES ASSUME NEW h \in Handlers, pc'[h] \in {"retrieve", "persist"}
             PROVE  /\ listing'[cur'[h]].status # "absent"
                    /\ listing'[cur'[h]].status = "live" /\ h \notin moved' =>
                          /\ snap'[h].settings = listing'[cur'[h]].settings
                          /\ snap'[h].currency = listing'[cur'[h]].currency
                          /\ snap'[h].etag = listing'[cur'[h]].etag
  BY DEF SnapshotFresh, Live
<1>1. CASE LoadCheckable(h)
  BY <1>1 DEF LoadCheckable, Checkable, Live, rowVars, TypeOK, CheckTypes
<1>2. CASE RetrievePage(h)
  BY <1>2 DEF RetrievePage, SnapshotFresh, Live, rowVars
<1>3. CASE SameCheck(h)
  <2> DEFINE l == cur[h]
  <2>1. l \in Listings /\ cur'[h] = l /\ h \in Loaded(l)
    BY <1>3 DEF SameCheck, TypeOK, CheckTypes, Loaded
  <2>2. CASE SameRow(l)
    BY <1>3, <2>2 DEF SameCheck, SameRow, SnapshotFresh, Live
  <2>3. ASSUME NEW g \in Handlers, ClaimOf(g, l)
        PROVE  h \in moved' /\ listing'[l].status = "live"
    <3>1. g # h
      BY <1>3, <2>3 DEF ClaimOf, PersistClaimed, SameCheck, TypeOK, CheckTypes
    <3>2. moved' = (moved \cup Loaded(l)) \ {g}
      BY <2>3 DEF ClaimOf, PersistClaimed
    <3> QED
      BY <2>1, <2>3, <3>1, <3>2, ClaimedRow DEF Live
  <2>4. ASSUME NEW e \in Editors, UpdateOf(e, l)
        PROVE  SameRow(l) \/ (h \in moved' /\ listing'[l].status = "live")
    BY <2>1, <2>4, UpdatedRow DEF Live
  <2>5. ~Inserted(l)
    BY <1>3 DEF Inserted, SameCheck, SnapshotFresh
  <2>6. CASE Dropped(l)
    BY <2>1, <2>6 DEF Dropped
  <2> QED
    BY <2>1, <2>2, <2>3, <2>4, <2>5, <2>6, RowSteps
<1> QED
  BY <1>1, <1>2, <1>3, HandlerSteps

LEMMA ResponseStep ==
    ASSUME TypeOK, ResponseFresh, Next
    PROVE  ResponseFresh'
<1> SUFFICES ASSUME NEW h \in Handlers, pc'[h] = "persist",
                    resp'[h].kind = "not_modified"
             PROVE  resp'[h].page = snap'[h].etag /\ resp'[h].page # None
  BY DEF ResponseFresh
<1>1. CASE SameCheck(h)
  BY <1>1 DEF SameCheck, ResponseFresh
<1>2. CASE LoadCheckable(h)
  BY <1>2 DEF LoadCheckable, TypeOK, CheckTypes
<1>3. CASE RetrievePage(h)
  <2>1. page[cur[h]] \in Pages /\ None \notin Pages
    BY <1>3, PipelineAssumption DEF RetrievePage, TypeOK, RowTypes, CheckTypes
  <2> QED
    BY <1>3, <2>1 DEF RetrievePage, Responses, TypeOK, CheckTypes
<1> QED
  BY <1>1, <1>2, <1>3, HandlerSteps

SnapshotInv == TypeOK /\ SnapshotFresh /\ ResponseFresh

LEMMA SnapshotInvariant == Spec => []SnapshotInv
<1>1. Init => SnapshotInv
  BY TypeInit DEF Init, SnapshotInv, SnapshotFresh, ResponseFresh
<1>2. TypeOK /\ SnapshotInv /\ [Next]_vars => (SnapshotFresh /\ ResponseFresh)'
  <2> SUFFICES ASSUME SnapshotInv, [Next]_vars
               PROVE  (SnapshotFresh /\ ResponseFresh)'
    BY DEF SnapshotInv
  <2>1. CASE UNCHANGED vars
    BY <2>1 DEF vars, rowVars, checkVars, handlerVars, SnapshotInv,
                SnapshotFresh, ResponseFresh, Live
  <2> QED
    BY <2>1, SnapshotStep, ResponseStep DEF SnapshotInv
<1> QED
  BY <1>1, <1>2, TypeCorrect, PTL DEF Spec, SnapshotInv

(* Only a claim takes a handler from its fetch to its alerts.              *)
LEMMA OnlyClaims ==
    ASSUME TypeOK, Next, NEW h \in Handlers,
           pc[h] = "persist", pc'[h] = "alert"
    PROVE  PersistClaimed(h)
<1> USE DEF TypeOK, CheckTypes
<1>1. CASE UNCHANGED <<checkVars, pc>>
  BY <1>1
<1>2. ASSUME NEW q \in Queues, NEW g \in Handlers, NEW S \in SUBSET Listings,
             FetchBatch(q, g, S)
      PROVE  FALSE
  BY <1>2 DEF FetchBatch
<1>3. ASSUME NEW g \in Handlers, CheckStep(g) \/ DatabaseFault(g)
      PROVE  PersistClaimed(h)
  <2>1. CASE PersistClaimed(g)
    BY <2>1 DEF PersistClaimed
  <2>2. CASE \/ \E l \in Listings : BeginCheck(g, l) \/ SkipInFlight(g, l)
             \/ CompleteBatch(g) \/ LoadCheckable(g) \/ RetrievePage(g)
    BY <2>2 DEF BeginCheck, SkipInFlight, CompleteBatch, LoadCheckable,
                RetrievePage
  <2>3. CASE \/ NothingToCheck(g) \/ PersistStale(g) \/ PersistOrphaned(g)
             \/ RunAlerting(g) \/ DatabaseFault(g)
    BY <2>3 DEF NothingToCheck, PersistStale, PersistOrphaned, RunAlerting,
                DatabaseFault, Throw
  <2> QED
    BY <1>3, <2>1, <2>2, <2>3 DEF CheckStep
<1>4. CASE Crash
  BY <1>4 DEF Crash
<1>5. CASE \E e \in Editors, s \in Settings \cup {Keep},
              c \in Currencies \cup {None, Keep}, a \in BOOLEAN \cup {Keep},
              sooner \in BOOLEAN : FinishUpdate(e, s, c, a, sooner)
  BY <1>5 DEF FinishUpdate, handlerVars
<1> QED
  BY CheckWriters, <1>1, <1>2, <1>3, <1>4, <1>5

(* A check that is recorded read its page under the settings, currency and *)
(* validator the listing has at that moment; any number of editors may be  *)
(* at work (persist's claim on updatedAt).                                 *)
THEOREM RecordsFresh == Spec => RecordedUnderCurrentSettings
<1>1. SnapshotInv /\ [Next]_vars =>
        [\A h \in Handlers :
           pc[h] = "persist" /\ pc'[h] = "alert" =>
              /\ snap[h].settings = listing[cur[h]].settings
              /\ snap[h].currency = listing[cur[h]].currency
              /\ snap[h].etag = listing[cur[h]].etag]_vars
  <2> SUFFICES ASSUME SnapshotInv, Next, NEW h \in Handlers,
                      pc[h] = "persist", pc'[h] = "alert"
               PROVE  /\ snap[h].settings = listing[cur[h]].settings
                      /\ snap[h].currency = listing[cur[h]].currency
                      /\ snap[h].etag = listing[cur[h]].etag
    OBVIOUS
  <2>1. Live(cur[h]) /\ h \notin moved
    BY OnlyClaims DEF SnapshotInv, PersistClaimed
  <2> QED
    BY <2>1 DEF SnapshotInv, SnapshotFresh
<1> QED
  BY <1>1, SnapshotInvariant, PTL DEF Spec, RecordedUnderCurrentSettings

(* What takes the "due" off a row that stays.                              *)
LEMMA DueStep ==
    ASSUME SnapshotInv, Next, NEW l \in Listings,
           Live(l), listing[l].due, Live(l)', ~listing'[l].due
    PROVE  \/ \E h \in Handlers :
                 /\ cur[h] = l /\ pc[h] = "persist" /\ pc'[h] = "alert"
                 /\ snap[h].settings = listing[l].settings
           \/ \E e \in Editors :
                 api[e].op = "update" /\ api[e].listing = l /\ api' # api
<1> USE DEF SnapshotInv, TypeOK, RowTypes
<1>0. /\ listing[l].status = "live" /\ listing'[l].status = "live"
      /\ listing'[l] # listing[l] /\ listing[l] \in ListingRow
  BY DEF Live
<1>1. ~UNCHANGED <<rowVars, page>>
  BY <1>0 DEF rowVars
<1>2. ASSUME NEW k \in Listings, PageChanges(k) \/ NextCheckPasses(k)
      PROVE  FALSE
  BY <1>0, <1>2 DEF PageChanges, NextCheckPasses, rowVars, ListingRow
<1>3. ASSUME NEW h \in Handlers, PersistClaimed(h)
      PROVE  /\ cur[h] = l /\ pc[h] = "persist" /\ pc'[h] = "alert"
             /\ snap[h].settings = listing[l].settings
  <2>1. cur[h] = l
    BY <1>0, <1>3 DEF PersistClaimed
  <2>2. pc[h] = "persist" /\ pc'[h] = "alert" /\ h \notin moved
    BY <1>3 DEF PersistClaimed, CheckTypes
  <2> QED
    BY <2>1, <2>2 DEF SnapshotFresh
<1>4. ASSUME NEW k \in Listings, NEW s \in Settings,
             NEW c \in Currencies \cup {None},
             \/ \E t \in {None, "user"} : CreateProduct(k, s, c, t)
             \/ AddListing(k, s, c)
      PROVE  FALSE
  <2>1. listing[k].status = "absent" /\ listing' = [listing EXCEPT ![k] = Tracked(s, c)]
    BY <1>4 DEF CreateProduct, AddListing
  <2> QED
    BY <1>0, <2>1
<1>5. ASSUME NEW e \in Editors, NEW s \in Settings \cup {Keep},
             NEW c \in Currencies \cup {None, Keep},
             NEW a \in BOOLEAN \cup {Keep}, NEW sooner \in BOOLEAN,
             FinishUpdate(e, s, c, a, sooner)
      PROVE  api[e].op = "update" /\ api[e].listing = l /\ api' # api
  <2>1. api[e].op = "update" /\ api'[e] = Idle
    BY <1>5 DEF FinishUpdate, RequestTypes
  <2>2. api' # api
    BY <2>1 DEF Idle
  <2>3. api[e].listing = l
    BY <1>0, <1>5 DEF FinishUpdate
  <2> QED
    BY <2>1, <2>2, <2>3
<1>6. ASSUME NEW S \in SUBSET Listings, Deleted(S)
      PROVE  FALSE
  <2>1. listing'[l] = IF l \in S
                        THEN [listing[l] EXCEPT !.status = "gone", !.etag = None]
                        ELSE listing[l]
    BY <1>6 DEF Deleted
  <2> QED
    BY <1>0, <2>1 DEF ListingRow
<1>7. ASSUME NEW e \in Editors, FinishRemove(e)
      PROVE  FALSE
  <2>1. {api[e].listing} \in SUBSET Listings
    BY <1>7 DEF FinishRemove, RequestTypes, Request
  <2> QED
    BY <1>6, <1>7, <2>1 DEF FinishRemove
<1>8. ASSUME NEW p \in Products, RemoveProduct(p)
      PROVE  FALSE
  BY <1>6, <1>8 DEF RemoveProduct, LiveListings
<1>9. ASSUME NEW p \in Products, NEW t \in {None, "user", Keep},
             NEW a \in BOOLEAN \cup {Keep}, UpdateProduct(p, t, a)
      PROVE  FALSE
  BY <1>0, <1>9 DEF UpdateProduct
<1> QED
  BY RowWriters, <1>1, <1>2, <1>3, <1>4, <1>5, <1>7, <1>8, <1>9

(* A listing stops being due only when a check of it is recorded under the *)
(* settings it has, or its owner's update says so; never by a check that   *)
(* went stale, failed to persist or crashed (check-persistence.ts persist, *)
(* listing-insert.ts buildListingUpdatePatch).                             *)
THEOREM DueIsKept == Spec => DueUntilRecorded
<1>1. SnapshotInv /\ [Next]_vars =>
        [\A l \in Listings :
           Live(l) /\ listing[l].due /\ Live(l)' /\ ~listing'[l].due =>
             \/ \E h \in Handlers :
                   /\ cur[h] = l /\ pc[h] = "persist" /\ pc'[h] = "alert"
                   /\ snap[h].settings = listing[l].settings
             \/ \E e \in Editors :
                   api[e].op = "update" /\ api[e].listing = l /\ api' # api]_vars
  BY DueStep
<1> QED
  BY <1>1, SnapshotInvariant, PTL DEF Spec, DueUntilRecorded

-----------------------------------------------------------------------------
(* A listings.update request computes its patch from a row that is read    *)
(* before it is written, so what follows is for one update at a time; with *)
(* two, either may overwrite the other's settings.                         *)
OneEditor == \A e, f \in Editors : e = f

(* The request in progress saw the settings the row still has.             *)
RequestFresh ==
    \A e \in Editors :
        api[e].op = "update" =>
            /\ listing[api[e].listing].status # "absent"
            /\ Live(api[e].listing) =>
                  api[e].settings = listing[api[e].listing].settings

LEMMA RequestSteps ==
    ASSUME TypeOK, Next, NEW e \in Editors, api'[e].op = "update"
    PROVE  api'[e] = api[e] \/ \E l \in Listings : BeginUpdate(e, l)
<1> USE DEF TypeOK, RequestTypes
<1>1. CASE \E l \in Listings : PageChanges(l) \/ NextCheckPasses(l)
  BY <1>1 DEF PageChanges, NextCheckPasses
<1>2. CASE QueueStep
  BY <1>2 DEF QueueStep, EnqueueDueChecks, SendDueCheck, FetchFor, FetchBatch,
              Reclaim, Expire
<1>3. CASE \E h \in Handlers : CheckStep(h) \/ DatabaseFault(h)
  BY <1>3 DEF CheckStep, BeginCheck, SkipInFlight, CompleteBatch, LoadCheckable,
              NothingToCheck, RetrievePage, PersistClaimed, PersistStale,
              PersistOrphaned, RunAlerting, DatabaseFault
<1>4. CASE Crash
  BY <1>4 DEF Crash
<1>5. CASE UserStep
  <2>1. CASE \E l \in Listings, s \in Settings, c \in Currencies \cup {None} :
                \/ \E t \in {None, "user"} : CreateProduct(l, s, c, t)
                \/ AddListing(l, s, c)
    BY <2>1 DEF CreateProduct, AddListing
  <2>2. ASSUME NEW f \in Editors, NEW l \in Listings,
               BeginUpdate(f, l) \/ BeginRemove(f, l)
        PROVE  api'[e] = api[e] \/ BeginUpdate(e, l)
    BY <2>2 DEF BeginUpdate, BeginRemove
  <2>3. CASE \/ \E p \in Products, t \in {None, "user", Keep},
                   a \in BOOLEAN \cup {Keep} : UpdateProduct(p, t, a)
             \/ \E p \in Products : RemoveProduct(p)
             \/ \E l \in Listings : CheckNow(l)
    BY <2>3 DEF UpdateProduct, RemoveProduct, CheckNow
  <2>4. CASE \/ \E f \in Editors : FinishRemove(f)
             \/ \E f \in Editors, s \in Settings \cup {Keep},
                   c \in Currencies \cup {None, Keep}, a \in BOOLEAN \cup {Keep},
                   sooner \in BOOLEAN : FinishUpdate(f, s, c, a, sooner)
    <3>1. PICK f \in Editors : api' = [api EXCEPT ![f] = Idle]
      BY <2>4 DEF FinishRemove, FinishUpdate
    <3> QED
      BY <3>1 DEF Idle
  <2> QED
    BY <1>5, <2>1, <2>2, <2>3, <2>4 DEF UserStep
<1> QED
  BY <1>1, <1>2, <1>3, <1>4, <1>5 DEF Next

LEMMA RequestFreshStep ==
    ASSUME TypeOK, RequestFresh, OneEditor, Next
    PROVE  RequestFresh'
<1> SUFFICES ASSUME NEW e \in Editors, api'[e].op = "update"
             PROVE  /\ listing'[api'[e].listing].status # "absent"
                    /\ listing'[api'[e].listing].status = "live" =>
                          api'[e].settings = listing'[api'[e].listing].settings
  BY DEF RequestFresh, Live
<1>1. ASSUME NEW l \in Listings, BeginUpdate(e, l)
      PROVE  /\ api'[e].listing = l /\ api'[e].settings = listing[l].settings
             /\ listing[l].status = "live" /\ listing' = listing
  BY <1>1 DEF BeginUpdate, rowVars, Live, TypeOK, RequestTypes
<1>2. CASE api'[e] = api[e]
  <2> DEFINE l == api[e].listing
  <2>1. l \in Listings /\ api[e].op = "update"
    BY <1>2 DEF TypeOK, RequestTypes, Request
  <2>2. /\ listing[l].status # "absent"
        /\ listing[l].status = "live" => api[e].settings = listing[l].settings
    BY <2>1 DEF RequestFresh, Live
  <2>3. CASE SameRow(l)
    BY <1>2, <2>2, <2>3 DEF SameRow
  <2>4. ASSUME NEW h \in Handlers, ClaimOf(h, l)
        PROVE  listing'[l].status = listing[l].status
               /\ listing'[l].settings = listing[l].settings
    BY <2>1, <2>4, ClaimedRow
  <2>5. ASSUME NEW f \in Editors, UpdateOf(f, l)
        PROVE  FALSE
    <3>1. api' = [api EXCEPT ![f] = Idle] /\ f = e
      BY <2>1, <2>5, UpdatedRow DEF OneEditor
    <3> QED
      BY <3>1 DEF Idle, TypeOK, RequestTypes
  <2>6. ~Inserted(l)
    BY <2>2 DEF Inserted
  <2>7. CASE Dropped(l)
    BY <1>2, <2>7 DEF Dropped
  <2> QED
    BY <1>2, <2>1, <2>2, <2>3, <2>4, <2>5, <2>6, <2>7, RowSteps
<1> QED
  BY <1>1, <1>2, RequestSteps

LEMMA ValidatorStep ==
    ASSUME SnapshotInv, RequestFresh, ValidatorEarned, Next
    PROVE  ValidatorEarned'
<1> USE DEF SnapshotInv
<1> SUFFICES ASSUME NEW l \in Listings, listing'[l].status = "live",
                    listing'[l].etag # None
             PROVE  <<listing'[l].settings, listing'[l].etag>> \in Readable
  BY DEF ValidatorEarned, Live
<1>1. listing[l].status = "live" /\ listing[l].etag # None =>
        <<listing[l].settings, listing[l].etag>> \in Readable
  BY DEF ValidatorEarned, Live
<1>2. CASE SameRow(l)
  BY <1>1, <1>2 DEF SameRow
<1>3. ASSUME NEW h \in Handlers, ClaimOf(h, l)
      PROVE  <<listing'[l].settings, listing'[l].etag>> \in Readable
  <2>1. /\ listing[l].status = "live" /\ listing'[l].settings = listing[l].settings
        /\ listing'[l].etag = IF EarnsValidator(snap[h], resp[h])
                                THEN resp[h].page ELSE listing[l].etag
    BY <1>3, ClaimedRow DEF Live
  <2>2. snap[h].settings = listing[l].settings /\ snap[h].etag = listing[l].etag
    BY <1>3, ClaimedRow DEF SnapshotFresh, ClaimOf
  <2>3. CASE resp[h].kind = "not_modified"
    <3>1. resp[h].page = listing[l].etag
      BY <1>3, <2>2, <2>3, ClaimedRow DEF ResponseFresh
    <3> QED
      BY <1>1, <2>1, <3>1
  <2>4. CASE Accepted(snap[h], resp[h])
    BY <1>1, <2>1, <2>2, <2>4 DEF Accepted
  <2>5. CASE ~EarnsValidator(snap[h], resp[h])
    BY <1>1, <2>1, <2>5
  <2> QED
    BY <2>3, <2>4, <2>5 DEF EarnsValidator
<1>4. ASSUME NEW e \in Editors, UpdateOf(e, l)
      PROVE  <<listing'[l].settings, listing'[l].etag>> \in Readable
  <2>1. api[e].op = "update" /\ api[e].listing = l
    BY <1>4, UpdatedRow DEF UpdateOf
  <2>2. Live(l) => api[e].settings = listing[l].settings
    BY <2>1 DEF RequestFresh
  <2> QED
    BY <1>1, <1>2, <1>4, <2>2, UpdatedRow DEF Live
<1>5. ~Inserted(l) /\ ~Dropped(l)
  BY DEF Inserted, Dropped
<1> QED
  BY <1>2, <1>3, <1>4, <1>5, RowSteps

(* A stored validator always names a page the settings in force read a     *)
(* price off, with one listings.update at a time and any number of         *)
(* handlers, faults, retries and listings.                                 *)
THEOREM ValidatorsEarned == OneEditor /\ Spec => []ValidatorEarned
<1> DEFINE Inv == OneEditor /\ RequestFresh /\ ValidatorEarned
<1>1. OneEditor /\ Init => Inv
  BY DEF Init, RequestFresh, ValidatorEarned, Idle
<1>2. SnapshotInv /\ Inv /\ [Next]_vars => Inv'
  <2> SUFFICES ASSUME SnapshotInv, Inv, [Next]_vars
               PROVE  Inv'
    OBVIOUS
  <2>1. OneEditor'
    BY DEF OneEditor
  <2>2. CASE UNCHANGED vars
    BY <2>1, <2>2 DEF vars, rowVars, RequestFresh, ValidatorEarned, Live
  <2> QED
    BY <2>1, <2>2, RequestFreshStep, ValidatorStep DEF SnapshotInv
<1> QED
  BY <1>1, <1>2, SnapshotInvariant, PTL DEF Spec

-----------------------------------------------------------------------------
(* A 304 says that the page has not changed since the validator was        *)
(* stored.  That it has not changed since the newest price was read needs  *)
(* a validator to come with every page whose price an HTTP fetch accepts:  *)
(* an accepted page without one leaves the older page's in the row.        *)
PricesAreTagged ==
    \A s \in Settings \ Browser, p \in Pages :
        <<s, p>> \in Readable => p \in Tagged

(* The stored validator is that of the page the newest price was read off. *)
ValidatorPaid ==
    \A l \in Listings :
        Live(l) /\ listing[l].etag # None =>
            /\ listing[l].settings \notin Browser
            /\ latest[l] # None /\ latest[l].page = listing[l].etag

(* Besides a claim, only a deletion touches a listing's newest price.      *)
LEMMA LatestSteps ==
    ASSUME TypeOK, Next, NEW l \in Listings, listing'[l].status = "live",
           ~\E h \in Handlers : ClaimOf(h, l)
    PROVE  latest'[l] = latest[l]
<1> USE DEF TypeOK, RowTypes
<1>1. CASE latest' = latest
  BY <1>1
<1>2. ASSUME NEW h \in Handlers, PersistClaimed(h)
      PROVE  latest'[l] = latest[l]
  BY <1>2 DEF PersistClaimed, ClaimOf
<1>3. ASSUME NEW S \in SUBSET Listings, Deleted(S)
      PROVE  latest'[l] = latest[l]
  <2>1. l \notin S
    BY <1>3 DEF Deleted, ListingRow
  <2> QED
    BY <1>3, <2>1 DEF Deleted
<1>4. ASSUME NEW e \in Editors, FinishRemove(e)
      PROVE  latest'[l] = latest[l]
  <2>1. {api[e].listing} \in SUBSET Listings
    BY <1>4 DEF FinishRemove, RequestTypes, Request
  <2> QED
    BY <1>3, <1>4, <2>1 DEF FinishRemove
<1>5. ASSUME NEW p \in Products, RemoveProduct(p)
      PROVE  latest'[l] = latest[l]
  BY <1>3, <1>5 DEF RemoveProduct, LiveListings
<1>6. CASE \/ UNCHANGED <<rowVars, page>>
           \/ \E k \in Listings : PageChanges(k) \/ NextCheckPasses(k)
           \/ \E k \in Listings, s \in Settings, c \in Currencies \cup {None} :
                 \/ \E t \in {None, "user"} : CreateProduct(k, s, c, t)
                 \/ AddListing(k, s, c)
           \/ \E e \in Editors, s \in Settings \cup {Keep},
                 c \in Currencies \cup {None, Keep}, a \in BOOLEAN \cup {Keep},
                 sooner \in BOOLEAN : FinishUpdate(e, s, c, a, sooner)
           \/ \E p \in Products, t \in {None, "user", Keep},
                 a \in BOOLEAN \cup {Keep} : UpdateProduct(p, t, a)
  BY <1>1, <1>6 DEF rowVars, PageChanges, NextCheckPasses, CreateProduct,
                    AddListing, FinishUpdate, UpdateProduct
<1> QED
  BY RowWriters, <1>2, <1>4, <1>5, <1>6

LEMMA PaidStep ==
    ASSUME SnapshotInv, RequestFresh, ValidatorPaid, PricesAreTagged, Next
    PROVE  ValidatorPaid'
<1> USE DEF SnapshotInv
<1> SUFFICES ASSUME NEW l \in Listings, listing'[l].status = "live",
                    listing'[l].etag # None
             PROVE  /\ listing'[l].settings \notin Browser
                    /\ latest'[l] # None /\ latest'[l].page = listing'[l].etag
  BY DEF ValidatorPaid, Live
<1>1. listing[l].status = "live" /\ listing[l].etag # None =>
        /\ listing[l].settings \notin Browser
        /\ latest[l] # None /\ latest[l].page = listing[l].etag
  BY DEF ValidatorPaid, Live
<1>2. ASSUME NEW h \in Handlers, ClaimOf(h, l)
      PROVE  /\ listing'[l].settings \notin Browser
             /\ latest'[l] # None /\ latest'[l].page = listing'[l].etag
  <2> DEFINE r == resp[h]
             s == snap[h]
  <2>1. /\ listing[l].status = "live" /\ listing'[l].settings = listing[l].settings
        /\ listing'[l].etag = IF EarnsValidator(s, r) THEN r.page ELSE listing[l].etag
        /\ s \in Snapshot /\ r \in Response
    BY <1>2, ClaimedRow DEF Live
  <2>2. s.settings = listing[l].settings /\ s.etag = listing[l].etag
    BY <1>2, ClaimedRow DEF SnapshotFresh, ClaimOf
  <2>3. CASE ~Accepted(s, r)
    <3>1. latest'[l] = latest[l]
      BY <1>2, <2>3 DEF ClaimOf, PersistClaimed
    <3>2. r.kind = "not_modified" => r.page = listing[l].etag
      BY <1>2, <2>2, ClaimedRow DEF ResponseFresh
    <3>3. listing'[l].etag = listing[l].etag
      BY <2>1, <2>3, <3>2 DEF EarnsValidator
    <3> QED
      BY <1>1, <2>1, <3>1, <3>3
  <2>4. CASE Accepted(s, r)
    <3>1. r.kind = "ok" /\ r.page \in Pages /\ <<listing[l].settings, r.page>> \in Readable
      BY <2>1, <2>2, <2>4, AcceptedTypes DEF Accepted
    <3>2. listing[l].settings \in Settings
      BY DEF TypeOK, RowTypes, ListingRow
    <3>3. CASE listing[l].settings \in Browser
      <4>1. ~EarnsValidator(s, r)
        BY <2>2, <3>1, <3>3 DEF EarnsValidator, CarriesTag
      <4> QED
        BY <1>1, <2>1, <3>3, <4>1
    <3>4. CASE listing[l].settings \notin Browser
      <4>1. r.page \in Tagged
        BY <3>1, <3>2, <3>4 DEF PricesAreTagged
      <4>2. EarnsValidator(s, r)
        BY <2>2, <2>4, <3>4, <4>1 DEF EarnsValidator, CarriesTag
      <4>3. [page |-> r.page, currency |-> Resolved(s, r.page)] # None
        BY <2>1, <2>4, AcceptedTypes, NoneAssumption DEF PricePoint
      <4>4. latest'[l] = [page |-> r.page, currency |-> Resolved(s, r.page)]
        BY <1>2, <2>4 DEF ClaimOf, PersistClaimed, TypeOK, RowTypes
      <4>5. latest'[l] # None /\ latest'[l].page = r.page
        BY <4>3, <4>4
      <4> QED
        BY <2>1, <3>4, <4>2, <4>5
    <3> QED
      BY <3>3, <3>4
  <2> QED
    BY <2>3, <2>4
<1>3. CASE ~\E h \in Handlers : ClaimOf(h, l)
  <2>1. latest'[l] = latest[l]
    BY <1>3, LatestSteps
  <2>2. CASE SameRow(l)
    BY <1>1, <2>1, <2>2 DEF SameRow
  <2>3. ASSUME NEW e \in Editors, UpdateOf(e, l)
        PROVE  /\ listing'[l].settings \notin Browser
               /\ latest'[l] # None /\ latest'[l].page = listing'[l].etag
    <3>1. Live(l) => api[e].settings = listing[l].settings
      BY <2>3, UpdatedRow DEF RequestFresh, UpdateOf
    <3> QED
      BY <1>1, <2>1, <2>2, <2>3, <3>1, UpdatedRow DEF Live
  <2>4. ~Inserted(l) /\ ~Dropped(l)
    BY DEF Inserted, Dropped
  <2> QED
    BY <1>3, <2>2, <2>3, <2>4, RowSteps
<1> QED
  BY <1>2, <1>3

(* A 304 that is about to be recorded hides no price change: the page it   *)
(* answers for is the one the newest price point was read from (outcome.ts,*)
(* not_modified).  One update at a time, and prices come with validators.  *)
THEOREM NothingHides ==
    OneEditor /\ PricesAreTagged /\ Spec => []NotModifiedMeansUnchanged
<1> DEFINE Inv == OneEditor /\ PricesAreTagged /\ RequestFresh /\ ValidatorPaid
<1>1. OneEditor /\ PricesAreTagged /\ Init => Inv
  BY DEF Init, RequestFresh, ValidatorPaid, Idle
<1>2. SnapshotInv /\ Inv /\ [Next]_vars => Inv'
  <2> SUFFICES ASSUME SnapshotInv, Inv, [Next]_vars
               PROVE  Inv'
    OBVIOUS
  <2>1. (OneEditor /\ PricesAreTagged)'
    BY DEF OneEditor, PricesAreTagged
  <2>2. CASE UNCHANGED vars
    BY <2>1, <2>2 DEF vars, rowVars, RequestFresh, ValidatorPaid, Live
  <2> QED
    BY <2>1, <2>2, RequestFreshStep, PaidStep DEF SnapshotInv
<1>3. SnapshotInv /\ Inv => NotModifiedMeansUnchanged
  <2> SUFFICES ASSUME SnapshotInv, Inv, NEW h \in Handlers,
                      pc[h] = "persist", resp[h].kind = "not_modified",
                      Live(cur[h]), h \notin moved
               PROVE  latest[cur[h]] # None /\ latest[cur[h]].page = resp[h].page
    BY DEF NotModifiedMeansUnchanged
  <2>1. cur[h] \in Listings
    BY DEF SnapshotInv, TypeOK, CheckTypes
  <2>2. resp[h].page = listing[cur[h]].etag /\ listing[cur[h]].etag # None
    BY DEF SnapshotInv, SnapshotFresh, ResponseFresh
  <2> QED
    BY <2>1, <2>2 DEF ValidatorPaid
<1> QED
  BY <1>1, <1>2, <1>3, SnapshotInvariant, PTL DEF Spec

-----------------------------------------------------------------------------
(* The pipeline implements PriceLedger.                                    *)

(* A listing that is not there has no price and no validator.              *)
NothingLeft ==
    \A l \in Listings : ~Live(l) => latest[l] = None /\ listing[l].etag = None

LEMMA NothingLeftStep ==
    ASSUME TypeOK, NothingLeft, Next
    PROVE  NothingLeft'
<1> USE DEF TypeOK, RowTypes
<1> SUFFICES ASSUME NEW l \in Listings, listing'[l].status # "live"
             PROVE  latest'[l] = None /\ listing'[l].etag = None
  BY DEF NothingLeft, Live
<1>1. listing[l].status # "live" => latest[l] = None /\ listing[l].etag = None
  BY DEF NothingLeft, Live
<1>2. ASSUME SameRow(l), latest'[l] = latest[l]
      PROVE  latest'[l] = None /\ listing'[l].etag = None
  BY <1>1, <1>2 DEF SameRow
<1>3. CASE UNCHANGED <<rowVars, page>>
  BY <1>2, <1>3 DEF SameRow, rowVars
<1>4. ASSUME NEW k \in Listings, PageChanges(k) \/ NextCheckPasses(k)
      PROVE  latest'[l] = None /\ listing'[l].etag = None
  BY <1>2, <1>4 DEF PageChanges, NextCheckPasses, SameRow, rowVars, ListingRow
<1>5. ASSUME NEW h \in Handlers, PersistClaimed(h)
      PROVE  latest'[l] = None /\ listing'[l].etag = None
  <2>1. CASE cur[h] = l
    <3>1. ClaimOf(h, l)
      BY <1>5, <2>1 DEF ClaimOf
    <3> QED
      BY <3>1, ClaimedRow DEF Live
  <2>2. CASE cur[h] # l
    BY <1>2, <1>5, <2>2 DEF PersistClaimed, SameRow
  <2> QED
    BY <2>1, <2>2
<1>6. ASSUME NEW k \in Listings, NEW s \in Settings,
             NEW c \in Currencies \cup {None},
             \/ \E t \in {None, "user"} : CreateProduct(k, s, c, t)
             \/ AddListing(k, s, c)
      PROVE  latest'[l] = None /\ listing'[l].etag = None
  <2>1. listing' = [listing EXCEPT ![k] = Tracked(s, c)] /\ latest' = latest
    BY <1>6 DEF CreateProduct, AddListing
  <2> QED
    BY <1>2, <2>1 DEF SameRow, Tracked
<1>7. ASSUME NEW e \in Editors, NEW s \in Settings \cup {Keep},
             NEW c \in Currencies \cup {None, Keep},
             NEW a \in BOOLEAN \cup {Keep}, NEW sooner \in BOOLEAN,
             FinishUpdate(e, s, c, a, sooner)
      PROVE  latest'[l] = None /\ listing'[l].etag = None
  <2>1. latest' = latest
    BY <1>7 DEF FinishUpdate
  <2>2. CASE UpdateOf(e, l)
    BY <1>2, <2>1, <2>2, UpdatedRow DEF Live
  <2>3. CASE api[e].listing # l
    BY <1>2, <1>7, <2>1, <2>3 DEF FinishUpdate, SameRow
  <2> QED
    BY <1>7, <2>2, <2>3 DEF UpdateOf
<1>8. ASSUME NEW S \in SUBSET Listings, Deleted(S)
      PROVE  latest'[l] = None /\ listing'[l].etag = None
  <2>1. CASE l \in S
    BY <1>8, <2>1 DEF Deleted, ListingRow
  <2>2. CASE l \notin S
    BY <1>2, <1>8, <2>2 DEF Deleted, SameRow
  <2> QED
    BY <2>1, <2>2
<1>9. ASSUME NEW e \in Editors, FinishRemove(e)
      PROVE  latest'[l] = None /\ listing'[l].etag = None
  <2>1. {api[e].listing} \in SUBSET Listings
    BY <1>9 DEF FinishRemove, RequestTypes, Request
  <2> QED
    BY <1>8, <1>9, <2>1 DEF FinishRemove
<1>10. ASSUME NEW p \in Products, RemoveProduct(p)
       PROVE  latest'[l] = None /\ listing'[l].etag = None
  BY <1>8, <1>10 DEF RemoveProduct, LiveListings
<1>11. CASE \E p \in Products, t \in {None, "user", Keep},
               a \in BOOLEAN \cup {Keep} : UpdateProduct(p, t, a)
  BY <1>2, <1>11 DEF UpdateProduct, SameRow
<1> QED
  BY RowWriters, <1>3, <1>4, <1>5, <1>6, <1>7, <1>9, <1>10, <1>11

(* A step that leaves what the ledger sees of every row is a stutter.      *)
LEMMA LedgerStutter ==
    ASSUME latest' = latest,
           \A l \in Listings :
              /\ listing'[l].status = listing[l].status
              /\ listing'[l].settings = listing[l].settings
              /\ listing'[l].etag = listing[l].etag
    PROVE  UNCHANGED <<config, validator, observed>>
BY DEF config, validator, observed, Live

LEMMA LedgerClaim ==
    ASSUME SnapshotInv, NEW h \in Handlers, PersistClaimed(h)
    PROVE  [Ledger!LedgerNext]_<<config, validator, observed>>
<1> USE DEF SnapshotInv
<1> DEFINE l == cur[h]
           p == resp[h].page
<1>1. l \in Listings
  BY DEF PersistClaimed, TypeOK, CheckTypes
<1>2. ClaimOf(h, l)
  BY DEF ClaimOf
<1>3. /\ Live(l) /\ listing'[l].status = "live"
      /\ listing'[l].settings = listing[l].settings
      /\ listing'[l].etag = IF EarnsValidator(snap[h], resp[h]) THEN p
                                                              ELSE listing[l].etag
      /\ snap[h] \in Snapshot /\ resp[h] \in Response
  BY <1>1, <1>2, ClaimedRow DEF Live
<1>4. \A k \in Listings : k # l => listing'[k] = listing[k]
  BY DEF PersistClaimed
<1>5. snap[h].settings = listing[l].settings /\ snap[h].etag = listing[l].etag
  BY <1>1, <1>2, ClaimedRow DEF SnapshotFresh
<1>6. CASE ~Accepted(snap[h], resp[h])
  <2>1. listing'[l].etag = listing[l].etag
    <3>1. resp[h].kind = "not_modified" => p = listing[l].etag
      BY <1>1, <1>2, <1>5, ClaimedRow DEF ResponseFresh
    <3> QED
      BY <1>3, <1>6, <3>1 DEF EarnsValidator
  <2>2. latest' = latest
    BY <1>6 DEF PersistClaimed
  <2> QED
    BY <1>3, <1>4, <2>1, <2>2, LedgerStutter DEF Live
<1>7. CASE Accepted(snap[h], resp[h])
  <2>1. p \in Pages /\ <<listing[l].settings, p>> \in Readable
    BY <1>3, <1>5, <1>7, AcceptedTypes DEF Accepted
  <2>2. config' = config /\ config[l] = listing[l].settings
    BY <1>1, <1>3, <1>4 DEF config, Live
  <2>3. listing[l].settings # None
    BY <1>1, PipelineAssumption DEF TypeOK, RowTypes, ListingRow
  <2>4. observed' = [observed EXCEPT ![l] = p]
    <3>1. latest' = [latest EXCEPT ![l] =
                       [page |-> p, currency |-> Resolved(snap[h], p)]]
      BY <1>7 DEF PersistClaimed
    <3>2. [page |-> p, currency |-> Resolved(snap[h], p)] # None
      BY <1>3, <1>7, AcceptedTypes, NoneAssumption DEF PricePoint
    <3>3. latest'[l] = [page |-> p, currency |-> Resolved(snap[h], p)]
      BY <1>1, <3>1 DEF TypeOK, RowTypes
    <3>4. \A k \in Listings : k # l => latest'[k] = latest[k]
      BY <3>1 DEF TypeOK, RowTypes
    <3>5. latest'[l] # None /\ latest'[l].page = p
      BY <3>2, <3>3
    <3> QED
      BY <1>1, <3>4, <3>5 DEF observed
  <2>5. validator' \in {validator, [validator EXCEPT ![l] = p]}
    <3>1. CASE listing'[l].etag = p
      BY <1>1, <1>3, <1>4, <3>1 DEF validator, Live
    <3>2. CASE listing'[l].etag = listing[l].etag
      BY <1>1, <1>3, <1>4, <3>2 DEF validator, Live
    <3> QED
      BY <1>3, <3>1, <3>2
  <2>6. Ledger!Observe(l, p)
    BY <2>1, <2>2, <2>3, <2>4, <2>5 DEF Ledger!Observe
  <2> QED
    BY <1>1, <2>1, <2>6 DEF Ledger!LedgerNext
<1> QED
  BY <1>6, <1>7

LEMMA LedgerUpdate ==
    ASSUME TypeOK, RequestFresh, Next, NEW e \in Editors,
           NEW s \in Settings \cup {Keep}, NEW c \in Currencies \cup {None, Keep},
           NEW a \in BOOLEAN \cup {Keep}, NEW sooner \in BOOLEAN, FinishUpdate(e, s, c, a, sooner)
    PROVE  [Ledger!LedgerNext]_<<config, validator, observed>>
<1> DEFINE l == api[e].listing
<1>1. l \in Listings /\ listing[l] \in ListingRow /\ api[e].op = "update"
  BY DEF FinishUpdate, TypeOK, RowTypes, RequestTypes, Request
<1>2. UpdateOf(e, l)
  BY DEF UpdateOf
<1>3. \A k \in Listings : k # l => listing'[k] = listing[k]
  BY DEF FinishUpdate, TypeOK, RowTypes
<1>4. latest' = latest
  BY DEF FinishUpdate
<1>5. listing'[l].status = listing[l].status
  BY <1>1, <1>2, UpdatedRow
<1>6. CASE SameRow(l)
  BY <1>3, <1>4, <1>6, LedgerStutter DEF SameRow
<1>7. CASE Live(l) /\ listing'[l].etag = listing[l].etag
           /\ listing'[l].settings \in {listing[l].settings, api[e].settings}
  <2>1. listing'[l].settings = listing[l].settings
    BY <1>1, <1>7 DEF RequestFresh
  <2> QED
    BY <1>3, <1>4, <1>5, <1>7, <2>1, LedgerStutter
<1>8. CASE Live(l) /\ listing'[l].etag = None
  <2> DEFINE new == listing'[l].settings
  <2>1. new \in Settings /\ listing[l].settings # None
    BY <1>1, RowTypesStep, PipelineAssumption DEF RowTypes, ListingRow
  <2>2. config' = [config EXCEPT ![l] = new] /\ config[l] = listing[l].settings
    BY <1>1, <1>3, <1>5, <1>8 DEF config, Live
  <2>3. validator' = [validator EXCEPT ![l] = None]
    BY <1>1, <1>3, <1>5, <1>8 DEF validator, Live
  <2>4. observed' = observed
    BY <1>4 DEF observed
  <2>5. Ledger!Reconfigure(l, new)
    BY <2>1, <2>2, <2>3, <2>4 DEF Ledger!Reconfigure
  <2> QED
    BY <1>1, <2>1, <2>5 DEF Ledger!LedgerNext
<1> QED
  BY <1>1, <1>2, <1>6, <1>7, <1>8, UpdatedRow

LEMMA LedgerInsert ==
    ASSUME TypeOK, NothingLeft, NEW l \in Listings, NEW s \in Settings,
           NEW c \in Currencies \cup {None}, listing[l].status = "absent",
           listing' = [listing EXCEPT ![l] = Tracked(s, c)], latest' = latest
    PROVE  Ledger!LedgerNext
<1>1. latest[l] = None /\ ~Live(l)
  BY DEF NothingLeft, Live
<1>2. listing'[l] = Tracked(s, c)
  BY DEF TypeOK, RowTypes
<1>3. \A k \in Listings : k # l => listing'[k] = listing[k]
  BY DEF TypeOK, RowTypes
<1>4. listing'[l].status = "live" /\ listing'[l].settings = s /\ listing'[l].etag = None
  BY <1>2 DEF Tracked
<1>5. /\ config[l] = None
      /\ config' = [config EXCEPT ![l] = s]
  <2>1. config[l] = None
    BY <1>1 DEF config
  <2>2. config' = [config EXCEPT ![l] = s]
    <3>1. \A k \in Listings :
            (IF listing'[k].status = "live" THEN listing'[k].settings ELSE None)
              = IF k = l THEN s
                ELSE IF listing[k].status = "live" THEN listing[k].settings ELSE None
      BY <1>3, <1>4
    <3> QED
      BY <3>1 DEF config, Live
  <2> QED
    BY <2>1, <2>2
<1>6. validator' = [validator EXCEPT ![l] = None]
  BY <1>1, <1>3, <1>4 DEF validator, Live
<1>7. observed' = [observed EXCEPT ![l] = None]
  BY <1>1 DEF observed
<1>8. Ledger!Track(l, s)
  BY <1>5, <1>6, <1>7 DEF Ledger!Track
<1> QED
  BY <1>8 DEF Ledger!LedgerNext

LEMMA LedgerDelete ==
    ASSUME TypeOK, NothingLeft, NEW S \in SUBSET Listings, Deleted(S)
    PROVE  Ledger!LedgerNext
<1>1. \A l \in Listings : l \in S =>
          listing'[l].status = "gone" /\ latest'[l] = None
  BY DEF Deleted, TypeOK, RowTypes, ListingRow
<1>2. \A l \in Listings : l \notin S =>
          listing'[l] = listing[l] /\ latest'[l] = latest[l]
  BY DEF Deleted
<1>3. config' = [l \in Listings |-> IF l \in S THEN None ELSE config[l]]
  BY <1>1, <1>2 DEF config, Live
<1>4. validator' = [l \in Listings |-> IF l \in S THEN None ELSE validator[l]]
  BY <1>1, <1>2 DEF validator, Live
<1>5. observed' = [l \in Listings |-> IF l \in S THEN None ELSE observed[l]]
  BY <1>1, <1>2 DEF observed
<1>6. Ledger!Untrack(S)
  BY <1>3, <1>4, <1>5 DEF Ledger!Untrack
<1> QED
  BY <1>6 DEF Ledger!LedgerNext

LEMMA LedgerStep ==
    ASSUME SnapshotInv, RequestFresh, NothingLeft, Next
    PROVE  [Ledger!LedgerNext]_<<config, validator, observed>>
<1> USE DEF SnapshotInv
<1>1. ASSUME UNCHANGED <<listing, latest>>
      PROVE  UNCHANGED <<config, validator, observed>>
  BY <1>1, LedgerStutter
<1>2. CASE \/ UNCHANGED <<rowVars, page>>
           \/ \E p \in Products, t \in {None, "user", Keep},
                 a \in BOOLEAN \cup {Keep} : UpdateProduct(p, t, a)
  BY <1>1, <1>2 DEF rowVars, UpdateProduct
<1>3. ASSUME NEW l \in Listings, PageChanges(l) \/ NextCheckPasses(l)
      PROVE  UNCHANGED <<config, validator, observed>>
  <2>1. \A k \in Listings :
          /\ listing'[k].status = listing[k].status
          /\ listing'[k].settings = listing[k].settings
          /\ listing'[k].etag = listing[k].etag
    BY <1>3 DEF PageChanges, NextCheckPasses, rowVars, TypeOK, RowTypes, ListingRow
  <2> QED
    BY <1>3, <2>1, LedgerStutter DEF PageChanges, NextCheckPasses, rowVars
<1>4. CASE \E l \in Listings, s \in Settings, c \in Currencies \cup {None} :
              \/ \E t \in {None, "user"} : CreateProduct(l, s, c, t)
              \/ AddListing(l, s, c)
  BY <1>4, LedgerInsert DEF CreateProduct, AddListing
<1>5. ASSUME NEW e \in Editors, FinishRemove(e)
      PROVE  Ledger!LedgerNext
  <2>1. {api[e].listing} \in SUBSET Listings
    BY <1>5 DEF FinishRemove, TypeOK, RequestTypes, Request
  <2> QED
    BY <1>5, <2>1, LedgerDelete DEF FinishRemove
<1>6. ASSUME NEW p \in Products, RemoveProduct(p)
      PROVE  Ledger!LedgerNext
  <2>1. LiveListings(p) \in SUBSET Listings
    BY DEF LiveListings
  <2> QED
    BY <1>6, <2>1, LedgerDelete DEF RemoveProduct
<1> QED
  BY RowWriters, <1>2, <1>3, <1>4, <1>5, <1>6, LedgerClaim, LedgerUpdate

(* The pipeline implements the price ledger: with one update at a time,    *)
(* every observation, reconfiguration and removal is one step of it.       *)
THEOREM PipelineImplementsLedger == OneEditor /\ Spec => ImplementsLedger
<1> DEFINE Inv == OneEditor /\ RequestFresh /\ NothingLeft
<1>1. OneEditor /\ Init => Inv /\ Ledger!LedgerInit
  BY DEF Init, RequestFresh, NothingLeft, Idle, Live, config, validator,
         observed, Ledger!LedgerInit
<1>2. SnapshotInv /\ Inv /\ [Next]_vars => Inv'
  <2> SUFFICES ASSUME SnapshotInv, Inv, [Next]_vars
               PROVE  Inv'
    OBVIOUS
  <2>1. OneEditor'
    BY DEF OneEditor
  <2>2. CASE UNCHANGED vars
    BY <2>1, <2>2 DEF vars, rowVars, RequestFresh, NothingLeft, Live
  <2> QED
    BY <2>1, <2>2, RequestFreshStep, NothingLeftStep DEF SnapshotInv
<1>3. SnapshotInv /\ Inv /\ [Next]_vars
        => [Ledger!LedgerNext]_<<config, validator, observed>>
  <2> SUFFICES ASSUME SnapshotInv, Inv, [Next]_vars
               PROVE  [Ledger!LedgerNext]_<<config, validator, observed>>
    OBVIOUS
  <2>1. CASE UNCHANGED vars
    BY <2>1, LedgerStutter DEF vars, rowVars
  <2> QED
    BY <2>1, LedgerStep
<1> QED
  BY <1>1, <1>2, <1>3, SnapshotInvariant, PTL
  DEF Spec, ImplementsLedger, Ledger!LedgerSpec, Ledger!ledgerVars
=============================================================================
