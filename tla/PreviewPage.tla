---------------------------- MODULE PreviewPage -----------------------------
(***************************************************************************)
(* The server half of the preview: preview.page loads a page over one or   *)
(* two transports, chooses the observation to show, and keeps the body in  *)
(* a small cache that the picker's later questions read (packages/api/src/ *)
(* preview.ts and routers/preview.ts).                                     *)
(*                                                                         *)
(* Previews meet only in the cache, whose every use is one synchronous     *)
(* step; so one preview runs at a time, while pages already stored are     *)
(* read, and grow older, between its steps.  A page is what the extraction *)
(* chain makes of it; bodies, titles, evidence and logs are left out.      *)
(***************************************************************************)
EXTENDS Naturals, Sequences, SequencesExt, FiniteSets

CONSTANTS
    Ids,          \* random preview ids
    Extractions,  \* what the chain may read: confidence, price and Fields
    MaxEntries,   \* MAX_PREVIEWS
    Ttl,          \* PREVIEW_TTL_MS, in ticks
    Failed,       \* no page was retrieved
    Blank,        \* a page without a price
    None

Fields == {"currency", "availability", "inStock"}
Transports == {"http", "browser"}
Modes == {"auto"} \cup Transports

ASSUME PreviewAssumption ==
    /\ MaxEntries \in Nat \ {0} /\ Ttl \in Nat
    /\ \A e \in Extractions : /\ {"confidence", "price"} \cup Fields \subseteq DOMAIN e
                             /\ e.confidence \in {"high", "low"}
    /\ Failed \notin Extractions /\ Blank \notin Extractions \cup {Failed}

(* What a transport brought back. *)
Readings == {Failed, Blank} \cup Extractions
Attempt == [transport : Transports, reading : Readings]

VARIABLES
    renderUrl,    \* is RENDER_URL set (fixed for the life of the process)
    cache,        \* the Map of PreviewCache: each key's entry
    request,      \* the preview.page call under way
    answer,       \* what the last one answered
    used          \* ghost: of each id drawn, the ids used since it was

server == <<cache, used>>
vars == <<renderUrl, cache, request, answer, used>>

Ages == 0..(Ttl + 1)
\* A Map iterates in insertion order: an entry has the keys inserted after it.
Entry == [age : Ages, after : SUBSET Ids]
Empty == [id \in {} |-> None]
NoRequest == [step |-> "idle", mode |-> "auto", attempts |-> <<>>]

TypeOK ==
    /\ renderUrl \in BOOLEAN
    /\ DOMAIN cache \subseteq Ids /\ cache \in [DOMAIN cache -> Entry]
    /\ IsFiniteSet(DOMAIN cache) /\ Cardinality(DOMAIN cache) <= MaxEntries
    /\ DOMAIN used \subseteq Ids /\ used \in [DOMAIN used -> SUBSET DOMAIN used]
    /\ request \in [step : {"idle", "first", "second"}, mode : Modes, attempts : Seq(Attempt)]
    /\ answer.kind \in {"none", "rejected", "failed", "no_extraction", "extracted", "gone", "read"}

-----------------------------------------------------------------------------
(* Choosing between the observations of two transports. *)

Retrieved(a) == a.reading # Failed
Extracted(a) == a.reading \in Extractions

(* previewTransports: which transports to try, in which order. *)
PreviewTransports(mode) ==
    CASE mode = "auto" -> IF renderUrl THEN <<"http", "browser">> ELSE <<"http">>
      [] mode = "browser" -> IF renderUrl THEN <<"browser">> ELSE <<>>
      [] mode = "http" -> <<"http">>

Agree(e, f) == \A k \in Fields : e[k] = f[k]

(* materiallyChangesTrackedObservation *)
MateriallyChanges(h, b) ==
    \/ h.price # b.price
    \/ /\ ~Agree(h, b)
       /\ \A k \in Fields : h[k] # None => b[k] # None

BrowserShouldWinIfNewer(h, b) == MateriallyChanges(h, b)
BrowserShouldWin(h, b) ==
    IF h.confidence # b.confidence THEN b.confidence = "high"
    ELSE b.confidence = "low" /\ MateriallyChanges(h, b)

(* withHttpFallbackCurrency *)
WithHttpFallbackCurrency(h, b) ==
    IF b.currency = None THEN [b EXCEPT !.currency = h.currency] ELSE b

Outcome(kind, transport, e, as) ==
    [kind |-> kind, transport |-> transport, extraction |-> e, attempts |-> as]

SingleAttemptOutcome(a) ==
    CASE Extracted(a) -> Outcome("extracted", a.transport, a.reading, <<a>>)
      [] Retrieved(a) /\ ~Extracted(a) -> Outcome("no_extraction", a.transport, None, <<a>>)
      [] OTHER -> Outcome("failed", None, None, <<a>>)

(* orchestratePreview once both transports have run. *)
SecondAttemptOutcome(h, b) ==
    CASE Extracted(b) /\ ~Extracted(h) ->
           Outcome("extracted", b.transport, b.reading, <<h, b>>)
      [] Extracted(b) /\ Extracted(h) /\ BrowserShouldWin(h.reading, b.reading) ->
           Outcome("extracted", b.transport,
                   WithHttpFallbackCurrency(h.reading, b.reading), <<h, b>>)
      [] Extracted(h) /\ (Extracted(b) => ~BrowserShouldWin(h.reading, b.reading)) ->
           Outcome("extracted", h.transport, h.reading, <<h, b>>)
      [] ~Extracted(h) /\ ~Extracted(b) /\ Retrieved(b) ->
           Outcome("no_extraction", b.transport, None, <<h, b>>)
      [] ~Extracted(h) /\ Retrieved(h) /\ ~Retrieved(b) ->
           Outcome("no_extraction", h.transport, None, <<h, b>>)
      [] ~Retrieved(h) /\ ~Retrieved(b) -> Outcome("failed", None, None, <<h, b>>)

(* HTTP is decisive: automatic mode does not pay for a browser. *)
Decisive(a) == Extracted(a) /\ a.reading.confidence = "high"

-----------------------------------------------------------------------------
(* PreviewCache *)

Expired(e) == e.age > Ttl
Holds(id) == id \in DOMAIN cache /\ ~Expired(cache[id])

Without(map, gone) ==
    LET kept == DOMAIN map \ gone
    IN  [k \in kept |-> [map[k] EXCEPT !.after = @ \cap kept]]

\* Deleted and set again, a key is the last.
Inserted(map, id, age) ==
    [k \in DOMAIN map \cup {id} |->
        IF k = id THEN [age |-> age, after |-> {}] ELSE [map[k] EXCEPT !.after = @ \cup {id}]]

(* set: prune, insert, evict the first keys until the map is small enough. *)
Pruned == Without(cache, {k \in DOMAIN cache : Expired(cache[k])})
Stored(id) ==
    LET map == Inserted(Pruned, id, 0)
    IN  Without(map, {k \in DOMAIN map : Cardinality(map[k].after) >= MaxEntries})

(* get: an expired entry is dropped, a live one moves to the end. *)
ReadInPlace(id) == IF Holds(id) THEN cache ELSE Without(cache, {id})
Read(id) == IF Holds(id) THEN Inserted(cache, id, cache[id].age) ELSE Without(cache, {id})

Use(id) ==
    used' = [k \in DOMAIN used \cup {id} |-> IF k = id THEN {} ELSE used[k] \cup {id}]

-----------------------------------------------------------------------------
Init ==
    /\ renderUrl \in BOOLEAN
    /\ cache = Empty /\ used = Empty
    /\ request = NoRequest /\ answer = [kind |-> "none"]

(* preview.page: a deployment without a renderer refuses browser mode, then *)
(* the URL is judged.                                                       *)
PageRejected ==
    /\ request.step = "idle"
    /\ answer' = [kind |-> "rejected"]
    /\ UNCHANGED <<renderUrl, request, server>>

Page(mode) ==
    /\ request.step = "idle"
    /\ mode = "browser" => renderUrl
    /\ request' = [step |-> "first", mode |-> mode, attempts |-> <<>>]
    /\ answer' = [kind |-> "none"]
    /\ UNCHANGED <<renderUrl, server>>

(* A failed preview is told why and keeps nothing; any other is kept under  *)
(* a fresh id.                                                              *)
Finish(o) ==
    /\ request' = NoRequest
    /\ answer' = o
    /\ IF o.kind = "failed"
       THEN UNCHANGED server
       ELSE \E id \in Ids \ DOMAIN used :
              cache' = Stored(id) /\ Use(id)
    /\ UNCHANGED renderUrl

(* An id out of the cache and out of sight may be drawn again: ids stand    *)
(* for UUIDs, and forgetting the oldest bounds them.                        *)
Forget(id) ==
    /\ id \in DOMAIN used \ DOMAIN cache
    /\ used' = [k \in DOMAIN used \ {id} |-> used[k] \ {id}]
    /\ answer' = [kind |-> "none"]
    /\ UNCHANGED <<renderUrl, cache, request>>

FirstAttempt(reading) ==
    LET transports == PreviewTransports(request.mode)
        a == [transport |-> transports[1], reading |-> reading]
    IN  /\ request.step = "first"
        /\ CASE Len(transports) = 1 -> Finish(SingleAttemptOutcome(a))
             [] Len(transports) = 2 /\ Decisive(a) -> Finish(SingleAttemptOutcome(a))
             [] OTHER -> /\ request' = [request EXCEPT !.step = "second", !.attempts = <<a>>]
                         /\ UNCHANGED <<renderUrl, answer, server>>

SecondAttempt(reading) ==
    /\ request.step = "second"
    /\ Finish(SecondAttemptOutcome(request.attempts[1],
                                   [transport |-> "browser", reading |-> reading]))

(* source, suggestExpressions and testExpression: requireEntry.             *)
Ask(id) ==
    /\ id \in DOMAIN used
    /\ cache' = Read(id)
    /\ IF Holds(id)
       THEN Use(id) /\ answer' = [kind |-> "read"]
       ELSE UNCHANGED used /\ answer' = [kind |-> "gone"]
    /\ UNCHANGED <<renderUrl, request>>

Tick ==
    /\ DOMAIN cache # {}
    /\ cache' = [k \in DOMAIN cache |-> [cache[k] EXCEPT !.age = IF @ > Ttl THEN @ ELSE @ + 1]]
    /\ UNCHANGED <<renderUrl, request, answer, used>>

(* A restarted web process forgets previews in progress.                   *)
Restart ==
    /\ cache' = Empty /\ used' = Empty
    /\ request' = NoRequest /\ answer' = [kind |-> "none"]
    /\ UNCHANGED renderUrl

Next ==
    \/ PageRejected \/ Restart
    \/ \E mode \in Modes : Page(mode)
    \/ \E reading \in Readings : FirstAttempt(reading) \/ SecondAttempt(reading)
    \/ \E id \in Ids : Ask(id) \/ Forget(id)
    \/ Tick

Spec == Init /\ [][Next]_vars

-----------------------------------------------------------------------------
(* Properties *)

Answered == answer.kind \in {"failed", "no_extraction", "extracted"}
Ran == ToSet(answer.attempts)

(* "chooses the stronger observation without discarding a usable HTTP       *)
(* fallback" (preview.ts:143): what is shown is the strongest kind of       *)
(* answer any transport gave, and as confident as the best of them.         *)
StrongestShown ==
    Answered =>
      /\ (\E a \in Ran : Extracted(a)) => answer.kind = "extracted"
      /\ (\E a \in Ran : Retrieved(a)) => answer.kind # "failed"
      /\ (\E a \in Ran : Extracted(a) /\ a.reading.confidence = "high")
            => answer.extraction.confidence = "high"

(* "the page being actively worked on is never the one evicted to make      *)
(* room" (preview.ts:440): but for a restart, a live page goes only for pages *)
(* used later.                                                              *)
EvictedInOrderOfUse ==
    [][DOMAIN used' # {} => \A id \in DOMAIN cache \ DOMAIN cache' :
         ~Expired(cache[id]) =>
            /\ Cardinality(DOMAIN cache') = MaxEntries
            /\ DOMAIN cache' \subseteq used'[id]]_vars
=============================================================================
