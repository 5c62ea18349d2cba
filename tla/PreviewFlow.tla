---------------------------- MODULE PreviewFlow -----------------------------
(***************************************************************************)
(* The client half of the preview: usePreviewFlow, shared by the forms     *)
(* that add a product or a store and by the repair panel of a listing's    *)
(* editor (apps/web/src/components/products).  A preview is loaded, the    *)
(* reader accepts the automatic result, or types the price the page shows  *)
(* and lets the locator pin an expression, or writes one; what is `chosen` *)
(* is saved or applied.                                                    *)
(*                                                                         *)
(* Every event handler, timer and answer is a step; React's effects run    *)
(* with the render they belong to.  Answers come in any order, late, or    *)
(* never.  A body is known by what can be read from it: that depends on    *)
(* the locale, and the two expression languages share no expression.       *)
(***************************************************************************)
EXTENDS Naturals, FiniteSets

CONSTANTS
    Forms,             \* which of "add" and "repair" are used
    Urls,              \* product pages
    Locales,           \* what a listing's locale field holds
    Bodies,            \* page bodies a transport may bring
    Expressions,       \* expressions one may write or the locator may derive
    ModeOf(_),         \* the one language an expression is valid in
    Automatic(_, _),   \* body, locale -> what the chain reads, or None
    Reads(_, _, _),    \* body, locale, expression -> the price of a single match, or None
    Prices,            \* prices a page shows
    Blank, Junk,       \* an empty field; a field that is no price
    None,
    MaxEdits           \* clicks and keystrokes

Modes == {"selector", "jsonpath"}
DefaultMode == "selector"
Transports == {"http", "browser"}
Ids == 1..MaxEdits      \* a preview is known by the request that made it

Typed == Prices \cup {Blank, Junk}
Written == Expressions \cup {Blank}
Flow == [url : Urls, preview : Ids \cup {None}, mode : Modes \cup {None},
         expression : Written, settledExpression : Written,
         expectedPrice : Typed, settledPrice : Typed,
         locatorOwns : BOOLEAN, precondition : BOOLEAN]
Request == [kind : {"fetch", "reload"}, render : {"auto"} \cup Transports, url : Urls,
            locale : Locales, generation : Ids]
Page == [url : Urls, render : Transports, locale : Locales, body : Bodies, blocked : BOOLEAN]
Test == [id : Ids, mode : Modes, expression : Expressions, locale : Locales]
Find == [id : Ids, price : Prices, locale : Locales]
Taken == [id : Ids, url : Urls, render : Transports, extractor : {"auto"} \cup Modes,
          expression : Written, price : Prices, locale : Locales, pinned : BOOLEAN,
          field : Urls, typed : Typed]

ASSUME FlowAssumption ==
    /\ Forms \subseteq {"add", "repair"} /\ MaxEdits \in Nat
    /\ Urls # {} /\ Locales # {}
    /\ None \notin Page \cup Test \cup Find
    /\ \A e \in Expressions : ModeOf(e) \in Modes
    /\ \A b \in Bodies, l \in Locales :
         /\ Automatic(b, l) = None \/ Automatic(b, l) \in [price : Prices, ambiguous : BOOLEAN]
         /\ \A e \in Expressions : Reads(b, l, e) \in Prices \cup {None}

VARIABLES
    form,          \* the form in use
    rendering,     \* is a renderer configured
    flow,          \* the hook's state
    locale,        \* the form's locale field
    open,          \* repairOpen
    generation,    \* previewRequestGeneration
    requests,      \* preview.page calls in flight
    latest,        \* the newest call of each mutation: its isPending is that one's
    pages,         \* the previews that were made
    tested, found, \* answered queries: tests and suggestions
    lost,          \* queries of the present keys that failed
    taken,         \* what was last saved or applied
    edits          \* counts the reader's actions

queries == <<tested, found, lost>>
vars == <<form, rendering, flow, locale, open, generation, requests, latest, pages, queries,
          taken, edits>>

TypeOK ==
    /\ form \in Forms /\ rendering \in BOOLEAN /\ open \in BOOLEAN
    /\ flow \in Flow /\ locale \in Locales
    /\ generation \in 0..MaxEdits /\ edits \in 0..MaxEdits
    /\ requests \subseteq Request
    /\ latest \in [{"fetch", "reload"} -> 0..MaxEdits]
    /\ pages \in [Ids -> Page \cup {None}]
    /\ flow.preview # None => pages[flow.preview] # None
    /\ tested \subseteq Test /\ found \subseteq Find /\ lost \subseteq {"test", "find"}
    /\ taken \in Taken \cup {None}

-----------------------------------------------------------------------------
(* What a render computes from the hook's state. *)

Usable(p) == p \in Prices

Shown(f) == pages[f.preview]
AutomaticOf(f, l) == Automatic(Shown(f).body, Shown(f).locale)

(* automaticPreviewNeedsRepair *)
NeedsRepairIfBlank(p) == Automatic(p.body, p.locale) = None
NeedsRepair(p) == LET a == Automatic(p.body, p.locale) IN a = None \/ a.ambiguous

(* The keys of the two queries; None while a query is disabled. *)
TestKey(f, l) ==
    IF f.preview # None /\ f.mode # None /\ f.settledExpression # Blank
    THEN [id |-> f.preview, mode |-> f.mode, expression |-> f.settledExpression, locale |-> l]
    ELSE None
FindKey(f, l) ==
    IF f.preview # None /\ Usable(f.settledPrice)
    THEN [id |-> f.preview, price |-> f.settledPrice, locale |-> l]
    ELSE None

Fetching(key, answered, kind) == key # None /\ key \notin answered /\ kind \notin lost
TestFetching == Fetching(TestKey(flow, locale), tested, "test")
FindFetching == Fetching(FindKey(flow, locale), found, "find")

(* The suggestion in hand: data is there once its key was answered. *)
Suggested(f, l, answers) == IF FindKey(f, l) \in answers THEN FindKey(f, l) ELSE None

(* suggestExpressions, by what it promises: candidates that read the price. *)
Candidates(k) == {e \in Expressions : Reads(pages[k.id].body, k.locale, e) = k.price}
AlreadyReads(k) ==
    LET a == Automatic(pages[k.id].body, k.locale)
    IN  a # None /\ a.price = k.price /\ ~a.ambiguous

(* locatorPin *)
Pin(k) == IF k = None \/ (k # None /\ (AlreadyReads(k) \/ Candidates(k) = {}))
          THEN Blank ELSE CHOOSE e \in Candidates(k) : TRUE

IsLocating ==
    \/ flow.expectedPrice # flow.settledPrice
    \/ Usable(flow.expectedPrice) /\ FindFetching
IsTesting ==
    flow.settledExpression # Blank
      /\ (flow.expression # flow.settledExpression \/ TestFetching)

(* testExpression and isSingleMatchExtraction *)
TestResult(k) ==
    IF ModeOf(k.expression) = k.mode THEN Reads(pages[k.id].body, k.locale, k.expression) ELSE None

ExpressionExtraction ==
    LET k == TestKey(flow, locale)
    IN  IF /\ k \in tested
           /\ ~(flow.locatorOwns /\ IsLocating)
           /\ flow.expression = flow.settledExpression
        THEN TestResult(k) ELSE None

(* previewSelection: the price that is chosen, or None. *)
Chosen ==
    IF flow.mode # None THEN ExpressionExtraction
    ELSE IF flow.preview = None \/ (flow.preview # None /\ NeedsRepair(Shown(flow))) THEN None
    ELSE AutomaticOf(flow, locale).price

SavingWithExpression == flow.mode # None /\ ExpressionExtraction # None

Pending(kind) == \E r \in requests : r.kind = kind /\ r.generation = latest[kind]
ReloadPending == flow.preview # None /\ Pending("reload")
Loading == Pending("fetch") \/ ReloadPending
RepairPending == open /\ (Pending("fetch") \/ IsLocating \/ IsTesting \/ ReloadPending)

(* locatorOutcome, as far as waiting goes. *)
PanelShown == flow.preview # None /\ flow.mode # None
SearchingForever ==
    PanelShown /\ Usable(flow.expectedPrice)
      /\ (IsLocating \/ FindKey(flow, locale) \notin found)
Searching ==
    PanelShown /\ Usable(flow.expectedPrice)
      /\ (IsLocating \/ (FindKey(flow, locale) \notin found /\ "find" \notin lost))

-----------------------------------------------------------------------------
(* The locator's effect runs when it comes to own the expression or when   *)
(* the suggestion changes: it clears as readily as it sets.                *)
LocatedAddsOnly(f, suggestion) ==
    LET e == Pin(suggestion)
    IN  IF e = Blank THEN f
        ELSE [f EXCEPT !.mode = ModeOf(e), !.expression = e, !.settledExpression = e]
Located(f, suggestion) ==
    LET e == Pin(suggestion)
    IN  [f EXCEPT !.mode = IF e = Blank THEN @ ELSE ModeOf(e),
                  !.expression = e, !.settledExpression = e]

(* A render: the effect, and queries of other keys left behind. *)
Rendered(f, l, answers) ==
    LET s == Suggested(f, l, answers)
        again == f.locatorOwns /\ (~flow.locatorOwns \/ s # Suggested(flow, locale, found))
        g == IF again THEN Located(f, s) ELSE f
    IN  /\ flow' = g
        /\ lost' = {k \in lost : \/ k = "test" /\ TestKey(g, l) = TestKey(flow, locale)
                                 \/ k = "find" /\ FindKey(g, l) = FindKey(flow, locale)}

Event(f) == Rendered(f, locale, found) /\ UNCHANGED <<tested, found>>

Edit == edits < MaxEdits /\ edits' = edits + 1
Clear(f) == [f EXCEPT !.expression = Blank, !.settledExpression = Blank,
                      !.expectedPrice = Blank, !.settledPrice = Blank, !.locatorOwns = TRUE]
Dropped(f) == [f EXCEPT !.preview = None, !.precondition = FALSE]
Reset(f) == [Clear(Dropped(f)) EXCEPT !.mode = None]

NewFlow(u) == [url |-> u, preview |-> None, mode |-> None,
               expression |-> Blank, settledExpression |-> Blank,
               expectedPrice |-> Blank, settledPrice |-> Blank,
               locatorOwns |-> TRUE, precondition |-> FALSE]

Init ==
    /\ form \in Forms /\ rendering \in BOOLEAN
    /\ flow = NewFlow(CHOOSE u \in Urls : TRUE)
    /\ locale = CHOOSE l \in Locales : TRUE
    /\ open = FALSE
    /\ generation = 0 /\ edits = 0
    /\ requests = {} /\ latest = [k \in {"fetch", "reload"} |-> 0]
    /\ pages = [i \in Ids |-> None]
    /\ tested = {} /\ found = {} /\ lost = {}
    /\ taken = None

-----------------------------------------------------------------------------
(* The reader. *)

(* The field is disabled while a page loads.                               *)
ChangeUrl(u) ==
    /\ Edit /\ form = "add" /\ ~Loading /\ u # flow.url
    /\ generation' = generation + 1
    /\ Event(Dropped([flow EXCEPT !.url = u]))
    /\ UNCHANGED <<form, rendering, locale, open, requests, latest, pages, taken>>

Ask(kind, render, url) ==
    /\ generation' = generation + 1
    /\ requests' = requests \cup {[kind |-> kind, render |-> render, url |-> url,
                                   locale |-> locale, generation |-> generation']}
    /\ latest' = [latest EXCEPT ![kind] = generation']

LoadPreview == Ask("fetch", "auto", flow.url) /\ Event(Dropped(flow))

Load ==
    /\ Edit /\ ~Loading /\ (form = "repair" => open)
    /\ LoadPreview
    /\ UNCHANGED <<form, rendering, locale, open, pages, taken>>

OpenRepair ==
    /\ Edit /\ form = "repair" /\ ~RepairPending
    /\ open' = TRUE
    /\ LoadPreview
    /\ UNCHANGED <<form, rendering, locale, pages, taken>>

CancelRepair ==
    /\ Edit /\ open
    /\ open' = FALSE
    /\ generation' = generation + 1
    /\ Event(Reset(flow))
    /\ UNCHANGED <<form, rendering, locale, requests, latest, pages, taken>>

(* The locale effect starts over.                                          *)
ChangeLocale(l) ==
    /\ Edit /\ form = "repair" /\ l # locale
    /\ locale' = l
    /\ generation' = generation + 1
    /\ Rendered(Reset(flow), l, found)
    /\ UNCHANGED <<form, rendering, open, requests, latest, pages, tested, found, taken>>

(* transportReloadControl: not again where this preview was already refused. *)
Target == IF Shown(flow).render = "http" THEN "browser" ELSE "http"
MayReload == Target = "browser" => ~flow.precondition /\ ~Shown(flow).blocked

Reload ==
    /\ Edit /\ flow.preview # None /\ ~Loading
    /\ MayReload
    /\ Ask("reload", Target, Shown(flow).url)
    /\ UNCHANGED <<form, rendering, flow, locale, open, pages, queries, taken>>

Type(p) ==
    /\ Edit /\ PanelShown /\ p # flow.expectedPrice
    /\ Event([flow EXCEPT !.expectedPrice = p, !.locatorOwns = TRUE])
    /\ UNCHANGED <<form, rendering, locale, open, generation, requests, latest, pages, taken>>

(* A price the page shows, offered when no candidate reads the typed one.  *)
PickPagePrice(p) ==
    LET k == FindKey(flow, locale)
    IN  /\ Edit /\ PanelShown /\ ~IsLocating /\ k \in found
        /\ ~AlreadyReads(k) /\ Candidates(k) = {}
        /\ p # k.price
        /\ Event([flow EXCEPT !.expectedPrice = p, !.settledPrice = p, !.locatorOwns = TRUE])
        /\ UNCHANGED <<form, rendering, locale, open, generation, requests, latest, pages, taken>>

Write(e) ==
    /\ Edit /\ PanelShown /\ e # flow.expression
    /\ Event([flow EXCEPT !.expression = e, !.locatorOwns = FALSE])
    /\ UNCHANGED <<form, rendering, locale, open, generation, requests, latest, pages, taken>>

ChooseMode(m) ==
    /\ Edit /\ PanelShown
    /\ Event([flow EXCEPT !.mode = m, !.expression = Blank, !.settledExpression = Blank,
                          !.locatorOwns = FALSE])
    /\ UNCHANGED <<form, rendering, locale, open, generation, requests, latest, pages, taken>>

TogglePicker ==
    /\ Edit /\ flow.preview # None /\ ~ReloadPending /\ ~NeedsRepair(Shown(flow))
    /\ Event([flow EXCEPT !.mode = IF @ = None THEN DefaultMode ELSE None])
    /\ UNCHANGED <<form, rendering, locale, open, generation, requests, latest, pages, taken>>

(* What a save or an applied repair is made of.                            *)
Take ==
    /\ flow.preview # None /\ Chosen # None
    /\ taken' = [id |-> flow.preview, url |-> Shown(flow).url, render |-> Shown(flow).render,
                 extractor |-> IF SavingWithExpression THEN flow.mode ELSE "auto",
                 expression |-> IF SavingWithExpression THEN flow.settledExpression ELSE Blank,
                 price |-> Chosen, locale |-> locale,
                 pinned |-> SavingWithExpression /\ flow.locatorOwns,
                 field |-> flow.url, typed |-> flow.expectedPrice]

Save ==
    /\ Edit /\ form = "add" /\ ~ReloadPending
    /\ Take
    /\ UNCHANGED <<form, rendering, flow, locale, open, generation, requests, latest, pages, queries>>

ApplyRepair ==
    /\ Edit /\ open /\ ~RepairPending
    /\ Take
    /\ open' = FALSE
    /\ generation' = generation + 1
    /\ Event(Reset(flow))
    /\ UNCHANGED <<form, rendering, locale, requests, latest, pages>>

-----------------------------------------------------------------------------
(* Timers and answers. *)

SettleExpression ==
    /\ flow.settledExpression # flow.expression
    /\ Event([flow EXCEPT !.settledExpression = flow.expression])
    /\ UNCHANGED <<form, rendering, locale, open, generation, requests, latest, pages, taken, edits>>

SettlePrice ==
    /\ flow.settledPrice # flow.expectedPrice
    /\ Event([flow EXCEPT !.settledPrice = flow.expectedPrice])
    /\ UNCHANGED <<form, rendering, locale, open, generation, requests, latest, pages, taken, edits>>

IsCurrentAlways(r) == r.generation \in Ids
IsCurrent(r) == r.generation = generation

(* What preview.page may answer: which transport won, and whether an        *)
(* automatic preview met a challenge in the browser.                        *)
Answers(r) ==
    {p \in Page :
       /\ p.url = r.url /\ p.locale = r.locale
       /\ p.render \in IF r.render = "auto" THEN {t \in Transports : t = "browser" => rendering}
                       ELSE {r.render}
       /\ p.blocked => r.render = "auto" /\ rendering /\ p.render = "http"}

PageLoaded(r) ==
    /\ r.render = "browser" => rendering
    /\ \E p \in Answers(r) :
         /\ pages' = [pages EXCEPT ![r.generation] = p]
         /\ IF IsCurrent(r)
            THEN flow' = [Clear(flow) EXCEPT !.preview = r.generation,
                            !.mode = IF NeedsRepair(p) THEN DefaultMode ELSE None,
                            !.precondition = IF r.kind = "reload" THEN FALSE ELSE @]
                   /\ lost' = {}
            ELSE UNCHANGED <<flow, lost>>
    /\ requests' = requests \ {r}
    /\ UNCHANGED <<form, rendering, locale, open, generation, latest, tested, found, taken, edits>>

(* A refusal; without a renderer browser mode is refused as such.           *)
PageFailed(r) ==
    /\ flow' = IF IsCurrent(r) /\ r.render = "browser" /\ ~rendering
               THEN [flow EXCEPT !.precondition = TRUE] ELSE flow
    /\ requests' = requests \ {r}
    /\ UNCHANGED <<form, rendering, locale, open, generation, latest, pages, queries, taken, edits>>

TestAnswered ==
    /\ TestFetching
    /\ tested' = tested \cup {TestKey(flow, locale)}
    /\ UNCHANGED <<form, rendering, flow, locale, open, generation, requests, latest, pages,
                   found, lost, taken, edits>>

FindAnswered ==
    /\ FindFetching
    /\ found' = found \cup {FindKey(flow, locale)}
    /\ Rendered(flow, locale, found')
    /\ UNCHANGED <<form, rendering, locale, open, generation, requests, latest, pages, tested,
                   taken, edits>>

(* PreviewCache dropped the page, or the network is down: after its retries *)
(* the query is an error.                                                   *)
QueryFails(kind) ==
    /\ IF kind = "test" THEN TestFetching ELSE FindFetching
    /\ lost' = lost \cup {kind}
    /\ UNCHANGED <<form, rendering, flow, locale, open, generation, requests, latest, pages,
                   tested, found, taken, edits>>

Reader ==
    \/ \E u \in Urls : ChangeUrl(u)
    \/ Load \/ OpenRepair \/ CancelRepair \/ Reload \/ TogglePicker
    \/ \E l \in Locales : ChangeLocale(l)
    \/ \E p \in Typed : Type(p)
    \/ \E p \in Prices : PickPagePrice(p)
    \/ \E e \in Written : Write(e)
    \/ \E m \in Modes : ChooseMode(m)
    \/ Save \/ ApplyRepair

PageSettles == \E r \in requests : PageLoaded(r) \/ PageFailed(r)
TestSettles == TestAnswered \/ QueryFails("test")
FindSettles == FindAnswered \/ QueryFails("find")

Next ==
    \/ Reader
    \/ SettleExpression \/ SettlePrice
    \/ PageSettles \/ TestSettles \/ FindSettles

(* Timers fire and requests are answered, for good or ill (every fetch has  *)
(* a deadline); the reader need not do anything.                            *)
Fairness ==
    /\ WF_vars(SettleExpression) /\ WF_vars(SettlePrice)
    /\ WF_vars(PageSettles) /\ WF_vars(TestSettles) /\ WF_vars(FindSettles)

Spec == Init /\ [][Next]_vars /\ Fairness

-----------------------------------------------------------------------------
(* Properties *)

(* "A preview belongs to the exact URL that produced it" (use-preview-      *)
(* flow.ts:410): whatever answers were outstanding when the URL, the        *)
(* locale or the panel changed, the preview on screen is the one of the URL *)
(* and the locale now in the form, and a closed repair panel holds none.    *)
ShownIsAsked ==
    flow.preview # None =>
      /\ Shown(flow).url = flow.url /\ Shown(flow).locale = locale
      /\ form = "repair" => open

(* What is saved or applied was read on the page of the URL in the form, as *)
(* the saved transport brought it and in the form's locale: by the chain    *)
(* without ambiguity, or by a test of exactly this expression that matched  *)
(* once - never an answer to an earlier expression, mode, page or locale.   *)
VerifiedOnly ==
    taken # None =>
      LET p == pages[taken.id]
          a == Automatic(p.body, taken.locale)
      IN  /\ p.url = taken.field /\ p.render = taken.render /\ p.url = taken.url
          /\ IF taken.extractor = "auto"
             THEN a # None /\ ~a.ambiguous /\ a.price = taken.price
             ELSE /\ ModeOf(taken.expression) = taken.extractor
                  /\ Reads(p.body, taken.locale, taken.expression) = taken.price

(* "Apply can never offer an expression derived from a figure since         *)
(* corrected" (use-preview-flow.ts:374): an expression the locator pinned   *)
(* reads the price that is in the field when it is saved.                   *)
PinReadsTyped ==
    taken # None => (taken.pinned => taken.price = taken.typed)

(* A reader who stops typing is answered: neither a page, nor a test, nor   *)
(* the search for a price is waited for forever, though the preview expire. *)
AnswersInTheEnd == []<>~(Loading \/ IsTesting \/ Searching)
=============================================================================
