-------------------------- MODULE PreviewFlowProofs -------------------------
(***************************************************************************)
(* What the preview shows, saves and pins, for any pages, expressions and  *)
(* order of answers.                                                       *)
(*                                                                         *)
(* A request is known by its generation and nothing else tells a late      *)
(* answer from a current one.  So the argument is about generations: no    *)
(* two requests share one, a page is made once (Once), and whatever        *)
(* changes the URL, the locale or the panel draws a new one, so that a     *)
(* request that still is current asked for what is now in the form         *)
(* (CurrentAsked).  What was taken is then judged by a page that never     *)
(* changes again.  An expression the locator owns reads the price that     *)
(* last settled (Pinned), and a selection is not offered while another     *)
(* price has still to settle.                                              *)
(***************************************************************************)
EXTENDS PreviewFlow, TLAPS

(* A generation has one request and then at most one page.                 *)
Once ==
    /\ generation <= edits
    /\ \A r \in requests : r.generation <= generation /\ pages[r.generation] = None
    /\ \A r, s \in requests : r.generation = s.generation => r = s
    /\ \A i \in Ids : pages[i] # None => i <= generation

(* A request that still counts asked for what is in the form.              *)
CurrentAsked ==
    \A r \in requests : IsCurrent(r) =>
        r.url = flow.url /\ r.locale = locale /\ (form = "repair" => open)

(* An expression the locator owns reads the price that last settled.       *)
Pinned ==
    flow.locatorOwns /\ flow.expression # Blank =>
      /\ FindKey(flow, locale) \in found
      /\ Reads(Shown(flow).body, locale, flow.expression) = flow.settledPrice

(* The page something was taken from was made.                             *)
TakenKept == taken # None => pages[taken.id] # None

IInv == TypeOK /\ Once /\ CurrentAsked /\ Pinned /\ TakenKept
          /\ ShownIsAsked /\ VerifiedOnly /\ PinReadsTyped

-----------------------------------------------------------------------------
(* The hook's state, and what a render makes of it.                        *)

LEMMA PinTypes ==
    ASSUME NEW k
    PROVE  /\ Pin(k) \in Written
           /\ Pin(k) # Blank => k # None /\ Pin(k) \in Candidates(k)
<1>1. Candidates(k) # {} => (CHOOSE e \in Candidates(k) : TRUE) \in Candidates(k)
  OBVIOUS
<1>2. Candidates(k) \subseteq Expressions
  BY DEF Candidates
<1> QED
  BY <1>1, <1>2 DEF Pin, Written

LEMMA DroppedTypes ==
    ASSUME NEW f \in Flow
    PROVE  /\ Dropped(f) \in Flow /\ Dropped(f).preview = None /\ Dropped(f).url = f.url
           /\ Dropped(f).expression = f.expression /\ Dropped(f).locatorOwns = f.locatorOwns
<1>1. Dropped(f) \in Flow
  BY DEF Dropped, Flow
<1> QED
  BY <1>1 DEF Dropped, Flow

LEMMA ClearTypes ==
    ASSUME NEW f \in Flow
    PROVE  /\ Clear(f) \in Flow /\ Clear(f).preview = f.preview /\ Clear(f).url = f.url
           /\ Clear(f).expression = Blank
<1>1. Clear(f) \in Flow
  BY DEF Clear, Flow, Written, Typed
<1> QED
  BY <1>1 DEF Clear, Flow

LEMMA ResetTypes ==
    ASSUME NEW f \in Flow
    PROVE  Reset(f) \in Flow /\ Reset(f).preview = None /\ Reset(f).expression = Blank
<1> DEFINE g == Clear(Dropped(f))
<1>1. g \in Flow /\ g.preview = None /\ g.expression = Blank
  BY DroppedTypes, ClearTypes
<1>2. Reset(f) = [g EXCEPT !.mode = None]
  BY DEF Reset
<1> HIDE DEF g
<1> QED
  BY <1>1, <1>2 DEF Flow

LEMMA LocatedTypes ==
    ASSUME NEW f \in Flow, NEW k
    PROVE  /\ Located(f, k) \in Flow
           /\ Located(f, k).url = f.url /\ Located(f, k).preview = f.preview
           /\ Located(f, k).expression = Pin(k)
           /\ Located(f, k).settledPrice = f.settledPrice
           /\ Located(f, k).locatorOwns = f.locatorOwns
<1> DEFINE e == Pin(k)
           m == IF e = Blank THEN f.mode ELSE ModeOf(e)
<1>1. e \in Written
  BY PinTypes
<1>2. m \in Modes \cup {None}
  BY <1>1, FlowAssumption DEF Written, Flow
<1>3. Located(f, k) = [f EXCEPT !.mode = m, !.expression = e, !.settledExpression = e]
  BY DEF Located, Flow
<1> HIDE DEF e, m
<1>4. Located(f, k) \in Flow
  BY <1>1, <1>2, <1>3 DEF Flow
<1> QED
  BY <1>3, <1>4 DEF Flow, e

(* What an event hands to a render: only the reader puts an expression in  *)
(* the field, and then the locator no longer owns it.                      *)
Draws(f) ==
    /\ f \in Flow /\ Rendered(f, locale', found')
    /\ f.expression \in {flow.expression, Blank} \/ ~f.locatorOwns

LEMMA RenderTypes ==
    ASSUME NEW f, Draws(f)
    PROVE  flow' \in Flow /\ flow'.url = f.url /\ flow'.preview = f.preview /\ lost' \subseteq lost
<1>1. flow' = f \/ \E k : flow' = Located(f, k)
  BY DEF Draws, Rendered
<1>2. f \in Flow /\ lost' \subseteq lost
  BY DEF Draws, Rendered
<1> QED
  BY <1>1, <1>2, LocatedTypes

(* A render pins what it may: this is the locator's effect.                *)
LEMMA RenderPins ==
    ASSUME TypeOK, Pinned, NEW f, Draws(f), None \notin found', found \subseteq found',
           f.preview # None => pages'[f.preview] = pages[f.preview]
    PROVE  Pinned'
<1> DEFINE s == Suggested(f, locale', found')
           old == Suggested(flow, locale, found)
           again == f.locatorOwns /\ (~flow.locatorOwns \/ s # old)
<1>1. f \in Flow /\ flow' = IF again THEN Located(f, s) ELSE f
  BY DEF Draws, Rendered
<1>2. s # None => s = FindKey(f, locale') /\ s \in found'
  BY DEF Suggested
<1>3. None \notin found
  BY FlowAssumption DEF TypeOK
<1> SUFFICES ASSUME flow'.locatorOwns, flow'.expression # Blank
             PROVE  /\ FindKey(flow', locale') \in found'
                    /\ Reads(pages'[flow'.preview].body, locale', flow'.expression) = flow'.settledPrice
  BY DEF Pinned, Shown
<1>4. \A k : k # None /\ k = FindKey(f, locale') =>
         k.id = f.preview /\ k.price = f.settledPrice /\ k.locale = locale' /\ f.preview # None
  BY DEF FindKey
<1>5. CASE again
  <2>1. /\ flow'.expression = Pin(s) /\ flow'.preview = f.preview
        /\ flow'.settledPrice = f.settledPrice
    BY <1>1, <1>5, LocatedTypes
  <2>2. s # None /\ Pin(s) \in Candidates(s)
    BY <2>1, PinTypes
  <2> HIDE DEF s, old
  <2>3. Reads(pages[s.id].body, s.locale, Pin(s)) = s.price
    BY <2>2 DEF Candidates
  <2>4. FindKey(flow', locale') = FindKey(f, locale')
    BY <2>1 DEF FindKey
  <2> QED
    BY <1>2, <1>4, <2>1, <2>2, <2>3, <2>4
<1>6. CASE ~again
  <2>1. flow' = f /\ f.locatorOwns /\ flow.locatorOwns /\ s = old
    BY <1>1, <1>6
  <2>2. f.expression = flow.expression /\ flow.expression # Blank
    BY <2>1 DEF Draws
  <2>3. /\ FindKey(flow, locale) \in found
        /\ Reads(pages[flow.preview].body, locale, flow.expression) = flow.settledPrice
    BY <2>1, <2>2 DEF Pinned, Shown
  <2>4. old = FindKey(flow, locale) /\ old # None
    BY <1>3, <2>3 DEF Suggested
  <2>5. old.id = flow.preview /\ old.price = flow.settledPrice /\ old.locale = locale
    BY <2>4 DEF FindKey
  <2> HIDE DEF s, old
  <2> QED
    BY <1>2, <1>4, <2>1, <2>2, <2>3, <2>4, <2>5
<1> QED
  BY <1>5, <1>6

-----------------------------------------------------------------------------
(* The steps, by what they do to the form, the requests and the pages.     *)

Quiet == edits' = edits \/ Edit

Keeps(f) ==
    /\ Draws(f) /\ f.url = flow.url /\ f.preview = flow.preview
    /\ Quiet
    /\ UNCHANGED <<form, locale, open, generation, requests, pages>>

Quits(f) ==
    /\ Draws(f) /\ f.preview = None
    /\ Edit /\ generation' = generation + 1
    /\ UNCHANGED <<form, requests, pages, found>>

Asks(f, r) ==
    /\ Draws(f) /\ f.preview = None /\ f.url = flow.url
    /\ Edit /\ generation' = generation + 1 /\ requests' = requests \cup {r}
    /\ r \in Request /\ r.generation = generation + 1
    /\ r.url = flow.url /\ r.locale = locale /\ (form = "repair" => open')
    /\ UNCHANGED <<form, locale, pages, found>>

Reloads(r) ==
    /\ Edit /\ generation' = generation + 1 /\ requests' = requests \cup {r}
    /\ r \in Request /\ r.generation = generation + 1
    /\ flow.preview # None /\ r.url = Shown(flow).url /\ r.locale = locale
    /\ UNCHANGED <<form, flow, locale, open, pages, found>>

Rests ==
    /\ Quiet
    /\ UNCHANGED <<form, flow, locale, open, generation, requests, pages, found>>

Kinds ==
    \/ \E f \in Flow : Keeps(f) \/ Quits(f)
    \/ \E f \in Flow, r \in Request : Asks(f, r)
    \/ \E r \in Request : Reloads(r)
    \/ \E r \in requests : PageLoaded(r) \/ PageFailed(r)
    \/ Rests

(* The field edits of the panel keep the page.                             *)
LEMMA EditTypes ==
    ASSUME NEW f \in Flow
    PROVE  /\ \A p \in Typed : /\ [f EXCEPT !.expectedPrice = p, !.locatorOwns = TRUE] \in Flow
                               /\ [f EXCEPT !.settledPrice = p] \in Flow
                               /\ [f EXCEPT !.expectedPrice = p, !.settledPrice = p,
                                            !.locatorOwns = TRUE] \in Flow
           /\ \A e \in Written : /\ [f EXCEPT !.expression = e, !.locatorOwns = FALSE] \in Flow
                                 /\ [f EXCEPT !.settledExpression = e] \in Flow
           /\ \A m \in Modes \cup {None} : [f EXCEPT !.mode = m] \in Flow
           /\ \A m \in Modes : [f EXCEPT !.mode = m, !.expression = Blank,
                                         !.settledExpression = Blank,
                                         !.locatorOwns = FALSE] \in Flow
           /\ \A u \in Urls : [f EXCEPT !.url = u] \in Flow
<1>1. ASSUME NEW p \in Typed
      PROVE  /\ [f EXCEPT !.expectedPrice = p, !.locatorOwns = TRUE] \in Flow
             /\ [f EXCEPT !.settledPrice = p] \in Flow
  BY DEF Flow
<1>2. ASSUME NEW p \in Typed
      PROVE  [f EXCEPT !.expectedPrice = p, !.settledPrice = p, !.locatorOwns = TRUE] \in Flow
  BY DEF Flow
<1>3. ASSUME NEW e \in Written
      PROVE  /\ [f EXCEPT !.expression = e, !.locatorOwns = FALSE] \in Flow
             /\ [f EXCEPT !.settledExpression = e] \in Flow
  BY DEF Flow
<1>4. ASSUME NEW m \in Modes \cup {None}
      PROVE  [f EXCEPT !.mode = m] \in Flow
  BY DEF Flow
<1>5. ASSUME NEW m \in Modes
      PROVE  [f EXCEPT !.mode = m, !.expression = Blank, !.settledExpression = Blank,
                       !.locatorOwns = FALSE] \in Flow
  BY DEF Flow, Written
<1>6. ASSUME NEW u \in Urls
      PROVE  [f EXCEPT !.url = u] \in Flow
  BY DEF Flow
<1> QED
  BY <1>1, <1>2, <1>3, <1>4, <1>5, <1>6

LEMMA PanelKinds ==
    ASSUME TypeOK,
           \/ \E p \in Typed : Type(p)
           \/ \E p \in Prices : PickPagePrice(p)
           \/ \E e \in Written : Write(e)
           \/ \E m \in Modes : ChooseMode(m)
           \/ TogglePicker \/ SettleExpression \/ SettlePrice
    PROVE  \E f \in Flow : Keeps(f)
<1> USE DEF Keeps, Quiet, Draws, Event
<1>0. flow \in Flow
  BY DEF TypeOK
<1>1. ASSUME NEW p \in Typed, Type(p)
      PROVE  \E f \in Flow : Keeps(f)
  <2> DEFINE f == [flow EXCEPT !.expectedPrice = p, !.locatorOwns = TRUE]
  <2>1. f \in Flow
    BY <1>0, EditTypes
  <2>2. f.expression = flow.expression /\ f.url = flow.url /\ f.preview = flow.preview
    BY <1>0 DEF Flow
  <2>3. Event(f) /\ UNCHANGED <<form, locale, open, generation, requests, pages>> /\ Edit
    BY <1>1 DEF Type
  <2> HIDE DEF f
  <2> QED
    BY <2>1, <2>2, <2>3
<1>2. ASSUME NEW p \in Prices, PickPagePrice(p)
      PROVE  \E f \in Flow : Keeps(f)
  <2> DEFINE f == [flow EXCEPT !.expectedPrice = p, !.settledPrice = p, !.locatorOwns = TRUE]
  <2>1. f \in Flow
    BY <1>0, EditTypes DEF Typed
  <2>2. f.expression = flow.expression /\ f.url = flow.url /\ f.preview = flow.preview
    BY <1>0 DEF Flow
  <2>3. Event(f) /\ UNCHANGED <<form, locale, open, generation, requests, pages>> /\ Edit
    BY <1>2 DEF PickPagePrice
  <2> HIDE DEF f
  <2> QED
    BY <2>1, <2>2, <2>3
<1>3. ASSUME NEW e \in Written, Write(e)
      PROVE  \E f \in Flow : Keeps(f)
  <2> DEFINE f == [flow EXCEPT !.expression = e, !.locatorOwns = FALSE]
  <2>1. f \in Flow
    BY <1>0, EditTypes
  <2>2. ~f.locatorOwns /\ f.url = flow.url /\ f.preview = flow.preview
    BY <1>0 DEF Flow
  <2>3. Event(f) /\ UNCHANGED <<form, locale, open, generation, requests, pages>> /\ Edit
    BY <1>3 DEF Write
  <2> HIDE DEF f
  <2> QED
    BY <2>1, <2>2, <2>3
<1>4. ASSUME NEW m \in Modes, ChooseMode(m)
      PROVE  \E f \in Flow : Keeps(f)
  <2> DEFINE f == [flow EXCEPT !.mode = m, !.expression = Blank, !.settledExpression = Blank,
                               !.locatorOwns = FALSE]
  <2>1. f \in Flow
    BY <1>0, EditTypes
  <2>2. ~f.locatorOwns /\ f.url = flow.url /\ f.preview = flow.preview
    BY <1>0 DEF Flow
  <2>3. Event(f) /\ UNCHANGED <<form, locale, open, generation, requests, pages>> /\ Edit
    BY <1>4 DEF ChooseMode
  <2> HIDE DEF f
  <2> QED
    BY <2>1, <2>2, <2>3
<1>5. ASSUME TogglePicker
      PROVE  \E f \in Flow : Keeps(f)
  <2> DEFINE f == [flow EXCEPT !.mode = IF @ = None THEN DefaultMode ELSE None]
  <2>1. f \in Flow
    BY <1>0, EditTypes DEF DefaultMode, Modes
  <2>2. f.expression = flow.expression /\ f.url = flow.url /\ f.preview = flow.preview
    BY <1>0 DEF Flow
  <2>3. Event(f) /\ UNCHANGED <<form, locale, open, generation, requests, pages>> /\ Edit
    BY <1>5 DEF TogglePicker
  <2> HIDE DEF f
  <2> QED
    BY <2>1, <2>2, <2>3
<1>6. ASSUME SettleExpression
      PROVE  \E f \in Flow : Keeps(f)
  <2> DEFINE f == [flow EXCEPT !.settledExpression = flow.expression]
  <2>1. f \in Flow
    BY <1>0, EditTypes DEF Flow
  <2>2. f.expression = flow.expression /\ f.url = flow.url /\ f.preview = flow.preview
    BY <1>0 DEF Flow
  <2>3. Event(f) /\ UNCHANGED <<form, locale, open, generation, requests, pages, edits>>
    BY <1>6 DEF SettleExpression
  <2> HIDE DEF f
  <2> QED
    BY <2>1, <2>2, <2>3
<1>7. ASSUME SettlePrice
      PROVE  \E f \in Flow : Keeps(f)
  <2> DEFINE f == [flow EXCEPT !.settledPrice = flow.expectedPrice]
  <2>1. f \in Flow
    BY <1>0, EditTypes DEF Flow
  <2>2. f.expression = flow.expression /\ f.url = flow.url /\ f.preview = flow.preview
    BY <1>0 DEF Flow
  <2>3. Event(f) /\ UNCHANGED <<form, locale, open, generation, requests, pages, edits>>
    BY <1>7 DEF SettlePrice
  <2> HIDE DEF f
  <2> QED
    BY <2>1, <2>2, <2>3
<1> QED
  BY <1>1, <1>2, <1>3, <1>4, <1>5, <1>6, <1>7

LEMMA QuitKinds ==
    ASSUME TypeOK,
           \/ \E u \in Urls : ChangeUrl(u)
           \/ \E l \in Locales : ChangeLocale(l)
           \/ CancelRepair \/ ApplyRepair
    PROVE  \E f \in Flow : Quits(f)
<1> USE DEF Quits, Draws, Event
<1>0. flow \in Flow
  BY DEF TypeOK
<1>1. ASSUME NEW u \in Urls, ChangeUrl(u)
      PROVE  \E f \in Flow : Quits(f)
  <2> DEFINE g == [flow EXCEPT !.url = u]
             f == Dropped(g)
  <2>1. g \in Flow /\ g.expression = flow.expression
    BY <1>0, EditTypes DEF Flow
  <2>2. f \in Flow /\ f.preview = None /\ f.expression = flow.expression
    BY <2>1, DroppedTypes
  <2>3. /\ Event(f) /\ UNCHANGED <<form, locale, requests, pages>>
        /\ Edit /\ generation' = generation + 1
    BY <1>1 DEF ChangeUrl
  <2> HIDE DEF f
  <2> QED
    BY <2>2, <2>3
<1>2. Reset(flow) \in Flow /\ Reset(flow).preview = None /\ Reset(flow).expression = Blank
  BY <1>0, ResetTypes
<1>3. ASSUME NEW l \in Locales, ChangeLocale(l)
      PROVE  Quits(Reset(flow))
  BY <1>2, <1>3 DEF ChangeLocale
<1>4. ASSUME CancelRepair \/ ApplyRepair
      PROVE  Quits(Reset(flow))
  BY <1>2, <1>4 DEF CancelRepair, ApplyRepair
<1> QED
  BY <1>1, <1>2, <1>3, <1>4

LEMMA AskKinds ==
    ASSUME TypeOK, generation <= edits, Load \/ OpenRepair
    PROVE  \E f \in Flow, r \in Request : Asks(f, r)
<1> DEFINE r == [kind |-> "fetch", render |-> "auto", url |-> flow.url, locale |-> locale,
                 generation |-> generation']
           f == Dropped(flow)
<1>1. f \in Flow /\ f.preview = None /\ f.url = flow.url /\ f.expression = flow.expression
  BY DroppedTypes DEF TypeOK
<1>2. /\ Edit /\ generation' = generation + 1 /\ requests' = requests \cup {r} /\ Event(f)
      /\ form = "repair" => open'
      /\ UNCHANGED <<form, locale, pages>>
  BY DEF Load, OpenRepair, LoadPreview, Ask
<1>3. r \in Request
  <2>1. generation' \in Ids
    BY <1>2, FlowAssumption DEF TypeOK, Edit, Ids
  <2> QED
    BY <2>1 DEF Request, TypeOK, Flow
<1>4. r.generation = generation + 1 /\ r.url = flow.url /\ r.locale = locale
  BY <1>2
<1> HIDE DEF r, f
<1> QED
  BY <1>1, <1>2, <1>3, <1>4 DEF Asks, Draws, Event

LEMMA ReloadKinds ==
    ASSUME TypeOK, generation <= edits, Reload
    PROVE  \E r \in Request : Reloads(r)
<1> DEFINE r == [kind |-> "reload", render |-> Target, url |-> Shown(flow).url, locale |-> locale,
                 generation |-> generation']
<1>1. /\ Edit /\ generation' = generation + 1 /\ requests' = requests \cup {r}
      /\ flow.preview # None
      /\ UNCHANGED <<form, flow, locale, open, pages, found>>
  BY DEF Reload, Ask, queries
<1>2. generation' \in Ids
  BY <1>1, FlowAssumption DEF TypeOK, Edit, Ids
<1>3. Shown(flow).url \in Urls /\ Target \in Transports
  <2>1. flow.preview \in Ids /\ pages[flow.preview] \in Page
    BY <1>1 DEF TypeOK, Flow
  <2> QED
    BY <2>1 DEF Shown, Page, Target, Transports
<1>4. r \in Request
  BY <1>2, <1>3 DEF Request, TypeOK
<1>5. r.generation = generation + 1 /\ r.url = Shown(flow).url /\ r.locale = locale
  BY <1>1
<1> HIDE DEF r
<1> QED
  BY <1>1, <1>4, <1>5 DEF Reloads

LEMMA StepKinds ==
    ASSUME TypeOK, generation <= edits, Next
    PROVE  Kinds
<1>1. CASE PageSettles
  BY <1>1 DEF PageSettles, Kinds
<1>2. CASE FindAnswered
  <2>1. Keeps(flow)
    BY <1>2 DEF FindAnswered, Keeps, Quiet, Draws, TypeOK
  <2> QED
    BY <2>1 DEF Kinds, TypeOK
<1>3. CASE Save \/ TestAnswered \/ QueryFails("test") \/ QueryFails("find")
  BY <1>3 DEF Save, TestAnswered, QueryFails, Rests, Quiet, Kinds, queries
<1>4. CASE Reload
  BY <1>4, ReloadKinds DEF Kinds
<1>5. CASE Load \/ OpenRepair
  BY <1>5, AskKinds DEF Kinds
<1>6. CASE \/ \E u \in Urls : ChangeUrl(u)
           \/ \E l \in Locales : ChangeLocale(l)
           \/ CancelRepair \/ ApplyRepair
  BY <1>6, QuitKinds DEF Kinds
<1>7. CASE \/ \E p \in Typed : Type(p)
           \/ \E p \in Prices : PickPagePrice(p)
           \/ \E e \in Written : Write(e)
           \/ \E m \in Modes : ChooseMode(m)
           \/ TogglePicker \/ SettleExpression \/ SettlePrice
  BY <1>7, PanelKinds DEF Kinds
<1> QED
  BY <1>1, <1>2, <1>3, <1>4, <1>5, <1>6, <1>7 DEF Next, Reader, TestSettles, FindSettles

(* What an answer brings.                                                  *)
LEMMA LoadedTypes ==
    ASSUME TypeOK, NEW r \in requests, PageLoaded(r)
    PROVE  \E p \in Page :
              /\ p.url = r.url /\ p.locale = r.locale
              /\ pages' = [pages EXCEPT ![r.generation] = p]
              /\ \/ ~IsCurrent(r) /\ UNCHANGED <<flow, lost>>
                 \/ /\ IsCurrent(r) /\ lost' = {}
                    /\ flow' \in Flow /\ flow'.url = flow.url
                    /\ flow'.preview = r.generation /\ flow'.expression = Blank
<1>1. PICK p \in Answers(r) :
         /\ pages' = [pages EXCEPT ![r.generation] = p]
         /\ IF IsCurrent(r)
            THEN flow' = [Clear(flow) EXCEPT !.preview = r.generation,
                            !.mode = IF NeedsRepair(p) THEN DefaultMode ELSE None,
                            !.precondition = IF r.kind = "reload" THEN FALSE ELSE @]
                   /\ lost' = {}
            ELSE UNCHANGED <<flow, lost>>
  BY DEF PageLoaded
<1>2. r \in Request
  BY DEF TypeOK
<1>3. p \in Page /\ p.url = r.url /\ p.locale = r.locale
  BY <1>1 DEF Answers
<1>4. CASE IsCurrent(r)
  <2> DEFINE g == Clear(flow)
             m == IF NeedsRepair(p) THEN DefaultMode ELSE None
             b == IF r.kind = "reload" THEN FALSE ELSE g.precondition
  <2>1. g \in Flow /\ g.url = flow.url /\ g.expression = Blank
    BY ClearTypes DEF TypeOK
  <2>2. m \in Modes \cup {None} /\ b \in BOOLEAN /\ r.generation \in Ids
    BY <1>2, <2>1 DEF DefaultMode, Modes, Flow, Request
  <2>3. flow' = [g EXCEPT !.preview = r.generation, !.mode = m, !.precondition = b] /\ lost' = {}
    BY <1>1, <1>4, <2>1 DEF Flow
  <2> HIDE DEF g, m, b
  <2>4. flow' \in Flow
    BY <2>1, <2>2, <2>3 DEF Flow
  <2>5. flow'.url = flow.url /\ flow'.preview = r.generation /\ flow'.expression = Blank
    BY <2>1, <2>3 DEF Flow
  <2> QED
    BY <1>1, <1>3, <1>4, <2>3, <2>4, <2>5
<1>5. CASE ~IsCurrent(r)
  BY <1>1, <1>3, <1>5
<1> QED
  BY <1>4, <1>5

(* A refused page changes nothing that counts.                             *)
LEMMA FailedTypes ==
    ASSUME TypeOK, NEW r \in requests, PageFailed(r)
    PROVE  /\ flow' \in Flow /\ flow'.url = flow.url /\ flow'.preview = flow.preview
           /\ flow'.expression = flow.expression /\ flow'.settledPrice = flow.settledPrice
           /\ flow'.locatorOwns = flow.locatorOwns
<1>1. flow' = flow \/ flow' = [flow EXCEPT !.precondition = TRUE]
  BY DEF PageFailed
<1> QED
  BY <1>1 DEF TypeOK, Flow

-----------------------------------------------------------------------------
(* Generations.                                                            *)

(* A page that was made stays as it is.                                    *)
Frozen == \A i \in Ids : pages[i] # None => pages'[i] = pages[i]

LEMMA FrozenStep ==
    ASSUME TypeOK, Once, Next
    PROVE  Frozen
<1>1. Kinds
  BY StepKinds DEF Once
<1>2. ASSUME NEW r \in requests, PageLoaded(r)
      PROVE  Frozen
  <2>1. PICK p \in Page : pages' = [pages EXCEPT ![r.generation] = p]
    BY <1>2, LoadedTypes
  <2> QED
    BY <1>2, <2>1 DEF Once, Frozen, TypeOK
<1>3. CASE UNCHANGED pages
  BY <1>3 DEF Frozen
<1> QED
  BY <1>1, <1>2, <1>3 DEF Kinds, Keeps, Quits, Asks, Reloads, PageFailed, Rests

LEMMA OnceStep ==
    ASSUME TypeOK, Once, Next
    PROVE  Once'
<1>0. Kinds /\ edits \in Nat /\ generation \in Nat /\ \A r \in requests : r.generation \in Ids
  BY StepKinds, FlowAssumption DEF Once, TypeOK, Request
<1>1. ASSUME generation' = generation, Quiet, requests' \subseteq requests, UNCHANGED pages
      PROVE  Once'
  <2>1. edits' >= edits /\ edits' \in Nat
    BY <1>0, <1>1 DEF Quiet, Edit
  <2> QED
    BY <1>0, <1>1, <2>1 DEF Once
<1>2. ASSUME NEW r, r.generation = generation + 1, generation' = generation + 1, Edit,
             requests' \subseteq requests \cup {r}, UNCHANGED pages
      PROVE  Once'
  <2>1. generation' <= edits' /\ generation + 1 > generation
    BY <1>0, <1>2 DEF Edit, Once
  <2>2. generation + 1 \in Ids
    BY <1>0, <2>1, <1>2, FlowAssumption DEF Edit, Ids, Once, TypeOK
  <2>3. pages[generation + 1] = None
    BY <1>0, <2>1, <2>2 DEF Once
  <2>4. \A q \in requests : q.generation <= generation
    BY DEF Once
  <2>5. \A q \in requests' : q.generation <= generation' /\ pages'[q.generation] = None
    BY <1>0, <1>2, <2>3, <2>4 DEF Once, Ids
  <2>6. \A q, v \in requests' : q.generation = v.generation => q = v
    BY <1>0, <1>2, <2>4 DEF Once, Ids
  <2>7. \A i \in Ids : pages'[i] # None => i <= generation'
    BY <1>0, <1>2 DEF Once, Ids
  <2> QED
    BY <2>1, <2>5, <2>6, <2>7 DEF Once
<1>3. ASSUME NEW r \in requests, PageLoaded(r)
      PROVE  Once'
  <2>1. PICK p \in Page : pages' = [pages EXCEPT ![r.generation] = p]
    BY <1>3, LoadedTypes
  <2>2. requests' = requests \ {r} /\ generation' = generation /\ edits' = edits
    BY <1>3 DEF PageLoaded
  <2>3. \A q \in requests' : q.generation # r.generation /\ pages'[q.generation] = None
    BY <1>0, <2>1, <2>2 DEF Once, TypeOK
  <2>4. \A i \in Ids : pages'[i] # None => i <= generation'
    BY <1>0, <2>1, <2>2 DEF Once, TypeOK
  <2> QED
    BY <2>2, <2>3, <2>4 DEF Once
<1>4. CASE \E f \in Flow : Quits(f)
  <2> DEFINE r == [generation |-> generation + 1]
  <2>1. r.generation = generation + 1
    OBVIOUS
  <2> HIDE DEF r
  <2> QED
    BY <1>2, <1>4, <2>1 DEF Quits
<1>5. CASE (\E f \in Flow, r \in Request : Asks(f, r)) \/ \E r \in Request : Reloads(r)
  BY <1>2, <1>5 DEF Asks, Reloads
<1>6. CASE (\E f \in Flow : Keeps(f)) \/ Rests \/ \E r \in requests : PageFailed(r)
  BY <1>1, <1>6 DEF Keeps, Rests, PageFailed, Quiet
<1> QED
  BY <1>0, <1>3, <1>4, <1>5, <1>6 DEF Kinds

LEMMA CurrentStep ==
    ASSUME TypeOK, Once, CurrentAsked, ShownIsAsked, Next
    PROVE  CurrentAsked'
<1>0. Kinds /\ generation \in Nat /\ \A r \in requests : r.generation \in Nat
  BY StepKinds, FlowAssumption DEF Once, TypeOK, Request, Ids
<1> USE DEF CurrentAsked, IsCurrent
<1>1. CASE \E f \in Flow : Keeps(f)
  BY <1>1, RenderTypes DEF Keeps
<1>2. CASE \E f \in Flow : Quits(f)
  BY <1>0, <1>2 DEF Quits, Once
<1>3. ASSUME NEW f \in Flow, NEW r \in Request, Asks(f, r)
      PROVE  CurrentAsked'
  <2>1. flow'.url = flow.url
    BY <1>3, RenderTypes DEF Asks
  <2> QED
    BY <1>0, <1>3, <2>1 DEF Asks, Once
<1>4. ASSUME NEW r \in Request, Reloads(r)
      PROVE  CurrentAsked'
  BY <1>0, <1>4 DEF Reloads, Once, ShownIsAsked
<1>5. ASSUME NEW r \in requests, PageLoaded(r)
      PROVE  CurrentAsked'
  <2>1. flow'.url = flow.url
    BY <1>5, LoadedTypes
  <2> QED
    BY <1>5, <2>1 DEF PageLoaded
<1>6. ASSUME NEW r \in requests, PageFailed(r)
      PROVE  CurrentAsked'
  <2>1. flow'.url = flow.url
    BY <1>6, FailedTypes
  <2> QED
    BY <1>6, <2>1 DEF PageFailed
<1>7. CASE Rests
  BY <1>7 DEF Rests
<1> QED
  BY <1>0, <1>1, <1>2, <1>3, <1>4, <1>5, <1>6, <1>7 DEF Kinds

LEMMA ShownStep ==
    ASSUME TypeOK, Once, CurrentAsked, ShownIsAsked, Next
    PROVE  ShownIsAsked' /\ (flow'.preview # None => pages'[flow'.preview] # None)
<1>0. Kinds
  BY StepKinds DEF Once
<1> DEFINE Goal == ShownIsAsked' /\ (flow'.preview # None => pages'[flow'.preview] # None)
<1> USE DEF Shown, ShownIsAsked
<1>1. flow.preview # None => flow.preview \in Ids /\ pages[flow.preview] # None
  BY DEF TypeOK, Flow
<1>2. ASSUME flow'.preview = flow.preview, flow'.url = flow.url,
             UNCHANGED <<form, locale, open>>
      PROVE  Goal
  BY <1>1, <1>2, FrozenStep DEF Frozen
<1>3. ASSUME NEW f \in Flow, Keeps(f)
      PROVE  Goal
  <2>1. flow'.preview = flow.preview /\ flow'.url = flow.url
    BY <1>3, RenderTypes DEF Keeps
  <2> QED
    BY <1>2, <1>3, <2>1 DEF Keeps
<1>4. ASSUME NEW f \in Flow, Quits(f) \/ \E r \in Request : Asks(f, r)
      PROVE  Goal
  <2>1. flow'.preview = None
    BY <1>4, RenderTypes DEF Quits, Asks
  <2> QED
    BY <2>1
<1>5. CASE Rests \/ \E r \in Request : Reloads(r)
  BY <1>2, <1>5 DEF Rests, Reloads
<1>6. ASSUME NEW r \in requests, PageFailed(r)
      PROVE  Goal
  BY <1>2, <1>6, FailedTypes DEF PageFailed
<1>7. ASSUME NEW r \in requests, PageLoaded(r)
      PROVE  Goal
  <2>1. PICK p \in Page :
           /\ p.url = r.url /\ p.locale = r.locale
           /\ pages' = [pages EXCEPT ![r.generation] = p]
           /\ \/ ~IsCurrent(r) /\ UNCHANGED <<flow, lost>>
              \/ /\ IsCurrent(r)
                 /\ flow'.url = flow.url /\ flow'.preview = r.generation
    BY <1>7, LoadedTypes
  <2>2. UNCHANGED <<form, locale, open>>
    BY <1>7 DEF PageLoaded
  <2>3. CASE ~IsCurrent(r)
    BY <1>2, <2>1, <2>2, <2>3
  <2>4. CASE IsCurrent(r)
    <3>1. pages'[r.generation] = p /\ p # None
      BY <2>1, FlowAssumption DEF TypeOK, Request
    <3> QED
      BY <2>1, <2>2, <2>4, <3>1 DEF CurrentAsked
  <2> QED
    BY <2>3, <2>4
<1> QED
  BY <1>0, <1>3, <1>4, <1>5, <1>6, <1>7 DEF Kinds

-----------------------------------------------------------------------------
(* Answered queries, and what is pinned.                                   *)

LEMMA KeyTypes ==
    ASSUME TypeOK
    PROVE  /\ TestKey(flow, locale) # None => TestKey(flow, locale) \in Test
           /\ FindKey(flow, locale) # None => FindKey(flow, locale) \in Find
<1>1. CASE flow.preview # None
  <2>1. flow.preview \in Ids /\ locale \in Locales
    BY <1>1 DEF TypeOK, Flow
  <2>2. flow.settledExpression # Blank => flow.settledExpression \in Expressions
    BY DEF TypeOK, Flow, Written
  <2>3. flow.mode # None => flow.mode \in Modes
    BY DEF TypeOK, Flow
  <2> QED
    BY <2>1, <2>2, <2>3 DEF TestKey, FindKey, Test, Find, Usable
<1>2. CASE flow.preview = None
  BY <1>2 DEF TestKey, FindKey
<1> QED
  BY <1>1, <1>2

LEMMA AnswerTypes ==
    ASSUME TypeOK, Next
    PROVE  tested' \subseteq Test /\ found' \subseteq Find /\ found \subseteq found'
<1>1. CASE TestAnswered
  BY <1>1, KeyTypes DEF TestAnswered, TestFetching, Fetching, TypeOK
<1>2. CASE FindAnswered
  BY <1>2, KeyTypes DEF FindAnswered, FindFetching, Fetching, TypeOK
<1>3. CASE UNCHANGED <<tested, found>>
  BY <1>3 DEF TypeOK
<1>4. ASSUME Reader \/ SettleExpression \/ SettlePrice
      PROVE  UNCHANGED <<tested, found>>
  <2>1. ASSUME NEW f, Event(f) PROVE UNCHANGED <<tested, found>>
    BY <2>1 DEF Event
  <2> QED
    BY <1>4, <2>1
    DEF Reader, ChangeUrl, Load, OpenRepair, LoadPreview, CancelRepair, ChangeLocale, Reload, Type,
        PickPagePrice, Write, ChooseMode, TogglePicker, Save, ApplyRepair, SettleExpression,
        SettlePrice, queries
<1>5. ASSUME PageSettles \/ QueryFails("test") \/ QueryFails("find")
      PROVE  UNCHANGED <<tested, found>>
  BY <1>5 DEF PageSettles, PageLoaded, PageFailed, QueryFails, queries
<1> QED
  BY <1>1, <1>2, <1>3, <1>4, <1>5 DEF Next, TestSettles, FindSettles

LEMMA PinnedStep ==
    ASSUME TypeOK, Once, Pinned, Next
    PROVE  Pinned'
<1>0. Kinds /\ None \notin found' /\ found \subseteq found'
  BY StepKinds, AnswerTypes, FlowAssumption DEF Once
<1>1. flow.preview # None => flow.preview \in Ids /\ pages[flow.preview] # None
  BY DEF TypeOK, Flow
<1>2. ASSUME NEW f \in Flow, Draws(f), f.preview = None \/ f.preview = flow.preview
      PROVE  Pinned'
  BY <1>0, <1>1, <1>2, FrozenStep, RenderPins DEF Frozen
<1>3. ASSUME flow'.preview = flow.preview, flow'.expression = flow.expression,
             flow'.settledPrice = flow.settledPrice, flow'.locatorOwns = flow.locatorOwns,
             UNCHANGED locale
      PROVE  Pinned'
  <2>1. FindKey(flow', locale) = FindKey(flow, locale)
    BY <1>3 DEF FindKey
  <2>2. FindKey(flow, locale) \in found => flow.preview # None
    <3>1. None \notin found
      BY FlowAssumption DEF TypeOK
    <3> QED
      BY <3>1 DEF FindKey
  <2>3. FindKey(flow, locale) \in found => pages'[flow.preview] = pages[flow.preview]
    BY <1>1, <2>2, FrozenStep DEF Frozen
  <2> QED
    BY <1>0, <1>3, <2>1, <2>3 DEF Pinned, Shown
<1>4. ASSUME NEW r \in requests, PageLoaded(r)
      PROVE  Pinned'
  <2>1. UNCHANGED flow \/ flow'.expression = Blank
    BY <1>4, LoadedTypes
  <2>2. UNCHANGED locale
    BY <1>4 DEF PageLoaded
  <2> QED
    BY <1>3, <2>1, <2>2 DEF Pinned
<1>5. ASSUME NEW r \in requests, PageFailed(r)
      PROVE  Pinned'
  BY <1>3, <1>5, FailedTypes DEF PageFailed
<1>6. CASE Rests \/ \E r \in Request : Reloads(r)
  BY <1>3, <1>6 DEF Rests, Reloads
<1>7. CASE \E f \in Flow : Keeps(f) \/ Quits(f) \/ \E r \in Request : Asks(f, r)
  BY <1>2, <1>7 DEF Keeps, Quits, Asks
<1> QED
  BY <1>0, <1>4, <1>5, <1>6, <1>7 DEF Kinds

-----------------------------------------------------------------------------
(* What was taken.                                                         *)

(* A price an expression brings was read by that expression, alone, on the *)
(* page shown.                                                             *)
LEMMA ReadByTest ==
    ASSUME TypeOK, flow.mode # None, ExpressionExtraction # None
    PROVE  /\ flow.preview # None /\ flow.mode \in Modes
           /\ flow.settledExpression \in Expressions
           /\ flow.expression = flow.settledExpression /\ flow.settledExpression # Blank
           /\ ModeOf(flow.settledExpression) = flow.mode
           /\ ExpressionExtraction
                = Reads(Shown(flow).body, locale, flow.settledExpression)
           /\ ~(flow.locatorOwns /\ IsLocating)
<1> DEFINE k == TestKey(flow, locale)
<1>1. /\ k \in tested /\ ~(flow.locatorOwns /\ IsLocating)
      /\ flow.expression = flow.settledExpression
      /\ ExpressionExtraction = TestResult(k)
  BY DEF ExpressionExtraction
<1>2. k # None
  BY <1>1, FlowAssumption DEF TypeOK
<1>3. /\ flow.preview # None /\ flow.settledExpression # Blank
      /\ k.id = flow.preview /\ k.mode = flow.mode
      /\ k.expression = flow.settledExpression /\ k.locale = locale
  BY <1>2 DEF TestKey
<1>4. flow.mode \in Modes /\ flow.settledExpression \in Expressions
  BY <1>3 DEF TypeOK, Flow, Written
<1> HIDE DEF k
<1>5. ModeOf(k.expression) = k.mode
      /\ TestResult(k) = Reads(pages[k.id].body, k.locale, k.expression)
  BY <1>1 DEF TestResult
<1> QED
  BY <1>1, <1>3, <1>4, <1>5 DEF Shown

Judged(x) ==
    LET p == pages[x.id]
        a == Automatic(p.body, x.locale)
    IN  /\ x.id \in Ids /\ pages[x.id] # None
        /\ p.url = x.field /\ p.render = x.render /\ p.url = x.url
        /\ IF x.extractor = "auto"
           THEN a # None /\ ~a.ambiguous /\ a.price = x.price
           ELSE /\ ModeOf(x.expression) = x.extractor
                /\ Reads(p.body, x.locale, x.expression) = x.price
        /\ x.pinned => x.price = x.typed

LEMMA TakenStep ==
    ASSUME TypeOK, ShownIsAsked, Pinned, Take
    PROVE  taken' \in Taken /\ Judged(taken')
<1> DEFINE p == pages[flow.preview]
<1>1. /\ flow.preview \in Ids /\ p \in Page /\ p # None /\ Shown(flow) = p
      /\ p.url = flow.url /\ p.locale = locale
  BY FlowAssumption DEF Take, TypeOK, Flow, Shown, ShownIsAsked
<1>2. /\ p.url \in Urls /\ p.render \in Transports /\ p.body \in Bodies
      /\ locale \in Locales /\ flow.expectedPrice \in Typed
  BY <1>1 DEF Page, TypeOK, Flow
<1>3. Chosen # None
  BY DEF Take
<1>4. CASE flow.mode # None
  <2>1. ExpressionExtraction = Chosen /\ SavingWithExpression
    BY <1>3, <1>4 DEF Chosen, SavingWithExpression
  <2>2. taken' = [id |-> flow.preview, url |-> p.url, render |-> p.render,
                  extractor |-> flow.mode, expression |-> flow.settledExpression,
                  price |-> Chosen, locale |-> locale, pinned |-> flow.locatorOwns,
                  field |-> flow.url, typed |-> flow.expectedPrice]
    <3>1. (SavingWithExpression /\ flow.locatorOwns) = flow.locatorOwns
      BY <2>1 DEF TypeOK, Flow
    <3> QED
      BY <1>1, <2>1, <3>1 DEF Take
  <2>3. /\ flow.mode \in Modes /\ flow.mode # "auto"
        /\ flow.settledExpression \in Expressions
        /\ ModeOf(flow.settledExpression) = flow.mode
        /\ Chosen = Reads(p.body, locale, flow.settledExpression)
    BY <1>1, <1>3, <1>4, <2>1, ReadByTest DEF Modes
  <2>4. Chosen \in Prices
    BY <1>2, <1>3, <2>3, FlowAssumption
  <2>5. flow.locatorOwns => Chosen = flow.expectedPrice
    <3> SUFFICES ASSUME flow.locatorOwns PROVE Chosen = flow.expectedPrice
      OBVIOUS
    <3>1. /\ flow.expression = flow.settledExpression /\ flow.expression # Blank
          /\ ~IsLocating
      BY <1>3, <1>4, <2>1, ReadByTest
    <3>2. Reads(p.body, locale, flow.expression) = flow.settledPrice
      BY <1>1, <3>1 DEF Pinned
    <3>3. flow.expectedPrice = flow.settledPrice
      BY <3>1 DEF IsLocating
    <3> QED
      BY <2>3, <3>1, <3>2, <3>3
  <2>6. taken' \in Taken
    BY <1>1, <1>2, <2>2, <2>3, <2>4 DEF Taken, Written, TypeOK, Flow
  <2>7. Judged(taken')
    BY <1>1, <2>2, <2>3, <2>5 DEF Judged
  <2> QED
    BY <2>6, <2>7
<1>5. CASE flow.mode = None
  <2> DEFINE a == Automatic(p.body, p.locale)
  <2>1. ~SavingWithExpression /\ ~NeedsRepair(p) /\ Chosen = a.price
    BY <1>1, <1>3, <1>5 DEF Chosen, SavingWithExpression, AutomaticOf
  <2>2. a # None /\ ~a.ambiguous
    BY <2>1 DEF NeedsRepair
  <2>3. a.price \in Prices
    BY <1>1, <1>2, <2>2, FlowAssumption
  <2>4. taken' = [id |-> flow.preview, url |-> p.url, render |-> p.render,
                  extractor |-> "auto", expression |-> Blank,
                  price |-> a.price, locale |-> locale, pinned |-> FALSE,
                  field |-> flow.url, typed |-> flow.expectedPrice]
    BY <1>1, <2>1 DEF Take
  <2> HIDE DEF a
  <2>5. taken' \in Taken
    BY <1>1, <1>2, <2>3, <2>4 DEF Taken, Written, TypeOK, Flow
  <2>6. Judged(taken')
    BY <1>1, <2>2, <2>4 DEF Judged, a
  <2> QED
    BY <2>5, <2>6
<1> QED
  BY <1>4, <1>5

(* The three that are about what was taken, in one.                        *)
LEMMA JudgedIsAll ==
    TypeOK => ((TakenKept /\ VerifiedOnly /\ PinReadsTyped) <=> (taken # None => Judged(taken)))
BY DEF TypeOK, Taken, TakenKept, VerifiedOnly, PinReadsTyped, Judged

LEMMA VerifiedStep ==
    ASSUME TypeOK, Once, ShownIsAsked, Pinned, taken # None => Judged(taken), Next
    PROVE  taken' \in Taken \cup {None} /\ (taken' # None => Judged(taken)')
<1>1. CASE UNCHANGED taken
  <2>1. taken # None => pages'[taken.id] = pages[taken.id]
    BY FrozenStep DEF Frozen, Judged
  <2> QED
    BY <1>1, <2>1 DEF Judged, TypeOK
<1>2. CASE Take
  <2>1. pages'[taken'.id] = pages[taken'.id]
    BY <1>2, TakenStep, FrozenStep DEF Frozen, Judged
  <2> QED
    BY <1>2, <2>1, TakenStep DEF Judged
<1>3. Take \/ UNCHANGED taken
  BY DEF Next, Reader, ChangeUrl, Load, OpenRepair, CancelRepair, ChangeLocale, Reload, Type,
         PickPagePrice, Write, ChooseMode, TogglePicker, Save, ApplyRepair, SettleExpression,
         SettlePrice, PageSettles, PageLoaded, PageFailed, TestSettles, FindSettles, TestAnswered,
         FindAnswered, QueryFails
<1> QED
  BY <1>1, <1>2, <1>3

-----------------------------------------------------------------------------
(* Every step keeps the types.                                             *)

LEMMA FormTypes ==
    ASSUME TypeOK, Once, Next
    PROVE  /\ form' = form /\ rendering' = rendering
           /\ locale' \in Locales /\ open' \in BOOLEAN
           /\ latest' \in [{"fetch", "reload"} -> 0..MaxEdits]
           /\ edits' \in 0..MaxEdits
<1>1. edits' = edits \/ Edit
  BY DEF Next, Reader, ChangeUrl, Load, OpenRepair, CancelRepair, ChangeLocale, Reload, Type,
         PickPagePrice, Write, ChooseMode, TogglePicker, Save, ApplyRepair, SettleExpression,
         SettlePrice, PageSettles, PageLoaded, PageFailed, TestSettles, FindSettles, TestAnswered,
         FindAnswered, QueryFails
<1>2. edits' \in 0..MaxEdits
  BY <1>1, FlowAssumption DEF Edit, TypeOK
<1>3. form' = form /\ rendering' = rendering
  BY DEF Next, Reader, ChangeUrl, Load, OpenRepair, CancelRepair, ChangeLocale, Reload, Type,
         PickPagePrice, Write, ChooseMode, TogglePicker, Save, ApplyRepair, SettleExpression,
         SettlePrice, PageSettles, PageLoaded, PageFailed, TestSettles, FindSettles, TestAnswered,
         FindAnswered, QueryFails
<1>4. locale' \in Locales /\ open' \in BOOLEAN
  BY DEF TypeOK, Next, Reader, ChangeUrl, Load, OpenRepair, CancelRepair, ChangeLocale, Reload,
         Type, PickPagePrice, Write, ChooseMode, TogglePicker, Save, ApplyRepair,
         SettleExpression, SettlePrice, PageSettles, PageLoaded, PageFailed, TestSettles,
         FindSettles, TestAnswered, FindAnswered, QueryFails
<1>5. latest' = latest \/ \E kind \in {"fetch", "reload"} :
         latest' = [latest EXCEPT ![kind] = generation'] /\ Edit /\ generation' = generation + 1
  <2>1. ASSUME NEW kind \in {"fetch", "reload"}, NEW render, NEW url, Ask(kind, render, url), Edit
        PROVE  latest' = [latest EXCEPT ![kind] = generation'] /\ generation' = generation + 1
    BY <2>1 DEF Ask
  <2>2. (Load \/ OpenRepair \/ Reload) =>
          \E kind \in {"fetch", "reload"} : \E render, url : Ask(kind, render, url) /\ Edit
    BY DEF Load, OpenRepair, LoadPreview, Reload
  <2>3. ~(Load \/ OpenRepair \/ Reload) => latest' = latest
    BY DEF Next, Reader, ChangeUrl, CancelRepair, ChangeLocale, Type,
           PickPagePrice, Write, ChooseMode, TogglePicker, Save, ApplyRepair, SettleExpression,
           SettlePrice, PageSettles, PageLoaded, PageFailed, TestSettles, FindSettles,
           TestAnswered, FindAnswered, QueryFails
  <2> QED
    BY <2>1, <2>2, <2>3
<1>6. latest' \in [{"fetch", "reload"} -> 0..MaxEdits]
  <2>1. Edit /\ generation' = generation + 1 => generation' \in 0..MaxEdits
    BY FlowAssumption DEF Edit, Once, TypeOK
  <2> QED
    BY <1>5, <2>1 DEF TypeOK
<1> QED
  BY <1>2, <1>3, <1>4, <1>6

LEMMA TypesStep ==
    ASSUME TypeOK, Once, ShownIsAsked, CurrentAsked, Pinned, taken # None => Judged(taken), Next
    PROVE  TypeOK'
<1>0. Kinds
  BY StepKinds DEF Once
<1> DEFINE Goal == /\ flow' \in Flow /\ generation' \in 0..MaxEdits /\ requests' \subseteq Request
                   /\ pages' \in [Ids -> Page \cup {None}] /\ lost' \subseteq {"test", "find"}
<1>1. generation \in 0..MaxEdits /\ edits \in 0..MaxEdits /\ generation <= edits
  BY DEF TypeOK, Once
<1>2. Edit /\ generation' = generation + 1 => generation' \in 0..MaxEdits
  BY <1>1, FlowAssumption DEF Edit
<1>3. ASSUME NEW f \in Flow, Keeps(f) \/ Quits(f) \/ \E r \in Request : Asks(f, r)
      PROVE  Goal
  <2>1. Draws(f) /\ UNCHANGED pages
    BY <1>3 DEF Keeps, Quits, Asks
  <2>2. flow' \in Flow /\ lost' \subseteq lost
    BY <2>1, RenderTypes
  <2>3. generation' \in 0..MaxEdits /\ requests' \subseteq Request
    BY <1>1, <1>2, <1>3 DEF Keeps, Quits, Asks, TypeOK
  <2> QED
    BY <2>1, <2>2, <2>3 DEF TypeOK
<1>4. ASSUME NEW r \in Request, Reloads(r), lost' \subseteq {"test", "find"}
      PROVE  Goal
  BY <1>2, <1>4 DEF Reloads, TypeOK
<1>5. ASSUME Rests, lost' \subseteq {"test", "find"}
      PROVE  Goal
  BY <1>1, <1>5 DEF Rests, TypeOK
<1>6. ASSUME NEW r \in requests, PageFailed(r)
      PROVE  Goal
  BY <1>6, FailedTypes DEF PageFailed, TypeOK, queries
<1>7. ASSUME NEW r \in requests, PageLoaded(r)
      PROVE  Goal
  <2>1. PICK p \in Page :
           /\ pages' = [pages EXCEPT ![r.generation] = p]
           /\ \/ UNCHANGED <<flow, lost>>
              \/ flow' \in Flow /\ lost' = {}
    BY <1>7, LoadedTypes
  <2>2. generation' = generation /\ requests' = requests \ {r}
    BY <1>7 DEF PageLoaded
  <2> QED
    BY <2>1, <2>2 DEF TypeOK
<1>8. (Rests \/ \E r \in Request : Reloads(r)) /\ UNCHANGED flow => lost' \subseteq {"test", "find"}
  <2>1. ASSUME NEW f, Event(f) PROVE lost' \subseteq lost
    BY <2>1 DEF Event, Rendered
  <2>2. ASSUME NEW f, NEW l, NEW answers, Rendered(f, l, answers) PROVE lost' \subseteq lost
    BY <2>2 DEF Rendered
  <2>3. ASSUME QueryFails("test") \/ QueryFails("find")
        PROVE  lost' \subseteq {"test", "find"}
    BY <2>3 DEF QueryFails, TypeOK
  <2>4. ASSUME NEW r \in requests, PageLoaded(r) PROVE lost' \subseteq {"test", "find"}
    BY <1>7, <2>4
  <2>5. lost \subseteq {"test", "find"}
    BY DEF TypeOK
  <2> QED
    BY <2>1, <2>2, <2>3, <2>4, <2>5
    DEF Next, Reader, ChangeUrl, Load, OpenRepair, LoadPreview, CancelRepair, ChangeLocale,
        Reload, Type, PickPagePrice, Write, ChooseMode, TogglePicker, Save, ApplyRepair,
        SettleExpression, SettlePrice, PageSettles, PageFailed, TestSettles, FindSettles,
        TestAnswered, FindAnswered, queries
<1>9. Goal
  BY <1>0, <1>3, <1>4, <1>5, <1>6, <1>7, <1>8 DEF Kinds, Rests, Reloads
<1>10. flow'.preview # None => pages'[flow'.preview] # None
  BY ShownStep
<1>11. tested' \subseteq Test /\ found' \subseteq Find /\ taken' \in Taken \cup {None}
  BY AnswerTypes, VerifiedStep
<1> QED
  BY <1>9, <1>10, <1>11, FormTypes DEF TypeOK

-----------------------------------------------------------------------------
LEMMA InitInv == Init => IInv
<1> SUFFICES ASSUME Init PROVE IInv
  OBVIOUS
<1>1. PICK u \in Urls : flow = NewFlow(u)
  BY FlowAssumption DEF Init
<1>2. locale \in Locales
  BY FlowAssumption DEF Init
<1>3. flow \in Flow /\ flow.preview = None /\ flow.expression = Blank
  BY <1>1 DEF NewFlow, Flow, Written, Typed
<1>4. TypeOK
  <2>1. pages \in [Ids -> Page \cup {None}] /\ latest \in [{"fetch", "reload"} -> 0..MaxEdits]
    BY FlowAssumption DEF Init
  <2>2. generation \in 0..MaxEdits /\ edits \in 0..MaxEdits
    BY FlowAssumption DEF Init
  <2> QED
    BY <1>2, <1>3, <2>1, <2>2 DEF Init, TypeOK
<1>5. Once /\ CurrentAsked /\ Pinned /\ ShownIsAsked
  BY <1>3 DEF Init, Once, CurrentAsked, Pinned, ShownIsAsked
<1>6. TakenKept /\ VerifiedOnly /\ PinReadsTyped
  BY DEF Init, TakenKept, VerifiedOnly, PinReadsTyped
<1> QED
  BY <1>4, <1>5, <1>6 DEF IInv

LEMMA StepInv == IInv /\ [Next]_vars => IInv'
<1> SUFFICES ASSUME IInv, [Next]_vars PROVE IInv'
  OBVIOUS
<1>1. CASE Next
  <2>1. /\ TypeOK /\ Once /\ CurrentAsked /\ Pinned /\ ShownIsAsked
        /\ taken # None => Judged(taken)
    BY JudgedIsAll DEF IInv
  <2>2. TypeOK'
    BY <1>1, <2>1, TypesStep
  <2>3. Once' /\ CurrentAsked' /\ Pinned' /\ ShownIsAsked'
    BY <1>1, <2>1, OnceStep, CurrentStep, PinnedStep, ShownStep
  <2>4. (taken # None => Judged(taken))'
    BY <1>1, <2>1, VerifiedStep
  <2>5. (TakenKept /\ VerifiedOnly /\ PinReadsTyped)'
    BY <2>2, <2>4 DEF TypeOK, Taken, TakenKept, VerifiedOnly, PinReadsTyped, Judged
  <2> QED
    BY <2>2, <2>3, <2>5 DEF IInv
<1>2. CASE UNCHANGED vars
  BY <1>2
  DEF vars, queries, IInv, TypeOK, Once, CurrentAsked, IsCurrent, Pinned, FindKey, Shown,
      TakenKept, ShownIsAsked, VerifiedOnly, PinReadsTyped
<1> QED
  BY <1>1, <1>2

(* Every variable holds a value of its type, and the page shown was made.  *)
THEOREM FlowTypes == Spec => []TypeOK
<1>1. IInv => TypeOK
  BY DEF IInv
<1> QED
  BY <1>1, InitInv, StepInv, PTL DEF Spec

(* "A preview belongs to the exact URL that produced it": in whatever      *)
(* order answers come, the preview on screen is the one of the URL and the *)
(* locale in the form, and a closed repair panel holds none.               *)
THEOREM OnlyWhatWasAsked == Spec => []ShownIsAsked
<1>1. IInv => ShownIsAsked
  BY DEF IInv
<1> QED
  BY <1>1, InitInv, StepInv, PTL DEF Spec

(* What is saved or applied was read on the page of the URL in the form,   *)
(* by the chain without ambiguity or by a test of that very expression:    *)
(* never by an answer to an earlier one (previewSelection).                *)
THEOREM OnlyWhatWasRead == Spec => []VerifiedOnly
<1>1. IInv => VerifiedOnly
  BY DEF IInv
<1> QED
  BY <1>1, InitInv, StepInv, PTL DEF Spec

(* "Apply can never offer an expression derived from a figure since        *)
(* corrected": a pinned expression reads the price that is in the field    *)
(* when it is saved (locatorPin).                                          *)
THEOREM PinsReadTheField == Spec => []PinReadsTyped
<1>1. IInv => PinReadsTyped
  BY DEF IInv
<1> QED
  BY <1>1, InitInv, StepInv, PTL DEF Spec
=============================================================================
