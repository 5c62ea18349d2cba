----------------------------- MODULE Extraction -----------------------------
(***************************************************************************)
(* packages/core/src/extract: the chain of strategies over one page, the   *)
(* gate on what it found, the test of an expression, and the suggestion of *)
(* expressions for a price the user reads.                                 *)
(*                                                                         *)
(* The engine is pure and keeps nothing.  A behaviour is one call of it: a *)
(* question, and its answer.  A page is what its markup says: schema.org   *)
(* nodes (JsonLd), microdata scopes, meta tags, JSON documents (JsonPaths) *)
(* and elements (Suggestions).  What a text is read as is PriceText.       *)
(***************************************************************************)
EXTENDS Suggestions

(* The questions that are asked: texts with the locale they are written    *)
(* in, pages with the price they show, pages with the price looked for,    *)
(* and the modes of sorted drafts.  A page is named, and built when read.  *)
CONSTANTS PriceTexts, Storefronts, Layouts, ModeQueues, Storefront(_), Layout(_)

ASSUME ExtractionAssumption ==
    MaxCandidates \in Nat /\ MaxQueries \in Nat /\ MaxPriceTexts \in Nat

VARIABLES question, answer

vars == <<question, answer>>

Texts == INSTANCE PriceText
Ld == INSTANCE JsonLd

-----------------------------------------------------------------------------
(* The strategies.  What each yields: a price, its currency or None, how   *)
(* sure it is of it, and how many prices were in play.                     *)

Result(strategy, reading, confidence, evidence, count) ==
    [strategy |-> strategy, price |-> reading.amount, currency |-> reading.currency,
     confidence |-> confidence, evidence |-> evidence, count |-> count]

FromJsonLd(page) ==
    LET found == Ld!ExtractJsonLd(page.ld)
    IN  IF found = None THEN None
        ELSE Result("jsonld", [amount |-> found.price, currency |-> None],
                    found.confidence, found.evidence, found.count)

(* extractMicrodata: the outermost scopes with a readable price.  A scope  *)
(* is whether it is a product's and the prices it holds, None for one that *)
(* will not parse; without scopes the whole document is one.               *)
Readable(prices) == SelectSeq(prices, LAMBDA p : p # None)
PriceCount(scopes) == FoldLeft(LAMBDA sum, s : sum + Len(Readable(s.prices)), 0, scopes)

FromMicrodata(page) ==
    LET scopes == SelectSeq(page.scopes, LAMBDA s : s.prices # <<>> /\ s.prices[1] # None)
        count == PriceCount(scopes)
        identity == Ld!PageIdentity(page.ld)
        sole == count = 1 /\ scopes[1].isProduct
        result(price, confidence, evidence, n) ==
          Result("microdata", [amount |-> price, currency |-> None], confidence, evidence, n)
    IN  IF scopes # <<>>
        THEN CASE sole /\ identity # None /\ ~identity.hasQuery ->
                    result(scopes[1].prices[1], "high", "single-product-price", count)
               [] sole /\ identity # None /\ identity.hasQuery ->
                    result(scopes[1].prices[1], "low", "queried-url", count)
               [] OTHER -> result(scopes[1].prices[1], "low", "microdata-ambiguous", count)
        ELSE IF page.loose = <<>> THEN None
        ELSE IF page.loose[1] = None THEN None
        ELSE result(page.loose[1], "low", "document-price", 1)

(* extractOpenGraph *)
FromOpenGraph(page) ==
    IF page.meta = None THEN None
    ELSE Result("opengraph", [amount |-> page.meta, currency |-> None], "low", "page-metadata", 0)

Configured(mode, reading) ==
    IF reading = None THEN None ELSE Result(mode, reading, "high", "configured", 0)

Strategy(name, page, expression) ==
    CASE name = "jsonld" -> FromJsonLd(page)
      [] name = "microdata" -> FromMicrodata(page)
      [] name = "opengraph" -> FromOpenGraph(page)
      [] name = "selector" ->
           IF expression = None THEN None
           ELSE Configured(name, ExtractBySelector(page.dom, expression))
      [] name = "jsonpath" ->
           IF expression = None THEN None
           ELSE Configured(name, Json!ExtractByJsonPath(Documents(page), expression))

(* extract *)
StrategyOrder == <<"jsonld", "microdata", "opengraph", "selector">>
Extract(page, strategies, expression) ==
    LET found == SelectSeq([i \in DOMAIN strategies |-> Strategy(strategies[i], page, expression)],
                           LAMBDA r : r # None)
    IN  IF found = <<>> THEN None ELSE found[1]

(* evidence.ts: what is not recorded although a price was found.           *)
Contradictory == {"aggregate-offer", "conflict", "multiple-candidates", "non-product",
                  "microdata-ambiguous"}
AmbiguousEvidence(result) == result.count > 1 \/ result.evidence \in Contradictory
IsAmbiguous(result) == result.confidence = "low" /\ AmbiguousEvidence(result)

(* testExpression *)
TestExpression(page, mode, expression) ==
    [matchCount |-> IF mode = "selector"
                    THEN Cardinality(Matching(page.dom, expression.selector))
                    ELSE Len(Json!Resolved(Documents(page), expression)),
     result |-> Extract(page, <<mode>>, expression)]

-----------------------------------------------------------------------------
(* The calls *)

Init == question = None /\ answer = None

Ask(kind, inputs) ==
    /\ question = None
    /\ \E i \in inputs : question' = [kind |-> kind, input |-> i]
    /\ UNCHANGED answer

(* None is an answer, of a page without a price, so it comes in a record.  *)
Answer(kind, Function(_)) ==
    /\ question # None /\ answer = None
    /\ question.kind = kind
    /\ answer' = [is |-> Function(question.input)]
    /\ UNCHANGED question

AskPrice == Ask("price", PriceTexts)
AskExtract == Ask("extract", Storefronts)
AskSuggest == Ask("suggest", Layouts)
AskBudget == Ask("budget", ModeQueues)
AnswerPrice == Answer("price", LAMBDA t : Texts!ParsePrice(t.text, t.hint, t.locale))
AnswerExtract == Answer("extract", LAMBDA s : Extract(Storefront(s).page, StrategyOrder, None))
AnswerSuggest == Answer("suggest", LAMBDA l : SuggestExpressions(Layout(l).page, Layout(l).expected, l.onFile))
AnswerBudget == Answer("budget", Budgeted)

Next ==
    \/ AskPrice \/ AskExtract \/ AskSuggest \/ AskBudget
    \/ AnswerPrice \/ AnswerExtract \/ AnswerSuggest \/ AnswerBudget

Spec == Init /\ [][Next]_vars

Answered(kind) == IF answer = None THEN FALSE ELSE question.kind = kind
Input == question.input
Given == answer.is

-----------------------------------------------------------------------------
(* Properties *)

(* parsePrice (price.ts:246): a price written as a locale writes it is     *)
(* read with that locale as what was meant, whatever its separators, and   *)
(* so it is without one unless exactly three digits follow a lone          *)
(* separator; a code beside a symbol, or given, names the currency.        *)
ReadsBack ==
    Answered("price") =>
        /\ Given # None
        /\ (Input.locale # None \/ ~Input.groupsAlone) =>
             /\ Given.amount.whole = Input.whole
             /\ Given.amount.fraction = Input.fraction
        /\ Given.currency = Input.currency

(* "Whether the extractor found enough evidence to auto-accept the result" *)
(* (types.ts:29): on a page whose data is true, wherever it leaves out     *)
(* what tells variants apart, a result of high confidence is the price of  *)
(* the variant the page shows.                                             *)
AcceptedIsShown ==
    (Answered("extract") /\ Given # None) =>
        (Given.confidence = "high" => Given.price = Storefront(Input).shown)

(* "the extractor saw several prices and could not tell which one the page *)
(* is selling" is "a reason to refuse to record a price" (evidence.ts:6):  *)
(* what is recorded never hangs on the order in which a page's schema.org  *)
(* data comes.                                                             *)
RecordedInAnyOrder ==
    (Answered("extract") /\ Given # None) =>
        (~IsAmbiguous(Given) =>
            LET reversed == [Storefront(Input).page EXCEPT !.ld.nodes = Reverse(@)]
            IN  Extract(reversed, StrategyOrder, None).price = Given.price)

(* "a suggestion can never be one the user is then refused"                *)
(* (suggest.ts:1297): whatever is offered matches one thing on the page,   *)
(* and pinned to it the chain reads the price the user read.               *)
SuggestedReadsIt ==
    LET reads(test, expected) ==
          /\ test.matchCount = 1
          /\ test.result # None /\ test.result.price = expected
          /\ ~IsAmbiguous(test.result)
    IN  Answered("suggest") =>
            \A c \in ToSet(Given) :
                reads(TestExpression(Layout(Input).page, c.mode, c.expression), Layout(Input).expected)

(* A price that stands in the one JSON document of a page is found there   *)
(* by an expression, whatever the keys on its path look like, as long as   *)
(* they can be quoted (concretePath, suggest.ts:1025) and the budget does  *)
(* not run out.                                                            *)
FoundIsOffered ==
    Answered("suggest") =>
        LET page == Layout(Input).page
            expected == Layout(Input).expected
        IN  (/\ Len(Documents(page)) = 1 /\ Layout(Input).quotable
             /\ Json!WalkJson(Documents(page), expected) # <<>>
             /\ Len(Drafts(page, expected)) <= MaxValidations)
            => Given # <<>>

(* "Three bands, spaced clear of each other" (suggest.ts:1229): what reads *)
(* a number that is not the price, or will not be tomorrow, is behind all  *)
(* that cannot run yet, and that is behind all that can.                   *)
RiskLast ==
    LET band(c) == Band(c, c.currency # None, Layout(Input).onFile)
    IN  Answered("suggest") =>
            \A i, j \in DOMAIN Given : i < j => band(Given[i]) <= band(Given[j])

(* budgeted (suggest.ts:1412): "neither mode may starve the other" however *)
(* the drafts are ordered, the budget is spent to the last, and "a page    *)
(* whose drafts fit in the budget is unaffected".                          *)
BudgetIsShared ==
    Answered("budget") =>
        /\ Cardinality(Given) = Smaller(Len(Input), MaxValidations)
        /\ \A m \in ToSet(Input) : \E i \in Given : Input[i] = m
=============================================================================
