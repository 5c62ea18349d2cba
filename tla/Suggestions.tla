---------------------------- MODULE Suggestions -----------------------------
(***************************************************************************)
(* packages/core/src/extract/suggest.ts: from a price the user reads off a *)
(* page to the expressions that read it, ranked by how long they will      *)
(* last.                                                                   *)
(*                                                                         *)
(* Drafts come from the page's JSON (JsonPaths) and from its elements      *)
(* (Markup); Ranking scores them.  The list of all prices seen, which is   *)
(* offered when nothing matched, and the wording are left out.             *)
(***************************************************************************)
EXTENDS Ranking, Markup

CONSTANTS
    MaxSelectorDepth,   \* MAX_SELECTOR_DEPTH
    MaxQueries,         \* MAX_SELECTOR_QUERIES_PER_ELEMENT
    MaxPriceTexts,      \* how many prices MAX_PRICE_TEXT_CHARS holds
    MaxCandidates,      \* MAX_CANDIDATES
    MaxDocuments        \* MAX_DOCUMENTS

Json == INSTANCE JsonPaths
Documents(page) == Json!CollectJsonDocuments(page.scripts)

-----------------------------------------------------------------------------
(* narrowedSelector *)

(* selfSelectors: names first, the tag last.                               *)
Strong(dom, e) == Ascending(dom.names[e])
Own(dom, e) == Strong(dom, e) \o <<dom.tag[e]>>

(* identifiesWithin stands in for a scan of the page only under a prefix   *)
(* that names its ancestor alone.                                          *)
MatchesWithin(dom, a, own) == {e \in Elements(dom) : Has(dom, e, own) /\ Within(dom, e, a)}
Scoped(dom, prefix, a) == Matching(dom, Selector(None, prefix)) = {a}

(* The queries in the order they are made, each with what it costs of the  *)
(* budget and whether it finds the element and nothing else.               *)
OwnTrials(dom, e) ==
    [i \in DOMAIN Strong(dom, e) |->
        LET selector == Selector(None, Strong(dom, e)[i])
        IN  [selector |-> selector, cost |-> 1, found |-> Matching(dom, selector) = {e}]]

TrialsUnder(dom, e, a, prefix) ==
    LET scoped == Scoped(dom, prefix, a)
    IN  <<[selector |-> Selector(None, prefix), cost |-> 1, found |-> FALSE]>>
        \o [i \in DOMAIN Own(dom, e) |->
              LET own == Own(dom, e)[i]
              IN  [selector |-> Selector(prefix, own),
                   cost |-> IF scoped THEN 0 ELSE 1,
                   found |-> IF scoped THEN MatchesWithin(dom, a, own) = {e}
                             ELSE Matching(dom, Selector(prefix, own)) = {e}]]

Trials(dom, e) ==
    LET above == SubSeq(Ancestors(dom, e), 1, Smaller(MaxSelectorDepth, Len(Ancestors(dom, e))))
        under(a) == FlattenSeq([i \in DOMAIN Strong(dom, a) |->
                                  TrialsUnder(dom, e, a, Strong(dom, a)[i])])
    IN  OwnTrials(dom, e) \o FlattenSeq([i \in DOMAIN above |-> under(above[i])])

(* A query beyond the budget finds nothing.                                *)
NarrowedSelector(dom, e, budget) ==
    LET trials == Trials(dom, e)
        spent(i) == FoldLeft(LAMBDA sum, t : sum + t.cost, 0, SubSeq(trials, 1, i))
        found == {i \in DOMAIN trials : trials[i].found /\ spent(i) <= budget}
    IN  IF found = {} THEN None
        ELSE trials[CHOOSE i \in found : \A j \in found : i <= j].selector

-----------------------------------------------------------------------------
(* Drafts from the markup *)

Struck == {-2}     \* STRUCK_TAGS, of -1 (span), -2 (del) and -3 (div)
PriceWords == {"price", "amount", "value"}

Lineage(dom, e) == {e} \cup ToSet(Ancestors(dom, e))
AncestryNames(dom, e) == UNION {dom.words[a] : a \in Lineage(dom, e)}
IsStruck(dom, e) == \E a \in Lineage(dom, e) : dom.tag[a] \in Struck

Reads(reading, expected) == IF reading = None THEN FALSE ELSE reading.amount = expected

(* A text is read when it is short: a tight wrapper, not the page.         *)
ReadsShort(dom, e, expected) ==
    Len(TextOf(dom, e)) <= MaxPriceTexts /\ Reads(ReadText(TextOf(dom, e)), expected)

DistinctPrices(dom, e) == {TextOf(dom, e)[i].amount : i \in DOMAIN TextOf(dom, e)}
WrapsAPriceElement(dom, e, expected) ==
    \E x \in Subtree(dom, e) \ {e} : ReadsShort(dom, x, expected)

(* attributeSaysPrice: a content is spoken for by any name of its element, *)
(* a value only by the key it is submitted under, others by their own.     *)
AttributeSaysPrice(dom, e) ==
    LET name == dom.attribute[e].name
    IN  CASE name = "content" -> \E n \in dom.words[e] : n \cap PriceWords # {}
          [] name = "value" -> \E n \in dom.keyed[e] : n \cap PriceWords # {}
          [] OTHER -> name = "data-price"

When(condition, flag) == IF condition THEN {flag} ELSE {}

ElementDraft(dom, e, attribute, names, tier, flags) ==
    LET selector == NarrowedSelector(dom, e, MaxQueries)
    IN  IF selector = None THEN <<>>
        ELSE <<[mode |-> "selector", names |-> names, tier |-> tier,
                expression |-> [selector |-> selector, attribute |-> attribute],
                flags |-> flags \cup When(IsStruck(dom, e), "struck")
                                \cup When(selector.own < 0, "weak")]>>

AttributeDraft(dom, e, expected) ==
    LET held == dom.attribute[e]
    IN  IF ~Reads(held, expected) THEN <<>>
        ELSE ElementDraft(dom, e, IF held.name \in Implicit THEN None ELSE held.name,
                          AncestryNames(dom, e), 1,
                          When(~AttributeSaysPrice(dom, e), "unnamed"))

TextDraft(dom, e, expected) ==
    IF ~ReadsShort(dom, e, expected) THEN <<>>
    ELSE ElementDraft(dom, e, None, AncestryNames(dom, e), 2,
                      When(Cardinality(DistinctPrices(dom, e)) > 1, "positional")
                      \cup When(\E x \in Subtree(dom, e) : dom.prose[x], "prose")
                      \cup When(WrapsAPriceElement(dom, e, expected), "wrapper"))

(* walkDom: the attributes of an element before its text.                  *)
WalkDom(dom, expected) ==
    FlattenSeq([e \in Elements(dom) |-> AttributeDraft(dom, e, expected) \o TextDraft(dom, e, expected)])

-----------------------------------------------------------------------------
(* suggestExpressions *)

(* One draft per expression, in the place of the first: of those of the    *)
(* lowest tier, again the first.                                           *)
SameExpression(d, e) == d.mode = e.mode /\ d.expression = e.expression
Deduped(drafts) ==
    LET same(i) == {j \in DOMAIN drafts : SameExpression(drafts[i], drafts[j])}
        kept(i) == CHOOSE j \in same(i) : \A k \in same(i) :
                     \/ drafts[j].tier < drafts[k].tier
                     \/ drafts[j].tier = drafts[k].tier /\ j <= k
        firsts == Ascending({i \in DOMAIN drafts : \A j \in same(i) : i <= j})
    IN  [n \in DOMAIN firsts |-> drafts[kept(firsts[n])]]

(* What the names around a draft add to its flags; the length of an        *)
(* expression is how much there is in it.                                  *)
Judged(draft) ==
    draft @@ [tens |-> IF draft.mode = "jsonpath" THEN Len(draft.expression)
                       ELSE IF draft.expression.selector.prefix = None THEN 1 ELSE 2,
              charged |-> draft.flags \cup When(NamesCarry(draft.names, StalePriceSignal), "stale")
                                      \cup When(NamesCarry(draft.names, OtherProductSignal), "other")]

(* validateSelector, validateJsonPath: one match on the page, and it reads *)
(* the price that was asked for.                                           *)
ValidateSelector(dom, expression, expected) ==
    /\ Cardinality(Matching(dom, expression.selector)) = 1
    /\ Reads(ExtractBySelector(dom, expression), expected)

Validated(page, draft, expected) ==
    IF draft.mode = "jsonpath"
    THEN Json!ValidateJsonPath(Documents(page), draft.expression, expected)
    ELSE ValidateSelector(page.dom, draft.expression, expected)

Reading(page, draft) ==
    IF draft.mode = "jsonpath" THEN Json!ExtractByJsonPath(Documents(page), draft.expression)
    ELSE ExtractBySelector(page.dom, draft.expression)

Drafts(page, expected) ==
    LET all == Deduped(Json!WalkJson(Documents(page), expected) \o WalkDom(page.dom, expected))
    IN  SortedBy([i \in DOMAIN all |-> Judged(all[i])], DraftScore)

SuggestExpressions(page, expected, onFile) ==
    LET drafts == Drafts(page, expected)
        taken == Ascending(Budgeted([i \in DOMAIN drafts |-> drafts[i].mode]))
        valid == SelectSeq([i \in DOMAIN taken |-> drafts[taken[i]]],
                           LAMBDA d : Validated(page, d, expected))
        candidates == [i \in DOMAIN valid |-> valid[i] @@ [currency |-> Reading(page, valid[i]).currency]]
        ranked == SortedBy(candidates, LAMBDA c : Total(c, c.currency # None, onFile))
    IN  SubSeq(ranked, 1, Smaller(MaxCandidates, Len(ranked)))
=============================================================================
