------------------------------- MODULE JsonLd -------------------------------
(***************************************************************************)
(* packages/core/src/extract/jsonld.ts with page-url.ts: which offer of a  *)
(* page's schema.org data is the one the page is about, and with what      *)
(* confidence.                                                             *)
(*                                                                         *)
(* The walk over scripts, @graph and nesting is abstracted to a sequence   *)
(* of nodes in document order, with the offers of a node, nested ones      *)
(* included, in theirs.  Values are normalised spellings: one member of a  *)
(* set stands for every way of writing it.                                 *)
(***************************************************************************)
EXTENDS Naturals, Sequences, SequencesExt, FiniteSets

CONSTANT None

-----------------------------------------------------------------------------
(* urlIdentity *)

(* VARIANT_PARAMETER_PROPERTIES, in the order URLSearchParams.sort gives.  *)
Parameters == <<"color", "colour", "size">>
PropertyOf == [p \in ToSet(Parameters) |-> IF p = "size" THEN "size" ELSE "color"]
Properties == {"color", "size"}

Tracking == {"utm_source", "gclid"}
IsTrackingParam(name) == name \in Tracking

(* A URL is its path and the <<name, value>> pairs of its query.           *)
UrlIdentity(url) ==
    LET kept == {q \in url.query : ~IsTrackingParam(q[1])}
        valuesOf(name) == {q[2] : q \in {r \in kept : r[1] = name}}
        names == {q[1] : q \in kept}
        single == {n \in names : Cardinality(valuesOf(n)) = 1}
    IN  [path |-> url.path, full |-> <<url.path, kept>>, hasQuery |-> kept # {},
         parameters |-> [n \in single |-> CHOOSE v \in valuesOf(n) : TRUE],
         ambiguous |-> names \ single]

PageIdentity(page) == IF page.url = None THEN None ELSE UrlIdentity(page.url)

(* pageUrlMatch: of a node's url and of its offer's.                       *)
PageUrlMatch(product, offer, identity) ==
    LET own == {UrlIdentity(u) : u \in {product.url, offer.url} \ {None}}
    IN  IF identity = None THEN None
        ELSE IF \E u \in own : u.full = identity.full THEN "exact"
        ELSE IF \E u \in own : u.path = identity.path THEN "pathname"
        ELSE None

-----------------------------------------------------------------------------
(* Nodes *)

IsGroup(node) == node.type = "productgroup"
IsProduct(node) == node.type = "product"

(* rankNodes: products and their groups come before anything else that     *)
(* carries offers.                                                         *)
RankNodes(nodes) ==
    LET carries(node) == node.offers # <<>>
        ranked(node) == IsProduct(node) \/ IsGroup(node)
    IN  SelectSeq(nodes, LAMBDA n : carries(n) /\ ranked(n))
        \o SelectSeq(nodes, LAMBDA n : carries(n) /\ ~ranked(n))

(* selectedSkuHint: trustworthy when every selected control names one SKU. *)
Hint(page) == [sku |-> IF Cardinality(page.selected) = 1
                       THEN CHOOSE s \in page.selected : TRUE ELSE None,
               conflict |-> Cardinality(page.selected) > 1]

(* selectableVariantValues: a property that lists several values selects   *)
(* none of them; variantValues only asks whether there is one.             *)
SelectableValues(product, p) ==
    IF Cardinality(product.values[p]) = 1 THEN product.values[p] ELSE {}
ComparableProperties(product) == {p \in Properties : product.values[p] # {}}

(* variantContexts: the last group that names an id, by its own or as a    *)
(* variant, and above that the group a node says it is a variant of.       *)
ContextOfId(nodes, id) ==
    LET naming == {g \in DOMAIN nodes : IsGroup(nodes[g]) /\ id \in nodes[g].variants \cup {nodes[g].id}}
    IN  IF naming = {} THEN None ELSE CHOOSE g \in naming : \A h \in naming : h <= g

VariantContext(nodes, node) ==
    LET declared == {g \in DOMAIN nodes : IsGroup(nodes[g]) /\ nodes[g].id = node.variantOf}
        group == IF node.variantOf # None /\ declared # {}
                 THEN ContextOfId(nodes, node.variantOf) ELSE ContextOfId(nodes, node.id)
    IN  IF group = None THEN None ELSE nodes[group]

-----------------------------------------------------------------------------
(* What the query of the page says of a product *)

(* queryValuesByProperty: None when the query contradicts itself.          *)
QueryValues(identity) ==
    LET named == {p \in DOMAIN identity.parameters : p \in ToSet(Parameters)}
        asked == {PropertyOf[p] : p \in named}
        values(q) == {identity.parameters[p] : p \in {r \in named : PropertyOf[r] = q}}
    IN  IF \/ identity.ambiguous \cap ToSet(Parameters) # {}
           \/ \E q \in asked : Cardinality(values(q)) > 1
        THEN None
        ELSE [q \in asked |-> CHOOSE v \in values(q) : TRUE]

NothingSaid == [conflict |-> {}, matches |-> {}]

(* variantParameterResult: the first property, in the order of the query,  *)
(* that a product does not state, or states otherwise, decides.            *)
ParametersMatch(product, query) ==
    LET order == SelectSeq(<<"color", "size">>, LAMBDA p : query # None /\ p \in DOMAIN query)
        unmet == SelectSeq(order, LAMBDA p : query[p] \notin SelectableValues(product, p))
    IN  IF order = <<>> THEN NothingSaid
        ELSE IF unmet = <<>> THEN [NothingSaid EXCEPT !.matches = ToSet(order)]
        ELSE IF SelectableValues(product, unmet[1]) = {} THEN NothingSaid
        ELSE [NothingSaid EXCEPT !.conflict = {unmet[1]}]
VariantParameters(product, identity) ==
    ParametersMatch(product, IF identity = None THEN None ELSE QueryValues(identity))

(* semanticEvidenceIsTrusted *)
TrustedWhateverElse(identity, matches, context) == matches # {}
Trusted(identity, matches, context) ==
    LET unknown == \E p \in (DOMAIN identity.parameters) \cup identity.ambiguous :
                     p \notin ToSet(Parameters)
    IN  /\ matches # {}
        /\ IF context = None THEN ~unknown
           ELSE context.variesBy \subseteq matches /\ (unknown => context.variesBy # {})

-----------------------------------------------------------------------------
(* rankOffers *)

(* offerWithProduct: the SKU of an offer is its own, or else its product's.*)
OfferWithProduct(node, offer, identity, hint, context, said) ==
    LET sku == IF offer.sku # None THEN offer.sku ELSE node.sku
    IN  [offer |-> offer, isProduct |-> IsProduct(node),
         comparable |-> ComparableProperties(node),
         selected |-> hint.sku # None /\ sku = hint.sku,
         urlMatch |-> PageUrlMatch(node, offer, identity),
         context |-> context, conflictWith |-> said.conflict, matches |-> said.matches,
         trusted |-> identity # None /\ Trusted(identity, said.matches, context)]

OffersOf(node, page, identity) ==
    [j \in DOMAIN node.offers |->
        OfferWithProduct(node, node.offers[j], identity, Hint(page),
                         VariantContext(page.nodes, node), VariantParameters(node, identity))]
Offers(page) ==
    FoldLeft(LAMBDA offers, node : offers \o OffersOf(node, page, PageIdentity(page)), <<>>, RankNodes(page.nodes))

SameGroup(c, d) == c.context # None /\ d.context # None /\ c.context.id = d.context.id

(* hasTrustedVariantConflict *)
Conflicting(c, all) ==
    /\ c.conflictWith # {} /\ c.context # None
    /\ \/ c.conflictWith \cap c.context.variesBy # {}
       \/ \E d \in ToSet(all) : SameGroup(c, d) /\ d.matches # {}

(* addToOfferBucket *)
Bucket(c) ==
    CASE c.selected -> 1
      [] c.urlMatch = "exact" /\ ~c.conflict -> 2
      [] c.matches # {} -> 3
      [] c.urlMatch = "exact" -> 4
      [] c.urlMatch = "pathname" -> 5
      [] OTHER -> 6

(* Ranking is global, document order within a bucket.  An offer without a  *)
(* readable price is no candidate.                                         *)
Judged(all) == [i \in DOMAIN all |-> all[i] @@ [conflict |-> Conflicting(all[i], all)]]
RankOffers(judged) ==
    LET priced == SelectSeq(judged, LAMBDA c : c.offer.price # None)
    IN  FlattenSeq([b \in 1..6 |-> SelectSeq(priced, LAMBDA c : Bucket(c) = b)])
Candidates(page) == RankOffers(Judged(Offers(page)))

-----------------------------------------------------------------------------
(* confidenceForJsonLd *)

Verdict(confidence, type) == [confidence |-> confidence, evidence |-> type]

UniqueMatchTrusted(matching, type) == Verdict("high", type)
UniqueMatch(matching, type) ==
    IF Cardinality(matching) = 1 THEN Verdict("high", type) ELSE Verdict("low", "multiple-candidates")

(* hasSelectedUrlConflict, hasSelectedVariantConflict: what the controls   *)
(* select is not what the address names.                                   *)
SelectionContradicts(hint, selected, others) ==
    hint.sku # None /\ others # {} /\ selected \cap others = {}

(* semanticCandidatesAreComparable: every rival states what the winner     *)
(* matched on.                                                             *)
Comparable(winning, candidates) ==
    \A c \in ToSet(candidates) :
        c.isProduct /\ (winning.context # None => SameGroup(winning, c))
            => winning.matches \subseteq c.comparable

ConfidenceForJsonLd(candidates, page) ==
    LET winning == candidates[1]
        identity == PageIdentity(page)
        hint == Hint(page)
        those(P(_)) == {i \in DOMAIN candidates : P(candidates[i])}
        selected == those(LAMBDA c : c.selected)
        exact == those(LAMBDA c : c.urlMatch = "exact")
        matching == those(LAMBDA c : c.matches # {})
    IN  CASE \/ hint.conflict
             \/ hint.sku # None /\ selected = {}
             \/ SelectionContradicts(hint, selected, exact)
             \/ selected # {} /\ SelectionContradicts(hint, selected, matching)
               -> Verdict("low", "conflict")
          [] OTHER ->
         CASE ~winning.isProduct -> Verdict("low", "non-product")
           [] winning.isProduct /\ winning.offer.range -> Verdict("low", "aggregate-offer")
           [] OTHER ->
         IF winning.conflict THEN Verdict("low", "conflict")
         ELSE IF winning.selected THEN UniqueMatch(selected, "selected-sku")
         ELSE IF winning.urlMatch = "exact" THEN UniqueMatch(exact, "exact-url")
         ELSE IF winning.matches # {}
         THEN IF Cardinality(matching) > 1 THEN Verdict("low", "multiple-candidates")
              ELSE Verdict(IF winning.trusted /\ Comparable(winning, candidates) THEN "high" ELSE "low",
                           "variant-params")
         ELSE IF winning.urlMatch = "pathname" THEN Verdict("low", "pathname")
         ELSE IF Len(candidates) > 1 THEN Verdict("low", "multiple-candidates")
         ELSE IF identity = None THEN Verdict("low", "document-order")
         ELSE IF identity.hasQuery THEN Verdict("low", "queried-url")
         ELSE Verdict("high", "singleton")

(* extractJsonLd *)
Best(candidates, page) ==
    IF candidates = <<>> THEN None
    ELSE [price |-> candidates[1].offer.price, count |-> Len(candidates)]
         @@ ConfidenceForJsonLd(candidates, page)
ExtractJsonLd(page) == Best(Candidates(page), page)
=============================================================================
