------------------------------- MODULE Markup -------------------------------
(***************************************************************************)
(* The elements of a page as packages/core/src/extract/selector.ts and     *)
(* suggest.ts read them.                                                   *)
(*                                                                         *)
(* Elements are numbered in document order, the page's outermost one being *)
(* of parent 0, <html>.  An element has a tag (a negative number), names   *)
(* (usable classes, ids and identifying attributes, which are positive),   *)
(* the prices of its own text, whether that text is prose, and at most one *)
(* attribute that holds a price.                                           *)
(***************************************************************************)
EXTENDS Integers, Sequences, SequencesExt, FiniteSets

CONSTANT None

Elements(dom) == DOMAIN dom.parent
Ascending(S) == [n \in 1..Cardinality(S) |-> CHOOSE x \in S : Cardinality({y \in S : y < x}) = n - 1]

(* parentElement stops below <html>.                                       *)
Ancestors(dom, e) ==
    LET up[n \in Nat, x \in 0..Len(dom.parent)] ==
          IF n = 0 \/ x = 0 THEN <<>>
          ELSE IF dom.parent[x] = 0 THEN <<>>
          ELSE <<dom.parent[x]>> \o up[n - 1, dom.parent[x]]
    IN  up[Len(dom.parent), e]

Within(dom, e, a) == a \in ToSet(Ancestors(dom, e))
Subtree(dom, e) == {x \in Elements(dom) : x = e \/ Within(dom, x, e)}

-----------------------------------------------------------------------------
(* A selector asks for a name or a tag, under an ancestor's or None.       *)

Selector(prefix, own) == [prefix |-> prefix, own |-> own]
Has(dom, e, own) == own = dom.tag[e] \/ own \in dom.names[e]

Matching(dom, selector) ==
    {e \in Elements(dom) :
        /\ Has(dom, e, selector.own)
        /\ selector.prefix # None =>
             \E a \in ToSet(Ancestors(dom, e)) : Has(dom, a, selector.prefix)}

-----------------------------------------------------------------------------
(* extractBySelector.  An element is read by the attribute that is asked   *)
(* for, or else by its content, or its value, or its text with that of the *)
(* elements inside it.                                                     *)

TextOf(dom, e) ==
    FlattenSeq([x \in Elements(dom) |-> IF x \in Subtree(dom, e) THEN dom.own[x] ELSE <<>>])

(* The first price of a text, with a currency found anywhere in it.        *)
ReadText(readings) ==
    LET currencies == SelectSeq(readings, LAMBDA r : r.currency # None)
    IN  IF readings = <<>> THEN None
        ELSE [amount |-> readings[1].amount,
              currency |-> IF currencies = <<>> THEN None ELSE currencies[1].currency]

Implicit == {"content", "value"}
ReadElement(dom, e, attribute) ==
    LET held == dom.attribute[e]
        wanted == IF attribute = None THEN Implicit ELSE {attribute}
        holds == IF held = None THEN FALSE ELSE held.name \in wanted
    IN  IF holds THEN [amount |-> held.amount, currency |-> held.currency]
        ELSE IF attribute # None THEN None ELSE ReadText(TextOf(dom, e))

(* The first match that is a price.                                        *)
ExtractBySelector(dom, expression) ==
    LET matched == Ascending(Matching(dom, expression.selector))
        read == [i \in DOMAIN matched |-> ReadElement(dom, matched[i], expression.attribute)]
        priced == SelectSeq(read, LAMBDA r : r # None)
    IN  IF priced = <<>> THEN None ELSE priced[1]
=============================================================================
