----------------------------- MODULE JsonPaths ------------------------------
(***************************************************************************)
(* packages/core/src/extract/json-path.ts and jsonpath.ts, with the walk   *)
(* of suggest.ts over JSON: how a path is written, read and resolved, and  *)
(* what a value says as a price.                                           *)
(*                                                                         *)
(* A key, and a written path, is a sequence of words and marks; indices    *)
(* are single digits.  A number or a text is what parsePrice makes of it.  *)
(* The ceilings on nodes and depth are left out.                           *)
(***************************************************************************)
EXTENDS Naturals, Sequences, SequencesExt, FiniteSets

CONSTANTS None, MaxDocuments

Marks == {"$", ".", "*", "[", "]", "'", " "}
Digits == <<"0", "1", "2">>
IsWord(token) == token \notin Marks \cup ToSet(Digits)

(* isRecord and the rest of what JSON.parse returns.                       *)
Number(amount) == [is |-> "number", amount |-> amount, currency |-> None]
Text(amount, currency) == [is |-> "text", amount |-> amount, currency |-> currency]
Null == [is |-> "null"]
Object(fields) == [is |-> "object", fields |-> fields]
Array(items) == [is |-> "array", items |-> items]
Field(key, value) == [key |-> key, value |-> value]

Children(v) ==
    CASE v.is = "object" -> [i \in DOMAIN v.fields |-> v.fields[i].value]
      [] v.is = "array" -> v.items
      [] OTHER -> <<>>

Held(v, key) ==
    IF v.is # "object" THEN <<>>
    ELSE LET fields == SelectSeq(v.fields, LAMBDA f : f.key = key)
         IN  [i \in DOMAIN fields |-> fields[i].value]

(* collectJsonDocuments: a script holds literals, None for one that is     *)
(* JavaScript rather than JSON.  First the body, then the scripts of data, *)
(* then what code assigns; other scripts are not read.                     *)
CollectJsonDocuments(scripts) ==
    LET literals(s) == LET json == SelectSeq(s.literals, LAMBDA v : v # None)
                       IN  [i \in DOMAIN json |-> [source |-> s.source, value |-> json[i]]]
        of(type) == LET those == SelectSeq(scripts, LAMBDA s : s.type = type)
                    IN  FlattenSeq([i \in DOMAIN those |-> literals(those[i])])
        all == of("body") \o of("json") \o of("ld+json") \o of("code")
    IN  SubSeq(all, 1, IF Len(all) < MaxDocuments THEN Len(all) ELSE MaxDocuments)

-----------------------------------------------------------------------------
(* jsonValuePrice: an object is read only as an offer, by its price, or    *)
(* its amount, or its value.                                               *)

ScalarPrice(v, hint) ==
    IF v.is \notin {"number", "text"} THEN None
    ELSE IF v.amount = None THEN None
    ELSE [amount |-> v.amount, currency |-> IF hint # None THEN hint ELSE v.currency]

FirstHeld(v, keys) ==
    LET held == SelectSeq(FlattenSeq([i \in DOMAIN keys |-> Held(v, keys[i])]),
                          LAMBDA w : w.is # "null")
    IN  IF held = <<>> THEN Null ELSE held[1]

JsonValuePrice(v) ==
    IF v.is # "object" THEN ScalarPrice(v, None)
    ELSE LET currency == FirstHeld(v, <<<<"price", "Currency">>, <<"currency">>>>)
         IN  ScalarPrice(FirstHeld(v, <<<<"price">>, <<"amount">>, <<"value">>>>),
                         IF currency.is = "text" THEN currency.currency ELSE None)

-----------------------------------------------------------------------------
(* parseJsonPath *)

Property(name) == [type |-> "property", name |-> name]
Index(digit) == [type |-> "index", index |-> digit]
Descend(name) == [type |-> "descend", name |-> name]
Wildcard == [type |-> "wildcard"]

TokenAt(source, i) == IF i \in DOMAIN source THEN source[i] ELSE None
NextOf(source, token, from) ==
    LET at == {i \in DOMAIN source : i >= from /\ source[i] = token}
    IN  IF at = {} THEN None ELSE CHOOSE i \in at : \A j \in at : i <= j

(* readName *)
NameEnd(source, from) ==
    CHOOSE i \in from..(Len(source) + 1) :
        /\ \A j \in from..(i - 1) : IsWord(source[j])
        /\ i \in DOMAIN source => ~IsWord(source[i])

Read(segment, end) == [segment |-> segment, end |-> end]
ReadNamed(source, from, Make(_)) ==
    LET end == NameEnd(source, from)
    IN  IF end = from THEN None ELSE Read(Make(SubSeq(source, from, end - 1)), end)

(* readQuoted: to the closing quote first, so that a key may hold a "]".   *)
ReadQuotedToBracket(source, open) ==
    LET close == NextOf(source, "]", open + 2)
    IN  IF close = None THEN None ELSE Read(Property(SubSeq(source, open + 2, close - 2)), close + 1)
ReadQuoted(source, open) ==
    LET quoteEnd == NextOf(source, "'", open + 2)
        close == IF quoteEnd = None THEN None ELSE NextOf(source, "]", quoteEnd + 1)
    IN  IF close = None THEN None
        ELSE IF \E i \in (quoteEnd + 1)..(close - 1) : source[i] # " " THEN None
        ELSE Read(Property(SubSeq(source, open + 2, quoteEnd - 1)), close + 1)

ReadBracket(source, open) ==
    LET close == NextOf(source, "]", open + 1)
        inner == SelectSeq(SubSeq(source, open + 1, close - 1), LAMBDA t : t # " ")
    IN  IF TokenAt(source, open + 1) = "'" THEN ReadQuoted(source, open)
        ELSE IF close = None THEN None
        ELSE IF inner = <<"*">> THEN Read(Wildcard, close + 1)
        ELSE IF Len(inner) = 1 /\ inner[1] \in ToSet(Digits) THEN Read(Index(inner[1]), close + 1)
        ELSE None

ReadSegment(source, i) ==
    CASE source[i] = "[" -> ReadBracket(source, i)
      [] source[i] \notin {"[", "."} -> None
      [] OTHER ->
    CASE TokenAt(source, i + 1) = "." -> ReadNamed(source, i + 2, Descend)
      [] TokenAt(source, i + 1) = "*" -> Read(Wildcard, i + 2)
      [] OTHER -> ReadNamed(source, i + 1, Property)

RECURSIVE ParseFrom(_, _)
ParseFrom(source, i) ==
    IF i > Len(source) THEN <<>>
    ELSE LET read == ReadSegment(source, i)
             rest == IF read = None THEN None ELSE ParseFrom(source, read.end)
         IN  IF rest = None THEN None ELSE <<read.segment>> \o rest

(* The segments, or None for what is not a path.                           *)
ParseJsonPath(source) == IF TokenAt(source, 1) # "$" THEN None ELSE ParseFrom(source, 2)

-----------------------------------------------------------------------------
(* evaluateJsonPath *)

RECURSIVE Descended(_, _)
Descended(v, name) ==
    Held(v, name) \o FlattenSeq([i \in DOMAIN Children(v) |-> Descended(Children(v)[i], name)])

ApplySegment(segment, v) ==
    CASE segment.type = "property" -> Held(v, segment.name)
      [] segment.type = "index" ->
           IF v.is # "array" THEN <<>>
           ELSE LET at == CHOOSE i \in DOMAIN Digits : Digits[i] = segment.index
                IN  IF at \in DOMAIN v.items THEN <<v.items[at]>> ELSE <<>>
      [] segment.type = "wildcard" -> Children(v)
      [] segment.type = "descend" -> Descended(v, segment.name)

EvaluateJsonPath(path, v) ==
    FoldLeft(LAMBDA current, s : FlattenSeq([i \in DOMAIN current |-> ApplySegment(s, current[i])]),
             <<v>>, path)

(* Over every document of the page, in their order; None for no path.      *)
Resolved(documents, expression) ==
    LET path == ParseJsonPath(expression)
    IN  IF path = None THEN <<>>
        ELSE FlattenSeq([i \in DOMAIN documents |-> EvaluateJsonPath(path, documents[i].value)])

(* extractByJsonPath: the first resolved value that is a price.            *)
ExtractByJsonPath(documents, expression) ==
    LET priced == SelectSeq(Resolved(documents, expression), LAMBDA v : JsonValuePrice(v) # None)
    IN  IF priced = <<>> THEN None ELSE JsonValuePrice(priced[1])

-----------------------------------------------------------------------------
(* What names a path goes by, and the expressions it is offered as.        *)

StandalonePriceWords == {"price", "amount"}
StrongPriceWords == {"price"}
WordsOf(key) == {t \in ToSet(key) : IsWord(t)}

Keys(path) == {path[i].name : i \in {j \in DOMAIN path : path[j].type = "property"}}
LastKey(path) ==
    IF path # <<>> /\ Last(path).type = "property" THEN Last(path).name ELSE None

(* pathNaming *)
NamesLeaf(path) == LastKey(path) # None /\ WordsOf(LastKey(path)) \cap StandalonePriceWords # {}
PathNaming(path) ==
    [leaf |-> NamesLeaf(path),
     path |-> NamesLeaf(path) \/ \E k \in Keys(path) : WordsOf(k) \cap StrongPriceWords # {}]

IsJsonName(key) == key # <<>> /\ \A t \in ToSet(key) : IsWord(t)
Quotes(key) == "'" \in ToSet(key)

(* concretePath *)
ConcretePath(path) ==
    LET written(s) ==
          CASE s.type = "index" -> <<"[", s.index, "]">>
            [] s.type = "property" ->
                 IF IsJsonName(s.name) THEN <<".">> \o s.name
                 ELSE <<"[", "'">> \o s.name \o <<"'", "]">>
    IN  IF \E k \in Keys(path) : ~IsJsonName(k) /\ Quotes(k) THEN None
        ELSE <<"$">> \o FlattenSeq([i \in DOMAIN path |-> written(path[i])])

(* pathDrafts: the shorthand first, which only the leaf speaks for; a path *)
(* with an index is one of position.                                       *)
PathDrafts(path, source, naming) ==
    LET names == {WordsOf(source)} \cup {WordsOf(k) : k \in Keys(path)}
        indexed == \E i \in DOMAIN path : path[i].type = "index"
        draft(expression, tier, flags) ==
          [mode |-> "jsonpath", expression |-> expression, names |-> names, tier |-> tier, flags |-> flags]
        unnamed(is) == IF is THEN {} ELSE {"unnamed"}
        shorthand ==
          IF LastKey(path) # None /\ IsJsonName(LastKey(path))
          THEN <<draft(<<"$", ".", ".">> \o LastKey(path), 0, unnamed(naming.leaf))>> ELSE <<>>
    IN  shorthand \o
        (IF ConcretePath(path) = None THEN <<>>
         ELSE <<draft(ConcretePath(path), IF indexed THEN 2 ELSE 0,
                      unnamed(naming.path) \cup (IF indexed THEN {"positional"} ELSE {}))>>)

(* walkJsonValue: an offer that carries its currency is pointed at as a    *)
(* whole, before what is in it.                                            *)
RECURSIVE WalkJsonValue(_, _, _, _)
WalkJsonValue(v, path, source, expected) ==
    LET read == JsonValuePrice(v)
        matches == read # None /\ read.amount = expected
        segment(i) == IF v.is = "array" THEN Index(Digits[i]) ELSE Property(v.fields[i].key)
        below == FlattenSeq([i \in DOMAIN Children(v) |->
                   WalkJsonValue(Children(v)[i], Append(path, segment(i)), source, expected)])
    IN  CASE v.is = "array" -> below
          [] v.is = "object" ->
               (IF matches /\ read.currency # None
                THEN PathDrafts(path, source, [leaf |-> TRUE, path |-> TRUE]) ELSE <<>>) \o below
          [] OTHER -> IF matches THEN PathDrafts(path, source, PathNaming(path)) ELSE <<>>

WalkJson(documents, expected) ==
    FlattenSeq([i \in DOMAIN documents |->
        WalkJsonValue(documents[i].value, <<>>, documents[i].source, expected)])

(* validateJsonPath: one value on the whole page, and the expected one.    *)
ValidateInEachDocument(documents, expression, expected) ==
    \E i \in DOMAIN documents :
        LET resolved == Resolved(<<documents[i]>>, expression)
            read == IF Len(resolved) = 1 THEN JsonValuePrice(resolved[1]) ELSE None
        IN  read # None /\ read.amount = expected
ValidateJsonPath(documents, expression, expected) ==
    LET resolved == Resolved(documents, expression)
        read == IF Len(resolved) = 1 THEN JsonValuePrice(resolved[1]) ELSE None
    IN  read # None /\ read.amount = expected
=============================================================================
