---------------------------- MODULE MCExtraction ----------------------------
(***************************************************************************)
(* The questions put to Extraction by TLC.                                 *)
(***************************************************************************)
EXTENDS Extraction

-----------------------------------------------------------------------------
(* Texts: amounts written in the conventions of four locales, and numbers. *)

Conventions == {[decimal |-> Texts!Dot, group |-> Texts!Comma], [decimal |-> Texts!Comma, group |-> Texts!Dot],
                [decimal |-> Texts!Comma, group |-> Texts!Gap], [decimal |-> Texts!Dot, group |-> Texts!Gap]}
Wholes == {[value |-> 0, groups |-> <<<<0>>>>], [value |-> 999, groups |-> <<<<9, 9, 9>>>>],
           [value |-> 1050, groups |-> <<<<1>>, <<0, 5, 0>>>>],
           [value |-> 1234567, groups |-> <<<<1>>, <<2, 3, 4>>, <<5, 6, 7>>>>]}
Fractions == {<<>>, <<5>>, <<9, 9>>, <<0, 0, 5>>}

Joined(groups, separator) ==
    FoldLeft(LAMBDA text, g : IF text = <<>> THEN g ELSE text \o separator \o g, <<>>, groups)
Written(whole, fraction, convention, grouped) ==
    Joined(whole.groups, IF grouped THEN <<convention.group>> ELSE <<>>)
    \o (IF fraction = <<>> THEN <<>> ELSE <<convention.decimal>> \o fraction)

Named == {[marks |-> {}, hint |-> None, currency |-> None], [marks |-> {"R$"}, hint |-> None, currency |-> "BRL"],
          [marks |-> {"euro", "GBP"}, hint |-> None, currency |-> "GBP"],
          [marks |-> {"pound", "ADD"}, hint |-> None, currency |-> "GBP"],
          [marks |-> {"pound"}, hint |-> "EUR", currency |-> "EUR"],
          [marks |-> {"$"}, hint |-> "kr", currency |-> "USD"]}

PriceTextsMC ==
    {LET hinted == n.currency = n.hint
         spaced == c.group = Texts!Gap \/ ~grouped \/ Len(w.groups) = 1
     IN  [text |-> [kind |-> "text", numeral |-> Written(w, f, c, grouped), marks |-> n.marks],
          hint |-> n.hint, locale |-> IF known THEN c ELSE None,
          groupsAlone |-> Len(f) = 3 /\ spaced,
          whole |-> w.value, fraction |-> f, currency |-> n.currency] :
        w \in Wholes, f \in Fractions, c \in Conventions, n \in Named, grouped, known \in BOOLEAN}
    \cup
    {[text |-> [kind |-> "number",
                numeral |-> Written(w, f, [decimal |-> Texts!Dot, group |-> Texts!Gap], FALSE), marks |-> {}],
      hint |-> None, locale |-> c, groupsAlone |-> FALSE,
      whole |-> w.value, fraction |-> f, currency |-> None] :
        w \in Wholes, f \in Fractions, c \in Conventions \cup {None}}

-----------------------------------------------------------------------------
(* Storefronts: a shop sells one product in three variants, of prices 1 to *)
(* 3, the first being the default.  A page lists the variant it shows,     *)
(* alone or with another, or else the default one whatever its query, and  *)
(* says nothing of them that is not so; where it gives the address of the  *)
(* product it does for all.  A storefront is named by what it chooses.     *)

Value == <<[color |-> "red", size |-> "s"], [color |-> "blue", size |-> "s"], [color |-> "red", size |-> "m"]>>
Sku == <<"k1", "k2", "k3">>

Url(query) == [path |-> "/p", query |-> query]
Red == <<"color", "red">>
Mail == <<"utm_source", "mail">>
UrlsOf == <<<<None, Url({}), Url({Red})>>, <<None, Url({<<"color", "blue">>})>>,
            <<None, Url({Red, <<"size", "m">>}), Url({<<"v", "3">>})>>>>
AddressesOf == <<UrlsOf[1] \o <<Url({Mail})>>, UrlsOf[2] \o <<Url({<<"color", "blue">>, Mail})>>,
                 UrlsOf[3] \o <<Url({Red, <<"v", "3">>})>>>>
Stated == <<{}, {"color"}, {"color", "size"}>>
Marked == <<[skus |-> FALSE, selected |-> FALSE], [skus |-> TRUE, selected |-> FALSE],
            [skus |-> TRUE, selected |-> TRUE]>>

Canonical == 4
Offer(v) == [price |-> v, sku |-> None, url |-> None, range |-> FALSE]
Listing(v, skus, url, stated) ==
    [type |-> "product", id |-> Sku[v], sku |-> IF skus THEN Sku[v] ELSE None,
     url |-> IF url = Canonical THEN Url({}) ELSE UrlsOf[v][url],
     values |-> [p \in Ld!Properties |-> IF p \in Stated[stated] THEN {Value[v][p]} ELSE {}],
     variants |-> {}, variantOf |-> None, variesBy |-> {}, offers |-> <<Offer(v)>>]
Group(variesBy) ==
    [type |-> "productgroup", id |-> "g", sku |-> None, url |-> None, values |-> [p \in Ld!Properties |-> {}],
     variants |-> ToSet(Sku), variantOf |-> None, variesBy |-> variesBy, offers |-> <<>>]
FromPrice == [Group({}) EXCEPT !.type = "product", !.variants = {}, !.offers = <<[Offer(1) EXCEPT !.range = TRUE]>>]
Groups == <<<<>>, <<Group({})>>, <<Group({"color", "size"})>>>>

Alone == [shown : 1..3, listed : 1..3, url : 1..4, stated : 1..3, other : {0}, otherUrl : {1},
          otherStated : {1}, first : {TRUE}, address : 1..4, group : 1..3, marked : 1..3]
Paired == [shown : 1..3, listed : 1..3, url : 1..4, stated : 1..3, other : 1..3, otherUrl : 1..4,
           otherStated : 1..3, first : BOOLEAN, address : 1..4, group : 1..3, marked : 1..3]
InShop(c) ==
    /\ c.url = Canonical \/ c.url \in DOMAIN UrlsOf[c.listed]
    /\ c.address \in DOMAIN AddressesOf[c.shown]
    /\ c.listed = c.shown \/ (c.other = 0 /\ c.listed = 1)
    /\ c.other # c.listed
    /\ c.other # 0 => /\ (c.url = Canonical) = (c.otherUrl = Canonical)
                      /\ c.otherUrl = Canonical \/ c.otherUrl \in DOMAIN UrlsOf[c.other]

ScopesOf == <<<<>>, <<[isProduct |-> TRUE, prices |-> <<1>>]>>, <<[isProduct |-> FALSE, prices |-> <<2>>]>>,
              <<[isProduct |-> TRUE, prices |-> <<2, 1>>]>>, <<[isProduct |-> TRUE, prices |-> <<None, 1>>]>>,
              <<[isProduct |-> TRUE, prices |-> <<2>>], [isProduct |-> TRUE, prices |-> <<1>>]>>>>
Unlisted == [shown : {0}, address : 1..3, scopes : 1..6, range : BOOLEAN, loose : BOOLEAN, meta : BOOLEAN]

StorefrontsMC == {c \in Paired : InShop(c)} \cup {c \in Alone : InShop(c)} \cup Unlisted

Bare == [ld |-> [url |-> None, nodes |-> <<>>, selected |-> {}], scopes |-> <<>>, loose |-> <<>>, meta |-> None,
         scripts |-> <<>>, dom |-> [parent |-> <<>>]]

StorefrontMC(c) ==
    IF c.shown = 0
    THEN [shown |-> 1,
          page |-> [Bare EXCEPT !.ld.url = <<None, Url({}), Url({<<"v", "1">>})>>[c.address],
                                !.ld.nodes = IF c.range THEN <<FromPrice>> ELSE <<>>,
                                !.scopes = ScopesOf[c.scopes], !.loose = IF c.loose THEN <<1>> ELSE <<>>,
                                !.meta = IF c.meta THEN 1 ELSE None]]
    ELSE LET marked == Marked[c.marked]
             own == <<Listing(c.listed, marked.skus, c.url, c.stated)>>
             others == IF c.other = 0 THEN <<>> ELSE <<Listing(c.other, marked.skus, c.otherUrl, c.otherStated)>>
         IN  [shown |-> c.shown,
              page |-> [Bare EXCEPT !.ld = [url |-> AddressesOf[c.shown][c.address],
                          nodes |-> Groups[c.group] \o (IF c.first THEN own \o others ELSE others \o own),
                          selected |-> IF marked.selected THEN {Sku[c.shown]} ELSE {}]]]

-----------------------------------------------------------------------------
(* Layouts: a price of 5 in up to three elements and three scripts,         *)
(* of which the page's limit admits two.                                   *)

Price(currency) == [amount |-> 5, currency |-> currency]
Other == [amount |-> 7, currency |-> None]
Held(name, currency) == [name |-> name, amount |-> 5, currency |-> currency]
Plain == [tag |-> -3, names |-> {}, own |-> <<>>, prose |-> FALSE, attribute |-> None, words |-> {}, keyed |-> {}]

Leaves == <<
    Plain,
    [Plain EXCEPT !.own = <<Price(None)>>, !.names = {1}],
    [Plain EXCEPT !.own = <<Price("GBP")>>, !.names = {1}, !.words = {{"price"}}],
    [Plain EXCEPT !.own = <<Price("GBP")>>, !.names = {2}, !.words = {{"was", "price"}}],
    [Plain EXCEPT !.own = <<Price("GBP"), Other>>, !.names = {3}],
    [Plain EXCEPT !.own = <<Price("GBP")>>, !.tag = -2],
    [Plain EXCEPT !.own = <<Price("GBP")>>, !.names = {2}, !.prose = TRUE],
    [Plain EXCEPT !.attribute = Held("data-price", None), !.names = {1}],
    [Plain EXCEPT !.attribute = Held("value", "GBP"), !.names = {2}, !.words = {{"price"}}],
    [Plain EXCEPT !.attribute = Held("content", None), !.own = <<Price(None)>>, !.names = {3}, !.words = {{"price"}}]>>
Bodies == <<[Plain EXCEPT !.own = <<Price("GBP")>>, !.words = {{"also"}, {"bought"}}, !.names = {4}],
            [Plain EXCEPT !.names = {4}]>>

DomOf(parent, elements) ==
    [parent |-> parent] @@ [f \in DOMAIN Plain |-> [e \in DOMAIN elements |-> elements[e][f]]]

Field(key, v) == Json!Object(<<Json!Field(key, v)>>)
Five == Json!Number(5)
Seven == Json!Number(7)
Priced == Field(<<"price">>, Five)
OfferValue == Json!Object(<<Json!Field(<<"price">>, Five), Json!Field(<<"price", "Currency">>, Json!Text(None, "GBP"))>>)
Script(type, literals) == <<[type |-> type, source |-> <<type>>, literals |-> literals]>>
Data(v) == Script("json", <<v>>)
ScriptsOf == <<
    <<>>, Data(Priced), Data(Field(<<"offers">>, Json!Array(<<OfferValue, Field(<<"price">>, Seven)>>))),
    Script("code", <<None, Field(<<"list", "]", "price">>, Five)>>), Script("body", <<Field(<<"stock">>, Five)>>),
    Data(Field(<<"price", "'", "s">>, Five)),
    Script("ld+json", <<Field(<<"was", "Price">>, Field(<<"value">>, Json!Text(5, "GBP")))>>) \o Script("template", <<Priced>>),
    Script("code", <<Priced>>) \o Data(Priced), Data(Priced) \o Data(Field(<<"price">>, Seven)) \o Script("code", <<Priced>>)>>

Nestings == [parent : {<<0, 1, 1>>, <<0, 1, 2>>}, body : DOMAIN Bodies, x : DOMAIN Leaves, y : DOMAIN Leaves,
             scripts : DOMAIN ScriptsOf, onFile : BOOLEAN]
LayoutsMC == {c \in Nestings : c.parent = <<0, 1, 1>> => c.x <= c.y}

LayoutMC(c) ==
    [page |-> [Bare EXCEPT !.dom = DomOf(c.parent, <<Bodies[c.body], Leaves[c.x], Leaves[c.y]>>),
                           !.scripts = ScriptsOf[c.scripts]],
     expected |-> 5, onFile |-> c.onFile, quotable |-> c.scripts # 6]

-----------------------------------------------------------------------------
(* Queues of up to eight drafts, for a budget of five.                     *)

ModeQueuesMC == UNION {[1..n -> ExpressionModes] : n \in 0..8}
=============================================================================
