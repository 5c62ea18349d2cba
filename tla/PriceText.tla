----------------------------- MODULE PriceText ------------------------------
(***************************************************************************)
(* packages/core/src/extract/price.ts and availability.ts: how a text of a *)
(* page becomes a decimal amount with a currency, and a token becomes a    *)
(* stock state.                                                            *)
(*                                                                         *)
(* A numeral is a sequence of digits 0..9 and of the separators below,     *)
(* because which separator counts is what the module decides.  The rest of *)
(* a text is only the marks that may name a currency.  Every exotic space  *)
(* is Gap, and every apostrophe, as the code treats both alike.            *)
(***************************************************************************)
EXTENDS Integers, Sequences, SequencesExt, FiniteSets

CONSTANT None     \* what undefined and null are in the code

Dot == 10
Comma == 11
Gap == 12
Minus == 13

IsDigit(c) == c \in 0..9

-----------------------------------------------------------------------------
(* Amounts *)

(* LocaleSeparators: what Intl writes a number with.                       *)
Separators == [decimal : {Dot, Comma}, group : {Dot, Comma, Gap}]

Places(numeral, c) == {i \in DOMAIN numeral : numeral[i] = c}
LastOf(S) == CHOOSE i \in S : \A j \in S : j <= i
FirstOf(S) == CHOOSE i \in S : \A j \in S : i <= j
DigitsOf(numeral) == SelectSeq(numeral, IsDigit)
From(numeral, i) == SubSeq(numeral, i + 1, Len(numeral))

LeftmostSeparator(numeral, locale) ==
    LET dots == Places(numeral, Dot)
        commas == Places(numeral, Comma)
    IN  IF dots # {} /\ commas # {}
        THEN IF FirstOf(dots) < FirstOf(commas) THEN Dot ELSE Comma
        ELSE IF Cardinality(dots \cup commas) # 1 THEN None
        ELSE IF dots # {} THEN Dot ELSE Comma

(* The separator that is the decimal point, or None when every separator   *)
(* groups.  A lone one is taken for what the locale says it is; without a  *)
(* locale it groups when exactly three digits follow.                      *)
ResolveDecimalSeparator(numeral, locale) ==
    LET dots == Places(numeral, Dot)
        commas == Places(numeral, Comma)
        lone == IF dots # {} THEN Dot ELSE Comma
    IN  IF dots # {} /\ commas # {}
        THEN IF LastOf(dots) > LastOf(commas) THEN Dot ELSE Comma
        ELSE IF Cardinality(dots \cup commas) # 1 THEN None
        ELSE IF locale # None
        THEN IF lone = locale.decimal THEN lone ELSE None
        ELSE IF Len(DigitsOf(From(numeral, FirstOf(dots \cup commas)))) = 3 THEN None ELSE lone

Natural(digits) == FoldLeft(LAMBDA sum, d : 10 * sum + d, 0, digits)

(* toDecimalString: leading zeros go, those of the fraction stay.          *)
ToDecimal(numeral, separator) ==
    LET at == IF separator = None THEN Len(numeral) + 1 ELSE LastOf(Places(numeral, separator))
    IN  [negative |-> numeral[1] = Minus,
         whole |-> Natural(DigitsOf(SubSeq(numeral, 1, at - 1))),
         fraction |-> IF separator = None THEN <<>> ELSE DigitsOf(From(numeral, at))]

-----------------------------------------------------------------------------
(* Currencies *)

Codes == {"GBP", "EUR", "USD", "BRL"}     \* of KNOWN_CURRENCY_CODES
Symbols == <<"R$", "pound", "euro", "$">> \* of CURRENCY_SYMBOLS, in its order
CodeOf == [s \in ToSet(Symbols) |->
             CASE s = "R$" -> "BRL" [] s = "pound" -> "GBP" [] s = "euro" -> "EUR" [] s = "$" -> "USD"]
Words == {"ADD", "kr"}                    \* letters that name no currency
Marks == Codes \cup ToSet(Symbols) \cup Words

(* includes(): a text with "R$" in it also has "$" in it.                  *)
Contained(marks) == marks \cup (IF "R$" \in marks THEN {"$"} ELSE {})

FirstSymbol(marks) ==
    LET found == SelectSeq(Symbols, LAMBDA s : s \in Contained(marks))
    IN  IF found = <<>> THEN None ELSE CodeOf[found[1]]

(* detectCurrency: a known code first, whatever symbol is beside it.       *)
DetectCurrency(marks) ==
    IF marks \cap Codes # {} THEN CHOOSE c \in Codes : c \in marks ELSE FirstSymbol(marks)

(* normalizeCurrency: any three letters are taken for a code.              *)
NormalizeCurrency(hint) ==
    IF hint = None THEN None
    ELSE IF hint \in Codes \cup {"ADD"} THEN hint ELSE FirstSymbol({hint})

-----------------------------------------------------------------------------
(* parsePrice.  A JSON number is its own decimal string, so no separator   *)
(* is looked for in it, and it names no currency.  Numbers that JavaScript *)
(* writes with an exponent are left out.                                   *)

Amount == [negative : BOOLEAN, whole : Nat, fraction : Seq(0..9)]

ParsePrice(text, hint, locale) ==
    IF text.kind = "number"
    THEN [amount |-> ToDecimal(text.numeral, IF Places(text.numeral, Dot) = {} THEN None ELSE Dot),
          currency |-> NormalizeCurrency(hint)]
    ELSE IF DigitsOf(text.numeral) = <<>>
    THEN None
    ELSE [amount |-> ToDecimal(text.numeral, ResolveDecimalSeparator(text.numeral, locale)),
          currency |-> IF NormalizeCurrency(hint) # None
                       THEN NormalizeCurrency(hint) ELSE DetectCurrency(text.marks)]

-----------------------------------------------------------------------------
(* parseAvailability, and availabilityState, which shows it.  Tokens are   *)
(* what is left of a schema.org address, case and separators folded.       *)

InStockTokens == {"instock", "limitedavailability", "onlineonly"}
OutOfStockTokens == {"outofstock", "soldout", "preorder", "backorder", "discontinued"}
Tokens == InStockTokens \cup OutOfStockTokens \cup {"madetoorder"}

InStock(token) ==
    CASE token \in InStockTokens -> "yes"
      [] token \in OutOfStockTokens -> "no"
      [] OTHER -> None

StateTokens == [t \in {"backorder", "discontinued", "limitedavailability", "preorder"} |->
    CASE t = "backorder" -> "back_order" [] t = "discontinued" -> "discontinued"
      [] t = "limitedavailability" -> "limited" [] t = "preorder" -> "pre_order"]

AvailabilityState(token, inStock) ==
    IF token \in DOMAIN StateTokens THEN StateTokens[token]
    ELSE CASE inStock = "yes" -> "in_stock"
           [] inStock = "no" -> "out_of_stock"
           [] OTHER -> "unknown"
=============================================================================
