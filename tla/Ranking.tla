------------------------------ MODULE Ranking -------------------------------
(***************************************************************************)
(* packages/core/src/extract/suggest.ts: how a draft expression is scored, *)
(* and which drafts are run against the page.                              *)
(***************************************************************************)
EXTENDS Integers, Sequences, FiniteSets

CONSTANTS
    MaxValidations,        \* MAX_VALIDATIONS
    ReservedValidations    \* RESERVED_VALIDATIONS

ASSUME BudgetAssumption ==
    /\ MaxValidations \in Nat /\ ReservedValidations \in Nat \ {0}
    /\ 2 * ReservedValidations <= MaxValidations

-----------------------------------------------------------------------------
(* What names say.  A name is the set of its words.                        *)

StalePriceSignal == [words |-> {"was"}, weak |-> {"old"}, corroborators |-> {"price"},
                     acrossNames |-> FALSE]
OtherProductSignal == [words |-> {"related"}, weak |-> {"also"}, corroborators |-> {"bought"},
                       acrossNames |-> TRUE]

NamesCarry(names, signal) ==
    \E name \in names :
        \/ name \cap signal.words # {}
        \/ /\ name \cap signal.weak # {}
           /\ (IF signal.acrossNames THEN UNION names ELSE name) \cap signal.corroborators # {}

-----------------------------------------------------------------------------
(* The score of a draft: lower is better.                                  *)

ExpressionModes == {"jsonpath", "selector"}

(* The bands: what reads a number that is not the price, or will not be;   *)
(* what reads no currency where none is on file; how well it lasts.        *)
Penalty ==
    [unnamed |-> 10600, stale |-> 10600, other |-> 10500, struck |-> 10400,
     prose |-> 10300, positional |-> 10100, weak |-> 500, wrapper |-> 400]
Flags == DOMAIN Penalty
Risks == Flags \ {"weak", "wrapper"}

(* draft.tens is the length of its expression over LENGTH_DIVISOR, and     *)
(* draft.charged the flags that hold of it.                                *)
DraftScore(draft) ==
    LET charge(f) == IF f \in draft.charged THEN Penalty[f] ELSE 0
    IN  1000 * draft.tier + draft.tens
          + charge("unnamed") + charge("other") + charge("positional") + charge("prose")
          + charge("struck") + charge("stale") + charge("weak") + charge("wrapper")

CurrencyPenaltyInOneBand(readsCurrency, onFile) ==
    IF readsCurrency THEN 0 ELSE IF onFile THEN 600 ELSE 2400
CurrencyPenalty(readsCurrency, onFile) ==
    IF readsCurrency THEN 0 ELSE IF onFile THEN 600 ELSE 5000

Total(draft, readsCurrency, onFile) == DraftScore(draft) + CurrencyPenalty(readsCurrency, onFile)

(* The band a candidate is in: 2 if it reads a number that is not the      *)
(* price, or will not be; else 1 if it cannot run before a currency is set. *)
Band(candidate, readsCurrency, onFile) ==
    IF candidate.charged \cap Risks # {} THEN 2
    ELSE IF ~readsCurrency /\ ~onFile THEN 1 ELSE 0

(* Array.sort, which is stable.                                            *)
SortedBy(list, Key(_)) ==
    LET before(i) == {j \in DOMAIN list : Key(list[j]) < Key(list[i])
                                            \/ (Key(list[j]) = Key(list[i]) /\ j < i)}
    IN  [n \in DOMAIN list |-> list[CHOOSE i \in DOMAIN list : Cardinality(before(i)) = n - 1]]

-----------------------------------------------------------------------------
(* budgeted: which of the sorted drafts are run against the page.          *)

OtherMode(mode) == IF mode = "jsonpath" THEN "selector" ELSE "jsonpath"
Smaller(a, b) == IF a < b THEN a ELSE b

(* The drafts are their modes, best first; what is taken are positions.    *)
Spent(drafts, taken, mode) == Cardinality({j \in taken : drafts[j] = mode})
Unseen(drafts, i, mode) == Cardinality({j \in DOMAIN drafts : j > i /\ drafts[j] = mode})

HeldForOtherNever(unseen) == 0
HeldForOther(unseen) == Smaller(unseen, ReservedValidations)

HasRoom(drafts, taken, i) ==
    LET held == HeldForOther(Unseen(drafts, i, OtherMode(drafts[i])))
    IN  /\ Cardinality(taken) < MaxValidations
        /\ Spent(drafts, taken, drafts[i]) < MaxValidations - held

(* What is taken of the first i drafts.                                    *)
TakenOf(drafts) ==
    LET taken[i \in 0..Len(drafts)] ==
          IF i = 0 THEN {}
          ELSE LET sofar == taken[i - 1]
               IN  IF HasRoom(drafts, sofar, i) THEN sofar \cup {i} ELSE sofar
    IN  taken
Budgeted(drafts) == TakenOf(drafts)[Len(drafts)]
=============================================================================
