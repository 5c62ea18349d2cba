----------------------------- MODULE AlertRules -----------------------------
(***************************************************************************)
(* The pure half of alerting: which rules hold for an observation, which   *)
(* of them are news, when a listing is broken, and which of a product's    *)
(* listings is the cheapest (packages/core/src/rules and decimal).  Prices *)
(* are minor units.  A row or value the code has as null is None.          *)
(***************************************************************************)
EXTENDS Integers, Sequences, FiniteSets

CONSTANT None

(* ALERT_RULES                                                             *)
Rules == {"target", "drop_percent", "restock"}

(* The rules in S, in the order alerts are sent.                           *)
InRuleOrder(S) ==
    LET Kept(r) == IF r \in S THEN <<r>> ELSE <<>>
    IN  Kept("target") \o Kept("drop_percent") \o Kept("restock")

TargetMet(c, cheapest) ==
    /\ c.target # None
    /\ cheapest # None
    /\ cheapest.price <= c.target

(* (previous - latest) * 100 >= dropPercent * previous, in minor units.    *)
DropMet(c, latest, previous) ==
    /\ c.drop # None
    /\ previous # None
    /\ previous.price > 0
    /\ (previous.price - latest.price) * 100 >= c.drop * previous.price

(* Edge-triggered: a page that says nothing about stock was not "out".     *)
RestockMet(latest, previous) ==
    /\ previous # None
    /\ previous.inStock = "no"
    /\ latest.inStock = "yes"

RuleMet(r, c, latest, previous, cheapest) ==
    \/ r = "target" /\ TargetMet(c, cheapest)
    \/ r = "drop_percent" /\ DropMet(c, latest, previous)
    \/ r = "restock" /\ RestockMet(latest, previous)

(* The observation a trigger is about.                                     *)
Subject(r, latest, cheapest) == IF r = "target" THEN cheapest ELSE latest

(* conditionsMet: the enabled rules that hold.                             *)
ConditionsMet(c, latest, previous, cheapest) ==
    {r \in c.rules : RuleMet(r, c, latest, previous, cheapest)}

(* MUTANT of ShouldFire: the same price is news again.                     *)
ShouldFireAgain(price, m) ==
    \/ m = None
    \/ price <= m.price
    \/ ~m.cooling

(* The dedupe gate: never alerted, a new low, or the cooldown has run out. *)
ShouldFire(price, m) ==
    \/ m = None
    \/ price < m.price
    \/ ~m.cooling

(* evaluateAlerts: what is worth an alert, in rule order.                  *)
Triggers(c, latest, previous, cheapest, memory) ==
    LET Price(r) == Subject(r, latest, cheapest).price
        news == InRuleOrder({r \in ConditionsMet(c, latest, previous, cheapest) :
                                ShouldFire(Price(r), memory[r])})
    IN  [i \in DOMAIN news |-> [rule |-> news[i], price |-> Price(news[i])]]

(* How many of the newest runs, newest first, are failures.                *)
LeadingFailures(runs) ==
    Cardinality({i \in DOMAIN runs : \A j \in 1..i : runs[j] # "ok"})

(* MUTANT of ShouldReportBroken: one failure too many is waited for.       *)
ShouldReportBrokenLate(failures, reported, threshold) ==
    ~reported /\ failures > threshold

(* MUTANT of ShouldReportBroken: the flag is not looked at.                 *)
ShouldReportBrokenAgain(failures, reported, threshold) ==
    failures >= threshold

(* A full streak that has not been reported yet.                           *)
ShouldReportBroken(failures, reported, threshold) ==
    ~reported /\ failures >= threshold

(* A row of the least price, or None.                                      *)
CheapestRow(rows) ==
    IF rows = {} THEN None
    ELSE CHOOSE r \in rows : \A s \in rows : r.price <= s.price
=============================================================================
