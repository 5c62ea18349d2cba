----------------------------- MODULE MCAlerting -----------------------------
(***************************************************************************)
(* Small instances of Alerting for TLC.  Prices are minor units.           *)
(***************************************************************************)
EXTENDS Alerting

CONSTANT GBP

Point(p, s, c) == [price |-> p, inStock |-> s, currency |-> c]

(* From the first to the second, every rule holds at once.                 *)
Reaching == {Point(10, "no", GBP), Point(8, "yes", GBP)}

(* One rule that can find a new low, or two that hold at once.             *)
Lows == [rules |-> {"target"}, target |-> 10, drop |-> None]
Edges == [rules |-> {"drop_percent", "restock"}, target |-> None, drop |-> 20]
LowsOrEdges == {Lows, Edges}

(* The instance's administrator, with a verified address.                  *)
Account(r, e, v) == [role |-> r, emailAlertsEnabled |-> e, emailVerified |-> v]
Admin == {Account("admin", FALSE, TRUE)}

(* The master switch, and Home Assistant taken out.                        *)
Switched(b) == [EmptyPatch EXCEPT !.alertsEnabled = b]
Unhooked == [EmptyPatch EXCEPT !.cleared = {"haUrl"}]
Silencing == {Switched(FALSE), Switched(TRUE), Unhooked}
=============================================================================
