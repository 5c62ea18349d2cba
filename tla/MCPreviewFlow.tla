---------------------------- MODULE MCPreviewFlow ---------------------------
(* PreviewFlow with two pages and two locales.  The offer page has one      *)
(* price the chain reads and another beside it; on the bundle page the      *)
(* chain cannot tell two prices apart, and the other locale reads the       *)
(* structured one as another figure.                                        *)
EXTENDS PreviewFlow

MCModeOf(e) == IF e = "css" THEN "selector" ELSE "jsonpath"
MCAutomatic(b, l) ==
    CASE b = "offer" -> [price |-> 1, ambiguous |-> FALSE]
      [] b = "bundle" -> [price |-> 2, ambiguous |-> TRUE]
MCReads(b, l, e) ==
    CASE b = "offer" -> IF e = "css" THEN 2 ELSE 1
      [] b = "bundle" /\ e = "css" -> 1
      [] b = "bundle" /\ e = "path" -> IF l = "en" THEN 2 ELSE None
=============================================================================
