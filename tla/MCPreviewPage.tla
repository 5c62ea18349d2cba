--------------------------- MODULE MCPreviewPage ----------------------------
(* PreviewPage with every combination of one price or another, two         *)
(* confidences, and optional fields present or absent.                     *)
EXTENDS PreviewPage, TLC

MCExtractions == [confidence : {"high", "low"}, price : {1, 2}, currency : {None, "EUR", "USD"},
                  availability : {None, "in"}, inStock : {None, TRUE}]
Symmetry == Permutations(Ids)
=============================================================================
