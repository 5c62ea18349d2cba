-------------------------- MODULE MCCheckPipeline --------------------------
(***************************************************************************)
(* Small instances of CheckPipeline for TLC.                               *)
(***************************************************************************)
EXTENDS CheckPipeline

CONSTANTS p1, sAuto, sPinned, sBrowser, gA, gB, GBP, EUR

OneProduct == [l \in Listings |-> p1]

(* Both settings read page A; only the pinned one reads page B.            *)
ReadableMC == (Settings \X {gA}) \cup ((Settings \cap {sPinned, sBrowser}) \X Pages)

(* No settings read a price off any page: every check fails to extract.     *)
NothingReadable == {}

StatedGBP == [g \in Pages |-> GBP]
NoneStated == [g \in Pages |-> None]
=============================================================================
