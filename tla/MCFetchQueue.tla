---------------------------- MODULE MCFetchQueue ----------------------------
(* FetchQueue with two hosts and a URL that will not parse.                 *)
EXTENDS FetchQueue

MCHostOf == [u \in Urls |-> IF u = "bad" THEN None ELSE u]
=============================================================================
