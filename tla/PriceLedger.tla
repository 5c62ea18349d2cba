---------------------------- MODULE PriceLedger ----------------------------
(***************************************************************************)
(* What the check pipeline promises about one tracked store page, with the *)
(* queue, the worker and the API requests taken away: a listing is         *)
(* configured, an observation of its page is recorded in ONE step, and a   *)
(* cache validator is only ever kept for a page whose price was recorded   *)
(* under the configuration the listing still has.                          *)
(*                                                                         *)
(* CheckPipeline spreads an observation over a job, a snapshot, a fetch    *)
(* and a transaction, with edits and crashes in between, and implements    *)
(* this module.                                                            *)
(***************************************************************************)
CONSTANTS
    Listings,   \* tracked store pages
    Settings,   \* extractor / expression / locale / render, as one value
    Pages,      \* versions of a page's body
    Readable,   \* <<s, p>>: settings s read an unambiguous price off page p
    None

VARIABLES
    config,     \* listing -> its extraction settings, None while not tracked
    validator,  \* listing -> the page its cache validator names, or None
    observed    \* listing -> the page of its newest price point, or None

ledgerVars == <<config, validator, observed>>

LedgerTypeOK ==
    /\ config \in [Listings -> Settings \cup {None}]
    /\ validator \in [Listings -> Pages \cup {None}]
    /\ observed \in [Listings -> Pages \cup {None}]

LedgerInit ==
    /\ config = [l \in Listings |-> None]
    /\ validator = [l \in Listings |-> None]
    /\ observed = [l \in Listings |-> None]

(* Tracking starts with no validator and no price.                         *)
Track(l, s) ==
    /\ config[l] = None
    /\ config' = [config EXCEPT ![l] = s]
    /\ validator' = [validator EXCEPT ![l] = None]
    /\ observed' = [observed EXCEPT ![l] = None]

(* New settings cost the listing its validator, its history stays.         *)
Reconfigure(l, s) ==
    /\ config[l] # None
    /\ config' = [config EXCEPT ![l] = s]
    /\ validator' = [validator EXCEPT ![l] = None]
    /\ UNCHANGED observed

(* A price is read off page p and recorded, with p's validator if it has   *)
(* one.                                                                    *)
Observe(l, p) ==
    /\ config[l] # None
    /\ <<config[l], p>> \in Readable
    /\ observed' = [observed EXCEPT ![l] = p]
    /\ validator' \in {validator, [validator EXCEPT ![l] = p]}
    /\ UNCHANGED config

(* Deleting some listings takes their validators and prices with them.     *)
Untrack(S) ==
    /\ config' = [l \in Listings |-> IF l \in S THEN None ELSE config[l]]
    /\ validator' = [l \in Listings |-> IF l \in S THEN None ELSE validator[l]]
    /\ observed' = [l \in Listings |-> IF l \in S THEN None ELSE observed[l]]

LedgerNext ==
    \/ \E l \in Listings, s \in Settings : Track(l, s) \/ Reconfigure(l, s)
    \/ \E l \in Listings, p \in Pages : Observe(l, p)
    \/ \E S \in SUBSET Listings : Untrack(S)

LedgerSpec == LedgerInit /\ [][LedgerNext]_ledgerVars
=============================================================================
