--------------------------- MODULE SharedBrowser ---------------------------
(***************************************************************************)
(* What the renderer promises about its browsers, without promises,        *)
(* deadlines and queues: at most one browser is current, only a browser    *)
(* that is ready and current is lent to a render, one that is condemned    *)
(* never comes back, and after Shut there is no current one any more.      *)
(***************************************************************************)
CONSTANTS
    Renders,    \* render requests
    Browsers,   \* browser generations
    None

VARIABLES
    life,   \* browser -> "unborn", "coming", "ready", "condemned" or "gone"
    lent,   \* render -> the browser it was given, or None
    open    \* may browsers still be launched?

poolVars == <<life, lent, open>>

Stages == {"unborn", "coming", "ready", "condemned", "gone"}

PoolTypeOK ==
    /\ life \in [Browsers -> Stages]
    /\ lent \in [Renders -> Browsers \cup {None}]
    /\ open \in BOOLEAN

PoolInit ==
    /\ life = [b \in Browsers |-> "unborn"]
    /\ lent = [r \in Renders |-> None]
    /\ open = TRUE

Current == {b \in Browsers : life[b] \in {"coming", "ready"}}

Condemned(S) ==
    [b \in Browsers |-> IF b \in S \cap Current THEN "condemned" ELSE life[b]]

(* A new browser takes the place of the current one, if there is any.      *)
Launch(b) ==
    /\ open
    /\ life[b] = "unborn"
    /\ life' = [Condemned(Current) EXCEPT ![b] = "coming"]
    /\ UNCHANGED <<lent, open>>

BecomeReady(b) ==
    /\ life[b] = "coming"
    /\ life' = [life EXCEPT ![b] = "ready"]
    /\ UNCHANGED <<lent, open>>

Condemn(b) ==
    /\ b \in Current
    /\ life' = Condemned({b})
    /\ UNCHANGED <<lent, open>>

(* A launch that fails, or a condemned browser that is closed.             *)
Vanish(b) ==
    /\ life[b] \in {"coming", "condemned"}
    /\ life' = [life EXCEPT ![b] = "gone"]
    /\ UNCHANGED <<lent, open>>

Lend(r, b) ==
    /\ lent[r] = None
    /\ life[b] = "ready"
    /\ lent' = [lent EXCEPT ![r] = b]
    /\ UNCHANGED <<life, open>>

(* A render that had trouble with its browser condemns it as it returns it. *)
Return(r) ==
    /\ lent[r] # None
    /\ lent' = [lent EXCEPT ![r] = None]
    /\ life' \in {life, Condemned({lent[r]})}
    /\ UNCHANGED open

Shut ==
    /\ open
    /\ open' = FALSE
    /\ life' = Condemned(Current)
    /\ UNCHANGED lent

PoolNext ==
    \/ \E b \in Browsers : Launch(b) \/ BecomeReady(b) \/ Condemn(b) \/ Vanish(b)
    \/ \E r \in Renders, b \in Browsers : Lend(r, b)
    \/ \E r \in Renders : Return(r)
    \/ Shut

PoolSpec == PoolInit /\ [][PoolNext]_poolVars
=============================================================================
