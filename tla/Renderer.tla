------------------------------ MODULE Renderer ------------------------------
(***************************************************************************)
(* The renderer sidecar: its bounded queue of renders, the steps of one    *)
(* render (apps/renderer/src/index.ts, render.ts), the manager of the      *)
(* browser they share (browser-generation.ts), and the shutdown.           *)
(*                                                                         *)
(* Every wait in this process has a deadline, and a promise that loses     *)
(* against its deadline still settles later, unseen or not; so an await is *)
(* two steps here, and what settles is a step of its own.  Generations are *)
(* named after the render whose acquire() started them: it starts at most  *)
(* one.  Queue slots, connections and the socket proxy are not kept apart  *)
(* from the render that holds them.                                        *)
(***************************************************************************)
EXTENDS Naturals, Sequences, FiniteSets

CONSTANTS
    MaxRenders,   \* bound: render requests, one POST each
    Concurrency,  \* RENDER_CONCURRENCY
    QueueLimit    \* concurrency * QUEUE_LIMIT_MULTIPLIER

ASSUME RendererAssumption ==
    /\ MaxRenders \in Nat
    /\ Concurrency \in Nat \ {0}
    /\ QueueLimit \in Nat \ {0}

(* The requests, numbered as they come in.                                 *)
Renders == 1..MaxRenders
None == 0

VARIABLES
    pc,           \* where each request stands
    waiting,      \* p-queue: the requests that have not started, in order
    answer,       \* what a request is answered with, or none
    held,         \* the generation a render awaits or uses, or None
    launch,       \* generation.launch: none, pending, ok or failed
    process,      \* the generation's Chromium: none, up or gone
    retired,      \* the generations with retired set
    closing,      \* generation.closePromise: none, graceful, forced or done
    generations,  \* the manager's set of generations
    active,       \* the manager's active generation, or None
    closed,       \* the manager's shutdown signal
    phase,        \* the service: serving, draining, launches, closes, exited
    awaited,      \* the generations close() still waits for
    late          \* did the shutdown run into its absolute deadline?

requestVars == <<pc, waiting, answer, held>>
browserVars == <<launch, process>>
managerVars == <<retired, closing, generations, active, closed>>
serviceVars == <<phase, awaited, late>>
vars == <<requestVars, browserVars, managerVars, serviceVars>>

-----------------------------------------------------------------------------
(* The requests that hold one of the queue's slots.                        *)
Running ==
    {r \in Renders :
        pc[r] \in {"starting", "launching", "setup", "navigate", "closing"}}

(* isUsable, for a generation whose handle has come.                       *)
Usable(g) == launch[g] = "ok" /\ process[g] = "up"

(* ensureClose: `closePromise ??= ...`                                     *)
EnsureClosed(c, g) ==
    IF c[g] = "none" THEN [c EXCEPT ![g] = "graceful"] ELSE c

(* retire: a browser that has not come yet is closed when it does.         *)
Retire(g) ==
    IF g \in retired
      THEN UNCHANGED <<retired, active, closing>>
      ELSE /\ retired' = retired \cup {g}
           /\ active' = IF active = g THEN None ELSE active
           /\ closing' = IF launch[g] = "ok" THEN EnsureClosed(closing, g)
                                            ELSE closing

(* MUTANT of Answer: the slot of an answered render stays empty.           *)
AnswerOnly(r, a) ==
    /\ answer' = [answer EXCEPT ![r] = a]
    /\ held' = [held EXCEPT ![r] = None]
    /\ pc' = [pc EXCEPT ![r] = "answered"]
    /\ UNCHANGED waiting

(* The request is answered, and its slot goes to the next one in line.     *)
Answer(r, a) ==
    /\ answer' = [answer EXCEPT ![r] = a]
    /\ held' = [held EXCEPT ![r] = None]
    /\ IF waiting # <<>> /\ phase = "serving"
         THEN /\ pc' = [pc EXCEPT ![r] = "answered", ![Head(waiting)] = "starting"]
              /\ waiting' = Tail(waiting)
         ELSE /\ pc' = [pc EXCEPT ![r] = "answered"]
              /\ UNCHANGED waiting

-----------------------------------------------------------------------------
Init ==
    /\ pc = [r \in Renders |-> "away"]
    /\ waiting = <<>>
    /\ answer = [r \in Renders |-> "none"]
    /\ held = [r \in Renders |-> None]
    /\ launch = [g \in Renders |-> "none"]
    /\ process = [g \in Renders |-> "none"]
    /\ retired = {}
    /\ closing = [g \in Renders |-> "none"]
    /\ generations = {}
    /\ active = None
    /\ closed = FALSE
    /\ phase = "serving"
    /\ awaited = {}
    /\ late = FALSE

-----------------------------------------------------------------------------
(* POST /render, up to the queue.  That the body is read meanwhile makes no *)
(* difference: what is looked at before is looked at again after.          *)

(* At capacity (429), or shutting down (503).                              *)
TurnAway(r) ==
    /\ pc[r] = "away"
    /\ Len(waiting) >= QueueLimit \/ phase # "serving"
    /\ pc' = [pc EXCEPT ![r] = "answered"]
    /\ answer' = [answer EXCEPT ![r] = "refused"]
    /\ UNCHANGED <<waiting, held, browserVars, managerVars, serviceVars>>

(* queue.add: a free slot is taken at once.                                *)
Admit(r) ==
    /\ pc[r] = "away"
    /\ phase = "serving"
    /\ Len(waiting) < QueueLimit
    /\ IF Cardinality(Running) < Concurrency
         THEN pc' = [pc EXCEPT ![r] = "starting"] /\ UNCHANGED waiting
         ELSE /\ pc' = [pc EXCEPT ![r] = "queued"]
              /\ waiting' = Append(waiting, r)
    /\ UNCHANGED <<answer, held, browserVars, managerVars, serviceVars>>
-----------------------------------------------------------------------------
(* renderPage, in its slot.                                                *)

(* The socket proxy could not be started, or the manager is closed.        *)
NoBrowser(r) ==
    /\ pc[r] = "starting"
    /\ Answer(r, "fault")
    /\ UNCHANGED <<browserVars, managerVars, serviceVars>>

(* acquire: the active generation, be it launched or on its way.           *)
JoinBrowser(r) ==
    /\ pc[r] = "starting"
    /\ ~closed
    /\ active # None
    /\ launch[active] = "ok" => Usable(active)
    /\ held' = [held EXCEPT ![r] = active]
    /\ pc' = [pc EXCEPT ![r] = "launching"]
    /\ UNCHANGED <<waiting, answer, browserVars, managerVars, serviceVars>>

(* acquire: there is none, or its browser is no longer usable.             *)
StartBrowser(r) ==
    /\ pc[r] = "starting"
    /\ ~closed
    /\ active # None => launch[active] = "ok" /\ ~Usable(active)
    /\ retired' = retired \cup ({active} \ {None})
    /\ closing' = IF active # None THEN EnsureClosed(closing, active) ELSE closing
    /\ active' = r
    /\ launch' = [launch EXCEPT ![r] = "pending"]
    /\ generations' = generations \cup {r}
    /\ held' = [held EXCEPT ![r] = r]
    /\ pc' = [pc EXCEPT ![r] = "launching"]
    /\ UNCHANGED <<waiting, answer, process, closed, serviceVars>>

(* MUTANT of Launched: the generation is not looked at again.              *)
LaunchedUnchecked(r) ==
    /\ pc[r] = "launching"
    /\ launch[held[r]] = "ok"
    /\ pc' = [pc EXCEPT ![r] = "setup"]
    /\ UNCHANGED <<waiting, answer, held, browserVars, managerVars, serviceVars>>

(* acquire, after the await: the generation may be retired by now.         *)
Launched(r) ==
    LET g == held[r] IN
    /\ pc[r] = "launching"
    /\ launch[g] = "ok"
    /\ IF g \in retired \/ active # g
         THEN /\ closing' = EnsureClosed(closing, g)
              /\ Answer(r, "fault")
              /\ UNCHANGED <<retired, generations, active, closed>>
         ELSE /\ pc' = [pc EXCEPT ![r] = "setup"]
              /\ UNCHANGED <<waiting, answer, held, managerVars>>
    /\ UNCHANGED <<browserVars, serviceVars>>

(* acquire: the launch failed, or is not there by its deadline.            *)
LaunchGivenUp(r) ==
    /\ pc[r] = "launching"
    /\ launch[held[r]] \in {"pending", "failed"}
    /\ IF active = held[r] THEN Retire(held[r]) ELSE UNCHANGED <<retired, active, closing>>
    /\ Answer(r, "fault")
    /\ UNCHANGED <<browserVars, generations, closed, serviceVars>>

(* preparePage: context, page and identity are set up in time.             *)
PreparePage(r) ==
    /\ pc[r] = "setup"
    /\ process[held[r]] = "up"
    /\ pc' = [pc EXCEPT ![r] = "navigate"]
    /\ UNCHANGED <<waiting, answer, held, browserVars, managerVars, serviceVars>>

(* ... or not, which is held against the browser.                          *)
SetupFails(r) ==
    /\ pc[r] = "setup"
    /\ Retire(held[r])
    /\ Answer(r, "fault")
    /\ UNCHANGED <<browserVars, generations, closed, serviceVars>>

Rendered(r, a) ==
    /\ answer' = [answer EXCEPT ![r] = a]
    /\ pc' = [pc EXCEPT ![r] = "closing"]
    /\ UNCHANGED <<waiting, held, browserVars, managerVars, serviceVars>>

(* navigate: the page is read, or the store fails or takes too long.       *)
PageRendered(r) ==
    /\ pc[r] = "navigate"
    /\ process[held[r]] = "up"
    /\ Rendered(r, "page") \/ Rendered(r, "target")

(* navigate rejects because the browser is gone; classifyError knows       *)
(* timeouts and calls everything else the store's network error.           *)
BrowserLost(r) ==
    /\ pc[r] = "navigate"
    /\ process[held[r]] # "up"
    /\ Rendered(r, "target")

(* closeContext, in time ...                                               *)
ContextCloses(r) ==
    /\ pc[r] = "closing"
    /\ Answer(r, answer[r])
    /\ UNCHANGED <<browserVars, managerVars, serviceVars>>

(* ... or not: the generation is retired, whoever else is using it.        *)
ContextHangs(r) ==
    /\ pc[r] = "closing"
    /\ Retire(held[r])
    /\ Answer(r, answer[r])
    /\ UNCHANGED <<browserVars, generations, closed, serviceVars>>

-----------------------------------------------------------------------------
(* What settles by itself.                                                 *)

(* MUTANT of LaunchResolves: nobody looks after a launch that is late.     *)
LaunchResolvesUnwatched(g) ==
    /\ launch[g] = "pending"
    /\ launch' = [launch EXCEPT ![g] = "ok"]
    /\ process' = [process EXCEPT ![g] = "up"]
    /\ UNCHANGED <<requestVars, managerVars, serviceVars>>

(* start()'s own callback: a browser nobody waits for any more is closed.  *)
LaunchResolves(g) ==
    /\ launch[g] = "pending"
    /\ launch' = [launch EXCEPT ![g] = "ok"]
    /\ process' = [process EXCEPT ![g] = "up"]
    /\ closing' = IF g \in retired \/ active # g THEN EnsureClosed(closing, g)
                                                 ELSE closing
    /\ UNCHANGED <<requestVars, retired, generations, active, closed,
                   serviceVars>>

(* launchBrowser kills what it started before it rejects.                  *)
LaunchRejects(g) ==
    /\ launch[g] = "pending"
    /\ launch' = [launch EXCEPT ![g] = "failed"]
    /\ generations' = generations \ {g}
    /\ UNCHANGED <<requestVars, process, retired, closing, active, closed,
                   serviceVars>>

BrowserDies(g) ==
    /\ process[g] = "up"
    /\ process' = [process EXCEPT ![g] = "gone"]
    /\ UNCHANGED <<requestVars, launch, managerVars, serviceVars>>

(* MUTANT of CloseMisses: a close that hangs is waited for.                *)
CloseMissesForever(g) == FALSE /\ UNCHANGED vars

(* closeLate: the graceful close misses its deadline, the kill is sent.    *)
CloseMisses(g) ==
    /\ closing[g] = "graceful"
    /\ closing' = [closing EXCEPT ![g] = "forced"]
    /\ process' = [process EXCEPT ![g] = "gone"]
    /\ UNCHANGED <<requestVars, launch, retired, generations, active, closed,
                   serviceVars>>

(* closeLate is over, one way or the other.                                *)
CloseSettles(g) ==
    /\ closing[g] \in {"graceful", "forced"}
    /\ closing' = [closing EXCEPT ![g] = "done"]
    /\ process' = [process EXCEPT ![g] = "gone"]
    /\ generations' = generations \ {g}
    /\ UNCHANGED <<requestVars, launch, retired, active, closed, serviceVars>>

-----------------------------------------------------------------------------
(* SIGTERM                                                                 *)

Signal ==
    /\ phase = "serving"
    /\ phase' = "draining"
    /\ UNCHANGED <<requestVars, browserVars, managerVars, awaited, late>>

(* The queue is idle, or its share of the budget is spent: close() retires *)
(* every generation and waits, first for the launches.                     *)
CloseManager ==
    /\ phase = "draining"
    /\ closed' = TRUE
    /\ retired' = retired \cup generations
    /\ active' = IF active \in generations THEN None ELSE active
    /\ closing' = [g \in Renders |->
          IF g \in generations \ retired /\ launch[g] = "ok"
            THEN EnsureClosed(closing, g)[g] ELSE closing[g]]
    /\ awaited' = generations
    /\ phase' = IF generations = {} THEN "exited" ELSE "launches"
    /\ UNCHANGED <<requestVars, browserVars, generations, late>>

(* MUTANT of LaunchesSettle: only the closes already under way are awaited. *)
LaunchesSettleEarly ==
    /\ phase = "launches"
    /\ awaited' = {g \in awaited : closing[g] # "none"}
    /\ phase' = "closes"
    /\ UNCHANGED <<requestVars, browserVars, managerVars, late>>

(* ... then for the closes that are under way by then.                     *)
LaunchesSettle ==
    /\ phase = "launches"
    /\ \A g \in awaited : launch[g] # "pending"
    /\ awaited' = {g \in awaited : closing[g] # "none"}
    /\ phase' = "closes"
    /\ UNCHANGED <<requestVars, browserVars, managerVars, late>>

ClosesSettle ==
    /\ phase = "closes"
    /\ \A g \in awaited : closing[g] = "done"
    /\ phase' = "exited"
    /\ awaited' = {}
    /\ UNCHANGED <<requestVars, browserVars, managerVars, late>>

(* settleByDeadline: the budget is spent, whatever is still to settle.     *)
BudgetSpent ==
    /\ phase \in {"launches", "closes"}
    /\ phase' = "exited"
    /\ awaited' = {}
    /\ late' = TRUE
    /\ UNCHANGED <<requestVars, browserVars, managerVars>>

-----------------------------------------------------------------------------
Arrive(r) ==
    /\ \A q \in 1..(r - 1) : pc[q] # "away"
    /\ TurnAway(r) \/ Admit(r)

RenderStep(r) ==
    \/ NoBrowser(r)
    \/ JoinBrowser(r)
    \/ StartBrowser(r)
    \/ Launched(r)
    \/ LaunchGivenUp(r)
    \/ PreparePage(r)
    \/ SetupFails(r)
    \/ PageRendered(r)
    \/ BrowserLost(r)
    \/ ContextCloses(r)
    \/ ContextHangs(r)

LaunchSettles(g) == LaunchResolves(g) \/ LaunchRejects(g)
CloseStep(g) == CloseMisses(g) \/ CloseSettles(g)
StopStep == CloseManager \/ LaunchesSettle \/ ClosesSettle \/ BudgetSpent

(* process.exit(0) is the end of everything here.                          *)
Alive == phase # "exited"

Next ==
    /\ Alive
    /\ \/ \E r \in Renders : Arrive(r) \/ RenderStep(r)
       \/ \E g \in Renders : LaunchSettles(g) \/ CloseStep(g) \/ BrowserDies(g)
       \/ Signal
       \/ StopStep

Spec == Init /\ [][Next]_vars

(* Every await of a render has a deadline, and so have launchBrowser, the  *)
(* close and the kill; the shutdown has one over all of it.  A graceful    *)
(* close by itself need not settle: only its deadline is sure.             *)
Fairness ==
    /\ \A r \in Renders : WF_vars(Alive /\ RenderStep(r))
    /\ \A g \in Renders :
          WF_vars(Alive /\ LaunchSettles(g)) /\ WF_vars(Alive /\ CloseMisses(g))
    /\ \A g \in Renders : WF_vars(Alive /\ closing[g] = "forced" /\ CloseSettles(g))
    /\ WF_vars(Alive /\ StopStep)

FairSpec == Spec /\ Fairness

-----------------------------------------------------------------------------
RequestTypes ==
    /\ pc \in [Renders -> {"away", "queued", "starting", "launching",
                          "setup", "navigate", "closing", "answered"}]
    /\ waiting \in Seq(Renders)
    /\ answer \in [Renders -> {"none", "page", "target", "fault", "refused"}]
    /\ held \in [Renders -> Renders \cup {None}]
    /\ \A r \in Renders :
          /\ pc[r] \in {"launching", "setup", "navigate", "closing"} <=> held[r] # None
          /\ pc[r] = "queued" <=> \E i \in DOMAIN waiting : waiting[i] = r
          /\ pc[r] \in {"setup", "navigate", "closing"} => launch[held[r]] = "ok"
    /\ \A i, j \in DOMAIN waiting : waiting[i] = waiting[j] => i = j
    /\ Len(waiting) <= QueueLimit
    /\ Cardinality(Running) <= Concurrency

BrowserTypes ==
    /\ launch \in [Renders -> {"none", "pending", "ok", "failed"}]
    /\ process \in [Renders -> {"none", "up", "gone"}]
    /\ closing \in [Renders -> {"none", "graceful", "forced", "done"}]
    /\ retired \subseteq Renders
    /\ generations \subseteq Renders
    /\ active \in Renders \cup {None}
    /\ closed \in BOOLEAN

ServiceTypes ==
    /\ phase \in {"serving", "draining", "launches", "closes", "exited"}
    /\ awaited \subseteq Renders
    /\ late \in BOOLEAN

(* Every variable holds a value of its type, the queue keeps its limits,   *)
(* and a render holds a generation exactly in the steps that use one.      *)
TypeOK == RequestTypes /\ BrowserTypes /\ ServiceTypes

(* No browser is lost sight of: one that runs is in the manager's set, and *)
(* is the active one unless it is being closed; so a launch that was given *)
(* up, retired or overtaken is closed when it comes in after all.          *)
NoStrayBrowser ==
    \A g \in Renders :
        process[g] = "up" => g \in generations /\ (g = active \/ closing[g] # "none")

(* A shutdown that keeps its deadline leaves no browser behind, however    *)
(* many launches and closes were under way when it began.                  *)
CleanExit ==
    phase = "exited" /\ ~late =>
        \A g \in Renders : process[g] # "up" /\ launch[g] # "pending"

(* Every render that was admitted is answered in the end, the queued ones  *)
(* included, unless a shutdown is first: whatever launches, contexts and   *)
(* closes hang, slots come free.  (An answer is final, so it is enough     *)
(* that again and again nobody is left without one.)                       *)
AdmittedIsAnswered ==
    []<>(phase = "serving" => \A r \in Renders : pc[r] \in {"away", "answered"})

(* A retired browser that came up is gone in the end, even if it never     *)
(* reacts to the close.                                                    *)
RetiredIsGone ==
    []<>(Alive => \A g \in retired : process[g] # "up")

-----------------------------------------------------------------------------
(* The browsers as SharedBrowser has them.                                 *)
StageOf(g) ==
    CASE launch[g] = "none" -> "unborn"
      [] launch[g] = "failed" -> "gone"
      [] launch[g] = "pending" -> IF g \in retired THEN "condemned" ELSE "coming"
      [] launch[g] = "ok" /\ closing[g] = "done" -> "gone"
      [] launch[g] = "ok" /\ closing[g] # "done" ->
            IF g \in retired THEN "condemned" ELSE "ready"

Pool == INSTANCE SharedBrowser WITH
    Browsers <- Renders,
    life <- [g \in Renders |-> StageOf(g)],
    lent <- [r \in Renders |->
                IF pc[r] \in {"setup", "navigate", "closing"} THEN held[r] ELSE None],
    open <- ~closed

(* Late launches, deadlines, retirements by other renders and the shutdown *)
(* add up to one browser at a time, lent only while it is the current one. *)
ImplementsSharedBrowser == Pool!PoolSpec
=============================================================================
