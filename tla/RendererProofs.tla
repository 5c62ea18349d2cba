-------------------------- MODULE RendererProofs --------------------------
(***************************************************************************)
(* Theorems about Renderer, for every number of requests, slots and queue  *)
(* places.                                                                 *)
(*                                                                         *)
(* What carries them is the bookkeeping of the browser manager, PoolInv:   *)
(* a generation goes through its launch states in order (LaunchOrder), it  *)
(* is in the manager's set exactly while it may have a browser to close    *)
(* (SetIsExact), it is closed exactly when it is up and no longer current  *)
(* (ClosedUnlessCurrent), and what the shutdown waits for covers what is   *)
(* left (ShutdownCovers).                                                  *)
(***************************************************************************)
EXTENDS Renderer, FiniteSetTheorems, TLAPS

Lent == {"setup", "navigate", "closing"}

(* A generation belongs to the request that started it, and to nobody      *)
(* before that.                                                            *)
LaunchOrder ==
    \A g \in Renders :
        /\ pc[g] \in {"away", "queued", "starting"} => launch[g] = "none"
        /\ pc[g] = "launching" => launch[held[g]] # "none"
        /\ launch[g] = "none" => g \notin retired
        /\ launch[g] = "ok" <=> process[g] # "none"

(* In the manager's set: what is launching, and what is up and not closed. *)
SetIsExact ==
    \A g \in Renders :
        /\ g \in generations <=>
              \/ launch[g] = "pending"
              \/ launch[g] = "ok" /\ closing[g] # "done"
        /\ closing[g] \in {"forced", "done"} => process[g] = "gone"

(* What is launching or up is current or retired, and it is being closed   *)
(* or was closed exactly if it is up and not current.                      *)
ClosedUnlessCurrent ==
    /\ active # None => launch[active] # "none"
    /\ active \notin retired
    /\ \A g \in Renders :
          /\ closing[g] # "none" <=> launch[g] = "ok" /\ g # active
          /\ launch[g] \in {"pending", "ok"} /\ g # active => g \in retired

(* The manager is closed from close() on; every generation left by then is *)
(* waited for, and a shutdown that was not late left none.                 *)
ShutdownCovers ==
    /\ closed <=> phase \in {"launches", "closes", "exited"}
    /\ closed /\ active # None => launch[active] = "failed"
    /\ phase \in {"launches", "closes"} => generations \subseteq awaited
    /\ phase = "closes" => \A g \in Renders : launch[g] # "pending"
    /\ phase = "exited" /\ ~late => generations = {}

PoolInv == LaunchOrder /\ SetIsExact /\ ClosedUnlessCurrent /\ ShutdownCovers
IInv == TypeOK /\ PoolInv

-----------------------------------------------------------------------------
(* A request stands in one place of the queue only, so its head is a       *)
(* request that no longer occurs in the tail.                              *)
LEMMA HeadLeaves ==
    ASSUME NEW w \in Seq(Renders), w # <<>>,
           \A i, j \in DOMAIN w : w[i] = w[j] => i = j
    PROVE  /\ Head(w) \in Renders /\ Head(w) = w[1] /\ 1 \in DOMAIN w
           /\ Tail(w) \in Seq(Renders)
           /\ Len(Tail(w)) = Len(w) - 1
           /\ \A i, j \in DOMAIN Tail(w) : Tail(w)[i] = Tail(w)[j] => i = j
           /\ \A r \in Renders :
                 (\E i \in DOMAIN Tail(w) : Tail(w)[i] = r)
                   <=> r # Head(w) /\ \E i \in DOMAIN w : w[i] = r
<1>1. Len(w) \in Nat /\ Len(w) >= 1 /\ DOMAIN w = 1..Len(w)
  OBVIOUS
<1>2. Head(w) = w[1] /\ w[1] \in Renders /\ Tail(w) \in Seq(Renders)
  BY <1>1
<1>3. Len(Tail(w)) = Len(w) - 1 /\ DOMAIN Tail(w) = 1..(Len(w) - 1)
  BY <1>1, <1>2
<1>4. \A i \in DOMAIN Tail(w) : Tail(w)[i] = w[i + 1]
  BY <1>1, <1>3
<1>5. \A i, j \in DOMAIN Tail(w) : Tail(w)[i] = Tail(w)[j] => i = j
  <2> SUFFICES ASSUME NEW i \in DOMAIN Tail(w), NEW j \in DOMAIN Tail(w),
                      Tail(w)[i] = Tail(w)[j]
               PROVE  i = j
    OBVIOUS
  <2>1. w[i + 1] = w[j + 1] /\ i + 1 \in DOMAIN w /\ j + 1 \in DOMAIN w
    BY <1>1, <1>3, <1>4
  <2> QED
    BY <2>1, <1>3
<1>6. ASSUME NEW r \in Renders
      PROVE  (\E i \in DOMAIN Tail(w) : Tail(w)[i] = r)
               <=> r # Head(w) /\ \E i \in DOMAIN w : w[i] = r
  <2>1. ASSUME NEW i \in DOMAIN Tail(w), Tail(w)[i] = r
        PROVE  r # Head(w) /\ \E k \in DOMAIN w : w[k] = r
    <3>1. i + 1 \in DOMAIN w /\ w[i + 1] = r /\ i + 1 # 1
      BY <2>1, <1>1, <1>3, <1>4
    <3> QED
      BY <3>1, <1>1, <1>2
  <2>2. ASSUME r # Head(w), NEW k \in DOMAIN w, w[k] = r
        PROVE  \E i \in DOMAIN Tail(w) : Tail(w)[i] = r
    <3>1. k # 1 /\ k - 1 \in DOMAIN Tail(w) /\ Tail(w)[k - 1] = w[(k - 1) + 1]
      BY <2>2, <1>1, <1>2, <1>3, <1>4
    <3> QED
      BY <2>2, <3>1, <1>1
  <2> QED
    BY <2>1, <2>2
<1> QED
  BY <1>1, <1>2, <1>3, <1>5, <1>6

(* What an answer does to the requests: one is done, and one that stood in *)
(* the queue may take its slot.                                            *)
LEMMA AnswerMoves ==
    ASSUME TypeOK, NEW r \in Renders, NEW a, Answer(r, a), r \in Running
    PROVE  /\ pc'[r] = "answered"
           /\ held' = [held EXCEPT ![r] = None]
           /\ \A q \in Renders \ {r} :
                 pc'[q] = pc[q] \/ (pc[q] = "queued" /\ pc'[q] = "starting")
           /\ Running' \subseteq (Running \ {r}) \cup {Head(waiting)}
           /\ waiting # <<>> => Head(waiting) \in Renders /\ Head(waiting) # r
           /\ waiting = <<>> => Running' \subseteq Running \ {r}
<1> USE DEF TypeOK, RequestTypes, Running
<1>1. waiting # <<>> => /\ Head(waiting) \in Renders
                        /\ pc[Head(waiting)] = "queued"
                        /\ Head(waiting) # r
  BY HeadLeaves
<1>2. pc'[r] = "answered" /\ held' = [held EXCEPT ![r] = None]
  BY <1>1 DEF Answer
<1>3. \A q \in Renders \ {r} :
        \/ pc'[q] = pc[q]
        \/ waiting # <<>> /\ q = Head(waiting) /\ pc[q] = "queued"
           /\ pc'[q] = "starting"
  BY <1>1 DEF Answer
<1> QED
  BY <1>1, <1>2, <1>3

(* Where one leaves and at most one comes, a set does not grow.            *)
LEMMA OneForOne ==
    ASSUME NEW S, IsFiniteSet(S), NEW r \in S, NEW x,
           NEW T \in SUBSET ((S \ {r}) \cup {x})
    PROVE  IsFiniteSet(T) /\ Cardinality(T) <= Cardinality(S)
<1> DEFINE R == S \ {r}
           U == R \cup {x}
<1>1. IsFiniteSet(R) /\ Cardinality(R) = Cardinality(S) - 1
  BY FS_RemoveElement
<1>2. Cardinality(S) \in Nat /\ Cardinality(R) \in Nat
  BY <1>1, FS_CardinalityType
<1> HIDE DEF R
<1>3. /\ IsFiniteSet(U)
      /\ Cardinality(U) = IF x \in R THEN Cardinality(R) ELSE Cardinality(R) + 1
  BY <1>1, FS_AddElement
<1>4. T \in SUBSET U
  BY DEF R
<1> HIDE DEF U
<1>5. IsFiniteSet(T) /\ Cardinality(T) <= Cardinality(U)
  BY <1>3, <1>4, FS_Subset
<1>6. Cardinality(T) \in Nat
  BY <1>5, FS_CardinalityType
<1> QED
  BY <1>1, <1>2, <1>3, <1>5, <1>6

(* There are finitely many requests, so the running ones can be counted.   *)
LEMMA RunningFinite == IsFiniteSet(Running) /\ Cardinality(Running) \in Nat
<1>1. IsFiniteSet(Renders)
  BY FS_Interval, RendererAssumption DEF Renders
<1>2. Running \in SUBSET Renders
  BY DEF Running
<1> QED
  BY <1>1, <1>2, FS_Subset, FS_CardinalityType

(* Answering keeps the queue and its limits, and holding a generation is   *)
(* over for the request that is answered.                                  *)
LEMMA AnswerTypes ==
    ASSUME TypeOK, NEW r \in Renders,
           NEW a \in {"none", "page", "target", "fault", "refused"},
           Answer(r, a), r \in Running, UNCHANGED launch
    PROVE  RequestTypes'
<1> USE DEF TypeOK, RequestTypes
<1>1. waiting # <<>> => /\ Head(waiting) \in Renders
                        /\ pc[Head(waiting)] = "queued"
                        /\ Head(waiting) # r
                        /\ held[Head(waiting)] = None
  BY HeadLeaves DEF Running
<1>2. /\ pc' \in [Renders -> {"away", "queued", "starting", "launching",
                              "setup", "navigate", "closing", "answered"}]
      /\ answer' \in [Renders -> {"none", "page", "target", "fault", "refused"}]
      /\ held' \in [Renders -> Renders \cup {None}]
  BY <1>1 DEF Answer
<1>3. /\ waiting' \in Seq(Renders)
      /\ Len(waiting') <= QueueLimit
      /\ \A i, j \in DOMAIN waiting' : waiting'[i] = waiting'[j] => i = j
  <2>1. CASE waiting # <<>> /\ phase = "serving"
    <3>1. waiting' = Tail(waiting)
      BY <2>1 DEF Answer
    <3>2. Len(waiting) \in Nat /\ Len(Tail(waiting)) = Len(waiting) - 1
      BY <2>1, HeadLeaves
    <3> QED
      BY <2>1, <3>1, <3>2, HeadLeaves, RendererAssumption
  <2>2. CASE ~(waiting # <<>> /\ phase = "serving")
    BY <2>2 DEF Answer
  <2> QED
    BY <2>1, <2>2
<1>4. ASSUME NEW q \in Renders
      PROVE  /\ pc'[q] \in {"launching", "setup", "navigate", "closing"}
                  <=> held'[q] # None
             /\ pc'[q] \in {"setup", "navigate", "closing"}
                  => launch'[held'[q]] = "ok"
  BY <1>1, AnswerMoves
<1>5. ASSUME NEW q \in Renders
      PROVE  pc'[q] = "queued" <=> \E i \in DOMAIN waiting' : waiting'[i] = q
  <2>1. CASE waiting # <<>> /\ phase = "serving"
    <3>1. /\ pc' = [pc EXCEPT ![r] = "answered", ![Head(waiting)] = "starting"]
          /\ waiting' = Tail(waiting)
      BY <2>1 DEF Answer
    <3>2. (\E i \in DOMAIN waiting' : waiting'[i] = q)
            <=> q # Head(waiting) /\ \E i \in DOMAIN waiting : waiting[i] = q
      BY <2>1, <3>1, HeadLeaves
    <3>3. pc'[q] = "queued" <=> q # Head(waiting) /\ pc[q] = "queued"
      BY <1>1, <2>1, <3>1 DEF Running
    <3> QED
      BY <3>2, <3>3
  <2>2. CASE ~(waiting # <<>> /\ phase = "serving")
    BY <2>2 DEF Answer, Running
  <2> QED
    BY <2>1, <2>2
<1>6. Cardinality(Running') <= Concurrency
  <2>1. IsFiniteSet(Running)
    BY RunningFinite
  <2>2. IsFiniteSet(Running') /\ Cardinality(Running') <= Cardinality(Running)
    BY <2>1, OneForOne, AnswerMoves
  <2>3. Cardinality(Running) \in Nat /\ Cardinality(Running') \in Nat
    BY <2>1, <2>2, FS_CardinalityType
  <2> QED
    BY <2>2, <2>3, RendererAssumption
<1> QED
  BY <1>2, <1>3, <1>4, <1>5, <1>6

(* A render that is admitted takes a slot that is free, or the last place. *)
LEMMA AdmitTypes ==
    ASSUME TypeOK, NEW r \in Renders, Admit(r)
    PROVE  RequestTypes'
<1> USE DEF TypeOK, RequestTypes
<1>1. pc[r] = "away" /\ held[r] = None /\ ~\E i \in DOMAIN waiting : waiting[i] = r
  BY DEF Admit
<1>2. CASE Cardinality(Running) < Concurrency
  <2>1. /\ pc' = [pc EXCEPT ![r] = "starting"]
        /\ UNCHANGED <<waiting, answer, held, launch>>
    BY <1>2 DEF Admit, browserVars
  <2>2. Running' = Running \cup {r} /\ r \notin Running
    BY <1>1, <2>1 DEF Running
  <2>3. Cardinality(Running') = Cardinality(Running) + 1
    BY <2>2, RunningFinite, FS_AddElement
  <2>4. Cardinality(Running') <= Concurrency
    BY <1>2, <2>3, RunningFinite, RendererAssumption
  <2> QED
    BY <1>1, <2>1, <2>4
<1>3. CASE ~(Cardinality(Running) < Concurrency)
  <2>1. /\ pc' = [pc EXCEPT ![r] = "queued"]
        /\ waiting' = Append(waiting, r)
        /\ Len(waiting) < QueueLimit
        /\ UNCHANGED <<answer, held, launch>>
    BY <1>3 DEF Admit, browserVars
  <2>2. Running' = Running
    BY <1>1, <2>1 DEF Running
  <2>3. /\ waiting' \in Seq(Renders)
        /\ Len(waiting) \in Nat
        /\ Len(waiting') = Len(waiting) + 1
        /\ DOMAIN waiting = 1..Len(waiting)
        /\ DOMAIN waiting' = 1..(Len(waiting) + 1)
        /\ \A i \in DOMAIN waiting : waiting'[i] = waiting[i]
        /\ waiting'[Len(waiting) + 1] = r
    BY <2>1
  <2>4. \A i, j \in DOMAIN waiting' : waiting'[i] = waiting'[j] => i = j
    BY <1>1, <2>3
  <2>5. Len(waiting') <= QueueLimit
    BY <2>1, <2>3, RendererAssumption
  <2>6. ASSUME NEW q \in Renders
        PROVE  pc'[q] = "queued" <=> \E i \in DOMAIN waiting' : waiting'[i] = q
    <3>1. CASE q = r
      <4>1. Len(waiting) + 1 \in DOMAIN waiting'
        BY <2>3
      <4> QED
        BY <3>1, <2>1, <2>3, <4>1
    <3>2. CASE q # r
      <4>1. (\E i \in DOMAIN waiting' : waiting'[i] = q)
              <=> \E i \in DOMAIN waiting : waiting[i] = q
        BY <3>2, <2>3
      <4> QED
        BY <3>2, <2>1, <4>1
    <3> QED
      BY <3>1, <3>2
  <2> QED
    BY <1>1, <2>1, <2>2, <2>3, <2>4, <2>5, <2>6
<1> QED
  BY <1>2, <1>3

(* A step that moves one running render on within its slot.                *)
LEMMA MoveTypes ==
    ASSUME TypeOK, NEW r \in Running,
           NEW p \in {"launching", "setup", "navigate", "closing"},
           NEW g \in Renders,
           pc' = [pc EXCEPT ![r] = p],
           held' = [held EXCEPT ![r] = g],
           p # "launching" => launch'[g] = "ok",
           \A q \in Renders : launch[q] = "ok" => launch'[q] = "ok",
           answer' \in [Renders -> {"none", "page", "target", "fault", "refused"}],
           UNCHANGED waiting
    PROVE  RequestTypes'
<1> USE DEF TypeOK, RequestTypes
<1>1. Running' = Running /\ r \in Renders /\ pc[r] # "queued"
  BY DEF Running
<1>2. ASSUME NEW q \in Renders
      PROVE  /\ pc'[q] \in {"launching", "setup", "navigate", "closing"}
                  <=> held'[q] # None
             /\ pc'[q] = "queued" <=> \E i \in DOMAIN waiting : waiting[i] = q
             /\ pc'[q] \in {"setup", "navigate", "closing"}
                  => launch'[held'[q]] = "ok"
  <2>1. None \notin Renders
    BY DEF None, Renders
  <2>2. CASE q = r
    BY <1>1, <2>1, <2>2
  <2>3. CASE q # r
    BY <1>1, <2>3
  <2> QED
    BY <2>2, <2>3
<1>3. /\ pc' \in [Renders -> {"away", "queued", "starting", "launching",
                              "setup", "navigate", "closing", "answered"}]
      /\ held' \in [Renders -> Renders \cup {None}]
  BY <1>1
<1>4. Cardinality(Running') <= Concurrency
  BY <1>1
<1> QED
  BY <1>2, <1>3, <1>4

LEMMA RequestTypesStep ==
    ASSUME TypeOK, LaunchOrder, Next
    PROVE  RequestTypes'
<1> DEFINE Answers == {"none", "page", "target", "fault", "refused"}
<1>1. None \notin Renders
  BY DEF None, Renders
<1>2. ASSUME NEW r \in Renders, TurnAway(r)
      PROVE  RequestTypes'
  <2>1. Running' = Running
    BY <1>2 DEF TurnAway, Running, TypeOK, RequestTypes
  <2>2. /\ pc[r] = "away" /\ pc' = [pc EXCEPT ![r] = "answered"]
        /\ answer' = [answer EXCEPT ![r] = "refused"]
        /\ UNCHANGED <<waiting, held, launch>>
    BY <1>2 DEF TurnAway, browserVars
  <2> HIDE <1>2
  <2> QED
    BY <1>1, <2>1, <2>2 DEF TypeOK, RequestTypes
<1>3. ASSUME NEW r \in Renders,
             \/ NoBrowser(r) \/ LaunchGivenUp(r) \/ SetupFails(r)
             \/ ContextCloses(r) \/ ContextHangs(r)
             \/ Launched(r) /\ Answer(r, "fault")
      PROVE  RequestTypes'
  <2>1. r \in Running /\ UNCHANGED launch
    BY <1>3
    DEF NoBrowser, LaunchGivenUp, SetupFails, ContextCloses, ContextHangs,
        Launched, Running, browserVars
  <2>2. answer[r] \in Answers
    BY DEF TypeOK, RequestTypes
  <2>3. Answer(r, "fault") \/ Answer(r, answer[r])
    BY <1>3
    DEF NoBrowser, LaunchGivenUp, SetupFails, ContextCloses, ContextHangs
  <2> QED
    BY <2>1, <2>2, <2>3, AnswerTypes
<1>4. ASSUME NEW r \in Renders, JoinBrowser(r) \/ StartBrowser(r)
      PROVE  RequestTypes'
  <2>1. r \in Running /\ launch[r] = "none"
    BY <1>4 DEF JoinBrowser, StartBrowser, Running, LaunchOrder
  <2>2. \A q \in Renders : launch[q] = "ok" => launch'[q] = "ok"
    BY <1>4, <2>1
    DEF JoinBrowser, StartBrowser, browserVars, TypeOK, BrowserTypes
  <2>3. /\ UNCHANGED <<waiting, answer>>
        /\ pc' = [pc EXCEPT ![r] = "launching"]
        /\ \E g \in Renders : held' = [held EXCEPT ![r] = g]
    BY <1>4 DEF JoinBrowser, StartBrowser, TypeOK, BrowserTypes
  <2> QED
    BY <2>1, <2>2, <2>3, MoveTypes DEF TypeOK, RequestTypes
<1>5. ASSUME NEW r \in Renders,
             \/ PreparePage(r) \/ PageRendered(r) \/ BrowserLost(r)
             \/ Launched(r) /\ ~Answer(r, "fault")
      PROVE  RequestTypes'
  <2>1. /\ r \in Running /\ held[r] \in Renders
        /\ launch[held[r]] = "ok" /\ UNCHANGED <<waiting, held, launch>>
    BY <1>5
    DEF PreparePage, PageRendered, BrowserLost, Rendered, Launched, Running,
        browserVars, TypeOK, RequestTypes
  <2>2. \E p \in {"setup", "navigate", "closing"} : pc' = [pc EXCEPT ![r] = p]
    BY <1>5 DEF PreparePage, PageRendered, BrowserLost, Rendered, Launched
  <2>3. answer' \in [Renders -> Answers]
    BY <1>5
    DEF PreparePage, PageRendered, BrowserLost, Rendered, Launched, TypeOK,
        RequestTypes
  <2>4. held' = [held EXCEPT ![r] = held[r]]
    BY <2>1 DEF TypeOK, RequestTypes
  <2> QED
    BY <2>1, <2>2, <2>3, <2>4, MoveTypes
<1>6. ASSUME UNCHANGED requestVars,
             \A q \in Renders : launch[q] = "ok" => launch'[q] = "ok"
      PROVE  RequestTypes'
  <2>1. Running' = Running
    BY <1>6 DEF requestVars, Running
  <2> QED
    BY <1>6, <2>1 DEF requestVars, TypeOK, RequestTypes
<1>7. ASSUME NEW g \in Renders, LaunchSettles(g) \/ CloseStep(g) \/ BrowserDies(g)
      PROVE  RequestTypes'
  BY <1>6, <1>7
  DEF LaunchSettles, LaunchResolves, LaunchRejects, CloseStep, CloseMisses,
      CloseSettles, BrowserDies, TypeOK, BrowserTypes
<1>8. CASE Signal \/ StopStep
  BY <1>6, <1>8
  DEF Signal, StopStep, CloseManager, LaunchesSettle, ClosesSettle, BudgetSpent,
      browserVars
<1>9. ASSUME NEW r \in Renders, Arrive(r) \/ RenderStep(r)
      PROVE  RequestTypes'
  BY <1>2, <1>3, <1>4, <1>5, <1>9, AdmitTypes DEF Arrive, RenderStep
<1> QED
  BY <1>7, <1>8, <1>9 DEF Next

(* What the manager, its browsers and the service may be.                  *)
LEMMA ManagerTypesStep ==
    ASSUME TypeOK, Next
    PROVE  BrowserTypes' /\ ServiceTypes'
<1> USE DEF TypeOK, BrowserTypes, ServiceTypes
<1>1. ASSUME NEW r \in Renders, Arrive(r)
      PROVE  BrowserTypes' /\ ServiceTypes'
  BY <1>1 DEF Arrive, TurnAway, Admit, browserVars, managerVars, serviceVars
<1>2. ASSUME NEW g \in Renders, Retire(g)
      PROVE  /\ retired' \subseteq Renders
             /\ active' \in Renders \cup {None}
             /\ closing' \in [Renders -> {"none", "graceful", "forced", "done"}]
  BY <1>2 DEF Retire, EnsureClosed
<1>3. ASSUME NEW r \in Renders, RenderStep(r)
      PROVE  BrowserTypes' /\ ServiceTypes'
  <2>1. pc[r] = "launching" \/ pc[r] = "setup" \/ pc[r] = "closing"
          => held[r] \in Renders
    BY DEF RequestTypes
  <2>2. CASE NoBrowser(r) \/ JoinBrowser(r) \/ PreparePage(r) \/ ContextCloses(r)
             \/ PageRendered(r) \/ BrowserLost(r)
    BY <2>2
    DEF NoBrowser, JoinBrowser, PreparePage, ContextCloses, PageRendered,
        BrowserLost, Rendered, browserVars, managerVars, serviceVars
  <2>3. CASE StartBrowser(r)
    BY <2>3 DEF StartBrowser, EnsureClosed, serviceVars
  <2>4. CASE Launched(r)
    BY <2>1, <2>4
    DEF Launched, EnsureClosed, browserVars, managerVars, serviceVars
  <2>5. CASE LaunchGivenUp(r) \/ SetupFails(r) \/ ContextHangs(r)
    BY <1>2, <2>1, <2>5
    DEF LaunchGivenUp, SetupFails, ContextHangs, browserVars, serviceVars
  <2> QED
    BY <1>3, <2>2, <2>3, <2>4, <2>5 DEF RenderStep
<1>4. ASSUME NEW g \in Renders, LaunchSettles(g) \/ CloseStep(g) \/ BrowserDies(g)
      PROVE  BrowserTypes' /\ ServiceTypes'
  BY <1>4
  DEF LaunchSettles, LaunchResolves, LaunchRejects, CloseStep, CloseMisses,
      CloseSettles, BrowserDies, EnsureClosed, managerVars, serviceVars
<1>5. CASE Signal \/ StopStep
  <2>1. CASE CloseManager
    <3>1. closing' \in [Renders -> {"none", "graceful", "forced", "done"}]
      BY <2>1 DEF CloseManager, EnsureClosed
    <3> QED
      BY <2>1, <3>1 DEF CloseManager, browserVars
  <2> QED
    BY <1>5, <2>1
    DEF Signal, StopStep, LaunchesSettle, ClosesSettle, BudgetSpent,
        browserVars, managerVars
<1> QED
  BY <1>1, <1>3, <1>4, <1>5 DEF Next

LEMMA TypeStep ==
    ASSUME TypeOK, LaunchOrder, Next
    PROVE  TypeOK'
BY RequestTypesStep, ManagerTypesStep DEF TypeOK

-----------------------------------------------------------------------------
(* What a request can do to the manager: nothing; start a browser in the   *)
(* place of a dead one; retire the current one.  To close again what is    *)
(* being closed already changes nothing.                                   *)
LEMMA RenderEffects ==
    ASSUME TypeOK, ClosedUnlessCurrent,
           NEW r \in Renders, Arrive(r) \/ RenderStep(r)
    PROVE  /\ UNCHANGED <<process, closed, serviceVars>>
           /\ \/ UNCHANGED <<browserVars, managerVars>>
              \/ StartBrowser(r)
              \/ UNCHANGED <<browserVars, generations>> /\ active \in Renders
                    /\ Retire(active)
<1> USE DEF browserVars, managerVars
<1>1. CASE Arrive(r)
  BY <1>1 DEF Arrive, TurnAway, Admit
<1>2. CASE NoBrowser(r) \/ JoinBrowser(r) \/ PreparePage(r) \/ ContextCloses(r)
           \/ PageRendered(r) \/ BrowserLost(r)
  BY <1>2
  DEF NoBrowser, JoinBrowser, PreparePage, ContextCloses, PageRendered,
      BrowserLost, Rendered
<1>3. CASE StartBrowser(r)
  BY <1>3 DEF StartBrowser
<1>4. CASE Launched(r)
  <2>1. held[r] \in Renders
    BY <1>4 DEF Launched, TypeOK, RequestTypes
  <2>2. CASE held[r] \in retired \/ active # held[r]
    <3>1. closing[held[r]] # "none"
      BY <1>4, <2>1, <2>2 DEF Launched, ClosedUnlessCurrent
    <3> QED
      BY <1>4, <2>2, <3>1 DEF Launched, EnsureClosed
  <2> QED
    BY <1>4, <2>2 DEF Launched
<1>5. CASE LaunchGivenUp(r) \/ SetupFails(r) \/ ContextHangs(r)
  <2>1. /\ held[r] \in Renders
        /\ UNCHANGED <<browserVars, generations, closed, serviceVars>>
    BY <1>5 DEF LaunchGivenUp, SetupFails, ContextHangs, TypeOK, RequestTypes
  <2>2. Retire(held[r]) \/ UNCHANGED <<retired, active, closing>>
    BY <1>5 DEF LaunchGivenUp, SetupFails, ContextHangs
  <2>3. Retire(held[r]) => held[r] = active \/ UNCHANGED <<retired, active, closing>>
    <3>1. CASE LaunchGivenUp(r)
      BY <3>1 DEF LaunchGivenUp
    <3>2. CASE SetupFails(r) \/ ContextHangs(r)
      <4>1. launch[held[r]] = "ok"
        BY <3>2 DEF SetupFails, ContextHangs, TypeOK, RequestTypes
      <4> QED
        BY <2>1, <4>1 DEF Retire, ClosedUnlessCurrent
    <3> QED
      BY <1>5, <3>1, <3>2
  <2> QED
    BY <2>1, <2>2, <2>3
<1> QED
  BY <1>1, <1>2, <1>3, <1>4, <1>5 DEF RenderStep

(* What it can do to the requests, as far as the launches go by them.      *)
LEMMA RenderMoves ==
    ASSUME TypeOK, ClosedUnlessCurrent,
           NEW r \in Renders, Arrive(r) \/ RenderStep(r), NEW q \in Renders
    PROVE  /\ pc'[q] \in {"away", "queued", "starting"}
                => /\ pc[q] \in {"away", "queued", "starting"}
                   /\ StartBrowser(r) => q # r
           /\ pc'[q] = "launching"
                => \/ pc[q] = "launching" /\ held'[q] = held[q]
                   \/ launch'[held'[q]] # "none"
<1> USE DEF TypeOK, RequestTypes
<1>1. CASE Arrive(r)
  BY <1>1 DEF Arrive, TurnAway, Admit, StartBrowser
<1>2. CASE JoinBrowser(r) \/ StartBrowser(r)
  BY <1>2
  DEF JoinBrowser, StartBrowser, browserVars, ClosedUnlessCurrent, BrowserTypes
<1>3. CASE \/ PreparePage(r) \/ PageRendered(r) \/ BrowserLost(r)
           \/ Launched(r) /\ ~Answer(r, "fault")
  <2>1. /\ pc[r] \in {"launching", "setup", "navigate"} /\ held' = held
        /\ \E p \in {"setup", "navigate", "closing"} : pc' = [pc EXCEPT ![r] = p]
    BY <1>3
    DEF PreparePage, PageRendered, BrowserLost, Rendered, Launched
  <2> QED
    BY <2>1 DEF StartBrowser
<1>4. CASE \/ NoBrowser(r) \/ LaunchGivenUp(r) \/ SetupFails(r)
           \/ ContextCloses(r) \/ ContextHangs(r)
           \/ Launched(r) /\ Answer(r, "fault")
  <2>1. r \in Running /\ \E a : Answer(r, a)
    BY <1>4
    DEF NoBrowser, LaunchGivenUp, SetupFails, ContextCloses, ContextHangs,
        Launched, Running
  <2>2. /\ pc'[r] = "answered"
        /\ \A p \in Renders \ {r} :
              pc'[p] = pc[p] \/ (pc[p] = "queued" /\ pc'[p] = "starting")
        /\ held' = [held EXCEPT ![r] = None]
    BY <2>1, AnswerMoves
  <2> HIDE <1>4
  <2>3. ~StartBrowser(r)
    BY <2>2 DEF StartBrowser
  <2> QED
    BY <2>2, <2>3
<1> QED
  BY <1>1, <1>2, <1>3, <1>4 DEF RenderStep

-----------------------------------------------------------------------------
LEMMA PoolInit ==
    Init => IInv
<1> SUFFICES ASSUME Init PROVE IInv
  OBVIOUS
<1> USE DEF Init
<1>1. None \notin Renders
  BY DEF None, Renders
<1>2. Running = {}
  BY DEF Running
<1>3. Cardinality(Running) <= Concurrency /\ Len(waiting) <= QueueLimit
  BY <1>2, FS_EmptySet, RendererAssumption
<1>4. TypeOK
  <2>1. waiting \in Seq(Renders) /\ DOMAIN waiting = {}
    OBVIOUS
  <2>2. RequestTypes
    BY <1>1, <1>3, <2>1 DEF RequestTypes
  <2>3. BrowserTypes /\ ServiceTypes
    BY DEF BrowserTypes, ServiceTypes
  <2> QED
    BY <2>2, <2>3 DEF TypeOK
<1>5. PoolInv
  BY <1>1 DEF PoolInv, LaunchOrder, SetIsExact, ClosedUnlessCurrent, ShutdownCovers
<1> QED
  BY <1>4, <1>5 DEF IInv

LEMMA LaunchOrderStep ==
    ASSUME IInv, Next
    PROVE  LaunchOrder'
<1> USE DEF IInv, PoolInv, LaunchOrder, TypeOK, BrowserTypes
<1>1. ASSUME NEW r \in Renders, Arrive(r) \/ RenderStep(r)
      PROVE  LaunchOrder'
  <2>1. CASE UNCHANGED <<browserVars, managerVars>>
    BY <1>1, <2>1, RenderMoves DEF browserVars, managerVars
  <2>2. CASE StartBrowser(r)
    <3>1. /\ launch' = [launch EXCEPT ![r] = "pending"]
          /\ retired' = retired \cup ({active} \ {None})
          /\ launch[r] = "none" /\ process' = process
          /\ active # None => launch[active] = "ok"
      BY <2>2 DEF StartBrowser
    <3>2. \A g \in Renders : launch'[g] = "none" => g \notin retired'
      BY <3>1
    <3>3. \A g \in Renders : launch'[g] = "ok" <=> process'[g] # "none"
      BY <3>1
    <3>4. ASSUME NEW g \in Renders
          PROVE  /\ pc'[g] \in {"away", "queued", "starting"} => launch'[g] = "none"
                 /\ pc'[g] = "launching" => launch'[held'[g]] # "none"
      <4>1. pc[g] = "launching" => held[g] \in Renders
        BY DEF RequestTypes
      <4> QED
        BY <1>1, <2>2, <3>1, <4>1, RenderMoves
    <3> QED
      BY <3>2, <3>3, <3>4
  <2>3. CASE /\ UNCHANGED <<browserVars, generations>>
             /\ active \in Renders
             /\ Retire(active)
    <3>1. launch' = launch /\ process' = process
          /\ retired' \subseteq retired \cup {active}
      BY <2>3 DEF Retire, browserVars
    <3> QED
      BY <1>1, <2>3, <3>1, RenderMoves DEF ClosedUnlessCurrent, None, Renders
  <2> QED
    BY <1>1, <2>1, <2>2, <2>3, RenderEffects
<1>2. ASSUME NEW g \in Renders, LaunchSettles(g) \/ CloseStep(g) \/ BrowserDies(g)
      PROVE  LaunchOrder'
  <2>1. UNCHANGED <<pc, held, retired>>
    BY <1>2
    DEF LaunchSettles, LaunchResolves, LaunchRejects, CloseStep, CloseMisses,
        CloseSettles, BrowserDies, requestVars, managerVars
  <2>2. \/ LaunchResolves(g) \/ LaunchRejects(g)
        \/ launch' = launch /\ launch[g] = "ok"
              /\ process' = [process EXCEPT ![g] = "gone"]
    BY <1>2
    DEF LaunchSettles, CloseStep, CloseMisses, CloseSettles, BrowserDies,
        ClosedUnlessCurrent
  <2>3. /\ \A q \in Renders : launch[q] # "none" <=> launch'[q] # "none"
        /\ \A q \in Renders : launch'[q] = "ok" <=> process'[q] # "none"
    BY <2>2 DEF LaunchResolves, LaunchRejects
  <2> QED
    BY <2>1, <2>3 DEF RequestTypes
<1>3. CASE Signal \/ StopStep
  <2>1. UNCHANGED <<requestVars, browserVars>>
        /\ retired' \subseteq retired \cup generations
    BY <1>3
    DEF Signal, StopStep, CloseManager, LaunchesSettle, ClosesSettle,
        BudgetSpent, managerVars
  <2> QED
    BY <2>1 DEF requestVars, browserVars, SetIsExact
<1> QED
  BY <1>1, <1>2, <1>3 DEF Next

LEMMA SetIsExactStep ==
    ASSUME IInv, Next
    PROVE  SetIsExact'
<1> USE DEF IInv, PoolInv, SetIsExact, TypeOK, BrowserTypes
<1>1. ASSUME NEW r \in Renders, Arrive(r) \/ RenderStep(r)
      PROVE  SetIsExact'
  <2>1. CASE UNCHANGED <<browserVars, managerVars>>
    BY <2>1 DEF browserVars, managerVars
  <2>2. CASE StartBrowser(r)
    <3>1. launch[r] = "none" /\ closing[r] = "none"
      BY <2>2 DEF StartBrowser, LaunchOrder, ClosedUnlessCurrent
    <3> QED
      BY <2>2, <3>1 DEF StartBrowser, EnsureClosed
  <2>3. CASE /\ UNCHANGED <<browserVars, generations>>
             /\ active \in Renders
             /\ Retire(active)
    BY <2>3 DEF Retire, EnsureClosed, browserVars
  <2> QED
    BY <1>1, <2>1, <2>2, <2>3, RenderEffects
<1>2. ASSUME NEW g \in Renders, LaunchSettles(g) \/ CloseStep(g) \/ BrowserDies(g)
      PROVE  SetIsExact'
  BY <1>2
  DEF LaunchSettles, LaunchResolves, LaunchRejects, CloseStep, CloseMisses,
      CloseSettles, BrowserDies, EnsureClosed, managerVars, ClosedUnlessCurrent
<1>3. CASE CloseManager
  BY <1>3 DEF CloseManager, EnsureClosed, browserVars
<1>4. CASE Signal \/ LaunchesSettle \/ ClosesSettle \/ BudgetSpent
  BY <1>4
  DEF Signal, LaunchesSettle, ClosesSettle, BudgetSpent, browserVars, managerVars
<1> QED
  BY <1>1, <1>2, <1>3, <1>4 DEF Next, StopStep

LEMMA ClosedUnlessCurrentStep ==
    ASSUME IInv, Next
    PROVE  ClosedUnlessCurrent'
<1> USE DEF IInv, PoolInv, ClosedUnlessCurrent, TypeOK, BrowserTypes
<1>1. None \notin Renders
  BY DEF None, Renders
<1>2. ASSUME NEW r \in Renders, Arrive(r) \/ RenderStep(r)
      PROVE  ClosedUnlessCurrent'
  <2>1. CASE UNCHANGED <<browserVars, managerVars>>
    BY <2>1 DEF browserVars, managerVars
  <2>2. CASE StartBrowser(r)
    <3>1. /\ launch[r] = "none" /\ r \notin retired /\ r # active
          /\ active # None => active \in Renders /\ launch[active] = "ok"
      BY <1>1, <2>2 DEF StartBrowser, LaunchOrder
    <3> QED
      BY <1>1, <2>2, <3>1 DEF StartBrowser, EnsureClosed
  <2>3. CASE /\ UNCHANGED <<browserVars, generations>>
             /\ active \in Renders
             /\ Retire(active)
    <3>1. /\ active' = None /\ retired' = retired \cup {active}
          /\ launch' = launch
          /\ closing' = IF launch[active] = "ok" THEN EnsureClosed(closing, active)
                                                ELSE closing
      BY <2>3 DEF Retire, browserVars
    <3> QED
      BY <1>1, <2>3, <3>1 DEF EnsureClosed, LaunchOrder
  <2> QED
    BY <1>2, <2>1, <2>2, <2>3, RenderEffects
<1>3. ASSUME NEW g \in Renders, LaunchSettles(g) \/ CloseStep(g) \/ BrowserDies(g)
      PROVE  ClosedUnlessCurrent'
  BY <1>1, <1>3
  DEF LaunchSettles, LaunchResolves, LaunchRejects, CloseStep, CloseMisses,
      CloseSettles, BrowserDies, EnsureClosed, browserVars, managerVars
<1>4. CASE CloseManager
  <2>1. active # None /\ active \notin generations => launch[active] = "failed"
    BY DEF SetIsExact
  <2> QED
    BY <1>1, <1>4, <2>1 DEF CloseManager, EnsureClosed, browserVars, SetIsExact, LaunchOrder
<1>5. CASE Signal \/ LaunchesSettle \/ ClosesSettle \/ BudgetSpent
  BY <1>5
  DEF Signal, LaunchesSettle, ClosesSettle, BudgetSpent, browserVars, managerVars
<1> QED
  BY <1>2, <1>3, <1>4, <1>5 DEF Next, StopStep

LEMMA ShutdownCoversStep ==
    ASSUME IInv, Next
    PROVE  ShutdownCovers'
<1> USE DEF IInv, PoolInv, ShutdownCovers, TypeOK, BrowserTypes, ServiceTypes
<1>1. None \notin Renders
  BY DEF None, Renders
<1>2. ASSUME NEW r \in Renders, Arrive(r) \/ RenderStep(r)
      PROVE  ShutdownCovers'
  <2>1. CASE UNCHANGED <<browserVars, managerVars>>
    BY <1>2, <2>1, RenderEffects DEF browserVars, managerVars, serviceVars
  <2>2. CASE StartBrowser(r)
    BY <1>2, <2>2, RenderEffects DEF StartBrowser, serviceVars
  <2>3. CASE /\ UNCHANGED <<browserVars, generations>>
             /\ active \in Renders
             /\ Retire(active)
    BY <1>1, <1>2, <2>3, RenderEffects DEF Retire, browserVars, serviceVars
  <2> QED
    BY <1>2, <2>1, <2>2, <2>3, RenderEffects
<1>3. ASSUME Alive, NEW g \in Renders,
             LaunchSettles(g) \/ CloseStep(g) \/ BrowserDies(g)
      PROVE  ShutdownCovers'
  BY <1>1, <1>3
  DEF Alive, LaunchSettles, LaunchResolves, LaunchRejects, CloseStep,
      CloseMisses, CloseSettles, BrowserDies, EnsureClosed, browserVars,
      managerVars, serviceVars
<1>4. CASE CloseManager
  <2>1. active # None /\ active \notin generations => launch[active] = "failed"
    BY DEF SetIsExact, ClosedUnlessCurrent
  <2> QED
    BY <1>1, <1>4, <2>1 DEF CloseManager, browserVars
<1>5. CASE LaunchesSettle
  <2>1. \A g \in generations : launch[g] = "ok" /\ closing[g] # "none"
    BY <1>1, <1>5 DEF LaunchesSettle, SetIsExact, ClosedUnlessCurrent
  <2>2. \A g \in Renders : launch[g] # "pending"
    BY <1>5 DEF LaunchesSettle, SetIsExact
  <2> QED
    BY <1>5, <2>1, <2>2 DEF LaunchesSettle, browserVars, managerVars
<1>6. CASE ClosesSettle
  <2>1. generations = {}
    BY <1>6 DEF ClosesSettle, SetIsExact
  <2> QED
    BY <1>6, <2>1 DEF ClosesSettle, browserVars, managerVars
<1>7. CASE Signal \/ BudgetSpent
  BY <1>7 DEF Signal, BudgetSpent, browserVars, managerVars
<1> QED
  BY <1>2, <1>3, <1>4, <1>5, <1>6, <1>7 DEF Next, StopStep

(* The bookkeeping is an invariant of the renderer.                        *)
LEMMA PoolInvariant == Spec => []IInv
<1>1. IInv /\ [Next]_vars => IInv'
  <2> SUFFICES ASSUME IInv, [Next]_vars
               PROVE  IInv'
    OBVIOUS
  <2>1. CASE Next
    BY <2>1, TypeStep, LaunchOrderStep, SetIsExactStep, ClosedUnlessCurrentStep,
       ShutdownCoversStep DEF IInv, PoolInv
  <2>2. CASE UNCHANGED vars
    <3>1. Running' = Running
      BY <2>2 DEF vars, requestVars, Running
    <3>2. TypeOK'
      BY <2>2, <3>1
      DEF vars, requestVars, browserVars, managerVars, serviceVars, IInv, TypeOK,
          RequestTypes, BrowserTypes, ServiceTypes
    <3> QED
      BY <2>2, <3>2
      DEF vars, requestVars, browserVars, managerVars, serviceVars, IInv, PoolInv,
          LaunchOrder, SetIsExact, ClosedUnlessCurrent, ShutdownCovers
  <2> QED
    BY <2>1, <2>2
<1> QED
  BY PoolInit, <1>1, PTL DEF Spec

(* Every variable keeps its type, no more renders than RENDER_CONCURRENCY  *)
(* hold a slot, and no more than the limit wait for one.                   *)
THEOREM RendererTypes == Spec => []TypeOK
<1>1. IInv => TypeOK
  BY DEF IInv
<1> QED
  BY <1>1, PoolInvariant, PTL

(* A browser that runs is one the manager knows, and unless it is the      *)
(* current one it is being closed: no launch that was given up, retired or *)
(* overtaken leaves a browser behind.                                      *)
THEOREM NoBrowserStrays == Spec => []NoStrayBrowser
<1>1. IInv => NoStrayBrowser
  BY DEF IInv, TypeOK, BrowserTypes, PoolInv, LaunchOrder, SetIsExact,
         ClosedUnlessCurrent, NoStrayBrowser
<1> QED
  BY <1>1, PoolInvariant, PTL

(* When the service exits within its budget, no browser runs and none is   *)
(* on its way.                                                             *)
THEOREM ExitIsClean == Spec => []CleanExit
<1>1. IInv => CleanExit
  BY DEF IInv, TypeOK, BrowserTypes, PoolInv, LaunchOrder, SetIsExact,
         ShutdownCovers, CleanExit
<1> QED
  BY <1>1, PoolInvariant, PTL

-----------------------------------------------------------------------------
(* The refinement.                                                         *)
Life == [g \in Renders |-> StageOf(g)]
Loan == [r \in Renders |->
            IF pc[r] \in {"setup", "navigate", "closing"} THEN held[r] ELSE None]

(* What StageOf comes to, given the bookkeeping: the current browser is    *)
(* the one that is coming or ready.                                        *)
StageFacts ==
    \A g \in Renders :
        /\ Life[g] \in {"unborn", "coming", "ready", "condemned", "gone"}
        /\ Life[g] = "unborn" <=> launch[g] = "none"
        /\ Life[g] = "coming" <=> launch[g] = "pending" /\ g = active
        /\ Life[g] = "ready" <=> launch[g] = "ok" /\ g = active
        /\ Life[g] = "condemned" <=>
              /\ launch[g] \in {"pending", "ok"} /\ closing[g] # "done"
              /\ g # active
        /\ Life[g] = "gone" <=> launch[g] = "failed" \/ closing[g] = "done"

LEMMA StageCases == IInv => StageFacts
<1> SUFFICES ASSUME IInv PROVE StageFacts
  OBVIOUS
<1> USE DEF IInv, PoolInv, TypeOK, BrowserTypes, ClosedUnlessCurrent, StageFacts
<1> TAKE g \in Renders
<1>1. Life[g] = StageOf(g)
  BY DEF Life
<1>2. CASE launch[g] = "none"
  BY <1>1, <1>2 DEF StageOf
<1>3. CASE launch[g] = "failed"
  BY <1>1, <1>3 DEF StageOf
<1>4. CASE launch[g] = "pending"
  BY <1>1, <1>4 DEF StageOf
<1>5. CASE launch[g] = "ok"
  BY <1>1, <1>5 DEF StageOf
<1> QED
  BY <1>2, <1>3, <1>4, <1>5

(* A step that changes neither a launch, nor who is current, nor what is   *)
(* closed for good, changes no stage.                                      *)
LEMMA StagesKept ==
    ASSUME StageFacts, StageFacts', UNCHANGED <<launch, active>>,
           \A g \in Renders : closing'[g] = "done" <=> closing[g] = "done"
    PROVE  UNCHANGED Life
<1>1. ASSUME NEW g \in Renders
      PROVE  Life'[g] = Life[g]
  BY DEF StageFacts
<1>2. Life = [g \in Renders |-> Life[g]] /\ Life' = [g \in Renders |-> Life'[g]]
  BY DEF Life
<1> QED
  BY <1>1, <1>2

(* Where only the current browser is retired, only that one is condemned.  *)
LEMMA StagesRetired ==
    ASSUME TypeOK, ClosedUnlessCurrent, StageFacts, StageFacts',
           active \in Renders, Retire(active), UNCHANGED launch
    PROVE  Life' = [b \in Renders |->
                      IF b \in {active} \cap {c \in Renders : Life[c] \in {"coming", "ready"}}
                        THEN "condemned" ELSE Life[b]]
<1>1. None \notin Renders
  BY DEF None, Renders
<1>2. /\ active' = None
      /\ \A g \in Renders : closing'[g] = "done" <=> closing[g] = "done"
  BY DEF Retire, EnsureClosed, ClosedUnlessCurrent, TypeOK, BrowserTypes
<1>3. ASSUME NEW b \in Renders
      PROVE  Life'[b] = IF b = active /\ Life[b] \in {"coming", "ready"}
                          THEN "condemned" ELSE Life[b]
  BY <1>1, <1>2 DEF StageFacts, ClosedUnlessCurrent
<1>4. Life' = [b \in Renders |-> Life'[b]]
  BY DEF Life
<1> QED
  BY <1>3, <1>4

(* Who holds a browser, after the steps of a request.                      *)
LEMMA LoanAnswered ==
    ASSUME TypeOK, NEW r \in Renders, NEW a, Answer(r, a), r \in Running
    PROVE  Loan' = [Loan EXCEPT ![r] = None]
<1>1. ASSUME NEW q \in Renders \ {r}
      PROVE  Loan'[q] = Loan[q]
  <2>1. held'[q] = held[q]
    BY AnswerMoves DEF TypeOK, RequestTypes
  <2> QED
    BY <2>1, AnswerMoves DEF Loan
<1>2. Loan'[r] = None
  BY AnswerMoves DEF Loan
<1>3. Loan = [q \in Renders |-> Loan[q]] /\ Loan' = [q \in Renders |-> Loan'[q]]
  BY DEF Loan
<1> QED
  BY <1>1, <1>2, <1>3

PoolStep == [Pool!PoolNext]_(Pool!poolVars)

LEMMA PoolStutter ==
    ASSUME UNCHANGED <<Life, Loan, closed>>
    PROVE  PoolStep
BY DEF PoolStep, Pool!poolVars, Life, Loan

LEMMA PoolLaunch ==
    ASSUME IInv, StageFacts, StageFacts', NEW r \in Renders, StartBrowser(r)
    PROVE  PoolStep
<1> USE DEF IInv, PoolInv, TypeOK, BrowserTypes
<1>1. /\ launch[r] = "none" /\ ~closed /\ closed' = closed
      /\ active # None => active \in Renders /\ launch[active] = "ok"
      /\ active' = r /\ launch' = [launch EXCEPT ![r] = "pending"]
      /\ \A g \in Renders : closing'[g] = "done" <=> closing[g] = "done"
  BY DEF StartBrowser, LaunchOrder, EnsureClosed
<1>2. ASSUME NEW b \in Renders
      PROVE  Life'[b] = IF b = r THEN "coming"
                        ELSE IF Life[b] \in {"coming", "ready"} THEN "condemned"
                        ELSE Life[b]
  <2>1. b = r => Life'[b] = "coming"
    BY <1>1 DEF StageFacts
  <2>2. b # r /\ Life[b] \in {"coming", "ready"} => Life'[b] = "condemned"
    BY <1>1 DEF StageFacts, ClosedUnlessCurrent
  <2>3. b # r /\ Life[b] \notin {"coming", "ready"} => Life'[b] = Life[b]
    BY <1>1 DEF StageFacts
  <2> QED
    BY <2>1, <2>2, <2>3
<1>3. Life[r] = "unborn"
  BY <1>1 DEF StageFacts
<1>4. Loan' = Loan
  BY DEF StartBrowser, Loan, RequestTypes
<1>5. Life' = [b \in Renders |-> Life'[b]] /\ Life = [b \in Renders |-> Life[b]]
  BY DEF Life
<1>6. Pool!Launch(r)
  BY <1>1, <1>2, <1>3, <1>4, <1>5
  DEF Life, Loan, Pool!Launch, Pool!Condemned, Pool!Current
<1> QED
  BY <1>6 DEF PoolStep, Pool!PoolNext

(* The current browser is condemned, by whoever.                           *)
LEMMA PoolCondemn ==
    ASSUME IInv, StageFacts, StageFacts', active \in Renders, Retire(active),
           UNCHANGED <<launch, Loan, closed>>
    PROVE  PoolStep
<1>1. Life' = [b \in Renders |->
                 IF b \in {active} \cap {c \in Renders : Life[c] \in {"coming", "ready"}}
                   THEN "condemned" ELSE Life[b]]
  BY StagesRetired DEF IInv, PoolInv
<1>2. CASE Life[active] \in {"coming", "ready"}
  <2>1. Pool!Condemn(active)
    BY <1>1, <1>2 DEF Life, Loan, Pool!Condemn, Pool!Condemned, Pool!Current
  <2> QED
    BY <2>1 DEF PoolStep, Pool!PoolNext
<1>3. CASE Life[active] \notin {"coming", "ready"}
  <2>1. Life' = [b \in Renders |-> Life[b]] /\ Life = [b \in Renders |-> Life[b]]
    BY <1>1, <1>3 DEF Life
  <2> QED
    BY <2>1, PoolStutter
<1> QED
  BY <1>2, <1>3

LEMMA PoolLend ==
    ASSUME IInv, StageFacts, StageFacts', NEW r \in Renders,
           Launched(r), ~Answer(r, "fault")
    PROVE  PoolStep
<1> USE DEF IInv, TypeOK
<1>1. /\ held[r] \in Renders /\ active = held[r] /\ launch[held[r]] = "ok"
      /\ pc[r] = "launching" /\ pc' = [pc EXCEPT ![r] = "setup"]
      /\ UNCHANGED <<held, launch, active, closing, closed>>
  BY DEF Launched, RequestTypes, browserVars, managerVars
<1>2. UNCHANGED Life /\ Life[held[r]] = "ready"
  BY <1>1, StagesKept DEF StageFacts
<1>3. Loan[r] = None /\ Loan' = [Loan EXCEPT ![r] = held[r]]
  BY <1>1 DEF Loan, RequestTypes
<1>4. ASSUME NEW b \in Renders, b = held[r]
      PROVE  Pool!Lend(r, b)
  BY <1>1, <1>2, <1>3, <1>4 DEF Life, Loan, Pool!Lend
<1>5. \E q \in Renders, b \in Renders : Pool!Lend(q, b)
  BY <1>1, <1>4
<1> QED
  BY <1>5 DEF PoolStep, Pool!PoolNext

LEMMA PoolReturn ==
    ASSUME IInv, StageFacts, StageFacts', NEW r \in Renders,
           SetupFails(r) \/ ContextCloses(r) \/ ContextHangs(r)
    PROVE  PoolStep
<1> USE DEF IInv, PoolInv, TypeOK
<1>1. /\ r \in Running /\ pc[r] \in {"setup", "navigate", "closing"}
      /\ \E a : Answer(r, a)
      /\ held[r] \in Renders /\ launch[held[r]] = "ok"
      /\ UNCHANGED <<launch, closed>>
      /\ Retire(held[r]) \/ UNCHANGED <<retired, active, closing>>
  BY DEF SetupFails, ContextCloses, ContextHangs, Running, RequestTypes,
         browserVars, managerVars
<1>2. Loan[r] = held[r] /\ held[r] # None
  BY <1>1 DEF Loan, None, Renders
<1>3. Loan' = [Loan EXCEPT ![r] = None]
  BY <1>1, LoanAnswered
<1>4. \/ Life' = Life
      \/ Life' = [b \in Renders |->
              IF b \in {held[r]} \cap {c \in Renders : Life[c] \in {"coming", "ready"}}
                THEN "condemned" ELSE Life[b]]
  <2>1. CASE UNCHANGED <<retired, active, closing>>
    BY <1>1, <2>1, StagesKept
  <2>2. CASE Retire(held[r]) /\ held[r] \notin retired
    <3>1. held[r] = active
      BY <1>1, <2>2 DEF ClosedUnlessCurrent
    <3> QED
      BY <1>1, <2>2, <3>1, StagesRetired
  <2> QED
    BY <1>1, <2>1, <2>2 DEF Retire
<1>5. Pool!Return(r)
  BY <1>1, <1>2, <1>3, <1>4
  DEF Life, Loan, Pool!Return, Pool!Condemned, Pool!Current
<1> QED
  BY <1>5 DEF PoolStep, Pool!PoolNext

LEMMA PoolRequest ==
    ASSUME IInv, StageFacts, StageFacts',
           NEW r \in Renders, Arrive(r) \/ RenderStep(r)
    PROVE  PoolStep
<1> USE DEF IInv, PoolInv, TypeOK
<1>1. UNCHANGED closed
  BY RenderEffects
<1>2. ASSUME UNCHANGED <<browserVars, managerVars>>, UNCHANGED Loan
      PROVE  PoolStep
  BY <1>2, StagesKept, PoolStutter DEF browserVars, managerVars
<1>3. CASE Arrive(r)
  BY <1>2, <1>3 DEF Arrive, TurnAway, Admit, Loan, RequestTypes
<1>4. CASE JoinBrowser(r)
  BY <1>2, <1>4 DEF JoinBrowser, Loan, RequestTypes
<1>5. CASE PreparePage(r) \/ PageRendered(r) \/ BrowserLost(r)
  BY <1>2, <1>5 DEF PreparePage, PageRendered, BrowserLost, Rendered, Loan, RequestTypes
<1>6. ASSUME pc[r] \in {"starting", "launching"}, \E a : Answer(r, a)
      PROVE  UNCHANGED Loan
  <2>1. Loan' = [Loan EXCEPT ![r] = None]
    BY <1>6, LoanAnswered DEF Running
  <2>2. Loan[r] = None
    BY <1>6 DEF Loan
  <2> QED
    BY <2>1, <2>2 DEF Loan
<1>7. CASE NoBrowser(r)
  BY <1>2, <1>6, <1>7 DEF NoBrowser
<1>8. CASE Launched(r) /\ Answer(r, "fault")
  <2>1. UNCHANGED Loan
    BY <1>6, <1>8 DEF Launched
  <2>2. ~StartBrowser(r) /\ UNCHANGED <<launch, active>>
    BY <1>8 DEF Launched, StartBrowser, browserVars, managerVars
  <2>3. \A g \in Renders : closing'[g] = "done" <=> closing[g] = "done"
    BY <1>8 DEF Launched, EnsureClosed, BrowserTypes, managerVars
  <2> QED
    BY <1>1, <2>1, <2>2, <2>3, StagesKept, PoolStutter
<1>9. CASE LaunchGivenUp(r)
  <2>1. UNCHANGED Loan
    BY <1>6, <1>9 DEF LaunchGivenUp
  <2>2. held[r] \in Renders /\ UNCHANGED launch
    BY <1>9 DEF LaunchGivenUp, RequestTypes, browserVars
  <2>3. CASE active = held[r]
    BY <1>1, <1>9, <2>1, <2>2, <2>3, PoolCondemn DEF LaunchGivenUp
  <2>4. CASE active # held[r]
    BY <1>9, <1>1, <2>1, <2>2, <2>4, StagesKept, PoolStutter DEF LaunchGivenUp
  <2> QED
    BY <2>3, <2>4
<1> QED
  BY <1>3, <1>4, <1>5, <1>7, <1>8, <1>9, PoolLaunch, PoolLend, PoolReturn
  DEF RenderStep

(* What settles by itself: a launch, a close, a death.                     *)
LEMMA PoolSettles ==
    ASSUME IInv, StageFacts, StageFacts', NEW g \in Renders,
           LaunchSettles(g) \/ CloseStep(g) \/ BrowserDies(g)
    PROVE  PoolStep
<1> USE DEF IInv, PoolInv, TypeOK, BrowserTypes
<1>1. UNCHANGED <<Loan, closed, active>>
  BY DEF LaunchSettles, LaunchResolves, LaunchRejects, CloseStep, CloseMisses,
         CloseSettles, BrowserDies, requestVars, managerVars, Loan
<1>2. Life' = [b \in Renders |-> Life'[b]] /\ Life = [b \in Renders |-> Life[b]]
  BY DEF Life
<1>3. CASE LaunchResolves(g)
  <2>1. /\ launch[g] = "pending" /\ launch' = [launch EXCEPT ![g] = "ok"]
        /\ \A b \in Renders : closing'[b] = "done" <=> closing[b] = "done"
        /\ closing[g] # "done"
    BY <1>3 DEF LaunchResolves, EnsureClosed, ClosedUnlessCurrent
  <2>2. \A b \in Renders \ {g} : Life'[b] = Life[b]
    BY <1>1, <2>1 DEF StageFacts
  <2>3. CASE g = active
    <3>1. Life[g] = "coming" /\ Life'[g] = "ready"
      BY <1>1, <2>1, <2>3 DEF StageFacts
    <3>2. Pool!BecomeReady(g)
      BY <1>1, <1>2, <2>2, <3>1 DEF Life, Loan, Pool!BecomeReady
    <3> QED
      BY <3>2 DEF PoolStep, Pool!PoolNext
  <2>4. CASE g # active
    <3>1. Life'[g] = Life[g]
      BY <1>1, <2>1, <2>4 DEF StageFacts
    <3> QED
      BY <1>1, <1>2, <2>2, <3>1, PoolStutter
  <2> QED
    BY <2>3, <2>4
<1>4. ASSUME Life[g] \in {"coming", "condemned"}, Life'[g] = "gone",
             \A b \in Renders \ {g} : Life'[b] = Life[b]
      PROVE  PoolStep
  <2>1. Pool!Vanish(g)
    BY <1>1, <1>2, <1>4 DEF Life, Loan, Pool!Vanish
  <2> QED
    BY <2>1 DEF PoolStep, Pool!PoolNext
<1>5. CASE LaunchRejects(g)
  <2>1. launch[g] = "pending" /\ launch' = [launch EXCEPT ![g] = "failed"]
        /\ closing' = closing /\ closing[g] = "none"
    BY <1>5 DEF LaunchRejects, ClosedUnlessCurrent
  <2>2. Life[g] \in {"coming", "condemned"} /\ Life'[g] = "gone"
    BY <1>1, <2>1 DEF StageFacts
  <2>3. \A b \in Renders \ {g} : Life'[b] = Life[b]
    BY <1>1, <2>1 DEF StageFacts
  <2> QED
    BY <1>4, <2>2, <2>3
<1>6. CASE CloseSettles(g)
  <2>1. /\ closing[g] \in {"graceful", "forced"} /\ launch' = launch
        /\ closing' = [closing EXCEPT ![g] = "done"]
    BY <1>6 DEF CloseSettles
  <2>2. launch[g] = "ok" /\ g # active
    BY <2>1 DEF ClosedUnlessCurrent
  <2> QED
    BY <1>1, <1>4, <2>1, <2>2 DEF StageFacts
<1>7. CASE CloseMisses(g) \/ BrowserDies(g)
  <2>1. /\ launch' = launch
        /\ \A b \in Renders : closing'[b] = "done" <=> closing[b] = "done"
    BY <1>7 DEF CloseMisses, BrowserDies, managerVars
  <2> QED
    BY <1>1, <2>1, StagesKept, PoolStutter
<1> QED
  BY <1>3, <1>5, <1>6, <1>7 DEF LaunchSettles, CloseStep

(* The shutdown.                                                           *)
LEMMA PoolStop ==
    ASSUME IInv, StageFacts, StageFacts', Signal \/ StopStep
    PROVE  PoolStep
<1> USE DEF IInv, PoolInv, TypeOK, BrowserTypes
<1>1. CASE CloseManager
  <2>1. /\ closed = FALSE /\ closed' = TRUE
        /\ UNCHANGED <<Loan, launch>>
        /\ \A g \in Renders : closing'[g] = "done" <=> closing[g] = "done"
        /\ active' = IF active \in generations THEN None ELSE active
    BY <1>1
    DEF CloseManager, EnsureClosed, ShutdownCovers, requestVars, browserVars, Loan
  <2>2. None \notin Renders
    BY DEF None, Renders
  <2>3. ASSUME NEW b \in Renders
        PROVE  Life'[b] = IF Life[b] \in {"coming", "ready"}
                            THEN "condemned" ELSE Life[b]
    BY <2>1, <2>2 DEF StageFacts, SetIsExact, ClosedUnlessCurrent
  <2>4. Life' = [b \in Renders |-> Life'[b]]
    BY DEF Life
  <2>5. Pool!Shut
    BY <2>1, <2>3, <2>4
    DEF Life, Loan, Pool!Shut, Pool!Condemned, Pool!Current
  <2> QED
    BY <2>5 DEF PoolStep, Pool!PoolNext
<1>2. CASE Signal \/ LaunchesSettle \/ ClosesSettle \/ BudgetSpent
  <2>1. UNCHANGED <<requestVars, browserVars, managerVars>>
    BY <1>2 DEF Signal, LaunchesSettle, ClosesSettle, BudgetSpent
  <2>2. UNCHANGED <<Loan, closed>>
    BY <2>1 DEF requestVars, managerVars, Loan
  <2> QED
    BY <2>1, <2>2, StagesKept, PoolStutter DEF browserVars, managerVars
<1> QED
  BY <1>1, <1>2 DEF StopStep

(* Late launches, deadlines, retirements by other renders and the shutdown *)
(* add up to the browsers that SharedBrowser promises: one at a time, lent *)
(* only while it is ready and current, never back once condemned.          *)
THEOREM RendererImplementsPool == Spec => ImplementsSharedBrowser
<1>1. Init => Pool!PoolInit
  BY DEF Init, StageOf, Pool!PoolInit
<1>2. IInv /\ StageFacts /\ StageFacts' /\ [Next]_vars => PoolStep
  <2> SUFFICES ASSUME IInv, StageFacts, StageFacts', [Next]_vars
               PROVE  PoolStep
    OBVIOUS
  <2>1. CASE UNCHANGED vars
    <3>1. UNCHANGED <<Loan, closed>>
      BY <2>1 DEF vars, requestVars, managerVars, Loan
    <3> QED
      BY <2>1, <3>1, StagesKept, PoolStutter DEF vars, browserVars, managerVars
  <2> QED
    BY <2>1, PoolRequest, PoolSettles, PoolStop DEF Next
<1> QED
  BY <1>1, <1>2, StageCases, PoolInvariant, PTL
  DEF Spec, ImplementsSharedBrowser, Pool!PoolSpec, PoolStep
=============================================================================
