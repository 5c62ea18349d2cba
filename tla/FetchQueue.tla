----------------------------- MODULE FetchQueue -----------------------------
(***************************************************************************)
(* The per-domain politeness of packages/core/src/fetch and /render: every *)
(* retrieval runs behind the queue of its host, whichever transport it     *)
(* uses, and a queue is evicted once its domain is idle.                   *)
(*                                                                         *)
(* A PQueue of concurrency 1 starts its oldest task whenever none runs.    *)
(* A task leaves in two steps, as the code awaits: its function settles    *)
(* (and the queue starts the next one), then its `finally` runs.  Between  *)
(* the two any other task may come.  A page is a status; durations,        *)
(* headers and bodies are left out.                                        *)
(***************************************************************************)
EXTENDS Naturals, Sequences, SequencesExt, FiniteSets

CONSTANTS
    Tasks,        \* calls of fetchPage, and renders run behind the queue
    Urls,         \* what may be asked for
    HostOf,       \* hostnameKey of a URL, or None when it will not parse
    Queues,       \* identities of PQueue objects
    Answers,      \* what an attempt may come to, of Origin and of Sidecar
    MaxRetries,   \* DEFAULT_MAX_RETRIES
    None

(* A PQueue is made whenever one is wanted: there is one for each task.    *)
ASSUME FetchAssumption ==
    /\ MaxRetries \in Nat
    /\ None \notin Queues \cup Tasks \cup Urls /\ Urls \subseteq DOMAIN HostOf
    /\ IsFiniteSet(Tasks) /\ IsFiniteSet(Queues)
    /\ Cardinality(Tasks) <= Cardinality(Queues)

Hosts == {HostOf[u] : u \in Urls} \ {None}

VARIABLES
    queues,    \* host -> the queue in the map, or None
    waiting,   \* queue -> tasks not started, oldest first
    running,   \* queue -> its task, or None (a PQueue's pending)
    task       \* what each task is doing

vars == <<queues, waiting, running, task>>

Steps == {"idle", "waiting", "attempt", "sleeping", "settled"}
Statuses == {"ok", "not_modified", "http_error", "network_error", "timeout", "renderer_error"}
Task == [step : Steps, url : Urls \cup {None}, transport : {"http", "browser"},
         queue : Queues \cup {None}, attempt : 0..MaxRetries,
         result : Statuses \cup {None}]

TypeOK ==
    /\ queues \in [Hosts -> Queues \cup {None}]
    /\ waiting \in [Queues -> Seq(Tasks)]
    /\ running \in [Queues -> Tasks \cup {None}]
    /\ task \in [Tasks -> Task]
    /\ \A q \in Queues : running[q] = None => waiting[q] = <<>>

Idle == [step |-> "idle", url |-> None, transport |-> "http", queue |-> None,
         attempt |-> 0, result |-> None]

Init ==
    /\ queues = [h \in Hosts |-> None]
    /\ waiting = [q \in Queues |-> <<>>] /\ running = [q \in Queues |-> None]
    /\ task = [t \in Tasks |-> Idle]

-----------------------------------------------------------------------------
(* What an origin or the sidecar may answer. *)

(* attemptFetch: the response, by what becomes of it.                      *)
Origin == {"ok", "304", "404", "429", "5xx", "too_large", "reset", "timeout"}
FetchResult(answer) ==
    CASE answer = "ok" -> "ok"
      [] answer = "304" -> "not_modified"
      [] answer \in {"404", "429", "5xx", "too_large"} -> "http_error"
      [] answer = "reset" -> "network_error"
      [] answer = "timeout" -> "timeout"

(* isRetryable, isRetryableStatus                                          *)
Retryable(answer) == answer \in {"reset", "429", "5xx"}

(* renderPage: a fault of the sidecar is kept apart from one of the page.  *)
Sidecar == {"ok", "http_error", "network_error", "timeout",
            "non_200", "invalid", "malformed", "unreachable", "late"}
RenderResult(answer) ==
    IF answer \in {"ok", "http_error", "network_error", "timeout"} THEN answer ELSE "renderer_error"

-----------------------------------------------------------------------------
(* withDomainQueue *)

Fresh(q) == (\A h \in Hosts : queues[h] # q) /\ \A t \in Tasks : task[t].queue # q
QueueFor(h) == IF queues[h] # None THEN queues[h] ELSE CHOOSE q \in Queues : Fresh(q)

(* A URL that will not parse runs unqueued; fetchPage refuses it before.   *)
Enter(t, u, transport) ==
    /\ task[t].step = "idle"
    /\ LET joined == [Idle EXCEPT !.url = u, !.transport = transport]
       IN  IF HostOf[u] = None
           THEN /\ task' = [task EXCEPT ![t] =
                     IF transport = "http"
                     THEN [joined EXCEPT !.step = "settled", !.result = "network_error"]
                     ELSE [joined EXCEPT !.step = "attempt"]]
                /\ UNCHANGED <<queues, waiting, running>>
           ELSE LET q == QueueFor(HostOf[u])
                IN
                  /\ queues' = [queues EXCEPT ![HostOf[u]] = q]
                  /\ IF running[q] = None
                     THEN /\ running' = [running EXCEPT ![q] = t]
                          /\ task' = [task EXCEPT ![t] = [joined EXCEPT !.queue = q, !.step = "attempt"]]
                          /\ UNCHANGED waiting
                     ELSE /\ waiting' = [waiting EXCEPT ![q] = Append(@, t)]
                          /\ task' = [task EXCEPT ![t] = [joined EXCEPT !.queue = q, !.step = "waiting"]]
                          /\ UNCHANGED running

SettleUnstarted(t, status) ==
    LET q == task[t].queue
        done == [task EXCEPT ![t].step = "settled", ![t].result = status]
    IN  IF q = None
        THEN task' = done /\ UNCHANGED <<waiting, running>>
        ELSE task' = done /\ running' = [running EXCEPT ![q] = None] /\ UNCHANGED waiting

(* The function of a task settles: the queue counts it out and starts the  *)
(* next.                                                                   *)
Settle(t, status) ==
    LET q == task[t].queue
        done == [task EXCEPT ![t].step = "settled", ![t].result = status]
    IN  IF q = None
        THEN task' = done /\ UNCHANGED <<waiting, running>>
        ELSE IF waiting[q] = <<>>
        THEN task' = done /\ running' = [running EXCEPT ![q] = None] /\ UNCHANGED waiting
        ELSE /\ task' = [done EXCEPT ![Head(waiting[q])].step = "attempt"]
             /\ running' = [running EXCEPT ![q] = Head(waiting[q])]
             /\ waiting' = [waiting EXCEPT ![q] = Tail(@)]

(* fetchWithRetries: the slot is held while it sleeps.                     *)
AfterAttempt(t, answer) ==
    IF task[t].attempt < MaxRetries /\ Retryable(answer)
    THEN task' = [task EXCEPT ![t].step = "sleeping"] /\ UNCHANGED <<waiting, running>>
    ELSE Settle(t, FetchResult(answer))

Fetched(t, answer) ==
    /\ task[t].step = "attempt" /\ task[t].transport = "http"
    /\ AfterAttempt(t, answer)
    /\ UNCHANGED queues

Wake(t) ==
    /\ task[t].step = "sleeping"
    /\ task' = [task EXCEPT ![t].step = "attempt", ![t].attempt = @ + 1]
    /\ UNCHANGED <<queues, waiting, running>>

(* renderPage does not retry.                                              *)
Rendered(t, answer) ==
    /\ task[t].step = "attempt" /\ task[t].transport = "browser"
    /\ Settle(t, RenderResult(answer))
    /\ UNCHANGED queues

(* The `finally`: the queue goes when it is idle and still the one in the  *)
(* map.                                                                    *)
EvictedIfBusy(q, h) == queues[h] = q
Evicted(q, h) == running[q] = None /\ waiting[q] = <<>> /\ queues[h] = q

Leave(t) ==
    LET q == task[t].queue
        h == HostOf[task[t].url]
    IN  /\ task[t].step = "settled"
        /\ queues' = IF q # None /\ Evicted(q, h) THEN [queues EXCEPT ![h] = None] ELSE queues
        /\ task' = [task EXCEPT ![t] = Idle]
        /\ UNCHANGED <<waiting, running>>

Attempt(t) == (\E a \in Answers \cap Origin : Fetched(t, a)) \/ \E a \in Answers \cap Sidecar : Rendered(t, a)
Step(t) == Attempt(t) \/ Wake(t) \/ Leave(t)
Next == \E t \in Tasks :
          \/ \E u \in Urls, transport \in {"http", "browser"} : Enter(t, u, transport)
          \/ Step(t)

(* Every attempt has a deadline, and sleeps end.                           *)
Spec == Init /\ [][Next]_vars /\ \A t \in Tasks : WF_vars(Step(t))

-----------------------------------------------------------------------------
(* Properties *)

At(h) == {t \in Tasks : task[t].step \in {"attempt", "sleeping"} /\ task[t].queue # None
                          /\ HostOf[task[t].url] = h}

(* "one request in flight per domain" (fetch/index.ts:4): over both        *)
(* transports, retries and their backoff included, and although queues     *)
(* come and go while others still leave them.                              *)
OnePerDomain == \A h \in Hosts : Cardinality(At(h)) <= 1

(* "Evict the queue once the domain is idle so the map cannot grow without *)
(* bound" (fetch/index.ts:393): a queue in the map has a task of its       *)
(* domain, and every task still to run is in the queue of the map.         *)
QueuesAreUsed ==
    /\ \A h \in Hosts : queues[h] # None =>
         \E t \in Tasks : task[t].queue = queues[h] /\ HostOf[task[t].url] = h
    /\ \A t \in Tasks : task[t].step \in {"waiting", "attempt", "sleeping"} /\ task[t].queue # None
         => queues[HostOf[task[t].url]] = task[t].queue

(* A task that waits for its domain gets its turn, whatever the attempts   *)
(* before it come to and however long they back off (withDomainQueue).     *)
TurnComes == \A t \in Tasks : []<>(task[t].step = "idle")
=============================================================================
