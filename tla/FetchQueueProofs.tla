-------------------------- MODULE FetchQueueProofs --------------------------
(***************************************************************************)
(* One request in flight per domain, for any number of tasks, URLs and     *)
(* hosts, and the bookkeeping of withDomainQueue behind it.                *)
(*                                                                         *)
(* A queue is replaced while tasks that it ran still leave it, so a task   *)
(* and the map may disagree about the queue of a host.  What holds is that *)
(* they agree for every task still to run (Mapped): a queue leaves the map *)
(* only when it neither runs a task nor has one waiting (Placed), and a    *)
(* new one is nobody's (Own).  Two requests of one domain would then hold  *)
(* one queue, which runs one task (Held).                                  *)
(***************************************************************************)
EXTENDS FetchQueue, FiniteSetTheorems, TLAPS

Todo(t) == task[t].step \in {"waiting", "attempt", "sleeping"}
Runs(t) == task[t].step \in {"attempt", "sleeping"}
HostAt(t) == HostOf[task[t].url]

(* A task is in a queue on behalf of a host.                               *)
Known ==
    \A t \in Tasks :
        /\ task[t].queue # None => task[t].url \in Urls /\ HostAt(t) \in Hosts
        /\ task[t].step = "idle" => task[t].queue = None
        /\ task[t].step = "waiting" => task[t].queue # None

(* A queue runs exactly the task that holds it.                            *)
Held ==
    /\ \A t \in Tasks : Runs(t) /\ task[t].queue # None => running[task[t].queue] = t
    /\ \A q \in Queues : running[q] # None =>
           running[q] \in Tasks /\ Runs(running[q]) /\ task[running[q]].queue = q

(* A line holds the tasks that wait for its queue, each of them once.      *)
Placed ==
    /\ \A q \in Queues : \A i \in 1..Len(waiting[q]) :
           /\ task[waiting[q][i]].step = "waiting" /\ task[waiting[q][i]].queue = q
           /\ \A j \in 1..Len(waiting[q]) : waiting[q][i] = waiting[q][j] => i = j
    /\ \A t \in Tasks : task[t].step = "waiting" =>
           \E i \in 1..Len(waiting[task[t].queue]) : waiting[task[t].queue][i] = t

(* A task still to run is in the queue of the map.                         *)
Mapped == \A t \in Tasks : Todo(t) /\ task[t].queue # None => queues[HostAt(t)] = task[t].queue

(* No queue serves two hosts, and one in the map serves some task.         *)
Own == \A h, g \in Hosts : queues[h] = queues[g] /\ queues[h] # None => h = g
Used ==
    \A h \in Hosts : queues[h] # None =>
        \E t \in Tasks : task[t].queue = queues[h] /\ HostAt(t) = h

(* A task sleeps only before an attempt it still has.                      *)
Retries == \A t \in Tasks : task[t].step = "sleeping" => task[t].attempt < MaxRetries

IInv == TypeOK /\ Retries /\ Known /\ Held /\ Placed /\ Mapped /\ Own /\ Used

-----------------------------------------------------------------------------
(* The steps, by what they do to tasks, lines and map.                     *)

Others(t) == \A b \in Tasks : b # t => task'[b] = task[b]
SameQueue(t) == task'[t].queue = task[t].queue /\ task'[t].url = task[t].url

Joins(t, u, q) ==
    /\ task[t].step = "idle" /\ HostOf[u] \in Hosts /\ q \in Queues
    /\ queues[HostOf[u]] = q \/ (queues[HostOf[u]] = None /\ Fresh(q))
    /\ queues' = [queues EXCEPT ![HostOf[u]] = q]
    /\ Others(t) /\ task'[t].queue = q /\ task'[t].url = u
    /\ \/ /\ running[q] = None /\ task'[t].step = "attempt"
          /\ running' = [running EXCEPT ![q] = t]
          /\ UNCHANGED waiting
       \/ /\ running[q] # None /\ task'[t].step = "waiting"
          /\ waiting' = [waiting EXCEPT ![q] = Append(@, t)]
          /\ UNCHANGED running

Unqueued(t) ==
    /\ Others(t)
    /\ task[t].queue = None /\ task'[t].queue = None
    /\ task'[t].step \in {"attempt", "sleeping", "settled"}
    /\ UNCHANGED <<queues, waiting, running>>

Stays(t) ==
    /\ Others(t) /\ SameQueue(t)
    /\ task[t].step \in {"attempt", "sleeping"} /\ task'[t].step \in {"attempt", "sleeping"}
    /\ UNCHANGED <<queues, waiting, running>>

SettlesLast(t) ==
    /\ task[t].queue \in Queues /\ Runs(t)
    /\ Others(t) /\ SameQueue(t) /\ task'[t].step = "settled"
    /\ waiting[task[t].queue] = <<>>
    /\ running' = [running EXCEPT ![task[t].queue] = None]
    /\ UNCHANGED <<queues, waiting>>

Hands(t, n) ==
    /\ task[t].queue \in Queues /\ Runs(t) /\ n # t
    /\ waiting[task[t].queue] # <<>> /\ n = Head(waiting[task[t].queue])
    /\ \A b \in Tasks : b # t /\ b # n => task'[b] = task[b]
    /\ SameQueue(t) /\ task'[t].step = "settled"
    /\ SameQueue(n) /\ task'[n].step = "attempt"
    /\ running' = [running EXCEPT ![task[t].queue] = n]
    /\ waiting' = [waiting EXCEPT ![task[t].queue] = Tail(@)]
    /\ UNCHANGED queues

(* While a task is idle some queue is nobody's.                            *)
LEMMA ThereIsAQueue ==
    ASSUME TypeOK, Known, Used, NEW t \in Tasks, task[t].step = "idle"
    PROVE  \E q \in Queues : Fresh(q)
<1> DEFINE S == Tasks \ {t}
           f == [b \in S |-> task[b].queue]
           T == {f[b] : b \in S}
<1>1. IsFiniteSet(S) /\ Cardinality(S) = Cardinality(Tasks) - 1
  BY FS_RemoveElement, FetchAssumption
<1>2. IsFiniteSet(T) /\ Cardinality(T) <= Cardinality(S)
  <2>1. f \in Surjection(S, T)
    BY DEF Surjection
  <2> HIDE DEF f, T
  <2> QED
    BY <1>1, <2>1, FS_Surjection
<1>3. PICK q \in Queues : q \notin T
  <2>1. SUFFICES ASSUME Queues \subseteq T PROVE FALSE
    OBVIOUS
  <2> HIDE DEF T, S
  <2>2. Cardinality(Queues) <= Cardinality(T)
    BY <1>2, <2>1, FS_Subset
  <2>3. /\ Cardinality(Queues) \in Nat /\ Cardinality(Tasks) \in Nat
        /\ Cardinality(T) \in Nat /\ Cardinality(S) \in Nat
    BY <1>1, <1>2, FS_CardinalityType, FetchAssumption
  <2> QED
    BY <1>1, <1>2, <2>2, <2>3, FetchAssumption
<1>4. \A b \in Tasks : task[b].queue # q
  BY <1>3, FetchAssumption DEF Known
<1> QED
  BY <1>3, <1>4, FetchAssumption DEF Fresh, Used

LEMMA EnterKinds ==
    ASSUME TypeOK, Known, Used, NEW t \in Tasks, NEW u \in Urls,
           NEW transport \in {"http", "browser"}, Enter(t, u, transport)
    PROVE  Unqueued(t) \/ \E q \in Queues : Joins(t, u, q)
<1> DEFINE joined == [Idle EXCEPT !.url = u, !.transport = transport]
<1>1. task[t].step = "idle" /\ task[t].queue = None
  BY DEF Enter, Known
<1>2. CASE HostOf[u] = None
  <2>1. /\ task' = [task EXCEPT ![t] =
             IF transport = "http"
             THEN [joined EXCEPT !.step = "settled", !.result = "network_error"]
             ELSE [joined EXCEPT !.step = "attempt"]]
        /\ UNCHANGED <<queues, waiting, running>>
    BY <1>2 DEF Enter
  <2> QED
    BY <1>1, <2>1 DEF Unqueued, Others, TypeOK, Idle
<1>3. CASE HostOf[u] # None
  <2> DEFINE q == QueueFor(HostOf[u])
  <2>1. /\ queues' = [queues EXCEPT ![HostOf[u]] = q]
        /\ IF running[q] = None
           THEN /\ running' = [running EXCEPT ![q] = t]
                /\ task' = [task EXCEPT ![t] = [joined EXCEPT !.queue = q, !.step = "attempt"]]
                /\ UNCHANGED waiting
           ELSE /\ waiting' = [waiting EXCEPT ![q] = Append(@, t)]
                /\ task' = [task EXCEPT ![t] = [joined EXCEPT !.queue = q, !.step = "waiting"]]
                /\ UNCHANGED running
    BY <1>3 DEF Enter
  <2>2. HostOf[u] \in Hosts
    BY <1>3 DEF Hosts
  <2>3. q \in Queues /\ (queues[HostOf[u]] = q \/ (queues[HostOf[u]] = None /\ Fresh(q)))
    BY <1>1, <2>2, ThereIsAQueue DEF QueueFor, TypeOK
  <2> HIDE DEF q
  <2>4. task'[t].queue = q /\ task'[t].url = u /\ Others(t)
    BY <2>1 DEF Others, TypeOK, Idle
  <2>5. task'[t].step = IF running[q] = None THEN "attempt" ELSE "waiting"
    BY <2>1 DEF TypeOK, Idle
  <2> QED
    BY <1>1, <2>1, <2>2, <2>3, <2>4, <2>5 DEF Joins
<1> QED
  BY <1>2, <1>3

LEMMA SettleKinds ==
    ASSUME TypeOK, Known, Held, Placed, NEW t \in Tasks, NEW status, task[t].step = "attempt",
           Settle(t, status), UNCHANGED queues
    PROVE  Unqueued(t) \/ SettlesLast(t) \/ \E n \in Tasks : Hands(t, n)
<1> DEFINE q == task[t].queue
           done == [task EXCEPT ![t].step = "settled", ![t].result = status]
           n == Head(waiting[q])
<1>1. /\ done \in [Tasks -> {done[b] : b \in Tasks}]
      /\ done[t].step = "settled" /\ done[t].queue = q /\ done[t].url = task[t].url
      /\ \A b \in Tasks : b # t => done[b] = task[b]
  BY DEF TypeOK, Task
<1>2. CASE q = None
  <2>1. task' = done /\ UNCHANGED <<waiting, running>>
    BY <1>2 DEF Settle
  <2> QED
    BY <1>1, <1>2, <2>1 DEF Unqueued, Others
<1>3. CASE q # None /\ waiting[q] = <<>>
  <2>1. task' = done /\ running' = [running EXCEPT ![q] = None] /\ UNCHANGED waiting
    BY <1>3 DEF Settle
  <2>2. q \in Queues
    BY <1>3 DEF TypeOK, Task
  <2> QED
    BY <1>1, <1>3, <2>1, <2>2 DEF SettlesLast, Others, SameQueue, Runs
<1>4. CASE q # None /\ waiting[q] # <<>>
  <2>1. /\ task' = [done EXCEPT ![n].step = "attempt"]
        /\ running' = [running EXCEPT ![q] = n]
        /\ waiting' = [waiting EXCEPT ![q] = Tail(@)]
    BY <1>4 DEF Settle
  <2>2. q \in Queues
    BY <1>4 DEF TypeOK, Task
  <2>3. waiting[q] \in Seq(Tasks) /\ 1 \in 1..Len(waiting[q]) /\ n = waiting[q][1] /\ n \in Tasks
    BY <1>4, <2>2 DEF TypeOK
  <2>4. n # t
    BY <2>2, <2>3 DEF Placed
  <2> HIDE DEF n, done, q
  <2>5. /\ task'[t] = done[t]
        /\ \A b \in Tasks : b # t /\ b # n => task'[b] = task[b]
    BY <1>1, <2>1, <2>3, <2>4
  <2>6. task[n] \in Task /\ done[n] = task[n]
    BY <1>1, <2>3, <2>4 DEF TypeOK
  <2>7. task'[n] = [task[n] EXCEPT !.step = "attempt"]
    BY <1>1, <2>1, <2>3, <2>6
  <2>8. SameQueue(n) /\ task'[n].step = "attempt"
    BY <2>6, <2>7 DEF SameQueue, Task
  <2> QED
    BY <1>1, <1>4, <2>1, <2>2, <2>3, <2>4, <2>5, <2>8 DEF Hands, SameQueue, Runs, q, n
<1> QED
  BY <1>2, <1>3, <1>4

LEMMA StepKinds ==
    ASSUME TypeOK, Known, Used, Held, Placed, Next
    PROVE  \E t \in Tasks :
              \/ Unqueued(t) \/ Stays(t) \/ SettlesLast(t) \/ Leave(t)
              \/ \E u \in Urls, q \in Queues : Joins(t, u, q)
              \/ \E n \in Tasks : Hands(t, n)
<1>1. PICK t \in Tasks :
         \/ \E u \in Urls, transport \in {"http", "browser"} : Enter(t, u, transport)
         \/ Step(t)
  BY DEF Next
<1>2. CASE \E u \in Urls, transport \in {"http", "browser"} : Enter(t, u, transport)
  BY <1>2, EnterKinds
<1>3. ASSUME task[t].step \in {"attempt", "sleeping"}, NEW s \in {"attempt", "sleeping"},
             Others(t), SameQueue(t), task'[t].step = s, UNCHANGED <<queues, waiting, running>>
      PROVE  Stays(t)
  BY <1>3 DEF Stays
<1>4. ASSUME NEW a, Fetched(t, a)
      PROVE  Stays(t) \/ \E status : Settle(t, status) /\ task[t].step = "attempt" /\ UNCHANGED queues
  <2>1. CASE task[t].attempt < MaxRetries /\ Retryable(a)
    <3>1. /\ task' = [task EXCEPT ![t].step = "sleeping"]
          /\ UNCHANGED <<queues, waiting, running>> /\ task[t].step = "attempt"
      BY <1>4, <2>1 DEF Fetched, AfterAttempt
    <3>2. Others(t) /\ SameQueue(t) /\ task'[t].step = "sleeping"
      BY <3>1 DEF Others, SameQueue, TypeOK, Task
    <3> QED
      BY <1>3, <3>1, <3>2
  <2>2. CASE ~(task[t].attempt < MaxRetries /\ Retryable(a))
    BY <1>4, <2>2 DEF Fetched, AfterAttempt
  <2> QED
    BY <2>1, <2>2
<1>5. ASSUME NEW a, Rendered(t, a)
      PROVE  \E status : Settle(t, status) /\ task[t].step = "attempt" /\ UNCHANGED queues
  BY <1>5 DEF Rendered
<1>6. ASSUME Wake(t) PROVE Stays(t)
  <2>1. Others(t) /\ SameQueue(t) /\ task'[t].step = "attempt"
    BY <1>6 DEF Wake, Others, SameQueue, TypeOK, Task
  <2> QED
    BY <1>3, <1>6, <2>1 DEF Wake
<1> QED
  BY <1>1, <1>2, <1>4, <1>5, <1>6, SettleKinds DEF Step, Attempt

-----------------------------------------------------------------------------
(* Every step keeps the types.                                             *)

LEMMA NextLineTypes ==
    ASSUME NEW line \in Seq(Tasks), line # <<>>
    PROVE  Head(line) \in Tasks /\ Tail(line) \in Seq(Tasks)
OBVIOUS

LEMMA FieldTypes ==
    ASSUME NEW x \in Task, NEW s \in Steps
    PROVE  /\ [x EXCEPT !.step = s] \in Task
           /\ \A r \in Statuses : [x EXCEPT !.step = s, !.result = r] \in Task
           /\ \A q \in Queues : [x EXCEPT !.queue = q, !.step = s] \in Task
           /\ x.attempt < MaxRetries => [x EXCEPT !.step = s, !.attempt = @ + 1] \in Task
<1>1. [x EXCEPT !.step = s] \in Task
  BY DEF Task
<1>2. ASSUME NEW r \in Statuses PROVE [x EXCEPT !.step = s, !.result = r] \in Task
  BY DEF Task
<1>3. ASSUME NEW q \in Queues PROVE [x EXCEPT !.queue = q, !.step = s] \in Task
  BY DEF Task
<1>4. ASSUME x.attempt < MaxRetries PROVE [x EXCEPT !.step = s, !.attempt = @ + 1] \in Task
  <2>1. x.attempt \in 0..MaxRetries
    BY DEF Task
  <2>2. x.attempt + 1 \in 0..MaxRetries
    BY <1>4, <2>1, FetchAssumption
  <2> QED
    BY <2>2 DEF Task
<1> QED
  BY <1>1, <1>2, <1>3, <1>4

LEMMA IdleTypes ==
    /\ Idle \in Task
    /\ \A u \in Urls, transport \in {"http", "browser"} :
          [Idle EXCEPT !.url = u, !.transport = transport] \in Task
<1>1. Idle \in Task
  <2>1. 0 \in 0..MaxRetries
    BY FetchAssumption
  <2>2. Idle = [step |-> "idle", url |-> None, transport |-> "http", queue |-> None,
                attempt |-> 0, result |-> None]
    BY DEF Idle
  <2> QED
    BY <2>1, <2>2 DEF Steps, Task
<1>2. ASSUME NEW x \in Task, NEW u \in Urls, NEW transport \in {"http", "browser"}
      PROVE  [x EXCEPT !.url = u, !.transport = transport] \in Task
  BY DEF Task
<1> QED
  BY <1>1, <1>2

LEMMA TaskTypes ==
    ASSUME TypeOK, Retries, Known, Used, Next
    PROVE  task' \in [Tasks -> Task]
<1>a. task \in [Tasks -> Task]
  BY DEF TypeOK
<1>0. PICK t \in Tasks :
         \/ \E u \in Urls, transport \in {"http", "browser"} : Enter(t, u, transport)
         \/ Step(t)
  BY DEF Next
<1>1. ASSUME NEW u \in Urls, NEW transport \in {"http", "browser"}, Enter(t, u, transport),
             HostOf[u] # None => QueueFor(HostOf[u]) \in Queues
      PROVE  task' \in [Tasks -> Task]
  <2> DEFINE joined == [Idle EXCEPT !.url = u, !.transport = transport]
  <2>1. joined \in Task
    BY IdleTypes
  <2>2. CASE HostOf[u] = None
    <3>1. task' = [task EXCEPT ![t] =
             IF transport = "http"
             THEN [joined EXCEPT !.step = "settled", !.result = "network_error"]
             ELSE [joined EXCEPT !.step = "attempt"]]
      BY <1>1, <2>2 DEF Enter
    <3>2. /\ [joined EXCEPT !.step = "settled", !.result = "network_error"] \in Task
          /\ [joined EXCEPT !.step = "attempt"] \in Task
      BY <2>1, FieldTypes DEF Steps, Statuses
    <3> HIDE DEF joined
    <3> QED
      BY <1>a, <3>1, <3>2
  <2>3. CASE HostOf[u] # None
    <3> DEFINE q == QueueFor(HostOf[u])
    <3>1. \E s \in {"attempt", "waiting"} :
             task' = [task EXCEPT ![t] = [joined EXCEPT !.queue = q, !.step = s]]
      BY <1>1, <2>3 DEF Enter
    <3>2. q \in Queues
      BY <1>1, <2>3
    <3> HIDE DEF q, joined
    <3>3. \A s \in {"attempt", "waiting"} : [joined EXCEPT !.queue = q, !.step = s] \in Task
      BY <2>1, <3>2, FieldTypes DEF Steps
    <3> QED
      BY <1>a, <3>1, <3>3
  <2> QED
    BY <2>2, <2>3
<1>2. ASSUME NEW status \in Statuses, Settle(t, status)
      PROVE  task' \in [Tasks -> Task]
  <2> DEFINE done == [task EXCEPT ![t].step = "settled", ![t].result = status]
  <2>1. done \in [Tasks -> Task]
    <3>1. [task[t] EXCEPT !.step = "settled", !.result = status] \in Task
      BY <1>a, FieldTypes DEF Steps
    <3>2. done = [task EXCEPT ![t] = [task[t] EXCEPT !.step = "settled", !.result = status]]
      BY <1>a
    <3> QED
      BY <1>a, <3>1, <3>2
  <2>2. task' = done \/ \E n \in Tasks : task' = [done EXCEPT ![n].step = "attempt"]
    <3>1. CASE task[t].queue = None \/ waiting[task[t].queue] = <<>>
      BY <1>2, <3>1 DEF Settle
    <3>2. CASE task[t].queue # None /\ waiting[task[t].queue] # <<>>
      <4>1. task[t].queue \in Queues
        BY <1>a, <3>2 DEF Task
      <4>2. Head(waiting[task[t].queue]) \in Tasks
        BY <3>2, <4>1, NextLineTypes DEF TypeOK
      <4> QED
        BY <1>2, <3>2, <4>2 DEF Settle
    <3> QED
      BY <3>1, <3>2
  <2> HIDE DEF done
  <2>3. \A n \in Tasks : [done EXCEPT ![n].step = "attempt"] \in [Tasks -> Task]
    <3> TAKE n \in Tasks
    <3>1. [done[n] EXCEPT !.step = "attempt"] \in Task
      BY <2>1, FieldTypes DEF Steps, Statuses
    <3>2. [done EXCEPT ![n].step = "attempt"] = [done EXCEPT ![n] = [done[n] EXCEPT !.step = "attempt"]]
      BY <2>1
    <3> QED
      BY <2>1, <3>1, <3>2
  <2> QED
    BY <2>1, <2>2, <2>3
<1>3. ASSUME NEW a \in Answers \cap Origin, Fetched(t, a)
      PROVE  task' \in [Tasks -> Task]
  <2>1. FetchResult(a) \in Statuses
    BY DEF Origin, FetchResult, Statuses
  <2>2. CASE task[t].attempt < MaxRetries /\ Retryable(a)
    <3>1. task' = [task EXCEPT ![t].step = "sleeping"]
      BY <1>3, <2>2 DEF Fetched, AfterAttempt
    <3>2. [task[t] EXCEPT !.step = "sleeping"] \in Task
      BY <1>a, FieldTypes DEF Steps, Statuses
    <3>3. task' = [task EXCEPT ![t] = [task[t] EXCEPT !.step = "sleeping"]]
      BY <1>a, <3>1
    <3> QED
      BY <1>a, <3>2, <3>3
  <2>3. CASE ~(task[t].attempt < MaxRetries /\ Retryable(a))
    BY <1>2, <1>3, <2>1, <2>3 DEF Fetched, AfterAttempt
  <2> QED
    BY <2>2, <2>3
<1>4. ASSUME NEW a \in Answers \cap Sidecar, Rendered(t, a)
      PROVE  task' \in [Tasks -> Task]
  <2>1. RenderResult(a) \in Statuses
    BY DEF Sidecar, RenderResult, Statuses
  <2> QED
    BY <1>2, <1>4, <2>1 DEF Rendered
<1>5. ASSUME Wake(t), task[t].attempt < MaxRetries
      PROVE  task' \in [Tasks -> Task]
  <2>1. task' = [task EXCEPT ![t].step = "attempt", ![t].attempt = @ + 1]
    BY <1>5 DEF Wake
  <2>2. [task[t] EXCEPT !.step = "attempt", !.attempt = @ + 1] \in Task
    BY <1>a, <1>5, FieldTypes DEF Steps, Statuses
  <2>3. task' = [task EXCEPT ![t] = [task[t] EXCEPT !.step = "attempt", !.attempt = @ + 1]]
    BY <1>a, <2>1
  <2> QED
    BY <1>a, <2>2, <2>3
<1>6. ASSUME Leave(t)
      PROVE  task' \in [Tasks -> Task]
  BY <1>a, <1>6, IdleTypes DEF Leave
<1> QED
  <2>1. ASSUME NEW u \in Urls, NEW transport \in {"http", "browser"}, Enter(t, u, transport),
               HostOf[u] # None
        PROVE  QueueFor(HostOf[u]) \in Queues
    BY <2>1, ThereIsAQueue DEF QueueFor, Enter, Hosts, TypeOK
  <2>2. Wake(t) => task[t].attempt < MaxRetries
    BY DEF Wake, Retries
  <2> QED
    BY <1>0, <1>1, <1>3, <1>4, <1>5, <1>6, <2>1, <2>2 DEF Step, Attempt

LEMMA RetriesStep ==
    ASSUME TypeOK, Retries, Held, Placed, Next
    PROVE  Retries'
<1>a. task \in [Tasks -> Task]
  BY DEF TypeOK
<1>0. PICK t \in Tasks :
         \/ \E u \in Urls, transport \in {"http", "browser"} : Enter(t, u, transport)
         \/ Step(t)
  BY DEF Next
<1>1. ASSUME Others(t), task'[t].step # "sleeping"
      PROVE  Retries'
  BY <1>1 DEF Others, Retries
<1>2. ASSUME NEW u \in Urls, NEW transport \in {"http", "browser"}, Enter(t, u, transport)
      PROVE  Retries'
  <2>1. Others(t)
    BY <1>a, <1>2 DEF Enter, Others
  <2>2. task'[t].step # "sleeping"
    BY <1>a, <1>2 DEF Enter, Idle
  <2> QED
    BY <1>1, <2>1, <2>2
<1>3. ASSUME NEW status, Settle(t, status)
      PROVE  Retries'
  <2> DEFINE done == [task EXCEPT ![t].step = "settled", ![t].result = status]
             n == Head(waiting[task[t].queue])
  <2>1. /\ DOMAIN done = Tasks /\ done[t].step = "settled"
        /\ \A b \in Tasks : b # t => done[b] = task[b]
        /\ \A b \in Tasks : "step" \in DOMAIN done[b]
    BY <1>a DEF Task
  <2>2. task' = done \/ task' = [done EXCEPT ![n].step = "attempt"]
    BY <1>3 DEF Settle
  <2> HIDE DEF done, n
  <2>3. \A b \in Tasks : task'[b] = done[b] \/ task'[b].step = "attempt"
    BY <2>1, <2>2
  <2> QED
    BY <2>1, <2>3 DEF Retries
<1>4. ASSUME NEW a, Fetched(t, a)
      PROVE  Retries'
  <2>1. CASE task[t].attempt < MaxRetries /\ Retryable(a)
    BY <1>a, <1>4, <2>1 DEF Fetched, AfterAttempt, Retries, Task
  <2>2. CASE ~(task[t].attempt < MaxRetries /\ Retryable(a))
    BY <1>3, <1>4, <2>2 DEF Fetched, AfterAttempt
  <2> QED
    BY <2>1, <2>2
<1>5. ASSUME NEW a, Rendered(t, a)
      PROVE  Retries'
  BY <1>3, <1>5 DEF Rendered
<1>6. ASSUME Wake(t) \/ Leave(t)
      PROVE  Retries'
  <2>1. Others(t) /\ task'[t].step # "sleeping"
    BY <1>a, <1>6 DEF Wake, Leave, Others, Idle, Task
  <2> QED
    BY <1>1, <2>1
<1> QED
  BY <1>0, <1>2, <1>4, <1>5, <1>6 DEF Step, Attempt

LEMMA LineTypes ==
    ASSUME TypeOK, Known, Used, Held, Placed, Next
    PROVE  /\ queues' \in [Hosts -> Queues \cup {None}]
           /\ waiting' \in [Queues -> Seq(Tasks)]
           /\ running' \in [Queues -> Tasks \cup {None}]
           /\ \A q \in Queues : running'[q] = None => waiting'[q] = <<>>
<1> DEFINE Goal == /\ queues' \in [Hosts -> Queues \cup {None}]
                   /\ waiting' \in [Queues -> Seq(Tasks)]
                   /\ running' \in [Queues -> Tasks \cup {None}]
                   /\ \A q \in Queues : running'[q] = None => waiting'[q] = <<>>
<1>0. PICK t \in Tasks :
         \/ Unqueued(t) \/ Stays(t) \/ SettlesLast(t) \/ Leave(t)
         \/ \E u \in Urls, q \in Queues : Joins(t, u, q)
         \/ \E n \in Tasks : Hands(t, n)
  BY StepKinds
<1>1. CASE Unqueued(t) \/ Stays(t)
  BY <1>1 DEF Unqueued, Stays, TypeOK
<1>2. CASE SettlesLast(t)
  BY <1>2 DEF SettlesLast, TypeOK
<1>3. CASE Leave(t)
  BY <1>3 DEF Leave, TypeOK
<1>4. ASSUME NEW u \in Urls, NEW q \in Queues, Joins(t, u, q)
      PROVE  Goal
  <2>1. t # None
    BY FetchAssumption
  <2>2. queues' \in [Hosts -> Queues \cup {None}]
    BY <1>4 DEF Joins, TypeOK
  <2>3. CASE running[q] = None
    <3>1. running' = [running EXCEPT ![q] = t] /\ UNCHANGED waiting
      BY <1>4, <2>3 DEF Joins
    <3> QED
      BY <2>1, <2>2, <3>1 DEF TypeOK
  <2>4. CASE running[q] # None
    <3>1. waiting' = [waiting EXCEPT ![q] = Append(@, t)] /\ UNCHANGED running
      BY <1>4, <2>4 DEF Joins
    <3>2. Append(waiting[q], t) \in Seq(Tasks)
      BY DEF TypeOK
    <3> QED
      BY <2>2, <2>4, <3>1, <3>2 DEF TypeOK
  <2> QED
    BY <2>3, <2>4
<1>5. ASSUME NEW n \in Tasks, Hands(t, n)
      PROVE  Goal
  <2>1. Tail(waiting[task[t].queue]) \in Seq(Tasks)
    BY <1>5, NextLineTypes DEF Hands, TypeOK
  <2> QED
    BY <1>5, <2>1, FetchAssumption DEF Hands, TypeOK
<1> QED
  BY <1>0, <1>1, <1>2, <1>3, <1>4, <1>5

-----------------------------------------------------------------------------
(* One invariant after the other.                                          *)

LEMMA KnownStep ==
    ASSUME TypeOK, Known, Used, Held, Placed, Next
    PROVE  Known'
<1> USE DEF Known, HostAt
<1>0. PICK t \in Tasks :
         \/ Unqueued(t) \/ Stays(t) \/ SettlesLast(t) \/ Leave(t)
         \/ \E u \in Urls, q \in Queues : Joins(t, u, q)
         \/ \E n \in Tasks : Hands(t, n)
  BY StepKinds
<1>1. CASE Unqueued(t)
  BY <1>1 DEF Unqueued, Others
<1>2. CASE Stays(t) \/ SettlesLast(t)
  BY <1>2 DEF Stays, SettlesLast, Others, SameQueue
<1>3. CASE Leave(t)
  BY <1>3 DEF Leave, Idle, TypeOK
<1>4. ASSUME NEW u \in Urls, NEW q \in Queues, Joins(t, u, q)
      PROVE  Known'
  BY <1>4, FetchAssumption DEF Joins, Others
<1>5. ASSUME NEW n \in Tasks, Hands(t, n)
      PROVE  Known'
  BY <1>5 DEF Hands, SameQueue
<1> QED
  BY <1>0, <1>1, <1>2, <1>3, <1>4, <1>5

LEMMA HeldStep ==
    ASSUME TypeOK, Known, Used, Held, Placed, Next
    PROVE  Held'
<1> USE DEF Runs
<1>0. PICK t \in Tasks :
         \/ Unqueued(t) \/ Stays(t) \/ SettlesLast(t) \/ Leave(t)
         \/ \E u \in Urls, q \in Queues : Joins(t, u, q)
         \/ \E n \in Tasks : Hands(t, n)
  BY StepKinds
<1>1. CASE Unqueued(t)
  BY <1>1, FetchAssumption DEF Unqueued, Others, Held
<1>2. CASE Stays(t)
  BY <1>2 DEF Stays, Others, SameQueue, Held
<1>3. CASE SettlesLast(t)
  <2> DEFINE q == task[t].queue
  <2>1. /\ q \in Queues /\ Runs(t) /\ running[q] = t /\ task'[t].step = "settled"
        /\ running' = [running EXCEPT ![q] = None] /\ Others(t)
    BY <1>3, FetchAssumption DEF SettlesLast, Held
  <2>2. \A b \in Tasks : b # t /\ Runs(b) => task[b].queue # q
    BY <2>1, FetchAssumption DEF Held
  <2>3. \A r \in Queues : r # q => running'[r] = running[r] /\ running[r] # t
    BY <2>1, FetchAssumption DEF Held, TypeOK
  <2>4. running'[q] = None
    BY <2>1 DEF TypeOK
  <2> HIDE DEF q
  <2>5. \A b \in Tasks : Runs(b)' /\ task'[b].queue # None => running'[task'[b].queue] = b
    BY <2>1, <2>2, <2>3 DEF Held, Others, TypeOK, Task
  <2>6. \A r \in Queues : running'[r] # None =>
           running'[r] \in Tasks /\ Runs(running[r])' /\ task'[running'[r]].queue = r
    BY <2>1, <2>3, <2>4 DEF Held, Others
  <2> QED
    BY <2>5, <2>6 DEF Held
<1>4. CASE Leave(t)
  BY <1>4 DEF Leave, Idle, TypeOK, Held
<1>5. ASSUME NEW u \in Urls, NEW q \in Queues, Joins(t, u, q)
      PROVE  Held'
  <2>1. CASE running[q] = None
    <3>1. /\ task'[t].step = "attempt" /\ task'[t].queue = q /\ Others(t)
          /\ running' = [running EXCEPT ![q] = t] /\ task[t].step = "idle"
      BY <1>5, <2>1 DEF Joins
    <3>2. \A b \in Tasks : b # t => ~(Runs(b) /\ task[b].queue = q)
      BY <2>1, FetchAssumption DEF Held
    <3>3. \A r \in Queues : r # q => running'[r] = running[r] /\ running[r] # t
      <4>1. \A r \in Queues : running[r] # t
        BY <3>1, FetchAssumption DEF Held
      <4> QED
        BY <3>1, <4>1 DEF TypeOK
    <3>4. running'[q] = t
      BY <3>1 DEF TypeOK
    <3>5. \A b \in Tasks : Runs(b)' /\ task'[b].queue # None => running'[task'[b].queue] = b
      BY <3>1, <3>2, <3>3, <3>4 DEF Held, Others, TypeOK, Task
    <3>6. \A r \in Queues : running'[r] # None =>
             running'[r] \in Tasks /\ Runs(running[r])' /\ task'[running'[r]].queue = r
      BY <3>1, <3>3, <3>4 DEF Held, Others
    <3> QED
      BY <3>5, <3>6 DEF Held
  <2>2. CASE running[q] # None
    BY <1>5, <2>2 DEF Joins, Others, Held
  <2> QED
    BY <2>1, <2>2
<1>6. ASSUME NEW n \in Tasks, Hands(t, n)
      PROVE  Held'
  <2> DEFINE q == task[t].queue
  <2>1. /\ q \in Queues /\ Runs(t) /\ running[q] = t /\ task'[t].step = "settled" /\ n # t
        /\ running' = [running EXCEPT ![q] = n]
        /\ \A b \in Tasks : b # t /\ b # n => task'[b] = task[b]
        /\ task'[n].step = "attempt" /\ task'[n].queue = task[n].queue
    BY <1>6, FetchAssumption DEF Hands, SameQueue, Held
  <2>2. task[n].step = "waiting" /\ task[n].queue = q
    <3>1. 1 \in 1..Len(waiting[q]) /\ n = waiting[q][1]
      BY <1>6 DEF Hands, TypeOK
    <3> QED
      BY <2>1, <3>1 DEF Placed
  <2>3. \A b \in Tasks : b # t /\ Runs(b) => task[b].queue # q
    BY <2>1, FetchAssumption DEF Held
  <2>4. \A r \in Queues : r # q => running'[r] = running[r] /\ running[r] # t /\ running[r] # n
    BY <2>1, <2>2, FetchAssumption DEF Held, TypeOK
  <2>5. running'[q] = n
    BY <2>1 DEF TypeOK
  <2> HIDE DEF q
  <2>6. \A b \in Tasks : Runs(b)' /\ task'[b].queue # None => running'[task'[b].queue] = b
    BY <2>1, <2>2, <2>3, <2>4, <2>5 DEF Held, TypeOK, Task
  <2>7. \A r \in Queues : running'[r] # None =>
           running'[r] \in Tasks /\ Runs(running[r])' /\ task'[running'[r]].queue = r
    BY <2>1, <2>2, <2>4, <2>5 DEF Held
  <2> QED
    BY <2>6, <2>7 DEF Held
<1> QED
  BY <1>0, <1>1, <1>2, <1>3, <1>4, <1>5, <1>6

LEMMA PlacedStep ==
    ASSUME TypeOK, Known, Used, Held, Placed, Next
    PROVE  Placed'
<1>0. PICK t \in Tasks :
         \/ Unqueued(t) \/ Stays(t) \/ SettlesLast(t) \/ Leave(t)
         \/ \E u \in Urls, q \in Queues : Joins(t, u, q)
         \/ \E n \in Tasks : Hands(t, n)
  BY StepKinds
<1>1. ASSUME Others(t), task[t].step # "waiting", task'[t].step # "waiting", UNCHANGED waiting
      PROVE  Placed'
  <2>1. \A b \in Tasks : (task'[b].step = "waiting" <=> task[b].step = "waiting")
                         /\ (b # t => task'[b] = task[b])
    BY <1>1 DEF Others
  <2>2. \A q \in Queues : \A i \in 1..Len(waiting[q]) : waiting[q][i] \in Tasks /\ waiting[q][i] # t
    BY <1>1 DEF Placed, TypeOK
  <2> QED
    BY <1>1, <2>1, <2>2 DEF Placed
<1>2. CASE Unqueued(t)
  BY <1>1, <1>2 DEF Unqueued, Known
<1>3. CASE Stays(t) \/ SettlesLast(t)
  BY <1>1, <1>3 DEF Stays, SettlesLast, Runs
<1>4. CASE Leave(t)
  BY <1>1, <1>4 DEF Leave, Idle, Others, TypeOK
<1>5. ASSUME NEW u \in Urls, NEW q \in Queues, Joins(t, u, q)
      PROVE  Placed'
  <2>1. CASE running[q] = None
    BY <1>1, <1>5, <2>1 DEF Joins
  <2>2. CASE running[q] # None
    <3> DEFINE line == waiting[q]
               longer == Append(line, t)
    <3>1. /\ task[t].step = "idle" /\ task'[t].step = "waiting" /\ task'[t].queue = q /\ Others(t)
          /\ waiting' = [waiting EXCEPT ![q] = longer]
      BY <1>5, <2>2 DEF Joins
    <3>2. /\ line \in Seq(Tasks) /\ Len(longer) = Len(line) + 1 /\ Len(line) \in Nat
          /\ longer[Len(line) + 1] = t
          /\ \A i \in 1..Len(line) : longer[i] = line[i]
      BY DEF TypeOK
    <3>3. waiting'[q] = longer /\ \A r \in Queues : r # q => waiting'[r] = waiting[r]
      BY <3>1 DEF TypeOK
    <3>4. \A r \in Queues : \A i \in 1..Len(waiting[r]) : waiting[r][i] \in Tasks /\ waiting[r][i] # t
      BY <3>1 DEF Placed, TypeOK
    <3> HIDE DEF longer
    <3>5. ASSUME NEW i \in 1..Len(longer)
          PROVE  /\ task'[longer[i]].step = "waiting" /\ task'[longer[i]].queue = q
                 /\ \A j \in 1..Len(longer) : longer[i] = longer[j] => i = j
      <4>1. CASE i = Len(line) + 1
        BY <3>1, <3>2, <3>4, <4>1
      <4>2. CASE i \in 1..Len(line)
        <5>1. task'[longer[i]] = task[line[i]]
          BY <3>1, <3>2, <3>4, <4>2 DEF Others
        <5>2. \A j \in 1..Len(longer) : j \in 1..Len(line) \/ j = Len(line) + 1
          BY <3>2
        <5> QED
          BY <3>2, <3>4, <4>2, <5>1, <5>2 DEF Placed
      <4> QED
        BY <3>2, <4>1, <4>2
    <3>6. ASSUME NEW r \in Queues, NEW i \in 1..Len(waiting'[r])
          PROVE  /\ task'[waiting'[r][i]].step = "waiting" /\ task'[waiting'[r][i]].queue = r
                 /\ \A j \in 1..Len(waiting'[r]) : waiting'[r][i] = waiting'[r][j] => i = j
      <4>1. CASE r = q
        BY <3>3, <3>5, <4>1
      <4>2. CASE r # q
        BY <3>1, <3>3, <3>4, <4>2 DEF Others, Placed
      <4> QED
        BY <4>1, <4>2
    <3>7. ASSUME NEW b \in Tasks, task'[b].step = "waiting"
          PROVE  \E i \in 1..Len(waiting'[task'[b].queue]) : waiting'[task'[b].queue][i] = b
      <4>1. CASE b = t
        BY <3>1, <3>2, <3>3, <4>1
      <4>2. CASE b # t
        <5>1. task'[b] = task[b] /\ task[b].queue \in Queues
          BY <3>1, <3>7, <4>2 DEF Others, Known, TypeOK, Task
        <5>2. PICK i \in 1..Len(waiting[task[b].queue]) : waiting[task[b].queue][i] = b
          BY <3>7, <5>1 DEF Placed
        <5> QED
          BY <3>2, <3>3, <5>1, <5>2
      <4> QED
        BY <4>1, <4>2
    <3> QED
      BY <3>6, <3>7 DEF Placed
  <2> QED
    BY <2>1, <2>2
<1>6. ASSUME NEW n \in Tasks, Hands(t, n)
      PROVE  Placed'
  <2> DEFINE q == task[t].queue
             line == waiting[q]
             rest == Tail(line)
  <2>1. /\ q \in Queues /\ Runs(t) /\ task'[t].step = "settled" /\ n # t /\ line # <<>>
        /\ \A b \in Tasks : b # t /\ b # n => task'[b] = task[b]
        /\ task'[n].step = "attempt" /\ n = Head(line)
        /\ waiting' = [waiting EXCEPT ![q] = rest]
    BY <1>6 DEF Hands
  <2>2. /\ line \in Seq(Tasks) /\ Len(line) \in Nat \ {0} /\ Len(rest) = Len(line) - 1 /\ n = line[1]
        /\ \A i \in 1..Len(rest) : rest[i] = line[i + 1]
    BY <2>1 DEF TypeOK
  <2>3. waiting'[q] = rest /\ \A r \in Queues : r # q => waiting'[r] = waiting[r]
    BY <2>1 DEF TypeOK
  <2>4. \A r \in Queues : \A i \in 1..Len(waiting[r]) : waiting[r][i] \in Tasks /\ waiting[r][i] # t
    <3>1. task[t].step # "waiting"
      BY <2>1 DEF Runs
    <3> QED
      BY <3>1 DEF Placed, TypeOK
  <2>5. task[n].step = "waiting" /\ task[n].queue = q
    BY <2>1, <2>2 DEF Placed
  <2> HIDE DEF rest
  <2>6. \A i \in 1..Len(rest) : i + 1 \in 1..Len(line) /\ line[i + 1] # n
    <3> TAKE i \in 1..Len(rest)
    <3>1. i + 1 \in 1..Len(line) /\ 1 \in 1..Len(line) /\ i + 1 # 1
      BY <2>2
    <3> QED
      BY <2>1, <2>2, <3>1 DEF Placed
  <2>7. ASSUME NEW i \in 1..Len(rest)
        PROVE  /\ task'[rest[i]].step = "waiting" /\ task'[rest[i]].queue = q
               /\ \A j \in 1..Len(rest) : rest[i] = rest[j] => i = j
    <3>1. task'[rest[i]] = task[line[i + 1]] /\ rest[i] = line[i + 1]
      BY <2>1, <2>2, <2>4, <2>6
    <3>2. ASSUME NEW j \in 1..Len(rest), rest[i] = rest[j]
          PROVE  i = j
      <4>1. line[i + 1] = line[j + 1]
        BY <2>2, <3>2
      <4>2. i + 1 = j + 1
        BY <2>1, <2>6, <4>1 DEF Placed
      <4> QED
        BY <2>2, <4>2
    <3>3. task[line[i + 1]].step = "waiting" /\ task[line[i + 1]].queue = q
      BY <2>1, <2>6 DEF Placed
    <3> QED
      BY <3>1, <3>2, <3>3
  <2>8. ASSUME NEW r \in Queues, NEW i \in 1..Len(waiting'[r])
        PROVE  /\ task'[waiting'[r][i]].step = "waiting" /\ task'[waiting'[r][i]].queue = r
               /\ \A j \in 1..Len(waiting'[r]) : waiting'[r][i] = waiting'[r][j] => i = j
    <3>1. CASE r = q
      BY <2>3, <2>7, <3>1
    <3>2. CASE r # q
      <4>1. waiting[r][i] # n
        BY <2>3, <2>5, <2>8, <3>2 DEF Placed
      <4> QED
        BY <2>1, <2>3, <2>4, <3>2, <4>1 DEF Placed
    <3> QED
      BY <3>1, <3>2
  <2>9. ASSUME NEW b \in Tasks, task'[b].step = "waiting"
        PROVE  \E i \in 1..Len(waiting'[task'[b].queue]) : waiting'[task'[b].queue][i] = b
    <3>1. b # t /\ b # n /\ task'[b] = task[b]
      BY <2>1, <2>9
    <3>2. task[b].queue \in Queues
      BY <2>9, <3>1 DEF Known, TypeOK, Task
    <3>3. PICK i \in 1..Len(waiting[task[b].queue]) : waiting[task[b].queue][i] = b
      BY <2>9, <3>1 DEF Placed
    <3>4. CASE task[b].queue = q
      <4>1. i # 1
        BY <2>2, <3>1, <3>3, <3>4
      <4>2. i - 1 \in 1..Len(rest) /\ rest[i - 1] = b
        BY <2>2, <3>3, <3>4, <4>1
      <4> QED
        BY <2>3, <3>1, <3>4, <4>2
    <3>5. CASE task[b].queue # q
      BY <2>3, <3>1, <3>2, <3>3, <3>5
    <3> QED
      BY <3>4, <3>5
  <2> QED
    BY <2>8, <2>9 DEF Placed
<1> QED
  BY <1>0, <1>2, <1>3, <1>4, <1>5, <1>6

(* Where a task's queue is the map's, another task of its queue keeps it.  *)
LEMMA MappedStep ==
    ASSUME TypeOK, Known, Used, Held, Placed, Mapped, Own, Next
    PROVE  Mapped'
<1> USE DEF HostAt, Todo
<1>0. PICK t \in Tasks :
         \/ Unqueued(t) \/ Stays(t) \/ SettlesLast(t) \/ Leave(t)
         \/ \E u \in Urls, q \in Queues : Joins(t, u, q)
         \/ \E n \in Tasks : Hands(t, n)
  BY StepKinds
<1>1. CASE Unqueued(t)
  BY <1>1 DEF Unqueued, Others, Mapped
<1>2. CASE Stays(t) \/ SettlesLast(t)
  BY <1>2 DEF Stays, SettlesLast, Others, SameQueue, Mapped
<1>3. CASE Leave(t)
  <2> DEFINE q == task[t].queue
             h == HostAt(t)
  <2>1. task'[t].step = "idle" /\ Others(t)
    BY <1>3 DEF Leave, Idle, Others, TypeOK
  <2>2. CASE q # None /\ Evicted(q, h)
    <3>1. queues' = [queues EXCEPT ![h] = None] /\ h \in Hosts /\ q \in Queues
      BY <1>3, <2>2 DEF Leave, Known, TypeOK, Task
    <3>2. running[q] = None /\ waiting[q] = <<>> /\ queues[h] = q
      BY <2>2 DEF Evicted
    <3>3. ASSUME NEW b \in Tasks, Todo(b), task[b].queue # None
          PROVE  HostAt(b) # h /\ HostAt(b) \in Hosts
      <4>1. task[b].queue # q
        BY <3>1, <3>2, <3>3, FetchAssumption DEF Held, Placed, Runs
      <4> QED
        BY <3>2, <3>3, <4>1 DEF Mapped, Known
    <3> QED
      BY <2>1, <3>1, <3>3 DEF Mapped, Others, TypeOK
  <2>3. CASE ~(q # None /\ Evicted(q, h))
    BY <1>3, <2>1, <2>3 DEF Leave, Mapped, Others
  <2> QED
    BY <2>2, <2>3
<1>4. ASSUME NEW u \in Urls, NEW q \in Queues, Joins(t, u, q)
      PROVE  Mapped'
  <2>1. /\ queues' = [queues EXCEPT ![HostOf[u]] = q] /\ HostOf[u] \in Hosts
        /\ queues[HostOf[u]] = q \/ queues[HostOf[u]] = None
        /\ Others(t) /\ task'[t].queue = q /\ task'[t].url = u
    BY <1>4 DEF Joins
  <2>2. ASSUME NEW b \in Tasks, b # t, Todo(b), task[b].queue # None
        PROVE  queues'[HostAt(b)] = task[b].queue
    <3>1. queues[HostAt(b)] = task[b].queue /\ HostAt(b) \in Hosts
      BY <2>2 DEF Mapped, Known
    <3> QED
      BY <2>1, <2>2, <3>1 DEF TypeOK
  <2> QED
    BY <2>1, <2>2 DEF Mapped, Others, TypeOK
<1>5. ASSUME NEW n \in Tasks, Hands(t, n)
      PROVE  Mapped'
  <2>1. task[n].step = "waiting"
    <3>1. 1 \in 1..Len(waiting[task[t].queue]) /\ n = waiting[task[t].queue][1]
      BY <1>5 DEF Hands, TypeOK
    <3> QED
      BY <1>5, <3>1 DEF Placed, Hands
  <2> QED
    BY <1>5, <2>1 DEF Hands, SameQueue, Mapped
<1> QED
  BY <1>0, <1>1, <1>2, <1>3, <1>4, <1>5

LEMMA OwnStep ==
    ASSUME TypeOK, Known, Used, Held, Placed, Own, Next
    PROVE  Own'
<1>0. PICK t \in Tasks :
         \/ Unqueued(t) \/ Stays(t) \/ SettlesLast(t) \/ Leave(t)
         \/ \E u \in Urls, q \in Queues : Joins(t, u, q)
         \/ \E n \in Tasks : Hands(t, n)
  BY StepKinds
<1>1. CASE UNCHANGED queues
  BY <1>1 DEF Own
<1>2. CASE Leave(t)
  BY <1>2 DEF Leave, Own, TypeOK
<1>3. ASSUME NEW u \in Urls, NEW q \in Queues, Joins(t, u, q)
      PROVE  Own'
  BY <1>3 DEF Joins, Fresh, Own, TypeOK
<1> QED
  BY <1>0, <1>1, <1>2, <1>3 DEF Unqueued, Stays, SettlesLast, Hands

LEMMA UsedStep ==
    ASSUME TypeOK, Known, Used, Held, Placed, Mapped, Own, Next
    PROVE  Used'
<1> USE DEF HostAt
<1>0. PICK t \in Tasks :
         \/ Unqueued(t) \/ Stays(t) \/ SettlesLast(t) \/ Leave(t)
         \/ \E u \in Urls, q \in Queues : Joins(t, u, q)
         \/ \E n \in Tasks : Hands(t, n)
  BY StepKinds
<1>1. ASSUME UNCHANGED queues,
             \A b \in Tasks : task[b].queue # None => SameQueue(b)
      PROVE  Used'
  BY <1>1 DEF Used, SameQueue
<1>2. CASE Unqueued(t) \/ Stays(t) \/ SettlesLast(t)
  BY <1>1, <1>2 DEF Unqueued, Stays, SettlesLast, Others, SameQueue
<1>3. CASE Leave(t)
  <2> DEFINE q == task[t].queue
             h == HostAt(t)
  <2>1. Others(t) /\ task[t].step = "settled"
    BY <1>3 DEF Leave, Idle, Others, TypeOK
  <2>2. ASSUME NEW g \in Hosts, queues'[g] # None
        PROVE  \E b \in Tasks : task'[b].queue = queues'[g] /\ HostAt(b)' = g
    <3>1. queues'[g] = queues[g] /\ queues[g] \in Queues
      BY <1>3, <2>2 DEF Leave, TypeOK
    <3>2. PICK b \in Tasks : task[b].queue = queues[g] /\ HostAt(b) = g
      BY <2>2, <3>1 DEF Used
    <3>3. CASE b # t
      BY <2>1, <3>1, <3>2, <3>3 DEF Others
    <3>4. CASE b = t
      <4>1. q = queues[g] /\ h = g /\ q # None
        BY <2>2, <3>1, <3>2, <3>4
      <4>2. ~Evicted(q, h)
        BY <1>3, <2>2, <4>1 DEF Leave, TypeOK
      <4>3. running[q] # None
        BY <3>1, <4>1, <4>2 DEF Evicted, TypeOK
      <4>4. PICK r \in Tasks : r = running[q] /\ Runs(r) /\ task[r].queue = q
        BY <3>1, <4>1, <4>3 DEF Held
      <4>5. queues[HostAt(r)] = q /\ HostAt(r) \in Hosts
        BY <4>1, <4>4 DEF Mapped, Todo, Runs, Known
      <4>6. HostAt(r) = g /\ r # t
        BY <2>1, <4>1, <4>4, <4>5 DEF Own, Runs
      <4> QED
        BY <2>1, <3>1, <4>1, <4>4, <4>6 DEF Others
    <3> QED
      BY <3>3, <3>4
  <2> QED
    BY <2>2 DEF Used
<1>4. ASSUME NEW u \in Urls, NEW q \in Queues, Joins(t, u, q)
      PROVE  Used'
  <2>1. /\ queues' = [queues EXCEPT ![HostOf[u]] = q] /\ HostOf[u] \in Hosts
        /\ Others(t) /\ task'[t].queue = q /\ task'[t].url = u /\ task[t].queue = None
    BY <1>4 DEF Joins, Known
  <2>2. ASSUME NEW g \in Hosts, queues'[g] # None
        PROVE  \E b \in Tasks : task'[b].queue = queues'[g] /\ HostAt(b)' = g
    <3>1. CASE g = HostOf[u]
      BY <2>1, <3>1 DEF TypeOK
    <3>2. CASE g # HostOf[u]
      <4>1. queues'[g] = queues[g]
        BY <2>1, <3>2 DEF TypeOK
      <4>2. PICK b \in Tasks : task[b].queue = queues[g] /\ HostAt(b) = g
        BY <2>2, <4>1 DEF Used
      <4> QED
        BY <2>1, <2>2, <4>1, <4>2 DEF Others
    <3> QED
      BY <3>1, <3>2
  <2> QED
    BY <2>2 DEF Used
<1>5. ASSUME NEW n \in Tasks, Hands(t, n)
      PROVE  Used'
  BY <1>1, <1>5 DEF Hands, SameQueue
<1> QED
  BY <1>0, <1>2, <1>3, <1>4, <1>5

-----------------------------------------------------------------------------
LEMMA InitInv == Init => IInv
<1> SUFFICES ASSUME Init PROVE IInv
  OBVIOUS
<1>1. TypeOK
  <2>1. <<>> \in Seq(Tasks)
    OBVIOUS
  <2>2. waiting \in [Queues -> Seq(Tasks)]
    BY <2>1 DEF Init
  <2>3. \A q \in Queues : waiting[q] = <<>>
    BY DEF Init
  <2>4. task \in [Tasks -> Task]
    BY IdleTypes DEF Init
  <2> QED
    BY <2>2, <2>3, <2>4 DEF Init, TypeOK
<1>2. \A t \in Tasks : task[t].step = "idle" /\ task[t].queue = None
  BY DEF Init, Idle
<1>3. Retries /\ Known /\ Mapped
  BY <1>2 DEF Retries, Known, Mapped, Todo
<1>4. Held /\ Placed /\ Own /\ Used
  BY <1>2 DEF Init, Held, Placed, Own, Used, Runs
<1> QED
  BY <1>1, <1>3, <1>4 DEF IInv

LEMMA StepInv == IInv /\ [Next]_vars => IInv'
<1> SUFFICES ASSUME IInv, [Next]_vars PROVE IInv'
  OBVIOUS
<1>1. CASE Next
  <2> USE <1>1 DEF IInv
  <2>1. TypeOK'
    BY TaskTypes, LineTypes DEF TypeOK
  <2>2. Retries' /\ Known' /\ Held' /\ Placed'
    BY RetriesStep, KnownStep, HeldStep, PlacedStep
  <2>3. Mapped' /\ Own' /\ Used'
    BY MappedStep, OwnStep, UsedStep
  <2> QED
    BY <2>1, <2>2, <2>3
<1>2. CASE UNCHANGED vars
  BY <1>2
  DEF vars, IInv, TypeOK, Retries, Known, Held, Placed, Mapped, Own, Used, Todo, Runs, HostAt
<1> QED
  BY <1>1, <1>2

(* Every variable holds a value of its type; a queue that runs nothing has *)
(* nobody waiting.                                                         *)
THEOREM QueueTypes == Spec => []TypeOK
<1>1. IInv => TypeOK
  BY DEF IInv
<1> QED
  BY <1>1, InitInv, StepInv, PTL DEF Spec

(* "One request in flight per domain": over both transports, retries and   *)
(* their backoff included, and although queues come and go while others    *)
(* still leave them (withDomainQueue).                                     *)
THEOREM DomainsAreSpared == Spec => []OnePerDomain
<1>1. IInv => OnePerDomain
  <2> SUFFICES ASSUME IInv, NEW h \in Hosts
               PROVE  Cardinality(At(h)) <= 1
    BY DEF OnePerDomain
  <2>1. ASSUME NEW t \in At(h), NEW b \in At(h)
        PROVE  t = b
    <3>1. task[t].queue = queues[h] /\ task[b].queue = queues[h]
      BY DEF IInv, At, Mapped, Todo, HostAt
    <3> QED
      BY <3>1 DEF IInv, At, Held, Runs
  <2>2. CASE At(h) = {}
    BY <2>2, FS_EmptySet
  <2>3. ASSUME NEW t \in At(h) PROVE Cardinality(At(h)) <= 1
    <3>1. At(h) = {t}
      BY <2>1
    <3> QED
      BY <3>1, FS_Singleton
  <2> QED
    BY <2>2, <2>3
<1> QED
  BY <1>1, InitInv, StepInv, PTL DEF Spec

(* "Evict the queue once the domain is idle": a queue in the map has a     *)
(* task of its domain, and every task still to run is in the queue of the  *)
(* map.                                                                    *)
THEOREM MapStaysSmall == Spec => []QueuesAreUsed
<1>1. IInv => QueuesAreUsed
  BY DEF IInv, QueuesAreUsed, Used, Mapped, Todo, HostAt
<1> QED
  BY <1>1, InitInv, StepInv, PTL DEF Spec
=============================================================================
