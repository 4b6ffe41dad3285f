-------------------------- MODULE BoundedExecutor --------------------------
(***************************************************************************)
(* priority_limit_async_func_call (utils.py): at most max_size calls of a  *)
(* model at a time.  A caller registers its call, puts it into a bounded   *)
(* priority queue and waits for a future; a pool of workers runs the       *)
(* function and settles the future.  Four clocks may end a call early: the *)
(* caller's own, the one of its place in the queue, the worker's, and the  *)
(* health check's.  shutdown drains the queue or cancels what is left.     *)
(*                                                                         *)
(* Everything runs in one event loop: what happens between two awaits is   *)
(* one step.  Neither lock is ever held over an await, so taking one never *)
(* suspends.  Between an item leaving the queue and its worker looking at  *)
(* it other coroutines may run: before Python 3.12 wait_for wraps what it  *)
(* waits for, get or put, in a task.  A caller woken for a free place runs *)
(* only after the worker that freed it, which may have skipped its item,   *)
(* counted it done and let a drain go by then; and another call may have   *)
(* taken the place.                                                        *)
(***************************************************************************)
EXTENDS Naturals, FiniteSets, Sequences, SequencesExt

CONSTANTS
    Callers,      \* one call each
    Workers,      \* the worker tasks, max_size of them
    MaxQueue,     \* max_queue_size
    Priority,     \* of each call; the smaller the more urgent
    Impatient,    \* callers with a _timeout
    Hasty,        \* callers with a _queue_timeout
    Results,      \* how a function may return: "ok", "error", "cancelled"
    MaxStuck      \* bound on functions that ignore their cancellation

ASSUME ExecutorAssumption ==
    /\ IsFiniteSet(Callers) /\ IsFiniteSet(Workers)
    /\ MaxQueue \in Nat \ {0}
    /\ Priority \in [Callers -> Nat]
    /\ Results \subseteq {"ok", "error", "cancelled"}
    /\ MaxStuck \in Nat

None == "none"
ASSUME NoneAssumption == None \notin Callers

VARIABLES
    call,        \* where each caller is
    future,      \* the future it waits for
    states,      \* task_states: the calls that are registered
    started,     \* worker_started
    quit,        \* cancellation_requested
    queue,       \* the PriorityQueue
    putters,     \* callers blocked on the full queue, oldest first
    unfinished,  \* the queue's count of items not yet task_done
    worker, job, \* where each worker is, and the call it holds
    told,        \* workers whose task.cancel() has not reached them yet
    accepting,   \* accepting_new_tasks
    running,     \* initialized: workers and health check have been started
    shut,        \* where shutdown is
    forced,      \* it gave up draining
    late         \* history: the callers at the door when a drain was let go

callers == <<call, future>>
table   == <<states, started, quit>>
items   == <<queue, putters, unfinished>>
pool    == <<worker, job>>
ending  == <<accepting, shut, forced, told, late>>
vars    == <<callers, table, items, pool, running, ending>>

Stopped == shut \in {"stop", "done"}        \* shutdown_event is set

Init ==
    /\ call = [c \in Callers |-> "out"]
    /\ future = [c \in Callers |-> "none"]
    /\ states = {} /\ started = {} /\ quit = {}
    /\ queue = {} /\ putters = <<>> /\ unfinished = 0
    /\ worker = [w \in Workers |-> "none"]
    /\ job = [w \in Workers |-> None]
    /\ accepting = TRUE
    /\ running = FALSE
    /\ shut = "no"
    /\ forced = FALSE
    /\ told = {} /\ late = {}
-----------------------------------------------------------------------------
(* The caller: wait_func                                                    *)

\* ensure_workers
EnsureWorkers ==
    /\ running' = TRUE
    /\ worker' = IF running THEN worker ELSE [w \in Workers |-> "idle"]

\* queue.put: into the queue, or among those who wait for a place.
Put(c) ==
    /\ IF Cardinality(queue) < MaxQueue
         THEN /\ call' = [call EXCEPT ![c] = "waiting"]
              /\ queue' = queue \cup {c}
              /\ unfinished' = unfinished + 1
              /\ UNCHANGED putters
         ELSE /\ call' = [call EXCEPT ![c] = "putting"]
              /\ putters' = Append(putters, c)
              /\ UNCHANGED <<queue, unfinished>>

\* From the door to the first wait: registered, and in the queue or before it.
\* A put with a time limit may run in a task of its own.
Call(c) ==
    /\ call[c] = "out" /\ accepting
    /\ EnsureWorkers
    /\ future' = [future EXCEPT ![c] = "pending"]
    /\ states' = states \cup {c}
    /\ \/ Put(c)
       \/ /\ c \in Hasty
          /\ call' = [call EXCEPT ![c] = "arriving"]
          /\ UNCHANGED items
    /\ UNCHANGED <<started, quit, job, ending>>

\* The put goes on: its task has its first turn, or it was woken for a place,
\* which may be taken again.
Enter(c) ==
    /\ call[c] \in {"arriving", "woken"}
    /\ Put(c)
    /\ UNCHANGED <<future, table, pool, running, ending>>

\* "Queue is shutting down"
Refuse(c) ==
    /\ call[c] = "out" /\ ~accepting
    /\ call' = [call EXCEPT ![c] = "gone"]
    /\ UNCHANGED <<future, table, items, pool, running, ending>>

\* A TaskState leaves the table with all that is noted on it.
Pop(C) ==
    /\ states' = states \ C
    /\ started' = started \ C
    /\ quit' = quit \ C

\* The finally block: the caller drops its future and its entry.
Drop(c) ==
    /\ future' = [future EXCEPT ![c] = "none"]
    /\ Pop({c})

Forget(c) ==
    /\ call' = [call EXCEPT ![c] = "gone"]
    /\ Drop(c)

\* The put is called off before it ran, or while it waited.
GiveUp(c) ==
    /\ call[c] \in {"arriving", "putting"}
    /\ call' = [call EXCEPT ![c] = "gone"]
    /\ putters' = IF call[c] = "putting" THEN RemoveFirst(putters, c) ELSE putters

\* Mutant: who was woken takes the wakeup with him.
LeaveQueueSilent(c) ==
    /\ c \in Hasty
    /\ \/ GiveUp(c)
       \/ /\ call[c] = "woken"
          /\ call' = [call EXCEPT ![c] = "gone"]
          /\ UNCHANGED putters
    /\ Drop(c)
    /\ UNCHANGED <<queue, unfinished, pool, running, ending>>

\* QueueFullError after _queue_timeout, or the caller is cancelled.  Who was
\* woken for a place that is still free wakes the next.
LeaveQueue(c) ==
    /\ c \in Hasty
    /\ \/ GiveUp(c)
       \/ /\ call[c] = "woken"
          /\ IF Cardinality(queue) < MaxQueue /\ putters # <<>>
               THEN /\ call' = [call EXCEPT ![c] = "gone", ![Head(putters)] = "woken"]
                    /\ putters' = Tail(putters)
               ELSE /\ call' = [call EXCEPT ![c] = "gone"]
                    /\ UNCHANGED putters
    /\ Drop(c)
    /\ UNCHANGED <<queue, unfinished, pool, running, ending>>

\* The future is settled one way or another.
Answer(c) ==
    /\ call[c] = "waiting" /\ future[c] # "pending"
    /\ Forget(c)
    /\ UNCHANGED <<items, pool, running, ending>>

\* User timeout: the future is cancelled, the worker told.
Timeout(c) ==
    /\ call[c] = "waiting" /\ c \in Impatient
    /\ future[c] = "pending"
    /\ future' = [future EXCEPT ![c] = "cancelled"]
    /\ quit' = quit \cup ({c} \cap states)
    /\ call' = [call EXCEPT ![c] = "leaving"]
    /\ UNCHANGED <<states, started, items, pool, running, ending>>

\* The worker has cleaned up, or cleanup_timeout is over.
Leave(c) ==
    /\ call[c] = "leaving"
    /\ Forget(c)
    /\ UNCHANGED <<items, pool, running, ending>>
-----------------------------------------------------------------------------
(* The worker                                                               *)

MostUrgent == {c \in queue : \A d \in queue : Priority[c] <= Priority[d]}

\* queue.get: the oldest of the callers waiting for a place is woken.
Take(w, c) ==
    /\ worker[w] = "idle" /\ ~Stopped
    /\ c \in MostUrgent
    /\ worker' = [worker EXCEPT ![w] = "got"]
    /\ job' = [job EXCEPT ![w] = c]
    /\ queue' = queue \ {c}
    /\ IF putters = <<>>
         THEN UNCHANGED <<call, putters>>
         ELSE /\ call' = [call EXCEPT ![Head(putters)] = "woken"]
              /\ putters' = Tail(putters)
    /\ UNCHANGED <<future, table, unfinished, running, ending>>

\* Callers that are registered and whose call is not in the queue yet.
AtDoor == {c \in Callers : call[c] \in {"arriving", "putting", "woken"}}

\* queue.join's event is set: the drain goes on at its next turn, whatever
\* comes into the queue until then.
LetGo ==
    /\ shut' = "joined"
    /\ late' = AtDoor

\* task_done, and back to the top of the loop, which ends when shutdown_event is set.
Done(w) ==
    /\ unfinished' = unfinished - 1
    /\ worker' = [worker EXCEPT ![w] = IF Stopped THEN "dead" ELSE "idle"]
    /\ job' = [job EXCEPT ![w] = None]
    /\ IF shut = "join" /\ unfinished = 1 THEN LetGo ELSE UNCHANGED <<shut, late>>

\* Mutant: whatever was taken is run.
StartUnchecked(w) ==
    /\ worker[w] = "got"
    /\ worker' = [worker EXCEPT ![w] = "running"]
    /\ started' = started \cup ({job[w]} \cap states)
    /\ UNCHANGED <<callers, states, quit, items, job, running, ending>>

\* A call whose caller has left is skipped, any other is run.
Start(w) ==
    /\ worker[w] = "got"
    /\ LET c == job[w]
       IN  IF c \notin states \/ c \in quit \/ future[c] = "cancelled"
             THEN Pop({c}) /\ Done(w)
             ELSE /\ started' = started \cup {c}
                  /\ worker' = [worker EXCEPT ![w] = "running"]
                  /\ UNCHANGED <<states, quit, unfinished, job, shut, late>>
    /\ UNCHANGED <<callers, queue, putters, running, accepting, forced, told>>

\* A future is settled once.
Settle(c, how) == future' = [future EXCEPT ![c] = IF @ = "pending" THEN how ELSE @]

Finish(w, how) ==
    /\ Settle(job[w], how)
    /\ Pop({job[w]})
    /\ Done(w)
    /\ UNCHANGED <<call, queue, putters, running, accepting, forced>>

\* The function returns, raises, or is cancelled from inside.
Return(w) ==
    /\ worker[w] \in {"running", "stuck"}
    /\ \E how \in Results : Finish(w, how)
    /\ UNCHANGED told

\* max_execution_timeout: the function gives in to its cancellation ...
Overrun(w) ==
    /\ worker[w] = "running"
    /\ Finish(w, "late")
    /\ UNCHANGED told

Stuck == {w \in Workers : worker[w] = "stuck"}

\* ... or ignores it, and the worker waits for it as long as it takes.
GetStuck(w) ==
    /\ worker[w] = "running"
    /\ Cardinality(Stuck) < MaxStuck
    /\ worker' = [worker EXCEPT ![w] = "stuck"]
    /\ told' = told \ {w}
    /\ UNCHANGED <<callers, table, items, job, running, accepting, shut, forced, late>>

Overdue == {c \in states \cap started : \E w \in Stuck : job[w] = c}

\* Mutant: the health check looks for calls that were never started.
HealthCheckBlind ==
    /\ running /\ ~Stopped
    /\ Overdue # {}
    /\ Pop(Overdue)
    /\ UNCHANGED <<callers, items, pool, running, ending>>

\* The health check answers the caller of a stuck function.  It also replaces
\* dead workers; before a shutdown there are none.
HealthCheck ==
    /\ running /\ ~Stopped
    /\ Overdue # {}
    /\ future' = [c \in Callers |->
                    IF c \in Overdue /\ future[c] = "pending" THEN "stuck" ELSE future[c]]
    /\ Pop(Overdue)
    /\ UNCHANGED <<call, items, pool, running, ending>>
-----------------------------------------------------------------------------
(* shutdown                                                                 *)

\* join returns at once when there is nothing to wait for.
Begin ==
    /\ shut = "no"
    /\ \/ /\ unfinished = 0
          /\ LetGo
       \/ /\ unfinished > 0
          /\ shut' = "join"
          /\ UNCHANGED late
       \/ /\ shut' = "force"
          /\ UNCHANGED late
    /\ UNCHANGED <<callers, table, items, pool, running, forced, told>>

\* Mutant: the door stays open while the queue is drained.
ShutdownOpen == Begin /\ UNCHANGED accepting

\* Graceful, or not.
Shutdown ==
    /\ Begin
    /\ accepting' = FALSE

Alive == {w \in Workers : worker[w] \notin {"none", "dead"}}

\* shutdown_event is set, and every worker's task is cancelled, once.
TellWorkers ==
    /\ shut' = "stop"
    /\ told' = Alive

\* queue.join returns.
Joined ==
    /\ shut = "joined"
    /\ TellWorkers
    /\ UNCHANGED <<callers, table, items, pool, running, accepting, forced, late>>

JoinTimeout ==
    /\ shut \in {"join", "joined"}
    /\ shut' = "force"
    /\ UNCHANGED <<callers, table, items, pool, running, accepting, forced, told, late>>

\* Every future is cancelled and the queue emptied.  Each place that falls free
\* wakes one blocked caller, who will put its call and find its future cancelled.
Sweep ==
    /\ shut = "force"
    /\ future' = [c \in Callers |-> IF future[c] = "pending" THEN "cancelled" ELSE future[c]]
    /\ Pop(Callers)
    /\ LET n    == Cardinality(queue)
           k    == IF Len(putters) < n THEN Len(putters) ELSE n
           next == {putters[i] : i \in 1..k}
       IN  /\ queue' = {}
           /\ unfinished' = unfinished - n
           /\ putters' = SubSeq(putters, k + 1, Len(putters))
           /\ call' = [c \in Callers |-> IF c \in next THEN "woken" ELSE call[c]]
    /\ TellWorkers
    /\ forced' = TRUE
    /\ UNCHANGED <<pool, running, accepting, late>>

\* The cancellation reaches a worker at its next await.  It ends one that waits
\* for an item; wait_for drops it when it has the item already; one that runs a
\* function swallows it together with the function's own, or the function
\* ignores it (GetStuck).
WorkerStops(w) ==
    /\ w \in told
    /\ told' = told \ {w}
    /\ \/ /\ worker[w] = "running"
          /\ Settle(job[w], "cancelled")
          /\ Pop({job[w]})
          /\ Done(w)
          /\ UNCHANGED <<call, queue, putters>>
       \/ /\ worker[w] \in {"idle", "got"}
          /\ worker' = [worker EXCEPT ![w] = IF @ = "got" THEN "got" ELSE "dead"]
          /\ UNCHANGED <<callers, table, items, job, shut, late>>
    /\ UNCHANGED <<running, accepting, forced>>

\* gather: every worker has ended, however long that takes.
Gathered ==
    /\ shut = "stop"
    /\ \A w \in Workers : worker[w] \in {"none", "dead"}
    /\ shut' = "done"
    /\ running' = FALSE
    /\ UNCHANGED <<callers, table, items, pool, accepting, forced, told, late>>

CallerStep(c) == Call(c) \/ Refuse(c) \/ Enter(c) \/ LeaveQueue(c) \/ Answer(c) \/ Timeout(c) \/ Leave(c)

WorkerStep(w) ==
    (\E c \in Callers : Take(w, c)) \/ Start(w) \/ Return(w) \/ Overrun(w) \/ WorkerStops(w)

Next ==
    \/ \E c \in Callers : CallerStep(c)
    \/ \E w \in Workers : WorkerStep(w) \/ GetStuck(w)
    \/ HealthCheck
    \/ Shutdown \/ Joined \/ JoinTimeout \/ Sweep \/ Gathered

Spec == Init /\ [][Next]_vars

\* Callers that are woken or answered go on, workers and the health check turn, a
\* function that is not stuck returns or gives in to its timeout, and a
\* shutdown that has begun goes on.  Nobody has to call, to time out or to
\* shut down, and a stuck function never has to return.
Fairness ==
    /\ \A c \in Callers : WF_vars(Enter(c) \/ Answer(c) \/ Leave(c))
    /\ \A w \in Workers :
          WF_vars(worker[w] # "stuck" /\ WorkerStep(w))
    /\ WF_vars(HealthCheck)
    /\ WF_vars(Joined \/ JoinTimeout \/ Sweep \/ Gathered)

FairSpec == Spec /\ Fairness
-----------------------------------------------------------------------------
Held == {w \in Workers : worker[w] \in {"got", "running", "stuck"}}

\* The types of the executor's variables; a worker holds a call exactly when
\* it has taken one.
TypeOK ==
    /\ call \in [Callers -> {"out", "arriving", "putting", "woken", "waiting", "leaving", "gone"}]
    /\ future \in [Callers -> {"none", "pending", "ok", "error", "cancelled", "late", "stuck"}]
    /\ states \subseteq Callers /\ started \subseteq Callers /\ quit \subseteq Callers
    /\ queue \subseteq Callers /\ Cardinality(queue) <= MaxQueue
    /\ putters \in Seq(Callers)
    /\ unfinished \in Nat
    /\ worker \in [Workers -> {"none", "idle", "got", "running", "stuck", "dead"}]
    /\ job \in [Workers -> Callers \cup {None}]
    /\ \A w \in Workers : w \in Held <=> job[w] # None
    /\ accepting \in BOOLEAN /\ running \in BOOLEAN /\ forced \in BOOLEAN
    /\ shut \in {"no", "join", "joined", "force", "stop", "done"}
    /\ told \subseteq Workers /\ late \subseteq Callers

\* A graceful shutdown that is past its drain has answered every caller, except
\* those who were still at the door when queue.join was let go: they had no item
\* to be waited for, and may wait for ever (see the README).  It rests on one
\* task_done per item on every path of the worker, and on the future being
\* settled before it.
DrainedMeansAnswered ==
    Stopped /\ ~forced =>
        \A c \in Callers \ late :
            c \notin AtDoor /\ (call[c] = "waiting" => future[c] # "pending")

\* What holds of the executor in every state: the types, and that a drain is
\* complete.
ExecutorInv == TypeOK /\ DrainedMeansAnswered

Woken == {c \in Callers : call[c] = "woken"}

\* A free place is not forgotten: while a caller is blocked, as many are in the
\* queue or woken for it as it has places, whoever of them gives up.
NoLostWakeup == putters # <<>> => Cardinality(queue) + Cardinality(Woken) >= MaxQueue

\* A model call costs money: none is started for a caller that has given up,
\* been answered by the health check or been swept away by a shutdown.
AbandonedNotStarted ==
    [][\A w \in Workers :
        worker[w] = "got" /\ worker'[w] = "running" =>
            call[job[w]] = "waiting" /\ future[job[w]] = "pending"]_vars

\* Everybody who is let in is answered in the end, whatever functions hang, as
\* long as one worker is not stuck.  Two are excepted: a caller still at the door
\* when a drain was let go, and one that is blocked on the full queue when a
\* forced shutdown has woken as many as there were items.
Answered ==
    \A c \in Callers :
        (c \in AtDoor \/ call[c] \in {"waiting", "leaving"})
            ~> (call[c] = "gone" \/ c \in late \/ (forced /\ call[c] = "putting"))
=============================================================================
