-------------------------- MODULE WriteBufferProofs --------------------------
(* Theorems about WriteBuffer for any processes, hosts, coroutines, ids,    *)
(* values, requests and faults.                                             *)
EXTENDS WriteBuffer, TLAPS

-----------------------------------------------------------------------------
(* The inductive invariant.                                                 *)

\* The types of what is on the server and in the processes.
StoresOK ==
    /\ kind \in Kinds /\ exists \in BOOLEAN
    /\ server \in [Keys -> Values \cup {Absent}]
    /\ searchable \subseteq Keys
    /\ pendingUpserts \in [Procs -> [Keys -> Values \cup {None}]]
    /\ pendingDeletes \in [Procs -> SUBSET Keys]
    /\ indexReady \in [Procs -> BOOLEAN] /\ client \in [Procs -> BOOLEAN]
    /\ flushLock \in [Procs -> Tasks \cup {None}]
    /\ unsaved \in [Procs -> [Keys -> Values \cup {Absent, None}]]
    /\ severed \subseteq Related

Ops == Keys \X (Values \cup {Absent})

Row == [at : {"idle", "put", "create", "created", "bulk", "refresh", "release",
              "asked", "missing", "answered", "drop", "recreate", "query"},
        op : {"none", "upsert", "save", "finalize", "drop"},
        key : Keys \cup {None}, value : Values \cup {None},
        todo : SUBSET Ops, done : SUBSET Ops, retry : SUBSET Keys,
        answer : Values \cup {Absent, None}, blind : BOOLEAN]

\* A coroutine is part of an operation, and has what the operation needs.
RowOK(r) ==
    /\ r \in Row
    /\ r.at \in {"asked", "missing", "answered"} => r.key \in Keys
    /\ r.at \in {"put", "create", "created"} /\ r.op = "upsert" => r.key \in Keys /\ r.value \in Values
    /\ r.at = "put" => r.op = "upsert"
    /\ r.at \in {"create", "created"} => r.op \in {"upsert", "save", "finalize"}
    /\ r.at = "bulk" => r.op \in {"save", "finalize"}

TasksOK == DOMAIN task = Tasks /\ \A t \in Tasks : RowOK(task[t])

Flushing(r) == r.at = "bulk" \/ (r.at \in {"create", "created"} /\ r.op # "upsert")
Holding(r)  == Flushing(r) \/ r.at \in {"drop", "recreate", "query"}

\* Whoever flushes, drops or deletes relations holds the lock of its host.
LockOK == \A t \in Tasks : Holding(task[t]) => flushLock[HostOf[ProcOf[t]]] = t

\* A flush has before it, behind it or to ask again each change its process has
\* not been acknowledged, as it is now, once, and nothing else.
Covers(r, p) ==
    /\ \A o \in r.todo \cup r.done : o[2] # None /\ o[2] = unsaved[p][o[1]] /\ o[1] \notin r.retry
    /\ \A k \in Keys : unsaved[p][k] # None => <<k, unsaved[p][k]>> \in r.todo \cup r.done \/ k \in r.retry
    /\ r.todo \cap r.done = {}

FlushOK == \A t \in Tasks : Flushing(task[t]) => Covers(task[t], ProcOf[t])

\* A question the server is still to answer has been seen with its present answer.
AskedOK == \A t \in Tasks : task[t].at = "asked" => server[task[t].key] \in seen[t]

IInv == /\ StoresOK /\ TasksOK /\ LockOK /\ FlushOK /\ NothingForgotten
        /\ RelationsStayGone /\ AskedOK /\ ReadsCurrent

-----------------------------------------------------------------------------
(* What a step of a coroutine does to each part of it.                      *)

\* Only its own row changes.
RowStep(t) ==
    /\ DOMAIN task' = Tasks /\ \A u \in Tasks \ {t} : task'[u] = task[u]
    /\ RowOK(task'[t])

\* It takes the free lock, keeps what it has, or lets go of the lock it holds.
LockStep(t) ==
    \/ UNCHANGED flushLock /\ (Holding(task'[t]) => Holding(task[t]))
    \/ Free(t) /\ Lock(t)
    \/ Holding(task[t]) /\ Unlock(t) /\ ~Holding(task'[t])

\* The buffers of its process change only under the lock, no others ever.
BufferStep(t) ==
    /\ \/ UNCHANGED unsaved
       \/ /\ Free(t) \/ Holding(task[t])
          /\ \A q \in Procs \ {ProcOf[t]} : unsaved'[q] = unsaved[q]
    /\ NothingForgotten'

\* What it is to flush is all there is.
FlushStep(t) == Flushing(task'[t]) => Covers(task[t], ProcOf[t])'

\* An answer is what the process is to see, or what the server has.
ReadStep(t) ==
    task'[t].at = "answered" /\ ~task'[t].blind =>
        \/ task[t].at = "idle" /\ task'[t].answer = View(ProcOf[t])[task'[t].key]
        \/ task[t].at = "asked" /\ task'[t].answer = server[task[t].key]

StepOK(t) ==
    /\ StoresOK' /\ RowStep(t) /\ LockStep(t) /\ BufferStep(t)
    /\ FlushStep(t) /\ RelationsStayGone' /\ ReadStep(t)

\* The process of a coroutine, and its host.
LEMMA Places ==
    ASSUME NEW t \in Tasks
    PROVE  ProcOf[t] \in Procs /\ HostOf[ProcOf[t]] \in Procs
BY BufferAssumption DEF BufferAssumption

\* An operation that ends.
LEMMA FinishFacts ==
    ASSUME IInv, NEW t \in Tasks, Finish(t)
    PROVE  /\ RowStep(t) /\ FlushStep(t) /\ ReadStep(t)
           /\ task'[t].at = "idle" /\ ~Holding(task'[t])
<1>1. /\ DOMAIN task' = Tasks /\ \A u \in Tasks \ {t} : task'[u] = task[u]
      /\ task'[t] = Idle
  BY DEF Finish, IInv, TasksOK
<1>2. Idle \in Row /\ Idle.at = "idle"
  BY DEF Idle, Row
<1> QED BY <1>1, <1>2 DEF RowStep, RowOK, FlushStep, ReadStep, Flushing, Holding

\* An operation that goes on.
LEMMA MoveFacts ==
    ASSUME IInv, NEW t \in Tasks, Move(t, task'[t].at),
           task'[t].at \in {"put", "created", "bulk", "refresh", "release", "missing", "recreate"}
    PROVE  /\ DOMAIN task' = Tasks /\ \A u \in Tasks \ {t} : task'[u] = task[u]
           /\ task'[t] \in Row /\ ReadStep(t)
           /\ task'[t].op = task[t].op /\ task'[t].key = task[t].key /\ task'[t].value = task[t].value
           /\ task'[t].todo = task[t].todo /\ task'[t].done = task[t].done
           /\ task'[t].retry = task[t].retry
<1> DEFINE a == task'[t].at
<1>1. /\ DOMAIN task' = Tasks /\ \A u \in Tasks \ {t} : task'[u] = task[u]
      /\ task'[t] = [task[t] EXCEPT !.at = a]
  BY DEF Move, IInv, TasksOK
<1>2. task[t] \in Row
  BY DEF IInv, TasksOK, RowOK
<1> HIDE DEF a
<1>3. a \in {"put", "created", "bulk", "refresh", "release", "missing", "recreate"}
  BY DEF a
<1>4. /\ [task[t] EXCEPT !.at = a] \in Row
      /\ [task[t] EXCEPT !.at = a].op = task[t].op
      /\ [task[t] EXCEPT !.at = a].key = task[t].key
      /\ [task[t] EXCEPT !.at = a].value = task[t].value
      /\ [task[t] EXCEPT !.at = a].todo = task[t].todo
      /\ [task[t] EXCEPT !.at = a].done = task[t].done
      /\ [task[t] EXCEPT !.at = a].retry = task[t].retry
  BY <1>2, <1>3 DEF Row
<1> QED BY <1>1, <1>3, <1>4 DEF ReadStep, a

\* The buffers and the removed relations, in a step that does not touch them.
LEMMA QuietOK ==
    ASSUME IInv, NEW t \in Tasks, UNCHANGED <<buffers, unsaved, severed, server>>
    PROVE  BufferStep(t) /\ RelationsStayGone'
BY DEF IInv, buffers, BufferStep, NothingForgotten, RelationsStayGone

-----------------------------------------------------------------------------
(* Writing to the buffers.                                                  *)

LEMMA UpsertOK ==
    ASSUME IInv, NEW t \in Tasks, NEW k \in Keys, NEW v \in Values, Upsert(t, k, v)
    PROVE  StepOK(t)
<1> DEFINE r == [Idle EXCEPT !.op = "upsert", !.key = k, !.value = v,
                             !.at = IF indexReady[ProcOf[t]] THEN "put" ELSE "create"]
<1>1. /\ DOMAIN task' = Tasks /\ \A u \in Tasks \ {t} : task'[u] = task[u]
      /\ task'[t] = r
  BY DEF Upsert, IInv, TasksOK
<1>2. r \in Row /\ r.op = "upsert" /\ r.key = k /\ r.value = v /\ r.at \in {"put", "create"}
  BY DEF Idle, Row
<1> HIDE DEF r
<1>3. UNCHANGED <<kind, onServer, buffers, links, flushLock, history>>
  BY DEF Upsert
<1>4. StoresOK' /\ BufferStep(t) /\ RelationsStayGone'
  BY <1>3, QuietOK DEF IInv, StoresOK, onServer, buffers, links, history
<1> QED BY <1>1, <1>2, <1>3, <1>4
     DEF StepOK, RowStep, RowOK, LockStep, FlushStep, ReadStep, Holding, Flushing

LEMMA PutOK ==
    ASSUME IInv, NEW t \in Tasks, Put(t)
    PROVE  StepOK(t)
<1>1. Finish(t) /\ Free(t) /\ UNCHANGED <<kind, onServer, links, flushLock>>
  BY DEF Put
<1>2. PICK p \in Procs : p = ProcOf[t]
  BY Places
<1>3. PICK k \in Keys : k = task[t].key
  BY DEF Put, IInv, TasksOK, RowOK
<1>4. PICK v \in Values : v = task[t].value
  BY DEF Put, IInv, TasksOK, RowOK
<1>5. /\ pendingDeletes' = [pendingDeletes EXCEPT ![p] = @ \ {k}]
      /\ pendingUpserts' = [pendingUpserts EXCEPT ![p][k] = v]
      /\ unsaved' = [unsaved EXCEPT ![p][k] = v]
      /\ severed' = severed \ {k}
  BY <1>2, <1>3, <1>4 DEF Put, Owe
<1>6. StoresOK'
  BY <1>1, <1>5 DEF IInv, StoresOK, onServer, links
<1>7. NothingForgotten'
  BY <1>5 DEF IInv, StoresOK, NothingForgotten
<1>8. BufferStep(t)
  BY <1>1, <1>2, <1>5, <1>7 DEF BufferStep, IInv, StoresOK
<1>9. RelationsStayGone'
  BY <1>1, <1>5 DEF IInv, StoresOK, RelationsStayGone, onServer
<1> QED BY <1>1, <1>6, <1>8, <1>9, FinishFacts DEF StepOK, LockStep

LEMMA DeleteOK ==
    ASSUME IInv, NEW t \in Tasks, NEW k \in Keys, Delete(t, k)
    PROVE  StepOK(t)
<1>1. Finish(t) /\ Free(t) /\ UNCHANGED <<kind, onServer, links, flushLock, severed>>
  BY DEF Delete
<1>2. PICK p \in Procs : p = ProcOf[t]
  BY Places
<1>3. /\ pendingDeletes' = [pendingDeletes EXCEPT ![p] = @ \cup {k}]
      /\ pendingUpserts' = [pendingUpserts EXCEPT ![p][k] = None]
      /\ unsaved' = [unsaved EXCEPT ![p][k] = Absent]
  BY <1>2 DEF Delete, Owe
<1>4. StoresOK'
  BY <1>1, <1>3 DEF IInv, StoresOK, onServer, links
<1>5. NothingForgotten'
  BY <1>3 DEF IInv, StoresOK, NothingForgotten
<1>6. BufferStep(t)
  BY <1>1, <1>2, <1>3, <1>5 DEF BufferStep, IInv, StoresOK
<1>7. RelationsStayGone'
  BY <1>1, <1>3 DEF IInv, StoresOK, RelationsStayGone, onServer
<1> QED BY <1>1, <1>4, <1>6, <1>7, FinishFacts DEF StepOK, LockStep

LEMMA CreateIndexOK ==
    ASSUME IInv, NEW t \in Tasks, CreateIndex(t)
    PROVE  StepOK(t)
<1>1. /\ task[t].at = "create" /\ exists' = TRUE /\ client' = [client EXCEPT ![ProcOf[t]] = TRUE]
      /\ UNCHANGED <<kind, server, searchable, buffers, indexReady, flushLock, history>>
  BY DEF CreateIndex
<1>2. task'[t].at = "created" /\ Move(t, task'[t].at)
  BY DEF CreateIndex, Move, IInv, TasksOK, RowOK, Row
<1>3. RowOK(task[t])
  BY DEF IInv, TasksOK
<1>4. RowStep(t) /\ ReadStep(t)
  BY <1>1, <1>2, <1>3, MoveFacts DEF RowStep, RowOK
<1>5. LockStep(t)
  BY <1>1, <1>2, MoveFacts DEF LockStep, Holding, Flushing
<1>6. FlushStep(t)
  BY <1>1, <1>2, MoveFacts DEF FlushStep, IInv, FlushOK, Flushing, Covers, history
<1>7. StoresOK' /\ BufferStep(t) /\ RelationsStayGone'
  BY <1>1, QuietOK DEF IInv, StoresOK, buffers, history
<1> QED BY <1>4, <1>5, <1>6, <1>7 DEF StepOK

LEMMA MarkReadyOK ==
    ASSUME IInv, NEW t \in Tasks, MarkReady(t)
    PROVE  StepOK(t)
<1>1. /\ task[t].at = "created" /\ indexReady' = [indexReady EXCEPT ![ProcOf[t]] = TRUE]
      /\ UNCHANGED <<kind, onServer, buffers, client, flushLock, history>>
  BY DEF MarkReady
<1>2. /\ task'[t].at = IF task[t].op = "upsert" THEN "put" ELSE "bulk"
      /\ Move(t, task'[t].at)
  BY DEF MarkReady, Move, IInv, TasksOK, RowOK, Row
<1>3. RowOK(task[t])
  BY DEF IInv, TasksOK
<1>4. RowStep(t) /\ ReadStep(t)
  BY <1>1, <1>2, <1>3, MoveFacts DEF RowStep, RowOK
<1>5. LockStep(t)
  BY <1>1, <1>2, MoveFacts DEF LockStep, Holding, Flushing
<1>6. FlushStep(t)
  BY <1>1, <1>2, MoveFacts DEF FlushStep, IInv, FlushOK, Flushing, Covers, history
<1>7. StoresOK' /\ BufferStep(t) /\ RelationsStayGone'
  BY <1>1, QuietOK DEF IInv, StoresOK, buffers, history, onServer
<1> QED BY <1>4, <1>5, <1>6, <1>7 DEF StepOK

\* A flush that gives up: its coroutine ends, or goes on to release the client.
LEMMA GiveFacts ==
    ASSUME IInv, NEW t \in Tasks, Give(t), Unlock(t), Flushing(task[t])
    PROVE  RowStep(t) /\ ReadStep(t) /\ LockStep(t) /\ FlushStep(t)
<1>1. CASE Finish(t)
  BY <1>1, FinishFacts DEF LockStep, Holding
<1>2. CASE Move(t, "release")
  <2>1. task'[t].at = "release" /\ Move(t, task'[t].at)
    BY <1>2 DEF Move, IInv, TasksOK, RowOK, Row
  <2> QED BY <2>1, MoveFacts DEF RowStep, RowOK, LockStep, FlushStep, Flushing, Holding
<1> QED BY <1>1, <1>2 DEF Give

LEMMA CreateFailsOK ==
    ASSUME IInv, NEW t \in Tasks, CreateFails(t)
    PROVE  StepOK(t)
<1>1. /\ task[t].at = "create" /\ client' = [client EXCEPT ![ProcOf[t]] = TRUE]
      /\ UNCHANGED <<kind, onServer, buffers, indexReady, history>>
  BY DEF CreateFails
<1>2. CASE task[t].op = "upsert"
  <2>1. Finish(t) /\ UNCHANGED flushLock
    BY <1>2 DEF CreateFails
  <2>2. StoresOK' /\ BufferStep(t) /\ RelationsStayGone'
    BY <1>1, <2>1, QuietOK DEF IInv, StoresOK, buffers, history, onServer
  <2> QED BY <2>1, <2>2, FinishFacts DEF StepOK, LockStep
<1>3. CASE task[t].op # "upsert"
  <2>1. Give(t) /\ Unlock(t) /\ Flushing(task[t])
    BY <1>1, <1>3 DEF CreateFails, Flushing
  <2>2. flushLock' \in [Procs -> Tasks \cup {None}]
    BY <2>1, Places DEF Unlock, IInv, StoresOK
  <2>3. StoresOK' /\ BufferStep(t) /\ RelationsStayGone'
    BY <1>1, <2>2, QuietOK DEF IInv, StoresOK, buffers, history, onServer
  <2> QED BY <2>1, <2>3, GiveFacts DEF StepOK
<1> QED BY <1>2, <1>3

-----------------------------------------------------------------------------
(* Flushing.                                                                *)

\* What is pending is what is not yet acknowledged.
LEMMA PendingIs ==
    ASSUME IInv, NEW p \in Procs
    PROVE  /\ Pending(p) \in SUBSET Ops
           /\ \A o \in Pending(p) : o[2] # None /\ o[2] = unsaved[p][o[1]]
           /\ \A k \in Keys : unsaved[p][k] # None => <<k, unsaved[p][k]>> \in Pending(p)
<1>1. /\ pendingDeletes[p] \subseteq Keys /\ unsaved[p] \in [Keys -> Values \cup {Absent, None}]
      /\ pendingUpserts[p] \in [Keys -> Values \cup {None}]
  BY DEF IInv, StoresOK
<1>2. Absent # None
  BY DEF Absent, None
<1>3. \A k \in Keys :
        /\ k \in pendingDeletes[p] => pendingUpserts[p][k] = None
        /\ unsaved[p][k] = IF k \in pendingDeletes[p] THEN Absent ELSE pendingUpserts[p][k]
  BY DEF IInv, NothingForgotten
<1>4. ASSUME NEW o \in Pending(p) PROVE o \in Ops /\ o[2] # None /\ o[2] = unsaved[p][o[1]]
  <2>1. CASE \E k \in pendingDeletes[p] : o = <<k, Absent>>
    BY <1>1, <1>2, <1>3, <2>1 DEF Ops
  <2>2. CASE \E k \in Keys : pendingUpserts[p][k] # None /\ o = <<k, pendingUpserts[p][k]>>
    BY <1>1, <1>2, <1>3, <2>2 DEF Ops
  <2> QED BY <2>1, <2>2 DEF Pending
<1>5. \A k \in Keys : unsaved[p][k] # None => <<k, unsaved[p][k]>> \in Pending(p)
  BY <1>1, <1>3 DEF Pending
<1> QED BY <1>4, <1>5

LEMMA BeginFlushOK ==
    ASSUME IInv, NEW t \in Tasks, NEW op \in {"save", "finalize"}, Flush(t, op)
    PROVE  StepOK(t)
<1>1. PICK p \in Procs : p = ProcOf[t]
  BY Places
<1>2. Free(t) /\ UNCHANGED <<kind, onServer, buffers, links, history>>
  BY DEF Flush
<1>3. BufferStep(t) /\ RelationsStayGone'
  BY <1>2, QuietOK DEF onServer, history
<1>4. CASE Pending(p) = {} \/ ~client[p]
  <2> DEFINE r == [Idle EXCEPT !.op = op, !.at = IF op = "save" THEN "refresh" ELSE "release"]
  <2>1. /\ DOMAIN task' = Tasks /\ \A u \in Tasks \ {t} : task'[u] = task[u]
        /\ task'[t] = r /\ UNCHANGED flushLock
    BY <1>1, <1>4 DEF Flush, IInv, TasksOK
  <2>2. r \in Row /\ r.op = op /\ r.at \in {"refresh", "release"}
    BY DEF Idle, Row
  <2> HIDE DEF r
  <2>3. StoresOK'
    BY <1>2, <2>1 DEF IInv, StoresOK, onServer, buffers, links, history
  <2> QED BY <1>3, <2>1, <2>2, <2>3
       DEF StepOK, RowStep, RowOK, LockStep, FlushStep, ReadStep, Holding, Flushing
<1>5. CASE ~(Pending(p) = {} \/ ~client[p])
  <2> DEFINE r == [Idle EXCEPT !.op = op, !.todo = Pending(p),
                               !.at = IF indexReady[p] THEN "bulk" ELSE "create"]
  <2>1. /\ DOMAIN task' = Tasks /\ \A u \in Tasks \ {t} : task'[u] = task[u]
        /\ task'[t] = r /\ Lock(t)
    BY <1>1, <1>5 DEF Flush, IInv, TasksOK
  <2>2. /\ r \in Row /\ r.op = op /\ r.at \in {"bulk", "create"}
        /\ r.todo = Pending(p) /\ r.done = {} /\ r.retry = {}
    BY PendingIs DEF Idle, Row
  <2> HIDE DEF r
  <2>3. StoresOK'
    BY <1>2, <2>1, Places DEF IInv, StoresOK, onServer, buffers, links, history, Lock
  <2>4. Covers(task[t], ProcOf[t])'
    BY <1>1, <1>2, <2>1, <2>2, PendingIs DEF Covers, history
  <2> QED BY <1>2, <1>3, <2>1, <2>2, <2>3, <2>4
       DEF StepOK, RowStep, RowOK, LockStep, FlushStep, ReadStep, Holding, Flushing
<1> QED BY <1>4, <1>5

\* What the server answers to one operation of the bulk.
LEMMA ItemFacts ==
    ASSUME IInv, NEW t \in Tasks, task[t].at = "bulk", NEW o \in task[t].todo,
           UNCHANGED <<flushLock, unsaved>>,
           \/ task' = [task EXCEPT ![t].todo = @ \ {o}, ![t].done = @ \cup {o}]
           \/ task' = [task EXCEPT ![t].todo = @ \ {o}, ![t].retry = @ \cup {o[1]}]
    PROVE  /\ RowStep(t) /\ LockStep(t) /\ FlushStep(t) /\ ReadStep(t)
           /\ o \in Ops /\ o[2] = unsaved[ProcOf[t]][o[1]]
<1> DEFINE r == task[t]
           d == [r EXCEPT !.todo = @ \ {o}, !.done = @ \cup {o}]
           y == [r EXCEPT !.todo = @ \ {o}, !.retry = @ \cup {o[1]}]
<1>1. r \in Row /\ r.op \in {"save", "finalize"} /\ Covers(r, ProcOf[t])
  BY DEF IInv, TasksOK, RowOK, FlushOK, Flushing
<1>2. /\ DOMAIN task' = Tasks /\ \A u \in Tasks \ {t} : task'[u] = task[u]
      /\ task'[t] \in {d, y}
  BY DEF IInv, TasksOK
<1>3. r.todo \subseteq Ops /\ r.done \subseteq Ops /\ r.retry \subseteq Keys /\ o \in Ops /\ o[1] \in Keys
  BY <1>1 DEF Row, Ops
<1>4. /\ d \in Row /\ d.at = r.at /\ d.op = r.op
      /\ d.todo = r.todo \ {o} /\ d.done = r.done \cup {o} /\ d.retry = r.retry
  BY <1>1, <1>3 DEF Row
<1>5. /\ y \in Row /\ y.at = r.at /\ y.op = r.op
      /\ y.todo = r.todo \ {o} /\ y.done = r.done /\ y.retry = r.retry \cup {o[1]}
  BY <1>1, <1>3 DEF Row
<1>6. Covers(d, ProcOf[t])
  BY <1>1, <1>4 DEF Covers
<1>7. Covers(y, ProcOf[t])
  <2>1. ASSUME NEW e \in (r.todo \ {o}) \cup r.done PROVE e[1] # o[1]
    <3>1. e \in Ops /\ e # o /\ e[2] = unsaved[ProcOf[t]][e[1]] /\ o[2] = unsaved[ProcOf[t]][o[1]]
      BY <1>1, <1>3 DEF Covers
    <3> QED BY <1>3, <3>1 DEF Ops
  <2>2. \A e \in y.todo \cup y.done : e[2] # None /\ e[2] = unsaved[ProcOf[t]][e[1]] /\ e[1] \notin y.retry
    BY <1>1, <1>5, <2>1 DEF Covers
  <2>3. ASSUME NEW k \in Keys, unsaved[ProcOf[t]][k] # None
        PROVE  <<k, unsaved[ProcOf[t]][k]>> \in y.todo \cup y.done \/ k \in y.retry
    BY <1>1, <1>5, <2>3 DEF Covers
  <2> QED BY <1>1, <1>5, <2>2, <2>3 DEF Covers
<1>8. o[2] = unsaved[ProcOf[t]][o[1]]
  BY <1>1 DEF Covers
<1> HIDE DEF d, y
<1>9. /\ task'[t] \in Row /\ task'[t].at = "bulk" /\ task'[t].op \in {"save", "finalize"}
      /\ Covers(task'[t], ProcOf[t])
  BY <1>1, <1>2, <1>4, <1>5, <1>6, <1>7
<1>10. Covers(task[t], ProcOf[t])'
  BY <1>9 DEF Covers
<1> QED BY <1>2, <1>3, <1>8, <1>9, <1>10
     DEF RowStep, RowOK, LockStep, FlushStep, ReadStep, Holding, Flushing

LEMMA BulkItemOK ==
    ASSUME IInv, NEW t \in Tasks, NEW o \in task[t].todo, BulkItem(t, o)
    PROVE  StepOK(t)
<1>1. /\ task[t].at = "bulk" /\ UNCHANGED <<kind, buffers, links, flushLock, history>>
      /\ task' = [task EXCEPT ![t].todo = @ \ {o}, ![t].done = @ \cup {o}]
      /\ exists' = (exists \/ o[2] # Absent)
      /\ server' = [server EXCEPT ![o[1]] = o[2]]
      /\ searchable' = searchable \ {o[1]}
  BY DEF BulkItem
<1>2. RowStep(t) /\ LockStep(t) /\ FlushStep(t) /\ ReadStep(t) /\ o \in Ops /\ o[2] = unsaved[ProcOf[t]][o[1]]
  BY <1>1, ItemFacts DEF history
<1>3. StoresOK'
  BY <1>1, <1>2 DEF IInv, StoresOK, buffers, links, history, Ops
<1>4. BufferStep(t)
  BY <1>1 DEF IInv, BufferStep, NothingForgotten, buffers, history
<1>5. RelationsStayGone'
  <2>1. ASSUME NEW k \in severed, k = o[1] PROVE o[2] = Absent
    <3>1. /\ k \in Keys /\ ProcOf[t] \in Procs /\ pendingUpserts[ProcOf[t]][k] = None
          /\ o[2] \in Values \cup {Absent} /\ o[2] = unsaved[ProcOf[t]][k]
      BY <1>2, <2>1, Places DEF IInv, RelationsStayGone, Ops
    <3>2. unsaved[ProcOf[t]][k] \in {Absent, None}
      BY <3>1 DEF IInv, NothingForgotten
    <3> QED BY <3>1, <3>2, ValuesAssumption DEF Absent, None
  <2>2. ASSUME NEW k \in severed PROVE server'[k] = Absent
    <3>1. k \in Keys /\ server[k] = Absent /\ server \in [Keys -> Values \cup {Absent}]
      BY BufferAssumption DEF IInv, StoresOK, RelationsStayGone, BufferAssumption
    <3> QED BY <1>1, <2>1, <3>1
  <2> QED BY <1>1, <2>2 DEF IInv, RelationsStayGone, buffers, history
<1> QED BY <1>2, <1>3, <1>4, <1>5 DEF StepOK

LEMMA BulkItemNotOK ==
    ASSUME IInv, NEW t \in Tasks, NEW o \in task[t].todo, BulkItemBusy(t, o) \/ BulkItemRefused(t, o)
    PROVE  StepOK(t)
<1>1. /\ task[t].at = "bulk" /\ UNCHANGED <<kind, onServer, buffers, links, flushLock, history>>
      /\ \/ task' = [task EXCEPT ![t].todo = @ \ {o}, ![t].done = @ \cup {o}]
         \/ task' = [task EXCEPT ![t].todo = @ \ {o}, ![t].retry = @ \cup {o[1]}]
  BY DEF BulkItemBusy, BulkItemRefused
<1>2. RowStep(t) /\ LockStep(t) /\ FlushStep(t) /\ ReadStep(t)
  BY <1>1, ItemFacts DEF history
<1>3. StoresOK' /\ BufferStep(t) /\ RelationsStayGone'
  BY <1>1, QuietOK DEF IInv, StoresOK, onServer, buffers, links, history
<1> QED BY <1>2, <1>3 DEF StepOK

LEMMA BulkFailsOK ==
    ASSUME IInv, NEW t \in Tasks, BulkFails(t)
    PROVE  StepOK(t)
<1>1. Give(t) /\ Unlock(t) /\ Flushing(task[t]) /\ UNCHANGED <<kind, onServer, buffers, links, history>>
  BY DEF BulkFails, Flushing
<1>2. flushLock' \in [Procs -> Tasks \cup {None}]
  BY <1>1, Places DEF Unlock, IInv, StoresOK
<1>3. StoresOK' /\ BufferStep(t) /\ RelationsStayGone'
  BY <1>1, <1>2, QuietOK DEF IInv, StoresOK, buffers, links, history, onServer
<1> QED BY <1>1, <1>3, GiveFacts DEF StepOK

\* The end of a flush: an id keeps its place in the buffers if and only if the
\* server has not settled it.
LEMMA FlushEndOK ==
    ASSUME IInv, NEW t \in Tasks, FlushEnd(t)
    PROVE  StepOK(t)
<1>1. PICK p \in Procs : p = ProcOf[t]
  BY Places
<1> DEFINE done == task[t].done
           retry == task[t].retry
<1>2. /\ task[t].at = "bulk" /\ task[t].todo = {}
      /\ pendingUpserts' = [pendingUpserts EXCEPT ![p] =
                               [k \in Keys |-> IF k \in retry THEN @[k] ELSE None]]
      /\ pendingDeletes' = [pendingDeletes EXCEPT ![p] = @ \cap retry]
      /\ unsaved' = [unsaved EXCEPT ![p] =
                        [k \in Keys |-> IF <<k, @[k]>> \in done THEN None ELSE @[k]]]
      /\ Move(t, IF task[t].op = "save" THEN "refresh" ELSE "release")
      /\ Unlock(t)
      /\ UNCHANGED <<kind, onServer, links, severed>>
  BY <1>1 DEF FlushEnd, Settled
<1>3. Covers(task[t], p)
  BY <1>1, <1>2 DEF IInv, FlushOK, Flushing
<1>4. task'[t].at \in {"refresh", "release"} /\ Move(t, task'[t].at)
  BY <1>2 DEF Move, IInv, TasksOK, RowOK, Row
<1>5. RowStep(t) /\ ReadStep(t) /\ FlushStep(t)
  BY <1>4, MoveFacts DEF RowStep, RowOK, FlushStep, Flushing
<1>6. LockStep(t)
  BY <1>2, <1>4 DEF LockStep, Holding, Flushing
<1> HIDE DEF done, retry
<1>7. /\ \A k \in Keys : pendingUpserts'[p][k] = IF k \in retry THEN pendingUpserts[p][k] ELSE None
      /\ pendingDeletes'[p] = pendingDeletes[p] \cap retry
      /\ \A k \in Keys : unsaved'[p][k] = IF <<k, unsaved[p][k]>> \in done THEN None ELSE unsaved[p][k]
      /\ \A q \in Procs \ {p} : /\ pendingUpserts'[q] = pendingUpserts[q]
                                /\ pendingDeletes'[q] = pendingDeletes[q]
                                /\ unsaved'[q] = unsaved[q]
  BY <1>2 DEF IInv, StoresOK
<1>8. StoresOK'
  <2>1. flushLock' \in [Procs -> Tasks \cup {None}]
    BY <1>2, Places DEF Unlock, IInv, StoresOK
  <2>2. pendingUpserts' \in [Procs -> [Keys -> Values \cup {None}]]
    BY <1>2 DEF IInv, StoresOK
  <2>3. pendingDeletes' \in [Procs -> SUBSET Keys]
    BY <1>2 DEF IInv, StoresOK
  <2>4. unsaved' \in [Procs -> [Keys -> Values \cup {Absent, None}]]
    BY <1>2 DEF IInv, StoresOK
  <2> QED BY <1>2, <2>1, <2>2, <2>3, <2>4 DEF IInv, StoresOK, onServer, links
<1>9. \A k \in Keys : /\ unsaved[p][k] # None => <<k, unsaved[p][k]>> \in done \/ k \in retry
                      /\ <<k, unsaved[p][k]>> \in done => k \notin retry
  BY <1>2, <1>3 DEF Covers, done, retry
<1>10. NothingForgotten'
  <2>1. ASSUME NEW k \in Keys
        PROVE  /\ k \in pendingDeletes'[p] => pendingUpserts'[p][k] = None
               /\ unsaved'[p][k] = IF k \in pendingDeletes'[p] THEN Absent ELSE pendingUpserts'[p][k]
    <3>1. /\ k \in pendingDeletes[p] => pendingUpserts[p][k] = None
          /\ unsaved[p][k] = IF k \in pendingDeletes[p] THEN Absent ELSE pendingUpserts[p][k]
      BY DEF IInv, NothingForgotten
    <3>2. CASE k \in retry
      BY <1>7, <1>9, <3>1, <3>2
    <3>3. CASE k \notin retry
      BY <1>7, <1>9, <3>1, <3>3
    <3> QED BY <3>2, <3>3
  <2> QED BY <1>7, <2>1 DEF IInv, NothingForgotten
<1>11. BufferStep(t)
  BY <1>1, <1>2, <1>7, <1>10 DEF BufferStep, Holding, Flushing
<1>12. RelationsStayGone'
  <2>1. \A k \in severed : k \in Keys /\ server[k] = Absent /\ \A q \in Procs : pendingUpserts[q][k] = None
    BY BufferAssumption DEF IInv, StoresOK, RelationsStayGone, BufferAssumption
  <2>2. \A k \in severed, q \in Procs : pendingUpserts'[q][k] = None
    BY <1>7, <2>1
  <2> QED BY <1>2, <2>1, <2>2 DEF RelationsStayGone, onServer
<1> QED BY <1>5, <1>6, <1>8, <1>11, <1>12 DEF StepOK

LEMMA RefreshOK ==
    ASSUME IInv, NEW t \in Tasks, Refresh(t) \/ RefreshFails(t) \/ Release(t)
    PROVE  StepOK(t)
<1>1. /\ Finish(t) /\ UNCHANGED <<kind, exists, server, buffers, flushLock, history>>
      /\ searchable' \subseteq Keys
      /\ indexReady' \in [Procs -> BOOLEAN] /\ client' \in [Procs -> BOOLEAN]
  BY DEF Refresh, RefreshFails, Release, onServer, links, IInv, StoresOK
<1>2. StoresOK' /\ BufferStep(t) /\ RelationsStayGone'
  BY <1>1, QuietOK DEF IInv, StoresOK, buffers, history
<1> QED BY <1>1, <1>2, FinishFacts DEF StepOK, LockStep

-----------------------------------------------------------------------------
(* Reading.                                                                 *)

\* An answer to the caller.
LEMMA AnswerFacts ==
    ASSUME IInv, NEW t \in Tasks, NEW k \in Keys, NEW v \in Values \cup {Absent},
           NEW b \in BOOLEAN, Answer(t, k, v, b)
    PROVE  /\ RowStep(t) /\ FlushStep(t) /\ ~Holding(task'[t])
           /\ task'[t].at = "answered" /\ task'[t].key = k
           /\ task'[t].answer = v /\ task'[t].blind = b
<1> DEFINE r == [Idle EXCEPT !.at = "answered", !.key = k, !.answer = v, !.blind = b]
<1>1. /\ DOMAIN task' = Tasks /\ \A u \in Tasks \ {t} : task'[u] = task[u]
      /\ task'[t] = r
  BY DEF Answer, IInv, TasksOK
<1>2. r \in Row /\ r.at = "answered" /\ r.key = k /\ r.answer = v /\ r.blind = b
  BY DEF Idle, Row
<1> HIDE DEF r
<1> QED BY <1>1, <1>2 DEF RowStep, RowOK, FlushStep, Holding, Flushing

LEMMA LookOK ==
    ASSUME IInv, NEW t \in Tasks, NEW k \in Keys, Look(t, k)
    PROVE  StepOK(t)
<1>1. UNCHANGED <<kind, onServer, buffers, links, flushLock, history>>
  BY DEF Look
<1>2. StoresOK' /\ BufferStep(t) /\ RelationsStayGone'
  BY <1>1, QuietOK DEF IInv, StoresOK, onServer, buffers, links, history
<1>3. PICK p \in Procs : p = ProcOf[t]
  BY Places
<1>4. /\ task[t].at = "idle" /\ unsaved[p] \in [Keys -> Values \cup {Absent, None}]
      /\ pendingUpserts[p] \in [Keys -> Values \cup {None}]
      /\ k \in pendingDeletes[p] => pendingUpserts[p][k] = None
      /\ unsaved[p][k] = IF k \in pendingDeletes[p] THEN Absent ELSE pendingUpserts[p][k]
  BY DEF Look, Ask, IInv, StoresOK, NothingForgotten
<1>5. View(p)[k] = IF unsaved[p][k] # None THEN unsaved[p][k] ELSE server[k]
  BY DEF View
<1>6. CASE k \in pendingDeletes[p] /\ Answer(t, k, Absent, FALSE)
  <2>1. View(p)[k] = Absent
    BY <1>4, <1>5, <1>6 DEF Absent, None
  <2>2. /\ RowStep(t) /\ FlushStep(t) /\ ~Holding(task'[t]) /\ task'[t].key = k /\ task'[t].answer = Absent
    BY <1>6, AnswerFacts
  <2> QED BY <1>1, <1>2, <1>3, <1>4, <2>1, <2>2 DEF StepOK, LockStep, ReadStep
<1>7. CASE k \notin pendingDeletes[p] /\ pendingUpserts[p][k] # None /\ Answer(t, k, pendingUpserts[p][k], FALSE)
  <2>1. View(p)[k] = pendingUpserts[p][k] /\ pendingUpserts[p][k] \in Values \cup {Absent}
    BY <1>4, <1>5, <1>7
  <2>2. /\ RowStep(t) /\ FlushStep(t) /\ ~Holding(task'[t])
        /\ task'[t].key = k /\ task'[t].answer = pendingUpserts[p][k]
    BY <1>7, <2>1, AnswerFacts
  <2> QED BY <1>1, <1>2, <1>3, <1>4, <2>1, <2>2 DEF StepOK, LockStep, ReadStep
<1>8. CASE Answer(t, k, Absent, TRUE)
  <2>1. RowStep(t) /\ FlushStep(t) /\ ~Holding(task'[t]) /\ task'[t].blind = TRUE
    BY <1>8, AnswerFacts
  <2> QED BY <1>1, <1>2, <2>1 DEF StepOK, LockStep, ReadStep
<1>9. CASE Finish(t)
  BY <1>1, <1>2, <1>9, FinishFacts DEF StepOK, LockStep
<1>10. CASE task' = [task EXCEPT ![t] = [Idle EXCEPT !.at = "asked", !.key = k]]
  <2> DEFINE r == [Idle EXCEPT !.at = "asked", !.key = k]
  <2>1. /\ DOMAIN task' = Tasks /\ \A u \in Tasks \ {t} : task'[u] = task[u]
        /\ task'[t] = r
    BY <1>10 DEF IInv, TasksOK
  <2>2. r \in Row /\ r.at = "asked" /\ r.key = k
    BY DEF Idle, Row
  <2> HIDE DEF r
  <2> QED BY <1>1, <1>2, <2>1, <2>2
       DEF StepOK, RowStep, RowOK, LockStep, FlushStep, ReadStep, Holding, Flushing
<1> QED BY <1>3, <1>6, <1>7, <1>8, <1>9, <1>10 DEF Look

LEMMA ReplyOK ==
    ASSUME IInv, NEW t \in Tasks, Reply(t)
    PROVE  StepOK(t)
<1>1. task[t].at = "asked" /\ UNCHANGED <<kind, onServer, buffers, links, flushLock, history>>
  BY DEF Reply
<1>2. StoresOK' /\ BufferStep(t) /\ RelationsStayGone'
  BY <1>1, QuietOK DEF IInv, StoresOK, onServer, buffers, links, history
<1>3. task[t].key \in Keys /\ server[task[t].key] \in Values \cup {Absent}
  BY <1>1 DEF IInv, TasksOK, RowOK, StoresOK
<1>4. CASE Answer(t, task[t].key, server[task[t].key], FALSE)
  <2> DEFINE k == task[t].key
             v == server[k]
  <2>1. k \in Keys /\ v \in Values \cup {Absent} /\ Answer(t, k, v, FALSE)
    BY <1>3, <1>4
  <2> HIDE DEF k, v
  <2>2. RowStep(t) /\ FlushStep(t) /\ ~Holding(task'[t]) /\ task'[t].answer = v
    BY <2>1, AnswerFacts
  <2> QED BY <1>1, <1>2, <2>2 DEF StepOK, LockStep, ReadStep, k, v
<1>5. CASE Move(t, "missing")
  <2>1. task'[t].at = "missing" /\ Move(t, task'[t].at)
    BY <1>5 DEF Move, IInv, TasksOK, RowOK, Row
  <2>2. RowStep(t) /\ ReadStep(t)
    BY <1>3, <2>1, MoveFacts DEF RowStep, RowOK
  <2> QED BY <1>1, <1>2, <2>1, <2>2 DEF StepOK, LockStep, FlushStep, Holding, Flushing
<1> QED BY <1>4, <1>5 DEF Reply

\* Answers that only say that there was no way to look.
LEMMA BlindOK ==
    ASSUME IInv, NEW t \in Tasks, MarkMissing(t) \/ ReplyFails(t)
    PROVE  StepOK(t)
<1>1. /\ task[t].at \in {"asked", "missing"} /\ Answer(t, task[t].key, Absent, TRUE)
      /\ UNCHANGED <<kind, onServer, buffers, client, flushLock, history>>
      /\ indexReady' \in [Procs -> BOOLEAN]
  BY DEF MarkMissing, ReplyFails, links, IInv, StoresOK
<1>2. StoresOK' /\ BufferStep(t) /\ RelationsStayGone'
  BY <1>1, QuietOK DEF IInv, StoresOK, onServer, buffers, history
<1>3. task[t].key \in Keys
  BY <1>1 DEF IInv, TasksOK, RowOK
<1>4. RowStep(t) /\ FlushStep(t) /\ ~Holding(task'[t]) /\ task'[t].blind = TRUE
  BY <1>1, <1>3, AnswerFacts
<1> QED BY <1>1, <1>2, <1>4 DEF StepOK, LockStep, ReadStep

LEMMA ReturnOK ==
    ASSUME IInv, NEW t \in Tasks, Return(t)
    PROVE  StepOK(t)
<1>1. Finish(t) /\ UNCHANGED <<kind, onServer, buffers, links, flushLock, history>>
  BY DEF Return
<1>2. StoresOK' /\ BufferStep(t) /\ RelationsStayGone'
  BY <1>1, QuietOK DEF IInv, StoresOK, onServer, buffers, links, history
<1> QED BY <1>1, <1>2, FinishFacts DEF StepOK, LockStep

-----------------------------------------------------------------------------
(* Dropping the index, deleting relations.                                  *)

LEMMA DropOK ==
    ASSUME IInv, NEW t \in Tasks, Drop(t)
    PROVE  StepOK(t)
<1>1. PICK p \in Procs : p = ProcOf[t]
  BY Places
<1>2. /\ Free(t) /\ Lock(t) /\ UNCHANGED <<kind, onServer, links, severed>>
      /\ pendingUpserts' = [pendingUpserts EXCEPT ![p] = [k \in Keys |-> None]]
      /\ pendingDeletes' = [pendingDeletes EXCEPT ![p] = {}]
      /\ unsaved' = [unsaved EXCEPT ![p] = [k \in Keys |-> None]]
  BY <1>1 DEF Drop
<1> DEFINE r == [Idle EXCEPT !.at = "drop", !.op = "drop"]
<1>3. /\ DOMAIN task' = Tasks /\ \A u \in Tasks \ {t} : task'[u] = task[u]
      /\ task'[t] = r
  BY DEF Drop, IInv, TasksOK
<1>4. r \in Row /\ r.at = "drop"
  BY DEF Idle, Row
<1> HIDE DEF r
<1>5. flushLock' \in [Procs -> Tasks \cup {None}]
  BY <1>2, Places DEF Lock, IInv, StoresOK
<1>6. StoresOK'
  BY <1>2, <1>5 DEF IInv, StoresOK, onServer, links
<1>7. NothingForgotten'
  BY <1>2 DEF IInv, StoresOK, NothingForgotten
<1>8. BufferStep(t)
  BY <1>1, <1>2, <1>7 DEF BufferStep, IInv, StoresOK
<1>9. RelationsStayGone'
  <2>1. severed \subseteq Keys
    BY BufferAssumption DEF IInv, StoresOK, BufferAssumption
  <2> QED BY <1>2, <2>1 DEF IInv, StoresOK, RelationsStayGone, onServer
<1> QED BY <1>2, <1>3, <1>4, <1>6, <1>8, <1>9
     DEF StepOK, RowStep, RowOK, LockStep, FlushStep, ReadStep, Flushing

LEMMA DropIndexOK ==
    ASSUME IInv, NEW t \in Tasks, DropIndex(t)
    PROVE  StepOK(t)
<1>1. /\ task[t].at = "drop" /\ exists' = FALSE /\ server' = [k \in Keys |-> Absent] /\ searchable' = Keys
      /\ UNCHANGED <<kind, buffers, client, history>>
  BY DEF DropIndex
<1>2. BufferStep(t)
  BY <1>1 DEF IInv, BufferStep, NothingForgotten, buffers, history
<1>3. RelationsStayGone'
  <2>1. severed \subseteq Keys
    BY BufferAssumption DEF IInv, StoresOK, BufferAssumption
  <2> QED BY <1>1, <2>1 DEF IInv, RelationsStayGone, buffers, history
<1>4. CASE kind = "vector"
  <2>1. Move(t, "recreate") /\ UNCHANGED <<indexReady, flushLock>>
    BY <1>4 DEF DropIndex
  <2>2. task'[t].at = "recreate" /\ Move(t, task'[t].at)
    BY <2>1 DEF Move, IInv, TasksOK, RowOK, Row
  <2>3. RowStep(t) /\ ReadStep(t)
    BY <2>2, MoveFacts DEF RowStep, RowOK
  <2>4. LockStep(t) /\ FlushStep(t)
    BY <1>1, <2>1, <2>2 DEF LockStep, FlushStep, Holding, Flushing
  <2>5. StoresOK'
    BY <1>1, <2>1 DEF IInv, StoresOK, buffers, history
  <2> QED BY <1>2, <1>3, <2>3, <2>4, <2>5 DEF StepOK
<1>5. CASE kind # "vector"
  <2>1. Finish(t) /\ Unlock(t) /\ indexReady' = [indexReady EXCEPT ![ProcOf[t]] = FALSE]
    BY <1>5 DEF DropIndex
  <2>2. LockStep(t)
    BY <1>1, <2>1, FinishFacts DEF LockStep, Holding
  <2>3. flushLock' \in [Procs -> Tasks \cup {None}]
    BY <2>1, Places DEF Unlock, IInv, StoresOK
  <2>4. StoresOK'
    BY <1>1, <2>1, <2>3 DEF IInv, StoresOK, buffers, history
  <2> QED BY <1>2, <1>3, <2>1, <2>2, <2>4, FinishFacts DEF StepOK
<1> QED BY <1>4, <1>5

LEMMA DropEndOK ==
    ASSUME IInv, NEW t \in Tasks, Recreate(t) \/ DropFails(t)
    PROVE  StepOK(t)
<1>1. /\ task[t].at \in {"drop", "recreate"} /\ exists' \in BOOLEAN /\ Finish(t) /\ Unlock(t)
      /\ UNCHANGED <<kind, server, searchable, buffers, client, history>>
      /\ indexReady' \in [Procs -> BOOLEAN]
  BY DEF Recreate, DropFails, onServer, IInv, StoresOK
<1>2. LockStep(t)
  BY <1>1, FinishFacts DEF LockStep, Holding
<1>3. flushLock' \in [Procs -> Tasks \cup {None}]
  BY <1>1, Places DEF Unlock, IInv, StoresOK
<1>4. StoresOK' /\ BufferStep(t) /\ RelationsStayGone'
  BY <1>1, <1>3, QuietOK DEF IInv, StoresOK, buffers, history
<1> QED BY <1>1, <1>2, <1>4, FinishFacts DEF StepOK

\* delete_entity_relation withdraws the same upserts from both records.
LEMMA DeleteRelationsOK ==
    ASSUME IInv, NEW t \in Tasks, DeleteRelations(t)
    PROVE  StepOK(t)
<1>1. PICK p \in Procs : p = ProcOf[t]
  BY Places
<1> DEFINE pruned(f) == [f EXCEPT ![p] = [k \in Keys |->
                           IF k \in Related /\ @[k] \notin {None, Absent} THEN None ELSE @[k]]]
<1>2. /\ Free(t) /\ UNCHANGED <<kind, onServer, pendingDeletes, links, severed>>
      /\ pendingUpserts' = pruned(pendingUpserts) /\ unsaved' = pruned(unsaved)
  BY <1>1 DEF DeleteRelations, Prune
<1>3. /\ \A k \in Keys : pendingUpserts'[p][k] =
             IF k \in Related /\ pendingUpserts[p][k] \notin {None, Absent} THEN None ELSE pendingUpserts[p][k]
      /\ \A k \in Keys : unsaved'[p][k] =
             IF k \in Related /\ unsaved[p][k] \notin {None, Absent} THEN None ELSE unsaved[p][k]
      /\ \A q \in Procs \ {p} : pendingUpserts'[q] = pendingUpserts[q] /\ unsaved'[q] = unsaved[q]
  BY <1>2 DEF IInv, StoresOK
<1>4. /\ pendingUpserts' \in [Procs -> [Keys -> Values \cup {None}]]
      /\ unsaved' \in [Procs -> [Keys -> Values \cup {Absent, None}]]
  BY <1>2 DEF IInv, StoresOK
<1> HIDE DEF pruned
<1>5. NothingForgotten'
  <2>1. ASSUME NEW k \in Keys
        PROVE  /\ k \in pendingDeletes'[p] => pendingUpserts'[p][k] = None
               /\ unsaved'[p][k] = IF k \in pendingDeletes'[p] THEN Absent ELSE pendingUpserts'[p][k]
    <3>1. /\ k \in pendingDeletes[p] => pendingUpserts[p][k] = None
          /\ unsaved[p][k] = IF k \in pendingDeletes[p] THEN Absent ELSE pendingUpserts[p][k]
      BY DEF IInv, NothingForgotten
    <3> QED BY <1>2, <1>3, <3>1
  <2> QED BY <1>2, <1>3, <2>1 DEF IInv, NothingForgotten
<1>6. BufferStep(t)
  BY <1>1, <1>2, <1>3, <1>5 DEF BufferStep
<1>7. RelationsStayGone'
  <2>1. \A k \in severed : k \in Keys /\ server[k] = Absent /\ \A q \in Procs : pendingUpserts[q][k] = None
    BY BufferAssumption DEF IInv, StoresOK, RelationsStayGone, BufferAssumption
  <2>2. \A k \in severed, q \in Procs : pendingUpserts'[q][k] = None
    BY <1>3, <2>1
  <2> QED BY <1>2, <2>1, <2>2 DEF RelationsStayGone, onServer
<1>8. CASE indexReady[p]
  <2> DEFINE r == [Idle EXCEPT !.at = "query"]
  <2>1. /\ DOMAIN task' = Tasks /\ \A u \in Tasks \ {t} : task'[u] = task[u]
        /\ task'[t] = r /\ Lock(t)
    BY <1>1, <1>8 DEF DeleteRelations, IInv, TasksOK
  <2>2. r \in Row /\ r.at = "query"
    BY DEF Idle, Row
  <2> HIDE DEF r
  <2>3. flushLock' \in [Procs -> Tasks \cup {None}]
    BY <2>1, Places DEF Lock, IInv, StoresOK
  <2>4. StoresOK'
    BY <1>2, <1>4, <2>3 DEF IInv, StoresOK, onServer, links
  <2> QED BY <1>2, <1>6, <1>7, <2>1, <2>2, <2>4
       DEF StepOK, RowStep, RowOK, LockStep, FlushStep, ReadStep, Flushing
<1>9. CASE ~indexReady[p]
  <2>1. Finish(t) /\ UNCHANGED flushLock
    BY <1>1, <1>9 DEF DeleteRelations
  <2>2. StoresOK'
    BY <1>2, <1>4, <2>1 DEF IInv, StoresOK, onServer, links
  <2> QED BY <1>6, <1>7, <2>1, <2>2, FinishFacts DEF StepOK, LockStep
<1> QED BY <1>8, <1>9

LEMMA DeleteByQueryOK ==
    ASSUME IInv, NEW t \in Tasks, DeleteByQuery(t)
    PROVE  StepOK(t)
<1> DEFINE found == Related \cap searchable
           gone  == {k \in found : \A q \in Procs : unsaved[q][k] \in {None, Absent}}
<1>1. /\ task[t].at = "query" /\ Finish(t) /\ Unlock(t)
      /\ UNCHANGED <<kind, exists, searchable, buffers, links, unsaved>>
      /\ server' = [k \in Keys |-> IF k \in found THEN Absent ELSE server[k]]
      /\ severed' = severed \cup gone
  BY DEF DeleteByQuery
<1>2. LockStep(t)
  BY <1>1, FinishFacts DEF LockStep, Holding
<1>3. flushLock' \in [Procs -> Tasks \cup {None}]
  BY <1>1, Places DEF Unlock, IInv, StoresOK
<1>4. StoresOK'
  BY <1>1, <1>3 DEF IInv, StoresOK, buffers, links
<1>5. BufferStep(t)
  BY <1>1 DEF IInv, BufferStep, NothingForgotten, buffers
<1>6. RelationsStayGone'
  <2>1. ASSUME NEW k \in severed' PROVE server'[k] = Absent /\ \A p \in Procs : pendingUpserts[p][k] = None
    <3>1. k \in Keys
      BY <1>4, BufferAssumption DEF StoresOK, BufferAssumption
    <3>2. CASE k \in severed
      BY <1>1, <3>1, <3>2 DEF IInv, RelationsStayGone
    <3>3. CASE k \in gone
      <4>1. ASSUME NEW p \in Procs PROVE pendingUpserts[p][k] = None
        <5>1. /\ unsaved[p][k] \in {None, Absent} /\ pendingUpserts[p][k] \in Values \cup {None}
              /\ k \in pendingDeletes[p] => pendingUpserts[p][k] = None
              /\ unsaved[p][k] = IF k \in pendingDeletes[p] THEN Absent ELSE pendingUpserts[p][k]
          BY <3>1, <3>3 DEF IInv, StoresOK, NothingForgotten
        <5> QED BY <5>1, ValuesAssumption
      <4> QED BY <1>1, <3>1, <3>3, <4>1
    <3> QED BY <1>1, <3>2, <3>3
  <2> QED BY <1>1, <2>1 DEF RelationsStayGone, buffers
<1> QED BY <1>1, <1>2, <1>4, <1>5, <1>6, FinishFacts DEF StepOK

LEMMA DeleteByQueryFailsOK ==
    ASSUME IInv, NEW t \in Tasks, DeleteByQueryFails(t)
    PROVE  StepOK(t)
<1>1. /\ task[t].at = "query" /\ Finish(t) /\ Unlock(t)
      /\ UNCHANGED <<kind, onServer, buffers, client, history>>
      /\ indexReady' \in [Procs -> BOOLEAN]
  BY DEF DeleteByQueryFails, IInv, StoresOK
<1>2. LockStep(t)
  BY <1>1, FinishFacts DEF LockStep, Holding
<1>3. flushLock' \in [Procs -> Tasks \cup {None}]
  BY <1>1, Places DEF Unlock, IInv, StoresOK
<1>4. StoresOK' /\ BufferStep(t) /\ RelationsStayGone'
  BY <1>1, <1>3, QuietOK DEF IInv, StoresOK, buffers, history, onServer
<1> QED BY <1>1, <1>2, <1>4, FinishFacts DEF StepOK

LEMMA EveryStepOK ==
    ASSUME IInv, NEW t \in Tasks, Step(t)
    PROVE  StepOK(t)
<1>1. ASSUME \E k \in Keys, v \in Values : Upsert(t, k, v) PROVE StepOK(t)
  BY <1>1, UpsertOK
<1>2. ASSUME \E k \in Keys : Delete(t, k) \/ Look(t, k) PROVE StepOK(t)
  BY <1>2, DeleteOK, LookOK
<1>3. ASSUME \E op \in {"save", "finalize"} : Flush(t, op) PROVE StepOK(t)
  BY <1>3, BeginFlushOK
<1>4. ASSUME \E o \in task[t].todo : BulkItem(t, o) \/ BulkItemBusy(t, o) \/ BulkItemRefused(t, o)
      PROVE  StepOK(t)
  BY <1>4, BulkItemOK, BulkItemNotOK
<1>5. ASSUME \/ Put(t) \/ CreateIndex(t) \/ MarkReady(t) \/ CreateFails(t)
             \/ BulkFails(t) \/ FlushEnd(t) \/ Refresh(t) \/ RefreshFails(t) \/ Release(t)
      PROVE  StepOK(t)
  BY <1>5, PutOK, CreateIndexOK, MarkReadyOK, CreateFailsOK, BulkFailsOK, FlushEndOK, RefreshOK
<1>6. ASSUME \/ Reply(t) \/ MarkMissing(t) \/ ReplyFails(t) \/ Return(t)
             \/ Drop(t) \/ DropIndex(t) \/ Recreate(t) \/ DropFails(t)
             \/ DeleteRelations(t) \/ DeleteByQuery(t) \/ DeleteByQueryFails(t)
      PROVE  StepOK(t)
  BY <1>6, ReplyOK, BlindOK, ReturnOK, DropOK, DropIndexOK, DropEndOK,
     DeleteRelationsOK, DeleteByQueryOK, DeleteByQueryFailsOK
<1> QED BY <1>1, <1>2, <1>3, <1>4, <1>5, <1>6 DEF Step

-----------------------------------------------------------------------------
(* The theorems.                                                            *)

LEMMA InitOK == Init => IInv
<1> SUFFICES ASSUME Init PROVE IInv
  OBVIOUS
<1>1. Idle \in Row /\ Idle.at = "idle"
  BY DEF Idle, Row
<1>2. StoresOK
  BY DEF Init, StoresOK, Kinds
<1>3. TasksOK /\ LockOK /\ FlushOK
  BY <1>1 DEF Init, TasksOK, RowOK, LockOK, FlushOK, Holding, Flushing
<1>4. NothingForgotten /\ RelationsStayGone
  BY DEF Init, NothingForgotten, RelationsStayGone
<1>5. AskedOK /\ ReadsCurrent
  BY <1>1 DEF Init, AskedOK, ReadsCurrent
<1> QED BY <1>2, <1>3, <1>4, <1>5 DEF IInv

\* Exclusion: nobody else of the host holds the lock while it is free, or mine.
LEMMA LockOKNext ==
    ASSUME IInv, NEW t \in Tasks, StepOK(t)
    PROVE  LockOK'
<1> SUFFICES ASSUME NEW u \in Tasks, Holding(task'[u]) PROVE flushLock'[HostOf[ProcOf[u]]] = u
  BY DEF LockOK, Holding, Flushing
<1>1. u # t => task'[u] = task[u]
  BY DEF StepOK, RowStep
<1>2. Holding(task[u]) => flushLock[HostOf[ProcOf[u]]] = u
  BY DEF IInv, LockOK
<1>3. flushLock \in [Procs -> Tasks \cup {None}] /\ None \notin Tasks
  BY ValuesAssumption DEF IInv, StoresOK
<1>4. CASE UNCHANGED flushLock /\ (Holding(task'[t]) => Holding(task[t]))
  BY <1>1, <1>2, <1>4
<1>5. CASE Free(t) /\ Lock(t)
  BY <1>1, <1>2, <1>3, <1>5, Places DEF Free, Lock
<1>6. CASE Holding(task[t]) /\ Unlock(t) /\ ~Holding(task'[t])
  <2>1. u # t /\ flushLock[HostOf[ProcOf[t]]] = t
    BY <1>6 DEF IInv, LockOK
  <2> QED BY <1>1, <1>2, <1>3, <1>6, <2>1, Places DEF Unlock
<1> QED BY <1>4, <1>5, <1>6 DEF StepOK, LockStep

LEMMA FlushOKNext ==
    ASSUME IInv, NEW t \in Tasks, StepOK(t)
    PROVE  FlushOK'
<1> SUFFICES ASSUME NEW u \in Tasks, Flushing(task'[u]) PROVE Covers(task[u], ProcOf[u])'
  BY DEF FlushOK, Flushing
<1>1. CASE u = t
  BY <1>1 DEF StepOK, FlushStep
<1>2. CASE u # t
  <2>1. task'[u] = task[u]
    BY <1>2 DEF StepOK, RowStep
  <2>2. Covers(task[u], ProcOf[u]) /\ flushLock[HostOf[ProcOf[u]]] = u
    BY <2>1 DEF IInv, FlushOK, LockOK, Holding
  <2>3. unsaved'[ProcOf[u]] = unsaved[ProcOf[u]]
    <3>1. CASE UNCHANGED unsaved
      BY <3>1
    <3>2. CASE Free(t) \/ Holding(task[t])
      <4>1. flushLock[HostOf[ProcOf[t]]] \in {t, None} /\ u # None
        BY <3>2, ValuesAssumption DEF Free, IInv, LockOK
      <4>2. ProcOf[u] # ProcOf[t] /\ ProcOf[u] \in Procs
        BY <1>2, <2>2, <4>1, Places
      <4>3. CASE UNCHANGED unsaved
        BY <4>3
      <4>4. CASE \A q \in Procs \ {ProcOf[t]} : unsaved'[q] = unsaved[q]
        BY <4>2, <4>4
      <4> QED BY <4>3, <4>4 DEF StepOK, BufferStep
    <3> QED BY <3>1, <3>2 DEF StepOK, BufferStep
  <2> QED BY <2>1, <2>2, <2>3 DEF Covers
<1> QED BY <1>1, <1>2

\* What Watch notes for one coroutine.
LEMMA WatchFacts ==
    ASSUME Watch, NEW u \in Tasks
    PROVE  LET k == task'[u].key
               began == IF task[u].at = "idle" THEN {View(ProcOf[u])[k]} ELSE seen[u]
           IN  /\ task'[u].at \in {"asked", "missing"} =>
                    seen'[u] = began \cup {View(ProcOf[u])'[k], server'[k]}
               /\ task'[u].at = "answered" => seen'[u] = began
BY DEF Watch

LEMMA ReadsNext ==
    ASSUME IInv, Watch,
           UNCHANGED task \/ \E t \in Tasks : RowStep(t) /\ ReadStep(t)
    PROVE  AskedOK' /\ ReadsCurrent'
<1>1. ASSUME NEW u \in Tasks, task'[u].at = "asked" PROVE server'[task'[u].key] \in seen'[u]
  BY <1>1, WatchFacts
<1>2. ASSUME NEW u \in Tasks, task'[u].at = "answered", ~task'[u].blind
      PROVE  task'[u].answer \in seen'[u]
  <2>1. /\ task[u].at = "idle" => seen'[u] = {View(ProcOf[u])[task'[u].key]}
        /\ task[u].at # "idle" => seen'[u] = seen[u]
    BY <1>2, WatchFacts
  <2>2. CASE task'[u] = task[u]
    BY <1>2, <2>1, <2>2 DEF IInv, ReadsCurrent
  <2>3. CASE ReadStep(u)
    <3>1. CASE task[u].at = "idle" /\ task'[u].answer = View(ProcOf[u])[task'[u].key]
      BY <2>1, <3>1
    <3>2. CASE task[u].at = "asked" /\ task'[u].answer = server[task[u].key]
      BY <2>1, <3>2 DEF IInv, AskedOK
    <3> QED BY <1>2, <2>3, <3>1, <3>2 DEF ReadStep
  <2>4. task'[u] = task[u] \/ ReadStep(u)
    <3>1. CASE UNCHANGED task
      BY <3>1
    <3>2. ASSUME NEW t \in Tasks, RowStep(t), ReadStep(t) PROVE task'[u] = task[u] \/ ReadStep(u)
      BY <3>2 DEF RowStep
    <3> QED BY <3>1, <3>2
  <2> QED BY <2>2, <2>3, <2>4
<1> QED BY <1>1, <1>2 DEF AskedOK, ReadsCurrent

LEMMA NextOK == IInv /\ [Next]_vars => IInv'
<1> SUFFICES ASSUME IInv, [Next]_vars PROVE IInv'
  OBVIOUS
<1>1. ASSUME NEW t \in Tasks, Step(t), Watch PROVE IInv'
  <2>1. StepOK(t)
    BY <1>1, EveryStepOK
  <2>2. TasksOK'
    BY <2>1 DEF IInv, TasksOK, StepOK, RowStep
  <2>3. AskedOK' /\ ReadsCurrent'
    BY <1>1, <2>1, ReadsNext DEF StepOK
  <2> QED BY <2>1, <2>2, <2>3, LockOKNext, FlushOKNext DEF IInv, StepOK, BufferStep
<1>2. ASSUME PeriodicRefresh, Watch PROVE IInv'
  <2>1. /\ UNCHANGED <<kind, exists, server, buffers, links, flushLock, task, history>>
        /\ searchable' \subseteq Keys
    BY <1>2 DEF PeriodicRefresh
  <2>2. AskedOK' /\ ReadsCurrent'
    BY <1>2, <2>1, ReadsNext
  <2>3. StoresOK'
    BY <2>1 DEF IInv, StoresOK, buffers, links, history
  <2>4. TasksOK' /\ LockOK'
    BY <2>1 DEF IInv, TasksOK, LockOK
  <2>5. FlushOK' /\ NothingForgotten' /\ RelationsStayGone'
    BY <2>1 DEF IInv, FlushOK, Covers, NothingForgotten, RelationsStayGone, buffers, history
  <2> QED BY <2>2, <2>3, <2>4, <2>5 DEF IInv
<1>3. CASE UNCHANGED vars
  <2>1. StoresOK' /\ TasksOK' /\ LockOK' /\ AskedOK' /\ ReadsCurrent'
    BY <1>3 DEF vars, onServer, buffers, links, history, IInv, StoresOK, TasksOK, LockOK, AskedOK, ReadsCurrent
  <2>2. FlushOK' /\ NothingForgotten' /\ RelationsStayGone'
    BY <1>3 DEF vars, onServer, buffers, history, IInv, FlushOK, Covers, NothingForgotten, RelationsStayGone
  <2> QED BY <2>1, <2>2 DEF IInv
<1> QED BY <1>1, <1>2, <1>3 DEF Next

LEMMA AlwaysIInv == Spec => []IInv
<1> QED BY InitOK, NextOK, PTL DEF Spec

\* The buffers of every process hold just the writes and deletes the server has
\* not settled, whatever flushes fail, in part or as a whole, and whatever else
\* its coroutines and the other processes do meanwhile.
THEOREM BufferTheorem == Spec => []BufferInv
<1>1. IInv => BufferInv
  <2> SUFFICES ASSUME IInv PROVE BufferInv
    OBVIOUS
  <2>1. \A t \in Tasks : task[t] \in Row
    BY DEF IInv, TasksOK, RowOK
  <2>2. TypeOK
    BY <2>1 DEF IInv, StoresOK, TypeOK, Row, Ops
  <2> QED BY <2>2 DEF IInv, BufferInv
<1> QED BY <1>1, AlwaysIInv, PTL

\* A read of several steps, beside flushes, drops and other processes, answers
\* with what its process was to see when it began or the server has had since.
THEOREM ReadsTheorem == Spec => []ReadsCurrent
<1>1. IInv => ReadsCurrent
  BY DEF IInv
<1> QED BY <1>1, AlwaysIInv, PTL

\* A relation that delete_entity_relation has removed is in no buffer, and no
\* flush under way in any process still sends it: it comes back only by a new
\* write.
THEOREM RelationsTheorem == Spec => []RelationsStayGone
<1>1. IInv => RelationsStayGone
  BY DEF IInv
<1> QED BY <1>1, AlwaysIInv, PTL
=============================================================================
