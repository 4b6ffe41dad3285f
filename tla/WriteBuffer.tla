---------------------------- MODULE WriteBuffer ----------------------------
(***************************************************************************)
(* How the OpenSearch key-value and vector storages (opensearch_impl.py)   *)
(* defer writes.  Upserts and deletes go to two maps of the process; a     *)
(* save (index_done_callback) or finalize() sends both in one bulk request *)
(* and keeps what the server wants to be asked again.  Reads look into the *)
(* maps under a lock and at the server outside it.  The index may be       *)
(* dropped and made again meanwhile, by this process or by another.        *)
(*                                                                         *)
(* Steps that hold the lock and do not await are one action.  A read or a  *)
(* delete of several ids is as many of single ids, since every id is       *)
(* looked at alone; what a value consists of does not matter.              *)
(***************************************************************************)
EXTENDS Naturals, FiniteSets

CONSTANTS
    Procs,        \* the processes, one storage object each
    HostOf,       \* processes with one host share the namespace lock
    Tasks,        \* the coroutines
    ProcOf,       \* the process of each coroutine
    Keys,         \* document ids
    Related,      \* those that are relations of one entity
    Values,       \* what an upsert may write
    MaxRequests,  \* bound on operations asked for
    MaxFaults     \* bound on answers of the server that are errors

ASSUME BufferAssumption ==
    /\ HostOf \in [Procs -> Procs] /\ ProcOf \in [Tasks -> Procs]
    /\ IsFiniteSet(Keys) /\ Related \subseteq Keys
    /\ MaxRequests \in Nat /\ MaxFaults \in Nat

Absent == "absent"
None   == "none"
ASSUME ValuesAssumption == Absent \notin Values /\ None \notin Values \cup Tasks

Kinds == {"kv", "vector"}

VARIABLES
    kind,            \* which of the two storages this is
    exists,          \* the index is on the server
    server,          \* its documents
    searchable,      \* ids whose last change a search sees
    pendingUpserts,  \* of each process
    pendingDeletes,
    indexReady,
    client,          \* the process has a client
    flushLock,       \* the coroutine that holds it, per host
    task,            \* where each coroutine is, and what it works on
    requests, faults,
    unsaved,         \* history: what each process wrote and the server did not acknowledge
    seen,            \* history: what a read under way may answer
    severed          \* history: ids delete_entity_relation has removed for good

onServer == <<exists, server, searchable>>
buffers  == <<pendingUpserts, pendingDeletes>>
links    == <<indexReady, client>>
history  == <<unsaved, severed>>
vars     == <<kind, onServer, buffers, links, flushLock, task, requests, faults, history, seen>>

Idle == [at |-> "idle", op |-> "none", key |-> None, value |-> None, todo |-> {},
         done |-> {}, retry |-> {}, answer |-> None, blind |-> FALSE]

Init ==
    /\ kind \in Kinds
    /\ exists = TRUE
    /\ server = [k \in Keys |-> Absent]
    /\ searchable = Keys
    /\ pendingUpserts = [p \in Procs |-> [k \in Keys |-> None]]
    /\ pendingDeletes = [p \in Procs |-> {}]
    /\ indexReady = [p \in Procs |-> TRUE]
    /\ client = [p \in Procs |-> TRUE]
    /\ flushLock = [h \in Procs |-> None]
    /\ task = [t \in Tasks |-> Idle]
    /\ requests = 0 /\ faults = 0
    /\ unsaved = [p \in Procs |-> [k \in Keys |-> None]]
    /\ severed = {}
    /\ seen = [t \in Tasks |-> {}]

-----------------------------------------------------------------------------
\* A coroutine, its process, its lock.

Free(t) == flushLock[HostOf[ProcOf[t]]] = None
Lock(t) == flushLock' = [flushLock EXCEPT ![HostOf[ProcOf[t]]] = t]
Unlock(t) == flushLock' = [flushLock EXCEPT ![HostOf[ProcOf[t]]] = None]

\* A coroutine begins an operation.
Ask(t) ==
    /\ task[t].at = "idle"
    /\ requests < MaxRequests
    /\ requests' = requests + 1

Move(t, at) == task' = [task EXCEPT ![t].at = at]
Finish(t) == task' = [task EXCEPT ![t] = Idle]
Fault == faults < MaxFaults /\ faults' = faults + 1

\* The operations a process has in its buffers, as the bulk request lists them.
Pending(p) ==
    {<<k, Absent>> : k \in pendingDeletes[p]}
    \cup {<<k, pendingUpserts[p][k]>> : k \in {j \in Keys : pendingUpserts[p][j] # None}}

Owe(p, k, v) == [unsaved EXCEPT ![p][k] = v]

-----------------------------------------------------------------------------
\* Writing to the buffers.

\* upsert: an index known to be missing is made first; embedding comes after.
Upsert(t, k, v) ==
    /\ Ask(t)
    /\ task' = [task EXCEPT ![t] = [Idle EXCEPT
                   !.op = "upsert", !.key = k, !.value = v,
                   !.at = IF indexReady[ProcOf[t]] THEN "put" ELSE "create"]]
    /\ UNCHANGED <<kind, onServer, buffers, links, flushLock, faults, history>>

\* Mutant: the buffer is written without waiting for a flush under way.
PutUnlocked(t) ==
    LET p == ProcOf[t]
        k == task[t].key
    IN  /\ task[t].at = "put"
        /\ pendingDeletes' = [pendingDeletes EXCEPT ![p] = @ \ {k}]
        /\ pendingUpserts' = [pendingUpserts EXCEPT ![p][k] = task[t].value]
        /\ unsaved' = Owe(p, k, task[t].value)
        /\ severed' = severed \ {k}
        /\ Finish(t)
        /\ UNCHANGED <<kind, onServer, links, flushLock, requests, faults>>

\* The end of upsert: it takes a pending delete of the id back.
Put(t) ==
    LET p == ProcOf[t]
        k == task[t].key
    IN  /\ task[t].at = "put" /\ Free(t)
        /\ pendingDeletes' = [pendingDeletes EXCEPT ![p] = @ \ {k}]
        /\ pendingUpserts' = [pendingUpserts EXCEPT ![p][k] = task[t].value]
        /\ unsaved' = Owe(p, k, task[t].value)
        /\ severed' = severed \ {k}
        /\ Finish(t)
        /\ UNCHANGED <<kind, onServer, links, flushLock, requests, faults>>

\* Mutant: nothing to delete without an index.
DeleteIfReady(t, k) ==
    LET p == ProcOf[t]
    IN  /\ Ask(t) /\ Free(t)
        /\ IF indexReady[p]
           THEN /\ pendingUpserts' = [pendingUpserts EXCEPT ![p][k] = None]
                /\ pendingDeletes' = [pendingDeletes EXCEPT ![p] = @ \cup {k}]
           ELSE UNCHANGED buffers
        /\ unsaved' = Owe(p, k, Absent)
        /\ Finish(t)
        /\ UNCHANGED <<kind, onServer, links, flushLock, faults, severed>>

\* delete, delete_entity: it takes a pending upsert of the id back.
Delete(t, k) ==
    LET p == ProcOf[t]
    IN  /\ Ask(t) /\ Free(t)
        /\ pendingUpserts' = [pendingUpserts EXCEPT ![p][k] = None]
        /\ pendingDeletes' = [pendingDeletes EXCEPT ![p] = @ \cup {k}]
        /\ unsaved' = Owe(p, k, Absent)
        /\ Finish(t)
        /\ UNCHANGED <<kind, onServer, links, flushLock, faults, severed>>

\* _ensure_index_ready: make the index unless another has, then take it for ready.
CreateIndex(t) ==
    /\ task[t].at = "create"
    /\ exists' = TRUE
    /\ client' = [client EXCEPT ![ProcOf[t]] = TRUE]
    /\ Move(t, "created")
    /\ UNCHANGED <<kind, server, searchable, buffers, indexReady, flushLock, requests, faults,
                   history>>

MarkReady(t) ==
    /\ task[t].at = "created"
    /\ indexReady' = [indexReady EXCEPT ![ProcOf[t]] = TRUE]
    /\ Move(t, IF task[t].op = "upsert" THEN "put" ELSE "bulk")
    /\ UNCHANGED <<kind, onServer, buffers, client, flushLock, requests, faults, history>>

\* After a request of a flush that raised: a save ends, finalize goes on.
Give(t) == IF task[t].op = "finalize" THEN Move(t, "release") ELSE Finish(t)

CreateFails(t) ==
    /\ task[t].at = "create" /\ Fault
    /\ client' = [client EXCEPT ![ProcOf[t]] = TRUE]
    /\ IF task[t].op = "upsert"
       THEN Finish(t) /\ UNCHANGED flushLock
       ELSE Give(t) /\ Unlock(t)
    /\ UNCHANGED <<kind, onServer, buffers, indexReady, requests, history>>

-----------------------------------------------------------------------------
\* Flushing.

\* index_done_callback and finalize both begin with a flush.
Flush(t, op) ==
    LET p == ProcOf[t]
    IN  /\ Ask(t) /\ Free(t)
        /\ IF Pending(p) = {} \/ ~client[p]
           THEN /\ task' = [task EXCEPT ![t] = [Idle EXCEPT
                               !.op = op, !.at = IF op = "save" THEN "refresh" ELSE "release"]]
                /\ UNCHANGED flushLock
           ELSE /\ task' = [task EXCEPT ![t] = [Idle EXCEPT
                               !.op = op, !.todo = Pending(p),
                               !.at = IF indexReady[p] THEN "bulk" ELSE "create"]]
                /\ Lock(t)
        /\ UNCHANGED <<kind, onServer, buffers, links, faults, history>>

\* The server carries out one operation of the bulk.  A write to an index that
\* is not there makes one, if the server is set up so; a delete finds nothing.
BulkItem(t, o) ==
    LET k == o[1]
        v == o[2]
    IN  /\ task[t].at = "bulk" /\ o \in task[t].todo
        /\ task' = [task EXCEPT ![t].todo = @ \ {o}, ![t].done = @ \cup {o}]
        /\ exists' = (exists \/ v # Absent)
        /\ server' = [server EXCEPT ![k] = v]
        /\ searchable' = searchable \ {k}
        /\ UNCHANGED <<kind, buffers, links, flushLock, requests, faults, history>>

\* It cannot now (408, 429, 5xx, no status): to be asked again.
BulkItemBusy(t, o) ==
    /\ task[t].at = "bulk" /\ o \in task[t].todo /\ Fault
    /\ task' = [task EXCEPT ![t].todo = @ \ {o}, ![t].retry = @ \cup {o[1]}]
    /\ UNCHANGED <<kind, onServer, buffers, links, flushLock, requests, history>>

\* It will not (another 4xx), as for a write to a missing index it may not make.
BulkItemRefused(t, o) ==
    /\ task[t].at = "bulk" /\ o \in task[t].todo
    /\ IF exists THEN Fault ELSE o[2] # Absent /\ UNCHANGED faults
    /\ task' = [task EXCEPT ![t].todo = @ \ {o}, ![t].done = @ \cup {o}]
    /\ UNCHANGED <<kind, onServer, buffers, links, flushLock, requests, history>>

\* The whole request fails, after any part of it: the buffers stay as they are.
BulkFails(t) ==
    /\ task[t].at = "bulk" /\ Fault
    /\ Give(t) /\ Unlock(t)
    /\ UNCHANGED <<kind, onServer, buffers, links, requests, history>>

\* Only what the server was sent is settled, and not what was to be asked again.
Settled(p, done) ==
    [unsaved EXCEPT ![p] = [k \in Keys |-> IF <<k, @[k]>> \in done THEN None ELSE @[k]]]

FlushEnd(t) ==
    LET p == ProcOf[t]
        retry == task[t].retry
    IN  /\ task[t].at = "bulk" /\ task[t].todo = {}
        /\ pendingUpserts' = [pendingUpserts EXCEPT ![p] =
                                 [k \in Keys |-> IF k \in retry THEN @[k] ELSE None]]
        /\ pendingDeletes' = [pendingDeletes EXCEPT ![p] = @ \cap retry]
        /\ unsaved' = Settled(p, task[t].done)
        /\ Move(t, IF task[t].op = "save" THEN "refresh" ELSE "release")
        /\ Unlock(t)
        /\ UNCHANGED <<kind, onServer, links, requests, faults, severed>>

\* The rest of index_done_callback, outside the lock: without a client it fails
\* unnoticed.
Refresh(t) ==
    LET p == ProcOf[t]
    IN  /\ task[t].at = "refresh"
        /\ IF indexReady[p] /\ client[p]
           THEN /\ searchable' = IF exists THEN Keys ELSE searchable
                /\ indexReady' = [indexReady EXCEPT ![p] = exists]
           ELSE UNCHANGED <<searchable, indexReady>>
        /\ Finish(t)
        /\ UNCHANGED <<kind, exists, server, buffers, client, flushLock, requests, faults,
                       history>>

RefreshFails(t) ==
    /\ task[t].at = "refresh" /\ indexReady[ProcOf[t]] /\ Fault
    /\ Finish(t)
    /\ UNCHANGED <<kind, onServer, buffers, links, flushLock, requests, history>>

\* The rest of finalize: it releases the client, and raises an error that counts
\* what is left in the buffers.
Release(t) ==
    /\ task[t].at = "release"
    /\ client' = [client EXCEPT ![ProcOf[t]] = FALSE]
    /\ Finish(t)
    /\ UNCHANGED <<kind, onServer, buffers, indexReady, flushLock, requests, faults, history>>

-----------------------------------------------------------------------------
\* Reading: get_by_id, and each id of get_by_ids, get_vectors_by_ids, filter_keys.

Answer(t, k, v, blind) ==
    task' = [task EXCEPT ![t] = [Idle EXCEPT !.at = "answered", !.key = k, !.answer = v,
                                             !.blind = blind]]

\* Under the lock: the buffers, and whether there is an index to ask.
Look(t, k) ==
    LET p == ProcOf[t]
    IN  /\ Ask(t) /\ Free(t)
        /\ \/ k \in pendingDeletes[p] /\ Answer(t, k, Absent, FALSE)
           \/ /\ k \notin pendingDeletes[p] /\ pendingUpserts[p][k] # None
              /\ Answer(t, k, pendingUpserts[p][k], FALSE)
           \/ /\ k \notin pendingDeletes[p] /\ pendingUpserts[p][k] = None
              /\ \/ ~indexReady[p] /\ Answer(t, k, Absent, TRUE)
                 \/ indexReady[p] /\ ~client[p] /\ Finish(t)
                 \/ /\ indexReady[p] /\ client[p]
                    /\ task' = [task EXCEPT ![t] = [Idle EXCEPT !.at = "asked", !.key = k]]
        /\ UNCHANGED <<kind, onServer, buffers, links, flushLock, faults, history>>

\* Outside it: the server answers.  Of a missing index it may also say so.
Reply(t) ==
    /\ task[t].at = "asked"
    /\ \/ Answer(t, task[t].key, server[task[t].key], FALSE)
       \/ ~exists /\ Move(t, "missing")
    /\ UNCHANGED <<kind, onServer, buffers, links, flushLock, requests, faults, history>>

\* _mark_index_missing, when the answer has arrived: from now on this process
\* reads nothing from the server.
MarkMissing(t) ==
    /\ task[t].at = "missing"
    /\ indexReady' = [indexReady EXCEPT ![ProcOf[t]] = FALSE]
    /\ Answer(t, task[t].key, Absent, TRUE)
    /\ UNCHANGED <<kind, onServer, buffers, client, flushLock, requests, faults, history>>

\* Any other error is logged, and the id said not to be there.
ReplyFails(t) ==
    /\ task[t].at = "asked" /\ Fault
    /\ Answer(t, task[t].key, Absent, TRUE)
    /\ UNCHANGED <<kind, onServer, buffers, links, flushLock, requests, history>>

Return(t) ==
    /\ task[t].at = "answered"
    /\ Finish(t)
    /\ UNCHANGED <<kind, onServer, buffers, links, flushLock, requests, faults, history>>

-----------------------------------------------------------------------------
\* drop, under the lock throughout.

Drop(t) ==
    LET p == ProcOf[t]
    IN  /\ Ask(t) /\ Free(t)
        /\ pendingUpserts' = [pendingUpserts EXCEPT ![p] = [k \in Keys |-> None]]
        /\ pendingDeletes' = [pendingDeletes EXCEPT ![p] = {}]
        /\ unsaved' = [unsaved EXCEPT ![p] = [k \in Keys |-> None]]
        /\ task' = [task EXCEPT ![t] = [Idle EXCEPT !.at = "drop", !.op = "drop"]]
        /\ Lock(t)
        /\ UNCHANGED <<kind, onServer, links, faults, severed>>

\* The index goes, there or not; vectors get a new one.
DropIndex(t) ==
    /\ task[t].at = "drop" /\ client[ProcOf[t]]
    /\ exists' = FALSE
    /\ server' = [k \in Keys |-> Absent]
    /\ searchable' = Keys
    /\ IF kind = "vector"
       THEN Move(t, "recreate") /\ UNCHANGED <<indexReady, flushLock>>
       ELSE /\ indexReady' = [indexReady EXCEPT ![ProcOf[t]] = FALSE]
            /\ Finish(t) /\ Unlock(t)
    /\ UNCHANGED <<kind, buffers, client, requests, faults, history>>

Recreate(t) ==
    /\ task[t].at = "recreate" /\ client[ProcOf[t]]
    /\ exists' = TRUE
    /\ indexReady' = [indexReady EXCEPT ![ProcOf[t]] = TRUE]
    /\ Finish(t) /\ Unlock(t)
    /\ UNCHANGED <<kind, server, searchable, buffers, client, requests, faults, history>>

\* Whatever fails, a released client among it: the index counts as missing.
DropFails(t) ==
    /\ task[t].at \in {"drop", "recreate"}
    /\ IF client[ProcOf[t]] THEN Fault ELSE UNCHANGED faults
    /\ indexReady' = [indexReady EXCEPT ![ProcOf[t]] = FALSE]
    /\ Finish(t) /\ Unlock(t)
    /\ UNCHANGED <<kind, onServer, buffers, client, requests, history>>

-----------------------------------------------------------------------------
\* delete_entity_relation of the vector storage, under the lock throughout.

Prune(p, f) == [f EXCEPT ![p] = [k \in Keys |->
                   IF k \in Related /\ @[k] \notin {None, Absent} THEN None ELSE @[k]]]

\* Mutant: beside a flush under way.
DeleteRelationsUnlocked(t) ==
    LET p == ProcOf[t]
    IN  /\ kind = "vector" /\ Ask(t)
        /\ pendingUpserts' = Prune(p, pendingUpserts)
        /\ unsaved' = Prune(p, unsaved)
        /\ IF indexReady[p]
           THEN task' = [task EXCEPT ![t] = [Idle EXCEPT !.at = "query"]]
           ELSE Finish(t)
        /\ UNCHANGED <<kind, onServer, pendingDeletes, links, flushLock, faults, severed>>

DeleteRelations(t) ==
    LET p == ProcOf[t]
    IN  /\ kind = "vector" /\ Ask(t) /\ Free(t)
        /\ pendingUpserts' = Prune(p, pendingUpserts)
        /\ unsaved' = Prune(p, unsaved)
        /\ IF indexReady[p]
           THEN task' = [task EXCEPT ![t] = [Idle EXCEPT !.at = "query"]] /\ Lock(t)
           ELSE Finish(t) /\ UNCHANGED flushLock
        /\ UNCHANGED <<kind, onServer, pendingDeletes, links, faults, severed>>

\* delete_by_query finds what a search sees, and passes over what has changed
\* since.  What it found and nobody has written meanwhile is gone.
DeleteByQuery(t) ==
    LET p == ProcOf[t]
        found == Related \cap searchable
    IN  /\ task[t].at = "query" /\ client[p] /\ exists
        /\ server' = [k \in Keys |-> IF k \in found THEN Absent ELSE server[k]]
        /\ severed' = severed \cup
              {k \in found : \A q \in Procs : unsaved[q][k] \in {None, Absent}}
        /\ Finish(t) /\ Unlock(t)
        /\ UNCHANGED <<kind, exists, searchable, buffers, links, requests, faults, unsaved>>

\* A missing index is noted, any other error logged, a missing client raises.
DeleteByQueryFails(t) ==
    LET p == ProcOf[t]
    IN  /\ task[t].at = "query"
        /\ \/ client[p] /\ ~exists /\ UNCHANGED faults
              /\ indexReady' = [indexReady EXCEPT ![p] = FALSE]
           \/ client[p] /\ exists /\ Fault /\ UNCHANGED indexReady
           \/ ~client[p] /\ UNCHANGED <<faults, indexReady>>
        /\ Finish(t) /\ Unlock(t)
        /\ UNCHANGED <<kind, onServer, buffers, client, requests, history>>

-----------------------------------------------------------------------------
\* The server lets searches see what has changed, from time to time.
PeriodicRefresh ==
    /\ exists /\ searchable # Keys
    /\ searchable' = Keys
    /\ UNCHANGED <<kind, exists, server, buffers, links, flushLock, task, requests, faults,
                   history>>

\* What process p is to see: its own unsaved changes, over what is on the server.
View(p) == [k \in Keys |-> IF unsaved[p][k] # None THEN unsaved[p][k] ELSE server[k]]

\* A read may answer what its process is to see when it looks into the buffers,
\* and whatever the process or the server has from then on.
Watch ==
    seen' = [t \in Tasks |->
        LET k == task'[t].key
            p == ProcOf[t]
            began == IF task[t].at = "idle" THEN {View(p)[k]} ELSE seen[t]
        IN  CASE task'[t].at \in {"asked", "missing"} -> began \cup {View(p)'[k], server'[k]}
              [] task'[t].at = "answered" -> began
              [] OTHER -> {}]

Step(t) ==
    \/ \E k \in Keys, v \in Values : Upsert(t, k, v)
    \/ \E k \in Keys : Delete(t, k) \/ Look(t, k)
    \/ \E op \in {"save", "finalize"} : Flush(t, op)
    \/ \E o \in task[t].todo : BulkItem(t, o) \/ BulkItemBusy(t, o) \/ BulkItemRefused(t, o)
    \/ Put(t) \/ CreateIndex(t) \/ MarkReady(t) \/ CreateFails(t)
    \/ BulkFails(t) \/ FlushEnd(t) \/ Refresh(t) \/ RefreshFails(t) \/ Release(t)
    \/ Reply(t) \/ MarkMissing(t) \/ ReplyFails(t) \/ Return(t)
    \/ Drop(t) \/ DropIndex(t) \/ Recreate(t) \/ DropFails(t)
    \/ DeleteRelations(t) \/ DeleteByQuery(t) \/ DeleteByQueryFails(t)

Next == ((\E t \in Tasks : Step(t)) \/ PeriodicRefresh) /\ Watch

Spec == Init /\ [][Next]_vars

-----------------------------------------------------------------------------
TypeOK ==
    /\ kind \in Kinds /\ exists \in BOOLEAN
    /\ server \in [Keys -> Values \cup {Absent}]
    /\ searchable \subseteq Keys
    /\ pendingUpserts \in [Procs -> [Keys -> Values \cup {None}]]
    /\ pendingDeletes \in [Procs -> SUBSET Keys]
    /\ indexReady \in [Procs -> BOOLEAN] /\ client \in [Procs -> BOOLEAN]
    /\ flushLock \in [Procs -> Tasks \cup {None}]
    /\ \A t \in Tasks :
        /\ task[t].at \in {"idle", "put", "create", "created", "bulk", "refresh", "release",
                           "asked", "missing", "answered", "drop", "recreate", "query"}
        /\ task[t].todo \subseteq Keys \X (Values \cup {Absent})
        /\ task[t].done \subseteq Keys \X (Values \cup {Absent}) /\ task[t].retry \subseteq Keys
    /\ unsaved \in [Procs -> [Keys -> Values \cup {Absent, None}]]
    /\ severed \subseteq Related

\* The buffers of a process hold just what it has written and the server has not
\* settled: a write is neither lost to a flush that fails, in part or as a whole,
\* or runs beside it, nor sent again when it was withdrawn.
NothingForgotten ==
    \A p \in Procs, k \in Keys :
        /\ k \in pendingDeletes[p] => pendingUpserts[p][k] = None
        /\ unsaved[p][k] =
              IF k \in pendingDeletes[p] THEN Absent ELSE pendingUpserts[p][k]

BufferInv == TypeOK /\ NothingForgotten

\* A read answers with its process's last write of the id while that is unsaved,
\* and else with something the server has held since the read looked into the
\* buffers; but for processes that take the index for missing, and for errors,
\* which are answered with "not there".
ReadsCurrent ==
    \A t \in Tasks :
        task[t].at = "answered" /\ ~task[t].blind => task[t].answer \in seen[t]

\* A relation delete_entity_relation has removed comes back only when somebody
\* writes it again: neither a buffer nor a flush under way still holds it.
RelationsStayGone ==
    \A k \in severed :
        /\ server[k] = Absent
        /\ \A p \in Procs : pendingUpserts[p][k] = None
=============================================================================
