------------------------------ MODULE JobQueue ------------------------------
(***************************************************************************)
(* Document processing in cloud mode: the API stores a document and pushes *)
(* a job on the Redis stream (api/job_queue.py); the coroutines of several *)
(* worker processes (api/worker_service.py) pop jobs, start the processing *)
(* run of the job's workspace, and acknowledge.                            *)
(*                                                                         *)
(* A run is reduced to what the queue sees of pipeline.py: it is guarded   *)
(* by the pipeline_status of its own process, treats the documents it has  *)
(* read, and looks once more when a trigger came in meanwhile.  The stream *)
(* and the pending entries list of the group are Redis's; the group exists *)
(* from the start of the API server on.                                    *)
(***************************************************************************)
EXTENDS Naturals, Sequences, FiniteSets, SequencesExt

CONSTANTS
    Jobs,         \* jobs, each for the document of the same name
    WorkspaceOf,
    Workers,      \* worker coroutines
    ProcOf,
    ClaimCount,   \* reclaim_stale's count
    Troubles,     \* what may go wrong: "crash", "raise"
    MaxTroubles,  \* bound on how often
    Null

Procs == {ProcOf[w] : w \in Workers}
Workspaces == {WorkspaceOf[j] : j \in Jobs}

ASSUME QueueAssumption ==
    /\ IsFiniteSet(Jobs)
    /\ DOMAIN WorkspaceOf = Jobs /\ DOMAIN ProcOf = Workers
    /\ ClaimCount \in Nat \ {0} /\ MaxTroubles \in Nat
    /\ Troubles \subseteq {"crash", "raise"}
    /\ Null \notin Workers

VARIABLES
    stored, done,  \* documents in doc_status, and those in a final status
    stream,        \* entries in the order of their ids
    delivered,     \* the group's last delivered position
    pel,           \* delivered and not acknowledged
    overdue,       \* those of them that have been idle for CLAIM_IDLE_MS
    pc, batch,     \* per worker: where it is, and the jobs it has not finished
    taken,         \* documents of the worker's current run
    running,       \* busy: the coroutine that runs a workspace, per process
    nudged,        \* request_pending
    troubles

redis   == <<stream, delivered, pel, overdue>>
worker  == <<pc, batch>>
run     == <<taken, running, nudged, done>>
vars    == <<stored, redis, worker, run, troubles>>

Init ==
    /\ stored = {} /\ done = {}
    /\ stream = <<>> /\ delivered = 0
    /\ pel = {} /\ overdue = {}
    /\ pc = [w \in Workers |-> "idle"]
    /\ batch = [w \in Workers |-> <<>>]
    /\ taken = [w \in Workers |-> {}]
    /\ running = [p \in Procs |-> [s \in Workspaces |-> Null]]
    /\ nudged = [p \in Procs |-> [s \in Workspaces |-> FALSE]]
    /\ troubles = 0

Pushed == Range(stream)
Goto(w, label) == pc' = [pc EXCEPT ![w] = label]
Job(w) == Head(batch[w])
Space(w) == WorkspaceOf[Job(w)]

\* doc_status rows of a workspace that still want treatment.
Unfinished(s) == {j \in stored \ done : WorkspaceOf[j] = s}

-----------------------------------------------------------------------------
(* The API.                                                                *)

\* The row is written first; the request may end before the push.
Store(j) ==
    /\ j \notin stored
    /\ stored' = stored \cup {j}
    /\ UNCHANGED <<redis, worker, run, troubles>>

Push(j) ==
    /\ j \in stored /\ j \notin Pushed
    /\ stream' = Append(stream, j)
    /\ UNCHANGED <<stored, delivered, pel, overdue, worker, run, troubles>>

-----------------------------------------------------------------------------
(* One turn of a worker's loop.                                            *)

\* Nobody acknowledged the entry for CLAIM_IDLE_MS, whether or not the
\* coroutine it was delivered to is still at it.
Overdue(j) ==
    /\ j \in pel \ overdue
    /\ overdue' = overdue \cup {j}
    /\ UNCHANGED <<stored, stream, delivered, pel, worker, run, troubles>>

Before(j, k) ==
    \E m, n \in 1..Len(stream) : m < n /\ stream[m] = j /\ stream[n] = k

\* XAUTOCLAIM hands over the first entries, in the order of their ids.
First == {j \in overdue : Cardinality({k \in overdue : Before(k, j)}) < ClaimCount}
Claimed(jobs) ==
    /\ jobs # <<>>
    /\ \A i, n \in DOMAIN jobs : i < n => Before(jobs[i], jobs[n])

\* Mutant: what is claimed is left out of the round.
ReclaimUnhandled(w) ==
    /\ pc[w] = "idle"
    /\ overdue # {}
    /\ overdue' = overdue \ First
    /\ UNCHANGED <<stored, stream, delivered, pel, worker, run, troubles>>

Reclaim(w) ==
    /\ pc[w] = "idle"
    /\ \E jobs \in SetToSeqs(First) :
         /\ Claimed(jobs)
         /\ batch' = [batch EXCEPT ![w] = jobs]
    /\ overdue' = overdue \ First
    /\ Goto(w, "job")
    /\ UNCHANGED <<stored, stream, delivered, pel, run, troubles>>

\* pop, when there was nothing to claim a moment ago or the claim failed: Redis
\* errors are logged and count as nothing.  A round that finds nothing at all
\* changes nothing.
Pop(w) ==
    /\ pc[w] = "idle"
    /\ delivered < Len(stream)
    /\ delivered' = delivered + 1
    /\ pel' = pel \cup {stream[delivered + 1]}
    /\ batch' = [batch EXCEPT ![w] = <<stream[delivered + 1]>>]
    /\ Goto(w, "job")
    /\ UNCHANGED <<stored, stream, overdue, run, troubles>>

\* Mutant: `busy` is not looked at.
StartRunBlind(w) ==
    LET p == ProcOf[w] IN
    /\ pc[w] = "job"
    /\ Unfinished(Space(w)) # {}
    /\ running' = [running EXCEPT ![p][Space(w)] = w]
    /\ nudged' = [nudged EXCEPT ![p][Space(w)] = FALSE]
    /\ taken' = [taken EXCEPT ![w] = Unfinished(Space(w))]
    /\ Goto(w, "run")
    /\ UNCHANGED <<stored, redis, batch, done, troubles>>

\* apipeline_process_enqueue_documents, first section: a run begins,
StartRun(w) ==
    LET p == ProcOf[w] IN
    /\ pc[w] = "job"
    /\ running[p][Space(w)] = Null
    /\ Unfinished(Space(w)) # {}
    /\ running' = [running EXCEPT ![p][Space(w)] = w]
    /\ nudged' = [nudged EXCEPT ![p][Space(w)] = FALSE]
    /\ taken' = [taken EXCEPT ![w] = Unfinished(Space(w))]
    /\ Goto(w, "run")
    /\ UNCHANGED <<stored, redis, batch, done, troubles>>

\* or there is nothing to run,
NothingToRun(w) ==
    /\ pc[w] = "job"
    /\ running[ProcOf[w]][Space(w)] = Null
    /\ Unfinished(Space(w)) = {}
    /\ Goto(w, "ack")
    /\ UNCHANGED <<stored, redis, batch, run, troubles>>

\* or a run of this process is asked to look again.
Collapse(w) ==
    /\ pc[w] = "job"
    /\ running[ProcOf[w]][Space(w)] # Null
    /\ nudged' = [nudged EXCEPT ![ProcOf[w]][Space(w)] = TRUE]
    /\ Goto(w, "ack")
    /\ UNCHANGED <<stored, redis, batch, taken, running, done, troubles>>

\* One document of the batch reaches PROCESSED or FAILED.
Treat(w) ==
    /\ pc[w] = "run"
    /\ \E d \in taken[w] :
         /\ taken' = [taken EXCEPT ![w] = @ \ {d}]
         /\ done' = done \cup {d}
    /\ UNCHANGED <<stored, redis, worker, running, nudged, troubles>>

\* The batch is done and somebody asked: read the rows again.
LookAgain(w) ==
    /\ pc[w] = "run" /\ taken[w] = {}
    /\ nudged[ProcOf[w]][Space(w)]
    /\ nudged' = [nudged EXCEPT ![ProcOf[w]][Space(w)] = FALSE]
    /\ taken' = [taken EXCEPT ![w] = Unfinished(Space(w))]
    /\ UNCHANGED <<stored, redis, worker, running, done, troubles>>

\* Mutant: the run ends without a look at request_pending.
FinishRunBlind(w) ==
    /\ pc[w] = "run" /\ taken[w] = {}
    /\ running' = [running EXCEPT ![ProcOf[w]][Space(w)] = Null]
    /\ Goto(w, "ack")
    /\ UNCHANGED <<stored, redis, batch, taken, nudged, done, troubles>>

FinishRun(w) ==
    /\ pc[w] = "run" /\ taken[w] = {}
    /\ ~nudged[ProcOf[w]][Space(w)]
    /\ running' = [running EXCEPT ![ProcOf[w]][Space(w)] = Null]
    /\ Goto(w, "ack")
    /\ UNCHANGED <<stored, redis, batch, taken, nudged, done, troubles>>

Trouble(kind) ==
    /\ kind \in Troubles /\ troubles < MaxTroubles
    /\ troubles' = troubles + 1

\* The pipeline raises: busy is lowered, the error is published, and the job is
\* acknowledged like any other.
RunRaises(w) ==
    /\ pc[w] = "run"
    /\ Trouble("raise")
    /\ running' = [running EXCEPT ![ProcOf[w]][Space(w)] = Null]
    /\ taken' = [taken EXCEPT ![w] = {}]
    /\ Goto(w, "ack")
    /\ UNCHANGED <<stored, redis, batch, nudged, done>>

\* XACK does not ask who owns the entry.
Ack(w) ==
    /\ pc[w] = "ack"
    /\ pel' = pel \ {Job(w)}
    /\ overdue' = overdue \ {Job(w)}
    /\ batch' = [batch EXCEPT ![w] = Tail(@)]
    /\ Goto(w, IF Len(batch[w]) = 1 THEN "idle" ELSE "job")
    /\ UNCHANGED <<stored, stream, delivered, run, troubles>>

\* A worker process dies with all its coroutines, killed from outside or by an
\* exception of one of them (a failing instance factory, a failing ack), and is
\* started again.
Crash(p) ==
    LET mine == {w \in Workers : ProcOf[w] = p} IN
    /\ Trouble("crash")
    /\ pc' = [w \in Workers |-> IF w \in mine THEN "idle" ELSE pc[w]]
    /\ batch' = [w \in Workers |-> IF w \in mine THEN <<>> ELSE batch[w]]
    /\ taken' = [w \in Workers |-> IF w \in mine THEN {} ELSE taken[w]]
    /\ running' = [running EXCEPT ![p] = [s \in Workspaces |-> Null]]
    /\ nudged' = [nudged EXCEPT ![p] = [s \in Workspaces |-> FALSE]]
    /\ UNCHANGED <<stored, redis, done>>

Handle(w) ==
    \/ StartRun(w) \/ NothingToRun(w) \/ Collapse(w) \/ Treat(w)
    \/ LookAgain(w) \/ FinishRun(w) \/ Ack(w)

Next ==
    \/ \E j \in Jobs : Store(j) \/ Push(j) \/ Overdue(j)
    \/ \E w \in Workers :
         Reclaim(w) \/ Pop(w) \/ Handle(w) \/ RunRaises(w)
    \/ \E p \in Procs : Crash(p)

Spec == Init /\ [][Next]_vars

\* Workers loop for ever, and Redis answers each of them in the long run; time
\* passes; a run treats its documents.  The API owes nothing.
FairSpec ==
    /\ Spec
    /\ \A j \in Jobs : WF_vars(Overdue(j))
    /\ \A w \in Workers :
         SF_vars(Reclaim(w) \/ Pop(w)) /\ WF_vars(Handle(w))

-----------------------------------------------------------------------------
(* Properties.                                                             *)

\* Types; a job is on the stream only when its document is stored, and only
\* what was delivered is pending.
TypeOK ==
    /\ stored \subseteq Jobs /\ done \subseteq stored
    /\ Pushed \subseteq stored
    /\ stream \in Seq(Jobs) /\ delivered \in 0..Len(stream)
    /\ overdue \subseteq pel /\ pel \subseteq Pushed
    /\ pc \in [Workers -> {"idle", "job", "run", "ack"}]
    /\ batch \in [Workers -> Seq(Jobs)]
    /\ taken \in [Workers -> SUBSET Jobs]
    /\ running \in [Procs -> [Workspaces -> Workers \cup {Null}]]
    /\ nudged \in [Procs -> [Workspaces -> BOOLEAN]]
    /\ troubles \in 0..MaxTroubles

\* Within a process a workspace has one run, and `busy` says whose it is, also
\* when entries are delivered twice because a job takes longer than
\* CLAIM_IDLE_MS.
OneRunPerProcess ==
    \A w \in Workers : pc[w] = "run" => running[ProcOf[w]][Space(w)] = w

\* The invariant of the queue and of `busy`.
JobInv == TypeOK /\ OneRunPerProcess

\* A document whose job was pushed, and which is not finished, will be treated:
\* its job is still to be delivered or acknowledged, a coroutine is about to
\* start, or a run has it or is going to look again ("guarantees at-least-once
\* delivery even when worker pods crash mid-job").
Remembered(j) ==
    \/ j \in pel
    \/ \E n \in (delivered + 1)..Len(stream) : stream[n] = j
    \/ \E w \in Workers : pc[w] = "job" /\ j \in Range(batch[w])
    \/ \E w \in Workers : j \in taken[w]
    \/ \E p \in Procs : running[p][WorkspaceOf[j]] # Null /\ nudged[p][WorkspaceOf[j]]

NoDocumentForgotten == \A j \in Pushed \ done : Remembered(j)

\* Acknowledging a trigger that was collapsed onto a run, or claimed from a
\* coroutine that is still at it, forgets no document while nothing crashes or
\* raises.
ForgottenOnlyByTrouble == troubles = 0 => NoDocumentForgotten

Delivered(j) == \E n \in 1..delivered : stream[n] = j

\* Every job is acknowledged in the end, whatever crashes, because an entry
\* delivered to a worker that died is claimed by another; and its document is
\* in a final status by then unless something went wrong.
JobsSettle ==
    \A j \in Jobs : j \in Pushed ~>
        Delivered(j) /\ j \notin pel /\ (j \in done \/ troubles > 0)

=============================================================================
