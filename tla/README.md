# madRAG: verification of document ingestion

madRAG is a retrieval-augmented-generation server. Documents arrive by upload,
API call, webhook or directory scan; a pipeline parses them, cuts them into
chunks, extracts entities and relations with a language model, and writes key
value, vector and graph stores that queries read. This directory models the
part where the hard problems are: the coordination of that pipeline, and the
stores it and the graph editor write. The content of the documents, the ranking
of answers and the calls to models are data the properties do not tell apart.

All paths are relative to `src/madrag/` unless they start with `docs/`.

## 1. Inventory

| Component | Source | State it keeps | Operations | Status |
|---|---|---|---|---|
| Pipeline gate | `pipeline.py`, `api/routers/document_routes.py`, `webhook_routes.py`, `madrag.py` (admission and release of `adelete_by_doc_id`), `kg/shared_storage.py:1267-1330` | `pipeline_status` of a workspace: `busy`, `destructive_busy`, `scanning`, `scanning_exclusive`, `pending_enqueues`, `request_pending`, `cancellation_requested`, the job name | upload, insert, process, scan, batch delete, re-ingest, clear, webhook delete, cancel, stop, reprocess | `PipelineGate` |
| Document batch | `pipeline.py` (`_run_pipeline_batch` and its workers) | `doc_status` rows, `full_docs`, chunks in the stores; queues, workers, status documents in memory | consistency check, feed, parse, analyze, process, purge, joins, cancel | `PipelineBatch` |
| Deletion and rebuild | `madrag.py` (`adelete_by_doc_id`, `_purge_doc_chunks_and_kg`), `operate.py` (merge, rebuild), `pipeline.py` (storing stages) | rows, chunks, cached answers, sources in graph and tracking, vectors, the index of a document | store and merge, purge and process again, delete, retry | `DocDeletion` |
| File-backed stores | `kg/nano_vector_db_impl.py`, `networkx_impl.py`, update flags in `shared_storage.py` | a file, a copy per storage object, an update flag per copy | build, register, look, change, save, clear, edit | `FileStore`; Faiss and the key-value files are not modelled |
| Graph editing | `utils_graph.py`, `graph_routes.py` | graph, sources, vectors, chunk tracking | create, edit, rename, merge and delete entities and relations | `GraphEdit` |
| OpenSearch write buffers | `kg/opensearch_impl.py` (key-value and vector storages) | buffered upserts and deletes of a process, whether the index is ready, the index | upsert, delete, read, save, finalize, drop, delete relations | `WriteBuffer` |
| Keyed locks | `kg/shared_storage.py` | two registries of locks with counts and cleanup lists, lock objects | enter, leave, cancelled wait, cleanup | `KeyedLock` |
| Instance pool | `api/pool.py` | registry of instances, reference counts, last use, the pool's lock | acquire, create, evict, sweep, shutdown | `InstancePool` |
| Job queue, workers | `api/job_queue.py`, `api/worker_service.py` | Redis stream, group position, pending entries; the worker loop | push, pop, claim, acknowledge, run, crash | `JobQueue`, without the instance cache |
| Bounded executor | `utils.py` (`priority_limit_async_func_call`) | priority queue, worker tasks, futures, task states | call, run, four timeouts, health check, shutdown | `BoundedExecutor` |
| Event bus, access control, authentication | `api/sse_bus.py`, `access_control.py`, `api/auth.py` | subscribers; none | fan-out; stateless checks | not modelled |
| Other database backends | `kg/*_impl.py` | none of their own | adapters that write through | not modelled |
| Query path, parsers, chunkers, model bindings, storage, guardrails, evaluation, tools, web UI, deployment | - | - | text, numbers, wiring, front end | not modelled |

### How they interact

```
 uploads, inserts, scans, webhooks           API with a Redis queue
        |  reserve / guard                        | push
        v                                         v
   pipeline gate  <--- request_pending ---   worker coroutines (JobQueue)
   (pipeline_status, one lock)                    |
        | the owner of `busy`                     | one pipeline_status per process
        v                                         v
   document batch: parse -> analyze -> process queues --- model calls ---> BoundedExecutor
        | store, merge, purge, delete (DocDeletion)
        |                                    graph editing (looks at `busy`, reserves nothing)
        v                                         v
   doc_status, full_docs, chunk, vector and graph stores
   (under keyed locks, by an instance the pool keeps)
        |                               |
   files, a copy per process       OpenSearch, a buffer per process
   (FileStore)                     (WriteBuffer)
```

* Every task that wants the pipeline goes through `pipeline_status`, guarded by
  one keyed lock. A section reads and sets a few flags (the start of a run also
  reads the unfinished rows under it) and then lets go; from there on the flags
  are what excludes.
* Whoever finds the pipeline busy sets `request_pending` and goes away; the
  owner looks at it, atomically with lowering `busy`.
* Inside a run, tasks speak through bounded queues and through rows of
  `doc_status`, and an exception or a cancellation becomes a FAILED row.
* One document is written to up to a dozen stores, one after another and without
  a transaction. Deletion and reprocessing find what to take out through the
  row, chunk tracking and a per-document index, each written at its own time.
* Graph edits and the merge of the pipeline exclude each other by keyed locks on
  entity names; an edit also looks whether the pipeline is busy.
* Instances of a workspace are shared by reference counting; locks of a key by
  reference counting too, in two registries.
* With a Redis queue, runs of one workspace may be started by several
  coroutines and processes; the gate collapses them within a process only.

### What is hard here

Interleavings of background tasks around a few flags; the hand-over of a
trigger to a run that is about to end; error paths that must lower exactly the
flags they raised; queues with bounds and joins; retries that have to clean up
what an earlier attempt wrote; writes to many stores that break off anywhere;
copies and buffers that are behind what others have saved; objects that are
forgotten while someone still uses them; an event loop stopped by a synchronous
lock; four clocks that may end one call; a crash between two writes, or between
an acknowledgement and the work it stands for. The list, line by line, is under
`hazards` in `PROJECT.json`.

### What makes each component correct

* **Gate**: one owner; teardowns alone; accepted work is not refused later; the
  slot counter is exact; flags have owners; no document is stranded and no
  trigger lost; the pipeline is released whatever happens to the run.
* **Batch**: joins return only when everything is done; every document ends
  PROCESSED or FAILED; a PROCESSED row has its chunks; one text has one
  PROCESSED row, unless a look for the other failed; passes end.
* **Deletion**: what is deleted leaves nothing the code could have seen; what
  other documents contributed stays; cached answers stay within reach.
* **File stores**: a copy that is behind is told; a job's changes reach the
  disk; no save undoes another's.
* **Graph editing**: nothing is left that cannot be deleted again; the stores
  agree on what is there; a rename or merge keeps every chunk.
* **Write buffers**: nothing unacknowledged is lost and nothing withdrawn is
  sent; reads are as fresh as buffer and server; what was deleted stays so.
* **Locks**: mutual exclusion though locks are forgotten and made again; exact
  counts; requests are served.
* **Pool**: instances in use are kept; exact counts; upper and lower bound; no
  error path keeps the lock.
* **Queue**: every pushed job ends acknowledged, no document is forgotten, one
  run per workspace and process.
* **Executor**: everyone is answered; nothing is started for nobody; a graceful
  shutdown loses nobody but callers that are not in the queue yet; a free place is
  not forgotten while somebody waits for one.

## 2. The modules

| Module | What it is |
|---|---|
| `PipelineGate` | the flags and every task that uses them |
| `Admission` | what the gate promises, without flags: who may be inside together |
| `PipelineGateProofs` | the theorems about the gate |
| `PipelineBatch`, `PipelineBatchProofs` | what the owner of the pipeline does between two looks at the flags; the theorems |
| `DocDeletion`, `DocDeletionProofs` | one document in and out of the stores, write by write; the theorems |
| `FileStore` | the update-flag protocol of the file-backed stores |
| `GraphEdit` | edits by hand, write by write |
| `WriteBuffer`, `WriteBufferProofs` | deferred writes to an index; the theorems |
| `KeyedLock` | the lock contexts on which atomic sections rest |
| `SharedStorageProofs` | the theorems about the two components on `kg/shared_storage.py`, `KeyedLock` and `FileStore`; it extends both, so `FileStore` has names of its own for its parts (`FileInit`, `FileNext`, `Writers`, `at`) |
| `InstancePool`, `InstancePoolProofs` | where requests get the instance from; the theorems |
| `JobQueue` | who starts a run in a deployment with worker processes |
| `JobsAndEditsProofs` | the theorems about `JobQueue` and about `GraphEdit`, one part after the other; it extends both, so `GraphEdit` has names of its own for its parts (`EditInit`, `EditNext`, `EditTypeOK`) |
| `BoundedExecutor`, `BoundedExecutorProofs` | how model calls are limited, timed and shut down; the theorems |
| `MC...` | small instances of the above for TLC |

Operators whose comment begins with "Mutant:" are not part of a specification.
Each is a definition changed the way a bug might change it, next to the one it
changes; `PROJECT.json` names the property that notices. Variables marked as
history are written and never read by actions; properties use them.

The modules are kept apart where the code lets them be: each says in its opening
comment what it takes from another. `PipelineBatch` is one owner of the gate and
ends where its loop looks at the flags again; `DocDeletion` and `GraphEdit` take
exclusion from the gate and from `KeyedLock`; what saving means for the stores
they write is `FileStore` or `WriteBuffer`; a run in `JobQueue` is what the queue
sees of the gate.

### PipelineGate

`Tasks` are request handlers with their background tasks, and `Kind` says which
handler a task is. `pc[t]` is the place a task has reached, one label between
two `async with pipeline_status_lock` sections or storage operations. A
document stands for a canonical file name: `status` is its row, `full_docs` the
set of names with content. `work` and `keep` are the task's local lists.

The labels `reserved .. release` are an upload, `enqueue, store, nudge` are
`apipeline_enqueue_documents` (which an upload, an insert, a scan and a
re-ingestion all call), `start .. final_released` are
`apipeline_process_enqueue_documents` (which nearly everybody calls), `s_*` a
scan, `announce .. c_final` the three teardowns, `x_*` the webhook's deletion.
`final_held` and `final_released` are the `finally` block of a run that still
owns `busy` and of one that has given it back; the code tells them apart by
`busy_released_in_loop`.

`BatchTake`, `BatchFinish`, `BatchSkip` stand for the batch as a whole; a
document is treated in two steps, so that everything may happen in between.
`overridden` (history) are the documents of the running batch whose row a stop or
a webhook deletion has written since the run read it. `Faults` selects the
failures: `"run"` an exception that escapes the processing
loop or a scan's classification, `"pool"` an exhausted instance pool, and
`"preflight"` a read that raises before a re-ingestion's `try`.

`Admission` keeps five sets: the owner, the teardown, the accepted uploads, the
scanner and the scanner while it classifies. Its guards are the rules of
admission as one would explain them to a colleague, and the gate implements it
under a mapping that reads the sets off the program counters.

### PipelineBatch

`row`, `content`, `stored` are `doc_status`, `full_docs` and the chunks in the
stores. `mem` is the status document a worker carries, which is not the row:
`chunks_list` travels in memory while the row is replaced by status upserts
that do not mention it. `q` and `unfinished` are the `asyncio.Queue`s and the
counters behind `join()`. Three layers, five queues: three parsers, analyze,
process. `phase` is the owner of the batch: consistency check (`Fix`), feeding,
and the joins in order. `at[w]` is where a worker is within one item.

With `Buffered`, chunk stores are files: `flushed` is the part on disk, and
`_insert_done` flushes everything, whichever document asked. Rows and
`full_docs` are written at once. A crash keeps what is on disk.

`Faults` selects failing stages (`"stage"`) and failing reads and writes of rows
or contents (`"store"`). Two history variables record what the properties
except: `unsaved` the documents whose FAILED row could not be written, `missed`
those that passed the duplicate check because the look at the other rows failed
and the failure was swallowed (`utils_pipeline.py:426-429`).

### KeyedLock

Each key has an object per process (`asyncio.Lock`) and one across processes (the
manager's), and registries say which object is current. `ul[t]` is the context
of a coroutine: key, two objects, entered or not. `sorted(keys)` is not built:
the next entry is for the smallest key that is missing (`NextKey`), which is the
sorted order for keys that are given once each. A context that names a key twice
waits for itself; the assumption on `Wants` leaves it out (section 5).
`blocked[p]` names the
coroutine whose synchronous acquire holds up the event loop of process `p`; no
coroutine of `p` moves meanwhile. Expiry is nondeterministic: any key on the
cleanup list except the one just released may be old enough.

### InstancePool

A step reaches from one await to the next. `lock` is the holder of the pool's
lock over an await, which is only ever a request that makes an instance. Time
is an order: `recent` by last use, and the first `idle` of them are beyond the
timeout. Objects have identities, so that a reference to an evicted instance is
told from one to its successor.

### JobQueue

`stream`, `delivered`, `pel`, `overdue` are the stream, the group's position,
the pending entries and those a claim may take. A run is what the queue sees of
the gate: `running` and `nudged` are `busy` and `request_pending`, kept per
process as in the code.

### DocDeletion

One job at a time works on one document; `job` is what it is at and has read.
Its kinds are the storing of a document (with the purge that comes before it
when the document was processed before) and `adelete_by_doc_id`; a stage is the
stretch up to the next write, in the code's order: chunks, chunk vectors,
entities, relations with the ends they create, the index, the row on the way
in; cached answers, analysis, chunks, graph or rebuild, index, content, row on
the way out. An element names its chunks in `graph` (`source_id`) and in `track`
(chunk tracking). `waiting` stands for a row that is pending, processing or
failed. A failure may come between any two steps; a crash is a failure after which
no handler writes.

`missed[d]` is what the present or the last complete attempt could not have
seen: chunks and elements no row, record or index of the document mentioned
when it began, and rebuilds that failed and were only logged. `whole` are the
documents that were processed and not touched since.

Left out: descriptions and weights, the source-id limits (below which graph and
tracking agree), `skip_kg` and custom knowledge graphs; a chunk has one cached
extraction. No property speaks of relation vectors. `MergeEdge` writes a relation and both its
ends in one step, so no failure falls between them. A document whose row is gone and
whose content is not may be left by the path without chunks when the last write
fails; the deletion can be asked for again, since the content is what finds it.

### FileStore

A copy is one storage object: built (the file is read), then registered (its update
flag exists). `at` is a coroutine between a look at the storage and the
save: `hold` has a client in hand, `orphan` one that a reload of another
coroutine has replaced, `gap` has passed the check in front of the save. `Save`
is the atomic replacement of the file together with raising the flags of the
others, which follows in the same section of the lock.
`session` marks copies with a job or an edit; one of them is the owner of the
pipeline, edits may run beside it. Versions stand for contents. `crossed` and
`missed` mark the two cases the promises except: a session beside which another
copy was saved, and a copy built before a save and registered after it.

### GraphEdit

A request reads and plans: `plan` is a sequence of stages, a stage a set of
writes that the code makes in one loop or `gather`, and a write takes one step;
`Stage` leaves out stages with nothing to do. What an edit gives is chunks
(`source_id`); an edit that becomes a merge (`EditByMerge`) and gives a description
only is taken as one that gives nothing.
The locks of the entities named are held from the plan to the last write and
taken at once (`KeyedLock` says that this is what sorted acquisition amounts
to). Initially every element has two chunks, one that the graph names and one
that only its tracking record does, beyond the source-id limit; adding an edge
creates ends that are missing, as NetworkX does. `torn` are elements through
which an interrupted edit, a swallowed vector write or the edit of a neighbour
has gone, or a merge with an entity without tracking; `halved` those whose
deletion broke off, which may disagree between the stores and must not leave
orphans.

### WriteBuffer

`kind` says which of the two storages it is; they differ in what follows a drop
and in the deletion of relations. `flushLock` is the namespace lock, which
processes of one host share. A flush holds it over the bulk request, whose
items the server carries out one at a time (`BulkItem`), puts off
(`BulkItemBusy`) or refuses; a read looks into the buffers under the lock
(`Look`) and asks the server outside it (`Reply`); that the index was missing
is noted when the answer arrives (`MarkMissing`). The server is external: it
answers, or not, and refreshes when it likes; a write to a missing index creates
one or is refused. Making an index is one step even if another coroutine has finished making it
meanwhile, and a deletion by query removes what it found or, when it fails,
nothing. `unsaved` is what a process has written and not been
answered about, `seen` what a read under way may answer, `severed` the relations
that were found and deleted.

### BoundedExecutor

`call` and `future` are a caller and what it waits for; `states`, `started` and
`quit` are `task_states` with its two marks; `queue` and `putters` the priority
queue and those blocked on it. A caller is at the door until its call is in the
queue: `arriving` when a put with a time limit runs in a task that has not had its
turn, `putting` when it is blocked on the full queue, `woken` when a place was freed
for it. The worker that frees a place goes on first: it may skip its item, count
it done and let `join()` go before the woken caller runs (`utils.py:942-960`,
1306), and the place may be taken by another call. That holds with and without
the task that `wait_for` makes before Python 3.12. A function may return, raise, or
ignore its cancellation and stay (`stuck`). `shut` is where `shutdown` is: `joined`
when its `join()` has been let go and it has not run yet. `late` (history) are the
callers at the door at that moment.

## 3. The runs

| Run | Instance and bounds | What it shows |
|---|---|---|
| `gate_admission` | an upload, a direct insert, a scan, a re-ingestion, a clear, a webhook deletion and a stop, any 3 of them; 1 document; cancel; all faults; fair | `GateInv` (one owner among its parts), `TeardownIsolated`, `AcceptedWorkNotRefused`, `ImplementsAdmission`, `OnlyPendingTaken`, `PipelineReleased` |
| `gate_handoff` | 2 uploads, a scan, a batch deletion and a retry request, any 3 of them; 2 documents; no faults; fair | `SlotsAccounted`, `FlagsHaveOwners`, `NoDocumentStranded`, `PendingTreated` |
| `batch` | 2 documents of one text, one worker per queue, queues of 1, at most 1 chunk each, 2 passes, 1 crash, all faults, fair | `BatchInv`, `ProcessedComplete`, `HashesUnique`, `BatchSettles`, `BatchEnds` |
| `doc_deletion` | 2 documents (one that can be cut in two ways) that share an entity and a relation, 2 failures | `DeletionInv` (`TypeOK` and `OthersKept`), `TracesOnlyUnseen`, `CacheRecoverable` |
| `file_store` | 2 copies, 3 coroutines (2 on one copy), 2 items, 2 versions, edits on both copies, failing saves | `StoreInv`, `ChangesKept`, `NothingOverwritten` |
| `graph_edit` | 4 names: a path of two relations, tracked but for the entity in the middle, and a free one; 2 tasks, 2 requests, 1 failing write | `GraphInv`, `StoresAgree`, `ChunksFollow` |
| `write_buffer` | 2 processes, 3 coroutines (2 in one process), 2 documents (1 a relation), 2 values, 4 operations, 2 errors, both kinds of storage | `BufferInv`, `ReadsCurrent`, `RelationsStayGone` |
| `keyed_lock` | 3 coroutines in 2 processes, 2 keys in crossed order, 4 requests, threshold 1, fair | `LockInv` (exclusion, registries, counts, no circle of waits), `Served` |
| `pool` | 3 tasks, 3 workspaces, room for 2, floor of 1, 3 requests, fair | `PoolInv` (counts, upper bound), `InUseKept`, `MinKept`, `Served` |
| `jobs` | 2 jobs of one workspace, 3 coroutines in 2 processes, claims of 2, 1 trouble, fair | `JobInv` (one run per process), `ForgottenOnlyByTrouble`, `JobsSettle` |
| `executor` | 3 callers of 2 priorities (one with a timeout, one with a queue timeout), 2 workers, 1 place in the queue, 1 function that hangs, both shutdowns, fair | `ExecutorInv` (a drain answers everybody but those at the door), `NoLostWakeup`, `AbandonedNotStarted`, `Answered` |

An invariant whose name ends in `Inv` is the conjunction of the module's
`TypeOK` with the named parts that hold without exception.

One more run checks a promise of the documentation, and TLC finds it broken:

| Run | What happens |
|---|---|
| `traces_left` | No failure at all. Document `b` names an entity as the end of a relation without describing it; document `a` has described it. The merge adds `b`'s chunks to the entity's sources, but reports to the index only ends it had to create, so the deletion of `b` does not look at the entity and its chunks stay there (`operate.py:2613`). The docstring of `adelete_by_doc_id` promises that all derived data are removed or rebuilt. |

### The bounds, and why they are enough

* `MaxArrivals = 3`: requests accepted in one behaviour of the gate. Three is
  what the hazards take: a job that owns the pipeline, one that collides with
  it, and one that comes after. Which three is open, so every triple of a run's
  kinds meets; the batch deletion and the retry request are in `gate_handoff`
  only. The proofs are without the bound (`MaxArrivals` is any natural number), as
  they are for any set of tasks and documents.
* Two documents in the hand-off, the batch and the deletion: one that the step
  is about, one beside it. Duplicates need two of the same text; sharing needs
  an entity and a relation both have. The cut in two ways is what a change of
  chunking options does to a retry.
* `QueueSize` 1, one worker per queue: the tightest pipeline; back-pressure and
  blocked feeders happen at once. `MaxChunks = 1` distinguishes none from some,
  which is all that chunk lists, partial writes and purges ask for.
  `MaxRuns = 2`, `MaxCrashes = 1`: an attempt, a crash, a retry.
* Two failures in `doc_deletion`: an attempt that breaks off and a retry that
  does, before the one that is checked. Jobs are not bounded; the state space is
  finite without.
* Two versions in `file_store`: one copy saves, the other had read before it.
  A copy is built once, at any time; a process that starts again or an instance
  made again is another copy.
* Two requests of two tasks in `graph_edit`: neighbours, the two ends of a
  relation, an edit of what is being merged. Four names are what a merge of two
  neighbours with a common one, and a rename to a free name, take. The end entities
  and both relations have chunk records, so that edits and merges with all their
  tracking meet; the entity in the middle has none, as one of older data.
* Four operations in `write_buffer`: a write, a drop or a save beside it, its
  withdrawal, a read. The processes are on hosts of their own, so that nothing
  rests on a lock between them; processes of one host have fewer interleavings.
* `MaxRequests` of the locks: 4 contexts among 3 coroutines, so one enters twice
  after others have released and pruned; of the pool 3, so that creation,
  eviction and a late release meet. `Threshold = 1` prunes as early as the code
  can; the registry grows to 2 keys, far below the real threshold of 500. Two keys
  make the shortest circle of waits; `LockTheorem` is about circles of any length.
* `ClaimCount`: how many entries one claim takes; 2 covers a claim that takes
  all of them. `MaxTroubles = 1`: what is promised after one crash or error.
* Three callers, two workers and one place in `executor`: both workers taken and
  the queue full, with a caller blocked; one worker hanging and one left.
* Objects (`Ids`, `Objects`): one more than can be referred to at a time, so a
  fresh one always exists (a lemma of `InstancePoolProofs`).

Symmetry is declared only where no liveness is checked, and only over values
that the constants do not tell apart.

### Fairness

* Gate: weak fairness of each task's own steps. An event loop runs every ready
  task, storage calls return, and the lock is never held for long. Nobody owes
  a request or a cancellation. `gate_admission` has cancellation and all faults, so
  `PipelineReleased` holds whatever happened to the run. `gate_handoff` has no
  cancellation, since a cancelled run drops the trigger with the batch, no fault and
  no webhook deletion.
* Batch: weak fairness of the owner and of each worker: awaits on queues, locks
  and calls return once they can. Crash, cancel and start are not fair.
* Locks: weak fairness of each coroutine's steps except the request and the
  cancellation. It is enough because a request ends after a bounded number of
  turns; with unbounded contention the manager's lock gives no order of service
  and `Served` would need more than the code has. The second process of
  `keyed_lock` asks for one key only, since two processes with crossed requests can
  stop each other (section 5), and then `Served` fails.
* Pool: strong fairness of entering, because `asyncio.Lock` serves its waiters
  in order, weak fairness of finishing, because a factory and a body end.
* Queue: weak fairness of handling and of time, strong fairness of asking
  Redis, since each worker asks in an endless loop while entries come and go.
* Executor: weak fairness of a caller that has its turn (a put that is woken, an
  answer), of a worker that does not hang, of the health check (a task that loops)
  and of the waits of a shutdown. That a shutdown ends is not promised. A
  function that ignores its cancellation owes nothing: `stuck` is for ever.
  Timeouts are not fair: what is promised does not rest on them, except on the
  health check.

The stores' modules have no liveness: their steps follow one another in one
coroutine, and nothing waits but on locks, which is `KeyedLock`'s matter.

Where deadlock checking is off, the system may really stop: the bounded
requests have been made, or nothing is left to process. In `batch` it may also
stop because a process worker has died (`BatchEnds` says exactly when).

## 4. What is proved

For all values of the constants; each module's proofs assume what its `ASSUME`
says of them, and nothing else unless the last column does. Bounds such as
`MaxArrivals`, `MaxFaults` or `MaxWrites` are any natural number.

| Module | Theorem | Statement | Beyond the module's assumption |
|---|---|---|---|
| gate | `TypeCorrect` | `Spec => []TypeOK` | |
| | `GateCorrect` | `Spec => []GateInv` | |
| | `OneOwnerTheorem` | `Spec => []OneOwner` | |
| | `TeardownTheorem` | `Spec => []TeardownIsolated` | |
| | `AcceptedTheorem` | `Spec => []AcceptedWorkNotRefused` | |
| | `SlotsTheorem` | `Spec => []SlotsAccounted` | no pool fault |
| | `OwnersTheorem` | `Spec => []FlagsHaveOwners` | at most run faults |
| | `HandOffTheorem` | `Spec => []NoDocumentStranded` | no run fault, no cancellation, no clear, webhook deletion, re-ingestion or stop |
| | `TakenTheorem` | `Spec => OnlyPendingTaken` | |
| | `AdmissionTheorem` | `Spec => ImplementsAdmission` | |
| deletion | `TypeCorrect`, `OthersUnharmed`, `DeletionCorrect` | `Spec => []TypeOK`, `[]OthersKept`, `[]DeletionInv` | |
| | `CacheKept` | `Spec => CacheRecoverable` | |
| | `TracesTheorem` | `Spec => []TracesOnlyUnseen` | |
| batch | `BatchTheorem`, `HashesUniqueTheorem` | `Spec => []BatchInv`, `[]HashesUnique` | |
| | `BatchSettlesTheorem` | `Spec => BatchSettles` | |
| | `ProcessedCompleteTheorem` | `Spec => []ProcessedComplete` | stores that write through (`~Buffered`) |
| locks | `LockTheorem` | `Spec => []LockInv` | |
| | `OneLoopTheorem` | while somebody is in a context, somebody can go on | coroutines of one process |
| file store | `FileTypeCorrect`, `Consistent`, `StoreCorrect` | `FileSpec => []FileTypeOK`, `[]Fresh`, `[]StoreInv` | |
| | `NoneLost` | `FileSpec => []ChangesKept` | |
| | `NoneUndone` | `FileSpec => NothingOverwritten` | |
| pool | `PoolCorrect` | `Spec => []PoolInv` | |
| | `UsedInstanceKept` | `Spec => []InUseKept` | |
| | `MinSizeKept` | `Spec => MinKept` | |
| write buffer | `BufferTheorem` | `Spec => []BufferInv` | |
| | `ReadsTheorem`, `RelationsTheorem` | `Spec => []ReadsCurrent`, `[]RelationsStayGone` | |
| executor | `ExecutorTheorem` | `Spec => []ExecutorInv` | |
| | `WakeupTheorem` | `Spec => []NoLostWakeup` | |
| | `AbandonedTheorem` | `Spec => AbandonedNotStarted` | |
| job queue | `JobTheorem` | `Spec => []JobInv` | |
| | `ForgottenTheorem` | `Spec => []ForgottenOnlyByTrouble` | |
| graph editing | `GraphTheorem` | `EditSpec => []GraphInv` | |

**The gate.** None of the three safety properties is inductive. That a teardown
meets no upload rests on the counter: `_acquire_destructive_busy` sees zero
`pending_enqueues`, and zero has to mean that there are none. So `GateInv`
carries `SlotCount`: the number of holders is at most the counter. At most and
not equal, because a pool fault can leak a slot; with it the argument survives
all faults, and without pool faults `SlotsTheorem` strengthens it to equality.
`SlotFlags` says the converse: while a slot is held, neither teardown nor
classification may begin, which is what keeps the last-line guard of the
enqueue open. `ScanFlags` says the same of the one scan. `TeardownFlag` ties
`destructive_busy` to the owner, so that a webhook deletion, which looks only
at `busy`, cannot slip in beside a teardown. `KindsInPlace` rules out that a
task of another kind sits at an upload's or a scan's label.

The induction has one lemma per group of actions, for the flags and for the
slots; most steps touch neither and are dispatched by the lemmas that say so.
Two steps change the number of holders, and only they need cardinalities
(`CountReserve`, `CountRelease`). `OneOwner` is where the conditional release
in the `finally` block counts: a task at `final_released` is not an owner, and
lowers nothing.

`AdmissionTheorem` maps each action to one of Admission's or to a stutter. Three
lemmas say what a change of one task's roles is for the abstract gate
(`QuietStutters`, `JobBegins`, `JobEnds`), and the rest checks, action by action,
which of them applies.

*The hand-off.* A task that finds the pipeline taken raises `request_pending` and
leaves. That nothing is stranded needs to know that there is somebody to read
the note: `HandInv` says that while `busy` is raised some task is a `Reader`, at a
label from which it looks at `request_pending` before it lets go, in the same
section of the lock. It says too that no run is cancelled, that only a scan
enqueues again from where it resumes, and that what a run keeps for later was
in its snapshot. The hypotheses are the exceptions of the code: a cancelled run
and one that raises drop the note, a webhook deletion lowers `busy` without
reading it, a clear and a re-ingestion give the pipeline back without starting a
run, and a stop cancels. Uploads, inserts, scans, batch deletions and
reprocessing requests may be mixed in any number, and pool and pre-flight faults
strike as they like.

*What a worker takes up.* `Waiting` says that the documents a run has not taken
yet, and nobody has overridden, are still PENDING. It is inductive with `OneOwner`:
every step either leaves waiting rows as they are, is the owner's, or is that of a
stop (`document_routes.py:5034`) or of a webhook deletion, which `overridden` records
when it meets a batch under way (`Respects`). So there is no hypothesis: stops,
webhook deletions, cancellation and all faults are allowed, and what is excepted is
single documents, not runs in which such a request comes.

**Deletion.** `CacheRecoverable` speaks of one step, but needs to know that the
running job works from what the row lists: `JobOK`, and `Secured`, that answers
the job is about to make unreachable are in the row's metadata or in the job's
own list. With `TypeOK` they are `IInv`. That other documents are not harmed is
`SInv`: `WholeOK` says that everything a processed document's chunks brought is
under their names in graph, tracking and vectors, and so are the ends of its
relations, since a dropped end takes its relations along; `Progress` says the
same of the stages a storing job has behind it, for it will be whole in the
end; `Spared` says that what a running deletion is about to drop has no chunk of
anybody else, in spite of all that earlier failed attempts have left behind.

`TracesOnlyUnseen` is about the end of a job, and `TInv` follows the job there.
When it begins, all that no row, index or record mentions is in `missed`
(`Withdrawing`, first conjunct). While it takes out, each element is `Excused`,
one the job could not see, or `Withdrawn`: it names listed chunks only, has been
sorted into what is dropped and what is kept, and the stages behind have done
their part to it. After the rebuild the document is `Cleared`. `Excused` includes
the ends of a relation, because a merge for another document hands a relation's
chunks on to ends it creates; from anything else a merge hands on only the chunk
it merges, which belongs to the other document. `Gone` keeps the result for
documents no job is working on, and `IndexOK` says that the index goes with the
list, so that a later attempt starts from nothing.

**Batch.** `QInv` is about places: a document is to be fed, in one queue or with
one worker (`OnePlace`), and a queue's counter is what waits in it and what its
workers hold (`CountOK`). So a `join()` that returns means that the stage is empty;
`PhaseOK` carries this for the stages whose join has returned, which is why the
order of the joins matters. `RowInv` adds the rows: `Settled` (what is no longer
under way is PROCESSED or FAILED, or its FAILED row could not be written), and
`OneCleared`: of two documents of one text whose look at the other rows came out
(those not in `missed`), at most one has been through the duplicate check, since a
hash is written to the row before the others are looked at. A failed look takes a
document out of this and never lets another through. From these follow
`BatchSettles` and `HashesUnique`.
`ProcessedComplete` needs `ChunksStored`, that a worker past its first gathering of
writes has its chunks in the stores, and that nobody takes chunks of a PROCESSED
row away. With `Buffered` stores a crash takes what was not flushed from under a
PROCESSED row (section 5), so nothing is claimed there.

**Locks.** That two contexts never hold one key rests on the registries, since it
is objects that exclude, not names: `UsedIsRegistered` says that an object a
context refers to is the one the registries hand out, so that two contexts with
one key meet at one object. It is kept by pruning only because what is on a
cleanup list has no references, and that is what `Registries` counts: for each
key and process, and for each key across processes, the count is the number of
contexts that list the key, and it is zero just when the key is unregistered or
on the list. `OwnersOK` says that the owners of objects are the contexts that
entered them or are about to (an async lock is held one step longer on the way
in), and that a process stands still for nobody else. `ContextOK` describes one
context: ascending keys without gaps, all entries entered but the last, whose
mark depends on the label. The steps that matter are `GetLock`, which adds an entry to
one context and one to two counts, and `ReleaseRef`, which takes them away and
prunes both registries; each is proved for its own key and for the others.

`NeverStuck`, the last part of `LockInv`, says that while somebody is in a
context, somebody can take a step, unless a coroutine stands before a manager lock
of another process (`HeldUp`). Suppose nobody can. Nobody stands before a manager lock that
is taken, since its owner is of the same process and would own the async lock in
front of it as well (`AcquireFree`); so no loop is stopped, and everybody inside
waits for an async lock. Take the one that waits for the greatest key. That key
has an owner, who has entered it and waits too, for a greater one, since
contexts ascend: a contradiction. The greatest exists because keys are numbers
and coroutines finitely many (`Greatest`). With one process `HeldUp` cannot be,
which is `OneLoopTheorem`.

**File store.** `Fresh` alone is not inductive, because a save compares a copy
with the file through the flag. `WorkOK` ties a coroutine's label to the
session, the object it holds and its change; `Uncrossed` says that a copy in a
session beside which nobody saved has its base still on disk; `Based` that such
a copy is the file with exactly its unsaved changes. From `Based` follow
`ChangesKept`, `NothingOverwritten` and, when nothing is unsaved, `Fresh`.

**Pool.** `PoolInv`, `InUseKept`, `Ordered` (the list of recent use names just the
registered instances, each once) and `TasksOK` (where a task is and what it
refers to). Counts are cardinalities of sets of tasks, so the steps that take or
give a reference change one set by one element. That a fresh object exists is a
pigeonhole argument (`NewObjectExists`).

**Write buffer.** `LockOK` says that whoever flushes, drops or deletes relations
holds its host's lock. The heart is `Covers`: a change a process has not been
acknowledged is, with its present value and once, before the flush under way,
behind it, or among what the server asked to have sent again. It stays true
because buffers change under the lock only. So a flush that ends, or breaks off,
leaves in the buffers just what the server has not settled (`NothingForgotten`).
`RelationsStayGone` holds because a relation counts as deleted for good only when
no process has a write of it left, and a flush sends nothing else. `ReadsCurrent`
needs `AskedOK`: what the server will answer next is among the answers a read
under way may give.

**Executor.** The table `task_states` has an entry only for those who may still be
answered (`TableOK`); what is in the queue or with a worker has been put there and
is counted, and blocked callers are in `putters` once (`ItemsOK`); until
`shutdown_event` is set, whoever waits has an entry and an item (`OpenOK`). So when
the count of unfinished items falls to zero, everybody who is not at the door has
been answered; `LateOK` says that this is still so when `shutdown` runs, whatever
those at the door (`late`) do in between, and `DrainedMeansAnswered` follows.
`NoLostWakeup` counts places: a caller is blocked only while items and woken callers
make up the queue's size, and each step that takes one of them away wakes the
next. `EndOK` orders the end: the door is closed before the workers go.
`AbandonedTheorem` follows from `TableOK`, because a worker looks into the table in
the step in which it starts.

**Job queue.** `RunOK` says that a worker in a run owns `busy` of its process and
workspace; with one flag per process the runs of a process cannot meet.
`EntriesKept`, as long as nothing has crashed or raised: a pushed document not done
is pending in the stream, not delivered yet, or held, by a run that took it or a
`request_pending` of a running one. `AcksSafe` is the same for the entry a worker is
about to acknowledge, which is the step that could forget it.

**Graph editing.** `GraphInv` says of elements at rest that what has a vector or a
chunk record is in the graph. In the middle of an edit it is not so: a rename puts
the new node into the graph before it has a vector, and takes the old one out
while it still has one. `EditIInv` therefore speaks of what is still to be written.
For whoever holds the lock of an element, the plan either `Stays` (the element is
in the graph or will be made, and no write drops it) or `Clears` (nothing will
fill it, and what it has of vector and record will be taken away). `Kept`: an
element that is an orphan now has a holder whose plan is right for it, and of one
that is no orphan every holder's plan is right. So when the plan is empty nothing
is left over. A failure throws a plan away; the elements in `about` are then
excused by `torn`, except those of a deletion, and hence a deletion must never make
an orphan on its way. That is why the code takes records and vectors away before
the node, and it is what the mutant of `DeleteEntity` with the graph first breaks.

The rest of the invariant makes plans predictable. `WriteOK`: a write is about
elements of which the request has locked an end at least, and which a failure
would excuse, unless the request is a deletion. `Placed`: a request is planned when it is alone in its plan, and
the drop of a deletion is its last write. `InOrder`: a rename moves the edges of
the old node before it drops it, so that the drop takes no edge along, and no edge
joins the old and the new name, so that each edge has a place to be moved to. `Apart`: no two tasks
hold a common name. Most of the proof says, of each kind of request, what its
plan makes, drops, fills and takes away, and then, of each kind of write, that
carrying it out takes just that much away from what is left to do, for the task
itself and for one that works on a neighbour. The assumption on names,
that none is a set of names, is what tells entities from relations.

**Only model-checked.** Liveness (`PipelineReleased`, `PendingTreated`,
`BatchEnds`, both `Served`, `JobsSettle`, `Answered`) is out of
the prover's reach, since it needs fairness and `ENABLED`. `StoresAgree` and
`ChunksFollow` of `GraphEdit` are checked on small instances and not proved: they
compare the contents of stores and need, for each kind of request, what its
plan will have written at the end, where `GraphInv` needs only what it will have
made and cleared. What the gate does under cancellation, run faults and the
excluded requests is checked for the properties that are claimed there, in the
runs of section 3.

## 5. What is not promised

Modelling showed behaviour that contradicts no sentence of the repository, or
for which there is no run of its own. The models contain it; the properties are
stated so as to hold beside it.

Gate and pipeline:

* The `finally` block of a run resets `cancellation_requested` even when the
  next run has begun (`pipeline.py:1172`), so a cancellation can be lost.
* A webhook deletion lowers `busy` without a look at `request_pending`
  (`madrag.py:3868`); a document enqueued meanwhile waits for the next trigger.
* A cancelled run drops `request_pending` (`pipeline.py:1078`); a clear leaves
  `cancellation_requested` as it is (`document_routes.py:4003`).
* A stop request writes its FAILED row beside the batch's snapshot
  (`document_routes.py:5034`), and the document is processed all the same; so it is
  when a webhook deletion removes it meanwhile. `OnlyPendingTaken` excepts exactly
  the documents to which this has happened (`overridden`).
* A direct insert that has passed the guard may write while a clear drops the
  stores; a processing run may start while a scan classifies.
* A scan that cannot get an instance leaves its flags raised, and so does a
  re-ingestion whose pre-flight read raises; the latter keeps `busy`, and is the
  exception `Leaked` of `PipelineReleased`.
* Chunks stored by an attempt that failed are unknown to the row when the retry
  is cancelled while it parses: the FAILED row is written without a chunk list,
  and no later attempt or deletion finds them (`Unseen` in `DocDeletion`).
* Two files of one text parsed at once each find the other's hash: both become
  duplicates, and both texts are deleted. The other way round, when the look for
  duplicates raises, the exception is swallowed and the document counts as unique
  (`utils_pipeline.py:426-429`): two PROCESSED rows with one hash are then possible.
  `HashesUnique` excepts the documents whose look failed (`missed`).
* With file-backed stores (`Buffered`) a PROCESSED row is on disk before the
  chunks are; after a crash in between nothing looks at the row again.

Locks, pool, queue, executor:

* Contexts of two worker processes can wait for each other for ever. `y` of the
  first process holds key 2; `z` of the second holds 1 and waits for 2 in a
  blocking call (`shared_storage.py:172`), so its event loop stands still; `x` of
  the first asks for 1, and its blocking call stops the loop in which `y` would
  release 2. Nobody can go on, though every context sorts its keys, which the
  comment at 828 says avoids deadlocks; the one at 645 says that the async lock
  in front prevents blocking the loop, which it does only among the coroutines of
  one process. `HeldUp` in `NeverStuck` is this case.
* A context that asks for one key twice, as the deletion of a relation from an
  entity to itself would, waits for itself.
* Background deletions use an instance after the request that acquired it has
  returned it to the pool; shutdown finalizes instances in use, and a request
  that waits for the pool's lock at that time makes one nobody finalizes.
* The sweep looks at reference counts, not again at the time of last use.
* A pipeline that raises is acknowledged like one that succeeds; `busy` is kept
  per process, so two worker pods may run one workspace at the same time.
* A job collapsed onto a run is acknowledged at once: a crash of the process
  then loses the only memory of it (`ForgottenOnlyByTrouble` speaks of the
  time without trouble).
* The docstring of the executor's `shutdown` (`utils.py:1172-1175`) says that it never
  blocks indefinitely. It does: it gathers its workers without a limit (1226), so a
  function that ignores its cancellation keeps it for as long as it runs. No
  property promises the end of a shutdown.
* The same docstring says that a graceful shutdown drains queued and running work.
  It loses calls that were let in and are not in the queue yet: a worker that skips
  an abandoned item (942-944, 953-960) counts it done before the caller blocked on
  the full queue, whom its `get` has woken, has put its own (1306). `join()` returns,
  the workers are cancelled, and that caller is never answered unless it brought
  a timeout. `late` in `DrainedMeansAnswered` and `Answered` is this case.
* A forced shutdown wakes as many blocked callers as there are items in the queue
  (1211), and the others stay blocked.

Stores:

* A copy of a file built before a save and registered after it is not told of
  it; an edit beside a job may be undone by the job's save, or undo it.
* A deletion does not see what the index of the document does not mention: ends
  another document had described (`traces_left`), elements merged by an attempt
  that failed before the index was written, a rebuild that failed and was
  logged (`operate.py:990`).
* Graph editing locks the entities named and rewrites their neighbours' edges
  too. The comments at `utils_graph.py:84-88` and `590-596` say that this
  excludes every concurrent write of such an edge, but an operation on the
  neighbour takes another lock: the two can cross, and lose an edge or a record.
* A rename or merge that fails half-way is not undone and cannot be repeated,
  since the old name or the new one is then in the wrong place. A merge forgets
  the chunks that only the graph names when one of the entities has no tracking
  record. The endpoint's text says that the target of a merge must exist
  (`graph_routes.py`, around 695); the code creates it.
* A process whose read finds the index missing reads nothing until it writes
  itself, though another makes and fills the index again; a late answer can
  blind a process that has just made the index (`opensearch_impl.py:597`). The
  docstring of `upsert` says only that others do not see writes before they are
  flushed.
* A buffered write of one process, flushed late, replaces a newer one of another,
  and a drop does not reach the buffers of other processes, which bring
  documents back.
* `delete_entity_relation` passes over rows that no refresh has made searchable,
  between a flush and its refresh (`opensearch_impl.py:3767`).
* After `finalize` a storage that is still in use accepts writes, and a save
  returns without an error and without saving (770, 869).

Outside the models, with the reason:

* The Faiss store follows the protocol of `FileStore` with a layout of its own;
  the key-value files share one dictionary between processes. The query path
  only reads. Parsers, chunkers, prompts, rerankers and model bindings turn
  text into text. The other database adapters write through. Access control and
  authentication check one request. The event bus, cloud storage, evaluation,
  tools and the web UI keep nothing another part depends on.
* `ainsert_custom_kg` and custom chunks, which write no chunk tracking;
  relations from an entity to itself, which ask for one lock twice
  (`utils_graph.py:193`) and wait for themselves.
* Stream trimming and the creation of the consumer group at `$`, which drops
  what was pushed before; the worker's cache of instances.
* Failures of the manager process (`shared_storage.py:630` leaks a count then).
* Reading a document's content while the batch is fed (`pipeline.py:1234`) is
  taken to succeed.

The modules cover the code that decides and orders. Most of the repository's
lines are adapters to databases, parsing, prompts and retrieval, and have no
definition here.

## 6. Plan

Written: the gate with its abstract specification, the batch, deletion, the
file-backed stores, graph editing, the OpenSearch buffers, locks, pool, job queue
and executor; proofs about each of them.

What would add most next:

1. Proofs of `StoresAgree` and `ChunksFollow` of `GraphEdit`, on top of `EditIInv`:
   what each kind of request will have written where when its plan is empty.
2. Gate and pool composed, for background tasks that outlive their reference.
3. The Faiss store and the shared dictionaries of the key-value files.
