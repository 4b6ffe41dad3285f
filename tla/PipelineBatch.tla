---------------------------- MODULE PipelineBatch ----------------------------
(***************************************************************************)
(* What the owner of the pipeline does with the documents it found: the    *)
(* consistency check, the three layers of bounded queues (parse, analyze,  *)
(* process), the worker pools between them, the per-document state machine *)
(* that writes chunks, and the joins that end a batch.  PipelineGate sees  *)
(* all of this as one atomic treatment of the batch.                       *)
(*                                                                         *)
(* doc_status rows and full_docs outlive a crash; so do the chunk stores,  *)
(* up to their last flush when they are files; queues, workers and the     *)
(* in-memory status documents do not.                                      *)
(***************************************************************************)
EXTENDS Naturals, FiniteSets, Sequences, SequencesExt

CONSTANTS
    Docs,
    Body,        \* the text of each document: equal bodies hash alike
    Engine,      \* the parser a not yet parsed document is routed to
    Initially,   \* what full_docs may hold before the first run
    Workers,
    Serves,      \* the queue each worker consumes
    QueueSize,   \* the bound of each queue
    MaxChunks,   \* bound on the chunks of one document
    Faults,      \* see FaultNames
    Buffered,    \* do the chunk stores keep writes in memory until a flush?
    MaxRuns,     \* bound on processing passes
    MaxCrashes,  \* bound on crashes
    NoDoc

\* "stage": a parser, model or embedding call, or a chunk store, raises.
\* "store": a read or a write of doc_status or full_docs raises.
FaultNames == {"stage", "store"}

Engines == {"native", "mineru", "docling"}
Stages  == Engines \cup {"analyze", "process"}

ASSUME BatchAssumption ==
    /\ IsFiniteSet(Docs) /\ IsFiniteSet(Workers)
    /\ NoDoc \notin Docs
    /\ Engine \in [Docs -> Engines]
    /\ Initially \subseteq [Docs -> {"none", "pending", "parsed"}]
    \* The enqueue critical section admits a text only once.
    /\ \A have \in Initially : \A d, e \in Docs :
          have[d] = "parsed" /\ have[e] = "parsed" /\ Body[d] = Body[e] => d = e
    /\ Serves \in [Workers -> Stages]
    /\ \A s \in Stages : \E w \in Workers : Serves[w] = s
    /\ QueueSize \in [Stages -> Nat \ {0}]
    /\ Faults \subseteq FaultNames
    /\ Buffered \in BOOLEAN
    /\ MaxChunks \in Nat /\ MaxRuns \in Nat /\ MaxCrashes \in Nat

VARIABLES
    row,        \* doc_status: status, chunks_list, content_hash?, is_duplicate
    content,    \* full_docs: "none", "pending" (unparsed) or "parsed"
    stored,     \* chunk ids that chunks_vdb, text_chunks or the graph hold
    flushed,    \* the part of them that is on disk, when Buffered
    cancelled,  \* pipeline_status["cancellation_requested"]
    phase,      \* where the owner of the batch is
    batch,      \* to_process_docs
    feed,       \* the part of the batch not yet put into a parse queue
    mem,        \* status_doc: chunks_list and content_hash in memory
    q,          \* the bounded queues
    unfinished, \* their task counters, what join() waits for
    at,         \* where each worker is
    item,       \* the document it took
    cut,        \* `chunks` of the document being processed
    writes,     \* stage-1 writes still under way
    unsaved,    \* documents of this batch whose FAILED row could not be written
    missed,     \* documents last let past the duplicate check by a failed look
    runs, crashes

storage == <<row, content, stored, flushed>>
control == <<cancelled, phase, batch, feed, runs, crashes>>
queues  == <<q, unfinished>>
worker  == <<at, item, cut, writes>>
vars    == <<storage, control, mem, queues, worker, unsaved, missed>>

ChunkIds == 1..MaxChunks    \* positional: <doc>-chunk-000, <doc>-chunk-001, ...

InFlight == {d \in Docs : row[d].status \in
                {"PENDING", "PARSING", "ANALYZING", "PROCESSING", "FAILED"}}

ParseStage(w) == Serves[w] \in Engines

NextStage(s) == IF s = "analyze" THEN "process" ELSE "analyze"

\* resolve_stored_document_parser_engine: extracted content is not re-parsed.
EngineFor(d) == IF content[d] = "parsed" THEN "native" ELSE Engine[d]

Init ==
    /\ content    \in Initially
    /\ row        = [d \in Docs |-> [status |-> "PENDING", chunks |-> {},
                                     hashed |-> content[d] = "parsed",
                                     dup |-> FALSE]]
    /\ stored     = [d \in Docs |-> {}]
    /\ flushed    = [d \in Docs |-> {}]
    /\ cancelled  = FALSE
    /\ phase      = "idle"
    /\ batch      = {}
    /\ feed       = <<>>
    /\ mem        = [d \in Docs |-> [chunks |-> {}, hashed |-> FALSE]]
    /\ q          = [s \in Stages |-> <<>>]
    /\ unfinished = [s \in Stages |-> 0]
    /\ at         = [w \in Workers |-> "get"]
    /\ item       = [w \in Workers |-> NoDoc]
    /\ cut        = [w \in Workers |-> {}]
    /\ writes     = [w \in Workers |-> {}]
    /\ unsaved    = {}
    /\ missed     = {}
    /\ runs = 0 /\ crashes = 0

-----------------------------------------------------------------------------
(* Steps a worker makes inside one item.                                   *)

Goto(w, label) ==
    /\ at' = [at EXCEPT ![w] = label]
    /\ UNCHANGED <<item, queues>>

\* task_done(): the item is off the worker's hands and off the join counter.
TaskDone(w, label) ==
    /\ at'   = [at EXCEPT ![w] = label]
    /\ item' = [item EXCEPT ![w] = NoDoc]
    /\ unfinished' = [unfinished EXCEPT ![Serves[w]] = @ - 1]
    /\ UNCHANGED q

\* _upsert_doc_status_transition replaces the row: without extra_fields the
\* new row has no chunk list, and no duplicate mark survives.
Save(d, status, chunks) ==
    row' = [row EXCEPT ![d] = [status |-> status, chunks |-> chunks,
                               hashed |-> mem[d].hashed, dup |-> FALSE]]

\* The FAILED row of the except blocks; a failure to write it is swallowed.
FailInStage(w) ==
    /\ \/ Save(item[w], "FAILED", {}) /\ UNCHANGED unsaved
       \/ "store" \in Faults /\ unsaved' = unsaved \cup {item[w]} /\ UNCHANGED row
    /\ TaskDone(w, "get")
    /\ UNCHANGED <<content, stored, flushed, control, mem, cut, writes, missed>>

\* _insert_done flushes every store, whichever document asked for it.
InsertDone(now) == flushed' = IF Buffered THEN now ELSE flushed

Take(w) ==
    /\ at[w] = "get"
    /\ q[Serves[w]] # <<>>
    /\ item' = [item EXCEPT ![w] = Head(q[Serves[w]])]
    /\ q'    = [q EXCEPT ![Serves[w]] = Tail(@)]
    /\ at'   = [at EXCEPT ![w] = "check"]
    /\ UNCHANGED <<storage, control, mem, unfinished, cut, writes, unsaved, missed>>

-----------------------------------------------------------------------------
(* Layer 1 and layer 2.                                                    *)

\* Mutant: the cancelled item is dropped without a FAILED row.
SkipSilently(w) ==
    /\ at[w] = "check" /\ Serves[w] # "process"
    /\ cancelled
    /\ TaskDone(w, "get")
    /\ UNCHANGED <<storage, control, mem, cut, writes, unsaved, missed>>

\* Mutant: `continue` jumps over task_done().
SkipUncounted(w) ==
    /\ at[w] = "check" /\ Serves[w] # "process"
    /\ cancelled
    /\ Save(item[w], "FAILED", {})
    /\ at'   = [at EXCEPT ![w] = "get"]
    /\ item' = [item EXCEPT ![w] = NoDoc]
    /\ UNCHANGED <<content, stored, flushed, control, mem, queues, cut, writes, unsaved, missed>>

\* The boundary check of the parse and analyze workers.
SkipCancelled(w) ==
    /\ at[w] = "check" /\ Serves[w] # "process"
    /\ cancelled
    /\ FailInStage(w)

ParseMissing(w) ==
    /\ at[w] = "check" /\ ParseStage(w)
    /\ ~cancelled /\ content[item[w]] = "none"
    /\ FailInStage(w)

BeginStage(w) ==
    /\ at[w] = "check" /\ Serves[w] # "process"
    /\ ~cancelled
    /\ ParseStage(w) => content[item[w]] # "none"
    /\ Save(item[w], IF ParseStage(w) THEN "PARSING" ELSE "ANALYZING", {})
    /\ Goto(w, "work")
    /\ UNCHANGED <<content, stored, flushed, control, mem, cut, writes, unsaved, missed>>

\* Anything raised between the boundary check and the hand-over; an analysis
\* that polls the cancellation flag raises as well.
StageFails(w) ==
    /\ Serves[w] # "process"
    /\ \/ at[w] = "work" /\ "stage" \in Faults
       \/ at[w] = "work" /\ Serves[w] = "analyze" /\ cancelled
       \/ at[w] \in {"check", "patch", "dup"} /\ ~(at[w] = "check" /\ cancelled)
          /\ "store" \in Faults
    /\ FailInStage(w)

\* parse_native / parse_mineru / parse_docling: _persist_parsed_full_docs first
\* writes full_docs; already extracted content is passed through.
ParseExtract(w) ==
    /\ at[w] = "work" /\ ParseStage(w)
    /\ IF content[item[w]] = "pending"
       THEN content' = [content EXCEPT ![item[w]] = "parsed"] /\ Goto(w, "patch")
       ELSE Goto(w, "dup") /\ UNCHANGED content
    /\ UNCHANGED <<row, stored, flushed, control, mem, cut, writes, unsaved, missed>>

\* ... and then patches the content hash into the doc_status row.
ParsePatch(w) ==
    /\ at[w] = "patch"
    /\ row' = [row EXCEPT ![item[w]].hashed = TRUE]
    /\ Goto(w, "dup")
    /\ UNCHANGED <<content, stored, flushed, control, mem, cut, writes, unsaved, missed>>

\* Mutant: only documents that reached PROCESSED count as originals.
TwinsProcessed(d) == {e \in Docs \ {d} : row[e].status = "PROCESSED" /\ row[e].hashed /\ Body[e] = Body[d]}

\* get_duplicate_doc_by_content_hash looks at rows of every status.
Twins(d) == {e \in Docs \ {d} : row[e].status # "absent" /\ row[e].hashed /\ Body[e] = Body[d]}

Hashed(w) == mem[item[w]].hashed \/ row[item[w]].hashed

DropDuplicate(w) ==
    LET d == item[w] IN
    /\ at[w] = "dup"
    /\ Hashed(w) /\ Twins(d) # {}
    /\ row' = [row EXCEPT ![d] = [status |-> "FAILED", chunks |-> {},
                                  hashed |-> TRUE, dup |-> TRUE]]
    /\ \/ content' = [content EXCEPT ![d] = "none"]
       \/ "store" \in Faults /\ UNCHANGED content
    /\ mem' = [mem EXCEPT ![d].hashed = TRUE]
    /\ TaskDone(w, "get")
    /\ UNCHANGED <<stored, flushed, control, cut, writes, unsaved, missed>>

\* A hash is looked up and then, because the first row found may be the
\* document's own, all rows are read; a failure of that read is swallowed, and
\* the document goes on as if it were alone.
KeepUnique(w) ==
    LET d == item[w] IN
    /\ at[w] = "dup"
    /\ \/ ~(Hashed(w) /\ Twins(d) # {}) /\ missed' = missed \ {d}
       \/ Hashed(w) /\ Twins(d) # {} /\ "store" \in Faults /\ missed' = missed \cup {d}
    /\ mem' = [mem EXCEPT ![d].hashed = Hashed(w)]
    /\ Goto(w, "put")
    /\ UNCHANGED <<storage, control, cut, writes, unsaved>>

Analyze(w) ==
    /\ at[w] = "work" /\ Serves[w] = "analyze"
    /\ Goto(w, "put")
    /\ UNCHANGED <<storage, control, mem, cut, writes, unsaved, missed>>

\* Hand-over: a full queue blocks the worker, its own item stays unfinished.
PutNext(w) ==
    LET s == NextStage(Serves[w]) IN
    /\ at[w] = "put"
    /\ Len(q[s]) < QueueSize[s]
    /\ q' = [q EXCEPT ![s] = Append(@, item[w])]
    /\ unfinished' = [unfinished EXCEPT ![s] = @ + 1, ![Serves[w]] = @ - 1]
    /\ at'   = [at EXCEPT ![w] = "get"]
    /\ item' = [item EXCEPT ![w] = NoDoc]
    /\ UNCHANGED <<storage, control, mem, cut, writes, unsaved, missed>>

-----------------------------------------------------------------------------
(* Layer 3: process_single_document.  The semaphore has one permit per     *)
(* process worker, so it never blocks.                                     *)

ProcessBegin(w) ==
    /\ at[w] = "check" /\ Serves[w] = "process"
    /\ cut' = [cut EXCEPT ![w] = {}]
    /\ Goto(w, IF cancelled THEN "fail"
               ELSE IF mem[item[w]].chunks # {} THEN "purge" ELSE "chunk")
    /\ UNCHANGED <<storage, control, mem, writes, unsaved, missed>>

\* _purge_stale_extraction_if_resuming, with the chunk ids status_doc still has.
Purge(w) ==
    LET d == item[w] IN
    /\ at[w] = "purge"
    /\ stored' = [stored EXCEPT ![d] = @ \ mem[d].chunks]
    /\ InsertDone(stored')
    /\ mem'    = [mem EXCEPT ![d].chunks = {}]
    /\ Goto(w, "chunk")
    /\ UNCHANGED <<row, content, control, cut, writes, unsaved, missed>>

PurgeFails(w) ==
    LET d == item[w] IN
    /\ at[w] = "purge" /\ "stage" \in Faults
    /\ \E gone \in SUBSET mem[d].chunks : stored' = [stored EXCEPT ![d] = @ \ gone]
    /\ UNCHANGED flushed \/ InsertDone(stored')
    /\ Goto(w, "fail")
    /\ UNCHANGED <<row, content, control, mem, cut, writes, unsaved, missed>>

Chunk(w) ==
    /\ at[w] = "chunk"
    /\ \E n \in 0..MaxChunks : cut' = [cut EXCEPT ![w] = 1..n]
    /\ writes' = [writes EXCEPT ![w] = IF cancelled THEN {} ELSE {"row", "chunks"}]
    /\ Goto(w, IF cancelled THEN "fail" ELSE "stage1")
    /\ UNCHANGED <<storage, control, mem, unsaved, missed>>

\* Stage 1 runs the PROCESSING row and the chunk writes side by side.
WriteRow(w) ==
    /\ at[w] = "stage1" /\ "row" \in writes[w]
    /\ Save(item[w], "PROCESSING", cut[w])
    /\ writes' = [writes EXCEPT ![w] = @ \ {"row"}]
    /\ UNCHANGED <<content, stored, flushed, control, mem, queues, at, item, cut, unsaved, missed>>

WriteChunks(w) ==
    /\ at[w] = "stage1" /\ "chunks" \in writes[w]
    /\ stored' = [stored EXCEPT ![item[w]] = @ \cup cut[w]]
    /\ writes' = [writes EXCEPT ![w] = @ \ {"chunks"}]
    /\ UNCHANGED <<row, content, flushed, control, mem, queues, at, item, cut, unsaved, missed>>

\* One write raises: the others are cancelled where they are.
StageOneFails(w) ==
    /\ at[w] = "stage1"
    /\ \/ "chunks" \in writes[w] /\ "stage" \in Faults
       \/ "row" \in writes[w] /\ "store" \in Faults
    /\ \E part \in SUBSET cut[w] :
          /\ "chunks" \notin writes[w] => part = {}
          /\ stored' = [stored EXCEPT ![item[w]] = @ \cup part]
    /\ writes' = [writes EXCEPT ![w] = {}]
    /\ Goto(w, "fail")
    /\ UNCHANGED <<row, content, flushed, control, mem, cut, unsaved, missed>>

\* Mutant: only the row is awaited before extraction starts.
GatherRowOnly(w) ==
    /\ at[w] = "stage1" /\ "row" \notin writes[w]
    /\ Goto(w, "extract")
    /\ UNCHANGED <<storage, control, mem, cut, writes, unsaved, missed>>

GatherDone(w) ==
    /\ at[w] = "stage1" /\ writes[w] = {}
    /\ Goto(w, "extract")
    /\ UNCHANGED <<storage, control, mem, cut, writes, unsaved, missed>>

Extract(w) ==
    /\ at[w] = "extract"
    /\ Goto(w, "merge")
    /\ UNCHANGED <<storage, control, mem, cut, writes, unsaved, missed>>

Merge(w) ==
    /\ at[w] = "merge" /\ ~cancelled
    /\ Goto(w, "save")
    /\ UNCHANGED <<storage, control, mem, cut, writes, unsaved, missed>>

\* Chunking, extraction, merging or the last two writes raise, on their own or
\* because of a cancel.
ProcessFails(w) ==
    /\ \/ at[w] \in {"chunk", "extract", "merge"} /\ "stage" \in Faults
       \/ at[w] \in {"extract", "merge"} /\ cancelled
       \/ at[w] \in {"save", "flush"} /\ "store" \in Faults
    /\ Goto(w, "fail")
    /\ UNCHANGED <<storage, control, mem, cut, writes, unsaved, missed>>

SaveProcessed(w) ==
    /\ at[w] = "save"
    /\ Save(item[w], "PROCESSED", cut[w])
    /\ Goto(w, "flush")
    /\ UNCHANGED <<content, stored, flushed, control, mem, cut, writes, unsaved, missed>>

Flush(w) ==
    /\ at[w] = "flush"
    /\ InsertDone(stored)
    /\ TaskDone(w, "get")
    /\ UNCHANGED <<row, content, stored, control, mem, cut, writes, unsaved, missed>>

\* _finalize_doc_failure.  Its own write is not guarded: when it raises, the
\* exception leaves _process_worker, whose task ends after task_done().
Finalize(w) ==
    LET d == item[w] IN
    /\ at[w] = "fail"
    /\ \/ /\ Save(d, "FAILED", IF cut[w] # {} THEN cut[w] ELSE mem[d].chunks)
          /\ TaskDone(w, "get")
          /\ UNCHANGED unsaved
       \/ /\ "store" \in Faults
          /\ unsaved' = unsaved \cup {d}
          /\ TaskDone(w, "dead")
          /\ UNCHANGED row
    /\ UNCHANGED <<content, stored, flushed, control, mem, cut, writes, missed>>

Work(w) ==
    \/ Take(w) \/ SkipCancelled(w) \/ ParseMissing(w) \/ BeginStage(w)
    \/ StageFails(w) \/ ParseExtract(w) \/ ParsePatch(w) \/ DropDuplicate(w)
    \/ KeepUnique(w) \/ Analyze(w) \/ PutNext(w)
    \/ ProcessBegin(w) \/ Purge(w) \/ PurgeFails(w) \/ Chunk(w) \/ WriteRow(w)
    \/ WriteChunks(w) \/ StageOneFails(w) \/ GatherDone(w) \/ Extract(w)
    \/ Merge(w) \/ ProcessFails(w) \/ SaveProcessed(w) \/ Flush(w) \/ Finalize(w)

-----------------------------------------------------------------------------
(* The owner of the batch.                                                 *)

StopWorkers ==
    /\ at'     = [w \in Workers |-> "get"]
    /\ item'   = [w \in Workers |-> NoDoc]
    /\ cut'    = [w \in Workers |-> {}]
    /\ writes' = [w \in Workers |-> {}]
    /\ q'          = [s \in Stages |-> <<>>]
    /\ unfinished' = [s \in Stages |-> 0]

\* A pass finds unfinished rows.
Start ==
    /\ phase = "idle" /\ runs < MaxRuns
    /\ InFlight # {}
    /\ batch' = InFlight
    /\ mem' = [d \in Docs |-> [chunks |-> row[d].chunks, hashed |-> row[d].hashed]]
    /\ phase' = "fix" /\ runs' = runs + 1
    /\ cancelled' = FALSE /\ unsaved' = {}
    /\ UNCHANGED <<storage, feed, queues, worker, missed, crashes>>

LeaveCancelled ==
    /\ phase = "fix" /\ cancelled
    /\ phase' = "idle" /\ cancelled' = FALSE
    /\ batch' = {}
    /\ UNCHANGED <<storage, feed, mem, queues, worker, unsaved, missed, runs, crashes>>

\* _validate_and_fix_document_consistency: FAILED rows without content are
\* left alone, other rows without content are deleted (a failing deletion keeps
\* the document in the batch), interrupted rows go back to PENDING.  The others
\* are fed in whatever order the storage returned them.
Fix ==
    LET Empty     == {d \in batch : content[d] = "none"}
        Preserved == {d \in Empty : row[d].status = "FAILED"}
    IN
    /\ phase = "fix" /\ ~cancelled
    /\ \E kept \in SUBSET (Empty \ Preserved) :
          LET Deleted == (Empty \ Preserved) \ kept IN
          /\ kept # {} => "store" \in Faults
          /\ batch' = batch \ (Preserved \cup Deleted)
          /\ row' = [d \in Docs |->
                IF d \in Deleted
                THEN [status |-> "absent", chunks |-> {}, hashed |-> FALSE, dup |-> FALSE]
                ELSE IF d \in batch \ Empty /\ row[d].status # "PENDING"
                THEN [status |-> "PENDING", chunks |-> mem[d].chunks,
                      hashed |-> mem[d].hashed, dup |-> FALSE]
                ELSE row[d]]
    /\ feed' \in SetToSeqs(batch')
    /\ phase' = IF batch' = {} THEN "idle" ELSE "feed"
    /\ UNCHANGED <<content, stored, flushed, cancelled, mem, queues, worker, unsaved, missed, runs, crashes>>

\* The upsert of the reset rows raises: the pass is over.
FixFails ==
    /\ phase = "fix" /\ ~cancelled
    /\ "store" \in Faults
    /\ \E d \in batch : content[d] # "none" /\ row[d].status # "PENDING"
    /\ phase' = "idle" /\ batch' = {}
    /\ UNCHANGED <<storage, cancelled, feed, mem, queues, worker, unsaved, missed, runs, crashes>>

Feed ==
    LET s == EngineFor(Head(feed)) IN
    /\ phase = "feed" /\ feed # <<>>
    /\ Len(q[s]) < QueueSize[s]
    /\ q' = [q EXCEPT ![s] = Append(@, Head(feed))]
    /\ unfinished' = [unfinished EXCEPT ![s] = @ + 1]
    /\ feed' = Tail(feed)
    /\ UNCHANGED <<storage, cancelled, phase, batch, mem, worker, unsaved, missed, runs, crashes>>

JoinParse ==
    /\ phase = "feed" /\ feed = <<>>
    /\ \A e \in Engines : unfinished[e] = 0
    /\ phase' = "join_analyze"
    /\ UNCHANGED <<storage, cancelled, batch, feed, mem, queues, worker, unsaved, missed, runs, crashes>>

\* Mutant: the analyze queue is not joined.
JoinAnalyzeEarly ==
    /\ phase = "join_analyze"
    /\ phase' = "join_process"
    /\ UNCHANGED <<storage, cancelled, batch, feed, mem, queues, worker, unsaved, missed, runs, crashes>>

JoinAnalyze ==
    /\ phase = "join_analyze"
    /\ unfinished["analyze"] = 0
    /\ phase' = "join_process"
    /\ UNCHANGED <<storage, cancelled, batch, feed, mem, queues, worker, unsaved, missed, runs, crashes>>

\* The last join returns, every worker is cancelled and the pass ends.
JoinProcess ==
    /\ phase = "join_process"
    /\ unfinished["process"] = 0
    /\ phase' = "idle" /\ cancelled' = FALSE
    /\ StopWorkers
    /\ UNCHANGED <<storage, batch, feed, mem, unsaved, missed, runs, crashes>>

-----------------------------------------------------------------------------
Cancel ==
    /\ phase # "idle" /\ ~cancelled
    /\ cancelled' = TRUE
    /\ UNCHANGED <<storage, phase, batch, feed, mem, queues, worker, unsaved, missed, runs, crashes>>

\* The process dies; what the storages have on disk is still there.
Crash ==
    /\ phase # "idle" /\ crashes < MaxCrashes
    /\ crashes' = crashes + 1
    /\ phase' = "idle" /\ cancelled' = FALSE
    /\ batch' = {} /\ feed' = <<>>
    /\ mem' = [d \in Docs |-> [chunks |-> {}, hashed |-> FALSE]]
    /\ stored' = IF Buffered THEN flushed ELSE stored
    /\ StopWorkers
    /\ UNCHANGED <<row, content, flushed, unsaved, missed, runs>>

Owner == LeaveCancelled \/ Fix \/ FixFails \/ Feed \/ JoinParse \/ JoinAnalyze \/ JoinProcess

Next == (\E w \in Workers : Work(w)) \/ Owner \/ Start \/ Cancel \/ Crash

Spec == Init /\ [][Next]_vars

\* Every coroutine of the pass is scheduled again once its await can return;
\* nobody owes a trigger, a cancellation or a crash.
FairSpec == Spec /\ WF_vars(Owner) /\ \A w \in Workers : WF_vars(Work(w))

-----------------------------------------------------------------------------
(* Properties.                                                             *)

Phases == {"idle", "fix", "feed", "join_analyze", "join_process"}
Labels == {"get", "check", "work", "patch", "dup", "put", "purge", "chunk",
           "stage1", "extract", "merge", "save", "flush", "fail", "dead"}
RowStatuses == {"absent", "PENDING", "PARSING", "ANALYZING", "PROCESSING",
                "PROCESSED", "FAILED"}

\* Types; a queue never exceeds its bound and no counter goes negative.
TypeOK ==
    /\ row \in [Docs -> [status: RowStatuses, chunks: SUBSET ChunkIds,
                         hashed: BOOLEAN, dup: BOOLEAN]]
    /\ content \in [Docs -> {"none", "pending", "parsed"}]
    /\ stored \in [Docs -> SUBSET ChunkIds]
    /\ flushed \in [Docs -> SUBSET ChunkIds]
    /\ cancelled \in BOOLEAN
    /\ phase \in Phases
    /\ batch \subseteq Docs
    /\ feed \in Seq(Docs)
    /\ mem \in [Docs -> [chunks: SUBSET ChunkIds, hashed: BOOLEAN]]
    /\ q \in [Stages -> Seq(Docs)]
    /\ \A s \in Stages : Len(q[s]) <= QueueSize[s]
    /\ unfinished \in [Stages -> Nat]
    /\ at \in [Workers -> Labels]
    /\ item \in [Workers -> Docs \cup {NoDoc}]
    /\ cut \in [Workers -> SUBSET ChunkIds]
    /\ writes \in [Workers -> SUBSET {"row", "chunks"}]
    /\ unsaved \subseteq Docs /\ missed \subseteq Docs
    /\ runs \in 0..MaxRuns /\ crashes \in 0..MaxCrashes

\* When the three joins have returned, one after the other, no document is
\* left in any queue or in the hands of a worker about to be cancelled.
JoinsMeanDone ==
    phase = "join_process" /\ unfinished["process"] = 0 =>
        /\ \A s \in Stages : q[s] = <<>>
        /\ \A w \in Workers : at[w] \in {"get", "dead"}

\* What holds of the queues in every state: types and bounds, and that a join
\* is not passed early.
BatchInv == TypeOK /\ JoinsMeanDone

\* A batch that runs to its end has brought each of its documents to PROCESSED
\* or FAILED, whatever was cancelled or raised on the way, except where the
\* FAILED row itself could not be written.
BatchSettles ==
    [][JoinProcess => \A d \in batch \ unsaved : row[d].status \in {"PROCESSED", "FAILED"}]_vars

\* Every chunk a PROCESSED row lists is in the stores, also after retries that
\* purged an earlier attempt, partly failed writes and crashes.
ProcessedComplete ==
    \A d \in Docs : row[d].status = "PROCESSED" => row[d].chunks \subseteq stored[d]

\* The parse workers write a document's hash before they look for another one:
\* of two documents parsed at the same time one at least notices the other, and
\* two PROCESSED rows never carry the same hash, unless the look of one of them
\* failed and was taken for "no duplicate".
HashesUnique ==
    \A d, e \in Docs \ missed :
        /\ d # e /\ Body[d] = Body[e]
        /\ row[d].status = "PROCESSED" /\ row[e].status = "PROCESSED"
        => ~(row[d].hashed /\ row[e].hashed)

\* Bounded queues and joins never wait on each other for ever: a pass ends,
\* unless a process worker died of a FAILED row it could not write.
BatchEnds ==
    phase # "idle" ~> (phase = "idle" \/ \E w \in Workers : at[w] = "dead")

=============================================================================
