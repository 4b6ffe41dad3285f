---------------------------- MODULE PipelineGate ----------------------------
(***************************************************************************)
(* The shared `pipeline_status` record of one workspace and every task     *)
(* that coordinates through it: uploads and inserts, directory scans, the  *)
(* document-processing loop, batch deletion, clearing, re-ingestion, the   *)
(* webhook deletion, cancellation and per-document stop.                   *)
(*                                                                         *)
(* One action is one `async with pipeline_status_lock` section, or one     *)
(* storage operation between two such sections.  A document stands for a   *)
(* canonical file name: `status` is its doc_status row, `full_docs` the    *)
(* set of names whose content row exists.                                  *)
(***************************************************************************)
EXTENDS Naturals, FiniteSets

CONSTANTS
    Docs,         \* canonical document names
    Tasks,        \* request handlers and their background tasks
    Kind,         \* what each task is
    Faults,       \* the failures that may happen, see FaultNames
    CancelAllowed,\* may a user press "cancel"?
    MaxArrivals   \* bound on the requests accepted in one behaviour

KindNames == {"upload", "insert", "scan", "delete", "clear", "reingest",
              "webhook_delete", "reprocess", "stop"}

\* "run": an exception escapes the processing loop or a scan's classification.
\* "pool": madRAGPool.acquire raises because every instance is in use.
\* "preflight": a storage read raises before re-ingestion enters its try.
FaultNames == {"run", "pool", "preflight"}

ASSUME GateAssumption ==
    /\ IsFiniteSet(Tasks)
    /\ Kind \in [Tasks -> KindNames]
    /\ Faults \subseteq FaultNames
    /\ CancelAllowed \in BOOLEAN
    /\ MaxArrivals \in Nat

VARIABLES
    pipeline_status, \* the shared record, every field behind one lock
    status,          \* doc_status: one row per name
    full_docs,       \* names with stored content
    pc,              \* where each task is
    work,            \* names a task still has to treat (snapshot, batch, loop)
    keep,            \* names a task still has to enqueue
    enqueued,        \* tasks that enqueued something and owe a processing call
    resume,          \* scans that found unfinished rows
    arrivals,        \* requests accepted so far
    overridden       \* documents of the running batch whose row somebody
                     \* without the pipeline has written since it was read

docs   == <<status, full_docs>>
locals == <<work, keep, enqueued, resume>>
vars   == <<pipeline_status, docs, pc, locals, arrivals, overridden>>

Statuses == {"absent", "pending", "working", "processed", "failed"}

Labels == {"idle",
           "reserved", "enqueue", "store", "nudge", "release",
           "start", "top", "check", "batch", "exit", "refetch",
           "final_held", "final_released",
           "s_begin", "classify", "s_final",
           "announce", "loop", "d_final", "r_release", "r_final",
           "c_reset", "c_drop", "c_final",
           "x_own", "x_own_final", "x_join", "stop_write", "stop_cancel"}

PipelineStatus == [busy: BOOLEAN, destructive_busy: BOOLEAN,
                   scanning: BOOLEAN, scanning_exclusive: BOOLEAN,
                   pending_enqueues: Nat, request_pending: BOOLEAN,
                   cancellation_requested: BOOLEAN, deleting_job: BOOLEAN]

-----------------------------------------------------------------------------
(* Who holds what, read off the program counters.                          *)

RunLabels         == {"top", "check", "batch", "exit", "refetch", "final_held"}
DestructiveLabels == {"announce", "loop", "d_final", "r_release",
                      "c_reset", "c_drop", "c_final"}
SingleLabels      == {"x_own", "x_own_final"}

Destructive(t) == pc[t] \in DestructiveLabels
OwnsBusy(t)    == pc[t] \in RunLabels \cup DestructiveLabels \cup SingleLabels
Scanning(t)    == Kind[t] = "scan" /\ pc[t] # "idle"
HoldsSlot(t)   == Kind[t] = "upload" /\ pc[t] # "idle"
SlotHolders    == {t \in Tasks : HoldsSlot(t)}

\* The same, as the state of the abstract admission rules.
Gate == INSTANCE Admission WITH
            owners    <- {t \in Tasks : OwnsBusy(t)},
            teardown  <- {t \in Tasks : Destructive(t)},
            slots     <- SlotHolders,
            scanners  <- {t \in Tasks : Scanning(t)},
            exclusive <- {t \in Tasks : pc[t] \in {"s_begin", "classify"}}

-----------------------------------------------------------------------------
Init ==
    /\ pipeline_status =
         [busy |-> FALSE, destructive_busy |-> FALSE, scanning |-> FALSE,
          scanning_exclusive |-> FALSE, pending_enqueues |-> 0,
          request_pending |-> FALSE, cancellation_requested |-> FALSE,
          deleting_job |-> FALSE]
    /\ status    = [d \in Docs |-> "absent"]
    /\ full_docs = {}
    /\ pc        = [t \in Tasks |-> "idle"]
    /\ work      = [t \in Tasks |-> {}]
    /\ keep      = [t \in Tasks |-> {}]
    /\ enqueued  = {}
    /\ resume    = {}
    /\ arrivals  = 0
    /\ overridden = {}

Goto(t, label) == pc' = [pc EXCEPT ![t] = label]

At(t, label) == pc[t] = label

\* A request of kind k reaches an idle handler.
Arrives(t, k) ==
    /\ Kind[t] = k
    /\ At(t, "idle")
    /\ arrivals < MaxArrivals
    /\ arrivals' = arrivals + 1
    /\ UNCHANGED overridden

\* _INFLIGHT_DOC_STATUSES: everything a processing pass picks up.
InFlight == {d \in Docs : status[d] \in {"pending", "working", "failed"}}

-----------------------------------------------------------------------------
(* Uploads: the endpoint reserves a slot, the background task enqueues and *)
(* drives processing, and the slot is given back at the very end.          *)

\* Mutant: the reservation does not look at destructive_busy.
ReserveDuringTeardown(t) ==
    /\ Arrives(t, "upload")
    /\ ~pipeline_status.scanning_exclusive
    /\ pipeline_status' = [pipeline_status EXCEPT !.pending_enqueues = @ + 1]
    /\ Goto(t, "reserved")
    /\ UNCHANGED <<docs, locals>>

ReserveEnqueueSlot(t) ==
    /\ Arrives(t, "upload")
    /\ ~pipeline_status.scanning_exclusive
    /\ ~pipeline_status.destructive_busy
    /\ pipeline_status' = [pipeline_status EXCEPT !.pending_enqueues = @ + 1]
    /\ Goto(t, "reserved")
    /\ UNCHANGED <<docs, locals>>

\* Mutant: a rejected upload returns without giving its slot back.
AcceptUploadLeaks(t) ==
    /\ At(t, "reserved")
    /\ \/ \E d \in Docs : /\ status[d] = "absent"
                          /\ keep' = [keep EXCEPT ![t] = {d}]
                          /\ Goto(t, "enqueue")
       \/ Goto(t, "idle") /\ UNCHANGED keep
    /\ UNCHANGED <<pipeline_status, docs, work, enqueued, resume, arrivals, overridden>>

\* The strict name check and the validation of the body.
AcceptUpload(t) ==
    /\ At(t, "reserved")
    /\ \/ \E d \in Docs : /\ status[d] = "absent"
                          /\ keep' = [keep EXCEPT ![t] = {d}]
                          /\ Goto(t, "enqueue")
       \/ Goto(t, "release") /\ UNCHANGED keep
    /\ UNCHANGED <<pipeline_status, docs, work, enqueued, resume, arrivals, overridden>>

\* Both release sites first take an instance from the pool, which may raise.
ReleaseEnqueueSlot(t) ==
    /\ At(t, "release")
    /\ \/ pipeline_status' = [pipeline_status EXCEPT !.pending_enqueues =
                                IF @ > 0 THEN @ - 1 ELSE @]
       \/ "pool" \in Faults /\ UNCHANGED pipeline_status
    /\ Goto(t, "idle")
    /\ UNCHANGED <<docs, locals, arrivals, overridden>>

\* Webhook upserts and direct `ainsert` calls enqueue without a slot.
Insert(t) ==
    /\ Arrives(t, "insert")
    /\ \E d \in Docs : keep' = [keep EXCEPT ![t] = {d}]
    /\ Goto(t, "enqueue")
    /\ UNCHANGED <<pipeline_status, docs, work, enqueued, resume>>

-----------------------------------------------------------------------------
(* apipeline_enqueue_documents, one name at a time.                        *)

EnqueueBlocked(t) ==
    \/ Kind[t] # "scan" /\ pipeline_status.scanning_exclusive
    \/ pipeline_status.destructive_busy

EnqueueGuard(t) ==
    /\ At(t, "enqueue")
    /\ ~EnqueueBlocked(t)
    /\ \E d \in keep[t] : /\ keep' = [keep EXCEPT ![t] = @ \ {d}]
                          /\ work' = [work EXCEPT ![t] = {d}]
    /\ Goto(t, "store")
    /\ UNCHANGED <<pipeline_status, docs, enqueued, resume, arrivals, overridden>>

\* The guard raised, or the extraction failed; for a file this leaves a FAILED
\* stub without content.
EnqueueError(t) ==
    /\ At(t, "enqueue")
    /\ \E d \in keep[t] :
         /\ keep'   = [keep EXCEPT ![t] = @ \ {d}]
         /\ \/ status[d] = "absent" /\ status' = [status EXCEPT ![d] = "failed"]
            \/ UNCHANGED status
    /\ UNCHANGED <<pipeline_status, full_docs, pc, work, enqueued, resume, arrivals, overridden>>

\* Under enqueue_serialize: filter known names, then content, then status.
EnqueueStore(t) ==
    /\ At(t, "store")
    /\ \E d \in work[t] :
         IF status[d] = "absent"
         THEN /\ full_docs' = full_docs \cup {d}
              /\ status'    = [status EXCEPT ![d] = "pending"]
              /\ Goto(t, "nudge")
         ELSE UNCHANGED docs /\ Goto(t, "enqueue")
    /\ work' = [work EXCEPT ![t] = {}]
    /\ UNCHANGED <<pipeline_status, keep, enqueued, resume, arrivals, overridden>>

EnqueueNudge(t) ==
    /\ At(t, "nudge")
    /\ pipeline_status' = [pipeline_status EXCEPT !.request_pending =
                             @ \/ pipeline_status.busy]
    /\ enqueued' = enqueued \cup {t}
    /\ Goto(t, "enqueue")
    /\ UNCHANGED <<docs, work, keep, resume, arrivals, overridden>>

\* What a task does once its processing call has returned, or was not due.
AfterProcess(t) ==
    LET next == CASE Kind[t] = "upload"   -> "release"
                  [] Kind[t] = "reingest" -> "r_final"
                  [] Kind[t] = "scan"     -> IF t \in resume THEN "start" ELSE "s_final"
                  [] OTHER                -> "idle"
    IN  Goto(t, next) /\ resume' = resume \ {t}

EnqueueDone(t) ==
    /\ At(t, "enqueue")
    /\ keep[t] = {}
    /\ enqueued' = enqueued \ {t}
    /\ IF t \in enqueued THEN Goto(t, "start") /\ UNCHANGED resume
                         ELSE AfterProcess(t)
    /\ UNCHANGED <<pipeline_status, docs, work, keep, arrivals, overridden>>

-----------------------------------------------------------------------------
(* apipeline_process_enqueue_documents.  While a task runs it, work[t] is  *)
(* its snapshot and keep[t] first the part of it that was not PENDING when *)
(* it was read, then the documents a worker has taken up.                  *)

Snapshot(t) ==
    /\ work' = [work EXCEPT ![t] = InFlight]
    /\ keep' = [keep EXCEPT ![t] = {d \in InFlight : status[d] # "pending"}]
    /\ overridden' = {}

\* A stop or a webhook deletion writes a row: a batch that has it goes on with
\* what it read.
Override(d) ==
    overridden' = IF \E u \in Tasks : pc[u] \in {"top", "check", "batch"} /\ d \in work[u]
                  THEN overridden \cup {d} ELSE overridden

ProcessStart(t) ==
    /\ At(t, "start")
    /\ UNCHANGED <<docs, enqueued, arrivals>>
    /\ \/ /\ pipeline_status.busy
          /\ pipeline_status' = [pipeline_status EXCEPT !.request_pending = TRUE]
          /\ AfterProcess(t)
          /\ UNCHANGED <<work, keep, overridden>>
       \/ /\ ~pipeline_status.busy
          /\ InFlight = {}
          /\ AfterProcess(t)
          /\ UNCHANGED <<pipeline_status, work, keep, overridden>>
       \/ /\ ~pipeline_status.busy
          /\ InFlight # {}
          /\ Snapshot(t)
          /\ pipeline_status' = [pipeline_status EXCEPT
               !.busy = TRUE, !.request_pending = FALSE,
               !.cancellation_requested = FALSE, !.deleting_job = FALSE]
          /\ Goto(t, "top")
          /\ UNCHANGED resume

\* The loop head: leave on cancellation, else see whether there is work.
ProcessTop(t) ==
    /\ At(t, "top")
    /\ IF pipeline_status.cancellation_requested
       THEN /\ pipeline_status' = [pipeline_status EXCEPT
                 !.request_pending = FALSE, !.cancellation_requested = FALSE]
            /\ work' = [work EXCEPT ![t] = {}]
            /\ keep' = [keep EXCEPT ![t] = {}]
            /\ Goto(t, "final_held")
       ELSE /\ Goto(t, IF work[t] = {} THEN "exit" ELSE "check")
            /\ UNCHANGED <<pipeline_status, work, keep>>
    /\ UNCHANGED <<docs, enqueued, resume, arrivals, overridden>>

\* Mutant: valid rows keep the status an interrupted run left them with.
ProcessCheckNoReset(t) ==
    LET valid == work[t] \cap full_docs
    IN  /\ At(t, "check")
        /\ work' = [work EXCEPT ![t] = valid]
        /\ keep' = [keep EXCEPT ![t] = {}]
        /\ Goto(t, IF valid = {} THEN "exit" ELSE "batch")
        /\ UNCHANGED <<pipeline_status, status, full_docs, enqueued, resume, arrivals, overridden>>

\* _validate_and_fix_document_consistency
ProcessCheck(t) ==
    LET valid        == work[t] \cap full_docs
        preserved    == {d \in keep[t] \ full_docs : status[d] = "failed"}
        inconsistent == (work[t] \ full_docs) \ preserved
    IN  /\ At(t, "check")
        /\ status' = [d \in Docs |->
                        IF d \in inconsistent THEN "absent"
                        ELSE IF d \in keep[t] \cap full_docs THEN "pending"
                        ELSE status[d]]
        /\ work' = [work EXCEPT ![t] = valid]
        /\ keep' = [keep EXCEPT ![t] = {}]
        /\ Goto(t, IF valid = {} THEN "exit" ELSE "batch")
        /\ UNCHANGED <<pipeline_status, full_docs, enqueued, resume, arrivals, overridden>>

\* A worker takes a document of the batch, whatever its row says by now.
BatchTake(t) ==
    /\ At(t, "batch")
    /\ ~pipeline_status.cancellation_requested
    /\ \E d \in work[t] \ keep[t] :
         /\ status' = [status EXCEPT ![d] = "working"]
         /\ keep'   = [keep EXCEPT ![t] = @ \cup {d}]
    /\ UNCHANGED <<pipeline_status, full_docs, pc, work, enqueued, resume, arrivals, overridden>>

\* It succeeds, fails, or is found a content duplicate after parsing.
BatchFinish(t) ==
    /\ At(t, "batch")
    /\ \E d \in keep[t] :
         /\ \/ status' = [status EXCEPT ![d] = "processed"] /\ UNCHANGED full_docs
            \/ status' = [status EXCEPT ![d] = "failed"] /\ UNCHANGED full_docs
            \/ /\ status' = [status EXCEPT ![d] = "failed"]
               /\ full_docs' = full_docs \ {d}
         /\ work' = [work EXCEPT ![t] = @ \ {d}]
         /\ keep' = [keep EXCEPT ![t] = @ \ {d}]
    /\ UNCHANGED <<pipeline_status, pc, enqueued, resume, arrivals, overridden>>

\* A document still queued when cancellation is seen is marked FAILED.
BatchSkip(t) ==
    /\ At(t, "batch")
    /\ pipeline_status.cancellation_requested
    /\ \E d \in work[t] \ keep[t] :
         /\ status' = [status EXCEPT ![d] = "failed"]
         /\ work'   = [work EXCEPT ![t] = @ \ {d}]
    /\ UNCHANGED <<pipeline_status, full_docs, pc, keep, enqueued, resume, arrivals, overridden>>

BatchDone(t) ==
    /\ At(t, "batch")
    /\ work[t] = {}
    /\ Goto(t, "exit")
    /\ UNCHANGED <<pipeline_status, docs, locals, arrivals, overridden>>

\* Mutant: the flag is tested here and `busy` is lowered in the finally block.
ProcessExitInTwoSteps(t) ==
    /\ At(t, "exit")
    /\ IF pipeline_status.request_pending
       THEN /\ pipeline_status' = [pipeline_status EXCEPT !.request_pending = FALSE]
            /\ Goto(t, "refetch")
       ELSE UNCHANGED pipeline_status /\ Goto(t, "final_held")
    /\ UNCHANGED <<docs, locals, arrivals, overridden>>

\* _atomic_release_busy_or_consume_pending
ProcessExit(t) ==
    /\ At(t, "exit")
    /\ IF pipeline_status.request_pending
       THEN /\ pipeline_status' = [pipeline_status EXCEPT !.request_pending = FALSE]
            /\ Goto(t, "refetch")
       ELSE /\ pipeline_status' = [pipeline_status EXCEPT !.busy = FALSE]
            /\ Goto(t, "final_released")
    /\ UNCHANGED <<docs, locals, arrivals, overridden>>

ProcessRefetch(t) ==
    /\ At(t, "refetch")
    /\ Snapshot(t)
    /\ Goto(t, "top")
    /\ UNCHANGED <<pipeline_status, docs, enqueued, resume, arrivals>>

ProcessFault(t) ==
    /\ "run" \in Faults
    /\ pc[t] \in {"check", "batch", "refetch"}
    /\ work' = [work EXCEPT ![t] = {}]
    /\ keep' = [keep EXCEPT ![t] = {}]
    /\ Goto(t, "final_held")
    /\ UNCHANGED <<pipeline_status, docs, enqueued, resume, arrivals, overridden>>

\* Mutant: the finally block lowers `busy` even when the loop has released it.
ProcessFinalClobbers(t) ==
    /\ pc[t] \in {"final_held", "final_released"}
    /\ pipeline_status' = [pipeline_status EXCEPT
         !.busy = FALSE, !.cancellation_requested = FALSE]
    /\ AfterProcess(t)
    /\ UNCHANGED <<docs, work, keep, enqueued, arrivals, overridden>>

\* Mutant: only the regular exit lowers `busy`, not the finally block.
ProcessFinalKeepsBusy(t) ==
    /\ pc[t] \in {"final_held", "final_released"}
    /\ pipeline_status' = [pipeline_status EXCEPT !.cancellation_requested = FALSE]
    /\ AfterProcess(t)
    /\ UNCHANGED <<docs, work, keep, enqueued, arrivals, overridden>>

\* The finally block, a critical section of its own.
ProcessFinal(t) ==
    /\ pc[t] \in {"final_held", "final_released"}
    /\ pipeline_status' = [pipeline_status EXCEPT
         !.busy = IF At(t, "final_held") THEN FALSE ELSE @,
         !.cancellation_requested = FALSE]
    /\ AfterProcess(t)
    /\ UNCHANGED <<docs, work, keep, enqueued, arrivals, overridden>>

Reprocess(t) ==
    /\ Arrives(t, "reprocess")
    /\ Goto(t, "start")
    /\ UNCHANGED <<pipeline_status, docs, locals>>

-----------------------------------------------------------------------------
(* Directory scan.                                                         *)

\* Mutant: a scan does not wait for uploads that were accepted before it.
ScanBeginEarly(t) ==
    /\ Arrives(t, "scan")
    /\ ~pipeline_status.busy
    /\ ~pipeline_status.scanning
    /\ pipeline_status' = [pipeline_status EXCEPT
         !.scanning = TRUE, !.scanning_exclusive = TRUE]
    /\ Goto(t, "s_begin")
    /\ UNCHANGED <<docs, locals>>

ScanBegin(t) ==
    /\ Arrives(t, "scan")
    /\ ~pipeline_status.busy
    /\ ~pipeline_status.scanning
    /\ pipeline_status.pending_enqueues = 0
    /\ pipeline_status' = [pipeline_status EXCEPT
         !.scanning = TRUE, !.scanning_exclusive = TRUE]
    /\ Goto(t, "s_begin")
    /\ UNCHANGED <<docs, locals>>

\* The background task takes an instance outside its try, then lists files.
\* A directory without new files makes the scan drive the queue directly.
ScanList(t) ==
    /\ At(t, "s_begin")
    /\ \/ \E files \in SUBSET Docs :
            /\ work'   = [work EXCEPT ![t] = files]
            /\ resume' = IF files = {} THEN resume \cup {t} ELSE resume
            /\ Goto(t, "classify")
       \/ "pool" \in Faults /\ Goto(t, "idle") /\ UNCHANGED <<work, resume>>
    /\ UNCHANGED <<pipeline_status, docs, keep, enqueued, arrivals, overridden>>

\* PROCESSED files are archived, FAILED stubs dropped and treated as new,
\* other known names left to the resume logic, unknown names enqueued.
ScanClassify(t) ==
    /\ At(t, "classify")
    /\ \E d \in work[t] :
         LET stub  == status[d] = "failed" /\ d \notin full_docs
             fresh == status[d] = "absent" \/ stub
         IN  /\ work'   = [work EXCEPT ![t] = @ \ {d}]
             /\ keep'   = IF fresh THEN [keep EXCEPT ![t] = @ \cup {d}] ELSE keep
             /\ status' = IF stub THEN [status EXCEPT ![d] = "absent"] ELSE status
             /\ resume' = IF fresh \/ status[d] = "processed"
                          THEN resume ELSE resume \cup {t}
    /\ UNCHANGED <<pipeline_status, full_docs, pc, enqueued, arrivals, overridden>>

ScanClassified(t) ==
    /\ At(t, "classify")
    /\ work[t] = {}
    /\ pipeline_status' = [pipeline_status EXCEPT !.scanning_exclusive = FALSE]
    /\ Goto(t, "enqueue")
    /\ UNCHANGED <<docs, locals, arrivals, overridden>>

\* A storage read fails: the scan gives up with both flags still raised.
ScanFault(t) ==
    /\ "run" \in Faults
    /\ At(t, "classify")
    /\ work'   = [work EXCEPT ![t] = {}]
    /\ keep'   = [keep EXCEPT ![t] = {}]
    /\ resume' = resume \ {t}
    /\ Goto(t, "s_final")
    /\ UNCHANGED <<pipeline_status, docs, enqueued, arrivals, overridden>>

ScanFinish(t) ==
    /\ At(t, "s_final")
    /\ pipeline_status' = [pipeline_status EXCEPT
         !.scanning = FALSE, !.scanning_exclusive = FALSE]
    /\ Goto(t, "idle")
    /\ UNCHANGED <<docs, locals, arrivals, overridden>>

-----------------------------------------------------------------------------
(* Batch deletion, re-ingestion and clearing.                              *)

\* Mutant: a teardown looks at `busy` only.
AcquireBusyOnly(t) ==
    /\ \E k \in {"delete", "clear", "reingest"} : Arrives(t, k)
    /\ ~pipeline_status.busy
    /\ pipeline_status' = [pipeline_status EXCEPT
         !.busy = TRUE, !.destructive_busy = TRUE]
    /\ IF Kind[t] = "clear"
       THEN Goto(t, "c_reset") /\ UNCHANGED work
       ELSE /\ \E targets \in (SUBSET Docs) \ {{}} : work' = [work EXCEPT ![t] = targets]
            /\ Goto(t, "announce")
    /\ UNCHANGED <<docs, keep, enqueued, resume>>

\* _acquire_destructive_busy, called by the three endpoints.
AcquireDestructiveBusy(t) ==
    /\ \E k \in {"delete", "clear", "reingest"} : Arrives(t, k)
    /\ ~pipeline_status.busy
    /\ ~pipeline_status.scanning
    /\ pipeline_status.pending_enqueues = 0
    /\ pipeline_status' = [pipeline_status EXCEPT
         !.busy = TRUE, !.destructive_busy = TRUE]
    /\ IF Kind[t] = "clear"
       THEN Goto(t, "c_reset") /\ UNCHANGED work
       ELSE /\ \E targets \in (SUBSET Docs) \ {{}} : work' = [work EXCEPT ![t] = targets]
            /\ Goto(t, "announce")
    /\ UNCHANGED <<docs, keep, enqueued, resume>>

\* Re-ingestion then validates its files; a failing read escapes its task.
Announce(t) ==
    /\ At(t, "announce")
    /\ pipeline_status' = [pipeline_status EXCEPT !.deleting_job = TRUE]
    /\ \/ Goto(t, "loop") /\ UNCHANGED work
       \/ /\ Kind[t] = "reingest"
          /\ \E valid \in SUBSET work[t] : work' = [work EXCEPT ![t] = valid]
          /\ Goto(t, "loop")
       \/ /\ Kind[t] = "reingest"
          /\ "preflight" \in Faults
          /\ work' = [work EXCEPT ![t] = {}]
          /\ Goto(t, "idle")
    /\ UNCHANGED <<docs, keep, enqueued, resume, arrivals, overridden>>

\* adelete_by_doc_id seen from outside: both rows go, or ...
Deleted(d) == /\ status[d] # "absent"
              /\ status' = [status EXCEPT ![d] = "absent"]
              /\ full_docs' = full_docs \ {d}

\* ... the row is kept for a retry, or the last stage loses only the content.
NotDeleted(d) == /\ status' \in {status, [status EXCEPT ![d] = "absent"]}
                 /\ UNCHANGED full_docs

DeleteOne(t) ==
    /\ At(t, "loop")
    /\ ~pipeline_status.cancellation_requested
    /\ \E d \in work[t] :
         /\ work' = [work EXCEPT ![t] = @ \ {d}]
         /\ \/ /\ Deleted(d)
               /\ keep' = IF Kind[t] = "reingest"
                          THEN [keep EXCEPT ![t] = @ \cup {d}] ELSE keep
            \/ NotDeleted(d) /\ UNCHANGED keep
    /\ UNCHANGED <<pipeline_status, pc, enqueued, resume, arrivals, overridden>>

DeleteLoopDone(t) ==
    /\ At(t, "loop")
    /\ pipeline_status.cancellation_requested \/ work[t] = {}
    /\ work' = [work EXCEPT ![t] = {}]
    /\ Goto(t, IF Kind[t] = "reingest" THEN "r_release" ELSE "d_final")
    /\ UNCHANGED <<pipeline_status, docs, keep, enqueued, resume, arrivals, overridden>>

\* Mutant: the finally block of a batch deletion forgets destructive_busy.
DeleteFinalPartly(t) ==
    /\ At(t, "d_final")
    /\ pipeline_status' = [pipeline_status EXCEPT !.busy = FALSE,
         !.cancellation_requested = FALSE]
    /\ Goto(t, IF pipeline_status.request_pending THEN "start" ELSE "idle")
    /\ UNCHANGED <<docs, locals, arrivals, overridden>>

DeleteFinal(t) ==
    /\ At(t, "d_final")
    /\ pipeline_status' = [pipeline_status EXCEPT !.busy = FALSE,
         !.destructive_busy = FALSE, !.cancellation_requested = FALSE]
    /\ Goto(t, IF pipeline_status.request_pending THEN "start" ELSE "idle")
    /\ UNCHANGED <<docs, locals, arrivals, overridden>>

ReingestRelease(t) ==
    /\ At(t, "r_release")
    /\ pipeline_status' = [pipeline_status EXCEPT !.busy = FALSE,
         !.destructive_busy = FALSE]
    /\ Goto(t, "enqueue")
    /\ UNCHANGED <<docs, locals, arrivals, overridden>>

ReingestFinal(t) ==
    /\ At(t, "r_final")
    /\ pipeline_status' = [pipeline_status EXCEPT !.cancellation_requested = FALSE]
    /\ Goto(t, "idle")
    /\ UNCHANGED <<docs, locals, arrivals, overridden>>

ClearReset(t) ==
    /\ At(t, "c_reset")
    /\ pipeline_status' = [pipeline_status EXCEPT
         !.request_pending = FALSE, !.deleting_job = FALSE]
    /\ Goto(t, "c_drop")
    /\ UNCHANGED <<docs, locals, arrivals, overridden>>

\* Every storage is dropped concurrently and each drop may fail on its own.
ClearDrop(t) ==
    /\ At(t, "c_drop")
    /\ status' \in {status, [d \in Docs |-> "absent"]}
    /\ full_docs' \in {full_docs, {}}
    /\ Goto(t, "c_final")
    /\ UNCHANGED <<pipeline_status, locals, arrivals, overridden>>

ClearFinal(t) ==
    /\ At(t, "c_final")
    /\ pipeline_status' = [pipeline_status EXCEPT !.busy = FALSE,
         !.destructive_busy = FALSE]
    /\ Goto(t, "idle")
    /\ UNCHANGED <<docs, locals, arrivals, overridden>>

-----------------------------------------------------------------------------
(* The single deletion a webhook asks for: it takes the pipeline when idle *)
(* (only `busy`, not `destructive_busy`), joins a running batch deletion,  *)
(* and is refused while anything else runs.                                *)

WebhookDelete(t) ==
    /\ Arrives(t, "webhook_delete")
    /\ \E d \in Docs : /\ status[d] # "absent"
                       /\ work' = [work EXCEPT ![t] = {d}]
    /\ IF pipeline_status.busy
       THEN /\ pipeline_status.deleting_job
            /\ Goto(t, "x_join")
            /\ UNCHANGED pipeline_status
       ELSE /\ pipeline_status' = [pipeline_status EXCEPT !.busy = TRUE,
                 !.request_pending = FALSE, !.cancellation_requested = FALSE,
                 !.deleting_job = FALSE]
            /\ Goto(t, "x_own")
    /\ UNCHANGED <<docs, keep, enqueued, resume>>

WebhookRemove(t) ==
    /\ pc[t] \in {"x_own", "x_join"}
    /\ \E d \in work[t] : (Deleted(d) \/ NotDeleted(d)) /\ Override(d)
    /\ work' = [work EXCEPT ![t] = {}]
    /\ Goto(t, IF At(t, "x_own") THEN "x_own_final" ELSE "idle")
    /\ UNCHANGED <<pipeline_status, keep, enqueued, resume, arrivals>>

WebhookRelease(t) ==
    /\ At(t, "x_own_final")
    /\ pipeline_status' = [pipeline_status EXCEPT !.busy = FALSE,
         !.cancellation_requested = FALSE]
    /\ Goto(t, "idle")
    /\ UNCHANGED <<docs, locals, arrivals, overridden>>

-----------------------------------------------------------------------------
(* Cancellation and the per-document stop.                                 *)

CancelPipeline ==
    /\ CancelAllowed
    /\ pipeline_status.busy
    /\ pipeline_status' = [pipeline_status EXCEPT !.cancellation_requested = TRUE]
    /\ UNCHANGED <<docs, pc, locals, arrivals, overridden>>

\* The row is read without a lock ...
StopRead(t) ==
    /\ Arrives(t, "stop")
    /\ \E d \in Docs :
         \/ /\ status[d] = "pending"
            /\ work' = [work EXCEPT ![t] = {d}]
            /\ Goto(t, "stop_write")
         \/ /\ status[d] = "working"
            /\ Goto(t, "stop_cancel")
            /\ UNCHANGED work
    /\ UNCHANGED <<pipeline_status, docs, keep, enqueued, resume>>

\* ... and what was read is written back as FAILED, "Stopped by user".
StopWrite(t) ==
    /\ At(t, "stop_write")
    /\ \E d \in work[t] : status' = [status EXCEPT ![d] = "failed"] /\ Override(d)
    /\ work' = [work EXCEPT ![t] = {}]
    /\ Goto(t, "idle")
    /\ UNCHANGED <<pipeline_status, full_docs, keep, enqueued, resume, arrivals>>

\* A document under way is stopped by cancelling whatever runs by now.
StopCancel(t) ==
    /\ At(t, "stop_cancel")
    /\ pipeline_status' = [pipeline_status EXCEPT
         !.cancellation_requested = @ \/ pipeline_status.busy]
    /\ Goto(t, "idle")
    /\ UNCHANGED <<docs, locals, arrivals, overridden>>

-----------------------------------------------------------------------------
Request(t) ==
    \/ ReserveEnqueueSlot(t) \/ Insert(t) \/ Reprocess(t) \/ ScanBegin(t)
    \/ AcquireDestructiveBusy(t) \/ WebhookDelete(t) \/ StopRead(t)

Upload(t) == AcceptUpload(t) \/ ReleaseEnqueueSlot(t)

Enqueue(t) ==
    \/ EnqueueGuard(t) \/ EnqueueError(t) \/ EnqueueStore(t)
    \/ EnqueueNudge(t) \/ EnqueueDone(t)

Process(t) ==
    \/ ProcessStart(t) \/ ProcessTop(t) \/ ProcessCheck(t)
    \/ BatchTake(t) \/ BatchFinish(t) \/ BatchSkip(t) \/ BatchDone(t)
    \/ ProcessExit(t) \/ ProcessRefetch(t) \/ ProcessFault(t) \/ ProcessFinal(t)

Scan(t) ==
    \/ ScanList(t) \/ ScanClassify(t) \/ ScanClassified(t)
    \/ ScanFault(t) \/ ScanFinish(t)

Destroy(t) ==
    \/ Announce(t) \/ DeleteOne(t) \/ DeleteLoopDone(t) \/ DeleteFinal(t)
    \/ ReingestRelease(t) \/ ReingestFinal(t)
    \/ ClearReset(t) \/ ClearDrop(t) \/ ClearFinal(t)

Webhook(t) == WebhookRemove(t) \/ WebhookRelease(t)

Stop(t) == StopWrite(t) \/ StopCancel(t)

\* What a task does on its own once its request was accepted.
Progress(t) ==
    \/ Upload(t) \/ Enqueue(t) \/ Process(t) \/ Scan(t)
    \/ Destroy(t) \/ Webhook(t) \/ Stop(t)

Next == CancelPipeline \/ \E t \in Tasks : Request(t) \/ Progress(t)

Spec == Init /\ [][Next]_vars

\* The event loop runs every ready task; users owe the server nothing.
FairSpec == Spec /\ \A t \in Tasks : WF_vars(Progress(t))

-----------------------------------------------------------------------------
(* Properties.                                                             *)

\* Types; in particular the reservation counter never goes negative.
TypeOK ==
    /\ pipeline_status \in PipelineStatus
    /\ status \in [Docs -> Statuses]
    /\ full_docs \subseteq Docs
    /\ pc \in [Tasks -> Labels]
    /\ work \in [Tasks -> SUBSET Docs]
    /\ keep \in [Tasks -> SUBSET Docs]
    /\ enqueued \subseteq Tasks
    /\ resume \subseteq Tasks
    /\ arrivals \in Nat
    /\ overridden \subseteq Docs

\* At most one task ever believes it runs the pipeline, and the flag says so:
\* the conditional release in the loop's finally never frees a slot that a
\* newer run, a batch deletion or a webhook deletion has taken meanwhile.
OneOwner ==
    /\ \A t \in Tasks : OwnsBusy(t) => pipeline_status.busy
    /\ \A t, u \in Tasks : OwnsBusy(t) /\ OwnsBusy(u) => t = u

\* While storages are torn down no accepted upload is under way and no scan is
\* classifying or processing files (the promise of _acquire_destructive_busy).
TeardownIsolated ==
    \A t, u \in Tasks : Destructive(t) => ~HoldsSlot(u) /\ ~Scanning(u)

\* A client whose upload was accepted, or a scan, is never turned away by the
\* last-line guard of apipeline_enqueue_documents in its background task.
AcceptedWorkNotRefused ==
    \A t \in Tasks : (HoldsSlot(t) \/ Scanning(t)) /\ At(t, "enqueue") => ~EnqueueBlocked(t)

\* The inductive reason for the three invariants above: labels belong to the
\* kinds of task that reach them; the two busy flags agree with the one owner;
\* the scan flags cover the one scan; accepted uploads keep both guards of the
\* enqueue open and are counted, so a zero counter means that there are none.
KindsInPlace ==
    \A t \in Tasks :
      /\ pc[t] \in {"reserved", "release"} => Kind[t] = "upload"
      /\ pc[t] \in {"s_begin", "classify", "s_final"} => Kind[t] = "scan"
      /\ pc[t] \in DestructiveLabels \cup SingleLabels \cup {"x_join", "r_final", "stop_write", "stop_cancel"}
           => Kind[t] \notin {"upload", "scan"}

TeardownFlag ==
    /\ pipeline_status.destructive_busy => pipeline_status.busy
    /\ \A t \in Tasks : OwnsBusy(t) => (Destructive(t) <=> pipeline_status.destructive_busy)

ScanFlags ==
    /\ \A t, u \in Tasks : Scanning(t) /\ Scanning(u) => t = u
    /\ \A t \in Tasks : Scanning(t) => pipeline_status.scanning /\ ~pipeline_status.destructive_busy
    /\ \A t \in Tasks : pc[t] \in {"s_begin", "classify"} => pipeline_status.scanning_exclusive

SlotFlags ==
    \A t \in Tasks : HoldsSlot(t) => /\ ~pipeline_status.destructive_busy
                                    /\ ~pipeline_status.scanning_exclusive

\* The counter may be too high (a slot that leaked) but never too low.
SlotCount == Cardinality(SlotHolders) <= pipeline_status.pending_enqueues

\* The conjunction the proofs carry through every step of Next.
GateInv == KindsInPlace /\ OneOwner /\ TeardownFlag /\ ScanFlags /\ SlotFlags /\ SlotCount

\* The reservation counter is exactly the number of uploads still holding a
\* slot: no path releases twice, and none forgets to.
SlotsAccounted == pipeline_status.pending_enqueues = Cardinality(SlotHolders)

\* Every raised flag has a live task that will lower it.
FlagsHaveOwners ==
    /\ pipeline_status.busy => \E t \in Tasks : OwnsBusy(t)
    /\ pipeline_status.destructive_busy => \E t \in Tasks : Destructive(t)
    /\ pipeline_status.scanning => \E t \in Tasks : Scanning(t)
    /\ pipeline_status.scanning_exclusive => pipeline_status.scanning

\* Somebody is going to look at document d again: a run has it in its batch, a
\* run will read the rows again, or a task is about to start a run.
Attended(d) ==
    \E t \in Tasks :
      \/ pc[t] \in {"top", "check", "batch"} /\ d \in work[t]
      \/ /\ pc[t] \in {"top", "check", "batch", "exit", "loop", "announce", "d_final"}
         /\ pipeline_status.request_pending
      \/ pc[t] \in {"refetch", "nudge", "start"}
      \/ t \in enqueued \cup resume

\* The atomic hand-off: no PENDING document is left without a run that has it,
\* or will see it (pipeline.py:1061-1069).
NoDocumentStranded == \A d \in Docs : status[d] = "pending" => Attended(d)

\* A worker only takes up documents that wait: a row an interrupted or failed
\* run has left half-way, or a stopped one, is PENDING again before a batch runs
\* it.  The exception is real: a document of the running batch is run although
\* a stop or a webhook deletion has written its row since the batch read it.
OnlyPendingTaken ==
    [][\A d \in Docs \ overridden :
         status[d] # "working" /\ status'[d] = "working" => status[d] = "pending"]_vars

\* The flags implement the admission rules.
ImplementsAdmission == Gate!Spec

\* A re-ingestion whose first reads raised has left its flags to nobody.
Leaked == pipeline_status.destructive_busy /\ ~\E t \in Tasks : Destructive(t)

\* The pipeline is released again, whatever happened to the run: it found
\* nothing, was cancelled, raised, or gave way to another owner.
PipelineReleased == pipeline_status.busy ~> ~pipeline_status.busy \/ Leaked

\* A stored document is taken up: it does not stay PENDING for ever.
PendingTreated == \A d \in Docs : status[d] = "pending" ~> status[d] # "pending"
=============================================================================
