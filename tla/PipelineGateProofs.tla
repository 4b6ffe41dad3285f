------------------------- MODULE PipelineGateProofs -------------------------
(* Theorems about PipelineGate for every population of tasks, every set of  *)
(* documents and every combination of faults.                               *)
EXTENDS PipelineGate, FiniteSetTheorems, TLAPS

-----------------------------------------------------------------------------
(* Type correctness.                                                        *)

\* The initial state is well typed.
LEMMA TypeInit == Init => TypeOK
BY GateAssumption DEF Init, TypeOK, PipelineStatus, Statuses, Labels

\* Types are kept by requests and their acceptance.
LEMMA TypeRequest ==
    ASSUME TypeOK, NEW t \in Tasks, Request(t)
    PROVE  TypeOK'
<1>1. CASE ReserveEnqueueSlot(t)
  BY <1>1 DEF ReserveEnqueueSlot, Arrives, TypeOK, PipelineStatus, Statuses, Labels, Goto, At, docs, locals
<1>2. CASE Insert(t)
  BY <1>2 DEF Insert, Arrives, TypeOK, PipelineStatus, Statuses, Labels, Goto, At, docs, locals
<1>3. CASE Reprocess(t)
  BY <1>3 DEF Reprocess, Arrives, TypeOK, PipelineStatus, Statuses, Labels, Goto, At, docs, locals
<1>4. CASE ScanBegin(t)
  <2>1. pipeline_status' \in PipelineStatus
    BY <1>4 DEF ScanBegin, TypeOK, PipelineStatus
  <2>2. pc' \in [Tasks -> Labels]
    BY <1>4 DEF ScanBegin, TypeOK, Labels, Goto
  <2> QED BY <1>4, <2>1, <2>2 DEF ScanBegin, Arrives, TypeOK, Statuses, docs, locals
<1>5. CASE AcquireDestructiveBusy(t)
  <2>1. pipeline_status' \in PipelineStatus
    BY <1>5 DEF AcquireDestructiveBusy, TypeOK, PipelineStatus
  <2>2. pc' \in [Tasks -> Labels]
    BY <1>5 DEF AcquireDestructiveBusy, TypeOK, Labels, Goto
  <2> QED BY <1>5, <2>1, <2>2 DEF AcquireDestructiveBusy, Arrives, TypeOK, Statuses, docs, locals
<1>6. CASE WebhookDelete(t)
  <2>1. pipeline_status' \in PipelineStatus
    BY <1>6, ZenonT(40) DEF WebhookDelete, TypeOK, PipelineStatus
  <2>2. pc' \in [Tasks -> Labels]
    BY <1>6 DEF WebhookDelete, TypeOK, Labels, Goto
  <2>3. work' \in [Tasks -> SUBSET Docs]
    BY <1>6 DEF WebhookDelete, TypeOK
  <2>4. UNCHANGED <<docs, keep, enqueued, resume>> /\ arrivals' = arrivals + 1
    BY <1>6 DEF WebhookDelete, Arrives
  <2>5. overridden' = overridden
    BY <1>6 DEF WebhookDelete, Arrives
  <2> QED BY <2>1, <2>2, <2>3, <2>4, <2>5 DEF TypeOK, docs
<1>7. CASE StopRead(t)
  BY <1>7 DEF StopRead, Arrives, TypeOK, PipelineStatus, Statuses, Labels, Goto, At, docs, locals
<1> QED BY <1>1, <1>2, <1>3, <1>4, <1>5, <1>6, <1>7 DEF Request

\* Types are kept by the upload's own steps.
LEMMA TypeUpload ==
    ASSUME TypeOK, NEW t \in Tasks, Upload(t)
    PROVE  TypeOK'
<1>1. CASE AcceptUpload(t)
  BY <1>1 DEF AcceptUpload, TypeOK, PipelineStatus, Statuses, Labels, Goto, At, docs, locals
<1>2. CASE ReleaseEnqueueSlot(t)
  BY <1>2 DEF ReleaseEnqueueSlot, TypeOK, PipelineStatus, Statuses, Labels, Goto, At, docs, locals
<1> QED BY <1>1, <1>2 DEF Upload

\* Types are kept by the steps of apipeline_enqueue_documents.
LEMMA TypeEnqueue ==
    ASSUME TypeOK, NEW t \in Tasks, Enqueue(t)
    PROVE  TypeOK'
<1>1. CASE EnqueueGuard(t)
  BY <1>1 DEF EnqueueGuard, EnqueueBlocked, TypeOK, PipelineStatus, Statuses, Labels, Goto, At, docs, locals
<1>2. CASE EnqueueError(t)
  BY <1>2 DEF EnqueueError, TypeOK, PipelineStatus, Statuses, Labels, Goto, At, docs, locals
<1>3. CASE EnqueueStore(t)
  BY <1>3 DEF EnqueueStore, TypeOK, PipelineStatus, Statuses, Labels, Goto, At, docs, locals
<1>4. CASE EnqueueNudge(t)
  BY <1>4 DEF EnqueueNudge, TypeOK, PipelineStatus, Statuses, Labels, Goto, At, docs, locals
<1>5. CASE EnqueueDone(t)
  BY <1>5 DEF EnqueueDone, AfterProcess, TypeOK, PipelineStatus, Statuses, Labels, Goto, At, docs, locals
<1> QED BY <1>1, <1>2, <1>3, <1>4, <1>5 DEF Enqueue

\* Types are kept by the steps of the processing loop.
LEMMA TypeProcess ==
    ASSUME TypeOK, NEW t \in Tasks, Process(t)
    PROVE  TypeOK'
<1>1. CASE ProcessStart(t)
  <2>1. pipeline_status' \in PipelineStatus
    BY <1>1 DEF ProcessStart, TypeOK, PipelineStatus
  <2>2. pc' \in [Tasks -> Labels]
    BY <1>1 DEF ProcessStart, AfterProcess, TypeOK, Labels, Goto
  <2> QED BY <1>1, <2>1, <2>2 DEF ProcessStart, AfterProcess, Snapshot, InFlight, TypeOK, Statuses, docs, locals
<1>2. CASE ProcessTop(t)
  <2>1. pipeline_status' \in PipelineStatus
    BY <1>2 DEF ProcessTop, TypeOK, PipelineStatus
  <2>2. pc' \in [Tasks -> Labels]
    BY <1>2 DEF ProcessTop, TypeOK, Labels, Goto
  <2> QED BY <1>2, <2>1, <2>2 DEF ProcessTop, TypeOK, Statuses, docs, locals
<1>3. CASE ProcessCheck(t)
  BY <1>3 DEF ProcessCheck, TypeOK, PipelineStatus, Statuses, Labels, Goto, At, docs, locals
<1>4. CASE BatchTake(t)
  BY <1>4 DEF BatchTake, TypeOK, PipelineStatus, Statuses, Labels, Goto, At, docs, locals
<1>5. CASE BatchFinish(t)
  BY <1>5 DEF BatchFinish, TypeOK, PipelineStatus, Statuses, Labels, Goto, At, docs, locals
<1>6. CASE BatchSkip(t)
  BY <1>6 DEF BatchSkip, TypeOK, PipelineStatus, Statuses, Labels, Goto, At, docs, locals
<1>7. CASE BatchDone(t)
  BY <1>7 DEF BatchDone, TypeOK, PipelineStatus, Statuses, Labels, Goto, At, docs, locals
<1>8. CASE ProcessExit(t)
  <2>1. pipeline_status' \in PipelineStatus
    BY <1>8 DEF ProcessExit, TypeOK, PipelineStatus
  <2>2. pc' \in [Tasks -> Labels]
    BY <1>8 DEF ProcessExit, TypeOK, Labels, Goto
  <2> QED BY <1>8, <2>1, <2>2 DEF ProcessExit, TypeOK, Statuses, docs, locals
<1>9. CASE ProcessRefetch(t)
  BY <1>9 DEF ProcessRefetch, Snapshot, InFlight, TypeOK, PipelineStatus, Statuses, Labels, Goto, At, docs, locals
<1>10. CASE ProcessFault(t)
  BY <1>10 DEF ProcessFault, TypeOK, PipelineStatus, Statuses, Labels, Goto, At, docs, locals
<1>11. CASE ProcessFinal(t)
  BY <1>11 DEF ProcessFinal, AfterProcess, TypeOK, PipelineStatus, Statuses, Labels, Goto, At, docs, locals
<1> QED BY <1>1, <1>2, <1>3, <1>4, <1>5, <1>6, <1>7, <1>8, <1>9, <1>10, <1>11 DEF Process

\* Types are kept by the steps of a scan.
LEMMA TypeScan ==
    ASSUME TypeOK, NEW t \in Tasks, Scan(t)
    PROVE  TypeOK'
<1>1. CASE ScanList(t)
  BY <1>1 DEF ScanList, TypeOK, PipelineStatus, Statuses, Labels, Goto, At, docs, locals
<1>2. CASE ScanClassify(t)
  BY <1>2 DEF ScanClassify, TypeOK, PipelineStatus, Statuses, Labels, Goto, At, docs, locals
<1>3. CASE ScanClassified(t)
  BY <1>3 DEF ScanClassified, TypeOK, PipelineStatus, Statuses, Labels, Goto, At, docs, locals
<1>4. CASE ScanFinish(t)
  BY <1>4 DEF ScanFinish, TypeOK, PipelineStatus, Statuses, Labels, Goto, At, docs, locals
<1>5. CASE ScanFault(t)
  BY <1>5 DEF ScanFault, TypeOK, PipelineStatus, Statuses, Labels, Goto, At, docs, locals
<1> QED BY <1>1, <1>2, <1>3, <1>4, <1>5 DEF Scan

\* Types are kept by the steps of deletion, re-ingestion and clear.
LEMMA TypeDestroy ==
    ASSUME TypeOK, NEW t \in Tasks, Destroy(t)
    PROVE  TypeOK'
<1>1. CASE Announce(t)
  <2>1. pipeline_status' \in PipelineStatus
    BY <1>1 DEF Announce, TypeOK, PipelineStatus
  <2>2. pc' \in [Tasks -> Labels]
    BY <1>1 DEF Announce, TypeOK, Labels, Goto
  <2> QED BY <1>1, <2>1, <2>2 DEF Announce, TypeOK, Statuses, docs, locals
<1>2. CASE DeleteOne(t)
  BY <1>2 DEF DeleteOne, Deleted, NotDeleted, TypeOK, PipelineStatus, Statuses, Labels, Goto, At, docs, locals
<1>3. CASE DeleteLoopDone(t)
  BY <1>3 DEF DeleteLoopDone, TypeOK, PipelineStatus, Statuses, Labels, Goto, At, docs, locals
<1>4. CASE DeleteFinal(t)
  BY <1>4 DEF DeleteFinal, TypeOK, PipelineStatus, Statuses, Labels, Goto, At, docs, locals
<1>5. CASE ReingestRelease(t)
  BY <1>5 DEF ReingestRelease, TypeOK, PipelineStatus, Statuses, Labels, Goto, At, docs, locals
<1>6. CASE ReingestFinal(t)
  BY <1>6 DEF ReingestFinal, TypeOK, PipelineStatus, Statuses, Labels, Goto, At, docs, locals
<1>7. CASE ClearReset(t)
  BY <1>7 DEF ClearReset, TypeOK, PipelineStatus, Statuses, Labels, Goto, At, docs, locals
<1>8. CASE ClearDrop(t)
  BY <1>8 DEF ClearDrop, TypeOK, PipelineStatus, Statuses, Labels, Goto, At, docs, locals
<1>9. CASE ClearFinal(t)
  BY <1>9 DEF ClearFinal, TypeOK, PipelineStatus, Statuses, Labels, Goto, At, docs, locals
<1> QED BY <1>1, <1>2, <1>3, <1>4, <1>5, <1>6, <1>7, <1>8, <1>9 DEF Destroy

\* Types are kept by the steps of a webhook deletion.
LEMMA TypeWebhook ==
    ASSUME TypeOK, NEW t \in Tasks, Webhook(t)
    PROVE  TypeOK'
<1>1. CASE WebhookRemove(t)
  <2>1. PICK d \in work[t] : (Deleted(d) \/ NotDeleted(d)) /\ Override(d)
    BY <1>1 DEF WebhookRemove
  <2>2. d \in Docs
    BY <2>1 DEF TypeOK
  <2>3. status' \in [Docs -> Statuses] /\ full_docs' \subseteq Docs
    BY <2>1, <2>2 DEF Deleted, NotDeleted, TypeOK, Statuses
  <2>4. overridden' \subseteq Docs
    BY <2>1, <2>2 DEF Override, TypeOK
  <2> QED BY <1>1, <2>3, <2>4 DEF WebhookRemove, TypeOK, Labels, Goto
<1>2. CASE WebhookRelease(t)
  BY <1>2 DEF WebhookRelease, TypeOK, PipelineStatus, Statuses, Labels, Goto, At, docs, locals
<1> QED BY <1>1, <1>2 DEF Webhook

\* Types are kept by the steps of a stop request.
LEMMA TypeStop ==
    ASSUME TypeOK, NEW t \in Tasks, Stop(t)
    PROVE  TypeOK'
<1>1. CASE StopWrite(t)
  <2>1. PICK d \in work[t] : status' = [status EXCEPT ![d] = "failed"] /\ Override(d)
    BY <1>1 DEF StopWrite
  <2>2. status' \in [Docs -> Statuses] /\ overridden' \subseteq Docs
    BY <2>1 DEF Override, TypeOK, Statuses
  <2> QED BY <1>1, <2>2 DEF StopWrite, TypeOK, Labels, Goto
<1>2. CASE StopCancel(t)
  BY <1>2 DEF StopCancel, TypeOK, PipelineStatus, Statuses, Labels, Goto, At, docs, locals
<1> QED BY <1>1, <1>2 DEF Stop

\* Types are kept by every step.
LEMMA TypeStep == TypeOK /\ [Next]_vars => TypeOK'
<1> SUFFICES ASSUME TypeOK, [Next]_vars PROVE TypeOK'
  OBVIOUS
<1>1. CASE UNCHANGED vars
  BY <1>1 DEF vars, docs, locals, TypeOK
<1>2. CASE CancelPipeline
  BY <1>2 DEF CancelPipeline, TypeOK, PipelineStatus, docs, locals
<1>3. ASSUME NEW t \in Tasks, Request(t) \/ Progress(t) PROVE TypeOK'
  BY <1>3, TypeRequest, TypeUpload, TypeEnqueue, TypeProcess, TypeScan,
     TypeDestroy, TypeWebhook, TypeStop DEF Progress
<1> QED BY <1>1, <1>2, <1>3 DEF Next

\* Every reachable state is well typed: the shared record, the document rows
\* and the place of every task.
THEOREM TypeCorrect == Spec => []TypeOK
<1>1. Init => TypeOK
  BY TypeInit
<1>2. TypeOK /\ [Next]_vars => TypeOK'
  BY TypeStep
<1> QED BY <1>1, <1>2, PTL DEF Spec
-----------------------------------------------------------------------------
(* The flags of pipeline_status admit one owner, keep teardowns alone and    *)
(* never refuse accepted work, for every population of tasks and any faults. *)

-----------------------------------------------------------------------------
(* The part of GateInv that needs no counting.                              *)

FlagInv == KindsInPlace /\ OneOwner /\ TeardownFlag /\ ScanFlags /\ SlotFlags

\* What every step but a reservation and a release does to the slots.
SlotsKept == /\ pipeline_status'.pending_enqueues = pipeline_status.pending_enqueues
             /\ \A u \in Tasks : HoldsSlot(u)' <=> HoldsSlot(u)

\* The holders of slots can be counted.
LEMMA SlotHoldersFinite == IsFiniteSet(SlotHolders)
<1>1. SlotHolders \subseteq Tasks
  BY DEF SlotHolders
<1> QED BY <1>1, GateAssumption, FS_Subset

\* A zero counter means that no upload is under way.
LEMMA NoSlots ==
    ASSUME TypeOK, SlotCount, pipeline_status.pending_enqueues = 0
    PROVE  \A t \in Tasks : ~HoldsSlot(t)
<1>1. Cardinality(SlotHolders) = 0
  BY SlotHoldersFinite, FS_CardinalityType DEF SlotCount
<1> QED BY <1>1, SlotHoldersFinite, FS_EmptySet DEF SlotHolders

-----------------------------------------------------------------------------
(* Taking the pipeline touches no flag of the gate but `busy`.              *)

TakesBusy == /\ pipeline_status'.busy
             /\ pipeline_status'.destructive_busy = pipeline_status.destructive_busy
             /\ pipeline_status'.scanning = pipeline_status.scanning
             /\ pipeline_status'.scanning_exclusive = pipeline_status.scanning_exclusive

KeepsFlags == /\ pipeline_status'.busy = pipeline_status.busy
              /\ pipeline_status'.destructive_busy = pipeline_status.destructive_busy
              /\ pipeline_status'.scanning = pipeline_status.scanning
              /\ pipeline_status'.scanning_exclusive = pipeline_status.scanning_exclusive

\* The look at the cancellation leaves the flags of ownership alone.
LEMMA TopKeepsFlags ==
    ASSUME TypeOK, NEW t \in Tasks, ProcessTop(t)
    PROVE  KeepsFlags
BY DEF ProcessTop, KeepsFlags, TypeOK, PipelineStatus

\* A run that starts raises `busy` and nothing else the invariant sees.
LEMMA RunTakesBusy ==
    ASSUME TypeOK, NEW t \in Tasks, ProcessStart(t), ~pipeline_status.busy, InFlight # {}
    PROVE  TakesBusy
BY DEF ProcessStart, TakesBusy, TypeOK, PipelineStatus

\* So does a webhook deletion that finds the pipeline idle.
LEMMA WebhookTakesBusy ==
    ASSUME TypeOK, NEW t \in Tasks, WebhookDelete(t), ~pipeline_status.busy
    PROVE  TakesBusy
BY DEF WebhookDelete, TakesBusy, TypeOK, PipelineStatus

-----------------------------------------------------------------------------
(* Every action keeps the flags in step with the tasks, group by group.     *)

\* Owner, teardown and scan flags are kept by requests and their acceptance.
LEMMA FlagsRequest ==
    ASSUME TypeOK, FlagInv, SlotCount, NEW t \in Tasks, Request(t)
    PROVE  FlagInv'
<1> USE DEF Goto, At, FlagInv, KindsInPlace, OneOwner, TeardownFlag, ScanFlags, SlotFlags,
            OwnsBusy, Destructive, Scanning, HoldsSlot, RunLabels, DestructiveLabels, SingleLabels,
            TypeOK, PipelineStatus
<1>1. CASE ReserveEnqueueSlot(t)
  BY <1>1 DEF ReserveEnqueueSlot, Arrives
<1>2. CASE Insert(t)
  BY <1>2 DEF Insert, Arrives
<1>3. CASE Reprocess(t)
  BY <1>3 DEF Reprocess, Arrives
<1>4. CASE ScanBegin(t)
  BY <1>4, NoSlots DEF ScanBegin, Arrives
<1>5. CASE AcquireDestructiveBusy(t)
  BY <1>5, NoSlots DEF AcquireDestructiveBusy, Arrives
<1>6. CASE WebhookDelete(t)
  <2>1. CASE pipeline_status.busy
    BY <1>6, <2>1 DEF WebhookDelete, Arrives
  <2>2. CASE ~pipeline_status.busy
    <3>1. TakesBusy
      BY <1>6, <2>2, WebhookTakesBusy
    <3>2. /\ Kind[t] = "webhook_delete" /\ pc[t] = "idle"
          /\ pc' = [pc EXCEPT ![t] = "x_own"]
      BY <1>6, <2>2 DEF WebhookDelete, Arrives
    <3> QED BY <2>2, <3>1, <3>2 DEF TakesBusy
  <2> QED BY <2>1, <2>2
<1>7. CASE StopRead(t)
  BY <1>7 DEF StopRead, Arrives
<1> QED BY <1>1, <1>2, <1>3, <1>4, <1>5, <1>6, <1>7 DEF Request

\* The holders of slots stay the same in requests other than a reservation.
LEMMA SlotsRequest ==
    ASSUME TypeOK, KindsInPlace, NEW t \in Tasks, Request(t), ~ReserveEnqueueSlot(t)
    PROVE  SlotsKept
BY ZenonT(40) DEF Request, Insert, Reprocess, ScanBegin, AcquireDestructiveBusy, WebhookDelete, StopRead, Arrives,
       SlotsKept, HoldsSlot, KindsInPlace, DestructiveLabels, SingleLabels,
       Goto, At, TypeOK, PipelineStatus

\* Owner, teardown and scan flags are kept by the upload's own steps.
LEMMA FlagsUpload ==
    ASSUME TypeOK, FlagInv, SlotCount, NEW t \in Tasks, Upload(t)
    PROVE  FlagInv'
<1> USE DEF Goto, At, FlagInv, KindsInPlace, OneOwner, TeardownFlag, ScanFlags, SlotFlags,
            OwnsBusy, Destructive, Scanning, HoldsSlot, RunLabels, DestructiveLabels, SingleLabels,
            TypeOK, PipelineStatus
<1>1. CASE AcceptUpload(t)
  BY <1>1 DEF AcceptUpload
<1>2. CASE ReleaseEnqueueSlot(t)
  BY <1>2 DEF ReleaseEnqueueSlot
<1> QED BY <1>1, <1>2 DEF Upload

\* The holders of slots stay the same until the release.
LEMMA SlotsUpload ==
    ASSUME TypeOK, KindsInPlace, NEW t \in Tasks, Upload(t), ~ReleaseEnqueueSlot(t)
    PROVE  SlotsKept
BY DEF Upload, AcceptUpload,
       SlotsKept, HoldsSlot, KindsInPlace, DestructiveLabels, SingleLabels,
       Goto, At, TypeOK, PipelineStatus

\* Owner, teardown and scan flags are kept by the steps of apipeline_enqueue_documents.
LEMMA FlagsEnqueue ==
    ASSUME TypeOK, FlagInv, SlotCount, NEW t \in Tasks, Enqueue(t)
    PROVE  FlagInv'
<1> USE DEF Goto, At, FlagInv, KindsInPlace, OneOwner, TeardownFlag, ScanFlags, SlotFlags,
            OwnsBusy, Destructive, Scanning, HoldsSlot, RunLabels, DestructiveLabels, SingleLabels,
            TypeOK, PipelineStatus
<1>1. CASE EnqueueGuard(t)
  BY <1>1 DEF EnqueueGuard
<1>2. CASE EnqueueError(t)
  BY <1>2 DEF EnqueueError
<1>3. CASE EnqueueStore(t)
  BY <1>3 DEF EnqueueStore
<1>4. CASE EnqueueNudge(t)
  BY <1>4 DEF EnqueueNudge
<1>5. CASE EnqueueDone(t)
  BY <1>5 DEF EnqueueDone, AfterProcess
<1> QED BY <1>1, <1>2, <1>3, <1>4, <1>5 DEF Enqueue

\* The holders of slots stay the same in the steps of apipeline_enqueue_documents.
LEMMA SlotsEnqueue ==
    ASSUME TypeOK, KindsInPlace, NEW t \in Tasks, Enqueue(t)
    PROVE  SlotsKept
BY DEF Enqueue, EnqueueGuard, EnqueueError, EnqueueStore, EnqueueNudge, EnqueueDone, AfterProcess,
       SlotsKept, HoldsSlot, KindsInPlace, DestructiveLabels, SingleLabels,
       Goto, At, TypeOK, PipelineStatus

\* Owner, teardown and scan flags are kept by the steps of the processing loop.
LEMMA FlagsProcess ==
    ASSUME TypeOK, FlagInv, SlotCount, NEW t \in Tasks, Process(t)
    PROVE  FlagInv'
<1> USE DEF Goto, At, FlagInv, KindsInPlace, OneOwner, TeardownFlag, ScanFlags, SlotFlags,
            OwnsBusy, Destructive, Scanning, HoldsSlot, RunLabels, DestructiveLabels, SingleLabels,
            TypeOK, PipelineStatus
<1>1. CASE ProcessStart(t)
  <2>1. CASE pipeline_status.busy
    BY <1>1, <2>1 DEF ProcessStart, AfterProcess
  <2>2. CASE ~pipeline_status.busy /\ InFlight = {}
    BY <1>1, <2>2 DEF ProcessStart, AfterProcess
  <2>3. CASE ~pipeline_status.busy /\ InFlight # {}
    <3>1. TakesBusy
      BY <1>1, <2>3, RunTakesBusy
    <3>2. pc[t] = "start" /\ pc' = [pc EXCEPT ![t] = "top"]
      BY <1>1, <2>3 DEF ProcessStart
    <3> QED BY <2>3, <3>1, <3>2 DEF TakesBusy
  <2> QED BY <2>1, <2>2, <2>3
<1>2. CASE ProcessTop(t)
  <2>1. CASE pipeline_status.cancellation_requested
    <3>1. KeepsFlags
      BY <1>2, TopKeepsFlags
    <3>2. pc[t] = "top" /\ pc' = [pc EXCEPT ![t] = "final_held"]
      BY <1>2, <2>1 DEF ProcessTop
    <3> QED BY <3>1, <3>2 DEF KeepsFlags
  <2>2. CASE ~pipeline_status.cancellation_requested
    BY <1>2, <2>2 DEF ProcessTop
  <2> QED BY <2>1, <2>2
<1>3. CASE ProcessCheck(t)
  BY <1>3 DEF ProcessCheck
<1>4. CASE BatchTake(t)
  BY <1>4 DEF BatchTake
<1>5. CASE BatchFinish(t)
  BY <1>5 DEF BatchFinish
<1>6. CASE BatchSkip(t)
  BY <1>6 DEF BatchSkip
<1>7. CASE BatchDone(t)
  BY <1>7 DEF BatchDone
<1>8. CASE ProcessExit(t)
  BY <1>8 DEF ProcessExit
<1>9. CASE ProcessRefetch(t)
  BY <1>9 DEF ProcessRefetch
<1>10. CASE ProcessFault(t)
  BY <1>10 DEF ProcessFault
<1>11. CASE ProcessFinal(t)
  BY <1>11 DEF ProcessFinal, AfterProcess
<1> QED BY <1>1, <1>2, <1>3, <1>4, <1>5, <1>6, <1>7, <1>8, <1>9, <1>10, <1>11 DEF Process

\* The holders of slots stay the same in the steps of the processing loop.
LEMMA SlotsProcess ==
    ASSUME TypeOK, KindsInPlace, NEW t \in Tasks, Process(t)
    PROVE  SlotsKept
BY ZenonT(40) DEF Process, ProcessStart, ProcessTop, ProcessCheck, BatchTake, BatchFinish, BatchSkip, BatchDone, ProcessExit, ProcessRefetch, ProcessFault, ProcessFinal, AfterProcess,
       SlotsKept, HoldsSlot, KindsInPlace, DestructiveLabels, SingleLabels,
       Goto, At, TypeOK, PipelineStatus

\* Owner, teardown and scan flags are kept by the steps of a scan.
LEMMA FlagsScan ==
    ASSUME TypeOK, FlagInv, SlotCount, NEW t \in Tasks, Scan(t)
    PROVE  FlagInv'
<1> USE DEF Goto, At, FlagInv, KindsInPlace, OneOwner, TeardownFlag, ScanFlags, SlotFlags,
            OwnsBusy, Destructive, Scanning, HoldsSlot, RunLabels, DestructiveLabels, SingleLabels,
            TypeOK, PipelineStatus
<1>1. CASE ScanList(t)
  BY <1>1 DEF ScanList
<1>2. CASE ScanClassify(t)
  BY <1>2 DEF ScanClassify
<1>3. CASE ScanClassified(t)
  BY <1>3 DEF ScanClassified
<1>4. CASE ScanFinish(t)
  BY <1>4 DEF ScanFinish
<1>5. CASE ScanFault(t)
  BY <1>5 DEF ScanFault
<1> QED BY <1>1, <1>2, <1>3, <1>4, <1>5 DEF Scan

\* The holders of slots stay the same in the steps of a scan.
LEMMA SlotsScan ==
    ASSUME TypeOK, KindsInPlace, NEW t \in Tasks, Scan(t)
    PROVE  SlotsKept
BY DEF Scan, ScanList, ScanClassify, ScanClassified, ScanFault, ScanFinish,
       SlotsKept, HoldsSlot, KindsInPlace, DestructiveLabels, SingleLabels,
       Goto, At, TypeOK, PipelineStatus

\* Owner, teardown and scan flags are kept by the steps of deletion, re-ingestion and clear.
LEMMA FlagsDestroy ==
    ASSUME TypeOK, FlagInv, SlotCount, NEW t \in Tasks, Destroy(t)
    PROVE  FlagInv'
<1> USE DEF Goto, At, FlagInv, KindsInPlace, OneOwner, TeardownFlag, ScanFlags, SlotFlags,
            OwnsBusy, Destructive, Scanning, HoldsSlot, RunLabels, DestructiveLabels, SingleLabels,
            TypeOK, PipelineStatus
<1>1. CASE Announce(t)
  BY <1>1 DEF Announce
<1>2. CASE DeleteOne(t)
  BY <1>2 DEF DeleteOne
<1>3. CASE DeleteLoopDone(t)
  BY <1>3 DEF DeleteLoopDone
<1>4. CASE DeleteFinal(t)
  BY <1>4 DEF DeleteFinal
<1>5. CASE ReingestRelease(t)
  BY <1>5 DEF ReingestRelease
<1>6. CASE ReingestFinal(t)
  BY <1>6 DEF ReingestFinal
<1>7. CASE ClearReset(t)
  BY <1>7 DEF ClearReset
<1>8. CASE ClearDrop(t)
  BY <1>8 DEF ClearDrop
<1>9. CASE ClearFinal(t)
  BY <1>9 DEF ClearFinal
<1> QED BY <1>1, <1>2, <1>3, <1>4, <1>5, <1>6, <1>7, <1>8, <1>9 DEF Destroy

\* The holders of slots stay the same in the steps of deletion, re-ingestion and clear.
LEMMA SlotsDestroy ==
    ASSUME TypeOK, KindsInPlace, NEW t \in Tasks, Destroy(t)
    PROVE  SlotsKept
BY ZenonT(40) DEF Destroy, Announce, DeleteOne, DeleteLoopDone, DeleteFinal, ReingestRelease, ReingestFinal, ClearReset, ClearDrop, ClearFinal,
       SlotsKept, HoldsSlot, KindsInPlace, DestructiveLabels, SingleLabels,
       Goto, At, TypeOK, PipelineStatus

\* Owner, teardown and scan flags are kept by the steps of a webhook deletion.
LEMMA FlagsWebhook ==
    ASSUME TypeOK, FlagInv, SlotCount, NEW t \in Tasks, Webhook(t)
    PROVE  FlagInv'
<1> USE DEF Goto, At, FlagInv, KindsInPlace, OneOwner, TeardownFlag, ScanFlags, SlotFlags,
            OwnsBusy, Destructive, Scanning, HoldsSlot, RunLabels, DestructiveLabels, SingleLabels,
            TypeOK, PipelineStatus
<1>1. CASE WebhookRemove(t)
  BY <1>1 DEF WebhookRemove
<1>2. CASE WebhookRelease(t)
  BY <1>2 DEF WebhookRelease
<1> QED BY <1>1, <1>2 DEF Webhook

\* The holders of slots stay the same in the steps of a webhook deletion.
LEMMA SlotsWebhook ==
    ASSUME TypeOK, KindsInPlace, NEW t \in Tasks, Webhook(t)
    PROVE  SlotsKept
BY DEF Webhook, WebhookRemove, WebhookRelease,
       SlotsKept, HoldsSlot, KindsInPlace, DestructiveLabels, SingleLabels,
       Goto, At, TypeOK, PipelineStatus

\* Only a reservation and a release change the holders of slots.
LEMMA SlotsTask ==
    ASSUME TypeOK, KindsInPlace, NEW t \in Tasks, Request(t) \/ Progress(t),
           ~ReserveEnqueueSlot(t), ~ReleaseEnqueueSlot(t)
    PROVE  SlotsKept
<1>1. CASE Stop(t)
  BY <1>1 DEF Stop, StopWrite, StopCancel, SlotsKept, HoldsSlot, KindsInPlace, Goto, At,
              TypeOK, PipelineStatus
<1> QED BY <1>1, SlotsRequest, SlotsUpload, SlotsEnqueue, SlotsProcess, SlotsScan,
           SlotsDestroy, SlotsWebhook DEF Progress

-----------------------------------------------------------------------------
(* Counting: a reservation adds one holder, a release removes one.          *)

\* A reservation adds one holder and one to the counter.
LEMMA CountReserve ==
    ASSUME TypeOK, SlotCount, NEW t \in Tasks, ReserveEnqueueSlot(t)
    PROVE  SlotCount'
<1>1. /\ pipeline_status'.pending_enqueues = pipeline_status.pending_enqueues + 1
      /\ Kind[t] = "upload" /\ pc[t] = "idle" /\ pc' = [pc EXCEPT ![t] = "reserved"]
  BY DEF ReserveEnqueueSlot, Arrives, Goto, At, TypeOK, PipelineStatus
<1>2. SlotHolders' = SlotHolders \cup {t}
  BY <1>1 DEF SlotHolders, HoldsSlot, TypeOK
<1>3. t \notin SlotHolders
  BY <1>1 DEF SlotHolders, HoldsSlot
<1>4. Cardinality(SlotHolders') = Cardinality(SlotHolders) + 1
  BY <1>2, <1>3, SlotHoldersFinite, FS_AddElement
<1> QED BY <1>1, <1>4, SlotHoldersFinite, FS_CardinalityType
        DEF SlotCount, TypeOK, PipelineStatus

\* A release takes away one of each; the clamp at zero is never needed.
LEMMA CountRelease ==
    ASSUME TypeOK, KindsInPlace, SlotCount, NEW t \in Tasks, ReleaseEnqueueSlot(t)
    PROVE  SlotCount'
<1>1. /\ Kind[t] = "upload" /\ pc[t] = "release" /\ pc' = [pc EXCEPT ![t] = "idle"]
  BY DEF ReleaseEnqueueSlot, KindsInPlace, Goto, At
<1>2. SlotHolders' = SlotHolders \ {t}
  BY <1>1 DEF SlotHolders, HoldsSlot, TypeOK
<1>3. t \in SlotHolders
  BY <1>1 DEF SlotHolders, HoldsSlot
<1>4. Cardinality(SlotHolders') = Cardinality(SlotHolders) - 1
  BY <1>2, <1>3, SlotHoldersFinite, FS_RemoveElement
<1>5. \/ pipeline_status'.pending_enqueues = pipeline_status.pending_enqueues - 1
      \/ pipeline_status'.pending_enqueues = pipeline_status.pending_enqueues
  BY DEF ReleaseEnqueueSlot, TypeOK, PipelineStatus
<1> QED BY <1>4, <1>5, SlotHoldersFinite, FS_CardinalityType
        DEF SlotCount, TypeOK, PipelineStatus

\* Where neither changes, the bound stays.
LEMMA CountKept ==
    ASSUME TypeOK, SlotCount, SlotsKept
    PROVE  SlotCount'
<1>1. SlotHolders' = SlotHolders
  BY DEF SlotsKept, SlotHolders
<1> QED BY <1>1 DEF SlotCount, SlotsKept

-----------------------------------------------------------------------------
(* The inductive invariant.                                                 *)

\* Nothing is raised and nobody is inside at the start.
LEMMA GateInit == Init => GateInv
<1> SUFFICES ASSUME Init PROVE GateInv
  OBVIOUS
<1>1. KindsInPlace /\ OneOwner /\ TeardownFlag /\ ScanFlags /\ SlotFlags
  BY DEF Init, KindsInPlace, OneOwner, TeardownFlag, ScanFlags, SlotFlags,
         OwnsBusy, Destructive, Scanning, HoldsSlot, RunLabels,
         DestructiveLabels, SingleLabels
<1>2. SlotHolders = {}
  BY DEF Init, SlotHolders, HoldsSlot
<1> QED BY <1>1, <1>2, FS_EmptySet DEF GateInv, SlotCount, Init

\* GateInv is kept by every step of a task.
LEMMA GateTask ==
    ASSUME TypeOK, GateInv, NEW t \in Tasks, Request(t) \/ Progress(t)
    PROVE  GateInv'
<1> FlagInv /\ SlotCount
  BY DEF GateInv, FlagInv
<1>1. FlagInv'
  <2>1. CASE Stop(t)
    BY <2>1 DEF Stop, StopWrite, StopCancel, Goto, At, FlagInv, KindsInPlace, OneOwner, TeardownFlag,
                ScanFlags, SlotFlags, OwnsBusy, Destructive, Scanning, HoldsSlot,
                RunLabels, DestructiveLabels, SingleLabels, TypeOK, PipelineStatus
  <2> QED BY <2>1, FlagsRequest, FlagsUpload, FlagsEnqueue, FlagsProcess,
             FlagsScan, FlagsDestroy, FlagsWebhook DEF Progress
<1>2. SlotCount'
  <2>1. CASE ReserveEnqueueSlot(t)
    BY <2>1, CountReserve
  <2>2. CASE ReleaseEnqueueSlot(t)
    BY <2>2, CountRelease DEF FlagInv
  <2>3. CASE ~ReserveEnqueueSlot(t) /\ ~ReleaseEnqueueSlot(t)
    BY <2>3, SlotsTask, CountKept DEF FlagInv
  <2> QED BY <2>1, <2>2, <2>3
<1> QED BY <1>1, <1>2 DEF GateInv, FlagInv

\* GateInv is inductive.
LEMMA GateStep == TypeOK /\ GateInv /\ [Next]_vars => GateInv'
<1> SUFFICES ASSUME TypeOK, GateInv, [Next]_vars PROVE GateInv'
  OBVIOUS
<1> USE DEF GateInv, KindsInPlace, OneOwner, TeardownFlag, ScanFlags, SlotFlags,
            SlotCount, SlotHolders, OwnsBusy, Destructive, Scanning, HoldsSlot
<1>1. CASE UNCHANGED vars
  BY <1>1 DEF vars
<1>2. CASE CancelPipeline
  <2>1. /\ UNCHANGED pc
        /\ pipeline_status'.busy = pipeline_status.busy
        /\ pipeline_status'.destructive_busy = pipeline_status.destructive_busy
        /\ pipeline_status'.scanning = pipeline_status.scanning
        /\ pipeline_status'.scanning_exclusive = pipeline_status.scanning_exclusive
        /\ pipeline_status'.pending_enqueues = pipeline_status.pending_enqueues
    BY <1>2 DEF CancelPipeline, TypeOK, PipelineStatus
  <2> QED BY <2>1
<1>3. ASSUME NEW t \in Tasks, Request(t) \/ Progress(t) PROVE GateInv'
  BY <1>3, GateTask
<1> QED BY <1>1, <1>2, <1>3 DEF Next

\* The flags agree with the tasks in every reachable state, whatever the
\* faults: the invariant the three theorems below are read off.
THEOREM GateCorrect == Spec => []GateInv
<1>1. Init => GateInv
  BY GateInit
<1>2. TypeOK /\ GateInv /\ [Next]_vars => GateInv'
  BY GateStep
<1> QED BY <1>1, <1>2, TypeCorrect, PTL DEF Spec

\* At most one task runs the pipeline, and `busy` is raised while it does: no
\* finally block of pipeline.py, document_routes.py or madrag.py ever releases
\* a slot that another task holds.
THEOREM OneOwnerTheorem == Spec => []OneOwner
<1>1. GateInv => OneOwner
  BY DEF GateInv
<1> QED BY <1>1, GateCorrect, PTL

\* No accepted upload and no scan overlaps a teardown.
THEOREM TeardownTheorem == Spec => []TeardownIsolated
<1>1. GateInv => TeardownIsolated
  BY DEF GateInv, TeardownFlag, ScanFlags, SlotFlags, TeardownIsolated,
         OwnsBusy, Destructive
<1> QED BY <1>1, GateCorrect, PTL

\* The background task of an accepted upload, or of a scan, passes the guard of
\* apipeline_enqueue_documents whenever it gets there.
THEOREM AcceptedTheorem == Spec => []AcceptedWorkNotRefused
<1>1. GateInv => AcceptedWorkNotRefused
  BY DEF GateInv, ScanFlags, SlotFlags, AcceptedWorkNotRefused, EnqueueBlocked,
         HoldsSlot, Scanning
<1> QED BY <1>1, GateCorrect, PTL
-----------------------------------------------------------------------------
(* The two properties that hold only while nothing raises outside a `try`:   *)
(* the reservation counter is exact, and every raised flag has a live owner. *)

-----------------------------------------------------------------------------
(* Reservations.                                                            *)

\* When no pool fault strikes, the counter is the number of holders.
THEOREM SlotsTheorem ==
    ASSUME "pool" \notin Faults
    PROVE  Spec => []SlotsAccounted
<1>1. Init => SlotsAccounted
  <2>1. Init => SlotHolders = {}
    BY DEF Init, SlotHolders, HoldsSlot
  <2> QED BY <2>1, FS_EmptySet DEF Init, SlotsAccounted
<1>2. TypeOK /\ GateInv /\ SlotsAccounted /\ [Next]_vars => SlotsAccounted'
  <2> SUFFICES ASSUME TypeOK, GateInv, SlotsAccounted, [Next]_vars PROVE SlotsAccounted'
    OBVIOUS
  <2>1. CASE UNCHANGED vars \/ CancelPipeline
    BY <2>1 DEF vars, CancelPipeline, SlotsAccounted, SlotHolders, HoldsSlot, TypeOK, PipelineStatus
  <2>2. ASSUME NEW t \in Tasks, ReserveEnqueueSlot(t) PROVE SlotsAccounted'
    <3>1. pipeline_status'.pending_enqueues = pipeline_status.pending_enqueues + 1
      BY <2>2 DEF ReserveEnqueueSlot, TypeOK, PipelineStatus
    <3>2. SlotHolders' = SlotHolders \cup {t} /\ t \notin SlotHolders
      BY <2>2 DEF ReserveEnqueueSlot, Arrives, Goto, At, SlotHolders, HoldsSlot, TypeOK
    <3> QED BY <3>1, <3>2, SlotHoldersFinite, FS_AddElement DEF SlotsAccounted
  <2>3. ASSUME NEW t \in Tasks, ReleaseEnqueueSlot(t) PROVE SlotsAccounted'
    <3>1. SlotHolders' = SlotHolders \ {t} /\ t \in SlotHolders
      BY <2>3 DEF ReleaseEnqueueSlot, GateInv, KindsInPlace, Goto, At, SlotHolders, HoldsSlot, TypeOK
    <3>2. Cardinality(SlotHolders') = Cardinality(SlotHolders) - 1
      BY <3>1, SlotHoldersFinite, FS_RemoveElement
    <3>3. pipeline_status.pending_enqueues > 0
      BY <3>1, SlotHoldersFinite, FS_EmptySet, FS_CardinalityType DEF SlotsAccounted
    <3>4. pipeline_status'.pending_enqueues = pipeline_status.pending_enqueues - 1
      BY <2>3, <3>3 DEF ReleaseEnqueueSlot, TypeOK, PipelineStatus
    <3> QED BY <3>2, <3>4 DEF SlotsAccounted
  <2>4. ASSUME NEW t \in Tasks, Request(t) \/ Progress(t),
               ~ReserveEnqueueSlot(t), ~ReleaseEnqueueSlot(t)
        PROVE  SlotsAccounted'
    <3>1. SlotsKept
      BY <2>4, SlotsTask DEF GateInv
    <3> QED BY <3>1 DEF SlotsKept, SlotsAccounted, SlotHolders
  <2> QED BY <2>1, <2>2, <2>3, <2>4 DEF Next
<1> QED BY <1>1, <1>2, TypeCorrect, GateCorrect, PTL DEF Spec

-----------------------------------------------------------------------------
(* Flags and their owners.                                                  *)


\* Every raised flag keeps its owner in requests and their acceptance.
LEMMA OwnersRequest ==
    ASSUME TypeOK, GateInv, FlagsHaveOwners, Faults \subseteq {"run"}, NEW t \in Tasks, Request(t)
    PROVE  FlagsHaveOwners'
<1> USE DEF At, Goto, TypeOK, PipelineStatus, FlagsHaveOwners, GateInv, KindsInPlace, OneOwner,
            ScanFlags, Destructive, OwnsBusy, Scanning, RunLabels, DestructiveLabels, SingleLabels
<1>1. CASE ReserveEnqueueSlot(t)
  BY <1>1 DEF ReserveEnqueueSlot, Arrives
<1>2. CASE Insert(t)
  BY <1>2 DEF Insert, Arrives
<1>3. CASE Reprocess(t)
  BY <1>3 DEF Reprocess, Arrives
<1>4. CASE ScanBegin(t)
  BY <1>4 DEF ScanBegin, Arrives
<1>5. CASE AcquireDestructiveBusy(t)
  BY <1>5 DEF AcquireDestructiveBusy, Arrives
<1>6. CASE WebhookDelete(t)
  <2>1. CASE pipeline_status.busy
    BY <1>6, <2>1 DEF WebhookDelete, Arrives
  <2>2. CASE ~pipeline_status.busy
    <3>1. TakesBusy
      BY <1>6, <2>2, WebhookTakesBusy
    <3>2. /\ Kind[t] = "webhook_delete" /\ pc[t] = "idle"
          /\ pc' = [pc EXCEPT ![t] = "x_own"]
      BY <1>6, <2>2 DEF WebhookDelete, Arrives
    <3> QED BY <2>2, <3>1, <3>2 DEF TakesBusy
  <2> QED BY <2>1, <2>2
<1>7. CASE StopRead(t)
  BY <1>7 DEF StopRead, Arrives
<1> QED BY <1>1, <1>2, <1>3, <1>4, <1>5, <1>6, <1>7 DEF Request

\* Every raised flag keeps its owner in the upload's own steps.
LEMMA OwnersUpload ==
    ASSUME TypeOK, GateInv, FlagsHaveOwners, Faults \subseteq {"run"}, NEW t \in Tasks, Upload(t)
    PROVE  FlagsHaveOwners'
<1> USE DEF At, Goto, TypeOK, PipelineStatus, FlagsHaveOwners, GateInv, KindsInPlace, OneOwner,
            ScanFlags, Destructive, OwnsBusy, Scanning, RunLabels, DestructiveLabels, SingleLabels
<1>1. CASE AcceptUpload(t)
  BY <1>1 DEF AcceptUpload
<1>2. CASE ReleaseEnqueueSlot(t)
  BY <1>2 DEF ReleaseEnqueueSlot
<1> QED BY <1>1, <1>2 DEF Upload

\* Every raised flag keeps its owner in the steps of apipeline_enqueue_documents.
LEMMA OwnersEnqueue ==
    ASSUME TypeOK, GateInv, FlagsHaveOwners, Faults \subseteq {"run"}, NEW t \in Tasks, Enqueue(t)
    PROVE  FlagsHaveOwners'
<1> USE DEF At, Goto, TypeOK, PipelineStatus, FlagsHaveOwners, GateInv, KindsInPlace, OneOwner,
            ScanFlags, Destructive, OwnsBusy, Scanning, RunLabels, DestructiveLabels, SingleLabels
<1>1. CASE EnqueueGuard(t)
  BY <1>1 DEF EnqueueGuard
<1>2. CASE EnqueueError(t)
  BY <1>2 DEF EnqueueError
<1>3. CASE EnqueueStore(t)
  BY <1>3 DEF EnqueueStore
<1>4. CASE EnqueueNudge(t)
  BY <1>4 DEF EnqueueNudge
<1>5. CASE EnqueueDone(t)
  BY <1>5 DEF EnqueueDone, AfterProcess
<1> QED BY <1>1, <1>2, <1>3, <1>4, <1>5 DEF Enqueue

\* Every raised flag keeps its owner in the steps of the processing loop.
LEMMA OwnersProcess ==
    ASSUME TypeOK, GateInv, FlagsHaveOwners, Faults \subseteq {"run"}, NEW t \in Tasks, Process(t)
    PROVE  FlagsHaveOwners'
<1> USE DEF At, Goto, TypeOK, PipelineStatus, FlagsHaveOwners, GateInv, KindsInPlace, OneOwner,
            ScanFlags, Destructive, OwnsBusy, Scanning, RunLabels, DestructiveLabels, SingleLabels
<1>1. CASE ProcessStart(t)
  <2>1. CASE pipeline_status.busy
    BY <1>1, <2>1 DEF ProcessStart, AfterProcess
  <2>2. CASE ~pipeline_status.busy /\ InFlight = {}
    BY <1>1, <2>2 DEF ProcessStart, AfterProcess
  <2>3. CASE ~pipeline_status.busy /\ InFlight # {}
    <3>1. TakesBusy
      BY <1>1, <2>3, RunTakesBusy
    <3>2. pc[t] = "start" /\ pc' = [pc EXCEPT ![t] = "top"]
      BY <1>1, <2>3 DEF ProcessStart
    <3> QED BY <2>3, <3>1, <3>2 DEF TakesBusy
  <2> QED BY <2>1, <2>2, <2>3
<1>2. CASE ProcessTop(t)
  <2>1. CASE pipeline_status.cancellation_requested
    <3>1. KeepsFlags
      BY <1>2, TopKeepsFlags
    <3>2. pc[t] = "top" /\ pc' = [pc EXCEPT ![t] = "final_held"]
      BY <1>2, <2>1 DEF ProcessTop
    <3> QED BY <3>1, <3>2 DEF KeepsFlags
  <2>2. CASE ~pipeline_status.cancellation_requested
    BY <1>2, <2>2 DEF ProcessTop
  <2> QED BY <2>1, <2>2
<1>3. CASE ProcessCheck(t)
  BY <1>3 DEF ProcessCheck
<1>4. CASE BatchTake(t)
  BY <1>4 DEF BatchTake
<1>5. CASE BatchFinish(t)
  BY <1>5 DEF BatchFinish
<1>6. CASE BatchSkip(t)
  BY <1>6 DEF BatchSkip
<1>7. CASE BatchDone(t)
  BY <1>7 DEF BatchDone
<1>8. CASE ProcessExit(t)
  BY <1>8 DEF ProcessExit
<1>9. CASE ProcessRefetch(t)
  BY <1>9 DEF ProcessRefetch
<1>10. CASE ProcessFault(t)
  BY <1>10 DEF ProcessFault
<1>11. CASE ProcessFinal(t)
  BY <1>11 DEF ProcessFinal, AfterProcess
<1> QED BY <1>1, <1>2, <1>3, <1>4, <1>5, <1>6, <1>7, <1>8, <1>9, <1>10, <1>11 DEF Process

\* Every raised flag keeps its owner in the steps of a scan.
LEMMA OwnersScan ==
    ASSUME TypeOK, GateInv, FlagsHaveOwners, Faults \subseteq {"run"}, NEW t \in Tasks, Scan(t)
    PROVE  FlagsHaveOwners'
<1> USE DEF At, Goto, TypeOK, PipelineStatus, FlagsHaveOwners, GateInv, KindsInPlace, OneOwner,
            ScanFlags, Destructive, OwnsBusy, Scanning, RunLabels, DestructiveLabels, SingleLabels
<1>1. CASE ScanList(t)
  BY <1>1 DEF ScanList
<1>2. CASE ScanClassify(t)
  BY <1>2 DEF ScanClassify
<1>3. CASE ScanClassified(t)
  BY <1>3 DEF ScanClassified
<1>4. CASE ScanFinish(t)
  BY <1>4 DEF ScanFinish
<1>5. CASE ScanFault(t)
  BY <1>5 DEF ScanFault
<1> QED BY <1>1, <1>2, <1>3, <1>4, <1>5 DEF Scan

\* Every raised flag keeps its owner in the steps of deletion, re-ingestion and clear.
LEMMA OwnersDestroy ==
    ASSUME TypeOK, GateInv, FlagsHaveOwners, Faults \subseteq {"run"}, NEW t \in Tasks, Destroy(t)
    PROVE  FlagsHaveOwners'
<1> USE DEF At, Goto, TypeOK, PipelineStatus, FlagsHaveOwners, GateInv, KindsInPlace, OneOwner,
            ScanFlags, Destructive, OwnsBusy, Scanning, RunLabels, DestructiveLabels, SingleLabels
<1>1. CASE Announce(t)
  BY <1>1 DEF Announce
<1>2. CASE DeleteOne(t)
  BY <1>2 DEF DeleteOne
<1>3. CASE DeleteLoopDone(t)
  BY <1>3 DEF DeleteLoopDone
<1>4. CASE DeleteFinal(t)
  BY <1>4 DEF DeleteFinal
<1>5. CASE ReingestRelease(t)
  BY <1>5 DEF ReingestRelease
<1>6. CASE ReingestFinal(t)
  BY <1>6 DEF ReingestFinal
<1>7. CASE ClearReset(t)
  BY <1>7 DEF ClearReset
<1>8. CASE ClearDrop(t)
  BY <1>8 DEF ClearDrop
<1>9. CASE ClearFinal(t)
  BY <1>9 DEF ClearFinal
<1> QED BY <1>1, <1>2, <1>3, <1>4, <1>5, <1>6, <1>7, <1>8, <1>9 DEF Destroy

\* Every raised flag keeps its owner in the steps of a webhook deletion.
LEMMA OwnersWebhook ==
    ASSUME TypeOK, GateInv, FlagsHaveOwners, Faults \subseteq {"run"}, NEW t \in Tasks, Webhook(t)
    PROVE  FlagsHaveOwners'
<1> USE DEF At, Goto, TypeOK, PipelineStatus, FlagsHaveOwners, GateInv, KindsInPlace, OneOwner,
            ScanFlags, Destructive, OwnsBusy, Scanning, RunLabels, DestructiveLabels, SingleLabels
<1>1. CASE WebhookRemove(t)
  BY <1>1 DEF WebhookRemove
<1>2. CASE WebhookRelease(t)
  BY <1>2 DEF WebhookRelease
<1> QED BY <1>1, <1>2 DEF Webhook

-----------------------------------------------------------------------------
\* Every raised flag keeps its owner in every step.
LEMMA OwnersStep ==
    ASSUME TypeOK, GateInv, FlagsHaveOwners, Faults \subseteq {"run"}, [Next]_vars
    PROVE  FlagsHaveOwners'
<1>1. CASE UNCHANGED vars \/ CancelPipeline
  BY <1>1 DEF vars, CancelPipeline, FlagsHaveOwners, OwnsBusy, Destructive, Scanning,
              TypeOK, PipelineStatus
<1>2. ASSUME NEW t \in Tasks, Request(t) \/ Progress(t) PROVE FlagsHaveOwners'
  <2>1. CASE Stop(t)
    BY <2>1 DEF Stop, StopWrite, StopCancel, At, Goto, TypeOK, PipelineStatus,
                FlagsHaveOwners, GateInv, KindsInPlace,
                OwnsBusy, Destructive, Scanning, RunLabels, DestructiveLabels, SingleLabels
  <2> QED BY <1>2, <2>1, OwnersRequest, OwnersUpload, OwnersEnqueue, OwnersProcess,
             OwnersScan, OwnersDestroy, OwnersWebhook DEF Progress
<1> QED BY <1>1, <1>2 DEF Next

\* When at worst the processing loop fails, no flag is ever left raised by a
\* task that is gone: the workspace cannot lock itself up.
THEOREM OwnersTheorem ==
    ASSUME Faults \subseteq {"run"}
    PROVE  Spec => []FlagsHaveOwners
<1>1. Init => FlagsHaveOwners
  BY DEF Init, FlagsHaveOwners
<1>2. TypeOK /\ GateInv /\ FlagsHaveOwners /\ [Next]_vars => FlagsHaveOwners'
  BY OwnersStep
<1> QED BY <1>1, <1>2, TypeCorrect, GateCorrect, PTL DEF Spec
-----------------------------------------------------------------------------
(* The flags of pipeline_status implement the admission rules of Admission:  *)
(* every step of every task is one step of the abstract gate, or none.       *)

Exclusive(t) == pc[t] \in {"s_begin", "classify"}

OthersStay(t) == \A u \in Tasks \ {t} : pc'[u] = pc[u]

\* The roles of task t that are not about the job it runs.
GuestKept(t) == /\ HoldsSlot(t)' <=> HoldsSlot(t)
                /\ Scanning(t)' <=> Scanning(t)
                /\ Exclusive(t)' <=> Exclusive(t)

JobKept(t) == /\ OwnsBusy(t)' <=> OwnsBusy(t)
              /\ Destructive(t)' <=> Destructive(t)

Quiet(t) == OthersStay(t) /\ GuestKept(t) /\ JobKept(t)

Stutter == UNCHANGED Gate!inside

-----------------------------------------------------------------------------
(* What a change of one task's roles is for the abstract gate.              *)

\* A task that stays on its side of every boundary maps to a stutter.
LEMMA QuietStutters ==
    ASSUME NEW t \in Tasks, Quiet(t)
    PROVE  Stutter
BY DEF Quiet, OthersStay, GuestKept, JobKept, Stutter, Gate!inside, Exclusive,
       OwnsBusy, Destructive, Scanning, HoldsSlot, SlotHolders

\* Taking `busy` while it is free begins a job.
LEMMA JobBegins ==
    ASSUME GateInv, NEW t \in Tasks, ~pipeline_status.busy,
           OthersStay(t), GuestKept(t), OwnsBusy(t)', ~Destructive(t)'
    PROVE  Gate!BeginJob(t)
<1>1. \A u \in Tasks : ~OwnsBusy(u) /\ ~Destructive(u)
  BY DEF GateInv, OneOwner, OwnsBusy, Destructive
<1> QED BY <1>1 DEF OthersStay, GuestKept, Gate!BeginJob, Exclusive,
              OwnsBusy, Destructive, Scanning, HoldsSlot, SlotHolders

\* Leaving the owning labels finishes a job.
LEMMA JobEnds ==
    ASSUME NEW t \in Tasks, OthersStay(t), GuestKept(t), ~OwnsBusy(t)', ~Destructive(t)'
    PROVE  Gate!FinishJob(t)
BY DEF OthersStay, GuestKept, Gate!FinishJob, Exclusive,
       OwnsBusy, Destructive, Scanning, HoldsSlot, SlotHolders

-----------------------------------------------------------------------------
(* Every action, group by group.                                            *)

Mapped == Gate!Next \/ Stutter

\* A step of Admission or a stutter: requests and their acceptance.
LEMMA MapRequest ==
    ASSUME TypeOK, GateInv, NEW t \in Tasks, Request(t)
    PROVE  Mapped
<1> USE DEF Arrives, At, Goto, TypeOK
<1>1. CASE ReserveEnqueueSlot(t)
  <2>1. /\ Kind[t] = "upload" /\ pc[t] = "idle" /\ pc' = [pc EXCEPT ![t] = "reserved"]
        /\ ~pipeline_status.destructive_busy /\ ~pipeline_status.scanning_exclusive
    BY <1>1 DEF ReserveEnqueueSlot
  <2>2. \A u \in Tasks : ~Destructive(u) /\ ~Exclusive(u)
    BY <2>1 DEF GateInv, TeardownFlag, ScanFlags, Exclusive, OwnsBusy, Destructive
  <2> QED BY <2>1, <2>2
          DEF Mapped, Gate!Next, Gate!AcceptUpload, Exclusive, Destructive, OwnsBusy,
              Scanning, HoldsSlot, SlotHolders, RunLabels, DestructiveLabels, SingleLabels
<1>2. CASE ScanBegin(t)
  <2>1. /\ Kind[t] = "scan" /\ pc[t] = "idle" /\ pc' = [pc EXCEPT ![t] = "s_begin"]
        /\ ~pipeline_status.busy /\ ~pipeline_status.scanning
        /\ pipeline_status.pending_enqueues = 0
    BY <1>2 DEF ScanBegin
  <2>2. \A u \in Tasks : ~OwnsBusy(u) /\ ~HoldsSlot(u) /\ ~Scanning(u)
    BY <2>1, NoSlots DEF GateInv, OneOwner, ScanFlags
  <2>3. \A u \in Tasks : ~Exclusive(u)
    BY <2>2 DEF GateInv, KindsInPlace, Exclusive, Scanning
  <2> QED BY <2>1, <2>2, <2>3
          DEF Mapped, Gate!Next, Gate!BeginScan, Exclusive, Destructive, OwnsBusy,
              Scanning, HoldsSlot, SlotHolders, RunLabels, DestructiveLabels, SingleLabels
<1>3. CASE AcquireDestructiveBusy(t)
  <2>1. /\ Kind[t] \in {"delete", "clear", "reingest"} /\ pc[t] = "idle"
        /\ pc' = [pc EXCEPT ![t] = "c_reset"] \/ pc' = [pc EXCEPT ![t] = "announce"]
        /\ ~pipeline_status.busy /\ ~pipeline_status.scanning
        /\ pipeline_status.pending_enqueues = 0
    BY <1>3 DEF AcquireDestructiveBusy
  <2>2. \A u \in Tasks : ~OwnsBusy(u) /\ ~HoldsSlot(u) /\ ~Scanning(u)
    BY <2>1, NoSlots DEF GateInv, OneOwner, ScanFlags
  <2> QED BY <2>1, <2>2
          DEF Mapped, Gate!Next, Gate!BeginTeardown, Exclusive, Destructive, OwnsBusy,
              Scanning, HoldsSlot, SlotHolders, RunLabels, DestructiveLabels, SingleLabels
<1>4. CASE WebhookDelete(t)
  <2>1. /\ Kind[t] = "webhook_delete" /\ pc[t] = "idle"
        /\ pc' = [pc EXCEPT ![t] = IF pipeline_status.busy THEN "x_join" ELSE "x_own"]
    BY <1>4 DEF WebhookDelete
  <2>2. OthersStay(t) /\ GuestKept(t)
    BY <2>1 DEF OthersStay, GuestKept, HoldsSlot, Scanning, Exclusive
  <2>3. CASE pipeline_status.busy
    BY <2>1, <2>2, <2>3, QuietStutters
       DEF Mapped, Quiet, JobKept, OwnsBusy, Destructive, RunLabels,
           DestructiveLabels, SingleLabels
  <2>4. CASE ~pipeline_status.busy
    <3>1. OwnsBusy(t)' /\ ~Destructive(t)'
      BY <2>1, <2>4 DEF OwnsBusy, Destructive, RunLabels, DestructiveLabels, SingleLabels
    <3> QED BY <2>2, <2>4, <3>1, JobBegins DEF Mapped, Gate!Next
  <2> QED BY <2>3, <2>4
<1>5. CASE Insert(t) \/ Reprocess(t) \/ StopRead(t)
  <2>1. Quiet(t)
    BY <1>5 DEF Insert, Reprocess, StopRead, Quiet, OthersStay, GuestKept, JobKept,
       OwnsBusy, Destructive, Scanning, HoldsSlot, Exclusive, RunLabels,
       DestructiveLabels, SingleLabels
  <2> QED BY <2>1, QuietStutters DEF Mapped
<1> QED BY <1>1, <1>2, <1>3, <1>4, <1>5 DEF Request

\* A step of Admission or a stutter: the upload's own steps.
LEMMA MapUpload ==
    ASSUME TypeOK, GateInv, NEW t \in Tasks, Upload(t)
    PROVE  Mapped
<1> USE DEF At, Goto, TypeOK, Exclusive, Destructive, OwnsBusy, Scanning, HoldsSlot,
            RunLabels, DestructiveLabels, SingleLabels
<1>1. CASE AcceptUpload(t)
  BY <1>1, QuietStutters DEF AcceptUpload, Mapped, Quiet, OthersStay, GuestKept, JobKept
<1>2. CASE ReleaseEnqueueSlot(t)
  <2>1. Kind[t] = "upload" /\ pc[t] = "release" /\ pc' = [pc EXCEPT ![t] = "idle"]
    BY <1>2 DEF ReleaseEnqueueSlot, GateInv, KindsInPlace
  <2> QED BY <2>1 DEF Mapped, Gate!Next, Gate!FinishUpload, SlotHolders
<1> QED BY <1>1, <1>2 DEF Upload

\* A step of Admission or a stutter: the steps of apipeline_enqueue_documents.
LEMMA MapEnqueue ==
    ASSUME TypeOK, NEW t \in Tasks, Enqueue(t)
    PROVE  Mapped
<1>1. Quiet(t)
  BY DEF Enqueue, EnqueueGuard, EnqueueError, EnqueueStore, EnqueueNudge, EnqueueDone,
         AfterProcess, At, Goto, TypeOK, Quiet, OthersStay, GuestKept, JobKept,
         Exclusive, Destructive, OwnsBusy, Scanning, HoldsSlot,
         RunLabels, DestructiveLabels, SingleLabels
<1> QED BY <1>1, QuietStutters DEF Mapped

\* A step of Admission or a stutter: the steps of the processing loop.
LEMMA MapProcess ==
    ASSUME TypeOK, GateInv, NEW t \in Tasks, Process(t)
    PROVE  Mapped
<1> USE DEF At, Goto, TypeOK, OthersStay, GuestKept, Exclusive, Destructive, OwnsBusy,
            Scanning, HoldsSlot, RunLabels, DestructiveLabels, SingleLabels
<1>1. CASE ProcessStart(t)
  <2>1. pc[t] = "start" /\ OthersStay(t) /\ GuestKept(t)
    BY <1>1 DEF ProcessStart, AfterProcess
  <2>2. CASE pipeline_status.busy \/ InFlight = {}
    <3>1. JobKept(t)
      BY <1>1, <2>2 DEF ProcessStart, AfterProcess, JobKept
    <3> QED BY <2>1, <3>1, QuietStutters DEF Quiet, Mapped
  <2>3. CASE ~pipeline_status.busy /\ InFlight # {}
    <3>1. OwnsBusy(t)' /\ ~Destructive(t)'
      BY <1>1, <2>3 DEF ProcessStart
    <3> QED BY <2>1, <2>3, <3>1, JobBegins DEF Mapped, Gate!Next
  <2> QED BY <2>2, <2>3
<1>2. CASE ProcessExit(t)
  <2>1. OthersStay(t) /\ GuestKept(t)
    BY <1>2 DEF ProcessExit
  <2>2. CASE pipeline_status.request_pending
    BY <1>2, <2>1, <2>2, QuietStutters DEF ProcessExit, Quiet, JobKept, Mapped
  <2>3. CASE ~pipeline_status.request_pending
    <3>1. ~OwnsBusy(t)' /\ ~Destructive(t)'
      BY <1>2, <2>3 DEF ProcessExit
    <3> QED BY <2>1, <3>1, JobEnds DEF Mapped, Gate!Next
  <2> QED BY <2>2, <2>3
<1>3. CASE ProcessFinal(t)
  <2>1. OthersStay(t) /\ GuestKept(t) /\ ~OwnsBusy(t)' /\ ~Destructive(t)'
    BY <1>3 DEF ProcessFinal, AfterProcess
  <2> QED BY <2>1, JobEnds DEF Mapped, Gate!Next
<1>4. CASE ProcessTop(t) \/ ProcessCheck(t) \/ BatchTake(t) \/ BatchFinish(t) \/ BatchSkip(t)
           \/ BatchDone(t) \/ ProcessRefetch(t) \/ ProcessFault(t)
  <2>1. OthersStay(t) /\ GuestKept(t) /\ JobKept(t)
    BY <1>4 DEF ProcessTop, ProcessCheck, BatchTake, BatchFinish, BatchSkip, BatchDone,
                ProcessRefetch, ProcessFault, JobKept
  <2> QED BY <2>1, QuietStutters DEF Quiet, Mapped
<1> QED BY <1>1, <1>2, <1>3, <1>4 DEF Process

\* A step of Admission or a stutter: the steps of a scan.
LEMMA MapScan ==
    ASSUME TypeOK, GateInv, NEW t \in Tasks, Scan(t)
    PROVE  Mapped
<1> USE DEF At, Goto, TypeOK, Exclusive, Destructive, OwnsBusy, Scanning, HoldsSlot,
            RunLabels, DestructiveLabels, SingleLabels
<1>1. ASSUME pc' = [pc EXCEPT ![t] = "idle"], pc[t] \in {"s_begin", "s_final"}
      PROVE  Mapped
  BY <1>1 DEF GateInv, KindsInPlace, Mapped, Gate!Next, Gate!FinishScan, SlotHolders
<1>2. CASE ScanList(t)
  <2>1. CASE pc' = [pc EXCEPT ![t] = "idle"]
    BY <1>1, <1>2, <2>1 DEF ScanList
  <2>2. CASE pc' = [pc EXCEPT ![t] = "classify"]
    BY <1>2, <2>2, QuietStutters DEF ScanList, Quiet, OthersStay, GuestKept, JobKept, Mapped
  <2> QED BY <1>2, <2>1, <2>2 DEF ScanList
<1>3. CASE ScanClassify(t)
  BY <1>3, QuietStutters DEF ScanClassify, Quiet, OthersStay, GuestKept, JobKept, Mapped
<1>4. CASE ScanClassified(t)
  BY <1>4 DEF ScanClassified, Mapped, Gate!Next, Gate!EndClassification, SlotHolders
<1>5. CASE ScanFinish(t)
  BY <1>1, <1>5 DEF ScanFinish
<1>6. CASE ScanFault(t)
  BY <1>6 DEF ScanFault, Mapped, Gate!Next, Gate!EndClassification, SlotHolders
<1> QED BY <1>2, <1>3, <1>4, <1>5, <1>6 DEF Scan

\* A step of Admission or a stutter: the steps of deletion, re-ingestion and clear.
LEMMA MapDestroy ==
    ASSUME TypeOK, GateInv, NEW t \in Tasks, Destroy(t)
    PROVE  Mapped
<1> USE DEF At, Goto, TypeOK, OthersStay, GuestKept, Exclusive, Destructive, OwnsBusy,
            Scanning, HoldsSlot, RunLabels, DestructiveLabels, SingleLabels
<1>1. CASE DeleteFinal(t) \/ ReingestRelease(t) \/ ClearFinal(t)
  <2>1. OthersStay(t) /\ GuestKept(t) /\ ~OwnsBusy(t)' /\ ~Destructive(t)'
    BY <1>1 DEF DeleteFinal, ReingestRelease, ClearFinal, GateInv, KindsInPlace
  <2> QED BY <2>1, JobEnds DEF Mapped, Gate!Next
<1>2. CASE Announce(t)
  <2>1. CASE pc' = [pc EXCEPT ![t] = "idle"]
    <3>1. OthersStay(t) /\ GuestKept(t) /\ ~OwnsBusy(t)' /\ ~Destructive(t)'
      BY <1>2, <2>1 DEF Announce
    <3> QED BY <3>1, JobEnds DEF Mapped, Gate!Next
  <2>2. CASE pc' = [pc EXCEPT ![t] = "loop"]
    BY <1>2, <2>2, QuietStutters DEF Announce, Quiet, JobKept, Mapped
  <2> QED BY <1>2, <2>1, <2>2 DEF Announce
<1>3. CASE DeleteOne(t) \/ DeleteLoopDone(t) \/ ReingestFinal(t) \/ ClearReset(t) \/ ClearDrop(t)
  <2>1. OthersStay(t) /\ GuestKept(t) /\ JobKept(t)
    BY <1>3 DEF DeleteOne, DeleteLoopDone, ReingestFinal, ClearReset, ClearDrop, JobKept,
                GateInv, KindsInPlace
  <2> QED BY <2>1, QuietStutters DEF Quiet, Mapped
<1> QED BY <1>1, <1>2, <1>3 DEF Destroy

\* A step of Admission or a stutter: the steps of a webhook deletion.
LEMMA MapWebhook ==
    ASSUME TypeOK, GateInv, NEW t \in Tasks, Webhook(t) \/ Stop(t)
    PROVE  Mapped
<1> USE DEF At, Goto, TypeOK, OthersStay, GuestKept, Exclusive, Destructive, OwnsBusy,
            Scanning, HoldsSlot, RunLabels, DestructiveLabels, SingleLabels
<1>1. CASE WebhookRelease(t)
  <2>1. OthersStay(t) /\ GuestKept(t) /\ ~OwnsBusy(t)' /\ ~Destructive(t)'
    BY <1>1 DEF WebhookRelease, GateInv, KindsInPlace
  <2> QED BY <2>1, JobEnds DEF Mapped, Gate!Next
<1>2. CASE WebhookRemove(t) \/ Stop(t)
  <2>1. OthersStay(t) /\ GuestKept(t) /\ JobKept(t)
    BY <1>2 DEF WebhookRemove, Stop, StopWrite, StopCancel, JobKept, GateInv, KindsInPlace
  <2> QED BY <2>1, QuietStutters DEF Quiet, Mapped
<1> QED BY <1>1, <1>2 DEF Webhook

-----------------------------------------------------------------------------
\* The initial states map to initial states.
LEMMA MapInit == Init => Gate!Init
BY DEF Init, Gate!Init, SlotHolders, HoldsSlot, Scanning, OwnsBusy, Destructive,
       RunLabels, DestructiveLabels, SingleLabels

\* Every step maps to a step or a stutter.
LEMMA MapStep == TypeOK /\ GateInv /\ [Next]_vars => [Gate!Next]_Gate!inside
<1> SUFFICES ASSUME TypeOK, GateInv, [Next]_vars PROVE Mapped
  BY DEF Mapped, Stutter
<1>1. CASE UNCHANGED vars \/ CancelPipeline
  <2>1. UNCHANGED pc
    BY <1>1 DEF vars, CancelPipeline
  <2> QED BY <2>1 DEF Mapped, Stutter, Gate!inside, SlotHolders, HoldsSlot, Scanning,
                      OwnsBusy, Destructive
<1>2. ASSUME NEW t \in Tasks, Request(t) \/ Progress(t) PROVE Mapped
  BY <1>2, MapRequest, MapUpload, MapEnqueue, MapProcess, MapScan, MapDestroy, MapWebhook
     DEF Progress
<1> QED BY <1>1, <1>2 DEF Next

\* The pipeline with its flags implements the admission rules without them,
\* whatever tasks there are and whichever faults strike.
THEOREM AdmissionTheorem == Spec => ImplementsAdmission
<1>1. Init => Gate!Init
  BY MapInit
<1>2. TypeOK /\ GateInv /\ [Next]_vars => [Gate!Next]_Gate!inside
  BY MapStep
<1> QED BY <1>1, <1>2, TypeCorrect, GateCorrect, PTL DEF Spec, Gate!Spec, ImplementsAdmission

-----------------------------------------------------------------------------
(* The hand-off.  While no run is cancelled or fails, and the pipeline is    *)
(* only taken by runs and batch deletions, a task that finds it taken can    *)
(* leave a note and go: the owner will read it before it lets go.            *)

\* The requests whose tasks read the note, or leave one.  A clear, a webhook
\* deletion and a re-ingestion let go without reading it; a stop cancels.
HandingOver == {"upload", "insert", "scan", "delete", "reprocess"}

\* Where an owner is that will read the note.
Reader(t) == pc[t] \in {"top", "check", "batch", "exit", "refetch", "announce", "loop", "d_final"}

HandInv ==
    /\ ~pipeline_status.cancellation_requested
    /\ \A t \in Tasks : pc[t] \notin {"final_held", "r_release", "r_final", "c_reset", "c_drop", "c_final",
                                      "x_own", "x_own_final", "x_join", "stop_write", "stop_cancel"}
    /\ \A t \in resume : Kind[t] = "scan"
    /\ \A t \in Tasks : pc[t] \in {"top", "check"} => keep[t] \subseteq work[t]
    /\ pipeline_status.busy => \E t \in Tasks : Reader(t)

LEMMA HandRequest ==
    ASSUME TypeOK, HandInv, \A u \in Tasks : Kind[u] \in HandingOver,
           NEW t \in Tasks, Request(t)
    PROVE  HandInv'
<1> USE DEF Goto, At, HandInv, Reader, HandingOver, Arrives, TypeOK, PipelineStatus
<1>1. CASE ReserveEnqueueSlot(t)
  BY <1>1 DEF ReserveEnqueueSlot, docs, locals
<1>2. CASE Insert(t)
  BY <1>2 DEF Insert, docs
<1>3. CASE Reprocess(t)
  BY <1>3 DEF Reprocess, docs, locals
<1>4. CASE ScanBegin(t)
  BY <1>4 DEF ScanBegin, docs, locals
<1>5. CASE AcquireDestructiveBusy(t)
  BY <1>5 DEF AcquireDestructiveBusy, docs
<1>6. CASE WebhookDelete(t) \/ StopRead(t)
  BY <1>6 DEF WebhookDelete, StopRead
<1> QED BY <1>1, <1>2, <1>3, <1>4, <1>5, <1>6 DEF Request

LEMMA HandEnqueue ==
    ASSUME TypeOK, HandInv, \A u \in Tasks : Kind[u] \in HandingOver,
           NEW t \in Tasks, Upload(t) \/ Enqueue(t)
    PROVE  HandInv'
<1> USE DEF Goto, At, HandInv, Reader, HandingOver, TypeOK, PipelineStatus
<1>1. CASE Upload(t)
  BY <1>1 DEF Upload, AcceptUpload, ReleaseEnqueueSlot, docs, locals
<1>2. CASE EnqueueGuard(t) \/ EnqueueError(t)
  BY <1>2 DEF EnqueueGuard, EnqueueError, docs
<1>3. CASE EnqueueStore(t)
  BY <1>3 DEF EnqueueStore, docs
<1>4. CASE EnqueueNudge(t)
  BY <1>4 DEF EnqueueNudge, docs
<1>5. CASE EnqueueDone(t)
  BY <1>5 DEF EnqueueDone, AfterProcess, docs
<1> QED BY <1>1, <1>2, <1>3, <1>4, <1>5 DEF Enqueue

LEMMA HandProcess ==
    ASSUME TypeOK, HandInv, "run" \notin Faults, \A u \in Tasks : Kind[u] \in HandingOver,
           NEW t \in Tasks, Process(t)
    PROVE  HandInv'
<1> USE DEF Goto, At, HandInv, Reader, HandingOver, TypeOK, PipelineStatus
<1>1. CASE ProcessStart(t)
  <2>1. CASE pipeline_status.busy
    <3>1. PICK u \in Tasks : Reader(u)
      BY <2>1
    <3>2. /\ pipeline_status' = [pipeline_status EXCEPT !.request_pending = TRUE]
          /\ AfterProcess(t) /\ UNCHANGED <<work, keep>> /\ pc[t] = "start"
      BY <1>1, <2>1 DEF ProcessStart
    <3>3. pc' = [pc EXCEPT ![t] = pc'[t]] /\ pc'[t] \in {"release", "start", "s_final", "idle"}
      BY <3>2 DEF AfterProcess
    <3> QED BY <3>1, <3>2, <3>3 DEF AfterProcess
  <2>2. CASE ~pipeline_status.busy /\ InFlight = {}
    BY <1>1, <2>2 DEF ProcessStart, AfterProcess, docs
  <2>3. CASE ~pipeline_status.busy /\ InFlight # {}
    <3>1. /\ pipeline_status' = [pipeline_status EXCEPT
               !.busy = TRUE, !.request_pending = FALSE,
               !.cancellation_requested = FALSE, !.deleting_job = FALSE]
          /\ Snapshot(t) /\ pc' = [pc EXCEPT ![t] = "top"] /\ UNCHANGED resume
      BY <1>1, <2>3 DEF ProcessStart
    <3>2. ~pipeline_status'.cancellation_requested
      BY <3>1
    <3>3. \A u \in Tasks : pc'[u] \in {"top", "check"} => keep'[u] \subseteq work'[u]
      BY <3>1 DEF Snapshot, InFlight
    <3> QED BY <3>1, <3>2, <3>3
  <2> QED BY <2>1, <2>2, <2>3
<1>2. CASE ProcessTop(t)
  BY <1>2 DEF ProcessTop, docs
<1>3. CASE ProcessCheck(t)
  BY <1>3 DEF ProcessCheck
<1>4. CASE BatchTake(t) \/ BatchFinish(t) \/ BatchSkip(t)
  BY <1>4 DEF BatchTake, BatchFinish, BatchSkip
<1>5. CASE BatchDone(t)
  BY <1>5 DEF BatchDone, docs, locals
<1>6. CASE ProcessExit(t)
  BY <1>6 DEF ProcessExit, docs, locals
<1>7. CASE ProcessRefetch(t)
  BY <1>7 DEF ProcessRefetch, Snapshot, docs
<1>8. CASE ProcessFault(t)
  BY <1>8 DEF ProcessFault
<1>9. CASE ProcessFinal(t)
  BY <1>9 DEF ProcessFinal, AfterProcess, docs
<1> QED BY <1>1, <1>2, <1>3, <1>4, <1>5, <1>6, <1>7, <1>8, <1>9 DEF Process

LEMMA HandScan ==
    ASSUME TypeOK, GateInv, HandInv, "run" \notin Faults, NEW t \in Tasks, Scan(t)
    PROVE  HandInv'
<1> USE DEF Goto, At, HandInv, Reader, TypeOK, PipelineStatus
<1>1. CASE ScanList(t)
  BY <1>1 DEF ScanList, GateInv, KindsInPlace, docs
<1>2. CASE ScanClassify(t)
  BY <1>2 DEF ScanClassify, GateInv, KindsInPlace
<1>3. CASE ScanClassified(t)
  BY <1>3 DEF ScanClassified, docs, locals
<1>4. CASE ScanFault(t)
  BY <1>4 DEF ScanFault
<1>5. CASE ScanFinish(t)
  BY <1>5 DEF ScanFinish, docs, locals
<1> QED BY <1>1, <1>2, <1>3, <1>4, <1>5 DEF Scan

LEMMA HandDestroy ==
    ASSUME TypeOK, GateInv, HandInv, \A u \in Tasks : Kind[u] \in HandingOver,
           NEW t \in Tasks, Destroy(t)
    PROVE  HandInv'
<1> USE DEF Goto, At, HandInv, Reader, HandingOver, TypeOK, PipelineStatus
<1>1. CASE Announce(t)
  BY <1>1 DEF Announce, docs
<1>2. CASE DeleteOne(t)
  BY <1>2 DEF DeleteOne
<1>3. CASE DeleteLoopDone(t)
  BY <1>3 DEF DeleteLoopDone, docs
<1>4. CASE DeleteFinal(t)
  BY <1>4 DEF DeleteFinal, docs, locals
<1>5. CASE ReingestRelease(t) \/ ReingestFinal(t) \/ ClearReset(t) \/ ClearDrop(t) \/ ClearFinal(t)
  BY <1>5 DEF ReingestRelease, ReingestFinal, ClearReset, ClearDrop, ClearFinal
<1> QED BY <1>1, <1>2, <1>3, <1>4, <1>5 DEF Destroy

LEMMA HandStep ==
    ASSUME TypeOK, GateInv, HandInv, "run" \notin Faults, ~CancelAllowed,
           \A u \in Tasks : Kind[u] \in HandingOver, [Next]_vars
    PROVE  HandInv'
<1>1. CASE UNCHANGED vars
  BY <1>1 DEF vars, docs, locals, HandInv, Reader
<1>2. CASE CancelPipeline
  BY <1>2 DEF CancelPipeline
<1>3. ASSUME NEW t \in Tasks, Request(t) \/ Progress(t) PROVE HandInv'
  <2>1. CASE Webhook(t) \/ Stop(t)
    BY <2>1 DEF Webhook, WebhookRemove, WebhookRelease, Stop, StopWrite, StopCancel, At, HandInv
  <2> QED BY <1>3, <2>1, HandRequest, HandEnqueue, HandProcess, HandScan, HandDestroy DEF Progress
<1> QED BY <1>1, <1>2, <1>3 DEF Next

\* What task t does for document d.
Attends(t, d) ==
    \/ pc[t] \in {"top", "check", "batch"} /\ d \in work[t]
    \/ /\ pc[t] \in {"top", "check", "batch", "exit", "loop", "announce", "d_final"}
       /\ pipeline_status.request_pending
    \/ pc[t] \in {"refetch", "nudge", "start"}
    \/ t \in enqueued \cup resume

LEMMA AttendedBy == \A d : Attended(d) <=> \E t \in Tasks : Attends(t, d)
BY DEF Attended, Attends

\* The other tasks attend to what they did as long as the note stays.
LEMMA StaysAttended ==
    ASSUME TypeOK, NEW t \in Tasks, NEW d \in Docs, Attended(d),
           \A u \in Tasks \ {t} : pc'[u] = pc[u] /\ work'[u] = work[u],
           enqueued \ {t} \subseteq enqueued', resume \ {t} \subseteq resume',
           pipeline_status.request_pending => pipeline_status'.request_pending,
           Attends(t, d) => Attends(t, d)'
    PROVE  Attended(d)'
<1>1. PICK u \in Tasks : Attends(u, d)
  BY AttendedBy
<1>2. CASE u = t
  BY <1>1, <1>2 DEF Attended, Attends
<1>3. CASE u # t
  BY <1>1, <1>3 DEF Attended, Attends
<1> QED BY <1>2, <1>3

LEMMA StrandRequest ==
    ASSUME TypeOK, NoDocumentStranded, \A u \in Tasks : Kind[u] \in HandingOver,
           NEW t \in Tasks, Request(t)
    PROVE  NoDocumentStranded'
<1>1. /\ pc[t] = "idle" /\ UNCHANGED <<status, enqueued, resume>>
      /\ pc' = [pc EXCEPT ![t] = pc'[t]]
      /\ work' = [work EXCEPT ![t] = work'[t]]
      /\ pipeline_status'.request_pending = pipeline_status.request_pending
  <2>1. CASE ReserveEnqueueSlot(t) \/ Insert(t) \/ Reprocess(t)
    BY <2>1 DEF ReserveEnqueueSlot, Insert, Reprocess, Arrives, At, Goto, docs, locals, TypeOK,
       PipelineStatus
  <2>2. CASE ScanBegin(t) \/ AcquireDestructiveBusy(t)
    BY <2>2, ZenonT(40) DEF ScanBegin, AcquireDestructiveBusy, Arrives, At, Goto, docs, locals, TypeOK,
       PipelineStatus
  <2>3. CASE WebhookDelete(t) \/ StopRead(t)
    BY <2>3 DEF WebhookDelete, StopRead, Arrives, HandingOver
  <2> QED BY <2>1, <2>2, <2>3 DEF Request
<1>2. ASSUME NEW d \in Docs, Attended(d) PROVE Attended(d)'
  <2>1. Attends(t, d) => Attends(t, d)'
    BY <1>1 DEF Attends
  <2>2. \A u \in Tasks \ {t} : pc'[u] = pc[u] /\ work'[u] = work[u]
    BY <1>1 DEF TypeOK
  <2> QED BY <1>1, <1>2, <2>1, <2>2, StaysAttended
<1> QED BY <1>1, <1>2 DEF NoDocumentStranded

LEMMA StrandEnqueue ==
    ASSUME TypeOK, HandInv, NoDocumentStranded, \A u \in Tasks : Kind[u] \in HandingOver,
           NEW t \in Tasks, Upload(t) \/ Enqueue(t)
    PROVE  NoDocumentStranded'
<1>1. ASSUME UNCHANGED <<status, enqueued>>, resume' \in {resume, resume \ {t}},
             pc[t] \notin {"top", "check", "batch", "exit", "loop", "announce", "d_final",
                           "refetch", "nudge", "start"},
             pc' = [pc EXCEPT ![t] = pc'[t]], work' = [work EXCEPT ![t] = work'[t]],
             pipeline_status.request_pending => pipeline_status'.request_pending,
             t \in resume => t \in resume' \/ pc'[t] = "start"
      PROVE  NoDocumentStranded'
  <2>1. ASSUME NEW d \in Docs, Attended(d) PROVE Attended(d)'
    <3>1. Attends(t, d) => Attends(t, d)'
      BY <1>1 DEF Attends
    <3>2. \A u \in Tasks \ {t} : pc'[u] = pc[u] /\ work'[u] = work[u]
      BY <1>1 DEF TypeOK
    <3> QED BY <1>1, <2>1, <3>1, <3>2, StaysAttended
  <2> QED BY <1>1, <2>1 DEF NoDocumentStranded
<1>2. CASE Upload(t)
  BY <1>1, <1>2 DEF Upload, AcceptUpload, ReleaseEnqueueSlot, At, Goto, docs, locals, TypeOK, PipelineStatus
<1>3. CASE EnqueueGuard(t)
  BY <1>1, <1>3 DEF EnqueueGuard, At, Goto, docs, TypeOK
<1>4. ASSUME NEW d \in Docs, Attended(d), \/ EnqueueError(t) \/ EnqueueStore(t) \/ EnqueueNudge(t)
                                          \/ EnqueueDone(t)
      PROVE  Attended(d)'
  <2>1. CASE EnqueueError(t)
    BY <1>4, <2>1, StaysAttended DEF EnqueueError, Attends
  <2>2. CASE EnqueueStore(t)
    <3>1. Attends(t, d) => Attends(t, d)'
      BY <2>2 DEF EnqueueStore, At, Goto, Attends, TypeOK
    <3> QED BY <1>4, <2>2, <3>1, StaysAttended DEF EnqueueStore, Goto, TypeOK
  <2>3. CASE EnqueueNudge(t)
    <3>1. Attends(t, d)' /\ (pipeline_status.request_pending => pipeline_status'.request_pending)
      BY <2>3 DEF EnqueueNudge, At, Goto, Attends, TypeOK, PipelineStatus
    <3> QED BY <1>4, <2>3, <3>1, StaysAttended DEF EnqueueNudge, Goto, TypeOK
  <2>4. CASE EnqueueDone(t)
    <3>1. Attends(t, d) => Attends(t, d)'
      BY <2>4 DEF EnqueueDone, AfterProcess, At, Goto, Attends, TypeOK, HandInv
    <3> QED BY <1>4, <2>4, <3>1, StaysAttended DEF EnqueueDone, AfterProcess, Goto, TypeOK
  <2> QED BY <1>4, <2>1, <2>2, <2>3, <2>4
<1>5. CASE EnqueueError(t)
  BY <1>4, <1>5 DEF EnqueueError, NoDocumentStranded, TypeOK
<1>6. CASE EnqueueStore(t)
  <2>1. status' = status \/ pc'[t] = "nudge"
    BY <1>6 DEF EnqueueStore, Goto, docs, TypeOK
  <2>2. pc'[t] = "nudge" => \A d \in Docs : Attended(d)'
    BY DEF Attended
  <2> QED BY <1>4, <1>6, <2>1, <2>2 DEF NoDocumentStranded
<1>7. CASE EnqueueNudge(t) \/ EnqueueDone(t)
  BY <1>4, <1>7 DEF EnqueueNudge, EnqueueDone, NoDocumentStranded, docs
<1> QED BY <1>2, <1>3, <1>5, <1>6, <1>7 DEF Enqueue

\* The loop: it takes what it has read, and lets go only when no note was left.
LEMMA StrandProcess ==
    ASSUME TypeOK, HandInv, NoDocumentStranded, "run" \notin Faults,
           \A u \in Tasks : Kind[u] \in HandingOver,
           NEW t \in Tasks, Process(t)
    PROVE  NoDocumentStranded'
<1>1. CASE ProcessStart(t)
  <2>1. CASE pipeline_status.busy
    <3>1. PICK u \in Tasks : Reader(u)
      BY <2>1 DEF HandInv
    <3>2. /\ pipeline_status'.request_pending /\ pc[t] = "start"
          /\ pc' = [pc EXCEPT ![t] = pc'[t]]
      BY <1>1, <2>1 DEF ProcessStart, AfterProcess, Goto, At, TypeOK, PipelineStatus
    <3>3. u # t /\ pc'[u] = pc[u]
      BY <3>1, <3>2 DEF Reader, TypeOK
    <3>4. \A d \in Docs : Attended(d)'
      BY <3>1, <3>2, <3>3 DEF Attended, Reader
    <3> QED BY <3>4 DEF NoDocumentStranded
  <2>2. CASE ~pipeline_status.busy /\ InFlight = {}
    <3>1. \A d \in Docs : status'[d] # "pending"
      BY <1>1, <2>2 DEF ProcessStart, InFlight, docs
    <3> QED BY <3>1 DEF NoDocumentStranded
  <2>3. CASE ~pipeline_status.busy /\ InFlight # {}
    <3>1. pc'[t] = "top" /\ work'[t] = InFlight /\ status' = status
      BY <1>1, <2>3 DEF ProcessStart, Snapshot, Goto, docs, TypeOK
    <3>2. \A d \in Docs : status'[d] = "pending" => Attended(d)'
      BY <3>1 DEF Attended, InFlight
    <3> QED BY <3>2 DEF NoDocumentStranded
  <2> QED BY <2>1, <2>2, <2>3
<1>2. CASE ProcessRefetch(t)
  <2>1. pc'[t] = "top" /\ work'[t] = InFlight /\ status' = status
    BY <1>2 DEF ProcessRefetch, Snapshot, Goto, docs, TypeOK
  <2>2. \A d \in Docs : status'[d] = "pending" => Attended(d)'
    BY <2>1 DEF Attended, InFlight
  <2> QED BY <2>2 DEF NoDocumentStranded
<1>3. ASSUME ProcessTop(t) \/ BatchDone(t) \/ BatchTake(t) \/ BatchFinish(t) \/ BatchSkip(t)
      PROVE  NoDocumentStranded'
  <2>1. /\ UNCHANGED <<pipeline_status, enqueued, resume>>
        /\ pc' = [pc EXCEPT ![t] = pc'[t]] /\ work' = [work EXCEPT ![t] = work'[t]]
    BY <1>3 DEF ProcessTop, BatchDone, BatchTake, BatchFinish, BatchSkip, Goto, HandInv, TypeOK, locals
  <2>2. ASSUME NEW d \in Docs, status'[d] = "pending" PROVE status[d] = "pending"
    BY <1>3, <2>2 DEF ProcessTop, BatchDone, BatchTake, BatchFinish, BatchSkip, TypeOK, docs
  <2>3. ASSUME NEW d \in Docs, status'[d] = "pending", Attends(t, d) PROVE Attends(t, d)'
    <3>1. CASE ProcessTop(t)
      BY <2>1, <2>3, <3>1 DEF ProcessTop, Goto, At, HandInv, Attends, TypeOK
    <3>2. CASE BatchDone(t)
      BY <2>1, <2>3, <3>2 DEF BatchDone, Goto, At, Attends, TypeOK, locals
    <3>3. CASE BatchTake(t)
      BY <2>1, <2>3, <3>3 DEF BatchTake, Attends
    <3>4. CASE BatchFinish(t) \/ BatchSkip(t)
      <4>1. d \in work[t] => d \in work'[t]
        BY <2>3, <3>4 DEF BatchFinish, BatchSkip, TypeOK
      <4> QED BY <2>1, <2>3, <3>4, <4>1 DEF BatchFinish, BatchSkip, Attends
    <3> QED BY <1>3, <3>1, <3>2, <3>3, <3>4
  <2>4. \A u \in Tasks \ {t} : pc'[u] = pc[u] /\ work'[u] = work[u]
    BY <2>1 DEF TypeOK
  <2> QED BY <2>1, <2>2, <2>3, <2>4, StaysAttended DEF NoDocumentStranded
<1>4. CASE ProcessCheck(t)
  <2>1. /\ UNCHANGED <<pipeline_status, full_docs, enqueued, resume>> /\ pc[t] = "check"
        /\ keep[t] \subseteq work[t]
        /\ work' = [work EXCEPT ![t] = work[t] \cap full_docs]
        /\ pc' = [pc EXCEPT ![t] = IF work[t] \cap full_docs = {} THEN "exit" ELSE "batch"]
    BY <1>4 DEF ProcessCheck, Goto, At, HandInv
  <2>2. \A d \in Docs : status'[d] = "pending" =>
            /\ status[d] = "pending" \/ d \in work[t] \cap full_docs
            /\ d \in work[t] => d \in full_docs
    BY <1>4, <2>1 DEF ProcessCheck
  <2>3. ASSUME NEW d \in Docs, status'[d] = "pending", Attended(d) PROVE Attended(d)'
    <3>1. Attends(t, d) => Attends(t, d)'
      BY <2>1, <2>2, <2>3 DEF Attends, TypeOK
    <3>2. \A u \in Tasks \ {t} : pc'[u] = pc[u] /\ work'[u] = work[u]
      BY <2>1 DEF TypeOK
    <3> QED BY <2>1, <2>3, <3>1, <3>2, StaysAttended
  <2>4. ASSUME NEW d \in Docs, d \in work[t] \cap full_docs PROVE Attended(d)'
    <3>1. pc'[t] = "batch" /\ d \in work'[t]
      BY <2>1, <2>4 DEF TypeOK
    <3> QED BY <3>1 DEF Attended
  <2> QED BY <2>2, <2>3, <2>4 DEF NoDocumentStranded
<1>5. CASE ProcessExit(t)
  <2>1. CASE pipeline_status.request_pending
    <3>1. pc'[t] = "refetch"
      BY <1>5, <2>1 DEF ProcessExit, Goto, TypeOK
    <3> QED BY <3>1 DEF NoDocumentStranded, Attended
  <2>2. CASE ~pipeline_status.request_pending
    <3>1. /\ pc[t] = "exit" /\ pc' = [pc EXCEPT ![t] = "final_released"]
          /\ UNCHANGED <<status, work, enqueued, resume>>
      BY <1>5, <2>2 DEF ProcessExit, Goto, At, docs, locals
    <3>2. ASSUME NEW d \in Docs, Attended(d) PROVE Attended(d)'
      <4>1. Attends(t, d) => Attends(t, d)'
        BY <2>2, <3>1 DEF Attends
      <4>2. \A u \in Tasks \ {t} : pc'[u] = pc[u]
        BY <3>1 DEF TypeOK
      <4> QED BY <2>2, <3>1, <3>2, <4>1, <4>2, StaysAttended
    <3> QED BY <3>1, <3>2 DEF NoDocumentStranded
  <2> QED BY <2>1, <2>2
<1>6. CASE ProcessFinal(t)
  <2>1. /\ pc[t] = "final_released" /\ UNCHANGED <<status, work, enqueued>>
        /\ AfterProcess(t) /\ pipeline_status'.request_pending = pipeline_status.request_pending
    BY <1>6 DEF ProcessFinal, HandInv, docs, TypeOK, PipelineStatus
  <2>2. ASSUME NEW d \in Docs, Attended(d) PROVE Attended(d)'
    <3>1. Attends(t, d) => Attends(t, d)'
      BY <2>1 DEF AfterProcess, Goto, Attends, HandInv, TypeOK
    <3>2. \A u \in Tasks \ {t} : pc'[u] = pc[u]
      BY <2>1 DEF AfterProcess, Goto, TypeOK
    <3> QED BY <2>1, <2>2, <3>1, <3>2, StaysAttended DEF AfterProcess
  <2> QED BY <2>1, <2>2 DEF NoDocumentStranded
<1>7. CASE ProcessFault(t)
  BY <1>7 DEF ProcessFault
<1> QED BY <1>1, <1>2, <1>3, <1>4, <1>5, <1>6, <1>7 DEF Process

LEMMA StrandScan ==
    ASSUME TypeOK, NoDocumentStranded, "run" \notin Faults, NEW t \in Tasks, Scan(t)
    PROVE  NoDocumentStranded'
<1>1. /\ pc[t] \in {"s_begin", "classify", "s_final"} /\ UNCHANGED enqueued
      /\ pc' = [pc EXCEPT ![t] = pc'[t]] /\ work' = [work EXCEPT ![t] = work'[t]]
      /\ resume \subseteq resume'
      /\ pipeline_status'.request_pending = pipeline_status.request_pending
  <2>1. CASE ScanList(t)
    BY <2>1 DEF ScanList, Goto, At, TypeOK
  <2>2. CASE ScanClassify(t)
    BY <2>2 DEF ScanClassify, At, TypeOK
  <2>3. CASE ScanClassified(t) \/ ScanFinish(t)
    BY <2>3 DEF ScanClassified, ScanFinish, Goto, At, locals, TypeOK, PipelineStatus
  <2>4. CASE ScanFault(t)
    BY <2>4 DEF ScanFault
  <2> QED BY <2>1, <2>2, <2>3, <2>4 DEF Scan
<1>2. \A d \in Docs : status'[d] = "pending" => status[d] = "pending"
  BY DEF Scan, ScanList, ScanClassify, ScanClassified, ScanFault, ScanFinish, docs, TypeOK
<1>3. ASSUME NEW d \in Docs, Attended(d) PROVE Attended(d)'
  <2>1. Attends(t, d) => Attends(t, d)'
    BY <1>1 DEF Attends
  <2>2. \A u \in Tasks \ {t} : pc'[u] = pc[u] /\ work'[u] = work[u]
    BY <1>1 DEF TypeOK
  <2> QED BY <1>1, <1>3, <2>1, <2>2, StaysAttended
<1> QED BY <1>2, <1>3 DEF NoDocumentStranded

LEMMA StrandDestroy ==
    ASSUME TypeOK, GateInv, HandInv, NoDocumentStranded,
           \A u \in Tasks : Kind[u] \in HandingOver, NEW t \in Tasks, Destroy(t)
    PROVE  NoDocumentStranded'
<1>1. /\ pc[t] \in {"announce", "loop", "d_final"} /\ UNCHANGED <<enqueued, resume>>
      /\ pc' = [pc EXCEPT ![t] = pc'[t]] /\ work' = [work EXCEPT ![t] = work'[t]]
      /\ pipeline_status'.request_pending = pipeline_status.request_pending
      /\ pipeline_status.request_pending => pc'[t] \in {"loop", "d_final", "start"}
  <2>1. CASE Announce(t)
    BY <2>1 DEF Announce, Goto, At, HandingOver, TypeOK, PipelineStatus
  <2>2. CASE DeleteOne(t)
    BY <2>2 DEF DeleteOne, At, TypeOK
  <2>3. CASE DeleteLoopDone(t)
    BY <2>3 DEF DeleteLoopDone, Goto, At, HandingOver, TypeOK
  <2>4. CASE DeleteFinal(t)
    BY <2>4 DEF DeleteFinal, Goto, At, locals, TypeOK, PipelineStatus
  <2>5. CASE ReingestRelease(t) \/ ReingestFinal(t) \/ ClearReset(t) \/ ClearDrop(t) \/ ClearFinal(t)
    BY <2>5 DEF ReingestRelease, ReingestFinal, ClearReset, ClearDrop, ClearFinal, At, HandInv
  <2> QED BY <2>1, <2>2, <2>3, <2>4, <2>5 DEF Destroy
<1>2. \A d \in Docs : status'[d] = "pending" => status[d] = "pending"
  BY DEF Destroy, Announce, DeleteOne, Deleted, NotDeleted, DeleteLoopDone, DeleteFinal,
     ReingestRelease, ReingestFinal, ClearReset, ClearDrop, ClearFinal, docs, TypeOK
<1>3. ASSUME NEW d \in Docs, Attended(d) PROVE Attended(d)'
  <2>1. Attends(t, d) => Attends(t, d)'
    BY <1>1 DEF Attends, TypeOK
  <2>2. \A u \in Tasks \ {t} : pc'[u] = pc[u] /\ work'[u] = work[u]
    BY <1>1 DEF TypeOK
  <2> QED BY <1>1, <1>3, <2>1, <2>2, StaysAttended
<1> QED BY <1>2, <1>3 DEF NoDocumentStranded

LEMMA StrandStep ==
    ASSUME TypeOK, GateInv, HandInv, NoDocumentStranded, "run" \notin Faults, ~CancelAllowed,
           \A u \in Tasks : Kind[u] \in HandingOver, [Next]_vars
    PROVE  NoDocumentStranded'
<1>1. CASE UNCHANGED vars
  BY <1>1 DEF vars, docs, locals, NoDocumentStranded, Attended
<1>2. CASE CancelPipeline
  BY <1>2 DEF CancelPipeline
<1>3. ASSUME NEW t \in Tasks, Request(t) \/ Progress(t) PROVE NoDocumentStranded'
  <2>1. CASE Webhook(t) \/ Stop(t)
    BY <2>1 DEF Webhook, WebhookRemove, WebhookRelease, Stop, StopWrite, StopCancel, At, HandInv
  <2> QED BY <1>3, <2>1, StrandRequest, StrandEnqueue, StrandProcess, StrandScan, StrandDestroy
          DEF Progress
<1> QED BY <1>1, <1>2, <1>3 DEF Next

\* The atomic hand-off of _atomic_release_busy_or_consume_pending: while no run
\* fails or is cancelled, and only runs and batch deletions take the pipeline, a
\* document that waits always has somebody who will look at it, however uploads,
\* scans, runs, deletions and requests to reprocess follow each other.
THEOREM HandOffTheorem ==
    ASSUME "run" \notin Faults, ~CancelAllowed, \A t \in Tasks : Kind[t] \in HandingOver
    PROVE  Spec => []NoDocumentStranded
<1>1. Init => HandInv /\ NoDocumentStranded
  BY DEF Init, HandInv, NoDocumentStranded
<1>2. TypeOK /\ GateInv /\ (HandInv /\ NoDocumentStranded) /\ [Next]_vars
        => (HandInv /\ NoDocumentStranded)'
  BY HandStep, StrandStep
<1> QED BY <1>1, <1>2, TypeCorrect, GateCorrect, PTL DEF Spec

-----------------------------------------------------------------------------
(* What a worker takes up.  Nobody but the owner of the pipeline, a stop and *)
(* a webhook deletion touches a document that waits.                         *)

Runs(t) == pc[t] \in {"top", "check", "batch"}

\* A run has read as PENDING, or made so, whatever its workers have not taken;
\* what somebody without the pipeline has written since is on record.
Waiting ==
    \A t \in Tasks : Runs(t) => \A d \in (work[t] \ keep[t]) \ overridden : status[d] = "pending"

\* A step that leaves what waits, or records what it does to a batch.
Respects ==
    /\ overridden \subseteq overridden'
    /\ \A d \in Docs : \/ status[d] = "pending" => status'[d] = "pending"
                       \/ d \in overridden'
                       \/ \A u \in Tasks : Runs(u) => d \notin work[u]

\* A step of one task disturbs no run of another, unless it owns the pipeline
\* before or after, and then there is no other.
LEMMA WaitingKept ==
    ASSUME TypeOK, OneOwner, OneOwner', Waiting, NEW t \in Tasks,
           \A u \in Tasks \ {t} : pc'[u] = pc[u] /\ work'[u] = work[u] /\ keep'[u] = keep[u],
           Respects \/ OwnsBusy(t) \/ OwnsBusy(t)',
           Runs(t)' => \A d \in (work'[t] \ keep'[t]) \ overridden' : status'[d] = "pending"
    PROVE  Waiting'
<1>1. ASSUME NEW u \in Tasks, u # t, Runs(u)', NEW d \in (work'[u] \ keep'[u]) \ overridden'
      PROVE  status'[d] = "pending"
  <2>1. Runs(u) /\ d \in work[u] /\ d \notin keep[u] /\ d \in Docs
    BY <1>1 DEF TypeOK, Runs
  <2>2. OwnsBusy(u) /\ OwnsBusy(u)'
    BY <1>1, <2>1 DEF Runs, OwnsBusy, RunLabels
  <2>3. Respects
    BY <1>1, <2>2 DEF OneOwner
  <2>4. d \notin overridden
    BY <1>1, <2>3 DEF Respects
  <2>5. status[d] = "pending"
    BY <2>1, <2>4 DEF Waiting
  <2> QED BY <1>1, <2>1, <2>3, <2>5 DEF Respects
<1>2. ASSUME NEW u \in Tasks, Runs(u)', NEW d \in (work'[u] \ keep'[u]) \ overridden'
      PROVE  status'[d] = "pending"
  BY <1>1, <1>2
<1> QED BY <1>2 DEF Waiting

LEMMA WaitingStep ==
    ASSUME TypeOK, GateInv, GateInv', Waiting, [Next]_vars
    PROVE  Waiting'
<1>0. OneOwner /\ OneOwner'
  BY DEF GateInv
<1>1. CASE UNCHANGED vars \/ CancelPipeline
  BY <1>1 DEF vars, CancelPipeline, docs, locals, Waiting, Runs
<1>2. ASSUME NEW t \in Tasks, Request(t) \/ Upload(t) \/ Scan(t) \/ Enqueue(t) PROVE Waiting'
  <2>1. /\ \A u \in Tasks \ {t} : pc'[u] = pc[u] /\ work'[u] = work[u] /\ keep'[u] = keep[u]
        /\ \A d \in Docs : status[d] = "pending" => status'[d] = "pending"
        /\ overridden' = overridden /\ pc'[t] \notin {"top", "check", "batch"}
    <3>1. CASE Request(t)
      BY <3>1 DEF Request, ReserveEnqueueSlot, Insert, Reprocess, ScanBegin, AcquireDestructiveBusy,
         WebhookDelete, StopRead, Arrives, Goto, docs, locals, TypeOK
    <3>2. CASE Upload(t)
      BY <3>2 DEF Upload, AcceptUpload, ReleaseEnqueueSlot, Goto, At, docs, locals, TypeOK
    <3>3. CASE Scan(t)
      BY <3>3 DEF Scan, ScanList, ScanClassify, ScanClassified, ScanFault, ScanFinish, Goto, At, docs,
         locals, TypeOK
    <3>4. CASE Enqueue(t)
      BY <3>4 DEF Enqueue, EnqueueGuard, EnqueueError, EnqueueStore, EnqueueNudge, EnqueueDone,
         AfterProcess, Goto, At, docs, locals, TypeOK
    <3> QED BY <1>2, <3>1, <3>2, <3>3, <3>4
  <2>2. Respects /\ ~Runs(t)'
    BY <2>1 DEF Respects, Runs
  <2> QED BY <1>0, <2>1, <2>2, WaitingKept
<1>3. ASSUME NEW t \in Tasks, Process(t) PROVE Waiting'
  <2>1. \A u \in Tasks \ {t} : pc'[u] = pc[u] /\ work'[u] = work[u] /\ keep'[u] = keep[u]
    BY <1>3 DEF Process, ProcessStart, ProcessTop, ProcessCheck, BatchTake, BatchFinish, BatchSkip,
       BatchDone, ProcessExit, ProcessRefetch, ProcessFault, ProcessFinal, Snapshot, AfterProcess,
       Goto, locals, TypeOK
  <2>2. UNCHANGED <<status, overridden>> \/ OwnsBusy(t) \/ OwnsBusy(t)'
    BY <1>3 DEF Process, ProcessStart, ProcessTop, ProcessCheck, BatchTake, BatchFinish, BatchSkip,
       BatchDone, ProcessExit, ProcessRefetch, ProcessFault, ProcessFinal, At, OwnsBusy, RunLabels,
       docs, Goto, TypeOK
  <2>3. Respects \/ OwnsBusy(t) \/ OwnsBusy(t)'
    BY <2>2 DEF Respects
  <2>4. ASSUME Runs(t)'
        PROVE  \A d \in (work'[t] \ keep'[t]) \ overridden' : status'[d] = "pending"
    <3>1. CASE ProcessStart(t) \/ ProcessRefetch(t)
      <4>1. Snapshot(t) /\ status' = status
        BY <2>4, <3>1 DEF ProcessStart, ProcessRefetch, AfterProcess, Goto, docs, TypeOK, Runs
      <4> QED BY <4>1 DEF Snapshot, InFlight, TypeOK
    <3>2. CASE ProcessTop(t)
      BY <2>4, <3>2 DEF ProcessTop, Goto, At, docs, Waiting, TypeOK, Runs
    <3>3. CASE ProcessCheck(t)
      BY <2>4, <3>3 DEF ProcessCheck, At, Waiting, TypeOK, Runs
    <3>4. CASE BatchTake(t)
      BY <2>4, <3>4 DEF BatchTake, At, Waiting, TypeOK, Runs
    <3>5. CASE BatchFinish(t)
      BY <2>4, <3>5 DEF BatchFinish, At, Waiting, TypeOK, Runs
    <3>6. CASE BatchSkip(t)
      BY <2>4, <3>6 DEF BatchSkip, At, Waiting, TypeOK, Runs
    <3>7. CASE BatchDone(t) \/ ProcessExit(t) \/ ProcessFault(t) \/ ProcessFinal(t)
      BY <2>4, <3>7 DEF BatchDone, ProcessExit, ProcessFault, ProcessFinal, AfterProcess, Goto, TypeOK, Runs
    <3> QED BY <1>3, <3>1, <3>2, <3>3, <3>4, <3>5, <3>6, <3>7 DEF Process
  <2> QED BY <1>0, <2>1, <2>3, <2>4, WaitingKept
<1>4. ASSUME NEW t \in Tasks, Destroy(t) PROVE Waiting'
  <2>1. \A u \in Tasks \ {t} : pc'[u] = pc[u] /\ work'[u] = work[u] /\ keep'[u] = keep[u]
    BY <1>4 DEF Destroy, Announce, DeleteOne, DeleteLoopDone, DeleteFinal, ReingestRelease,
       ReingestFinal, ClearReset, ClearDrop, ClearFinal, Goto, locals, TypeOK
  <2>2. UNCHANGED <<status, overridden>> \/ OwnsBusy(t)
    BY <1>4 DEF Destroy, Announce, DeleteOne, DeleteLoopDone, DeleteFinal, ReingestRelease,
       ReingestFinal, ClearReset, ClearDrop, ClearFinal, At, OwnsBusy, DestructiveLabels, docs
  <2>3. pc'[t] \notin {"top", "check", "batch"}
    BY <1>4 DEF Destroy, Announce, DeleteOne, DeleteLoopDone, DeleteFinal, ReingestRelease,
       ReingestFinal, ClearReset, ClearDrop, ClearFinal, Goto, At, TypeOK
  <2>4. Respects \/ OwnsBusy(t)
    BY <2>2 DEF Respects
  <2>5. ~Runs(t)'
    BY <2>3 DEF Runs
  <2> QED BY <1>0, <2>1, <2>4, <2>5, WaitingKept
<1>5. ASSUME NEW t \in Tasks, Webhook(t) \/ Stop(t) PROVE Waiting'
  <2>1. /\ \A u \in Tasks \ {t} : pc'[u] = pc[u] /\ work'[u] = work[u] /\ keep'[u] = keep[u]
        /\ pc'[t] \notin {"top", "check", "batch"}
    BY <1>5 DEF Webhook, WebhookRemove, WebhookRelease, Stop, StopWrite, StopCancel, Goto, locals, TypeOK
  <2>2. \/ UNCHANGED <<status, overridden>>
        \/ \E d \in Docs : Override(d) /\ \A e \in Docs \ {d} : status'[e] = status[e]
    BY <1>5 DEF Webhook, WebhookRemove, Deleted, NotDeleted, WebhookRelease, Stop, StopWrite, StopCancel,
       docs, TypeOK
  <2>3. Respects
    BY <2>2 DEF Respects, Override, Runs
  <2>4. ~Runs(t)'
    BY <2>1 DEF Runs
  <2> QED BY <1>0, <2>1, <2>3, <2>4, WaitingKept
<1> QED BY <1>1, <1>2, <1>3, <1>4, <1>5 DEF Next, Progress

\* The one action property of the gate, for one step.
TakesPending ==
    \A d \in Docs \ overridden :
        status[d] # "working" /\ status'[d] = "working" => status[d] = "pending"

LEMMA TakenStep ==
    ASSUME TypeOK, Waiting, [Next]_vars
    PROVE  [TakesPending]_vars
<1>1. ASSUME NEW d \in Docs \ overridden, status[d] # "working", status'[d] = "working", Next
      PROVE  status[d] = "pending"
  <2>1. CASE CancelPipeline
    BY <1>1, <2>1 DEF CancelPipeline, docs
  <2>2. ASSUME NEW t \in Tasks, BatchTake(t) PROVE status[d] = "pending"
    BY <1>1, <2>2 DEF BatchTake, At, Waiting, Runs, TypeOK
  <2>3. ASSUME NEW t \in Tasks, Request(t) \/ Upload(t) \/ Enqueue(t) \/ Scan(t) PROVE FALSE
    BY <1>1, <2>3 DEF Request, ReserveEnqueueSlot, Insert, Reprocess, ScanBegin, AcquireDestructiveBusy,
       WebhookDelete, StopRead, Upload, AcceptUpload, ReleaseEnqueueSlot, Scan, ScanList, ScanClassify,
       ScanClassified, ScanFault, ScanFinish, Enqueue, EnqueueGuard, EnqueueError, EnqueueStore,
       EnqueueNudge, EnqueueDone, docs, TypeOK
  <2>4. ASSUME NEW t \in Tasks, Process(t), ~ BatchTake(t) PROVE FALSE
    BY <1>1, <2>4 DEF Process, ProcessStart, ProcessTop, ProcessCheck, BatchFinish, BatchSkip,
       BatchDone, ProcessExit, ProcessRefetch, ProcessFault, ProcessFinal, docs, TypeOK
  <2>5. ASSUME NEW t \in Tasks, Destroy(t) \/ Webhook(t) \/ Stop(t) PROVE FALSE
    BY <1>1, <2>5 DEF Destroy, Announce, DeleteOne, Deleted, NotDeleted, DeleteLoopDone, DeleteFinal,
       ReingestRelease, ReingestFinal, ClearReset, ClearDrop, ClearFinal, Webhook, WebhookRemove,
       WebhookRelease, Stop, StopWrite, StopCancel, docs, TypeOK
  <2> QED BY <1>1, <2>1, <2>2, <2>3, <2>4, <2>5 DEF Next, Progress
<1> QED BY <1>1 DEF TakesPending

\* For any tasks of any kind, whatever is cancelled or fails: a worker only takes
\* up what waits, and the only exception is a document of the running batch whose
\* row a stop or a webhook deletion has written since the batch read it.
THEOREM TakenTheorem == Spec => OnlyPendingTaken
<1>1. Init => Waiting
  BY DEF Init, Waiting, Runs
<1>2. TypeOK /\ GateInv /\ GateInv' /\ Waiting /\ [Next]_vars => Waiting'
  BY WaitingStep
<1>3. TypeOK /\ Waiting /\ [Next]_vars => [TakesPending]_vars
  BY TakenStep
<1>4. OnlyPendingTaken <=> [][TakesPending]_vars
  BY PTL DEF OnlyPendingTaken, TakesPending
<1> QED BY <1>1, <1>2, <1>3, <1>4, TypeCorrect, GateCorrect, PTL DEF Spec
=============================================================================
