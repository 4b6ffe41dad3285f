------------------------------ MODULE Admission ------------------------------
(***************************************************************************)
(* What the flags of pipeline_status promise, without the flags: who may   *)
(* be inside at the same time.  Jobs own the pipeline one at a time; a     *)
(* teardown is a job that also excludes accepted uploads and scans; a scan *)
(* starts only when nothing else is inside, and admits uploads once its    *)
(* classification is over.                                                 *)
(***************************************************************************)
CONSTANT Tasks

VARIABLES owners,    \* the task that owns the pipeline, as a set
          teardown,  \* the owner, when it is tearing storages down
          slots,     \* uploads accepted and not finished
          scanners,  \* the running scan
          exclusive  \* the running scan, while it classifies

inside == <<owners, teardown, slots, scanners, exclusive>>

Init == /\ owners = {} /\ teardown = {} /\ slots = {}
        /\ scanners = {} /\ exclusive = {}

AcceptUpload(t) ==
    /\ teardown = {} /\ exclusive = {}
    /\ t \notin slots
    /\ slots' = slots \cup {t}
    /\ UNCHANGED <<owners, teardown, scanners, exclusive>>

FinishUpload(t) ==
    /\ slots' = slots \ {t}
    /\ UNCHANGED <<owners, teardown, scanners, exclusive>>

BeginScan(t) ==
    /\ owners = {} /\ slots = {} /\ scanners = {}
    /\ scanners' = {t} /\ exclusive' = {t}
    /\ UNCHANGED <<owners, teardown, slots>>

EndClassification(t) ==
    /\ exclusive' = exclusive \ {t}
    /\ UNCHANGED <<owners, teardown, slots, scanners>>

FinishScan(t) ==
    /\ scanners' = scanners \ {t} /\ exclusive' = exclusive \ {t}
    /\ UNCHANGED <<owners, teardown, slots>>

BeginJob(t) ==
    /\ owners = {}
    /\ owners' = {t}
    /\ UNCHANGED <<teardown, slots, scanners, exclusive>>

BeginTeardown(t) ==
    /\ owners = {} /\ slots = {} /\ scanners = {}
    /\ owners' = {t} /\ teardown' = {t}
    /\ UNCHANGED <<slots, scanners, exclusive>>

FinishJob(t) ==
    /\ owners' = owners \ {t} /\ teardown' = teardown \ {t}
    /\ UNCHANGED <<slots, scanners, exclusive>>

Next == \E t \in Tasks :
    \/ AcceptUpload(t) \/ FinishUpload(t)
    \/ BeginScan(t) \/ EndClassification(t) \/ FinishScan(t)
    \/ BeginJob(t) \/ BeginTeardown(t) \/ FinishJob(t)

Spec == Init /\ [][Next]_inside
=============================================================================
