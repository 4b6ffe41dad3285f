--------------------------- MODULE MCPipelineGate ---------------------------
(* Small populations of tasks for TLC.  Each is one mix of request kinds.   *)
EXTENDS PipelineGate, TLC

CONSTANTS t1, t2, t3, t4, t5, t6, t7

\* One of every kind but the batch deletion and the retry request: any three of
\* them may be asked for.
EveryKind ==
    (t1 :> "upload") @@ (t2 :> "insert") @@ (t3 :> "scan") @@ (t4 :> "reingest")
    @@ (t5 :> "clear") @@ (t6 :> "webhook_delete") @@ (t7 :> "stop")

\* Two uploads beside a scan, a batch deletion and a retry request.
HandoffKind ==
    (t1 :> "upload") @@ (t2 :> "upload") @@ (t3 :> "scan") @@ (t4 :> "delete")
    @@ (t5 :> "reprocess")
=============================================================================
