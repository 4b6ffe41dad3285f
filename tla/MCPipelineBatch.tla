-------------------------- MODULE MCPipelineBatch ---------------------------
(* Small instances of PipelineBatch. *)
EXTENDS PipelineBatch

CONSTANTS a, b, wn, wm, wd, wa, wp

SmallQueues == [s \in Stages |-> 1]

OneWorkerEach == (wn :> "native") @@ (wm :> "mineru") @@ (wd :> "docling")
                 @@ (wa :> "analyze") @@ (wp :> "process")

\* Two files with the same text, for two parsers; the second may have lost its
\* content to a clear that did not get as far as doc_status, or may be a text
\* that was inserted directly.
PairBody      == (a :> "text") @@ (b :> "text")
PairEngine    == (a :> "native") @@ (b :> "mineru")
PairInitially == {(a :> "pending") @@ (b :> have) : have \in {"none", "pending", "parsed"}}
=============================================================================
