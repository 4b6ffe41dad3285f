---------------------------- MODULE DocDeletion ----------------------------
(***************************************************************************)
(* What a document leaves in the stores, and how it is taken out again:    *)
(* the storing stages of process_document (pipeline.py), the merge of its  *)
(* entities and relations (operate.py), the purge before it is processed   *)
(* again, and adelete_by_doc_id with the rebuild of what other documents   *)
(* share (madrag.py, operate.py).                                          *)
(*                                                                         *)
(* The graph is shared.  An entity or relation names the chunks it comes   *)
(* from twice, in the graph and in chunk tracking; a document's index      *)
(* (full_entities, full_relations) says which elements a deletion has to   *)
(* look at.  Every write may raise, or the process may end after it; a     *)
(* deletion may then be asked for again and the document processed again.  *)
(* One job runs at a time: the pipeline gate is another module.            *)
(*                                                                         *)
(* Chunk lists stay below the source-id limits, so that the graph and the  *)
(* tracking differ only when a write was lost.  A chunk has one cached     *)
(* extraction, named like the chunk.                                       *)
(***************************************************************************)
EXTENDS Naturals, FiniteSets

CONSTANTS
    Docs, Chunks,
    Chunkings,    \* the chunk sets a document's options can give
    Entities, Relations,
    Ends,         \* the two entities a relation joins
    Extracts,     \* what the model finds in a chunk
    MaxFaults,    \* bound on the failures in one behaviour
    None

Elements == Entities \cup Relations
Own(d)   == UNION Chunkings[d]

ASSUME DeletionAssumption ==
    /\ Chunkings \in [Docs -> SUBSET ((SUBSET Chunks) \ {{}})]
    /\ \A d, e \in Docs : d # e => Own(d) \cap Own(e) = {}
    /\ Ends \in [Relations -> SUBSET Entities]
    /\ Extracts \in [Chunks -> SUBSET Elements]
    /\ Entities \cap Relations = {}
    /\ Chunks \cap Elements = {}
    /\ MaxFaults \in Nat
    /\ None \notin Docs

VARIABLES
    row,        \* doc_status: none, waiting (pending, failed, processing), processed
    listed,     \* its chunks_list
    backup,     \* its metadata.deletion_llm_cache_ids
    full,       \* full_docs
    text, refs, \* text_chunks, and those whose llm_cache_list is filled
    cvec,       \* chunks_vdb
    cached,     \* llm_response_cache
    graph,      \* the chunks named by source_id; {}: not in the graph
    track,      \* entity_chunks and relation_chunks; {}: no record
    vec,        \* entities_vdb and relationships_vdb
    index,      \* full_entities and full_relations
    job,        \* the job that holds the pipeline
    faults,
    whole,      \* history: documents processed and not touched since
    missed      \* history: what the present attempt, or the last complete one, could not see

rows   == <<row, listed, backup, full>>
chunk  == <<text, refs, cvec, cached>>
shared == <<graph, track, vec, index>>
ghost  == <<faults, whole, missed>>
vars   == <<rows, chunk, shared, job, ghost>>

Idle == [kind |-> "none", doc |-> None, stage |-> "idle", wipe |-> FALSE,
         chunks |-> {}, ids |-> {}, drop |-> {}, keep |-> {}, todo |-> {},
         added |-> {}, broken |-> FALSE]

Init ==
    /\ row = [d \in Docs |-> "none"]
    /\ listed = [d \in Docs |-> {}]
    /\ backup = [d \in Docs |-> {}]
    /\ full = {}
    /\ text = {} /\ refs = {} /\ cvec = {} /\ cached = {}
    /\ graph = [x \in Elements |-> {}]
    /\ track = [x \in Elements |-> {}]
    /\ vec = {}
    /\ index = [d \in Docs |-> {}]
    /\ job = Idle
    /\ faults = 0
    /\ whole = {}
    /\ missed = [d \in Docs |-> {}]

At(s)   == job.stage = s
Goto(s) == job' = [job EXCEPT !.stage = s]
Doc     == job.doc
Deleting == job.kind = "delete"

Present(x) == graph[x] # {}
\* Tracking when there is a record, the graph's list otherwise.
Sources(x) == IF track[x] # {} THEN track[x] ELSE graph[x]
Names(x)   == graph[x] \cup track[x]
Emptied(f, S) == [x \in Elements |-> IF x \in S THEN {} ELSE f[x]]
With(S)    == S \cup UNION {Ends[r] : r \in S \cap Relations}

(* What a job about to work on d cannot see: elements that are not in the   *)
(* index or no longer in the graph, chunks that are not on the row's list,  *)
(* and the ends such a relation may hand its chunks to.                     *)
Unseen(d) ==
    {c \in Own(d) \ listed[d] : c \in text \cup cvec} \cup
    With({x \in Elements : /\ Names(x) \cap Own(d) # {}
                           /\ ~ (/\ x \in index[d]
                                 /\ Present(x)
                                 /\ Names(x) \cap Own(d) \subseteq listed[d])})
-----------------------------------------------------------------------------
(* Processing a document.                                                   *)

Enqueue(d) ==
    /\ job = Idle /\ row[d] = "none"
    /\ row' = [row EXCEPT ![d] = "waiting"]
    /\ full' = full \cup {d}
    /\ missed' = [missed EXCEPT ![d] = {}]
    /\ UNCHANGED <<listed, backup, chunk, shared, job, faults, whole>>

\* The parsing worker has rewritten the metadata: the backup is not carried
\* over.  A row that lists chunks is purged of them first.
Process(d) ==
    /\ job = Idle /\ row[d] = "waiting"
    /\ job' = [Idle EXCEPT !.kind = "insert", !.doc = d,
                           !.stage = IF listed[d] # {} THEN "analyze" ELSE "store"]
    /\ backup' = [backup EXCEPT ![d] = {}]
    /\ missed' = [missed EXCEPT ![d] = Unseen(d)]
    /\ UNCHANGED <<row, listed, full, chunk, shared, faults, whole>>

\* Stage 1, three writes in parallel.
Store ==
    /\ At("store")
    /\ \E new \in Chunkings[Doc] :
          /\ listed' = [listed EXCEPT ![Doc] = new]
          /\ text' = text \cup new
          /\ refs' = refs \ new
          /\ cvec' = cvec \cup new
          /\ job' = [job EXCEPT !.stage = "extract", !.chunks = new]
    /\ UNCHANGED <<row, backup, full, cached, shared, ghost>>

\* Stage 2: the answers are cached and each chunk remembers its answer.
Extract ==
    /\ At("extract")
    /\ cached' = cached \cup job.chunks
    /\ refs' = refs \cup job.chunks
    /\ job' = [job EXCEPT !.stage = "nodes",
                          !.todo = Entities \cap UNION {Extracts[c] : c \in job.chunks}]
    /\ UNCHANGED <<rows, text, cvec, shared, ghost>>

New(x) == {c \in job.chunks : x \in Extracts[c]}

\* How far a merge came: 0 nothing, 1 tracking, 2 the ends, 3 the graph, 4 all.
\* A task that did not finish raised, or was cancelled because another had.
Depth(depth) ==
    /\ depth < 4 /\ ~ job.broken => faults < MaxFaults
    /\ faults' = IF depth < 4 /\ ~ job.broken THEN faults + 1 ELSE faults

\* Mutant: the chunks an entity already has are not merged.
MergeNodeAnew(e, depth) ==
    /\ At("nodes") /\ e \in job.todo
    /\ Depth(depth)
    /\ track' = IF depth >= 1 THEN [track EXCEPT ![e] = New(e)] ELSE track
    /\ graph' = IF depth >= 3 THEN [graph EXCEPT ![e] = New(e)] ELSE graph
    /\ vec' = IF depth = 4 THEN vec \cup {e} ELSE vec
    /\ job' = [job EXCEPT !.todo = @ \ {e}, !.broken = @ \/ depth < 4,
                          !.added = IF depth = 4 THEN @ \cup {e} ELSE @]
    /\ UNCHANGED <<rows, chunk, index, whole, missed>>

MergeNode(e, depth) ==
    /\ At("nodes") /\ e \in job.todo
    /\ Depth(depth)
    /\ LET all == Sources(e) \cup New(e) IN
          /\ track' = IF depth >= 1 THEN [track EXCEPT ![e] = all] ELSE track
          /\ graph' = IF depth >= 3 THEN [graph EXCEPT ![e] = all] ELSE graph
          /\ vec' = IF depth = 4 THEN vec \cup {e} ELSE vec
    /\ job' = [job EXCEPT !.todo = @ \ {e}, !.broken = @ \/ depth < 4,
                          !.added = IF depth = 4 THEN @ \cup {e} ELSE @]
    /\ UNCHANGED <<rows, chunk, index, whole, missed>>

NodesDone ==
    /\ At("nodes") /\ job.todo = {} /\ ~ job.broken
    /\ job' = [job EXCEPT !.stage = "edges",
                          !.todo = Relations \cap UNION {Extracts[c] : c \in job.chunks}]
    /\ UNCHANGED <<rows, chunk, shared, ghost>>

(* Both ends take over the relation's chunks.  A missing end is created and *)
(* reported to the index of the document; an existing one is not.           *)
MergeEdge(r, depth) ==
    /\ At("edges") /\ r \in job.todo
    /\ Depth(depth)
    /\ LET all == Sources(r) \cup New(r)
           made == {e \in Ends[r] : ~ Present(e)}
           grown == [x \in Elements |->
                        IF x \in made THEN all
                        ELSE IF x \in Ends[r] THEN Sources(x) \cup all ELSE {}]
           Over(f, S) == [x \in Elements |-> IF x \in S THEN grown[x] ELSE f[x]]
       IN /\ track' = IF depth = 0 THEN track
                      ELSE [Over(track, IF depth >= 2 THEN Ends[r] ELSE {}) EXCEPT ![r] = all]
          /\ graph' = IF depth >= 3 THEN [Over(graph, Ends[r]) EXCEPT ![r] = all]
                      ELSE IF depth = 2 THEN Over(graph, Ends[r]) ELSE graph
          /\ vec' = LET moved == vec \cup {e \in Ends[r] : graph[e] # grown[e]} IN
                    CASE depth = 4 -> moved \cup {r}
                      [] depth = 3 -> moved \ {r}
                      [] OTHER     -> vec
          /\ job' = [job EXCEPT !.todo = @ \ {r}, !.broken = @ \/ depth < 4,
                                !.added = IF depth = 4 THEN @ \cup made \cup {r} ELSE @]
    /\ UNCHANGED <<rows, chunk, index, whole, missed>>

EdgesDone ==
    /\ At("edges") /\ job.todo = {} /\ ~ job.broken
    /\ Goto("record")
    /\ UNCHANGED <<rows, chunk, shared, ghost>>

\* Phase 3 writes the two halves of the index, each when there is something to
\* write, and goes on when a write fails.
Record ==
    /\ At("record")
    /\ \E written \in {Elements, Entities, {}} :
          LET now == job.added \cap written IN
          /\ written # Elements => faults < MaxFaults
          /\ faults' = IF written # Elements THEN faults + 1 ELSE faults
          /\ index' = [index EXCEPT ![Doc] =
                 now \cup {x \in @ : \A K \in {Entities, Relations} :
                                        x \in K => now \cap K = {}}]
    /\ Goto("finish")
    /\ UNCHANGED <<rows, chunk, graph, track, vec, whole, missed>>

Finish ==
    /\ At("finish")
    /\ row' = [row EXCEPT ![Doc] = "processed"]
    /\ whole' = whole \cup {Doc}
    /\ job' = Idle
    /\ UNCHANGED <<listed, backup, full, chunk, shared, faults, missed>>
-----------------------------------------------------------------------------
(* Taking a document out: adelete_by_doc_id, and the purge, which has the   *)
(* stages from analyze to index in common with it.                          *)

\* A row without chunks only loses its cache entries, its row and its text.
Delete(d) ==
    /\ job = Idle /\ row[d] # "none"
    /\ job' = [Idle EXCEPT !.kind = "delete", !.doc = d,
                           !.stage = IF listed[d] # {} THEN "collect" ELSE "oldCache"]
    /\ whole' = whole \ {d}
    /\ missed' = [missed EXCEPT ![d] = Unseen(d)]
    /\ UNCHANGED <<rows, chunk, shared, faults>>

Mine == listed[Doc]

\* Mutant: the cache ids stay in memory.
CollectUnsaved ==
    /\ At("collect")
    /\ job' = [job EXCEPT !.stage = "analyze", !.ids = backup[Doc] \cup (refs \cap Mine)]
    /\ UNCHANGED <<rows, chunk, shared, ghost>>

\* The cache ids are written to the row before the chunks that name them go.
Collect ==
    /\ At("collect")
    /\ LET ids == backup[Doc] \cup (refs \cap Mine) IN
          /\ backup' = [backup EXCEPT ![Doc] = ids]
          /\ job' = [job EXCEPT !.stage = "analyze", !.ids = ids]
    /\ UNCHANGED <<row, listed, full, chunk, shared, ghost>>

\* Mutant: only the tracking is compared, not the graph's own list.
AnalyzeTracking ==
    /\ At("analyze")
    /\ LET seen == {x \in index[Doc] : Present(x)}
           gone == {x \in seen : Sources(x) \subseteq Mine}
       IN job' = [job EXCEPT !.stage = "track", !.drop = gone,
                             !.keep = {x \in seen \ gone : Sources(x) \cap Mine # {}}]
    /\ UNCHANGED <<rows, chunk, shared, ghost>>

\* An element is dropped when no other chunk is left, and kept, to be rebuilt,
\* when one of its two lists names a chunk that goes.
Analyze ==
    /\ At("analyze")
    /\ LET seen == {x \in index[Doc] : Present(x)}
           gone == {x \in seen : Sources(x) \subseteq Mine}
       IN job' = [job EXCEPT !.stage = "track", !.drop = gone,
                             !.keep = {x \in seen \ gone : Names(x) \cap Mine # {}}]
    /\ UNCHANGED <<rows, chunk, shared, ghost>>

DropRels == job.drop \cap Relations
DropEnts == job.drop \cap Entities
\* Edges that would go with their ends.
Residual == {r \in Relations : Present(r) /\ Ends[r] \cap DropEnts # {}}

\* What is empty is not deleted.
AfterRels == IF DropEnts = {} THEN "flush" ELSE IF Residual = {} THEN "nodeGraph" ELSE "resVec"
Following == [track |-> "cvec", cvec |-> "text",
    text |-> IF DropRels = {} THEN AfterRels ELSE "relVec",
    relVec |-> "relGraph", relGraph |-> "relTrack", relTrack |-> AfterRels,
    resVec |-> "resTrack", resTrack |-> "nodeGraph",
    nodeGraph |-> "nodeVec", nodeVec |-> "nodeTrack", nodeTrack |-> "flush"]

\* One write of one store after the other.
TakeOut ==
    /\ job.stage \in DOMAIN Following
    /\ Goto(Following[job.stage])
    /\ track' = CASE At("track")     -> [x \in Elements |-> IF x \in job.keep THEN Sources(x) \ Mine
                                                            ELSE track[x]]
                  [] At("relTrack")  -> Emptied(track, DropRels)
                  [] At("resTrack")  -> Emptied(track, Residual)
                  [] At("nodeTrack") -> Emptied(track, DropEnts)
                  [] OTHER           -> track
    /\ graph' = CASE At("relGraph")  -> Emptied(graph, DropRels)
                  [] At("nodeGraph") -> Emptied(graph, DropEnts \cup Residual)
                  [] OTHER           -> graph
    /\ vec' = CASE At("relVec")  -> vec \ DropRels
                [] At("resVec")  -> vec \ Residual
                [] At("nodeVec") -> vec \ DropEnts
                [] OTHER         -> vec
    /\ cvec' = IF At("cvec") THEN cvec \ Mine ELSE cvec
    /\ text' = IF At("text") THEN text \ Mine ELSE text
    /\ refs' = IF At("text") THEN refs \ Mine ELSE refs
    /\ UNCHANGED <<rows, cached, index, ghost>>

\* Answers that can be found again, through the chunk that lists them.
Result(c) == c \in text \cap refs \cap cached

\* Without any answer nothing is rebuilt.
Flush ==
    /\ At("flush")
    /\ job' = [job EXCEPT !.stage = "rebuild",
               !.todo = IF \E x \in job.keep : \E c \in track[x] : Result(c)
                        THEN job.keep ELSE {}]
    /\ UNCHANGED <<rows, chunk, shared, ghost>>

\* The part of an element the cached answers give: an entity may also be made
\* from its relations, a relation only from an answer of its own.
Material(x) ==
    \/ \E c \in track[x] : Result(c) /\ x \in Extracts[c]
    \/ x \in Entities /\ \E r \in Relations : x \in Ends[r] /\ Present(r)

Rebuild(x) ==
    /\ At("rebuild") /\ x \in job.todo
    /\ graph' = IF Present(x) /\ Material(x) THEN [graph EXCEPT ![x] = track[x]] ELSE graph
    /\ vec' = IF Present(x) /\ Material(x) THEN vec \cup {x} ELSE vec
    /\ job' = [job EXCEPT !.todo = @ \ {x}]
    /\ UNCHANGED <<rows, chunk, track, index, ghost>>

\* One element that cannot be rebuilt is logged; the others go on.  A relation
\* may be left without a vector.
RebuildFails(x) ==
    /\ At("rebuild") /\ x \in job.todo
    /\ faults < MaxFaults
    /\ \/ UNCHANGED <<graph, vec>>
       \/ /\ Present(x) /\ Material(x)
          /\ graph' = [graph EXCEPT ![x] = track[x]]
          /\ vec' = vec \ ({x} \cap Relations)
    /\ job' = [job EXCEPT !.todo = @ \ {x}]
    /\ faults' = faults + 1
    /\ UNCHANGED <<rows, chunk, track, index, whole, missed>>

Rebuilt ==
    /\ At("rebuild") /\ job.todo = {}
    /\ missed' = [missed EXCEPT ![Doc] =
                      @ \cup With({x \in job.keep : graph[x] \cap Mine # {}})]
    /\ Goto(IF Deleting THEN "cache" ELSE "index")
    /\ UNCHANGED <<rows, chunk, shared, faults, whole>>

CacheIds == IF At("oldCache") THEN backup[Doc] ELSE job.ids

\* The only place that looks at the request's delete_llm_cache.
ForgetAnswers(wipe) ==
    /\ job.stage \in {"cache", "oldCache"}
    /\ cached' = IF wipe THEN cached \ CacheIds ELSE cached
    /\ job' = [job EXCEPT !.wipe = wipe,
                          !.stage = IF At("cache") THEN "index" ELSE "oldRow"]
    /\ UNCHANGED <<rows, text, refs, cvec, shared, ghost>>

\* After the purge the document is stored anew.
DropIndex ==
    /\ At("index")
    /\ index' = [index EXCEPT ![Doc] = {}]
    /\ Goto(IF Deleting THEN "row" ELSE "store")
    /\ UNCHANGED <<rows, chunk, graph, track, vec, ghost>>

DropRow ==
    /\ job.stage \in {"row", "oldRow"}
    /\ row' = [row EXCEPT ![Doc] = "none"]
    /\ listed' = [listed EXCEPT ![Doc] = {}]
    /\ backup' = [backup EXCEPT ![Doc] = {}]
    /\ Goto(IF At("row") THEN "full" ELSE "oldFull")
    /\ UNCHANGED <<full, chunk, shared, ghost>>

DropText ==
    /\ job.stage \in {"full", "oldFull"}
    /\ full' = full \ {Doc}
    /\ job' = Idle
    /\ UNCHANGED <<row, listed, backup, chunk, shared, ghost>>
-----------------------------------------------------------------------------
(* Failures.  The job ends, with what was written left as it is; what it    *)
(* could not see matters no more, unless it had removed the row.            *)

Stopped == /\ faults < MaxFaults /\ faults' = faults + 1 /\ job' = Idle
           /\ missed' = IF row[Doc] = "none" THEN missed ELSE [missed EXCEPT ![Doc] = {}]

\* The handler of a deletion keeps the ids on the row, and does not touch a row
\* that the last stage may have removed.
Kept(ids) ==
    IF Deleting /\ job.stage \notin {"row", "full"} /\ ids # {}
    THEN [backup EXCEPT ![Doc] = ids] ELSE backup

\* Any stage raises, or the process ends and no handler runs.
Fails ==
    /\ job # Idle /\ ~ job.broken /\ job.stage \notin {"store", "extract", "oldFull"}
    /\ Stopped
    /\ backup' \in {backup, Kept(job.ids)}
    /\ UNCHANGED <<row, listed, full, chunk, shared, whole>>

\* Without chunks the handler does not know that the row is gone, and writes
\* the record it had read.
OldFullFails ==
    /\ At("oldFull")
    /\ Stopped
    /\ row' \in {row, [row EXCEPT ![Doc] = "waiting"]}
    /\ UNCHANGED <<listed, backup, full, chunk, shared, whole>>

\* Some of the three writes may have happened; the handler writes the list of
\* the chunks it had cut, or that there are none.
StoreFails ==
    /\ At("store")
    /\ Stopped
    /\ \/ /\ listed' \in {listed, [listed EXCEPT ![Doc] = {}]}
          /\ UNCHANGED <<text, refs, cvec>>
       \/ \E new \in Chunkings[Doc] :
             /\ listed' \in {listed, [listed EXCEPT ![Doc] = new]}
             /\ \/ text' = text \cup new /\ refs' = refs \ new
                \/ UNCHANGED <<text, refs>>
             /\ cvec' \in {cvec, cvec \cup new}
    /\ UNCHANGED <<row, backup, full, cached, shared, whole>>

\* An answer may be cached and not yet listed by its chunk.
ExtractFails ==
    /\ At("extract")
    /\ Stopped
    /\ \E answered \in SUBSET job.chunks, noted \in SUBSET job.chunks :
          /\ noted \subseteq answered
          /\ cached' = cached \cup answered
          /\ refs' = refs \cup noted
    /\ UNCHANGED <<rows, text, cvec, shared, whole>>

MergeFails ==
    /\ job.broken /\ job.todo = {}
    /\ job' = Idle
    /\ missed' = [missed EXCEPT ![Doc] = {}]
    /\ UNCHANGED <<rows, chunk, shared, faults, whole>>

\* Some entries survive: they are what the row keeps for the next attempt.
CacheFails ==
    /\ job.stage \in {"cache", "oldCache"}
    /\ Stopped
    /\ \E left \in SUBSET CacheIds :
          /\ cached' = cached \ (CacheIds \ left)
          /\ backup' \in {backup, Kept(job.ids), IF At("cache") THEN Kept(left) ELSE backup}
    /\ UNCHANGED <<row, listed, full, text, refs, cvec, shared, whole>>

InsertStep == \/ Store \/ Extract \/ NodesDone \/ EdgesDone \/ Record \/ Finish
              \/ \E depth \in 0..4 : \/ \E e \in Entities : MergeNode(e, depth)
                                     \/ \E r \in Relations : MergeEdge(r, depth)
TakeOutStep == \/ Collect \/ Analyze \/ TakeOut \/ Flush \/ Rebuilt
               \/ \E x \in Elements : Rebuild(x) \/ RebuildFails(x)
               \/ \E wipe \in BOOLEAN : ForgetAnswers(wipe)
               \/ DropIndex \/ DropRow \/ DropText
Failure == Fails \/ OldFullFails \/ StoreFails \/ ExtractFails \/ MergeFails \/ CacheFails

Next ==
    \/ \E d \in Docs : Enqueue(d) \/ Process(d) \/ Delete(d)
    \/ InsertStep \/ TakeOutStep \/ Failure

Spec == Init /\ [][Next]_vars
-----------------------------------------------------------------------------
(* Correctness.                                                             *)

\* The stores hold what they can hold, and a row lists one chunking or none.
TypeOK ==
    /\ row \in [Docs -> {"none", "waiting", "processed"}]
    /\ listed \in [Docs -> SUBSET Chunks] /\ \A d \in Docs : listed[d] \in Chunkings[d] \cup {{}}
    /\ backup \in [Docs -> SUBSET Chunks] /\ \A d \in Docs : backup[d] \subseteq Own(d)
    /\ index \in [Docs -> SUBSET Elements]
    /\ \A d \in Docs : row[d] = "none" => listed[d] = {} /\ backup[d] = {}
    /\ full \subseteq Docs /\ whole \subseteq Docs
    /\ text \subseteq Chunks /\ cvec \subseteq Chunks /\ cached \subseteq Chunks
    /\ refs \subseteq text
    /\ graph \in [Elements -> SUBSET Chunks] /\ track \in [Elements -> SUBSET Chunks]
    /\ vec \subseteq Elements
    /\ job.keep \cap job.drop = {}
    /\ faults \in 0..MaxFaults

\* What the stores still hold of chunks that the row of d does not list.
Traces(d) ==
    LET old == Own(d) \ listed[d] IN
    (old \cap (text \cup cvec)) \cup {x \in Elements : Names(x) \cap old # {}}

\* After any number of failed and repeated attempts, a document whose row is
\* gone has left nothing, and one that has been processed again nothing of the
\* chunks it was cut into before: no chunk is stored, no element names one in
\* the graph or in chunk tracking, no index is left.  Excepted is what the last
\* attempt could not see when it began, or failed to rebuild and went on.
TracesOnlyUnseen ==
    /\ \A d \in Docs : row[d] = "none" \/ d \in whole => Traces(d) \subseteq missed[d]
    /\ \A d \in Docs : row[d] = "none" => index[d] \subseteq missed[d]

\* Deleting or reprocessing one document, and failing to, never takes from
\* another: a processed document's chunks are stored and searchable, and what
\* was extracted from them is in the graph and tracked under their names.
OthersKept ==
    \A d \in whole :
        /\ listed[d] \subseteq text \cap cvec
        /\ \A c \in listed[d] : \A x \in Extracts[c] :
              /\ c \in graph[x] \cap track[x]
              /\ x \in Entities => x \in vec

\* Both together: well typed, and no document harmed by another.
DeletionInv == TypeOK /\ OthersKept

Reachable(d) == (refs \cap listed[d]) \cup backup[d]

\* While a document is being deleted, a cached answer that can be found from
\* its row or its chunks is deleted or stays so, whatever fails: asking again,
\* this time with the cache, still finds it.
CacheRecoverable ==
    [][\A d \in Docs : Deleting /\ Doc = d =>
          \A c \in Reachable(d) \cap cached :
              \/ c \in Reachable(d)'
              \/ c \notin cached'
              \/ row'[d] = "none" /\ ~ job.wipe]_vars

\* adelete_by_doc_id's docstring: the document and all its derived data are
\* removed or rebuilt.
TracesErased == \A d \in Docs : row[d] = "none" => Traces(d) = {}
=============================================================================
