------------------------- MODULE DocDeletionProofs -------------------------
(* Theorems about DocDeletion for all documents, chunkings, entities and    *)
(* relations, and for any number of failures.                               *)
EXTENDS DocDeletion, TLAPS

-----------------------------------------------------------------------------
(* The inductive invariant: what a job is, and what it has secured.         *)

Cleaning  == {"analyze", "track", "cvec", "text", "relVec", "relGraph", "relTrack",
              "resVec", "resTrack", "nodeGraph", "nodeVec", "nodeTrack", "flush",
              "rebuild", "index"}
Inserting == {"store", "extract", "nodes", "edges", "record", "finish"}
Closing   == {"collect", "cache", "row", "full", "oldCache", "oldRow", "oldFull"}

Job == [kind : {"none", "insert", "delete"}, doc : Docs \cup {None},
        stage : Cleaning \cup Inserting \cup Closing \cup {"idle"}, wipe : BOOLEAN,
        chunks : SUBSET Chunks, ids : SUBSET Chunks,
        drop : SUBSET Elements, keep : SUBSET Elements, todo : SUBSET Elements,
        added : SUBSET Elements, broken : BOOLEAN]

\* A job has a document, stages of its own kind, and a row that stays until its
\* last stage; chunks are stored before they are read.
JobOK ==
    /\ job \in Job
    /\ job.kind = "none" => job = Idle
    /\ job.kind # "none" => Doc \in Docs
    /\ job.kind = "insert" => job.stage \in Cleaning \cup Inserting
    /\ Deleting => job.stage \in Cleaning \cup Closing
    /\ job.kind # "none" /\ job.stage \notin {"full", "oldFull"} => row[Doc] # "none"
    /\ job.stage = "extract" => job.chunks \subseteq text

\* What a deletion has secured: from the analysis on, the row's backup holds the
\* ids of all cached answers its chunks list, and once the cache has been wiped
\* none of them is left.
Secured ==
    Deleting =>
        /\ job.stage \in {"collect", "oldCache", "oldRow", "oldFull"} => job.ids = {}
        /\ job.stage \in {"oldCache", "oldRow"} => listed[Doc] = {}
        /\ job.stage \in Cleaning \cup {"cache", "row"} =>
              job.ids = backup[Doc] /\ refs \cap listed[Doc] \subseteq backup[Doc]
        /\ job.wipe /\ job.stage \in {"index", "row", "oldRow"} =>
              backup[Doc] \cap cached = {}

IInv == TypeOK /\ JobOK /\ Secured

\* Initially nothing is stored and no job runs.
LEMMA InitIInv == Init => IInv
BY DeletionAssumption DEF Init, IInv, TypeOK, JobOK, Secured, Idle, Job, Cleaning, Inserting, Closing,
   Doc, Deleting, Own

\* The document that enters.
LEMMA EnqueueIInv == ASSUME IInv, NEW d \in Docs, Enqueue(d) PROVE IInv'
<1>1. TypeOK' BY DeletionAssumption DEF IInv, TypeOK, Enqueue, chunk, shared, Own
<1>2. JobOK' BY DEF IInv, TypeOK, JobOK, Enqueue, chunk, shared, Idle, Doc, Deleting
<1>3. Secured' BY DEF IInv, Enqueue, Secured, Idle, Deleting
<1> QED BY <1>1, <1>2, <1>3 DEF IInv

\* A job begins to process a document.
LEMMA ProcessIInv == ASSUME IInv, NEW d \in Docs, Process(d) PROVE IInv'
<1>1. TypeOK' BY DeletionAssumption DEF IInv, TypeOK, Process, chunk, shared, ghost, Own, Idle
<1>2. JobOK' BY ZenonT(40) DEF IInv, TypeOK, JobOK, Process, chunk, shared, ghost, Idle, Job, Doc, Deleting,
   Cleaning, Inserting, Closing
<1>3. Secured' BY DEF IInv, Process, Secured, Idle, Deleting
<1> QED BY <1>1, <1>2, <1>3 DEF IInv

\* What the stage says about the job.
LEMMA StageFacts ==
    ASSUME IInv
    PROVE  /\ job # Idle => Doc \in Docs /\ job.kind \in {"insert", "delete"}
           /\ job.stage # "idle" => Doc \in Docs /\ job.kind \in {"insert", "delete"}
           /\ job.stage \in Inserting => job.kind = "insert"
           /\ job.stage \in Closing => Deleting
           /\ job.stage \in (Inserting \cup Cleaning \cup Closing) \ {"full", "oldFull"} => row[Doc] # "none"
BY DEF IInv, JobOK, Job, Doc, Deleting, Inserting, Cleaning, Closing, Idle

\* A step of an insertion keeps the invariant when it keeps the types.
LEMMA InsertIInv ==
    ASSUME IInv, TypeOK', job.kind = "insert", row' = row, job' \in Job, job'.kind = "insert",
           job'.doc = Doc, job'.stage \in Cleaning \cup Inserting,
           job'.stage = "extract" => job'.chunks \subseteq text'
    PROVE  IInv'
BY DEF IInv, JobOK, Secured, Doc, Deleting, Cleaning, Inserting

\* The end of a job keeps the invariant when it keeps the types.
LEMMA StopIInv ==
    ASSUME TypeOK', job' = Idle
    PROVE  IInv'
BY DEF IInv, JobOK, Job, Secured, Deleting, Idle, Doc, Cleaning, Inserting, Closing

\* Stage 1 of processing.
LEMMA StoreIInv == ASSUME IInv, Store PROVE IInv'
<1>1. Doc \in Docs /\ row[Doc] # "none" /\ job.kind = "insert"
  BY StageFacts DEF Store, At, Inserting
<1>2. PICK new \in Chunkings[Doc] :
         /\ listed' = [listed EXCEPT ![Doc] = new]
         /\ text' = text \cup new
         /\ refs' = refs \ new
         /\ cvec' = cvec \cup new
         /\ job' = [job EXCEPT !.stage = "extract", !.chunks = new]
  BY DEF Store
<1>3. new \subseteq Chunks
  BY <1>1, DeletionAssumption
<1>4. UNCHANGED <<row, backup, full, cached, graph, track, vec, index, faults, whole>>
  BY DEF Store, shared, ghost
<1>5. TypeOK'
  BY <1>1, <1>2, <1>3, <1>4 DEF IInv, TypeOK, JobOK, Job
<1>6. job' \in Job /\ job'.kind = "insert" /\ job'.doc = Doc /\ job'.stage = "extract"
  BY <1>1, <1>2, <1>3 DEF IInv, JobOK, Job, Inserting, Doc
<1>7. job'.chunks \subseteq text'
  BY <1>2 DEF IInv, JobOK, Job
<1> QED BY <1>1, <1>4, <1>5, <1>6, <1>7, InsertIInv DEF Inserting

\* Stage 2 of processing.
LEMMA ExtractIInv == ASSUME IInv, Extract PROVE IInv'
<1>1. job.kind = "insert"
  BY StageFacts DEF Extract, At, Inserting
<1>2. job.chunks \subseteq text /\ Entities \cap UNION {Extracts[c] : c \in job.chunks} \subseteq Elements
  BY DEF Extract, At, IInv, JobOK, Job, Elements
<1>3. job' \in Job /\ job'.kind = "insert" /\ job'.doc = Doc /\ job'.stage = "nodes"
  BY <1>1, <1>2 DEF Extract, IInv, JobOK, Job, Inserting, Doc
<1>4. job'.keep \cap job'.drop = {}
  BY DEF Extract, IInv, JobOK, Job, TypeOK
<1>5. TypeOK'
  BY <1>2, <1>4 DEF Extract, IInv, TypeOK, rows, shared, ghost
<1> QED BY <1>1, <1>3, <1>5, InsertIInv DEF Extract, rows, Inserting

\* The merge of an entity.
LEMMA MergeNodeIInv ==
    ASSUME IInv, NEW e \in Entities, NEW depth \in 0..4, MergeNode(e, depth)
    PROVE  IInv'
<1>1. job.kind = "insert"
  BY StageFacts DEF MergeNode, At, Inserting
<1>2. New(e) \subseteq Chunks /\ Sources(e) \subseteq Chunks /\ e \in Elements
  BY DEF New, Sources, IInv, JobOK, Job, TypeOK, Elements
<1>3. job' \in Job /\ job'.kind = "insert" /\ job'.doc = Doc /\ job'.stage = "nodes"
  BY <1>1, <1>2 DEF MergeNode, IInv, JobOK, Job, Inserting, Doc, At
<1>4. job'.keep \cap job'.drop = {}
  BY DEF MergeNode, IInv, JobOK, Job, TypeOK
<1>5. faults' \in 0..MaxFaults
  BY DeletionAssumption DEF MergeNode, Depth, IInv, TypeOK
<1>6. /\ graph' \in [Elements -> SUBSET Chunks]
      /\ track' \in [Elements -> SUBSET Chunks]
      /\ vec' \subseteq Elements
  BY <1>2 DEF MergeNode, IInv, TypeOK
<1>7. TypeOK'
  BY <1>4, <1>5, <1>6 DEF MergeNode, IInv, TypeOK, rows, chunk
<1> QED BY <1>1, <1>3, <1>7, InsertIInv DEF MergeNode, rows, Inserting

\* The merge of a relation.
LEMMA MergeEdgeIInv ==
    ASSUME IInv, NEW r \in Relations, NEW depth \in 0..4, MergeEdge(r, depth)
    PROVE  IInv'
<1>1. job.kind = "insert"
  BY StageFacts DEF MergeEdge, At, Inserting
<1>2. /\ New(r) \subseteq Chunks /\ r \in Elements
      /\ Ends[r] \subseteq Elements
      /\ \A x \in Elements : Sources(x) \subseteq Chunks
  BY DeletionAssumption DEF New, Sources, IInv, JobOK, Job, TypeOK, Elements
<1>3. job' \in Job /\ job'.kind = "insert" /\ job'.doc = Doc /\ job'.stage = "edges"
  BY <1>1, <1>2 DEF MergeEdge, IInv, JobOK, Job, Inserting, Doc, At
<1>4. job'.keep \cap job'.drop = {}
  BY DEF MergeEdge, IInv, JobOK, Job, TypeOK
<1>5. faults' \in 0..MaxFaults
  BY DeletionAssumption DEF MergeEdge, Depth, IInv, TypeOK
<1>6. /\ graph' \in [Elements -> SUBSET Chunks]
      /\ track' \in [Elements -> SUBSET Chunks]
      /\ vec' \subseteq Elements
  BY <1>2 DEF MergeEdge, IInv, TypeOK
<1>7. TypeOK'
  BY <1>4, <1>5, <1>6 DEF MergeEdge, IInv, TypeOK, rows, chunk
<1> QED BY <1>1, <1>3, <1>7, InsertIInv DEF MergeEdge, rows, Inserting

\* After the last entity the relations are merged.
LEMMA NodesDoneIInv == ASSUME IInv, NodesDone PROVE IInv'
<1>1. job.kind = "insert"
  BY StageFacts DEF NodesDone, At, Inserting
<1>2. Relations \cap UNION {Extracts[c] : c \in job.chunks} \subseteq Elements
  BY DEF Elements
<1>3. job' \in Job /\ job'.kind = "insert" /\ job'.doc = Doc /\ job'.stage = "edges"
  BY <1>1, <1>2 DEF NodesDone, IInv, JobOK, Job, Inserting, Doc
<1>4. TypeOK'
  BY DEF NodesDone, IInv, TypeOK, JobOK, Job, rows, chunk, shared, ghost
<1> QED BY <1>1, <1>3, <1>4, InsertIInv DEF NodesDone, rows, Inserting

\* After the last relation the index is written.
LEMMA EdgesDoneIInv == ASSUME IInv, EdgesDone PROVE IInv'
<1>1. job.kind = "insert"
  BY StageFacts DEF EdgesDone, At, Inserting
<1>2. job' \in Job /\ job'.kind = "insert" /\ job'.doc = Doc /\ job'.stage = "record"
  BY <1>1 DEF EdgesDone, Goto, IInv, JobOK, Job, Inserting, Doc
<1>3. TypeOK'
  BY DEF EdgesDone, Goto, IInv, TypeOK, JobOK, Job, rows, chunk, shared, ghost
<1> QED BY <1>1, <1>2, <1>3, InsertIInv DEF EdgesDone, rows, Inserting

\* The index of the document is written, or a part of it.
LEMMA RecordIInv == ASSUME IInv, Record PROVE IInv'
<1>1. Doc \in Docs /\ job.kind = "insert"
  BY StageFacts DEF Record, At, Inserting
<1>2. job' \in Job /\ job'.kind = "insert" /\ job'.doc = Doc /\ job'.stage = "finish"
  BY <1>1 DEF Record, Goto, IInv, JobOK, Job, Inserting, Doc
<1>3. job'.keep \cap job'.drop = {}
  BY DEF Record, Goto, IInv, JobOK, Job, TypeOK
<1>4. faults' \in 0..MaxFaults
  BY DeletionAssumption DEF Record, IInv, TypeOK
<1>5. index' \in [Docs -> SUBSET Elements]
  BY <1>1 DEF Record, IInv, TypeOK, JobOK, Job
<1>6. TypeOK'
  BY <1>3, <1>4, <1>5 DEF Record, IInv, TypeOK, rows, chunk
<1> QED BY <1>1, <1>2, <1>6, InsertIInv DEF Record, rows, Inserting

\* The end of processing.
LEMMA FinishIInv == ASSUME IInv, Finish PROVE IInv'
<1>1. Doc \in Docs /\ row[Doc] # "none"
  BY StageFacts DEF Finish, At, Inserting
<1>2. TypeOK'
  BY <1>1 DEF Finish, IInv, TypeOK, chunk, shared, Idle
<1> QED BY <1>2, StopIInv DEF Finish

-----------------------------------------------------------------------------
(* Taking a document out.                                                   *)

\* A deletion begins.
LEMMA DeleteIInv == ASSUME IInv, NEW d \in Docs, Delete(d) PROVE IInv'
<1>1. TypeOK'
  BY DEF Delete, IInv, TypeOK, rows, chunk, shared, Idle
<1>2. job' = [Idle EXCEPT !.kind = "delete", !.doc = d,
                 !.stage = IF listed[d] # {} THEN "collect" ELSE "oldCache"]
  BY DEF Delete
<1>3. /\ job' \in Job /\ job'.kind = "delete" /\ job'.doc = d
      /\ job'.stage \in {"collect", "oldCache"}
      /\ row' = row /\ row[d] # "none"
  BY <1>2 DEF Delete, Job, Idle, Closing, rows
<1>4. JobOK'
  BY <1>3 DEF JobOK, Doc, Deleting, Closing
<1>5. Secured'
  BY <1>2 DEF Delete, Secured, Idle, Doc, Deleting, Closing, Cleaning, rows
<1> QED BY <1>1, <1>4, <1>5 DEF IInv

\* The ids of the cached answers are secured.
LEMMA CollectIInv == ASSUME IInv, Collect PROVE IInv'
<1> DEFINE ids == backup[Doc] \cup (refs \cap listed[Doc])
<1>1. Doc \in Docs /\ Deleting /\ row[Doc] # "none"
  BY StageFacts DEF Collect, At, Closing
<1>2. /\ backup' = [backup EXCEPT ![Doc] = ids]
      /\ job' = [job EXCEPT !.stage = "analyze", !.ids = ids]
      /\ UNCHANGED <<row, listed, full, text, refs, cvec, cached, graph, track, vec, index, faults, whole>>
  BY DEF Collect, Mine, chunk, shared, ghost
<1>3. listed[Doc] \subseteq Own(Doc)
  BY <1>1 DEF IInv, TypeOK, Own
<1>4. ids \subseteq Chunks /\ ids \subseteq Own(Doc)
  BY <1>1, <1>3 DEF IInv, TypeOK
<1> HIDE DEF ids
<1>5. TypeOK'
  BY <1>1, <1>2, <1>4 DEF IInv, TypeOK, JobOK, Job
<1>6. JobOK'
  BY <1>1, <1>2, <1>4 DEF IInv, JobOK, Job, Idle, Doc, Deleting, Cleaning
<1>7. job'.stage = "analyze" /\ job'.ids = ids /\ backup'[Doc] = ids /\ job'.doc = Doc
  BY <1>1, <1>2 DEF IInv, JobOK, Job, TypeOK, Doc
<1>8. refs' \cap listed'[Doc] \subseteq ids
  BY <1>2 DEF ids
<1>9. Secured'
  BY <1>7, <1>8 DEF Secured, Doc, Deleting
<1> QED BY <1>5, <1>6, <1>9 DEF IInv

\* A step from one cleaning stage to another keeps the invariant when it keeps
\* the types and touches neither the row nor the cache.
LEMMA CleanIInv ==
    ASSUME IInv, TypeOK', job.stage \in Cleaning, job' \in Job, job'.kind = job.kind,
           job'.doc = job.doc, job'.ids = job.ids, job'.stage \in Cleaning \cup {"cache"},
           Deleting => job'.stage # "index", job.kind = "insert" => job'.stage # "cache",
           UNCHANGED rows, refs' \subseteq refs
    PROVE  IInv'
<1>1. JobOK'
  BY StageFacts DEF IInv, JobOK, Doc, Deleting, Cleaning, Closing, rows
<1>2. Secured'
  BY DEF IInv, Secured, Doc, Deleting, Cleaning, rows
<1> QED BY <1>1, <1>2 DEF IInv

\* What is dropped and what is kept.
LEMMA AnalyzeIInv == ASSUME IInv, Analyze PROVE IInv'
<1> DEFINE seen == {x \in index[Doc] : Present(x)}
           gone == {x \in seen : Sources(x) \subseteq Mine}
           kept == {x \in seen \ gone : Names(x) \cap Mine # {}}
<1>1. Doc \in Docs
  BY StageFacts DEF Analyze, At, Cleaning
<1>2. gone \subseteq Elements /\ kept \subseteq Elements /\ gone \cap kept = {}
  BY <1>1 DEF IInv, TypeOK
<1>3. /\ job.stage = "analyze"
      /\ job' = [job EXCEPT !.stage = "track", !.drop = gone, !.keep = kept]
      /\ UNCHANGED <<rows, chunk, shared, ghost>>
  BY DEF Analyze, At
<1> HIDE DEF gone, kept
<1>4. job' \in Job /\ job'.kind = job.kind /\ job'.doc = job.doc /\ job'.ids = job.ids
      /\ job'.stage = "track" /\ job'.keep \cap job'.drop = {}
  BY <1>2, <1>3 DEF IInv, JobOK, Job, Cleaning
<1>5. TypeOK'
  BY <1>3, <1>4 DEF IInv, TypeOK, rows, chunk, shared, ghost
<1> QED BY <1>3, <1>4, <1>5, CleanIInv DEF chunk, Cleaning

\* One write of one store.
LEMMA TakeOutIInv == ASSUME IInv, TakeOut PROVE IInv'
<1>1. job.stage \in {"track", "cvec", "text", "relVec", "relGraph", "relTrack", "resVec",
                     "resTrack", "nodeGraph", "nodeVec", "nodeTrack"}
  BY DEF TakeOut, Following
<1>2. Following[job.stage] \in Cleaning \ {"index", "analyze"}
  BY <1>1 DEF Following, AfterRels, Cleaning
<1>3. job' = [job EXCEPT !.stage = Following[job.stage]]
  BY DEF TakeOut, Goto
<1>4. job' \in Job /\ job'.kind = job.kind /\ job'.doc = job.doc /\ job'.ids = job.ids
      /\ job'.stage = Following[job.stage] /\ job'.keep = job.keep /\ job'.drop = job.drop
  BY <1>2, <1>3 DEF IInv, JobOK, Job
<1>5. \A x \in Elements : Sources(x) \subseteq Chunks
  BY DEF IInv, TypeOK, Sources
<1>6. track' \in [Elements -> SUBSET Chunks]
  BY <1>5 DEF TakeOut, IInv, TypeOK, Emptied
<1>7. graph' \in [Elements -> SUBSET Chunks]
  BY DEF TakeOut, IInv, TypeOK, Emptied
<1>8. vec' \subseteq vec /\ cvec' \subseteq cvec
  BY DEF TakeOut
<1>9. text' \subseteq text /\ refs' \subseteq refs /\ refs' \subseteq text'
  BY DEF TakeOut, IInv, TypeOK
<1>10. UNCHANGED <<rows, cached, index, faults, whole>>
  BY DEF TakeOut, ghost
<1>11. TypeOK'
  BY <1>4, <1>6, <1>7, <1>8, <1>9, <1>10 DEF IInv, TypeOK, rows
<1> QED BY <1>1, <1>2, <1>4, <1>9, <1>10, <1>11, CleanIInv DEF Cleaning

\* What is kept is rebuilt when an answer is left.
LEMMA FlushIInv == ASSUME IInv, Flush PROVE IInv'
<1>1. job' \in Job /\ job'.kind = job.kind /\ job'.doc = job.doc /\ job'.ids = job.ids
      /\ job'.stage = "rebuild" /\ job'.keep = job.keep /\ job'.drop = job.drop
  BY DEF Flush, IInv, JobOK, Job, Cleaning
<1>2. TypeOK'
  BY <1>1 DEF Flush, IInv, TypeOK, rows, chunk, shared, ghost
<1> QED BY <1>1, <1>2, CleanIInv DEF Flush, At, chunk, Cleaning

\* One element is rebuilt, or is not.
LEMMA RebuildIInv ==
    ASSUME IInv, NEW x \in Elements, Rebuild(x) \/ RebuildFails(x)
    PROVE  IInv'
<1>1. /\ job.stage = "rebuild"
      /\ job' = [job EXCEPT !.todo = @ \ {x}]
      /\ UNCHANGED <<rows, chunk, track, index, whole>>
  BY DEF Rebuild, RebuildFails, At, ghost
<1>2. job' \in Job /\ job'.kind = job.kind /\ job'.doc = job.doc /\ job'.ids = job.ids
      /\ job'.stage = "rebuild" /\ job'.keep = job.keep /\ job'.drop = job.drop
  BY <1>1 DEF IInv, JobOK, Job
<1>3. graph' \in [Elements -> SUBSET Chunks] /\ vec' \subseteq Elements
  BY DEF Rebuild, RebuildFails, IInv, TypeOK
<1>4. faults' \in 0..MaxFaults
  BY DeletionAssumption DEF Rebuild, RebuildFails, ghost, IInv, TypeOK
<1>5. TypeOK'
  BY <1>1, <1>2, <1>3, <1>4 DEF IInv, TypeOK, rows, chunk
<1> QED BY <1>1, <1>2, <1>5, CleanIInv DEF chunk, Cleaning

\* After the rebuild a deletion goes on with the cache, a purge with the index.
LEMMA RebuiltIInv == ASSUME IInv, Rebuilt PROVE IInv'
<1>1. job' \in Job /\ job'.kind = job.kind /\ job'.doc = job.doc /\ job'.ids = job.ids
      /\ job'.stage = (IF Deleting THEN "cache" ELSE "index")
      /\ job'.keep = job.keep /\ job'.drop = job.drop
  BY DEF Rebuilt, Goto, IInv, JobOK, Job, Cleaning, Closing
<1>2. TypeOK'
  BY <1>1 DEF Rebuilt, IInv, TypeOK, rows, chunk, shared
<1> QED BY <1>1, <1>2, CleanIInv DEF Rebuilt, At, chunk, Cleaning, Deleting

\* The cached answers of a deletion are kept or forgotten.
LEMMA ForgetAnswersIInv == ASSUME IInv, NEW wipe \in BOOLEAN, ForgetAnswers(wipe) PROVE IInv'
<1>1. Deleting /\ Doc \in Docs
  BY StageFacts DEF ForgetAnswers, Closing
<1>2. /\ job' \in Job /\ job'.kind = job.kind /\ job'.doc = job.doc /\ job'.ids = job.ids
      /\ job'.stage = (IF At("cache") THEN "index" ELSE "oldRow") /\ job'.wipe = wipe
      /\ job'.keep = job.keep /\ job'.drop = job.drop
  BY DEF ForgetAnswers, IInv, JobOK, Job, Cleaning, Closing
<1>3. cached' = IF wipe THEN cached \ backup[Doc] ELSE cached
  BY <1>1 DEF ForgetAnswers, CacheIds, At, IInv, Secured
<1>4. UNCHANGED <<rows, text, refs, cvec, shared, ghost>> /\ job.stage \in {"cache", "oldCache"}
  BY DEF ForgetAnswers
<1>5. TypeOK'
  BY <1>2, <1>3, <1>4 DEF IInv, TypeOK, rows, shared, ghost
<1>6. JobOK'
  BY <1>1, <1>2, <1>4 DEF IInv, JobOK, Doc, Deleting, Cleaning, Closing, rows, At
<1>7. Secured'
  BY <1>1, <1>2, <1>3, <1>4 DEF IInv, Secured, Doc, Deleting, Cleaning, rows, At
<1> QED BY <1>5, <1>6, <1>7 DEF IInv

\* The index goes; a purge is followed by the document's storing.
LEMMA DropIndexIInv == ASSUME IInv, DropIndex PROVE IInv'
<1>1. Doc \in Docs /\ job.stage = "index" /\ job.kind \in {"insert", "delete"}
  BY StageFacts DEF DropIndex, At
<1>2. /\ job' \in Job /\ job'.kind = job.kind /\ job'.doc = job.doc /\ job'.ids = job.ids
      /\ job'.stage = (IF Deleting THEN "row" ELSE "store") /\ job'.wipe = job.wipe
      /\ job'.keep = job.keep /\ job'.drop = job.drop
  BY DEF DropIndex, Goto, IInv, JobOK, Job, Inserting, Closing
<1>3. UNCHANGED <<rows, chunk, graph, track, vec, ghost>> /\ index' = [index EXCEPT ![Doc] = {}]
  BY DEF DropIndex
<1>4. TypeOK'
  BY <1>1, <1>2, <1>3 DEF IInv, TypeOK, rows, chunk, ghost
<1>5. JobOK'
  BY <1>1, <1>2, <1>3 DEF IInv, JobOK, Doc, Deleting, Inserting, Closing, rows
<1>6. Secured'
  BY <1>1, <1>2, <1>3 DEF IInv, Secured, Doc, Deleting, Cleaning, rows, chunk
<1> QED BY <1>4, <1>5, <1>6 DEF IInv

\* The row goes, with its list and its backup.
LEMMA DropRowIInv == ASSUME IInv, DropRow PROVE IInv'
<1>1. Doc \in Docs /\ Deleting /\ job.stage \in {"row", "oldRow"}
  BY StageFacts DEF DropRow, Closing
<1>2. /\ job' \in Job /\ job'.kind = job.kind /\ job'.doc = job.doc
      /\ job'.stage = (IF At("row") THEN "full" ELSE "oldFull") /\ job'.ids = job.ids
      /\ job'.keep = job.keep /\ job'.drop = job.drop
  BY DEF DropRow, Goto, IInv, JobOK, Job, Closing
<1>3. /\ row' = [row EXCEPT ![Doc] = "none"]
      /\ listed' = [listed EXCEPT ![Doc] = {}]
      /\ backup' = [backup EXCEPT ![Doc] = {}]
      /\ UNCHANGED <<full, chunk, shared, ghost>>
  BY DEF DropRow
<1>4. TypeOK'
  BY <1>1, <1>2, <1>3 DEF IInv, TypeOK, chunk, shared, ghost
<1>5. JobOK'
  BY <1>1, <1>2, <1>3 DEF IInv, JobOK, Doc, Deleting, Closing
<1>6. Secured'
  BY <1>1, <1>2 DEF IInv, Secured, Doc, Deleting, Cleaning, At
<1> QED BY <1>4, <1>5, <1>6 DEF IInv

\* The text goes, and the deletion ends.
LEMMA DropTextIInv == ASSUME IInv, DropText PROVE IInv'
<1>1. TypeOK'
  BY DEF DropText, IInv, TypeOK, chunk, shared, ghost, Idle
<1> QED BY <1>1, StopIInv DEF DropText

-----------------------------------------------------------------------------
(* Failures.                                                                *)

\* What the handler of a deletion writes back is what the row holds.
LEMMA KeptIsBackup == IInv => Kept(job.ids) = backup
<1> SUFFICES ASSUME IInv, Deleting, job.stage \notin {"row", "full"}, job.ids # {}
             PROVE  [backup EXCEPT ![Doc] = job.ids] = backup
  BY DEF Kept
<1>1. job.stage \in Cleaning \cup {"cache"}
  BY DEF IInv, JobOK, Secured, Cleaning, Closing, Deleting
<1> QED BY <1>1 DEF IInv, TypeOK, Secured

\* A stage raises, or the process ends.
LEMMA FailsIInv == ASSUME IInv, Fails PROVE IInv'
<1>1. backup' = backup
  BY KeptIsBackup DEF Fails
<1>2. faults' \in 0..MaxFaults /\ job' = Idle
  BY DeletionAssumption DEF Fails, Stopped, IInv, TypeOK
<1>3. TypeOK'
  BY <1>1, <1>2 DEF Fails, IInv, TypeOK, chunk, shared, Idle
<1> QED BY <1>2, <1>3, StopIInv

\* The last stage of a deletion without chunks raises.
LEMMA OldFullFailsIInv == ASSUME IInv, OldFullFails PROVE IInv'
<1>1. faults' \in 0..MaxFaults /\ job' = Idle
  BY DeletionAssumption DEF OldFullFails, Stopped, IInv, TypeOK
<1>2. row' \in [Docs -> {"none", "waiting", "processed"}]
      /\ \A d \in Docs : row'[d] = "none" => row[d] = "none"
  BY DEF OldFullFails, IInv, TypeOK
<1>3. TypeOK'
  BY <1>1, <1>2 DEF OldFullFails, IInv, TypeOK, chunk, shared, Idle
<1> QED BY <1>1, <1>3, StopIInv

\* Some of the three writes of stage 1 are lost.
LEMMA StoreFailsIInv == ASSUME IInv, StoreFails PROVE IInv'
<1>1. Doc \in Docs /\ row[Doc] # "none"
  BY StageFacts DEF StoreFails, At, Inserting
<1>2. faults' \in 0..MaxFaults /\ job' = Idle
  BY DeletionAssumption DEF StoreFails, Stopped, IInv, TypeOK
<1>3. PICK new \in Chunkings[Doc] \cup {{}} :
         /\ listed' \in {listed, [listed EXCEPT ![Doc] = new]}
         /\ \/ text' = text \cup new /\ refs' = refs \ new
            \/ UNCHANGED <<text, refs>>
         /\ cvec' \in {cvec, cvec \cup new}
  BY DEF StoreFails
<1>4. new \subseteq Chunks
  BY <1>1, DeletionAssumption
<1>5. /\ listed' \in [Docs -> SUBSET Chunks]
      /\ \A d \in Docs : listed'[d] \in Chunkings[d] \cup {{}}
      /\ \A d \in Docs \ {Doc} : listed'[d] = listed[d]
  BY <1>1, <1>3, <1>4 DEF IInv, TypeOK
<1>6. text' \subseteq Chunks /\ cvec' \subseteq Chunks /\ refs' \subseteq text'
  BY <1>3, <1>4 DEF IInv, TypeOK
<1>7. TypeOK'
  BY <1>1, <1>2, <1>5, <1>6 DEF StoreFails, IInv, TypeOK, shared, Idle
<1> QED BY <1>2, <1>7, StopIInv

\* Some of the answers are lost.
LEMMA ExtractFailsIInv == ASSUME IInv, ExtractFails PROVE IInv'
<1>1. faults' \in 0..MaxFaults /\ job' = Idle
  BY DeletionAssumption DEF ExtractFails, Stopped, IInv, TypeOK
<1>2. job.chunks \subseteq text /\ text \subseteq Chunks
  BY DEF ExtractFails, At, IInv, JobOK, TypeOK
<1>3. cached' \subseteq Chunks /\ refs' \subseteq text
  BY <1>2 DEF ExtractFails, IInv, TypeOK
<1>4. TypeOK'
  BY <1>1, <1>3 DEF ExtractFails, IInv, TypeOK, rows, shared, Idle
<1> QED BY <1>1, <1>4, StopIInv

\* A merge has raised.
LEMMA MergeFailsIInv == ASSUME IInv, MergeFails PROVE IInv'
<1>1. TypeOK'
  BY DEF MergeFails, IInv, TypeOK, rows, chunk, shared, Idle
<1> QED BY <1>1, StopIInv DEF MergeFails

\* Only a part of the cached answers is deleted.
LEMMA CacheFailsIInv == ASSUME IInv, CacheFails PROVE IInv'
<1>1. faults' \in 0..MaxFaults /\ job' = Idle
  BY DeletionAssumption DEF CacheFails, Stopped, IInv, TypeOK
<1>2. Doc \in Docs /\ row[Doc] # "none" /\ Deleting
  BY StageFacts DEF CacheFails, Closing
<1>3. PICK left \in SUBSET CacheIds :
         /\ cached' = cached \ (CacheIds \ left)
         /\ backup' \in {backup, Kept(job.ids), IF At("cache") THEN Kept(left) ELSE backup}
  BY DEF CacheFails
<1>4. left \subseteq Own(Doc) /\ left \subseteq Chunks
  BY <1>2, <1>3 DEF CacheFails, CacheIds, At, IInv, Secured, TypeOK
<1>5. backup' \in {backup, [backup EXCEPT ![Doc] = left]}
  BY <1>3, KeptIsBackup DEF Kept
<1>6. TypeOK'
  BY <1>1, <1>2, <1>3, <1>4, <1>5 DEF CacheFails, IInv, TypeOK, shared, Idle
<1> QED BY <1>1, <1>6, StopIInv

-----------------------------------------------------------------------------
(* The theorems.                                                            *)

\* Every step keeps the invariant.
LEMMA NextIInv == IInv /\ [Next]_vars => IInv'
<1> SUFFICES ASSUME IInv, [Next]_vars PROVE IInv'
  OBVIOUS
<1>1. ASSUME NEW d \in Docs, Enqueue(d) \/ Process(d) \/ Delete(d) PROVE IInv'
  BY <1>1, EnqueueIInv, ProcessIInv, DeleteIInv
<1>2. CASE InsertStep
  BY <1>2, StoreIInv, ExtractIInv, NodesDoneIInv, EdgesDoneIInv, RecordIInv, FinishIInv,
     MergeNodeIInv, MergeEdgeIInv DEF InsertStep
<1>3. CASE TakeOutStep
  BY <1>3, CollectIInv, AnalyzeIInv, TakeOutIInv, FlushIInv, RebuiltIInv, RebuildIInv,
     ForgetAnswersIInv, DropIndexIInv, DropRowIInv, DropTextIInv DEF TakeOutStep
<1>4. CASE Failure
  BY <1>4, FailsIInv, OldFullFailsIInv, StoreFailsIInv, ExtractFailsIInv, MergeFailsIInv,
     CacheFailsIInv DEF Failure
<1>5. CASE UNCHANGED vars
  BY <1>5 DEF vars, rows, chunk, shared, ghost, IInv, TypeOK, JobOK, Secured, Doc, Deleting, Job
<1> QED BY <1>1, <1>2, <1>3, <1>4, <1>5 DEF Next

\* In every reachable state the invariant holds.
LEMMA Invariant == Spec => []IInv
BY InitIInv, NextIInv, PTL DEF Spec

\* The stores hold what they can hold, the row of a document without one lists
\* nothing, and no element is both dropped and rebuilt, for any documents,
\* chunkings and extractions and after any failures.
THEOREM TypeCorrect == Spec => []TypeOK
<1>1. IInv => TypeOK
  BY DEF IInv
<1> QED BY <1>1, Invariant, PTL

\* What CacheRecoverable asks of one step.
Recoverable ==
    \A d \in Docs : Deleting /\ Doc = d =>
        \A c \in Reachable(d) \cap cached :
            \/ c \in Reachable(d)'
            \/ c \notin cached'
            \/ row'[d] = "none" /\ ~ job.wipe

\* The steps that do: the ids are collected, the chunks go, the row goes, and
\* the cache is emptied in part.
LEMMA StepRecoverable == IInv /\ Next => Recoverable
<1> SUFFICES ASSUME IInv, Next, Deleting, Doc \in Docs,
                    NEW c \in Reachable(Doc) \cap cached
             PROVE  \/ c \in (refs' \cap listed'[Doc]) \cup backup'[Doc]
                    \/ c \notin cached'
                    \/ row'[Doc] = "none" /\ ~ job.wipe
  BY DEF Recoverable, Reachable
<1>1. job # Idle /\ job.stage \notin Inserting
  BY DEF Deleting, Idle, IInv, JobOK, Inserting, Cleaning, Closing
<1>2. c \in (refs \cap listed[Doc]) \cup backup[Doc]
  BY DEF Reachable
<1>3. CASE UNCHANGED <<listed, backup, refs>>
  BY <1>2, <1>3
<1>4. CASE Collect
  <2>1. backup' = [backup EXCEPT ![Doc] = backup[Doc] \cup (refs \cap listed[Doc])]
    BY <1>4 DEF Collect, Mine
  <2> QED BY <1>2, <2>1 DEF IInv, TypeOK
<1>5. CASE TakeOut
  <2>1. UNCHANGED <<listed, backup>>
    BY <1>5 DEF TakeOut, rows
  <2>2. CASE job.stage = "text"
    BY <1>2, <2>1, <2>2 DEF IInv, Secured, Cleaning
  <2>3. CASE job.stage # "text"
    BY <1>2, <1>5, <2>1, <2>3 DEF TakeOut, At
  <2> QED BY <2>2, <2>3
<1>6. CASE DropRow
  <2>1. row'[Doc] = "none"
    BY <1>6 DEF DropRow, IInv, TypeOK
  <2>2. c \in backup[Doc]
    BY <1>2, <1>6 DEF DropRow, IInv, Secured
  <2>3. ~ job.wipe
    BY <1>6, <2>2 DEF DropRow, IInv, Secured
  <2> QED BY <2>1, <2>3
<1>7. CASE CacheFails
  <2>1. PICK left \in SUBSET CacheIds :
           /\ cached' = cached \ (CacheIds \ left)
           /\ backup' \in {backup, Kept(job.ids), IF At("cache") THEN Kept(left) ELSE backup}
    BY <1>7 DEF CacheFails
  <2>2. UNCHANGED <<listed, refs>>
    BY <1>7 DEF CacheFails
  <2>3. CASE backup' = backup
    BY <1>2, <2>2, <2>3
  <2>4. CASE At("cache") /\ backup' = [backup EXCEPT ![Doc] = left]
    <3>1. CacheIds = backup[Doc]
      BY <2>4 DEF CacheIds, At, IInv, Secured
    <3>2. backup'[Doc] = left
      BY <2>4 DEF IInv, TypeOK
    <3> QED BY <1>2, <2>1, <2>2, <3>1, <3>2
  <2> QED BY <2>1, <2>3, <2>4, KeptIsBackup DEF Kept
<1>8. CASE Fails
  BY <1>3, <1>8, KeptIsBackup DEF Fails, chunk
<1>9. ASSUME NEW d \in Docs, Enqueue(d) \/ Process(d) \/ Delete(d) PROVE FALSE
  BY <1>1, <1>9 DEF Enqueue, Process, Delete
<1>10. ASSUME InsertStep \/ StoreFails \/ ExtractFails PROVE FALSE
  BY <1>1, <1>10 DEF InsertStep, Store, Extract, NodesDone, EdgesDone, Record, Finish, MergeNode,
     MergeEdge, StoreFails, ExtractFails, At, Inserting
<1>11. CASE TakeOutStep
  <2>1. CASE Analyze \/ Flush \/ Rebuilt \/ DropIndex \/ DropText
    BY <1>3, <2>1 DEF Analyze, Flush, Rebuilt, DropIndex, DropText, rows, chunk
  <2>2. ASSUME NEW x \in Elements, Rebuild(x) \/ RebuildFails(x)
        PROVE  UNCHANGED <<listed, backup, refs>>
    BY <2>2 DEF Rebuild, RebuildFails, rows, chunk
  <2>3. ASSUME NEW wipe \in BOOLEAN, ForgetAnswers(wipe)
        PROVE  UNCHANGED <<listed, backup, refs>>
    BY <2>3 DEF ForgetAnswers, rows
  <2> QED BY <1>3, <1>4, <1>5, <1>6, <1>11, <2>1, <2>2, <2>3 DEF TakeOutStep
<1>12. CASE Failure
  <2>1. CASE OldFullFails \/ MergeFails
    BY <1>3, <2>1 DEF OldFullFails, MergeFails, rows, chunk
  <2> QED BY <1>7, <1>8, <1>10, <1>12, <2>1 DEF Failure
<1> QED BY <1>9, <1>10, <1>11, <1>12 DEF Next

\* Whatever fails, a cached answer that can be found from the row or the chunks
\* of the document being deleted is deleted or can still be found.
THEOREM CacheKept == Spec => CacheRecoverable
<1>1. IInv /\ [Next]_vars => [Recoverable]_vars
  BY StepRecoverable
<1>2. CacheRecoverable <=> [][Recoverable]_vars
  BY PTL DEF CacheRecoverable, Recoverable
<1> QED BY <1>1, <1>2, Invariant, PTL DEF Spec
-----------------------------------------------------------------------------
(* The theorem that a document is not harmed by the processing, deletion    *)
(* and reprocessing of others, nor by their failures.                       *)

-----------------------------------------------------------------------------
(* The inductive invariant.                                                 *)

\* c is a source of x in the graph and in chunk tracking.
Sourced(c, x) == c \in graph[x] \cap track[x]
\* An entity that was extracted, and not only created as an end, is searchable.
Merged(c, x)  == Sourced(c, x) /\ (x \in Entities => x \in vec)
Joined(c, q)  == Sourced(c, q) /\ \A e \in Ends[q] : Sourced(c, e)

\* All that the chunk c brought is in the stores under its name; the ends of a
\* relation too, for an end that is dropped takes the relation along.
Complete(c) ==
    /\ \A x \in Extracts[c] : Merged(c, x)
    /\ \A q \in Extracts[c] \cap Relations : Joined(c, q)

\* A whole document is processed, no job works on it, and it is complete.
WholeOK ==
    \A d \in whole :
        /\ row[d] = "processed"
        /\ job # Idle => Doc # d
        /\ listed[d] \subseteq text \cap cvec
        /\ \A c \in listed[d] : Complete(c)

\* What the document being processed has of its own, as far as the job is.
Progress ==
    LET ok == job.kind = "insert" /\ ~ job.broken IN
    /\ job.kind = "insert" /\ job.broken => job.stage \in {"nodes", "edges"}
    /\ ok /\ job.stage \in Inserting \ {"store"} =>
          job.chunks = listed[Doc] /\ job.chunks \subseteq text \cap cvec
    /\ ok /\ job.stage = "nodes" =>
          \A c \in job.chunks : \A x \in (Extracts[c] \cap Entities) \ job.todo : Merged(c, x)
    /\ ok /\ job.stage = "edges" =>
          \A c \in job.chunks :
              /\ \A x \in Extracts[c] \cap Entities : Merged(c, x)
              /\ \A q \in (Extracts[c] \cap Relations) \ job.todo : Joined(c, q)
    /\ ok /\ job.stage \in {"record", "finish"} =>
          \A c \in job.chunks : Complete(c)

\* What is dropped was extracted from no chunk of a whole document, and what is
\* rebuilt has lost only chunks of the document being taken out.
Spared ==
    job.stage \in Cleaning \ {"analyze", "index"} =>
        \A d \in whole : \A c \in listed[d] :
            /\ job.drop \cap Extracts[c] = {}
            /\ \A q \in Extracts[c] \cap Relations : job.drop \cap Ends[q] = {}

SInv == WholeOK /\ Progress /\ Spared

\* Initially no document is whole.
LEMMA InitSInv == Init => SInv
BY DEF Init, SInv, WholeOK, Progress, Spared, Idle, Cleaning

-----------------------------------------------------------------------------
(* What the steps have in common.                                           *)

\* A job works on no whole document, and documents share no chunk.
LEMMA Apart ==
    ASSUME IInv, SInv, job # Idle, NEW d \in whole
    PROVE  /\ d \in Docs /\ Doc \in Docs /\ d # Doc
           /\ Own(d) \cap Own(Doc) = {}
           /\ listed[d] \subseteq Own(d) /\ listed[Doc] \subseteq Own(Doc)
<1>1. d \in Docs /\ Doc \in Docs /\ d # Doc
  BY StageFacts DEF IInv, TypeOK, SInv, WholeOK
<1>2. \A e \in Docs : listed[e] \subseteq Own(e)
  BY DEF IInv, TypeOK, Own
<1> QED BY <1>1, <1>2, DeletionAssumption

\* What a chunk names, and the ends of it, are elements.
LEMMA Named ==
    ASSUME NEW c \in Chunks
    PROVE  /\ \A x \in Extracts[c] : x \in Elements
           /\ \A q \in Relations : Ends[q] \subseteq Entities /\ q \notin Entities
           /\ Entities \subseteq Elements /\ Relations \subseteq Elements
BY DeletionAssumption DEF Elements

\* A chunk stays complete when what it is a source of stays so.
LEMMA Grows ==
    ASSUME NEW c \in Chunks,
           \A x \in Elements : Sourced(c, x) => Sourced(c, x)',
           vec \cap Entities \subseteq vec'
    PROVE  /\ \A x \in Elements : Merged(c, x) => Merged(c, x)'
           /\ \A q \in Relations : Joined(c, q) => Joined(c, q)'
           /\ Complete(c) => Complete(c)'
<1>1. \A x \in Elements : Merged(c, x) => Merged(c, x)'
  BY DEF Merged
<1>2. \A q \in Relations : Joined(c, q) => Joined(c, q)'
  BY Named DEF Joined
<1> QED BY <1>1, <1>2, Named DEF Complete

\* The documents that are whole stay so in a step that leaves the shared stores
\* as they are.
LEMMA StoresUnchanged ==
    ASSUME SInv, UNCHANGED <<graph, track, vec>>, whole' \subseteq whole,
           \A d \in whole' : /\ row'[d] = row[d] /\ listed'[d] = listed[d]
                             /\ listed[d] \subseteq text' \cap cvec',
           job' # Idle => job # Idle /\ job'.doc = Doc
    PROVE  WholeOK'
<1>1. \A c : Complete(c) => Complete(c)'
  BY DEF Complete, Merged, Joined, Sourced
<1> QED BY <1>1 DEF SInv, WholeOK, Doc

\* A job that ends leaves nothing in progress.
LEMMA Ended == ASSUME job' = Idle PROVE Progress' /\ Spared'
BY DEF Progress, Spared, Idle, Inserting, Cleaning

-----------------------------------------------------------------------------
(* Processing.                                                              *)

\* A document that enters or a job that begins leaves the whole ones alone.
LEMMA BeginSInv ==
    ASSUME IInv, SInv, NEW d \in Docs, Enqueue(d) \/ Process(d) \/ Delete(d)
    PROVE  SInv'
<1>1. /\ job = Idle
      /\ UNCHANGED <<graph, track, vec, listed, text, cvec>>
      /\ whole' \subseteq whole
  BY DEF Enqueue, Process, Delete, rows, chunk, shared
<1>2. \A c : Complete(c) => Complete(c)'
  BY <1>1 DEF Complete, Merged, Joined, Sourced
<1>3. \A e \in whole' : row'[e] = "processed" /\ (job' # Idle => job'.doc # e)
  <2>1. CASE Enqueue(d)
    BY <2>1 DEF Enqueue, SInv, WholeOK, IInv, TypeOK
  <2>2. CASE Process(d)
    <3>1. job'.doc = d /\ row' = row /\ whole' = whole /\ d \notin whole
      BY <2>2 DEF Process, Idle, SInv, WholeOK
    <3> QED BY <3>1 DEF SInv, WholeOK
  <2>3. CASE Delete(d)
    <3>1. job'.doc = d /\ row' = row /\ whole' = whole \ {d}
      BY <2>3 DEF Delete, rows, Idle
    <3> QED BY <3>1 DEF SInv, WholeOK
  <2> QED BY <2>1, <2>2, <2>3
<1>4. WholeOK'
  BY <1>1, <1>2, <1>3 DEF SInv, WholeOK, Doc
<1>5. \/ job' = Idle
      \/ job'.stage \in {"analyze", "store", "collect", "oldCache"} /\ ~ job'.broken
  <2>1. CASE Enqueue(d)
    BY <2>1 DEF Enqueue
  <2>2. CASE Process(d)
    BY <2>2 DEF Process, Idle
  <2>3. CASE Delete(d)
    BY <2>3 DEF Delete, Idle
  <2> QED BY <2>1, <2>2, <2>3
<1>6. Progress' /\ Spared'
  BY <1>5, Ended DEF Progress, Spared, Inserting, Cleaning
<1> QED BY <1>4, <1>6 DEF SInv

\* The chunks of the document are stored.
LEMMA StoreSInv == ASSUME IInv, SInv, Store PROVE SInv'
<1>1. Doc \in Docs /\ job # Idle /\ job.kind = "insert" /\ ~ job.broken
  BY StageFacts DEF Store, At, Inserting, Idle, SInv, Progress
<1>2. PICK new \in Chunkings[Doc] :
         /\ listed' = [listed EXCEPT ![Doc] = new]
         /\ text' = text \cup new
         /\ cvec' = cvec \cup new
         /\ job' = [job EXCEPT !.stage = "extract", !.chunks = new]
  BY DEF Store
<1>3. UNCHANGED <<row, graph, track, vec, whole>>
  BY DEF Store, shared, ghost
<1>4. \A d \in whole : listed'[d] = listed[d] /\ listed[d] \subseteq text' \cap cvec'
  BY <1>1, <1>2, Apart DEF IInv, TypeOK, SInv, WholeOK
<1>5. /\ job'.doc = Doc /\ job'.stage = "extract" /\ job'.kind = "insert" /\ job'.chunks = new
      /\ job'.broken = job.broken
  BY <1>1, <1>2 DEF IInv, JobOK, Job, Doc
<1>6. WholeOK'
  BY <1>1, <1>3, <1>4, <1>5, StoresUnchanged
<1>7. Progress'
  BY <1>1, <1>2, <1>5 DEF Progress, Doc, IInv, TypeOK
<1>8. Spared'
  BY <1>5 DEF Spared, Cleaning
<1> QED BY <1>6, <1>7, <1>8 DEF SInv

\* After the extraction every entity is still to be merged.
LEMMA ExtractSInv == ASSUME IInv, SInv, Extract PROVE SInv'
<1>1. Doc \in Docs /\ job # Idle /\ job.kind = "insert" /\ job.stage = "extract"
  BY StageFacts DEF Extract, At, Inserting, Idle
<1>2. UNCHANGED <<row, listed, text, cvec, graph, track, vec, whole>>
  BY DEF Extract, rows, shared, ghost
<1>3. /\ job'.doc = Doc /\ job'.stage = "nodes" /\ job'.kind = "insert"
      /\ job'.chunks = job.chunks /\ job'.broken = job.broken
      /\ job'.todo = Entities \cap UNION {Extracts[c] : c \in job.chunks}
  BY <1>1 DEF Extract, IInv, JobOK, Job, Doc
<1>4. WholeOK'
  BY <1>1, <1>2, <1>3, StoresUnchanged DEF SInv, WholeOK
<1>5. Progress'
  BY <1>1, <1>2, <1>3 DEF SInv, Progress, Doc, Inserting
<1>6. Spared'
  BY <1>3 DEF Spared, Cleaning
<1> QED BY <1>4, <1>5, <1>6 DEF SInv

\* The whole documents stay so when no chunk loses what it is a source of.
LEMMA MergeKeeps ==
    ASSUME IInv, SInv, UNCHANGED <<rows, text, cvec, whole>>, vec \cap Entities \subseteq vec',
           \A c \in Chunks, x \in Elements : Sourced(c, x) => Sourced(c, x)',
           job # Idle, job'.doc = Doc
    PROVE  WholeOK'
<1>1. \A c \in Chunks : Complete(c) => Complete(c)'
  BY Grows
<1>2. \A d \in whole : listed[d] \subseteq Chunks
  BY DEF IInv, TypeOK
<1> QED BY <1>1, <1>2 DEF SInv, WholeOK, rows, Doc

\* What a chunk is a source of is among the sources a merge starts from.
LEMMA SourcedSources == ASSUME NEW c, NEW x, Sourced(c, x) PROVE c \in Sources(x) /\ Present(x)
BY DEF Sourced, Sources, Present

\* The merge of an entity, finished or not, loses no source.
LEMMA MergeNodeSInv ==
    ASSUME IInv, SInv, NEW e \in Entities, NEW depth \in 0..4, MergeNode(e, depth)
    PROVE  SInv'
<1> DEFINE all == Sources(e) \cup New(e)
<1>1. Doc \in Docs /\ job # Idle /\ job.kind = "insert" /\ job.stage = "nodes" /\ e \in Elements
  BY StageFacts DEF MergeNode, At, Inserting, Idle, Elements
<1>2. /\ track' = IF depth >= 1 THEN [track EXCEPT ![e] = all] ELSE track
      /\ graph' = IF depth >= 3 THEN [graph EXCEPT ![e] = all] ELSE graph
      /\ vec' = IF depth = 4 THEN vec \cup {e} ELSE vec
      /\ UNCHANGED <<rows, text, cvec, whole>>
  BY DEF MergeNode, chunk
<1>3. /\ job'.doc = Doc /\ job'.stage = "nodes" /\ job'.kind = "insert"
      /\ job'.chunks = job.chunks /\ job'.todo = job.todo \ {e}
      /\ job'.broken = (job.broken \/ depth < 4)
  BY <1>1 DEF MergeNode, IInv, JobOK, Job, Doc
<1>4. ASSUME NEW c \in Chunks, NEW x \in Elements, Sourced(c, x) PROVE Sourced(c, x)'
  <2>1. x = e => c \in all
    BY <1>4, SourcedSources
  <2> HIDE DEF all
  <2> QED BY <1>1, <1>2, <1>4, <2>1 DEF Sourced, IInv, TypeOK
<1>5. vec \cap Entities \subseteq vec'
  BY <1>2
<1>6. WholeOK'
  BY <1>1, <1>2, <1>3, <1>4, <1>5, MergeKeeps
<1>7. ASSUME ~ job'.broken, NEW c \in job.chunks, NEW x \in (Extracts[c] \cap Entities) \ job'.todo
      PROVE  Merged(c, x)'
  <2>1. c \in Chunks /\ x \in Elements
    BY <1>3, <1>7, Named DEF IInv, JobOK, Job
  <2>2. ~ job.broken /\ depth = 4
    <3>1. ~ job.broken /\ ~ (depth < 4)
      BY <1>3, <1>7, Zenon
    <3> QED BY <3>1
  <2>3. CASE x = e
    <3>1. c \in all
      BY <1>3, <1>7, <2>3 DEF New
    <3> HIDE DEF all
    <3> QED BY <1>1, <1>2, <2>1, <2>2, <2>3, <3>1 DEF Merged, Sourced, IInv, TypeOK
  <2>4. CASE x # e
    <3>1. Merged(c, x)
      BY <1>1, <1>3, <1>7, <2>2, <2>4 DEF SInv, Progress
    <3> QED BY <1>4, <1>5, <2>1, <3>1, Grows
  <2> QED BY <2>3, <2>4
<1>8. Progress'
  BY <1>1, <1>2, <1>3, <1>7 DEF SInv, Progress, Doc, rows, Inserting
<1>9. Spared'
  BY <1>3 DEF Spared, Cleaning
<1> QED BY <1>6, <1>8, <1>9 DEF SInv

\* After the last entity every relation is still to be merged.
LEMMA NodesDoneSInv == ASSUME IInv, SInv, NodesDone PROVE SInv'
<1>1. Doc \in Docs /\ job # Idle /\ job.kind = "insert" /\ job.stage = "nodes"
  BY StageFacts DEF NodesDone, At, Inserting, Idle
<1>2. UNCHANGED <<row, listed, text, cvec, graph, track, vec, whole>>
  BY DEF NodesDone, rows, chunk, shared, ghost
<1>3. /\ job'.doc = Doc /\ job'.stage = "edges" /\ job'.kind = "insert"
      /\ job'.chunks = job.chunks /\ job'.broken = job.broken
      /\ job'.todo = Relations \cap UNION {Extracts[c] : c \in job.chunks}
      /\ job.todo = {}
  BY <1>1 DEF NodesDone, IInv, JobOK, Job, Doc
<1>4. WholeOK'
  BY <1>1, <1>2, <1>3, StoresUnchanged DEF SInv, WholeOK
<1>5. \A c, x : Merged(c, x) => Merged(c, x)'
  BY <1>2 DEF Merged, Sourced
<1>6. Progress'
  BY <1>1, <1>2, <1>3, <1>5 DEF SInv, Progress, Doc, Inserting
<1>7. Spared'
  BY <1>3 DEF Spared, Cleaning
<1> QED BY <1>4, <1>6, <1>7 DEF SInv

\* What a merge of relation q writes into the lists of x.
LEMMA EdgeWrites ==
    ASSUME IInv, NEW q \in Relations, NEW depth \in 0..4, MergeEdge(q, depth),
           NEW c \in Chunks, NEW x \in Elements
    PROVE  /\ Sourced(c, x) => Sourced(c, x)'
           /\ depth = 4 /\ c \in New(q) /\ x \in Ends[q] \cup {q} => Sourced(c, x)'
<1> DEFINE all == Sources(q) \cup New(q)
           made == {e \in Ends[q] : ~ Present(e)}
           grown == [y \in Elements |->
                        IF y \in made THEN all
                        ELSE IF y \in Ends[q] THEN Sources(y) \cup all ELSE {}]
           Over(f, S) == [y \in Elements |-> IF y \in S THEN grown[y] ELSE f[y]]
<1>1. /\ track' = IF depth = 0 THEN track
                  ELSE [Over(track, IF depth >= 2 THEN Ends[q] ELSE {}) EXCEPT ![q] = all]
      /\ graph' = IF depth >= 3 THEN [Over(graph, Ends[q]) EXCEPT ![q] = all]
                  ELSE IF depth = 2 THEN Over(graph, Ends[q]) ELSE graph
  BY DEF MergeEdge
<1>2. q \in Elements /\ q \notin Ends[q]
  BY DeletionAssumption DEF Elements
<1>3. Sourced(c, x) => c \in Sources(x) /\ Present(x)
  BY SourcedSources
<1>4. c \in New(q) => c \in all
  OBVIOUS
<1>5. x = q /\ Sourced(c, x) => c \in all
  BY <1>3
<1>6. x \in Ends[q] /\ (Sourced(c, x) \/ c \in New(q)) => c \in grown[x]
  BY <1>3, <1>4
<1> HIDE DEF all, grown
<1>7. CASE depth = 0
  BY <1>1, <1>7 DEF Sourced
<1>8. CASE depth = 1
  BY <1>1, <1>2, <1>5, <1>8 DEF Sourced
<1>9. CASE depth = 2
  BY <1>1, <1>2, <1>5, <1>6, <1>9 DEF Sourced
<1>10. CASE depth >= 3
  BY <1>1, <1>2, <1>4, <1>5, <1>6, <1>10 DEF Sourced
<1> QED BY <1>7, <1>8, <1>9, <1>10

\* The merge of a relation, finished or not, loses no source.
LEMMA MergeEdgeSInv ==
    ASSUME IInv, SInv, NEW q \in Relations, NEW depth \in 0..4, MergeEdge(q, depth)
    PROVE  SInv'
<1>1. Doc \in Docs /\ job # Idle /\ job.kind = "insert" /\ job.stage = "edges"
  BY StageFacts DEF MergeEdge, At, Inserting, Idle
<1>2. UNCHANGED <<rows, text, cvec, whole>>
  BY DEF MergeEdge, chunk
<1>3. /\ job'.doc = Doc /\ job'.stage = "edges" /\ job'.kind = "insert"
      /\ job'.chunks = job.chunks /\ job'.todo = job.todo \ {q}
      /\ job'.broken = (job.broken \/ depth < 4)
  BY <1>1 DEF MergeEdge, IInv, JobOK, Job, Doc
<1>4. \A c \in Chunks, x \in Elements : Sourced(c, x) => Sourced(c, x)'
  BY EdgeWrites
<1>5. vec \cap Entities \subseteq vec'
  BY DeletionAssumption DEF MergeEdge
<1>6. WholeOK'
  BY <1>1, <1>2, <1>3, <1>4, <1>5, MergeKeeps
<1>7. ASSUME ~ job'.broken, NEW c \in job.chunks
      PROVE  /\ \A x \in Extracts[c] \cap Entities : Merged(c, x)'
             /\ \A p \in (Extracts[c] \cap Relations) \ job'.todo : Joined(c, p)'
  <2>1. c \in Chunks
    BY <1>7 DEF IInv, JobOK, Job
  <2>2. ~ job.broken /\ depth = 4
    <3>1. ~ job.broken /\ ~ (depth < 4)
      BY <1>3, <1>7, Zenon
    <3> QED BY <3>1
  <2>3. /\ \A x \in Extracts[c] \cap Entities : Merged(c, x)
        /\ \A p \in (Extracts[c] \cap Relations) \ job.todo : Joined(c, p)
    BY <1>1, <1>7, <2>2 DEF SInv, Progress
  <2>4. \A x \in Extracts[c] \cap Entities : Merged(c, x)'
    BY <1>4, <1>5, <2>1, <2>3, Grows, Named
  <2>5. ASSUME NEW p \in (Extracts[c] \cap Relations) \ job'.todo PROVE Joined(c, p)'
    <3>1. CASE p = q
      BY <1>7, <2>1, <2>2, <2>5, <3>1, EdgeWrites, Named DEF Joined, New
    <3>2. CASE p # q
      BY <1>3, <1>4, <1>5, <2>1, <2>3, <2>5, <3>2, Grows
    <3> QED BY <3>1, <3>2
  <2> QED BY <2>4, <2>5
<1>8. Progress'
  BY <1>1, <1>2, <1>3, <1>7 DEF SInv, Progress, Doc, rows, Inserting
<1>9. Spared'
  BY <1>3 DEF Spared, Cleaning
<1> QED BY <1>6, <1>8, <1>9 DEF SInv

\* After the last relation all that the document's chunks brought is in place.
LEMMA EdgesDoneSInv == ASSUME IInv, SInv, EdgesDone PROVE SInv'
<1>1. Doc \in Docs /\ job # Idle /\ job.kind = "insert" /\ job.stage = "edges" /\ job.todo = {}
  BY StageFacts DEF EdgesDone, At, Inserting, Idle
<1>2. UNCHANGED <<row, listed, text, cvec, graph, track, vec, whole>> /\ ~ job.broken
  BY DEF EdgesDone, rows, chunk, shared, ghost
<1>3. /\ job'.doc = Doc /\ job'.stage = "record" /\ job'.kind = "insert"
      /\ job'.chunks = job.chunks /\ job'.broken = job.broken
  BY <1>1 DEF EdgesDone, Goto, IInv, JobOK, Job, Doc
<1>4. WholeOK'
  BY <1>1, <1>2, <1>3, StoresUnchanged DEF SInv, WholeOK
<1>5. \A c \in job.chunks : Complete(c)
  <2> TAKE c \in job.chunks
  <2>1. c \in Chunks
    BY DEF IInv, JobOK, Job
  <2>2. /\ \A x \in Extracts[c] \cap Entities : Merged(c, x)
        /\ \A p \in Extracts[c] \cap Relations : Joined(c, p)
    BY <1>1, <1>2 DEF SInv, Progress
  <2>3. \A x \in Extracts[c] : x \in Entities \/ x \in Relations
    BY <2>1, Named DEF Elements
  <2> QED BY <2>1, <2>2, <2>3, Named DEF Complete, Joined, Merged
<1>6. \A c : Complete(c) => Complete(c)'
  BY <1>2 DEF Complete, Merged, Joined, Sourced
<1>7. Progress'
  BY <1>1, <1>2, <1>3, <1>5, <1>6 DEF SInv, Progress, Doc, Inserting
<1>8. Spared'
  BY <1>3 DEF Spared, Cleaning
<1> QED BY <1>4, <1>7, <1>8 DEF SInv

\* The index is written.
LEMMA RecordSInv == ASSUME IInv, SInv, Record PROVE SInv'
<1>1. Doc \in Docs /\ job # Idle /\ job.kind = "insert" /\ job.stage = "record" /\ ~ job.broken
  BY StageFacts DEF Record, At, Inserting, Idle, SInv, Progress
<1>2. UNCHANGED <<row, listed, text, cvec, graph, track, vec, whole>>
  BY DEF Record, rows, chunk
<1>3. /\ job'.doc = Doc /\ job'.stage = "finish" /\ job'.kind = "insert"
      /\ job'.chunks = job.chunks /\ job'.broken = job.broken
  BY <1>1 DEF Record, Goto, IInv, JobOK, Job, Doc
<1>4. WholeOK'
  BY <1>1, <1>2, <1>3, StoresUnchanged DEF SInv, WholeOK
<1>5. \A c : Complete(c) => Complete(c)'
  BY <1>2 DEF Complete, Merged, Joined, Sourced
<1>6. Progress'
  BY <1>1, <1>2, <1>3, <1>5 DEF SInv, Progress, Doc, Inserting
<1>7. Spared'
  BY <1>3 DEF Spared, Cleaning
<1> QED BY <1>4, <1>6, <1>7 DEF SInv

\* The document becomes whole.
LEMMA FinishSInv == ASSUME IInv, SInv, Finish PROVE SInv'
<1>1. Doc \in Docs /\ job # Idle /\ job.kind = "insert" /\ job.stage = "finish" /\ ~ job.broken
  BY StageFacts DEF Finish, At, Inserting, Idle, SInv, Progress
<1>2. /\ UNCHANGED <<listed, text, cvec, graph, track, vec>>
      /\ row' = [row EXCEPT ![Doc] = "processed"]
      /\ whole' = whole \cup {Doc} /\ job' = Idle
  BY DEF Finish, chunk, shared
<1>3. \A c : Complete(c) => Complete(c)'
  BY <1>2 DEF Complete, Merged, Joined, Sourced
<1>4. \A c \in listed[Doc] : Complete(c) /\ c \in text \cap cvec
  BY <1>1 DEF SInv, Progress, Inserting
<1>5. WholeOK'
  BY <1>1, <1>2, <1>3, <1>4 DEF SInv, WholeOK, IInv, TypeOK
<1> QED BY <1>2, <1>5, Ended DEF SInv

-----------------------------------------------------------------------------
(* Taking out.                                                              *)

\* A step that ends the job and leaves the shared stores and the chunks alone.
LEMMA QuietEnd ==
    ASSUME SInv, job' = Idle,
           UNCHANGED <<row, listed, text, cvec, graph, track, vec, whole>>
    PROVE  SInv'
<1>1. WholeOK'
  BY StoresUnchanged DEF SInv, WholeOK
<1> QED BY <1>1, Ended DEF SInv

\* A step from one stage of a taking-out to the next that leaves them alone.
LEMMA QuietMove ==
    ASSUME SInv, job # Idle, job.stage \in Cleaning \cup Closing,
           UNCHANGED <<row, listed, text, cvec, graph, track, vec, whole>>,
           job'.doc = Doc, job'.broken = job.broken, job'.kind = job.kind,
           job'.stage \in Cleaning \cup Closing \cup {"store"},
           job'.stage \in Cleaning \ {"analyze", "index"} =>
               job.stage \in Cleaning \ {"analyze", "index"} /\ job'.drop = job.drop
    PROVE  SInv'
<1>1. WholeOK'
  BY StoresUnchanged DEF SInv, WholeOK
<1>2. job.kind = "insert" => ~ job.broken
  BY DEF SInv, Progress, Cleaning, Closing
<1>3. Progress'
  BY <1>2 DEF Progress, Inserting, Cleaning, Closing
<1>4. Spared'
  BY DEF SInv, Spared
<1> QED BY <1>1, <1>3, <1>4 DEF SInv

\* The ids are collected.
LEMMA CollectSInv == ASSUME IInv, SInv, Collect PROVE SInv'
<1>1. /\ job # Idle /\ job.stage \in Closing
      /\ UNCHANGED <<row, listed, text, cvec, graph, track, vec, whole>>
      /\ job' = [job EXCEPT !.stage = "analyze", !.ids = backup[Doc] \cup (refs \cap Mine)]
  BY DEF Collect, At, Idle, Closing, chunk, shared, ghost
<1>2. /\ job'.doc = Doc /\ job'.broken = job.broken /\ job'.kind = job.kind
      /\ job'.stage = "analyze"
  BY <1>1 DEF IInv, JobOK, Job, Doc
<1> QED BY <1>1, <1>2, QuietMove DEF Cleaning

\* No element is chosen to be dropped that a whole document needs.
LEMMA AnalyzeSInv == ASSUME IInv, SInv, Analyze PROVE SInv'
<1> DEFINE seen == {x \in index[Doc] : Present(x)}
           gone == {x \in seen : Sources(x) \subseteq Mine}
           kept == {x \in seen \ gone : Names(x) \cap Mine # {}}
<1>1. /\ job # Idle /\ job.stage = "analyze"
      /\ UNCHANGED <<row, listed, text, cvec, graph, track, vec, whole>>
      /\ job' = [job EXCEPT !.stage = "track", !.drop = gone, !.keep = kept]
  BY DEF Analyze, At, Idle, rows, chunk, shared, ghost
<1>2. \A x \in gone : Sources(x) \subseteq Mine
  OBVIOUS
<1> HIDE DEF gone, kept
<1>3. /\ job'.doc = Doc /\ job'.broken = job.broken /\ job'.kind = job.kind
      /\ job'.stage = "track" /\ job'.drop = gone
  BY <1>1 DEF IInv, JobOK, Job, Doc
<1>4. WholeOK'
  BY <1>1, <1>3, StoresUnchanged DEF SInv, WholeOK
<1>5. Progress'
  BY <1>1, <1>3 DEF SInv, Progress, Inserting
<1>6. ASSUME NEW d \in whole, NEW c \in listed[d]
      PROVE  /\ gone \cap Extracts[c] = {}
             /\ \A q \in Extracts[c] \cap Relations : gone \cap Ends[q] = {}
  <2>1. c \notin Mine
    BY <1>1, Apart DEF Mine
  <2>2. Complete(c)
    BY DEF SInv, WholeOK
  <2>3. \A x : Sourced(c, x) => x \notin gone
    BY <1>2, <2>1, SourcedSources
  <2> QED BY <2>2, <2>3 DEF Complete, Merged, Joined
<1>7. Spared'
  BY <1>1, <1>3, <1>6 DEF Spared
<1> QED BY <1>4, <1>5, <1>7 DEF SInv

\* A write of the taking-out takes from an element that is neither dropped nor
\* goes with its ends only the chunks that go.
LEMMA TakeOutKeeps ==
    ASSUME IInv, TakeOut, NEW c \in Chunks, NEW x \in Elements, c \notin Mine, Sourced(c, x),
           x \notin job.drop, x \notin Residual
    PROVE  Sourced(c, x)' /\ (x \in vec => x \in vec')
<1>1. c \in Sources(x)
  BY SourcedSources
<1>2. c \in track'[x]
  BY <1>1 DEF TakeOut, Sourced, Emptied, DropRels, DropEnts
<1>3. c \in graph'[x]
  BY DEF TakeOut, Sourced, Emptied, DropRels, DropEnts
<1>4. x \in vec => x \in vec'
  BY DEF TakeOut, DropRels, DropEnts
<1> QED BY <1>2, <1>3, <1>4 DEF Sourced

\* One write of one store.
LEMMA TakeOutSInv == ASSUME IInv, SInv, TakeOut PROVE SInv'
<1>1. job.stage \in {"track", "cvec", "text", "relVec", "relGraph", "relTrack", "resVec",
                     "resTrack", "nodeGraph", "nodeVec", "nodeTrack"}
  BY DEF TakeOut, Following
<1>2. job # Idle /\ Following[job.stage] \in Cleaning \ {"index", "analyze"}
  BY <1>1 DEF Following, AfterRels, Cleaning, Idle
<1>3. /\ job'.doc = Doc /\ job'.broken = job.broken /\ job'.kind = job.kind
      /\ job'.stage = Following[job.stage] /\ job'.drop = job.drop
  BY <1>2 DEF TakeOut, Goto, IInv, JobOK, Job, Doc
<1>4. UNCHANGED <<row, listed, whole>>
  BY DEF TakeOut, rows, ghost
<1>5. ASSUME NEW d \in whole
      PROVE  /\ listed[d] \subseteq text' \cap cvec'
             /\ \A c \in listed[d] : Complete(c)'
  <2>1. listed[d] \cap Mine = {} /\ listed[d] \subseteq Chunks
    BY <1>2, Apart DEF Mine, IInv, TypeOK
  <2>2. listed[d] \subseteq text' \cap cvec'
    BY <2>1 DEF TakeOut, SInv, WholeOK
  <2>3. ASSUME NEW c \in listed[d] PROVE Complete(c)'
    <3>1. c \in Chunks /\ c \notin Mine /\ Complete(c)
      BY <2>1 DEF SInv, WholeOK
    <3>2. /\ job.drop \cap Extracts[c] = {}
          /\ \A q \in Extracts[c] \cap Relations : job.drop \cap Ends[q] = {}
      BY <1>1 DEF SInv, Spared, Cleaning
    <3>3. \A q \in Extracts[c] \cap Relations : q \notin Residual
      BY <3>2 DEF Residual, DropEnts
    <3>4. \A e \in Entities : e \notin Residual
      BY <3>1, Named DEF Residual
    <3>5. \A x \in Extracts[c] : Merged(c, x)'
      BY <3>1, <3>2, <3>3, <3>4, Named, TakeOutKeeps DEF Complete, Merged, Elements
    <3>6. \A q \in Extracts[c] \cap Relations : Joined(c, q)'
      BY <3>1, <3>2, <3>3, <3>4, Named, TakeOutKeeps DEF Complete, Joined
    <3> QED BY <3>5, <3>6 DEF Complete
  <2> QED BY <2>2, <2>3
<1>6. WholeOK'
  BY <1>2, <1>3, <1>4, <1>5 DEF SInv, WholeOK, Doc
<1>7. Progress'
  BY <1>1, <1>2, <1>3 DEF SInv, Progress, Inserting, Cleaning
<1>8. Spared'
  BY <1>1, <1>2, <1>3, <1>4 DEF SInv, Spared, Cleaning
<1> QED BY <1>6, <1>7, <1>8 DEF SInv

\* The rebuild begins.
LEMMA FlushSInv == ASSUME IInv, SInv, Flush PROVE SInv'
<1>1. /\ job # Idle /\ job.stage = "flush"
      /\ UNCHANGED <<row, listed, text, cvec, graph, track, vec, whole>>
  BY DEF Flush, At, Idle, rows, chunk, shared, ghost
<1>2. /\ job'.doc = Doc /\ job'.broken = job.broken /\ job'.kind = job.kind
      /\ job'.stage = "rebuild" /\ job'.drop = job.drop
  BY DEF Flush, IInv, JobOK, Job, Doc
<1> QED BY <1>1, <1>2, QuietMove DEF Cleaning

\* A rebuilt element is named by what the tracking says, and one that cannot be
\* rebuilt keeps its entity vector.
LEMMA RebuildSInv ==
    ASSUME IInv, SInv, NEW x \in Elements, Rebuild(x) \/ RebuildFails(x)
    PROVE  SInv'
<1>1. /\ job # Idle /\ job.stage = "rebuild"
      /\ job' = [job EXCEPT !.todo = @ \ {x}]
      /\ UNCHANGED <<row, listed, text, cvec, track, whole>>
  BY DEF Rebuild, RebuildFails, At, Idle, rows, chunk, ghost
<1>2. /\ job'.doc = Doc /\ job'.broken = job.broken /\ job'.kind = job.kind
      /\ job'.stage = "rebuild" /\ job'.drop = job.drop
  BY <1>1 DEF IInv, JobOK, Job, Doc
<1>3. graph' = graph \/ graph' = [graph EXCEPT ![x] = track[x]]
  BY DEF Rebuild, RebuildFails
<1>4. \A c \in Chunks, y \in Elements : Sourced(c, y) => Sourced(c, y)'
  BY <1>1, <1>3 DEF Sourced, IInv, TypeOK
<1>5. vec \cap Entities \subseteq vec'
  BY DeletionAssumption DEF Rebuild, RebuildFails
<1>6. UNCHANGED <<rows, text, cvec, whole>>
  BY DEF Rebuild, RebuildFails, chunk, ghost
<1>7. WholeOK'
  BY <1>1, <1>2, <1>4, <1>5, <1>6, MergeKeeps
<1>8. Progress'
  BY <1>1, <1>2 DEF SInv, Progress, Inserting
<1>9. Spared'
  BY <1>1, <1>2 DEF SInv, Spared, Cleaning
<1> QED BY <1>7, <1>8, <1>9 DEF SInv

\* The stages after the rebuild, except the removal of the row.
LEMMA AfterRebuildSInv ==
    ASSUME IInv, SInv, \/ Rebuilt \/ DropIndex \/ DropText
                       \/ \E wipe \in BOOLEAN : ForgetAnswers(wipe)
    PROVE  SInv'
<1>1. CASE DropText
  BY <1>1, QuietEnd DEF DropText, chunk, shared, ghost
<1>2. CASE Rebuilt
  <2>1. /\ job # Idle /\ job.stage = "rebuild"
        /\ UNCHANGED <<row, listed, text, cvec, graph, track, vec, whole>>
    BY <1>2 DEF Rebuilt, At, Idle, rows, chunk, shared
  <2>2. /\ job'.doc = Doc /\ job'.broken = job.broken /\ job'.kind = job.kind
        /\ job'.stage \in {"cache", "index"}
    BY <1>2 DEF Rebuilt, Goto, IInv, JobOK, Job, Doc
  <2> QED BY <2>1, <2>2, QuietMove DEF Cleaning, Closing
<1>3. CASE DropIndex
  <2>1. /\ job # Idle /\ job.stage = "index"
        /\ UNCHANGED <<row, listed, text, cvec, graph, track, vec, whole>>
    BY <1>3 DEF DropIndex, At, Idle, rows, chunk, ghost
  <2>2. /\ job'.doc = Doc /\ job'.broken = job.broken /\ job'.kind = job.kind
        /\ job'.stage \in {"row", "store"}
    BY <1>3 DEF DropIndex, Goto, IInv, JobOK, Job, Doc
  <2> QED BY <2>1, <2>2, QuietMove DEF Cleaning, Closing
<1>4. ASSUME NEW wipe \in BOOLEAN, ForgetAnswers(wipe) PROVE SInv'
  <2>1. job.stage \in {"cache", "oldCache"} /\ UNCHANGED <<rows, text, cvec, shared, ghost>>
    BY <1>4 DEF ForgetAnswers
  <2>3. /\ job # Idle /\ job.stage \in Closing
        /\ UNCHANGED <<row, listed, text, cvec, graph, track, vec, whole>>
    BY <2>1 DEF Idle, Closing, rows, shared, ghost
  <2>2. /\ job'.doc = Doc /\ job'.broken = job.broken /\ job'.kind = job.kind
        /\ job'.stage \in {"index", "oldRow"}
    BY <1>4 DEF ForgetAnswers, IInv, JobOK, Job, Doc
  <2> QED BY <2>2, <2>3, QuietMove DEF Cleaning, Closing
<1> QED BY <1>1, <1>2, <1>3, <1>4

\* The row that goes is not that of a whole document.
LEMMA DropRowSInv == ASSUME IInv, SInv, DropRow PROVE SInv'
<1>1. /\ job # Idle /\ job.stage \in {"row", "oldRow"} /\ Doc \in Docs
      /\ UNCHANGED <<text, cvec, graph, track, vec, whole>>
  BY StageFacts DEF DropRow, Idle, Closing, chunk, shared, ghost
<1>2. /\ job'.doc = Doc /\ job'.broken = job.broken /\ job'.kind = job.kind
      /\ job'.stage \in {"full", "oldFull"}
  BY DEF DropRow, Goto, IInv, JobOK, Job, Doc
<1>3. \A d \in whole : row'[d] = row[d] /\ listed'[d] = listed[d]
  BY <1>1, Apart DEF DropRow, IInv, TypeOK
<1>4. WholeOK'
  BY <1>1, <1>2, <1>3, StoresUnchanged DEF SInv, WholeOK
<1>5. Progress'
  BY <1>1, <1>2 DEF SInv, Progress, Inserting
<1>6. Spared'
  BY <1>2 DEF Spared, Cleaning
<1> QED BY <1>4, <1>5, <1>6 DEF SInv

-----------------------------------------------------------------------------
(* Failures, and the theorem.                                               *)

\* Whatever a job that fails had written, the whole documents stay whole.
LEMMA FailureSInv == ASSUME IInv, SInv, Failure PROVE SInv'
<1>1. CASE Fails
  BY <1>1, QuietEnd DEF Fails, Stopped, chunk, shared
<1>2. CASE MergeFails
  BY <1>2, QuietEnd DEF MergeFails, rows, chunk, shared
<1>3. CASE ExtractFails
  BY <1>3, QuietEnd DEF ExtractFails, Stopped, rows, shared
<1>4. CASE CacheFails
  BY <1>4, QuietEnd DEF CacheFails, Stopped, shared
<1>5. CASE OldFullFails
  <2>1. /\ job # Idle /\ job' = Idle
        /\ UNCHANGED <<listed, text, cvec, graph, track, vec, whole>>
        /\ row' = row \/ row' = [row EXCEPT ![Doc] = "waiting"]
    BY <1>5 DEF OldFullFails, Stopped, At, Idle, chunk, shared
  <2>2. \A d \in whole : row'[d] = row[d]
    BY <2>1, Apart DEF IInv, TypeOK
  <2>3. WholeOK'
    BY <2>1, <2>2, StoresUnchanged DEF SInv, WholeOK
  <2> QED BY <2>1, <2>3, Ended DEF SInv
<1>6. CASE StoreFails
  <2>1. /\ job # Idle /\ job' = Idle
        /\ UNCHANGED <<row, graph, track, vec, whole>>
    BY <1>6 DEF StoreFails, Stopped, At, Idle, shared
  <2>2. PICK new \in Chunkings[Doc] \cup {{}} : listed' \in {listed, [listed EXCEPT ![Doc] = new]}
    BY <1>6 DEF StoreFails
  <2>3. text \subseteq text' /\ cvec \subseteq cvec'
    BY <1>6 DEF StoreFails
  <2>4. \A d \in whole : listed'[d] = listed[d]
    BY <2>1, <2>2, Apart DEF IInv, TypeOK
  <2>5. \A d \in whole : listed[d] \subseteq text' \cap cvec'
    BY <2>3 DEF SInv, WholeOK
  <2>6. WholeOK'
    BY <2>1, <2>4, <2>5, StoresUnchanged
  <2> QED BY <2>1, <2>6, Ended DEF SInv
<1> QED BY <1>1, <1>2, <1>3, <1>4, <1>5, <1>6 DEF Failure

\* Every step keeps the invariant.
LEMMA NextSInv == IInv /\ SInv /\ [Next]_vars => SInv'
<1> SUFFICES ASSUME IInv, SInv, [Next]_vars PROVE SInv'
  OBVIOUS
<1>1. ASSUME NEW d \in Docs, Enqueue(d) \/ Process(d) \/ Delete(d) PROVE SInv'
  BY <1>1, BeginSInv
<1>2. CASE InsertStep
  BY <1>2, StoreSInv, ExtractSInv, NodesDoneSInv, EdgesDoneSInv, RecordSInv, FinishSInv,
     MergeNodeSInv, MergeEdgeSInv DEF InsertStep
<1>3. CASE TakeOutStep
  BY <1>3, CollectSInv, AnalyzeSInv, TakeOutSInv, FlushSInv, RebuildSInv, AfterRebuildSInv,
     DropRowSInv DEF TakeOutStep
<1>4. CASE Failure
  BY <1>4, FailureSInv
<1>5. CASE UNCHANGED vars
  <2>1. UNCHANGED <<row, listed, text, cvec, graph, track, vec, whole, job>>
    BY <1>5 DEF vars, rows, chunk, shared, ghost
  <2>2. \A c, x : Merged(c, x)' = Merged(c, x) /\ Joined(c, x)' = Joined(c, x)
    BY <2>1 DEF Merged, Joined, Sourced
  <2>3. \A c : Complete(c)' = Complete(c)
    BY <2>1 DEF Complete, Merged, Joined, Sourced
  <2> QED BY <2>1, <2>2, <2>3 DEF SInv, WholeOK, Progress, Spared, Doc
<1> QED BY <1>1, <1>2, <1>3, <1>4, <1>5 DEF Next

\* A document that was processed and not touched since keeps its chunks, and the
\* graph, the tracking and the entity vectors keep what was extracted from them,
\* whatever is processed, deleted or reprocessed besides and wherever that fails.
THEOREM OthersUnharmed == Spec => []OthersKept
<1>1. SInv => OthersKept
  BY DEF SInv, WholeOK, Complete, Merged, Sourced, OthersKept
<1>2. Init => SInv
  BY InitSInv
<1> QED BY <1>1, <1>2, NextSInv, Invariant, PTL DEF Spec

\* The stores are well typed and no document is harmed by another, for any
\* documents, cuts and failures.
THEOREM DeletionCorrect == Spec => []DeletionInv
BY TypeCorrect, OthersUnharmed, PTL DEF DeletionInv
-----------------------------------------------------------------------------
(* What a deletion leaves.  What the job could not see when it began is in  *)
(* `missed`; of the rest, every chunk and every name of a chunk is found    *)
(* through the row's list and the index, sorted into what is dropped and    *)
(* what is kept, and gone when the stages that take it out are over.        *)

\* The chunks K are gone but for what d's job has missed.  An element that still
\* names one was missed, and with a relation its ends, to which the merge of
\* another document may hand the name.
Excused(x, d) == x \in missed[d] /\ (x \in Relations => Ends[x] \subseteq missed[d])
Cleared(d, K) ==
    /\ K \cap (text \cup cvec) \subseteq missed[d]
    /\ \A x \in Elements : Names(x) \cap K # {} => Excused(x, d)

Removing == {"track", "cvec", "text", "relVec", "relGraph", "relTrack", "resVec", "resTrack",
             "nodeGraph", "nodeVec", "nodeTrack", "flush", "rebuild"}
\* The stages after which something is known to be gone.
Last          == {"flush", "rebuild"}
NodeGraphDone == {"nodeVec", "nodeTrack"} \cup Last
RelTrackDone  == {"resVec", "resTrack", "nodeGraph"} \cup NodeGraphDone
RelGraphDone  == {"relTrack"} \cup RelTrackDone

\* The listed chunks go, and the others were missed.
ChunksGo ==
    /\ (Own(Doc) \ Mine) \cap (text \cup cvec) \subseteq missed[Doc]
    /\ job.stage \notin {"track", "cvec"} => cvec \cap Mine = {}
    /\ job.stage \notin {"track", "cvec", "text"} => text \cap Mine = {}

\* An element the job has seen: it names only listed chunks, it is dropped or
\* kept when it names any, and the stages behind have done their part.
Withdrawn(x) ==
    /\ Names(x) \cap Own(Doc) \subseteq Mine
    /\ x \notin job.drop \cup job.keep => Names(x) \cap Own(Doc) = {}
    /\ x \in job.keep /\ job.stage # "track" => track[x] \cap Own(Doc) = {}
    /\ x \in DropRels =>
          /\ job.stage \in RelGraphDone => graph[x] = {}
          /\ job.stage \in RelTrackDone => track[x] = {}
    /\ x \in DropEnts =>
          /\ job.stage \in NodeGraphDone => graph[x] = {}
          /\ job.stage \in Last => track[x] = {}

\* What the job has done so far.
Withdrawing ==
    /\ job.stage \in {"collect", "analyze"} => Unseen(Doc) \subseteq missed[Doc]
    /\ job.stage \in Removing =>
          ChunksGo /\ \A x \in Elements : Excused(x, Doc) \/ Withdrawn(x)
    /\ job.stage \in {"cache", "index", "row", "oldCache", "oldRow", "store"} =>
          Cleared(Doc, Own(Doc))
    /\ job.stage \in Inserting \ {"store"} =>
          /\ job.chunks = listed[Doc] /\ listed[Doc] # {}
          /\ Cleared(Doc, Own(Doc) \ listed[Doc])

\* The index of a document goes with its list.
IndexOK ==
    /\ \A d \in Docs : listed[d] = {} => index[d] = {}
    /\ job.stage \in {"row", "store"} => index[Doc] = {}

\* Where no job is any more.
Gone == \A d \in Docs : row[d] = "none" \/ d \in whole => Cleared(d, Own(d) \ listed[d])

TInv == Gone /\ IndexOK /\ Withdrawing

\* Initially there is nothing.
LEMMA InitTInv == Init => TInv
BY DEF Init, TInv, Gone, IndexOK, Withdrawing, Cleared, Names, Idle, Inserting, Removing

LEMMA ExcusedStays ==
    ASSUME NEW d, NEW x, Excused(x, d), missed[d] \subseteq missed'[d]
    PROVE  Excused(x, d)'
BY DEF Excused

\* Chunks stay cleared when none of them is stored, and none is named by an
\* element that did not name it and is no end of a relation that did.
LEMMA ClearedStays ==
    ASSUME NEW d, NEW K, Cleared(d, K), missed[d] \subseteq missed'[d],
           K \cap (text' \cup cvec') \subseteq text \cup cvec,
           \A x \in Elements : \A c \in K \cap Names(x)' :
               \/ c \in Names(x)
               \/ \E q \in Relations : x \in Ends[q] /\ c \in Names(q)
    PROVE  Cleared(d, K)'
<1>1. K \cap (text' \cup cvec') \subseteq missed'[d]
  BY DEF Cleared
<1>2. ASSUME NEW x \in Elements, NEW c \in K \cap Names(x)' PROVE Excused(x, d)'
  <2>1. CASE c \in Names(x)
    <3>1. Excused(x, d)
      BY <1>2, <2>1 DEF Cleared
    <3> QED BY <3>1, ExcusedStays
  <2>2. CASE \E q \in Relations : x \in Ends[q] /\ c \in Names(q)
    <3>1. PICK q \in Relations : x \in Ends[q] /\ c \in Names(q)
      BY <2>2
    <3>2. Excused(q, d)
      BY <1>2, <3>1 DEF Cleared, Elements
    <3>3. x \in missed[d] /\ x \notin Relations
      BY <3>1, <3>2, DeletionAssumption DEF Excused
    <3> QED BY <3>3 DEF Excused
  <2> QED BY <1>2, <2>1, <2>2
<1>3. \A x \in Elements : Names(x)' \cap K # {} => Excused(x, d)'
  BY <1>2
<1> QED BY <1>1, <1>3 DEF Cleared

\* What a job cannot see when it begins.
LEMMA UnseenFacts ==
    ASSUME NEW d
    PROVE  /\ (Own(d) \ listed[d]) \cap (text \cup cvec) \subseteq Unseen(d)
           /\ \A x \in Elements :
                 \/ Names(x) \cap Own(d) = {}
                 \/ x \in index[d] /\ Present(x) /\ Names(x) \cap Own(d) \subseteq listed[d]
                 \/ x \in Unseen(d) /\ (x \in Relations => Ends[x] \subseteq Unseen(d))
<1>1. (Own(d) \ listed[d]) \cap (text \cup cvec) \subseteq Unseen(d)
  BY DEF Unseen
<1> DEFINE bad == {x \in Elements : /\ Names(x) \cap Own(d) # {}
                                    /\ ~ (/\ x \in index[d]
                                          /\ Present(x)
                                          /\ Names(x) \cap Own(d) \subseteq listed[d])}
<1>2. With(bad) \subseteq Unseen(d)
  BY DEF Unseen
<1>3. \A x \in Elements : \/ Names(x) \cap Own(d) = {}
                          \/ x \in index[d] /\ Present(x) /\ Names(x) \cap Own(d) \subseteq listed[d]
                          \/ x \in bad
  OBVIOUS
<1> HIDE DEF bad
<1>4. \A x \in bad : x \in With(bad) /\ (x \in Relations => Ends[x] \subseteq With(bad))
  BY DEF With
<1> QED BY <1>1, <1>2, <1>3, <1>4

\* A step stores no chunks but those of A, and adds to the names of an element no
\* others and those of relations it is an end of.
Spreads(A) ==
    /\ text' \cup cvec' \subseteq text \cup cvec \cup A
    /\ \A x \in Elements : \A c \in Names(x)' \ A :
          \/ c \in Names(x)
          \/ \E q \in Relations : x \in Ends[q] /\ c \in Names(q)

LEMMA UnchangedSpreads ==
    ASSUME NEW A, UNCHANGED <<graph, track>>, text' \cup cvec' \subseteq text \cup cvec \cup A
    PROVE  Spreads(A)
BY DEF Spreads, Names

LEMMA SpreadsMore ==
    ASSUME NEW A, NEW B, A \subseteq B, Spreads(A)
    PROVE  Spreads(B)
BY DEF Spreads

LEMMA MergeNodeSpreads ==
    ASSUME IInv, NEW e \in Entities, NEW depth \in 0..4, MergeNode(e, depth)
    PROVE  Spreads(job.chunks)
<1>1. text' = text /\ cvec' = cvec
  BY DEF MergeNode, chunk
<1> DEFINE all == Sources(e) \cup New(e)
<1>2. /\ track' = IF depth >= 1 THEN [track EXCEPT ![e] = all] ELSE track
      /\ graph' = IF depth >= 3 THEN [graph EXCEPT ![e] = all] ELSE graph
  BY DEF MergeNode
<1>3. all \subseteq Names(e) \cup job.chunks
  BY DEF Sources, Names, New
<1> HIDE DEF all
<1>4. ASSUME NEW x \in Elements, NEW c \in Names(x)' \ job.chunks PROVE c \in Names(x)
  <2>1. c \in graph'[x] \cup track'[x]
    BY <1>4 DEF Names
  <2>2. CASE x = e
    <3>1. c \in all \cup graph[x] \cup track[x]
      BY <1>2, <2>1, <2>2 DEF IInv, TypeOK
    <3> QED BY <1>3, <1>4, <2>2, <3>1 DEF Names
  <2>3. CASE x # e
    BY <1>2, <2>1, <2>3 DEF Names, IInv, TypeOK
  <2> QED BY <2>2, <2>3
<1> QED BY <1>1, <1>4 DEF Spreads

LEMMA MergeEdgeSpreads ==
    ASSUME IInv, NEW q \in Relations, NEW depth \in 0..4, MergeEdge(q, depth)
    PROVE  Spreads(job.chunks)
<1>1. text' = text /\ cvec' = cvec
  BY DEF MergeEdge, chunk
<1> DEFINE all == Sources(q) \cup New(q)
           made == {e \in Ends[q] : ~ Present(e)}
           grown == [y \in Elements |->
                        IF y \in made THEN all
                        ELSE IF y \in Ends[q] THEN Sources(y) \cup all ELSE {}]
           Over(f, S) == [y \in Elements |-> IF y \in S THEN grown[y] ELSE f[y]]
<1>2. /\ track' = IF depth = 0 THEN track
                  ELSE [Over(track, IF depth >= 2 THEN Ends[q] ELSE {}) EXCEPT ![q] = all]
      /\ graph' = IF depth >= 3 THEN [Over(graph, Ends[q]) EXCEPT ![q] = all]
                  ELSE IF depth = 2 THEN Over(graph, Ends[q]) ELSE graph
  BY DEF MergeEdge
<1>3. q \in Elements /\ q \notin Ends[q]
  BY DeletionAssumption DEF Elements
<1>4. all \subseteq Names(q) \cup job.chunks
  BY DEF Sources, Names, New
<1>5. \A x \in Ends[q] \cap Elements : grown[x] \subseteq Names(x) \cup all
  BY DEF Sources, Names
<1> HIDE DEF all, grown
<1>6. ASSUME NEW x \in Elements, NEW c \in Names(x)' \ job.chunks
      PROVE  c \in Names(x) \/ (x \in Ends[q] /\ c \in Names(q))
  <2>1. c \in graph'[x] \cup track'[x]
    BY <1>6 DEF Names
  <2>2. \/ c \in graph[x] \cup track[x]
        \/ x = q /\ c \in all
        \/ x \in Ends[q] /\ c \in grown[x]
    BY <1>2, <1>3, <2>1 DEF IInv, TypeOK
  <2> QED BY <1>4, <1>5, <1>6, <2>2 DEF Names
<1> QED BY <1>1, <1>6 DEF Spreads

LEMMA RemovalSpreads ==
    ASSUME IInv, TakeOut \/ \E x \in Elements : Rebuild(x) \/ RebuildFails(x)
    PROVE  Spreads({}) /\ \A x \in Elements : Names(x)' \subseteq Names(x)
<1>1. CASE TakeOut
  <2>1. text' \subseteq text /\ cvec' \subseteq cvec
    BY <1>1 DEF TakeOut
  <2>2. ASSUME NEW x \in Elements PROVE graph'[x] \subseteq graph[x] /\ track'[x] \subseteq Names(x)
    <3>1. graph'[x] \subseteq graph[x]
      BY <1>1 DEF TakeOut, Emptied, IInv, TypeOK
    <3>2. track'[x] \subseteq track[x] \cup Sources(x)
      BY <1>1 DEF TakeOut, Emptied, IInv, TypeOK
    <3> QED BY <3>1, <3>2 DEF Names, Sources
  <2> QED BY <2>1, <2>2 DEF Spreads, Names
<1>2. ASSUME NEW x \in Elements, Rebuild(x) \/ RebuildFails(x)
      PROVE  Spreads({}) /\ \A y \in Elements : Names(y)' \subseteq Names(y)
  <2>1. text' = text /\ cvec' = cvec /\ track' = track
    BY <1>2 DEF Rebuild, RebuildFails, chunk
  <2>2. graph' = graph \/ graph' = [graph EXCEPT ![x] = track[x]]
    BY <1>2 DEF Rebuild, RebuildFails
  <2>3. \A y \in Elements : graph'[y] \subseteq graph[y] \cup track[y]
    BY <2>2 DEF IInv, TypeOK
  <2> QED BY <2>1, <2>3 DEF Spreads, Names
<1> QED BY <1>1, <1>2

\* A job leaves what is gone of other documents gone.
LEMMA OthersGone ==
    ASSUME IInv, SInv, Gone, job # Idle, NEW e, e = Doc, Spreads(Own(e)),
           whole' \subseteq whole \cup {e},
           \A d \in Docs \ {e} : /\ row'[d] = row[d] /\ listed'[d] = listed[d]
                                   /\ missed'[d] = missed[d],
           row'[e] = "none" \/ e \in whole' => Cleared(e, Own(e) \ listed[e])'
    PROVE  Gone'
<1>1. e \in Docs
  BY StageFacts
<1>2. ASSUME NEW d \in Docs, d # e, row'[d] = "none" \/ d \in whole'
      PROVE  Cleared(d, Own(d) \ listed[d])'
  <2>0. PICK K : K = Own(d) \ listed[d]
    OBVIOUS
  <2>1. row[d] = "none" \/ d \in whole
    BY <1>2
  <2>2. Cleared(d, K)
    BY <2>0, <2>1 DEF Gone
  <2>3. K \cap Own(e) = {}
    BY <1>1, <1>2, <2>0, DeletionAssumption
  <2>4. K = Own(d) \ listed'[d] /\ missed'[d] = missed[d]
    BY <1>2, <2>0
  <2>5. K \cap (text' \cup cvec') \subseteq text \cup cvec
    BY <2>3 DEF Spreads
  <2>6. \A x \in Elements : \A c \in K \cap Names(x)' :
            \/ c \in Names(x)
            \/ \E q \in Relations : x \in Ends[q] /\ c \in Names(q)
    BY <2>3 DEF Spreads
  <2>7. Cleared(d, K)'
    BY <2>2, <2>4, <2>5, <2>6, ClearedStays
  <2> QED BY <2>4, <2>7 DEF Cleared
<1>3. CASE row'[e] = "none" \/ e \in whole'
  BY <1>1, <1>2, <1>3 DEF Gone
<1>4. CASE ~ (row'[e] = "none" \/ e \in whole')
  BY <1>1, <1>2, <1>4 DEF Gone
<1> QED BY <1>3, <1>4

\* The document a job works on has a row and is not whole.
LEMMA GoneBeside ==
    ASSUME IInv, SInv, Gone, job # Idle, row[Doc] # "none", Spreads(Own(Doc)),
           UNCHANGED <<row, whole>>,
           \A d \in Docs \ {Doc} : listed'[d] = listed[d] /\ missed'[d] = missed[d]
    PROVE  Gone'
<1>1. Doc \notin whole
  BY DEF SInv, WholeOK
<1>2. PICK e : e = Doc
  OBVIOUS
<1> QED BY <1>1, <1>2, OthersGone

\* What a job can miss.
MissedOK == missed \in [Docs -> SUBSET (Chunks \cup Elements)]

LEMMA MissedInit == Init => MissedOK
BY DEF Init, MissedOK

LEMMA WithElements == \A S : S \subseteq Elements => With(S) \subseteq Elements
BY DeletionAssumption DEF With, Elements

LEMMA MissedStep == ASSUME IInv, MissedOK, [Next]_vars PROVE MissedOK'
<1>1. ASSUME NEW d \in Docs PROVE Unseen(d) \subseteq Chunks \cup Elements
  <2>1. Own(d) \subseteq Chunks
    BY DeletionAssumption DEF Own
  <2> QED BY <2>1, WithElements DEF Unseen
<1>2. missed' = missed => MissedOK'
  BY DEF MissedOK
<1>3. ASSUME NEW d \in Docs, Enqueue(d) \/ Process(d) \/ Delete(d) PROVE MissedOK'
  BY <1>1, <1>3 DEF Enqueue, Process, Delete, MissedOK
<1>4. CASE InsertStep
  BY <1>2, <1>4
  DEF InsertStep, Store, Extract, NodesDone, EdgesDone, Record, Finish, MergeNode, MergeEdge, ghost
<1>5. CASE Rebuilt
  <2>1. job.keep \subseteq Elements /\ Doc \in Docs
    BY <1>5, StageFacts DEF Rebuilt, At, Cleaning, IInv, JobOK, Job
  <2>2. With({x \in job.keep : graph[x] \cap Mine # {}}) \subseteq Elements
    BY <2>1, WithElements
  <2> QED BY <1>5, <2>1, <2>2 DEF Rebuilt, MissedOK
<1>6. CASE TakeOutStep /\ ~ Rebuilt
  BY <1>2, <1>6
  DEF TakeOutStep, Collect, Analyze, TakeOut, Flush, Rebuild, RebuildFails, ForgetAnswers,
      DropIndex, DropRow, DropText, ghost
<1>7. CASE Failure
  <2>1. missed' = missed \/ missed' = [missed EXCEPT ![Doc] = {}]
    BY <1>7
    DEF Failure, Fails, OldFullFails, StoreFails, ExtractFails, MergeFails, CacheFails, Stopped
  <2> QED BY <2>1 DEF MissedOK
<1>8. CASE UNCHANGED vars
  BY <1>2, <1>8 DEF vars, ghost
<1> QED BY <1>3, <1>4, <1>5, <1>6, <1>7, <1>8 DEF Next

\* A job begins by taking note of what it cannot see.
LEMMA BeginTInv ==
    ASSUME IInv, SInv, MissedOK, TInv, NEW d \in Docs, Enqueue(d) \/ Process(d) \/ Delete(d)
    PROVE  TInv'
<1>1. /\ job = Idle /\ UNCHANGED <<text, cvec, graph, track, index, listed>>
      /\ \A e \in Docs \ {d} : row'[e] = row[e] /\ missed'[e] = missed[e]
      /\ whole' \subseteq whole
  BY DEF Enqueue, Process, Delete, rows, chunk, shared, IInv, TypeOK, MissedOK
<1>2. \A e, K : missed'[e] = missed[e] /\ Cleared(e, K) => Cleared(e, K)'
  BY <1>1 DEF Cleared, Excused, Names
<1>3. \A e \in Docs \ {d} : row'[e] = "none" \/ e \in whole' => Cleared(e, Own(e) \ listed[e])'
  <2> TAKE e \in Docs \ {d}
  <2> HAVE row'[e] = "none" \/ e \in whole'
  <2>1. PICK K : K = Own(e) \ listed[e]
    OBVIOUS
  <2>2. Cleared(e, K)
    BY <1>1, <2>1 DEF TInv, Gone
  <2>3. Cleared(e, K)' /\ K = Own(e) \ listed'[e]
    BY <1>1, <1>2, <2>1, <2>2
  <2> QED BY <2>3
<1>4. \A e \in Docs : listed'[e] = {} => index'[e] = {}
  BY <1>1 DEF TInv, IndexOK
<1>5. row'[d] # "none" /\ d \notin whole'
  BY DEF Enqueue, Process, Delete, rows, IInv, TypeOK, SInv, WholeOK
<1>6. Gone'
  BY <1>3, <1>5 DEF Gone
<1>7. CASE Enqueue(d)
  <2>1. job'.stage = "idle"
    BY <1>1, <1>7 DEF Enqueue, Idle
  <2> QED BY <1>4, <1>6, <2>1 DEF TInv, IndexOK, Withdrawing, Removing, Inserting
<1>8. CASE Process(d) \/ Delete(d)
  <2>1. /\ job'.doc = d /\ missed' = [missed EXCEPT ![d] = Unseen(d)]
        /\ IF listed[d] # {} THEN job'.stage \in {"analyze", "collect"}
                             ELSE job'.stage \in {"store", "oldCache"}
    BY <1>8 DEF Process, Delete, Idle
  <2>2. Unseen(d)' = Unseen(d)
    BY <1>1 DEF Unseen, Names, Present
  <2>3. CASE listed[d] # {}
    <3>1. job'.stage \in {"analyze", "collect"}
      BY <2>1, <2>3
    <3>2. Unseen(d)' \subseteq missed'[d]
      BY <2>1, <2>2 DEF MissedOK
    <3>3. Withdrawing'
      BY <2>1, <3>1, <3>2 DEF Withdrawing, Doc, Removing, Inserting
    <3>4. IndexOK'
      BY <1>4, <3>1 DEF IndexOK
    <3> QED BY <1>6, <3>3, <3>4 DEF TInv
  <2>4. CASE listed[d] = {}
    <3>1. job'.stage \in {"store", "oldCache"}
      BY <2>1, <2>4
    <3>2. missed'[d] = Unseen(d)
      BY <2>1 DEF MissedOK
    <3>3. Cleared(d, Own(d))'
      BY <1>1, <2>4, <3>2, UnseenFacts DEF Cleared, Excused, Names
    <3>4. Withdrawing'
      BY <2>1, <3>1, <3>3 DEF Withdrawing, Doc, Removing, Inserting
    <3>5. IndexOK'
      BY <1>1, <1>4, <2>1, <2>4 DEF IndexOK, Doc
    <3> QED BY <1>6, <3>4, <3>5 DEF TInv
  <2> QED BY <2>3, <2>4
<1> QED BY <1>7, <1>8

\* New chunks are listed; what is not on the new list has been cleared.
LEMMA StoreTInv == ASSUME IInv, SInv, TInv, Store PROVE TInv'
<1>1. /\ Doc \in Docs /\ job # Idle /\ row[Doc] # "none" /\ job.stage = "store"
  BY StageFacts DEF Store, At, Inserting, Idle
<1>2. PICK d \in Docs : d = Doc
  BY <1>1
<1>3. PICK new \in Chunkings[d] : /\ listed' = [listed EXCEPT ![d] = new]
                                  /\ text' = text \cup new /\ cvec' = cvec \cup new
                                  /\ job' = [job EXCEPT !.stage = "extract", !.chunks = new]
  BY <1>2 DEF Store
<1>4. UNCHANGED <<row, graph, track, index, whole, missed>>
  BY DEF Store, shared, ghost
<1>5. new \subseteq Own(d) /\ new # {}
  BY DeletionAssumption DEF Own
<1>6. job'.doc = d /\ job'.stage = "extract" /\ job'.chunks = new
  BY <1>2, <1>3 DEF IInv, JobOK, Job, Doc
<1>7. listed'[d] = new /\ \A e \in Docs \ {d} : listed'[e] = listed[e]
  BY <1>3 DEF IInv, TypeOK
<1>8. Spreads(Own(Doc))
  BY <1>2, <1>3, <1>4, <1>5, UnchangedSpreads
<1>9. Gone'
  BY <1>1, <1>2, <1>4, <1>7, <1>8, GoneBeside DEF TInv
<1>10. IndexOK'
  BY <1>4, <1>5, <1>6, <1>7 DEF TInv, IndexOK
<1>11. Cleared(d, Own(d) \ listed[d])'
  <2>1. PICK K : K = Own(d) \ new
    OBVIOUS
  <2>2. Cleared(d, K)
    BY <1>1, <1>2, <2>1 DEF TInv, Withdrawing, Cleared
  <2>3. Cleared(d, K)'
    BY <1>3, <1>4, <2>1, <2>2 DEF Cleared, Excused, Names
  <2> QED BY <1>7, <2>1, <2>3
<1>12. Withdrawing'
  BY <1>5, <1>6, <1>7, <1>11 DEF Withdrawing, Doc, Removing, Inserting
<1> QED BY <1>9, <1>10, <1>12 DEF TInv

\* The other steps of an insertion name only the chunks on the list.
LEMMA InsertTInv ==
    ASSUME IInv, SInv, TInv, job.stage \in Inserting \ {"store"}, Spreads(job.chunks),
           UNCHANGED <<row, listed, whole, missed>>,
           \A d \in Docs \ {Doc} : index'[d] = index[d],
           job'.doc = Doc, job'.chunks = job.chunks, job'.stage \in Inserting \ {"store"}
    PROVE  TInv'
<1>1. Doc \in Docs /\ job # Idle /\ row[Doc] # "none"
  BY StageFacts DEF Inserting, Idle
<1>2. PICK d \in Docs : d = Doc
  BY <1>1
<1>3. /\ job.chunks = listed[d] /\ listed[d] # {}
      /\ Cleared(d, Own(d) \ listed[d])
  BY <1>2 DEF TInv, Withdrawing
<1>4. listed[d] \subseteq Own(d)
  BY DEF IInv, TypeOK, Own
<1>5. Spreads(Own(Doc))
  BY <1>2, <1>3, <1>4, SpreadsMore
<1>6. Gone'
  BY <1>1, <1>5, GoneBeside DEF TInv
<1>7. IndexOK'
  BY <1>2, <1>3 DEF TInv, IndexOK, Inserting
<1>8. Cleared(d, Own(d) \ listed[d])'
  <2>1. PICK K : K = Own(d) \ listed[d]
    OBVIOUS
  <2>2. Cleared(d, K)
    BY <1>3, <2>1
  <2>3. K \cap (text' \cup cvec') \subseteq text \cup cvec
    BY <1>3, <2>1 DEF Spreads
  <2>4. \A x \in Elements : \A c \in K \cap Names(x)' :
            \/ c \in Names(x)
            \/ \E q \in Relations : x \in Ends[q] /\ c \in Names(q)
    BY <1>3, <2>1 DEF Spreads
  <2>5. Cleared(d, K)'
    BY <2>2, <2>3, <2>4, ClearedStays
  <2> QED BY <2>1, <2>5
<1>9. Withdrawing'
  BY <1>2, <1>3, <1>8 DEF Withdrawing, Doc, Removing, Inserting
<1> QED BY <1>6, <1>7, <1>9 DEF TInv

LEMMA InsertStepTInv ==
    ASSUME IInv, SInv, TInv,
           \/ Extract \/ NodesDone \/ EdgesDone \/ Record
           \/ \E depth \in 0..4 : \/ \E e \in Entities : MergeNode(e, depth)
                                  \/ \E q \in Relations : MergeEdge(q, depth)
    PROVE  TInv'
<1>1. CASE Extract \/ NodesDone \/ EdgesDone \/ Record
  <2>1. /\ job.stage \in Inserting \ {"store"}
        /\ UNCHANGED <<row, listed, text, cvec, graph, track, whole, missed>>
    BY <1>1 DEF Extract, NodesDone, EdgesDone, Record, At, Inserting, rows, chunk, shared, ghost
  <2>2. job'.doc = Doc /\ job'.chunks = job.chunks /\ job'.stage \in Inserting \ {"store"}
    BY <1>1 DEF Extract, NodesDone, EdgesDone, Record, Goto, Inserting, IInv, JobOK, Job, Doc
  <2>3. \A d \in Docs \ {Doc} : index'[d] = index[d]
    BY <1>1 DEF Extract, NodesDone, EdgesDone, Record, shared, IInv, TypeOK
  <2>4. Spreads(job.chunks)
    BY <2>1, UnchangedSpreads
  <2> QED BY <2>1, <2>2, <2>3, <2>4, InsertTInv
<1>2. ASSUME NEW depth \in 0..4, NEW e \in Entities, MergeNode(e, depth) PROVE TInv'
  <2>1. /\ job.stage \in Inserting \ {"store"} /\ index' = index
        /\ UNCHANGED <<row, listed, whole, missed>>
    BY <1>2 DEF MergeNode, At, Inserting, rows
  <2>2. job'.doc = Doc /\ job'.chunks = job.chunks /\ job'.stage = job.stage
    BY <1>2 DEF MergeNode, IInv, JobOK, Job, Doc
  <2> QED BY <1>2, <2>1, <2>2, MergeNodeSpreads, InsertTInv
<1>3. ASSUME NEW depth \in 0..4, NEW q \in Relations, MergeEdge(q, depth) PROVE TInv'
  <2>1. /\ job.stage \in Inserting \ {"store"} /\ index' = index
        /\ UNCHANGED <<row, listed, whole, missed>>
    BY <1>3 DEF MergeEdge, At, Inserting, rows
  <2>2. job'.doc = Doc /\ job'.chunks = job.chunks /\ job'.stage = job.stage
    BY <1>3 DEF MergeEdge, IInv, JobOK, Job, Doc
  <2> QED BY <1>3, <2>1, <2>2, MergeEdgeSpreads, InsertTInv
<1> QED BY <1>1, <1>2, <1>3

\* A processed document has nothing of another list.
LEMMA FinishTInv == ASSUME IInv, SInv, TInv, Finish PROVE TInv'
<1>1. /\ Doc \in Docs /\ job # Idle /\ job.stage = "finish" /\ job' = Idle
      /\ UNCHANGED <<listed, text, cvec, graph, track, index, missed>>
  BY StageFacts DEF Finish, At, Inserting, Idle, chunk, shared
<1>2. PICK d \in Docs : d = Doc
  BY <1>1
<1>3. PICK K : K = Own(d) \ listed[d]
  OBVIOUS
<1>4. Cleared(d, K)
  BY <1>1, <1>2, <1>3 DEF TInv, Withdrawing, Inserting
<1>5. Cleared(d, Own(d) \ listed[d])'
  BY <1>1, <1>3, <1>4 DEF Cleared, Excused, Names
<1>6. Spreads(Own(d))
  BY <1>1, UnchangedSpreads
<1>7. whole' = whole \cup {d} /\ \A e \in Docs \ {d} : row'[e] = row[e]
  BY <1>2 DEF Finish, IInv, TypeOK
<1>8. Gone'
  BY <1>1, <1>2, <1>5, <1>6, <1>7, OthersGone DEF TInv
<1>9. IndexOK' /\ Withdrawing'
  BY <1>1 DEF TInv, IndexOK, Withdrawing, Idle, Removing, Inserting
<1> QED BY <1>8, <1>9 DEF TInv

\* Only a merge breaks off: a deletion is never broken.
Unbroken == Deleting => ~ job.broken

LEMMA UnbrokenStep == ASSUME IInv, Unbroken, [Next]_vars PROVE Unbroken'
<1>1. ASSUME NEW d \in Docs, Enqueue(d) \/ Process(d) \/ Delete(d) PROVE Unbroken'
  BY <1>1 DEF Enqueue, Process, Delete, Unbroken, Idle, Deleting
<1>2. CASE InsertStep
  <2>1. job.stage \in Inserting
    BY <1>2
    DEF InsertStep, Store, Extract, NodesDone, EdgesDone, Record, Finish, MergeNode, MergeEdge,
        At, Inserting
  <2>2. job.kind = "insert" /\ job \in Job
    BY <2>1, StageFacts DEF IInv, JobOK
  <2>3. CASE Store \/ Finish \/ Extract \/ NodesDone \/ EdgesDone \/ Record
    <3>1. job' = Idle \/ job'.kind = job.kind
      BY <2>2, <2>3 DEF Store, Extract, NodesDone, EdgesDone, Record, Finish, Goto, Job
    <3> QED BY <2>2, <3>1 DEF Idle, Unbroken, Deleting
  <2>4. ASSUME NEW depth \in 0..4, NEW e \in Entities, MergeNode(e, depth) PROVE Unbroken'
    BY <2>2, <2>4 DEF MergeNode, Job, Unbroken, Deleting
  <2>5. ASSUME NEW depth \in 0..4, NEW q \in Relations, MergeEdge(q, depth) PROVE Unbroken'
    BY <2>2, <2>5 DEF MergeEdge, Job, Unbroken, Deleting
  <2> QED BY <1>2, <2>3, <2>4, <2>5 DEF InsertStep
<1>3. CASE TakeOutStep
  <2>1. job \in Job
    BY DEF IInv, JobOK
  <2>2. CASE DropText
    BY <2>2 DEF DropText, Idle, Unbroken, Deleting
  <2>3. CASE Collect \/ Analyze \/ TakeOut \/ Flush \/ Rebuilt \/ DropIndex \/ DropRow
    BY <2>1, <2>3 DEF Collect, Analyze, TakeOut, Flush, Rebuilt, DropIndex, DropRow, Goto, Job,
       Unbroken, Deleting
  <2>4. ASSUME NEW x \in Elements, Rebuild(x) \/ RebuildFails(x) PROVE Unbroken'
    BY <2>1, <2>4 DEF Rebuild, RebuildFails, Job, Unbroken, Deleting
  <2>5. ASSUME NEW wipe \in BOOLEAN, ForgetAnswers(wipe) PROVE Unbroken'
    BY <2>1, <2>5 DEF ForgetAnswers, Job, Unbroken, Deleting
  <2> QED BY <1>3, <2>2, <2>3, <2>4, <2>5 DEF TakeOutStep
<1>4. CASE Failure
  BY <1>4
  DEF Failure, Fails, OldFullFails, StoreFails, ExtractFails, MergeFails, CacheFails, Stopped,
      Idle, Unbroken, Deleting
<1>5. CASE UNCHANGED vars
  BY <1>5 DEF vars, Unbroken, Deleting
<1> QED BY <1>1, <1>2, <1>3, <1>4, <1>5 DEF Next

\* A job that ends leaves the stores as it found them, or a row.
LEMMA EndTInv ==
    ASSUME IInv, SInv, TInv, job # Idle, job' = Idle, Spreads(Own(Doc)), whole' = whole,
           \A d \in Docs \ {Doc} : /\ row'[d] = row[d] /\ listed'[d] = listed[d]
                                   /\ missed'[d] = missed[d],
           row'[Doc] = "none" => /\ row[Doc] = "none"
                                 /\ UNCHANGED <<listed, text, cvec, graph, track, missed>>,
           index' = index, listed'[Doc] = {} => listed[Doc] = {} \/ index[Doc] = {}
    PROVE  TInv'
<1>1. PICK d \in Docs : d = Doc
  BY StageFacts
<1>2. d \notin whole
  BY <1>1 DEF SInv, WholeOK
<1>3. row'[d] = "none" => Cleared(d, Own(d) \ listed[d])'
  <2> HAVE row'[d] = "none"
  <2>1. PICK K : K = Own(d) \ listed[d]
    OBVIOUS
  <2>2. Cleared(d, K)
    BY <1>1, <2>1 DEF TInv, Gone
  <2>3. Cleared(d, K)' /\ K = Own(d) \ listed'[d]
    BY <1>1, <2>1, <2>2 DEF Cleared, Excused, Names
  <2> QED BY <2>3
<1>4. Gone'
  BY <1>1, <1>2, <1>3, OthersGone DEF TInv
<1>5. \A e \in Docs : listed'[e] = {} => index'[e] = {}
  BY <1>1 DEF TInv, IndexOK
<1> QED BY <1>4, <1>5 DEF TInv, IndexOK, Withdrawing, Idle, Removing, Inserting

\* Whatever fails leaves what is gone gone.
LEMMA FailureTInv == ASSUME IInv, SInv, Unbroken, TInv, Failure PROVE TInv'
<1>1. PICK d : d = Doc
  OBVIOUS
<1>2. ASSUME job # Idle, Stopped
      PROVE  /\ \A e \in Docs \ {d} : missed'[e] = missed[e]
             /\ row[d] = "none" => missed' = missed
  BY <1>1, <1>2 DEF Stopped
<1>3. CASE Fails \/ ExtractFails \/ CacheFails
  <2>1. /\ job # Idle /\ Stopped /\ job' = Idle
        /\ UNCHANGED <<row, listed, text, cvec, graph, track, index, whole>>
    BY <1>3 DEF Fails, ExtractFails, CacheFails, Stopped, At, Idle, chunk, shared, rows
  <2>2. Spreads(Own(Doc))
    BY <2>1, UnchangedSpreads
  <2> QED BY <1>1, <1>2, <2>1, <2>2, EndTInv DEF TInv, IndexOK
<1>4. CASE OldFullFails
  <2>1. /\ job # Idle /\ Stopped /\ job' = Idle
        /\ UNCHANGED <<listed, text, cvec, graph, track, index, whole>>
        /\ row' = row \/ row' = [row EXCEPT ![Doc] = "waiting"]
    BY <1>4 DEF OldFullFails, Stopped, At, Idle, chunk, shared
  <2>2. Spreads(Own(Doc))
    BY <2>1, UnchangedSpreads
  <2>3. /\ \A e \in Docs \ {Doc} : row'[e] = row[e]
        /\ row'[Doc] = "none" => row[Doc] = "none"
    BY <2>1 DEF IInv, TypeOK
  <2> QED BY <1>1, <1>2, <2>1, <2>2, <2>3, EndTInv DEF TInv, IndexOK
<1>5. CASE StoreFails
  <2>1. /\ job # Idle /\ Stopped /\ job' = Idle /\ Doc \in Docs
        /\ row[Doc] # "none" /\ index[Doc] = {}
        /\ UNCHANGED <<row, graph, track, index, whole>>
    BY <1>5, StageFacts
    DEF StoreFails, Stopped, At, Idle, Inserting, shared, TInv, IndexOK
  <2>2. PICK new \in Chunkings[Doc] \cup {{}} :
           /\ listed' \in {listed, [listed EXCEPT ![Doc] = new]}
           /\ text' \subseteq text \cup new /\ cvec' \subseteq cvec \cup new
    BY <1>5 DEF StoreFails
  <2>3. new \subseteq Own(Doc)
    BY DEF Own
  <2>4. Spreads(Own(Doc))
    BY <2>1, <2>2, <2>3, UnchangedSpreads
  <2>5. \A e \in Docs \ {Doc} : listed'[e] = listed[e]
    BY <2>2 DEF IInv, TypeOK
  <2> QED BY <1>1, <1>2, <2>1, <2>4, <2>5, EndTInv
<1>6. CASE MergeFails
  <2>1. /\ job # Idle /\ job' = Idle /\ Doc \in Docs /\ row[Doc] # "none"
        /\ UNCHANGED <<row, listed, text, cvec, graph, track, index, whole>>
    BY <1>6, StageFacts
    DEF MergeFails, Idle, rows, chunk, shared, Unbroken, SInv, Progress, Inserting, IInv, JobOK,
        Deleting
  <2>2. Spreads(Own(Doc))
    BY <2>1, UnchangedSpreads
  <2>3. \A e \in Docs \ {Doc} : missed'[e] = missed[e]
    BY <1>6 DEF MergeFails
  <2> QED BY <2>1, <2>2, <2>3, EndTInv DEF TInv, IndexOK
<1> QED BY <1>3, <1>4, <1>5, <1>6 DEF Failure

\* The last step of a deletion only removes the text.
LEMMA DropTextTInv == ASSUME IInv, SInv, TInv, DropText PROVE TInv'
<1>1. /\ job # Idle /\ job' = Idle
      /\ UNCHANGED <<row, listed, text, cvec, graph, track, index, whole, missed>>
  BY DEF DropText, Idle, chunk, shared, ghost
<1>2. Spreads(Own(Doc))
  BY <1>1, UnchangedSpreads
<1> QED BY <1>1, <1>2, EndTInv DEF TInv, IndexOK

LEMMA CollectTInv == ASSUME IInv, SInv, TInv, Collect PROVE TInv'
<1>1. /\ job # Idle /\ row[Doc] # "none" /\ job.stage = "collect"
      /\ UNCHANGED <<row, listed, text, cvec, graph, track, index, whole, missed>>
  BY StageFacts DEF Collect, At, Closing, Idle, chunk, shared, ghost
<1>2. job'.doc = Doc /\ job'.stage = "analyze"
  BY DEF Collect, IInv, JobOK, Job, Doc
<1>3. Spreads(Own(Doc))
  BY <1>1, UnchangedSpreads
<1>4. Gone'
  BY <1>1, <1>3, GoneBeside DEF TInv
<1>5. IndexOK'
  BY <1>1, <1>2 DEF TInv, IndexOK
<1>6. PICK d : d = Doc
  OBVIOUS
<1>7. Unseen(d)' = Unseen(d)
  BY <1>1 DEF Unseen, Names, Present
<1>8. Unseen(d)' \subseteq missed'[d]
  BY <1>1, <1>6, <1>7 DEF TInv, Withdrawing
<1>9. Withdrawing'
  BY <1>2, <1>6, <1>8 DEF Withdrawing, Doc, Removing, Inserting
<1> QED BY <1>4, <1>5, <1>9 DEF TInv

\* The analysis finds whatever is not excused.
LEMMA AnalyzeTInv == ASSUME IInv, SInv, TInv, Analyze PROVE TInv'
<1>1. /\ job # Idle /\ row[Doc] # "none" /\ job.stage = "analyze"
      /\ UNCHANGED <<row, listed, text, cvec, graph, track, index, whole, missed>>
  BY StageFacts DEF Analyze, At, Cleaning, Idle, rows, chunk, shared, ghost
<1>2. PICK d : d = Doc
  OBVIOUS
<1> DEFINE seen == {x \in index[d] : Present(x)}
           gone == {x \in seen : Sources(x) \subseteq listed[d]}
<1>3. /\ job'.doc = d /\ job'.stage = "track" /\ job'.drop = gone
      /\ job'.keep = {x \in seen \ gone : Names(x) \cap listed[d] # {}}
  BY <1>2 DEF Analyze, IInv, JobOK, Job, Doc, Mine
<1>4. \A x \in index[d] : Present(x) /\ Names(x) \cap listed[d] # {} => x \in job'.drop \cup job'.keep
  BY <1>3
<1> HIDE DEF seen, gone
<1>5. Spreads(Own(Doc))
  BY <1>1, UnchangedSpreads
<1>6. Gone'
  BY <1>1, <1>5, GoneBeside DEF TInv
<1>7. IndexOK'
  BY <1>1, <1>3 DEF TInv, IndexOK
<1>8. Unseen(d) \subseteq missed[d]
  BY <1>1, <1>2 DEF TInv, Withdrawing
<1>9. ChunksGo'
  BY <1>1, <1>3, <1>8, UnseenFacts DEF ChunksGo, Doc, Mine
<1>10. ASSUME NEW x \in Elements PROVE Excused(x, d)' \/ Withdrawn(x)'
  <2>1. Names(x)' = Names(x)
    BY <1>1 DEF Names
  <2>2. CASE x \in Unseen(d) /\ (x \in Relations => Ends[x] \subseteq Unseen(d))
    BY <1>1, <1>8, <2>2 DEF Excused
  <2>3. CASE Names(x) \cap Own(d) = {}
    BY <1>1, <1>3, <2>1, <2>3
    DEF Withdrawn, Doc, Mine, RelGraphDone, RelTrackDone, NodeGraphDone, Last
  <2>4. CASE x \in index[d] /\ Present(x) /\ Names(x) \cap Own(d) \subseteq listed[d]
    <3>1. x \notin job'.drop \cup job'.keep => Names(x) \cap Own(d) = {}
      BY <1>4, <2>4
    <3> QED BY <1>1, <1>3, <2>1, <2>4, <3>1
            DEF Withdrawn, Doc, Mine, RelGraphDone, RelTrackDone, NodeGraphDone, Last
  <2> QED BY <2>2, <2>3, <2>4, UnseenFacts
<1>11. Withdrawing'
  BY <1>2, <1>3, <1>9, <1>10 DEF Withdrawing, Doc, Removing, Inserting
<1> QED BY <1>6, <1>7, <1>11 DEF TInv

\* A step of the removal keeps the invariant when it keeps its own part.
LEMMA RemovingTInv ==
    ASSUME IInv, SInv, TInv, job.stage \in Removing, job'.stage \in Removing, job'.doc = Doc,
           Spreads({}), UNCHANGED <<row, listed, index, whole, missed>>, ChunksGo',
           \A x \in Elements : Withdrawn(x) => Withdrawn(x)'
    PROVE  TInv'
<1>1. job # Idle /\ row[Doc] # "none"
  BY StageFacts DEF Removing, Cleaning, Idle
<1>2. Spreads(Own(Doc))
  BY SpreadsMore
<1>3. Gone'
  BY <1>1, <1>2, GoneBeside DEF TInv
<1>4. IndexOK'
  BY DEF TInv, IndexOK, Removing
<1>5. PICK d : d = Doc
  OBVIOUS
<1>6. \A x \in Elements : Excused(x, d)' \/ Withdrawn(x)'
  BY <1>5 DEF TInv, Withdrawing, Excused
<1>7. Withdrawing'
  BY <1>5, <1>6 DEF Withdrawing, Doc, Removing, Inserting
<1> QED BY <1>3, <1>4, <1>7 DEF TInv

\* Every stage of the removal takes its part.
LEMMA TakeOutTInv == ASSUME IInv, SInv, TInv, TakeOut PROVE TInv'
<1>1. /\ job.stage \in DOMAIN Following /\ job' = [job EXCEPT !.stage = Following[job.stage]]
      /\ UNCHANGED <<row, listed, index, whole, missed>>
  BY DEF TakeOut, Goto, rows, ghost
<1>2. PICK d : d = Doc
  OBVIOUS
<1> DEFINE s == job.stage
           t == job'.stage
<1>3. /\ job'.doc = d /\ job'.drop = job.drop /\ job'.keep = job.keep
      /\ t = Following[s]
  BY <1>1, <1>2 DEF IInv, JobOK, Job, Doc
<1>4. /\ s \in Removing \ Last /\ t \in Removing \ {"track"}
      /\ t \notin {"track", "cvec"} => s \notin {"track"}
      /\ t \notin {"track", "cvec", "text"} => s \notin {"track", "cvec"}
      /\ DropRels # {} =>
            /\ t \in RelGraphDone => s \in RelGraphDone \cup {"relGraph"}
            /\ t \in RelTrackDone => s \in RelTrackDone \cup {"relTrack"}
      /\ DropEnts # {} =>
            /\ t \in NodeGraphDone => s \in NodeGraphDone \cup {"nodeGraph"}
            /\ t \in Last => s = "nodeTrack"
  BY <1>1, <1>3
  DEF Following, AfterRels, Removing, Last, RelGraphDone, RelTrackDone, NodeGraphDone
<1> HIDE DEF t
<1>5. Spreads({}) /\ \A x \in Elements : Names(x)' \subseteq Names(x)
  BY RemovalSpreads
<1>6. ChunksGo /\ \A x \in Elements : Excused(x, d) \/ Withdrawn(x)
  BY <1>2, <1>4 DEF TInv, Withdrawing
<1>7. ChunksGo'
  <2>1. /\ cvec' = IF s = "cvec" THEN cvec \ listed[d] ELSE cvec
        /\ text' = IF s = "text" THEN text \ listed[d] ELSE text
    BY <1>2 DEF TakeOut, At, Mine
  <2>2. (Own(d) \ listed[d]) \cap (text' \cup cvec') \subseteq missed'[d]
    BY <1>1, <1>2, <1>6, <2>1 DEF ChunksGo, Mine
  <2>3. t \notin {"track", "cvec"} => cvec' \cap listed[d] = {}
    BY <1>2, <1>4, <1>6, <2>1 DEF ChunksGo, Mine
  <2>4. t \notin {"track", "cvec", "text"} => text' \cap listed[d] = {}
    BY <1>2, <1>4, <1>6, <2>1 DEF ChunksGo, Mine
  <2> QED BY <1>1, <1>3, <2>2, <2>3, <2>4 DEF ChunksGo, Mine, Doc, t
<1>8. ASSUME NEW x \in Elements, Withdrawn(x) PROVE Withdrawn(x)'
  <2>1. /\ DropRels' = DropRels /\ DropEnts' = DropEnts
        /\ Mine' = Mine /\ Mine = listed[d]
    BY <1>1, <1>2, <1>3 DEF DropRels, DropEnts, Mine, Doc
  <2>2. /\ graph'[x] \subseteq graph[x]
        /\ s = "relGraph" /\ x \in DropRels => graph'[x] = {}
        /\ s = "nodeGraph" /\ x \in DropEnts => graph'[x] = {}
    BY <1>8 DEF TakeOut, At, Emptied, IInv, TypeOK
  <2>3. /\ s # "track" => track'[x] \subseteq track[x]
        /\ s = "track" /\ x \in job.keep => track'[x] = Sources(x) \ listed[d]
        /\ s = "relTrack" /\ x \in DropRels => track'[x] = {}
        /\ s = "nodeTrack" /\ x \in DropEnts => track'[x] = {}
    BY <1>2, <1>8 DEF TakeOut, At, Mine, Emptied, IInv, TypeOK
  <2>4. Names(x)' \cap Own(d) \subseteq listed[d]
    BY <1>2, <1>5, <1>8 DEF Withdrawn, Mine
  <2>5. x \notin job.drop \cup job.keep => Names(x)' \cap Own(d) = {}
    BY <1>2, <1>5, <1>8 DEF Withdrawn
  <2>6. ASSUME x \in job.keep PROVE track'[x] \cap Own(d) = {}
    <3>1. CASE s = "track"
      <4>1. Sources(x) \cap Own(d) \subseteq listed[d]
        BY <1>2, <1>8 DEF Withdrawn, Mine, Sources, Names
      <4> QED BY <2>3, <2>6, <3>1, <4>1
    <3>2. CASE s # "track"
      BY <1>2, <1>8, <2>3, <2>6, <3>2 DEF Withdrawn
    <3> QED BY <3>1, <3>2
  <2>7. ASSUME x \in DropRels
        PROVE  /\ t \in RelGraphDone => graph'[x] = {}
               /\ t \in RelTrackDone => track'[x] = {}
    <3>1. s \in RelGraphDone => graph[x] = {}
      BY <1>8, <2>7 DEF Withdrawn
    <3>2. s \in RelTrackDone => track[x] = {} /\ s # "track"
      BY <1>8, <2>7 DEF Withdrawn, RelTrackDone, NodeGraphDone, Last
    <3> QED BY <1>4, <2>2, <2>3, <2>7, <3>1, <3>2
  <2>8. ASSUME x \in DropEnts
        PROVE  /\ t \in NodeGraphDone => graph'[x] = {}
               /\ t \in Last => track'[x] = {}
    <3>1. s \in NodeGraphDone => graph[x] = {}
      BY <1>8, <2>8 DEF Withdrawn
    <3> QED BY <1>4, <2>2, <2>3, <2>8, <3>1
  <2> QED BY <1>3, <2>1, <2>4, <2>5, <2>6, <2>7, <2>8 DEF Withdrawn, Doc, t
<1> QED BY <1>1, <1>2, <1>3, <1>4, <1>5, <1>7, <1>8, RemovingTInv DEF t

\* The rebuild gives an element what its tracking has left.
LEMMA RebuildTInv ==
    ASSUME IInv, SInv, TInv, Flush \/ \E x \in Elements : Rebuild(x) \/ RebuildFails(x)
    PROVE  TInv'
<1>1. /\ job.stage \in Last /\ job'.stage = "rebuild" /\ job'.doc = Doc
      /\ job'.drop = job.drop /\ job'.keep = job.keep
      /\ UNCHANGED <<row, listed, text, cvec, track, index, whole, missed>>
  BY DEF Flush, Rebuild, RebuildFails, At, Last, IInv, JobOK, Job, Doc, rows, chunk, shared, ghost
<1>2. Spreads({}) /\ \A x \in Elements : Names(x)' \subseteq Names(x)
  <2>1. CASE Flush
    <3>1. UNCHANGED <<graph, track, text, cvec>>
      BY <2>1 DEF Flush, chunk, shared
    <3> QED BY <3>1 DEF Spreads, Names
  <2> QED BY <2>1, RemovalSpreads
<1>3. ChunksGo'
  BY <1>1 DEF TInv, Withdrawing, ChunksGo, Doc, Mine, Removing, Last
<1>4. ASSUME NEW x \in Elements, Withdrawn(x) PROVE Withdrawn(x)'
  <2>1. graph[x] = {} => graph'[x] = {}
    <3>1. CASE Flush
      BY <3>1 DEF Flush, shared
    <3>2. ASSUME NEW y \in Elements, Rebuild(y) \/ RebuildFails(y)
          PROVE  graph' = graph \/ (Present(y) /\ graph' = [graph EXCEPT ![y] = track[y]])
      BY <3>2 DEF Rebuild, RebuildFails
    <3> QED BY <3>1, <3>2 DEF Present, IInv, TypeOK
  <2>2. /\ DropRels' = DropRels /\ DropEnts' = DropEnts /\ Mine' = Mine
    BY <1>1 DEF DropRels, DropEnts, Mine, Doc
  <2>3. PICK d : d = Doc
    OBVIOUS
  <2>4. /\ Names(x)' \cap Own(d) \subseteq Mine
        /\ x \notin job.drop \cup job.keep => Names(x)' \cap Own(d) = {}
        /\ x \in job.keep => track'[x] \cap Own(d) = {}
        /\ x \in DropRels \cup DropEnts => graph'[x] = {} /\ track'[x] = {}
    BY <1>1, <1>2, <1>4, <2>1, <2>3
    DEF Withdrawn, Last, RelGraphDone, RelTrackDone, NodeGraphDone
  <2> QED BY <1>1, <2>2, <2>3, <2>4 DEF Withdrawn, Doc
<1>5. job.stage \in Removing /\ job'.stage \in Removing
  BY <1>1 DEF Last, Removing
<1> QED BY <1>1, <1>2, <1>3, <1>4, <1>5, RemovingTInv

\* After the rebuild nothing is left but what was missed, or could not be rebuilt.
LEMMA RebuiltTInv == ASSUME IInv, SInv, MissedOK, TInv, Rebuilt PROVE TInv'
<1>1. /\ job # Idle /\ row[Doc] # "none" /\ job.stage = "rebuild" /\ Doc \in Docs
      /\ UNCHANGED <<row, listed, text, cvec, graph, track, index, whole>>
  BY StageFacts DEF Rebuilt, At, Cleaning, Idle, rows, chunk, shared
<1>2. job'.doc = Doc /\ job'.stage \in {"cache", "index"}
  BY DEF Rebuilt, Goto, IInv, JobOK, Job, Doc
<1>3. PICK d \in Docs : d = Doc
  BY <1>1
<1> DEFINE failed == {x \in job.keep : graph[x] \cap listed[d] # {}}
<1>4. missed' = [missed EXCEPT ![d] = @ \cup With(failed)]
  BY <1>3 DEF Rebuilt, Mine
<1>5. \A x \in failed : x \in With(failed) /\ (x \in Relations => Ends[x] \subseteq With(failed))
  BY DEF With
<1>6. \A x \in job.keep : graph[x] \cap listed[d] # {} => x \in failed
  OBVIOUS
<1> HIDE DEF failed
<1>7. missed'[d] = missed[d] \cup With(failed) /\ \A e \in Docs \ {d} : missed'[e] = missed[e]
  BY <1>4 DEF MissedOK
<1>8. Spreads(Own(Doc))
  BY <1>1, UnchangedSpreads
<1>9. Gone'
  BY <1>1, <1>3, <1>7, <1>8, GoneBeside DEF TInv
<1>10. IndexOK'
  BY <1>1, <1>2 DEF TInv, IndexOK
<1>11. ChunksGo /\ \A x \in Elements : Excused(x, d) \/ Withdrawn(x)
  BY <1>1, <1>3 DEF TInv, Withdrawing, Removing
<1>12. Cleared(d, Own(d))'
  <2>1. Own(d) \cap (text' \cup cvec') \subseteq missed'[d]
    BY <1>1, <1>3, <1>7, <1>11 DEF ChunksGo, Mine
  <2>2. ASSUME NEW x \in Elements, Names(x)' \cap Own(d) # {} PROVE Excused(x, d)'
    <3>1. Names(x) \cap Own(d) # {}
      BY <1>1, <2>2 DEF Names
    <3>2. CASE Excused(x, d)
      BY <1>7, <3>2, ExcusedStays
    <3>3. CASE Withdrawn(x)
      <4>1. x \in job.drop => graph[x] = {} /\ track[x] = {}
        BY <1>1, <3>3
        DEF Withdrawn, DropRels, DropEnts, Elements, Last, RelGraphDone, RelTrackDone, NodeGraphDone
      <4>2. x \in job.keep /\ track[x] \cap Own(d) = {} /\ Names(x) \cap Own(d) \subseteq listed[d]
        BY <1>1, <1>3, <3>1, <3>3, <4>1 DEF Withdrawn, Names, Mine
      <4>3. graph[x] \cap listed[d] # {}
        BY <3>1, <4>2 DEF Names
      <4> QED BY <1>5, <1>6, <1>7, <4>2, <4>3 DEF Excused
    <3> QED BY <1>11, <3>2, <3>3
  <2> QED BY <2>1, <2>2 DEF Cleared
<1>13. Withdrawing'
  BY <1>2, <1>3, <1>12 DEF Withdrawing, Doc, Removing, Inserting
<1> QED BY <1>9, <1>10, <1>13 DEF TInv

\* The stages after the rebuild leave the stores as they are.
LEMMA ForgetOrIndexTInv ==
    ASSUME IInv, SInv, TInv, DropIndex \/ \E wipe \in BOOLEAN : ForgetAnswers(wipe)
    PROVE  TInv'
<1>1. /\ job.stage \in {"cache", "oldCache", "index"}
      /\ UNCHANGED <<row, listed, text, cvec, graph, track, whole, missed>>
  BY DEF DropIndex, ForgetAnswers, At, rows, chunk, shared, ghost
<1>2. job # Idle /\ row[Doc] # "none" /\ Doc \in Docs
  BY <1>1, StageFacts DEF Cleaning, Closing, Idle
<1>3. PICK d \in Docs : d = Doc
  BY <1>2
<1>4. /\ job'.doc = d /\ job'.stage \in {"index", "oldRow", "row", "store"}
      /\ \/ job'.stage \notin {"row", "store"} /\ index' = index
         \/ index' = [index EXCEPT ![d] = {}]
  BY <1>3 DEF DropIndex, ForgetAnswers, Goto, IInv, JobOK, Job, Doc, shared
<1>5. Spreads(Own(Doc))
  BY <1>1, UnchangedSpreads
<1>6. Gone'
  BY <1>1, <1>2, <1>5, GoneBeside DEF TInv
<1>7. IndexOK'
  BY <1>1, <1>4 DEF TInv, IndexOK, Doc, IInv, TypeOK
<1>8. Cleared(d, Own(d))'
  BY <1>1, <1>3 DEF TInv, Withdrawing, Cleared, Excused, Names
<1>9. Withdrawing'
  BY <1>4, <1>8 DEF Withdrawing, Doc, Removing, Inserting
<1> QED BY <1>6, <1>7, <1>9 DEF TInv

\* The row goes when nothing is left.
LEMMA DropRowTInv == ASSUME IInv, SInv, TInv, DropRow PROVE TInv'
<1>1. /\ job.stage \in {"row", "oldRow"}
      /\ UNCHANGED <<text, cvec, graph, track, index, whole, missed>>
  BY DEF DropRow, chunk, shared, ghost
<1>2. job # Idle /\ Doc \in Docs /\ Deleting
  BY <1>1, StageFacts DEF Closing, Idle
<1>3. PICK d \in Docs : d = Doc
  BY <1>2
<1>4. /\ job'.doc = d /\ job'.stage \in {"full", "oldFull"}
      /\ listed' = [listed EXCEPT ![d] = {}] /\ row' = [row EXCEPT ![d] = "none"]
  BY <1>3 DEF DropRow, Goto, IInv, JobOK, Job, Doc
<1>5. PICK K : K = Own(d)
  OBVIOUS
<1>6. Cleared(d, K)
  BY <1>1, <1>3, <1>5 DEF TInv, Withdrawing
<1>7. Cleared(d, Own(d) \ listed[d])'
  BY <1>1, <1>5, <1>6 DEF Cleared, Excused, Names
<1>8. Spreads(Own(d))
  BY <1>1, UnchangedSpreads
<1>9. /\ \A e \in Docs \ {d} : row'[e] = row[e] /\ listed'[e] = listed[e]
      /\ listed'[d] = {}
  BY <1>4 DEF IInv, TypeOK
<1>10. Gone'
  BY <1>1, <1>2, <1>3, <1>7, <1>8, <1>9, OthersGone DEF TInv
<1>11. index[d] = {}
  BY <1>1, <1>2, <1>3 DEF TInv, IndexOK, IInv, Secured
<1>12. IndexOK'
  BY <1>1, <1>4, <1>9, <1>11 DEF TInv, IndexOK
<1>13. Withdrawing'
  BY <1>4 DEF Withdrawing, Removing, Inserting
<1> QED BY <1>10, <1>12, <1>13 DEF TInv

LEMMA NextTInv ==
    ASSUME IInv, SInv, MissedOK, Unbroken, TInv, [Next]_vars
    PROVE  TInv'
<1>1. ASSUME NEW d \in Docs, Enqueue(d) \/ Process(d) \/ Delete(d) PROVE TInv'
  BY <1>1, BeginTInv
<1>2. CASE InsertStep
  BY <1>2, StoreTInv, InsertStepTInv, FinishTInv DEF InsertStep
<1>3. CASE TakeOutStep
  BY <1>3, CollectTInv, AnalyzeTInv, TakeOutTInv, RebuildTInv, RebuiltTInv, ForgetOrIndexTInv,
     DropRowTInv, DropTextTInv DEF TakeOutStep
<1>4. CASE Failure
  BY <1>4, FailureTInv
<1>5. CASE UNCHANGED vars
  <2>1. UNCHANGED <<row, listed, text, cvec, graph, track, index, whole, missed, job>>
    BY <1>5 DEF vars, rows, chunk, shared, ghost
  <2>2. \A d, K : Cleared(d, K)' = Cleared(d, K)
    BY <2>1 DEF Cleared, Excused, Names
  <2>3. Gone' /\ IndexOK'
    BY <2>1, <2>2 DEF TInv, Gone, IndexOK, Doc, Cleared
  <2>4. Withdrawing'
    BY <2>1 DEF TInv, Withdrawing, Unseen, Names, Present, ChunksGo, Excused, Withdrawn, Cleared,
       Doc, Mine, DropRels, DropEnts
  <2> QED BY <2>3, <2>4 DEF TInv
<1> QED BY <1>1, <1>2, <1>3, <1>4, <1>5 DEF Next

\* However often a deletion or a reprocessing fails and is asked for again, what
\* is left in the stores of a document without a row, and of the chunks that a
\* processed document no longer lists, is only what its last job could not see
\* or could not rebuild; and its index is gone.
THEOREM TracesTheorem == Spec => []TracesOnlyUnseen
<1>1. IInv /\ TInv => TracesOnlyUnseen
  <2> SUFFICES ASSUME IInv, TInv PROVE TracesOnlyUnseen
    OBVIOUS
  <2>1. ASSUME NEW d \in Docs, row[d] = "none" \/ d \in whole PROVE Traces(d) \subseteq missed[d]
    BY <2>1 DEF TInv, Gone, Cleared, Excused, Traces
  <2>2. ASSUME NEW d \in Docs, row[d] = "none" PROVE index[d] \subseteq missed[d]
    BY <2>2 DEF TInv, IndexOK, IInv, TypeOK
  <2> QED BY <2>1, <2>2 DEF TracesOnlyUnseen
<1>2. Init => SInv /\ MissedOK /\ Unbroken /\ TInv
  BY InitSInv, MissedInit, InitTInv DEF Init, Unbroken, Idle, Deleting
<1>3. IInv /\ (SInv /\ MissedOK /\ Unbroken /\ TInv) /\ [Next]_vars
        => (SInv /\ MissedOK /\ Unbroken /\ TInv)'
  BY NextSInv, MissedStep, UnbrokenStep, NextTInv
<1> QED BY <1>1, <1>2, <1>3, Invariant, PTL DEF Spec

=============================================================================
