----------------------------- MODULE GraphEdit -----------------------------
(***************************************************************************)
(* Editing the knowledge graph by hand: the operations of utils_graph.py   *)
(* (create, edit, rename, merge and delete entities and relations), beside *)
(* the merge of a relation by the document pipeline (operate.py), which    *)
(* uses the same locks.                                                    *)
(*                                                                         *)
(* An entity or relation is in up to five places: the graph, where it      *)
(* names its chunks, the vectors of entities or of relations, and chunk    *)
(* tracking.  An operation holds the locks of the entities it names, and   *)
(* of no other, and makes its writes one after another.  A write may fail: *)
(* then the operation ends where it is, and nothing is undone.             *)
(*                                                                         *)
(* A request is first a reading step, which plans the writes; a plan is a  *)
(* sequence of stages, and a stage a set of writes that a loop makes in    *)
(* whatever order the graph lists the elements.  Some writes plan others.  *)
(* Several keys are taken one after another in sorted order; that this     *)
(* gives exclusion and service is module KeyedLock.  The stores are the    *)
(* file-backed ones of one process; saving them is module FileStore.       *)
(***************************************************************************)
EXTENDS Naturals, Sequences

CONSTANTS
    Entities, Tasks,
    NewChunk,     \* what an edit or a new document names as source
    Start,        \* initial graphs, and what is tracked in them
    MaxRequests,  \* bound on the requests in one behaviour
    MaxFaults     \* bound on the failing writes in one behaviour

Pairs    == {{x, y} : x, y \in Entities} \ {{x} : x \in Entities}
Elements == Entities \cup Pairs
\* An initial element stems from two chunks of its own.  The first is in the
\* graph; the second, beyond the source-id limit, in chunk tracking only.
Chunks   == (Elements \X {1, 2}) \cup {NewChunk}

\* The entities an element consists of.
Ents(x)    == IF x \in Entities THEN {x} ELSE x
PairsOf(e) == {p \in Pairs : e \in p}

\* The last conjunct: no entity is a relation, for names are not sets of names.
ASSUME GraphAssumption ==
    /\ Start \subseteq [graph : SUBSET Elements, tracked : SUBSET Elements]
    /\ \A s \in Start : /\ \A p \in s.graph \cap Pairs : p \subseteq s.graph
                        /\ s.tracked \subseteq s.graph
    /\ MaxRequests \in Nat /\ MaxFaults \in Nat
    /\ NewChunk \notin Elements \X {1, 2}
    /\ \A S \in SUBSET Entities : S \notin Entities

VARIABLES
    graph,   \* nodes and edges of the graph
    src,     \* their source_id
    vec,     \* entities_vdb and relationships_vdb
    track,   \* entity_chunks and relation_chunks; {}: no record
    job,     \* the request each task is at
    asked, faults,
    torn,    \* history: elements an interrupted edit or a neighbour's edit has been through
    halved   \* history: elements whose deletion failed

stores   == <<graph, src, vec, track>>
ghost    == <<asked, faults, torn, halved>>
editVars == <<stores, job, ghost>>

Idle == [held |-> {}, about |-> {}, plan |-> <<>>, moved |-> {},
         deletes |-> FALSE, dirty |-> FALSE, owed |-> {}]

EditInit ==
    \E s \in Start :
        /\ graph = s.graph
        /\ src = [x \in Elements |-> IF x \in s.graph THEN {<<x, 1>>} ELSE {}]
        /\ vec = s.graph
        /\ track = [x \in Elements |-> IF x \in s.tracked THEN {x} \X {1, 2} ELSE {}]
        /\ job = [t \in Tasks |-> Idle]
        /\ asked = 0 /\ faults = 0
        /\ torn = {} /\ halved = {}

\* Tracking when there is a record, the graph's list otherwise.
Sources(x) == IF track[x] # {} THEN track[x] ELSE src[x]
Names(x)   == src[x] \cup track[x]
\* An element is excused by what happened to it or to one of its entities.
Excused(x, S) == x \in S \/ Ents(x) \cap S # {}
-----------------------------------------------------------------------------
(* Plans.                                                                   *)

\* A stage, if there is anything to do in it.
Stage(S) == IF S = {} THEN <<>> ELSE <<S>>

\* Task t has done w, of the stage it is at, and does more before the rest.
Advanced(t, w, more) ==
    LET plan == job[t].plan
    IN [job[t] EXCEPT !.plan = more \o Stage(Head(plan) \ {w}) \o Tail(plan)]
Becomes(t, j)       == job' = [job EXCEPT ![t] = j]
Plan(t, w, more)    == Becomes(t, Advanced(t, w, more)) /\ UNCHANGED <<stores, ghost>>
\* A request that is refused, or whose element is gone, ends without a write.
Refuse(t)           == Becomes(t, Idle) /\ UNCHANGED <<stores, ghost>>

\* The writes.
PutIt(x, chunks)  == [do |-> "put", on |-> x, chunks |-> chunks]
DropIt(x, more)   == [do |-> "drop", on |-> x, more |-> more]
EmbedIt(x)        == [do |-> "embed", on |-> {x}]
UnembedThem(S)    == [do |-> "unembed", on |-> S]
TrackThem(lists)  == [do |-> "track", lists |-> lists]
TrackIt(x, chunks) == TrackThem([y \in {x} |-> chunks])
UntrackThem(S)    == [do |-> "untrack", on |-> S]

\* What t does to elements of the entities S strays when one of them is not
\* its own and is another's, or is gone.
Strays(t, S) ==
    \E x \in S \ job[t].held : x \notin graph \/ \E u \in Tasks \ {t} : x \in job[u].held
Marked(t, S) == torn \cup (IF Strays(t, S) THEN S ELSE {})
EntsOf(S)    == UNION {Ents(x) : x \in S}

Wrote(t, w, more, S) ==
    /\ Becomes(t, [Advanced(t, w, more) EXCEPT !.dirty = TRUE])
    /\ torn' = Marked(t, EntsOf(S))
    /\ UNCHANGED <<asked, faults, halved>>

\* upsert_node, upsert_edge: the ends of an edge appear with it.
Put(t, w) ==
    /\ w.do = "put"
    /\ graph' = graph \cup {w.on} \cup Ents(w.on)
    /\ src' = [src EXCEPT ![w.on] = w.chunks]
    /\ Wrote(t, w, <<>>, {w.on})
    /\ UNCHANGED <<vec, track>>

\* delete_node, with the edges the node has by now, and remove_edges.
Drop(t, w) ==
    /\ w.do = "drop"
    /\ LET gone == {w.on} \cup (IF w.on \in Entities THEN PairsOf(w.on) ELSE {}) IN
          /\ graph' = graph \ gone
          /\ src' = [x \in Elements |-> IF x \in gone THEN {} ELSE src[x]]
          /\ Wrote(t, w, w.more, {w.on} \cup (gone \cap graph))
    /\ UNCHANGED <<vec, track>>

Embed(t, w) ==
    /\ w.do = "embed"
    /\ vec' = vec \cup w.on
    /\ Wrote(t, w, <<>>, w.on)
    /\ UNCHANGED <<graph, src, track>>

Unembed(t, w) ==
    /\ w.do = "unembed"
    /\ vec' = vec \ w.on
    /\ Wrote(t, w, <<>>, w.on \cap vec)
    /\ UNCHANGED <<graph, src, track>>

Track(t, w) ==
    /\ w.do = "track"
    /\ track' = [x \in Elements |-> IF x \in DOMAIN w.lists THEN w.lists[x] ELSE track[x]]
    /\ Wrote(t, w, <<>>, DOMAIN w.lists)
    /\ UNCHANGED <<graph, src, vec>>

Untrack(t, w) ==
    /\ w.do = "untrack"
    /\ track' = [x \in Elements |-> IF x \in w.on THEN {} ELSE track[x]]
    /\ Wrote(t, w, <<>>, {x \in w.on : track[x] # {}})
    /\ UNCHANGED <<graph, src, vec>>

\* The vector stores log an error and go on, or leave out what was not embedded.
Swallow(t, w) ==
    /\ w.do \in {"embed", "unembed"}
    /\ faults < MaxFaults
    /\ faults' = faults + 1
    /\ torn' = torn \cup w.on
    /\ Becomes(t, [Advanced(t, w, <<>>) EXCEPT !.dirty = TRUE])
    /\ UNCHANGED <<stores, asked, halved>>
-----------------------------------------------------------------------------
(* Deleting and creating.                                                   *)

\* Mutant: the node goes first, and with it the way to ask again.
DeleteEntityGraphFirst(t, w) ==
    /\ w.do = "delete_entity"
    /\ IF w.on \notin graph THEN Refuse(t)
       ELSE Plan(t, w, <<{DropIt(w.on, <<>>)},
                         {UntrackThem({w.on} \cup (PairsOf(w.on) \cap graph))},
                         {UnembedThem({w.on} \cup PairsOf(w.on))}>>)

\* Graph last: until then the deletion can be asked for again.
DeleteEntity(t, w) ==
    /\ w.do = "delete_entity"
    /\ IF w.on \notin graph THEN Refuse(t)
       ELSE LET edges == PairsOf(w.on) \cap graph IN
            Plan(t, w, <<{UntrackThem({w.on})}>>
                       \o Stage(IF edges = {} THEN {} ELSE {UntrackThem(edges)})
                       \o <<{UnembedThem({w.on})},
                            {UnembedThem(PairsOf(w.on))},
                            {DropIt(w.on, <<>>)}>>)

DeleteRelation(t, w) ==
    /\ w.do = "delete_relation"
    /\ IF w.on \notin graph THEN Refuse(t)
       ELSE Plan(t, w, <<{UntrackThem({w.on})}, {UnembedThem({w.on})}, {DropIt(w.on, <<>>)}>>)

CreateEntity(t, w) ==
    /\ w.do = "create_entity"
    /\ IF w.on \in graph THEN Refuse(t)
       ELSE Plan(t, w, <<{PutIt(w.on, {NewChunk})}, {EmbedIt(w.on)},
                         {TrackIt(w.on, {NewChunk})}>>)

CreateRelation(t, w) ==
    /\ w.do = "create_relation"
    /\ IF ~ (w.on \subseteq graph) \/ w.on \in graph THEN Refuse(t)
       ELSE Plan(t, w, <<{PutIt(w.on, {NewChunk})}, {EmbedIt(w.on)},
                         {TrackIt(w.on, {NewChunk})}>>)
-----------------------------------------------------------------------------
(* Editing in place.  An edit may replace the sources; none given: kept.    *)

Given(w, x) == IF w.chunks = {} THEN src[x] ELSE w.chunks
\* The full list follows the change of the graph's list.
Incremental(x, now) ==
    (Sources(x) \ (src[x] \ now)) \cup (now \ src[x])
TrackEdit(x, now) ==
    IF now # src[x] \/ track[x] = {} THEN {TrackIt(x, Incremental(x, now))} ELSE {}

EditInPlace(x, now) == <<{PutIt(x, now)}, {EmbedIt(x)}>> \o Stage(TrackEdit(x, now))

EditRelation(t, w) ==
    /\ w.do = "edit_relation"
    /\ IF w.on \notin graph THEN Refuse(t)
       ELSE Plan(t, w, <<{UnembedThem({w.on})}>> \o EditInPlace(w.on, Given(w, w.on)))

EditEntity(t, w) ==
    /\ w.do = "edit_entity" /\ w.on = w.to
    /\ IF w.on \notin graph THEN Refuse(t)
       ELSE Plan(t, w, EditInPlace(w.on, Given(w, w.on)))

\* The new name is taken: refused, or an edit in place followed by a merge.
EditByMerge(t, w) ==
    /\ w.do = "edit_entity" /\ w.on # w.to /\ w.to \in graph
    /\ IF ~ w.merge \/ w.on \notin graph THEN Refuse(t)
       ELSE Plan(t, w, (IF w.chunks = {} THEN <<>> ELSE EditInPlace(w.on, w.chunks))
                       \o <<{[do |-> "merge", from |-> {w.on}, to |-> w.to]}>>)
-----------------------------------------------------------------------------
(* Renaming: a new node takes over the edges of the old one, one by one.    *)

Renamed(p, e, f) == {IF x = e THEN f ELSE x : x \in p}

RenameEntity(t, w) ==
    /\ w.do = "edit_entity" /\ w.on # w.to /\ w.to \notin graph
    /\ IF w.on \notin graph THEN Refuse(t)
       ELSE LET now  == Given(w, w.on)
                full == Incremental(w.on, now)
            IN /\ Becomes(t, [Advanced(t, w,
                     <<{PutIt(w.to, now)},
                       {[do |-> "relink", on |-> w.on, to |-> w.to]},
                       {DropIt(w.on, <<>>)},
                       {UnembedThem({w.on})},
                       {[do |-> "settle", on |-> w.on, to |-> w.to, full |-> full]}>>)
                     EXCEPT !.owed = {w.to} \X (Names(w.on) \ (src[w.on] \ now))])
               /\ UNCHANGED <<stores, ghost>>

Relink(t, w) ==
    /\ w.do = "relink"
    /\ Plan(t, w, Stage({[do |-> "move", on |-> p, to |-> Renamed(p, w.on, w.to)] :
                             p \in PairsOf(w.on) \cap graph}))

\* get_edge and upsert_edge; an edge that is gone by now is passed over.
Move(t, w) ==
    /\ w.do = "move"
    /\ IF w.on \notin graph THEN Plan(t, w, <<>>)
       ELSE /\ graph' = graph \cup {w.to} \cup w.to
            /\ src' = [src EXCEPT ![w.to] = src[w.on]]
            /\ Becomes(t, [Advanced(t, w, <<>>) EXCEPT
                              !.dirty = TRUE,
                              !.moved = @ \cup {<<w.on, w.to, src[w.on]>>},
                              !.owed = @ \cup {w.to} \X Names(w.on)])
            /\ torn' = Marked(t, w.to) \cup (IF w.on \in torn THEN {w.to} ELSE {})
            /\ UNCHANGED <<vec, track, asked, faults, halved>>

\* The vectors of the edges that were moved, those of the entity, the records.
Settle(t, w) ==
    /\ w.do = "settle"
    /\ LET moved == job[t].moved
           old   == {m[1] : m \in moved}
       IN /\ vec' = vec \ old
          /\ Wrote(t, w, Stage({EmbedIt(m[2]) : m \in moved})
                         \o <<{EmbedIt(w.to)},
                              {UntrackThem({w.on})},
                              {TrackIt(w.to, w.full)}>>
                         \o Stage({[do |-> "retrack", from |-> m[1], to |-> m[2], chunks |-> m[3]] :
                                       m \in moved}), old \cap vec)
    /\ UNCHANGED <<graph, src, track>>

\* The record of a moved edge, or what the graph says of it.
Retrack(t, w) ==
    /\ w.do = "retrack"
    /\ LET all == IF track[w.from] # {} THEN track[w.from] ELSE w.chunks IN
          /\ track' = [track EXCEPT ![w.from] = {}]
          /\ Wrote(t, w, IF all = {} THEN <<>> ELSE <<{TrackIt(w.to, all)}>>, {w.from, w.to})
    /\ UNCHANGED <<graph, src, vec>>
-----------------------------------------------------------------------------
(* Merging several entities into one, which may exist or be one of them.    *)

Repointed(p, from, to) == {IF x \in from THEN to ELSE x : x \in p}

\* A merge adds up the records of its entities and no more: it forgets the
\* chunks of one that has no record.
MergeEntities(t, w) ==
    /\ w.do = "merge"
    /\ IF ~ (w.from \subseteq graph) THEN Refuse(t)
       ELSE LET here  == (w.from \cup {w.to}) \cap graph
                all   == UNION {src[x] : x \in here}
                full  == UNION {track[x] : x \in here}
                old   == w.from \ {w.to}
                edges == (UNION {PairsOf(x) : x \in here}) \cap graph
                ties  == {<<p, Repointed(p, w.from, w.to), src[p]>> : p \in edges}
            IN /\ Becomes(t, [Advanced(t, w,
                     <<{PutIt(w.to, all)}>>
                     \o Stage(IF ties = {} THEN {} ELSE {[do |-> "regroup", ties |-> ties]})
                     \o <<{EmbedIt(w.to)}>>
                     \o Stage(IF old = {} THEN {} ELSE {UntrackThem(old)})
                     \o Stage(IF full = {} THEN {} ELSE {TrackIt(w.to, full)})
                     \o Stage({DropIt(x, <<{UnembedThem({x})}>>) : x \in old}))
                     EXCEPT !.owed = {w.to} \X (all \cup full) \cup
                               UNION {{m[2]} \X Names(m[1]) : m \in {k \in ties : k[2] \in Pairs}}])
               /\ torn' = IF \E x \in here : track[x] = {} THEN torn \cup {w.to} ELSE torn
               /\ UNCHANGED <<stores, asked, faults, halved>>

\* Mutant: the new vectors first, so that an edge of the target loses its own.
RegroupVectorsFirst(t, w) ==
    /\ w.do = "regroup"
    /\ LET old   == {m[1] : m \in w.ties}
           new   == {m[2] : m \in w.ties} \cap Pairs
           of(q) == {m \in w.ties : m[2] = q}
           all(q)  == UNION {m[3] : m \in of(q)}
           full(q) == UNION {IF track[m[1]] # {} THEN track[m[1]] ELSE m[3] : m \in of(q)}
       IN /\ Becomes(t, Advanced(t, w,
                Stage({PutIt(q, all(q)) : q \in new})
                \o <<{UntrackThem(old)}>>
                \o Stage(IF new = {} THEN {} ELSE {TrackThem([q \in new |-> full(q)])})
                \o Stage({EmbedIt(q) : q \in new})
                \o <<{UnembedThem(old)}>>))
          /\ torn' = torn \cup {q \in new : \E m \in of(q) : m[1] \in torn}
          /\ UNCHANGED <<stores, asked, faults, halved>>

\* Mutant: the records are made from what the graph names.
RegroupAnew(t, w) ==
    /\ w.do = "regroup"
    /\ LET old   == {m[1] : m \in w.ties}
           new   == {m[2] : m \in w.ties} \cap Pairs
           of(q) == {m \in w.ties : m[2] = q}
           all(q)  == UNION {m[3] : m \in of(q)}
       IN /\ Becomes(t, Advanced(t, w,
                Stage({PutIt(q, all(q)) : q \in new})
                \o <<{UntrackThem(old)}>>
                \o Stage(IF new = {} THEN {} ELSE {TrackThem([q \in new |-> all(q)])})
                \o <<{UnembedThem(old)}>>
                \o Stage({EmbedIt(q) : q \in new})))
          /\ torn' = torn \cup {q \in new : \E m \in of(q) : m[1] \in torn}
          /\ UNCHANGED <<stores, asked, faults, halved>>

\* Edges that come to join the same two entities become one; an edge within
\* the merged entities goes.
Regroup(t, w) ==
    /\ w.do = "regroup"
    /\ LET old   == {m[1] : m \in w.ties}
           new   == {m[2] : m \in w.ties} \cap Pairs
           of(q) == {m \in w.ties : m[2] = q}
           all(q)  == UNION {m[3] : m \in of(q)}
           full(q) == UNION {IF track[m[1]] # {} THEN track[m[1]] ELSE m[3] : m \in of(q)}
       IN /\ Becomes(t, Advanced(t, w,
                Stage({PutIt(q, all(q)) : q \in new})
                \o <<{UntrackThem(old)}>>
                \o Stage(IF new = {} THEN {} ELSE {TrackThem([q \in new |-> full(q)])})
                \o <<{UnembedThem(old)}>>
                \o Stage({EmbedIt(q) : q \in new})))
          /\ torn' = torn \cup {q \in new : \E m \in of(q) : m[1] \in torn}
          /\ UNCHANGED <<stores, asked, faults, halved>>
-----------------------------------------------------------------------------
(* The pipeline merges a relation a new document names.                     *)

\* An element whose record is longer than the graph's list has reached the
\* source-id limit; the graph then keeps the newest chunks (FIFO, the default).
AtLimit(x) == src[x] # {} /\ src[x] # Sources(x)
Limited(x, new) ==
    IF ~ AtLimit(x) THEN Sources(x) \cup new
    ELSE IF new \subseteq Sources(x) THEN src[x] ELSE new \ Sources(x)

MergeEdge(t, w) ==
    /\ w.do = "ingest"
    /\ LET kept == Limited(w.on, {NewChunk}) IN
       Plan(t, w, <<{TrackIt(w.on, Sources(w.on) \cup {NewChunk})},
                    {[do |-> "end", on |-> e, full |-> Sources(w.on) \cup {NewChunk},
                      chunks |-> kept] : e \in w.on},
                    {PutIt(w.on, kept)}, {UnembedThem({w.on})}, {EmbedIt(w.on)}>>)

\* A missing end is made from the relation; one that exists takes its chunks.
MergeEnd(t, w) ==
    /\ w.do = "end"
    /\ LET both == Sources(w.on) \cup w.chunks
           kept == Limited(w.on, w.chunks)
       IN IF w.on \notin graph
          THEN Plan(t, w, <<{PutIt(w.on, w.chunks)}, {TrackIt(w.on, w.full)}, {EmbedIt(w.on)}>>)
          ELSE Plan(t, w, Stage(IF both = Sources(w.on) THEN {} ELSE {TrackIt(w.on, both)})
                          \o (IF kept = src[w.on] THEN <<>>
                              ELSE <<{PutIt(w.on, kept)}, {EmbedIt(w.on)}>>))
-----------------------------------------------------------------------------
(* Requests.                                                                *)

Requests ==
    [do : {"delete_entity", "create_entity"}, on : Entities] \cup
    [do : {"delete_relation", "create_relation", "ingest"}, on : Pairs] \cup
    [do : {"edit_relation"}, on : Pairs, chunks : {{}, {NewChunk}}] \cup
    {r \in [do : {"edit_entity"}, on : Entities, to : Entities,
            chunks : {{}, {NewChunk}}, merge : BOOLEAN] : r.on = r.to => ~ r.merge} \cup
    [do : {"merge"}, from : (SUBSET Entities) \ {{}}, to : Entities]

\* The entities a request locks.
Keys(r) ==
    CASE r.do = "merge"       -> r.from \cup {r.to}
      [] r.do = "edit_entity" -> {r.on, r.to}
      [] OTHER                -> Ents(r.on)
\* What it may leave half-done.
About(r) == CASE r.do = "ingest" -> {r.on} \cup r.on
              [] r.do \in {"merge", "edit_entity"} -> Keys(r)
              [] OTHER -> {r.on}

Request(t) ==
    /\ job[t] = Idle /\ asked < MaxRequests
    /\ asked' = asked + 1
    /\ \E r \in Requests :
          /\ \A u \in Tasks : Keys(r) \cap job[u].held = {}
          /\ Becomes(t, [Idle EXCEPT !.held = Keys(r), !.about = About(r), !.plan = <<{r}>>,
                            !.deletes = r.do \in {"delete_entity", "delete_relation"}])
          /\ torn' = IF \E x \in About(r) : Excused(x, torn) THEN torn \cup About(r) ELSE torn
    /\ UNCHANGED <<stores, faults, halved>>

\* The stores are saved, the locks released.
Finish(t) ==
    /\ job[t] # Idle /\ job[t].plan = <<>>
    /\ Refuse(t)

\* A write or a read raises.  Before the first write nothing is lost by it.
Fail(t) ==
    /\ job[t].plan # <<>> /\ job[t].dirty
    /\ faults < MaxFaults
    /\ faults' = faults + 1
    /\ torn' = IF job[t].deletes THEN torn ELSE torn \cup job[t].about
    /\ halved' = IF job[t].deletes THEN halved \cup job[t].about ELSE halved
    /\ Becomes(t, Idle)
    /\ UNCHANGED <<stores, asked>>

Step(t) ==
    /\ job[t].plan # <<>>
    /\ \E w \in Head(job[t].plan) :
          \/ DeleteEntity(t, w) \/ DeleteRelation(t, w)
          \/ CreateEntity(t, w) \/ CreateRelation(t, w)
          \/ EditEntity(t, w) \/ EditByMerge(t, w) \/ EditRelation(t, w)
          \/ RenameEntity(t, w) \/ Relink(t, w) \/ Move(t, w)
          \/ Settle(t, w) \/ Retrack(t, w)
          \/ MergeEntities(t, w) \/ Regroup(t, w)
          \/ MergeEdge(t, w) \/ MergeEnd(t, w)
          \/ Put(t, w) \/ Drop(t, w) \/ Embed(t, w) \/ Unembed(t, w)
          \/ Track(t, w) \/ Untrack(t, w) \/ Swallow(t, w)

EditNext == \E t \in Tasks : Request(t) \/ Step(t) \/ Finish(t) \/ Fail(t)

EditSpec == EditInit /\ [][EditNext]_editVars
-----------------------------------------------------------------------------
(* Properties.                                                              *)

EditTypeOK ==
    /\ graph \subseteq Elements /\ vec \subseteq Elements
    /\ src \in [Elements -> SUBSET Chunks]
    /\ track \in [Elements -> SUBSET Chunks]
    /\ torn \subseteq Elements /\ halved \subseteq Elements
    /\ \A x \in Elements : x \in graph => Ents(x) \subseteq graph
    /\ \A t \in Tasks : job[t].held \subseteq Entities

\* Nobody is at work on x, and no interrupted or crossing edit has been.
Quiet(x) == /\ \A t \in Tasks : job[t].held \cap Ents(x) = {}
            /\ ~ Excused(x, torn)

\* A vector or a tracking record belongs to something in the graph, though
\* deletions fail half-way: what is left of one can be deleted again.
NoOrphans ==
    \A x \in Elements : Quiet(x) /\ (x \in vec \/ track[x] # {}) => x \in graph

GraphInv == EditTypeOK /\ NoOrphans

\* What is in the graph can be found by its vector, and its record, if there is
\* one, covers the chunks the graph names: a later deletion of a document looks
\* only there.
StoresAgree ==
    \A x \in graph : Quiet(x) /\ ~ Excused(x, halved) =>
        /\ x \in vec
        /\ src[x] # {}
        /\ track[x] = {} \/ src[x] \subseteq track[x]

\* A rename or merge that runs to its end keeps every chunk the entities and
\* their relations stem from.
ChunksFollow ==
    \A t \in Tasks : job[t].plan = <<>> =>
        \A o \in job[t].owed : Excused(o[1], torn) \/ o[2] \in Names(o[1])
=============================================================================
