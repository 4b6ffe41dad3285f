----------------------------- MODULE FileStore -----------------------------
(***************************************************************************)
(* The stores that keep a copy of a file in every process: vectors         *)
(* (kg/nano_vector_db_impl.py) and the graph (kg/networkx_impl.py), which  *)
(* follow one protocol.                                                    *)
(*                                                                         *)
(* A copy is one storage object.  It loads the file when it is built and   *)
(* registers an update flag when it is initialized.  Changes are made in   *)
(* memory; index_done_callback saves the whole copy and raises the flag of *)
(* every other copy; a copy whose flag is up reloads the whole file the    *)
(* next time somebody looks at it, and forgets what it had not saved.      *)
(*                                                                         *)
(* Leaving a lock suspends the coroutine (the release is shielded), so     *)
(* others may run between the look and the use of what it returned.        *)
(*                                                                         *)
(* The pipeline gate is external: one copy at a time is the owner's.  An   *)
(* edit of the graph only looks whether the pipeline is busy, and then     *)
(* writes beside whoever comes next.                                       *)
(***************************************************************************)
EXTENDS Naturals, FiniteSets

CONSTANTS
    Copies,
    Writers,      \* coroutines that write
    Home,         \* the copy each of them works on
    Items,        \* ids of vectors, or nodes and edges
    Editors,      \* copies on which graph edits are made
    Faults,       \* {"save"}: a file that cannot be written
    MaxWrites,    \* bound on the versions written in one behaviour
    None

ASSUME StoreAssumption ==
    /\ Home \in [Writers -> Copies]
    /\ Editors \subseteq Copies
    /\ MaxWrites \in Nat
    /\ None \notin Copies \cup Nat

VARIABLES
    file,       \* the records on disk
    mem,        \* the records of each copy
    stage,      \* built: constructed; ready: its flag is registered
    flag,       \* storage_updated
    owner,      \* the copy of the job that holds the pipeline
    session,    \* copies with a job or an edit in progress
    at, change, \* where a coroutine is, and the change it is about to make
    writes,     \* versions handed out
    unsaved,    \* history: the last change of each item since the last save
    crossed,    \* history: another copy saved during this session
    missed      \* history: a save fell between building and registering

sync     == <<mem, stage, flag>>
ghost    == <<unsaved, crossed, missed>>
fileVars == <<file, sync, owner, session, at, change, writes, ghost>>

Versions == 1..MaxWrites
Gone     == 0                       \* the version of a deleted item
Record   == [id : Items, ver : Versions]
Change   == [id : Items, ver : Versions \cup {Gone}]
Untouched == [i \in Items |-> None]

FileInit ==
    /\ file = {}
    /\ mem = [c \in Copies |-> {}]
    /\ stage = [c \in Copies |-> "none"]
    /\ flag = [c \in Copies |-> FALSE]
    /\ owner = None
    /\ session = {}
    /\ at = [t \in Writers |-> "idle"]
    /\ change = [t \in Writers |-> None]
    /\ writes = 0
    /\ unsaved = [c \in Copies |-> Untouched]
    /\ crossed = [c \in Copies |-> FALSE]
    /\ missed = [c \in Copies |-> FALSE]
-----------------------------------------------------------------------------
(* Copies come and go with the processes and with the instance pool.        *)

\* __post_init__: the file is read before anybody would announce a save.
Build(c) ==
    /\ stage[c] = "none"
    /\ stage' = [stage EXCEPT ![c] = "built"]
    /\ mem' = [mem EXCEPT ![c] = file]
    /\ UNCHANGED <<file, flag, owner, session, at, change, writes, ghost>>

\* initialize: a fresh flag, down, joins the list.
Register(c) ==
    /\ stage[c] = "built"
    /\ stage' = [stage EXCEPT ![c] = "ready"]
    /\ flag' = [flag EXCEPT ![c] = FALSE]
    /\ missed' = [missed EXCEPT ![c] = mem[c] # file]
    /\ UNCHANGED <<file, mem, owner, session, at, change, writes, unsaved, crossed>>
-----------------------------------------------------------------------------
(* Sessions: what the gate and the routes make of a job and of an edit.     *)

\* Whoever starts from a copy that is behind starts from the file.
Enter(c) ==
    /\ stage[c] = "ready"
    /\ c \notin session
    /\ session' = session \cup {c}
    /\ crossed' = [crossed EXCEPT ![c] = FALSE]
    /\ unsaved' = [unsaved EXCEPT ![c] = IF flag[c] THEN Untouched ELSE @]

Begin(c) ==
    /\ owner = None
    /\ Enter(c)
    /\ owner' = c
    /\ UNCHANGED <<file, sync, at, change, writes, missed>>

\* check_pipeline_busy_or_raise looks, and reserves nothing.
BeginEdit(c) ==
    /\ c \in Editors
    /\ owner = None
    /\ Enter(c)
    /\ UNCHANGED <<file, sync, owner, at, change, writes, missed>>

Working(c) == {t \in Writers : Home[t] = c /\ at[t] # "idle"}

\* A job that failed may end with changes in memory and none of them saved.
End(c) ==
    /\ c \in session
    /\ Working(c) = {}
    /\ session' = session \ {c}
    /\ owner' = IF owner = c THEN None ELSE owner
    /\ UNCHANGED <<file, sync, at, change, writes, ghost>>
-----------------------------------------------------------------------------
\* What a coroutine holds when its copy is replaced is an orphan.
Orphaned(c) ==
    [t \in Writers |-> IF Home[t] = c /\ at[t] = "hold" THEN "orphan" ELSE at[t]]

\* The whole file is read again, and the flag goes down.
Reload(c) ==
    /\ mem' = [mem EXCEPT ![c] = file]
    /\ flag' = [flag EXCEPT ![c] = FALSE]
    /\ unsaved' = [unsaved EXCEPT ![c] = Untouched]
    /\ missed' = [missed EXCEPT ![c] = FALSE]

\* A query, or any other look from outside a job.
Read(c) ==
    /\ stage[c] = "ready"
    /\ flag[c]
    /\ Reload(c)
    /\ at' = Orphaned(c)
    /\ UNCHANGED <<file, stage, owner, session, change, writes, crossed>>

\* Mutant: a change is made on the copy at hand, whatever the flag says.
LookNotAtFlag(t) ==
    /\ UNCHANGED <<mem, flag, unsaved, missed>>
    /\ at' = [at EXCEPT ![t] = "hold"]

\* _get_client, _get_graph
Look(t) ==
    IF flag[Home[t]]
      THEN Reload(Home[t]) /\ at' = [Orphaned(Home[t]) EXCEPT ![t] = "hold"]
      ELSE /\ UNCHANGED <<mem, flag, unsaved, missed>>
           /\ at' = [at EXCEPT ![t] = "hold"]

\* upsert, upsert_node, upsert_edge: embeddings are made, then the copy is looked up.
Upsert(t, i) ==
    /\ at[t] = "idle" /\ Home[t] \in session
    /\ writes < MaxWrites
    /\ writes' = writes + 1
    /\ change' = [change EXCEPT ![t] = [id |-> i, ver |-> writes + 1]]
    /\ Look(t)
    /\ UNCHANGED <<file, stage, owner, session, crossed>>

\* delete, delete_entity, delete_node, remove_nodes, remove_edges
Delete(t, i) ==
    /\ at[t] = "idle" /\ Home[t] \in session
    /\ change' = [change EXCEPT ![t] = [id |-> i, ver |-> Gone]]
    /\ Look(t)
    /\ UNCHANGED <<file, stage, owner, session, writes, crossed>>

\* The records after a change.
After(records, ch) ==
    {r \in records : r.id # ch.id} \cup (IF ch.ver = Gone THEN {} ELSE {ch})

\* The change itself, on the object the look returned.
Apply(t) ==
    /\ at[t] \in {"hold", "orphan"}
    /\ mem' = IF at[t] = "hold" THEN [mem EXCEPT ![Home[t]] = After(@, change[t])] ELSE mem
    /\ unsaved' = IF at[t] = "hold" \/ ~crossed[Home[t]]
                     THEN [unsaved EXCEPT ![Home[t]][change[t].id] = change[t].ver]
                     ELSE unsaved
    /\ at' = [at EXCEPT ![t] = "idle"]
    /\ change' = [change EXCEPT ![t] = None]
    /\ UNCHANGED <<file, stage, flag, owner, session, writes, crossed, missed>>
-----------------------------------------------------------------------------
(* index_done_callback                                                      *)

\* Mutant: the first block is removed, as if it were dead code.
CommitUnchecked(t) ==
    /\ at[t] = "idle" /\ Home[t] \in session
    /\ at' = [at EXCEPT ![t] = "gap"]
    /\ UNCHANGED <<file, sync, owner, session, change, writes, ghost>>

\* First block: a copy that is behind is reloaded instead of saved.
CommitCheck(t) ==
    /\ at[t] = "idle" /\ Home[t] \in session
    /\ IF flag[Home[t]]
         THEN Reload(Home[t]) /\ at' = Orphaned(Home[t])
         ELSE /\ UNCHANGED <<mem, flag, unsaved, missed>>
              /\ at' = [at EXCEPT ![t] = "gap"]
    /\ UNCHANGED <<file, stage, owner, session, change, writes, crossed>>

Registered == {c \in Copies : stage[c] = "ready"}

\* Mutant: a copy that writes announces it to nobody.
AnnounceNothing(c) == flag' = [flag EXCEPT ![c] = FALSE]

\* set_all_update_flags, and down again with one's own
Announce(c) == flag' = [d \in Copies |-> IF d = c THEN FALSE ELSE flag[d] \/ d \in Registered]

\* History: every other session has now been crossed, and this copy is saved.
Crosses(c) ==
    /\ crossed' = [d \in Copies |-> crossed[d] \/ (d # c /\ d \in session)]
    /\ unsaved' = [unsaved EXCEPT ![c] = Untouched]
    /\ missed' = [missed EXCEPT ![c] = FALSE]

\* Second block: atomic_write swaps the whole file.
Save(t) ==
    /\ at[t] = "gap"
    /\ file' = mem[Home[t]]
    /\ Announce(Home[t])
    /\ Crosses(Home[t])
    /\ at' = [at EXCEPT ![t] = "idle"]
    /\ UNCHANGED <<mem, stage, owner, session, change, writes>>

\* An exception on the way to os.replace: False is returned, and ignored.
SaveFails(t) ==
    /\ "save" \in Faults
    /\ at[t] = "gap"
    /\ at' = [at EXCEPT ![t] = "idle"]
    /\ UNCHANGED <<file, sync, owner, session, change, writes, ghost>>

\* drop: the file is removed and the copy starts empty.  Only a clear does it,
\* which owns the pipeline and has no other coroutine at work.
Drop(t) ==
    /\ owner = Home[t] /\ Working(Home[t]) = {}
    /\ file' = {}
    /\ mem' = [mem EXCEPT ![Home[t]] = {}]
    /\ Announce(Home[t])
    /\ Crosses(Home[t])
    /\ UNCHANGED <<stage, owner, session, at, change, writes>>

FileNext ==
    \/ \E c \in Copies : Build(c) \/ Register(c) \/ Begin(c) \/ BeginEdit(c) \/ End(c) \/ Read(c)
    \/ \E t \in Writers : Apply(t) \/ CommitCheck(t) \/ Save(t) \/ SaveFails(t) \/ Drop(t)
    \/ \E t \in Writers, i \in Items : Upsert(t, i) \/ Delete(t, i)

FileSpec == FileInit /\ [][FileNext]_fileVars
-----------------------------------------------------------------------------
OnePerId(records) == \A r, s \in records : r.id = s.id => r = s

\* The types of the variables of a file-backed store; a copy and the file hold
\* one record per id.
FileTypeOK ==
    /\ file \subseteq Record /\ OnePerId(file)
    /\ mem \in [Copies -> SUBSET Record] /\ \A c \in Copies : OnePerId(mem[c])
    /\ stage \in [Copies -> {"none", "built", "ready"}]
    /\ flag \in [Copies -> BOOLEAN]
    /\ owner \in Copies \cup {None}
    /\ session \subseteq Copies
    /\ at \in [Writers -> {"idle", "hold", "orphan", "gap"}]
    /\ change \in [Writers -> Change \cup {None}]
    /\ writes \in 0..MaxWrites
    /\ unsaved \in [Copies -> [Items -> Versions \cup {Gone, None}]]
    /\ crossed \in [Copies -> BOOLEAN]
    /\ missed \in [Copies -> BOOLEAN]

\* Eventual consistency (the docstrings' second invariant): a copy whose flag
\* is down and that has changed nothing itself shows what is on disk, so that
\* a reader sees a save as soon as it looks.  The exception is a copy that was
\* built before a save and registered after it.
Fresh ==
    \A c \in Registered :
        ~flag[c] /\ unsaved[c] = Untouched /\ ~missed[c] => mem[c] = file

\* What holds of the copies in every state: their types, one record per id, and
\* that the flag tells a copy that is behind.
StoreInv == FileTypeOK /\ Fresh

\* What the next look at a copy would see.
View(c) == IF flag[c] THEN file ELSE mem[c]

\* No change of a job is lost on its way to the disk: until it is saved, the
\* next look sees exactly the last version of every item the job changed.  An
\* interleaved reload, a replaced object or a stale base would break it.  The
\* exception is a job beside which another copy was saved.
ChangesKept ==
    \A c \in session : ~crossed[c] =>
        \A i \in Items : unsaved[c][i] # None =>
            {r.ver : r \in {x \in View(c) : x.id = i}} = {unsaved[c][i]} \ {Gone}

\* A save undoes nobody else's work: a record leaves the file only when the
\* copy that saves has changed that item itself.  The same two exceptions.
NothingOverwritten ==
    [][\A t \in Writers :
        LET c == Home[t]
        IN  at[t] = "gap" /\ at'[t] = "idle" /\ ~crossed[c] /\ ~missed[c] =>
                \A r \in file \ file' : unsaved[c][r.id] # None]_fileVars
=============================================================================
