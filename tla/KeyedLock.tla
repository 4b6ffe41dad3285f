------------------------------ MODULE KeyedLock ------------------------------
(***************************************************************************)
(* The keyed locks of kg/shared_storage.py, on which every namespace lock, *)
(* the pipeline_status lock and the entity and relation locks are built.   *)
(*                                                                         *)
(* A context locks its sorted keys one after the other.  Each key has an   *)
(* asyncio.Lock per process and one manager lock shared by the processes;  *)
(* both come from registries that count references and forget a lock that  *)
(* nobody refers to.  The manager lock is taken by a synchronous call: the *)
(* event loop of the process stands still until it is granted.             *)
(*                                                                         *)
(* With one process the second layer is never contended, and what remains  *)
(* is the single-process mode of the code.                                 *)
(***************************************************************************)
EXTENDS Naturals, FiniteSets, Sequences, SequencesExt

CONSTANTS
    Procs,
    Tasks,        \* coroutines that enter and leave a lock context
    ProcOf,
    Keys,
    Wants,        \* the keys each coroutine asks for, in its own order, none twice
    MaxRequests,  \* bound on the contexts entered in one behaviour
    Threshold,    \* CLEANUP_THRESHOLD
    Nobody

ASSUME LockAssumption ==
    /\ IsFiniteSet(Tasks)
    /\ ProcOf \in [Tasks -> Procs]
    /\ Keys \subseteq Nat /\ Wants \in [Tasks -> Seq(Keys)]
    /\ \A t \in Tasks : IsInjective(Wants[t])
    /\ MaxRequests \in Nat /\ Threshold \in Nat
    /\ Nobody \notin Tasks

\* Lock objects of one key; a forgotten object may be referred to for a while.
Ids == 1..(Cardinality(Tasks) + 1)
Absent == 0

VARIABLES
    alock,    \* _async_lock: the object registered for a key, per process
    acount,   \* _async_lock_count
    aclean,   \* _async_lock_cleanup_data
    aowner,   \* who holds each asyncio.Lock object
    mlock, mcount, mclean, mowner,   \* the same for the manager's registry
    pc,
    ul,       \* the entries of the context: key, objects, entered
    blocked,  \* the coroutine whose synchronous acquire holds up its process
    requests

local  == <<alock, acount, aclean, aowner>>
shared == <<mlock, mcount, mclean, mowner>>
vars   == <<local, shared, pc, ul, blocked, requests>>

Init ==
    /\ alock  = [p \in Procs |-> [k \in Keys |-> Absent]]
    /\ acount = [p \in Procs |-> [k \in Keys |-> 0]]
    /\ aclean = [p \in Procs |-> {}]
    /\ aowner = [p \in Procs |-> [k \in Keys |-> [i \in Ids |-> Nobody]]]
    /\ mlock  = [k \in Keys |-> Absent]
    /\ mcount = [k \in Keys |-> 0]
    /\ mclean = {}
    /\ mowner = [k \in Keys |-> [i \in Ids |-> Nobody]]
    /\ pc = [t \in Tasks |-> "out"]
    /\ ul = [t \in Tasks |-> <<>>]
    /\ blocked  = [p \in Procs |-> Nobody]
    /\ requests = 0

\* A coroutine runs only while its event loop does.
Runs(t, label) == pc[t] = label /\ blocked[ProcOf[t]] = Nobody

Goto(t, label) == pc' = [pc EXCEPT ![t] = label]

Entries(t) == Range(ul[t])
Missing(t) == Range(Wants[t]) \ {e.key : e \in Entries(t)}

\* Mutant: the keys are locked in the caller's order.
NextAsGiven(t, k) == k \in Missing(t) /\ k = Wants[t][Len(ul[t]) + 1]

\* self._keys = sorted(keys): the smallest key that is missing comes next.
NextKey(t, k) == k \in Missing(t) /\ \A j \in Missing(t) : k <= j

\* Objects of a key somebody still refers to; a new object is none of them.
AsyncInUse(p, k) == {e.a : e \in UNION {{x \in Entries(t) : x.key = k} :
                                          t \in {u \in Tasks : ProcOf[u] = p}}}
SharedInUse(k)   == {e.m : e \in UNION {{x \in Entries(t) : x.key = k} : t \in Tasks}}
NewObject(inUse) == CHOOSE i \in Ids : i \notin inUse

-----------------------------------------------------------------------------
(* Entering.                                                               *)

Request(t) ==
    /\ Runs(t, "out")
    /\ requests < MaxRequests
    /\ requests' = requests + 1
    /\ Goto(t, IF Missing(t) = {} THEN "held" ELSE "get")
    /\ UNCHANGED <<local, shared, ul, blocked>>

\* Mutant: a key that is used again stays on the cleanup lists.
GetLockStillExpiring(t) == \E k \in Keys :
    LET p == ProcOf[t]
        a == IF alock[p][k] = Absent THEN NewObject(AsyncInUse(p, k)) ELSE alock[p][k]
        m == IF mlock[k] = Absent THEN NewObject(SharedInUse(k)) ELSE mlock[k]
    IN
    /\ Runs(t, "get")
    /\ NextKey(t, k)
    /\ alock'  = [alock EXCEPT ![p][k] = a]
    /\ acount' = [acount EXCEPT ![p][k] = @ + 1]
    /\ mlock'  = [mlock EXCEPT ![k] = m]
    /\ mcount' = [mcount EXCEPT ![k] = IF mlock[k] = Absent THEN 1 ELSE @ + 1]
    /\ ul' = [ul EXCEPT ![t] = Append(@, [key |-> k, a |-> a, m |-> m, entered |-> FALSE])]
    /\ Goto(t, "wait")
    /\ UNCHANGED <<aclean, mclean, aowner, mowner, blocked, requests>>

\* _get_lock_for_key: a reference to the async lock, then one to the shared
\* lock; a key that waits for cleanup is taken off that list.
GetLock(t) == \E k \in Keys :
    LET p == ProcOf[t]
        a == IF alock[p][k] = Absent THEN NewObject(AsyncInUse(p, k)) ELSE alock[p][k]
        m == IF mlock[k] = Absent THEN NewObject(SharedInUse(k)) ELSE mlock[k]
    IN
    /\ Runs(t, "get")
    /\ NextKey(t, k)
    /\ alock'  = [alock EXCEPT ![p][k] = a]
    /\ acount' = [acount EXCEPT ![p][k] = @ + 1]
    /\ aclean' = [aclean EXCEPT ![p] = IF acount[p][k] = 0 THEN @ \ {k} ELSE @]
    /\ mlock'  = [mlock EXCEPT ![k] = m]
    /\ mcount' = [mcount EXCEPT ![k] = IF mlock[k] = Absent THEN 1 ELSE @ + 1]
    /\ mclean' = IF mlock[k] # Absent /\ mcount[k] = 0 THEN mclean \ {k} ELSE mclean
    /\ ul' = [ul EXCEPT ![t] = Append(@, [key |-> k, a |-> a, m |-> m, entered |-> FALSE])]
    /\ Goto(t, "wait")
    /\ UNCHANGED <<aowner, mowner, blocked, requests>>

\* The await of the asyncio.Lock ends; the manager lock is asked for at once,
\* without giving the loop back.
AcquireAsync(t) ==
    LET e == Last(ul[t]) IN
    /\ Runs(t, "wait")
    /\ aowner[ProcOf[t]][e.key][e.a] = Nobody
    /\ aowner'  = [aowner EXCEPT ![ProcOf[t]][e.key][e.a] = t]
    /\ blocked' = [blocked EXCEPT ![ProcOf[t]] = t]
    /\ Goto(t, "acquire")
    /\ UNCHANGED <<alock, acount, aclean, shared, ul, requests>>

AcquireShared(t) ==
    LET e == Last(ul[t]) IN
    /\ pc[t] = "acquire"
    /\ mowner[e.key][e.m] = Nobody
    /\ mowner'  = [mowner EXCEPT ![e.key][e.m] = t]
    /\ blocked' = [blocked EXCEPT ![ProcOf[t]] = Nobody]
    /\ ul' = [ul EXCEPT ![t][Len(ul[t])].entered = TRUE]
    /\ Goto(t, IF Missing(t) = {} THEN "held" ELSE "get")
    /\ UNCHANGED <<local, mlock, mcount, mclean, requests>>

\* The coroutine is cancelled while it awaits the asyncio.Lock; what it has so
\* far is rolled back.
CancelWait(t) ==
    /\ Runs(t, "wait")
    /\ Goto(t, "unwind")
    /\ UNCHANGED <<local, shared, ul, blocked, requests>>

-----------------------------------------------------------------------------
(* Leaving, or rolling back: both walk the entries in reverse order.       *)

Leave(t) ==
    /\ Runs(t, "held")
    /\ Goto(t, "unwind")
    /\ UNCHANGED <<local, shared, ul, blocked, requests>>

\* UnifiedLock.__aexit__: the manager lock first, then the async lock.
ReleaseLock(t) ==
    LET e == Last(ul[t]) IN
    /\ Runs(t, "unwind") /\ ul[t] # <<>>
    /\ e.entered
    /\ mowner' = [mowner EXCEPT ![e.key][e.m] = Nobody]
    /\ aowner' = [aowner EXCEPT ![ProcOf[t]][e.key][e.a] = Nobody]
    /\ ul' = [ul EXCEPT ![t][Len(ul[t])].entered = FALSE]
    /\ UNCHANGED <<alock, acount, aclean, mlock, mcount, mclean, pc, blocked, requests>>

\* What _perform_lock_cleanup may drop: the entries that are old enough, and
\* none of them when there are too few.  A key just released is not old.
Expirable(cleanup, fresh) ==
    IF Cardinality(cleanup) < Threshold THEN {{}} ELSE SUBSET (cleanup \ fresh)

Forget(lock, gone)  == [k \in Keys |-> IF k \in gone THEN Absent ELSE lock[k]]
Uncount(count, gone) == [k \in Keys |-> IF k \in gone THEN 0 ELSE count[k]]

\* _release_lock_for_key: both counts go down, and both registries are cleaned.
ReleaseRef(t) ==
    LET p  == ProcOf[t]
        k  == Last(ul[t]).key
        ac == IF acount[p][k] = 1 THEN aclean[p] \cup {k} ELSE aclean[p]
        mc == IF mcount[k] = 1 THEN mclean \cup {k} ELSE mclean
    IN
    /\ Runs(t, "unwind") /\ ul[t] # <<>>
    /\ ~Last(ul[t]).entered
    /\ \E gone \in Expirable(ac, {k}) :
          /\ alock'  = [alock EXCEPT ![p] = Forget(@, gone)]
          /\ acount' = [acount EXCEPT ![p] = Uncount([acount[p] EXCEPT ![k] = @ - 1], gone)]
          /\ aclean' = [aclean EXCEPT ![p] = ac \ gone]
    /\ \E gone \in Expirable(mc, {k}) :
          /\ mlock'  = Forget(mlock, gone)
          /\ mcount' = Uncount([mcount EXCEPT ![k] = @ - 1], gone)
          /\ mclean' = mc \ gone
    /\ ul' = [ul EXCEPT ![t] = Front(@)]
    /\ UNCHANGED <<aowner, mowner, pc, blocked, requests>>

Out(t) ==
    /\ Runs(t, "unwind") /\ ul[t] = <<>>
    /\ Goto(t, "out")
    /\ UNCHANGED <<local, shared, ul, blocked, requests>>

\* cleanup_expired_locks: the same pruning on demand, without the threshold.
CleanupExpired(p) ==
    /\ blocked[p] = Nobody
    /\ \E gone \in SUBSET mclean :
          /\ mlock'  = Forget(mlock, gone)
          /\ mcount' = Uncount(mcount, gone)
          /\ mclean' = mclean \ gone
    /\ \E gone \in SUBSET aclean[p] :
          /\ alock'  = [alock EXCEPT ![p] = Forget(@, gone)]
          /\ acount' = [acount EXCEPT ![p] = Uncount(@, gone)]
          /\ aclean' = [aclean EXCEPT ![p] = @ \ gone]
    /\ UNCHANGED <<aowner, mowner, pc, ul, blocked, requests>>

Step(t) ==
    \/ GetLock(t) \/ AcquireAsync(t) \/ AcquireShared(t) \/ Leave(t)
    \/ ReleaseLock(t) \/ ReleaseRef(t) \/ Out(t)

Next ==
    \/ \E t \in Tasks : Request(t) \/ Step(t) \/ CancelWait(t)
    \/ \E p \in Procs : CleanupExpired(p)

Spec == Init /\ [][Next]_vars

\* A granted await resumes, a holder finishes its section and leaves it; nobody
\* owes a request, a cancellation or a cleanup.
FairSpec == Spec /\ \A t \in Tasks : WF_vars(Step(t))

-----------------------------------------------------------------------------
(* Properties.                                                             *)

\* Types; no reference count goes negative, and every entry of a context has
\* objects of both layers.
TypeOK ==
    /\ alock  \in [Procs -> [Keys -> Ids \cup {Absent}]]
    /\ acount \in [Procs -> [Keys -> Nat]]
    /\ aclean \in [Procs -> SUBSET Keys]
    /\ aowner \in [Procs -> [Keys -> [Ids -> Tasks \cup {Nobody}]]]
    /\ mlock  \in [Keys -> Ids \cup {Absent}]
    /\ mcount \in [Keys -> Nat]
    /\ mclean \subseteq Keys
    /\ mowner \in [Keys -> [Ids -> Tasks \cup {Nobody}]]
    /\ pc \in [Tasks -> {"out", "get", "wait", "acquire", "held", "unwind"}]
    /\ ul \in [Tasks -> Seq([key: Keys, a: Ids, m: Ids, entered: BOOLEAN])]
    /\ blocked  \in [Procs -> Tasks \cup {Nobody}]
    /\ requests \in 0..MaxRequests

Entered(t) == {e.key : e \in {x \in Entries(t) : x.entered}}

\* No key is held by two coroutines, of one process or of two, whatever has
\* been pruned and re-created meanwhile.
MutualExclusion ==
    \A t, u \in Tasks : t # u => Entered(t) \cap Entered(u) = {}

\* A lock object somebody waits for or holds is the one the registries hand out
\* next, in the process and across processes; cleanup never forgets it.
UsedIsRegistered ==
    \A t \in Tasks : \A e \in Entries(t) :
        /\ alock[ProcOf[t]][e.key] = e.a
        /\ mlock[e.key] = e.m

\* The reference counts are the references, also when a wait is cancelled
\* half-way through the keys; a registered lock nobody uses awaits cleanup.
CountsExact ==
    \A k \in Keys :
        /\ mcount[k] = Cardinality({t \in Tasks : \E e \in Entries(t) : e.key = k})
        /\ mcount[k] = 0 <=> (mlock[k] = Absent \/ k \in mclean)
        /\ \A p \in Procs :
             /\ acount[p][k] = Cardinality({t \in Tasks :
                                  ProcOf[t] = p /\ \E e \in Entries(t) : e.key = k})
             /\ acount[p][k] = 0 <=> (alock[p][k] = Absent \/ k \in aclean[p])

\* What a coroutine waits for, if anything, is there.
CanStep(t) ==
    \/ Runs(t, "get") /\ \E k \in Keys : NextKey(t, k)
    \/ Runs(t, "wait") /\ aowner[ProcOf[t]][Last(ul[t]).key][Last(ul[t]).a] = Nobody
    \/ pc[t] = "acquire" /\ mowner[Last(ul[t]).key][Last(ul[t]).m] = Nobody
    \/ Runs(t, "held") \/ Runs(t, "unwind")

\* It holds up its event loop for a lock that is held in another process.
HeldUp(t) ==
    /\ pc[t] = "acquire"
    /\ \E u \in Tasks : /\ ProcOf[u] # ProcOf[t]
                        /\ mowner[Last(ul[t]).key][Last(ul[t]).m] = u

\* Coroutines never wait for each other in a circle ("the sorting is critical
\* ... to avoid deadlocks"): as long as one is in a context, one can go on, or
\* a process stands still for another one, where sorting is no help.
NeverStuck == (\E t \in Tasks : pc[t] # "out") => \E t \in Tasks : CanStep(t) \/ HeldUp(t)

\* Exclusion, and the invariant of the registries: what is counted, registered
\* and due for cleanup agrees with the references the contexts hold, whichever
\* of them were cancelled and whatever was pruned; and no circle of waits.
LockInv == TypeOK /\ MutualExclusion /\ UsedIsRegistered /\ CountsExact /\ NeverStuck

\* Whoever asks for a set of keys is out of the context again in the end.
Served == \A t \in Tasks : pc[t] # "out" ~> pc[t] = "out"

=============================================================================
