---------------------------- MODULE InstancePool ----------------------------
(***************************************************************************)
(* madRAGPool (api/pool.py): one madRAG instance per workspace, shared by  *)
(* the requests that use the workspace, made on demand, evicted when the   *)
(* pool is full or by a periodic sweep, closed at shutdown.                *)
(*                                                                         *)
(* Everything runs on one event loop, so a step reaches from one await to  *)
(* the next.  The pool's lock is held over an await only by a request that *)
(* makes an instance; every other section is over before the loop turns.   *)
(***************************************************************************)
EXTENDS Naturals, FiniteSets, Sequences, SequencesExt

CONSTANTS
    Tasks,        \* requests and background tasks that use the pool
    Workspaces,
    Default,      \* the workspace of initialize
    MaxSize, MinSize,
    MaxRequests,  \* bound on the uses of the pool in one behaviour
    Null          \* nobody, no workspace

ASSUME PoolAssumption ==
    /\ IsFiniteSet(Workspaces) /\ Default \in Workspaces
    /\ MinSize \in Nat /\ MaxSize \in Nat /\ MinSize < MaxSize
    /\ MaxRequests \in Nat
    /\ IsFiniteSet(Tasks) /\ Null \notin Tasks \cup Workspaces

\* Instances: at most one registered per workspace and one in use per task.
Objects == 1..(Cardinality(Tasks) + Cardinality(Workspaces) + 1)
None == 0

VARIABLES
    instances,   \* _instances: the object registered for a workspace
    refCount,    \* ref_count of every object
    recent,      \* registered workspaces by last_used_at, oldest first
    idle,        \* how many of them were last used longer ago than idle_timeout
    lock,        \* who holds the pool's lock over an await
    pc, ws, using,   \* per task: where it is, what it asks for, what it got
    sweep,       \* to_evict of the cleanup sweep, as far as it is not done
    phase, todo, \* shutdown, and the workspaces it still has to finalize
    requests

pool  == <<instances, refCount, recent, idle, lock>>
tasks == <<pc, ws, using, requests>>
admin == <<sweep, phase, todo>>
vars  == <<pool, tasks, admin>>

Init ==
    /\ instances = [w \in Workspaces |-> IF w = Default THEN 1 ELSE None]
    /\ refCount  = [o \in Objects |-> 0]
    /\ recent    = <<Default>>
    /\ idle      = 0
    /\ lock      = Null
    /\ pc = [t \in Tasks |-> "out"]
    /\ ws = [t \in Tasks |-> Null]
    /\ using = [t \in Tasks |-> None]
    /\ sweep = {}
    /\ phase = "up"
    /\ todo  = {}
    /\ requests = 0

Registered == {w \in Workspaces : instances[w] # None}
InUse(w) == refCount[instances[w]] > 0
NewObject == CHOOSE o \in Objects : refCount[o] = 0 /\ \A w \in Workspaces : instances[w] # o
Position(w) == CHOOSE n \in DOMAIN recent : recent[n] = w

\* instance.touch(), and an entry that leaves or joins the registry.
Dropped(w) ==
    /\ recent' = RemoveAt(recent, Position(w))
    /\ idle' = IF Position(w) <= idle THEN idle - 1 ELSE idle
Touched(w) ==
    /\ recent' = Append(RemoveAt(recent, Position(w)), w)
    /\ idle' = IF Position(w) <= idle THEN idle - 1 ELSE idle
Joined(w) ==
    /\ recent' = Append(recent, w)
    /\ UNCHANGED idle

-----------------------------------------------------------------------------
(* acquire                                                                 *)

Request(t) ==
    /\ pc[t] = "out"
    /\ requests < MaxRequests
    /\ \E w \in Workspaces : ws' = [ws EXCEPT ![t] = w]
    /\ pc' = [pc EXCEPT ![t] = "asks"]
    /\ requests' = requests + 1
    /\ UNCHANGED <<pool, using, admin>>

Leaves(t) ==
    /\ pc' = [pc EXCEPT ![t] = "out"]
    /\ ws' = [ws EXCEPT ![t] = Null]

Asks(t) == pc[t] = "asks" /\ lock = Null

\* The workspace has an instance; between looking it up and counting the
\* reference there is no await.
Reuse(t) ==
    /\ Asks(t)
    /\ ws[t] \in Registered
    /\ using' = [using EXCEPT ![t] = instances[ws[t]]]
    /\ refCount' = [refCount EXCEPT ![instances[ws[t]]] = @ + 1]
    /\ Touched(ws[t])
    /\ pc' = [pc EXCEPT ![t] = "in"]
    /\ UNCHANGED <<instances, lock, ws, requests, admin>>

\* Mutant: the pool makes room one instance too late.
MakeBeginLate(t) ==
    /\ Asks(t)
    /\ ws[t] \notin Registered
    /\ Cardinality(Registered) <= MaxSize
    /\ lock' = t
    /\ pc' = [pc EXCEPT ![t] = "makes"]
    /\ UNCHANGED <<instances, refCount, recent, idle, ws, using, requests, admin>>

MakeBegin(t) ==
    /\ Asks(t)
    /\ ws[t] \notin Registered
    /\ Cardinality(Registered) < MaxSize
    /\ lock' = t
    /\ pc' = [pc EXCEPT ![t] = "makes"]
    /\ UNCHANGED <<instances, refCount, recent, idle, ws, using, requests, admin>>

\* _evict_lru_locked: the least recently used idle instance makes room; it is
\* finalized by a task of its own, without the lock.
EvictLRU(t) ==
    /\ Asks(t)
    /\ ws[t] \notin Registered
    /\ Cardinality(Registered) >= MaxSize
    /\ \E n \in DOMAIN recent :
         /\ ~InUse(recent[n])
         /\ \A m \in 1..(n-1) : InUse(recent[m])
         /\ instances' = [instances EXCEPT ![recent[n]] = None]
         /\ Dropped(recent[n])
    /\ lock' = t
    /\ pc' = [pc EXCEPT ![t] = "makes"]
    /\ UNCHANGED <<refCount, ws, using, requests, admin>>

\* RuntimeError("madRAGPool exhausted ...")
Exhausted(t) ==
    /\ Asks(t)
    /\ ws[t] \notin Registered
    /\ Cardinality(Registered) >= MaxSize
    /\ \A w \in Registered : InUse(w)
    /\ Leaves(t)
    /\ UNCHANGED <<pool, using, requests, admin>>

\* The factory returns: registered, counted, and the lock is free.
MakeDone(t) ==
    /\ pc[t] = "makes"
    /\ instances' = [instances EXCEPT ![ws[t]] = NewObject]
    /\ refCount'  = [refCount EXCEPT ![NewObject] = 1]
    /\ Joined(ws[t])
    /\ using' = [using EXCEPT ![t] = NewObject]
    /\ lock' = Null
    /\ pc' = [pc EXCEPT ![t] = "in"]
    /\ UNCHANGED <<ws, requests, admin>>

\* Mutant: only a factory that returns gives the lock back.
MakeFailsKeepsLock(t) ==
    /\ pc[t] = "makes"
    /\ Leaves(t)
    /\ UNCHANGED <<instances, refCount, recent, idle, lock, using, requests, admin>>

\* The factory raises, or the request is cancelled in it; a victim is gone.
MakeFails(t) ==
    /\ pc[t] = "makes"
    /\ lock' = Null
    /\ Leaves(t)
    /\ UNCHANGED <<instances, refCount, recent, idle, using, requests, admin>>

\* The body of the context ends, normally or not.
Release(t) ==
    /\ pc[t] = "in"
    /\ refCount' = [refCount EXCEPT ![using[t]] = @ - 1]
    /\ IF instances[ws[t]] = using[t] THEN Touched(ws[t]) ELSE UNCHANGED <<recent, idle>>
    /\ using' = [using EXCEPT ![t] = None]
    /\ Leaves(t)
    /\ UNCHANGED <<instances, lock, requests, admin>>

-----------------------------------------------------------------------------
(* Time, the sweep, shutdown.                                              *)

\* idle_timeout elapses since the last use of the next oldest instance.
Age ==
    /\ idle < Len(recent)
    /\ idle' = idle + 1
    /\ UNCHANGED <<instances, refCount, recent, lock, tasks, admin>>

\* _cleanup_stale, first section: the candidates.
SweepSelect ==
    /\ phase = "up" /\ sweep = {} /\ lock = Null
    /\ Cardinality(Registered) > MinSize
    /\ sweep' = {recent[n] : n \in {m \in 1..idle : ~InUse(recent[m])}}
    /\ UNCHANGED <<pool, tasks, phase, todo>>

\* Second section, for a candidate that has been re-acquired or has left.
SweepSkip(w) ==
    /\ w \in sweep /\ lock = Null
    /\ w \in Registered => InUse(w)
    /\ sweep' = sweep \ {w}
    /\ UNCHANGED <<pool, tasks, phase, todo>>

SweepStop(w) ==
    /\ w \in sweep /\ lock = Null
    /\ w \in Registered /\ ~InUse(w)
    /\ Cardinality(Registered) <= MinSize
    /\ sweep' = {}
    /\ UNCHANGED <<pool, tasks, phase, todo>>

\* Mutant: the second section trusts the first on the number of instances.
SweepEvictNoFloor(w) ==
    /\ w \in sweep /\ lock = Null
    /\ w \in Registered /\ ~InUse(w)
    /\ instances' = [instances EXCEPT ![w] = None]
    /\ Dropped(w)
    /\ sweep' = sweep \ {w}
    /\ UNCHANGED <<refCount, lock, tasks, phase, todo>>

\* Mutant: the second section trusts the first on the references.
SweepEvictBlind(w) ==
    /\ w \in sweep /\ lock = Null
    /\ w \in Registered
    /\ Cardinality(Registered) > MinSize
    /\ instances' = [instances EXCEPT ![w] = None]
    /\ Dropped(w)
    /\ sweep' = sweep \ {w}
    /\ UNCHANGED <<refCount, lock, tasks, phase, todo>>

SweepEvict(w) ==
    /\ w \in sweep /\ lock = Null
    /\ w \in Registered /\ ~InUse(w)
    /\ Cardinality(Registered) > MinSize
    /\ instances' = [instances EXCEPT ![w] = None]
    /\ Dropped(w)
    /\ sweep' = sweep \ {w}
    /\ UNCHANGED <<refCount, lock, tasks, phase, todo>>

\* shutdown: the sweep is cancelled at its await, then the names are listed.
ShutdownBegin ==
    /\ phase = "up"
    /\ phase' = "cancelled"
    /\ sweep' = {}
    /\ UNCHANGED <<pool, tasks, todo>>

ShutdownList ==
    /\ phase = "cancelled" /\ lock = Null
    /\ phase' = "down"
    /\ todo' = Registered
    /\ UNCHANGED <<pool, tasks, sweep>>

\* _finalize_instance, whether or not somebody uses the instance.
ShutdownOne(w) ==
    /\ w \in todo /\ lock = Null
    /\ todo' = todo \ {w}
    /\ IF w \in Registered
         THEN /\ instances' = [instances EXCEPT ![w] = None]
              /\ Dropped(w)
         ELSE UNCHANGED <<instances, recent, idle>>
    /\ UNCHANGED <<refCount, lock, tasks, sweep, phase>>

Enter(t) == Reuse(t) \/ MakeBegin(t) \/ EvictLRU(t) \/ Exhausted(t)

Next ==
    \/ \E t \in Tasks :
         \/ Request(t) \/ Enter(t) \/ MakeDone(t) \/ MakeFails(t) \/ Release(t)
    \/ Age \/ SweepSelect
    \/ \E w \in Workspaces : SweepSkip(w) \/ SweepStop(w) \/ SweepEvict(w)
    \/ ShutdownBegin \/ ShutdownList
    \/ \E w \in Workspaces : ShutdownOne(w)

Spec == Init /\ [][Next]_vars

\* asyncio.Lock serves its waiters in order, though the lock is taken and given
\* back meanwhile; a factory returns or raises, and a body ends.
FairSpec ==
    /\ Spec
    /\ \A t \in Tasks :
         SF_vars(Enter(t)) /\ WF_vars(MakeDone(t) \/ MakeFails(t) \/ Release(t))

-----------------------------------------------------------------------------
(* Properties.                                                             *)

\* Types; no reference count goes negative and no more instances are idle than
\* there are registered.
TypeOK ==
    /\ instances \in [Workspaces -> Objects \cup {None}]
    /\ refCount \in [Objects -> Nat]
    /\ recent \in Seq(Workspaces) /\ idle \in 0..Len(recent)
    /\ lock \in Tasks \cup {Null}
    /\ pc \in [Tasks -> {"out", "asks", "makes", "in"}]
    /\ ws \in [Tasks -> Workspaces \cup {Null}]
    /\ using \in [Tasks -> Objects \cup {None}]
    /\ sweep \subseteq Workspaces
    /\ phase \in {"up", "cancelled", "down"}
    /\ todo \subseteq Workspaces
    /\ requests \in 0..MaxRequests

\* An instance somebody uses stays the registered one of its workspace
\* until the pool is shut down: neither the eviction for room nor the sweep,
\* whose candidates were chosen earlier, takes it away, and no second instance
\* serves the workspace beside it.
InUseKept ==
    phase # "down" =>
        \A t \in Tasks : pc[t] = "in" => instances[ws[t]] = using[t]

\* ref_count is the number of users of the object, after evictions, failed
\* creations and shutdown too.
RefsExact ==
    \A o \in Objects : refCount[o] = Cardinality({t \in Tasks : using[t] = o})

\* The pool never registers more than max_size instances, counting the one in
\* the making.
AtMostMax ==
    Cardinality(Registered) + (IF lock = Null THEN 0 ELSE 1) <= MaxSize

\* The invariant of the pool: reference counts are the users, and the registered
\* instances, with the one in the making, fit.
PoolInv == TypeOK /\ RefsExact /\ AtMostMax

\* Until shutdown, sweeps, evictions and failed creations never take the pool
\* below min_size once it is there, though the sweep selects all its candidates
\* against one reading of the size.
MinKept ==
    [][phase # "down" /\ Cardinality(Registered) >= MinSize
         => Cardinality(Registered') >= MinSize]_vars

\* A request gets an instance or an error, and leaves: no error path keeps the
\* lock, whatever the sweep and the shutdown do.
Served == \A t \in Tasks : pc[t] # "out" ~> pc[t] = "out"

=============================================================================
