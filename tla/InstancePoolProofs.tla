------------------------- MODULE InstancePoolProofs -------------------------
(* Theorems about InstancePool for any number of requests, workspaces and   *)
(* instances.                                                               *)
EXTENDS InstancePool, FiniteSetTheorems, SequenceTheorems, TLAPS

-----------------------------------------------------------------------------
(* The inductive invariant.                                                 *)

\* The workspaces by last use are the registered ones, each once.
Ordered ==
    /\ \A n \in 1..Len(recent) : recent[n] \in Registered
    /\ \A w \in Registered : \E n \in 1..Len(recent) : recent[n] = w
    /\ \A m, n \in 1..Len(recent) : recent[m] = recent[n] => m = n

\* Who is in the pool uses an object, who makes one holds the lock and makes it
\* for a workspace that has none; shutdown has nothing to do before it begins.
TasksOK ==
    /\ \A t \in Tasks : pc[t] # "out" => ws[t] \in Workspaces
    /\ \A t \in Tasks : using[t] # None <=> pc[t] = "in"
    /\ \A t \in Tasks : pc[t] = "makes" <=> lock = t
    /\ \A t \in Tasks : pc[t] = "makes" => ws[t] \notin Registered
    /\ phase # "down" => todo = {}

IInv == PoolInv /\ InUseKept /\ Ordered /\ TasksOK

-----------------------------------------------------------------------------
(* Counting.                                                                *)

Users(o) == {t \in Tasks : using[t] = o}

\* The sets that are counted are finite.
LEMMA Finite ==
    /\ IsFiniteSet(Registered) /\ Cardinality(Registered) \in Nat
    /\ \A o : IsFiniteSet(Users(o)) /\ Cardinality(Users(o)) \in Nat
<1>1. IsFiniteSet(Registered)
  BY PoolAssumption, FS_Subset DEF Registered
<1>2. \A o : IsFiniteSet(Users(o))
  BY PoolAssumption, FS_Subset DEF Users
<1> QED BY <1>1, <1>2, FS_CardinalityType

\* The number of objects is a number.
LEMMA ObjectCount ==
    /\ Cardinality(Tasks) + Cardinality(Workspaces) + 1 \in Nat
    /\ None \notin Objects /\ 1 \in Objects /\ Objects \subseteq Nat
<1>1. Cardinality(Tasks) \in Nat /\ Cardinality(Workspaces) \in Nat
  BY PoolAssumption, FS_CardinalityType
<1> QED BY <1>1 DEF Objects, None

\* An object has no references exactly when nobody uses it.
LEMMA Unused ==
    ASSUME RefsExact, NEW o \in Objects
    PROVE  refCount[o] = 0 <=> \A t \in Tasks : using[t] # o
<1>1. refCount[o] = Cardinality(Users(o))
  BY DEF RefsExact, Users
<1>2. Cardinality(Users(o)) = 0 <=> Users(o) = {}
  BY Finite, FS_EmptySet
<1> QED BY <1>1, <1>2 DEF Users

\* There is always an object nobody uses and nobody has registered.
LEMMA NewObjectExists ==
    ASSUME IInv
    PROVE  /\ NewObject \in Objects
           /\ refCount[NewObject] = 0
           /\ \A w \in Workspaces : instances[w] # NewObject
<1> DEFINE T == {using[t] : t \in Tasks}
           W == {instances[w] : w \in Workspaces}
<1>1. IsFiniteSet(T) /\ Cardinality(T) <= Cardinality(Tasks)
  <2>1. using \in Surjection(Tasks, T)
    BY DEF Surjection, IInv, PoolInv, TypeOK
  <2> QED BY <2>1, FS_Surjection, PoolAssumption
<1>2. IsFiniteSet(W) /\ Cardinality(W) <= Cardinality(Workspaces)
  <2>1. instances \in Surjection(Workspaces, W)
    BY DEF Surjection, IInv, PoolInv, TypeOK
  <2> QED BY <2>1, FS_Surjection, PoolAssumption
<1> HIDE DEF T, W
<1>3. IsFiniteSet(T \cup W) /\ Cardinality(T \cup W) <= Cardinality(Tasks) + Cardinality(Workspaces)
  <2>1. Cardinality(T \cap W) \in Nat
    BY <1>1, FS_Subset, FS_CardinalityType
  <2>2. /\ Cardinality(T) \in Nat /\ Cardinality(W) \in Nat
        /\ Cardinality(Tasks) \in Nat /\ Cardinality(Workspaces) \in Nat
    BY <1>1, <1>2, FS_CardinalityType, PoolAssumption
  <2>3. /\ IsFiniteSet(T \cup W)
        /\ Cardinality(T \cup W) = Cardinality(T) + Cardinality(W) - Cardinality(T \cap W)
    BY <1>1, <1>2, FS_Union
  <2> QED BY <1>1, <1>2, <2>1, <2>2, <2>3
<1>4. \E o \in Objects : o \notin T \cup W
  <2> SUFFICES ASSUME Objects \subseteq T \cup W PROVE FALSE
    OBVIOUS
  <2>1. Cardinality(Objects) <= Cardinality(T \cup W)
    BY <1>3, FS_Subset
  <2>2. Cardinality(Tasks) \in Nat /\ Cardinality(Workspaces) \in Nat /\ Cardinality(T \cup W) \in Nat
    BY <1>3, PoolAssumption, FS_CardinalityType
  <2>3. Cardinality(Objects) = Cardinality(Tasks) + Cardinality(Workspaces) + 1
    BY <2>2, FS_Interval DEF Objects
  <2> QED BY <1>3, <2>1, <2>2, <2>3
<1>5. \E o \in Objects : refCount[o] = 0 /\ \A w \in Workspaces : instances[w] # o
  BY <1>4, Unused DEF T, W, IInv, PoolInv
<1> QED BY <1>5 DEF NewObject

\* A new user, and one that leaves.
LEMMA CountUser ==
    ASSUME TypeOK, RefsExact, NEW t \in Tasks, NEW o \in Objects
    PROVE  /\ using[t] = None /\ using' = [using EXCEPT ![t] = o]
              /\ refCount' = [refCount EXCEPT ![o] = @ + 1] => RefsExact'
           /\ using[t] = o /\ using' = [using EXCEPT ![t] = None]
              /\ refCount' = [refCount EXCEPT ![o] = @ - 1] => RefsExact' /\ refCount[o] > 0
<1>1. None \notin Objects
  BY ObjectCount
<1>2. \A p \in Objects : refCount[p] = Cardinality(Users(p)) /\ refCount[p] \in Nat
  BY DEF RefsExact, Users, TypeOK
<1>3. ASSUME using[t] = None, using' = [using EXCEPT ![t] = o],
             refCount' = [refCount EXCEPT ![o] = @ + 1]
      PROVE  RefsExact'
  <2>1. ASSUME NEW p \in Objects, p # o PROVE refCount'[p] = Cardinality({u \in Tasks : using'[u] = p})
    <3>1. {u \in Tasks : using'[u] = p} = Users(p)
      BY <1>1, <1>3, <2>1 DEF Users, TypeOK
    <3> QED BY <1>2, <1>3, <2>1, <3>1 DEF TypeOK
  <2>2. refCount'[o] = Cardinality({u \in Tasks : using'[u] = o})
    <3>1. {u \in Tasks : using'[u] = o} = Users(o) \cup {t} /\ t \notin Users(o)
      BY <1>1, <1>3 DEF Users, TypeOK
    <3>2. Cardinality(Users(o) \cup {t}) = Cardinality(Users(o)) + 1
      BY <3>1, Finite, FS_AddElement
    <3> QED BY <1>2, <1>3, <3>1, <3>2 DEF TypeOK
  <2> QED BY <2>1, <2>2 DEF RefsExact
<1>4. ASSUME using[t] = o, using' = [using EXCEPT ![t] = None],
             refCount' = [refCount EXCEPT ![o] = @ - 1]
      PROVE  RefsExact' /\ refCount[o] > 0
  <2>1. ASSUME NEW p \in Objects, p # o PROVE refCount'[p] = Cardinality({u \in Tasks : using'[u] = p})
    <3>1. {u \in Tasks : using'[u] = p} = Users(p)
      BY <1>1, <1>4, <2>1 DEF Users, TypeOK
    <3> QED BY <1>2, <1>4, <2>1, <3>1 DEF TypeOK
  <2>2. refCount'[o] = Cardinality({u \in Tasks : using'[u] = o})
    <3>1. {u \in Tasks : using'[u] = o} = Users(o) \ {t} /\ t \in Users(o)
      BY <1>1, <1>4 DEF Users, TypeOK
    <3>2. Cardinality(Users(o) \ {t}) = Cardinality(Users(o)) - 1
      BY <3>1, Finite, FS_RemoveElement
    <3> QED BY <1>2, <1>4, <3>1, <3>2 DEF TypeOK
  <2>3. refCount[o] # 0
    BY <1>4, Unused
  <2> QED BY <1>2, <2>1, <2>2, <2>3 DEF RefsExact
<1> QED BY <1>3, <1>4

-----------------------------------------------------------------------------
(* The order of use.                                                        *)

\* A sequence without one of its entries.
LEMMA RemovedAt ==
    ASSUME NEW S, NEW s \in Seq(S), NEW p \in 1..Len(s)
    PROVE  /\ RemoveAt(s, p) \in Seq(S)
           /\ Len(RemoveAt(s, p)) = Len(s) - 1
           /\ \A j \in 1..(Len(s) - 1) : RemoveAt(s, p)[j] = IF j < p THEN s[j] ELSE s[j + 1]
<1> DEFINE front == SubSeq(s, 1, p - 1)
           back == SubSeq(s, p + 1, Len(s))
<1>1. /\ front \in Seq(S) /\ Len(front) = p - 1
      /\ \A i \in 1..(p - 1) : front[i] = s[i]
  BY SubSeqProperties
<1>2. /\ back \in Seq(S) /\ Len(back) = Len(s) - p
      /\ \A i \in 1..(Len(s) - p) : back[i] = s[p + i]
  <2>1. \A i \in (p + 1)..Len(s) : s[i] \in S
    OBVIOUS
  <2>2. /\ back \in Seq(S)
        /\ Len(back) = IF p + 1 <= Len(s) THEN Len(s) - (p + 1) + 1 ELSE 0
        /\ \A i \in 1..(Len(s) - (p + 1) + 1) : back[i] = s[(p + 1) + i - 1]
    BY <2>1, SubSeqProperties
  <2> QED BY <2>2
<1> HIDE DEF front, back
<1>3. RemoveAt(s, p) = front \o back
  BY DEF RemoveAt, front, back
<1>4. /\ front \o back \in Seq(S) /\ Len(front \o back) = Len(front) + Len(back)
      /\ \A i \in 1..(Len(front) + Len(back)) :
             (front \o back)[i] = IF i <= Len(front) THEN front[i] ELSE back[i - Len(front)]
  BY <1>1, <1>2, ConcatProperties
<1>5. Len(front) + Len(back) = Len(s) - 1
  BY <1>1, <1>2
<1>6. ASSUME NEW j \in 1..(Len(s) - 1) PROVE (front \o back)[j] = IF j < p THEN s[j] ELSE s[j + 1]
  <2>1. CASE j < p
    BY <1>1, <1>4, <1>5, <2>1
  <2>2. CASE ~ (j < p)
    <3>1. (front \o back)[j] = back[j - (p - 1)]
      BY <1>1, <1>4, <1>5, <2>2
    <3>2. j - (p - 1) \in 1..(Len(s) - p) /\ p + (j - (p - 1)) = j + 1
      BY <2>2
    <3> QED BY <1>2, <2>2, <3>1, <3>2
  <2> QED BY <2>1, <2>2
<1> QED BY <1>3, <1>4, <1>5, <1>6

Listed(s, R) ==
    /\ \A n \in 1..Len(s) : s[n] \in R
    /\ \A w \in R : \E n \in 1..Len(s) : s[n] = w
    /\ \A m, n \in 1..Len(s) : s[m] = s[n] => m = n

\* Without its entry a sequence lists the others.
LEMMA ListedWithout ==
    ASSUME NEW R, NEW s \in Seq(R), Listed(s, R), NEW p \in 1..Len(s)
    PROVE  Listed(RemoveAt(s, p), R \ {s[p]})
<1> DEFINE q == RemoveAt(s, p)
<1>1. /\ q \in Seq(R) /\ Len(q) = Len(s) - 1 /\ Len(s) \in Nat
      /\ \A j \in 1..(Len(s) - 1) : q[j] = IF j < p THEN s[j] ELSE s[j + 1]
  <2>1. Len(s) \in Nat
    OBVIOUS
  <2> QED BY <2>1, RemovedAt
<1> HIDE DEF q
<1>2. \A m, n \in 1..Len(s) : s[m] = s[n] => m = n
  BY DEF Listed
<1>3. ASSUME NEW n \in 1..Len(q) PROVE q[n] \in R \ {s[p]}
  BY <1>1, <1>2
<1>4. ASSUME NEW w \in R \ {s[p]} PROVE \E n \in 1..Len(q) : q[n] = w
  <2>1. PICK n \in 1..Len(s) : s[n] = w
    BY DEF Listed
  <2>2. n < p => n \in 1..Len(q) /\ q[n] = w
    BY <1>1, <2>1
  <2>3. n > p => n - 1 \in 1..Len(q) /\ q[n - 1] = w
    BY <1>1, <2>1
  <2> QED BY <2>1, <2>2, <2>3
<1>5. ASSUME NEW m \in 1..Len(q), NEW n \in 1..Len(q), q[m] = q[n] PROVE m = n
  BY <1>1, <1>2, <1>5
<1> QED BY <1>3, <1>4, <1>5 DEF Listed, q

\* With a new entry at its end a sequence lists that too.
LEMMA ListedWith ==
    ASSUME NEW R, NEW s \in Seq(R), Listed(s, R), NEW w, w \notin R
    PROVE  Listed(Append(s, w), R \cup {w})
<1> DEFINE q == Append(s, w)
<1>1. /\ Len(q) = Len(s) + 1 /\ Len(s) \in Nat
      /\ \A i \in 1..Len(s) : q[i] = s[i]
      /\ q[Len(s) + 1] = w
  BY AppendProperties
<1> HIDE DEF q
<1>2. \A n \in 1..Len(s) : s[n] \in R /\ s[n] # w
  BY DEF Listed
<1>3. \A n \in 1..Len(q) : n \in 1..Len(s) \/ n = Len(s) + 1
  BY <1>1
<1>4. ASSUME NEW n \in 1..Len(q) PROVE q[n] \in R \cup {w}
  BY <1>1, <1>2, <1>3
<1>5. ASSUME NEW v \in R \cup {w} PROVE \E n \in 1..Len(q) : q[n] = v
  <2>1. CASE v = w
    BY <1>1, <2>1
  <2>2. CASE v \in R
    <3>1. PICK n \in 1..Len(s) : s[n] = v
      BY <2>2 DEF Listed
    <3> QED BY <1>1, <3>1
  <2> QED BY <2>1, <2>2
<1>6. ASSUME NEW m \in 1..Len(q), NEW n \in 1..Len(q), q[m] = q[n] PROVE m = n
  <2>1. \A i, j \in 1..Len(s) : s[i] = s[j] => i = j
    BY DEF Listed
  <2> QED BY <1>1, <1>2, <1>3, <1>6, <2>1
<1> QED BY <1>4, <1>5, <1>6 DEF Listed, q

\* The place of a workspace in the order.
LEMMA PositionFacts ==
    ASSUME TypeOK, Ordered, NEW w \in Registered
    PROVE  /\ Position(w) \in 1..Len(recent) /\ recent[Position(w)] = w
           /\ recent \in Seq(Registered) /\ Listed(recent, Registered)
           /\ Len(recent) \in Nat
<1>1. DOMAIN recent = 1..Len(recent) /\ Len(recent) \in Nat
  BY DEF TypeOK
<1>2. \E n \in DOMAIN recent : recent[n] = w
  BY <1>1 DEF Ordered
<1>3. Position(w) \in 1..Len(recent) /\ recent[Position(w)] = w
  BY <1>1, <1>2 DEF Position
<1>4. recent \in Seq(Registered)
  BY <1>1 DEF TypeOK, Ordered
<1> QED BY <1>1, <1>3, <1>4 DEF Ordered, Listed

\* An entry leaves the order with its registration.
LEMMA DroppedOrdered ==
    ASSUME TypeOK, Ordered, NEW w \in Registered, Dropped(w), Registered' = Registered \ {w}
    PROVE  recent' \in Seq(Workspaces) /\ idle' \in 0..Len(recent') /\ Ordered'
<1>1. recent' = RemoveAt(recent, Position(w)) /\ w \in Workspaces
  BY DEF Dropped, Registered
<1>2. recent' \in Seq(Workspaces) /\ Len(recent') = Len(recent) - 1
  BY <1>1, PositionFacts, RemovedAt DEF TypeOK
<1>3. Listed(recent', Registered')
  BY <1>1, PositionFacts, ListedWithout
<1>4. idle' \in 0..Len(recent')
  BY <1>2, PositionFacts DEF Dropped, TypeOK
<1> QED BY <1>2, <1>3, <1>4 DEF Ordered, Listed

\* A workspace that is used again becomes the youngest.
LEMMA TouchedOrdered ==
    ASSUME TypeOK, Ordered, NEW w \in Registered, Touched(w), Registered' = Registered
    PROVE  recent' \in Seq(Workspaces) /\ idle' \in 0..Len(recent') /\ Ordered'
<1> DEFINE q == RemoveAt(recent, Position(w))
<1>1. recent' = Append(q, w) /\ w \in Workspaces
  BY DEF Touched, Registered
<1>2. q \in Seq(Workspaces) /\ q \in Seq(Registered) /\ Len(q) = Len(recent) - 1
      /\ Listed(q, Registered \ {w})
  <2>1. q \in Seq(Workspaces) /\ Len(q) = Len(recent) - 1
    BY PositionFacts, RemovedAt DEF TypeOK
  <2>2. q \in Seq(Registered)
    BY PositionFacts, RemovedAt
  <2>3. Listed(q, Registered \ {w})
    BY PositionFacts, ListedWithout
  <2> QED BY <2>1, <2>2, <2>3
<1> HIDE DEF q
<1>3. q \in Seq(Registered \ {w})
  BY <1>2 DEF Listed
<1>4. Listed(recent', (Registered \ {w}) \cup {w})
  BY <1>1, <1>2, <1>3, ListedWith
<1>5. (Registered \ {w}) \cup {w} = Registered'
  OBVIOUS
<1>6. recent' \in Seq(Workspaces) /\ Len(recent') = Len(recent)
  BY <1>1, <1>2, PositionFacts, AppendProperties
<1>7. idle' \in 0..Len(recent')
  BY <1>6, PositionFacts DEF Touched, TypeOK
<1> QED BY <1>4, <1>5, <1>6, <1>7 DEF Ordered, Listed

\* A new registration is the youngest.
LEMMA JoinedOrdered ==
    ASSUME TypeOK, Ordered, NEW w \in Workspaces, w \notin Registered, Joined(w),
           Registered' = Registered \cup {w}
    PROVE  recent' \in Seq(Workspaces) /\ idle' \in 0..Len(recent') /\ Ordered'
<1>1. recent \in Seq(Registered) /\ Listed(recent, Registered) /\ Len(recent) \in Nat
  BY DEF TypeOK, Ordered, Listed
<1>2. recent' = Append(recent, w) /\ idle' = idle
  BY DEF Joined
<1>3. recent' \in Seq(Workspaces) /\ Len(recent') = Len(recent) + 1
  BY <1>2, AppendProperties DEF TypeOK
<1>4. Listed(recent', Registered')
  BY <1>1, <1>2, ListedWith
<1>5. idle' \in 0..Len(recent')
  BY <1>1, <1>2, <1>3 DEF TypeOK
<1> QED BY <1>3, <1>4, <1>5 DEF Ordered, Listed

-----------------------------------------------------------------------------
(* The steps.                                                               *)

\* A registration that ends.
LEMMA Unregistered ==
    ASSUME TypeOK, NEW w \in Registered, instances' = [instances EXCEPT ![w] = None]
    PROVE  /\ Registered' = Registered \ {w}
           /\ Cardinality(Registered') = Cardinality(Registered) - 1
           /\ instances' \in [Workspaces -> Objects \cup {None}]
<1>1. Registered' = Registered \ {w}
  BY DEF Registered, TypeOK
<1>2. Cardinality(Registered \ {w}) = Cardinality(Registered) - 1
  BY Finite, FS_RemoveElement
<1> QED BY <1>1, <1>2 DEF TypeOK

\* Who uses an instance that is not in use? Nobody.
LEMMA Spared ==
    ASSUME IInv, NEW w \in Registered, ~ InUse(w)
    PROVE  \A t \in Tasks : using[t] # instances[w]
<1>1. instances[w] \in Objects
  BY DEF Registered, IInv, PoolInv, TypeOK
<1>2. refCount[instances[w]] = 0
  BY <1>1 DEF InUse, IInv, PoolInv, TypeOK
<1> QED BY <1>1, <1>2, Unused DEF IInv, PoolInv

\* A step that changes neither the registry nor the users keeps the invariant
\* when it keeps types, lock and phase in order.
LEMMA RegistryKept ==
    ASSUME IInv, TypeOK', TasksOK', UNCHANGED <<instances, refCount, recent, using>>,
           lock' # Null => lock' = lock \/ Cardinality(Registered) < MaxSize,
           \A t \in Tasks : pc'[t] = "in" => pc[t] = "in" /\ ws'[t] = ws[t],
           phase = "down" => phase' = "down"
    PROVE  IInv'
<1>1. Registered' = Registered
  BY DEF Registered
<1>2. RefsExact'
  BY DEF IInv, PoolInv, RefsExact
<1>3. AtMostMax'
  BY <1>1, Finite, PoolAssumption DEF IInv, PoolInv, AtMostMax
<1>4. InUseKept'
  BY DEF IInv, InUseKept
<1>5. Ordered'
  BY <1>1 DEF IInv, Ordered
<1> QED BY <1>2, <1>3, <1>4, <1>5 DEF IInv, PoolInv

\* A request asks, gives up, begins to make an instance or fails to.
LEMMA WaitingIInv ==
    ASSUME IInv, NEW t \in Tasks, Request(t) \/ MakeBegin(t) \/ Exhausted(t) \/ MakeFails(t)
    PROVE  IInv'
<1>1. \A u \in Tasks : u # Null
  BY PoolAssumption
<1>2. CASE Request(t)
  <2>3. requests' \in 0..MaxRequests
    BY <1>2, PoolAssumption DEF Request, IInv, PoolInv, TypeOK
  <2>1. TypeOK'
    BY <1>2, <2>3 DEF Request, pool, admin, IInv, PoolInv, TypeOK
  <2>2. TasksOK'
    BY <1>2 DEF Request, pool, admin, IInv, PoolInv, TypeOK, TasksOK, Registered
  <2> QED BY <1>2, <2>1, <2>2, RegistryKept DEF Request, pool, admin, IInv, PoolInv, TypeOK
<1>3. CASE MakeBegin(t)
  <2>1. TypeOK'
    BY <1>3 DEF MakeBegin, admin, IInv, PoolInv, TypeOK
  <2>2. TasksOK'
    BY <1>1, <1>3 DEF MakeBegin, Asks, admin, IInv, PoolInv, TypeOK, TasksOK, Registered
  <2> QED BY <1>3, <2>1, <2>2, RegistryKept DEF MakeBegin, admin, IInv, PoolInv, TypeOK
<1>4. CASE Exhausted(t)
  <2>1. TypeOK'
    BY <1>4 DEF Exhausted, Leaves, pool, admin, IInv, PoolInv, TypeOK
  <2>2. TasksOK'
    BY <1>4 DEF Exhausted, Asks, Leaves, pool, admin, IInv, PoolInv, TypeOK, TasksOK, Registered
  <2> QED BY <1>4, <2>1, <2>2, RegistryKept DEF Exhausted, Leaves, pool, admin, IInv, PoolInv, TypeOK
<1>5. CASE MakeFails(t)
  <2>1. TypeOK'
    BY <1>5 DEF MakeFails, Leaves, admin, IInv, PoolInv, TypeOK
  <2>2. TasksOK'
    BY <1>1, <1>5 DEF MakeFails, Leaves, admin, IInv, PoolInv, TypeOK, TasksOK, Registered
  <2> QED BY <1>5, <2>1, <2>2, RegistryKept DEF MakeFails, Leaves, admin, IInv, PoolInv, TypeOK
<1> QED BY <1>2, <1>3, <1>4, <1>5

\* Time passes, and the sweep and the shutdown do what takes nothing away.
LEMMA AdminIInv ==
    ASSUME IInv, \/ Age \/ SweepSelect \/ ShutdownBegin \/ ShutdownList
                 \/ \E w \in Workspaces : SweepSkip(w) \/ SweepStop(w)
    PROVE  IInv'
<1>1. recent \in Seq(Workspaces) /\ Len(recent) \in Nat /\ idle \in 0..Len(recent)
  BY DEF IInv, PoolInv, TypeOK
<1>2. CASE Age
  <2>1. TypeOK'
    BY <1>1, <1>2 DEF Age, tasks, admin, IInv, PoolInv, TypeOK
  <2>2. TasksOK'
    BY <1>2 DEF Age, tasks, admin, IInv, TasksOK, Registered
  <2> QED BY <1>2, <2>1, <2>2, RegistryKept DEF Age, tasks, admin
<1>3. CASE SweepSelect
  <2>1. sweep' \subseteq Workspaces
    BY <1>1, <1>3 DEF SweepSelect
  <2>2. TypeOK'
    BY <1>3, <2>1 DEF SweepSelect, pool, tasks, IInv, PoolInv, TypeOK
  <2>3. TasksOK'
    BY <1>3 DEF SweepSelect, pool, tasks, IInv, TasksOK, Registered
  <2> QED BY <1>3, <2>2, <2>3, RegistryKept DEF SweepSelect, pool, tasks
<1>4. CASE ShutdownBegin
  <2>1. TypeOK'
    BY <1>4 DEF ShutdownBegin, pool, tasks, IInv, PoolInv, TypeOK
  <2>2. TasksOK'
    BY <1>4 DEF ShutdownBegin, pool, tasks, IInv, TasksOK, Registered
  <2> QED BY <1>4, <2>1, <2>2, RegistryKept DEF ShutdownBegin, pool, tasks
<1>5. CASE ShutdownList
  <2>1. TypeOK'
    BY <1>5 DEF ShutdownList, Registered, pool, tasks, IInv, PoolInv, TypeOK
  <2>2. TasksOK'
    BY <1>5 DEF ShutdownList, pool, tasks, IInv, TasksOK, Registered
  <2> QED BY <1>5, <2>1, <2>2, RegistryKept DEF ShutdownList, pool, tasks
<1>6. ASSUME NEW w \in Workspaces, SweepSkip(w) \/ SweepStop(w) PROVE IInv'
  <2>1. TypeOK'
    BY <1>6 DEF SweepSkip, SweepStop, pool, tasks, IInv, PoolInv, TypeOK
  <2>2. TasksOK'
    BY <1>6 DEF SweepSkip, SweepStop, pool, tasks, IInv, TasksOK, Registered
  <2> QED BY <1>6, <2>1, <2>2, RegistryKept DEF SweepSkip, SweepStop, pool, tasks
<1> QED BY <1>2, <1>3, <1>4, <1>5, <1>6

\* A registered instance gets another user.
LEMMA ReuseIInv == ASSUME IInv, NEW t \in Tasks, Reuse(t) PROVE IInv'
<1> DEFINE w == ws[t]
           o == instances[w]
<1>1. /\ w \in Registered /\ w \in Workspaces /\ o \in Objects
      /\ using[t] = None /\ pc[t] = "asks" /\ lock = Null
  BY DEF Reuse, Asks, Registered, IInv, PoolInv, TypeOK, TasksOK
<1>2. /\ using' = [using EXCEPT ![t] = o] /\ refCount' = [refCount EXCEPT ![o] = @ + 1]
      /\ pc' = [pc EXCEPT ![t] = "in"] /\ Touched(w)
      /\ UNCHANGED <<instances, lock, ws, requests, sweep, phase, todo>>
  BY DEF Reuse, admin
<1>3. Registered' = Registered
  BY <1>2 DEF Registered
<1>4. recent' \in Seq(Workspaces) /\ idle' \in 0..Len(recent') /\ Ordered'
  BY <1>1, <1>2, <1>3, TouchedOrdered DEF IInv, PoolInv
<1>5. RefsExact'
  BY <1>1, <1>2, CountUser DEF IInv, PoolInv
<1> HIDE DEF w, o
<1>6. TypeOK'
  BY <1>1, <1>2, <1>4 DEF IInv, PoolInv, TypeOK
<1>7. AtMostMax'
  BY <1>2, <1>3 DEF IInv, PoolInv, AtMostMax
<1>8. InUseKept'
  BY <1>1, <1>2 DEF IInv, PoolInv, TypeOK, InUseKept, w, o
<1>9. TasksOK'
  BY <1>1, <1>2, <1>3, ObjectCount DEF IInv, PoolInv, TypeOK, TasksOK, w
<1> QED BY <1>4, <1>5, <1>6, <1>7, <1>8, <1>9 DEF IInv, PoolInv

\* A user leaves.
LEMMA ReleaseIInv == ASSUME IInv, NEW t \in Tasks, Release(t) PROVE IInv'
<1> DEFINE o == using[t]
<1>1. /\ o \in Objects /\ pc[t] = "in" /\ ws[t] \in Workspaces
  BY DEF Release, IInv, PoolInv, TypeOK, TasksOK
<1>2. /\ using' = [using EXCEPT ![t] = None] /\ refCount' = [refCount EXCEPT ![o] = @ - 1]
      /\ pc' = [pc EXCEPT ![t] = "out"] /\ ws' = [ws EXCEPT ![t] = Null]
      /\ IF instances[ws[t]] = o THEN Touched(ws[t]) ELSE UNCHANGED <<recent, idle>>
      /\ UNCHANGED <<instances, lock, requests, sweep, phase, todo>>
  BY DEF Release, Leaves, admin
<1>3. Registered' = Registered
  BY <1>2 DEF Registered
<1>4. recent' \in Seq(Workspaces) /\ idle' \in 0..Len(recent') /\ Ordered'
  <2>1. CASE instances[ws[t]] = o
    <3>1. ws[t] \in Registered
      BY <1>1, <2>1, ObjectCount DEF Registered
    <3> QED BY <1>2, <1>3, <2>1, <3>1, TouchedOrdered DEF IInv, PoolInv
  <2>2. CASE instances[ws[t]] # o
    BY <1>2, <1>3, <2>2 DEF IInv, PoolInv, TypeOK, Ordered
  <2> QED BY <2>1, <2>2
<1>5. RefsExact' /\ refCount[o] > 0
  BY <1>1, <1>2, CountUser DEF IInv, PoolInv
<1> HIDE DEF o
<1>6. TypeOK'
  BY <1>1, <1>2, <1>4, <1>5 DEF IInv, PoolInv, TypeOK
<1>7. AtMostMax'
  BY <1>2, <1>3 DEF IInv, PoolInv, AtMostMax
<1>8. InUseKept'
  BY <1>1, <1>2 DEF IInv, PoolInv, TypeOK, InUseKept
<1>9. TasksOK'
  BY <1>1, <1>2, <1>3 DEF IInv, PoolInv, TypeOK, TasksOK
<1> QED BY <1>4, <1>5, <1>6, <1>7, <1>8, <1>9 DEF IInv, PoolInv

\* The new instance is registered and has one user.
LEMMA MakeDoneIInv == ASSUME IInv, NEW t \in Tasks, MakeDone(t) PROVE IInv'
<1> DEFINE w == ws[t]
           o == NewObject
<1>1. /\ w \notin Registered /\ w \in Workspaces /\ using[t] = None
      /\ pc[t] = "makes" /\ lock = t /\ t # Null /\ \A u \in Tasks : u # Null
  BY PoolAssumption DEF MakeDone, IInv, PoolInv, TypeOK, TasksOK
<1>2. o \in Objects /\ refCount[o] = 0
  BY NewObjectExists
<1>3. /\ instances' = [instances EXCEPT ![w] = o] /\ refCount' = [refCount EXCEPT ![o] = 1]
      /\ using' = [using EXCEPT ![t] = o] /\ lock' = Null /\ pc' = [pc EXCEPT ![t] = "in"]
      /\ Joined(w)
      /\ UNCHANGED <<ws, requests, sweep, phase, todo>>
  BY DEF MakeDone, admin
<1> HIDE DEF o
<1>4. Registered' = Registered \cup {w}
  BY <1>1, <1>2, <1>3, ObjectCount DEF Registered, IInv, PoolInv, TypeOK
<1>5. Cardinality(Registered') = Cardinality(Registered) + 1
  BY <1>1, <1>4, Finite, FS_AddElement
<1>6. recent' \in Seq(Workspaces) /\ idle' \in 0..Len(recent') /\ Ordered'
  BY <1>1, <1>3, <1>4, JoinedOrdered DEF IInv, PoolInv
<1>7. refCount' = [refCount EXCEPT ![o] = @ + 1]
  BY <1>2, <1>3 DEF IInv, PoolInv, TypeOK
<1>8. RefsExact'
  BY <1>1, <1>2, <1>3, <1>7, CountUser DEF IInv, PoolInv
<1> HIDE DEF w
<1>9. TypeOK'
  BY <1>1, <1>2, <1>3, <1>6 DEF IInv, PoolInv, TypeOK
<1>10. AtMostMax'
  <2>1. Cardinality(Registered) + 1 <= MaxSize
    BY <1>1 DEF IInv, PoolInv, AtMostMax
  <2> QED BY <1>3, <1>5, <2>1, Finite DEF AtMostMax
<1>11. InUseKept'
  <2> SUFFICES ASSUME phase # "down", NEW u \in Tasks, pc'[u] = "in"
               PROVE  instances'[ws'[u]] = using'[u]
    BY <1>3 DEF InUseKept
  <2>1. CASE u = t
    BY <1>1, <1>3, <2>1 DEF IInv, PoolInv, TypeOK, w
  <2>2. CASE u # t
    <3>1. pc[u] = "in" /\ instances[ws[u]] = using[u] /\ using[u] # None /\ ws[u] \in Workspaces
      BY <1>3, <2>2 DEF IInv, PoolInv, TypeOK, InUseKept, TasksOK
    <3>2. ws[u] # w
      BY <1>1, <3>1 DEF Registered
    <3> QED BY <1>1, <1>3, <2>2, <3>1, <3>2 DEF IInv, PoolInv, TypeOK
  <2> QED BY <2>1, <2>2
<1>12. TasksOK'
  <2>1. \A u \in Tasks : pc'[u] = "makes" => FALSE
    BY <1>1, <1>3 DEF IInv, PoolInv, TypeOK, TasksOK
  <2>2. \A u \in Tasks : using'[u] # None <=> pc'[u] = "in"
    BY <1>1, <1>2, <1>3, ObjectCount DEF IInv, PoolInv, TypeOK, TasksOK
  <2> QED BY <1>1, <1>3, <2>1, <2>2 DEF IInv, PoolInv, TypeOK, TasksOK, w
<1> QED BY <1>6, <1>8, <1>9, <1>10, <1>11, <1>12 DEF IInv, PoolInv

\* An instance leaves the registry: nobody uses it, or the pool is shut down.
LEMMA EvictedIInv ==
    ASSUME IInv, NEW w \in Registered, instances' = [instances EXCEPT ![w] = None], Dropped(w),
           phase = "down" \/ ~ InUse(w),
           UNCHANGED <<refCount, using, requests, phase>>, sweep' \subseteq Workspaces,
           todo' \subseteq todo,
           \/ UNCHANGED <<lock, pc, ws>>
           \/ \E t \in Tasks : /\ lock = Null /\ lock' = t /\ pc[t] = "asks" /\ ws[t] \notin Registered
                               /\ pc' = [pc EXCEPT ![t] = "makes"] /\ ws' = ws
    PROVE  IInv'
<1>1. /\ Registered' = Registered \ {w}
      /\ Cardinality(Registered') = Cardinality(Registered) - 1
      /\ instances' \in [Workspaces -> Objects \cup {None}]
  BY Unregistered DEF IInv, PoolInv
<1>2. recent' \in Seq(Workspaces) /\ idle' \in 0..Len(recent') /\ Ordered'
  BY <1>1, DroppedOrdered DEF IInv, PoolInv
<1>3. /\ lock' \in Tasks \cup {Null} /\ pc' \in [Tasks -> {"out", "asks", "makes", "in"}] /\ ws' = ws
      /\ \A t \in Tasks : pc'[t] = "in" <=> pc[t] = "in"
      /\ \A t \in Tasks : pc'[t] # "out" => pc[t] # "out"
  BY DEF IInv, PoolInv, TypeOK
<1>4. TypeOK'
  BY <1>1, <1>2, <1>3 DEF IInv, PoolInv, TypeOK
<1>5. RefsExact'
  BY DEF IInv, PoolInv, RefsExact
<1>6. AtMostMax'
  BY <1>1, Finite, PoolAssumption DEF IInv, PoolInv, AtMostMax
<1>7. InUseKept'
  <2> SUFFICES ASSUME phase # "down", NEW t \in Tasks, pc'[t] = "in"
               PROVE  instances'[ws[t]] = using[t]
    BY <1>3 DEF InUseKept
  <2>1. pc[t] = "in" /\ instances[ws[t]] = using[t]
    BY <1>3 DEF IInv, InUseKept
  <2>2. using[t] # instances[w]
    BY Spared
  <2> QED BY <2>1, <2>2 DEF IInv, PoolInv, TypeOK
<1>8. \A t \in Tasks : pc'[t] = "makes" <=> lock' = t
  BY PoolAssumption DEF IInv, PoolInv, TypeOK, TasksOK
<1>9. \A t \in Tasks : pc'[t] = "makes" => ws'[t] \notin Registered'
  BY <1>1, <1>3 DEF IInv, PoolInv, TypeOK, TasksOK
<1>10. TasksOK'
  BY <1>3, <1>8, <1>9 DEF IInv, TasksOK
<1> QED BY <1>2, <1>4, <1>5, <1>6, <1>7, <1>10 DEF IInv, PoolInv

\* Room is made for another instance.
LEMMA EvictLRUIInv == ASSUME IInv, NEW t \in Tasks, EvictLRU(t) PROVE IInv'
<1>1. PICK n \in DOMAIN recent : /\ ~ InUse(recent[n])
                                /\ instances' = [instances EXCEPT ![recent[n]] = None]
                                /\ Dropped(recent[n])
  BY DEF EvictLRU
<1>2. recent[n] \in Registered
  BY DEF IInv, PoolInv, TypeOK, Ordered
<1>3. /\ UNCHANGED <<refCount, using, requests, phase, ws>>
      /\ sweep' \subseteq Workspaces /\ todo' \subseteq todo
      /\ lock = Null /\ lock' = t /\ pc[t] = "asks" /\ ws[t] \notin Registered
      /\ pc' = [pc EXCEPT ![t] = "makes"]
  BY DEF EvictLRU, Asks, admin, IInv, PoolInv, TypeOK
<1> QED BY <1>1, <1>2, <1>3, EvictedIInv

\* The sweep closes an instance that has stayed idle.
LEMMA SweepEvictIInv == ASSUME IInv, NEW w \in Workspaces, SweepEvict(w) PROVE IInv'
<1>1. /\ w \in Registered /\ ~ InUse(w) /\ Dropped(w)
      /\ instances' = [instances EXCEPT ![w] = None]
      /\ UNCHANGED <<refCount, using, requests, phase, lock, pc, ws>>
      /\ sweep' \subseteq Workspaces /\ todo' \subseteq todo
  BY DEF SweepEvict, tasks, IInv, PoolInv, TypeOK
<1> QED BY <1>1, EvictedIInv

\* Shutdown closes an instance, used or not.
LEMMA ShutdownOneIInv == ASSUME IInv, NEW w \in Workspaces, ShutdownOne(w) PROVE IInv'
<1>1. /\ phase = "down" /\ phase' = phase
      /\ UNCHANGED <<refCount, lock, pc, ws, using, requests>>
      /\ sweep' \subseteq Workspaces /\ todo' \subseteq todo
  BY DEF ShutdownOne, tasks, IInv, PoolInv, TypeOK, TasksOK
<1>2. CASE w \in Registered
  BY <1>1, <1>2, EvictedIInv DEF ShutdownOne
<1>3. CASE w \notin Registered
  <2>1. UNCHANGED <<instances, recent, idle>>
    BY <1>3 DEF ShutdownOne
  <2>2. TypeOK'
    BY <1>1, <2>1 DEF IInv, PoolInv, TypeOK
  <2>3. TasksOK'
    BY <1>1, <2>1 DEF IInv, TasksOK, Registered
  <2> QED BY <1>1, <2>1, <2>2, <2>3, RegistryKept
<1> QED BY <1>2, <1>3

-----------------------------------------------------------------------------
(* The theorems.                                                            *)

\* Initially the default workspace has an instance nobody uses.
LEMMA InitIInv == Init => IInv
<1> SUFFICES ASSUME Init PROVE IInv
  OBVIOUS
<1>1. Registered = {Default}
  BY ObjectCount, PoolAssumption DEF Init, Registered
<1>2. Cardinality(Registered) = 1
  BY <1>1, FS_Singleton
<1>3. recent \in Seq(Workspaces) /\ Len(recent) = 1 /\ recent[1] = Default
  BY PoolAssumption DEF Init
<1>4. TypeOK
  BY <1>3, ObjectCount, PoolAssumption DEF Init, TypeOK
<1>5. RefsExact
  BY <1>4, ObjectCount, Finite, FS_EmptySet DEF Init, RefsExact
<1>6. AtMostMax
  BY <1>2, PoolAssumption DEF Init, AtMostMax
<1>7. InUseKept
  BY DEF Init, InUseKept
<1>8. Ordered
  BY <1>1, <1>3 DEF Ordered
<1>9. TasksOK
  BY PoolAssumption DEF Init, TasksOK
<1> QED BY <1>4, <1>5, <1>6, <1>7, <1>8, <1>9 DEF IInv, PoolInv

\* Every step keeps the invariant.
LEMMA NextIInv == IInv /\ [Next]_vars => IInv'
<1> SUFFICES ASSUME IInv, [Next]_vars PROVE IInv'
  OBVIOUS
<1>1. ASSUME NEW t \in Tasks,
             Request(t) \/ Enter(t) \/ MakeDone(t) \/ MakeFails(t) \/ Release(t)
      PROVE  IInv'
  BY <1>1, WaitingIInv, ReuseIInv, EvictLRUIInv, MakeDoneIInv, ReleaseIInv DEF Enter
<1>2. ASSUME NEW w \in Workspaces,
             SweepSkip(w) \/ SweepStop(w) \/ SweepEvict(w) \/ ShutdownOne(w)
      PROVE  IInv'
  BY <1>2, AdminIInv, SweepEvictIInv, ShutdownOneIInv
<1>3. CASE Age \/ SweepSelect \/ ShutdownBegin \/ ShutdownList
  BY <1>3, AdminIInv
<1>4. CASE UNCHANGED vars
  <2>1. UNCHANGED <<instances, refCount, recent, idle, lock, pc, ws, using, requests, sweep,
                    phase, todo>>
    BY <1>4 DEF vars, pool, tasks, admin
  <2>2. TypeOK'
    BY <2>1 DEF IInv, PoolInv, TypeOK
  <2>3. TasksOK'
    BY <2>1 DEF IInv, TasksOK, Registered
  <2> QED BY <2>1, <2>2, <2>3, RegistryKept
<1> QED BY <1>1, <1>2, <1>3, <1>4 DEF Next

\* In every reachable state the invariant holds.
LEMMA Invariant == Spec => []IInv
BY InitIInv, NextIInv, PTL DEF Spec

\* The reference count of every object is the number of its users, and the
\* instances registered or being made fit into the pool.
THEOREM PoolCorrect == Spec => []PoolInv
<1>1. IInv => PoolInv
  BY DEF IInv
<1> QED BY <1>1, Invariant, PTL

\* Until the shutdown an instance in use stays the one of its workspace.
THEOREM UsedInstanceKept == Spec => []InUseKept
<1>1. IInv => InUseKept
  BY DEF IInv
<1> QED BY <1>1, Invariant, PTL

\* What MinKept asks of one step.
AboveMin ==
    phase # "down" /\ Cardinality(Registered) >= MinSize => Cardinality(Registered') >= MinSize

\* Only an eviction takes an instance away, and it leaves enough.
LEMMA StepAboveMin == IInv /\ Next => AboveMin
<1> SUFFICES ASSUME IInv, Next, phase # "down", Cardinality(Registered) >= MinSize
             PROVE  Cardinality(Registered') >= MinSize
  BY DEF AboveMin
<1>1. Cardinality(Registered) \in Nat /\ MinSize \in Nat /\ MaxSize \in Nat /\ MinSize < MaxSize
  BY Finite, PoolAssumption
<1>2. CASE UNCHANGED instances
  BY <1>2 DEF Registered
<1>3. ASSUME NEW t \in Tasks, EvictLRU(t) PROVE Cardinality(Registered') >= MinSize
  <2>1. PICK n \in DOMAIN recent : instances' = [instances EXCEPT ![recent[n]] = None]
    BY <1>3 DEF EvictLRU
  <2>2. recent[n] \in Registered
    BY DEF IInv, PoolInv, TypeOK, Ordered
  <2>3. Cardinality(Registered') = Cardinality(Registered) - 1
    BY <2>1, <2>2, Unregistered DEF IInv, PoolInv
  <2>4. Cardinality(Registered) >= MaxSize
    BY <1>3 DEF EvictLRU
  <2> QED BY <1>1, <2>3, <2>4
<1>4. ASSUME NEW w \in Workspaces, SweepEvict(w) PROVE Cardinality(Registered') >= MinSize
  <2>1. Cardinality(Registered') = Cardinality(Registered) - 1 /\ Cardinality(Registered) > MinSize
    BY <1>4, Unregistered DEF SweepEvict, IInv, PoolInv
  <2> QED BY <1>1, <2>1
<1>5. ASSUME NEW t \in Tasks, MakeDone(t) PROVE Cardinality(Registered') >= MinSize
  <2>1. instances' = [instances EXCEPT ![ws[t]] = NewObject] /\ NewObject # None
        /\ ws[t] \in Workspaces
    BY <1>5, NewObjectExists, ObjectCount DEF MakeDone, IInv, TasksOK
  <2>2. Registered' = Registered \cup {ws[t]}
    BY <2>1 DEF Registered, IInv, PoolInv, TypeOK
  <2>3. Cardinality(Registered \cup {ws[t]}) \in {Cardinality(Registered), Cardinality(Registered) + 1}
    BY Finite, FS_AddElement
  <2> QED BY <1>1, <2>2, <2>3
<1>6. ASSUME NEW w \in Workspaces, ShutdownOne(w) PROVE FALSE
  BY <1>6 DEF ShutdownOne, IInv, TasksOK
<1>7. ASSUME NEW t \in Tasks, Request(t) \/ Reuse(t) \/ MakeBegin(t) \/ Exhausted(t) \/ MakeFails(t)
                             \/ Release(t)
      PROVE  UNCHANGED instances
  BY <1>7 DEF Request, Reuse, MakeBegin, Exhausted, MakeFails, Release, pool
<1>8. ASSUME Age \/ SweepSelect \/ ShutdownBegin \/ ShutdownList
      PROVE  UNCHANGED instances
  BY <1>8 DEF Age, SweepSelect, ShutdownBegin, ShutdownList, pool
<1>9. ASSUME NEW w \in Workspaces, SweepSkip(w) \/ SweepStop(w)
      PROVE  UNCHANGED instances
  BY <1>9 DEF SweepSkip, SweepStop, pool
<1> QED BY <1>2, <1>3, <1>4, <1>5, <1>6, <1>7, <1>8, <1>9 DEF Next, Enter

\* Until the shutdown the pool never falls below its minimal size.
THEOREM MinSizeKept == Spec => MinKept
<1>1. IInv /\ [Next]_vars => [AboveMin]_vars
  BY StepAboveMin
<1>2. MinKept <=> [][AboveMin]_vars
  BY PTL DEF MinKept, AboveMin
<1> QED BY <1>1, <1>2, Invariant, PTL DEF Spec
=============================================================================
