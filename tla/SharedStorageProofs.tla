------------------------- MODULE SharedStorageProofs -------------------------
(***************************************************************************)
(* Theorems about the two components that live on kg/shared_storage.py:    *)
(* the keyed locks, and the stores that keep their copies in step by its   *)
(* update flags.                                                           *)
(*                                                                         *)
(* The first half is about KeyedLock, for any processes, coroutines, keys  *)
(* and bounds.  The second half is about FileStore, for any processes,     *)
(* coroutines and items and any number of writes.  Neither half uses the   *)
(* other.                                                                  *)
(***************************************************************************)
EXTENDS KeyedLock, FileStore, FiniteSetTheorems, SequenceTheorems, WellFoundedInduction, TLAPS

-----------------------------------------------------------------------------
(* The inductive invariant.                                                 *)

Entry == [key : Keys, a : Ids, m : Ids, entered : BOOLEAN]
Has(t, k) == \E e \in Entries(t) : e.key = k
Refs(k)      == {t \in Tasks : Has(t, k)}
RefsIn(p, k) == {t \in Tasks : ProcOf[t] = p /\ Has(t, k)}

\* One key of one registry: the count is the references, nobody's lock is absent
\* or due for cleanup, and what is due is registered.
Counted(lock, count, k, clean, refs) ==
    /\ count = Cardinality(refs)
    /\ count = 0 <=> (lock = Absent \/ k \in clean)
    /\ k \in clean => lock # Absent

Registries ==
    \A k \in Keys :
        /\ Counted(mlock[k], mcount[k], k, mclean, Refs(k))
        /\ \A p \in Procs : Counted(alock[p][k], acount[p][k], k, aclean[p], RefsIn(p, k))

\* A context has its keys in order, and on the way in those that are missing
\* are greater; all entries are entered but perhaps the last.
ContextOK(t) ==
    /\ \A i, j \in DOMAIN ul[t] : i < j => ul[t][i].key < ul[t][j].key
    /\ \A i \in DOMAIN ul[t] : i < Len(ul[t]) => ul[t][i].entered
    /\ pc[t] \in {"out", "get", "wait", "acquire", "held"} =>
           \A e \in Entries(t), k \in Missing(t) : e.key < k
    /\ pc[t] = "out" => ul[t] = <<>>
    /\ pc[t] = "get" => Missing(t) # {}
    /\ pc[t] \in {"wait", "acquire"} => ul[t] # <<>> /\ ~Last(ul[t]).entered
    /\ pc[t] \in {"get", "held"} => \A e \in Entries(t) : e.entered

\* Whoever has entered a lock owns both of its objects, and nobody else does;
\* between the two it owns the first, and stops its event loop.
Owns(t, e) == aowner[ProcOf[t]][e.key][e.a] = t
OwnersOK ==
    /\ \A t \in Tasks : \A e \in Entries(t) : e.entered => Owns(t, e) /\ mowner[e.key][e.m] = t
    /\ \A t \in Tasks : pc[t] = "acquire" => Owns(t, Last(ul[t])) /\ blocked[ProcOf[t]] = t
    /\ \A p \in Procs : blocked[p] # Nobody => pc[blocked[p]] = "acquire" /\ ProcOf[blocked[p]] = p
    /\ \A t \in Tasks, p \in Procs, k \in Keys, i \in Ids :
           aowner[p][k][i] = t =>
               /\ ProcOf[t] = p
               /\ \E e \in Entries(t) : /\ e.key = k /\ e.a = i
                                        /\ e.entered \/ (pc[t] = "acquire" /\ e = Last(ul[t]))
    /\ \A t \in Tasks, k \in Keys, i \in Ids :
           mowner[k][i] = t => \E e \in Entries(t) : e.key = k /\ e.m = i /\ e.entered

IInv == TypeOK /\ UsedIsRegistered /\ Registries /\ OwnersOK /\ \A t \in Tasks : ContextOK(t)

-----------------------------------------------------------------------------
(* Sequences, sets of numbers.                                              *)

LEMMA Appended ==
    ASSUME NEW S, NEW s \in Seq(S), NEW e \in S
    PROVE  /\ Append(s, e) \in Seq(S) /\ Append(s, e) # <<>>
           /\ Len(Append(s, e)) = Len(s) + 1 /\ DOMAIN Append(s, e) = 1..Len(s) + 1
           /\ \A i \in DOMAIN s : Append(s, e)[i] = s[i]
           /\ Append(s, e)[Len(s) + 1] = e /\ Last(Append(s, e)) = e
           /\ Range(Append(s, e)) = Range(s) \cup {e}
<1>1. /\ Append(s, e) \in Seq(S) /\ Append(s, e) # <<>>
      /\ Len(Append(s, e)) = Len(s) + 1 /\ DOMAIN Append(s, e) = 1..Len(s) + 1
      /\ \A i \in DOMAIN s : Append(s, e)[i] = s[i]
      /\ Append(s, e)[Len(s) + 1] = e
  OBVIOUS
<1>2. DOMAIN s = 1..Len(s) /\ Len(s) \in Nat
  OBVIOUS
<1>3. Last(Append(s, e)) = e
  BY <1>1 DEF Last
<1>4. \A x : x \in Range(Append(s, e)) <=> x \in Range(s) \cup {e}
  BY <1>1, <1>2 DEF Range
<1> QED BY <1>1, <1>3, <1>4

\* The last entry taken off.
LEMMA Fronted ==
    ASSUME NEW S, NEW s \in Seq(S), s # <<>>
    PROVE  /\ Front(s) \in Seq(S) /\ Len(s) \in Nat \ {0} /\ Len(Front(s)) = Len(s) - 1
           /\ DOMAIN Front(s) = 1..(Len(s) - 1) /\ DOMAIN s = 1..Len(s)
           /\ \A i \in DOMAIN Front(s) : Front(s)[i] = s[i]
           /\ Last(s) = s[Len(s)] /\ Last(s) \in S
           /\ Range(s) = Range(Front(s)) \cup {Last(s)}
<1>1. /\ Len(s) \in Nat \ {0} /\ DOMAIN s = 1..Len(s) /\ Last(s) = s[Len(s)] /\ Last(s) \in S
  BY DEF Last
<1>2. /\ Front(s) \in Seq(S) /\ Len(Front(s)) = Len(s) - 1
      /\ DOMAIN Front(s) = 1..(Len(s) - 1)
      /\ \A i \in DOMAIN Front(s) : Front(s)[i] = s[i]
  BY <1>1, SubSeqProperties DEF Front
<1>3. \A x : x \in Range(s) <=> x \in Range(Front(s)) \cup {Last(s)}
  BY <1>1, <1>2 DEF Range
<1> QED BY <1>1, <1>2, <1>3

LEMMA SameFront ==
    ASSUME NEW S, NEW s \in Seq(S), NEW u \in Seq(S), s # <<>>, u # <<>>, Len(u) = Len(s),
           \A i \in DOMAIN s : i # Len(s) => u[i] = s[i]
    PROVE  Front(u) = Front(s)
<1>1. /\ Front(s) \in Seq(S) /\ Len(Front(s)) = Len(s) - 1 /\ Len(s) \in Nat \ {0}
      /\ Front(u) \in Seq(S) /\ Len(Front(u)) = Len(s) - 1
      /\ DOMAIN s = 1..Len(s) /\ DOMAIN u = 1..Len(s)
  BY Fronted
<1>2. \A i \in 1..(Len(s) - 1) : Front(s)[i] = s[i] /\ Front(u)[i] = u[i]
  BY <1>1, Fronted
<1>3. \A i \in 1..(Len(s) - 1) : Front(s)[i] = Front(u)[i]
  BY <1>1, <1>2
<1> QED BY <1>1, <1>3, SeqEqual

\* The mark of the last entry changed.
Marked(s, b) == [s EXCEPT ![Len(s)].entered = b]

LEMMA MarkedLast ==
    ASSUME NEW s \in Seq(Entry), s # <<>>, NEW b \in BOOLEAN
    PROVE  /\ Marked(s, b) \in Seq(Entry) /\ Marked(s, b) # <<>>
           /\ Len(Marked(s, b)) = Len(s) /\ DOMAIN Marked(s, b) = DOMAIN s
           /\ \A i \in DOMAIN s : i # Len(s) => Marked(s, b)[i] = s[i]
           /\ Last(Marked(s, b)) = [Last(s) EXCEPT !.entered = b]
           /\ Last(Marked(s, b)).key = Last(s).key /\ Last(Marked(s, b)).a = Last(s).a
           /\ Last(Marked(s, b)).m = Last(s).m /\ Last(Marked(s, b)).entered = b
           /\ \A i \in DOMAIN s : Marked(s, b)[i].key = s[i].key
           /\ Front(Marked(s, b)) = Front(s)
           /\ {e.key : e \in Range(Marked(s, b))} = {e.key : e \in Range(s)}
<1>1. Len(s) \in Nat \ {0} /\ DOMAIN s = 1..Len(s) /\ s[Len(s)] \in Entry /\ Last(s) = s[Len(s)]
  BY DEF Last
<1>2. [s[Len(s)] EXCEPT !.entered = b] \in Entry
  BY <1>1 DEF Entry
<1>3. Marked(s, b) = [s EXCEPT ![Len(s)] = [s[Len(s)] EXCEPT !.entered = b]]
  BY DEF Marked
<1>4. /\ Marked(s, b) \in Seq(Entry) /\ Len(Marked(s, b)) = Len(s) /\ DOMAIN Marked(s, b) = DOMAIN s
      /\ \A i \in DOMAIN s : i # Len(s) => Marked(s, b)[i] = s[i]
      /\ Marked(s, b)[Len(s)] = [s[Len(s)] EXCEPT !.entered = b]
  BY <1>1, <1>2, <1>3
<1>5. Last(Marked(s, b)) = [Last(s) EXCEPT !.entered = b] /\ Marked(s, b) # <<>>
  BY <1>1, <1>4 DEF Last
<1>6. /\ Last(Marked(s, b)).key = Last(s).key /\ Last(Marked(s, b)).a = Last(s).a
      /\ Last(Marked(s, b)).m = Last(s).m /\ Last(Marked(s, b)).entered = b
  BY <1>1, <1>5 DEF Entry
<1>7. \A i \in DOMAIN s : Marked(s, b)[i].key = s[i].key
  BY <1>1, <1>4, <1>2 DEF Entry
<1>8. Front(Marked(s, b)) = Front(s)
  BY <1>1, <1>4, <1>5, SameFront
<1>9. {e.key : e \in Range(Marked(s, b))} = {e.key : e \in Range(s)}
  BY <1>4, <1>7 DEF Range
<1> QED BY <1>4, <1>5, <1>6, <1>7, <1>8, <1>9

\* A finite set of numbers has a greatest one, and any set of them a smallest.
LEMMA Greatest ==
    ASSUME NEW S, S \subseteq Nat, S # {}, IsFiniteSet(S)
    PROVE  \E k \in S : \A j \in S : j <= k
<1> DEFINE Bad == {U \in SUBSET S : U # {} /\ ~ \E k \in U : \A j \in U : j <= k}
<1>1. SUFFICES ASSUME Bad # {} PROVE FALSE
  BY <1>1
<1>2. IsWellFoundedOn(StrictSubsetOrdering(S), SUBSET S)
  BY FS_StrictSubsetOrderingWellFounded, FS_FiniteSubsetsOfFinite
<1>3. PICK U \in Bad : \A V \in Bad : ~(<<V, U>> \in StrictSubsetOrdering(S))
  <2>1. Bad \subseteq SUBSET S
    OBVIOUS
  <2> HIDE DEF Bad
  <2> QED BY <1>1, <1>2, <2>1, WFMin
<1>4. \A V \in SUBSET S : V \subseteq U /\ V # U /\ V # {} => \E k \in V : \A j \in V : j <= k
  <2> TAKE V \in SUBSET S
  <2> HAVE V \subseteq U /\ V # U /\ V # {}
  <2>1. <<V, U>> \in StrictSubsetOrdering(S)
    BY <1>3 DEF StrictSubsetOrdering
  <2> QED BY <1>3, <2>1
<1>5. PICK x \in U : TRUE
  BY <1>3
<1>6. CASE U \ {x} = {}
  BY <1>3, <1>5, <1>6
<1>7. CASE U \ {x} # {}
  <2>1. PICK k \in U \ {x} : \A j \in U \ {x} : j <= k
    BY <1>3, <1>4, <1>5, <1>7
  <2>2. x <= k \/ \A j \in U : j <= x
    BY <1>3, <1>5, <2>1
  <2> QED BY <1>3, <1>5, <2>1, <2>2
<1> QED BY <1>6, <1>7

LEMMA Smallest ==
    ASSUME NEW S, S \subseteq Nat, S # {}
    PROVE  \E k \in S : \A j \in S : k <= j
<1>1. PICK x \in S : TRUE
  OBVIOUS
<1> DEFINE D == {x - j : j \in S \cap (0..x)}
<1>2. D \subseteq Nat /\ D # {} /\ \A d \in D : d <= x
  BY <1>1
<1>3. IsFiniteSet(D)
  BY <1>1, <1>2, FS_BoundedSetOfNaturals
<1>4. PICK d \in D : \A e \in D : e <= d
  BY <1>2, <1>3, Greatest
<1>5. PICK k \in S \cap (0..x) : d = x - k
  OBVIOUS
<1>6. \A j \in S \cap (0..x) : k <= j
  <2> TAKE j \in S \cap (0..x)
  <2>1. x - j <= x - k
    BY <1>4, <1>5
  <2> QED BY <1>1, <2>1
<1> QED BY <1>1, <1>5, <1>6

-----------------------------------------------------------------------------
(* Every step preserves the invariant.                                      *)

LEMMA InitIInv == Init => IInv
<1> SUFFICES ASSUME Init PROVE IInv
  OBVIOUS
<1> USE LockAssumption DEF Init
<1>1. TypeOK
  BY DEF TypeOK, Ids, Absent
<1>2. \A t \in Tasks : Entries(t) = {}
  BY DEF Entries, Range
<1>3. \A k \in Keys : Refs(k) = {} /\ \A p \in Procs : RefsIn(p, k) = {}
  BY <1>2 DEF Refs, RefsIn, Has
<1>4. \A k \in Keys : Counted(Absent, 0, k, {}, {})
  BY FS_EmptySet DEF Counted
<1>5. UsedIsRegistered /\ Registries
  BY <1>2, <1>3, <1>4 DEF UsedIsRegistered, Registries, Counted
<1>6. OwnersOK
  BY <1>2 DEF OwnersOK
<1>7. \A t \in Tasks : ContextOK(t)
  BY <1>2 DEF ContextOK
<1> QED BY <1>1, <1>5, <1>6, <1>7 DEF IInv

\* Contexts, counts and registries as they are.
LEMMA RegistriesKept ==
    ASSUME Registries, \A t \in Tasks, k \in Keys : Has(t, k)' <=> Has(t, k),
           UNCHANGED <<alock, acount, aclean, mlock, mcount, mclean>>
    PROVE  Registries'
<1>1. \A k \in Keys : Refs(k)' = Refs(k)
  BY DEF Refs
<1>2. \A k \in Keys, p \in Procs : RefsIn(p, k)' = RefsIn(p, k)
  BY DEF RefsIn
<1> QED BY <1>1, <1>2 DEF Registries

\* What the entries of a context are.
LEMMA EntryTyped ==
    ASSUME TypeOK, NEW t \in Tasks
    PROVE  /\ ProcOf[t] \in Procs /\ ul[t] \in Seq(Entry)
           /\ \A f \in Entries(t) :
                  f \in Entry /\ f.key \in Keys /\ f.a \in Ids /\ f.m \in Ids /\ f.entered \in BOOLEAN
           /\ ul[t] # <<>> => Last(ul[t]) \in Entries(t)
<1>1. ProcOf[t] \in Procs /\ ul[t] \in Seq(Entry)
  BY LockAssumption DEF TypeOK, Entry
<1>2. \A f \in Entries(t) : f \in Entry
  BY <1>1 DEF Entries, Range
<1>3. ul[t] # <<>> => Last(ul[t]) \in Entries(t)
  BY <1>1, Fronted DEF Entries
<1> QED BY <1>1, <1>2, <1>3 DEF Entry

\* A step of one coroutine that only moves it.
LEMMA MovedContexts ==
    ASSUME TypeOK, NEW t \in Tasks, NEW l, pc' = [pc EXCEPT ![t] = l], UNCHANGED ul,
           \A u \in Tasks : ContextOK(u), ContextOK(t)'
    PROVE  \A u \in Tasks : ContextOK(u)'
BY DEF TypeOK, ContextOK, Missing, Entries

LEMMA MoveIInv ==
    ASSUME IInv, NEW t \in Tasks, Request(t) \/ Leave(t) \/ CancelWait(t) \/ Out(t)
    PROVE  IInv'
<1> USE DEF IInv
<1>1. PICK l \in {"out", "get", "held", "unwind"} : pc' = [pc EXCEPT ![t] = l]
  BY DEF Request, Leave, CancelWait, Out, Goto
<1>2. /\ UNCHANGED <<local, shared, ul, blocked>> /\ requests' \in 0..MaxRequests
      /\ pc[t] \in {"out", "held", "wait", "unwind"}
  BY LockAssumption DEF Request, Leave, CancelWait, Out, Runs, TypeOK
<1>3. TypeOK'
  BY <1>1, <1>2 DEF TypeOK, local, shared
<1>4. UsedIsRegistered'
  BY <1>2 DEF UsedIsRegistered, Entries, local, shared
<1>5. Registries'
  BY <1>2, RegistriesKept DEF Has, Entries, local, shared
<1>6. OwnersOK'
  BY <1>1, <1>2 DEF OwnersOK, Owns, Entries, TypeOK, local, shared
<1>7. ContextOK(t)'
  <2>1. pc'[t] = l /\ Entries(t)' = Entries(t) /\ Missing(t)' = Missing(t)
    BY <1>1, <1>2 DEF TypeOK, Entries, Missing
  <2>2. CASE Request(t)
    <3>1. ul[t] = <<>> /\ Entries(t) = {} /\ (l = "get" => Missing(t) # {}) /\ l \in {"get", "held"}
      BY <1>1, <2>2 DEF Request, Runs, ContextOK, Entries, Range, Goto, TypeOK
    <3> QED BY <1>2, <2>1, <3>1 DEF ContextOK
  <2>3. CASE Leave(t) \/ CancelWait(t)
    <3>1. l = "unwind"
      BY <1>1, <2>3 DEF Leave, CancelWait, Goto, TypeOK
    <3> QED BY <1>2, <2>1, <3>1 DEF ContextOK
  <2>4. CASE Out(t)
    <3>1. ul[t] = <<>> /\ Entries(t) = {} /\ l = "out"
      BY <1>1, <2>4 DEF Out, Entries, Range, Goto, TypeOK
    <3> QED BY <1>2, <2>1, <3>1 DEF ContextOK
  <2> QED BY <2>2, <2>3, <2>4
<1>8. \A u \in Tasks : ContextOK(u)'
  BY <1>1, <1>2, <1>7, MovedContexts
<1> QED BY <1>3, <1>4, <1>5, <1>6, <1>8

LEMMA AsyncIInv ==
    ASSUME IInv, NEW t \in Tasks, AcquireAsync(t)
    PROVE  IInv'
<1> USE DEF IInv
<1> DEFINE e == Last(ul[t])
           p == ProcOf[t]
<1>1. /\ pc[t] = "wait" /\ blocked[p] = Nobody /\ aowner[p][e.key][e.a] = Nobody
      /\ aowner' = [aowner EXCEPT ![p][e.key][e.a] = t]
      /\ blocked' = [blocked EXCEPT ![p] = t] /\ pc' = [pc EXCEPT ![t] = "acquire"]
      /\ UNCHANGED <<alock, acount, aclean, shared, ul, requests>>
  BY DEF AcquireAsync, Runs, Goto
<1>2. /\ p \in Procs /\ ul[t] # <<>> /\ e \in Entry /\ e \in Entries(t) /\ ~e.entered
  <2>1. ul[t] # <<>> /\ ~e.entered
    BY <1>1 DEF ContextOK
  <2>2. ul[t] \in Seq(Entry)
    BY DEF TypeOK, Entry
  <2> QED BY <2>1, <2>2, Fronted, LockAssumption DEF Entries
<1>3. e.key \in Keys /\ e.a \in Ids /\ e.m \in Ids
  BY <1>2 DEF Entry
<1> HIDE DEF e, p
<1>4. TypeOK'
  BY <1>1, <1>2, <1>3 DEF TypeOK, shared
<1>5. UsedIsRegistered'
  BY <1>1 DEF UsedIsRegistered, Entries, shared
<1>6. Registries'
  BY <1>1, RegistriesKept DEF Has, Entries, shared
<1>7. aowner'[p][e.key][e.a] = t
      /\ \A q \in Procs, k \in Keys, i \in Ids :
            <<q, k, i>> # <<p, e.key, e.a>> => aowner'[q][k][i] = aowner[q][k][i]
  BY <1>1, <1>2, <1>3 DEF TypeOK
<1>8. OwnersOK'
  <2>0. /\ UNCHANGED <<mowner, ul>> /\ \A u \in Tasks : Entries(u)' = Entries(u) /\ pc[t] = "wait"
        /\ pc'[t] = "acquire" /\ \A u \in Tasks \ {t} : pc'[u] = pc[u]
        /\ blocked'[p] = t /\ \A q \in Procs \ {p} : blocked'[q] = blocked[q]
        /\ Nobody \notin Tasks
    BY <1>1, <1>2, LockAssumption DEF Entries, shared, TypeOK
  <2>1. ASSUME NEW u \in Tasks, NEW f \in Entries(u), f.entered
        PROVE  aowner'[ProcOf[u]][f.key][f.a] = u /\ mowner'[f.key][f.m] = u
    <3>1. Owns(u, f) /\ mowner[f.key][f.m] = u
      BY <2>1 DEF OwnersOK
    <3>2. ProcOf[u] \in Procs /\ f.key \in Keys /\ f.a \in Ids
      BY <2>1, EntryTyped
    <3> QED BY <1>1, <1>7, <2>0, <3>1, <3>2 DEF Owns
  <2>2. ASSUME NEW u \in Tasks, pc'[u] = "acquire"
        PROVE  aowner'[ProcOf[u]][Last(ul[u]).key][Last(ul[u]).a] = u /\ blocked'[ProcOf[u]] = u
    <3>1. CASE u = t
      BY <1>7, <2>0, <3>1 DEF e, p
    <3>2. CASE u # t
      <4>1. Owns(u, Last(ul[u])) /\ blocked[ProcOf[u]] = u
        BY <2>0, <2>2, <3>2 DEF OwnersOK
      <4>2. ProcOf[u] # p
        BY <1>1, <2>0, <4>1
      <4>3. ul[u] # <<>>
        BY <2>0, <2>2, <3>2 DEF ContextOK
      <4>4. Last(ul[u]).key \in Keys /\ Last(ul[u]).a \in Ids /\ ProcOf[u] \in Procs
        BY <4>3, EntryTyped
      <4> QED BY <1>7, <2>0, <4>1, <4>2, <4>4 DEF Owns
    <3> QED BY <3>1, <3>2
  <2>3. \A q \in Procs : blocked'[q] # Nobody => pc'[blocked'[q]] = "acquire" /\ ProcOf[blocked'[q]] = q
    <3> TAKE q \in Procs
    <3>1. CASE q = p
      BY <2>0, <3>1 DEF p
    <3>2. CASE q # p
      <4>1. blocked'[q] = blocked[q] /\ blocked[q] \in Tasks \cup {Nobody}
        BY <2>0, <3>2 DEF TypeOK
      <4>2. blocked[q] # Nobody => pc[blocked[q]] = "acquire" /\ ProcOf[blocked[q]] = q
        BY DEF OwnersOK
      <4> QED BY <2>0, <4>1, <4>2
    <3> QED BY <3>1, <3>2
  <2>4. ASSUME NEW u \in Tasks, NEW q \in Procs, NEW k \in Keys, NEW i \in Ids, aowner'[q][k][i] = u
        PROVE  /\ ProcOf[u] = q
               /\ \E f \in Entries(u) : /\ f.key = k /\ f.a = i
                                        /\ f.entered \/ (pc'[u] = "acquire" /\ f = Last(ul[u]))
    <3>1. CASE <<q, k, i>> = <<p, e.key, e.a>>
      BY <1>2, <1>7, <2>0, <2>4, <3>1 DEF e, p
    <3>2. CASE <<q, k, i>> # <<p, e.key, e.a>>
      <4>1. aowner[q][k][i] = u
        BY <1>7, <2>4, <3>2
      <4>2. PICK f \in Entries(u) : /\ f.key = k /\ f.a = i
                                    /\ f.entered \/ (pc[u] = "acquire" /\ f = Last(ul[u]))
        BY <4>1 DEF OwnersOK
      <4>3. ProcOf[u] = q
        BY <4>1 DEF OwnersOK
      <4> QED BY <2>0, <4>2, <4>3
    <3> QED BY <3>1, <3>2
  <2> QED BY <2>0, <2>1, <2>2, <2>3, <2>4 DEF OwnersOK, Owns
<1>9. \A u \in Tasks : ContextOK(u)'
  <2>1. ContextOK(t)'
    BY <1>1, <1>2 DEF ContextOK, TypeOK, Entries, Missing, e
  <2> QED BY <1>1, <2>1, MovedContexts
<1> QED BY <1>4, <1>5, <1>6, <1>8, <1>9


\* A context has one entry for a key.
LEMMA OneEntry ==
    ASSUME IInv, NEW t \in Tasks, NEW e \in Entries(t), NEW f \in Entries(t), e.key = f.key
    PROVE  e = f
<1>1. ul[t] \in Seq(Entry)
  BY EntryTyped DEF IInv
<1>2. PICK i, j \in DOMAIN ul[t] : e = ul[t][i] /\ f = ul[t][j]
  BY DEF Entries, Range
<1>3. i \in Nat /\ j \in Nat /\ e.key \in Nat /\ f.key \in Nat
  <2>1. e.key \in Keys /\ f.key \in Keys
    BY EntryTyped DEF IInv
  <2>2. DOMAIN ul[t] \subseteq Nat
    BY <1>1
  <2>3. Keys \subseteq Nat
    BY LockAssumption
  <2> QED BY <1>2, <2>1, <2>2, <2>3
<1>4. (i < j => e.key < f.key) /\ (j < i => f.key < e.key)
  BY <1>2 DEF IInv, ContextOK
<1> QED BY <1>2, <1>3, <1>4

\* The mark of the last entry is changed, and with it nothing else.
LEMMA MarkedContext ==
    ASSUME TypeOK, NEW t \in Tasks, ul[t] # <<>>, NEW b \in BOOLEAN,
           ul' = [ul EXCEPT ![t][Len(ul[t])].entered = b]
    PROVE  /\ ul' \in [Tasks -> Seq(Entry)]
           /\ ul'[t] = Marked(ul[t], b) /\ \A u \in Tasks \ {t} : ul'[u] = ul[u]
           /\ \A u \in Tasks : Missing(u)' = Missing(u) /\ \A k : Has(u, k)' <=> Has(u, k)
           /\ \A u \in Tasks \ {t} : Entries(u)' = Entries(u)
           /\ Entries(t)  = Range(Front(ul[t])) \cup {Last(ul[t])}
           /\ Entries(t)' = Range(Front(ul[t])) \cup {Last(ul'[t])}
           /\ Last(ul'[t]) = [Last(ul[t]) EXCEPT !.entered = b] /\ Last(ul'[t]).key = Last(ul[t]).key
           /\ Last(ul'[t]).a = Last(ul[t]).a /\ Last(ul'[t]).m = Last(ul[t]).m
           /\ Last(ul'[t]).entered = b
<1>1. ul \in [Tasks -> Seq(Entry)] /\ ul[t] \in Seq(Entry)
  BY DEF TypeOK, Entry
<1>2. ul' = [ul EXCEPT ![t] = Marked(ul[t], b)]
  BY DEF Marked
<1>3. Marked(ul[t], b) \in Seq(Entry) /\ Marked(ul[t], b) # <<>>
  BY <1>1, MarkedLast
<1>4. ul' \in [Tasks -> Seq(Entry)] /\ ul'[t] = Marked(ul[t], b) /\ \A u \in Tasks \ {t} : ul'[u] = ul[u]
  BY <1>1, <1>2, <1>3
<1>5. \A u \in Tasks \ {t} : Entries(u)' = Entries(u)
  BY <1>4 DEF Entries
<1> DEFINE s == ul[t]
           v == Marked(s, b)
<1>6. /\ Last(v) = [Last(s) EXCEPT !.entered = b] /\ Last(v).key = Last(s).key
      /\ Last(v).a = Last(s).a /\ Last(v).m = Last(s).m /\ Last(v).entered = b
      /\ Front(v) = Front(s) /\ {e.key : e \in Range(v)} = {e.key : e \in Range(s)}
  <2>1. s \in Seq(Entry) /\ s # <<>>
    BY <1>1
  <2> HIDE DEF s
  <2> QED BY <2>1, MarkedLast
<1>7. Range(s) = Range(Front(s)) \cup {Last(s)} /\ Range(v) = Range(Front(v)) \cup {Last(v)}
  <2>1. s \in Seq(Entry) /\ s # <<>> /\ v \in Seq(Entry) /\ v # <<>>
    BY <1>1, <1>3
  <2> HIDE DEF s, v
  <2> QED BY <2>1, Fronted
<1>8. Entries(t) = Range(s) /\ Entries(t)' = Range(v) /\ ul'[t] = v
  BY <1>4 DEF Entries
<1> HIDE DEF v
<1>9. \A u \in Tasks : {e.key : e \in Entries(u)'} = {e.key : e \in Entries(u)}
  BY <1>5, <1>6, <1>8
<1>10. \A u \in Tasks : Missing(u)' = Missing(u)
  BY <1>9 DEF Missing
<1>11. \A u \in Tasks : \A k : Has(u, k)' <=> Has(u, k)
  <2> TAKE u \in Tasks
  <2> TAKE k
  <2>1. Has(u, k) <=> k \in {e.key : e \in Entries(u)}
    BY DEF Has
  <2>2. Has(u, k)' <=> k \in {e.key : e \in Entries(u)'}
    BY DEF Has
  <2> QED BY <1>9, <2>1, <2>2
<1>12. v = Marked(ul[t], b)
  BY DEF v
<1> QED BY <1>4, <1>5, <1>6, <1>7, <1>8, <1>10, <1>11, <1>12

\* What the other parts of the invariant need of such a step.
LEMMA MarkedRest ==
    ASSUME IInv, NEW t \in Tasks, ul[t] # <<>>, NEW b \in BOOLEAN,
           ul' = [ul EXCEPT ![t][Len(ul[t])].entered = b],
           UNCHANGED <<alock, acount, aclean, mlock, mcount, mclean>>
    PROVE  /\ UsedIsRegistered' /\ Registries'
           /\ \A i, j \in DOMAIN ul'[t] : i < j => ul'[t][i].key < ul'[t][j].key
           /\ \A i \in DOMAIN ul'[t] : i < Len(ul'[t]) => ul'[t][i].entered
           /\ \A f \in Range(Front(ul[t])) : f \in Entries(t) /\ f.entered /\ f.key # Last(ul[t]).key
           /\ (\A e \in Entries(t), k \in Missing(t) : e.key < k) =>
                  \A e \in Entries(t)', k \in Missing(t)' : e.key < k
<1> USE DEF IInv
<1> DEFINE e == Last(ul[t])
           s == ul[t]
<1>1. s \in Seq(Entry) /\ e \in Entries(t) /\ s # <<>>
  BY EntryTyped
<1>2. /\ DOMAIN s = 1..Len(s) /\ Len(s) \in Nat \ {0} /\ e = s[Len(s)]
      /\ DOMAIN Front(s) = 1..(Len(s) - 1) /\ \A i \in DOMAIN Front(s) : Front(s)[i] = s[i]
  BY <1>1, Fronted
<1> DEFINE n == Last(ul'[t])
<1>0. /\ ul'[t] = Marked(s, b)
      /\ \A u \in Tasks : Missing(u)' = Missing(u) /\ \A k : Has(u, k)' <=> Has(u, k)
      /\ \A u \in Tasks \ {t} : Entries(u)' = Entries(u)
      /\ Entries(t)  = Range(Front(s)) \cup {e}
      /\ Entries(t)' = Range(Front(s)) \cup {n}
      /\ n.key = e.key /\ n.a = e.a /\ n.m = e.m
  BY MarkedContext
<1> HIDE DEF n
<1>3. ASSUME NEW f \in Range(Front(s)) PROVE f \in Entries(t) /\ f.entered /\ f.key # e.key
  <2>1. PICK i \in 1..(Len(s) - 1) : f = s[i]
    BY <1>2 DEF Range
  <2>2. f \in Entries(t) /\ f.entered /\ s[i].key < s[Len(s)].key
    BY <1>2, <2>1 DEF ContextOK, Entries, Range
  <2>3. f.key \in Nat /\ e.key \in Nat
    BY <1>1, <2>2, EntryTyped, LockAssumption
  <2> QED BY <1>2, <2>1, <2>2, <2>3
<1>4. UsedIsRegistered'
  <2>1. ASSUME NEW f \in Entries(t)' PROVE alock[ProcOf[t]][f.key] = f.a /\ mlock[f.key] = f.m
    <3>1. CASE f \in Range(Front(s))
      BY <1>3, <3>1 DEF UsedIsRegistered
    <3>2. CASE f = n
      BY <1>0, <1>1, <3>2 DEF UsedIsRegistered
    <3> QED BY <1>0, <2>1, <3>1, <3>2
  <2>2. \A u \in Tasks \ {t} : \A f \in Entries(u)' : alock[ProcOf[u]][f.key] = f.a /\ mlock[f.key] = f.m
    BY <1>0 DEF UsedIsRegistered
  <2> QED BY <2>1, <2>2 DEF UsedIsRegistered
<1>5. Registries'
  BY <1>0, RegistriesKept
<1>6. /\ Len(ul'[t]) = Len(s) /\ DOMAIN ul'[t] = DOMAIN s
      /\ \A i \in DOMAIN s : i # Len(s) => ul'[t][i] = s[i]
      /\ \A i \in DOMAIN s : ul'[t][i].key = s[i].key
  BY <1>0, <1>1, MarkedLast
<1>7. /\ \A i, j \in DOMAIN ul'[t] : i < j => ul'[t][i].key < ul'[t][j].key
      /\ \A i \in DOMAIN ul'[t] : i < Len(ul'[t]) => ul'[t][i].entered
  BY <1>2, <1>6 DEF ContextOK
<1>8. ASSUME \A f \in Entries(t), k \in Missing(t) : f.key < k,
             NEW f \in Entries(t)', NEW k \in Missing(t)'
      PROVE  f.key < k
  <2>1. k \in Missing(t)
    BY <1>0, <1>8
  <2>2. CASE f \in Range(Front(s))
    BY <1>3, <1>8, <2>1, <2>2
  <2>3. CASE f = n
    BY <1>0, <1>1, <1>8, <2>1, <2>3
  <2> QED BY <1>0, <1>8, <2>2, <2>3
<1> QED BY <1>3, <1>4, <1>5, <1>7, <1>8

LEMMA SharedIInv ==
    ASSUME IInv, NEW t \in Tasks, AcquireShared(t)
    PROVE  IInv'
<1> USE DEF IInv
<1> DEFINE e == Last(ul[t])
           p == ProcOf[t]
           n == Last(ul'[t])
<1>1. /\ pc[t] = "acquire" /\ mowner[e.key][e.m] = Nobody
      /\ mowner' = [mowner EXCEPT ![e.key][e.m] = t]
      /\ blocked' = [blocked EXCEPT ![p] = Nobody]
      /\ ul' = [ul EXCEPT ![t][Len(ul[t])].entered = TRUE]
      /\ pc' = [pc EXCEPT ![t] = IF Missing(t) = {} THEN "held" ELSE "get"]
      /\ UNCHANGED <<local, mlock, mcount, mclean, requests>>
  BY DEF AcquireShared, Goto
<1>2. UNCHANGED <<alock, acount, aclean, aowner>>
  BY <1>1 DEF local
<1>3. ul[t] # <<>> /\ ~e.entered
  BY <1>1 DEF ContextOK
<1>4. e \in Entries(t) /\ p \in Procs /\ e.key \in Keys /\ e.a \in Ids /\ e.m \in Ids /\ Nobody \notin Tasks
  BY <1>3, EntryTyped, LockAssumption
<1> HIDE DEF e, p, n
<1>5. /\ \A u \in Tasks \ {t} : Entries(u)' = Entries(u) /\ ul'[u] = ul[u] /\ pc'[u] = pc[u]
                                /\ Missing(u)' = Missing(u)
      /\ ul' \in [Tasks -> Seq(Entry)] /\ Missing(t)' = Missing(t)
      /\ Entries(t)  = Range(Front(ul[t])) \cup {e}
      /\ Entries(t)' = Range(Front(ul[t])) \cup {n}
      /\ n.key = e.key /\ n.a = e.a /\ n.m = e.m /\ n.entered
  <2>1. ul[t] # <<>> /\ ul' = [ul EXCEPT ![t][Len(ul[t])].entered = TRUE]
    BY <1>1, <1>3
  <2>2. /\ \A u \in Tasks \ {t} : Entries(u)' = Entries(u) /\ ul'[u] = ul[u] /\ Missing(u)' = Missing(u)
        /\ ul' \in [Tasks -> Seq(Entry)] /\ Missing(t)' = Missing(t)
        /\ Entries(t)  = Range(Front(ul[t])) \cup {Last(ul[t])}
        /\ Entries(t)' = Range(Front(ul[t])) \cup {Last(ul'[t])}
        /\ Last(ul'[t]).key = Last(ul[t]).key /\ Last(ul'[t]).a = Last(ul[t]).a
        /\ Last(ul'[t]).m = Last(ul[t]).m /\ Last(ul'[t]).entered
    BY <2>1, MarkedContext
  <2>3. \A u \in Tasks \ {t} : pc'[u] = pc[u]
    BY <1>1 DEF TypeOK
  <2> QED BY <2>2, <2>3 DEF e, n
<1>6. /\ UsedIsRegistered' /\ Registries'
      /\ \A i, j \in DOMAIN ul'[t] : i < j => ul'[t][i].key < ul'[t][j].key
      /\ \A i \in DOMAIN ul'[t] : i < Len(ul'[t]) => ul'[t][i].entered
      /\ \A f \in Range(Front(ul[t])) : f \in Entries(t) /\ f.entered /\ f.key # e.key
      /\ (\A f \in Entries(t), k \in Missing(t) : f.key < k) =>
             \A f \in Entries(t)', k \in Missing(t)' : f.key < k
  BY <1>1, <1>2, <1>3, MarkedRest DEF e
<1>7. /\ pc'[t] \in {"held", "get"} /\ (pc'[t] = "get" => Missing(t) # {})
      /\ blocked[p] = t /\ Owns(t, e)
      /\ blocked'[p] = Nobody /\ \A q \in Procs \ {p} : blocked'[q] = blocked[q]
      /\ mowner'[e.key][e.m] = t
      /\ \A k \in Keys, i \in Ids : <<k, i>> # <<e.key, e.m>> => mowner'[k][i] = mowner[k][i]
  BY <1>1, <1>4 DEF TypeOK, OwnersOK, e, p
<1>8. TypeOK'
  BY <1>1, <1>2, <1>4, <1>5 DEF TypeOK, Entry
<1>9. OwnersOK'
  <2>1. ASSUME NEW u \in Tasks, NEW f \in Entries(u)', f.entered
        PROVE  aowner[ProcOf[u]][f.key][f.a] = u /\ mowner'[f.key][f.m] = u
    <3>1. CASE u = t /\ f = n
      BY <1>5, <1>7, <3>1 DEF Owns
    <3>2. CASE f \in Entries(u)
      <4>1. aowner[ProcOf[u]][f.key][f.a] = u /\ mowner[f.key][f.m] = u
        BY <2>1, <3>2 DEF OwnersOK, Owns
      <4>2. f.key \in Keys /\ f.m \in Ids
        BY <3>2, EntryTyped
      <4> QED BY <1>1, <1>4, <1>7, <4>1, <4>2 DEF e
    <3> QED BY <1>5, <1>6, <2>1, <3>1, <3>2
  <2>2. ASSUME NEW u \in Tasks, pc'[u] = "acquire"
        PROVE  aowner[ProcOf[u]][Last(ul'[u]).key][Last(ul'[u]).a] = u /\ blocked'[ProcOf[u]] = u
    <3>1. u # t /\ pc[u] = "acquire" /\ ul'[u] = ul[u]
      BY <1>5, <1>7, <2>2
    <3>2. Owns(u, Last(ul[u])) /\ blocked[ProcOf[u]] = u /\ ProcOf[u] \in Procs
      BY <3>1, EntryTyped DEF OwnersOK
    <3> QED BY <1>7, <3>1, <3>2 DEF Owns
  <2>3. \A q \in Procs : blocked'[q] # Nobody => pc'[blocked'[q]] = "acquire" /\ ProcOf[blocked'[q]] = q
    <3> TAKE q \in Procs
    <3>1. CASE q = p
      BY <1>7, <3>1
    <3>2. CASE q # p
      <4>1. blocked'[q] = blocked[q] /\ blocked[q] \in Tasks \cup {Nobody}
        BY <1>7, <3>2 DEF TypeOK
      <4>2. blocked[q] # Nobody => pc[blocked[q]] = "acquire" /\ ProcOf[blocked[q]] = q
        BY DEF OwnersOK
      <4> QED BY <1>5, <3>2, <4>1, <4>2 DEF p
    <3> QED BY <3>1, <3>2
  <2>4. ASSUME NEW u \in Tasks, NEW q \in Procs, NEW k \in Keys, NEW i \in Ids, aowner[q][k][i] = u
        PROVE  /\ ProcOf[u] = q
               /\ \E f \in Entries(u)' : /\ f.key = k /\ f.a = i
                                         /\ f.entered \/ (pc'[u] = "acquire" /\ f = Last(ul'[u]))
    <3>1. PICK f \in Entries(u) : /\ f.key = k /\ f.a = i
                                  /\ f.entered \/ (pc[u] = "acquire" /\ f = Last(ul[u]))
      BY <2>4 DEF OwnersOK
    <3>2. ProcOf[u] = q
      BY <2>4 DEF OwnersOK
    <3>3. CASE u = t
      <4>1. CASE f = e
        BY <1>5, <3>1, <3>2, <3>3, <4>1
      <4>2. CASE f # e
        BY <1>5, <1>6, <3>1, <3>2, <3>3, <4>2
      <4> QED BY <4>1, <4>2
    <3>4. CASE u # t
      BY <1>5, <3>1, <3>2, <3>4
    <3> QED BY <3>3, <3>4
  <2>5. ASSUME NEW u \in Tasks, NEW k \in Keys, NEW i \in Ids, mowner'[k][i] = u
        PROVE  \E f \in Entries(u)' : f.key = k /\ f.m = i /\ f.entered
    <3>1. CASE <<k, i>> = <<e.key, e.m>>
      BY <1>5, <1>7, <2>5, <3>1
    <3>2. CASE <<k, i>> # <<e.key, e.m>>
      <4>1. PICK f \in Entries(u) : f.key = k /\ f.m = i /\ f.entered
        BY <1>7, <2>5, <3>2 DEF OwnersOK
      <4>2. u = t => f # e
        BY <3>2, <4>1
      <4> QED BY <1>5, <4>1, <4>2
    <3> QED BY <3>1, <3>2
  <2> QED BY <1>2, <2>1, <2>2, <2>3, <2>4, <2>5 DEF OwnersOK, Owns
<1>10. \A u \in Tasks : ContextOK(u)'
  <2>1. \A f \in Entries(t)' : f.entered
    BY <1>5, <1>6
  <2>2. \A f \in Entries(t)', k \in Missing(t)' : f.key < k
    BY <1>1, <1>6 DEF ContextOK
  <2>3. ContextOK(t)'
    BY <1>5, <1>6, <1>7, <2>1, <2>2 DEF ContextOK
  <2>4. \A u \in Tasks \ {t} : ContextOK(u)'
    BY <1>5 DEF ContextOK
  <2> QED BY <2>3, <2>4
<1> QED BY <1>6, <1>8, <1>9, <1>10

LEMMA ReleaseLockIInv ==
    ASSUME IInv, NEW t \in Tasks, ReleaseLock(t)
    PROVE  IInv'
<1> USE DEF IInv
<1> DEFINE e == Last(ul[t])
           p == ProcOf[t]
           n == Last(ul'[t])
<1>1. /\ pc[t] = "unwind" /\ ul[t] # <<>> /\ e.entered
      /\ mowner' = [mowner EXCEPT ![e.key][e.m] = Nobody]
      /\ aowner' = [aowner EXCEPT ![p][e.key][e.a] = Nobody]
      /\ ul' = [ul EXCEPT ![t][Len(ul[t])].entered = FALSE]
      /\ UNCHANGED <<alock, acount, aclean, mlock, mcount, mclean, pc, blocked, requests>>
  BY DEF ReleaseLock, Runs
<1>2. e \in Entries(t) /\ p \in Procs /\ e.key \in Keys /\ e.a \in Ids /\ e.m \in Ids /\ Nobody \notin Tasks
  BY <1>1, EntryTyped, LockAssumption
<1> HIDE DEF e, p, n
<1>3. /\ \A u \in Tasks \ {t} : Entries(u)' = Entries(u) /\ ul'[u] = ul[u] /\ Missing(u)' = Missing(u)
      /\ ul' \in [Tasks -> Seq(Entry)] /\ Missing(t)' = Missing(t)
      /\ Entries(t)  = Range(Front(ul[t])) \cup {e}
      /\ Entries(t)' = Range(Front(ul[t])) \cup {n}
      /\ n.key = e.key /\ n.a = e.a /\ n.m = e.m /\ ~n.entered
  <2>1. /\ \A u \in Tasks \ {t} : Entries(u)' = Entries(u) /\ ul'[u] = ul[u] /\ Missing(u)' = Missing(u)
        /\ ul' \in [Tasks -> Seq(Entry)] /\ Missing(t)' = Missing(t)
        /\ Entries(t)  = Range(Front(ul[t])) \cup {Last(ul[t])}
        /\ Entries(t)' = Range(Front(ul[t])) \cup {Last(ul'[t])}
        /\ Last(ul'[t]).key = Last(ul[t]).key /\ Last(ul'[t]).a = Last(ul[t]).a
        /\ Last(ul'[t]).m = Last(ul[t]).m /\ ~Last(ul'[t]).entered
    BY <1>1, MarkedContext
  <2> QED BY <2>1 DEF e, n
<1>4. /\ UsedIsRegistered' /\ Registries'
      /\ \A i, j \in DOMAIN ul'[t] : i < j => ul'[t][i].key < ul'[t][j].key
      /\ \A i \in DOMAIN ul'[t] : i < Len(ul'[t]) => ul'[t][i].entered
      /\ \A f \in Range(Front(ul[t])) : f \in Entries(t) /\ f.entered /\ f.key # e.key
  BY <1>1, MarkedRest DEF e
<1>5. /\ Owns(t, e) /\ mowner[e.key][e.m] = t
      /\ mowner'[e.key][e.m] = Nobody /\ aowner'[p][e.key][e.a] = Nobody
      /\ \A k \in Keys, i \in Ids : <<k, i>> # <<e.key, e.m>> => mowner'[k][i] = mowner[k][i]
      /\ \A q \in Procs, k \in Keys, i \in Ids :
            <<q, k, i>> # <<p, e.key, e.a>> => aowner'[q][k][i] = aowner[q][k][i]
  BY <1>1, <1>2 DEF TypeOK, OwnersOK
<1>6. TypeOK'
  <2>1. mowner' \in [Keys -> [Ids -> Tasks \cup {Nobody}]]
    BY <1>1, <1>2 DEF TypeOK
  <2>2. aowner' \in [Procs -> [Keys -> [Ids -> Tasks \cup {Nobody}]]]
    BY <1>1, <1>2 DEF TypeOK
  <2> QED BY <1>1, <1>3, <2>1, <2>2 DEF TypeOK, Entry
<1>7. OwnersOK'
  <2>1. ASSUME NEW u \in Tasks, NEW f \in Entries(u)', f.entered
        PROVE  aowner'[ProcOf[u]][f.key][f.a] = u /\ mowner'[f.key][f.m] = u
    <3>1. f \in Entries(u) /\ (u = t => f.key # e.key)
      BY <1>3, <1>4, <2>1
    <3>2. aowner[ProcOf[u]][f.key][f.a] = u /\ mowner[f.key][f.m] = u
      BY <2>1, <3>1 DEF OwnersOK, Owns
    <3>3. f.key \in Keys /\ f.m \in Ids /\ f.a \in Ids /\ ProcOf[u] \in Procs
      BY <3>1, EntryTyped
    <3> QED BY <1>5, <3>1, <3>2, <3>3 DEF Owns, p
  <2>2. ASSUME NEW u \in Tasks, pc[u] = "acquire"
        PROVE  aowner'[ProcOf[u]][Last(ul'[u]).key][Last(ul'[u]).a] = u /\ blocked[ProcOf[u]] = u
    <3>1. u # t /\ ul'[u] = ul[u] /\ ul[u] # <<>>
      BY <1>1, <1>3, <2>2 DEF ContextOK
    <3>2. Owns(u, Last(ul[u])) /\ blocked[ProcOf[u]] = u
      BY <2>2 DEF OwnersOK
    <3>3. ProcOf[u] \in Procs /\ Last(ul[u]).key \in Keys /\ Last(ul[u]).a \in Ids
      BY <3>1, EntryTyped
    <3> QED BY <1>5, <3>1, <3>2, <3>3 DEF Owns, p
  <2>3. \A q \in Procs : blocked[q] # Nobody => pc[blocked[q]] = "acquire" /\ ProcOf[blocked[q]] = q
    BY DEF OwnersOK
  <2>4. ASSUME NEW u \in Tasks, NEW q \in Procs, NEW k \in Keys, NEW i \in Ids, aowner'[q][k][i] = u
        PROVE  /\ ProcOf[u] = q
               /\ \E f \in Entries(u)' : /\ f.key = k /\ f.a = i
                                         /\ f.entered \/ (pc[u] = "acquire" /\ f = Last(ul'[u]))
    <3>1. <<q, k, i>> # <<p, e.key, e.a>> /\ aowner[q][k][i] = u
      BY <1>2, <1>5, <2>4
    <3>2. PICK f \in Entries(u) : /\ f.key = k /\ f.a = i
                                  /\ f.entered \/ (pc[u] = "acquire" /\ f = Last(ul[u]))
      BY <3>1 DEF OwnersOK
    <3>3. ProcOf[u] = q
      BY <3>1 DEF OwnersOK
    <3>4. CASE u = t
      <4>1. f # e
        BY <3>1, <3>2, <3>3, <3>4 DEF p
      <4> QED BY <1>1, <1>3, <3>2, <3>3, <3>4, <4>1
    <3>5. CASE u # t
      BY <1>3, <3>2, <3>3, <3>5
    <3> QED BY <3>4, <3>5
  <2>5. ASSUME NEW u \in Tasks, NEW k \in Keys, NEW i \in Ids, mowner'[k][i] = u
        PROVE  \E f \in Entries(u)' : f.key = k /\ f.m = i /\ f.entered
    <3>1. <<k, i>> # <<e.key, e.m>> /\ mowner[k][i] = u
      BY <1>2, <1>5, <2>5
    <3>2. PICK f \in Entries(u) : f.key = k /\ f.m = i /\ f.entered
      BY <3>1 DEF OwnersOK
    <3>3. f # e
      BY <3>1, <3>2
    <3> QED BY <1>3, <3>2, <3>3
  <2>6. pc' = pc /\ blocked' = blocked
    BY <1>1
  <2> QED BY <2>1, <2>2, <2>3, <2>4, <2>5, <2>6 DEF OwnersOK, Owns
<1>8. \A u \in Tasks : ContextOK(u)'
  <2>1. ContextOK(t)'
    <3>1. pc'[t] = "unwind"
      BY <1>1
    <3> QED BY <1>4, <3>1 DEF ContextOK
  <2>2. \A u \in Tasks \ {t} : ContextOK(u)'
    BY <1>1, <1>3 DEF ContextOK
  <2> QED BY <2>1, <2>2
<1> QED BY <1>4, <1>6, <1>7, <1>8

-----------------------------------------------------------------------------
(* The steps that write the registries.                                     *)

\* One reference less.
LEMMA CountedLess ==
    ASSUME NEW lock, NEW count \in Nat, NEW k, NEW clean, NEW refs, IsFiniteSet(refs),
           NEW t \in refs, Counted(lock, count, k, clean, refs)
    PROVE  /\ count # 0 /\ count - 1 \in Nat /\ k \notin clean /\ lock # Absent
           /\ count - 1 = Cardinality(refs \ {t})
<1>1. Cardinality(refs \ {t}) = Cardinality(refs) - 1
  BY FS_RemoveElement
<1>2. refs # {} /\ Cardinality(refs) # 0
  BY FS_EmptySet
<1> QED BY <1>1, <1>2 DEF Counted

LEMMA RefsFinite ==
    ASSUME NEW k, NEW p
    PROVE  IsFiniteSet(Refs(k)) /\ IsFiniteSet(RefsIn(p, k))
BY LockAssumption, FS_Subset DEF Refs, RefsIn

LEMMA GetLockIInv ==
    ASSUME IInv, NEW t \in Tasks, GetLock(t)
    PROVE  IInv'
<1> USE DEF IInv
<1> DEFINE p == ProcOf[t]
           a(k) == IF alock[p][k] = Absent THEN NewObject(AsyncInUse(p, k)) ELSE alock[p][k]
           m(k) == IF mlock[k] = Absent THEN NewObject(SharedInUse(k)) ELSE mlock[k]
           new(k) == [key |-> k, a |-> a(k), m |-> m(k), entered |-> FALSE]
<1>1. PICK k \in Keys :
          /\ pc[t] = "get" /\ NextKey(t, k)
          /\ alock'  = [alock EXCEPT ![p][k] = a(k)]
          /\ acount' = [acount EXCEPT ![p][k] = @ + 1]
          /\ aclean' = [aclean EXCEPT ![p] = IF acount[p][k] = 0 THEN @ \ {k} ELSE @]
          /\ mlock'  = [mlock EXCEPT ![k] = m(k)]
          /\ mcount' = [mcount EXCEPT ![k] = IF mlock[k] = Absent THEN 1 ELSE @ + 1]
          /\ mclean' = IF mlock[k] # Absent /\ mcount[k] = 0 THEN mclean \ {k} ELSE mclean
          /\ ul' = [ul EXCEPT ![t] = Append(@, new(k))]
          /\ pc' = [pc EXCEPT ![t] = "wait"]
          /\ UNCHANGED <<aowner, mowner, blocked, requests>>
  BY DEF GetLock, Runs, Goto
<1> DEFINE e == new(k)
           s == ul[t]
<1>2. /\ Refs(k) \subseteq Tasks /\ IsFiniteSet(Refs(k)) /\ IsFiniteSet(RefsIn(p, k))
      /\ p \in Procs /\ s \in Seq(Entry) /\ mcount[k] \in Nat /\ acount[p][k] \in Nat
      /\ mlock[k] \in Ids \cup {Absent} /\ alock[p][k] \in Ids \cup {Absent}
  <2>1. p \in Procs /\ s \in Seq(Entry)
    BY EntryTyped
  <2>2. /\ mcount[k] \in Nat /\ acount[p][k] \in Nat
        /\ mlock[k] \in Ids \cup {Absent} /\ alock[p][k] \in Ids \cup {Absent}
    BY <2>1 DEF TypeOK
  <2>3. Refs(k) \subseteq Tasks
    BY DEF Refs
  <2> QED BY <2>1, <2>2, <2>3, RefsFinite
<1>3. /\ Counted(mlock[k], mcount[k], k, mclean, Refs(k))
      /\ Counted(alock[p][k], acount[p][k], k, aclean[p], RefsIn(p, k))
  BY <1>2 DEF Registries
<1>4. Absent \notin Ids /\ 1 \in Ids
  BY LockAssumption, FS_CardinalityType DEF Ids, Absent
<1>5. alock[p][k] = Absent => a(k) \in Ids
  <2> HAVE alock[p][k] = Absent
  <2>1. acount[p][k] = 0 /\ RefsIn(p, k) = {}
    BY <1>2, <1>3, FS_EmptySet DEF Counted
  <2>2. AsyncInUse(p, k) = {}
    BY <2>1 DEF AsyncInUse, RefsIn, Has
  <2>3. NewObject({}) \in Ids
    BY <1>4 DEF NewObject
  <2> QED BY <2>2, <2>3
<1>6. mlock[k] = Absent => m(k) \in Ids
  <2> HAVE mlock[k] = Absent
  <2>1. mcount[k] = 0 /\ Refs(k) = {}
    BY <1>2, <1>3, FS_EmptySet DEF Counted
  <2>2. SharedInUse(k) = {}
    BY <2>1 DEF SharedInUse, Refs, Has
  <2>3. NewObject({}) \in Ids
    BY <1>4 DEF NewObject
  <2> QED BY <2>2, <2>3
<1>7. /\ a(k) \in Ids /\ (alock[p][k] # Absent => a(k) = alock[p][k])
      /\ m(k) \in Ids /\ (mlock[k] # Absent => m(k) = mlock[k])
  BY <1>2, <1>5, <1>6
<1>8. e \in Entry /\ e.key = k /\ e.a = a(k) /\ e.m = m(k) /\ ~e.entered
  BY <1>7 DEF Entry
<1> HIDE DEF a, m, new, e, s, p
<1>9. /\ ul' = [ul EXCEPT ![t] = Append(s, e)] /\ Append(s, e) \in Seq(Entry)
      /\ ul' \in [Tasks -> Seq(Entry)] /\ ul'[t] = Append(s, e)
      /\ \A u \in Tasks \ {t} : ul'[u] = ul[u]
  <2>1. ul' = [ul EXCEPT ![t] = Append(s, e)]
    BY <1>1 DEF e, s
  <2>2. Append(s, e) \in Seq(Entry)
    BY <1>2, <1>8, Appended
  <2> QED BY <2>1, <2>2 DEF TypeOK, Entry
<1>10. /\ \A u \in Tasks \ {t} : /\ Entries(u)' = Entries(u) /\ pc'[u] = pc[u]
                                 /\ Missing(u)' = Missing(u) /\ \A j : Has(u, j)' <=> Has(u, j)
       /\ Entries(t)' = Entries(t) \cup {e} /\ pc'[t] = "wait"
       /\ Last(ul'[t]) = e /\ ul'[t] # <<>>
  <2>1. Range(Append(s, e)) = Range(s) \cup {e} /\ Last(Append(s, e)) = e /\ Append(s, e) # <<>>
    BY <1>2, <1>8, Appended
  <2>2. Entries(t)' = Entries(t) \cup {e}
    BY <1>9, <2>1 DEF Entries, s
  <2>3. \A u \in Tasks \ {t} : Entries(u)' = Entries(u)
    BY <1>9 DEF Entries
  <2>4. \A u \in Tasks \ {t} : Missing(u)' = Missing(u) /\ \A j : Has(u, j)' <=> Has(u, j)
    BY <2>3 DEF Missing, Has
  <2>5. pc'[t] = "wait" /\ \A u \in Tasks \ {t} : pc'[u] = pc[u]
    BY <1>1 DEF TypeOK
  <2> QED BY <1>9, <2>1, <2>2, <2>3, <2>4, <2>5
<1>11. /\ k \in Missing(t) /\ (\A j \in Missing(t) : k <= j) /\ ~Has(t, k)
       /\ \A f \in Entries(t) : f.key < k /\ f.entered
  BY <1>1 DEF NextKey, ContextOK, Missing, Has
<1>12. Missing(t)' = Missing(t) \ {k} /\ \A j : Has(t, j)' <=> Has(t, j) \/ j = k
  BY <1>8, <1>10 DEF Missing, Has
<1>13. /\ Refs(k)' = Refs(k) \cup {t} /\ t \notin Refs(k)
       /\ RefsIn(p, k)' = RefsIn(p, k) \cup {t} /\ t \notin RefsIn(p, k)
       /\ \A j \in Keys \ {k} : Refs(j)' = Refs(j)
       /\ \A q \in Procs, j \in Keys : <<q, j>> # <<p, k>> => RefsIn(q, j)' = RefsIn(q, j)
  <2>1. \A u \in Tasks : \A j \in Keys : Has(u, j)' <=> Has(u, j) \/ (u = t /\ j = k)
    BY <1>10, <1>12
  <2> QED BY <1>11, <2>1 DEF Refs, RefsIn, p
<1>14. TypeOK'
  <2>1. k \in Keys /\ mcount'[k] \in Nat /\ mcount' \in [Keys -> Nat] /\ mlock' \in [Keys -> Ids \cup {Absent}]
    BY <1>1, <1>2, <1>7 DEF TypeOK
  <2>2. acount' \in [Procs -> [Keys -> Nat]] /\ alock' \in [Procs -> [Keys -> Ids \cup {Absent}]]
    BY <1>1, <1>2, <1>7 DEF TypeOK
  <2>3. aclean' \in [Procs -> SUBSET Keys] /\ mclean' \subseteq Keys
    BY <1>1, <1>2 DEF TypeOK
  <2>4. pc' \in [Tasks -> {"out", "get", "wait", "acquire", "held", "unwind"}]
    BY <1>1 DEF TypeOK
  <2> QED BY <1>1, <1>9, <2>1, <2>2, <2>3, <2>4 DEF TypeOK, Entry
<1>15. /\ alock'[p][k] = a(k) /\ mlock'[k] = m(k)
       /\ acount'[p][k] = acount[p][k] + 1 /\ mcount'[k] = mcount[k] + 1
       /\ k \notin aclean'[p] /\ k \notin mclean'
  <2>1. mlock[k] = Absent => mcount[k] = 0 /\ k \notin mclean
    BY <1>3 DEF Counted
  <2>2. k \in mclean => mcount[k] = 0
    BY <1>3 DEF Counted
  <2>3. k \in aclean[p] => acount[p][k] = 0
    BY <1>3 DEF Counted
  <2>4. mcount'[k] = mcount[k] + 1 /\ mlock'[k] = m(k) /\ k \notin mclean'
    BY <1>1, <1>2, <2>1, <2>2 DEF TypeOK
  <2>5. alock'[p][k] = a(k) /\ acount'[p][k] = acount[p][k] + 1 /\ k \notin aclean'[p]
    BY <1>1, <1>2, <2>3 DEF TypeOK
  <2> QED BY <2>4, <2>5
<1>16. /\ \A j \in Keys \ {k} : mlock'[j] = mlock[j] /\ mcount'[j] = mcount[j] /\ (j \in mclean' <=> j \in mclean)
       /\ \A q \in Procs, j \in Keys : <<q, j>> # <<p, k>> =>
              alock'[q][j] = alock[q][j] /\ acount'[q][j] = acount[q][j] /\ (j \in aclean'[q] <=> j \in aclean[q])
  <2>1. \A j \in Keys \ {k} : mlock'[j] = mlock[j] /\ mcount'[j] = mcount[j] /\ (j \in mclean' <=> j \in mclean)
    BY <1>1 DEF TypeOK
  <2>2. ASSUME NEW q \in Procs, NEW j \in Keys, <<q, j>> # <<p, k>>
        PROVE  alock'[q][j] = alock[q][j] /\ acount'[q][j] = acount[q][j] /\ (j \in aclean'[q] <=> j \in aclean[q])
    BY <1>1, <1>2, <2>2 DEF TypeOK
  <2> QED BY <2>1, <2>2
<1>17. Registries'
  <2>1. Counted(mlock[k], mcount[k], k, mclean, Refs(k))'
    <3>1. mcount[k] = Cardinality(Refs(k)) /\ mlock'[k] # Absent
      BY <1>3, <1>4, <1>7, <1>15 DEF Counted
    <3>2. mcount[k] + 1 = Cardinality(Refs(k) \cup {t}) /\ mcount[k] + 1 # 0
      <4>1. IsFiniteSet(Refs(k)) /\ t \notin Refs(k)
        BY <1>2, <1>13
      <4>2. Cardinality(Refs(k) \cup {t}) = Cardinality(Refs(k)) + 1
        BY <4>1, FS_AddElement
      <4> QED BY <1>2, <3>1, <4>2
    <3> QED BY <1>13, <1>15, <3>1, <3>2 DEF Counted
  <2>2. Counted(alock[p][k], acount[p][k], k, aclean[p], RefsIn(p, k))'
    <3>1. acount[p][k] = Cardinality(RefsIn(p, k)) /\ alock'[p][k] # Absent
      BY <1>3, <1>4, <1>7, <1>15 DEF Counted
    <3>2. acount[p][k] + 1 = Cardinality(RefsIn(p, k) \cup {t}) /\ acount[p][k] + 1 # 0
      <4>1. IsFiniteSet(RefsIn(p, k)) /\ t \notin RefsIn(p, k)
        BY <1>2, <1>13
      <4>2. Cardinality(RefsIn(p, k) \cup {t}) = Cardinality(RefsIn(p, k)) + 1
        BY <4>1, FS_AddElement
      <4> QED BY <1>2, <3>1, <4>2
    <3>3. p' = p
      BY DEF p
    <3> QED BY <1>13, <1>15, <3>1, <3>2, <3>3 DEF Counted
  <2>3. ASSUME NEW j \in Keys, j # k PROVE Counted(mlock[j], mcount[j], j, mclean, Refs(j))'
    <3>1. Counted(mlock[j], mcount[j], j, mclean, Refs(j))
      BY DEF Registries
    <3> QED BY <1>13, <1>16, <2>3, <3>1 DEF Counted
  <2>4. ASSUME NEW q \in Procs, NEW j \in Keys, <<q, j>> # <<p, k>>
        PROVE  Counted(alock[q][j], acount[q][j], j, aclean[q], RefsIn(q, j))'
    <3>1. Counted(alock[q][j], acount[q][j], j, aclean[q], RefsIn(q, j))
      BY DEF Registries
    <3> QED BY <1>13, <1>16, <2>4, <3>1 DEF Counted
  <2> QED BY <2>1, <2>2, <2>3, <2>4 DEF Registries, p
<1>18. UsedIsRegistered'
  <2>1. ASSUME NEW u \in Tasks, NEW f \in Entries(u)'
        PROVE  alock'[ProcOf[u]][f.key] = f.a /\ mlock'[f.key] = f.m
    <3>1. CASE u = t /\ f = e
      BY <1>8, <1>15, <3>1 DEF p
    <3>2. CASE f \in Entries(u)
      <4>1. alock[ProcOf[u]][f.key] = f.a /\ mlock[f.key] = f.m
        BY <3>2 DEF UsedIsRegistered
      <4>2. f.key \in Keys /\ f.a \in Ids /\ f.m \in Ids /\ ProcOf[u] \in Procs
        BY <3>2, EntryTyped
      <4>3. mlock'[f.key] = mlock[f.key]
        BY <1>4, <1>7, <1>15, <1>16, <4>1, <4>2
      <4>4. alock'[ProcOf[u]][f.key] = alock[ProcOf[u]][f.key]
        BY <1>4, <1>7, <1>15, <1>16, <4>1, <4>2
      <4> QED BY <4>1, <4>3, <4>4
    <3> QED BY <1>10, <2>1, <3>1, <3>2
  <2> QED BY <2>1 DEF UsedIsRegistered
<1>19. OwnersOK'
  <2>1. /\ aowner' = aowner /\ mowner' = mowner /\ blocked' = blocked /\ pc[t] = "get" /\ pc'[t] = "wait"
        /\ \A u \in Tasks \ {t} : pc'[u] = pc[u] /\ ul'[u] = ul[u] /\ Entries(u)' = Entries(u)
    BY <1>1, <1>9, <1>10
  <2>2. ASSUME NEW u \in Tasks, NEW f \in Entries(u)', f.entered
        PROVE  aowner[ProcOf[u]][f.key][f.a] = u /\ mowner[f.key][f.m] = u
    <3>1. f \in Entries(u)
      BY <1>8, <1>10, <2>2
    <3> QED BY <2>2, <3>1 DEF OwnersOK, Owns
  <2>3. ASSUME NEW u \in Tasks, pc'[u] = "acquire"
        PROVE  aowner[ProcOf[u]][Last(ul'[u]).key][Last(ul'[u]).a] = u /\ blocked[ProcOf[u]] = u
    BY <2>1, <2>3 DEF OwnersOK, Owns
  <2>4. ASSUME NEW q \in Procs, blocked[q] # Nobody
        PROVE  pc'[blocked[q]] = "acquire" /\ ProcOf[blocked[q]] = q
    <3>1. pc[blocked[q]] = "acquire" /\ ProcOf[blocked[q]] = q /\ blocked[q] \in Tasks
      BY <2>4 DEF OwnersOK, TypeOK
    <3> QED BY <2>1, <3>1
  <2>5. ASSUME NEW u \in Tasks, NEW q \in Procs, NEW j \in Keys, NEW i \in Ids, aowner[q][j][i] = u
        PROVE  /\ ProcOf[u] = q
               /\ \E f \in Entries(u)' : /\ f.key = j /\ f.a = i
                                         /\ f.entered \/ (pc'[u] = "acquire" /\ f = Last(ul'[u]))
    <3>1. PICK f \in Entries(u) : /\ f.key = j /\ f.a = i
                                  /\ f.entered \/ (pc[u] = "acquire" /\ f = Last(ul[u]))
      BY <2>5 DEF OwnersOK
    <3>2. ProcOf[u] = q
      BY <2>5 DEF OwnersOK
    <3>3. f \in Entries(u)'
      BY <1>10
    <3> QED BY <2>1, <3>1, <3>2, <3>3
  <2>6. ASSUME NEW u \in Tasks, NEW j \in Keys, NEW i \in Ids, mowner[j][i] = u
        PROVE  \E f \in Entries(u)' : f.key = j /\ f.m = i /\ f.entered
    <3>1. PICK f \in Entries(u) : f.key = j /\ f.m = i /\ f.entered
      BY <2>6 DEF OwnersOK
    <3> QED BY <1>10, <3>1
  <2> QED BY <2>1, <2>2, <2>3, <2>4, <2>5, <2>6 DEF OwnersOK, Owns
<1>20. \A u \in Tasks : ContextOK(u)'
  <2>1. \A u \in Tasks \ {t} : ContextOK(u)'
    BY <1>9, <1>10 DEF ContextOK
  <2>2. /\ Len(Append(s, e)) = Len(s) + 1 /\ DOMAIN Append(s, e) = 1..(Len(s) + 1) /\ Len(s) \in Nat
        /\ DOMAIN s = 1..Len(s)
        /\ \A i \in DOMAIN s : Append(s, e)[i] = s[i] /\ s[i] \in Entries(t)
        /\ Append(s, e)[Len(s) + 1] = e
    <3>1. Len(s) \in Nat /\ DOMAIN s = 1..Len(s) /\ \A i \in DOMAIN s : s[i] \in Entries(t)
      BY <1>2 DEF Entries, Range, s
    <3> QED BY <1>2, <1>8, <3>1, Appended
  <2>3. \A i, j \in DOMAIN ul'[t] : i < j => ul'[t][i].key < ul'[t][j].key
    <3> SUFFICES ASSUME NEW i \in 1..(Len(s) + 1), NEW j \in 1..(Len(s) + 1), i < j
                 PROVE  Append(s, e)[i].key < Append(s, e)[j].key
      BY <1>9, <2>2
    <3>1. i \in DOMAIN s
      BY <2>2
    <3>2. CASE j \in DOMAIN s
      <4>1. s[i].key < s[j].key
        BY <3>1, <3>2 DEF ContextOK, s
      <4> QED BY <2>2, <3>1, <3>2, <4>1
    <3>3. CASE j = Len(s) + 1
      BY <1>8, <1>11, <2>2, <3>1, <3>3
    <3> QED BY <2>2, <3>2, <3>3
  <2>4. \A i \in DOMAIN ul'[t] : i < Len(ul'[t]) => ul'[t][i].entered
    <3> SUFFICES ASSUME NEW i \in 1..(Len(s) + 1), i < Len(s) + 1
                 PROVE  Append(s, e)[i].entered
      BY <1>9, <2>2
    <3>1. i \in DOMAIN s
      BY <2>2
    <3> QED BY <1>11, <2>2, <3>1
  <2>5. \A f \in Entries(t)', j \in Missing(t)' : f.key < j
    <3> SUFFICES ASSUME NEW f \in Entries(t)', NEW j \in Missing(t) \ {k}
                 PROVE  f.key < j
      BY <1>12
    <3>1. CASE f = e
      <4>1. k <= j /\ k # j /\ k \in Nat /\ j \in Nat
        <5>1. Range(Wants[t]) \subseteq Keys
          BY LockAssumption DEF Range
        <5> QED BY <1>11, <5>1, LockAssumption DEF Missing
      <4> QED BY <1>8, <3>1, <4>1
    <3>2. CASE f \in Entries(t)
      BY <1>1, <3>2 DEF ContextOK
    <3> QED BY <1>10, <3>1, <3>2
  <2>6. ContextOK(t)'
    BY <1>8, <1>10, <2>3, <2>4, <2>5 DEF ContextOK
  <2> QED BY <2>1, <2>6
<1> QED BY <1>14, <1>17, <1>18, <1>19, <1>20

\* What is forgotten was due, so nobody referred to it.
LEMMA PrunedKey ==
    ASSUME NEW lock, NEW count \in [Keys -> Nat], NEW clean, NEW gone, gone \subseteq clean,
           NEW j \in Keys, NEW refs, IsFiniteSet(refs), Counted(lock[j], count[j], j, clean, refs)
    PROVE  Counted(Forget(lock, gone)[j], Uncount(count, gone)[j], j, clean \ gone, refs)
<1>1. Cardinality(refs) = 0 <=> refs = {}
  BY FS_EmptySet
<1>2. CASE j \in gone
  <2>1. Cardinality(refs) = 0 /\ j \in clean
    BY <1>2 DEF Counted
  <2>2. Forget(lock, gone)[j] = Absent /\ Uncount(count, gone)[j] = 0
    BY <1>2 DEF Forget, Uncount
  <2> QED BY <1>1, <1>2, <2>1, <2>2 DEF Counted
<1>3. CASE j \notin gone
  <2>1. Forget(lock, gone)[j] = lock[j] /\ Uncount(count, gone)[j] = count[j]
    BY <1>3 DEF Forget, Uncount
  <2> QED BY <1>3, <2>1 DEF Counted
<1> QED BY <1>2, <1>3

\* A key that a context refers to is not due.
LEMMA UsedNotDue ==
    ASSUME IInv, NEW u \in Tasks, NEW f \in Entries(u)
    PROVE  f.key \notin mclean /\ f.key \notin aclean[ProcOf[u]]
<1> DEFINE k == f.key
<1>1. k \in Keys /\ ProcOf[u] \in Procs
  BY EntryTyped DEF IInv
<1>2. u \in Refs(k) /\ u \in RefsIn(ProcOf[u], k)
  BY DEF Refs, RefsIn, Has
<1>3. Cardinality(Refs(k)) # 0 /\ Cardinality(RefsIn(ProcOf[u], k)) # 0
  BY <1>2, RefsFinite, FS_EmptySet
<1>4. /\ Counted(mlock[k], mcount[k], k, mclean, Refs(k))
      /\ Counted(alock[ProcOf[u]][k], acount[ProcOf[u]][k], k, aclean[ProcOf[u]], RefsIn(ProcOf[u], k))
  BY <1>1 DEF IInv, Registries
<1> HIDE DEF k
<1>5. k \notin mclean /\ k \notin aclean[ProcOf[u]]
  BY <1>3, <1>4 DEF Counted
<1> QED BY <1>5 DEF k

LEMMA PrunedTyped ==
    ASSUME NEW lock \in [Keys -> Ids \cup {Absent}], NEW count \in [Keys -> Nat], NEW gone
    PROVE  Forget(lock, gone) \in [Keys -> Ids \cup {Absent}] /\ Uncount(count, gone) \in [Keys -> Nat]
BY DEF Forget, Uncount

LEMMA CleanupIInv ==
    ASSUME IInv, NEW p \in Procs, CleanupExpired(p)
    PROVE  IInv'
<1> USE DEF IInv
<1>1. PICK sgone \in SUBSET mclean, agone \in SUBSET aclean[p] :
          /\ mlock' = Forget(mlock, sgone) /\ mcount' = Uncount(mcount, sgone) /\ mclean' = mclean \ sgone
          /\ alock'  = [alock EXCEPT ![p] = Forget(@, agone)]
          /\ acount' = [acount EXCEPT ![p] = Uncount(@, agone)]
          /\ aclean' = [aclean EXCEPT ![p] = @ \ agone]
  BY DEF CleanupExpired
<1>2. UNCHANGED <<aowner, mowner, pc, ul, blocked, requests>>
  BY DEF CleanupExpired
<1>3. \A u \in Tasks : Entries(u)' = Entries(u) /\ Missing(u)' = Missing(u) /\ \A j : Has(u, j)' <=> Has(u, j)
  BY <1>2 DEF Entries, Missing, Has
<1>4. \A j \in Keys : Refs(j)' = Refs(j) /\ \A q \in Procs : RefsIn(q, j)' = RefsIn(q, j)
  BY <1>3 DEF Refs, RefsIn
<1>5. /\ alock'[p] = Forget(alock[p], agone) /\ acount'[p] = Uncount(acount[p], agone)
      /\ aclean'[p] = aclean[p] \ agone
      /\ \A q \in Procs \ {p} : alock'[q] = alock[q] /\ acount'[q] = acount[q] /\ aclean'[q] = aclean[q]
      /\ mcount \in [Keys -> Nat] /\ acount[p] \in [Keys -> Nat]
      /\ mlock \in [Keys -> Ids \cup {Absent}] /\ alock[p] \in [Keys -> Ids \cup {Absent}]
  BY <1>1 DEF TypeOK
<1>6. ASSUME NEW j \in Keys
      PROVE  Counted(mlock[j], mcount[j], j, mclean, Refs(j))'
  <2>1. Counted(mlock[j], mcount[j], j, mclean, Refs(j)) /\ IsFiniteSet(Refs(j))
    BY RefsFinite DEF Registries
  <2>2. Counted(Forget(mlock, sgone)[j], Uncount(mcount, sgone)[j], j, mclean \ sgone, Refs(j))
    <3> DEFINE r == Refs(j)
    <3>1. sgone \subseteq mclean /\ mcount \in [Keys -> Nat]
      BY <1>5
    <3>2. Counted(mlock[j], mcount[j], j, mclean, r) /\ IsFiniteSet(r)
      BY <2>1
    <3> HIDE DEF r
    <3>3. Counted(Forget(mlock, sgone)[j], Uncount(mcount, sgone)[j], j, mclean \ sgone, r)
      BY <3>1, <3>2, PrunedKey
    <3> QED BY <3>3 DEF r
  <2> QED BY <1>1, <1>4, <2>2 DEF Counted
<1>7. ASSUME NEW q \in Procs, NEW j \in Keys
      PROVE  Counted(alock[q][j], acount[q][j], j, aclean[q], RefsIn(q, j))'
  <2>1. Counted(alock[q][j], acount[q][j], j, aclean[q], RefsIn(q, j)) /\ IsFiniteSet(RefsIn(q, j))
    BY RefsFinite DEF Registries
  <2>2. CASE q = p
    <3>1. Counted(Forget(alock[p], agone)[j], Uncount(acount[p], agone)[j], j, aclean[p] \ agone, RefsIn(p, j))
      <4> DEFINE r == RefsIn(p, j)
      <4>1. agone \subseteq aclean[p] /\ acount[p] \in [Keys -> Nat]
        BY <1>5
      <4>2. Counted(alock[p][j], acount[p][j], j, aclean[p], r) /\ IsFiniteSet(r)
        BY <2>1, <2>2
      <4> HIDE DEF r
      <4>3. Counted(Forget(alock[p], agone)[j], Uncount(acount[p], agone)[j], j, aclean[p] \ agone, r)
        BY <4>1, <4>2, PrunedKey
      <4> QED BY <4>3 DEF r
    <3> QED BY <1>4, <1>5, <2>2, <3>1 DEF Counted
  <2>3. CASE q # p
    BY <1>4, <1>5, <2>1, <2>3 DEF Counted
  <2> QED BY <2>2, <2>3
<1>8. Registries'
  BY <1>6, <1>7 DEF Registries
<1>9. UsedIsRegistered'
  <2> SUFFICES ASSUME NEW u \in Tasks, NEW f \in Entries(u)
               PROVE  alock'[ProcOf[u]][f.key] = f.a /\ mlock'[f.key] = f.m
    BY <1>3 DEF UsedIsRegistered
  <2>1. f.key \in Keys /\ ProcOf[u] \in Procs
    BY EntryTyped
  <2>2. f.key \notin mclean /\ f.key \notin aclean[ProcOf[u]]
    BY UsedNotDue
  <2>3. mlock'[f.key] = mlock[f.key]
    BY <1>1, <2>1, <2>2 DEF Forget
  <2>4. alock'[ProcOf[u]][f.key] = alock[ProcOf[u]][f.key]
    BY <1>5, <2>1, <2>2 DEF Forget
  <2> QED BY <2>3, <2>4 DEF UsedIsRegistered
<1>10. OwnersOK'
  BY <1>2, <1>3 DEF OwnersOK, Owns
<1>11. \A u \in Tasks : ContextOK(u)'
  BY <1>2, <1>3 DEF ContextOK
<1>12. TypeOK'
  <2>1. /\ mlock' \in [Keys -> Ids \cup {Absent}] /\ mcount' \in [Keys -> Nat] /\ mclean' \subseteq Keys
    BY <1>1, <1>5, PrunedTyped DEF TypeOK
  <2>2. /\ Forget(alock[p], agone) \in [Keys -> Ids \cup {Absent}]
        /\ Uncount(acount[p], agone) \in [Keys -> Nat]
    BY <1>5, PrunedTyped
  <2>3. /\ alock' \in [Procs -> [Keys -> Ids \cup {Absent}]] /\ acount' \in [Procs -> [Keys -> Nat]]
    BY <1>1, <2>2 DEF TypeOK
  <2>4. aclean' \in [Procs -> SUBSET Keys]
    BY <1>1 DEF TypeOK
  <2> QED BY <1>2, <2>1, <2>3, <2>4 DEF TypeOK
<1> QED BY <1>8, <1>9, <1>10, <1>11, <1>12

\* The entry taken off is the only one with its key.
LEMMA LastOff ==
    ASSUME IInv, NEW t \in Tasks, ul[t] # <<>>
    PROVE  /\ Front(ul[t]) \in Seq(Entry) /\ Last(ul[t]) \in Entries(t)
           /\ Entries(t) = Range(Front(ul[t])) \cup {Last(ul[t])}
           /\ \A f \in Range(Front(ul[t])) : f.key # Last(ul[t]).key /\ f.entered
           /\ \A i, j \in DOMAIN Front(ul[t]) : i < j => Front(ul[t])[i].key < Front(ul[t])[j].key
           /\ \A i \in DOMAIN Front(ul[t]) : Front(ul[t])[i].entered
<1> DEFINE s == ul[t]
<1>1. s \in Seq(Entry) /\ s # <<>> /\ Last(s) \in Entries(t)
  BY EntryTyped DEF IInv
<1>2. /\ Front(s) \in Seq(Entry) /\ DOMAIN s = 1..Len(s) /\ Len(s) \in Nat \ {0} /\ Last(s) = s[Len(s)]
      /\ DOMAIN Front(s) = 1..(Len(s) - 1) /\ \A i \in DOMAIN Front(s) : Front(s)[i] = s[i]
      /\ Range(s) = Range(Front(s)) \cup {Last(s)}
  <2> HIDE DEF s
  <2> QED BY <1>1, Fronted
<1>3. /\ \A i, j \in DOMAIN s : i < j => s[i].key < s[j].key
      /\ \A i \in DOMAIN s : i < Len(s) => s[i].entered
  BY DEF IInv, ContextOK
<1>4. ASSUME NEW f \in Range(Front(s)) PROVE f.key # Last(s).key /\ f.entered
  <2>1. PICK i \in 1..(Len(s) - 1) : f = s[i]
    BY <1>2 DEF Range
  <2> HIDE DEF s
  <2>2. f.entered /\ s[i].key < s[Len(s)].key
    BY <1>2, <1>3, <2>1, SMTT(20)
  <2>3. Last(s).key \in Nat
    <3>1. Last(s).key \in Keys
      BY <1>1, EntryTyped DEF IInv
    <3> QED BY <3>1, LockAssumption
  <2> QED BY <1>2, <2>1, <2>2, <2>3
<1>5. \A i, j \in DOMAIN Front(s) : i < j => Front(s)[i].key < Front(s)[j].key
  BY <1>2, <1>3
<1>6. \A i \in DOMAIN Front(s) : Front(s)[i].entered
  BY <1>2, <1>3
<1>7. Entries(t) = Range(Front(s)) \cup {Last(s)}
  BY <1>2 DEF Entries
<1> QED BY <1>1, <1>2, <1>4, <1>5, <1>6, <1>7

LEMMA ReleaseRefIInv ==
    ASSUME IInv, NEW t \in Tasks, ReleaseRef(t)
    PROVE  IInv'
<1> USE DEF IInv
<1>0. PICK k \in Keys : k = Last(ul[t]).key
  <2>1. ul[t] # <<>>
    BY DEF ReleaseRef
  <2> QED BY <2>1, EntryTyped
<1> DEFINE p  == ProcOf[t]
           e  == Last(ul[t])
           ac == IF acount[p][k] = 1 THEN aclean[p] \cup {k} ELSE aclean[p]
           mc == IF mcount[k] = 1 THEN mclean \cup {k} ELSE mclean
           a0 == [acount[p] EXCEPT ![k] = @ - 1]
           m0 == [mcount EXCEPT ![k] = @ - 1]
           s  == ul[t]
<1>1. /\ pc[t] = "unwind" /\ s # <<>> /\ ~e.entered
      /\ UNCHANGED <<aowner, mowner, pc, blocked, requests>>
      /\ ul' = [ul EXCEPT ![t] = Front(s)]
  BY DEF ReleaseRef, Runs
<1>2. PICK agone \in Expirable(ac, {k}) :
          /\ alock'  = [alock EXCEPT ![p] = Forget(alock[p], agone)]
          /\ acount' = [acount EXCEPT ![p] = Uncount(a0, agone)]
          /\ aclean' = [aclean EXCEPT ![p] = ac \ agone]
  BY <1>0 DEF ReleaseRef
<1>3. PICK sgone \in Expirable(mc, {k}) :
          mlock' = Forget(mlock, sgone) /\ mcount' = Uncount(m0, sgone) /\ mclean' = mc \ sgone
  BY <1>0 DEF ReleaseRef
<1>4. agone \subseteq ac /\ k \notin agone /\ sgone \subseteq mc /\ k \notin sgone
  BY <1>2, <1>3 DEF Expirable
<1>5. p \in Procs /\ k \in Keys /\ e \in Entries(t) /\ s \in Seq(Entry)
  BY <1>1, EntryTyped
<1>6. /\ mcount \in [Keys -> Nat] /\ acount[p] \in [Keys -> Nat] /\ mclean \subseteq Keys /\ aclean[p] \subseteq Keys
      /\ mlock \in [Keys -> Ids \cup {Absent}] /\ alock[p] \in [Keys -> Ids \cup {Absent}]
  BY <1>5 DEF TypeOK
<1>7. /\ Front(s) \in Seq(Entry) /\ Entries(t) = Range(Front(s)) \cup {e}
      /\ \A f \in Range(Front(s)) : f.key # k /\ f.entered
      /\ \A i, j \in DOMAIN Front(s) : i < j => Front(s)[i].key < Front(s)[j].key
      /\ \A i \in DOMAIN Front(s) : Front(s)[i].entered
  BY <1>0, <1>1, LastOff
<1>8. /\ ul' \in [Tasks -> Seq(Entry)] /\ ul'[t] = Front(s) /\ \A u \in Tasks \ {t} : ul'[u] = ul[u]
  BY <1>1, <1>7 DEF TypeOK, Entry
<1> HIDE DEF p, e, ac, mc, a0, m0, s
<1>9. /\ \A u \in Tasks \ {t} : /\ Entries(u)' = Entries(u) /\ Missing(u)' = Missing(u)
                                /\ \A j : Has(u, j)' <=> Has(u, j)
      /\ Entries(t)' = Range(Front(s)) /\ Entries(t)' \subseteq Entries(t)
  <2>1. Entries(t)' = Range(Front(s)) /\ \A u \in Tasks \ {t} : Entries(u)' = Entries(u)
    BY <1>8 DEF Entries
  <2>2. \A u \in Tasks \ {t} : Missing(u)' = Missing(u) /\ \A j : Has(u, j)' <=> Has(u, j)
    BY <2>1 DEF Missing, Has
  <2> QED BY <1>7, <2>1, <2>2
<1>10. \A j : (Has(t, j)' <=> Has(t, j) /\ j # k) /\ Has(t, k)
  BY <1>0, <1>5, <1>7, <1>9 DEF Has, e
<1>11. /\ Refs(k)' = Refs(k) \ {t} /\ t \in Refs(k)
       /\ RefsIn(p, k)' = RefsIn(p, k) \ {t} /\ t \in RefsIn(p, k)
       /\ \A j \in Keys \ {k} : Refs(j)' = Refs(j)
       /\ \A q \in Procs, j \in Keys : <<q, j>> # <<p, k>> => RefsIn(q, j)' = RefsIn(q, j)
  <2>1. \A u \in Tasks : \A j \in Keys : Has(u, j)' <=> Has(u, j) /\ ~(u = t /\ j = k)
    BY <1>9, <1>10
  <2>2. \A u \in Tasks : Has(u, k)' <=> Has(u, k) /\ u # t
    BY <1>5, <2>1
  <2>3. Refs(k)' = Refs(k) \ {t}
    BY <2>2 DEF Refs
  <2>4. RefsIn(p, k)' = RefsIn(p, k) \ {t}
    BY <2>2 DEF RefsIn, p
  <2>5. t \in Refs(k) /\ t \in RefsIn(p, k)
    BY <1>10 DEF Refs, RefsIn, p
  <2>6. \A j \in Keys \ {k} : Refs(j)' = Refs(j)
    BY <2>1 DEF Refs
  <2>7. \A q \in Procs, j \in Keys : <<q, j>> # <<p, k>> => RefsIn(q, j)' = RefsIn(q, j)
    BY <2>1 DEF RefsIn, p
  <2> QED BY <2>3, <2>4, <2>5, <2>6, <2>7
<1>12. /\ mcount[k] # 0 /\ k \notin mclean /\ mlock[k] # Absent /\ mcount[k] - 1 = Cardinality(Refs(k) \ {t})
       /\ acount[p][k] # 0 /\ k \notin aclean[p] /\ alock[p][k] # Absent
       /\ acount[p][k] - 1 = Cardinality(RefsIn(p, k) \ {t})
  <2> DEFINE r == Refs(k)
             q == RefsIn(p, k)
             al == alock[p][k]
             an == acount[p][k]
             ap == aclean[p]
  <2>1. Counted(mlock[k], mcount[k], k, mclean, r) /\ IsFiniteSet(r) /\ t \in r /\ mcount[k] \in Nat
    BY <1>5, <1>6, <1>11, RefsFinite DEF Registries
  <2>2. Counted(al, an, k, ap, q) /\ IsFiniteSet(q) /\ t \in q /\ an \in Nat
    BY <1>5, <1>6, <1>11, RefsFinite DEF Registries
  <2> HIDE DEF r, q, al, an, ap
  <2>3. mcount[k] # 0 /\ k \notin mclean /\ mlock[k] # Absent /\ mcount[k] - 1 = Cardinality(r \ {t})
    BY <2>1, CountedLess
  <2>4. an # 0 /\ k \notin ap /\ al # Absent /\ an - 1 = Cardinality(q \ {t})
    BY <2>2, CountedLess
  <2> QED BY <2>3, <2>4 DEF r, q, al, an, ap
<1>13. /\ a0 \in [Keys -> Nat] /\ a0[k] = acount[p][k] - 1 /\ \A j \in Keys \ {k} : a0[j] = acount[p][j]
       /\ m0 \in [Keys -> Nat] /\ m0[k] = mcount[k] - 1 /\ \A j \in Keys \ {k} : m0[j] = mcount[j]
  <2>1. mcount[k] - 1 \in Nat /\ acount[p][k] - 1 \in Nat
    BY <1>5, <1>6, <1>12
  <2> QED BY <1>5, <1>6, <2>1 DEF a0, m0
<1>14. /\ (k \in mc <=> mcount[k] = 1) /\ \A j \in Keys \ {k} : j \in mc <=> j \in mclean
       /\ (k \in ac <=> acount[p][k] = 1) /\ \A j \in Keys \ {k} : j \in ac <=> j \in aclean[p]
       /\ mc \subseteq Keys /\ ac \subseteq Keys
  BY <1>5, <1>6, <1>12 DEF mc, ac
<1>15. ASSUME NEW j \in Keys PROVE Counted(mlock[j], mcount[j], j, mclean, Refs(j))'
  <2> DEFINE r == Refs(j)'
  <2>1. Counted(mlock[j], m0[j], j, mc, r)
    <3>1. CASE j = k
      <4>1. m0[k] = Cardinality(r) /\ mcount[k] \in Nat
        <5>1. r = Refs(k) \ {t}
          BY <1>11, <3>1
        <5> QED BY <1>6, <1>12, <1>13, <5>1
      <4>2. m0[k] = 0 <=> k \in mc
        BY <1>12, <1>13, <1>14, <4>1
      <4> QED BY <1>12, <3>1, <4>1, <4>2 DEF Counted
    <3>2. CASE j # k
      <4>1. Counted(mlock[j], mcount[j], j, mclean, Refs(j))
        BY DEF Registries
      <4> QED BY <1>11, <1>13, <1>14, <3>2, <4>1 DEF Counted
    <3> QED BY <3>1, <3>2
  <2>2. IsFiniteSet(r)
    <3>1. r \subseteq Tasks
      BY DEF Refs
    <3> QED BY <3>1, LockAssumption, FS_Subset
  <2> HIDE DEF r
  <2>3. Counted(Forget(mlock, sgone)[j], Uncount(m0, sgone)[j], j, mc \ sgone, r)
    BY <1>4, <1>13, <2>1, <2>2, PrunedKey
  <2>4. Counted(mlock'[j], mcount'[j], j, mclean', r)
    BY <1>3, <2>3
  <2> QED BY <2>4 DEF r, Counted
<1>16. /\ alock'[p] = Forget(alock[p], agone) /\ acount'[p] = Uncount(a0, agone) /\ aclean'[p] = ac \ agone
       /\ \A q \in Procs \ {p} : alock'[q] = alock[q] /\ acount'[q] = acount[q] /\ aclean'[q] = aclean[q]
  BY <1>2, <1>5 DEF TypeOK
<1>17. ASSUME NEW q \in Procs, NEW j \in Keys
       PROVE  Counted(alock[q][j], acount[q][j], j, aclean[q], RefsIn(q, j))'
  <2>1. CASE q = p
    <3> DEFINE r == RefsIn(q, j)'
               l == alock[p]
    <3>1. Counted(l[j], a0[j], j, ac, r)
      <4>1. CASE j = k
        <5>1. a0[k] = Cardinality(r) /\ acount[p][k] \in Nat
          <6>1. r = RefsIn(p, k) \ {t}
            BY <1>11, <2>1, <4>1 DEF p
          <6> QED BY <1>6, <1>12, <1>13, <6>1
        <5>2. a0[k] = 0 <=> k \in ac
          BY <1>12, <1>13, <1>14, <5>1
        <5> QED BY <1>12, <4>1, <5>1, <5>2 DEF Counted
      <4>2. CASE j # k
        <5>1. Counted(alock[p][j], acount[p][j], j, aclean[p], RefsIn(p, j))
          BY <1>5 DEF Registries
        <5> QED BY <1>5, <1>11, <1>13, <1>14, <2>1, <4>2, <5>1 DEF Counted
      <4> QED BY <4>1, <4>2
    <3>2. IsFiniteSet(r)
      <4>1. r \subseteq Tasks
        BY DEF RefsIn
      <4> QED BY <4>1, LockAssumption, FS_Subset
    <3> HIDE DEF r, l
    <3>3. Counted(Forget(l, agone)[j], Uncount(a0, agone)[j], j, ac \ agone, r)
      BY <1>4, <1>13, <3>1, <3>2, PrunedKey
    <3>4. Counted(alock'[q][j], acount'[q][j], j, aclean'[q], r)
      BY <1>16, <2>1, <3>3 DEF l
    <3> QED BY <3>4 DEF r, Counted
  <2>2. CASE q # p
    <3>1. Counted(alock[q][j], acount[q][j], j, aclean[q], RefsIn(q, j))
      BY DEF Registries
    <3> QED BY <1>11, <1>16, <2>2, <3>1 DEF Counted
  <2> QED BY <2>1, <2>2
<1>18. Registries'
  BY <1>15, <1>17 DEF Registries
<1>19. UsedIsRegistered'
  <2> SUFFICES ASSUME NEW u \in Tasks, NEW f \in Entries(u)'
               PROVE  alock'[ProcOf[u]][f.key] = f.a /\ mlock'[f.key] = f.m
    BY DEF UsedIsRegistered
  <2>1. f \in Entries(u)
    BY <1>9
  <2>2. f.key \in Keys /\ ProcOf[u] \in Procs
    BY <2>1, EntryTyped
  <2>3. f.key \notin mclean /\ f.key \notin aclean[ProcOf[u]]
    BY <2>1, UsedNotDue
  <2>4. mlock'[f.key] = mlock[f.key]
    <3>1. f.key \notin sgone
      BY <1>4, <1>14, <2>2, <2>3
    <3> QED BY <1>3, <2>2, <3>1 DEF Forget
  <2>5. alock'[ProcOf[u]][f.key] = alock[ProcOf[u]][f.key]
    <3>1. CASE ProcOf[u] = p
      <4>1. f.key \notin agone
        BY <1>4, <1>14, <2>2, <2>3, <3>1
      <4> QED BY <1>16, <2>2, <3>1, <4>1 DEF Forget
    <3>2. CASE ProcOf[u] # p
      BY <1>16, <2>2, <3>2
    <3> QED BY <3>1, <3>2
  <2> QED BY <2>1, <2>4, <2>5 DEF UsedIsRegistered
<1>20. OwnersOK'
  <2>1. /\ aowner' = aowner /\ mowner' = mowner /\ blocked' = blocked /\ pc' = pc /\ pc[t] = "unwind"
        /\ \A u \in Tasks \ {t} : ul'[u] = ul[u] /\ Entries(u)' = Entries(u)
    BY <1>1, <1>8, <1>9
  <2>2. ASSUME NEW u \in Tasks, NEW f \in Entries(u)', f.entered
        PROVE  aowner[ProcOf[u]][f.key][f.a] = u /\ mowner[f.key][f.m] = u
    <3>1. f \in Entries(u)
      BY <1>9
    <3> QED BY <2>2, <3>1 DEF OwnersOK, Owns
  <2>3. ASSUME NEW u \in Tasks, pc[u] = "acquire"
        PROVE  aowner[ProcOf[u]][Last(ul'[u]).key][Last(ul'[u]).a] = u /\ blocked[ProcOf[u]] = u
    BY <2>1, <2>3 DEF OwnersOK, Owns
  <2>4. \A q \in Procs : blocked[q] # Nobody => pc[blocked[q]] = "acquire" /\ ProcOf[blocked[q]] = q
    BY DEF OwnersOK
  <2>5. ASSUME NEW u \in Tasks, NEW q \in Procs, NEW j \in Keys, NEW i \in Ids, aowner[q][j][i] = u
        PROVE  /\ ProcOf[u] = q
               /\ \E f \in Entries(u)' : /\ f.key = j /\ f.a = i
                                         /\ f.entered \/ (pc[u] = "acquire" /\ f = Last(ul'[u]))
    <3>1. PICK f \in Entries(u) : /\ f.key = j /\ f.a = i
                                  /\ f.entered \/ (pc[u] = "acquire" /\ f = Last(ul[u]))
      BY <2>5 DEF OwnersOK
    <3>2. ProcOf[u] = q
      BY <2>5 DEF OwnersOK
    <3>3. f \in Entries(u)'
      BY <1>1, <1>7, <1>9, <2>1, <3>1
    <3> QED BY <2>1, <3>1, <3>2, <3>3
  <2>6. ASSUME NEW u \in Tasks, NEW j \in Keys, NEW i \in Ids, mowner[j][i] = u
        PROVE  \E f \in Entries(u)' : f.key = j /\ f.m = i /\ f.entered
    <3>1. PICK f \in Entries(u) : f.key = j /\ f.m = i /\ f.entered
      BY <2>6 DEF OwnersOK
    <3> QED BY <1>1, <1>7, <1>9, <3>1
  <2> QED BY <2>1, <2>2, <2>3, <2>4, <2>5, <2>6 DEF OwnersOK, Owns
<1>21. \A u \in Tasks : ContextOK(u)'
  <2>1. pc' = pc /\ pc[t] = "unwind"
    BY <1>1
  <2>2. ContextOK(t)'
    BY <1>7, <1>8, <2>1 DEF ContextOK
  <2>3. \A u \in Tasks \ {t} : ContextOK(u)'
    BY <1>8, <1>9, <2>1 DEF ContextOK
  <2> QED BY <2>2, <2>3
<1>22. TypeOK'
  <2>1. /\ mlock' \in [Keys -> Ids \cup {Absent}] /\ mcount' \in [Keys -> Nat] /\ mclean' \subseteq Keys
    BY <1>3, <1>6, <1>13, <1>14, PrunedTyped
  <2>2. /\ Forget(alock[p], agone) \in [Keys -> Ids \cup {Absent}] /\ Uncount(a0, agone) \in [Keys -> Nat]
    BY <1>6, <1>13, PrunedTyped
  <2>3. /\ alock' \in [Procs -> [Keys -> Ids \cup {Absent}]] /\ acount' \in [Procs -> [Keys -> Nat]]
    BY <1>2, <2>2 DEF TypeOK
  <2>4. aclean' \in [Procs -> SUBSET Keys]
    BY <1>2, <1>14 DEF TypeOK
  <2> QED BY <1>1, <1>8, <2>1, <2>3, <2>4 DEF TypeOK, Entry
<1> QED BY <1>18, <1>19, <1>20, <1>21, <1>22

-----------------------------------------------------------------------------
(* The theorems.                                                            *)

LEMMA NextIInv == IInv /\ [Next]_vars => IInv'
<1> SUFFICES ASSUME IInv, [Next]_vars PROVE IInv'
  OBVIOUS
<1>1. ASSUME NEW t \in Tasks, Request(t) \/ Step(t) \/ CancelWait(t) PROVE IInv'
  <2>1. CASE Request(t) \/ Leave(t) \/ CancelWait(t) \/ Out(t)
    BY <2>1, MoveIInv
  <2>2. CASE GetLock(t)
    BY <2>2, GetLockIInv
  <2>3. CASE AcquireAsync(t)
    BY <2>3, AsyncIInv
  <2>4. CASE AcquireShared(t)
    BY <2>4, SharedIInv
  <2>5. CASE ReleaseLock(t)
    BY <2>5, ReleaseLockIInv
  <2>6. CASE ReleaseRef(t)
    BY <2>6, ReleaseRefIInv
  <2> QED BY <1>1, <2>1, <2>2, <2>3, <2>4, <2>5, <2>6 DEF Step
<1>2. ASSUME NEW p \in Procs, CleanupExpired(p) PROVE IInv'
  BY <1>2, CleanupIInv
<1>3. CASE UNCHANGED vars
  <2>1. UNCHANGED <<alock, acount, aclean, aowner, mlock, mcount, mclean, mowner, pc, ul, blocked, requests>>
    BY <1>3 DEF vars, local, shared
  <2>2. \A u \in Tasks : Entries(u)' = Entries(u) /\ Missing(u)' = Missing(u)
    BY <2>1 DEF Entries, Missing
  <2>3. TypeOK'
    BY <2>1 DEF IInv, TypeOK
  <2>4. UsedIsRegistered'
    BY <2>1, <2>2 DEF IInv, UsedIsRegistered
  <2>5. Registries'
    BY <2>1, <2>2, RegistriesKept DEF IInv, Has
  <2>6. OwnersOK'
    BY <2>1, <2>2 DEF IInv, OwnersOK, Owns
  <2>7. \A u \in Tasks : ContextOK(u)'
    BY <2>1, <2>2 DEF IInv, ContextOK
  <2> QED BY <2>3, <2>4, <2>5, <2>6, <2>7 DEF IInv
<1> QED BY <1>1, <1>2, <1>3 DEF Next

LEMMA SpecIInv == Spec => []IInv
BY InitIInv, NextIInv, PTL DEF Spec

\* Whoever stops its event loop for a manager lock can have it, or it is held in
\* another process: an owner in its own would have the async lock as well.
LEMMA AcquireFree ==
    ASSUME IInv, NEW t \in Tasks, pc[t] = "acquire"
    PROVE  CanStep(t) \/ HeldUp(t)
<1> DEFINE e == Last(ul[t])
<1>1. ul[t] # <<>> /\ ~e.entered /\ Owns(t, e)
  BY DEF IInv, ContextOK, OwnersOK
<1>2. e \in Entries(t) /\ e.key \in Keys /\ e.m \in Ids /\ e.a \in Ids
  BY <1>1, EntryTyped DEF IInv
<1>3. mowner[e.key][e.m] \in Tasks \cup {Nobody}
  BY <1>2 DEF IInv, TypeOK
<1>4. ASSUME NEW u \in Tasks, mowner[e.key][e.m] = u PROVE ProcOf[u] # ProcOf[t]
  <2> SUFFICES ASSUME ProcOf[u] = ProcOf[t] PROVE FALSE
    OBVIOUS
  <2>1. PICK f \in Entries(u) : f.key = e.key /\ f.m = e.m /\ f.entered
    BY <1>2, <1>4 DEF IInv, OwnersOK
  <2>2. aowner[ProcOf[u]][f.key][f.a] = u /\ f.a = alock[ProcOf[u]][f.key]
    BY <2>1 DEF IInv, OwnersOK, Owns, UsedIsRegistered
  <2>3. e.a = alock[ProcOf[t]][e.key] /\ ProcOf[t] = ProcOf[u]
    BY <1>2 DEF IInv, UsedIsRegistered
  <2>4. u = t
    BY <1>1, <2>1, <2>2, <2>3 DEF Owns
  <2> QED BY <1>1, <1>2, <2>1, <2>4, OneEntry
<1> QED BY <1>3, <1>4 DEF CanStep, HeldUp

\* Contexts ascend, so the one that waits for the greatest key waits for nobody.
LEMMA IInvNeverStuck ==
    ASSUME IInv PROVE NeverStuck
<1> SUFFICES ASSUME NEW t0 \in Tasks, pc[t0] # "out", \A t \in Tasks : ~CanStep(t) /\ ~HeldUp(t)
             PROVE  FALSE
  BY DEF NeverStuck
<1>1. \A t \in Tasks : pc[t] # "acquire"
  BY AcquireFree
<1>2. \A t \in Tasks : blocked[ProcOf[t]] = Nobody
  <2> TAKE t \in Tasks
  <2>1. blocked[ProcOf[t]] \in Tasks \cup {Nobody} /\ ProcOf[t] \in Procs
    BY EntryTyped DEF IInv, TypeOK
  <2> QED BY <1>1, <2>1 DEF IInv, OwnersOK
<1>3. ASSUME NEW t \in Tasks, pc[t] # "out" PROVE pc[t] = "wait"
  <2>1. pc[t] \in {"get", "wait", "held", "unwind"}
    BY <1>1, <1>3 DEF IInv, TypeOK
  <2>2. pc[t] # "held" /\ pc[t] # "unwind"
    BY <1>2 DEF CanStep, Runs
  <2>3. CASE pc[t] = "get"
    <3>1. Missing(t) # {}
      BY <2>3 DEF IInv, ContextOK
    <3>2. Missing(t) \subseteq Keys
      BY LockAssumption DEF Missing, Range
    <3>3. PICK k \in Missing(t) : \A j \in Missing(t) : k <= j
      BY <3>1, <3>2, Smallest, LockAssumption
    <3>4. CanStep(t)
      BY <1>2, <2>3, <3>2, <3>3 DEF CanStep, Runs, NextKey
    <3> QED BY <3>4
  <2> QED BY <2>1, <2>2, <2>3
\* The one that waits for the greatest key.
<1> DEFINE W == {t \in Tasks : pc[t] = "wait"}
           K == {Last(ul[t]).key : t \in W}
<1>4. \A t \in W : ul[t] # <<>> /\ Last(ul[t]) \in Entries(t) /\ ~Last(ul[t]).entered
  <2> TAKE t \in W
  <2>1. ul[t] # <<>> /\ ~Last(ul[t]).entered
    BY DEF IInv, ContextOK
  <2> QED BY <2>1, EntryTyped DEF IInv
<1>5. \A t \in W : Last(ul[t]).key \in Keys /\ Last(ul[t]).a \in Ids /\ ProcOf[t] \in Procs
  <2> TAKE t \in W
  <2> QED BY <1>4, EntryTyped DEF IInv
<1>6. K \subseteq Nat /\ K # {} /\ IsFiniteSet(K)
  <2>1. IsFiniteSet(W)
    BY LockAssumption, FS_Subset
  <2>2. IsFiniteSet(K)
    <3> DEFINE g == [t \in W |-> Last(ul[t]).key]
    <3>1. g \in Surjection(W, K)
      BY DEF Surjection
    <3> QED BY <2>1, <3>1, FS_Surjection
  <2>3. t0 \in W
    BY <1>3
  <2>4. K \subseteq Nat
    BY <1>5, LockAssumption
  <2> QED BY <2>2, <2>3, <2>4
<1>7. PICK t \in W : \A u \in W : Last(ul[u]).key <= Last(ul[t]).key
  <2>1. PICK k \in K : \A j \in K : j <= k
    <3> HIDE DEF K
    <3> QED BY <1>6, Greatest
  <2> QED BY <2>1
<1> DEFINE e == Last(ul[t])
<1>8. e \in Entries(t) /\ e.key \in Keys /\ e.a \in Ids /\ ProcOf[t] \in Procs /\ pc[t] = "wait"
  BY <1>4, <1>5
<1>9. aowner[ProcOf[t]][e.key][e.a] # Nobody /\ aowner[ProcOf[t]][e.key][e.a] \in Tasks \cup {Nobody}
  BY <1>2, <1>8 DEF CanStep, Runs, IInv, TypeOK
<1>10. PICK u \in Tasks : aowner[ProcOf[t]][e.key][e.a] = u
  BY <1>9
<1>11. PICK f \in Entries(u) : f.key = e.key /\ f.entered
  BY <1>1, <1>8, <1>10 DEF IInv, OwnersOK
<1>12. u \in W
  <2>1. ul[u] # <<>>
    BY <1>11 DEF Entries, Range
  <2>2. pc[u] # "out"
    BY <2>1 DEF IInv, ContextOK
  <2> QED BY <1>3, <2>2
<1>13. f # Last(ul[u])
  BY <1>4, <1>11, <1>12
<1>14. f.key < Last(ul[u]).key
  <2>1. ul[u] \in Seq(Entry)
    BY EntryTyped DEF IInv
  <2>2. PICK i \in DOMAIN ul[u] : f = ul[u][i]
    BY DEF Entries, Range
  <2>3. DOMAIN ul[u] = 1..Len(ul[u]) /\ Len(ul[u]) \in Nat \ {0} /\ Last(ul[u]) = ul[u][Len(ul[u])]
    BY <1>4, <1>12, <2>1, Fronted
  <2>4. i < Len(ul[u])
    BY <1>13, <2>2, <2>3
  <2> QED BY <2>2, <2>3, <2>4 DEF IInv, ContextOK
<1>15. Last(ul[u]).key <= e.key /\ Last(ul[u]).key \in Nat /\ e.key \in Nat
  BY <1>5, <1>7, <1>8, <1>12, LockAssumption
<1> QED BY <1>11, <1>14, <1>15

\* A key entered by a coroutine has a manager lock, and one owner of it.
LEMMA IInvLock == IInv => LockInv
<1> SUFFICES ASSUME IInv PROVE LockInv
  OBVIOUS
<1>1. MutualExclusion
  <2> SUFFICES ASSUME NEW t \in Tasks, NEW u \in Tasks, NEW e \in Entries(t), NEW f \in Entries(u),
                      e.entered, f.entered, e.key = f.key
               PROVE  t = u
    BY DEF MutualExclusion, Entered
  <2>1. e.m = f.m
    BY DEF IInv, UsedIsRegistered
  <2>2. mowner[e.key][e.m] = t /\ mowner[f.key][f.m] = u
    BY DEF IInv, OwnersOK
  <2> QED BY <2>1, <2>2
<1>2. CountsExact
  <2> SUFFICES ASSUME NEW k \in Keys
               PROVE  /\ mcount[k] = Cardinality(Refs(k))
                      /\ mcount[k] = 0 <=> (mlock[k] = Absent \/ k \in mclean)
                      /\ \A p \in Procs :
                           /\ acount[p][k] = Cardinality(RefsIn(p, k))
                           /\ acount[p][k] = 0 <=> (alock[p][k] = Absent \/ k \in aclean[p])
    BY DEF CountsExact, Refs, RefsIn, Has
  <2> QED BY DEF IInv, Registries, Counted
<1> QED BY <1>1, <1>2, IInvNeverStuck DEF LockInv, IInv

\* The locks and their registries, for any processes, coroutines and keys:
\* nobody holds a key that another one holds, every lock somebody uses is the
\* registered one, the reference counts are the references, and no coroutines wait
\* for each other in a circle.
THEOREM LockTheorem == Spec => []LockInv
BY SpecIInv, IInvLock, PTL

\* One worker process cannot deadlock: whenever a coroutine is in a context, one
\* of them can go on, whatever sets of keys they ask for.
THEOREM OneLoopTheorem ==
    ASSUME \A t, u \in Tasks : ProcOf[t] = ProcOf[u]
    PROVE  Spec => []((\E t \in Tasks : pc[t] # "out") => \E t \in Tasks : CanStep(t))
<1>1. LockInv => ((\E t \in Tasks : pc[t] # "out") => \E t \in Tasks : CanStep(t))
  BY DEF LockInv, NeverStuck, HeldUp
<1> QED BY <1>1, LockTheorem, PTL
-----------------------------------------------------------------------------
(***************************************************************************)
(* The file stores.                                                        *)
(***************************************************************************)

(* The inductive invariant.                                                 *)

\* Coroutines work in sessions of copies that are ready, on a known change; a
\* copy that is not ready has never been changed.
WorkOK ==
    /\ \A c \in session : stage[c] = "ready"
    /\ \A t \in Writers : at[t] # "idle" => Home[t] \in session
    /\ \A t \in Writers : at[t] \in {"hold", "orphan"} => change[t] \in Change
    /\ \A c \in Copies : stage[c] # "ready" => unsaved[c] = Untouched

\* A flag that is up in a session no other copy has crossed was up when the
\* session began, and nothing has been done since.  An object is replaced under
\* a coroutine only in a crossed session.
Uncrossed ==
    /\ \A c \in session : flag[c] /\ ~ crossed[c] =>
          unsaved[c] = Untouched /\ \A t \in Writers : Home[t] = c => at[t] = "idle"
    /\ \A t \in Writers : at[t] = "orphan" => crossed[Home[t]]

InStep(c) == c \in Copies /\ stage[c] = "ready" /\ ~ flag[c]

\* A copy whose flag is down differs from the file only in what it has changed,
\* and of what it has changed it shows the last version.
Based ==
    \A c \in Copies : InStep(c) =>
        \A i \in Items :
            /\ unsaved[c][i] = None /\ ~ missed[c] =>
                  {r \in mem[c] : r.id = i} = {r \in file : r.id = i}
            /\ unsaved[c][i] # None =>
                  {r.ver : r \in {x \in mem[c] : x.id = i}} = {unsaved[c][i]} \ {Gone}

FileIInv == FileTypeOK /\ WorkOK /\ Uncrossed /\ Based

\* Initially nothing is stored and no copy is built.
LEMMA FileInitIInv == FileInit => FileIInv
BY StoreAssumption DEF FileInit, FileIInv, FileTypeOK, WorkOK, Uncrossed, Based, InStep,
                        Untouched, OnePerId, Versions, Gone, Record

-----------------------------------------------------------------------------
(* Copies and sessions.                                                     *)

\* A copy is built.
LEMMA BuildIInv == ASSUME FileIInv, NEW c \in Copies, Build(c) PROVE FileIInv'
<1>1. FileTypeOK'
  BY DEF Build, ghost, FileIInv, FileTypeOK
<1>2. WorkOK'
  BY DEF Build, ghost, FileIInv, FileTypeOK, WorkOK
<1>3. Uncrossed'
  BY DEF Build, ghost, FileIInv, Uncrossed
<1>4. Based'
  BY DEF Build, ghost, FileIInv, FileTypeOK, Based, InStep
<1> QED BY <1>1, <1>2, <1>3, <1>4 DEF FileIInv

\* A copy that is registered after a save it did not see is marked.
LEMMA RegisterIInv == ASSUME FileIInv, NEW c \in Copies, Register(c) PROVE FileIInv'
<1>1. FileTypeOK'
  BY DEF Register, FileIInv, FileTypeOK
<1>2. c \notin session /\ unsaved[c] = Untouched
  BY DEF Register, FileIInv, WorkOK
<1>3. WorkOK'
  BY DEF Register, FileIInv, FileTypeOK, WorkOK
<1>4. Uncrossed'
  BY <1>2 DEF Register, FileIInv, FileTypeOK, Uncrossed
<1>5. Based'
  BY <1>2 DEF Register, FileIInv, FileTypeOK, Based, InStep, Untouched
<1> QED BY <1>1, <1>3, <1>4, <1>5 DEF FileIInv

\* A session begins on a copy without coroutines.
LEMMA EnterIInv ==
    ASSUME FileIInv, NEW c \in Copies, Enter(c), owner' \in Copies \cup {None},
           UNCHANGED <<file, sync, at, change, writes, missed>>
    PROVE  FileIInv'
<1>1. FileTypeOK'
  BY DEF Enter, sync, FileIInv, FileTypeOK, Untouched
<1>2. \A t \in Writers : Home[t] = c => at[t] = "idle"
  BY DEF Enter, FileIInv, WorkOK
<1>3. WorkOK'
  BY DEF Enter, sync, FileIInv, FileTypeOK, WorkOK
<1>4. Uncrossed'
  BY <1>2 DEF Enter, sync, FileIInv, FileTypeOK, Uncrossed
<1>5. Based'
  BY ZenonT(40) DEF Enter, sync, FileIInv, FileTypeOK, Based, InStep
<1> QED BY <1>1, <1>3, <1>4, <1>5 DEF FileIInv

\* A session ends when its coroutines have.
LEMMA EndIInv == ASSUME FileIInv, NEW c \in Copies, End(c) PROVE FileIInv'
<1>1. FileTypeOK'
  BY DEF End, sync, ghost, FileIInv, FileTypeOK
<1>2. WorkOK'
  BY DEF End, sync, ghost, FileIInv, WorkOK, Working
<1>3. Uncrossed'
  BY DEF End, sync, ghost, FileIInv, Uncrossed
<1>4. Based'
  BY DEF End, sync, ghost, FileIInv, Based, InStep
<1> QED BY <1>1, <1>2, <1>3, <1>4 DEF FileIInv

-----------------------------------------------------------------------------
(* Looking at a copy.                                                       *)

\* A reload leaves the other copies alone and the copy equal to the file.
LEMMA Reloaded ==
    ASSUME FileIInv, NEW c \in Copies, Reload(c), UNCHANGED <<file, stage>>
    PROVE  /\ mem' \in [Copies -> SUBSET Record] /\ \A d \in Copies : OnePerId(mem'[d])
           /\ flag' \in [Copies -> BOOLEAN] /\ missed' \in [Copies -> BOOLEAN]
           /\ unsaved' \in [Copies -> [Items -> Versions \cup {Gone, None}]]
           /\ unsaved'[c] = Untouched /\ ~ flag'[c]
           /\ \A d \in Copies \ {c} : unsaved'[d] = unsaved[d] /\ flag'[d] = flag[d]
           /\ Based'
<1>1. /\ mem' = [mem EXCEPT ![c] = file] /\ flag' = [flag EXCEPT ![c] = FALSE]
      /\ unsaved' = [unsaved EXCEPT ![c] = Untouched] /\ missed' = [missed EXCEPT ![c] = FALSE]
  BY DEF Reload
<1>2. mem' \in [Copies -> SUBSET Record] /\ \A d \in Copies : OnePerId(mem'[d])
  BY <1>1 DEF FileIInv, FileTypeOK
<1>3. Untouched \in [Items -> Versions \cup {Gone, None}]
  BY DEF Untouched
<1>4. Based'
  BY <1>1 DEF FileIInv, FileTypeOK, Based, InStep, Untouched
<1> QED BY <1>1, <1>2, <1>3, <1>4 DEF FileIInv, FileTypeOK

\* A coroutine that loses its object was crossed.
LEMMA OrphansCrossed ==
    ASSUME FileIInv, NEW c \in Copies, flag[c], NEW t \in Writers, Orphaned(c)[t] = "orphan"
    PROVE  crossed[Home[t]]
<1>1. CASE Home[t] = c /\ at[t] = "hold"
  BY <1>1 DEF FileIInv, WorkOK, Uncrossed
<1>2. CASE ~ (Home[t] = c /\ at[t] = "hold")
  BY <1>2 DEF Orphaned, FileIInv, Uncrossed
<1> QED BY <1>1, <1>2

\* Replacing an object changes the place of a coroutine that holds it, and of
\* nobody else.
LEMMA OrphansPlaced ==
    ASSUME FileIInv, NEW c \in Copies
    PROVE  /\ Orphaned(c) \in [Writers -> {"idle", "hold", "orphan", "gap"}]
           /\ \A t \in Writers : (Orphaned(c)[t] = "idle") <=> (at[t] = "idle")
           /\ \A t \in Writers : Orphaned(c)[t] \in {"hold", "orphan"} => at[t] \in {"hold", "orphan"}
BY DEF Orphaned, FileIInv, FileTypeOK

\* A look from outside a job.
LEMMA ReadIInv == ASSUME FileIInv, NEW c \in Copies, Read(c) PROVE FileIInv'
<1>1. /\ flag[c] /\ Reload(c) /\ at' = Orphaned(c) /\ stage[c] = "ready"
      /\ UNCHANGED <<file, stage, owner, session, change, writes, crossed>>
  BY DEF Read
<1>2. FileTypeOK'
  BY <1>1, Reloaded, OrphansPlaced DEF FileIInv, FileTypeOK
<1>3. WorkOK'
  BY <1>1, Reloaded, OrphansPlaced DEF FileIInv, FileTypeOK, WorkOK
<1>4. \A t \in Writers : at'[t] = "orphan" => crossed'[Home[t]]
  BY <1>1, OrphansCrossed
<1>5. Uncrossed'
  BY <1>1, <1>4, Reloaded, OrphansPlaced, SMTT(20) DEF FileIInv, FileTypeOK, Uncrossed
<1> QED BY <1>1, <1>2, <1>3, <1>5, Reloaded DEF FileIInv

\* A coroutine looks and keeps what it got.
LEMMA LookIInv ==
    ASSUME FileIInv, NEW t \in Writers, at[t] = "idle", Home[t] \in session, Look(t),
           NEW ch \in Change, change' = [change EXCEPT ![t] = ch], writes' \in 0..MaxWrites,
           UNCHANGED <<file, stage, owner, session, crossed>>
    PROVE  FileIInv'
<1>1. Home[t] \in Copies
  BY StoreAssumption
<1>2. CASE flag[Home[t]]
  <2>1. Reload(Home[t]) /\ at' = [Orphaned(Home[t]) EXCEPT ![t] = "hold"]
    BY <1>2 DEF Look
  <2>2. FileTypeOK'
    BY <1>1, <2>1, Reloaded, OrphansPlaced DEF FileIInv, FileTypeOK
  <2>3. WorkOK'
    BY <1>1, <2>1, Reloaded, OrphansPlaced DEF FileIInv, FileTypeOK, WorkOK
  <2>4. \A u \in Writers : at'[u] = "orphan" => crossed'[Home[u]]
    BY <1>1, <1>2, <2>1, OrphansCrossed, OrphansPlaced
  <2>5. ASSUME NEW d \in session', flag'[d], ~ crossed'[d]
        PROVE  unsaved'[d] = Untouched /\ \A u \in Writers : Home[u] = d => at'[u] = "idle"
    <3>1. d \in Copies \ {Home[t]} /\ d \in session /\ ~ crossed[d]
      BY <1>1, <2>1, <2>5, Reloaded DEF FileIInv, FileTypeOK
    <3>2. unsaved'[d] = unsaved[d] /\ flag[d]
      BY <1>1, <2>1, <2>5, <3>1, Reloaded
    <3>3. ASSUME NEW u \in Writers, Home[u] = d PROVE at'[u] = "idle"
      <4>1. at'[u] = Orphaned(Home[t])[u]
        BY <1>1, <2>1, <3>1, <3>3, OrphansPlaced
      <4> QED BY <1>1, <3>1, <3>2, <3>3, <4>1, OrphansPlaced DEF FileIInv, Uncrossed
    <3> QED BY <3>1, <3>2, <3>3 DEF FileIInv, Uncrossed
  <2>6. Uncrossed'
    BY <2>4, <2>5 DEF Uncrossed
  <2> QED BY <1>1, <2>1, <2>2, <2>3, <2>6, Reloaded DEF FileIInv
<1>3. CASE ~ flag[Home[t]]
  <2>1. UNCHANGED <<mem, flag, unsaved, missed>> /\ at' = [at EXCEPT ![t] = "hold"]
    BY <1>3 DEF Look
  <2>2. FileTypeOK'
    BY <2>1 DEF FileIInv, FileTypeOK
  <2>3. WorkOK'
    BY <2>1 DEF FileIInv, FileTypeOK, WorkOK
  <2>4. Uncrossed'
    BY <1>3, <2>1 DEF FileIInv, FileTypeOK, Uncrossed
  <2>5. Based'
    BY <2>1 DEF FileIInv, Based, InStep
  <2> QED BY <2>2, <2>3, <2>4, <2>5 DEF FileIInv
<1> QED BY <1>2, <1>3

\* A record is about to be written.
LEMMA UpsertIInv == ASSUME FileIInv, NEW t \in Writers, NEW i \in Items, Upsert(t, i) PROVE FileIInv'
<1>1. writes \in Nat /\ writes < MaxWrites /\ writes' = writes + 1 /\ MaxWrites \in Nat
  BY StoreAssumption DEF Upsert, FileIInv, FileTypeOK
<1>2. writes' \in 0..MaxWrites /\ writes + 1 \in Versions
  BY <1>1 DEF Versions
<1>3. [id |-> i, ver |-> writes + 1] \in Change
  BY <1>2 DEF Change
<1> QED BY <1>2, <1>3, LookIInv DEF Upsert

\* A record is about to be removed.
LEMMA DeleteIInv == ASSUME FileIInv, NEW t \in Writers, NEW i \in Items, Delete(t, i) PROVE FileIInv'
<1>1. [id |-> i, ver |-> Gone] \in Change
  BY DEF Change
<1>2. writes' \in 0..MaxWrites
  BY DEF Delete, FileIInv, FileTypeOK
<1> QED BY <1>1, <1>2, LookIInv DEF Delete

\* After a change the item has the version of the change and no other.
LEMMA AfterFacts ==
    ASSUME NEW records \in SUBSET Record, OnePerId(records), NEW ch \in Change
    PROVE  /\ After(records, ch) \in SUBSET Record /\ OnePerId(After(records, ch))
           /\ \A i \in Items : i # ch.id =>
                  {r \in After(records, ch) : r.id = i} = {r \in records : r.id = i}
           /\ {r.ver : r \in {x \in After(records, ch) : x.id = ch.id}} = {ch.ver} \ {Gone}
<1>1. ch.id \in Items /\ ch.ver \in Versions \cup {Gone} /\ (ch.ver # Gone => ch \in Record)
  BY DEF Change, Record
<1>2. After(records, ch) \in SUBSET Record
  BY <1>1 DEF After
<1>3. OnePerId(After(records, ch))
  BY DEF After, OnePerId
<1>4. \A i \in Items : i # ch.id =>
          {r \in After(records, ch) : r.id = i} = {r \in records : r.id = i}
  BY DEF After
<1>5. {x \in After(records, ch) : x.id = ch.id} = IF ch.ver = Gone THEN {} ELSE {ch}
  BY DEF After
<1> QED BY <1>2, <1>3, <1>4, <1>5

\* A change is made, on the copy or on an orphan of it.
LEMMA ApplyIInv == ASSUME FileIInv, NEW t \in Writers, Apply(t) PROVE FileIInv'
<1> DEFINE c == Home[t]
           ch == change[t]
<1>1. /\ c \in Copies /\ ch \in Change /\ c \in session
      /\ at[t] \in {"hold", "orphan"} /\ (at[t] = "orphan" => crossed[c])
  BY StoreAssumption DEF Apply, FileIInv, WorkOK, Uncrossed
<1>2. /\ mem' = IF at[t] = "hold" THEN [mem EXCEPT ![c] = After(@, ch)] ELSE mem
      /\ unsaved' = IF at[t] = "hold" THEN [unsaved EXCEPT ![c][ch.id] = ch.ver] ELSE unsaved
      /\ at' = [at EXCEPT ![t] = "idle"] /\ change' = [change EXCEPT ![t] = None]
      /\ UNCHANGED <<file, stage, flag, owner, session, writes, crossed, missed>>
  <2>1. at[t] = "hold" \/ ~ crossed[c] <=> at[t] = "hold"
    BY <1>1
  <2> QED BY <2>1 DEF Apply
<1>3. ch.id \in Items /\ ch.ver \in Versions \cup {Gone} /\ ch.ver # None
  BY <1>1, StoreAssumption DEF Change, Versions, Gone
<1>4. /\ After(mem[c], ch) \in SUBSET Record /\ OnePerId(After(mem[c], ch))
      /\ \A i \in Items : i # ch.id =>
             {r \in After(mem[c], ch) : r.id = i} = {r \in mem[c] : r.id = i}
      /\ {r.ver : r \in {x \in After(mem[c], ch) : x.id = ch.id}} = {ch.ver} \ {Gone}
  BY <1>1, AfterFacts DEF FileIInv, FileTypeOK
<1> HIDE DEF c, ch
<1>5. FileTypeOK'
  BY <1>1, <1>2, <1>3, <1>4 DEF FileIInv, FileTypeOK
<1>6. WorkOK'
  BY <1>1, <1>2 DEF FileIInv, FileTypeOK, WorkOK
<1>7. flag[c] => crossed[c] \/ at[t] # "hold"
  BY <1>1 DEF FileIInv, Uncrossed, c
<1>8. Uncrossed'
  BY <1>1, <1>2, <1>7 DEF FileIInv, FileTypeOK, Uncrossed
<1>9. Based'
  <2> SUFFICES ASSUME NEW d \in Copies, InStep(d)', NEW i \in Items
               PROVE  /\ unsaved'[d][i] = None /\ ~ missed'[d] =>
                            {r \in mem'[d] : r.id = i} = {r \in file' : r.id = i}
                      /\ unsaved'[d][i] # None =>
                            {r.ver : r \in {x \in mem'[d] : x.id = i}} = {unsaved'[d][i]} \ {Gone}
    BY DEF Based
  <2>1. InStep(d)
    BY <1>2 DEF InStep
  <2>2. CASE d = c /\ at[t] = "hold"
    <3>1. mem'[d] = After(mem[c], ch) /\ unsaved'[d] = [unsaved[c] EXCEPT ![ch.id] = ch.ver]
      BY <1>1, <1>2, <2>2 DEF FileIInv, FileTypeOK
    <3>2. CASE i = ch.id
      <4>1. unsaved'[d][i] = ch.ver /\ ch.ver # None
        BY <1>1, <1>3, <3>1, <3>2 DEF FileIInv, FileTypeOK
      <4>2. {r.ver : r \in {x \in mem'[d] : x.id = i}} = {ch.ver} \ {Gone}
        BY <1>4, <3>1, <3>2
      <4> QED BY <4>1, <4>2
    <3>3. CASE i # ch.id
      <4>1. unsaved'[d][i] = unsaved[c][i]
        BY <1>1, <1>3, <3>1, <3>3 DEF FileIInv, FileTypeOK
      <4>2. {r \in mem'[d] : r.id = i} = {r \in mem[c] : r.id = i}
        BY <1>4, <3>1, <3>3
      <4>3. {r.ver : r \in {x \in mem'[d] : x.id = i}} = {r.ver : r \in {x \in mem[c] : x.id = i}}
        BY <4>2
      <4>4. /\ unsaved[c][i] = None /\ ~ missed[c] =>
                  {r \in mem[c] : r.id = i} = {r \in file : r.id = i}
            /\ unsaved[c][i] # None =>
                  {r.ver : r \in {x \in mem[c] : x.id = i}} = {unsaved[c][i]} \ {Gone}
        BY <1>1, <2>1, <2>2 DEF FileIInv, Based
      <4>5. missed' = missed /\ file' = file
        BY <1>2
      <4>6. unsaved'[d][i] = None /\ ~ missed'[d] =>
                {r \in mem'[d] : r.id = i} = {r \in file' : r.id = i}
        BY <2>2, <4>1, <4>2, <4>4, <4>5
      <4>7. unsaved'[d][i] # None =>
                {r.ver : r \in {x \in mem'[d] : x.id = i}} = {unsaved'[d][i]} \ {Gone}
        BY <4>1, <4>3, <4>4
      <4> QED BY <4>6, <4>7
    <3> QED BY <3>2, <3>3
  <2>3. CASE ~ (d = c /\ at[t] = "hold")
    <3>1. mem'[d] = mem[d] /\ unsaved'[d] = unsaved[d]
      BY <1>1, <1>2, <2>3 DEF FileIInv, FileTypeOK
    <3> QED BY <1>2, <2>1, <3>1 DEF FileIInv, Based
  <2> QED BY <2>2, <2>3
<1> QED BY <1>5, <1>6, <1>8, <1>9 DEF FileIInv

-----------------------------------------------------------------------------
(* Saving.                                                                  *)

\* A copy that is behind is reloaded, another one is about to be saved.
LEMMA CommitCheckIInv == ASSUME FileIInv, NEW t \in Writers, CommitCheck(t) PROVE FileIInv'
<1>1. /\ Home[t] \in Copies /\ Home[t] \in session /\ at[t] = "idle"
      /\ UNCHANGED <<file, stage, owner, session, change, writes, crossed>>
  BY StoreAssumption DEF CommitCheck
<1>2. CASE flag[Home[t]]
  <2>1. Reload(Home[t]) /\ at' = Orphaned(Home[t])
    BY <1>2 DEF CommitCheck
  <2>2. FileTypeOK'
    BY <1>1, <2>1, Reloaded, OrphansPlaced DEF FileIInv, FileTypeOK
  <2>3. WorkOK'
    BY <1>1, <2>1, Reloaded, OrphansPlaced DEF FileIInv, FileTypeOK, WorkOK
  <2>4. \A u \in Writers : at'[u] = "orphan" => crossed'[Home[u]]
    BY <1>1, <1>2, <2>1, OrphansCrossed
  <2>5. ASSUME NEW d \in session', flag'[d], ~ crossed'[d]
        PROVE  unsaved'[d] = Untouched /\ \A u \in Writers : Home[u] = d => at'[u] = "idle"
    <3>1. d \in Copies \ {Home[t]} /\ d \in session /\ ~ crossed[d]
      BY <1>1, <2>1, <2>5, Reloaded DEF FileIInv, FileTypeOK
    <3>2. unsaved'[d] = unsaved[d] /\ flag[d]
      BY <1>1, <2>1, <2>5, <3>1, Reloaded
    <3> QED BY <1>1, <2>1, <3>1, <3>2, OrphansPlaced DEF FileIInv, Uncrossed
  <2>6. Uncrossed'
    BY <2>4, <2>5 DEF Uncrossed
  <2> QED BY <1>1, <2>1, <2>2, <2>3, <2>6, Reloaded DEF FileIInv
<1>3. CASE ~ flag[Home[t]]
  <2>1. UNCHANGED <<mem, flag, unsaved, missed>> /\ at' = [at EXCEPT ![t] = "gap"]
    BY <1>3 DEF CommitCheck
  <2>2. FileTypeOK'
    BY <1>1, <2>1 DEF FileIInv, FileTypeOK
  <2>3. WorkOK'
    BY <1>1, <2>1 DEF FileIInv, FileTypeOK, WorkOK
  <2>4. Uncrossed'
    BY <1>1, <1>3, <2>1 DEF FileIInv, FileTypeOK, Uncrossed
  <2>5. Based'
    BY <1>1, <2>1 DEF FileIInv, Based, InStep
  <2> QED BY <2>2, <2>3, <2>4, <2>5 DEF FileIInv
<1> QED BY <1>2, <1>3

\* A copy that replaces the file leaves every other registered copy behind it.
LEMMA Replaced ==
    ASSUME FileIInv, NEW c \in Copies, Announce(c), Crosses(c), file' = mem'[c],
           mem' \in [Copies -> SUBSET Record], \A d \in Copies : OnePerId(mem'[d]),
           at' \in [Writers -> {"idle", "hold", "orphan", "gap"}],
           \A t \in Writers : at'[t] # "idle" => at'[t] = at[t],
           UNCHANGED <<stage, owner, session, change, writes>>
    PROVE  FileIInv'
<1>1. /\ flag' = [d \in Copies |-> IF d = c THEN FALSE ELSE flag[d] \/ d \in Registered]
      /\ crossed' = [d \in Copies |-> crossed[d] \/ (d # c /\ d \in session)]
      /\ unsaved' = [unsaved EXCEPT ![c] = Untouched] /\ missed' = [missed EXCEPT ![c] = FALSE]
  BY DEF Announce, Crosses
<1>2. flag' \in [Copies -> BOOLEAN] /\ crossed' \in [Copies -> BOOLEAN]
  BY <1>1 DEF FileIInv, FileTypeOK
<1>3. Untouched \in [Items -> Versions \cup {Gone, None}]
  BY DEF Untouched
<1>4. FileTypeOK'
  BY <1>1, <1>2, <1>3 DEF FileIInv, FileTypeOK
<1>5. WorkOK'
  BY <1>1 DEF FileIInv, FileTypeOK, WorkOK
<1>6. Uncrossed'
  BY <1>1, StoreAssumption DEF FileIInv, FileTypeOK, Uncrossed
<1>7. Based'
  BY <1>1 DEF FileIInv, FileTypeOK, Based, InStep, Registered, Untouched
<1> QED BY <1>4, <1>5, <1>6, <1>7 DEF FileIInv

\* The copy is saved, or a clear drops it.
LEMMA SaveIInv == ASSUME FileIInv, NEW t \in Writers, Save(t) \/ Drop(t) PROVE FileIInv'
<1>1. Home[t] \in Copies
  BY StoreAssumption
<1>2. CASE Save(t)
  <2>1. /\ Announce(Home[t]) /\ Crosses(Home[t]) /\ file' = mem'[Home[t]] /\ mem' = mem
        /\ at' = [at EXCEPT ![t] = "idle"]
        /\ UNCHANGED <<stage, owner, session, change, writes>>
    BY <1>2 DEF Save
  <2>2. /\ at' \in [Writers -> {"idle", "hold", "orphan", "gap"}]
        /\ \A u \in Writers : at'[u] # "idle" => at'[u] = at[u]
    BY <2>1 DEF FileIInv, FileTypeOK
  <2>3. mem' \in [Copies -> SUBSET Record] /\ \A d \in Copies : OnePerId(mem'[d])
    BY <2>1 DEF FileIInv, FileTypeOK
  <2> QED BY <1>1, <2>1, <2>2, <2>3, Replaced
<1>3. CASE Drop(t)
  <2>1. /\ Announce(Home[t]) /\ Crosses(Home[t]) /\ file' = {} /\ at' = at
        /\ mem' = [mem EXCEPT ![Home[t]] = {}]
        /\ UNCHANGED <<stage, owner, session, change, writes>>
    BY <1>3 DEF Drop
  <2>2. /\ at' \in [Writers -> {"idle", "hold", "orphan", "gap"}]
        /\ \A u \in Writers : at'[u] # "idle" => at'[u] = at[u]
    BY <2>1 DEF FileIInv, FileTypeOK
  <2>3. /\ mem' \in [Copies -> SUBSET Record] /\ \A d \in Copies : OnePerId(mem'[d])
        /\ file' = mem'[Home[t]]
    BY <1>1, <2>1 DEF FileIInv, FileTypeOK, OnePerId
  <2> QED BY <1>1, <2>1, <2>2, <2>3, Replaced
<1> QED BY <1>2, <1>3

\* The file could not be written.
LEMMA SaveFailsIInv == ASSUME FileIInv, NEW t \in Writers, SaveFails(t) PROVE FileIInv'
<1>1. FileTypeOK'
  BY DEF SaveFails, sync, ghost, FileIInv, FileTypeOK
<1>2. WorkOK'
  BY DEF SaveFails, sync, ghost, FileIInv, FileTypeOK, WorkOK
<1>3. Uncrossed'
  BY DEF SaveFails, sync, ghost, FileIInv, FileTypeOK, Uncrossed
<1>4. Based'
  BY DEF SaveFails, sync, ghost, FileIInv, Based, InStep
<1> QED BY <1>1, <1>2, <1>3, <1>4 DEF FileIInv

-----------------------------------------------------------------------------
(* The theorems.                                                            *)

\* Every step keeps the invariant.
LEMMA FileNextIInv == FileIInv /\ [FileNext]_fileVars => FileIInv'
<1> SUFFICES ASSUME FileIInv, [FileNext]_fileVars PROVE FileIInv'
  OBVIOUS
<1>1. ASSUME NEW c \in Copies, Build(c) \/ Register(c) \/ End(c) \/ Read(c) PROVE FileIInv'
  BY <1>1, BuildIInv, RegisterIInv, EndIInv, ReadIInv
<1>2. ASSUME NEW c \in Copies, Begin(c) \/ BeginEdit(c) PROVE FileIInv'
  BY <1>2, EnterIInv DEF Begin, BeginEdit, FileIInv, FileTypeOK
<1>3. ASSUME NEW t \in Writers, Apply(t) \/ CommitCheck(t) \/ Save(t) \/ SaveFails(t) \/ Drop(t)
      PROVE  FileIInv'
  BY <1>3, ApplyIInv, CommitCheckIInv, SaveIInv, SaveFailsIInv
<1>4. ASSUME NEW t \in Writers, NEW i \in Items, Upsert(t, i) \/ Delete(t, i) PROVE FileIInv'
  BY <1>4, UpsertIInv, DeleteIInv
<1>5. CASE UNCHANGED fileVars
  <2>1. UNCHANGED <<file, mem, stage, flag, owner, session, at, change, writes, unsaved, crossed,
                    missed>>
    BY <1>5 DEF fileVars, sync, ghost
  <2>2. FileTypeOK' /\ WorkOK'
    BY <2>1 DEF FileIInv, FileTypeOK, WorkOK
  <2>3. Uncrossed' /\ Based'
    BY <2>1 DEF FileIInv, Uncrossed, Based, InStep
  <2> QED BY <2>2, <2>3 DEF FileIInv
<1> QED BY <1>1, <1>2, <1>3, <1>4, <1>5 DEF FileNext

\* In every reachable state the invariant holds.
LEMMA FileInvariant == FileSpec => []FileIInv
BY FileInitIInv, FileNextIInv, PTL DEF FileSpec

\* The file and the copies hold one record per id.
THEOREM FileTypeCorrect == FileSpec => []FileTypeOK
<1>1. FileIInv => FileTypeOK
  BY DEF FileIInv
<1> QED BY <1>1, FileInvariant, PTL

\* Eventual consistency: a copy whose flag is down, which has changed nothing
\* itself and which was not registered too late, shows what is on disk.
THEOREM Consistent == FileSpec => []Fresh
<1>1. FileIInv => Fresh
  <2> SUFFICES ASSUME FileIInv, NEW c \in Registered, ~ flag[c], unsaved[c] = Untouched, ~ missed[c]
               PROVE  mem[c] = file
    BY DEF Fresh
  <2>1. c \in Copies /\ InStep(c)
    BY DEF Registered, InStep
  <2>2. \A i \in Items : {r \in mem[c] : r.id = i} = {r \in file : r.id = i}
    BY <2>1 DEF FileIInv, Based, Untouched
  <2>3. \A r \in mem[c] \cup file : r.id \in Items
    BY <2>1 DEF FileIInv, FileTypeOK, Record
  <2> QED BY <2>2, <2>3, ZenonT(40)
<1> QED BY <1>1, FileInvariant, PTL

\* The two together, as the run checks them.
THEOREM StoreCorrect == FileSpec => []StoreInv
<1>1. FileTypeOK /\ Fresh => StoreInv
  BY DEF StoreInv
<1> QED BY <1>1, FileTypeCorrect, Consistent, PTL

\* What a job has changed and not yet saved is what the next look sees, unless
\* another copy was saved beside it.
THEOREM NoneLost == FileSpec => []ChangesKept
<1>1. FileIInv => ChangesKept
  <2> SUFFICES ASSUME FileIInv, NEW c \in session, ~ crossed[c], NEW i \in Items, unsaved[c][i] # None
               PROVE  {r.ver : r \in {x \in View(c) : x.id = i}} = {unsaved[c][i]} \ {Gone}
    BY DEF ChangesKept
  <2>1. c \in Copies /\ stage[c] = "ready"
    BY DEF FileIInv, FileTypeOK, WorkOK
  <2>2. ~ flag[c]
    BY DEF FileIInv, Uncrossed, Untouched
  <2>3. View(c) = mem[c]
    BY <2>2 DEF View
  <2> QED BY <2>1, <2>2, <2>3 DEF FileIInv, Based, InStep
<1> QED BY <1>1, FileInvariant, PTL

\* What NothingOverwritten asks of one step.
Mindful ==
    \A t \in Writers :
        LET c == Home[t]
        IN  at[t] = "gap" /\ at'[t] = "idle" /\ ~crossed[c] /\ ~missed[c] =>
                \A r \in file \ file' : unsaved[c][r.id] # None

\* A copy that saves is in step with the file but for its own changes; nobody
\* else takes a coroutine out of the gap between the two blocks.
LEMMA StepMindful == FileIInv /\ FileNext => Mindful
<1> SUFFICES ASSUME FileIInv, FileNext, NEW t \in Writers, at[t] = "gap", at'[t] = "idle",
                    ~ crossed[Home[t]], ~ missed[Home[t]], NEW r \in file \ file'
             PROVE  unsaved[Home[t]][r.id] # None
  BY DEF Mindful
<1>1. Home[t] \in Copies /\ Home[t] \in session
  BY StoreAssumption DEF FileIInv, WorkOK
<1>2. PICK u \in Writers : Save(u) \/ Drop(u)
  BY DEF FileNext, Build, Register, Begin, BeginEdit, Enter, End, Read, Apply, CommitCheck, SaveFails,
     Upsert, Delete
<1>3. u = t /\ Save(t)
  BY <1>2 DEF Save, Drop, Working, FileIInv, FileTypeOK
<1>4. file' = mem[Home[t]] /\ r \notin mem[Home[t]] /\ r \in file /\ r.id \in Items
  BY <1>3 DEF Save, FileIInv, FileTypeOK, Record
<1>5. InStep(Home[t])
  BY <1>1 DEF InStep, FileIInv, FileTypeOK, WorkOK, Uncrossed
<1>6. {s \in mem[Home[t]] : s.id = r.id} # {s \in file : s.id = r.id}
  BY <1>4
<1> QED BY <1>1, <1>4, <1>5, <1>6 DEF FileIInv, Based

\* A save takes from the file only what the copy that saves has changed itself,
\* unless another copy was saved beside it or before it was registered.
THEOREM NoneUndone == FileSpec => NothingOverwritten
<1>1. FileIInv /\ [FileNext]_fileVars => [Mindful]_fileVars
  BY StepMindful
<1>2. NothingOverwritten <=> [][Mindful]_fileVars
  BY PTL DEF NothingOverwritten, Mindful
<1> QED BY <1>1, <1>2, FileInvariant, PTL DEF FileSpec

=============================================================================
