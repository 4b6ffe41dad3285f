----------------------- MODULE BoundedExecutorProofs -----------------------
(* Theorems about BoundedExecutor for any callers, workers, queue bound,    *)
(* priorities, timeouts, outcomes and number of stuck functions.            *)
EXTENDS BoundedExecutor, FiniteSetTheorems, SequenceTheorems, TLAPS

-----------------------------------------------------------------------------
(* The inductive invariant.                                                 *)

Door == {"arriving", "putting", "woken"}

\* An entry of the table is of a caller that waits for its future, or that has
\* left it to the worker to clean up.
TableOK ==
    /\ \A c \in states : \/ call[c] \in Door \cup {"waiting"} /\ future[c] = "pending"
                         \/ call[c] = "leaving" /\ c \in quit
    /\ \A c \in quit : call[c] = "leaving"

\* What is in the queue or with a worker has been put there, and is counted; who
\* is blocked is among the putters, once.
ItemsOK ==
    /\ \A c \in queue : call[c] \notin Door \cup {"out"}
    /\ \A w \in Held : call[job[w]] \notin Door \cup {"out"}
    /\ IsInjective(putters)
    /\ \A c \in Callers : call[c] = "putting" <=> c \in Range(putters)
    /\ unfinished = Cardinality(queue) + Cardinality(Held)

\* The door is closed before anything else, and workers exist while it runs.
EndOK ==
    /\ shut # "no" => ~accepting
    /\ ~running => \A w \in Workers : worker[w] \in {"none", "dead"}

\* Until shutdown_event is set, no worker ends, and whoever waits has an entry
\* and, when he waits for his future, an item.
OpenOK ==
    ~Stopped =>
        /\ told = {}
        /\ \A w \in Workers : worker[w] # "dead"
        /\ \A c \in Callers : call[c] \in Door \cup {"waiting"} /\ future[c] = "pending" =>
               /\ c \in states
               /\ call[c] = "waiting" => c \in queue \/ \E w \in Held : job[w] = c

\* From the moment a drain is let go, only the late ones are not answered.
LateOK ==
    shut = "joined" \/ (Stopped /\ ~forced) =>
        \A c \in Callers \ late :
            call[c] \notin Door /\ (call[c] = "waiting" => future[c] # "pending")

IInv == TypeOK /\ TableOK /\ ItemsOK /\ EndOK /\ OpenOK /\ LateOK /\ NoLostWakeup

-----------------------------------------------------------------------------
(* Sequences and counts.                                                    *)

\* What joins the end of a sequence.
LEMMA AppendRange ==
    ASSUME NEW S, NEW s \in Seq(S), NEW x \in S
    PROVE  /\ Append(s, x) \in Seq(S) /\ Len(Append(s, x)) = Len(s) + 1
           /\ Range(Append(s, x)) = Range(s) \cup {x}
           /\ IsInjective(s) /\ x \notin Range(s) => IsInjective(Append(s, x))
<1> DEFINE t == Append(s, x)
<1>1. /\ t \in Seq(S) /\ Len(t) = Len(s) + 1 /\ DOMAIN t = 1..Len(s) + 1
      /\ \A i \in 1..Len(s) : t[i] = s[i]
      /\ t[Len(s) + 1] = x
  BY AppendProperties, LenProperties
<1>2. DOMAIN s = 1..Len(s) /\ Len(s) \in Nat
  BY LenProperties
<1> HIDE DEF t
<1>3. Range(t) = Range(s) \cup {x}
  BY <1>1, <1>2 DEF Range
<1>4. ASSUME IsInjective(s), x \notin Range(s) PROVE IsInjective(t)
  BY <1>1, <1>2, <1>4 DEF IsInjective, Range
<1> QED BY <1>1, <1>3, <1>4 DEF t

\* What leaves the head of one.
LEMMA TailRange ==
    ASSUME NEW S, NEW s \in Seq(S), s # <<>>
    PROVE  /\ Head(s) \in S /\ Tail(s) \in Seq(S) /\ Len(Tail(s)) = Len(s) - 1 /\ Len(s) > 0
           /\ Range(s) = Range(Tail(s)) \cup {Head(s)}
           /\ IsInjective(s) => IsInjective(Tail(s)) /\ Head(s) \notin Range(Tail(s))
<1> DEFINE t == Tail(s)
<1>1. /\ Head(s) = s[1] /\ s[1] \in S
      /\ t \in Seq(S) /\ Len(t) = Len(s) - 1 /\ Len(s) \in Nat \ {0}
      /\ DOMAIN s = 1..Len(s) /\ DOMAIN t = 1..Len(s) - 1
      /\ \A i \in 1..Len(s) - 1 : t[i] = s[i + 1]
  BY HeadTailProperties, LenProperties, ElementOfSeq, EmptySeq
<1> HIDE DEF t
<1>2. Range(s) = Range(t) \cup {s[1]}
  <2>1. ASSUME NEW x \in Range(s) PROVE x \in Range(t) \cup {s[1]}
    <3>1. PICK i \in 1..Len(s) : x = s[i]
      BY <1>1 DEF Range
    <3>2. CASE i = 1
      BY <3>1, <3>2
    <3>3. CASE i # 1
      <4>1. i - 1 \in 1..Len(s) - 1 /\ t[i - 1] = s[i]
        BY <1>1, <3>3
      <4> QED BY <1>1, <3>1, <4>1 DEF Range
    <3> QED BY <3>2, <3>3
  <2>2. ASSUME NEW x \in Range(t) PROVE x \in Range(s)
    <3>1. PICK i \in 1..Len(s) - 1 : x = t[i]
      BY <1>1 DEF Range
    <3>2. i + 1 \in 1..Len(s) /\ s[i + 1] = x
      BY <1>1, <3>1
    <3> QED BY <1>1, <3>2 DEF Range
  <2>3. s[1] \in Range(s)
    BY <1>1 DEF Range
  <2> QED BY <2>1, <2>2, <2>3
<1>3. ASSUME IsInjective(s) PROVE IsInjective(t) /\ s[1] \notin Range(t)
  <2>1. \A i \in 1..Len(s) - 1 : i + 1 \in 1..Len(s) /\ i + 1 # 1
    BY <1>1
  <2>2. ASSUME NEW i \in 1..Len(s) - 1, NEW j \in 1..Len(s) - 1, t[i] = t[j] PROVE i = j
    <3>1. s[i + 1] = s[j + 1]
      BY <1>1, <2>2
    <3>2. i + 1 = j + 1
      BY <1>1, <1>3, <2>1, <3>1 DEF IsInjective
    <3> QED BY <3>2
  <2>3. ASSUME NEW i \in 1..Len(s) - 1, t[i] = s[1] PROVE FALSE
    <3>1. s[i + 1] = s[1] /\ 1 \in 1..Len(s)
      BY <1>1, <2>3
    <3> QED BY <1>1, <1>3, <2>1, <3>1 DEF IsInjective
  <2> QED BY <1>1, <2>2, <2>3 DEF IsInjective, Range
<1> QED BY <1>1, <1>2, <1>3 DEF t

\* Who gives up his place among the putters.
LEMMA RemoveRange ==
    ASSUME NEW S, NEW s \in Seq(S), IsInjective(s), NEW x \in Range(s)
    PROVE  /\ RemoveFirst(s, x) \in Seq(S) /\ IsInjective(RemoveFirst(s, x))
           /\ Range(RemoveFirst(s, x)) = Range(s) \ {x}
           /\ RemoveFirst(s, x) # <<>> => s # <<>>
<1>1. /\ DOMAIN s = 1..Len(s) /\ Len(s) \in Nat
      /\ \A i \in 1..Len(s) : s[i] \in S
  BY LenProperties, ElementOfSeq
<1>2. PICK k \in 1..Len(s) : s[k] = x
  BY <1>1 DEF Range
<1>3. \A i \in 1..Len(s) : s[i] = x <=> i = k
  BY <1>1, <1>2 DEF IsInjective
<1>4. {i \in 1..Len(s) : s[i] = x} = {k}
  BY <1>3
<1>5. SelectInSeq(s, LAMBDA v : v = x) = Min({k})
  BY <1>4 DEF SelectInSeq
<1>6. Min({k}) = k
  BY <1>2 DEF Min
<1>7. RemoveFirst(s, x) = RemoveAt(s, k)
  BY <1>2, <1>5, <1>6 DEF RemoveFirst
<1> DEFINE a == SubSeq(s, 1, k - 1)
           b == SubSeq(s, k + 1, Len(s))
           t == a \o b
           at(i) == IF i < k THEN i ELSE i + 1
<1>8. /\ a \in Seq(S) /\ Len(a) = k - 1 /\ \A i \in 1..k - 1 : a[i] = s[i]
      /\ b \in Seq(S) /\ Len(b) = Len(s) - k /\ \A i \in 1..Len(s) - k : b[i] = s[k + i]
  <2>1. k - 1 \in Int /\ k + 1 \in Int /\ Len(s) \in Int
    BY <1>1
  <2>2. \A i \in 1..k - 1 : s[i] \in S
    BY <1>1
  <2>3. \A i \in k + 1..Len(s) : s[i] \in S
    BY <1>1
  <2>4. /\ a \in Seq(S) /\ Len(a) = IF 1 <= k - 1 THEN k - 1 - 1 + 1 ELSE 0
        /\ \A i \in 1..k - 1 - 1 + 1 : a[i] = s[1 + i - 1]
    BY <2>1, <2>2, SubSeqProperties
  <2>5. /\ b \in Seq(S) /\ Len(b) = IF k + 1 <= Len(s) THEN Len(s) - (k + 1) + 1 ELSE 0
        /\ \A i \in 1..Len(s) - (k + 1) + 1 : b[i] = s[k + 1 + i - 1]
    BY <2>1, <2>3, SubSeqProperties
  <2> HIDE DEF a, b
  <2>6. Len(a) = k - 1 /\ \A i \in 1..k - 1 : a[i] = s[i]
    BY <1>1, <2>4
  <2>7. Len(b) = Len(s) - k
    <3>1. Len(b) = IF k + 1 <= Len(s) THEN Len(s) - (k + 1) + 1 ELSE 0
      BY <2>5
    <3>2. k \in Nat /\ Len(s) \in Nat /\ k <= Len(s)
      BY <1>1
    <3> QED BY <3>1, <3>2
  <2>8. ASSUME NEW i \in 1..Len(s) - k PROVE b[i] = s[k + i]
    <3>1. i \in 1..Len(s) - (k + 1) + 1 /\ k + 1 + i - 1 = k + i
      BY <1>1
    <3> QED BY <2>5, <3>1
  <2> QED BY <2>4, <2>5, <2>6, <2>7, <2>8
<1> HIDE DEF a, b
<1>9. /\ t \in Seq(S) /\ Len(t) = Len(s) - 1
      /\ \A i \in 1..Len(s) - 1 : t[i] = s[at(i)]
  <2>1. /\ t \in Seq(S) /\ Len(t) = Len(a) + Len(b)
        /\ \A i \in 1..Len(a) + Len(b) : t[i] = IF i <= Len(a) THEN a[i] ELSE b[i - Len(a)]
    BY <1>8, ConcatProperties
  <2> HIDE DEF t
  <2>2. ASSUME NEW i \in 1..Len(s) - 1 PROVE t[i] = s[at(i)]
    <3>1. CASE i < k
      <4>1. i \in 1..k - 1 /\ i <= k - 1 /\ i \in 1..k - 1 + (Len(s) - k)
        BY <1>1, <3>1
      <4>2. t[i] = a[i] /\ a[i] = s[i]
        BY <1>8, <2>1, <4>1
      <4> QED BY <3>1, <4>2
    <3>2. CASE ~(i < k)
      <4>1. /\ i - (k - 1) \in 1..Len(s) - k /\ k + (i - (k - 1)) = i + 1
            /\ ~(i <= k - 1) /\ i \in 1..k - 1 + (Len(s) - k)
        BY <1>1, <3>2
      <4>2. t[i] = b[i - (k - 1)]
        BY <1>8, <2>1, <4>1
      <4>3. b[i - (k - 1)] = s[k + (i - (k - 1))]
        BY <1>8, <4>1
      <4> QED BY <3>2, <4>1, <4>2, <4>3
    <3> QED BY <3>1, <3>2
  <2> QED BY <1>1, <1>8, <2>1, <2>2
<1>10. DOMAIN t = 1..Len(s) - 1
  BY <1>9, LenProperties
<1> HIDE DEF t
<1>11. \A i \in 1..Len(s) - 1 : at(i) \in 1..Len(s) \ {k}
  BY <1>1
<1>12. IsInjective(t)
  <2> SUFFICES ASSUME NEW i \in 1..Len(s) - 1, NEW j \in 1..Len(s) - 1, t[i] = t[j] PROVE i = j
    BY <1>10 DEF IsInjective
  <2>1. at(i) = at(j)
    BY <1>1, <1>9, <1>11 DEF IsInjective
  <2> QED BY <1>1, <2>1
<1>13. Range(t) = Range(s) \ {x}
  <2>1. ASSUME NEW y \in Range(t) PROVE y \in Range(s) \ {x}
    <3>1. PICK i \in 1..Len(s) - 1 : y = t[i]
      BY <1>10 DEF Range
    <3> QED BY <1>1, <1>3, <1>9, <1>11, <3>1 DEF Range
  <2>2. ASSUME NEW y \in Range(s) \ {x} PROVE y \in Range(t)
    <3>1. PICK j \in 1..Len(s) : y = s[j] /\ j # k
      BY <1>1, <1>3 DEF Range
    <3>2. PICK i \in 1..Len(s) - 1 : at(i) = j
      <4>1. CASE j < k
        <5>1. j \in 1..Len(s) - 1 /\ at(j) = j
          BY <1>1, <3>1, <4>1
        <5> QED BY <5>1
      <4>2. CASE ~(j < k)
        <5>1. j - 1 \in 1..Len(s) - 1 /\ at(j - 1) = j
          BY <1>1, <3>1, <4>2
        <5> QED BY <5>1
      <4> QED BY <4>1, <4>2
    <3> QED BY <1>9, <1>10, <3>1, <3>2 DEF Range
  <2> QED BY <2>1, <2>2
<1>14. s # <<>>
  BY <1>1, <1>2, EmptySeq
<1> QED BY <1>7, <1>9, <1>12, <1>13, <1>14 DEF RemoveAt, t, a, b

\* The first k of them are woken, the others stay.
FirstOf(s, k) == {s[i] : i \in 1..k}
RestOf(s, k)  == SubSeq(s, k + 1, Len(s))

LEMMA WokenRange ==
    ASSUME NEW S, NEW s \in Seq(S), NEW k \in 0..Len(s)
    PROVE  /\ FirstOf(s, k) \subseteq S /\ IsFiniteSet(FirstOf(s, k)) /\ FirstOf(s, k) \subseteq Range(s)
           /\ RestOf(s, k) \in Seq(S) /\ RestOf(s, k) # <<>> => k < Len(s)
           /\ IsInjective(s) => /\ IsInjective(RestOf(s, k))
                               /\ Range(RestOf(s, k)) = Range(s) \ FirstOf(s, k)
                               /\ Cardinality(FirstOf(s, k)) = k
<1> DEFINE woken == {s[i] : i \in 1..k}
           t == SubSeq(s, k + 1, Len(s))
           f == [i \in 1..k |-> s[i]]
<1>1. /\ DOMAIN s = 1..Len(s) /\ Len(s) \in Nat
      /\ \A i \in 1..Len(s) : s[i] \in S
  BY LenProperties, ElementOfSeq
<1>2. woken \subseteq S
  BY <1>1
<1>3. /\ IsFiniteSet(woken) /\ woken \subseteq Range(s)
      /\ IsInjective(s) => Cardinality(woken) = k
  <2>1. f \in Surjection(1..k, woken)
    BY DEF Surjection
  <2>2. IsFiniteSet(1..k) /\ Cardinality(1..k) = k
    BY FS_Interval
  <2>3. ASSUME IsInjective(s) PROVE f \in Injection(1..k, woken)
    <3>1. \A i \in 1..k, j \in 1..k : s[i] = s[j] => i = j
      BY <1>1, <2>3 DEF IsInjective
    <3> QED BY <2>1, <3>1 DEF Injection, IsInjective, Surjection
  <2>4. woken \subseteq Range(s)
    BY <1>1 DEF Range
  <2> HIDE DEF f, woken
  <2> QED BY <2>1, <2>2, <2>3, <2>4, FS_Surjection
<1>4. /\ t \in Seq(S) /\ Len(t) = Len(s) - k
      /\ \A i \in 1..Len(s) - k : t[i] = s[k + i]
  <2>1. k + 1 \in Int /\ Len(s) \in Int /\ \A i \in k + 1..Len(s) : s[i] \in S
    BY <1>1
  <2>2. /\ t \in Seq(S) /\ Len(t) = IF k + 1 <= Len(s) THEN Len(s) - (k + 1) + 1 ELSE 0
        /\ \A i \in 1..Len(s) - (k + 1) + 1 : t[i] = s[k + 1 + i - 1]
    BY <2>1, SubSeqProperties
  <2> HIDE DEF t
  <2>3. Len(t) = Len(s) - k
    <3>1. Len(t) = IF k + 1 <= Len(s) THEN Len(s) - (k + 1) + 1 ELSE 0
      BY <2>2
    <3>2. k \in Nat /\ Len(s) \in Nat /\ k <= Len(s)
      BY <1>1
    <3> QED BY <3>1, <3>2
  <2>4. ASSUME NEW i \in 1..Len(s) - k PROVE t[i] = s[k + i]
    <3>1. i \in 1..Len(s) - (k + 1) + 1 /\ k + 1 + i - 1 = k + i
      BY <1>1
    <3> QED BY <2>2, <3>1
  <2> QED BY <2>2, <2>3, <2>4
<1> HIDE DEF t
<1>5. DOMAIN t = 1..Len(s) - k
  BY <1>4, LenProperties
<1>6. ASSUME IsInjective(s) PROVE IsInjective(t)
  <2> SUFFICES ASSUME NEW i \in 1..Len(s) - k, NEW j \in 1..Len(s) - k, t[i] = t[j] PROVE i = j
    BY <1>5 DEF IsInjective
  <2>1. k + i \in 1..Len(s) /\ k + j \in 1..Len(s) /\ s[k + i] = s[k + j]
    BY <1>1, <1>4
  <2>2. k + i = k + j
    BY <1>1, <1>6, <2>1 DEF IsInjective
  <2> QED BY <2>2
<1>7. ASSUME IsInjective(s) PROVE Range(t) = Range(s) \ woken
  <2>1. ASSUME NEW y \in Range(t) PROVE y \in Range(s) \ woken
    <3>1. PICK i \in 1..Len(s) - k : y = t[i]
      BY <1>5 DEF Range
    <3>2. k + i \in 1..Len(s) /\ y = s[k + i]
      BY <1>1, <1>4, <3>1
    <3>3. ASSUME NEW j \in 1..k, y = s[j] PROVE FALSE
      <4>1. j \in 1..Len(s) /\ j # k + i
        BY <1>1
      <4> QED BY <1>1, <1>7, <3>2, <3>3, <4>1 DEF IsInjective
    <3> QED BY <1>1, <3>2, <3>3 DEF Range
  <2>2. ASSUME NEW y \in Range(s) \ woken PROVE y \in Range(t)
    <3>1. PICK j \in 1..Len(s) : y = s[j]
      BY <1>1 DEF Range
    <3>2. ~(j \in 1..k)
      BY <2>2, <3>1
    <3>3. j - k \in 1..Len(s) - k /\ k + (j - k) = j
      BY <1>1, <3>1, <3>2
    <3> QED BY <1>4, <1>5, <3>1, <3>3 DEF Range
  <2> QED BY <2>1, <2>2
<1>8. t # <<>> => k < Len(s)
  <2> SUFFICES ASSUME t # <<>> PROVE k < Len(s)
    OBVIOUS
  <2>1. Len(t) # 0
    BY <1>4, EmptySeq
  <2>2. \A m \in Nat : \A i \in 0..m : m - i # 0 => i < m
    OBVIOUS
  <2>3. Len(s) \in Nat /\ Len(s) - k # 0
    BY <1>1, <1>4, <2>1
  <2> HIDE DEF t
  <2> QED BY ONLY <2>2, <2>3, k \in 0..Len(s)
<1> QED BY <1>2, <1>3, <1>4, <1>6, <1>7, <1>8 DEF t, FirstOf, RestOf

\* The workers that hold a call can be counted.
LEMMA HeldFinite ==
    /\ IsFiniteSet(Held) /\ Cardinality(Held) \in Nat
    /\ \A w \in Held : Cardinality(Held) >= 1 /\ Cardinality(Held \ {w}) = Cardinality(Held) - 1
    /\ \A w \in Workers \ Held : Cardinality(Held \cup {w}) = Cardinality(Held) + 1
<1>1. IsFiniteSet(Held) /\ Cardinality(Held) \in Nat
  BY ExecutorAssumption, FS_Subset, FS_CardinalityType DEF Held, ExecutorAssumption
<1>2. \A w \in Held : Cardinality(Held) # 0
  BY <1>1, FS_EmptySet
<1>3. \A w \in Held : Cardinality(Held \ {w}) = Cardinality(Held) - 1
  BY <1>1, FS_RemoveElement
<1>4. \A w \in Workers \ Held : Cardinality(Held \cup {w}) = Cardinality(Held) + 1
  BY <1>1, FS_AddElement
<1> QED BY <1>1, <1>2, <1>3, <1>4

\* What it holds is a call.
LEMMA HeldJob ==
    ASSUME TypeOK
    PROVE  \A w \in Held : w \in Workers /\ job[w] \in Callers
BY NoneAssumption DEF TypeOK, Held

\* So can the calls in the queue.
LEMMA QueueFinite ==
    ASSUME TypeOK
    PROVE  /\ IsFiniteSet(queue) /\ Cardinality(queue) \in Nat
           /\ \A c \in queue : Cardinality(queue) >= 1 /\ Cardinality(queue \ {c}) = Cardinality(queue) - 1
           /\ \A c \in Callers \ queue : Cardinality(queue \cup {c}) = Cardinality(queue) + 1
<1>1. IsFiniteSet(queue) /\ Cardinality(queue) \in Nat
  BY ExecutorAssumption, FS_Subset, FS_CardinalityType DEF TypeOK, ExecutorAssumption
<1>2. \A c \in queue : Cardinality(queue) # 0
  BY <1>1, FS_EmptySet
<1>3. \A c \in queue : Cardinality(queue \ {c}) = Cardinality(queue) - 1
  BY <1>1, FS_RemoveElement
<1>4. \A c \in Callers \ queue : Cardinality(queue \cup {c}) = Cardinality(queue) + 1
  BY <1>1, FS_AddElement
<1> QED BY <1>1, <1>2, <1>3, <1>4

\* And those who were woken for a place.
LEMMA WokenFinite ==
    /\ IsFiniteSet(Woken) /\ Cardinality(Woken) \in Nat
    /\ \A c \in Woken : Cardinality(Woken \ {c}) = Cardinality(Woken) - 1
    /\ \A c \in Callers \ Woken : Cardinality(Woken \cup {c}) = Cardinality(Woken) + 1
<1>1. IsFiniteSet(Woken) /\ Cardinality(Woken) \in Nat
  BY ExecutorAssumption, FS_Subset, FS_CardinalityType DEF Woken, ExecutorAssumption
<1>2. \A c \in Woken : Cardinality(Woken \ {c}) = Cardinality(Woken) - 1
  BY <1>1, FS_RemoveElement
<1>3. \A c \in Callers \ Woken : Cardinality(Woken \cup {c}) = Cardinality(Woken) + 1
  BY <1>1, FS_AddElement
<1> QED BY <1>1, <1>2, <1>3

-----------------------------------------------------------------------------
(* The caller.                                                              *)

LEMMA InitOK == Init => IInv
<1> SUFFICES ASSUME Init PROVE IInv
  OBVIOUS
<1>1. IsFiniteSet({}) /\ Cardinality({}) = 0
  BY FS_EmptySet
<1>2. Held = {} /\ None \notin Callers
  BY NoneAssumption DEF Init, Held
<1>3. TypeOK
  <2>1. queue \subseteq Callers /\ Cardinality(queue) <= MaxQueue
    BY <1>1, ExecutorAssumption DEF Init, ExecutorAssumption
  <2>2. putters \in Seq(Callers)
    BY EmptySeq DEF Init
  <2>3. \A w \in Workers : w \in Held <=> job[w] # None
    BY <1>2 DEF Init
  <2> QED BY <2>1, <2>2, <2>3 DEF Init, TypeOK
<1>4. putters = <<>> /\ Range(putters) = {} /\ IsInjective(putters)
  BY DEF Init, Range, IsInjective
<1>5. unfinished = Cardinality(queue) + Cardinality(Held)
  BY <1>1, <1>2 DEF Init
<1> QED BY <1>2, <1>3, <1>4, <1>5
     DEF Init, IInv, TableOK, ItemsOK, EndOK, OpenOK, LateOK, NoLostWakeup, Stopped, Door

\* A caller that has no item yet puts it, or joins the putters.
LEMMA PutItems ==
    ASSUME TypeOK, ItemsOK, NoLostWakeup, NEW c \in Callers, Put(c), Held' = Held,
           call[c] \in {"out", "arriving", "woken"}
    PROVE  /\ queue' \subseteq Callers /\ Cardinality(queue') <= MaxQueue
           /\ queue \subseteq queue' /\ queue' \subseteq queue \cup {c}
           /\ unfinished' \in Nat /\ unfinished' = Cardinality(queue') + Cardinality(Held')
           /\ putters' \in Seq(Callers) /\ IsInjective(putters')
           /\ call' \in [Callers -> {"out", "arriving", "putting", "woken", "waiting", "leaving", "gone"}]
           /\ \A d \in Callers : call'[d] = "putting" <=> d \in Range(putters')
           /\ \A d \in Callers \ {c} : call'[d] = call[d]
           /\ \/ call'[c] = "waiting" /\ c \in queue'
              \/ call'[c] = "putting" /\ c \notin queue'
           /\ NoLostWakeup'
<1>1. c \notin queue /\ c \notin Range(putters)
  BY DEF ItemsOK, Door
<1>2. /\ Cardinality(queue) \in Nat /\ Cardinality(Held) \in Nat /\ MaxQueue \in Nat
      /\ Cardinality(Woken) \in Nat
      /\ Cardinality(queue) <= MaxQueue /\ unfinished = Cardinality(queue) + Cardinality(Held)
  BY QueueFinite, HeldFinite, WokenFinite, ExecutorAssumption DEF ExecutorAssumption, ItemsOK, TypeOK
<1>3. CASE Cardinality(queue) < MaxQueue
  <2>1. /\ queue' = queue \cup {c} /\ unfinished' = unfinished + 1 /\ putters' = putters
        /\ call' = [call EXCEPT ![c] = "waiting"]
    BY <1>3 DEF Put
  <2>2. Cardinality(queue') = Cardinality(queue) + 1
    BY <1>1, <2>1, QueueFinite
  <2>3. NoLostWakeup'
    <3>1. Woken' = Woken \ {c}
      BY <2>1 DEF Woken, TypeOK
    <3>2. Cardinality(Woken') >= Cardinality(Woken) - 1 /\ Cardinality(Woken') \in Nat
      <4>1. CASE c \in Woken
        <5>1. Cardinality(Woken \ {c}) = Cardinality(Woken) - 1 /\ Cardinality(Woken \ {c}) \in Nat
          BY <4>1, WokenFinite, FS_RemoveElement, FS_CardinalityType
        <5> QED BY <3>1, <5>1, <1>2
      <4>2. CASE c \notin Woken
        <5>1. Woken' = Woken
          BY <3>1, <4>2
        <5> QED BY <5>1, <1>2
      <4> QED BY <4>1, <4>2
    <3> QED BY <1>2, <2>1, <2>2, <3>2 DEF NoLostWakeup
  <2>4. unfinished' \in Nat /\ unfinished' = Cardinality(queue') + Cardinality(Held')
        /\ Cardinality(queue') <= MaxQueue
    BY <1>2, <1>3, <2>1, <2>2
  <2>5. /\ putters' \in Seq(Callers) /\ IsInjective(putters')
        /\ call' \in [Callers -> {"out", "arriving", "putting", "woken", "waiting", "leaving", "gone"}]
        /\ \A d \in Callers : call'[d] = "putting" <=> d \in Range(putters')
        /\ \A d \in Callers \ {c} : call'[d] = call[d]
        /\ call'[c] = "waiting" /\ c \in queue'
    BY <1>1, <2>1 DEF TypeOK, ItemsOK
  <2> QED BY <2>1, <2>3, <2>4, <2>5 DEF TypeOK
<1>4. CASE ~(Cardinality(queue) < MaxQueue)
  <2>1. /\ queue' = queue /\ unfinished' = unfinished /\ putters' = Append(putters, c)
        /\ call' = [call EXCEPT ![c] = "putting"]
    BY <1>4 DEF Put
  <2>2. /\ putters \in Seq(Callers) /\ putters' \in Seq(Callers)
        /\ Range(putters') = Range(putters) \cup {c} /\ IsInjective(putters')
    BY <1>1, <2>1, AppendRange DEF TypeOK, ItemsOK
  <2>3. IsFiniteSet(Woken') /\ Cardinality(Woken') \in Nat
    <3>1. Woken' \subseteq Callers
      BY DEF Woken
    <3> QED BY <3>1, ExecutorAssumption, FS_Subset, FS_CardinalityType DEF ExecutorAssumption
  <2>4. NoLostWakeup'
    <3>1. Cardinality(queue') = MaxQueue
      BY <1>2, <1>4, <2>1
    <3> QED BY <1>2, <2>3, <3>1 DEF NoLostWakeup
  <2>5. /\ call' \in [Callers -> {"out", "arriving", "putting", "woken", "waiting", "leaving", "gone"}]
        /\ \A d \in Callers : call'[d] = "putting" <=> d \in Range(putters')
        /\ \A d \in Callers \ {c} : call'[d] = call[d]
        /\ call'[c] = "putting" /\ c \notin queue'
    BY <1>1, <2>1, <2>2 DEF TypeOK, ItemsOK
  <2>6. queue' \subseteq Callers /\ Cardinality(queue') <= MaxQueue
        /\ unfinished' \in Nat /\ unfinished' = Cardinality(queue') + Cardinality(Held')
    BY <1>2, <2>1 DEF TypeOK
  <2> QED BY <2>1, <2>2, <2>4, <2>5, <2>6
<1> QED BY <1>3, <1>4

LEMMA CallOK ==
    ASSUME IInv, NEW c \in Callers, Call(c)
    PROVE  IInv'
<1> USE DEF IInv
<1>1. ~Stopped /\ shut = "no" /\ call[c] = "out"
      /\ UNCHANGED <<started, quit, job, accepting, shut, forced, told, late>>
  BY DEF Call, EndOK, Stopped, ending
<1>2. /\ Held' = Held /\ Stopped' = Stopped
      /\ worker' \in [Workers -> {"none", "idle", "got", "running", "stuck", "dead"}]
      /\ \A w \in Workers : worker'[w] # "dead"
  <2>1. CASE running
    BY <1>1, <2>1 DEF Call, EnsureWorkers, EndOK, OpenOK, Held, TypeOK, pool, Stopped
  <2>2. CASE ~running
    BY <1>1, <2>2 DEF Call, EnsureWorkers, EndOK, OpenOK, Held, TypeOK, pool, Stopped
  <2> QED BY <2>1, <2>2
<1>3. c \notin queue /\ c \notin Range(putters) /\ \A w \in Held : job[w] \in Callers \ {c}
  BY <1>1, HeldJob DEF ItemsOK, Door
<1>4. future' = [future EXCEPT ![c] = "pending"] /\ states' = states \cup {c} /\ running' = TRUE
  BY DEF Call, EnsureWorkers
<1>5. /\ queue' \subseteq Callers /\ Cardinality(queue') <= MaxQueue
      /\ queue \subseteq queue' /\ queue' \subseteq queue \cup {c}
      /\ unfinished' \in Nat /\ unfinished' = Cardinality(queue') + Cardinality(Held')
      /\ putters' \in Seq(Callers) /\ IsInjective(putters')
      /\ call' \in [Callers -> {"out", "arriving", "putting", "woken", "waiting", "leaving", "gone"}]
      /\ \A d \in Callers : call'[d] = "putting" <=> d \in Range(putters')
      /\ \A d \in Callers \ {c} : call'[d] = call[d]
      /\ \/ call'[c] = "waiting" /\ c \in queue'
         \/ call'[c] \in Door /\ c \notin queue'
      /\ NoLostWakeup'
  <2>1. CASE Put(c)
    BY <1>1, <1>2, <2>1, PutItems DEF Door
  <2>2. CASE call' = [call EXCEPT ![c] = "arriving"] /\ UNCHANGED items
    <3>1. Woken' = Woken
      BY <1>1, <2>2 DEF Woken, TypeOK
    <3> QED BY <1>1, <1>2, <1>3, <2>2, <3>1 DEF TypeOK, ItemsOK, NoLostWakeup, items, Door
  <2> QED BY <2>1, <2>2 DEF Call
<1>6. TypeOK'
  BY <1>1, <1>2, <1>4, <1>5 DEF TypeOK
<1>7. TableOK'
  BY <1>1, <1>4, <1>5 DEF TableOK, TypeOK, Door
<1>8. ItemsOK'
  <2>1. \A d \in queue' : call'[d] \notin Door \cup {"out"}
    BY <1>5 DEF ItemsOK, Door, TypeOK
  <2>2. \A w \in Held' : call'[job'[w]] \notin Door \cup {"out"}
    BY <1>1, <1>2, <1>3, <1>5 DEF ItemsOK
  <2> QED BY <1>5, <2>1, <2>2 DEF ItemsOK
<1>9. EndOK' /\ LateOK'
  BY <1>1, <1>2, <1>4 DEF EndOK, LateOK, Stopped
<1>10. OpenOK'
  BY <1>1, <1>2, <1>4, <1>5 DEF OpenOK, TypeOK, Door
<1> QED BY <1>5, <1>6, <1>7, <1>8, <1>9, <1>10

\* Who enters has been at the door, so is late once a drain is let go.
LEMMA EnterOK ==
    ASSUME IInv, NEW c \in Callers, Enter(c)
    PROVE  IInv'
<1> USE DEF IInv
<1>1. /\ call[c] \in {"arriving", "woken"}
      /\ UNCHANGED <<future, states, started, quit, worker, job, running, accepting, shut, forced, told, late>>
  BY DEF Enter, table, pool, ending
<1>2. Held' = Held /\ Stopped' = Stopped
  BY <1>1 DEF Held, Stopped
<1>3. c \notin queue /\ \A w \in Held : job[w] \in Callers \ {c}
  BY <1>1, HeldJob DEF ItemsOK, Door
<1>4. /\ queue' \subseteq Callers /\ Cardinality(queue') <= MaxQueue
      /\ queue \subseteq queue' /\ queue' \subseteq queue \cup {c}
      /\ unfinished' \in Nat /\ unfinished' = Cardinality(queue') + Cardinality(Held')
      /\ putters' \in Seq(Callers) /\ IsInjective(putters')
      /\ call' \in [Callers -> {"out", "arriving", "putting", "woken", "waiting", "leaving", "gone"}]
      /\ \A d \in Callers : call'[d] = "putting" <=> d \in Range(putters')
      /\ \A d \in Callers \ {c} : call'[d] = call[d]
      /\ \/ call'[c] = "waiting" /\ c \in queue'
         \/ call'[c] = "putting" /\ c \notin queue'
      /\ NoLostWakeup'
  BY <1>1, <1>2, PutItems DEF Enter
<1>5. TypeOK'
  BY <1>1, <1>2, <1>4 DEF TypeOK
<1>6. TableOK'
  BY <1>1, <1>4 DEF TableOK, TypeOK, Door
<1>7. ItemsOK'
  <2>1. \A d \in queue' : call'[d] \notin Door \cup {"out"}
    BY <1>4 DEF ItemsOK, Door, TypeOK
  <2>2. \A w \in Held' : call'[job'[w]] \notin Door \cup {"out"}
    BY <1>1, <1>2, <1>3, <1>4 DEF ItemsOK
  <2> QED BY <1>4, <2>1, <2>2 DEF ItemsOK
<1>8. EndOK'
  BY <1>1 DEF EndOK
<1>9. OpenOK'
  BY <1>1, <1>2, <1>4 DEF OpenOK, TypeOK, Door
<1>10. LateOK'
  BY <1>1, <1>2, <1>4 DEF LateOK, TypeOK, Door
<1> QED BY <1>4, <1>5, <1>6, <1>7, <1>8, <1>9, <1>10

\* A caller that goes away changes nothing for the others.
LEMMA RefuseOK ==
    ASSUME IInv, NEW c \in Callers, Refuse(c)
    PROVE  IInv'
<1> USE DEF IInv
<1>1. UNCHANGED <<Held, Stopped>> /\ call[c] = "out" /\ call' = [call EXCEPT ![c] = "gone"]
  BY DEF Refuse, pool, ending, Held, Stopped
<1>2. TypeOK'
  BY <1>1 DEF Refuse, TypeOK, table, items, pool, ending
<1>3. TableOK' /\ ItemsOK' /\ EndOK'
  BY <1>1, HeldJob DEF Refuse, TypeOK, TableOK, ItemsOK, EndOK, table, items, pool, ending, Door
<1>4. OpenOK' /\ LateOK'
  BY <1>1 DEF Refuse, TypeOK, OpenOK, LateOK, table, items, pool, ending, Door
<1>5. Woken' = Woken
  BY <1>1 DEF Woken, TypeOK
<1>6. NoLostWakeup'
  BY <1>5 DEF NoLostWakeup, Refuse, items
<1> QED BY <1>2, <1>3, <1>4, <1>6

\* Who gives up frees no place, except one he was woken for: he wakes the next.
LEMMA LeaveQueueOK ==
    ASSUME IInv, NEW c \in Callers, LeaveQueue(c)
    PROVE  IInv'
<1> USE DEF IInv
<1>1. /\ UNCHANGED <<Held, Stopped, queue, unfinished, worker, job, running, accepting, shut, forced, told, late>>
      /\ future' = [future EXCEPT ![c] = "none"]
      /\ states' = states \ {c} /\ started' = started \ {c} /\ quit' = quit \ {c}
      /\ call[c] \in Door
  BY DEF LeaveQueue, GiveUp, Drop, Pop, pool, ending, Held, Stopped, Door
<1>2. putters \in Seq(Callers) /\ IsInjective(putters) /\ call \in [Callers -> {"out", "arriving", "putting", "woken", "waiting", "leaving", "gone"}]
  BY DEF TypeOK, ItemsOK
<1>3. /\ Cardinality(queue) \in Nat /\ MaxQueue \in Nat /\ Cardinality(Woken) \in Nat
      /\ Cardinality(queue) <= MaxQueue
  BY QueueFinite, WokenFinite, ExecutorAssumption DEF ExecutorAssumption, TypeOK
<1>4. /\ putters' \in Seq(Callers) /\ IsInjective(putters')
      /\ call' \in [Callers -> {"out", "arriving", "putting", "woken", "waiting", "leaving", "gone"}]
      /\ call'[c] = "gone"
      /\ \A d \in Callers : call'[d] = "putting" <=> d \in Range(putters')
      /\ \A d \in Callers \ {c} : \/ call'[d] = call[d]
                                  \/ call[d] = "putting" /\ call'[d] = "woken"
      /\ NoLostWakeup'
  <2>1. CASE call[c] = "arriving" /\ GiveUp(c)
    <3>1. call' = [call EXCEPT ![c] = "gone"] /\ putters' = putters
      BY <2>1 DEF GiveUp
    <3>2. Woken' = Woken
      BY <2>1, <3>1, <1>2 DEF Woken
    <3>3. c \notin Range(putters)
      BY <2>1 DEF ItemsOK
    <3> QED BY <1>1, <1>2, <3>1, <3>2, <3>3 DEF NoLostWakeup, ItemsOK
  <2>2. CASE call[c] = "putting" /\ GiveUp(c)
    <3>1. call' = [call EXCEPT ![c] = "gone"] /\ putters' = RemoveFirst(putters, c)
      BY <2>2 DEF GiveUp
    <3>2. c \in Range(putters)
      BY <2>2 DEF ItemsOK
    <3>3. /\ putters' \in Seq(Callers) /\ IsInjective(putters')
          /\ Range(putters') = Range(putters) \ {c}
          /\ putters' # <<>> => putters # <<>>
      BY <1>2, <3>1, <3>2, RemoveRange
    <3>4. Woken' = Woken
      BY <2>2, <3>1, <1>2 DEF Woken
    <3> QED BY <1>1, <1>2, <3>1, <3>3, <3>4 DEF NoLostWakeup, ItemsOK
  <2>3. CASE call[c] = "woken"
    <3>1. c \in Woken /\ c \notin Range(putters)
      BY <2>3 DEF Woken, ItemsOK
    <3>2. Cardinality(Woken \ {c}) = Cardinality(Woken) - 1 /\ Cardinality(Woken) >= 1
          /\ IsFiniteSet(Woken \ {c}) /\ Cardinality(Woken \ {c}) \in Nat
      <4>1. IsFiniteSet(Woken \ {c}) /\ Cardinality(Woken \ {c}) \in Nat
        BY WokenFinite, FS_RemoveElement, FS_CardinalityType
      <4>2. Cardinality(Woken \ {c}) = Cardinality(Woken) - 1
        BY <3>1, WokenFinite
      <4> QED BY <4>1, <4>2, <1>3
    <3>3. CASE Cardinality(queue) < MaxQueue /\ putters # <<>>
      <4> DEFINE h == Head(putters)
      <4>1. /\ call' = [call EXCEPT ![c] = "gone", ![h] = "woken"]
            /\ putters' = Tail(putters)
        BY <2>3, <3>3 DEF LeaveQueue, GiveUp
      <4>2. /\ h \in Callers /\ Tail(putters) \in Seq(Callers)
            /\ Range(putters) = Range(Tail(putters)) \cup {h}
            /\ IsInjective(Tail(putters)) /\ h \notin Range(Tail(putters))
        BY <1>2, <3>3, TailRange
      <4> HIDE DEF h
      <4>3. call[h] = "putting" /\ h # c
        BY <4>2, <2>3 DEF ItemsOK
      <4>4. Woken' = (Woken \ {c}) \cup {h} /\ h \notin Woken \ {c}
        BY <1>2, <4>1, <4>2, <4>3 DEF Woken
      <4>5. Cardinality((Woken \ {c}) \cup {h}) = Cardinality(Woken \ {c}) + 1
        BY <3>2, <4>4, FS_AddElement
      <4>6. Cardinality(Woken') = Cardinality(Woken)
        BY <1>3, <3>2, <4>4, <4>5
      <4>7. NoLostWakeup'
        BY <1>1, <3>3, <4>6 DEF NoLostWakeup
      <4>8. /\ call' \in [Callers -> {"out", "arriving", "putting", "woken", "waiting", "leaving", "gone"}]
            /\ call'[c] = "gone"
            /\ \A d \in Callers : call'[d] = "putting" <=> d \in Range(putters')
            /\ \A d \in Callers \ {c} : \/ call'[d] = call[d]
                                        \/ call[d] = "putting" /\ call'[d] = "woken"
        BY <1>2, <3>1, <4>1, <4>2, <4>3 DEF ItemsOK
      <4> QED BY <4>1, <4>2, <4>7, <4>8
    <3>4. CASE ~(Cardinality(queue) < MaxQueue /\ putters # <<>>)
      <4>1. call' = [call EXCEPT ![c] = "gone"] /\ putters' = putters
        BY <2>3, <3>4 DEF LeaveQueue, GiveUp
      <4>2. Woken' = Woken \ {c}
        BY <1>2, <4>1 DEF Woken
      <4>3. Cardinality(Woken') \in Nat
        BY <3>2, <4>2
      <4>4. NoLostWakeup'
        BY <1>1, <1>3, <3>4, <4>1, <4>3 DEF NoLostWakeup
      <4> QED BY <1>2, <2>3, <3>1, <4>1, <4>4 DEF ItemsOK
    <3> QED BY <3>3, <3>4
  <2> QED BY <2>1, <2>2, <2>3 DEF LeaveQueue, GiveUp
<1>5. TypeOK'
  BY <1>1, <1>4 DEF TypeOK
<1>6. TableOK'
  BY <1>1, <1>4 DEF TypeOK, TableOK, Door
<1>7. ItemsOK'
  <2>1. \A d \in queue : call'[d] \notin Door \cup {"out"}
    BY <1>1, <1>4 DEF ItemsOK, Door, TypeOK
  <2>2. \A w \in Held : call'[job[w]] \notin Door \cup {"out"}
    BY <1>1, <1>4, HeldJob DEF ItemsOK, Door
  <2> QED BY <1>1, <1>4, <2>1, <2>2 DEF ItemsOK
<1>8. EndOK'
  BY <1>1 DEF EndOK
<1>9. OpenOK' /\ LateOK'
  BY <1>1, <1>4 DEF TypeOK, OpenOK, LateOK, Door
<1> QED BY <1>4, <1>5, <1>6, <1>7, <1>8, <1>9

LEMMA AnswerOK ==
    ASSUME IInv, NEW c \in Callers, Answer(c) \/ Leave(c)
    PROVE  IInv'
<1> USE DEF IInv
<1>1. UNCHANGED <<Held, Stopped>>
  BY DEF Answer, Leave, pool, ending, Held, Stopped
<1>2. /\ call' = [call EXCEPT ![c] = "gone"] /\ future' = [future EXCEPT ![c] = "none"] /\ Pop({c})
      /\ call[c] \in {"waiting", "leaving"} /\ UNCHANGED <<items, pool, running, ending>>
  BY DEF Answer, Leave, Forget, Drop
<1>3. TypeOK'
  BY <1>1, <1>2 DEF Pop, TypeOK, items, pool, ending
<1>4. TableOK' /\ ItemsOK' /\ EndOK'
  BY <1>1, <1>2, HeldJob DEF Pop, TypeOK, TableOK, ItemsOK, EndOK, items, pool, ending, Door
<1>5. OpenOK' /\ LateOK'
  BY <1>1, <1>2 DEF Pop, TypeOK, OpenOK, LateOK, items, pool, ending, Door
<1>6. Woken' = Woken
  BY <1>2 DEF Woken, TypeOK
<1>7. NoLostWakeup'
  BY <1>2, <1>6 DEF NoLostWakeup, items
<1> QED BY <1>3, <1>4, <1>5, <1>7

LEMMA TimeoutOK ==
    ASSUME IInv, NEW c \in Callers, Timeout(c)
    PROVE  IInv'
<1> USE DEF IInv
<1>1. UNCHANGED <<Held, Stopped>>
  BY DEF Timeout, pool, ending, Held, Stopped
<1>2. TypeOK'
  BY <1>1 DEF Timeout, TypeOK, items, pool, ending
<1>3. TableOK' /\ ItemsOK' /\ EndOK'
  BY <1>1, HeldJob DEF Timeout, TypeOK, TableOK, ItemsOK, EndOK, items, pool, ending, Door
<1>4. OpenOK' /\ LateOK'
  BY <1>1 DEF Timeout, TypeOK, OpenOK, LateOK, items, pool, ending, Door
<1>5. Woken' = Woken
  BY DEF Timeout, Woken, TypeOK
<1>6. NoLostWakeup'
  BY <1>5 DEF NoLostWakeup, Timeout, items
<1> QED BY <1>2, <1>3, <1>4, <1>6

-----------------------------------------------------------------------------
(* The worker.                                                              *)

\* task_done: one item less to wait for, one worker less that holds a call; the
\* last item lets a drain go.
LEMMA DoneHeld ==
    ASSUME TypeOK, ItemsOK, NEW w \in Held, Done(w), queue' = queue
    PROVE  /\ Held' = Held \ {w}
           /\ unfinished' \in Nat /\ unfinished' = Cardinality(queue) + Cardinality(Held')
           /\ worker' \in [Workers -> {"none", "idle", "got", "running", "stuck", "dead"}]
           /\ job' \in [Workers -> Callers \cup {None}]
           /\ \A v \in Workers : v \in Held' <=> job'[v] # None
           /\ \A v \in Held' : job'[v] = job[v]
           /\ \A v \in Workers : worker[v] \in {"none", "dead"} => worker'[v] = worker[v]
           /\ ~Stopped => \A v \in Workers : worker'[v] = "dead" => worker[v] = "dead"
           /\ Stopped' = Stopped
           /\ shut' # "no" => shut # "no"
           /\ \/ UNCHANGED <<shut, late>>
              \/ /\ shut = "join" /\ shut' = "joined" /\ late' = AtDoor
                 /\ queue = {} /\ Held' = {}
<1>1. w \in Workers
  BY DEF Held
<1>2. Held' = Held \ {w}
  BY <1>1 DEF Held, Done, TypeOK
<1>3. /\ Cardinality(Held') = Cardinality(Held) - 1 /\ Cardinality(Held) >= 1 /\ Cardinality(Held) \in Nat
      /\ IsFiniteSet(Held') /\ Cardinality(queue) \in Nat
  BY <1>2, HeldFinite, QueueFinite, FS_RemoveElement
<1>4. /\ unfinished' \in Nat /\ unfinished' = Cardinality(queue) + Cardinality(Held')
  BY <1>3 DEF Done, TypeOK, ItemsOK
<1>5. /\ worker' \in [Workers -> {"none", "idle", "got", "running", "stuck", "dead"}]
      /\ job' \in [Workers -> Callers \cup {None}]
  BY <1>1 DEF Done, TypeOK
<1>6. /\ \A v \in Workers : v \in Held' <=> job'[v] # None
      /\ \A v \in Held' : job'[v] = job[v]
  BY <1>1, <1>2 DEF Done, TypeOK, Held
<1>7. /\ \A v \in Workers : worker[v] \in {"none", "dead"} => worker'[v] = worker[v]
      /\ ~Stopped => \A v \in Workers : worker'[v] = "dead" => worker[v] = "dead"
  BY <1>1 DEF Done, TypeOK, Held
<1>8. CASE shut = "join" /\ unfinished = 1
  <2>1. shut' = "joined" /\ late' = AtDoor
    BY <1>8 DEF Done, LetGo
  <2>2. Cardinality(queue) = 0 /\ Cardinality(Held') = 0
    BY <1>3, <1>8 DEF ItemsOK
  <2>3. queue = {} /\ Held' = {}
    BY <1>3, <2>2, QueueFinite, FS_EmptySet
  <2> QED BY <1>2, <1>4, <1>5, <1>6, <1>7, <1>8, <2>1, <2>3 DEF Stopped
<1>9. CASE ~(shut = "join" /\ unfinished = 1)
  <2>1. UNCHANGED <<shut, late>>
    BY <1>9 DEF Done
  <2> QED BY <1>2, <1>4, <1>5, <1>6, <1>7, <2>1 DEF Stopped
<1> QED BY <1>8, <1>9

\* A call that is no longer waited for is taken from its worker.  When that lets
\* a drain go, nothing is queued and no worker holds a call, so that whoever
\* still waited for a future would have no item.
LEMMA DropOK ==
    ASSUME IInv, NEW w \in Held, Done(w), Pop({job[w]}),
           future' \in [Callers -> {"none", "pending", "ok", "error", "cancelled", "late", "stuck"}],
           \A c \in Callers : future'[c] = future[c] \/ (c = job[w] /\ future'[c] # "pending"),
           job[w] \in states /\ call[job[w]] # "leaving" => future'[job[w]] # "pending",
           told' \subseteq told,
           UNCHANGED <<call, queue, putters, running, accepting, forced>>
    PROVE  IInv'
<1> USE DEF IInv
<1>1. w \in Workers /\ job[w] \in Callers
  BY HeldJob
<1>2. /\ Held' = Held \ {w}
      /\ unfinished' \in Nat /\ unfinished' = Cardinality(queue) + Cardinality(Held')
      /\ worker' \in [Workers -> {"none", "idle", "got", "running", "stuck", "dead"}]
      /\ job' \in [Workers -> Callers \cup {None}]
      /\ \A v \in Workers : v \in Held' <=> job'[v] # None
      /\ \A v \in Held' : job'[v] = job[v]
      /\ \A v \in Workers : worker[v] \in {"none", "dead"} => worker'[v] = worker[v]
      /\ ~Stopped => \A v \in Workers : worker'[v] = "dead" => worker[v] = "dead"
      /\ Stopped' = Stopped
      /\ shut' # "no" => shut # "no"
      /\ \/ UNCHANGED <<shut, late>>
         \/ /\ shut = "join" /\ shut' = "joined" /\ late' = AtDoor
            /\ queue = {} /\ Held' = {}
  BY DoneHeld
<1>3. TypeOK'
  <2>1. shut' \in {"no", "join", "joined", "force", "stop", "done"} /\ late' \subseteq Callers
    BY <1>2 DEF TypeOK, AtDoor
  <2> QED BY <1>2, <2>1 DEF TypeOK, Pop
<1>4. TableOK'
  BY <1>1 DEF TableOK, TypeOK, Pop
<1>5. ItemsOK' /\ EndOK'
  BY <1>2, HeldJob DEF ItemsOK, EndOK, TypeOK
<1>6. OpenOK'
  <2> SUFFICES ASSUME ~Stopped PROVE OpenOK'
    BY <1>2 DEF OpenOK
  <2>1. told' = {} /\ \A v \in Workers : worker'[v] # "dead"
    BY <1>2 DEF OpenOK
  <2>2. ASSUME NEW c \in Callers, call'[c] \in Door \cup {"waiting"}, future'[c] = "pending"
        PROVE  /\ c \in states'
               /\ call'[c] = "waiting" => c \in queue' \/ \E v \in Held' : job'[v] = c
    <3>1. future[c] = "pending"
      BY <2>2
    <3>2. c \in states /\ c # job[w]
      BY <2>2, <3>1 DEF OpenOK, Door
    <3> QED BY <1>1, <1>2, <2>2, <3>1, <3>2 DEF OpenOK, Pop
  <2> QED BY <2>1, <2>2 DEF OpenOK
<1>7. LateOK'
  <2>1. CASE UNCHANGED <<shut, late>>
    BY <1>2, <2>1 DEF LateOK
  <2>2. CASE shut = "join" /\ shut' = "joined" /\ late' = AtDoor /\ queue = {} /\ Held' = {}
    <3>1. ~Stopped' /\ queue' = {}
      BY <2>2 DEF Stopped
    <3>2. ASSUME NEW c \in Callers \ late' PROVE call'[c] \notin Door /\ (call'[c] = "waiting" => future'[c] # "pending")
      BY <1>6, <2>2, <3>1, <3>2 DEF OpenOK, AtDoor, Door
    <3> QED BY <3>2 DEF LateOK
  <2> QED BY <1>2, <2>1, <2>2
<1>8. NoLostWakeup'
  BY DEF NoLostWakeup, Woken
<1> QED BY <1>3, <1>4, <1>5, <1>6, <1>7, <1>8

\* Taking an item frees its place, for which the oldest putter is woken.
LEMMA TakeOK ==
    ASSUME IInv, NEW w \in Workers, NEW c \in Callers, Take(w, c)
    PROVE  IInv'
<1> USE DEF IInv
<1>1. /\ ~Stopped /\ Stopped' = Stopped /\ c \in queue /\ worker[w] = "idle"
      /\ queue' = queue \ {c}
      /\ UNCHANGED <<future, states, started, quit, unfinished, running, accepting, shut, forced, told, late>>
  BY DEF Take, MostUrgent, table, ending, Stopped
<1>2. w \notin Held /\ Held' = Held \cup {w}
  BY <1>1 DEF Take, Held, TypeOK
<1>3. /\ \A v \in Held : job'[v] = job[v] /\ v # w
      /\ job'[w] = c
  BY <1>2 DEF Take, TypeOK, Held
<1>4. /\ Cardinality(Held') = Cardinality(Held) + 1 /\ Cardinality(Held) \in Nat
      /\ Cardinality(queue') = Cardinality(queue) - 1 /\ Cardinality(queue) \in Nat /\ Cardinality(queue) >= 1
      /\ Cardinality(Woken) \in Nat
  BY <1>1, <1>2, HeldFinite, QueueFinite, WokenFinite
<1>5. /\ worker' \in [Workers -> {"none", "idle", "got", "running", "stuck", "dead"}]
      /\ job' \in [Workers -> Callers \cup {None}]
      /\ \A v \in Workers : v \in Held' <=> job'[v] # None
      /\ \A v \in Workers : worker'[v] = "dead" => worker[v] = "dead"
  BY <1>2, NoneAssumption DEF Take, TypeOK
<1>6. /\ putters' \in Seq(Callers) /\ IsInjective(putters')
      /\ call' \in [Callers -> {"out", "arriving", "putting", "woken", "waiting", "leaving", "gone"}]
      /\ \A d \in Callers : /\ call'[d] = "putting" <=> d \in Range(putters')
                            /\ \/ call'[d] = call[d]
                               \/ call[d] = "putting" /\ call'[d] = "woken"
      /\ NoLostWakeup'
  <2>1. CASE putters = <<>>
    <3>1. UNCHANGED <<call, putters>>
      BY <2>1 DEF Take
    <3> QED BY <2>1, <3>1 DEF TypeOK, ItemsOK, NoLostWakeup
  <2>2. CASE putters # <<>>
    <3> DEFINE h == Head(putters)
    <3>1. putters' = Tail(putters) /\ call' = [call EXCEPT ![h] = "woken"]
      BY <2>2 DEF Take
    <3>2. /\ h \in Callers /\ Tail(putters) \in Seq(Callers)
          /\ Range(putters) = Range(Tail(putters)) \cup {h}
          /\ IsInjective(Tail(putters)) /\ h \notin Range(Tail(putters))
      BY <2>2, TailRange DEF TypeOK, ItemsOK
    <3> HIDE DEF h
    <3>3. call[h] = "putting"
      BY <3>2 DEF ItemsOK
    <3>4. Woken' = Woken \cup {h} /\ h \in Callers \ Woken
      BY <3>1, <3>2, <3>3 DEF Woken, TypeOK
    <3>5. Cardinality(Woken') = Cardinality(Woken) + 1
      BY <3>4, WokenFinite
    <3>6. NoLostWakeup'
      BY <1>4, <2>2, <3>5, ExecutorAssumption DEF NoLostWakeup, ExecutorAssumption
    <3>7. \A d \in Callers : /\ call'[d] = "putting" <=> d \in Range(putters')
                             /\ \/ call'[d] = call[d]
                                \/ call[d] = "putting" /\ call'[d] = "woken"
      BY <3>1, <3>2, <3>3 DEF TypeOK, ItemsOK
    <3>8. call' \in [Callers -> {"out", "arriving", "putting", "woken", "waiting", "leaving", "gone"}]
      BY <3>1 DEF TypeOK
    <3> QED BY <3>1, <3>2, <3>6, <3>7, <3>8
  <2> QED BY <2>1, <2>2
<1>7. TypeOK'
  <2>1. queue' \subseteq Callers /\ Cardinality(queue') <= MaxQueue
    BY <1>1, <1>4, ExecutorAssumption DEF TypeOK, ExecutorAssumption
  <2> QED BY <1>1, <1>5, <1>6, <2>1 DEF TypeOK
<1>8. TableOK'
  BY <1>1, <1>6 DEF TableOK, TypeOK, Door
<1>9. ItemsOK'
  <2>1. ASSUME NEW v \in Held' PROVE call'[job'[v]] \notin Door \cup {"out"}
    <3>1. CASE v = w
      BY <1>1, <1>3, <1>6, <3>1 DEF ItemsOK, Door
    <3>2. CASE v # w
      <4>1. v \in Held /\ job'[v] = job[v] /\ job[v] \in Callers
        BY <1>2, <1>3, <3>2, HeldJob
      <4> QED BY <1>6, <4>1 DEF ItemsOK, Door
    <3> QED BY <3>1, <3>2
  <2>2. \A d \in queue' : call'[d] \notin Door \cup {"out"}
    BY <1>1, <1>6 DEF ItemsOK, TypeOK, Door
  <2>3. unfinished' = Cardinality(queue') + Cardinality(Held')
    BY <1>1, <1>4 DEF ItemsOK
  <2> QED BY <1>6, <2>1, <2>2, <2>3 DEF ItemsOK
<1>10. EndOK'
  BY <1>1 DEF EndOK, Take
<1>11. OpenOK'
  <2>1. ASSUME NEW d \in Callers, call'[d] \in Door \cup {"waiting"}, future'[d] = "pending"
        PROVE  /\ d \in states'
               /\ call'[d] = "waiting" => d \in queue' \/ \E v \in Held' : job'[v] = d
    BY <1>1, <1>2, <1>3, <1>6, <2>1 DEF OpenOK, Door
  <2> QED BY <1>1, <1>5, <2>1 DEF OpenOK
<1>12. LateOK'
  BY <1>1, <1>6 DEF LateOK, Door
<1> QED BY <1>6, <1>7, <1>8, <1>9, <1>10, <1>11, <1>12

LEMMA StartOK ==
    ASSUME IInv, NEW w \in Workers, Start(w)
    PROVE  IInv'
<1> USE DEF IInv
<1>1. w \in Held /\ worker[w] = "got"
      /\ UNCHANGED <<call, future, queue, putters, running, accepting, forced, told>>
  BY DEF Start, Held, callers
<1>2. PICK c \in Callers : c = job[w]
  BY <1>1, HeldJob
<1>3. CASE c \notin states \/ c \in quit \/ future[c] = "cancelled"
  <2>1. Pop({job[w]}) /\ Done(w)
    BY <1>2, <1>3 DEF Start
  <2>2. c \in states /\ call[c] # "leaving" => future[c] # "pending"
    BY <1>3 DEF TableOK
  <2> QED BY <1>1, <1>2, <2>1, <2>2, DropOK DEF TypeOK
<1>4. CASE ~(c \notin states \/ c \in quit \/ future[c] = "cancelled")
  <2>1. /\ worker' = [worker EXCEPT ![w] = "running"] /\ started' = started \cup {c}
        /\ UNCHANGED <<states, quit, job, unfinished, shut, late>>
    BY <1>2, <1>4 DEF Start
  <2>2. Held' = Held /\ Stopped' = Stopped
    BY <1>1, <2>1 DEF Held, TypeOK, Stopped
  <2>3. TypeOK'
    BY <1>1, <2>1, <2>2 DEF TypeOK
  <2>4. TableOK' /\ ItemsOK' /\ EndOK'
    BY <1>1, <2>1, <2>2 DEF TableOK, ItemsOK, EndOK, TypeOK
  <2>5. OpenOK' /\ LateOK' /\ NoLostWakeup'
    BY <1>1, <2>1, <2>2 DEF OpenOK, LateOK, NoLostWakeup, Woken, TypeOK
  <2> QED BY <2>3, <2>4, <2>5
<1> QED BY <1>3, <1>4

\* A future that is settled is no longer pending.
LEMMA SettleFuture ==
    ASSUME TypeOK, NEW c \in Callers, NEW how \in {"ok", "error", "cancelled", "late"}, Settle(c, how)
    PROVE  /\ future' \in [Callers -> {"none", "pending", "ok", "error", "cancelled", "late", "stuck"}]
           /\ \A d \in Callers : future'[d] = future[d] \/ (d = c /\ future'[d] # "pending")
           /\ future'[c] # "pending"
BY DEF Settle, TypeOK

LEMMA FinishOK ==
    ASSUME IInv, NEW w \in Held, NEW how \in {"ok", "error", "cancelled", "late"}, Finish(w, how),
           told' \subseteq told
    PROVE  IInv'
<1> USE DEF IInv
<1>1. job[w] \in Callers
  BY HeldJob
<1>2. Pop({job[w]}) /\ Done(w) /\ UNCHANGED <<call, queue, putters, running, accepting, forced>>
  BY DEF Finish
<1>3. /\ future' \in [Callers -> {"none", "pending", "ok", "error", "cancelled", "late", "stuck"}]
      /\ \A d \in Callers : future'[d] = future[d] \/ (d = job[w] /\ future'[d] # "pending")
      /\ future'[job[w]] # "pending"
  BY <1>1, SettleFuture DEF Finish
<1> QED BY <1>2, <1>3, DropOK

LEMMA ReturnOK ==
    ASSUME IInv, NEW w \in Workers, Return(w) \/ Overrun(w)
    PROVE  IInv'
<1>1. w \in Held /\ told' = told
  BY DEF Return, Overrun, Held
<1>2. \E how \in {"ok", "error", "cancelled", "late"} : Finish(w, how)
  BY ExecutorAssumption DEF Return, Overrun, ExecutorAssumption
<1> QED BY <1>1, <1>2, FinishOK

LEMMA GetStuckOK ==
    ASSUME IInv, NEW w \in Workers, GetStuck(w)
    PROVE  IInv'
<1> USE DEF IInv
<1>1. /\ worker[w] = "running" /\ worker' = [worker EXCEPT ![w] = "stuck"] /\ told' \subseteq told
      /\ UNCHANGED <<call, future, states, started, quit, queue, putters, unfinished, job, running, accepting, shut, forced, late>>
  BY DEF GetStuck, callers, table, items
<1>2. Held' = Held /\ Stopped' = Stopped
  BY <1>1 DEF Held, TypeOK, Stopped
<1>3. TypeOK'
  BY <1>1, <1>2 DEF TypeOK
<1>4. TableOK' /\ ItemsOK' /\ EndOK'
  BY <1>1, <1>2 DEF TableOK, ItemsOK, EndOK, TypeOK
<1>5. OpenOK' /\ LateOK' /\ NoLostWakeup'
  BY <1>1, <1>2 DEF OpenOK, LateOK, NoLostWakeup, Woken, TypeOK
<1> QED BY <1>3, <1>4, <1>5

LEMMA WorkerStopsOK ==
    ASSUME IInv, NEW w \in Workers, WorkerStops(w)
    PROVE  IInv'
<1> USE DEF IInv
<1>1. told' = told \ {w} /\ UNCHANGED <<running, accepting, forced>>
  BY DEF WorkerStops
<1>2. CASE worker[w] = "running"
  <2>1. w \in Held /\ job[w] \in Callers
    BY <1>2, HeldJob DEF Held
  <2>2. /\ Settle(job[w], "cancelled") /\ Pop({job[w]}) /\ Done(w)
        /\ UNCHANGED <<call, queue, putters>>
    BY <1>2 DEF WorkerStops
  <2>3. /\ future' \in [Callers -> {"none", "pending", "ok", "error", "cancelled", "late", "stuck"}]
        /\ \A d \in Callers : future'[d] = future[d] \/ (d = job[w] /\ future'[d] # "pending")
        /\ future'[job[w]] # "pending"
    BY <2>1, <2>2, SettleFuture
  <2> QED BY <1>1, <2>1, <2>2, <2>3, DropOK
<1>3. CASE worker[w] \in {"idle", "got"}
  <2>1. /\ worker' = [worker EXCEPT ![w] = IF worker[w] = "got" THEN "got" ELSE "dead"]
        /\ UNCHANGED <<call, future, states, started, quit, queue, putters, unfinished, job, shut, late>>
    BY <1>3 DEF WorkerStops, callers, table, items
  <2>2. Held' = Held /\ Stopped' = Stopped /\ Stopped
    BY <1>3, <2>1 DEF Held, TypeOK, Stopped, WorkerStops, OpenOK
  <2>3. TypeOK'
    BY <1>1, <2>1, <2>2 DEF TypeOK
  <2>4. TableOK' /\ ItemsOK'
    BY <2>1, <2>2 DEF TableOK, ItemsOK
  <2>5. EndOK'
    BY <1>1, <1>3, <2>1 DEF EndOK, TypeOK
  <2>6. OpenOK' /\ LateOK' /\ NoLostWakeup'
    BY <1>1, <2>1, <2>2 DEF OpenOK, LateOK, NoLostWakeup, Woken
  <2> QED BY <2>3, <2>4, <2>5, <2>6
<1> QED BY <1>2, <1>3 DEF WorkerStops

LEMMA HealthCheckOK ==
    ASSUME IInv, HealthCheck
    PROVE  IInv'
<1> USE DEF IInv
<1>1. Held' = Held /\ Stopped' = Stopped /\ Woken' = Woken
  BY DEF HealthCheck, pool, ending, Held, Stopped, Woken
<1>2. TypeOK'
  BY <1>1 DEF HealthCheck, Pop, TypeOK, items, pool, ending
<1>3. TableOK'
  BY <1>1 DEF HealthCheck, Pop, TypeOK, TableOK, Overdue
<1>4. ItemsOK' /\ EndOK'
  BY <1>1 DEF HealthCheck, ItemsOK, EndOK, items, pool, ending
<1>5. OpenOK' /\ LateOK' /\ NoLostWakeup'
  BY <1>1 DEF HealthCheck, Pop, TypeOK, OpenOK, LateOK, NoLostWakeup, Overdue, items, pool, ending
<1> QED BY <1>2, <1>3, <1>4, <1>5

-----------------------------------------------------------------------------
(* shutdown.                                                                *)

\* A shutdown begins: a drain with nothing to wait for is let go at once.
LEMMA ShutdownOK ==
    ASSUME IInv, Shutdown \/ JoinTimeout
    PROVE  IInv'
<1> USE DEF IInv
<1>1. /\ UNCHANGED <<call, future, states, started, quit, queue, putters, unfinished, worker, job, running, forced, told>>
      /\ ~Stopped /\ ~Stopped' /\ accepting' = FALSE
      /\ shut' \in {"join", "joined", "force"} /\ late' \subseteq Callers
      /\ shut' = "joined" => unfinished = 0 /\ late' = AtDoor
  BY DEF Shutdown, Begin, JoinTimeout, LetGo, AtDoor, callers, table, items, pool, TypeOK, EndOK, Stopped
<1>2. Held' = Held /\ Woken' = Woken
  BY <1>1 DEF Held, Woken
<1>3. TypeOK'
  BY <1>1, <1>2 DEF TypeOK
<1>4. TableOK' /\ ItemsOK' /\ EndOK'
  BY <1>1, <1>2 DEF TableOK, ItemsOK, EndOK
<1>5. OpenOK' /\ NoLostWakeup'
  BY <1>1, <1>2 DEF OpenOK, NoLostWakeup
<1>6. LateOK'
  <2> SUFFICES ASSUME shut' = "joined" PROVE LateOK'
    BY <1>1 DEF LateOK
  <2>1. Cardinality(queue) = 0 /\ Cardinality(Held) = 0
    BY <1>1, QueueFinite, HeldFinite DEF ItemsOK
  <2>2. queue = {} /\ Held = {}
    BY <2>1, QueueFinite, HeldFinite, FS_EmptySet
  <2> QED BY <1>1, <2>2 DEF LateOK, OpenOK, AtDoor, Door
<1> QED BY <1>3, <1>4, <1>5, <1>6

LEMMA JoinedOK ==
    ASSUME IInv, Joined
    PROVE  IInv'
<1> USE DEF IInv
<1>1. /\ UNCHANGED <<call, future, states, started, quit, queue, putters, unfinished, worker, job, running, accepting, forced, late>>
      /\ shut = "joined" /\ shut' = "stop" /\ Stopped' /\ told' \subseteq Workers
  BY DEF Joined, TellWorkers, Alive, callers, table, items, pool, Stopped
<1>2. Held' = Held /\ Woken' = Woken
  BY <1>1 DEF Held, Woken
<1>3. TypeOK'
  BY <1>1, <1>2 DEF TypeOK
<1>4. TableOK' /\ ItemsOK' /\ EndOK'
  BY <1>1, <1>2 DEF TableOK, ItemsOK, EndOK
<1>5. OpenOK' /\ LateOK' /\ NoLostWakeup'
  BY <1>1, <1>2 DEF OpenOK, LateOK, NoLostWakeup
<1> QED BY <1>3, <1>4, <1>5

LEMMA ForceOK ==
    ASSUME IInv, Sweep
    PROVE  IInv'
<1> USE DEF IInv
<1> DEFINE n == Cardinality(queue)
           least == IF Len(putters) < n THEN Len(putters) ELSE n
<1>1. /\ future' \in [Callers -> {"none", "pending", "ok", "error", "cancelled", "late", "stuck"}]
      /\ states' = {} /\ started' = {} /\ quit' = {}
      /\ shut = "force" /\ shut' = "stop" /\ ~Stopped /\ Stopped' /\ told' \subseteq Workers /\ forced' = TRUE
      /\ UNCHANGED <<worker, job, running, accepting, late>>
  BY DEF Sweep, Pop, TellWorkers, Alive, TypeOK, pool, Stopped
<1>2. /\ putters \in Seq(Callers) /\ IsInjective(putters) /\ Len(putters) \in Nat
      /\ n \in Nat /\ n <= MaxQueue /\ unfinished = n + Cardinality(Held) /\ Cardinality(Held) \in Nat
      /\ MaxQueue \in Nat /\ Cardinality(Woken) \in Nat
  <2>1. /\ putters \in Seq(Callers) /\ IsInjective(putters) /\ n <= MaxQueue
        /\ unfinished = n + Cardinality(Held)
    BY DEF TypeOK, ItemsOK
  <2> QED BY <2>1, LenProperties, QueueFinite, HeldFinite, WokenFinite, ExecutorAssumption DEF ExecutorAssumption
<1>3. PICK k \in 0..Len(putters) : k = least /\ k <= n
  BY <1>2
<1>4. k < Len(putters) => k = n
  BY <1>2, <1>3
<1> DEFINE next == {putters[i] : i \in 1..k}
           rest == SubSeq(putters, k + 1, Len(putters))
<1>5. /\ queue' = {} /\ putters' = rest /\ unfinished' = unfinished - n
      /\ call' = [c \in Callers |-> IF c \in next THEN "woken" ELSE call[c]]
  BY <1>3 DEF Sweep
<1> HIDE DEF n, least
<1>6. /\ next \subseteq Callers /\ Cardinality(next) = k /\ IsFiniteSet(next)
      /\ next \subseteq Range(putters)
      /\ rest \in Seq(Callers) /\ IsInjective(rest) /\ Range(rest) = Range(putters) \ next
      /\ rest # <<>> => k < Len(putters)
  <2>1. putters \in Seq(Callers) /\ IsInjective(putters) /\ k \in 0..Len(putters)
    BY <1>2, <1>3
  <2>2. /\ FirstOf(putters, k) \subseteq Callers /\ IsFiniteSet(FirstOf(putters, k))
        /\ FirstOf(putters, k) \subseteq Range(putters)
        /\ RestOf(putters, k) \in Seq(Callers) /\ RestOf(putters, k) # <<>> => k < Len(putters)
        /\ IsInjective(putters) => /\ IsInjective(RestOf(putters, k))
                                  /\ Range(RestOf(putters, k)) = Range(putters) \ FirstOf(putters, k)
                                  /\ Cardinality(FirstOf(putters, k)) = k
    BY <2>1, WokenRange
  <2> QED BY <2>1, <2>2 DEF FirstOf, RestOf
<1> HIDE DEF next, rest
<1>7. Held' = Held /\ Cardinality({}) = 0 /\ n - n = 0
  BY <1>1, <1>2, FS_EmptySet DEF Held
<1>8. /\ Cardinality(queue') <= MaxQueue /\ unfinished' \in Nat
      /\ unfinished' = Cardinality(queue') + Cardinality(Held')
  BY <1>2, <1>5, <1>7
<1>9. call' \in [Callers -> {"out", "arriving", "putting", "woken", "waiting", "leaving", "gone"}]
  BY <1>5 DEF TypeOK
<1>10. TypeOK'
  BY <1>1, <1>5, <1>6, <1>7, <1>8, <1>9 DEF TypeOK
<1>11. ItemsOK'
  <2>1. \A w \in Held' : call'[job'[w]] \notin Door \cup {"out"}
    <3>1. ASSUME NEW w \in Held PROVE call'[job[w]] \notin Door \cup {"out"}
      <4>1. job[w] \in Callers /\ call[job[w]] \notin Door \cup {"out"}
        BY HeldJob DEF ItemsOK
      <4>2. job[w] \notin next
        BY <1>6, <4>1 DEF ItemsOK, Door
      <4> QED BY <1>5, <4>1, <4>2
    <3> QED BY <1>1, <1>7, <3>1
  <2>2. \A c \in Callers : call'[c] = "putting" <=> c \in Range(putters')
    BY <1>5, <1>6 DEF ItemsOK
  <2> QED BY <1>5, <1>6, <1>8, <2>1, <2>2 DEF ItemsOK
<1>12. NoLostWakeup'
  <2> SUFFICES ASSUME rest # <<>> PROVE Cardinality(queue') + Cardinality(Woken') >= MaxQueue
    BY <1>5 DEF NoLostWakeup
  <2>1. k = n /\ putters # <<>>
    BY <1>2, <1>4, <1>6, EmptySeq
  <2>2. n + Cardinality(Woken) >= MaxQueue
    BY <2>1 DEF NoLostWakeup, n
  <2>3. Woken' = Woken \cup next /\ Woken \cap next = {}
    <3>1. \A c \in next : c \in Callers /\ call[c] = "putting"
      BY <1>6 DEF ItemsOK
    <3> QED BY <1>5, <3>1 DEF Woken
  <2>4. /\ Cardinality(Woken \cup next) = Cardinality(Woken) + Cardinality(next) - Cardinality(Woken \cap next)
    BY <1>6, WokenFinite, FS_Union
  <2>5. Cardinality(Woken') = Cardinality(Woken) + k
    <3>1. Cardinality(Woken \cap next) = 0
      BY <1>7, <2>3
    <3>2. k \in Nat /\ Cardinality(next) = k
      BY <1>2, <1>6
    <3>3. Cardinality(Woken') = Cardinality(Woken \cup next)
      BY <2>3
    <3> QED BY <1>2, <2>4, <3>1, <3>2, <3>3
  <2>6. Cardinality(queue') = 0
    BY <1>5, <1>7
  <2> QED BY <1>2, <2>1, <2>2, <2>5, <2>6
<1>13. TableOK' /\ EndOK' /\ OpenOK' /\ LateOK'
  BY <1>1 DEF TableOK, EndOK, OpenOK, LateOK
<1> QED BY <1>10, <1>11, <1>12, <1>13

LEMMA GatheredOK ==
    ASSUME IInv, Gathered
    PROVE  IInv'
<1> USE DEF IInv
<1>1. /\ UNCHANGED <<call, future, states, started, quit, queue, putters, unfinished, worker, job, accepting, forced, told, late>>
      /\ shut = "stop" /\ shut' = "done" /\ ~running' /\ running' \in BOOLEAN
      /\ \A w \in Workers : worker[w] \in {"none", "dead"}
  BY DEF Gathered, callers, table, items, pool
<1>2. Held' = Held /\ Woken' = Woken /\ Stopped /\ Stopped'
  BY <1>1 DEF Held, Stopped, Woken
<1>3. TypeOK'
  BY <1>1, <1>2 DEF TypeOK
<1>4. TableOK' /\ ItemsOK' /\ EndOK'
  BY <1>1, <1>2 DEF TableOK, ItemsOK, EndOK
<1>5. OpenOK' /\ LateOK' /\ NoLostWakeup'
  BY <1>1, <1>2 DEF OpenOK, LateOK, NoLostWakeup
<1> QED BY <1>3, <1>4, <1>5

LEMMA NextOK == IInv /\ [Next]_vars => IInv'
<1> SUFFICES ASSUME IInv, [Next]_vars PROVE IInv'
  OBVIOUS
<1>1. ASSUME NEW c \in Callers, CallerStep(c) PROVE IInv'
  BY <1>1, CallOK, EnterOK, RefuseOK, LeaveQueueOK, AnswerOK, TimeoutOK DEF CallerStep
<1>2. ASSUME NEW w \in Workers, WorkerStep(w) \/ GetStuck(w) PROVE IInv'
  BY <1>2, TakeOK, StartOK, ReturnOK, WorkerStopsOK, GetStuckOK DEF WorkerStep
<1>3. CASE UNCHANGED vars
  <2>1. UNCHANGED <<Held, Stopped, Woken>>
    BY <1>3 DEF vars, callers, pool, ending, Held, Stopped, Woken
  <2>2. TypeOK'
    BY <1>3, <2>1 DEF IInv, TypeOK, vars, callers, table, items, pool, ending
  <2>3. (TableOK /\ ItemsOK /\ EndOK)'
    BY <1>3, <2>1 DEF IInv, TableOK, ItemsOK, EndOK, vars, callers, table, items, pool, ending
  <2>4. (OpenOK /\ LateOK /\ NoLostWakeup)'
    BY <1>3, <2>1 DEF IInv, OpenOK, LateOK, NoLostWakeup, vars, callers, table, items, pool, ending
  <2> QED BY <2>2, <2>3, <2>4 DEF IInv
<1> QED BY <1>1, <1>2, <1>3, HealthCheckOK, ShutdownOK, JoinedOK, ForceOK, GatheredOK DEF Next

-----------------------------------------------------------------------------
(* The theorems.                                                            *)

LEMMA AlwaysIInv == Spec => []IInv
<1> QED BY InitOK, NextOK, PTL DEF Spec

\* In every state the executor's variables are well typed, and a graceful
\* shutdown past its drain leaves nobody waiting, for a future or for a place in
\* the queue, but the callers who were at the door when the drain was let go.
THEOREM ExecutorTheorem == Spec => []ExecutorInv
<1>1. IInv => ExecutorInv
  BY DEF IInv, ExecutorInv, LateOK, DrainedMeansAnswered, AtDoor, Door
<1> QED BY <1>1, AlwaysIInv, PTL

\* While a caller is blocked on the full queue, as many are in the queue or
\* woken for it as it has places: taking an item wakes one, giving up a wakeup
\* passes it on, and a sweep wakes as many as it frees places.
THEOREM WakeupTheorem == Spec => []NoLostWakeup
<1>1. IInv => NoLostWakeup
  BY DEF IInv
<1> QED BY <1>1, AlwaysIInv, PTL

\* No function is started for a caller that has given up, been answered by the
\* health check or been swept away: an entry of the table stands for a caller
\* that waits with a pending future, unless cancellation was requested.
THEOREM AbandonedTheorem == Spec => AbandonedNotStarted
<1> DEFINE A == \A w \in Workers :
                   worker[w] = "got" /\ worker'[w] = "running" =>
                       call[job[w]] = "waiting" /\ future[job[w]] = "pending"
<1>1. IInv /\ [Next]_vars => [A]_vars
  <2> SUFFICES ASSUME IInv, Next, NEW w \in Workers, worker[w] = "got", worker'[w] = "running"
               PROVE  call[job[w]] = "waiting" /\ future[job[w]] = "pending"
    OBVIOUS
  <2>1. w \in Held /\ job[w] \in Callers /\ worker \in [Workers -> {"none", "idle", "got", "running", "stuck", "dead"}]
    BY HeldJob DEF Held, IInv, TypeOK
  <2>2. Start(w)
    <3>1. ASSUME NEW c \in Callers, CallerStep(c) PROVE FALSE
      BY <2>1, <3>1 DEF CallerStep, Call, EnsureWorkers, Enter, Refuse, LeaveQueue, Answer, Timeout, Leave, pool
    <3>2. ASSUME NEW v \in Workers, WorkerStep(v) \/ GetStuck(v), ~Start(v) PROVE FALSE
      BY <2>1, <3>2 DEF WorkerStep, Take, Return, Overrun, Finish, WorkerStops, Done, GetStuck, pool
    <3>3. ASSUME NEW v \in Workers, Start(v), v # w PROVE FALSE
      BY <2>1, <3>3 DEF Start, Done
    <3> QED BY <3>1, <3>2, <3>3 DEF Next, HealthCheck, Shutdown, Begin, Joined, JoinTimeout, Sweep, Gathered, pool
  <2>3. job[w] \in states /\ job[w] \notin quit
    BY <2>1, <2>2 DEF Start, Done
  <2> QED BY <2>1, <2>3 DEF IInv, TableOK, ItemsOK, Door
<1> QED BY <1>1, AlwaysIInv, PTL DEF Spec, AbandonedNotStarted
=============================================================================
