------------------------- MODULE PipelineBatchProofs -------------------------
(* Theorems about PipelineBatch for any documents, workers, queue bounds,   *)
(* chunk counts, faults, passes and crashes.                                *)
EXTENDS PipelineBatch, FiniteSetTheorems, SequenceTheorems, TLAPS

-----------------------------------------------------------------------------
(* The inductive invariant: the queues.                                     *)

Busy(w)  == at[w] \notin {"get", "dead"}
Hands(s) == {w \in Workers : Serves[w] = s /\ Busy(w)}

\* A worker has a document exactly while it is busy, at a label of its stage.
LabelsOK ==
    \A w \in Workers :
        /\ item[w] # NoDoc <=> Busy(w)
        /\ ParseStage(w) => at[w] \in {"get", "check", "work", "patch", "dup", "put"}
        /\ Serves[w] = "analyze" => at[w] \in {"get", "check", "work", "put"}
        /\ Serves[w] = "process" => at[w] \in {"get", "check", "purge", "chunk", "stage1", "extract",
                                              "merge", "save", "flush", "fail", "dead"}

\* A queue's counter is what waits in it and what its workers hold.
CountOK == \A s \in Stages : unfinished[s] = Len(q[s]) + Cardinality(Hands(s))

\* Outside of a batch nothing is under way; a join that has returned stays true.
PhaseOK ==
    /\ phase \in {"idle", "fix"} => /\ \A w \in Workers : at[w] = "get"
                                    /\ \A s \in Stages : q[s] = <<>>
    /\ phase # "feed" => feed = <<>>
    /\ phase \in {"join_analyze", "join_process"} => \A e \in Engines : unfinished[e] = 0
    /\ phase = "join_process" => unfinished["analyze"] = 0

\* A document is in one place: to be fed, in one queue, or with one worker.
OnePlace ==
    /\ IsInjective(feed) /\ \A s \in Stages : IsInjective(q[s])
    /\ \A s \in Stages : Range(feed) \cap Range(q[s]) = {}
    /\ \A s, r \in Stages : s # r => Range(q[s]) \cap Range(q[r]) = {}
    /\ \A w \in Workers : /\ item[w] \notin Range(feed)
                          /\ \A s \in Stages : item[w] \notin Range(q[s])
    /\ \A w, v \in Workers : item[w] = item[v] /\ w # v => item[w] = NoDoc

QInv == TypeOK /\ LabelsOK /\ CountOK /\ PhaseOK /\ OnePlace

-----------------------------------------------------------------------------
(* The inductive invariant: rows and stores.                                *)

Underway(d) ==
    \/ d \in Range(feed)
    \/ \E s \in Stages : d \in Range(q[s])
    \/ \E w \in Workers : item[w] = d

Member(d) == Underway(d) \/ (phase = "fix" /\ d \in batch)

\* A document of the pass has a row, with the hash that is in memory; and the
\* row is PROCESSED only while its worker is at the flush or past it.
RowOK(d) ==
    Member(d) =>
        /\ row[d].status # "absent"
        /\ mem[d].hashed => row[d].hashed
        /\ row[d].status = "PROCESSED" =>
             \E w \in Workers : item[w] = d /\ at[w] \in {"flush", "fail"}

\* A worker flushes only after the row says PROCESSED.
FlushLast == \A w \in Workers : at[w] = "flush" => row[item[w]].status = "PROCESSED"

\* What is no longer under way has reached its end.
Settled ==
    phase \in {"feed", "join_analyze", "join_process"} =>
        \A d \in batch \ unsaved : Underway(d) \/ row[d].status \in {"PROCESSED", "FAILED"}

\* The document is hashed, and the look for its hash has come out.
Cleared(d) ==
    /\ d \notin missed
    /\ \/ row[d].status = "PROCESSED" /\ row[d].hashed
       \/ /\ mem[d].hashed
          /\ \/ d \in Range(q["analyze"]) \cup Range(q["process"])
             \/ \E w \in Workers : item[w] = d /\ (at[w] = "put" \/ ~ParseStage(w))

OneCleared ==
    \A d, e \in Docs : d # e /\ Body[d] = Body[e] => ~(Cleared(d) /\ Cleared(e))

\* The chunks of a document past its stage 1 are in the stores.
ChunksStored ==
    \A w \in Workers :
        \/ at[w] \in {"extract", "merge", "save", "flush"}
        \/ at[w] = "stage1" /\ "chunks" \notin writes[w]
        => cut[w] \subseteq stored[item[w]]

RowInv == (\A d \in Docs : RowOK(d)) /\ FlushLast /\ Settled /\ OneCleared

-----------------------------------------------------------------------------
(* Sequences and counts.                                                    *)

\* What joins the end of a sequence.
LEMMA AppendRange ==
    ASSUME NEW S, NEW s \in Seq(S), NEW x \in S
    PROVE  /\ Append(s, x) \in Seq(S) /\ Len(Append(s, x)) = Len(s) + 1
           /\ Range(Append(s, x)) = Range(s) \cup {x}
           /\ IsInjective(s) /\ x \notin Range(s) => IsInjective(Append(s, x))
<1> DEFINE t == Append(s, x)
<1>1. /\ t \in Seq(S) /\ Len(t) = Len(s) + 1 /\ DOMAIN t = 1..Len(s) + 1
      /\ \A i \in 1..Len(s) : t[i] = s[i]
      /\ t[Len(s) + 1] = x
  BY AppendProperties, LenProperties
<1>2. DOMAIN s = 1..Len(s) /\ Len(s) \in Nat
  BY LenProperties
<1> HIDE DEF t
<1>3. Range(t) = Range(s) \cup {x}
  BY <1>1, <1>2 DEF Range
<1>4. ASSUME IsInjective(s), x \notin Range(s) PROVE IsInjective(t)
  BY <1>1, <1>2, <1>4 DEF IsInjective, Range
<1> QED BY <1>1, <1>3, <1>4 DEF t

\* What leaves the head of one.
LEMMA TailRange ==
    ASSUME NEW S, NEW s \in Seq(S), s # <<>>
    PROVE  /\ Head(s) \in S /\ Tail(s) \in Seq(S) /\ Len(Tail(s)) = Len(s) - 1 /\ Len(s) > 0
           /\ Range(s) = Range(Tail(s)) \cup {Head(s)}
           /\ IsInjective(s) => IsInjective(Tail(s)) /\ Head(s) \notin Range(Tail(s))
<1> DEFINE t == Tail(s)
<1>1. /\ Head(s) = s[1] /\ s[1] \in S
      /\ t \in Seq(S) /\ Len(t) = Len(s) - 1 /\ Len(s) \in Nat \ {0}
      /\ DOMAIN s = 1..Len(s) /\ DOMAIN t = 1..Len(s) - 1
      /\ \A i \in 1..Len(s) - 1 : t[i] = s[i + 1]
  BY HeadTailProperties, LenProperties, ElementOfSeq, EmptySeq
<1> HIDE DEF t
<1>2. Range(s) = Range(t) \cup {s[1]}
  <2>1. ASSUME NEW x \in Range(s) PROVE x \in Range(t) \cup {s[1]}
    <3>1. PICK i \in 1..Len(s) : x = s[i]
      BY <1>1 DEF Range
    <3>2. CASE i = 1
      BY <3>1, <3>2
    <3>3. CASE i # 1
      <4>1. i - 1 \in 1..Len(s) - 1 /\ t[i - 1] = s[i]
        BY <1>1, <3>3
      <4> QED BY <1>1, <3>1, <4>1 DEF Range
    <3> QED BY <3>2, <3>3
  <2>2. ASSUME NEW x \in Range(t) PROVE x \in Range(s)
    <3>1. PICK i \in 1..Len(s) - 1 : x = t[i]
      BY <1>1 DEF Range
    <3>2. i + 1 \in 1..Len(s) /\ s[i + 1] = x
      BY <1>1, <3>1
    <3> QED BY <1>1, <3>2 DEF Range
  <2>3. s[1] \in Range(s)
    BY <1>1 DEF Range
  <2> QED BY <2>1, <2>2, <2>3
<1>3. ASSUME IsInjective(s) PROVE IsInjective(t) /\ s[1] \notin Range(t)
  <2>1. \A i \in 1..Len(s) - 1 : i + 1 \in 1..Len(s) /\ i + 1 # 1
    BY <1>1
  <2>2. ASSUME NEW i \in 1..Len(s) - 1, NEW j \in 1..Len(s) - 1, t[i] = t[j] PROVE i = j
    <3>1. s[i + 1] = s[j + 1]
      BY <1>1, <2>2
    <3>2. i + 1 = j + 1
      BY <1>1, <1>3, <2>1, <3>1 DEF IsInjective
    <3> QED BY <3>2
  <2>3. ASSUME NEW i \in 1..Len(s) - 1, t[i] = s[1] PROVE FALSE
    <3>1. s[i + 1] = s[1] /\ 1 \in 1..Len(s)
      BY <1>1, <2>3
    <3> QED BY <1>1, <1>3, <2>1, <3>1 DEF IsInjective
  <2> QED BY <1>1, <2>2, <2>3 DEF IsInjective, Range
<1> QED BY <1>1, <1>2, <1>3 DEF t

\* The empty sequence.
LEMMA NothingInRange == Range(<<>>) = {} /\ IsInjective(<<>>) /\ Len(<<>>) = 0
BY DEF Range, IsInjective

\* The order of a finite set lists each of its elements once.
LEMMA OrderOfSet ==
    ASSUME NEW S, IsFiniteSet(S), NEW s \in SetToSeqs(S)
    PROVE  s \in Seq(S) /\ IsInjective(s) /\ Range(s) = S
<1> DEFINE n == Cardinality(S)
<1>1. n \in Nat
  BY FS_CardinalityType
<1>2. s \in [1..n -> S] /\ \A i, j \in 1..n : i # j => s[i] # s[j]
  BY DEF SetToSeqs
<1>3. s \in Seq(S) /\ Len(s) = n
  BY <1>1, <1>2, IsASeq, LenProperties
<1>4. IsInjective(s)
  BY <1>2, <1>3 DEF IsInjective
<1>5. Range(s) \subseteq S /\ IsFiniteSet(Range(s))
  BY <1>2, FS_Subset DEF Range
<1>6. Cardinality(Range(s)) = n
  <2>1. ExistsBijection(1..n, Range(s))
    <3>1. s \in Bijection(1..n, Range(s))
      BY <1>2 DEF Bijection, Injection, IsInjective, Surjection, Range
    <3> QED BY <3>1 DEF ExistsBijection
  <2>2. IsFiniteSet(1..n) /\ Cardinality(1..n) = n
    BY <1>1, FS_Interval
  <2> QED BY <2>1, <2>2, FS_Bijection
<1>7. Range(s) = S
  BY <1>5, <1>6, FS_Subset
<1> QED BY <1>3, <1>4, <1>7

\* The workers of a stage that hold something can be counted.
LEMMA HandsCount ==
    \A s : IsFiniteSet(Hands(s)) /\ Cardinality(Hands(s)) \in Nat
           /\ (Cardinality(Hands(s)) = 0 <=> Hands(s) = {})
<1>1. \A s : Hands(s) \subseteq Workers
  BY DEF Hands
<1> QED BY <1>1, BatchAssumption, FS_Subset, FS_CardinalityType, FS_EmptySet

-----------------------------------------------------------------------------
(* How documents move.  Every step makes one of five moves.                 *)

Stays == /\ UNCHANGED <<feed, q, unfinished, item>>
         /\ \A w \in Workers : Busy(w)' <=> Busy(w)

OthersAt(w) == \A v \in Workers \ {w} : at'[v] = at[v]

Takes(w) ==
    LET s == Serves[w] IN
    /\ ~Busy(w) /\ at'[w] = "check" /\ OthersAt(w)
    /\ q[s] # <<>>
    /\ item' = [item EXCEPT ![w] = Head(q[s])]
    /\ q' = [q EXCEPT ![s] = Tail(q[s])]
    /\ UNCHANGED <<feed, unfinished>>

Drops(w) ==
    /\ Busy(w) /\ ~Busy(w)' /\ OthersAt(w)
    /\ item' = [item EXCEPT ![w] = NoDoc]
    /\ unfinished' = [unfinished EXCEPT ![Serves[w]] = @ - 1]
    /\ UNCHANGED <<feed, q>>

HandsOver(w) ==
    LET s == NextStage(Serves[w]) IN
    /\ Busy(w) /\ ~Busy(w)' /\ OthersAt(w)
    /\ Serves[w] # "process"
    /\ Len(q[s]) < QueueSize[s]
    /\ q' = [q EXCEPT ![s] = Append(@, item[w])]
    /\ unfinished' = [unfinished EXCEPT ![s] = @ + 1, ![Serves[w]] = @ - 1]
    /\ item' = [item EXCEPT ![w] = NoDoc]
    /\ UNCHANGED feed

\* What is counted and typed of the queues, apart from the other variables.
Queued == /\ feed \in Seq(Docs) /\ q \in [Stages -> Seq(Docs)]
          /\ \A s \in Stages : Len(q[s]) <= QueueSize[s]
          /\ unfinished \in [Stages -> Nat]
          /\ item \in [Workers -> Docs \cup {NoDoc}]
          /\ \A w \in Workers : item[w] # NoDoc <=> Busy(w)
          /\ CountOK /\ OnePlace

\* The stages; the next stage of one is another, and never a parser's.
LEMMA StagesAre ==
    /\ Serves \in [Workers -> Stages] /\ QueueSize \in [Stages -> Nat \ {0}]
    /\ Engines \subseteq Stages /\ "analyze" \in Stages \ Engines /\ "process" \in Stages \ Engines
    /\ \A s \in Stages : NextStage(s) \in {"analyze", "process"}
    /\ \A s \in Stages \ {"process"} : NextStage(s) # s
BY BatchAssumption DEF Stages, Engines, NextStage

\* Nothing moves.
LEMMA StaysQueued ==
    ASSUME Queued, Stays
    PROVE  Queued'
<1>1. \A s : Hands(s)' = Hands(s)
  BY DEF Hands, Stays
<1> QED BY <1>1 DEF Queued, Stays, CountOK, OnePlace

\* One worker less, and one more.
LEMMA OneHand ==
    ASSUME NEW w \in Workers, OthersAt(w), Busy(w)' # Busy(w), NEW s \in Stages
    PROVE  /\ s # Serves[w] => Hands(s)' = Hands(s)
           /\ s = Serves[w] /\ Busy(w) =>
                 Cardinality(Hands(s)') = Cardinality(Hands(s)) - 1 /\ Cardinality(Hands(s)) > 0
           /\ s = Serves[w] /\ ~Busy(w) => Cardinality(Hands(s)') = Cardinality(Hands(s)) + 1
<1>1. CASE s # Serves[w]
  BY <1>1 DEF Hands, OthersAt, Busy
<1>2. CASE s = Serves[w] /\ Busy(w)
  <2>1. Hands(s)' = Hands(s) \ {w} /\ w \in Hands(s)
    BY <1>2 DEF Hands, OthersAt, Busy
  <2>2. Cardinality(Hands(s)) \in Nat /\ Cardinality(Hands(s)) # 0
    BY <2>1, HandsCount
  <2>3. Cardinality(Hands(s) \ {w}) = Cardinality(Hands(s)) - 1
    BY <2>1, HandsCount, FS_RemoveElement
  <2> QED BY <1>2, <2>1, <2>2, <2>3
<1>3. CASE s = Serves[w] /\ ~Busy(w)
  <2>1. Hands(s)' = Hands(s) \cup {w} /\ w \notin Hands(s)
    BY <1>3 DEF Hands, OthersAt, Busy
  <2> QED BY <1>3, <2>1, HandsCount, FS_AddElement, SMTT(20)
<1> QED BY <1>1, <1>2, <1>3 DEF Busy

\* A worker takes the first document of its queue.
LEMMA TakesQueued ==
    ASSUME Queued, NEW w \in Workers, Takes(w)
    PROVE  /\ Queued'
           /\ Head(q[Serves[w]]) \in Docs
           /\ Range(q[Serves[w]]) = Range(q[Serves[w]])' \cup {Head(q[Serves[w]])}
<1> DEFINE s == Serves[w]
           d == Head(q[s])
<1>1. s \in Stages /\ q[s] \in Seq(Docs) /\ q[s] # <<>> /\ IsInjective(q[s]) /\ item[w] = NoDoc
  BY StagesAre DEF Queued, Takes, OnePlace
<1>2. /\ d \in Docs /\ q'[s] = Tail(q[s]) /\ q'[s] \in Seq(Docs) /\ Len(q'[s]) = Len(q[s]) - 1
      /\ Len(q[s]) > 0 /\ Range(q[s]) = Range(q'[s]) \cup {d}
      /\ IsInjective(q'[s]) /\ d \notin Range(q'[s])
  BY <1>1, TailRange DEF Queued, Takes
<1>3. \A r \in Stages \ {s} : q'[r] = q[r]
  BY <1>1 DEF Takes, Queued
<1>4. item'[w] = d /\ \A v \in Workers \ {w} : item'[v] = item[v]
  BY DEF Takes, Queued
<1>5. d # NoDoc
  BY <1>2, BatchAssumption
<1>6. OnePlace'
  <2>1. \A r \in Stages : IsInjective(q'[r])
    BY <1>2, <1>3 DEF Queued, OnePlace
  <2>2. \A r \in Stages : Range(q'[r]) \subseteq Range(q[r])
    BY <1>2, <1>3
  <2>3. d \in Range(q[s]) /\ d \notin Range(feed) /\ \A r \in Stages \ {s} : d \notin Range(q[r])
    BY <1>1, <1>2 DEF Queued, OnePlace
  <2>4. \A v \in Workers : item[v] # d
    BY <1>1, <2>3 DEF Queued, OnePlace
  <2>5. IsInjective(feed)' /\ feed' = feed
    BY DEF Queued, OnePlace, Takes
  <2> HIDE DEF s, d
  <2>6. \A r, o \in Stages : r # o => Range(q'[r]) \cap Range(q'[o]) = {}
    BY <2>2 DEF Queued, OnePlace
  <2>7. \A r \in Stages : d \notin Range(q'[r])
    BY <1>2, <2>2, <2>3
  <2>8. \A v \in Workers : item'[v] \notin Range(feed) /\ \A r \in Stages : item'[v] \notin Range(q'[r])
    BY <1>4, <2>2, <2>3, <2>7 DEF Queued, OnePlace
  <2>9. \A v, u \in Workers : item'[v] = item'[u] /\ v # u => item'[v] = NoDoc
    BY <1>4, <2>4 DEF Queued, OnePlace
  <2>10. \A r \in Stages : Range(feed) \cap Range(q'[r]) = {}
    BY <2>2 DEF Queued, OnePlace
  <2> QED BY <2>1, <2>5, <2>6, <2>8, <2>9, <2>10 DEF OnePlace
<1>7. CountOK'
  <2>1. \A r \in Stages : unfinished'[r] = unfinished[r] /\ Len(q[r]) \in Nat
    BY LenProperties DEF Takes, Queued
  <2>2. Busy(w)' /\ ~Busy(w)
    BY DEF Takes, Busy
  <2>3. \A r \in Stages \ {s} : Hands(r)' = Hands(r)
    BY <2>2, OneHand DEF Takes
  <2>4. Cardinality(Hands(s)') = Cardinality(Hands(s)) + 1 /\ Cardinality(Hands(s)) \in Nat
    BY <1>1, <2>2, OneHand, HandsCount DEF Takes
  <2>5. unfinished'[s] = Len(q'[s]) + Cardinality(Hands(s)')
    BY <1>1, <1>2, <2>1, <2>4 DEF Queued, CountOK
  <2>6. \A r \in Stages \ {s} : unfinished'[r] = Len(q'[r]) + Cardinality(Hands(r)')
    BY <1>3, <2>1, <2>3 DEF Queued, CountOK
  <2> QED BY <2>5, <2>6 DEF CountOK, Hands, Busy
<1>8. \A v \in Workers : item'[v] # NoDoc <=> Busy(v)'
  BY <1>4, <1>5 DEF Queued, Takes, OthersAt, Busy
<1>9. /\ q' \in [Stages -> Seq(Docs)] /\ item' \in [Workers -> Docs \cup {NoDoc}]
      /\ \A r \in Stages : Len(q'[r]) <= QueueSize[r]
  <2>1. q' \in [Stages -> Seq(Docs)] /\ item' \in [Workers -> Docs \cup {NoDoc}]
    BY <1>1, <1>2 DEF Queued, Takes
  <2>2. Len(q[s]) \in Nat /\ QueueSize[s] \in Nat
    BY <1>1, StagesAre, LenProperties
  <2>3. Len(q'[s]) <= QueueSize[s]
    BY <1>1, <1>2, <2>2 DEF Queued
  <2> QED BY <1>3, <2>1, <2>3 DEF Queued
<1> QED BY <1>2, <1>6, <1>7, <1>8, <1>9 DEF Queued, Takes

\* A worker is done with its document.
LEMMA DropsQueued ==
    ASSUME Queued, NEW w \in Workers, Drops(w)
    PROVE  Queued'
<1> DEFINE s == Serves[w]
<1>1. s \in Stages /\ q' = q /\ feed' = feed
  BY StagesAre DEF Drops
<1>2. item'[w] = NoDoc /\ \A v \in Workers \ {w} : item'[v] = item[v]
  BY DEF Drops, Queued
<1>3. OnePlace'
  <2>1. \A r \in Stages : NoDoc \notin Range(q[r])
    BY BatchAssumption, LenProperties, ElementOfSeq DEF Queued, Range
  <2>2. NoDoc \notin Range(feed)
    BY BatchAssumption, LenProperties, ElementOfSeq DEF Queued, Range
  <2> HIDE DEF s
  <2>3. \A v \in Workers : item'[v] \notin Range(feed) /\ \A r \in Stages : item'[v] \notin Range(q[r])
    BY <1>2, <2>1, <2>2 DEF Queued, OnePlace
  <2>4. \A v, u \in Workers : item'[v] = item'[u] /\ v # u => item'[v] = NoDoc
    BY <1>2 DEF Queued, OnePlace
  <2> QED BY <1>1, <2>3, <2>4 DEF Queued, OnePlace
<1>4. CountOK' /\ unfinished' \in [Stages -> Nat]
  <2>1. \A r \in Stages : Len(q[r]) \in Nat /\ Cardinality(Hands(r)) \in Nat
    BY HandsCount, LenProperties DEF Queued
  <2>2. \A r \in Stages \ {s} : Hands(r)' = Hands(r) /\ unfinished'[r] = unfinished[r]
    BY OneHand DEF Drops, Queued
  <2>3. /\ Cardinality(Hands(s)') = Cardinality(Hands(s)) - 1 /\ Cardinality(Hands(s)) > 0
        /\ unfinished'[s] = unfinished[s] - 1
    BY <1>1, OneHand DEF Drops, Queued
  <2>4. unfinished'[s] = Len(q'[s]) + Cardinality(Hands(s)') /\ unfinished'[s] \in Nat
    BY <1>1, <2>1, <2>3 DEF Queued, CountOK
  <2>5. \A r \in Stages \ {s} : unfinished'[r] = Len(q'[r]) + Cardinality(Hands(r)')
    BY <1>1, <2>2 DEF Queued, CountOK
  <2>6. unfinished' \in [Stages -> Nat]
    BY <1>1, <2>4 DEF Drops, Queued
  <2> QED BY <2>4, <2>5, <2>6 DEF CountOK, Hands, Busy
<1>5. /\ item' \in [Workers -> Docs \cup {NoDoc}]
      /\ \A v \in Workers : item'[v] # NoDoc <=> Busy(v)'
  BY <1>2 DEF Queued, Drops, OthersAt, Busy
<1> QED BY <1>1, <1>3, <1>4, <1>5 DEF Queued

\* A worker hands its document over to the next stage.
LEMMA HandsOverQueued ==
    ASSUME Queued, NEW w \in Workers, HandsOver(w)
    PROVE  /\ Queued'
           /\ Range(q[NextStage(Serves[w])])' = Range(q[NextStage(Serves[w])]) \cup {item[w]}
<1> DEFINE s == Serves[w]
           n == NextStage(Serves[w])
           d == item[w]
<1>1. s \in Stages /\ n \in Stages /\ n # s /\ feed' = feed /\ d \in Docs /\ d # NoDoc
  BY StagesAre, BatchAssumption DEF HandsOver, Queued
<1>2. item'[w] = NoDoc /\ \A v \in Workers \ {w} : item'[v] = item[v]
  BY DEF HandsOver, Queued
<1>3. \A r \in Stages \ {n} : q'[r] = q[r]
  BY DEF HandsOver, Queued
<1>4. /\ q'[n] \in Seq(Docs) /\ Len(q'[n]) = Len(q[n]) + 1
      /\ Range(q'[n]) = Range(q[n]) \cup {d} /\ IsInjective(q'[n])
  <2>1. q[n] \in Seq(Docs) /\ IsInjective(q[n]) /\ d \notin Range(q[n]) /\ q'[n] = Append(q[n], d)
    BY <1>1 DEF Queued, OnePlace, HandsOver
  <2> QED BY <1>1, <2>1, AppendRange
<1>5. OnePlace'
  <2>1. \A r \in Stages : NoDoc \notin Range(q[r])
    BY BatchAssumption, LenProperties, ElementOfSeq DEF Queued, Range
  <2>2. NoDoc \notin Range(feed)
    BY BatchAssumption, LenProperties, ElementOfSeq DEF Queued, Range
  <2>3. \A r \in Stages : d \notin Range(q[r])
    BY DEF Queued, OnePlace
  <2>4. d \notin Range(feed) /\ \A v \in Workers \ {w} : item[v] # d
    BY <1>1 DEF Queued, OnePlace
  <2> HIDE DEF s, n, d
  <2>5. \A r \in Stages : IsInjective(q'[r])
    BY <1>3, <1>4 DEF Queued, OnePlace
  <2>6. \A r, o \in Stages : r # o => Range(q'[r]) \cap Range(q'[o]) = {}
    <3>1. \A r \in Stages : Range(q'[r]) = IF r = n THEN Range(q[r]) \cup {d} ELSE Range(q[r])
      BY <1>3, <1>4
    <3>2. \A r, o \in Stages : r # o => Range(q[r]) \cap Range(q[o]) = {}
      BY DEF Queued, OnePlace
    <3> QED BY <2>3, <3>1, <3>2
  <2>7. \A v \in Workers : item'[v] \notin Range(feed) /\ \A r \in Stages : item'[v] \notin Range(q'[r])
    BY <1>1, <1>2, <1>3, <1>4, <2>1, <2>2, <2>4, ZenonT(40) DEF Queued, OnePlace
  <2>8. \A v, u \in Workers : item'[v] = item'[u] /\ v # u => item'[v] = NoDoc
    BY <1>2 DEF Queued, OnePlace
  <2>9. \A r \in Stages : Range(feed) \cap Range(q'[r]) = {}
    <3>1. \A r \in Stages : Range(q'[r]) \subseteq Range(q[r]) \cup {d}
      BY <1>3, <1>4
    <3>2. \A r \in Stages : Range(feed) \cap Range(q[r]) = {}
      BY DEF Queued, OnePlace
    <3> QED BY <2>4, <3>1, <3>2
  <2>10. IsInjective(feed)' /\ feed' = feed
    BY <1>1 DEF Queued, OnePlace
  <2> QED BY <2>5, <2>6, <2>7, <2>8, <2>9, <2>10 DEF OnePlace
<1>6. CountOK' /\ unfinished' \in [Stages -> Nat]
  <2>1. \A r \in Stages : Len(q[r]) \in Nat /\ Cardinality(Hands(r)) \in Nat
    BY HandsCount, LenProperties DEF Queued
  <2>2. \A r \in Stages \ {s} : Hands(r)' = Hands(r)
    BY OneHand DEF HandsOver
  <2>3. Cardinality(Hands(s)') = Cardinality(Hands(s)) - 1 /\ Cardinality(Hands(s)) > 0
    BY <1>1, OneHand DEF HandsOver
  <2>4. /\ unfinished'[s] = unfinished[s] - 1 /\ unfinished'[n] = unfinished[n] + 1
        /\ \A r \in Stages \ {s, n} : unfinished'[r] = unfinished[r]
    BY <1>1 DEF HandsOver, Queued
  <2>5. unfinished'[s] = Len(q'[s]) + Cardinality(Hands(s)') /\ unfinished'[s] \in Nat
    BY <1>1, <1>3, <2>1, <2>3, <2>4 DEF Queued, CountOK
  <2>6. unfinished'[n] = Len(q'[n]) + Cardinality(Hands(n)') /\ unfinished'[n] \in Nat
    <3>1. unfinished[n] = Len(q[n]) + Cardinality(Hands(n))
      BY <1>1 DEF Queued, CountOK
    <3>2. Cardinality(Hands(n)') = Cardinality(Hands(n)) /\ Len(q[n]) \in Nat
          /\ Cardinality(Hands(n)) \in Nat
      BY <1>1, <2>1, <2>2
    <3> QED BY <1>4, <2>4, <3>1, <3>2, SMTT(20)
  <2>7. \A r \in Stages \ {s, n} : unfinished'[r] = Len(q'[r]) + Cardinality(Hands(r)')
    BY <1>3, <2>2, <2>4 DEF Queued, CountOK
  <2>8. unfinished' \in [Stages -> Nat]
    <3> HIDE DEF s, n
    <3>1. unfinished' = [unfinished EXCEPT ![n] = @ + 1, ![s] = @ - 1]
      BY DEF HandsOver, s, n
    <3> QED BY <1>1, <2>5, <2>6, <3>1 DEF Queued
  <2> QED BY <2>5, <2>6, <2>7, <2>8 DEF CountOK, Hands, Busy
<1>7. /\ item' \in [Workers -> Docs \cup {NoDoc}]
      /\ \A v \in Workers : item'[v] # NoDoc <=> Busy(v)'
  BY <1>2 DEF Queued, HandsOver, OthersAt, Busy
<1>8. q' \in [Stages -> Seq(Docs)] /\ \A r \in Stages : Len(q'[r]) <= QueueSize[r]
  <2>1. q' \in [Stages -> Seq(Docs)]
    BY <1>1, <1>4 DEF HandsOver, Queued
  <2>2. Len(q[n]) \in Nat /\ QueueSize[n] \in Nat /\ Len(q[n]) < QueueSize[n]
    BY <1>1, StagesAre, LenProperties DEF Queued, HandsOver
  <2>3. Len(q'[n]) <= QueueSize[n]
    BY <1>4, <2>2
  <2> QED BY <1>3, <2>1, <2>3 DEF Queued
<1> QED BY <1>1, <1>4, <1>5, <1>6, <1>7, <1>8 DEF Queued

\* The owner feeds the first document to the queue of its parser.
LEMMA FeedQueued ==
    ASSUME Queued, Feed, content \in [Docs -> {"none", "pending", "parsed"}]
    PROVE  /\ Queued'
           /\ EngineFor(Head(feed)) \in Engines /\ Head(feed) \in Docs
           /\ Range(feed) = Range(feed)' \cup {Head(feed)}
           /\ \A r \in Stages : Range(q[r])' = IF r = EngineFor(Head(feed))
                                               THEN Range(q[r]) \cup {Head(feed)} ELSE Range(q[r])
<1> DEFINE d == Head(feed)
           n == EngineFor(Head(feed))
<1>1. /\ d \in Docs /\ d # NoDoc /\ feed' \in Seq(Docs) /\ IsInjective(feed')
      /\ Range(feed) = Range(feed') \cup {d} /\ d \notin Range(feed')
  BY TailRange, BatchAssumption DEF Queued, OnePlace, Feed
<1>2. n \in Engines /\ n \in Stages
  BY <1>1, StagesAre, BatchAssumption DEF EngineFor, Engines
<1>3. q' = [q EXCEPT ![n] = Append(@, d)] /\ unfinished' = [unfinished EXCEPT ![n] = @ + 1]
      /\ Len(q[n]) < QueueSize[n] /\ UNCHANGED <<item, at>>
  BY DEF Feed, worker
<1> HIDE DEF d, n
<1>4. \A r \in Stages \ {n} : q'[r] = q[r] /\ unfinished'[r] = unfinished[r]
  BY <1>3 DEF Queued
<1>5. /\ q'[n] \in Seq(Docs) /\ Len(q'[n]) = Len(q[n]) + 1
      /\ Range(q'[n]) = Range(q[n]) \cup {d} /\ IsInjective(q'[n])
  <2>1. q[n] \in Seq(Docs) /\ IsInjective(q[n]) /\ d \notin Range(q[n]) /\ q'[n] = Append(q[n], d)
    BY <1>1, <1>2, <1>3 DEF Queued, OnePlace
  <2> QED BY <1>1, <2>1, AppendRange
<1>6. OnePlace'
  <2>1. \A r \in Stages : d \notin Range(q[r])
    BY <1>1 DEF Queued, OnePlace
  <2>2. \A v \in Workers : item[v] # d
    BY <1>1 DEF Queued, OnePlace
  <2>3. \A r \in Stages : IsInjective(q'[r])
    BY <1>4, <1>5 DEF Queued, OnePlace
  <2>4. \A r, o \in Stages : r # o => Range(q'[r]) \cap Range(q'[o]) = {}
    <3>1. \A r \in Stages : Range(q'[r]) = IF r = n THEN Range(q[r]) \cup {d} ELSE Range(q[r])
      BY <1>4, <1>5
    <3>2. \A r, o \in Stages : r # o => Range(q[r]) \cap Range(q[o]) = {}
      BY DEF Queued, OnePlace
    <3> QED BY <2>1, <3>1, <3>2
  <2>5. \A v \in Workers : item[v] \notin Range(feed') /\ \A r \in Stages : item[v] \notin Range(q'[r])
    BY <1>1, <1>4, <1>5, <2>2, ZenonT(40) DEF Queued, OnePlace
  <2>6. \A r \in Stages : Range(feed') \cap Range(q'[r]) = {}
    BY <1>1, <1>4, <1>5, SMTT(20) DEF Queued, OnePlace
  <2> QED BY <1>1, <1>3, <2>3, <2>4, <2>5, <2>6 DEF Queued, OnePlace
<1>7. CountOK' /\ unfinished' \in [Stages -> Nat]
  <2>1. \A r \in Stages : Hands(r)' = Hands(r)
    BY <1>3 DEF Hands, Busy
  <2>5. \A r \in Stages : Cardinality(Hands(r)) \in Nat /\ Len(q[r]) \in Nat
    BY HandsCount, LenProperties DEF Queued
  <2>2. unfinished'[n] = unfinished[n] + 1 /\ unfinished' \in [Stages -> Nat]
    BY <1>2, <1>3 DEF Queued
  <2>3. ASSUME NEW r \in Stages PROVE unfinished'[r] = Len(q'[r]) + Cardinality(Hands(r)')
    <3>1. /\ unfinished[r] = Len(q[r]) + Cardinality(Hands(r)) /\ Hands(r)' = Hands(r)
          /\ Cardinality(Hands(r)) \in Nat /\ Len(q[r]) \in Nat
      BY <2>1, <2>5 DEF Queued, CountOK
    <3>2. CASE r = n
      <4>1. unfinished'[r] = unfinished[r] + 1 /\ Len(q'[r]) = Len(q[r]) + 1
        BY <1>5, <2>2, <3>2
      <4> QED BY <3>1, <4>1
    <3>3. CASE r # n
      BY <1>4, <3>1, <3>3
    <3> QED BY <3>2, <3>3
  <2> QED BY <2>2, <2>3 DEF CountOK
<1>8. q' \in [Stages -> Seq(Docs)] /\ \A r \in Stages : Len(q'[r]) <= QueueSize[r]
  <2>1. q' \in [Stages -> Seq(Docs)]
    BY <1>2, <1>3, <1>5 DEF Queued
  <2>2. Len(q[n]) \in Nat /\ QueueSize[n] \in Nat
    BY <1>2, StagesAre, LenProperties DEF Queued
  <2>3. Len(q'[n]) <= QueueSize[n]
    BY <1>3, <1>5, <2>2
  <2> QED BY <1>4, <2>1, <2>3 DEF Queued
<1>9. Queued'
  BY <1>1, <1>3, <1>6, <1>7, <1>8 DEF Queued, Busy
<1> QED BY <1>1, <1>2, <1>4, <1>5, <1>9 DEF d, n

-----------------------------------------------------------------------------
(* The steps of a worker.                                                   *)

\* The types of what is not queued, and the labels of each stage.
Rows == [status: RowStatuses, chunks: SUBSET ChunkIds, hashed: BOOLEAN, dup: BOOLEAN]
Stores ==
    /\ row \in [Docs -> Rows]
    /\ content \in [Docs -> {"none", "pending", "parsed"}]
    /\ stored \in [Docs -> SUBSET ChunkIds] /\ flushed \in [Docs -> SUBSET ChunkIds]
    /\ mem \in [Docs -> [chunks: SUBSET ChunkIds, hashed: BOOLEAN]]
    /\ cut \in [Workers -> SUBSET ChunkIds]
    /\ writes \in [Workers -> SUBSET {"row", "chunks"}]
    /\ unsaved \subseteq Docs /\ missed \subseteq Docs

Driven == /\ cancelled \in BOOLEAN /\ phase \in Phases /\ batch \subseteq Docs
          /\ runs \in 0..MaxRuns /\ crashes \in 0..MaxCrashes

Labelled(w) ==
    /\ ParseStage(w) => at[w] \in {"get", "check", "work", "patch", "dup", "put"}
    /\ Serves[w] = "analyze" => at[w] \in {"get", "check", "work", "put"}
    /\ Serves[w] = "process" => at[w] \in {"get", "check", "purge", "chunk", "stage1", "extract",
                                           "merge", "save", "flush", "fail", "dead"}

\* The queues' invariant, taken apart.
LEMMA QInvParts ==
    QInv <=> /\ Queued /\ Stores /\ Driven /\ PhaseOK
             /\ at \in [Workers -> Labels] /\ \A w \in Workers : Labelled(w)
BY DEF QInv, TypeOK, LabelsOK, Queued, Stores, Driven, Labelled, Rows

\* The same of the next state.
LEMMA QInvNext ==
    ASSUME Queued', Stores', Driven', PhaseOK', at' \in [Workers -> Labels],
           \A w \in Workers : Labelled(w)'
    PROVE  QInv'
BY DEF QInv, TypeOK, LabelsOK, Queued, Stores, Driven, Labelled, Rows

\* What every step of a worker does to the rest.
WorkerMove(w) ==
    /\ UNCHANGED control
    /\ OthersAt(w) /\ at' \in [Workers -> Labels] /\ Labelled(w)'
    /\ Takes(w) \/ (Busy(w) /\ (Stays \/ Drops(w) \/ HandsOver(w)))

\* A worker takes a document.
LEMMA TakeMoves ==
    ASSUME QInv, NEW w \in Workers, Take(w)
    PROVE  WorkerMove(w) /\ Takes(w) /\ UNCHANGED <<storage, mem, cut, writes, unsaved, missed>>
<1> USE QInvParts
<1>1. /\ at[w] = "get" /\ at' = [at EXCEPT ![w] = "check"] /\ UNCHANGED control
      /\ at \in [Workers -> Labels]
  BY DEF Take
<1>2. OthersAt(w) /\ at' \in [Workers -> Labels] /\ at'[w] = "check"
  BY <1>1 DEF OthersAt, Labels
<1>3. Labelled(w)'
  BY <1>2 DEF Labelled, ParseStage
<1>4. Takes(w)
  BY <1>1, <1>2 DEF Takes, Take, Busy, control
<1> QED BY <1>1, <1>2, <1>3, <1>4 DEF WorkerMove, Take

\* A worker that stays with its document goes to another label.
LEMMA GotoMoves ==
    ASSUME QInv, NEW w \in Workers, NEW l \in Labels \ {"get", "dead"}, Busy(w),
           Goto(w, l), UNCHANGED control,
           ParseStage(w) => l \in {"check", "work", "patch", "dup", "put"},
           Serves[w] = "analyze" => l \in {"check", "work", "put"},
           Serves[w] = "process" => l \notin {"work", "patch", "dup", "put"}
    PROVE  WorkerMove(w) /\ Stays /\ at'[w] = l
<1> USE QInvParts
<1>1. at \in [Workers -> Labels] /\ at' = [at EXCEPT ![w] = l] /\ UNCHANGED <<item, q, unfinished>>
  BY DEF Goto, queues
<1>2. OthersAt(w) /\ at' \in [Workers -> Labels] /\ at'[w] = l
  BY <1>1 DEF OthersAt
<1>3. Labelled(w)'
  BY <1>2 DEF Labelled, ParseStage, Labels
<1>4. Stays
  BY <1>1, <1>2 DEF Stays, Busy, control, OthersAt
<1> QED BY <1>2, <1>3, <1>4 DEF WorkerMove

\* One that is done goes back to its queue, or dies.
LEMMA TaskDoneMoves ==
    ASSUME QInv, NEW w \in Workers, NEW l \in {"get", "dead"}, Busy(w),
           TaskDone(w, l), UNCHANGED control,
           l = "dead" => Serves[w] = "process"
    PROVE  WorkerMove(w) /\ Drops(w) /\ at'[w] = l
<1> USE QInvParts
<1>1. at \in [Workers -> Labels] /\ at' = [at EXCEPT ![w] = l]
  BY DEF TaskDone
<1>2. OthersAt(w) /\ at' \in [Workers -> Labels] /\ at'[w] = l
  BY <1>1 DEF OthersAt, Labels
<1>3. Labelled(w)'
  BY <1>2, StagesAre DEF Labelled, ParseStage
<1>4. Drops(w)
  BY <1>2 DEF Drops, Busy, control, TaskDone
<1> QED BY <1>2, <1>3, <1>4 DEF WorkerMove

\* A worker that hands over.
LEMMA PutNextMoves ==
    ASSUME QInv, NEW w \in Workers, PutNext(w)
    PROVE  WorkerMove(w) /\ HandsOver(w) /\ UNCHANGED <<storage, mem, cut, writes, unsaved, missed>>
<1> USE QInvParts
<1>1. at \in [Workers -> Labels] /\ at[w] = "put" /\ at' = [at EXCEPT ![w] = "get"] /\ UNCHANGED control
  BY DEF PutNext
<1>2. OthersAt(w) /\ at' \in [Workers -> Labels] /\ at'[w] = "get"
  BY <1>1 DEF OthersAt, Labels
<1>3. Labelled(w)'
  BY <1>2 DEF Labelled, ParseStage
<1>4. HandsOver(w)
  <2>1. Busy(w) /\ ~Busy(w)'
    BY <1>1, <1>2 DEF Busy
  <2>2. Serves[w] # "process"
    BY <1>1 DEF Labelled
  <2> QED BY <1>2, <2>1, <2>2 DEF HandsOver, PutNext, control
<1>5. Busy(w) /\ UNCHANGED <<storage, mem, cut, writes, unsaved, missed>>
  BY <1>1 DEF Busy, PutNext
<1> QED BY <1>1, <1>2, <1>3, <1>4, <1>5 DEF WorkerMove

\* Writing a row, and what InsertDone and the failure of a stage do, is typed.
LEMMA SaveTyped ==
    ASSUME Stores, NEW d \in Docs, NEW st \in RowStatuses, NEW c \in SUBSET ChunkIds, Save(d, st, c)
    PROVE  /\ row' \in [Docs -> Rows]
           /\ row'[d] = [status |-> st, chunks |-> c, hashed |-> mem[d].hashed, dup |-> FALSE]
           /\ \A e \in Docs \ {d} : row'[e] = row[e]
<1>1. mem[d].hashed \in BOOLEAN
  BY DEF Stores
<1> QED BY <1>1 DEF Stores, Rows, Save

LEMMA FailMoves ==
    ASSUME QInv, NEW w \in Workers, Busy(w), FailInStage(w)
    PROVE  /\ WorkerMove(w) /\ Drops(w) /\ at'[w] = "get" /\ Stores'
           /\ UNCHANGED <<content, stored, flushed, mem, cut, writes, missed>>
           /\ item[w] \in Docs
           /\ \/ Save(item[w], "FAILED", {}) /\ UNCHANGED unsaved
              \/ unsaved' = unsaved \cup {item[w]} /\ UNCHANGED row
<1>1. item[w] \in Docs /\ Stores
  BY QInvParts DEF Queued
<1>2. TaskDone(w, "get") /\ UNCHANGED <<control, content, stored, flushed, mem, cut, writes, missed>>
  BY DEF FailInStage
<1>3. WorkerMove(w) /\ Drops(w) /\ at'[w] = "get"
  BY <1>2, TaskDoneMoves
<1>4. row' \in [Docs -> Rows] /\ unsaved' \subseteq Docs
  <2>1. CASE Save(item[w], "FAILED", {}) /\ UNCHANGED unsaved
    <3>1. {} \in SUBSET ChunkIds /\ "FAILED" \in RowStatuses
      BY DEF RowStatuses
    <3>2. row' \in [Docs -> Rows]
      BY <1>1, <2>1, <3>1, SaveTyped
    <3> QED BY <1>1, <2>1, <3>2 DEF Stores
  <2>2. CASE unsaved' = unsaved \cup {item[w]} /\ UNCHANGED row
    BY <1>1, <2>2 DEF Stores
  <2> QED BY <2>1, <2>2 DEF FailInStage
<1> QED BY <1>1, <1>2, <1>3, <1>4 DEF Stores, FailInStage

\* Each step of a worker at its document is a move, and keeps the types.
LEMMA WorkMoves ==
    ASSUME QInv, NEW w \in Workers, Work(w)
    PROVE  WorkerMove(w) /\ Stores'
<1> USE DEF Labels
<1>1. /\ at \in [Workers -> Labels] /\ Labelled(w) /\ Stores /\ Queued
      /\ ~(ParseStage(w) /\ Serves[w] = "analyze") /\ ~(ParseStage(w) /\ Serves[w] = "process")
      /\ (ParseStage(w) \/ Serves[w] = "analyze" \/ Serves[w] = "process")
  BY QInvParts, StagesAre DEF ParseStage, Stages
<1>2. Busy(w) => item[w] \in Docs
  BY <1>1 DEF Queued
<1>3. CASE Take(w)
  BY <1>1, <1>3, TakeMoves DEF storage, Stores
<1>4. CASE SkipCancelled(w) \/ ParseMissing(w) \/ StageFails(w)
  <2>1. Busy(w) /\ FailInStage(w)
    BY <1>4 DEF SkipCancelled, ParseMissing, StageFails, Busy
  <2> QED BY <2>1, FailMoves
<1>5. CASE BeginStage(w)
  <2>1. /\ Busy(w) /\ Goto(w, "work")
        /\ UNCHANGED <<control, content, stored, flushed, mem, cut, writes, unsaved, missed>>
    BY <1>5 DEF BeginStage, Busy
  <2>2. WorkerMove(w)
    BY <1>1, <1>5, <2>1, GotoMoves DEF BeginStage
  <2>3. row' \in [Docs -> Rows]
    <3> DEFINE st == IF ParseStage(w) THEN "PARSING" ELSE "ANALYZING"
    <3>1. {} \in SUBSET ChunkIds /\ st \in RowStatuses
      BY DEF RowStatuses
    <3>2. Save(item[w], st, {})
      BY <1>5 DEF BeginStage
    <3> HIDE DEF st
    <3> QED BY <1>1, <1>2, <2>1, <3>1, <3>2, SaveTyped
  <2> QED BY <1>1, <2>1, <2>2, <2>3 DEF Stores
<1>6. CASE ParseExtract(w)
  <2>1. /\ Busy(w) /\ ParseStage(w) /\ (Goto(w, "patch") \/ Goto(w, "dup"))
        /\ UNCHANGED <<control, row, stored, flushed, mem, cut, writes, unsaved, missed>>
    BY <1>6 DEF ParseExtract, Busy
  <2>2. WorkerMove(w)
    BY <1>1, <2>1, GotoMoves
  <2>3. content' \in [Docs -> {"none", "pending", "parsed"}]
    BY <1>1, <1>6 DEF ParseExtract, Stores
  <2> QED BY <1>1, <2>1, <2>2, <2>3 DEF Stores
<1>7. CASE ParsePatch(w)
  <2>1. /\ Busy(w) /\ ParseStage(w) /\ Goto(w, "dup")
        /\ UNCHANGED <<control, content, stored, flushed, mem, cut, writes, unsaved, missed>>
    BY <1>1, <1>7 DEF ParsePatch, Busy, Labelled
  <2>2. WorkerMove(w)
    BY <1>1, <2>1, GotoMoves
  <2>3. row' \in [Docs -> Rows]
    <3>1. row[item[w]] \in Rows /\ row \in [Docs -> Rows]
      BY <1>1, <1>2, <2>1 DEF Stores
    <3>2. [row[item[w]] EXCEPT !.hashed = TRUE] \in Rows
      BY <3>1 DEF Rows
    <3> QED BY <1>7, <3>1, <3>2 DEF ParsePatch
  <2> QED BY <1>1, <2>1, <2>2, <2>3 DEF Stores
<1>8. CASE DropDuplicate(w)
  <2>1. Busy(w) /\ TaskDone(w, "get") /\ UNCHANGED <<control, stored, flushed, cut, writes, unsaved, missed>>
    BY <1>8 DEF DropDuplicate, Busy
  <2>2. WorkerMove(w)
    BY <2>1, TaskDoneMoves
  <2>3. row' \in [Docs -> Rows]
    BY <1>1, <1>8 DEF DropDuplicate, Stores, Rows, RowStatuses
  <2>4. content' \in [Docs -> {"none", "pending", "parsed"}]
    BY <1>1, <1>8 DEF DropDuplicate, Stores
  <2>5. mem' \in [Docs -> [chunks: SUBSET ChunkIds, hashed: BOOLEAN]]
    <3>1. mem[item[w]] \in [chunks: SUBSET ChunkIds, hashed: BOOLEAN]
      BY <1>1, <1>2, <2>1 DEF Stores
    <3>2. [mem[item[w]] EXCEPT !.hashed = TRUE] \in [chunks: SUBSET ChunkIds, hashed: BOOLEAN]
      BY <3>1
    <3> QED BY <1>1, <1>8, <3>2 DEF DropDuplicate, Stores
  <2> QED BY <1>1, <2>1, <2>2, <2>3, <2>4, <2>5 DEF Stores
<1>9. CASE KeepUnique(w)
  <2>1. /\ Busy(w) /\ ParseStage(w) /\ Goto(w, "put")
        /\ UNCHANGED <<storage, control, cut, writes, unsaved>>
        /\ missed' = missed \ {item[w]} \/ missed' = missed \cup {item[w]}
    BY <1>1, <1>9 DEF KeepUnique, Busy, Labelled
  <2>2. WorkerMove(w)
    BY <1>1, <2>1, GotoMoves
  <2>3. Hashed(w) \in BOOLEAN
    BY <1>1, <1>2, <2>1 DEF Hashed, Stores, Rows
  <2>4. mem' \in [Docs -> [chunks: SUBSET ChunkIds, hashed: BOOLEAN]]
    <3>1. mem[item[w]] \in [chunks: SUBSET ChunkIds, hashed: BOOLEAN]
      BY <1>1, <1>2, <2>1 DEF Stores
    <3>2. [mem[item[w]] EXCEPT !.hashed = Hashed(w)] \in [chunks: SUBSET ChunkIds, hashed: BOOLEAN]
      BY <2>3, <3>1
    <3>3. mem' = [mem EXCEPT ![item[w]] = [mem[item[w]] EXCEPT !.hashed = Hashed(w)]]
      BY <1>9 DEF KeepUnique
    <3> QED BY <1>1, <3>2, <3>3 DEF Stores
  <2> QED BY <1>1, <1>2, <2>1, <2>2, <2>4 DEF Stores, storage
<1>10. CASE Analyze(w) \/ GatherDone(w) \/ Extract(w) \/ Merge(w) \/ ProcessFails(w)
  <2>1. /\ Busy(w) /\ UNCHANGED <<storage, control, mem, cut, writes, unsaved, missed>>
        /\ \/ Goto(w, "put") /\ Serves[w] = "analyze"
           \/ (Goto(w, "extract") \/ Goto(w, "merge") \/ Goto(w, "save") \/ Goto(w, "fail"))
              /\ Serves[w] = "process"
    BY <1>1, <1>10 DEF Analyze, GatherDone, Extract, Merge, ProcessFails, Busy, Labelled
  <2>2. WorkerMove(w)
    BY <1>1, <2>1, GotoMoves
  <2> QED BY <1>1, <2>1, <2>2 DEF Stores, storage
<1>11. CASE PutNext(w)
  BY <1>1, <1>11, PutNextMoves DEF storage, Stores
<1>12. CASE ProcessBegin(w) \/ Chunk(w)
  <2>1. /\ Busy(w) /\ UNCHANGED <<storage, control, mem, unsaved, missed>> /\ Serves[w] = "process"
        /\ (Goto(w, "fail") \/ Goto(w, "purge") \/ Goto(w, "chunk") \/ Goto(w, "stage1"))
    BY <1>1, <1>12 DEF ProcessBegin, Chunk, Busy, Labelled
  <2>2. WorkerMove(w)
    BY <1>1, <2>1, GotoMoves
  <2>3. cut' \in [Workers -> SUBSET ChunkIds] /\ writes' \in [Workers -> SUBSET {"row", "chunks"}]
    <3>1. CASE ProcessBegin(w)
      BY <1>1, <3>1 DEF ProcessBegin, Stores
    <3>2. CASE Chunk(w)
      <4>1. PICK n \in 0..MaxChunks : cut' = [cut EXCEPT ![w] = 1..n]
        BY <3>2 DEF Chunk
      <4>2. 1..n \subseteq ChunkIds
        BY <4>1, BatchAssumption DEF ChunkIds
      <4>3. cut' \in [Workers -> SUBSET ChunkIds]
        BY <1>1, <4>1, <4>2 DEF Stores
      <4>4. writes' \in [Workers -> SUBSET {"row", "chunks"}]
        BY <1>1, <3>2 DEF Chunk, Stores
      <4> QED BY <4>3, <4>4
    <3> QED BY <1>12, <3>1, <3>2
  <2> QED BY <1>1, <2>1, <2>2, <2>3 DEF Stores, storage
<1>13. CASE Purge(w) \/ PurgeFails(w)
  <2>1. /\ Busy(w) /\ Serves[w] = "process" /\ (Goto(w, "fail") \/ Goto(w, "chunk"))
        /\ UNCHANGED <<row, content, control, cut, writes, unsaved, missed>>
    BY <1>1, <1>13 DEF Purge, PurgeFails, Busy, Labelled
  <2>2. WorkerMove(w)
    BY <1>1, <2>1, GotoMoves
  <2>3. stored' \in [Docs -> SUBSET ChunkIds] /\ mem' \in [Docs -> [chunks: SUBSET ChunkIds, hashed: BOOLEAN]]
    <3>1. CASE Purge(w)
      <4>1. /\ stored[item[w]] \ mem[item[w]].chunks \in SUBSET ChunkIds
            /\ mem[item[w]] \in [chunks: SUBSET ChunkIds, hashed: BOOLEAN]
        BY <1>1, <1>2, <2>1 DEF Stores
      <4>2. [mem[item[w]] EXCEPT !.chunks = {}] \in [chunks: SUBSET ChunkIds, hashed: BOOLEAN]
        BY <4>1
      <4> QED BY <1>1, <3>1, <4>1, <4>2 DEF Purge, Stores
    <3>2. CASE PurgeFails(w)
      <4>1. PICK gone \in SUBSET mem[item[w]].chunks :
               stored' = [stored EXCEPT ![item[w]] = stored[item[w]] \ gone]
        BY <3>2 DEF PurgeFails
      <4>2. stored[item[w]] \ gone \in SUBSET ChunkIds
        BY <1>1, <1>2, <2>1 DEF Stores
      <4> QED BY <1>1, <3>2, <4>1, <4>2 DEF PurgeFails, Stores
    <3> QED BY <1>13, <3>1, <3>2
  <2>4. flushed' \in [Docs -> SUBSET ChunkIds]
    BY <1>1, <1>13, <2>3 DEF Purge, PurgeFails, InsertDone, Stores
  <2> QED BY <1>1, <2>1, <2>2, <2>3, <2>4 DEF Stores
<1>14. CASE WriteRow(w) \/ WriteChunks(w)
  <2>1. /\ Busy(w) /\ UNCHANGED <<content, flushed, control, mem, queues, at, item, cut, unsaved, missed>>
        /\ Serves[w] = "process"
    BY <1>1, <1>14 DEF WriteRow, WriteChunks, Busy, Labelled
  <2>2. WorkerMove(w)
    BY <1>1, <2>1 DEF WorkerMove, Stays, OthersAt, queues, Busy, Labelled, ParseStage, control
  <2>3. writes' \in [Workers -> SUBSET {"row", "chunks"}]
    BY <1>1, <1>14 DEF WriteRow, WriteChunks, Stores
  <2>4. row' \in [Docs -> Rows] /\ stored' \in [Docs -> SUBSET ChunkIds]
    <3>1. cut[w] \in SUBSET ChunkIds /\ item[w] \in Docs
      BY <1>1, <1>2, <2>1 DEF Stores
    <3>2. CASE WriteRow(w)
      BY <1>1, <3>1, <3>2, SaveTyped DEF WriteRow, RowStatuses, Stores
    <3>3. CASE WriteChunks(w)
      BY <1>1, <3>1, <3>3 DEF WriteChunks, Stores
    <3> QED BY <1>14, <3>2, <3>3
  <2> QED BY <1>1, <2>1, <2>2, <2>3, <2>4 DEF Stores
<1>15. CASE StageOneFails(w)
  <2>1. /\ Busy(w) /\ Serves[w] = "process" /\ Goto(w, "fail")
        /\ UNCHANGED <<row, content, flushed, control, mem, cut, unsaved, missed>>
    BY <1>1, <1>15 DEF StageOneFails, Busy, Labelled
  <2>2. WorkerMove(w)
    BY <1>1, <2>1, GotoMoves
  <2>3. stored' \in [Docs -> SUBSET ChunkIds] /\ writes' \in [Workers -> SUBSET {"row", "chunks"}]
    <3>1. PICK part \in SUBSET cut[w] : stored' = [stored EXCEPT ![item[w]] = @ \cup part]
      BY <1>15 DEF StageOneFails
    <3>2. part \subseteq ChunkIds
      BY <1>1, <3>1 DEF Stores
    <3> QED BY <1>1, <1>15, <3>1, <3>2 DEF StageOneFails, Stores
  <2> QED BY <1>1, <2>1, <2>2, <2>3 DEF Stores
<1>16. CASE SaveProcessed(w)
  <2>1. /\ Busy(w) /\ Serves[w] = "process" /\ Goto(w, "flush")
        /\ UNCHANGED <<content, stored, flushed, control, mem, cut, writes, unsaved, missed>>
    BY <1>1, <1>16 DEF SaveProcessed, Busy, Labelled
  <2>2. WorkerMove(w)
    BY <1>1, <2>1, GotoMoves
  <2>3. row' \in [Docs -> Rows]
    <3>1. cut[w] \in SUBSET ChunkIds /\ "PROCESSED" \in RowStatuses /\ item[w] \in Docs
      BY <1>1, <1>2, <2>1 DEF Stores, RowStatuses
    <3> QED BY <1>1, <1>16, <3>1, SaveTyped DEF SaveProcessed
  <2> QED BY <1>1, <2>1, <2>2, <2>3 DEF Stores
<1>17. CASE Flush(w)
  <2>1. /\ Busy(w) /\ Serves[w] = "process" /\ TaskDone(w, "get")
        /\ UNCHANGED <<row, content, stored, control, mem, cut, writes, unsaved, missed>>
    BY <1>1, <1>17 DEF Flush, Busy, Labelled
  <2>2. WorkerMove(w)
    BY <1>1, <2>1, TaskDoneMoves
  <2>3. flushed' \in [Docs -> SUBSET ChunkIds]
    BY <1>1, <1>17 DEF Flush, InsertDone, Stores
  <2> QED BY <1>1, <2>1, <2>2, <2>3 DEF Stores
<1>18. CASE Finalize(w)
  <2>1. /\ Busy(w) /\ Serves[w] = "process" /\ (TaskDone(w, "get") \/ TaskDone(w, "dead"))
        /\ UNCHANGED <<content, stored, flushed, control, mem, cut, writes, missed>>
    BY <1>1, <1>18 DEF Finalize, Busy, Labelled
  <2>2. WorkerMove(w)
    BY <1>1, <2>1, TaskDoneMoves
  <2>3. row' \in [Docs -> Rows] /\ unsaved' \subseteq Docs
    <3> DEFINE c == IF cut[w] # {} THEN cut[w] ELSE mem[item[w]].chunks
    <3>1. c \in SUBSET ChunkIds /\ item[w] \in Docs /\ "FAILED" \in RowStatuses
      <4>1. item[w] \in Docs /\ mem[item[w]].chunks \in SUBSET ChunkIds /\ cut[w] \in SUBSET ChunkIds
        BY <1>1, <1>2, <2>1 DEF Stores
      <4> QED BY <4>1 DEF RowStatuses
    <3>2. \/ Save(item[w], "FAILED", c) /\ UNCHANGED unsaved
          \/ unsaved' = unsaved \cup {item[w]} /\ UNCHANGED row
      BY <1>18 DEF Finalize
    <3> HIDE DEF c
    <3>3. CASE Save(item[w], "FAILED", c) /\ UNCHANGED unsaved
      <4>1. row' \in [Docs -> Rows]
        BY <1>1, <3>1, <3>3, SaveTyped
      <4> QED BY <1>1, <3>3, <4>1 DEF Stores
    <3>4. CASE unsaved' = unsaved \cup {item[w]} /\ UNCHANGED row
      BY <1>1, <3>1, <3>4 DEF Stores
    <3> QED BY <3>2, <3>3, <3>4
  <2> QED BY <1>1, <2>1, <2>2, <2>3 DEF Stores
<1> QED BY <1>3, <1>4, <1>5, <1>6, <1>7, <1>8, <1>9, <1>10, <1>11, <1>12, <1>13, <1>14, <1>15, <1>16,
           <1>17, <1>18 DEF Work

-----------------------------------------------------------------------------
(* The queues' invariant, step by step.                                     *)

\* A queue with a busy worker or a waiting document has a counter above zero.
LEMMA CountedWhileBusy ==
    ASSUME Queued
    PROVE  /\ \A w \in Workers : Busy(w) => unfinished[Serves[w]] # 0
           /\ \A s \in Stages : q[s] # <<>> => unfinished[s] # 0
<1>1. \A s \in Stages : /\ unfinished[s] = Len(q[s]) + Cardinality(Hands(s))
                        /\ Len(q[s]) \in Nat /\ Cardinality(Hands(s)) \in Nat
  BY HandsCount, LenProperties DEF Queued, CountOK
<1>2. ASSUME NEW w \in Workers, Busy(w) PROVE unfinished[Serves[w]] # 0
  <2>1. Serves[w] \in Stages /\ w \in Hands(Serves[w])
    BY <1>2, StagesAre DEF Hands
  <2>2. Cardinality(Hands(Serves[w])) # 0
    BY <2>1, HandsCount
  <2> QED BY <1>1, <2>1, <2>2
<1>3. ASSUME NEW s \in Stages, q[s] # <<>> PROVE unfinished[s] # 0
  <2>1. q[s] \in Seq(Docs)
    BY DEF Queued
  <2>2. Len(q[s]) # 0
    BY <1>3, <2>1, EmptySeq
  <2> QED BY <1>1, <2>2
<1> QED BY <1>2, <1>3

\* A step of a worker keeps what holds of each phase.
LEMMA MovesKeepPhase ==
    ASSUME QInv, NEW w \in Workers, WorkerMove(w)
    PROVE  PhaseOK'
<1>1. Queued /\ PhaseOK /\ UNCHANGED <<phase, feed>>
  BY QInvParts DEF WorkerMove, control
<1>2. Takes(w) \/ Busy(w)
  BY DEF WorkerMove
<1>3. phase \notin {"idle", "fix"}
  <2>1. Serves[w] \in Stages
    BY StagesAre
  <2>2. CASE Takes(w)
    BY <1>1, <2>1, <2>2 DEF Takes, PhaseOK
  <2>3. CASE Busy(w)
    BY <1>1, <2>3 DEF Busy, PhaseOK
  <2> QED BY <1>2, <2>2, <2>3
<1>4. ASSUME NEW s \in Stages, unfinished[s] = 0,
             s \in Engines \/ (s = "analyze" /\ \A e \in Engines : unfinished[e] = 0)
      PROVE  unfinished'[s] = 0
  <2>1. CASE Takes(w) \/ Stays
    BY <1>4, <2>1 DEF Takes, Stays
  <2>2. CASE Busy(w) /\ (Drops(w) \/ HandsOver(w))
    <3>1. Serves[w] # s /\ Serves[w] \in Stages
      BY <1>1, <1>4, <2>2, CountedWhileBusy, StagesAre
    <3>2. CASE Drops(w)
      BY <1>1, <1>4, <3>1, <3>2 DEF Drops, Queued
    <3>3. CASE HandsOver(w)
      <4>1. NextStage(Serves[w]) # s
        <5>1. CASE s \in Engines
          BY <3>1, <3>3, <5>1, StagesAre
        <5>2. CASE s = "analyze" /\ \A e \in Engines : unfinished[e] = 0
          <6>1. Serves[w] \notin Engines
            BY <1>1, <2>2, <5>2, CountedWhileBusy
          <6>2. Serves[w] = "analyze"
            BY <3>1, <3>3, <6>1 DEF HandsOver, Stages
          <6> QED BY <3>1, <5>2, <6>2
        <5> QED BY <1>4, <5>1, <5>2
      <4> QED BY <1>1, <1>4, <3>1, <3>3, <4>1 DEF HandsOver, Queued
    <3> QED BY <2>2, <3>2, <3>3
  <2> QED BY <2>1, <2>2 DEF WorkerMove
<1>5. phase \in {"join_analyze", "join_process"} => \A e \in Engines : unfinished'[e] = 0
  BY <1>1, <1>4, StagesAre DEF PhaseOK
<1>6. phase = "join_process" => unfinished'["analyze"] = 0
  BY <1>1, <1>4, StagesAre DEF PhaseOK
<1>7. phase # "feed" => feed = <<>>
  BY <1>1 DEF PhaseOK
<1> QED BY <1>1, <1>3, <1>5, <1>6, <1>7 DEF PhaseOK

LEMMA WorkKeeps ==
    ASSUME QInv, NEW w \in Workers, Work(w)
    PROVE  QInv'
<1>1. WorkerMove(w) /\ Stores'
  BY WorkMoves
<1>2. Queued /\ Driven /\ at \in [Workers -> Labels] /\ \A v \in Workers : Labelled(v)
  BY QInvParts
<1>3. Queued'
  BY <1>1, <1>2, StaysQueued, TakesQueued, DropsQueued, HandsOverQueued DEF WorkerMove
<1>4. at' \in [Workers -> Labels] /\ \A v \in Workers : Labelled(v)'
  BY <1>1, <1>2 DEF WorkerMove, OthersAt, Labelled, ParseStage
<1>5. Driven'
  BY <1>1, <1>2 DEF WorkerMove, Driven, control
<1>6. PhaseOK'
  BY <1>1, MovesKeepPhase
<1> QED BY <1>1, <1>3, <1>4, <1>5, <1>6, QInvNext

\* All workers stopped, all queues empty.
LEMMA StoppedQueued ==
    ASSUME StopWorkers, feed' \in Seq(Docs), IsInjective(feed')
    PROVE  /\ Queued' /\ at' \in [Workers -> Labels] /\ \A w \in Workers : Labelled(w)'
           /\ cut' \in [Workers -> SUBSET ChunkIds] /\ writes' \in [Workers -> SUBSET {"row", "chunks"}]
<1>1. \A w \in Workers : at'[w] = "get" /\ item'[w] = NoDoc
  BY DEF StopWorkers
<1>2. \A s \in Stages : q'[s] = <<>> /\ unfinished'[s] = 0
  BY DEF StopWorkers
<1>3. at' \in [Workers -> Labels] /\ \A w \in Workers : Labelled(w)' /\ ~Busy(w)'
  BY <1>1 DEF StopWorkers, Labels, Labelled, Busy
<1>4. CountOK'
  <2>1. \A s \in Stages : Hands(s)' = {}
    BY <1>3 DEF Hands
  <2>2. \A s \in Stages : Cardinality(Hands(s)') = 0 /\ Len(q'[s]) = 0
    BY <1>2, <2>1, NothingInRange, FS_EmptySet
  <2>3. \A s \in Stages : unfinished'[s] = Len(q'[s]) + Cardinality(Hands(s)')
    BY <1>2, <2>2
  <2> QED BY <2>3 DEF CountOK, Hands, Busy
<1>5. OnePlace'
  <2>1. NoDoc \notin Range(feed')
    BY BatchAssumption, LenProperties, ElementOfSeq DEF Range
  <2> QED BY <1>1, <1>2, <2>1, NothingInRange DEF OnePlace
<1>6. q' \in [Stages -> Seq(Docs)] /\ unfinished' \in [Stages -> Nat]
      /\ item' \in [Workers -> Docs \cup {NoDoc}] /\ \A s \in Stages : Len(q'[s]) <= QueueSize[s]
  <2>1. <<>> \in Seq(Docs) /\ \A s \in Stages : 0 <= QueueSize[s]
    BY BatchAssumption
  <2> QED BY <1>2, <2>1, NothingInRange DEF StopWorkers
<1> QED BY <1>1, <1>3, <1>4, <1>5, <1>6 DEF Queued, StopWorkers

\* Steps of the owner that move no document.
LEMMA StaysKeeps ==
    ASSUME QInv, Stays, UNCHANGED <<at, cut, writes>>, Stores', Driven', PhaseOK'
    PROVE  QInv'
<1>1. Queued' /\ at \in [Workers -> Labels] /\ \A w \in Workers : Labelled(w)
  BY QInvParts, StaysQueued
<1>2. \A w \in Workers : Labelled(w)'
  BY <1>1 DEF Labelled
<1> QED BY <1>1, <1>2, QInvNext

\* What Fix leaves of the rows, and feeds.
LEMMA FixMoves ==
    ASSUME QInv, Fix
    PROVE  /\ batch' \subseteq batch
           /\ feed' \in Seq(Docs) /\ IsInjective(feed') /\ Range(feed') = batch'
           /\ phase' = IF batch' = {} THEN "idle" ELSE "feed"
           /\ UNCHANGED <<content, stored, flushed, cancelled, mem, queues, worker, unsaved, missed, runs, crashes>>
           /\ row' \in [Docs -> Rows]
           /\ \A d \in Docs : \/ row'[d] = row[d]
                              \/ /\ d \in batch \ batch' /\ row'[d].status = "absent"
                                 /\ row'[d].hashed = FALSE
                              \/ d \in batch /\ row'[d] = [status |-> "PENDING", chunks |-> mem[d].chunks,
                                                           hashed |-> mem[d].hashed, dup |-> FALSE]
           /\ \A d \in batch' : content[d] # "none" => row'[d].status = "PENDING"
           /\ \A d \in batch' : content[d] = "none" => row'[d] = row[d] /\ row[d].status # "FAILED"
<1> DEFINE Empty     == {d \in batch : content[d] = "none"}
           Preserved == {d \in Empty : row[d].status = "FAILED"}
           Deleted(kept) == (Empty \ Preserved) \ kept
           NewRow(d, kept) ==
                IF d \in Deleted(kept)
                THEN [status |-> "absent", chunks |-> {}, hashed |-> FALSE, dup |-> FALSE]
                ELSE IF d \in batch \ Empty /\ row[d].status # "PENDING"
                THEN [status |-> "PENDING", chunks |-> mem[d].chunks,
                      hashed |-> mem[d].hashed, dup |-> FALSE]
                ELSE row[d]
<1>1. batch \subseteq Docs /\ Stores /\ IsFiniteSet(Docs)
  BY QInvParts, BatchAssumption DEF Driven
<1>2. PICK kept \in SUBSET (Empty \ Preserved) :
         /\ batch' = batch \ (Preserved \cup Deleted(kept))
         /\ row' = [d \in Docs |-> NewRow(d, kept)]
  BY DEF Fix
<1>3. /\ feed' \in SetToSeqs(batch')
      /\ phase' = IF batch' = {} THEN "idle" ELSE "feed"
      /\ UNCHANGED <<content, stored, flushed, cancelled, mem, queues, worker, unsaved, missed, runs, crashes>>
  BY DEF Fix
<1>4. batch' \subseteq batch /\ IsFiniteSet(batch')
  BY <1>1, <1>2, FS_Subset
<1>5. feed' \in Seq(Docs) /\ IsInjective(feed') /\ Range(feed') = batch'
  <2>1. feed' \in Seq(batch') /\ IsInjective(feed') /\ Range(feed') = batch'
    BY <1>3, <1>4, OrderOfSet
  <2>2. Seq(batch') \subseteq Seq(Docs)
    BY <1>1, <1>4
  <2> QED BY <2>1, <2>2
<1>6. \A d \in Docs : row[d] \in Rows /\ mem[d].chunks \in SUBSET ChunkIds /\ mem[d].hashed \in BOOLEAN
  BY <1>1 DEF Stores
<1>7. \A d \in Docs : NewRow(d, kept) \in Rows
  BY <1>6 DEF Rows, RowStatuses
<1>8. \A d \in Docs : row'[d] = NewRow(d, kept)
  BY <1>2
<1>9. \A d \in Docs : \/ row'[d] = row[d]
                      \/ /\ d \in batch \ batch' /\ row'[d].status = "absent" /\ row'[d].hashed = FALSE
                      \/ d \in batch /\ row'[d] = [status |-> "PENDING", chunks |-> mem[d].chunks,
                                                   hashed |-> mem[d].hashed, dup |-> FALSE]
  BY <1>2, <1>8
<1>10. \A d \in batch' : content[d] # "none" => row'[d].status = "PENDING"
  BY <1>1, <1>2, <1>8
<1>11. \A d \in batch' : content[d] = "none" => row'[d] = row[d] /\ row[d].status # "FAILED"
  BY <1>1, <1>2, <1>8
<1>12. row' \in [Docs -> Rows]
  BY <1>2, <1>7
<1> QED BY <1>3, <1>4, <1>5, <1>9, <1>10, <1>11, <1>12

LEMMA FixKeeps ==
    ASSUME QInv, Fix
    PROVE  QInv'
<1>1. /\ Queued /\ Stores /\ Driven /\ PhaseOK
      /\ at \in [Workers -> Labels] /\ \A w \in Workers : Labelled(w)
      /\ phase = "fix"
  BY QInvParts DEF Fix
<1>2. /\ batch' \subseteq batch /\ feed' \in Seq(Docs) /\ IsInjective(feed') /\ Range(feed') = batch'
      /\ phase' = IF batch' = {} THEN "idle" ELSE "feed"
      /\ UNCHANGED <<content, stored, flushed, cancelled, mem, q, unfinished, at, item, cut, writes,
                     unsaved, missed, runs, crashes>>
      /\ row' \in [Docs -> Rows]
  BY FixMoves DEF queues, worker
<1>3. (\A w \in Workers : at[w] = "get" /\ item[w] = NoDoc) /\ \A s \in Stages : q[s] = <<>>
  BY <1>1 DEF PhaseOK, Queued, Busy
<1>4. Queued'
  <2>1. NoDoc \notin Range(feed')
    BY <1>2, BatchAssumption, LenProperties, ElementOfSeq DEF Range
  <2>2. OnePlace'
    BY <1>2, <1>3, <2>1, NothingInRange DEF OnePlace
  <2>3. CountOK'
    BY <1>1, <1>2 DEF Queued, CountOK, Hands, Busy
  <2> QED BY <1>1, <1>2, <2>2, <2>3 DEF Queued, Busy
<1>5. PhaseOK'
  <2>1. batch' = {} => feed' = <<>>
    <3>1. ASSUME batch' = {} PROVE Len(feed') = 0
      <4>1. DOMAIN feed' = {}
        BY <1>2, <3>1 DEF Range
      <4> QED BY <1>2, <4>1, LenProperties
    <3> QED BY <1>2, <3>1, EmptySeq
  <2> QED BY <1>2, <1>3, <2>1 DEF PhaseOK
<1>6. Driven' /\ Stores'
  BY <1>1, <1>2 DEF Driven, Stores, Phases
<1>7. \A w \in Workers : Labelled(w)'
  BY <1>1, <1>2 DEF Labelled
<1> QED BY <1>1, <1>2, <1>4, <1>5, <1>6, <1>7, QInvNext

LEMMA FeedKeeps ==
    ASSUME QInv, Feed
    PROVE  QInv'
<1>1. Queued /\ Stores /\ Driven /\ at \in [Workers -> Labels] /\ \A w \in Workers : Labelled(w)
  BY QInvParts
<1>2. /\ UNCHANGED <<row, content, stored, flushed, cancelled, phase, batch, mem, at, item, cut, writes,
                     unsaved, missed, runs, crashes>>
      /\ phase = "feed"
  BY DEF Feed, storage, worker
<1>3. Queued'
  BY <1>1, FeedQueued DEF Stores
<1>4. PhaseOK' /\ Driven' /\ Stores'
  BY <1>1, <1>2 DEF PhaseOK, Driven, Stores
<1>5. \A w \in Workers : Labelled(w)'
  BY <1>1, <1>2 DEF Labelled
<1> QED BY <1>1, <1>2, <1>3, <1>4, <1>5, QInvNext

LEMMA StopKeeps ==
    ASSUME QInv, JoinProcess \/ Crash
    PROVE  QInv'
<1>1. Queued /\ Stores /\ Driven /\ PhaseOK
  BY QInvParts
<1>2. /\ StopWorkers /\ phase' = "idle" /\ cancelled' = FALSE /\ batch' \subseteq Docs
      /\ feed' = <<>> /\ runs' = runs /\ crashes' \in 0..MaxCrashes
      /\ UNCHANGED <<row, content, flushed, unsaved, missed>>
      /\ stored' \in {stored, flushed}
      /\ mem' = mem \/ mem' = [d \in Docs |-> [chunks |-> {}, hashed |-> FALSE]]
  <2>1. CASE JoinProcess
    BY <1>1, <2>1 DEF JoinProcess, storage, PhaseOK, Driven
  <2>2. CASE Crash
    BY <1>1, <2>2, BatchAssumption DEF Crash, Driven
  <2> QED BY <2>1, <2>2
<1>3. /\ Queued' /\ at' \in [Workers -> Labels] /\ \A w \in Workers : Labelled(w)'
      /\ cut' \in [Workers -> SUBSET ChunkIds] /\ writes' \in [Workers -> SUBSET {"row", "chunks"}]
  <2>1. feed' \in Seq(Docs) /\ IsInjective(feed')
    BY <1>2, NothingInRange
  <2> QED BY <1>2, <2>1, StoppedQueued
<1>4. Stores'
  <2>1. mem' \in [Docs -> [chunks: SUBSET ChunkIds, hashed: BOOLEAN]]
    <3>1. [chunks |-> {}, hashed |-> FALSE] \in [chunks: SUBSET ChunkIds, hashed: BOOLEAN]
      OBVIOUS
    <3> QED BY <1>1, <1>2, <3>1 DEF Stores
  <2>2. stored' \in [Docs -> SUBSET ChunkIds]
    BY <1>1, <1>2 DEF Stores
  <2> QED BY <1>1, <1>2, <1>3, <2>1, <2>2 DEF Stores
<1>5. Driven'
  BY <1>1, <1>2 DEF Driven, Phases
<1>6. PhaseOK'
  BY <1>2 DEF PhaseOK, StopWorkers
<1> QED BY <1>3, <1>4, <1>5, <1>6, QInvNext

\* The other steps of the owner, of a user and of time.
LEMMA RestKeeps ==
    ASSUME QInv, LeaveCancelled \/ FixFails \/ JoinParse \/ JoinAnalyze \/ Start \/ Cancel
    PROVE  QInv'
<1>1. Queued /\ Stores /\ Driven /\ PhaseOK
  BY QInvParts
<1>2. Stays /\ UNCHANGED <<row, content, stored, flushed, at, cut, writes, missed, crashes>>
  BY DEF Stays, LeaveCancelled, FixFails, JoinParse, JoinAnalyze, Start, Cancel, storage, queues, worker, Busy
<1>3. mem' \in [Docs -> [chunks: SUBSET ChunkIds, hashed: BOOLEAN]] /\ unsaved' \subseteq Docs
  <2>1. CASE Start
    <3>1. \A d \in Docs : row[d] \in Rows
      BY <1>1 DEF Stores
    <3>2. \A d \in Docs : row[d].chunks \in SUBSET ChunkIds /\ row[d].hashed \in BOOLEAN
      BY <3>1 DEF Rows
    <3> QED BY <2>1, <3>2 DEF Start
  <2>2. CASE ~Start
    BY <1>1, <2>2 DEF Stores, LeaveCancelled, FixFails, JoinParse, JoinAnalyze, Cancel
  <2> QED BY <2>1, <2>2
<1>4. Stores'
  BY <1>1, <1>2, <1>3 DEF Stores
<1>5. Driven'
  <2>1. CASE Start
    <3>1. runs' \in 0..MaxRuns /\ batch' \subseteq Docs
      BY <1>1, <2>1, BatchAssumption DEF Start, Driven, InFlight
    <3>2. cancelled' = FALSE /\ phase' = "fix" /\ crashes' = crashes
      BY <1>2, <2>1 DEF Start
    <3> QED BY <1>1, <3>1, <3>2 DEF Driven, Phases
  <2>2. CASE ~Start
    BY <1>1, <2>2 DEF Driven, Phases, LeaveCancelled, FixFails, JoinParse, JoinAnalyze, Cancel
  <2> QED BY <2>1, <2>2
<1>6. PhaseOK'
  BY <1>1, <1>2 DEF PhaseOK, Stays, LeaveCancelled, FixFails, JoinParse, JoinAnalyze, Start, Cancel
<1> QED BY <1>2, <1>4, <1>5, <1>6, StaysKeeps

LEMMA QInvInit == Init => QInv
<1> SUFFICES ASSUME Init PROVE QInv
  OBVIOUS
<1>1. (\A w \in Workers : at[w] = "get" /\ item[w] = NoDoc) /\ \A s \in Stages : q[s] = <<>> /\ unfinished[s] = 0
  BY DEF Init
<1>2. CountOK
  <2>1. \A s \in Stages : Hands(s) = {}
    BY <1>1 DEF Hands, Busy
  <2>2. \A s \in Stages : Cardinality(Hands(s)) = 0 /\ Len(q[s]) = 0
    BY <1>1, <2>1, NothingInRange, FS_EmptySet
  <2>3. \A s \in Stages : unfinished[s] = Len(q[s]) + Cardinality(Hands(s))
    BY <1>1, <2>2
  <2> QED BY <2>3 DEF CountOK
<1>3. OnePlace
  BY <1>1, NothingInRange DEF OnePlace, Init
<1>4. Queued
  <2>1. <<>> \in Seq(Docs) /\ \A s \in Stages : 0 <= QueueSize[s]
    BY BatchAssumption
  <2>2. q \in [Stages -> Seq(Docs)] /\ \A s \in Stages : Len(q[s]) <= QueueSize[s]
    BY <1>1, <2>1, NothingInRange DEF Init
  <2>3. feed \in Seq(Docs) /\ unfinished \in [Stages -> Nat] /\ item \in [Workers -> Docs \cup {NoDoc}]
    BY <2>1 DEF Init
  <2> QED BY <1>1, <1>2, <1>3, <2>2, <2>3 DEF Queued, Busy
<1>5. Stores
  <2>1. content \in [Docs -> {"none", "pending", "parsed"}]
    BY BatchAssumption DEF Init
  <2>2. \A d \in Docs : [status |-> "PENDING", chunks |-> {}, hashed |-> content[d] = "parsed",
                         dup |-> FALSE] \in Rows
    BY DEF Rows, RowStatuses
  <2>3. row \in [Docs -> Rows]
    BY <2>2 DEF Init
  <2>4. [chunks |-> {}, hashed |-> FALSE] \in [chunks: SUBSET ChunkIds, hashed: BOOLEAN]
    OBVIOUS
  <2>5. mem \in [Docs -> [chunks: SUBSET ChunkIds, hashed: BOOLEAN]]
    BY <2>4 DEF Init
  <2> QED BY <2>1, <2>3, <2>5 DEF Stores, Init
<1>6. Driven /\ PhaseOK
  <2>1. 0 \in 0..MaxRuns /\ 0 \in 0..MaxCrashes
    BY BatchAssumption
  <2>2. Driven
    BY <2>1 DEF Driven, Init, Phases
  <2> QED BY <1>1, <2>2 DEF PhaseOK, Init
<1>7. at \in [Workers -> Labels] /\ \A w \in Workers : Labelled(w)
  BY <1>1 DEF Init, Labels, Labelled
<1> QED BY <1>4, <1>5, <1>6, <1>7, QInvParts

LEMMA QInvStep == QInv /\ [Next]_vars => QInv'
<1> SUFFICES ASSUME QInv, [Next]_vars PROVE QInv'
  OBVIOUS
<1>1. ASSUME NEW w \in Workers, Work(w) PROVE QInv'
  BY <1>1, WorkKeeps
<1>2. CASE Fix
  BY <1>2, FixKeeps
<1>3. CASE Feed
  BY <1>3, FeedKeeps
<1>4. CASE JoinProcess \/ Crash
  BY <1>4, StopKeeps
<1>5. CASE LeaveCancelled \/ FixFails \/ JoinParse \/ JoinAnalyze \/ Start \/ Cancel
  BY <1>5, RestKeeps
<1>6. CASE UNCHANGED vars
  <2>1. Stays /\ UNCHANGED <<at, cut, writes, row, content, stored, flushed, mem, unsaved, missed, phase, cancelled,
                             batch, runs, crashes>>
    BY <1>6 DEF Stays, vars, storage, control, queues, worker, Busy
  <2>2. Stores' /\ Driven' /\ PhaseOK'
    BY <2>1, QInvParts DEF Stores, Driven, PhaseOK, Stays
  <2> QED BY <2>1, <2>2, StaysKeeps
<1> QED BY <1>1, <1>2, <1>3, <1>4, <1>5, <1>6 DEF Next, Owner

LEMMA QInvHolds == Spec => []QInv
BY QInvInit, QInvStep, PTL DEF Spec

\* When the three joins have returned nothing is queued or under way.
LEMMA NothingLeft ==
    ASSUME QInv, phase = "join_process", unfinished["process"] = 0
    PROVE  /\ \A s \in Stages : q[s] = <<>>
           /\ \A w \in Workers : ~Busy(w) /\ item[w] = NoDoc
           /\ feed = <<>>
<1>1. Queued /\ PhaseOK
  BY QInvParts
<1>2. \A s \in Stages : unfinished[s] = 0
  BY <1>1 DEF PhaseOK, Stages
<1> QED BY <1>1, <1>2, CountedWhileBusy, StagesAre DEF PhaseOK, Queued

\* For any numbers of documents, workers and queue places: the types hold, no
\* queue exceeds its bound, no task counter goes negative, and the owner passes
\* the last of the three joins only when no document is left in a queue or with
\* a worker that is about to be cancelled.
THEOREM BatchTheorem == Spec => []BatchInv
<1>1. QInv => BatchInv
  <2> SUFFICES ASSUME QInv PROVE BatchInv
    OBVIOUS
  <2>1. at \in [Workers -> Labels] /\ TypeOK
    BY QInvParts DEF QInv
  <2> QED BY <2>1, NothingLeft DEF BatchInv, JoinsMeanDone, Busy
<1> QED BY <1>1, QInvHolds, PTL

-----------------------------------------------------------------------------
(* The rows' invariant, step by step.                                       *)

\* The document of a busy worker is nowhere else.
LEMMA HolderOnly ==
    ASSUME QInv, NEW w \in Workers, Busy(w)
    PROVE  /\ item[w] \in Docs /\ item[w] # NoDoc /\ Underway(item[w])
           /\ \A v \in Workers : item[v] = item[w] => v = w
           /\ item[w] \notin Range(feed) /\ \A s \in Stages : item[w] \notin Range(q[s])
<1>1. Queued
  BY QInvParts
<1>2. item[w] \in Docs /\ item[w] # NoDoc
  BY <1>1, BatchAssumption DEF Queued
<1> QED BY <1>1, <1>2 DEF Queued, OnePlace, Underway

\* What its row says while it is there.
LEMMA HolderRow ==
    ASSUME QInv, RowInv, NEW w \in Workers, Busy(w)
    PROVE  /\ row[item[w]].status # "absent"
           /\ mem[item[w]].hashed => row[item[w]].hashed
           /\ row[item[w]].status = "PROCESSED" => at[w] \in {"flush", "fail"}
<1>1. item[w] \in Docs /\ Underway(item[w]) /\ \A v \in Workers : item[v] = item[w] => v = w
  BY HolderOnly
<1>2. RowOK(item[w])
  BY <1>1 DEF RowInv
<1> QED BY <1>1, <1>2 DEF RowOK, Member

\* A worker's step leaves the other documents where they are.
LEMMA OthersStay ==
    ASSUME QInv, NEW w \in Workers, WorkerMove(w), Busy(w), NEW e \in Docs, e # item[w]
    PROVE  /\ Underway(e)' <=> Underway(e)
           /\ \A v \in Workers : item'[v] = e => v # w /\ item[v] = e /\ at'[v] = at[v]
           /\ \A v \in Workers : item[v] = e => v # w /\ item'[v] = e /\ at'[v] = at[v]
           /\ \A s \in Stages : e \in Range(q[s])' <=> e \in Range(q[s])
<1>1. Queued /\ item[w] \in Docs /\ feed' = feed /\ e # NoDoc
  BY QInvParts, HolderOnly, BatchAssumption DEF WorkerMove, control
<1>2. \A s \in Stages : e \in Range(q[s])' <=> e \in Range(q[s])
  <2>1. CASE Stays \/ Drops(w)
    BY <2>1 DEF Stays, Drops
  <2>2. CASE HandsOver(w)
    <3>1. Range(q[NextStage(Serves[w])])' = Range(q[NextStage(Serves[w])]) \cup {item[w]}
      BY <1>1, <2>2, HandsOverQueued
    <3>2. \A s \in Stages : s # NextStage(Serves[w]) => q'[s] = q[s]
      BY <1>1, <2>2 DEF HandsOver, Queued
    <3>3. ASSUME NEW s \in Stages PROVE e \in Range(q[s])' <=> e \in Range(q[s])
      BY <3>1, <3>2
    <3> QED BY <3>3
  <2>3. ~Takes(w)
    BY DEF Takes
  <2> QED BY <2>1, <2>2, <2>3 DEF WorkerMove
<1>3. item' = item \/ item' = [item EXCEPT ![w] = NoDoc]
  BY DEF WorkerMove, Takes, Stays, Drops, HandsOver
<1>4. \A v \in Workers : item'[v] = e => v # w /\ item[v] = e /\ at'[v] = at[v]
  BY <1>1, <1>3 DEF WorkerMove, OthersAt, Queued
<1>5. \A v \in Workers : item[v] = e => v # w /\ item'[v] = e /\ at'[v] = at[v]
  BY <1>1, <1>3 DEF WorkerMove, OthersAt, Queued
<1> QED BY <1>1, <1>2, <1>4, <1>5 DEF Underway

\* A worker touches the row and the memory of its own document only.
OnlyOwn(w) ==
    /\ \A e \in Docs \ {item[w]} : row'[e] = row[e] /\ mem'[e] = mem[e]
    /\ unsaved \subseteq unsaved' /\ missed \subseteq missed' \cup {item[w]}

\* The three ways it can leave that document.
Ends(w) ==
    LET d == item[w] IN
    /\ Drops(w)
    /\ d \in unsaved' \/ row'[d].status \in {"PROCESSED", "FAILED"}
    /\ at'[w] # "flush"

Goes(w) ==
    LET d == item[w] IN
    /\ Stays
    /\ row'[d].status # "absent" /\ (mem'[d].hashed => row'[d].hashed)
    /\ row'[d].status = "PROCESSED" => at'[w] \in {"flush", "fail"}
    /\ at'[w] = "flush" => row'[d].status = "PROCESSED"

Passes(w) == HandsOver(w) /\ row' = row /\ mem' = mem /\ at[w] = "put" /\ at'[w] = "get"

\* In each of them the rows, apart from duplicates, are as they should be.
LEMMA OwnKeepsRows ==
    ASSUME QInv, QInv', RowInv, NEW w \in Workers, WorkerMove(w), Busy(w),
           OnlyOwn(w), Ends(w) \/ Goes(w) \/ Passes(w)
    PROVE  (\A e \in Docs : RowOK(e)') /\ FlushLast' /\ Settled'
<1>0. PICK d \in Docs : d = item[w]
  BY HolderOnly
<1>1. /\ d \in Docs /\ d # NoDoc /\ Underway(d) /\ \A v \in Workers : item[v] = d => v = w
      /\ d \notin Range(feed) /\ \A s \in Stages : d \notin Range(q[s])
  BY <1>0, HolderOnly
<1>2. /\ row[d].status # "absent" /\ (mem[d].hashed => row[d].hashed)
      /\ row[d].status = "PROCESSED" => at[w] \in {"flush", "fail"}
  BY <1>0, HolderRow
<1>3. UNCHANGED <<phase, batch, feed>> /\ Queued /\ Queued'
  BY <1>0, QInvParts DEF WorkerMove, control, QInv, TypeOK, LabelsOK, Queued
<1>4. phase # "fix"
  BY <1>0, QInvParts DEF PhaseOK, Busy
<1>5. Drops(w) => ~Underway(d)'
  BY <1>0, <1>1, <1>3 DEF Drops, Underway, Queued
<1>6. Stays => item'[w] = d /\ Underway(d)'
  BY <1>0, <1>1 DEF Stays, Underway
<1>7. ASSUME NEW e \in Docs PROVE RowOK(e)'
  <2>1. CASE e # d
    <3>1. /\ Underway(e)' <=> Underway(e)
          /\ \A v \in Workers : item[v] = e => item'[v] = e /\ at'[v] = at[v]
      BY <1>0, <2>1, OthersStay
    <3>2. row'[e] = row[e] /\ mem'[e] = mem[e]
      BY <1>0, <2>1 DEF OnlyOwn
    <3>3. RowOK(e)
      BY <1>0 DEF RowInv
    <3> QED BY <1>0, <1>3, <1>4, <3>1, <3>2, <3>3 DEF RowOK, Member
  <2>2. CASE e = d /\ Ends(w)
    BY <1>0, <1>3, <1>4, <1>5, <2>2 DEF RowOK, Member, Ends
  <2>3. CASE e = d /\ Goes(w)
    <3>1. /\ row'[e].status # "absent" /\ (mem'[e].hashed => row'[e].hashed)
          /\ row'[e].status = "PROCESSED" => item'[w] = e /\ at'[w] \in {"flush", "fail"}
      BY <1>0, <1>6, <2>3 DEF Goes
    <3> QED BY <1>0, <3>1 DEF RowOK
  <2>4. CASE e = d /\ Passes(w)
    <3>1. row'[e] = row[e] /\ mem'[e] = mem[e] /\ row[e].status # "PROCESSED"
      BY <1>0, <1>2, <2>4 DEF Passes
    <3> QED BY <1>0, <1>2, <2>4, <3>1 DEF RowOK
  <2> QED BY <1>0, <2>1, <2>2, <2>3, <2>4
<1>8. FlushLast'
  <2>1. ASSUME NEW v \in Workers, at'[v] = "flush" PROVE row'[item'[v]].status = "PROCESSED"
    <3>1. CASE v # w
      <4>1. at[v] = "flush" /\ Busy(v) /\ Busy(v)'
        BY <1>0, <2>1, <3>1 DEF WorkerMove, OthersAt, Busy
      <4>2. item[v] \in Docs /\ item[v] # d
        BY <1>0, <3>1, <4>1, HolderOnly
      <4>3. item'[v] = item[v]
        BY <1>0, <4>2, OthersStay
      <4> QED BY <1>0, <4>1, <4>2, <4>3 DEF RowInv, FlushLast, OnlyOwn
    <3>2. CASE v = w
      BY <1>0, <1>6, <2>1, <3>2 DEF Ends, Goes, Passes
    <3> QED BY <1>0, <3>1, <3>2
  <2> QED BY <1>0, <2>1 DEF FlushLast
<1>9. Settled'
  <2>1. ASSUME phase \in {"feed", "join_analyze", "join_process"}, NEW e \in batch, e \notin unsaved'
        PROVE  Underway(e)' \/ row'[e].status \in {"PROCESSED", "FAILED"}
    <3>1. e \in Docs /\ e \notin unsaved /\ (Underway(e) \/ row[e].status \in {"PROCESSED", "FAILED"})
      BY <1>0, <2>1, QInvParts DEF OnlyOwn, RowInv, Settled, Driven
    <3>2. CASE e # d
      BY <1>0, <3>1, <3>2, OthersStay DEF OnlyOwn
    <3>3. CASE e = d
      <4>1. CASE Ends(w)
        BY <1>0, <2>1, <3>3, <4>1 DEF Ends
      <4>2. CASE Goes(w)
        BY <1>0, <1>6, <3>3, <4>2 DEF Goes
      <4>3. CASE Passes(w)
        <5>1. d \in Range(q[NextStage(Serves[w])])' /\ NextStage(Serves[w]) \in Stages
          BY <1>0, <1>3, <4>3, HandsOverQueued, StagesAre DEF Passes
        <5> QED BY <1>0, <3>3, <5>1 DEF Underway
      <4> QED BY <1>0, <4>1, <4>2, <4>3
    <3> QED BY <1>0, <3>2, <3>3
  <2> QED BY <1>0, <1>3, <2>1 DEF Settled
<1> QED BY <1>7, <1>8, <1>9

\* What a worker does to a document makes no other document a duplicate.
LEMMA OthersCleared ==
    ASSUME QInv, NEW w \in Workers, WorkerMove(w), Busy(w), OnlyOwn(w),
           NEW e \in Docs, e # item[w], Cleared(e)'
    PROVE  Cleared(e)
<1>1. /\ \A v \in Workers : item'[v] = e => v # w /\ item[v] = e /\ at'[v] = at[v]
      /\ \A s \in Stages : e \in Range(q[s])' <=> e \in Range(q[s])
  BY OthersStay
<1>2. row'[e] = row[e] /\ mem'[e] = mem[e] /\ e \notin missed
  BY DEF OnlyOwn, Cleared
<1> QED BY <1>1, <1>2, StagesAre DEF Cleared, ParseStage

\* The steps that look for no duplicate: the document is not cleared by them.
Quiet(w) ==
    LET d == item[w] IN
    /\ missed' = missed
    /\ d \notin missed /\ row'[d].status = "PROCESSED" /\ row'[d].hashed => Cleared(d)
    /\ \/ Drops(w)
       \/ HandsOver(w) /\ at[w] = "put" /\ mem' = mem
       \/ Stays /\ (mem'[d].hashed => mem[d].hashed) /\ (ParseStage(w) /\ at'[w] = "put" => at[w] = "put")

LEMMA QuietKeeps ==
    ASSUME QInv, QInv', RowInv, NEW w \in Workers, WorkerMove(w), Busy(w), OnlyOwn(w), Quiet(w)
    PROVE  OneCleared'
<1>0. PICK d \in Docs : d = item[w]
  BY HolderOnly
<1>1. /\ d # NoDoc /\ \A v \in Workers : item[v] = d => v = w
      /\ d \notin Range(feed) /\ \A s \in Stages : d \notin Range(q[s])
  BY <1>0, HolderOnly
<1>2. Queued
  BY QInvParts
<1>3. ASSUME Cleared(d)' PROVE Cleared(d)
  <2>0. d \notin missed /\ missed' = missed
    BY <1>0, <1>3 DEF Cleared, Quiet
  <2>1. CASE row'[d].status = "PROCESSED" /\ row'[d].hashed
    BY <1>0, <2>0, <2>1 DEF Quiet
  <2>2. CASE /\ mem'[d].hashed
             /\ \/ d \in Range(q["analyze"])' \cup Range(q["process"])'
                \/ \E v \in Workers : item'[v] = d /\ (at'[v] = "put" \/ ~ParseStage(v))
    <3>1. CASE Drops(w)
      <4>1. q' = q /\ \A v \in Workers : item'[v] # d
        BY <1>1, <1>2, <3>1 DEF Drops, Queued
      <4> QED BY <1>1, <2>2, <4>1, StagesAre
    <3>2. CASE HandsOver(w) /\ at[w] = "put" /\ mem' = mem
      BY <1>0, <2>0, <2>2, <3>2 DEF Cleared
    <3>3. CASE Stays /\ (mem'[d].hashed => mem[d].hashed)
               /\ (ParseStage(w) /\ at'[w] = "put" => at[w] = "put")
      <4>1. q' = q /\ item' = item
        BY <3>3 DEF Stays
      <4>2. PICK v \in Workers : item[v] = d /\ (at'[v] = "put" \/ ~ParseStage(v))
        BY <1>1, <2>2, <4>1, StagesAre
      <4>3. v = w
        BY <1>1, <4>2
      <4> QED BY <2>0, <2>2, <3>3, <4>2, <4>3 DEF Cleared
    <3> QED BY <1>0, <3>1, <3>2, <3>3 DEF Quiet
  <2> QED BY <1>3, <2>1, <2>2 DEF Cleared, ParseStage
<1>4. \A e \in Docs : Cleared(e)' => Cleared(e)
  BY <1>0, <1>3, OthersCleared
<1> QED BY <1>4 DEF RowInv, OneCleared

\* A worker goes on without touching rows.
LEMMA GotoRows ==
    ASSUME QInv, QInv', RowInv, NEW w \in Workers, WorkerMove(w), Busy(w), Stays,
           UNCHANGED <<row, unsaved, missed>>,
           \A e \in Docs : mem'[e].hashed = mem[e].hashed,
           \A e \in Docs \ {item[w]} : mem'[e] = mem[e],
           at'[w] # "flush", at[w] \in {"flush", "fail"} => at'[w] = "fail",
           ParseStage(w) => at'[w] # "put"
    PROVE  RowInv'
<1>1. OnlyOwn(w)
  BY DEF OnlyOwn
<1>2. item[w] \in Docs
  BY HolderOnly
<1>3. Goes(w)
  BY <1>2, HolderRow DEF Goes
<1>4. Quiet(w)
  BY <1>2 DEF Quiet, Cleared
<1> QED BY <1>1, <1>3, <1>4, OwnKeepsRows, QuietKeeps DEF RowInv

\* A worker writes a row and goes on.
LEMMA SaveRows ==
    ASSUME QInv, QInv', RowInv, NEW w \in Workers, WorkerMove(w), Busy(w), Stays,
           UNCHANGED <<mem, unsaved, missed>>, NEW st \in RowStatuses \ {"absent"}, NEW c \in SUBSET ChunkIds,
           Save(item[w], st, c),
           st = "PROCESSED" <=> at'[w] = "flush", st = "PROCESSED" => ~ParseStage(w),
           ParseStage(w) => at'[w] # "put"
    PROVE  RowInv'
<1>1. item[w] \in Docs /\ Stores
  BY HolderOnly, QInvParts
<1>2. /\ row'[item[w]] = [status |-> st, chunks |-> c, hashed |-> mem[item[w]].hashed, dup |-> FALSE]
      /\ \A e \in Docs \ {item[w]} : row'[e] = row[e]
  BY <1>1, SaveTyped
<1>3. OnlyOwn(w)
  BY <1>2 DEF OnlyOwn
<1>4. Goes(w)
  BY <1>2 DEF Goes
<1>5. Quiet(w)
  BY <1>2 DEF Quiet, Cleared
<1> QED BY <1>3, <1>4, <1>5, OwnKeepsRows, QuietKeeps DEF RowInv

\* A worker is done with its document.
LEMMA EndRows ==
    ASSUME QInv, QInv', RowInv, NEW w \in Workers, WorkerMove(w), Busy(w), OnlyOwn(w), Ends(w),
           missed' = missed,
           row'[item[w]].status = "PROCESSED" => row'[item[w]] = row[item[w]]
    PROVE  RowInv'
<1>1. Drops(w)
  BY DEF Ends
<1>2. Quiet(w)
  BY <1>1 DEF Quiet, Cleared
<1> QED BY <1>2, OwnKeepsRows, QuietKeeps DEF RowInv

\* A worker takes a document: it was in one of the queues its stage consumes.
LEMMA TakeRows ==
    ASSUME QInv, RowInv, NEW w \in Workers, Take(w)
    PROVE  RowInv'
<1> DEFINE s == Serves[w]
<1>1. /\ Takes(w) /\ UNCHANGED <<row, mem, unsaved, missed, phase, batch, feed>>
      /\ Queued /\ s \in Stages
  BY TakeMoves, QInvParts, StagesAre DEF storage, WorkerMove, control
<1>2. PICK h \in Docs : h = Head(q[s]) /\ Range(q[s]) = Range(q[s])' \cup {h}
  BY <1>1, TakesQueued
<1>3. /\ item[w] = NoDoc /\ item'[w] = h /\ at'[w] = "check" /\ ~Busy(w)
      /\ \A v \in Workers \ {w} : item'[v] = item[v] /\ at'[v] = at[v]
      /\ \A r \in Stages \ {s} : q'[r] = q[r]
  BY <1>1, <1>2 DEF Takes, Queued, OthersAt
<1> HIDE DEF s
<1>4. ASSUME NEW e \in Docs PROVE Underway(e)' <=> Underway(e)
  <2>1. e # NoDoc
    BY BatchAssumption
  <2>2. (\E r \in Stages : e \in Range(q[r])) <=> e = h \/ \E r \in Stages : e \in Range(q'[r])
    <3>1. \A r \in Stages : Range(q[r]) = IF r = s THEN Range(q'[r]) \cup {h} ELSE Range(q'[r])
      BY <1>2, <1>3
    <3> QED BY <1>1, <3>1
  <2>3. (\E v \in Workers : item'[v] = e) <=> e = h \/ \E v \in Workers : item[v] = e
    BY <1>3, <2>1
  <2> QED BY <1>1, <2>2, <2>3 DEF Underway
<1>5. ASSUME NEW e \in Docs PROVE RowOK(e)'
  <2>1. RowOK(e) /\ e # NoDoc
    BY BatchAssumption DEF RowInv
  <2>2. ASSUME NEW v \in Workers, item[v] = e, at[v] \in {"flush", "fail"}
        PROVE  item'[v] = e /\ at'[v] \in {"flush", "fail"}
    <3>1. v # w
      BY <1>3, <2>1, <2>2
    <3> QED BY <1>3, <2>2, <3>1
  <2> QED BY <1>1, <1>4, <2>1, <2>2 DEF RowOK, Member
<1>6. FlushLast'
  <2>1. ASSUME NEW v \in Workers, at'[v] = "flush" PROVE row'[item'[v]].status = "PROCESSED"
    <3>1. v # w
      BY <1>3, <2>1
    <3> QED BY <1>1, <1>3, <2>1, <3>1 DEF RowInv, FlushLast
  <2> QED BY <2>1 DEF FlushLast
<1>7. Settled'
  <2>1. batch \subseteq Docs
    BY QInvParts DEF Driven
  <2> QED BY <1>1, <1>4, <2>1 DEF RowInv, Settled
<1>8. ASSUME NEW e \in Docs, Cleared(e)' PROVE Cleared(e)
  <2>0. e \notin missed
    BY <1>1, <1>8 DEF Cleared
  <2>1. \A r \in Stages : Range(q'[r]) \subseteq Range(q[r])
    BY <1>2, <1>3
  <2>2. ASSUME NEW v \in Workers, item'[v] = e, at'[v] = "put" \/ ~ParseStage(v), mem[e].hashed
        PROVE  Cleared(e)
    <3>1. CASE v # w
      BY <1>3, <2>0, <2>2, <3>1 DEF Cleared
    <3>2. CASE v = w
      <4>1. e = h /\ s \in {"analyze", "process"}
        BY <1>1, <1>3, <2>2, <3>2 DEF ParseStage, Stages, s
      <4>2. e \in Range(q[s])
        BY <1>2, <4>1
      <4> QED BY <2>0, <2>2, <4>1, <4>2 DEF Cleared
    <3> QED BY <3>1, <3>2
  <2> QED BY <1>1, <1>8, <2>0, <2>1, <2>2, StagesAre DEF Cleared, ParseStage
<1>9. OneCleared'
  BY <1>8 DEF RowInv, OneCleared
<1> QED BY <1>5, <1>6, <1>7, <1>9 DEF RowInv

\* A parser that keeps its document found no other with its hash, or failed to
\* look and has missed it.
LEMMA KeepUniqueRows ==
    ASSUME QInv, QInv', RowInv, NEW w \in Workers, KeepUnique(w)
    PROVE  RowInv'
<1>1. /\ at[w] = "dup" /\ Busy(w)
      /\ \/ ~(Hashed(w) /\ Twins(item[w]) # {}) /\ missed' = missed \ {item[w]}
         \/ missed' = missed \cup {item[w]}
      /\ mem' = [mem EXCEPT ![item[w]].hashed = Hashed(w)]
      /\ Goto(w, "put") /\ UNCHANGED <<row, unsaved>> /\ UNCHANGED control
  BY DEF KeepUnique, Busy, storage
<1>2. /\ WorkerMove(w) /\ Queued /\ Stores /\ Labelled(w) /\ at \in [Workers -> Labels]
  BY WorkMoves, QInvParts DEF Work
<1>3. Stays /\ at'[w] = "put" /\ ParseStage(w)
  BY <1>1, <1>2, StagesAre DEF Goto, Stays, queues, WorkerMove, Labelled, Busy, OthersAt, control, Stages, ParseStage
<1>4. PICK d \in Docs : d = item[w]
  BY <1>1, HolderOnly
<1>5. mem'[d].hashed = Hashed(w) /\ \A e \in Docs \ {d} : mem'[e] = mem[e]
  <2>1. mem[d] \in [chunks: SUBSET ChunkIds, hashed: BOOLEAN] /\ d \in DOMAIN mem
    BY <1>2 DEF Stores
  <2> QED BY <1>1, <1>4, <2>1
<1>6. OnlyOwn(w)
  BY <1>1, <1>4, <1>5 DEF OnlyOwn
<1>7. /\ row[d].status # "absent" /\ (mem[d].hashed => row[d].hashed) /\ row[d].status # "PROCESSED"
  BY <1>1, <1>4, HolderRow
<1>8. Goes(w)
  BY <1>1, <1>3, <1>4, <1>5, <1>7 DEF Goes, Hashed
<1>9. OneCleared'
  <2>1. ASSUME NEW e \in Docs, e # d, Body[e] = Body[d], Cleared(e)', Cleared(d)' PROVE FALSE
    <3>1. Hashed(w) /\ Twins(d) = {}
      <4>1. mem'[d].hashed /\ d \notin missed'
        BY <1>1, <1>7, <2>1 DEF Cleared
      <4> QED BY <1>1, <1>4, <1>5, <4>1
    <3>2. Cleared(e)
      BY <1>1, <1>2, <1>4, <1>6, <2>1, OthersCleared
    <3>3. row[e].status # "absent" /\ row[e].hashed
      <4>1. CASE row[e].status = "PROCESSED" /\ row[e].hashed
        BY <4>1
      <4>2. CASE mem[e].hashed /\ Underway(e)
        BY <4>2 DEF RowInv, RowOK, Member
      <4> QED BY <3>2, <4>1, <4>2, StagesAre DEF Cleared, Underway
    <3>4. e \in Twins(d)
      BY <2>1, <3>3 DEF Twins
    <3> QED BY <3>1, <3>4
  <2>2. ASSUME NEW e \in Docs, e # d, Cleared(e)' PROVE Cleared(e)
    BY <1>1, <1>2, <1>4, <1>6, <2>2, OthersCleared
  <2> QED BY <2>1, <2>2 DEF RowInv, OneCleared
<1> QED BY <1>1, <1>2, <1>6, <1>8, <1>9, OwnKeepsRows DEF RowInv

\* A step to another label, with what it needs to say of the labels.
LEMMA WorkGotoRows ==
    ASSUME QInv, QInv', RowInv, NEW w \in Workers, Work(w), NEW l \in Labels \ {"get", "dead", "flush"},
           Busy(w), Goto(w, l), UNCHANGED <<control, row, unsaved, missed>>,
           \A e \in Docs : mem'[e].hashed = mem[e].hashed,
           \A e \in Docs \ {item[w]} : mem'[e] = mem[e],
           at[w] \in {"flush", "fail"} => l = "fail",
           ParseStage(w) => l # "put"
    PROVE  RowInv'
<1>1. WorkerMove(w) /\ at \in [Workers -> Labels]
  BY WorkMoves, QInvParts
<1>2. Stays /\ at'[w] = l
  BY <1>1 DEF Goto, Stays, queues, WorkerMove, Busy, OthersAt, control
<1> QED BY <1>1, <1>2, GotoRows

LEMMA WorkSaveRows ==
    ASSUME QInv, QInv', RowInv, NEW w \in Workers, Work(w), NEW l \in Labels \ {"get", "dead"},
           Busy(w), at' = [at EXCEPT ![w] = l], UNCHANGED <<item, queues, control, mem, unsaved, missed>>,
           NEW st \in RowStatuses \ {"absent"}, NEW c \in SUBSET ChunkIds, Save(item[w], st, c),
           st = "PROCESSED" <=> l = "flush", st = "PROCESSED" => ~ParseStage(w),
           ParseStage(w) => l # "put"
    PROVE  RowInv'
<1>1. WorkerMove(w) /\ at \in [Workers -> Labels]
  BY WorkMoves, QInvParts
<1>2. Stays /\ at'[w] = l
  BY <1>1 DEF Stays, queues, WorkerMove, Busy, OthersAt, control
<1> QED BY <1>1, <1>2, SaveRows

\* A stage that failed: the row says so, or is known to be unwritten.
LEMMA FailRows ==
    ASSUME QInv, QInv', RowInv, NEW w \in Workers, Work(w), Busy(w), FailInStage(w)
    PROVE  RowInv'
<1>1. /\ WorkerMove(w) /\ Drops(w) /\ at'[w] = "get" /\ UNCHANGED <<mem, missed>> /\ item[w] \in Docs
      /\ \/ Save(item[w], "FAILED", {}) /\ UNCHANGED unsaved
         \/ unsaved' = unsaved \cup {item[w]} /\ UNCHANGED row
  BY FailMoves
<1>2. CASE Save(item[w], "FAILED", {}) /\ UNCHANGED unsaved
  <2>1. {} \in SUBSET ChunkIds /\ "FAILED" \in RowStatuses /\ Stores
    BY QInvParts DEF RowStatuses
  <2>2. /\ row'[item[w]] = [status |-> "FAILED", chunks |-> {}, hashed |-> mem[item[w]].hashed,
                            dup |-> FALSE]
        /\ \A e \in Docs \ {item[w]} : row'[e] = row[e]
    BY <1>1, <1>2, <2>1, SaveTyped
  <2> QED BY <1>1, <1>2, <2>2, EndRows DEF OnlyOwn, Ends
<1>3. CASE unsaved' = unsaved \cup {item[w]} /\ UNCHANGED row
  BY <1>1, <1>3, EndRows DEF OnlyOwn, Ends
<1> QED BY <1>1, <1>2, <1>3

\* The last steps of a document.
LEMMA LastRows ==
    ASSUME QInv, QInv', RowInv, NEW w \in Workers, Work(w), DropDuplicate(w) \/ Flush(w) \/ Finalize(w)
    PROVE  RowInv'
<1>1. WorkerMove(w) /\ Stores /\ Queued
  BY WorkMoves, QInvParts
<1>2. Busy(w) /\ item[w] \in Docs /\ UNCHANGED control
  BY HolderOnly DEF DropDuplicate, Flush, Finalize, Busy
<1>3. CASE DropDuplicate(w)
  <2>1. Drops(w) /\ at'[w] = "get" /\ UNCHANGED <<unsaved, missed>>
    BY <1>2, <1>3, TaskDoneMoves DEF DropDuplicate
  <2>2. /\ row'[item[w]] = [status |-> "FAILED", chunks |-> {}, hashed |-> TRUE, dup |-> TRUE]
        /\ \A e \in Docs \ {item[w]} : row'[e] = row[e] /\ mem'[e] = mem[e]
    BY <1>1, <1>2, <1>3 DEF DropDuplicate, Stores
  <2> QED BY <1>1, <1>2, <2>1, <2>2, EndRows DEF OnlyOwn, Ends
<1>4. CASE Flush(w)
  <2>1. Drops(w) /\ at'[w] = "get" /\ at[w] = "flush" /\ UNCHANGED <<row, mem, unsaved, missed>>
    BY <1>2, <1>4, TaskDoneMoves DEF Flush
  <2>2. row[item[w]].status = "PROCESSED"
    BY <2>1 DEF RowInv, FlushLast
  <2> QED BY <1>1, <1>2, <2>1, <2>2, EndRows DEF OnlyOwn, Ends
<1>5. CASE Finalize(w)
  <2> DEFINE c == IF cut[w] # {} THEN cut[w] ELSE mem[item[w]].chunks
  <2>1. Drops(w) /\ at'[w] # "flush" /\ UNCHANGED <<mem, missed>>
    <3>1. CASE TaskDone(w, "get")
      BY <1>2, <1>5, <3>1, TaskDoneMoves DEF Finalize
    <3>2. CASE TaskDone(w, "dead")
      <4>1. Serves[w] = "process"
        BY <1>5, QInvParts, StagesAre DEF Finalize, Labelled, ParseStage, Stages
      <4> QED BY <1>2, <1>5, <3>2, <4>1, TaskDoneMoves DEF Finalize
    <3> QED BY <1>5, <3>1, <3>2 DEF Finalize
  <2>2. \/ Save(item[w], "FAILED", c) /\ UNCHANGED unsaved
        \/ unsaved' = unsaved \cup {item[w]} /\ UNCHANGED row
    BY <1>5 DEF Finalize
  <2>3. c \in SUBSET ChunkIds /\ "FAILED" \in RowStatuses
    <3>1. mem[item[w]].chunks \in SUBSET ChunkIds /\ cut[w] \in SUBSET ChunkIds
      BY <1>1, <1>2 DEF Stores
    <3> QED BY <3>1 DEF RowStatuses
  <2> HIDE DEF c
  <2>4. CASE Save(item[w], "FAILED", c) /\ UNCHANGED unsaved
    <3>1. /\ row'[item[w]] = [status |-> "FAILED", chunks |-> c, hashed |-> mem[item[w]].hashed,
                              dup |-> FALSE]
          /\ \A e \in Docs \ {item[w]} : row'[e] = row[e]
      BY <1>1, <1>2, <2>3, <2>4, SaveTyped
    <3> QED BY <1>1, <1>2, <2>1, <2>4, <3>1, EndRows DEF OnlyOwn, Ends
  <2>5. CASE unsaved' = unsaved \cup {item[w]} /\ UNCHANGED row
    BY <1>1, <1>2, <2>1, <2>5, EndRows DEF OnlyOwn, Ends
  <2> QED BY <2>2, <2>4, <2>5
<1> QED BY <1>3, <1>4, <1>5

\* The steps before those.
LEMMA MidRows ==
    ASSUME QInv, QInv', RowInv, NEW w \in Workers, Work(w),
           \/ BeginStage(w) \/ ParseExtract(w) \/ ParsePatch(w) \/ Analyze(w) \/ ProcessBegin(w)
           \/ Purge(w) \/ PurgeFails(w) \/ Chunk(w) \/ WriteRow(w) \/ WriteChunks(w) \/ StageOneFails(w)
           \/ GatherDone(w) \/ Extract(w) \/ Merge(w) \/ ProcessFails(w) \/ SaveProcessed(w)
    PROVE  RowInv'
<1> USE DEF Labels
<1>1. /\ at \in [Workers -> Labels] /\ Labelled(w) /\ Stores /\ Queued /\ WorkerMove(w)
      /\ ~(ParseStage(w) /\ Serves[w] = "analyze") /\ ~(ParseStage(w) /\ Serves[w] = "process")
      /\ (ParseStage(w) \/ Serves[w] = "analyze" \/ Serves[w] = "process")
  BY WorkMoves, QInvParts, StagesAre DEF ParseStage, Stages
<1>2. Busy(w) => item[w] \in Docs
  BY HolderOnly
<1>3. CASE BeginStage(w)
  <2>1. /\ Busy(w) /\ at' = [at EXCEPT ![w] = "work"]
        /\ UNCHANGED <<item, queues, control, mem, unsaved, missed>>
        /\ Save(item[w], "PARSING", {}) \/ Save(item[w], "ANALYZING", {})
    BY <1>3 DEF BeginStage, Busy, Goto
  <2>2. /\ "PARSING" \in RowStatuses \ {"absent"} /\ "ANALYZING" \in RowStatuses \ {"absent"}
        /\ "work" \in Labels \ {"get", "dead"}
    BY DEF RowStatuses
  <2>0. PICK none \in SUBSET ChunkIds : none = {}
    OBVIOUS
  <2>3. CASE Save(item[w], "PARSING", none)
    BY <2>1, <2>2, <2>3, WorkSaveRows
  <2>4. CASE Save(item[w], "ANALYZING", none)
    BY <2>1, <2>2, <2>4, WorkSaveRows
  <2> QED BY <2>0, <2>1, <2>3, <2>4
<1>4. CASE ParseExtract(w) \/ Analyze(w) \/ ProcessBegin(w) \/ PurgeFails(w) \/ Chunk(w) \/ StageOneFails(w)
           \/ GatherDone(w) \/ Extract(w) \/ Merge(w) \/ ProcessFails(w)
  <2>1. PICK l \in Labels \ {"get", "dead", "flush"} :
          Goto(w, l) /\ (ParseStage(w) => l # "put") /\ (at[w] \in {"flush", "fail"} => l = "fail")
    BY <1>1, <1>4 DEF ParseExtract, Analyze, ProcessBegin, PurgeFails, Chunk, StageOneFails, GatherDone,
           Extract, Merge, ProcessFails
  <2>2. Busy(w) /\ UNCHANGED <<control, row, mem, unsaved, missed>>
    BY <1>4 DEF ParseExtract, Analyze, ProcessBegin, PurgeFails, Chunk, StageOneFails, GatherDone,
           Extract, Merge, ProcessFails, Busy, storage
  <2> QED BY <2>1, <2>2, WorkGotoRows
<1>5. CASE Purge(w)
  <2>1. Busy(w) /\ Goto(w, "chunk") /\ UNCHANGED <<control, row, unsaved, missed>> /\ Serves[w] = "process"
        /\ mem' = [mem EXCEPT ![item[w]].chunks = {}] /\ at[w] = "purge"
    BY <1>1, <1>5 DEF Purge, Busy, Labelled
  <2>2. \A e \in Docs : mem[e] \in [chunks: SUBSET ChunkIds, hashed: BOOLEAN]
    BY <1>1 DEF Stores
  <2>3. \A e \in Docs : mem'[e] = IF e = item[w] THEN [mem[e] EXCEPT !.chunks = {}] ELSE mem[e]
    BY <1>1, <2>1 DEF Stores
  <2>4. /\ \A e \in Docs : mem'[e].hashed = mem[e].hashed
        /\ \A e \in Docs \ {item[w]} : mem'[e] = mem[e]
    BY <2>2, <2>3
  <2> QED BY <2>1, <2>4, WorkGotoRows
<1>6. CASE WriteRow(w)
  <2>1. /\ Busy(w) /\ UNCHANGED <<control, mem, unsaved, missed, item, queues>> /\ Save(item[w], "PROCESSING", cut[w])
        /\ at[w] = "stage1" /\ at' = at
    BY <1>6 DEF WriteRow, Busy
  <2>2. at' = [at EXCEPT ![w] = "stage1"] /\ cut[w] \in SUBSET ChunkIds
    BY <1>1, <2>1 DEF Stores
  <2>3. "PROCESSING" \in RowStatuses \ {"absent"}
    BY DEF RowStatuses
  <2> QED BY <2>1, <2>2, <2>3, WorkSaveRows, ZenonT(40)
<1>7. CASE WriteChunks(w)
  <2>1. /\ Busy(w) /\ UNCHANGED <<control, row, mem, unsaved, missed, item, queues>>
        /\ at[w] = "stage1" /\ at' = at
    BY <1>7 DEF WriteChunks, Busy
  <2>2. Goto(w, "stage1")
    BY <1>1, <2>1 DEF Goto
  <2> QED BY <2>1, <2>2, WorkGotoRows
<1>8. CASE SaveProcessed(w)
  <2>1. /\ Busy(w) /\ UNCHANGED <<control, mem, unsaved, missed>> /\ Save(item[w], "PROCESSED", cut[w])
        /\ at' = [at EXCEPT ![w] = "flush"] /\ UNCHANGED <<item, queues>> /\ ~ParseStage(w)
    BY <1>1, <1>8 DEF SaveProcessed, Busy, Goto, Labelled
  <2>2. "PROCESSED" \in RowStatuses \ {"absent"} /\ cut[w] \in SUBSET ChunkIds
    BY <1>1 DEF RowStatuses, Stores
  <2> QED BY <2>1, <2>2, WorkSaveRows
<1>9. CASE ParsePatch(w)
  <2>1. /\ Busy(w) /\ UNCHANGED <<control, mem, unsaved, missed>> /\ at[w] = "patch" /\ Goto(w, "dup")
        /\ row' = [row EXCEPT ![item[w]].hashed = TRUE]
    BY <1>9 DEF ParsePatch, Busy
  <2>2. Stays /\ at'[w] = "dup"
    BY <1>1, <2>1 DEF Goto, Stays, queues, WorkerMove, Busy, OthersAt, control
  <2>3. /\ row'[item[w]].hashed = TRUE /\ row'[item[w]].status = row[item[w]].status
        /\ \A e \in Docs \ {item[w]} : row'[e] = row[e]
    <3>1. row[item[w]] \in Rows /\ row \in [Docs -> Rows] /\ item[w] \in Docs
      BY <1>1, <1>2, <2>1 DEF Stores
    <3>2. /\ row'[item[w]] = [row[item[w]] EXCEPT !.hashed = TRUE]
          /\ \A e \in Docs \ {item[w]} : row'[e] = row[e]
      BY <2>1, <3>1
    <3> QED BY <3>1, <3>2 DEF Rows
  <2>4. row[item[w]].status \notin {"absent", "PROCESSED"}
    BY <2>1, HolderRow
  <2>5. OnlyOwn(w) /\ Goes(w) /\ Quiet(w)
    BY <2>1, <2>2, <2>3, <2>4 DEF OnlyOwn, Goes, Quiet
  <2> QED BY <1>1, <2>1, <2>5, OwnKeepsRows, QuietKeeps DEF RowInv
<1> QED BY <1>3, <1>4, <1>5, <1>6, <1>7, <1>8, <1>9

LEMMA WorkRows ==
    ASSUME QInv, QInv', RowInv, NEW w \in Workers, Work(w)
    PROVE  RowInv'
<1>1. CASE Take(w)
  BY <1>1, TakeRows
<1>2. CASE SkipCancelled(w) \/ ParseMissing(w) \/ StageFails(w)
  <2>1. Busy(w) /\ FailInStage(w)
    BY <1>2 DEF SkipCancelled, ParseMissing, StageFails, Busy
  <2> QED BY <2>1, FailRows
<1>3. CASE DropDuplicate(w) \/ Flush(w) \/ Finalize(w)
  BY <1>3, LastRows
<1>4. CASE KeepUnique(w)
  BY <1>4, KeepUniqueRows
<1>5. CASE PutNext(w)
  <2>1. /\ WorkerMove(w) /\ HandsOver(w) /\ UNCHANGED <<row, mem, unsaved, missed>> /\ at[w] = "put"
        /\ at' = [at EXCEPT ![w] = "get"] /\ at \in [Workers -> Labels] /\ Busy(w)
    BY <1>5, PutNextMoves, QInvParts DEF storage, PutNext, Busy
  <2>2. OnlyOwn(w) /\ Passes(w)
    BY <2>1 DEF OnlyOwn, Passes
  <2>3. Quiet(w)
    BY <2>1 DEF Quiet, Cleared
  <2> QED BY <2>1, <2>2, <2>3, OwnKeepsRows, QuietKeeps DEF RowInv
<1>6. CASE \/ BeginStage(w) \/ ParseExtract(w) \/ ParsePatch(w) \/ Analyze(w) \/ ProcessBegin(w)
           \/ Purge(w) \/ PurgeFails(w) \/ Chunk(w) \/ WriteRow(w) \/ WriteChunks(w) \/ StageOneFails(w)
           \/ GatherDone(w) \/ Extract(w) \/ Merge(w) \/ ProcessFails(w) \/ SaveProcessed(w)
  BY <1>6, MidRows
<1> QED BY <1>1, <1>2, <1>3, <1>4, <1>5, <1>6 DEF Work

\* The owner's steps that leave every row, every place and every label.
LEMMA SamePlacesRows ==
    ASSUME RowInv, UNCHANGED <<row, mem, at, item>>,
           \A e \in Docs : Underway(e)' => Underway(e),
           \A e \in Docs : Cleared(e)' => Cleared(e),
           phase' # "fix" \/ UNCHANGED <<phase, batch>>,
           Settled'
    PROVE  RowInv'
<1>1. ASSUME NEW e \in Docs PROVE RowOK(e)'
  BY DEF RowInv, RowOK, Member
<1>2. FlushLast' /\ OneCleared'
  BY DEF RowInv, FlushLast, OneCleared
<1> QED BY <1>1, <1>2 DEF RowInv

LEMMA FeedRows ==
    ASSUME QInv, RowInv, Feed
    PROVE  RowInv'
<1> DEFINE h == Head(feed)
           n == EngineFor(Head(feed))
<1>1. UNCHANGED <<row, mem, at, item, phase, batch, unsaved, missed>>
  BY DEF Feed, storage, worker
<1>2. /\ n \in Engines /\ h \in Docs /\ Range(feed) = Range(feed)' \cup {h}
      /\ \A r \in Stages : Range(q[r])' = IF r = n THEN Range(q[r]) \cup {h} ELSE Range(q[r])
  BY FeedQueued, QInvParts DEF Stores
<1> HIDE DEF h, n
<1>3. \A e \in Docs : Underway(e)' <=> Underway(e)
  <2>1. ASSUME NEW e \in Docs
        PROVE  e \in Range(feed) \/ (\E r \in Stages : e \in Range(q[r]))
               <=> e \in Range(feed') \/ (\E r \in Stages : e \in Range(q'[r]))
    BY <1>2, StagesAre
  <2> QED BY <1>1, <2>1 DEF Underway
<1>4. \A e \in Docs : Cleared(e)' => Cleared(e)
  <2>1. Range(q["analyze"])' = Range(q["analyze"]) /\ Range(q["process"])' = Range(q["process"])
    BY <1>2, StagesAre
  <2> QED BY <1>1, <2>1 DEF Cleared, ParseStage
<1>5. Settled'
  <2>1. batch \subseteq Docs
    BY QInvParts DEF Driven
  <2> QED BY <1>1, <1>3, <2>1 DEF RowInv, Settled
<1> QED BY <1>1, <1>3, <1>4, <1>5, SamePlacesRows

\* The consistency check: what stays in the batch keeps a row with its hash.
LEMMA FixRows ==
    ASSUME QInv, RowInv, Fix
    PROVE  RowInv'
<1>1. /\ phase = "fix" /\ (\A w \in Workers : at[w] = "get") /\ (\A s \in Stages : q[s] = <<>>)
      /\ feed = <<>> /\ Queued
  BY QInvParts DEF Fix, PhaseOK
<1>2. /\ batch' \subseteq batch /\ Range(feed') = batch'
      /\ phase' = IF batch' = {} THEN "idle" ELSE "feed"
      /\ UNCHANGED <<mem, q, at, item, unsaved, missed>>
      /\ batch \subseteq Docs
  BY FixMoves, QInvParts DEF queues, worker, Driven
<1>3. \A d \in Docs : \/ row'[d] = row[d]
                      \/ d \in batch \ batch' /\ row'[d].status = "absent" /\ row'[d].hashed = FALSE
                      \/ d \in batch /\ row'[d] = [status |-> "PENDING", chunks |-> mem[d].chunks,
                                                   hashed |-> mem[d].hashed, dup |-> FALSE]
  BY FixMoves
<1>4. \A w \in Workers : item'[w] = NoDoc
  BY <1>1, <1>2 DEF Queued, Busy
<1>5. \A e \in Docs : e # NoDoc
  BY BatchAssumption
<1>6. \A e \in Docs : Underway(e)' <=> e \in batch'
  BY <1>1, <1>2, <1>4, <1>5, NothingInRange DEF Underway
<1>7. ASSUME NEW e \in Docs PROVE RowOK(e)'
  <2>1. CASE e \in batch'
    <3>1. /\ row[e].status # "absent" /\ (mem[e].hashed => row[e].hashed) /\ row[e].status # "PROCESSED"
      <4>1. RowOK(e) /\ Member(e)
        BY <1>1, <1>2, <2>1 DEF RowInv, Member
      <4> QED BY <1>1, <4>1 DEF RowOK
    <3>2. /\ row'[e].status \notin {"absent", "PROCESSED"} /\ (mem[e].hashed => row'[e].hashed)
      <4>1. CASE row'[e] = row[e]
        BY <3>1, <4>1
      <4>2. CASE row'[e] = [status |-> "PENDING", chunks |-> mem[e].chunks,
                            hashed |-> mem[e].hashed, dup |-> FALSE]
        BY <4>2
      <4> QED BY <1>3, <2>1, <4>1, <4>2
    <3> QED BY <1>2, <3>2 DEF RowOK
  <2>2. CASE e \notin batch'
    BY <1>2, <1>6, <2>2 DEF RowOK, Member
  <2> QED BY <2>1, <2>2
<1>8. FlushLast' /\ Settled'
  BY <1>1, <1>2, <1>6 DEF FlushLast, Settled
<1>9. ASSUME NEW e \in Docs, Cleared(e)' PROVE Cleared(e)
  <2>1. row'[e].status = "PROCESSED" /\ row'[e].hashed /\ e \notin missed
    BY <1>1, <1>2, <1>4, <1>5, <1>9, StagesAre, NothingInRange DEF Cleared
  <2>2. row'[e] = row[e]
    <3>1. ~(row'[e] = [status |-> "PENDING", chunks |-> mem[e].chunks,
                       hashed |-> mem[e].hashed, dup |-> FALSE])
      BY <2>1
    <3> QED BY <1>3, <2>1, <3>1
  <2> QED BY <2>1, <2>2 DEF Cleared
<1>10. OneCleared'
  BY <1>9 DEF RowInv, OneCleared
<1> QED BY <1>7, <1>8, <1>10 DEF RowInv

\* A pass begins: its documents are not PROCESSED, and memory holds their rows.
LEMMA StartRows ==
    ASSUME QInv, RowInv, Start
    PROVE  RowInv'
<1>1. /\ phase = "idle" /\ (\A w \in Workers : at[w] = "get") /\ (\A s \in Stages : q[s] = <<>>)
      /\ feed = <<>> /\ Queued
  BY QInvParts DEF Start, PhaseOK
<1>2. /\ batch' = InFlight /\ phase' = "fix"
      /\ mem' = [d \in Docs |-> [chunks |-> row[d].chunks, hashed |-> row[d].hashed]]
      /\ UNCHANGED <<row, feed, q, at, item, missed>>
  BY DEF Start, storage, queues, worker
<1>3. \A w \in Workers : item[w] = NoDoc
  BY <1>1 DEF Queued, Busy
<1>4. \A e \in Docs : e # NoDoc /\ mem'[e].hashed = row[e].hashed
  BY <1>2, BatchAssumption
<1>5. \A e \in Docs : ~Underway(e)'
  BY <1>1, <1>2, <1>3, <1>4, NothingInRange DEF Underway
<1>6. \A e \in Docs : RowOK(e)'
  BY <1>2, <1>4, <1>5 DEF RowOK, Member, InFlight
<1>7. FlushLast' /\ Settled'
  BY <1>1, <1>2 DEF FlushLast, Settled
<1>8. \A e \in Docs : Cleared(e)' => Cleared(e)
  BY <1>1, <1>2, <1>3, <1>4, StagesAre, NothingInRange DEF Cleared
<1> QED BY <1>6, <1>7, <1>8 DEF RowInv, OneCleared

\* The pass is over, or the process.
LEMMA StopRows ==
    ASSUME QInv, RowInv, JoinProcess \/ Crash
    PROVE  RowInv'
<1>1. /\ (\A w \in Workers : at'[w] = "get" /\ item'[w] = NoDoc) /\ (\A s \in Stages : q'[s] = <<>>)
      /\ feed' = <<>> /\ phase' = "idle" /\ UNCHANGED <<row, missed>>
  BY QInvParts DEF JoinProcess, Crash, StopWorkers, storage, PhaseOK
<1>2. \A e \in Docs : e # NoDoc
  BY BatchAssumption
<1>3. \A e \in Docs : ~Underway(e)'
  BY <1>1, <1>2, NothingInRange DEF Underway
<1>4. \A e \in Docs : RowOK(e)'
  BY <1>1, <1>3 DEF RowOK, Member
<1>5. FlushLast' /\ Settled'
  BY <1>1 DEF FlushLast, Settled
<1>6. \A e \in Docs : Cleared(e)' => Cleared(e)
  BY <1>1, <1>2, StagesAre, NothingInRange DEF Cleared
<1> QED BY <1>4, <1>5, <1>6 DEF RowInv, OneCleared

LEMMA RestRows ==
    ASSUME QInv, RowInv,
           LeaveCancelled \/ FixFails \/ JoinParse \/ JoinAnalyze \/ Cancel \/ UNCHANGED vars
    PROVE  RowInv'
<1>1. UNCHANGED <<row, mem, at, item, q, feed, unsaved, missed>>
  BY DEF LeaveCancelled, FixFails, JoinParse, JoinAnalyze, Cancel, vars, storage, queues, worker, control
<1>2. \A e \in Docs : (Underway(e)' <=> Underway(e)) /\ (Cleared(e)' <=> Cleared(e))
  BY <1>1 DEF Underway, Cleared, ParseStage
<1>3. phase' # "fix" \/ UNCHANGED <<phase, batch>>
  BY DEF LeaveCancelled, FixFails, JoinParse, JoinAnalyze, Cancel, vars, control
<1>4. Settled'
  <2>1. \/ phase' = "idle"
        \/ UNCHANGED batch /\ phase \in {"feed", "join_analyze", "join_process"}
        \/ UNCHANGED <<phase, batch>>
    BY DEF LeaveCancelled, FixFails, JoinParse, JoinAnalyze, Cancel, vars, control
  <2>2. batch \subseteq Docs
    BY QInvParts DEF Driven
  <2> QED BY <1>1, <1>2, <2>1, <2>2 DEF RowInv, Settled
<1> QED BY <1>1, <1>2, <1>3, <1>4, SamePlacesRows

LEMMA RowInvInit == Init => RowInv
<1> SUFFICES ASSUME Init PROVE RowInv
  OBVIOUS
<1>1. /\ \A w \in Workers : at[w] = "get" /\ item[w] = NoDoc
      /\ (\A s \in Stages : q[s] = <<>>) /\ feed = <<>> /\ phase = "idle"
      /\ \A d \in Docs : row[d].status = "PENDING" /\ d # NoDoc
  BY BatchAssumption DEF Init
<1>2. \A d \in Docs : ~Underway(d) /\ ~Cleared(d)
  BY <1>1, NothingInRange, StagesAre DEF Underway, Cleared
<1> QED BY <1>1, <1>2 DEF RowInv, RowOK, Member, FlushLast, Settled, OneCleared

LEMMA RowInvStep == QInv /\ QInv' /\ RowInv /\ [Next]_vars => RowInv'
<1> SUFFICES ASSUME QInv, QInv', RowInv, [Next]_vars PROVE RowInv'
  OBVIOUS
<1>1. ASSUME NEW w \in Workers, Work(w) PROVE RowInv'
  BY <1>1, WorkRows
<1> QED BY <1>1, FixRows, FeedRows, StopRows, StartRows, RestRows DEF Next, Owner

LEMMA RowInvHolds == Spec => []RowInv
<1>1. QInv /\ RowInv /\ [Next]_vars => RowInv'
  BY QInvStep, RowInvStep
<1> QED BY <1>1, RowInvInit, QInvHolds, PTL DEF Spec

\* For any documents and workers, whatever raises, is cancelled or crashes: of
\* two documents with the same content never both are PROCESSED with their hash
\* on record, unless the look for the other's hash failed for one of them.  Both
\* parsers may be at work at the same time; the row gets its hash before the
\* other rows are searched for it.
THEOREM HashesUniqueTheorem == Spec => []HashesUnique
<1>1. RowInv => HashesUnique
  BY DEF RowInv, OneCleared, Cleared, HashesUnique
<1> QED BY <1>1, RowInvHolds, PTL

\* A pass that runs to its end has brought every document of its batch to
\* PROCESSED or FAILED, except where writing the FAILED row itself raised.
THEOREM BatchSettlesTheorem == Spec => BatchSettles
<1>1. QInv /\ RowInv /\ JoinProcess =>
         \A d \in batch \ unsaved : row[d].status \in {"PROCESSED", "FAILED"}
  <2> SUFFICES ASSUME QInv, RowInv, JoinProcess, NEW d \in batch \ unsaved
               PROVE  row[d].status \in {"PROCESSED", "FAILED"}
    OBVIOUS
  <2>1. phase = "join_process" /\ unfinished["process"] = 0
    BY DEF JoinProcess
  <2>2. d \in Docs /\ d # NoDoc
    BY QInvParts, BatchAssumption DEF Driven
  <2>3. ~Underway(d)
    BY <2>1, <2>2, NothingLeft, NothingInRange DEF Underway
  <2> QED BY <2>1, <2>3 DEF RowInv, Settled
<1>2. QInv /\ RowInv => [JoinProcess => \A d \in batch \ unsaved :
                                            row[d].status \in {"PROCESSED", "FAILED"}]_vars
  BY <1>1
<1> QED BY <1>2, QInvHolds, RowInvHolds, PTL DEF BatchSettles

-----------------------------------------------------------------------------
(* The chunks of PROCESSED rows, where the stores do not buffer.            *)

Late(w) == \/ at[w] \in {"extract", "merge", "save", "flush"}
           \/ at[w] = "stage1" /\ "chunks" \notin writes[w]

Complete == ProcessedComplete /\ ChunksStored

\* A step of a worker at its own document.
OwnSafe(w) ==
    LET d == item[w] IN
    /\ \A e \in Docs \ {d} : row'[e] = row[e] /\ stored'[e] = stored[e]
    /\ \A v \in Workers \ {w} : cut'[v] = cut[v] /\ writes'[v] = writes[v]
    /\ row'[d].status = "PROCESSED" => row'[d].chunks \subseteq stored'[d]
    /\ Late(w)' => item'[w] = d /\ cut'[w] \subseteq stored'[d]

LEMMA OwnComplete ==
    ASSUME QInv, Complete, NEW w \in Workers, WorkerMove(w), Busy(w), OwnSafe(w)
    PROVE  Complete'
<1>0. PICK d \in Docs : d = item[w]
  BY HolderOnly
<1>1. ASSUME NEW e \in Docs, row'[e].status = "PROCESSED" PROVE row'[e].chunks \subseteq stored'[e]
  BY <1>0, <1>1 DEF OwnSafe, Complete, ProcessedComplete
<1>2. ASSUME NEW v \in Workers, Late(v)' PROVE cut'[v] \subseteq stored'[item'[v]]
  <2>1. CASE v = w
    BY <1>2, <2>1 DEF OwnSafe
  <2>2. CASE v # w
    <3>1. at'[v] = at[v] /\ cut'[v] = cut[v] /\ writes'[v] = writes[v]
      BY <2>2 DEF WorkerMove, OthersAt, OwnSafe
    <3>2. Late(v) /\ Busy(v)
      BY <1>2, <3>1 DEF Late, Busy
    <3>3. item[v] \in Docs /\ item[v] # item[w]
      BY <2>2, <3>2, HolderOnly
    <3>4. item'[v] = item[v]
      BY <3>3, OthersStay
    <3>5. cut[v] \subseteq stored[item[v]]
      BY <3>2 DEF Late, Complete, ChunksStored
    <3> QED BY <3>1, <3>3, <3>4, <3>5 DEF OwnSafe
  <2> QED BY <2>1, <2>2
<1> QED BY <1>1, <1>2 DEF Complete, ProcessedComplete, ChunksStored, Late

\* Steps that leave the stores and the cut; a PROCESSED row is one that was.
LEMMA LooksComplete ==
    ASSUME QInv, Complete, NEW w \in Workers, WorkerMove(w), Busy(w),
           UNCHANGED <<stored, cut, writes>>,
           \A e \in Docs \ {item[w]} : row'[e] = row[e],
           row'[item[w]].status = "PROCESSED" =>
              row[item[w]].status = "PROCESSED" /\ row'[item[w]].chunks = row[item[w]].chunks,
           Late(w)' => Late(w) /\ item'[w] = item[w]
    PROVE  Complete'
<1>1. item[w] \in Docs
  BY HolderOnly
<1>2. row'[item[w]].status = "PROCESSED" => row'[item[w]].chunks \subseteq stored'[item[w]]
  BY <1>1 DEF Complete, ProcessedComplete
<1>3. Late(w)' => item'[w] = item[w] /\ cut'[w] \subseteq stored'[item[w]]
  BY DEF Complete, ChunksStored, Late
<1>4. OwnSafe(w)
  BY <1>2, <1>3 DEF OwnSafe
<1> QED BY <1>4, OwnComplete

\* What a worker writes of its row.
LEMMA SaveOwn ==
    ASSUME QInv, NEW w \in Workers, Busy(w), NEW st \in RowStatuses, NEW c \in SUBSET ChunkIds,
           Save(item[w], st, c)
    PROVE  /\ row'[item[w]].status = st /\ row'[item[w]].chunks = c
           /\ \A e \in Docs \ {item[w]} : row'[e] = row[e]
<1>1. item[w] \in Docs /\ Stores
  BY HolderOnly, QInvParts
<1>2. /\ row'[item[w]] = [status |-> st, chunks |-> c, hashed |-> mem[item[w]].hashed, dup |-> FALSE]
      /\ \A e \in Docs \ {item[w]} : row'[e] = row[e]
  BY <1>1, SaveTyped
<1> QED BY <1>2

\* The parse and analyze stages write no chunks and mark nothing PROCESSED.
LEMMA EarlyComplete ==
    ASSUME QInv, RowInv, Complete, NEW w \in Workers, Work(w),
           \/ SkipCancelled(w) \/ ParseMissing(w) \/ BeginStage(w) \/ StageFails(w) \/ ParseExtract(w)
           \/ ParsePatch(w) \/ DropDuplicate(w) \/ KeepUnique(w) \/ Analyze(w) \/ PutNext(w)
    PROVE  Complete'
<1>1. /\ WorkerMove(w) /\ at \in [Workers -> Labels] /\ Stores
      /\ Labelled(w) /\ Busy(w) /\ item[w] \in Docs
  BY WorkMoves, QInvParts, HolderOnly DEF Busy, SkipCancelled, ParseMissing, BeginStage, StageFails,
     ParseExtract, ParsePatch, DropDuplicate, KeepUnique, Analyze, PutNext
<1>2. UNCHANGED <<stored, cut, writes>>
  BY DEF SkipCancelled, ParseMissing, BeginStage, StageFails, FailInStage,
     ParseExtract, ParsePatch, DropDuplicate, KeepUnique, Analyze, PutNext, storage
<1>3. ~Late(w)'
  BY <1>1 DEF Late, SkipCancelled, ParseMissing, BeginStage, StageFails, FailInStage, Goto, TaskDone,
     ParseExtract, ParsePatch, DropDuplicate, KeepUnique, Analyze, PutNext
<1>4. /\ \A e \in Docs \ {item[w]} : row'[e] = row[e]
      /\ row'[item[w]].status = "PROCESSED" =>
              row[item[w]].status = "PROCESSED" /\ row'[item[w]].chunks = row[item[w]].chunks
  <2>0. PICK none \in SUBSET ChunkIds : none = {}
    OBVIOUS
  <2>1. CASE FailInStage(w)
    <3>1. "FAILED" \in RowStatuses
      BY DEF RowStatuses
    <3>2. CASE Save(item[w], "FAILED", none)
      BY <1>1, <3>1, <3>2, SaveOwn
    <3>3. CASE row' = row
      BY <3>3
    <3> QED BY <2>0, <2>1, <3>2, <3>3 DEF FailInStage
  <2>2. CASE BeginStage(w)
    <3>1. "PARSING" \in RowStatuses /\ "ANALYZING" \in RowStatuses
      BY DEF RowStatuses
    <3>2. CASE Save(item[w], "PARSING", none)
      BY <1>1, <3>1, <3>2, SaveOwn
    <3>3. CASE Save(item[w], "ANALYZING", none)
      BY <1>1, <3>1, <3>3, SaveOwn
    <3> QED BY <2>0, <2>2, <3>2, <3>3 DEF BeginStage
  <2>3. CASE ParsePatch(w)
    <3>1. row[item[w]] \in Rows /\ row \in [Docs -> Rows]
      BY <1>1 DEF Stores
    <3>2. /\ row'[item[w]] = [row[item[w]] EXCEPT !.hashed = TRUE]
          /\ \A e \in Docs \ {item[w]} : row'[e] = row[e]
      BY <1>1, <2>3, <3>1 DEF ParsePatch
    <3> QED BY <3>1, <3>2 DEF Rows
  <2>4. CASE DropDuplicate(w)
    <3>1. /\ row'[item[w]] = [status |-> "FAILED", chunks |-> {}, hashed |-> TRUE, dup |-> TRUE]
          /\ \A e \in Docs \ {item[w]} : row'[e] = row[e]
      BY <1>1, <2>4 DEF DropDuplicate, Stores
    <3> QED BY <3>1
  <2>5. CASE ParseExtract(w) \/ KeepUnique(w) \/ Analyze(w) \/ PutNext(w)
    BY <2>5 DEF ParseExtract, KeepUnique, Analyze, PutNext, storage
  <2> QED BY <2>1, <2>2, <2>3, <2>4, <2>5 DEF SkipCancelled, ParseMissing, StageFails
<1> QED BY <1>1, <1>2, <1>3, <1>4, LooksComplete

\* A document's own worker: what it purges belongs to no PROCESSED row, and the
\* row that says PROCESSED lists what stage 1 has stored.
LEMMA ProcessComplete ==
    ASSUME QInv, RowInv, Complete, NEW w \in Workers, Work(w),
           \/ ProcessBegin(w) \/ Purge(w) \/ PurgeFails(w) \/ Chunk(w) \/ WriteRow(w) \/ WriteChunks(w)
           \/ StageOneFails(w) \/ GatherDone(w) \/ Extract(w) \/ Merge(w) \/ ProcessFails(w)
           \/ SaveProcessed(w) \/ Flush(w) \/ Finalize(w)
    PROVE  Complete'
<1>1. /\ WorkerMove(w) /\ at \in [Workers -> Labels] /\ Stores
      /\ Busy(w) /\ item[w] \in Docs
  BY WorkMoves, QInvParts, HolderOnly DEF Busy, ProcessBegin, Purge, PurgeFails, Chunk, WriteRow, WriteChunks,
     StageOneFails, GatherDone, Extract, Merge, ProcessFails, SaveProcessed, Flush, Finalize
<1>2. row[item[w]].status = "PROCESSED" => at[w] \in {"flush", "fail"}
  BY <1>1, HolderRow
<1>3. row[item[w]].status = "PROCESSED" => row[item[w]].chunks \subseteq stored[item[w]]
  BY <1>1 DEF Complete, ProcessedComplete
<1>4. Late(w) => cut[w] \subseteq stored[item[w]]
  BY DEF Complete, ChunksStored, Late
<1>5. CASE GatherDone(w) \/ Extract(w) \/ Merge(w) \/ ProcessFails(w)
  <2>1. /\ UNCHANGED <<row, stored, cut, writes, item>>
        /\ Late(w)' => Late(w)
    BY <1>1, <1>5 DEF GatherDone, Extract, Merge, ProcessFails, Goto, Late, storage
  <2> QED BY <1>1, <2>1, LooksComplete
<1>6. CASE ProcessBegin(w) \/ Chunk(w)
  <2>1. UNCHANGED <<row, stored>> /\ ~Late(w)'
    BY <1>1, <1>6 DEF ProcessBegin, Chunk, Goto, Late, storage, Stores
  <2>2. \A v \in Workers \ {w} : cut'[v] = cut[v] /\ writes'[v] = writes[v]
    BY <1>1, <1>6 DEF ProcessBegin, Chunk, Stores
  <2> QED BY <1>1, <1>3, <2>1, <2>2, OwnComplete DEF OwnSafe
<1>7. CASE Purge(w) \/ PurgeFails(w)
  <2>1. UNCHANGED <<row, cut, writes>> /\ ~Late(w)' /\ row[item[w]].status # "PROCESSED"
    BY <1>1, <1>2, <1>7 DEF Purge, PurgeFails, Goto, Late
  <2>2. \A e \in Docs \ {item[w]} : stored'[e] = stored[e]
    BY <1>1, <1>7 DEF Purge, PurgeFails, Stores
  <2> QED BY <1>1, <2>1, <2>2, OwnComplete DEF OwnSafe
<1>8. CASE WriteRow(w)
  <2>1. /\ UNCHANGED <<stored, cut, item, at>> /\ Save(item[w], "PROCESSING", cut[w])
        /\ writes' = [writes EXCEPT ![w] = @ \ {"row"}]
    BY <1>8 DEF WriteRow
  <2>2. "PROCESSING" \in RowStatuses /\ cut[w] \in SUBSET ChunkIds
    BY <1>1 DEF RowStatuses, Stores
  <2>3. row'[item[w]].status = "PROCESSING" /\ \A e \in Docs \ {item[w]} : row'[e] = row[e]
    BY <1>1, <2>1, <2>2, SaveOwn
  <2>4. Late(w)' => Late(w)
    BY <1>1, <2>1 DEF Late, Stores
  <2>5. \A v \in Workers \ {w} : writes'[v] = writes[v]
    BY <1>1, <2>1 DEF Stores
  <2> QED BY <1>1, <1>4, <2>1, <2>3, <2>4, <2>5, OwnComplete DEF OwnSafe
<1>9. CASE WriteChunks(w) \/ StageOneFails(w)
  <2>1. PICK part \in SUBSET cut[w] :
          /\ stored' = [stored EXCEPT ![item[w]] = @ \cup part]
          /\ UNCHANGED <<row, cut, item>>
          /\ Late(w)' => part = cut[w]
    <3>1. CASE WriteChunks(w)
      BY <3>1 DEF WriteChunks
    <3>2. CASE StageOneFails(w)
      BY <1>1, <3>2 DEF StageOneFails, Goto, Late
    <3> QED BY <1>9, <3>1, <3>2
  <2>2. \A v \in Workers \ {w} : writes'[v] = writes[v]
    BY <1>1, <1>9 DEF WriteChunks, StageOneFails, Stores
  <2>3. \A e \in Docs : stored'[e] = IF e = item[w] THEN stored[e] \cup part ELSE stored[e]
    BY <1>1, <2>1 DEF Stores
  <2> QED BY <1>1, <1>3, <2>1, <2>2, <2>3, OwnComplete DEF OwnSafe
<1>10. CASE SaveProcessed(w)
  <2>1. /\ UNCHANGED <<stored, cut, writes, item>> /\ Save(item[w], "PROCESSED", cut[w]) /\ Late(w)
    BY <1>10 DEF SaveProcessed, Goto, Late
  <2>2. "PROCESSED" \in RowStatuses /\ cut[w] \in SUBSET ChunkIds
    BY <1>1 DEF RowStatuses, Stores
  <2>3. row'[item[w]].chunks = cut[w] /\ \A e \in Docs \ {item[w]} : row'[e] = row[e]
    BY <1>1, <2>1, <2>2, SaveOwn
  <2> QED BY <1>1, <1>4, <2>1, <2>3, OwnComplete DEF OwnSafe
<1>11. CASE Flush(w)
  <2>1. UNCHANGED <<row, stored, cut, writes>> /\ ~Late(w)'
    BY <1>1, <1>11 DEF Flush, TaskDone, Late
  <2> QED BY <1>1, <2>1, LooksComplete
<1>12. CASE Finalize(w)
  <2> DEFINE c == IF cut[w] # {} THEN cut[w] ELSE mem[item[w]].chunks
  <2>1. UNCHANGED <<stored, cut, writes>> /\ ~Late(w)' /\ (Save(item[w], "FAILED", c) \/ row' = row)
    BY <1>1, <1>12 DEF Finalize, TaskDone, Late
  <2>2. c \in SUBSET ChunkIds /\ "FAILED" \in RowStatuses
    <3>1. mem[item[w]].chunks \in SUBSET ChunkIds /\ cut[w] \in SUBSET ChunkIds
      BY <1>1 DEF Stores
    <3> QED BY <3>1 DEF RowStatuses
  <2> HIDE DEF c
  <2>3. CASE Save(item[w], "FAILED", c)
    <3>1. row'[item[w]].status = "FAILED" /\ \A e \in Docs \ {item[w]} : row'[e] = row[e]
      BY <1>1, <2>2, <2>3, SaveOwn
    <3> QED BY <1>1, <2>1, <3>1, LooksComplete
  <2>4. CASE row' = row
    BY <1>1, <2>1, <2>4, LooksComplete
  <2> QED BY <2>1, <2>3, <2>4
<1> QED BY <1>5, <1>6, <1>7, <1>8, <1>9, <1>10, <1>11, <1>12

LEMMA CompleteInit == Init => Complete
BY DEF Init, Complete, ProcessedComplete, ChunksStored

LEMMA CompleteStep == ~Buffered /\ QInv /\ RowInv /\ Complete /\ [Next]_vars => Complete'
<1> SUFFICES ASSUME ~Buffered, QInv, RowInv, Complete, [Next]_vars PROVE Complete'
  OBVIOUS
<1>1. ASSUME NEW w \in Workers, Work(w) PROVE Complete'
  <2>1. CASE Take(w)
    <3>1. /\ at[w] = "get" /\ at' = [at EXCEPT ![w] = "check"]
          /\ item' = [item EXCEPT ![w] = Head(q[Serves[w]])]
          /\ UNCHANGED <<row, stored, cut, writes>>
      BY <2>1 DEF Take, storage
    <3>2. at \in [Workers -> Labels] /\ item \in [Workers -> Docs \cup {NoDoc}]
      BY QInvParts DEF Queued
    <3>3. ASSUME NEW v \in Workers, Late(v)' PROVE cut'[v] \subseteq stored'[item'[v]]
      <4>1. v # w
        BY <3>1, <3>2, <3>3 DEF Late
      <4> QED BY <3>1, <3>2, <3>3, <4>1 DEF Late, Complete, ChunksStored
    <3> QED BY <3>1, <3>3 DEF Complete, ProcessedComplete, ChunksStored, Late
  <2> QED BY <1>1, <2>1, EarlyComplete, ProcessComplete DEF Work
<1>2. CASE Fix
  <2>1. /\ \A d \in Docs : row'[d] = row[d] \/ row'[d].status # "PROCESSED"
        /\ UNCHANGED <<stored, at, item, cut, writes>>
    <3>1. \A d \in Docs : \/ row'[d] = row[d]
                          \/ d \in batch \ batch' /\ row'[d].status = "absent" /\ row'[d].hashed = FALSE
                          \/ row'[d] = [status |-> "PENDING", chunks |-> mem[d].chunks,
                                        hashed |-> mem[d].hashed, dup |-> FALSE]
      BY <1>2, FixMoves
    <3>2. UNCHANGED <<stored, at, item, cut, writes>>
      BY <1>2 DEF Fix, worker
    <3>3. ASSUME NEW d \in Docs PROVE row'[d] = row[d] \/ row'[d].status # "PROCESSED"
      <4>1. CASE row'[d] = [status |-> "PENDING", chunks |-> mem[d].chunks,
                            hashed |-> mem[d].hashed, dup |-> FALSE]
        <5>1. row'[d].status = "PENDING"
          BY <4>1
        <5> QED BY <5>1
      <4>2. CASE row'[d] = row[d] \/ row'[d].status = "absent"
        BY <4>2
      <4> QED BY <3>1, <4>1, <4>2
    <3> QED BY <3>2, <3>3
  <2> QED BY <2>1 DEF Complete, ProcessedComplete, ChunksStored
<1>3. CASE JoinProcess \/ Crash
  <2>1. UNCHANGED <<row, stored>> /\ \A w \in Workers : at'[w] = "get"
    BY <1>3 DEF JoinProcess, Crash, StopWorkers, storage
  <2> QED BY <2>1 DEF Complete, ProcessedComplete, ChunksStored
<1>4. CASE \/ LeaveCancelled \/ FixFails \/ Feed \/ JoinParse \/ JoinAnalyze \/ Start \/ Cancel
           \/ UNCHANGED vars
  <2>1. UNCHANGED <<row, stored, at, item, cut, writes>>
    BY <1>4 DEF LeaveCancelled, FixFails, Feed, JoinParse, JoinAnalyze, Start, Cancel, vars, storage, worker
  <2> QED BY <2>1 DEF Complete, ProcessedComplete, ChunksStored
<1> QED BY <1>1, <1>2, <1>3, <1>4 DEF Next, Owner

\* With stores that write through (the databases), a PROCESSED row lists only
\* chunks that are stored, for any number of chunks, workers, passes and
\* crashes: a retry purges an earlier attempt before it stores its own, partly
\* failed writes never lead to PROCESSED, and no worker touches the chunks of a
\* document that another one holds.  Stores that keep writes in memory until a
\* flush lose them in a crash after the row was written.
THEOREM ProcessedCompleteTheorem ==
    ASSUME ~Buffered
    PROVE  Spec => []ProcessedComplete
<1>1. QInv /\ RowInv /\ Complete /\ [Next]_vars => Complete'
  BY CompleteStep
<1>2. Complete => ProcessedComplete
  BY DEF Complete
<1> QED BY <1>1, <1>2, CompleteInit, QInvHolds, RowInvHolds, PTL DEF Spec
=============================================================================
