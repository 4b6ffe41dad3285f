------------------------- MODULE JobsAndEditsProofs -------------------------
(***************************************************************************)
(* Theorems about the two places where work is asked for and then done     *)
(* piece by piece: the job queue (JobQueue), and the edits by hand of the  *)
(* graph (GraphEdit).  The two have nothing in common but this file; the   *)
(* parts of GraphEdit therefore have names of their own (EditInit,         *)
(* EditNext, EditTypeOK), and the queue comes first.                       *)
(*                                                                         *)
(* The job queue, for any jobs, workers and processes: the invariant of    *)
(* the queue and of `busy`, and that no document is forgotten before       *)
(* something crashes or raises.  A document may be left to three keepers:  *)
(* the queue, while its entry is to be delivered or acknowledged; a run    *)
(* that has read its row; and a run that has been told to look again.  The *)
(* entry is acknowledged when a coroutine has nothing more to do for its   *)
(* job, so what is to be shown is that by then one of the runs has the     *)
(* document, or it is finished.                                            *)
(*                                                                         *)
(* The graph, for any names, tasks and tracked chunks: what has no element *)
(* in the graph has no vector and no record either, unless a failed write  *)
(* or an edit at work excuses it.  A request is turned into a plan of      *)
(* writes, stage after stage, and what is shown of a plan is where it ends *)
(* and what it passes through: see the second part.                        *)
(***************************************************************************)
EXTENDS JobQueue, GraphEdit, FiniteSetTheorems, SequenceTheorems, TLAPS

-----------------------------------------------------------------------------
(* Part one: the job queue.  The inductive invariant.                       *)

\* Where a coroutine is and what it has in hand.
HandOK(w) ==
    /\ pc[w] = "idle" <=> batch[w] = <<>>
    /\ \A n \in 1..Len(batch[w]) : batch[w][n] \in stored
    /\ taken[w] \subseteq stored
    /\ taken[w] # {} => pc[w] = "run"

\* A run is the one `busy` names, and has its job's document or has treated it.
RunOK(w) ==
    pc[w] = "run" =>
        /\ running[ProcOf[w]][Space(w)] = w
        /\ Job(w) \in done \cup taken[w]

\* A run has the document, or has been told to look again.
Held(j) ==
    \/ \E w \in Workers : j \in taken[w]
    \/ \E p \in Procs : running[p][WorkspaceOf[j]] # Null /\ nudged[p][WorkspaceOf[j]]

Undelivered(j) == \E n \in (delivered + 1)..Len(stream) : stream[n] = j

\* The keepers, and what makes an acknowledgement safe.
EntriesKept == \A j \in Pushed \ done : j \in pel \/ Undelivered(j) \/ Held(j)
AcksSafe == \A w \in Workers : pc[w] = "ack" => Job(w) \in done \/ Held(Job(w))

IInv ==
    /\ TypeOK
    /\ \A w \in Workers : HandOK(w) /\ RunOK(w)
    /\ troubles = 0 => EntriesKept /\ AcksSafe

-----------------------------------------------------------------------------
(* What the operators of the model return.                                 *)

LEMMA Places ==
    /\ \A w \in Workers : ProcOf[w] \in Procs
    /\ \A j \in Jobs : WorkspaceOf[j] \in Workspaces
BY DEF Procs, Workspaces

\* The jobs that are on the stream.
LEMMA PushedJobs ==
    ASSUME stream \in Seq(Jobs)
    PROVE  /\ \A n \in 1..Len(stream) : stream[n] \in Pushed /\ stream[n] \in Jobs
           /\ \A j \in Pushed : \E n \in 1..Len(stream) : stream[n] = j
<1>1. DOMAIN stream = 1..Len(stream) OBVIOUS
<1> QED BY <1>1 DEF Pushed, Range

LEMMA PushedGrows ==
    ASSUME stream \in Seq(Jobs), NEW j \in Jobs, stream' = Append(stream, j)
    PROVE  /\ stream' \in Seq(Jobs)
           /\ Len(stream') = Len(stream) + 1
           /\ \A n \in 1..Len(stream) : stream'[n] = stream[n]
           /\ stream'[Len(stream) + 1] = j
           /\ Pushed' = Pushed \cup {j}
<1>1. /\ stream' \in Seq(Jobs) /\ Len(stream') = Len(stream) + 1
      /\ \A n \in 1..Len(stream) : stream'[n] = stream[n]
      /\ stream'[Len(stream) + 1] = j
  OBVIOUS
<1>2. DOMAIN stream = 1..Len(stream) /\ DOMAIN stream' = 1..Len(stream')
  BY <1>1
<1>3. Pushed = {stream[n] : n \in 1..Len(stream)}
  BY <1>2 DEF Pushed, Range
<1>4. Pushed' = {stream'[n] : n \in 1..Len(stream')}
  BY <1>2 DEF Pushed, Range
<1>5. ASSUME NEW k \in Pushed' PROVE k \in Pushed \cup {j}
  <2>1. PICK n \in 1..Len(stream') : stream'[n] = k BY <1>4
  <2>2. n \in 1..Len(stream) \/ n = Len(stream) + 1 BY <1>1
  <2> QED BY <2>1, <2>2, <1>1, <1>3
<1>6. ASSUME NEW k \in Pushed PROVE k \in Pushed'
  <2>1. PICK n \in 1..Len(stream) : stream[n] = k BY <1>3
  <2>2. n \in 1..Len(stream') /\ stream'[n] = k BY <2>1, <1>1
  <2> QED BY <2>2, <1>4
<1>7. j \in Pushed'
  <2>1. Len(stream) + 1 \in 1..Len(stream') BY <1>1
  <2> QED BY <2>1, <1>1, <1>4
<1> QED BY <1>1, <1>5, <1>6, <1>7

\* A coroutine past `idle` has a job in hand, whose row is stored.
LEMMA InHand ==
    ASSUME TypeOK, NEW w \in Workers, HandOK(w), pc[w] # "idle"
    PROVE  /\ batch[w] \in Seq(Jobs) /\ Len(batch[w]) \in Nat \ {0}
           /\ Job(w) = batch[w][1]
           /\ Job(w) \in stored /\ Job(w) \in Jobs
           /\ Space(w) \in Workspaces /\ ProcOf[w] \in Procs
<1>1. batch[w] \in Seq(Jobs) /\ batch[w] # <<>> BY DEF TypeOK, HandOK
<1>2. Len(batch[w]) \in Nat \ {0} /\ Job(w) = batch[w][1] BY <1>1 DEF Job
<1>3. 1 \in 1..Len(batch[w]) BY <1>2
<1>4. Job(w) \in stored BY <1>2, <1>3 DEF HandOK
<1>5. Job(w) \in Jobs BY <1>4 DEF TypeOK
<1> QED BY <1>1, <1>2, <1>4, <1>5, Places DEF Space

\* A claim hands over some of the entries that are overdue.
LEMMA ClaimedJobs ==
    ASSUME TypeOK, NEW jobs \in SetToSeqs(First), Claimed(jobs)
    PROVE  /\ jobs \in Seq(Jobs) /\ jobs # <<>>
           /\ \A n \in 1..Len(jobs) : jobs[n] \in overdue
<1>1. First \subseteq overdue /\ overdue \subseteq Jobs
  <2>1. overdue \subseteq stored BY DEF TypeOK
  <2> QED BY <2>1 DEF First, TypeOK
<1>2. IsFiniteSet(First)
  BY <1>1, FS_Subset, QueueAssumption
<1>3. PICK c \in Nat : Cardinality(First) = c
  BY <1>2, FS_CardinalityType
<1>4. jobs \in [1..c -> First]
  BY <1>3 DEF SetToSeqs
<1>5. jobs \in Seq(First) /\ Len(jobs) = c
  BY <1>4
<1> QED BY <1>1, <1>4, <1>5 DEF Claimed

-----------------------------------------------------------------------------
(* Types.                                                                  *)

LEMMA TypeInit == Init => TypeOK
<1> SUFFICES ASSUME Init PROVE TypeOK OBVIOUS
<1> USE DEF Init
<1>1. stream \in Seq(Jobs) /\ Len(stream) = 0 OBVIOUS
<1>2. Pushed = {} BY DEF Pushed, Range
<1>3. batch \in [Workers -> Seq(Jobs)] OBVIOUS
<1>4. troubles \in 0..MaxTroubles BY QueueAssumption
<1> QED BY <1>1, <1>2, <1>3, <1>4 DEF TypeOK

\* The rows and entries stay well typed.
LEMMA QueueTypes ==
    ASSUME IInv, [Next]_vars
    PROVE  /\ stored' \subseteq Jobs /\ done' \subseteq stored'
           /\ stored \subseteq stored' /\ done \subseteq done'
           /\ Pushed' \subseteq stored'
           /\ stream' \in Seq(Jobs) /\ delivered' \in 0..Len(stream')
           /\ overdue' \subseteq pel' /\ pel' \subseteq Pushed'
           /\ troubles' \in 0..MaxTroubles
<1> USE DEF redis, worker, run
<1> DEFINE Goal == /\ stored' \subseteq Jobs /\ done' \subseteq stored'
                   /\ stored \subseteq stored' /\ done \subseteq done'
                   /\ Pushed' \subseteq stored'
                   /\ stream' \in Seq(Jobs) /\ delivered' \in 0..Len(stream')
                   /\ overdue' \subseteq pel' /\ pel' \subseteq Pushed'
                   /\ troubles' \in 0..MaxTroubles
<1> USE DEF IInv
<1>a. stream' = stream => Pushed' = Pushed BY DEF Pushed
<1>1. ASSUME NEW j \in Jobs, Store(j) PROVE Goal
  BY <1>1, <1>a DEF Store, TypeOK
<1>2. ASSUME NEW j \in Jobs, Push(j) PROVE Goal
  <2>1. stream \in Seq(Jobs) /\ stream' = Append(stream, j) BY <1>2 DEF Push, TypeOK
  <2>2. Pushed' = Pushed \cup {j} /\ stream' \in Seq(Jobs) /\ Len(stream') = Len(stream) + 1
    BY <2>1, PushedGrows
  <2>3. delivered' \in 0..Len(stream')
    <3>1. delivered' \in 0..Len(stream) BY <1>2 DEF Push, TypeOK
    <3>2. Len(stream) \in Nat BY <2>1
    <3> QED BY <3>1, <3>2, <2>2
  <2> QED BY <1>2, <2>2, <2>3 DEF Push, TypeOK
<1>3. ASSUME NEW j \in Jobs, Overdue(j) PROVE Goal
  BY <1>3, <1>a DEF Overdue, TypeOK
<1>4. ASSUME NEW w \in Workers, Reclaim(w) PROVE Goal
  BY <1>4, <1>a DEF Reclaim, TypeOK
<1>5. ASSUME NEW w \in Workers, Pop(w) PROVE Goal
  <2>1. delivered + 1 \in 1..Len(stream) BY <1>5 DEF Pop, TypeOK
  <2>2. stream[delivered + 1] \in Pushed BY <2>1, PushedJobs DEF TypeOK
  <2>3. delivered' \in 0..Len(stream') BY <2>1, <1>5 DEF Pop
  <2> QED BY <1>5, <1>a, <2>2, <2>3 DEF Pop, TypeOK
<1>6. ASSUME NEW w \in Workers, Handle(w) PROVE Goal
  <2>1. CASE StartRun(w) BY <2>1, <1>a DEF StartRun, TypeOK
  <2>2. CASE NothingToRun(w) BY <2>2, <1>a DEF NothingToRun, TypeOK
  <2>3. CASE Collapse(w) BY <2>3, <1>a DEF Collapse, TypeOK
  <2>4. CASE Treat(w)
    <3>1. taken[w] \subseteq stored BY DEF HandOK
    <3>2. done' \subseteq stored BY <2>4, <3>1 DEF Treat, TypeOK
    <3> QED BY <2>4, <1>a, <3>2 DEF Treat, TypeOK
  <2>5. CASE LookAgain(w) BY <2>5, <1>a DEF LookAgain, TypeOK
  <2>6. CASE FinishRun(w) BY <2>6, <1>a DEF FinishRun, TypeOK
  <2>7. CASE Ack(w) BY <2>7, <1>a DEF Ack, TypeOK
  <2> QED BY <1>6, <2>1, <2>2, <2>3, <2>4, <2>5, <2>6, <2>7 DEF Handle
<1>7. ASSUME NEW w \in Workers, RunRaises(w) PROVE Goal
  <2>1. troubles' \in 0..MaxTroubles
    BY <1>7, QueueAssumption DEF RunRaises, Trouble, TypeOK
  <2> QED BY <1>7, <1>a, <2>1 DEF RunRaises, TypeOK
<1>8. ASSUME NEW p \in Procs, Crash(p) PROVE Goal
  <2>1. troubles' \in 0..MaxTroubles
    BY <1>8, QueueAssumption DEF Crash, Trouble, TypeOK
  <2> QED BY <1>8, <1>a, <2>1 DEF Crash, TypeOK
<1>9. CASE UNCHANGED vars
  BY <1>9, <1>a DEF vars, TypeOK
<1> QED BY <1>1, <1>2, <1>3, <1>4, <1>5, <1>6, <1>7, <1>8, <1>9 DEF Next

\* What the coroutines have, and the flags.
LEMMA RunTypes ==
    ASSUME IInv, [Next]_vars
    PROVE  /\ pc' \in [Workers -> {"idle", "job", "run", "ack"}]
           /\ batch' \in [Workers -> Seq(Jobs)]
           /\ taken' \in [Workers -> SUBSET Jobs]
           /\ running' \in [Procs -> [Workspaces -> Workers \cup {Null}]]
           /\ nudged' \in [Procs -> [Workspaces -> BOOLEAN]]
<1> USE DEF redis, worker, run, Goto
<1> DEFINE Goal == /\ pc' \in [Workers -> {"idle", "job", "run", "ack"}]
                   /\ batch' \in [Workers -> Seq(Jobs)]
                   /\ taken' \in [Workers -> SUBSET Jobs]
                   /\ running' \in [Procs -> [Workspaces -> Workers \cup {Null}]]
                   /\ nudged' \in [Procs -> [Workspaces -> BOOLEAN]]
<1> USE DEF IInv
<1>0. /\ pc \in [Workers -> {"idle", "job", "run", "ack"}]
      /\ batch \in [Workers -> Seq(Jobs)]
      /\ taken \in [Workers -> SUBSET Jobs]
      /\ running \in [Procs -> [Workspaces -> Workers \cup {Null}]]
      /\ nudged \in [Procs -> [Workspaces -> BOOLEAN]]
      /\ stored \subseteq Jobs
  BY DEF TypeOK
<1>a. \A s : Unfinished(s) \subseteq Jobs BY <1>0 DEF Unfinished
<1>1. ASSUME NEW j \in Jobs, Store(j) \/ Push(j) \/ Overdue(j) PROVE Goal
  BY <1>0, <1>1 DEF Store, Push, Overdue
<1>2. ASSUME NEW w \in Workers, Reclaim(w) PROVE Goal
  <2>1. PICK jobs \in SetToSeqs(First) : Claimed(jobs) /\ batch' = [batch EXCEPT ![w] = jobs]
    BY <1>2 DEF Reclaim
  <2>2. jobs \in Seq(Jobs) BY <2>1, ClaimedJobs
  <2> QED BY <1>0, <1>2, <2>1, <2>2 DEF Reclaim
<1>3. ASSUME NEW w \in Workers, Pop(w) PROVE Goal
  <2>1. delivered + 1 \in 1..Len(stream) BY <1>3 DEF Pop, TypeOK
  <2>2. stream[delivered + 1] \in Jobs BY <2>1, PushedJobs DEF TypeOK
  <2>3. <<stream[delivered + 1]>> \in Seq(Jobs) BY <2>2
  <2> QED BY <1>0, <1>3, <2>3 DEF Pop
<1>4. ASSUME NEW w \in Workers, Handle(w) PROVE Goal
  <2>1. pc[w] # "idle"
    BY <1>4 DEF Handle, StartRun, NothingToRun, Collapse, Treat, LookAgain, FinishRun, Ack
  <2>2. /\ Space(w) \in Workspaces /\ ProcOf[w] \in Procs
        /\ batch[w] \in Seq(Jobs) /\ Len(batch[w]) \in Nat \ {0}
    BY <2>1, InHand
  <2>3. CASE StartRun(w) BY <2>3, <1>0, <1>a, <2>2 DEF StartRun
  <2>4. CASE NothingToRun(w) BY <2>4, <1>0 DEF NothingToRun
  <2>5. CASE Collapse(w) BY <2>5, <1>0, <2>2 DEF Collapse
  <2>6. CASE Treat(w) BY <2>6, <1>0 DEF Treat
  <2>7. CASE LookAgain(w) BY <2>7, <1>0, <1>a, <2>2 DEF LookAgain
  <2>8. CASE FinishRun(w) BY <2>8, <1>0, <2>2 DEF FinishRun
  <2>9. CASE Ack(w)
    <3>1. Tail(batch[w]) \in Seq(Jobs) BY <2>2
    <3> QED BY <2>9, <1>0, <3>1 DEF Ack
  <2> QED BY <1>4, <2>3, <2>4, <2>5, <2>6, <2>7, <2>8, <2>9 DEF Handle
<1>5. ASSUME NEW w \in Workers, RunRaises(w) PROVE Goal
  <2>1. Space(w) \in Workspaces /\ ProcOf[w] \in Procs
    BY <1>5, InHand DEF RunRaises
  <2> QED BY <1>5, <1>0, <2>1 DEF RunRaises
<1>6. ASSUME NEW p \in Procs, Crash(p) PROVE Goal
  <2>1. <<>> \in Seq(Jobs) OBVIOUS
  <2> QED BY <1>6, <1>0, <2>1 DEF Crash
<1>7. CASE UNCHANGED vars
  BY <1>7, <1>0 DEF vars
<1> QED BY <1>1, <1>2, <1>3, <1>4, <1>5, <1>6, <1>7 DEF Next

-----------------------------------------------------------------------------
(* The coroutines.                                                         *)

\* Each has in hand what is stored, and reads rows only while it runs.
LEMMA HandStep ==
    ASSUME IInv, [Next]_vars, NEW v \in Workers
    PROVE  HandOK(v)'
<1> USE DEF redis, worker, run, Goto
<1>0. /\ pc \in [Workers -> {"idle", "job", "run", "ack"}]
      /\ batch \in [Workers -> Seq(Jobs)]
      /\ taken \in [Workers -> SUBSET Jobs]
  BY DEF IInv, TypeOK
<1>a. stored \subseteq stored' BY QueueTypes
<1>b. HandOK(v) BY DEF IInv
<1>c. \A s : Unfinished(s) \subseteq stored BY DEF Unfinished
<1>d. pc'[v] = pc[v] /\ batch'[v] = batch[v] /\ taken'[v] = taken[v] => HandOK(v)'
  BY <1>a, <1>b DEF HandOK
<1>1. ASSUME NEW j \in Jobs, Store(j) \/ Push(j) \/ Overdue(j) PROVE HandOK(v)'
  BY <1>1, <1>d DEF Store, Push, Overdue
<1>2. ASSUME NEW w \in Workers, Reclaim(w) PROVE HandOK(v)'
  <2>1. PICK jobs \in SetToSeqs(First) : Claimed(jobs) /\ batch' = [batch EXCEPT ![w] = jobs]
    BY <1>2 DEF Reclaim
  <2>2. /\ jobs \in Seq(Jobs) /\ jobs # <<>>
        /\ \A n \in 1..Len(jobs) : jobs[n] \in overdue
    BY <2>1, ClaimedJobs DEF IInv
  <2>3. overdue \subseteq stored BY DEF IInv, TypeOK
  <2>4. pc' = [pc EXCEPT ![w] = "job"] /\ taken' = taken /\ pc[w] = "idle"
    BY <1>2 DEF Reclaim
  <2>5. CASE v = w
    <3>1. pc'[v] = "job" /\ batch'[v] = jobs /\ taken'[v] = taken[v]
      BY <1>0, <2>1, <2>4, <2>5
    <3> QED BY <3>1, <1>a, <1>b, <2>2, <2>3, <2>4, <2>5 DEF HandOK
  <2>6. CASE v # w BY <2>6, <1>0, <2>1, <2>4, <1>d
  <2> QED BY <2>5, <2>6
<1>3. ASSUME NEW w \in Workers, Pop(w) PROVE HandOK(v)'
  <2>1. delivered + 1 \in 1..Len(stream) BY <1>3 DEF Pop, IInv, TypeOK
  <2>2. stream[delivered + 1] \in stored BY <2>1, PushedJobs DEF IInv, TypeOK
  <2>3. PICK j \in stored : j = stream[delivered + 1] BY <2>2
  <2>4. /\ pc' = [pc EXCEPT ![w] = "job"] /\ taken' = taken /\ pc[w] = "idle"
        /\ batch' = [batch EXCEPT ![w] = <<j>>]
    BY <1>3, <2>3 DEF Pop
  <2>5. CASE v = w
    <3>1. pc'[v] = "job" /\ batch'[v] = <<j>> /\ taken'[v] = taken[v]
      BY <1>0, <2>4, <2>5
    <3>2. \A n \in 1..Len(<<j>>) : <<j>>[n] \in stored BY <2>3
    <3> QED BY <3>1, <3>2, <1>a, <1>b, <2>4, <2>5 DEF HandOK
  <2>6. CASE v # w BY <2>6, <1>0, <2>4, <1>d
  <2> QED BY <2>5, <2>6
<1>4. ASSUME NEW w \in Workers, Handle(w) PROVE HandOK(v)'
  <2>1. CASE StartRun(w)
    <3>1. /\ pc' = [pc EXCEPT ![w] = "run"] /\ batch' = batch /\ pc[w] = "job"
          /\ taken' = [taken EXCEPT ![w] = Unfinished(Space(w))]
      BY <2>1 DEF StartRun
    <3>2. CASE v = w
      BY <3>1, <3>2, <1>0, <1>a, <1>b, <1>c DEF HandOK
    <3>3. CASE v # w BY <3>1, <3>3, <1>0, <1>d
    <3> QED BY <3>2, <3>3
  <2>2. CASE NothingToRun(w) \/ Collapse(w)
    <3>1. /\ pc' = [pc EXCEPT ![w] = "ack"] /\ batch' = batch /\ pc[w] = "job"
          /\ taken' = taken
      BY <2>2 DEF NothingToRun, Collapse
    <3>2. CASE v = w
      BY <3>1, <3>2, <1>0, <1>a, <1>b DEF HandOK
    <3>3. CASE v # w BY <3>1, <3>3, <1>0, <1>d
    <3> QED BY <3>2, <3>3
  <2>3. CASE Treat(w)
    <3>1. PICK d \in taken[w] : taken' = [taken EXCEPT ![w] = @ \ {d}] BY <2>3 DEF Treat
    <3>2. pc' = pc /\ batch' = batch BY <2>3 DEF Treat
    <3> QED BY <3>1, <3>2, <1>0, <1>a, <1>b DEF HandOK
  <2>4. CASE LookAgain(w)
    <3>1. /\ pc' = pc /\ batch' = batch /\ pc[w] = "run"
          /\ taken' = [taken EXCEPT ![w] = Unfinished(Space(w))]
      BY <2>4 DEF LookAgain
    <3>2. CASE v = w
      BY <3>1, <3>2, <1>0, <1>a, <1>b, <1>c DEF HandOK
    <3>3. CASE v # w BY <3>1, <3>3, <1>0, <1>d
    <3> QED BY <3>2, <3>3
  <2>5. CASE FinishRun(w)
    <3>1. /\ pc' = [pc EXCEPT ![w] = "ack"] /\ batch' = batch /\ pc[w] = "run"
          /\ taken' = taken /\ taken[w] = {}
      BY <2>5 DEF FinishRun
    <3>2. CASE v = w
      BY <3>1, <3>2, <1>0, <1>a, <1>b DEF HandOK
    <3>3. CASE v # w BY <3>1, <3>3, <1>0, <1>d
    <3> QED BY <3>2, <3>3
  <2>6. CASE Ack(w)
    <3>1. /\ batch' = [batch EXCEPT ![w] = Tail(@)] /\ pc[w] = "ack" /\ taken' = taken
          /\ pc' = [pc EXCEPT ![w] = IF Len(batch[w]) = 1 THEN "idle" ELSE "job"]
      BY <2>6 DEF Ack
    <3>2. CASE v = w
      <4>1. batch[v] \in Seq(Jobs) /\ Len(batch[v]) \in Nat \ {0}
        BY <3>1, <3>2, InHand DEF IInv
      <4>2. /\ Len(Tail(batch[v])) = Len(batch[v]) - 1
            /\ \A n \in 1..Len(Tail(batch[v])) : Tail(batch[v])[n] = batch[v][n + 1]
        BY <4>1
      <4>3. \A n \in 1..Len(Tail(batch[v])) : Tail(batch[v])[n] \in stored
        <5> TAKE n \in 1..Len(Tail(batch[v]))
        <5>1. n + 1 \in 1..Len(batch[v]) BY <4>1, <4>2
        <5>2. batch[v][n + 1] \in stored BY <5>1, <1>b DEF HandOK
        <5> QED BY <5>2, <4>2
      <4>4. Len(batch[v]) = 1 <=> Tail(batch[v]) = <<>>
        <5>1. Tail(batch[v]) \in Seq(Jobs) BY <4>1
        <5>2. \A s \in Seq(Jobs) : s = <<>> <=> Len(s) = 0 OBVIOUS
        <5>3. Tail(batch[v]) = <<>> <=> Len(Tail(batch[v])) = 0 BY <5>1, <5>2
        <5>4. Len(Tail(batch[v])) = 0 <=> Len(batch[v]) = 1 BY <4>1, <4>2
        <5> QED BY <5>3, <5>4
      <4>5. /\ batch'[v] = Tail(batch[v]) /\ taken'[v] = taken[v]
            /\ pc'[v] = IF Len(batch[v]) = 1 THEN "idle" ELSE "job"
        BY <3>1, <3>2, <1>0
      <4>6. taken[v] = {} BY <3>1, <3>2, <1>b DEF HandOK
      <4>7. pc'[v] = "idle" <=> batch'[v] = <<>> BY <4>4, <4>5
      <4>8. \A n \in 1..Len(batch'[v]) : batch'[v][n] \in stored'
        BY <4>3, <4>5, <1>a
      <4> QED BY <4>5, <4>6, <4>7, <4>8 DEF HandOK
    <3>3. CASE v # w BY <3>1, <3>3, <1>0, <1>d
    <3> QED BY <3>2, <3>3
  <2> QED BY <1>4, <2>1, <2>2, <2>3, <2>4, <2>5, <2>6 DEF Handle
<1>5. ASSUME NEW w \in Workers, RunRaises(w) PROVE HandOK(v)'
  <2>1. /\ pc' = [pc EXCEPT ![w] = "ack"] /\ batch' = batch /\ pc[w] = "run"
        /\ taken' = [taken EXCEPT ![w] = {}]
    BY <1>5 DEF RunRaises
  <2>2. CASE v = w
    BY <2>1, <2>2, <1>0, <1>a, <1>b DEF HandOK
  <2>3. CASE v # w BY <2>1, <2>3, <1>0, <1>d
  <2> QED BY <2>2, <2>3
<1>6. ASSUME NEW p \in Procs, Crash(p) PROVE HandOK(v)'
  <2>1. CASE ProcOf[v] = p
    <3>1. pc'[v] = "idle" /\ batch'[v] = <<>> /\ taken'[v] = {}
      BY <1>6, <2>1 DEF Crash
    <3> QED BY <3>1 DEF HandOK
  <2>2. CASE ProcOf[v] # p
    <3>1. pc'[v] = pc[v] /\ batch'[v] = batch[v] /\ taken'[v] = taken[v]
      BY <1>6, <2>2 DEF Crash
    <3> QED BY <3>1, <1>d
  <2> QED BY <2>1, <2>2
<1>7. CASE UNCHANGED vars
  BY <1>7, <1>d DEF vars
<1> QED BY <1>1, <1>2, <1>3, <1>4, <1>5, <1>6, <1>7 DEF Next

\* Two runs are two places of `busy`, so that lowering one leaves the other.
LEMMA RunStep ==
    ASSUME IInv, [Next]_vars, NEW v \in Workers
    PROVE  RunOK(v)'
<1> USE DEF redis, worker, run, Goto
<1>0. /\ pc \in [Workers -> {"idle", "job", "run", "ack"}]
      /\ batch \in [Workers -> Seq(Jobs)]
      /\ taken \in [Workers -> SUBSET Jobs]
      /\ running \in [Procs -> [Workspaces -> Workers \cup {Null}]]
      /\ Null \notin Workers
  BY QueueAssumption DEF IInv, TypeOK
<1>a. done \subseteq done' BY QueueTypes
<1>b. RunOK(v) BY DEF IInv
<1>c. SUFFICES ASSUME pc'[v] = "run"
               PROVE  /\ running'[ProcOf[v]][Space(v)'] = v
                      /\ Job(v)' \in done' \cup taken'[v]
  BY DEF RunOK
<1> DEFINE Goal == /\ running'[ProcOf[v]][Space(v)'] = v
                   /\ Job(v)' \in done' \cup taken'[v]
<1>d. batch'[v] = batch[v] => Job(v)' = Job(v) /\ Space(v)' = Space(v)
  BY DEF Job, Space
<1>e. ASSUME pc[v] = "run"
      PROVE  /\ running[ProcOf[v]][Space(v)] = v /\ Job(v) \in done \cup taken[v]
             /\ ProcOf[v] \in Procs /\ Space(v) \in Workspaces
  BY <1>e, <1>b, InHand DEF RunOK, IInv
<1>f. /\ pc[v] = "run" /\ batch'[v] = batch[v]
      /\ taken[v] \subseteq taken'[v] \cup done'
      /\ running'[ProcOf[v]][Space(v)] = running[ProcOf[v]][Space(v)]
      => Goal
  BY <1>a, <1>d, <1>e
<1>1. ASSUME NEW j \in Jobs, Store(j) \/ Push(j) \/ Overdue(j) PROVE Goal
  BY <1>1, <1>c, <1>f DEF Store, Push, Overdue
<1>2. ASSUME NEW w \in Workers, Reclaim(w) \/ Pop(w) PROVE Goal
  <2>1. PICK jobs : batch' = [batch EXCEPT ![w] = jobs] BY <1>2 DEF Reclaim, Pop
  <2>2. pc' = [pc EXCEPT ![w] = "job"] /\ taken' = taken /\ running' = running
    BY <1>2 DEF Reclaim, Pop
  <2>3. v # w BY <1>c, <2>2, <1>0
  <2> QED BY <1>c, <1>f, <2>1, <2>2, <2>3, <1>0
<1>3. ASSUME NEW w \in Workers, Handle(w) PROVE Goal
  <2>0. pc[w] # "idle"
    BY <1>3 DEF Handle, StartRun, NothingToRun, Collapse, Treat, LookAgain, FinishRun, Ack
  <2>a. /\ Job(w) \in stored /\ Space(w) = WorkspaceOf[Job(w)]
        /\ Space(w) \in Workspaces /\ ProcOf[w] \in Procs
    BY <2>0, InHand DEF IInv, Space
  <2>b. Job(w) \in done \cup Unfinished(Space(w))
    BY <2>a DEF Unfinished
  <2>1. CASE StartRun(w)
    <3>1. /\ pc' = [pc EXCEPT ![w] = "run"] /\ batch' = batch
          /\ taken' = [taken EXCEPT ![w] = Unfinished(Space(w))]
          /\ running' = [running EXCEPT ![ProcOf[w]][Space(w)] = w]
          /\ running[ProcOf[w]][Space(w)] = Null
      BY <2>1 DEF StartRun
    <3>2. CASE v = w
      <4>1. running'[ProcOf[v]][Space(v)] = v BY <3>1, <3>2, <1>0, <2>a
      <4>2. taken'[v] = Unfinished(Space(v)) BY <3>1, <3>2, <1>0
      <4> QED BY <3>1, <3>2, <4>1, <4>2, <1>a, <1>d, <2>b
    <3>3. CASE v # w
      <4>1. pc[v] = "run" /\ taken'[v] = taken[v] BY <3>1, <3>3, <1>0, <1>c
      <4>2. ~(ProcOf[v] = ProcOf[w] /\ Space(v) = Space(w))
        BY <4>1, <3>1, <1>0, <1>e
      <4>3. running'[ProcOf[v]][Space(v)] = running[ProcOf[v]][Space(v)]
        BY <3>1, <4>1, <4>2, <1>0, <1>e, <2>a
      <4> QED BY <3>1, <4>1, <4>3, <1>f
    <3> QED BY <3>2, <3>3
  <2>2. CASE NothingToRun(w) \/ Collapse(w)
    <3>1. /\ pc' = [pc EXCEPT ![w] = "ack"] /\ batch' = batch /\ taken' = taken
          /\ running' = running
      BY <2>2 DEF NothingToRun, Collapse
    <3>2. pc[v] = "run" BY <3>1, <1>0, <1>c
    <3> QED BY <3>1, <3>2, <1>f
  <2>3. CASE Treat(w)
    <3>1. PICK d \in taken[w] : /\ taken' = [taken EXCEPT ![w] = @ \ {d}]
                                /\ done' = done \cup {d}
      BY <2>3 DEF Treat
    <3>2. pc' = pc /\ batch' = batch /\ running' = running BY <2>3 DEF Treat
    <3>3. taken[v] \subseteq taken'[v] \cup done' BY <3>1, <1>0
    <3> QED BY <3>2, <3>3, <1>c, <1>f
  <2>4. CASE LookAgain(w)
    <3>1. /\ pc' = pc /\ batch' = batch /\ running' = running
          /\ taken' = [taken EXCEPT ![w] = Unfinished(Space(w))] /\ taken[w] = {}
      BY <2>4 DEF LookAgain
    <3>2. taken[v] \subseteq taken'[v] BY <3>1, <1>0
    <3> QED BY <3>1, <3>2, <1>c, <1>f
  <2>5. CASE FinishRun(w)
    <3>1. /\ pc' = [pc EXCEPT ![w] = "ack"] /\ batch' = batch /\ taken' = taken
          /\ running' = [running EXCEPT ![ProcOf[w]][Space(w)] = Null]
          /\ pc[w] = "run"
      BY <2>5 DEF FinishRun
    <3>2. v # w /\ pc[v] = "run" BY <3>1, <1>0, <1>c
    <3>3. running[ProcOf[w]][Space(w)] = w BY <3>1 DEF IInv, RunOK
    <3>4. ~(ProcOf[v] = ProcOf[w] /\ Space(v) = Space(w)) BY <3>2, <3>3, <1>e
    <3>5. running'[ProcOf[v]][Space(v)] = running[ProcOf[v]][Space(v)]
      BY <3>1, <3>2, <3>4, <1>0, <1>e, <2>a
    <3> QED BY <3>1, <3>2, <3>5, <1>f
  <2>6. CASE Ack(w)
    <3>1. /\ batch' = [batch EXCEPT ![w] = Tail(@)] /\ taken' = taken /\ running' = running
          /\ pc' = [pc EXCEPT ![w] = IF Len(batch[w]) = 1 THEN "idle" ELSE "job"]
      BY <2>6 DEF Ack
    <3>2. v # w BY <3>1, <1>0, <1>c
    <3>3. pc[v] = "run" /\ batch'[v] = batch[v] BY <3>1, <3>2, <1>0, <1>c
    <3> QED BY <3>1, <3>3, <1>f
  <2> QED BY <1>3, <2>1, <2>2, <2>3, <2>4, <2>5, <2>6 DEF Handle
<1>4. ASSUME NEW w \in Workers, RunRaises(w) PROVE Goal
  <2>1. /\ pc' = [pc EXCEPT ![w] = "ack"] /\ batch' = batch /\ pc[w] = "run"
        /\ taken' = [taken EXCEPT ![w] = {}]
        /\ running' = [running EXCEPT ![ProcOf[w]][Space(w)] = Null]
    BY <1>4 DEF RunRaises
  <2>2. v # w /\ pc[v] = "run" BY <2>1, <1>0, <1>c
  <2>3. running[ProcOf[w]][Space(w)] = w BY <2>1 DEF IInv, RunOK
  <2>4. ~(ProcOf[v] = ProcOf[w] /\ Space(v) = Space(w)) BY <2>2, <2>3, <1>e
  <2>5. Space(w) \in Workspaces /\ ProcOf[w] \in Procs BY <2>1, InHand DEF IInv
  <2>6. running'[ProcOf[v]][Space(v)] = running[ProcOf[v]][Space(v)]
    BY <2>1, <2>2, <2>4, <2>5, <1>0, <1>e
  <2>7. taken'[v] = taken[v] BY <2>1, <2>2, <1>0
  <2> QED BY <2>1, <2>2, <2>6, <2>7, <1>f
<1>5. ASSUME NEW p \in Procs, Crash(p) PROVE Goal
  <2>1. ProcOf[v] # p BY <1>5, <1>c DEF Crash
  <2>2. pc'[v] = pc[v] /\ batch'[v] = batch[v] /\ taken'[v] = taken[v]
    BY <1>5, <2>1 DEF Crash
  <2>3. running'[ProcOf[v]] = running[ProcOf[v]]
    BY <1>5, <2>1, <1>0, Places DEF Crash
  <2> QED BY <2>2, <2>3, <1>c, <1>f
<1>6. CASE UNCHANGED vars
  BY <1>6, <1>c, <1>f DEF vars
<1> QED BY <1>1, <1>2, <1>3, <1>4, <1>5, <1>6 DEF Next

-----------------------------------------------------------------------------
(* No document is forgotten while nothing crashes or raises.               *)

\* What a run has taken it treats; and `request_pending` is lowered only by a
\* run that begins, or by one that reads the rows again, which then has the
\* document.
LEMMA HeldStays ==
    ASSUME IInv, [Next]_vars, troubles' = 0,
           NEW j \in stored, j \in done \/ Held(j)
    PROVE  j \in done' \/ Held(j)'
<1> USE DEF redis, worker, run, Goto
<1> DEFINE Goal == j \in done' \/ Held(j)'
<1>0. /\ taken \in [Workers -> SUBSET Jobs]
      /\ running \in [Procs -> [Workspaces -> Workers \cup {Null}]]
      /\ nudged \in [Procs -> [Workspaces -> BOOLEAN]]
      /\ Null \notin Workers
  BY QueueAssumption DEF IInv, TypeOK
<1>a. done \subseteq done' BY QueueTypes
<1>b. CASE j \in done BY <1>a, <1>b
<1>c. CASE j \notin done
  <2>0. Held(j) /\ WorkspaceOf[j] \in Workspaces /\ j \in Unfinished(WorkspaceOf[j])
    BY <1>c, Places DEF Unfinished, IInv, TypeOK
  <2>a. taken' = taken /\ running' = running /\ nudged' = nudged => Goal
    BY <2>0 DEF Held
  <2>b. troubles + 1 # 0 BY DEF IInv, TypeOK
  <2>1. ASSUME NEW k \in Jobs, Store(k) \/ Push(k) \/ Overdue(k) PROVE Goal
    BY <2>1, <2>a DEF Store, Push, Overdue
  <2>2. ASSUME NEW w \in Workers, Reclaim(w) \/ Pop(w) PROVE Goal
    BY <2>2, <2>a DEF Reclaim, Pop
  <2>3. ASSUME NEW w \in Workers, Handle(w) PROVE Goal
    <3>0. pc[w] # "idle"
      BY <2>3 DEF Handle, StartRun, NothingToRun, Collapse, Treat, LookAgain, FinishRun, Ack
    <3>a. Space(w) \in Workspaces /\ ProcOf[w] \in Procs
      BY <3>0, InHand DEF IInv
    <3>1. CASE StartRun(w)
      <4>1. /\ pc[w] = "job" /\ running[ProcOf[w]][Space(w)] = Null
            /\ running' = [running EXCEPT ![ProcOf[w]][Space(w)] = w]
            /\ nudged' = [nudged EXCEPT ![ProcOf[w]][Space(w)] = FALSE]
            /\ taken' = [taken EXCEPT ![w] = Unfinished(Space(w))]
        BY <3>1 DEF StartRun
      <4>2. taken[w] = {} BY <4>1 DEF IInv, HandOK
      <4>3. CASE \E v \in Workers : j \in taken[v]
        <5>1. PICK v \in Workers : j \in taken[v] BY <4>3
        <5>2. j \in taken'[v] BY <4>1, <4>2, <5>1, <1>0
        <5> QED BY <5>2 DEF Held
      <4>4. CASE \E p \in Procs : running[p][WorkspaceOf[j]] # Null /\ nudged[p][WorkspaceOf[j]]
        <5>1. PICK p \in Procs : running[p][WorkspaceOf[j]] # Null /\ nudged[p][WorkspaceOf[j]]
          BY <4>4
        <5>2. ~(p = ProcOf[w] /\ WorkspaceOf[j] = Space(w)) BY <4>1, <5>1
        <5>3. running'[p][WorkspaceOf[j]] = running[p][WorkspaceOf[j]]
          BY <4>1, <5>2, <1>0, <2>0, <3>a
        <5>4. nudged'[p][WorkspaceOf[j]] = nudged[p][WorkspaceOf[j]]
          BY <4>1, <5>2, <1>0, <2>0, <3>a
        <5> QED BY <5>1, <5>3, <5>4 DEF Held
      <4> QED BY <2>0, <4>3, <4>4 DEF Held
    <3>2. CASE NothingToRun(w) BY <3>2, <2>a DEF NothingToRun
    <3>3. CASE Collapse(w)
      <4>1. /\ running' = running /\ taken' = taken
            /\ nudged' = [nudged EXCEPT ![ProcOf[w]][Space(w)] = TRUE]
        BY <3>3 DEF Collapse
      <4>2. \A p \in Procs : nudged[p][WorkspaceOf[j]] => nudged'[p][WorkspaceOf[j]]
        BY <4>1, <1>0, <2>0, <3>a
      <4> QED BY <4>1, <4>2, <2>0 DEF Held
    <3>4. CASE Treat(w)
      <4>1. PICK d \in taken[w] : taken' = [taken EXCEPT ![w] = @ \ {d}] /\ done' = done \cup {d}
        BY <3>4 DEF Treat
      <4>2. running' = running /\ nudged' = nudged BY <3>4 DEF Treat
      <4>3. CASE d = j BY <4>1, <4>3
      <4>4. CASE d # j
        <5>1. \A v \in Workers : j \in taken[v] => j \in taken'[v] BY <4>1, <4>4, <1>0
        <5> QED BY <5>1, <4>2, <2>0 DEF Held
      <4> QED BY <4>3, <4>4
    <3>5. CASE LookAgain(w)
      <4>1. /\ running' = running /\ taken[w] = {}
            /\ nudged' = [nudged EXCEPT ![ProcOf[w]][Space(w)] = FALSE]
            /\ taken' = [taken EXCEPT ![w] = Unfinished(Space(w))]
        BY <3>5 DEF LookAgain
      <4>2. CASE WorkspaceOf[j] = Space(w)
        <5>1. j \in taken'[w] BY <4>1, <4>2, <2>0, <1>0
        <5> QED BY <5>1 DEF Held
      <4>3. CASE WorkspaceOf[j] # Space(w)
        <5>1. \A v \in Workers : j \in taken[v] => j \in taken'[v] BY <4>1, <1>0
        <5>2. \A p \in Procs : nudged'[p][WorkspaceOf[j]] = nudged[p][WorkspaceOf[j]]
          BY <4>1, <4>3, <1>0, <2>0, <3>a
        <5> QED BY <5>1, <5>2, <4>1, <2>0 DEF Held
      <4> QED BY <4>2, <4>3
    <3>6. CASE FinishRun(w)
      <4>1. /\ taken' = taken /\ nudged' = nudged /\ ~nudged[ProcOf[w]][Space(w)]
            /\ running' = [running EXCEPT ![ProcOf[w]][Space(w)] = Null]
        BY <3>6 DEF FinishRun
      <4>2. ASSUME NEW p \in Procs, nudged[p][WorkspaceOf[j]]
            PROVE  running'[p][WorkspaceOf[j]] = running[p][WorkspaceOf[j]]
        <5>1. ~(p = ProcOf[w] /\ WorkspaceOf[j] = Space(w)) BY <4>1, <4>2
        <5> QED BY <5>1, <4>1, <1>0, <2>0, <3>a
      <4> QED BY <4>1, <4>2, <2>0 DEF Held
    <3>7. CASE Ack(w) BY <3>7, <2>a DEF Ack
    <3> QED BY <2>3, <3>1, <3>2, <3>3, <3>4, <3>5, <3>6, <3>7 DEF Handle
  <2>4. ASSUME NEW w \in Workers, RunRaises(w) PROVE FALSE
    BY <2>4, <2>b DEF RunRaises, Trouble
  <2>5. ASSUME NEW p \in Procs, Crash(p) PROVE FALSE
    BY <2>5, <2>b DEF Crash, Trouble
  <2>6. CASE UNCHANGED vars BY <2>6, <2>a DEF vars
  <2> QED BY <2>1, <2>2, <2>3, <2>4, <2>5, <2>6 DEF Next
<1> QED BY <1>b, <1>c

\* A coroutine comes to its acknowledgement by finding that there is nothing to
\* run, by telling a run to look again, or by ending a run that has treated
\* everything it had.
LEMMA AcksStep ==
    ASSUME IInv, [Next]_vars, troubles' = 0, AcksSafe
    PROVE  AcksSafe'
<1> USE DEF redis, worker, run, Goto
<1>0. /\ pc \in [Workers -> {"idle", "job", "run", "ack"}]
      /\ batch \in [Workers -> Seq(Jobs)]
      /\ running \in [Procs -> [Workspaces -> Workers \cup {Null}]]
      /\ nudged \in [Procs -> [Workspaces -> BOOLEAN]]
  BY DEF IInv, TypeOK
<1>a. SUFFICES ASSUME NEW v \in Workers, pc'[v] = "ack"
               PROVE  Job(v)' \in done' \/ Held(Job(v))'
  BY DEF AcksSafe
<1> DEFINE Goal == Job(v)' \in done' \/ Held(Job(v))'
<1>b. ASSUME pc[v] # "idle", batch'[v] = batch[v],
             Job(v) \in done \/ Held(Job(v))
      PROVE  Goal
  <2>1. Job(v)' = Job(v) BY <1>b DEF Job
  <2>2. Job(v) \in stored BY <1>b, InHand DEF IInv
  <2>3. PICK k \in stored : k = Job(v) BY <2>2
  <2>4. k \in done' \/ Held(k)' BY <2>3, <1>b, HeldStays
  <2> QED BY <2>1, <2>3, <2>4 DEF Held
<1>c. ASSUME pc[v] = "ack", batch'[v] = batch[v] PROVE Goal
  BY <1>b, <1>c DEF AcksSafe
<1>d. troubles + 1 # 0 BY DEF IInv, TypeOK
<1>1. ASSUME NEW j \in Jobs, Store(j) \/ Push(j) \/ Overdue(j) PROVE Goal
  BY <1>1, <1>a, <1>c DEF Store, Push, Overdue
<1>2. ASSUME NEW w \in Workers, Reclaim(w) \/ Pop(w) PROVE Goal
  <2>1. PICK jobs : batch' = [batch EXCEPT ![w] = jobs] BY <1>2 DEF Reclaim, Pop
  <2>2. pc' = [pc EXCEPT ![w] = "job"] BY <1>2 DEF Reclaim, Pop
  <2>3. v # w BY <1>a, <2>2, <1>0
  <2> QED BY <1>a, <1>c, <2>1, <2>2, <2>3, <1>0
<1>3. ASSUME NEW w \in Workers, Handle(w) PROVE Goal
  <2>0. pc[w] # "idle"
    BY <1>3 DEF Handle, StartRun, NothingToRun, Collapse, Treat, LookAgain, FinishRun, Ack
  <2>a. /\ Job(w) \in stored /\ Space(w) = WorkspaceOf[Job(w)]
        /\ Space(w) \in Workspaces /\ ProcOf[w] \in Procs
    BY <2>0, InHand DEF IInv, Space
  <2>1. CASE StartRun(w)
    <3>1. pc' = [pc EXCEPT ![w] = "run"] /\ batch' = batch BY <2>1 DEF StartRun
    <3>2. pc[v] = "ack" BY <3>1, <1>0, <1>a
    <3> QED BY <3>1, <3>2, <1>c
  <2>2. CASE NothingToRun(w)
    <3>1. /\ pc' = [pc EXCEPT ![w] = "ack"] /\ batch' = batch
          /\ Unfinished(Space(w)) = {}
      BY <2>2 DEF NothingToRun
    <3>2. Job(w) \in done BY <3>1, <2>a DEF Unfinished
    <3>3. CASE v = w BY <3>1, <3>2, <3>3, <2>0, <1>b
    <3>4. CASE v # w BY <3>1, <3>4, <1>0, <1>a, <1>c
    <3> QED BY <3>3, <3>4
  <2>3. CASE Collapse(w)
    <3>1. /\ pc' = [pc EXCEPT ![w] = "ack"] /\ batch' = batch /\ running' = running
          /\ running[ProcOf[w]][Space(w)] # Null
          /\ nudged' = [nudged EXCEPT ![ProcOf[w]][Space(w)] = TRUE]
      BY <2>3 DEF Collapse
    <3>2. CASE v = w
      <4>1. nudged'[ProcOf[w]][Space(w)] BY <3>1, <1>0, <2>a
      <4>2. Held(Job(w))' BY <4>1, <3>1, <2>a DEF Held, Job
      <4> QED BY <3>2, <4>2
    <3>3. CASE v # w BY <3>1, <3>3, <1>0, <1>a, <1>c
    <3> QED BY <3>2, <3>3
  <2>4. CASE Treat(w) \/ LookAgain(w)
    BY <2>4, <1>a, <1>c DEF Treat, LookAgain
  <2>5. CASE FinishRun(w)
    <3>1. /\ pc' = [pc EXCEPT ![w] = "ack"] /\ batch' = batch
          /\ pc[w] = "run" /\ taken[w] = {}
      BY <2>5 DEF FinishRun
    <3>2. Job(w) \in done BY <3>1 DEF IInv, RunOK
    <3>3. CASE v = w BY <3>1, <3>2, <3>3, <2>0, <1>b
    <3>4. CASE v # w BY <3>1, <3>4, <1>0, <1>a, <1>c
    <3> QED BY <3>3, <3>4
  <2>6. CASE Ack(w)
    <3>1. /\ batch' = [batch EXCEPT ![w] = Tail(@)]
          /\ pc' = [pc EXCEPT ![w] = IF Len(batch[w]) = 1 THEN "idle" ELSE "job"]
      BY <2>6 DEF Ack
    <3>2. v # w BY <3>1, <1>0, <1>a
    <3>3. pc[v] = "ack" /\ batch'[v] = batch[v] BY <3>1, <3>2, <1>0, <1>a
    <3> QED BY <3>3, <1>c
  <2> QED BY <1>3, <2>1, <2>2, <2>3, <2>4, <2>5, <2>6 DEF Handle
<1>4. ASSUME NEW w \in Workers, RunRaises(w) PROVE FALSE
  BY <1>4, <1>d DEF RunRaises, Trouble
<1>5. ASSUME NEW p \in Procs, Crash(p) PROVE FALSE
  BY <1>5, <1>d DEF Crash, Trouble
<1>6. CASE UNCHANGED vars BY <1>6, <1>a, <1>c DEF vars
<1> QED BY <1>1, <1>2, <1>3, <1>4, <1>5, <1>6 DEF Next

\* A pushed document goes from the stream to the pending entries, and from
\* there, by a safe acknowledgement, to a run.
LEMMA EntriesStep ==
    ASSUME IInv, [Next]_vars, troubles' = 0, EntriesKept, AcksSafe
    PROVE  EntriesKept'
<1> USE DEF redis, worker, run
<1>0. /\ stream \in Seq(Jobs) /\ delivered \in 0..Len(stream) /\ Pushed \subseteq stored
  BY DEF IInv, TypeOK
<1>a. SUFFICES ASSUME NEW j \in Pushed' \ done'
               PROVE  j \in pel' \/ Undelivered(j)' \/ Held(j)'
  BY DEF EntriesKept
<1> DEFINE Goal == j \in pel' \/ Undelivered(j)' \/ Held(j)'
<1>b. done \subseteq done' BY QueueTypes
<1>c. ASSUME j \in Pushed, Held(j) PROVE Goal
  <2>1. j \in stored BY <1>0, <1>c
  <2>2. j \in done' \/ Held(j)' BY <2>1, <1>c, HeldStays
  <2> QED BY <1>a, <2>2
<1>d. ASSUME stream' = stream, delivered' = delivered, pel \subseteq pel'
      PROVE  Goal
  <2>1. j \in Pushed \ done BY <1>a, <1>b, <1>d DEF Pushed
  <2>2. j \in pel \/ Undelivered(j) \/ Held(j) BY <2>1 DEF EntriesKept
  <2>3. Undelivered(j)' <=> Undelivered(j) BY <1>d DEF Undelivered
  <2> QED BY <2>1, <2>2, <2>3, <1>c, <1>d
<1>1. ASSUME NEW k \in Jobs, Store(k) \/ Overdue(k) PROVE Goal
  BY <1>1, <1>d DEF Store, Overdue
<1>2. ASSUME NEW k \in Jobs, Push(k) PROVE Goal
  <2>1. stream' = Append(stream, k) /\ delivered' = delivered /\ pel' = pel
    BY <1>2 DEF Push
  <2>2. /\ Len(stream') = Len(stream) + 1 /\ stream'[Len(stream) + 1] = k
        /\ \A n \in 1..Len(stream) : stream'[n] = stream[n]
        /\ Pushed' = Pushed \cup {k}
    BY <2>1, <1>0, PushedGrows
  <2>3. CASE j = k
    <3>1. Len(stream) + 1 \in (delivered' + 1)..Len(stream') BY <2>1, <2>2, <1>0
    <3> QED BY <3>1, <2>2, <2>3 DEF Undelivered
  <2>4. CASE j # k
    <3>1. j \in Pushed \ done BY <2>2, <2>4, <1>a, <1>b
    <3>2. CASE Undelivered(j)
      <4>1. PICK n \in (delivered + 1)..Len(stream) : stream[n] = j BY <3>2 DEF Undelivered
      <4>2. n \in 1..Len(stream) /\ n \in (delivered' + 1)..Len(stream')
        BY <2>1, <2>2, <1>0
      <4> QED BY <4>1, <4>2, <2>2 DEF Undelivered
    <3> QED BY <3>1, <3>2, <2>1, <1>c DEF EntriesKept
  <2> QED BY <2>3, <2>4
<1>3. ASSUME NEW w \in Workers, Reclaim(w) PROVE Goal
  BY <1>3, <1>d DEF Reclaim
<1>4. ASSUME NEW w \in Workers, Pop(w) PROVE Goal
  <2>1. /\ stream' = stream /\ delivered' = delivered + 1
        /\ pel' = pel \cup {stream[delivered + 1]}
    BY <1>4 DEF Pop
  <2>2. j \in Pushed \ done BY <1>a, <1>b, <2>1 DEF Pushed
  <2>3. CASE Undelivered(j)
    <3>1. PICK n \in (delivered + 1)..Len(stream) : stream[n] = j BY <2>3 DEF Undelivered
    <3>2. CASE n = delivered + 1 BY <3>1, <3>2, <2>1
    <3>3. CASE n # delivered + 1
      <4>1. n \in (delivered' + 1)..Len(stream') BY <3>1, <3>3, <2>1, <1>0
      <4> QED BY <4>1, <3>1, <2>1 DEF Undelivered
    <3> QED BY <3>2, <3>3
  <2> QED BY <2>1, <2>2, <2>3, <1>c DEF EntriesKept
<1>5. ASSUME NEW w \in Workers, Handle(w) PROVE Goal
  <2>1. CASE Ack(w)
    <3>1. /\ pc[w] = "ack" /\ pel' = pel \ {Job(w)}
          /\ stream' = stream /\ delivered' = delivered
      BY <2>1 DEF Ack
    <3>2. j \in Pushed \ done BY <1>a, <1>b, <3>1 DEF Pushed
    <3>3. CASE j = Job(w)
      <4>1. Held(j) BY <3>1, <3>2, <3>3 DEF AcksSafe
      <4> QED BY <4>1, <3>2, <1>c
    <3>4. CASE j # Job(w)
      <4>1. Undelivered(j)' <=> Undelivered(j) BY <3>1 DEF Undelivered
      <4> QED BY <4>1, <3>1, <3>2, <3>4, <1>c DEF EntriesKept
    <3> QED BY <3>3, <3>4
  <2>2. CASE ~Ack(w)
    BY <1>5, <2>2, <1>d
    DEF Handle, StartRun, NothingToRun, Collapse, Treat, LookAgain, FinishRun
  <2> QED BY <2>1, <2>2
<1>6. ASSUME NEW w \in Workers, RunRaises(w) PROVE Goal
  BY <1>6, <1>d DEF RunRaises
<1>7. ASSUME NEW p \in Procs, Crash(p) PROVE Goal
  BY <1>7, <1>d DEF Crash
<1>8. CASE UNCHANGED vars BY <1>8, <1>d DEF vars
<1> QED BY <1>1, <1>2, <1>3, <1>4, <1>5, <1>6, <1>7, <1>8 DEF Next

-----------------------------------------------------------------------------
(* The theorems.                                                           *)

LEMMA IInvInit == Init => IInv
<1> SUFFICES ASSUME Init PROVE IInv OBVIOUS
<1>1. \A w \in Workers : HandOK(w) /\ RunOK(w) BY DEF Init, HandOK, RunOK
<1>2. EntriesKept /\ AcksSafe
  <2>1. Pushed = {} BY DEF Init, Pushed, Range
  <2> QED BY <2>1 DEF Init, EntriesKept, AcksSafe
<1> QED BY <1>1, <1>2, TypeInit DEF IInv

LEMMA IInvStep == IInv /\ [Next]_vars => IInv'
<1> SUFFICES ASSUME IInv, [Next]_vars PROVE IInv' OBVIOUS
<1>1. TypeOK' BY QueueTypes, RunTypes DEF TypeOK
<1>2. \A w \in Workers : HandOK(w)' /\ RunOK(w)' BY HandStep, RunStep
<1>3. ASSUME troubles' = 0 PROVE troubles = 0
  <2>1. troubles \in Nat BY DEF IInv, TypeOK
  <2>2. troubles' = troubles \/ troubles' = troubles + 1
    BY DEF Next, vars, Store, Push, Overdue, Reclaim, Pop, Handle, StartRun, NothingToRun,
           Collapse, Treat, LookAgain, FinishRun, Ack, RunRaises, Crash, Trouble
  <2> QED BY <1>3, <2>1, <2>2
<1>4. troubles' = 0 => EntriesKept' /\ AcksSafe'
  BY <1>3, AcksStep, EntriesStep DEF IInv
<1> QED BY <1>1, <1>2, <1>4 DEF IInv

LEMMA IInvHolds == Spec => []IInv
BY IInvInit, IInvStep, PTL DEF Spec

\* The queue and the flags are well typed, a job is on the stream only when its
\* document is stored, and within a process a workspace has one run, whose
\* coroutine is the one that `busy` stands for, though entries that have been
\* idle for too long are delivered twice.
THEOREM JobTheorem == Spec => []JobInv
<1>1. IInv => JobInv BY DEF IInv, RunOK, JobInv, OneRunPerProcess
<1> QED BY <1>1, IInvHolds, PTL

\* A pushed document that is not finished is in the queue or with a run, as long
\* as nothing has crashed or raised: neither the acknowledgement of a trigger
\* that was collapsed onto a run, nor one of an entry claimed from a coroutine
\* that is still at it, forgets it.
THEOREM ForgottenTheorem == Spec => []ForgottenOnlyByTrouble
<1>1. IInv => ForgottenOnlyByTrouble
  <2> SUFFICES ASSUME IInv, troubles = 0, NEW j \in Pushed \ done PROVE Remembered(j)
    BY DEF ForgottenOnlyByTrouble, NoDocumentForgotten
  <2>1. j \in pel \/ Undelivered(j) \/ Held(j) BY DEF IInv, EntriesKept
  <2> QED BY <2>1 DEF Remembered, Undelivered, Held
<1> QED BY <1>1, IInvHolds, PTL

-----------------------------------------------------------------------------
(* Part two: edits of the graph.                                            *)
(*                                                                          *)
(* Between two stages of an edit the stores disagree: a renamed node is in  *)
(* the graph before it has a vector, and the old one out of it while it     *)
(* still has one.  So the invariant speaks of what is still to be written:  *)
(* whoever has locked an element will in the end have it in the graph       *)
(* (Stays) or nowhere at all (Clears), and what is an orphan meanwhile is   *)
(* one that somebody is clearing.  When a write fails, the plan is gone,    *)
(* and what the edit was about is excused; a deletion is not, so it must    *)
(* never pass through an orphan, whatever the stage it stops at.            *)

-----------------------------------------------------------------------------
(* The inductive invariant.                                                 *)

Todo(p)   == UNION {p[i] : i \in DOMAIN p}
IsPlan(p) == p \in Seq(SUBSET Todo(p))
Work(t)   == Todo(job[t].plan)

RequestKinds == {"delete_entity", "create_entity", "delete_relation", "create_relation",
                 "ingest", "edit_relation", "edit_entity", "merge"}

\* What a pending write will do to an element x: put it into the graph or take it
\* out, give it a vector or a record, take its vector or its record away.
Gone(y) == {y} \cup (IF y \in Entities THEN PairsOf(y) ELSE {})
Makes(w, x) ==
    \/ w.do \in {"put", "end"} /\ x = w.on
    \/ w.do = "regroup" /\ \E m \in w.ties : x = m[2]
Drops(w, x) == w.do = "drop" /\ x \in Gone(w.on)
Fills(t, w, x) ==
    \/ w.do = "embed" /\ x \in w.on
    \/ w.do = "track" /\ x \in DOMAIN w.lists
    \/ w.do = "end" /\ x = w.on
    \/ w.do \in {"retrack", "settle"} /\ x = w.to
    \/ w.do = "settle" /\ \E m \in job[t].moved : x = m[2]
    \/ w.do = "regroup" /\ \E m \in w.ties : x = m[2]
Withdraws(t, w, x) ==
    \/ w.do = "regroup" /\ \E m \in w.ties : x = m[1]
    \/ w.do = "settle" /\ \E m \in job[t].moved : x = m[1]
    \/ w.do = "relink" /\ x \in PairsOf(w.on) /\ x \in graph
    \/ w.do = "move" /\ x = w.on /\ x \in graph
Unembeds(t, w, x) ==
    \/ w.do = "unembed" /\ x \in w.on
    \/ w.do = "drop" /\ x = w.on /\ w.more # <<>>
    \/ Withdraws(t, w, x)
Untracks(t, w, x) ==
    \/ w.do = "untrack" /\ x \in w.on
    \/ w.do = "settle" /\ x = w.on
    \/ w.do = "retrack" /\ x = w.from
    \/ Withdraws(t, w, x)

Made(t, x)       == x \in graph \/ \E w \in Work(t) : Makes(w, x)
Lost(t, x)       == \E w \in Work(t) : Drops(w, x)
Filled(t, x)     == \E w \in Work(t) : Fills(t, w, x)
Unembedded(t, x) == \E w \in Work(t) : Unembeds(t, w, x)
Untracked(t, x)  == \E w \in Work(t) : Untracks(t, w, x)

\* When t is done, x is in the graph, or it is nowhere; and a deletion leaves
\* nothing behind on the way either.
Orphan(x)    == x \notin graph /\ (x \in vec \/ track[x] # {})
Stays(t, x)  == Made(t, x) /\ ~ Lost(t, x)
Clears(t, x) == /\ ~ Filled(t, x)
                /\ x \in vec => Unembedded(t, x)
                /\ track[x] # {} => Untracked(t, x)
Ok(t, x)     == (Stays(t, x) \/ Clears(t, x)) /\ (job[t].deletes => ~ Orphan(x))

\* What is an orphan is so because somebody at work will see to it; and whoever
\* is at work on something else will leave no orphan.
Holds(t, x) == Ents(x) \cap job[t].held # {}
Kept ==
    \A x \in Elements : ~ Excused(x, torn) =>
        /\ Orphan(x) => \E t \in Tasks : Holds(t, x) /\ Ok(t, x)
        /\ ~ Orphan(x) => \A t \in Tasks : Holds(t, x) => Ok(t, x)

\* The writes of a plan are well formed, and about what the request has locked;
\* but for deletions, a failure excuses what they are about.
Own(t, x) == x \in Elements /\ Holds(t, x) /\ (job[t].deletes \/ Excused(x, job[t].about))
RequestOK(t, w) ==
    /\ w \in Requests /\ Keys(w) = job[t].held /\ About(w) = job[t].about
    /\ job[t].deletes <=> w.do \in {"delete_entity", "delete_relation"}
    /\ job[t].moved = {}
TiesOK(t, ties) ==
    \A m \in ties : /\ m[1] \in Pairs /\ Own(t, m[1]) /\ m[3] \subseteq Chunks
                    /\ m[2] \in SUBSET Entities /\ (m[2] \in Pairs => Own(t, m[2]))
WriteOK(t, w) ==
    /\ w.do \in RequestKinds => RequestOK(t, w)
    /\ w.do \in {"put", "end"} => Own(t, w.on) /\ w.chunks \subseteq Chunks
    /\ w.do = "end" => w.on \in Entities /\ w.full \subseteq Chunks
    /\ w.do = "drop" => Own(t, w.on) /\ w.more \in {<<>>, <<{UnembedThem({w.on})}>>}
    /\ w.do \in {"embed", "unembed", "untrack"} => \A x \in w.on : Own(t, x)
    /\ w.do = "track" => \A x \in DOMAIN w.lists : Own(t, x) /\ w.lists[x] \subseteq Chunks
    /\ w.do = "regroup" => TiesOK(t, w.ties)
    /\ w.do = "settle" => /\ w.on \in Entities /\ w.to \in Entities
                          /\ Own(t, w.on) /\ Own(t, w.to) /\ w.full \subseteq Chunks
    /\ w.do = "retrack" => /\ w.from \in Pairs /\ w.to \in Pairs
                           /\ Own(t, w.from) /\ Own(t, w.to) /\ w.chunks \subseteq Chunks
    /\ job[t].deletes => /\ w.do \in RequestKinds \cup {"untrack", "unembed", "drop"}
                         /\ w.do = "drop" => w.more = <<>>

\* A request is planned when nothing else is left to do, and the deletion of a
\* node or an edge is the last write of a deletion.
Alone(t, w) == w.do \in RequestKinds \/ (job[t].deletes /\ w.do = "drop")
OnlyLast(p, A) == \A i \in DOMAIN p : \A w \in p[i] \cap A : i = Len(p) /\ p[i] = {w}
Placed(t) == OnlyLast(job[t].plan, {w \in Work(t) : Alone(t, w)})

\* A rename moves the edges of a node before it drops the node, and settles the
\* other stores afterwards.  No edge connects the two names.
RelinkIt(s) == [do |-> "relink", on |-> s.on, to |-> s.to]
MovesOf(s)  == {[do |-> "move", on |-> p, to |-> Renamed(p, s.on, s.to)] :
                   p \in PairsOf(s.on) \ {{s.on, s.to}}}
Beginning(w, s) ==
    <<{w}, {RelinkIt(s)}, {DropIt(s.on, <<>>)}, {UnembedThem({s.on})}, {s}>>
After(M, s) == <<M, {DropIt(s.on, <<>>)}, {UnembedThem({s.on})}, {s}>>
Renames(t, s) ==
    /\ s.do = "settle" /\ s.on # s.to /\ {s.on, s.to} \notin graph /\ ~ job[t].deletes
    /\ \/ \E w \in Work(t) : /\ w.do = "put" /\ w.on = s.to
                             /\ job[t].plan = Beginning(w, s)
       \/ job[t].plan = After({RelinkIt(s)}, s)
       \/ \E M \in SUBSET MovesOf(s) : M # {} /\ job[t].plan = After(M, s)
InOrder(t) ==
    (\E w \in Work(t) : w.do \in {"relink", "move"}) => \E s \in Work(t) : Renames(t, s)

IsJob(j) ==
    /\ j = [held |-> j.held, about |-> j.about, plan |-> j.plan, moved |-> j.moved,
            deletes |-> j.deletes, dirty |-> j.dirty, owed |-> j.owed]
    /\ j.held \subseteq Entities /\ j.about \subseteq Elements /\ j.deletes \in BOOLEAN
    /\ IsPlan(j.plan)
MovedOK(t) ==
    \A m \in job[t].moved : m[1] \in Pairs /\ m[2] \in Pairs /\ Own(t, m[1]) /\ Own(t, m[2])
                            /\ m[3] \subseteq Chunks
JobOK(t) ==
    /\ IsJob(job[t])
    /\ \A w \in Work(t) : WriteOK(t, w)
    /\ Placed(t)
    /\ InOrder(t)
    /\ MovedOK(t)

StoresOK ==
    /\ graph \subseteq Elements /\ vec \subseteq Elements
    /\ src \in [Elements -> SUBSET Chunks]
    /\ track \in [Elements -> SUBSET Chunks]
    /\ torn \subseteq Elements /\ halved \subseteq Elements
    /\ \A x \in Elements : x \in graph => Ents(x) \subseteq graph
Apart == \A t, u \in Tasks : t # u => job[t].held \cap job[u].held = {}

EditIInv ==
    /\ StoresOK
    /\ job = [t \in Tasks |-> job[t]]
    /\ Apart
    /\ \A t \in Tasks : JobOK(t)
    /\ Kept
-----------------------------------------------------------------------------
(* Plans.                                                                   *)

LEMMA PlanOfNone == IsPlan(<<>>) /\ Todo(<<>>) = {}
BY DEF IsPlan, Todo

LEMMA PlanOfOne ==
    ASSUME NEW a PROVE IsPlan(<<a>>) /\ Todo(<<a>>) = a
<1>1. Todo(<<a>>) = a
  BY DEF Todo
<1> QED BY <1>1 DEF IsPlan

LEMMA PlanOfTwo ==
    ASSUME NEW a, NEW b PROVE IsPlan(<<a, b>>) /\ Todo(<<a, b>>) = a \cup b
<1>1. Todo(<<a, b>>) = a \cup b
  BY DEF Todo
<1> QED BY <1>1 DEF IsPlan

LEMMA PlanOfThree ==
    ASSUME NEW a, NEW b, NEW c
    PROVE  IsPlan(<<a, b, c>>) /\ Todo(<<a, b, c>>) = a \cup b \cup c
<1>1. Todo(<<a, b, c>>) = a \cup b \cup c
  BY DEF Todo
<1> QED BY <1>1 DEF IsPlan

LEMMA PlanOfFour ==
    ASSUME NEW a, NEW b, NEW c, NEW d
    PROVE  IsPlan(<<a, b, c, d>>) /\ Todo(<<a, b, c, d>>) = a \cup b \cup c \cup d
<1>1. Todo(<<a, b, c, d>>) = a \cup b \cup c \cup d
  BY DEF Todo
<1> QED BY <1>1 DEF IsPlan

LEMMA PlanOfFive ==
    ASSUME NEW a, NEW b, NEW c, NEW d, NEW e
    PROVE  /\ IsPlan(<<a, b, c, d, e>>)
           /\ Todo(<<a, b, c, d, e>>) = a \cup b \cup c \cup d \cup e
<1>1. Todo(<<a, b, c, d, e>>) = a \cup b \cup c \cup d \cup e
  BY DEF Todo
<1> QED BY <1>1 DEF IsPlan

LEMMA StagePlan ==
    ASSUME NEW S PROVE IsPlan(Stage(S)) /\ Todo(Stage(S)) = S
BY PlanOfNone, PlanOfOne DEF Stage

LEMMA PlanIndex ==
    ASSUME NEW p, IsPlan(p)
    PROVE  /\ Len(p) \in Nat /\ DOMAIN p = 1..Len(p)
           /\ \A w : w \in Todo(p) <=> \E i \in 1..Len(p) : w \in p[i]
BY DEF IsPlan, Todo

LEMMA Joined ==
    ASSUME NEW p, NEW q, IsPlan(p), IsPlan(q)
    PROVE  /\ IsPlan(p \o q) /\ Todo(p \o q) = Todo(p) \cup Todo(q)
           /\ Len(p \o q) = Len(p) + Len(q)
           /\ \A i \in 1..Len(p) : (p \o q)[i] = p[i]
           /\ \A i \in 1..Len(q) : (p \o q)[Len(p) + i] = q[i]
<1> DEFINE X == Todo(p) \cup Todo(q)
<1>1. p \in Seq(SUBSET X) /\ q \in Seq(SUBSET X)
  BY DEF IsPlan, Todo
<1>2. /\ p \o q \in Seq(SUBSET X) /\ Len(p \o q) = Len(p) + Len(q)
      /\ \A i \in 1..Len(p) : (p \o q)[i] = p[i]
      /\ \A i \in 1..Len(q) : (p \o q)[Len(p) + i] = q[i]
  <2> HIDE DEF X
  <2> QED BY <1>1
<1>3. Todo(p \o q) = X
  <2>1. ASSUME NEW w \in Todo(p \o q) PROVE w \in X
    BY <1>2 DEF Todo
  <2>2. ASSUME NEW w \in Todo(p) PROVE w \in Todo(p \o q)
    <3>1. PICK i \in 1..Len(p) : w \in p[i]
      BY PlanIndex
    <3>2. i \in DOMAIN (p \o q)
      BY <1>2, PlanIndex
    <3> QED BY <1>2, <3>1, <3>2 DEF Todo
  <2>3. ASSUME NEW w \in Todo(q) PROVE w \in Todo(p \o q)
    <3>1. PICK i \in 1..Len(q) : w \in q[i]
      BY PlanIndex
    <3>2. Len(p) + i \in DOMAIN (p \o q)
      BY <1>2, PlanIndex
    <3> QED BY <1>2, <3>1, <3>2 DEF Todo
  <2> QED BY <2>1, <2>2, <2>3
<1> QED BY <1>2, <1>3 DEF IsPlan

LEMMA HeadTail ==
    ASSUME NEW p, IsPlan(p), p # <<>>
    PROVE  /\ IsPlan(Tail(p)) /\ Todo(p) = Head(p) \cup Todo(Tail(p))
           /\ Head(p) = p[1] /\ Len(Tail(p)) = Len(p) - 1 /\ Len(p) \in Nat \ {0}
           /\ \A i \in 1..Len(p) - 1 : Tail(p)[i] = p[i + 1]
<1> DEFINE X == Todo(p)
<1>1. p \in Seq(SUBSET X)
  BY DEF IsPlan
<1>2. /\ Tail(p) \in Seq(SUBSET X) /\ Head(p) = p[1] /\ Len(Tail(p)) = Len(p) - 1
      /\ Len(p) \in Nat \ {0} /\ \A i \in 1..Len(p) - 1 : Tail(p)[i] = p[i + 1]
  <2> HIDE DEF X
  <2> QED BY <1>1
<1>3. ASSUME NEW w \in Todo(p) PROVE w \in Head(p) \/ w \in Todo(Tail(p))
  <2>1. PICK i \in 1..Len(p) : w \in p[i]
    BY PlanIndex
  <2>2. CASE i # 1
    <3>1. i - 1 \in DOMAIN Tail(p) /\ Tail(p)[i - 1] = p[i]
      BY <1>2, <2>2
    <3> QED BY <2>1, <3>1 DEF Todo
  <2> QED BY <1>2, <2>1, <2>2
<1>4. Head(p) \subseteq Todo(p)
  BY <1>2, PlanIndex
<1>5. Todo(Tail(p)) \subseteq Todo(p)
  BY <1>2 DEF Todo
<1>6. IsPlan(Tail(p))
  <2> DEFINE q == Tail(p)
  <2> q \in Seq(SUBSET X)
    BY <1>2
  <2> HIDE DEF q, X
  <2>2. \A i \in 1..Len(q) : q[i] \in SUBSET Todo(q)
    BY DEF Todo
  <2>3. q \in Seq(SUBSET Todo(q))
    BY <2>2
  <2> QED BY <2>3 DEF IsPlan, q
<1> QED BY <1>2, <1>3, <1>4, <1>5, <1>6

\* A write is done and others are planned in its place.
Onward(p, w, more) == more \o Stage(Head(p) \ {w}) \o Tail(p)

LEMMA OnwardPlan ==
    ASSUME NEW p, IsPlan(p), p # <<>>, NEW w \in Head(p), NEW more, IsPlan(more)
    PROVE  /\ IsPlan(Onward(p, w, more)) /\ w \in Todo(p)
           /\ Todo(Onward(p, w, more)) = Todo(more) \cup (Head(p) \ {w}) \cup Todo(Tail(p))
           /\ Todo(p) = Head(p) \cup Todo(Tail(p))
<1> DEFINE S == Stage(Head(p) \ {w})
<1>1. IsPlan(Tail(p)) /\ Todo(p) = Head(p) \cup Todo(Tail(p))
  BY HeadTail
<1>2. IsPlan(S) /\ Todo(S) = Head(p) \ {w}
  BY StagePlan
<1>3. IsPlan(more \o S) /\ Todo(more \o S) = Todo(more) \cup Todo(S)
  <2> HIDE DEF S
  <2> QED BY <1>2, Joined
<1>4. /\ IsPlan((more \o S) \o Tail(p))
      /\ Todo((more \o S) \o Tail(p)) = Todo(more \o S) \cup Todo(Tail(p))
  <2> DEFINE q == more \o S
  <2> HIDE DEF S, q
  <2>1. IsPlan(q)
    BY <1>3 DEF q
  <2>2. IsPlan(q \o Tail(p)) /\ Todo(q \o Tail(p)) = Todo(q) \cup Todo(Tail(p))
    BY <1>1, <2>1, Joined
  <2> QED BY <2>2 DEF q
<1> QED BY <1>1, <1>2, <1>3, <1>4 DEF Onward

LEMMA JoinedLast ==
    ASSUME NEW p, IsPlan(p), NEW q, IsPlan(q), NEW A, OnlyLast(q, A), Todo(p) \cap A = {}
    PROVE  OnlyLast(p \o q, A)
<1> DEFINE n == p \o q
<1>1. /\ IsPlan(n) /\ Len(n) = Len(p) + Len(q)
      /\ \A i \in 1..Len(p) : n[i] = p[i]
      /\ \A i \in 1..Len(q) : n[Len(p) + i] = q[i]
  BY Joined
<1> HIDE DEF n
<1>2. Len(p) \in Nat /\ Len(q) \in Nat /\ DOMAIN n = 1..Len(n) /\ DOMAIN q = 1..Len(q)
  BY <1>1, PlanIndex
<1>3. ASSUME NEW i \in DOMAIN n, NEW v \in n[i] \cap A PROVE i = Len(n) /\ n[i] = {v}
  <2>1. CASE i \in 1..Len(p)
    BY <1>1, <1>3, <2>1, PlanIndex
  <2>2. CASE i \notin 1..Len(p)
    <3> DEFINE j == i - Len(p)
    <3>1. j \in 1..Len(q) /\ i = Len(p) + j
      BY <1>1, <1>2, <2>2
    <3>2. n[i] = q[j]
      BY <1>1, <3>1
    <3>3. j = Len(q) /\ q[j] = {v}
      BY <1>2, <3>1, <3>2 DEF OnlyLast
    <3> QED BY <1>1, <3>1, <3>2, <3>3
  <2> QED BY <2>1, <2>2
<1> QED BY <1>3 DEF OnlyLast, n

LEMMA NoneLast ==
    ASSUME NEW p, IsPlan(p), NEW A, Todo(p) \cap A = {}
    PROVE  OnlyLast(p, A)
BY PlanIndex DEF OnlyLast

LEMMA TailLast ==
    ASSUME NEW p, IsPlan(p), p # <<>>, NEW A, OnlyLast(p, A)
    PROVE  OnlyLast(Tail(p), A)
<1>1. /\ Len(Tail(p)) = Len(p) - 1 /\ Len(p) \in Nat \ {0}
      /\ \A i \in 1..Len(p) - 1 : Tail(p)[i] = p[i + 1]
  BY HeadTail
<1>2. DOMAIN Tail(p) = 1..Len(p) - 1 /\ DOMAIN p = 1..Len(p)
  BY <1>1, HeadTail, PlanIndex
<1> QED BY <1>1, <1>2 DEF OnlyLast

\* What has to come last still does.
LEMMA StillLast ==
    ASSUME NEW p, IsPlan(p), p # <<>>, NEW w \in Head(p), NEW more, IsPlan(more), NEW A,
           OnlyLast(p, A), w \notin A, Todo(more) \cap A = {}
    PROVE  OnlyLast(Onward(p, w, more), A)
<1> DEFINE S == Stage(Head(p) \ {w})
           q == more \o S
<1>1. IsPlan(Tail(p)) /\ Head(p) = p[1] /\ OnlyLast(Tail(p), A)
  BY HeadTail, TailLast
<1>2. IsPlan(S) /\ Todo(S) = Head(p) \ {w}
  BY StagePlan
<1>3. IsPlan(q) /\ Todo(q) = Todo(more) \cup Todo(S)
  <2> HIDE DEF S
  <2> QED BY <1>2, Joined
<1>4. Head(p) \cap A = {}
  <2>1. ASSUME NEW v \in Head(p) \cap A PROVE FALSE
    <3>1. p[1] = {v}
      BY <1>1, HeadTail, PlanIndex DEF OnlyLast
    <3> QED BY <1>1, <3>1
  <2> QED BY <2>1
<1>5. OnlyLast(q \o Tail(p), A)
  <2>1. Todo(q) \cap A = {}
    BY <1>2, <1>3, <1>4
  <2> HIDE DEF q
  <2> QED BY <1>1, <1>3, <2>1, JoinedLast
<1> QED BY <1>5 DEF Onward

\* What comes last was alone.
LEMMA WasLast ==
    ASSUME NEW p, IsPlan(p), p # <<>>, NEW A, NEW w \in Head(p) \cap A, OnlyLast(p, A),
           NEW more, IsPlan(more)
    PROVE  Todo(p) = {w} /\ Onward(p, w, more) = more
<1>1. /\ IsPlan(Tail(p)) /\ Head(p) = p[1] /\ Len(Tail(p)) = Len(p) - 1 /\ Len(p) \in Nat \ {0}
      /\ Todo(p) = Head(p) \cup Todo(Tail(p))
  BY HeadTail
<1>2. Len(p) = 1 /\ Head(p) = {w}
  BY <1>1, PlanIndex DEF OnlyLast
<1>3. Tail(p) = <<>>
  BY <1>1, <1>2 DEF IsPlan
<1>4. Stage(Head(p) \ {w}) = <<>>
  BY <1>2 DEF Stage
<1>5. more \o <<>> = more
  BY DEF IsPlan
<1> QED BY <1>1, <1>2, <1>3, <1>4, <1>5, PlanOfNone DEF Onward

-----------------------------------------------------------------------------
(* Elements, and what a task may touch.                                     *)

LEMMA Shapes ==
    /\ Entities \subseteq Elements /\ Pairs \subseteq Elements
    /\ \A e \in Entities : Ents(e) = {e}
    /\ \A p \in Pairs : p \notin Entities /\ Ents(p) = p /\ p \subseteq Entities /\ p # {}
    /\ \A x \in Elements : Ents(x) \subseteq Entities /\ Ents(x) # {}
    /\ \A S \in SUBSET Entities : S \notin Entities
<1>1. \A S \in SUBSET Entities : S \notin Entities
  BY GraphAssumption
<1>2. \A p \in Pairs : p \subseteq Entities /\ p # {}
  BY DEF Pairs
<1>3. \A p \in Pairs : p \notin Entities
  BY <1>1, <1>2
<1> QED BY <1>1, <1>2, <1>3 DEF Elements, Ents

LEMMA TwoNames ==
    ASSUME NEW e \in Entities, NEW f \in Entities, e # f
    PROVE  {e, f} \in Pairs
<1>1. \A x : {e, f} # {x}
  <2> SUFFICES ASSUME NEW x, {e, f} = {x} PROVE FALSE
    OBVIOUS
  <2>1. e \in {x} /\ f \in {x}
    OBVIOUS
  <2> QED BY <2>1
<1>2. {e, f} \in {{x, y} : x, y \in Entities}
  OBVIOUS
<1> QED BY <1>1, <1>2 DEF Pairs

LEMMA GoneShape ==
    ASSUME NEW y \in Elements
    PROVE  /\ Gone(y) \subseteq Elements /\ y \in Gone(y)
           /\ \A x \in Gone(y) : Ents(y) \subseteq Ents(x)
           /\ \A x \in Elements : x \in Gone(y) <=> x = y \/ (y \in Entities /\ y \in Ents(x))
<1>1. CASE y \in Entities
  <2>1. Gone(y) = {y} \cup PairsOf(y)
    BY <1>1 DEF Gone
  <2>2. \A x \in PairsOf(y) : x \in Pairs /\ y \in x
    BY DEF PairsOf
  <2>3. \A x \in Elements : y \in Ents(x) => x = y \/ x \in PairsOf(y)
    BY Shapes DEF Elements, PairsOf
  <2> QED BY <1>1, <2>1, <2>2, <2>3, Shapes
<1>2. CASE y \notin Entities
  <2>1. Gone(y) = {y}
    BY <1>2 DEF Gone
  <2> QED BY <1>2, <2>1
<1> QED BY <1>1, <1>2

LEMMA OwnGone ==
    ASSUME NEW t \in Tasks, NEW y, Own(t, y), NEW x \in Gone(y)
    PROVE  Own(t, x)
<1>1. y \in Elements /\ x \in Elements /\ Ents(y) \subseteq Ents(x)
  BY GoneShape DEF Own
<1>2. CASE x = y
  BY <1>2
<1>3. CASE x # y
  <2>1. y \in Entities /\ y \in Ents(x)
    BY <1>1, <1>3, GoneShape
  <2>2. Ents(y) = {y}
    BY <2>1, Shapes
  <2> QED BY <1>1, <2>1, <2>2 DEF Own, Holds, Excused
<1> QED BY <1>2, <1>3

LEMMA OwnHeld ==
    ASSUME NEW t \in Tasks, NEW e \in Entities, Own(t, e)
    PROVE  e \in job[t].held
BY Shapes DEF Own, Holds

\* What somebody else has locked, or what is not there, nobody touches without a
\* trace.
LEMMA Straying ==
    ASSUME EditIInv, NEW t \in Tasks, NEW S \in SUBSET Elements, NEW x \in Elements,
           Ents(x) \subseteq EntsOf(S), NEW T, Marked(t, EntsOf(S)) \subseteq T,
           \/ \E u \in Tasks \ {t} : Holds(u, x)
           \/ x \in Entities /\ x \notin graph /\ ~ Holds(t, x)
    PROVE  Excused(x, T)
<1>1. PICK e \in Ents(x) : e \notin job[t].held /\ (e \notin graph \/ \E u \in Tasks \ {t} : e \in job[u].held)
  <2>1. CASE \E u \in Tasks \ {t} : Holds(u, x)
    BY <2>1 DEF Holds, EditIInv, Apart
  <2>2. CASE x \in Entities /\ x \notin graph /\ ~ Holds(t, x)
    BY <2>2, Shapes DEF Holds
  <2> QED BY <2>1, <2>2
<1>2. Strays(t, EntsOf(S))
  BY <1>1 DEF Strays
<1>3. EntsOf(S) \subseteq T
  BY <1>2 DEF Marked
<1> QED BY <1>1, <1>3 DEF Excused

-----------------------------------------------------------------------------
(* Steps of one task, seen from the others and from the elements.           *)

\* What a step of t leaves as it was.
Same(x)      == /\ x \in graph' <=> x \in graph
                /\ x \in vec' <=> x \in vec
                /\ track'[x] = track[x]
OthersWait(t) == \A u \in Tasks \ {t} : job'[u] = job[u]

LEMMA OkSame ==
    ASSUME NEW u \in Tasks, NEW x \in Elements, job'[u] = job[u], Same(x)
    PROVE  (Ok(u, x)' <=> Ok(u, x)) /\ (Holds(u, x)' <=> Holds(u, x)) /\ (Orphan(x)' <=> Orphan(x))
<1>1. Work(u)' = Work(u) /\ job'[u].moved = job[u].moved /\ job'[u].deletes = job[u].deletes
  BY DEF Work
<1>2. Orphan(x)' <=> Orphan(x)
  BY DEF Orphan, Same
<1>3. \A w : Fills(u, w, x)' <=> Fills(u, w, x)
  BY <1>1 DEF Fills
<1>4. \A w : (Unembeds(u, w, x)' <=> Unembeds(u, w, x)) /\ (Untracks(u, w, x)' <=> Untracks(u, w, x))
  BY <1>1 DEF Unembeds, Untracks, Withdraws, Same
<1>5. (Stays(u, x)' <=> Stays(u, x)) /\ (Filled(u, x)' <=> Filled(u, x))
  BY <1>1, <1>3 DEF Stays, Made, Lost, Filled, Same
<1>6. (Unembedded(u, x)' <=> Unembedded(u, x)) /\ (Untracked(u, x)' <=> Untracked(u, x))
  BY <1>1, <1>4 DEF Unembedded, Untracked
<1>7. Clears(u, x)' <=> Clears(u, x)
  BY <1>5, <1>6 DEF Clears, Same
<1>8. Holds(u, x)' <=> Holds(u, x)
  BY DEF Holds
<1> QED BY <1>1, <1>2, <1>5, <1>7, <1>8 DEF Ok

\* A step that changes only what the task alone has locked, and leaves that in
\* order, keeps everything in order.
LEMMA Carries ==
    ASSUME EditIInv, NEW t \in Tasks, OthersWait(t), job'[t].held = job[t].held,
           torn \subseteq torn',
           \A x \in Elements : Same(x) \/ Excused(x, torn')
                               \/ (Holds(t, x) /\ \A u \in Tasks \ {t} : ~ Holds(u, x)),
           \A x \in Elements : Holds(t, x) /\ Ok(t, x) /\ ~ Excused(x, torn') => Ok(t, x)'
    PROVE  Kept'
<1> SUFFICES ASSUME NEW x \in Elements, ~ Excused(x, torn')
             PROVE  /\ Orphan(x)' => \E u \in Tasks : Holds(u, x)' /\ Ok(u, x)'
                    /\ ~ Orphan(x)' => \A u \in Tasks : Holds(u, x)' => Ok(u, x)'
  BY DEF Kept, Excused
<1>1. ~ Excused(x, torn)
  BY DEF Excused
<1>2. /\ Orphan(x) => \E u \in Tasks : Holds(u, x) /\ Ok(u, x)
      /\ ~ Orphan(x) => \A u \in Tasks : Holds(u, x) => Ok(u, x)
  BY <1>1 DEF EditIInv, Kept
<1>3. Holds(t, x)' <=> Holds(t, x)
  BY DEF Holds
<1>4. \A u \in Tasks \ {t} : Holds(u, x)' <=> Holds(u, x)
  BY DEF Holds, OthersWait
<1>5. CASE Same(x)
  <2>1. \A u \in Tasks \ {t} : Ok(u, x)' <=> Ok(u, x)
    BY <1>5, OkSame DEF OthersWait
  <2>2. Orphan(x)' <=> Orphan(x)
    BY <1>5 DEF Same, Orphan
  <2>3. Holds(t, x) /\ Ok(t, x) => Ok(t, x)'
    OBVIOUS
  <2> QED BY <1>2, <1>3, <1>4, <2>1, <2>2, <2>3
<1>6. CASE Holds(t, x) /\ \A u \in Tasks \ {t} : ~ Holds(u, x)
  <2>1. Ok(t, x)
    BY <1>2, <1>6
  <2>2. Ok(t, x)'
    BY <1>6, <2>1
  <2> QED BY <1>3, <1>4, <1>6, <2>2
<1> QED BY <1>5, <1>6

LEMMA WriteSame ==
    ASSUME NEW u \in Tasks, job'[u].held = job[u].held, job'[u].about = job[u].about,
           job'[u].deletes = job[u].deletes, NEW w,
           w.do \in RequestKinds => job'[u].moved = job[u].moved
    PROVE  WriteOK(u, w)' <=> WriteOK(u, w)
<1>1. \A x : Own(u, x)' <=> Own(u, x)
  BY DEF Own, Holds
<1>2. TiesOK(u, w.ties)' <=> TiesOK(u, w.ties)
  BY <1>1 DEF TiesOK
<1>3. w.do \in RequestKinds => (RequestOK(u, w)' <=> RequestOK(u, w))
  BY DEF RequestOK
<1>4. (w.do \in RequestKinds => RequestOK(u, w))' <=> (w.do \in RequestKinds => RequestOK(u, w))
  BY <1>3
<1> QED BY <1>1, <1>2, <1>4 DEF WriteOK

\* The others' plans are as sound as they were, if no edge of theirs appears.
LEMMA OthersOK ==
    ASSUME EditIInv, NEW t \in Tasks, OthersWait(t),
           \A p \in Pairs : p \in graph' \ graph => Holds(t, p),
           NEW u \in Tasks \ {t}
    PROVE  JobOK(u)'
<1>1. job'[u] = job[u] /\ Work(u)' = Work(u)
  BY DEF OthersWait, Work
<1>2. JobOK(u)
  BY DEF EditIInv
<1>3. \A x : Own(u, x)' <=> Own(u, x)
  BY <1>1 DEF Own, Holds
<1>4. \A w : WriteOK(u, w)' <=> WriteOK(u, w)
  BY <1>1, WriteSame
<1>5. \A w : Alone(u, w)' <=> Alone(u, w)
  BY <1>1 DEF Alone
<1>6. Placed(u)'
  BY <1>1, <1>2, <1>5 DEF JobOK, Placed
<1>7. MovedOK(u)'
  BY <1>1, <1>2, <1>3 DEF JobOK, MovedOK
<1>8. ASSUME NEW s \in Work(u), Renames(u, s) PROVE Renames(u, s)'
  <2>0. s.do = "settle" /\ s.on # s.to
    BY <1>8 DEF Renames
  <2>6. WriteOK(u, s)
    BY <1>2 DEF JobOK
  <2>1. s.on \in Entities /\ s.to \in Entities /\ Own(u, s.on) /\ Own(u, s.to) /\ s.on # s.to
    BY <2>0, <2>6 DEF WriteOK
  <2>2. {s.on, s.to} \in Pairs
    BY <2>1, TwoNames
  <2>3. {s.on, s.to} \subseteq job[u].held
    BY <2>1, OwnHeld
  <2>4. ~ Holds(t, {s.on, s.to})
    BY <2>2, <2>3, Shapes DEF Holds, EditIInv, Apart
  <2>5. {s.on, s.to} \notin graph'
    BY <1>8, <2>2, <2>4 DEF Renames
  <2> QED BY <1>1, <1>8, <2>5 DEF Renames
<1>9. InOrder(u)'
  BY <1>1, <1>2, <1>8 DEF JobOK, InOrder
<1> QED BY <1>1, <1>2, <1>4, <1>6, <1>7, <1>9 DEF JobOK

\* What a step makes of the plan of its task.
Goes(t, w, more) ==
    /\ job' = [u \in Tasks |-> job'[u]]
    /\ OthersWait(t)
    /\ job'[t].held = job[t].held /\ job'[t].about = job[t].about
    /\ job'[t].deletes = job[t].deletes
    /\ job'[t] = [held |-> job'[t].held, about |-> job'[t].about, plan |-> job'[t].plan,
                  moved |-> job'[t].moved, deletes |-> job'[t].deletes,
                  dirty |-> job'[t].dirty, owed |-> job'[t].owed]
    /\ job'[t].plan = Onward(job[t].plan, w, more)

\* The job of t, its plan, its moved edges and the rest of it as given.
JobWith(t, plan, moved, dirty, owed) ==
    [held |-> job[t].held, about |-> job[t].about, plan |-> plan, moved |-> moved,
     deletes |-> job[t].deletes, dirty |-> dirty, owed |-> owed]

LEMMA AdvancedIs ==
    ASSUME EditIInv, NEW t \in Tasks, NEW w, NEW more
    PROVE  Advanced(t, w, more) = JobWith(t, Onward(job[t].plan, w, more), job[t].moved,
                                          job[t].dirty, job[t].owed)
<1>1. job[t] = [held |-> job[t].held, about |-> job[t].about, plan |-> job[t].plan,
                moved |-> job[t].moved, deletes |-> job[t].deletes,
                dirty |-> job[t].dirty, owed |-> job[t].owed]
  BY DEF EditIInv, JobOK, IsJob
<1>2. PICK h, a, p, m, b, d, o :
         job[t] = [held |-> h, about |-> a, plan |-> p, moved |-> m,
                   deletes |-> b, dirty |-> d, owed |-> o]
  BY <1>1
<1>3. PICK q : q = Onward(job[t].plan, w, more)
  OBVIOUS
<1>4. Advanced(t, w, more) = [job[t] EXCEPT !.plan = q]
  BY <1>3 DEF Advanced, Onward
<1>5. Advanced(t, w, more) = [held |-> h, about |-> a, plan |-> q, moved |-> m,
                              deletes |-> b, dirty |-> d, owed |-> o]
  BY <1>2, <1>4
<1> QED BY <1>2, <1>3, <1>5 DEF JobWith

LEMMA Advances ==
    ASSUME EditIInv, NEW t \in Tasks, NEW w, NEW more, NEW moved, NEW dirty, NEW owed,
           Becomes(t, JobWith(t, Onward(job[t].plan, w, more), moved, dirty, owed))
    PROVE  Goes(t, w, more) /\ job'[t].moved = moved
<1>1. PICK j : j = JobWith(t, Onward(job[t].plan, w, more), moved, dirty, owed)
  OBVIOUS
<1>2. /\ j.held = job[t].held /\ j.about = job[t].about /\ j.deletes = job[t].deletes
      /\ j.plan = Onward(job[t].plan, w, more) /\ j.moved = moved
      /\ j = [held |-> j.held, about |-> j.about, plan |-> j.plan, moved |-> j.moved,
              deletes |-> j.deletes, dirty |-> j.dirty, owed |-> j.owed]
  BY <1>1 DEF JobWith
<1>3. job' = [u \in Tasks |-> IF u = t THEN j ELSE job[u]]
  <2>1. job = [u \in Tasks |-> job[u]]
    BY DEF EditIInv
  <2> QED BY <1>1, <2>1 DEF Becomes
<1>4. job'[t] = j /\ OthersWait(t) /\ job' = [u \in Tasks |-> job'[u]]
  BY <1>3 DEF OthersWait
<1> QED BY <1>2, <1>4 DEF Goes

\* Plans stay plans, and what has to come last comes last.
LEMMA GoesOn ==
    ASSUME EditIInv, NEW t \in Tasks, job[t].plan # <<>>, NEW w \in Head(job[t].plan),
           NEW more, IsPlan(more), Goes(t, w, more),
           job'[t].moved = job[t].moved \/ (\A v \in Work(t) : v.do \notin RequestKinds),
           ~ Alone(t, w), \A v \in Todo(more) : WriteOK(t, v)' /\ ~ Alone(t, v)
    PROVE  /\ IsJob(job'[t]) /\ Placed(t)'
           /\ \A v \in Work(t)' : WriteOK(t, v)'
           /\ w \in Work(t) /\ WriteOK(t, w)
           /\ Work(t) \ {w} \subseteq Work(t)' /\ Todo(more) \subseteq Work(t)'
           /\ Work(t)' \subseteq Work(t) \cup Todo(more)
<1>1. JobOK(t) /\ IsPlan(job[t].plan)
  BY DEF EditIInv, JobOK, IsJob
<1>2. /\ IsPlan(job'[t].plan) /\ w \in Work(t)
      /\ Work(t)' = Todo(more) \cup (Head(job[t].plan) \ {w}) \cup Todo(Tail(job[t].plan))
      /\ Work(t) = Head(job[t].plan) \cup Todo(Tail(job[t].plan))
  BY <1>1, OnwardPlan DEF Goes, Work
<1>3. IsJob(job'[t])
  BY <1>1, <1>2 DEF Goes, JobOK, IsJob
<1>4. \A v : Alone(t, v)' <=> Alone(t, v)
  BY DEF Alone, Goes
<1>5. ASSUME NEW v \in Work(t)' PROVE WriteOK(t, v)'
  <2>1. CASE v \in Todo(more)
    BY <2>1
  <2>2. CASE v \in Work(t)
    <3>1. WriteOK(t, v)
      BY <1>1, <2>2 DEF JobOK
    <3> QED BY <2>2, <3>1, WriteSame DEF Goes
  <2> QED BY <1>2, <2>1, <2>2
<1>6. Placed(t)'
  <2> DEFINE A == {v \in Work(t) : Alone(t, v)}
             B == {v \in Work(t)' : Alone(t, v)}
  <2>1. OnlyLast(Onward(job[t].plan, w, more), A \cup B)
    <3>1. OnlyLast(job[t].plan, A)
      BY <1>1 DEF JobOK, Placed
    <3>2. B \subseteq A
      BY <1>2
    <3>3. w \notin A /\ Todo(more) \cap A = {}
      OBVIOUS
    <3>4. A \cup B = A
      BY <3>2
    <3> HIDE DEF A, B
    <3>5. OnlyLast(Onward(job[t].plan, w, more), A)
      BY <1>1, <3>1, <3>3, StillLast
    <3> QED BY <3>4, <3>5
  <2>2. OnlyLast(job'[t].plan, B)
    <3> HIDE DEF A, B
    <3> QED BY <2>1 DEF Goes, OnlyLast
  <2>3. B = {v \in Work(t)' : Alone(t, v)'}
    BY <1>4
  <2> QED BY <2>2, <2>3 DEF Placed
<1> QED BY <1>1, <1>2, <1>3, <1>5, <1>6 DEF JobOK

\* The last write of a plan makes the whole of the next one.
LEMMA GoesAnew ==
    ASSUME EditIInv, NEW t \in Tasks, job[t].plan # <<>>, NEW w \in Head(job[t].plan),
           NEW more, IsPlan(more), Goes(t, w, more), job'[t].moved = job[t].moved,
           Alone(t, w), \A v \in Todo(more) : WriteOK(t, v),
           OnlyLast(more, {v \in Todo(more) : Alone(t, v)})
    PROVE  /\ IsJob(job'[t]) /\ Placed(t)'
           /\ \A v \in Work(t)' : WriteOK(t, v)'
           /\ Work(t) = {w} /\ WriteOK(t, w)
           /\ job'[t].plan = more /\ Work(t)' = Todo(more)
<1>1. JobOK(t) /\ IsPlan(job[t].plan)
  BY DEF EditIInv, JobOK, IsJob
<1>2. w \in Work(t)
  BY <1>1, OnwardPlan DEF Work
<1>3. Work(t) = {w} /\ job'[t].plan = more /\ Work(t)' = Todo(more)
  <2> DEFINE A == {v \in Work(t) : Alone(t, v)}
  <2>1. w \in A /\ OnlyLast(job[t].plan, A)
    BY <1>1, <1>2 DEF JobOK, Placed
  <2> HIDE DEF A
  <2>2. Todo(job[t].plan) = {w} /\ Onward(job[t].plan, w, more) = more
    BY <1>1, <2>1, WasLast
  <2> QED BY <2>2 DEF Goes, Work
<1>4. IsJob(job'[t])
  BY <1>1, <1>3 DEF Goes, JobOK, IsJob
<1>5. \A v \in Work(t)' : WriteOK(t, v)'
  BY <1>3, WriteSame DEF Goes
<1>6. Placed(t)'
  <2>1. \A v : Alone(t, v)' <=> Alone(t, v)
    BY DEF Alone, Goes
  <2>2. {v \in Work(t)' : Alone(t, v)'} = {v \in Todo(more) : Alone(t, v)}
    BY <1>3, <2>1
  <2> QED BY <1>3, <2>2 DEF Placed
<1> QED BY <1>1, <1>2, <1>3, <1>4, <1>5, <1>6 DEF JobOK

\* A rename begins with a put, a relink or moves, and drops nothing meanwhile.
LEMMA RenameHead ==
    ASSUME EditIInv, NEW t \in Tasks, NEW s \in Work(t), Renames(t, s), NEW w \in Head(job[t].plan)
    PROVE  w.do \in {"put", "relink", "move"}
<1>1. \A M : Head(After(M, s)) = M
  BY DEF After
<1>2. \A v : Head(Beginning(v, s)) = {v}
  BY DEF Beginning
<1>3. \A v \in MovesOf(s) : v.do = "move"
  BY DEF MovesOf
<1>4. RelinkIt(s).do = "relink"
  BY DEF RelinkIt
<1>5. CASE \E v \in Work(t) : v.do = "put" /\ job[t].plan = Beginning(v, s)
  BY <1>2, <1>5
<1>6. CASE job[t].plan = After({RelinkIt(s)}, s)
  BY <1>1, <1>4, <1>6
<1>7. CASE \E M \in SUBSET MovesOf(s) : job[t].plan = After(M, s)
  BY <1>1, <1>3, <1>7
<1> QED BY <1>5, <1>6, <1>7 DEF Renames

LEMMA Ordered ==
    ASSUME EditIInv, NEW t \in Tasks, NEW w \in Head(job[t].plan), w.do \notin {"put", "relink", "move"},
           NEW more, Work(t)' \subseteq Work(t) \cup Todo(more),
           \A v \in Todo(more) : v.do \notin {"relink", "move"}
    PROVE  InOrder(t)' /\ \A v \in Work(t) : v.do \notin {"relink", "move"}
<1>1. InOrder(t)
  BY DEF EditIInv, JobOK
<1>2. \A v \in Work(t) : v.do \notin {"relink", "move"}
  BY <1>1, RenameHead DEF InOrder
<1> QED BY <1>2 DEF InOrder

\* What is still to come, and what is not.
LEMMA Pending ==
    ASSUME NEW t \in Tasks, NEW w, NEW x, Work(t) \ {w} \subseteq Work(t)',
           job'[t].moved = job[t].moved, x \in graph => x \in graph'
    PROVE  /\ Made(t, x) => Made(t, x)' \/ Makes(w, x)
           /\ Unembedded(t, x) => Unembedded(t, x)' \/ Unembeds(t, w, x)
           /\ Untracked(t, x) => Untracked(t, x)' \/ Untracks(t, w, x)
<1>1. \A v : Withdraws(t, v, x) => Withdraws(t, v, x)'
  BY DEF Withdraws
<1>2. Made(t, x) => Made(t, x)' \/ Makes(w, x)
  BY DEF Made
<1>3. Unembedded(t, x) => Unembedded(t, x)' \/ Unembeds(t, w, x)
  BY <1>1 DEF Unembedded, Unembeds
<1>4. Untracked(t, x) => Untracked(t, x)' \/ Untracks(t, w, x)
  BY <1>1 DEF Untracked, Untracks
<1> QED BY <1>2, <1>3, <1>4

LEMMA NotPending ==
    ASSUME NEW t \in Tasks, NEW x, NEW M, Work(t)' \subseteq Work(t) \cup M,
           job'[t].moved = job[t].moved
    PROVE  /\ Lost(t, x)' => Lost(t, x) \/ \E v \in M : Drops(v, x)
           /\ Filled(t, x)' => Filled(t, x) \/ \E v \in M : Fills(t, v, x)
<1>1. \A v : Fills(t, v, x)' <=> Fills(t, v, x)
  BY DEF Fills
<1> QED BY <1>1 DEF Lost, Filled

\* What a step has to show.
LEMMA Continues ==
    ASSUME EditIInv, NEW t \in Tasks, NEW w, NEW more, Goes(t, w, more), StoresOK', JobOK(t)',
           torn \subseteq torn', \A p \in Pairs : p \in graph' \ graph => Holds(t, p),
           \A x \in Elements : Same(x) \/ Excused(x, torn')
                               \/ (Holds(t, x) /\ \A u \in Tasks \ {t} : ~ Holds(u, x)),
           \A x \in Elements : Holds(t, x) /\ Ok(t, x) /\ ~ Excused(x, torn') => Ok(t, x)'
    PROVE  EditIInv'
<1>1. Kept'
  BY Carries DEF Goes
<1>2. Apart'
  <2>1. \A u \in Tasks : job'[u].held = job[u].held
    BY DEF Goes, OthersWait
  <2> QED BY <2>1 DEF EditIInv, Apart
<1>3. \A u \in Tasks : JobOK(u)'
  BY OthersOK DEF Goes
<1> QED BY <1>1, <1>2, <1>3 DEF EditIInv, Goes

-----------------------------------------------------------------------------
(* What the steps have in common.                                           *)

LEMMA WithDirty ==
    ASSUME NEW k, NEW h, NEW a, NEW q, NEW m, NEW b, NEW d, NEW o,
           k = [held |-> h, about |-> a, plan |-> q, moved |-> m, deletes |-> b, dirty |-> d, owed |-> o],
           NEW j, j = [k EXCEPT !.dirty = TRUE]
    PROVE  j = [held |-> h, about |-> a, plan |-> q, moved |-> m, deletes |-> b, dirty |-> j.dirty, owed |-> o]
OBVIOUS

LEMMA WithOwed ==
    ASSUME NEW k, NEW h, NEW a, NEW q, NEW m, NEW b, NEW d, NEW o, NEW owed,
           k = [held |-> h, about |-> a, plan |-> q, moved |-> m, deletes |-> b, dirty |-> d, owed |-> o],
           NEW j, j = [k EXCEPT !.owed = owed]
    PROVE  j = [held |-> h, about |-> a, plan |-> q, moved |-> m, deletes |-> b, dirty |-> j.dirty, owed |-> owed]
OBVIOUS

LEMMA WithMoved ==
    ASSUME NEW k, NEW h, NEW a, NEW q, NEW m, NEW b, NEW d, NEW o, NEW moved, NEW owed,
           k = [held |-> h, about |-> a, plan |-> q, moved |-> m, deletes |-> b, dirty |-> d, owed |-> o],
           NEW j, j = [k EXCEPT !.dirty = TRUE, !.moved = moved, !.owed = owed]
    PROVE  j = [held |-> h, about |-> a, plan |-> q, moved |-> moved, deletes |-> b, dirty |-> j.dirty, owed |-> owed]
OBVIOUS

LEMMA CleanGoes ==
    ASSUME EditIInv, NEW t \in Tasks, NEW w, NEW more,
           Becomes(t, Advanced(t, w, more))
    PROVE  Goes(t, w, more) /\ job'[t].moved = job[t].moved
<1>1. PICK q : q = Onward(job[t].plan, w, more)
  OBVIOUS
<1>2. Advanced(t, w, more) = JobWith(t, q, job[t].moved, job[t].dirty, job[t].owed)
  BY <1>1, AdvancedIs
<1> QED BY <1>1, <1>2, Advances

LEMMA DirtyGoes ==
    ASSUME EditIInv, NEW t \in Tasks, NEW w, NEW more,
           Becomes(t, [Advanced(t, w, more) EXCEPT !.dirty = TRUE])
    PROVE  Goes(t, w, more) /\ job'[t].moved = job[t].moved
<1>1. PICK k, h, a, q, m, b, d, o :
         /\ k = Advanced(t, w, more) /\ q = Onward(job[t].plan, w, more)
         /\ h = job[t].held /\ a = job[t].about /\ m = job[t].moved
         /\ b = job[t].deletes /\ d = job[t].dirty /\ o = job[t].owed
  OBVIOUS
<1>2. k = [held |-> h, about |-> a, plan |-> q, moved |-> m, deletes |-> b, dirty |-> d, owed |-> o]
  BY <1>1, AdvancedIs DEF JobWith
<1>3. PICK j : j = [k EXCEPT !.dirty = TRUE]
  OBVIOUS
<1>4. PICK c : c = j.dirty
  OBVIOUS
<1>5. j = [held |-> h, about |-> a, plan |-> q, moved |-> m, deletes |-> b, dirty |-> c, owed |-> o]
  BY <1>2, <1>3, <1>4, WithDirty
<1>6. j = JobWith(t, q, job[t].moved, c, job[t].owed)
  BY <1>1, <1>5 DEF JobWith
<1>7. Becomes(t, j)
  BY <1>1, <1>3
<1> QED BY <1>1, <1>6, <1>7, Advances

LEMMA OwedGoes ==
    ASSUME EditIInv, NEW t \in Tasks, NEW w, NEW more, NEW owed,
           Becomes(t, [Advanced(t, w, more) EXCEPT !.owed = owed])
    PROVE  Goes(t, w, more) /\ job'[t].moved = job[t].moved
<1>1. PICK k, h, a, q, m, b, d, o :
         /\ k = Advanced(t, w, more) /\ q = Onward(job[t].plan, w, more)
         /\ h = job[t].held /\ a = job[t].about /\ m = job[t].moved
         /\ b = job[t].deletes /\ d = job[t].dirty /\ o = job[t].owed
  OBVIOUS
<1>2. k = [held |-> h, about |-> a, plan |-> q, moved |-> m, deletes |-> b, dirty |-> d, owed |-> o]
  BY <1>1, AdvancedIs DEF JobWith
<1>3. PICK j : j = [k EXCEPT !.owed = owed]
  OBVIOUS
<1>4. PICK c : c = j.dirty
  OBVIOUS
<1>5. j = [held |-> h, about |-> a, plan |-> q, moved |-> m, deletes |-> b, dirty |-> c, owed |-> owed]
  BY <1>2, <1>3, <1>4, WithOwed
<1>6. j = JobWith(t, q, job[t].moved, c, owed)
  BY <1>1, <1>5 DEF JobWith
<1>7. Becomes(t, j)
  BY <1>1, <1>3
<1> QED BY <1>1, <1>6, <1>7, Advances

LEMMA MovedGoes ==
    ASSUME EditIInv, NEW t \in Tasks, NEW w, NEW more, NEW moved, NEW owed,
           Becomes(t, [Advanced(t, w, more) EXCEPT !.dirty = TRUE, !.moved = moved, !.owed = owed])
    PROVE  Goes(t, w, more) /\ job'[t].moved = moved
<1>1. PICK k, h, a, q, m, b, d, o :
         /\ k = Advanced(t, w, more) /\ q = Onward(job[t].plan, w, more)
         /\ h = job[t].held /\ a = job[t].about /\ m = job[t].moved
         /\ b = job[t].deletes /\ d = job[t].dirty /\ o = job[t].owed
  OBVIOUS
<1>2. k = [held |-> h, about |-> a, plan |-> q, moved |-> m, deletes |-> b, dirty |-> d, owed |-> o]
  BY <1>1, AdvancedIs DEF JobWith
<1>3. PICK j : j = [k EXCEPT !.dirty = TRUE, !.moved = moved, !.owed = owed]
  OBVIOUS
<1>4. PICK c : c = j.dirty
  OBVIOUS
<1>5. j = [held |-> h, about |-> a, plan |-> q, moved |-> moved, deletes |-> b, dirty |-> c, owed |-> owed]
  BY <1>2, <1>3, <1>4, WithMoved
<1>6. j = JobWith(t, q, moved, c, owed)
  BY <1>1, <1>5 DEF JobWith
<1>7. Becomes(t, j)
  BY <1>1, <1>3
<1> QED BY <1>1, <1>6, <1>7, Advances

LEMMA Wrote_Goes ==
    ASSUME EditIInv, NEW t \in Tasks, NEW w, NEW more, NEW S \in SUBSET Elements, Wrote(t, w, more, S)
    PROVE  /\ Goes(t, w, more) /\ job'[t].moved = job[t].moved
           /\ torn' = Marked(t, EntsOf(S)) /\ torn \subseteq torn' /\ torn' \subseteq Elements
           /\ halved' = halved
<1>2. Goes(t, w, more) /\ job'[t].moved = job[t].moved
  BY DirtyGoes DEF Wrote
<1>3. EntsOf(S) \subseteq Elements
  BY Shapes DEF EntsOf
<1>4. torn \subseteq Elements
  BY DEF EditIInv, StoresOK
<1> QED BY <1>2, <1>3, <1>4 DEF Wrote, Marked

LEMMA Plan_Goes ==
    ASSUME EditIInv, NEW t \in Tasks, NEW w, NEW more, Plan(t, w, more)
    PROVE  /\ Goes(t, w, more) /\ job'[t].moved = job[t].moved
           /\ torn' = torn /\ StoresOK' /\ graph' = graph /\ vec' = vec /\ track' = track
<1>2. Goes(t, w, more) /\ job'[t].moved = job[t].moved
  BY CleanGoes DEF Plan
<1>3. StoresOK'
  BY DEF EditIInv, StoresOK, Plan, stores, ghost
<1> QED BY <1>2, <1>3 DEF Plan, stores, ghost

LEMMA SameOwn ==
    ASSUME NEW t \in Tasks, NEW w, NEW more, Goes(t, w, more)
    PROVE  \A x : Own(t, x)' <=> Own(t, x)
BY DEF Own, Holds, Goes

\* A write of a plan, other than those of a rename, leaves a sound plan.
LEMMA Fits ==
    ASSUME EditIInv, NEW t \in Tasks, job[t].plan # <<>>, NEW w \in Head(job[t].plan),
           NEW more, IsPlan(more), Goes(t, w, more), job'[t].moved = job[t].moved,
           ~ Alone(t, w), \A v \in Todo(more) : WriteOK(t, v) /\ ~ Alone(t, v)
    PROVE  /\ w \in Work(t) /\ WriteOK(t, w)
           /\ Work(t) \ {w} \subseteq Work(t)' /\ Todo(more) \subseteq Work(t)'
           /\ Work(t)' \subseteq Work(t) \cup Todo(more)
           /\ InOrder(t)' => JobOK(t)'
           /\ w.do \notin {"put", "relink", "move"} /\ (\A v \in Todo(more) : v.do \notin {"relink", "move"})
              => JobOK(t)' /\ \A v \in Work(t) : v.do \notin {"relink", "move"}
<1>1. \A v \in Todo(more) : WriteOK(t, v)' /\ ~ Alone(t, v)
  BY WriteSame DEF Goes
<1>2. /\ IsJob(job'[t]) /\ Placed(t)'
      /\ \A v \in Work(t)' : WriteOK(t, v)'
      /\ w \in Work(t) /\ WriteOK(t, w)
      /\ Work(t) \ {w} \subseteq Work(t)' /\ Todo(more) \subseteq Work(t)'
      /\ Work(t)' \subseteq Work(t) \cup Todo(more)
  BY <1>1, GoesOn
<1>3. MovedOK(t)'
  <2>1. MovedOK(t)
    BY DEF EditIInv, JobOK
  <2> QED BY <2>1, SameOwn DEF MovedOK
<1>4. InOrder(t)' => JobOK(t)'
  BY <1>2, <1>3 DEF JobOK
<1>5. w.do \notin {"put", "relink", "move"} /\ (\A v \in Todo(more) : v.do \notin {"relink", "move"})
      => InOrder(t)' /\ \A v \in Work(t) : v.do \notin {"relink", "move"}
  BY <1>2, Ordered
<1> QED BY <1>2, <1>4, <1>5

\* What t changes of its own is nobody else's, or is excused.
LEMMA Touched ==
    ASSUME EditIInv, NEW t \in Tasks, NEW S \in SUBSET Elements, Marked(t, EntsOf(S)) \subseteq torn',
           NEW x \in S, Holds(t, x)
    PROVE  Excused(x, torn') \/ (Holds(t, x) /\ \A u \in Tasks \ {t} : ~ Holds(u, x))
<1>1. Ents(x) \subseteq EntsOf(S)
  BY DEF EntsOf
<1>2. CASE \E u \in Tasks \ {t} : Holds(u, x)
  BY <1>1, <1>2, Straying
<1> QED BY <1>2

\* The element that is neither lost nor left behind by a step.
LEMMA OkAfter ==
    ASSUME NEW t \in Tasks, NEW w, NEW x \in Elements, NEW more, Goes(t, w, more),
           Work(t) \ {w} \subseteq Work(t)', Work(t)' \subseteq Work(t) \cup Todo(more),
           job'[t].moved = job[t].moved, Ok(t, x),
           x \in graph => x \in graph', Makes(w, x) => Made(t, x)',
           \A v \in Todo(more) : ~ Drops(v, x) /\ (Fills(t, v, x) => Filled(t, x)),
           ~ Filled(t, x) /\ x \in vec' =>
               x \in vec /\ (Unembeds(t, w, x) => Unembedded(t, x)'),
           ~ Filled(t, x) /\ track'[x] # {} =>
               track[x] # {} /\ (Untracks(t, w, x) => Untracked(t, x)'),
           job[t].deletes /\ Orphan(x)' => Orphan(x)
    PROVE  Ok(t, x)'
<1>1. /\ Made(t, x) => Made(t, x)'
      /\ Unembedded(t, x) => Unembedded(t, x)' \/ Unembeds(t, w, x)
      /\ Untracked(t, x) => Untracked(t, x)' \/ Untracks(t, w, x)
  BY Pending
<1>2. (Lost(t, x)' => Lost(t, x)) /\ (Filled(t, x)' => Filled(t, x))
  BY NotPending
<1>3. Stays(t, x) => Stays(t, x)'
  BY <1>1, <1>2 DEF Stays
<1>4. Clears(t, x) => Clears(t, x)'
  BY <1>1, <1>2 DEF Clears
<1> QED BY <1>3, <1>4 DEF Ok, Goes

-----------------------------------------------------------------------------
(* The writes.                                                              *)

LEMMA AtHand ==
    ASSUME EditIInv, NEW t \in Tasks, job[t].plan # <<>>, NEW w \in Head(job[t].plan)
    PROVE  w \in Work(t) /\ WriteOK(t, w) /\ JobOK(t) /\ StoresOK /\ IsPlan(job[t].plan)
<1>1. JobOK(t) /\ StoresOK /\ IsPlan(job[t].plan)
  BY DEF EditIInv, JobOK, IsJob
<1>2. Work(t) = Head(job[t].plan) \cup Todo(Tail(job[t].plan))
  BY <1>1, HeadTail DEF Work
<1> QED BY <1>1, <1>2 DEF JobOK

\* A write after which nothing else is planned, and which does not touch the graph.
LEMMA Single ==
    ASSUME EditIInv, NEW t \in Tasks, job[t].plan # <<>>, NEW w \in Head(job[t].plan),
           w.do \in {"embed", "unembed", "track", "untrack"},
           Goes(t, w, <<>>), job'[t].moved = job[t].moved,
           StoresOK', graph' = graph, torn \subseteq torn',
           \A x \in Elements : Same(x) \/ Excused(x, torn')
                               \/ (Holds(t, x) /\ \A u \in Tasks \ {t} : ~ Holds(u, x)),
           \A x \in Elements : ~ Excused(x, torn') =>
               /\ ~ Filled(t, x) /\ x \in vec' => x \in vec /\ ~ Unembeds(t, w, x)
               /\ ~ Filled(t, x) /\ track'[x] # {} => track[x] # {} /\ ~ Untracks(t, w, x)
               /\ job[t].deletes /\ Orphan(x)' => Orphan(x)
    PROVE  EditIInv'
<1>1. IsPlan(<<>>) /\ Todo(<<>>) = {}
  BY PlanOfNone
<1>2. ~ Alone(t, w) /\ w.do \notin {"put", "relink", "move"} /\ \A x : ~ Makes(w, x)
  BY DEF Alone, RequestKinds, Makes
<1>3. /\ Work(t) \ {w} \subseteq Work(t)' /\ Work(t)' \subseteq Work(t) \cup Todo(<<>>)
      /\ JobOK(t)'
  BY <1>1, <1>2, Fits
<1>4. ASSUME NEW x \in Elements, Ok(t, x), ~ Excused(x, torn') PROVE Ok(t, x)'
  BY <1>1, <1>2, <1>3, <1>4, OkAfter
<1> QED BY <1>3, <1>4, Continues

LEMMA EmbedKeeps ==
    ASSUME EditIInv, NEW t \in Tasks, job[t].plan # <<>>, NEW w \in Head(job[t].plan), Embed(t, w)
    PROVE  EditIInv'
<1>1. w \in Work(t) /\ WriteOK(t, w) /\ StoresOK
  BY AtHand
<1>2. w.do = "embed" /\ w.on \subseteq Elements /\ (\A x \in w.on : Holds(t, x)) /\ ~ job[t].deletes
  <2>1. w.do = "embed"
    BY DEF Embed
  <2> QED BY <1>1, <2>1 DEF WriteOK, Own, RequestKinds
<1>3. /\ Goes(t, w, <<>>) /\ job'[t].moved = job[t].moved
      /\ torn' = Marked(t, EntsOf(w.on)) /\ torn \subseteq torn' /\ torn' \subseteq Elements
      /\ halved' = halved
  BY <1>2, Wrote_Goes DEF Embed
<1>4. StoresOK' /\ graph' = graph
  BY <1>1, <1>2, <1>3 DEF StoresOK, Embed
<1>5. ASSUME NEW x \in Elements
      PROVE  Same(x) \/ Excused(x, torn') \/ (Holds(t, x) /\ \A u \in Tasks \ {t} : ~ Holds(u, x))
  <2>1. CASE x \in w.on
    BY <1>2, <1>3, <2>1, Touched
  <2>2. CASE x \notin w.on
    BY <2>2 DEF Same, Embed
  <2> QED BY <2>1, <2>2
<1>6. ASSUME NEW x \in Elements
      PROVE  /\ ~ Filled(t, x) /\ x \in vec' => x \in vec /\ ~ Unembeds(t, w, x)
             /\ ~ Filled(t, x) /\ track'[x] # {} => track[x] # {} /\ ~ Untracks(t, w, x)
  <2>1. ~ Filled(t, x) => x \notin w.on
    BY <1>1, <1>2 DEF Filled, Fills
  <2>2. ~ Unembeds(t, w, x) /\ ~ Untracks(t, w, x)
    BY <1>2 DEF Unembeds, Untracks, Withdraws
  <2> QED BY <2>1, <2>2 DEF Embed
<1> QED BY <1>2, <1>3, <1>4, <1>5, <1>6, Single

LEMMA UnembedKeeps ==
    ASSUME EditIInv, NEW t \in Tasks, job[t].plan # <<>>, NEW w \in Head(job[t].plan), Unembed(t, w)
    PROVE  EditIInv'
<1>1. w \in Work(t) /\ WriteOK(t, w) /\ StoresOK
  BY AtHand
<1>2. w.do = "unembed" /\ w.on \subseteq Elements /\ (\A x \in w.on : Holds(t, x))
  <2>1. w.do = "unembed"
    BY DEF Unembed
  <2> QED BY <1>1, <2>1 DEF WriteOK, Own
<1>3. /\ Goes(t, w, <<>>) /\ job'[t].moved = job[t].moved
      /\ torn' = Marked(t, EntsOf(w.on \cap vec)) /\ torn \subseteq torn' /\ torn' \subseteq Elements
      /\ halved' = halved
  BY <1>2, Wrote_Goes DEF Unembed
<1>4. StoresOK' /\ graph' = graph
  BY <1>1, <1>2, <1>3 DEF StoresOK, Unembed
<1>5. ASSUME NEW x \in Elements
      PROVE  Same(x) \/ Excused(x, torn') \/ (Holds(t, x) /\ \A u \in Tasks \ {t} : ~ Holds(u, x))
  <2>1. CASE x \in w.on \cap vec
    <3> DEFINE S == w.on \cap vec
    <3>1. S \in SUBSET Elements /\ x \in S /\ Marked(t, EntsOf(S)) \subseteq torn' /\ Holds(t, x)
      BY <1>2, <1>3, <2>1
    <3> HIDE DEF S
    <3> QED BY <3>1, Touched
  <2>2. CASE x \notin w.on \cap vec
    BY <2>2 DEF Same, Unembed
  <2> QED BY <2>1, <2>2
<1>6. ASSUME NEW x \in Elements
      PROVE  /\ x \in vec' => x \in vec /\ ~ Unembeds(t, w, x)
             /\ track'[x] = track[x] /\ ~ Untracks(t, w, x)
             /\ Orphan(x)' => Orphan(x)
  <2>1. (Unembeds(t, w, x) => x \in w.on) /\ ~ Untracks(t, w, x)
    BY <1>2 DEF Unembeds, Untracks, Withdraws
  <2> QED BY <2>1 DEF Unembed, Orphan
<1> QED BY <1>2, <1>3, <1>4, <1>5, <1>6, Single

LEMMA TrackKeeps ==
    ASSUME EditIInv, NEW t \in Tasks, job[t].plan # <<>>, NEW w \in Head(job[t].plan), Track(t, w)
    PROVE  EditIInv'
<1>1. w \in Work(t) /\ WriteOK(t, w) /\ StoresOK
  BY AtHand
<1>2. /\ w.do = "track" /\ DOMAIN w.lists \subseteq Elements /\ ~ job[t].deletes
      /\ \A x \in DOMAIN w.lists : Holds(t, x) /\ w.lists[x] \subseteq Chunks
  <2>1. w.do = "track"
    BY DEF Track
  <2>2. \A x \in DOMAIN w.lists : Own(t, x) /\ w.lists[x] \subseteq Chunks
    BY <1>1, <2>1 DEF WriteOK
  <2>3. ~ job[t].deletes
    BY <1>1, <2>1 DEF WriteOK, RequestKinds
  <2> QED BY <2>1, <2>2, <2>3 DEF Own
<1> DEFINE S == DOMAIN w.lists
<1>3. /\ Goes(t, w, <<>>) /\ job'[t].moved = job[t].moved
      /\ torn' = Marked(t, EntsOf(S)) /\ torn \subseteq torn' /\ torn' \subseteq Elements
      /\ halved' = halved
  <2>1. S \in SUBSET Elements /\ Wrote(t, w, <<>>, S)
    BY <1>2 DEF Track
  <2> HIDE DEF S
  <2> QED BY <2>1, Wrote_Goes
<1>4. StoresOK' /\ graph' = graph
  BY <1>1, <1>2, <1>3 DEF StoresOK, Track
<1>5. ASSUME NEW x \in Elements
      PROVE  Same(x) \/ Excused(x, torn') \/ (Holds(t, x) /\ \A u \in Tasks \ {t} : ~ Holds(u, x))
  <2>1. CASE x \in S
    <3>1. S \in SUBSET Elements /\ x \in S /\ Marked(t, EntsOf(S)) \subseteq torn' /\ Holds(t, x)
      BY <1>2, <1>3, <2>1
    <3> HIDE DEF S
    <3> QED BY <3>1, Touched
  <2>2. CASE x \notin S
    BY <2>2 DEF Same, Track
  <2> QED BY <2>1, <2>2
<1>6. ASSUME NEW x \in Elements
      PROVE  /\ ~ Filled(t, x) /\ x \in vec' => x \in vec /\ ~ Unembeds(t, w, x)
             /\ ~ Filled(t, x) /\ track'[x] # {} => track[x] # {} /\ ~ Untracks(t, w, x)
  <2>1. ~ Filled(t, x) => x \notin DOMAIN w.lists
    BY <1>1, <1>2 DEF Filled, Fills
  <2>2. ~ Unembeds(t, w, x) /\ ~ Untracks(t, w, x)
    BY <1>2 DEF Unembeds, Untracks, Withdraws
  <2> QED BY <2>1, <2>2 DEF Track
<1> QED BY <1>2, <1>3, <1>4, <1>5, <1>6, Single

LEMMA UntrackKeeps ==
    ASSUME EditIInv, NEW t \in Tasks, job[t].plan # <<>>, NEW w \in Head(job[t].plan), Untrack(t, w)
    PROVE  EditIInv'
<1>1. w \in Work(t) /\ WriteOK(t, w) /\ StoresOK
  BY AtHand
<1>2. w.do = "untrack" /\ w.on \subseteq Elements /\ (\A x \in w.on : Holds(t, x))
  <2>1. w.do = "untrack"
    BY DEF Untrack
  <2> QED BY <1>1, <2>1 DEF WriteOK, Own
<1> DEFINE S == {x \in w.on : track[x] # {}}
<1>3. /\ Goes(t, w, <<>>) /\ job'[t].moved = job[t].moved
      /\ torn' = Marked(t, EntsOf(S)) /\ torn \subseteq torn' /\ torn' \subseteq Elements
      /\ halved' = halved
  <2>1. S \in SUBSET Elements /\ Wrote(t, w, <<>>, S)
    BY <1>2 DEF Untrack
  <2> HIDE DEF S
  <2> QED BY <2>1, Wrote_Goes
<1>4. StoresOK' /\ graph' = graph
  BY <1>1, <1>2, <1>3 DEF StoresOK, Untrack
<1>5. ASSUME NEW x \in Elements
      PROVE  Same(x) \/ Excused(x, torn') \/ (Holds(t, x) /\ \A u \in Tasks \ {t} : ~ Holds(u, x))
  <2>1. CASE x \in S
    <3>1. S \in SUBSET Elements /\ x \in S /\ Marked(t, EntsOf(S)) \subseteq torn' /\ Holds(t, x)
      BY <1>2, <1>3, <2>1
    <3> HIDE DEF S
    <3> QED BY <3>1, Touched
  <2>2. CASE x \notin S
    BY <2>2 DEF Same, Untrack
  <2> QED BY <2>1, <2>2
<1>6. ASSUME NEW x \in Elements
      PROVE  /\ x \in vec' => x \in vec /\ ~ Unembeds(t, w, x)
             /\ track'[x] # {} => track[x] # {} /\ ~ Untracks(t, w, x)
             /\ Orphan(x)' => Orphan(x)
  <2>1. (Untracks(t, w, x) => x \in w.on) /\ ~ Unembeds(t, w, x)
    BY <1>2 DEF Unembeds, Untracks, Withdraws
  <2> QED BY <2>1 DEF Untrack, Orphan
<1> QED BY <1>2, <1>3, <1>4, <1>5, <1>6, Single

LEMMA SwallowKeeps ==
    ASSUME EditIInv, NEW t \in Tasks, job[t].plan # <<>>, NEW w \in Head(job[t].plan), Swallow(t, w)
    PROVE  EditIInv'
<1>1. w \in Work(t) /\ WriteOK(t, w) /\ StoresOK
  BY AtHand
<1>2. w.do \in {"embed", "unembed"} /\ w.on \subseteq Elements
  <2>1. w.do \in {"embed", "unembed"}
    BY DEF Swallow
  <2> QED BY <1>1, <2>1 DEF WriteOK, Own
<1>3. Goes(t, w, <<>>) /\ job'[t].moved = job[t].moved
  BY DirtyGoes DEF Swallow
<1>4. /\ StoresOK' /\ graph' = graph /\ vec' = vec /\ track' = track
      /\ torn' = torn \cup w.on
  BY <1>1, <1>2 DEF StoresOK, Swallow, stores
<1>5. \A x \in Elements : Same(x)
  BY <1>4 DEF Same
<1>6. ASSUME NEW x \in Elements, ~ Excused(x, torn')
      PROVE  /\ ~ Unembeds(t, w, x) /\ ~ Untracks(t, w, x)
             /\ Orphan(x)' => Orphan(x)
  <2>1. x \notin w.on
    BY <1>4, <1>6 DEF Excused
  <2> QED BY <1>2, <1>4, <2>1 DEF Unembeds, Untracks, Withdraws, Orphan
<1> QED BY <1>2, <1>3, <1>4, <1>5, <1>6, Single

-----------------------------------------------------------------------------
(* The writes of a rename.                                                  *)

\* What follows the moves.
Rest(s) == <<{DropIt(s.on, <<>>)}, {UnembedThem({s.on})}, {s}>>

LEMMA SameTuple ==
    ASSUME NEW X, NEW p \in Seq(X), NEW q \in Seq(X), NEW r \in Seq(X), Len(p) = 1, Len(r) = Len(q) + 1,
           r[1] = p[1], \A i \in 1..Len(q) : r[i + 1] = q[i]
    PROVE p \o q = r
<1> DEFINE s == p \o q
<1>1. /\ s \in Seq(X) /\ Len(s) = Len(p) + Len(q)
      /\ \A i \in 1..Len(p) : s[i] = p[i]
      /\ \A i \in 1..Len(q) : s[Len(p) + i] = q[i]
  <2>1. /\ s \in Seq(X) /\ Len(s) = Len(p) + Len(q)
        /\ \A i \in 1..Len(p) + Len(q) : s[i] = IF i <= Len(p) THEN p[i] ELSE q[i - Len(p)]
    BY ConcatProperties
  <2>2. Len(p) \in Nat /\ Len(q) \in Nat
    OBVIOUS
  <2> HIDE DEF s
  <2> QED BY <2>1, <2>2
<1>3. Len(q) \in Nat
  OBVIOUS
<1> HIDE DEF s
<1>2. \A i \in 1..Len(r) : s[i] = r[i]
  <2> SUFFICES ASSUME NEW i \in 1..Len(r) PROVE s[i] = r[i]
    OBVIOUS
  <2>1. CASE i = 1
    BY <2>1, <1>1
  <2>2. CASE i # 1
    <3>1. PICK j \in 1..Len(q) : i = j + 1
      <4>1. i - 1 \in 1..Len(q) /\ i = (i - 1) + 1
        BY <2>2, <1>3
      <4> QED BY <4>1
    <3>2. s[i] = q[j] /\ r[i] = q[j]
      BY <3>1, <1>1
    <3> QED BY <3>2
  <2> QED BY <2>1, <2>2
<1>4. Len(s) = Len(r)
  BY <1>1, <1>3
<1>5. s = r
  BY <1>1, <1>2, <1>4, SeqEqual
<1> QED BY <1>5 DEF s

LEMMA JoinThree ==
    ASSUME NEW a, NEW b, NEW c, NEW d
    PROVE  <<a>> \o <<b, c, d>> = <<a, b, c, d>>
<1> DEFINE X == {a, b, c, d}
           p == <<a>>
           q == <<b, c, d>>
           r == <<a, b, c, d>>
<1>1. p \in Seq(X) /\ q \in Seq(X) /\ r \in Seq(X)
  OBVIOUS
<1>2. Len(p) = 1 /\ Len(q) = 3 /\ Len(r) = 4
  OBVIOUS
<1>3. r[1] = p[1] /\ r[2] = q[1] /\ r[3] = q[2] /\ r[4] = q[3]
  OBVIOUS
<1>4. \A i \in 1..3 : r[i + 1] = q[i]
  <2> HIDE DEF q, r
  <2> QED BY <1>3
<1> HIDE DEF X, p, q, r
<1>5. Len(r) = Len(q) + 1 /\ \A i \in 1..Len(q) : r[i + 1] = q[i]
  BY <1>2, <1>4
<1>6. p \o q = r
  BY <1>1, <1>2, <1>3, <1>5, SameTuple
<1> QED BY <1>6 DEF p, q, r

LEMMA TailFive ==
    ASSUME NEW a, NEW b, NEW c, NEW d, NEW e
    PROVE  Tail(<<a, b, c, d, e>>) = <<b, c, d, e>> /\ Head(<<a, b, c, d, e>>) = a
OBVIOUS

LEMMA JoinOne == \A a : <<>> \o <<a>> = <<a>> /\ <<a>> \o <<>> = <<a>>
<1> SUFFICES ASSUME NEW a PROVE <<>> \o <<a>> = <<a>> /\ <<a>> \o <<>> = <<a>>
  OBVIOUS
<1>1. <<>> \o <<a>> = <<a>>
  OBVIOUS
<1>2. <<a>> \o <<>> = <<a>>
  OBVIOUS
<1> QED BY <1>1, <1>2

LEMMA EmptyStage ==
    ASSUME NEW M PROVE <<>> \o Stage(M) = Stage(M) /\ Stage(M) \o <<>> = Stage(M)
<1>1. <<>> \o <<>> = <<>>
  OBVIOUS
<1>2. <<>> \o <<M>> = <<M>> /\ <<M>> \o <<>> = <<M>>
  BY JoinOne
<1>3. Stage(M) = <<>> \/ Stage(M) = <<M>>
  BY DEF Stage
<1> QED BY <1>1, <1>2, <1>3

LEMMA StageThree ==
    ASSUME NEW M, NEW b, NEW c, NEW d
    PROVE  Stage(M) \o <<b, c, d>> = IF M = {} THEN <<b, c, d>> ELSE <<M, b, c, d>>
<1>1. CASE M = {}
  BY <1>1 DEF Stage
<1>2. CASE M # {}
  <2>1. Stage(M) = <<M>>
    BY <1>2 DEF Stage
  <2>2. <<M>> \o <<b, c, d>> = <<M, b, c, d>>
    BY JoinThree
  <2> QED BY <1>2, <2>1, <2>2
<1> QED BY <1>1, <1>2

LEMMA AfterParts ==
    ASSUME NEW M, NEW s
    PROVE  /\ Head(After(M, s)) = M /\ Tail(After(M, s)) = Rest(s)
           /\ Stage(M) \o Rest(s) = IF M = {} THEN Rest(s) ELSE After(M, s)
<1> DEFINE b == {DropIt(s.on, <<>>)}
           c == {UnembedThem({s.on})}
           d == {s}
<1>1. After(M, s) = <<M, b, c, d>> /\ Rest(s) = <<b, c, d>>
  BY DEF After, Rest
<1> HIDE DEF b, c, d
<1>2. Tail(<<M, b, c, d>>) = <<b, c, d>> /\ Head(<<M, b, c, d>>) = M
  OBVIOUS
<1>3. Stage(M) \o <<b, c, d>> = IF M = {} THEN <<b, c, d>> ELSE <<M, b, c, d>>
  BY StageThree
<1> QED BY <1>1, <1>2, <1>3

LEMMA AfterOnward ==
    ASSUME NEW M, NEW s, NEW w
    PROVE  Onward(After(M, s), w, <<>>) = IF M \ {w} = {} THEN Rest(s) ELSE After(M \ {w}, s)
<1>1. Head(After(M, s)) = M /\ Tail(After(M, s)) = Rest(s)
  BY AfterParts
<1> DEFINE N == M \ {w}
<1>2. Stage(N) \o Rest(s) = IF N = {} THEN Rest(s) ELSE After(N, s)
  <2> HIDE DEF N
  <2> QED BY AfterParts
<1>3. <<>> \o Stage(N) = Stage(N)
  BY EmptyStage
<1> QED BY <1>1, <1>2, <1>3 DEF Onward

LEMMA RelinkOnward ==
    ASSUME NEW M, NEW s, NEW w
    PROVE  Onward(After({w}, s), w, Stage(M)) = IF M = {} THEN Rest(s) ELSE After(M, s)
<1>1. Head(After({w}, s)) = {w} /\ Tail(After({w}, s)) = Rest(s)
  <2> DEFINE K == {w}
  <2>1. Head(After(K, s)) = K /\ Tail(After(K, s)) = Rest(s)
    <3> HIDE DEF K
    <3> QED BY AfterParts
  <2> QED BY <2>1
<1>2. Stage(M) \o Rest(s) = IF M = {} THEN Rest(s) ELSE After(M, s)
  BY AfterParts
<1>3. Stage(M) \o Stage({w} \ {w}) = Stage(M)
  <2>1. Stage({w} \ {w}) = <<>>
    BY DEF Stage
  <2> QED BY <2>1, EmptyStage
<1> QED BY <1>1, <1>2, <1>3 DEF Onward

LEMMA BeforeOnward ==
    ASSUME NEW s, NEW w
    PROVE  Onward(Beginning(w, s), w, <<>>) = After({RelinkIt(s)}, s) /\ Head(Beginning(w, s)) = {w}
<1> DEFINE b == {DropIt(s.on, <<>>)}
           c == {UnembedThem({s.on})}
           d == {s}
           r == {RelinkIt(s)}
<1>1. After(r, s) = <<r, b, c, d>> /\ Beginning(w, s) = <<{w}, r, b, c, d>>
  BY DEF After, Beginning
<1> HIDE DEF b, c, d, r
<1>2. Tail(<<{w}, r, b, c, d>>) = <<r, b, c, d>> /\ Head(<<{w}, r, b, c, d>>) = {w}
  BY TailFive
<1>3. <<>> \o Stage({w} \ {w}) = <<>> /\ <<>> \o <<r, b, c, d>> = <<r, b, c, d>>
  <2>1. Stage({w} \ {w}) = <<>>
    BY DEF Stage
  <2>2. <<>> \o <<>> = <<>>
    OBVIOUS
  <2>3. <<>> \o <<r, b, c, d>> = <<r, b, c, d>>
    OBVIOUS
  <2> QED BY <2>1, <2>2, <2>3
<1>4. Onward(<<{w}, r, b, c, d>>, w, <<>>) = <<r, b, c, d>>
  BY <1>2, <1>3 DEF Onward
<1>5. Onward(Beginning(w, s), w, <<>>) = After(r, s) /\ Head(Beginning(w, s)) = {w}
  BY <1>1, <1>2, <1>4
<1> QED BY <1>5 DEF r

LEMMA AfterTodo ==
    ASSUME NEW M, NEW s, NEW w
    PROVE  /\ Todo(Rest(s)) = {DropIt(s.on, <<>>), UnembedThem({s.on}), s} /\ IsPlan(Rest(s))
           /\ Todo(After(M, s)) = M \cup Todo(Rest(s)) /\ IsPlan(After(M, s))
           /\ Todo(Beginning(w, s)) = {w, RelinkIt(s)} \cup Todo(Rest(s)) /\ IsPlan(Beginning(w, s))
<1> DEFINE b == {DropIt(s.on, <<>>)}
           c == {UnembedThem({s.on})}
           d == {s}
           r == {RelinkIt(s)}
           a == {w}
<1>1. /\ After(M, s) = <<M, b, c, d>> /\ Rest(s) = <<b, c, d>>
      /\ Beginning(w, s) = <<a, r, b, c, d>>
  BY DEF After, Beginning, Rest
<1>2. b \cup c \cup d = {DropIt(s.on, <<>>), UnembedThem({s.on}), s} /\ a \cup r = {w, RelinkIt(s)}
  OBVIOUS
<1> HIDE DEF a, b, c, d, r
<1>3. Todo(<<b, c, d>>) = b \cup c \cup d /\ IsPlan(<<b, c, d>>)
  BY PlanOfThree
<1>4. Todo(<<M, b, c, d>>) = M \cup b \cup c \cup d /\ IsPlan(<<M, b, c, d>>)
  BY PlanOfFour
<1>5. Todo(<<a, r, b, c, d>>) = a \cup r \cup b \cup c \cup d /\ IsPlan(<<a, r, b, c, d>>)
  BY PlanOfFive
<1> QED BY <1>1, <1>2, <1>3, <1>4, <1>5

\* The plan of a rename, by the write at hand.
LEMMA RenamePlans ==
    ASSUME EditIInv, NEW t \in Tasks, NEW s \in Work(t), Renames(t, s), NEW w \in Head(job[t].plan)
    PROVE  /\ w.do = "put" => w.on = s.to /\ job[t].plan = Beginning(w, s)
           /\ w.do = "relink" => w = RelinkIt(s) /\ job[t].plan = After({w}, s)
           /\ w.do = "move" => \E M \in SUBSET MovesOf(s) : w \in M /\ job[t].plan = After(M, s)
<1>1. /\ \A M : Head(After(M, s)) = M
      /\ \A v : Head(Beginning(v, s)) = {v}
  <2>1. ASSUME NEW M PROVE Head(After(M, s)) = M
    BY AfterParts
  <2>2. ASSUME NEW v PROVE Head(Beginning(v, s)) = {v}
    BY BeforeOnward
  <2> QED BY <2>1, <2>2
<1>2. (\A v \in MovesOf(s) : v.do = "move") /\ RelinkIt(s).do = "relink"
  BY DEF MovesOf, RelinkIt
<1>3. CASE \E v \in Work(t) : /\ v.do = "put" /\ v.on = s.to
                              /\ job[t].plan = Beginning(v, s)
  BY <1>1, <1>3
<1>4. CASE job[t].plan = After({RelinkIt(s)}, s)
  BY <1>1, <1>2, <1>4
<1>5. CASE \E M \in SUBSET MovesOf(s) : M # {} /\ job[t].plan = After(M, s)
  BY <1>1, <1>2, <1>5
<1> QED BY <1>3, <1>4, <1>5 DEF Renames

LEMMA RenameOf ==
    ASSUME EditIInv, NEW t \in Tasks, NEW s \in Work(t), Renames(t, s)
    PROVE  /\ s.on \in Entities /\ s.to \in Entities /\ s.on # s.to /\ s.do = "settle"
           /\ Own(t, s.on) /\ Own(t, s.to) /\ s.on \in job[t].held /\ s.to \in job[t].held
           /\ {s.on, s.to} \in Pairs /\ {s.on, s.to} \notin graph /\ ~ job[t].deletes
<1>1. s.do = "settle" /\ s.on # s.to /\ {s.on, s.to} \notin graph /\ ~ job[t].deletes
  BY DEF Renames
<1>2. WriteOK(t, s)
  BY DEF EditIInv, JobOK
<1>3. s.on \in Entities /\ s.to \in Entities /\ Own(t, s.on) /\ Own(t, s.to)
  BY <1>1, <1>2 DEF WriteOK
<1> QED BY <1>1, <1>3, OwnHeld, TwoNames

\* A moved edge leaves the one name for the other.
LEMMA MoveOf ==
    ASSUME EditIInv, NEW t \in Tasks, NEW s \in Work(t), Renames(t, s), NEW v \in MovesOf(s)
    PROVE  /\ v.do = "move" /\ v.on \in Pairs /\ v.to \in Pairs
           /\ Own(t, v.on) /\ Own(t, v.to) /\ s.on \in v.on /\ s.on \notin v.to
           /\ \A e \in v.to : e = s.to \/ e \in v.on
<1>1. /\ s.on \in Entities /\ s.to \in Entities /\ s.on # s.to
      /\ Own(t, s.on) /\ Own(t, s.to)
  BY RenameOf
<1>2. PICK p \in PairsOf(s.on) \ {{s.on, s.to}} :
         v = [do |-> "move", on |-> p, to |-> Renamed(p, s.on, s.to)]
  BY DEF MovesOf
<1>3. v.do = "move" /\ v.on = p /\ v.to = Renamed(p, s.on, s.to)
  BY <1>2
<1>4. p \in Pairs /\ s.on \in p /\ p # {s.on, s.to}
  BY DEF PairsOf
<1>5. PICK z \in Entities : p = {s.on, z} /\ z # s.on /\ z # s.to
  <2>1. PICK a \in Entities, b \in Entities : p = {a, b}
    BY <1>4 DEF Pairs
  <2>2. \A e \in Entities : p # {e}
    BY <1>4 DEF Pairs
  <2>3. a # b
    BY <2>1, <2>2
  <2>4. CASE s.on = a
    BY <1>4, <2>1, <2>3, <2>4
  <2>5. CASE s.on = b
    <3>1. p = {s.on, a}
      BY <2>1, <2>5
    <3> QED BY <1>4, <2>3, <2>5, <3>1
  <2> QED BY <1>4, <2>1, <2>4, <2>5
<1>6. Renamed(p, s.on, s.to) = {s.to, z}
  <2>1. \A x : x \in Renamed(p, s.on, s.to) <=> x \in {s.to, z}
    BY <1>5 DEF Renamed
  <2> HIDE DEF Renamed
  <2> QED BY <2>1
<1>7. v.to = {s.to, z} /\ v.to \in Pairs
  <2>1. {s.to, z} \in Pairs
    BY <1>1, <1>5, TwoNames
  <2> QED BY <1>3, <1>6, <2>1
<1>8. Own(t, v.on)
  <2>1. v.on \in Gone(s.on)
    BY <1>1, <1>3, <1>4, GoneShape, Shapes
  <2> QED BY <1>1, <2>1, OwnGone
<1>9. Own(t, v.to)
  <2>1. v.to \in Gone(s.to)
    BY <1>1, <1>7, GoneShape, Shapes
  <2> QED BY <1>1, <2>1, OwnGone
<1> QED BY <1>1, <1>3, <1>4, <1>5, <1>7, <1>8, <1>9

LEMMA PutInOrder ==
    ASSUME EditIInv, NEW t \in Tasks, job[t].plan # <<>>, NEW w \in Head(job[t].plan),
           w.do = "put", Goes(t, w, <<>>), Work(t)' \subseteq Work(t),
           graph' \cap Pairs \subseteq graph \cup ({w.on} \cap Pairs)
    PROVE  InOrder(t)'
<1>1. SUFFICES ASSUME NEW v \in Work(t), v.do \in {"relink", "move"}
               PROVE  \E s \in Work(t)' : Renames(t, s)'
  BY DEF InOrder
<1>2. InOrder(t)
  BY DEF EditIInv, JobOK
<1>3. PICK s \in Work(t) : Renames(t, s)
  BY <1>1, <1>2 DEF InOrder
<1>4. w.on = s.to /\ job[t].plan = Beginning(w, s)
  BY <1>3, RenamePlans
<1>5. /\ s.on \in Entities /\ s.to \in Entities /\ s.on # s.to /\ s.do = "settle"
      /\ {s.on, s.to} \in Pairs /\ {s.on, s.to} \notin graph /\ ~ job[t].deletes
  BY <1>3, RenameOf
<1>6. job'[t].plan = After({RelinkIt(s)}, s)
  <2>1. Onward(Beginning(w, s), w, <<>>) = After({RelinkIt(s)}, s)
    BY BeforeOnward
  <2> QED BY <1>4, <2>1 DEF Goes
<1>7. {s.on, s.to} \notin graph'
  BY <1>4, <1>5, Shapes
<1>8. Renames(t, s)'
  BY <1>5, <1>6, <1>7 DEF Renames, Goes
<1>9. s \in Work(t)'
  <2>1. s \in Todo(Rest(s)) /\ Todo(After({RelinkIt(s)}, s)) = {RelinkIt(s)} \cup Todo(Rest(s))
    BY AfterTodo
  <2> QED BY <1>6, <2>1 DEF Work
<1> QED BY <1>8, <1>9

LEMMA PutKeeps ==
    ASSUME EditIInv, NEW t \in Tasks, job[t].plan # <<>>, NEW w \in Head(job[t].plan), Put(t, w)
    PROVE  EditIInv'
<1>1. w \in Work(t) /\ WriteOK(t, w) /\ StoresOK
  BY AtHand
<1>2. w.do = "put" /\ Own(t, w.on) /\ w.chunks \subseteq Chunks /\ ~ job[t].deletes
  <2>1. w.do = "put"
    BY DEF Put
  <2> QED BY <1>1, <2>1 DEF WriteOK, RequestKinds
<1>3. w.on \in Elements /\ Holds(t, w.on) /\ Ents(w.on) \subseteq Entities
  BY <1>2, Shapes DEF Own
<1>4. /\ Goes(t, w, <<>>) /\ job'[t].moved = job[t].moved
      /\ torn' = Marked(t, EntsOf({w.on})) /\ torn \subseteq torn' /\ torn' \subseteq Elements
      /\ halved' = halved
  <2>1. {w.on} \in SUBSET Elements /\ Wrote(t, w, <<>>, {w.on})
    BY <1>3 DEF Put
  <2> QED BY <2>1, Wrote_Goes
<1>5. /\ graph' = graph \cup {w.on} \cup Ents(w.on) /\ src' = [src EXCEPT ![w.on] = w.chunks]
      /\ vec' = vec /\ track' = track
  BY DEF Put
<1>6. IsPlan(<<>>) /\ Todo(<<>>) = {}
  BY PlanOfNone
<1>7. ~ Alone(t, w)
  BY <1>2 DEF Alone, RequestKinds
<1>8. /\ Work(t) \ {w} \subseteq Work(t)' /\ Work(t)' \subseteq Work(t) \cup Todo(<<>>)
      /\ InOrder(t)' => JobOK(t)'
  BY <1>4, <1>6, <1>7, Fits
<1>9. graph' \cap Pairs \subseteq graph \cup ({w.on} \cap Pairs)
  BY <1>3, <1>5, Shapes
<1>10. JobOK(t)'
  BY <1>2, <1>4, <1>6, <1>8, <1>9, PutInOrder
<1>11. StoresOK'
  <2>1. graph' \subseteq Elements /\ src' \in [Elements -> SUBSET Chunks]
    BY <1>1, <1>2, <1>3, <1>5, Shapes DEF StoresOK
  <2>2. ASSUME NEW x \in Elements, x \in graph' PROVE Ents(x) \subseteq graph'
    <3>1. CASE x \in graph
      BY <1>1, <1>5, <3>1 DEF StoresOK
    <3>2. CASE x = w.on
      BY <1>5, <3>2
    <3>3. CASE x \in Ents(w.on)
      BY <1>3, <1>5, <3>3, Shapes
    <3> QED BY <1>5, <2>2, <3>1, <3>2, <3>3
  <2> QED BY <1>1, <1>4, <1>5, <2>1, <2>2 DEF StoresOK
<1>12. ASSUME NEW x \in Elements
       PROVE  Same(x) \/ Excused(x, torn') \/ (Holds(t, x) /\ \A u \in Tasks \ {t} : ~ Holds(u, x))
  <2> DEFINE S == {w.on}
  <2>1. S \in SUBSET Elements /\ Marked(t, EntsOf(S)) \subseteq torn' /\ EntsOf(S) = Ents(w.on)
    BY <1>3, <1>4 DEF EntsOf
  <2>2. CASE x = w.on
    <3>1. x \in S /\ Holds(t, x)
      BY <1>3, <2>2
    <3> HIDE DEF S
    <3> QED BY <2>1, <3>1, Touched
  <2>3. CASE x \in Ents(w.on) \ graph
    <3>1. x \in Entities /\ Ents(x) = {x}
      BY <1>3, <2>3, Shapes
    <3>2. Ents(x) \subseteq EntsOf(S)
      BY <2>1, <2>3, <3>1
    <3> HIDE DEF S
    <3>3. CASE Holds(t, x) /\ \A u \in Tasks \ {t} : ~ Holds(u, x)
      BY <3>3
    <3>4. CASE ~ (Holds(t, x) /\ \A u \in Tasks \ {t} : ~ Holds(u, x))
      BY <2>1, <2>3, <3>1, <3>2, <3>4, Straying
    <3> QED BY <3>3, <3>4
  <2>4. CASE x # w.on /\ x \notin Ents(w.on) \ graph
    BY <1>5, <2>4 DEF Same
  <2> QED BY <2>2, <2>3, <2>4
<1>13. ASSUME NEW x \in Elements, Ok(t, x) PROVE Ok(t, x)'
  <2>1. x \in graph => x \in graph'
    BY <1>5
  <2>2. Makes(w, x) => Made(t, x)'
    BY <1>2, <1>5 DEF Makes, Made
  <2>3. ~ Unembeds(t, w, x) /\ ~ Untracks(t, w, x)
    BY <1>2 DEF Unembeds, Untracks, Withdraws
  <2> QED BY <1>2, <1>4, <1>5, <1>6, <1>8, <1>13, <2>1, <2>2, <2>3, OkAfter
<1>14. \A p \in Pairs : p \in graph' \ graph => Holds(t, p)
  BY <1>3, <1>9
<1> QED BY <1>4, <1>10, <1>11, <1>12, <1>13, <1>14, Continues

LEMMA RelinkKeeps ==
    ASSUME EditIInv, NEW t \in Tasks, job[t].plan # <<>>, NEW w \in Head(job[t].plan), Relink(t, w)
    PROVE  EditIInv'
<1> DEFINE M == {[do |-> "move", on |-> p, to |-> Renamed(p, w.on, w.to)] :
                     p \in PairsOf(w.on) \cap graph}
<1>1. w \in Work(t) /\ WriteOK(t, w) /\ InOrder(t)
  BY AtHand DEF JobOK
<1>2. w.do = "relink" /\ Plan(t, w, Stage(M))
  BY DEF Relink
<1>3. PICK s \in Work(t) : Renames(t, s)
  BY <1>1, <1>2 DEF InOrder
<1>4. /\ s.on \in Entities /\ s.to \in Entities /\ s.on # s.to /\ s.do = "settle"
      /\ {s.on, s.to} \in Pairs /\ {s.on, s.to} \notin graph /\ ~ job[t].deletes
  BY <1>3, RenameOf
<1>5. w = RelinkIt(s) /\ job[t].plan = After({w}, s)
  BY <1>2, <1>3, RenamePlans
<1>6. w.on = s.on /\ w.to = s.to
  BY <1>5 DEF RelinkIt
<1>7. M \in SUBSET MovesOf(s)
  <2>1. \A p \in PairsOf(w.on) \cap graph : p \in PairsOf(s.on) \ {{s.on, s.to}}
    BY <1>4, <1>6
  <2> QED BY <1>6, <2>1 DEF MovesOf
<1>8. \A v \in M : v.do = "move" /\ v.on \in Pairs
  BY DEF PairsOf
<1>9. /\ Goes(t, w, Stage(M)) /\ job'[t].moved = job[t].moved
      /\ torn' = torn /\ StoresOK' /\ graph' = graph /\ vec' = vec /\ track' = track
  <2> HIDE DEF M
  <2> QED BY <1>2, Plan_Goes
<1>10. IsPlan(Stage(M)) /\ Todo(Stage(M)) = M
  <2> HIDE DEF M
  <2> QED BY StagePlan
<1>11. \A v \in M : WriteOK(t, v) /\ ~ Alone(t, v)
  <2> SUFFICES ASSUME NEW v \in M PROVE WriteOK(t, v) /\ ~ Alone(t, v)
    OBVIOUS
  <2>1. v.do = "move"
    BY <1>8
  <2> QED BY <1>4, <2>1 DEF WriteOK, Alone, RequestKinds
<1>12. ~ Alone(t, w)
  BY <1>2 DEF Alone, RequestKinds
<1>13. /\ Work(t) \ {w} \subseteq Work(t)' /\ M \subseteq Work(t)'
       /\ Work(t)' \subseteq Work(t) \cup Todo(Stage(M))
       /\ InOrder(t)' => JobOK(t)'
  <2>1. \A v \in Todo(Stage(M)) : WriteOK(t, v) /\ ~ Alone(t, v)
    BY <1>10, <1>11
  <2> HIDE DEF M
  <2> QED BY <1>9, <1>10, <1>12, <2>1, Fits
<1>14. job'[t].plan = IF M = {} THEN Rest(s) ELSE After(M, s)
  <2> HIDE DEF M
  <2>1. Onward(After({w}, s), w, Stage(M)) = IF M = {} THEN Rest(s) ELSE After(M, s)
    BY RelinkOnward
  <2> QED BY <1>5, <1>9, <2>1 DEF Goes
<1>15. InOrder(t)'
  <2>1. CASE M = {}
    <3>1. Work(t)' = {DropIt(s.on, <<>>), UnembedThem({s.on}), s}
      BY <1>14, <2>1, AfterTodo DEF Work
    <3>2. \A v \in Work(t)' : v.do \notin {"relink", "move"}
      BY <1>4, <3>1 DEF DropIt, UnembedThem
    <3> QED BY <3>2 DEF InOrder
  <2>2. CASE M # {}
    <3> HIDE DEF M
    <3>1. job'[t].plan = After(M, s)
      BY <1>14, <2>2
    <3>2. Renames(t, s)'
      BY <1>4, <1>7, <1>9, <2>2, <3>1 DEF Renames, Goes
    <3>3. s \in Work(t)'
      BY <1>2, <1>4, <1>13
    <3> QED BY <3>2, <3>3 DEF InOrder
  <2> QED BY <2>1, <2>2
<1>16. ASSUME NEW x \in Elements, Ok(t, x) PROVE Ok(t, x)'
  <2>1. ~ Makes(w, x)
    BY <1>2 DEF Makes
  <2>2. \A v \in Todo(Stage(M)) : ~ Drops(v, x) /\ ~ Fills(t, v, x)
    BY <1>8, <1>10 DEF Drops, Fills
  <2>3. Unembeds(t, w, x) \/ Untracks(t, w, x) => x \in PairsOf(w.on) \cap graph
    BY <1>2 DEF Unembeds, Untracks, Withdraws
  <2>4. x \in PairsOf(w.on) \cap graph => Unembedded(t, x)' /\ Untracked(t, x)'
    <3>1. SUFFICES ASSUME x \in PairsOf(w.on) \cap graph PROVE Unembedded(t, x)' /\ Untracked(t, x)'
      OBVIOUS
    <3>2. PICK v \in M : v.do = "move" /\ v.on = x
      <4> DEFINE y == [do |-> "move", on |-> x, to |-> Renamed(x, w.on, w.to)]
      <4>1. y \in M
        BY <3>1
      <4>2. y.do = "move" /\ y.on = x
        OBVIOUS
      <4> HIDE DEF y
      <4> QED BY <4>1, <4>2
    <3>3. Unembeds(t, v, x)' /\ Untracks(t, v, x)'
      BY <1>9, <3>1, <3>2 DEF Unembeds, Untracks, Withdraws
    <3> QED BY <1>13, <3>2, <3>3 DEF Unembedded, Untracked
  <2> HIDE DEF M
  <2> QED BY <1>4, <1>9, <1>10, <1>13, <1>16, <2>1, <2>2, <2>3, <2>4, OkAfter
<1>17. \A x \in Elements : Same(x)
  BY <1>9 DEF Same
<1> HIDE DEF M
<1> QED BY <1>9, <1>13, <1>15, <1>16, <1>17, Continues

\* What the deletion of a node or an edge leaves of the graph.
LEMMA DropStores ==
    ASSUME EditIInv, NEW t \in Tasks, job[t].plan # <<>>, NEW w \in Head(job[t].plan), Drop(t, w)
    PROVE  /\ w.do = "drop" /\ w \in Work(t) /\ Own(t, w.on)
           /\ w.more \in {<<>>, <<{UnembedThem({w.on})}>>} /\ (job[t].deletes => w.more = <<>>)
           /\ Goes(t, w, w.more) /\ job'[t].moved = job[t].moved
           /\ torn \subseteq torn' /\ StoresOK'
           /\ graph' = graph \ Gone(w.on) /\ vec' = vec /\ track' = track
           /\ \A x \in Elements : Same(x) \/ Excused(x, torn')
                                  \/ (Holds(t, x) /\ \A u \in Tasks \ {t} : ~ Holds(u, x))
<1>1. w \in Work(t) /\ WriteOK(t, w) /\ StoresOK
  BY AtHand
<1>2. /\ w.do = "drop" /\ Own(t, w.on) /\ w.more \in {<<>>, <<{UnembedThem({w.on})}>>}
      /\ job[t].deletes => w.more = <<>>
  <2>1. w.do = "drop"
    BY DEF Drop
  <2> QED BY <1>1, <2>1 DEF WriteOK
<1>3. w.on \in Elements /\ Gone(w.on) \subseteq Elements /\ w.on \in Gone(w.on)
  BY <1>2, GoneShape DEF Own
<1> DEFINE S == {w.on} \cup (Gone(w.on) \cap graph)
<1>4. /\ graph' = graph \ Gone(w.on) /\ vec' = vec /\ track' = track
      /\ src' = [x \in Elements |-> IF x \in Gone(w.on) THEN {} ELSE src[x]]
      /\ Wrote(t, w, w.more, S)
  BY DEF Drop, Gone
<1>5. S \in SUBSET Elements /\ S \subseteq Gone(w.on)
  BY <1>3
<1>6. /\ Goes(t, w, w.more) /\ job'[t].moved = job[t].moved
      /\ torn' = Marked(t, EntsOf(S)) /\ torn \subseteq torn' /\ torn' \subseteq Elements
      /\ halved' = halved
  <2> HIDE DEF S
  <2> QED BY <1>4, <1>5, Wrote_Goes
<1>7. StoresOK'
  <2>1. graph' \subseteq Elements /\ src' \in [Elements -> SUBSET Chunks]
    BY <1>1, <1>4 DEF StoresOK
  <2>2. ASSUME NEW x \in Elements, x \in graph' PROVE Ents(x) \subseteq graph'
    <3>1. Ents(x) \subseteq graph /\ x \notin Gone(w.on)
      BY <1>1, <1>4, <2>2 DEF StoresOK
    <3>2. ASSUME NEW e \in Ents(x) PROVE e \notin Gone(w.on)
      <4>1. e \in Entities /\ Ents(e) = {e} /\ e \in Elements
        BY Shapes
      <4>2. e \in Gone(w.on) => e = w.on /\ w.on \in Entities
        BY <1>3, <4>1, GoneShape
      <4>3. x \in Gone(w.on) <=> x = w.on \/ (w.on \in Entities /\ w.on \in Ents(x))
        BY <1>3, GoneShape
      <4> QED BY <3>1, <4>2, <4>3
    <3> QED BY <1>4, <3>1, <3>2
  <2> QED BY <1>1, <1>4, <1>6, <2>1, <2>2 DEF StoresOK
<1>8. ASSUME NEW x \in Elements
      PROVE  Same(x) \/ Excused(x, torn') \/ (Holds(t, x) /\ \A u \in Tasks \ {t} : ~ Holds(u, x))
  <2>1. CASE x \in S
    <3>1. Holds(t, x)
      BY <1>2, <1>5, <2>1, OwnGone DEF Own
    <3> HIDE DEF S
    <3> QED BY <1>5, <1>6, <2>1, <3>1, Touched
  <2>2. CASE x \notin S
    BY <1>4, <2>2 DEF Same
  <2> QED BY <2>1, <2>2
<1> HIDE DEF S
<1> QED BY <1>1, <1>2, <1>4, <1>6, <1>7, <1>8

LEMMA DropOfDeletion ==
    ASSUME EditIInv, NEW t \in Tasks, job[t].plan # <<>>, NEW w \in Head(job[t].plan), Drop(t, w),
           job[t].deletes
    PROVE  EditIInv'
<1>1. /\ w.do = "drop" /\ w.more = <<>> /\ Goes(t, w, w.more) /\ job'[t].moved = job[t].moved
      /\ torn \subseteq torn' /\ StoresOK'
      /\ graph' = graph \ Gone(w.on) /\ vec' = vec /\ track' = track
      /\ \A x \in Elements : Same(x) \/ Excused(x, torn')
                             \/ (Holds(t, x) /\ \A u \in Tasks \ {t} : ~ Holds(u, x))
  BY DropStores
<1>2. Alone(t, w)
  BY <1>1 DEF Alone
<1>3. IsPlan(<<>>) /\ Todo(<<>>) = {}
  BY PlanOfNone
<1>4. OnlyLast(<<>>, {v \in Todo(<<>>) : Alone(t, v)})
  BY <1>3, NoneLast
<1>5. /\ IsJob(job'[t]) /\ Placed(t)' /\ Work(t) = {w} /\ Work(t)' = {}
      /\ \A v \in Work(t)' : WriteOK(t, v)'
  BY <1>1, <1>2, <1>3, <1>4, GoesAnew
<1>6. MovedOK(t)'
  <2>1. MovedOK(t)
    BY DEF EditIInv, JobOK
  <2> QED BY <1>1, <2>1, SameOwn DEF MovedOK
<1>7. JobOK(t)'
  BY <1>5, <1>6 DEF JobOK, InOrder
<1>8. ASSUME NEW x \in Elements, Ok(t, x) PROVE Ok(t, x)'
  <2>1. ~ Made(t, x)' => x \notin graph'
    BY DEF Made
  <2>2. ~ Lost(t, x)' /\ ~ Filled(t, x)'
    BY <1>5 DEF Lost, Filled
  <2>3. Made(t, x) => x \in graph
    BY <1>1, <1>5 DEF Made, Makes
  <2>4. (Lost(t, x) <=> x \in Gone(w.on)) /\ ~ Unembedded(t, x) /\ ~ Untracked(t, x)
    BY <1>1, <1>5 DEF Lost, Drops, Unembedded, Unembeds, Untracked, Untracks, Withdraws
  <2>5. CASE Stays(t, x)
    <3>1. x \in graph'
      BY <1>1, <2>3, <2>4, <2>5 DEF Stays
    <3> QED BY <2>1, <2>2, <3>1 DEF Ok, Stays, Orphan
  <2>6. CASE Clears(t, x)
    <3>1. x \notin vec' /\ track'[x] = {}
      BY <1>1, <2>4, <2>6 DEF Clears
    <3> QED BY <2>2, <3>1 DEF Ok, Clears, Orphan
  <2> QED BY <1>8, <2>5, <2>6 DEF Ok
<1>9. \A p \in Pairs : p \in graph' \ graph => Holds(t, p)
  BY <1>1
<1> QED BY <1>1, <1>7, <1>8, <1>9, Continues

LEMMA DropKeeps ==
    ASSUME EditIInv, NEW t \in Tasks, job[t].plan # <<>>, NEW w \in Head(job[t].plan), Drop(t, w)
    PROVE  EditIInv'
<1>1. /\ w.do = "drop" /\ w \in Work(t) /\ Own(t, w.on) /\ Goes(t, w, w.more)
      /\ w.more \in {<<>>, <<{UnembedThem({w.on})}>>} /\ job'[t].moved = job[t].moved
      /\ torn \subseteq torn' /\ StoresOK'
      /\ graph' = graph \ Gone(w.on) /\ vec' = vec /\ track' = track
      /\ \A x \in Elements : Same(x) \/ Excused(x, torn')
                             \/ (Holds(t, x) /\ \A u \in Tasks \ {t} : ~ Holds(u, x))
  BY DropStores
<1>2. CASE job[t].deletes
  BY <1>2, DropOfDeletion
<1>3. CASE ~ job[t].deletes
  <2> DEFINE U == UnembedThem({w.on})
  <2>1. U.do = "unembed" /\ U.on = {w.on}
    BY DEF UnembedThem
  <2>2. /\ IsPlan(w.more) /\ Todo(w.more) \subseteq {U}
        /\ w.more # <<>> => U \in Todo(w.more)
    <3>1. CASE w.more = <<>>
      BY <3>1, PlanOfNone
    <3>2. CASE w.more = <<{U}>>
      <4> DEFINE K == {U}
      <4>1. IsPlan(<<K>>) /\ Todo(<<K>>) = K
        <5> HIDE DEF K
        <5> QED BY PlanOfOne
      <4> QED BY <3>2, <4>1
    <3> QED BY <1>1, <3>1, <3>2
  <2> HIDE DEF U
  <2>3. \A v \in Todo(w.more) : /\ WriteOK(t, v) /\ ~ Alone(t, v)
                                /\ v.do \notin {"relink", "move"}
    BY <1>1, <1>3, <2>1, <2>2 DEF WriteOK, Alone, RequestKinds
  <2>4. ~ Alone(t, w) /\ w.do \notin {"put", "relink", "move"}
    BY <1>1, <1>3 DEF Alone, RequestKinds
  <2>5. /\ Work(t) \ {w} \subseteq Work(t)' /\ Todo(w.more) \subseteq Work(t)'
        /\ Work(t)' \subseteq Work(t) \cup Todo(w.more)
        /\ JobOK(t)' /\ \A v \in Work(t) : v.do \notin {"relink", "move"}
    BY <1>1, <2>2, <2>3, <2>4, Fits
  <2>6. ASSUME NEW x \in Elements, Ok(t, x) PROVE Ok(t, x)'
    <3>1. \A v \in Todo(w.more) : ~ Drops(v, x) /\ ~ Fills(t, v, x)
      BY <2>1, <2>2 DEF Drops, Fills
    <3>2. ~ Makes(w, x) /\ ~ Untracks(t, w, x) /\ (Unembeds(t, w, x) => x = w.on /\ w.more # <<>>)
      BY <1>1 DEF Makes, Untracks, Unembeds, Withdraws
    <3>3. CASE x \notin Gone(w.on)
      <4>1. x # w.on
        BY <1>1, <3>3, GoneShape DEF Own
      <4> QED BY <1>1, <1>3, <2>5, <2>6, <3>1, <3>2, <3>3, <4>1, OkAfter
    <3>4. CASE x \in Gone(w.on)
      <4>1. Lost(t, x)
        BY <1>1, <3>4 DEF Lost, Drops
      <4>2. Clears(t, x)
        BY <2>6, <4>1 DEF Ok, Stays
      <4>3. ~ Filled(t, x)'
        BY <1>1, <2>5, <3>1, <4>2, NotPending DEF Clears
      <4>4. \A v \in Work(t) : (Unembeds(t, v, x) => Unembeds(t, v, x)')
                               /\ (Untracks(t, v, x) => Untracks(t, v, x)')
        BY <1>1, <2>5 DEF Unembeds, Untracks, Withdraws
      <4>5. Unembedded(t, x) => Unembedded(t, x)'
        <5>1. SUFFICES ASSUME NEW v \in Work(t), Unembeds(t, v, x) PROVE Unembedded(t, x)'
          BY DEF Unembedded
        <5>2. CASE v = w
          <6>1. U \in Work(t)' /\ Unembeds(t, U, x)'
            BY <2>1, <2>2, <2>5, <3>2, <5>1, <5>2 DEF Unembeds
          <6> QED BY <6>1 DEF Unembedded
        <5>3. CASE v # w
          BY <2>5, <4>4, <5>1, <5>3 DEF Unembedded
        <5> QED BY <5>2, <5>3
      <4>6. Untracked(t, x) => Untracked(t, x)'
        BY <2>5, <3>2, <4>4 DEF Untracked
      <4>7. Clears(t, x)'
        BY <1>1, <4>2, <4>3, <4>5, <4>6 DEF Clears
      <4> QED BY <1>1, <1>3, <4>7 DEF Ok, Goes
    <3> QED BY <3>3, <3>4
  <2>7. \A p \in Pairs : p \in graph' \ graph => Holds(t, p)
    BY <1>1
  <2> QED BY <1>1, <2>5, <2>6, <2>7, Continues
<1> QED BY <1>2, <1>3

LEMMA MoveKeeps ==
    ASSUME EditIInv, NEW t \in Tasks, job[t].plan # <<>>, NEW w \in Head(job[t].plan), Move(t, w)
    PROVE  EditIInv'
<1>1. w \in Work(t) /\ WriteOK(t, w) /\ InOrder(t) /\ StoresOK
  BY AtHand DEF JobOK
<1>2. w.do = "move"
  BY DEF Move
<1>3. PICK s \in Work(t) : Renames(t, s)
  BY <1>1, <1>2 DEF InOrder
<1>4. /\ s.on \in Entities /\ s.to \in Entities /\ s.on # s.to /\ s.do = "settle"
      /\ {s.on, s.to} \in Pairs /\ {s.on, s.to} \notin graph /\ ~ job[t].deletes
  BY <1>3, RenameOf
<1>5. PICK M \in SUBSET MovesOf(s) : w \in M /\ job[t].plan = After(M, s)
  BY <1>2, <1>3, RenamePlans
<1>6. /\ w.on \in Pairs /\ w.to \in Pairs /\ Own(t, w.on) /\ Own(t, w.to)
      /\ s.on \in w.on /\ s.on \notin w.to /\ \A e \in w.to : e = s.to \/ e \in w.on
  BY <1>3, <1>5, MoveOf
<1>7. IsPlan(<<>>) /\ Todo(<<>>) = {}
  BY PlanOfNone
<1>8. ~ Alone(t, w) /\ "settle" \notin RequestKinds /\ "move" \notin RequestKinds
  BY <1>2 DEF Alone, RequestKinds
<1>9. /\ \A v \in M : v.do = "move"
      /\ Work(t) = M \cup {DropIt(s.on, <<>>), UnembedThem({s.on}), s}
  <2>1. \A v \in MovesOf(s) : v.do = "move"
    BY DEF MovesOf
  <2> QED BY <1>5, <2>1, AfterTodo DEF Work
\* The edges that are left to move, when t is done with w.
<1>10. ASSUME Goes(t, w, <<>>), {s.on, s.to} \notin graph', s \in Work(t)' PROVE InOrder(t)'
  <2> DEFINE N == M \ {w}
  <2>1. job'[t].plan = IF N = {} THEN Rest(s) ELSE After(N, s)
    <3>1. Onward(After(M, s), w, <<>>) = IF N = {} THEN Rest(s) ELSE After(N, s)
      BY AfterOnward
    <3> QED BY <1>5, <1>10, <3>1 DEF Goes
  <2>2. N \in SUBSET MovesOf(s)
    OBVIOUS
  <2> HIDE DEF N
  <2>3. CASE N = {}
    <3>1. Work(t)' = {DropIt(s.on, <<>>), UnembedThem({s.on}), s}
      BY <2>1, <2>3, AfterTodo DEF Work
    <3>2. \A v \in Work(t)' : v.do \notin {"relink", "move"}
      BY <1>4, <3>1 DEF DropIt, UnembedThem
    <3> QED BY <3>2 DEF InOrder
  <2>4. CASE N # {}
    <3>1. job'[t].plan = After(N, s)
      BY <2>1, <2>4
    <3>2. Renames(t, s)'
      BY <1>4, <1>10, <2>2, <2>4, <3>1 DEF Renames, Goes
    <3> QED BY <1>10, <3>2 DEF InOrder
  <2> QED BY <2>3, <2>4
<1>11. CASE w.on \notin graph
  <2>1. Plan(t, w, <<>>)
    BY <1>11 DEF Move
  <2>2. /\ Goes(t, w, <<>>) /\ job'[t].moved = job[t].moved
        /\ torn' = torn /\ StoresOK' /\ graph' = graph /\ vec' = vec /\ track' = track
    BY <2>1, Plan_Goes
  <2>3. /\ Work(t) \ {w} \subseteq Work(t)' /\ Work(t)' \subseteq Work(t) \cup Todo(<<>>)
        /\ InOrder(t)' => JobOK(t)'
    BY <1>7, <1>8, <2>2, Fits
  <2>4. JobOK(t)'
    BY <1>2, <1>4, <1>10, <2>2, <2>3
  <2>5. ASSUME NEW x \in Elements, Ok(t, x) PROVE Ok(t, x)'
    <3>1. ~ Makes(w, x) /\ ~ Unembeds(t, w, x) /\ ~ Untracks(t, w, x)
      BY <1>2, <1>11 DEF Makes, Unembeds, Untracks, Withdraws
    <3> QED BY <1>4, <1>7, <2>2, <2>3, <2>5, <3>1, OkAfter
  <2>6. \A x \in Elements : Same(x)
    BY <2>2 DEF Same
  <2> QED BY <2>2, <2>4, <2>5, <2>6, Continues
<1>12. CASE w.on \in graph
  <2> DEFINE m == <<w.on, w.to, src[w.on]>>
  <2>1. /\ graph' = graph \cup {w.to} \cup w.to /\ src' = [src EXCEPT ![w.to] = src[w.on]]
        /\ torn' = Marked(t, w.to) \cup (IF w.on \in torn THEN {w.to} ELSE {})
        /\ vec' = vec /\ track' = track /\ halved' = halved
    BY <1>12 DEF Move
  <2>2. Goes(t, w, <<>>) /\ job'[t].moved = job[t].moved \cup {m}
    <3> DEFINE a == Advanced(t, w, <<>>)
    <3>1. a.moved = job[t].moved
      <4>1. job[t] = [held |-> job[t].held, about |-> job[t].about, plan |-> job[t].plan,
                      moved |-> job[t].moved, deletes |-> job[t].deletes,
                      dirty |-> job[t].dirty, owed |-> job[t].owed]
        BY DEF EditIInv, JobOK, IsJob
      <4> QED BY <4>1 DEF Advanced
    <3> DEFINE moved == job[t].moved \cup {m}
               owed == a.owed \cup {w.to} \X Names(w.on)
    <3>2. Becomes(t, [a EXCEPT !.dirty = TRUE, !.moved = @ \cup {m},
                               !.owed = @ \cup {w.to} \X Names(w.on)])
      BY <1>12 DEF Move
    <3>3. Becomes(t, [a EXCEPT !.dirty = TRUE, !.moved = moved, !.owed = owed])
      <4> HIDE DEF a, m
      <4> QED BY <3>1, <3>2
    <3> HIDE DEF m, moved, owed
    <3>4. Goes(t, w, <<>>) /\ job'[t].moved = moved
      BY <3>3, MovedGoes
    <3> QED BY <3>4 DEF moved
  <2>3. \A v \in Work(t) : v.do \notin RequestKinds
    <3>1. "drop" \notin RequestKinds /\ "unembed" \notin RequestKinds
      BY DEF RequestKinds
    <3> QED BY <1>4, <1>8, <1>9, <3>1 DEF DropIt, UnembedThem
  <2>4. /\ IsJob(job'[t]) /\ Placed(t)' /\ (\A v \in Work(t)' : WriteOK(t, v)')
        /\ Work(t) \ {w} \subseteq Work(t)' /\ Work(t)' \subseteq Work(t)
    BY <1>7, <1>8, <2>2, <2>3, GoesOn
  <2>5. w.to \subseteq graph' /\ w.to \subseteq Entities /\ w.to \notin Entities /\ w.to \in Elements
    BY <1>6, <2>1, Shapes
  <2>6. graph' \cap Pairs \subseteq graph \cup {w.to}
    BY <2>1, <2>5, Shapes
  <2>7. JobOK(t)'
    <3>1. s \in Work(t)'
      BY <1>2, <1>4, <2>4
    <3>2. {s.on, s.to} # w.to
      BY <1>6
    <3>3. InOrder(t)'
      BY <1>4, <1>10, <2>2, <2>6, <3>1, <3>2
    <3>4. m[1] = w.on /\ m[2] = w.to /\ m[3] = src[w.on] /\ src[w.on] \subseteq Chunks
      BY <1>1, <1>6 DEF StoresOK, Elements
    <3>5. MovedOK(t)
      BY DEF EditIInv, JobOK
    <3>6. MovedOK(t)'
      <4> HIDE DEF m
      <4> QED BY <1>6, <2>2, <3>4, <3>5, SameOwn DEF MovedOK
    <3> QED BY <2>4, <3>3, <3>6 DEF JobOK
  <2>8. torn \subseteq torn' /\ torn' \subseteq Elements
    BY <1>1, <2>1, <2>5, Shapes DEF Marked, StoresOK
  <2>9. StoresOK'
    <3>1. graph' \subseteq Elements /\ src' \in [Elements -> SUBSET Chunks]
      BY <1>1, <1>6, <2>1, <2>5, Shapes DEF StoresOK
    <3>2. ASSUME NEW x \in Elements, x \in graph' PROVE Ents(x) \subseteq graph'
      <4>1. CASE x \in graph
        BY <1>1, <2>1, <4>1 DEF StoresOK
      <4>2. CASE x = w.to
        BY <1>6, <2>5, <4>2, Shapes
      <4>3. CASE x \in w.to
        BY <2>5, <4>3, Shapes
      <4> QED BY <2>1, <3>2, <4>1, <4>2, <4>3
    <3> QED BY <1>1, <2>1, <2>8, <3>1, <3>2 DEF StoresOK
  <2>10. ASSUME NEW x \in Elements
         PROVE  Same(x) \/ Excused(x, torn') \/ (Holds(t, x) /\ \A u \in Tasks \ {t} : ~ Holds(u, x))
    <3> DEFINE S == {w.to}
    <3>1. S \in SUBSET Elements /\ Marked(t, EntsOf(S)) \subseteq torn' /\ EntsOf(S) = w.to
      <4>1. EntsOf(S) = w.to
        BY <1>6, Shapes DEF EntsOf
      <4> QED BY <2>1, <2>5, <4>1
    <3>2. CASE x = w.to
      <4>1. x \in S /\ Holds(t, x)
        BY <1>6, <3>2 DEF Own
      <4> HIDE DEF S
      <4> QED BY <3>1, <4>1, Touched
    <3>3. CASE x \in w.to \ graph
      <4>1. x \in Entities /\ Ents(x) = {x}
        BY <2>5, <3>3, Shapes
      <4>2. Ents(x) \subseteq EntsOf(S)
        BY <3>1, <3>3, <4>1
      <4> HIDE DEF S
      <4>3. CASE Holds(t, x) /\ \A u \in Tasks \ {t} : ~ Holds(u, x)
        BY <4>3
      <4>4. CASE ~ (Holds(t, x) /\ \A u \in Tasks \ {t} : ~ Holds(u, x))
        BY <3>1, <3>3, <4>1, <4>2, <4>4, Straying
      <4> QED BY <4>3, <4>4
    <3>4. CASE x # w.to /\ x \notin w.to \ graph
      BY <2>1, <3>4 DEF Same
    <3> QED BY <3>2, <3>3, <3>4
  <2>11. ASSUME NEW x \in Elements, Ok(t, x) PROVE Ok(t, x)'
    <3>1. m[1] = w.on /\ m[2] = w.to /\ m \in job'[t].moved
      BY <2>2
    <3> HIDE DEF m
    <3>2. ~ Makes(w, x) /\ (x \in graph => x \in graph')
      BY <1>2, <2>1 DEF Makes
    <3>3. (Made(t, x) => Made(t, x)') /\ (Lost(t, x)' => Lost(t, x))
      BY <2>4, <3>2 DEF Made, Lost
    <3>4. CASE Stays(t, x)
      BY <1>4, <2>2, <3>3, <3>4 DEF Ok, Stays, Goes
    <3>5. CASE x = w.to
      <4>1. \A v \in Work(t) : ~ Drops(v, x)
        <5>1. ~ Drops(s, x) /\ ~ Drops(UnembedThem({s.on}), x) /\ \A v \in M : ~ Drops(v, x)
          BY <1>4, <1>9 DEF Drops, UnembedThem
        <5>2. DropIt(s.on, <<>>).on = s.on
          BY DEF DropIt
        <5>3. x \notin Gone(s.on)
          BY <1>4, <1>6, <2>5, <3>5, GoneShape, Shapes
        <5> QED BY <1>9, <5>1, <5>2, <5>3 DEF Drops
      <4>2. x \in graph'
        BY <2>1, <3>5
      <4> QED BY <1>4, <2>2, <2>4, <4>1, <4>2 DEF Ok, Stays, Made, Lost, Goes
    <3>6. CASE x # w.to /\ Clears(t, x)
      <4>1. \A v : Fills(t, v, x)' => Fills(t, v, x)
        BY <2>2, <3>1, <3>6 DEF Fills
      <4>2. ~ Filled(t, x)'
        BY <2>4, <3>6, <4>1 DEF Clears, Filled
      <4>3. \A v : Withdraws(t, v, x) => Withdraws(t, v, x)'
        BY <2>2, <3>2 DEF Withdraws
      <4>4. \A v : (Unembeds(t, v, x) => Unembeds(t, v, x)') /\ (Untracks(t, v, x) => Untracks(t, v, x)')
        BY <4>3 DEF Unembeds, Untracks
      <4>5. Unembeds(t, w, x) \/ Untracks(t, w, x) => x = w.on
        BY <1>2 DEF Unembeds, Untracks, Withdraws
      <4>6. x = w.on => Withdraws(t, s, x)'
        BY <1>4, <3>1 DEF Withdraws
      <4>7. s \in Work(t)' /\ (x = w.on => Unembeds(t, s, x)' /\ Untracks(t, s, x)')
        BY <1>2, <1>4, <2>4, <4>6 DEF Unembeds, Untracks
      <4>8. (Unembedded(t, x) => Unembedded(t, x)') /\ (Untracked(t, x) => Untracked(t, x)')
        BY <2>4, <4>4, <4>5, <4>7 DEF Unembedded, Untracked
      <4> QED BY <1>4, <2>1, <2>2, <3>6, <4>2, <4>8 DEF Ok, Clears, Goes
    <3> QED BY <2>11, <3>4, <3>5, <3>6 DEF Ok
  <2>12. \A p \in Pairs : p \in graph' \ graph => Holds(t, p)
    BY <1>6, <2>6 DEF Own
  <2> QED BY <2>2, <2>7, <2>8, <2>9, <2>10, <2>11, <2>12, Continues
<1> QED BY <1>11, <1>12

-----------------------------------------------------------------------------
(* The writes a step plans.                                                 *)

LEMMA PutPlanned ==
    ASSUME NEW t \in Tasks, NEW x, NEW c, Own(t, x), c \subseteq Chunks, ~ job[t].deletes
    PROVE  /\ PutIt(x, c).do = "put" /\ PutIt(x, c).on = x
           /\ WriteOK(t, PutIt(x, c)) /\ ~ Alone(t, PutIt(x, c))
<1>1. "put" \notin RequestKinds
  BY DEF RequestKinds
<1>2. PICK w : w = PutIt(x, c)
  OBVIOUS
<1>3. w.do = "put" /\ w.on = x /\ w.chunks = c
  BY <1>2 DEF PutIt
<1>4. WriteOK(t, w) /\ ~ Alone(t, w)
  BY <1>1, <1>3 DEF WriteOK, Alone
<1> QED BY <1>2, <1>3, <1>4

LEMMA EmbedPlanned ==
    ASSUME NEW t \in Tasks, NEW x, Own(t, x), ~ job[t].deletes
    PROVE  /\ EmbedIt(x).do = "embed" /\ EmbedIt(x).on = {x}
           /\ WriteOK(t, EmbedIt(x)) /\ ~ Alone(t, EmbedIt(x))
<1>1. "embed" \notin RequestKinds
  BY DEF RequestKinds
<1>2. PICK w : w = EmbedIt(x)
  OBVIOUS
<1>3. w.do = "embed" /\ w.on = {x}
  BY <1>2 DEF EmbedIt
<1>4. WriteOK(t, w) /\ ~ Alone(t, w)
  BY <1>1, <1>3 DEF WriteOK, Alone
<1> QED BY <1>2, <1>3, <1>4

LEMMA UnembedPlanned ==
    ASSUME NEW t \in Tasks, NEW S, \A x \in S : Own(t, x)
    PROVE  /\ UnembedThem(S).do = "unembed" /\ UnembedThem(S).on = S
           /\ WriteOK(t, UnembedThem(S)) /\ ~ Alone(t, UnembedThem(S))
<1>1. "unembed" \notin RequestKinds
  BY DEF RequestKinds
<1>2. PICK w : w = UnembedThem(S)
  OBVIOUS
<1>3. w.do = "unembed" /\ w.on = S
  BY <1>2 DEF UnembedThem
<1>4. WriteOK(t, w) /\ ~ Alone(t, w)
  BY <1>1, <1>3 DEF WriteOK, Alone
<1> QED BY <1>2, <1>3, <1>4

LEMMA UntrackPlanned ==
    ASSUME NEW t \in Tasks, NEW S, \A x \in S : Own(t, x)
    PROVE  /\ UntrackThem(S).do = "untrack" /\ UntrackThem(S).on = S
           /\ WriteOK(t, UntrackThem(S)) /\ ~ Alone(t, UntrackThem(S))
<1>1. "untrack" \notin RequestKinds
  BY DEF RequestKinds
<1>2. PICK w : w = UntrackThem(S)
  OBVIOUS
<1>3. w.do = "untrack" /\ w.on = S
  BY <1>2 DEF UntrackThem
<1>4. WriteOK(t, w) /\ ~ Alone(t, w)
  BY <1>1, <1>3 DEF WriteOK, Alone
<1> QED BY <1>2, <1>3, <1>4

LEMMA TrackPlanned ==
    ASSUME NEW t \in Tasks, NEW lists, \A x \in DOMAIN lists : Own(t, x) /\ lists[x] \subseteq Chunks,
           ~ job[t].deletes
    PROVE  /\ TrackThem(lists).do = "track" /\ TrackThem(lists).lists = lists
           /\ WriteOK(t, TrackThem(lists)) /\ ~ Alone(t, TrackThem(lists))
<1>1. "track" \notin RequestKinds
  BY DEF RequestKinds
<1>2. PICK w : w = TrackThem(lists)
  OBVIOUS
<1>3. w.do = "track" /\ w.lists = lists
  BY <1>2 DEF TrackThem
<1>4. WriteOK(t, w) /\ ~ Alone(t, w)
  BY <1>1, <1>3 DEF WriteOK, Alone
<1> QED BY <1>2, <1>3, <1>4

LEMMA TrackOnePlanned ==
    ASSUME NEW t \in Tasks, NEW x, NEW c, Own(t, x), c \subseteq Chunks, ~ job[t].deletes
    PROVE  /\ TrackIt(x, c).do = "track" /\ DOMAIN TrackIt(x, c).lists = {x}
           /\ WriteOK(t, TrackIt(x, c)) /\ ~ Alone(t, TrackIt(x, c))
<1> DEFINE lists == [y \in {x} |-> c]
<1>1. DOMAIN lists = {x} /\ \A y \in DOMAIN lists : Own(t, y) /\ lists[y] \subseteq Chunks
  OBVIOUS
<1>2. TrackIt(x, c) = TrackThem(lists)
  BY DEF TrackIt
<1> HIDE DEF lists
<1>3. /\ TrackThem(lists).do = "track" /\ TrackThem(lists).lists = lists
      /\ WriteOK(t, TrackThem(lists)) /\ ~ Alone(t, TrackThem(lists))
  BY <1>1, TrackPlanned
<1> QED BY <1>1, <1>2, <1>3

LEMMA DropPlanned ==
    ASSUME NEW t \in Tasks, NEW x, NEW more, Own(t, x),
           more \in {<<>>, <<{UnembedThem({x})}>>}, job[t].deletes => more = <<>>
    PROVE  /\ DropIt(x, more).do = "drop" /\ DropIt(x, more).on = x /\ DropIt(x, more).more = more
           /\ WriteOK(t, DropIt(x, more)) /\ (~ job[t].deletes => ~ Alone(t, DropIt(x, more)))
<1>1. "drop" \notin RequestKinds
  BY DEF RequestKinds
<1>2. PICK w : w = DropIt(x, more)
  OBVIOUS
<1>3. w.do = "drop" /\ w.on = x /\ w.more = more
  BY <1>2 DEF DropIt
<1>4. WriteOK(t, w) /\ (~ job[t].deletes => ~ Alone(t, w))
  BY <1>1, <1>3 DEF WriteOK, Alone
<1> QED BY <1>2, <1>3, <1>4

\* Any other write of an operation that does not delete.
LEMMA NotRequests ==
    /\ "put" \notin RequestKinds /\ "drop" \notin RequestKinds /\ "embed" \notin RequestKinds
    /\ "unembed" \notin RequestKinds /\ "track" \notin RequestKinds /\ "untrack" \notin RequestKinds
    /\ "relink" \notin RequestKinds /\ "move" \notin RequestKinds /\ "settle" \notin RequestKinds
    /\ "retrack" \notin RequestKinds /\ "regroup" \notin RequestKinds /\ "end" \notin RequestKinds
BY DEF RequestKinds

LEMMA ChunksOf ==
    ASSUME StoresOK, NEW x \in Elements, NEW new \in SUBSET Chunks
    PROVE  /\ src[x] \subseteq Chunks /\ track[x] \subseteq Chunks
           /\ Sources(x) \subseteq Chunks /\ Limited(x, new) \subseteq Chunks
           /\ Incremental(x, new) \subseteq Chunks
<1>1. src[x] \subseteq Chunks /\ track[x] \subseteq Chunks
  BY DEF StoresOK
<1>2. Sources(x) \subseteq Chunks
  BY <1>1 DEF Sources
<1> QED BY <1>1, <1>2 DEF Limited, Incremental

LEMMA OwnElement ==
    ASSUME NEW t \in Tasks, NEW x, Own(t, x) PROVE x \in Elements
BY DEF Own

-----------------------------------------------------------------------------
(* Writes that plan others.                                                 *)

LEMMA Expands ==
    ASSUME EditIInv, NEW t \in Tasks, job[t].plan # <<>>, NEW w \in Head(job[t].plan),
           w.do \in {"settle", "retrack", "regroup", "end"}, ~ job[t].deletes,
           NEW more, IsPlan(more), Goes(t, w, more), job'[t].moved = job[t].moved,
           \A v \in Todo(more) : /\ WriteOK(t, v) /\ ~ Alone(t, v)
                                 /\ v.do \notin {"relink", "move", "drop"}
                                 /\ \A x \in Elements : Fills(t, v, x) => Fills(t, w, x),
           StoresOK', graph' = graph, torn \subseteq torn',
           \A x \in Elements : Same(x) \/ Excused(x, torn')
                               \/ (Holds(t, x) /\ \A u \in Tasks \ {t} : ~ Holds(u, x)),
           \A x \in Elements :
               /\ Makes(w, x) => x \in graph \/ \E v \in Todo(more) : Makes(v, x)
               /\ x \in vec' => /\ x \in vec
                                /\ Unembeds(t, w, x) => \E v \in Todo(more) : Unembeds(t, v, x)
               /\ track'[x] # {} => /\ track[x] # {}
                                    /\ Untracks(t, w, x) => \E v \in Todo(more) : Untracks(t, v, x)
    PROVE  EditIInv'
<1>1. ~ Alone(t, w) /\ w.do \notin {"put", "relink", "move"}
  BY NotRequests DEF Alone
<1>2. /\ w \in Work(t) /\ Work(t) \ {w} \subseteq Work(t)' /\ Todo(more) \subseteq Work(t)'
      /\ Work(t)' \subseteq Work(t) \cup Todo(more) /\ JobOK(t)'
  BY <1>1, Fits
<1>3. ASSUME NEW x \in Elements, Ok(t, x) PROVE Ok(t, x)'
  <2>1. Makes(w, x) => Made(t, x)'
    BY <1>2 DEF Made
  <2>2. \A v \in Todo(more) : ~ Drops(v, x) /\ (Fills(t, v, x) => Filled(t, x))
    BY <1>2 DEF Drops, Filled
  <2>3. \A v : Withdraws(t, v, x)' <=> Withdraws(t, v, x)
    BY DEF Withdraws
  <2>4. \A v : (Unembeds(t, v, x)' <=> Unembeds(t, v, x)) /\ (Untracks(t, v, x)' <=> Untracks(t, v, x))
    BY <2>3 DEF Unembeds, Untracks
  <2>5. x \in vec' => x \in vec /\ (Unembeds(t, w, x) => Unembedded(t, x)')
    BY <1>2, <2>4 DEF Unembedded
  <2>6. track'[x] # {} => track[x] # {} /\ (Untracks(t, w, x) => Untracked(t, x)')
    BY <1>2, <2>4 DEF Untracked
  <2> QED BY <1>2, <1>3, <2>1, <2>2, <2>5, <2>6, OkAfter
<1> QED BY <1>2, <1>3, Continues

LEMMA MergeEndKeeps ==
    ASSUME EditIInv, NEW t \in Tasks, job[t].plan # <<>>, NEW w \in Head(job[t].plan), MergeEnd(t, w)
    PROVE  EditIInv'
<1>1. w \in Work(t) /\ WriteOK(t, w) /\ StoresOK
  BY AtHand
<1>2. w.do = "end"
  BY DEF MergeEnd
<1>3. /\ Own(t, w.on) /\ w.chunks \subseteq Chunks /\ w.full \subseteq Chunks /\ ~ job[t].deletes
      /\ w.on \in Elements
  <2>1. Own(t, w.on) /\ w.chunks \subseteq Chunks /\ w.full \subseteq Chunks /\ ~ job[t].deletes
    BY <1>1, <1>2, NotRequests DEF WriteOK
  <2> QED BY <2>1, OwnElement
<1> DEFINE both == Sources(w.on) \cup w.chunks
           kept == Limited(w.on, w.chunks)
           put(c)  == PutIt(w.on, c)
           list(c) == TrackIt(w.on, c)
           emb     == EmbedIt(w.on)
\* A plan of such writes will do.
<1>4. ASSUME NEW more, IsPlan(more), Plan(t, w, more), NEW c \in SUBSET Chunks, NEW d \in SUBSET Chunks,
             Todo(more) \subseteq {put(c), list(d), emb}, w.on \in graph \/ put(c) \in Todo(more)
      PROVE  EditIInv'
  <2>1. /\ Goes(t, w, more) /\ job'[t].moved = job[t].moved
        /\ torn' = torn /\ StoresOK' /\ graph' = graph /\ vec' = vec /\ track' = track
    BY <1>4, Plan_Goes
  <2>2. PICK p, l, e : p = put(c) /\ l = list(d) /\ e = emb
    OBVIOUS
  <2>3. /\ p.do = "put" /\ p.on = w.on /\ WriteOK(t, p) /\ ~ Alone(t, p)
        /\ l.do = "track" /\ DOMAIN l.lists = {w.on} /\ WriteOK(t, l) /\ ~ Alone(t, l)
        /\ e.do = "embed" /\ e.on = {w.on} /\ WriteOK(t, e) /\ ~ Alone(t, e)
    <3>1. p.do = "put" /\ p.on = w.on /\ WriteOK(t, p) /\ ~ Alone(t, p)
      BY <1>3, <2>2, PutPlanned
    <3>2. l.do = "track" /\ DOMAIN l.lists = {w.on} /\ WriteOK(t, l) /\ ~ Alone(t, l)
      BY <1>3, <2>2, TrackOnePlanned
    <3>3. e.do = "embed" /\ e.on = {w.on} /\ WriteOK(t, e) /\ ~ Alone(t, e)
      BY <1>3, <2>2, EmbedPlanned
    <3> QED BY <3>1, <3>2, <3>3
  <2>4. Todo(more) \subseteq {p, l, e} /\ (w.on \in graph \/ p \in Todo(more))
    BY <1>4, <2>2
  <2>5. ASSUME NEW x \in Elements
        PROVE  /\ Makes(w, x) => x \in graph \/ \E v \in Todo(more) : Makes(v, x)
               /\ ~ Unembeds(t, w, x) /\ ~ Untracks(t, w, x) /\ Same(x)
               /\ \A v \in Todo(more) : Fills(t, v, x) => Fills(t, w, x)
    <3>1. Makes(w, x) => x = w.on
      BY <1>2 DEF Makes
    <3>2. x = w.on => Makes(p, x) /\ Fills(t, w, x)
      BY <1>2, <2>3 DEF Makes, Fills
    <3>3. \A v \in Todo(more) : Fills(t, v, x) => x = w.on
      BY <2>3, <2>4 DEF Fills
    <3>4. ~ Unembeds(t, w, x) /\ ~ Untracks(t, w, x) /\ Same(x)
      BY <1>2, <2>1 DEF Unembeds, Untracks, Withdraws, Same
    <3> QED BY <2>4, <3>1, <3>2, <3>3, <3>4
  <2>6. \A v \in Todo(more) : WriteOK(t, v) /\ ~ Alone(t, v) /\ v.do \notin {"relink", "move", "drop"}
    BY <2>3, <2>4
  <2> QED BY <1>2, <1>3, <1>4, <2>1, <2>5, <2>6, Expands
<1>5. kept \in SUBSET Chunks /\ both \in SUBSET Chunks
  BY <1>1, <1>3, ChunksOf
<1>6. CASE w.on \notin graph
  <2> DEFINE p == {put(w.chunks)}
             l == {list(w.full)}
             e == {emb}
  <2>1. Plan(t, w, <<p, l, e>>)
    BY <1>6 DEF MergeEnd
  <2>2. IsPlan(<<p, l, e>>) /\ Todo(<<p, l, e>>) = p \cup l \cup e
    <3> HIDE DEF p, l, e
    <3> QED BY PlanOfThree
  <2>3. put(w.chunks) \in p /\ p \cup l \cup e \subseteq {put(w.chunks), list(w.full), emb}
    OBVIOUS
  <2> HIDE DEF p, l, e, put, list, emb
  <2> QED BY <1>3, <1>4, <2>1, <2>2, <2>3
<1>7. CASE w.on \in graph
  <2> DEFINE T == IF both = Sources(w.on) THEN {} ELSE {list(both)}
             p == {put(kept)}
             e == {emb}
             q == IF kept = src[w.on] THEN <<>> ELSE <<p, e>>
  <2>1. Plan(t, w, Stage(T) \o q)
    BY <1>7 DEF MergeEnd
  <2>2. IsPlan(<<>>) /\ Todo(<<>>) = {}
    BY PlanOfNone
  <2>3. IsPlan(<<p, e>>) /\ Todo(<<p, e>>) = p \cup e
    <3> HIDE DEF p, e
    <3> QED BY PlanOfTwo
  <2>4. IsPlan(q) /\ Todo(q) \subseteq p \cup e
    <3> HIDE DEF p, e
    <3> QED BY <2>2, <2>3
  <2>5. IsPlan(Stage(T)) /\ Todo(Stage(T)) = T
    <3> HIDE DEF T
    <3> QED BY StagePlan
  <2>6. IsPlan(Stage(T) \o q) /\ Todo(Stage(T) \o q) = T \cup Todo(q)
    <3> HIDE DEF T, q
    <3> QED BY <2>4, <2>5, Joined
  <2>7. T \subseteq {list(both)} /\ p = {put(kept)} /\ e = {emb}
    OBVIOUS
  <2>8. Todo(Stage(T) \o q) \subseteq {put(kept), list(both), emb}
    <3> HIDE DEF T, q, p, e, put, list, emb
    <3> QED BY <2>4, <2>6, <2>7
  <2> HIDE DEF T, q, put, list, emb, kept, both
  <2> QED BY <1>4, <1>5, <1>7, <2>1, <2>6, <2>8
<1> QED BY <1>6, <1>7

LEMMA RetrackKeeps ==
    ASSUME EditIInv, NEW t \in Tasks, job[t].plan # <<>>, NEW w \in Head(job[t].plan), Retrack(t, w)
    PROVE  EditIInv'
<1>1. w \in Work(t) /\ WriteOK(t, w) /\ StoresOK
  BY AtHand
<1>2. w.do = "retrack"
  BY DEF Retrack
<1>3. /\ w.from \in Elements /\ w.to \in Elements /\ Own(t, w.from) /\ Own(t, w.to)
      /\ w.chunks \subseteq Chunks /\ ~ job[t].deletes
  <2>1. Own(t, w.from) /\ Own(t, w.to) /\ w.chunks \subseteq Chunks /\ ~ job[t].deletes
    BY <1>1, <1>2, NotRequests DEF WriteOK
  <2> QED BY <2>1, OwnElement
<1> DEFINE all == IF track[w.from] # {} THEN track[w.from] ELSE w.chunks
           T == IF all = {} THEN {} ELSE {TrackIt(w.to, all)}
           S == {w.from, w.to}
<1>4. /\ track' = [track EXCEPT ![w.from] = {}] /\ graph' = graph /\ vec' = vec /\ src' = src
      /\ Wrote(t, w, Stage(T), S)
  <2>1. Stage(T) = IF all = {} THEN <<>> ELSE <<{TrackIt(w.to, all)}>>
    BY DEF Stage
  <2> QED BY <2>1 DEF Retrack
<1>5. S \in SUBSET Elements
  BY <1>3
<1>6. /\ Goes(t, w, Stage(T)) /\ job'[t].moved = job[t].moved
      /\ torn' = Marked(t, EntsOf(S)) /\ torn \subseteq torn' /\ torn' \subseteq Elements
      /\ halved' = halved
  <2> HIDE DEF S, T
  <2> QED BY <1>4, <1>5, Wrote_Goes
<1>7. IsPlan(Stage(T)) /\ Todo(Stage(T)) = T
  <2> HIDE DEF T
  <2> QED BY StagePlan
<1>8. all \subseteq Chunks
  BY <1>1, <1>3, ChunksOf
<1>9. \A v \in T : v.do = "track" /\ DOMAIN v.lists = {w.to} /\ WriteOK(t, v) /\ ~ Alone(t, v)
  <2>1. PICK l : l = TrackIt(w.to, all)
    OBVIOUS
  <2>2. l.do = "track" /\ DOMAIN l.lists = {w.to} /\ WriteOK(t, l) /\ ~ Alone(t, l)
    <3> HIDE DEF all
    <3> QED BY <1>3, <1>8, <2>1, TrackOnePlanned
  <2>3. T \subseteq {l}
    BY <2>1
  <2> HIDE DEF T
  <2> QED BY <2>2, <2>3
<1> HIDE DEF T, all
<1>10. StoresOK'
  BY <1>1, <1>3, <1>4, <1>6 DEF StoresOK
<1>11. ASSUME NEW x \in Elements
       PROVE  Same(x) \/ Excused(x, torn') \/ (Holds(t, x) /\ \A u \in Tasks \ {t} : ~ Holds(u, x))
  <2>1. CASE x \in S
    <3>1. Holds(t, x)
      BY <1>3, <2>1 DEF Own
    <3> HIDE DEF S
    <3> QED BY <1>5, <1>6, <2>1, <3>1, Touched
  <2>2. CASE x \notin S
    BY <1>1, <1>4, <2>2 DEF Same, StoresOK
  <2> QED BY <2>1, <2>2
<1>12. ASSUME NEW x \in Elements
       PROVE  /\ ~ Makes(w, x) /\ ~ Unembeds(t, w, x)
              /\ track'[x] # {} => track[x] # {} /\ ~ Untracks(t, w, x)
              /\ \A v \in T : Fills(t, v, x) => Fills(t, w, x)
  <2>1. ~ Makes(w, x) /\ ~ Unembeds(t, w, x) /\ (Untracks(t, w, x) => x = w.from)
    BY <1>2 DEF Makes, Unembeds, Untracks, Withdraws
  <2>2. track'[x] # {} => track[x] # {} /\ x # w.from
    BY <1>1, <1>4 DEF StoresOK
  <2>3. \A v \in T : Fills(t, v, x) => x = w.to
    BY <1>9 DEF Fills
  <2>4. x = w.to => Fills(t, w, x)
    BY <1>2 DEF Fills
  <2> QED BY <2>1, <2>2, <2>3, <2>4
<1>13. \A v \in T : v.do \notin {"relink", "move", "drop"}
  BY <1>9
<1> QED BY <1>2, <1>3, <1>4, <1>6, <1>7, <1>9, <1>10, <1>11, <1>12, <1>13, Expands

LEMMA SettleKeeps ==
    ASSUME EditIInv, NEW t \in Tasks, job[t].plan # <<>>, NEW w \in Head(job[t].plan), Settle(t, w)
    PROVE  EditIInv'
<1>1. w \in Work(t) /\ WriteOK(t, w) /\ StoresOK /\ MovedOK(t)
  BY AtHand DEF JobOK
<1>2. w.do = "settle"
  BY DEF Settle
<1>3. /\ w.on \in Entities /\ w.to \in Entities /\ Own(t, w.on) /\ Own(t, w.to)
      /\ w.full \subseteq Chunks /\ ~ job[t].deletes
  BY <1>1, <1>2, NotRequests DEF WriteOK
<1> DEFINE moved == job[t].moved
           old   == {m[1] : m \in moved}
           back(m) == [do |-> "retrack", from |-> m[1], to |-> m[2], chunks |-> m[3]]
           E == {EmbedIt(m[2]) : m \in moved}
           R == {back(m) : m \in moved}
           e == {EmbedIt(w.to)}
           u == {UntrackThem({w.on})}
           l == {TrackIt(w.to, w.full)}
           more == Stage(E) \o <<e, u, l>> \o Stage(R)
           S == old \cap vec
<1>4. /\ vec' = vec \ old /\ graph' = graph /\ src' = src /\ track' = track
      /\ Wrote(t, w, more, S)
  BY DEF Settle
<1>5. \A m \in moved : m[1] \in Pairs /\ m[2] \in Pairs /\ Own(t, m[1]) /\ Own(t, m[2])
                       /\ m[3] \subseteq Chunks
  BY <1>1 DEF MovedOK
<1>6. old \subseteq Elements /\ S \in SUBSET Elements /\ \A x \in old : Holds(t, x)
  BY <1>5 DEF Elements, Own
<1>7. /\ Goes(t, w, more) /\ job'[t].moved = job[t].moved
      /\ torn' = Marked(t, EntsOf(S)) /\ torn \subseteq torn' /\ torn' \subseteq Elements
      /\ halved' = halved
  <2> HIDE DEF S, more
  <2> QED BY <1>4, <1>6, Wrote_Goes
<1>8. IsPlan(more) /\ Todo(more) = E \cup (e \cup u \cup l) \cup R
  <2>1. IsPlan(<<e, u, l>>) /\ Todo(<<e, u, l>>) = e \cup u \cup l
    <3> HIDE DEF e, u, l
    <3> QED BY PlanOfThree
  <2>2. IsPlan(Stage(E)) /\ Todo(Stage(E)) = E /\ IsPlan(Stage(R)) /\ Todo(Stage(R)) = R
    <3> HIDE DEF E, R
    <3> QED BY StagePlan
  <2> DEFINE q == Stage(E) \o <<e, u, l>>
  <2>3. IsPlan(q) /\ Todo(q) = E \cup (e \cup u \cup l)
    <3> HIDE DEF E, e, u, l
    <3> QED BY <2>1, <2>2, Joined
  <2>4. IsPlan(q \o Stage(R)) /\ Todo(q \o Stage(R)) = Todo(q) \cup R
    <3> HIDE DEF q, R, E, e, u, l
    <3>1. IsPlan(q) /\ IsPlan(Stage(R)) /\ Todo(Stage(R)) = R
      BY <2>2, <2>3
    <3> QED BY <3>1, Joined
  <2> HIDE DEF E, e, u, l, R
  <2> QED BY <2>3, <2>4
<1>9. ASSUME NEW v \in E
      PROVE  /\ WriteOK(t, v) /\ ~ Alone(t, v) /\ v.do = "embed"
             /\ \E m \in moved : v.on = {m[2]}
  <2>1. PICK m \in moved : v = EmbedIt(m[2])
    OBVIOUS
  <2> HIDE DEF moved
  <2> QED BY <1>3, <1>5, <2>1, EmbedPlanned
<1>10. ASSUME NEW v \in R
       PROVE  /\ WriteOK(t, v) /\ ~ Alone(t, v) /\ v.do = "retrack"
              /\ \E m \in moved : v.from = m[1] /\ v.to = m[2]
  <2>1. PICK m \in moved : v = back(m)
    OBVIOUS
  <2>2. v.do = "retrack" /\ v.from = m[1] /\ v.to = m[2] /\ v.chunks = m[3]
    BY <2>1
  <2> HIDE DEF moved, R
  <2>3. WriteOK(t, v) /\ ~ Alone(t, v)
    BY <1>3, <1>5, <2>2, NotRequests DEF WriteOK, Alone
  <2> QED BY <2>2, <2>3
<1>11. PICK a, b, c : a = EmbedIt(w.to) /\ b = UntrackThem({w.on}) /\ c = TrackIt(w.to, w.full)
  OBVIOUS
<1>12. /\ a.do = "embed" /\ a.on = {w.to} /\ WriteOK(t, a) /\ ~ Alone(t, a)
       /\ b.do = "untrack" /\ b.on = {w.on} /\ WriteOK(t, b) /\ ~ Alone(t, b)
       /\ c.do = "track" /\ DOMAIN c.lists = {w.to} /\ WriteOK(t, c) /\ ~ Alone(t, c)
  <2>1. a.do = "embed" /\ a.on = {w.to} /\ WriteOK(t, a) /\ ~ Alone(t, a)
    BY <1>3, <1>11, EmbedPlanned
  <2>2. b.do = "untrack" /\ b.on = {w.on} /\ WriteOK(t, b) /\ ~ Alone(t, b)
    <3> DEFINE X == {w.on}
    <3>1. \A x \in X : Own(t, x)
      BY <1>3
    <3> HIDE DEF X
    <3>2. /\ UntrackThem(X).do = "untrack" /\ UntrackThem(X).on = X
          /\ WriteOK(t, UntrackThem(X)) /\ ~ Alone(t, UntrackThem(X))
      BY <3>1, UntrackPlanned
    <3> QED BY <1>11, <3>2 DEF X
  <2>3. c.do = "track" /\ DOMAIN c.lists = {w.to} /\ WriteOK(t, c) /\ ~ Alone(t, c)
    BY <1>3, <1>11, TrackOnePlanned
  <2> QED BY <2>1, <2>2, <2>3
<1>13. Todo(more) = E \cup {a, b, c} \cup R
  BY <1>8, <1>11
<1>14. \A m \in moved : (\E v \in R : v.do = "retrack" /\ v.from = m[1])
  <2> SUFFICES ASSUME NEW m \in moved PROVE \E v \in R : v.do = "retrack" /\ v.from = m[1]
    OBVIOUS
  <2>1. back(m) \in R /\ back(m).do = "retrack" /\ back(m).from = m[1]
    OBVIOUS
  <2> HIDE DEF R, back
  <2> QED BY <2>1
<1>15. StoresOK'
  <2> HIDE DEF old
  <2> QED BY <1>1, <1>4, <1>7 DEF StoresOK
<1>16. ASSUME NEW x \in Elements
       PROVE  Same(x) \/ Excused(x, torn') \/ (Holds(t, x) /\ \A v \in Tasks \ {t} : ~ Holds(v, x))
  <2>1. CASE x \in S
    <3>1. Holds(t, x)
      BY <1>6, <2>1
    <3> HIDE DEF S
    <3> QED BY <1>6, <1>7, <2>1, <3>1, Touched
  <2>2. CASE x \notin S
    BY <1>4, <2>2 DEF Same
  <2> QED BY <2>1, <2>2
<1>17. ASSUME NEW v \in Todo(more)
       PROVE  /\ WriteOK(t, v) /\ ~ Alone(t, v)
              /\ v.do \notin {"relink", "move", "drop"}
              /\ \A x \in Elements : Fills(t, v, x) => Fills(t, w, x)
  <2>1. CASE v \in E
    <3>1. PICK m \in moved : v.on = {m[2]} /\ v.do = "embed" /\ WriteOK(t, v) /\ ~ Alone(t, v)
      BY <1>9, <2>1
    <3> HIDE DEF E, more
    <3> QED BY <1>2, <3>1 DEF Fills
  <2>2. CASE v \in {a, b, c}
    <3> HIDE DEF moved, more
    <3> QED BY <1>2, <1>12, <2>2 DEF Fills
  <2>3. CASE v \in R
    <3>1. PICK m \in moved : v.to = m[2] /\ v.do = "retrack" /\ WriteOK(t, v) /\ ~ Alone(t, v)
      BY <1>10, <2>3
    <3> HIDE DEF R, more
    <3> QED BY <1>2, <3>1 DEF Fills
  <2> HIDE DEF E, R, more
  <2> QED BY <1>13, <2>1, <2>2, <2>3
<1>18. ASSUME NEW x \in Elements
       PROVE  /\ ~ Makes(w, x)
              /\ x \in vec' => x \in vec /\ ~ Unembeds(t, w, x)
              /\ track'[x] = track[x]
              /\ Untracks(t, w, x) => \E v \in Todo(more) : Untracks(t, v, x)
  <2>1. ~ Makes(w, x) /\ (Unembeds(t, w, x) => x \in old)
    BY <1>2 DEF Makes, Unembeds, Withdraws
  <2>2. Untracks(t, w, x) => x = w.on \/ \E m \in moved : x = m[1]
    BY <1>2 DEF Untracks, Withdraws
  <2>3. Untracks(t, b, w.on)
    BY <1>12 DEF Untracks
  <2>4. ASSUME NEW m \in moved, x = m[1] PROVE \E v \in R : Untracks(t, v, x)
    <3>1. PICK v \in R : v.do = "retrack" /\ v.from = m[1]
      BY <1>14
    <3>2. Untracks(t, v, x)
      BY <2>4, <3>1 DEF Untracks
    <3> QED BY <3>2
  <2> HIDE DEF E, R, more, old, moved
  <2> QED BY <1>4, <1>13, <2>1, <2>2, <2>3, <2>4
<1> HIDE DEF S, more, old, E, R, e, u, l, moved
<1> QED BY <1>2, <1>3, <1>4, <1>7, <1>8, <1>15, <1>16, <1>17, <1>18, Expands

LEMMA RegroupKeeps ==
    ASSUME EditIInv, NEW t \in Tasks, job[t].plan # <<>>, NEW w \in Head(job[t].plan), Regroup(t, w)
    PROVE  EditIInv'
<1>1. w \in Work(t) /\ WriteOK(t, w) /\ StoresOK
  BY AtHand
<1>2. w.do = "regroup"
  BY DEF Regroup
<1>3. TiesOK(t, w.ties) /\ ~ job[t].deletes
  BY <1>1, <1>2, NotRequests DEF WriteOK
<1> DEFINE old   == {m[1] : m \in w.ties}
           new   == {m[2] : m \in w.ties} \cap Pairs
           of(q) == {m \in w.ties : m[2] = q}
           all(q)  == UNION {m[3] : m \in of(q)}
           full(q) == UNION {IF track[m[1]] # {} THEN track[m[1]] ELSE m[3] : m \in of(q)}
           lists == [q \in new |-> full(q)]
           P == {PutIt(q, all(q)) : q \in new}
           u == {UntrackThem(old)}
           L == IF new = {} THEN {} ELSE {TrackThem(lists)}
           n == {UnembedThem(old)}
           E == {EmbedIt(q) : q \in new}
           more == Stage(P) \o <<u>> \o Stage(L) \o <<n>> \o Stage(E)
<1>4. /\ Becomes(t, Advanced(t, w, more))
      /\ torn' = torn \cup {q \in new : \E m \in of(q) : m[1] \in torn}
      /\ graph' = graph /\ vec' = vec /\ track' = track /\ src' = src /\ halved' = halved
  BY DEF Regroup, stores
<1>5. Goes(t, w, more) /\ job'[t].moved = job[t].moved
  <2> HIDE DEF more
  <2> QED BY <1>4, CleanGoes
<1>6. \A m \in w.ties : /\ m[1] \in Pairs /\ Own(t, m[1]) /\ m[3] \subseteq Chunks
                        /\ m[2] \in SUBSET Entities /\ (m[2] \in Pairs => Own(t, m[2]))
  BY <1>3 DEF TiesOK
<1>7. (\A x \in old : Own(t, x)) /\ (\A q \in new : Own(t, q) /\ q \in Elements)
  BY <1>6 DEF Elements
<1>8. \A q : all(q) \subseteq Chunks
  BY <1>6
<1>9. \A q : full(q) \subseteq Chunks
  <2>1. \A m \in w.ties : track[m[1]] \subseteq Chunks
    BY <1>1, <1>6 DEF StoresOK, Elements
  <2> QED BY <1>6, <2>1
<1>10. IsPlan(more) /\ Todo(more) = P \cup u \cup L \cup n \cup E
  <2> HIDE DEF P, u, L, n, E
  <2>1. /\ IsPlan(Stage(P)) /\ Todo(Stage(P)) = P /\ IsPlan(Stage(L)) /\ Todo(Stage(L)) = L
        /\ IsPlan(Stage(E)) /\ Todo(Stage(E)) = E
        /\ IsPlan(<<u>>) /\ Todo(<<u>>) = u /\ IsPlan(<<n>>) /\ Todo(<<n>>) = n
    BY StagePlan, PlanOfOne
  <2> DEFINE a == Stage(P) \o <<u>>
             b == a \o Stage(L)
             c == b \o <<n>>
             d == c \o Stage(E)
  <2>2. IsPlan(a) /\ Todo(a) = P \cup u
    BY <2>1, Joined
  <2>3. IsPlan(b) /\ Todo(b) = Todo(a) \cup L
    <3> HIDE DEF a
    <3> QED BY <2>1, <2>2, Joined
  <2>4. IsPlan(c) /\ Todo(c) = Todo(b) \cup n
    <3> HIDE DEF b
    <3> QED BY <2>1, <2>3, Joined
  <2>5. IsPlan(d) /\ Todo(d) = Todo(c) \cup E
    <3> HIDE DEF c
    <3> QED BY <2>1, <2>4, Joined
  <2>6. more = d
    OBVIOUS
  <2> HIDE DEF a, b, c, d, more
  <2> QED BY <2>2, <2>3, <2>4, <2>5, <2>6
<1>11. ASSUME NEW v \in P
       PROVE  /\ WriteOK(t, v) /\ ~ Alone(t, v) /\ v.do = "put"
  <2>1. PICK q \in new : v = PutIt(q, all(q))
    OBVIOUS
  <2> HIDE DEF new, all
  <2> QED BY <1>3, <1>7, <1>8, <2>1, PutPlanned
<1>12. ASSUME NEW q \in new PROVE \E v \in P : Makes(v, q)
  <2>1. PICK v : v = PutIt(q, all(q))
    OBVIOUS
  <2>2. v.do = "put" /\ v.on = q
    BY <2>1 DEF PutIt
  <2>3. v \in P
    BY <2>1
  <2> HIDE DEF P
  <2> QED BY <2>2, <2>3 DEF Makes
<1>13. ASSUME NEW v \in E
       PROVE  WriteOK(t, v) /\ ~ Alone(t, v) /\ v.do = "embed" /\ v.on \subseteq new
  <2>1. PICK q \in new : v = EmbedIt(q)
    OBVIOUS
  <2>2. WriteOK(t, v) /\ ~ Alone(t, v) /\ v.do = "embed" /\ v.on = {q}
    <3> HIDE DEF new
    <3> QED BY <1>3, <1>7, <2>1, EmbedPlanned
  <2> QED BY <2>1, <2>2
<1>14. ASSUME NEW v \in L
       PROVE  WriteOK(t, v) /\ ~ Alone(t, v) /\ v.do = "track" /\ DOMAIN v.lists = new
  <2>1. v = TrackThem(lists)
    OBVIOUS
  <2>2. DOMAIN lists = new /\ \A x \in DOMAIN lists : Own(t, x) /\ lists[x] \subseteq Chunks
    <3> HIDE DEF new, full
    <3> QED BY <1>7, <1>9
  <2> HIDE DEF lists, new, L
  <2>3. /\ TrackThem(lists).do = "track" /\ TrackThem(lists).lists = lists
        /\ WriteOK(t, TrackThem(lists)) /\ ~ Alone(t, TrackThem(lists))
    BY <1>3, <2>2, TrackPlanned
  <2> QED BY <2>1, <2>2, <2>3
<1>15. PICK a, b : a = UntrackThem(old) /\ b = UnembedThem(old)
  OBVIOUS
<1>16. /\ a.do = "untrack" /\ a.on = old /\ WriteOK(t, a) /\ ~ Alone(t, a)
       /\ b.do = "unembed" /\ b.on = old /\ WriteOK(t, b) /\ ~ Alone(t, b)
  <2> HIDE DEF old
  <2>1. /\ UntrackThem(old).do = "untrack" /\ UntrackThem(old).on = old
        /\ WriteOK(t, UntrackThem(old)) /\ ~ Alone(t, UntrackThem(old))
    BY <1>7, UntrackPlanned
  <2>2. /\ UnembedThem(old).do = "unembed" /\ UnembedThem(old).on = old
        /\ WriteOK(t, UnembedThem(old)) /\ ~ Alone(t, UnembedThem(old))
    BY <1>7, UnembedPlanned
  <2> QED BY <1>15, <2>1, <2>2
<1>17. Todo(more) = P \cup {a} \cup L \cup {b} \cup E
  BY <1>10, <1>15
<1>18. StoresOK' /\ torn \subseteq torn'
  <2>1. torn' \subseteq Elements
    BY <1>1, <1>4, <1>7 DEF StoresOK
  <2> HIDE DEF new
  <2> QED BY <1>1, <1>4, <2>1 DEF StoresOK
<1>19. \A x \in Elements : Same(x)
  BY <1>4 DEF Same
<1>20. ASSUME NEW v \in Todo(more)
       PROVE  /\ WriteOK(t, v) /\ ~ Alone(t, v)
              /\ v.do \notin {"relink", "move", "drop"}
              /\ \A x \in Elements : Fills(t, v, x) => Fills(t, w, x)
  <2>1. \A x \in new : Fills(t, w, x)
    BY <1>2 DEF Fills
  <2> HIDE DEF P, L, E, new, old, more
  <2>2. CASE v \in P
    BY <1>11, <2>2 DEF Fills
  <2>3. CASE v \in {a, b}
    BY <1>16, <2>3 DEF Fills
  <2>4. CASE v \in L
    BY <1>14, <2>1, <2>4 DEF Fills
  <2>5. CASE v \in E
    BY <1>13, <2>1, <2>5 DEF Fills
  <2> QED BY <1>17, <2>2, <2>3, <2>4, <2>5
<1>21. ASSUME NEW x \in Elements
       PROVE  /\ Makes(w, x) => x \in graph \/ \E v \in Todo(more) : Makes(v, x)
              /\ Unembeds(t, w, x) => \E v \in Todo(more) : Unembeds(t, v, x)
              /\ Untracks(t, w, x) => \E v \in Todo(more) : Untracks(t, v, x)
  <2>1. Makes(w, x) => x \in new
    <3>1. Makes(w, x) => \E m \in w.ties : x = m[2]
      BY <1>2 DEF Makes
    <3>2. x \in SUBSET Entities => x \in Pairs
      BY Shapes DEF Elements
    <3> QED BY <1>6, <3>1, <3>2
  <2>2. Unembeds(t, w, x) \/ Untracks(t, w, x) => x \in old
    BY <1>2 DEF Unembeds, Untracks, Withdraws
  <2> HIDE DEF P, L, E, new, old, more
  <2>3. x \in old => Untracks(t, a, x) /\ Unembeds(t, b, x)
    BY <1>16 DEF Untracks, Unembeds
  <2> QED BY <1>12, <1>17, <2>1, <2>2, <2>3
<1> HIDE DEF P, u, L, n, E, new, old, more
<1> QED BY <1>2, <1>3, <1>4, <1>5, <1>10, <1>18, <1>19, <1>20, <1>21, Expands

-----------------------------------------------------------------------------
(* Requests are planned.                                                    *)

LEMMA RequestsAre ==
    ASSUME NEW w \in Requests
    PROVE  /\ w.do \in RequestKinds
           /\ w.do \in {"delete_entity", "create_entity"} =>
                  w.on \in Entities /\ Keys(w) = Ents(w.on) /\ About(w) = {w.on}
           /\ w.do \in {"delete_relation", "create_relation", "edit_relation"} =>
                  w.on \in Pairs /\ Keys(w) = Ents(w.on) /\ About(w) = {w.on}
           /\ w.do = "edit_relation" => w.chunks \in {{}, {NewChunk}}
           /\ w.do = "ingest" => w.on \in Pairs /\ Keys(w) = Ents(w.on) /\ About(w) = {w.on} \cup w.on
           /\ w.do = "edit_entity" =>
                  /\ w.on \in Entities /\ w.to \in Entities /\ w.chunks \in {{}, {NewChunk}}
                  /\ Keys(w) = {w.on, w.to} /\ About(w) = {w.on, w.to}
           /\ w.do = "merge" => /\ w.from \in SUBSET Entities /\ w.from # {} /\ w.to \in Entities
                                /\ Keys(w) = w.from \cup {w.to} /\ About(w) = w.from \cup {w.to}
<1>1. CASE w \in [do : {"delete_entity", "create_entity"}, on : Entities]
  BY <1>1 DEF Keys, About, RequestKinds
<1>2. CASE w \in [do : {"delete_relation", "create_relation", "ingest"}, on : Pairs]
  BY <1>2 DEF Keys, About, RequestKinds
<1>3. CASE w \in [do : {"edit_relation"}, on : Pairs, chunks : {{}, {NewChunk}}]
  BY <1>3 DEF Keys, About, RequestKinds
<1>4. CASE w \in [do : {"edit_entity"}, on : Entities, to : Entities,
                  chunks : {{}, {NewChunk}}, merge : BOOLEAN]
  BY <1>4 DEF Keys, About, RequestKinds
<1>5. CASE w \in [do : {"merge"}, from : (SUBSET Entities) \ {{}}, to : Entities]
  BY <1>5 DEF Keys, About, RequestKinds
<1> QED BY <1>1, <1>2, <1>3, <1>4, <1>5 DEF Requests

\* A request has done nothing yet: what it is about is in order.
LEMMA NothingYet ==
    ASSUME EditIInv, NEW t \in Tasks, NEW w, Work(t) = {w}, w.do \in RequestKinds, NEW x
    PROVE  /\ ~ Filled(t, x) /\ ~ Lost(t, x)
           /\ Ok(t, x) <=> ~ Orphan(x)
<1>1. /\ \A y : ~ Makes(w, y) /\ ~ Drops(w, y) /\ ~ Fills(t, w, y)
      /\ \A y : ~ Unembeds(t, w, y) /\ ~ Untracks(t, w, y)
  BY NotRequests DEF Makes, Drops, Fills, Unembeds, Untracks, Withdraws
<1>2. /\ ~ Filled(t, x) /\ ~ Lost(t, x) /\ (Made(t, x) <=> x \in graph)
      /\ ~ Unembedded(t, x) /\ ~ Untracked(t, x)
  BY <1>1 DEF Filled, Lost, Made, Unembedded, Untracked
<1> QED BY <1>2 DEF Ok, Stays, Clears, Orphan

LEMMA Asked ==
    ASSUME EditIInv, NEW t \in Tasks, job[t].plan # <<>>, NEW w \in Head(job[t].plan),
           w.do \in RequestKinds
    PROVE  /\ Work(t) = {w} /\ RequestOK(t, w) /\ w \in Requests /\ StoresOK /\ Alone(t, w)
           /\ Keys(w) = job[t].held /\ About(w) = job[t].about /\ job[t].moved = {}
           /\ job[t].deletes <=> w.do \in {"delete_entity", "delete_relation"}
<1>1. w \in Work(t) /\ WriteOK(t, w) /\ StoresOK
  BY AtHand
<1>2. Alone(t, w)
  BY DEF Alone
<1>3. JobOK(t) /\ IsPlan(job[t].plan)
  BY DEF EditIInv, JobOK, IsJob
<1>4. Work(t) = {w}
  <2> DEFINE A == {v \in Work(t) : Alone(t, v)}
  <2>1. w \in A /\ OnlyLast(job[t].plan, A)
    BY <1>1, <1>2, <1>3 DEF JobOK, Placed
  <2> HIDE DEF A
  <2>2. Todo(job[t].plan) = {w}
    BY <1>3, <2>1, PlanOfNone, WasLast
  <2> QED BY <2>2 DEF Work
<1>5. RequestOK(t, w)
  BY <1>1 DEF WriteOK
<1> QED BY <1>1, <1>2, <1>4, <1>5 DEF RequestOK

\* What the plan of a request has to see to.
LEMMA Begins ==
    ASSUME EditIInv, NEW t \in Tasks, job[t].plan # <<>>, NEW w \in Head(job[t].plan),
           w.do \in RequestKinds,
           NEW more, IsPlan(more), Goes(t, w, more), job'[t].moved = job[t].moved,
           \A v \in Todo(more) : WriteOK(t, v),
           OnlyLast(more, {v \in Todo(more) : Alone(t, v)}),
           InOrder(t)',
           graph' = graph, vec' = vec, track' = track, StoresOK', torn \subseteq torn',
           \A x \in Elements : Holds(t, x) /\ ~ Excused(x, torn') /\ ~ Orphan(x) =>
               /\ \A v \in Todo(more) : Fills(t, v, x) =>
                      /\ x \in graph \/ \E u \in Todo(more) : Makes(u, x)
                      /\ \A u \in Todo(more) : ~ Drops(u, x)
               /\ \A v \in Todo(more) : Drops(v, x) =>
                      /\ x \in vec => \E u \in Todo(more) : Unembeds(t, u, x)
                      /\ track[x] # {} => \E u \in Todo(more) : Untracks(t, u, x)
    PROVE  EditIInv'
<1>1. Work(t) = {w} /\ Alone(t, w)
  BY Asked
<1>2. /\ IsJob(job'[t]) /\ Placed(t)' /\ (\A v \in Work(t)' : WriteOK(t, v)')
      /\ Work(t)' = Todo(more)
  BY <1>1, GoesAnew
<1>3. JobOK(t)'
  <2>1. MovedOK(t)
    BY DEF EditIInv, JobOK
  <2>2. MovedOK(t)'
    BY <2>1, SameOwn DEF MovedOK
  <2> QED BY <1>2, <2>2 DEF JobOK
<1>4. \A x \in Elements : Same(x)
  BY DEF Same
<1>5. ASSUME NEW x \in Elements, Holds(t, x), Ok(t, x), ~ Excused(x, torn') PROVE Ok(t, x)'
  <2>1. ~ Orphan(x)
    BY <1>1, <1>5, NothingYet
  <2>2. ~ Orphan(x)'
    BY <2>1 DEF Orphan
  <2>3. \A v : (Fills(t, v, x)' <=> Fills(t, v, x))
    BY DEF Fills
  <2>4. \A v : Withdraws(t, v, x)' <=> Withdraws(t, v, x)
    BY DEF Withdraws
  <2>5. \A v : (Unembeds(t, v, x)' <=> Unembeds(t, v, x)) /\ (Untracks(t, v, x)' <=> Untracks(t, v, x))
    BY <2>4 DEF Unembeds, Untracks
  <2>6. /\ Made(t, x)' <=> x \in graph \/ \E v \in Todo(more) : Makes(v, x)
        /\ Lost(t, x)' <=> \E v \in Todo(more) : Drops(v, x)
        /\ Filled(t, x)' <=> \E v \in Todo(more) : Fills(t, v, x)
        /\ Unembedded(t, x)' <=> \E v \in Todo(more) : Unembeds(t, v, x)
        /\ Untracked(t, x)' <=> \E v \in Todo(more) : Untracks(t, v, x)
    BY <1>2, <2>3, <2>5 DEF Made, Lost, Filled, Unembedded, Untracked
  <2>7. Filled(t, x)' => Stays(t, x)'
    BY <1>5, <2>1, <2>6 DEF Stays
  <2>8. Lost(t, x)' /\ ~ Filled(t, x)' => Clears(t, x)'
    BY <1>5, <2>1, <2>6 DEF Clears
  <2>9. ~ Lost(t, x)' /\ x \in graph => Stays(t, x)'
    BY <2>6 DEF Stays
  <2>10. ~ Filled(t, x)' /\ x \notin graph => Clears(t, x)'
    BY <2>1 DEF Clears, Orphan
  <2> QED BY <2>2, <2>7, <2>8, <2>9, <2>10 DEF Ok
<1> QED BY <1>3, <1>4, <1>5, Continues

\* The same, of a plan that moves nothing.
LEMMA Unmoved ==
    ASSUME NEW t \in Tasks, NEW more, Work(t)' = Todo(more),
           \A v \in Todo(more) : v.do \notin {"relink", "move"}
    PROVE  InOrder(t)'
BY DEF InOrder

-----------------------------------------------------------------------------
(* Operations end, and are cut short.                                       *)

LEMMA IdleIs ==
    /\ Idle.held = {} /\ Idle.about = {} /\ Idle.plan = <<>> /\ Idle.moved = {}
    /\ Idle.deletes = FALSE
    /\ Idle = [held |-> Idle.held, about |-> Idle.about, plan |-> Idle.plan, moved |-> Idle.moved,
               deletes |-> Idle.deletes, dirty |-> Idle.dirty, owed |-> Idle.owed]
BY DEF Idle

LEMMA IdleOK ==
    ASSUME NEW t \in Tasks, job[t] = Idle PROVE JobOK(t) /\ Work(t) = {}
<1>1. Work(t) = {} /\ IsPlan(job[t].plan)
  BY IdleIs, PlanOfNone DEF Work
<1>2. IsJob(job[t])
  <2> HIDE DEF Idle
  <2> QED BY <1>1, IdleIs DEF IsJob
<1>3. Placed(t) /\ InOrder(t) /\ MovedOK(t)
  BY <1>1, IdleIs DEF Placed, OnlyLast, InOrder, MovedOK
<1> QED BY <1>1, <1>2, <1>3 DEF JobOK

\* An operation may end anywhere if what it leaves is in order or excused.
LEMMA Abandons ==
    ASSUME EditIInv, NEW t \in Tasks, Becomes(t, Idle), UNCHANGED stores,
           torn \subseteq torn', torn' \subseteq Elements, halved' \subseteq Elements,
           \A x \in Elements : Holds(t, x) /\ Ok(t, x) /\ ~ Excused(x, torn') => ~ Orphan(x)
    PROVE  EditIInv'
<1>1. job' = [u \in Tasks |-> IF u = t THEN Idle ELSE job[u]]
  <2>1. job = [u \in Tasks |-> job[u]]
    BY DEF EditIInv
  <2> HIDE DEF Idle
  <2> QED BY <2>1 DEF Becomes
<1>2. job'[t] = Idle /\ OthersWait(t) /\ job' = [u \in Tasks |-> job'[u]]
  <2> HIDE DEF Idle
  <2> QED BY <1>1 DEF OthersWait
<1>3. StoresOK'
  BY DEF EditIInv, StoresOK, stores
<1>4. \A x \in Elements : Same(x)
  BY DEF Same, stores
<1>5. job'[t].held = {}
  BY <1>2, IdleIs
<1>6. Apart'
  BY <1>2, <1>5 DEF EditIInv, Apart, OthersWait
<1>7. JobOK(t)'
  BY <1>2, IdleOK, IdleIs, PlanOfNone DEF JobOK, IsJob, Work, Placed, OnlyLast, InOrder, MovedOK
<1>8. \A u \in Tasks \ {t} : JobOK(u)'
  BY <1>2, OthersOK DEF stores
<1>9. Kept'
  <2> SUFFICES ASSUME NEW x \in Elements, ~ Excused(x, torn')
               PROVE  /\ Orphan(x)' => \E u \in Tasks : Holds(u, x)' /\ Ok(u, x)'
                      /\ ~ Orphan(x)' => \A u \in Tasks : Holds(u, x)' => Ok(u, x)'
    BY DEF Kept, Excused
  <2>1. ~ Excused(x, torn)
    BY DEF Excused
  <2>2. /\ Orphan(x) => \E u \in Tasks : Holds(u, x) /\ Ok(u, x)
        /\ ~ Orphan(x) => \A u \in Tasks : Holds(u, x) => Ok(u, x)
    BY <2>1 DEF EditIInv, Kept
  <2>3. \A u \in Tasks \ {t} : (Holds(u, x)' <=> Holds(u, x)) /\ (Ok(u, x)' <=> Ok(u, x))
    BY <1>2, <1>4, OkSame DEF OthersWait
  <2>4. ~ Holds(t, x)'
    BY <1>5 DEF Holds
  <2>5. Orphan(x)' <=> Orphan(x)
    BY <1>4 DEF Same, Orphan
  <2>6. Holds(t, x) /\ Ok(t, x) => ~ Orphan(x)
    OBVIOUS
  <2> QED BY <2>2, <2>3, <2>4, <2>5, <2>6
<1> QED BY <1>2, <1>3, <1>6, <1>7, <1>8, <1>9 DEF EditIInv

LEMMA RefuseKeeps ==
    ASSUME EditIInv, NEW t \in Tasks, job[t].plan # <<>>, NEW w \in Head(job[t].plan),
           w.do \in RequestKinds, Refuse(t)
    PROVE  EditIInv'
<1>1. Work(t) = {w}
  BY Asked
<1>2. Becomes(t, Idle) /\ UNCHANGED stores /\ torn' = torn /\ halved' = halved
  BY DEF Refuse, ghost
<1>3. torn \subseteq Elements /\ halved \subseteq Elements
  BY DEF EditIInv, StoresOK
<1>4. \A x \in Elements : Ok(t, x) => ~ Orphan(x)
  BY <1>1, NothingYet
<1> HIDE DEF Idle
<1> QED BY <1>2, <1>3, <1>4, Abandons

LEMMA FinishKeeps ==
    ASSUME EditIInv, NEW t \in Tasks, Finish(t)
    PROVE  EditIInv'
<1>1. Work(t) = {}
  BY PlanOfNone DEF Finish, Work
<1>2. Becomes(t, Idle) /\ UNCHANGED stores /\ torn' = torn /\ halved' = halved
  BY DEF Finish, Refuse, ghost
<1>3. torn \subseteq Elements /\ halved \subseteq Elements
  BY DEF EditIInv, StoresOK
<1>4. \A x \in Elements : Ok(t, x) => ~ Orphan(x)
  BY <1>1 DEF Ok, Stays, Clears, Made, Unembedded, Untracked, Orphan
<1> HIDE DEF Idle
<1> QED BY <1>2, <1>3, <1>4, Abandons

\* All that a plan puts in or takes away is the operation's own.
LEMMA Mine ==
    ASSUME EditIInv, NEW t \in Tasks, NEW w \in Work(t), NEW x \in Elements,
           Makes(w, x) \/ Unembeds(t, w, x) \/ Untracks(t, w, x)
    PROVE  Own(t, x)
<1>1. WriteOK(t, w) /\ MovedOK(t) /\ InOrder(t)
  BY DEF EditIInv, JobOK
<1>2. CASE w.do \in {"put", "end"}
  BY <1>1, <1>2 DEF WriteOK, Makes, Unembeds, Untracks, Withdraws
<1>3. CASE w.do \in {"drop", "unembed", "untrack"}
  BY <1>1, <1>3 DEF WriteOK, Makes, Unembeds, Untracks, Withdraws
<1>4. CASE w.do = "regroup"
  <2>1. TiesOK(t, w.ties)
    BY <1>1, <1>4 DEF WriteOK
  <2>2. \E m \in w.ties : x = m[1] \/ x = m[2]
    BY <1>4 DEF Makes, Unembeds, Untracks, Withdraws
  <2>3. x \in SUBSET Entities => x \in Pairs
    BY Shapes DEF Elements
  <2> QED BY <2>1, <2>2, <2>3 DEF TiesOK
<1>5. CASE w.do = "settle"
  <2>1. Own(t, w.on)
    BY <1>1, <1>5 DEF WriteOK
  <2>2. x = w.on \/ \E m \in job[t].moved : x = m[1]
    BY <1>5 DEF Makes, Unembeds, Untracks, Withdraws
  <2> QED BY <1>1, <2>1, <2>2 DEF MovedOK
<1>6. CASE w.do = "retrack"
  BY <1>1, <1>6 DEF WriteOK, Makes, Unembeds, Untracks, Withdraws
<1>7. CASE w.do \in {"relink", "move"}
  <2>1. PICK s \in Work(t) : Renames(t, s)
    BY <1>1, <1>7 DEF InOrder
  <2>2. s.on \in Entities /\ Own(t, s.on)
    BY <2>1, RenameOf
  <2>3. w = RelinkIt(s) \/ w \in MovesOf(s)
    <3>1. /\ \A v, M : Work(t) = Todo(Beginning(v, s)) => Work(t) = {v, RelinkIt(s)} \cup Todo(Rest(s))
          /\ \A M : Work(t) = Todo(After(M, s)) => Work(t) = M \cup Todo(Rest(s))
      BY AfterTodo
    <3>2. Todo(Rest(s)) = {DropIt(s.on, <<>>), UnembedThem({s.on}), s}
      BY AfterTodo
    <3>3. DropIt(s.on, <<>>).do = "drop" /\ UnembedThem({s.on}).do = "unembed" /\ s.do = "settle"
      BY <2>1, RenameOf DEF DropIt, UnembedThem
    <3>4. w \notin Todo(Rest(s))
      BY <1>7, <3>2, <3>3
    <3>5. CASE \E v \in Work(t) : v.do = "put" /\ v.on = s.to /\ job[t].plan = Beginning(v, s)
      BY <1>7, <3>1, <3>4, <3>5 DEF Work
    <3>6. CASE job[t].plan = After({RelinkIt(s)}, s)
      BY <3>1, <3>4, <3>6 DEF Work
    <3>7. CASE \E M \in SUBSET MovesOf(s) : M # {} /\ job[t].plan = After(M, s)
      BY <3>1, <3>4, <3>7 DEF Work
    <3> QED BY <2>1, <3>5, <3>6, <3>7 DEF Renames
  <2>4. CASE w = RelinkIt(s)
    <3>1. w.do = "relink" /\ w.on = s.on
      BY <2>4 DEF RelinkIt
    <3>2. x \in PairsOf(s.on)
      BY <3>1 DEF Makes, Unembeds, Untracks, Withdraws
    <3> QED BY <2>2, <3>2, OwnGone DEF Gone
  <2>5. CASE w \in MovesOf(s)
    <3>1. w.do = "move" /\ Own(t, w.on)
      BY <2>1, <2>5, MoveOf
    <3> QED BY <3>1 DEF Makes, Unembeds, Untracks, Withdraws
  <2> QED BY <2>3, <2>4, <2>5
<1> QED BY <1>2, <1>3, <1>4, <1>5, <1>6, <1>7 DEF Makes, Unembeds, Untracks, Withdraws

\* A failure leaves what it excuses, or what a deletion has left as it should be.
LEMMA FailKeeps ==
    ASSUME EditIInv, NEW t \in Tasks, Fail(t)
    PROVE  EditIInv'
<1>1. Becomes(t, Idle) /\ UNCHANGED stores
  BY DEF Fail
<1>2. torn \subseteq Elements /\ halved \subseteq Elements /\ job[t].about \subseteq Elements
  BY DEF EditIInv, StoresOK, JobOK, IsJob
<1>3. torn \subseteq torn' /\ torn' \subseteq Elements /\ halved' \subseteq Elements
  BY <1>2 DEF Fail
<1>4. ASSUME NEW x \in Elements, Ok(t, x), ~ Excused(x, torn') PROVE ~ Orphan(x)
  <2>1. CASE job[t].deletes
    BY <1>4, <2>1 DEF Ok
  <2>2. CASE ~ job[t].deletes
    <3>1. job[t].about \subseteq torn'
      BY <2>2 DEF Fail
    <3>2. ~ Own(t, x)
      BY <1>4, <2>2, <3>1 DEF Own, Excused
    <3>3. \A w \in Work(t) : ~ Makes(w, x) /\ ~ Unembeds(t, w, x) /\ ~ Untracks(t, w, x)
      BY <3>2, Mine
    <3> QED BY <1>4, <3>3 DEF Ok, Stays, Clears, Made, Unembedded, Untracked, Orphan
  <2> QED BY <2>1, <2>2
<1> HIDE DEF Idle
<1> QED BY <1>1, <1>3, <1>4, Abandons

-----------------------------------------------------------------------------
(* Deletions and creations.                                                 *)

\* What an operation has locked, and is about, is its own.
LEMMA OwnAsked ==
    ASSUME NEW t \in Tasks, NEW x \in Elements, x \in job[t].about, Ents(x) \subseteq job[t].held
    PROVE  Own(t, x)
<1>1. Ents(x) # {}
  BY Shapes
<1> QED BY <1>1 DEF Own, Holds, Excused

LEMMA OwnToDelete ==
    ASSUME NEW t \in Tasks, NEW y \in Elements, Ents(y) \subseteq job[t].held, job[t].deletes
    PROVE  Own(t, y)
<1>1. Ents(y) # {}
  BY Shapes
<1> QED BY <1>1 DEF Own, Holds

LEMMA LastOfThree ==
    ASSUME NEW a, NEW b, NEW d, NEW A, a \cap A = {}, b \cap A = {}
    PROVE  OnlyLast(<<a, b, {d}>>, A)
<1> DEFINE c == {d}
           p == <<a, b, c>>
<1>1. DOMAIN p = 1..3 /\ Len(p) = 3 /\ p[1] = a /\ p[2] = b /\ p[3] = c
  OBVIOUS
<1>2. \A w \in c : c = {w}
  OBVIOUS
<1> HIDE DEF c, p
<1>3. OnlyLast(p, A)
  <2> SUFFICES ASSUME NEW i \in DOMAIN p, NEW w \in p[i] \cap A PROVE i = Len(p) /\ p[i] = {w}
    BY DEF OnlyLast
  <2>1. i = 1 \/ i = 2 \/ i = 3
    BY <1>1
  <2> QED BY <1>1, <1>2, <2>1
<1> QED BY <1>3 DEF p, c

LEMMA DeleteEntityKeeps ==
    ASSUME EditIInv, NEW t \in Tasks, job[t].plan # <<>>, NEW w \in Head(job[t].plan), DeleteEntity(t, w)
    PROVE  EditIInv'
<1>1. w.do = "delete_entity" /\ w.do \in RequestKinds
  BY DEF DeleteEntity, RequestKinds
<1>2. /\ w \in Requests /\ StoresOK /\ Keys(w) = job[t].held /\ job[t].deletes
  BY <1>1, Asked
<1>3. w.on \in Entities /\ Ents(w.on) = job[t].held
  BY <1>1, <1>2, RequestsAre
<1>4. CASE w.on \notin graph
  BY <1>1, <1>4, RefuseKeeps DEF DeleteEntity
<1>5. CASE w.on \in graph
  <2> DEFINE e     == {w.on}
             all   == PairsOf(w.on)
             edges == all \cap graph
             T == IF edges = {} THEN {} ELSE {UntrackThem(edges)}
             u == UntrackThem(e)
             v == UnembedThem(e)
             n == UnembedThem(all)
             d == DropIt(w.on, <<>>)
             p == <<{u}>> \o Stage(T)
             q == <<{v}, {n}, {d}>>
  <2>1. Plan(t, w, p \o q)
    BY <1>5 DEF DeleteEntity
  <2>2. Gone(w.on) = e \cup all
    BY <1>3 DEF Gone
  <2>3. Own(t, w.on)
    BY <1>2, <1>3, OwnToDelete, Shapes
  <2>4. (\A x \in e : Own(t, x)) /\ (\A x \in all : Own(t, x)) /\ (\A x \in edges : Own(t, x))
    BY <2>2, <2>3, OwnGone
  <2>5. u.do = "untrack" /\ u.on = e /\ WriteOK(t, u) /\ ~ Alone(t, u)
    <3> HIDE DEF e
    <3> QED BY <2>4, UntrackPlanned
  <2>6. v.do = "unembed" /\ v.on = e /\ WriteOK(t, v) /\ ~ Alone(t, v)
    <3> HIDE DEF e
    <3> QED BY <2>4, UnembedPlanned
  <2>7. n.do = "unembed" /\ n.on = all /\ WriteOK(t, n) /\ ~ Alone(t, n)
    <3> HIDE DEF all
    <3> QED BY <2>4, UnembedPlanned
  <2>8. d.do = "drop" /\ d.on = w.on /\ d.more = <<>> /\ WriteOK(t, d)
    <3>1. PICK none : none = <<>>
      OBVIOUS
    <3>2. none \in {<<>>, <<{UnembedThem({w.on})}>>}
      BY <3>1
    <3>3. /\ DropIt(w.on, none).do = "drop" /\ DropIt(w.on, none).on = w.on
          /\ DropIt(w.on, none).more = none
      BY DEF DropIt
    <3>4. WriteOK(t, DropIt(w.on, none))
      BY <2>3, <3>1, <3>2, <3>3, NotRequests DEF WriteOK
    <3> QED BY <3>1, <3>3, <3>4
  <2>9. /\ \A x \in T : x.do = "untrack" /\ x.on = edges /\ WriteOK(t, x) /\ ~ Alone(t, x)
        /\ edges # {} => \E x \in T : x.do = "untrack" /\ x.on = edges
    <3>1. PICK l : l = UntrackThem(edges)
      OBVIOUS
    <3>2. l.do = "untrack" /\ l.on = edges /\ WriteOK(t, l) /\ ~ Alone(t, l)
      <4> HIDE DEF edges
      <4> QED BY <2>4, <3>1, UntrackPlanned
    <3>3. T = IF edges = {} THEN {} ELSE {l}
      BY <3>1
    <3> HIDE DEF T, edges
    <3> QED BY <3>2, <3>3
  <2>10. IsPlan(p) /\ Todo(p) = {u} \cup T
    <3> HIDE DEF T, u
    <3>1. IsPlan(Stage(T)) /\ Todo(Stage(T)) = T
      BY StagePlan
    <3> DEFINE U == {u}
    <3>2. IsPlan(<<U>>) /\ Todo(<<U>>) = U
      <4> HIDE DEF U
      <4> QED BY PlanOfOne
    <3>3. IsPlan(<<U>> \o Stage(T)) /\ Todo(<<U>> \o Stage(T)) = U \cup T
      <4> HIDE DEF U
      <4> QED BY <3>1, <3>2, Joined
    <3> QED BY <3>3
  <2>11. IsPlan(q) /\ Todo(q) = {v, n, d}
    <3> HIDE DEF v, n, d
    <3> DEFINE V == {v}
               N == {n}
               D == {d}
    <3>1. IsPlan(<<V, N, D>>) /\ Todo(<<V, N, D>>) = V \cup N \cup D
      <4> HIDE DEF V, N, D
      <4> QED BY PlanOfThree
    <3> QED BY <3>1
  <2> HIDE DEF T, u, v, n, d, e, all, edges
  <2>12. IsPlan(p \o q) /\ Todo(p \o q) = {u, v, n, d} \cup T
    <3>1. IsPlan(p \o q) /\ Todo(p \o q) = Todo(p) \cup Todo(q)
      <4> HIDE DEF p, q
      <4> QED BY <2>10, <2>11, Joined
    <3> HIDE DEF p, q
    <3> QED BY <2>10, <2>11, <3>1
  <2> DEFINE more == p \o q
             A == {x \in Todo(more) : Alone(t, x)}
  <2>13. \A x \in A : x = d
    <3> HIDE DEF p, q
    <3> QED BY <2>5, <2>6, <2>7, <2>9, <2>12
  <2>14. OnlyLast(p \o q, A)
    <3>1. OnlyLast(q, A)
      <4> DEFINE V == {v}
                 N == {n}
      <4>1. V \cap A = {} /\ N \cap A = {}
        <5> HIDE DEF p, q
        <5> QED BY <2>6, <2>7
      <4> HIDE DEF V, N, A
      <4>2. OnlyLast(<<V, N, {d}>>, A)
        BY <4>1, LastOfThree
      <4> QED BY <4>2 DEF V, N
    <3>2. Todo(p) \cap A = {}
      <4> HIDE DEF p, q
      <4> QED BY <2>5, <2>9, <2>10
    <3> HIDE DEF p, q, A
    <3> QED BY <2>10, <2>11, <3>1, <3>2, JoinedLast
  <2> HIDE DEF p, q
  <2>15. /\ Goes(t, w, more) /\ job'[t].moved = job[t].moved
         /\ torn' = torn /\ StoresOK' /\ graph' = graph /\ vec' = vec /\ track' = track
    <3> HIDE DEF more
    <3>1. Plan(t, w, more)
      BY <2>1 DEF more
    <3> QED BY <3>1, Plan_Goes
  <2>16. \A x \in Todo(more) : WriteOK(t, x) /\ x.do \in {"untrack", "unembed", "drop"}
    BY <2>5, <2>6, <2>7, <2>8, <2>9, <2>12
  <2>17. Work(t)' = Todo(more)
    <3> HIDE DEF more, A
    <3> QED BY <1>1, <2>12, <2>14, <2>15, <2>16, Asked, GoesAnew DEF more, A
  <2>18. ASSUME NEW x \in Elements, ~ Orphan(x)
         PROVE  /\ \A y \in Todo(more) : ~ Fills(t, y, x)
                /\ \A y \in Todo(more) : Drops(y, x) =>
                       /\ \E z \in Todo(more) : Unembeds(t, z, x)
                       /\ track[x] # {} => \E z \in Todo(more) : Untracks(t, z, x)
    <3>1. \A y \in Todo(more) : ~ Fills(t, y, x)
      BY <2>16 DEF Fills
    <3>2. ASSUME NEW y \in Todo(more), Drops(y, x) PROVE x \in e \cup all
      <4>1. y = d
        BY <2>5, <2>6, <2>7, <2>9, <2>12, <3>2 DEF Drops
      <4> QED BY <2>2, <2>8, <3>2, <4>1 DEF Drops
    <3>3. x \in e => Unembeds(t, v, x) /\ Untracks(t, u, x)
      BY <2>5, <2>6 DEF Unembeds, Untracks
    <3>4. x \in all => Unembeds(t, n, x)
      BY <2>7 DEF Unembeds
    <3>5. x \in all /\ track[x] # {} => \E z \in T : Untracks(t, z, x)
      <4>1. track[x] # {} => x \in graph
        BY <2>18 DEF Orphan
      <4>2. x \in edges => \E z \in T : z.do = "untrack" /\ x \in z.on
        BY <2>9
      <4> QED BY <4>1, <4>2 DEF edges, Untracks
    <3> QED BY <2>12, <3>1, <3>2, <3>3, <3>4, <3>5
  <2>19. InOrder(t)'
    BY <2>16, <2>17, Unmoved
  <2>20. OnlyLast(more, {x \in Todo(more) : Alone(t, x)}) /\ IsPlan(more)
    BY <2>12, <2>14
  <2> HIDE DEF more
  <2> QED BY <1>1, <2>15, <2>16, <2>18, <2>19, <2>20, Begins
<1> QED BY <1>4, <1>5

\* A plan that drops and moves nothing, and fills what is there or what it makes.
LEMMA PlansMore ==
    ASSUME EditIInv, NEW t \in Tasks, job[t].plan # <<>>, NEW w \in Head(job[t].plan),
           w.do \in RequestKinds, NEW more, IsPlan(more), Plan(t, w, more),
           OnlyLast(more, {v \in Todo(more) : Alone(t, v)}),
           \A v \in Todo(more) : /\ WriteOK(t, v) /\ v.do \notin {"relink", "move", "drop"}
                                 /\ \A x \in Elements : Fills(t, v, x) =>
                                        x \in graph \/ \E u \in Todo(more) : Makes(u, x)
    PROVE  EditIInv'
<1>1. /\ Goes(t, w, more) /\ job'[t].moved = job[t].moved
      /\ torn' = torn /\ StoresOK' /\ graph' = graph /\ vec' = vec /\ track' = track
  BY Plan_Goes
<1>2. Work(t)' = Todo(more)
  BY <1>1, Asked, GoesAnew
<1>3. InOrder(t)'
  BY <1>2, Unmoved
<1>4. \A x, v : v \in Todo(more) => ~ Drops(v, x)
  BY DEF Drops
<1>5. torn \subseteq torn'
  BY <1>1
<1>6. \A x \in Elements : Holds(t, x) /\ ~ Excused(x, torn') /\ ~ Orphan(x) =>
               /\ \A v \in Todo(more) : Fills(t, v, x) =>
                      /\ x \in graph \/ \E u \in Todo(more) : Makes(u, x)
                      /\ \A u \in Todo(more) : ~ Drops(u, x)
               /\ \A v \in Todo(more) : Drops(v, x) =>
                      /\ x \in vec => \E u \in Todo(more) : Unembeds(t, u, x)
                      /\ track[x] # {} => \E u \in Todo(more) : Untracks(t, u, x)
  BY <1>4
<1> QED BY <1>1, <1>3, <1>5, <1>6, Begins

LEMMA PlansOwn ==
    ASSUME EditIInv, NEW t \in Tasks, job[t].plan # <<>>, NEW w \in Head(job[t].plan),
           w.do \in RequestKinds, NEW more, IsPlan(more), Plan(t, w, more),
           \A v \in Todo(more) : /\ WriteOK(t, v) /\ ~ Alone(t, v)
                                 /\ v.do \notin {"relink", "move", "drop"}
                                 /\ \A x \in Elements : Fills(t, v, x) =>
                                        x \in graph \/ \E u \in Todo(more) : Makes(u, x)
    PROVE  EditIInv'
<1> DEFINE A == {v \in Todo(more) : Alone(t, v)}
<1>1. Todo(more) \cap A = {}
  OBVIOUS
<1>2. OnlyLast(more, A)
  <2> HIDE DEF A
  <2> QED BY <1>1, NoneLast
<1> QED BY <1>2, PlansMore

LEMMA DeleteRelationKeeps ==
    ASSUME EditIInv, NEW t \in Tasks, job[t].plan # <<>>, NEW w \in Head(job[t].plan), DeleteRelation(t, w)
    PROVE  EditIInv'
<1>1. w.do = "delete_relation" /\ w.do \in RequestKinds
  BY DEF DeleteRelation, RequestKinds
<1>2. /\ w \in Requests /\ StoresOK /\ Keys(w) = job[t].held /\ job[t].deletes
  BY <1>1, Asked
<1>3. w.on \in Pairs /\ Ents(w.on) = job[t].held
  BY <1>1, <1>2, RequestsAre
<1>4. CASE w.on \notin graph
  BY <1>1, <1>4, RefuseKeeps DEF DeleteRelation
<1>5. CASE w.on \in graph
  <2> DEFINE e == {w.on}
             u == UntrackThem(e)
             v == UnembedThem(e)
             d == DropIt(w.on, <<>>)
             more == <<{u}, {v}, {d}>>
             A == {x \in Todo(more) : Alone(t, x)}
  <2>1. Plan(t, w, more)
    BY <1>5 DEF DeleteRelation
  <2>2. Gone(w.on) = e
    BY <1>3, Shapes DEF Gone
  <2>3. Own(t, w.on)
    BY <1>2, <1>3, OwnToDelete, Shapes
  <2>4. \A x \in e : Own(t, x)
    BY <2>3
  <2>5. u.do = "untrack" /\ u.on = e /\ WriteOK(t, u) /\ ~ Alone(t, u)
    <3> HIDE DEF e
    <3> QED BY <2>4, UntrackPlanned
  <2>6. v.do = "unembed" /\ v.on = e /\ WriteOK(t, v) /\ ~ Alone(t, v)
    <3> HIDE DEF e
    <3> QED BY <2>4, UnembedPlanned
  <2>7. d.do = "drop" /\ d.on = w.on /\ d.more = <<>>
    BY DEF DropIt
  <2>8. WriteOK(t, d)
    BY <2>3, <2>7, NotRequests DEF WriteOK
  <2> HIDE DEF u, v, d, e
  <2>9. IsPlan(more) /\ Todo(more) = {u, v, d}
    <3> DEFINE U == {u}
               V == {v}
               D == {d}
    <3>1. IsPlan(<<U, V, D>>) /\ Todo(<<U, V, D>>) = U \cup V \cup D
      <4> HIDE DEF U, V, D
      <4> QED BY PlanOfThree
    <3> QED BY <3>1
  <2>10. OnlyLast(more, A)
    <3> DEFINE U == {u}
               V == {v}
    <3>1. U \cap A = {} /\ V \cap A = {}
      BY <2>5, <2>6
    <3> HIDE DEF U, V, A
    <3>2. OnlyLast(<<U, V, {d}>>, A)
      BY <3>1, LastOfThree
    <3> QED BY <3>2 DEF U, V
  <2> HIDE DEF more
  <2>11. /\ Goes(t, w, more) /\ job'[t].moved = job[t].moved
         /\ torn' = torn /\ StoresOK' /\ graph' = graph /\ vec' = vec /\ track' = track
    BY <2>1, Plan_Goes
  <2>12. \A x \in Todo(more) : WriteOK(t, x) /\ x.do \in {"untrack", "unembed", "drop"}
    BY <2>5, <2>6, <2>7, <2>8, <2>9
  <2>13. Work(t)' = Todo(more)
    BY <1>1, <2>9, <2>10, <2>11, <2>12, Asked, GoesAnew
  <2>14. InOrder(t)'
    BY <2>12, <2>13, Unmoved
  <2>15. ASSUME NEW x \in Elements
         PROVE  /\ \A y \in Todo(more) : ~ Fills(t, y, x)
                /\ \A y \in Todo(more) : Drops(y, x) =>
                       /\ \E z \in Todo(more) : Unembeds(t, z, x)
                       /\ \E z \in Todo(more) : Untracks(t, z, x)
    <3>1. \A y \in Todo(more) : ~ Fills(t, y, x)
      BY <2>12 DEF Fills
    <3>2. ASSUME NEW y \in Todo(more), Drops(y, x) PROVE x \in e
      <4>1. y = d
        BY <2>5, <2>6, <2>9, <3>2 DEF Drops
      <4> QED BY <2>2, <2>7, <3>2, <4>1 DEF Drops
    <3>3. x \in e => Unembeds(t, v, x) /\ Untracks(t, u, x)
      BY <2>5, <2>6 DEF Unembeds, Untracks
    <3> QED BY <2>9, <3>1, <3>2, <3>3
  <2> QED BY <1>1, <2>9, <2>10, <2>11, <2>12, <2>14, <2>15, Begins
<1> QED BY <1>4, <1>5

\* An element is put, embedded and tracked.
LEMMA CreateKeeps ==
    ASSUME EditIInv, NEW t \in Tasks, job[t].plan # <<>>, NEW w \in Head(job[t].plan),
           w.do \in {"create_entity", "create_relation"}, w.do \in RequestKinds,
           w.on \in Elements, Own(t, w.on),
           Plan(t, w, <<{PutIt(w.on, {NewChunk})}, {EmbedIt(w.on)}, {TrackIt(w.on, {NewChunk})}>>)
    PROVE  EditIInv'
<1>1. ~ job[t].deletes
  BY Asked
<1>2. PICK p, e, l : /\ p = PutIt(w.on, {NewChunk}) /\ e = EmbedIt(w.on)
                     /\ l = TrackIt(w.on, {NewChunk})
  OBVIOUS
<1>3. PICK c : c = {NewChunk}
  OBVIOUS
<1>4. c \subseteq Chunks
  BY <1>3 DEF Chunks
<1>5. /\ p.do = "put" /\ p.on = w.on /\ WriteOK(t, p) /\ ~ Alone(t, p)
      /\ e.do = "embed" /\ e.on = {w.on} /\ WriteOK(t, e) /\ ~ Alone(t, e)
      /\ l.do = "track" /\ DOMAIN l.lists = {w.on} /\ WriteOK(t, l) /\ ~ Alone(t, l)
  <2>1. p.do = "put" /\ p.on = w.on /\ WriteOK(t, p) /\ ~ Alone(t, p)
    BY <1>1, <1>2, <1>3, <1>4, PutPlanned
  <2>2. l.do = "track" /\ DOMAIN l.lists = {w.on} /\ WriteOK(t, l) /\ ~ Alone(t, l)
    BY <1>1, <1>2, <1>3, <1>4, TrackOnePlanned
  <2>3. e.do = "embed" /\ e.on = {w.on} /\ WriteOK(t, e) /\ ~ Alone(t, e)
    BY <1>1, <1>2, EmbedPlanned
  <2> QED BY <2>1, <2>2, <2>3
<1> DEFINE P == {p}
           E == {e}
           L == {l}
           more == <<P, E, L>>
<1>6. Plan(t, w, more)
  BY <1>2
<1>7. IsPlan(more) /\ Todo(more) = {p, e, l}
  <2>1. IsPlan(more) /\ Todo(more) = P \cup E \cup L
    <3> HIDE DEF P, E, L
    <3> QED BY PlanOfThree
  <2> QED BY <2>1
<1> HIDE DEF more
<1>8. \A x : Makes(p, w.on) /\ \A v \in {p, e, l} : Fills(t, v, x) => x = w.on
  BY <1>5 DEF Makes, Fills
<1>9. \A v \in Todo(more) : /\ WriteOK(t, v) /\ ~ Alone(t, v)
                            /\ v.do \notin {"relink", "move", "drop"}
                            /\ \A x \in Elements : Fills(t, v, x) =>
                                   x \in graph \/ \E u \in Todo(more) : Makes(u, x)
  BY <1>5, <1>7, <1>8
<1> QED BY <1>6, <1>7, <1>9, PlansOwn

LEMMA CreateEntityKeeps ==
    ASSUME EditIInv, NEW t \in Tasks, job[t].plan # <<>>, NEW w \in Head(job[t].plan), CreateEntity(t, w)
    PROVE  EditIInv'
<1>1. w.do = "create_entity" /\ w.do \in RequestKinds
  BY DEF CreateEntity, RequestKinds
<1>2. w \in Requests /\ Keys(w) = job[t].held /\ About(w) = job[t].about
  BY <1>1, Asked
<1>3. w.on \in Elements /\ Own(t, w.on)
  BY <1>1, <1>2, RequestsAre, OwnAsked, Shapes
<1>4. CASE w.on \in graph
  BY <1>1, <1>4, RefuseKeeps DEF CreateEntity
<1>5. CASE w.on \notin graph
  BY <1>1, <1>3, <1>5, CreateKeeps DEF CreateEntity
<1> QED BY <1>4, <1>5

LEMMA CreateRelationKeeps ==
    ASSUME EditIInv, NEW t \in Tasks, job[t].plan # <<>>, NEW w \in Head(job[t].plan), CreateRelation(t, w)
    PROVE  EditIInv'
<1>1. w.do = "create_relation" /\ w.do \in RequestKinds
  BY DEF CreateRelation, RequestKinds
<1>2. w \in Requests /\ Keys(w) = job[t].held /\ About(w) = job[t].about
  BY <1>1, Asked
<1>3. w.on \in Elements /\ Own(t, w.on)
  BY <1>1, <1>2, RequestsAre, OwnAsked, Shapes
<1> DEFINE Refused == ~ (w.on \subseteq graph) \/ w.on \in graph
<1>4. CASE Refused
  BY <1>1, <1>4, RefuseKeeps DEF CreateRelation
<1>5. CASE ~ Refused
  BY <1>1, <1>3, <1>5, CreateKeeps DEF CreateRelation
<1> QED BY <1>4, <1>5

-----------------------------------------------------------------------------
(* Edits in place, and the merge of a relation.                             *)

LEMMA EditPlan ==
    ASSUME EditIInv, NEW t \in Tasks, ~ job[t].deletes, NEW x \in Elements, Own(t, x),
           NEW now \in SUBSET Chunks
    PROVE  /\ IsPlan(EditInPlace(x, now))
           /\ \A v \in Todo(EditInPlace(x, now)) :
                  /\ WriteOK(t, v) /\ ~ Alone(t, v) /\ v.do \notin {"relink", "move", "drop"}
                  /\ v.do \in {"put", "embed", "track"}
                  /\ \A y : Fills(t, v, y) => y = x
<1>1. PICK p, e, l : p = PutIt(x, now) /\ e = EmbedIt(x) /\ l = TrackIt(x, Incremental(x, now))
  OBVIOUS
<1>2. Incremental(x, now) \subseteq Chunks
  BY ChunksOf DEF EditIInv
<1>3. p.do = "put" /\ p.on = x /\ WriteOK(t, p) /\ ~ Alone(t, p)
  BY <1>1, PutPlanned
<1>4. e.do = "embed" /\ e.on = {x} /\ WriteOK(t, e) /\ ~ Alone(t, e)
  BY <1>1, EmbedPlanned
<1>5. l.do = "track" /\ DOMAIN l.lists = {x} /\ WriteOK(t, l) /\ ~ Alone(t, l)
  <2>1. PICK c : c = Incremental(x, now)
    OBVIOUS
  <2> QED BY <1>1, <1>2, <2>1, TrackOnePlanned
<1> DEFINE P == {p}
           E == {e}
           T == TrackEdit(x, now)
           q == <<P, E>>
<1>6. T \subseteq {l}
  BY <1>1 DEF TrackEdit
<1>7. EditInPlace(x, now) = q \o Stage(T)
  BY <1>1 DEF EditInPlace
<1>8. IsPlan(q) /\ Todo(q) = {p, e}
  <2>1. IsPlan(q) /\ Todo(q) = P \cup E
    <3> HIDE DEF P, E
    <3> QED BY PlanOfTwo
  <2> QED BY <2>1
<1>9. IsPlan(q \o Stage(T)) /\ Todo(q \o Stage(T)) = Todo(q) \cup T
  <2> HIDE DEF q, T
  <2>1. IsPlan(Stage(T)) /\ Todo(Stage(T)) = T
    BY StagePlan
  <2> QED BY <1>8, <2>1, Joined
<1> HIDE DEF q, T
<1>10. \A v \in Todo(EditInPlace(x, now)) : v = p \/ v = e \/ v = l
  BY <1>6, <1>7, <1>8, <1>9
<1>11. \A y : \A v \in {p, e, l} : Fills(t, v, y) => y = x
  BY <1>3, <1>4, <1>5 DEF Fills
<1>12. \A v \in {p, e, l} : /\ WriteOK(t, v) /\ ~ Alone(t, v) /\ v.do \notin {"relink", "move", "drop"}
                            /\ v.do \in {"put", "embed", "track"}
  BY <1>3, <1>4, <1>5
<1>13. IsPlan(EditInPlace(x, now))
  BY <1>7, <1>9
<1> HIDE DEF EditInPlace
<1> QED BY <1>10, <1>11, <1>12, <1>13

LEMMA GivenChunks ==
    ASSUME StoresOK, NEW w, w.chunks \in {{}, {NewChunk}}, NEW x \in Elements
    PROVE  Given(w, x) \in SUBSET Chunks
BY ChunksOf DEF Given, Chunks

LEMMA EditRelationKeeps ==
    ASSUME EditIInv, NEW t \in Tasks, job[t].plan # <<>>, NEW w \in Head(job[t].plan), EditRelation(t, w)
    PROVE  EditIInv'
<1>1. w.do = "edit_relation" /\ w.do \in RequestKinds
  BY DEF EditRelation, RequestKinds
<1>2. /\ w \in Requests /\ Keys(w) = job[t].held /\ About(w) = job[t].about /\ StoresOK
      /\ ~ job[t].deletes
  BY <1>1, Asked
<1>3. w.on \in Elements /\ Own(t, w.on) /\ w.chunks \in {{}, {NewChunk}}
  BY <1>1, <1>2, RequestsAre, OwnAsked, Shapes
<1>4. CASE w.on \notin graph
  BY <1>1, <1>4, RefuseKeeps DEF EditRelation
<1>5. CASE w.on \in graph
  <2> DEFINE now == Given(w, w.on)
             q == EditInPlace(w.on, now)
             U == {UnembedThem({w.on})}
             more == <<U>> \o q
  <2>1. Plan(t, w, more)
    BY <1>5 DEF EditRelation
  <2>2. now \in SUBSET Chunks
    BY <1>2, <1>3, GivenChunks
  <2>3. /\ IsPlan(q)
        /\ \A v \in Todo(q) : /\ WriteOK(t, v) /\ ~ Alone(t, v) /\ v.do \notin {"relink", "move", "drop"}
                              /\ \A y : Fills(t, v, y) => y = w.on
    <3> HIDE DEF now
    <3> QED BY <1>2, <1>3, <2>2, EditPlan
  <2> HIDE DEF q
  <2>4. \A v \in U : v.do = "unembed" /\ WriteOK(t, v) /\ ~ Alone(t, v)
    <3> DEFINE S == {w.on}
    <3>1. \A x \in S : Own(t, x)
      BY <1>3
    <3>2. \A v \in U : v = UnembedThem(S)
      OBVIOUS
    <3> HIDE DEF S, U
    <3>3. UnembedThem(S).do = "unembed" /\ WriteOK(t, UnembedThem(S)) /\ ~ Alone(t, UnembedThem(S))
      BY <3>1, UnembedPlanned
    <3> QED BY <3>2, <3>3
  <2> HIDE DEF U
  <2>5. IsPlan(<<U>>) /\ Todo(<<U>>) = U
    BY PlanOfOne
  <2>6. IsPlan(<<U>> \o q) /\ Todo(<<U>> \o q) = U \cup Todo(q)
    BY <2>3, <2>5, Joined
  <2>7. \A v \in U : \A x : ~ Fills(t, v, x)
    BY <2>4 DEF Fills
  <2> HIDE DEF more
  <2>8. IsPlan(more) /\ Todo(more) = U \cup Todo(q)
    BY <2>6 DEF more
  <2>9. \A v \in Todo(more) : /\ WriteOK(t, v) /\ ~ Alone(t, v)
                              /\ v.do \notin {"relink", "move", "drop"}
                              /\ \A x \in Elements : Fills(t, v, x) =>
                                     x \in graph \/ \E u \in Todo(more) : Makes(u, x)
    BY <1>5, <2>3, <2>4, <2>7, <2>8
  <2> QED BY <1>1, <2>1, <2>8, <2>9, PlansOwn
<1> QED BY <1>4, <1>5

LEMMA EditEntityKeeps ==
    ASSUME EditIInv, NEW t \in Tasks, job[t].plan # <<>>, NEW w \in Head(job[t].plan), EditEntity(t, w)
    PROVE  EditIInv'
<1>1. w.do = "edit_entity" /\ w.do \in RequestKinds
  BY DEF EditEntity, RequestKinds
<1>2. /\ w \in Requests /\ Keys(w) = job[t].held /\ About(w) = job[t].about /\ StoresOK
      /\ ~ job[t].deletes
  BY <1>1, Asked
<1>3. w.on \in Elements /\ Own(t, w.on) /\ w.chunks \in {{}, {NewChunk}}
  BY <1>1, <1>2, RequestsAre, OwnAsked, Shapes
<1>4. CASE w.on \notin graph
  BY <1>1, <1>4, RefuseKeeps DEF EditEntity
<1>5. CASE w.on \in graph
  <2> DEFINE now == Given(w, w.on)
             more == EditInPlace(w.on, now)
  <2>1. Plan(t, w, more)
    BY <1>5 DEF EditEntity
  <2>2. now \in SUBSET Chunks
    BY <1>2, <1>3, GivenChunks
  <2>3. /\ IsPlan(more)
        /\ \A v \in Todo(more) : /\ WriteOK(t, v) /\ ~ Alone(t, v) /\ v.do \notin {"relink", "move", "drop"}
                                 /\ \A y : Fills(t, v, y) => y = w.on
    <3> HIDE DEF now
    <3> QED BY <1>2, <1>3, <2>2, EditPlan
  <2> HIDE DEF more
  <2> QED BY <1>1, <1>5, <2>1, <2>3, PlansOwn
<1> QED BY <1>4, <1>5

LEMMA EditByMergeKeeps ==
    ASSUME EditIInv, NEW t \in Tasks, job[t].plan # <<>>, NEW w \in Head(job[t].plan), EditByMerge(t, w)
    PROVE  EditIInv'
<1>1. w.do = "edit_entity" /\ w.do \in RequestKinds
  BY DEF EditByMerge, RequestKinds
<1>2. /\ w \in Requests /\ Keys(w) = job[t].held /\ About(w) = job[t].about /\ StoresOK
      /\ ~ job[t].deletes /\ job[t].moved = {}
  BY <1>1, Asked
<1>3. /\ w.on \in Elements /\ Own(t, w.on) /\ w.chunks \in {{}, {NewChunk}}
      /\ w.on \in Entities /\ w.to \in Entities
      /\ {w.on, w.to} = job[t].held /\ {w.on, w.to} = job[t].about
  BY <1>1, <1>2, RequestsAre, OwnAsked, Shapes
<1> DEFINE Refused == ~ w.merge \/ w.on \notin graph
<1>4. CASE Refused
  BY <1>1, <1>4, RefuseKeeps DEF EditByMerge
<1>5. CASE ~ Refused
  <2> DEFINE q == IF w.chunks = {} THEN <<>> ELSE EditInPlace(w.on, w.chunks)
             m == [do |-> "merge", from |-> {w.on}, to |-> w.to]
             M == {m}
             more == q \o <<M>>
             A == {v \in Todo(more) : Alone(t, v)}
  <2>1. Plan(t, w, more)
    BY <1>5 DEF EditByMerge
  <2>2. w.chunks \in SUBSET Chunks
    BY <1>3 DEF Chunks
  <2>3. /\ IsPlan(q)
        /\ \A v \in Todo(q) : /\ WriteOK(t, v) /\ ~ Alone(t, v) /\ v.do \notin {"relink", "move", "drop"}
                              /\ \A y : Fills(t, v, y) => y = w.on
    <3>1. CASE w.chunks = {}
      BY <3>1, PlanOfNone
    <3>2. CASE w.chunks # {}
      <4>1. q = EditInPlace(w.on, w.chunks)
        BY <3>2
      <4> HIDE DEF q
      <4> QED BY <1>2, <1>3, <2>2, <4>1, EditPlan
    <3> QED BY <3>1, <3>2
  <2> HIDE DEF q
  <2>4. m.do = "merge" /\ m.from = {w.on} /\ m.to = w.to /\ m.do \in RequestKinds
    BY DEF RequestKinds
  <2>5. m \in Requests
    <3>1. m \in [do : {"merge"}, from : (SUBSET Entities) \ {{}}, to : Entities]
      BY <1>3
    <3> QED BY <3>1 DEF Requests
  <2> HIDE DEF m
  <2>6. WriteOK(t, m)
    <3>1. Keys(m) = {w.on, w.to} /\ About(m) = {w.on, w.to}
      BY <2>4, <2>5, RequestsAre
    <3>2. RequestOK(t, m)
      BY <1>2, <1>3, <2>4, <2>5, <3>1 DEF RequestOK
    <3> QED BY <1>2, <2>4, <3>2 DEF WriteOK
  <2>7. \A x : ~ Fills(t, m, x)
    BY <2>4 DEF Fills
  <2>8. IsPlan(<<M>>) /\ Todo(<<M>>) = M
    <3> HIDE DEF M
    <3> QED BY PlanOfOne
  <2>9. IsPlan(more) /\ Todo(more) = Todo(q) \cup {m}
    <3> HIDE DEF M
    <3>1. IsPlan(q \o <<M>>) /\ Todo(q \o <<M>>) = Todo(q) \cup Todo(<<M>>)
      BY <2>3, <2>8, Joined
    <3> QED BY <2>8, <3>1 DEF M
  <2>10. OnlyLast(<<M>>, A)
    <3> HIDE DEF A, more
    <3> QED BY DEF OnlyLast
  <2>11. Todo(q) \cap A = {}
    <3> HIDE DEF more
    <3> QED BY <2>3
  <2>12. OnlyLast(q \o <<M>>, A)
    <3> HIDE DEF A, M, more
    <3> QED BY <2>3, <2>8, <2>10, <2>11, JoinedLast
  <2>13. OnlyLast(more, A)
    <3> HIDE DEF A, M
    <3> QED BY <2>12 DEF more
  <2> HIDE DEF more, M
  <2>14. \A v \in Todo(more) : /\ WriteOK(t, v) /\ v.do \notin {"relink", "move", "drop"}
                               /\ \A x \in Elements : Fills(t, v, x) => x = w.on
    BY <2>3, <2>4, <2>6, <2>7, <2>9
  <2> QED BY <1>1, <1>5, <2>1, <2>9, <2>13, <2>14, PlansMore
<1> QED BY <1>4, <1>5

LEMMA MergeEdgeKeeps ==
    ASSUME EditIInv, NEW t \in Tasks, job[t].plan # <<>>, NEW w \in Head(job[t].plan), MergeEdge(t, w)
    PROVE  EditIInv'
<1>1. w.do = "ingest" /\ w.do \in RequestKinds
  BY DEF MergeEdge, RequestKinds
<1>2. /\ w \in Requests /\ Keys(w) = job[t].held /\ About(w) = job[t].about /\ StoresOK
      /\ ~ job[t].deletes
  BY <1>1, Asked
<1>3. /\ w.on \in Pairs /\ w.on \in Elements /\ w.on \subseteq Entities
      /\ w.on = job[t].held /\ {w.on} \cup w.on = job[t].about
  BY <1>1, <1>2, RequestsAre, Shapes
<1>4. Own(t, w.on) /\ \A e \in w.on : Own(t, e)
  BY <1>3, Shapes, OwnAsked
<1> DEFINE new  == {NewChunk}
           kept == Limited(w.on, new)
           full == Sources(w.on) \cup new
           end(e) == [do |-> "end", on |-> e, full |-> full, chunks |-> kept]
           L == {TrackIt(w.on, full)}
           N == {end(e) : e \in w.on}
           P == {PutIt(w.on, kept)}
           U == {UnembedThem({w.on})}
           E == {EmbedIt(w.on)}
           more == <<L, N, P, U, E>>
<1>5. Plan(t, w, more)
  BY DEF MergeEdge
<1>6. kept \in SUBSET Chunks /\ full \in SUBSET Chunks
  <2>1. new \in SUBSET Chunks
    BY DEF Chunks
  <2> HIDE DEF new
  <2> QED BY <1>2, <1>3, <2>1, ChunksOf
<1>7. IsPlan(more) /\ Todo(more) = L \cup N \cup P \cup U \cup E
  <2> HIDE DEF L, N, P, U, E
  <2> QED BY PlanOfFive
<1>8. \A v \in L : v.do = "track" /\ DOMAIN v.lists = {w.on} /\ WriteOK(t, v) /\ ~ Alone(t, v)
  <2>1. \A v \in L : v = TrackIt(w.on, full)
    OBVIOUS
  <2> HIDE DEF L, full
  <2>2. /\ TrackIt(w.on, full).do = "track" /\ DOMAIN TrackIt(w.on, full).lists = {w.on}
        /\ WriteOK(t, TrackIt(w.on, full)) /\ ~ Alone(t, TrackIt(w.on, full))
    BY <1>2, <1>4, <1>6, TrackOnePlanned
  <2> QED BY <2>1, <2>2
<1>9. \A v \in N : v.do = "end" /\ v.on \in w.on /\ WriteOK(t, v) /\ ~ Alone(t, v)
  <2> SUFFICES ASSUME NEW v \in N
               PROVE  v.do = "end" /\ v.on \in w.on /\ WriteOK(t, v) /\ ~ Alone(t, v)
    OBVIOUS
  <2>1. PICK e \in w.on : v = end(e)
    OBVIOUS
  <2>2. v.do = "end" /\ v.on = e /\ v.full = full /\ v.chunks = kept
    BY <2>1
  <2> HIDE DEF N, full, kept
  <2> QED BY <1>2, <1>3, <1>4, <1>6, <2>2, NotRequests DEF WriteOK, Alone
<1>10. (\A v \in P : v.do = "put" /\ v.on = w.on /\ WriteOK(t, v) /\ ~ Alone(t, v)) /\ P # {}
  <2>1. (\A v \in P : v = PutIt(w.on, kept)) /\ P # {}
    OBVIOUS
  <2> HIDE DEF P, kept
  <2>2. /\ PutIt(w.on, kept).do = "put" /\ PutIt(w.on, kept).on = w.on
        /\ WriteOK(t, PutIt(w.on, kept)) /\ ~ Alone(t, PutIt(w.on, kept))
    BY <1>2, <1>4, <1>6, PutPlanned
  <2> QED BY <2>1, <2>2
<1>11. \A v \in U : v.do = "unembed" /\ WriteOK(t, v) /\ ~ Alone(t, v)
  <2> DEFINE S == {w.on}
  <2>1. \A x \in S : Own(t, x)
    BY <1>4
  <2>2. \A v \in U : v = UnembedThem(S)
    OBVIOUS
  <2> HIDE DEF S, U
  <2>3. UnembedThem(S).do = "unembed" /\ WriteOK(t, UnembedThem(S)) /\ ~ Alone(t, UnembedThem(S))
    BY <2>1, UnembedPlanned
  <2> QED BY <2>2, <2>3
<1>12. \A v \in E : v.do = "embed" /\ v.on = {w.on} /\ WriteOK(t, v) /\ ~ Alone(t, v)
  <2>1. \A v \in E : v = EmbedIt(w.on)
    OBVIOUS
  <2> HIDE DEF E
  <2>2. /\ EmbedIt(w.on).do = "embed" /\ EmbedIt(w.on).on = {w.on}
        /\ WriteOK(t, EmbedIt(w.on)) /\ ~ Alone(t, EmbedIt(w.on))
    BY <1>2, <1>4, EmbedPlanned
  <2> QED BY <2>1, <2>2
<1> HIDE DEF L, N, P, U, E, more, full, kept
<1>13. \A x : \A v \in L \cup U \cup P \cup E : Fills(t, v, x) => x = w.on
  BY <1>8, <1>10, <1>11, <1>12 DEF Fills
<1>14. \A x : \A v \in N : Fills(t, v, x) => Makes(v, x)
  BY <1>9 DEF Fills, Makes
<1>15. \E u \in P : Makes(u, w.on)
  BY <1>10 DEF Makes
<1>16. \A v \in Todo(more) : /\ WriteOK(t, v) /\ ~ Alone(t, v)
                             /\ v.do \notin {"relink", "move", "drop"}
  BY <1>7, <1>8, <1>9, <1>10, <1>11, <1>12
<1>17. \A v \in Todo(more) : \A x \in Elements : Fills(t, v, x) =>
                                    x \in graph \/ \E u \in Todo(more) : Makes(u, x)
  BY <1>7, <1>13, <1>14, <1>15
<1> QED BY <1>1, <1>5, <1>7, <1>16, <1>17, PlansOwn

-----------------------------------------------------------------------------
(* Renames and merges of entities.                                          *)

LEMMA RenameEntityKeeps ==
    ASSUME EditIInv, NEW t \in Tasks, job[t].plan # <<>>, NEW w \in Head(job[t].plan), RenameEntity(t, w)
    PROVE  EditIInv'
<1>1. w.do = "edit_entity" /\ w.do \in RequestKinds /\ w.on # w.to /\ w.to \notin graph
  BY DEF RenameEntity, RequestKinds
<1>2. /\ w \in Requests /\ Keys(w) = job[t].held /\ About(w) = job[t].about /\ StoresOK
      /\ ~ job[t].deletes /\ job[t].moved = {}
  BY <1>1, Asked
<1>3. /\ w.chunks \in {{}, {NewChunk}} /\ w.on \in Entities /\ w.to \in Entities
      /\ {w.on, w.to} = job[t].held /\ {w.on, w.to} = job[t].about
      /\ w.on \in Elements /\ w.to \in Elements
      /\ Ents(w.on) = {w.on} /\ Ents(w.to) = {w.to}
  BY <1>1, <1>2, RequestsAre, Shapes
<1>4. Own(t, w.on) /\ Own(t, w.to)
  BY <1>3, OwnAsked
<1>5. CASE w.on \notin graph
  BY <1>1, <1>5, RefuseKeeps DEF RenameEntity
<1>6. CASE w.on \in graph
  <2> DEFINE now  == Given(w, w.on)
             full == Incremental(w.on, now)
             owed == {w.to} \X (Names(w.on) \ (src[w.on] \ now))
             set  == [do |-> "settle", on |-> w.on, to |-> w.to, full |-> full]
  <2>1. now \in SUBSET Chunks
    BY <1>2, <1>3, GivenChunks
  <2>2. full \subseteq Chunks
    <3> HIDE DEF now
    <3> QED BY <1>2, <1>3, <2>1, ChunksOf
  <2>3. PICK p, s : p = PutIt(w.to, now) /\ s = set
    OBVIOUS
  <2>4. s.do = "settle" /\ s.on = w.on /\ s.to = w.to /\ s.full = full
    BY <2>3
  <2> DEFINE r == RelinkIt(s)
             d == DropIt(s.on, <<>>)
             u == UnembedThem({s.on})
             more == Beginning(p, s)
  <2>5. more = <<{PutIt(w.to, now)}, {[do |-> "relink", on |-> w.on, to |-> w.to]},
                 {DropIt(w.on, <<>>)}, {UnembedThem({w.on})}, {set}>>
    <3> HIDE DEF set, now
    <3> QED BY <2>3, <2>4 DEF Beginning, RelinkIt
  <2>6. /\ Becomes(t, [Advanced(t, w, more) EXCEPT !.owed = owed])
        /\ UNCHANGED <<stores, ghost>>
    BY <1>1, <1>6, <2>5 DEF RenameEntity
  <2>7. p.do = "put" /\ p.on = w.to /\ WriteOK(t, p) /\ ~ Alone(t, p)
    <3> HIDE DEF now
    <3> QED BY <1>2, <1>4, <2>1, <2>3, PutPlanned
  <2>8. WriteOK(t, s) /\ ~ Alone(t, s)
    <3> HIDE DEF full
    <3> QED BY <1>2, <1>3, <1>4, <2>2, <2>4, NotRequests DEF WriteOK, Alone
  <2>9. r.do = "relink" /\ r.on = w.on /\ WriteOK(t, r) /\ ~ Alone(t, r)
    <3>1. r.do = "relink" /\ r.on = w.on
      BY <2>4 DEF RelinkIt
    <3> HIDE DEF r
    <3> QED BY <1>2, <3>1, NotRequests DEF WriteOK, Alone
  <2>10. d.do = "drop" /\ d.on = w.on /\ WriteOK(t, d) /\ ~ Alone(t, d)
    <3>1. d.do = "drop" /\ d.on = w.on /\ d.more = <<>>
      BY <2>4 DEF DropIt
    <3> HIDE DEF d
    <3> QED BY <1>2, <1>4, <3>1, NotRequests DEF WriteOK, Alone
  <2>11. u.do = "unembed" /\ u.on = {w.on} /\ WriteOK(t, u) /\ ~ Alone(t, u)
    <3> DEFINE S == {s.on}
    <3>1. \A x \in S : Own(t, x)
      BY <1>4, <2>4
    <3> HIDE DEF S
    <3>2. /\ UnembedThem(S).do = "unembed" /\ UnembedThem(S).on = S
          /\ WriteOK(t, UnembedThem(S)) /\ ~ Alone(t, UnembedThem(S))
      BY <3>1, UnembedPlanned
    <3> QED BY <2>4, <3>2 DEF S
  <2>12. Todo(more) = {p, r, d, u, s} /\ IsPlan(more)
    <3> DEFINE M == {p}
    <3> HIDE DEF M
    <3>1. /\ Todo(Rest(s)) = {DropIt(s.on, <<>>), UnembedThem({s.on}), s} /\ IsPlan(Rest(s))
          /\ Todo(After(M, s)) = M \cup Todo(Rest(s)) /\ IsPlan(After(M, s))
          /\ Todo(Beginning(p, s)) = {p, RelinkIt(s)} \cup Todo(Rest(s)) /\ IsPlan(Beginning(p, s))
      BY AfterTodo
    <3> QED BY <3>1
  <2> HIDE DEF more, r, d, u, now, full, set, owed
  <2>13. Goes(t, w, more) /\ job'[t].moved = job[t].moved
    BY <2>6, OwedGoes
  <2>14. /\ graph' = graph /\ vec' = vec /\ track' = track /\ src' = src
         /\ torn' = torn /\ halved' = halved
    BY <2>6 DEF stores, ghost
  <2>15. StoresOK' /\ torn \subseteq torn'
    BY <1>2, <2>14 DEF StoresOK
  <2>16. \A v \in Todo(more) : WriteOK(t, v) /\ ~ Alone(t, v)
    BY <2>7, <2>8, <2>9, <2>10, <2>11, <2>12
  <2>17. OnlyLast(more, {v \in Todo(more) : Alone(t, v)})
    <3> DEFINE A == {v \in Todo(more) : Alone(t, v)}
    <3>1. Todo(more) \cap A = {}
      BY <2>16
    <3> HIDE DEF A
    <3>2. OnlyLast(more, A)
      BY <2>12, <3>1, NoneLast
    <3> QED BY <3>2 DEF A
  <2>18. job'[t].plan = more /\ Work(t)' = Todo(more)
    BY <1>1, <2>12, <2>13, <2>16, <2>17, Asked, GoesAnew
  <2>19. InOrder(t)'
    <3>1. {w.on, w.to} \notin graph
      <4>1. {w.on, w.to} \in Pairs
        BY <1>1, <1>3, TwoNames
      <4>2. Ents({w.on, w.to}) = {w.on, w.to} /\ {w.on, w.to} \in Elements
        BY <4>1, Shapes
      <4> QED BY <1>1, <1>2, <4>2 DEF StoresOK
    <3>2. p \in Work(t)' /\ s \in Work(t)' /\ ~ job'[t].deletes
      BY <1>2, <2>12, <2>13, <2>18 DEF Goes
    <3>3. job'[t].plan = Beginning(p, s)
      BY <2>18 DEF more
    <3>4. Renames(t, s)'
      BY <1>1, <2>4, <2>7, <2>14, <3>1, <3>2, <3>3 DEF Renames
    <3> QED BY <3>2, <3>4 DEF InOrder
  <2>20. Gone(w.on) = {w.on} \cup PairsOf(w.on) /\ w.to \notin Gone(w.on)
    BY <1>1, <1>3, Shapes DEF Gone, PairsOf
  <2>21. ASSUME NEW x \in Elements, ~ Orphan(x)
         PROVE  /\ \A v \in Todo(more) : Fills(t, v, x) =>
                       /\ x \in graph \/ \E y \in Todo(more) : Makes(y, x)
                       /\ \A y \in Todo(more) : ~ Drops(y, x)
                /\ \A v \in Todo(more) : Drops(v, x) =>
                       /\ x \in vec => \E y \in Todo(more) : Unembeds(t, y, x)
                       /\ track[x] # {} => \E y \in Todo(more) : Untracks(t, y, x)
    <3>1. \A v \in Todo(more) : Fills(t, v, x) => x = w.to
      BY <1>2, <2>4, <2>7, <2>9, <2>10, <2>11, <2>12 DEF Fills
    <3>2. x = w.to => Makes(p, x)
      BY <2>7 DEF Makes
    <3>3. \A v \in Todo(more) : Drops(v, x) => x \in Gone(w.on)
      BY <2>4, <2>7, <2>9, <2>10, <2>11, <2>12 DEF Drops
    <3>4. x = w.on => Unembeds(t, u, x) /\ Untracks(t, s, x)
      BY <2>4, <2>11 DEF Unembeds, Untracks
    <3>5. x \in PairsOf(w.on) /\ x \in graph => Unembeds(t, r, x) /\ Untracks(t, r, x)
      BY <2>9 DEF Unembeds, Untracks, Withdraws
    <3>6. x \in vec \/ track[x] # {} => x \in graph
      BY <2>21 DEF Orphan
    <3>7. {p, r, u, s} \subseteq Todo(more)
      BY <2>12
    <3> QED BY <2>20, <3>1, <3>2, <3>3, <3>4, <3>5, <3>6, <3>7
  <2> QED BY <1>1, <2>12, <2>13, <2>14, <2>15, <2>16, <2>17, <2>19, <2>21, Begins
<1> QED BY <1>5, <1>6

\* What an edge becomes when its ends are merged.
LEMMA RepointedIs ==
    ASSUME NEW from \in SUBSET Entities, NEW to \in Entities, NEW p \in Pairs,
           NEW y \in from \cup {to}, y \in p
    PROVE  /\ Repointed(p, from, to) \in SUBSET Entities /\ to \in Repointed(p, from, to)
           /\ \A x \in from \ {to} : x \notin Repointed(p, from, to)
<1>1. p \subseteq Entities
  BY Shapes
<1> QED BY <1>1 DEF Repointed

\* The plan of a merge.
Six(a, b, c, d, e, f) == <<a>> \o Stage(b) \o <<c>> \o Stage(d) \o Stage(e) \o Stage(f)

LEMMA SixStages ==
    ASSUME NEW a, NEW b, NEW c, NEW d, NEW e, NEW f
    PROVE  /\ IsPlan(Six(a, b, c, d, e, f))
           /\ Todo(Six(a, b, c, d, e, f)) = a \cup b \cup c \cup d \cup e \cup f
<1>1. /\ IsPlan(<<a>>) /\ Todo(<<a>>) = a /\ IsPlan(<<c>>) /\ Todo(<<c>>) = c
      /\ IsPlan(Stage(b)) /\ Todo(Stage(b)) = b /\ IsPlan(Stage(d)) /\ Todo(Stage(d)) = d
      /\ IsPlan(Stage(e)) /\ Todo(Stage(e)) = e /\ IsPlan(Stage(f)) /\ Todo(Stage(f)) = f
  BY PlanOfOne, StagePlan
<1> DEFINE p1 == <<a>> \o Stage(b)
           p2 == p1 \o <<c>>
           p3 == p2 \o Stage(d)
           p4 == p3 \o Stage(e)
           p5 == p4 \o Stage(f)
<1>2. IsPlan(p1) /\ Todo(p1) = a \cup b
  BY <1>1, Joined
<1>3. IsPlan(p2) /\ Todo(p2) = Todo(p1) \cup c
  <2> HIDE DEF p1
  <2> QED BY <1>1, <1>2, Joined
<1>4. IsPlan(p3) /\ Todo(p3) = Todo(p2) \cup d
  <2> HIDE DEF p2
  <2> QED BY <1>1, <1>3, Joined
<1>5. IsPlan(p4) /\ Todo(p4) = Todo(p3) \cup e
  <2> HIDE DEF p3
  <2> QED BY <1>1, <1>4, Joined
<1>6. IsPlan(p5) /\ Todo(p5) = Todo(p4) \cup f
  <2> HIDE DEF p4
  <2> QED BY <1>1, <1>5, Joined
<1>7. p5 = Six(a, b, c, d, e, f)
  BY DEF Six
<1>8. IsPlan(p5) /\ Todo(p5) = a \cup b \cup c \cup d \cup e \cup f
  <2> HIDE DEF p1, p2, p3, p4, p5
  <2> QED BY <1>2, <1>3, <1>4, <1>5, <1>6
<1> HIDE DEF p5
<1> QED BY <1>7, <1>8

LEMMA MergeEntitiesKeeps ==
    ASSUME EditIInv, NEW t \in Tasks, job[t].plan # <<>>, NEW w \in Head(job[t].plan), MergeEntities(t, w)
    PROVE  EditIInv'
<1>1. w.do = "merge" /\ w.do \in RequestKinds
  BY DEF MergeEntities, RequestKinds
<1>2. /\ w \in Requests /\ Keys(w) = job[t].held /\ About(w) = job[t].about /\ StoresOK
      /\ ~ job[t].deletes /\ job[t].moved = {}
  BY <1>1, Asked
<1>3. /\ w.from \in SUBSET Entities /\ w.to \in Entities
      /\ w.from \cup {w.to} = job[t].held /\ w.from \cup {w.to} = job[t].about
  BY <1>1, <1>2, RequestsAre
<1>4. \A x \in w.from \cup {w.to} : x \in Entities /\ x \in Elements /\ Own(t, x)
  <2> SUFFICES ASSUME NEW x \in w.from \cup {w.to} PROVE x \in Entities /\ x \in Elements /\ Own(t, x)
    OBVIOUS
  <2>1. x \in Entities /\ x \in Elements /\ Ents(x) = {x}
    BY <1>3, Shapes
  <2> QED BY <1>3, <2>1, OwnAsked
<1>5. CASE ~ (w.from \subseteq graph)
  BY <1>1, <1>5, RefuseKeeps DEF MergeEntities
<1>6. CASE w.from \subseteq graph
  <2> DEFINE here  == (w.from \cup {w.to}) \cap graph
             all   == UNION {src[x] : x \in here}
             full  == UNION {track[x] : x \in here}
             old   == w.from \ {w.to}
             edges == (UNION {PairsOf(x) : x \in here}) \cap graph
             tie(p) == <<p, Repointed(p, w.from, w.to), src[p]>>
             ties  == {tie(p) : p \in edges}
             down(x) == DropIt(x, <<{UnembedThem({x})}>>)
             group == [do |-> "regroup", ties |-> ties]
             owed  == {w.to} \X (all \cup full) \cup
                          UNION {{m[2]} \X Names(m[1]) : m \in {k \in ties : k[2] \in Pairs}}
             P == {PutIt(w.to, all)}
             G == IF ties = {} THEN {} ELSE {group}
             E == {EmbedIt(w.to)}
             U == IF old = {} THEN {} ELSE {UntrackThem(old)}
             L == IF full = {} THEN {} ELSE {TrackIt(w.to, full)}
             D == {down(x) : x \in old}
             more == Six(P, G, E, U, L, D)
  <2>1. /\ Becomes(t, [Advanced(t, w, more) EXCEPT !.owed = owed])
        /\ torn' = IF \E x \in here : track[x] = {} THEN torn \cup {w.to} ELSE torn
        /\ UNCHANGED <<stores, asked, faults, halved>>
    BY <1>6 DEF MergeEntities, Six
  <2>2. IsPlan(more) /\ Todo(more) = P \cup G \cup E \cup U \cup L \cup D
    <3> HIDE DEF P, G, E, U, L, D
    <3> QED BY SixStages
  <2>3. all \in SUBSET Chunks /\ full \in SUBSET Chunks
    <3>1. \A x \in here : src[x] \subseteq Chunks /\ track[x] \subseteq Chunks
      BY <1>2, <1>4 DEF StoresOK
    <3> QED BY <3>1
  <2>4. \A p \in edges : /\ p \in Pairs /\ p \in Elements /\ Own(t, p) /\ src[p] \subseteq Chunks
                         /\ Repointed(p, w.from, w.to) \in SUBSET Entities
                         /\ w.to \in Repointed(p, w.from, w.to)
                         /\ \A x \in old : x \notin Repointed(p, w.from, w.to)
    <3> SUFFICES ASSUME NEW p \in edges
                 PROVE  /\ p \in Pairs /\ p \in Elements /\ Own(t, p) /\ src[p] \subseteq Chunks
                        /\ Repointed(p, w.from, w.to) \in SUBSET Entities
                        /\ w.to \in Repointed(p, w.from, w.to)
                        /\ \A x \in old : x \notin Repointed(p, w.from, w.to)
      OBVIOUS
    <3>1. PICK x \in here : p \in PairsOf(x)
      OBVIOUS
    <3>2. p \in Pairs /\ x \in p /\ p \in Elements /\ x \in Entities /\ Own(t, x)
      BY <1>4, <3>1, Shapes DEF PairsOf
    <3>3. Own(t, p)
      BY <3>1, <3>2, OwnGone DEF Gone
    <3>4. src[p] \subseteq Chunks
      BY <1>2, <3>2 DEF StoresOK
    <3> QED BY <1>3, <3>1, <3>2, <3>3, <3>4, RepointedIs
  <2>5. \A m \in ties : /\ m[1] \in Pairs /\ Own(t, m[1]) /\ m[3] \subseteq Chunks
                        /\ m[2] \in SUBSET Entities /\ w.to \in m[2]
                        /\ (m[2] \in Pairs => Own(t, m[2])) /\ \A x \in old : x \notin m[2]
    <3> SUFFICES ASSUME NEW p \in edges, NEW m, m = tie(p)
                 PROVE  /\ m[1] \in Pairs /\ Own(t, m[1]) /\ m[3] \subseteq Chunks
                        /\ m[2] \in SUBSET Entities /\ w.to \in m[2]
                        /\ (m[2] \in Pairs => Own(t, m[2])) /\ \A x \in old : x \notin m[2]
      OBVIOUS
    <3>1. m[1] = p /\ m[2] = Repointed(p, w.from, w.to) /\ m[3] = src[p]
      OBVIOUS
    <3>2. m[2] \in Pairs => Own(t, m[2])
      <4>1. w.to \in m[2] /\ w.to \in Entities /\ Own(t, w.to)
        BY <1>4, <2>4, <3>1
      <4>2. m[2] \in Pairs => m[2] \in Gone(w.to)
        BY <4>1 DEF Gone, PairsOf
      <4> QED BY <4>1, <4>2, OwnGone
    <3> HIDE DEF edges, old
    <3> QED BY <2>4, <3>1, <3>2
  <2>6. \A p \in edges : \E m \in ties : m[1] = p
    <3> SUFFICES ASSUME NEW p \in edges PROVE \E m \in ties : m[1] = p
      OBVIOUS
    <3>1. tie(p) \in ties /\ tie(p)[1] = p
      OBVIOUS
    <3> HIDE DEF ties, tie
    <3> QED BY <3>1
  <2>7. (\A v \in P : v.do = "put" /\ v.on = w.to /\ WriteOK(t, v) /\ ~ Alone(t, v)) /\ P # {}
    <3>1. (\A v \in P : v = PutIt(w.to, all)) /\ P # {}
      OBVIOUS
    <3> HIDE DEF P, all
    <3>2. /\ PutIt(w.to, all).do = "put" /\ PutIt(w.to, all).on = w.to
          /\ WriteOK(t, PutIt(w.to, all)) /\ ~ Alone(t, PutIt(w.to, all))
      BY <1>2, <1>4, <2>3, PutPlanned
    <3> QED BY <3>1, <3>2
  <2>8. /\ \A v \in G : v.do = "regroup" /\ v.ties = ties /\ WriteOK(t, v) /\ ~ Alone(t, v)
        /\ ties # {} => G # {}
    <3>1. PICK g : g = group
      OBVIOUS
    <3>2. g.do = "regroup" /\ g.ties = ties
      BY <3>1
    <3>3. (\A v \in G : v = g) /\ (ties # {} => G # {})
      BY <3>1
    <3> HIDE DEF G, ties, group
    <3>4. TiesOK(t, ties)
      BY <2>5 DEF TiesOK
    <3>5. WriteOK(t, g) /\ ~ Alone(t, g)
      BY <1>2, <3>2, <3>4, NotRequests DEF WriteOK, Alone
    <3> QED BY <3>2, <3>3, <3>5
  <2>9. \A v \in E : v.do = "embed" /\ v.on = {w.to} /\ WriteOK(t, v) /\ ~ Alone(t, v)
    <3>1. \A v \in E : v = EmbedIt(w.to)
      OBVIOUS
    <3> HIDE DEF E
    <3>2. /\ EmbedIt(w.to).do = "embed" /\ EmbedIt(w.to).on = {w.to}
          /\ WriteOK(t, EmbedIt(w.to)) /\ ~ Alone(t, EmbedIt(w.to))
      BY <1>2, <1>4, EmbedPlanned
    <3> QED BY <3>1, <3>2
  <2>10. /\ \A v \in U : v.do = "untrack" /\ v.on = old /\ WriteOK(t, v) /\ ~ Alone(t, v)
         /\ old # {} => U # {}
    <3>1. (\A v \in U : v = UntrackThem(old)) /\ (old # {} => U # {})
      OBVIOUS
    <3>2. \A x \in old : Own(t, x)
      BY <1>4
    <3> HIDE DEF U, old
    <3>3. /\ UntrackThem(old).do = "untrack" /\ UntrackThem(old).on = old
          /\ WriteOK(t, UntrackThem(old)) /\ ~ Alone(t, UntrackThem(old))
      BY <3>2, UntrackPlanned
    <3> QED BY <3>1, <3>3
  <2>11. \A v \in L : v.do = "track" /\ DOMAIN v.lists = {w.to} /\ WriteOK(t, v) /\ ~ Alone(t, v)
    <3>1. \A v \in L : v = TrackIt(w.to, full)
      OBVIOUS
    <3> HIDE DEF L, full
    <3>2. /\ TrackIt(w.to, full).do = "track" /\ DOMAIN TrackIt(w.to, full).lists = {w.to}
          /\ WriteOK(t, TrackIt(w.to, full)) /\ ~ Alone(t, TrackIt(w.to, full))
      BY <1>2, <1>4, <2>3, TrackOnePlanned
    <3> QED BY <3>1, <3>2
  <2>12. ASSUME NEW x \in old
         PROVE  \E v \in D : v.do = "drop" /\ v.on = x /\ v.more # <<>>
    <3>1. down(x) \in D /\ down(x).do = "drop" /\ down(x).on = x
          /\ down(x).more = <<{UnembedThem({x})}>>
      BY DEF DropIt
    <3>2. \A z : <<z>> # <<>>
      OBVIOUS
    <3> HIDE DEF D, down
    <3>3. down(x).more # <<>>
      BY <3>1, <3>2
    <3> QED BY <3>1, <3>3
  <2>13. \A v \in D : v.do = "drop" /\ v.on \in old /\ WriteOK(t, v) /\ ~ Alone(t, v)
    <3> SUFFICES ASSUME NEW x \in old, NEW v, v = down(x)
                 PROVE  v.do = "drop" /\ v.on \in old /\ WriteOK(t, v) /\ ~ Alone(t, v)
      OBVIOUS
    <3>1. v.do = "drop" /\ v.on = x /\ v.more = <<{UnembedThem({x})}>>
      BY DEF DropIt
    <3>2. Own(t, x)
      BY <1>4
    <3> HIDE DEF down
    <3>3. v.more \in {<<>>, <<{UnembedThem({v.on})}>>}
      BY <3>1
    <3>4. WriteOK(t, v) /\ ~ Alone(t, v)
      BY <1>2, <3>1, <3>2, <3>3, NotRequests DEF WriteOK, Alone
    <3> QED BY <3>1, <3>4
  <2>14. \A x \in old : \A y \in PairsOf(x) : y \in graph => y \in edges
    BY <1>6
  <2>15. /\ graph' = graph /\ vec' = vec /\ track' = track /\ src' = src
         /\ torn \subseteq torn' /\ StoresOK'
    <3>1. /\ graph' = graph /\ vec' = vec /\ track' = track /\ src' = src /\ halved' = halved
          /\ torn \subseteq torn' /\ torn' \subseteq torn \cup {w.to}
      BY <2>1 DEF stores
    <3>2. w.to \in Elements
      BY <1>4
    <3> QED BY <1>2, <3>1, <3>2 DEF StoresOK
  <2>16. old \subseteq Entities /\ w.to \notin old /\ w.to \in Entities
    BY <1>3
  <2> HIDE DEF P, G, E, U, L, D, more, owed, all, full, here, edges, ties, tie, old
  <2>17. Goes(t, w, more) /\ job'[t].moved = job[t].moved
    BY <2>1, OwedGoes
  <2>18. \A v \in Todo(more) : WriteOK(t, v) /\ ~ Alone(t, v) /\ v.do \notin {"relink", "move"}
    BY <2>2, <2>7, <2>8, <2>9, <2>10, <2>11, <2>13
  <2>19. OnlyLast(more, {v \in Todo(more) : Alone(t, v)})
    <3> DEFINE A == {v \in Todo(more) : Alone(t, v)}
    <3>1. Todo(more) \cap A = {}
      BY <2>18
    <3> HIDE DEF A
    <3>2. OnlyLast(more, A)
      BY <2>2, <3>1, NoneLast
    <3> QED BY <3>2 DEF A
  <2>20. Work(t)' = Todo(more)
    BY <1>1, <2>2, <2>17, <2>18, <2>19, Asked, GoesAnew
  <2>21. InOrder(t)'
    BY <2>18, <2>20, Unmoved
  <2>22. ASSUME NEW x \in Elements, ~ Orphan(x)
         PROVE  /\ \A v \in Todo(more) : Fills(t, v, x) =>
                       /\ x \in graph \/ \E y \in Todo(more) : Makes(y, x)
                       /\ \A y \in Todo(more) : ~ Drops(y, x)
                /\ \A v \in Todo(more) : Drops(v, x) =>
                       /\ x \in vec => \E y \in Todo(more) : Unembeds(t, y, x)
                       /\ track[x] # {} => \E y \in Todo(more) : Untracks(t, y, x)
    <3>1. \A v \in Todo(more) : Fills(t, v, x) => x = w.to \/ (v \in G /\ \E m \in ties : x = m[2])
      BY <2>2, <2>7, <2>8, <2>9, <2>10, <2>11, <2>13 DEF Fills
    <3>2. x = w.to => \E y \in P : Makes(y, x)
      BY <2>7 DEF Makes
    <3>3. \A v \in G : (\E m \in ties : x = m[2]) => Makes(v, x)
      BY <2>8 DEF Makes
    <3>4. \A v \in Todo(more) : Drops(v, x) => \E y \in old : x \in Gone(y)
      BY <2>2, <2>7, <2>8, <2>9, <2>10, <2>11, <2>13 DEF Drops
    <3>5. ASSUME NEW y \in old, x \in Gone(y) PROVE x # w.to /\ \A m \in ties : x # m[2]
      <4>1. x = y \/ (x \in Pairs /\ y \in x)
        BY <3>5, <2>16 DEF Gone, PairsOf
      <4>2. x # w.to
        BY <2>16, <4>1, Shapes
      <4>3. \A m \in ties : x # m[2]
        BY <2>5, <2>16, <4>1, Shapes
      <4> QED BY <4>2, <4>3
    <3>6. ASSUME x \in old
          PROVE  (\E v \in D : Unembeds(t, v, x)) /\ (\E v \in U : Untracks(t, v, x))
      <4>1. PICK v \in D : v.do = "drop" /\ v.on = x /\ v.more # <<>>
        BY <2>12, <3>6
      <4>2. Unembeds(t, v, x)
        BY <4>1 DEF Unembeds
      <4>3. \E z \in U : Untracks(t, z, x)
        BY <2>10, <3>6 DEF Untracks
      <4> QED BY <4>2, <4>3
    <3>7. ASSUME NEW y \in old, x \in PairsOf(y), x \in graph
          PROVE  \E v \in G : Unembeds(t, v, x) /\ Untracks(t, v, x)
      <4>1. PICK m \in ties : m[1] = x
        BY <2>6, <2>14, <3>7
      <4>2. PICK v \in G : v.do = "regroup" /\ v.ties = ties
        BY <2>8, <4>1
      <4>3. Withdraws(t, v, x)
        BY <4>1, <4>2 DEF Withdraws
      <4> QED BY <4>3 DEF Unembeds, Untracks
    <3>8. x \in vec \/ track[x] # {} => x \in graph
      BY <2>22 DEF Orphan
    <3>9. \A y \in old : x \in Gone(y) => x = y \/ x \in PairsOf(y)
      BY DEF Gone
    <3> QED BY <2>2, <3>1, <3>2, <3>3, <3>4, <3>5, <3>6, <3>7, <3>8, <3>9
  <2>23. \A v \in Todo(more) : WriteOK(t, v)
    BY <2>18
  <2> QED BY <1>1, <2>2, <2>15, <2>17, <2>19, <2>21, <2>22, <2>23, Begins
<1> QED BY <1>5, <1>6

-----------------------------------------------------------------------------
(* Requests are made.                                                       *)

LEMMA AboutOf ==
    ASSUME NEW r \in Requests PROVE Keys(r) \subseteq Entities /\ About(r) \subseteq Elements
<1>1. r.do \in RequestKinds
  BY RequestsAre
<1>2. CASE r.do \in {"delete_entity", "create_entity"}
  BY <1>2, RequestsAre, Shapes
<1>3. CASE r.do \in {"delete_relation", "create_relation", "edit_relation"}
  BY <1>3, RequestsAre, Shapes
<1>4. CASE r.do = "ingest"
  BY <1>4, RequestsAre, Shapes
<1>5. CASE r.do = "edit_entity"
  BY <1>5, RequestsAre, Shapes
<1>6. CASE r.do = "merge"
  BY <1>6, RequestsAre, Shapes
<1> QED BY <1>1, <1>2, <1>3, <1>4, <1>5, <1>6 DEF RequestKinds

\* The job a request begins as.
Begun(r) ==
    [Idle EXCEPT !.held = Keys(r), !.about = About(r), !.plan = <<{r}>>,
                 !.deletes = r.do \in {"delete_entity", "delete_relation"}]

LEMMA BegunIs ==
    ASSUME NEW r, NEW j, j = Begun(r)
    PROVE  /\ j.held = Keys(r) /\ j.about = About(r) /\ j.plan = <<{r}>> /\ j.moved = {}
           /\ j.deletes = (r.do \in {"delete_entity", "delete_relation"})
           /\ j = [held |-> j.held, about |-> j.about, plan |-> j.plan, moved |-> j.moved,
                   deletes |-> j.deletes, dirty |-> j.dirty, owed |-> j.owed]
<1>1. PICK k, a, p, b : /\ k = Keys(r) /\ a = About(r) /\ p = <<{r}>>
                        /\ b = (r.do \in {"delete_entity", "delete_relation"})
  OBVIOUS
<1>2. j = [Idle EXCEPT !.held = k, !.about = a, !.plan = p, !.deletes = b]
  BY <1>1 DEF Begun
<1>3. j = [held |-> k, about |-> a, plan |-> p, moved |-> {}, deletes |-> b,
           dirty |-> FALSE, owed |-> {}]
  BY <1>2 DEF Idle
<1> QED BY <1>1, <1>3

LEMMA RequestKeeps ==
    ASSUME EditIInv, NEW t \in Tasks, Request(t)
    PROVE  EditIInv'
<1>1. PICK r \in Requests :
         /\ \A u \in Tasks : Keys(r) \cap job[u].held = {}
         /\ Becomes(t, Begun(r))
         /\ torn' = IF \E x \in About(r) : Excused(x, torn) THEN torn \cup About(r) ELSE torn
  BY DEF Request, Begun
<1>2. job[t] = Idle /\ UNCHANGED <<stores, faults, halved>>
  BY DEF Request
<1>3. PICK j : j = Begun(r)
  OBVIOUS
<1>4. /\ j.held = Keys(r) /\ j.about = About(r) /\ j.plan = <<{r}>> /\ j.moved = {}
      /\ j.deletes = (r.do \in {"delete_entity", "delete_relation"})
      /\ j = [held |-> j.held, about |-> j.about, plan |-> j.plan, moved |-> j.moved,
              deletes |-> j.deletes, dirty |-> j.dirty, owed |-> j.owed]
  BY <1>3, BegunIs
<1>5. job' = [u \in Tasks |-> IF u = t THEN j ELSE job[u]]
  <2>1. job = [u \in Tasks |-> job[u]]
    BY DEF EditIInv
  <2> QED BY <1>1, <1>3, <2>1 DEF Becomes
<1>6. job'[t] = j /\ OthersWait(t) /\ job' = [u \in Tasks |-> job'[u]]
  BY <1>5 DEF OthersWait
<1>7. Keys(r) \subseteq Entities /\ About(r) \subseteq Elements /\ r.do \in RequestKinds
  BY AboutOf, RequestsAre
<1>8. torn \subseteq torn' /\ StoresOK'
  <2>1. torn \subseteq torn' /\ torn' \subseteq torn \cup About(r)
    BY <1>1
  <2> QED BY <1>2, <1>7, <2>1 DEF EditIInv, StoresOK, stores
<1>9. Apart'
  BY <1>1, <1>4, <1>6 DEF EditIInv, Apart, OthersWait
<1>10. Work(t)' = {r} /\ IsPlan(j.plan)
  <2> DEFINE R == {r}
  <2>1. IsPlan(<<R>>) /\ Todo(<<R>>) = R
    <3> HIDE DEF R
    <3> QED BY PlanOfOne
  <2> QED BY <1>4, <1>6, <2>1 DEF Work
<1>11. JobOK(t)'
  <2>1. IsJob(job'[t])
    <3>1. j.deletes \in BOOLEAN
      BY <1>4
    <3>2. /\ j = [held |-> j.held, about |-> j.about, plan |-> j.plan, moved |-> j.moved,
                  deletes |-> j.deletes, dirty |-> j.dirty, owed |-> j.owed]
          /\ j.held \subseteq Entities /\ j.about \subseteq Elements
      BY <1>4, <1>7
    <3>3. IsJob(j)
      BY <1>10, <3>1, <3>2 DEF IsJob
    <3> QED BY <1>6, <3>3
  <2>2. WriteOK(t, r)'
    <3>1. RequestOK(t, r)'
      BY <1>4, <1>6 DEF RequestOK
    <3> QED BY <1>7, <3>1, NotRequests DEF WriteOK
  <2>3. Placed(t)'
    <3>1. \A A : OnlyLast(<<{r}>>, A)
      BY DEF OnlyLast
    <3> QED BY <1>4, <1>6, <3>1 DEF Placed
  <2>4. InOrder(t)' /\ MovedOK(t)'
    BY <1>4, <1>6, <1>7, <1>10, NotRequests DEF InOrder, MovedOK
  <2> QED BY <1>10, <2>1, <2>2, <2>3, <2>4 DEF JobOK
<1>12. \A u \in Tasks \ {t} : JobOK(u)'
  BY <1>2, <1>6, OthersOK DEF stores
<1>13. \A x \in Elements : Same(x)
  BY <1>2 DEF Same, stores
<1>14. ASSUME NEW x \in Elements, ~ Orphan(x)' PROVE Ok(t, x)'
  <2>1. ~ (\E w \in Work(t)' : Drops(w, x)) /\ ~ Filled(t, x)'
    BY <1>7, <1>10, NotRequests DEF Drops, Filled, Fills
  <2>2. ~ Lost(t, x)'
    BY <2>1 DEF Lost
  <2> QED BY <1>14, <2>1, <2>2 DEF Ok, Stays, Clears, Made, Orphan
<1>15. Kept'
  <2> SUFFICES ASSUME NEW x \in Elements, ~ Excused(x, torn')
               PROVE  /\ Orphan(x)' => \E u \in Tasks : Holds(u, x)' /\ Ok(u, x)'
                      /\ ~ Orphan(x)' => \A u \in Tasks : Holds(u, x)' => Ok(u, x)'
    BY DEF Kept, Excused
  <2>1. ~ Excused(x, torn)
    BY <1>8 DEF Excused
  <2>2. /\ Orphan(x) => \E u \in Tasks : Holds(u, x) /\ Ok(u, x)
        /\ ~ Orphan(x) => \A u \in Tasks : Holds(u, x) => Ok(u, x)
    BY <2>1 DEF EditIInv, Kept
  <2>3. \A u \in Tasks \ {t} : (Holds(u, x)' <=> Holds(u, x)) /\ (Ok(u, x)' <=> Ok(u, x))
    BY <1>6, <1>13, OkSame DEF OthersWait
  <2>4. ~ Holds(t, x)
    BY <1>2, IdleIs DEF Holds
  <2>5. Orphan(x)' <=> Orphan(x)
    BY <1>13 DEF Same, Orphan
  <2> QED BY <1>14, <2>2, <2>3, <2>4, <2>5
<1> QED BY <1>6, <1>8, <1>9, <1>11, <1>12, <1>15 DEF EditIInv

-----------------------------------------------------------------------------
(* The theorems.                                                            *)

LEMMA AtFirst == EditInit => EditIInv
<1> SUFFICES ASSUME EditInit PROVE EditIInv
  OBVIOUS
<1>1. PICK s \in Start :
         /\ graph = s.graph
         /\ src = [x \in Elements |-> IF x \in s.graph THEN {<<x, 1>>} ELSE {}]
         /\ vec = s.graph
         /\ track = [x \in Elements |-> IF x \in s.tracked THEN {x} \X {1, 2} ELSE {}]
         /\ job = [t \in Tasks |-> Idle]
         /\ torn = {} /\ halved = {}
  BY DEF EditInit
<1>2. /\ s.graph \subseteq Elements /\ s.tracked \subseteq s.graph
      /\ \A p \in s.graph \cap Pairs : p \subseteq s.graph
  BY GraphAssumption
<1>3. StoresOK
  <2>1. \A x \in Elements : {<<x, 1>>} \subseteq Chunks /\ {x} \X {1, 2} \subseteq Chunks
    BY DEF Chunks
  <2>2. src \in [Elements -> SUBSET Chunks] /\ track \in [Elements -> SUBSET Chunks]
    BY <1>1, <2>1
  <2>3. \A x \in Elements : x \in graph => Ents(x) \subseteq graph
    BY <1>1, <1>2, Shapes DEF Elements
  <2> QED BY <1>1, <1>2, <2>2, <2>3 DEF StoresOK
<1>4. \A t \in Tasks : job[t] = Idle
  <2> HIDE DEF Idle
  <2> QED BY <1>1
<1>5. \A t \in Tasks : JobOK(t)
  BY <1>4, IdleOK
<1>6. Apart
  BY <1>4, IdleIs DEF Apart
<1>7. \A x \in Elements : ~ Orphan(x)
  BY <1>1, <1>2 DEF Orphan
<1>8. \A t \in Tasks : \A x : ~ Holds(t, x)
  BY <1>4, IdleIs DEF Holds
<1>9. Kept
  BY <1>7, <1>8 DEF Kept
<1>10. job = [t \in Tasks |-> job[t]]
  <2> HIDE DEF Idle
  <2> QED BY <1>1
<1> QED BY <1>3, <1>5, <1>6, <1>9, <1>10 DEF EditIInv

LEMMA StepKeeps ==
    ASSUME EditIInv, NEW t \in Tasks, Step(t)
    PROVE  EditIInv'
<1>1. PICK w \in Head(job[t].plan) :
          \/ DeleteEntity(t, w) \/ DeleteRelation(t, w)
          \/ CreateEntity(t, w) \/ CreateRelation(t, w)
          \/ EditEntity(t, w) \/ EditByMerge(t, w) \/ EditRelation(t, w)
          \/ RenameEntity(t, w) \/ Relink(t, w) \/ Move(t, w)
          \/ Settle(t, w) \/ Retrack(t, w)
          \/ MergeEntities(t, w) \/ Regroup(t, w)
          \/ MergeEdge(t, w) \/ MergeEnd(t, w)
          \/ Put(t, w) \/ Drop(t, w) \/ Embed(t, w) \/ Unembed(t, w)
          \/ Track(t, w) \/ Untrack(t, w) \/ Swallow(t, w)
  BY DEF Step
<1>2. job[t].plan # <<>>
  BY DEF Step
<1>3. CASE DeleteEntity(t, w) \/ DeleteRelation(t, w) \/ CreateEntity(t, w) \/ CreateRelation(t, w)
  BY <1>2, <1>3, DeleteEntityKeeps, DeleteRelationKeeps, CreateEntityKeeps, CreateRelationKeeps
<1>4. CASE EditEntity(t, w) \/ EditByMerge(t, w) \/ EditRelation(t, w)
  BY <1>2, <1>4, EditEntityKeeps, EditByMergeKeeps, EditRelationKeeps
<1>5. CASE RenameEntity(t, w) \/ Relink(t, w) \/ Move(t, w) \/ Settle(t, w) \/ Retrack(t, w)
  BY <1>2, <1>5, RenameEntityKeeps, RelinkKeeps, MoveKeeps, SettleKeeps, RetrackKeeps
<1>6. CASE MergeEntities(t, w) \/ Regroup(t, w) \/ MergeEdge(t, w) \/ MergeEnd(t, w)
  BY <1>2, <1>6, MergeEntitiesKeeps, RegroupKeeps, MergeEdgeKeeps, MergeEndKeeps
<1>7. CASE Put(t, w) \/ Drop(t, w) \/ Embed(t, w) \/ Unembed(t, w)
  BY <1>2, <1>7, PutKeeps, DropKeeps, EmbedKeeps, UnembedKeeps
<1>8. CASE Track(t, w) \/ Untrack(t, w) \/ Swallow(t, w)
  BY <1>2, <1>8, TrackKeeps, UntrackKeeps, SwallowKeeps
<1> QED BY <1>1, <1>3, <1>4, <1>5, <1>6, <1>7, <1>8

LEMMA SameKeeps ==
    ASSUME EditIInv, UNCHANGED editVars PROVE EditIInv'
<1>1. /\ graph' = graph /\ src' = src /\ vec' = vec /\ track' = track /\ job' = job
      /\ torn' = torn /\ halved' = halved
  BY DEF editVars, stores, ghost
<1>2. StoresOK' /\ Apart'
  BY <1>1 DEF EditIInv, StoresOK, Apart
<1>3. \A u \in Tasks : JobOK(u)'
  <2> SUFFICES ASSUME NEW u \in Tasks PROVE JobOK(u)'
    OBVIOUS
  <2>1. \A w : (WriteOK(u, w)' <=> WriteOK(u, w)) /\ (Alone(u, w)' <=> Alone(u, w))
    BY <1>1, WriteSame DEF Alone
  <2>2. Work(u)' = Work(u) /\ \A x : Own(u, x)' <=> Own(u, x)
    BY <1>1 DEF Work, Own, Holds
  <2>3. \A s : Renames(u, s)' <=> Renames(u, s)
    BY <1>1, <2>2 DEF Renames
  <2>4. JobOK(u)
    BY DEF EditIInv
  <2> QED BY <1>1, <2>1, <2>2, <2>3, <2>4 DEF JobOK, Placed, InOrder, MovedOK
<1>4. \A u \in Tasks, x \in Elements : /\ Ok(u, x)' <=> Ok(u, x)
                                       /\ Holds(u, x)' <=> Holds(u, x)
                                       /\ Orphan(x)' <=> Orphan(x)
  BY <1>1, OkSame DEF Same
<1>5. \A x \in Elements : Orphan(x)' <=> Orphan(x)
  BY <1>1 DEF Orphan
<1>6. Kept'
  BY <1>1, <1>4, <1>5 DEF EditIInv, Kept, Excused
<1> QED BY <1>1, <1>2, <1>3, <1>6 DEF EditIInv

LEMMA NextKeeps == EditIInv /\ [EditNext]_editVars => EditIInv'
<1> SUFFICES ASSUME EditIInv, [EditNext]_editVars PROVE EditIInv'
  OBVIOUS
<1>1. CASE UNCHANGED editVars
  BY <1>1, SameKeeps
<1>2. CASE EditNext
  BY <1>2, RequestKeeps, StepKeeps, FinishKeeps, FailKeeps DEF EditNext
<1> QED BY <1>1, <1>2

\* What is in order, at rest, is no orphan.
LEMMA InOrderNow == EditIInv => GraphInv
<1> SUFFICES ASSUME EditIInv PROVE GraphInv
  OBVIOUS
<1>1. EditTypeOK
  BY DEF EditIInv, StoresOK, EditTypeOK, JobOK, IsJob
<1>2. NoOrphans
  BY DEF EditIInv, Kept, NoOrphans, Quiet, Orphan, Holds
<1> QED BY <1>1, <1>2 DEF GraphInv

\* However the operations of the graph's editing interleave, a vector or a record
\* that nobody is at work on, and no interrupted or crossing edit has touched,
\* belongs to an element of the graph, though deletions fail half-way.
THEOREM GraphTheorem == EditSpec => []GraphInv
<1>1. EditSpec => []EditIInv
  BY AtFirst, NextKeeps, PTL DEF EditSpec
<1>2. []EditIInv => []GraphInv
  BY InOrderNow, PTL
<1> QED BY <1>1, <1>2, PTL

=============================================================================
