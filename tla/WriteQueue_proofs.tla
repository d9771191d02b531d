------------------------- MODULE WriteQueue_proofs -------------------------
(***************************************************************************)
(* Proofs about WriteQueue, for every number of partitions, every hash,    *)
(* capacity and set of jobs.                                               *)
(***************************************************************************)
EXTENDS WriteQueue, TLAPS

-----------------------------------------------------------------------------
(* Types.                                                                  *)

\* A worker past Take has an item in hand.
HandsFull == \A p \in Partition : wpc[p] \in {"meet", "run", "wait"} => held[p] \in Item

TypeInv == TypeOK /\ HandsFull

SubmitPCs == {"offer", "checkFirst", "checkSecond", "sendFirst", "sendSecond"}

LEMMA TypeInit == Init => TypeInv
  <1> SUFFICES ASSUME Init PROVE TypeInv
    OBVIOUS
  <1>1. 0 \in Partition /\ 1 \in 1..MaxAttempts
    BY QueueAssumption DEF Partition
  <1>2. part \in [Partition -> Seq(Item)] /\ accepted \in Seq(Job)
    BY DEF Init
  <1>3. held \in [Partition -> Item \cup {None}] /\ attempt \in [Partition -> 1..MaxAttempts] /\ turn \in Partition
    BY <1>1 DEF Init
  <1>4. wpc \in [Partition -> WorkerPC] /\ HandsFull /\ state \in [Job -> JobState] /\ arrived \in [Job -> Nat]
    BY DEF Init, HandsFull, WorkerPC, JobState
  <1> QED
    BY <1>2, <1>3, <1>4 DEF Init, TypeInv, TypeOK

\* A change of some jobs' outcome, a change of some workers' place.
LEMMA StateType ==
    ASSUME TypeInv, NEW j, NEW r \in JobState
    PROVE  [state EXCEPT ![j] = r] \in [Job -> JobState]
  BY DEF TypeInv, TypeOK

LEMMA BeginType ==
    ASSUME TypeInv, NEW p \in Partition, NEW j, Begin(p, j)
    PROVE  /\ wpc' \in [Partition -> WorkerPC] /\ attempt' \in [Partition -> 1..MaxAttempts]
           /\ state' \in [Job -> JobState]
           /\ \A q \in Partition \ {p} : wpc'[q] = wpc[q]
  <1>1. 1 \in 1..MaxAttempts
    BY QueueAssumption
  <1>2. "running" \in JobState /\ "run" \in WorkerPC
    BY DEF JobState, WorkerPC
  <1>3. state' \in [Job -> JobState]
    BY <1>2, StateType DEF Begin
  <1> QED
    BY <1>1, <1>2, <1>3 DEF Begin, TypeInv, TypeOK

LEMMA SubIsRecord ==
    ASSUME TypeInv, sub.pc # "idle"
    PROVE  /\ sub.job \in Job /\ sub.first \in Partition /\ sub.second \in Partition
           /\ sub \in [pc: SubmitPCs, job: Job, first: Partition, second: Partition]
  BY DEF TypeInv, TypeOK, Idle, SubmitPCs

LEMMA SubmitType == ASSUME TypeInv, NEW j \in Job, Submit(j) PROVE TypeInv'
  <1>1. (turn + 1) % NumParts \in Partition
    BY QueueAssumption DEF TypeInv, TypeOK, Partition
  <1>2. sub' \in [pc: SubmitPCs, job: Job, first: Partition, second: Partition] /\ turn' \in Partition
    BY <1>1, QueueAssumption DEF Submit, SubmitPCs, TypeInv, TypeOK
  <1> QED
    BY <1>2 DEF Submit, workerVars, TypeInv, TypeOK, HandsFull, SubmitPCs

LEMMA SubmitStepType == ASSUME TypeInv, SubmitStep PROVE TypeInv'
  <1>1. /\ sub.job \in Job /\ sub.first \in Partition /\ sub.second \in Partition
        /\ sub \in [pc: SubmitPCs, job: Job, first: Partition, second: Partition]
    BY SubIsRecord DEF SubmitStep, Offer, CheckFirst, CheckSecond, Check, SendFirst, SendSecond
  <1>2. /\ UNCHANGED <<closed, turn, workerVars, loop, main>>
        /\ UNCHANGED <<accepted, state>> \/ Accept(sub.job) \/ DropFull(sub.job)
    BY DEF SubmitStep, Offer, CheckFirst, CheckSecond, Check, SendFirst, SendSecond
  <1>3. accepted' \in Seq(Job) /\ state' \in [Job -> JobState]
    <2>1. "queued" \in JobState /\ "dropped" \in JobState
      BY DEF JobState
    <2>2. state' \in [Job -> JobState]
      BY <1>2, <2>1, StateType DEF Accept, DropFull, TypeInv, TypeOK
    <2>3. accepted \in Seq(Job)
      BY DEF TypeInv, TypeOK
    <2> QED
      BY <1>1, <1>2, <2>2, <2>3 DEF Accept, DropFull
  <1>4. Alone(sub.job) \in Item /\ Half(sub.job, TRUE) \in Item /\ Half(sub.job, FALSE) \in Item
    BY <1>1 DEF Alone, Half, Item
  <1>5. part' \in [Partition -> Seq(Item)]
    <2>1. part \in [Partition -> Seq(Item)]
      BY DEF TypeInv, TypeOK
    <2>2. ASSUME NEW q \in Partition, NEW it \in Item
          PROVE  [part EXCEPT ![q] = Append(@, it)] \in [Partition -> Seq(Item)]
      <3>1. Append(part[q], it) \in Seq(Item)
        BY <2>1
      <3> QED
        BY <2>1, <3>1
    <2>3. CASE Offer
      <3>1. \/ part' = part
            \/ part' = [part EXCEPT ![sub.first] = Append(@, Alone(sub.job))]
        BY <2>3 DEF Offer
      <3>2. CASE part' = part
        BY <2>1, <3>2
      <3>3. CASE part' = [part EXCEPT ![sub.first] = Append(@, Alone(sub.job))]
        BY <1>1, <1>4, <2>2, <3>3
      <3> QED
        BY <3>1, <3>2, <3>3
    <2>4. CASE SendFirst
      BY <1>1, <1>4, <2>2, <2>4 DEF SendFirst
    <2>5. CASE SendSecond
      BY <1>1, <1>4, <2>2, <2>5 DEF SendSecond
    <2>6. CASE CheckFirst \/ CheckSecond
      BY <2>1, <2>6 DEF CheckFirst, CheckSecond, Check
    <2> QED
      BY <2>3, <2>4, <2>5, <2>6 DEF SubmitStep
  <1>6. sub' = Idle \/ sub' \in [pc: SubmitPCs, job: Job, first: Partition, second: Partition]
    <2>1. CASE Offer \/ SendSecond
      BY <2>1 DEF Offer, SendSecond
    <2>2. CASE CheckFirst \/ CheckSecond \/ SendFirst
      BY <1>1, <2>2 DEF CheckFirst, CheckSecond, Check, SendFirst, SubmitPCs
    <2> QED
      BY <2>1, <2>2 DEF SubmitStep
  <1> QED
    BY <1>2, <1>3, <1>5, <1>6 DEF TypeInv, TypeOK, HandsFull, workerVars, SubmitPCs

LEMMA WorkerType == ASSUME TypeInv, NEW p \in Partition, Worker(p) PROVE TypeInv'
  <1>1. CASE Take(p)
    <2>1. Head(part[p]) \in Item /\ Tail(part[p]) \in Seq(Item)
      BY <1>1 DEF Take, TypeInv, TypeOK
    <2>2. /\ part' \in [Partition -> Seq(Item)] /\ held' \in [Partition -> Item \cup {None}]
          /\ held'[p] \in Item /\ \A q \in Partition \ {p} : held'[q] = held[q]
      BY <1>1, <2>1 DEF Take, TypeInv, TypeOK
    <2>3. /\ wpc' \in [Partition -> WorkerPC]
          /\ \A q \in Partition \ {p} : wpc'[q] = wpc[q]
          /\ attempt' \in [Partition -> 1..MaxAttempts]
          /\ state' \in [Job -> JobState]
      <3>1. CASE Head(part[p]).paired
        BY <1>1, <3>1 DEF Take, TypeInv, TypeOK, WorkerPC
      <3>2. CASE ~Head(part[p]).paired
        <4>1. Begin(p, Head(part[p]).job)
          BY <1>1, <3>2 DEF Take
        <4> QED
          BY <4>1, BeginType
      <3> QED
        BY <3>1, <3>2
    <2>4. arrived' \in [Job -> Nat]
      <3>1. Head(part[p]).job \in Job /\ arrived \in [Job -> Nat]
        BY <2>1 DEF Item, TypeInv, TypeOK
      <3>2. \A n \in Nat : n + 1 \in Nat
        OBVIOUS
      <3> QED
        BY <1>1, <3>1, <3>2 DEF Take
    <2> QED
      BY <1>1, <2>2, <2>3, <2>4 DEF Take, TypeInv, TypeOK, HandsFull
  <1>2. CASE Meet(p)
    <2>1. held[p] \in Item
      BY <1>2 DEF Meet, TypeInv, HandsFull
    <2>2. CASE held[p].lead
      <3>1. Begin(p, held[p].job)
        BY <1>2, <2>2 DEF Meet
      <3>2. /\ wpc' \in [Partition -> WorkerPC] /\ attempt' \in [Partition -> 1..MaxAttempts]
            /\ state' \in [Job -> JobState]
            /\ \A q \in Partition \ {p} : wpc'[q] = wpc[q]
        BY <3>1, BeginType
      <3> QED
        BY <1>2, <2>1, <3>2 DEF Meet, queueVars, TypeInv, TypeOK, HandsFull
    <2>3. CASE ~held[p].lead
      BY <1>2, <2>1, <2>3 DEF Meet, queueVars, TypeInv, TypeOK, HandsFull, WorkerPC
    <2> QED
      BY <2>2, <2>3
  <1>3. CASE Succeed(p) \/ Exhaust(p)
    <2>1. held[p] \in Item
      BY <1>3 DEF Succeed, Exhaust, TypeInv, HandsFull
    <2>2. done' \subseteq Job
      BY <1>3, <2>1 DEF Succeed, Exhaust, End, Item, TypeInv, TypeOK
    <2>3. "written" \in JobState /\ "compensated" \in JobState
      BY DEF JobState
    <2>4. state' \in [Job -> JobState]
      BY <1>3, <2>3, StateType DEF Succeed, Exhaust, End
    <2>5. wpc' \in [Partition -> WorkerPC] /\ HandsFull'
      BY <1>3 DEF Succeed, Exhaust, End, TypeInv, TypeOK, HandsFull, WorkerPC
    <2> QED
      BY <1>3, <2>2, <2>4, <2>5 DEF Succeed, Exhaust, End, queueVars, TypeInv, TypeOK
  <1>4. CASE Retry(p)
    <2>1. attempt[p] \in 1..MaxAttempts /\ attempt[p] + 1 \in 1..MaxAttempts
      BY <1>4, QueueAssumption DEF Retry, TypeInv, TypeOK
    <2>2. attempt' \in [Partition -> 1..MaxAttempts]
      BY <1>4, <2>1 DEF Retry, TypeInv, TypeOK
    <2> QED
      BY <1>4, <2>2 DEF Retry, queueVars, TypeInv, TypeOK, HandsFull
  <1>5. CASE Release(p) \/ Exit(p)
    BY <1>5 DEF Release, Exit, queueVars, TypeInv, TypeOK, HandsFull, WorkerPC
  <1> QED
    BY <1>1, <1>2, <1>3, <1>4, <1>5 DEF Worker

LEMMA TypeNext == TypeInv /\ [Next]_vars => TypeInv'
  <1> SUFFICES ASSUME TypeInv, [Next]_vars PROVE TypeInv'
    OBVIOUS
  <1>1. CASE Signal \/ Failure \/ LoopStop \/ Shutdown
    BY <1>1 DEF Signal, Failure, LoopStop, Shutdown, LoopStopped, LoopStuck, Drain, CloseParts, Join,
                Main, queueVars, workerVars, TypeInv, TypeOK, HandsFull
  <1>2. CASE UNCHANGED vars
    BY <1>2 DEF vars, queueVars, workerVars, TypeInv, TypeOK, HandsFull
  <1> QED
    BY <1>1, <1>2, SubmitType, SubmitStepType, WorkerType DEF Next, Over

\* Every reachable state of the queue, its workers and the shutdown is typed.
THEOREM QueueTypeCorrect == Spec => []TypeOK
  <1>1. Spec => []TypeInv
    BY TypeInit, TypeNext, PTL DEF Spec
  <1>2. TypeInv => TypeOK
    BY DEF TypeInv
  <1> QED
    BY <1>1, <1>2, PTL


-----------------------------------------------------------------------------
(* Submit and Close.                                                       *)

\* What submitPair knows between its steps: the two partitions differ, and
\* what was found to have room keeps it, since the workers only take.
PairFits ==
    /\ sub.pc \in {"checkFirst", "checkSecond", "sendFirst", "sendSecond"} => sub.first # sub.second
    /\ sub.pc = "checkSecond" => HasRoom(sub.first)
    /\ SubmitNeverBlocks

\* main closes only after the loop, and the loop stops between two Submits.
CloseAfterLoop ==
    /\ loop = "stopped" => sub = Idle
    /\ main \in {"draining", "closing", "joining", "done"} => loop = "stopped"
    /\ closed => loop = "stopped"

LEMMA PairFitsNext == TypeInv /\ PairFits /\ [Next]_vars => PairFits'
  <1> SUFFICES ASSUME TypeInv, PairFits, [Next]_vars PROVE PairFits'
    OBVIOUS
  <1>1. part \in [Partition -> Seq(Item)] /\ Cap \in Nat
    BY QueueAssumption DEF TypeInv, TypeOK
  <1>2. ASSUME NEW j \in Job, Submit(j) PROVE PairFits'
    <2>1. PICK i, k : sub' = [pc |-> IF k = i THEN "offer" ELSE "checkFirst", job |-> j, first |-> i, second |-> k]
      BY <1>2 DEF Submit
    <2>2. sub'.pc \in {"offer", "checkFirst"} /\ (sub'.pc = "checkFirst" => sub'.first # sub'.second)
      BY <2>1
    <2> QED
      BY <2>2 DEF PairFits, SubmitNeverBlocks
  <1>3. CASE Offer \/ SendSecond
    <2>1. sub' = Idle
      BY <1>3 DEF Offer, SendSecond
    <2> QED
      BY <2>1 DEF PairFits, SubmitNeverBlocks, Idle
  <1>4. ASSUME sub.pc # "idle"
        PROVE  sub \in [pc: SubmitPCs, job: Job, first: Partition, second: Partition]
    BY <1>4, SubIsRecord
  <1>5. CASE CheckFirst
    <2>1. sub.pc = "checkFirst" /\ sub.first # sub.second /\ part' = part
      BY <1>5 DEF CheckFirst, Check, PairFits
    <2>2. sub' = Idle \/ (sub' = [sub EXCEPT !.pc = "checkSecond"] /\ HasRoom(sub.first))
      BY <1>5 DEF CheckFirst, Check
    <2>3. CASE sub' = Idle
      BY <2>3 DEF PairFits, SubmitNeverBlocks, Idle
    <2>4. CASE sub' = [sub EXCEPT !.pc = "checkSecond"] /\ HasRoom(sub.first)
      <3>1. sub'.pc = "checkSecond" /\ sub'.first = sub.first /\ sub'.second = sub.second
        BY <1>4, <2>1, <2>4
      <3> QED
        BY <2>1, <2>4, <3>1 DEF PairFits, SubmitNeverBlocks, HasRoom
    <2> QED
      BY <2>2, <2>3, <2>4
  <1>6. CASE CheckSecond
    <2>1. sub.pc = "checkSecond" /\ sub.first # sub.second /\ HasRoom(sub.first) /\ part' = part
      BY <1>6 DEF CheckSecond, Check, PairFits
    <2>2. sub' = Idle \/ (sub' = [sub EXCEPT !.pc = "sendFirst"] /\ HasRoom(sub.second))
      BY <1>6 DEF CheckSecond, Check
    <2>3. CASE sub' = Idle
      BY <2>3 DEF PairFits, SubmitNeverBlocks, Idle
    <2>4. CASE sub' = [sub EXCEPT !.pc = "sendFirst"] /\ HasRoom(sub.second)
      <3>1. sub'.pc = "sendFirst" /\ sub'.first = sub.first /\ sub'.second = sub.second
        BY <1>4, <2>1, <2>4
      <3> QED
        BY <2>1, <2>4, <3>1 DEF PairFits, SubmitNeverBlocks, HasRoom
    <2> QED
      BY <2>2, <2>3, <2>4
  <1>7. CASE SendFirst
    <2>1. /\ sub.pc = "sendFirst" /\ sub.first # sub.second /\ HasRoom(sub.second)
          /\ sub.first \in Partition /\ sub.second \in Partition
      BY <1>4, <1>7 DEF SendFirst, PairFits, SubmitNeverBlocks
    <2>2. sub'.pc = "sendSecond" /\ sub'.first = sub.first /\ sub'.second = sub.second
      BY <1>4, <1>7, <2>1 DEF SendFirst
    <2>3. part'[sub.second] = part[sub.second]
      BY <1>1, <1>7, <2>1 DEF SendFirst
    <2> QED
      BY <2>1, <2>2, <2>3 DEF PairFits, SubmitNeverBlocks, HasRoom
  <1>8. ASSUME UNCHANGED sub, \A q \in Partition : HasRoom(q) => HasRoom(q)' PROVE PairFits'
    <2>1. sub.pc \in SubmitPCs => sub.first \in Partition /\ sub.second \in Partition
      BY SubIsRecord DEF SubmitPCs
    <2> QED
      BY <1>8, <2>1 DEF PairFits, SubmitNeverBlocks, HasRoom, SubmitPCs
  <1>9. ASSUME NEW p \in Partition, Take(p) PROVE PairFits'
    <2>1. sub' = sub /\ part' = [part EXCEPT ![p] = Tail(@)] /\ part[p] # <<>>
      BY <1>9 DEF Take
    <2>2. ASSUME NEW q \in Partition, HasRoom(q) PROVE HasRoom(q)'
      <3>1. CASE q = p
        <4>1. part[p] \in Seq(Item) /\ part'[p] = Tail(part[p])
          BY <1>1, <2>1
        <4>2. Len(Tail(part[p])) = Len(part[p]) - 1 /\ Len(part[p]) \in Nat
          BY <2>1, <4>1
        <4> QED
          BY <1>1, <2>2, <3>1, <4>1, <4>2 DEF HasRoom
      <3>2. CASE q # p
        BY <1>1, <2>1, <2>2, <3>2 DEF HasRoom
      <3> QED
        BY <3>1, <3>2
    <2> QED
      BY <1>8, <2>1, <2>2
  <1>10. CASE \/ \E p \in Partition : Meet(p) \/ Succeed(p) \/ Retry(p) \/ Exhaust(p) \/ Release(p) \/ Exit(p)
              \/ Signal \/ Failure \/ LoopStop \/ Shutdown \/ UNCHANGED vars
    <2>1. UNCHANGED <<sub, part>>
      BY <1>10 DEF Meet, Succeed, Retry, Exhaust, Release, Exit, End, Signal, Failure, LoopStop, Shutdown,
                   LoopStopped, LoopStuck, Drain, CloseParts, Join, Main, queueVars, vars
    <2> QED
      BY <1>8, <2>1 DEF HasRoom
  <1> QED
    BY <1>2, <1>3, <1>5, <1>6, <1>7, <1>9, <1>10 DEF Next, SubmitStep, Worker, Over

LEMMA CloseNext == CloseAfterLoop /\ [Next]_vars => CloseAfterLoop'
  <1> SUFFICES ASSUME CloseAfterLoop, [Next]_vars PROVE CloseAfterLoop'
    OBVIOUS
  <1>1. CASE \E j \in Job : Submit(j)
    BY <1>1 DEF Submit, CloseAfterLoop
  <1>2. CASE SubmitStep
    <2>1. sub.pc # "idle" /\ UNCHANGED <<closed, loop, main>>
      BY <1>2 DEF SubmitStep, Offer, CheckFirst, CheckSecond, Check, SendFirst, SendSecond
    <2> QED
      BY <2>1 DEF CloseAfterLoop, Idle
  <1>3. CASE (\E p \in Partition : Worker(p)) \/ UNCHANGED vars
    <2>1. UNCHANGED <<sub, closed, loop, main>>
      BY <1>3 DEF Worker, Take, Meet, Succeed, Retry, Exhaust, Release, Exit, End, queueVars, vars
    <2> QED
      BY <2>1 DEF CloseAfterLoop
  <1>4. CASE LoopStop
    BY <1>4 DEF LoopStop, queueVars, CloseAfterLoop
  <1>5. CASE Signal \/ Failure \/ Shutdown
    BY <1>5 DEF Signal, Failure, Shutdown, LoopStopped, LoopStuck, Drain, CloseParts, Join, Main, CloseAfterLoop
  <1> QED
    BY <1>1, <1>2, <1>3, <1>4, <1>5 DEF Next, Over

\* Submit never blocks the tick: whatever the workers and the shutdown do
\* between the checks and the sends of submitPair, the sends find room.
THEOREM TickNeverBlocks == Spec => []SubmitNeverBlocks
  <1>1. Init => TypeInv /\ PairFits
    BY TypeInit DEF Init, Idle, PairFits, SubmitNeverBlocks
  <1>2. (TypeInv /\ PairFits) /\ [Next]_vars => (TypeInv /\ PairFits)'
    BY TypeNext, PairFitsNext
  <1>3. PairFits => SubmitNeverBlocks
    BY DEF PairFits
  <1> QED
    BY <1>1, <1>2, <1>3, PTL DEF Spec

\* No send ever meets a closed channel, on either path of the shutdown.
THEOREM NothingSentAfterClose == Spec => []NoSendOnClosed
  <1>1. Init => CloseAfterLoop
    BY DEF Init, CloseAfterLoop
  <1>2. CloseAfterLoop => NoSendOnClosed
    BY DEF CloseAfterLoop, NoSendOnClosed
  <1> QED
    BY <1>1, <1>2, CloseNext, PTL DEF Spec
-----------------------------------------------------------------------------
(* Order and exclusion per key: the queue implements KeyedQueue.           *)

Keys(j) == {Key[j], Key2[j]} \ {NoKey}
Ended == {"written", "compensated"}
Pending(j) == state[j] \in {"queued", "running"}

\* The n-th job accepted is j.
Acc(n, j) == n \in 1..Len(accepted) /\ accepted[n] = j

\* What a partition still has to do, in order: the item its worker has in
\* hand at place 0, those in its channel after it.
Busy(p) == wpc[p] \in {"meet", "run", "wait"}
At(p, i, x) ==
  \/ i = 0 /\ Busy(p) /\ held[p] = x
  \/ i \in 1..Len(part[p]) /\ part[p][i] = x

Sending(j) == sub.pc = "sendSecond" /\ sub.job = j

\* Each job is accepted once, and what is on a partition was accepted before.
AcceptedOnce ==
  /\ \A j \in Job : \A m, n \in Nat : Acc(m, j) /\ Acc(n, j) => m = n
  /\ \A j \in Job : \A n \in Nat : Acc(n, j) => state[j] \notin {"new", "dropped"}
  /\ \A j \in Job : state[j] \notin {"new", "dropped"} => \E n \in Nat : Acc(n, j)

\* A partition keeps the order in which its jobs were accepted.
InOrder ==
  \A p \in Partition : \A x, y \in Item : \A i, k, m, n \in Nat :
    At(p, i, x) /\ At(p, k, y) /\ i < k /\ Acc(m, x.job) /\ Acc(n, y.job) => m < n

\* No item is in two partitions, a job goes alone or in halves, and a job that
\* goes alone is where all its keys are.
Places ==
  /\ \A p \in Partition : \A x \in Item : \A i \in Nat : At(p, i, x) => state[x.job] \notin {"new", "dropped"}
  /\ \A p, q \in Partition : \A x \in Item : \A i, k \in Nat : At(p, i, x) /\ At(q, k, x) => p = q
  /\ \A p, q \in Partition : \A x, y \in Item : \A i, k \in Nat :
       At(p, i, x) /\ At(q, k, y) /\ x.job = y.job => x.paired = y.paired
  /\ \A p \in Partition : \A x \in Item : \A i \in Nat :
       At(p, i, x) /\ ~x.paired => x = Alone(x.job) /\ \A K \in Keys(x.job) : HashOf[K] = p

\* Submit works for a job not yet accepted, or sends the second half of the last.
Submitting ==
  /\ sub.pc \in {"offer", "checkFirst", "checkSecond", "sendFirst"} => state[sub.job] = "new"
  /\ sub.pc = "sendSecond" =>
       /\ Acc(Len(accepted), sub.job) /\ state[sub.job] = "queued"
       /\ \A p \in Partition : \A x \in Item : \A i \in Nat :
            At(p, i, x) /\ x.job = sub.job => x.paired /\ x.lead /\ p # sub.second
  /\ sub.pc # "idle" => \A K \in Keys(sub.job) : HashOf[K] \in {sub.first, sub.second}
  /\ sub.pc = "offer" => sub.first = sub.second

\* A job without an outcome is somewhere, and in the partition of each of its keys.
Present ==
  \A j \in Job : Pending(j) =>
    /\ \E p \in Partition : \E i \in Nat : \E x \in Item : At(p, i, x) /\ x.job = j
    /\ \A K \in Keys(j) :
         \/ \E i \in Nat : \E x \in Item : At(HashOf[K], i, x) /\ x.job = j
         \/ Sending(j) /\ sub.second = HashOf[K]

\* What a worker has in hand, and the outcome of it.
Hands ==
  /\ \A p \in Partition : \A x \in Item : \A i \in Nat : At(p, i, x) /\ i > 0 => state[x.job] = "queued"
  /\ \A p \in Partition :
       /\ wpc[p] = "run" => state[held[p].job] = "running" /\ (held[p].paired => held[p].lead)
       /\ wpc[p] = "meet" => held[p].paired /\ (held[p].lead => state[held[p].job] = "queued")
       /\ wpc[p] = "wait" => held[p].paired /\ ~held[p].lead
  /\ \A j \in done : state[j] \in Ended

\* The halves that did not arrive at the barrier.
LeadOut(j) == \E p \in Partition : \E i \in Nat : i > 0 /\ At(p, i, Half(j, TRUE))
TrailOut(j) == Sending(j) \/ \E p \in Partition : \E i \in Nat : i > 0 /\ At(p, i, Half(j, FALSE))
Barrier ==
  \A j \in Job :
    /\ LeadOut(j) /\ TrailOut(j) => arrived[j] = 0
    /\ LeadOut(j) \/ TrailOut(j) => arrived[j] <= 1
    /\ state[j] \in {"new", "dropped"} => arrived[j] = 0

\* All that was accepted under K before the job in hand has ended.
Cleared ==
  \A p \in Partition : \A x \in Item : \A K \in Keys(x.job) : \A e \in Job : \A m, n \in Nat :
    At(p, 0, x) /\ HashOf[K] = p /\ K \in Keys(e) /\ Acc(m, e) /\ Acc(n, x.job) /\ m < n
      => state[e] \in Ended

KeyInv == AcceptedOnce /\ InOrder /\ Places /\ Submitting /\ Present /\ Hands /\ Barrier /\ Cleared

-----------------------------------------------------------------------------
(* What the steps do to the order of acceptance and to the partitions.     *)

LEMMA ItemFacts ==
    /\ \A j \in Job : /\ Alone(j) \in Item /\ Alone(j).job = j /\ ~Alone(j).paired
                      /\ \A l \in BOOLEAN : Half(j, l) \in Item /\ Half(j, l).job = j
                                            /\ Half(j, l).paired /\ (Half(j, l).lead <=> l)
    /\ \A x \in Item : x.job \in Job /\ (x.paired => x = Half(x.job, x.lead))
  BY DEF Alone, Half, Item

LEMMA KeyPlace == \A j \in Job : \A K \in Keys(j) : HashOf[K] \in Partition
  BY QueueAssumption DEF Keys

LEMMA AtFacts ==
    ASSUME TypeInv
    PROVE  /\ \A p \in Partition : part[p] \in Seq(Item) /\ Len(part[p]) \in Nat
           /\ \A p \in Partition : Busy(p) => held[p] \in Item /\ held[p].job \in Job /\ At(p, 0, held[p])
           /\ \A p \in Partition : \A x : At(p, 0, x) <=> Busy(p) /\ held[p] = x
           /\ accepted \in Seq(Job) /\ Len(accepted) \in Nat
  <1>1. \A p \in Partition : Busy(p) => held[p] \in Item
    BY DEF TypeInv, HandsFull, Busy
  <1> QED
    BY <1>1, ItemFacts DEF TypeInv, TypeOK, At

LEMMA AccSame == ASSUME UNCHANGED accepted PROVE \A n, j : Acc(n, j)' <=> Acc(n, j)
  BY DEF Acc

LEMMA AccAppend ==
    ASSUME TypeInv, NEW j \in Job, accepted' = Append(accepted, j)
    PROVE  /\ Len(accepted') = Len(accepted) + 1 /\ Len(accepted) \in Nat
           /\ \A n \in Nat : \A k : Acc(n, k)' <=> Acc(n, k) \/ (n = Len(accepted) + 1 /\ k = j)
           /\ \A n \in Nat : \A k : Acc(n, k) => n <= Len(accepted)
  <1>1. accepted \in Seq(Job) /\ Len(accepted) \in Nat
    BY AtFacts
  <1> QED
    BY <1>1 DEF Acc

LEMMA AtSame ==
    ASSUME UNCHANGED part, \A p \in Partition : (Busy(p)' <=> Busy(p)) /\ (Busy(p) => held'[p] = held[p])
    PROVE  \A p \in Partition : \A i, x : At(p, i, x)' <=> At(p, i, x)
  BY DEF At

\* A worker that ends with what it has in hand.
LEMMA AtDone ==
    ASSUME UNCHANGED <<part, held>>, NEW p \in Partition, ~Busy(p)',
           \A q \in Partition \ {p} : Busy(q)' <=> Busy(q)
    PROVE  \A q \in Partition : \A i \in Nat : \A x : At(q, i, x)' <=> At(q, i, x) /\ (q # p \/ i > 0)
  BY DEF At

LEMMA AtAppend ==
    ASSUME TypeInv, NEW p \in Partition, NEW it \in Item, UNCHANGED <<wpc, held>>,
           part' = [part EXCEPT ![p] = Append(@, it)]
    PROVE  \A q \in Partition : \A i \in Nat : \A x :
             At(q, i, x)' <=> At(q, i, x) \/ (q = p /\ i = Len(part[p]) + 1 /\ x = it)
  <1>1. part[p] \in Seq(Item) /\ part \in [Partition -> Seq(Item)] /\ Len(part[p]) \in Nat
    BY AtFacts DEF TypeInv, TypeOK
  <1>2. part'[p] = Append(part[p], it) /\ \A q \in Partition \ {p} : part'[q] = part[q]
    BY <1>1
  <1>3. \A q \in Partition : Busy(q)' <=> Busy(q)
    BY DEF Busy
  <1> QED
    BY <1>1, <1>2, <1>3 DEF At

\* A worker that takes the head of its channel moves everything one place.
LEMMA AtTake ==
    ASSUME TypeInv, NEW p \in Partition, Take(p)
    PROVE  /\ ~Busy(p) /\ Busy(p)' /\ Head(part[p]) \in Item /\ At(p, 1, Head(part[p])) /\ held'[p] = Head(part[p])
           /\ \A i \in Nat : \A x : At(p, i, x)' <=> At(p, i + 1, x)
           /\ \A q \in Partition \ {p} : \A i \in Nat : \A x : At(q, i, x)' <=> At(q, i, x)
           /\ \A q \in Partition \ {p} : wpc'[q] = wpc[q] /\ held'[q] = held[q]
  <1>1. part[p] \in Seq(Item) /\ part \in [Partition -> Seq(Item)] /\ part[p] # <<>>
        /\ held \in [Partition -> Item \cup {None}] /\ wpc \in [Partition -> WorkerPC]
    BY DEF Take, TypeInv, TypeOK
  <1>2. Head(part[p]) \in Item /\ Len(part[p]) \in Nat \ {0} /\ Head(part[p]) = part[p][1]
    BY <1>1
  <1>3. part'[p] = Tail(part[p]) /\ held'[p] = Head(part[p]) /\ wpc'[p] \in {"meet", "run"}
    BY <1>1 DEF Take, Begin
  <1>4. /\ Len(Tail(part[p])) = Len(part[p]) - 1
        /\ \A i \in 1..(Len(part[p]) - 1) : Tail(part[p])[i] = part[p][i + 1]
    BY <1>1
  <1>5. ~Busy(p) /\ Busy(p)'
    BY <1>3 DEF Take, Busy
  <1>6. \A i \in Nat : \A x : At(p, i, x)' <=> At(p, i + 1, x)
    BY <1>2, <1>3, <1>4, <1>5 DEF At
  <1>7. \A q \in Partition \ {p} : part'[q] = part[q] /\ wpc'[q] = wpc[q] /\ held'[q] = held[q]
    BY <1>1 DEF Take, Begin
  <1>8. \A q \in Partition \ {p} : \A i \in Nat : \A x : At(q, i, x)' <=> At(q, i, x)
    BY <1>7 DEF At, Busy
  <1> QED
    BY <1>2, <1>3, <1>5, <1>6, <1>7, <1>8 DEF At
-----------------------------------------------------------------------------
(* Steps that move nothing: the workers' hands and channels stay, and at   *)
(* most a job not yet accepted is dropped.                                 *)

DropsOne ==
  \/ UNCHANGED state
  \/ \E j \in Job : state[j] = "new" /\ state' = [state EXCEPT ![j] = "dropped"]

SameSending ==
  \A j \in Job : (Sending(j)' <=> Sending(j)) /\ (Sending(j) => sub'.second = sub.second)

LEMMA QuietStep ==
    ASSUME TypeInv, KeyInv, DropsOne, SameSending, Submitting', Hands',
           UNCHANGED <<accepted, arrived>>,
           \A p \in Partition : \A i, x : At(p, i, x)' <=> At(p, i, x)
    PROVE  KeyInv'
  <1>0. AcceptedOnce /\ InOrder /\ Places /\ Present /\ Barrier /\ Cleared
    BY DEF KeyInv
  <1>1. \A n, j : Acc(n, j)' <=> Acc(n, j)
    BY AccSame
  <1>2. \A j \in Job : \/ state'[j] = state[j]
                       \/ state[j] = "new" /\ state'[j] = "dropped"
    BY DEF DropsOne, TypeInv, TypeOK
  <1>3. AcceptedOnce'
    BY <1>0, <1>1, <1>2 DEF AcceptedOnce
  <1>4. InOrder'
    BY <1>0, <1>1 DEF InOrder
  <1>5. Places'
    BY <1>0, <1>2, ItemFacts DEF Places
  <1>6. Present'
    <2> SUFFICES ASSUME NEW j \in Job, Pending(j)'
                 PROVE  /\ \E p \in Partition : \E i \in Nat : \E x \in Item : At(p, i, x)' /\ x.job = j
                        /\ \A K \in Keys(j) :
                             \/ \E i \in Nat : \E x \in Item : At(HashOf[K], i, x)' /\ x.job = j
                             \/ Sending(j)' /\ sub'.second = HashOf[K]
      BY DEF Present
    <2>1. Pending(j)
      BY <1>2 DEF Pending
    <2>2. \E p \in Partition : \E i \in Nat : \E x \in Item : At(p, i, x) /\ x.job = j
      BY <1>0, <2>1 DEF Present
    <2>3. ASSUME NEW K \in Keys(j)
          PROVE  \/ \E i \in Nat : \E x \in Item : At(HashOf[K], i, x)' /\ x.job = j
                 \/ Sending(j)' /\ sub'.second = HashOf[K]
      <3>1. \/ \E i \in Nat : \E x \in Item : At(HashOf[K], i, x) /\ x.job = j
            \/ Sending(j) /\ sub.second = HashOf[K]
        BY <1>0, <2>1 DEF Present
      <3>2. HashOf[K] \in Partition
        BY KeyPlace
      <3> QED
        BY <3>1, <3>2 DEF SameSending
    <2> QED
      BY <2>2, <2>3
  <1>7. Barrier'
    <2> SUFFICES ASSUME NEW j \in Job
                 PROVE  /\ LeadOut(j)' <=> LeadOut(j)
                        /\ TrailOut(j)' <=> TrailOut(j)
                        /\ state'[j] \in {"new", "dropped"} => state[j] \in {"new", "dropped"}
      BY <1>0 DEF Barrier
    <2> QED
      BY <1>2 DEF LeadOut, TrailOut, SameSending
  <1>8. Cleared'
    BY <1>0, <1>1, <1>2 DEF Cleared, Ended
  <1> QED
    BY <1>3, <1>4, <1>5, <1>6, <1>7, <1>8 DEF KeyInv

LEMMA IdleSends == sub = Idle => \A j \in Job : ~Sending(j)
  BY DEF Idle, Sending

\* What the loop looks at before it sends.
LEMMA LooksQuiet ==
    ASSUME TypeInv, KeyInv,
           (\E j \in Job : Submit(j)) \/ CheckFirst \/ CheckSecond \/ (Offer /\ ~HasRoom(sub.first))
    PROVE  KeyInv'
  <1>0. Submitting /\ Hands
    BY DEF KeyInv
  <1>1. UNCHANGED <<part, wpc, held, arrived, done, accepted>>
    BY DEF Submit, CheckFirst, CheckSecond, Check, Offer, DropFull, workerVars
  <1>2. \A p \in Partition : \A i, x : At(p, i, x)' <=> At(p, i, x)
    BY <1>1, AtSame DEF Busy
  <1>3. ASSUME NEW j \in Job, Submit(j) PROVE DropsOne /\ SameSending /\ Submitting'
    <2>1. /\ sub = Idle /\ state[j] = "new" /\ state' = state
          /\ \E i, k : /\ i = IF Key[j] = NoKey THEN (turn + 1) % NumParts ELSE HashOf[Key[j]]
                       /\ k = IF Key2[j] = NoKey THEN i ELSE HashOf[Key2[j]]
                       /\ sub' = [pc |-> IF k = i THEN "offer" ELSE "checkFirst", job |-> j, first |-> i, second |-> k]
      BY <1>3 DEF Submit
    <2>2. PICK i, k : /\ i = IF Key[j] = NoKey THEN (turn + 1) % NumParts ELSE HashOf[Key[j]]
                      /\ k = IF Key2[j] = NoKey THEN i ELSE HashOf[Key2[j]]
                      /\ sub' = [pc |-> IF k = i THEN "offer" ELSE "checkFirst", job |-> j, first |-> i, second |-> k]
      BY <2>1
    <2>3. /\ sub'.pc \in {"offer", "checkFirst"} /\ sub'.job = j /\ sub'.first = i /\ sub'.second = k
          /\ (sub'.pc = "offer" => i = k)
      BY <2>2
    <2>4. \A K \in Keys(j) : HashOf[K] \in {i, k}
      BY <2>2 DEF Keys
    <2>5. Submitting'
      BY <2>1, <2>3, <2>4 DEF Submitting
    <2> QED
      BY <2>1, <2>3, <2>5, IdleSends DEF DropsOne, SameSending, Sending
  <1>4. ASSUME CheckFirst \/ CheckSecond \/ (Offer /\ ~HasRoom(sub.first))
        PROVE  DropsOne /\ SameSending /\ Submitting'
    <2>1. sub.pc \in {"checkFirst", "checkSecond", "offer"} /\ state[sub.job] = "new"
      BY <1>0, <1>4 DEF CheckFirst, CheckSecond, Check, Offer, Submitting
    <2>2. sub \in [pc: SubmitPCs, job: Job, first: Partition, second: Partition] /\ sub.job \in Job
      BY <2>1, SubIsRecord
    <2>3. \/ sub' = Idle /\ state' = [state EXCEPT ![sub.job] = "dropped"]
          \/ sub.pc # "offer" /\ state' = state /\ \E pc \in {"checkSecond", "sendFirst"} : sub' = [sub EXCEPT !.pc = pc]
      BY <1>4 DEF CheckFirst, CheckSecond, Check, Offer, DropFull
    <2>4. CASE sub' = Idle /\ state' = [state EXCEPT ![sub.job] = "dropped"]
      <3>1. sub'.pc = "idle"
        BY <2>4 DEF Idle
      <3> QED
        BY <2>1, <2>2, <2>4, <3>1 DEF DropsOne, SameSending, Sending, Submitting
    <2>5. CASE sub.pc # "offer" /\ state' = state /\ \E pc \in {"checkSecond", "sendFirst"} : sub' = [sub EXCEPT !.pc = pc]
      <3>1. sub'.pc \in {"checkSecond", "sendFirst"} /\ sub'.job = sub.job /\ sub'.first = sub.first /\ sub'.second = sub.second
        BY <2>2, <2>5
      <3>2. Submitting'
        BY <1>0, <2>1, <2>5, <3>1 DEF Submitting
      <3> QED
        BY <2>1, <2>5, <3>1, <3>2 DEF DropsOne, SameSending, Sending
    <2> QED
      BY <2>3, <2>4, <2>5
  <1>5. DropsOne /\ SameSending /\ Submitting'
    BY <1>3, <1>4
  <1>6. Hands'
    <2>1. \A j \in Job : \/ state'[j] = state[j]
                         \/ state[j] = "new" /\ state'[j] = "dropped"
      BY <1>5 DEF DropsOne, TypeInv, TypeOK
    <2>2. \A p \in Partition : Busy(p) => held[p].job \in Job
      BY AtFacts
    <2>3. \A x \in Item : x.job \in Job
      BY ItemFacts
    <2>4. done \subseteq Job
      BY DEF TypeInv, TypeOK
    <2> QED
      BY <1>0, <1>1, <1>2, <2>1, <2>2, <2>3, <2>4 DEF Hands, Busy, Ended
  <1> QED
    BY <1>1, <1>2, <1>5, <1>6, QuietStep

\* Attempts, exits and the goroutines of the shutdown.
LEMMA RestQuiet ==
    ASSUME TypeInv, KeyInv,
           \/ \E p \in Partition : Retry(p) \/ Exit(p)
           \/ Signal \/ Failure \/ LoopStop \/ Shutdown \/ UNCHANGED vars
    PROVE  KeyInv'
  <1>1. UNCHANGED <<part, sub, held, arrived, done, accepted, state>>
    BY DEF Retry, Exit, Signal, Failure, LoopStop, Shutdown, LoopStopped, LoopStuck, Drain, CloseParts, Join,
           Main, queueVars, workerVars, vars
  <1>2. \A p \in Partition : wpc'[p] = wpc[p] \/ (wpc[p] = "take" /\ wpc'[p] = "exited")
    BY DEF Retry, Exit, Signal, Failure, LoopStop, Shutdown, LoopStopped, LoopStuck, Drain, CloseParts, Join,
           Main, queueVars, workerVars, vars, TypeInv, TypeOK
  <1>3. \A p \in Partition : \A i, x : At(p, i, x)' <=> At(p, i, x)
    BY <1>1, <1>2, AtSame DEF Busy
  <1>4. DropsOne /\ SameSending
    BY <1>1 DEF DropsOne, SameSending, Sending
  <1>5. Submitting'
    BY <1>1, <1>3 DEF KeyInv, Submitting, Acc
  <1>6. Hands'
    BY <1>1, <1>2, <1>3 DEF KeyInv, Hands
  <1> QED
    BY <1>1, <1>3, <1>4, <1>5, <1>6, QuietStep
-----------------------------------------------------------------------------
(* A job is accepted, alone or with its first half.                        *)

LEMMA AcceptStep ==
    ASSUME TypeInv, KeyInv, NEW j \in Job, NEW q \in Partition, NEW it \in Item, it.job = j,
           state[j] = "new", sub.pc # "sendSecond", Accept(j),
           part' = [part EXCEPT ![q] = Append(@, it)],
           UNCHANGED <<wpc, held, arrived, done>>,
           \/ it = Alone(j) /\ sub'.pc = "idle" /\ \A K \in Keys(j) : HashOf[K] = q
           \/ /\ it = Half(j, TRUE) /\ sub'.pc = "sendSecond" /\ sub'.job = j /\ sub'.first = q
              /\ sub'.second # q /\ \A K \in Keys(j) : HashOf[K] \in {q, sub'.second}
    PROVE  KeyInv'
  <1>0. AcceptedOnce /\ InOrder /\ Places /\ Submitting /\ Present /\ Hands /\ Barrier /\ Cleared
    BY DEF KeyInv
  <1>a. PICK last \in Nat, place \in Nat : last = Len(accepted) + 1 /\ place = Len(part[q]) + 1
    BY AtFacts
  <1>b. accepted' = Append(accepted, j)
    BY DEF Accept
  <1>1. /\ Len(accepted') = last /\ place > 0
        /\ \A n \in Nat : \A k : Acc(n, k)' <=> Acc(n, k) \/ (n = last /\ k = j)
        /\ \A n \in Nat : \A k : Acc(n, k) => n < last
    BY <1>a, <1>b, AccAppend, AtFacts
  <1>2. \A p \in Partition : \A i \in Nat : \A x :
          At(p, i, x)' <=> At(p, i, x) \/ (p = q /\ i = place /\ x = it)
    BY <1>a, AtAppend
  <1>3. state'[j] = "queued" /\ \A k \in Job \ {j} : state'[k] = state[k]
    BY DEF Accept, TypeInv, TypeOK
  <1>4. /\ \A n \in Nat : ~Acc(n, j)
        /\ \A p \in Partition : \A i \in Nat : \A x \in Item : At(p, i, x) => x.job # j
    BY <1>0 DEF AcceptedOnce, Places
  <1>5. \A p \in Partition : Busy(p) => held[p].job # j /\ held[p].job \in Job
    BY <1>4, AtFacts
  <1>6. \A i \in Nat : \A x : At(q, i, x) => i < place
    BY <1>a, AtFacts DEF At
  <1>7. \A k \in Job : ~Sending(k)
    BY DEF Sending
  <1>8. AcceptedOnce'
    BY <1>0, <1>1, <1>3, <1>4 DEF AcceptedOnce
  <1>9. InOrder'
    <2> SUFFICES ASSUME NEW p \in Partition, NEW x \in Item, NEW y \in Item,
                        NEW i \in Nat, NEW k \in Nat, NEW m \in Nat, NEW n \in Nat,
                        At(p, i, x)', At(p, k, y)', i < k, Acc(m, x.job)', Acc(n, y.job)'
                 PROVE  m < n
      BY DEF InOrder
    <2>1. CASE At(p, k, y)
      <3>1. At(p, i, x)
        BY <1>2, <1>6, <2>1
      <3>2. Acc(m, x.job) /\ Acc(n, y.job)
        BY <1>1, <1>4, <2>1, <3>1
      <3> QED
        BY <1>0, <2>1, <3>1, <3>2 DEF InOrder
    <2>2. CASE p = q /\ k = place /\ y = it
      <3>1. n = last /\ At(p, i, x)
        BY <1>1, <1>2, <1>4, <2>2
      <3>2. Acc(m, x.job)
        BY <1>1, <1>4, <3>1
      <3> QED
        BY <1>1, <3>1, <3>2
    <2> QED
      BY <1>2, <2>1, <2>2
  <1>10. Places'
    <2>1. \A p \in Partition : \A x \in Item : \A i \in Nat : At(p, i, x)' => state'[x.job] \notin {"new", "dropped"}
      BY <1>0, <1>2, <1>3, <1>4, ItemFacts DEF Places
    <2>2. \A p, r \in Partition : \A x \in Item : \A i, k \in Nat : At(p, i, x)' /\ At(r, k, x)' => p = r
      BY <1>0, <1>2, <1>4 DEF Places
    <2>3. \A p, r \in Partition : \A x, y \in Item : \A i, k \in Nat :
            At(p, i, x)' /\ At(r, k, y)' /\ x.job = y.job => x.paired = y.paired
      BY <1>0, <1>2, <1>4 DEF Places
    <2>4. \A p \in Partition : \A x \in Item : \A i \in Nat :
            At(p, i, x)' /\ ~x.paired => x = Alone(x.job) /\ \A K \in Keys(x.job) : HashOf[K] = p
      <3>1. ~it.paired => it = Alone(it.job) /\ \A K \in Keys(it.job) : HashOf[K] = q
        BY ItemFacts
      <3> QED
        BY <1>0, <1>2, <3>1 DEF Places
    <2> QED
      BY <2>1, <2>2, <2>3, <2>4 DEF Places
  <1>11. Submitting'
    <2>1. CASE it = Alone(j) /\ sub'.pc = "idle"
      BY <2>1 DEF Submitting
    <2>2. CASE /\ it = Half(j, TRUE) /\ sub'.pc = "sendSecond" /\ sub'.job = j /\ sub'.first = q
               /\ sub'.second # q /\ \A K \in Keys(j) : HashOf[K] \in {q, sub'.second}
      <3>1. \A p \in Partition : \A x \in Item : \A i \in Nat :
              At(p, i, x)' /\ x.job = j => x.paired /\ x.lead /\ p # sub'.second
        <4>1. it.paired /\ it.lead
          BY <2>2, ItemFacts
        <4>2. \A p \in Partition : \A x \in Item : \A i \in Nat : At(p, i, x)' /\ x.job = j => x = it /\ p = q
          BY <1>2, <1>4
        <4> QED
          BY <2>2, <4>1, <4>2
      <3>2. accepted'[Len(accepted')] = j /\ Len(accepted') \in 1..Len(accepted')
        BY <1>a, <1>b, AtFacts
      <3> QED
        BY <1>3, <2>2, <3>1, <3>2 DEF Submitting, Acc
    <2> QED
      BY <2>1, <2>2
  <1>12. Present'
    <2> SUFFICES ASSUME NEW k \in Job, Pending(k)'
                 PROVE  /\ \E p \in Partition : \E i \in Nat : \E x \in Item : At(p, i, x)' /\ x.job = k
                        /\ \A K \in Keys(k) :
                             \/ \E i \in Nat : \E x \in Item : At(HashOf[K], i, x)' /\ x.job = k
                             \/ Sending(k)' /\ sub'.second = HashOf[K]
      BY DEF Present
    <2>1. CASE k = j
      <3>1. At(q, place, it)'
        BY <1>1, <1>2
      <3>2. \A K \in Keys(j) : HashOf[K] = q \/ (Sending(j)' /\ sub'.second = HashOf[K])
        BY DEF Sending
      <3> QED
        BY <2>1, <3>1, <3>2
    <2>2. CASE k # j
      <3>1. Pending(k)
        BY <1>3, <2>2 DEF Pending
      <3>2. \E p \in Partition : \E i \in Nat : \E x \in Item : At(p, i, x) /\ x.job = k
        BY <1>0, <3>1 DEF Present
      <3>3. \A K \in Keys(k) : \E i \in Nat : \E x \in Item : At(HashOf[K], i, x) /\ x.job = k
        BY <1>0, <1>7, <3>1 DEF Present
      <3> QED
        BY <1>2, <3>2, <3>3, KeyPlace
    <2> QED
      BY <2>1, <2>2
  <1>13. Hands'
    <2>1. \A p \in Partition : \A x \in Item : \A i \in Nat : At(p, i, x)' /\ i > 0 => state'[x.job] = "queued"
      BY <1>0, <1>2, <1>3, <1>4, ItemFacts DEF Hands
    <2>2. \A p \in Partition :
            /\ wpc'[p] = "run" => state'[held'[p].job] = "running" /\ (held'[p].paired => held'[p].lead)
            /\ wpc'[p] = "meet" => held'[p].paired /\ (held'[p].lead => state'[held'[p].job] = "queued")
            /\ wpc'[p] = "wait" => held'[p].paired /\ ~held'[p].lead
      BY <1>0, <1>3, <1>5 DEF Hands, Busy
    <2>3. \A k \in done' : state'[k] \in Ended
      BY <1>0, <1>3 DEF Hands, Ended, TypeInv, TypeOK
    <2> QED
      BY <2>1, <2>2, <2>3 DEF Hands
  <1>14. Barrier'
    <2> SUFFICES ASSUME NEW k \in Job
                 PROVE  /\ LeadOut(k)' /\ TrailOut(k)' => arrived[k] = 0
                        /\ LeadOut(k)' \/ TrailOut(k)' => arrived[k] <= 1
                        /\ state'[k] \in {"new", "dropped"} => arrived[k] = 0
      BY DEF Barrier
    <2>1. CASE k = j
      BY <1>0, <1>3, <2>1 DEF Barrier
    <2>2. CASE k # j
      <3>1. \A l \in BOOLEAN : \A p \in Partition : \A i \in Nat : At(p, i, Half(k, l))' <=> At(p, i, Half(k, l))
        BY <1>2, <2>2, ItemFacts
      <3>2. (LeadOut(k)' <=> LeadOut(k)) /\ (TrailOut(k)' <=> TrailOut(k))
        BY <1>7, <2>2, <3>1 DEF LeadOut, TrailOut, Sending
      <3> QED
        BY <1>0, <1>3, <2>2, <3>2 DEF Barrier
    <2> QED
      BY <2>1, <2>2
  <1>15. Cleared'
    <2> SUFFICES ASSUME NEW p \in Partition, NEW x \in Item, NEW K \in Keys(x.job), NEW e \in Job,
                        NEW m \in Nat, NEW n \in Nat, At(p, 0, x)', HashOf[K] = p, K \in Keys(e),
                        Acc(m, e)', Acc(n, x.job)', m < n
                 PROVE  state'[e] \in Ended
      BY DEF Cleared
    <2>1. At(p, 0, x) /\ x.job # j /\ x.job \in Job
      BY <1>1, <1>2, <1>4, ItemFacts
    <2>2. Acc(n, x.job)
      BY <1>1, <2>1
    <2>3. Acc(m, e) /\ e # j
      BY <1>1, <1>4, <2>2
    <2>4. state[e] \in Ended
      BY <1>0, <2>1, <2>2, <2>3 DEF Cleared
    <2> QED
      BY <1>3, <2>3, <2>4
  <1> QED
    BY <1>8, <1>9, <1>10, <1>11, <1>12, <1>13, <1>14, <1>15 DEF KeyInv

LEMMA OfferAccepts == ASSUME TypeInv, KeyInv, Offer, HasRoom(sub.first) PROVE KeyInv'
  <1>1. /\ sub.pc = "offer" /\ state[sub.job] = "new" /\ sub.first = sub.second
        /\ \A K \in Keys(sub.job) : HashOf[K] \in {sub.first, sub.second}
    BY DEF Offer, KeyInv, Submitting
  <1>2. sub.job \in Job /\ sub.first \in Partition
    BY <1>1, SubIsRecord
  <1>3. PICK j \in Job, q \in Partition : j = sub.job /\ q = sub.first
    BY <1>2
  <1>4. /\ part' = [part EXCEPT ![q] = Append(@, Alone(j))] /\ Accept(j) /\ sub' = Idle
        /\ UNCHANGED <<wpc, held, arrived, done>>
    BY <1>3 DEF Offer, workerVars
  <1>5. Alone(j) \in Item /\ Alone(j).job = j /\ sub'.pc = "idle" /\ sub.pc # "sendSecond" /\ state[j] = "new"
        /\ \A K \in Keys(j) : HashOf[K] = q
    BY <1>1, <1>3, <1>4, ItemFacts DEF Idle
  <1> QED
    BY <1>4, <1>5, AcceptStep

LEMMA FirstHalf == ASSUME TypeInv, KeyInv, PairFits, SendFirst PROVE KeyInv'
  <1>1. /\ sub.pc = "sendFirst" /\ state[sub.job] = "new"
        /\ sub.first # sub.second /\ \A K \in Keys(sub.job) : HashOf[K] \in {sub.first, sub.second}
    BY DEF SendFirst, KeyInv, Submitting, PairFits
  <1>2. sub.job \in Job /\ sub.first \in Partition
        /\ sub \in [pc: SubmitPCs, job: Job, first: Partition, second: Partition]
    BY <1>1, SubIsRecord
  <1>3. PICK j \in Job, q \in Partition : j = sub.job /\ q = sub.first
    BY <1>2
  <1>4. /\ part' = [part EXCEPT ![q] = Append(@, Half(j, TRUE))] /\ Accept(j)
        /\ UNCHANGED <<wpc, held, arrived, done>>
    BY <1>3 DEF SendFirst, workerVars
  <1>5. sub'.pc = "sendSecond" /\ sub'.job = j /\ sub'.first = q /\ sub'.second = sub.second
    BY <1>2, <1>3 DEF SendFirst
  <1>6. Half(j, TRUE) \in Item /\ Half(j, TRUE).job = j /\ sub.pc # "sendSecond" /\ state[j] = "new"
    BY <1>1, <1>3, ItemFacts
  <1> QED
    BY <1>1, <1>3, <1>4, <1>5, <1>6, AcceptStep

LEMMA SecondHalf == ASSUME TypeInv, KeyInv, SendSecond PROVE KeyInv'
  <1>0. AcceptedOnce /\ InOrder /\ Places /\ Submitting /\ Present /\ Hands /\ Barrier /\ Cleared
    BY DEF KeyInv
  <1>1. sub.pc = "sendSecond" /\ sub.job \in Job /\ sub.second \in Partition
    BY SubIsRecord DEF SendSecond
  <1>2. PICK j \in Job, q \in Partition : j = sub.job /\ q = sub.second
    BY <1>1
  <1>a. PICK it \in Item : it = Half(j, FALSE)
    BY ItemFacts
  <1>b. PICK place \in Nat : place = Len(part[q]) + 1 /\ place > 0
    <2>1. Len(part[q]) \in Nat
      BY AtFacts
    <2> QED
      BY <2>1
  <1>3. /\ part' = [part EXCEPT ![q] = Append(@, it)] /\ sub'.pc = "idle"
        /\ UNCHANGED <<wpc, held, arrived, done, accepted, state>>
    BY <1>a, <1>2 DEF SendSecond, workerVars, Idle
  <1>4. it.job = j /\ it.paired /\ ~it.lead
    BY <1>a, ItemFacts
  <1>5. /\ \A p \in Partition : \A i \in Nat : \A x :
             At(p, i, x)' <=> At(p, i, x) \/ (p = q /\ i = place /\ x = it)
        /\ place > 0
        /\ \A i \in Nat : \A x : At(q, i, x) => i < place
    <2>1. part' = [part EXCEPT ![q] = Append(@, it)] /\ UNCHANGED <<wpc, held>>
      BY <1>3
    <2>2. \A i \in Nat : \A x : At(q, i, x) => i < place
      BY <1>b, AtFacts DEF At
    <2>4. \A p \in Partition : \A i \in Nat : \A x :
             At(p, i, x)' <=> At(p, i, x) \/ (p = q /\ i = place /\ x = it)
      <3>1. it \in Item /\ q \in Partition
        BY <1>a, <1>2
      <3>2. \A p \in Partition : \A i \in Nat : \A x :
              At(p, i, x)' <=> At(p, i, x) \/ (p = q /\ i = Len(part[q]) + 1 /\ x = it)
        BY <2>1, <3>1, AtAppend
      <3> QED
        BY <1>b, <3>2
    <2> QED
      BY <1>b, <2>2, <2>4
  <1>6. /\ Acc(Len(accepted), j) /\ state[j] = "queued" /\ Len(accepted) \in Nat
        /\ \A p \in Partition : \A x \in Item : \A i \in Nat :
             At(p, i, x) /\ x.job = j => x.paired /\ x.lead /\ p # q
        /\ \A K \in Keys(j) : HashOf[K] \in {sub.first, q}
    BY <1>0, <1>1, <1>2, AtFacts DEF Submitting
  <1>7. \A n, k : Acc(n, k)' <=> Acc(n, k)
    BY <1>3, AccSame
  <1>8. \A p \in Partition : \A i \in Nat : ~At(p, i, it)
    BY <1>4, <1>6
  <1>9. (\A k \in Job : Sending(k) <=> k = j) /\ (\A k \in Job : ~Sending(k)')
    BY <1>1, <1>2, <1>3 DEF Sending
  <1>10. AcceptedOnce'
    BY <1>0, <1>3, <1>7 DEF AcceptedOnce
  <1>11. InOrder'
    <2> SUFFICES ASSUME NEW p \in Partition, NEW x \in Item, NEW y \in Item,
                        NEW i \in Nat, NEW k \in Nat, NEW m \in Nat, NEW n \in Nat,
                        At(p, i, x)', At(p, k, y)', i < k, Acc(m, x.job)', Acc(n, y.job)'
                 PROVE  m < n
      BY DEF InOrder
    <2>0. Acc(m, x.job) /\ Acc(n, y.job) /\ x.job \in Job
      BY <1>7, ItemFacts
    <2>1. CASE At(p, k, y)
      <3>1. At(p, i, x)
        BY <1>5, <2>1
      <3> QED
        BY <1>0, <2>0, <2>1, <3>1 DEF InOrder
    <2>2. CASE p = q /\ k = place /\ y = it
      <3>1. At(p, i, x)
        BY <1>5, <2>2
      <3>2. n = Len(accepted)
        BY <1>0, <1>4, <1>6, <2>0, <2>2 DEF AcceptedOnce
      <3>3. m <= Len(accepted)
        BY <2>0, <1>6 DEF Acc
      <3>4. m # n
        BY <1>4, <1>6, <2>0, <2>2, <3>1 DEF Acc
      <3> QED
        BY <1>6, <3>2, <3>3, <3>4
    <2> QED
      BY <1>5, <2>1, <2>2
  <1>12. Places'
    <2>1. \A p \in Partition : \A x \in Item : \A i \in Nat : At(p, i, x)' => state'[x.job] \notin {"new", "dropped"}
      BY <1>0, <1>3, <1>4, <1>5, <1>6 DEF Places
    <2>2. \A p, r \in Partition : \A x \in Item : \A i, k \in Nat : At(p, i, x)' /\ At(r, k, x)' => p = r
      BY <1>0, <1>5, <1>8 DEF Places
    <2>3. \A p, r \in Partition : \A x, y \in Item : \A i, k \in Nat :
            At(p, i, x)' /\ At(r, k, y)' /\ x.job = y.job => x.paired = y.paired
      <3> SUFFICES ASSUME NEW p \in Partition, NEW r \in Partition, NEW x \in Item, NEW y \in Item,
                          NEW i \in Nat, NEW k \in Nat, At(p, i, x)', At(r, k, y)', x.job = y.job
                   PROVE  x.paired = y.paired
        OBVIOUS
      <3>1. CASE At(p, i, x) /\ At(r, k, y)
        BY <1>0, <3>1 DEF Places
      <3>2. CASE x = it \/ y = it
        <4>1. x.job = j /\ y.job = j
          BY <1>4, <3>2
        <4>2. (At(p, i, x) => x.paired) /\ (At(r, k, y) => y.paired)
          BY <1>6, <4>1
        <4>3. x.paired /\ y.paired
          BY <1>4, <1>5, <4>2
        <4>4. x.paired \in BOOLEAN /\ y.paired \in BOOLEAN
          BY DEF Item
        <4> QED
          BY <4>3, <4>4
      <3> QED
        BY <1>5, <3>1, <3>2
    <2>4. \A p \in Partition : \A x \in Item : \A i \in Nat :
            At(p, i, x)' /\ ~x.paired => x = Alone(x.job) /\ \A K \in Keys(x.job) : HashOf[K] = p
      BY <1>0, <1>4, <1>5 DEF Places
    <2> QED
      BY <2>1, <2>2, <2>3, <2>4 DEF Places
  <1>13. Submitting'
    BY <1>3 DEF Submitting
  <1>14. Present'
    <2> SUFFICES ASSUME NEW k \in Job, Pending(k)'
                 PROVE  /\ \E p \in Partition : \E i \in Nat : \E x \in Item : At(p, i, x)' /\ x.job = k
                        /\ \A K \in Keys(k) : \E i \in Nat : \E x \in Item : At(HashOf[K], i, x)' /\ x.job = k
      BY DEF Present
    <2>1. Pending(k)
      BY <1>3 DEF Pending
    <2>2. \E p \in Partition : \E i \in Nat : \E x \in Item : At(p, i, x)' /\ x.job = k
      BY <1>0, <1>5, <2>1 DEF Present
    <2>3. ASSUME NEW K \in Keys(k) PROVE \E i \in Nat : \E x \in Item : At(HashOf[K], i, x)' /\ x.job = k
      <3>1. \/ \E i \in Nat : \E x \in Item : At(HashOf[K], i, x) /\ x.job = k
            \/ Sending(k) /\ sub.second = HashOf[K]
        BY <1>0, <2>1 DEF Present
      <3>2. CASE \E i \in Nat : \E x \in Item : At(HashOf[K], i, x) /\ x.job = k
        BY <1>5, <3>2, KeyPlace
      <3>3. CASE Sending(k) /\ sub.second = HashOf[K]
        <4>1. k = j /\ HashOf[K] = q /\ At(q, place, it)'
          BY <1>2, <1>5, <1>9, <3>3
        <4> QED
          BY <1>4, <1>5, <4>1
      <3> QED
        BY <3>1, <3>2, <3>3
    <2> QED
      BY <2>2, <2>3
  <1>15. Hands'
    <2>1. \A p \in Partition : \A x \in Item : \A i \in Nat : At(p, i, x)' /\ i > 0 => state'[x.job] = "queued"
      BY <1>0, <1>3, <1>4, <1>5, <1>6 DEF Hands
    <2> QED
      BY <1>0, <1>3, <2>1 DEF Hands
  <1>16. Barrier'
    <2> SUFFICES ASSUME NEW k \in Job
                 PROVE  (LeadOut(k)' <=> LeadOut(k)) /\ (TrailOut(k)' => TrailOut(k))
      BY <1>0, <1>3 DEF Barrier
    <2>0. Half(k, TRUE) # it /\ (k # j => Half(k, FALSE) # it)
      BY <1>4, ItemFacts
    <2>1. \A p \in Partition : \A i \in Nat : At(p, i, Half(k, TRUE))' <=> At(p, i, Half(k, TRUE))
      BY <1>5, <2>0
    <2>2. LeadOut(k)' <=> LeadOut(k)
      BY <2>1 DEF LeadOut
    <2>3. ASSUME k # j PROVE \A p \in Partition : \A i \in Nat : At(p, i, Half(k, FALSE))' <=> At(p, i, Half(k, FALSE))
      BY <1>5, <2>0, <2>3
    <2>4. TrailOut(k)' => TrailOut(k)
      BY <1>9, <2>3 DEF TrailOut
    <2> QED
      BY <2>2, <2>4
  <1>17. Cleared'
    BY <1>0, <1>3, <1>5, <1>7 DEF Cleared
  <1> QED
    BY <1>10, <1>11, <1>12, <1>13, <1>14, <1>15, <1>16, <1>17 DEF KeyInv
-----------------------------------------------------------------------------
(* The workers.                                                            *)

LEMMA OneItem == \A p \in Partition : \A i \in Nat : \A x, y : At(p, i, x) /\ At(p, i, y) => x = y
  BY DEF At

\* An item is in one place, and so is a job that goes alone.
LEMMA OnePlace ==
    ASSUME TypeInv, KeyInv, NEW p \in Partition, NEW q \in Partition, NEW x \in Item, NEW y \in Item,
           NEW i \in Nat, NEW k \in Nat, At(p, i, x), At(q, k, y), x.job = y.job, x = y \/ ~x.paired
    PROVE  p = q /\ i = k
  <1>0. AcceptedOnce /\ InOrder /\ Places
    BY DEF KeyInv
  <1>1. x = y
    <2>1. CASE ~x.paired
      BY <1>0, <2>1 DEF Places
    <2> QED
      BY <2>1
  <1>2. p = q
    BY <1>0, <1>1 DEF Places
  <1>3. PICK n \in Nat : Acc(n, x.job)
    BY <1>0, ItemFacts DEF Places, AcceptedOnce
  <1>4. ~(i < k) /\ ~(k < i)
    BY <1>0, <1>1, <1>2, <1>3 DEF InOrder
  <1> QED
    BY <1>2, <1>4

\* All that was accepted before the head of a channel, under a key that brings
\* both here, has ended when the worker comes for it.
LEMMA HeadCleared ==
    ASSUME TypeInv, KeyInv, NEW p \in Partition, ~Busy(p), NEW x \in Item, At(p, 1, x),
           NEW K \in Keys(x.job), HashOf[K] = p, NEW e \in Job, K \in Keys(e),
           NEW m \in Nat, NEW n \in Nat, Acc(m, e), Acc(n, x.job), m < n
    PROVE  state[e] \in Ended
  <1>0. AcceptedOnce /\ InOrder /\ Submitting /\ Present
    BY DEF KeyInv
  <1>1. x.job \in Job /\ x.job # e
    BY <1>0, ItemFacts DEF AcceptedOnce
  <1>2. ASSUME NEW i \in Nat, NEW y \in Item, At(p, i, y), y.job = e PROVE FALSE
    <2>1. i # 0
      BY <1>2, AtFacts
    <2>2. i # 1
      BY <1>1, <1>2, OneItem
    <2>3. n < m
      BY <1>0, <1>2, <2>1, <2>2 DEF InOrder
    <2> QED
      BY <2>3
  <1>3. ASSUME Sending(e) PROVE FALSE
    <2>1. Acc(Len(accepted), e) /\ Len(accepted) \in Nat
      BY <1>0, <1>3, AtFacts DEF Sending, Submitting
    <2>2. m = Len(accepted)
      BY <1>0, <2>1 DEF AcceptedOnce
    <2>3. n <= Len(accepted)
      BY <2>1 DEF Acc
    <2> QED
      BY <2>2, <2>3
  <1>4. ~Pending(e)
    BY <1>0, <1>2, <1>3 DEF Present
  <1>5. state[e] \in JobState /\ state[e] \notin {"new", "dropped"}
    BY <1>0 DEF AcceptedOnce, TypeInv, TypeOK
  <1> QED
    BY <1>4, <1>5 DEF JobState, Pending, Ended

LEMMA TakeStep == ASSUME TypeInv, KeyInv, NEW p \in Partition, Take(p) PROVE KeyInv'
  <1>0. AcceptedOnce /\ InOrder /\ Places /\ Submitting /\ Present /\ Hands /\ Barrier /\ Cleared
    BY DEF KeyInv
  <1>1. PICK x \in Item : x = Head(part[p]) /\ At(p, 1, x)
    BY AtTake
  <1>2. PICK j \in Job : j = x.job
    BY ItemFacts
  <1>3. /\ ~Busy(p) /\ held'[p] = x
        /\ \A i \in Nat : \A y : At(p, i, y)' <=> At(p, i + 1, y)
        /\ \A q \in Partition \ {p} : \A i \in Nat : \A y : At(q, i, y)' <=> At(q, i, y)
        /\ \A q \in Partition \ {p} : wpc'[q] = wpc[q] /\ held'[q] = held[q]
    BY <1>1, AtTake
  <1>4. state[j] = "queued"
    BY <1>0, <1>1, <1>2 DEF Hands
  <1>5. /\ UNCHANGED <<sub, done, accepted>>
        /\ \/ x.paired /\ wpc'[p] = "meet" /\ UNCHANGED state /\ arrived'[j] = arrived[j] + 1
           \/ ~x.paired /\ wpc'[p] = "run" /\ state' = [state EXCEPT ![j] = "running"] /\ UNCHANGED arrived
        /\ \A k \in Job \ {j} : arrived'[k] = arrived[k]
    BY <1>1, <1>2 DEF Take, Begin, TypeInv, TypeOK
  <1>6. /\ \A k \in Job \ {j} : state'[k] = state[k]
        /\ state'[j] = IF x.paired THEN "queued" ELSE "running"
    BY <1>4, <1>5 DEF TypeInv, TypeOK
  <1>7. \A n, k : Acc(n, k)' <=> Acc(n, k)
    BY <1>5, AccSame
  <1>8. \A k \in Job : Sending(k)' <=> Sending(k)
    BY <1>5 DEF Sending
  \* Each place comes from the same one or the next.
  <1>9. \A q \in Partition : \A i \in Nat : \A y : At(q, i, y)' =>
          \E k \in Nat : At(q, k, y) /\ k >= i /\ (q = p => k = i + 1)
    <2> SUFFICES ASSUME NEW q \in Partition, NEW i \in Nat, NEW y, At(q, i, y)'
                 PROVE  \E k \in Nat : At(q, k, y) /\ k >= i /\ (q = p => k = i + 1)
      OBVIOUS
    <2>1. CASE q = p
      <3>1. At(p, i + 1, y) /\ i + 1 \in Nat /\ i + 1 >= i
        BY <1>3, <2>1
      <3> QED
        BY <2>1, <3>1
    <2>2. CASE q # p
      BY <1>3, <2>2
    <2> QED
      BY <2>1, <2>2
  \* Nothing on a partition is lost.
  <1>10. \A q \in Partition : \A i \in Nat : \A y : At(q, i, y) => \E k \in Nat : At(q, k, y)'
    <2> SUFFICES ASSUME NEW q \in Partition, NEW i \in Nat, NEW y, At(q, i, y) PROVE \E k \in Nat : At(q, k, y)'
      OBVIOUS
    <2>1. CASE q = p
      <3>1. i # 0
        BY <1>3, <2>1, AtFacts
      <3>2. PICK k \in Nat : i = k + 1
        BY <3>1
      <3> QED
        BY <1>3, <2>1, <3>2
    <2>2. CASE q # p
      BY <1>3, <2>2
    <2> QED
      BY <2>1, <2>2
  \* Another place of the same item, or of a job that goes alone, does not exist.
  <1>11. \A q \in Partition : \A i \in Nat : \A y \in Item :
           At(q, i, y) /\ y.job = j /\ (y = x \/ ~x.paired) => q = p /\ i = 1
    BY <1>1, <1>2, OnePlace
  <1>12. AcceptedOnce'
    BY <1>0, <1>4, <1>6, <1>7 DEF AcceptedOnce
  <1>13. InOrder'
    <2> SUFFICES ASSUME NEW q \in Partition, NEW y \in Item, NEW z \in Item,
                        NEW i \in Nat, NEW k \in Nat, NEW m \in Nat, NEW n \in Nat,
                        At(q, i, y)', At(q, k, z)', i < k, Acc(m, y.job)', Acc(n, z.job)'
                 PROVE  m < n
      BY DEF InOrder
    <2>1. Acc(m, y.job) /\ Acc(n, z.job)
      BY <1>7
    <2>2. CASE q = p
      <3>1. At(p, i + 1, y) /\ At(p, k + 1, z) /\ i + 1 < k + 1 /\ i + 1 \in Nat /\ k + 1 \in Nat
        BY <1>3, <2>2
      <3> QED
        BY <1>0, <2>1, <3>1 DEF InOrder
    <2>3. CASE q # p
      BY <1>0, <1>3, <2>1, <2>3 DEF InOrder
    <2> QED
      BY <2>2, <2>3
  <1>14. Places'
    <2>1. \A q \in Partition : \A y \in Item : \A i \in Nat : At(q, i, y)' => state'[y.job] \notin {"new", "dropped"}
      BY <1>0, <1>6, <1>9, ItemFacts DEF Places
    <2>2. ASSUME NEW q \in Partition, NEW r \in Partition, NEW y \in Item, NEW i \in Nat, NEW k \in Nat,
                 At(q, i, y)', At(r, k, y)'
          PROVE  q = r
      <3>1. PICK a \in Nat : At(q, a, y)
        BY <1>9, <2>2
      <3>2. PICK b \in Nat : At(r, b, y)
        BY <1>9, <2>2
      <3> QED
        BY <1>0, <3>1, <3>2 DEF Places
    <2>3. \A q, r \in Partition : \A y, z \in Item : \A i, k \in Nat :
            At(q, i, y)' /\ At(r, k, z)' /\ y.job = z.job => y.paired = z.paired
      BY <1>0, <1>9 DEF Places
    <2>4. \A q \in Partition : \A y \in Item : \A i \in Nat :
            At(q, i, y)' /\ ~y.paired => y = Alone(y.job) /\ \A K \in Keys(y.job) : HashOf[K] = q
      BY <1>0, <1>9 DEF Places
    <2> QED
      BY <2>1, <2>2, <2>3, <2>4 DEF Places
  <1>15. Submitting'
    <2>0. sub.pc # "idle" => sub.job \in Job
      BY SubIsRecord
    <2>1. sub.pc \in {"offer", "checkFirst", "checkSecond", "sendFirst"} => state'[sub.job] = "new"
      BY <1>0, <1>4, <1>6, <2>0 DEF Submitting
    <2>2. ASSUME sub.pc = "sendSecond"
          PROVE  /\ Acc(Len(accepted), sub.job)' /\ state'[sub.job] = "queued"
                 /\ \A q \in Partition : \A y \in Item : \A i \in Nat :
                      At(q, i, y)' /\ y.job = sub.job => y.paired /\ y.lead /\ q # sub.second
      <3>1. \A q \in Partition : \A y \in Item : \A i \in Nat :
              At(q, i, y) /\ y.job = sub.job => y.paired /\ y.lead /\ q # sub.second
        BY <1>0, <2>2 DEF Submitting
      <3>2. sub.job = j => x.paired
        BY <1>1, <1>2, <3>1
      <3>3. state'[sub.job] = "queued"
        BY <1>0, <1>6, <2>0, <2>2, <3>2 DEF Submitting
      <3>4. Acc(Len(accepted), sub.job)'
        BY <1>0, <1>5, <2>2 DEF Submitting, Acc
      <3> QED
        BY <1>9, <3>1, <3>3, <3>4
    <2> QED
      BY <1>0, <1>5, <2>1, <2>2 DEF Submitting
  <1>16. Present'
    <2> SUFFICES ASSUME NEW k \in Job, Pending(k)'
                 PROVE  /\ \E q \in Partition : \E i \in Nat : \E y \in Item : At(q, i, y)' /\ y.job = k
                        /\ \A K \in Keys(k) :
                             \/ \E i \in Nat : \E y \in Item : At(HashOf[K], i, y)' /\ y.job = k
                             \/ Sending(k)' /\ sub'.second = HashOf[K]
      BY DEF Present
    <2>1. Pending(k)
      BY <1>4, <1>6 DEF Pending
    <2>2. \E q \in Partition : \E i \in Nat : \E y \in Item : At(q, i, y)' /\ y.job = k
      BY <1>0, <1>10, <2>1 DEF Present
    <2>3. ASSUME NEW K \in Keys(k)
          PROVE  \/ \E i \in Nat : \E y \in Item : At(HashOf[K], i, y)' /\ y.job = k
                 \/ Sending(k)' /\ sub'.second = HashOf[K]
      <3>1. \/ \E i \in Nat : \E y \in Item : At(HashOf[K], i, y) /\ y.job = k
            \/ Sending(k) /\ sub.second = HashOf[K]
        BY <1>0, <2>1 DEF Present
      <3>2. HashOf[K] \in Partition
        BY KeyPlace
      <3> QED
        BY <1>5, <1>8, <1>10, <3>1, <3>2
    <2> QED
      BY <2>2, <2>3
  <1>17. Hands'
    <2>1. ASSUME NEW q \in Partition, NEW y \in Item, NEW i \in Nat, At(q, i, y)', i > 0
          PROVE  state'[y.job] = "queued"
      <3>1. PICK k \in Nat : At(q, k, y) /\ k >= i /\ (q = p => k = i + 1)
        BY <1>9, <2>1
      <3>2. state[y.job] = "queued" /\ y.job \in Job
        BY <1>0, <2>1, <3>1, ItemFacts DEF Hands
      <3>3. y.job = j => x.paired
        BY <1>11, <2>1, <3>1
      <3> QED
        BY <1>6, <3>2, <3>3
    <2>2. ASSUME NEW q \in Partition
          PROVE  /\ wpc'[q] = "run" => state'[held'[q].job] = "running" /\ (held'[q].paired => held'[q].lead)
                 /\ wpc'[q] = "meet" => held'[q].paired /\ (held'[q].lead => state'[held'[q].job] = "queued")
                 /\ wpc'[q] = "wait" => held'[q].paired /\ ~held'[q].lead
      <3>1. CASE q = p
        BY <1>2, <1>3, <1>5, <1>6, <3>1
      <3>2. CASE q # p
        <4>1. wpc'[q] = wpc[q] /\ held'[q] = held[q]
          BY <1>3, <3>2
        <4>2. Busy(q) => held[q] \in Item /\ held[q].job \in Job /\ At(q, 0, held[q])
          BY AtFacts
        <4>3. Busy(q) /\ held[q].job = j => x.paired
          BY <1>11, <3>2, <4>2
        <4>4. Busy(q) => state'[held[q].job] = state[held[q].job]
          BY <1>4, <1>6, <4>2, <4>3
        <4> QED
          BY <1>0, <4>1, <4>4 DEF Hands, Busy
      <3> QED
        BY <3>1, <3>2
    <2>3. \A k \in done' : state'[k] \in Ended
      BY <1>0, <1>4, <1>5, <1>6 DEF Hands, Ended, TypeInv, TypeOK
    <2> QED
      BY <2>1, <2>2, <2>3 DEF Hands
  <1>18. Barrier'
    <2>0. \A q \in Partition : \A i \in Nat : \A y : i > 0 /\ At(q, i, y)' => \E k \in Nat : k > 0 /\ At(q, k, y)
      BY <1>9
    <2>1. \A k \in Job : (LeadOut(k)' => LeadOut(k)) /\ (TrailOut(k)' => TrailOut(k))
      BY <1>8, <2>0 DEF LeadOut, TrailOut
    <2>2. ASSUME NEW k \in Job \ {j}
          PROVE  /\ LeadOut(k)' /\ TrailOut(k)' => arrived'[k] = 0
                 /\ LeadOut(k)' \/ TrailOut(k)' => arrived'[k] <= 1
                 /\ state'[k] \in {"new", "dropped"} => arrived'[k] = 0
      BY <1>0, <1>5, <1>6, <2>1 DEF Barrier
    <2>3. ASSUME x.paired
          PROVE  /\ ~(LeadOut(j)' /\ TrailOut(j)')
                 /\ LeadOut(j)' \/ TrailOut(j)' => arrived'[j] <= 1
      <3>1. x = Half(j, x.lead) /\ x.lead \in BOOLEAN /\ Half(j, TRUE) \in Item /\ Half(j, FALSE) \in Item
        BY <1>2, <2>3, ItemFacts DEF Item
      <3>2. \A q \in Partition : \A i \in Nat : i > 0 => ~At(q, i, x)'
        <4> SUFFICES ASSUME NEW q \in Partition, NEW i \in Nat, i > 0, At(q, i, x)' PROVE FALSE
          OBVIOUS
        <4>1. PICK k \in Nat : At(q, k, x) /\ k >= i /\ (q = p => k = i + 1)
          BY <1>9
        <4>2. q = p /\ k = 1
          BY <1>2, <1>11, <4>1
        <4> QED
          BY <4>1, <4>2
      <3>3. CASE x.lead
        <4>1. x = Half(j, TRUE)
          BY <3>1, <3>3
        <4>2. LeadOut(j)
          <5>1. \E i \in Nat : i > 0 /\ At(p, i, x)
            BY <1>1
          <5> QED
            BY <4>1, <5>1 DEF LeadOut
        <4>3. ~LeadOut(j)'
          BY <3>2, <4>1 DEF LeadOut
        <4>4. TrailOut(j)' => arrived[j] = 0
          BY <1>0, <2>1, <4>2 DEF Barrier
        <4> QED
          BY <1>5, <2>3, <4>3, <4>4
      <3>4. CASE ~x.lead
        <4>1. x = Half(j, FALSE)
          BY <3>1, <3>4
        <4>2. TrailOut(j)
          <5>1. \E i \in Nat : i > 0 /\ At(p, i, x)
            BY <1>1
          <5> QED
            BY <4>1, <5>1 DEF TrailOut
        <4>3. ~Sending(j)
          BY <1>0, <1>1, <1>2, <3>4 DEF Sending, Submitting
        <4>4. ~TrailOut(j)'
          BY <1>8, <3>2, <4>1, <4>3 DEF TrailOut
        <4>5. LeadOut(j)' => arrived[j] = 0
          BY <1>0, <2>1, <4>2 DEF Barrier
        <4> QED
          BY <1>5, <2>3, <4>4, <4>5
      <3> QED
        BY <3>3, <3>4
    <2>4. CASE x.paired
      BY <1>6, <2>2, <2>3, <2>4 DEF Barrier
    <2>5. CASE ~x.paired
      <3>1. arrived'[j] = arrived[j]
        BY <1>5, <2>5
      <3> QED
        BY <1>0, <1>6, <2>1, <2>2, <3>1 DEF Barrier
    <2> QED
      BY <2>4, <2>5
  <1>19. Cleared'
    <2> SUFFICES ASSUME NEW q \in Partition, NEW y \in Item, NEW K \in Keys(y.job), NEW e \in Job,
                        NEW m \in Nat, NEW n \in Nat, At(q, 0, y)', HashOf[K] = q, K \in Keys(e),
                        Acc(m, e)', Acc(n, y.job)', m < n
                 PROVE  state'[e] \in Ended
      BY DEF Cleared
    <2>0. Acc(m, e) /\ Acc(n, y.job)
      BY <1>7
    <2>1. state[e] \in Ended
      <3>1. CASE q = p
        <4>1. At(p, 1, y)
          <5>1. At(p, 0, y)' <=> At(p, 0 + 1, y)
            BY <1>3
          <5>2. 0 + 1 = 1
            OBVIOUS
          <5> QED
            BY <3>1, <5>1, <5>2
        <4> QED
          BY <1>3, <2>0, <3>1, <4>1, HeadCleared
      <3>2. CASE q # p
        BY <1>0, <1>3, <2>0, <3>2 DEF Cleared
      <3> QED
        BY <3>1, <3>2
    <2> QED
      BY <1>4, <1>6, <2>1 DEF Ended
  <1> QED
    BY <1>12, <1>13, <1>14, <1>15, <1>16, <1>17, <1>18, <1>19 DEF KeyInv
\* What is still to be done keeps its place, and the outcome of one job changes.
LEMMA OutcomeStep ==
    ASSUME TypeInv, KeyInv, NEW j \in Job, NEW r \in {"running"} \cup Ended,
           state' = [state EXCEPT ![j] = r], Pending(j), UNCHANGED <<sub, arrived, accepted>>, Hands', ~Sending(j),
           \A q \in Partition : \A i \in Nat : \A y : At(q, i, y)' => At(q, i, y),
           \A q \in Partition : \A i \in Nat : \A y \in Item :
             At(q, i, y) => At(q, i, y)' \/ (y.job = j /\ r \in Ended)
    PROVE  KeyInv'
  <1>0. AcceptedOnce /\ InOrder /\ Places /\ Submitting /\ Present /\ Barrier /\ Cleared
    BY DEF KeyInv
  <1>1. state'[j] = r /\ \A k \in Job \ {j} : state'[k] = state[k]
    BY DEF TypeInv, TypeOK
  <1>2. state[j] \in {"queued", "running"} /\ r \notin {"new", "dropped", "queued"}
    BY DEF Pending, Ended
  <1>3. \A n, k : Acc(n, k)' <=> Acc(n, k)
    BY AccSame
  <1>4. AcceptedOnce'
    BY <1>0, <1>1, <1>2, <1>3 DEF AcceptedOnce
  <1>5. InOrder'
    BY <1>0, <1>3 DEF InOrder
  <1>6. Places'
    <2>1. \A q \in Partition : \A y \in Item : \A i \in Nat : At(q, i, y)' => state'[y.job] \notin {"new", "dropped"}
      BY <1>0, <1>1, <1>2, ItemFacts DEF Places
    <2> QED
      BY <1>0, <2>1 DEF Places
  <1>7. Submitting'
    <2>0. sub.pc # "idle" => sub.job \in Job
      BY SubIsRecord
    <2>1. sub.pc \in {"offer", "checkFirst", "checkSecond", "sendFirst"} => state'[sub.job] = "new"
      BY <1>0, <1>1, <1>2, <2>0 DEF Submitting
    <2>2. sub.pc = "sendSecond" => Acc(Len(accepted), sub.job)' /\ state'[sub.job] = "queued"
      BY <1>0, <1>1, <2>0 DEF Submitting, Sending, Acc
    <2> QED
      BY <1>0, <2>1, <2>2 DEF Submitting
  <1>8. Present'
    <2> SUFFICES ASSUME NEW k \in Job, Pending(k)'
                 PROVE  /\ \E q \in Partition : \E i \in Nat : \E y \in Item : At(q, i, y)' /\ y.job = k
                        /\ \A K \in Keys(k) :
                             \/ \E i \in Nat : \E y \in Item : At(HashOf[K], i, y)' /\ y.job = k
                             \/ Sending(k)' /\ sub'.second = HashOf[K]
      BY DEF Present
    <2>1. Pending(k) /\ ~(k = j /\ r \in Ended)
      BY <1>1, <1>2 DEF Pending, Ended
    <2>2. \A q \in Partition : \A i \in Nat : \A y \in Item : At(q, i, y) /\ y.job = k => At(q, i, y)'
      BY <2>1
    <2>3. \E q \in Partition : \E i \in Nat : \E y \in Item : At(q, i, y)' /\ y.job = k
      BY <1>0, <2>1, <2>2 DEF Present
    <2>4. ASSUME NEW K \in Keys(k)
          PROVE  \/ \E i \in Nat : \E y \in Item : At(HashOf[K], i, y)' /\ y.job = k
                 \/ Sending(k)' /\ sub'.second = HashOf[K]
      <3>1. \/ \E i \in Nat : \E y \in Item : At(HashOf[K], i, y) /\ y.job = k
            \/ Sending(k) /\ sub.second = HashOf[K]
        BY <1>0, <2>1 DEF Present
      <3>2. HashOf[K] \in Partition
        BY KeyPlace
      <3> QED
        BY <2>2, <3>1, <3>2 DEF Sending
    <2> QED
      BY <2>3, <2>4
  <1>9. Barrier'
    <2> SUFFICES ASSUME NEW k \in Job
                 PROVE  /\ LeadOut(k)' => LeadOut(k)
                        /\ TrailOut(k)' => TrailOut(k)
                        /\ state'[k] \in {"new", "dropped"} => state[k] \in {"new", "dropped"}
      BY <1>0 DEF Barrier
    <2>1. (LeadOut(k)' => LeadOut(k)) /\ (TrailOut(k)' => TrailOut(k))
      BY DEF LeadOut, TrailOut, Sending
    <2> QED
      BY <1>1, <1>2, <2>1
  <1>10. Cleared'
    <2> SUFFICES ASSUME NEW q \in Partition, NEW y \in Item, NEW K \in Keys(y.job), NEW e \in Job,
                        NEW m \in Nat, NEW n \in Nat, At(q, 0, y)', HashOf[K] = q, K \in Keys(e),
                        Acc(m, e)', Acc(n, y.job)', m < n
                 PROVE  state'[e] \in Ended
      BY DEF Cleared
    <2>1. state[e] \in Ended
      BY <1>0, <1>3 DEF Cleared
    <2> QED
      BY <1>1, <1>2, <2>1 DEF Ended
  <1> QED
    BY <1>4, <1>5, <1>6, <1>7, <1>8, <1>9, <1>10 DEF KeyInv

\* When both halves have arrived, the job is nowhere but in two hands.
LEMMA BothArrived ==
    ASSUME TypeInv, KeyInv, NEW j \in Job, arrived[j] = 2, NEW p \in Partition, NEW x \in Item, NEW k \in Nat,
           At(p, k, x), x.paired, x.job = j
    PROVE  /\ ~Sending(j)
           /\ \A q \in Partition : \A i \in Nat : \A y \in Item : At(q, i, y) /\ y.job = j => i = 0
  <1>1. ~LeadOut(j) /\ ~TrailOut(j)
    BY DEF KeyInv, Barrier
  <1>2. ASSUME NEW q \in Partition, NEW i \in Nat, NEW y \in Item, At(q, i, y), y.job = j, i > 0 PROVE FALSE
    <2>1. y.paired
      BY <1>2 DEF KeyInv, Places
    <2>2. y = Half(j, TRUE) \/ y = Half(j, FALSE)
      BY <1>2, <2>1, ItemFacts DEF Item
    <2> QED
      BY <1>1, <1>2, <2>2 DEF LeadOut, TrailOut
  <1>3. ~Sending(j)
    BY <1>1 DEF TrailOut
  <1> QED
    BY <1>2, <1>3

LEMMA MeetStep == ASSUME TypeInv, KeyInv, NEW p \in Partition, Meet(p) PROVE KeyInv'
  <1>0. Hands /\ Places /\ Submitting
    BY DEF KeyInv
  <1>1. wpc[p] = "meet" /\ Busy(p)
    BY DEF Meet, Busy
  <1>2. PICK j \in Job, x \in Item : j = held[p].job /\ x = held[p]
    BY <1>1, AtFacts
  <1>3. x.paired /\ x.job = j /\ At(p, 0, x) /\ arrived[j] = 2 /\ (x.lead => state[j] = "queued")
    BY <1>0, <1>1, <1>2, AtFacts DEF Hands, Meet
  <1>4. /\ ~Sending(j)
        /\ \A q \in Partition : \A i \in Nat : \A y \in Item : At(q, i, y) /\ y.job = j => i = 0
    BY <1>3, BothArrived
  <1>5. /\ UNCHANGED <<part, sub, held, arrived, done, accepted>>
        /\ \/ x.lead /\ wpc'[p] = "run" /\ state' = [state EXCEPT ![j] = "running"]
           \/ ~x.lead /\ wpc'[p] = "wait" /\ UNCHANGED state
        /\ \A q \in Partition \ {p} : wpc'[q] = wpc[q]
    BY <1>2 DEF Meet, Begin, queueVars, TypeInv, TypeOK
  <1>6. \A q \in Partition : Busy(q)' <=> Busy(q)
    BY <1>1, <1>5 DEF Busy
  <1>7. \A q \in Partition : \A i, y : At(q, i, y)' <=> At(q, i, y)
    BY <1>5, <1>6, AtSame
  <1>8. CASE ~x.lead
    <2>1. UNCHANGED state /\ wpc'[p] = "wait"
      BY <1>5, <1>8
    <2>2. Hands'
      BY <1>0, <1>2, <1>3, <1>5, <1>7, <1>8, <2>1 DEF Hands
    <2>3. Submitting'
      BY <1>0, <1>5, <1>7, <2>1 DEF Submitting, Acc
    <2> QED
      BY <1>5, <1>7, <2>1, <2>2, <2>3, QuietStep DEF DropsOne, SameSending, Sending
  <1>9. CASE x.lead
    <2>1. state' = [state EXCEPT ![j] = "running"] /\ state[j] = "queued"
      BY <1>3, <1>5, <1>9
    <2>2. state'[j] = "running" /\ \A k \in Job \ {j} : state'[k] = state[k]
      BY <2>1 DEF TypeInv, TypeOK
    <2>3. ASSUME NEW q \in Partition, NEW y \in Item, NEW i \in Nat, At(q, i, y)', i > 0
          PROVE  state'[y.job] = "queued"
      <3>1. At(q, i, y)
        BY <1>7, <2>3
      <3>2. y.job # j /\ y.job \in Job
        BY <1>4, <2>3, <3>1, ItemFacts
      <3>3. state[y.job] = "queued"
        BY <1>0, <2>3, <3>1 DEF Hands
      <3> QED
        BY <2>2, <3>2, <3>3
    <2>4. ASSUME NEW q \in Partition
          PROVE  /\ wpc'[q] = "run" => state'[held'[q].job] = "running" /\ (held'[q].paired => held'[q].lead)
                 /\ wpc'[q] = "meet" => held'[q].paired /\ (held'[q].lead => state'[held'[q].job] = "queued")
                 /\ wpc'[q] = "wait" => held'[q].paired /\ ~held'[q].lead
      <3>1. CASE q = p
        BY <1>2, <1>3, <1>5, <1>9, <2>2, <3>1
      <3>2. CASE q # p
        <4>1. wpc'[q] = wpc[q] /\ held'[q] = held[q]
          BY <1>5, <3>2
        <4>2. Busy(q) => held[q] \in Item /\ held[q].job \in Job /\ At(q, 0, held[q])
          BY AtFacts
        <4>3. wpc[q] = "meet" /\ held[q].lead => held[q].job # j
          <5> SUFFICES ASSUME wpc[q] = "meet", held[q].lead, held[q].job = j PROVE FALSE
            OBVIOUS
          <5>1. Busy(q) /\ held[q].paired
            BY <1>0 DEF Busy, Hands
          <5>2. held[q] = Half(j, TRUE) /\ x = Half(j, TRUE)
            BY <1>3, <1>9, <4>2, <5>1 DEF Item, Half
          <5>3. PICK z \in Item : z = held[q] /\ z = x
            BY <5>2
          <5>4. At(q, 0, z) /\ At(p, 0, z)
            BY <1>3, <4>2, <5>1, <5>3
          <5> QED
            BY <1>0, <3>2, <5>4 DEF Places
        <4> QED
          BY <1>0, <2>1, <2>2, <4>1, <4>2, <4>3 DEF Hands, Busy
      <3> QED
        BY <3>1, <3>2
    <2>5. \A k \in done' : state'[k] \in Ended
      BY <1>0, <1>5, <2>1, <2>2 DEF Hands, Ended, TypeInv, TypeOK
    <2>6. Hands'
      BY <2>3, <2>4, <2>5 DEF Hands
    <2>7. Pending(j)
      BY <2>1 DEF Pending
    <2> QED
      BY <1>4, <1>5, <1>7, <2>1, <2>6, <2>7, OutcomeStep
  <1> QED
    BY <1>8, <1>9

LEMMA EndStep ==
    ASSUME TypeInv, KeyInv, NEW p \in Partition, NEW r \in Ended, wpc[p] = "run", End(p, r)
    PROVE  KeyInv'
  <1>0. Hands /\ Places /\ Submitting
    BY DEF KeyInv
  <1>1. Busy(p)
    BY DEF Busy
  <1>2. PICK j \in Job, x \in Item : j = held[p].job /\ x = held[p]
    BY <1>1, AtFacts
  <1>3. x.job = j /\ At(p, 0, x) /\ state[j] = "running" /\ (x.paired => x.lead)
    BY <1>0, <1>1, <1>2, AtFacts DEF Hands
  <1>4. /\ UNCHANGED <<part, sub, held, arrived, accepted>>
        /\ wpc'[p] = "take" /\ \A q \in Partition \ {p} : wpc'[q] = wpc[q]
        /\ state' = [state EXCEPT ![j] = r]
        /\ done' \subseteq done \cup {j}
    BY <1>2 DEF End, queueVars, TypeInv, TypeOK
  <1>5. \A q \in Partition : \A i \in Nat : \A y : At(q, i, y)' <=> At(q, i, y) /\ (q # p \/ i > 0)
    <2>1. ~Busy(p)' /\ \A q \in Partition \ {p} : Busy(q)' <=> Busy(q)
      BY <1>4 DEF Busy
    <2> QED
      BY <1>4, <2>1, AtDone
  <1>6. state'[j] = r /\ \A k \in Job \ {j} : state'[k] = state[k]
    BY <1>4 DEF TypeInv, TypeOK
  <1>7. ASSUME NEW q \in Partition, NEW y \in Item, NEW i \in Nat, At(q, i, y)', i > 0
        PROVE  state'[y.job] = "queued"
    <2>1. state[y.job] = "queued" /\ y.job \in Job
      BY <1>0, <1>5, <1>7, ItemFacts DEF Hands
    <2> QED
      BY <1>3, <1>6, <2>1
  <1>8. ASSUME NEW q \in Partition \ {p}, wpc[q] = "run" PROVE held[q].job # j
    <2> SUFFICES ASSUME held[q].job = j PROVE FALSE
      OBVIOUS
    <2>1. Busy(q)
      BY <1>8 DEF Busy
    <2>2. PICK y \in Item : y = held[q] /\ At(q, 0, y) /\ y.job = j /\ (y.paired => y.lead)
      BY <1>0, <1>8, <2>1, AtFacts DEF Hands
    <2>3. x.paired = y.paired
      BY <1>0, <1>3, <2>2 DEF Places
    <2>4. CASE x.paired
      <3>1. x = Half(j, TRUE) /\ y = Half(j, TRUE)
        BY <1>3, <2>2, <2>3, <2>4 DEF Item, Half
      <3>2. x = y
        BY <3>1
      <3> QED
        BY <1>3, <2>2, <3>2, OnePlace
    <2>5. CASE ~x.paired
      BY <1>3, <2>2, <2>5, OnePlace
    <2> QED
      BY <2>4, <2>5
  <1>9. ASSUME NEW q \in Partition
        PROVE  /\ wpc'[q] = "run" => state'[held'[q].job] = "running" /\ (held'[q].paired => held'[q].lead)
               /\ wpc'[q] = "meet" => held'[q].paired /\ (held'[q].lead => state'[held'[q].job] = "queued")
               /\ wpc'[q] = "wait" => held'[q].paired /\ ~held'[q].lead
    <2>1. CASE q = p
      BY <1>4, <2>1
    <2>2. CASE q # p
      <3>1. wpc'[q] = wpc[q] /\ held'[q] = held[q]
        BY <1>4, <2>2
      <3>2. Busy(q) => held[q].job \in Job
        BY AtFacts
      <3>3. wpc[q] = "meet" /\ held[q].lead => held[q].job # j
        BY <1>0, <1>3 DEF Hands
      <3>4. wpc[q] = "run" => held[q].job # j
        BY <1>8, <2>2
      <3> QED
        BY <1>0, <1>6, <3>1, <3>2, <3>3, <3>4 DEF Hands, Busy
    <2> QED
      BY <2>1, <2>2
  <1>10. \A k \in done' : state'[k] \in Ended
    <2>1. done \subseteq Job
      BY DEF TypeInv, TypeOK
    <2> QED
      BY <1>0, <1>4, <1>6, <2>1 DEF Hands
  <1>11. Hands'
    BY <1>7, <1>9, <1>10 DEF Hands
  <1>12. Pending(j) /\ ~Sending(j)
    BY <1>0, <1>3 DEF Pending, Sending, Submitting
  <1>13. \A q \in Partition : \A i \in Nat : \A y : At(q, i, y)' => At(q, i, y)
    BY <1>5
  <1>14. \A q \in Partition : \A i \in Nat : \A y \in Item : At(q, i, y) => At(q, i, y)' \/ (y.job = j /\ r \in Ended)
    <2>1. \A y : At(p, 0, y) => y = x
      BY <1>3, OneItem
    <2> QED
      BY <1>3, <1>5, <2>1
  <1> QED
    BY <1>4, <1>11, <1>12, <1>13, <1>14, OutcomeStep

LEMMA ReleaseStep == ASSUME TypeInv, KeyInv, NEW p \in Partition, Release(p) PROVE KeyInv'
  <1>0. AcceptedOnce /\ InOrder /\ Places /\ Submitting /\ Present /\ Hands /\ Barrier /\ Cleared
    BY DEF KeyInv
  <1>1. Busy(p) /\ held[p].job \in done
    BY DEF Release, Busy
  <1>2. PICK j \in Job, x \in Item : j = held[p].job /\ x = held[p] /\ At(p, 0, x) /\ x.job = j
    BY <1>1, AtFacts
  <1>3. state[j] \in Ended /\ ~Pending(j)
    BY <1>0, <1>1, <1>2 DEF Hands, Pending, Ended
  <1>4. /\ UNCHANGED <<part, sub, held, arrived, done, accepted, state>>
        /\ wpc'[p] = "take" /\ \A q \in Partition \ {p} : wpc'[q] = wpc[q]
    BY DEF Release, queueVars, TypeInv, TypeOK
  <1>5. \A q \in Partition : \A i \in Nat : \A y : At(q, i, y)' <=> At(q, i, y) /\ (q # p \/ i > 0)
    <2>1. ~Busy(p)' /\ \A q \in Partition \ {p} : Busy(q)' <=> Busy(q)
      BY <1>4 DEF Busy
    <2> QED
      BY <1>4, <2>1, AtDone
  <1>6. \A n, k : Acc(n, k)' <=> Acc(n, k)
    BY <1>4, AccSame
  <1>7. AcceptedOnce' /\ InOrder' /\ Places'
    <2>1. AcceptedOnce'
      BY <1>0, <1>4, <1>6 DEF AcceptedOnce
    <2>2. InOrder'
      BY <1>0, <1>5, <1>6 DEF InOrder
    <2>3. Places'
      BY <1>0, <1>4, <1>5 DEF Places
    <2> QED
      BY <2>1, <2>2, <2>3
  <1>8. Submitting'
    BY <1>0, <1>4, <1>5 DEF Submitting, Acc
  <1>9. Present'
    <2> SUFFICES ASSUME NEW k \in Job, Pending(k)'
                 PROVE  /\ \E q \in Partition : \E i \in Nat : \E y \in Item : At(q, i, y)' /\ y.job = k
                        /\ \A K \in Keys(k) :
                             \/ \E i \in Nat : \E y \in Item : At(HashOf[K], i, y)' /\ y.job = k
                             \/ Sending(k)' /\ sub'.second = HashOf[K]
      BY DEF Present
    <2>1. Pending(k) /\ k # j
      BY <1>3, <1>4 DEF Pending
    <2>2. \A q \in Partition : \A i \in Nat : \A y \in Item : At(q, i, y) /\ y.job = k => At(q, i, y)'
      <3>1. \A y : At(p, 0, y) => y = x
        BY <1>2, OneItem
      <3> QED
        BY <1>2, <1>5, <2>1, <3>1
    <2>3. \E q \in Partition : \E i \in Nat : \E y \in Item : At(q, i, y)' /\ y.job = k
      BY <1>0, <2>1, <2>2 DEF Present
    <2>4. ASSUME NEW K \in Keys(k)
          PROVE  \/ \E i \in Nat : \E y \in Item : At(HashOf[K], i, y)' /\ y.job = k
                 \/ Sending(k)' /\ sub'.second = HashOf[K]
      <3>1. \/ \E i \in Nat : \E y \in Item : At(HashOf[K], i, y) /\ y.job = k
            \/ Sending(k) /\ sub.second = HashOf[K]
        BY <1>0, <2>1 DEF Present
      <3>2. HashOf[K] \in Partition
        BY KeyPlace
      <3> QED
        BY <1>4, <2>2, <3>1, <3>2 DEF Sending
    <2> QED
      BY <2>3, <2>4
  <1>10. Hands'
    BY <1>0, <1>4, <1>5 DEF Hands
  <1>11. Barrier'
    <2> SUFFICES ASSUME NEW k \in Job PROVE (LeadOut(k)' => LeadOut(k)) /\ (TrailOut(k)' => TrailOut(k))
      BY <1>0, <1>4 DEF Barrier
    <2> QED
      BY <1>4, <1>5 DEF LeadOut, TrailOut, Sending
  <1>12. Cleared'
    BY <1>0, <1>4, <1>5, <1>6 DEF Cleared
  <1> QED
    BY <1>7, <1>8, <1>9, <1>10, <1>11, <1>12 DEF KeyInv

LEMMA KeyInit == Init => TypeInv /\ PairFits /\ KeyInv
  <1> SUFFICES ASSUME Init PROVE TypeInv /\ PairFits /\ KeyInv
    OBVIOUS
  <1>1. TypeInv /\ PairFits
    BY TypeInit DEF Init, Idle, PairFits, SubmitNeverBlocks
  <1>2. \A n, j : ~Acc(n, j)
    BY DEF Init, Acc
  <1>3. \A p \in Partition : \A i, x : ~At(p, i, x)
    BY DEF Init, At, Busy
  <1>4. sub.pc = "idle" /\ (\A j \in Job : state[j] = "new") /\ done = {}
        /\ (\A p \in Partition : wpc[p] = "take") /\ \A j \in Job : arrived[j] = 0
    BY DEF Init, Idle
  <1> QED
    BY <1>1, <1>2, <1>3, <1>4
       DEF KeyInv, AcceptedOnce, InOrder, Places, Submitting, Present, Hands, Barrier, Cleared, Pending

LEMMA KeyNext == TypeInv /\ PairFits /\ KeyInv /\ [Next]_vars => KeyInv'
  <1> SUFFICES ASSUME TypeInv, PairFits, KeyInv, [Next]_vars PROVE KeyInv'
    OBVIOUS
  <1>1. CASE (\E j \in Job : Submit(j)) \/ SubmitStep
    BY <1>1, LooksQuiet, OfferAccepts, FirstHalf, SecondHalf DEF SubmitStep
  <1>2. ASSUME NEW p \in Partition, Worker(p) PROVE KeyInv'
    <2>1. CASE Succeed(p) \/ Exhaust(p)
      BY <2>1, EndStep DEF Succeed, Exhaust, Ended
    <2> QED
      BY <1>2, <2>1, TakeStep, MeetStep, ReleaseStep, RestQuiet DEF Worker
  <1> QED
    BY <1>1, <1>2, RestQuiet DEF Next, Over

-----------------------------------------------------------------------------
(* The refinement.                                                         *)

\* A job starts when what shares a key with it, and came before, has ended.
LEMMA Starts ==
    ASSUME TypeInv, KeyInv, NEW j \in Job, state[j] = "queued",
           state' = [state EXCEPT ![j] = "running"], UNCHANGED accepted,
           \A K \in Keys(j) : \A e \in Job : \A m, n \in Nat :
             K \in Keys(e) /\ Acc(m, e) /\ Acc(n, j) /\ m < n => state[e] \in Ended
    PROVE  Promise!Start(j)
  <1>1. ASSUME NEW b \in 1..Len(accepted), NEW a \in 1..(b - 1), accepted[b] = j,
               Promise!Shares(accepted[a], j)
        PROVE  state[accepted[a]] \in Ended
    <2>0. accepted \in Seq(Job) /\ Len(accepted) \in Nat
      BY AtFacts
    <2>1. a \in 1..Len(accepted) /\ a \in Nat /\ b \in Nat /\ a < b
      BY <2>0
    <2>2. PICK e \in Job : e = accepted[a]
      BY <2>0, <2>1
    <2>3. Acc(a, e) /\ Acc(b, j)
      BY <1>1, <2>1, <2>2 DEF Acc
    <2>4. PICK K : K \in Keys(e) /\ K \in Keys(j)
      BY <1>1, <2>2 DEF Promise!Shares, Keys
    <2> QED
      BY <2>1, <2>2, <2>3, <2>4
  <1> QED
    BY <1>1 DEF Promise!Start, Promise!Ended, Ended

LEMMA TakeStarts == ASSUME TypeInv, KeyInv, NEW p \in Partition, Take(p) PROVE [Promise!Next]_Promise!vars
  <1>1. PICK x \in Item, j \in Job : x = Head(part[p]) /\ At(p, 1, x) /\ j = x.job /\ ~Busy(p)
    BY AtTake, ItemFacts
  <1>2. CASE x.paired
    BY <1>1, <1>2 DEF Take, Promise!vars
  <1>3. CASE ~x.paired
    <2>1. state[j] = "queued" /\ \A K \in Keys(j) : HashOf[K] = p
      BY <1>1, <1>3 DEF KeyInv, Hands, Places
    <2>2. state' = [state EXCEPT ![j] = "running"] /\ UNCHANGED accepted
      BY <1>1, <1>3 DEF Take, Begin
    <2>3. \A K \in Keys(j) : \A e \in Job : \A m, n \in Nat :
             K \in Keys(e) /\ Acc(m, e) /\ Acc(n, j) /\ m < n => state[e] \in Ended
      BY <1>1, <2>1, HeadCleared
    <2>4. Promise!Start(j)
      BY <2>1, <2>2, <2>3, Starts
    <2> QED
      BY <2>4 DEF Promise!Next
  <1> QED
    BY <1>2, <1>3

LEMMA MeetStarts == ASSUME TypeInv, KeyInv, NEW p \in Partition, Meet(p) PROVE [Promise!Next]_Promise!vars
  <1>1. wpc[p] = "meet" /\ Busy(p)
    BY DEF Meet, Busy
  <1>2. PICK j \in Job, x \in Item : j = held[p].job /\ x = held[p] /\ At(p, 0, x) /\ x.job = j
    BY <1>1, AtFacts
  <1>3. x.paired /\ arrived[j] = 2 /\ (x.lead => state[j] = "queued")
    BY <1>1, <1>2 DEF KeyInv, Hands, Meet
  <1>4. CASE ~x.lead
    BY <1>2, <1>4 DEF Meet, Promise!vars
  <1>5. CASE x.lead
    <2>1. state[j] = "queued" /\ state' = [state EXCEPT ![j] = "running"] /\ UNCHANGED accepted
      BY <1>2, <1>3, <1>5 DEF Meet, Begin
    <2>2. ASSUME NEW K \in Keys(j), NEW e \in Job, NEW m \in Nat, NEW n \in Nat,
                 K \in Keys(e), Acc(m, e), Acc(n, j), m < n
          PROVE  state[e] \in Ended
      <3>1. /\ ~Sending(j)
            /\ \A q \in Partition : \A i \in Nat : \A y \in Item : At(q, i, y) /\ y.job = j => i = 0
        BY <1>2, <1>3, BothArrived
      <3>2. Pending(j) /\ HashOf[K] \in Partition
        BY <2>1, KeyPlace DEF Pending
      <3>3. PICK i \in Nat, y \in Item : At(HashOf[K], i, y) /\ y.job = j
        BY <3>1, <3>2 DEF KeyInv, Present
      <3>4. At(HashOf[K], 0, y)
        BY <3>1, <3>2, <3>3
      <3> QED
        BY <2>2, <3>2, <3>3, <3>4 DEF KeyInv, Cleared
    <2>3. Promise!Start(j)
      BY <2>1, <2>2, Starts
    <2> QED
      BY <2>3 DEF Promise!Next
  <1> QED
    BY <1>4, <1>5

LEMMA Implements == TypeInv /\ PairFits /\ KeyInv /\ [Next]_vars => [Promise!Next]_Promise!vars
  <1> SUFFICES ASSUME TypeInv, PairFits, KeyInv, [Next]_vars PROVE [Promise!Next]_Promise!vars
    OBVIOUS
  <1>1. CASE \/ \E j \in Job : Submit(j)
             \/ SendSecond
             \/ \E p \in Partition : Retry(p) \/ Release(p) \/ Exit(p)
             \/ Signal \/ Failure \/ LoopStop \/ Shutdown \/ UNCHANGED vars
    BY <1>1 DEF Submit, SendSecond, Retry, Release, Exit, Signal, Failure, LoopStop, Shutdown, LoopStopped, LoopStuck,
                Drain, CloseParts, Join, Main, vars, Promise!vars
  <1>2. CASE Offer \/ CheckFirst \/ CheckSecond \/ SendFirst
    <2>1. sub.pc \in {"offer", "checkFirst", "checkSecond", "sendFirst"}
      BY <1>2 DEF Offer, CheckFirst, CheckSecond, Check, SendFirst
    <2>2. sub.job \in Job /\ state[sub.job] = "new"
      BY <2>1, SubIsRecord DEF KeyInv, Submitting
    <2>3. UNCHANGED <<accepted, state>> \/ Accept(sub.job) \/ DropFull(sub.job)
      BY <1>2 DEF Offer, CheckFirst, CheckSecond, Check, SendFirst
    <2>4. Accept(sub.job) => Promise!Accept(sub.job)
      BY <2>2 DEF Accept, Promise!Accept
    <2>5. DropFull(sub.job) => Promise!Drop(sub.job)
      BY <2>2 DEF DropFull, Promise!Drop
    <2> QED
      BY <2>2, <2>3, <2>4, <2>5 DEF Promise!Next, Promise!vars
  <1>3. ASSUME NEW p \in Partition, Succeed(p) \/ Exhaust(p) PROVE Promise!Next
    <2>1. PICK r \in Ended : wpc[p] = "run" /\ End(p, r)
      BY <1>3 DEF Succeed, Exhaust, Ended
    <2>2. held[p].job \in Job /\ state[held[p].job] = "running"
      BY <2>1, AtFacts DEF KeyInv, Hands, Busy
    <2>3. Promise!End(held[p].job)
      BY <2>1, <2>2 DEF End, Promise!End, Promise!Ended, Ended
    <2> QED
      BY <2>2, <2>3 DEF Promise!Next
  <1> QED
    BY <1>1, <1>2, <1>3, TakeStarts, MeetStarts DEF Next, SubmitStep, Worker, Over

\* The queue implements its promise, whatever the number of workers, the hash and the
\* capacity: two jobs that share a key run in the order they were submitted, retries
\* included, and never together, although each job of two keys goes by two channels
\* whose workers meet at it, and a job ends once, written or compensated.
THEOREM QueueKeepsItsPromise == Spec => KeepsPromise
  <1>1. Init => Promise!Init
    BY DEF Init, Promise!Init
  <1>2. TypeInv /\ PairFits /\ KeyInv /\ [Next]_vars => (TypeInv /\ PairFits /\ KeyInv)'
    BY TypeNext, PairFitsNext, KeyNext
  <1> QED
    BY <1>1, <1>2, KeyInit, Implements, PTL DEF Spec, KeepsPromise, Promise!Spec

-----------------------------------------------------------------------------
(* An orderly shutdown.                                                    *)

\* Workers leave when their channel is closed and empty, and main after them.
Leaving ==
  /\ \A p \in Partition : wpc[p] = "exited" => closed /\ part[p] = <<>>
  /\ main = "done" => \A p \in Partition : wpc[p] = "exited"

LEMMA LeavingNext == TypeInv /\ CloseAfterLoop /\ Leaving /\ [Next]_vars => Leaving'
  <1> SUFFICES ASSUME TypeInv, CloseAfterLoop, Leaving, [Next]_vars PROVE Leaving'
    OBVIOUS
  <1>1. CASE \E j \in Job : Submit(j)
    BY <1>1 DEF Submit, workerVars, Leaving
  <1>2. CASE SubmitStep
    <2>1. sub.pc # "idle"
      BY <1>2 DEF SubmitStep, Offer, CheckFirst, CheckSecond, Check, SendFirst, SendSecond
    <2>2. ~closed
      BY <2>1 DEF CloseAfterLoop, Idle
    <2>3. UNCHANGED <<closed, wpc, main>>
      BY <1>2 DEF SubmitStep, Offer, CheckFirst, CheckSecond, Check, SendFirst, SendSecond, workerVars
    <2> QED
      BY <2>2, <2>3 DEF Leaving
  <1>3. ASSUME NEW p \in Partition, Worker(p) PROVE Leaving'
    <2>1. main # "abandoned" /\ wpc[p] # "exited" /\ UNCHANGED <<closed, main>>
      BY <1>3 DEF Worker, Take, Meet, Succeed, Retry, Exhaust, Release, Exit, End, Alive, queueVars
    <2>2. main # "done"
      BY <2>1 DEF Leaving
    <2>3. /\ \A q \in Partition \ {p} : part'[q] = part[q] /\ wpc'[q] = wpc[q]
          /\ wpc'[p] = "exited" => closed /\ part'[p] = <<>>
      BY <1>3 DEF Worker, Take, Meet, Begin, Succeed, Retry, Exhaust, Release, Exit, End, queueVars, TypeInv, TypeOK
    <2> QED
      BY <2>1, <2>2, <2>3 DEF Leaving
  <1>4. CASE Signal \/ Failure \/ LoopStop \/ Shutdown
    BY <1>4 DEF Signal, Failure, LoopStop, Shutdown, LoopStopped, LoopStuck, Drain, CloseParts, Join, Main,
                queueVars, workerVars, Leaving
  <1>5. CASE UNCHANGED vars
    BY <1>5 DEF vars, queueVars, workerVars, Leaving
  <1> QED
    BY <1>1, <1>2, <1>3, <1>4, <1>5 DEF Next, Over

\* An orderly shutdown leaves no accepted job without an outcome: what Close waits for
\* is enough, also for the jobs whose halves are in two channels.
THEOREM ShutdownLosesNothing == Spec => []CloseLosesNothing
  <1> DEFINE Inv == TypeInv /\ PairFits /\ KeyInv /\ CloseAfterLoop /\ Leaving
  <1>1. Init => Inv
    BY KeyInit DEF Init, CloseAfterLoop, Leaving
  <1>2. Inv /\ [Next]_vars => Inv'
    BY TypeNext, PairFitsNext, KeyNext, CloseNext, LeavingNext
  <1>3. Inv => CloseLosesNothing
    <2> SUFFICES ASSUME Inv, main = "done", NEW j \in Job, Pending(j) PROVE FALSE
      BY DEF CloseLosesNothing, Pending
    <2>1. PICK p \in Partition, i \in Nat, x \in Item : At(p, i, x)
      BY DEF KeyInv, Present
    <2>2. wpc[p] = "exited" /\ part[p] = <<>>
      BY DEF Leaving
    <2> QED
      BY <2>1, <2>2 DEF At, Busy
  <1> QED
    BY <1>1, <1>2, <1>3, PTL DEF Spec
=============================================================================
