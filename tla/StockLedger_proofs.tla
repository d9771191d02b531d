------------------------ MODULE StockLedger_proofs ------------------------
(***************************************************************************)
(* Proofs about StockLedger, for every set of cities, resources and        *)
(* orders, every cost and every bound.                                     *)
(*                                                                         *)
(* The type invariant and the fate of confirmed orders hold for all        *)
(* orders.  That no write arrives old needs OneCityOrders: the orders of   *)
(* ADR-023, ADR-026 and ADR-030 (build, train, advance, pillage) have it,  *)
(* trades have not, and the run TradeReleaseStale shows what then happens. *)
(***************************************************************************)
EXTENDS StockLedger, FiniteSetTheorems, TLAPS

OneCityOrders ==
    \A o \in Order : /\ \E c \in City : KeysOf(o) = {c}
                     /\ \A s \in Stock : Gets[o][s] = 0

-----------------------------------------------------------------------------
(* Sequences, as the queues of the cities use them.                        *)

LEMMA TailOfQueue ==
    ASSUME NEW S, NEW q \in Seq(S), q # <<>>
    PROVE  /\ Head(q) \in S /\ Head(q) = q[1] /\ Len(q) \in Nat /\ Len(q) >= 1
           /\ Tail(q) \in Seq(S) /\ Len(Tail(q)) = Len(q) - 1
           /\ \A i \in 1..Len(Tail(q)) : i + 1 \in 1..Len(q) /\ Tail(q)[i] = q[i + 1]
  OBVIOUS

LEMMA AppendToQueue ==
    ASSUME NEW S, NEW q \in Seq(S), NEW x \in S
    PROVE  /\ Append(q, x) \in Seq(S) /\ Len(q) \in Nat
           /\ Len(Append(q, x)) = Len(q) + 1
           /\ \A i \in 1..Len(q) : Append(q, x)[i] = q[i]
           /\ Append(q, x)[Len(q) + 1] = x
  OBVIOUS

-----------------------------------------------------------------------------
(* Type correctness.  A failed flush returns a natural delta: the jobs of  *)
(* a flush carry deposits, never a debit.                                  *)

FlushesDeposit ==
    /\ \A c \in City : \A i \in 1..Len(queue[c]) :
          queue[c][i].ord = Flush => queue[c][i].delta \in [Stock -> Nat]
    /\ \A m \in inbox : m.kind = "flushFailed" => m.delta \in Nat

TypeInv == TypeOK /\ FlushesDeposit

LEMMA FlushJobType ==
    ASSUME TypeInv, NEW c \in City
    PROVE  /\ FlushJob(c) \in Job /\ FlushJob(c).ord = Flush
           /\ FlushJob(c).delta \in [Stock -> Nat] /\ FlushJob(c).cities = {c}
  BY DEF TypeInv, TypeOK, FlushJob, Job

LEMMA OrderJobType ==
    ASSUME TypeInv, NEW o \in Order
    PROVE  /\ OrderJob(o) \in Job /\ OrderJob(o).ord = o
           /\ OrderJob(o).cities = KeysOf(o)
  <1>1. \A s \in Stock : /\ unflushed[s] - Pays[o][s] + Gets[o][s] \in Int
                         /\ version[s] + 1 \in Nat
    BY ConstantsAssumption DEF TypeInv, TypeOK
  <1>2. KeysOf(o) \subseteq City
    BY DEF KeysOf
  <1> QED
    BY <1>1, <1>2 DEF OrderJob, Job

LEMMA HeadJobType ==
    ASSUME TypeInv, NEW c \in City, Runnable(c)
    PROVE  /\ Head(queue[c]) \in Job
           /\ Head(queue[c]).ord = Flush => Head(queue[c]).delta \in [Stock -> Nat]
           /\ \A k \in Head(queue[c]).cities : k \in City /\ queue[k] # <<>> /\ Head(queue[k]) = Head(queue[c])
  <1>1. queue[c] \in Seq(Job) /\ queue[c] # <<>>
    BY DEF TypeInv, TypeOK, Runnable
  <1>2. Head(queue[c]) \in Job /\ Head(queue[c]) = queue[c][1] /\ 1 \in 1..Len(queue[c])
    BY <1>1, TailOfQueue
  <1> QED
    BY <1>1, <1>2 DEF TypeInv, FlushesDeposit, Job, Runnable

\* Compensations and answers are messages; a failed flush reports deposits.
LEMMA FailureType ==
    ASSUME NEW j \in Job, j.ord = Flush => j.delta \in [Stock -> Nat]
    PROVE  /\ FailureOf(j) \subseteq Message /\ SuccessOf(j) \subseteq Message
           /\ \A m \in FailureOf(j) : m.kind = "flushFailed" => m.delta \in Nat
           /\ \A m \in SuccessOf(j) : m.kind = "resolved" /\ m.ok
  <1>1. j.ord \in Order \cup {Flush} /\ j.delta \in [Stock -> Int] /\ j.ver \in [Stock -> Nat]
    BY DEF Job
  <1>2. CASE j.ord = Flush
    <2>1. \A s \in Stock : FlushFailed(j, s) \in Message /\ FlushFailed(j, s).delta \in Nat
      BY <1>1, <1>2 DEF FlushFailed, Message
    <2> QED
      BY <1>2, <2>1 DEF FailureOf, SuccessOf
  <1>3. CASE j.ord # Flush
    <2>1. \A b \in BOOLEAN : Resolved(j.ord, b) \in Message /\ Resolved(j.ord, b).kind = "resolved"
                             /\ Resolved(j.ord, b).ok = b
      BY <1>1, <1>3 DEF Resolved, Message
    <2> QED
      BY <1>3, <2>1 DEF FailureOf, SuccessOf
  <1> QED
    BY <1>2, <1>3

LEMMA PostType ==
    ASSUME TypeInv, NEW msgs \in SUBSET Message, Post(msgs),
           \A m \in msgs : m.kind = "flushFailed" => m.delta \in Nat
    PROVE  /\ inbox' \subseteq inbox \cup msgs
           /\ inbox' \subseteq Message /\ lost' \subseteq Message
           /\ \A m \in inbox' : m.kind = "flushFailed" => m.delta \in Nat
  BY DEF TypeInv, TypeOK, FlushesDeposit, Post

\* Taking the head job off its queues leaves every other job as it was.
LEMMA DequeueType ==
    ASSUME TypeInv, NEW c \in City, Runnable(c), Dequeue(Head(queue[c]))
    PROVE  /\ queue' \in [City -> Seq(Job)]
           /\ \A k \in City : \A i \in 1..Len(queue'[k]) :
                 queue'[k][i].ord = Flush => queue'[k][i].delta \in [Stock -> Nat]
  <1> DEFINE j == Head(queue[c])
  <1>1. \A k \in City : queue[k] \in Seq(Job)
    BY DEF TypeInv, TypeOK
  <1>2. queue' = [k \in City |-> IF k \in j.cities THEN Tail(queue[k]) ELSE queue[k]]
    BY DEF Dequeue
  <1>3. \A k \in j.cities : k \in City /\ queue[k] # <<>>
    BY HeadJobType
  <1>4. ASSUME NEW k \in City, k \in j.cities
        PROVE  /\ queue'[k] \in Seq(Job)
               /\ \A i \in 1..Len(queue'[k]) : i + 1 \in 1..Len(queue[k]) /\ queue'[k][i] = queue[k][i + 1]
    <2>1. queue'[k] = Tail(queue[k]) /\ queue[k] \in Seq(Job) /\ queue[k] # <<>>
      BY <1>1, <1>2, <1>3, <1>4
    <2> QED
      BY <2>1, TailOfQueue
  <1>5. ASSUME NEW k \in City, k \notin j.cities
        PROVE  queue'[k] = queue[k]
    BY <1>2, <1>5
  <1>6. queue' \in [City -> Seq(Job)]
    BY <1>1, <1>2, <1>4, <1>5
  <1>7. ASSUME NEW k \in City, NEW i \in 1..Len(queue'[k]), queue'[k][i].ord = Flush
        PROVE  queue'[k][i].delta \in [Stock -> Nat]
    BY <1>4, <1>5, <1>7 DEF TypeInv, FlushesDeposit
  <1> QED
    BY <1>6, <1>7

LEMMA FinishType ==
    ASSUME TypeInv, NEW c \in City, Runnable(c), NEW msgs,
           msgs = FailureOf(Head(queue[c])) \/ msgs = SuccessOf(Head(queue[c])),
           Finish(Head(queue[c]), msgs)
    PROVE  /\ queue' \in [City -> Seq(Job)] /\ unacked' \subseteq Job
           /\ inbox' \subseteq Message /\ lost' \subseteq Message
           /\ FlushesDeposit'
  <1>1. Head(queue[c]) \in Job /\ (Head(queue[c]).ord = Flush => Head(queue[c]).delta \in [Stock -> Nat])
    BY HeadJobType
  <1>2. /\ msgs \in SUBSET Message
        /\ \A m \in msgs : m.kind = "flushFailed" => m.delta \in Nat
    BY <1>1, FailureType
  <1>3. Dequeue(Head(queue[c])) /\ Post(msgs) /\ unacked' = unacked \ {Head(queue[c])}
    BY DEF Finish
  <1>4. /\ inbox' \subseteq Message /\ lost' \subseteq Message
        /\ \A m \in inbox' : m.kind = "flushFailed" => m.delta \in Nat
    BY <1>2, <1>3, PostType
  <1>5. unacked' \subseteq Job
    BY <1>3 DEF TypeInv, TypeOK
  <1> QED
    BY <1>3, <1>4, <1>5, DequeueType DEF FlushesDeposit

LEMMA ApplyType ==
    ASSUME TypeInv, NEW j \in Job, ~Short(j), ApplyStock(j)
    PROVE  /\ dbAmount' \in [Stock -> Nat] /\ dbVersion' \in [Stock -> Nat]
           /\ written' \subseteq Order
  <1>1. j.ord \in Order \cup {Flush} /\ j.delta \in [Stock -> Int] /\ j.ver \in [Stock -> Nat]
    BY DEF Job
  <1>2. ASSUME NEW s \in Stock, Writes(j, s) /\ Newer(j, s)
        PROVE  dbAmount[s] + j.delta[s] \in Nat
    <2>1. dbAmount[s] \in Int /\ j.delta[s] \in Int /\ ~(dbAmount[s] + j.delta[s] < 0)
      BY <1>1, <1>2 DEF TypeInv, TypeOK, Short
    <2> QED
      BY <2>1
  <1>3. dbAmount' \in [Stock -> Nat]
    BY <1>2 DEF TypeInv, TypeOK, ApplyStock
  <1>4. dbVersion' \in [Stock -> Nat]
    BY <1>1 DEF TypeInv, TypeOK, ApplyStock
  <1>5. written' \subseteq Order
    BY <1>1 DEF TypeInv, TypeOK, ApplyStock
  <1> QED
    BY <1>3, <1>4, <1>5

LEMMA CostTypes ==
    /\ Pays \in [Order -> [Stock -> Nat]] /\ Gets \in [Order -> [Stock -> Nat]]
    /\ Initial \in [Stock -> Nat]
    /\ MaxUnacked \in Nat /\ MaxDropped \in Nat /\ MaxCrash \in Nat
    /\ Flush \notin Order
  BY ConstantsAssumption

LEMMA TypeInvInit == Init => TypeInv
  <1> SUFFICES ASSUME Init PROVE TypeInv
    OBVIOUS
  <1>1. \A c \in City : queue[c] = <<>> /\ Len(queue[c]) = 0
    BY DEF Init
  <1>2. TypeOK
    BY CostTypes DEF Init, TypeOK, Status
  <1>3. FlushesDeposit
    BY <1>1 DEF Init, FlushesDeposit
  <1> QED
    BY <1>2, <1>3 DEF TypeInv

\* What the simulation appends to a city's FIFO keeps its type.
LEMMA AppendType ==
    ASSUME TypeInv, NEW cs \in SUBSET City, NEW job,
           \A c \in cs : /\ job[c] \in Job
                         /\ job[c].ord = Flush => job[c].delta \in [Stock -> Nat],
           queue' = [c \in City |-> IF c \in cs THEN Append(queue[c], job[c]) ELSE queue[c]]
    PROVE  /\ queue' \in [City -> Seq(Job)]
           /\ \A k \in City : \A i \in 1..Len(queue'[k]) :
                 queue'[k][i].ord = Flush => queue'[k][i].delta \in [Stock -> Nat]
  <1>1. \A k \in City : queue[k] \in Seq(Job)
    BY DEF TypeInv, TypeOK
  <1>2. ASSUME NEW k \in City, k \in cs
        PROVE  /\ queue'[k] \in Seq(Job)
               /\ \A i \in 1..Len(queue'[k]) :
                    \/ i \in 1..Len(queue[k]) /\ queue'[k][i] = queue[k][i]
                    \/ queue'[k][i] = job[k]
    <2>1. queue'[k] = Append(queue[k], job[k]) /\ job[k] \in Job
      BY <1>2
    <2> QED
      BY <1>1, <2>1, AppendToQueue
  <1>3. \A k \in City : k \notin cs => queue'[k] = queue[k]
    OBVIOUS
  <1>4. queue' \in [City -> Seq(Job)]
    BY <1>1, <1>2, <1>3
  <1>5. ASSUME NEW k \in City, NEW i \in 1..Len(queue'[k]), queue'[k][i].ord = Flush
        PROVE  queue'[k][i].delta \in [Stock -> Nat]
    BY <1>2, <1>3, <1>5 DEF TypeInv, FlushesDeposit
  <1> QED
    BY <1>4, <1>5

LEMMA FlushStocksType == TypeInv /\ FlushStocks => TypeInv'
  <1> SUFFICES ASSUME TypeInv, FlushStocks PROVE TypeInv'
    OBVIOUS
  <1> DEFINE visited == {c \in dirty : PendingDeposits(unflushed, c)}
             fits == {c \in visited : HasRoom({c})}
             job == [c \in City |-> FlushJob(c)]
             msgs == UNION {FailureOf(FlushJob(c)) : c \in visited \ fits}
  <1>1. dirty \subseteq City /\ fits \in SUBSET City /\ visited \subseteq City
    BY DEF TypeInv, TypeOK
  <1>2. queue' = [c \in City |-> IF c \in fits THEN Append(queue[c], job[c]) ELSE queue[c]]
    BY DEF FlushStocks
  <1>3. \A c \in fits : job[c] \in Job /\ (job[c].ord = Flush => job[c].delta \in [Stock -> Nat])
    BY <1>1, FlushJobType
  <1>4. /\ queue' \in [City -> Seq(Job)]
        /\ \A k \in City : \A i \in 1..Len(queue'[k]) :
              queue'[k][i].ord = Flush => queue'[k][i].delta \in [Stock -> Nat]
    <2> HIDE DEF fits, job
    <2> QED
      BY <1>1, <1>2, <1>3, AppendType
  <1>5. /\ msgs \in SUBSET Message
        /\ \A m \in msgs : m.kind = "flushFailed" => m.delta \in Nat
    <2>1. \A c \in visited \ fits : FlushJob(c) \in Job
                                    /\ (FlushJob(c).ord = Flush => FlushJob(c).delta \in [Stock -> Nat])
      BY <1>1, FlushJobType
    <2> QED
      BY <2>1, FailureType
  <1>6. Post(msgs)
    BY DEF FlushStocks
  <1>7. /\ inbox' \subseteq Message /\ lost' \subseteq Message
        /\ \A m \in inbox' : m.kind = "flushFailed" => m.delta \in Nat
    BY <1>5, <1>6, PostType
  <1>8. unflushed' \in [Stock -> Nat]
    BY DEF TypeInv, TypeOK, FlushStocks
  <1>9. nDropped' \in Nat
    <2>1. nDropped' = nDropped + Cardinality(visited \ fits)
      BY DEF FlushStocks
    <2>2. IsFiniteSet(visited \ fits)
      BY <1>1, FS_Subset, ConstantsAssumption
    <2> QED
      BY <2>1, <2>2, FS_CardinalityType DEF TypeInv, TypeOK
  <1>10. UNCHANGED <<amount, version, status, carried, db, unacked, phantom, deposited, nUnacked, nCrash>>
         /\ dirty' = {}
    BY DEF FlushStocks
  <1> QED
    BY <1>4, <1>7, <1>8, <1>9, <1>10 DEF TypeInv, TypeOK, FlushesDeposit, db

LEMMA ReserveType == ASSUME NEW o \in Order, TypeInv, Reserve(o) PROVE TypeInv'
  <1> DEFINE j == OrderJob(o)
             job == [c \in City |-> j]
  <1>1. /\ j \in Job /\ j.ord = o /\ j.ord # Flush /\ j.cities \in SUBSET City
        /\ FailureOf(j) \in SUBSET Message
        /\ \A m \in FailureOf(j) : m.kind = "flushFailed" => m.delta \in Nat
    <2>1. j \in Job /\ j.ord = o /\ j.cities = KeysOf(o)
      BY OrderJobType
    <2>2. j.ord # Flush
      BY <2>1, CostTypes
    <2> QED
      BY <2>1, <2>2, FailureType DEF KeysOf
  <1>2. /\ queue' \in [City -> Seq(Job)]
        /\ \A k \in City : \A i \in 1..Len(queue'[k]) :
              queue'[k][i].ord = Flush => queue'[k][i].delta \in [Stock -> Nat]
        /\ inbox' \subseteq Message /\ lost' \subseteq Message
        /\ \A m \in inbox' : m.kind = "flushFailed" => m.delta \in Nat
        /\ nDropped' \in Nat
    <2>1. CASE HasRoom(j.cities)
      <3>1. /\ queue' = [c \in City |-> IF c \in j.cities THEN Append(queue[c], job[c]) ELSE queue[c]]
            /\ UNCHANGED <<inbox, lost, nDropped>>
        BY <2>1 DEF Reserve
      <3>2. \A c \in j.cities : job[c] \in Job /\ (job[c].ord = Flush => job[c].delta \in [Stock -> Nat])
        BY <1>1
      <3>3. /\ queue' \in [City -> Seq(Job)]
            /\ \A k \in City : \A i \in 1..Len(queue'[k]) :
                  queue'[k][i].ord = Flush => queue'[k][i].delta \in [Stock -> Nat]
        <4> HIDE DEF j, job
        <4> QED
          BY <1>1, <3>1, <3>2, AppendType
      <3> QED
        BY <3>1, <3>3 DEF TypeInv, TypeOK, FlushesDeposit
    <2>2. CASE ~HasRoom(j.cities)
      <3>1. UNCHANGED queue /\ Post(FailureOf(j)) /\ nDropped' = nDropped + 1
        BY <2>2 DEF Reserve
      <3>2. /\ inbox' \subseteq Message /\ lost' \subseteq Message
            /\ \A m \in inbox' : m.kind = "flushFailed" => m.delta \in Nat
        BY <1>1, <3>1, PostType
      <3> QED
        BY <3>1, <3>2 DEF TypeInv, TypeOK, FlushesDeposit
    <2> QED
      BY <2>1, <2>2
  <1>3. amount' \in [Stock -> Nat] /\ version' \in [Stock -> Nat] /\ unflushed' \in [Stock -> Nat]
    <2>1. Pays[o] \in [Stock -> Nat]
      BY CostTypes
    <2>2. \A s \in Stock : amount[s] - Pays[o][s] \in Nat
      BY <2>1 DEF TypeInv, TypeOK, Reserve
    <2> QED
      BY <2>2 DEF TypeInv, TypeOK, Reserve
  <1>4. dirty' \subseteq City /\ status' \in [Order -> Status] /\ carried' \in [Order -> [Stock -> Nat]]
    BY DEF TypeInv, TypeOK, Reserve, MarkDirty, KeysOf, Status
  <1>5. UNCHANGED <<db, unacked, phantom, deposited, nUnacked, nCrash>>
    BY DEF Reserve
  <1> QED
    BY <1>2, <1>3, <1>4, <1>5 DEF TypeInv, TypeOK, FlushesDeposit, db

\* The messages the loop applies carry natural amounts back to RAM.
LEMMA HandlersType ==
    ASSUME TypeInv, NEW m \in inbox, HandleFlushFailed(m) \/ HandleConfirmed(m) \/ HandleRejected(m)
    PROVE  TypeInv'
  <1>1. m \in Message /\ (m.kind = "flushFailed" => m.delta \in Nat)
    BY DEF TypeInv, TypeOK, FlushesDeposit
  <1>2. inbox' = inbox \ {m} /\ UNCHANGED <<queue, db, unacked, history, counters>>
    BY DEF HandleFlushFailed, HandleConfirmed, HandleRejected
  <1>3. CASE HandleFlushFailed(m)
    <2>1. m.stock \in Stock /\ m.stock[1] \in City /\ m.delta \in Nat
      BY <1>1, <1>3 DEF HandleFlushFailed, Message, Stock
    <2>2. unflushed' \in [Stock -> Nat] /\ version' \in [Stock -> Nat] /\ dirty' \subseteq City
      BY <1>3, <2>1 DEF HandleFlushFailed, TypeInv, TypeOK
    <2>3. UNCHANGED <<amount, status, carried>>
      BY <1>3 DEF HandleFlushFailed
    <2> QED
      BY <1>2, <2>2, <2>3 DEF TypeInv, TypeOK, FlushesDeposit, db, history, counters
  <1>4. CASE HandleConfirmed(m) \/ HandleRejected(m)
    <2>1. m.ord \in Order /\ Gets[m.ord] \in [Stock -> Nat] /\ Pays[m.ord] \in [Stock -> Nat]
          /\ carried[m.ord] \in [Stock -> Nat]
      BY <1>1, <1>4, CostTypes DEF HandleConfirmed, HandleRejected, Message, TypeInv, TypeOK
    <2>2. /\ amount' \in [Stock -> Nat] /\ version' \in [Stock -> Nat] /\ unflushed' \in [Stock -> Nat]
          /\ carried' \in [Order -> [Stock -> Nat]] /\ status' \in [Order -> Status]
      <3>1. CASE HandleConfirmed(m)
        BY <2>1, <3>1 DEF HandleConfirmed, TypeInv, TypeOK, Status
      <3>2. CASE HandleRejected(m)
        <4>1. /\ amount' = [s \in Stock |-> amount[s] + Pays[m.ord][s]]
              /\ version' = [s \in Stock |-> IF Pays[m.ord][s] > 0 THEN version[s] + 1 ELSE version[s]]
              /\ unflushed' = [s \in Stock |-> unflushed[s] + carried[m.ord][s]]
              /\ status' = [status EXCEPT ![m.ord] = "rejected"]
              /\ carried' = [carried EXCEPT ![m.ord] = [s \in Stock |-> 0]]
          BY <3>2 DEF HandleRejected
        <4>2. amount' \in [Stock -> Nat] /\ version' \in [Stock -> Nat] /\ unflushed' \in [Stock -> Nat]
          BY <2>1, <4>1 DEF TypeInv, TypeOK
        <4>3. carried' \in [Order -> [Stock -> Nat]] /\ status' \in [Order -> Status]
          BY <2>1, <4>1 DEF TypeInv, TypeOK, Status
        <4> QED
          BY <4>2, <4>3
      <3> QED
        BY <1>4, <3>1, <3>2
    <2>3. dirty' \subseteq City
      BY <1>4 DEF HandleConfirmed, HandleRejected, TypeInv, TypeOK, MarkDirty, KeysOf
    <2> QED
      BY <1>2, <2>2, <2>3 DEF TypeInv, TypeOK, FlushesDeposit, db, history, counters
  <1> QED
    BY <1>3, <1>4

LEMMA WorkerType == ASSUME TypeInv, NEW c \in City, Worker(c) PROVE TypeInv'
  <1> DEFINE j == Head(queue[c])
  <1>1. Runnable(c) /\ j \in Job
    BY HeadJobType DEF Worker, Commit, CommitUnacked, Skip, Refuse, GiveUp
  <1>2. UNCHANGED <<ram, deposited>>
    BY DEF Worker, Commit, CommitUnacked, Skip, Refuse, GiveUp, history, counters
  <1>3. CASE Commit(c)
    <2>1. ~Short(j) /\ ApplyStock(j) /\ Finish(j, SuccessOf(j)) /\ UNCHANGED <<phantom, counters>>
      BY <1>3 DEF Commit, Accepts
    <2> QED
      BY <1>1, <1>2, <2>1, FinishType, ApplyType DEF TypeInv, TypeOK, ram, counters
  <1>4. CASE CommitUnacked(c)
    <2>1. ~Short(j) /\ ApplyStock(j) /\ UNCHANGED <<queue, inbox, history, nDropped, nCrash>>
          /\ unacked' = unacked \cup {j} /\ nUnacked' = nUnacked + 1
      BY <1>4 DEF CommitUnacked, Accepts
    <2> QED
      BY <1>1, <1>2, <2>1, ApplyType DEF TypeInv, TypeOK, FlushesDeposit, ram, history
  <1>5. CASE Skip(c) \/ Refuse(c)
    <2>1. (Finish(j, SuccessOf(j)) \/ Finish(j, FailureOf(j))) /\ UNCHANGED <<db, phantom, counters>>
      BY <1>5 DEF Skip, Refuse
    <2> QED
      BY <1>1, <1>2, <2>1, FinishType DEF TypeInv, TypeOK, ram, db, counters
  <1>6. CASE GiveUp(c)
    <2>1. Finish(j, FailureOf(j)) /\ phantom' \subseteq phantom \cup {j} /\ nDropped' = nDropped + 1
          /\ UNCHANGED <<db, nUnacked, nCrash>>
      BY <1>6 DEF GiveUp
    <2>2. /\ queue' \in [City -> Seq(Job)] /\ unacked' \subseteq Job
          /\ inbox' \subseteq Message /\ lost' \subseteq Message
          /\ FlushesDeposit'
      BY <1>1, <2>1, FinishType
    <2>3. phantom' \subseteq Job /\ nDropped' \in Nat
      BY <1>1, <2>1 DEF TypeInv, TypeOK
    <2> QED
      BY <1>2, <2>1, <2>2, <2>3 DEF TypeInv, TypeOK, ram, db
  <1> QED
    BY <1>3, <1>4, <1>5, <1>6 DEF Worker

LEMMA RestartType == TypeInv /\ Restart => TypeInv'
  <1> SUFFICES ASSUME TypeInv, Restart PROVE TypeInv'
    OBVIOUS
  <1>1. queue' \in [City -> Seq(Job)] /\ \A c \in City : Len(queue'[c]) = 0
    BY DEF Restart
  <1>2. status' \in [Order -> Status] /\ carried' \in [Order -> [Stock -> Nat]]
    BY DEF Restart, TypeInv, TypeOK, Status
  <1> QED
    BY <1>1, <1>2 DEF Restart, TypeInv, TypeOK, FlushesDeposit, db

LEMMA DepositType == ASSUME NEW s \in Stock, TypeInv, Deposit(s) PROVE TypeInv'
  <1>1. s[1] \in City
    BY DEF Stock
  <1>2. /\ amount' \in [Stock -> Nat] /\ version' \in [Stock -> Nat]
        /\ unflushed' \in [Stock -> Nat] /\ deposited' \in [Stock -> Nat]
    BY DEF Deposit, TypeInv, TypeOK
  <1> QED
    BY <1>1, <1>2 DEF Deposit, TypeInv, TypeOK, FlushesDeposit, db, counters

LEMMA TypeInvNext == TypeInv /\ [Next]_vars => TypeInv'
  <1> SUFFICES ASSUME TypeInv, [Next]_vars PROVE TypeInv'
    OBVIOUS
  <1>1. CASE UNCHANGED vars
    BY <1>1 DEF vars, ram, db, history, counters, TypeInv, TypeOK, FlushesDeposit
  <1>2. CASE Loop
    BY <1>2, DepositType, FlushStocksType, ReserveType, HandlersType DEF Loop
  <1>3. CASE \E c \in City : Worker(c)
    BY <1>3, WorkerType
  <1>4. CASE Restart
    BY <1>4, RestartType
  <1> QED
    BY <1>1, <1>2, <1>3, <1>4 DEF Next

\* Every reachable state is well typed: no stock is ever negative in RAM or in
\* the database (INV-ECON-001), whatever fails.
THEOREM StockTypeCorrect == Spec => []TypeOK
  <1>1. Spec => []TypeInv
    BY TypeInvInit, TypeInvNext, PTL DEF Spec
  <1>2. TypeInv => TypeOK
    BY DEF TypeInv
  <1> QED
    BY <1>1, <1>2, PTL

-----------------------------------------------------------------------------
(* The versions.  Under OneCityOrders every job sits in one FIFO, in the   *)
(* order of its versions, all of them above the database's; and deposits   *)
(* not flushed yet have a version above every job, so the job that will    *)
(* carry them is never old.                                                *)

JobShape ==
    \A c \in City : \A i \in 1..Len(queue[c]) :
        /\ queue[c][i].cities = {c}
        /\ \A s \in Stock : Writes(queue[c][i], s) => s[1] = c

QueueAbove ==
    \A c \in City : \A i \in 1..Len(queue[c]) : \A s \in Stock :
        Writes(queue[c][i], s) =>
            /\ queue[c][i].ver[s] <= version[s]
            /\ unflushed[s] > 0 => queue[c][i].ver[s] < version[s]
            /\ queue[c][i].ver[s] > dbVersion[s] \/ (i = 1 /\ queue[c][i] \in unacked)

QueueIncreasing ==
    \A c \in City : \A i \in 1..Len(queue[c]) : \A k \in 1..Len(queue[c]) : \A s \in Stock :
        i < k /\ Writes(queue[c][i], s) /\ Writes(queue[c][k], s) =>
            queue[c][i].ver[s] < queue[c][k].ver[s]

DatabaseBehind ==
    \A s \in Stock : /\ dbVersion[s] <= version[s]
                     /\ unflushed[s] > 0 => dbVersion[s] < version[s]

\* Deposits travel only with an order that touches their stock.
CarriedTouched == \A o \in Order : \A s \in Stock : carried[o][s] > 0 => Touches(o, s)

VersionInv == JobShape /\ QueueAbove /\ QueueIncreasing /\ DatabaseBehind /\ CarriedTouched

LEMMA VersionInit == Init => VersionInv
  <1> SUFFICES ASSUME Init PROVE VersionInv
    OBVIOUS
  <1>1. \A c \in City : Len(queue[c]) = 0
    BY DEF Init
  <1>2. DatabaseBehind /\ CarriedTouched
    BY DEF Init, DatabaseBehind, CarriedTouched
  <1> QED
    BY <1>1, <1>2 DEF VersionInv, JobShape, QueueAbove, QueueIncreasing

\* A step of RAM that queues nothing: versions may only grow, and a stock that
\* gains unflushed deposits gets a version of its own.
LEMMA RamStep ==
    ASSUME TypeInv, VersionInv, UNCHANGED <<queue, dbVersion, unacked>>,
           version' \in [Stock -> Nat], unflushed' \in [Stock -> Nat], CarriedTouched',
           \A s \in Stock : /\ version'[s] >= version[s]
                            /\ unflushed'[s] > 0 => version'[s] > version[s] \/ unflushed[s] > 0
    PROVE  VersionInv'
  <1>1. \A c \in City : \A i \in 1..Len(queue[c]) : queue[c][i] \in Job
    BY DEF TypeInv, TypeOK
  <1>2. version \in [Stock -> Nat] /\ dbVersion \in [Stock -> Nat] /\ unflushed \in [Stock -> Nat]
    BY DEF TypeInv, TypeOK
  <1>3. JobShape' /\ QueueIncreasing'
    BY DEF VersionInv, JobShape, QueueIncreasing
  <1>4. QueueAbove'
    <2> SUFFICES ASSUME NEW c \in City, NEW i \in 1..Len(queue[c]), NEW s \in Stock, Writes(queue[c][i], s)
                 PROVE  /\ queue[c][i].ver[s] <= version'[s]
                        /\ unflushed'[s] > 0 => queue[c][i].ver[s] < version'[s]
                        /\ queue[c][i].ver[s] > dbVersion[s] \/ (i = 1 /\ queue[c][i] \in unacked)
      BY DEF QueueAbove, Writes
    <2>1. queue[c][i].ver[s] \in Nat /\ version[s] \in Nat /\ version'[s] \in Nat
          /\ unflushed[s] \in Nat /\ unflushed'[s] \in Nat
      BY <1>1, <1>2 DEF Job
    <2> QED
      BY <2>1 DEF VersionInv, QueueAbove
  <1>5. DatabaseBehind'
    BY <1>2 DEF VersionInv, DatabaseBehind
  <1> QED
    BY <1>3, <1>4, <1>5 DEF VersionInv

\* A step that queues at most one job per city, with a version above all that
\* was there, and takes the deposits of the stocks the job writes.
LEMMA SubmitStep ==
    ASSUME TypeInv, VersionInv, UNCHANGED <<dbVersion, unacked>>,
           version' \in [Stock -> Nat], unflushed' \in [Stock -> Nat], CarriedTouched',
           NEW cs \in SUBSET City, NEW job,
           queue' = [c \in City |-> IF c \in cs THEN Append(queue[c], job[c]) ELSE queue[c]],
           \A c \in cs : /\ job[c] \in Job /\ job[c].cities = {c}
                         /\ \A s \in Stock : Writes(job[c], s) =>
                               /\ s[1] = c
                               /\ job[c].ver[s] = version'[s] /\ unflushed'[s] = 0
                               /\ version'[s] > version[s] \/ unflushed[s] > 0,
           \A s \in Stock : /\ version'[s] >= version[s]
                            /\ unflushed'[s] <= unflushed[s]
    PROVE  VersionInv'
  <1>1. \A c \in City : queue[c] \in Seq(Job)
    BY DEF TypeInv, TypeOK
  <1>2. version \in [Stock -> Nat] /\ dbVersion \in [Stock -> Nat] /\ unflushed \in [Stock -> Nat]
    BY DEF TypeInv, TypeOK
  <1>3. \A c \in City : \A i \in 1..Len(queue[c]) : queue[c][i] \in Job
    BY <1>1
  <1>4. ASSUME NEW c \in City, NEW i \in 1..Len(queue'[c])
        PROVE  \/ i \in 1..Len(queue[c]) /\ queue'[c][i] = queue[c][i]
               \/ c \in cs /\ i = Len(queue[c]) + 1 /\ queue'[c][i] = job[c]
    <2>1. CASE c \in cs
      <3>1. queue'[c] = Append(queue[c], job[c]) /\ job[c] \in Job
        BY <2>1
      <3> QED
        BY <1>1, <2>1, <3>1, AppendToQueue
    <2>2. CASE c \notin cs
      BY <1>4, <2>2
    <2> QED
      BY <2>1, <2>2
  <1>5. JobShape'
    BY <1>4 DEF VersionInv, JobShape
  <1>6. ASSUME NEW c \in City, NEW i \in 1..Len(queue[c]), NEW s \in Stock, Writes(queue[c][i], s)
        PROVE  /\ queue[c][i].ver[s] \in Nat /\ queue[c][i].ver[s] <= version[s]
               /\ unflushed[s] > 0 => queue[c][i].ver[s] < version[s]
               /\ queue[c][i].ver[s] > dbVersion[s] \/ (i = 1 /\ queue[c][i] \in unacked)
    BY <1>3, <1>6 DEF VersionInv, QueueAbove, Job
  <1>0. ASSUME NEW s \in Stock
        PROVE  /\ version[s] \in Nat /\ version'[s] \in Nat /\ version'[s] >= version[s]
               /\ unflushed[s] \in Nat /\ unflushed'[s] \in Nat /\ dbVersion[s] \in Nat
               /\ dbVersion'[s] = dbVersion[s] /\ dbVersion[s] <= version[s]
               /\ unflushed'[s] > 0 => unflushed[s] > 0
               /\ unflushed[s] > 0 => dbVersion[s] < version[s]
    BY <1>2 DEF VersionInv, DatabaseBehind
  <1>7. ASSUME NEW c \in City, NEW i \in 1..Len(queue'[c]), NEW s \in Stock, Writes(queue'[c][i], s)
        PROVE  /\ queue'[c][i].ver[s] <= version'[s]
               /\ unflushed'[s] > 0 => queue'[c][i].ver[s] < version'[s]
               /\ queue'[c][i].ver[s] > dbVersion[s] \/ (i = 1 /\ queue'[c][i] \in unacked)
    <2>1. CASE i \in 1..Len(queue[c]) /\ queue'[c][i] = queue[c][i]
      <3>1. Writes(queue[c][i], s) /\ i \in 1..Len(queue[c])
        BY <1>7, <2>1
      <3>2. /\ queue[c][i].ver[s] \in Nat /\ queue[c][i].ver[s] <= version[s]
            /\ unflushed[s] > 0 => queue[c][i].ver[s] < version[s]
            /\ queue[c][i].ver[s] > dbVersion[s] \/ (i = 1 /\ queue[c][i] \in unacked)
        BY <1>6, <3>1
      <3> QED
        BY <1>0, <2>1, <3>2
    <2>2. CASE c \in cs /\ queue'[c][i] = job[c]
      <3>1. /\ job[c].ver[s] = version'[s] /\ unflushed'[s] = 0
            /\ version'[s] > version[s] \/ unflushed[s] > 0
        BY <1>7, <2>2
      <3> QED
        BY <1>0, <2>2, <3>1
    <2> QED
      BY <1>4, <2>1, <2>2
  <1>8. QueueAbove'
    BY <1>7 DEF QueueAbove, Writes
  <1>9. \A c \in City : \A i \in 1..Len(queue'[c]) : \A k \in 1..Len(queue'[c]) : \A s \in Stock :
           i < k /\ Writes(queue'[c][i], s) /\ Writes(queue'[c][k], s)
           => queue'[c][i].ver[s] < queue'[c][k].ver[s]
    <2> TAKE c \in City
    <2> TAKE i \in 1..Len(queue'[c])
    <2> TAKE k \in 1..Len(queue'[c])
    <2> TAKE s \in Stock
    <2>0. HAVE i < k /\ Writes(queue'[c][i], s) /\ Writes(queue'[c][k], s)
    <2>1. i \in 1..Len(queue[c]) /\ queue'[c][i] = queue[c][i]
      <3>1. Len(queue[c]) \in Nat /\ k \in Nat /\ i \in Nat
        BY <1>1
      <3> QED
        BY <1>4, <2>0, <3>1
    <2>2. CASE k \in 1..Len(queue[c]) /\ queue'[c][k] = queue[c][k]
      BY <2>0, <2>1, <2>2 DEF VersionInv, QueueIncreasing
    <2>3. CASE c \in cs /\ queue'[c][k] = job[c]
      <3>1. /\ job[c].ver[s] = version'[s]
            /\ version'[s] > version[s] \/ unflushed[s] > 0
        BY <2>0, <2>3
      <3>2. /\ queue[c][i].ver[s] \in Nat /\ queue[c][i].ver[s] <= version[s]
            /\ unflushed[s] > 0 => queue[c][i].ver[s] < version[s]
        BY <1>6, <2>0, <2>1
      <3> QED
        BY <1>0, <2>1, <2>3, <3>1, <3>2
    <2> QED
      BY <1>4, <2>2, <2>3
  <1>10. QueueIncreasing'
    BY <1>9, Zenon DEF QueueIncreasing, Writes
  <1>11. DatabaseBehind'
    <2>1. ASSUME NEW s \in Stock
          PROVE  dbVersion'[s] <= version'[s] /\ (unflushed'[s] > 0 => dbVersion'[s] < version'[s])
      BY <1>0
    <2> QED
      BY <2>1 DEF DatabaseBehind
  <1> QED
    BY <1>5, <1>8, <1>10, <1>11 DEF VersionInv

\* A worker takes the head off one FIFO; the database moves up to the head's
\* version at most, and only if the head is what leaves or what committed.
LEMMA DequeueStep ==
    ASSUME TypeInv, VersionInv, UNCHANGED <<version, unflushed, carried>>,
           NEW c \in City, Runnable(c), Dequeue(Head(queue[c])),
           unacked' = unacked \ {Head(queue[c])},
           dbVersion' \in [Stock -> Nat],
           \A s \in Stock : \/ dbVersion'[s] = dbVersion[s]
                            \/ Writes(Head(queue[c]), s) /\ dbVersion'[s] = Head(queue[c]).ver[s]
    PROVE  VersionInv'
  <1> DEFINE j == Head(queue[c])
  <1>1. \A k \in City : queue[k] \in Seq(Job)
    BY DEF TypeInv, TypeOK
  <1>2. /\ queue[c] # <<>> /\ j = queue[c][1] /\ 1 \in 1..Len(queue[c]) /\ j \in Job
        /\ j.cities = {c} /\ \A s \in Stock : Writes(j, s) => s[1] = c
        /\ \A s \in Stock : j.ver[s] \in Nat
    <2>1. queue[c] # <<>> /\ j = queue[c][1] /\ 1 \in 1..Len(queue[c]) /\ j \in Job
      BY <1>1, TailOfQueue DEF Runnable
    <2> QED
      BY <2>1 DEF VersionInv, JobShape, Job
  <1>3. /\ queue'[c] = Tail(queue[c])
        /\ \A k \in City : k # c => queue'[k] = queue[k]
    BY <1>2 DEF Dequeue
  <1>4. \A i \in 1..Len(queue'[c]) : i + 1 \in 1..Len(queue[c]) /\ queue'[c][i] = queue[c][i + 1]
    BY <1>1, <1>2, <1>3, TailOfQueue
  <1>5. ASSUME NEW s \in Stock
        PROVE  /\ version[s] \in Nat /\ unflushed[s] \in Nat /\ dbVersion[s] \in Nat /\ dbVersion'[s] \in Nat
               /\ dbVersion[s] <= version[s] /\ (unflushed[s] > 0 => dbVersion[s] < version[s])
    BY DEF TypeInv, TypeOK, VersionInv, DatabaseBehind
  <1>6. ASSUME NEW k \in City, NEW i \in 1..Len(queue[k]), NEW s \in Stock, Writes(queue[k][i], s)
        PROVE  /\ queue[k][i].ver[s] \in Nat /\ queue[k][i].ver[s] <= version[s] /\ s[1] = k
               /\ unflushed[s] > 0 => queue[k][i].ver[s] < version[s]
               /\ queue[k][i].ver[s] > dbVersion[s] \/ (i = 1 /\ queue[k][i] \in unacked)
    <2>1. queue[k][i] \in Job
      BY <1>1
    <2> QED
      BY <1>6, <2>1 DEF VersionInv, QueueAbove, JobShape, Job
  <1>7. JobShape'
    <2>1. \A k \in City : \A i \in 1..Len(queue'[k]) :
             /\ queue'[k][i].cities = {k}
             /\ \A s \in Stock : Writes(queue'[k][i], s) => s[1] = k
      <3> TAKE k \in City
      <3> TAKE i \in 1..Len(queue'[k])
      <3>1. \E n \in 1..Len(queue[k]) : queue'[k][i] = queue[k][n]
        BY <1>3, <1>4
      <3> QED
        BY <3>1 DEF VersionInv, JobShape
    <2> QED
      BY <2>1, Zenon DEF JobShape, Writes
  <1>8. QueueAbove'
    <2>1. \A k \in City : \A i \in 1..Len(queue'[k]) : \A s \in Stock :
             Writes(queue'[k][i], s) =>
                /\ queue'[k][i].ver[s] <= version[s]
                /\ unflushed[s] > 0 => queue'[k][i].ver[s] < version[s]
                /\ queue'[k][i].ver[s] > dbVersion'[s] \/ (i = 1 /\ queue'[k][i] \in unacked')
      <3> TAKE k \in City
      <3> TAKE i \in 1..Len(queue'[k])
      <3> TAKE s \in Stock
      <3>0. HAVE Writes(queue'[k][i], s)
      <3>1. CASE k = c
        <4>1. /\ i \in Nat /\ i >= 1 /\ i + 1 \in 1..Len(queue[c]) /\ queue'[c][i] = queue[c][i + 1]
              /\ Writes(queue[c][i + 1], s)
          BY <1>1, <1>4, <3>0, <3>1
        <4>2. /\ queue[c][i + 1].ver[s] \in Nat /\ queue[c][i + 1].ver[s] <= version[s]
              /\ unflushed[s] > 0 => queue[c][i + 1].ver[s] < version[s]
              /\ queue[c][i + 1].ver[s] > dbVersion[s] \/ i + 1 = 1
          BY <1>6, <4>1
        <4>3. Writes(j, s) => j.ver[s] < queue[c][i + 1].ver[s]
          <5>1. 1 < i + 1
            BY <4>1
          <5> QED
            BY <1>2, <4>1, <5>1 DEF VersionInv, QueueIncreasing
        <4> QED
          BY <1>5, <3>1, <4>1, <4>2, <4>3
      <3>2. CASE k # c
        <4>1. queue'[k][i] = queue[k][i] /\ i \in 1..Len(queue[k]) /\ Writes(queue[k][i], s)
          BY <1>3, <3>0, <3>2
        <4>2. s[1] = k /\ ~Writes(j, s)
          BY <1>2, <1>6, <3>2, <4>1
        <4>3. queue[k][i].cities = {k} /\ queue[k][i] # j
          BY <1>2, <3>2, <4>1 DEF VersionInv, JobShape
        <4> QED
          BY <1>6, <4>1, <4>2, <4>3
      <3> QED
        BY <3>1, <3>2
    <2> QED
      BY <2>1 DEF QueueAbove, Writes
  <1>9. QueueIncreasing'
    <2>1. \A k \in City : \A i \in 1..Len(queue'[k]) : \A n \in 1..Len(queue'[k]) : \A s \in Stock :
             i < n /\ Writes(queue'[k][i], s) /\ Writes(queue'[k][n], s)
             => queue'[k][i].ver[s] < queue'[k][n].ver[s]
      <3> TAKE k \in City
      <3> TAKE i \in 1..Len(queue'[k])
      <3> TAKE n \in 1..Len(queue'[k])
      <3> TAKE s \in Stock
      <3>0. HAVE i < n /\ Writes(queue'[k][i], s) /\ Writes(queue'[k][n], s)
      <3>1. CASE k = c
        <4>1. /\ i + 1 \in 1..Len(queue[c]) /\ queue'[c][i] = queue[c][i + 1]
              /\ n + 1 \in 1..Len(queue[c]) /\ queue'[c][n] = queue[c][n + 1]
          BY <1>4, <3>1
        <4>2. i + 1 < n + 1
          BY <3>0
        <4> QED
          BY <3>0, <3>1, <4>1, <4>2 DEF VersionInv, QueueIncreasing
      <3>2. CASE k # c
        BY <1>3, <3>0, <3>2 DEF VersionInv, QueueIncreasing
      <3> QED
        BY <3>1, <3>2
    <2> QED
      BY <2>1, Zenon DEF QueueIncreasing, Writes
  <1>10. DatabaseBehind'
    <2>1. ASSUME NEW s \in Stock
          PROVE  dbVersion'[s] <= version[s] /\ (unflushed[s] > 0 => dbVersion'[s] < version[s])
      <3>1. CASE dbVersion'[s] = dbVersion[s]
        BY <1>5, <3>1
      <3>2. CASE Writes(j, s) /\ dbVersion'[s] = j.ver[s]
        BY <1>2, <1>6, <3>2
      <3> QED
        BY <3>1, <3>2
    <2> QED
      BY <2>1 DEF DatabaseBehind
  <1>11. CarriedTouched'
    BY DEF VersionInv, CarriedTouched
  <1> QED
    BY <1>7, <1>8, <1>9, <1>10, <1>11 DEF VersionInv


\* The commit whose answer is lost: the head stays, now known to the database.
LEMMA CommitUnackedStep ==
    ASSUME TypeInv, VersionInv, NEW c \in City, CommitUnacked(c)
    PROVE  VersionInv'
  <1> DEFINE j == Head(queue[c])
  <1>1. \A k \in City : queue[k] \in Seq(Job)
    BY DEF TypeInv, TypeOK
  <1>2. /\ j = queue[c][1] /\ 1 \in 1..Len(queue[c]) /\ j \in Job
        /\ j.cities = {c} /\ \A s \in Stock : Writes(j, s) => s[1] = c
        /\ \A s \in Stock : j.ver[s] \in Nat
    <2>1. j = queue[c][1] /\ 1 \in 1..Len(queue[c]) /\ j \in Job
      BY <1>1, TailOfQueue DEF CommitUnacked, Runnable
    <2> QED
      BY <2>1 DEF VersionInv, JobShape, Job
  <1>3. /\ UNCHANGED <<queue, version, unflushed, carried>> /\ unacked' = unacked \cup {j}
        /\ \A s \in Stock : \/ dbVersion'[s] = dbVersion[s]
                            \/ Writes(j, s) /\ dbVersion'[s] = j.ver[s]
    BY DEF CommitUnacked, ApplyStock, ram
  <1>4. ASSUME NEW s \in Stock
        PROVE  /\ version[s] \in Nat /\ unflushed[s] \in Nat /\ dbVersion[s] \in Nat
               /\ dbVersion[s] <= version[s] /\ (unflushed[s] > 0 => dbVersion[s] < version[s])
    BY DEF TypeInv, TypeOK, VersionInv, DatabaseBehind
  <1>5. ASSUME NEW k \in City, NEW i \in 1..Len(queue[k]), NEW s \in Stock, Writes(queue[k][i], s)
        PROVE  /\ queue[k][i].ver[s] \in Nat /\ queue[k][i].ver[s] <= version[s] /\ s[1] = k
               /\ unflushed[s] > 0 => queue[k][i].ver[s] < version[s]
               /\ queue[k][i].ver[s] > dbVersion[s] \/ (i = 1 /\ queue[k][i] \in unacked)
    <2>1. queue[k][i] \in Job
      BY <1>1
    <2> QED
      BY <1>5, <2>1 DEF VersionInv, QueueAbove, JobShape, Job
  <1>6. JobShape' /\ QueueIncreasing' /\ CarriedTouched'
    BY <1>3 DEF VersionInv, JobShape, QueueIncreasing, CarriedTouched
  <1>7. ASSUME NEW k \in City, NEW i \in 1..Len(queue[k]), NEW s \in Stock, Writes(queue[k][i], s)
        PROVE  queue[k][i].ver[s] > dbVersion'[s] \/ (i = 1 /\ queue[k][i] \in unacked')
    <2>1. CASE dbVersion'[s] = dbVersion[s]
      BY <1>3, <1>5, <1>7, <2>1
    <2>2. CASE Writes(j, s) /\ dbVersion'[s] = j.ver[s]
      <3>1. k = c
        BY <1>2, <1>5, <1>7, <2>2
      <3>2. CASE i = 1
        BY <1>2, <1>3, <3>1, <3>2
      <3>3. CASE i # 1
        <4>1. 1 < i
          BY <1>7, <3>3
        <4>2. queue[c][1].ver[s] < queue[c][i].ver[s]
          BY <1>2, <1>7, <2>2, <3>1, <4>1 DEF VersionInv, QueueIncreasing
        <4> QED
          BY <1>2, <1>5, <1>7, <2>2, <3>1, <4>2
      <3> QED
        BY <3>2, <3>3
    <2> QED
      BY <1>3, <2>1, <2>2
  <1>8. QueueAbove'
    <2>1. \A k \in City : \A i \in 1..Len(queue'[k]) : \A s \in Stock :
             Writes(queue'[k][i], s) =>
                /\ queue'[k][i].ver[s] <= version'[s]
                /\ unflushed'[s] > 0 => queue'[k][i].ver[s] < version'[s]
                /\ queue'[k][i].ver[s] > dbVersion'[s] \/ (i = 1 /\ queue'[k][i] \in unacked')
      BY <1>3, <1>5, <1>7
    <2> QED
      BY <2>1, Zenon DEF QueueAbove, Writes
  <1>9. DatabaseBehind'
    <2>1. ASSUME NEW s \in Stock
          PROVE  dbVersion'[s] <= version[s] /\ (unflushed[s] > 0 => dbVersion'[s] < version[s])
      <3>1. CASE dbVersion'[s] = dbVersion[s]
        BY <1>4, <3>1
      <3>2. CASE Writes(j, s) /\ dbVersion'[s] = j.ver[s]
        BY <1>2, <1>5, <3>2
      <3> QED
        BY <1>3, <3>1, <3>2
    <2> QED
      BY <1>3, <2>1 DEF DatabaseBehind
  <1> QED
    BY <1>6, <1>8, <1>9 DEF VersionInv

\* The workers' other steps all take the head away.
LEMMA WorkerStep ==
    ASSUME TypeInv, TypeInv', VersionInv, NEW c \in City, Worker(c)
    PROVE  VersionInv'
  <1>1. dbVersion' \in [Stock -> Nat]
    BY DEF TypeInv, TypeOK
  <1>2. CASE Commit(c)
    <2>1. UNCHANGED <<version, unflushed, carried>> /\ Runnable(c) /\ Dequeue(Head(queue[c]))
          /\ unacked' = unacked \ {Head(queue[c])}
      BY <1>2 DEF Commit, Finish, ram
    <2>2. \A s \in Stock : \/ dbVersion'[s] = dbVersion[s]
                           \/ Writes(Head(queue[c]), s) /\ dbVersion'[s] = Head(queue[c]).ver[s]
      BY <1>2 DEF Commit, ApplyStock
    <2> QED
      BY <1>1, <2>1, <2>2, DequeueStep
  <1>3. CASE Skip(c) \/ Refuse(c) \/ GiveUp(c)
    <2>1. UNCHANGED <<version, unflushed, carried, dbVersion>> /\ Runnable(c) /\ Dequeue(Head(queue[c]))
          /\ unacked' = unacked \ {Head(queue[c])}
      BY <1>3 DEF Skip, Refuse, GiveUp, Finish, ram, db
    <2> QED
      BY <1>1, <2>1, DequeueStep
  <1>4. CASE CommitUnacked(c)
    BY <1>4, CommitUnackedStep
  <1> QED
    BY <1>2, <1>3, <1>4 DEF Worker


\* What RAM does on its own: a deposit, a compensation, an answer.
LEMMA HandlersStep ==
    ASSUME OneCityOrders, TypeInv, TypeInv', VersionInv,
           (\E s \in Stock : Deposit(s))
           \/ (\E m \in inbox : HandleFlushFailed(m) \/ HandleConfirmed(m) \/ HandleRejected(m))
    PROVE  VersionInv'
  <1>1. /\ version' \in [Stock -> Nat] /\ unflushed' \in [Stock -> Nat]
        /\ version \in [Stock -> Nat] /\ unflushed \in [Stock -> Nat]
        /\ carried \in [Order -> [Stock -> Nat]] /\ inbox \subseteq Message
    BY DEF TypeInv, TypeOK
  <1>2. ASSUME NEW s \in Stock, Deposit(s) PROVE VersionInv'
    <2>1. UNCHANGED <<queue, dbVersion, unacked, carried>>
      BY <1>2 DEF Deposit, db
    <2>2. CarriedTouched'
      BY <2>1 DEF VersionInv, CarriedTouched
    <2>3. \A t \in Stock : /\ version'[t] >= version[t]
                           /\ unflushed'[t] > 0 => version'[t] > version[t] \/ unflushed[t] > 0
      BY <1>1, <1>2 DEF Deposit
    <2> QED
      BY <1>1, <2>1, <2>2, <2>3, RamStep
  <1>3. ASSUME NEW m \in inbox, HandleFlushFailed(m) PROVE VersionInv'
    <2>1. UNCHANGED <<queue, dbVersion, unacked, carried>>
      BY <1>3 DEF HandleFlushFailed, db
    <2>2. CarriedTouched'
      BY <2>1 DEF VersionInv, CarriedTouched
    <2>3. \A t \in Stock : /\ version'[t] >= version[t]
                           /\ unflushed'[t] > 0 => version'[t] > version[t] \/ unflushed[t] > 0
      <3>1. m.stock \in Stock
        BY <1>1, <1>3 DEF HandleFlushFailed, Message
      <3> QED
        BY <1>1, <1>3, <3>1 DEF HandleFlushFailed
    <2> QED
      BY <1>1, <2>1, <2>2, <2>3, RamStep
  <1>4. ASSUME NEW m \in inbox, m.kind = "resolved" PROVE m.ord \in Order
    BY <1>1, <1>4 DEF Message
  <1>5. ASSUME NEW m \in inbox, HandleConfirmed(m) PROVE VersionInv'
    <2>1. UNCHANGED <<queue, dbVersion, unacked, unflushed>> /\ m.ord \in Order
          /\ carried' = [carried EXCEPT ![m.ord] = [s \in Stock |-> 0]]
      BY <1>4, <1>5 DEF HandleConfirmed, db
    <2>2. CarriedTouched'
      BY <1>1, <2>1 DEF VersionInv, CarriedTouched
    <2>3. \A s \in Stock : Gets[m.ord][s] = 0
      BY <2>1 DEF OneCityOrders
    <2>4. \A t \in Stock : version'[t] = version[t] /\ version[t] \in Nat
      BY <1>1, <1>5, <2>3 DEF HandleConfirmed
    <2>5. \A t \in Stock : /\ version'[t] >= version[t]
                           /\ unflushed'[t] > 0 => version'[t] > version[t] \/ unflushed[t] > 0
      BY <2>1, <2>4
    <2> QED
      BY <1>1, <2>1, <2>2, <2>5, RamStep
  <1>6. ASSUME NEW m \in inbox, HandleRejected(m) PROVE VersionInv'
    <2>1. UNCHANGED <<queue, dbVersion, unacked>> /\ m.ord \in Order
          /\ carried' = [carried EXCEPT ![m.ord] = [s \in Stock |-> 0]]
      BY <1>4, <1>6 DEF HandleRejected, db
    <2>2. CarriedTouched'
      BY <1>1, <2>1 DEF VersionInv, CarriedTouched
    <2>3. ASSUME NEW t \in Stock
          PROVE  /\ version'[t] >= version[t]
                 /\ unflushed'[t] > 0 => version'[t] > version[t] \/ unflushed[t] > 0
      <3>1. /\ version'[t] = IF Pays[m.ord][t] > 0 THEN version[t] + 1 ELSE version[t]
            /\ unflushed'[t] = unflushed[t] + carried[m.ord][t]
        BY <1>6 DEF HandleRejected
      <3>2. version[t] \in Nat /\ unflushed[t] \in Nat /\ carried[m.ord][t] \in Nat
        BY <1>1, <2>1
      <3>3. carried[m.ord][t] > 0 => Pays[m.ord][t] > 0
        <4>1. Gets[m.ord][t] = 0
          BY <2>1 DEF OneCityOrders
        <4> QED
          BY <2>1, <4>1 DEF VersionInv, CarriedTouched, Touches
      <3> QED
        BY <3>1, <3>2, <3>3
    <2> QED
      BY <1>1, <2>1, <2>2, <2>3, RamStep
  <1> QED
    BY <1>2, <1>3, <1>5, <1>6

LEMMA FlushStocksStep ==
    ASSUME TypeInv, TypeInv', VersionInv, FlushStocks
    PROVE  VersionInv'
  <1> DEFINE fits == {c \in {d \in dirty : PendingDeposits(unflushed, d)} : HasRoom({c})}
  <1> DEFINE job == [c \in City |-> FlushJob(c)]
  <1>1. /\ version' \in [Stock -> Nat] /\ unflushed' \in [Stock -> Nat]
        /\ version \in [Stock -> Nat] /\ unflushed \in [Stock -> Nat] /\ dirty \subseteq City
    BY DEF TypeInv, TypeOK
  <1>2. /\ UNCHANGED <<dbVersion, unacked, version, carried>>
        /\ unflushed' = [s \in Stock |-> IF s[1] \in dirty THEN 0 ELSE unflushed[s]]
        /\ queue' = [c \in City |-> IF c \in fits THEN Append(queue[c], FlushJob(c)) ELSE queue[c]]
    BY DEF FlushStocks, db
  <1>3. CarriedTouched'
    BY <1>2 DEF VersionInv, CarriedTouched
  <1>4. queue' = [c \in City |-> IF c \in fits THEN Append(queue[c], job[c]) ELSE queue[c]]
    BY <1>2
  <1>5. fits \in SUBSET City
    BY <1>1
  <1>6. ASSUME NEW c \in fits
        PROVE  /\ job[c] \in Job /\ job[c].cities = {c}
               /\ \A s \in Stock : Writes(job[c], s) =>
                     /\ s[1] = c
                     /\ job[c].ver[s] = version'[s] /\ unflushed'[s] = 0
                     /\ version'[s] > version[s] \/ unflushed[s] > 0
    <2>1. c \in City /\ c \in dirty /\ job[c] = FlushJob(c)
      BY <1>1
    <2>2. job[c] \in Job
      BY <2>1, FlushJobType
    <2>3. job[c].cities = {c}
      BY <2>1 DEF FlushJob
    <2>4. ASSUME NEW s \in Stock, Writes(job[c], s)
          PROVE  /\ s[1] = c
                 /\ job[c].ver[s] = version'[s] /\ unflushed'[s] = 0
                 /\ version'[s] > version[s] \/ unflushed[s] > 0
      <3>1. job[c].ver[s] = (IF s[1] = c /\ unflushed[s] # 0 THEN version[s] ELSE 0) /\ job[c].ver[s] > 0
        BY <2>1, <2>4 DEF FlushJob, Writes
      <3>2. s[1] = c /\ unflushed[s] # 0 /\ job[c].ver[s] = version[s]
        BY <3>1
      <3> QED
        BY <1>1, <1>2, <2>1, <3>2
    <2> QED
      BY <2>2, <2>3, <2>4
  <1>7. \A s \in Stock : version'[s] >= version[s] /\ unflushed'[s] <= unflushed[s]
    BY <1>1, <1>2
  <1> HIDE DEF fits, job
  <1> QED
    BY <1>1, <1>2, <1>3, <1>4, <1>5, <1>6, <1>7, SubmitStep


\* A reservation gives every stock it touches a version of its own and takes
\* all its deposits; if the queue drops the job, only RAM has changed.
LEMMA ReserveStep ==
    ASSUME OneCityOrders, TypeInv, TypeInv', VersionInv, NEW o \in Order, Reserve(o)
    PROVE  VersionInv'
  <1> DEFINE j == OrderJob(o)
  <1> DEFINE job == [c \in City |-> OrderJob(o)]
  <1>1. /\ version' \in [Stock -> Nat] /\ unflushed' \in [Stock -> Nat]
        /\ version \in [Stock -> Nat] /\ unflushed \in [Stock -> Nat]
        /\ carried \in [Order -> [Stock -> Nat]]
    BY DEF TypeInv, TypeOK
  <1>2. /\ UNCHANGED <<dbVersion, unacked>>
        /\ version' = [s \in Stock |-> IF Touches(o, s) THEN version[s] + 1 ELSE version[s]]
        /\ unflushed' = [s \in Stock |-> IF Touches(o, s) THEN 0 ELSE unflushed[s]]
        /\ carried' = [carried EXCEPT ![o] = [s \in Stock |-> IF Touches(o, s) THEN unflushed[s] ELSE 0]]
        /\ \/ queue' = [c \in City |-> IF c \in j.cities THEN Append(queue[c], j) ELSE queue[c]]
           \/ queue' = queue
    BY DEF Reserve, db
  <1>3. CarriedTouched'
    BY <1>1, <1>2 DEF VersionInv, CarriedTouched
  <1>4. \A s \in Stock : /\ version'[s] >= version[s] /\ unflushed'[s] <= unflushed[s]
                         /\ unflushed'[s] > 0 => unflushed[s] > 0
    BY <1>1, <1>2
  <1>5. PICK c0 \in City : KeysOf(o) = {c0}
    BY DEF OneCityOrders
  <1>6. j \in Job /\ j.cities = {c0}
    BY <1>5, OrderJobType
  <1>7. ASSUME NEW s \in Stock, Writes(j, s)
        PROVE  /\ s[1] = c0
               /\ j.ver[s] = version'[s] /\ unflushed'[s] = 0
               /\ version'[s] > version[s]
    <2>1. Touches(o, s) /\ j.ver[s] = version[s] + 1
      BY <1>7 DEF OrderJob, Writes
    <2>2. s[1] \in KeysOf(o)
      BY <2>1 DEF KeysOf, Stock
    <2> QED
      BY <1>1, <1>2, <1>5, <2>1, <2>2
  <1>8. CASE queue' = [c \in City |-> IF c \in j.cities THEN Append(queue[c], j) ELSE queue[c]]
    <2>1. queue' = [c \in City |-> IF c \in {c0} THEN Append(queue[c], job[c]) ELSE queue[c]]
      BY <1>6, <1>8
    <2>2. \A c \in {c0} : /\ job[c] \in Job /\ job[c].cities = {c}
                          /\ \A s \in Stock : Writes(job[c], s) =>
                                /\ s[1] = c
                                /\ job[c].ver[s] = version'[s] /\ unflushed'[s] = 0
                                /\ version'[s] > version[s] \/ unflushed[s] > 0
      BY <1>6, <1>7
    <2>3. {c0} \in SUBSET City
      OBVIOUS
    <2>4. \A s \in Stock : version'[s] >= version[s] /\ unflushed'[s] <= unflushed[s]
      BY <1>4
    <2>5. UNCHANGED <<dbVersion, unacked>>
      BY <1>2
    <2> HIDE DEF job, j
    <2> QED
      BY <1>1, <1>3, <2>1, <2>2, <2>3, <2>4, <2>5, SubmitStep
  <1>9. CASE queue' = queue
    BY <1>1, <1>2, <1>3, <1>4, <1>9, RamStep
  <1> QED
    BY <1>2, <1>8, <1>9

\* A boot loads the version of the database and starts with empty queues.
LEMMA RestartStep == ASSUME TypeInv, Restart PROVE VersionInv'
  <1>1. \A c \in City : queue'[c] = <<>>
    BY DEF Restart
  <1>2. /\ version' = dbVersion /\ dbVersion' = dbVersion
        /\ unflushed' = [s \in Stock |-> 0]
        /\ carried' = [o \in Order |-> [s \in Stock |-> 0]]
        /\ dbVersion \in [Stock -> Nat]
    BY DEF Restart, db, TypeInv, TypeOK
  <1>3. DatabaseBehind' /\ CarriedTouched'
    BY <1>2 DEF DatabaseBehind, CarriedTouched
  <1> QED
    BY <1>1, <1>3 DEF VersionInv, JobShape, QueueAbove, QueueIncreasing

LEMMA VersionNext ==
    OneCityOrders /\ TypeInv /\ TypeInv' /\ VersionInv /\ [Next]_vars => VersionInv'
  <1> SUFFICES ASSUME OneCityOrders, TypeInv, TypeInv', VersionInv, [Next]_vars PROVE VersionInv'
    OBVIOUS
  <1>1. CASE Loop
    BY <1>1, HandlersStep, FlushStocksStep, ReserveStep DEF Loop
  <1>2. CASE \E c \in City : Worker(c)
    BY <1>2, WorkerStep
  <1>3. CASE Restart
    BY <1>3, RestartStep
  <1>4. CASE UNCHANGED vars
    BY <1>4 DEF vars, ram, db, VersionInv, JobShape, QueueAbove, QueueIncreasing,
                DatabaseBehind, CarriedTouched, Writes
  <1> QED
    BY <1>1, <1>2, <1>3, <1>4 DEF Next

LEMMA VersionsImplyFresh == TypeInv /\ VersionInv => NoStaleWrite
  <1> SUFFICES ASSUME TypeInv, VersionInv, NEW c \in City, Runnable(c),
                      Head(queue[c]) \notin unacked,
                      NEW s \in Stock, Writes(Head(queue[c]), s)
               PROVE  Newer(Head(queue[c]), s)
    BY DEF NoStaleWrite
  <1>1. Head(queue[c]) = queue[c][1] /\ 1 \in 1..Len(queue[c])
    BY TailOfQueue DEF Runnable, TypeInv, TypeOK
  <1> QED
    BY <1>1 DEF VersionInv, QueueAbove, Newer

\* ADR-023 (1): the version that rejects old writes never meets one.  Whatever
\* the schedule of ticks and workers, with jobs retried, dropped and
\* compensated and with restarts, no job of a single city arrives behind the
\* database: no deposit and no reservation is discarded as stale.
THEOREM NoWriteArrivesOld == OneCityOrders => (Spec => []NoStaleWrite)
  <1> SUFFICES ASSUME OneCityOrders PROVE Spec => []NoStaleWrite
    OBVIOUS
  <1>1. Init => TypeInv /\ VersionInv
    BY TypeInvInit, VersionInit
  <1>2. (TypeInv /\ VersionInv) /\ [Next]_vars => (TypeInv /\ VersionInv)'
    BY TypeInvNext, VersionNext
  <1>3. TypeInv /\ VersionInv => NoStaleWrite
    BY VersionsImplyFresh
  <1> QED
    BY <1>1, <1>2, <1>3, PTL DEF Spec


-----------------------------------------------------------------------------
(* The dirty set and the fate of confirmed orders.                         *)

\* RAM's bookkeeping: deposits travel with the orders that touch their stock,
\* and what is left to write is where flushStocks will look for it.
DirtyInv == DirtyTracked /\ CarriedTouched

LEMMA CarriedNext == TypeInv /\ CarriedTouched /\ [Next]_vars => CarriedTouched'
  <1> SUFFICES ASSUME TypeInv, CarriedTouched, [Next]_vars PROVE CarriedTouched'
    OBVIOUS
  <1>1. carried \in [Order -> [Stock -> Nat]] /\ inbox \subseteq Message
    BY DEF TypeInv, TypeOK
  <1>2. CASE \E o \in Order : Reserve(o)
    BY <1>1, <1>2 DEF Reserve, CarriedTouched
  <1>3. CASE \E m \in inbox : HandleConfirmed(m) \/ HandleRejected(m)
    <2>1. PICK m \in inbox : HandleConfirmed(m) \/ HandleRejected(m)
      BY <1>3
    <2>2. m.ord \in Order /\ carried' = [carried EXCEPT ![m.ord] = [s \in Stock |-> 0]]
      BY <1>1, <2>1 DEF HandleConfirmed, HandleRejected, Message
    <2> QED
      BY <1>1, <2>2 DEF CarriedTouched
  <1>4. CASE Restart
    BY <1>4 DEF Restart, CarriedTouched
  <1>5. CASE \/ \E s \in Stock : Deposit(s)
             \/ FlushStocks
             \/ \E m \in inbox : HandleFlushFailed(m)
             \/ \E c \in City : Worker(c)
             \/ UNCHANGED vars
    <2>1. carried' = carried
      BY <1>5 DEF Deposit, FlushStocks, HandleFlushFailed, Worker, Commit, CommitUnacked,
                  Skip, Refuse, GiveUp, vars, ram
    <2> QED
      BY <2>1 DEF CarriedTouched
  <1> QED
    BY <1>2, <1>3, <1>4, <1>5 DEF Next, Loop

\* markStockDirty over the cities an order touches, once the deposits of the
\* stocks it touches, and of no other, have changed.
LEMMA MarkDirtyTracks ==
    ASSUME DirtyTracked, NEW o \in Order, unflushed' \in [Stock -> Nat],
           dirty' = MarkDirty(unflushed', KeysOf(o)),
           \A s \in Stock : ~Touches(o, s) => unflushed'[s] = unflushed[s]
    PROVE  DirtyTracked'
  <1>1. ASSUME NEW c \in City, PendingDeposits(unflushed', c) PROVE c \in dirty'
    <2>1. PICK r \in Resource : unflushed'[<<c, r>>] # 0
      BY <1>1 DEF PendingDeposits
    <2>2. CASE c \in KeysOf(o)
      BY <1>1, <2>2 DEF MarkDirty
    <2>3. CASE c \notin KeysOf(o)
      <3>1. ~Touches(o, <<c, r>>) /\ <<c, r>> \in Stock
        BY <2>3 DEF KeysOf, Stock
      <3>2. unflushed[<<c, r>>] # 0
        BY <2>1, <3>1
      <3>3. c \in dirty
        BY <3>2 DEF DirtyTracked, PendingDeposits
      <3> QED
        BY <2>3, <3>3 DEF MarkDirty
    <2> QED
      BY <2>2, <2>3
  <1> QED
    BY <1>1 DEF DirtyTracked, PendingDeposits

LEMMA DirtyNext == TypeInv /\ TypeInv' /\ DirtyInv /\ [Next]_vars => DirtyInv'
  <1> SUFFICES ASSUME TypeInv, TypeInv', DirtyTracked, CarriedTouched, [Next]_vars PROVE DirtyTracked'
    BY CarriedNext DEF DirtyInv
  <1>1. /\ unflushed \in [Stock -> Nat] /\ unflushed' \in [Stock -> Nat]
        /\ carried \in [Order -> [Stock -> Nat]] /\ inbox \subseteq Message
    BY DEF TypeInv, TypeOK
  <1>2. ASSUME NEW t \in Stock, dirty' = dirty \cup {t[1]},
               \A s \in Stock : s # t => unflushed'[s] = unflushed[s]
        PROVE  DirtyTracked'
    <2>1. ASSUME NEW c \in City, NEW r \in Resource, unflushed'[<<c, r>>] # 0 PROVE c \in dirty'
      <3>1. <<c, r>> \in Stock
        BY DEF Stock
      <3>2. CASE <<c, r>> = t
        BY <1>2, <3>2
      <3>3. CASE <<c, r>> # t
        BY <1>2, <2>1, <3>1, <3>3 DEF DirtyTracked, PendingDeposits
      <3> QED
        BY <3>2, <3>3
    <2> QED
      BY <2>1 DEF DirtyTracked, PendingDeposits
  <1>3. CASE \E s \in Stock : Deposit(s)
    <2>1. PICK s \in Stock : Deposit(s)
      BY <1>3
    <2> QED
      BY <1>1, <1>2, <2>1 DEF Deposit
  <1>4. CASE \E m \in inbox : HandleFlushFailed(m)
    <2>1. PICK m \in inbox : HandleFlushFailed(m)
      BY <1>4
    <2>2. m.stock \in Stock
      BY <1>1, <2>1 DEF HandleFlushFailed, Message
    <2> QED
      BY <1>1, <1>2, <2>1, <2>2 DEF HandleFlushFailed
  <1>5. CASE FlushStocks
    <2>1. \A s \in Stock : unflushed'[s] = IF s[1] \in dirty THEN 0 ELSE unflushed[s]
      BY <1>5 DEF FlushStocks
    <2>2. ASSUME NEW c \in City, NEW r \in Resource PROVE unflushed'[<<c, r>>] = 0
      BY <2>1 DEF DirtyTracked, PendingDeposits, Stock
    <2> QED
      BY <2>2 DEF DirtyTracked, PendingDeposits
  <1>6. CASE \E o \in Order : Reserve(o)
    <2>1. PICK o \in Order : Reserve(o)
      BY <1>6
    <2>2. unflushed' = [s \in Stock |-> IF Touches(o, s) THEN 0 ELSE unflushed[s]]
          /\ dirty' = MarkDirty(unflushed', KeysOf(o))
      BY <2>1 DEF Reserve
    <2>3. \A s \in Stock : ~Touches(o, s) => unflushed'[s] = unflushed[s]
      BY <2>2
    <2> QED
      BY <1>1, <2>2, <2>3, MarkDirtyTracks
  <1>7. CASE \E m \in inbox : HandleRejected(m)
    <2>1. PICK m \in inbox : HandleRejected(m)
      BY <1>7
    <2>2. m.ord \in Order
      BY <1>1, <2>1 DEF HandleRejected, Message
    <2>3. unflushed' = [s \in Stock |-> unflushed[s] + carried[m.ord][s]]
          /\ dirty' = MarkDirty(unflushed', KeysOf(m.ord))
      BY <2>1 DEF HandleRejected
    <2>4. ASSUME NEW s \in Stock, ~Touches(m.ord, s) PROVE unflushed'[s] = unflushed[s]
      <3>1. carried[m.ord][s] \in Nat /\ ~(carried[m.ord][s] > 0) /\ unflushed[s] \in Nat
        BY <1>1, <2>2, <2>4 DEF CarriedTouched
      <3> QED
        BY <2>3, <3>1
    <2> QED
      BY <1>1, <2>2, <2>3, <2>4, MarkDirtyTracks
  <1>8. CASE Restart
    BY <1>8 DEF Restart, DirtyTracked, PendingDeposits, Stock
  <1>9. CASE \/ \E m \in inbox : HandleConfirmed(m)
             \/ \E c \in City : Worker(c)
             \/ UNCHANGED vars
    <2>1. unflushed' = unflushed /\ dirty' = dirty
      BY <1>9 DEF HandleConfirmed, Worker, Commit, CommitUnacked, Skip, Refuse, GiveUp, vars, ram
    <2> QED
      BY <2>1 DEF DirtyTracked, PendingDeposits
  <1> QED
    BY <1>3, <1>4, <1>5, <1>6, <1>7, <1>8, <1>9 DEF Next, Loop

\* flushStocks and markStockDirty: the flush visits every city that has
\* something to write, whatever was reserved, released or compensated before.
THEOREM DepositsAreVisited == Spec => []DirtyTracked
  <1>1. Init => DirtyInv
    <2> SUFFICES ASSUME Init PROVE DirtyInv
      OBVIOUS
    <2>1. CarriedTouched
      BY DEF Init, CarriedTouched
    <2>2. \A c \in City : \A r \in Resource : unflushed[<<c, r>>] = 0
      BY DEF Init, Stock
    <2> QED
      BY <2>1, <2>2 DEF DirtyInv, DirtyTracked, PendingDeposits
  <1>2. (TypeInv /\ DirtyInv) /\ [Next]_vars => (TypeInv /\ DirtyInv)'
    BY TypeInvNext, DirtyNext
  <1>3. DirtyInv => DirtyTracked
    BY DEF DirtyInv
  <1> QED
    BY <1>1, <1>2, <1>3, TypeInvInit, PTL DEF Spec


\* The order of an acknowledgement, or of a commit without one, is written.
AcksAreWritten ==
    /\ \A m \in inbox : m.kind = "resolved" /\ m.ok => m.ord \in written
    /\ \A j \in unacked : j.ord \in Order => j.ord \in written

WrittenInv == ConfirmedIsWritten /\ AcksAreWritten

\* A pillage recognises its retry by the version alone, so a worker that skips
\* one needs the versions; the other orders look for their request.
VersionsTrusted == ByVersion = {} \/ OneCityOrders

LEMMA SkippedIsWritten ==
    ASSUME TypeInv, WrittenInv, VersionsTrusted, OneCityOrders => VersionInv,
           NEW c \in City, Skip(c), Head(queue[c]).ord \in Order
    PROVE  Head(queue[c]).ord \in written
  <1>1. CASE Head(queue[c]).ord \in Order \ ByVersion
    BY <1>1 DEF Skip, Recognised
  <1>2. CASE Head(queue[c]).ord \in ByVersion
    <2>1. NoStaleWrite
      BY <1>2, VersionsImplyFresh DEF VersionsTrusted
    <2>2. Runnable(c) /\ Stale(Head(queue[c]))
      BY <1>2 DEF Skip, Recognised
    <2>3. Head(queue[c]) \in unacked
      BY <2>1, <2>2 DEF NoStaleWrite, Stale
    <2> QED
      BY <2>3 DEF WrittenInv, AcksAreWritten
  <1> QED
    BY <1>1, <1>2

LEMMA WorkerWrites ==
    ASSUME TypeInv, WrittenInv, VersionsTrusted, OneCityOrders => VersionInv,
           NEW c \in City, Worker(c)
    PROVE  WrittenInv'
  <1> DEFINE j == Head(queue[c])
  <1>1. /\ status' = status /\ written \subseteq written'
        /\ unacked' \subseteq unacked \cup {j}
        /\ j \in unacked' /\ j \notin unacked => j.ord \in written' \cup {Flush}
    BY DEF Worker, Commit, CommitUnacked, Skip, Refuse, GiveUp, Finish, ApplyStock, ram, db
  <1>2. ASSUME NEW m \in inbox', m \notin inbox, m.kind = "resolved", m.ok
        PROVE  m.ord \in written'
    <2>1. CASE Commit(c)
      <3>1. m \in SuccessOf(j)
        BY <1>2, <2>1 DEF Commit, Finish, Post
      <3>2. m.ord = j.ord /\ j.ord # Flush
        BY <3>1 DEF SuccessOf, Resolved
      <3> QED
        BY <2>1, <3>2 DEF Commit, ApplyStock
    <2>2. CASE CommitUnacked(c)
      BY <1>2, <2>2 DEF CommitUnacked
    <2>3. CASE Skip(c)
      <3>1. m \in SuccessOf(j)
        BY <1>2, <2>3 DEF Skip, Finish, Post
      <3>2. m.ord = j.ord /\ j.ord # Flush
        BY <3>1 DEF SuccessOf, Resolved
      <3>3. j \in Job
        BY <2>3, HeadJobType DEF Skip
      <3> QED
        BY <1>1, <2>3, <3>2, <3>3, SkippedIsWritten DEF Job
    <2>4. CASE Refuse(c) \/ GiveUp(c)
      <3>1. m \in FailureOf(j)
        BY <1>2, <2>4 DEF Refuse, GiveUp, Finish, Post
      <3> QED
        BY <1>2, <3>1 DEF FailureOf, Resolved, FlushFailed
    <2> QED
      BY <2>1, <2>2, <2>3, <2>4 DEF Worker
  <1>3. ConfirmedIsWritten'
    BY <1>1 DEF WrittenInv, ConfirmedIsWritten
  <1>4. ASSUME NEW i \in unacked', i.ord \in Order PROVE i.ord \in written'
    BY <1>1, <1>4, ConstantsAssumption DEF WrittenInv, AcksAreWritten
  <1>5. ASSUME NEW m \in inbox', m.kind = "resolved", m.ok PROVE m.ord \in written'
    BY <1>1, <1>2, <1>5 DEF WrittenInv, AcksAreWritten
  <1> QED
    BY <1>3, <1>4, <1>5 DEF WrittenInv, AcksAreWritten

LEMMA WrittenNext ==
    TypeInv /\ WrittenInv /\ VersionsTrusted /\ (OneCityOrders => VersionInv) /\ [Next]_vars => WrittenInv'
  <1> SUFFICES ASSUME TypeInv, WrittenInv, VersionsTrusted, OneCityOrders => VersionInv, [Next]_vars
               PROVE  WrittenInv'
    OBVIOUS
  <1>1. status \in [Order -> Status] /\ inbox \subseteq Message
    BY DEF TypeInv, TypeOK
  <1>2. CASE \E c \in City : Worker(c)
    BY <1>2, WorkerWrites
  <1>3. CASE Restart
    <2>1. unacked' = {} /\ inbox' = {} /\ written' = written
          /\ \A o \in Order : status'[o] = "confirmed" => o \in written
      BY <1>1, <1>3 DEF Restart, db
    <2> QED
      BY <2>1 DEF WrittenInv, AcksAreWritten, ConfirmedIsWritten
  <1>4. CASE \E m \in inbox : HandleConfirmed(m) \/ HandleRejected(m)
    <2>1. PICK m \in inbox : HandleConfirmed(m) \/ HandleRejected(m)
      BY <1>4
    <2>2. /\ UNCHANGED <<written, unacked>> /\ inbox' = inbox \ {m} /\ m.ord \in Order
          /\ \/ m.ok /\ m.kind = "resolved" /\ status' = [status EXCEPT ![m.ord] = "confirmed"]
             \/ status' = [status EXCEPT ![m.ord] = "rejected"]
      BY <1>1, <2>1 DEF HandleConfirmed, HandleRejected, db, Message
    <2>3. ConfirmedIsWritten'
      BY <1>1, <2>2 DEF WrittenInv, AcksAreWritten, ConfirmedIsWritten
    <2> QED
      BY <2>2, <2>3 DEF WrittenInv, AcksAreWritten
  <1>5. CASE \/ \E s \in Stock : Deposit(s)
             \/ \E m \in inbox : HandleFlushFailed(m)
             \/ UNCHANGED vars
    <2>1. UNCHANGED <<written, unacked, status>> /\ inbox' \subseteq inbox
      BY <1>5 DEF Deposit, HandleFlushFailed, vars, ram, db
    <2> QED
      BY <2>1 DEF WrittenInv, AcksAreWritten, ConfirmedIsWritten
  <1>6. CASE FlushStocks
    <2> DEFINE visited == {c \in dirty : PendingDeposits(unflushed, c)}
    <2> DEFINE dropped == visited \ {c \in visited : HasRoom({c})}
    <2>1. Post(UNION {FailureOf(FlushJob(c)) : c \in dropped})
      BY <1>6 DEF FlushStocks
    <2>2. UNCHANGED <<written, unacked, status>>
      BY <1>6 DEF FlushStocks, db
    <2>3. ASSUME NEW m \in inbox', m \notin inbox PROVE m.kind = "flushFailed"
      <3>1. m \in UNION {FailureOf(FlushJob(c)) : c \in dropped}
        BY <2>1, <2>3 DEF Post
      <3>2. PICK c \in dropped : m \in FailureOf(FlushJob(c))
        BY <3>1
      <3>3. FlushJob(c).ord = Flush
        BY DEF FlushJob
      <3>4. m \in {FlushFailed(FlushJob(c), s) : s \in {t \in Stock : Writes(FlushJob(c), t)}}
        BY <3>2, <3>3 DEF FailureOf
      <3> QED
        BY <3>4 DEF FlushFailed
    <2> QED
      BY <2>2, <2>3 DEF WrittenInv, AcksAreWritten, ConfirmedIsWritten
  <1>7. CASE \E o \in Order : Reserve(o)
    <2>1. PICK o \in Order : Reserve(o)
      BY <1>7
    <2>2. UNCHANGED <<written, unacked>> /\ status' = [status EXCEPT ![o] = "reserved"]
      BY <2>1 DEF Reserve, db
    <2>3. ASSUME NEW m \in inbox', m \notin inbox PROVE ~m.ok
      <3>1. m \in FailureOf(OrderJob(o))
        BY <2>1, <2>3 DEF Reserve, Post
      <3>2. OrderJob(o).ord # Flush
        BY ConstantsAssumption DEF OrderJob
      <3> QED
        BY <3>1, <3>2 DEF FailureOf, Resolved
    <2>4. ConfirmedIsWritten'
      BY <1>1, <2>2 DEF WrittenInv, ConfirmedIsWritten
    <2> QED
      BY <2>2, <2>3, <2>4 DEF WrittenInv, AcksAreWritten
  <1> QED
    BY <1>2, <1>3, <1>4, <1>5, <1>6, <1>7 DEF Next, Loop

\* ADR-023 (2): RAM confirms an order only once the database has its effect,
\* through lost answers, retries, compensations and restarts.
THEOREM ConfirmedAfterWritten == VersionsTrusted => (Spec => []ConfirmedIsWritten)
  <1> SUFFICES ASSUME VersionsTrusted PROVE Spec => []ConfirmedIsWritten
    OBVIOUS
  <1> DEFINE Inv == TypeInv /\ WrittenInv /\ (OneCityOrders => VersionInv)
  <1>1. Init => Inv
    <2> SUFFICES ASSUME Init PROVE WrittenInv
      BY TypeInvInit, VersionInit
    <2> QED
      BY DEF Init, WrittenInv, AcksAreWritten, ConfirmedIsWritten
  <1>2. Inv /\ [Next]_vars => Inv'
    BY TypeInvNext, VersionNext, WrittenNext
  <1>3. Inv => ConfirmedIsWritten
    BY DEF WrittenInv
  <1> QED
    BY <1>1, <1>2, <1>3, PTL DEF Spec
=============================================================================
