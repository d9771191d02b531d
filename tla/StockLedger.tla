---------------------------- MODULE StockLedger ----------------------------
(***************************************************************************)
(* The stock ledger of the game server (ADR-023, ADR-030, ADR-032): every  *)
(* city keeps one stock per resource in RAM; deposits reach the database   *)
(* by periodic flushes and orders (build, train, era advance, pillage,     *)
(* trade) by two-phase jobs.  Every write is a delta that carries the      *)
(* version of the stock and applies only over an older version.            *)
(*                                                                         *)
(* The persistence queue appears as what it promises (WriteQueue checks    *)
(* it): one FIFO of jobs per city, a job of two cities sitting in both and *)
(* running only at the head of both.  Answers and compensations come back  *)
(* through the loop's inbox, here a set: the ledger does not depend on     *)
(* the order in which the workers fill it.                                 *)
(***************************************************************************)
EXTENDS Integers, Sequences, FiniteSets, FiniteSetsExt

CONSTANTS
    City,         \* cities, the keys of the queue
    Resource,     \* wood, stone
    Order,        \* requests that reserve stock, each issued at most once
    Flush,        \* the "order" of a flush job, not in Order
    Pays, Gets,   \* [Order -> [Stock -> Nat]]: what an order takes and brings
    ByVersion,    \* orders whose retry is recognised by the stock's version
                  \*   alone (pillage); the others look for their request id
    Initial,      \* [Stock -> Nat]: city_stocks when the model starts
    QueueCap,     \* bound of a city's FIFO: Submit drops what does not fit
    InboxCap,     \* bound of the inbox: Offer drops what does not fit
    MaxDeposit,   \* [Stock -> Nat]: bound on what a run deposits
    MaxUnacked,   \* bound on commits whose acknowledgement is lost
    MaxDropped,   \* bound on jobs the queue drops: partition full, or every
                  \*   attempt failed
    MaxCrash      \* bound on restarts

Stock == City \X Resource
Touches(o, s) == Pays[o][s] > 0 \/ Gets[o][s] > 0
KeysOf(o) == {c \in City : \E r \in Resource : Touches(o, <<c, r>>)}

ASSUME ConstantsAssumption ==
    /\ IsFiniteSet(City)
    /\ Flush \notin Order
    /\ ByVersion \subseteq Order
    /\ Pays \in [Order -> [Stock -> Nat]]
    /\ Gets \in [Order -> [Stock -> Nat]]
    /\ Initial \in [Stock -> Nat]
    /\ MaxDeposit \in [Stock -> Nat]
    /\ {QueueCap, InboxCap, MaxUnacked, MaxDropped, MaxCrash} \subseteq Nat

ASSUME OrdersTouchSomething == \A o \in Order : KeysOf(o) # {}

VARIABLES
    amount, version, unflushed,  \* RAM, per stock (resourceStock)
    dirty,      \* State.stockDirty: cities the next flush visits
    status,     \* RAM's view of each order
    carried,    \* the unflushed deposits that travel with each order
    queue,      \* per city, the jobs the persistence queue holds
    inbox,      \* messages the loop has still to apply
    dbAmount, dbVersion,         \* city_stocks
    written,    \* orders whose effect row exists in the database
    unacked,    \* jobs at a head that committed without an answer
    phantom,    \* history: jobs reported as failed although they committed
    lost,       \* history: messages a full inbox dropped
    deposited,  \* history: what was ever deposited in each stock
    nUnacked, nDropped, nCrash    \* bounded environment counters

ram == <<amount, version, unflushed, dirty, status, carried>>
db == <<dbAmount, dbVersion, written>>
history == <<phantom, lost, deposited>>
counters == <<nUnacked, nDropped, nCrash>>
vars == <<ram, queue, inbox, db, unacked, history, counters>>

Status == {"new", "reserved", "confirmed", "rejected", "forgotten"}

\* A job: `delta` and `ver` are 0 on the stocks it does not touch.
Job == [ord: Order \cup {Flush}, cities: SUBSET City,
        delta: [Stock -> Int], ver: [Stock -> Nat]]
Writes(j, s) == j.ver[s] > 0

\* `ver` only tells two messages of a stock apart: the inbox is a set.
FlushFailed(j, s) == [kind |-> "flushFailed", stock |-> s,
                      delta |-> j.delta[s], ver |-> j.ver[s]]
Resolved(o, ok) == [kind |-> "resolved", ord |-> o, ok |-> ok]
Message == [kind: {"flushFailed"}, stock: Stock, delta: Int, ver: Nat]
             \cup [kind: {"resolved"}, ord: Order, ok: BOOLEAN]

Init ==
    /\ amount = Initial /\ dbAmount = Initial
    /\ version = [s \in Stock |-> 0] /\ dbVersion = [s \in Stock |-> 0]
    /\ unflushed = [s \in Stock |-> 0]
    /\ deposited = [s \in Stock |-> 0]
    /\ dirty = {} /\ inbox = {} /\ written = {} /\ unacked = {}
    /\ phantom = {} /\ lost = {}
    /\ status = [o \in Order |-> "new"]
    /\ carried = [o \in Order |-> [s \in Stock |-> 0]]
    /\ queue = [c \in City |-> <<>>]
    /\ nUnacked = 0 /\ nDropped = 0 /\ nCrash = 0

-----------------------------------------------------------------------------
(* The inbox and the queue, as the simulation and the workers use them.    *)

\* reinject: a full inbox drops the message and only counts it.
Post(msgs) ==
    \E kept \in SUBSET msgs :
        /\ Cardinality(inbox \cup kept) <= InboxCap \/ kept = {}
        /\ kept = msgs \/ Cardinality(inbox \cup kept) >= InboxCap
        /\ inbox' = inbox \cup kept
        /\ lost' = lost \cup (msgs \ kept)

HasRoom(cs) == \A c \in cs : Len(queue[c]) < QueueCap

\* A job runs once it is at the head of the FIFO of every city it writes.
Runnable(c) ==
    /\ queue[c] # <<>>
    /\ \A k \in Head(queue[c]).cities :
          queue[k] # <<>> /\ Head(queue[k]) = Head(queue[c])

Dequeue(j) == queue' = [k \in City |-> IF k \in j.cities THEN Tail(queue[k]) ELSE queue[k]]

\* Mutants: a failed flush is forgotten; the error of an order is swallowed.
FailureForgotten(j) == IF j.ord = Flush THEN {} ELSE {Resolved(j.ord, FALSE)}
FailureSwallowed(j) ==
    IF j.ord = Flush THEN {FlushFailed(j, s) : s \in {t \in Stock : Writes(j, t)}}
    ELSE {Resolved(j.ord, TRUE)}

FailureOf(j) ==
    IF j.ord = Flush THEN {FlushFailed(j, s) : s \in {t \in Stock : Writes(j, t)}}
    ELSE {Resolved(j.ord, FALSE)}

\* Mutant: the worker never answers.
SuccessUnannounced(j) == {}

SuccessOf(j) == IF j.ord = Flush THEN {} ELSE {Resolved(j.ord, TRUE)}

-----------------------------------------------------------------------------
(* The simulation: handlers that run inside a tick.                        *)

PendingDeposits(u, c) == \E r \in Resource : u[<<c, r>>] # 0

\* Mutant: an order leaves the city clean whatever it does not carry.
MarkClean(u, cs) == dirty \ cs

\* markStockDirty, over the cities cs, once unflushed has become u.
MarkDirty(u, cs) == (dirty \ cs) \cup {c \in cs : PendingDeposits(u, c)}

Deposit(s) ==
    /\ deposited[s] < MaxDeposit[s]
    /\ amount' = [amount EXCEPT ![s] = @ + 1]
    /\ version' = [version EXCEPT ![s] = @ + 1]
    /\ unflushed' = [unflushed EXCEPT ![s] = @ + 1]
    /\ dirty' = dirty \cup {s[1]}
    /\ deposited' = [deposited EXCEPT ![s] = @ + 1]
    /\ UNCHANGED <<status, carried, queue, inbox, db, unacked, phantom, lost, counters>>

FlushJob(c) ==
    [ord |-> Flush, cities |-> {c},
     delta |-> [s \in Stock |-> IF s[1] = c THEN unflushed[s] ELSE 0],
     ver |-> [s \in Stock |-> IF s[1] = c /\ unflushed[s] # 0 THEN version[s] ELSE 0]]

\* flushStocks: every dirty city in one tick, one job per city; what does not
\* fit in its partition is compensated at once, through the inbox.
FlushStocks ==
    LET visited == {c \in dirty : PendingDeposits(unflushed, c)}
        fits    == {c \in visited : HasRoom({c})} IN
    /\ dirty # {}
    /\ nDropped + Cardinality(visited \ fits) <= MaxDropped
    /\ dirty' = {}
    /\ unflushed' = [s \in Stock |-> IF s[1] \in dirty THEN 0 ELSE unflushed[s]]
    /\ queue' = [c \in City |-> IF c \in fits THEN Append(queue[c], FlushJob(c)) ELSE queue[c]]
    /\ Post(UNION {FailureOf(FlushJob(c)) : c \in visited \ fits})
    /\ nDropped' = nDropped + Cardinality(visited \ fits)
    /\ UNCHANGED <<amount, version, status, carried, db, unacked, phantom, deposited, nUnacked, nCrash>>

\* Mutants: the unflushed deposits stay out of the job; so does what a trade
\* brings to its receiver.
OrderJobAlone(o) ==
    [ord |-> o, cities |-> KeysOf(o),
     delta |-> [s \in Stock |-> IF Touches(o, s) THEN Gets[o][s] - Pays[o][s] ELSE 0],
     ver |-> [s \in Stock |-> IF Touches(o, s) THEN version[s] + 1 ELSE 0]]
OrderJobOneSided(o) ==
    [ord |-> o, cities |-> KeysOf(o),
     delta |-> [s \in Stock |-> IF Touches(o, s) THEN unflushed[s] - Pays[o][s] ELSE 0],
     ver |-> [s \in Stock |-> IF Touches(o, s) THEN version[s] + 1 ELSE 0]]

OrderJob(o) ==
    [ord |-> o, cities |-> KeysOf(o),
     delta |-> [s \in Stock |-> IF Touches(o, s) THEN unflushed[s] - Pays[o][s] + Gets[o][s] ELSE 0],
     ver |-> [s \in Stock |-> IF Touches(o, s) THEN version[s] + 1 ELSE 0]]

\* The reservation of handleBuildBuilding, handleTrainUnit, handleAdvanceEra,
\* applyPillage and acceptTrade: what the order pays leaves RAM now, the
\* unflushed deposits of every stock it touches travel with it.
Reserve(o) ==
    LET u == [s \in Stock |-> IF Touches(o, s) THEN 0 ELSE unflushed[s]]
        j == OrderJob(o) IN
    /\ status[o] = "new"
    /\ \A s \in Stock : amount[s] >= Pays[o][s]
    /\ amount' = [s \in Stock |-> amount[s] - Pays[o][s]]
    /\ version' = [s \in Stock |-> IF Touches(o, s) THEN version[s] + 1 ELSE version[s]]
    /\ unflushed' = u
    /\ dirty' = MarkDirty(u, KeysOf(o))
    /\ status' = [status EXCEPT ![o] = "reserved"]
    /\ carried' = [carried EXCEPT ![o] = [s \in Stock |-> IF Touches(o, s) THEN unflushed[s] ELSE 0]]
    /\ IF HasRoom(j.cities)
       THEN /\ queue' = [c \in City |-> IF c \in j.cities THEN Append(queue[c], j) ELSE queue[c]]
            /\ UNCHANGED <<inbox, lost, nDropped>>
       ELSE /\ nDropped < MaxDropped
            /\ nDropped' = nDropped + 1
            /\ Post(FailureOf(j))
            /\ UNCHANGED queue
    /\ UNCHANGED <<db, unacked, phantom, deposited, nUnacked, nCrash>>

\* Mutant: the delta returns under the version it already had.
HandleFlushFailedSameVersion(m) ==
    /\ m \in inbox /\ m.kind = "flushFailed"
    /\ unflushed' = [unflushed EXCEPT ![m.stock] = @ + m.delta]
    /\ dirty' = dirty \cup {m.stock[1]}
    /\ inbox' = inbox \ {m}
    /\ UNCHANGED <<amount, version, status, carried, queue, db, unacked, history, counters>>

\* handleStocksFlushFailed: the delta returns with a version of its own.
HandleFlushFailed(m) ==
    /\ m \in inbox /\ m.kind = "flushFailed"
    /\ unflushed' = [unflushed EXCEPT ![m.stock] = @ + m.delta]
    /\ version' = [version EXCEPT ![m.stock] = @ + 1]
    /\ dirty' = dirty \cup {m.stock[1]}
    /\ inbox' = inbox \ {m}
    /\ UNCHANGED <<amount, status, carried, queue, db, unacked, history, counters>>

\* An order confirmed: a trade credits what each city receives.
HandleConfirmed(m) ==
    /\ m \in inbox /\ m.kind = "resolved" /\ m.ok
    /\ status[m.ord] = "reserved"
    /\ amount' = [s \in Stock |-> amount[s] + Gets[m.ord][s]]
    /\ version' = [s \in Stock |-> IF Gets[m.ord][s] > 0 THEN version[s] + 1 ELSE version[s]]
    /\ status' = [status EXCEPT ![m.ord] = "confirmed"]
    /\ carried' = [carried EXCEPT ![m.ord] = [s \in Stock |-> 0]]
    /\ inbox' = inbox \ {m}
    /\ UNCHANGED <<unflushed, dirty, queue, db, unacked, history, counters>>

\* An order that failed: Credit returns what it paid, and bumps the version
\* of the stocks it paid from; the deposits it carried are unflushed again.
HandleRejected(m) ==
    LET u == [s \in Stock |-> unflushed[s] + carried[m.ord][s]] IN
    /\ m \in inbox /\ m.kind = "resolved" /\ ~m.ok
    /\ status[m.ord] = "reserved"
    /\ amount' = [s \in Stock |-> amount[s] + Pays[m.ord][s]]
    /\ version' = [s \in Stock |-> IF Pays[m.ord][s] > 0 THEN version[s] + 1 ELSE version[s]]
    /\ unflushed' = u
    /\ dirty' = MarkDirty(u, KeysOf(m.ord))
    /\ status' = [status EXCEPT ![m.ord] = "rejected"]
    /\ carried' = [carried EXCEPT ![m.ord] = [s \in Stock |-> 0]]
    /\ inbox' = inbox \ {m}
    /\ UNCHANGED <<queue, db, unacked, history, counters>>

-----------------------------------------------------------------------------
(* A worker runs the job at the head: the transactions of EconomyRepo,     *)
(* CombatStore.PersistPillage and TradeRepo.Accept.                        *)

Newer(j, s) == j.ver[s] > dbVersion[s]
Stale(j) == \E s \in Stock : Writes(j, s) /\ ~Newer(j, s)
\* Mutant: the CHECK of city_stocks is gone.
NeverShort(j) == FALSE

Short(j) == \E s \in Stock : Writes(j, s) /\ Newer(j, s) /\ dbAmount[s] + j.delta[s] < 0

\* The retry of a transaction that did commit finds its row, or its version.
Recognised(j) == IF j.ord \in Order \ ByVersion THEN j.ord \in written ELSE Stale(j)

\* Mutant: the debit without the row of what it pays, out of its transaction.
ApplyStockOnly(j) ==
    /\ dbAmount' = [s \in Stock |-> IF Writes(j, s) /\ Newer(j, s) THEN dbAmount[s] + j.delta[s] ELSE dbAmount[s]]
    /\ dbVersion' = [s \in Stock |-> IF Writes(j, s) /\ Newer(j, s) THEN j.ver[s] ELSE dbVersion[s]]
    /\ UNCHANGED written

\* applyStock on every delta of the job: a delta over an older version only.
ApplyStock(j) ==
    /\ dbAmount' = [s \in Stock |-> IF Writes(j, s) /\ Newer(j, s) THEN dbAmount[s] + j.delta[s] ELSE dbAmount[s]]
    /\ dbVersion' = [s \in Stock |-> IF Writes(j, s) /\ Newer(j, s) THEN j.ver[s] ELSE dbVersion[s]]
    /\ written' = written \cup ({j.ord} \ {Flush})

\* What the transaction accepts.  An order needs every delta applied; a flush
\* takes the deltas that are new and ignores the others.
Accepts(j) ==
    /\ ~Short(j)
    /\ IF j.ord = Flush THEN \E s \in Stock : Writes(j, s) /\ Newer(j, s)
       ELSE ~Recognised(j) /\ ~Stale(j)

Finish(j, msgs) ==
    /\ Dequeue(j)
    /\ Post(msgs)
    /\ unacked' = unacked \ {j}

Commit(c) ==
    LET j == Head(queue[c]) IN
    /\ Runnable(c) /\ Accepts(j)
    /\ ApplyStock(j)
    /\ Finish(j, SuccessOf(j))
    /\ UNCHANGED <<ram, phantom, deposited, counters>>

\* The commit reaches the database and its answer does not reach the worker.
CommitUnacked(c) ==
    LET j == Head(queue[c]) IN
    /\ nUnacked < MaxUnacked
    /\ Runnable(c) /\ Accepts(j)
    /\ ApplyStock(j)
    /\ unacked' = unacked \cup {j}
    /\ nUnacked' = nUnacked + 1
    /\ UNCHANGED <<ram, queue, inbox, history, nDropped, nCrash>>

\* A write that finds itself done, or a flush whose version the database
\* already passed: success without touching anything.
Skip(c) ==
    LET j == Head(queue[c]) IN
    /\ Runnable(c) /\ ~Accepts(j) /\ Recognised(j)
    /\ Finish(j, SuccessOf(j))
    /\ UNCHANGED <<ram, db, phantom, deposited, counters>>

\* A domain rejection: a stale version, a stock the CHECK keeps from going
\* below zero, or a guard of the order itself (site taken, city busy, offer
\* already closed), which pillage has not.
Refuse(c) ==
    LET j == Head(queue[c]) IN
    /\ Runnable(c) /\ j.ord # Flush /\ ~Recognised(j)
    /\ j.ord \notin ByVersion \/ Short(j)
    /\ Finish(j, FailureOf(j))
    /\ UNCHANGED <<ram, db, phantom, deposited, counters>>

\* The last attempt failed: the compensation, even if an attempt committed.
GiveUp(c) ==
    LET j == Head(queue[c]) IN
    /\ nDropped < MaxDropped
    /\ Runnable(c)
    /\ Finish(j, FailureOf(j))
    /\ phantom' = phantom \cup (unacked \cap {j})
    /\ nDropped' = nDropped + 1
    /\ UNCHANGED <<ram, db, deposited, nUnacked, nCrash>>

\* A crash and the next boot: RAM is what SetEconomy loads.
Restart ==
    /\ nCrash < MaxCrash
    /\ amount' = dbAmount /\ version' = dbVersion
    /\ unflushed' = [s \in Stock |-> 0]
    /\ dirty' = {} /\ inbox' = {} /\ unacked' = {} /\ phantom' = {} /\ lost' = {}
    /\ queue' = [c \in City |-> <<>>]
    /\ carried' = [o \in Order |-> [s \in Stock |-> 0]]
    /\ status' = [o \in Order |-> IF status[o] = "new" THEN "new"
                                  ELSE IF o \in written THEN "confirmed" ELSE "forgotten"]
    /\ nCrash' = nCrash + 1
    /\ UNCHANGED <<db, deposited, nUnacked, nDropped>>

-----------------------------------------------------------------------------
Loop ==
    \/ \E s \in Stock : Deposit(s)
    \/ FlushStocks
    \/ \E o \in Order : Reserve(o)
    \/ \E m \in inbox : HandleFlushFailed(m) \/ HandleConfirmed(m) \/ HandleRejected(m)

Worker(c) == Commit(c) \/ CommitUnacked(c) \/ Skip(c) \/ Refuse(c) \/ GiveUp(c)

Next == Loop \/ (\E c \in City : Worker(c)) \/ Restart

Spec == Init /\ [][Next]_vars

\* The loop keeps ticking, so it flushes and drains its inbox; a worker never
\* stops before its queue is empty, and a job does not fail for ever.
Fairness ==
    /\ WF_vars(FlushStocks)
    /\ WF_vars(\E m \in inbox : HandleFlushFailed(m) \/ HandleConfirmed(m) \/ HandleRejected(m))
    /\ \A c \in City : WF_vars(Commit(c) \/ Skip(c) \/ Refuse(c))

FairSpec == Spec /\ Fairness

-----------------------------------------------------------------------------
(* Properties.                                                             *)

TypeOK ==
    /\ amount \in [Stock -> Nat] /\ version \in [Stock -> Nat] /\ unflushed \in [Stock -> Nat]
    /\ dbAmount \in [Stock -> Nat] /\ dbVersion \in [Stock -> Nat] /\ deposited \in [Stock -> Nat]
    /\ dirty \subseteq City /\ written \subseteq Order
    /\ status \in [Order -> Status] /\ carried \in [Order -> [Stock -> Nat]]
    /\ queue \in [City -> Seq(Job)]
    /\ inbox \subseteq Message /\ lost \subseteq Message
    /\ unacked \subseteq Job /\ phantom \subseteq Job
    /\ nUnacked \in Nat /\ nDropped \in Nat /\ nCrash \in Nat

Queued(c) == {queue[c][i] : i \in 1..Len(queue[c])}
InFlight == UNION {Queued(c) : c \in City}
Undelivered == inbox \cup lost

\* What the RAM of stock s is ahead of the database by, job by job: a queued
\* job that has not committed, a compensation on its way, what a trade brings
\* and RAM does not show yet, and what was compensated although it committed.
Net(j, s) == j.delta[s] - (IF j.ord = Flush THEN 0 ELSE Gets[j.ord][s])
Owed(m, s) ==
    IF m.kind = "flushFailed" THEN (IF m.stock = s THEN m.delta ELSE 0)
    ELSE IF m.ok THEN -Gets[m.ord][s]
    ELSE carried[m.ord][s] - Pays[m.ord][s]
JobDebt(j, s) == IF j \in unacked THEN Net(j, s) - j.delta[s] ELSE Net(j, s)

\* INV-ECON-002 and ADR-023: whatever fails, is retried, dropped or
\* compensated, the RAM of every stock is the database plus what is on its
\* way: no deposit is lost and no debit counted twice.  In particular a flush
\* is never discarded for carrying an old version.
Accounting ==
    \A s \in Stock :
        amount[s] - unflushed[s] =
            dbAmount[s]
            + MapThenSumSet(LAMBDA j : JobDebt(j, s), InFlight)
            + MapThenSumSet(LAMBDA m : Owed(m, s), Undelivered)
            - MapThenSumSet(LAMBDA j : j.delta[s], phantom)

\* ADR-023 (1), "an old write never overwrites a new one" the other way round:
\* no write ever arrives old.  A job at the head carries a version above the
\* database's in each stock it touches, unless it is its own retry.
NoStaleWrite ==
    \A c \in City : Runnable(c) =>
        LET j == Head(queue[c]) IN
        j \in unacked \/ \A s \in Stock : Writes(j, s) => Newer(j, s)

\* flushStocks visits only the cities of stockDirty: a city with deposits to
\* write is always there, after every reservation, release and failed flush.
DirtyTracked == \A c \in City : PendingDeposits(unflushed, c) => c \in dirty

\* "Nothing is announced before it exists in the database" (ADR-023 (2)).
ConfirmedIsWritten == \A o \in Order : status[o] = "confirmed" => o \in written

\* INV-ECON-002 and INV-TRADE-001 in the database, across retries, lost
\* answers, dropped jobs and restarts: a stock is what it began with, less
\* what the written effects took and plus what they brought, plus deposits;
\* never more than those deposits either, except for the flush repeated after
\* a lost answer, which ADR-023 accepts.
PaidBy(s) == MapThenSumSet(LAMBDA o : Pays[o][s] - Gets[o][s], written)
DatabaseExplained ==
    \A s \in Stock :
        LET deposits == dbAmount[s] + PaidBy(s) - Initial[s] IN
        deposits >= 0 /\ (nUnacked = 0 => deposits <= deposited[s])

\* Once the environment is quiet, the flush cadence brings RAM and database
\* together for good, unless an answer or a compensation was lost.
Converges ==
    <>[](phantom = {} /\ lost = {} => \A s \in Stock : dbAmount[s] = amount[s])

\* Every reservation ends confirmed or returned (or forgotten by a restart),
\* unless the inbox had no room for its answer.
OrdersEnd ==
    \A o \in Order : status[o] = "reserved" ~> (status[o] # "reserved" \/ lost # {})
=============================================================================
