----------------------------- MODULE WriteQueue -----------------------------
(***************************************************************************)
(* The persistence queue (internal/persistence/queue.go), its only         *)
(* producer, the game loop, and the shutdown of cmd/server/main.go.        *)
(*                                                                         *)
(* One buffered channel and one worker goroutine per partition.  A job of  *)
(* two keys (Key2, ADR-032 section 3) puts one half in each of the two     *)
(* channels; their workers meet at it and one of them runs it.  Submit     *)
(* runs under q.mu and must never block the tick.                          *)
(***************************************************************************)
EXTENDS Integers, Sequences, FiniteSets

CONSTANTS
    NumParts,      \* workers, one partition each
    KeyName,       \* entities: units, cities, pairs of players
    NoKey,         \* the empty Key or Key2
    HashOf,        \* [KeyName -> Partition]: PartitionOf
    Job,           \* jobs, each submitted at most once
    Key, Key2,     \* [Job -> KeyName \cup {NoKey}]
    Cap,           \* capacity of each channel
    MaxAttempts,   \* attempts of one job
    None           \* a worker with no item in hand

Partition == 0..(NumParts - 1)

ASSUME QueueAssumption ==
    /\ NumParts \in Nat \ {0} /\ Cap \in Nat \ {0} /\ MaxAttempts \in Nat \ {0}
    /\ HashOf \in [KeyName -> Partition]
    /\ Key \in [Job -> KeyName \cup {NoKey}] /\ Key2 \in [Job -> KeyName \cup {NoKey}]
    /\ NoKey \notin KeyName

VARIABLES
    part,       \* q.parts: what each channel holds
    closed,     \* the channels have been closed
    turn,       \* q.turno, modulo the number of partitions
    sub,        \* the loop inside Submit, holding q.mu: [pc, job, first, second]
    wpc,        \* where each worker is
    held,       \* the item each worker took last, None before the first
    attempt,    \* which attempt each worker runs
    arrived,    \* pairBarrier.arrived: workers that reached a job of two keys
    done,       \* jobs whose pairBarrier.done is closed
    loop,       \* the game loop's goroutine
    main,       \* main's goroutine
    accepted,   \* history: the jobs accepted, in order
    state       \* history: what became of each job

queueVars == <<part, closed, turn, sub>>
workerVars == <<wpc, held, attempt, arrived, done>>
vars == <<queueVars, workerVars, loop, main, accepted, state>>

Item == [job: Job, paired: BOOLEAN, lead: BOOLEAN]
Alone(j) == [job |-> j, paired |-> FALSE, lead |-> FALSE]
Half(j, lead) == [job |-> j, paired |-> TRUE, lead |-> lead]

Idle == [pc |-> "idle"]
JobState == {"new", "queued", "running", "dropped", "written", "compensated"}
WorkerPC == {"take", "meet", "run", "wait", "exited"}

Init ==
    /\ part = [p \in Partition |-> <<>>] /\ closed = FALSE /\ turn = 0 /\ sub = Idle
    /\ wpc = [p \in Partition |-> "take"]
    /\ held = [p \in Partition |-> None] /\ attempt = [p \in Partition |-> 1]
    /\ arrived = [j \in Job |-> 0] /\ done = {}
    /\ loop = "running" /\ main = "serving"
    /\ accepted = <<>> /\ state = [j \in Job |-> "new"]

\* The process exists: main returns without closing when the loop is stuck.
Alive == main # "abandoned"

HasRoom(p) == Len(part[p]) < Cap

-----------------------------------------------------------------------------
(* Submit, called by the loop with q.mu held from the first step to the    *)
(* last: the workers keep taking items in between.                         *)

Submit(j) ==
    LET next == (turn + 1) % NumParts
        i == IF Key[j] = NoKey THEN next ELSE HashOf[Key[j]]
        k == IF Key2[j] = NoKey THEN i ELSE HashOf[Key2[j]] IN
    /\ Alive /\ loop = "running" /\ sub = Idle
    /\ state[j] = "new"
    /\ turn' = IF Key[j] = NoKey THEN next ELSE turn
    /\ sub' = [pc |-> IF k = i THEN "offer" ELSE "checkFirst", job |-> j, first |-> i, second |-> k]
    /\ UNCHANGED <<part, closed, workerVars, loop, main, accepted, state>>

Accept(j) ==
    /\ accepted' = Append(accepted, j)
    /\ state' = [state EXCEPT ![j] = "queued"]

\* dropFull: the job's compensation, on the loop's own goroutine.
DropFull(j) ==
    /\ state' = [state EXCEPT ![j] = "dropped"]
    /\ UNCHANGED accepted

\* The select with a default: sends or drops, in one step.
Offer ==
    /\ Alive /\ sub.pc = "offer"
    /\ IF HasRoom(sub.first)
       THEN part' = [part EXCEPT ![sub.first] = Append(@, Alone(sub.job))] /\ Accept(sub.job)
       ELSE UNCHANGED part /\ DropFull(sub.job)
    /\ sub' = Idle
    /\ UNCHANGED <<closed, turn, workerVars, loop, main>>

\* submitPair: both lengths are checked before either half is sent.
Check(here, p, next) ==
    /\ Alive /\ sub.pc = here
    /\ IF HasRoom(p) THEN sub' = [sub EXCEPT !.pc = next] /\ UNCHANGED <<accepted, state>>
       ELSE sub' = Idle /\ DropFull(sub.job)
    /\ UNCHANGED <<part, closed, turn, workerVars, loop, main>>

CheckFirst == Check("checkFirst", sub.first, "checkSecond")
\* Mutant: the first partition is looked at twice.
CheckFirstAgain == Check("checkSecond", sub.first, "sendFirst")

CheckSecond == Check("checkSecond", sub.second, "sendFirst")

\* The sends have no default: without room they would block the tick.
SendFirst ==
    /\ Alive /\ sub.pc = "sendFirst" /\ HasRoom(sub.first)
    /\ part' = [part EXCEPT ![sub.first] = Append(@, Half(sub.job, TRUE))]
    /\ sub' = [sub EXCEPT !.pc = "sendSecond"]
    /\ Accept(sub.job)
    /\ UNCHANGED <<closed, turn, workerVars, loop, main>>

SendSecond ==
    /\ Alive /\ sub.pc = "sendSecond" /\ HasRoom(sub.second)
    /\ part' = [part EXCEPT ![sub.second] = Append(@, Half(sub.job, FALSE))]
    /\ sub' = Idle
    /\ UNCHANGED <<closed, turn, workerVars, loop, main, accepted, state>>

SubmitStep == Offer \/ CheckFirst \/ CheckSecond \/ SendFirst \/ SendSecond

-----------------------------------------------------------------------------
(* The workers.                                                            *)

\* Mutant: attempts counted from zero.
BeginAtZero(p, j) ==
    /\ wpc' = [wpc EXCEPT ![p] = "run"]
    /\ attempt' = [attempt EXCEPT ![p] = 0]
    /\ state' = [state EXCEPT ![j] = "running"]

Begin(p, j) ==
    /\ wpc' = [wpc EXCEPT ![p] = "run"]
    /\ attempt' = [attempt EXCEPT ![p] = 1]
    /\ state' = [state EXCEPT ![j] = "running"]

Take(p) ==
    LET it == Head(part[p]) IN
    /\ Alive /\ wpc[p] = "take" /\ part[p] # <<>>
    /\ part' = [part EXCEPT ![p] = Tail(@)]
    /\ held' = [held EXCEPT ![p] = it]
    /\ IF it.paired
       THEN /\ wpc' = [wpc EXCEPT ![p] = "meet"]
            /\ arrived' = [arrived EXCEPT ![it.job] = @ + 1]
            /\ UNCHANGED <<attempt, state>>
       ELSE Begin(p, it.job) /\ UNCHANGED arrived
    /\ UNCHANGED <<closed, turn, sub, done, loop, main, accepted>>

\* Mutant: nobody waits for the other half.
MeetNobody(p) ==
    /\ Alive /\ wpc[p] = "meet"
    /\ IF held[p].lead THEN Begin(p, held[p].job)
       ELSE wpc' = [wpc EXCEPT ![p] = "wait"] /\ UNCHANGED <<attempt, state>>
    /\ UNCHANGED <<queueVars, held, arrived, done, loop, main, accepted>>

\* arrived.Wait() returns: the lead runs the job, the other waits for it.
Meet(p) ==
    /\ Alive /\ wpc[p] = "meet" /\ arrived[held[p].job] = 2
    /\ IF held[p].lead THEN Begin(p, held[p].job)
       ELSE wpc' = [wpc EXCEPT ![p] = "wait"] /\ UNCHANGED <<attempt, state>>
    /\ UNCHANGED <<queueVars, held, arrived, done, loop, main, accepted>>

\* run returns: the lead of a pair closes its done.
End(p, result) ==
    /\ wpc' = [wpc EXCEPT ![p] = "take"]
    /\ state' = [state EXCEPT ![held[p].job] = result]
    /\ done' = IF held[p].lead THEN done \cup {held[p].job} ELSE done
    /\ UNCHANGED <<queueVars, held, attempt, arrived, loop, main, accepted>>

Succeed(p) == Alive /\ wpc[p] = "run" /\ End(p, "written")

\* Mutant: the count of attempts starts again.
RetryForEver(p) ==
    /\ Alive /\ wpc[p] = "run"
    /\ attempt' = [attempt EXCEPT ![p] = (@ % MaxAttempts) + 1]
    /\ UNCHANGED <<queueVars, wpc, held, arrived, done, loop, main, accepted, state>>

Retry(p) ==
    /\ Alive /\ wpc[p] = "run" /\ attempt[p] < MaxAttempts
    /\ attempt' = [attempt EXCEPT ![p] = @ + 1]
    /\ UNCHANGED <<queueVars, wpc, held, arrived, done, loop, main, accepted, state>>

\* The last attempt failed: OnPermanentFailure.
Exhaust(p) ==
    /\ Alive /\ wpc[p] = "run" /\ attempt[p] = MaxAttempts
    /\ End(p, "compensated")

Release(p) ==
    /\ Alive /\ wpc[p] = "wait" /\ held[p].job \in done
    /\ wpc' = [wpc EXCEPT ![p] = "take"]
    /\ UNCHANGED <<queueVars, held, attempt, arrived, done, loop, main, accepted, state>>

\* The range over a closed and empty channel ends; wg.Done.
Exit(p) ==
    /\ Alive /\ wpc[p] = "take" /\ closed /\ part[p] = <<>>
    /\ wpc' = [wpc EXCEPT ![p] = "exited"]
    /\ UNCHANGED <<queueVars, held, attempt, arrived, done, loop, main, accepted, state>>

Worker(p) ==
    Take(p) \/ Meet(p) \/ Succeed(p) \/ Retry(p) \/ Exhaust(p) \/ Release(p) \/ Exit(p)

-----------------------------------------------------------------------------
(* The shutdown.                                                           *)

Main(from, to) ==
    /\ main = from /\ main' = to
    /\ UNCHANGED <<part, turn, sub, workerVars, loop, accepted, state>>

\* rootCtx is cancelled by a signal, or by stop() when a subsystem fails.
Signal == Main("serving", "stopping") /\ UNCHANGED closed
Failure == Main("serving", "failing") /\ UNCHANGED closed

\* Run sees the context done between two ticks, flushes and returns.
LoopStop ==
    /\ Alive /\ main # "serving" /\ loop = "running" /\ sub = Idle
    /\ loop' = "stopped"
    /\ UNCHANGED <<queueVars, workerVars, main, accepted, state>>

\* Mutant: main does not wait for the loop.
LoopNotAwaited ==
    /\ Main("stopping", "draining") \/ Main("failing", "closing")
    /\ UNCHANGED closed

\* loopStopped: the loop finished, or five seconds passed.
LoopStopped ==
    /\ loop = "stopped"
    /\ Main("stopping", "draining") \/ Main("failing", "closing")
    /\ UNCHANGED closed

LoopStuck == (Main("stopping", "abandoned") \/ Main("failing", "abandoned")) /\ UNCHANGED closed

\* Drain: the channels are empty, or fifteen seconds passed.
Drain == Main("draining", "closing") /\ UNCHANGED closed

\* Close: takes q.mu, closes every channel, then waits for the workers.
CloseParts == sub = Idle /\ Main("closing", "joining") /\ closed' = TRUE
\* Mutant: Close does not wait for the workers.
JoinAtOnce == Main("joining", "done") /\ UNCHANGED closed

Join == (\A p \in Partition : wpc[p] = "exited") /\ Main("joining", "done") /\ UNCHANGED closed

Shutdown == LoopStopped \/ LoopStuck \/ Drain \/ CloseParts \/ Join

\* The process is over.
Over == main \in {"done", "abandoned"} /\ UNCHANGED vars

Next ==
    \/ \E j \in Job : Submit(j)
    \/ SubmitStep
    \/ \E p \in Partition : Worker(p)
    \/ Signal \/ Failure \/ LoopStop \/ Shutdown
    \/ Over

Spec == Init /\ [][Next]_vars

\* Goroutines are scheduled; an attempt is bounded by WriteAttemptTimeout and
\* the waits of main by their deadlines.  Nothing makes the server stop.
Fairness ==
    /\ WF_vars(SubmitStep)
    /\ \A p \in Partition : WF_vars(Worker(p))
    /\ WF_vars(Shutdown)

FairSpec == Spec /\ Fairness

-----------------------------------------------------------------------------
(* Properties.                                                             *)

TypeOK ==
    /\ part \in [Partition -> Seq(Item)] /\ closed \in BOOLEAN /\ turn \in Partition
    /\ sub = Idle \/ sub \in [pc: {"offer", "checkFirst", "checkSecond", "sendFirst", "sendSecond"},
                              job: Job, first: Partition, second: Partition]
    /\ wpc \in [Partition -> WorkerPC]
    /\ held \in [Partition -> Item \cup {None}]
    /\ attempt \in [Partition -> 1..MaxAttempts]
    /\ arrived \in [Job -> Nat] /\ done \subseteq Job
    /\ loop \in {"running", "stopped"}
    /\ main \in {"serving", "stopping", "failing", "draining", "closing", "joining", "done", "abandoned"}
    /\ accepted \in Seq(Job)
    /\ state \in [Job -> JobState]

\* The keyed queue this one implements: order and exclusion per key.
Promise == INSTANCE KeyedQueue WITH
    KeysOf <- [j \in Job |-> {Key[j], Key2[j]} \ {NoKey}]

\* "Se ejecutan en el orden en que se encolaron, reintentos incluidos": every
\* step of the queue is a step of KeyedQueue.
KeepsPromise == Promise!Spec

\* "Submit NEVER blocks": with both lengths checked under q.mu, both sends of
\* submitPair find room, whatever the workers do in between.
SubmitNeverBlocks ==
    /\ sub.pc = "sendFirst" => HasRoom(sub.first) /\ HasRoom(sub.second)
    /\ sub.pc = "sendSecond" => HasRoom(sub.second)

\* A channel is closed only when nobody will send on it (a send would panic):
\* the loop has stopped before Close, or the queue is left open.
NoSendOnClosed == closed => loop = "stopped" /\ sub = Idle

\* Close "waits for the workers to finish what is pending": no accepted job is
\* left without an outcome by an orderly shutdown.
CloseLosesNothing ==
    main = "done" => \A j \in Job : state[j] \notin {"queued", "running"}

\* No cross blocking (the comment of Queue): every accepted job ends, in spite
\* of the workers that wait for each other, unless the process is abandoned.
EveryJobEnds ==
    \A j \in Job : state[j] = "queued" ~>
        state[j] \in {"written", "compensated"} \/ main = "abandoned"

\* A shutdown that began ends.
ShutdownEnds == main \in {"stopping", "failing"} ~> main \in {"done", "abandoned"}
=============================================================================
