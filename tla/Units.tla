------------------------------- MODULE Units -------------------------------
(***************************************************************************)
(* A unit between the loop's memory and its rows: movement, gathering and  *)
(* garrison (internal/game/simulation/{simulation,gather,deposit,garrison, *)
(* recovery}.go and the transactions of internal/persistence).             *)
(*                                                                         *)
(* The loop decides every step on its memory and writes it later: each     *)
(* order leaves jobs in the FIFO of its unit, the worker runs them one by  *)
(* one, and a job that is given up comes back to the loop as a message.    *)
(* What may go wrong is a compensation that finds the unit doing something *)
(* else, and a restart that finds rows of two different stories.           *)
(*                                                                         *)
(* Time is abstract: a walk may be stopped on its first or its last tile   *)
(* and ends at any moment, a work ends at any moment.  The fresh number of *)
(* a movement, of a revision of a task and of the deadline of a work       *)
(* (loop counters and instants in the code) is one number, reused once     *)
(* nothing refers to it.                                                   *)
(***************************************************************************)
EXTENDS Naturals, Sequences, FiniteSets, SequencesExt

CONSTANTS
  Unit,         \* units of one player
  Depot,        \* first walkable tile of the ring of the player's city
  Forest,       \* tiles with a resource
  City, Own,    \* cities beside Depot, and the player's one
  Loads,        \* loads of a full tile
  QueueSize,    \* jobs a unit may have waiting
  InboxSize,    \* messages the inbox holds
  MaxFailures,  \* bound: jobs given up or committed without an answer
  MaxOrders,    \* bound: orders of the player, expulsions and regrowths
  MaxExpulsions \* bound: expulsions that may come on top of those

NoCity == "none"
NoTile == "none"

ASSUME ConstantsAssumption ==
  /\ Unit # {} /\ IsFiniteSet(Unit) /\ Own \in City /\ NoCity \notin City
  /\ NoTile \notin Forest \cup {Depot}
  /\ Loads \in Nat \ {0} /\ QueueSize \in Nat \ {0} /\ InboxSize \in Nat \ {0}
  /\ MaxFailures \in Nat /\ MaxOrders \in Nat /\ MaxExpulsions \in Nat

Tile == Forest \cup {Depot}

VARIABLES
  ram,       \* per unit, what the loop holds
  left,      \* loads left on each tile, in the loop's memory
  queue,     \* per unit, jobs submitted and not finished
  inbox,     \* messages of the workers to the loop
  row,       \* per unit, its rows: units, ACTIVE movement, task, garrison
  kept,      \* loads left on each tile, in the database
  failures,  \* bounded count of failures
  orders,    \* bounded count of orders
  loose,     \* history: units with a job given up that left rows nobody retries
  crossed,   \* history: units sent out while their way in was unanswered
  lost       \* history: a message found the inbox full

vars == <<ram, left, queue, inbox, row, kept, failures, orders, loose, crossed, lost>>

-----------------------------------------------------------------------------
(* Values *)

NoWalk == [id |-> 0, to |-> Depot]
NoTask == [phase |-> "NONE", carry |-> 0, target |-> NoTile, rev |-> 0]
NoLoad == [tile |-> NoTile, rev |-> 0]
Status == {"IDLE", "MOVING", "WORKING", "GARRISONED"}
IsLeg(t) == t.phase \in {"TO_RESOURCE", "TO_DEPOSIT"}

\* Numbers some memory, job, message or row still refers to.
NumbersOf(j) ==
  CASE j.k \in {"Start", "Finish"} -> {j.id}
    [] j.k = "Task" -> {j.fin, j.leg.id, j.task.rev, j.load.rev, j.rev}
    [] OTHER -> {}
Used ==
  {inbox[i].id : i \in DOMAIN inbox} \cup
  UNION {{ram[u].walk.id, ram[u].task.rev, row[u].walk.id, row[u].task.rev}
           \cup ram[u].pend
           \cup UNION {NumbersOf(queue[u][i].job) : i \in DOMAIN queue[u]} : u \in Unit}
Fresh == LET used == Used IN CHOOSE n \in 1..(Cardinality(used) + 1) : n \notin used

(* Jobs (Job.Run of each Submit) *)
StartJob(id, from, to) == [k |-> "Start", id |-> id, from |-> from, to |-> to]
FinishJob(id, whole, at) == [k |-> "Finish", id |-> id, whole |-> whole, at |-> at]
TaskJob(fin, leg, status, at, task, load, rev) ==
  [k |-> "Task", fin |-> fin, leg |-> leg, status |-> status, at |-> at,
   task |-> task, load |-> load, rev |-> rev]
FlushJob(status, at) == [k |-> "Flush", status |-> status, at |-> at]
EnterJob(c) == [k |-> "Enter", city |-> c]
LeaveJob(at, c, from) == [k |-> "Leave", at |-> at, city |-> c, from |-> from]

(* The message that brings a job back to the loop when it is given up. *)
Message(k, u, id, city, at, ok) ==
  [k |-> k, u |-> u, id |-> id, city |-> city, at |-> at, ok |-> ok]
\* Mutant of FailureOf: an entry given up is answered as a lost position.
FailureOfEntryForgotten(u, j) ==
  CASE j.k = "Start"  -> Message("StartFailed", u, j.id, NoCity, NoTile, FALSE)
    [] j.k = "Finish" -> Message("FinishFailed", u, j.id, NoCity, NoTile, FALSE)
    [] j.k = "Task"   -> Message("TaskFailed", u, j.rev, NoCity, NoTile, FALSE)
    [] j.k = "Leave"  -> Message("ExitFailed", u, 0, j.city, j.from, FALSE)
    [] OTHER          -> Message("FlushFailed", u, 0, NoCity, NoTile, FALSE)

FailureOf(u, j) ==
  CASE j.k = "Start"  -> Message("StartFailed", u, j.id, NoCity, NoTile, FALSE)
    [] j.k = "Finish" -> Message("FinishFailed", u, j.id, NoCity, NoTile, FALSE)
    [] j.k = "Task"   -> Message("TaskFailed", u, j.rev, NoCity, NoTile, FALSE)
    [] j.k = "Flush"  -> Message("FlushFailed", u, 0, NoCity, NoTile, FALSE)
    [] j.k = "Enter"  -> Message("Entered", u, 0, j.city, NoTile, FALSE)
    [] OTHER          -> Message("ExitFailed", u, 0, j.city, j.from, FALSE)

\* reinject: a full inbox drops the message.
Offer(box, m) == IF Len(box) < InboxSize THEN Append(box, m) ELSE box
Dropped(box) == Len(box) >= InboxSize

-----------------------------------------------------------------------------
(* Steps of the loop.  A step works on s: the memory u of its unit, the     *)
(* tiles, a fresh number n, the load that travels with the next write of a *)
(* task, and the jobs it leaves, in order.                                 *)

Step(u) == [u |-> ram[u], left |-> left, n |-> Fresh, load |-> NoLoad, out |-> <<>>]

DropTask(s) == [s EXCEPT !.u.task = NoTask]

Cancel(s, stop) ==
  IF s.u.walk = NoWalk THEN s
  ELSE [s EXCEPT !.u.task = NoTask, !.u.walk = NoWalk, !.u.status = "IDLE",
                 !.u.at = stop, !.u.dirty = TRUE,
                 !.out = Append(@, FinishJob(s.u.walk.id, TRUE, stop))]

StopWorking(s) ==
  IF s.u.status # "WORKING" THEN s
  ELSE [s EXCEPT !.u.task = NoTask, !.u.status = "IDLE", !.u.dirty = TRUE,
                 !.out = Append(@, FinishJob(0, TRUE, s.u.at))]

BeginWalk(s, from, to) ==
  LET c == Cancel(DropTask(s), from)
  IN [c EXCEPT !.u.walk = [id |-> s.n, to |-> to], !.u.status = "MOVING",
               !.u.dirty = TRUE, !.out = Append(@, StartJob(s.n, from, to))]

(* Every transition of a task ends in one of these three writes. *)
StartLeg(s, t, to, fin) ==
  LET task == [t EXCEPT !.rev = s.n]
      leg  == [id |-> s.n, to |-> to]
  IN [s EXCEPT !.u.walk = leg, !.u.status = "MOVING", !.u.dirty = TRUE,
               !.u.task = task, !.load = NoLoad,
               !.out = Append(@, TaskJob(fin, leg, "MOVING", s.u.at, task, s.load, s.n))]

Work(s, t, fin) ==
  LET task == [t EXCEPT !.phase = "WORKING", !.rev = s.n]
  IN [s EXCEPT !.u.status = "WORKING", !.u.dirty = TRUE, !.u.task = task, !.load = NoLoad,
               !.out = Append(@, TaskJob(fin, NoWalk, "WORKING", s.u.at, task, s.load, s.n))]

EndTask(s, fin) ==
  [s EXCEPT !.u.task = NoTask, !.u.status = "IDLE", !.u.dirty = TRUE, !.load = NoLoad,
            !.out = Append(@, TaskJob(fin, NoWalk, "IDLE", s.u.at, NoTask, s.load, 0))]

(* What the world answers to a step: the tile a search finds, if any,       *)
(* whether the way back exists, and whether the owner is present.          *)
Answer == [seek : Forest \cup {NoTile}, route : BOOLEAN, present : BOOLEAN]
Found(s, t, a) == /\ a.seek # NoTile /\ a.seek # t.target
                  /\ s.left[a.seek] > 0
Retarget(s, t, fin, a) ==
  LET next == [t EXCEPT !.target = a.seek, !.phase = "TO_RESOURCE"]
  IN IF s.u.at = a.seek THEN Work(s, next, fin) ELSE StartLeg(s, next, a.seek, fin)

ArriveAtDeposit(s, t, fin, a) ==
  LET next == [t EXCEPT !.phase = "TO_RESOURCE", !.carry = 0]
  IN CASE ~a.present -> EndTask(s, fin)
       [] a.present /\ s.left[t.target] = 0 ->
            IF Found(s, t, a) THEN Retarget(s, next, fin, a) ELSE EndTask(s, fin)
       [] a.present /\ s.left[t.target] > 0 ->
            IF s.u.at = t.target THEN Work(s, next, fin)
            ELSE IF a.route THEN StartLeg(s, next, t.target, fin) ELSE EndTask(s, fin)

LeaveDepleted(s, t, fin, a) ==
  LET back == [t EXCEPT !.phase = "TO_DEPOSIT"]
  IN CASE Found(s, t, a) -> Retarget(s, t, fin, a)
       [] ~Found(s, t, a) /\ s.u.at = Depot -> ArriveAtDeposit(s, back, fin, a)
       [] OTHER -> IF a.route THEN StartLeg(s, back, Depot, fin) ELSE EndTask(s, fin)

ArriveAtResource(s, t, fin, a) ==
  IF s.left[t.target] = 0 THEN LeaveDepleted(s, t, fin, a) ELSE Work(s, t, fin)

LeaveResource(s, a) ==
  LET t    == s.u.task
      took == [s EXCEPT !.left[t.target] = @ - 1,
                        !.load = [tile |-> t.target, rev |-> t.rev]]
      next == [t EXCEPT !.phase = "TO_DEPOSIT", !.carry = 1]
  IN CASE s.left[t.target] = 0 -> LeaveDepleted(s, t, 0, a)
       [] s.left[t.target] > 0 /\ s.u.at = Depot -> ArriveAtDeposit(took, next, 0, a)
       [] OTHER -> IF a.route THEN StartLeg(took, next, Depot, 0) ELSE EndTask(took, 0)

OnLegArrived(s, id, a) ==
  LET t == s.u.task
  IN CASE t.phase = "TO_RESOURCE" /\ s.u.at = t.target -> ArriveAtResource(s, t, id, a)
       [] t.phase = "TO_DEPOSIT" -> ArriveAtDeposit(s, t, id, a)
       [] OTHER -> EndTask(s, id)

Exit(s) ==
  [s EXCEPT !.u.status = "IDLE", !.u.inside = NoCity, !.u.at = Depot,
            !.u.dirty = TRUE,
            !.out = Append(@, LeaveJob(Depot, s.u.inside, s.u.at))]

(* FlushDirty, on one unit: first the lost closings, then its position. *)
FlushUnit(s) ==
  LET closings == SetToSeq({FinishJob(i, FALSE, NoTile) : i \in s.u.pend})
      f == [s EXCEPT !.u.pend = {}, !.out = @ \o closings]
  IN CASE ~s.u.dirty -> f
       [] s.u.dirty /\ s.u.walk # NoWalk -> [f EXCEPT !.u.dirty = FALSE]
       [] s.u.dirty /\ s.u.walk = NoWalk /\ s.u.entering -> f
       [] OTHER -> [f EXCEPT !.u.dirty = FALSE,
                             !.out = Append(@, FlushJob(s.u.status, s.u.at))]

-----------------------------------------------------------------------------
(* Transactions: the rows r of a unit after job j. *)

\* Mutant of Charges: the revision of the task is not compared.
ChargesAnyRevision(r, load) == load # NoLoad

Charges(r, load) == /\ load # NoLoad
                    /\ r.task.phase = "WORKING" /\ r.task.rev = load.rev

Close(r, id) == IF id # 0 /\ r.walk.id = id THEN [r EXCEPT !.walk = NoWalk] ELSE r

PersistMovementStart(r, j) ==
  [r EXCEPT !.walk = [id |-> j.id, to |-> j.to], !.task = NoTask,
            !.status = "MOVING", !.at = j.from]
PersistMovementFinish(r, j) ==
  IF j.whole THEN [Close(r, j.id) EXCEPT !.task = NoTask, !.status = "IDLE", !.at = j.at]
  ELSE Close(r, j.id)
PersistTask(r, j) ==
  [r EXCEPT !.walk = IF j.leg # NoWalk THEN j.leg ELSE Close(r, j.fin).walk,
            !.task = j.task, !.status = j.status, !.at = j.at]
EnterCity(r, c) ==
  [r EXCEPT !.walk = NoWalk, !.task = NoTask, !.status = "GARRISONED", !.host = c]
LeaveCity(r, j) == [r EXCEPT !.status = "IDLE", !.at = j.at, !.host = NoCity]

(* Enter finds its own row (a retry), the row of another city, or decides   *)
(* with the treaty of the moment.                                          *)
Enters(r, c, treaty) == \/ r.host = c
                        \/ r.host = NoCity /\ (c = Own \/ treaty)

Written(r, j, treaty) ==
  CASE j.k = "Start"  -> PersistMovementStart(r, j)
    [] j.k = "Finish" -> PersistMovementFinish(r, j)
    [] j.k = "Task"   -> PersistTask(r, j)
    [] j.k = "Flush"  -> [r EXCEPT !.status = j.status, !.at = j.at]
    [] j.k = "Enter"  -> IF r.host = NoCity /\ Enters(r, j.city, treaty)
                         THEN EnterCity(r, j.city) ELSE r
    [] OTHER          -> LeaveCity(r, j)

-----------------------------------------------------------------------------
(* Start of the process: load checks, rehydration and reconciliation. *)

\* loadcheck: the garrison row is the fact; a task that its unit's status
\* contradicts goes, and so does a WORKING without one.
Checked(r) ==
  LET st   == CASE r.host # NoCity -> "GARRISONED"
                [] r.host = NoCity /\ r.status = "GARRISONED" -> "IDLE"
                [] OTHER -> r.status
      keep == /\ r.task # NoTask /\ st # "GARRISONED"
              /\ r.task.phase = "WORKING" => st = "WORKING"
      task == IF keep THEN r.task ELSE NoTask
  IN [r EXCEPT !.task = task,
               !.status = IF st = "WORKING" /\ task.phase # "WORKING" THEN "IDLE" ELSE st]

\* Hydrate: what becomes of an ACTIVE movement, late or not.
Hydrated(r, late) ==
  CASE r.walk = NoWalk /\ r.status = "MOVING" -> [r EXCEPT !.status = "IDLE"]
    [] r.walk = NoWalk /\ r.status # "MOVING" -> r
    [] r.walk # NoWalk /\ r.status = "GARRISONED" -> [r EXCEPT !.walk = NoWalk]
    [] r.walk # NoWalk /\ r.status # "GARRISONED" /\ late /\ ~IsLeg(r.task) ->
         [r EXCEPT !.walk = NoWalk, !.status = "IDLE", !.at = r.walk.to]
    [] OTHER -> [r EXCEPT !.status = "MOVING"]

\* ReconcileTasks, on the rows already rehydrated.
Reconciled(r) ==
  CASE IsLeg(r.task) /\ r.walk = NoWalk ->
         [r EXCEPT !.task = NoTask, !.status = "IDLE"]
    [] r.task.phase = "WORKING" /\ (r.status # "WORKING" \/ r.at # r.task.target) ->
         [r EXCEPT !.task = NoTask,
                   !.status = IF r.walk = NoWalk THEN "IDLE" ELSE @]
    [] OTHER -> r

Recovered(r, late) == Reconciled(Hydrated(Checked(r), late))

Idle(at) == [status |-> "IDLE", at |-> at, walk |-> NoWalk, task |-> NoTask,
             entering |-> FALSE, exiting |-> FALSE, inside |-> NoCity,
             dirty |-> FALSE, pend |-> {}]

\* The memory after the start, and the rows: a movement that goes on and a
\* MOVING unit without one are not written.
MemoryOf(r, late) ==
  LET m == Recovered(r, late)
  IN [Idle(m.at) EXCEPT !.status = m.status, !.walk = m.walk, !.task = m.task,
                        !.inside = m.host,
                        !.dirty = m.status = "IDLE" /\ m # Checked(r)]
RowOf(r, late) ==
  LET c == Checked(r)
      m == Recovered(r, late)
  IN IF \/ m.walk # NoWalk
        \/ c.walk = NoWalk /\ c.status = "MOVING" /\ ~IsLeg(c.task)
     THEN [m EXCEPT !.status = c.status] ELSE m

-----------------------------------------------------------------------------
\* The units start idle beside the city, or inside one.
Init ==
  /\ \E host \in [Unit -> City \cup {NoCity}] :
       LET st(u) == IF host[u] = NoCity THEN "IDLE" ELSE "GARRISONED"
       IN /\ ram = [u \in Unit |-> [Idle(Depot) EXCEPT !.status = st(u), !.inside = host[u]]]
          /\ row = [u \in Unit |-> [status |-> st(u), at |-> Depot, walk |-> NoWalk,
                                    task |-> NoTask, host |-> host[u]]]
  /\ left = [f \in Forest |-> Loads]
  /\ queue = [u \in Unit |-> <<>>]
  /\ inbox = <<>>
  /\ kept = [f \in Forest |-> Loads]
  /\ failures = 0
  /\ orders = 0
  /\ loose = {}
  /\ crossed = {}
  /\ lost = FALSE

\* The closing of a leg that travels with a task is lost with it.
Leaves(j) == j.k = "Task" /\ j.fin # 0

\* expelGarrisons does not ask whether the unit is entering: the exit waits
\* behind the entry, and the answer to the entry comes after both.
Crosses(u, s) == ram[u].entering /\ \E i \in DOMAIN s.out : s.out[i].k = "Leave"

\* Submit, in order: what a full queue does not take is given up, and its failure
\* goes to the inbox.
Least(a, b) == IF a < b THEN a ELSE b
Apply(u, s, box) ==
  LET fit  == Least(Len(s.out), QueueSize - Len(queue[u]))
      over == Len(s.out) - fit
      told == Least(over, InboxSize - Len(box))
  IN /\ ram' = [ram EXCEPT ![u] = s.u]
     /\ left' = s.left
     /\ queue' = [queue EXCEPT ![u] = @ \o [i \in 1..fit |-> [job |-> s.out[i], done |-> FALSE]]]
     /\ inbox' = box \o [i \in 1..told |-> FailureOf(u, s.out[fit + i])]
     /\ lost' = (lost \/ told < over)
     /\ loose' = IF \E i \in (fit + 1)..Len(s.out) : Leaves(s.out[i]) THEN loose \cup {u} ELSE loose
     /\ crossed' = IF Crosses(u, s) THEN crossed \cup {u} ELSE crossed
     /\ UNCHANGED <<row, kept, failures>>

\* PositionAt: where the unit may be now.
Here(u) == {ram[u].at} \cup (IF ram[u].walk = NoWalk THEN {} ELSE {ram[u].walk.to})
Free(u) == ram[u].status # "GARRISONED" /\ ~ram[u].entering

(* An order of the player, a bounded number of times. *)
Ordered == orders < MaxOrders /\ orders' = orders + 1
\* The end of a treaty, which waits for no order.
Imposed == orders < MaxOrders + MaxExpulsions /\ orders' = orders + 1
Quiet == UNCHANGED orders

(* unit.move *)
Move(u, to, from) ==
  /\ Ordered
  /\ Free(u) /\ from \in Here(u)
  /\ Apply(u, IF from = to THEN Cancel(StopWorking(Step(u)), from)
              ELSE BeginWalk(Step(u), from, to), inbox)

(* unit.cancel_move: no check of a pending entry. *)
CancelMovement(u, from) ==
  /\ Ordered
  /\ from \in Here(u)
  /\ ram[u].walk # NoWalk \/ ram[u].status = "WORKING"
  /\ Apply(u, Cancel(StopWorking(Step(u)), from), inbox)

(* unit.gather *)
Gather(u, f, from) ==
  /\ Ordered
  /\ Free(u) /\ from \in Here(u) /\ left[f] > 0
  /\ LET s == Cancel(DropTask(Step(u)), from)
         t == [phase |-> "TO_RESOURCE", carry |-> 0, target |-> f, rev |-> 0]
     IN Apply(u, IF from = f THEN Work(s, t, 0) ELSE StartLeg(s, t, f, 0), inbox)

(* Phase 3 of the tick: a walk arrives. *)
Arrive(u, a) ==
  /\ Quiet
  /\ ram[u].walk # NoWalk
  /\ LET w == ram[u].walk
         s == [Step(u) EXCEPT !.u.walk = NoWalk, !.u.at = w.to]
     IN Apply(u, IF IsLeg(s.u.task) THEN OnLegArrived(s, w.id, a)
                 ELSE [s EXCEPT !.u.status = "IDLE", !.u.dirty = TRUE,
                                !.out = Append(@, FinishJob(w.id, TRUE, w.to))], inbox)

(* Phase 5: a work is due; on a unit that does not work it is forgotten. *)
AdvanceTask(u, a) ==
  /\ Quiet
  /\ ram[u].task.phase = "WORKING"
  /\ Apply(u, IF ram[u].status = "WORKING" THEN LeaveResource(Step(u), a)
              ELSE DropTask(Step(u)), inbox)

(* A tile is full again, a day after its last load. *)
Regrow(f) ==
  /\ Ordered
  /\ left[f] < Loads
  /\ \A u \in Unit : \A i \in DOMAIN queue[u] :
       queue[u][i].job.k = "Task" => queue[u][i].job.load.tile # f
  /\ left' = [left EXCEPT ![f] = Loads]
  /\ kept' = [kept EXCEPT ![f] = Loads]
  /\ UNCHANGED <<ram, queue, inbox, row, failures, loose, crossed, lost>>

(* unit.garrison: the tick checks, the transaction decides. *)
GarrisonUnit(u, c) ==
  /\ Ordered
  /\ ~ram[u].entering /\ ram[u].status = "IDLE" /\ ram[u].at = Depot
  /\ Apply(u, [Step(u) EXCEPT !.u.entering = TRUE, !.out = <<EnterJob(c)>>], inbox)

(* unit.ungarrison, and the expulsion at the end of a treaty; without a     *)
(* free tile the exit waits.                                               *)
UngarrisonUnit(u, free) ==
  /\ Ordered
  /\ ram[u].status = "GARRISONED" /\ ~ram[u].entering /\ ~ram[u].exiting
  /\ Apply(u, IF free THEN Exit(Step(u)) ELSE [Step(u) EXCEPT !.u.exiting = TRUE], inbox)
Expel(u, free) ==
  /\ Imposed
  /\ ram[u].status = "GARRISONED" /\ ram[u].inside # Own /\ ~ram[u].exiting
  /\ Apply(u, IF free THEN Exit(Step(u)) ELSE [Step(u) EXCEPT !.u.exiting = TRUE], inbox)
RetryPendingExit(u) ==
  /\ Quiet
  /\ ram[u].exiting
  /\ LET s == [Step(u) EXCEPT !.u.exiting = FALSE]
     IN Apply(u, IF ram[u].status = "GARRISONED" THEN Exit(s) ELSE s, inbox)

FlushDirty(u) ==
  /\ Quiet
  /\ ram[u].dirty \/ ram[u].pend # {}
  /\ Apply(u, FlushUnit(Step(u)), inbox)

(* Messages of the workers. *)
HandleEntered(s, m) ==
  IF m.ok THEN [s EXCEPT !.u.entering = FALSE, !.u.status = "GARRISONED", !.u.inside = m.city]
  ELSE [s EXCEPT !.u.entering = FALSE]
\* Mutant of HandleExitFailed: the walk begun outside is not cancelled.
HandleExitFailedWalking(s, m, from) ==
  IF s.u.status = "GARRISONED" THEN s
  ELSE [s EXCEPT !.u.status = "GARRISONED", !.u.inside = m.city,
                 !.u.at = m.at, !.u.dirty = TRUE]

HandleExitFailed(s, m, from) ==
  IF s.u.status = "GARRISONED" THEN s
  ELSE [Cancel(s, from) EXCEPT !.u.status = "GARRISONED", !.u.inside = m.city,
                               !.u.at = m.at, !.u.dirty = TRUE]
HandleStartFailed(s, m, from) == IF s.u.walk.id = m.id THEN Cancel(s, from) ELSE s
HandleTaskFailed(s, m, from) ==
  CASE m.id = 0 /\ s.u.task = NoTask ->
         [s EXCEPT !.out = Append(@, FinishJob(0, TRUE, s.u.at))]
    [] m.id # 0 /\ s.u.task # NoTask /\ s.u.task.rev = m.id ->
         IF s.u.status = "WORKING" THEN StopWorking(s) ELSE Cancel(s, from)
    [] OTHER -> s
\* Mutant of HandleFinishFailed: the unit is dirty, its closing is forgotten.
HandleFinishFailedForgets(s, m) == [s EXCEPT !.u.dirty = TRUE]

HandleFinishFailed(s, m) ==
  [s EXCEPT !.u.dirty = TRUE, !.u.pend = IF m.id = 0 THEN @ ELSE @ \cup {m.id}]

Handle(from) ==
  /\ Quiet
  /\ inbox # <<>>
  /\ LET m == Head(inbox)
         s == Step(m.u)
     IN /\ from \in Here(m.u)
        /\ Apply(m.u, CASE m.k = "Entered"      -> HandleEntered(s, m)
                        [] m.k = "ExitFailed"   -> HandleExitFailed(s, m, from)
                        [] m.k = "StartFailed"  -> HandleStartFailed(s, m, from)
                        [] m.k = "TaskFailed"   -> HandleTaskFailed(s, m, from)
                        [] m.k = "FinishFailed" -> HandleFinishFailed(s, m)
                        [] OTHER                -> [s EXCEPT !.u.dirty = TRUE],
                 Tail(inbox))

-----------------------------------------------------------------------------
(* The worker.  A transaction commits and is acknowledged; or commits and  *)
(* its answer is lost, so it runs again; or the job is given up.           *)

Write(u, treaty) ==
  LET j == Head(queue[u]).job
  IN /\ row' = [row EXCEPT ![u] = Written(@, j, treaty)]
     /\ kept' = IF j.k = "Task" /\ Charges(row[u], j.load)
                THEN [kept EXCEPT ![j.load.tile] = @ - 1] ELSE kept

\* The start of a movement inserts its id: run again, it finds it taken.
Runnable(u) == /\ queue[u] # <<>>
               /\ ~(Head(queue[u]).job.k = "Start" /\ Head(queue[u]).done)

Commit(u, treaty) ==
  /\ Runnable(u)
  /\ Write(u, treaty)
  /\ LET j == Head(queue[u]).job
     IN IF j.k = "Enter"
        THEN /\ inbox' = Offer(inbox, Message("Entered", u, 0, j.city, NoTile,
                                              Enters(row[u], j.city, treaty)))
             /\ lost' = (lost \/ Dropped(inbox))
        ELSE UNCHANGED <<inbox, lost>>
  /\ queue' = [queue EXCEPT ![u] = Tail(@)]
  /\ UNCHANGED <<ram, left, failures, orders, loose, crossed>>

CommitUnacked(u) ==
  /\ Runnable(u) /\ ~Head(queue[u]).done /\ failures < MaxFailures
  /\ Write(u, TRUE)
  /\ queue' = [queue EXCEPT ![u][1].done = TRUE]
  /\ failures' = failures + 1
  /\ UNCHANGED <<ram, left, inbox, orders, loose, crossed, lost>>

GiveUp(u) ==
  /\ queue[u] # <<>>
  /\ failures < MaxFailures \/ ~Runnable(u)
  /\ failures' = IF failures < MaxFailures THEN failures + 1 ELSE failures
  /\ inbox' = Offer(inbox, FailureOf(u, Head(queue[u]).job))
  /\ lost' = (lost \/ Dropped(inbox))
  /\ loose' = IF Head(queue[u]).done \/ Leaves(Head(queue[u]).job) THEN loose \cup {u} ELSE loose
  /\ queue' = [queue EXCEPT ![u] = Tail(@)]
  /\ UNCHANGED <<ram, left, row, kept, orders, crossed>>

(* The process dies and starts again: only the rows remain. *)
Restart(late) ==
  /\ row' = [u \in Unit |-> RowOf(row[u], u \in late)]
  /\ ram' = [u \in Unit |-> MemoryOf(row[u], u \in late)]
  /\ left' = kept
  /\ queue' = [u \in Unit |-> <<>>]
  /\ inbox' = <<>>
  /\ loose' = {} /\ crossed' = {} /\ lost' = FALSE
  /\ UNCHANGED <<kept, failures, orders>>

Order(u) ==
  \/ \E to \in Tile, from \in Tile : Move(u, to, from)
  \/ \E from \in Tile : CancelMovement(u, from)
  \/ \E f \in Forest, from \in Tile : Gather(u, f, from)
  \/ \E c \in City : GarrisonUnit(u, c)
  \/ \E free \in BOOLEAN : UngarrisonUnit(u, free) \/ Expel(u, free)
Tick(u) ==
  \/ \E a \in Answer : Arrive(u, a) \/ AdvanceTask(u, a)
  \/ RetryPendingExit(u)
  \/ FlushDirty(u)
Worker(u) == (\E treaty \in BOOLEAN : Commit(u, treaty)) \/ CommitUnacked(u) \/ GiveUp(u)

Next ==
  \/ \E u \in Unit : Order(u) \/ Tick(u) \/ Worker(u)
  \/ \E from \in Tile : Handle(from)
  \/ \E f \in Forest : Regrow(f)
  \/ \E late \in SUBSET Unit : Restart(late)

Spec == Init /\ [][Next]_vars

-----------------------------------------------------------------------------
(* Properties *)

TaskType == [phase : {"NONE", "TO_RESOURCE", "WORKING", "TO_DEPOSIT"}, carry : 0..1,
             target : Forest \cup {NoTile}, rev : Nat]
WalkType == [id : Nat, to : Tile]

\* Types of the memory of the units, of their rows and of the tiles.
TypeOK ==
  /\ ram \in [Unit -> [status : Status, at : Tile, walk : WalkType, task : TaskType,
                       entering : BOOLEAN, exiting : BOOLEAN, inside : City \cup {NoCity},
                       dirty : BOOLEAN, pend : SUBSET Nat]]
  /\ row \in [Unit -> [status : Status, at : Tile, walk : WalkType, task : TaskType,
                       host : City \cup {NoCity}]]
  /\ left \in [Forest -> 0..Loads] /\ kept \in [Forest -> 0..Loads]
  /\ failures \in 0..MaxFailures
  /\ \A u \in Unit : Len(queue[u]) <= QueueSize
  /\ Len(inbox) <= InboxSize

\* Status, movement, task and garrison of a unit tell one story, whatever
\* order, arrival or late compensation came last (INV-UNIT-005, INV-UNIT-007,
\* INV-ECON-003): a unit moves exactly while it has a movement, the leg of a
\* task is its movement, one that works is on the tile of its task.
OneStory ==
  \A u \in Unit : LET m == ram[u] IN
    /\ m.status = "MOVING" <=> m.walk # NoWalk
    /\ m.status = "GARRISONED" <=> m.inside # NoCity
    /\ IsLeg(m.task) => m.walk = [id |-> m.task.rev, to |-> IF m.task.phase = "TO_DEPOSIT"
                                                            THEN Depot ELSE m.task.target]
    /\ m.status = "WORKING" => m.task.phase = "WORKING" /\ m.at = m.task.target
    /\ m.entering => m.status \in {"IDLE", "GARRISONED"}

\* Nothing about the unit is on its way to the database, or to the loop.
Still(u) == /\ queue[u] = <<>> /\ \A i \in DOMAIN inbox : inbox[i].u # u
            /\ ~ram[u].dirty /\ ram[u].pend = {} /\ ~ram[u].entering
            /\ ~lost
Settled(u) == Still(u) /\ u \notin loose /\ u \notin crossed

\* A restart changes nothing of a unit whose writes ended: what its rows
\* rehydrate to is what the loop holds (ADR-013, ADR-022).  A write given up
\* leaves the unit to a compensation and the next flush, never forgotten.  Only
\* the WORKING task of a unit that no longer works may differ: phase 5 forgets
\* it without a write, and so does the load.
RestartChangesNothing ==
  \A u \in Unit : Settled(u) =>
    LET r == Recovered(row[u], ram[u].walk = NoWalk)
    IN /\ r.status = ram[u].status /\ r.walk = ram[u].walk /\ r.host = ram[u].inside
       /\ ram[u].walk = NoWalk => r.at = ram[u].at
       /\ r.task = IF ram[u].status = "WORKING" \/ IsLeg(ram[u].task)
                   THEN ram[u].task ELSE NoTask

\* A load never leaves a tile twice, though the transaction that takes it may
\* run again: the database never holds less than the loop (INV-ECON-008).
NeverTakenTwice == \A f \in Forest : kept[f] >= left[f]

\* A unit that enters a city is never forgotten on the threshold: while the
\* loop waits, the entry is queued or its answer is on its way (RN-GARR-020;
\* until then the unit takes no order).  Only a full inbox may lose it.
EntryAwaited ==
  \A u \in Unit : ram[u].entering =>
    \/ \E i \in DOMAIN queue[u] : queue[u][i].job.k = "Enter"
    \/ \E i \in DOMAIN inbox : inbox[i].u = u /\ inbox[i].k = "Entered"
    \/ lost

\* What a tile loses is what the units took: once everything is written, the
\* tile of the database is the tile of the loop (INV-ECON-008).
TilesAgree == (\A u \in Unit : Settled(u)) => kept = left

\* "Un cierre perdido deja la fila ACTIVE ... hasta el reinicio", so closings
\* are retried until written (submitFinish): no movement stays ACTIVE in the
\* database for a unit that walks another one, or none.
ClosingsRetried ==
  \A u \in Unit : Still(u) => row[u].walk \in {NoWalk, ram[u].walk}
=============================================================================
