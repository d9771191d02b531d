-------------------------- MODULE UnitsInvariant ----------------------------
(***************************************************************************)
(* The inductive invariant of Units, and the words its proofs use: what    *)
(* the loop, the rows, the queues and the inbox may hold together.         *)
(***************************************************************************)
EXTENDS Units

-----------------------------------------------------------------------------
(* Types.                                                                  *)

Walk == {w \in WalkType : w = NoWalk \/ w.id # 0}
Task == {t \in TaskType : t = NoTask \/ (t.phase # "NONE" /\ t.target \in Forest /\ t.rev # 0)}
Load == {l \in [tile : Forest \cup {NoTile}, rev : Nat] : l = NoLoad \/ (l.tile \in Forest /\ l.rev # 0)}
\* The walk of a task on one of its legs.
LegOf(t) == [id |-> t.rev, to |-> IF t.phase = "TO_DEPOSIT" THEN Depot ELSE t.target]
Numbers == {p \in SUBSET Nat : IsFiniteSet(p)}
Memory == [status : Status, at : Tile, walk : Walk, task : Task, entering : BOOLEAN, exiting : BOOLEAN,
           inside : City \cup {NoCity}, dirty : BOOLEAN, pend : Numbers]
Rows == [status : Status, at : Tile, walk : Walk, task : Task, host : City \cup {NoCity}]

StartJobs == [k : {"Start"}, id : Nat \ {0}, from : Tile, to : Tile]
FinishJobs == {j \in [k : {"Finish"}, id : Nat, whole : BOOLEAN, at : Tile \cup {NoTile}] : j.whole => j.at \in Tile}
\* A task is written with its leg, and never with the revision its load was cut under.
TaskJobs == {j \in [k : {"Task"}, fin : Nat, leg : Walk, status : Status, at : Tile, task : Task, load : Load, rev : Nat] :
               /\ j.leg = IF IsLeg(j.task) THEN LegOf(j.task) ELSE NoWalk
               /\ j.load # NoLoad /\ j.task.phase = "WORKING" => j.task.rev # j.load.rev}
FlushJobs == [k : {"Flush"}, status : Status, at : Tile]
EnterJobs == [k : {"Enter"}, city : City]
LeaveJobs == [k : {"Leave"}, at : Tile, city : City, from : Tile]
Job == StartJobs \cup FinishJobs \cup TaskJobs \cup FlushJobs \cup EnterJobs \cup LeaveJobs
Item == [job : Job, done : BOOLEAN]
Messages == [k : {"StartFailed", "FinishFailed", "TaskFailed", "FlushFailed", "Entered", "ExitFailed"}, u : Unit,
             id : Nat, city : City \cup {NoCity}, at : Tile \cup {NoTile}, ok : BOOLEAN]
\* A unit is sent back to a city, where it was.
Sent == {m \in Messages : /\ m.k = "Entered" => m.city \in City
                          /\ m.k = "ExitFailed" => m.city \in City /\ m.at \in Tile}

RamType ==
  /\ ram \in [Unit -> Memory]
  /\ left \in [Forest -> 0..Loads]
RowType == row \in [Unit -> Rows] /\ kept \in [Forest -> 0..Loads] /\ failures \in 0..MaxFailures
QueueType == queue \in [Unit -> Seq(Item)] /\ \A u \in Unit : Len(queue[u]) <= QueueSize
InboxType == inbox \in Seq(Sent) /\ Len(inbox) <= InboxSize
TypeInv == RamType /\ RowType /\ QueueType /\ InboxType

-----------------------------------------------------------------------------
(* Inv: types, one story, entries and loads on their way.                  *)

\* Status, movement, task and city of a unit tell one story.
Story(m) ==
  /\ m.status = "MOVING" <=> m.walk # NoWalk
  /\ m.status = "GARRISONED" <=> m.inside # NoCity
  /\ IsLeg(m.task) => m.walk = LegOf(m.task)
  /\ m.status = "WORKING" => m.task.phase = "WORKING" /\ m.at = m.task.target
  /\ m.entering => m.status \in {"IDLE", "GARRISONED"}
Stories == \A u \in Unit : Story(ram[u])

\* The rows may have lost the movement of a leg, and never hold another one.
RowStory(r) == IsLeg(r.task) => r.walk \in {LegOf(r.task), NoWalk}
RowStories == \A u \in Unit : RowStory(row[u])

\* The entry of a unit: one job of its queue q, or one answer in the inbox box, and
\* only while the loop waits (e); without either, a message was lost (l).
EnterIn(q, i) == i \in DOMAIN q /\ q[i].job.k = "Enter"
AnswerIn(box, u, i) == i \in DOMAIN box /\ box[i].u = u /\ box[i].k = "Entered"
Entry(q, box, u, e, l) ==
  /\ \A i \in Nat : EnterIn(q, i) \/ AnswerIn(box, u, i) => e
  /\ \A i, j \in Nat : EnterIn(q, i) /\ EnterIn(q, j) => i = j
  /\ \A i, j \in Nat : AnswerIn(box, u, i) /\ AnswerIn(box, u, j) => i = j
  /\ \A i, j \in Nat : ~(EnterIn(q, i) /\ AnswerIn(box, u, j))
  /\ e => l \/ \E i \in Nat : EnterIn(q, i) \/ AnswerIn(box, u, i)
Entries == \A u \in Unit : Entry(queue[u], inbox, u, ram[u].entering, lost)

\* The loads of queue q on their way to the database, told apart by the revision they
\* were cut under; rev is the revision of the unit's task, and task the task of its row.
\* Only the head may be committed already, and then the row holds its task.
CutIn(q, i) == i \in DOMAIN q /\ q[i].job.k = "Task" /\ q[i].job.load # NoLoad
RevIn(q, i) == q[i].job.load.rev
Apart(q, rev, task) ==
  /\ \A i \in Nat : CutIn(q, i) => RevIn(q, i) # rev
  /\ \A i, j \in Nat : CutIn(q, i) /\ CutIn(q, j) /\ RevIn(q, i) = RevIn(q, j) => i = j
  /\ \A i \in DOMAIN q : q[i].done => i = 1
  /\ \A i \in DOMAIN q : q[i].done /\ q[i].job.k = "Task" => task = q[i].job.task
AllApart == \A u \in Unit : Apart(queue[u], ram[u].task.rev, row[u].task)

Waits(q, f) == {i \in DOMAIN q : CutIn(q, i) /\ ~q[i].done /\ q[i].job.load.tile = f}
Credit(q, u, f) == {<<u, RevIn(q, i)>> : i \in Waits(q, f)}
Credits(qs, f) == UNION {Credit(qs[u], u, f) : u \in Unit}
Balance ==
  \A f \in Forest : IsFiniteSet(Credits(queue, f)) /\ Cardinality(Credits(queue, f)) + left[f] <= kept[f]

Inv == TypeInv /\ Stories /\ RowStories /\ Entries /\ AllApart /\ Balance

-----------------------------------------------------------------------------
(* Untangled: what explains the rows of a unit, in four strands.           *)

\* The messages box brings to unit u.
Told(box, u) == {box[i] : i \in {n \in DOMAIN box : box[n].u = u}}
Says(T, k, id) == \E y \in T : y.k = k /\ y.id = id

\* The movement job j opens, if any, and whether it closes movement id.
OpenedBy(j) == IF j.k = "Start" THEN j.id ELSE IF j.k = "Task" THEN j.leg.id ELSE 0
Ends(j, id) == (j.k = "Finish" /\ j.id = id) \/ (j.k = "Task" /\ j.fin = id)
\* Movement id is to be closed: by the loop, or by a job of queue q after the n-th.
Closing(id, pend, q, T, n) ==
  \/ id \in pend \/ Says(T, "FinishFailed", id)
  \/ \E k \in DOMAIN q : k > n /\ Ends(q[k].job, id)
\* First strand: whatever movement is open in row x, or will be by a job, is the walk
\* w of the unit or is to be closed, and that walk is not.
Closed(w, pend, x, q, T) ==
  /\ x.walk.id \notin {0, w} => Closing(x.walk.id, pend, q, T, 0)
  /\ \A i \in DOMAIN q : OpenedBy(q[i].job) \notin {0, w} => Closing(OpenedBy(q[i].job), pend, q, T, i)
  /\ w # 0 => ~Closing(w, pend, q, T, 0)

\* Second strand: the walk and the task of a unit that walks or works are those of
\* the last job that writes them, of the row, or of a job given up.
Busy(m) == m.walk # NoWalk \/ m.status = "WORKING"
Held(m) == IsLeg(m.task) \/ m.status = "WORKING"
Writes(m, j) == IF Held(m) THEN j.k = "Task" /\ j.task = m.task /\ j.rev = m.task.rev
                ELSE j.k = "Start" /\ m.walk = [id |-> j.id, to |-> j.to]
Overwrites(m, j) == j.k \in {"Start", "Task", "Enter"} \/ (Held(m) /\ j.k = "Finish" /\ j.whole)
Holds(m, x) == IF Held(m) THEN x.task = m.task /\ (IsLeg(m.task) => x.walk = m.walk)
               ELSE x.walk = m.walk /\ ~IsLeg(x.task)
Fails(m, T) == IF Held(m) THEN Says(T, "TaskFailed", m.task.rev) ELSE Says(T, "StartFailed", m.walk.id)
Agreed(m, x, q, T) == Busy(m) =>
  \/ \E i \in DOMAIN q : Writes(m, q[i].job) /\ \A k \in DOMAIN q : k > i => ~Overwrites(m, q[k].job)
  \/ Holds(m, x) /\ \A k \in DOMAIN q : ~Overwrites(m, q[k].job)
  \/ Fails(m, T)

\* Third strand: a unit that stands, and is not dirty, stands where the last job that
\* places it says, or the row, unless a flush or a closing was given up.
At(m, at, st) == /\ at = m.at
                 /\ m.status = "WORKING" => st = "WORKING"
                 /\ m.status = "IDLE" => st # "WORKING"
Displaces(j) == j.k \in {"Start", "Task", "Flush", "Leave"} \/ (j.k = "Finish" /\ j.whole)
Places(m, j) == \/ j.k = "Flush" /\ At(m, j.at, j.status)
                \/ j.k = "Finish" /\ j.whole /\ At(m, j.at, "IDLE")
Placed(m, x, q, T) ==
  m.walk = NoWalk /\ ~m.dirty /\ (\A y \in T : y.k \notin {"FlushFailed", "FinishFailed"}) =>
  \/ \E i \in DOMAIN q : Places(m, q[i].job) /\ \A k \in DOMAIN q : k > i => ~Displaces(q[k].job)
  \/ At(m, x.at, x.status) /\ \A k \in DOMAIN q : ~Displaces(q[k].job)

\* Fourth strand: the city h of the row is the city of the unit, or a job, a message or an
\* entry already committed tells why not.
LeaveIn(q, i) == i \in DOMAIN q /\ q[i].job.k = "Leave"
ExitIn(box, u, i) == i \in DOMAIN box /\ box[i].u = u /\ box[i].k = "ExitFailed"
YesIn(box, u, i) == i \in DOMAIN box /\ box[i].u = u /\ box[i].k = "Entered" /\ box[i].ok
OneExit(q, box, u) ==
  /\ \A i, j \in Nat : LeaveIn(q, i) /\ LeaveIn(q, j) => i = j
  /\ \A i, j \in Nat : ExitIn(box, u, i) /\ ExitIn(box, u, j) => i = j
  /\ \A i, j \in Nat : ~(LeaveIn(q, i) /\ ExitIn(box, u, j))
Inside(m, h, q, box, u) ==
  m.status = "GARRISONED" => h = m.inside /\ \A i \in Nat : ~LeaveIn(q, i) /\ ~ExitIn(box, u, i)
Welcomed(h, q, box, u) ==
  \A i \in Nat : YesIn(box, u, i) =>
    h = box[i].city /\ \A j \in Nat : ~LeaveIn(q, j) /\ (ExitIn(box, u, j) => j < i)
Leaving(h, q, box, u) ==
  /\ \A i \in Nat : LeaveIn(q, i) =>
       h = (IF q[i].done THEN NoCity ELSE q[i].job.city) /\ \A j \in Nat : EnterIn(q, j) => i < j /\ ~q[j].done
  /\ \A i \in Nat : ExitIn(box, u, i) => h = box[i].city
Outside(m, h, q, box, u) ==
  \/ m.status = "GARRISONED" \/ h = NoCity
  \/ \E i \in Nat : LeaveIn(q, i) \/ ExitIn(box, u, i) \/ YesIn(box, u, i)
  \/ \E i \in Nat : EnterIn(q, i) /\ q[i].done /\ h = q[i].job.city
Housed(m, h, q, box, u) ==
  /\ OneExit(q, box, u) /\ Inside(m, h, q, box, u) /\ Welcomed(h, q, box, u)
  /\ Leaving(h, q, box, u) /\ Outside(m, h, q, box, u)

Explained(m, x, q, box, u) ==
  /\ Closed(m.walk.id, m.pend, x, q, Told(box, u))
  /\ Agreed(m, x, q, Told(box, u)) /\ Placed(m, x, q, Told(box, u))
  /\ Housed(m, x.host, q, box, u)
\* A unit whose story no lost message, no lost closing and no crossed exit broke.
Clean(u) == ~lost /\ u \notin loose /\ u \notin crossed
Untangled == \A u \in Unit : Clean(u) => Explained(ram[u], row[u], queue[u], inbox, u)

-----------------------------------------------------------------------------
(* Steps of the loop.                                                      *)

Steps == [u : Memory, left : [Forest -> 0..Loads], n : Nat \ {0}, load : Load, out : Seq(Job)]
Draft == {t \in TaskType : t.target \in Forest}
\* A step that may write a task: the unit stands outside, and waits for nothing.
Ready(s) ==
  /\ s \in Steps /\ s.u.walk = NoWalk /\ s.u.inside = NoCity /\ ~s.u.entering
  /\ s.load # NoLoad => s.load.rev # s.n
\* The task of r is written after s, with the load of s.
Wrote(s, r) ==
  /\ r \in Steps /\ Story(r.u) /\ ~r.u.entering /\ r.u.task.rev \in {0, s.n}
  /\ r.left = s.left
  /\ \E j \in TaskJobs : r.out = Append(s.out, j) /\ j.load = s.load

PlainJobs == {j \in Job : j.k # "Enter" /\ (j.k = "Task" => j.load = NoLoad)}
Plain(s) == s \in Steps /\ s.out \in Seq(PlainJobs)
\* The step goes from s to r, and touches neither the tiles nor the entry of the unit.
Moved(s, r) ==
  /\ Plain(r) /\ r.left = s.left /\ r.n = s.n /\ r.load = s.load
  /\ r.u.entering = s.u.entering /\ r.u.task.rev \in {0, s.u.task.rev}

-----------------------------------------------------------------------------
(* Queues and inboxes that change.                                         *)

\* Sequence p begins with q.
Begins(q, p) == Len(q) <= Len(p) /\ \A i \in 1..Len(q) : p[i] = q[i]

\* Sequence p is what is left of q, in order: its i-th is the g[i]-th of q.
Sift(q, p, g) ==
  /\ DOMAIN p \subseteq Nat \ {0} /\ DOMAIN q \subseteq Nat \ {0} /\ g \in [DOMAIN p -> DOMAIN q]
  /\ \A i \in DOMAIN p : p[i] = q[g[i]]
  /\ \A i, k \in DOMAIN p : i < k <=> g[i] < g[k]
Given(q, p, g) == {n \in DOMAIN q : \A i \in DOMAIN p : g[i] # n}
\* The jobs of q that p lacks are told in T2, with what T tells.
GivenTold(q, p, g, u, T, T2) ==
  /\ \A n \in Given(q, p, g) : /\ q[n].job \in Job /\ ~q[n].done /\ ~Leaves(q[n].job)
                               /\ FailureOf(u, q[n].job) \in T2
  /\ T \subseteq T2
  /\ \A y \in T2 : y \in T \/ \E n \in Given(q, p, g) : y = FailureOf(u, q[n].job)

\* The messages box2 adds to box are those of the jobs of q that p lacks, one each: its
\* i-th is that of the o[i]-th job.
Reported(box, box2, q, p, g, u, o) ==
  /\ box \in Seq(Sent) /\ box2 \in Seq(Sent) /\ Begins(box, box2)
  /\ \A i \in (Len(box) + 1)..Len(box2) : o[i] \in Given(q, p, g) /\ box2[i] = FailureOf(u, q[o[i]].job)
  /\ \A i, k \in (Len(box) + 1)..Len(box2) : o[i] = o[k] => i = k
  /\ \A n \in Given(q, p, g) : /\ q[n].job \in Job /\ ~q[n].done /\ ~Leaves(q[n].job)
                               /\ \E i \in (Len(box) + 1)..Len(box2) : o[i] = n

\* The messages of unit v in box2 are those in box, in order: the i-th is the f[i]-th.
SameFor(box, box2, v, f) ==
  /\ \A i \in DOMAIN box2 : box2[i].u = v => f[i] \in DOMAIN box /\ box[f[i]] = box2[i]
  /\ \A i, k \in DOMAIN box2 : i < k <=> f[i] < f[k]
  /\ \A n \in DOMAIN box : box[n].u = v => \E i \in DOMAIN box2 : box2[i].u = v /\ f[i] = n
  /\ DOMAIN box \subseteq Nat /\ DOMAIN box2 \subseteq Nat

Fresher(j) == [job |-> j, done |-> FALSE]
Line(q, out) == q \o [i \in 1..Len(out) |-> Fresher(out[i])]

Next1(q) == Len(q) + 1
Grown(q, j, p) ==
  /\ Len(q) \in Nat /\ DOMAIN q = 1..Len(q) /\ DOMAIN p = 1..Next1(q) /\ Next1(q) \in DOMAIN p /\ Next1(q) \in Nat
  /\ \A i \in DOMAIN q : i \in DOMAIN p /\ p[i] = q[i] /\ i < Next1(q) /\ i \in Nat
  /\ \A i \in DOMAIN p : i \in DOMAIN q \/ i = Next1(q)
  /\ p[Next1(q)].job = j /\ p[Next1(q)].done = FALSE /\ Next1(q) \notin DOMAIN q

\* Sequence p is q and then the closings of pend, the rows of movements alone.
Retried(q, p, pend) ==
  /\ DOMAIN q \subseteq Nat
  /\ \A i \in DOMAIN q : i \in DOMAIN p /\ p[i] = q[i]
  /\ \A i \in DOMAIN p : i \in DOMAIN q
       \/ \E id \in pend : p[i].job = FinishJob(id, FALSE, NoTile)
  /\ \A id \in pend : \E i \in DOMAIN p : i > 0 /\ p[i].job = FinishJob(id, FALSE, NoTile) /\ \A k \in DOMAIN q : k < i

\* The exits and the entries box p brings to u are those of box after its head.
Behind(box, p, u) ==
  /\ \A i \in Nat : ExitIn(p, u, i) <=> i # 0 /\ ExitIn(box, u, i + 1)
  /\ \A i \in Nat : YesIn(p, u, i) <=> i # 0 /\ YesIn(box, u, i + 1)
  /\ \A i \in Nat : YesIn(p, u, i) => p[i].city = box[i + 1].city
  /\ \A i \in Nat : ExitIn(p, u, i) => p[i].city = box[i + 1].city

\* Sequence p is q when its head was written: its i-th is the g[i]-th of q, and the head
\* is gone or done.
Popped(q, p, g) ==
  /\ DOMAIN p \subseteq Nat \ {0} /\ DOMAIN q \subseteq Nat \ {0} /\ 1 \in DOMAIN q
  /\ \A i \in DOMAIN p : g[i] \in DOMAIN q
  /\ \A i \in DOMAIN p : p[i].job = q[g[i]].job /\ IF g[i] = 1 THEN p[i].done ELSE p[i] = q[g[i]]
  /\ \A i, k \in DOMAIN p : i < k <=> g[i] < g[k]
  /\ \A n \in DOMAIN q : n # 1 => \E i \in DOMAIN p : g[i] = n
\* The messages T2 adds to T answer entries.
Answered(T, T2) == T \subseteq T2 /\ \A y \in T2 : y \in T \/ y.k = "Entered"
=============================================================================
