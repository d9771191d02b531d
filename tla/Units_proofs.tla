---------------------------- MODULE Units_proofs ----------------------------
(***************************************************************************)
(* Proofs about Units, for any units, tiles, cities, loads, capacities and *)
(* numbers of failures.                                                    *)
(***************************************************************************)
EXTENDS UnitsInvariant, FiniteSetTheorems, TLAPS

-----------------------------------------------------------------------------
(* Types.                                                                  *)

LEMMA Kinds ==
    ASSUME NEW j \in Job
    PROVE  /\ j.k = "Start" => j \in StartJobs
           /\ j.k = "Finish" => j \in FinishJobs
           /\ j.k = "Task" => j \in TaskJobs
           /\ j.k = "Flush" => j \in FlushJobs
           /\ j.k = "Enter" => j \in EnterJobs
           /\ j.k = "Leave" => j \in LeaveJobs
           /\ j.k \in {"Start", "Finish", "Task", "Flush", "Enter", "Leave"}
  <1>1. CASE j \in StartJobs
    BY <1>1 DEF StartJobs
  <1>2. CASE j \in FinishJobs
    BY <1>2 DEF FinishJobs
  <1>3. CASE j \in TaskJobs
    BY <1>3 DEF TaskJobs
  <1>4. CASE j \in FlushJobs
    BY <1>4 DEF FlushJobs
  <1>5. CASE j \in EnterJobs
    BY <1>5 DEF EnterJobs
  <1>6. CASE j \in LeaveJobs
    BY <1>6 DEF LeaveJobs
  <1> QED
    BY <1>1, <1>2, <1>3, <1>4, <1>5, <1>6 DEF Job

LEMMA FailureTyped ==
    ASSUME NEW u \in Unit, NEW j \in Job
    PROVE  /\ FailureOf(u, j) \in Sent /\ FailureOf(u, j).u = u
           /\ FailureOf(u, j).k = "Entered" => j.k = "Enter" /\ ~FailureOf(u, j).ok
           /\ j.k = "Enter" => FailureOf(u, j).k = "Entered"
  <1>1. CASE j.k = "Start"
    BY <1>1, Kinds DEF FailureOf, Message, Sent, Messages, StartJobs
  <1>2. CASE j.k = "Finish"
    BY <1>2, Kinds DEF FailureOf, Message, Sent, Messages, FinishJobs
  <1>3. CASE j.k = "Task"
    BY <1>3, Kinds DEF FailureOf, Message, Sent, Messages, TaskJobs
  <1>4. CASE j.k = "Flush"
    BY <1>4, Kinds DEF FailureOf, Message, Sent, Messages, FlushJobs
  <1>5. CASE j.k = "Enter"
    BY <1>5, Kinds DEF FailureOf, Message, Sent, Messages, EnterJobs
  <1>6. CASE j.k = "Leave"
    BY <1>6, Kinds DEF FailureOf, Message, Sent, Messages, LeaveJobs
  <1> QED
    BY <1>1, <1>2, <1>3, <1>4, <1>5, <1>6, Kinds

-----------------------------------------------------------------------------
(* Fresh numbers.                                                          *)

LEMMA ImageFinite ==
    ASSUME NEW S, IsFiniteSet(S), NEW T, NEW f \in [S -> T], \A y \in T : \E x \in S : f[x] = y
    PROVE  IsFiniteSet(T)
  <1>1. f \in Surjection(S, T)
    BY DEF Surjection
  <1> QED
    BY <1>1, FS_Surjection

LEMMA NumbersFinite == ASSUME NEW j PROVE IsFiniteSet(NumbersOf(j))
  <1>1. \A a, b, c, d, e : IsFiniteSet({a}) /\ IsFiniteSet({a, b, c, d, e}) /\ IsFiniteSet({})
    <2> SUFFICES ASSUME NEW a, NEW b, NEW c, NEW d, NEW e PROVE IsFiniteSet({a}) /\ IsFiniteSet({a, b, c, d, e}) /\ IsFiniteSet({})
      OBVIOUS
    <2>1. IsFiniteSet({a}) /\ IsFiniteSet({b}) /\ IsFiniteSet({c}) /\ IsFiniteSet({d}) /\ IsFiniteSet({e}) /\ IsFiniteSet({})
      BY FS_Singleton, FS_EmptySet
    <2>2. IsFiniteSet({a} \cup {b}) /\ IsFiniteSet({c} \cup {d})
      BY <2>1, FS_Union
    <2>3. IsFiniteSet(({a} \cup {b}) \cup ({c} \cup {d}))
      BY <2>2, FS_Union
    <2>4. IsFiniteSet((({a} \cup {b}) \cup ({c} \cup {d})) \cup {e})
      BY <2>1, <2>3, FS_Union
    <2>5. {a, b, c, d, e} = ((({a} \cup {b}) \cup ({c} \cup {d})) \cup {e})
      OBVIOUS
    <2> QED
      BY <2>1, <2>4, <2>5
  <1> QED
    BY <1>1 DEF NumbersOf

LEMMA FreshId ==
    ASSUME TypeInv
    PROVE  /\ Fresh \in Nat /\ Fresh # 0
           /\ \A u \in Unit : ram[u].walk.id # Fresh /\ ram[u].task.rev # Fresh
           /\ \A u \in Unit : \A i \in DOMAIN queue[u] : Fresh \notin NumbersOf(queue[u][i].job)
           /\ \A u \in Unit : Fresh \notin ram[u].pend
           /\ \A i \in DOMAIN inbox : inbox[i].id # Fresh
  <1> DEFINE Own1(u) == {ram[u].walk.id, ram[u].task.rev, row[u].walk.id, row[u].task.rev}
             Sets(u) == {NumbersOf(queue[u][i].job) : i \in DOMAIN queue[u]}
             Of(u) == Own1(u) \cup ram[u].pend \cup UNION Sets(u)
             Boxed == {inbox[i].id : i \in DOMAIN inbox}
             All == {Of(u) : u \in Unit}
  <1>1. ASSUME NEW u \in Unit PROVE IsFiniteSet(Of(u))
    <2>1. IsFiniteSet(Own1(u))
      <3>1. IsFiniteSet({ram[u].walk.id}) /\ IsFiniteSet({ram[u].task.rev}) /\ IsFiniteSet({row[u].walk.id}) /\ IsFiniteSet({row[u].task.rev})
        BY FS_Singleton
      <3>2. IsFiniteSet({ram[u].walk.id} \cup {ram[u].task.rev}) /\ IsFiniteSet({row[u].walk.id} \cup {row[u].task.rev})
        BY <3>1, FS_Union
      <3>3. IsFiniteSet(({ram[u].walk.id} \cup {ram[u].task.rev}) \cup ({row[u].walk.id} \cup {row[u].task.rev}))
        BY <3>2, FS_Union
      <3>4. Own1(u) = ({ram[u].walk.id} \cup {ram[u].task.rev}) \cup ({row[u].walk.id} \cup {row[u].task.rev})
        OBVIOUS
      <3> QED
        BY <3>3, <3>4
    <2>2. IsFiniteSet(ram[u].pend)
      BY DEF TypeInv, RamType, Memory, Numbers
    <2>3. IsFiniteSet(Sets(u))
      <3>1. DOMAIN queue[u] = 1..Len(queue[u]) /\ Len(queue[u]) \in Nat
        BY DEF TypeInv, QueueType
      <3>2. IsFiniteSet(DOMAIN queue[u])
        BY <3>1, FS_Interval
      <3> DEFINE f == [i \in DOMAIN queue[u] |-> NumbersOf(queue[u][i].job)]
      <3>3. f \in [DOMAIN queue[u] -> Sets(u)] /\ \A y \in Sets(u) : \E i \in DOMAIN queue[u] : f[i] = y
        OBVIOUS
      <3> HIDE DEF f, Sets
      <3> QED
        BY <3>2, <3>3, ImageFinite
    <2>4. \A T \in Sets(u) : IsFiniteSet(T)
      BY NumbersFinite
    <2> HIDE DEF Own1, Sets
    <2>5. IsFiniteSet(UNION Sets(u))
      BY <2>3, <2>4, FS_UNION
    <2>6. IsFiniteSet(Own1(u) \cup ram[u].pend)
      BY <2>1, <2>2, FS_Union
    <2> QED
      BY <2>5, <2>6, FS_Union
  <1>2. IsFiniteSet(Boxed)
    <2>1. DOMAIN inbox = 1..Len(inbox) /\ Len(inbox) \in Nat
      BY DEF TypeInv, InboxType
    <2>2. IsFiniteSet(DOMAIN inbox)
      BY <2>1, FS_Interval
    <2> DEFINE f == [i \in DOMAIN inbox |-> inbox[i].id]
    <2>3. f \in [DOMAIN inbox -> Boxed] /\ \A y \in Boxed : \E i \in DOMAIN inbox : f[i] = y
      OBVIOUS
    <2> HIDE DEF f, Boxed
    <2> QED
      BY <2>2, <2>3, ImageFinite
  <1>3. Used = Boxed \cup UNION All
    BY Zenon DEF Used
  <1>4. IsFiniteSet(All)
    <2>1. IsFiniteSet(Unit)
      BY ConstantsAssumption
    <2> DEFINE f == [u \in Unit |-> Of(u)]
    <2>2. f \in [Unit -> All] /\ \A y \in All : \E u \in Unit : f[u] = y
      OBVIOUS
    <2> HIDE DEF f, All
    <2> QED
      BY <2>1, <2>2, ImageFinite
  <1>5. \A T \in All : IsFiniteSet(T)
    BY <1>1
  <1>6. \A u \in Unit : {ram[u].walk.id, ram[u].task.rev} \subseteq UNION All
    OBVIOUS
  <1>pend. \A u \in Unit : ram[u].pend \subseteq UNION All
    OBVIOUS
  <1>boxed. \A i \in DOMAIN inbox : inbox[i].id \in Boxed
    OBVIOUS
  <1>queued. \A u \in Unit : \A i \in DOMAIN queue[u] : NumbersOf(queue[u][i].job) \subseteq UNION All
    <2> SUFFICES ASSUME NEW u \in Unit, NEW i \in DOMAIN queue[u] PROVE NumbersOf(queue[u][i].job) \subseteq UNION All
      OBVIOUS
    <2>1. NumbersOf(queue[u][i].job) \in Sets(u)
      OBVIOUS
    <2>2. UNION Sets(u) \subseteq Of(u) /\ Of(u) \in All
      OBVIOUS
    <2> HIDE DEF Sets, Of, All
    <2> QED
      BY <2>1, <2>2
  <1> HIDE DEF All, Of, Boxed
  <1>7. IsFiniteSet(Used)
    <2>1. IsFiniteSet(UNION All)
      BY <1>4, <1>5, FS_UNION
    <2>2. IsFiniteSet(Boxed \cup UNION All)
      BY <1>2, <2>1, FS_Union
    <2> QED
      BY ONLY <1>3, <2>2
  <1>8. Cardinality(Used) \in Nat
    BY <1>7, FS_CardinalityType
  <1>9. \E n \in 1..(Cardinality(Used) + 1) : n \notin Used
    <2> SUFFICES ASSUME 1..(Cardinality(Used) + 1) \subseteq Used PROVE FALSE
      OBVIOUS
    <2>1. Cardinality(1..(Cardinality(Used) + 1)) = Cardinality(Used) + 1
      BY <1>8, FS_Interval
    <2>2. Cardinality(1..(Cardinality(Used) + 1)) <= Cardinality(Used)
      BY <1>7, FS_Subset
    <2> QED
      BY <1>8, <2>1, <2>2
  <1>10. Fresh \in 1..(Cardinality(Used) + 1) /\ Fresh \notin Used
    BY <1>9 DEF Fresh
  <1>11. \A n \in Nat : \A m \in 1..(n + 1) : m \in Nat /\ m # 0
    OBVIOUS
  <1> QED
    BY <1>3, <1>6, <1>pend, <1>boxed, <1>queued, <1>8, <1>10, <1>11

-----------------------------------------------------------------------------
(* Submitted jobs.                                                         *)

LEMMA Joined ==
    ASSUME NEW S, NEW a \in Seq(S), NEW n \in Nat, NEW f \in [1..n -> S]
    PROVE  /\ a \o f \in Seq(S) /\ Len(a \o f) = Len(a) + n
           /\ \A i \in 1..Len(a) : (a \o f)[i] = a[i]
           /\ \A i \in (Len(a) + 1)..(Len(a) + n) : i - Len(a) \in 1..n /\ (a \o f)[i] = f[i - Len(a)]
  <1>1. f \in Seq(S) /\ Len(f) = n
    OBVIOUS
  <1>2. /\ a \o f \in Seq(S) /\ Len(a \o f) = Len(a) + Len(f) /\ Len(a) \in Nat
        /\ \A i \in 1..(Len(a) + Len(f)) : (a \o f)[i] = IF i <= Len(a) THEN a[i] ELSE f[i - Len(a)]
    BY <1>1
  <1> QED
    BY <1>1, <1>2

Accepted(u, out) == Least(Len(out), QueueSize - Len(queue[u]))
\* What a step of unit u leaves in its queue and in the inbox.
Submitted(u, out, box) ==
  /\ \A v \in Unit : v # u => queue'[v] = queue[v]
  /\ Accepted(u, out) \in 0..Len(out)
  /\ Len(queue'[u]) = Len(queue[u]) + Accepted(u, out)
  /\ \A i \in 1..Len(queue[u]) : queue'[u][i] = queue[u][i]
  /\ \A i \in (Len(queue[u]) + 1)..Len(queue'[u]) :
       i - Len(queue[u]) \in 1..Len(out) /\ queue'[u][i] = [job |-> out[i - Len(queue[u])], done |-> FALSE]
  /\ Len(box) <= Len(inbox') /\ Len(inbox') - Len(box) <= Len(out) - Accepted(u, out)
  /\ \A i \in 1..Len(box) : inbox'[i] = box[i]
  /\ \A i \in (Len(box) + 1)..Len(inbox') : \E n \in 1..Len(out) : inbox'[i] = FailureOf(u, out[n])
  /\ (lost => lost')
  /\ lost' \/ Len(inbox') - Len(box) = Len(out) - Accepted(u, out)

LEMMA Applied ==
    ASSUME TypeInv, NEW u \in Unit, NEW s, s.out \in Seq(Job), NEW box \in Seq(Sent), Len(box) <= InboxSize, Apply(u, s, box)
    PROVE  QueueType' /\ InboxType' /\ Submitted(u, s.out, box)
  <1>0. PICK q : q = queue[u]
    OBVIOUS
  <1>1. PICK out \in Seq(Job) : out = s.out
    OBVIOUS
  <1>2. PICK fit : fit = Accepted(u, out)
    OBVIOUS
  <1>3. PICK over : over = Len(out) - fit
    OBVIOUS
  <1>4. PICK told : told = Least(over, InboxSize - Len(box))
    OBVIOUS
  <1>5. queue \in [Unit -> Seq(Item)] /\ q \in Seq(Item) /\ Len(q) \in Nat /\ Len(q) <= QueueSize
        /\ QueueSize \in Nat /\ InboxSize \in Nat /\ Len(out) \in Nat /\ Len(box) \in Nat
    BY <1>0, ConstantsAssumption DEF TypeInv, QueueType
  <1>6. fit \in Nat /\ fit <= Len(out) /\ fit <= QueueSize - Len(q) /\ over \in Nat
    BY <1>0, <1>2, <1>3, <1>5 DEF Accepted, Least
  <1>7. told \in Nat /\ told <= over /\ told <= InboxSize - Len(box)
    BY <1>4, <1>5, <1>6 DEF Least
  <1>8. PICK f : f = [i \in 1..fit |-> [job |-> out[i], done |-> FALSE]]
    OBVIOUS
  <1>9. PICK g : g = [i \in 1..told |-> FailureOf(u, out[fit + i])]
    OBVIOUS
  <1>10. /\ queue' = [queue EXCEPT ![u] = q \o f] /\ inbox' = box \o g
         /\ lost' = (lost \/ told < over)
    BY <1>0, <1>1, <1>2, <1>3, <1>4, <1>8, <1>9 DEF Apply, Accepted
  <1>11. \A i \in 1..Len(out) : out[i] \in Job
    OBVIOUS
  <1>12. f \in [1..fit -> Item] /\ \A i \in 1..fit : f[i] = [job |-> out[i], done |-> FALSE]
    <2>1. \A i \in 1..fit : [job |-> out[i], done |-> FALSE] \in Item
      BY <1>5, <1>6, <1>11 DEF Item
    <2> QED
      BY <1>8, <2>1
  <1>13. g \in [1..told -> Sent] /\ \A i \in 1..told : fit + i \in 1..Len(out) /\ g[i] = FailureOf(u, out[fit + i])
    <2>1. \A i \in 1..told : fit + i \in 1..Len(out)
      BY <1>3, <1>5, <1>6, <1>7
    <2>2. \A i \in 1..told : FailureOf(u, out[fit + i]) \in Sent
      BY <1>11, <2>1, FailureTyped
    <2> QED
      BY <1>9, <2>1, <2>2
  <1>14. /\ q \o f \in Seq(Item) /\ Len(q \o f) = Len(q) + fit
         /\ \A i \in 1..Len(q) : (q \o f)[i] = q[i]
         /\ \A i \in (Len(q) + 1)..(Len(q) + fit) : i - Len(q) \in 1..fit /\ (q \o f)[i] = f[i - Len(q)]
    <2>1. q \in Seq(Item) /\ fit \in Nat /\ f \in [1..fit -> Item]
      BY <1>5, <1>6, <1>12
    <2>2. q \o f \in Seq(Item) /\ Len(q \o f) = Len(q) + fit
      BY ONLY <2>1, Joined
    <2>3. \A i \in 1..Len(q) : (q \o f)[i] = q[i]
      BY ONLY <2>1, Joined
    <2>4. \A i \in (Len(q) + 1)..(Len(q) + fit) : i - Len(q) \in 1..fit /\ (q \o f)[i] = f[i - Len(q)]
      BY ONLY <2>1, Joined
    <2> QED
      BY <2>2, <2>3, <2>4
  <1>15. /\ box \o g \in Seq(Sent) /\ Len(box \o g) = Len(box) + told
         /\ \A i \in 1..Len(box) : (box \o g)[i] = box[i]
         /\ \A i \in (Len(box) + 1)..(Len(box) + told) : i - Len(box) \in 1..told /\ (box \o g)[i] = g[i - Len(box)]
    <2>1. box \in Seq(Sent) /\ told \in Nat /\ g \in [1..told -> Sent]
      BY <1>7, <1>13
    <2>2. box \o g \in Seq(Sent) /\ Len(box \o g) = Len(box) + told
      BY ONLY <2>1, Joined
    <2>3. \A i \in 1..Len(box) : (box \o g)[i] = box[i]
      BY ONLY <2>1, Joined
    <2>4. \A i \in (Len(box) + 1)..(Len(box) + told) : i - Len(box) \in 1..told /\ (box \o g)[i] = g[i - Len(box)]
      BY ONLY <2>1, Joined
    <2> QED
      BY <2>2, <2>3, <2>4
  <1>16. PICK p : p = q \o f
    OBVIOUS
  <1>17. queue' = [queue EXCEPT ![u] = p] /\ p \in Seq(Item) /\ Len(p) = Len(q) + fit
    BY <1>10, <1>14, <1>16
  <1>18. QueueType'
    <2>1. queue' \in [Unit -> Seq(Item)] /\ queue'[u] = p /\ \A v \in Unit : v # u => queue'[v] = queue[v]
      BY <1>5, <1>17
    <2>2. Len(p) <= QueueSize
      BY <1>5, <1>6, <1>17
    <2>3. \A v \in Unit : Len(queue[v]) <= QueueSize
      BY DEF TypeInv, QueueType
    <2> QED
      BY <2>1, <2>2, <2>3 DEF QueueType
  <1>19. InboxType'
    BY <1>5, <1>7, <1>10, <1>15 DEF InboxType
  <1>20. queue'[u] = p /\ \A v \in Unit : v # u => queue'[v] = queue[v]
    BY <1>5, <1>17
  <1>21. /\ \A i \in 1..Len(q) : p[i] = q[i]
         /\ \A i \in (Len(q) + 1)..Len(p) : i - Len(q) \in 1..Len(out) /\ p[i] = [job |-> out[i - Len(q)], done |-> FALSE]
    <2>1. \A i \in (Len(q) + 1)..Len(p) : i - Len(q) \in 1..fit /\ p[i] = f[i - Len(q)]
      BY <1>14, <1>16
    <2>2. \A i \in 1..fit : i \in 1..Len(out)
      BY <1>5, <1>6
    <2>3. \A i \in 1..Len(q) : p[i] = q[i]
      BY <1>14, <1>16
    <2> QED
      BY <1>12, <2>1, <2>2, <2>3
  <1>22. /\ Len(inbox') = Len(box) + told
         /\ \A i \in 1..Len(box) : inbox'[i] = box[i]
         /\ \A i \in (Len(box) + 1)..Len(inbox') : \E n \in 1..Len(out) : inbox'[i] = FailureOf(u, out[n])
    BY <1>10, <1>13, <1>15
  <1>23. /\ Len(box) <= Len(inbox') /\ Len(inbox') - Len(box) <= Len(out) - fit /\ (lost => lost')
         /\ lost' \/ Len(inbox') - Len(box) = Len(out) - fit
    <2>1. Len(box) <= Len(inbox') /\ Len(inbox') - Len(box) = told /\ told <= over /\ over = Len(out) - fit
      BY <1>3, <1>5, <1>6, <1>7, <1>22
    <2>2. lost => lost'
      BY <1>10
    <2>3. CASE told < over
      BY <1>10, <2>1, <2>2, <2>3
    <2>4. CASE told = over
      BY <2>1, <2>2, <2>4
    <2>5. told < over \/ told = over
      BY <1>6, <1>7
    <2> QED
      BY <2>3, <2>4, <2>5
  <1>24. fit \in 0..Len(out)
    BY <1>5, <1>6
  <1>25. Submitted(u, out, box)
    BY <1>2, <1>17, <1>20, <1>21, <1>22, <1>23, <1>24, <1>0 DEF Submitted
  <1> QED
    BY <1>1, <1>18, <1>19, <1>25

-----------------------------------------------------------------------------
(* The writes of a task.                                                   *)

LEMMA Appended ==
    ASSUME NEW S, NEW a \in Seq(S), NEW e \in S
    PROVE  Append(a, e) \in Seq(S)
  OBVIOUS

LEMMA StartLegWrote ==
    ASSUME NEW s, Ready(s), NEW t \in Draft, IsLeg(t), NEW to, to = LegOf(t).to, NEW fin \in Nat
    PROVE  Wrote(s, StartLeg(s, t, to, fin))
  <1>1. /\ s \in Steps /\ s.u \in Memory /\ s.n \in Nat \ {0} /\ s.load \in Load /\ s.out \in Seq(Job)
        /\ s.u.walk = NoWalk /\ s.u.inside = NoCity /\ s.u.entering = FALSE
        /\ (s.load # NoLoad => s.load.rev # s.n)
    BY DEF Ready, Steps, Memory
  <1>2. PICK n : n = s.n
    OBVIOUS
  <1>3. PICK task : task = [t EXCEPT !.rev = n]
    OBVIOUS
  <1>4. PICK leg : leg = [id |-> n, to |-> to]
    OBVIOUS
  <1>5. to \in Tile
    BY DEF LegOf, Draft, TaskType, Tile
  <1>6. task \in Task /\ task.rev = n /\ task.phase = t.phase /\ task.target = t.target
    BY <1>1, <1>2, <1>3 DEF Task, Draft, TaskType, NoTask, IsLeg
  <1>7. leg \in Walk /\ leg # NoWalk
    BY <1>1, <1>2, <1>4, <1>5 DEF Walk, WalkType, NoWalk
  <1>8. leg = LegOf(task) /\ IsLeg(task)
    BY <1>4, <1>6 DEF LegOf, IsLeg
  <1>9. PICK j : j = TaskJob(fin, leg, "MOVING", s.u.at, task, s.load, n)
    OBVIOUS
  <1>10. /\ j.k = "Task" /\ j.load = s.load /\ j.leg = leg /\ j.task = task
         /\ j \in [k : {"Task"}, fin : Nat, leg : Walk, status : Status, at : Tile, task : Task, load : Load, rev : Nat]
    BY <1>1, <1>2, <1>6, <1>7, <1>9 DEF TaskJob, Status, Memory
  <1>11. j \in TaskJobs /\ j \in Job
    <2>1. j.task.phase # "WORKING"
      BY <1>8, <1>10 DEF IsLeg
    <2> QED
      BY <1>8, <1>10, <2>1 DEF TaskJobs, Job
  <1>12. PICK m : m = [s.u EXCEPT !.walk = leg, !.status = "MOVING", !.dirty = TRUE, !.task = task]
    OBVIOUS
  <1>13. /\ m \in Memory /\ m.walk = leg /\ m.status = "MOVING" /\ m.task = task /\ m.entering = FALSE /\ m.inside = NoCity
    BY <1>1, <1>6, <1>7, <1>12 DEF Memory, Status
  <1>14. Story(m)
    <2>1. m.inside = NoCity /\ m.status # "GARRISONED" /\ m.status # "WORKING"
      BY <1>13
    <2> QED
      BY <1>7, <1>8, <1>13, <2>1 DEF Story
  <1>15. PICK out : out = Append(s.out, j)
    OBVIOUS
  <1>16. out \in Seq(Job)
    BY <1>1, <1>11, <1>15, Appended
  <1>17. PICK r : r = [s EXCEPT !.u = m, !.load = NoLoad, !.out = out]
    OBVIOUS
  <1>18. StartLeg(s, t, to, fin) = r
    BY <1>1, <1>2, <1>3, <1>4, <1>9, <1>12, <1>15, <1>17 DEF StartLeg, Steps, Memory
  <1>19. NoLoad \in Load
    BY DEF NoLoad, Load
  <1>20. r \in Steps /\ r.u = m /\ r.left = s.left /\ r.out = out
    BY <1>1, <1>13, <1>16, <1>17, <1>19 DEF Steps
  <1> QED
    BY <1>2, <1>6, <1>10, <1>11, <1>13, <1>14, <1>15, <1>18, <1>20 DEF Wrote

LEMMA WorkWrote ==
    ASSUME NEW s, Ready(s), NEW t \in Draft, s.u.at = t.target, NEW fin \in Nat
    PROVE  Wrote(s, Work(s, t, fin))
  <1>1. /\ s \in Steps /\ s.u \in Memory /\ s.n \in Nat \ {0} /\ s.load \in Load /\ s.out \in Seq(Job)
        /\ s.u.walk = NoWalk /\ s.u.inside = NoCity /\ s.u.entering = FALSE
        /\ (s.load # NoLoad => s.load.rev # s.n)
    BY DEF Ready, Steps, Memory
  <1>2. PICK n : n = s.n
    OBVIOUS
  <1>3. PICK task : task = [t EXCEPT !.phase = "WORKING", !.rev = n]
    OBVIOUS
  <1>4. task \in Task /\ task.rev = n /\ task.phase = "WORKING" /\ task.target = t.target /\ ~IsLeg(task)
    BY <1>1, <1>2, <1>3 DEF Task, Draft, TaskType, IsLeg
  <1>5. NoWalk \in Walk
    BY DEF NoWalk, Walk, WalkType, Tile
  <1>6. PICK j : j = TaskJob(fin, NoWalk, "WORKING", s.u.at, task, s.load, n)
    OBVIOUS
  <1>7. /\ j.k = "Task" /\ j.load = s.load /\ j.leg = NoWalk /\ j.task = task
        /\ j \in [k : {"Task"}, fin : Nat, leg : Walk, status : Status, at : Tile, task : Task, load : Load, rev : Nat]
    BY <1>1, <1>2, <1>4, <1>5, <1>6 DEF TaskJob, Status, Memory
  <1>8. j \in TaskJobs /\ j \in Job
    BY <1>1, <1>2, <1>4, <1>7 DEF TaskJobs, Job
  <1>9. PICK m : m = [s.u EXCEPT !.status = "WORKING", !.dirty = TRUE, !.task = task]
    OBVIOUS
  <1>10. /\ m \in Memory /\ m.walk = NoWalk /\ m.status = "WORKING" /\ m.task = task /\ m.entering = FALSE
         /\ m.inside = NoCity /\ m.at = s.u.at
    BY <1>1, <1>4, <1>9 DEF Memory, Status
  <1>11. Story(m)
    BY <1>4, <1>10 DEF Story
  <1>12. PICK out : out = Append(s.out, j)
    OBVIOUS
  <1>13. out \in Seq(Job)
    BY <1>1, <1>8, <1>12, Appended
  <1>14. PICK r : r = [s EXCEPT !.u = m, !.load = NoLoad, !.out = out]
    OBVIOUS
  <1>15. Work(s, t, fin) = r
    BY <1>1, <1>2, <1>3, <1>6, <1>9, <1>12, <1>14 DEF Work, Steps, Memory
  <1>16. NoLoad \in Load
    BY DEF NoLoad, Load
  <1>17. r \in Steps /\ r.u = m /\ r.left = s.left /\ r.out = out
    BY <1>1, <1>10, <1>13, <1>14, <1>16 DEF Steps
  <1> QED
    BY <1>2, <1>4, <1>7, <1>8, <1>10, <1>11, <1>12, <1>15, <1>17 DEF Wrote

LEMMA EndTaskWrote ==
    ASSUME NEW s, Ready(s), NEW fin \in Nat
    PROVE  Wrote(s, EndTask(s, fin))
  <1>1. /\ s \in Steps /\ s.u \in Memory /\ s.n \in Nat \ {0} /\ s.load \in Load /\ s.out \in Seq(Job)
        /\ s.u.walk = NoWalk /\ s.u.inside = NoCity /\ s.u.entering = FALSE
    BY DEF Ready, Steps, Memory
  <1>2. NoTask \in Task /\ NoTask.rev = 0 /\ NoTask.phase = "NONE" /\ ~IsLeg(NoTask)
    BY DEF Task, NoTask, TaskType, IsLeg
  <1>3. NoWalk \in Walk
    BY DEF NoWalk, Walk, WalkType, Tile
  <1>4. PICK j : j = TaskJob(fin, NoWalk, "IDLE", s.u.at, NoTask, s.load, 0)
    OBVIOUS
  <1>5. /\ j.k = "Task" /\ j.load = s.load /\ j.leg = NoWalk /\ j.task = NoTask
        /\ j \in [k : {"Task"}, fin : Nat, leg : Walk, status : Status, at : Tile, task : Task, load : Load, rev : Nat]
    BY <1>1, <1>2, <1>3, <1>4 DEF TaskJob, Status, Memory
  <1>6. j \in TaskJobs /\ j \in Job
    BY <1>2, <1>5 DEF TaskJobs, Job
  <1>7. PICK m : m = [s.u EXCEPT !.task = NoTask, !.status = "IDLE", !.dirty = TRUE]
    OBVIOUS
  <1>8. /\ m \in Memory /\ m.walk = NoWalk /\ m.status = "IDLE" /\ m.task = NoTask /\ m.entering = FALSE
        /\ m.inside = NoCity
    BY <1>1, <1>2, <1>7 DEF Memory, Status
  <1>9. Story(m)
    BY <1>2, <1>8 DEF Story
  <1>10. PICK out : out = Append(s.out, j)
    OBVIOUS
  <1>11. out \in Seq(Job)
    BY <1>1, <1>6, <1>10, Appended
  <1>12. PICK r : r = [s EXCEPT !.u = m, !.load = NoLoad, !.out = out]
    OBVIOUS
  <1>13. EndTask(s, fin) = r
    BY <1>1, <1>4, <1>7, <1>10, <1>12 DEF EndTask, Steps, Memory
  <1>14. NoLoad \in Load
    BY DEF NoLoad, Load
  <1>15. r \in Steps /\ r.u = m /\ r.left = s.left /\ r.out = out
    BY <1>1, <1>8, <1>11, <1>12, <1>14 DEF Steps
  <1> QED
    BY <1>2, <1>5, <1>6, <1>8, <1>9, <1>10, <1>13, <1>15 DEF Wrote

LEMMA RetargetWrote ==
    ASSUME NEW s, Ready(s), NEW t \in Draft, NEW fin \in Nat, NEW a \in Answer, a.seek # NoTile
    PROVE  Wrote(s, Retarget(s, t, fin, a))
  <1>1. PICK next : next = [t EXCEPT !.target = a.seek, !.phase = "TO_RESOURCE"]
    OBVIOUS
  <1>2. a.seek \in Forest
    BY DEF Answer
  <1>3. next \in Draft /\ next.target = a.seek /\ IsLeg(next) /\ LegOf(next).to = a.seek
    BY <1>1, <1>2 DEF Draft, TaskType, IsLeg, LegOf
  <1>4. CASE s.u.at = a.seek
    BY <1>1, <1>3, <1>4, WorkWrote DEF Retarget
  <1>5. CASE s.u.at # a.seek
    <2>1. Wrote(s, StartLeg(s, next, a.seek, fin))
      BY <1>3, StartLegWrote
    <2> QED
      BY <1>1, <1>5, <2>1 DEF Retarget
  <1> QED
    BY <1>4, <1>5

LEMMA ArriveAtDepositWrote ==
    ASSUME NEW s, Ready(s), NEW t \in Draft, NEW fin \in Nat, NEW a \in Answer
    PROVE  Wrote(s, ArriveAtDeposit(s, t, fin, a))
  <1>1. PICK next : next = [t EXCEPT !.phase = "TO_RESOURCE", !.carry = 0]
    OBVIOUS
  <1>2. next \in Draft /\ next.target = t.target /\ IsLeg(next) /\ LegOf(next).to = t.target
    <2>1. t \in TaskType /\ t.target \in Forest
      BY DEF Draft
    <2>2. next \in TaskType /\ next.target = t.target /\ next.phase = "TO_RESOURCE"
      <3>1. 0 \in 0..1
        OBVIOUS
      <3>2. next = [phase |-> "TO_RESOURCE", carry |-> 0, target |-> t.target, rev |-> t.rev]
        BY <1>1, <2>1 DEF TaskType
      <3> QED
        BY <2>1, <3>1, <3>2 DEF TaskType
    <2> QED
      BY <2>1, <2>2 DEF Draft, IsLeg, LegOf
  <1>3. Wrote(s, EndTask(s, fin))
    BY EndTaskWrote
  <1>4. s.u.at = t.target => Wrote(s, Work(s, next, fin))
    BY <1>2, WorkWrote
  <1>5. Wrote(s, StartLeg(s, next, t.target, fin))
    BY <1>2, StartLegWrote
  <1>6. Found(s, t, a) => Wrote(s, Retarget(s, next, fin, a))
    BY <1>2, RetargetWrote DEF Found
  <1>7. s.left[t.target] \in Nat /\ a.present \in BOOLEAN
    BY ConstantsAssumption DEF Ready, Steps, Draft, Answer
  <1>8. CASE ~a.present
    BY <1>3, <1>8 DEF ArriveAtDeposit
  <1>9. CASE a.present /\ s.left[t.target] = 0
    <2>1. ArriveAtDeposit(s, t, fin, a) = IF Found(s, t, a) THEN Retarget(s, next, fin, a) ELSE EndTask(s, fin)
      BY <1>1, <1>9 DEF ArriveAtDeposit
    <2> QED
      BY <1>3, <1>6, <2>1
  <1>10. CASE a.present /\ s.left[t.target] > 0
    <2>1. ArriveAtDeposit(s, t, fin, a) = IF s.u.at = t.target THEN Work(s, next, fin)
                                          ELSE IF a.route THEN StartLeg(s, next, t.target, fin) ELSE EndTask(s, fin)
      BY <1>1, <1>7, <1>10 DEF ArriveAtDeposit
    <2> QED
      BY <1>3, <1>4, <1>5, <2>1
  <1> QED
    BY <1>7, <1>8, <1>9, <1>10

LEMMA LeaveDepletedWrote ==
    ASSUME NEW s, Ready(s), NEW t \in Draft, NEW fin \in Nat, NEW a \in Answer
    PROVE  Wrote(s, LeaveDepleted(s, t, fin, a))
  <1>1. PICK back : back = [t EXCEPT !.phase = "TO_DEPOSIT"]
    OBVIOUS
  <1>2. back \in Draft /\ IsLeg(back) /\ LegOf(back).to = Depot
    BY <1>1 DEF Draft, TaskType, IsLeg, LegOf
  <1>3. Wrote(s, EndTask(s, fin))
    BY EndTaskWrote
  <1>4. Wrote(s, StartLeg(s, back, Depot, fin))
    BY <1>2, StartLegWrote
  <1>5. Wrote(s, ArriveAtDeposit(s, back, fin, a))
    BY <1>2, ArriveAtDepositWrote
  <1>6. Found(s, t, a) => Wrote(s, Retarget(s, t, fin, a))
    BY RetargetWrote DEF Found
  <1>7. \/ LeaveDepleted(s, t, fin, a) = Retarget(s, t, fin, a) /\ Found(s, t, a)
        \/ LeaveDepleted(s, t, fin, a) = ArriveAtDeposit(s, back, fin, a)
        \/ LeaveDepleted(s, t, fin, a) = StartLeg(s, back, Depot, fin)
        \/ LeaveDepleted(s, t, fin, a) = EndTask(s, fin)
    BY ONLY <1>1 DEF LeaveDepleted
  <1> QED
    BY <1>3, <1>4, <1>5, <1>6, <1>7

LEMMA OnLegArrivedWrote ==
    ASSUME NEW s, Ready(s), s.u.task.phase \in {"TO_RESOURCE", "TO_DEPOSIT"}, NEW id \in Nat, NEW a \in Answer
    PROVE  Wrote(s, OnLegArrived(s, id, a))
  <1>1. PICK t : t = s.u.task
    OBVIOUS
  <1>2. t \in Draft /\ s.left[t.target] \in Nat
    BY <1>1, ConstantsAssumption DEF Ready, Steps, Memory, Task, Draft, NoTask
  <1>3. CASE t.phase = "TO_RESOURCE" /\ s.u.at = t.target
    <2>1. OnLegArrived(s, id, a) = ArriveAtResource(s, t, id, a)
      BY <1>1, <1>3 DEF OnLegArrived
    <2>2. Wrote(s, LeaveDepleted(s, t, id, a)) /\ Wrote(s, Work(s, t, id))
      BY <1>2, <1>3, LeaveDepletedWrote, WorkWrote
    <2> QED
      BY <2>1, <2>2 DEF ArriveAtResource
  <1>4. CASE ~(t.phase = "TO_RESOURCE" /\ s.u.at = t.target) /\ t.phase = "TO_DEPOSIT"
    <2>1. OnLegArrived(s, id, a) = ArriveAtDeposit(s, t, id, a)
      BY <1>1, <1>4 DEF OnLegArrived
    <2> QED
      BY <1>2, <2>1, ArriveAtDepositWrote
  <1>5. CASE ~(t.phase = "TO_RESOURCE" /\ s.u.at = t.target) /\ t.phase # "TO_DEPOSIT"
    <2>1. OnLegArrived(s, id, a) = EndTask(s, id)
      BY <1>1, <1>5 DEF OnLegArrived
    <2> QED
      BY <2>1, EndTaskWrote
  <1> QED
    BY <1>3, <1>4, <1>5

\* A load leaves its tile and travels with the write that follows.
TookFrom(s, took) ==
  LET f == s.u.task.target
  IN /\ took \in Steps /\ f \in Forest /\ s.left[f] > 0
     /\ took.left = [s.left EXCEPT ![f] = @ - 1]
     /\ took.load = [tile |-> f, rev |-> s.u.task.rev]
     /\ took.n = s.n /\ took.out = s.out

LEMMA LeaveResourceWrote ==
    ASSUME NEW s, Ready(s), s.u.task.phase = "WORKING", s.u.task.rev # s.n, NEW a \in Answer
    PROVE  \/ Wrote(s, LeaveResource(s, a))
           \/ \E took : TookFrom(s, took) /\ Wrote(took, LeaveResource(s, a))
  <1>1. PICK t : t = s.u.task
    OBVIOUS
  <1>2. /\ s \in Steps /\ s.u \in Memory /\ s.n \in Nat \ {0} /\ s.load \in Load /\ s.out \in Seq(Job)
        /\ s.u.walk = NoWalk /\ s.u.inside = NoCity /\ s.u.entering = FALSE /\ s.left \in [Forest -> 0..Loads]
    BY DEF Ready, Steps, Memory
  <1>3. t \in Task /\ t \in Draft /\ t.target \in Forest /\ t.rev \in Nat \ {0} /\ t.rev # s.n
    <2>1. t \in Task /\ t.phase # "NONE"
      BY <1>1, <1>2 DEF Memory
    <2>2. t \in TaskType /\ t.target \in Forest /\ t.rev # 0 /\ t.rev \in Nat
      BY <2>1 DEF Task, TaskType, NoTask
    <2> QED
      BY <1>1, <2>1, <2>2 DEF Draft
  <1>4. s.left[t.target] \in 0..Loads /\ Loads \in Nat
    BY <1>2, <1>3, ConstantsAssumption
  <1>5. PICK took : took = [s EXCEPT !.left[t.target] = @ - 1, !.load = [tile |-> t.target, rev |-> t.rev]]
    OBVIOUS
  <1>6. PICK next : next = [t EXCEPT !.phase = "TO_DEPOSIT", !.carry = 1]
    OBVIOUS
  <1>7. CASE s.left[t.target] = 0
    <2>1. LeaveResource(s, a) = LeaveDepleted(s, t, 0, a)
      BY <1>1, <1>7 DEF LeaveResource
    <2>2. Wrote(s, LeaveDepleted(s, t, 0, a))
      BY <1>3, LeaveDepletedWrote
    <2> QED
      BY <2>1, <2>2
  <1>8. CASE s.left[t.target] > 0
    <2>1. next \in Draft /\ IsLeg(next) /\ LegOf(next).to = Depot
      <3>1. 1 \in 0..1 /\ t \in TaskType
        BY <1>3 DEF Draft
      <3>2. next = [phase |-> "TO_DEPOSIT", carry |-> 1, target |-> t.target, rev |-> t.rev]
        BY <1>6, <3>1 DEF TaskType
      <3> QED
        BY <1>3, <3>1, <3>2 DEF TaskType, Draft, IsLeg, LegOf
    <2>2. PICK less : less = [s.left EXCEPT ![t.target] = @ - 1]
      OBVIOUS
    <2>3. less \in [Forest -> 0..Loads]
      BY <1>2, <1>3, <1>4, <1>8, <2>2
    <2>4. PICK load : load = [tile |-> t.target, rev |-> t.rev]
      OBVIOUS
    <2>5. load \in Load
      BY <1>3, <2>4 DEF Load
    <2>6. took = [u |-> s.u, left |-> less, n |-> s.n, load |-> load, out |-> s.out]
      BY <1>2, <1>5, <2>2, <2>4 DEF Steps
    <2>7. took \in Steps /\ took.u = s.u /\ took.left = less /\ took.n = s.n /\ took.load = load /\ took.out = s.out
      BY <1>2, <2>3, <2>5, <2>6 DEF Steps
    <2>8. TookFrom(s, took)
      BY <1>1, <1>3, <1>8, <2>2, <2>4, <2>7 DEF TookFrom
    <2>9. Ready(took)
      BY <1>2, <1>3, <2>4, <2>7 DEF Ready
    <2>10. Wrote(took, StartLeg(took, next, Depot, 0)) /\ Wrote(took, EndTask(took, 0)) /\ Wrote(took, ArriveAtDeposit(took, next, 0, a))
      BY <2>1, <2>9, StartLegWrote, EndTaskWrote, ArriveAtDepositWrote
    <2>11. \/ LeaveResource(s, a) = ArriveAtDeposit(took, next, 0, a)
           \/ LeaveResource(s, a) = StartLeg(took, next, Depot, 0)
           \/ LeaveResource(s, a) = EndTask(took, 0)
      <3>1. s.left[t.target] # 0
        BY <1>4, <1>8
      <3> QED
        BY ONLY <1>1, <1>5, <1>6, <1>8, <3>1 DEF LeaveResource
    <2> QED
      BY <2>8, <2>10, <2>11
  <1> QED
    BY <1>4, <1>7, <1>8

-----------------------------------------------------------------------------
(* The other steps: their jobs carry no load, and no entry.                *)

LEMMA PlainJob ==
    /\ \A id \in Nat, at \in Tile : FinishJob(id, TRUE, at) \in PlainJobs
    /\ \A id \in Nat : FinishJob(id, FALSE, NoTile) \in PlainJobs
    /\ \A id \in Nat \ {0}, from \in Tile, to \in Tile : StartJob(id, from, to) \in PlainJobs
    /\ \A st \in Status, at \in Tile : FlushJob(st, at) \in PlainJobs
    /\ \A c \in City, at \in Tile, from \in Tile : LeaveJob(at, c, from) \in PlainJobs
    /\ PlainJobs \subseteq Job
  <1>1. ASSUME NEW id \in Nat, NEW at \in Tile PROVE FinishJob(id, TRUE, at) \in PlainJobs
    <2>1. FinishJob(id, TRUE, at) \in FinishJobs
      BY DEF FinishJob, FinishJobs
    <2> QED
      BY <2>1 DEF FinishJob, PlainJobs, Job
  <1>2. ASSUME NEW id \in Nat PROVE FinishJob(id, FALSE, NoTile) \in PlainJobs
    <2>1. FinishJob(id, FALSE, NoTile) \in FinishJobs
      BY DEF FinishJob, FinishJobs
    <2> QED
      BY <2>1 DEF FinishJob, PlainJobs, Job
  <1>3. ASSUME NEW id \in Nat \ {0}, NEW from \in Tile, NEW to \in Tile PROVE StartJob(id, from, to) \in PlainJobs
    <2>1. StartJob(id, from, to) \in StartJobs
      BY DEF StartJob, StartJobs
    <2> QED
      BY <2>1 DEF StartJob, PlainJobs, Job
  <1>4. ASSUME NEW st \in Status, NEW at \in Tile PROVE FlushJob(st, at) \in PlainJobs
    <2>1. FlushJob(st, at) \in FlushJobs
      BY DEF FlushJob, FlushJobs
    <2> QED
      BY <2>1 DEF FlushJob, PlainJobs, Job
  <1>5. ASSUME NEW c \in City, NEW at \in Tile, NEW from \in Tile PROVE LeaveJob(at, c, from) \in PlainJobs
    <2>1. LeaveJob(at, c, from) \in LeaveJobs
      BY DEF LeaveJob, LeaveJobs
    <2> QED
      BY <2>1 DEF LeaveJob, PlainJobs, Job
  <1> QED
    BY <1>1, <1>2, <1>3, <1>4, <1>5 DEF PlainJobs

LEMMA Steady ==
    ASSUME NEW s, Plain(s)
    PROVE  /\ s.u \in Memory /\ s.n \in Nat \ {0} /\ s.load \in Load /\ s.out \in Seq(Job) /\ s.left \in [Forest -> 0..Loads]
           /\ s.u.status \in Status /\ s.u.at \in Tile /\ s.u.walk \in Walk /\ s.u.task \in Task /\ s.u.entering \in BOOLEAN
           /\ s.u.inside \in City \cup {NoCity} /\ s.u.pend \in Numbers /\ s.u.walk.id \in Nat /\ s.u.walk.to \in Tile
           /\ Moved(s, s)
  <1>1. s.u \in Memory /\ s.n \in Nat \ {0} /\ s.load \in Load /\ s.out \in Seq(Job) /\ s.left \in [Forest -> 0..Loads]
    BY DEF Plain, Steps
  <1>2. s.u.walk \in Walk
    BY <1>1 DEF Memory
  <1>3. s.u.walk.id \in Nat /\ s.u.walk.to \in Tile
    BY <1>2 DEF Walk, WalkType
  <1> QED
    BY <1>1, <1>2, <1>3 DEF Memory, Moved

LEMMA MovedOn ==
    ASSUME NEW s, NEW r, NEW q, Moved(s, r), Moved(r, q)
    PROVE  Moved(s, q)
  BY DEF Moved

LEMMA Nothing == NoTask \in Task /\ NoTask.rev = 0 /\ NoTask.phase = "NONE" /\ ~IsLeg(NoTask) /\ NoWalk \in Walk /\ NoWalk.id = 0
  BY DEF Task, NoTask, TaskType, IsLeg, NoWalk, Walk, WalkType, Tile

LEMMA Rewritten ==
    ASSUME NEW s, Plain(s), NEW m \in Memory, m.entering = s.u.entering, m.task.rev \in {0, s.u.task.rev}, NEW j \in PlainJobs,
           NEW out, out = Append(s.out, j), NEW r, r = [u |-> m, left |-> s.left, n |-> s.n, load |-> s.load, out |-> out]
    PROVE  Moved(s, r) /\ r.u = m /\ r.out = out
  <1>1. s \in Steps /\ s.out \in Seq(PlainJobs) /\ s.out \in Seq(Job) /\ j \in Job
    BY PlainJob DEF Plain, Steps
  <1>2. out \in Seq(Job) /\ out \in Seq(PlainJobs)
    BY <1>1, Appended
  <1>3. r \in Steps /\ r.u = m /\ r.out = out /\ r.left = s.left /\ r.n = s.n /\ r.load = s.load
    BY <1>1, <1>2 DEF Steps
  <1> QED
    BY <1>2, <1>3 DEF Moved, Plain

\* Without a new job.
LEMMA Remembered ==
    ASSUME NEW s, Plain(s), NEW m \in Memory, m.entering = s.u.entering, m.task.rev \in {0, s.u.task.rev},
           NEW r, r = [u |-> m, left |-> s.left, n |-> s.n, load |-> s.load, out |-> s.out]
    PROVE  Moved(s, r) /\ r.u = m /\ r.out = s.out
  <1>1. s \in Steps /\ s.out \in Seq(PlainJobs)
    BY DEF Plain
  <1>2. r \in Steps /\ r.u = m /\ r.out = s.out /\ r.left = s.left /\ r.n = s.n /\ r.load = s.load
    BY <1>1 DEF Steps
  <1> QED
    BY <1>1, <1>2 DEF Moved, Plain

LEMMA CancelMoved ==
    ASSUME NEW s, Plain(s), NEW stop \in Tile
    PROVE  LET c == Cancel(s, stop)
           IN /\ Moved(s, c) /\ c.u.walk = NoWalk /\ c.u.inside = s.u.inside
              /\ s.u.walk = NoWalk => c = s
              /\ s.u.walk # NoWalk => c.u.status = "IDLE" /\ c.u.at = stop /\ c.u.task = NoTask
  <1>1. CASE s.u.walk = NoWalk
    BY <1>1, Steady DEF Cancel
  <1>2. CASE s.u.walk # NoWalk
    <2>1. PICK j : j = FinishJob(s.u.walk.id, TRUE, stop)
      OBVIOUS
    <2>2. j \in PlainJobs
      BY <2>1, Steady, PlainJob
    <2>3. PICK m : m = [s.u EXCEPT !.task = NoTask, !.walk = NoWalk, !.status = "IDLE", !.at = stop, !.dirty = TRUE]
      OBVIOUS
    <2>4. s.u \in Memory
      BY Steady
    <2>5. /\ m \in Memory /\ m.entering = s.u.entering /\ m.task.rev = 0 /\ m.walk = NoWalk /\ m.status = "IDLE"
          /\ m.at = stop /\ m.task = NoTask /\ m.inside = s.u.inside
      BY <2>3, <2>4, Nothing DEF Memory, Status
    <2>out. PICK out : out = Append(s.out, j)
      OBVIOUS
    <2>6. PICK r : r = [u |-> m, left |-> s.left, n |-> s.n, load |-> s.load, out |-> out]
      OBVIOUS
    <2>7. Cancel(s, stop) = r
      <3>1. PICK x : x = [s EXCEPT !.u = m, !.out = out]
        OBVIOUS
      <3>2. Cancel(s, stop) = x
        BY <1>2, <2>1, <2>3, <2>out, <3>1 DEF Cancel, Plain, Steps, Memory
      <3>3. x = [u |-> m, left |-> s.left, n |-> s.n, load |-> s.load, out |-> out]
        BY <3>1 DEF Plain, Steps
      <3> QED
        BY <2>6, <3>2, <3>3
    <2>8. Moved(s, r) /\ r.u = m
      <3>1. m \in Memory /\ m.entering = s.u.entering /\ m.task.rev \in {0, s.u.task.rev}
        BY <2>5
      <3> QED
        BY <2>2, <2>out, <2>6, <3>1, Rewritten
    <2> QED
      BY <1>2, <2>5, <2>7, <2>8
  <1> QED
    BY <1>1, <1>2

LEMMA StopWorkingMoved ==
    ASSUME NEW s, Plain(s)
    PROVE  LET c == StopWorking(s)
           IN /\ Moved(s, c) /\ c.u.walk = s.u.walk /\ c.u.inside = s.u.inside /\ c.u.at = s.u.at
              /\ s.u.status # "WORKING" => c = s
              /\ s.u.status = "WORKING" => c.u.status = "IDLE" /\ c.u.task = NoTask
  <1>1. CASE s.u.status # "WORKING"
    BY <1>1, Steady DEF StopWorking
  <1>2. CASE s.u.status = "WORKING"
    <2>1. PICK j : j = FinishJob(0, TRUE, s.u.at)
      OBVIOUS
    <2>2. j \in PlainJobs
      BY <2>1, Steady, PlainJob
    <2>3. PICK m : m = [s.u EXCEPT !.task = NoTask, !.status = "IDLE", !.dirty = TRUE]
      OBVIOUS
    <2>4. s.u \in Memory
      BY Steady
    <2>5. /\ m \in Memory /\ m.entering = s.u.entering /\ m.task.rev = 0 /\ m.walk = s.u.walk /\ m.status = "IDLE"
          /\ m.at = s.u.at /\ m.task = NoTask /\ m.inside = s.u.inside
      BY <2>3, <2>4, Nothing DEF Memory, Status
    <2>out. PICK out : out = Append(s.out, j)
      OBVIOUS
    <2>6. PICK r : r = [u |-> m, left |-> s.left, n |-> s.n, load |-> s.load, out |-> out]
      OBVIOUS
    <2>7. StopWorking(s) = r
      <3>1. PICK x : x = [s EXCEPT !.u = m, !.out = out]
        OBVIOUS
      <3>2. StopWorking(s) = x
        BY <1>2, <2>1, <2>3, <2>out, <3>1 DEF StopWorking, Plain, Steps, Memory
      <3>3. x = [u |-> m, left |-> s.left, n |-> s.n, load |-> s.load, out |-> out]
        BY <3>1 DEF Plain, Steps
      <3> QED
        BY <2>6, <3>2, <3>3
    <2>8. Moved(s, r) /\ r.u = m
      <3>1. m \in Memory /\ m.entering = s.u.entering /\ m.task.rev \in {0, s.u.task.rev}
        BY <2>5
      <3> QED
        BY <2>2, <2>out, <2>6, <3>1, Rewritten
    <2> QED
      BY <1>2, <2>5, <2>7, <2>8
  <1> QED
    BY <1>1, <1>2

LEMMA DropTaskMoved ==
    ASSUME NEW s, Plain(s)
    PROVE  LET c == DropTask(s)
           IN /\ Moved(s, c) /\ c.u.walk = s.u.walk /\ c.u.inside = s.u.inside /\ c.u.at = s.u.at /\ c.out = s.out
              /\ c.u.status = s.u.status /\ c.u.task = NoTask
  <1>1. PICK m : m = [s.u EXCEPT !.task = NoTask]
    OBVIOUS
  <1>2. s.u \in Memory
    BY Steady
  <1>3. /\ m \in Memory /\ m.entering = s.u.entering /\ m.task.rev = 0 /\ m.walk = s.u.walk /\ m.status = s.u.status
        /\ m.at = s.u.at /\ m.task = NoTask /\ m.inside = s.u.inside
    BY <1>1, <1>2, Nothing DEF Memory
  <1>4. PICK r : r = [s EXCEPT !.u = m]
    OBVIOUS
  <1>5. DropTask(s) = r /\ r = [u |-> m, left |-> s.left, n |-> s.n, load |-> s.load, out |-> s.out]
    BY <1>1, <1>4 DEF DropTask, Plain, Steps, Memory
  <1>6. Moved(s, r) /\ r.u = m /\ r.out = s.out
    BY <1>3, <1>5, Remembered
  <1> QED
    BY <1>3, <1>5, <1>6

LEMMA BeginWalkMoved ==
    ASSUME NEW s, Plain(s), NEW from \in Tile, NEW to \in Tile, s.u.inside = NoCity, ~s.u.entering
    PROVE  LET r == BeginWalk(s, from, to)
           IN Plain(r) /\ r.left = s.left /\ r.u.entering = s.u.entering /\ r.u.task.rev = 0 /\ Story(r.u)
  <1>1. PICK d : d = DropTask(s)
    OBVIOUS
  <1>2. Moved(s, d) /\ d.u.walk = s.u.walk /\ d.u.inside = s.u.inside /\ d.u.task = NoTask
    BY <1>1, DropTaskMoved
  <1>3. Plain(d)
    BY <1>2 DEF Moved
  <1>4. PICK c : c = Cancel(d, from)
    OBVIOUS
  <1>5. /\ Moved(d, c) /\ c.u.walk = NoWalk /\ c.u.inside = d.u.inside
        /\ (d.u.walk = NoWalk => c = d)
        /\ (d.u.walk # NoWalk => c.u.status = "IDLE" /\ c.u.at = from /\ c.u.task = NoTask)
    BY <1>3, <1>4, CancelMoved
  <1>6. Moved(s, c) /\ Plain(c) /\ c.u.task = NoTask /\ c.u.inside = NoCity /\ c.n = s.n
    BY <1>2, <1>5, MovedOn DEF Moved
  <1>7. c.u \in Memory /\ c.n \in Nat \ {0} /\ c.u.entering = FALSE
    BY <1>6, Steady DEF Moved
  <1>8. PICK leg : leg = [id |-> c.n, to |-> to]
    OBVIOUS
  <1>9. leg \in Walk /\ leg # NoWalk
    BY <1>7, <1>8 DEF Walk, WalkType, NoWalk
  <1>10. PICK m : m = [c.u EXCEPT !.walk = leg, !.status = "MOVING", !.dirty = TRUE]
    OBVIOUS
  <1>11. /\ m \in Memory /\ m.walk = leg /\ m.status = "MOVING" /\ m.task = NoTask /\ m.inside = NoCity /\ m.entering = FALSE
    BY <1>6, <1>7, <1>9, <1>10 DEF Memory, Status
  <1>12. PICK j : j = StartJob(c.n, from, to)
    OBVIOUS
  <1>13. j \in PlainJobs
    BY <1>7, <1>12, PlainJob
  <1>14. PICK out : out = Append(c.out, j)
    OBVIOUS
  <1>15. PICK r : r = [u |-> m, left |-> c.left, n |-> c.n, load |-> c.load, out |-> out]
    OBVIOUS
  <1>16. BeginWalk(s, from, to) = r
    <2>1. PICK x : x = [c EXCEPT !.u = m, !.out = out]
      OBVIOUS
    <2>2. x = [u |-> m, left |-> c.left, n |-> c.n, load |-> c.load, out |-> out]
      BY <1>6, <2>1 DEF Plain, Steps
    <2>3. BeginWalk(s, from, to) = x
      BY <1>1, <1>4, <1>6, <1>8, <1>10, <1>12, <1>14, <2>1 DEF BeginWalk, Plain, Steps, Memory
    <2> QED
      BY <1>15, <2>2, <2>3
  <1>17. m.task.rev \in {0, c.u.task.rev} /\ m.entering = c.u.entering
    BY <1>6, <1>7, <1>11
  <1>18. Moved(c, r) /\ r.u = m
    <2>1. Plain(c) /\ m \in Memory /\ m.entering = c.u.entering /\ m.task.rev \in {0, c.u.task.rev}
      BY <1>6, <1>11, <1>17
    <2> QED
      BY <1>13, <1>14, <1>15, <2>1, Rewritten
  <1>19. Story(m)
    BY <1>9, <1>11, Nothing DEF Story
  <1> QED
    BY <1>6, <1>11, <1>16, <1>18, <1>19, Nothing DEF Moved

LEMMA ExitMoved ==
    ASSUME NEW s, Plain(s), Story(s.u), s.u.status = "GARRISONED"
    PROVE  Moved(s, Exit(s)) /\ Story(Exit(s).u)
  <1>1. s.u \in Memory /\ s.u.inside \in City /\ s.u.walk = NoWalk /\ s.u.at \in Tile
    BY Steady DEF Story
  <1>2. ~IsLeg(s.u.task)
    <2>1. s.u.task \in Task
      BY <1>1 DEF Memory
    <2>2. IsLeg(s.u.task) => LegOf(s.u.task).id # 0
      BY <2>1 DEF LegOf, Task, IsLeg, NoTask
    <2> QED
      BY <1>1, <2>2, Nothing DEF Story
  <1>3. PICK m : m = [s.u EXCEPT !.status = "IDLE", !.inside = NoCity, !.at = Depot, !.dirty = TRUE]
    OBVIOUS
  <1>4. /\ m \in Memory /\ m.walk = NoWalk /\ m.status = "IDLE" /\ m.task = s.u.task /\ m.inside = NoCity
        /\ m.entering = s.u.entering
    BY <1>1, <1>3 DEF Memory, Status, Tile
  <1>5. PICK j : j = LeaveJob(Depot, s.u.inside, s.u.at)
    OBVIOUS
  <1>6. j \in PlainJobs
    BY <1>1, <1>5, PlainJob DEF Tile
  <1>7. PICK out : out = Append(s.out, j)
    OBVIOUS
  <1>8. PICK r : r = [u |-> m, left |-> s.left, n |-> s.n, load |-> s.load, out |-> out]
    OBVIOUS
  <1>9. Exit(s) = r
    <2>1. PICK x : x = [s EXCEPT !.u = m, !.out = out]
      OBVIOUS
    <2>2. x = [u |-> m, left |-> s.left, n |-> s.n, load |-> s.load, out |-> out]
      BY <2>1 DEF Plain, Steps
    <2>3. Exit(s) = x
      BY <1>3, <1>5, <1>7, <2>1 DEF Exit, Plain, Steps, Memory
    <2> QED
      BY <1>8, <2>2, <2>3
  <1>10. m.task.rev \in {0, s.u.task.rev} /\ m.entering = s.u.entering
    BY <1>4
  <1>11. Moved(s, r) /\ r.u = m
    BY <1>4, <1>6, <1>7, <1>8, <1>10, Rewritten
  <1>12. Story(m)
    BY <1>2, <1>4 DEF Story
  <1> QED
    BY <1>9, <1>11, <1>12

LEMMA Retold ==
    ASSUME NEW m, NEW p, Story(m), p.status = m.status, p.at = m.at, p.walk = m.walk, p.task = m.task,
           p.inside = m.inside, p.entering = m.entering
    PROVE  Story(p)
  BY DEF Story

LEMMA SetToSeqJobs ==
    ASSUME NEW S, IsFiniteSet(S), NEW T, S \subseteq T
    PROVE  SetToSeq(S) \in Seq(T)
  <1> DEFINE n == Cardinality(S)
  <1>1. n \in Nat /\ \E f \in [1..n -> S] : IsInjective(f)
    BY FS_CardinalityType DEF ExistsBijection, Bijection, Injection
  <1>2. SetToSeq(S) \in [1..n -> S]
    BY <1>1 DEF SetToSeq
  <1> HIDE DEF n
  <1>3. \A f \in [1..n -> S] : f \in Seq(T)
    BY <1>1
  <1> QED
    BY <1>2, <1>3

LEMMA FlushMoved ==
    ASSUME NEW s, Plain(s), Story(s.u)
    PROVE  Moved(s, FlushUnit(s)) /\ Story(FlushUnit(s).u)
  <1>1. s.u \in Memory /\ s.u.pend \in Numbers /\ s.out \in Seq(PlainJobs) /\ s.u.status \in Status /\ s.u.at \in Tile
    BY Steady DEF Plain
  <1>2. PICK jobs : jobs = {FinishJob(i, FALSE, NoTile) : i \in s.u.pend}
    OBVIOUS
  <1>3. IsFiniteSet(jobs) /\ jobs \subseteq PlainJobs
    <2>1. PICK f : f = [i \in s.u.pend |-> FinishJob(i, FALSE, NoTile)]
      OBVIOUS
    <2>2. IsFiniteSet(s.u.pend) /\ s.u.pend \subseteq Nat
      BY <1>1 DEF Numbers
    <2>3. f \in [s.u.pend -> jobs] /\ \A y \in jobs : \E i \in s.u.pend : f[i] = y
      BY <1>2, <2>1
    <2>4. IsFiniteSet(jobs)
      BY <2>2, <2>3, ImageFinite
    <2> QED
      BY <1>2, <2>2, <2>4, PlainJob
  <1>4. PICK closings : closings = SetToSeq(jobs)
    OBVIOUS
  <1>5. closings \in Seq(PlainJobs)
    BY <1>3, <1>4, SetToSeqJobs
  <1>6. PICK out : out = s.out \o closings
    OBVIOUS
  <1>7. out \in Seq(PlainJobs)
    BY <1>1, <1>5, <1>6
  <1>8. PICK j : j = FlushJob(s.u.status, s.u.at)
    OBVIOUS
  <1>9. j \in PlainJobs
    BY <1>1, <1>8, PlainJob
  <1>10. PICK out2 : out2 = Append(out, j)
    OBVIOUS
  <1>11. out2 \in Seq(PlainJobs)
    BY <1>7, <1>9, <1>10, Appended
  <1>12. PICK m : m = [s.u EXCEPT !.pend = {}]
    OBVIOUS
  <1>13. PICK p : p = [s.u EXCEPT !.pend = {}, !.dirty = FALSE]
    OBVIOUS
  <1>14. {} \in Numbers
    BY FS_EmptySet DEF Numbers
  <1>15. /\ m \in Memory /\ m.status = s.u.status /\ m.at = s.u.at /\ m.walk = s.u.walk /\ m.task = s.u.task
         /\ m.inside = s.u.inside /\ m.entering = s.u.entering
    BY <1>1, <1>12, <1>14 DEF Memory
  <1>16. /\ p \in Memory /\ p.status = s.u.status /\ p.at = s.u.at /\ p.walk = s.u.walk /\ p.task = s.u.task
         /\ p.inside = s.u.inside /\ p.entering = s.u.entering
    BY <1>1, <1>13, <1>14 DEF Memory
  <1>17. Story(m) /\ Story(p)
    BY <1>15, <1>16, Retold
  <1>18. PICK r : r = FlushUnit(s)
    OBVIOUS
  <1>19. PICK f : f = [s EXCEPT !.u.pend = {}, !.out = @ \o closings]
    OBVIOUS
  <1>20. f = [u |-> m, left |-> s.left, n |-> s.n, load |-> s.load, out |-> out]
    BY <1>6, <1>12, <1>19 DEF Plain, Steps
  <1>21. \/ r = f
         \/ r = [f EXCEPT !.u.dirty = FALSE]
         \/ r = [f EXCEPT !.u.dirty = FALSE, !.out = Append(@, j)]
    BY ONLY <1>2, <1>4, <1>8, <1>18, <1>19 DEF FlushUnit
  <1>22. p = [m EXCEPT !.dirty = FALSE]
    BY <1>1, <1>12, <1>13 DEF Memory
  <1>23. \/ r = f
         \/ r = [u |-> p, left |-> s.left, n |-> s.n, load |-> s.load, out |-> out]
         \/ r = [u |-> p, left |-> s.left, n |-> s.n, load |-> s.load, out |-> out2]
    <2>1. f.u = m /\ f.out = out
      BY <1>20
    <2>2. CASE r = f
      BY <2>2
    <2>3. CASE r = [f EXCEPT !.u.dirty = FALSE]
      <3>1. r = [f EXCEPT !.u = p]
        BY <1>22, <2>1, <2>3
      <3> QED
        BY <1>20, <3>1
    <2>4. CASE r = [f EXCEPT !.u.dirty = FALSE, !.out = Append(@, j)]
      <3>1. r = [f EXCEPT !.u = p, !.out = out2]
        BY <1>10, <1>22, <2>1, <2>4
      <3> QED
        BY <1>20, <3>1
    <2> QED
      BY <1>21, <2>2, <2>3, <2>4
  <1>24. s \in Steps /\ PlainJobs \subseteq Job
    BY PlainJob DEF Plain
  <1>25. out \in Seq(Job) /\ out2 \in Seq(Job)
    BY <1>7, <1>11, <1>24
  <1> QED
    BY <1>7, <1>11, <1>15, <1>16, <1>17, <1>18, <1>20, <1>23, <1>24, <1>25 DEF Moved, Plain, Steps

-----------------------------------------------------------------------------
(* Queues and inboxes that grow.                                           *)

LEMMA EntryGrows ==
    ASSUME NEW q \in Seq(Item), NEW p \in Seq(Item), NEW box \in Seq(Sent), NEW box2 \in Seq(Sent),
           NEW u, NEW e, NEW l, NEW l2, Entry(q, box, u, e, l), l => l2,
           Begins(q, p), \A i \in (Len(q) + 1)..Len(p) : ~EnterIn(p, i),
           Begins(box, box2), \A i \in (Len(box) + 1)..Len(box2) : ~AnswerIn(box2, u, i)
    PROVE  Entry(p, box2, u, e, l2)
  <1>1. DOMAIN q = 1..Len(q) /\ DOMAIN p = 1..Len(p) /\ Len(q) \in Nat /\ Len(p) \in Nat
    OBVIOUS
  <1>2. DOMAIN box = 1..Len(box) /\ DOMAIN box2 = 1..Len(box2) /\ Len(box) \in Nat /\ Len(box2) \in Nat
    OBVIOUS
  <1>3. \A i \in Nat : EnterIn(p, i) <=> EnterIn(q, i)
    BY <1>1 DEF EnterIn, Begins
  <1>4. \A i \in Nat : AnswerIn(box2, u, i) <=> AnswerIn(box, u, i)
    BY <1>2 DEF AnswerIn, Begins
  <1> QED
    BY <1>3, <1>4 DEF Entry

LEMMA ApartGrows ==
    ASSUME NEW q \in Seq(Item), NEW p \in Seq(Item), NEW rev, NEW rev2, NEW task, Apart(q, rev, task),
           Begins(q, p), \A i \in (Len(q) + 1)..Len(p) : ~CutIn(p, i) /\ ~p[i].done,
           \A i \in Nat : CutIn(q, i) => RevIn(q, i) # rev2
    PROVE  /\ Apart(p, rev2, task)
           /\ \A u, f : Credit(p, u, f) = Credit(q, u, f)
  <1>1. DOMAIN q = 1..Len(q) /\ DOMAIN p = 1..Len(p) /\ Len(q) \in Nat /\ Len(p) \in Nat
    OBVIOUS
  <1>2. \A i \in 1..Len(p) : i \in 1..Len(q) \/ i \in (Len(q) + 1)..Len(p)
    BY <1>1
  <1>3. \A i \in 1..Len(q) : i \in 1..Len(p) /\ p[i] = q[i]
    BY <1>1 DEF Begins
  <1>4. \A i : CutIn(p, i) <=> CutIn(q, i)
    BY <1>1, <1>2, <1>3 DEF CutIn
  <1>5. \A i : CutIn(q, i) => p[i] = q[i] /\ RevIn(p, i) = RevIn(q, i)
    BY <1>1, <1>3 DEF CutIn, RevIn
  <1>6. \A i \in DOMAIN p : p[i].done => i \in DOMAIN q /\ p[i] = q[i]
    BY <1>1, <1>2, <1>3
  <1>7. Apart(p, rev2, task)
    <2>1. \A i \in Nat : CutIn(p, i) => RevIn(p, i) # rev2
      BY <1>4, <1>5
    <2>2. \A i, j \in Nat : CutIn(p, i) /\ CutIn(p, j) /\ RevIn(p, i) = RevIn(p, j) => i = j
      BY <1>4, <1>5 DEF Apart
    <2>3. \A i \in DOMAIN p : p[i].done => i = 1
      BY <1>6 DEF Apart
    <2>4. \A i \in DOMAIN p : p[i].done /\ p[i].job.k = "Task" => task = p[i].job.task
      BY <1>6 DEF Apart
    <2> QED
      BY <2>1, <2>2, <2>3, <2>4 DEF Apart
  <1>8. \A f : Waits(p, f) = Waits(q, f)
    <2> SUFFICES ASSUME NEW f PROVE Waits(p, f) = Waits(q, f)
      OBVIOUS
    <2>1. \A i : i \in Waits(p, f) <=> CutIn(p, i) /\ ~p[i].done /\ p[i].job.load.tile = f
      BY DEF Waits, CutIn
    <2>2. \A i : i \in Waits(q, f) <=> CutIn(q, i) /\ ~q[i].done /\ q[i].job.load.tile = f
      BY DEF Waits, CutIn
    <2>3. \A i : i \in Waits(p, f) <=> i \in Waits(q, f)
      BY <1>4, <1>5, <2>1, <2>2
    <2> QED
      BY <2>3, Zenon
  <1>9. \A u, f : Credit(p, u, f) = Credit(q, u, f)
    <2> SUFFICES ASSUME NEW u, NEW f PROVE Credit(p, u, f) = Credit(q, u, f)
      OBVIOUS
    <2>1. \A i \in Waits(q, f) : RevIn(p, i) = RevIn(q, i)
      BY <1>5 DEF Waits
    <2> QED
      BY <1>8, <2>1 DEF Credit
  <1> QED
    BY <1>7, <1>9

-----------------------------------------------------------------------------
(* What a step of the loop leaves.                                         *)

LEMMA LoadRev ==
    ASSUME TypeInv, NEW u \in Unit, NEW i \in Nat, CutIn(queue[u], i)
    PROVE  RevIn(queue[u], i) \in Nat \ {0} /\ RevIn(queue[u], i) # Fresh
  <1>1. queue[u] \in Seq(Item) /\ i \in DOMAIN queue[u] /\ queue[u][i].job.k = "Task" /\ queue[u][i].job.load # NoLoad
    BY DEF TypeInv, QueueType, CutIn
  <1>2. PICK j \in Job : j = queue[u][i].job
    <2>1. queue[u][i] \in Item
      BY <1>1
    <2> QED
      BY <2>1 DEF Item
  <1>3. j \in TaskJobs
    BY <1>1, <1>2, Kinds
  <1>4. j.load.rev \in Nat \ {0}
    BY <1>1, <1>2, <1>3 DEF TaskJobs, Load
  <1>5. j.load.rev \in NumbersOf(j)
    BY <1>1, <1>2 DEF NumbersOf
  <1>6. j.load.rev # Fresh
    BY <1>1, <1>2, <1>5, FreshId
  <1> QED
    BY <1>2, <1>4, <1>6 DEF RevIn

LEMMA AppliedTypes ==
    ASSUME TypeInv, NEW u \in Unit, NEW r \in Steps, NEW box \in Seq(Sent), Len(box) <= InboxSize, Apply(u, r, box)
    PROVE  /\ TypeInv' /\ Submitted(u, r.out, box)
           /\ ram' = [ram EXCEPT ![u] = r.u] /\ left' = r.left /\ row' = row /\ kept' = kept /\ r.out \in Seq(Job)
  <1>1. r.out \in Seq(Job) /\ r.u \in Memory /\ r.left \in [Forest -> 0..Loads]
    BY DEF Steps
  <1>2. QueueType' /\ InboxType' /\ Submitted(u, r.out, box)
    BY <1>1, Applied
  <1>3. ram' = [ram EXCEPT ![u] = r.u] /\ left' = r.left /\ row' = row /\ kept' = kept /\ failures' = failures
    BY DEF Apply
  <1>4. RamType'
    BY <1>1, <1>3 DEF TypeInv, RamType
  <1>5. RowType'
    BY <1>3 DEF TypeInv, RowType
  <1> QED
    BY <1>1, <1>2, <1>3, <1>4, <1>5 DEF TypeInv

LEMMA StoriesKept ==
    ASSUME TypeInv, Stories, NEW u \in Unit, NEW m, Story(m), ram' = [ram EXCEPT ![u] = m]
    PROVE  Stories'
  <1>1. \A v \in Unit : ram'[v] = IF v = u THEN m ELSE ram[v]
    BY DEF TypeInv, RamType
  <1>2. \A v \in Unit : Story(ram'[v])
    BY <1>1 DEF Stories
  <1> QED
    BY <1>2 DEF Stories

LEMMA EntriesKept ==
    ASSUME TypeInv, NEW u \in Unit, NEW r \in Steps, NEW box \in Seq(Sent), Len(box) <= InboxSize, Apply(u, r, box),
           \A i \in 1..Len(r.out) : r.out[i].k # "Enter",
           \A v \in Unit : Entry(queue[v], box, v, IF v = u THEN r.u.entering ELSE ram[v].entering, lost)
    PROVE  Entries'
  <1>1. /\ TypeInv' /\ Submitted(u, r.out, box) /\ ram' = [ram EXCEPT ![u] = r.u] /\ r.out \in Seq(Job)
    BY AppliedTypes
  <1>2. /\ queue \in [Unit -> Seq(Item)] /\ queue' \in [Unit -> Seq(Item)] /\ inbox' \in Seq(Sent)
    BY <1>1 DEF TypeInv, QueueType, InboxType
  <1>3. PICK out : out = r.out
    OBVIOUS
  <1>4. /\ \A v \in Unit : v # u => queue'[v] = queue[v]
        /\ Len(queue'[u]) = Len(queue[u]) + Accepted(u, out) /\ Accepted(u, out) \in 0..Len(out)
        /\ \A i \in 1..Len(queue[u]) : queue'[u][i] = queue[u][i]
        /\ \A i \in (Len(queue[u]) + 1)..Len(queue'[u]) :
             i - Len(queue[u]) \in 1..Len(out) /\ queue'[u][i] = [job |-> out[i - Len(queue[u])], done |-> FALSE]
    BY <1>1, <1>3 DEF Submitted
  <1>5. /\ Len(box) <= Len(inbox')
        /\ \A i \in 1..Len(box) : inbox'[i] = box[i]
        /\ \A i \in (Len(box) + 1)..Len(inbox') : \E n \in 1..Len(out) : inbox'[i] = FailureOf(u, out[n])
        /\ lost => lost'
    BY <1>1, <1>3 DEF Submitted
  <1>6. Begins(box, inbox')
    BY <1>5 DEF Begins
  <1>7. \A v \in Unit : \A i \in (Len(box) + 1)..Len(inbox') : ~AnswerIn(inbox', v, i)
    <2> SUFFICES ASSUME NEW v \in Unit, NEW i \in (Len(box) + 1)..Len(inbox') PROVE ~AnswerIn(inbox', v, i)
      OBVIOUS
    <2>1. PICK n \in 1..Len(out) : inbox'[i] = FailureOf(u, out[n])
      BY <1>5
    <2>2. out[n] \in Job /\ out[n].k # "Enter"
      BY <1>1, <1>3
    <2>3. inbox'[i].k # "Entered"
      BY <2>1, <2>2, FailureTyped
    <2> QED
      BY <2>3 DEF AnswerIn
  <1>8. \A v \in Unit : Begins(queue[v], queue'[v]) /\ \A i \in (Len(queue[v]) + 1)..Len(queue'[v]) : ~EnterIn(queue'[v], i)
    <2> SUFFICES ASSUME NEW v \in Unit
                 PROVE  Begins(queue[v], queue'[v]) /\ \A i \in (Len(queue[v]) + 1)..Len(queue'[v]) : ~EnterIn(queue'[v], i)
      OBVIOUS
    <2>1. Len(queue[v]) \in Nat /\ Len(queue'[v]) \in Nat
      BY <1>2
    <2>2. CASE v = u
      <3>1. Begins(queue[u], queue'[u])
        BY <1>4, <2>1, <2>2 DEF Begins
      <3>2. \A i \in (Len(queue[u]) + 1)..Len(queue'[u]) : queue'[u][i].job.k # "Enter"
        <4>1. \A n \in 1..Len(out) : out[n].k # "Enter"
          BY <1>3
        <4>2. SUFFICES ASSUME NEW i \in (Len(queue[u]) + 1)..Len(queue'[u]) PROVE queue'[u][i].job.k # "Enter"
          OBVIOUS
        <4>3. i - Len(queue[u]) \in 1..Len(out) /\ queue'[u][i] = [job |-> out[i - Len(queue[u])], done |-> FALSE]
          BY <1>4
        <4>4. queue'[u][i].job = out[i - Len(queue[u])]
          BY <4>3
        <4> QED
          BY <4>1, <4>3, <4>4
      <3> QED
        BY <2>2, <3>1, <3>2 DEF EnterIn
    <2>3. CASE v # u
      BY <1>4, <2>1, <2>3 DEF Begins
    <2> QED
      BY <2>2, <2>3
  <1>9. \A v \in Unit : ram'[v].entering = IF v = u THEN r.u.entering ELSE ram[v].entering
    BY <1>1 DEF TypeInv, RamType
  <1>10. ASSUME NEW v \in Unit PROVE Entry(queue'[v], inbox', v, ram'[v].entering, lost')
    <2>1. PICK q \in Seq(Item) : q = queue[v]
      BY <1>2
    <2>2. PICK p \in Seq(Item) : p = queue'[v]
      BY <1>2
    <2>3. PICK box2 \in Seq(Sent) : box2 = inbox'
      BY <1>2
    <2>4. PICK e : e = ram'[v].entering
      OBVIOUS
    <2>5. Entry(q, box, v, e, lost)
      BY <1>9, <2>1, <2>4
    <2>6. PICK l2 : l2 = lost'
      OBVIOUS
    <2>7. lost => l2
      BY <1>5, <2>6
    <2>8. Begins(q, p) /\ \A i \in (Len(q) + 1)..Len(p) : ~EnterIn(p, i)
      BY <1>8, <2>1, <2>2
    <2>9. Begins(box, box2) /\ \A i \in (Len(box) + 1)..Len(box2) : ~AnswerIn(box2, v, i)
      BY <1>6, <1>7, <2>3
    <2>10. Entry(p, box2, v, e, l2)
      BY <2>5, <2>7, <2>8, <2>9, EntryGrows
    <2> QED
      BY <2>2, <2>3, <2>4, <2>6, <2>10
  <1> QED
    BY <1>10 DEF Entries

LEMMA ApartKept ==
    ASSUME TypeInv, AllApart, NEW u \in Unit, NEW r \in Steps, NEW box \in Seq(Sent), Len(box) <= InboxSize, Apply(u, r, box),
           \A n \in 1..Len(r.out) : r.out[n].k = "Task" => r.out[n].load = NoLoad,
           r.u.task.rev \in {0, Fresh, ram[u].task.rev}
    PROVE  AllApart' /\ \A f : Credits(queue', f) = Credits(queue, f)
  <1>1. /\ TypeInv' /\ Submitted(u, r.out, box) /\ ram' = [ram EXCEPT ![u] = r.u] /\ row' = row /\ r.out \in Seq(Job)
    BY AppliedTypes
  <1>2. queue \in [Unit -> Seq(Item)] /\ queue' \in [Unit -> Seq(Item)]
    BY <1>1 DEF TypeInv, QueueType
  <1>3. PICK out : out = r.out
    OBVIOUS
  <1>4. /\ \A v \in Unit : v # u => queue'[v] = queue[v]
        /\ Len(queue'[u]) = Len(queue[u]) + Accepted(u, out) /\ Accepted(u, out) \in 0..Len(out)
        /\ \A i \in 1..Len(queue[u]) : queue'[u][i] = queue[u][i]
        /\ \A i \in (Len(queue[u]) + 1)..Len(queue'[u]) :
             i - Len(queue[u]) \in 1..Len(out) /\ queue'[u][i] = [job |-> out[i - Len(queue[u])], done |-> FALSE]
    BY <1>1, <1>3 DEF Submitted
  <1>5. \A n \in 1..Len(out) : out[n].k = "Task" => out[n].load = NoLoad
    BY <1>3
  <1>6. \A v \in Unit : ram'[v] = IF v = u THEN r.u ELSE ram[v]
    BY <1>1 DEF TypeInv, RamType
  <1>7. ASSUME NEW v \in Unit
        PROVE  Apart(queue'[v], ram'[v].task.rev, row'[v].task) /\ \A f : Credit(queue'[v], v, f) = Credit(queue[v], v, f)
    <2>1. PICK q \in Seq(Item) : q = queue[v]
      BY <1>2
    <2>2. PICK p \in Seq(Item) : p = queue'[v]
      BY <1>2
    <2>3. PICK rev : rev = ram[v].task.rev
      OBVIOUS
    <2>4. PICK rev2 : rev2 = ram'[v].task.rev
      OBVIOUS
    <2>5. PICK task : task = row[v].task
      OBVIOUS
    <2>6. Apart(q, rev, task)
      BY <2>1, <2>3, <2>5 DEF AllApart
    <2>7. Begins(q, p) /\ \A i \in (Len(q) + 1)..Len(p) : ~CutIn(p, i) /\ ~p[i].done
      <3>1. Len(q) \in Nat /\ Len(p) \in Nat
        OBVIOUS
      <3>2. CASE v = u
        <4>1. Begins(q, p)
          BY <1>4, <2>1, <2>2, <3>1, <3>2 DEF Begins
        <4>2. SUFFICES ASSUME NEW i \in (Len(q) + 1)..Len(p) PROVE ~CutIn(p, i) /\ ~p[i].done
          BY <4>1
        <4>3. i - Len(q) \in 1..Len(out) /\ p[i] = [job |-> out[i - Len(q)], done |-> FALSE]
          BY <1>4, <2>1, <2>2, <3>2
        <4>4. p[i].job = out[i - Len(q)] /\ p[i].done = FALSE
          BY <4>3
        <4> QED
          BY <1>5, <4>3, <4>4 DEF CutIn
      <3>3. CASE v # u
        BY <1>4, <2>1, <2>2, <3>1, <3>3 DEF Begins
      <3> QED
        BY <3>2, <3>3
    <2>8. \A i \in Nat : CutIn(q, i) => RevIn(q, i) # rev2
      <3>1. \A i \in Nat : CutIn(q, i) => RevIn(q, i) \in Nat \ {0} /\ RevIn(q, i) # Fresh
        BY <2>1, LoadRev
      <3>2. \A i \in Nat : CutIn(q, i) => RevIn(q, i) # rev
        BY <2>6 DEF Apart
      <3>3. rev2 \in {0, Fresh, rev}
        BY <1>6, <2>3, <2>4
      <3> QED
        BY <3>1, <3>2, <3>3
    <2>9. Apart(p, rev2, task) /\ \A w, f : Credit(p, w, f) = Credit(q, w, f)
      BY <2>6, <2>7, <2>8, ApartGrows
    <2> QED
      BY <1>1, <2>1, <2>2, <2>4, <2>5, <2>9
  <1>8. AllApart'
    BY <1>7 DEF AllApart
  <1>9. \A f : Credits(queue', f) = Credits(queue, f)
    <2> SUFFICES ASSUME NEW f PROVE Credits(queue', f) = Credits(queue, f)
      OBVIOUS
    <2>1. \A v \in Unit : Credit(queue'[v], v, f) = Credit(queue[v], v, f)
      BY <1>7
    <2> QED
      BY <2>1 DEF Credits
  <1> QED
    BY <1>8, <1>9

LEMMA ApartWithLoad ==
    ASSUME NEW q \in Seq(Item), NEW p \in Seq(Item), NEW rev, NEW rev2, NEW task, Apart(q, rev, task),
           Begins(q, p), NEW item \in Item, \A i \in (Len(q) + 1)..Len(p) : i = Len(q) + 1 /\ p[i] = item,
           ~item.done, item.job.load.rev = rev, rev # rev2,
           \A i \in Nat : CutIn(q, i) => RevIn(q, i) # rev2
    PROVE  /\ Apart(p, rev2, task)
           /\ \A u, f : Credit(p, u, f) \subseteq Credit(q, u, f) \cup (IF f = item.job.load.tile THEN {<<u, rev>>} ELSE {})
  <1>1. DOMAIN q = 1..Len(q) /\ DOMAIN p = 1..Len(p) /\ Len(q) \in Nat /\ Len(p) \in Nat
    OBVIOUS
  <1>2. PICK n : n = Len(q) + 1
    OBVIOUS
  <1>3. \A i \in DOMAIN p : \/ i \in DOMAIN q /\ p[i] = q[i]
                            \/ i = n /\ p[i] = item
    <2>1. \A i \in 1..Len(p) : i \in 1..Len(q) \/ i \in (Len(q) + 1)..Len(p)
      BY <1>1
    <2> QED
      BY <1>1, <1>2, <2>1 DEF Begins
  <1>4. n \notin DOMAIN q /\ n \in Nat
    BY <1>1, <1>2
  <1>5. \A i : CutIn(p, i) => \/ i \in DOMAIN q /\ CutIn(q, i) /\ RevIn(p, i) = RevIn(q, i)
                              \/ i = n /\ RevIn(p, i) = rev
    BY <1>3 DEF CutIn, RevIn
  <1>6. \A i \in Nat : CutIn(q, i) => RevIn(q, i) # rev
    BY DEF Apart
  <1>7. Apart(p, rev2, task)
    <2>1. \A i \in Nat : CutIn(p, i) => RevIn(p, i) # rev2
      BY <1>5
    <2>2. \A i, j \in Nat : CutIn(p, i) /\ CutIn(p, j) /\ RevIn(p, i) = RevIn(p, j) => i = j
      BY <1>5, <1>6 DEF Apart
    <2>3. \A i \in DOMAIN p : p[i].done => i = 1
      BY <1>3 DEF Apart
    <2>4. \A i \in DOMAIN p : p[i].done /\ p[i].job.k = "Task" => task = p[i].job.task
      BY <1>3 DEF Apart
    <2> QED
      BY <2>1, <2>2, <2>3, <2>4 DEF Apart
  <1>8. ASSUME NEW u, NEW f, NEW c \in Credit(p, u, f)
        PROVE  c \in Credit(q, u, f) \cup (IF f = item.job.load.tile THEN {<<u, rev>>} ELSE {})
    <2>1. PICK i \in Waits(p, f) : c = <<u, RevIn(p, i)>>
      BY <1>8 DEF Credit
    <2>2. i \in DOMAIN p /\ CutIn(p, i) /\ ~p[i].done /\ p[i].job.load.tile = f
      BY <2>1 DEF Waits
    <2>3. CASE i \in DOMAIN q /\ p[i] = q[i]
      <3>1. CutIn(q, i) /\ ~q[i].done /\ q[i].job.load.tile = f /\ RevIn(q, i) = RevIn(p, i)
        BY <2>2, <2>3 DEF CutIn, RevIn
      <3>2. i \in Waits(q, f)
        BY <2>3, <3>1 DEF Waits
      <3> QED
        BY <2>1, <3>1, <3>2 DEF Credit
    <2>4. CASE p[i] = item
      <3>1. item.job.load.tile = f /\ RevIn(p, i) = rev
        BY <2>2, <2>4 DEF RevIn
      <3> QED
        BY <2>1, <3>1
    <2> QED
      BY <1>3, <2>2, <2>3, <2>4
  <1> QED
    BY <1>7, <1>8

LEMMA Fewer ==
    ASSUME NEW A, IsFiniteSet(A), NEW B, B \subseteq A
    PROVE  IsFiniteSet(B) /\ Cardinality(B) \in Nat /\ Cardinality(A) \in Nat /\ Cardinality(B) <= Cardinality(A)
  BY FS_Subset, FS_CardinalityType

LEMMA OneMore ==
    ASSUME NEW A, IsFiniteSet(A), NEW x, NEW B, B \subseteq A \cup {x}
    PROVE  IsFiniteSet(B) /\ Cardinality(B) \in Nat /\ Cardinality(A) \in Nat /\ Cardinality(B) <= Cardinality(A) + 1
  <1>1. IsFiniteSet(A \cup {x}) /\ Cardinality(A \cup {x}) \in Nat /\ Cardinality(A) \in Nat /\ Cardinality(A \cup {x}) <= Cardinality(A) + 1
    <2>1. IsFiniteSet(A \cup {x}) /\ Cardinality(A \cup {x}) = IF x \in A THEN Cardinality(A) ELSE Cardinality(A) + 1
      BY FS_AddElement
    <2>2. Cardinality(A) \in Nat
      BY FS_CardinalityType
    <2> QED
      BY <2>1, <2>2
  <1>2. IsFiniteSet(B) /\ Cardinality(B) \in Nat /\ Cardinality(B) <= Cardinality(A \cup {x})
    BY <1>1, Fewer
  <1> QED
    BY <1>1, <1>2

LEMMA OneLess ==
    ASSUME NEW A, IsFiniteSet(A), NEW x \in A, NEW B, B \subseteq A \ {x}
    PROVE  IsFiniteSet(B) /\ Cardinality(B) \in Nat /\ Cardinality(A) \in Nat /\ Cardinality(B) + 1 <= Cardinality(A)
  <1>1. IsFiniteSet(A \ {x}) /\ Cardinality(A \ {x}) = Cardinality(A) - 1 /\ Cardinality(A) \in Nat
    BY FS_RemoveElement, FS_CardinalityType
  <1>2. IsFiniteSet(B) /\ Cardinality(B) \in Nat /\ Cardinality(B) <= Cardinality(A \ {x})
    BY <1>1, Fewer
  <1> QED
    BY <1>1, <1>2

LEMMA BalanceKept ==
    ASSUME Balance, \A f : Credits(queue', f) = Credits(queue, f), left' = left, kept' = kept
    PROVE  Balance'
  BY DEF Balance

\* The load of the step leaves the tile of the loop, and travels with its only job.
LEMMA LoadKept ==
    ASSUME TypeInv, AllApart, Balance, NEW u \in Unit, NEW r \in Steps, Apply(u, r, inbox), NEW j \in TaskJobs,
           r.out = <<j>>, NEW f0 \in Forest, j.load = [tile |-> f0, rev |-> ram[u].task.rev], ram[u].task.rev # 0,
           r.u.task.rev \in {0, Fresh}, left[f0] > 0, r.left = [left EXCEPT ![f0] = @ - 1]
    PROVE  AllApart' /\ Balance'
  <1>0. inbox \in Seq(Sent) /\ Len(inbox) <= InboxSize
    BY DEF TypeInv, InboxType
  <1>1. /\ TypeInv' /\ Submitted(u, r.out, inbox) /\ ram' = [ram EXCEPT ![u] = r.u] /\ row' = row /\ left' = r.left /\ kept' = kept
    BY <1>0, AppliedTypes
  <1>2. queue \in [Unit -> Seq(Item)] /\ queue' \in [Unit -> Seq(Item)]
    BY <1>1 DEF TypeInv, QueueType
  <1>3. PICK item : item = [job |-> j, done |-> FALSE]
    OBVIOUS
  <1>4. item \in Item /\ ~item.done /\ item.job.load.rev = ram[u].task.rev /\ item.job.load.tile = f0
    BY <1>3 DEF Item, Job
  <1>5. PICK out : out = r.out
    OBVIOUS
  <1>6. /\ \A v \in Unit : v # u => queue'[v] = queue[v]
        /\ Len(queue'[u]) = Len(queue[u]) + Accepted(u, out) /\ Accepted(u, out) \in 0..Len(out)
        /\ \A i \in 1..Len(queue[u]) : queue'[u][i] = queue[u][i]
        /\ \A i \in (Len(queue[u]) + 1)..Len(queue'[u]) :
             i - Len(queue[u]) \in 1..Len(out) /\ queue'[u][i] = [job |-> out[i - Len(queue[u])], done |-> FALSE]
    BY <1>1, <1>5 DEF Submitted
  <1>7. Len(out) = 1 /\ out[1] = j
    BY <1>5
  <1>8. \A v \in Unit : ram'[v] = IF v = u THEN r.u ELSE ram[v]
    BY <1>1 DEF TypeInv, RamType
  <1>9. PICK c : c = <<u, ram[u].task.rev>>
    OBVIOUS
  <1>10. ASSUME NEW v \in Unit
         PROVE  /\ Apart(queue'[v], ram'[v].task.rev, row'[v].task)
                /\ \A f : Credit(queue'[v], v, f) \subseteq Credit(queue[v], v, f) \cup (IF f = f0 THEN {c} ELSE {})
    <2>1. CASE v # u
      BY <1>1, <1>6, <1>8, <2>1 DEF AllApart
    <2>2. CASE v = u
      <3>1. PICK q \in Seq(Item) : q = queue[u]
        BY <1>2
      <3>2. PICK p \in Seq(Item) : p = queue'[u]
        BY <1>2
      <3>3. PICK rev : rev = ram[u].task.rev
        OBVIOUS
      <3>4. PICK rev2 : rev2 = ram'[u].task.rev
        OBVIOUS
      <3>5. PICK task : task = row[u].task
        OBVIOUS
      <3>6. Apart(q, rev, task)
        BY <3>1, <3>3, <3>5 DEF AllApart
      <3>7. Len(q) \in Nat /\ Len(p) \in Nat
        OBVIOUS
      <3>8. Begins(q, p)
        BY <1>6, <1>7, <3>1, <3>2, <3>7 DEF Begins
      <3>9. \A i \in (Len(q) + 1)..Len(p) : i = Len(q) + 1 /\ p[i] = item
        <4> SUFFICES ASSUME NEW i \in (Len(q) + 1)..Len(p) PROVE i = Len(q) + 1 /\ p[i] = item
          OBVIOUS
        <4>1. i - Len(q) \in 1..Len(out) /\ p[i] = [job |-> out[i - Len(q)], done |-> FALSE]
          BY <1>6, <3>1, <3>2
        <4>2. i - Len(q) = 1
          BY <1>7, <3>7, <4>1
        <4>3. i = Len(q) + 1
          BY <3>7, <4>2
        <4> QED
          BY <1>3, <1>7, <4>1, <4>2, <4>3
      <3>10. \A i \in Nat : CutIn(q, i) => RevIn(q, i) \in Nat \ {0} /\ RevIn(q, i) # Fresh
        BY <3>1, LoadRev
      <3>11. rev2 \in {0, Fresh} /\ rev # 0 /\ rev # Fresh
        BY <1>8, <3>3, <3>4, FreshId
      <3>12. \A i \in Nat : CutIn(q, i) => RevIn(q, i) # rev2
        BY <3>10, <3>11
      <3>13. item.job.load.rev = rev /\ rev # rev2 /\ ~item.done
        BY <1>4, <3>3, <3>11
      <3>14. /\ Apart(p, rev2, task)
             /\ \A w, f : Credit(p, w, f) \subseteq Credit(q, w, f) \cup (IF f = item.job.load.tile THEN {<<w, rev>>} ELSE {})
        <4>1. q \in Seq(Item) /\ p \in Seq(Item) /\ item \in Item
          BY <1>4
        <4>2. item.job.load.rev = rev
          BY <3>13
        <4>3. rev # rev2
          BY <3>13
        <4>4. ~item.done
          BY <3>13
        <4> QED
          BY ONLY <3>6, <3>8, <3>9, <3>12, <4>1, <4>2, <4>3, <4>4, ApartWithLoad
      <3>15. \A f : Credit(p, u, f) \subseteq Credit(q, u, f) \cup (IF f = f0 THEN {c} ELSE {})
        BY <1>4, <1>9, <3>3, <3>14
      <3> QED
        BY <1>1, <2>2, <3>1, <3>2, <3>4, <3>5, <3>14, <3>15
    <2> QED
      BY <2>1, <2>2
  <1>11. AllApart'
    BY <1>10 DEF AllApart
  <1>12. \A f : Credits(queue', f) \subseteq Credits(queue, f) \cup (IF f = f0 THEN {c} ELSE {})
    <2> SUFFICES ASSUME NEW f, NEW x \in Credits(queue', f) PROVE x \in Credits(queue, f) \cup (IF f = f0 THEN {c} ELSE {})
      OBVIOUS
    <2>1. PICK v \in Unit : x \in Credit(queue'[v], v, f)
      BY DEF Credits
    <2>2. x \in Credit(queue[v], v, f) \cup (IF f = f0 THEN {c} ELSE {})
      BY <1>10, <2>1
    <2> QED
      BY <2>2 DEF Credits
  <1>13. left \in [Forest -> 0..Loads] /\ kept \in [Forest -> 0..Loads] /\ Loads \in Nat
    BY ConstantsAssumption DEF TypeInv, RamType, RowType
  <1>14. ASSUME NEW f \in Forest
         PROVE  IsFiniteSet(Credits(queue', f)) /\ Cardinality(Credits(queue', f)) + left'[f] <= kept'[f]
    <2>1. PICK A : A = Credits(queue, f)
      OBVIOUS
    <2>2. PICK B : B = Credits(queue', f)
      OBVIOUS
    <2>3. IsFiniteSet(A) /\ Cardinality(A) + left[f] <= kept[f]
      BY <2>1 DEF Balance
    <2>4. left[f] \in Nat /\ kept[f] \in Nat
      BY <1>13
    <2>5. CASE f = f0
      <3>1. B \subseteq A \cup {c}
        BY <1>12, <2>1, <2>2, <2>5
      <3>2. IsFiniteSet(B) /\ Cardinality(B) \in Nat /\ Cardinality(A) \in Nat /\ Cardinality(B) <= Cardinality(A) + 1
        BY <2>3, <3>1, OneMore
      <3>3. left'[f] = left[f] - 1 /\ kept'[f] = kept[f]
        BY <1>1, <1>13, <2>5
      <3> QED
        BY <2>2, <2>3, <2>4, <3>2, <3>3
    <2>6. CASE f # f0
      <3>1. B \subseteq A
        BY <1>12, <2>1, <2>2, <2>6
      <3>2. IsFiniteSet(B) /\ Cardinality(B) \in Nat /\ Cardinality(A) \in Nat /\ Cardinality(B) <= Cardinality(A)
        BY <2>3, <3>1, Fewer
      <3>3. left'[f] = left[f] /\ kept'[f] = kept[f]
        BY <1>1, <1>13, <2>6
      <3> QED
        BY <2>2, <2>3, <2>4, <3>2, <3>3
    <2> QED
      BY <2>5, <2>6
  <1> QED
    BY <1>11, <1>14 DEF Balance

LEMMA StepPlain ==
    ASSUME TypeInv, NEW u \in Unit
    PROVE  /\ Plain(Step(u)) /\ Step(u).u = ram[u] /\ Step(u).left = left /\ Step(u).n = Fresh
           /\ Step(u).load = NoLoad /\ Step(u).out = <<>>
  <1>1. ram[u] \in Memory /\ left \in [Forest -> 0..Loads]
    BY DEF TypeInv, RamType
  <1>2. Fresh \in Nat \ {0}
    BY FreshId
  <1>3. NoLoad \in Load
    BY DEF NoLoad, Load
  <1>4. <<>> \in Seq(Job) /\ <<>> \in Seq(PlainJobs)
    OBVIOUS
  <1> QED
    BY <1>1, <1>2, <1>3, <1>4 DEF Step, Plain, Steps

\* A step without load and without entry keeps the invariant, when its unit tells one
\* story and the inbox left to it tells of the entry of the unit.
LEMMA PlainKept ==
    ASSUME Inv, NEW u \in Unit, NEW r, Plain(r), Story(r.u), r.left = left, r.u.task.rev \in {0, Fresh, ram[u].task.rev},
           NEW box \in Seq(Sent), Len(box) <= InboxSize, Apply(u, r, box),
           \A v \in Unit : Entry(queue[v], box, v, IF v = u THEN r.u.entering ELSE ram[v].entering, lost)
    PROVE  Inv'
  <1>1. TypeInv /\ Stories /\ RowStories /\ AllApart /\ Balance
    BY DEF Inv
  <1>2. r \in Steps /\ r.out \in Seq(PlainJobs)
    BY DEF Plain
  <1>3. /\ TypeInv' /\ ram' = [ram EXCEPT ![u] = r.u] /\ left' = left /\ row' = row /\ kept' = kept
    BY <1>1, <1>2, AppliedTypes
  <1>4. \A n \in 1..Len(r.out) : r.out[n].k # "Enter" /\ (r.out[n].k = "Task" => r.out[n].load = NoLoad)
    <2>1. \A n \in 1..Len(r.out) : r.out[n] \in PlainJobs
      BY <1>2
    <2> QED
      BY <2>1 DEF PlainJobs
  <1>5. Entries'
    BY <1>1, <1>2, <1>4, EntriesKept
  <1>6. AllApart' /\ \A f : Credits(queue', f) = Credits(queue, f)
    BY <1>1, <1>2, <1>4, ApartKept
  <1>7. Balance'
    BY <1>1, <1>3, <1>6, BalanceKept
  <1>8. PICK m : m = r.u
    OBVIOUS
  <1>9. Stories'
    BY <1>1, <1>3, <1>8, StoriesKept
  <1>10. RowStories'
    BY <1>1, <1>3 DEF RowStories
  <1> QED
    BY <1>3, <1>5, <1>6, <1>7, <1>9, <1>10 DEF Inv

\* The same, when the inbox and the entry are left alone.
LEMMA MovedKept ==
    ASSUME Inv, NEW u \in Unit, NEW r, Plain(r), Story(r.u), r.left = left, r.u.task.rev \in {0, Fresh, ram[u].task.rev},
           r.u.entering = ram[u].entering, Apply(u, r, inbox)
    PROVE  Inv'
  <1>1. inbox \in Seq(Sent) /\ Len(inbox) <= InboxSize
    BY DEF Inv, TypeInv, InboxType
  <1>2. \A v \in Unit : Entry(queue[v], inbox, v, IF v = u THEN r.u.entering ELSE ram[v].entering, lost)
    <2>1. \A v \in Unit : (IF v = u THEN r.u.entering ELSE ram[v].entering) = ram[v].entering
      OBVIOUS
    <2>2. \A v \in Unit : Entry(queue[v], inbox, v, ram[v].entering, lost)
      BY DEF Inv, Entries
    <2> QED
      BY <2>1, <2>2
  <1> QED
    BY <1>1, <1>2, PlainKept

\* A task written without a load.
LEMMA WroteKept ==
    ASSUME Inv, NEW u \in Unit, NEW s, NEW r, Wrote(s, r), Plain(s), s.load = NoLoad, s.n = Fresh, s.left = left,
           ~ram[u].entering, Apply(u, r, inbox)
    PROVE  Inv'
  <1>1. PICK j \in TaskJobs : r.out = Append(s.out, j) /\ j.load = s.load
    BY DEF Wrote
  <1>2. s.out \in Seq(PlainJobs)
    BY DEF Plain
  <1>3. j \in PlainJobs
    BY <1>1 DEF PlainJobs, Job, TaskJobs
  <1>4. r.out \in Seq(PlainJobs)
    BY <1>1, <1>2, <1>3, Appended
  <1>5. Plain(r) /\ Story(r.u) /\ r.left = left /\ r.u.task.rev \in {0, Fresh, ram[u].task.rev}
    BY <1>4 DEF Wrote, Plain
  <1>6. r.u.entering = ram[u].entering
    <2>1. r.u.entering \in BOOLEAN /\ ram[u].entering \in BOOLEAN
      BY <1>5, Steady DEF Inv, TypeInv, RamType, Memory
    <2> QED
      BY <2>1 DEF Wrote
  <1> QED
    BY <1>5, <1>6, MovedKept

\* A task written with the load cut for it.
LEMMA TookKept ==
    ASSUME Inv, NEW u \in Unit, NEW s, NEW took, NEW r, TookFrom(s, took), Wrote(took, r), s.out = <<>>, s.u = ram[u],
           s.n = Fresh, s.left = left, ram[u].task.rev # 0, ~ram[u].entering, Apply(u, r, inbox)
    PROVE  Inv'
  <1>1. PICK j \in TaskJobs : r.out = Append(took.out, j) /\ j.load = took.load
    BY DEF Wrote
  <1>2. took.out = <<>> /\ took.n = Fresh
    BY DEF TookFrom
  <1>3. r.out = <<j>>
    BY <1>1, <1>2
  <1>4. PICK f0 \in Forest : /\ f0 = ram[u].task.target /\ left[f0] > 0 /\ took.left = [left EXCEPT ![f0] = @ - 1]
                             /\ took.load = [tile |-> f0, rev |-> ram[u].task.rev]
    BY DEF TookFrom
  <1>5. r \in Steps /\ Story(r.u) /\ ~r.u.entering /\ r.u.task.rev \in {0, Fresh} /\ r.left = took.left
    BY <1>2 DEF Wrote
  <1>6. TypeInv /\ AllApart /\ Balance
    BY DEF Inv
  <1>7. inbox \in Seq(Sent) /\ Len(inbox) <= InboxSize
    BY <1>6 DEF TypeInv, InboxType
  <1>8. TypeInv' /\ ram' = [ram EXCEPT ![u] = r.u] /\ row' = row
    BY <1>5, <1>6, <1>7, AppliedTypes
  <1>9. AllApart' /\ Balance'
    <2>1. j.load = [tile |-> f0, rev |-> ram[u].task.rev] /\ r.left = [left EXCEPT ![f0] = @ - 1]
      BY <1>1, <1>4, <1>5
    <2>2. r.u.task.rev \in {0, Fresh} /\ r \in Steps /\ left[f0] > 0
      BY <1>4, <1>5
    <2> QED
      BY <1>3, <1>6, <2>1, <2>2, LoadKept
  <1>10. Entries'
    <2>1. \A i \in 1..Len(r.out) : r.out[i].k # "Enter"
      BY <1>3 DEF TaskJobs
    <2>2. \A v \in Unit : Entry(queue[v], inbox, v, IF v = u THEN r.u.entering ELSE ram[v].entering, lost)
      <3>1. r.u.entering \in BOOLEAN /\ ram[u].entering \in BOOLEAN
        BY <1>5, <1>6 DEF Steps, TypeInv, RamType, Memory
      <3>2. \A v \in Unit : (IF v = u THEN r.u.entering ELSE ram[v].entering) = ram[v].entering
        BY <1>5, <3>1
      <3>3. \A v \in Unit : Entry(queue[v], inbox, v, ram[v].entering, lost)
        BY DEF Inv, Entries
      <3> QED
        BY <3>2, <3>3
    <2> QED
      BY <1>5, <1>6, <1>7, <2>1, <2>2, EntriesKept
  <1>11. PICK m : m = r.u
    OBVIOUS
  <1>12. Stories'
    BY <1>5, <1>6, <1>8, <1>11, StoriesKept DEF Inv
  <1>13. RowStories'
    BY <1>8 DEF Inv, RowStories
  <1> QED
    BY <1>8, <1>9, <1>10, <1>12, <1>13 DEF Inv

-----------------------------------------------------------------------------
(* Orders and ticks.                                                       *)

LEMMA Begun ==
    ASSUME Inv, NEW u \in Unit
    PROVE  /\ TypeInv /\ Story(ram[u]) /\ ram[u] \in Memory /\ ram[u].at \in Tile /\ ram[u].walk \in Walk
           /\ ram[u].walk.to \in Tile /\ ram[u].walk.id \in Nat /\ ram[u].task \in Task /\ ram[u].entering \in BOOLEAN
           /\ ram[u].status \in Status /\ ram[u].inside \in City \cup {NoCity}
           /\ \A from \in Here(u) : from \in Tile
           /\ IsLeg(ram[u].task) => ram[u].walk # NoWalk
  <1>1. TypeInv /\ Story(ram[u]) /\ ram[u] \in Memory
    BY DEF Inv, Stories, TypeInv, RamType
  <1>2. ram[u].at \in Tile /\ ram[u].walk \in Walk /\ ram[u].task \in Task
    BY <1>1 DEF Memory
  <1>3. ram[u].walk.to \in Tile /\ ram[u].walk.id \in Nat
    BY <1>2 DEF Walk, WalkType
  <1>4. \A from \in Here(u) : from \in Tile
    BY <1>2, <1>3 DEF Here
  <1>5. IsLeg(ram[u].task) => LegOf(ram[u].task).id # 0
    BY <1>2 DEF LegOf, Task, IsLeg, NoTask
  <1>6. IsLeg(ram[u].task) => ram[u].walk # NoWalk
    BY <1>1, <1>5, Nothing DEF Story
  <1> QED
    BY <1>1, <1>2, <1>3, <1>4, <1>6 DEF Memory

LEMMA StopStory ==
    ASSUME NEW s, Plain(s), Story(s.u), NEW stop \in Tile
    PROVE  LET c == Cancel(StopWorking(s), stop)
           IN Moved(s, c) /\ Story(c.u)
  <1>1. PICK w : w = StopWorking(s)
    OBVIOUS
  <1>2. /\ Moved(s, w) /\ w.u.walk = s.u.walk /\ w.u.inside = s.u.inside /\ w.u.at = s.u.at
        /\ (s.u.status # "WORKING" => w = s)
        /\ (s.u.status = "WORKING" => w.u.status = "IDLE" /\ w.u.task = NoTask)
    BY <1>1, StopWorkingMoved
  <1>3. Plain(w)
    BY <1>2 DEF Moved
  <1>4. PICK c : c = Cancel(w, stop)
    OBVIOUS
  <1>5. /\ Moved(w, c) /\ c.u.walk = NoWalk /\ c.u.inside = w.u.inside
        /\ (w.u.walk = NoWalk => c = w)
        /\ (w.u.walk # NoWalk => c.u.status = "IDLE" /\ c.u.at = stop /\ c.u.task = NoTask)
    BY <1>3, <1>4, CancelMoved
  <1>6. Moved(s, c)
    BY <1>2, <1>5, MovedOn
  <1>7. Story(c.u)
    <2>1. CASE s.u.walk # NoWalk
      <3>1. s.u.status = "MOVING" /\ s.u.inside = NoCity
        BY <2>1 DEF Story
      <3>2. c.u.status = "IDLE" /\ c.u.walk = NoWalk /\ c.u.task = NoTask /\ c.u.inside = NoCity
        BY <1>2, <1>5, <2>1, <3>1
      <3> QED
        BY <3>2, Nothing DEF Story
    <2>2. CASE s.u.walk = NoWalk /\ s.u.status = "WORKING"
      <3>1. s.u.inside = NoCity
        BY <2>2 DEF Story
      <3>2. c.u.status = "IDLE" /\ c.u.walk = NoWalk /\ c.u.task = NoTask /\ c.u.inside = NoCity
        BY <1>2, <1>5, <2>2, <3>1
      <3> QED
        BY <3>2, Nothing DEF Story
    <2>3. CASE s.u.walk = NoWalk /\ s.u.status # "WORKING"
      BY <1>2, <1>5, <2>3
    <2> QED
      BY <2>1, <2>2, <2>3
  <1> QED
    BY <1>1, <1>4, <1>6, <1>7

LEMMA CancelStory ==
    ASSUME NEW s, Plain(s), Story(s.u), NEW stop \in Tile
    PROVE  LET c == Cancel(s, stop)
           IN Moved(s, c) /\ Story(c.u)
  <1>1. PICK c : c = Cancel(s, stop)
    OBVIOUS
  <1>2. /\ Moved(s, c) /\ c.u.walk = NoWalk /\ c.u.inside = s.u.inside
        /\ (s.u.walk = NoWalk => c = s)
        /\ (s.u.walk # NoWalk => c.u.status = "IDLE" /\ c.u.at = stop /\ c.u.task = NoTask)
    BY <1>1, CancelMoved
  <1>3. CASE s.u.walk # NoWalk
    <2>1. s.u.inside = NoCity
      BY <1>3 DEF Story
    <2>2. Story(c.u)
      BY <1>2, <1>3, <2>1, Nothing DEF Story
    <2> QED
      BY <1>1, <1>2, <2>2
  <1>4. CASE s.u.walk = NoWalk
    BY <1>1, <1>2, <1>4
  <1> QED
    BY <1>3, <1>4

LEMMA MoveStep ==
    ASSUME Inv, NEW u \in Unit, NEW to \in Tile, NEW from \in Tile, Move(u, to, from)
    PROVE  Inv'
  <1>1. TypeInv /\ Story(ram[u]) /\ ram[u].entering = FALSE /\ ram[u].inside = NoCity /\ ram[u].status \in Status
    BY Begun DEF Move, Free, Story
  <1>2. PICK s : s = Step(u)
    OBVIOUS
  <1>3. Plain(s) /\ s.u = ram[u] /\ s.left = left /\ s.n = Fresh
    BY <1>1, <1>2, StepPlain
  <1>4. CASE from = to
    <2>1. PICK r : r = Cancel(StopWorking(s), from)
      OBVIOUS
    <2>2. Moved(s, r) /\ Story(r.u)
      BY <1>1, <1>3, <2>1, StopStory
    <2>3. Plain(r) /\ r.left = left /\ r.u.task.rev \in {0, Fresh, ram[u].task.rev} /\ r.u.entering = ram[u].entering
      BY <1>3, <2>2 DEF Moved
    <2>4. Apply(u, r, inbox)
      BY <1>2, <1>4, <2>1 DEF Move
    <2> QED
      BY <2>2, <2>3, <2>4, MovedKept
  <1>5. CASE from # to
    <2>1. PICK r : r = BeginWalk(s, from, to)
      OBVIOUS
    <2>2. s.u.inside = NoCity /\ ~s.u.entering
      BY <1>1, <1>3
    <2>3. Plain(r) /\ r.left = s.left /\ r.u.entering = s.u.entering /\ r.u.task.rev = 0 /\ Story(r.u)
      BY <1>3, <2>1, <2>2, BeginWalkMoved
    <2>4. Apply(u, r, inbox)
      BY <1>2, <1>5, <2>1 DEF Move
    <2>5. r.left = left /\ r.u.task.rev \in {0, Fresh, ram[u].task.rev} /\ r.u.entering = ram[u].entering
      BY <1>3, <2>3
    <2> QED
      BY <2>3, <2>4, <2>5, MovedKept
  <1> QED
    BY <1>4, <1>5

LEMMA CancelMovementStep ==
    ASSUME Inv, NEW u \in Unit, NEW from \in Tile, CancelMovement(u, from)
    PROVE  Inv'
  <1>1. TypeInv /\ Story(ram[u])
    BY Begun
  <1>2. PICK s : s = Step(u)
    OBVIOUS
  <1>3. Plain(s) /\ s.u = ram[u] /\ s.left = left /\ s.n = Fresh
    BY <1>1, <1>2, StepPlain
  <1>4. PICK r : r = Cancel(StopWorking(s), from)
    OBVIOUS
  <1>5. Moved(s, r) /\ Story(r.u)
    BY <1>1, <1>3, <1>4, StopStory
  <1>6. Plain(r) /\ r.left = left /\ r.u.task.rev \in {0, Fresh, ram[u].task.rev} /\ r.u.entering = ram[u].entering
    BY <1>3, <1>5 DEF Moved
  <1>7. Apply(u, r, inbox)
    BY <1>2, <1>4 DEF CancelMovement
  <1> QED
    BY <1>5, <1>6, <1>7, MovedKept

LEMMA GatherStep ==
    ASSUME Inv, NEW u \in Unit, NEW f \in Forest, NEW from \in Tile, Gather(u, f, from)
    PROVE  Inv'
  <1>1. TypeInv /\ Story(ram[u]) /\ ram[u].entering = FALSE /\ ram[u].inside = NoCity /\ ram[u].status \in Status
    BY Begun DEF Gather, Free, Story
  <1>2. PICK s : s = Step(u)
    OBVIOUS
  <1>3. Plain(s) /\ s.u = ram[u] /\ s.left = left /\ s.n = Fresh /\ s.load = NoLoad
    BY <1>1, <1>2, StepPlain
  <1>4. PICK d : d = DropTask(s)
    OBVIOUS
  <1>5. Moved(s, d) /\ d.u.walk = s.u.walk /\ d.u.inside = s.u.inside /\ d.u.at = s.u.at
    BY <1>3, <1>4, DropTaskMoved
  <1>6. Plain(d)
    BY <1>5 DEF Moved
  <1>7. PICK c : c = Cancel(d, from)
    OBVIOUS
  <1>8. /\ Moved(d, c) /\ c.u.walk = NoWalk /\ c.u.inside = d.u.inside
        /\ (d.u.walk = NoWalk => c = d)
        /\ (d.u.walk # NoWalk => c.u.status = "IDLE" /\ c.u.at = from /\ c.u.task = NoTask)
    BY <1>6, <1>7, CancelMoved
  <1>9. Moved(s, c)
    BY <1>5, <1>8, MovedOn
  <1>10. Plain(c) /\ c.u.inside = NoCity /\ c.u.entering = FALSE /\ c.load = NoLoad /\ c.n = Fresh /\ c.left = left
    BY <1>1, <1>3, <1>5, <1>8, <1>9 DEF Moved
  <1>11. Ready(c)
    BY <1>8, <1>10 DEF Ready, Plain
  <1>12. c.u.at = from
    <2>1. ram[u].walk = NoWalk => from = ram[u].at
      BY DEF Gather, Here
    <2> QED
      BY <1>3, <1>5, <1>8, <2>1
  <1>13. PICK t : t = [phase |-> "TO_RESOURCE", carry |-> 0, target |-> f, rev |-> 0]
    OBVIOUS
  <1>14. t \in Draft /\ IsLeg(t) /\ LegOf(t).to = f /\ t.target = f
    BY <1>13 DEF Draft, TaskType, IsLeg, LegOf
  <1>15. CASE from = f
    <2>1. PICK r : r = Work(c, t, 0)
      OBVIOUS
    <2>2. Wrote(c, r)
      BY <1>11, <1>12, <1>14, <1>15, <2>1, WorkWrote
    <2>3. Apply(u, r, inbox)
      BY <1>2, <1>4, <1>7, <1>13, <1>15, <2>1 DEF Gather
    <2> QED
      BY <1>1, <1>10, <2>2, <2>3, WroteKept
  <1>16. CASE from # f
    <2>1. PICK r : r = StartLeg(c, t, f, 0)
      OBVIOUS
    <2>2. Wrote(c, r)
      BY <1>11, <1>14, <2>1, StartLegWrote
    <2>3. Apply(u, r, inbox)
      BY <1>2, <1>4, <1>7, <1>13, <1>16, <2>1 DEF Gather
    <2> QED
      BY <1>1, <1>10, <2>2, <2>3, WroteKept
  <1> QED
    BY <1>15, <1>16

LEMMA ArriveStep ==
    ASSUME Inv, NEW u \in Unit, NEW a \in Answer, Arrive(u, a)
    PROVE  Inv'
  <1>1. TypeInv /\ Story(ram[u]) /\ ram[u] \in Memory /\ ram[u].walk # NoWalk /\ ram[u].walk.to \in Tile /\ ram[u].walk.id \in Nat
    BY Begun DEF Arrive
  <1>2. ram[u].inside = NoCity /\ ram[u].entering = FALSE /\ ram[u].status = "MOVING"
    BY <1>1, Begun DEF Story
  <1>3. PICK w : w = ram[u].walk
    OBVIOUS
  <1>4. PICK s0 : s0 = Step(u)
    OBVIOUS
  <1>5. Plain(s0) /\ s0.u = ram[u] /\ s0.left = left /\ s0.n = Fresh /\ s0.load = NoLoad /\ s0.out = <<>>
    BY <1>1, <1>4, StepPlain
  <1>6. PICK m : m = [s0.u EXCEPT !.walk = NoWalk, !.at = w.to]
    OBVIOUS
  <1>7. /\ m \in Memory /\ m.walk = NoWalk /\ m.at = w.to /\ m.task = ram[u].task /\ m.inside = NoCity /\ m.entering = FALSE
    BY <1>1, <1>2, <1>3, <1>5, <1>6, Nothing DEF Memory
  <1>8. PICK s : s = [s0 EXCEPT !.u.walk = NoWalk, !.u.at = w.to]
    OBVIOUS
  <1>9. s = [u |-> m, left |-> s0.left, n |-> s0.n, load |-> s0.load, out |-> s0.out]
    BY <1>5, <1>6, <1>8 DEF Plain, Steps
  <1>10. m.entering = s0.u.entering /\ m.task.rev \in {0, s0.u.task.rev}
    BY <1>2, <1>5, <1>7
  <1>11. Moved(s0, s) /\ s.u = m
    BY <1>5, <1>7, <1>9, <1>10, Remembered
  <1>12. Plain(s) /\ s.left = left /\ s.n = Fresh /\ s.load = NoLoad
    BY <1>5, <1>11 DEF Moved
  <1>13. CASE IsLeg(m.task)
    <2>1. PICK r : r = OnLegArrived(s, w.id, a)
      OBVIOUS
    <2>2. Ready(s)
      BY <1>7, <1>11, <1>12 DEF Ready, Plain
    <2>3. s.u.task.phase \in {"TO_RESOURCE", "TO_DEPOSIT"} /\ w.id \in Nat
      BY <1>1, <1>3, <1>11, <1>13 DEF IsLeg
    <2>4. Wrote(s, r)
      BY <2>1, <2>2, <2>3, OnLegArrivedWrote
    <2>5. Apply(u, r, inbox)
      BY <1>3, <1>4, <1>8, <1>11, <1>13, <2>1 DEF Arrive
    <2> QED
      BY <1>2, <1>12, <2>4, <2>5, WroteKept
  <1>14. CASE ~IsLeg(m.task)
    <2>1. PICK p : p = [m EXCEPT !.status = "IDLE", !.dirty = TRUE]
      OBVIOUS
    <2>2. /\ p \in Memory /\ p.walk = NoWalk /\ p.status = "IDLE" /\ p.task = m.task /\ p.inside = NoCity /\ p.entering = FALSE
      BY <1>7, <2>1 DEF Memory, Status
    <2>3. Story(p)
      BY <1>14, <2>2 DEF Story
    <2>4. PICK j : j = FinishJob(w.id, TRUE, w.to)
      OBVIOUS
    <2>5. j \in PlainJobs
      BY <1>1, <1>3, <2>4, PlainJob
    <2>6. PICK out : out = Append(s.out, j)
      OBVIOUS
    <2>7. PICK r : r = [u |-> p, left |-> s.left, n |-> s.n, load |-> s.load, out |-> out]
      OBVIOUS
    <2>8. p.entering = s.u.entering /\ p.task.rev \in {0, s.u.task.rev}
      BY <1>7, <1>11, <2>2
    <2>9. Moved(s, r) /\ r.u = p
      BY <1>12, <2>2, <2>5, <2>6, <2>7, <2>8, Rewritten
    <2>10. Apply(u, r, inbox)
      <3>1. PICK x : x = [s EXCEPT !.u.status = "IDLE", !.u.dirty = TRUE, !.out = Append(@, FinishJob(w.id, TRUE, w.to))]
        OBVIOUS
      <3>2. x = [s EXCEPT !.u = p, !.out = out]
        BY <1>11, <2>1, <2>4, <2>6, <3>1
      <3>3. x = [u |-> p, left |-> s.left, n |-> s.n, load |-> s.load, out |-> out]
        BY <1>12, <3>2 DEF Plain, Steps
      <3>4. Apply(u, x, inbox)
        BY <1>3, <1>4, <1>8, <1>11, <1>14, <3>1 DEF Arrive
      <3> QED
        BY <2>7, <3>3, <3>4
    <2>11. Plain(r) /\ r.left = left /\ r.u.entering = ram[u].entering /\ r.u.task.rev \in {0, Fresh, ram[u].task.rev}
      BY <1>2, <1>7, <1>11, <1>12, <2>2, <2>9 DEF Moved
    <2> QED
      BY <2>3, <2>9, <2>10, <2>11, MovedKept
  <1> QED
    BY <1>13, <1>14

LEMMA AdvanceTaskStep ==
    ASSUME Inv, NEW u \in Unit, NEW a \in Answer, AdvanceTask(u, a)
    PROVE  Inv'
  <1>1. TypeInv /\ Story(ram[u]) /\ ram[u].task \in Task /\ ram[u].task.phase = "WORKING" /\ ~IsLeg(ram[u].task)
    BY Begun DEF AdvanceTask, IsLeg
  <1>2. PICK s : s = Step(u)
    OBVIOUS
  <1>3. Plain(s) /\ s.u = ram[u] /\ s.left = left /\ s.n = Fresh /\ s.load = NoLoad /\ s.out = <<>>
    BY <1>1, <1>2, StepPlain
  <1>4. ram[u].task.rev # 0 /\ ram[u].task.rev # Fresh
    BY <1>1, FreshId DEF Task, NoTask
  <1>5. CASE ram[u].status = "WORKING"
    <2>1. PICK r : r = LeaveResource(s, a)
      OBVIOUS
    <2>2. ram[u].walk = NoWalk /\ ram[u].inside = NoCity /\ ~ram[u].entering
      BY <1>1, <1>5 DEF Story
    <2>3. Ready(s)
      BY <1>3, <2>2 DEF Ready, Plain
    <2>4. s.u.task.phase = "WORKING" /\ s.u.task.rev # s.n
      BY <1>1, <1>3, <1>4
    <2>5. Wrote(s, r) \/ \E took : TookFrom(s, took) /\ Wrote(took, r)
      BY <2>1, <2>3, <2>4, LeaveResourceWrote
    <2>6. Apply(u, r, inbox)
      BY <1>2, <1>5, <2>1 DEF AdvanceTask
    <2>7. CASE Wrote(s, r)
      BY <1>3, <2>2, <2>6, <2>7, WroteKept
    <2>8. CASE \E took : TookFrom(s, took) /\ Wrote(took, r)
      <3>1. PICK took : TookFrom(s, took) /\ Wrote(took, r)
        BY <2>8
      <3> QED
        BY <1>3, <1>4, <2>2, <2>6, <3>1, TookKept
    <2> QED
      BY <2>5, <2>7, <2>8
  <1>6. CASE ram[u].status # "WORKING"
    <2>1. PICK r : r = DropTask(s)
      OBVIOUS
    <2>2. /\ Moved(s, r) /\ r.u.walk = s.u.walk /\ r.u.inside = s.u.inside /\ r.u.status = s.u.status /\ r.u.task = NoTask
      BY <1>3, <2>1, DropTaskMoved
    <2>3. Story(r.u)
      BY <1>1, <1>3, <1>6, <2>2, Nothing DEF Story, Moved
    <2>4. Apply(u, r, inbox)
      BY <1>2, <1>6, <2>1 DEF AdvanceTask
    <2>5. Plain(r) /\ r.left = left /\ r.u.entering = ram[u].entering /\ r.u.task.rev \in {0, Fresh, ram[u].task.rev}
      BY <1>3, <2>2 DEF Moved
    <2> QED
      BY <2>3, <2>4, <2>5, MovedKept
  <1> QED
    BY <1>5, <1>6

LEMMA MarkMoved ==
    ASSUME NEW s, Plain(s), Story(s.u), NEW b \in BOOLEAN, NEW r, r = [s EXCEPT !.u.exiting = b]
    PROVE  Moved(s, r) /\ Story(r.u) /\ r.u.status = s.u.status
  <1>1. PICK m : m = [s.u EXCEPT !.exiting = b]
    OBVIOUS
  <1>2. s.u \in Memory
    BY Steady
  <1>3. /\ m \in Memory /\ m.status = s.u.status /\ m.at = s.u.at /\ m.walk = s.u.walk /\ m.task = s.u.task
        /\ m.inside = s.u.inside /\ m.entering = s.u.entering
    BY <1>1, <1>2 DEF Memory
  <1>4. Story(m)
    BY <1>3, Retold
  <1>5. r = [u |-> m, left |-> s.left, n |-> s.n, load |-> s.load, out |-> s.out]
    BY <1>1 DEF Plain, Steps
  <1>6. m \in Memory /\ m.entering = s.u.entering /\ m.task.rev \in {0, s.u.task.rev}
    BY <1>3
  <1>7. Moved(s, r) /\ r.u = m
    <2>1. Plain(s)
      OBVIOUS
    <2> QED
      BY ONLY <1>5, <1>6, <2>1, Remembered
  <1> QED
    BY <1>3, <1>4, <1>7

\* The exit of a unit, now or when a tile is free.
LEMMA ExitKept ==
    ASSUME Inv, NEW u \in Unit, NEW free, ram[u].status = "GARRISONED",
           Apply(u, IF free THEN Exit(Step(u)) ELSE [Step(u) EXCEPT !.u.exiting = TRUE], inbox)
    PROVE  Inv'
  <1>1. TypeInv /\ Story(ram[u])
    BY Begun
  <1>2. PICK s : s = Step(u)
    OBVIOUS
  <1>3. Plain(s) /\ s.u = ram[u] /\ s.left = left /\ s.n = Fresh
    BY <1>1, <1>2, StepPlain
  <1>4. PICK r : r = IF free THEN Exit(s) ELSE [s EXCEPT !.u.exiting = TRUE]
    OBVIOUS
  <1>5. Moved(s, r) /\ Story(r.u)
    <2>1. Moved(s, Exit(s)) /\ Story(Exit(s).u)
      BY <1>1, <1>3, ExitMoved
    <2>2. PICK x : x = [s EXCEPT !.u.exiting = TRUE]
      OBVIOUS
    <2>3. Moved(s, x) /\ Story(x.u)
      BY <1>1, <1>3, <2>2, MarkMoved
    <2> QED
      BY <1>4, <2>1, <2>2, <2>3
  <1>6. Plain(r) /\ r.left = left /\ r.u.task.rev \in {0, Fresh, ram[u].task.rev} /\ r.u.entering = ram[u].entering
    BY <1>3, <1>5 DEF Moved
  <1>7. Apply(u, r, inbox)
    BY <1>2, <1>4
  <1> QED
    BY <1>5, <1>6, <1>7, MovedKept

LEMMA RetryPendingExitStep ==
    ASSUME Inv, NEW u \in Unit, RetryPendingExit(u)
    PROVE  Inv'
  <1>1. TypeInv /\ Story(ram[u])
    BY Begun
  <1>2. PICK s0 : s0 = Step(u)
    OBVIOUS
  <1>3. Plain(s0) /\ s0.u = ram[u] /\ s0.left = left /\ s0.n = Fresh
    BY <1>1, <1>2, StepPlain
  <1>4. PICK s : s = [s0 EXCEPT !.u.exiting = FALSE]
    OBVIOUS
  <1>5. Moved(s0, s) /\ Story(s.u) /\ s.u.status = ram[u].status
    BY <1>1, <1>3, <1>4, MarkMoved
  <1>6. Plain(s)
    BY <1>5 DEF Moved
  <1>7. PICK r : r = IF ram[u].status = "GARRISONED" THEN Exit(s) ELSE s
    OBVIOUS
  <1>8. Moved(s0, r) /\ Story(r.u)
    <2>1. CASE ram[u].status = "GARRISONED"
      <3>1. Moved(s, Exit(s)) /\ Story(Exit(s).u)
        BY <1>5, <1>6, <2>1, ExitMoved
      <3>2. Moved(s, r) /\ Story(r.u)
        BY <1>7, <2>1, <3>1
      <3> QED
        BY <1>5, <3>2, MovedOn
    <2>2. CASE ram[u].status # "GARRISONED"
      BY <1>5, <1>7, <2>2
    <2> QED
      BY <2>1, <2>2
  <1>9. Plain(r) /\ r.left = left /\ r.u.task.rev \in {0, Fresh, ram[u].task.rev} /\ r.u.entering = ram[u].entering
    BY <1>3, <1>8 DEF Moved
  <1>10. Apply(u, r, inbox)
    BY <1>2, <1>4, <1>7 DEF RetryPendingExit
  <1> QED
    BY <1>8, <1>9, <1>10, MovedKept

LEMMA FlushDirtyStep ==
    ASSUME Inv, NEW u \in Unit, FlushDirty(u)
    PROVE  Inv'
  <1>1. TypeInv /\ Story(ram[u])
    BY Begun
  <1>2. PICK s : s = Step(u)
    OBVIOUS
  <1>3. Plain(s) /\ s.u = ram[u] /\ s.left = left /\ s.n = Fresh
    BY <1>1, <1>2, StepPlain
  <1>4. PICK r : r = FlushUnit(s)
    OBVIOUS
  <1>5. Moved(s, r) /\ Story(r.u)
    BY <1>1, <1>3, <1>4, FlushMoved
  <1>6. Plain(r) /\ r.left = left /\ r.u.task.rev \in {0, Fresh, ram[u].task.rev} /\ r.u.entering = ram[u].entering
    BY <1>3, <1>5 DEF Moved
  <1>7. Apply(u, r, inbox)
    BY <1>2, <1>4 DEF FlushDirty
  <1> QED
    BY <1>5, <1>6, <1>7, MovedKept

LEMMA EntryBegins ==
    ASSUME NEW q \in Seq(Item), NEW p \in Seq(Item), NEW box \in Seq(Sent), NEW box2 \in Seq(Sent), NEW u, NEW l2,
           \A i \in Nat : ~EnterIn(q, i) /\ ~AnswerIn(box, u, i), Begins(q, p), Begins(box, box2),
           \/ Len(p) = Len(q) + 1 /\ Len(box2) = Len(box) /\ p[Len(q) + 1].job.k = "Enter"
           \/ Len(p) = Len(q) /\ Len(box2) = Len(box) + 1 /\ box2[Len(box) + 1].k = "Entered" /\ box2[Len(box) + 1].u = u
           \/ Len(p) = Len(q) /\ Len(box2) = Len(box) /\ l2
    PROVE  Entry(p, box2, u, TRUE, l2)
  <1>1. PICK a \in Nat : a = Len(q) /\ DOMAIN q = 1..a
    OBVIOUS
  <1>2. PICK b \in Nat : b = Len(box) /\ DOMAIN box = 1..b
    OBVIOUS
  <1>3. PICK c \in Nat : c = Len(p) /\ DOMAIN p = 1..c
    OBVIOUS
  <1>4. PICK d \in Nat : d = Len(box2) /\ DOMAIN box2 = 1..d
    OBVIOUS
  <1>5. \/ c = a + 1 /\ d = b /\ p[a + 1].job.k = "Enter"
        \/ c = a /\ d = b + 1 /\ box2[b + 1].k = "Entered" /\ box2[b + 1].u = u
        \/ c = a /\ d = b /\ l2
    BY <1>1, <1>2, <1>3, <1>4, Zenon
  <1>6. /\ \A i \in 1..a : p[i] = q[i]
        /\ \A i \in 1..b : box2[i] = box[i]
    BY <1>1, <1>2, Zenon DEF Begins
  <1>7. /\ \A i \in 1..a : q[i].job.k # "Enter"
        /\ \A i \in 1..b : ~(box[i].u = u /\ box[i].k = "Entered")
    <2>1. (\A i \in 1..a : i \in Nat) /\ \A i \in 1..b : i \in Nat
      BY ONLY a \in Nat, b \in Nat
    <2> QED
      BY <1>1, <1>2, <2>1, Zenon DEF EnterIn, AnswerIn
  <1>8. (c = a + 1 \/ c = a) /\ (d = b + 1 \/ d = b)
    BY <1>5, Zenon
  <1>9. \A i \in Nat : EnterIn(p, i) => i = a + 1 /\ c = a + 1
    <2> SUFFICES ASSUME NEW i \in Nat, i \in 1..c, p[i].job.k = "Enter" PROVE i = a + 1 /\ c = a + 1
      BY <1>3, Zenon DEF EnterIn
    <2>1. i \notin 1..a
      BY <1>6, <1>7, Zenon
    <2> QED
      BY ONLY <1>8, <2>1, i \in 1..c, a \in Nat, c \in Nat, i \in Nat
  <1>10. \A i \in Nat : AnswerIn(box2, u, i) => i = b + 1 /\ d = b + 1
    <2> SUFFICES ASSUME NEW i \in Nat, i \in 1..d, box2[i].k = "Entered", box2[i].u = u PROVE i = b + 1 /\ d = b + 1
      BY <1>4, Zenon DEF AnswerIn
    <2>1. i \notin 1..b
      BY <1>6, <1>7, Zenon
    <2> QED
      BY ONLY <1>8, <2>1, i \in 1..d, b \in Nat, d \in Nat, i \in Nat
  <1>11. /\ a + 1 \in Nat /\ b + 1 \in Nat /\ a + 1 # a /\ b + 1 # b
         /\ (c = a + 1 => a + 1 \in 1..c) /\ (d = b + 1 => b + 1 \in 1..d)
    BY ONLY a \in Nat, b \in Nat
  <1>12. \/ EnterIn(p, a + 1) /\ d = b
         \/ AnswerIn(box2, u, b + 1) /\ c = a
         \/ c = a /\ d = b /\ l2
    BY <1>3, <1>4, <1>5, <1>11, Zenon DEF EnterIn, AnswerIn
  <1>13. \/ \E i \in Nat : EnterIn(p, i) \/ AnswerIn(box2, u, i)
         \/ l2
    BY <1>11, <1>12, Zenon
  <1>14. \A i, j \in Nat : ~(EnterIn(p, i) /\ AnswerIn(box2, u, j))
    <2>1. ~(c = a + 1 /\ d = b + 1)
      BY <1>5, <1>11, Zenon
    <2> QED
      BY <1>9, <1>10, <2>1, Zenon
  <1>15. /\ \A i, j \in Nat : EnterIn(p, i) /\ EnterIn(p, j) => i = j
         /\ \A i, j \in Nat : AnswerIn(box2, u, i) /\ AnswerIn(box2, u, j) => i = j
    BY <1>9, <1>10, Zenon
  <1> QED
    BY <1>13, <1>14, <1>15, Zenon DEF Entry

LEMMA GarrisonUnitStep ==
    ASSUME Inv, NEW u \in Unit, NEW c \in City, GarrisonUnit(u, c)
    PROVE  Inv'
  <1>1. TypeInv /\ Story(ram[u]) /\ ram[u].entering = FALSE /\ ram[u].status = "IDLE" /\ ram[u] \in Memory
    BY Begun DEF GarrisonUnit
  <1>2. PICK s : s = Step(u)
    OBVIOUS
  <1>3. Plain(s) /\ s.u = ram[u] /\ s.left = left /\ s.n = Fresh /\ s.load = NoLoad
    BY <1>1, <1>2, StepPlain
  <1>4. PICK j : j = EnterJob(c)
    OBVIOUS
  <1>5. j \in Job /\ j.k = "Enter" /\ FailureOf(u, j).k = "Entered" /\ FailureOf(u, j).u = u
    <2>1. j \in EnterJobs
      BY <1>4 DEF EnterJob, EnterJobs
    <2>2. j \in Job /\ j.k = "Enter"
      BY <2>1 DEF EnterJobs, Job
    <2> QED
      BY <2>2, FailureTyped
  <1>6. PICK m : m = [s.u EXCEPT !.entering = TRUE]
    OBVIOUS
  <1>7. /\ m \in Memory /\ m.status = "IDLE" /\ m.walk = ram[u].walk /\ m.at = ram[u].at /\ m.task = ram[u].task
        /\ m.inside = ram[u].inside /\ m.entering = TRUE
    BY <1>1, <1>3, <1>6 DEF Memory
  <1>8. Story(m)
    BY <1>1, <1>7 DEF Story
  <1>9. PICK r : r = [s EXCEPT !.u.entering = TRUE, !.out = <<j>>]
    OBVIOUS
  <1>10. r \in Steps /\ r.u = m /\ r.left = left /\ r.out = <<j>>
    <2>1. <<j>> \in Seq(Job)
      BY <1>5
    <2>2. r = [s EXCEPT !.u = m, !.out = <<j>>]
      BY <1>6, <1>9
    <2>3. s \in Steps
      BY <1>3 DEF Plain
    <2> QED
      BY <1>3, <1>7, <2>1, <2>2, <2>3 DEF Steps
  <1>11. Apply(u, r, inbox)
    BY <1>2, <1>4, <1>9 DEF GarrisonUnit
  <1>12. inbox \in Seq(Sent) /\ Len(inbox) <= InboxSize
    BY <1>1 DEF TypeInv, InboxType
  <1>13. /\ TypeInv' /\ ram' = [ram EXCEPT ![u] = m] /\ left' = left /\ row' = row /\ kept' = kept /\ Submitted(u, r.out, inbox)
    BY <1>1, <1>10, <1>11, <1>12, AppliedTypes
  <1>14. Stories'
    BY <1>1, <1>8, <1>13, StoriesKept DEF Inv
  <1>15. RowStories'
    BY <1>13 DEF Inv, RowStories
  <1>16. AllApart' /\ Balance'
    <2>1. \A n \in 1..Len(r.out) : r.out[n].k = "Task" => r.out[n].load = NoLoad
      BY <1>5, <1>10
    <2>2. r.u.task.rev \in {0, Fresh, ram[u].task.rev}
      BY <1>7, <1>10
    <2>3. AllApart' /\ \A f : Credits(queue', f) = Credits(queue, f)
      BY <1>1, <1>10, <1>11, <1>12, <2>1, <2>2, ApartKept DEF Inv
    <2> QED
      BY <1>13, <2>3, BalanceKept DEF Inv
  <1>17. Entries'
    <2>1. PICK out : out = r.out
      OBVIOUS
    <2>2. Len(out) = 1 /\ out[1] = j
      BY <1>10, <2>1
    <2>3. /\ \A v \in Unit : v # u => queue'[v] = queue[v]
          /\ Len(queue'[u]) = Len(queue[u]) + Accepted(u, out) /\ Accepted(u, out) \in 0..Len(out)
          /\ \A i \in 1..Len(queue[u]) : queue'[u][i] = queue[u][i]
          /\ \A i \in (Len(queue[u]) + 1)..Len(queue'[u]) :
               i - Len(queue[u]) \in 1..Len(out) /\ queue'[u][i] = [job |-> out[i - Len(queue[u])], done |-> FALSE]
      BY <1>13, <2>1 DEF Submitted
    <2>4. /\ Len(inbox) <= Len(inbox') /\ Len(inbox') - Len(inbox) <= Len(out) - Accepted(u, out)
          /\ \A i \in 1..Len(inbox) : inbox'[i] = inbox[i]
          /\ \A i \in (Len(inbox) + 1)..Len(inbox') : \E n \in 1..Len(out) : inbox'[i] = FailureOf(u, out[n])
          /\ (lost => lost')
          /\ (lost' \/ Len(inbox') - Len(inbox) = Len(out) - Accepted(u, out))
      BY <1>13, <2>1 DEF Submitted
    <2>5. queue \in [Unit -> Seq(Item)] /\ queue' \in [Unit -> Seq(Item)] /\ inbox' \in Seq(Sent)
      BY <1>1, <1>13 DEF TypeInv, QueueType, InboxType
    <2>6. \A i \in (Len(inbox) + 1)..Len(inbox') : inbox'[i].k = "Entered" /\ inbox'[i].u = u
      BY <1>5, <2>2, <2>4
    <2>7. ram'[u].entering = TRUE /\ \A v \in Unit : v # u => ram'[v] = ram[v]
      BY <1>1, <1>7, <1>13 DEF TypeInv, RamType
    <2>8. PICK box2 \in Seq(Sent) : box2 = inbox'
      BY <2>5
    <2>9. PICK l2 : l2 = lost'
      OBVIOUS
    <2>10. Len(inbox) \in Nat /\ Len(box2) \in Nat /\ Begins(inbox, box2)
      BY <1>12, <2>4, <2>8 DEF Begins
    <2>11. Entry(queue'[u], inbox', u, ram'[u].entering, lost')
      <3>1. PICK q \in Seq(Item) : q = queue[u]
        BY <2>5
      <3>2. PICK p \in Seq(Item) : p = queue'[u]
        BY <2>5
      <3>3. Len(q) \in Nat /\ Len(p) \in Nat
        OBVIOUS
      <3>4. Begins(q, p)
        BY <2>2, <2>3, <3>1, <3>2, <3>3 DEF Begins
      <3>5. \A i \in Nat : ~EnterIn(q, i) /\ ~AnswerIn(inbox, u, i)
        BY <1>1, <3>1 DEF Inv, Entries, Entry
      <3>6. PICK acc : acc = Accepted(u, out)
        OBVIOUS
      <3>7. acc \in 0..1 /\ Len(p) = Len(q) + acc /\ Len(box2) - Len(inbox) <= 1 - acc /\ (l2 \/ Len(box2) - Len(inbox) = 1 - acc)
        BY <2>2, <2>3, <2>4, <2>8, <2>9, <3>1, <3>2, <3>6
      <3>8. Len(p) = Len(q) + 1 => p[Len(q) + 1].job.k = "Enter"
        <4> SUFFICES ASSUME Len(p) = Len(q) + 1 PROVE p[Len(q) + 1].job.k = "Enter"
          OBVIOUS
        <4>1. Len(q) + 1 \in (Len(q) + 1)..Len(p) /\ (Len(q) + 1) - Len(q) = 1
          BY <3>3
        <4>2. p[Len(q) + 1] = [job |-> out[(Len(q) + 1) - Len(q)], done |-> FALSE]
          BY <2>3, <3>1, <3>2, <4>1
        <4> QED
          BY <1>5, <2>2, <4>1, <4>2
      <3>9. Len(box2) = Len(inbox) + 1 => box2[Len(inbox) + 1].k = "Entered" /\ box2[Len(inbox) + 1].u = u
        <4> SUFFICES ASSUME Len(box2) = Len(inbox) + 1 PROVE box2[Len(inbox) + 1].k = "Entered" /\ box2[Len(inbox) + 1].u = u
          OBVIOUS
        <4>1. Len(inbox) + 1 \in (Len(inbox) + 1)..Len(box2)
          BY <2>10
        <4> QED
          BY <2>6, <2>8, <4>1
      <3>10. \/ Len(p) = Len(q) + 1 /\ Len(box2) = Len(inbox)
             \/ Len(p) = Len(q) /\ Len(box2) = Len(inbox) + 1
             \/ Len(p) = Len(q) /\ Len(box2) = Len(inbox) /\ l2
        <4>1. Len(inbox) <= Len(box2)
          BY <2>4, <2>8
        <4>2. CASE l2
          BY <2>10, <3>3, <3>7, <4>1, <4>2
        <4>3. CASE Len(box2) - Len(inbox) = 1 - acc
          BY <2>10, <3>3, <3>7, <4>1, <4>3
        <4> QED
          BY <3>7, <4>2, <4>3
      <3>11. Entry(p, box2, u, TRUE, l2)
        BY <1>12, <2>10, <3>4, <3>5, <3>8, <3>9, <3>10, EntryBegins
      <3> QED
        BY <2>7, <2>8, <2>9, <3>2, <3>11
    <2>12. ASSUME NEW v \in Unit, v # u PROVE Entry(queue'[v], inbox', v, ram'[v].entering, lost')
      <3>1. PICK q \in Seq(Item) : q = queue[v]
        BY <2>5
      <3>2. PICK e : e = ram[v].entering
        OBVIOUS
      <3>3. Entry(q, inbox, v, e, lost)
        BY <3>1, <3>2 DEF Inv, Entries
      <3>4. Len(q) \in Nat
        OBVIOUS
      <3>5. Begins(q, q) /\ \A i \in (Len(q) + 1)..Len(q) : ~EnterIn(q, i)
        BY <3>4 DEF Begins
      <3>6. \A i \in (Len(inbox) + 1)..Len(box2) : ~AnswerIn(box2, v, i)
        BY <2>6, <2>8, <2>12 DEF AnswerIn
      <3>7. lost => l2
        BY <2>4, <2>9
      <3>8. Entry(q, box2, v, e, l2)
        BY <1>12, <2>10, <3>3, <3>5, <3>6, <3>7, EntryGrows
      <3> QED
        BY <2>3, <2>7, <2>8, <2>9, <2>12, <3>1, <3>2, <3>8
    <2>13. \A v \in Unit : Entry(queue'[v], inbox', v, ram'[v].entering, lost')
      BY <2>11, <2>12
    <2> QED
      BY <2>13 DEF Entries
  <1> QED
    BY <1>13, <1>14, <1>15, <1>16, <1>17 DEF Inv

-----------------------------------------------------------------------------
(* Messages.                                                               *)

LEMMA Shifted ==
    ASSUME NEW S, NEW a \in Seq(S), a # <<>>
    PROVE  /\ Tail(a) \in Seq(S) /\ Head(a) = a[1] /\ Head(a) \in S /\ 1 \in DOMAIN a
           /\ Len(a) \in Nat /\ Len(Tail(a)) = Len(a) - 1 /\ Len(Tail(a)) <= Len(a)
           /\ \A i \in Nat : i \in DOMAIN Tail(a) <=> i # 0 /\ i + 1 \in DOMAIN a
           /\ \A i \in DOMAIN Tail(a) : Tail(a)[i] = a[i + 1]
  <1>1. PICK n \in Nat : n = Len(a) /\ DOMAIN a = 1..n /\ n # 0
    OBVIOUS
  <1>2. Tail(a) \in Seq(S) /\ Len(Tail(a)) = n - 1 /\ DOMAIN Tail(a) = 1..(n - 1)
    BY <1>1
  <1>3. \A i \in 1..(n - 1) : Tail(a)[i] = a[i + 1]
    BY <1>1
  <1>4. Head(a) = a[1] /\ Head(a) \in S
    OBVIOUS
  <1>5. \A i \in Nat : i \in 1..(n - 1) <=> i # 0 /\ i + 1 \in 1..n
    BY ONLY n \in Nat
  <1>6. 1 \in 1..n /\ n - 1 <= n
    BY ONLY <1>1, n \in Nat
  <1> QED
    BY <1>1, <1>2, <1>3, <1>4, <1>5, <1>6

LEMMA EntryTail ==
    ASSUME NEW q, NEW box \in Seq(Sent), box # <<>>, NEW v, NEW e, NEW l, Entry(q, box, v, e, l),
           ~(Head(box).u = v /\ Head(box).k = "Entered")
    PROVE  Entry(q, Tail(box), v, e, l)
  <1>1. \A i \in Nat : AnswerIn(Tail(box), v, i) <=> i # 0 /\ AnswerIn(box, v, i + 1)
    BY Shifted DEF AnswerIn
  <1>2. \A i \in Nat : AnswerIn(box, v, i) => i # 1 /\ i # 0
    <2>1. \A i \in Nat : i \in DOMAIN box => i # 0
      OBVIOUS
    <2>2. ~AnswerIn(box, v, 1)
      BY Shifted DEF AnswerIn
    <2> QED
      BY <2>1, <2>2 DEF AnswerIn
  <1>3. \A i \in Nat : i + 1 \in Nat
    OBVIOUS
  <1>4. \A i, j \in Nat : i + 1 = j + 1 => i = j
    OBVIOUS
  <1>5. \A i \in Nat : i # 0 /\ i # 1 => \E j \in Nat : j # 0 /\ i = j + 1
    <2> SUFFICES ASSUME NEW i \in Nat, i # 0, i # 1 PROVE \E j \in Nat : j # 0 /\ i = j + 1
      OBVIOUS
    <2>1. i - 1 \in Nat /\ i - 1 # 0 /\ i = (i - 1) + 1
      OBVIOUS
    <2> QED
      BY <2>1
  <1>6. (\E i \in Nat : AnswerIn(box, v, i)) => \E i \in Nat : AnswerIn(Tail(box), v, i)
    BY <1>1, <1>2, <1>5
  <1>7. \A i, j \in Nat : AnswerIn(Tail(box), v, i) /\ AnswerIn(Tail(box), v, j) => i = j
    BY <1>1, <1>3, <1>4 DEF Entry
  <1>8. \A i \in Nat : AnswerIn(Tail(box), v, i) => \E j \in Nat : AnswerIn(box, v, j)
    BY <1>1, <1>3
  <1> QED
    BY <1>6, <1>7, <1>8, Zenon DEF Entry

LEMMA EntryAnswered ==
    ASSUME NEW q, NEW box \in Seq(Sent), box # <<>>, NEW v, NEW e \in BOOLEAN, NEW l, Entry(q, box, v, e, l),
           Head(box).u = v, Head(box).k = "Entered"
    PROVE  Entry(q, Tail(box), v, FALSE, l)
  <1>1. \A i \in Nat : AnswerIn(Tail(box), v, i) <=> i # 0 /\ AnswerIn(box, v, i + 1)
    BY Shifted DEF AnswerIn
  <1>2. AnswerIn(box, v, 1) /\ 1 \in Nat
    BY Shifted DEF AnswerIn
  <1>3. \A i \in Nat : i + 1 \in Nat /\ (i # 0 => i + 1 # 1)
    OBVIOUS
  <1>4. \A i \in Nat : ~AnswerIn(Tail(box), v, i)
    BY <1>1, <1>2, <1>3 DEF Entry
  <1>5. \A i \in Nat : ~EnterIn(q, i)
    BY <1>2 DEF Entry
  <1> QED
    BY <1>4, <1>5 DEF Entry

\* What a message m of unit u makes of its memory.
Handled(s, m, from) ==
  CASE m.k = "Entered"      -> HandleEntered(s, m)
    [] m.k = "ExitFailed"   -> HandleExitFailed(s, m, from)
    [] m.k = "StartFailed"  -> HandleStartFailed(s, m, from)
    [] m.k = "TaskFailed"   -> HandleTaskFailed(s, m, from)
    [] m.k = "FinishFailed" -> HandleFinishFailed(s, m)
    [] OTHER                -> [s EXCEPT !.u.dirty = TRUE]

LEMMA HandledEntered ==
    ASSUME NEW s, Plain(s), Story(s.u), s.u.entering = TRUE, NEW m \in Sent, m.k = "Entered"
    PROVE  LET r == HandleEntered(s, m)
           IN Plain(r) /\ Story(r.u) /\ r.left = s.left /\ r.u.task.rev = s.u.task.rev /\ r.u.entering = FALSE
  <1>1. s.u \in Memory /\ s \in Steps /\ s.out \in Seq(PlainJobs)
    BY Steady DEF Plain
  <1>2. s.u.walk = NoWalk
    BY DEF Story
  <1>3. ~IsLeg(s.u.task)
    <2>1. s.u.task \in Task
      BY <1>1 DEF Memory
    <2>2. IsLeg(s.u.task) => LegOf(s.u.task).id # 0
      BY <2>1 DEF LegOf, Task, IsLeg, NoTask
    <2> QED
      BY <1>2, <2>2, Nothing DEF Story
  <1>4. m.city \in City
    BY DEF Sent
  <1>5. CASE m.ok
    <2>1. PICK p : p = [s.u EXCEPT !.entering = FALSE, !.status = "GARRISONED", !.inside = m.city]
      OBVIOUS
    <2>2. /\ p \in Memory /\ p.walk = NoWalk /\ p.status = "GARRISONED" /\ p.inside # NoCity /\ p.task = s.u.task
          /\ p.entering = FALSE
      BY <1>1, <1>2, <1>4, <2>1, ConstantsAssumption DEF Memory, Status
    <2>3. Story(p)
      BY <1>3, <2>2 DEF Story
    <2>4. PICK r : r = HandleEntered(s, m)
      OBVIOUS
    <2>5. r = [s EXCEPT !.u = p]
      BY <1>5, <2>1, <2>4 DEF HandleEntered
    <2>6. r \in Steps /\ r.u = p /\ r.left = s.left /\ r.out = s.out
      BY <1>1, <2>2, <2>5 DEF Steps
    <2> QED
      BY <1>1, <2>2, <2>3, <2>4, <2>6 DEF Plain
  <1>6. CASE ~m.ok
    <2>1. PICK p : p = [s.u EXCEPT !.entering = FALSE]
      OBVIOUS
    <2>2. /\ p \in Memory /\ p.walk = s.u.walk /\ p.status = s.u.status /\ p.inside = s.u.inside /\ p.task = s.u.task
          /\ p.at = s.u.at /\ p.entering = FALSE
      BY <1>1, <2>1 DEF Memory
    <2>3. Story(p)
      BY <2>2 DEF Story
    <2>4. PICK r : r = HandleEntered(s, m)
      OBVIOUS
    <2>5. r = [s EXCEPT !.u = p]
      BY <1>6, <2>1, <2>4 DEF HandleEntered
    <2>6. r \in Steps /\ r.u = p /\ r.left = s.left /\ r.out = s.out
      BY <1>1, <2>2, <2>5 DEF Steps
    <2> QED
      BY <1>1, <2>2, <2>3, <2>4, <2>6 DEF Plain
  <1> QED
    BY <1>5, <1>6

LEMMA HandledExit ==
    ASSUME NEW s, Plain(s), Story(s.u), NEW from \in Tile, NEW m \in Sent, m.k = "ExitFailed"
    PROVE  LET r == HandleExitFailed(s, m, from)
           IN Moved(s, r) /\ Story(r.u)
  <1>1. m.city \in City /\ m.at \in Tile /\ m.city # NoCity
    BY ConstantsAssumption DEF Sent
  <1>2. CASE s.u.status = "GARRISONED"
    BY <1>2, Steady DEF HandleExitFailed
  <1>3. CASE s.u.status # "GARRISONED"
    <2>1. PICK c : c = Cancel(s, from)
      OBVIOUS
    <2>2. Moved(s, c) /\ Story(c.u) /\ c.u.walk = NoWalk
      BY <2>1, CancelStory, CancelMoved
    <2>3. Plain(c) /\ c.u \in Memory /\ c.u.entering = s.u.entering
      BY <2>2, Steady DEF Moved
    <2>4. ~IsLeg(c.u.task)
      <3>1. c.u.task \in Task
        BY <2>3 DEF Memory
      <3>2. IsLeg(c.u.task) => LegOf(c.u.task).id # 0
        BY <3>1 DEF LegOf, Task, IsLeg, NoTask
      <3> QED
        BY <2>2, <3>2, Nothing DEF Story
    <2>5. PICK p : p = [c.u EXCEPT !.status = "GARRISONED", !.inside = m.city, !.at = m.at, !.dirty = TRUE]
      OBVIOUS
    <2>6. /\ p \in Memory /\ p.walk = NoWalk /\ p.status = "GARRISONED" /\ p.inside # NoCity /\ p.task = c.u.task
          /\ p.entering = c.u.entering
      BY <1>1, <2>2, <2>3, <2>5 DEF Memory, Status
    <2>7. Story(p)
      BY <2>4, <2>6 DEF Story
    <2>8. PICK r : r = [u |-> p, left |-> c.left, n |-> c.n, load |-> c.load, out |-> c.out]
      OBVIOUS
    <2>9. HandleExitFailed(s, m, from) = r
      <3>1. PICK x : x = HandleExitFailed(s, m, from)
        OBVIOUS
      <3>2. x = [c EXCEPT !.u = p]
        BY <1>3, <2>1, <2>5, <3>1 DEF HandleExitFailed
      <3>3. x = [u |-> p, left |-> c.left, n |-> c.n, load |-> c.load, out |-> c.out]
        BY <2>3, <3>2 DEF Plain, Steps
      <3> QED
        BY <2>8, <3>1, <3>3
    <2>10. p \in Memory /\ p.entering = c.u.entering /\ p.task.rev \in {0, c.u.task.rev}
      BY <2>6
    <2>11. Moved(c, [u |-> p, left |-> c.left, n |-> c.n, load |-> c.load, out |-> c.out])
      BY <2>3, <2>10, Remembered
    <2>12. Moved(c, r) /\ r.u = p
      BY <2>8, <2>11
    <2>13. Moved(s, r)
      BY <2>2, <2>12, MovedOn
    <2> QED
      BY <2>7, <2>9, <2>12, <2>13
  <1> QED
    BY <1>2, <1>3

LEMMA HandledStart ==
    ASSUME NEW s, Plain(s), Story(s.u), NEW from \in Tile, NEW m \in Sent
    PROVE  LET r == HandleStartFailed(s, m, from)
           IN Moved(s, r) /\ Story(r.u)
  <1>1. Moved(s, Cancel(s, from)) /\ Story(Cancel(s, from).u) /\ Moved(s, s)
    BY CancelStory, Steady
  <1> QED
    BY <1>1 DEF HandleStartFailed

LEMMA StopWorkingStory ==
    ASSUME NEW s, Plain(s), Story(s.u)
    PROVE  Moved(s, StopWorking(s)) /\ Story(StopWorking(s).u)
  <1>1. PICK w : w = StopWorking(s)
    OBVIOUS
  <1>2. /\ Moved(s, w) /\ w.u.walk = s.u.walk /\ w.u.inside = s.u.inside /\ w.u.at = s.u.at
        /\ (s.u.status # "WORKING" => w = s)
        /\ (s.u.status = "WORKING" => w.u.status = "IDLE" /\ w.u.task = NoTask)
    BY <1>1, StopWorkingMoved
  <1>3. CASE s.u.status = "WORKING"
    <2>1. s.u.walk = NoWalk /\ s.u.inside = NoCity
      BY <1>3 DEF Story
    <2>2. Story(w.u)
      BY <1>2, <1>3, <2>1, Nothing DEF Story
    <2> QED
      BY <1>1, <1>2, <2>2
  <1>4. CASE s.u.status # "WORKING"
    BY <1>1, <1>2, <1>4
  <1> QED
    BY <1>3, <1>4

LEMMA HandledTask ==
    ASSUME NEW s, Plain(s), Story(s.u), NEW from \in Tile, NEW m \in Sent
    PROVE  LET r == HandleTaskFailed(s, m, from)
           IN Moved(s, r) /\ Story(r.u)
  <1>1. /\ Moved(s, Cancel(s, from)) /\ Story(Cancel(s, from).u) /\ Moved(s, s)
        /\ Moved(s, StopWorking(s)) /\ Story(StopWorking(s).u)
    BY CancelStory, StopWorkingStory, Steady
  <1>2. s.u \in Memory /\ s.u.at \in Tile
    BY Steady
  <1>3. PICK j : j = FinishJob(0, TRUE, s.u.at)
    OBVIOUS
  <1>4. j \in PlainJobs
    BY <1>2, <1>3, PlainJob
  <1>5. PICK m0 : m0 = s.u
    OBVIOUS
  <1>6. PICK out : out = Append(s.out, j)
    OBVIOUS
  <1>7. PICK x : x = [s EXCEPT !.out = Append(@, j)]
    OBVIOUS
  <1>8. x = [u |-> m0, left |-> s.left, n |-> s.n, load |-> s.load, out |-> out]
    BY <1>5, <1>6, <1>7 DEF Plain, Steps
  <1>9. m0 \in Memory /\ m0.entering = s.u.entering /\ m0.task.rev \in {0, s.u.task.rev}
    BY <1>2, <1>5
  <1>10. Moved(s, x) /\ x.u = m0
    BY <1>4, <1>6, <1>8, <1>9, Rewritten
  <1>11. \/ HandleTaskFailed(s, m, from) = x
         \/ HandleTaskFailed(s, m, from) = StopWorking(s)
         \/ HandleTaskFailed(s, m, from) = Cancel(s, from)
         \/ HandleTaskFailed(s, m, from) = s
    BY ONLY <1>3, <1>7 DEF HandleTaskFailed
  <1> QED
    BY <1>1, <1>5, <1>10, <1>11

LEMMA HandledRest ==
    ASSUME NEW s, Plain(s), Story(s.u), NEW m \in Sent
    PROVE  /\ Moved(s, HandleFinishFailed(s, m)) /\ Story(HandleFinishFailed(s, m).u)
           /\ Moved(s, [s EXCEPT !.u.dirty = TRUE]) /\ Story([s EXCEPT !.u.dirty = TRUE].u)
  <1>1. s.u \in Memory /\ s.u.pend \in Numbers
    BY Steady
  <1>2. PICK pend : pend = IF m.id = 0 THEN s.u.pend ELSE s.u.pend \cup {m.id}
    OBVIOUS
  <1>3. pend \in Numbers
    <2>1. m.id \in Nat
      BY DEF Sent, Messages
    <2>2. IsFiniteSet(s.u.pend) /\ s.u.pend \subseteq Nat
      BY <1>1 DEF Numbers
    <2>3. IsFiniteSet(s.u.pend \cup {m.id})
      BY <2>2, FS_AddElement
    <2> QED
      BY <1>2, <2>1, <2>2, <2>3 DEF Numbers
  <1>4. ASSUME NEW b \in Numbers, NEW p, p = [s.u EXCEPT !.dirty = TRUE, !.pend = b],
               NEW r, r = [u |-> p, left |-> s.left, n |-> s.n, load |-> s.load, out |-> s.out]
        PROVE  Moved(s, r) /\ Story(r.u)
    <2>1. /\ p \in Memory /\ p.status = s.u.status /\ p.at = s.u.at /\ p.walk = s.u.walk /\ p.task = s.u.task
          /\ p.inside = s.u.inside /\ p.entering = s.u.entering
      BY <1>1, <1>4 DEF Memory
    <2>2. Story(p)
      BY <2>1, Retold
    <2>3. p \in Memory /\ p.entering = s.u.entering /\ p.task.rev \in {0, s.u.task.rev}
      BY <2>1
    <2>4. Moved(s, r) /\ r.u = p
      BY <1>4, <2>3, Remembered
    <2> QED
      BY <2>2, <2>4
  <1>5. Moved(s, HandleFinishFailed(s, m)) /\ Story(HandleFinishFailed(s, m).u)
    <2>1. PICK x : x = HandleFinishFailed(s, m)
      OBVIOUS
    <2>2. PICK p : p = [s.u EXCEPT !.dirty = TRUE, !.pend = pend]
      OBVIOUS
    <2>3. x = [s EXCEPT !.u.dirty = TRUE, !.u.pend = pend]
      BY <1>2, <2>1 DEF HandleFinishFailed, Plain, Steps, Memory
    <2>4. x = [u |-> p, left |-> s.left, n |-> s.n, load |-> s.load, out |-> s.out]
      BY <2>2, <2>3 DEF Plain, Steps
    <2>5. Moved(s, x) /\ Story(x.u)
      BY <1>3, <1>4, <2>2, <2>4
    <2> QED
      BY <2>1, <2>5
  <1>6. Moved(s, [s EXCEPT !.u.dirty = TRUE]) /\ Story([s EXCEPT !.u.dirty = TRUE].u)
    <2>1. PICK x : x = [s EXCEPT !.u.dirty = TRUE]
      OBVIOUS
    <2>2. PICK p : p = [s.u EXCEPT !.dirty = TRUE]
      OBVIOUS
    <2>3. x = [u |-> p, left |-> s.left, n |-> s.n, load |-> s.load, out |-> s.out]
      BY <2>1, <2>2 DEF Plain, Steps
    <2>4. p = [s.u EXCEPT !.dirty = TRUE, !.pend = s.u.pend]
      BY <1>1, <2>2 DEF Memory
    <2>5. PICK b : b = s.u.pend
      OBVIOUS
    <2>6. b \in Numbers /\ p = [s.u EXCEPT !.dirty = TRUE, !.pend = b]
      BY <1>1, <2>4, <2>5
    <2>7. Moved(s, x) /\ Story(x.u)
      BY <1>4, <2>3, <2>6
    <2> QED
      BY <2>1, <2>7
  <1> QED
    BY <1>5, <1>6

LEMMA HandleStep ==
    ASSUME Inv, NEW from \in Tile, Handle(from)
    PROVE  Inv'
  <1>1. TypeInv /\ inbox \in Seq(Sent) /\ inbox # <<>> /\ Len(inbox) <= InboxSize
    BY DEF Inv, TypeInv, InboxType, Handle
  <1>2. PICK m \in Sent : m = Head(inbox)
    BY <1>1, Shifted
  <1>3. PICK u \in Unit : u = m.u
    BY DEF Sent, Messages
  <1>4. PICK box \in Seq(Sent) : box = Tail(inbox) /\ Len(box) <= InboxSize
    <2>1. Tail(inbox) \in Seq(Sent) /\ Len(inbox) \in Nat /\ Len(Tail(inbox)) = Len(inbox) - 1
      BY <1>1, Shifted
    <2>2. Len(Tail(inbox)) <= InboxSize
      BY <1>1, <2>1, ConstantsAssumption
    <2> QED
      BY <2>1, <2>2
  <1>5. Story(ram[u]) /\ ram[u].entering \in BOOLEAN
    BY Begun
  <1>6. PICK s : s = Step(u)
    OBVIOUS
  <1>7. Plain(s) /\ s.u = ram[u] /\ s.left = left /\ s.n = Fresh
    BY <1>1, <1>6, StepPlain
  <1>8. PICK r : r = Handled(s, m, from)
    OBVIOUS
  <1>9. Apply(u, r, box)
    BY <1>2, <1>3, <1>4, <1>6, <1>8 DEF Handle, Handled
  <1>10. \A v \in Unit : Entry(queue[v], inbox, v, ram[v].entering, lost)
    BY DEF Inv, Entries
  <1>11. CASE m.k = "Entered"
    <2>1. Entry(queue[u], box, u, FALSE, lost) /\ ram[u].entering
      <3>1. Head(inbox).u = u /\ Head(inbox).k = "Entered"
        BY <1>2, <1>3, <1>11
      <3>2. Entry(queue[u], inbox, u, ram[u].entering, lost)
        BY <1>10
      <3>3. Entry(queue[u], Tail(inbox), u, FALSE, lost) /\ ram[u].entering
        <4>1. PICK e \in BOOLEAN : e = ram[u].entering
          BY <1>5
        <4>2. PICK q : q = queue[u]
          OBVIOUS
        <4>3. Entry(q, inbox, u, e, lost)
          BY <3>2, <4>1, <4>2
        <4>4. Entry(q, Tail(inbox), u, FALSE, lost)
          BY <1>1, <3>1, <4>3, EntryAnswered
        <4>5. e = TRUE
          <5>1. AnswerIn(inbox, u, 1) /\ 1 \in Nat
            BY <1>1, <3>1, Shifted DEF AnswerIn
          <5> QED
            BY <4>3, <5>1 DEF Entry
        <4> QED
          BY <4>1, <4>2, <4>4, <4>5
      <3> QED
        BY <1>4, <3>3
    <2>2. \A v \in Unit : v # u => Entry(queue[v], box, v, ram[v].entering, lost)
      <3> SUFFICES ASSUME NEW v \in Unit, v # u PROVE Entry(queue[v], box, v, ram[v].entering, lost)
        OBVIOUS
      <3>1. ~(Head(inbox).u = v /\ Head(inbox).k = "Entered") /\ Entry(queue[v], inbox, v, ram[v].entering, lost)
        BY <1>2, <1>3, <1>10
      <3> QED
        BY <1>1, <1>4, <3>1, EntryTail
    <2>3. r = HandleEntered(s, m)
      BY <1>8, <1>11 DEF Handled
    <2>4. s.u.entering = TRUE /\ Story(s.u)
      BY <1>5, <1>7, <2>1
    <2>5. Plain(r) /\ Story(r.u) /\ r.left = s.left /\ r.u.task.rev = s.u.task.rev /\ r.u.entering = FALSE
      BY <1>7, <1>11, <2>3, <2>4, HandledEntered
    <2>6. \A v \in Unit : Entry(queue[v], box, v, IF v = u THEN r.u.entering ELSE ram[v].entering, lost)
      BY <2>1, <2>2, <2>5
    <2>7. r.left = left /\ r.u.task.rev \in {0, Fresh, ram[u].task.rev}
      BY <1>7, <2>5
    <2> QED
      BY <1>4, <1>9, <2>5, <2>6, <2>7, PlainKept
  <1>12. CASE m.k # "Entered"
    <2>1. Moved(s, r) /\ Story(r.u)
      <3>1. \/ m.k = "ExitFailed" /\ r = HandleExitFailed(s, m, from)
            \/ r = HandleStartFailed(s, m, from)
            \/ r = HandleTaskFailed(s, m, from)
            \/ r = HandleFinishFailed(s, m)
            \/ r = [s EXCEPT !.u.dirty = TRUE]
        BY ONLY <1>8, <1>12 DEF Handled
      <3>2. Story(s.u)
        BY <1>5, <1>7
      <3>3. CASE m.k = "ExitFailed" /\ r = HandleExitFailed(s, m, from)
        BY <1>7, <3>2, <3>3, HandledExit
      <3>4. CASE r = HandleStartFailed(s, m, from)
        BY <1>7, <3>2, <3>4, HandledStart
      <3>5. CASE r = HandleTaskFailed(s, m, from)
        BY <1>7, <3>2, <3>5, HandledTask
      <3>6. CASE r = HandleFinishFailed(s, m)
        BY <1>7, <3>2, <3>6, HandledRest
      <3>7. CASE r = [s EXCEPT !.u.dirty = TRUE]
        BY <1>7, <3>2, <3>7, HandledRest
      <3> QED
        BY <3>1, <3>3, <3>4, <3>5, <3>6, <3>7
    <2>2. Plain(r) /\ r.left = left /\ r.u.task.rev \in {0, Fresh, ram[u].task.rev} /\ r.u.entering = ram[u].entering
      BY <1>7, <2>1 DEF Moved
    <2>3. \A v \in Unit : Entry(queue[v], box, v, ram[v].entering, lost)
      <3> SUFFICES ASSUME NEW v \in Unit PROVE Entry(queue[v], box, v, ram[v].entering, lost)
        OBVIOUS
      <3>1. ~(Head(inbox).u = v /\ Head(inbox).k = "Entered") /\ Entry(queue[v], inbox, v, ram[v].entering, lost)
        BY <1>2, <1>10, <1>12
      <3> QED
        BY <1>1, <1>4, <3>1, EntryTail
    <2>4. \A v \in Unit : Entry(queue[v], box, v, IF v = u THEN r.u.entering ELSE ram[v].entering, lost)
      BY <2>2, <2>3
    <2> QED
      BY <1>4, <1>9, <2>1, <2>2, <2>4, PlainKept
  <1> QED
    BY <1>11, <1>12

-----------------------------------------------------------------------------
(* The worker.                                                             *)

LEMMA WrittenTyped ==
    ASSUME NEW r \in Rows, RowStory(r), NEW j \in Job, NEW treaty
    PROVE  /\ Written(r, j, treaty) \in Rows /\ RowStory(Written(r, j, treaty))
           /\ j.k = "Task" => Written(r, j, treaty).task = j.task
  <1>1. ASSUME NEW id PROVE Close(r, id) \in Rows /\ RowStory(Close(r, id))
    <2>1. PICK x : x = [r EXCEPT !.walk = NoWalk]
      OBVIOUS
    <2>2. x \in Rows /\ x.walk = NoWalk /\ x.task = r.task
      BY <2>1, Nothing DEF Rows
    <2>3. RowStory(x)
      BY <2>2 DEF RowStory
    <2> QED
      BY <2>1, <2>2, <2>3 DEF Close
  <1>2. PICK x : x = Written(r, j, treaty)
    OBVIOUS
  <1>3. CASE j.k = "Start"
    <2>1. j \in StartJobs
      BY <1>3, Kinds
    <2>2. PICK w : w = [id |-> j.id, to |-> j.to]
      OBVIOUS
    <2>3. w \in Walk
      BY <2>1, <2>2 DEF StartJobs, Walk, WalkType
    <2>4. x = [r EXCEPT !.walk = w, !.task = NoTask, !.status = "MOVING", !.at = j.from]
      BY <1>2, <1>3, <2>2 DEF Written, PersistMovementStart
    <2>5. x \in Rows /\ x.task = NoTask
      BY <2>1, <2>3, <2>4, Nothing DEF Rows, Status, StartJobs
    <2> QED
      BY <1>2, <1>3, <2>5, Nothing DEF RowStory
  <1>4. CASE j.k = "Finish"
    <2>1. j \in FinishJobs
      BY <1>4, Kinds
    <2>2. PICK y : y = Close(r, j.id)
      OBVIOUS
    <2>3. y \in Rows /\ RowStory(y)
      BY <1>1, <2>2
    <2>4. CASE j.whole
      <3>1. x = [y EXCEPT !.task = NoTask, !.status = "IDLE", !.at = j.at]
        BY <1>2, <1>4, <2>2, <2>4 DEF Written, PersistMovementFinish
      <3>2. j.at \in Tile
        BY <2>1, <2>4 DEF FinishJobs
      <3>3. x \in Rows /\ x.task = NoTask
        BY <2>3, <3>1, <3>2, Nothing DEF Rows, Status
      <3> QED
        BY <1>2, <1>4, <3>3, Nothing DEF RowStory
    <2>5. CASE ~j.whole
      <3>1. x = y
        BY <1>2, <1>4, <2>2, <2>5 DEF Written, PersistMovementFinish
      <3> QED
        BY <1>2, <1>4, <2>3, <3>1
    <2> QED
      BY <2>4, <2>5
  <1>5. CASE j.k = "Task"
    <2>1. j \in TaskJobs
      BY <1>5, Kinds
    <2>2. PICK w : w = IF j.leg # NoWalk THEN j.leg ELSE Close(r, j.fin).walk
      OBVIOUS
    <2>3. w \in Walk
      BY <1>1, <2>1, <2>2 DEF Rows, TaskJobs
    <2>4. x = [r EXCEPT !.walk = w, !.task = j.task, !.status = j.status, !.at = j.at]
      BY <1>2, <1>5, <2>2 DEF Written, PersistTask
    <2>5. x \in Rows /\ x.task = j.task /\ x.walk = w
      BY <2>1, <2>3, <2>4 DEF Rows, TaskJobs
    <2>6. RowStory(x)
      <3> SUFFICES ASSUME IsLeg(x.task) PROVE x.walk \in {LegOf(x.task), NoWalk}
        BY DEF RowStory
      <3>1. j.leg = LegOf(j.task)
        BY <2>1, <2>5 DEF TaskJobs
      <3>2. j.task \in Task /\ j.task.phase # "NONE"
        BY <2>1, <2>5 DEF TaskJobs, IsLeg
      <3>3. LegOf(j.task).id # 0
        BY <3>2 DEF Task, LegOf, NoTask
      <3>4. w = LegOf(j.task)
        BY <2>2, <3>1, <3>3, Nothing
      <3> QED
        BY <2>5, <3>4
    <2> QED
      BY <1>2, <2>5, <2>6
  <1>6. CASE j.k = "Flush"
    <2>1. j \in FlushJobs
      BY <1>6, Kinds
    <2>2. x = [r EXCEPT !.status = j.status, !.at = j.at]
      BY <1>2, <1>6 DEF Written
    <2>3. x \in Rows /\ x.task = r.task /\ x.walk = r.walk
      BY <2>1, <2>2 DEF Rows, FlushJobs
    <2> QED
      BY <1>2, <1>6, <2>3 DEF RowStory
  <1>7. CASE j.k = "Enter"
    <2>1. j \in EnterJobs
      BY <1>7, Kinds
    <2>2. PICK y : y = [r EXCEPT !.walk = NoWalk, !.task = NoTask, !.status = "GARRISONED", !.host = j.city]
      OBVIOUS
    <2>3. x = r \/ x = y
      BY <1>2, <1>7, <2>2 DEF Written, EnterCity
    <2>4. y \in Rows /\ y.task = NoTask
      BY <2>1, <2>2, Nothing DEF Rows, Status, EnterJobs
    <2> QED
      BY <1>2, <1>7, <2>3, <2>4, Nothing DEF RowStory
  <1>8. CASE j.k = "Leave"
    <2>1. j \in LeaveJobs
      BY <1>8, Kinds
    <2>2. x = [r EXCEPT !.status = "IDLE", !.at = j.at, !.host = NoCity]
      BY <1>2, <1>8 DEF Written, LeaveCity
    <2>3. x \in Rows /\ x.task = r.task /\ x.walk = r.walk
      BY <2>1, <2>2 DEF Rows, Status, LeaveJobs
    <2> QED
      BY <1>2, <1>8, <2>3 DEF RowStory
  <1> QED
    BY <1>3, <1>4, <1>5, <1>6, <1>7, <1>8, Kinds

LEMMA ApartPops ==
    ASSUME NEW q \in Seq(Item), q # <<>>, NEW rev, NEW task, NEW task2, Apart(q, rev, task)
    PROVE  /\ Apart(Tail(q), rev, task2)
           /\ \A u, f : Credit(Tail(q), u, f) \subseteq Credit(q, u, f)
           /\ \A u, f : CutIn(q, 1) => <<u, RevIn(q, 1)>> \notin Credit(Tail(q), u, f)
  <1>1. PICK p : p = Tail(q)
    OBVIOUS
  <1>2. /\ \A i \in DOMAIN p : i \in Nat /\ i # 0
        /\ \A i \in Nat : i \in DOMAIN p <=> i # 0 /\ i + 1 \in DOMAIN q
        /\ \A i \in DOMAIN p : p[i] = q[i + 1]
    <2>1. p \in Seq(Item)
      BY <1>1, Shifted
    <2>2. \A i \in DOMAIN p : i \in Nat /\ i # 0
      BY <2>1
    <2> QED
      BY <1>1, <2>2, Shifted
  <1>3. \A i \in DOMAIN p : i + 1 \in DOMAIN q /\ i + 1 \in Nat /\ i + 1 # 1 /\ ~q[i + 1].done
    <2>1. \A i \in Nat : i + 1 \in Nat /\ (i # 0 => i + 1 # 1)
      OBVIOUS
    <2>2. \A i \in DOMAIN p : i + 1 \in DOMAIN q /\ i + 1 # 1 /\ i + 1 \in Nat
      BY <1>2, <2>1
    <2> QED
      BY <2>2 DEF Apart
  <1>4. \A i : CutIn(p, i) => i \in Nat /\ i + 1 \in Nat /\ i + 1 # 1 /\ CutIn(q, i + 1) /\ RevIn(p, i) = RevIn(q, i + 1)
    BY <1>2, <1>3 DEF CutIn, RevIn
  <1>5. \A i, k \in Nat : i + 1 = k + 1 => i = k
    OBVIOUS
  <1>6. Apart(p, rev, task2)
    <2>1. \A i \in Nat : CutIn(p, i) => RevIn(p, i) # rev
      BY <1>4 DEF Apart
    <2>2. \A i, k \in Nat : CutIn(p, i) /\ CutIn(p, k) /\ RevIn(p, i) = RevIn(p, k) => i = k
      BY <1>4, <1>5 DEF Apart
    <2>3. \A i \in DOMAIN p : ~p[i].done
      BY <1>2, <1>3
    <2> QED
      BY <2>1, <2>2, <2>3 DEF Apart
  <1>7. ASSUME NEW u, NEW f, NEW c \in Credit(p, u, f)
        PROVE  c \in Credit(q, u, f) /\ (CutIn(q, 1) => c # <<u, RevIn(q, 1)>>)
    <2>1. PICK i \in Waits(p, f) : c = <<u, RevIn(p, i)>>
      BY <1>7 DEF Credit
    <2>2. i \in DOMAIN p /\ CutIn(p, i) /\ p[i].job.load.tile = f
      BY <2>1 DEF Waits
    <2>3. i + 1 \in DOMAIN q /\ CutIn(q, i + 1) /\ ~q[i + 1].done /\ q[i + 1].job.load.tile = f /\ RevIn(p, i) = RevIn(q, i + 1)
          /\ i + 1 # 1 /\ i + 1 \in Nat
      BY <1>2, <1>3, <1>4, <2>2
    <2>4. i + 1 \in Waits(q, f)
      BY <2>3 DEF Waits
    <2>5. c \in Credit(q, u, f)
      BY <2>1, <2>3, <2>4 DEF Credit
    <2>6. CutIn(q, 1) => RevIn(q, 1) # RevIn(q, i + 1)
      BY <2>3 DEF Apart
    <2> QED
      BY <2>1, <2>3, <2>5, <2>6
  <1> QED
    BY <1>1, <1>6, <1>7

LEMMA ApartDone ==
    ASSUME NEW q \in Seq(Item), q # <<>>, NEW rev, NEW task, NEW task2, Apart(q, rev, task),
           q[1].job.k = "Task" => task2 = q[1].job.task,
           NEW p, DOMAIN p = DOMAIN q, p[1].done = TRUE,
           \A i \in DOMAIN q : p[i].job = q[i].job /\ (i # 1 => p[i] = q[i])
    PROVE  /\ Apart(p, rev, task2)
           /\ \A u, f : Credit(p, u, f) \subseteq Credit(q, u, f)
           /\ \A u, f : CutIn(q, 1) => <<u, RevIn(q, 1)>> \notin Credit(p, u, f)
  <1>1. 1 \in DOMAIN q /\ \A i \in DOMAIN q : q[i] \in Item /\ i \in Nat
    BY Shifted
  <1>2. DOMAIN p = DOMAIN q /\ \A i \in DOMAIN q : i # 1 => p[i] = q[i]
    OBVIOUS
  <1>3. \A i \in DOMAIN q : p[i].job = q[i].job
    OBVIOUS
  <1>5. p[1].done = TRUE /\ \A i \in DOMAIN q : i # 1 => ~p[i].done
    BY <1>1, <1>2 DEF Apart
  <1>6. \A i : (CutIn(p, i) <=> CutIn(q, i)) /\ (CutIn(q, i) => RevIn(p, i) = RevIn(q, i) /\ i \in Nat)
    BY <1>1, <1>2, <1>3 DEF CutIn, RevIn
  <1>7. Apart(p, rev, task2)
    <2>1. \A i \in Nat : CutIn(p, i) => RevIn(p, i) # rev
      BY <1>6 DEF Apart
    <2>2. \A i, k \in Nat : CutIn(p, i) /\ CutIn(p, k) /\ RevIn(p, i) = RevIn(p, k) => i = k
      BY <1>6 DEF Apart
    <2>3. \A i \in DOMAIN p : p[i].done => i = 1
      BY <1>2, <1>5
    <2>4. \A i \in DOMAIN p : p[i].done /\ p[i].job.k = "Task" => task2 = p[i].job.task
      BY <1>1, <1>2, <1>3, <2>3
    <2> QED
      BY <2>1, <2>2, <2>3, <2>4 DEF Apart
  <1>8. ASSUME NEW u, NEW f, NEW c \in Credit(p, u, f)
        PROVE  c \in Credit(q, u, f) /\ (CutIn(q, 1) => c # <<u, RevIn(q, 1)>>)
    <2>1. PICK i \in Waits(p, f) : c = <<u, RevIn(p, i)>>
      BY <1>8 DEF Credit
    <2>2. i \in DOMAIN q /\ i # 1 /\ CutIn(p, i) /\ p[i].job.load.tile = f /\ i \in Nat
      BY <1>1, <1>2, <1>5, <2>1 DEF Waits
    <2>3. p[i] = q[i] /\ CutIn(q, i) /\ ~q[i].done /\ q[i].job.load.tile = f /\ RevIn(p, i) = RevIn(q, i)
      BY <1>2, <1>5, <1>6, <2>2
    <2>4. i \in Waits(q, f)
      BY <2>2, <2>3 DEF Waits
    <2>5. c \in Credit(q, u, f)
      BY <2>1, <2>3, <2>4 DEF Credit
    <2>6. CutIn(q, 1) => RevIn(q, 1) # RevIn(q, i)
      BY <2>2, <2>3 DEF Apart
    <2> QED
      BY <2>1, <2>3, <2>5, <2>6
  <1> QED
    BY <1>7, <1>8

\* The head of the queue takes its load from the tile of the database.
Takes(u, f) ==
  /\ f \in Forest /\ CutIn(queue[u], 1) /\ ~queue[u][1].done /\ queue[u][1].job.load.tile = f
  /\ kept' = [kept EXCEPT ![f] = @ - 1]

\* The worker leaves p in the queue of u, and x in its rows.
LEMMA WorkerKept ==
    ASSUME Inv, NEW u \in Unit, NEW p \in Seq(Item), queue' = [queue EXCEPT ![u] = p], Len(p) <= QueueSize,
           ram' = ram, left' = left, NEW x \in Rows, RowStory(x), row' = [row EXCEPT ![u] = x],
           Apart(p, ram[u].task.rev, x.task),
           \A f : Credit(p, u, f) \subseteq Credit(queue[u], u, f),
           \A f : CutIn(queue[u], 1) => <<u, RevIn(queue[u], 1)>> \notin Credit(p, u, f),
           kept' = kept \/ \E f \in Forest : Takes(u, f),
           InboxType', failures' \in 0..MaxFailures, Entries'
    PROVE  Inv'
  <1>1. TypeInv /\ Stories /\ RowStories /\ AllApart /\ Balance
    BY DEF Inv
  <1>2. /\ queue \in [Unit -> Seq(Item)] /\ row \in [Unit -> Rows] /\ left \in [Forest -> 0..Loads]
        /\ kept \in [Forest -> 0..Loads] /\ Loads \in Nat
    BY <1>1, ConstantsAssumption DEF TypeInv, QueueType, RowType, RamType
  <1>3. QueueType'
    BY <1>1, <1>2 DEF TypeInv, QueueType
  <1>4. \A v \in Unit : queue'[v] = IF v = u THEN p ELSE queue[v]
    BY <1>2
  <1>5. row' \in [Unit -> Rows] /\ \A v \in Unit : row'[v] = IF v = u THEN x ELSE row[v]
    BY <1>2
  <1>6. RowStories'
    <2>1. \A v \in Unit : RowStory(row'[v])
      BY <1>1, <1>5 DEF RowStories
    <2> QED
      BY <2>1 DEF RowStories
  <1>7. RamType' /\ Stories'
    BY <1>1 DEF TypeInv, RamType, Stories
  <1>8. AllApart'
    <2>1. \A v \in Unit : Apart(queue'[v], ram[v].task.rev, row'[v].task)
      BY <1>1, <1>4, <1>5 DEF AllApart
    <2> QED
      BY <2>1 DEF AllApart
  <1>9. \A f : Credits(queue', f) \subseteq Credits(queue, f)
    <2> SUFFICES ASSUME NEW f, NEW c \in Credits(queue', f) PROVE c \in Credits(queue, f)
      OBVIOUS
    <2>1. PICK v \in Unit : c \in Credit(queue'[v], v, f)
      BY DEF Credits
    <2>2. c \in Credit(queue[v], v, f)
      BY <1>4, <2>1
    <2> QED
      BY <2>2 DEF Credits
  <1>10. Balance' /\ kept' \in [Forest -> 0..Loads]
    <2>1. CASE kept' = kept
      <3>1. ASSUME NEW f \in Forest PROVE IsFiniteSet(Credits(queue', f)) /\ Cardinality(Credits(queue', f)) + left[f] <= kept[f]
        <4>1. PICK A : A = Credits(queue, f)
          OBVIOUS
        <4>2. PICK B : B = Credits(queue', f)
          OBVIOUS
        <4>3. IsFiniteSet(A) /\ Cardinality(A) + left[f] <= kept[f] /\ B \subseteq A
          BY <1>1, <1>9, <4>1, <4>2 DEF Balance
        <4>4. IsFiniteSet(B) /\ Cardinality(B) \in Nat /\ Cardinality(A) \in Nat /\ Cardinality(B) <= Cardinality(A)
          BY <4>3, Fewer
        <4>5. left[f] \in Nat /\ kept[f] \in Nat
          BY <1>2
        <4> QED
          BY <4>2, <4>3, <4>4, <4>5
      <3> QED
        BY <1>2, <2>1, <3>1 DEF Balance
    <2>2. CASE \E f \in Forest : Takes(u, f)
      <3>1. PICK f0 \in Forest : Takes(u, f0)
        BY <2>2
      <3>2. /\ CutIn(queue[u], 1) /\ ~queue[u][1].done /\ queue[u][1].job.load.tile = f0
            /\ kept' = [kept EXCEPT ![f0] = @ - 1]
        BY <3>1 DEF Takes
      <3>3. PICK c : c = <<u, RevIn(queue[u], 1)>>
        OBVIOUS
      <3>4. c \in Credits(queue, f0)
        <4>1. 1 \in Waits(queue[u], f0)
          BY <3>2 DEF Waits, CutIn
        <4>2. c \in Credit(queue[u], u, f0)
          BY <3>3, <4>1 DEF Credit
        <4> QED
          BY <4>2 DEF Credits
      <3>5. c \notin Credits(queue', f0)
        <4> SUFFICES ASSUME c \in Credits(queue', f0) PROVE FALSE
          OBVIOUS
        <4>1. PICK v \in Unit : c \in Credit(queue'[v], v, f0)
          BY DEF Credits
        <4>2. v = u
          BY <3>3, <4>1 DEF Credit
        <4>3. c \in Credit(p, u, f0)
          BY <1>4, <4>1, <4>2
        <4> QED
          BY <3>2, <3>3, <4>3
      <3>6. ASSUME NEW f \in Forest
            PROVE  /\ IsFiniteSet(Credits(queue', f)) /\ Cardinality(Credits(queue', f)) + left[f] <= kept'[f]
                   /\ kept'[f] \in 0..Loads
        <4>1. PICK A : A = Credits(queue, f)
          OBVIOUS
        <4>2. PICK B : B = Credits(queue', f)
          OBVIOUS
        <4>3. IsFiniteSet(A) /\ Cardinality(A) + left[f] <= kept[f] /\ B \subseteq A
          BY <1>1, <1>9, <4>1, <4>2 DEF Balance
        <4>4. left[f] \in Nat /\ kept[f] \in Nat /\ kept[f] <= Loads
          BY <1>2
        <4>5. CASE f = f0
          <5>1. c \in A /\ B \subseteq A \ {c}
            BY <3>4, <3>5, <4>1, <4>2, <4>3, <4>5
          <5>2. IsFiniteSet(B) /\ Cardinality(B) \in Nat /\ Cardinality(A) \in Nat /\ Cardinality(B) + 1 <= Cardinality(A)
            BY <4>3, <5>1, OneLess
          <5>3. kept'[f] = kept[f] - 1
            BY <1>2, <3>2, <4>5
          <5>4. PICK a, b, k, l, n : a = Cardinality(A) /\ b = Cardinality(B) /\ k = kept[f] /\ l = left[f] /\ n = kept'[f]
            OBVIOUS
          <5>5. a \in Nat /\ b \in Nat /\ k \in Nat /\ l \in Nat /\ b + 1 <= a /\ a + l <= k /\ n = k - 1 /\ k <= Loads
            BY <4>3, <4>4, <5>2, <5>3, <5>4
          <5>6. b + l <= n /\ n \in 0..Loads
            BY ONLY <1>2, <5>5
          <5> QED
            BY <4>2, <5>2, <5>4, <5>6
        <4>6. CASE f # f0
          <5>1. IsFiniteSet(B) /\ Cardinality(B) \in Nat /\ Cardinality(A) \in Nat /\ Cardinality(B) <= Cardinality(A)
            BY <4>3, Fewer
          <5>2. kept'[f] = kept[f]
            BY <1>2, <3>2, <4>6
          <5>4. PICK a, b, k, l : a = Cardinality(A) /\ b = Cardinality(B) /\ k = kept[f] /\ l = left[f]
            OBVIOUS
          <5>5. a \in Nat /\ b \in Nat /\ k \in Nat /\ l \in Nat /\ b <= a /\ a + l <= k /\ k <= Loads
            BY <4>3, <4>4, <5>1, <5>4
          <5>6. b + l <= k /\ k \in 0..Loads
            BY ONLY <1>2, <5>5
          <5> QED
            BY <4>2, <5>1, <5>2, <5>4, <5>6
        <4> QED
          BY <4>5, <4>6
      <3>7. kept' \in [Forest -> 0..Loads]
        <4>1. DOMAIN kept' = Forest /\ kept' = [f \in Forest |-> kept'[f]]
          BY <1>2, <3>2
        <4> QED
          BY <3>6, <4>1
      <3> QED
        BY <3>6, <3>7 DEF Balance
    <2> QED
      BY <2>1, <2>2
  <1>11. RowType'
    BY <1>5, <1>10 DEF RowType
  <1> QED
    BY <1>3, <1>6, <1>7, <1>8, <1>10, <1>11 DEF Inv, TypeInv

\* A load that is already written is not taken again.
LEMMA WriteTakes ==
    ASSUME Inv, NEW u \in Unit, queue[u] # <<>>, NEW treaty, Write(u, treaty)
    PROVE  /\ kept' = kept \/ \E f \in Forest : Takes(u, f)
           /\ \E x \in Rows : /\ RowStory(x) /\ row' = [row EXCEPT ![u] = x]
                              /\ Head(queue[u]).job.k = "Task" => x.task = Head(queue[u]).job.task
  <1>1. queue[u] \in Seq(Item) /\ row[u] \in Rows /\ RowStory(row[u]) /\ Apart(queue[u], ram[u].task.rev, row[u].task)
    BY DEF Inv, TypeInv, QueueType, RowType, RowStories, AllApart
  <1>2. PICK item \in Item : item = Head(queue[u]) /\ item = queue[u][1] /\ 1 \in DOMAIN queue[u]
    BY <1>1, Shifted
  <1>3. PICK j \in Job : j = item.job
    BY <1>2 DEF Item
  <1>4. Written(row[u], j, treaty) \in Rows /\ RowStory(Written(row[u], j, treaty)) /\ (j.k = "Task" => Written(row[u], j, treaty).task = j.task)
    BY <1>1, WrittenTyped
  <1>5. row' = [row EXCEPT ![u] = Written(row[u], j, treaty)]
    BY <1>2, <1>3 DEF Write
  <1>6. kept' = IF j.k = "Task" /\ Charges(row[u], j.load) THEN [kept EXCEPT ![j.load.tile] = @ - 1] ELSE kept
    BY <1>2, <1>3 DEF Write
  <1>7. CASE j.k = "Task" /\ Charges(row[u], j.load)
    <2>1. j \in TaskJobs /\ j.load # NoLoad /\ row[u].task.phase = "WORKING" /\ row[u].task.rev = j.load.rev
      BY <1>7, Kinds DEF Charges
    <2>2. j.load.tile \in Forest
      BY <2>1 DEF TaskJobs, Load
    <2>3. row[u].task # j.task
      BY <2>1 DEF TaskJobs
    <2>4. ~item.done
      BY <1>1, <1>2, <1>3, <1>7, <2>3 DEF Apart
    <2>5. CutIn(queue[u], 1)
      BY <1>2, <1>3, <1>7, <2>1 DEF CutIn
    <2>6. Takes(u, j.load.tile)
      BY <1>2, <1>3, <1>6, <1>7, <2>2, <2>4, <2>5 DEF Takes
    <2> QED
      BY <1>2, <1>3, <1>4, <1>5, <2>2, <2>6
  <1>8. CASE ~(j.k = "Task" /\ Charges(row[u], j.load))
    BY <1>2, <1>3, <1>4, <1>5, <1>6, <1>8
  <1> QED
    BY <1>7, <1>8

LEMMA EntryPops ==
    ASSUME NEW q \in Seq(Item), q # <<>>, NEW box, NEW v, NEW e \in BOOLEAN, NEW l, Entry(q, box, v, e, l)
    PROVE  /\ Head(q).job.k # "Enter" => Entry(Tail(q), box, v, e, l)
           /\ Head(q).job.k = "Enter" => e = TRUE /\ \A i \in Nat : ~EnterIn(Tail(q), i) /\ ~AnswerIn(box, v, i)
  <1>1. \A i \in Nat : EnterIn(Tail(q), i) <=> i # 0 /\ EnterIn(q, i + 1)
    BY Shifted DEF EnterIn
  <1>2. \A i \in Nat : i + 1 \in Nat /\ (i # 0 => i + 1 # 1)
    OBVIOUS
  <1>3. \A i, j \in Nat : i + 1 = j + 1 => i = j
    OBVIOUS
  <1>4. EnterIn(q, 1) <=> Head(q).job.k = "Enter"
    BY Shifted DEF EnterIn
  <1>5. CASE Head(q).job.k = "Enter"
    <2>1. EnterIn(q, 1) /\ 1 \in Nat
      BY <1>4, <1>5
    <2>2. \A i \in Nat : ~EnterIn(Tail(q), i)
      BY <1>1, <1>2, <2>1 DEF Entry
    <2>3. e /\ \A i \in Nat : ~AnswerIn(box, v, i)
      BY <2>1 DEF Entry
    <2> QED
      BY <1>5, <2>2, <2>3
  <1>6. CASE Head(q).job.k # "Enter"
    <2>1. \A i \in Nat : EnterIn(q, i) => i # 1 /\ i # 0
      <3>1. \A i \in Nat : i \in DOMAIN q => i # 0
        OBVIOUS
      <3> QED
        BY <1>4, <1>6, <3>1 DEF EnterIn
    <2>2. \A i \in Nat : i # 0 /\ i # 1 => \E j \in Nat : j # 0 /\ i = j + 1
      <3> SUFFICES ASSUME NEW i \in Nat, i # 0, i # 1 PROVE \E j \in Nat : j # 0 /\ i = j + 1
        OBVIOUS
      <3>1. i - 1 \in Nat /\ i - 1 # 0 /\ i = (i - 1) + 1
        OBVIOUS
      <3> QED
        BY <3>1
    <2>3. (\E i \in Nat : EnterIn(q, i)) => \E i \in Nat : EnterIn(Tail(q), i)
      BY <1>1, <2>1, <2>2
    <2>4. \A i, j \in Nat : EnterIn(Tail(q), i) /\ EnterIn(Tail(q), j) => i = j
      BY <1>1, <1>2, <1>3 DEF Entry
    <2>5. \A i \in Nat : EnterIn(Tail(q), i) => \E j \in Nat : EnterIn(q, j)
      BY <1>1, <1>2
    <2>6. Entry(Tail(q), box, v, e, l)
      BY <2>3, <2>4, <2>5, Zenon DEF Entry
    <2> QED
      BY <1>6, <2>6
  <1> QED
    BY <1>5, <1>6

LEMMA Offered ==
    ASSUME NEW box \in Seq(Sent), Len(box) <= InboxSize, NEW m \in Sent, NEW box2, box2 = Offer(box, m)
    PROVE  /\ box2 \in Seq(Sent) /\ Len(box2) <= InboxSize /\ Begins(box, box2)
           /\ \/ Len(box2) = Len(box) + 1 /\ box2[Len(box) + 1] = m
              \/ Len(box2) = Len(box) /\ Len(box) >= InboxSize
  <1>0. InboxSize \in Nat /\ Len(box) \in Nat
    BY ConstantsAssumption
  <1>1. CASE Len(box) < InboxSize
    <2>1. box2 = Append(box, m)
      BY <1>1 DEF Offer
    <2>2. /\ box2 \in Seq(Sent) /\ Len(box2) = Len(box) + 1 /\ box2[Len(box) + 1] = m
          /\ \A i \in 1..Len(box) : box2[i] = box[i]
      BY <2>1
    <2>3. PICK n : n = Len(box)
      OBVIOUS
    <2>4. n + 1 <= InboxSize /\ n <= n + 1 /\ \A i \in (n + 1)..(n + 1) : i = n + 1
      BY ONLY <1>0, <1>1, <2>3
    <2> QED
      BY <2>2, <2>3, <2>4 DEF Begins
  <1>2. CASE ~(Len(box) < InboxSize)
    <2>1. box2 = box /\ Len(box) >= InboxSize
      BY <1>0, <1>2 DEF Offer
    <2>2. PICK n : n = Len(box)
      OBVIOUS
    <2>3. n <= n /\ \A i \in (n + 1)..n : FALSE
      BY ONLY <1>0, <2>2
    <2> QED
      BY <2>1, <2>2, <2>3 DEF Begins
  <1> QED
    BY <1>1, <1>2

\* The worker is done with the head of the queue of u, and offers m to the inbox,
\* or nothing.
LEMMA PopEntries ==
    ASSUME TypeInv, Entries, NEW u \in Unit, queue[u] # <<>>, queue' = [queue EXCEPT ![u] = Tail(@)], ram' = ram,
           NEW m \in Sent, m.u = u, m.k = "Entered" <=> Head(queue[u]).job.k = "Enter",
           \/ inbox' = Offer(inbox, m) /\ lost' = (lost \/ Dropped(inbox))
           \/ inbox' = inbox /\ lost' = lost /\ m.k # "Entered"
    PROVE  InboxType' /\ Entries'
  <1>1. /\ queue \in [Unit -> Seq(Item)] /\ inbox \in Seq(Sent) /\ Len(inbox) <= InboxSize
        /\ \A v \in Unit : ram[v].entering \in BOOLEAN
    BY DEF TypeInv, QueueType, InboxType, RamType, Memory
  <1>2. PICK box2 : box2 = inbox'
    OBVIOUS
  <1>3. PICK l2 : l2 = lost'
    OBVIOUS
  <1>4. /\ box2 \in Seq(Sent) /\ Len(box2) <= InboxSize /\ Begins(inbox, box2) /\ (lost => l2)
        /\ \A i \in (Len(inbox) + 1)..Len(box2) : box2[i] = m
        /\ m.k = "Entered" => \/ Len(box2) = Len(inbox) + 1 /\ box2[Len(inbox) + 1] = m
                              \/ Len(box2) = Len(inbox) /\ l2
    <2>1. CASE inbox' = Offer(inbox, m) /\ lost' = (lost \/ Dropped(inbox))
      <3>1. PICK b : b = inbox
        OBVIOUS
      <3>2. b \in Seq(Sent) /\ Len(b) <= InboxSize /\ box2 = Offer(b, m)
        BY <1>1, <1>2, <2>1, <3>1
      <3>4. /\ box2 \in Seq(Sent) /\ Len(box2) <= InboxSize /\ Begins(b, box2)
            /\ \/ Len(box2) = Len(b) + 1 /\ box2[Len(b) + 1] = m
               \/ Len(box2) = Len(b) /\ Len(b) >= InboxSize
            /\ \A i \in (Len(b) + 1)..Len(box2) : box2[i] = m
        <4>1. Len(box2) <= InboxSize
          BY <3>2, Offered
        <4>2. box2 \in Seq(Sent)
          BY <3>2, Offered
        <4>3. Begins(b, box2)
          BY <3>2, Offered
        <4>4. \/ Len(box2) = Len(b) + 1 /\ box2[Len(b) + 1] = m
              \/ Len(box2) = Len(b) /\ Len(b) >= InboxSize
          BY <3>2, Offered
        <4>5. ASSUME NEW i \in (Len(b) + 1)..Len(box2) PROVE box2[i] = m
          <5>1. PICK n : n = Len(b)
            OBVIOUS
          <5>2. PICK k : k = Len(box2)
            OBVIOUS
          <5>3. n \in Nat /\ i \in (n + 1)..k /\ (k = n + 1 \/ k = n)
            BY <3>2, <4>4, <4>5, <5>1, <5>2
          <5>4. i = n + 1 /\ k = n + 1
            BY ONLY <5>3
          <5> QED
            BY <4>4, <5>1, <5>2, <5>3, <5>4
        <4> QED
          BY <4>1, <4>2, <4>3, <4>4, <4>5
      <3>3. (lost => l2) /\ (Len(inbox) >= InboxSize => l2)
        BY <1>3, <2>1, Zenon DEF Dropped
      <3> QED
        BY <3>1, <3>3, <3>4
    <2>2. CASE inbox' = inbox /\ lost' = lost /\ m.k # "Entered"
      <3>1. PICK n \in Nat : n = Len(inbox)
        BY <1>1
      <3>2. n <= n /\ \A i \in (n + 1)..n : FALSE
        OBVIOUS
      <3> QED
        BY <1>1, <1>2, <1>3, <2>2, <3>1, <3>2 DEF Begins
    <2> QED
      BY <2>1, <2>2
  <1>5. ASSUME NEW v \in Unit, v # u PROVE Entry(queue[v], box2, v, ram[v].entering, l2)
    <2>1. Entry(queue[v], inbox, v, ram[v].entering, lost)
      BY DEF Entries
    <2>2. \A i \in (Len(inbox) + 1)..Len(box2) : ~AnswerIn(box2, v, i)
      BY <1>4, <1>5 DEF AnswerIn
    <2>3. PICK q \in Seq(Item) : q = queue[v]
      BY <1>1
    <2>4. PICK n \in Nat : n = Len(q)
      OBVIOUS
    <2>5. n <= n /\ \A i \in (n + 1)..n : FALSE
      OBVIOUS
    <2>6. Begins(q, q) /\ \A i \in (Len(q) + 1)..Len(q) : ~EnterIn(q, i)
      BY <2>4, <2>5 DEF Begins
    <2>7. Entry(q, inbox, v, ram[v].entering, lost)
      BY <2>1, <2>3
    <2>8. Entry(q, box2, v, ram[v].entering, l2)
      BY <1>1, <1>4, <2>2, <2>6, <2>7, EntryGrows
    <2> QED
      BY <2>3, <2>8
  <1>6. Entry(Tail(queue[u]), box2, u, ram[u].entering, l2)
    <2>1. PICK q \in Seq(Item) : q = queue[u] /\ q # <<>>
      BY <1>1
    <2>2. PICK e \in BOOLEAN : e = ram[u].entering
      BY <1>1
    <2>3. Entry(q, inbox, u, e, lost)
      BY <2>1, <2>2 DEF Entries
    <2>4. PICK p \in Seq(Item) : p = Tail(q)
      BY <2>1, Shifted
    <2>5. PICK n \in Nat : n = Len(p)
      OBVIOUS
    <2>6. n <= n /\ \A i \in (n + 1)..n : FALSE
      OBVIOUS
    <2>7. Begins(p, p) /\ \A i \in (Len(p) + 1)..Len(p) : ~EnterIn(p, i)
      BY <2>5, <2>6 DEF Begins
    <2>8. CASE Head(q).job.k # "Enter"
      <3>1. Entry(p, inbox, u, e, lost)
        BY <2>1, <2>3, <2>4, <2>8, EntryPops
      <3>2. \A i \in (Len(inbox) + 1)..Len(box2) : ~AnswerIn(box2, u, i)
        BY <1>4, <2>1, <2>8 DEF AnswerIn
      <3>3. Entry(p, box2, u, e, l2)
        BY <1>1, <1>4, <2>7, <3>1, <3>2, EntryGrows
      <3> QED
        BY <2>1, <2>2, <2>4, <3>3
    <2>9. CASE Head(q).job.k = "Enter"
      <3>0. q \in Seq(Item) /\ q # <<>> /\ Entry(q, inbox, u, e, lost) /\ Head(q).job.k = "Enter"
        BY <2>1, <2>3, <2>9
      <3>5. e = TRUE
        BY <3>0, EntryPops
      <3>6. \A i \in Nat : ~EnterIn(Tail(q), i) /\ ~AnswerIn(inbox, u, i)
        BY <3>0, EntryPops
      <3>1. e = TRUE /\ \A i \in Nat : ~EnterIn(p, i) /\ ~AnswerIn(inbox, u, i)
        BY <2>4, <3>5, <3>6
      <3>2. \/ Len(p) = Len(p) /\ Len(box2) = Len(inbox) + 1 /\ box2[Len(inbox) + 1].k = "Entered" /\ box2[Len(inbox) + 1].u = u
            \/ Len(p) = Len(p) /\ Len(box2) = Len(inbox) /\ l2
        BY <1>4, <2>1, <2>9
      <3>3. Entry(p, box2, u, TRUE, l2)
        BY <1>1, <1>4, <2>7, <3>1, <3>2, EntryBegins
      <3> QED
        BY <2>1, <2>2, <2>4, <3>1, <3>3
    <2> QED
      BY <2>8, <2>9
  <1>7. \A v \in Unit : Entry(queue'[v], inbox', v, ram'[v].entering, lost')
    <2>1. \A v \in Unit : queue'[v] = IF v = u THEN Tail(queue[u]) ELSE queue[v]
      BY <1>1
    <2> QED
      BY <1>2, <1>3, <1>5, <1>6, <2>1
  <1> QED
    BY <1>2, <1>4, <1>7 DEF InboxType, Entries

\* The head of a queue that is not empty.
LEMMA HeadOf ==
    ASSUME Inv, NEW u \in Unit, queue[u] # <<>>
    PROVE  /\ queue[u] \in Seq(Item) /\ Tail(queue[u]) \in Seq(Item) /\ Len(Tail(queue[u])) <= QueueSize
           /\ Head(queue[u]) \in Item /\ Head(queue[u]).job \in Job /\ Head(queue[u]) = queue[u][1] /\ 1 \in DOMAIN queue[u]
           /\ Apart(queue[u], ram[u].task.rev, row[u].task)
           /\ row[u] \in Rows /\ RowStory(row[u]) /\ ram[u].entering \in BOOLEAN
  <1>1. /\ queue[u] \in Seq(Item) /\ Len(queue[u]) <= QueueSize /\ QueueSize \in Nat
        /\ Apart(queue[u], ram[u].task.rev, row[u].task)
    BY ConstantsAssumption DEF Inv, TypeInv, QueueType, AllApart
  <1>2. row[u] \in Rows /\ RowStory(row[u]) /\ ram[u].entering \in BOOLEAN
    BY DEF Inv, TypeInv, RowType, RowStories, RamType, Memory
  <1>3. /\ Tail(queue[u]) \in Seq(Item) /\ Head(queue[u]) \in Item /\ Head(queue[u]) = queue[u][1] /\ 1 \in DOMAIN queue[u]
        /\ Len(queue[u]) \in Nat /\ Len(Tail(queue[u])) \in Nat /\ Len(Tail(queue[u])) <= Len(queue[u])
    BY <1>1, Shifted
  <1>4. PICK a, b : a = Len(queue[u]) /\ b = Len(Tail(queue[u]))
    OBVIOUS
  <1>5. a \in Nat /\ b \in Nat /\ b <= a /\ a <= QueueSize
    BY <1>1, <1>3, <1>4
  <1>6. b <= QueueSize
    BY ONLY <1>1, <1>5
  <1>7. Head(queue[u]).job \in Job
    BY <1>3 DEF Item
  <1> QED
    BY <1>1, <1>2, <1>3, <1>4, <1>6, <1>7

\* The head of the queue of u is committed or given up, and x is left in its rows.
LEMMA PopKept ==
    ASSUME Inv, NEW u \in Unit, queue[u] # <<>>, queue' = [queue EXCEPT ![u] = Tail(@)], ram' = ram, left' = left,
           NEW x \in Rows, RowStory(x), row' = [row EXCEPT ![u] = x],
           kept' = kept \/ \E f \in Forest : Takes(u, f), failures' \in 0..MaxFailures,
           NEW m \in Sent, m.u = u, m.k = "Entered" <=> Head(queue[u]).job.k = "Enter",
           \/ inbox' = Offer(inbox, m) /\ lost' = (lost \/ Dropped(inbox))
           \/ inbox' = inbox /\ lost' = lost /\ m.k # "Entered"
    PROVE  Inv'
  <1>1. TypeInv /\ Entries
    BY DEF Inv
  <1>2. InboxType' /\ Entries'
    BY <1>1, PopEntries
  <1>3. PICK q \in Seq(Item) : q = queue[u] /\ q # <<>> /\ Apart(q, ram[u].task.rev, row[u].task)
    BY HeadOf
  <1>4. PICK p \in Seq(Item) : p = Tail(q) /\ p = Tail(queue[u]) /\ Len(p) <= QueueSize
    BY <1>3, HeadOf
  <1>5. PICK rev : rev = ram[u].task.rev
    OBVIOUS
  <1>6. PICK task : task = row[u].task
    OBVIOUS
  <1>7. Apart(q, rev, task)
    BY <1>3, <1>5, <1>6
  <1>8. /\ Apart(p, rev, x.task)
        /\ \A f : Credit(p, u, f) \subseteq Credit(q, u, f)
        /\ \A f : CutIn(q, 1) => <<u, RevIn(q, 1)>> \notin Credit(p, u, f)
    <2>1. PICK task2 : task2 = x.task
      OBVIOUS
    <2>2. q \in Seq(Item) /\ q # <<>> /\ Apart(q, rev, task)
      BY <1>3, <1>7
    <2>3. Apart(Tail(q), rev, task2)
      BY <2>2, ApartPops
    <2>4. \A f : Credit(Tail(q), u, f) \subseteq Credit(q, u, f)
      BY <2>2, ApartPops
    <2>5. \A f : CutIn(q, 1) => <<u, RevIn(q, 1)>> \notin Credit(Tail(q), u, f)
      BY <2>2, ApartPops
    <2> QED
      BY <1>4, <2>1, <2>3, <2>4, <2>5
  <1>9. queue' = [queue EXCEPT ![u] = p]
    BY <1>4
  <1>10. Apart(p, ram[u].task.rev, x.task)
    BY <1>5, <1>8
  <1>11. /\ \A f : Credit(p, u, f) \subseteq Credit(queue[u], u, f)
         /\ \A f : CutIn(queue[u], 1) => <<u, RevIn(queue[u], 1)>> \notin Credit(p, u, f)
    BY <1>3, <1>8
  <1> QED
    BY <1>2, <1>4, <1>9, <1>10, <1>11, WorkerKept

LEMMA CommitStep ==
    ASSUME Inv, NEW u \in Unit, NEW treaty \in BOOLEAN, Commit(u, treaty)
    PROVE  Inv'
  <1>1. queue[u] # <<>> /\ Write(u, treaty) /\ queue' = [queue EXCEPT ![u] = Tail(@)] /\ ram' = ram /\ left' = left /\ failures' = failures
    BY DEF Commit, Runnable
  <1>2. kept' = kept \/ \E f \in Forest : Takes(u, f)
    BY <1>1, WriteTakes
  <1>3. PICK x \in Rows : RowStory(x) /\ row' = [row EXCEPT ![u] = x]
    BY <1>1, WriteTakes
  <1>4. PICK j \in Job : j = Head(queue[u]).job
    BY <1>1, HeadOf
  <1>5. failures' \in 0..MaxFailures
    BY <1>1 DEF Inv, TypeInv, RowType
  <1>6. CASE j.k = "Enter"
    <2>1. PICK ok \in BOOLEAN : ok = Enters(row[u], j.city, treaty)
      BY DEF Enters
    <2>2. PICK m : m = Message("Entered", u, 0, j.city, NoTile, ok)
      OBVIOUS
    <2>3. j.city \in City
      BY <1>6, Kinds DEF EnterJobs
    <2>4. m \in Sent /\ m.u = u /\ m.k = "Entered"
      BY <2>2, <2>3 DEF Message, Sent, Messages
    <2>5. inbox' = Offer(inbox, m) /\ lost' = (lost \/ Dropped(inbox))
      BY <1>4, <1>6, <2>1, <2>2 DEF Commit
    <2>6. m.k = "Entered" <=> Head(queue[u]).job.k = "Enter"
      BY <1>4, <1>6, <2>4
    <2> QED
      BY <1>1, <1>2, <1>3, <1>5, <2>4, <2>5, <2>6, PopKept
  <1>7. CASE j.k # "Enter"
    <2>1. PICK m : m = FailureOf(u, j)
      OBVIOUS
    <2>2. m \in Sent /\ m.u = u /\ m.k # "Entered"
      BY <1>7, <2>1, FailureTyped
    <2>3. inbox' = inbox /\ lost' = lost
      BY <1>4, <1>7 DEF Commit
    <2>4. m.k = "Entered" <=> Head(queue[u]).job.k = "Enter"
      BY <1>4, <1>7, <2>2
    <2> QED
      BY <1>1, <1>2, <1>3, <1>5, <2>2, <2>3, <2>4, PopKept
  <1> QED
    BY <1>6, <1>7

LEMMA GiveUpStep ==
    ASSUME Inv, NEW u \in Unit, GiveUp(u)
    PROVE  Inv'
  <1>1. queue[u] # <<>> /\ queue' = [queue EXCEPT ![u] = Tail(@)] /\ ram' = ram /\ left' = left /\ kept' = kept /\ row' = row
    BY DEF GiveUp
  <1>2. PICK j \in Job : j = Head(queue[u]).job
    BY <1>1, HeadOf
  <1>3. PICK m : m = FailureOf(u, j)
    OBVIOUS
  <1>4. m \in Sent /\ m.u = u /\ (m.k = "Entered" <=> j.k = "Enter")
    BY <1>3, FailureTyped
  <1>5. inbox' = Offer(inbox, m) /\ lost' = (lost \/ Dropped(inbox))
    BY <1>2, <1>3 DEF GiveUp
  <1>6. PICK x \in Rows : x = row[u] /\ RowStory(x)
    BY <1>1, HeadOf
  <1>7. row' = [row EXCEPT ![u] = x]
    BY <1>1, <1>6 DEF Inv, TypeInv, RowType
  <1>8. failures' \in 0..MaxFailures
    <2>1. failures \in 0..MaxFailures /\ MaxFailures \in Nat
      BY ConstantsAssumption DEF Inv, TypeInv, RowType
    <2>2. failures' = IF failures < MaxFailures THEN failures + 1 ELSE failures
      BY DEF GiveUp
    <2> QED
      BY ONLY <2>1, <2>2
  <1>9. m.k = "Entered" <=> Head(queue[u]).job.k = "Enter"
    BY <1>2, <1>4
  <1> QED
    BY <1>1, <1>4, <1>5, <1>6, <1>7, <1>8, <1>9, PopKept

LEMMA CommitUnackedStep ==
    ASSUME Inv, NEW u \in Unit, CommitUnacked(u)
    PROVE  Inv'
  <1>1. /\ queue[u] # <<>> /\ Write(u, TRUE) /\ queue' = [queue EXCEPT ![u][1].done = TRUE] /\ ram' = ram /\ left' = left
        /\ inbox' = inbox /\ lost' = lost /\ failures' = failures + 1 /\ failures < MaxFailures
    BY DEF CommitUnacked, Runnable
  <1>2. kept' = kept \/ \E f \in Forest : Takes(u, f)
    BY <1>1, WriteTakes
  <1>3. PICK x \in Rows : /\ RowStory(x) /\ row' = [row EXCEPT ![u] = x]
                          /\ Head(queue[u]).job.k = "Task" => x.task = Head(queue[u]).job.task
    BY <1>1, WriteTakes
  <1>4. PICK q \in Seq(Item) : q = queue[u] /\ q # <<>> /\ Head(queue[u]) = q[1]
    BY <1>1, HeadOf
  <1>5. PICK p : p = [q EXCEPT ![1].done = TRUE]
    OBVIOUS
  <1>6. PICK rev : rev = ram[u].task.rev
    OBVIOUS
  <1>7. PICK task : task = row[u].task
    OBVIOUS
  <1>8. PICK task2 : task2 = x.task
    OBVIOUS
  <1>9. q \in Seq(Item) /\ q # <<>> /\ Apart(q, rev, task) /\ (q[1].job.k = "Task" => task2 = q[1].job.task)
    BY <1>1, <1>3, <1>4, <1>5, <1>6, <1>7, <1>8, HeadOf
  <1>10. /\ p \in Seq(Item) /\ Len(p) = Len(q) /\ DOMAIN p = DOMAIN q
         /\ p[1].done = TRUE /\ \A i \in DOMAIN q : p[i].job = q[i].job /\ (i # 1 => p[i] = q[i])
    <2>1. 1 \in DOMAIN q /\ \A i \in DOMAIN q : q[i] \in Item
      BY <1>9, Shifted
    <2>2. DOMAIN p = DOMAIN q /\ \A i \in DOMAIN q : p[i] = IF i = 1 THEN [q[1] EXCEPT !.done = TRUE] ELSE q[i]
      BY <1>5, <2>1
    <2>3. ASSUME NEW i \in DOMAIN q PROVE p[i].job = q[i].job /\ p[i] \in Item
      <3>1. PICK e \in Item : e = q[i]
        BY <2>1
      <3>2. p[i] = e \/ p[i] = [e EXCEPT !.done = TRUE]
        BY <2>2, <3>1
      <3> QED
        BY <3>1, <3>2 DEF Item
    <2>4. PICK n \in Nat : n = Len(q) /\ DOMAIN q = 1..n
      OBVIOUS
    <2>5. p \in [1..n -> Item]
      BY <1>5, <2>2, <2>3, <2>4
    <2>6. p[1].done = TRUE
      BY <2>1, <2>2 DEF Item
    <2> QED
      BY <2>2, <2>3, <2>4, <2>5, <2>6
  <1>11. /\ q \in Seq(Item) /\ q # <<>> /\ Apart(q, rev, task) /\ (q[1].job.k = "Task" => task2 = q[1].job.task)
         /\ DOMAIN p = DOMAIN q /\ p[1].done = TRUE /\ (\A i \in DOMAIN q : p[i].job = q[i].job /\ (i # 1 => p[i] = q[i]))
    BY <1>9, <1>10
  <1>12. Apart(p, rev, task2)
    BY <1>11, ApartDone
  <1>13. /\ \A f : Credit(p, u, f) \subseteq Credit(q, u, f)
         /\ \A f : CutIn(q, 1) => <<u, RevIn(q, 1)>> \notin Credit(p, u, f)
    BY <1>11, ApartDone
  <1>14. queue \in [Unit -> Seq(Item)] /\ Len(q) <= QueueSize
    BY <1>4 DEF Inv, TypeInv, QueueType
  <1>15. queue' = [queue EXCEPT ![u] = p] /\ Len(p) <= QueueSize
    BY <1>1, <1>4, <1>5, <1>10, <1>14
  <1>16. failures' \in 0..MaxFailures
    <2>1. failures \in 0..MaxFailures /\ MaxFailures \in Nat
      BY ConstantsAssumption DEF Inv, TypeInv, RowType
    <2> QED
      BY ONLY <1>1, <2>1
  <1>17. InboxType'
    BY <1>1 DEF Inv, TypeInv, InboxType
  <1>18. Entries'
    <2>1. ASSUME NEW v \in Unit PROVE Entry(queue'[v], inbox', v, ram'[v].entering, lost')
      <3>1. Entry(queue[v], inbox, v, ram[v].entering, lost)
        BY DEF Inv, Entries
      <3>2. \A i : EnterIn(queue'[v], i) <=> EnterIn(queue[v], i)
        <4>1. queue'[v] = IF v = u THEN p ELSE queue[v]
          BY <1>14, <1>15
        <4>2. \A i : EnterIn(p, i) <=> EnterIn(q, i)
          BY <1>10 DEF EnterIn
        <4> QED
          BY <1>4, <4>1, <4>2
      <3>3. Entry(queue'[v], inbox, v, ram[v].entering, lost)
        BY <3>1, <3>2, Zenon DEF Entry
      <3> QED
        BY <1>1, <3>3
    <2> QED
      BY <2>1 DEF Entries
  <1>19. Apart(p, ram[u].task.rev, x.task)
    BY <1>6, <1>8, <1>12
  <1>20. /\ \A f : Credit(p, u, f) \subseteq Credit(queue[u], u, f)
         /\ \A f : CutIn(queue[u], 1) => <<u, RevIn(queue[u], 1)>> \notin Credit(p, u, f)
    BY <1>4, <1>13
  <1> QED
    BY <1>1, <1>2, <1>3, <1>10, <1>15, <1>16, <1>17, <1>18, <1>19, <1>20, WorkerKept

-----------------------------------------------------------------------------
(* Tiles, the start of the process, and the theorems.                      *)

LEMMA RegrowStep ==
    ASSUME Inv, NEW f \in Forest, Regrow(f)
    PROVE  Inv'
  <1>1. /\ left' = [left EXCEPT ![f] = Loads] /\ kept' = [kept EXCEPT ![f] = Loads]
        /\ ram' = ram /\ queue' = queue /\ inbox' = inbox /\ row' = row /\ failures' = failures /\ lost' = lost
        /\ \A u \in Unit : \A i \in DOMAIN queue[u] : queue[u][i].job.k = "Task" => queue[u][i].job.load.tile # f
    BY DEF Regrow
  <1>2. left \in [Forest -> 0..Loads] /\ kept \in [Forest -> 0..Loads] /\ Loads \in Nat /\ Loads \in 0..Loads /\ Loads <= Loads
    <2>1. Loads \in Nat
      BY ConstantsAssumption
    <2>2. Loads \in 0..Loads /\ Loads <= Loads
      BY ONLY <2>1
    <2> QED
      BY <2>1, <2>2 DEF Inv, TypeInv, RamType, RowType
  <1>3. left' \in [Forest -> 0..Loads] /\ kept' \in [Forest -> 0..Loads]
    BY <1>1, <1>2
  <1>4. TypeInv' /\ Stories' /\ RowStories' /\ Entries' /\ AllApart'
    BY <1>1, <1>3 DEF Inv, TypeInv, RamType, RowType, QueueType, InboxType, Stories, RowStories, Entries, AllApart
  <1>5. Credits(queue, f) = {}
    <2> SUFFICES ASSUME NEW c \in Credits(queue, f) PROVE FALSE
      OBVIOUS
    <2>1. PICK u \in Unit : c \in Credit(queue[u], u, f)
      BY DEF Credits
    <2>2. PICK i \in DOMAIN queue[u] : CutIn(queue[u], i) /\ queue[u][i].job.load.tile = f
      BY <2>1 DEF Credit, Waits
    <2> QED
      BY <1>1, <2>2 DEF CutIn
  <1>6. ASSUME NEW g \in Forest
        PROVE  IsFiniteSet(Credits(queue, g)) /\ Cardinality(Credits(queue, g)) + left'[g] <= kept'[g]
    <2>1. CASE g = f
      <3>1. Cardinality(Credits(queue, g)) = 0 /\ IsFiniteSet(Credits(queue, g))
        BY <1>5, <2>1, FS_EmptySet
      <3>2. left'[g] = Loads /\ kept'[g] = Loads
        BY <1>1, <1>2, <2>1
      <3>3. 0 + Loads <= Loads
        BY ONLY <1>2
      <3> QED
        BY <3>1, <3>2, <3>3
    <2>2. CASE g # f
      BY <1>1, <1>2, <2>2 DEF Inv, Balance
    <2> QED
      BY <2>1, <2>2
  <1>7. Balance'
    BY <1>1, <1>6 DEF Balance
  <1> QED
    BY <1>4, <1>7 DEF Inv

\* The rows of a unit after the load check.
LEMMA CheckedFields ==
    ASSUME NEW r \in Rows
    PROVE  LET c == Checked(r)
           IN /\ c \in Rows /\ c.walk = r.walk /\ c.at = r.at /\ c.host = r.host
              /\ r.host # NoCity => c.status = "GARRISONED" /\ c.task = NoTask
              /\ r.host = NoCity =>
                   /\ c.task = IF r.task.phase = "WORKING" /\ r.status # "WORKING" THEN NoTask ELSE r.task
                   /\ c.status = CASE r.status = "WORKING" -> (IF r.task.phase = "WORKING" THEN "WORKING" ELSE "IDLE")
                                   [] r.status = "MOVING" -> "MOVING"
                                   [] OTHER -> "IDLE"
  <1>1. /\ r.status \in Status /\ r.at \in Tile /\ r.walk \in Walk /\ r.task \in Task /\ r.host \in City \cup {NoCity}
        /\ r = [status |-> r.status, at |-> r.at, walk |-> r.walk, task |-> r.task, host |-> r.host]
    BY DEF Rows
  <1>2. PICK st : st = CASE r.host # NoCity -> "GARRISONED"
                         [] r.host = NoCity /\ r.status = "GARRISONED" -> "IDLE"
                         [] OTHER -> r.status
    OBVIOUS
  <1>3. PICK task : task = IF /\ r.task # NoTask /\ st # "GARRISONED"
                              /\ r.task.phase = "WORKING" => st = "WORKING"
                           THEN r.task ELSE NoTask
    OBVIOUS
  <1>4. PICK s2 : s2 = IF st = "WORKING" /\ task.phase # "WORKING" THEN "IDLE" ELSE st
    OBVIOUS
  <1>5. PICK c : c = Checked(r)
    OBVIOUS
  <1>6. c = [r EXCEPT !.task = task, !.status = s2]
    BY <1>2, <1>3, <1>4, <1>5 DEF Checked
  <1>7. c.walk = r.walk /\ c.at = r.at /\ c.host = r.host /\ c.task = task /\ c.status = s2
        /\ c = [status |-> s2, at |-> r.at, walk |-> r.walk, task |-> task, host |-> r.host]
    BY <1>1, <1>6
  <1>8. st \in Status /\ s2 \in Status /\ task \in Task
    BY <1>1, <1>2, <1>3, <1>4, Nothing DEF Status
  <1>9. c \in Rows
    BY <1>1, <1>7, <1>8 DEF Rows
  <1>10. CASE r.host # NoCity
    <2>1. st = "GARRISONED" /\ s2 = "GARRISONED" /\ task = NoTask
      BY <1>2, <1>3, <1>4, <1>10
    <2> QED
      BY <1>5, <1>7, <1>9, <1>10, <2>1
  <1>11. CASE r.host = NoCity
    <2>1. st = (IF r.status = "GARRISONED" THEN "IDLE" ELSE r.status) /\ st # "GARRISONED" /\ r.status \in {"IDLE", "MOVING", "WORKING", "GARRISONED"}
      BY <1>1, <1>2, <1>11 DEF Status
    <2>2. task = IF r.task.phase = "WORKING" /\ r.status # "WORKING" THEN NoTask ELSE r.task
      BY <1>3, <2>1
    <2>3. s2 = CASE r.status = "WORKING" -> (IF r.task.phase = "WORKING" THEN "WORKING" ELSE "IDLE")
                 [] r.status = "MOVING" -> "MOVING"
                 [] OTHER -> "IDLE"
      BY <1>4, <2>1, <2>2
    <2> QED
      BY <1>5, <1>7, <1>9, <1>11, <2>2, <2>3
  <1> QED
    BY <1>10, <1>11

\* The rows c after the movement is resumed or ended.
LEMMA HydratedFields ==
    ASSUME NEW c \in Rows, NEW late
    PROVE  LET h == Hydrated(c, late)
           IN /\ h \in Rows /\ h.task = c.task /\ h.host = c.host
              /\ c.walk = NoWalk => h.walk = NoWalk /\ h.at = c.at /\ h.status = IF c.status = "MOVING" THEN "IDLE" ELSE c.status
              /\ c.walk # NoWalk /\ c.status = "GARRISONED" => h.walk = NoWalk /\ h.at = c.at /\ h.status = "GARRISONED"
              /\ c.walk # NoWalk /\ c.status # "GARRISONED" =>
                   \/ h.walk = c.walk /\ h.at = c.at /\ h.status = "MOVING"
                   \/ late /\ ~IsLeg(c.task) /\ h.walk = NoWalk /\ h.status = "IDLE"
  <1>1. /\ c.status \in Status /\ c.at \in Tile /\ c.walk \in Walk /\ c.task \in Task /\ c.host \in City \cup {NoCity}
        /\ c = [status |-> c.status, at |-> c.at, walk |-> c.walk, task |-> c.task, host |-> c.host]
        /\ c.walk.to \in Tile
    BY DEF Rows, Walk, WalkType
  <1>2. PICK h : h = Hydrated(c, late)
    OBVIOUS
  <1>3. CASE c.walk = NoWalk /\ c.status = "MOVING"
    <2>1. h = [c EXCEPT !.status = "IDLE"]
      BY <1>2, <1>3 DEF Hydrated
    <2>2. h = [status |-> "IDLE", at |-> c.at, walk |-> c.walk, task |-> c.task, host |-> c.host]
      BY <1>1, <2>1
    <2>3. h \in Rows
      BY <1>1, <2>2 DEF Rows, Status
    <2> QED
      BY <1>2, <1>3, <2>2, <2>3
  <1>4. CASE c.walk = NoWalk /\ c.status # "MOVING"
    <2>1. h = c
      BY <1>2, <1>4 DEF Hydrated
    <2> QED
      BY <1>2, <1>4, <2>1
  <1>5. CASE c.walk # NoWalk /\ c.status = "GARRISONED"
    <2>1. h = [c EXCEPT !.walk = NoWalk]
      BY <1>2, <1>5 DEF Hydrated
    <2>2. h = [status |-> c.status, at |-> c.at, walk |-> NoWalk, task |-> c.task, host |-> c.host]
      BY <1>1, <2>1
    <2>3. h \in Rows
      BY <1>1, <2>2, Nothing DEF Rows
    <2> QED
      BY <1>2, <1>5, <2>2, <2>3
  <1>6. CASE c.walk # NoWalk /\ c.status # "GARRISONED" /\ late /\ ~IsLeg(c.task)
    <2>1. h = [c EXCEPT !.walk = NoWalk, !.status = "IDLE", !.at = c.walk.to]
      BY <1>2, <1>6 DEF Hydrated
    <2>2. h = [status |-> "IDLE", at |-> c.walk.to, walk |-> NoWalk, task |-> c.task, host |-> c.host]
      BY <1>1, <2>1
    <2>3. h \in Rows
      BY <1>1, <2>2, Nothing DEF Rows, Status
    <2>4. h.task = c.task /\ h.host = c.host /\ h.walk = NoWalk /\ h.status = "IDLE"
      BY <2>2
    <2> QED
      BY <1>2, <1>6, <2>3, <2>4, Zenon
  <1>7. CASE c.walk # NoWalk /\ c.status # "GARRISONED" /\ ~(late /\ ~IsLeg(c.task))
    <2>1. h = [c EXCEPT !.status = "MOVING"]
      BY <1>2, <1>7 DEF Hydrated
    <2>2. h = [status |-> "MOVING", at |-> c.at, walk |-> c.walk, task |-> c.task, host |-> c.host]
      BY <1>1, <2>1
    <2>3. h \in Rows
      BY <1>1, <2>2 DEF Rows, Status
    <2> QED
      BY <1>2, <1>7, <2>2, <2>3
  <1> QED
    BY <1>3, <1>4, <1>5, <1>6, <1>7

\* The rows h after the reconciliation of the tasks.
LEMMA ReconciledFields ==
    ASSUME NEW h \in Rows
    PROVE  LET r == Reconciled(h)
           IN /\ r \in Rows /\ r.walk = h.walk /\ r.at = h.at /\ r.host = h.host
              /\ IsLeg(h.task) /\ h.walk = NoWalk => r.task = NoTask /\ r.status = "IDLE"
              /\ h.task.phase = "WORKING" /\ (h.status # "WORKING" \/ h.at # h.task.target) =>
                   r.task = NoTask /\ r.status = IF h.walk = NoWalk THEN "IDLE" ELSE h.status
              /\ \/ IsLeg(h.task) /\ h.walk = NoWalk
                 \/ h.task.phase = "WORKING" /\ (h.status # "WORKING" \/ h.at # h.task.target)
                 \/ r = h
  <1>1. /\ h.status \in Status /\ h.at \in Tile /\ h.walk \in Walk /\ h.task \in Task /\ h.host \in City \cup {NoCity}
        /\ h = [status |-> h.status, at |-> h.at, walk |-> h.walk, task |-> h.task, host |-> h.host]
    BY DEF Rows
  <1>2. PICK r : r = Reconciled(h)
    OBVIOUS
  <1>3. CASE IsLeg(h.task) /\ h.walk = NoWalk
    <2>1. r = [h EXCEPT !.task = NoTask, !.status = "IDLE"] /\ h.task.phase # "WORKING"
      BY <1>2, <1>3 DEF Reconciled, IsLeg
    <2>2. r = [status |-> "IDLE", at |-> h.at, walk |-> h.walk, task |-> NoTask, host |-> h.host]
      BY <1>1, <2>1
    <2>3. r \in Rows
      BY <1>1, <2>2, Nothing DEF Rows, Status
    <2> QED
      BY <1>2, <1>3, <2>1, <2>2, <2>3
  <1>4. CASE h.task.phase = "WORKING" /\ (h.status # "WORKING" \/ h.at # h.task.target)
    <2>1. PICK s2 : s2 = IF h.walk = NoWalk THEN "IDLE" ELSE h.status
      OBVIOUS
    <2>2. r = [h EXCEPT !.task = NoTask, !.status = s2] /\ ~IsLeg(h.task)
      BY <1>2, <1>4, <2>1 DEF Reconciled, IsLeg
    <2>3. r = [status |-> s2, at |-> h.at, walk |-> h.walk, task |-> NoTask, host |-> h.host]
      BY <1>1, <2>2
    <2>4. r \in Rows
      BY <1>1, <2>1, <2>3, Nothing DEF Rows, Status
    <2> QED
      BY <1>2, <1>4, <2>1, <2>2, <2>3, <2>4
  <1>5. CASE ~(IsLeg(h.task) /\ h.walk = NoWalk) /\ ~(h.task.phase = "WORKING" /\ (h.status # "WORKING" \/ h.at # h.task.target))
    <2>1. r = h
      BY <1>2, <1>5 DEF Reconciled
    <2> QED
      BY <1>2, <1>5, <2>1
  <1> QED
    BY <1>3, <1>4, <1>5

\* What a start reads in the rows of a unit, and what it leaves there.
LEMMA Restarted ==
    ASSUME NEW r \in Rows, RowStory(r), NEW late
    PROVE  /\ MemoryOf(r, late) \in Memory /\ Story(MemoryOf(r, late)) /\ MemoryOf(r, late).entering = FALSE
           /\ RowOf(r, late) \in Rows /\ RowStory(RowOf(r, late))
  <1>1. PICK c : c = Checked(r)
    OBVIOUS
  <1>2. PICK h : h = Hydrated(c, late)
    OBVIOUS
  <1>3. PICK m : m = Recovered(r, late)
    OBVIOUS
  <1>4. m = Reconciled(h)
    BY <1>1, <1>2, <1>3 DEF Recovered
  <1>5. /\ c \in Rows /\ RowStory(c)
        /\ c.status = "GARRISONED" <=> c.host # NoCity
        /\ c.status = "GARRISONED" => c.task = NoTask
        /\ c.task.phase = "WORKING" <=> c.status = "WORKING"
    <2>1. /\ c \in Rows /\ c.walk = r.walk /\ c.at = r.at /\ c.host = r.host
          /\ r.host # NoCity => c.status = "GARRISONED" /\ c.task = NoTask
          /\ r.host = NoCity =>
               /\ c.task = IF r.task.phase = "WORKING" /\ r.status # "WORKING" THEN NoTask ELSE r.task
               /\ c.status = CASE r.status = "WORKING" -> (IF r.task.phase = "WORKING" THEN "WORKING" ELSE "IDLE")
                               [] r.status = "MOVING" -> "MOVING"
                               [] OTHER -> "IDLE"
      BY <1>1, CheckedFields
    <2> QED
      BY <2>1, Nothing DEF RowStory
  <1>6. /\ h \in Rows /\ h.host = c.host /\ h.task = c.task
        /\ c.walk = NoWalk => h.walk = NoWalk /\ h.at = c.at /\ h.status = IF c.status = "MOVING" THEN "IDLE" ELSE c.status
        /\ c.walk # NoWalk /\ c.status = "GARRISONED" => h.walk = NoWalk /\ h.at = c.at /\ h.status = "GARRISONED"
        /\ c.walk # NoWalk /\ c.status # "GARRISONED" =>
             \/ h.walk = c.walk /\ h.at = c.at /\ h.status = "MOVING"
             \/ late /\ ~IsLeg(c.task) /\ h.walk = NoWalk /\ h.status = "IDLE"
    <2>1. c \in Rows
      BY <1>5
    <2> QED
      BY ONLY <1>2, <2>1, HydratedFields
  <1>7. /\ RowStory(h)
        /\ h.status = "GARRISONED" <=> h.host # NoCity
        /\ h.status = "MOVING" <=> h.walk # NoWalk
        /\ h.status = "GARRISONED" => h.task = NoTask
        /\ h.status = "WORKING" => h.task.phase = "WORKING"
    BY <1>5, <1>6, Nothing DEF RowStory
  <1>8. /\ m \in Rows /\ m.walk = h.walk /\ m.at = h.at /\ m.host = h.host
        /\ IsLeg(h.task) /\ h.walk = NoWalk => m.task = NoTask /\ m.status = "IDLE"
        /\ h.task.phase = "WORKING" /\ (h.status # "WORKING" \/ h.at # h.task.target) =>
             m.task = NoTask /\ m.status = IF h.walk = NoWalk THEN "IDLE" ELSE h.status
        /\ \/ IsLeg(h.task) /\ h.walk = NoWalk
           \/ h.task.phase = "WORKING" /\ (h.status # "WORKING" \/ h.at # h.task.target)
           \/ m = h
    BY <1>4, <1>6, ReconciledFields
  <1>9. /\ RowStory(m)
        /\ m.status = "GARRISONED" <=> m.host # NoCity
        /\ m.status = "MOVING" <=> m.walk # NoWalk
        /\ IsLeg(m.task) => m.walk = LegOf(m.task)
        /\ m.status = "WORKING" => m.task.phase = "WORKING" /\ m.at = m.task.target
    <2>1. CASE IsLeg(h.task) /\ h.walk = NoWalk
      BY <1>7, <1>8, <2>1, Nothing DEF RowStory
    <2>2. CASE h.task.phase = "WORKING" /\ (h.status # "WORKING" \/ h.at # h.task.target)
      BY <1>7, <1>8, <2>2, Nothing DEF RowStory
    <2>3. CASE m = h /\ ~(IsLeg(h.task) /\ h.walk = NoWalk)
               /\ ~(h.task.phase = "WORKING" /\ (h.status # "WORKING" \/ h.at # h.task.target))
      BY <1>7, <2>3 DEF RowStory
    <2> QED
      BY <1>8, <2>1, <2>2, <2>3
  <1>10. /\ m.status \in Status /\ m.at \in Tile /\ m.walk \in Walk /\ m.task \in Task /\ m.host \in City \cup {NoCity}
         /\ m = [status |-> m.status, at |-> m.at, walk |-> m.walk, task |-> m.task, host |-> m.host]
    BY <1>8 DEF Rows
  <1>11. /\ MemoryOf(r, late) \in Memory /\ Story(MemoryOf(r, late)) /\ MemoryOf(r, late).entering = FALSE
    <2>1. PICK d \in BOOLEAN : d = (m.status = "IDLE" /\ m # Checked(r))
      OBVIOUS
    <2>2. PICK x : x = MemoryOf(r, late)
      OBVIOUS
    <2>3. x = [Idle(m.at) EXCEPT !.status = m.status, !.walk = m.walk, !.task = m.task, !.inside = m.host, !.dirty = d]
      BY <1>3, <2>1, <2>2 DEF MemoryOf
    <2>4. x = [status |-> m.status, at |-> m.at, walk |-> m.walk, task |-> m.task, entering |-> FALSE, exiting |-> FALSE,
               inside |-> m.host, dirty |-> d, pend |-> {}]
      BY <2>3 DEF Idle
    <2>5. {} \in Numbers
      BY FS_EmptySet DEF Numbers
    <2>6. x \in Memory
      BY <1>10, <2>4, <2>5 DEF Memory
    <2>7. Story(x)
      BY <1>9, <2>4 DEF Story
    <2> QED
      BY <2>2, <2>4, <2>6, <2>7
  <1>12. RowOf(r, late) \in Rows /\ RowStory(RowOf(r, late))
    <2>1. PICK x : x = RowOf(r, late)
      OBVIOUS
    <2>2. x = m \/ x = [m EXCEPT !.status = c.status]
      BY <1>1, <1>3, <2>1 DEF RowOf
    <2>3. c.status \in Status
      BY <1>5 DEF Rows
    <2>4. x = [status |-> m.status, at |-> m.at, walk |-> m.walk, task |-> m.task, host |-> m.host]
          \/ x = [status |-> c.status, at |-> m.at, walk |-> m.walk, task |-> m.task, host |-> m.host]
      BY <1>10, <2>2
    <2>5. x \in Rows /\ RowStory(x)
      BY <1>9, <1>10, <2>3, <2>4 DEF Rows, RowStory
    <2> QED
      BY <2>1, <2>5
  <1> QED
    BY <1>11, <1>12

LEMMA EmptyQueues ==
    ASSUME NEW qs, qs = [u \in Unit |-> <<>>]
    PROVE  \A f : Credits(qs, f) = {}
  BY DEF Credits, Credit, Waits

LEMMA NothingQueued ==
    ASSUME NEW rev, NEW task, NEW u, NEW l
    PROVE  Apart(<<>>, rev, task) /\ Entry(<<>>, <<>>, u, FALSE, l)
  BY DEF Apart, CutIn, Entry, EnterIn, AnswerIn

\* Every queue and the inbox are empty, and the tiles are those of the database.
LEMMA Quiescent ==
    ASSUME NEW qs, qs = [u \in Unit |-> <<>>], NEW k \in [Forest -> 0..Loads]
    PROVE  /\ qs \in [Unit -> Seq(Item)] /\ \A u \in Unit : Len(qs[u]) <= QueueSize
           /\ <<>> \in Seq(Sent) /\ Len(<<>>) <= InboxSize
           /\ \A f \in Forest : IsFiniteSet(Credits(qs, f)) /\ Cardinality(Credits(qs, f)) + k[f] <= k[f]
  <1>1. /\ QueueSize \in Nat /\ InboxSize \in Nat /\ \A u \in Unit : qs[u] = <<>>
    BY ConstantsAssumption
  <1>2. Len(<<>>) = 0 /\ 0 <= QueueSize /\ 0 <= InboxSize
    BY <1>1
  <1>3. ASSUME NEW f \in Forest PROVE IsFiniteSet(Credits(qs, f)) /\ Cardinality(Credits(qs, f)) + k[f] <= k[f]
    <2>1. Credits(qs, f) = {}
      BY EmptyQueues
    <2>2. IsFiniteSet(Credits(qs, f)) /\ Cardinality(Credits(qs, f)) = 0
      BY <2>1, FS_EmptySet
    <2>3. PICK n : n = k[f]
      OBVIOUS
    <2>4. n \in 0..Loads /\ Loads \in Nat
      BY <2>3, ConstantsAssumption
    <2>5. 0 + n <= n
      BY ONLY <2>4
    <2> QED
      BY <2>2, <2>3, <2>5
  <1> QED
    BY <1>1, <1>2, <1>3

LEMMA RestartStep ==
    ASSUME Inv, NEW late \in SUBSET Unit, Restart(late)
    PROVE  Inv'
  <1>1. /\ row' = [u \in Unit |-> RowOf(row[u], u \in late)] /\ ram' = [u \in Unit |-> MemoryOf(row[u], u \in late)]
        /\ left' = kept /\ kept' = kept /\ failures' = failures
        /\ queue' = [u \in Unit |-> <<>>] /\ inbox' = <<>>
    BY DEF Restart
  <1>2. kept \in [Forest -> 0..Loads] /\ failures \in 0..MaxFailures
    BY DEF Inv, TypeInv, RowType
  <1>3. ASSUME NEW u \in Unit
        PROVE  /\ ram'[u] \in Memory /\ Story(ram'[u]) /\ ram'[u].entering = FALSE
               /\ row'[u] \in Rows /\ RowStory(row'[u])
    <2>1. PICK r \in Rows : r = row[u] /\ RowStory(r)
      BY DEF Inv, TypeInv, RowType, RowStories
    <2>2. PICK b : b = (u \in late)
      OBVIOUS
    <2>3. ram'[u] = MemoryOf(r, b) /\ row'[u] = RowOf(r, b)
      BY <1>1, <2>1, <2>2
    <2>4. /\ MemoryOf(r, b) \in Memory /\ Story(MemoryOf(r, b)) /\ MemoryOf(r, b).entering = FALSE
          /\ RowOf(r, b) \in Rows /\ RowStory(RowOf(r, b))
      BY <2>1, Restarted
    <2> QED
      BY <2>3, <2>4
  <1>4. ram' \in [Unit -> Memory] /\ row' \in [Unit -> Rows]
    BY <1>1, <1>3
  <1>5. RamType' /\ RowType' /\ Stories' /\ RowStories'
    BY <1>1, <1>2, <1>3, <1>4 DEF RamType, RowType, Stories, RowStories
  <1>6. QueueType' /\ InboxType' /\ Balance'
    <2>1. PICK qs : qs = queue' /\ qs = [u \in Unit |-> <<>>]
      BY <1>1
    <2>2. PICK k \in [Forest -> 0..Loads] : k = kept
      BY <1>2
    <2>3. qs \in [Unit -> Seq(Item)] /\ (\A u \in Unit : Len(qs[u]) <= QueueSize) /\ <<>> \in Seq(Sent) /\ Len(<<>>) <= InboxSize
      BY <2>1, Quiescent
    <2>4. \A f \in Forest : IsFiniteSet(Credits(qs, f)) /\ Cardinality(Credits(qs, f)) + k[f] <= k[f]
      BY <2>1, Quiescent
    <2> QED
      BY <1>1, <2>1, <2>2, <2>3, <2>4 DEF QueueType, InboxType, Balance
  <1>7. Entries' /\ AllApart'
    BY <1>1, <1>3, NothingQueued DEF Entries, AllApart
  <1> QED
    BY <1>5, <1>6, <1>7 DEF Inv, TypeInv

LEMMA InitStep == Init => Inv
  <1> SUFFICES ASSUME Init PROVE Inv
    OBVIOUS
  <1>1. PICK host \in [Unit -> City \cup {NoCity}] :
          LET st(u) == IF host[u] = NoCity THEN "IDLE" ELSE "GARRISONED"
          IN /\ ram = [u \in Unit |-> [Idle(Depot) EXCEPT !.status = st(u), !.inside = host[u]]]
             /\ row = [u \in Unit |-> [status |-> st(u), at |-> Depot, walk |-> NoWalk, task |-> NoTask, host |-> host[u]]]
    BY DEF Init
  <1>2. /\ left = [f \in Forest |-> Loads] /\ kept = [f \in Forest |-> Loads] /\ queue = [u \in Unit |-> <<>>]
        /\ inbox = <<>> /\ failures = 0
    BY DEF Init
  <1>3. NoTask \in Task /\ NoWalk \in Walk /\ ~IsLeg(NoTask) /\ NoTask.phase = "NONE" /\ Depot \in Tile /\ {} \in Numbers
    BY FS_EmptySet DEF NoTask, NoWalk, Task, Walk, TaskType, WalkType, Tile, IsLeg, Numbers
  <1>4. ASSUME NEW u \in Unit
        PROVE  /\ ram[u] \in Memory /\ Story(ram[u]) /\ ram[u].entering = FALSE
               /\ row[u] \in Rows /\ RowStory(row[u])
    <2>1. PICK st : st = IF host[u] = NoCity THEN "IDLE" ELSE "GARRISONED"
      OBVIOUS
    <2>2. st \in Status /\ st # "MOVING" /\ st # "WORKING" /\ (st = "GARRISONED" <=> host[u] # NoCity) /\ host[u] \in City \cup {NoCity}
      BY <2>1 DEF Status
    <2>3. ram[u] = [Idle(Depot) EXCEPT !.status = st, !.inside = host[u]]
      BY <1>1, <2>1
    <2>4. ram[u] = [status |-> st, at |-> Depot, walk |-> NoWalk, task |-> NoTask, entering |-> FALSE, exiting |-> FALSE,
                    inside |-> host[u], dirty |-> FALSE, pend |-> {}]
      BY <2>3 DEF Idle
    <2>5. row[u] = [status |-> st, at |-> Depot, walk |-> NoWalk, task |-> NoTask, host |-> host[u]]
      BY <1>1, <2>1
    <2>6. ram[u] \in Memory /\ Story(ram[u]) /\ ram[u].entering = FALSE
      BY <1>3, <2>2, <2>4 DEF Memory, Story
    <2>7. row[u] \in Rows /\ RowStory(row[u])
      BY <1>3, <2>2, <2>5 DEF Rows, RowStory
    <2> QED
      BY <2>6, <2>7
  <1>5. ram \in [Unit -> Memory] /\ row \in [Unit -> Rows]
    <2>1. ram = [u \in Unit |-> ram[u]] /\ row = [u \in Unit |-> row[u]]
      BY <1>1
    <2> QED
      BY <1>4, <2>1
  <1>6. Loads \in Nat /\ Loads \in 0..Loads /\ 0 \in 0..MaxFailures
    <2>1. Loads \in Nat /\ MaxFailures \in Nat
      BY ConstantsAssumption
    <2>2. Loads \in 0..Loads /\ 0 \in 0..MaxFailures
      BY ONLY <2>1
    <2> QED
      BY <2>1, <2>2
  <1>7. left = kept /\ kept \in [Forest -> 0..Loads]
    BY <1>2, <1>6
  <1>8. RamType /\ RowType /\ Stories /\ RowStories
    BY <1>2, <1>4, <1>5, <1>6, <1>7 DEF RamType, RowType, Stories, RowStories
  <1>9. QueueType /\ InboxType /\ Balance
    <2>1. PICK qs : qs = queue /\ qs = [u \in Unit |-> <<>>]
      BY <1>2
    <2>2. PICK k \in [Forest -> 0..Loads] : k = kept
      BY <1>7
    <2>3. qs \in [Unit -> Seq(Item)] /\ (\A u \in Unit : Len(qs[u]) <= QueueSize) /\ <<>> \in Seq(Sent) /\ Len(<<>>) <= InboxSize
      BY <2>1, Quiescent
    <2>4. \A f \in Forest : IsFiniteSet(Credits(qs, f)) /\ Cardinality(Credits(qs, f)) + k[f] <= k[f]
      BY <2>1, Quiescent
    <2> QED
      BY <1>2, <1>7, <2>1, <2>2, <2>3, <2>4 DEF QueueType, InboxType, Balance
  <1>10. Entries /\ AllApart
    BY <1>2, <1>4, NothingQueued DEF Entries, AllApart
  <1> QED
    BY <1>8, <1>9, <1>10 DEF Inv, TypeInv

LEMMA NextStep == Inv /\ [Next]_vars => Inv'
  <1> SUFFICES ASSUME Inv, [Next]_vars PROVE Inv'
    OBVIOUS
  <1>1. CASE UNCHANGED vars
    BY <1>1 DEF vars, Inv, TypeInv, RamType, RowType, QueueType, InboxType, Stories, RowStories, Entries, AllApart, Balance
  <1>2. ASSUME NEW u \in Unit, Order(u) PROVE Inv'
    <2>1. ASSUME NEW to \in Tile, NEW from \in Tile, Move(u, to, from) PROVE Inv'
      BY <2>1, MoveStep
    <2>2. ASSUME NEW from \in Tile, CancelMovement(u, from) PROVE Inv'
      BY <2>2, CancelMovementStep
    <2>3. ASSUME NEW f \in Forest, NEW from \in Tile, Gather(u, f, from) PROVE Inv'
      BY <2>3, GatherStep
    <2>4. ASSUME NEW c \in City, GarrisonUnit(u, c) PROVE Inv'
      BY <2>4, GarrisonUnitStep
    <2>5. ASSUME NEW free \in BOOLEAN, UngarrisonUnit(u, free) \/ Expel(u, free) PROVE Inv'
      <3>1. /\ ram[u].status = "GARRISONED"
            /\ Apply(u, IF free THEN Exit(Step(u)) ELSE [Step(u) EXCEPT !.u.exiting = TRUE], inbox)
        BY <2>5 DEF UngarrisonUnit, Expel
      <3> QED
        BY <3>1, ExitKept
    <2> QED
      BY <1>2, <2>1, <2>2, <2>3, <2>4, <2>5 DEF Order
  <1>3. ASSUME NEW u \in Unit, Tick(u) PROVE Inv'
    BY <1>3, ArriveStep, AdvanceTaskStep, RetryPendingExitStep, FlushDirtyStep DEF Tick
  <1>4. ASSUME NEW u \in Unit, Worker(u) PROVE Inv'
    BY <1>4, CommitStep, CommitUnackedStep, GiveUpStep DEF Worker
  <1> QED
    BY <1>1, <1>2, <1>3, <1>4, HandleStep, RegrowStep, RestartStep DEF Next

\* The invariant holds in every reachable state.
THEOREM UnitsInv == Spec => []Inv
  BY InitStep, NextStep, PTL DEF Spec

LEMMA InvTypes == Inv => TypeOK
  <1> SUFFICES ASSUME Inv PROVE TypeOK
    OBVIOUS
  <1>1. TypeInv
    BY DEF Inv
  <1>2. Memory \subseteq [status : Status, at : Tile, walk : WalkType, task : TaskType, entering : BOOLEAN, exiting : BOOLEAN,
                          inside : City \cup {NoCity}, dirty : BOOLEAN, pend : SUBSET Nat]
    BY DEF Memory, Walk, Task, Numbers
  <1>3. Rows \subseteq [status : Status, at : Tile, walk : WalkType, task : TaskType, host : City \cup {NoCity}]
    BY DEF Rows, Walk, Task
  <1> QED
    BY <1>1, <1>2, <1>3 DEF TypeInv, RamType, RowType, QueueType, InboxType, TypeOK

LEMMA InvStory == Inv => OneStory
  BY DEF Inv, Stories, Story, LegOf, OneStory

LEMMA InvNeverTaken == Inv => NeverTakenTwice
  <1> SUFFICES ASSUME Inv, NEW f \in Forest PROVE kept[f] >= left[f]
    BY DEF NeverTakenTwice
  <1>1. IsFiniteSet(Credits(queue, f)) /\ Cardinality(Credits(queue, f)) + left[f] <= kept[f]
    BY DEF Inv, Balance
  <1>2. PICK n \in Nat : n = Cardinality(Credits(queue, f))
    BY <1>1, FS_CardinalityType
  <1>3. PICK l : l = left[f]
    OBVIOUS
  <1>4. PICK k : k = kept[f]
    OBVIOUS
  <1>5. l \in 0..Loads /\ k \in 0..Loads /\ Loads \in Nat /\ n + l <= k
    BY <1>1, <1>2, <1>3, <1>4, ConstantsAssumption DEF Inv, TypeInv, RamType, RowType
  <1>6. k >= l
    BY ONLY <1>5, n \in Nat
  <1> QED
    BY <1>3, <1>4, <1>6

LEMMA InvEntry == Inv => EntryAwaited
  <1> SUFFICES ASSUME Inv, NEW u \in Unit, ram[u].entering
               PROVE  \/ \E i \in DOMAIN queue[u] : queue[u][i].job.k = "Enter"
                      \/ \E i \in DOMAIN inbox : inbox[i].u = u /\ inbox[i].k = "Entered"
                      \/ lost
    BY DEF EntryAwaited
  <1>1. lost \/ \E i \in Nat : EnterIn(queue[u], i) \/ AnswerIn(inbox, u, i)
    BY Zenon DEF Inv, Entries, Entry
  <1> QED
    BY <1>1, Zenon DEF EnterIn, AnswerIn

\* Every value keeps its type, no queue holds more than QueueSize jobs and no inbox
\* more than InboxSize messages, for any number of units, tiles and failures.
THEOREM UnitsTypeCorrect == Spec => []TypeOK
  BY UnitsInv, InvTypes, PTL

\* Status, movement, task and garrison of a unit tell one story, whatever order,
\* arrival, compensation or restart came last.
THEOREM UnitsOneStory == Spec => []OneStory
  BY UnitsInv, InvStory, PTL

\* The database never holds fewer loads of a tile than the loop, though the
\* transaction that takes a load may run twice.
THEOREM UnitsNeverTakenTwice == Spec => []NeverTakenTwice
  BY UnitsInv, InvNeverTaken, PTL

\* While the loop waits for an entry, its job is queued, its answer is on its way, or
\* a full inbox dropped a message.
THEOREM UnitsEntryAwaited == Spec => []EntryAwaited
  BY UnitsInv, InvEntry, PTL

-----------------------------------------------------------------------------
(* Jobs given up.                                                          *)

LEMMA FailureFields ==
    ASSUME NEW u, NEW j
    PROVE  /\ j.k = "Start" => FailureOf(u, j).k = "StartFailed" /\ FailureOf(u, j).id = j.id
           /\ j.k = "Finish" => FailureOf(u, j).k = "FinishFailed" /\ FailureOf(u, j).id = j.id
           /\ j.k = "Task" => FailureOf(u, j).k = "TaskFailed" /\ FailureOf(u, j).id = j.rev
           /\ j.k = "Flush" => FailureOf(u, j).k = "FlushFailed"
           /\ j.k = "Enter" => FailureOf(u, j).k = "Entered" /\ ~FailureOf(u, j).ok
           /\ j.k = "Leave" => FailureOf(u, j).k = "ExitFailed" /\ FailureOf(u, j).city = j.city
           /\ FailureOf(u, j).u = u
  <1>1. CASE j.k = "Start"
    BY <1>1 DEF FailureOf, Message
  <1>2. CASE j.k = "Finish"
    BY <1>2 DEF FailureOf, Message
  <1>3. CASE j.k = "Task"
    BY <1>3 DEF FailureOf, Message
  <1>4. CASE j.k = "Flush"
    BY <1>4 DEF FailureOf, Message
  <1>5. CASE j.k = "Enter"
    BY <1>5 DEF FailureOf, Message
  <1>6. CASE j.k \notin {"Start", "Finish", "Task", "Flush", "Enter"}
    BY <1>6 DEF FailureOf, Message
  <1> QED
    BY <1>1, <1>2, <1>3, <1>4, <1>5, <1>6

LEMMA SiftClosing ==
    ASSUME NEW q, NEW p, NEW g, Sift(q, p, g), NEW u, NEW T, NEW T2, GivenTold(q, p, g, u, T, T2),
           NEW id, id # 0, NEW pend
    PROVE  /\ Closing(id, pend, q, T, 0) => Closing(id, pend, p, T2, 0)
           /\ \A i \in DOMAIN p : Closing(id, pend, q, T, g[i]) => Closing(id, pend, p, T2, i)
           /\ Closing(id, pend, p, T2, 0) => Closing(id, pend, q, T, 0)
  <1>1. Says(T, "FinishFailed", id) => Says(T2, "FinishFailed", id)
    BY DEF Says, GivenTold
  <1>2. ASSUME NEW n \in Given(q, p, g), Ends(q[n].job, id) PROVE Says(T2, "FinishFailed", id)
    <2>1. q[n].job.k = "Finish" /\ q[n].job.id = id
      BY <1>2 DEF GivenTold, Ends, Leaves
    <2> QED
      BY <2>1, FailureFields DEF GivenTold, Says
  <1>3. Closing(id, pend, q, T, 0) => Closing(id, pend, p, T2, 0)
    <2>1. ASSUME NEW k \in DOMAIN q, Ends(q[k].job, id), k > 0 PROVE Closing(id, pend, p, T2, 0)
      <3>1. CASE k \in Given(q, p, g)
        BY <3>1, <2>1, <1>2 DEF Closing
      <3>2. CASE k \notin Given(q, p, g)
        <4>1. PICK i \in DOMAIN p : g[i] = k
          BY <3>2 DEF Given
        <4> QED
          BY <4>1, <2>1 DEF Closing, Sift
      <3> QED
        BY <3>1, <3>2
    <2> QED
      BY <1>1, <2>1 DEF Closing
  <1>4. ASSUME NEW i \in DOMAIN p, Closing(id, pend, q, T, g[i]) PROVE Closing(id, pend, p, T2, i)
    <2>1. ASSUME NEW k \in DOMAIN q, Ends(q[k].job, id), k > g[i] PROVE Closing(id, pend, p, T2, i)
      <3>1. CASE k \in Given(q, p, g)
        BY <3>1, <2>1, <1>2 DEF Closing
      <3>2. CASE k \notin Given(q, p, g)
        <4>1. PICK n \in DOMAIN p : g[n] = k
          BY <3>2 DEF Given
        <4>2. n > i
          BY <4>1, <2>1 DEF Sift
        <4>3. Ends(p[n].job, id)
          BY <4>1, <2>1 DEF Sift
        <4> QED
          BY <4>2, <4>3 DEF Closing
      <3> QED
        BY <3>1, <3>2
    <2> QED
      BY <1>1, <1>4, <2>1 DEF Closing
  <1>5. ASSUME Closing(id, pend, p, T2, 0) PROVE Closing(id, pend, q, T, 0)
    <2>1. ASSUME NEW k \in DOMAIN p, Ends(p[k].job, id) PROVE Closing(id, pend, q, T, 0)
      BY <2>1 DEF Closing, Sift
    <2>2. ASSUME NEW y \in T2, y.k = "FinishFailed", y.id = id PROVE Closing(id, pend, q, T, 0)
      <3>1. CASE y \in T
        BY <3>1, <2>2 DEF Closing, Says
      <3>2. ASSUME NEW n \in Given(q, p, g), y = FailureOf(u, q[n].job) PROVE Closing(id, pend, q, T, 0)
        <4>1. q[n].job.k = "Finish" /\ q[n].job.id = id
          <5>1. q[n].job \in Job
            BY DEF GivenTold
          <5> QED
            BY <5>1, <2>2, <3>2, FailureFields, Kinds
        <4>2. n \in DOMAIN q /\ n > 0
          BY DEF Given, Sift
        <4> QED
          BY <4>1, <4>2 DEF Closing, Ends
      <3> QED
        BY <3>1, <3>2 DEF GivenTold
    <2> QED
      BY <1>5, <2>1, <2>2 DEF Closing, Says
  <1> QED
    BY <1>3, <1>4, <1>5

LEMMA SiftClosed ==
    ASSUME NEW q, NEW p, NEW g, Sift(q, p, g), NEW u, NEW T, NEW T2, GivenTold(q, p, g, u, T, T2),
           NEW w, NEW pend, NEW x, Closed(w, pend, x, q, T)
    PROVE  Closed(w, pend, x, p, T2)
  <1>1. x.walk.id \notin {0, w} => Closing(x.walk.id, pend, p, T2, 0)
    BY SiftClosing DEF Closed
  <1>2. ASSUME NEW i \in DOMAIN p, OpenedBy(p[i].job) \notin {0, w} PROVE Closing(OpenedBy(p[i].job), pend, p, T2, i)
    <2>1. p[i] = q[g[i]] /\ g[i] \in DOMAIN q
      BY DEF Sift
    <2>2. Closing(OpenedBy(p[i].job), pend, q, T, g[i])
      BY <1>2, <2>1 DEF Closed
    <2> QED
      BY <1>2, <2>2, SiftClosing
  <1>3. w # 0 => ~Closing(w, pend, p, T2, 0)
    BY SiftClosing DEF Closed
  <1> QED
    BY <1>1, <1>2, <1>3 DEF Closed

LEMMA SiftAgreed ==
    ASSUME NEW q, NEW p, NEW g, Sift(q, p, g), NEW u, NEW T, NEW T2, GivenTold(q, p, g, u, T, T2),
           NEW m, NEW x, Agreed(m, x, q, T)
    PROVE  Agreed(m, x, p, T2)
  <1> SUFFICES ASSUME Busy(m) PROVE Agreed(m, x, p, T2)
    BY DEF Agreed
  <1>1. CASE Fails(m, T)
    <2>1. Fails(m, T2)
      BY <1>1 DEF Fails, Says, GivenTold
    <2> QED
      BY <2>1 DEF Agreed
  <1>2. CASE Holds(m, x) /\ \A k \in DOMAIN q : ~Overwrites(m, q[k].job)
    <2>1. \A k \in DOMAIN p : ~Overwrites(m, p[k].job)
      BY <1>2 DEF Sift
    <2> QED
      BY <1>2, <2>1 DEF Agreed
  <1>3. ASSUME NEW i \in DOMAIN q, Writes(m, q[i].job), \A k \in DOMAIN q : k > i => ~Overwrites(m, q[k].job)
        PROVE  Agreed(m, x, p, T2)
    <2>1. CASE i \in Given(q, p, g)
      <3>1. FailureOf(u, q[i].job) \in T2
        BY <2>1 DEF GivenTold
      <3>2. CASE Held(m)
        <4>1. q[i].job.k = "Task" /\ q[i].job.rev = m.task.rev
          BY <1>3, <3>2 DEF Writes
        <4>2. Says(T2, "TaskFailed", m.task.rev)
          BY <3>1, <4>1, FailureFields DEF Says
        <4> QED
          BY <3>2, <4>2 DEF Agreed, Fails
      <3>3. CASE ~Held(m)
        <4>1. q[i].job.k = "Start" /\ m.walk = [id |-> q[i].job.id, to |-> q[i].job.to]
          BY <1>3, <3>3 DEF Writes
        <4>2. m.walk.id = q[i].job.id
          BY <4>1
        <4>3. Says(T2, "StartFailed", m.walk.id)
          BY <3>1, <4>1, <4>2, FailureFields DEF Says
        <4> QED
          BY <3>3, <4>3 DEF Agreed, Fails
      <3> QED
        BY <3>2, <3>3
    <2>2. CASE i \notin Given(q, p, g)
      <3>1. PICK n \in DOMAIN p : g[n] = i
        BY <2>2 DEF Given
      <3>2. Writes(m, p[n].job)
        BY <3>1, <1>3 DEF Sift
      <3>3. ASSUME NEW k \in DOMAIN p, k > n PROVE ~Overwrites(m, p[k].job)
        <4>1. g[k] > g[n] /\ g[k] \in DOMAIN q /\ p[k] = q[g[k]]
          BY <3>3 DEF Sift
        <4> QED
          BY <4>1, <3>1, <1>3
      <3> QED
        BY <3>2, <3>3 DEF Agreed
    <2> QED
      BY <2>1, <2>2
  <1> QED
    BY <1>1, <1>2, <1>3 DEF Agreed

LEMMA SiftPlaced ==
    ASSUME NEW q, NEW p, NEW g, Sift(q, p, g), NEW u, NEW T, NEW T2, GivenTold(q, p, g, u, T, T2),
           NEW m, NEW x, Placed(m, x, q, T)
    PROVE  Placed(m, x, p, T2)
  <1> SUFFICES ASSUME m.walk = NoWalk, ~m.dirty, \A y \in T2 : y.k \notin {"FlushFailed", "FinishFailed"}
               PROVE  Placed(m, x, p, T2)
    BY DEF Placed
  <1>1. \A y \in T : y.k \notin {"FlushFailed", "FinishFailed"}
    BY DEF GivenTold
  <1>2. CASE At(m, x.at, x.status) /\ \A k \in DOMAIN q : ~Displaces(q[k].job)
    <2>1. \A k \in DOMAIN p : ~Displaces(p[k].job)
      BY <1>2 DEF Sift
    <2> QED
      BY <1>2, <2>1 DEF Placed
  <1>3. ASSUME NEW i \in DOMAIN q, Places(m, q[i].job), \A k \in DOMAIN q : k > i => ~Displaces(q[k].job)
        PROVE  Placed(m, x, p, T2)
    <2>1. i \notin Given(q, p, g)
      <3>1. SUFFICES ASSUME i \in Given(q, p, g) PROVE FALSE
        OBVIOUS
      <3>2. FailureOf(u, q[i].job) \in T2
        BY <3>1 DEF GivenTold
      <3>3. q[i].job.k = "Flush" \/ q[i].job.k = "Finish"
        BY <1>3 DEF Places
      <3> QED
        BY <3>2, <3>3, FailureFields
    <2>2. PICK n \in DOMAIN p : g[n] = i
      BY <2>1 DEF Given
    <2>3. Places(m, p[n].job)
      BY <2>2, <1>3 DEF Sift
    <2>4. ASSUME NEW k \in DOMAIN p, k > n PROVE ~Displaces(p[k].job)
      <3>1. g[k] > g[n] /\ g[k] \in DOMAIN q /\ p[k] = q[g[k]]
        BY <2>4 DEF Sift
      <3> QED
        BY <3>1, <2>2, <1>3
    <2> QED
      BY <2>3, <2>4 DEF Placed
  <1> QED
    BY <1>1, <1>2, <1>3 DEF Placed

LEMMA ReportedTold ==
    ASSUME NEW q, NEW p, NEW g, NEW u, NEW box, NEW box2, NEW o, Reported(box, box2, q, p, g, u, o)
    PROVE  GivenTold(q, p, g, u, Told(box, u), Told(box2, u))
  <1>1. /\ DOMAIN box = 1..Len(box) /\ DOMAIN box2 = 1..Len(box2) /\ Len(box) \in Nat /\ Len(box2) \in Nat
        /\ Len(box) <= Len(box2) /\ \A i \in 1..Len(box) : box2[i] = box[i]
    BY DEF Reported, Begins
  <1>2. ASSUME NEW n \in Given(q, p, g) PROVE FailureOf(u, q[n].job) \in Told(box2, u)
    <2>1. PICK i \in (Len(box) + 1)..Len(box2) : o[i] = n /\ box2[i] = FailureOf(u, q[n].job)
      BY DEF Reported
    <2>2. box2[i].u = u /\ i \in DOMAIN box2
      BY <1>1, <2>1, FailureFields
    <2> QED
      BY <2>1, <2>2 DEF Told
  <1>3. Told(box, u) \subseteq Told(box2, u)
    BY <1>1 DEF Told
  <1>4. ASSUME NEW y \in Told(box2, u) PROVE y \in Told(box, u) \/ \E n \in Given(q, p, g) : y = FailureOf(u, q[n].job)
    <2>1. PICK i \in DOMAIN box2 : y = box2[i] /\ box2[i].u = u
      BY DEF Told
    <2>2. CASE i \in 1..Len(box)
      BY <1>1, <2>1, <2>2 DEF Told
    <2>3. CASE i \in (Len(box) + 1)..Len(box2)
      BY <2>1, <2>3 DEF Reported
    <2> QED
      BY <1>1, <2>2, <2>3
  <1> QED
    BY <1>2, <1>3, <1>4 DEF GivenTold, Reported

LEMMA SiftHoused ==
    ASSUME NEW q, NEW p, NEW g, Sift(q, p, g), NEW u, NEW box, NEW box2, NEW o, Reported(box, box2, q, p, g, u, o),
           NEW m, NEW h, Housed(m, h, q, box, u)
    PROVE  Housed(m, h, p, box2, u)
  <1>1. /\ DOMAIN box = 1..Len(box) /\ DOMAIN box2 = 1..Len(box2) /\ Len(box) \in Nat /\ Len(box2) \in Nat
        /\ Len(box) <= Len(box2) /\ \A i \in 1..Len(box) : box2[i] = box[i]
    BY DEF Reported, Begins
  <1>2. ASSUME NEW i \in Nat, LeaveIn(p, i) PROVE g[i] \in Nat /\ LeaveIn(q, g[i]) /\ p[i] = q[g[i]]
    BY <1>2 DEF LeaveIn, Sift
  <1>3. ASSUME NEW i \in Nat, EnterIn(p, i) PROVE g[i] \in Nat /\ EnterIn(q, g[i]) /\ p[i] = q[g[i]]
    BY <1>3 DEF EnterIn, Sift
  \* A message of an exit is an old one, or that of a job given up.
  <1>4. ASSUME NEW i \in Nat, ExitIn(box2, u, i)
        PROVE  \/ i \in 1..Len(box) /\ ExitIn(box, u, i)
               \/ /\ i \in (Len(box) + 1)..Len(box2) /\ o[i] \in Given(q, p, g) /\ o[i] \in Nat
                  /\ LeaveIn(q, o[i]) /\ ~q[o[i]].done /\ box2[i].city = q[o[i]].job.city
    <2>1. CASE i \in 1..Len(box)
      BY <1>1, <1>4, <2>1 DEF ExitIn
    <2>2. CASE i \in (Len(box) + 1)..Len(box2)
      <3>1. o[i] \in Given(q, p, g) /\ box2[i] = FailureOf(u, q[o[i]].job) /\ q[o[i]].job \in Job /\ ~q[o[i]].done
        BY <2>2 DEF Reported
      <3>2. q[o[i]].job.k = "Leave"
        BY <3>1, <1>4, FailureFields, Kinds DEF ExitIn
      <3>3. o[i] \in Nat /\ o[i] \in DOMAIN q
        BY <3>1 DEF Given, Sift
      <3> QED
        BY <2>2, <3>1, <3>2, <3>3, FailureFields DEF LeaveIn
    <2> QED
      BY <1>1, <1>4, <2>1, <2>2 DEF ExitIn
  <1>5. ASSUME NEW i \in Nat, YesIn(box2, u, i) PROVE i \in 1..Len(box) /\ YesIn(box, u, i)
    <2>1. CASE i \in 1..Len(box)
      BY <1>1, <1>5, <2>1 DEF YesIn
    <2>2. CASE i \in (Len(box) + 1)..Len(box2)
      <3>1. box2[i] = FailureOf(u, q[o[i]].job) /\ q[o[i]].job \in Job
        BY <2>2 DEF Reported
      <3>2. q[o[i]].job.k = "Enter"
        BY <3>1, <1>5, FailureFields, Kinds DEF YesIn
      <3> QED
        BY <3>1, <3>2, <1>5, FailureFields DEF YesIn
    <2> QED
      BY <1>1, <1>5, <2>1, <2>2 DEF YesIn
  <1>6. ASSUME NEW i \in Nat, ExitIn(box, u, i) PROVE ExitIn(box2, u, i) /\ box2[i] = box[i]
    BY <1>1, <1>6 DEF ExitIn
  <1>7. ASSUME NEW i \in Nat, YesIn(box, u, i) PROVE YesIn(box2, u, i) /\ box2[i] = box[i]
    BY <1>1, <1>7 DEF YesIn
  <1>8. OneExit(p, box2, u)
    <2>1. ASSUME NEW i \in Nat, NEW j \in Nat, LeaveIn(p, i), LeaveIn(p, j) PROVE i = j
      <3>1. g[i] = g[j]
        BY <2>1, <1>2 DEF Housed, OneExit
      <3>2. i \in DOMAIN p /\ j \in DOMAIN p
        BY <2>1 DEF LeaveIn
      <3> QED
        BY <3>1, <3>2 DEF Sift
    <2>2. ASSUME NEW i \in Nat, NEW j \in Nat, ExitIn(box2, u, i), ExitIn(box2, u, j) PROVE i = j
      <3>1. CASE ExitIn(box, u, i) /\ ExitIn(box, u, j)
        BY <3>1 DEF Housed, OneExit
      <3>2. CASE ~ExitIn(box, u, i) /\ ~ExitIn(box, u, j)
        <4>1. LeaveIn(q, o[i]) /\ LeaveIn(q, o[j]) /\ o[i] \in Nat /\ o[j] \in Nat
              /\ i \in (Len(box) + 1)..Len(box2) /\ j \in (Len(box) + 1)..Len(box2)
          BY <2>2, <3>2, <1>4
        <4>2. o[i] = o[j]
          BY <4>1 DEF Housed, OneExit
        <4> QED
          BY <4>1, <4>2 DEF Reported
      <3>3. CASE ExitIn(box, u, i) /\ ~ExitIn(box, u, j)
        BY <2>2, <3>3, <1>4 DEF Housed, OneExit
      <3>4. CASE ~ExitIn(box, u, i) /\ ExitIn(box, u, j)
        BY <2>2, <3>4, <1>4 DEF Housed, OneExit
      <3> QED
        BY <3>1, <3>2, <3>3, <3>4
    <2>3. ASSUME NEW i \in Nat, NEW j \in Nat, LeaveIn(p, i), ExitIn(box2, u, j) PROVE FALSE
      <3>1. LeaveIn(q, g[i]) /\ g[i] \in Nat /\ i \in DOMAIN p
        BY <2>3, <1>2 DEF LeaveIn
      <3>2. ~ExitIn(box, u, j)
        BY <3>1 DEF Housed, OneExit
      <3>3. o[j] \in Given(q, p, g) /\ LeaveIn(q, o[j]) /\ o[j] \in Nat
        BY <2>3, <3>2, <1>4
      <3>4. o[j] = g[i]
        BY <3>1, <3>3 DEF Housed, OneExit
      <3> QED
        BY <3>1, <3>3, <3>4 DEF Given
    <2> QED
      BY <2>1, <2>2, <2>3 DEF OneExit
  <1>9. Inside(m, h, p, box2, u)
    <2> SUFFICES ASSUME m.status = "GARRISONED" PROVE h = m.inside /\ \A i \in Nat : ~LeaveIn(p, i) /\ ~ExitIn(box2, u, i)
      BY DEF Inside
    <2>1. h = m.inside /\ \A i \in Nat : ~LeaveIn(q, i) /\ ~ExitIn(box, u, i)
      BY DEF Housed, Inside
    <2> QED
      BY <2>1, <1>2, <1>4
  <1>10. Welcomed(h, p, box2, u)
    <2> SUFFICES ASSUME NEW i \in Nat, YesIn(box2, u, i)
                 PROVE  h = box2[i].city /\ \A j \in Nat : ~LeaveIn(p, j) /\ (ExitIn(box2, u, j) => j < i)
      BY DEF Welcomed
    <2>1. i \in 1..Len(box) /\ YesIn(box, u, i) /\ box2[i] = box[i]
      BY <1>5, <1>7
    <2>2. h = box[i].city /\ \A j \in Nat : ~LeaveIn(q, j) /\ (ExitIn(box, u, j) => j < i)
      BY <2>1 DEF Housed, Welcomed
    <2>3. ASSUME NEW j \in Nat, ExitIn(box2, u, j) PROVE j < i
      BY <2>2, <2>3, <1>4
    <2> QED
      BY <2>1, <2>2, <2>3, <1>2
  <1>11. Leaving(h, p, box2, u)
    <2>1. ASSUME NEW i \in Nat, LeaveIn(p, i)
          PROVE  h = (IF p[i].done THEN NoCity ELSE p[i].job.city) /\ \A j \in Nat : EnterIn(p, j) => i < j /\ ~p[j].done
      <3>1. g[i] \in Nat /\ LeaveIn(q, g[i]) /\ p[i] = q[g[i]] /\ i \in DOMAIN p
        BY <2>1, <1>2 DEF LeaveIn
      <3>2. h = (IF q[g[i]].done THEN NoCity ELSE q[g[i]].job.city) /\ \A j \in Nat : EnterIn(q, j) => g[i] < j /\ ~q[j].done
        BY <3>1 DEF Housed, Leaving
      <3>3. ASSUME NEW j \in Nat, EnterIn(p, j) PROVE i < j /\ ~p[j].done
        <4>1. g[j] \in Nat /\ EnterIn(q, g[j]) /\ p[j] = q[g[j]] /\ j \in DOMAIN p
          BY <3>3, <1>3 DEF EnterIn
        <4>2. g[i] < g[j] /\ ~q[g[j]].done
          BY <4>1, <3>2
        <4> QED
          BY <3>1, <4>1, <4>2 DEF Sift
      <3> QED
        BY <3>1, <3>2, <3>3
    <2>2. ASSUME NEW i \in Nat, ExitIn(box2, u, i) PROVE h = box2[i].city
      <3>1. CASE ExitIn(box, u, i)
        BY <3>1, <1>6 DEF Housed, Leaving
      <3>2. CASE ~ExitIn(box, u, i)
        <4>1. o[i] \in Nat /\ LeaveIn(q, o[i]) /\ ~q[o[i]].done /\ box2[i].city = q[o[i]].job.city
          BY <2>2, <3>2, <1>4
        <4> QED
          BY <4>1 DEF Housed, Leaving
      <3> QED
        BY <3>1, <3>2
    <2> QED
      BY <2>1, <2>2 DEF Leaving
  <1>12. Outside(m, h, p, box2, u)
    <2>1. CASE m.status = "GARRISONED" \/ h = NoCity
      BY <2>1 DEF Outside
    <2>2. ASSUME NEW i \in Nat, LeaveIn(q, i) PROVE Outside(m, h, p, box2, u)
      <3>1. CASE i \in Given(q, p, g)
        <4>1. PICK n \in (Len(box) + 1)..Len(box2) : o[n] = i
          BY <3>1 DEF Reported
        <4>2. box2[n] = FailureOf(u, q[i].job) /\ q[i].job.k = "Leave" /\ n \in Nat /\ n \in DOMAIN box2
          BY <4>1, <2>2, <1>1 DEF Reported, LeaveIn
        <4>3. ExitIn(box2, u, n)
          BY <4>2, FailureFields DEF ExitIn
        <4> QED
          BY <4>2, <4>3 DEF Outside
      <3>2. CASE i \notin Given(q, p, g)
        <4>1. PICK n \in DOMAIN p : g[n] = i
          BY <3>2, <2>2 DEF Given, LeaveIn
        <4>2. LeaveIn(p, n) /\ n \in Nat
          BY <4>1, <2>2 DEF LeaveIn, Sift
        <4> QED
          BY <4>2 DEF Outside
      <3> QED
        BY <3>1, <3>2
    <2>3. ASSUME NEW i \in Nat, ExitIn(box, u, i) \/ YesIn(box, u, i) PROVE Outside(m, h, p, box2, u)
      BY <2>3, <1>6, <1>7 DEF Outside
    <2>4. ASSUME NEW i \in Nat, EnterIn(q, i), q[i].done, h = q[i].job.city PROVE Outside(m, h, p, box2, u)
      <3>1. i \in DOMAIN q /\ i \notin Given(q, p, g)
        BY <2>4 DEF EnterIn, Reported
      <3>2. PICK n \in DOMAIN p : g[n] = i
        BY <3>1 DEF Given
      <3>3. EnterIn(p, n) /\ n \in Nat /\ p[n] = q[i]
        BY <3>2, <2>4 DEF EnterIn, Sift
      <3> QED
        BY <3>3, <2>4 DEF Outside
    <2> QED
      BY <2>1, <2>2, <2>3, <2>4 DEF Housed, Outside
  <1> QED
    BY <1>8, <1>9, <1>10, <1>11, <1>12 DEF Housed

LEMMA SiftExplained ==
    ASSUME NEW q, NEW p, NEW g, Sift(q, p, g), NEW u, NEW box, NEW box2, NEW o, Reported(box, box2, q, p, g, u, o),
           NEW m, NEW x, Explained(m, x, q, box, u)
    PROVE  Explained(m, x, p, box2, u)
  BY ReportedTold, SiftClosed, SiftAgreed, SiftPlaced, SiftHoused DEF Explained

-----------------------------------------------------------------------------
(* Messages of other units.                                                *)

LEMMA SameTold ==
    ASSUME NEW box, NEW box2, NEW v, NEW f, SameFor(box, box2, v, f)
    PROVE  Told(box2, v) = Told(box, v)
  <1>1. ASSUME NEW y \in Told(box2, v) PROVE y \in Told(box, v)
    BY DEF Told, SameFor
  <1>2. ASSUME NEW n \in DOMAIN box, box[n].u = v PROVE box[n] \in Told(box2, v)
    <2>1. PICK i \in DOMAIN box2 : box2[i].u = v /\ f[i] = n
      BY <1>2 DEF SameFor
    <2> QED
      BY <2>1, <1>2 DEF Told, SameFor
  <1> QED
    BY <1>1, <1>2 DEF Told

LEMMA SameHoused ==
    ASSUME NEW box, NEW box2, NEW v, NEW f, SameFor(box, box2, v, f), NEW m, NEW h, NEW q, Housed(m, h, q, box, v)
    PROVE  Housed(m, h, q, box2, v)
  <1>1. ASSUME NEW i \in Nat, ExitIn(box2, v, i)
        PROVE  i \in DOMAIN box2 /\ f[i] \in Nat /\ ExitIn(box, v, f[i]) /\ box[f[i]] = box2[i]
    BY <1>1 DEF ExitIn, SameFor
  <1>2. ASSUME NEW i \in Nat, YesIn(box2, v, i)
        PROVE  i \in DOMAIN box2 /\ f[i] \in Nat /\ YesIn(box, v, f[i]) /\ box[f[i]] = box2[i]
    BY <1>2 DEF YesIn, SameFor
  <1>3. ASSUME NEW n \in Nat, ExitIn(box, v, n) \/ YesIn(box, v, n)
        PROVE  \E i \in Nat : ExitIn(box2, v, i) \/ YesIn(box2, v, i)
    <2>1. n \in DOMAIN box /\ box[n].u = v
      BY <1>3 DEF ExitIn, YesIn
    <2>2. PICK i \in DOMAIN box2 : box2[i].u = v /\ f[i] = n
      BY <2>1 DEF SameFor
    <2>3. i \in Nat /\ box2[i] = box[n]
      BY <2>2 DEF SameFor
    <2> QED
      BY <1>3, <2>2, <2>3 DEF ExitIn, YesIn
  <1>4. OneExit(q, box2, v)
    <2>1. ASSUME NEW i \in Nat, NEW j \in Nat, ExitIn(box2, v, i), ExitIn(box2, v, j) PROVE i = j
      <3>1. f[i] = f[j]
        BY <2>1, <1>1 DEF Housed, OneExit
      <3> QED
        BY <3>1, <2>1, <1>1 DEF SameFor
    <2> QED
      BY <2>1, <1>1 DEF Housed, OneExit
  <1>5. Inside(m, h, q, box2, v)
    BY <1>1 DEF Housed, Inside
  <1>6. Welcomed(h, q, box2, v)
    <2> SUFFICES ASSUME NEW i \in Nat, YesIn(box2, v, i)
                 PROVE  h = box2[i].city /\ \A j \in Nat : ~LeaveIn(q, j) /\ (ExitIn(box2, v, j) => j < i)
      BY DEF Welcomed
    <2>1. i \in DOMAIN box2 /\ YesIn(box, v, f[i]) /\ f[i] \in Nat /\ box[f[i]] = box2[i]
      BY <1>2
    <2>2. h = box[f[i]].city /\ \A j \in Nat : ~LeaveIn(q, j) /\ (ExitIn(box, v, j) => j < f[i])
      BY <2>1 DEF Housed, Welcomed
    <2>3. ASSUME NEW j \in Nat, ExitIn(box2, v, j) PROVE j < i
      <3>1. j \in DOMAIN box2 /\ f[j] < f[i]
        BY <2>2, <2>3, <1>1
      <3> QED
        BY <3>1, <2>1 DEF SameFor
    <2> QED
      BY <2>1, <2>2, <2>3
  <1>7. Leaving(h, q, box2, v)
    BY <1>1 DEF Housed, Leaving
  <1>8. Outside(m, h, q, box2, v)
    BY <1>3 DEF Housed, Outside
  <1> QED
    BY <1>4, <1>5, <1>6, <1>7, <1>8 DEF Housed

LEMMA SameExplained ==
    ASSUME NEW box, NEW box2, NEW v, NEW f, SameFor(box, box2, v, f), NEW m, NEW x, NEW q, Explained(m, x, q, box, v)
    PROVE  Explained(m, x, q, box2, v)
  BY SameTold, SameHoused DEF Explained

\* A box that grows by messages of another unit.
LEMMA GrownExplained ==
    ASSUME NEW box \in Seq(Sent), NEW box2 \in Seq(Sent), Begins(box, box2), NEW v,
           \A i \in (Len(box) + 1)..Len(box2) : box2[i].u # v,
           NEW m, NEW x, NEW q, Explained(m, x, q, box, v)
    PROVE  Explained(m, x, q, box2, v)
  <1>1. PICK f : f = [i \in Nat |-> i]
    OBVIOUS
  <1>2. /\ DOMAIN box = 1..Len(box) /\ DOMAIN box2 = 1..Len(box2) /\ Len(box) \in Nat /\ Len(box2) \in Nat
        /\ Len(box) <= Len(box2) /\ \A i \in 1..Len(box) : box2[i] = box[i]
    BY DEF Begins
  <1>3. \A i \in DOMAIN box2 : f[i] = i
    BY <1>1, <1>2
  <1>4. SameFor(box, box2, v, f)
    BY <1>2, <1>3 DEF SameFor
  <1> QED
    BY <1>4, SameExplained

\* A box whose head, a message of another unit, is handled.
LEMMA TailExplained ==
    ASSUME NEW box \in Seq(Sent), box # <<>>, NEW v, Head(box).u # v,
           NEW m, NEW x, NEW q, Explained(m, x, q, box, v)
    PROVE  Explained(m, x, q, Tail(box), v)
  <1>1. PICK f : f = [i \in Nat |-> i + 1]
    OBVIOUS
  <1>2. PICK box2 : box2 = Tail(box)
    OBVIOUS
  <1>3. /\ box2 \in Seq(Sent) /\ Head(box) = box[1] /\ DOMAIN box = 1..Len(box) /\ Len(box) \in Nat
        /\ DOMAIN box2 = 1..Len(box2) /\ Len(box2) = Len(box) - 1 /\ Len(box2) \in Nat
        /\ \A i \in DOMAIN box2 : box2[i] = box[i + 1]
    BY <1>2, Shifted
  <1>4. \A i \in DOMAIN box2 : f[i] = i + 1
    BY <1>1, <1>3
  <1>5. SameFor(box, box2, v, f)
    <2>1. \A i \in DOMAIN box2 : box2[i].u = v => f[i] \in DOMAIN box /\ box[f[i]] = box2[i]
      BY <1>3, <1>4
    <2>2. \A i, k \in DOMAIN box2 : i < k <=> f[i] < f[k]
      BY <1>3, <1>4
    <2>3. ASSUME NEW n \in DOMAIN box, box[n].u = v PROVE \E i \in DOMAIN box2 : box2[i].u = v /\ f[i] = n
      <3>1. n # 1
        BY <1>3, <2>3
      <3>2. n - 1 \in DOMAIN box2
        BY <1>3, <3>1
      <3>3. box2[n - 1] = box[n - 1 + 1] /\ n - 1 + 1 = n /\ f[n - 1] = n
        BY <1>3, <1>4, <3>2
      <3> QED
        BY <2>3, <3>2, <3>3
    <2> QED
      BY <1>3, <2>1, <2>2, <2>3 DEF SameFor
  <1> QED
    BY <1>2, <1>5, SameExplained

-----------------------------------------------------------------------------
(* A step of the loop, its jobs first all queued, then those that do not   *)
(* fit given up.                                                           *)

LEMMA Lined ==
    ASSUME NEW q \in Seq(Item), NEW out \in Seq(Job)
    PROVE  /\ Line(q, out) \in Seq(Item) /\ Len(Line(q, out)) = Len(q) + Len(out)
           /\ \A i \in 1..Len(q) : Line(q, out)[i] = q[i]
           /\ \A i \in (Len(q) + 1)..(Len(q) + Len(out)) : i - Len(q) \in 1..Len(out) /\ Line(q, out)[i] = Fresher(out[i - Len(q)])
  <1>1. PICK f : f = [i \in 1..Len(out) |-> Fresher(out[i])]
    OBVIOUS
  <1>2. Len(out) \in Nat /\ \A i \in 1..Len(out) : out[i] \in Job
    OBVIOUS
  <1>3. \A i \in 1..Len(out) : Fresher(out[i]) \in Item
    BY <1>2 DEF Fresher, Item
  <1>4. f \in [1..Len(out) -> Item] /\ \A i \in 1..Len(out) : f[i] = Fresher(out[i])
    BY <1>1, <1>3
  <1>5. Line(q, out) = q \o f
    BY <1>1 DEF Line
  <1>6. /\ q \o f \in Seq(Item) /\ Len(q \o f) = Len(q) + Len(out)
        /\ \A i \in 1..Len(q) : (q \o f)[i] = q[i]
        /\ \A i \in (Len(q) + 1)..(Len(q) + Len(out)) : i - Len(q) \in 1..Len(out) /\ (q \o f)[i] = f[i - Len(q)]
    <2>0. q \in Seq(Item) /\ Len(out) \in Nat /\ f \in [1..Len(out) -> Item]
      BY <1>2, <1>4
    <2>1. q \o f \in Seq(Item) /\ Len(q \o f) = Len(q) + Len(out)
      <3>1. PICK n \in Nat : n = Len(out)
        BY <2>0
      <3>2. f \in [1..n -> Item]
        BY <2>0, <3>1
      <3>3. q \o f \in Seq(Item) /\ Len(q \o f) = Len(q) + n
        BY ONLY <2>0, <3>2, n \in Nat, Joined
      <3> QED
        BY <3>1, <3>3
    <2>2. \A i \in 1..Len(q) : (q \o f)[i] = q[i]
      BY ONLY <2>0, Joined
    <2>3. \A i \in (Len(q) + 1)..(Len(q) + Len(out)) : i - Len(q) \in 1..Len(out) /\ (q \o f)[i] = f[i - Len(q)]
      BY ONLY <2>0, Joined
    <2> QED
      BY <2>1, <2>2, <2>3
  <1> QED
    BY <1>4, <1>5, <1>6

LEMMA LinedUp ==
    ASSUME NEW q \in Seq(Item)
    PROVE  /\ Line(q, <<>>) = q
           /\ \A out \in Seq(Job), j \in Job : Line(q, Append(out, j)) = Append(Line(q, out), Fresher(j))
  <1>1. Line(q, <<>>) = q
    <2>1. PICK p : p = Line(q, <<>>)
      OBVIOUS
    <2>2. <<>> \in Seq(Job) /\ Len(<<>>) = 0
      OBVIOUS
    <2>3. p \in Seq(Item) /\ Len(p) = Len(q) + 0 /\ \A i \in 1..Len(q) : p[i] = q[i]
      <3>1. PICK out \in Seq(Job) : out = <<>>
        BY <2>2
      <3>2. /\ Line(q, out) \in Seq(Item) /\ Len(Line(q, out)) = Len(q) + Len(out)
            /\ \A i \in 1..Len(q) : Line(q, out)[i] = q[i]
        BY Lined
      <3>3. Line(q, out) = p /\ Len(out) = 0
        BY <2>1, <2>2, <3>1
      <3> QED
        BY <3>2, <3>3
    <2>4. p = q
      BY <2>3
    <2> QED
      BY <2>1, <2>4
  <1>2. ASSUME NEW out \in Seq(Job), NEW j \in Job PROVE Line(q, Append(out, j)) = Append(Line(q, out), Fresher(j))
    <2>0. PICK more : more = Append(out, j)
      OBVIOUS
    <2>1. PICK p : p = Line(q, more)
      OBVIOUS
    <2>2. PICK r : r = Line(q, out)
      OBVIOUS
    <2>3. /\ more \in Seq(Job) /\ Len(more) = Len(out) + 1 /\ Len(out) \in Nat /\ Len(q) \in Nat
          /\ \A i \in 1..Len(out) : more[i] = out[i]
          /\ more[Len(out) + 1] = j
      BY <2>0
    <2>4. /\ p \in Seq(Item) /\ Len(p) = Len(q) + (Len(out) + 1)
          /\ \A i \in 1..Len(q) : p[i] = q[i]
          /\ \A i \in (Len(q) + 1)..(Len(q) + (Len(out) + 1)) : i - Len(q) \in 1..(Len(out) + 1) /\ p[i] = Fresher(more[i - Len(q)])
      <3>1. /\ p \in Seq(Item) /\ Len(p) = Len(q) + Len(more)
            /\ \A i \in 1..Len(q) : p[i] = q[i]
            /\ \A i \in (Len(q) + 1)..(Len(q) + Len(more)) : i - Len(q) \in 1..Len(more) /\ p[i] = Fresher(more[i - Len(q)])
        BY <2>1, <2>3, Lined
      <3>2. PICK n : n = Len(more)
        OBVIOUS
      <3> QED
        BY <3>1, <2>3
    <2>5. /\ r \in Seq(Item) /\ Len(r) = Len(q) + Len(out)
          /\ \A i \in 1..Len(q) : r[i] = q[i]
          /\ \A i \in (Len(q) + 1)..(Len(q) + Len(out)) : i - Len(q) \in 1..Len(out) /\ r[i] = Fresher(out[i - Len(q)])
      BY <2>2, Lined
    <2>6. Fresher(j) \in Item
      BY DEF Fresher, Item
    <2>7. PICK e : e = Append(r, Fresher(j))
      OBVIOUS
    <2>8. e \in Seq(Item) /\ Len(e) = Len(r) + 1 /\ (\A i \in 1..Len(r) : e[i] = r[i]) /\ e[Len(r) + 1] = Fresher(j)
      BY <2>5, <2>6, <2>7
    <2>9. ASSUME NEW i \in 1..Len(p) PROVE p[i] = e[i]
      <3>1. CASE i \in 1..Len(q)
        BY <3>1, <2>3, <2>4, <2>5, <2>8
      <3>2. CASE i \in (Len(q) + 1)..(Len(q) + Len(out))
        <4>1. i - Len(q) \in 1..Len(out) /\ i \in 1..Len(r) /\ i \in (Len(q) + 1)..(Len(q) + (Len(out) + 1))
          BY <3>2, <2>3, <2>5
        <4>2. p[i] = Fresher(more[i - Len(q)]) /\ r[i] = Fresher(out[i - Len(q)])
          BY <3>2, <4>1, <2>4, <2>5
        <4> QED
          BY <4>1, <4>2, <2>3, <2>8
      <3>3. CASE i = Len(q) + Len(out) + 1
        <4>1. i - Len(q) = Len(out) + 1 /\ i = Len(r) + 1 /\ i \in (Len(q) + 1)..(Len(q) + (Len(out) + 1))
          BY <3>3, <2>3, <2>5
        <4>2. p[i] = Fresher(more[i - Len(q)])
          BY <4>1, <2>4
        <4> QED
          BY <4>1, <4>2, <2>3, <2>8
      <3> QED
        <4>1. i \in 1..(Len(q) + (Len(out) + 1))
          BY <2>4
        <4>2. PICK a \in Nat, b \in Nat : a = Len(q) /\ b = Len(out)
          BY <2>3
        <4>3. i \in 1..(a + (b + 1))
          BY <4>1, <4>2
        <4>4. i \in 1..a \/ i \in (a + 1)..(a + b) \/ i = a + b + 1
          BY ONLY <4>3, a \in Nat, b \in Nat
        <4> QED
          BY <4>2, <4>4, <3>1, <3>2, <3>3
    <2>10. Len(p) = Len(e)
      BY <2>3, <2>4, <2>5, <2>8
    <2>11. p = e
      <3>1. p \in Seq(Item) /\ e \in Seq(Item)
        BY <2>4, <2>8
      <3> QED
        BY ONLY <3>1, <2>9, <2>10
    <2> QED
      BY <2>0, <2>1, <2>2, <2>7, <2>11
  <1> QED
    BY <1>1, <1>2

LEMMA Overflowed ==
    ASSUME TypeInv, NEW u \in Unit, NEW s, s.out \in Seq(Job), NEW box \in Seq(Sent), Len(box) <= InboxSize, Apply(u, s, box)
    PROVE  /\ Begins(box, inbox')
           /\ \A i \in (Len(box) + 1)..Len(inbox') :
                /\ Accepted(u, s.out) + (i - Len(box)) \in (Accepted(u, s.out) + 1)..Len(s.out)
                /\ inbox'[i] = FailureOf(u, s.out[Accepted(u, s.out) + (i - Len(box))])
           /\ \A v \in Unit : Clean(v)' => Clean(v)
           /\ Clean(u)' => /\ Len(inbox') - Len(box) = Len(s.out) - Accepted(u, s.out) /\ ~Crosses(u, s)
                           /\ \A i \in (Accepted(u, s.out) + 1)..Len(s.out) : ~Leaves(s.out[i])
  <1>1. PICK out \in Seq(Job) : out = s.out
    OBVIOUS
  <1>2. PICK fit : fit = Accepted(u, out)
    OBVIOUS
  <1>3. PICK told : told = Least(Len(out) - fit, InboxSize - Len(box))
    OBVIOUS
  <1>4. PICK g : g = [i \in 1..told |-> FailureOf(u, out[fit + i])]
    OBVIOUS
  <1>5. Submitted(u, out, box)
    BY <1>1, Applied
  <1>6. Len(out) \in Nat /\ Len(box) \in Nat /\ fit \in Nat /\ fit <= Len(out) /\ InboxSize \in Nat
    BY <1>2, <1>5, ConstantsAssumption DEF Submitted
  <1>7. told \in Nat /\ told <= Len(out) - fit /\ told <= InboxSize - Len(box)
    BY <1>3, <1>6 DEF Least
  <1>8. inbox' = box \o g /\ lost' = (lost \/ told < Len(out) - fit)
    BY <1>1, <1>2, <1>3, <1>4 DEF Apply, Accepted
  <1>9. /\ loose' = IF \E i \in (fit + 1)..Len(out) : Leaves(out[i]) THEN loose \cup {u} ELSE loose
        /\ crossed' = IF Crosses(u, s) THEN crossed \cup {u} ELSE crossed
    BY <1>1, <1>2 DEF Apply, Accepted
  <1>10. g \in [1..told -> Sent] /\ \A i \in 1..told : fit + i \in (fit + 1)..Len(out) /\ g[i] = FailureOf(u, out[fit + i])
    <2>1. \A i \in 1..told : fit + i \in (fit + 1)..Len(out) /\ fit + i \in 1..Len(out)
      BY <1>6, <1>7
    <2>2. \A i \in 1..told : FailureOf(u, out[fit + i]) \in Sent
      BY <2>1, FailureTyped
    <2> QED
      BY <1>4, <2>1, <2>2
  <1>11. /\ Len(box \o g) = Len(box) + told
         /\ \A i \in 1..Len(box) : (box \o g)[i] = box[i]
         /\ \A i \in (Len(box) + 1)..(Len(box) + told) : i - Len(box) \in 1..told /\ (box \o g)[i] = g[i - Len(box)]
    <2>1. Len(box \o g) = Len(box) + told
      BY ONLY <1>7, <1>10, Joined, box \in Seq(Sent)
    <2>2. \A i \in 1..Len(box) : (box \o g)[i] = box[i]
      BY ONLY <1>7, <1>10, Joined, box \in Seq(Sent)
    <2>3. \A i \in (Len(box) + 1)..(Len(box) + told) : i - Len(box) \in 1..told /\ (box \o g)[i] = g[i - Len(box)]
      BY ONLY <1>7, <1>10, Joined, box \in Seq(Sent)
    <2> QED
      BY <2>1, <2>2, <2>3
  <1>12. Begins(box, inbox')
    BY <1>6, <1>7, <1>8, <1>11 DEF Begins
  <1>13. \A i \in (Len(box) + 1)..Len(inbox') :
           fit + (i - Len(box)) \in (fit + 1)..Len(out) /\ inbox'[i] = FailureOf(u, out[fit + (i - Len(box))])
    BY <1>8, <1>10, <1>11
  <1>14. \A v \in Unit : Clean(v)' => Clean(v)
    BY <1>8, <1>9 DEF Clean
  <1>15. ASSUME Clean(u)'
         PROVE  /\ Len(inbox') - Len(box) = Len(out) - fit /\ ~Crosses(u, s)
                /\ \A i \in (fit + 1)..Len(out) : ~Leaves(out[i])
    <2>1. ~lost' /\ u \notin loose' /\ u \notin crossed'
      BY <1>15 DEF Clean
    <2>2. ~Crosses(u, s) /\ \A i \in (fit + 1)..Len(out) : ~Leaves(out[i])
      BY <2>1, <1>9
    <2>3. told = Len(out) - fit
      <3>1. ~(told < Len(out) - fit)
        BY <2>1, <1>8
      <3> QED
        BY <3>1, <1>6, <1>7
    <2> QED
      BY <2>2, <2>3, <1>6, <1>8, <1>11
  <1> QED
    BY <1>1, <1>2, <1>12, <1>13, <1>14, <1>15

\* A step of unit u explains what it leaves, when its jobs all queued would.
LEMMA AppliedExplained ==
    ASSUME TypeInv, NEW u \in Unit, NEW r \in Steps, NEW box \in Seq(Sent), Len(box) <= InboxSize, Apply(u, r, box),
           \A v \in Unit \ {u} : Clean(v) => Explained(ram[v], row[v], queue[v], box, v),
           Clean(u) /\ ~Crosses(u, r) => Explained(r.u, row[u], Line(queue[u], r.out), box, u)
    PROVE  Untangled'
  <1>1. r.out \in Seq(Job)
    BY DEF Steps
  <1>2. /\ TypeInv' /\ Submitted(u, r.out, box) /\ ram' = [ram EXCEPT ![u] = r.u] /\ row' = row
    BY AppliedTypes
  <1>3. inbox' \in Seq(Sent) /\ queue[u] \in Seq(Item) /\ queue'[u] \in Seq(Item) /\ ram \in [Unit -> Memory]
    BY <1>2 DEF TypeInv, InboxType, QueueType, RamType
  <1>4. PICK out \in Seq(Job) : out = r.out
    BY <1>1
  <1>5. PICK fit : fit = Accepted(u, out)
    OBVIOUS
  <1>6. PICK q \in Seq(Item) : q = queue[u]
    BY <1>3
  <1>7. PICK p \in Seq(Item) : p = queue'[u]
    BY <1>3
  <1>8. /\ fit \in 0..Len(out) /\ Len(p) = Len(q) + fit
        /\ \A i \in 1..Len(q) : p[i] = q[i]
        /\ \A i \in (Len(q) + 1)..Len(p) : i - Len(q) \in 1..Len(out) /\ p[i] = Fresher(out[i - Len(q)])
    BY <1>2, <1>4, <1>5, <1>6, <1>7 DEF Submitted, Fresher
  <1>9. /\ Begins(box, inbox')
        /\ \A i \in (Len(box) + 1)..Len(inbox') :
             fit + (i - Len(box)) \in (fit + 1)..Len(out) /\ inbox'[i] = FailureOf(u, out[fit + (i - Len(box))])
        /\ \A v \in Unit : Clean(v)' => Clean(v)
        /\ Clean(u)' => /\ Len(inbox') - Len(box) = Len(out) - fit /\ ~Crosses(u, r)
                        /\ \A i \in (fit + 1)..Len(out) : ~Leaves(out[i])
    BY <1>1, <1>4, <1>5, Overflowed
  <1>10. ASSUME NEW v \in Unit \ {u}, Clean(v)' PROVE Explained(ram'[v], row'[v], queue'[v], inbox', v)
    <2>1. ram'[v] = ram[v] /\ row'[v] = row[v] /\ queue'[v] = queue[v]
      BY <1>2, <1>3 DEF Submitted
    <2>2. \A i \in (Len(box) + 1)..Len(inbox') : inbox'[i].u # v
      BY <1>9, FailureFields
    <2>3. Explained(ram[v], row[v], queue[v], inbox', v)
      BY <1>3, <1>9, <1>10, <2>2, GrownExplained
    <2> QED
      BY <2>1, <2>3
  <1>11. ASSUME Clean(u)' PROVE Explained(ram'[u], row'[u], queue'[u], inbox', u)
    <2>1. PICK full : full = Line(q, out)
      OBVIOUS
    <2>2. /\ full \in Seq(Item) /\ Len(full) = Len(q) + Len(out)
          /\ \A i \in 1..Len(q) : full[i] = q[i]
          /\ \A i \in (Len(q) + 1)..(Len(q) + Len(out)) : i - Len(q) \in 1..Len(out) /\ full[i] = Fresher(out[i - Len(q)])
      BY <2>1, Lined
    <2>3. Explained(r.u, row[u], full, box, u)
      BY <1>4, <1>6, <1>9, <1>11, <2>1
    <2>4. /\ Len(q) \in Nat /\ Len(out) \in Nat /\ Len(p) \in Nat /\ Len(full) \in Nat /\ fit \in Nat /\ Len(box) \in Nat /\ Len(inbox') \in Nat
          /\ DOMAIN p = 1..Len(p) /\ DOMAIN full = 1..Len(full) /\ Len(p) <= Len(full)
      BY <1>3, <1>8, <2>2
    <2>5. PICK g : g = [i \in 1..Len(p) |-> i]
      OBVIOUS
    <2>6. \A i \in 1..Len(p) : g[i] = i
      BY <2>5
    <2>7. ASSUME NEW i \in 1..Len(p) PROVE p[i] = full[i]
      <3>1. CASE i \in 1..Len(q)
        BY <3>1, <1>8, <2>2
      <3>2. CASE i \in (Len(q) + 1)..Len(p)
        <4>1. i \in (Len(q) + 1)..(Len(q) + Len(out))
          BY <3>2, <1>8, <2>4
        <4> QED
          BY <3>2, <4>1, <1>8, <2>2
      <3> QED
        BY <2>4, <3>1, <3>2
    <2>8. Sift(full, p, g)
      <3>1. g \in [DOMAIN p -> DOMAIN full]
        BY <2>4, <2>5
      <3> QED
        BY <2>4, <2>6, <2>7, <3>1 DEF Sift
    <2>9. Given(full, p, g) = (Len(p) + 1)..Len(full)
      BY <2>4, <2>6 DEF Given
    <2>10. PICK o : o = [i \in Nat |-> Len(p) + (i - Len(box))]
      OBVIOUS
    <2>11. \A i \in (Len(box) + 1)..Len(inbox') : o[i] = Len(p) + (i - Len(box))
      BY <2>4, <2>10
    <2>12. Len(inbox') - Len(box) = Len(full) - Len(p)
      BY <1>8, <1>9, <1>11, <2>2, <2>4
    <2>13. ASSUME NEW n \in (Len(p) + 1)..Len(full)
           PROVE  /\ n - Len(q) \in (fit + 1)..Len(out) /\ full[n] = Fresher(out[n - Len(q)])
                  /\ full[n].job = out[n - Len(q)] /\ ~full[n].done /\ full[n].job \in Job
      <3>1. n \in (Len(q) + 1)..(Len(q) + Len(out)) /\ n - Len(q) \in (fit + 1)..Len(out)
        BY <1>8, <2>2, <2>4
      <3>2. full[n] = Fresher(out[n - Len(q)]) /\ n - Len(q) \in 1..Len(out)
        BY <2>2, <3>1
      <3> QED
        BY <3>1, <3>2 DEF Fresher
    <2>14. ASSUME NEW i \in (Len(box) + 1)..Len(inbox')
           PROVE  o[i] \in (Len(p) + 1)..Len(full) /\ inbox'[i] = FailureOf(u, full[o[i]].job)
      <3>1. o[i] \in (Len(p) + 1)..Len(full) /\ o[i] - Len(q) = fit + (i - Len(box))
        BY <1>8, <2>4, <2>11, <2>12
      <3> QED
        BY <3>1, <1>9, <2>13
    <2>15. ASSUME NEW n \in (Len(p) + 1)..Len(full)
           PROVE  /\ full[n].job \in Job /\ ~full[n].done /\ ~Leaves(full[n].job)
                  /\ \E i \in (Len(box) + 1)..Len(inbox') : o[i] = n
      <3>1. ~Leaves(full[n].job)
        BY <2>13, <1>9, <1>11
      <3>2. n - Len(p) + Len(box) \in (Len(box) + 1)..Len(inbox')
        BY <2>4, <2>12
      <3>3. o[n - Len(p) + Len(box)] = n
        <4>1. o[n - Len(p) + Len(box)] = Len(p) + ((n - Len(p) + Len(box)) - Len(box))
          BY <2>11, <3>2
        <4>2. Len(p) + ((n - Len(p) + Len(box)) - Len(box)) = n
          BY <2>4
        <4> QED
          BY <4>1, <4>2
      <3> QED
        BY <2>13, <3>1, <3>2, <3>3
    <2>16. \A i, k \in (Len(box) + 1)..Len(inbox') : o[i] = o[k] => i = k
      BY <2>4, <2>11
    <2>17. Reported(box, inbox', full, p, g, u, o)
      BY <1>3, <1>9, <2>9, <2>14, <2>15, <2>16 DEF Reported
    <2>18. Explained(r.u, row[u], p, inbox', u)
      BY <2>3, <2>8, <2>17, SiftExplained
    <2> QED
      BY <1>2, <1>3, <1>7, <2>18
  <1> QED
    BY <1>10, <1>11 DEF Untangled

-----------------------------------------------------------------------------
(* A queue that grows by one job.                                          *)

LEMMA AppendGrown ==
    ASSUME NEW q \in Seq(Item), NEW j \in Job
    PROVE  Grown(q, j, Append(q, Fresher(j))) /\ Append(q, Fresher(j)) \in Seq(Item)
  <1>1. Fresher(j) \in Item /\ Fresher(j).job = j /\ Fresher(j).done = FALSE
    BY DEF Fresher, Item
  <1>2. PICK e \in Item : e = Fresher(j)
    BY <1>1
  <1>3. PICK p : p = Append(q, e)
    OBVIOUS
  <1>4. /\ p \in Seq(Item) /\ Len(p) = Len(q) + 1 /\ (\A i \in 1..Len(q) : p[i] = q[i]) /\ p[Len(q) + 1] = e
    BY <1>3
  <1>5. Len(q) \in Nat /\ DOMAIN q = 1..Len(q) /\ DOMAIN p = 1..(Len(q) + 1)
    BY <1>4
  <1>6. /\ Len(q) + 1 \in 1..(Len(q) + 1) /\ Len(q) + 1 \in Nat
        /\ \A i \in 1..Len(q) : i \in 1..(Len(q) + 1) /\ i < Len(q) + 1 /\ i \in Nat
        /\ \A i \in 1..(Len(q) + 1) : i \in 1..Len(q) \/ i = Len(q) + 1
        /\ Len(q) + 1 \notin 1..Len(q)
    BY <1>5
  <1>7. Grown(q, j, p)
    BY <1>1, <1>2, <1>4, <1>5, <1>6 DEF Grown, Next1
  <1> QED
    BY <1>2, <1>3, <1>4, <1>7

LEMMA GrownClosed ==
    ASSUME NEW q, NEW j, NEW p, Grown(q, j, p), NEW w, NEW pend, NEW x, NEW T, Closed(w, pend, x, q, T),
           NEW w2, OpenedBy(j) \in {0, w2}, w2 = w \/ w = 0 \/ Ends(j, w),
           w2 # 0 => ~Ends(j, w2) /\ ~Closing(w2, pend, q, T, 0)
    PROVE  Closed(w2, pend, x, p, T)
  <1>1. ASSUME NEW id, NEW n, Closing(id, pend, q, T, n) PROVE Closing(id, pend, p, T, n)
    BY <1>1 DEF Grown, Closing
  <1>2. ASSUME Ends(j, w), NEW n \in (DOMAIN q) \cup {0} PROVE Closing(w, pend, p, T, n)
    <2>1. Next1(q) > n /\ Next1(q) \in DOMAIN p /\ Ends(p[Next1(q)].job, w)
      BY <1>2 DEF Grown, Next1
    <2> QED
      BY <2>1 DEF Closing
  <1>3. ASSUME x.walk.id \notin {0, w2} PROVE Closing(x.walk.id, pend, p, T, 0)
    <2>1. CASE x.walk.id = w
      <3>1. Ends(j, w)
        BY <1>3, <2>1
      <3> QED
        BY <3>1, <2>1, <1>2
    <2>2. CASE x.walk.id # w
      BY <1>3, <2>2, <1>1 DEF Closed
    <2> QED
      BY <2>1, <2>2
  <1>4. ASSUME NEW i \in DOMAIN p, OpenedBy(p[i].job) \notin {0, w2} PROVE Closing(OpenedBy(p[i].job), pend, p, T, i)
    <2>1. i \in DOMAIN q /\ p[i] = q[i]
      BY <1>4 DEF Grown
    <2>2. CASE OpenedBy(p[i].job) = w
      <3>1. Ends(j, w)
        BY <1>4, <2>2
      <3> QED
        BY <3>1, <2>1, <2>2, <1>2
    <2>3. CASE OpenedBy(p[i].job) # w
      BY <1>4, <2>1, <2>3, <1>1 DEF Closed
    <2> QED
      BY <2>2, <2>3
  <1>5. ASSUME w2 # 0 PROVE ~Closing(w2, pend, p, T, 0)
    <2>1. SUFFICES ASSUME NEW k \in DOMAIN p, k > 0, Ends(p[k].job, w2) PROVE FALSE
      BY <1>5 DEF Closing
    <2>2. k \in DOMAIN q /\ p[k] = q[k]
      BY <1>5, <2>1 DEF Grown
    <2> QED
      BY <1>5, <2>1, <2>2 DEF Closing
  <1> QED
    BY <1>3, <1>4, <1>5 DEF Closed

LEMMA GrownAgreed ==
    ASSUME NEW q, NEW j, NEW p, Grown(q, j, p), NEW m, NEW x, NEW T
    PROVE  /\ Writes(m, j) => Agreed(m, x, p, T)
           /\ Agreed(m, x, q, T) /\ ~Overwrites(m, j) => Agreed(m, x, p, T)
  <1>1. ASSUME Writes(m, j) PROVE Agreed(m, x, p, T)
    <2>1. Writes(m, p[Next1(q)].job) /\ Next1(q) \in DOMAIN p
      BY <1>1 DEF Grown
    <2>2. \A k \in DOMAIN p : ~(k > Next1(q))
      BY DEF Grown
    <2> QED
      BY <2>1, <2>2 DEF Agreed
  <1>2. ASSUME Agreed(m, x, q, T), ~Overwrites(m, j) PROVE Agreed(m, x, p, T)
    <2> SUFFICES ASSUME Busy(m) PROVE Agreed(m, x, p, T)
      BY DEF Agreed
    <2>1. CASE Fails(m, T)
      BY <2>1 DEF Agreed
    <2>2. CASE Holds(m, x) /\ \A k \in DOMAIN q : ~Overwrites(m, q[k].job)
      <3>1. \A k \in DOMAIN p : ~Overwrites(m, p[k].job)
        BY <1>2, <2>2 DEF Grown
      <3> QED
        BY <2>2, <3>1 DEF Agreed
    <2>3. ASSUME NEW i \in DOMAIN q, Writes(m, q[i].job), \A k \in DOMAIN q : k > i => ~Overwrites(m, q[k].job)
          PROVE  Agreed(m, x, p, T)
      <3>1. \A k \in DOMAIN p : k > i => ~Overwrites(m, p[k].job)
        BY <1>2, <2>3 DEF Grown
      <3>2. i \in DOMAIN p /\ Writes(m, p[i].job)
        BY <2>3 DEF Grown
      <3> QED
        BY <3>1, <3>2 DEF Agreed
    <2> QED
      BY <1>2, <2>1, <2>2, <2>3 DEF Agreed
  <1> QED
    BY <1>1, <1>2

LEMMA GrownPlaced ==
    ASSUME NEW q, NEW j, NEW p, Grown(q, j, p), NEW m, NEW x, NEW T
    PROVE  /\ Places(m, j) => Placed(m, x, p, T)
           /\ Placed(m, x, q, T) /\ ~Displaces(j) => Placed(m, x, p, T)
  <1>1. ASSUME Places(m, j) PROVE Placed(m, x, p, T)
    <2>1. Places(m, p[Next1(q)].job) /\ Next1(q) \in DOMAIN p
      BY <1>1 DEF Grown
    <2>2. \A k \in DOMAIN p : ~(k > Next1(q))
      BY DEF Grown
    <2> QED
      BY <2>1, <2>2 DEF Placed
  <1>2. ASSUME Placed(m, x, q, T), ~Displaces(j) PROVE Placed(m, x, p, T)
    <2> SUFFICES ASSUME m.walk = NoWalk, ~m.dirty, \A y \in T : y.k \notin {"FlushFailed", "FinishFailed"}
                 PROVE  Placed(m, x, p, T)
      BY DEF Placed
    <2>1. CASE At(m, x.at, x.status) /\ \A k \in DOMAIN q : ~Displaces(q[k].job)
      <3>1. \A k \in DOMAIN p : ~Displaces(p[k].job)
        BY <1>2, <2>1 DEF Grown
      <3> QED
        BY <2>1, <3>1 DEF Placed
    <2>2. ASSUME NEW i \in DOMAIN q, Places(m, q[i].job), \A k \in DOMAIN q : k > i => ~Displaces(q[k].job)
          PROVE  Placed(m, x, p, T)
      <3>1. \A k \in DOMAIN p : k > i => ~Displaces(p[k].job)
        BY <1>2, <2>2 DEF Grown
      <3>2. i \in DOMAIN p /\ Places(m, p[i].job)
        BY <2>2 DEF Grown
      <3> QED
        BY <3>1, <3>2 DEF Placed
    <2> QED
      BY <1>2, <2>1, <2>2 DEF Placed
  <1> QED
    BY <1>1, <1>2

\* A job that is no exit, and an entry only without anybody inside: the strand of the
\* city holds for any memory that is as inside as m.
LEMMA GrownHoused ==
    ASSUME NEW q, NEW j, NEW p, Grown(q, j, p), j.k # "Leave", NEW m, NEW h, NEW box, NEW u, Housed(m, h, q, box, u),
           NEW m2, m2.status = "GARRISONED" <=> m.status = "GARRISONED", m2.inside = m.inside
    PROVE  Housed(m2, h, p, box, u)
  <1>1. ASSUME NEW i \in Nat PROVE LeaveIn(p, i) <=> LeaveIn(q, i)
    BY DEF LeaveIn, Grown
  <1>2. ASSUME NEW i \in Nat, EnterIn(p, i) PROVE EnterIn(q, i) \/ i = Next1(q)
    BY <1>2 DEF EnterIn, Grown
  <1>3. ASSUME NEW i \in Nat, i \in DOMAIN q PROVE p[i] = q[i] /\ i \in DOMAIN p /\ i < Next1(q)
    BY <1>3 DEF Grown
  <1>4. OneExit(p, box, u)
    BY <1>1 DEF Housed, OneExit
  <1>5. Inside(m2, h, p, box, u)
    BY <1>1 DEF Housed, Inside
  <1>6. Welcomed(h, p, box, u)
    BY <1>1 DEF Housed, Welcomed
  <1>7. Leaving(h, p, box, u)
    <2>1. ASSUME NEW i \in Nat, LeaveIn(p, i)
          PROVE  h = (IF p[i].done THEN NoCity ELSE p[i].job.city) /\ \A k \in Nat : EnterIn(p, k) => i < k /\ ~p[k].done
      <3>1. LeaveIn(q, i) /\ i \in DOMAIN q /\ p[i] = q[i] /\ i < Next1(q)
        BY <2>1, <1>1, <1>3 DEF LeaveIn
      <3>2. h = (IF q[i].done THEN NoCity ELSE q[i].job.city) /\ \A k \in Nat : EnterIn(q, k) => i < k /\ ~q[k].done
        BY <3>1 DEF Housed, Leaving
      <3>3. ASSUME NEW k \in Nat, EnterIn(p, k) PROVE i < k /\ ~p[k].done
        <4>1. CASE EnterIn(q, k)
          BY <4>1, <3>2, <1>3 DEF EnterIn
        <4>2. CASE k = Next1(q)
          BY <4>2, <3>1 DEF Grown
        <4> QED
          BY <3>3, <4>1, <4>2, <1>2
      <3> QED
        BY <3>1, <3>2, <3>3
    <2> QED
      BY <2>1 DEF Housed, Leaving
  <1>8. Outside(m2, h, p, box, u)
    <2>1. ASSUME NEW i \in Nat, EnterIn(q, i), q[i].done, h = q[i].job.city PROVE EnterIn(p, i) /\ p[i].done /\ h = p[i].job.city
      BY <2>1, <1>3 DEF EnterIn
    <2> QED
      BY <2>1, <1>1 DEF Housed, Outside
  <1> QED
    BY <1>4, <1>5, <1>6, <1>7, <1>8 DEF Housed

\* The exit of a unit that waits for no entry.
LEMMA GrownLeaves ==
    ASSUME NEW q, NEW j, NEW p, Grown(q, j, p), j.k = "Leave", NEW m, NEW h, NEW box, NEW u, Housed(m, h, q, box, u),
           m.status = "GARRISONED", j.city = m.inside, NEW m2, m2.status # "GARRISONED",
           \A i \in Nat : ~EnterIn(q, i) /\ ~AnswerIn(box, u, i)
    PROVE  Housed(m2, h, p, box, u)
  <1>1. h = m.inside /\ \A i \in Nat : ~LeaveIn(q, i) /\ ~ExitIn(box, u, i)
    BY DEF Housed, Inside
  <1>2. ASSUME NEW i \in Nat PROVE LeaveIn(p, i) <=> i = Next1(q)
    BY <1>1 DEF LeaveIn, Grown
  <1>3. ASSUME NEW i \in Nat PROVE ~EnterIn(p, i)
    BY DEF EnterIn, Grown
  <1>4. ASSUME NEW i \in Nat PROVE ~YesIn(box, u, i)
    BY DEF YesIn, AnswerIn
  <1>5. OneExit(p, box, u)
    BY <1>1, <1>2 DEF OneExit
  <1>6. Inside(m2, h, p, box, u) /\ Welcomed(h, p, box, u)
    BY <1>4 DEF Inside, Welcomed
  <1>7. Leaving(h, p, box, u)
    BY <1>1, <1>2, <1>3 DEF Leaving, Grown
  <1>8. Outside(m2, h, p, box, u)
    BY <1>2 DEF Outside, Grown
  <1> QED
    BY <1>5, <1>6, <1>7, <1>8 DEF Housed

-----------------------------------------------------------------------------
(* Steps that explain what they leave.                                     *)

\* The jobs of s queued behind q explain row x, with w for walk, save what the memory
\* of s still has to write.
Sound(s, w, x, q, box, u) ==
  /\ s.out \in Seq(Job)
  /\ Closed(w, s.u.pend, x, Line(q, s.out), Told(box, u))
  /\ Housed(s.u, x.host, Line(q, s.out), box, u)
  /\ ~Closing(s.n, s.u.pend, Line(q, s.out), Told(box, u), 0)

LEMMA LineTyped ==
    ASSUME NEW q \in Seq(Item), NEW out \in Seq(Job)
    PROVE  Line(q, out) \in Seq(Item)
  BY Lined

LEMMA LineGrown ==
    ASSUME NEW q \in Seq(Item), NEW out \in Seq(Job), NEW j \in Job
    PROVE  Grown(Line(q, out), j, Line(q, Append(out, j)))
  <1>1. PICK l \in Seq(Item) : l = Line(q, out)
    BY LineTyped
  <1>2. Line(q, Append(out, j)) = Append(l, Fresher(j))
    BY <1>1, LinedUp
  <1>3. Grown(l, j, Append(l, Fresher(j)))
    BY AppendGrown
  <1> QED
    BY <1>1, <1>2, <1>3

LEMMA GrownClosing ==
    ASSUME NEW q, NEW j, NEW p, Grown(q, j, p), NEW id, ~Ends(j, id), NEW pend, NEW T, ~Closing(id, pend, q, T, 0)
    PROVE  ~Closing(id, pend, p, T, 0)
  <1>1. SUFFICES ASSUME NEW k \in DOMAIN p, k > 0, Ends(p[k].job, id) PROVE FALSE
    BY DEF Closing
  <1>2. k \in DOMAIN q /\ p[k] = q[k]
    BY <1>1 DEF Grown
  <1> QED
    BY <1>1, <1>2 DEF Closing

\* A step that leaves one job more.
LEMMA Steered ==
    ASSUME NEW s, NEW w, NEW x, NEW q \in Seq(Item), NEW box, NEW u, Sound(s, w, x, q, box, u),
           NEW j \in Job, j.k # "Leave", ~Ends(j, s.n),
           NEW r, r.out = Append(s.out, j), r.n = s.n, r.u.pend = s.u.pend, r.u.inside = s.u.inside,
           r.u.status = "GARRISONED" <=> s.u.status = "GARRISONED",
           NEW w2, w2 \in {0, w, s.n}, OpenedBy(j) \in {0, w2}, w2 = w \/ w = 0 \/ Ends(j, w), w2 # 0 => ~Ends(j, w2)
    PROVE  /\ Sound(r, w2, x, q, box, u)
           /\ w2 = r.u.walk.id /\ r.u.dirty /\ (Busy(r.u) => Writes(r.u, j)) => Explained(r.u, x, Line(q, r.out), box, u)
  <1>1. PICK out \in Seq(Job) : out = s.out
    BY DEF Sound
  <1>2. PICK l : l = Line(q, out)
    OBVIOUS
  <1>3. PICK p : p = Line(q, r.out)
    OBVIOUS
  <1>4. Grown(l, j, p)
    BY <1>1, <1>2, <1>3, LineGrown
  <1>5. r.out \in Seq(Job)
    BY <1>1, Appended
  <1>6. Closed(w, r.u.pend, x, l, Told(box, u)) /\ ~Closing(r.n, r.u.pend, l, Told(box, u), 0) /\ Housed(s.u, x.host, l, box, u)
    BY <1>1, <1>2 DEF Sound
  <1>7. ~Closing(r.n, r.u.pend, p, Told(box, u), 0)
    BY <1>4, <1>6, GrownClosing
  <1>8. Closed(w2, r.u.pend, x, p, Told(box, u))
    <2>1. w2 # 0 => ~Closing(w2, r.u.pend, l, Told(box, u), 0)
      BY <1>6 DEF Closed
    <2> QED
      BY <1>4, <1>6, <2>1, GrownClosed
  <1>9. Housed(r.u, x.host, p, box, u)
    BY <1>4, <1>6, GrownHoused
  <1>10. Sound(r, w2, x, q, box, u)
    BY <1>3, <1>5, <1>7, <1>8, <1>9 DEF Sound
  <1>11. ASSUME w2 = r.u.walk.id, r.u.dirty, Busy(r.u) => Writes(r.u, j) PROVE Explained(r.u, x, p, box, u)
    <2>1. Agreed(r.u, x, p, Told(box, u))
      <3>1. CASE Busy(r.u)
        BY <3>1, <1>4, <1>11, GrownAgreed
      <3>2. CASE ~Busy(r.u)
        BY <3>2 DEF Agreed
      <3> QED
        BY <3>1, <3>2
    <2>2. Placed(r.u, x, p, Told(box, u))
      BY <1>11 DEF Placed
    <2> QED
      BY <1>8, <1>9, <1>11, <2>1, <2>2 DEF Explained
  <1> QED
    BY <1>3, <1>10, <1>11

\* Two memories the city, the walk and the closings of a unit do not tell apart.
LEMMA HousedAlike ==
    ASSUME NEW m, NEW m2, m2.status = "GARRISONED" <=> m.status = "GARRISONED", m2.inside = m.inside,
           NEW h, NEW q, NEW box, NEW u, Housed(m, h, q, box, u)
    PROVE  Housed(m2, h, q, box, u)
  BY DEF Housed, Inside, Outside

LEMMA SoundAlike ==
    ASSUME NEW s, NEW r, r.out = s.out, r.n = s.n, r.u.pend = s.u.pend, r.u.inside = s.u.inside,
           r.u.status = "GARRISONED" <=> s.u.status = "GARRISONED",
           NEW w, NEW x, NEW q, NEW box, NEW u, Sound(s, w, x, q, box, u)
    PROVE  Sound(r, w, x, q, box, u)
  BY HousedAlike DEF Sound

LEMMA ExplainedAlike ==
    ASSUME NEW m, NEW m2, m2.status = m.status, m2.at = m.at, m2.walk = m.walk, m2.inside = m.inside, m2.pend = m.pend,
           m2.dirty = m.dirty \/ m2.dirty, m2.task = m.task \/ (~Held(m) /\ ~Held(m2)),
           NEW x, NEW q, NEW box, NEW u, Explained(m, x, q, box, u)
    PROVE  Explained(m2, x, q, box, u)
  <1>1. Housed(m2, x.host, q, box, u)
    BY HousedAlike DEF Explained
  <1>2. Held(m2) = Held(m) /\ Busy(m2) = Busy(m)
    BY DEF Held, Busy
  <1>3. Agreed(m2, x, q, Told(box, u))
    <2>1. Held(m) => m2.task = m.task
      OBVIOUS
    <2>2. \A j : Writes(m2, j) = Writes(m, j) /\ Overwrites(m2, j) = Overwrites(m, j)
      BY <1>2, <2>1 DEF Writes, Overwrites
    <2>3. Holds(m2, x) = Holds(m, x) /\ Fails(m2, Told(box, u)) = Fails(m, Told(box, u))
      BY <1>2, <2>1 DEF Holds, Fails
    <2> QED
      BY <1>2, <2>2, <2>3 DEF Explained, Agreed
  <1>4. Placed(m2, x, q, Told(box, u))
    <2>1. \A j : Places(m2, j) = Places(m, j)
      BY DEF Places, At
    <2>2. At(m2, x.at, x.status) = At(m, x.at, x.status)
      BY DEF At
    <2> QED
      BY <2>1, <2>2 DEF Explained, Placed
  <1> QED
    BY <1>1, <1>3, <1>4 DEF Explained

-----------------------------------------------------------------------------
(* The steps that stop a unit.                                             *)

LEMMA FinishTyped ==
    ASSUME NEW id \in Nat, NEW at \in Tile
    PROVE  LET j == FinishJob(id, TRUE, at)
           IN /\ j \in Job /\ j.k = "Finish" /\ j.at = at /\ OpenedBy(j) = 0
              /\ Ends(j, id) /\ \A n : n # id => ~Ends(j, n)
  <1>1. FinishJob(id, TRUE, at) \in Job
    BY PlainJob
  <1> QED
    BY <1>1 DEF FinishJob, OpenedBy, Ends

LEMMA CancelFields ==
    ASSUME NEW s \in Steps, s.u.walk # NoWalk, NEW stop
    PROVE  LET c == Cancel(s, stop)
           IN /\ c.out = Append(s.out, FinishJob(s.u.walk.id, TRUE, stop)) /\ c.n = s.n
              /\ c.u.walk = NoWalk /\ c.u.task = NoTask /\ c.u.status = "IDLE" /\ c.u.dirty = TRUE
              /\ c.u.pend = s.u.pend /\ c.u.inside = s.u.inside
  <1>1. PICK m : m = [s.u EXCEPT !.task = NoTask, !.walk = NoWalk, !.status = "IDLE", !.at = stop, !.dirty = TRUE]
    OBVIOUS
  <1>2. PICK out : out = Append(s.out, FinishJob(s.u.walk.id, TRUE, stop))
    OBVIOUS
  <1>3. PICK c : c = [s EXCEPT !.u = m, !.out = out]
    OBVIOUS
  <1>4. Cancel(s, stop) = c
    BY <1>1, <1>2, <1>3 DEF Cancel, Steps, Memory
  <1>5. c.u = m /\ c.out = out /\ c.n = s.n
    BY <1>3 DEF Steps
  <1>6. /\ m.walk = NoWalk /\ m.task = NoTask /\ m.status = "IDLE" /\ m.dirty = TRUE
        /\ m.pend = s.u.pend /\ m.inside = s.u.inside
    BY <1>1 DEF Steps, Memory
  <1> QED
    BY <1>2, <1>4, <1>5, <1>6

LEMMA StopWorkingFields ==
    ASSUME NEW s \in Steps, s.u.status = "WORKING"
    PROVE  LET c == StopWorking(s)
           IN /\ c.out = Append(s.out, FinishJob(0, TRUE, s.u.at)) /\ c.n = s.n
              /\ c.u.walk = s.u.walk /\ c.u.task = NoTask /\ c.u.status = "IDLE" /\ c.u.dirty = TRUE
              /\ c.u.pend = s.u.pend /\ c.u.inside = s.u.inside
  <1>1. PICK m : m = [s.u EXCEPT !.task = NoTask, !.status = "IDLE", !.dirty = TRUE]
    OBVIOUS
  <1>2. PICK out : out = Append(s.out, FinishJob(0, TRUE, s.u.at))
    OBVIOUS
  <1>3. PICK c : c = [s EXCEPT !.u = m, !.out = out]
    OBVIOUS
  <1>4. StopWorking(s) = c
    BY <1>1, <1>2, <1>3 DEF StopWorking, Steps, Memory
  <1>5. c.u = m /\ c.out = out /\ c.n = s.n
    BY <1>3 DEF Steps
  <1>6. /\ m.walk = s.u.walk /\ m.task = NoTask /\ m.status = "IDLE" /\ m.dirty = TRUE
        /\ m.pend = s.u.pend /\ m.inside = s.u.inside
    BY <1>1 DEF Steps, Memory
  <1> QED
    BY <1>2, <1>4, <1>5, <1>6

LEMMA DropTaskFields ==
    ASSUME NEW s \in Steps
    PROVE  LET c == DropTask(s)
           IN /\ c.out = s.out /\ c.n = s.n
              /\ c.u.walk = s.u.walk /\ c.u.task = NoTask /\ c.u.status = s.u.status /\ c.u.dirty = s.u.dirty
              /\ c.u.pend = s.u.pend /\ c.u.inside = s.u.inside /\ c.u.at = s.u.at
  <1>1. PICK m : m = [s.u EXCEPT !.task = NoTask]
    OBVIOUS
  <1>2. PICK c : c = [s EXCEPT !.u = m]
    OBVIOUS
  <1>3. DropTask(s) = c
    BY <1>1, <1>2 DEF DropTask, Steps, Memory
  <1>4. c.u = m /\ c.out = s.out /\ c.n = s.n
    BY <1>2 DEF Steps
  <1>5. /\ m.walk = s.u.walk /\ m.task = NoTask /\ m.status = s.u.status /\ m.dirty = s.u.dirty
        /\ m.pend = s.u.pend /\ m.inside = s.u.inside /\ m.at = s.u.at
    BY <1>1 DEF Steps, Memory
  <1> QED
    BY <1>3, <1>4, <1>5

\* A walk is closed by the job that stops it.
LEMMA CancelSound ==
    ASSUME NEW s, Plain(s), NEW stop \in Tile, NEW x, NEW q \in Seq(Item), NEW box, NEW u,
           Sound(s, s.u.walk.id, x, q, box, u), s.u.walk # NoWalk => s.u.status # "GARRISONED" /\ s.n # s.u.walk.id
    PROVE  LET c == Cancel(s, stop)
           IN /\ Sound(c, 0, x, q, box, u)
              /\ s.u.walk # NoWalk => Explained(c.u, x, Line(q, c.out), box, u)
  <1>1. PICK c : c = Cancel(s, stop)
    OBVIOUS
  <1>2. CASE s.u.walk = NoWalk
    BY <1>1, <1>2, Nothing DEF Cancel
  <1>3. CASE s.u.walk # NoWalk
    <2>1. PICK j : j = FinishJob(s.u.walk.id, TRUE, stop)
      OBVIOUS
    <2>2. s \in Steps /\ s.u.walk.id \in Nat /\ s.n # s.u.walk.id
      BY <1>3, Steady DEF Plain
    <2>3. j \in Job /\ j.k # "Leave" /\ ~Ends(j, s.n) /\ OpenedBy(j) = 0 /\ Ends(j, s.u.walk.id)
      <3>1. PICK id \in Nat : id = s.u.walk.id
        BY <2>2
      <3>2. j \in Job /\ j.k = "Finish" /\ OpenedBy(j) = 0 /\ Ends(j, id) /\ \A n : n # id => ~Ends(j, n)
        BY <2>1, <3>1, FinishTyped
      <3> QED
        BY <2>2, <3>1, <3>2
    <2>4. /\ c.out = Append(s.out, j) /\ c.n = s.n /\ c.u.walk = NoWalk /\ c.u.task = NoTask /\ c.u.status = "IDLE"
          /\ c.u.dirty = TRUE /\ c.u.pend = s.u.pend /\ c.u.inside = s.u.inside
      BY <1>1, <1>3, <2>1, <2>2, CancelFields
    <2>5. ~Busy(c.u) /\ c.u.walk.id = 0 /\ c.u.dirty
      BY <2>4, Nothing DEF Busy
    <2>6. c.u.status = "GARRISONED" <=> s.u.status = "GARRISONED"
      BY <1>3, <2>4
    <2>7. Sound(c, 0, x, q, box, u) /\ (0 = c.u.walk.id /\ c.u.dirty /\ (Busy(c.u) => Writes(c.u, j)) => Explained(c.u, x, Line(q, c.out), box, u))
      <3>1. PICK w : w = s.u.walk.id
        OBVIOUS
      <3>2. Sound(s, w, x, q, box, u) /\ OpenedBy(j) \in {0, 0} /\ 0 \in {0, w, s.n} /\ Ends(j, w)
        BY <2>3, <3>1
      <3> QED
        BY <2>3, <2>4, <2>6, <3>2, Steered
    <2> QED
      BY <1>1, <2>5, <2>7
  <1> QED
    BY <1>2, <1>3

LEMMA StopWorkingSound ==
    ASSUME NEW s, Plain(s), s.u.status = "WORKING", s.u.walk = NoWalk, NEW x, NEW q \in Seq(Item), NEW box, NEW u,
           Sound(s, 0, x, q, box, u)
    PROVE  LET c == StopWorking(s)
           IN c.u.walk = NoWalk /\ Explained(c.u, x, Line(q, c.out), box, u)
  <1>1. PICK c : c = StopWorking(s)
    OBVIOUS
  <1>2. PICK j : j = FinishJob(0, TRUE, s.u.at)
    OBVIOUS
  <1>3. s \in Steps /\ s.u.at \in Tile /\ s.n # 0
    BY Steady DEF Plain
  <1>4. j \in Job /\ j.k # "Leave" /\ OpenedBy(j) = 0 /\ \A n : n # 0 => ~Ends(j, n)
    <2>1. 0 \in Nat
      OBVIOUS
    <2>2. PICK at \in Tile : at = s.u.at
      BY <1>3
    <2>3. j = FinishJob(0, TRUE, at)
      BY <1>2, <2>2
    <2>4. j \in Job
      BY <2>1, <2>2, <2>3, PlainJob
    <2>5. j.k = "Finish" /\ j.id = 0
      BY <2>3 DEF FinishJob
    <2> QED
      BY <2>4, <2>5 DEF OpenedBy, Ends
  <1>5. /\ c.out = Append(s.out, j) /\ c.n = s.n /\ c.u.walk = NoWalk /\ c.u.task = NoTask /\ c.u.status = "IDLE"
        /\ c.u.dirty = TRUE /\ c.u.pend = s.u.pend /\ c.u.inside = s.u.inside
    BY <1>1, <1>2, <1>3, StopWorkingFields
  <1>6. ~Busy(c.u) /\ c.u.walk.id = 0 /\ c.u.dirty
    BY <1>5, Nothing DEF Busy
  <1>7. c.u.status = "GARRISONED" <=> s.u.status = "GARRISONED"
    BY <1>5
  <1>8. 0 = c.u.walk.id /\ c.u.dirty /\ (Busy(c.u) => Writes(c.u, j)) => Explained(c.u, x, Line(q, c.out), box, u)
    <2>1. PICK w : w = 0
      OBVIOUS
    <2>2. Sound(s, w, x, q, box, u) /\ OpenedBy(j) \in {0, w} /\ w \in {0, w, s.n} /\ (w # 0 => ~Ends(j, w)) /\ ~Ends(j, s.n)
      BY <1>3, <1>4, <2>1
    <2>3. w = c.u.walk.id /\ c.u.dirty /\ (Busy(c.u) => Writes(c.u, j)) => Explained(c.u, x, Line(q, c.out), box, u)
      BY <1>4, <1>5, <1>7, <2>2, Steered
    <2> QED
      BY <2>1, <2>3
  <1> QED
    BY <1>1, <1>5, <1>6, <1>8

\* A unit of a story stops, whatever it did.
LEMMA StopSound ==
    ASSUME NEW s, Plain(s), Story(s.u), NEW stop \in Tile, NEW x, NEW q \in Seq(Item), NEW box, NEW u,
           Sound(s, s.u.walk.id, x, q, box, u), s.n # s.u.walk.id
    PROVE  LET c == Cancel(StopWorking(s), stop)
           IN c = s \/ Explained(c.u, x, Line(q, c.out), box, u)
  <1>1. CASE s.u.walk # NoWalk
    <2>1. StopWorking(s) = s /\ s.u.status # "GARRISONED"
      BY <1>1 DEF Story, StopWorking
    <2> QED
      BY <1>1, <2>1, CancelSound
  <1>2. CASE s.u.walk = NoWalk /\ s.u.status = "WORKING"
    <2>1. PICK c : c = StopWorking(s)
      OBVIOUS
    <2>2. c.u.walk = NoWalk /\ Explained(c.u, x, Line(q, c.out), box, u)
      BY <1>2, <2>1, StopWorkingSound, Nothing
    <2>3. Cancel(c, stop) = c
      BY <2>2 DEF Cancel
    <2> QED
      BY <2>1, <2>2, <2>3
  <1>3. CASE s.u.walk = NoWalk /\ s.u.status # "WORKING"
    BY <1>3 DEF Cancel, StopWorking
  <1> QED
    BY <1>1, <1>2, <1>3

\* A unit forgets its task and stops, before it begins something else.
LEMMA DroppedSound ==
    ASSUME NEW s, Plain(s), Story(s.u), s.u.inside = NoCity, NEW stop \in Tile, NEW x, NEW q \in Seq(Item), NEW box, NEW u,
           Sound(s, s.u.walk.id, x, q, box, u), s.n # s.u.walk.id
    PROVE  LET c == Cancel(DropTask(s), stop)
           IN /\ Sound(c, 0, x, q, box, u) /\ c.n = s.n /\ c.u.status # "GARRISONED" /\ c.u.task = NoTask
  <1>1. PICK d : d = DropTask(s)
    OBVIOUS
  <1>2. /\ d.out = s.out /\ d.n = s.n /\ d.u.walk = s.u.walk /\ d.u.task = NoTask /\ d.u.status = s.u.status
        /\ d.u.pend = s.u.pend /\ d.u.inside = s.u.inside
    BY <1>1, DropTaskFields DEF Plain
  <1>3. Plain(d)
    BY <1>1, DropTaskMoved DEF Moved
  <1>4. s.u.status # "GARRISONED"
    BY DEF Story
  <1>5. Sound(d, d.u.walk.id, x, q, box, u)
    <2>1. PICK w : w = s.u.walk.id
      OBVIOUS
    <2>2. Sound(s, w, x, q, box, u)
      BY <2>1
    <2>3. Sound(d, w, x, q, box, u)
      BY <1>2, <2>2, SoundAlike
    <2> QED
      BY <1>2, <2>1, <2>3
  <1>6. PICK c : c = Cancel(d, stop)
    OBVIOUS
  <1>7. Sound(c, 0, x, q, box, u)
    BY <1>2, <1>3, <1>4, <1>5, <1>6, CancelSound
  <1>8. c.n = s.n /\ c.u.status # "GARRISONED" /\ c.u.task = NoTask
    <2>1. CASE d.u.walk = NoWalk
      BY <1>2, <1>4, <1>6, <2>1 DEF Cancel
    <2>2. CASE d.u.walk # NoWalk
      BY <1>2, <1>3, <1>6, <2>2, CancelFields DEF Plain
    <2> QED
      BY <2>1, <2>2
  <1> QED
    BY <1>1, <1>6, <1>7, <1>8

LEMMA BeginWalkSound ==
    ASSUME NEW s, Plain(s), Story(s.u), s.u.inside = NoCity, NEW from \in Tile, NEW to \in Tile, NEW x, NEW q \in Seq(Item), NEW box, NEW u,
           Sound(s, s.u.walk.id, x, q, box, u), s.n # s.u.walk.id
    PROVE  LET r == BeginWalk(s, from, to)
           IN Explained(r.u, x, Line(q, r.out), box, u)
  <1>1. PICK c : c = Cancel(DropTask(s), from)
    OBVIOUS
  <1>2. Sound(c, 0, x, q, box, u) /\ c.n = s.n /\ c.u.status # "GARRISONED" /\ c.u.task = NoTask
    BY <1>1, DroppedSound
  <1>3. Plain(c)
    <2>1. PICK d : d = DropTask(s)
      OBVIOUS
    <2>2. Plain(d)
      BY <2>1, DropTaskMoved DEF Moved
    <2> QED
      BY <1>1, <2>1, <2>2, CancelMoved DEF Moved
  <1>4. c \in Steps /\ c.u \in Memory /\ c.n \in Nat \ {0}
    BY <1>3, Steady DEF Plain
  <1>5. PICK j : j = StartJob(c.n, from, to)
    OBVIOUS
  <1>6. /\ j \in Job /\ j.k = "Start" /\ j.id = c.n /\ j.to = to /\ OpenedBy(j) = c.n
        /\ \A n : ~Ends(j, n)
    <2>1. j \in Job
      BY <1>4, <1>5, PlainJob
    <2> QED
      BY <1>5, <2>1 DEF StartJob, OpenedBy, Ends
  <1>7. PICK m : m = [c.u EXCEPT !.walk = [id |-> c.n, to |-> to], !.status = "MOVING", !.dirty = TRUE]
    OBVIOUS
  <1>8. /\ m.walk = [id |-> c.n, to |-> to] /\ m.walk.id = c.n /\ m.status = "MOVING" /\ m.dirty = TRUE /\ m.task = NoTask
        /\ m.pend = c.u.pend /\ m.inside = c.u.inside
    BY <1>2, <1>4, <1>7 DEF Memory
  <1>9. PICK out : out = Append(c.out, j)
    OBVIOUS
  <1>10. PICK r : r = [c EXCEPT !.u = m, !.out = out]
    OBVIOUS
  <1>11. BeginWalk(s, from, to) = r
    <2>1. PICK g : g = [c EXCEPT !.u.walk = [id |-> s.n, to |-> to], !.u.status = "MOVING",
                                 !.u.dirty = TRUE, !.out = Append(@, StartJob(s.n, from, to))]
      OBVIOUS
    <2>2. BeginWalk(s, from, to) = g
      BY <1>1, <2>1 DEF BeginWalk
    <2>3. g = r
      BY <1>2, <1>4, <1>5, <1>7, <1>9, <1>10, <2>1 DEF Steps, Memory
    <2> QED
      BY <2>2, <2>3
  <1>12. r.u = m /\ r.out = Append(c.out, j) /\ r.n = c.n
    BY <1>4, <1>9, <1>10 DEF Steps
  <1>13. Busy(r.u) => Writes(r.u, j)
    <2>1. ~Held(m)
      BY <1>8, Nothing DEF Held
    <2> QED
      BY <1>6, <1>8, <1>12, <2>1 DEF Writes
  <1>14. Explained(r.u, x, Line(q, r.out), box, u)
    <2>1. PICK w : w = 0
      OBVIOUS
    <2>2. Sound(c, w, x, q, box, u)
      BY <1>2, <2>1
    <2>3. /\ r.u.pend = c.u.pend /\ r.u.inside = c.u.inside /\ r.u.walk.id = c.n /\ r.u.dirty
          /\ (r.u.status = "GARRISONED" <=> c.u.status = "GARRISONED")
      BY <1>2, <1>8, <1>12
    <2>4. PICK w2 : w2 = c.n
      OBVIOUS
    <2>5. w2 \in {0, w, c.n} /\ OpenedBy(j) \in {0, w2} /\ ~Ends(j, c.n) /\ (w2 # 0 => ~Ends(j, w2)) /\ w = 0 /\ j.k # "Leave"
      BY <1>6, <2>1, <2>4
    <2>6. w2 = r.u.walk.id /\ r.u.dirty /\ (Busy(r.u) => Writes(r.u, j)) => Explained(r.u, x, Line(q, r.out), box, u)
      BY <1>6, <1>12, <2>2, <2>3, <2>5, Steered
    <2> QED
      BY <1>13, <2>3, <2>4, <2>6
  <1> QED
    BY <1>11, <1>14

-----------------------------------------------------------------------------
(* The writes of a task, as the rows see them.                             *)

\* The task of r is written after s by a job that closes movement fin.
Recorded(s, fin, r) ==
  /\ r.n = s.n /\ r.u.dirty /\ r.u.pend = s.u.pend /\ r.u.inside = s.u.inside /\ r.u.status # "GARRISONED"
  /\ r.u.walk.id \in {0, s.n} /\ (Busy(r.u) => Held(r.u))
  /\ \E j : /\ r.out = Append(s.out, j) /\ j.k = "Task" /\ j.fin = fin /\ j.leg.id = r.u.walk.id
            /\ j.task = r.u.task /\ j.rev = r.u.task.rev

LEMMA StartLegRecorded ==
    ASSUME NEW s \in Steps, NEW t \in TaskType, IsLeg(t), NEW to, NEW fin
    PROVE  Recorded(s, fin, StartLeg(s, t, to, fin))
  <1>1. PICK task : task = [t EXCEPT !.rev = s.n]
    OBVIOUS
  <1>2. PICK leg : leg = [id |-> s.n, to |-> to]
    OBVIOUS
  <1>3. PICK j : j = TaskJob(fin, leg, "MOVING", s.u.at, task, s.load, s.n)
    OBVIOUS
  <1>4. PICK m : m = [s.u EXCEPT !.walk = leg, !.status = "MOVING", !.dirty = TRUE, !.task = task]
    OBVIOUS
  <1>5. PICK out : out = Append(s.out, j)
    OBVIOUS
  <1>6. PICK r : r = [s EXCEPT !.u = m, !.load = NoLoad, !.out = out]
    OBVIOUS
  <1>7. StartLeg(s, t, to, fin) = r
    BY <1>1, <1>2, <1>3, <1>4, <1>5, <1>6 DEF StartLeg, Steps, Memory
  <1>8. r.u = m /\ r.out = out /\ r.n = s.n
    BY <1>6 DEF Steps
  <1>9. m.walk = leg /\ m.status = "MOVING" /\ m.dirty = TRUE /\ m.task = task /\ m.pend = s.u.pend /\ m.inside = s.u.inside
    BY <1>4 DEF Steps, Memory
  <1>10. task.rev = s.n /\ IsLeg(task)
    BY <1>1 DEF TaskType, IsLeg
  <1>11. j.k = "Task" /\ j.fin = fin /\ j.leg = leg /\ j.task = task /\ j.rev = s.n
    BY <1>3 DEF TaskJob
  <1> QED
    BY <1>2, <1>5, <1>7, <1>8, <1>9, <1>10, <1>11 DEF Recorded, Held

LEMMA WorkRecorded ==
    ASSUME NEW s \in Steps, s.u.walk = NoWalk, NEW t \in TaskType, NEW fin
    PROVE  Recorded(s, fin, Work(s, t, fin))
  <1>1. PICK task : task = [t EXCEPT !.phase = "WORKING", !.rev = s.n]
    OBVIOUS
  <1>2. PICK j : j = TaskJob(fin, NoWalk, "WORKING", s.u.at, task, s.load, s.n)
    OBVIOUS
  <1>3. PICK m : m = [s.u EXCEPT !.status = "WORKING", !.dirty = TRUE, !.task = task]
    OBVIOUS
  <1>4. PICK out : out = Append(s.out, j)
    OBVIOUS
  <1>5. PICK r : r = [s EXCEPT !.u = m, !.load = NoLoad, !.out = out]
    OBVIOUS
  <1>6. Work(s, t, fin) = r
    BY <1>1, <1>2, <1>3, <1>4, <1>5 DEF Work, Steps, Memory
  <1>7. r.u = m /\ r.out = out /\ r.n = s.n
    BY <1>5 DEF Steps
  <1>8. m.walk = NoWalk /\ m.status = "WORKING" /\ m.dirty = TRUE /\ m.task = task /\ m.pend = s.u.pend /\ m.inside = s.u.inside
    BY <1>3 DEF Steps, Memory
  <1>9. task.rev = s.n
    BY <1>1 DEF TaskType
  <1>10. j.k = "Task" /\ j.fin = fin /\ j.leg = NoWalk /\ j.task = task /\ j.rev = s.n
    BY <1>2 DEF TaskJob
  <1> QED
    BY <1>4, <1>6, <1>7, <1>8, <1>9, <1>10, Nothing DEF Recorded, Held

LEMMA EndTaskRecorded ==
    ASSUME NEW s \in Steps, s.u.walk = NoWalk, NEW fin
    PROVE  Recorded(s, fin, EndTask(s, fin))
  <1>1. PICK j : j = TaskJob(fin, NoWalk, "IDLE", s.u.at, NoTask, s.load, 0)
    OBVIOUS
  <1>2. PICK m : m = [s.u EXCEPT !.task = NoTask, !.status = "IDLE", !.dirty = TRUE]
    OBVIOUS
  <1>3. PICK out : out = Append(s.out, j)
    OBVIOUS
  <1>4. PICK r : r = [s EXCEPT !.u = m, !.load = NoLoad, !.out = out]
    OBVIOUS
  <1>5. EndTask(s, fin) = r
    BY <1>1, <1>2, <1>3, <1>4 DEF EndTask, Steps, Memory
  <1>6. r.u = m /\ r.out = out /\ r.n = s.n
    BY <1>4 DEF Steps
  <1>7. m.walk = NoWalk /\ m.status = "IDLE" /\ m.dirty = TRUE /\ m.task = NoTask /\ m.pend = s.u.pend /\ m.inside = s.u.inside
    BY <1>2 DEF Steps, Memory
  <1>8. j.k = "Task" /\ j.fin = fin /\ j.leg = NoWalk /\ j.task = NoTask /\ j.rev = 0
    BY <1>1 DEF TaskJob
  <1> QED
    BY <1>3, <1>5, <1>6, <1>7, <1>8, Nothing DEF Recorded, Busy

LEMMA RetargetRecorded ==
    ASSUME NEW s \in Steps, s.u.walk = NoWalk, NEW t \in TaskType, NEW fin, NEW a \in Answer, a.seek # NoTile
    PROVE  Recorded(s, fin, Retarget(s, t, fin, a))
  <1>1. PICK next : next = [t EXCEPT !.target = a.seek, !.phase = "TO_RESOURCE"]
    OBVIOUS
  <1>2. next \in TaskType /\ IsLeg(next)
    BY <1>1 DEF TaskType, IsLeg, Answer
  <1>3. Recorded(s, fin, Work(s, next, fin)) /\ Recorded(s, fin, StartLeg(s, next, a.seek, fin))
    BY <1>2, WorkRecorded, StartLegRecorded
  <1> QED
    BY <1>1, <1>3 DEF Retarget

LEMMA ArriveAtDepositRecorded ==
    ASSUME NEW s \in Steps, s.u.walk = NoWalk, NEW t \in TaskType, t.target \in Forest, NEW fin, NEW a \in Answer
    PROVE  Recorded(s, fin, ArriveAtDeposit(s, t, fin, a))
  <1>1. PICK next : next = [t EXCEPT !.phase = "TO_RESOURCE", !.carry = 0]
    OBVIOUS
  <1>2. next \in TaskType /\ IsLeg(next)
    <2>1. 0 \in 0..1
      OBVIOUS
    <2>2. next = [phase |-> "TO_RESOURCE", carry |-> 0, target |-> t.target, rev |-> t.rev]
      BY <1>1 DEF TaskType
    <2> QED
      BY <2>1, <2>2 DEF TaskType, IsLeg
  <1>3. /\ Recorded(s, fin, EndTask(s, fin)) /\ Recorded(s, fin, Work(s, next, fin))
        /\ Recorded(s, fin, StartLeg(s, next, t.target, fin))
        /\ Found(s, t, a) => Recorded(s, fin, Retarget(s, next, fin, a))
    BY <1>2, EndTaskRecorded, WorkRecorded, StartLegRecorded, RetargetRecorded DEF Found
  <1>4. s.left[t.target] \in Nat /\ a.present \in BOOLEAN
    BY ConstantsAssumption DEF Steps, Answer
  <1>5. CASE ~a.present
    BY <1>3, <1>5 DEF ArriveAtDeposit
  <1>6. CASE a.present /\ s.left[t.target] = 0
    <2>1. ArriveAtDeposit(s, t, fin, a) = IF Found(s, t, a) THEN Retarget(s, next, fin, a) ELSE EndTask(s, fin)
      BY <1>1, <1>6 DEF ArriveAtDeposit
    <2> QED
      BY <1>3, <2>1
  <1>7. CASE a.present /\ s.left[t.target] > 0
    <2>1. ArriveAtDeposit(s, t, fin, a) = IF s.u.at = t.target THEN Work(s, next, fin)
                                          ELSE IF a.route THEN StartLeg(s, next, t.target, fin) ELSE EndTask(s, fin)
      BY <1>1, <1>4, <1>7 DEF ArriveAtDeposit
    <2> QED
      BY <1>3, <2>1
  <1> QED
    BY <1>4, <1>5, <1>6, <1>7

LEMMA LeaveDepletedRecorded ==
    ASSUME NEW s \in Steps, s.u.walk = NoWalk, NEW t \in TaskType, t.target \in Forest, NEW fin, NEW a \in Answer
    PROVE  Recorded(s, fin, LeaveDepleted(s, t, fin, a))
  <1>1. PICK back : back = [t EXCEPT !.phase = "TO_DEPOSIT"]
    OBVIOUS
  <1>2. back \in TaskType /\ back.target \in Forest /\ IsLeg(back)
    BY <1>1 DEF TaskType, IsLeg
  <1>3. /\ Recorded(s, fin, EndTask(s, fin)) /\ Recorded(s, fin, StartLeg(s, back, Depot, fin))
        /\ Recorded(s, fin, ArriveAtDeposit(s, back, fin, a))
        /\ Found(s, t, a) => Recorded(s, fin, Retarget(s, t, fin, a))
    BY <1>2, EndTaskRecorded, StartLegRecorded, ArriveAtDepositRecorded, RetargetRecorded DEF Found
  <1>4. \/ LeaveDepleted(s, t, fin, a) = Retarget(s, t, fin, a) /\ Found(s, t, a)
        \/ LeaveDepleted(s, t, fin, a) = ArriveAtDeposit(s, back, fin, a)
        \/ LeaveDepleted(s, t, fin, a) = StartLeg(s, back, Depot, fin)
        \/ LeaveDepleted(s, t, fin, a) = EndTask(s, fin)
    BY ONLY <1>1 DEF LeaveDepleted
  <1> QED
    BY <1>3, <1>4

LEMMA OnLegArrivedRecorded ==
    ASSUME NEW s \in Steps, s.u.walk = NoWalk, IsLeg(s.u.task), NEW id, NEW a \in Answer
    PROVE  Recorded(s, id, OnLegArrived(s, id, a))
  <1>1. PICK t : t = s.u.task
    OBVIOUS
  <1>2. t \in TaskType /\ t.target \in Forest
    <2>1. t \in Task /\ IsLeg(t)
      BY <1>1 DEF Steps, Memory
    <2> QED
      BY <2>1, Nothing DEF Task
  <1>3. /\ Recorded(s, id, LeaveDepleted(s, t, id, a)) /\ Recorded(s, id, Work(s, t, id))
        /\ Recorded(s, id, ArriveAtDeposit(s, t, id, a)) /\ Recorded(s, id, EndTask(s, id))
    BY <1>2, LeaveDepletedRecorded, WorkRecorded, ArriveAtDepositRecorded, EndTaskRecorded
  <1>4. Recorded(s, id, ArriveAtResource(s, t, id, a))
    BY <1>3 DEF ArriveAtResource
  <1>5. \/ OnLegArrived(s, id, a) = ArriveAtResource(s, t, id, a)
        \/ OnLegArrived(s, id, a) = ArriveAtDeposit(s, t, id, a)
        \/ OnLegArrived(s, id, a) = EndTask(s, id)
    BY ONLY <1>1 DEF OnLegArrived
  <1> QED
    BY <1>3, <1>4, <1>5

LEMMA LeaveResourceRecorded ==
    ASSUME NEW s \in Steps, s.u.walk = NoWalk, s.u.task.phase = "WORKING", NEW a \in Answer
    PROVE  Recorded(s, 0, LeaveResource(s, a))
  <1>1. PICK t : t = s.u.task
    OBVIOUS
  <1>2. t \in TaskType /\ t.target \in Forest /\ t.rev \in Nat \ {0}
    <2>1. t \in Task /\ t.phase = "WORKING"
      BY <1>1 DEF Steps, Memory
    <2>2. t \in TaskType /\ t.target \in Forest /\ t.rev # 0
      BY <2>1, Nothing DEF Task
    <2> QED
      BY <2>2 DEF TaskType
  <1>3. s.left[t.target] \in 0..Loads /\ Loads \in Nat
    BY <1>2, ConstantsAssumption DEF Steps
  <1>4. PICK took : took = [s EXCEPT !.left[t.target] = @ - 1, !.load = [tile |-> t.target, rev |-> t.rev]]
    OBVIOUS
  <1>5. PICK next : next = [t EXCEPT !.phase = "TO_DEPOSIT", !.carry = 1]
    OBVIOUS
  <1>6. CASE s.left[t.target] = 0
    <2>1. LeaveResource(s, a) = LeaveDepleted(s, t, 0, a)
      BY <1>1, <1>6 DEF LeaveResource
    <2> QED
      BY <1>2, <2>1, LeaveDepletedRecorded
  <1>7. CASE s.left[t.target] > 0
    <2>1. next \in TaskType /\ next.target \in Forest /\ IsLeg(next)
      <3>1. 1 \in 0..1
        OBVIOUS
      <3>2. next = [phase |-> "TO_DEPOSIT", carry |-> 1, target |-> t.target, rev |-> t.rev]
        BY <1>2, <1>5 DEF TaskType
      <3> QED
        BY <1>2, <3>1, <3>2 DEF TaskType, IsLeg
    <2>2. PICK less : less = [s.left EXCEPT ![t.target] = @ - 1]
      OBVIOUS
    <2>3. less \in [Forest -> 0..Loads]
      BY <1>2, <1>3, <1>7, <2>2 DEF Steps
    <2>4. PICK load : load = [tile |-> t.target, rev |-> t.rev]
      OBVIOUS
    <2>5. load \in Load
      BY <1>2, <2>4 DEF Load
    <2>6. took = [u |-> s.u, left |-> less, n |-> s.n, load |-> load, out |-> s.out]
      BY <1>4, <2>2, <2>4 DEF Steps
    <2>7. took \in Steps /\ took.u = s.u /\ took.n = s.n /\ took.out = s.out
      BY <2>3, <2>5, <2>6 DEF Steps
    <2>8. /\ Recorded(took, 0, StartLeg(took, next, Depot, 0)) /\ Recorded(took, 0, EndTask(took, 0))
          /\ Recorded(took, 0, ArriveAtDeposit(took, next, 0, a))
      BY <2>1, <2>7, StartLegRecorded, EndTaskRecorded, ArriveAtDepositRecorded
    <2>9. \/ LeaveResource(s, a) = ArriveAtDeposit(took, next, 0, a)
          \/ LeaveResource(s, a) = StartLeg(took, next, Depot, 0)
          \/ LeaveResource(s, a) = EndTask(took, 0)
      <3>1. s.left[t.target] # 0
        BY <1>3, <1>7
      <3> QED
        BY ONLY <1>1, <1>4, <1>5, <1>7, <3>1 DEF LeaveResource
    <2>10. Recorded(took, 0, LeaveResource(s, a))
      BY <2>8, <2>9
    <2> QED
      BY <2>7, <2>10 DEF Recorded
  <1> QED
    BY <1>3, <1>6, <1>7

\* The walk w that ends, or none, is closed by the job that writes the task.
LEMMA RecordedExplained ==
    ASSUME NEW s, NEW w \in Nat, NEW x, NEW q \in Seq(Item), NEW box, NEW u, Sound(s, w, x, q, box, u),
           s.n # w, s.u.status # "GARRISONED", NEW r \in Steps, Recorded(s, w, r)
    PROVE  Explained(r.u, x, Line(q, r.out), box, u)
  <1>1. PICK j : /\ r.out = Append(s.out, j) /\ j.k = "Task" /\ j.fin = w /\ j.leg.id = r.u.walk.id
                 /\ j.task = r.u.task /\ j.rev = r.u.task.rev
    BY DEF Recorded
  <1>2. j \in Job
    <2>1. s.out \in Seq(Job) /\ r.out \in Seq(Job)
      BY DEF Sound, Steps
    <2>2. r.out[Len(s.out) + 1] = j /\ Len(s.out) + 1 \in 1..Len(r.out)
      BY <1>1, <2>1
    <2> QED
      BY <2>1, <2>2
  <1>3. PICK w2 : w2 = r.u.walk.id
    OBVIOUS
  <1>4. /\ r.n = s.n /\ r.u.pend = s.u.pend /\ r.u.inside = s.u.inside /\ r.u.dirty
        /\ (r.u.status = "GARRISONED" <=> s.u.status = "GARRISONED") /\ w2 \in {0, w, s.n}
    BY <1>3 DEF Recorded
  <1>5. j.k # "Leave" /\ ~Ends(j, s.n) /\ Ends(j, w) /\ OpenedBy(j) = w2
    BY <1>1, <1>3 DEF Ends, OpenedBy
  <1>6. w2 # 0 => ~Ends(j, w2)
    BY <1>3, <1>5 DEF Recorded
  <1>7. Busy(r.u) => Writes(r.u, j)
    BY <1>1 DEF Recorded, Writes
  <1>8. OpenedBy(j) \in {0, w2}
    BY <1>5
  <1>9. w2 = r.u.walk.id /\ r.u.dirty /\ (Busy(r.u) => Writes(r.u, j)) => Explained(r.u, x, Line(q, r.out), box, u)
    BY <1>1, <1>2, <1>4, <1>5, <1>6, <1>8, Steered
  <1> QED
    BY <1>3, <1>4, <1>7, <1>9

-----------------------------------------------------------------------------
(* Orders and ticks keep the rows explained.                               *)

LEMMA FreshOpen ==
    ASSUME TypeInv, NEW u \in Unit
    PROVE  ~Closing(Fresh, ram[u].pend, queue[u], Told(inbox, u), 0)
  <1>1. ASSUME NEW i \in DOMAIN queue[u], Ends(queue[u][i].job, Fresh) PROVE FALSE
    <2>1. queue[u][i].job.k \in {"Finish", "Task"} /\ Fresh \in NumbersOf(queue[u][i].job)
      BY <1>1 DEF Ends, NumbersOf
    <2> QED
      BY <2>1, FreshId
  <1>2. ~Says(Told(inbox, u), "FinishFailed", Fresh)
    BY FreshId DEF Says, Told
  <1> QED
    BY <1>1, <1>2, FreshId DEF Closing

LEMMA Started ==
    ASSUME Inv, Untangled, NEW u \in Unit
    PROVE  LET s == Step(u)
           IN /\ Plain(s) /\ s \in Steps /\ Story(s.u) /\ s.u = ram[u] /\ s.n = Fresh /\ s.out = <<>> /\ s.left = left /\ s.load = NoLoad
              /\ queue[u] \in Seq(Item) /\ Line(queue[u], s.out) = queue[u] /\ s.n # s.u.walk.id /\ TypeInv
              /\ Clean(u) => /\ Sound(s, s.u.walk.id, row[u], queue[u], inbox, u)
                             /\ Explained(ram[u], row[u], queue[u], inbox, u)
  <1>1. TypeInv /\ Story(ram[u])
    BY Begun
  <1>2. PICK s : s = Step(u)
    OBVIOUS
  <1>3. Plain(s) /\ s.u = ram[u] /\ s.n = Fresh /\ s.out = <<>> /\ s.left = left /\ s.load = NoLoad
    BY <1>1, <1>2, StepPlain
  <1>4. queue[u] \in Seq(Item) /\ Line(queue[u], <<>>) = queue[u]
    <2>1. queue[u] \in Seq(Item)
      BY <1>1 DEF TypeInv, QueueType
    <2> QED
      BY <2>1, LinedUp
  <1>5. s.n # s.u.walk.id
    BY <1>1, <1>3, FreshId
  <1>6. ASSUME Clean(u)
        PROVE  /\ Sound(s, s.u.walk.id, row[u], queue[u], inbox, u)
               /\ Explained(ram[u], row[u], queue[u], inbox, u)
    <2>1. Explained(ram[u], row[u], queue[u], inbox, u)
      BY <1>6 DEF Untangled
    <2>2. ~Closing(s.n, s.u.pend, queue[u], Told(inbox, u), 0)
      BY <1>1, <1>3, FreshOpen
    <2>3. s.out \in Seq(Job)
      BY <1>3 DEF Plain, Steps
    <2> QED
      BY <1>3, <1>4, <2>1, <2>2, <2>3 DEF Sound, Explained
  <1> QED
    BY <1>1, <1>2, <1>3, <1>4, <1>5, <1>6 DEF Plain

LEMMA StepExplained ==
    ASSUME Inv, Untangled, NEW u \in Unit, NEW r \in Steps, Apply(u, r, inbox),
           Clean(u) /\ ~Crosses(u, r) => Explained(r.u, row[u], Line(queue[u], r.out), inbox, u)
    PROVE  Untangled'
  <1>1. TypeInv /\ inbox \in Seq(Sent) /\ Len(inbox) <= InboxSize
    BY DEF Inv, TypeInv, InboxType
  <1>2. \A v \in Unit \ {u} : Clean(v) => Explained(ram[v], row[v], queue[v], inbox, v)
    BY DEF Untangled
  <1> QED
    BY <1>1, <1>2, AppliedExplained

LEMMA MoveUntangled ==
    ASSUME Inv, Untangled, NEW u \in Unit, NEW to \in Tile, NEW from \in Tile, Move(u, to, from)
    PROVE  Untangled'
  <1>1. ram[u].inside = NoCity /\ ram[u].entering = FALSE
    BY Begun DEF Move, Free, Story
  <1>2. PICK s : s = Step(u)
    OBVIOUS
  <1>3. Plain(s) /\ Story(s.u) /\ s.u = ram[u] /\ queue[u] \in Seq(Item) /\ Line(queue[u], s.out) = queue[u] /\ s.n # s.u.walk.id
    BY <1>2, Started
  <1>4. Clean(u) => /\ Sound(s, s.u.walk.id, row[u], queue[u], inbox, u)
                    /\ Explained(ram[u], row[u], queue[u], inbox, u)
    BY <1>2, Started
  <1>5. CASE from = to
    <2>1. PICK r : r = Cancel(StopWorking(s), from)
      OBVIOUS
    <2>2. r \in Steps
      BY <1>3, <2>1, StopStory DEF Moved, Plain
    <2>3. Clean(u) => r = s \/ Explained(r.u, row[u], Line(queue[u], r.out), inbox, u)
      BY <1>3, <1>4, <2>1, StopSound
    <2>4. Clean(u) => Explained(r.u, row[u], Line(queue[u], r.out), inbox, u)
      BY <1>3, <1>4, <2>3
    <2>5. Apply(u, r, inbox)
      BY <1>2, <1>5, <2>1 DEF Move
    <2> QED
      BY <2>2, <2>4, <2>5, StepExplained
  <1>6. CASE from # to
    <2>1. PICK r : r = BeginWalk(s, from, to)
      OBVIOUS
    <2>2. r \in Steps
      BY <1>1, <1>3, <2>1, BeginWalkMoved DEF Plain
    <2>3. Clean(u) => Explained(r.u, row[u], Line(queue[u], r.out), inbox, u)
      BY <1>1, <1>3, <1>4, <2>1, BeginWalkSound
    <2>4. Apply(u, r, inbox)
      BY <1>2, <1>6, <2>1 DEF Move
    <2> QED
      BY <2>2, <2>3, <2>4, StepExplained
  <1> QED
    BY <1>5, <1>6

LEMMA CancelMovementUntangled ==
    ASSUME Inv, Untangled, NEW u \in Unit, NEW from \in Tile, CancelMovement(u, from)
    PROVE  Untangled'
  <1>1. PICK s : s = Step(u)
    OBVIOUS
  <1>2. Plain(s) /\ Story(s.u) /\ s.u = ram[u] /\ queue[u] \in Seq(Item) /\ Line(queue[u], s.out) = queue[u] /\ s.n # s.u.walk.id
    BY <1>1, Started
  <1>3. Clean(u) => /\ Sound(s, s.u.walk.id, row[u], queue[u], inbox, u)
                    /\ Explained(ram[u], row[u], queue[u], inbox, u)
    BY <1>1, Started
  <1>4. PICK r : r = Cancel(StopWorking(s), from)
    OBVIOUS
  <1>5. r \in Steps
    BY <1>2, <1>4, StopStory DEF Moved, Plain
  <1>6. Clean(u) => r = s \/ Explained(r.u, row[u], Line(queue[u], r.out), inbox, u)
    BY <1>2, <1>3, <1>4, StopSound
  <1>7. Clean(u) => Explained(r.u, row[u], Line(queue[u], r.out), inbox, u)
    BY <1>2, <1>3, <1>6
  <1>8. Apply(u, r, inbox)
    BY <1>1, <1>4 DEF CancelMovement
  <1> QED
    BY <1>5, <1>7, <1>8, StepExplained

LEMMA GatherUntangled ==
    ASSUME Inv, Untangled, NEW u \in Unit, NEW f \in Forest, NEW from \in Tile, Gather(u, f, from)
    PROVE  Untangled'
  <1>1. ram[u].inside = NoCity /\ ram[u].entering = FALSE
    BY Begun DEF Gather, Free, Story
  <1>2. PICK s : s = Step(u)
    OBVIOUS
  <1>3. /\ Plain(s) /\ Story(s.u) /\ s.u = ram[u] /\ queue[u] \in Seq(Item) /\ s.n # s.u.walk.id
        /\ s.n = Fresh /\ s.load = NoLoad /\ s.left = left
    BY <1>2, Started
  <1>4. Clean(u) => Sound(s, s.u.walk.id, row[u], queue[u], inbox, u)
    BY <1>2, Started
  <1>5. PICK c : c = Cancel(DropTask(s), from)
    OBVIOUS
  <1>6. Clean(u) => Sound(c, 0, row[u], queue[u], inbox, u) /\ c.n = s.n /\ c.u.status # "GARRISONED"
    BY <1>1, <1>3, <1>4, <1>5, DroppedSound
  <1>7. Plain(c) /\ c.u.walk = NoWalk /\ c.n # 0 /\ c.u.inside = NoCity /\ c.u.entering = FALSE /\ c.load = NoLoad /\ c.n = Fresh
        /\ (ram[u].walk # NoWalk => c.u.at = from) /\ (ram[u].walk = NoWalk => c.u.at = ram[u].at)
    <2>1. PICK d : d = DropTask(s)
      OBVIOUS
    <2>2. Moved(s, d) /\ d.u.walk = s.u.walk /\ d.u.inside = s.u.inside /\ d.u.at = s.u.at
      BY <1>3, <2>1, DropTaskMoved
    <2>3. Plain(d)
      BY <2>2 DEF Moved
    <2>4. /\ Moved(d, c) /\ c.u.walk = NoWalk /\ c.u.inside = d.u.inside
          /\ (d.u.walk = NoWalk => c = d) /\ (d.u.walk # NoWalk => c.u.at = from)
      BY <1>5, <2>1, <2>3, CancelMoved
    <2>5. Moved(s, c)
      BY <2>2, <2>4, MovedOn
    <2>6. c.n = s.n /\ Plain(c) /\ c.load = NoLoad /\ c.u.entering = FALSE
      BY <1>1, <1>3, <2>5 DEF Moved
    <2> QED
      BY <1>1, <1>3, <2>2, <2>4, <2>6, Steady
  <1>8. Ready(c)
    BY <1>7 DEF Ready, Plain
  <1>9. PICK t : t = [phase |-> "TO_RESOURCE", carry |-> 0, target |-> f, rev |-> 0]
    OBVIOUS
  <1>10. t \in TaskType /\ t \in Draft /\ IsLeg(t) /\ LegOf(t).to = f /\ t.target = f
    BY <1>9 DEF Draft, TaskType, IsLeg, LegOf
  <1>11. PICK r : r = IF from = f THEN Work(c, t, 0) ELSE StartLeg(c, t, f, 0)
    OBVIOUS
  <1>12. c.u.at = from
    BY <1>7 DEF Gather, Here
  <1>13. r \in Steps /\ Recorded(c, 0, r)
    <2>1. Recorded(c, 0, r)
      BY <1>7, <1>10, <1>11, WorkRecorded, StartLegRecorded DEF Plain
    <2>2. 0 \in Nat
      OBVIOUS
    <2>3. from = f => Wrote(c, Work(c, t, 0))
      BY <1>8, <1>10, <1>12, <2>2, WorkWrote
    <2>4. Wrote(c, StartLeg(c, t, f, 0))
      BY <1>8, <1>10, <2>2, StartLegWrote
    <2> QED
      BY <1>11, <2>1, <2>3, <2>4 DEF Wrote
  <1>14. Clean(u) => Explained(r.u, row[u], Line(queue[u], r.out), inbox, u)
    <2>1. PICK w \in Nat : w = 0
      OBVIOUS
    <2>2. ASSUME Clean(u) PROVE Explained(r.u, row[u], Line(queue[u], r.out), inbox, u)
      <3>1. Sound(c, w, row[u], queue[u], inbox, u) /\ c.n # w /\ c.u.status # "GARRISONED" /\ Recorded(c, w, r)
        BY <1>6, <1>7, <1>13, <2>1, <2>2
      <3> QED
        BY <1>3, <1>13, <3>1, RecordedExplained
    <2> QED
      BY <2>2
  <1>15. Apply(u, r, inbox)
    BY <1>2, <1>5, <1>9, <1>11 DEF Gather
  <1> QED
    BY <1>13, <1>14, <1>15, StepExplained

LEMMA ArriveUntangled ==
    ASSUME Inv, Untangled, NEW u \in Unit, NEW a \in Answer, Arrive(u, a)
    PROVE  Untangled'
  <1>1. TypeInv /\ Story(ram[u]) /\ ram[u] \in Memory /\ ram[u].walk # NoWalk /\ ram[u].walk.to \in Tile /\ ram[u].walk.id \in Nat
    BY Begun DEF Arrive
  <1>2. ram[u].inside = NoCity /\ ram[u].entering = FALSE /\ ram[u].status = "MOVING"
    BY <1>1, Begun DEF Story
  <1>3. PICK w : w = ram[u].walk
    OBVIOUS
  <1>4. PICK s0 : s0 = Step(u)
    OBVIOUS
  <1>5. /\ Plain(s0) /\ s0.u = ram[u] /\ s0.left = left /\ s0.n = Fresh /\ s0.load = NoLoad /\ s0.out = <<>>
        /\ queue[u] \in Seq(Item) /\ s0.n # s0.u.walk.id
        /\ (Clean(u) => Sound(s0, s0.u.walk.id, row[u], queue[u], inbox, u))
    BY <1>4, Started
  <1>6. PICK m : m = [s0.u EXCEPT !.walk = NoWalk, !.at = w.to]
    OBVIOUS
  <1>7. /\ m \in Memory /\ m.walk = NoWalk /\ m.at = w.to /\ m.task = ram[u].task /\ m.inside = NoCity /\ m.entering = FALSE
        /\ m.status = "MOVING" /\ m.pend = ram[u].pend
    BY <1>1, <1>2, <1>3, <1>5, <1>6, Nothing DEF Memory
  <1>8. PICK s : s = [s0 EXCEPT !.u.walk = NoWalk, !.u.at = w.to]
    OBVIOUS
  <1>9. s = [u |-> m, left |-> s0.left, n |-> s0.n, load |-> s0.load, out |-> s0.out]
    BY <1>5, <1>6, <1>8 DEF Plain, Steps
  <1>10. m.entering = s0.u.entering /\ m.task.rev \in {0, s0.u.task.rev}
    BY <1>2, <1>5, <1>7
  <1>11. Moved(s0, s) /\ s.u = m
    BY <1>5, <1>7, <1>9, <1>10, Remembered
  <1>12. Plain(s) /\ s.left = left /\ s.n = Fresh /\ s.load = NoLoad /\ s.out = s0.out /\ s.n # w.id
    BY <1>3, <1>5, <1>9, <1>11 DEF Moved
  <1>13. Clean(u) => Sound(s, w.id, row[u], queue[u], inbox, u)
    <2>1. s.out = s0.out /\ s.n = s0.n /\ s.u.pend = s0.u.pend /\ s.u.inside = s0.u.inside
          /\ (s.u.status = "GARRISONED" <=> s0.u.status = "GARRISONED") /\ w.id = s0.u.walk.id
      BY <1>2, <1>3, <1>5, <1>7, <1>11, <1>12
    <2> QED
      BY <1>5, <2>1, SoundAlike
  <1>14. CASE IsLeg(m.task)
    <2>1. PICK r : r = OnLegArrived(s, w.id, a)
      OBVIOUS
    <2>2. Ready(s)
      BY <1>7, <1>11, <1>12 DEF Ready, Plain
    <2>3. s.u.task.phase \in {"TO_RESOURCE", "TO_DEPOSIT"} /\ w.id \in Nat
      BY <1>1, <1>3, <1>11, <1>14 DEF IsLeg
    <2>4. r \in Steps
      BY <2>1, <2>2, <2>3, OnLegArrivedWrote DEF Wrote
    <2>5. Recorded(s, w.id, r)
      BY <1>7, <1>11, <1>12, <1>14, <2>1, OnLegArrivedRecorded DEF Plain
    <2>6. Clean(u) => Explained(r.u, row[u], Line(queue[u], r.out), inbox, u)
      BY <1>5, <1>7, <1>11, <1>12, <1>13, <2>3, <2>4, <2>5, RecordedExplained
    <2>7. Apply(u, r, inbox)
      BY <1>3, <1>4, <1>8, <1>11, <1>14, <2>1 DEF Arrive
    <2> QED
      BY <2>4, <2>6, <2>7, StepExplained
  <1>15. CASE ~IsLeg(m.task)
    <2>1. PICK p : p = [m EXCEPT !.status = "IDLE", !.dirty = TRUE]
      OBVIOUS
    <2>2. /\ p \in Memory /\ p.walk = NoWalk /\ p.status = "IDLE" /\ p.task = m.task /\ p.inside = NoCity /\ p.entering = FALSE
          /\ p.dirty = TRUE /\ p.pend = m.pend
      BY <1>7, <2>1 DEF Memory, Status
    <2>3. PICK j : j = FinishJob(w.id, TRUE, w.to)
      OBVIOUS
    <2>4. j \in PlainJobs /\ j \in Job /\ j.k = "Finish" /\ OpenedBy(j) = 0 /\ Ends(j, w.id) /\ ~Ends(j, s.n)
      BY <1>1, <1>3, <1>12, <2>3, PlainJob, FinishTyped
    <2>5. PICK out : out = Append(s.out, j)
      OBVIOUS
    <2>6. PICK r : r = [u |-> p, left |-> s.left, n |-> s.n, load |-> s.load, out |-> out]
      OBVIOUS
    <2>7. p.entering = s.u.entering /\ p.task.rev \in {0, s.u.task.rev}
      BY <1>7, <1>11, <2>2
    <2>8. Moved(s, r) /\ r.u = p
      BY <1>12, <2>2, <2>4, <2>5, <2>6, <2>7, Rewritten
    <2>9. Apply(u, r, inbox)
      <3>1. PICK x : x = [s EXCEPT !.u.status = "IDLE", !.u.dirty = TRUE, !.out = Append(@, FinishJob(w.id, TRUE, w.to))]
        OBVIOUS
      <3>2. x = [s EXCEPT !.u = p, !.out = out]
        BY <1>11, <2>1, <2>3, <2>5, <3>1
      <3>3. x = [u |-> p, left |-> s.left, n |-> s.n, load |-> s.load, out |-> out]
        BY <1>12, <3>2 DEF Plain, Steps
      <3>4. Apply(u, x, inbox)
        BY <1>3, <1>4, <1>8, <1>11, <1>15, <3>1 DEF Arrive
      <3> QED
        BY <2>6, <3>3, <3>4
    <2>10. r \in Steps
      BY <2>8 DEF Moved, Plain
    <2>11. ASSUME Clean(u) PROVE Explained(r.u, row[u], Line(queue[u], r.out), inbox, u)
      <3>1. Sound(s, w.id, row[u], queue[u], inbox, u)
        BY <1>13, <2>11
      <3>2. /\ r.out = Append(s.out, j) /\ r.n = s.n /\ r.u.pend = s.u.pend /\ r.u.inside = s.u.inside
            /\ (r.u.status = "GARRISONED" <=> s.u.status = "GARRISONED")
        BY <1>7, <1>11, <2>2, <2>5, <2>6, <2>8
      <3>3. PICK w2 : w2 = 0
        OBVIOUS
      <3>4. PICK id : id = w.id
        OBVIOUS
      <3>5. w2 \in {0, id, s.n} /\ OpenedBy(j) \in {0, w2} /\ (w2 = id \/ id = 0 \/ Ends(j, id)) /\ (w2 # 0 => ~Ends(j, w2))
            /\ j.k # "Leave"
        BY <2>4, <3>3, <3>4
      <3>6. w2 = r.u.walk.id /\ r.u.dirty /\ ~Busy(r.u)
        BY <2>2, <2>8, <3>3, Nothing DEF Busy
      <3> QED
        BY <1>5, <2>4, <3>1, <3>2, <3>4, <3>5, <3>6, Steered
    <2> QED
      BY <2>9, <2>10, <2>11, StepExplained
  <1> QED
    BY <1>14, <1>15

LEMMA AdvanceTaskUntangled ==
    ASSUME Inv, Untangled, NEW u \in Unit, NEW a \in Answer, AdvanceTask(u, a)
    PROVE  Untangled'
  <1>1. TypeInv /\ Story(ram[u]) /\ ram[u].task \in Task /\ ram[u].task.phase = "WORKING" /\ ~IsLeg(ram[u].task)
    BY Begun DEF AdvanceTask, IsLeg
  <1>2. PICK s : s = Step(u)
    OBVIOUS
  <1>3. /\ Plain(s) /\ s.u = ram[u] /\ s.left = left /\ s.n = Fresh /\ s.load = NoLoad /\ s.out = <<>>
        /\ queue[u] \in Seq(Item) /\ Line(queue[u], s.out) = queue[u] /\ s.n # s.u.walk.id
    BY <1>2, Started
  <1>4. Clean(u) => /\ Sound(s, s.u.walk.id, row[u], queue[u], inbox, u)
                    /\ Explained(ram[u], row[u], queue[u], inbox, u)
    BY <1>2, Started
  <1>5. CASE ram[u].status = "WORKING"
    <2>1. PICK r : r = LeaveResource(s, a)
      OBVIOUS
    <2>2. ram[u].walk = NoWalk /\ ram[u].inside = NoCity /\ ~ram[u].entering
      BY <1>1, <1>5 DEF Story
    <2>3. Ready(s)
      BY <1>3, <2>2 DEF Ready, Plain
    <2>4. s.u.task.phase = "WORKING" /\ s.u.task.rev # s.n
      BY <1>1, <1>3, FreshId
    <2>5. r \in Steps
      BY <2>1, <2>3, <2>4, LeaveResourceWrote DEF Wrote
    <2>6. Recorded(s, 0, r)
      BY <1>3, <2>1, <2>2, <2>4, LeaveResourceRecorded DEF Plain
    <2>7. ASSUME Clean(u) PROVE Explained(r.u, row[u], Line(queue[u], r.out), inbox, u)
      <3>1. PICK w \in Nat : w = 0
        OBVIOUS
      <3>2. Sound(s, w, row[u], queue[u], inbox, u) /\ s.n # w /\ s.u.status # "GARRISONED" /\ Recorded(s, w, r)
        BY <1>3, <1>4, <1>5, <2>2, <2>6, <2>7, <3>1, Nothing
      <3> QED
        BY <1>3, <2>5, <3>2, RecordedExplained
    <2>8. Apply(u, r, inbox)
      BY <1>2, <1>5, <2>1 DEF AdvanceTask
    <2> QED
      BY <2>5, <2>7, <2>8, StepExplained
  <1>6. CASE ram[u].status # "WORKING"
    <2>1. PICK r : r = DropTask(s)
      OBVIOUS
    <2>2. /\ Moved(s, r) /\ r.u.walk = s.u.walk /\ r.u.inside = s.u.inside /\ r.u.status = s.u.status /\ r.u.task = NoTask
      BY <1>3, <2>1, DropTaskMoved
    <2>3. r \in Steps
      BY <2>2 DEF Moved, Plain
    <2>4. /\ r.out = s.out /\ r.u.dirty = s.u.dirty /\ r.u.pend = s.u.pend /\ r.u.at = s.u.at
      BY <1>3, <2>1, DropTaskFields DEF Plain
    <2>5. ~Held(ram[u]) /\ ~Held(r.u)
      BY <1>1, <1>3, <1>6, <2>2, Nothing DEF Held
    <2>6. Clean(u) => Explained(r.u, row[u], Line(queue[u], r.out), inbox, u)
      BY <1>3, <1>4, <2>2, <2>4, <2>5, ExplainedAlike
    <2>7. Apply(u, r, inbox)
      BY <1>2, <1>6, <2>1 DEF AdvanceTask
    <2> QED
      BY <2>3, <2>6, <2>7, StepExplained
  <1> QED
    BY <1>5, <1>6

LEMMA MarkExplained ==
    ASSUME NEW s, Plain(s), NEW b \in BOOLEAN, NEW x, NEW q, NEW box, NEW u, Explained(s.u, x, q, box, u)
    PROVE  LET r == [s EXCEPT !.u.exiting = b]
           IN r.out = s.out /\ r.n = s.n /\ Explained(r.u, x, q, box, u)
  <1>1. PICK m : m = [s.u EXCEPT !.exiting = b]
    OBVIOUS
  <1>2. s.u \in Memory
    BY Steady
  <1>3. /\ m.status = s.u.status /\ m.at = s.u.at /\ m.walk = s.u.walk /\ m.task = s.u.task
        /\ m.inside = s.u.inside /\ m.pend = s.u.pend /\ m.dirty = s.u.dirty
    BY <1>1, <1>2 DEF Memory
  <1>4. PICK r : r = [s EXCEPT !.u.exiting = b]
    OBVIOUS
  <1>5. r.u = m /\ r.out = s.out /\ r.n = s.n
    BY <1>1, <1>4 DEF Plain, Steps
  <1>6. Explained(m, x, q, box, u)
    BY <1>3, ExplainedAlike
  <1> QED
    BY <1>4, <1>5, <1>6

\* A unit that waits for no answer to an entry goes out.
LEMMA ExitExplained ==
    ASSUME NEW s, Plain(s), Story(s.u), s.u.status = "GARRISONED", s.out = <<>>,
           NEW x, NEW q \in Seq(Item), NEW box, NEW u, Explained(s.u, x, q, box, u),
           \A i \in Nat : ~EnterIn(q, i) /\ ~AnswerIn(box, u, i)
    PROVE  LET r == Exit(s)
           IN Explained(r.u, x, Line(q, r.out), box, u)
  <1>1. s.u \in Memory /\ s.u.inside \in City /\ s.u.walk = NoWalk /\ s.u.at \in Tile
    BY Steady DEF Story
  <1>2. PICK m : m = [s.u EXCEPT !.status = "IDLE", !.inside = NoCity, !.at = Depot, !.dirty = TRUE]
    OBVIOUS
  <1>3. /\ m.walk = NoWalk /\ m.status = "IDLE" /\ m.pend = s.u.pend /\ m.dirty = TRUE
    BY <1>1, <1>2 DEF Memory
  <1>4. PICK j : j = LeaveJob(Depot, s.u.inside, s.u.at)
    OBVIOUS
  <1>5. j \in Job /\ j.k = "Leave" /\ j.city = s.u.inside /\ OpenedBy(j) = 0 /\ \A id : ~Ends(j, id)
    <2>1. j \in PlainJobs /\ PlainJobs \subseteq Job
      BY <1>1, <1>4, PlainJob DEF Tile
    <2>2. j.k = "Leave" /\ j.city = s.u.inside
      BY <1>4 DEF LeaveJob
    <2> QED
      BY <2>1, <2>2 DEF OpenedBy, Ends
  <1>6. PICK r : r = Exit(s)
    OBVIOUS
  <1>7. r.u = m /\ r.out = Append(s.out, j)
    BY <1>2, <1>4, <1>6 DEF Exit, Plain, Steps, Memory
  <1>8. <<>> \in Seq(Job) /\ Line(q, <<>>) = q
    BY LinedUp
  <1>9. PICK p : p = Line(q, r.out)
    OBVIOUS
  <1>10. Grown(q, j, p)
    BY <1>5, <1>7, <1>8, <1>9, LineGrown
  <1>11. Closed(m.walk.id, m.pend, x, p, Told(box, u))
    <2>1. PICK w : w = m.walk.id
      OBVIOUS
    <2>2. Closed(w, m.pend, x, q, Told(box, u)) /\ w = 0
      BY <1>1, <1>3, <2>1, Nothing DEF Explained
    <2>3. OpenedBy(j) \in {0, w} /\ (w # 0 => ~Ends(j, w) /\ ~Closing(w, m.pend, q, Told(box, u), 0))
      BY <1>5, <2>2
    <2> QED
      BY <1>10, <2>1, <2>2, <2>3, GrownClosed
  <1>12. Agreed(m, x, p, Told(box, u))
    BY <1>3 DEF Agreed, Busy
  <1>13. Placed(m, x, p, Told(box, u))
    BY <1>3 DEF Placed
  <1>14. Housed(m, x.host, p, box, u)
    BY <1>3, <1>5, <1>10, GrownLeaves DEF Explained
  <1> QED
    BY <1>6, <1>7, <1>9, <1>11, <1>12, <1>13, <1>14 DEF Explained

LEMMA ExitUntangled ==
    ASSUME Inv, Untangled, NEW u \in Unit, NEW s, Plain(s), Story(s.u), s.u.status = "GARRISONED", s.out = <<>>,
           Clean(u) => Explained(s.u, row[u], queue[u], inbox, u),
           NEW r, r = Exit(s), Apply(u, r, inbox)
    PROVE  Untangled'
  <1>1. r \in Steps
    BY ExitMoved DEF Moved, Plain
  <1>2. ASSUME Clean(u), ~Crosses(u, r) PROVE Explained(r.u, row[u], Line(queue[u], r.out), inbox, u)
    <2>1. PICK j : j = LeaveJob(Depot, s.u.inside, s.u.at)
      OBVIOUS
    <2>2. r.out = Append(<<>>, j) /\ j.k = "Leave"
      BY <2>1 DEF Exit, Plain, Steps, Memory, LeaveJob
    <2>3. 1 \in DOMAIN r.out /\ r.out[1].k = "Leave"
      BY <2>2
    <2>4. ~ram[u].entering
      BY <1>2, <2>3 DEF Crosses
    <2>5. \A i \in Nat : ~EnterIn(queue[u], i) /\ ~AnswerIn(inbox, u, i)
      BY <2>4 DEF Inv, Entries, Entry
    <2>6. queue[u] \in Seq(Item)
      BY DEF Inv, TypeInv, QueueType
    <2> QED
      BY <1>2, <2>5, <2>6, ExitExplained
  <1> QED
    BY <1>1, <1>2, StepExplained

LEMMA ExitOrderUntangled ==
    ASSUME Inv, Untangled, NEW u \in Unit, NEW free, ram[u].status = "GARRISONED",
           Apply(u, IF free THEN Exit(Step(u)) ELSE [Step(u) EXCEPT !.u.exiting = TRUE], inbox)
    PROVE  Untangled'
  <1>1. PICK s : s = Step(u)
    OBVIOUS
  <1>2. /\ Plain(s) /\ Story(s.u) /\ s.u = ram[u] /\ s.out = <<>>
        /\ queue[u] \in Seq(Item) /\ Line(queue[u], s.out) = queue[u]
        /\ (Clean(u) => Explained(s.u, row[u], queue[u], inbox, u))
    BY <1>1, Started
  <1>3. CASE free
    <2>1. PICK r : r = Exit(s)
      OBVIOUS
    <2>2. Apply(u, r, inbox)
      BY <1>1, <1>3, <2>1
    <2> QED
      BY <1>2, <2>1, <2>2, ExitUntangled
  <1>4. CASE ~free
    <2>1. PICK r : r = [s EXCEPT !.u.exiting = TRUE]
      OBVIOUS
    <2>2. r \in Steps
      BY <1>2, <2>1, MarkMoved DEF Moved, Plain
    <2>3. Clean(u) => Explained(r.u, row[u], Line(queue[u], r.out), inbox, u)
      BY <1>2, <2>1, MarkExplained
    <2>4. Apply(u, r, inbox)
      BY <1>1, <1>4, <2>1
    <2> QED
      BY <2>2, <2>3, <2>4, StepExplained
  <1> QED
    BY <1>3, <1>4

LEMMA RetryPendingExitUntangled ==
    ASSUME Inv, Untangled, NEW u \in Unit, RetryPendingExit(u)
    PROVE  Untangled'
  <1>1. PICK s0 : s0 = Step(u)
    OBVIOUS
  <1>2. /\ Plain(s0) /\ Story(s0.u) /\ s0.u = ram[u] /\ s0.out = <<>>
        /\ queue[u] \in Seq(Item) /\ Line(queue[u], s0.out) = queue[u]
        /\ (Clean(u) => Explained(s0.u, row[u], queue[u], inbox, u))
    BY <1>1, Started
  <1>3. PICK s : s = [s0 EXCEPT !.u.exiting = FALSE]
    OBVIOUS
  <1>4. Plain(s) /\ Story(s.u) /\ s.u.status = ram[u].status
    <2>1. Moved(s0, s) /\ Story(s.u) /\ s.u.status = s0.u.status
      BY <1>2, <1>3, MarkMoved
    <2> QED
      BY <1>2, <2>1 DEF Moved
  <1>5. s.out = <<>> /\ (Clean(u) => Explained(s.u, row[u], queue[u], inbox, u))
    <2>1. s.out = s0.out
      BY <1>2, <1>3 DEF Plain, Steps
    <2> QED
      BY <1>2, <1>3, <2>1, MarkExplained
  <1>6. PICK r : r = IF ram[u].status = "GARRISONED" THEN Exit(s) ELSE s
    OBVIOUS
  <1>7. Apply(u, r, inbox)
    BY <1>1, <1>3, <1>6 DEF RetryPendingExit
  <1>8. CASE ram[u].status = "GARRISONED"
    BY <1>4, <1>5, <1>6, <1>7, <1>8, ExitUntangled
  <1>9. CASE ram[u].status # "GARRISONED"
    <2>1. r \in Steps /\ (Clean(u) => Explained(r.u, row[u], Line(queue[u], r.out), inbox, u))
      BY <1>2, <1>4, <1>5, <1>6, <1>9 DEF Plain
    <2> QED
      BY <1>7, <2>1, StepExplained
  <1> QED
    BY <1>8, <1>9

LEMMA GarrisonUnitUntangled ==
    ASSUME Inv, Untangled, NEW u \in Unit, NEW c \in City, GarrisonUnit(u, c)
    PROVE  Untangled'
  <1>1. ram[u].entering = FALSE /\ ram[u].status = "IDLE" /\ ram[u] \in Memory
    BY Begun DEF GarrisonUnit
  <1>2. PICK s : s = Step(u)
    OBVIOUS
  <1>3. /\ Plain(s) /\ Story(s.u) /\ s.u = ram[u] /\ s.out = <<>> /\ queue[u] \in Seq(Item)
        /\ (Clean(u) => Explained(s.u, row[u], queue[u], inbox, u))
    BY <1>2, Started
  <1>4. PICK j : j = EnterJob(c)
    OBVIOUS
  <1>5. j \in Job /\ j.k = "Enter" /\ OpenedBy(j) = 0 /\ \A id : ~Ends(j, id)
    <2>1. j \in EnterJobs
      BY <1>4 DEF EnterJob, EnterJobs
    <2>2. j \in Job /\ j.k = "Enter"
      BY <2>1 DEF EnterJobs, Job
    <2> QED
      BY <2>2 DEF OpenedBy, Ends
  <1>6. PICK m : m = [s.u EXCEPT !.entering = TRUE]
    OBVIOUS
  <1>7. /\ m \in Memory /\ m.status = "IDLE" /\ m.walk = ram[u].walk /\ m.at = ram[u].at /\ m.task = ram[u].task
        /\ m.inside = ram[u].inside /\ m.pend = ram[u].pend /\ m.dirty = ram[u].dirty
    BY <1>1, <1>3, <1>6 DEF Memory
  <1>8. PICK r : r = [s EXCEPT !.u.entering = TRUE, !.out = <<j>>]
    OBVIOUS
  <1>9. r \in Steps /\ r.u = m /\ r.out = Append(<<>>, j)
    <2>1. <<j>> \in Seq(Job) /\ <<j>> = Append(<<>>, j)
      BY <1>5
    <2>2. r = [s EXCEPT !.u = m, !.out = <<j>>]
      BY <1>6, <1>8
    <2>3. s \in Steps
      BY <1>3 DEF Plain
    <2> QED
      BY <1>3, <1>7, <2>1, <2>2, <2>3 DEF Steps
  <1>10. ASSUME Clean(u) PROVE Explained(r.u, row[u], Line(queue[u], r.out), inbox, u)
    <2>1. Explained(m, row[u], queue[u], inbox, u)
      <3>1. PICK n : n = ram[u]
        OBVIOUS
      <3>2. Explained(n, row[u], queue[u], inbox, u)
        BY <1>3, <1>10, <3>1
      <3>3. n.status = m.status
        BY <1>1, <1>7, <3>1
      <3>4. /\ m.at = n.at /\ m.walk = n.walk /\ m.inside = n.inside /\ m.pend = n.pend
            /\ (m.dirty = n.dirty \/ m.dirty) /\ (m.task = n.task \/ (~Held(n) /\ ~Held(m)))
        BY <1>7, <3>1
      <3> QED
        BY <3>2, <3>3, <3>4, ExplainedAlike
    <2>2. m.walk = NoWalk
      BY <1>1, <1>3, <1>7 DEF Story
    <2>3. <<>> \in Seq(Job) /\ Line(queue[u], <<>>) = queue[u]
      BY <1>3, LinedUp
    <2>4. PICK p : p = Line(queue[u], r.out)
      OBVIOUS
    <2>5. Grown(queue[u], j, p)
      BY <1>3, <1>5, <1>9, <2>3, <2>4, LineGrown
    <2>6. Closed(m.walk.id, m.pend, row[u], p, Told(inbox, u))
      <3>1. PICK w : w = m.walk.id
        OBVIOUS
      <3>2. Closed(w, m.pend, row[u], queue[u], Told(inbox, u)) /\ w = 0
        BY <2>1, <2>2, <3>1, Nothing DEF Explained
      <3>3. OpenedBy(j) \in {0, w} /\ (w # 0 => ~Ends(j, w) /\ ~Closing(w, m.pend, queue[u], Told(inbox, u), 0))
        BY <1>5, <3>2
      <3> QED
        BY <2>5, <3>1, <3>2, <3>3, GrownClosed
    <2>7. Agreed(m, row[u], p, Told(inbox, u))
      BY <1>7, <2>2 DEF Agreed, Busy
    <2>8. Placed(m, row[u], p, Told(inbox, u))
      <3>1. ~Displaces(j)
        BY <1>5 DEF Displaces
      <3> QED
        BY <2>1, <2>5, <3>1, GrownPlaced DEF Explained
    <2>9. Housed(m, row[u].host, p, inbox, u)
      BY <1>5, <2>1, <2>5, GrownHoused DEF Explained
    <2> QED
      BY <1>9, <2>4, <2>6, <2>7, <2>8, <2>9 DEF Explained
  <1>11. Apply(u, r, inbox)
    BY <1>2, <1>4, <1>8 DEF GarrisonUnit
  <1> QED
    BY <1>9, <1>10, <1>11, StepExplained

-----------------------------------------------------------------------------
(* The flush: the lost closings, then the position.                        *)

LEMMA SetToSeqAll ==
    ASSUME NEW S, IsFiniteSet(S)
    PROVE  \A y \in S : \E i \in DOMAIN SetToSeq(S) : SetToSeq(S)[i] = y
  <1>1. PICK n : n = Cardinality(S)
    OBVIOUS
  <1>2. n \in Nat /\ \E f \in [1..n -> S] : IsInjective(f)
    BY <1>1, FS_CardinalityType DEF ExistsBijection, Bijection, Injection
  <1>3. SetToSeq(S) \in [1..n -> S] /\ IsInjective(SetToSeq(S))
    BY <1>1, <1>2 DEF SetToSeq
  <1>4. PICK f : f = SetToSeq(S)
    OBVIOUS
  <1>5. f \in Injection(1..n, S)
    BY <1>3, <1>4 DEF Injection
  <1>6. IsFiniteSet(1..n) /\ Cardinality(1..n) = n
    <2>1. 1 \in Int /\ n \in Int /\ (1 > n => n = 0)
      BY <1>2
    <2>2. Cardinality(1..n) = IF 1 > n THEN 0 ELSE n - 1 + 1
      BY <2>1, FS_Interval
    <2>3. IsFiniteSet(1..n)
      BY <2>1, FS_Interval
    <2> QED
      BY <1>2, <2>1, <2>2, <2>3
  <1>7. f \in Surjection(1..n, S)
    BY <1>1, <1>5, <1>6, FS_Injection
  <1>8. DOMAIN f = 1..n
    BY <1>3, <1>4
  <1> QED
    BY <1>4, <1>7, <1>8 DEF Surjection

LEMMA ClosingFields ==
    ASSUME NEW id
    PROVE  LET j == FinishJob(id, FALSE, NoTile)
           IN /\ OpenedBy(j) = 0 /\ Ends(j, id) /\ (\A n : Ends(j, n) => n = id) /\ ~Displaces(j)
              /\ (\A m : ~Overwrites(m, j)) /\ j.k = "Finish"
  BY DEF FinishJob, OpenedBy, Ends, Displaces, Overwrites

LEMMA LineRetried ==
    ASSUME NEW q \in Seq(Item), NEW pend \in Numbers, NEW c, c = SetToSeq({FinishJob(i, FALSE, NoTile) : i \in pend})
    PROVE  c \in Seq(PlainJobs) /\ Retried(q, Line(q, c), pend)
  <1>1. PICK jobs : jobs = {FinishJob(i, FALSE, NoTile) : i \in pend}
    OBVIOUS
  <1>2. IsFiniteSet(jobs) /\ jobs \subseteq PlainJobs
    <2>1. PICK f : f = [i \in pend |-> FinishJob(i, FALSE, NoTile)]
      OBVIOUS
    <2>2. IsFiniteSet(pend) /\ pend \subseteq Nat
      BY DEF Numbers
    <2>3. f \in [pend -> jobs] /\ \A y \in jobs : \E i \in pend : f[i] = y
      BY <1>1, <2>1
    <2>4. IsFiniteSet(jobs)
      BY <2>2, <2>3, ImageFinite
    <2> QED
      BY <1>1, <2>2, <2>4, PlainJob
  <1>3. c \in Seq(jobs) /\ c \in Seq(PlainJobs) /\ \A y \in jobs : \E i \in DOMAIN c : c[i] = y
    BY <1>1, <1>2, SetToSeqJobs, SetToSeqAll
  <1>4. c \in Seq(Job)
    <2>1. PlainJobs \subseteq Job
      BY PlainJob
    <2> QED
      BY <1>3, <2>1
  <1>5. PICK p : p = Line(q, c)
    OBVIOUS
  <1>6. PICK a : a = Len(q)
    OBVIOUS
  <1>7. PICK b : b = Len(c)
    OBVIOUS
  <1>8. /\ p \in Seq(Item) /\ Len(p) = a + b /\ a \in Nat /\ b \in Nat /\ DOMAIN q = 1..a /\ DOMAIN p = 1..(a + b) /\ DOMAIN c = 1..b
        /\ (\A i \in 1..a : p[i] = q[i])
        /\ \A i \in (a + 1)..(a + b) : i - a \in 1..b /\ p[i] = Fresher(c[i - a])
    <2>1. /\ p \in Seq(Item) /\ Len(p) = a + b
          /\ (\A i \in 1..a : p[i] = q[i])
          /\ \A i \in (a + 1)..(a + b) : i - a \in 1..b /\ p[i] = Fresher(c[i - a])
      BY <1>4, <1>5, <1>6, <1>7, Lined
    <2>2. a \in Nat /\ b \in Nat /\ DOMAIN q = 1..a /\ DOMAIN c = 1..b
      BY <1>4, <1>6, <1>7
    <2>3. DOMAIN p = 1..(a + b)
      BY <2>1
    <2> QED
      BY <2>1, <2>2, <2>3
  <1>9. ASSUME NEW i \in DOMAIN p, i \notin DOMAIN q PROVE \E id \in pend : p[i].job = FinishJob(id, FALSE, NoTile)
    <2>1. i \in (a + 1)..(a + b)
      BY <1>8, <1>9
    <2>2. p[i].job = c[i - a] /\ i - a \in 1..b
      <3>1. p[i] = Fresher(c[i - a]) /\ i - a \in 1..b
        BY <1>8, <2>1
      <3>2. Fresher(c[i - a]).job = c[i - a]
        BY DEF Fresher
      <3> QED
        BY <3>1, <3>2
    <2>3. c[i - a] \in jobs
      BY <1>3, <1>8, <2>2
    <2> QED
      BY <1>1, <2>2, <2>3
  <1>10. ASSUME NEW id \in pend
         PROVE  \E i \in DOMAIN p : i > 0 /\ p[i].job = FinishJob(id, FALSE, NoTile) /\ \A k \in DOMAIN q : k < i
    <2>1. PICK n \in 1..b : c[n] = FinishJob(id, FALSE, NoTile)
      BY <1>1, <1>3, <1>8
    <2>2. PICK i : i = a + n
      OBVIOUS
    <2>3. i \in (a + 1)..(a + b) /\ i - a = n /\ i > 0 /\ i \in 1..(a + b) /\ \A k \in 1..a : k < i
      BY <1>8, <2>2
    <2>4. p[i].job = c[n]
      <3>1. p[i] = Fresher(c[n])
        BY <1>8, <2>3
      <3>2. Fresher(c[n]).job = c[n]
        BY DEF Fresher
      <3> QED
        BY <3>1, <3>2
    <2> QED
      BY <1>8, <2>1, <2>3, <2>4
  <1>11. DOMAIN q \subseteq Nat /\ \A i \in DOMAIN q : i \in DOMAIN p /\ p[i] = q[i]
    BY <1>8
  <1> QED
    BY <1>3, <1>5, <1>9, <1>10, <1>11 DEF Retried

LEMMA RetriedClosed ==
    ASSUME NEW q, NEW p, NEW pend, Retried(q, p, pend), NEW w, NEW x, NEW T, Closed(w, pend, x, q, T)
    PROVE  Closed(w, {}, x, p, T)
  <1>1. ASSUME NEW id, NEW n \in (DOMAIN q) \cup {0}, Closing(id, pend, q, T, n) PROVE Closing(id, {}, p, T, n)
    <2>1. CASE id \in pend
      <3>1. PICK i \in DOMAIN p : i > 0 /\ p[i].job = FinishJob(id, FALSE, NoTile) /\ \A k \in DOMAIN q : k < i
        BY <2>1 DEF Retried
      <3>2. i > n /\ Ends(p[i].job, id)
        <4>1. CASE n = 0
          BY <3>1, <4>1, ClosingFields
        <4>2. CASE n \in DOMAIN q
          <5>1. n \in Nat
            BY <4>2 DEF Retried
          <5> QED
            BY <3>1, <4>2, <5>1, ClosingFields
        <4> QED
          BY <4>1, <4>2
      <3> QED
        BY <3>2 DEF Closing
    <2>2. CASE id \notin pend
      BY <1>1, <2>2 DEF Retried, Closing
    <2> QED
      BY <2>1, <2>2
  <1>2. ASSUME NEW i \in DOMAIN p, OpenedBy(p[i].job) \notin {0, w} PROVE Closing(OpenedBy(p[i].job), {}, p, T, i)
    <2>1. i \in DOMAIN q /\ p[i] = q[i]
      BY <1>2, ClosingFields DEF Retried
    <2> QED
      BY <1>1, <1>2, <2>1 DEF Closed
  <1>3. ASSUME w # 0 PROVE ~Closing(w, {}, p, T, 0)
    <2>1. SUFFICES ASSUME NEW k \in DOMAIN p, k > 0, Ends(p[k].job, w) PROVE FALSE
      BY <1>3 DEF Closing, Closed
    <2>2. w \notin pend /\ \A n \in DOMAIN q : n > 0 => ~Ends(q[n].job, w)
      BY <1>3 DEF Closing, Closed
    <2>3. k \in DOMAIN q /\ p[k] = q[k]
      <3>1. ASSUME NEW id \in pend, p[k].job = FinishJob(id, FALSE, NoTile) PROVE FALSE
        <4>1. \A n : Ends(FinishJob(id, FALSE, NoTile), n) => n = id
          BY ClosingFields
        <4> QED
          BY <2>1, <2>2, <3>1, <4>1
      <3> QED
        BY <3>1 DEF Retried
    <2> QED
      BY <2>1, <2>2, <2>3
  <1> QED
    BY <1>1, <1>2, <1>3 DEF Closed

LEMMA RetriedAgreed ==
    ASSUME NEW q, NEW p, NEW pend, Retried(q, p, pend), NEW m, NEW x, NEW T, Agreed(m, x, q, T)
    PROVE  Agreed(m, x, p, T)
  <1> SUFFICES ASSUME Busy(m) PROVE Agreed(m, x, p, T)
    BY DEF Agreed
  <1>1. \A k \in DOMAIN p : k \notin DOMAIN q => ~Overwrites(m, p[k].job)
    <2>1. \A id : ~Overwrites(m, FinishJob(id, FALSE, NoTile))
      BY ClosingFields
    <2> QED
      BY <2>1 DEF Retried
  <1>2. CASE Fails(m, T)
    BY <1>2 DEF Agreed
  <1>3. CASE Holds(m, x) /\ \A k \in DOMAIN q : ~Overwrites(m, q[k].job)
    <2>1. \A k \in DOMAIN p : ~Overwrites(m, p[k].job)
      BY <1>1, <1>3 DEF Retried
    <2> QED
      BY <1>3, <2>1 DEF Agreed
  <1>4. ASSUME NEW i \in DOMAIN q, Writes(m, q[i].job), \A k \in DOMAIN q : k > i => ~Overwrites(m, q[k].job)
        PROVE  Agreed(m, x, p, T)
    <2>1. \A k \in DOMAIN p : k > i => ~Overwrites(m, p[k].job)
      BY <1>1, <1>4 DEF Retried
    <2>2. i \in DOMAIN p /\ Writes(m, p[i].job)
      BY <1>4 DEF Retried
    <2> QED
      BY <2>1, <2>2 DEF Agreed
  <1> QED
    BY <1>2, <1>3, <1>4 DEF Agreed

LEMMA RetriedPlaced ==
    ASSUME NEW q, NEW p, NEW pend, Retried(q, p, pend), NEW m, NEW x, NEW T, Placed(m, x, q, T)
    PROVE  Placed(m, x, p, T)
  <1> SUFFICES ASSUME m.walk = NoWalk, ~m.dirty, \A y \in T : y.k \notin {"FlushFailed", "FinishFailed"}
               PROVE  Placed(m, x, p, T)
    BY DEF Placed
  <1>1. ASSUME NEW k \in DOMAIN p, k \notin DOMAIN q PROVE ~Displaces(p[k].job)
    <2>1. PICK id \in pend : p[k].job = FinishJob(id, FALSE, NoTile)
      BY <1>1 DEF Retried
    <2> QED
      BY <2>1, ClosingFields
  <1>2. CASE At(m, x.at, x.status) /\ \A k \in DOMAIN q : ~Displaces(q[k].job)
    <2>1. \A k \in DOMAIN p : ~Displaces(p[k].job)
      BY <1>1, <1>2 DEF Retried
    <2> QED
      BY <1>2, <2>1 DEF Placed
  <1>3. ASSUME NEW i \in DOMAIN q, Places(m, q[i].job), \A k \in DOMAIN q : k > i => ~Displaces(q[k].job)
        PROVE  Placed(m, x, p, T)
    <2>1. \A k \in DOMAIN p : k > i => ~Displaces(p[k].job)
      BY <1>1, <1>3 DEF Retried
    <2>2. i \in DOMAIN p /\ Places(m, p[i].job)
      BY <1>3 DEF Retried
    <2> QED
      BY <2>1, <2>2 DEF Placed
  <1> QED
    BY <1>2, <1>3 DEF Placed

LEMMA RetriedHoused ==
    ASSUME NEW q, NEW p, NEW pend, Retried(q, p, pend), NEW m, NEW h, NEW box, NEW u, Housed(m, h, q, box, u)
    PROVE  Housed(m, h, p, box, u)
  <1>1. ASSUME NEW i \in Nat PROVE (LeaveIn(p, i) <=> LeaveIn(q, i)) /\ (EnterIn(p, i) <=> EnterIn(q, i))
    BY ClosingFields DEF LeaveIn, EnterIn, Retried
  <1>2. \A i \in Nat : i \in DOMAIN q => p[i] = q[i] /\ i \in DOMAIN p
    BY DEF Retried
  <1>3. OneExit(p, box, u)
    BY <1>1 DEF Housed, OneExit
  <1>4. Inside(m, h, p, box, u)
    BY <1>1 DEF Housed, Inside
  <1>5. Welcomed(h, p, box, u)
    BY <1>1 DEF Housed, Welcomed
  <1>6. Leaving(h, p, box, u)
    <2>1. ASSUME NEW i \in Nat, LeaveIn(p, i)
          PROVE  h = (IF p[i].done THEN NoCity ELSE p[i].job.city) /\ \A k \in Nat : EnterIn(p, k) => i < k /\ ~p[k].done
      <3>1. LeaveIn(q, i) /\ p[i] = q[i]
        BY <2>1, <1>1, <1>2 DEF LeaveIn
      <3>2. h = (IF q[i].done THEN NoCity ELSE q[i].job.city) /\ \A k \in Nat : EnterIn(q, k) => i < k /\ ~q[k].done
        BY <3>1 DEF Housed, Leaving
      <3>3. \A k \in Nat : EnterIn(p, k) => EnterIn(q, k) /\ p[k] = q[k]
        BY <1>1, <1>2 DEF EnterIn
      <3> QED
        BY <3>1, <3>2, <3>3
    <2> QED
      BY <2>1 DEF Housed, Leaving
  <1>7. Outside(m, h, p, box, u)
    <2>1. ASSUME NEW i \in Nat, EnterIn(q, i), q[i].done, h = q[i].job.city PROVE EnterIn(p, i) /\ p[i].done /\ h = p[i].job.city
      BY <2>1, <1>1, <1>2 DEF EnterIn
    <2> QED
      BY <2>1, <1>1 DEF Housed, Outside
  <1> QED
    BY <1>3, <1>4, <1>5, <1>6, <1>7 DEF Housed

LEMMA FlushExplained ==
    ASSUME NEW s, Plain(s), s.out = <<>>, NEW x, NEW q \in Seq(Item), NEW box, NEW u, Explained(s.u, x, q, box, u)
    PROVE  LET r == FlushUnit(s)
           IN Explained(r.u, x, Line(q, r.out), box, u)
  <1>1. s.u \in Memory /\ s.u.pend \in Numbers /\ s.u.status \in Status /\ s.u.at \in Tile
    BY Steady
  <1>2. PICK c : c = SetToSeq({FinishJob(i, FALSE, NoTile) : i \in s.u.pend})
    OBVIOUS
  <1>3. PICK p : p = Line(q, c)
    OBVIOUS
  <1>4. c \in Seq(PlainJobs) /\ Retried(q, p, s.u.pend)
    BY <1>1, <1>2, <1>3, LineRetried
  <1>5. c \in Seq(Job) /\ <<>> \o c = c
    <2>1. PlainJobs \subseteq Job
      BY PlainJob
    <2> QED
      BY <1>4, <2>1
  <1>6. PICK m : m = [s.u EXCEPT !.pend = {}]
    OBVIOUS
  <1>7. PICK m2 : m2 = [s.u EXCEPT !.pend = {}, !.dirty = FALSE]
    OBVIOUS
  <1>8. /\ m.status = s.u.status /\ m.at = s.u.at /\ m.walk = s.u.walk /\ m.task = s.u.task
        /\ m.inside = s.u.inside /\ m.dirty = s.u.dirty /\ m.pend = {}
    BY <1>1, <1>6 DEF Memory
  <1>9. /\ m2.status = s.u.status /\ m2.at = s.u.at /\ m2.walk = s.u.walk /\ m2.task = s.u.task
        /\ m2.inside = s.u.inside /\ m2.dirty = FALSE /\ m2.pend = {}
    BY <1>1, <1>7 DEF Memory
  <1>10. PICK j : j = FlushJob(s.u.status, s.u.at)
    OBVIOUS
  <1>11. PICK f : f = [s EXCEPT !.u.pend = {}, !.out = @ \o c]
    OBVIOUS
  <1>12. PICK r : r = FlushUnit(s)
    OBVIOUS
  <1>13. f = [u |-> m, left |-> s.left, n |-> s.n, load |-> s.load, out |-> c]
    <2>1. f = [u |-> m, left |-> s.left, n |-> s.n, load |-> s.load, out |-> <<>> \o c]
      BY <1>6, <1>11 DEF Plain, Steps
    <2> QED
      BY <1>5, <2>1
  <1>14. m2 = [m EXCEPT !.dirty = FALSE]
    BY <1>1, <1>6, <1>7 DEF Memory
  <1>15. \/ ~s.u.dirty /\ r = f
         \/ s.u.dirty /\ s.u.walk # NoWalk /\ r = [f EXCEPT !.u.dirty = FALSE]
         \/ s.u.dirty /\ r = f
         \/ r = [f EXCEPT !.u.dirty = FALSE, !.out = Append(@, j)]
    BY ONLY <1>2, <1>10, <1>11, <1>12 DEF FlushUnit
  <1>16. \/ r.u = m /\ r.out = c
         \/ s.u.walk # NoWalk /\ r.u = m2 /\ r.out = c
         \/ r.u = m2 /\ r.out = Append(c, j)
    <2>1. f.u = m /\ f.out = c
      BY <1>13
    <2>2. CASE r = f
      BY <2>1, <2>2
    <2>3. CASE s.u.walk # NoWalk /\ r = [f EXCEPT !.u.dirty = FALSE]
      <3>1. r = [f EXCEPT !.u = m2]
        BY <1>14, <2>1, <2>3
      <3> QED
        BY <1>13, <2>3, <3>1
    <2>4. CASE r = [f EXCEPT !.u.dirty = FALSE, !.out = Append(@, j)]
      <3>1. r = [f EXCEPT !.u = m2, !.out = Append(c, j)]
        BY <1>14, <2>1, <2>4
      <3> QED
        BY <1>13, <3>1
    <2> QED
      BY <1>15, <2>2, <2>3, <2>4
  <1>17. /\ Closed(s.u.walk.id, {}, x, p, Told(box, u)) /\ Agreed(s.u, x, p, Told(box, u))
         /\ Placed(s.u, x, p, Told(box, u)) /\ Housed(s.u, x.host, p, box, u)
    BY <1>4, RetriedClosed, RetriedAgreed, RetriedPlaced, RetriedHoused DEF Explained
  <1>18. Explained([s.u EXCEPT !.pend = {}], x, p, box, u)
    <2>1. Agreed(m, x, p, Told(box, u))
      BY <1>8, <1>17 DEF Agreed, Busy, Held, Writes, Overwrites, Holds, Fails
    <2>2. Placed(m, x, p, Told(box, u))
      BY <1>8, <1>17 DEF Placed, Places, At
    <2>3. Housed(m, x.host, p, box, u)
      BY <1>8, <1>17, HousedAlike
    <2> QED
      BY <1>6, <1>8, <1>17, <2>1, <2>2, <2>3 DEF Explained
  <1>19. /\ Agreed(m2, x, p, Told(box, u)) /\ Housed(m2, x.host, p, box, u)
         /\ (s.u.walk # NoWalk => Placed(m2, x, p, Told(box, u)))
    <2>1. Agreed(m2, x, p, Told(box, u))
      BY <1>9, <1>17 DEF Agreed, Busy, Held, Writes, Overwrites, Holds, Fails
    <2>2. s.u.walk # NoWalk => Placed(m2, x, p, Told(box, u))
      BY <1>9 DEF Placed
    <2>3. Housed(m2, x.host, p, box, u)
      BY <1>9, <1>17, HousedAlike
    <2> QED
      BY <2>1, <2>2, <2>3
  <1>20. Closed(m2.walk.id, m2.pend, x, p, Told(box, u))
    BY <1>9, <1>17
  <1>21. ASSUME r.u = m2, r.out = Append(c, j) PROVE Explained(m2, x, Line(q, r.out), box, u)
    <2>1. j \in Job /\ j.k = "Flush" /\ OpenedBy(j) = 0 /\ (\A id : ~Ends(j, id)) /\ ~Overwrites(m2, j) /\ Places(m2, j)
      <3>1. j \in PlainJobs /\ PlainJobs \subseteq Job
        BY <1>1, <1>10, PlainJob
      <3>2. j.k = "Flush" /\ j.at = m2.at /\ j.status = m2.status
        BY <1>9, <1>10 DEF FlushJob
      <3> QED
        BY <3>1, <3>2 DEF OpenedBy, Ends, Overwrites, Places, At
    <2>2. PICK p2 : p2 = Line(q, r.out)
      OBVIOUS
    <2>3. Grown(p, j, p2)
      BY <1>3, <1>5, <1>21, <2>1, <2>2, LineGrown
    <2>4. Closed(m2.walk.id, m2.pend, x, p2, Told(box, u))
      <3>1. PICK w : w = m2.walk.id
        OBVIOUS
      <3>2. Closed(w, m2.pend, x, p, Told(box, u))
        BY <1>20, <3>1
      <3>3. OpenedBy(j) \in {0, w} /\ (w # 0 => ~Ends(j, w) /\ ~Closing(w, m2.pend, p, Told(box, u), 0))
        BY <2>1, <3>2 DEF Closed
      <3> QED
        BY <2>3, <3>1, <3>2, <3>3, GrownClosed
    <2>5. Agreed(m2, x, p2, Told(box, u))
      BY <1>19, <2>1, <2>3, GrownAgreed
    <2>6. Placed(m2, x, p2, Told(box, u))
      BY <2>1, <2>3, GrownPlaced
    <2>7. Housed(m2, x.host, p2, box, u)
      BY <1>19, <2>1, <2>3, GrownHoused
    <2> QED
      BY <2>2, <2>4, <2>5, <2>6, <2>7 DEF Explained
  <1>22. s.u.walk # NoWalk => Explained(m2, x, p, box, u)
    BY <1>19, <1>20 DEF Explained
  <1> QED
    BY <1>3, <1>6, <1>12, <1>16, <1>18, <1>21, <1>22

LEMMA FlushDirtyUntangled ==
    ASSUME Inv, Untangled, NEW u \in Unit, FlushDirty(u)
    PROVE  Untangled'
  <1>1. PICK s : s = Step(u)
    OBVIOUS
  <1>2. /\ Plain(s) /\ Story(s.u) /\ s.u = ram[u] /\ s.out = <<>> /\ queue[u] \in Seq(Item)
        /\ (Clean(u) => Explained(s.u, row[u], queue[u], inbox, u))
    BY <1>1, Started
  <1>3. PICK r : r = FlushUnit(s)
    OBVIOUS
  <1>4. r \in Steps
    BY <1>2, <1>3, FlushMoved DEF Moved, Plain
  <1>5. Clean(u) => Explained(r.u, row[u], Line(queue[u], r.out), inbox, u)
    BY <1>2, <1>3, FlushExplained
  <1>6. Apply(u, r, inbox)
    BY <1>1, <1>3 DEF FlushDirty
  <1> QED
    BY <1>4, <1>5, <1>6, StepExplained

-----------------------------------------------------------------------------
(* Messages handled.                                                       *)

LEMMA TailTold ==
    ASSUME NEW box \in Seq(Sent), box # <<>>, NEW u, Head(box).u = u
    PROVE  /\ \A y \in Told(Tail(box), u) : y \in Told(box, u)
           /\ \A y \in Told(box, u) : y = Head(box) \/ y \in Told(Tail(box), u)
           /\ Head(box) \in Told(box, u)
  <1>1. PICK p : p = Tail(box)
    OBVIOUS
  <1>2. /\ Head(box) = box[1] /\ 1 \in DOMAIN box
        /\ \A i \in Nat : i \in DOMAIN p <=> i # 0 /\ i + 1 \in DOMAIN box
        /\ \A i \in DOMAIN p : p[i] = box[i + 1]
    BY <1>1, Shifted
  <1>3. DOMAIN p \subseteq Nat /\ DOMAIN box \subseteq Nat \ {0}
    BY <1>1
  <1>4. ASSUME NEW y \in Told(p, u) PROVE y \in Told(box, u)
    BY <1>2, <1>3, <1>4 DEF Told
  <1>5. ASSUME NEW y \in Told(box, u) PROVE y = Head(box) \/ y \in Told(p, u)
    <2>1. PICK i \in DOMAIN box : box[i].u = u /\ y = box[i]
      BY <1>5 DEF Told
    <2>2. CASE i = 1
      BY <1>2, <2>1, <2>2
    <2>3. CASE i # 1
      <3>1. PICK k : k = i - 1
        OBVIOUS
      <3>2. k \in Nat /\ k # 0 /\ k + 1 = i
        BY <1>3, <2>3, <3>1
      <3>3. k \in DOMAIN p /\ p[k] = box[i]
        BY <1>2, <3>2
      <3> QED
        BY <2>1, <3>3 DEF Told
    <2> QED
      BY <2>2, <2>3
  <1>6. Head(box) \in Told(box, u)
    BY <1>2 DEF Told
  <1> QED
    BY <1>1, <1>4, <1>5, <1>6

LEMMA TailBehind ==
    ASSUME NEW box \in Seq(Sent), box # <<>>, NEW u
    PROVE  Behind(box, Tail(box), u)
  <1>1. PICK p : p = Tail(box)
    OBVIOUS
  <1>2. /\ \A i \in Nat : i \in DOMAIN p <=> i # 0 /\ i + 1 \in DOMAIN box
        /\ \A i \in DOMAIN p : p[i] = box[i + 1]
    BY <1>1, Shifted
  <1>3. Behind(box, p, u)
    BY <1>2 DEF Behind, ExitIn, YesIn
  <1> QED
    BY <1>1, <1>3

LEMMA HeadHoused ==
    ASSUME NEW box \in Seq(Sent), box # <<>>, NEW u, Head(box).k # "ExitFailed", ~(Head(box).k = "Entered" /\ Head(box).ok),
           NEW m, NEW h, NEW q, Housed(m, h, q, box, u)
    PROVE  Housed(m, h, q, Tail(box), u)
  <1>1. PICK p : p = Tail(box)
    OBVIOUS
  <1>2. /\ \A i \in Nat : ExitIn(p, u, i) <=> i # 0 /\ ExitIn(box, u, i + 1)
        /\ \A i \in Nat : YesIn(p, u, i) <=> i # 0 /\ YesIn(box, u, i + 1)
        /\ \A i \in Nat : YesIn(p, u, i) => p[i].city = box[i + 1].city
        /\ \A i \in Nat : ExitIn(p, u, i) => p[i].city = box[i + 1].city
    <2>1. Behind(box, p, u)
      BY <1>1, TailBehind
    <2> QED
      BY <2>1 DEF Behind
  <1>3. \A i \in Nat : i + 1 \in Nat
    OBVIOUS
  <1>4. \A i, j \in Nat : (i + 1 = j + 1 => i = j) /\ (i + 1 < j + 1 => i < j)
    OBVIOUS
  <1>5. OneExit(q, p, u)
    BY <1>2, <1>3, <1>4 DEF Housed, OneExit
  <1>6. Inside(m, h, q, p, u)
    BY <1>2, <1>3 DEF Housed, Inside
  <1>7. Welcomed(h, q, p, u)
    BY <1>2, <1>3, <1>4 DEF Housed, Welcomed
  <1>8. Leaving(h, q, p, u)
    BY <1>2, <1>3 DEF Housed, Leaving
  <1>9. ASSUME NEW i \in Nat, ExitIn(box, u, i) \/ YesIn(box, u, i) PROVE \E k \in Nat : ExitIn(p, u, k) \/ YesIn(p, u, k)
    <2>1. i # 1
      BY <1>9, Shifted DEF ExitIn, YesIn
    <2>2. i # 0
      BY <1>9 DEF ExitIn, YesIn
    <2>3. PICK k : k = i - 1
      OBVIOUS
    <2>4. k \in Nat /\ k # 0 /\ k + 1 = i
      BY <2>1, <2>2, <2>3
    <2> QED
      BY <1>2, <1>9, <2>4
  <1>10. Outside(m, h, q, p, u)
    BY <1>9 DEF Housed, Outside
  <1> QED
    BY <1>1, <1>5, <1>6, <1>7, <1>8, <1>10 DEF Housed

\* A unit the transaction let in.
LEMMA EnteredHoused ==
    ASSUME NEW box \in Seq(Sent), box # <<>>, NEW u, Head(box).u = u, Head(box).k = "Entered", Head(box).ok,
           NEW m, NEW h, NEW q, Housed(m, h, q, box, u),
           NEW m2, m2.status = "GARRISONED", m2.inside = Head(box).city
    PROVE  Housed(m2, h, q, Tail(box), u)
  <1>1. PICK p : p = Tail(box)
    OBVIOUS
  <1>2. /\ \A i \in Nat : ExitIn(p, u, i) <=> i # 0 /\ ExitIn(box, u, i + 1)
        /\ \A i \in Nat : YesIn(p, u, i) <=> i # 0 /\ YesIn(box, u, i + 1)
        /\ \A i \in Nat : YesIn(p, u, i) => p[i].city = box[i + 1].city
    <2>1. Behind(box, p, u)
      BY <1>1, TailBehind
    <2> QED
      BY <2>1 DEF Behind
  <1>3. YesIn(box, u, 1) /\ Head(box) = box[1]
    BY Shifted DEF YesIn
  <1>4. h = m2.inside /\ \A i \in Nat : ~LeaveIn(q, i) /\ (ExitIn(box, u, i) => i < 1)
    BY <1>3 DEF Housed, Welcomed
  <1>5. \A i \in Nat : ~ExitIn(p, u, i)
    <2>1. \A i \in Nat : i # 0 => i + 1 \in Nat /\ ~(i + 1 < 1)
      OBVIOUS
    <2> QED
      BY <1>2, <1>4, <2>1
  <1>6. Welcomed(h, q, p, u)
    <2>1. \A i \in Nat : i + 1 \in Nat
      OBVIOUS
    <2> QED
      BY <1>2, <1>4, <1>5, <2>1 DEF Housed, Welcomed
  <1>7. OneExit(q, p, u) /\ Inside(m2, h, q, p, u) /\ Leaving(h, q, p, u) /\ Outside(m2, h, q, p, u)
    BY <1>4, <1>5 DEF OneExit, Inside, Leaving, Outside
  <1> QED
    BY <1>1, <1>6, <1>7 DEF Housed

\* A unit sent back inside.
LEMMA ReturnedHoused ==
    ASSUME NEW box \in Seq(Sent), box # <<>>, NEW u, Head(box).u = u, Head(box).k = "ExitFailed",
           NEW m, NEW h, NEW q, Housed(m, h, q, box, u),
           NEW m2, m2.status = "GARRISONED", m2.inside = Head(box).city
    PROVE  m.status # "GARRISONED" /\ Housed(m2, h, q, Tail(box), u)
  <1>1. PICK p : p = Tail(box)
    OBVIOUS
  <1>2. /\ \A i \in Nat : ExitIn(p, u, i) <=> i # 0 /\ ExitIn(box, u, i + 1)
        /\ \A i \in Nat : YesIn(p, u, i) <=> i # 0 /\ YesIn(box, u, i + 1)
        /\ \A i \in Nat : YesIn(p, u, i) => p[i].city = box[i + 1].city
    <2>1. Behind(box, p, u)
      BY <1>1, TailBehind
    <2> QED
      BY <2>1 DEF Behind
  <1>3. ExitIn(box, u, 1) /\ Head(box) = box[1] /\ 1 \in Nat
    BY Shifted DEF ExitIn
  <1>4. /\ h = m2.inside /\ m.status # "GARRISONED"
        /\ \A i \in Nat : ~LeaveIn(q, i) /\ (ExitIn(box, u, i) => i = 1)
    BY <1>3 DEF Housed, OneExit, Leaving, Inside
  <1>5. \A i \in Nat : ~ExitIn(p, u, i)
    <2>1. \A i \in Nat : i # 0 => i + 1 \in Nat /\ i + 1 # 1
      OBVIOUS
    <2> QED
      BY <1>2, <1>4, <2>1
  <1>6. Welcomed(h, q, p, u)
    <2>1. \A i \in Nat : i + 1 \in Nat
      OBVIOUS
    <2> QED
      BY <1>2, <1>4, <1>5, <2>1 DEF Housed, Welcomed
  <1>7. OneExit(q, p, u) /\ Inside(m2, h, q, p, u) /\ Leaving(h, q, p, u) /\ Outside(m2, h, q, p, u)
    BY <1>4, <1>5 DEF OneExit, Inside, Leaving, Outside
  <1> QED
    BY <1>1, <1>4, <1>6, <1>7 DEF Housed

LEMMA HeadClosed ==
    ASSUME NEW box \in Seq(Sent), box # <<>>, NEW u, Head(box).u = u, NEW pend, NEW pend2,
           pend \subseteq pend2, pend2 \subseteq pend \cup (IF Head(box).k = "FinishFailed" THEN {Head(box).id} ELSE {}),
           Head(box).k = "FinishFailed" => Head(box).id \in pend2 \cup {0},
           NEW w, NEW x, NEW q, Closed(w, pend, x, q, Told(box, u))
    PROVE  Closed(w, pend2, x, q, Told(Tail(box), u))
  <1>1. /\ \A y \in Told(Tail(box), u) : y \in Told(box, u)
        /\ \A y \in Told(box, u) : y = Head(box) \/ y \in Told(Tail(box), u)
        /\ Head(box) \in Told(box, u)
    BY TailTold
  <1>2. ASSUME NEW id, id # 0, NEW n, Closing(id, pend, q, Told(box, u), n) PROVE Closing(id, pend2, q, Told(Tail(box), u), n)
    BY <1>1, <1>2 DEF Closing, Says
  <1>3. ASSUME w # 0 PROVE ~Closing(w, pend2, q, Told(Tail(box), u), 0)
    <2>1. w \notin pend /\ ~Says(Told(box, u), "FinishFailed", w) /\ \A k \in DOMAIN q : k > 0 => ~Ends(q[k].job, w)
      BY <1>3 DEF Closed, Closing
    <2>2. ~Says(Told(Tail(box), u), "FinishFailed", w) /\ w \notin pend2
      BY <1>1, <2>1 DEF Says
    <2> QED
      BY <2>1, <2>2 DEF Closing
  <1> QED
    BY <1>2, <1>3 DEF Closed

\* A message that leaves the unit as it explains itself.
LEMMA HeadGone ==
    ASSUME NEW box \in Seq(Sent), box # <<>>, NEW u, Head(box).u = u,
           Head(box).k \notin {"ExitFailed", "FinishFailed"}, ~(Head(box).k = "Entered" /\ Head(box).ok),
           NEW m, NEW x, NEW q, Explained(m, x, q, box, u),
           m.dirty \/ Head(box).k # "FlushFailed",
           Busy(m) /\ Fails(m, Told(box, u)) => Fails(m, Told(Tail(box), u))
    PROVE  Explained(m, x, q, Tail(box), u)
  <1>1. /\ \A y \in Told(Tail(box), u) : y \in Told(box, u)
        /\ \A y \in Told(box, u) : y = Head(box) \/ y \in Told(Tail(box), u)
    BY TailTold
  <1>2. Closed(m.walk.id, m.pend, x, q, Told(Tail(box), u))
    BY HeadClosed DEF Explained
  <1>3. Agreed(m, x, q, Told(Tail(box), u))
    BY DEF Explained, Agreed
  <1>4. Placed(m, x, q, Told(Tail(box), u))
    BY <1>1 DEF Explained, Placed
  <1>5. Housed(m, x.host, q, Tail(box), u)
    BY HeadHoused DEF Explained
  <1> QED
    BY <1>2, <1>3, <1>4, <1>5 DEF Explained

\* The head of box is a message of u, whose step s begins.
Opening(s, x, q, box, u) ==
  /\ Plain(s) /\ Story(s.u) /\ s.out = <<>> /\ s.n # s.u.walk.id
  /\ q \in Seq(Item) /\ Line(q, s.out) = q
  /\ box \in Seq(Sent) /\ box # <<>> /\ Head(box).u = u
  /\ Sound(s, s.u.walk.id, x, q, box, u) /\ Explained(s.u, x, q, box, u)

LEMMA EnteredExplained ==
    ASSUME NEW s, NEW x, NEW q, NEW box, NEW u, Opening(s, x, q, box, u), s.u.entering, Head(box).k = "Entered"
    PROVE  LET r == HandleEntered(s, Head(box))
           IN Explained(r.u, x, Line(q, r.out), Tail(box), u)
  <1>1. s.u \in Memory /\ s.u.walk = NoWalk /\ box \in Seq(Sent) /\ box # <<>> /\ Head(box).u = u
    BY Steady DEF Opening, Story
  <1>2. PICK m : m = Head(box)
    OBVIOUS
  <1>3. PICK r : r = HandleEntered(s, m)
    OBVIOUS
  <1>4. Explained(s.u, x, q, box, u) /\ Line(q, s.out) = q
    BY DEF Opening
  <1>5. CASE m.ok
    <2>1. PICK p : p = [s.u EXCEPT !.entering = FALSE, !.status = "GARRISONED", !.inside = m.city]
      OBVIOUS
    <2>2. /\ p.walk = NoWalk /\ p.status = "GARRISONED" /\ p.inside = m.city /\ p.at = s.u.at
          /\ p.dirty = s.u.dirty /\ p.pend = s.u.pend
      BY <1>1, <2>1 DEF Memory
    <2>3. r = [s EXCEPT !.u = p]
      BY <1>3, <1>5, <2>1 DEF HandleEntered
    <2>4. r.u = p /\ r.out = s.out
      BY <2>3 DEF Opening, Plain, Steps
    <2>5. Housed(p, x.host, q, Tail(box), u)
      BY <1>1, <1>2, <1>4, <1>5, <2>2, EnteredHoused DEF Explained
    <2>6. Closed(p.walk.id, p.pend, x, q, Told(Tail(box), u))
      <3>1. Closed(p.walk.id, p.pend, x, q, Told(box, u))
        BY <1>1, <1>4, <2>2 DEF Explained
      <3> QED
        BY <1>1, <3>1, HeadClosed
    <2>7. Agreed(p, x, q, Told(Tail(box), u))
      BY <2>2 DEF Agreed, Busy
    <2>8. Placed(p, x, q, Told(Tail(box), u))
      <3>1. \A y \in Told(box, u) : y = Head(box) \/ y \in Told(Tail(box), u)
        BY <1>1, TailTold
      <3>2. \A j : Places(s.u, j) => Places(p, j)
        BY <2>2 DEF Places, At
      <3>3. At(s.u, x.at, x.status) => At(p, x.at, x.status)
        BY <2>2 DEF At
      <3>4. Placed(s.u, x, q, Told(box, u))
        BY <1>4 DEF Explained
      <3> QED
        BY <1>1, <2>2, <3>1, <3>2, <3>3, <3>4 DEF Placed
    <2> QED
      BY <1>2, <1>3, <1>4, <2>4, <2>5, <2>6, <2>7, <2>8 DEF Explained
  <1>6. CASE ~m.ok
    <2>1. PICK p : p = [s.u EXCEPT !.entering = FALSE]
      OBVIOUS
    <2>2. /\ p.walk = NoWalk /\ p.status = s.u.status /\ p.inside = s.u.inside /\ p.at = s.u.at /\ p.task = s.u.task
          /\ p.dirty = s.u.dirty /\ p.pend = s.u.pend
      BY <1>1, <2>1 DEF Memory
    <2>3. r = [s EXCEPT !.u = p]
      BY <1>3, <1>6, <2>1 DEF HandleEntered
    <2>4. r.u = p /\ r.out = s.out
      BY <2>3 DEF Opening, Plain, Steps
    <2>5. Explained(p, x, q, box, u)
      <3>1. p.walk = s.u.walk
        BY <1>1, <2>2
      <3> QED
        BY <1>4, <2>2, <3>1, ExplainedAlike
    <2>6. ~Busy(p)
      BY <1>1, <2>2 DEF Busy, Opening, Story
    <2>7. Explained(p, x, q, Tail(box), u)
      BY <1>1, <1>2, <1>6, <2>5, <2>6, HeadGone
    <2> QED
      BY <1>2, <1>3, <1>4, <2>4, <2>7
  <1> QED
    BY <1>5, <1>6

LEMMA ExitFailedExplained ==
    ASSUME NEW s, NEW x, NEW q, NEW box, NEW u, Opening(s, x, q, box, u), NEW from \in Tile, Head(box).k = "ExitFailed"
    PROVE  LET r == HandleExitFailed(s, Head(box), from)
           IN Explained(r.u, x, Line(q, r.out), Tail(box), u)
  <1>1. /\ Plain(s) /\ Story(s.u) /\ s.n # s.u.walk.id /\ s.u.walk.id \in Nat /\ s.u \in Memory
        /\ q \in Seq(Item) /\ box \in Seq(Sent) /\ box # <<>> /\ Head(box).u = u
        /\ Sound(s, s.u.walk.id, x, q, box, u) /\ Housed(s.u, x.host, q, box, u)
    BY Steady DEF Opening, Explained, Memory, Walk, WalkType
  <1>2. PICK m : m = Head(box)
    OBVIOUS
  <1>3. s.u.status # "GARRISONED"
    <2>1. PICK m2 : m2 = [status |-> "GARRISONED", inside |-> m.city]
      OBVIOUS
    <2>2. m2.status = "GARRISONED" /\ m2.inside = Head(box).city
      BY <1>2, <2>1
    <2> QED
      BY <1>1, <2>2, ReturnedHoused
  <1>4. PICK c : c = Cancel(s, from)
    OBVIOUS
  <1>5. Sound(c, 0, x, q, box, u)
    BY <1>1, <1>3, <1>4, CancelSound
  <1>6. Plain(c) /\ c.u \in Memory /\ c.u.walk = NoWalk
    <2>1. Moved(s, c) /\ c.u.walk = NoWalk
      BY <1>1, <1>4, CancelMoved
    <2> QED
      BY <2>1, Steady DEF Moved
  <1>7. PICK p : p = [c.u EXCEPT !.status = "GARRISONED", !.inside = m.city, !.at = m.at, !.dirty = TRUE]
    OBVIOUS
  <1>8. p.walk = NoWalk /\ p.status = "GARRISONED" /\ p.inside = m.city /\ p.dirty = TRUE /\ p.pend = c.u.pend
    BY <1>6, <1>7 DEF Memory
  <1>9. PICK r : r = HandleExitFailed(s, m, from)
    OBVIOUS
  <1>10. r = [c EXCEPT !.u = p]
    BY <1>3, <1>4, <1>7, <1>9 DEF HandleExitFailed
  <1>11. r.u = p /\ r.out = c.out
    BY <1>6, <1>10 DEF Plain, Steps
  <1>12. PICK l : l = Line(q, c.out)
    OBVIOUS
  <1>13. Closed(0, c.u.pend, x, l, Told(box, u)) /\ Housed(c.u, x.host, l, box, u)
    BY <1>5, <1>12 DEF Sound
  <1>14. Closed(p.walk.id, p.pend, x, l, Told(Tail(box), u))
    <2>1. Closed(p.walk.id, p.pend, x, l, Told(box, u))
      BY <1>8, <1>13, Nothing
    <2> QED
      BY <1>1, <2>1, HeadClosed
  <1>15. Housed(p, x.host, l, Tail(box), u)
    BY <1>1, <1>2, <1>8, <1>13, ReturnedHoused
  <1>16. Agreed(p, x, l, Told(Tail(box), u)) /\ Placed(p, x, l, Told(Tail(box), u))
    BY <1>8 DEF Agreed, Busy, Placed
  <1> QED
    BY <1>2, <1>9, <1>11, <1>12, <1>14, <1>15, <1>16 DEF Explained

\* A unit that stands after its step, without a task on the way, forgets a failed job.
LEMMA HeadDone ==
    ASSUME NEW box \in Seq(Sent), box # <<>>, NEW u, Head(box).u = u, Head(box).k \in {"StartFailed", "TaskFailed"},
           NEW m, NEW x, NEW q, Explained(m, x, q, box, u),
           Busy(m) => Head(box).k # (IF Held(m) THEN "TaskFailed" ELSE "StartFailed")
                      \/ Head(box).id # (IF Held(m) THEN m.task.rev ELSE m.walk.id)
    PROVE  Explained(m, x, q, Tail(box), u)
  <1>1. \A y \in Told(box, u) : y = Head(box) \/ y \in Told(Tail(box), u)
    BY TailTold
  <1>2. Busy(m) /\ Fails(m, Told(box, u)) => Fails(m, Told(Tail(box), u))
    BY <1>1 DEF Fails, Says
  <1> QED
    BY <1>2, HeadGone

LEMMA StartFailedExplained ==
    ASSUME NEW s, NEW x, NEW q, NEW box, NEW u, Opening(s, x, q, box, u), NEW from \in Tile, Head(box).k = "StartFailed"
    PROVE  LET r == HandleStartFailed(s, Head(box), from)
           IN Explained(r.u, x, Line(q, r.out), Tail(box), u)
  <1>1. /\ Plain(s) /\ Story(s.u) /\ s.n # s.u.walk.id /\ s \in Steps
        /\ q \in Seq(Item) /\ box \in Seq(Sent) /\ box # <<>> /\ Head(box).u = u
        /\ Sound(s, s.u.walk.id, x, q, box, u) /\ Explained(s.u, x, q, box, u) /\ Line(q, s.out) = q
    BY DEF Opening, Plain
  <1>2. PICK m : m = Head(box)
    OBVIOUS
  <1>3. CASE s.u.walk # NoWalk /\ s.u.walk.id = m.id
    <2>1. PICK c : c = Cancel(s, from)
      OBVIOUS
    <2>2. c.u.walk = NoWalk /\ c.u.status = "IDLE"
      BY <1>1, <1>3, <2>1, CancelFields
    <2>3. Explained(c.u, x, Line(q, c.out), box, u)
      <3>1. s.u.status # "GARRISONED"
        BY <1>1, <1>3 DEF Story
      <3> QED
        BY <1>1, <1>3, <2>1, <3>1, CancelSound
    <2>4. Explained(c.u, x, Line(q, c.out), Tail(box), u)
      BY <1>1, <2>2, <2>3, HeadDone DEF Busy
    <2> QED
      BY <1>2, <1>3, <2>1, <2>4 DEF HandleStartFailed
  <1>4. CASE ~(s.u.walk # NoWalk /\ s.u.walk.id = m.id)
    <2>1. HandleStartFailed(s, m, from) = s
      BY <1>4 DEF HandleStartFailed, Cancel
    <2>2. Explained(s.u, x, q, Tail(box), u)
      <3>1. ASSUME Busy(s.u), ~Held(s.u) PROVE Head(box).id # s.u.walk.id
        BY <1>2, <1>4, <3>1 DEF Busy, Held
      <3> QED
        BY <1>1, <3>1, HeadDone
    <2> QED
      BY <1>1, <1>2, <2>1, <2>2
  <1> QED
    BY <1>3, <1>4

\* A task given up that is no task: the unit is written where it is.
LEMMA NoTaskExplained ==
    ASSUME NEW s, NEW x, NEW q, NEW box, NEW u, Opening(s, x, q, box, u), s.u.task = NoTask, Head(box).k = "TaskFailed",
           NEW r, r = [s EXCEPT !.out = Append(@, FinishJob(0, TRUE, s.u.at))]
    PROVE  Explained(r.u, x, Line(q, r.out), Tail(box), u)
  <1>1. /\ Plain(s) /\ Story(s.u) /\ s.out = <<>> /\ s.u.at \in Tile
        /\ q \in Seq(Item) /\ box \in Seq(Sent) /\ box # <<>> /\ Head(box).u = u
        /\ Explained(s.u, x, q, box, u) /\ Line(q, s.out) = q
    BY Steady DEF Opening, Memory
  <1>2. ~Held(s.u)
    BY <1>1, Nothing DEF Held, Story
  <1>3. PICK j : j = FinishJob(0, TRUE, s.u.at)
    OBVIOUS
  <1>4. j \in Job /\ j.k = "Finish" /\ j.at = s.u.at /\ OpenedBy(j) = 0 /\ (\A n : n # 0 => ~Ends(j, n)) /\ j.whole
    <2>1. 0 \in Nat
      OBVIOUS
    <2> QED
      BY <1>1, <1>3, <2>1, FinishTyped DEF FinishJob
  <1>5. r.u = s.u /\ r.out = Append(s.out, j)
    BY <1>1, <1>3 DEF Plain, Steps
  <1>6. PICK p : p = Line(q, r.out)
    OBVIOUS
  <1>7. Grown(q, j, p)
    <2>1. <<>> \in Seq(Job)
      OBVIOUS
    <2> QED
      BY <1>1, <1>4, <1>5, <1>6, <2>1, LineGrown
  <1>8. Closed(s.u.walk.id, s.u.pend, x, p, Told(box, u))
    <2>1. PICK w : w = s.u.walk.id
      OBVIOUS
    <2>2. Closed(w, s.u.pend, x, q, Told(box, u))
      BY <1>1, <2>1 DEF Explained
    <2>3. OpenedBy(j) \in {0, w} /\ (w # 0 => ~Ends(j, w) /\ ~Closing(w, s.u.pend, q, Told(box, u), 0))
      BY <1>4, <2>2 DEF Closed
    <2> QED
      BY <1>7, <2>1, <2>2, <2>3, GrownClosed
  <1>9. Agreed(s.u, x, p, Told(box, u))
    <2>1. ~Overwrites(s.u, j)
      BY <1>2, <1>4 DEF Overwrites
    <2> QED
      BY <1>1, <1>7, <2>1, GrownAgreed DEF Explained
  <1>10. Placed(s.u, x, p, Told(box, u))
    <2>1. Places(s.u, j)
      BY <1>2, <1>4 DEF Places, At, Held
    <2> QED
      BY <1>7, <2>1, GrownPlaced
  <1>11. Housed(s.u, x.host, p, box, u)
    BY <1>1, <1>4, <1>7, GrownHoused DEF Explained
  <1>12. Explained(s.u, x, p, box, u)
    BY <1>8, <1>9, <1>10, <1>11 DEF Explained
  <1>13. Head(box).k # (IF Held(s.u) THEN "TaskFailed" ELSE "StartFailed")
    BY <1>2
  <1>14. Explained(s.u, x, p, Tail(box), u)
    BY <1>1, <1>12, <1>13, HeadDone
  <1> QED
    BY <1>5, <1>6, <1>14

LEMMA TaskFailedExplained ==
    ASSUME NEW s, NEW x, NEW q, NEW box, NEW u, Opening(s, x, q, box, u), NEW from \in Tile, Head(box).k = "TaskFailed"
    PROVE  LET r == HandleTaskFailed(s, Head(box), from)
           IN Explained(r.u, x, Line(q, r.out), Tail(box), u)
  <1>1. /\ Plain(s) /\ Story(s.u) /\ s.n # s.u.walk.id /\ s \in Steps /\ s.u.task \in Task
        /\ q \in Seq(Item) /\ box \in Seq(Sent) /\ box # <<>> /\ Head(box).u = u
        /\ Sound(s, s.u.walk.id, x, q, box, u) /\ Explained(s.u, x, q, box, u) /\ Line(q, s.out) = q
    BY Steady DEF Opening, Plain, Memory
  <1>2. PICK m : m = Head(box)
    OBVIOUS
  <1>3. CASE m.id = 0 /\ s.u.task = NoTask
    <2>1. PICK r : r = [s EXCEPT !.out = Append(@, FinishJob(0, TRUE, s.u.at))]
      OBVIOUS
    <2>2. HandleTaskFailed(s, m, from) = r
      BY <1>3, <2>1 DEF HandleTaskFailed
    <2>3. Explained(r.u, x, Line(q, r.out), Tail(box), u)
      BY <1>3, <2>1, NoTaskExplained
    <2> QED
      BY <1>2, <2>2, <2>3
  <1>4. CASE m.id # 0 /\ s.u.task # NoTask /\ s.u.task.rev = m.id
    <2>1. CASE s.u.status = "WORKING"
      <3>1. PICK c : c = StopWorking(s)
        OBVIOUS
      <3>2. s.u.walk = NoWalk /\ s.u.walk.id = 0
        BY <1>1, <2>1, Nothing DEF Story
      <3>3. c.u.walk = NoWalk /\ c.u.status = "IDLE"
        BY <1>1, <2>1, <3>1, <3>2, StopWorkingFields
      <3>4. Explained(c.u, x, Line(q, c.out), box, u)
        <4>1. Sound(s, 0, x, q, box, u)
          BY <1>1, <3>2
        <4> QED
          BY <1>1, <2>1, <3>1, <3>2, <4>1, StopWorkingSound
      <3>5. Explained(c.u, x, Line(q, c.out), Tail(box), u)
        BY <1>1, <3>3, <3>4, HeadDone DEF Busy
      <3>6. HandleTaskFailed(s, m, from) = c
        BY <1>4, <2>1, <3>1 DEF HandleTaskFailed
      <3> QED
        BY <1>2, <3>5, <3>6
    <2>2. CASE s.u.status # "WORKING" /\ s.u.walk # NoWalk
      <3>1. PICK c : c = Cancel(s, from)
        OBVIOUS
      <3>2. c.u.walk = NoWalk /\ c.u.status = "IDLE"
        BY <1>1, <2>2, <3>1, CancelFields
      <3>3. Explained(c.u, x, Line(q, c.out), box, u)
        <4>1. s.u.status # "GARRISONED"
          BY <1>1, <2>2 DEF Story
        <4> QED
          BY <1>1, <2>2, <3>1, <4>1, CancelSound
      <3>4. Explained(c.u, x, Line(q, c.out), Tail(box), u)
        BY <1>1, <3>2, <3>3, HeadDone DEF Busy
      <3>5. HandleTaskFailed(s, m, from) = c
        BY <1>4, <2>2, <3>1 DEF HandleTaskFailed
      <3> QED
        BY <1>2, <3>4, <3>5
    <2>3. CASE s.u.status # "WORKING" /\ s.u.walk = NoWalk
      <3>1. HandleTaskFailed(s, m, from) = s
        BY <1>4, <2>3 DEF HandleTaskFailed, Cancel
      <3>2. Explained(s.u, x, q, Tail(box), u)
        BY <1>1, <2>3, HeadDone DEF Busy
      <3> QED
        BY <1>1, <1>2, <3>1, <3>2
    <2> QED
      BY <2>1, <2>2, <2>3
  <1>5. CASE ~(m.id = 0 /\ s.u.task = NoTask) /\ ~(m.id # 0 /\ s.u.task # NoTask /\ s.u.task.rev = m.id)
    <2>1. HandleTaskFailed(s, m, from) = s
      BY <1>5 DEF HandleTaskFailed
    <2>2. Held(s.u) => s.u.task # NoTask /\ s.u.task.rev # 0
      BY <1>1, Nothing DEF Held, Story, Task
    <2>3. Held(s.u) => m.id # s.u.task.rev
      BY <1>5, <2>2
    <2>4. Explained(s.u, x, q, Tail(box), u)
      BY <1>1, <1>2, <2>3, HeadDone
    <2> QED
      BY <1>1, <1>2, <2>1, <2>4
  <1> QED
    BY <1>3, <1>4, <1>5

LEMMA FinishFailedExplained ==
    ASSUME NEW s, NEW x, NEW q, NEW box, NEW u, Opening(s, x, q, box, u), Head(box).k = "FinishFailed"
    PROVE  LET r == HandleFinishFailed(s, Head(box))
           IN Explained(r.u, x, Line(q, r.out), Tail(box), u)
  <1>1. /\ Plain(s) /\ s.u \in Memory
        /\ q \in Seq(Item) /\ box \in Seq(Sent) /\ box # <<>> /\ Head(box).u = u
        /\ Explained(s.u, x, q, box, u) /\ Line(q, s.out) = q
    BY Steady DEF Opening
  <1>2. PICK m : m = Head(box)
    OBVIOUS
  <1>3. PICK pend : pend = IF m.id = 0 THEN s.u.pend ELSE s.u.pend \cup {m.id}
    OBVIOUS
  <1>4. PICK r : r = HandleFinishFailed(s, m)
    OBVIOUS
  <1>5. PICK p : p = [s.u EXCEPT !.dirty = TRUE, !.pend = pend]
    OBVIOUS
  <1>6. r = [s EXCEPT !.u = p]
    <2>1. r = [s EXCEPT !.u.dirty = TRUE, !.u.pend = pend]
      BY <1>1, <1>3, <1>4 DEF HandleFinishFailed, Plain, Steps, Memory
    <2> QED
      BY <1>5, <2>1
  <1>7. r.u = p /\ r.out = s.out
    BY <1>1, <1>6 DEF Plain, Steps
  <1>8. /\ p.status = s.u.status /\ p.at = s.u.at /\ p.walk = s.u.walk /\ p.task = s.u.task
        /\ p.inside = s.u.inside /\ p.dirty = TRUE /\ p.pend = pend
    BY <1>1, <1>5 DEF Memory
  <1>9. Closed(p.walk.id, p.pend, x, q, Told(Tail(box), u))
    <2>1. Closed(p.walk.id, s.u.pend, x, q, Told(box, u))
      BY <1>1, <1>8 DEF Explained
    <2>2. s.u.pend \subseteq pend /\ pend \subseteq s.u.pend \cup {m.id} /\ m.id \in pend \cup {0}
      BY <1>3
    <2> QED
      BY <1>1, <1>2, <1>8, <2>1, <2>2, HeadClosed
  <1>10. Agreed(p, x, q, Told(Tail(box), u))
    <2>1. Agreed(p, x, q, Told(box, u))
      BY <1>1, <1>8 DEF Explained, Agreed, Busy, Held, Writes, Overwrites, Holds, Fails
    <2>2. \A y \in Told(box, u) : y = Head(box) \/ y \in Told(Tail(box), u)
      BY <1>1, TailTold
    <2>3. Fails(p, Told(box, u)) => Fails(p, Told(Tail(box), u))
      BY <2>2 DEF Fails, Says
    <2> QED
      BY <2>1, <2>3 DEF Agreed
  <1>11. Placed(p, x, q, Told(Tail(box), u))
    BY <1>8 DEF Placed
  <1>12. Housed(p, x.host, q, Tail(box), u)
    <2>1. Housed(p, x.host, q, box, u)
      BY <1>1, <1>8, HousedAlike DEF Explained
    <2> QED
      BY <1>1, <2>1, HeadHoused
  <1> QED
    BY <1>1, <1>2, <1>4, <1>7, <1>9, <1>10, <1>11, <1>12 DEF Explained

LEMMA FlushFailedExplained ==
    ASSUME NEW s, NEW x, NEW q, NEW box, NEW u, Opening(s, x, q, box, u), Head(box).k = "FlushFailed",
           NEW r, r = [s EXCEPT !.u.dirty = TRUE]
    PROVE  Explained(r.u, x, Line(q, r.out), Tail(box), u)
  <1>1. /\ Plain(s) /\ s.u \in Memory
        /\ q \in Seq(Item) /\ box \in Seq(Sent) /\ box # <<>> /\ Head(box).u = u
        /\ Explained(s.u, x, q, box, u) /\ Line(q, s.out) = q
    BY Steady DEF Opening
  <1>2. PICK p : p = [s.u EXCEPT !.dirty = TRUE]
    OBVIOUS
  <1>3. r.u = p /\ r.out = s.out
    BY <1>1, <1>2 DEF Plain, Steps
  <1>4. /\ p.status = s.u.status /\ p.at = s.u.at /\ p.walk = s.u.walk /\ p.task = s.u.task
        /\ p.inside = s.u.inside /\ p.dirty = TRUE /\ p.pend = s.u.pend
    BY <1>1, <1>2 DEF Memory
  <1>5. Explained(p, x, q, box, u)
    BY <1>1, <1>4, ExplainedAlike
  <1>6. \A y \in Told(box, u) : y = Head(box) \/ y \in Told(Tail(box), u)
    BY <1>1, TailTold
  <1>7. Fails(p, Told(box, u)) => Fails(p, Told(Tail(box), u))
    BY <1>6 DEF Fails, Says
  <1>8. Explained(p, x, q, Tail(box), u)
    BY <1>1, <1>4, <1>5, <1>7, HeadGone
  <1> QED
    BY <1>1, <1>3, <1>8

LEMMA HandleUntangled ==
    ASSUME Inv, Untangled, NEW from \in Tile, Handle(from)
    PROVE  Untangled'
  <1>1. TypeInv /\ inbox \in Seq(Sent) /\ inbox # <<>> /\ Len(inbox) <= InboxSize
    BY DEF Inv, TypeInv, InboxType, Handle
  <1>2. PICK m \in Sent : m = Head(inbox)
    BY <1>1, Shifted
  <1>3. PICK u \in Unit : u = m.u
    BY DEF Sent, Messages
  <1>4. PICK box \in Seq(Sent) : box = Tail(inbox) /\ Len(box) <= InboxSize
    <2>1. Tail(inbox) \in Seq(Sent) /\ Len(inbox) \in Nat /\ Len(Tail(inbox)) = Len(inbox) - 1
      BY <1>1, Shifted
    <2>2. Len(Tail(inbox)) <= InboxSize
      BY <1>1, <2>1, ConstantsAssumption
    <2> QED
      BY <2>1, <2>2
  <1>5. PICK s : s = Step(u)
    OBVIOUS
  <1>6. /\ Plain(s) /\ Story(s.u) /\ s.u = ram[u] /\ s.out = <<>> /\ s.n # s.u.walk.id
        /\ queue[u] \in Seq(Item) /\ Line(queue[u], s.out) = queue[u]
    BY <1>5, Started
  <1>7. Clean(u) => Opening(s, row[u], queue[u], inbox, u)
    <2>1. Clean(u) => /\ Sound(s, s.u.walk.id, row[u], queue[u], inbox, u)
                      /\ Explained(ram[u], row[u], queue[u], inbox, u)
      BY <1>5, Started
    <2> QED
      BY <1>1, <1>2, <1>3, <1>6, <2>1 DEF Opening
  <1>8. m.k = "Entered" => s.u.entering
    <2>1. m.k = "Entered" => AnswerIn(inbox, u, 1) /\ 1 \in Nat
      BY <1>1, <1>2, <1>3, Shifted DEF AnswerIn
    <2>2. Entry(queue[u], inbox, u, ram[u].entering, lost)
      BY DEF Inv, Entries
    <2> QED
      BY <1>6, <2>1, <2>2 DEF Entry
  <1>9. PICK r : r = Handled(s, m, from)
    OBVIOUS
  <1>10. Apply(u, r, box)
    BY <1>2, <1>3, <1>4, <1>5, <1>9 DEF Handle, Handled
  <1>11. m.k \in {"StartFailed", "FinishFailed", "TaskFailed", "FlushFailed", "Entered", "ExitFailed"}
    BY DEF Sent, Messages
  <1>12. r \in Steps /\ (Clean(u) => Explained(r.u, row[u], Line(queue[u], r.out), box, u))
    <2>1. CASE m.k = "Entered"
      <3>1. r = HandleEntered(s, m) /\ s.u.entering = TRUE
        BY <1>6, <1>8, <1>9, <2>1, Steady DEF Handled, Memory
      <3>2. r \in Steps
        BY <1>6, <2>1, <3>1, HandledEntered DEF Plain
      <3>3. Clean(u) => Explained(r.u, row[u], Line(queue[u], r.out), box, u)
        BY <1>2, <1>4, <1>7, <2>1, <3>1, EnteredExplained
      <3> QED
        BY <3>2, <3>3
    <2>2. CASE m.k = "ExitFailed"
      <3>1. r = HandleExitFailed(s, m, from)
        BY <1>9, <2>2 DEF Handled
      <3>2. r \in Steps
        BY <1>6, <2>2, <3>1, HandledExit DEF Moved, Plain
      <3>3. Clean(u) => Explained(r.u, row[u], Line(queue[u], r.out), box, u)
        BY <1>2, <1>4, <1>7, <2>2, <3>1, ExitFailedExplained
      <3> QED
        BY <3>2, <3>3
    <2>3. CASE m.k = "StartFailed"
      <3>1. r = HandleStartFailed(s, m, from)
        BY <1>9, <2>3 DEF Handled
      <3>2. r \in Steps
        BY <1>6, <3>1, HandledStart DEF Moved, Plain
      <3>3. Clean(u) => Explained(r.u, row[u], Line(queue[u], r.out), box, u)
        BY <1>2, <1>4, <1>7, <2>3, <3>1, StartFailedExplained
      <3> QED
        BY <3>2, <3>3
    <2>4. CASE m.k = "TaskFailed"
      <3>1. r = HandleTaskFailed(s, m, from)
        BY <1>9, <2>4 DEF Handled
      <3>2. r \in Steps
        BY <1>6, <3>1, HandledTask DEF Moved, Plain
      <3>3. Clean(u) => Explained(r.u, row[u], Line(queue[u], r.out), box, u)
        BY <1>2, <1>4, <1>7, <2>4, <3>1, TaskFailedExplained
      <3> QED
        BY <3>2, <3>3
    <2>5. CASE m.k = "FinishFailed"
      <3>1. r = HandleFinishFailed(s, m)
        BY <1>9, <2>5 DEF Handled
      <3>2. r \in Steps
        BY <1>6, <3>1, HandledRest DEF Moved, Plain
      <3>3. Clean(u) => Explained(r.u, row[u], Line(queue[u], r.out), box, u)
        BY <1>2, <1>4, <1>7, <2>5, <3>1, FinishFailedExplained
      <3> QED
        BY <3>2, <3>3
    <2>6. CASE m.k = "FlushFailed"
      <3>1. r = [s EXCEPT !.u.dirty = TRUE]
        BY <1>9, <2>6 DEF Handled
      <3>2. r \in Steps
        BY <1>6, <3>1, HandledRest DEF Moved, Plain
      <3>3. ASSUME Clean(u) PROVE Explained(r.u, row[u], Line(queue[u], r.out), box, u)
        <4>1. Opening(s, row[u], queue[u], inbox, u) /\ Head(inbox).k = "FlushFailed"
          BY <1>2, <1>7, <2>6, <3>3
        <4>2. Explained(r.u, row[u], Line(queue[u], r.out), Tail(inbox), u)
          BY <3>1, <4>1, FlushFailedExplained
        <4> QED
          BY <1>4, <4>2
      <3> QED
        BY <3>2, <3>3
    <2> QED
      BY <1>11, <2>1, <2>2, <2>3, <2>4, <2>5, <2>6
  <1>13. \A v \in Unit \ {u} : Clean(v) => Explained(ram[v], row[v], queue[v], box, v)
    <2> SUFFICES ASSUME NEW v \in Unit, v # u, Clean(v) PROVE Explained(ram[v], row[v], queue[v], box, v)
      OBVIOUS
    <2>1. Explained(ram[v], row[v], queue[v], inbox, v) /\ Head(inbox).u # v
      BY <1>2, <1>3 DEF Untangled
    <2> QED
      BY <1>1, <1>4, <2>1, TailExplained
  <1> QED
    BY <1>1, <1>4, <1>10, <1>12, <1>13, AppliedExplained

-----------------------------------------------------------------------------
(* Jobs written.                                                           *)

LEMMA WrittenWalk ==
    ASSUME NEW x \in Rows, NEW j \in Job, NEW treaty
    PROVE  LET x2 == Written(x, j, treaty)
           IN \/ x2.walk.id = 0 \/ x2.walk.id = OpenedBy(j)
              \/ x2.walk = x.walk /\ (x.walk.id # 0 => ~Ends(j, x.walk.id))
  <1>1. PICK x2 : x2 = Written(x, j, treaty)
    OBVIOUS
  <1>2. ASSUME NEW id PROVE Close(x, id) \in Rows /\ (Close(x, id).walk = NoWalk \/ (Close(x, id).walk = x.walk /\ ~(id # 0 /\ x.walk.id = id)))
    <2>1. PICK y : y = [x EXCEPT !.walk = NoWalk]
      OBVIOUS
    <2>2. y \in Rows /\ y.walk = NoWalk
      BY <2>1, Nothing DEF Rows
    <2> QED
      BY <2>1, <2>2 DEF Close
  <1>3. CASE j.k = "Start"
    <2>1. x2.walk = [id |-> j.id, to |-> j.to]
      BY <1>1, <1>3 DEF Written, PersistMovementStart, Rows
    <2> QED
      BY <1>1, <1>3, <2>1 DEF OpenedBy
  <1>4. CASE j.k = "Finish"
    <2>1. PICK y : y = Close(x, j.id)
      OBVIOUS
    <2>2. y \in Rows /\ (y.walk = NoWalk \/ (y.walk = x.walk /\ ~(j.id # 0 /\ x.walk.id = j.id)))
      BY <1>2, <2>1
    <2>3. x2.walk = y.walk
      BY <1>1, <1>4, <2>1, <2>2 DEF Written, PersistMovementFinish, Rows
    <2> QED
      BY <1>1, <1>4, <2>2, <2>3, Nothing DEF Ends
  <1>5. CASE j.k = "Task"
    <2>1. PICK y : y = Close(x, j.fin)
      OBVIOUS
    <2>2. y.walk = NoWalk \/ (y.walk = x.walk /\ ~(j.fin # 0 /\ x.walk.id = j.fin))
      BY <1>2, <2>1
    <2>3. x2.walk = IF j.leg # NoWalk THEN j.leg ELSE y.walk
      BY <1>1, <1>5, <2>1 DEF Written, PersistTask, Rows
    <2> QED
      BY <1>1, <1>5, <2>2, <2>3, Nothing DEF Ends, OpenedBy
  <1>6. CASE j.k \in {"Flush", "Leave"}
    <2>1. x2.walk = x.walk
      BY <1>1, <1>6 DEF Written, LeaveCity, Rows
    <2> QED
      BY <1>1, <1>6, <2>1 DEF Ends
  <1>7. CASE j.k = "Enter"
    <2>1. x2.walk = x.walk \/ x2.walk = NoWalk
      BY <1>1, <1>7 DEF Written, EnterCity, Rows
    <2> QED
      BY <1>1, <1>7, <2>1, Nothing DEF Ends
  <1> QED
    BY <1>3, <1>4, <1>5, <1>6, <1>7, Kinds

LEMMA PoppedClosed ==
    ASSUME NEW q, NEW p, NEW g, Popped(q, p, g), NEW T, NEW T2, Answered(T, T2), NEW w, NEW pend,
           NEW x \in Rows, NEW x2, NEW treaty, q[1].job \in Job, x2 = Written(x, q[1].job, treaty), Closed(w, pend, x, q, T)
    PROVE  Closed(w, pend, x2, p, T2)
  <1>1. \A id : Says(T, "FinishFailed", id) <=> Says(T2, "FinishFailed", id)
    BY DEF Says, Answered
  <1>2. ASSUME NEW id, ~Closing(id, pend, q, T, 0) PROVE ~Closing(id, pend, p, T2, 0)
    <2>1. \A i \in DOMAIN p : g[i] \in DOMAIN q /\ g[i] > 0 /\ p[i].job = q[g[i]].job
      BY DEF Popped
    <2> QED
      BY <1>1, <1>2, <2>1 DEF Closing
  <1>3. ASSUME NEW id, Closing(id, pend, q, T, 0), ~Ends(q[1].job, id) PROVE Closing(id, pend, p, T2, 0)
    <2>1. ASSUME NEW k \in DOMAIN q, Ends(q[k].job, id) PROVE Closing(id, pend, p, T2, 0)
      <3>1. k # 1
        BY <1>3, <2>1
      <3>2. PICK i \in DOMAIN p : g[i] = k /\ i > 0
        BY <3>1 DEF Popped
      <3> QED
        BY <2>1, <3>2 DEF Closing, Popped
    <2> QED
      BY <1>1, <1>3, <2>1 DEF Closing
  <1>4. ASSUME NEW id, Closing(id, pend, q, T, 1) PROVE Closing(id, pend, p, T2, 0)
    <2>1. ASSUME NEW k \in DOMAIN q, k > 1, Ends(q[k].job, id) PROVE Closing(id, pend, p, T2, 0)
      <3>1. PICK i \in DOMAIN p : g[i] = k /\ i > 0
        BY <2>1 DEF Popped
      <3> QED
        BY <2>1, <3>1 DEF Closing, Popped
    <2> QED
      BY <1>1, <1>4, <2>1 DEF Closing
  <1>5. ASSUME NEW i \in DOMAIN p, NEW id, Closing(id, pend, q, T, g[i]) PROVE Closing(id, pend, p, T2, i)
    <2>1. ASSUME NEW k \in DOMAIN q, k > g[i], Ends(q[k].job, id) PROVE Closing(id, pend, p, T2, i)
      <3>1. g[i] \in Nat \ {0} /\ k \in Nat
        BY DEF Popped
      <3>2. k # 1
        BY <2>1, <3>1
      <3>3. PICK n \in DOMAIN p : g[n] = k
        BY <3>2 DEF Popped
      <3>4. n > i
        BY <2>1, <3>3 DEF Popped
      <3> QED
        BY <2>1, <3>3, <3>4 DEF Closing, Popped
    <2> QED
      BY <1>1, <1>5, <2>1 DEF Closing
  <1>6. x2.walk.id \notin {0, w} => Closing(x2.walk.id, pend, p, T2, 0)
    <2>1. \/ x2.walk.id = 0 \/ x2.walk.id = OpenedBy(q[1].job)
          \/ x2.walk = x.walk /\ (x.walk.id # 0 => ~Ends(q[1].job, x.walk.id))
      BY WrittenWalk
    <2>2. OpenedBy(q[1].job) \notin {0, w} => Closing(OpenedBy(q[1].job), pend, q, T, 1)
      BY DEF Closed, Popped
    <2>3. x.walk.id \notin {0, w} => Closing(x.walk.id, pend, q, T, 0)
      BY DEF Closed
    <2> QED
      BY <1>3, <1>4, <2>1, <2>2, <2>3
  <1>7. ASSUME NEW i \in DOMAIN p, OpenedBy(p[i].job) \notin {0, w} PROVE Closing(OpenedBy(p[i].job), pend, p, T2, i)
    <2>1. p[i].job = q[g[i]].job /\ g[i] \in DOMAIN q
      BY DEF Popped
    <2>2. Closing(OpenedBy(p[i].job), pend, q, T, g[i])
      BY <1>7, <2>1 DEF Closed
    <2> QED
      BY <1>5, <2>2
  <1>8. w # 0 => ~Closing(w, pend, p, T2, 0)
    BY <1>2 DEF Closed
  <1> QED
    BY <1>6, <1>7, <1>8 DEF Closed

\* The job that writes the walk and the task of a unit leaves them in its rows.
LEMMA WritesHolds ==
    ASSUME NEW x \in Rows, NEW j \in Job, NEW treaty, NEW m \in Memory, Story(m), Writes(m, j)
    PROVE  Holds(m, Written(x, j, treaty))
  <1>1. PICK x2 : x2 = Written(x, j, treaty)
    OBVIOUS
  <1>2. CASE Held(m)
    <2>1. j.k = "Task" /\ j.task = m.task /\ j \in TaskJobs
      BY <1>2, Kinds DEF Writes
    <2>2. PICK y : y = Close(x, j.fin)
      OBVIOUS
    <2>3. x2.task = j.task /\ x2.walk = IF j.leg # NoWalk THEN j.leg ELSE y.walk
      BY <1>1, <2>1, <2>2 DEF Written, PersistTask, Rows
    <2>4. ASSUME IsLeg(m.task) PROVE x2.walk = m.walk
      <3>1. m.task \in Task /\ m.task # NoTask /\ m.task.rev # 0
        BY <2>4, Nothing DEF Memory, Task
      <3>2. j.leg = LegOf(m.task) /\ m.walk = LegOf(m.task)
        BY <2>1, <2>4 DEF TaskJobs, Story
      <3>3. LegOf(m.task).id # 0
        BY <3>1 DEF LegOf
      <3>4. j.leg # NoWalk
        BY <3>2, <3>3, Nothing
      <3> QED
        BY <2>3, <3>2, <3>4
    <2> QED
      BY <1>1, <1>2, <2>1, <2>3, <2>4 DEF Holds
  <1>3. CASE ~Held(m)
    <2>1. j.k = "Start" /\ m.walk = [id |-> j.id, to |-> j.to]
      BY <1>3 DEF Writes
    <2>2. x2.task = NoTask /\ x2.walk = [id |-> j.id, to |-> j.to]
      BY <1>1, <2>1 DEF Written, PersistMovementStart, Rows
    <2> QED
      BY <1>1, <1>3, <2>1, <2>2, Nothing DEF Holds
  <1> QED
    BY <1>2, <1>3

\* A job that does not write them, nor closes the walk, leaves them as they were.
LEMMA HoldsKept ==
    ASSUME NEW x \in Rows, NEW j \in Job, NEW treaty, NEW m \in Memory, Story(m), Busy(m), Holds(m, x), ~Overwrites(m, j),
           m.walk.id # 0 => ~Ends(j, m.walk.id)
    PROVE  Holds(m, Written(x, j, treaty))
  <1>1. PICK x2 : x2 = Written(x, j, treaty)
    OBVIOUS
  <1>2. j.k \in {"Finish", "Flush", "Leave"}
    BY Kinds DEF Overwrites
  <1>3. CASE j.k \in {"Flush", "Leave"}
    <2>1. x2.walk = x.walk /\ x2.task = x.task
      BY <1>1, <1>3 DEF Written, LeaveCity, Rows
    <2> QED
      BY <1>1, <2>1 DEF Holds
  <1>4. CASE j.k = "Finish"
    <2>1. PICK y : y = Close(x, j.id)
      OBVIOUS
    <2>2. PICK c : c = [x EXCEPT !.walk = NoWalk]
      OBVIOUS
    <2>3. c \in Rows /\ c.task = x.task
      BY <2>2, Nothing DEF Rows
    <2>4. y \in Rows /\ y.task = x.task /\ (~(j.id # 0 /\ x.walk.id = j.id) => y = x)
      BY <2>1, <2>2, <2>3 DEF Close
    <2>5. x2.walk = y.walk /\ x2.task = IF j.whole THEN NoTask ELSE y.task
      BY <1>1, <1>4, <2>1, <2>4 DEF Written, PersistMovementFinish, Rows
    <2>6. ASSUME x.walk = m.walk PROVE x2.walk = m.walk
      <3>1. ~(j.id # 0 /\ x.walk.id = j.id)
        BY <1>4, <2>6 DEF Ends
      <3> QED
        BY <2>4, <2>5, <2>6, <3>1
    <2>7. CASE Held(m)
      <3>1. ~j.whole
        BY <1>4, <2>7 DEF Overwrites
      <3>2. x2.task = x.task
        BY <2>4, <2>5, <3>1
      <3> QED
        BY <1>1, <2>6, <2>7, <3>2 DEF Holds
    <2>8. CASE ~Held(m)
      <3>1. x.walk = m.walk /\ ~IsLeg(x.task)
        BY <2>8 DEF Holds
      <3>2. ~IsLeg(x2.task)
        BY <2>4, <2>5, <3>1, Nothing
      <3> QED
        BY <1>1, <2>6, <2>8, <3>1, <3>2 DEF Holds
    <2> QED
      BY <2>7, <2>8
  <1> QED
    BY <1>2, <1>3, <1>4

LEMMA PoppedAgreed ==
    ASSUME NEW q, NEW p, NEW g, Popped(q, p, g), NEW T, NEW T2, Answered(T, T2), NEW m \in Memory, Story(m),
           NEW x \in Rows, NEW x2, NEW treaty, q[1].job \in Job, x2 = Written(x, q[1].job, treaty),
           Closed(m.walk.id, m.pend, x, q, T), Agreed(m, x, q, T)
    PROVE  Agreed(m, x2, p, T2)
  <1> SUFFICES ASSUME Busy(m) PROVE Agreed(m, x2, p, T2)
    BY DEF Agreed
  <1>1. CASE Fails(m, T)
    <2>1. Fails(m, T2)
      BY <1>1 DEF Fails, Says, Answered
    <2> QED
      BY <2>1 DEF Agreed
  <1>2. CASE Holds(m, x) /\ \A k \in DOMAIN q : ~Overwrites(m, q[k].job)
    <2>1. \A k \in DOMAIN p : ~Overwrites(m, p[k].job)
      BY <1>2 DEF Popped
    <2>2. ~Overwrites(m, q[1].job)
      BY <1>2 DEF Popped
    <2>3. m.walk.id # 0 => ~Ends(q[1].job, m.walk.id)
      <3>1. 1 \in DOMAIN q /\ 1 > 0
        BY DEF Popped
      <3> QED
        BY <3>1 DEF Closed, Closing
    <2>4. Holds(m, x2)
      BY <1>2, <2>2, <2>3, HoldsKept
    <2> QED
      BY <2>1, <2>4 DEF Agreed
  <1>3. ASSUME NEW i \in DOMAIN q, Writes(m, q[i].job), \A k \in DOMAIN q : k > i => ~Overwrites(m, q[k].job)
        PROVE  Agreed(m, x2, p, T2)
    <2>1. CASE \E n \in DOMAIN p : g[n] = i
      <3>1. PICK n \in DOMAIN p : g[n] = i
        BY <2>1
      <3>2. Writes(m, p[n].job)
        BY <3>1, <1>3 DEF Popped
      <3>3. ASSUME NEW k \in DOMAIN p, k > n PROVE ~Overwrites(m, p[k].job)
        <4>1. g[k] > g[n] /\ g[k] \in DOMAIN q /\ p[k].job = q[g[k]].job
          BY <3>3 DEF Popped
        <4> QED
          BY <4>1, <3>1, <1>3
      <3> QED
        BY <3>2, <3>3 DEF Agreed
    <2>2. CASE ~\E n \in DOMAIN p : g[n] = i
      <3>1. i = 1
        BY <2>2 DEF Popped
      <3>2. Holds(m, x2)
        BY <1>3, <3>1, WritesHolds
      <3>3. ASSUME NEW k \in DOMAIN p PROVE ~Overwrites(m, p[k].job)
        <4>1. g[k] # 1 /\ g[k] \in DOMAIN q /\ p[k].job = q[g[k]].job /\ g[k] \in Nat \ {0}
          BY <2>2, <3>1 DEF Popped
        <4>2. g[k] > i
          BY <3>1, <4>1
        <4> QED
          BY <4>1, <4>2, <1>3
      <3> QED
        BY <3>2, <3>3 DEF Agreed
    <2> QED
      BY <2>1, <2>2
  <1> QED
    BY <1>1, <1>2, <1>3 DEF Agreed

LEMMA PoppedPlaced ==
    ASSUME NEW q, NEW p, NEW g, Popped(q, p, g), NEW T, NEW T2, Answered(T, T2), NEW m,
           NEW x \in Rows, NEW x2, NEW treaty, q[1].job \in Job, x2 = Written(x, q[1].job, treaty),
           q[1].job.k = "Enter" => m.status # "WORKING", Placed(m, x, q, T)
    PROVE  Placed(m, x2, p, T2)
  <1> SUFFICES ASSUME m.walk = NoWalk, ~m.dirty, \A y \in T2 : y.k \notin {"FlushFailed", "FinishFailed"}
               PROVE  Placed(m, x2, p, T2)
    BY DEF Placed
  <1>0. \A y \in T : y.k \notin {"FlushFailed", "FinishFailed"}
    BY DEF Answered
  <1>1. PICK j \in Job : j = q[1].job
    OBVIOUS
  <1>2. ASSUME NEW id PROVE LET y == Close(x, id) IN y \in Rows /\ y.at = x.at /\ y.status = x.status
    <2>1. PICK c : c = [x EXCEPT !.walk = NoWalk]
      OBVIOUS
    <2>2. c \in Rows /\ c.at = x.at /\ c.status = x.status
      BY <2>1, Nothing DEF Rows
    <2> QED
      BY <2>1, <2>2 DEF Close
  <1>3. CASE At(m, x.at, x.status) /\ \A k \in DOMAIN q : ~Displaces(q[k].job)
    <2>1. \A k \in DOMAIN p : ~Displaces(p[k].job)
      BY <1>3 DEF Popped
    <2>2. ~Displaces(j)
      BY <1>1, <1>3 DEF Popped
    <2>3. (j.k = "Finish" /\ ~j.whole) \/ j.k = "Enter"
      BY <2>2, Kinds DEF Displaces
    <2>4. CASE j.k = "Finish" /\ ~j.whole
      <3>1. x2 = Close(x, j.id)
        BY <1>1, <2>4 DEF Written, PersistMovementFinish
      <3>2. x2.at = x.at /\ x2.status = x.status
        BY <1>2, <3>1
      <3> QED
        BY <1>3, <2>1, <3>2 DEF Placed
    <2>5. CASE j.k = "Enter"
      <3>1. x2.at = x.at /\ x2.status \in {x.status, "GARRISONED"}
        BY <1>1, <2>5 DEF Written, EnterCity, Rows
      <3>2. At(m, x2.at, x2.status)
        BY <1>1, <1>3, <2>5, <3>1 DEF At
      <3> QED
        BY <2>1, <3>2 DEF Placed
    <2> QED
      BY <2>3, <2>4, <2>5
  <1>4. ASSUME NEW i \in DOMAIN q, Places(m, q[i].job), \A k \in DOMAIN q : k > i => ~Displaces(q[k].job)
        PROVE  Placed(m, x2, p, T2)
    <2>1. CASE \E n \in DOMAIN p : g[n] = i
      <3>1. PICK n \in DOMAIN p : g[n] = i
        BY <2>1
      <3>2. Places(m, p[n].job)
        BY <3>1, <1>4 DEF Popped
      <3>3. ASSUME NEW k \in DOMAIN p, k > n PROVE ~Displaces(p[k].job)
        <4>1. g[k] > g[n] /\ g[k] \in DOMAIN q /\ p[k].job = q[g[k]].job
          BY <3>3 DEF Popped
        <4> QED
          BY <4>1, <3>1, <1>4
      <3> QED
        BY <3>2, <3>3 DEF Placed
    <2>2. CASE ~\E n \in DOMAIN p : g[n] = i
      <3>1. i = 1 /\ Places(m, j)
        BY <1>1, <1>4, <2>2 DEF Popped
      <3>2. At(m, x2.at, x2.status)
        <4>1. CASE j.k = "Flush" /\ At(m, j.at, j.status)
          <5>1. x2.at = j.at /\ x2.status = j.status
            BY <1>1, <4>1 DEF Written, Rows
          <5> QED
            BY <4>1, <5>1
        <4>2. CASE j.k = "Finish" /\ j.whole /\ At(m, j.at, "IDLE")
          <5>1. PICK y : y = Close(x, j.id)
            OBVIOUS
          <5>2. x2 = [y EXCEPT !.task = NoTask, !.status = "IDLE", !.at = j.at] /\ y \in Rows
            BY <1>1, <1>2, <4>2, <5>1 DEF Written, PersistMovementFinish
          <5>3. x2.at = j.at /\ x2.status = "IDLE"
            BY <5>2 DEF Rows
          <5> QED
            BY <4>2, <5>3
        <4> QED
          BY <3>1, <4>1, <4>2 DEF Places
      <3>3. ASSUME NEW k \in DOMAIN p PROVE ~Displaces(p[k].job)
        <4>1. g[k] # 1 /\ g[k] \in DOMAIN q /\ p[k].job = q[g[k]].job /\ g[k] \in Nat \ {0}
          BY <2>2, <3>1 DEF Popped
        <4>2. g[k] > i
          BY <3>1, <4>1
        <4> QED
          BY <4>1, <4>2, <1>4
      <3> QED
        BY <3>2, <3>3 DEF Placed
    <2> QED
      BY <2>1, <2>2
  <1> QED
    BY <1>0, <1>3, <1>4 DEF Placed

LEMMA WrittenHost ==
    ASSUME NEW x \in Rows, NEW j \in Job, NEW treaty
    PROVE  Written(x, j, treaty).host = CASE j.k = "Enter" -> (IF x.host = NoCity /\ Enters(x, j.city, treaty) THEN j.city ELSE x.host)
                                          [] j.k = "Leave" -> NoCity
                                          [] OTHER -> x.host
  <1>1. PICK x2 : x2 = Written(x, j, treaty)
    OBVIOUS
  <1>2. ASSUME NEW id PROVE Close(x, id) \in Rows /\ Close(x, id).host = x.host
    <2>1. PICK c : c = [x EXCEPT !.walk = NoWalk]
      OBVIOUS
    <2>2. c \in Rows /\ c.host = x.host
      BY <2>1, Nothing DEF Rows
    <2> QED
      BY <2>1, <2>2 DEF Close
  <1>3. CASE j.k = "Start"
    BY <1>3 DEF Written, PersistMovementStart, Rows
  <1>4. CASE j.k = "Finish"
    <2>1. PICK y : y = Close(x, j.id)
      OBVIOUS
    <2>2. x2.host = y.host
      BY <1>1, <1>2, <1>4, <2>1 DEF Written, PersistMovementFinish, Rows
    <2> QED
      BY <1>1, <1>2, <1>4, <2>1, <2>2
  <1>5. CASE j.k = "Task"
    BY <1>5 DEF Written, PersistTask, Rows
  <1>6. CASE j.k = "Flush"
    BY <1>6 DEF Written, Rows
  <1>7. CASE j.k = "Enter"
    BY <1>7 DEF Written, EnterCity, Rows
  <1>8. CASE j.k = "Leave"
    BY <1>8 DEF Written, LeaveCity, Rows
  <1> QED
    BY <1>3, <1>4, <1>5, <1>6, <1>7, <1>8, Kinds

\* The entries and the exits of p are those of q, the head perhaps aside.
LEMMA PoppedDoors ==
    ASSUME NEW q, NEW p, NEW g, Popped(q, p, g)
    PROVE  /\ \A i \in Nat : LeaveIn(p, i) => g[i] \in Nat /\ LeaveIn(q, g[i]) /\ (IF g[i] = 1 THEN p[i].done ELSE p[i] = q[g[i]]) /\ p[i].job = q[g[i]].job
           /\ \A i \in Nat : EnterIn(p, i) => g[i] \in Nat /\ EnterIn(q, g[i]) /\ (IF g[i] = 1 THEN p[i].done ELSE p[i] = q[g[i]]) /\ p[i].job = q[g[i]].job
           /\ \A n \in Nat : LeaveIn(q, n) => n = 1 \/ \E i \in Nat : LeaveIn(p, i) /\ g[i] = n
           /\ \A n \in Nat : EnterIn(q, n) => n = 1 \/ \E i \in Nat : EnterIn(p, i) /\ g[i] = n
           /\ \A i, k \in Nat : (LeaveIn(p, i) \/ EnterIn(p, i)) /\ (LeaveIn(p, k) \/ EnterIn(p, k)) =>
                /\ i < k <=> g[i] < g[k]
                /\ g[i] = g[k] => i = k
  <1>1. \A i \in Nat : LeaveIn(p, i) \/ EnterIn(p, i) => i \in DOMAIN p /\ g[i] \in DOMAIN q /\ g[i] \in Nat
    BY DEF LeaveIn, EnterIn, Popped
  <1>2. \A i \in Nat : LeaveIn(p, i) => LeaveIn(q, g[i])
    BY <1>1 DEF LeaveIn, Popped
  <1>3. \A i \in Nat : EnterIn(p, i) => EnterIn(q, g[i])
    BY <1>1 DEF EnterIn, Popped
  <1>4. \A i \in DOMAIN p : (IF g[i] = 1 THEN p[i].done ELSE p[i] = q[g[i]]) /\ p[i].job = q[g[i]].job
    BY DEF Popped
  <1>5. \A n \in Nat : n \in DOMAIN q => n = 1 \/ \E i \in Nat : i \in DOMAIN p /\ g[i] = n /\ p[i].job = q[n].job
    BY DEF Popped
  <1>6. \A i, k \in DOMAIN p : i \in Nat /\ k \in Nat /\ g[i] \in Nat /\ g[k] \in Nat /\ (i < k <=> g[i] < g[k])
    BY DEF Popped
  <1>7. ASSUME NEW i \in DOMAIN p, NEW k \in DOMAIN p, g[i] = g[k] PROVE i = k
    <2>1. ~(i < k) /\ ~(k < i) /\ i \in Nat /\ k \in Nat
      BY <1>6, <1>7
    <2> QED
      BY <2>1
  <1>8. \A n \in Nat : LeaveIn(q, n) => n = 1 \/ \E i \in Nat : LeaveIn(p, i) /\ g[i] = n
    BY <1>5 DEF LeaveIn
  <1>9. \A n \in Nat : EnterIn(q, n) => n = 1 \/ \E i \in Nat : EnterIn(p, i) /\ g[i] = n
    BY <1>5 DEF EnterIn
  <1> QED
    BY <1>1, <1>2, <1>3, <1>4, <1>6, <1>7, <1>8, <1>9

\* A job that is neither an entry nor an exit.
LEMMA PoppedHoused ==
    ASSUME NEW q, NEW p, NEW g, Popped(q, p, g), NEW m, NEW h, NEW box, NEW u, Housed(m, h, q, box, u),
           q[1].job.k \notin {"Enter", "Leave"}
    PROVE  Housed(m, h, p, box, u)
  <1>1. ~LeaveIn(q, 1) /\ ~EnterIn(q, 1)
    BY DEF LeaveIn, EnterIn
  <1>2. \A i \in Nat : LeaveIn(p, i) => g[i] \in Nat /\ LeaveIn(q, g[i]) /\ p[i] = q[g[i]]
    BY <1>1, PoppedDoors
  <1>3. \A i \in Nat : EnterIn(p, i) => g[i] \in Nat /\ EnterIn(q, g[i]) /\ p[i] = q[g[i]]
    BY <1>1, PoppedDoors
  <1>4. \A n \in Nat : LeaveIn(q, n) => \E i \in Nat : LeaveIn(p, i)
    BY <1>1, PoppedDoors
  <1>5. \A n \in Nat : EnterIn(q, n) => \E i \in Nat : EnterIn(p, i) /\ g[i] = n
    BY <1>1, PoppedDoors
  <1>6. \A i, k \in Nat : (LeaveIn(p, i) \/ EnterIn(p, i)) /\ (LeaveIn(p, k) \/ EnterIn(p, k)) =>
                /\ i < k <=> g[i] < g[k]
                /\ g[i] = g[k] => i = k
    BY PoppedDoors
  <1>7. OneExit(p, box, u)
    <2>1. OneExit(q, box, u)
      BY DEF Housed
    <2>2. \A i, j \in Nat : LeaveIn(p, i) /\ LeaveIn(p, j) => i = j
      BY <1>2, <1>6, <2>1 DEF OneExit
    <2>3. \A i, j \in Nat : ~(LeaveIn(p, i) /\ ExitIn(box, u, j))
      BY <1>2, <2>1 DEF OneExit
    <2> QED
      BY <2>1, <2>2, <2>3 DEF OneExit
  <1>8. Inside(m, h, p, box, u) /\ Welcomed(h, p, box, u)
    BY <1>2 DEF Housed, Inside, Welcomed
  <1>9. Leaving(h, p, box, u)
    <2>1. Leaving(h, q, box, u)
      BY DEF Housed
    <2>2. ASSUME NEW i \in Nat, LeaveIn(p, i)
          PROVE  h = (IF p[i].done THEN NoCity ELSE p[i].job.city) /\ \A j \in Nat : EnterIn(p, j) => i < j /\ ~p[j].done
      <3>1. g[i] \in Nat /\ LeaveIn(q, g[i]) /\ p[i] = q[g[i]]
        BY <1>2, <2>2
      <3>2. h = (IF p[i].done THEN NoCity ELSE p[i].job.city) /\ \A j \in Nat : EnterIn(q, j) => g[i] < j /\ ~q[j].done
        BY <2>1, <3>1 DEF Leaving
      <3>3. ASSUME NEW j \in Nat, EnterIn(p, j) PROVE i < j /\ ~p[j].done
        BY <1>3, <1>6, <2>2, <3>2, <3>3
      <3> QED
        BY <3>2, <3>3
    <2> QED
      BY <2>1, <2>2 DEF Leaving
  <1>10. Outside(m, h, p, box, u)
    <2>1. ASSUME NEW n \in Nat, EnterIn(q, n), q[n].done, h = q[n].job.city
          PROVE  \E i \in Nat : EnterIn(p, i) /\ p[i].done /\ h = p[i].job.city
      <3>1. PICK i \in Nat : EnterIn(p, i) /\ g[i] = n
        BY <1>5, <2>1
      <3>2. p[i] = q[n]
        BY <1>3, <3>1
      <3> QED
        BY <2>1, <3>1, <3>2
    <2>2. Outside(m, h, q, box, u)
      BY DEF Housed
    <2> QED
      BY <1>4, <2>1, <2>2 DEF Outside
  <1> QED
    BY <1>7, <1>8, <1>9, <1>10 DEF Housed

\* An exit.
LEMMA PoppedLeaves ==
    ASSUME NEW q, NEW p, NEW g, Popped(q, p, g), NEW m, NEW h, NEW box, NEW u, Housed(m, h, q, box, u),
           q[1].job.k = "Leave"
    PROVE  Housed(m, NoCity, p, box, u)
  <1>1. LeaveIn(q, 1) /\ 1 \in Nat
    BY DEF LeaveIn, Popped
  <1>2. \A i \in Nat : LeaveIn(q, i) => i = 1
    BY <1>1 DEF Housed, OneExit
  <1>3. \A i \in Nat : ~ExitIn(box, u, i) /\ ~YesIn(box, u, i)
    BY <1>1 DEF Housed, OneExit, Welcomed
  <1>4. m.status # "GARRISONED"
    BY <1>1 DEF Housed, Inside
  <1>5. \A j \in Nat : EnterIn(q, j) => 1 < j /\ ~q[j].done
    BY <1>1 DEF Housed, Leaving
  <1>6. \A i \in Nat : LeaveIn(p, i) => g[i] = 1 /\ p[i].done
    BY <1>2, PoppedDoors
  <1>7. \A i, k \in Nat : LeaveIn(p, i) /\ LeaveIn(p, k) => i = k
    BY <1>6, PoppedDoors
  <1>8. ASSUME NEW i \in Nat, LeaveIn(p, i), NEW k \in Nat, EnterIn(p, k) PROVE i < k /\ ~p[k].done
    <2>1. g[k] \in Nat /\ EnterIn(q, g[k]) /\ (IF g[k] = 1 THEN p[k].done ELSE p[k] = q[g[k]])
      BY <1>8, PoppedDoors
    <2>2. 1 < g[k] /\ ~q[g[k]].done
      BY <1>5, <2>1
    <2>3. p[k] = q[g[k]]
      BY <2>1, <2>2
    <2>4. g[i] < g[k]
      BY <1>6, <1>8, <2>2
    <2>5. i < k
      BY <1>8, <2>4, PoppedDoors
    <2> QED
      BY <2>2, <2>3, <2>5
  <1> QED
    BY <1>3, <1>4, <1>6, <1>7, <1>8 DEF Housed, OneExit, Inside, Welcomed, Leaving, Outside

\* An entry: the row of the unit is in its city from then on, or already was elsewhere.
Enrolled(h, c, treaty) == IF h = NoCity /\ (c = Own \/ treaty) THEN c ELSE h

LEMMA EntryAlone ==
    ASSUME NEW q, 1 \in DOMAIN q, q[1].job.k = "Enter", NEW box, NEW u, NEW e, NEW l, Entry(q, box, u, e, l)
    PROVE  e /\ \A i \in Nat : (EnterIn(q, i) => i = 1) /\ ~AnswerIn(box, u, i)
  <1>1. EnterIn(q, 1) /\ 1 \in Nat
    BY DEF EnterIn
  <1> QED
    BY <1>1 DEF Entry

Entering(q, p, g, c, m, h, box, u) ==
  /\ Popped(q, p, g) /\ q[1].job.k = "Enter" /\ c = q[1].job.city /\ c # NoCity
  /\ m.status = "GARRISONED" => m.inside # NoCity
  /\ box \in Seq(Sent) /\ Housed(m, h, q, box, u)
  /\ \A i \in Nat : (EnterIn(q, i) => i = 1) /\ ~AnswerIn(box, u, i)
Heard(p, g, c, h, treaty, box, box2, u) ==
  /\ box2 \in Seq(Sent) /\ Begins(box, box2)
  /\ \/ box2 = box /\ treaty /\ \E i \in Nat : EnterIn(p, i) /\ g[i] = 1
     \/ /\ Len(box2) = Len(box) + 1 /\ box2[Len(box2)].k = "Entered" /\ box2[Len(box2)].u = u /\ box2[Len(box2)].city = c
        /\ box2[Len(box2)].ok <=> (h = c \/ (h = NoCity /\ (c = Own \/ treaty)))

LEMMA PoppedEnters ==
    ASSUME NEW q, NEW p, NEW g, NEW c, NEW m, NEW h, NEW box, NEW box2, NEW u, NEW treaty, NEW h2, h2 = Enrolled(h, c, treaty),
           Entering(q, p, g, c, m, h, box, u), Heard(p, g, c, h, treaty, box, box2, u)
    PROVE  Housed(m, h2, p, box2, u)
  <1>a. /\ Popped(q, p, g) /\ q[1].job.k = "Enter" /\ c = q[1].job.city /\ c # NoCity
        /\ m.status = "GARRISONED" => m.inside # NoCity
        /\ box \in Seq(Sent) /\ Housed(m, h, q, box, u) /\ box2 \in Seq(Sent) /\ Begins(box, box2)
        /\ \A i \in Nat : (EnterIn(q, i) => i = 1) /\ ~AnswerIn(box, u, i)
    BY DEF Entering, Heard
  <1>b. \/ box2 = box /\ treaty /\ \E i \in Nat : EnterIn(p, i) /\ g[i] = 1
        \/ /\ Len(box2) = Len(box) + 1 /\ box2[Len(box2)].k = "Entered" /\ box2[Len(box2)].u = u /\ box2[Len(box2)].city = c
           /\ box2[Len(box2)].ok <=> (h = c \/ (h = NoCity /\ (c = Own \/ treaty)))
    BY DEF Heard
  <1>0. /\ DOMAIN box = 1..Len(box) /\ DOMAIN box2 = 1..Len(box2) /\ Len(box) \in Nat /\ Len(box2) \in Nat
        /\ Len(box) <= Len(box2) /\ \A i \in 1..Len(box) : box2[i] = box[i]
    BY <1>a, <1>b DEF Begins
  <1>1. EnterIn(q, 1) /\ 1 \in Nat
    BY <1>a, <1>b DEF EnterIn, Popped
  <1>2. \A i \in Nat : ~LeaveIn(q, i)
    BY <1>a, <1>b, <1>1 DEF Housed, Leaving, LeaveIn, Popped
  <1>3. \A i \in Nat : ~LeaveIn(p, i)
    BY <1>a, <1>b, <1>2, PoppedDoors
  <1>4. \A i \in Nat : ~YesIn(box, u, i)
    BY <1>a, <1>b DEF YesIn, AnswerIn
  <1>5. \A i \in Nat : ExitIn(box, u, i) => ExitIn(box2, u, i) /\ box2[i] = box[i] /\ i <= Len(box)
    <2>1. PICK n \in Nat, n2 \in Nat : n = Len(box) /\ n2 = Len(box2)
      BY <1>a, <1>b, <1>0
    <2>2. n <= n2
      BY <1>a, <1>b, <1>0, <2>1
    <2>3. \A i \in 1..n : i \in 1..n2 /\ i <= n
      BY ONLY <2>2
    <2> QED
      BY <1>a, <1>b, <1>0, <2>1, <2>3 DEF ExitIn
  <1>6. \A i \in 1..Len(box2) : i \in 1..Len(box) \/ (i = Len(box2) /\ Len(box2) = Len(box) + 1)
    <2>1. Len(box2) \in {Len(box), Len(box) + 1}
      BY <1>a, <1>b
    <2>2. PICK n \in Nat, n2 \in Nat : n = Len(box) /\ n2 = Len(box2)
      BY <1>a, <1>b, <1>0
    <2>3. n2 \in {n, n + 1}
      BY <1>a, <1>b, <2>1, <2>2
    <2>4. \A i \in 1..n2 : i \in 1..n \/ (i = n2 /\ n2 = n + 1)
      BY ONLY <2>2, <2>3
    <2> QED
      BY <1>a, <1>b, <2>2, <2>4
  <1>7. Len(box2) = Len(box) + 1 => box2[Len(box2)].k = "Entered"
    <2>1. PICK n \in Nat : n = Len(box)
      BY <1>a, <1>b, <1>0
    <2>2. box2 = box => Len(box2) # Len(box) + 1
      BY <1>a, <1>b, <2>1
    <2> QED
      BY <1>a, <1>b, <2>2
  <1>8. \A i \in Nat : ExitIn(box2, u, i) => ExitIn(box, u, i) /\ box2[i] = box[i]
    BY <1>a, <1>b, <1>0, <1>6, <1>7 DEF ExitIn
  <1>9. \A i \in Nat : YesIn(box2, u, i) => i = Len(box2) /\ Len(box2) = Len(box) + 1
    BY <1>a, <1>b, <1>0, <1>4, <1>6 DEF YesIn
  <1>10. \A i \in Nat : ExitIn(box, u, i) => h = box[i].city /\ box[i].city # NoCity
    <2>1. \A i \in Nat : ExitIn(box, u, i) => box[i] \in Sent /\ box[i].k = "ExitFailed"
      BY <1>a, <1>b DEF ExitIn
    <2>2. \A y \in Sent : y.k = "ExitFailed" => y.city # NoCity
      BY <1>a, <1>b, ConstantsAssumption DEF Sent
    <2> QED
      BY <1>a, <1>b, <2>1, <2>2 DEF Housed, Leaving
  <1>11. h # NoCity => h2 = h
    BY <1>a, <1>b DEF Enrolled
  <1>12. OneExit(p, box2, u)
    BY <1>a, <1>b, <1>3, <1>8 DEF Housed, OneExit
  <1>13. Inside(m, h2, p, box2, u)
    BY <1>a, <1>b, <1>3, <1>8, <1>11 DEF Housed, Inside
  <1>14. Leaving(h2, p, box2, u)
    BY <1>a, <1>b, <1>3, <1>8, <1>10, <1>11 DEF Leaving
  <1>15. Welcomed(h2, p, box2, u)
    <2> SUFFICES ASSUME NEW i \in Nat, YesIn(box2, u, i)
                 PROVE  h2 = box2[i].city /\ \A j \in Nat : ~LeaveIn(p, j) /\ (ExitIn(box2, u, j) => j < i)
      BY <1>a, <1>b DEF Welcomed
    <2>1. i = Len(box2) /\ Len(box2) = Len(box) + 1
      BY <1>a, <1>b, <1>9
    <2>2. box2[Len(box2)].city = c /\ (box2[Len(box2)].ok <=> (h = c \/ (h = NoCity /\ (c = Own \/ treaty))))
      <3>1. PICK n \in Nat : n = Len(box)
        BY <1>a, <1>b, <1>0
      <3>2. box2 # box
        BY <1>a, <1>b, <2>1, <3>1
      <3> QED
        BY <1>a, <1>b, <3>2
    <2>3. box2[Len(box2)].ok
      BY <1>a, <1>b, <2>1 DEF YesIn
    <2>4. h2 = c
      BY <1>a, <1>b, <2>2, <2>3 DEF Enrolled
    <2>5. ASSUME NEW j \in Nat, ExitIn(box2, u, j) PROVE j < i
      <3>1. j <= Len(box)
        BY <1>a, <1>b, <1>5, <1>8, <2>5
      <3>2. PICK n \in Nat : n = Len(box)
        BY <1>a, <1>b, <1>0
      <3>3. j <= n /\ i = n + 1
        BY <1>a, <1>b, <2>1, <3>1, <3>2
      <3> QED
        BY ONLY <3>2, <3>3
    <2> QED
      BY <1>a, <1>b, <1>3, <2>1, <2>2, <2>4, <2>5
  <1>16. Outside(m, h2, p, box2, u)
    <2>1. CASE h2 = NoCity \/ m.status = "GARRISONED"
      BY <1>a, <1>b, <2>1 DEF Outside
    <2>2. CASE h2 # NoCity /\ m.status # "GARRISONED"
      <3>1. h = h2 \/ (h = NoCity /\ (c = Own \/ treaty) /\ h2 = c)
        BY <1>a, <1>b DEF Enrolled
      <3>2. h = NoCity \/ (\E i \in Nat : ExitIn(box, u, i)) \/ h = c
        <4>1. Outside(m, h, q, box, u)
          BY <1>a, <1>b DEF Housed
        <4> QED
          BY <1>a, <1>b, <1>2, <1>4, <2>2, <4>1 DEF Outside
      <3>3. CASE \E i \in Nat : ExitIn(box, u, i)
        BY <1>a, <1>b, <1>5, <3>3 DEF Outside
      <3>4. CASE h2 = c /\ (h = c \/ (h = NoCity /\ (c = Own \/ treaty)))
        <4>1. CASE box2 = box /\ treaty /\ \E i \in Nat : EnterIn(p, i) /\ g[i] = 1
          <5>1. PICK i \in Nat : EnterIn(p, i) /\ g[i] = 1
            BY <1>a, <1>b, <4>1
          <5>2. p[i].done /\ p[i].job = q[1].job
            BY <1>a, <1>b, <5>1, PoppedDoors
          <5> QED
            BY <1>a, <1>b, <3>4, <5>1, <5>2 DEF Outside
        <4>2. CASE /\ Len(box2) = Len(box) + 1 /\ box2[Len(box2)].k = "Entered" /\ box2[Len(box2)].u = u /\ box2[Len(box2)].city = c
                   /\ box2[Len(box2)].ok <=> (h = c \/ (h = NoCity /\ (c = Own \/ treaty)))
          <5>1. YesIn(box2, u, Len(box2)) /\ Len(box2) \in Nat
            <6>1. PICK n \in Nat : n = Len(box)
              BY <1>a, <1>b, <1>0
            <6>2. Len(box2) = n + 1 /\ n + 1 \in 1..(n + 1)
              BY <1>a, <1>b, <4>2, <6>1
            <6> QED
              BY <1>a, <1>b, <1>0, <3>4, <4>2, <6>2 DEF YesIn
          <5> QED
            BY <1>a, <1>b, <5>1 DEF Outside
        <4> QED
          BY <1>a, <1>b, <4>1, <4>2
      <3> QED
        BY <1>a, <1>b, <2>2, <3>1, <3>2, <3>3, <3>4
    <2> QED
      BY <1>a, <1>b, <2>1, <2>2
  <1> QED
    BY <1>a, <1>b, <1>12, <1>13, <1>14, <1>15, <1>16 DEF Housed

LEMMA TailPopped ==
    ASSUME NEW q \in Seq(Item), q # <<>>, NEW g, g = [i \in Nat |-> i + 1]
    PROVE  Popped(q, Tail(q), g) /\ \A i \in DOMAIN Tail(q) : g[i] # 1
  <1>1. PICK p \in Seq(Item) : p = Tail(q)
    BY Shifted
  <1>2. PICK n \in Nat : n = Len(p)
    OBVIOUS
  <1>3. DOMAIN p = 1..n /\ DOMAIN q = 1..(n + 1) /\ (\A i \in 1..n : p[i] = q[i + 1]) /\ 1 \in DOMAIN q
    BY <1>1, <1>2, Shifted
  <1>4. \A i \in 1..n : g[i] = i + 1 /\ i + 1 \in 1..(n + 1) /\ i + 1 # 1 /\ i # 0 /\ i \in Nat
    BY ONLY <1>2, g = [i \in Nat |-> i + 1]
  <1>5. \A i, k \in 1..n : i < k <=> i + 1 < k + 1
    OBVIOUS
  <1>6. ASSUME NEW k \in 1..(n + 1), k # 1 PROVE \E i \in 1..n : i + 1 = k
    <2>1. k - 1 \in 1..n /\ (k - 1) + 1 = k
      BY <1>6
    <2> QED
      BY <2>1
  <1>7. 1..(n + 1) \subseteq Nat \ {0}
    OBVIOUS
  <1> QED
    BY <1>1, <1>3, <1>4, <1>5, <1>6, <1>7 DEF Popped

LEMMA DonePopped ==
    ASSUME NEW q \in Seq(Item), q # <<>>, NEW p, DOMAIN p = DOMAIN q, p[1].done = TRUE,
           \A i \in DOMAIN q : p[i].job = q[i].job /\ (i # 1 => p[i] = q[i]), NEW g, g = [i \in Nat |-> i]
    PROVE  Popped(q, p, g) /\ g[1] = 1
  <1>1. DOMAIN q \subseteq Nat \ {0} /\ 1 \in DOMAIN q
    BY Shifted
  <1>2. \A i \in DOMAIN q : g[i] = i
    BY <1>1
  <1> QED
    BY <1>1, <1>2 DEF Popped

\* What the transaction of an entry answers.
Reply(box, box2, q, u, x, treaty) ==
  /\ Len(box2) = Len(box) + 1 /\ box2[Len(box2)].k = "Entered" /\ box2[Len(box2)].u = u
  /\ box2[Len(box2)].city = q[1].job.city
  /\ box2[Len(box2)].ok <=> Enters(x, q[1].job.city, treaty)

\* The head of q is written in row x of a unit, whose memory is m.
Popping(q, p, g, m, x, x2, treaty, box, u) ==
  /\ Popped(q, p, g) /\ m \in Memory /\ Story(m) /\ x \in Rows /\ q[1].job \in Job
  /\ x2 = Written(x, q[1].job, treaty) /\ box \in Seq(Sent) /\ \E l : Entry(q, box, u, m.entering, l)
  /\ Explained(m, x, q, box, u)
Replied(q, p, g, x, treaty, box, box2, u) ==
  /\ box2 \in Seq(Sent) /\ Begins(box, box2)
  /\ q[1].job.k # "Enter" => box2 = box
  /\ q[1].job.k = "Enter" => \/ box2 = box /\ treaty /\ \E i \in Nat : EnterIn(p, i) /\ g[i] = 1
                             \/ Reply(box, box2, q, u, x, treaty)

LEMMA PoppedExplained ==
    ASSUME NEW q, NEW p, NEW g, NEW m, NEW x, NEW x2, NEW treaty, NEW box, NEW box2, NEW u,
           Popping(q, p, g, m, x, x2, treaty, box, u), Replied(q, p, g, x, treaty, box, box2, u)
    PROVE  Explained(m, x2, p, box2, u)
  <1>0. /\ Popped(q, p, g) /\ m \in Memory /\ Story(m) /\ x \in Rows /\ q[1].job \in Job
        /\ x2 = Written(x, q[1].job, treaty) /\ box \in Seq(Sent) /\ box2 \in Seq(Sent) /\ Begins(box, box2)
        /\ q[1].job.k # "Enter" => box2 = box
        /\ q[1].job.k = "Enter" => \/ box2 = box /\ treaty /\ \E i \in Nat : EnterIn(p, i) /\ g[i] = 1
                                   \/ Reply(box, box2, q, u, x, treaty)
    BY DEF Popping, Replied
  <1>1. Answered(Told(box, u), Told(box2, u))
    <2>1. CASE box2 = box
      BY <2>1 DEF Answered
    <2>2. CASE Reply(box, box2, q, u, x, treaty)
      <3>1. PICK n \in Nat : n = Len(box)
        BY <1>0
      <3>2. DOMAIN box = 1..n /\ DOMAIN box2 = 1..(n + 1) /\ (\A i \in 1..n : box2[i] = box[i]) /\ box2[n + 1].k = "Entered"
        BY <1>0, <2>2, <3>1 DEF Reply, Begins
      <3>3. (\A i \in 1..(n + 1) : i \in 1..n \/ i = n + 1) /\ 1..n \subseteq 1..(n + 1)
        OBVIOUS
      <3> QED
        BY <3>2, <3>3 DEF Answered, Told
    <2> QED
      BY <1>0, <2>1, <2>2, Kinds
  <1>2. Closed(m.walk.id, m.pend, x, q, Told(box, u)) /\ Agreed(m, x, q, Told(box, u)) /\ Placed(m, x, q, Told(box, u)) /\ Housed(m, x.host, q, box, u)
    BY DEF Explained, Popping
  <1>3. Closed(m.walk.id, m.pend, x2, p, Told(box2, u))
    BY <1>0, <1>1, <1>2, PoppedClosed
  <1>4. Agreed(m, x2, p, Told(box2, u))
    BY <1>0, <1>1, <1>2, PoppedAgreed
  <1>5. 1 \in DOMAIN q /\ \E l : Entry(q, box, u, m.entering, l)
    BY <1>0 DEF Popped, Popping
  <1>6. q[1].job.k = "Enter" => m.entering /\ \A i \in Nat : (EnterIn(q, i) => i = 1) /\ ~AnswerIn(box, u, i)
    BY <1>0, <1>5, EntryAlone
  <1>7. q[1].job.k = "Enter" => m.status # "WORKING"
    BY <1>0, <1>6 DEF Story
  <1>8. Placed(m, x2, p, Told(box2, u))
    BY <1>0, <1>1, <1>2, <1>7, PoppedPlaced
  <1>9. Housed(m, x2.host, p, box2, u)
    <2>1. CASE q[1].job.k \notin {"Enter", "Leave"}
      <3>1. x2.host = x.host /\ box2 = box
        BY <1>0, <2>1, WrittenHost
      <3> QED
        BY <1>0, <1>2, <2>1, <3>1, PoppedHoused
    <2>2. CASE q[1].job.k = "Leave"
      <3>1. x2.host = NoCity /\ box2 = box
        BY <1>0, <2>2, WrittenHost
      <3> QED
        BY <1>0, <1>2, <2>2, <3>1, PoppedLeaves
    <2>3. CASE q[1].job.k = "Enter"
      <3>1. PICK c : c = q[1].job.city
        OBVIOUS
      <3>2. c # NoCity
        BY <1>0, <2>3, <3>1, Kinds, ConstantsAssumption DEF EnterJobs
      <3>3. PICK h2 : h2 = Enrolled(x.host, c, treaty)
        OBVIOUS
      <3>4. Enters(x, c, treaty) <=> (x.host = c \/ (x.host = NoCity /\ (c = Own \/ treaty)))
        BY DEF Enters
      <3>5. x2.host = h2
        BY <1>0, <2>3, <3>1, <3>2, <3>3, <3>4, WrittenHost DEF Enrolled
      <3>6. m.status = "GARRISONED" => m.inside # NoCity
        BY <1>0 DEF Story
      <3>7. \/ box2 = box /\ treaty /\ \E i \in Nat : EnterIn(p, i) /\ g[i] = 1
            \/ /\ Len(box2) = Len(box) + 1 /\ box2[Len(box2)].k = "Entered" /\ box2[Len(box2)].u = u /\ box2[Len(box2)].city = c
               /\ box2[Len(box2)].ok <=> (x.host = c \/ (x.host = NoCity /\ (c = Own \/ treaty)))
        BY <1>0, <2>3, <3>1, <3>4 DEF Reply
      <3>8. \A i \in Nat : (EnterIn(q, i) => i = 1) /\ ~AnswerIn(box, u, i)
        BY <1>6, <2>3
      <3>9. PICK h : h = x.host
        OBVIOUS
      <3>10. Housed(m, h, q, box, u)
        BY <1>2, <3>9
      <3>11. \/ box2 = box /\ treaty /\ \E i \in Nat : EnterIn(p, i) /\ g[i] = 1
             \/ /\ Len(box2) = Len(box) + 1 /\ box2[Len(box2)].k = "Entered" /\ box2[Len(box2)].u = u /\ box2[Len(box2)].city = c
                /\ box2[Len(box2)].ok <=> (h = c \/ (h = NoCity /\ (c = Own \/ treaty)))
        BY <3>7, <3>9
      <3>12. h2 = Enrolled(h, c, treaty)
        BY <3>3, <3>9
      <3>13. Popped(q, p, g) /\ box \in Seq(Sent) /\ box2 \in Seq(Sent) /\ Begins(box, box2)
        BY <1>0
      <3>14. Entering(q, p, g, c, m, h, box, u)
        BY <2>3, <3>1, <3>2, <3>6, <3>8, <3>10, <3>13 DEF Entering
      <3>15. Heard(p, g, c, h, treaty, box, box2, u)
        BY <3>11, <3>13 DEF Heard
      <3>16. Housed(m, h2, p, box2, u)
        BY <3>12, <3>14, <3>15, PoppedEnters
      <3> QED
        BY <3>5, <3>16
    <2> QED
      BY <2>1, <2>2, <2>3
  <1> QED
    BY <1>3, <1>4, <1>8, <1>9 DEF Explained

LEMMA SameBegins ==
    ASSUME NEW box \in Seq(Sent)
    PROVE  Begins(box, box) /\ \A i \in (Len(box) + 1)..Len(box) : FALSE
  <1>1. PICK n \in Nat : n = Len(box)
    OBVIOUS
  <1>2. n <= n /\ \A i \in (n + 1)..n : FALSE
    OBVIOUS
  <1> QED
    BY <1>1, <1>2 DEF Begins

\* The worker writes or gives up the head of the queue of u, and tells it at most.
LEMMA WorkerUntangled ==
    ASSUME Inv, Untangled, NEW u \in Unit, ram' = ram, \A v \in Unit : v # u => queue'[v] = queue[v] /\ row'[v] = row[v],
           InboxType', Begins(inbox, inbox'), \A i \in (Len(inbox) + 1)..Len(inbox') : inbox'[i].u = u,
           \A v \in Unit : Clean(v)' => Clean(v),
           Clean(u)' => Explained(ram[u], row'[u], queue'[u], inbox', u)
    PROVE  Untangled'
  <1>1. inbox \in Seq(Sent) /\ inbox' \in Seq(Sent)
    BY DEF Inv, TypeInv, InboxType
  <1>2. PICK box2 \in Seq(Sent) : box2 = inbox'
    BY <1>1
  <1>3. ASSUME NEW v \in Unit, Clean(v)' PROVE Explained(ram[v], row'[v], queue'[v], inbox', v)
    <2>1. CASE v = u
      BY <1>3, <2>1
    <2>2. CASE v # u
      <3>1. Explained(ram[v], row[v], queue[v], inbox, v)
        BY <1>3 DEF Untangled
      <3>2. \A i \in (Len(inbox) + 1)..Len(box2) : box2[i].u # v
        BY <1>2, <2>2
      <3>3. Begins(inbox, box2)
        BY <1>2
      <3>4. Explained(ram[v], row[v], queue[v], box2, v)
        BY <1>1, <3>1, <3>2, <3>3, GrownExplained
      <3>5. queue'[v] = queue[v] /\ row'[v] = row[v]
        BY <2>2
      <3> QED
        BY <1>2, <3>4, <3>5
    <2> QED
      BY <2>1, <2>2
  <1> QED
    BY <1>3 DEF Untangled

LEMMA CommitUntangled ==
    ASSUME Inv, Untangled, NEW u \in Unit, NEW treaty \in BOOLEAN, Commit(u, treaty)
    PROVE  Untangled'
  <1>1. /\ queue[u] # <<>> /\ Write(u, treaty) /\ queue' = [queue EXCEPT ![u] = Tail(@)] /\ ram' = ram
        /\ loose' = loose /\ crossed' = crossed
    BY DEF Commit, Runnable
  <1>2. PICK q \in Seq(Item) : q = queue[u] /\ q # <<>> /\ Head(q) = q[1] /\ q[1].job \in Job
    BY <1>1, HeadOf
  <1>3. PICK p : p = Tail(q)
    OBVIOUS
  <1>4. PICK g : g = [i \in Nat |-> i + 1]
    OBVIOUS
  <1>5. Popped(q, p, g)
    BY <1>2, <1>3, <1>4, TailPopped
  <1>6. PICK x \in Rows : x = row[u]
    BY DEF Inv, TypeInv, RowType
  <1>7. PICK x2 : x2 = Written(x, q[1].job, treaty)
    OBVIOUS
  <1>8. row'[u] = x2 /\ queue'[u] = p /\ \A v \in Unit : v # u => queue'[v] = queue[v] /\ row'[v] = row[v]
    <2>1. row' = [row EXCEPT ![u] = x2]
      BY <1>1, <1>2, <1>6, <1>7 DEF Write
    <2> QED
      BY <1>1, <1>2, <1>3, <2>1 DEF Inv, TypeInv, RowType, QueueType
  <1>9. PICK m \in Memory : m = ram[u] /\ Story(m)
    BY DEF Inv, TypeInv, RamType, Stories
  <1>10. inbox \in Seq(Sent) /\ Len(inbox) <= InboxSize /\ Entry(q, inbox, u, m.entering, lost)
    BY <1>2, <1>9 DEF Inv, TypeInv, InboxType, Entries
  <1>11. Clean(u) => Explained(m, x, q, inbox, u)
    BY <1>2, <1>6, <1>9 DEF Untangled
  <1>12. CASE q[1].job.k # "Enter"
    <2>1. inbox' = inbox /\ lost' = lost
      BY <1>2, <1>12 DEF Commit
    <2>2. \A v \in Unit : Clean(v)' => Clean(v)
      BY <1>1, <2>1 DEF Clean
    <2>3. InboxType'
      BY <2>1 DEF Inv, TypeInv, InboxType
    <2>4. Begins(inbox, inbox) /\ \A i \in (Len(inbox) + 1)..Len(inbox) : FALSE
      BY <1>10, SameBegins
    <2>5. Clean(u) => Popping(q, p, g, m, x, x2, treaty, inbox, u)
      BY <1>2, <1>5, <1>6, <1>7, <1>9, <1>10, <1>11 DEF Popping
    <2>8. Replied(q, p, g, x, treaty, inbox, inbox, u)
      BY <1>10, <1>12, <2>4 DEF Replied
    <2>9. Clean(u) => Explained(m, x2, p, inbox, u)
      BY <2>5, <2>8, PoppedExplained
    <2>6. Clean(u)' => Explained(ram[u], row'[u], queue'[u], inbox', u)
      BY <1>8, <1>9, <2>1, <2>2, <2>9
    <2>7. Begins(inbox, inbox') /\ \A i \in (Len(inbox) + 1)..Len(inbox') : inbox'[i].u = u
      BY <2>1, <2>4
    <2> QED
      BY <1>1, <1>8, <2>2, <2>3, <2>6, <2>7, WorkerUntangled
  <1>13. CASE q[1].job.k = "Enter"
    <2>1. PICK c : c = q[1].job.city
      OBVIOUS
    <2>2. PICK ok \in BOOLEAN : ok = Enters(x, c, treaty)
      BY DEF Enters
    <2>3. PICK y : y = Message("Entered", u, 0, c, NoTile, ok)
      OBVIOUS
    <2>4. y \in Sent /\ y.u = u /\ y.k = "Entered" /\ y.city = c /\ y.ok = ok
      <3>1. c \in City
        BY <1>2, <1>13, <2>1, Kinds DEF EnterJobs
      <3> QED
        BY <2>3, <3>1 DEF Message, Sent, Messages
    <2>5. inbox' = Offer(inbox, y) /\ lost' = (lost \/ Dropped(inbox))
      BY <1>2, <1>6, <1>13, <2>1, <2>2, <2>3 DEF Commit
    <2>6. PICK box2 : box2 = Offer(inbox, y)
      OBVIOUS
    <2>7. box2 \in Seq(Sent) /\ Len(box2) <= InboxSize /\ Begins(inbox, box2)
      BY <1>10, <2>4, <2>6, Offered
    <2>8. \/ Len(box2) = Len(inbox) + 1 /\ box2[Len(inbox) + 1] = y
          \/ Len(box2) = Len(inbox) /\ Len(inbox) >= InboxSize
      BY <1>10, <2>4, <2>6, Offered
    <2>9. ASSUME NEW i \in (Len(inbox) + 1)..Len(box2) PROVE box2[i] = y
      <3>1. PICK n \in Nat, k \in Nat : n = Len(inbox) /\ k = Len(box2)
        BY <1>10, <2>7
      <3>2. i \in (n + 1)..k /\ (k = n + 1 \/ k = n)
        BY <2>8, <3>1
      <3>3. i = n + 1 /\ k = n + 1
        BY ONLY <3>1, <3>2
      <3>4. Len(box2) # Len(inbox)
        BY <3>1, <3>3
      <3> QED
        BY <2>8, <3>1, <3>3, <3>4
    <2>10. \A v \in Unit : Clean(v)' => Clean(v)
      BY <1>1, <2>5, Zenon DEF Clean
    <2>11. Clean(u)' => Reply(inbox, box2, q, u, x, treaty)
      <3>1. Clean(u)' => ~(Len(inbox) >= InboxSize)
        BY <2>5, Zenon DEF Clean, Dropped
      <3> QED
        BY <2>1, <2>2, <2>4, <2>8, <3>1 DEF Reply
    <2>12. Clean(u)' => Explained(m, x2, p, box2, u)
      <3> SUFFICES ASSUME Clean(u)' PROVE Explained(m, x2, p, box2, u)
        OBVIOUS
      <3>1. Reply(inbox, box2, q, u, x, treaty) /\ Explained(m, x, q, inbox, u)
        BY <1>11, <2>10, <2>11
      <3>2. Popping(q, p, g, m, x, x2, treaty, inbox, u)
        BY <1>2, <1>5, <1>6, <1>7, <1>9, <1>10, <3>1 DEF Popping
      <3>3. Replied(q, p, g, x, treaty, inbox, box2, u)
        <4>1. q[1].job.k # "Enter" => box2 = inbox
          BY <1>13
        <4>2. q[1].job.k = "Enter" => \/ box2 = inbox /\ treaty /\ \E i \in Nat : EnterIn(p, i) /\ g[i] = 1
                                      \/ Reply(inbox, box2, q, u, x, treaty)
          BY <3>1, Zenon
        <4>3. box2 \in Seq(Sent) /\ Begins(inbox, box2)
          BY <2>7
        <4> QED
          BY <4>1, <4>2, <4>3, Zenon DEF Replied
      <3> QED
        BY <3>2, <3>3, PoppedExplained
    <2>13. Clean(u)' => Explained(ram[u], row'[u], queue'[u], inbox', u)
      BY <1>8, <1>9, <2>5, <2>6, <2>12
    <2>14. InboxType' /\ Begins(inbox, inbox') /\ \A i \in (Len(inbox) + 1)..Len(inbox') : inbox'[i].u = u
      BY <2>4, <2>5, <2>6, <2>7, <2>9 DEF InboxType
    <2> QED
      BY <1>1, <1>8, <2>10, <2>13, <2>14, WorkerUntangled
  <1> QED
    BY <1>12, <1>13

LEMMA CommitUnackedUntangled ==
    ASSUME Inv, Untangled, NEW u \in Unit, CommitUnacked(u)
    PROVE  Untangled'
  <1>1. /\ queue[u] # <<>> /\ Write(u, TRUE) /\ queue' = [queue EXCEPT ![u][1].done = TRUE] /\ ram' = ram
        /\ inbox' = inbox /\ lost' = lost /\ loose' = loose /\ crossed' = crossed
    BY DEF CommitUnacked, Runnable
  <1>2. PICK q \in Seq(Item) : q = queue[u] /\ q # <<>> /\ Head(q) = q[1] /\ q[1].job \in Job
    BY <1>1, HeadOf
  <1>3. PICK p : p = [q EXCEPT ![1].done = TRUE]
    OBVIOUS
  <1>4. PICK g : g = [i \in Nat |-> i]
    OBVIOUS
  <1>5. DOMAIN p = DOMAIN q /\ p[1].done = TRUE /\ \A i \in DOMAIN q : p[i].job = q[i].job /\ (i # 1 => p[i] = q[i])
    <2>1. 1 \in DOMAIN q /\ \A i \in DOMAIN q : q[i] \in Item
      BY <1>2, Shifted
    <2>2. DOMAIN p = DOMAIN q /\ \A i \in DOMAIN q : p[i] = IF i = 1 THEN [q[1] EXCEPT !.done = TRUE] ELSE q[i]
      BY <1>3, <2>1
    <2> QED
      BY <2>1, <2>2 DEF Item
  <1>6. Popped(q, p, g) /\ g[1] = 1 /\ 1 \in Nat
    BY <1>2, <1>4, <1>5, DonePopped
  <1>7. PICK x \in Rows : x = row[u]
    BY DEF Inv, TypeInv, RowType
  <1>8. PICK x2 : x2 = Written(x, q[1].job, TRUE)
    OBVIOUS
  <1>9. row'[u] = x2 /\ queue'[u] = p /\ \A v \in Unit : v # u => queue'[v] = queue[v] /\ row'[v] = row[v]
    <2>1. row' = [row EXCEPT ![u] = x2]
      BY <1>1, <1>2, <1>7, <1>8 DEF Write
    <2>2. queue' = [queue EXCEPT ![u] = p]
      BY <1>1, <1>2, <1>3
    <2> QED
      BY <2>1, <2>2 DEF Inv, TypeInv, RowType, QueueType
  <1>10. PICK m \in Memory : m = ram[u] /\ Story(m)
    BY DEF Inv, TypeInv, RamType, Stories
  <1>11. inbox \in Seq(Sent) /\ Entry(q, inbox, u, m.entering, lost)
    BY <1>2, <1>10 DEF Inv, TypeInv, InboxType, Entries
  <1>12. Begins(inbox, inbox) /\ \A i \in (Len(inbox) + 1)..Len(inbox) : FALSE
    BY <1>11, SameBegins
  <1>13. \A v \in Unit : Clean(v)' => Clean(v)
    BY <1>1 DEF Clean
  <1>14. InboxType'
    BY <1>1 DEF Inv, TypeInv, InboxType
  <1>15. q[1].job.k = "Enter" => \E i \in Nat : EnterIn(p, i) /\ g[i] = 1
    <2>1. 1 \in DOMAIN q
      BY <1>2, Shifted
    <2> QED
      BY <1>5, <1>6, <2>1 DEF EnterIn
  <1>16. Clean(u) => Explained(m, x2, p, inbox, u)
    <2>1. Clean(u) => Explained(m, x, q, inbox, u)
      BY <1>2, <1>7, <1>10 DEF Untangled
    <2>2. Clean(u) => Popping(q, p, g, m, x, x2, TRUE, inbox, u)
      BY <1>2, <1>6, <1>7, <1>8, <1>10, <1>11, <2>1 DEF Popping
    <2>3. Replied(q, p, g, x, TRUE, inbox, inbox, u)
      BY <1>11, <1>12, <1>15 DEF Replied
    <2> QED
      BY <2>2, <2>3, PoppedExplained
  <1>17. Clean(u)' => Explained(ram[u], row'[u], queue'[u], inbox', u)
    BY <1>1, <1>9, <1>10, <1>13, <1>16
  <1>18. Begins(inbox, inbox') /\ \A i \in (Len(inbox) + 1)..Len(inbox') : inbox'[i].u = u
    BY <1>1, <1>12
  <1> QED
    BY <1>1, <1>9, <1>13, <1>14, <1>17, <1>18, WorkerUntangled

LEMMA TailSift ==
    ASSUME NEW q \in Seq(Item), q # <<>>, NEW g, g = [i \in DOMAIN Tail(q) |-> i + 1]
    PROVE  Sift(q, Tail(q), g) /\ Given(q, Tail(q), g) = {1}
  <1>1. PICK p \in Seq(Item) : p = Tail(q)
    BY Shifted
  <1>2. PICK n \in Nat : n = Len(p)
    OBVIOUS
  <1>3. DOMAIN p = 1..n /\ DOMAIN q = 1..(n + 1) /\ (\A i \in 1..n : p[i] = q[i + 1]) /\ 1 \in DOMAIN q
    BY <1>1, <1>2, Shifted
  <1>4. g = [i \in 1..n |-> i + 1]
    BY <1>1, <1>3
  <1>5. g \in [1..n -> 1..(n + 1)] /\ \A i \in 1..n : g[i] = i + 1 /\ g[i] # 1
    BY ONLY <1>2, <1>4
  <1>6. \A i, k \in 1..n : i < k <=> i + 1 < k + 1
    OBVIOUS
  <1>7. \A k \in 1..(n + 1) : k # 1 => \E i \in 1..n : i + 1 = k
    <2> SUFFICES ASSUME NEW k \in 1..(n + 1), k # 1 PROVE \E i \in 1..n : i + 1 = k
      OBVIOUS
    <2>1. k - 1 \in 1..n /\ (k - 1) + 1 = k
      OBVIOUS
    <2> QED
      BY <2>1
  <1>8. 1..(n + 1) \subseteq Nat \ {0} /\ 1..n \subseteq Nat \ {0}
    OBVIOUS
  <1>9. Sift(q, p, g)
    BY <1>3, <1>5, <1>6, <1>8 DEF Sift
  <1>10. Given(q, p, g) = {1}
    <2>1. \A k \in DOMAIN q : (\A i \in DOMAIN p : g[i] # k) <=> k = 1
      BY <1>3, <1>5, <1>7
    <2>2. \A k : k \in Given(q, p, g) <=> k = 1
      BY <1>3, <2>1 DEF Given
    <2> QED
      BY <2>2, Zenon
  <1> QED
    BY <1>1, <1>9, <1>10

LEMMA GiveUpUntangled ==
    ASSUME Inv, Untangled, NEW u \in Unit, GiveUp(u)
    PROVE  Untangled'
  <1>1. queue[u] # <<>> /\ queue' = [queue EXCEPT ![u] = Tail(@)] /\ ram' = ram /\ row' = row /\ crossed' = crossed
    BY DEF GiveUp
  <1>2. PICK q \in Seq(Item) : q = queue[u] /\ q # <<>> /\ Head(q) = q[1] /\ q[1].job \in Job
    BY <1>1, HeadOf
  <1>3. PICK p : p = Tail(q)
    OBVIOUS
  <1>4. PICK g : g = [i \in DOMAIN Tail(q) |-> i + 1]
    OBVIOUS
  <1>5. Sift(q, p, g) /\ Given(q, p, g) = {1}
    BY <1>2, <1>3, <1>4, TailSift
  <1>6. PICK y : y = FailureOf(u, q[1].job)
    OBVIOUS
  <1>7. y \in Sent /\ y.u = u
    BY <1>2, <1>6, FailureTyped
  <1>8. inbox' = Offer(inbox, y) /\ lost' = (lost \/ Dropped(inbox))
        /\ loose' = IF q[1].done \/ Leaves(q[1].job) THEN loose \cup {u} ELSE loose
    BY <1>2, <1>6 DEF GiveUp
  <1>9. inbox \in Seq(Sent) /\ Len(inbox) <= InboxSize
    BY DEF Inv, TypeInv, InboxType
  <1>10. PICK box2 : box2 = Offer(inbox, y)
    OBVIOUS
  <1>11. box2 \in Seq(Sent) /\ Len(box2) <= InboxSize /\ Begins(inbox, box2)
    BY <1>7, <1>9, <1>10, Offered
  <1>12. \/ Len(box2) = Len(inbox) + 1 /\ box2[Len(inbox) + 1] = y
         \/ Len(box2) = Len(inbox) /\ Len(inbox) >= InboxSize
    BY <1>7, <1>9, <1>10, Offered
  <1>13. PICK n \in Nat, k \in Nat : n = Len(inbox) /\ k = Len(box2)
    BY <1>9, <1>11
  <1>14. ASSUME NEW i \in (Len(inbox) + 1)..Len(box2) PROVE box2[i] = y
    <2>1. i \in (n + 1)..k /\ (k = n + 1 \/ k = n)
      BY <1>12, <1>13
    <2>2. i = n + 1 /\ k = n + 1
      BY ONLY <1>13, <2>1
    <2>3. Len(box2) # Len(inbox)
      BY <1>13, <2>2
    <2> QED
      BY <1>12, <1>13, <2>2, <2>3
  <1>15. \A v \in Unit : Clean(v)' => Clean(v)
    BY <1>1, <1>8, Zenon DEF Clean
  <1>16. queue'[u] = p /\ \A v \in Unit : v # u => queue'[v] = queue[v] /\ row'[v] = row[v]
    BY <1>1, <1>2, <1>3 DEF Inv, TypeInv, QueueType
  <1>17. ASSUME Clean(u)' PROVE Explained(ram[u], row[u], p, box2, u)
    <2>1. ~(Len(inbox) >= InboxSize) /\ ~q[1].done /\ ~Leaves(q[1].job)
      <3>1. ~lost' /\ u \notin loose'
        BY <1>17 DEF Clean
      <3>2. ~(Len(inbox) >= InboxSize)
        BY <1>8, <3>1, Zenon DEF Dropped
      <3> QED
        BY <1>8, <3>1, <3>2
    <2>2. k = n + 1 /\ box2[n + 1] = y
      BY <1>12, <1>13, <2>1
    <2>3. PICK o : o = [i \in Nat |-> 1]
      OBVIOUS
    <2>4. \A i \in (n + 1)..k : i = n + 1 /\ o[i] = 1
      BY ONLY <1>13, <2>2, <2>3
    <2>5. n + 1 \in (n + 1)..k
      BY ONLY <1>13, <2>2
    <2>6. (Len(inbox) + 1)..Len(box2) = (n + 1)..k
      BY <1>13
    <2>7. Reported(inbox, box2, q, p, g, u, o)
      <3>1. \A i \in (Len(inbox) + 1)..Len(box2) : o[i] \in Given(q, p, g) /\ box2[i] = FailureOf(u, q[o[i]].job)
        BY <1>5, <1>6, <1>14, <2>4, <2>6
      <3>2. \A i, j \in (Len(inbox) + 1)..Len(box2) : o[i] = o[j] => i = j
        BY <2>4, <2>6
      <3>3. \A z \in Given(q, p, g) : /\ q[z].job \in Job /\ ~q[z].done /\ ~Leaves(q[z].job)
                                      /\ \E i \in (Len(inbox) + 1)..Len(box2) : o[i] = z
        BY <1>2, <1>5, <2>1, <2>4, <2>5, <2>6
      <3> QED
        BY <1>9, <1>11, <3>1, <3>2, <3>3 DEF Reported
    <2>8. Explained(ram[u], row[u], q, inbox, u)
      BY <1>2, <1>15, <1>17 DEF Untangled
    <2> QED
      BY <1>5, <2>7, <2>8, SiftExplained
  <1>18. Clean(u)' => Explained(ram[u], row'[u], queue'[u], inbox', u)
    BY <1>1, <1>8, <1>10, <1>16, <1>17
  <1>19. InboxType' /\ Begins(inbox, inbox') /\ \A i \in (Len(inbox) + 1)..Len(inbox') : inbox'[i].u = u
    BY <1>7, <1>8, <1>10, <1>11, <1>14 DEF InboxType
  <1> QED
    BY <1>1, <1>15, <1>16, <1>18, <1>19, WorkerUntangled

-----------------------------------------------------------------------------
(* The start of the process.                                               *)

\* Nothing is on its way, and the memory is that of the row.
LEMMA FreshExplained ==
    ASSUME NEW m, NEW x, x.walk = m.walk, m.pend = {}, x.task = m.task, x.host = m.inside,
           m.walk = NoWalk /\ ~m.dirty => At(m, x.at, x.status), m.status # "GARRISONED" => m.inside = NoCity, NEW u
    PROVE  Explained(m, x, <<>>, <<>>, u)
  <1>1. Told(<<>>, u) = {} /\ \A i \in DOMAIN <<>> : FALSE
    BY DEF Told
  <1>2. \A i \in Nat : ~LeaveIn(<<>>, i) /\ ~EnterIn(<<>>, i) /\ ~ExitIn(<<>>, u, i) /\ ~YesIn(<<>>, u, i)
    BY <1>1 DEF LeaveIn, EnterIn, ExitIn, YesIn
  <1>3. Closed(m.walk.id, m.pend, x, <<>>, {})
    BY <1>1 DEF Closed, Closing, Says
  <1>4. Agreed(m, x, <<>>, {})
    <2>1. Holds(m, x)
      BY DEF Holds, Held
    <2> QED
      BY <1>1, <2>1 DEF Agreed
  <1>5. Placed(m, x, <<>>, {})
    BY <1>1 DEF Placed
  <1>6. Housed(m, x.host, <<>>, <<>>, u)
    BY <1>2 DEF Housed, OneExit, Inside, Welcomed, Leaving, Outside
  <1> QED
    BY <1>1, <1>3, <1>4, <1>5, <1>6 DEF Explained

\* What a start writes explains what it remembers.
LEMMA RestartExplained ==
    ASSUME NEW r \in Rows, RowStory(r), NEW late, NEW u
    PROVE  Explained(MemoryOf(r, late), RowOf(r, late), <<>>, <<>>, u)
  <1>1. PICK c : c = Checked(r)
    OBVIOUS
  <1>2. PICK h : h = Hydrated(c, late)
    OBVIOUS
  <1>3. PICK z : z = Reconciled(h)
    OBVIOUS
  <1>4. z = Recovered(r, late)
    BY <1>1, <1>2, <1>3 DEF Recovered
  <1>5. c \in Rows
    BY <1>1, CheckedFields
  <1>6. h \in Rows
    BY <1>2, <1>5, HydratedFields
  <1>7. z \in Rows
    BY <1>3, <1>6, ReconciledFields
  <1>8. PICK m : m = MemoryOf(r, late)
    OBVIOUS
  <1>9. PICK x : x = RowOf(r, late)
    OBVIOUS
  <1>10. m.status = z.status /\ m.at = z.at /\ m.walk = z.walk /\ m.task = z.task /\ m.inside = z.host /\ m.pend = {}
    <2>1. PICK d : d = (z.status = "IDLE" /\ z # Checked(r))
      OBVIOUS
    <2>2. m = [Idle(z.at) EXCEPT !.status = z.status, !.walk = z.walk, !.task = z.task, !.inside = z.host, !.dirty = d]
      BY <1>4, <1>8, <2>1 DEF MemoryOf
    <2> QED
      BY <2>2 DEF Idle
  <1>11. z = [status |-> z.status, at |-> z.at, walk |-> z.walk, task |-> z.task, host |-> z.host]
    BY <1>7 DEF Rows
  <1>12. PICK y : y = [z EXCEPT !.status = c.status]
    OBVIOUS
  <1>13. x = IF z.walk # NoWalk \/ (c.walk = NoWalk /\ c.status = "MOVING" /\ ~IsLeg(c.task)) THEN y ELSE z
    BY <1>1, <1>4, <1>9, <1>12 DEF RowOf
  <1>14. y.walk = z.walk /\ y.task = z.task /\ y.host = z.host /\ y.at = z.at /\ y.status = c.status
    BY <1>11, <1>12
  <1>15. x.walk = m.walk /\ x.task = m.task /\ x.host = m.inside /\ x.at = m.at
    BY <1>10, <1>13, <1>14
  <1>16. m.status # "GARRISONED" => m.inside = NoCity
    BY <1>8, Restarted DEF Story
  <1>17. ASSUME m.walk = NoWalk PROVE At(m, x.at, x.status)
    <2>1. CASE x = z
      BY <1>10, <2>1 DEF At
    <2>2. CASE x.status = c.status /\ c.walk = NoWalk /\ c.status = "MOVING" /\ ~IsLeg(c.task)
      <3>1. h.status = "IDLE"
        BY <1>2, <1>5, <2>2, HydratedFields
      <3>2. z.status \in {"IDLE", h.status}
        BY <1>3, <1>6, ReconciledFields
      <3> QED
        BY <1>10, <1>15, <2>2, <3>1, <3>2 DEF At
    <2>3. x = z \/ (x.status = c.status /\ c.walk = NoWalk /\ c.status = "MOVING" /\ ~IsLeg(c.task))
      BY <1>10, <1>13, <1>14, <1>17
    <2> QED
      BY <2>1, <2>2, <2>3
  <1> QED
    BY <1>8, <1>9, <1>10, <1>15, <1>16, <1>17, FreshExplained

LEMMA RestartUntangled ==
    ASSUME Inv, NEW late \in SUBSET Unit, Restart(late)
    PROVE  Untangled'
  <1>1. /\ row' = [u \in Unit |-> RowOf(row[u], u \in late)] /\ ram' = [u \in Unit |-> MemoryOf(row[u], u \in late)]
        /\ queue' = [u \in Unit |-> <<>>] /\ inbox' = <<>>
    BY DEF Restart
  <1>2. ASSUME NEW u \in Unit PROVE Explained(ram'[u], row'[u], queue'[u], inbox', u)
    <2>1. PICK r \in Rows : r = row[u] /\ RowStory(r)
      BY DEF Inv, TypeInv, RowType, RowStories
    <2>2. PICK b : b = (u \in late)
      OBVIOUS
    <2>3. ram'[u] = MemoryOf(r, b) /\ row'[u] = RowOf(r, b) /\ queue'[u] = <<>>
      BY <1>1, <2>1, <2>2
    <2>4. Explained(MemoryOf(r, b), RowOf(r, b), <<>>, <<>>, u)
      BY <2>1, RestartExplained
    <2> QED
      BY <1>1, <2>3, <2>4
  <1> QED
    BY <1>2 DEF Untangled

LEMMA InitUntangled == Init => Untangled
  <1> SUFFICES ASSUME Init PROVE Untangled
    OBVIOUS
  <1>1. PICK host \in [Unit -> City \cup {NoCity}] :
          LET st(u) == IF host[u] = NoCity THEN "IDLE" ELSE "GARRISONED"
          IN /\ ram = [u \in Unit |-> [Idle(Depot) EXCEPT !.status = st(u), !.inside = host[u]]]
             /\ row = [u \in Unit |-> [status |-> st(u), at |-> Depot, walk |-> NoWalk, task |-> NoTask, host |-> host[u]]]
    BY DEF Init
  <1>2. queue = [u \in Unit |-> <<>>] /\ inbox = <<>>
    BY DEF Init
  <1>3. ASSUME NEW u \in Unit PROVE Explained(ram[u], row[u], queue[u], inbox, u)
    <2>1. PICK st : st = IF host[u] = NoCity THEN "IDLE" ELSE "GARRISONED"
      OBVIOUS
    <2>2. PICK m : m = ram[u]
      OBVIOUS
    <2>3. PICK x : x = row[u]
      OBVIOUS
    <2>4. m = [Idle(Depot) EXCEPT !.status = st, !.inside = host[u]]
      BY <1>1, <2>1, <2>2
    <2>5. m.status = st /\ m.at = Depot /\ m.walk = NoWalk /\ m.task = NoTask /\ m.inside = host[u] /\ m.pend = {}
      BY <2>4 DEF Idle
    <2>6. x = [status |-> st, at |-> Depot, walk |-> NoWalk, task |-> NoTask, host |-> host[u]]
      BY <1>1, <2>1, <2>3
    <2>7. At(m, x.at, x.status)
      BY <2>5, <2>6 DEF At
    <2>8. m.status # "GARRISONED" => m.inside = NoCity
      BY <2>1, <2>5
    <2>9. x.walk = m.walk /\ x.task = m.task /\ x.host = m.inside
      BY <2>5, <2>6
    <2>10. Explained(m, x, <<>>, <<>>, u)
      BY <2>5, <2>7, <2>8, <2>9, FreshExplained
    <2> QED
      BY <1>2, <2>2, <2>3, <2>10
  <1> QED
    BY <1>3 DEF Untangled

LEMMA NextUntangled == Inv /\ Untangled /\ [Next]_vars => Untangled'
  <1> SUFFICES ASSUME Inv, Untangled, [Next]_vars PROVE Untangled'
    OBVIOUS
  <1>1. ASSUME UNCHANGED <<ram, row, queue, inbox, lost, loose, crossed>> PROVE Untangled'
    BY <1>1 DEF Untangled, Clean
  <1>2. CASE UNCHANGED vars
    BY <1>1, <1>2 DEF vars
  <1>3. ASSUME NEW f \in Forest, Regrow(f) PROVE Untangled'
    BY <1>1, <1>3 DEF Regrow
  <1>4. ASSUME NEW u \in Unit, Order(u) PROVE Untangled'
    <2>1. ASSUME NEW to \in Tile, NEW from \in Tile, Move(u, to, from) PROVE Untangled'
      BY <2>1, MoveUntangled
    <2>2. ASSUME NEW from \in Tile, CancelMovement(u, from) PROVE Untangled'
      BY <2>2, CancelMovementUntangled
    <2>3. ASSUME NEW f \in Forest, NEW from \in Tile, Gather(u, f, from) PROVE Untangled'
      BY <2>3, GatherUntangled
    <2>4. ASSUME NEW c \in City, GarrisonUnit(u, c) PROVE Untangled'
      BY <2>4, GarrisonUnitUntangled
    <2>5. ASSUME NEW free \in BOOLEAN, UngarrisonUnit(u, free) \/ Expel(u, free) PROVE Untangled'
      <3>1. /\ ram[u].status = "GARRISONED"
            /\ Apply(u, IF free THEN Exit(Step(u)) ELSE [Step(u) EXCEPT !.u.exiting = TRUE], inbox)
        BY <2>5 DEF UngarrisonUnit, Expel
      <3> QED
        BY <3>1, ExitOrderUntangled
    <2> QED
      BY <1>4, <2>1, <2>2, <2>3, <2>4, <2>5 DEF Order
  <1>5. ASSUME NEW u \in Unit, Tick(u) PROVE Untangled'
    BY <1>5, ArriveUntangled, AdvanceTaskUntangled, RetryPendingExitUntangled, FlushDirtyUntangled DEF Tick
  <1>6. ASSUME NEW u \in Unit, Worker(u) PROVE Untangled'
    BY <1>6, CommitUntangled, CommitUnackedUntangled, GiveUpUntangled DEF Worker
  <1> QED
    BY <1>2, <1>3, <1>4, <1>5, <1>6, HandleUntangled, RestartUntangled DEF Next

\* The rows of a settled unit: nothing is left to explain them by but the memory.
LEMMA SettledRows ==
    ASSUME Inv, Untangled, NEW u \in Unit, Settled(u)
    PROVE  LET m == ram[u] r == row[u]
           IN /\ m \in Memory /\ Story(m) /\ r \in Rows
              /\ r.host = m.inside /\ r.walk = m.walk
              /\ Busy(m) => Holds(m, r)
              /\ m.walk = NoWalk => At(m, r.at, r.status)
  <1>1. PICK m \in Memory : m = ram[u] /\ Story(m)
    BY DEF Inv, TypeInv, RamType, Stories
  <1>2. PICK r \in Rows : r = row[u]
    BY DEF Inv, TypeInv, RowType
  <1>3. Clean(u) /\ Told(inbox, u) = {} /\ queue[u] = <<>> /\ m.pend = {} /\ ~m.dirty /\ ~m.entering
    BY <1>1 DEF Settled, Still, Clean, Told
  <1>4. Explained(m, r, <<>>, inbox, u)
    BY <1>1, <1>2, <1>3 DEF Untangled
  <1>5. \A i \in DOMAIN <<>> : FALSE
    OBVIOUS
  <1>6. \A i \in Nat : ~LeaveIn(<<>>, i) /\ ~EnterIn(<<>>, i) /\ ~ExitIn(inbox, u, i) /\ ~YesIn(inbox, u, i)
    BY <1>3, <1>5 DEF LeaveIn, EnterIn, ExitIn, YesIn, Told
  <1>7. r.walk.id \in {0, m.walk.id}
    BY <1>3, <1>4, <1>5 DEF Explained, Closed, Closing, Says
  <1>8. Busy(m) => Holds(m, r)
    BY <1>3, <1>4, <1>5 DEF Explained, Agreed, Fails, Says
  <1>9. m.walk = NoWalk => At(m, r.at, r.status)
    BY <1>3, <1>4, <1>5 DEF Explained, Placed
  <1>10. r.host = m.inside
    <2>1. Inside(m, r.host, <<>>, inbox, u) /\ Outside(m, r.host, <<>>, inbox, u)
      BY <1>4 DEF Explained, Housed
    <2>2. m.status = "GARRISONED" => r.host = m.inside
      BY <2>1 DEF Inside
    <2>3. m.status = "GARRISONED" \/ r.host = NoCity
      BY <1>6, <2>1 DEF Outside
    <2> QED
      BY <1>1, <2>2, <2>3 DEF Story
  <1>11. r.walk = m.walk
    <2>1. CASE m.walk = NoWalk
      <3>1. r.walk.id = 0 /\ r.walk \in Walk
        BY <1>7, <2>1, Nothing DEF Rows
      <3> QED
        BY <2>1, <3>1 DEF Walk
    <2>2. CASE m.walk # NoWalk
      <3>1. Busy(m) /\ m.status = "MOVING"
        BY <1>1, <2>2 DEF Busy, Story
      <3>2. Held(m) => IsLeg(m.task)
        BY <3>1 DEF Held
      <3> QED
        BY <1>8, <3>1, <3>2 DEF Holds
    <2> QED
      BY <2>1, <2>2
  <1> QED
    BY <1>1, <1>2, <1>8, <1>9, <1>10, <1>11

\* Whatever their rows, those of a settled unit rehydrate to the memory m.
LEMMA SettledRecovered ==
    ASSUME NEW m \in Memory, Story(m), NEW r \in Rows, r.host = m.inside, r.walk = m.walk,
           Busy(m) => Holds(m, r), m.walk = NoWalk => At(m, r.at, r.status)
    PROVE  LET z == Recovered(r, m.walk = NoWalk)
           IN /\ z.status = m.status /\ z.walk = m.walk /\ z.host = m.inside
              /\ m.walk = NoWalk => z.at = m.at
              /\ z.task = IF m.status = "WORKING" \/ IsLeg(m.task) THEN m.task ELSE NoTask
  <1>1. PICK late \in BOOLEAN : late = (m.walk = NoWalk)
    OBVIOUS
  <1>2. PICK c : c = Checked(r)
    OBVIOUS
  <1>3. PICK h : h = Hydrated(c, late)
    OBVIOUS
  <1>4. PICK z : z = Reconciled(h)
    OBVIOUS
  <1>5. z = Recovered(r, m.walk = NoWalk)
    BY <1>1, <1>2, <1>3, <1>4 DEF Recovered
  <1>6. /\ c \in Rows /\ c.walk = r.walk /\ c.at = r.at /\ c.host = r.host
        /\ r.host # NoCity => c.status = "GARRISONED" /\ c.task = NoTask
        /\ r.host = NoCity =>
             /\ c.task = IF r.task.phase = "WORKING" /\ r.status # "WORKING" THEN NoTask ELSE r.task
             /\ c.status = CASE r.status = "WORKING" -> (IF r.task.phase = "WORKING" THEN "WORKING" ELSE "IDLE")
                             [] r.status = "MOVING" -> "MOVING"
                             [] OTHER -> "IDLE"
    BY <1>2, CheckedFields
  <1>7. /\ h \in Rows /\ h.task = c.task /\ h.host = c.host
        /\ c.walk = NoWalk => h.walk = NoWalk /\ h.at = c.at /\ h.status = IF c.status = "MOVING" THEN "IDLE" ELSE c.status
        /\ c.walk # NoWalk /\ c.status # "GARRISONED" /\ ~late => h.walk = c.walk /\ h.at = c.at /\ h.status = "MOVING"
    <2>1. c \in Rows
      BY <1>6
    <2>2. /\ h \in Rows /\ h.task = c.task /\ h.host = c.host
          /\ c.walk = NoWalk => h.walk = NoWalk /\ h.at = c.at /\ h.status = IF c.status = "MOVING" THEN "IDLE" ELSE c.status
          /\ c.walk # NoWalk /\ c.status # "GARRISONED" =>
               \/ h.walk = c.walk /\ h.at = c.at /\ h.status = "MOVING"
               \/ late /\ ~IsLeg(c.task) /\ h.walk = NoWalk /\ h.status = "IDLE"
      BY ONLY <1>3, <2>1, HydratedFields
    <2> QED
      BY <2>2
  <1>8. /\ z \in Rows /\ z.walk = h.walk /\ z.at = h.at /\ z.host = h.host
        /\ IsLeg(h.task) /\ h.walk = NoWalk => z.task = NoTask /\ z.status = "IDLE"
        /\ h.task.phase = "WORKING" /\ (h.status # "WORKING" \/ h.at # h.task.target) =>
             z.task = NoTask /\ z.status = IF h.walk = NoWalk THEN "IDLE" ELSE h.status
        /\ \/ IsLeg(h.task) /\ h.walk = NoWalk
           \/ h.task.phase = "WORKING" /\ (h.status # "WORKING" \/ h.at # h.task.target)
           \/ z = h
    BY <1>4, <1>7, ReconciledFields
  <1>9. z.host = m.inside
    BY <1>6, <1>7, <1>8
  <1>10. /\ m.status \in Status /\ m.task \in Task
         /\ m.status = "MOVING" <=> m.walk # NoWalk
         /\ m.status = "GARRISONED" <=> m.inside # NoCity
         /\ IsLeg(m.task) => m.walk # NoWalk
    <2>1. m.status \in Status /\ m.task \in Task
      BY DEF Memory
    <2>2. ASSUME IsLeg(m.task) PROVE m.walk # NoWalk
      <3>1. m.walk = LegOf(m.task)
        BY <2>2 DEF Story
      <3>2. m.task.rev # 0
        BY <2>1, <2>2 DEF Task, IsLeg, NoTask
      <3> QED
        BY <3>1, <3>2, Nothing DEF LegOf
    <2> QED
      BY <2>1, <2>2 DEF Story
  <1>11. r.task \in Task /\ h.task \in Task
    BY <1>7 DEF Rows
  <1>12. \A t \in Task : t.phase \in {"NONE", "TO_RESOURCE", "WORKING", "TO_DEPOSIT"} /\ (t.phase = "NONE" => t = NoTask)
    BY Nothing DEF Task, TaskType
  <1>13. CASE m.status = "GARRISONED"
    <2>1. m.walk = NoWalk /\ r.host # NoCity /\ r.at = m.at
      BY <1>10, <1>13 DEF At
    <2>2. c.status = "GARRISONED" /\ c.task = NoTask /\ c.walk = NoWalk /\ c.at = m.at
      BY <1>6, <2>1
    <2>3. h.status = "GARRISONED" /\ h.task = NoTask /\ h.walk = NoWalk /\ h.at = m.at
      BY <1>7, <2>2
    <2>4. z = h
      BY <1>8, <2>3, Nothing
    <2>5. ~(m.status = "WORKING" \/ IsLeg(m.task))
      BY <1>10, <1>13, <2>1
    <2> QED
      BY <1>5, <1>9, <1>13, <2>1, <2>3, <2>4, <2>5
  <1>14. CASE m.status = "IDLE"
    <2>1. m.walk = NoWalk /\ r.host = NoCity /\ r.at = m.at /\ r.status # "WORKING"
      BY <1>10, <1>14 DEF At
    <2>2. c.task.phase # "WORKING" /\ c.status \in {"MOVING", "IDLE"} /\ c.walk = NoWalk /\ c.at = m.at
      BY <1>6, <2>1, Nothing
    <2>3. h.status = "IDLE" /\ h.task.phase # "WORKING" /\ h.walk = NoWalk /\ h.at = m.at
      BY <1>7, <2>2
    <2>4. z.status = "IDLE" /\ z.task = NoTask
      <3>1. CASE IsLeg(h.task)
        BY <1>8, <2>3, <3>1
      <3>2. CASE ~IsLeg(h.task)
        <4>1. z = h
          BY <1>8, <2>3, <3>2
        <4>2. h.task.phase = "NONE"
          BY <1>11, <1>12, <2>3, <3>2 DEF IsLeg
        <4> QED
          BY <1>11, <1>12, <2>3, <4>1, <4>2
      <3> QED
        BY <3>1, <3>2
    <2>5. ~(m.status = "WORKING" \/ IsLeg(m.task))
      BY <1>10, <1>14, <2>1
    <2> QED
      BY <1>5, <1>8, <1>9, <1>14, <2>1, <2>3, <2>4, <2>5
  <1>15. CASE m.status = "WORKING"
    <2>1. m.walk = NoWalk /\ r.host = NoCity /\ r.at = m.at /\ r.status = "WORKING"
      BY <1>10, <1>15 DEF At
    <2>2. r.task = m.task /\ m.task.phase = "WORKING" /\ m.at = m.task.target
      BY <1>15 DEF Busy, Held, Holds, Story
    <2>3. c.status = "WORKING" /\ c.task = m.task /\ c.walk = NoWalk /\ c.at = m.at
      BY <1>6, <2>1, <2>2
    <2>4. h.status = "WORKING" /\ h.task = m.task /\ h.walk = NoWalk /\ h.at = m.at
      BY <1>7, <2>3
    <2>5. z = h
      BY <1>8, <2>2, <2>4 DEF IsLeg
    <2> QED
      BY <1>5, <1>9, <1>15, <2>1, <2>4, <2>5
  <1>16. CASE m.status = "MOVING"
    <2>1. m.walk # NoWalk /\ ~late /\ r.host = NoCity /\ Holds(m, r)
      BY <1>1, <1>10, <1>16 DEF Busy
    <2>2. c.walk = m.walk /\ c.status # "GARRISONED"
      BY <1>6, <2>1
    <2>3. h.walk = m.walk /\ h.status = "MOVING" /\ h.task = c.task
      BY <1>7, <2>1, <2>2
    <2>4. CASE IsLeg(m.task)
      <3>1. r.task = m.task /\ m.task.phase # "WORKING"
        BY <2>1, <2>4 DEF Holds, Held, IsLeg
      <3>2. h.task = m.task
        BY <1>6, <2>1, <2>3, <3>1
      <3>3. z = h
        BY <1>8, <2>1, <2>3, <3>1, <3>2
      <3> QED
        BY <1>5, <1>9, <1>16, <2>1, <2>3, <2>4, <3>2, <3>3
    <2>5. CASE ~IsLeg(m.task)
      <3>1. ~IsLeg(r.task)
        BY <1>16, <2>1, <2>5 DEF Holds, Held
      <3>2. ~IsLeg(h.task)
        BY <1>6, <2>1, <2>3, <3>1, Nothing
      <3>3. z.status = "MOVING" /\ z.task = NoTask
        <4>1. CASE h.task.phase = "WORKING"
          BY <1>8, <2>1, <2>3, <4>1
        <4>2. CASE h.task.phase # "WORKING"
          <5>1. h.task = NoTask
            BY <1>11, <1>12, <3>2, <4>2 DEF IsLeg
          <5>2. z = h
            BY <1>8, <2>3, <3>2, <4>2
          <5> QED
            BY <2>3, <5>1, <5>2
        <4> QED
          BY <4>1, <4>2
      <3> QED
        BY <1>5, <1>8, <1>9, <1>16, <2>1, <2>3, <2>5, <3>3
    <2> QED
      BY <2>4, <2>5
  <1> QED
    BY <1>10, <1>13, <1>14, <1>15, <1>16 DEF Status

LEMMA InvRestart == Inv /\ Untangled => RestartChangesNothing
  <1> SUFFICES ASSUME Inv, Untangled, NEW u \in Unit, Settled(u)
               PROVE  LET r == Recovered(row[u], ram[u].walk = NoWalk)
                      IN /\ r.status = ram[u].status /\ r.walk = ram[u].walk /\ r.host = ram[u].inside
                         /\ ram[u].walk = NoWalk => r.at = ram[u].at
                         /\ r.task = IF ram[u].status = "WORKING" \/ IsLeg(ram[u].task)
                                     THEN ram[u].task ELSE NoTask
    BY DEF RestartChangesNothing
  <1>1. PICK m : m = ram[u]
    OBVIOUS
  <1>2. PICK x : x = row[u]
    OBVIOUS
  <1>3. /\ m \in Memory /\ Story(m) /\ x \in Rows /\ x.host = m.inside /\ x.walk = m.walk
        /\ (Busy(m) => Holds(m, x)) /\ (m.walk = NoWalk => At(m, x.at, x.status))
    BY <1>1, <1>2, SettledRows
  <1>4. LET z == Recovered(x, m.walk = NoWalk)
        IN /\ z.status = m.status /\ z.walk = m.walk /\ z.host = m.inside
           /\ m.walk = NoWalk => z.at = m.at
           /\ z.task = IF m.status = "WORKING" \/ IsLeg(m.task) THEN m.task ELSE NoTask
    BY <1>3, SettledRecovered
  <1> QED
    BY <1>1, <1>2, <1>4

\* Whatever the rows of a unit say is explained by its memory, its queue and its inbox,
\* in every reachable state.
THEOREM UnitsUntangled == Spec => []Untangled
  BY UnitsInv, InitUntangled, NextUntangled, PTL DEF Spec

\* A restart changes nothing of a unit whose writes ended.
THEOREM UnitsRestartChangesNothing == Spec => []RestartChangesNothing
  BY UnitsInv, UnitsUntangled, InvRestart, PTL
=============================================================================
