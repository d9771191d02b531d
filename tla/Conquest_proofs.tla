-------------------------- MODULE Conquest_proofs ---------------------------
(***************************************************************************)
(* Proofs about Conquest, for any players, warriors, territories, homes,   *)
(* capacities and numbers of claims, failures and restarts.                *)
(***************************************************************************)
EXTENDS Conquest, FiniteSetTheorems, TLAPS

-----------------------------------------------------------------------------
(* The inductive invariant.                                                *)

Jobs == [kind: {"start", "end", "capture"}, id: ClaimId, from: Control, keys: SUBSET Player]
Asked(n) == n \in 1..Len(asked)

QueueShape ==
    /\ queue \in [Player -> Seq(Jobs)]
    /\ \A p \in Player : \A i \in 1..Len(queue[p]) : p \in queue[p][i].keys
    /\ \A p \in Player : \A i, k \in 1..Len(queue[p]) :
          queue[p][i] = queue[p][k] /\ queue[p][i].kind # "end" => i = k
JobsAsked ==
    \A j \in Queued(queue) :
        Asked(j.id) /\ j = Job(j.kind, j.id, j.from) /\ (j.kind # "capture" => j.from = NoControl)

TypeInv ==
    /\ step \in -2..Flushing
    /\ asked \in Seq([unit: Unit, terr: Territory]) /\ Len(asked) <= MaxClaims
    /\ status \in [Unit -> Status] /\ at \in [Unit -> Territory]
    /\ claims \in [Territory -> Claim]
    /\ pendingEnds \subseteq ClaimId /\ pendingCaptures \subseteq Territory
    /\ control \in [Territory -> Control] /\ dbControl \in [Territory -> Control]
    /\ present \subseteq Player /\ dbPresent \subseteq Player /\ barred \subseteq Player
    /\ inbox \subseteq Message /\ lost \subseteq Message \cup Introduction /\ news \subseteq Introduction
    /\ row \in [ClaimId -> {"none", "ACTIVE", "COMPLETED", "FAILED"}]
    /\ contested \subseteq Territory /\ phantom \subseteq ClaimId

\* An id belongs to one order to claim, and a claim is in its territory.
ClaimShape ==
    /\ \A n \in ClaimId : row[n] # "none" => Asked(n)
    /\ \A t \in Territory : LET c == claims[t] IN
          /\ c.id = 0 => c = NoClaim
          /\ c.id # 0 => Asked(c.id) /\ TerrOf(c.id) = t
          /\ c.capturing => ~c.pending

\* A claim whose start has not been answered: one job or one message.
StartQueued(n) == \E j \in Queued(queue) : j.kind = "start" /\ j.id = n
Waits(n) == claims[TerrOf(n)].id = n /\ claims[TerrOf(n)].pending
StartsAlone ==
    /\ \A n \in ClaimId : StartQueued(n) => Waits(n)
    /\ \A m \in inbox : m.kind = "started" =>
          /\ Asked(m.id) /\ Waits(m.id) /\ ~StartQueued(m.id)
          /\ IF m.ok THEN Active(m.id) ELSE row[m.id] = "none" \/ m.id \in phantom
          /\ \A o \in inbox : o.kind = "started" /\ o.id = m.id => o = m
    /\ \A t \in Territory : claims[t].pending => row[claims[t].id] \in {"none", "ACTIVE"}

\* A claim that ends is no longer in RAM.
Ends(n) ==
    \/ n \in pendingEnds
    \/ \E j \in Queued(queue) : j.kind = "end" /\ j.id = n
    \/ \E m \in inbox : m.kind = "endFailed" /\ m.id = n
EndedIsGone == \A n \in ClaimId : Ends(n) => Asked(n) /\ claims[TerrOf(n)].id # n

\* A capture that has not been answered: one job, one retry or one message.
CaptureKinds == {"captured", "conflict", "captureFailed"}
Answered(t) == \E m \in inbox : m.kind \in CaptureKinds /\ m.terr = t
CapturesAlone ==
    /\ \A j \in Queued(queue) : j.kind = "capture" =>
          LET t == TerrOf(j.id) IN
          /\ claims[t].id = j.id /\ claims[t].capturing /\ claims[t].from = j.from
          /\ t \notin pendingCaptures /\ ~Answered(t)
    /\ \A t \in pendingCaptures : claims[t].capturing /\ ~Answered(t)
    /\ \A m \in inbox : m.kind \in CaptureKinds =>
          /\ claims[m.terr].capturing
          /\ m.kind = "captured" => row[claims[m.terr].id] = "COMPLETED" /\ m.control = dbControl[m.terr]
          /\ m.kind = "conflict" => row[claims[m.terr].id] # "COMPLETED"
          /\ \A o \in inbox : o.kind \in CaptureKinds /\ o.terr = m.terr => o = m

OneActive == \A n, o \in ClaimId : Active(n) /\ Active(o) /\ TerrOf(n) = TerrOf(o) => n = o

\* What a foundation took is its player's for good, and the loop still has it free.
Foundations == {m \in news \cup (lost \cap Introduction) : m.control # NoControl}
FoundedStays ==
    \A m \in Foundations : LET t == Home[m.player] IN
        /\ t \in Territory /\ m.control = dbControl[t]
        /\ dbControl[t].owner = m.player /\ m.player \in dbPresent
        /\ m \in news => control[t].owner = None /\ control[t].version < dbControl[t].version

\* RAM is behind the database by one foundation or one capture at most.
Completed(t) == claims[t].capturing /\ row[claims[t].id] = "COMPLETED"
ControlInv ==
    \A t \in Territory :
        /\ control[t] = dbControl[t] \/ NewsOf(t) \/ Completed(t)
        /\ Completed(t) =>
              /\ dbControl[t].owner = PlayerOf(claims[t].id) /\ control[t] = claims[t].from
              /\ \A m \in Foundations : Home[m.player] # t
        /\ claims[t].capturing /\ ~Completed(t) =>
              claims[t].from = control[t] \/ claims[t].from.version < dbControl[t].version

Inv ==
    /\ TypeInv /\ QueueShape /\ JobsAsked /\ ClaimShape
    /\ StartsAlone /\ EndedIsGone /\ CapturesAlone /\ OneActive
    /\ FoundedStays /\ ControlInv /\ LimitsAgree
    /\ ConfirmedHasRow /\ PlantedHasClaim /\ ContestedIsActive
    /\ RowTracked /\ AnswerAwaited

-----------------------------------------------------------------------------
(* Queues as sets of jobs.                                                 *)

LEMMA QueuedIs ==
    ASSUME NEW q \in [Player -> Seq(Jobs)]
    PROVE  \A x : x \in Queued(q) <=> \E p \in Player : \E i \in 1..Len(q[p]) : x = q[p][i]
  <1>1. \A p \in Player : DOMAIN q[p] = 1..Len(q[p])
    OBVIOUS
  <1> QED
    BY <1>1 DEF Queued

LEMMA QueuedJobs == ASSUME QueueShape PROVE Queued(queue) \subseteq Jobs
  <1>1. queue \in [Player -> Seq(Jobs)]
    BY DEF QueueShape
  <1>2. \A p \in Player : \A i \in 1..Len(queue[p]) : queue[p][i] \in Jobs
    BY <1>1
  <1> QED
    BY <1>1, <1>2, QueuedIs

LEMMA AppendFacts ==
    ASSUME NEW S, NEW s \in Seq(S), NEW e \in S
    PROVE  /\ Append(s, e) \in Seq(S) /\ Len(s) \in Nat /\ Len(Append(s, e)) = Len(s) + 1
           /\ Append(s, e)[Len(s) + 1] = e /\ \A i \in 1..Len(s) : Append(s, e)[i] = s[i]
  OBVIOUS

LEMMA ElementFacts ==
    ASSUME NEW S, NEW s \in Seq(S)
    PROVE  Len(s) \in Nat /\ \A i \in 1..Len(s) : s[i] \in S
  OBVIOUS

LEMMA TailFacts ==
    ASSUME NEW S, NEW s \in Seq(S), s # <<>>
    PROVE  /\ Tail(s) \in Seq(S) /\ Len(s) \in Nat /\ Len(s) >= 1 /\ Len(Tail(s)) = Len(s) - 1
           /\ Head(s) = s[1] /\ s[1] \in S /\ \A i \in 1..Len(Tail(s)) : Tail(s)[i] = s[i + 1]
  OBVIOUS

LEMMA JobEnqueued ==
    ASSUME QueueShape, NEW j \in Jobs, j.keys # {}, j.kind = "end" \/ j \notin Queued(queue),
           queue' = Enqueued(queue, j)
    PROVE  QueueShape' /\ Queued(queue)' = Queued(queue) \cup {j}
  <1>1. queue \in [Player -> Seq(Jobs)]
    BY DEF QueueShape
  <1>2. \A p \in Player : queue'[p] = IF p \in j.keys THEN Append(queue[p], j) ELSE queue[p]
    BY <1>1 DEF Enqueued
  <1>3. queue' \in [Player -> Seq(Jobs)]
    BY <1>1 DEF Enqueued
  <1>4. ASSUME NEW p \in Player
        PROVE  /\ Len(queue[p]) \in Nat
               /\ p \in j.keys => /\ Len(queue'[p]) = Len(queue[p]) + 1
                                  /\ queue'[p][Len(queue[p]) + 1] = j
                                  /\ \A i \in 1..Len(queue[p]) : queue'[p][i] = queue[p][i]
    <2>1. queue[p] \in Seq(Jobs)
      BY <1>1
    <2> DEFINE s == queue[p]
               a == Append(s, j)
    <2>2. /\ Len(s) \in Nat /\ Len(a) = Len(s) + 1
          /\ a[Len(s) + 1] = j /\ \A i \in 1..Len(s) : a[i] = s[i]
      BY <2>1, AppendFacts
    <2>3. p \in j.keys => queue'[p] = a
      BY <1>2
    <2> HIDE DEF a
    <2> QED
      BY <2>2, <2>3
  <1>5. ASSUME NEW p \in Player, NEW i \in 1..Len(queue'[p])
        PROVE  \/ i \in 1..Len(queue[p]) /\ queue'[p][i] = queue[p][i]
               \/ p \in j.keys /\ i = Len(queue[p]) + 1 /\ queue'[p][i] = j
    BY <1>2, <1>4
  <1>6. \A p \in Player : \A i \in 1..Len(queue[p]) : i \in 1..Len(queue'[p]) /\ queue'[p][i] = queue[p][i]
    BY <1>2, <1>4
  <1>7. \A p \in j.keys : p \in Player /\ Len(queue[p]) + 1 \in 1..Len(queue'[p]) /\ queue'[p][Len(queue[p]) + 1] = j
    BY <1>4 DEF Jobs
  <1>8. Queued(queue') = Queued(queue) \cup {j}
    <2>1. \A x : x \in Queued(queue') <=> \E p \in Player : \E i \in 1..Len(queue'[p]) : x = queue'[p][i]
      BY <1>3, QueuedIs
    <2>2. \A x : x \in Queued(queue) <=> \E p \in Player : \E i \in 1..Len(queue[p]) : x = queue[p][i]
      BY <1>1, QueuedIs
    <2>3. \A x \in Queued(queue') : x \in Queued(queue) \cup {j}
      BY <1>5, <2>1, <2>2
    <2>4. \A x \in Queued(queue) : x \in Queued(queue')
      BY <1>6, <2>1, <2>2
    <2>5. j \in Queued(queue')
      BY <1>7, <2>1
    <2> QED
      BY <2>3, <2>4, <2>5
  <1>9. \A p \in Player : \A i \in 1..Len(queue'[p]) : p \in queue'[p][i].keys
    BY <1>5 DEF QueueShape
  <1>10. ASSUME NEW p \in Player, NEW i \in 1..Len(queue'[p]), NEW k \in 1..Len(queue'[p]),
                queue'[p][i] = queue'[p][k], queue'[p][i].kind # "end"
         PROVE  i = k
    <2>1. j.kind # "end" => \A n \in 1..Len(queue[p]) : queue[p][n] # j
      BY <1>1, QueuedIs
    <2> QED
      BY <1>5, <1>10, <2>1 DEF QueueShape
  <1> QED
    BY <1>3, <1>8, <1>9, <1>10 DEF QueueShape

\* The head of all its queues is taken: it is gone, unless it is an end.
LEMMA JobDequeued ==
    ASSUME QueueShape, NEW p \in Player, Runnable(queue, p), queue' = Dequeued(queue, Head(queue[p]))
    PROVE  /\ QueueShape' /\ Queued(queue') \subseteq Queued(queue)
           /\ Queued(queue) \ {Head(queue[p])} \subseteq Queued(queue')
           /\ Head(queue[p]).kind # "end" => Head(queue[p]) \notin Queued(queue')
  <1> DEFINE j == Head(queue[p])
  <1>1. queue \in [Player -> Seq(Jobs)]
    BY DEF QueueShape
  <1>2. j \in Jobs /\ \A l \in j.keys : l \in Player /\ queue[l] # <<>> /\ Head(queue[l]) = j
    <2>1. j \in Jobs
      BY <1>1 DEF Runnable
    <2> QED
      BY <2>1 DEF Runnable, Jobs
  <1>3. \A l \in Player : queue'[l] = IF l \in j.keys THEN Tail(queue[l]) ELSE queue[l]
    BY <1>1 DEF Dequeued
  <1> HIDE DEF j
  <1>4. ASSUME NEW l \in Player
        PROVE  /\ Len(queue[l]) \in Nat /\ Len(queue'[l]) \in Nat
               /\ l \in j.keys => /\ Len(queue[l]) >= 1 /\ Len(queue'[l]) = Len(queue[l]) - 1
                                  /\ queue[l][1] = j
                                  /\ \A i \in 1..Len(queue'[l]) : queue'[l][i] = queue[l][i + 1]
    <2>1. CASE l \in j.keys
      <3> DEFINE s == queue[l]
                 r == Tail(s)
      <3>1. queue'[l] = r /\ s # <<>> /\ s \in Seq(Jobs) /\ Head(s) = j
        BY <1>1, <1>2, <1>3, <2>1
      <3>2. /\ Len(s) \in Nat /\ Len(s) >= 1 /\ Len(r) = Len(s) - 1
            /\ Head(s) = s[1] /\ \A i \in 1..Len(r) : r[i] = s[i + 1]
        BY <3>1, TailFacts
      <3> HIDE DEF r
      <3> QED
        BY <2>1, <3>1, <3>2
    <2>2. CASE l \notin j.keys
      <3>1. queue'[l] = queue[l] /\ queue[l] \in Seq(Jobs)
        BY <1>1, <1>3, <2>2
      <3> QED
        BY <2>2, <3>1
    <2> QED
      BY <2>1, <2>2
  <1>5. queue' \in [Player -> Seq(Jobs)]
    <2>1. ASSUME NEW l \in Player PROVE queue'[l] \in Seq(Jobs)
      <3>1. queue[l] \in Seq(Jobs)
        BY <1>1
      <3>2. l \in j.keys => queue'[l] = Tail(queue[l]) /\ queue[l] # <<>>
        BY <1>2, <1>3
      <3>3. l \notin j.keys => queue'[l] = queue[l]
        BY <1>3
      <3>4. queue[l] # <<>> => Tail(queue[l]) \in Seq(Jobs)
        BY <3>1
      <3> QED
        BY <3>1, <3>2, <3>3, <3>4
    <2>2. queue' = [l \in Player |-> queue'[l]]
      BY <1>1 DEF Dequeued
    <2> QED
      BY <2>1, <2>2
  <1> DEFINE src(l, i) == IF l \in j.keys THEN i + 1 ELSE i
  <1>6. \A l \in Player : \A i \in 1..Len(queue'[l]) :
          src(l, i) \in 1..Len(queue[l]) /\ queue'[l][i] = queue[l][src(l, i)] /\ (l \in j.keys => src(l, i) # 1)
    BY <1>3, <1>4
  <1>7. \A l \in Player : \A i, k \in 1..Len(queue'[l]) : src(l, i) = src(l, k) => i = k
    BY <1>4
  <1>8. \A l \in Player : \A i \in 1..Len(queue[l]) :
          queue[l][i] = j \/ \E k \in 1..Len(queue'[l]) : queue'[l][k] = queue[l][i]
    <2> SUFFICES ASSUME NEW l \in Player, NEW i \in 1..Len(queue[l]), queue[l][i] # j
                 PROVE  \E k \in 1..Len(queue'[l]) : queue'[l][k] = queue[l][i]
      OBVIOUS
    <2>1. CASE l \in j.keys
      <3>1. i # 1 /\ i - 1 \in 1..Len(queue'[l]) /\ (i - 1) + 1 = i
        BY <1>4, <2>1
      <3> QED
        BY <1>4, <2>1, <3>1
    <2>2. CASE l \notin j.keys
      BY <1>3, <2>2
    <2> QED
      BY <2>1, <2>2
  <1> HIDE DEF src
  <1>9. \A x : x \in Queued(queue') <=> \E l \in Player : \E i \in 1..Len(queue'[l]) : x = queue'[l][i]
    BY <1>5, QueuedIs
  <1>10. \A x : x \in Queued(queue) <=> \E l \in Player : \E i \in 1..Len(queue[l]) : x = queue[l][i]
    BY <1>1, QueuedIs
  <1>11. Queued(queue') \subseteq Queued(queue)
    BY <1>6, <1>9, <1>10
  <1>12. Queued(queue) \ {j} \subseteq Queued(queue')
    BY <1>8, <1>9, <1>10
  <1>13. \A l \in Player : \A i \in 1..Len(queue'[l]) : l \in queue'[l][i].keys
    BY <1>6 DEF QueueShape
  <1>14. \A l \in Player : \A i, k \in 1..Len(queue'[l]) :
           queue'[l][i] = queue'[l][k] /\ queue'[l][i].kind # "end" => i = k
    <2> SUFFICES ASSUME NEW l \in Player, NEW i \in 1..Len(queue'[l]), NEW k \in 1..Len(queue'[l]),
                        queue'[l][i] = queue'[l][k], queue'[l][i].kind # "end"
                 PROVE  i = k
      OBVIOUS
    <2>1. /\ src(l, i) \in 1..Len(queue[l]) /\ queue'[l][i] = queue[l][src(l, i)]
          /\ src(l, k) \in 1..Len(queue[l]) /\ queue'[l][k] = queue[l][src(l, k)]
      BY <1>6
    <2>2. src(l, i) = src(l, k)
      BY <2>1 DEF QueueShape
    <2> QED
      BY <1>7, <2>2
  <1>15. QueueShape'
    BY <1>5, <1>13, <1>14 DEF QueueShape
  <1>16. ASSUME j.kind # "end", j \in Queued(queue') PROVE FALSE
    <2>1. PICK l \in Player : \E i \in 1..Len(queue'[l]) : j = queue'[l][i]
      BY <1>9, <1>16
    <2>2. PICK i \in 1..Len(queue'[l]) : j = queue'[l][i]
      BY <2>1
    <2>3. l \in j.keys
      BY <1>13, <2>2
    <2>4. queue[l][1] = j /\ queue[l][src(l, i)] = j /\ src(l, i) \in 1..Len(queue[l]) /\ src(l, i) # 1
      BY <1>4, <1>6, <2>2, <2>3
    <2>5. 1 \in 1..Len(queue[l])
      BY <1>4, <2>3
    <2> QED
      BY <1>16, <2>4, <2>5 DEF QueueShape
  <1> QED
    BY <1>11, <1>12, <1>15, <1>16 DEF j

LEMMA HeadQueued ==
    ASSUME QueueShape, NEW p \in Player, Runnable(queue, p)
    PROVE  Head(queue[p]) \in Queued(queue) /\ Head(queue[p]) \in Jobs
  <1>1. queue \in [Player -> Seq(Jobs)] /\ queue[p] # <<>>
    BY DEF QueueShape, Runnable
  <1>2. 1 \in 1..Len(queue[p]) /\ Head(queue[p]) = queue[p][1]
    BY <1>1
  <1> QED
    BY <1>1, <1>2, QueuedIs

-----------------------------------------------------------------------------
(* What is put in the mail is queued, delivered or lost.                   *)

LEMMA Posted ==
    ASSUME NEW taken, NEW msgs, Post(taken, msgs)
    PROVE  \E kept \in SUBSET msgs : inbox' = (inbox \ taken) \cup kept /\ lost' = lost \cup (msgs \ kept)
  <1>1. Keeps(inbox \ taken, msgs, InboxCap) \subseteq SUBSET msgs
    BY DEF Keeps
  <1> QED
    BY <1>1 DEF Post

LEMMA Submitted ==
    ASSUME QueueShape, NEW taken, NEW j \in Jobs, j.keys # {}, j.kind = "end" \/ j \notin Queued(queue),
           Submit(taken, j)
    PROVE  /\ QueueShape'
           /\ \/ Queued(queue)' = Queued(queue) \cup {j} /\ inbox' = inbox \ taken /\ lost' = lost
              \/ /\ Queued(queue)' = Queued(queue)
                 /\ \/ inbox' = (inbox \ taken) \cup {FailureOf(j)} /\ lost' = lost
                    \/ inbox' = inbox \ taken /\ lost' = lost \cup {FailureOf(j)}
  <1>1. CASE Fits(queue, j, QueueCap)
    <2>1. queue' = Enqueued(queue, j) /\ inbox' = inbox \ taken /\ lost' = lost
      BY <1>1 DEF Submit
    <2> QED
      BY <2>1, JobEnqueued
  <1>2. CASE ~Fits(queue, j, QueueCap)
    <2>1. Post(taken, {FailureOf(j)}) /\ queue' = queue
      BY <1>2 DEF Submit
    <2>2. PICK kept \in SUBSET {FailureOf(j)} :
            inbox' = (inbox \ taken) \cup kept /\ lost' = lost \cup ({FailureOf(j)} \ kept)
      BY <2>1, Posted
    <2>3. kept = {} \/ kept = {FailureOf(j)}
      OBVIOUS
    <2>4. QueueShape' /\ Queued(queue)' = Queued(queue)
      BY <2>1 DEF QueueShape
    <2> QED
      BY <2>2, <2>3, <2>4
  <1> QED
    BY <1>1, <1>2

-----------------------------------------------------------------------------
(* Claims, jobs and messages.                                              *)

LEMMA AskedFacts ==
    ASSUME TypeInv
    PROVE  /\ Len(asked) \in Nat /\ \A n : Asked(n) => n \in ClaimId
           /\ \A n : Asked(n) => TerrOf(n) \in Territory /\ UnitOf(n) \in Unit /\ PlayerOf(n) \in Player
  <1>1. asked \in Seq([unit: Unit, terr: Territory]) /\ Len(asked) <= MaxClaims /\ MaxClaims \in Nat
    BY ConquestAssumption DEF TypeInv
  <1>2. \A n \in 1..Len(asked) : asked[n] \in [unit: Unit, terr: Territory]
    BY <1>1, ElementFacts
  <1>3. UnitOwner \in [Unit -> Player]
    BY ConquestAssumption
  <1> QED
    BY <1>1, <1>2, <1>3 DEF Asked, ClaimId, TerrOf, UnitOf, PlayerOf

LEMMA JobTyped ==
    ASSUME TypeInv, NEW n, Asked(n), NEW kind \in {"start", "end", "capture"}, NEW from \in Control
    PROVE  Job(kind, n, from) \in Jobs /\ Job(kind, n, from).keys # {}
  <1>1. n \in ClaimId /\ PlayerOf(n) \in Player
    BY AskedFacts
  <1>2. from.owner \in Player \cup {None}
    BY DEF Control
  <1> QED
    BY <1>1, <1>2 DEF Job, Jobs

LEMMA NoControlTyped == NoControl \in Control
  BY DEF NoControl, Control

LEMMA FailureTyped ==
    ASSUME TypeInv, NEW j \in Jobs, Asked(j.id)
    PROVE  /\ FailureOf(j) \in Message
           /\ j.kind = "start" => FailureOf(j) = [kind |-> "started", id |-> j.id, ok |-> FALSE]
           /\ j.kind = "end" => FailureOf(j) = [kind |-> "endFailed", id |-> j.id]
           /\ j.kind = "capture" => FailureOf(j) = [kind |-> "captureFailed", terr |-> TerrOf(j.id)]
  <1>1. j.kind \in {"start", "end", "capture"} /\ j.id \in ClaimId /\ TerrOf(j.id) \in Territory
    BY AskedFacts DEF Jobs
  <1>2. /\ j.kind = "start" => FailureOf(j) = [kind |-> "started", id |-> j.id, ok |-> FALSE]
        /\ j.kind = "end" => FailureOf(j) = [kind |-> "endFailed", id |-> j.id]
        /\ j.kind = "capture" => FailureOf(j) = [kind |-> "captureFailed", terr |-> TerrOf(j.id)]
    BY DEF FailureOf
  <1>3. j.kind = "start" => FailureOf(j) \in [kind: {"started"}, id: ClaimId, ok: BOOLEAN]
    <2>1. \A n \in ClaimId : [kind |-> "started", id |-> n, ok |-> FALSE] \in [kind: {"started"}, id: ClaimId, ok: BOOLEAN]
      OBVIOUS
    <2> QED
      BY <1>1, <1>2, <2>1
  <1>4. j.kind = "end" => FailureOf(j) \in [kind: {"endFailed"}, id: ClaimId]
    BY <1>1, <1>2
  <1>5. j.kind = "capture" => FailureOf(j) \in [kind: {"conflict", "captureFailed"}, terr: Territory]
    BY <1>1, <1>2
  <1> QED
    BY <1>1, <1>2, <1>3, <1>4, <1>5 DEF Message

LEMMA MessageIs ==
    ASSUME NEW m \in Message
    PROVE  /\ m.kind \in {"started", "endFailed"} \cup CaptureKinds
           /\ m.kind = "started" => m.id \in ClaimId /\ m.ok \in BOOLEAN
                                      /\ m = [kind |-> "started", id |-> m.id, ok |-> m.ok]
           /\ m.kind = "endFailed" => m.id \in ClaimId /\ m = [kind |-> "endFailed", id |-> m.id]
           /\ m.kind \in CaptureKinds => m.terr \in Territory
           /\ m.kind = "captured" => m.control \in Control
  <1>1. CASE m \in [kind: {"started"}, id: ClaimId, ok: BOOLEAN]
    BY <1>1 DEF CaptureKinds
  <1>2. CASE m \in [kind: {"endFailed"}, id: ClaimId]
    BY <1>2 DEF CaptureKinds
  <1>3. CASE m \in [kind: {"captured"}, terr: Territory, control: Control]
    BY <1>3 DEF CaptureKinds
  <1>4. CASE m \in [kind: {"conflict", "captureFailed"}, terr: Territory]
    BY <1>4 DEF CaptureKinds
  <1> QED
    BY <1>1, <1>2, <1>3, <1>4 DEF Message

LEMMA NotIntroduction == \A m \in Introduction : m \notin Message
  <1> SUFFICES ASSUME NEW m \in Introduction, m \in Message PROVE FALSE
    OBVIOUS
  <1>1. DOMAIN m = {"player", "control"}
    BY DEF Introduction
  <1>2. "kind" \in DOMAIN m
    BY DEF Message
  <1> QED
    BY <1>1, <1>2

-----------------------------------------------------------------------------
(* What each part of the invariant depends on.                             *)

LEMMA QueueFrame == ASSUME QueueShape, UNCHANGED queue PROVE QueueShape' /\ Queued(queue)' = Queued(queue)
  BY DEF QueueShape

LEMMA JobsFrame == ASSUME JobsAsked, UNCHANGED <<queue, asked>> PROVE JobsAsked'
  BY DEF JobsAsked, Asked, Job, PlayerOf

LEMMA ClaimFrame == ASSUME ClaimShape, UNCHANGED <<row, asked, claims>> PROVE ClaimShape'
  BY DEF ClaimShape, Asked, TerrOf

LEMMA StartsFrame ==
    ASSUME StartsAlone, UNCHANGED <<asked, claims, row, inbox, phantom>>, Queued(queue)' = Queued(queue)
    PROVE  StartsAlone'
  BY DEF StartsAlone, StartQueued, Waits, TerrOf, Asked, Active

LEMMA EndedFrame ==
    ASSUME EndedIsGone, UNCHANGED <<asked, claims, inbox, pendingEnds>>, Queued(queue)' = Queued(queue)
    PROVE  EndedIsGone'
  BY DEF EndedIsGone, Ends, TerrOf, Asked

LEMMA CapturesFrame ==
    ASSUME CapturesAlone, UNCHANGED <<asked, claims, row, inbox, pendingCaptures, dbControl>>,
           Queued(queue)' = Queued(queue)
    PROVE  CapturesAlone'
  BY DEF CapturesAlone, Answered, TerrOf

LEMMA ActiveFrame == ASSUME OneActive, UNCHANGED <<row, asked>> PROVE OneActive'
  BY DEF OneActive, Active, TerrOf

LEMMA FoundedFrame ==
    ASSUME FoundedStays, Foundations' = Foundations, UNCHANGED <<news, dbControl, dbPresent, control>>
    PROVE  FoundedStays'
  BY DEF FoundedStays

LEMMA ControlFrame ==
    ASSUME ControlInv, Foundations' = Foundations, UNCHANGED <<control, dbControl, claims, row, asked>>
    PROVE  ControlInv'
  <1>1. \A t \in Territory : NewsOf(t)' = NewsOf(t)
    BY DEF NewsOf, Foundations
  <1> QED
    BY <1>1 DEF ControlInv, Completed, PlayerOf

LEMMA LimitsFrame == ASSUME LimitsAgree, UNCHANGED <<control, limit, dbControl, dbLimit>> PROVE LimitsAgree'
  BY DEF LimitsAgree

LEMMA ConfirmedFrame == ASSUME ConfirmedHasRow, UNCHANGED <<claims, row>> PROVE ConfirmedHasRow'
  BY DEF ConfirmedHasRow, Active

LEMMA PlantedFrame == ASSUME PlantedHasClaim, UNCHANGED <<claims, asked, status, at>> PROVE PlantedHasClaim'
  BY DEF PlantedHasClaim, UnitOf

LEMMA ContestedFrame == ASSUME ContestedIsActive, UNCHANGED <<contested, row, asked>> PROVE ContestedIsActive'
  BY DEF ContestedIsActive, ActiveOn, Active, TerrOf

LEMMA TrackedFrame ==
    ASSUME RowTracked, UNCHANGED <<claims, row, asked, pendingEnds, inbox, lost, phantom>>,
           Queued(queue)' = Queued(queue)
    PROVE  RowTracked'
  BY DEF RowTracked, Ending, Active, TerrOf, EndJob, Job, PlayerOf

LEMMA AwaitedFrame ==
    ASSUME AnswerAwaited, UNCHANGED <<claims, asked, pendingCaptures, inbox, lost>>,
           Queued(queue)' = Queued(queue)
    PROVE  AnswerAwaited'
  BY DEF AnswerAwaited, About, StartJob, CaptureJob, Job, PlayerOf

LEMMA FoundationsFrame ==
    ASSUME UNCHANGED news, lost' = lost \/ \E m \in Message : lost' = lost \cup {m}
    PROVE  Foundations' = Foundations
  BY NotIntroduction DEF Foundations

-----------------------------------------------------------------------------
(* The initial states, and the steps that touch little.                    *)

LEMMA Initially == Init => Inv
  <1> SUFFICES ASSUME Init PROVE Inv
    OBVIOUS
  <1> USE DEF Init
  <1>0. NoClaim.id = 0 /\ ~NoClaim.pending /\ ~NoClaim.capturing /\ NoClaim \in Claim
    BY NoControlTyped DEF NoClaim, Claim
  <1>1. Queued(queue) = {} /\ QueueShape
    BY DEF Queued, QueueShape
  <1>2. TypeInv
    <2>1. dbControl \in [Territory -> Control]
      BY ConquestAssumption DEF Control
    <2>2. step \in -2..Flushing /\ Len(asked) <= MaxClaims /\ asked \in Seq([unit: Unit, terr: Territory])
      BY ConquestAssumption DEF Flushing, Inbox
    <2> QED
      BY <1>0, <2>1, <2>2, ConquestAssumption DEF TypeInv, Status
  <1>3. JobsAsked /\ ClaimShape /\ StartsAlone /\ EndedIsGone /\ CapturesAlone /\ OneActive
    BY <1>0, <1>1 DEF JobsAsked, ClaimShape, StartsAlone, StartQueued, EndedIsGone, Ends, CapturesAlone, OneActive, Active
  <1>4. FoundedStays /\ ControlInv
    BY <1>0 DEF FoundedStays, ControlInv, Foundations, Completed
  <1>5. ConfirmedHasRow /\ PlantedHasClaim /\ ContestedIsActive /\ RowTracked /\ AnswerAwaited
    BY <1>0, <1>1 DEF ConfirmedHasRow, PlantedHasClaim, ContestedIsActive, ActiveOn, Active, RowTracked, AnswerAwaited
  <1>6. LimitsAgree
    BY DEF LimitsAgree
  <1> QED
    BY <1>1, <1>2, <1>3, <1>4, <1>5, <1>6 DEF Inv

\* Nothing but the tick and the warriors.
LEMMA QuietStep ==
    ASSUME Inv, UNCHANGED <<asked, conquest, control, limit, present, mail, db, phantom>>,
           TypeInv', PlantedHasClaim'
    PROVE  Inv'
  <1> USE DEF Inv, conquest, mail, db
  <1>1. QueueShape' /\ Queued(queue)' = Queued(queue) /\ Foundations' = Foundations
    BY QueueFrame DEF Foundations
  <1>2. JobsAsked' /\ ClaimShape' /\ OneActive' /\ LimitsAgree' /\ ConfirmedHasRow' /\ ContestedIsActive'
    BY JobsFrame, ClaimFrame, ActiveFrame, LimitsFrame, ConfirmedFrame, ContestedFrame
  <1>3. StartsAlone' /\ EndedIsGone' /\ CapturesAlone' /\ RowTracked' /\ AnswerAwaited'
    BY <1>1, StartsFrame, EndedFrame, CapturesFrame, TrackedFrame, AwaitedFrame
  <1>4. FoundedStays' /\ ControlInv'
    BY <1>1, FoundedFrame, ControlFrame
  <1> QED
    BY <1>1, <1>2, <1>3, <1>4

LEMMA WarriorStep ==
    ASSUME Inv, NEW u \in Unit, Order(u) \/ Arrive(u) \/ Die(u)
    PROVE  Inv'
  <1>1. UNCHANGED <<step, asked, conquest, world, mail, db, phantom, counters>>
    BY DEF Order, Arrive, Die
  <1>2. status' \in [Unit -> Status] /\ at' \in [Unit -> Territory]
    BY DEF Order, Arrive, Die, Inv, TypeInv, Status
  <1>3. \A v \in Unit : status'[v] = "claiming" => status[v] = "claiming" /\ at'[v] = at[v]
    BY DEF Order, Arrive, Die, Inv, TypeInv
  <1>4. TypeInv'
    BY <1>1, <1>2 DEF Inv, TypeInv, conquest, world, mail, db
  <1>5. PlantedHasClaim'
    BY <1>1, <1>3 DEF Inv, PlantedHasClaim, conquest, UnitOf
  <1> QED
    BY <1>1, <1>4, <1>5, QuietStep DEF world

LEMMA TickStep ==
    ASSUME Inv, \/ \E p \in Player : Bar(p)
                \/ Drained \/ Proceed \/ FlushBegins \/ FlushOver \/ EndTick
                \/ \E t \in Territory : SweepNothing(t)
    PROVE  Inv'
  <1>1. UNCHANGED <<asked, warriors, conquest, control, limit, present, mail, db, phantom>>
    BY DEF Bar, Drained, Proceed, FlushBegins, FlushOver, EndTick, SweepNothing, world
  <1>2. step' \in -2..Flushing
    BY ConquestAssumption DEF Bar, Drained, Proceed, FlushBegins, FlushOver, EndTick, SweepNothing, Sweeps, Inv, TypeInv,
       Inbox, Commands, Advance, Flush, Flushing, Territory
  <1>3. barred' \subseteq Player
    BY DEF Bar, Drained, Proceed, FlushBegins, FlushOver, EndTick, SweepNothing, world, Inv, TypeInv
  <1>4. TypeInv'
    BY <1>1, <1>2, <1>3 DEF Inv, TypeInv, warriors, conquest, mail, db
  <1>5. PlantedHasClaim'
    BY <1>1, PlantedFrame DEF Inv, warriors, conquest
  <1> QED
    BY <1>1, <1>4, <1>5, QuietStep

-----------------------------------------------------------------------------
(* The end of a claim.                                                     *)

\* The claim of t, with nothing of it on its way but what is being handled.
OnlyThis(t, taken) ==
    LET n == claims[t].id IN
    /\ n # 0 /\ ~StartQueued(n)
    /\ taken \subseteq {m \in inbox : IF m.kind \in CaptureKinds THEN m.terr = t ELSE m.kind = "started" /\ m.id = n}
    /\ \A m \in inbox \ taken : /\ m.kind = "started" => m.id # n
                                /\ m.kind \in CaptureKinds => m.terr # t
    /\ \A j \in Queued(queue) : j.kind = "capture" => TerrOf(j.id) # t
    /\ t \notin pendingCaptures

\* It leaves RAM; its end, if it has a row, is queued, waits or is lost.
LeavesRAM(t, taken) ==
    LET n == claims[t].id IN
    /\ Drop(t) /\ Free(UnitOf(n))
    /\ QueueShape' /\ Queued(queue) \subseteq Queued(queue)'
    /\ \A x \in Queued(queue)' : x \in Queued(queue) \/ x = EndJob(n)
    /\ inbox \ taken \subseteq inbox' /\ lost \subseteq lost' /\ Foundations' = Foundations
    /\ \A m \in inbox' : m \in inbox \ taken \/ m = [kind |-> "endFailed", id |-> n]
    /\ lost' \subseteq lost \cup Message
    /\ \/ EndJob(n) \in Queued(queue)' \/ [kind |-> "endFailed", id |-> n] \in inbox' \cup lost'
       \/ ~Active(n) \/ n \in phantom

LEMMA DropStep ==
    ASSUME Inv, NEW t \in Territory, NEW taken, OnlyThis(t, taken), LeavesRAM(t, taken),
           step' = step \/ step' \in -2..Flushing, control' \in [Territory -> Control],
           UNCHANGED <<asked, at, pendingEnds, pendingCaptures, present, barred, db, news, phantom>>
    PROVE  /\ TypeInv' /\ JobsAsked' /\ ClaimShape' /\ StartsAlone' /\ EndedIsGone' /\ CapturesAlone'
           /\ OneActive' /\ ContestedIsActive' /\ ConfirmedHasRow' /\ PlantedHasClaim'
           /\ RowTracked' /\ AnswerAwaited'
           /\ ~claims'[t].capturing /\ \A s \in Territory \ {t} : claims'[s] = claims[s] /\ claims'[s].id # claims[t].id
  <1> DEFINE n == claims[t].id
             j == EndJob(n)
  <1> USE DEF db
  <1>1. Asked(n) /\ TerrOf(n) = t /\ n \in ClaimId /\ n # 0
    BY AskedFacts DEF Inv, ClaimShape, OnlyThis
  <1>2. j \in Jobs /\ j.keys # {} /\ j.kind = "end" /\ j.id = n
    BY <1>1, JobTyped, NoControlTyped DEF Inv, EndJob, Job
  <1>4. /\ claims' = [claims EXCEPT ![t] = NoClaim]
        /\ status' = IF status[UnitOf(n)] = "claiming" THEN [status EXCEPT ![UnitOf(n)] = "idle"] ELSE status
    BY DEF LeavesRAM, Drop, Free
  <1>6. /\ \A x \in Queued(queue)' : x \in Queued(queue) \/ x = j
        /\ Queued(queue) \subseteq Queued(queue)'
        /\ \A m \in inbox' : m \in inbox \ taken \/ m = [kind |-> "endFailed", id |-> n]
        /\ inbox \ taken \subseteq inbox' /\ lost \subseteq lost'
        /\ \/ j \in Queued(queue)' \/ [kind |-> "endFailed", id |-> n] \in inbox' \cup lost'
           \/ ~Active(n) \/ n \in phantom
    BY DEF LeavesRAM
  <1>8. /\ claims'[t].id = 0 /\ ~claims'[t].pending /\ ~claims'[t].capturing /\ claims'[t] = NoClaim
        /\ \A s \in Territory \ {t} : claims'[s] = claims[s] /\ claims'[s].id # n
    BY <1>1, <1>4 DEF Inv, TypeInv, ClaimShape, NoClaim
  <1> HIDE DEF j, n
  <1>10. TypeInv'
    <2>1. claims' \in [Territory -> Claim]
      BY <1>4, NoControlTyped DEF Inv, TypeInv, Claim, NoClaim
    <2>2. status' \in [Unit -> Status]
      BY <1>4 DEF Inv, TypeInv, Status
    <2>3. [kind |-> "endFailed", id |-> n] \in Message
      BY <1>1 DEF Message
    <2>4. inbox' \subseteq Message /\ lost' \subseteq Message \cup Introduction
      BY <1>6, <2>3 DEF Inv, TypeInv, LeavesRAM
    <2> QED
      BY <2>1, <2>2, <2>4 DEF Inv, TypeInv
  <1>11. JobsAsked'
    <2>1. j = Job("end", n, NoControl)
      BY DEF j, EndJob
    <2>2. \A k, o, f : Job(k, o, f)' = Job(k, o, f)
      BY DEF Job, PlayerOf
    <2>3. j.kind = "end" /\ j.id = n /\ j.from = NoControl
      BY <2>1 DEF Job
    <2> QED
      BY <1>1, <1>6, <2>1, <2>2, <2>3 DEF Inv, JobsAsked, Asked
  <1>12. ClaimShape'
    BY <1>8 DEF Inv, ClaimShape, Asked, TerrOf, NoClaim
  <1>13. StartsAlone'
    <2>1. \A o \in ClaimId : StartQueued(o)' => StartQueued(o) /\ o # n
      BY <1>2, <1>6 DEF StartQueued, OnlyThis, n
    <2>2. \A o : Waits(o) /\ o # n /\ TerrOf(o) \in Territory => Waits(o)'
      BY <1>8 DEF Waits, TerrOf, n
    <2>3. \A m \in inbox' : m.kind = "started" => m \in inbox /\ m.id # n
      BY <1>6 DEF OnlyThis, n
    <2>4. \A o \in ClaimId : StartQueued(o) => TerrOf(o) \in Territory
      BY AskedFacts DEF Inv, JobsAsked, StartQueued
    <2>5. \A o \in ClaimId : StartQueued(o)' => Waits(o)'
      BY <2>1, <2>2, <2>4 DEF Inv, StartsAlone
    <2>6. ASSUME NEW m \in inbox', m.kind = "started"
          PROVE  /\ Asked(m.id)' /\ Waits(m.id)' /\ ~StartQueued(m.id)'
                 /\ IF m.ok THEN Active(m.id)' ELSE row'[m.id] = "none" \/ m.id \in phantom'
                 /\ \A o \in inbox' : o.kind = "started" /\ o.id = m.id => o = m
      <3>1. m \in inbox /\ m.id # n /\ Asked(m.id) /\ Waits(m.id) /\ ~StartQueued(m.id) /\ TerrOf(m.id) \in Territory
        BY <2>3, <2>6, AskedFacts DEF Inv, StartsAlone
      <3>2. ~StartQueued(m.id)'
        BY <1>2, <1>6, <3>1 DEF StartQueued
      <3> QED
        BY <2>2, <2>3, <2>6, <3>1, <3>2 DEF Inv, StartsAlone, Asked, Active
    <2> QED
      BY <1>8, <2>5, <2>6 DEF Inv, StartsAlone
  <1>14. EndedIsGone'
    <2>1. \A o \in ClaimId : Ends(o)' => Ends(o) \/ o = n
      BY <1>2, <1>6 DEF Ends
    <2>2. \A o \in ClaimId : Ends(o) => Asked(o) /\ TerrOf(o) \in Territory
      BY AskedFacts DEF Inv, EndedIsGone
    <2> QED
      BY <1>1, <1>8, <2>1, <2>2 DEF Inv, EndedIsGone, Asked, TerrOf
  <1>15. CapturesAlone'
    <2>1. \A m \in inbox' : m.kind \in CaptureKinds => m \in inbox /\ m.terr # t
      BY <1>6 DEF OnlyThis, CaptureKinds
    <2>2. \A s \in Territory : Answered(s)' => Answered(s)
      BY <2>1 DEF Answered
    <2>3. \A x \in Queued(queue)' : x.kind = "capture" => x \in Queued(queue) /\ TerrOf(x.id) # t
      BY <1>2, <1>6 DEF OnlyThis
    <2>4. \A x \in Queued(queue) : TerrOf(x.id) \in Territory
      BY AskedFacts DEF Inv, JobsAsked
    <2>5. \A s \in pendingCaptures : s # t /\ s \in Territory
      BY DEF OnlyThis, Inv, TypeInv
    <2>6. \A m \in inbox : m.kind \in CaptureKinds => m.terr \in Territory
      BY MessageIs DEF Inv, TypeInv
    <2>11. \A x \in Queued(queue)' : x.kind = "capture" => claims'[TerrOf(x.id)] = claims[TerrOf(x.id)]
      BY <1>8, <2>3, <2>4
    <2>7. \A x \in Queued(queue)' : x.kind = "capture" => \A s \in Territory : s = TerrOf(x.id) =>
             /\ claims'[s].id = x.id /\ claims'[s].capturing /\ claims'[s].from = x.from
             /\ s \notin pendingCaptures' /\ ~Answered(s)'
      BY <2>2, <2>3, <2>11 DEF Inv, CapturesAlone
    <2>8. \A s \in pendingCaptures' : claims'[s].capturing /\ ~Answered(s)'
      BY <1>8, <2>2, <2>5 DEF Inv, CapturesAlone
    <2>9. \A m \in inbox' : m.kind \in CaptureKinds => claims'[m.terr] = claims[m.terr]
      BY <1>8, <2>1, <2>6
    <2>10. \A m \in inbox' : m.kind \in CaptureKinds =>
              /\ claims'[m.terr].capturing
              /\ m.kind = "captured" => row'[claims'[m.terr].id] = "COMPLETED" /\ m.control = dbControl'[m.terr]
              /\ m.kind = "conflict" => row'[claims'[m.terr].id] # "COMPLETED"
              /\ \A o \in inbox' : o.kind \in CaptureKinds /\ o.terr = m.terr => o = m
      BY <2>1, <2>9 DEF Inv, CapturesAlone
    <2> QED
      BY <2>3, <2>4, <2>7, <2>8, <2>10 DEF CapturesAlone, TerrOf
  <1>19. ConfirmedHasRow'
    BY <1>8 DEF Inv, ConfirmedHasRow, Active
  <1>20. PlantedHasClaim'
    <2> SUFFICES ASSUME NEW u \in Unit, status'[u] = "claiming"
                 PROVE  claims'[at[u]].id # 0 /\ UnitOf(claims'[at[u]].id) = u
      BY DEF PlantedHasClaim, UnitOf
    <2>1. status[u] = "claiming" /\ u # UnitOf(n)
      BY <1>4 DEF Inv, TypeInv
    <2>2. claims[at[u]].id # 0 /\ UnitOf(claims[at[u]].id) = u /\ at[u] \in Territory
      BY <2>1 DEF Inv, PlantedHasClaim, TypeInv
    <2>3. at[u] # t
      BY <2>1, <2>2 DEF n
    <2> QED
      BY <1>8, <2>2, <2>3
  <1>21. RowTracked'
    <2> SUFFICES ASSUME NEW o \in ClaimId, Active(o), claims'[TerrOf(o)].id # o, o \notin phantom
                 PROVE  Ending(o)'
      BY DEF RowTracked, Active, TerrOf
    <2>1. TerrOf(o) \in Territory
      BY AskedFacts DEF Inv, ClaimShape, Active
    <2>2. EndJob(o)' = EndJob(o)
      BY DEF EndJob, Job, PlayerOf
    <2>3. CASE o = n
      BY <1>6, <2>2, <2>3 DEF Ending, j
    <2>4. CASE o # n
      <3>1. claims[TerrOf(o)].id # o
        BY <1>8, <2>1, <2>4 DEF n
      <3>2. Ending(o)
        BY <3>1 DEF Inv, RowTracked
      <3>3. \A m \in taken : m.kind # "endFailed"
        BY DEF OnlyThis, CaptureKinds
      <3> QED
        BY <1>6, <2>2, <3>2, <3>3 DEF Ending
    <2> QED
      BY <2>3, <2>4
  <1>22. AnswerAwaited'
    <2> SUFFICES ASSUME NEW s \in Territory, (claims'[s] # NoClaim /\ claims'[s].pending) \/ claims'[s].capturing
                 PROVE  LET c == claims[s] IN
                        /\ c # NoClaim /\ c.pending => StartJob(c.id)' \in Queued(queue)' \/ About(s, c)' # {}
                        /\ c.capturing => \/ CaptureJob(c.id, c.from)' \in Queued(queue)' \/ s \in pendingCaptures'
                                          \/ About(s, c)' # {}
      BY <1>8 DEF AnswerAwaited
    <2>1. s # t /\ claims'[s] = claims[s] /\ claims[s].id # n
      BY <1>8
    <2>2. \A m \in taken : m \notin About(s, claims[s])
      BY <2>1 DEF OnlyThis, About, CaptureKinds, n
    <2>3. About(s, claims[s]) \subseteq About(s, claims[s])'
      BY <1>6, <2>1, <2>2 DEF About
    <2>4. \A o, f : StartJob(o)' = StartJob(o) /\ CaptureJob(o, f)' = CaptureJob(o, f)
      BY DEF StartJob, CaptureJob, Job, PlayerOf
    <2> QED
      BY <1>6, <2>1, <2>3, <2>4 DEF Inv, AnswerAwaited
  <1>23. OneActive' /\ ContestedIsActive'
    BY ActiveFrame, ContestedFrame DEF Inv
  <1> QED
    BY <1>8, <1>10, <1>11, <1>12, <1>13, <1>14, <1>15, <1>19, <1>20, <1>21, <1>22, <1>23 DEF n

\* A claim that took nothing: the controls are as they were.
LEMMA TookNothing ==
    ASSUME Inv, NEW t \in Territory, NEW taken, OnlyThis(t, taken), LeavesRAM(t, taken), row[claims[t].id] # "COMPLETED",
           step' = step \/ step' \in -2..Flushing,
           UNCHANGED <<asked, at, pendingEnds, pendingCaptures, world, db, news, phantom>>
    PROVE  Inv'
  <1> USE DEF db, world
  <1>1. control' \in [Territory -> Control]
    BY DEF Inv, TypeInv
  <1>2. /\ TypeInv' /\ JobsAsked' /\ ClaimShape' /\ StartsAlone' /\ EndedIsGone' /\ CapturesAlone'
        /\ OneActive' /\ ContestedIsActive' /\ ConfirmedHasRow' /\ PlantedHasClaim'
        /\ RowTracked' /\ AnswerAwaited'
        /\ ~claims'[t].capturing /\ \A s \in Territory \ {t} : claims'[s] = claims[s] /\ claims'[s].id # claims[t].id
    BY <1>1, DropStep
  <1>3. QueueShape' /\ Foundations' = Foundations
    BY DEF LeavesRAM
  <1>4. FoundedStays' /\ LimitsAgree'
    BY <1>3, FoundedFrame, LimitsFrame DEF Inv
  <1>5. ControlInv'
    <2>1. \A s \in Territory : NewsOf(s)' = NewsOf(s)
      BY <1>3 DEF NewsOf, Foundations
    <2>2. ~Completed(t) /\ ~Completed(t)' /\ \A s \in Territory \ {t} : Completed(s)' = Completed(s)
      BY <1>2 DEF Completed
    <2> QED
      BY <1>2, <1>3, <2>1, <2>2 DEF Inv, ControlInv, PlayerOf
  <1> QED
    BY <1>2, <1>3, <1>4, <1>5 DEF Inv

LEMMA EndClaimStep ==
    ASSUME Inv, NEW t \in Territory, NEW taken, OnlyThis(t, taken), row[claims[t].id] # "COMPLETED", EndClaim(taken, t),
           step' = step \/ step' \in -2..Flushing,
           UNCHANGED <<asked, at, pendingEnds, pendingCaptures, world, db, news, phantom>>
    PROVE  Inv'
  <1> DEFINE n == claims[t].id
             j == EndJob(n)
  <1>1. Asked(n)
    BY DEF Inv, ClaimShape, OnlyThis
  <1>2. j \in Jobs /\ j.keys # {} /\ j.kind = "end" /\ j.id = n
    BY <1>1, JobTyped, NoControlTyped DEF Inv, EndJob, Job
  <1>3. FailureOf(j) \in Message /\ FailureOf(j) = [kind |-> "endFailed", id |-> n]
    BY <1>1, <1>2, FailureTyped DEF Inv
  <1>4. Drop(t) /\ Free(UnitOf(n)) /\ Submit(taken, j)
    BY DEF EndClaim
  <1>5. /\ QueueShape'
        /\ \/ Queued(queue)' = Queued(queue) \cup {j} /\ inbox' = inbox \ taken /\ lost' = lost
           \/ /\ Queued(queue)' = Queued(queue)
              /\ \/ inbox' = (inbox \ taken) \cup {FailureOf(j)} /\ lost' = lost
                 \/ inbox' = inbox \ taken /\ lost' = lost \cup {FailureOf(j)}
    BY <1>2, <1>4, Submitted DEF Inv
  <1>6. Foundations' = Foundations
    BY <1>3, <1>5, FoundationsFrame
  <1> HIDE DEF j
  <1>7. /\ \A x \in Queued(queue)' : x \in Queued(queue) \/ x = j
        /\ Queued(queue) \subseteq Queued(queue)'
        /\ \A m \in inbox' : m \in inbox \ taken \/ m = [kind |-> "endFailed", id |-> n]
        /\ inbox \ taken \subseteq inbox' /\ lost \subseteq lost' /\ lost' \subseteq lost \cup Message
        /\ j \in Queued(queue)' \/ [kind |-> "endFailed", id |-> n] \in inbox' \cup lost'
    BY <1>3, <1>5
  <1>8. LeavesRAM(t, taken)
    BY <1>4, <1>5, <1>6, <1>7 DEF LeavesRAM, j
  <1> QED
    BY <1>8, TookNothing

-----------------------------------------------------------------------------
(* The limits: one territory changes hands.                                *)

LEMMA ConqueredUpdate ==
    ASSUME NEW ctl, NEW t \in Territory, NEW new, NEW p \in Player,
           \A x \in Territory \ {t} : new[x] = ctl[x]
    PROVE  /\ Conquered(ctl, p) \in Nat
           /\ Conquered(new, p) = Conquered(ctl, p) + (IF new[t].owner = p THEN Bonus(p, t) ELSE 0)
                                                   - (IF ctl[t].owner = p THEN Bonus(p, t) ELSE 0)
  <1> DEFINE S == {x \in Territory \ {t} : ctl[x].owner = p /\ Home[p] # x}
             C(f) == {x \in Territory : f[x].owner = p /\ Home[p] # x}
  <1>1. IsFiniteSet(Territory)
    <2>1. 1 \in Int /\ NumTerritories \in Int
      BY ConquestAssumption
    <2>2. IsFiniteSet(1..NumTerritories)
      BY <2>1, FS_Interval
    <2> QED
      BY <2>2 DEF Territory
  <1>2. IsFiniteSet(S) /\ Cardinality(S) \in Nat
    BY <1>1, FS_Subset, FS_CardinalityType
  <1>3. Cardinality(S \cup {t}) = Cardinality(S) + 1
    BY <1>2, FS_AddElement
  <1>4. p # None
    BY ConquestAssumption
  <1>5. C(ctl) = IF ctl[t].owner = p /\ Home[p] # t THEN S \cup {t} ELSE S
    OBVIOUS
  <1>7. C(new) = IF new[t].owner = p /\ Home[p] # t THEN S \cup {t} ELSE S
    OBVIOUS
  <1>8. Conquered(ctl, p) = Cardinality(C(ctl)) /\ Conquered(new, p) = Cardinality(C(new))
    BY DEF Conquered
  <1>9. Bonus(p, t) = IF Home[p] = t THEN 0 ELSE 1
    BY <1>4 DEF Bonus
  <1> HIDE DEF S, C
  <1> QED
    BY <1>2, <1>3, <1>5, <1>7, <1>8, <1>9

LEMMA ConqueredNat == \A ctl : \A p \in Player : Conquered(ctl, p) \in Nat
  <1> SUFFICES ASSUME NEW ctl, NEW p \in Player PROVE Conquered(ctl, p) \in Nat
    OBVIOUS
  <1>1. 1 \in Territory
    BY ConquestAssumption DEF Territory
  <1> QED
    BY <1>1, ConqueredUpdate

-----------------------------------------------------------------------------
(* The answers, taken from the inbox.                                      *)

\* The claim a started message is about waits for it alone.
LEMMA StartedFacts ==
    ASSUME Inv, NEW m \in inbox, m.kind = "started", NEW t, t = TerrOf(m.id)
    PROVE  /\ t \in Territory /\ claims[t].id = m.id /\ claims[t].pending /\ ~claims[t].capturing
           /\ OnlyThis(t, {m}) /\ row[m.id] # "COMPLETED"
           /\ m.ok => Active(m.id)
           /\ ~m.ok => ~Active(m.id) \/ m.id \in phantom
           /\ m = [kind |-> "started", id |-> m.id, ok |-> m.ok] /\ Asked(m.id) /\ m.ok \in BOOLEAN
  <1>1. m \in Message /\ Asked(m.id) /\ t \in Territory /\ claims[t].id = m.id /\ claims[t].pending
    BY AskedFacts DEF Inv, TypeInv, StartsAlone, Waits
  <1>2. ~claims[t].capturing /\ m.id # 0
    BY <1>1, AskedFacts DEF Inv, ClaimShape, ClaimId
  <1>3. row[m.id] # "COMPLETED" /\ (m.ok => Active(m.id)) /\ (~m.ok => ~Active(m.id) \/ m.id \in phantom)
    BY <1>1 DEF Inv, StartsAlone, Active
  <1>4. ~StartQueued(m.id) /\ \A o \in inbox \ {m} : o.kind = "started" => o.id # m.id
    BY DEF Inv, StartsAlone
  <1>5. \A o \in inbox : o.kind \in CaptureKinds => o.terr # t
    BY <1>2 DEF Inv, CapturesAlone
  <1>6. t \notin pendingCaptures /\ \A j \in Queued(queue) : j.kind = "capture" => TerrOf(j.id) # t
    BY <1>2 DEF Inv, CapturesAlone
  <1>7. OnlyThis(t, {m})
    BY <1>1, <1>2, <1>4, <1>5, <1>6 DEF OnlyThis, CaptureKinds
  <1> QED
    BY <1>1, <1>2, <1>3, <1>7, MessageIs

\* The claim that captures waits for one answer.
LEMMA CaptureFacts ==
    ASSUME Inv, NEW t \in Territory, claims[t].capturing
    PROVE  LET n == claims[t].id IN
           /\ Asked(n) /\ TerrOf(n) = t /\ n \in ClaimId /\ n # 0 /\ ~claims[t].pending /\ ~StartQueued(n)
           /\ \A m \in inbox : m.kind = "started" => m.id # n
           /\ Active(n) \/ row[n] = "COMPLETED"
  <1> DEFINE n == claims[t].id
  <1>1. n # 0 /\ ~claims[t].pending
    BY DEF Inv, ClaimShape, NoClaim
  <1>2. Asked(n) /\ TerrOf(n) = t /\ n \in ClaimId
    BY <1>1, AskedFacts DEF Inv, ClaimShape
  <1>3. ~Waits(n)
    BY <1>1, <1>2 DEF Waits
  <1> QED
    BY <1>1, <1>2, <1>3 DEF Inv, StartsAlone, ConfirmedHasRow

LEMMA CaptureAnswerFacts ==
    ASSUME Inv, NEW m \in inbox, m.kind \in CaptureKinds
    PROVE  /\ m.terr \in Territory /\ claims[m.terr].capturing /\ OnlyThis(m.terr, {m})
           /\ m.kind = "captured" => row[claims[m.terr].id] = "COMPLETED" /\ m.control = dbControl[m.terr]
           /\ m.kind = "conflict" => row[claims[m.terr].id] # "COMPLETED"
  <1> DEFINE t == m.terr
  <1>1. t \in Territory
    BY MessageIs DEF Inv, TypeInv
  <1>2. claims[t].capturing
    BY DEF Inv, CapturesAlone
  <1>3. \A o \in inbox \ {m} : o.kind \in CaptureKinds => o.terr # t
    BY DEF Inv, CapturesAlone
  <1>4. t \notin pendingCaptures /\ \A j \in Queued(queue) : j.kind = "capture" => TerrOf(j.id) # t
    BY DEF Inv, CapturesAlone, Answered
  <1>5. OnlyThis(t, {m})
    BY <1>1, <1>2, <1>3, <1>4, CaptureFacts DEF OnlyThis
  <1> QED
    BY <1>1, <1>2, <1>5 DEF Inv, CapturesAlone

LEMMA StartedStep ==
    ASSUME Inv, NEW m \in inbox, HandleStarted(m)
    PROVE  Inv'
  <1> DEFINE t == TerrOf(m.id)
             u == UnitOf(m.id)
  <1>1. m.kind = "started" /\ UNCHANGED <<step, asked, at, pendingEnds, pendingCaptures, world, db, news, phantom>>
    BY DEF HandleStarted
  <1>2. /\ t \in Territory /\ claims[t].id = m.id /\ claims[t].pending /\ ~claims[t].capturing
        /\ OnlyThis(t, {m}) /\ row[m.id] # "COMPLETED"
        /\ m.ok => Active(m.id)
        /\ ~m.ok => ~Active(m.id) \/ m.id \in phantom
        /\ m = [kind |-> "started", id |-> m.id, ok |-> m.ok] /\ Asked(m.id) /\ m.ok \in BOOLEAN
    BY <1>1, StartedFacts
  <1>3. CASE ~m.ok
    <2>1. Drop(t) /\ Free(u) /\ Consume(m)
      BY <1>2, <1>3 DEF HandleStarted
    <2>2. QueueShape' /\ Queued(queue)' = Queued(queue) /\ Foundations' = Foundations
      BY <1>1, <2>1, QueueFrame, FoundationsFrame DEF Consume, Inv
    <2>3. LeavesRAM(t, {m})
      BY <1>2, <1>3, <2>1, <2>2 DEF LeavesRAM, Consume
    <2> QED
      BY <1>1, <1>2, <2>3, TookNothing
  <1>4. CASE m.ok /\ status[u] # "claiming"
    <2>1. EndClaim({m}, t)
      BY <1>2, <1>4 DEF HandleStarted
    <2> QED
      BY <1>1, <1>2, <2>1, EndClaimStep
  <1>5. CASE m.ok /\ status[u] = "claiming"
    <2>1. claims' = [claims EXCEPT ![t].pending = FALSE] /\ Consume(m) /\ UNCHANGED status
      BY <1>2, <1>5 DEF HandleStarted
    <2> USE DEF db, world
    <2>2. QueueShape' /\ Queued(queue)' = Queued(queue) /\ Foundations' = Foundations
      BY <1>1, <2>1, QueueFrame, FoundationsFrame DEF Consume, Inv
    <2>3. inbox' = inbox \ {m} /\ lost' = lost /\ queue' = queue
      BY <2>1 DEF Consume
    <2>4. /\ \A s \in Territory : /\ claims'[s].id = claims[s].id /\ claims'[s].capturing = claims[s].capturing
                                  /\ claims'[s].from = claims[s].from
          /\ \A s \in Territory \ {t} : claims'[s] = claims[s]
          /\ ~claims'[t].pending
      BY <1>2, <2>1 DEF Inv, TypeInv, Claim
    <2> HIDE DEF t, u
    <2>5. TypeInv'
      <3>1. claims' \in [Territory -> Claim]
        BY <1>2, <2>1 DEF Inv, TypeInv, Claim
      <3> QED
        BY <1>1, <2>1, <2>3, <3>1 DEF Inv, TypeInv
    <2>6. JobsAsked' /\ OneActive' /\ LimitsAgree' /\ ContestedIsActive'
      BY <1>1, <2>3, JobsFrame, ActiveFrame, LimitsFrame, ContestedFrame DEF Inv
    <2>7. ClaimShape'
      <3>1. claims'[t].id # 0
        BY <1>2, <2>4, AskedFacts DEF Inv, ClaimId
      <3>2. \A s \in Territory : claims'[s].id = 0 => claims'[s] = NoClaim
        BY <2>4, <3>1 DEF Inv, ClaimShape
      <3>3. \A s \in Territory : claims'[s].id # 0 => Asked(claims'[s].id) /\ TerrOf(claims'[s].id) = s
        BY <2>4 DEF Inv, ClaimShape
      <3>4. \A s \in Territory : claims'[s].capturing => ~claims'[s].pending
        BY <1>2, <2>4 DEF Inv, ClaimShape
      <3>5. \A n \in ClaimId : row'[n] # "none" => Asked(n)
        BY <1>1 DEF Inv, ClaimShape
      <3> QED
        BY <1>1, <3>2, <3>3, <3>4, <3>5 DEF ClaimShape, Asked, TerrOf
    <2>8. StartsAlone'
      <3>1. ~StartQueued(m.id) /\ \A o \in inbox' : o.kind = "started" => o.id # m.id
        BY <1>1, <1>2, <2>3 DEF OnlyThis
      <3>2. \A o : StartQueued(o)' <=> StartQueued(o)
        BY <2>2 DEF StartQueued
      <3>3. \A o : Asked(o) /\ Waits(o) /\ o # m.id => Waits(o)'
        BY <1>1, <1>2, <2>4, AskedFacts DEF Inv, Waits, TerrOf
      <3>4. \A o \in ClaimId : StartQueued(o) => Asked(o)
        BY DEF Inv, StartQueued, JobsAsked
      <3>5. \A o \in ClaimId : StartQueued(o)' => Waits(o)'
        BY <3>1, <3>2, <3>3, <3>4 DEF Inv, StartsAlone
      <3>6. \A o \in inbox' : o.kind = "started" =>
              /\ Asked(o.id)' /\ Waits(o.id)' /\ ~StartQueued(o.id)'
              /\ IF o.ok THEN Active(o.id)' ELSE row'[o.id] = "none" \/ o.id \in phantom'
              /\ \A o2 \in inbox' : o2.kind = "started" /\ o2.id = o.id => o2 = o
        BY <1>1, <2>3, <3>1, <3>2, <3>3 DEF Inv, StartsAlone, Asked, Active
      <3> QED
        BY <1>1, <2>4, <3>5, <3>6 DEF Inv, StartsAlone
    <2>9. EndedIsGone'
      <3>1. \A o \in ClaimId : Ends(o)' => Ends(o)
        BY <1>1, <2>2, <2>3 DEF Ends
      <3> QED
        BY <1>1, <2>4, <3>1, AskedFacts DEF Inv, EndedIsGone, Asked, TerrOf
    <2>10. CapturesAlone'
      <3>1. \A s : Answered(s)' <=> Answered(s)
        BY <1>1, <2>3 DEF Answered, CaptureKinds
      <3>2. \A x \in Queued(queue) : TerrOf(x.id) \in Territory
        BY AskedFacts DEF Inv, JobsAsked
      <3>3. \A x \in Queued(queue)' : x.kind = "capture" => \A s \in Territory : s = TerrOf(x.id) =>
               /\ claims'[s].id = x.id /\ claims'[s].capturing /\ claims'[s].from = x.from
               /\ s \notin pendingCaptures' /\ ~Answered(s)'
        BY <1>1, <2>2, <2>4, <3>1 DEF Inv, CapturesAlone
      <3>4. \A s \in pendingCaptures' : claims'[s].capturing /\ ~Answered(s)'
        BY <1>1, <2>4, <3>1 DEF Inv, CapturesAlone, TypeInv
      <3>5. \A o \in inbox : o.kind \in CaptureKinds => o.terr \in Territory
        BY MessageIs DEF Inv, TypeInv
      <3>6. \A o \in inbox' : o.kind \in CaptureKinds =>
              /\ claims'[o.terr].capturing
              /\ o.kind = "captured" => row'[claims'[o.terr].id] = "COMPLETED" /\ o.control = dbControl'[o.terr]
              /\ o.kind = "conflict" => row'[claims'[o.terr].id] # "COMPLETED"
              /\ \A o2 \in inbox' : o2.kind \in CaptureKinds /\ o2.terr = o.terr => o2 = o
        BY <1>1, <2>3, <2>4, <3>5 DEF Inv, CapturesAlone
      <3> QED
        BY <1>1, <2>2, <3>2, <3>3, <3>4, <3>6 DEF CapturesAlone, TerrOf
    <2>11. FoundedStays'
      BY <1>1, <2>2, FoundedFrame DEF Inv
    <2>12. ControlInv'
      <3>1. \A s \in Territory : NewsOf(s)' = NewsOf(s)
        BY <2>2 DEF NewsOf, Foundations
      <3>2. \A s \in Territory : Completed(s)' = Completed(s)
        BY <1>1, <2>4 DEF Completed
      <3> QED
        BY <1>1, <2>2, <2>4, <3>1, <3>2 DEF Inv, ControlInv, PlayerOf
    <2>13. ConfirmedHasRow'
      BY <1>1, <1>2, <1>5, <2>4 DEF Inv, ConfirmedHasRow, Active
    <2>14. PlantedHasClaim'
      BY <1>1, <2>1, <2>4 DEF Inv, PlantedHasClaim, UnitOf, TypeInv
    <2>15. RowTracked'
      <3>1. \A o \in ClaimId : Ending(o) => Ending(o)'
        BY <1>1, <2>2, <2>3 DEF Ending, EndJob, Job, PlayerOf
      <3>2. \A o \in ClaimId : Active(o) => TerrOf(o) \in Territory
        BY AskedFacts DEF Inv, ClaimShape, Active
      <3> QED
        BY <1>1, <2>4, <3>1, <3>2 DEF Inv, RowTracked, Active, TerrOf
    <2>16. AnswerAwaited'
      <3>1. \A o, f : StartJob(o)' = StartJob(o) /\ CaptureJob(o, f)' = CaptureJob(o, f)
        BY <1>1 DEF StartJob, CaptureJob, Job, PlayerOf
      <3> SUFFICES ASSUME NEW s \in Territory, (claims'[s] # NoClaim /\ claims'[s].pending) \/ claims'[s].capturing
                   PROVE  LET c == claims[s] IN
                          /\ c # NoClaim /\ c.pending => StartJob(c.id) \in Queued(queue)' \/ About(s, c)' # {}
                          /\ c.capturing => \/ CaptureJob(c.id, c.from) \in Queued(queue)' \/ s \in pendingCaptures'
                                            \/ About(s, c)' # {}
        BY <1>2, <2>4, <3>1 DEF AnswerAwaited
      <3>2. s # t /\ claims'[s] = claims[s] /\ (claims[s].id = m.id => FALSE)
        BY <1>2, <2>4 DEF Inv, ClaimShape, t
      <3>3. About(s, claims[s]) \subseteq About(s, claims[s])'
        BY <1>1, <2>3, <3>2 DEF About
      <3> QED
        BY <1>1, <2>2, <3>3 DEF Inv, AnswerAwaited
    <2> QED
      BY <2>2, <2>5, <2>6, <2>7, <2>8, <2>9, <2>10, <2>11, <2>12, <2>13, <2>14, <2>15, <2>16 DEF Inv
  <1> QED
    BY <1>2, <1>3, <1>4, <1>5

LEMMA EndFailedStep ==
    ASSUME Inv, NEW m \in inbox, HandleEndFailed(m)
    PROVE  Inv'
  <1>1. /\ m.kind = "endFailed" /\ pendingEnds' = pendingEnds \cup {m.id} /\ inbox' = inbox \ {m}
        /\ UNCHANGED <<step, asked, warriors, claims, pendingCaptures, world, db, news, phantom, queue, lost>>
    BY DEF HandleEndFailed, Consume
  <1>2. m \in Message /\ m.id \in ClaimId /\ m = [kind |-> "endFailed", id |-> m.id]
    BY <1>1, MessageIs DEF Inv, TypeInv
  <1> USE DEF db, world, warriors
  <1>3. QueueShape' /\ Queued(queue)' = Queued(queue) /\ Foundations' = Foundations
    BY <1>1, QueueFrame DEF Inv, Foundations
  <1>4. TypeInv'
    BY <1>1, <1>2 DEF Inv, TypeInv
  <1>5. JobsAsked' /\ ClaimShape' /\ OneActive' /\ LimitsAgree' /\ ContestedIsActive' /\ ConfirmedHasRow' /\ PlantedHasClaim'
    BY <1>1, JobsFrame, ClaimFrame, ActiveFrame, LimitsFrame, ContestedFrame, ConfirmedFrame, PlantedFrame DEF Inv
  <1>6. FoundedStays' /\ ControlInv'
    BY <1>1, <1>3, FoundedFrame, ControlFrame DEF Inv
  <1>7. \A o \in inbox' : o \in inbox /\ o # m
    BY <1>1
  <1>8. StartsAlone'
    BY <1>1, <1>3, <1>7 DEF Inv, StartsAlone, StartQueued, Waits, TerrOf, Asked, Active
  <1>9. EndedIsGone'
    <2>1. \A n \in ClaimId : Ends(n)' => Ends(n)
      BY <1>1, <1>2, <1>3 DEF Ends
    <2> QED
      BY <1>1, <2>1 DEF Inv, EndedIsGone, TerrOf, Asked
  <1>10. CapturesAlone'
    <2>1. \A s : Answered(s)' <=> Answered(s)
      BY <1>1 DEF Answered, CaptureKinds
    <2> QED
      BY <1>1, <1>3, <1>7, <2>1 DEF Inv, CapturesAlone, TerrOf
  <1>11. RowTracked'
    <2>1. \A n \in ClaimId : Ending(n) => Ending(n)'
      BY <1>1, <1>2, <1>3 DEF Ending, EndJob, Job, PlayerOf
    <2> QED
      BY <1>1, <2>1 DEF Inv, RowTracked, Active, TerrOf
  <1>12. AnswerAwaited'
    <2>1. \A s \in Territory : About(s, claims[s])' = About(s, claims[s])
      BY <1>1 DEF About
    <2>2. \A o, f : StartJob(o)' = StartJob(o) /\ CaptureJob(o, f)' = CaptureJob(o, f)
      BY <1>1 DEF StartJob, CaptureJob, Job, PlayerOf
    <2> QED
      BY <1>1, <1>3, <2>1, <2>2 DEF Inv, AnswerAwaited
  <1> QED
    BY <1>3, <1>4, <1>5, <1>6, <1>8, <1>9, <1>10, <1>11, <1>12 DEF Inv

LEMMA CapturedStep ==
    ASSUME Inv, NEW m \in inbox, HandleCaptured(m)
    PROVE  Inv'
  <1> DEFINE t == m.terr
             n == claims[t].id
             old == claims[t].from.owner
  <1>1. /\ m.kind = "captured" /\ m.kind \in CaptureKinds /\ Consume(m)
        /\ UNCHANGED <<step, asked, at, pendingEnds, pendingCaptures, present, barred, db, news, phantom>>
    BY DEF HandleCaptured, CaptureKinds
  <1>2. /\ t \in Territory /\ claims[t].capturing /\ OnlyThis(t, {m})
        /\ row[n] = "COMPLETED" /\ m.control = dbControl[t]
    BY <1>1, CaptureAnswerFacts
  <1>3. /\ Drop(t) /\ Free(UnitOf(n)) /\ control' = [control EXCEPT ![t] = m.control]
        /\ limit' = [p \in Player |-> limit[p] + (IF p = PlayerOf(n) THEN Bonus(PlayerOf(n), t) ELSE 0)
                                               - (IF p = old THEN Bonus(old, t) ELSE 0)]
    BY <1>2 DEF HandleCaptured
  <1>4. QueueShape' /\ Queued(queue)' = Queued(queue) /\ Foundations' = Foundations
    BY <1>1, QueueFrame, FoundationsFrame DEF Consume, Inv
  <1>5. LeavesRAM(t, {m})
    BY <1>1, <1>2, <1>3, <1>4 DEF LeavesRAM, Consume, Active
  <1> USE DEF db
  <1>6. m.control \in Control /\ control' \in [Territory -> Control]
    BY <1>2, <1>3 DEF Inv, TypeInv
  <1>7. /\ TypeInv' /\ JobsAsked' /\ ClaimShape' /\ StartsAlone' /\ EndedIsGone' /\ CapturesAlone'
        /\ OneActive' /\ ContestedIsActive' /\ ConfirmedHasRow' /\ PlantedHasClaim'
        /\ RowTracked' /\ AnswerAwaited'
        /\ ~claims'[t].capturing /\ \A s \in Territory \ {t} : claims'[s] = claims[s] /\ claims'[s].id # n
    BY <1>1, <1>2, <1>5, <1>6, DropStep
  <1>8. Completed(t) /\ dbControl[t].owner = PlayerOf(n) /\ control[t] = claims[t].from /\ \A f \in Foundations : Home[f.player] # t
    BY <1>2 DEF Inv, ControlInv, Completed
  <1>9. control'[t] = dbControl[t] /\ \A s \in Territory \ {t} : control'[s] = control[s]
    BY <1>2, <1>3 DEF Inv, TypeInv
  <1>10. FoundedStays'
    <2>1. \A f \in Foundations : Home[f.player] \in Territory \ {t}
      BY <1>8 DEF Inv, FoundedStays
    <2> QED
      BY <1>1, <1>4, <1>9, <2>1 DEF Inv, FoundedStays
  <1>11. ControlInv'
    <2>1. \A s \in Territory : NewsOf(s)' = NewsOf(s)
      BY <1>4 DEF NewsOf, Foundations
    <2>2. ~Completed(t)' /\ \A s \in Territory \ {t} : Completed(s)' = Completed(s)
      BY <1>1, <1>7 DEF Completed
    <2> QED
      BY <1>1, <1>4, <1>7, <1>9, <2>1, <2>2 DEF Inv, ControlInv, PlayerOf
  <1>12. LimitsAgree'
    <2> SUFFICES ASSUME NEW p \in Player PROVE limit'[p] = Conquered(control', p)
      BY <1>1 DEF Inv, LimitsAgree
    <2>1. Conquered(control, p) \in Nat
          /\ Conquered(control', p) = Conquered(control, p) + (IF m.control.owner = p THEN Bonus(p, t) ELSE 0)
                                                             - (IF control[t].owner = p THEN Bonus(p, t) ELSE 0)
      BY <1>2, <1>9, ConqueredUpdate
    <2>2. m.control.owner = PlayerOf(n) /\ control[t].owner = old
      BY <1>2, <1>8
    <2>3. limit'[p] = limit[p] + (IF p = PlayerOf(n) THEN Bonus(p, t) ELSE 0) - (IF p = old THEN Bonus(p, t) ELSE 0)
      BY <1>3
    <2> QED
      BY <2>1, <2>2, <2>3 DEF Inv, LimitsAgree
  <1> QED
    BY <1>4, <1>7, <1>10, <1>11, <1>12 DEF Inv

LEMMA ConflictStep ==
    ASSUME Inv, NEW m \in inbox, HandleConflict(m)
    PROVE  Inv'
  <1>1. /\ m.kind = "conflict" /\ m.kind \in CaptureKinds
        /\ UNCHANGED <<step, asked, at, pendingEnds, pendingCaptures, world, db, news, phantom>>
    BY DEF HandleConflict, CaptureKinds
  <1>2. m.terr \in Territory /\ claims[m.terr].capturing /\ OnlyThis(m.terr, {m}) /\ row[claims[m.terr].id] # "COMPLETED"
    BY <1>1, CaptureAnswerFacts
  <1>3. EndClaim({m}, m.terr)
    BY <1>2 DEF HandleConflict
  <1> QED
    BY <1>1, <1>2, <1>3, EndClaimStep

LEMMA CaptureFailedStep ==
    ASSUME Inv, NEW m \in inbox, HandleCaptureFailed(m)
    PROVE  Inv'
  <1> DEFINE t == m.terr
  <1>1. /\ m.kind = "captureFailed" /\ m.kind \in CaptureKinds /\ inbox' = inbox \ {m}
        /\ UNCHANGED <<step, asked, warriors, claims, pendingEnds, world, db, news, phantom, queue, lost>>
    BY DEF HandleCaptureFailed, Consume, CaptureKinds
  <1>2. t \in Territory /\ claims[t].capturing /\ OnlyThis(t, {m})
    BY <1>1, CaptureAnswerFacts
  <1>3. pendingCaptures' = pendingCaptures \cup {t}
    BY <1>2 DEF HandleCaptureFailed
  <1> USE DEF db, world, warriors
  <1>4. QueueShape' /\ Queued(queue)' = Queued(queue) /\ Foundations' = Foundations
    BY <1>1, QueueFrame DEF Inv, Foundations
  <1>5. TypeInv'
    BY <1>1, <1>2, <1>3 DEF Inv, TypeInv
  <1>6. JobsAsked' /\ ClaimShape' /\ OneActive' /\ LimitsAgree' /\ ContestedIsActive' /\ ConfirmedHasRow' /\ PlantedHasClaim'
    BY <1>1, JobsFrame, ClaimFrame, ActiveFrame, LimitsFrame, ContestedFrame, ConfirmedFrame, PlantedFrame DEF Inv
  <1>7. FoundedStays' /\ ControlInv'
    BY <1>1, <1>4, FoundedFrame, ControlFrame DEF Inv
  <1>8. StartsAlone'
    BY <1>1, <1>4 DEF Inv, StartsAlone, StartQueued, Waits, TerrOf, Asked, Active
  <1>9. EndedIsGone'
    <2>1. \A n \in ClaimId : Ends(n)' => Ends(n)
      BY <1>1, <1>4 DEF Ends
    <2> QED
      BY <1>1, <2>1 DEF Inv, EndedIsGone, TerrOf, Asked
  <1>10. CapturesAlone'
    <2>1. ~Answered(t)' /\ \A s : Answered(s)' => Answered(s)
      BY <1>1, <1>2 DEF Answered, OnlyThis
    <2>2. \A x \in Queued(queue) : x.kind = "capture" => TerrOf(x.id) # t
      BY <1>2 DEF OnlyThis
    <2> HIDE DEF t
    <2>3. \A x \in Queued(queue)' : x.kind = "capture" => \A s : s = TerrOf(x.id) =>
             /\ claims'[s].id = x.id /\ claims'[s].capturing /\ claims'[s].from = x.from
             /\ s \notin pendingCaptures' /\ ~Answered(s)'
      BY <1>1, <1>3, <1>4, <2>1, <2>2 DEF Inv, CapturesAlone
    <2>4. \A s \in pendingCaptures' : claims'[s].capturing /\ ~Answered(s)'
      BY <1>1, <1>2, <1>3, <2>1 DEF Inv, CapturesAlone
    <2>5. \A o \in inbox' : o \in inbox
      BY <1>1
    <2> QED
      BY <1>1, <2>3, <2>4, <2>5 DEF Inv, CapturesAlone, TerrOf
  <1>11. RowTracked'
    <2>1. \A n \in ClaimId : Ending(n) => Ending(n)'
      BY <1>1, <1>4 DEF Ending, EndJob, Job, PlayerOf
    <2> QED
      BY <1>1, <2>1 DEF Inv, RowTracked, Active, TerrOf
  <1>12. AnswerAwaited'
    <2>1. \A s \in Territory \ {t} : About(s, claims[s])' = About(s, claims[s])
      BY <1>1 DEF About, CaptureKinds
    <2>2. \A o, f : StartJob(o)' = StartJob(o) /\ CaptureJob(o, f)' = CaptureJob(o, f)
      BY <1>1 DEF StartJob, CaptureJob, Job, PlayerOf
    <2>3. ~claims[t].pending
      BY <1>2, CaptureFacts
    <2> QED
      BY <1>1, <1>3, <1>4, <2>1, <2>2, <2>3 DEF Inv, AnswerAwaited
  <1> QED
    BY <1>4, <1>5, <1>6, <1>7, <1>8, <1>9, <1>10, <1>11, <1>12 DEF Inv

-----------------------------------------------------------------------------
(* The sweep and the flush.                                                *)

\* Nothing of a claim that stands is on its way.
LEMMA SettlesFacts ==
    ASSUME Inv, NEW t \in Territory, Settles(t)
    PROVE  /\ Active(claims[t].id) /\ Asked(claims[t].id) /\ TerrOf(claims[t].id) = t /\ claims[t].id # 0
           /\ OnlyThis(t, {}) /\ ~Ends(claims[t].id)
  <1> DEFINE n == claims[t].id
  <1>1. n # 0 /\ Asked(n) /\ TerrOf(n) = t /\ n \in ClaimId /\ Active(n)
    BY AskedFacts DEF Inv, ClaimShape, Settles, ConfirmedHasRow
  <1>2. ~Waits(n) /\ ~Ends(n)
    BY <1>1 DEF Waits, Settles, Inv, EndedIsGone
  <1>3. ~StartQueued(n) /\ \A m \in inbox : m.kind = "started" => m.id # n
    BY <1>1, <1>2 DEF Inv, StartsAlone
  <1>4. \A o \in inbox : o.kind \in CaptureKinds => o.terr # t
    BY DEF Settles, Inv, CapturesAlone
  <1>5. t \notin pendingCaptures /\ \A j \in Queued(queue) : j.kind = "capture" => TerrOf(j.id) # t
    BY DEF Settles, Inv, CapturesAlone
  <1> QED
    BY <1>1, <1>2, <1>3, <1>4, <1>5 DEF OnlyThis

LEMMA SweepsTyped == \A t \in Territory : step' = t + 1 => step' \in -2..Flushing
  BY ConquestAssumption DEF Territory, Flushing

LEMMA SweepBrokenStep ==
    ASSUME Inv, NEW t \in Territory, SweepBroken(t)
    PROVE  Inv'
  <1>1. /\ Settles(t) /\ EndClaim({}, t) /\ step' = t + 1
        /\ UNCHANGED <<asked, at, pendingEnds, pendingCaptures, world, db, news, phantom>>
    BY DEF SweepBroken, Sweeps
  <1>2. OnlyThis(t, {}) /\ row[claims[t].id] # "COMPLETED"
    BY <1>1, SettlesFacts DEF Active
  <1> QED
    BY <1>1, <1>2, EndClaimStep, SweepsTyped

\* A capture is submitted: of a claim whose term is over, or once more.
LEMMA CaptureSubmitted ==
    ASSUME Inv, NEW t \in Territory, NEW from,
           \/ Settles(t) /\ from = control[t]
           \/ t \in pendingCaptures /\ from = claims[t].from,
           claims' = [claims EXCEPT ![t].capturing = TRUE, ![t].from = from],
           pendingCaptures' = pendingCaptures \ {t},
           Submit({}, CaptureJob(claims[t].id, from)),
           step' = step \/ step' \in -2..Flushing,
           UNCHANGED <<asked, warriors, pendingEnds, world, db, news, phantom>>
    PROVE  Inv'
  <1> DEFINE n == claims[t].id
             j == CaptureJob(n, from)
             f == [kind |-> "captureFailed", terr |-> t]
  <1> USE DEF db, world, warriors
  <1>1. /\ Asked(n) /\ TerrOf(n) = t /\ n # 0 /\ n \in ClaimId /\ ~claims[t].pending /\ ~StartQueued(n)
        /\ \A m \in inbox : /\ m.kind = "started" => m.id # n
                            /\ m.kind \in CaptureKinds => m.terr # t
        /\ \A x \in Queued(queue) : x.kind = "capture" => TerrOf(x.id) # t
        /\ Active(n) \/ (claims[t].capturing /\ row[n] = "COMPLETED")
        /\ from \in Control
    <2>1. CASE Settles(t) /\ from = control[t]
      BY <2>1, SettlesFacts, AskedFacts DEF OnlyThis, Settles, Inv, TypeInv
    <2>2. CASE t \in pendingCaptures /\ from = claims[t].from
      <3>1. claims[t].capturing /\ ~Answered(t) /\ \A x \in Queued(queue) : x.kind = "capture" => TerrOf(x.id) # t
        BY <2>2 DEF Inv, CapturesAlone
      <3>2. from \in Control
        BY <2>2 DEF Inv, TypeInv, Claim
      <3> QED
        BY <3>1, <3>2, CaptureFacts DEF Answered
    <2> QED
      BY <2>1, <2>2
  <1>2. j \in Jobs /\ j.keys # {} /\ j.kind = "capture" /\ j.id = n /\ j.from = from /\ j = Job("capture", n, from)
    BY <1>1, JobTyped DEF Inv, CaptureJob, Job
  <1>3. FailureOf(j) = f /\ f \in Message
    BY <1>1, <1>2, FailureTyped DEF Inv
  <1>4. j \notin Queued(queue)
    BY <1>1, <1>2
  <1>5. /\ QueueShape'
        /\ \/ Queued(queue)' = Queued(queue) \cup {j} /\ inbox' = inbox /\ lost' = lost
           \/ /\ Queued(queue)' = Queued(queue)
              /\ \/ inbox' = inbox \cup {f} /\ lost' = lost
                 \/ inbox' = inbox /\ lost' = lost \cup {f}
    <2>1. inbox \ {} = inbox
      OBVIOUS
    <2> QED
      BY <1>2, <1>3, <1>4, <2>1, Submitted DEF Inv
  <1>6. Foundations' = Foundations
    BY <1>3, <1>5, FoundationsFrame
  <1>7. /\ f.kind = "captureFailed" /\ f.terr = t /\ f.kind \in CaptureKinds
        /\ f.kind # "started" /\ f.kind # "endFailed" /\ f.kind # "captured" /\ f.kind # "conflict"
    BY DEF CaptureKinds
  <1>8. /\ claims'[t].capturing /\ claims'[t].from = from
        /\ \A s \in Territory : claims'[s].id = claims[s].id /\ claims'[s].pending = claims[s].pending
        /\ \A s \in Territory \ {t} : claims'[s] = claims[s]
        /\ claims' \in [Territory -> Claim]
    BY <1>1 DEF Inv, TypeInv, Claim
  <1> HIDE DEF j, f, n
  <1>9. /\ \A x \in Queued(queue)' : x \in Queued(queue) \/ x = j
        /\ Queued(queue) \subseteq Queued(queue)' /\ inbox \subseteq inbox' /\ lost \subseteq lost'
        /\ \A m \in inbox' : m \in inbox \/ m = f
        /\ lost' \subseteq lost \cup {f}
        /\ j \in Queued(queue)' => inbox' = inbox
        /\ j \in Queued(queue)' \/ f \in inbox' \cup lost'
    BY <1>4, <1>5
  <1>10. TypeInv'
    BY <1>3, <1>8, <1>9 DEF Inv, TypeInv
  <1>11. \A k, o, g : Job(k, o, g)' = Job(k, o, g) /\ EndJob(o)' = EndJob(o) /\ StartJob(o)' = StartJob(o) /\ CaptureJob(o, g)' = CaptureJob(o, g)
    BY DEF Job, PlayerOf, EndJob, StartJob, CaptureJob
  <1>12. JobsAsked'
    BY <1>1, <1>2, <1>9, <1>11 DEF Inv, JobsAsked, Asked
  <1>13. ClaimShape'
    BY <1>1, <1>8 DEF Inv, ClaimShape, Asked, TerrOf, n
  <1>14. StartsAlone'
    <2>1. \A o : StartQueued(o)' <=> StartQueued(o)
      BY <1>2, <1>9 DEF StartQueued
    <2>2. \A o : Asked(o) /\ Waits(o) => Waits(o)'
      BY <1>8, AskedFacts DEF Inv, Waits, TerrOf
    <2>3. \A o \in ClaimId : StartQueued(o) => Asked(o)
      BY DEF Inv, JobsAsked, StartQueued
    <2>4. \A m \in inbox' : m.kind = "started" => m \in inbox
      BY <1>7, <1>9
    <2> QED
      BY <1>8, <2>1, <2>2, <2>3, <2>4 DEF Inv, StartsAlone, Asked, Active
  <1>15. EndedIsGone'
    <2>1. \A o \in ClaimId : Ends(o)' => Ends(o)
      BY <1>2, <1>7, <1>9 DEF Ends
    <2> QED
      BY <1>8, <2>1, AskedFacts DEF Inv, EndedIsGone, Asked, TerrOf
  <1>16. CapturesAlone'
    <2>1. \A s \in Territory \ {t} : Answered(s)' => Answered(s)
      BY <1>7, <1>9 DEF Answered
    <2>2. j \in Queued(queue)' => ~Answered(t)'
      BY <1>1, <1>9 DEF Answered, n
    <2>3. \A x \in Queued(queue) : TerrOf(x.id) \in Territory
      BY AskedFacts DEF Inv, JobsAsked
    <2>4. \A x \in Queued(queue)' : x.kind = "capture" => \A s \in Territory : s = TerrOf(x.id) =>
             /\ claims'[s].id = x.id /\ claims'[s].capturing /\ claims'[s].from = x.from
             /\ s \notin pendingCaptures' /\ ~Answered(s)'
      <3> SUFFICES ASSUME NEW x \in Queued(queue)', x.kind = "capture", NEW s \in Territory, s = TerrOf(x.id)
                   PROVE  /\ claims'[s].id = x.id /\ claims'[s].capturing /\ claims'[s].from = x.from
                          /\ s \notin pendingCaptures' /\ ~Answered(s)'
        OBVIOUS
      <3>1. CASE x = j
        BY <1>1, <1>2, <1>8, <2>2, <3>1 DEF n
      <3>2. CASE x # j
        <4>1. x \in Queued(queue) /\ s # t
          BY <1>1, <1>9, <3>2
        <4> QED
          BY <1>8, <2>1, <4>1 DEF Inv, CapturesAlone
      <3> QED
        BY <3>1, <3>2
    <2>7. \A x \in Queued(queue)' : TerrOf(x.id) \in Territory
      BY <1>1, <1>2, <1>9, <2>3
    <2>5. \A s \in pendingCaptures' : claims'[s].capturing /\ ~Answered(s)'
      BY <1>8, <2>1 DEF Inv, CapturesAlone, TypeInv
    <2>6. \A m \in inbox' : m.kind \in CaptureKinds =>
              /\ claims'[m.terr].capturing
              /\ m.kind = "captured" => row'[claims'[m.terr].id] = "COMPLETED" /\ m.control = dbControl'[m.terr]
              /\ m.kind = "conflict" => row'[claims'[m.terr].id] # "COMPLETED"
              /\ \A o \in inbox' : o.kind \in CaptureKinds /\ o.terr = m.terr => o = m
      <3> SUFFICES ASSUME NEW m \in inbox', m.kind \in CaptureKinds
                   PROVE  /\ claims'[m.terr].capturing
                          /\ m.kind = "captured" => row'[claims'[m.terr].id] = "COMPLETED" /\ m.control = dbControl'[m.terr]
                          /\ m.kind = "conflict" => row'[claims'[m.terr].id] # "COMPLETED"
                          /\ \A o \in inbox' : o.kind \in CaptureKinds /\ o.terr = m.terr => o = m
        OBVIOUS
      <3>1. CASE m = f
        BY <1>1, <1>7, <1>8, <1>9, <3>1
      <3>2. CASE m # f
        <4>1. m \in inbox /\ m.terr # t /\ m.terr \in Territory
          BY <1>1, <1>9, <3>2, MessageIs DEF Inv, TypeInv
        <4> QED
          BY <1>7, <1>8, <1>9, <4>1 DEF Inv, CapturesAlone
      <3> QED
        BY <3>1, <3>2
    <2> QED
      BY <2>4, <2>5, <2>6, <2>7 DEF CapturesAlone, TerrOf
  <1>17. OneActive' /\ LimitsAgree' /\ ContestedIsActive' /\ FoundedStays'
    BY <1>6, ActiveFrame, LimitsFrame, ContestedFrame, FoundedFrame DEF Inv
  <1>18. ControlInv'
    <2>1. \A s \in Territory : NewsOf(s)' = NewsOf(s)
      BY <1>6 DEF NewsOf, Foundations
    <2>2. CASE t \in pendingCaptures /\ from = claims[t].from
      <3>1. \A s \in Territory : claims'[s].capturing = claims[s].capturing /\ claims'[s].from = claims[s].from
        BY <1>8, <2>2 DEF Inv, CapturesAlone
      <3>2. \A s \in Territory : Completed(s)' = Completed(s)
        BY <1>8, <3>1 DEF Completed
      <3>3. \A s \in Territory : claims'[s].id = claims[s].id
        BY <1>8
      <3> QED
        BY <1>6, <2>1, <3>1, <3>2, <3>3 DEF Inv, ControlInv, PlayerOf
    <2>3. CASE Settles(t) /\ from = control[t]
      <3>1. ~Completed(t) /\ ~Completed(t)' /\ \A s \in Territory \ {t} : Completed(s)' = Completed(s)
        BY <1>1, <1>8, <2>3 DEF Completed, Settles, Active, n
      <3> QED
        BY <1>6, <1>8, <2>1, <2>3, <3>1 DEF Inv, ControlInv, PlayerOf
    <2> QED
      BY <2>2, <2>3
  <1>19. ConfirmedHasRow'
    BY <1>1, <1>8 DEF Inv, ConfirmedHasRow, Active, n
  <1>20. PlantedHasClaim'
    BY <1>8 DEF Inv, PlantedHasClaim, TypeInv, UnitOf
  <1>21. RowTracked'
    <2>1. \A o \in ClaimId : Ending(o) => Ending(o)'
      BY <1>9, <1>11 DEF Ending
    <2>2. \A o \in ClaimId : Active(o) => TerrOf(o) \in Territory
      BY AskedFacts DEF Inv, ClaimShape, Active
    <2> QED
      BY <1>8, <2>1, <2>2 DEF Inv, RowTracked, Active, TerrOf
  <1>22. AnswerAwaited'
    <2>1. ASSUME NEW s \in Territory \ {t}
          PROVE  LET c == claims[s] IN
                 /\ c # NoClaim /\ c.pending => StartJob(c.id) \in Queued(queue)' \/ About(s, c)' # {}
                 /\ c.capturing => \/ CaptureJob(c.id, c.from) \in Queued(queue)' \/ s \in pendingCaptures'
                                   \/ About(s, c)' # {}
      <3>1. About(s, claims[s]) \subseteq About(s, claims[s])'
        BY <1>8, <1>9 DEF About
      <3> QED
        BY <1>9, <3>1 DEF Inv, AnswerAwaited
    <2>2. j \in Queued(queue)' \/ About(t, claims[t])' # {}
      BY <1>3, <1>7, <1>9 DEF About
    <2> QED
      BY <1>1, <1>8, <1>11, <2>1, <2>2 DEF AnswerAwaited, j, n
  <1> QED
    BY <1>5, <1>10, <1>12, <1>13, <1>14, <1>15, <1>16, <1>17, <1>18, <1>19, <1>20, <1>21, <1>22 DEF Inv

LEMMA SweepDueStep ==
    ASSUME Inv, NEW t \in Territory, SweepDue(t)
    PROVE  Inv'
  <1>1. /\ Settles(t) /\ claims' = [claims EXCEPT ![t].capturing = TRUE, ![t].from = control[t]] /\ step' = t + 1
        /\ Submit({}, CaptureJob(claims[t].id, control[t]))
        /\ UNCHANGED <<asked, warriors, pendingEnds, pendingCaptures, world, db, news, phantom>>
    BY DEF SweepDue, Sweeps
  <1>2. pendingCaptures' = pendingCaptures \ {t}
    BY <1>1, SettlesFacts DEF OnlyThis
  <1> QED
    BY <1>1, <1>2, CaptureSubmitted, SweepsTyped

LEMMA FlushCaptureStep ==
    ASSUME Inv, NEW t \in Territory, FlushCapture(t)
    PROVE  Inv'
  <1>1. /\ t \in pendingCaptures /\ pendingCaptures' = pendingCaptures \ {t} /\ claims' = claims /\ step' = step
        /\ Submit({}, CaptureJob(claims[t].id, claims[t].from))
        /\ UNCHANGED <<asked, warriors, pendingEnds, world, db, news, phantom>>
    BY DEF FlushCapture
  <1>2. claims[t].capturing /\ claims \in [Territory -> Claim]
    BY <1>1 DEF Inv, CapturesAlone, TypeInv
  <1>3. claims' = [claims EXCEPT ![t].capturing = TRUE, ![t].from = claims[t].from]
    BY <1>1, <1>2 DEF Claim
  <1> QED
    BY <1>1, <1>3, CaptureSubmitted

LEMMA FlushEndStep ==
    ASSUME Inv, NEW n \in pendingEnds, FlushEnd(n)
    PROVE  Inv'
  <1> DEFINE j == EndJob(n)
             f == [kind |-> "endFailed", id |-> n]
  <1> USE DEF db, world, warriors
  <1>1. /\ pendingEnds' = pendingEnds \ {n} /\ Submit({}, j)
        /\ UNCHANGED <<step, asked, warriors, claims, pendingCaptures, world, db, news, phantom>>
    BY DEF FlushEnd
  <1>2. n \in ClaimId /\ Ends(n) /\ Asked(n)
    BY DEF Inv, TypeInv, Ends, EndedIsGone
  <1>3. j \in Jobs /\ j.keys # {} /\ j.kind = "end" /\ j.id = n /\ j.from = NoControl /\ j = Job("end", n, NoControl)
    BY <1>2, JobTyped, NoControlTyped DEF Inv, EndJob, Job
  <1>4. FailureOf(j) = f /\ f \in Message
    BY <1>2, <1>3, FailureTyped DEF Inv
  <1>5. /\ QueueShape'
        /\ \/ Queued(queue)' = Queued(queue) \cup {j} /\ inbox' = inbox /\ lost' = lost
           \/ /\ Queued(queue)' = Queued(queue)
              /\ \/ inbox' = inbox \cup {f} /\ lost' = lost
                 \/ inbox' = inbox /\ lost' = lost \cup {f}
    <2>1. inbox \ {} = inbox
      OBVIOUS
    <2> QED
      BY <1>1, <1>3, <1>4, <2>1, Submitted DEF Inv
  <1>6. Foundations' = Foundations
    BY <1>1, <1>4, <1>5, FoundationsFrame
  <1>7. f.kind = "endFailed" /\ f.id = n /\ f.kind \notin CaptureKinds
    BY DEF CaptureKinds
  <1> HIDE DEF j, f
  <1>9. /\ \A x \in Queued(queue)' : x \in Queued(queue) \/ x = j
        /\ Queued(queue) \subseteq Queued(queue)' /\ inbox \subseteq inbox' /\ lost \subseteq lost'
        /\ \A m \in inbox' : m \in inbox \/ m = f
        /\ lost' \subseteq lost \cup {f}
        /\ j \in Queued(queue)' \/ f \in inbox' \cup lost'
    BY <1>5
  <1>10. TypeInv'
    BY <1>1, <1>4, <1>9 DEF Inv, TypeInv
  <1>11. \A k, o, g : Job(k, o, g)' = Job(k, o, g) /\ EndJob(o)' = EndJob(o) /\ StartJob(o)' = StartJob(o) /\ CaptureJob(o, g)' = CaptureJob(o, g)
    BY <1>1 DEF Job, PlayerOf, EndJob, StartJob, CaptureJob
  <1>12. JobsAsked'
    BY <1>1, <1>2, <1>3, <1>9, <1>11 DEF Inv, JobsAsked, Asked
  <1>13. ClaimShape' /\ OneActive' /\ LimitsAgree' /\ ContestedIsActive' /\ ConfirmedHasRow' /\ PlantedHasClaim'
    BY <1>1, ClaimFrame, ActiveFrame, LimitsFrame, ContestedFrame, ConfirmedFrame, PlantedFrame DEF Inv
  <1>14. FoundedStays' /\ ControlInv'
    BY <1>1, <1>6, FoundedFrame, ControlFrame DEF Inv
  <1>15. StartsAlone'
    <2>1. \A o : StartQueued(o)' <=> StartQueued(o)
      BY <1>3, <1>9 DEF StartQueued
    <2>2. \A m \in inbox' : m.kind = "started" => m \in inbox
      BY <1>7, <1>9
    <2> QED
      BY <1>1, <2>1, <2>2 DEF Inv, StartsAlone, Waits, TerrOf, Asked, Active
  <1>16. EndedIsGone'
    <2>1. \A o \in ClaimId : Ends(o)' => Ends(o)
      BY <1>1, <1>2, <1>3, <1>7, <1>9 DEF Ends
    <2> QED
      BY <1>1, <2>1 DEF Inv, EndedIsGone, Asked, TerrOf
  <1>17. CapturesAlone'
    <2>1. \A s : Answered(s)' <=> Answered(s)
      BY <1>7, <1>9 DEF Answered
    <2>2. \A x \in Queued(queue)' : x.kind = "capture" => x \in Queued(queue)
      BY <1>3, <1>9
    <2>3. \A m \in inbox' : m.kind \in CaptureKinds => m \in inbox
      BY <1>7, <1>9
    <2> QED
      BY <1>1, <2>1, <2>2, <2>3 DEF Inv, CapturesAlone, TerrOf
  <1>18. RowTracked'
    <2>1. \A o \in ClaimId : Ending(o) => Ending(o)'
      BY <1>1, <1>9, <1>11 DEF Ending, j, f
    <2> QED
      BY <1>1, <2>1 DEF Inv, RowTracked, Active, TerrOf
  <1>19. AnswerAwaited'
    <2>1. \A s \in Territory : About(s, claims[s]) \subseteq About(s, claims[s])'
      BY <1>1, <1>9 DEF About
    <2> QED
      BY <1>1, <1>9, <1>11, <2>1 DEF Inv, AnswerAwaited
  <1> QED
    BY <1>5, <1>10, <1>12, <1>13, <1>14, <1>15, <1>16, <1>17, <1>18, <1>19 DEF Inv

-----------------------------------------------------------------------------
(* The order to claim.                                                     *)

LEMMA ClaimStep ==
    ASSUME Inv, NEW u \in Unit, NEW n, n = Len(asked) + 1, NEW t, t = at[u], HandleClaim(u)
    PROVE  Inv'
  <1> DEFINE r == [unit |-> u, terr |-> t]
             c == [NoClaim EXCEPT !.id = n, !.pending = TRUE]
             j == [kind |-> "start", id |-> n, from |-> NoControl, keys |-> {UnitOwner[u]}]
             f == [kind |-> "started", id |-> n, ok |-> FALSE]
  <1> USE DEF db, world
  <1>1. /\ n \in ClaimId /\ claims[t] = NoClaim /\ asked' = Append(asked, r)
        /\ status' = [status EXCEPT ![u] = "claiming"] /\ claims' = [claims EXCEPT ![t] = c]
        /\ Submit({}, j)
        /\ UNCHANGED <<step, at, pendingEnds, pendingCaptures, world, news, db, phantom>>
    BY DEF HandleClaim
  <1>2. t \in Territory /\ r \in [unit: Unit, terr: Territory] /\ UnitOwner[u] \in Player
    BY ConquestAssumption DEF Inv, TypeInv
  <1>3. /\ asked' \in Seq([unit: Unit, terr: Territory]) /\ Len(asked) \in Nat /\ Len(asked') = n
        /\ asked'[n] = r /\ \A i \in 1..Len(asked) : asked'[i] = asked[i]
    BY <1>1, <1>2, AppendFacts DEF Inv, TypeInv
  <1>4. /\ ~Asked(n) /\ Asked(n)' /\ TerrOf(n)' = t /\ UnitOf(n)' = u /\ PlayerOf(n)' = UnitOwner[u]
        /\ \A o : Asked(o) => Asked(o)' /\ o # n /\ TerrOf(o)' = TerrOf(o) /\ UnitOf(o)' = UnitOf(o) /\ PlayerOf(o)' = PlayerOf(o)
    BY <1>3 DEF Asked, TerrOf, UnitOf, PlayerOf
  <1>5. \A k, o, g : Asked(o) => /\ Job(k, o, g)' = Job(k, o, g) /\ EndJob(o)' = EndJob(o)
                                 /\ StartJob(o)' = StartJob(o) /\ CaptureJob(o, g)' = CaptureJob(o, g)
    BY <1>4 DEF Job, EndJob, StartJob, CaptureJob
  <1>6. j \in Jobs /\ j.keys # {} /\ j.kind = "start" /\ j.id = n /\ j.from = NoControl /\ j = StartJob(n)' /\ j = Job("start", n, NoControl)'
    BY <1>1, <1>2, <1>4, NoControlTyped DEF Jobs, StartJob, Job
  <1>7. FailureOf(j) = f /\ f \in Message
    <2>1. \A i \in ClaimId : [kind |-> "started", id |-> i, ok |-> FALSE] \in [kind: {"started"}, id: ClaimId, ok: BOOLEAN]
      OBVIOUS
    <2> QED
      BY <1>1, <2>1 DEF FailureOf, Message
  <1>8. \A x \in Queued(queue) : Asked(x.id) /\ x.id # n
    BY <1>4 DEF Inv, JobsAsked
  <1>9. /\ QueueShape'
        /\ \/ Queued(queue)' = Queued(queue) \cup {j} /\ inbox' = inbox /\ lost' = lost
           \/ /\ Queued(queue)' = Queued(queue)
              /\ \/ inbox' = inbox \cup {f} /\ lost' = lost
                 \/ inbox' = inbox /\ lost' = lost \cup {f}
    <2>1. inbox \ {} = inbox /\ j \notin Queued(queue)
      BY <1>8
    <2> QED
      BY <1>1, <1>6, <1>7, <2>1, Submitted DEF Inv
  <1>10. Foundations' = Foundations
    BY <1>1, <1>7, <1>9, FoundationsFrame
  <1>11. f.kind = "started" /\ f.id = n /\ f.ok = FALSE /\ f.kind \notin CaptureKinds
    BY DEF CaptureKinds
  <1>12. c \in Claim /\ c.id = n /\ c.pending /\ ~c.capturing /\ c # NoClaim /\ n # 0
    <2>1. NoClaim \in Claim /\ NoClaim.id = 0 /\ ~NoClaim.capturing
      BY NoControlTyped DEF NoClaim, Claim
    <2>2. c \in Claim /\ c.id = n /\ c.pending /\ ~c.capturing
      BY <1>1, <2>1 DEF Claim
    <2>3. n # 0
      BY <1>1 DEF ClaimId
    <2> QED
      BY <2>1, <2>2, <2>3
  <1>13. /\ claims'[t] = c /\ claims' \in [Territory -> Claim]
         /\ \A s \in Territory \ {t} : claims'[s] = claims[s]
    BY <1>1, <1>2, <1>12 DEF Inv, TypeInv
  <1>14. claims[t].id = 0 /\ ~claims[t].capturing /\ ~claims[t].pending
    BY <1>1 DEF NoClaim
  <1>15. \A s \in Territory : claims[s] # NoClaim => Asked(claims[s].id) /\ TerrOf(claims[s].id) = s /\ claims[s].id # 0 /\ s # t
    BY <1>1 DEF Inv, ClaimShape
  <1>16. \A s \in Territory : claims[s].pending \/ claims[s].capturing \/ claims[s].id # 0 => claims[s] # NoClaim
    BY DEF NoClaim
  <1>17. \A o \in ClaimId : row[o] # "none" => Asked(o)
    BY DEF Inv, ClaimShape
  <1>18. \A o : Asked(o) => o \in ClaimId /\ o # 0 /\ TerrOf(o) \in Territory
    BY AskedFacts DEF Inv, ClaimId
  <1> HIDE DEF j, f, c, r
  <1>19. /\ \A x \in Queued(queue)' : x \in Queued(queue) \/ x = j
         /\ Queued(queue) \subseteq Queued(queue)' /\ inbox \subseteq inbox' /\ lost \subseteq lost'
         /\ \A m \in inbox' : m \in inbox \/ m = f
         /\ lost' \subseteq lost \cup {f}
         /\ j \in Queued(queue)' \/ f \in inbox' \cup lost'
         /\ f \in inbox' => Queued(queue)' = Queued(queue) \/ f \in inbox
    BY <1>9
  <1>20. TypeInv'
    <2>1. status' \in [Unit -> Status] /\ n <= MaxClaims
      BY <1>1, ConquestAssumption DEF Inv, TypeInv, Status, ClaimId
    <2> QED
      BY <1>1, <1>3, <1>7, <1>13, <1>19, <2>1 DEF Inv, TypeInv
  <1>21. JobsAsked'
    BY <1>4, <1>5, <1>6, <1>8, <1>19 DEF Inv, JobsAsked
  <1>22. ClaimShape'
    <2>1. \A o \in ClaimId : row'[o] # "none" => Asked(o)'
      BY <1>1, <1>4, <1>17
    <2>2. \A s \in Territory : claims'[s].id = 0 => claims'[s] = NoClaim
      BY <1>12, <1>13 DEF Inv, ClaimShape
    <2>3. \A s \in Territory : claims'[s].id # 0 => Asked(claims[s].id)' /\ TerrOf(claims[s].id)' = s
      <3> SUFFICES ASSUME NEW s \in Territory, claims'[s].id # 0
                   PROVE  claims'[s].id \in 1..Len(asked') /\ asked'[claims'[s].id].terr = s
        BY DEF Asked, TerrOf
      <3>1. CASE s = t
        BY <1>4, <1>12, <1>13, <3>1 DEF Asked, TerrOf
      <3>2. CASE s # t
        BY <1>3, <1>13, <1>15, <1>16, <3>2 DEF Asked, TerrOf
      <3> QED
        BY <3>1, <3>2
    <2>4. \A s \in Territory : claims'[s].capturing => ~claims'[s].pending
      BY <1>12, <1>13 DEF Inv, ClaimShape
    <2> QED
      BY <2>1, <2>2, <2>3, <2>4 DEF ClaimShape
  <1>23. StartsAlone'
    <2>1. \A o : StartQueued(o)' => StartQueued(o) \/ (o = n /\ j \in Queued(queue)')
      BY <1>6, <1>19 DEF StartQueued
    <2>2. \A o : Asked(o) /\ Waits(o) => Waits(o)'
      BY <1>4, <1>13, <1>14, <1>18 DEF Waits
    <2>3. \A o \in ClaimId : StartQueued(o) => Asked(o)
      BY <1>8 DEF StartQueued
    <2>4. Waits(n)' /\ ~StartQueued(n)
      BY <1>2, <1>4, <1>8, <1>12, <1>13 DEF Waits, StartQueued
    <2>5. \A m \in inbox : m.kind = "started" => m.id # n
      BY <1>4 DEF Inv, StartsAlone
    <2>6. ASSUME NEW m \in inbox', m.kind = "started"
          PROVE  /\ Asked(m.id)' /\ Waits(m.id)' /\ ~StartQueued(m.id)'
                 /\ IF m.ok THEN Active(m.id)' ELSE row'[m.id] = "none" \/ m.id \in phantom'
                 /\ \A o \in inbox' : o.kind = "started" /\ o.id = m.id => o = m
      <3>1. CASE m \in inbox
        <4>1. Asked(m.id) /\ Waits(m.id) /\ ~StartQueued(m.id) /\ m.id # n
          BY <1>4, <2>6, <3>1 DEF Inv, StartsAlone
        <4>2. Asked(m.id)' /\ Waits(m.id)' /\ ~StartQueued(m.id)'
          BY <1>4, <2>1, <2>2, <4>1
        <4>3. IF m.ok THEN Active(m.id)' ELSE row'[m.id] = "none" \/ m.id \in phantom'
          BY <1>1, <2>6, <3>1 DEF Inv, StartsAlone, Active
        <4>4. \A o \in inbox' : o.kind = "started" /\ o.id = m.id => o = m
          BY <1>11, <1>19, <2>6, <3>1, <4>1 DEF Inv, StartsAlone
        <4> QED
          BY <4>2, <4>3, <4>4
      <3>2. CASE m \notin inbox
        <4>1. m = f
          BY <1>19, <3>2
        <4>2. ~StartQueued(n)'
          BY <1>19, <2>4, <3>2, <4>1 DEF StartQueued
        <4>3. row[n] = "none"
          BY <1>1, <1>4, <1>17
        <4> QED
          BY <1>1, <1>4, <1>11, <1>19, <2>4, <2>5, <4>1, <4>2, <4>3
      <3> QED
        BY <3>1, <3>2
    <2>7. \A s \in Territory : claims'[s].pending => row'[claims'[s].id] \in {"none", "ACTIVE"}
      <3>1. row[n] = "none"
        BY <1>1, <1>4, <1>17
      <3> QED
        BY <1>1, <1>12, <1>13, <3>1 DEF Inv, StartsAlone
    <2>8. \A o \in ClaimId : StartQueued(o)' => Waits(o)'
      BY <2>1, <2>2, <2>3, <2>4 DEF Inv, StartsAlone
    <2> QED
      BY <2>6, <2>7, <2>8 DEF StartsAlone
  <1>24. EndedIsGone'
    <2>1. \A o \in ClaimId : Ends(o)' => Ends(o)
      BY <1>1, <1>6, <1>11, <1>19 DEF Ends
    <2>2. \A o \in ClaimId : Ends(o) => Asked(o) /\ claims[TerrOf(o)].id # o
      BY DEF Inv, EndedIsGone
    <2> QED
      BY <1>4, <1>12, <1>13, <1>18, <2>1, <2>2 DEF EndedIsGone
  <1>25. CapturesAlone'
    <2>1. \A s : Answered(s)' <=> Answered(s)
      BY <1>11, <1>19 DEF Answered
    <2>2. \A x \in Queued(queue)' : x.kind = "capture" => x \in Queued(queue)
      BY <1>6, <1>19
    <2>3. \A m \in inbox' : m.kind \in CaptureKinds => m \in inbox
      BY <1>11, <1>19
    <2>4. \A s : claims[s].capturing /\ s \in Territory => claims'[s] = claims[s]
      BY <1>13, <1>14
    <2>5. \A x \in Queued(queue)' : x.kind = "capture" =>
             /\ TerrOf(x.id)' = TerrOf(x.id) /\ claims'[TerrOf(x.id)] = claims[TerrOf(x.id)]
      BY <1>4, <1>8, <1>18, <2>2, <2>4 DEF Inv, CapturesAlone
    <2>6. \A x \in Queued(queue)' : x.kind = "capture" => \A s : s = TerrOf(x.id)' =>
             /\ claims'[s].id = x.id /\ claims'[s].capturing /\ claims'[s].from = x.from
             /\ s \notin pendingCaptures' /\ ~Answered(s)'
      BY <1>1, <2>1, <2>2, <2>5 DEF Inv, CapturesAlone
    <2>7. \A s \in pendingCaptures' : claims'[s].capturing /\ ~Answered(s)'
      BY <1>1, <2>1, <2>4 DEF Inv, CapturesAlone, TypeInv
    <2>8. \A m \in inbox : m.kind \in CaptureKinds => m.terr \in Territory
      BY MessageIs DEF Inv, TypeInv
    <2>9. \A m \in inbox' : m.kind \in CaptureKinds =>
              /\ claims'[m.terr].capturing
              /\ m.kind = "captured" => row'[claims'[m.terr].id] = "COMPLETED" /\ m.control = dbControl'[m.terr]
              /\ m.kind = "conflict" => row'[claims'[m.terr].id] # "COMPLETED"
              /\ \A o \in inbox' : o.kind \in CaptureKinds /\ o.terr = m.terr => o = m
      BY <1>1, <2>3, <2>4, <2>8 DEF Inv, CapturesAlone
    <2> QED
      BY <2>6, <2>7, <2>9 DEF CapturesAlone
  <1>26. OneActive'
    BY <1>1, <1>4, <1>17 DEF Inv, OneActive, Active
  <1>27. LimitsAgree' /\ FoundedStays'
    BY <1>1, <1>10, LimitsFrame, FoundedFrame DEF Inv
  <1>28. ControlInv'
    <2>1. \A s \in Territory : NewsOf(s)' = NewsOf(s)
      BY <1>10 DEF NewsOf, Foundations
    <2>2. ~Completed(t) /\ ~Completed(t)' /\ \A s \in Territory \ {t} : Completed(s)' = Completed(s)
      BY <1>1, <1>12, <1>13, <1>14 DEF Completed
    <2>3. \A s \in Territory : Completed(s) => UnitOwner[asked'[claims'[s].id].unit] = PlayerOf(claims[s].id)
      BY <1>4, <1>13, <1>15, <1>16, <2>2 DEF Completed, PlayerOf
    <2>4. ASSUME NEW s \in Territory
          PROVE  /\ control'[s] = dbControl'[s] \/ NewsOf(s)' \/ Completed(s)'
                 /\ Completed(s)' => /\ dbControl'[s].owner = UnitOwner[asked'[claims'[s].id].unit]
                                     /\ control'[s] = claims'[s].from
                                     /\ \A m \in Foundations' : Home[m.player] # s
                 /\ claims'[s].capturing /\ ~Completed(s)' =>
                       claims'[s].from = control'[s] \/ claims'[s].from.version < dbControl'[s].version
      BY <1>1, <1>10, <1>12, <1>13, <2>1, <2>2, <2>3 DEF Inv, ControlInv
    <2> QED
      BY <2>4 DEF ControlInv, PlayerOf
  <1>29. ContestedIsActive'
    <2>1. \A s : ActiveOn(s)' = ActiveOn(s)
      BY <1>1, <1>4, <1>17 DEF ActiveOn, Active
    <2> QED
      BY <1>1, <2>1 DEF Inv, ContestedIsActive
  <1>30. ConfirmedHasRow'
    BY <1>1, <1>12, <1>13 DEF Inv, ConfirmedHasRow, Active
  <1>31. PlantedHasClaim'
    <2> SUFFICES ASSUME NEW v \in Unit, status'[v] = "claiming"
                 PROVE  claims'[at[v]].id # 0 /\ asked'[claims'[at[v]].id].unit = v
      BY <1>1 DEF PlantedHasClaim, UnitOf
    <2>1. at[v] \in Territory
      BY DEF Inv, TypeInv
    <2>2. CASE v = u
      BY <1>4, <1>12, <1>13, <2>2 DEF UnitOf
    <2>3. CASE v # u
      <3>1. claims[at[v]].id # 0 /\ UnitOf(claims[at[v]].id) = v
        BY <1>1, <2>3 DEF Inv, TypeInv, PlantedHasClaim
      <3> QED
        BY <1>4, <1>13, <1>15, <1>16, <2>1, <3>1 DEF UnitOf
    <2> QED
      BY <2>2, <2>3
  <1>32. RowTracked'
    <2>1. \A o \in ClaimId : Asked(o) /\ Ending(o) => Ending(o)'
      BY <1>1, <1>5, <1>19 DEF Ending
    <2>2. \A o \in ClaimId : Active(o)' => Active(o) /\ Asked(o)
      BY <1>1, <1>17 DEF Active
    <2>3. \A o \in ClaimId : Asked(o) /\ claims[TerrOf(o)].id = o => claims'[TerrOf(o)].id = o
      BY <1>13, <1>14, <1>18
    <2> QED
      BY <1>1, <1>4, <2>1, <2>2, <2>3 DEF Inv, RowTracked
  <1>33. AnswerAwaited'
    <2>1. ASSUME NEW s \in Territory \ {t}
          PROVE  /\ claims'[s] # NoClaim /\ claims'[s].pending => StartJob(claims[s].id)' \in Queued(queue)' \/ About(s, claims[s])' # {}
                 /\ claims'[s].capturing => \/ CaptureJob(claims[s].id, claims[s].from)' \in Queued(queue)' \/ s \in pendingCaptures'
                                            \/ About(s, claims[s])' # {}
      <3>1. claims'[s] = claims[s] /\ About(s, claims[s]) \subseteq About(s, claims[s])'
        BY <1>13, <1>19 DEF About
      <3>2. claims[s] # NoClaim => Asked(claims[s].id)
        BY <1>15
      <3>3. claims[s] # NoClaim => /\ StartJob(claims[s].id)' = StartJob(claims[s].id)
                                   /\ CaptureJob(claims[s].id, claims[s].from)' = CaptureJob(claims[s].id, claims[s].from)
        BY <1>4, <3>1, <3>2 DEF StartJob, CaptureJob, Job, PlayerOf
      <3> QED
        BY <1>1, <1>16, <1>19, <3>1, <3>3 DEF Inv, AnswerAwaited
    <2>2. StartJob(claims[t].id)' \in Queued(queue)' \/ About(t, claims[t])' # {}
      <3>1. StartJob(claims[t].id)' = j
        BY <1>6, <1>12, <1>13 DEF StartJob, Job, PlayerOf
      <3>2. f \in inbox' \cup lost' => f \in About(t, claims[t])'
        BY <1>7, <1>11, <1>12, <1>13 DEF About
      <3> QED
        BY <1>19, <3>1, <3>2
    <2> QED
      BY <1>12, <1>13, <2>1, <2>2 DEF AnswerAwaited
  <1> QED
    BY <1>9, <1>20, <1>21, <1>22, <1>23, <1>24, <1>25, <1>26, <1>27, <1>28, <1>29, <1>30, <1>31, <1>32, <1>33 DEF Inv

-----------------------------------------------------------------------------
(* The workers: what a job finds, writes and answers.                      *)

LEMMA JobFacts ==
    ASSUME Inv, NEW j \in Queued(queue), NEW n, n = j.id, NEW t, t = TerrOf(n)
    PROVE  /\ Asked(n) /\ n \in ClaimId /\ t \in Territory /\ PlayerOf(n) \in Player /\ n # 0
           /\ j.kind \in {"start", "end", "capture"} /\ j.from \in Control /\ j = Job(j.kind, n, j.from)
           /\ j.kind # "capture" => j.from = NoControl
           /\ j.kind = "start" => /\ StartQueued(n) /\ claims[t].id = n /\ claims[t].pending /\ ~claims[t].capturing
                                  /\ row[n] \in {"none", "ACTIVE"}
           /\ j.kind = "end" => Ends(n) /\ claims[t].id # n
           /\ j.kind = "capture" => /\ claims[t].id = n /\ claims[t].capturing /\ ~claims[t].pending /\ claims[t].from = j.from
                                    /\ t \notin pendingCaptures /\ ~Answered(t)
           /\ \A m \in inbox : m.kind = "started" => m.id # n
           /\ \A m \in inbox : m.kind \in CaptureKinds =>
                 /\ m.terr \in Territory /\ claims[m.terr].id # n /\ claims[m.terr].id \in ClaimId
                 /\ j.kind = "capture" => m.terr # t
  <1>1. Asked(n) /\ n \in ClaimId /\ t \in Territory /\ PlayerOf(n) \in Player /\ n # 0 /\ j \in Jobs /\ j = Job(j.kind, n, j.from) /\ (j.kind # "capture" => j.from = NoControl)
    BY AskedFacts, QueuedJobs DEF Inv, JobsAsked, ClaimId
  <1>2. j.kind \in {"start", "end", "capture"} /\ j.from \in Control
    BY <1>1 DEF Jobs
  <1>3. ASSUME j.kind = "start"
        PROVE  StartQueued(n) /\ claims[t].id = n /\ claims[t].pending /\ ~claims[t].capturing /\ row[n] \in {"none", "ACTIVE"}
    BY <1>1, <1>3 DEF Inv, StartsAlone, StartQueued, Waits, ClaimShape
  <1>4. ASSUME j.kind = "end" PROVE Ends(n) /\ claims[t].id # n
    BY <1>1, <1>4 DEF Inv, EndedIsGone, Ends
  <1>5. ASSUME j.kind = "capture"
        PROVE  /\ claims[t].id = n /\ claims[t].capturing /\ ~claims[t].pending /\ claims[t].from = j.from
               /\ t \notin pendingCaptures /\ ~Answered(t)
    BY <1>1, <1>5 DEF Inv, CapturesAlone, ClaimShape
  <1>6. ASSUME NEW m \in inbox, m.kind = "started" PROVE m.id # n
    <2>1. Waits(m.id) /\ ~StartQueued(m.id)
      BY <1>6 DEF Inv, StartsAlone
    <2> QED
      BY <1>2, <1>3, <1>4, <1>5, <2>1 DEF Waits
  <1>7. ASSUME NEW m \in inbox, m.kind \in CaptureKinds
        PROVE  /\ m.terr \in Territory /\ claims[m.terr].id # n /\ claims[m.terr].id \in ClaimId
               /\ j.kind = "capture" => m.terr # t
    <2>1. m.terr \in Territory /\ claims[m.terr].capturing /\ TerrOf(claims[m.terr].id) = m.terr /\ claims[m.terr].id \in ClaimId
      BY <1>7, CaptureAnswerFacts, CaptureFacts
    <2>2. j.kind = "capture" => m.terr # t
      BY <1>5, <1>7 DEF Answered
    <2> QED
      BY <1>2, <1>3, <1>4, <2>1, <2>2
  <1> QED
    BY <1>1, <1>2, <1>3, <1>4, <1>5, <1>6, <1>7

\* What a job may do to the database.
RowEffect(j) ==
    LET n == j.id IN
    /\ \A o \in ClaimId \ {n} : row'[o] = row[o]
    /\ \A s \in Territory : dbControl'[s] = dbControl[s] \/ (j.kind = "capture" /\ s = TerrOf(n) /\ Active(n) /\ row'[n] = "COMPLETED")
    /\ j.kind = "start" => row'[n] \in {row[n], "ACTIVE"}
    /\ j.kind = "end" => row'[n] \in {row[n], "FAILED"}
    /\ j.kind = "capture" => row'[n] \in {row[n], "COMPLETED"}

LEMMA ApplyEffect ==
    ASSUME Inv, NEW j \in Queued(queue), Apply(j)
    PROVE  /\ RowEffect(j) /\ dbPresent' = dbPresent
           /\ j.kind = "start" => IF Accepts(j) THEN row'[j.id] = "ACTIVE" ELSE row'[j.id] = "none"
           /\ j.kind = "end" => row'[j.id] # "ACTIVE"
           /\ j.kind = "capture" => (Accepts(j) <=> row'[j.id] = "COMPLETED")
  <1> DEFINE n == j.id
             t == TerrOf(n)
  <1>1. /\ n \in ClaimId /\ t \in Territory /\ j.kind \in {"start", "end", "capture"}
        /\ j.kind = "start" => row[n] \in {"none", "ACTIVE"}
    BY JobFacts
  <1>2. row \in [ClaimId -> {"none", "ACTIVE", "COMPLETED", "FAILED"}] /\ dbControl \in [Territory -> Control]
    BY DEF Inv, TypeInv
  <1>3. CASE ~Writes(j)
    <2>1. UNCHANGED db
      BY <1>3 DEF Apply
    <2> QED
      BY <1>1, <1>3, <2>1 DEF db, RowEffect, Writes, Accepts, Active, Takes
  <1>4. CASE Writes(j) /\ j.kind = "start"
    <2>1. row' = [row EXCEPT ![n] = "ACTIVE"] /\ UNCHANGED <<dbControl, dbPresent>> /\ Accepts(j)
      BY <1>4 DEF Apply, StartRow, Writes, Accepts
    <2> QED
      BY <1>1, <1>2, <1>4, <2>1 DEF RowEffect
  <1>5. CASE Writes(j) /\ j.kind = "end"
    <2>1. row' = [row EXCEPT ![n] = "FAILED"] /\ UNCHANGED <<dbControl, dbPresent>>
      BY <1>5 DEF Apply, EndRow
    <2> QED
      BY <1>1, <1>2, <1>5, <2>1 DEF RowEffect
  <1>6. CASE Writes(j) /\ j.kind = "capture"
    <2>1. /\ row' = [row EXCEPT ![n] = "COMPLETED"] /\ dbPresent' = dbPresent /\ Active(n) /\ Accepts(j)
          /\ \A s \in Territory \ {t} : dbControl'[s] = dbControl[s]
      BY <1>2, <1>6 DEF Apply, CaptureRow, Writes, Takes, Accepts
    <2> QED
      BY <1>1, <1>2, <1>6, <2>1 DEF RowEffect
  <1> QED
    BY <1>1, <1>3, <1>4, <1>5, <1>6

LEMMA NoEffect ==
    ASSUME Inv, NEW j, UNCHANGED <<row, dbControl>>
    PROVE  RowEffect(j)
  BY DEF RowEffect

LEMMA ApplyTyped ==
    ASSUME Inv, NEW j \in Queued(queue), Apply(j)
    PROVE  /\ row' \in [ClaimId -> {"none", "ACTIVE", "COMPLETED", "FAILED"}] /\ contested' \subseteq Territory
           /\ dbControl' \in [Territory -> Control]
  <1>1. /\ j.id \in ClaimId /\ TerrOf(j.id) \in Territory /\ PlayerOf(j.id) \in Player
        /\ j.kind \in {"start", "end", "capture"}
    BY JobFacts
  <1>2. /\ row \in [ClaimId -> {"none", "ACTIVE", "COMPLETED", "FAILED"}] /\ dbControl \in [Territory -> Control]
        /\ contested \subseteq Territory
    BY DEF Inv, TypeInv
  <1>3. [owner |-> PlayerOf(j.id), version |-> dbControl[TerrOf(j.id)].version + 1] \in Control
    BY <1>1, <1>2 DEF Control
  <1> QED
    BY <1>1, <1>2, <1>3 DEF Apply, StartRow, EndRow, CaptureRow, db

\* The parts about RAM and the database alone.
LEMMA ApplyStep ==
    ASSUME Inv, NEW j \in Queued(queue), Apply(j), Foundations' = Foundations,
           UNCHANGED <<asked, warriors, conquest, world, news>>
    PROVE  /\ row' \in [ClaimId -> {"none", "ACTIVE", "COMPLETED", "FAILED"}] /\ contested' \subseteq Territory
           /\ dbControl' \in [Territory -> Control] /\ dbPresent' = dbPresent
           /\ OneActive' /\ FoundedStays' /\ ControlInv' /\ LimitsAgree' /\ ConfirmedHasRow' /\ ContestedIsActive'
  <1> USE DEF world, conquest, warriors
  <1>0. PICK n, t : n = j.id /\ t = TerrOf(n)
    OBVIOUS
  <1>1. /\ Asked(n) /\ n \in ClaimId /\ t \in Territory /\ PlayerOf(n) \in Player
        /\ j.kind \in {"start", "end", "capture"} /\ j.from \in Control
        /\ j.kind = "start" => /\ claims[t].id = n /\ claims[t].pending /\ ~claims[t].capturing
                               /\ row[n] \in {"none", "ACTIVE"}
        /\ j.kind = "end" => claims[t].id # n
        /\ j.kind = "capture" => claims[t].id = n /\ claims[t].capturing /\ ~claims[t].pending /\ claims[t].from = j.from
    BY <1>0, JobFacts
  <1>2. /\ row \in [ClaimId -> {"none", "ACTIVE", "COMPLETED", "FAILED"}] /\ dbControl \in [Territory -> Control]
        /\ contested \subseteq Territory
    BY DEF Inv, TypeInv
  <1>3. \A s \in Territory : claims[s].id # 0 => TerrOf(claims[s].id) = s /\ claims[s].id \in ClaimId
    BY AskedFacts DEF Inv, ClaimShape
  <1>4. \A s \in Territory : NewsOf(s)' = NewsOf(s)
    BY DEF NewsOf, Foundations
  <1>5. CASE ~Writes(j)
    <2>1. UNCHANGED db
      BY <1>5 DEF Apply
    <2> USE DEF db
    <2>2. OneActive' /\ LimitsAgree' /\ ConfirmedHasRow' /\ ContestedIsActive'
      BY <2>1, ActiveFrame, LimitsFrame, ConfirmedFrame, ContestedFrame DEF Inv
    <2>3. FoundedStays' /\ ControlInv'
      BY <2>1, FoundedFrame, ControlFrame DEF Inv
    <2> QED
      BY <1>2, <2>1, <2>2, <2>3
  <1>6. CASE Writes(j) /\ j.kind = "start"
    <2>1. /\ row' = [row EXCEPT ![n] = "ACTIVE"] /\ contested' = contested \cup {t} /\ UNCHANGED <<dbControl, dbLimit, dbPresent>>
          /\ row[n] = "none" /\ ~Clashes(n)
      BY <1>0, <1>6 DEF Apply, StartRow, Writes
    <2>2. Active(n)' /\ \A o \in ClaimId \ {n} : row'[o] = row[o] /\ Active(o)' = Active(o) /\ (Active(o) => TerrOf(o) # t)
      BY <1>0, <1>1, <1>2, <2>1 DEF Active, Clashes
    <2>3. row' \in [ClaimId -> {"none", "ACTIVE", "COMPLETED", "FAILED"}] /\ contested' \subseteq Territory
      BY <1>1, <1>2, <2>1
    <2>4. OneActive'
      BY <1>0, <2>2 DEF Inv, OneActive, TerrOf
    <2>5. LimitsAgree' /\ FoundedStays'
      BY <2>1, LimitsFrame, FoundedFrame DEF Inv
    <2>6. \A s \in Territory : claims[s].capturing => claims[s].id \in ClaimId \ {n}
      <3>1. \A s \in Territory : claims[s].capturing => claims[s].id # 0
        BY DEF Inv, ClaimShape, NoClaim
      <3> QED
        BY <1>0, <1>1, <1>3, <1>6, <3>1
    <2>7. ControlInv'
      <3>1. \A s \in Territory : Completed(s)' = Completed(s)
        BY <2>2, <2>6 DEF Completed
      <3> QED
        BY <1>4, <2>1, <3>1 DEF Inv, ControlInv, PlayerOf
    <2>8. ConfirmedHasRow'
      BY <1>1, <1>3, <2>1, <2>2 DEF Inv, ConfirmedHasRow, Active
    <2>9. ContestedIsActive'
      <3> SUFFICES ASSUME NEW s \in Territory PROVE s \in contested' <=> \E o \in ClaimId : Active(o)' /\ TerrOf(o) = s
        BY DEF ContestedIsActive, ActiveOn, TerrOf
      <3>1. s \in contested <=> \E o \in ClaimId : Active(o) /\ TerrOf(o) = s
        BY DEF Inv, ContestedIsActive, ActiveOn
      <3>2. ~Active(n)
        BY <2>1 DEF Active
      <3> QED
        BY <1>0, <1>1, <2>1, <2>2, <3>1, <3>2
    <2> QED
      BY <1>2, <2>1, <2>3, <2>4, <2>5, <2>7, <2>8, <2>9
  <1>7. CASE Writes(j) /\ j.kind = "end"
    <2>1. /\ row' = [row EXCEPT ![n] = "FAILED"] /\ contested' = contested \ {t} /\ UNCHANGED <<dbControl, dbLimit, dbPresent>>
          /\ Active(n)
      BY <1>0, <1>7 DEF Apply, EndRow, Writes
    <2>2. ~Active(n)' /\ \A o \in ClaimId \ {n} : row'[o] = row[o] /\ Active(o)' = Active(o)
      BY <1>1, <1>2, <2>1 DEF Active
    <2>3. row' \in [ClaimId -> {"none", "ACTIVE", "COMPLETED", "FAILED"}] /\ contested' \subseteq Territory
      BY <1>1, <1>2, <2>1
    <2>4. OneActive'
      BY <2>2 DEF Inv, OneActive, TerrOf
    <2>5. LimitsAgree' /\ FoundedStays'
      BY <2>1, LimitsFrame, FoundedFrame DEF Inv
    <2>6. \A s \in Territory : claims[s].id # n
      BY <1>0, <1>1, <1>3, <1>7 DEF ClaimId
    <2>7. ControlInv'
      <3>1. \A s \in Territory : claims[s].capturing => claims[s].id \in ClaimId \ {n}
        BY <1>3, <2>6 DEF Inv, ClaimShape, NoClaim
      <3>2. \A s \in Territory : Completed(s)' = Completed(s)
        BY <2>2, <3>1 DEF Completed
      <3> QED
        BY <1>4, <2>1, <3>2 DEF Inv, ControlInv, PlayerOf
    <2>8. ConfirmedHasRow'
      BY <1>3, <2>2, <2>6 DEF Inv, ConfirmedHasRow, Active
    <2>9. ContestedIsActive'
      <3> SUFFICES ASSUME NEW s \in Territory PROVE s \in contested' <=> \E o \in ClaimId : Active(o)' /\ TerrOf(o) = s
        BY DEF ContestedIsActive, ActiveOn, TerrOf
      <3>1. s \in contested <=> \E o \in ClaimId : Active(o) /\ TerrOf(o) = s
        BY DEF Inv, ContestedIsActive, ActiveOn
      <3>2. \A o \in ClaimId \ {n} : Active(o) => TerrOf(o) # t
        BY <1>0, <1>1, <2>1 DEF Inv, OneActive
      <3> QED
        BY <1>0, <1>1, <2>1, <2>2, <3>1, <3>2
    <2> QED
      BY <1>2, <2>1, <2>3, <2>4, <2>5, <2>7, <2>8, <2>9
  <1>8. CASE Writes(j) /\ j.kind = "capture"
    <2> DEFINE new == PlayerOf(n)
               old == j.from.owner
    <2>1. /\ row' = [row EXCEPT ![n] = "COMPLETED"] /\ contested' = contested \ {t} /\ dbPresent' = dbPresent
          /\ dbControl' = [dbControl EXCEPT ![t] = [owner |-> new, version |-> @.version + 1]]
          /\ dbLimit' = [p \in Player |-> dbLimit[p] + (IF p = new THEN Bonus(new, t) ELSE 0)
                                                     - (IF p = old THEN Bonus(old, t) ELSE 0)]
          /\ Active(n) /\ ~Capital(j) /\ Matches(j)
      BY <1>0, <1>8 DEF Apply, CaptureRow, Writes, Takes
    <2>2. ~Active(n)' /\ row'[n] = "COMPLETED" /\ \A o \in ClaimId \ {n} : row'[o] = row[o] /\ Active(o)' = Active(o)
      BY <1>1, <1>2, <2>1 DEF Active
    <2>3. row' \in [ClaimId -> {"none", "ACTIVE", "COMPLETED", "FAILED"}] /\ contested' \subseteq Territory
      BY <1>1, <1>2, <2>1
    <2>4. dbControl[t] = j.from /\ dbControl[t].version \in Nat
      BY <1>0, <1>1, <2>1 DEF Matches, Control
    <2>5. /\ dbControl'[t].owner = new /\ dbControl' \in [Territory -> Control]
          /\ dbControl[t].version < dbControl'[t].version
          /\ \A s \in Territory \ {t} : dbControl'[s] = dbControl[s]
      <3>1. [owner |-> new, version |-> dbControl[t].version + 1] \in Control
        BY <1>0, <1>1, <2>4 DEF Control
      <3> QED
        BY <1>1, <1>2, <2>1, <2>4, <3>1
    <2>6. \A m \in Foundations : Home[m.player] \in Territory /\ Home[m.player] # t
      <3> SUFFICES ASSUME NEW m \in Foundations, Home[m.player] = t PROVE FALSE
        BY DEF Inv, FoundedStays
      <3>1. dbControl[t].owner = m.player /\ m.player \in dbPresent
        BY DEF Inv, FoundedStays
      <3>2. m.player # None
        BY <3>1, ConquestAssumption DEF Inv, TypeInv
      <3> QED
        BY <1>0, <2>1, <2>4, <3>1, <3>2 DEF Capital, IsCapital
    <2>7. ~NewsOf(t)
      BY <2>6 DEF NewsOf, Foundations
    <2>8. ~Completed(t) /\ control[t] = dbControl[t]
      <3>1. ~Completed(t)
        BY <1>1, <1>8, <2>1 DEF Completed, Active
      <3> QED
        BY <1>1, <2>7, <3>1 DEF Inv, ControlInv
    <2>9. OneActive'
      BY <2>2 DEF Inv, OneActive, TerrOf
    <2>10. FoundedStays'
      BY <2>1, <2>5, <2>6 DEF Inv, FoundedStays
    <2>11. \A s \in Territory \ {t} : claims[s].id # n /\ (claims[s].capturing => claims[s].id \in ClaimId)
      BY <1>0, <1>1, <1>3 DEF ClaimId, Inv, ClaimShape, NoClaim
    <2>12. ControlInv'
      <3>1. Completed(t)' /\ \A s \in Territory \ {t} : Completed(s)' = Completed(s)
        BY <1>1, <1>8, <2>2, <2>11 DEF Completed
      <3>2. ASSUME NEW s \in Territory \ {t}
            PROVE  /\ control'[s] = dbControl'[s] \/ NewsOf(s)' \/ Completed(s)'
                   /\ Completed(s)' => /\ dbControl'[s].owner = PlayerOf(claims[s].id) /\ control'[s] = claims[s].from
                                       /\ \A m \in Foundations' : Home[m.player] # s
                   /\ claims[s].capturing /\ ~Completed(s)' =>
                         claims[s].from = control'[s] \/ claims[s].from.version < dbControl'[s].version
        BY <1>4, <2>5, <3>1 DEF Inv, ControlInv
      <3>3. /\ dbControl'[t].owner = PlayerOf(claims[t].id) /\ control'[t] = claims[t].from
            /\ \A m \in Foundations' : Home[m.player] # t
        BY <1>1, <1>8, <2>4, <2>5, <2>6, <2>8
      <3> QED
        BY <3>1, <3>2, <3>3 DEF ControlInv, PlayerOf
    <2>13. LimitsAgree'
      <3> SUFFICES ASSUME NEW p \in Player PROVE dbLimit'[p] = Conquered(dbControl', p)
        BY DEF Inv, LimitsAgree
      <3>1. Conquered(dbControl, p) \in Nat
            /\ Conquered(dbControl', p) = Conquered(dbControl, p) + (IF dbControl'[t].owner = p THEN Bonus(p, t) ELSE 0)
                                                                  - (IF dbControl[t].owner = p THEN Bonus(p, t) ELSE 0)
        BY <1>1, <2>5, ConqueredUpdate
      <3>2. dbLimit'[p] = dbLimit[p] + (IF p = new THEN Bonus(p, t) ELSE 0) - (IF p = old THEN Bonus(p, t) ELSE 0)
        BY <2>1
      <3> QED
        BY <2>4, <2>5, <3>1, <3>2 DEF Inv, LimitsAgree
    <2>14. ConfirmedHasRow'
      BY <1>1, <1>3, <1>8, <2>2, <2>11 DEF Inv, ConfirmedHasRow, Active
    <2>15. ContestedIsActive'
      <3> SUFFICES ASSUME NEW s \in Territory PROVE s \in contested' <=> \E o \in ClaimId : Active(o)' /\ TerrOf(o) = s
        BY DEF ContestedIsActive, ActiveOn, TerrOf
      <3>1. s \in contested <=> \E o \in ClaimId : Active(o) /\ TerrOf(o) = s
        BY DEF Inv, ContestedIsActive, ActiveOn
      <3>2. \A o \in ClaimId \ {n} : Active(o) => TerrOf(o) # t
        BY <1>0, <1>1, <2>1 DEF Inv, OneActive
      <3> QED
        BY <1>0, <1>1, <2>1, <2>2, <3>1, <3>2
    <2> QED
      BY <2>1, <2>3, <2>5, <2>9, <2>10, <2>12, <2>13, <2>14, <2>15
  <1> QED
    BY <1>1, <1>5, <1>6, <1>7, <1>8

\* A commit that is not acknowledged: the job stays, and so does the mail.
LEMMA UnackedStep ==
    ASSUME Inv, NEW p \in Player, RunUnacked(p)
    PROVE  Inv'
  <1> DEFINE j == Head(queue[p])
  <1>0. PICK n, t : n = j.id /\ t = TerrOf(n)
    OBVIOUS
  <1>1. j \in Queued(queue) /\ Apply(j) /\ UNCHANGED <<step, asked, warriors, conquest, world, mail, phantom>>
    BY HeadQueued DEF RunUnacked, Inv
  <1> HIDE DEF j
  <1> USE DEF world, conquest, warriors, mail
  <1>2. Foundations' = Foundations /\ QueueShape' /\ Queued(queue)' = Queued(queue)
    BY <1>1, QueueFrame DEF Foundations, Inv
  <1>3. /\ row' \in [ClaimId -> {"none", "ACTIVE", "COMPLETED", "FAILED"}] /\ contested' \subseteq Territory
        /\ dbControl' \in [Territory -> Control] /\ dbPresent' = dbPresent
        /\ OneActive' /\ FoundedStays' /\ ControlInv' /\ LimitsAgree' /\ ConfirmedHasRow' /\ ContestedIsActive'
    BY <1>1, <1>2, ApplyStep
  <1>4. RowEffect(j)
    BY <1>1, ApplyEffect
  <1>5. /\ Asked(n) /\ n \in ClaimId /\ t \in Territory /\ j.kind \in {"start", "end", "capture"}
        /\ j.kind = "start" => claims[t].id = n /\ claims[t].pending /\ row[n] \in {"none", "ACTIVE"}
        /\ j.kind = "end" => claims[t].id # n
        /\ j.kind = "capture" => claims[t].id = n /\ ~claims[t].pending
        /\ \A m \in inbox : m.kind = "started" => m.id # n
        /\ \A m \in inbox : m.kind \in CaptureKinds =>
              /\ m.terr \in Territory /\ claims[m.terr].id # n /\ claims[m.terr].id \in ClaimId
              /\ j.kind = "capture" => m.terr # t
    BY <1>0, <1>1, JobFacts
  <1>6. /\ \A o \in ClaimId \ {n} : row'[o] = row[o]
        /\ \A s \in Territory : dbControl'[s] = dbControl[s] \/ (j.kind = "capture" /\ s = t)
        /\ j.kind = "start" => row'[n] \in {row[n], "ACTIVE"}
        /\ j.kind = "end" => row'[n] \in {row[n], "FAILED"}
        /\ j.kind = "capture" => row'[n] \in {row[n], "COMPLETED"}
    BY <1>0, <1>4 DEF RowEffect
  <1>7. TypeInv'
    BY <1>1, <1>3 DEF Inv, TypeInv
  <1>8. JobsAsked' /\ PlantedHasClaim' /\ EndedIsGone' /\ AnswerAwaited'
    BY <1>1, <1>2, JobsFrame, PlantedFrame, EndedFrame, AwaitedFrame DEF Inv
  <1>9. ClaimShape'
    BY <1>1, <1>5, <1>6 DEF Inv, ClaimShape, Asked, TerrOf
  <1>10. StartsAlone'
    <2>1. \A o : /\ StartQueued(o)' = StartQueued(o) /\ Waits(o)' = Waits(o) /\ Asked(o)' = Asked(o)
      BY <1>1, <1>2 DEF StartQueued, Waits, Asked, TerrOf
    <2>2. \A m \in inbox : m.kind = "started" => m.id \in ClaimId \ {n}
      BY <1>5, MessageIs DEF Inv, TypeInv
    <2>3. \A s \in Territory : claims[s].pending => row'[claims[s].id] \in {"none", "ACTIVE"}
      <3> SUFFICES ASSUME NEW s \in Territory, claims[s].pending PROVE row'[claims[s].id] \in {"none", "ACTIVE"}
        OBVIOUS
      <3>1. claims[s].id \in ClaimId /\ TerrOf(claims[s].id) = s
        BY AskedFacts DEF Inv, ClaimShape, NoClaim
      <3>2. row[claims[s].id] \in {"none", "ACTIVE"}
        BY DEF Inv, StartsAlone
      <3> QED
        BY <1>0, <1>5, <1>6, <3>1, <3>2
    <2> QED
      BY <1>1, <1>6, <2>1, <2>2, <2>3 DEF Inv, StartsAlone, Active
  <1>11. CapturesAlone'
    <2>1. \A s : Answered(s)' = Answered(s) /\ TerrOf(s)' = TerrOf(s)
      BY <1>1 DEF Answered, TerrOf
    <2>2. \A m \in inbox : m.kind \in CaptureKinds => row'[claims[m.terr].id] = row[claims[m.terr].id] /\ dbControl'[m.terr] = dbControl[m.terr]
      BY <1>5, <1>6
    <2> QED
      BY <1>1, <1>2, <2>1, <2>2 DEF Inv, CapturesAlone
  <1>12. RowTracked'
    <2>1. \A o \in ClaimId : Ending(o)' = Ending(o) /\ TerrOf(o)' = TerrOf(o)
      BY <1>1, <1>2 DEF Ending, EndJob, Job, PlayerOf, TerrOf
    <2>2. \A o \in ClaimId : Active(o)' => Active(o) \/ claims[TerrOf(o)].id = o
      BY <1>0, <1>5, <1>6 DEF Active
    <2> QED
      BY <1>1, <2>1, <2>2 DEF Inv, RowTracked
  <1> QED
    BY <1>2, <1>3, <1>7, <1>8, <1>9, <1>10, <1>11, <1>12 DEF Inv

\* The job is done, written or not, and its answer is delivered or lost.
Answer(j, a) ==
    LET n == j.id
        t == TerrOf(n) IN
    /\ a \in Message
    /\ j.kind = "start" => /\ a.kind = "started" /\ a.id = n
                           /\ IF a.ok THEN row'[n] = "ACTIVE" ELSE row'[n] = "none" \/ n \in phantom'
    /\ j.kind = "end" => a.kind = "endFailed" /\ a.id = n
    /\ j.kind = "capture" => /\ a.kind \in CaptureKinds /\ a.terr = t
                             /\ a.kind = "captured" => row'[n] = "COMPLETED" /\ a.control = dbControl'[t]
                             /\ a.kind = "conflict" => row'[n] # "COMPLETED"
Told(j) ==
    \/ j.kind = "end" /\ row'[j.id] # "ACTIVE" /\ UNCHANGED <<inbox, lost>>
    \/ \E a : /\ Answer(j, a)
              /\ \/ inbox' = inbox \cup {a} /\ lost' = lost
                 \/ inbox' = inbox /\ lost' = lost \cup {a}

LEMMA AnsweredStep ==
    ASSUME Inv, NEW p \in Player, Runnable(queue, p), NEW j, j = Head(queue[p]), queue' = Dequeued(queue, j),
           RowEffect(j), Told(j), phantom \subseteq phantom', phantom' \subseteq phantom \cup {j.id},
           phantom' = phantom \/ j.kind = "start",
           UNCHANGED <<step, asked, warriors, conquest, world, news>>,
           row' \in [ClaimId -> {"none", "ACTIVE", "COMPLETED", "FAILED"}], contested' \subseteq Territory,
           dbControl' \in [Territory -> Control], dbPresent' = dbPresent,
           Foundations' = Foundations =>
              OneActive' /\ FoundedStays' /\ ControlInv' /\ LimitsAgree' /\ ConfirmedHasRow' /\ ContestedIsActive'
    PROVE  Inv'
  <1> USE DEF world, conquest, warriors
  <1>0. PICK n, t : n = j.id /\ t = TerrOf(n)
    OBVIOUS
  <1>1. /\ QueueShape' /\ j \in Queued(queue) /\ \A x \in Queued(queue') : x \in Queued(queue)
        /\ \A x \in Queued(queue) : x = j \/ x \in Queued(queue')
        /\ j.kind # "end" => j \notin Queued(queue')
    BY JobDequeued, HeadQueued DEF Inv
  <1>2. /\ Asked(n) /\ n \in ClaimId /\ t \in Territory /\ j.kind \in {"start", "end", "capture"} /\ j = Job(j.kind, n, j.from)
        /\ j.kind # "capture" => j.from = NoControl
        /\ j.kind = "start" => StartQueued(n) /\ claims[t].id = n /\ claims[t].pending /\ ~claims[t].capturing /\ row[n] \in {"none", "ACTIVE"}
        /\ j.kind = "end" => Ends(n) /\ claims[t].id # n
        /\ j.kind = "capture" => /\ claims[t].id = n /\ claims[t].capturing /\ ~claims[t].pending /\ claims[t].from = j.from
                                 /\ t \notin pendingCaptures /\ ~Answered(t)
        /\ \A m \in inbox : m.kind = "started" => m.id # n
        /\ \A m \in inbox : m.kind \in CaptureKinds =>
              /\ m.terr \in Territory /\ claims[m.terr].id # n /\ claims[m.terr].id \in ClaimId
              /\ j.kind = "capture" => m.terr # t
    BY <1>0, <1>1, JobFacts
  <1>3. /\ \A o \in ClaimId \ {n} : row'[o] = row[o]
        /\ \A s \in Territory : dbControl'[s] = dbControl[s] \/ (j.kind = "capture" /\ s = t)
        /\ j.kind = "start" => row'[n] \in {row[n], "ACTIVE"}
        /\ j.kind = "end" => row'[n] \in {row[n], "FAILED"}
        /\ j.kind = "capture" => row'[n] \in {row[n], "COMPLETED"}
    BY <1>0 DEF RowEffect
  <1>4. PICK a : /\ \/ j.kind = "end" /\ row'[n] # "ACTIVE"
                    \/ a \in inbox' \cup lost' /\ Answer(j, a)
                 /\ \A m \in inbox' : m \in inbox \/ (m = a /\ Answer(j, a))
                 /\ inbox \subseteq inbox' /\ lost \subseteq lost'
                 /\ inbox' \subseteq Message /\ lost' \subseteq Message \cup Introduction
                 /\ lost' = lost \/ \E m \in Message : lost' = lost \cup {m}
    <2>1. inbox \subseteq Message /\ lost \subseteq Message \cup Introduction
      BY DEF Inv, TypeInv
    <2>2. CASE j.kind = "end" /\ row'[j.id] # "ACTIVE" /\ UNCHANGED <<inbox, lost>>
      BY <1>0, <2>1, <2>2
    <2>3. CASE \E a : Answer(j, a) /\ ((inbox' = inbox \cup {a} /\ lost' = lost) \/ (inbox' = inbox /\ lost' = lost \cup {a}))
      <3>1. PICK a : Answer(j, a) /\ ((inbox' = inbox \cup {a} /\ lost' = lost) \/ (inbox' = inbox /\ lost' = lost \cup {a}))
        BY <2>3
      <3>2. a \in Message
        BY <3>1 DEF Answer
      <3>3. /\ a \in inbox' \cup lost' /\ Answer(j, a)
            /\ \A m \in inbox' : m \in inbox \/ (m = a /\ Answer(j, a))
            /\ inbox \subseteq inbox' /\ lost \subseteq lost'
            /\ inbox' \subseteq Message /\ lost' \subseteq Message \cup Introduction
        BY <2>1, <3>1, <3>2
      <3>4. lost' = lost \/ \E m \in Message : lost' = lost \cup {m}
        BY <3>1, <3>2
      <3> QED
        BY <3>3, <3>4
    <2>4. \/ j.kind = "end" /\ row'[j.id] # "ACTIVE" /\ UNCHANGED <<inbox, lost>>
          \/ \E a : Answer(j, a) /\ ((inbox' = inbox \cup {a} /\ lost' = lost) \/ (inbox' = inbox /\ lost' = lost \cup {a}))
      BY DEF Told
    <2> QED
      BY <2>2, <2>3, <2>4
  <1>5. Answer(j, a) =>
          /\ a \in Message
          /\ j.kind = "start" => /\ a.kind = "started" /\ a.id = n /\ a.kind \notin CaptureKinds
                                 /\ IF a.ok THEN row'[n] = "ACTIVE" ELSE row'[n] = "none" \/ n \in phantom'
          /\ j.kind = "end" => a.kind = "endFailed" /\ a.id = n /\ a.kind \notin CaptureKinds
          /\ j.kind = "capture" => /\ a.kind \in CaptureKinds /\ a.terr = t /\ a.kind # "started" /\ a.kind # "endFailed"
                                   /\ a.kind = "captured" => row'[n] = "COMPLETED" /\ a.control = dbControl'[t]
                                   /\ a.kind = "conflict" => row'[n] # "COMPLETED"
    BY <1>0 DEF Answer, CaptureKinds
  <1>6. Foundations' = Foundations
    BY <1>4, FoundationsFrame
  <1>7. TypeInv'
    BY <1>0, <1>2, <1>4 DEF Inv, TypeInv
  <1>8. PlantedHasClaim'
    BY PlantedFrame DEF Inv
  <1>9. \A k, o, g : /\ Job(k, o, g)' = Job(k, o, g) /\ EndJob(o)' = EndJob(o) /\ StartJob(o)' = StartJob(o)
                     /\ CaptureJob(o, g)' = CaptureJob(o, g) /\ TerrOf(o)' = TerrOf(o) /\ Asked(o)' = Asked(o)
    BY DEF Job, PlayerOf, EndJob, StartJob, CaptureJob, TerrOf, Asked
  <1>10. JobsAsked'
    BY <1>1, <1>9 DEF Inv, JobsAsked
  <1>11. ClaimShape'
    BY <1>2, <1>3, <1>9 DEF Inv, ClaimShape
  <1>12. StartsAlone'
    <2>1. \A o : StartQueued(o)' => StartQueued(o) /\ (j.kind = "start" => o # n)
      <3> SUFFICES ASSUME NEW o, NEW x \in Queued(queue)', x.kind = "start", x.id = o
                   PROVE  StartQueued(o) /\ (j.kind = "start" => o # n)
        BY DEF StartQueued
      <3>1. x \in Queued(queue) /\ x = Job("start", o, NoControl)
        BY <1>1 DEF Inv, JobsAsked
      <3>2. j.kind = "start" /\ o = n => x = j
        BY <1>2, <3>1
      <3> QED
        BY <1>1, <3>1, <3>2 DEF StartQueued
    <2>2. \A o : Waits(o)' = Waits(o)
      BY <1>9 DEF Waits
    <2>3. ASSUME NEW m \in inbox', m.kind = "started"
          PROVE  /\ Asked(m.id)' /\ Waits(m.id)' /\ ~StartQueued(m.id)'
                 /\ IF m.ok THEN Active(m.id)' ELSE row'[m.id] = "none" \/ m.id \in phantom'
                 /\ \A o \in inbox' : o.kind = "started" /\ o.id = m.id => o = m
      <3>1. CASE m \in inbox
        <4>1. Asked(m.id) /\ Waits(m.id) /\ ~StartQueued(m.id) /\ m.id # n /\ m.id \in ClaimId
          BY <1>2, <2>3, <3>1, AskedFacts DEF Inv, StartsAlone
        <4>2. IF m.ok THEN Active(m.id)' ELSE row'[m.id] = "none" \/ m.id \in phantom'
          BY <1>3, <2>3, <3>1, <4>1 DEF Inv, StartsAlone, Active
        <4>3. \A o \in inbox' : o.kind = "started" /\ o.id = m.id => o = m
          BY <1>2, <1>4, <1>5, <2>3, <3>1, <4>1 DEF Inv, StartsAlone
        <4> QED
          BY <1>9, <2>1, <2>2, <4>1, <4>2, <4>3
      <3>2. CASE m \notin inbox
        <4>1. m = a /\ Answer(j, a) /\ j.kind = "start" /\ m.id = n
          BY <1>2, <1>4, <1>5, <2>3, <3>2
        <4>2. Asked(n)' /\ Waits(n)' /\ ~StartQueued(n)'
          BY <1>0, <1>2, <1>9, <2>1, <2>2, <4>1 DEF Waits
        <4> QED
          BY <1>2, <1>4, <1>5, <4>1, <4>2 DEF Active
      <3> QED
        BY <3>1, <3>2
    <2>4. \A s \in Territory : claims'[s].pending => row'[claims'[s].id] \in {"none", "ACTIVE"}
      <3> SUFFICES ASSUME NEW s \in Territory, claims[s].pending PROVE row'[claims[s].id] \in {"none", "ACTIVE"}
        OBVIOUS
      <3>1. claims[s].id \in ClaimId /\ TerrOf(claims[s].id) = s
        BY AskedFacts DEF Inv, ClaimShape, NoClaim
      <3>2. row[claims[s].id] \in {"none", "ACTIVE"}
        BY DEF Inv, StartsAlone
      <3> QED
        BY <1>0, <1>2, <1>3, <3>1, <3>2
    <2> QED
      BY <2>1, <2>2, <2>3, <2>4 DEF Inv, StartsAlone
  <1>13. EndedIsGone'
    <2>1. \A o \in ClaimId : Ends(o)' => Ends(o)
      BY <1>1, <1>2, <1>4, <1>5 DEF Ends
    <2> QED
      BY <1>9, <2>1 DEF Inv, EndedIsGone
  <1>14. CapturesAlone'
    <2>1. \A s : Answered(s)' => Answered(s) \/ (s = t /\ j.kind = "capture")
      BY <1>2, <1>4, <1>5 DEF Answered
    <2>2. \A x \in Queued(queue)' : x.kind = "capture" => x \in Queued(queue) /\ (j.kind = "capture" => TerrOf(x.id) # t)
      <3> SUFFICES ASSUME NEW x \in Queued(queue)', x.kind = "capture", j.kind = "capture", TerrOf(x.id) = t PROVE FALSE
        BY <1>1
      <3>1. x \in Queued(queue) /\ x = Job("capture", x.id, x.from)
        BY <1>1 DEF Inv, JobsAsked
      <3>2. x.id = n /\ x.from = j.from
        BY <1>2, <3>1 DEF Inv, CapturesAlone
      <3>3. x = j
        BY <1>2, <3>1, <3>2
      <3> QED
        BY <1>1, <3>3
    <2>3. \A x \in Queued(queue)' : x.kind = "capture" => \A s : s = TerrOf(x.id) =>
             /\ claims'[s].id = x.id /\ claims'[s].capturing /\ claims'[s].from = x.from
             /\ s \notin pendingCaptures' /\ ~Answered(s)'
      BY <2>1, <2>2 DEF Inv, CapturesAlone
    <2>4. \A s \in pendingCaptures' : claims'[s].capturing /\ ~Answered(s)'
      BY <1>2, <2>1 DEF Inv, CapturesAlone
    <2>5. ASSUME NEW m \in inbox', m.kind \in CaptureKinds
          PROVE  /\ claims'[m.terr].capturing
                 /\ m.kind = "captured" => row'[claims'[m.terr].id] = "COMPLETED" /\ m.control = dbControl'[m.terr]
                 /\ m.kind = "conflict" => row'[claims'[m.terr].id] # "COMPLETED"
                 /\ \A o \in inbox' : o.kind \in CaptureKinds /\ o.terr = m.terr => o = m
      <3>1. CASE m \in inbox
        <4>1. /\ m.terr \in Territory /\ row'[claims[m.terr].id] = row[claims[m.terr].id]
              /\ dbControl'[m.terr] = dbControl[m.terr] /\ (j.kind = "capture" => m.terr # t)
          BY <1>2, <1>3, <2>5, <3>1
        <4>2. \A o \in inbox' : o.kind \in CaptureKinds /\ o.terr = m.terr => o \in inbox
          BY <1>2, <1>4, <1>5, <4>1
        <4> QED
          BY <2>5, <3>1, <4>1, <4>2 DEF Inv, CapturesAlone
      <3>2. CASE m \notin inbox
        <4>1. m = a /\ Answer(j, a) /\ j.kind = "capture" /\ m.terr = t
          BY <1>2, <1>4, <1>5, <2>5, <3>2
        <4>2. \A o \in inbox' : o.kind \in CaptureKinds /\ o.terr = t => o = a
          BY <1>2, <1>4, <4>1
        <4> QED
          BY <1>2, <1>5, <4>1, <4>2
      <3> QED
        BY <3>1, <3>2
    <2> QED
      BY <1>9, <2>3, <2>4, <2>5 DEF CapturesAlone
  <1>15. RowTracked'
    <2> SUFFICES ASSUME NEW o \in ClaimId, row'[o] = "ACTIVE", claims[TerrOf(o)].id # o, o \notin phantom'
                 PROVE  Ending(o)'
      BY <1>9 DEF RowTracked, Active
    <2>1. CASE o = n
      <3>1. j.kind = "end"
        BY <1>0, <1>2, <2>1
      <3>2. a \in inbox' \cup lost' /\ a \in Message /\ a.kind = "endFailed" /\ a.id = n
        BY <1>4, <1>5, <2>1, <3>1
      <3>3. a = [kind |-> "endFailed", id |-> n]
        BY <3>2, MessageIs
      <3> QED
        BY <2>1, <3>2, <3>3 DEF Ending
    <2>2. CASE o # n
      <3>1. Ending(o)
        BY <1>3, <2>2 DEF Inv, RowTracked, Active
      <3>2. EndJob(o) # j
        BY <1>0, <2>2 DEF EndJob, Job
      <3> QED
        BY <1>1, <1>4, <1>9, <3>1, <3>2 DEF Ending
    <2> QED
      BY <2>1, <2>2
  <1>16. AnswerAwaited'
    <2> SUFFICES ASSUME NEW s \in Territory
                 PROVE  LET c == claims[s] IN
                        /\ c # NoClaim /\ c.pending => StartJob(c.id) \in Queued(queue)' \/ About(s, c)' # {}
                        /\ c.capturing => \/ CaptureJob(c.id, c.from) \in Queued(queue)' \/ s \in pendingCaptures'
                                          \/ About(s, c)' # {}
      BY <1>9 DEF AnswerAwaited
    <2> DEFINE c == claims[s]
    <2>1. About(s, c) \subseteq About(s, c)'
      BY <1>4 DEF About
    <2>2. c # NoClaim /\ c.pending => StartJob(c.id) \in Queued(queue) \/ About(s, c) # {}
      BY DEF Inv, AnswerAwaited
    <2>3. c.capturing => CaptureJob(c.id, c.from) \in Queued(queue) \/ s \in pendingCaptures \/ About(s, c) # {}
      BY DEF Inv, AnswerAwaited
    <2>4. StartJob(c.id) = j => About(s, c)' # {}
      <3> SUFFICES ASSUME StartJob(c.id) = j PROVE a \in About(s, c)'
        OBVIOUS
      <3>1. j.kind = "start" /\ j.id = c.id
        BY DEF StartJob, Job
      <3> QED
        BY <1>0, <1>4, <1>5, <3>1 DEF About
    <2>5. c.capturing /\ CaptureJob(c.id, c.from) = j => About(s, c)' # {}
      <3> SUFFICES ASSUME c.capturing, CaptureJob(c.id, c.from) = j PROVE a \in About(s, c)'
        OBVIOUS
      <3>1. j.kind = "capture" /\ j.id = c.id
        BY DEF CaptureJob, Job
      <3>2. s = t
        BY <1>0, <3>1, CaptureFacts
      <3> QED
        BY <1>4, <1>5, <3>1, <3>2 DEF About, CaptureKinds
    <2> QED
      BY <1>1, <2>1, <2>2, <2>3, <2>4, <2>5
  <1> QED
    BY <1>1, <1>6, <1>7, <1>8, <1>10, <1>11, <1>12, <1>13, <1>14, <1>15, <1>16 DEF Inv

LEMMA RunStep ==
    ASSUME Inv, NEW p \in Player, Run(p)
    PROVE  Inv'
  <1>0. PICK j, n, t : j = Head(queue[p]) /\ n = j.id /\ t = TerrOf(n)
    OBVIOUS
  <1>1. /\ Runnable(queue, p) /\ Apply(j) /\ queue' = Dequeued(queue, j) /\ Post({}, AnswerOf(j))
        /\ UNCHANGED <<step, asked, warriors, conquest, world, news, phantom>>
    BY <1>0 DEF Run
  <1>2. j \in Queued(queue)
    BY <1>0, <1>1, HeadQueued DEF Inv
  <1>3. n \in ClaimId /\ t \in Territory /\ j.kind \in {"start", "end", "capture"}
    BY <1>0, <1>2, JobFacts
  <1>4. /\ RowEffect(j) /\ dbPresent' = dbPresent
        /\ j.kind = "start" => IF Accepts(j) THEN row'[n] = "ACTIVE" ELSE row'[n] = "none"
        /\ j.kind = "end" => row'[n] # "ACTIVE"
        /\ j.kind = "capture" => (Accepts(j) <=> row'[n] = "COMPLETED")
    BY <1>0, <1>1, <1>2, ApplyEffect
  <1>5. /\ row' \in [ClaimId -> {"none", "ACTIVE", "COMPLETED", "FAILED"}] /\ contested' \subseteq Territory
        /\ dbControl' \in [Territory -> Control]
        /\ Foundations' = Foundations =>
             OneActive' /\ FoundedStays' /\ ControlInv' /\ LimitsAgree' /\ ConfirmedHasRow' /\ ContestedIsActive'
    <2>1. ASSUME Foundations' = Foundations
          PROVE  OneActive' /\ FoundedStays' /\ ControlInv' /\ LimitsAgree' /\ ConfirmedHasRow' /\ ContestedIsActive'
      BY <1>1, <1>2, <2>1, ApplyStep
    <2>2. /\ row' \in [ClaimId -> {"none", "ACTIVE", "COMPLETED", "FAILED"}] /\ contested' \subseteq Territory
          /\ dbControl' \in [Territory -> Control]
      BY <1>1, <1>2, ApplyTyped
    <2> QED
      BY <2>1, <2>2
  <1>6. PICK kept \in SUBSET AnswerOf(j) : inbox' = inbox \cup kept /\ lost' = lost \cup (AnswerOf(j) \ kept)
    <2>1. inbox \ {} = inbox
      OBVIOUS
    <2> QED
      BY <1>1, <2>1, Posted
  <1>7. Told(j)
    <2>1. CASE j.kind = "end"
      <3>1. AnswerOf(j) = {}
        BY <2>1 DEF AnswerOf
      <3>2. UNCHANGED <<inbox, lost>>
        BY <1>6, <3>1
      <3> QED
        BY <1>0, <1>4, <2>1, <3>2 DEF Told
    <2>2. ASSUME NEW a, AnswerOf(j) = {a}, Answer(j, a) PROVE Told(j)
      <3>1. kept = {} \/ kept = {a}
        BY <2>2
      <3>2. (inbox' = inbox \cup {a} /\ lost' = lost) \/ (inbox' = inbox /\ lost' = lost \cup {a})
        BY <1>6, <2>2, <3>1
      <3> QED
        BY <2>2, <3>2 DEF Told
    <2>3. CASE j.kind = "start"
      <3>1. PICK ok \in BOOLEAN : ok = Accepts(j)
        BY <2>3 DEF Accepts
      <3> DEFINE a == [kind |-> "started", id |-> n, ok |-> ok]
      <3>2. AnswerOf(j) = {a}
        BY <1>0, <2>3, <3>1 DEF AnswerOf
      <3>3. a \in Message
        BY <1>3 DEF Message
      <3>4. Answer(j, a)
        BY <1>0, <1>4, <2>3, <3>1, <3>3 DEF Answer
      <3> HIDE DEF a
      <3> QED
        BY <2>2, <3>2, <3>4
    <2>4. CASE j.kind = "capture" /\ Accepts(j)
      <3>0. PICK c : c = dbControl'[t]
        OBVIOUS
      <3> DEFINE a == [kind |-> "captured", terr |-> t, control |-> c]
      <3>1. AnswerOf(j) = {a}
        BY <1>0, <2>4, <3>0, <1>1 DEF AnswerOf, TerrOf
      <3>2. a \in Message
        <4>1. c \in Control
          BY <1>3, <1>5, <3>0
        <4> QED
          BY <1>3, <4>1 DEF Message
      <3>3. a.kind = "captured" /\ a.kind \in CaptureKinds /\ a.terr = t /\ a.control = dbControl'[t]
        BY <3>0 DEF CaptureKinds
      <3> HIDE DEF a
      <3>4. Answer(j, a)
        BY <1>0, <1>4, <2>4, <3>2, <3>3 DEF Answer
      <3> QED
        BY <2>2, <3>1, <3>4
    <2>5. CASE j.kind = "capture" /\ ~Accepts(j)
      <3> DEFINE a == [kind |-> "conflict", terr |-> t]
      <3>1. AnswerOf(j) = {a}
        BY <1>0, <2>5 DEF AnswerOf
      <3>2. a \in Message
        BY <1>3 DEF Message
      <3>3. a.kind = "conflict" /\ a.kind \in CaptureKinds /\ a.terr = t
        BY DEF CaptureKinds
      <3> HIDE DEF a
      <3>4. Answer(j, a)
        BY <1>0, <1>4, <2>5, <3>2, <3>3 DEF Answer
      <3> QED
        BY <2>2, <3>1, <3>4
    <2> QED
      BY <1>3, <2>1, <2>3, <2>4, <2>5
  <1> QED
    BY <1>0, <1>1, <1>4, <1>5, <1>7, AnsweredStep

LEMMA GiveUpStep ==
    ASSUME Inv, NEW p \in Player, GiveUp(p)
    PROVE  Inv'
  <1>0. PICK j, n, t : j = Head(queue[p]) /\ n = j.id /\ t = TerrOf(n)
    OBVIOUS
  <1> DEFINE f == FailureOf(j)
  <1>1. /\ Runnable(queue, p) /\ queue' = Dequeued(queue, j) /\ Post({}, {f})
        /\ phantom' = phantom \cup (IF j.kind = "start" /\ row[n] # "none" THEN {n} ELSE {})
        /\ UNCHANGED <<step, asked, warriors, conquest, world, db, news>>
    BY <1>0 DEF GiveUp
  <1>2. j \in Queued(queue) /\ j \in Jobs
    BY <1>0, <1>1, HeadQueued DEF Inv
  <1>3. n \in ClaimId /\ t \in Territory /\ Asked(n) /\ j.kind \in {"start", "end", "capture"}
    BY <1>0, <1>2, JobFacts
  <1> USE DEF db
  <1>4. RowEffect(j) /\ dbPresent' = dbPresent
    BY <1>1, NoEffect
  <1>5. /\ row' \in [ClaimId -> {"none", "ACTIVE", "COMPLETED", "FAILED"}] /\ contested' \subseteq Territory
        /\ dbControl' \in [Territory -> Control]
    BY <1>1 DEF Inv, TypeInv
  <1>6. Foundations' = Foundations =>
          OneActive' /\ FoundedStays' /\ ControlInv' /\ LimitsAgree' /\ ConfirmedHasRow' /\ ContestedIsActive'
    BY <1>1, ActiveFrame, FoundedFrame, ControlFrame, LimitsFrame, ConfirmedFrame, ContestedFrame DEF Inv, world, conquest
  <1>7. /\ f \in Message
        /\ j.kind = "start" => f = [kind |-> "started", id |-> n, ok |-> FALSE]
        /\ j.kind = "end" => f = [kind |-> "endFailed", id |-> n]
        /\ j.kind = "capture" => f = [kind |-> "captureFailed", terr |-> t]
    BY <1>0, <1>2, <1>3, FailureTyped DEF Inv
  <1> HIDE DEF f
  <1>8. Answer(j, f)
    BY <1>0, <1>1, <1>3, <1>7 DEF Answer, CaptureKinds
  <1>9. PICK kept \in SUBSET {f} : inbox' = inbox \cup kept /\ lost' = lost \cup ({f} \ kept)
    <2>1. inbox \ {} = inbox
      OBVIOUS
    <2> QED
      BY <1>1, <2>1, Posted
  <1>10. (inbox' = inbox \cup {f} /\ lost' = lost) \/ (inbox' = inbox /\ lost' = lost \cup {f})
    <2>1. kept = {} \/ kept = {f}
      OBVIOUS
    <2> QED
      BY <1>9, <2>1
  <1>11. Told(j)
    BY <1>8, <1>10 DEF Told
  <1>12. phantom \subseteq phantom' /\ phantom' \subseteq phantom \cup {j.id} /\ (phantom' = phantom \/ j.kind = "start")
    BY <1>0, <1>1
  <1> QED
    BY <1>0, <1>1, <1>4, <1>5, <1>6, <1>11, <1>12, AnsweredStep

-----------------------------------------------------------------------------
(* The foundations, their news and the boot.                               *)

\* Neither the mail nor the claims nor the warriors.
LEMMA ControlStep ==
    ASSUME Inv, TypeInv', FoundedStays', ControlInv', LimitsAgree',
           \A m \in inbox : m.kind = "captured" => dbControl'[m.terr] = dbControl[m.terr],
           UNCHANGED <<asked, warriors, conquest, queue, inbox, row, contested, phantom>>,
           lost' = lost \/ \E m \in Introduction : lost' = lost \cup {m}
    PROVE  Inv'
  <1> USE DEF warriors, conquest
  <1>1. QueueShape' /\ Queued(queue)' = Queued(queue)
    BY QueueFrame DEF Inv
  <1>2. JobsAsked' /\ ClaimShape' /\ OneActive' /\ ConfirmedHasRow' /\ PlantedHasClaim' /\ ContestedIsActive'
    BY JobsFrame, ClaimFrame, ActiveFrame, ConfirmedFrame, PlantedFrame, ContestedFrame DEF Inv
  <1>3. StartsAlone' /\ EndedIsGone'
    BY <1>1, StartsFrame, EndedFrame DEF Inv
  <1>4. CapturesAlone'
    <2>1. \A s : Answered(s)' = Answered(s) /\ TerrOf(s)' = TerrOf(s)
      BY DEF Answered, TerrOf
    <2> QED
      BY <1>1, <2>1 DEF Inv, CapturesAlone
  <1>5. lost' \cap Message = lost \cap Message
    BY NotIntroduction
  <1>6. RowTracked'
    <2>1. \A n \in ClaimId : Ending(n) => Ending(n)'
      BY <1>1 DEF Ending, EndJob, Job, PlayerOf
    <2> QED
      BY <2>1 DEF Inv, RowTracked, Active, TerrOf
  <1>7. AnswerAwaited'
    <2>1. \A s \in Territory : About(s, claims[s])' = About(s, claims[s])
      BY <1>5 DEF About
    <2>2. \A o, f : StartJob(o)' = StartJob(o) /\ CaptureJob(o, f)' = CaptureJob(o, f)
      BY DEF StartJob, CaptureJob, Job, PlayerOf
    <2> QED
      BY <1>1, <2>1, <2>2 DEF Inv, AnswerAwaited
  <1> QED
    BY <1>1, <1>2, <1>3, <1>4, <1>6, <1>7 DEF Inv

LEMMA FreeIsFree ==
    ASSUME Inv, NEW t \in Territory, dbControl[t].owner = None
    PROVE  /\ \A m \in Foundations : Home[m.player] # t
           /\ ~Completed(t) /\ control[t] = dbControl[t]
           /\ \A m \in inbox : m.kind = "captured" => m.terr # t
  <1>1. \A m \in Foundations : Home[m.player] # t
    <2> SUFFICES ASSUME NEW m \in Foundations, Home[m.player] = t PROVE FALSE
      OBVIOUS
    <2>1. dbControl[t].owner = m.player /\ m.player \in Player
      BY DEF Inv, FoundedStays, TypeInv
    <2> QED
      BY <2>1, ConquestAssumption
  <1>2. ~Completed(t)
    <2> SUFFICES ASSUME Completed(t) PROVE FALSE
      OBVIOUS
    <2>1. dbControl[t].owner = PlayerOf(claims[t].id)
      BY DEF Inv, ControlInv
    <2>2. Asked(claims[t].id)
      BY CaptureFacts DEF Completed
    <2>3. PlayerOf(claims[t].id) \in Player
      BY <2>2, AskedFacts DEF Inv
    <2> QED
      BY <2>1, <2>3, ConquestAssumption
  <1>3. control[t] = dbControl[t]
    BY <1>1, <1>2 DEF Inv, ControlInv, NewsOf, Foundations
  <1>4. \A m \in inbox : m.kind = "captured" => m.terr # t
    BY <1>2, CaptureAnswerFacts DEF Completed, CaptureKinds
  <1> QED
    BY <1>1, <1>2, <1>3, <1>4

LEMMA FoundStep ==
    ASSUME Inv, NEW p \in Player, Found(p)
    PROVE  Inv'
  <1>0. PICK t, takes : t = Home[p] /\ takes = (t # None /\ dbControl[t].owner = None)
    OBVIOUS
  <1>1. /\ dbPresent' = dbPresent \cup {p}
        /\ dbControl' = IF takes THEN [dbControl EXCEPT ![t] = [owner |-> p, version |-> @.version + 1]] ELSE dbControl
        /\ news' = news \cup {[player |-> p, control |-> IF takes THEN dbControl'[t] ELSE NoControl]}
        /\ UNCHANGED <<step, asked, warriors, conquest, world, queue, inbox, lost, row, contested, dbLimit, phantom>>
    BY <1>0 DEF Found
  <1>2. t \in Territory \cup {None} /\ dbControl \in [Territory -> Control]
    BY <1>0, ConquestAssumption DEF Inv, TypeInv
  <1>3. CASE ~takes
    <2>1. dbControl' = dbControl /\ news' = news \cup {[player |-> p, control |-> NoControl]}
      BY <1>1, <1>3
    <2>2. Foundations' = Foundations
      BY <1>1, <2>1 DEF Foundations
    <2>3. [player |-> p, control |-> NoControl] \in Introduction
      BY NoControlTyped DEF Introduction
    <2>4. TypeInv'
      BY <1>1, <2>1, <2>3 DEF Inv, TypeInv, warriors, conquest, world
    <2>5. ControlInv' /\ LimitsAgree'
      BY <1>1, <2>1, <2>2, ControlFrame, LimitsFrame DEF Inv, conquest, world
    <2>6. FoundedStays'
      <3>1. \A m \in Foundations : m \in news' => m \in news
        BY <2>1 DEF Foundations
      <3> QED
        BY <1>1, <2>1, <2>2, <3>1 DEF Inv, FoundedStays, world
    <2> QED
      BY <1>1, <2>1, <2>4, <2>5, <2>6, ControlStep
  <1>4. CASE takes
    <2>0. PICK c : c = [owner |-> p, version |-> dbControl[t].version + 1]
      OBVIOUS
    <2>1. t \in Territory /\ dbControl[t].owner = None /\ c \in Control /\ c.owner = p /\ c # NoControl
      <3>1. t \in Territory /\ dbControl[t].owner = None
        BY <1>0, <1>2, <1>4
      <3>2. c \in Control /\ c.owner = p /\ p # None
        BY <1>2, <2>0, <3>1, ConquestAssumption DEF Control
      <3> QED
        BY <3>1, <3>2 DEF NoControl
    <2>2. /\ dbControl' = [dbControl EXCEPT ![t] = c] /\ dbControl'[t] = c /\ \A s \in Territory \ {t} : dbControl'[s] = dbControl[s]
          /\ dbControl[t].version < c.version
      BY <1>1, <1>2, <1>4, <2>0, <2>1 DEF Control
    <2> DEFINE m == [player |-> p, control |-> c]
    <2>3. news' = news \cup {m} /\ m \in Introduction /\ m.control # NoControl /\ m.player = p /\ m.control = c
      BY <1>1, <1>4, <2>1, <2>2 DEF Introduction
    <2> HIDE DEF m
    <2>4. Foundations' = Foundations \cup {m}
      BY <1>1, <2>3 DEF Foundations
    <2>5. /\ \A f \in Foundations : Home[f.player] # t
          /\ ~Completed(t) /\ control[t] = dbControl[t]
          /\ \A o \in inbox : o.kind = "captured" => o.terr # t
      BY <2>1, FreeIsFree
    <2>6. TypeInv'
      <3>1. dbControl' \in [Territory -> Control]
        BY <1>2, <2>1, <2>2
      <3> QED
        BY <1>1, <2>3, <3>1 DEF Inv, TypeInv, warriors, conquest, world
    <2>7. FoundedStays'
      <3> SUFFICES ASSUME NEW f \in Foundations'
                   PROVE  /\ Home[f.player] \in Territory /\ f.control = dbControl'[Home[f.player]]
                          /\ dbControl'[Home[f.player]].owner = f.player /\ f.player \in dbPresent'
                          /\ f \in news' => /\ control[Home[f.player]].owner = None
                                            /\ control[Home[f.player]].version < dbControl'[Home[f.player]].version
        BY <1>1 DEF FoundedStays, world
      <3>1. CASE f = m
        BY <1>0, <1>1, <2>1, <2>2, <2>3, <2>5, <3>1
      <3>2. CASE f # m
        <4>1. f \in Foundations /\ (f \in news' => f \in news)
          BY <2>3, <2>4, <3>2
        <4>2. Home[f.player] \in Territory \ {t}
          BY <2>5, <4>1 DEF Inv, FoundedStays
        <4> QED
          BY <1>1, <2>2, <4>1, <4>2 DEF Inv, FoundedStays
      <3> QED
        BY <3>1, <3>2
    <2>8. ControlInv'
      <3>1. NewsOf(t)' /\ \A s \in Territory \ {t} : NewsOf(s)' = NewsOf(s)
        BY <1>0, <2>3, <2>4 DEF NewsOf, Foundations
      <3>2. \A s \in Territory : Completed(s)' = Completed(s)
        BY <1>1 DEF Completed, conquest
      <3>3. ASSUME NEW s \in Territory \ {t}
            PROVE  /\ control[s] = dbControl'[s] \/ NewsOf(s)' \/ Completed(s)
                   /\ Completed(s) => /\ dbControl'[s].owner = PlayerOf(claims[s].id) /\ control[s] = claims[s].from
                                      /\ \A f \in Foundations' : Home[f.player] # s
                   /\ claims[s].capturing /\ ~Completed(s) =>
                         claims[s].from = control[s] \/ claims[s].from.version < dbControl'[s].version
        BY <1>0, <2>2, <2>3, <2>4, <3>1 DEF Inv, ControlInv
      <3>4. claims[t].capturing => claims[t].from.version < dbControl'[t].version
        <4>1. claims[t].capturing => claims[t].from = dbControl[t] \/ claims[t].from.version < dbControl[t].version
          BY <2>1, <2>5 DEF Inv, ControlInv
        <4>2. claims[t].from.version \in Nat /\ dbControl[t].version \in Nat /\ c.version \in Nat
          BY <1>2, <2>1 DEF Inv, TypeInv, Claim, Control
        <4> QED
          BY <2>2, <4>1, <4>2
      <3> QED
        BY <1>1, <2>5, <3>1, <3>2, <3>3, <3>4 DEF ControlInv, PlayerOf, conquest, world
    <2>9. LimitsAgree'
      <3> SUFFICES ASSUME NEW q \in Player PROVE dbLimit[q] = Conquered(dbControl', q)
        BY <1>1 DEF Inv, LimitsAgree, world
      <3>1. Conquered(dbControl, q) \in Nat
            /\ Conquered(dbControl', q) = Conquered(dbControl, q) + (IF dbControl'[t].owner = q THEN Bonus(q, t) ELSE 0)
                                                                  - (IF dbControl[t].owner = q THEN Bonus(q, t) ELSE 0)
        <4>1. \A s \in Territory \ {t} : dbControl'[s] = dbControl[s]
          BY <2>2
        <4> QED
          BY <2>1, <4>1, ConqueredUpdate
      <3>2. dbControl[t].owner # q /\ (dbControl'[t].owner = q => Bonus(q, t) = 0)
        BY <1>0, <2>1, <2>2, ConquestAssumption DEF Bonus
      <3> QED
        BY <3>1, <3>2 DEF Inv, LimitsAgree
    <2>10. \A o \in inbox : o.kind = "captured" => dbControl'[o.terr] = dbControl[o.terr]
      BY <2>2, <2>5, CaptureAnswerFacts DEF CaptureKinds
    <2> QED
      BY <1>1, <2>6, <2>7, <2>8, <2>9, <2>10, ControlStep
  <1> QED
    BY <1>0, <1>3, <1>4

LEMMA NewsDroppedStep ==
    ASSUME Inv, NEW m \in news, NewsDropped(m)
    PROVE  Inv'
  <1>1. /\ news' = news \ {m} /\ lost' = lost \cup {m} /\ m \in Introduction
        /\ UNCHANGED <<step, asked, warriors, conquest, world, queue, inbox, db, phantom>>
    BY DEF NewsDropped, Inv, TypeInv
  <1>2. Foundations' = Foundations
    BY <1>1 DEF Foundations
  <1>3. TypeInv'
    BY <1>1 DEF Inv, TypeInv, warriors, conquest, world, db
  <1>4. ControlInv' /\ LimitsAgree'
    BY <1>1, <1>2, ControlFrame, LimitsFrame DEF Inv, conquest, world, db
  <1>5. FoundedStays'
    BY <1>1, <1>2 DEF Inv, FoundedStays, world, db
  <1> QED
    BY <1>1, <1>3, <1>4, <1>5, ControlStep DEF db

LEMMA IntroduceStep ==
    ASSUME Inv, NEW m \in news, HandleIntroduce(m)
    PROVE  Inv'
  <1>0. PICK t : t = Home[m.player]
    OBVIOUS
  <1>1. /\ present' = present \cup {m.player} /\ news' = news \ {m}
        /\ control' = IF m.control = NoControl THEN control ELSE [control EXCEPT ![t] = m.control]
        /\ UNCHANGED <<step, asked, warriors, conquest, limit, barred, queue, inbox, lost, db, phantom>>
    BY <1>0 DEF HandleIntroduce
  <1>2. m \in Introduction /\ m.player \in Player /\ m.control \in Control
    BY DEF Inv, TypeInv, Introduction
  <1>3. TypeInv'
    <2>1. control' \in [Territory -> Control]
      BY <1>1, <1>2 DEF Inv, TypeInv
    <2> QED
      BY <1>1, <1>2, <2>1 DEF Inv, TypeInv, warriors, conquest, db
  <1>4. CASE m.control = NoControl
    <2>1. control' = control /\ Foundations' = Foundations
      BY <1>1, <1>4 DEF Foundations
    <2>2. ControlInv' /\ LimitsAgree'
      BY <1>1, <2>1, ControlFrame, LimitsFrame DEF Inv, conquest, db
    <2>3. FoundedStays'
      BY <1>1, <2>1 DEF Inv, FoundedStays, db
    <2> QED
      BY <1>1, <1>3, <2>2, <2>3, ControlStep DEF db
  <1>5. CASE m.control # NoControl
    <2>1. m \in Foundations
      BY <1>5 DEF Foundations
    <2>2. /\ t \in Territory /\ m.control = dbControl[t] /\ dbControl[t].owner = m.player
          /\ control[t].owner = None /\ control[t].version < dbControl[t].version
      BY <1>0, <2>1 DEF Inv, FoundedStays
    <2>3. control'[t] = dbControl[t] /\ \A s \in Territory \ {t} : control'[s] = control[s]
      BY <1>1, <1>5, <2>2 DEF Inv, TypeInv
    <2>4. Foundations' \subseteq Foundations /\ \A f \in Foundations : f = m \/ f \in Foundations'
      BY <1>1 DEF Foundations
    <2>5. \A f \in Foundations : f \in news' => Home[f.player] # t
      <3> SUFFICES ASSUME NEW f \in Foundations, f \in news', Home[f.player] = t PROVE FALSE
        OBVIOUS
      <3>1. f.control = m.control /\ f.player = m.player
        BY <2>2 DEF Inv, FoundedStays
      <3>2. f \in Introduction
        BY <1>1 DEF Inv, TypeInv
      <3>3. f = m
        BY <1>2, <3>1, <3>2 DEF Introduction
      <3> QED
        BY <1>1, <3>3
    <2>6. FoundedStays'
      BY <1>1, <2>3, <2>4, <2>5 DEF Inv, FoundedStays, db
    <2>7. ~Completed(t) /\ \A s \in Territory : Completed(s)' = Completed(s)
      BY <1>0, <1>1, <2>1, <2>2 DEF Completed, conquest, db, Inv, ControlInv
    <2>8. ControlInv'
      <3>1. \A s \in Territory \ {t} : NewsOf(s) => NewsOf(s)'
        BY <1>0, <2>4 DEF NewsOf, Foundations
      <3>2. ASSUME NEW s \in Territory \ {t}
            PROVE  /\ control'[s] = dbControl[s] \/ NewsOf(s)' \/ Completed(s)
                   /\ Completed(s) => /\ dbControl[s].owner = PlayerOf(claims[s].id) /\ control'[s] = claims[s].from
                                      /\ \A f \in Foundations' : Home[f.player] # s
                   /\ claims[s].capturing /\ ~Completed(s) =>
                         claims[s].from = control'[s] \/ claims[s].from.version < dbControl[s].version
        BY <2>3, <2>4, <3>1 DEF Inv, ControlInv
      <3>3. claims[t].capturing => claims[t].from.version < dbControl[t].version
        BY <2>2, <2>7 DEF Inv, ControlInv
      <3> QED
        BY <1>1, <2>3, <2>7, <3>2, <3>3 DEF ControlInv, PlayerOf, conquest, db
    <2>9. LimitsAgree'
      <3> SUFFICES ASSUME NEW q \in Player PROVE limit[q] = Conquered(control', q)
        BY <1>1 DEF Inv, LimitsAgree, db
      <3>1. Conquered(control, q) \in Nat
            /\ Conquered(control', q) = Conquered(control, q) + (IF control'[t].owner = q THEN Bonus(q, t) ELSE 0)
                                                              - (IF control[t].owner = q THEN Bonus(q, t) ELSE 0)
        BY <2>2, <2>3, ConqueredUpdate
      <3>2. control[t].owner # q /\ (control'[t].owner = q => Bonus(q, t) = 0)
        BY <1>0, <2>2, <2>3, ConquestAssumption DEF Bonus
      <3> QED
        BY <3>1, <3>2 DEF Inv, LimitsAgree
    <2> QED
      BY <1>1, <1>3, <2>6, <2>8, <2>9, ControlStep DEF db
  <1> QED
    BY <1>4, <1>5

LEMMA RestartStep == ASSUME Inv, Restart PROVE Inv'
  <1>1. /\ step' = Inbox /\ claims' = [t \in Territory |-> LoadedClaim(t)]
        /\ pendingEnds' = {} /\ pendingCaptures' = {}
        /\ control' = dbControl /\ limit' = dbLimit /\ present' = dbPresent
        /\ queue' = [p \in Player |-> <<>>] /\ inbox' = {} /\ lost' = {} /\ news' = {} /\ phantom' = {}
        /\ UNCHANGED <<asked, barred, row, dbControl, contested, dbLimit, dbPresent>>
    BY DEF Restart, db
  <1>2. PICK s \in [Unit -> {"idle", "busy", "dead"}], l \in [Unit -> Territory] :
          status' = [u \in Unit |-> IF Replants(u, s, l) THEN "claiming" ELSE s[u]] /\ at' = l
    BY DEF Restart
  <1>3. \A t \in Territory : /\ claims'[t] \in Claim /\ ~claims'[t].pending /\ ~claims'[t].capturing
                             /\ IF ActiveOn(t) = {} THEN claims'[t] = NoClaim ELSE claims'[t].id \in ActiveOn(t)
    <2>1. NoClaim \in Claim /\ ~NoClaim.pending /\ ~NoClaim.capturing
      BY NoControlTyped DEF NoClaim, Claim
    <2>2. \A n \in ClaimId : /\ [NoClaim EXCEPT !.id = n] \in Claim /\ [NoClaim EXCEPT !.id = n].id = n
                             /\ ~[NoClaim EXCEPT !.id = n].pending /\ ~[NoClaim EXCEPT !.id = n].capturing
      BY <2>1 DEF Claim
    <2> SUFFICES ASSUME NEW t \in Territory
                 PROVE  /\ LoadedClaim(t) \in Claim /\ ~LoadedClaim(t).pending /\ ~LoadedClaim(t).capturing
                        /\ IF ActiveOn(t) = {} THEN LoadedClaim(t) = NoClaim ELSE LoadedClaim(t).id \in ActiveOn(t)
      BY <1>1
    <2>3. CASE ActiveOn(t) = {}
      BY <2>1, <2>3 DEF LoadedClaim
    <2>4. CASE ActiveOn(t) # {}
      <3>1. PICK n \in ActiveOn(t) : n = CHOOSE i \in ActiveOn(t) : TRUE
        BY <2>4
      <3>2. LoadedClaim(t) = [NoClaim EXCEPT !.id = n] /\ n \in ClaimId
        BY <2>4, <3>1 DEF LoadedClaim, ActiveOn
      <3> QED
        BY <2>2, <2>4, <3>2
    <2> QED
      BY <2>3, <2>4
  <1>4. \A t \in Territory, n \in ClaimId : Active(n) /\ TerrOf(n) = t => claims'[t].id = n
    BY <1>3 DEF ActiveOn, Inv, OneActive
  <1>5. Queued(queue)' = {} /\ QueueShape'
    <2>1. queue' \in [Player -> Seq(Jobs)]
      BY <1>1
    <2>2. \A p \in Player : Len(queue'[p]) = 0
      BY <1>1
    <2>3. \A x : x \in Queued(queue') <=> \E p \in Player : \E i \in 1..Len(queue'[p]) : x = queue'[p][i]
      BY <2>1, QueuedIs
    <2> QED
      BY <2>1, <2>2, <2>3 DEF QueueShape
  <1>6. Foundations' = {}
    BY <1>1 DEF Foundations
  <1>7. TypeInv'
    <2>1. claims' \in [Territory -> Claim]
      BY <1>1, <1>3
    <2>2. status' \in [Unit -> Status] /\ at' \in [Unit -> Territory]
      BY <1>2 DEF Status
    <2>3. step' \in -2..Flushing
      BY <1>1, ConquestAssumption DEF Inbox, Flushing
    <2> QED
      BY <1>1, <2>1, <2>2, <2>3 DEF Inv, TypeInv
  <1>8. JobsAsked' /\ EndedIsGone' /\ OneActive' /\ FoundedStays' /\ LimitsAgree' /\ ContestedIsActive'
    BY <1>1, <1>5, <1>6, ActiveFrame, ContestedFrame DEF Inv, JobsAsked, EndedIsGone, Ends, FoundedStays, LimitsAgree
  <1>9. ClaimShape'
    <2>1. NoClaim.id = 0
      BY DEF NoClaim
    <2>2. \A t \in Territory : claims'[t].id # 0 => claims'[t].id \in ActiveOn(t)
      BY <1>3, <2>1
    <2>3. \A t \in Territory : \A n \in ActiveOn(t) : Asked(n) /\ TerrOf(n) = t /\ n # 0
      BY AskedFacts DEF ActiveOn, Active, Inv, ClaimShape, ClaimId
    <2>4. \A t \in Territory : claims'[t].id = 0 => claims'[t] = NoClaim
      BY <1>3, <2>3
    <2> QED
      BY <1>1, <1>3, <2>2, <2>3, <2>4 DEF Inv, ClaimShape, Asked, TerrOf
  <1>10. StartsAlone' /\ CapturesAlone' /\ AnswerAwaited'
    BY <1>1, <1>3, <1>5 DEF StartsAlone, StartQueued, CapturesAlone, AnswerAwaited
  <1>11. ControlInv'
    BY <1>1, <1>3 DEF ControlInv, Completed
  <1>12. ConfirmedHasRow'
    BY <1>1, <1>3 DEF ConfirmedHasRow, ActiveOn, Active, NoClaim
  <1>13. PlantedHasClaim'
    <2> SUFFICES ASSUME NEW u \in Unit, status'[u] = "claiming"
                 PROVE  claims'[l[u]].id # 0 /\ UnitOf(claims'[l[u]].id) = u
      BY <1>1, <1>2 DEF PlantedHasClaim, UnitOf
    <2>1. Replants(u, s, l)
      BY <1>2
    <2>2. PICK n \in ClaimId : Active(n) /\ UnitOf(n) = u /\ TerrOf(n) = l[u]
      BY <2>1 DEF Replants
    <2> QED
      BY <1>4, <2>2 DEF ClaimId
  <1>14. RowTracked'
    <2>1. \A n \in ClaimId : Active(n) => TerrOf(n) \in Territory
      BY AskedFacts DEF Inv, ClaimShape, Active
    <2> QED
      BY <1>1, <1>4, <2>1 DEF RowTracked, Active, TerrOf
  <1> QED
    BY <1>5, <1>7, <1>8, <1>9, <1>10, <1>11, <1>12, <1>13, <1>14 DEF Inv

-----------------------------------------------------------------------------
(* The theorems.                                                           *)

LEMMA StepKeepsInv == Inv /\ [Next]_vars => Inv'
  <1> SUFFICES ASSUME Inv, [Next]_vars PROVE Inv'
    OBVIOUS
  <1>1. ASSUME NEW u \in Unit, Order(u) \/ Arrive(u) \/ Die(u) PROVE Inv'
    BY <1>1, WarriorStep
  <1>2. ASSUME NEW u \in Unit, HandleClaim(u) PROVE Inv'
    <2>1. PICK n, t : n = Len(asked) + 1 /\ t = at[u]
      OBVIOUS
    <2> QED
      BY <1>2, <2>1, ClaimStep
  <1>3. CASE (\E p \in Player : Bar(p)) \/ Drained \/ Proceed \/ FlushBegins \/ EndTick
    BY <1>3, TickStep
  <1>4. ASSUME NEW p \in Player, Found(p) \/ Run(p) \/ RunUnacked(p) \/ GiveUp(p) PROVE Inv'
    BY <1>4, FoundStep, RunStep, UnackedStep, GiveUpStep
  <1>5. ASSUME NEW m \in inbox, Handle(m) PROVE Inv'
    BY <1>5, StartedStep, EndFailedStep, CapturedStep, ConflictStep, CaptureFailedStep DEF Handle
  <1>6. ASSUME NEW m \in news, HandleIntroduce(m) \/ NewsDropped(m) PROVE Inv'
    BY <1>6, IntroduceStep, NewsDroppedStep
  <1>7. ASSUME NEW t \in Territory, Sweep(t) PROVE Inv'
    <2>1. SweepNothing(t) => Inv'
      BY TickStep
    <2> QED
      BY <1>7, <2>1, SweepBrokenStep, SweepDueStep DEF Sweep
  <1>8. CASE FlushClaims
    <2>1. FlushOver => Inv'
      BY TickStep
    <2>2. \A t \in pendingCaptures : t \in Territory
      BY DEF Inv, TypeInv
    <2> QED
      BY <1>8, <2>1, <2>2, FlushEndStep, FlushCaptureStep DEF FlushClaims
  <1>9. CASE Restart
    BY <1>9, RestartStep
  <1>10. CASE UNCHANGED vars
    <2>1. UNCHANGED <<asked, conquest, control, limit, present, mail, db, phantom>>
      BY <1>10 DEF vars, world
    <2>2. TypeInv' /\ PlantedHasClaim'
      BY <1>10, PlantedFrame DEF Inv, TypeInv, vars, warriors, conquest, world, mail, db
    <2> QED
      BY <2>1, <2>2, QuietStep
  <1> QED
    BY <1>1, <1>2, <1>3, <1>4, <1>5, <1>6, <1>7, <1>8, <1>9, <1>10 DEF Next

LEMMA InvHolds == Spec => []Inv
  <1>1. Init => Inv
    BY Initially
  <1>2. Inv /\ [Next]_vars => Inv'
    BY StepKeepsInv
  <1> QED
    BY <1>1, <1>2, PTL DEF Spec

\* The limits are functions on the players: what every step writes whole.
LimitShape ==
    /\ limit = [p \in Player |-> limit[p]]
    /\ dbLimit = [p \in Player |-> dbLimit[p]]

\* Only an answer to a capture, the capture itself and a restart write the limits.
LEMMA LimitShapeHolds == Spec => []LimitShape
  <1>1. Init => LimitShape
    BY DEF Init, LimitShape
  <1>2. Inv /\ LimitShape /\ [Next]_vars => LimitShape'
    <2> SUFFICES ASSUME Inv, LimitShape, [Next]_vars PROVE LimitShape'
      OBVIOUS
    <2>1. ASSUME UNCHANGED <<limit, dbLimit>> PROVE LimitShape'
      BY <2>1 DEF LimitShape
    <2>2. CASE UNCHANGED vars
      BY <2>1, <2>2 DEF vars, world, db
    <2>3. CASE \E u \in Unit : Order(u) \/ Arrive(u) \/ Die(u) \/ HandleClaim(u)
      BY <2>1, <2>3 DEF Order, Arrive, Die, HandleClaim, world, db
    <2>4. CASE \E p \in Player : Bar(p) \/ Found(p) \/ GiveUp(p)
      BY <2>1, <2>4 DEF Bar, Found, GiveUp, world, db
    <2>5. ASSUME NEW j \in Queued(queue), Apply(j), UNCHANGED limit PROVE LimitShape'
      <3>1. CASE UNCHANGED dbLimit
        BY <2>1, <2>5, <3>1
      <3>2. CASE CaptureRow(j)
        <4> DEFINE Moved(p) == dbLimit[p] + (IF p = PlayerOf(j.id) THEN Bonus(PlayerOf(j.id), TerrOf(j.id)) ELSE 0)
                                 - (IF p = j.from.owner THEN Bonus(j.from.owner, TerrOf(j.id)) ELSE 0)
        <4>1. dbLimit' = [p \in Player |-> Moved(p)]
          BY <3>2 DEF CaptureRow
        <4> HIDE DEF Moved
        <4>2. dbLimit' = [p \in Player |-> dbLimit'[p]]
          BY <4>1
        <4> QED
          BY <2>5, <4>2 DEF LimitShape
      <3>3. j.kind \in {"start", "end", "capture"}
        BY JobFacts
      <3> QED
        BY <2>5, <3>1, <3>2, <3>3 DEF Apply, StartRow, EndRow, db
    <2>6. CASE \E p \in Player : Run(p) \/ RunUnacked(p)
      BY <2>5, <2>6, HeadQueued DEF Inv, Run, RunUnacked, world
    <2>7. CASE Drained \/ Proceed \/ FlushBegins \/ FlushClaims \/ EndTick
      BY <2>1, <2>7 DEF Drained, Proceed, FlushBegins, FlushClaims, FlushEnd, FlushCapture,
         FlushOver, EndTick, world, db
    <2>8. CASE \E t \in Territory : Sweep(t)
      BY <2>1, <2>8 DEF Sweep, SweepNothing, SweepBroken, SweepDue, world, db
    <2>9. CASE \E m \in news : HandleIntroduce(m) \/ NewsDropped(m)
      BY <2>1, <2>9 DEF HandleIntroduce, NewsDropped, world, db
    <2>10. ASSUME NEW m, HandleCaptured(m) PROVE LimitShape'
      <3>1. CASE UNCHANGED limit
        BY <2>1, <2>10, <3>1 DEF HandleCaptured, db
      <3>2. CASE ~UNCHANGED limit
        BY <2>10, <3>2 DEF HandleCaptured, db, LimitShape
      <3> QED
        BY <3>1, <3>2
    <2>11. CASE \E m \in inbox : Handle(m)
      BY <2>1, <2>10, <2>11 DEF Handle, HandleStarted, HandleEndFailed, HandleConflict,
         HandleCaptureFailed, world, db
    <2>12. CASE Restart
      BY <2>12 DEF Restart, LimitShape, db
    <2> QED
      BY <2>2, <2>3, <2>4, <2>6, <2>7, <2>8, <2>9, <2>11, <2>12 DEF Next
  <1> QED
    BY <1>1, <1>2, InvHolds, PTL DEF Spec

\* Every variable keeps its type, whatever fails: in particular the limits, which
\* captures add to and take from, never go below zero.
THEOREM ConquestTypeCorrect == Spec => []TypeOK
  <1>1. Inv /\ LimitShape => TypeOK
    <2> SUFFICES ASSUME Inv, LimitShape PROVE TypeOK
      OBVIOUS
    <2>1. limit \in [Player -> Nat] /\ dbLimit \in [Player -> Nat]
      <3>1. \A p \in Player : limit[p] \in Nat /\ dbLimit[p] \in Nat
        BY ConqueredNat DEF Inv, LimitsAgree
      <3> QED
        BY <3>1 DEF LimitShape
    <2>2. DOMAIN queue = Player
      BY DEF Inv, QueueShape
    <2> QED
      BY <2>1, <2>2 DEF Inv, TypeInv, JobsAsked, TypeOK
  <1> QED
    BY <1>1, InvHolds, LimitShapeHolds, PTL

\* RAM, the rows of the claims and the contested marks agree (ADR-034 (1), (4)):
\* starts, ends and captures of any claimers in any order, commits without an
\* acknowledgement, jobs that exhaust their attempts, a full inbox and restarts.
THEOREM BaseAgreesAlways == Spec => []BaseAgrees
  <1>1. Inv => BaseAgrees
    BY DEF Inv, ControlInv, Completed, OwnersAgree, BaseAgrees
  <1> QED
    BY <1>1, InvHolds, PTL

\* INV-ECON-004: the limit of every city counts exactly the territories its player
\* conquered, in the database after each transaction and in RAM after each answer.
THEOREM LimitsAgreeAlways == Spec => []LimitsAgree
  <1>1. Inv => LimitsAgree
    BY DEF Inv
  <1> QED
    BY <1>1, InvHolds, PTL

\* No claim is forgotten half way: an active row is in RAM or its end is on its way
\* (RowTracked), and a claim that waits has a job, a retry or a message (AnswerAwaited).
THEOREM NothingForgottenEver == Spec => []NothingForgotten
  <1>1. Inv => NothingForgotten
    BY DEF Inv, NothingForgotten
  <1> QED
    BY <1>1, InvHolds, PTL

\* What a job does to the control of a capital.
LEMMA CapitalStays ==
    ASSUME Inv, NEW j \in Queued(queue), Apply(j), NEW t \in Territory, NEW p \in Player,
           p \in dbPresent, IsCapital(p, t), dbControl[t].owner = p
    PROVE  dbControl'[t].owner = p
  <1>1. CASE ~Writes(j)
    BY <1>1 DEF Apply, db
  <1>2. CASE Writes(j) /\ j.kind = "capture"
    <2>1. ~Capital(j) /\ Matches(j) /\ dbControl' = [dbControl EXCEPT ![TerrOf(j.id)] = [owner |-> PlayerOf(j.id), version |-> @.version + 1]]
      BY <1>2 DEF Apply, CaptureRow, Writes, Takes
    <2>2. TerrOf(j.id) # t
      BY <2>1 DEF Capital, Matches, IsCapital
    <2>3. dbControl'[t] = dbControl[t]
      BY <2>1, <2>2 DEF Inv, TypeInv
    <2> QED
      BY <2>3
  <1>3. CASE Writes(j) /\ j.kind # "capture"
    BY <1>3, JobFacts DEF Apply, StartRow, EndRow
  <1> QED
    BY <1>1, <1>2, <1>3

\* INV-TERR-011: no transaction takes a territory from the player whose city is in
\* it, whenever the city was founded and whatever RAM knew of it.
THEOREM CapitalKeptAlways == Spec => CapitalKept
  <1> DEFINE A == \A t \in Territory, p \in Player :
                    p \in dbPresent /\ IsCapital(p, t) /\ dbControl[t].owner = p => dbControl'[t].owner = p
  <1>1. Inv /\ [Next]_vars => [A]_vars
    <2> SUFFICES ASSUME Inv, Next, NEW t \in Territory, NEW p \in Player,
                        p \in dbPresent, IsCapital(p, t), dbControl[t].owner = p
                 PROVE  dbControl'[t].owner = p
      OBVIOUS
    <2>1. ASSUME NEW q \in Player, Run(q) \/ RunUnacked(q) PROVE dbControl'[t].owner = p
      <3>1. PICK j : j = Head(queue[q])
        OBVIOUS
      <3>2. Runnable(queue, q) /\ Apply(j)
        BY <2>1, <3>1 DEF Run, RunUnacked
      <3>3. j \in Queued(queue)
        BY <3>1, <3>2, HeadQueued DEF Inv
      <3> QED
        BY <3>2, <3>3, CapitalStays
    <2>2. ASSUME NEW q \in Player, Found(q) PROVE dbControl'[t].owner = p
      <3>1. p # None /\ dbControl \in [Territory -> Control]
        BY ConquestAssumption DEF Inv, TypeInv
      <3>2. dbControl' = dbControl \/ (dbControl[Home[q]].owner = None /\ \E c : dbControl' = [dbControl EXCEPT ![Home[q]] = c])
        BY <2>2 DEF Found
      <3> QED
        BY <3>1, <3>2
    <2>3. ASSUME NEW u \in Unit, Order(u) \/ Arrive(u) \/ Die(u) \/ HandleClaim(u) PROVE dbControl' = dbControl
      BY <2>3 DEF Order, Arrive, Die, HandleClaim, db
    <2>4. ASSUME NEW q \in Player, Bar(q) \/ GiveUp(q) PROVE dbControl' = dbControl
      BY <2>4 DEF Bar, GiveUp, db
    <2>5. ASSUME NEW m, Handle(m) PROVE dbControl' = dbControl
      BY <2>5 DEF Handle, HandleStarted, HandleEndFailed, HandleCaptured, HandleConflict, HandleCaptureFailed, db
    <2>6. ASSUME NEW m, HandleIntroduce(m) \/ NewsDropped(m) PROVE dbControl' = dbControl
      BY <2>6 DEF HandleIntroduce, NewsDropped, db
    <2>7. ASSUME NEW s, Sweep(s) PROVE dbControl' = dbControl
      BY <2>7 DEF Sweep, SweepNothing, SweepBroken, SweepDue, db
    <2>8. Drained \/ Proceed \/ FlushBegins \/ FlushClaims \/ EndTick \/ Restart => dbControl' = dbControl
      BY DEF Drained, Proceed, FlushBegins, FlushClaims, FlushEnd, FlushCapture, FlushOver, EndTick, Restart, db
    <2> QED
      BY <2>1, <2>2, <2>3, <2>4, <2>5, <2>6, <2>7, <2>8 DEF Next
  <1> QED
    BY <1>1, InvHolds, PTL DEF Spec, CapitalKept
=============================================================================
