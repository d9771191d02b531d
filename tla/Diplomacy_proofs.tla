-------------------------- MODULE Diplomacy_proofs --------------------------
(***************************************************************************)
(* Proofs about Diplomacy, for any types of treaty, bounds and capacities. *)
(***************************************************************************)
EXTENDS Diplomacy, FiniteSetTheorems, TLAPS

-----------------------------------------------------------------------------
(* Types.                                                                  *)

\* Only administrative treaties are nobody's, and they are never proposed.
Treaty == {t \in TreatyType : t.id # NoId /\ (t.st \in {"PROPOSED", "REJECTED"} => t.by \in Player)}
Offer == [id : Nat, by : Player, st : {"PROPOSED", "WITHDRAWN", "REJECTED", "ACCEPTED", "EXPIRED"}]

TreatyJobs == [key : {"treaty"}, k : {"Treaty"}, t : Treaty, from : OpenStates, sup : Nat, order : BOOLEAN]
OfferJobs == [key : {"trade"}, k : {"Offer"}, t : Offer, order : BOOLEAN]
AcceptJobs == [key : {"city"}, k : {"Accept"}, t : {o \in Offer : o.st = "ACCEPTED"}, order : {TRUE}]
Job == TreatyJobs \cup OfferJobs \cup AcceptJobs \cup {EnterJob, LeaveJob}
Item == [job : Job, done : BOOLEAN]
Message == [job : Job, ok : BOOLEAN]

RowType(r) ==
  /\ r \in [treaties : SUBSET Treaty, offers : SUBSET Offer, inside : BOOLEAN]
  /\ IsFiniteSet(r.treaties) /\ IsFiniteSet(r.offers)
  /\ \A t, u \in r.treaties : t.id = u.id => t = u
LoopType ==
  /\ pacts \subseteq {t \in Treaty : t.st \in OpenStates} /\ IsFiniteSet(pacts)
  /\ \A t, u \in pacts : t.id = u.id => t = u
  /\ offers \subseteq {o \in Offer : o.st = "PROPOSED"} /\ IsFiniteSet(offers)
  /\ busy \subseteq {"treaty", "trade"} /\ rejected \subseteq Player
  /\ guest \in [entering : BOOLEAN, inside : BOOLEAN, leaving : BOOLEAN]
  /\ failed \subseteq {j \in TreatyJobs \cup OfferJobs : ~j.order} /\ IsFiniteSet(failed)
QueueType ==
  /\ queue \in [Key -> Seq(Item)]
  /\ \A k \in Key : \A i \in 1..Len(queue[k]) : queue[k][i].job.key = k
InboxType == inbox \in Seq(Message) /\ Len(inbox) <= InboxSize

TypeInv == LoopType /\ QueueType /\ InboxType /\ RowType(row)

LEMMA Typed == TypeInv => TypeOK
  BY DEF TypeInv, LoopType, InboxType, RowType, TypeOK, Treaty, Offer

LEMMA JobFacts ==
    \A j \in Job : /\ j.key \in Key /\ j.order \in BOOLEAN
                   /\ j.k = "Treaty" <=> j \in TreatyJobs
                   /\ j.key = "treaty" <=> j \in TreatyJobs
                   /\ j.k \in {"Offer", "Accept"} <=> j \in OfferJobs \cup AcceptJobs
                   /\ j.k = "Offer" <=> j \in OfferJobs
                   /\ j.k = "Accept" <=> j \in AcceptJobs
  <1> SUFFICES ASSUME NEW j \in Job
      PROVE  /\ j.key \in Key /\ j.order \in BOOLEAN
             /\ j.k = "Treaty" <=> j \in TreatyJobs
             /\ j.key = "treaty" <=> j \in TreatyJobs
             /\ j.k \in {"Offer", "Accept"} <=> j \in OfferJobs \cup AcceptJobs
             /\ j.k = "Offer" <=> j \in OfferJobs
             /\ j.k = "Accept" <=> j \in AcceptJobs
    OBVIOUS
  <1>1. CASE j \in TreatyJobs
    BY <1>1 DEF TreatyJobs, OfferJobs, AcceptJobs, Key
  <1>2. CASE j \in OfferJobs
    BY <1>2 DEF TreatyJobs, OfferJobs, AcceptJobs, Key
  <1>3. CASE j \in AcceptJobs
    BY <1>3 DEF TreatyJobs, OfferJobs, AcceptJobs, Key
  <1>4. CASE j \in {EnterJob, LeaveJob}
    <2>1. j.key = "unit" /\ j.k \in {"Enter", "Leave"} /\ j.order = FALSE
      BY <1>4 DEF EnterJob, LeaveJob, UnitJob
    <2>2. j \notin TreatyJobs /\ j \notin OfferJobs /\ j \notin AcceptJobs
      BY <2>1 DEF TreatyJobs, OfferJobs, AcceptJobs
    <2> QED
      BY <2>1, <2>2 DEF Key
  <1> QED
    BY <1>1, <1>2, <1>3, <1>4 DEF Job

LEMMA TypeInit == Init => TypeInv
  <1> SUFFICES ASSUME Init PROVE TypeInv
    OBVIOUS
  <1> DEFINE t == [NewTreaty(1, Nobody, "ALLIANCE") EXCEPT !.st = "ACTIVE"]
  <1>1. t \in Treaty /\ t.st \in OpenStates
    <2>1. "ALLIANCE" \in DOMAIN Rank
      BY DEF Rank
    <2> DEFINE n == NewTreaty(1, Nobody, "ALLIANCE")
    <2>2. n \in TreatyType /\ n.id = 1
      BY <2>1 DEF TreatyType, OpenStates, NewTreaty
    <2> HIDE DEF n
    <2>3. [n EXCEPT !.st = "ACTIVE"] \in TreatyType /\ [n EXCEPT !.st = "ACTIVE"].id = 1
          /\ [n EXCEPT !.st = "ACTIVE"].st = "ACTIVE"
      BY <2>2 DEF TreatyType, OpenStates
    <2>4. t = [n EXCEPT !.st = "ACTIVE"]
      BY DEF n
    <2>5. t \in TreatyType /\ t.id = 1 /\ t.st = "ACTIVE"
      BY <2>3, <2>4
    <2> HIDE DEF t
    <2>6. t.id # NoId /\ t.st \notin {"PROPOSED", "REJECTED"} /\ t.st \in OpenStates
      BY <2>5 DEF NoId, OpenStates
    <2> QED
      BY <2>5, <2>6 DEF Treaty
  <1>2. IsFiniteSet({}) /\ IsFiniteSet({t})
    BY FS_EmptySet, FS_Singleton
  <1>3. row \in [treaties : SUBSET Treaty, offers : SUBSET Offer, inside : BOOLEAN]
        /\ row.treaties \in {{}, {t}} /\ row.offers = {}
    <2>1. PICK ts \in {{}, {t}} : row = [treaties |-> ts, offers |-> {}, inside |-> FALSE]
      BY DEF Init
    <2> HIDE DEF t
    <2> QED
      BY <1>1, <2>1
  <1>4. RowType(row) /\ LoopType
    BY <1>1, <1>2, <1>3 DEF Init, RowType, LoopType
  <1>5. QueueType /\ InboxType
    BY ConstantsAssumption DEF Init, QueueType, InboxType
  <1> QED
    BY <1>4, <1>5 DEF TypeInv

-----------------------------------------------------------------------------
(* Fresh numbers.                                                          *)

LEMMA ImageFinite ==
    ASSUME NEW S, IsFiniteSet(S), NEW T, NEW f \in [S -> T], \A y \in T : \E x \in S : f[x] = y
    PROVE  IsFiniteSet(T)
  <1>1. f \in Surjection(S, T)
    BY DEF Surjection
  <1> QED
    BY <1>1, FS_Surjection

LEMMA FreshId ==
    ASSUME TypeInv
    PROVE  Fresh \in Nat /\ Fresh # NoId /\ \A t \in pacts \cup row.treaties \cup offers \cup row.offers : t.id # Fresh
  <1> DEFINE Ids(S) == {x.id : x \in S}
             Line(k) == {queue[k][i].job.t.id : i \in DOMAIN queue[k]}
  <1>1. \A S : IsFiniteSet(S) => IsFiniteSet(Ids(S))
    <2> SUFFICES ASSUME NEW S, IsFiniteSet(S) PROVE IsFiniteSet(Ids(S))
      OBVIOUS
    <2> DEFINE f == [x \in S |-> x.id]
    <2>1. f \in [S -> Ids(S)] /\ \A y \in Ids(S) : \E x \in S : f[x] = y
      OBVIOUS
    <2> QED
      BY <2>1, ImageFinite
  <1>2. \A k \in Key : IsFiniteSet(Line(k))
    <2> SUFFICES ASSUME NEW k \in Key PROVE IsFiniteSet(Line(k))
      OBVIOUS
    <2>1. DOMAIN queue[k] = 1..Len(queue[k]) /\ Len(queue[k]) \in Nat
      BY DEF TypeInv, QueueType
    <2>2. IsFiniteSet(DOMAIN queue[k])
      BY <2>1, FS_Interval
    <2> DEFINE f == [i \in DOMAIN queue[k] |-> queue[k][i].job.t.id]
    <2>3. f \in [DOMAIN queue[k] -> Line(k)] /\ \A y \in Line(k) : \E i \in DOMAIN queue[k] : f[i] = y
      OBVIOUS
    <2> HIDE DEF f, Line
    <2> QED
      BY <2>2, <2>3, ImageFinite
  <1>3. IsFiniteSet(Used)
    <2>1. IsFiniteSet(pacts \cup row.treaties) /\ IsFiniteSet(offers \cup row.offers)
      BY FS_Union DEF TypeInv, LoopType, RowType
    <2>2. Used = ((Ids(pacts \cup row.treaties) \cup Ids(offers \cup row.offers)) \cup Line("treaty")) \cup Line("trade")
      BY DEF Used
    <2>3. "treaty" \in Key /\ "trade" \in Key
      BY DEF Key
    <2>4. IsFiniteSet(Ids(pacts \cup row.treaties)) /\ IsFiniteSet(Ids(offers \cup row.offers))
          /\ IsFiniteSet(Line("treaty")) /\ IsFiniteSet(Line("trade"))
      BY <1>1, <1>2, <2>1, <2>3
    <2> HIDE DEF Ids, Line
    <2> QED
      BY <2>2, <2>4, FS_Union
  <1>4. \E n \in 1..(Cardinality(Used) + 1) : n \notin Used
    <2> SUFFICES ASSUME 1..(Cardinality(Used) + 1) \subseteq Used PROVE FALSE
      OBVIOUS
    <2>1. Cardinality(Used) \in Nat
      BY <1>3, FS_CardinalityType
    <2>2. Cardinality(1..(Cardinality(Used) + 1)) = Cardinality(Used) + 1
      BY <2>1, FS_Interval
    <2>3. Cardinality(1..(Cardinality(Used) + 1)) <= Cardinality(Used)
      BY <1>3, FS_Subset
    <2> QED
      BY <2>1, <2>2, <2>3
  <1>5. Cardinality(Used) \in Nat
    BY <1>3, FS_CardinalityType
  <1>6. Fresh \in 1..(Cardinality(Used) + 1) /\ Fresh \notin Used
    BY <1>4 DEF Fresh
  <1>7. \A t \in pacts \cup row.treaties \cup offers \cup row.offers : t.id \in Used
    BY DEF Used
  <1>8. \A n \in Nat : \A m \in 1..(n + 1) : m \in Nat /\ m # 0
    OBVIOUS
  <1> QED
    BY <1>5, <1>6, <1>7, <1>8 DEF NoId

-----------------------------------------------------------------------------
(* Submitted jobs.                                                         *)

Jobs == [Key -> Seq(Job)]
OfKeys(jobs) == \A k \in Key : \A i \in 1..Len(jobs[k]) : jobs[k][i].key = k

Items(jobs) == [i \in DOMAIN jobs |-> [job |-> jobs[i], done |-> FALSE]]

LEMMA Appended ==
    ASSUME NEW s \in Seq(Item), NEW n \in Seq(Job)
    PROVE  /\ s \o Items(n) \in Seq(Item) /\ Len(s \o Items(n)) = Len(s) + Len(n)
           /\ \A i \in 1..Len(s) : (s \o Items(n))[i] = s[i]
           /\ \A i \in (Len(s) + 1)..(Len(s) + Len(n)) :
                /\ i - Len(s) \in 1..Len(n) /\ (s \o Items(n))[i].job = n[i - Len(s)]
                /\ ~(s \o Items(n))[i].done
  <1>1. DOMAIN n = 1..Len(n) /\ Len(n) \in Nat /\ \A i \in 1..Len(n) : n[i] \in Job
    OBVIOUS
  <1>2. Items(n) = [i \in 1..Len(n) |-> [job |-> n[i], done |-> FALSE]]
    BY <1>1 DEF Items
  <1>3. \A i \in 1..Len(n) : [job |-> n[i], done |-> FALSE] \in Item
    BY <1>1 DEF Item
  <1>4. Items(n) \in Seq(Item) /\ Len(Items(n)) = Len(n) /\ \A i \in 1..Len(n) : Items(n)[i].job = n[i] /\ ~Items(n)[i].done
    BY <1>1, <1>2, <1>3
  <1> QED
    BY <1>1, <1>4

LEMMA Submitted ==
    ASSUME QueueType, NEW jobs \in Jobs, OfKeys(jobs), Submit(jobs)
    PROVE  /\ QueueType'
           /\ \A k \in Key :
                /\ Len(queue'[k]) = Len(queue[k]) + Len(jobs[k])
                /\ \A i \in 1..Len(queue[k]) : queue'[k][i] = queue[k][i]
                /\ \A i \in (Len(queue[k]) + 1)..Len(queue'[k]) :
                     /\ i - Len(queue[k]) \in 1..Len(jobs[k])
                     /\ queue'[k][i].job = jobs[k][i - Len(queue[k])] /\ ~queue'[k][i].done
  <1>1. queue' = [k \in Key |-> queue[k] \o Items(jobs[k])]
    BY DEF Submit, Items
  <1>2. \A k \in Key : queue[k] \in Seq(Item) /\ jobs[k] \in Seq(Job)
    BY DEF QueueType, Jobs
  <1>3. \A k \in Key : queue[k] \o Items(jobs[k]) \in Seq(Item)
    BY <1>2, Appended
  <1>4. queue' \in [Key -> Seq(Item)]
    BY <1>1, <1>3
  <1>5. ASSUME NEW k \in Key
        PROVE  /\ Len(queue'[k]) = Len(queue[k]) + Len(jobs[k])
               /\ \A i \in 1..Len(queue[k]) : queue'[k][i] = queue[k][i]
               /\ \A i \in (Len(queue[k]) + 1)..(Len(queue[k]) + Len(jobs[k])) :
                    /\ i - Len(queue[k]) \in 1..Len(jobs[k])
                    /\ queue'[k][i].job = jobs[k][i - Len(queue[k])] /\ ~queue'[k][i].done
    <2>1. queue'[k] = queue[k] \o Items(jobs[k])
      BY <1>1
    <2> DEFINE new == queue[k] \o Items(jobs[k])
    <2>2. /\ Len(new) = Len(queue[k]) + Len(jobs[k])
          /\ \A i \in 1..Len(queue[k]) : new[i] = queue[k][i]
          /\ \A i \in (Len(queue[k]) + 1)..(Len(queue[k]) + Len(jobs[k])) :
               i - Len(queue[k]) \in 1..Len(jobs[k]) /\ new[i].job = jobs[k][i - Len(queue[k])] /\ ~new[i].done
      BY <1>2, Appended
    <2>3. queue'[k] = new
      BY <2>1
    <2> HIDE DEF new
    <2> QED
      BY <2>2, <2>3
  <1>6. ASSUME NEW k \in Key, NEW i \in 1..Len(queue'[k]) PROVE queue'[k][i].job.key = k
    <2>1. /\ \A n \in 1..Len(queue[k]) : queue[k][n].job.key = k
          /\ \A n \in 1..Len(jobs[k]) : jobs[k][n].key = k
          /\ Len(queue[k]) \in Nat /\ Len(jobs[k]) \in Nat
      BY <1>2 DEF QueueType, OfKeys
    <2>2. CASE i \in 1..Len(queue[k])
      BY <1>5, <2>1, <2>2
    <2>3. CASE i \in (Len(queue[k]) + 1)..(Len(queue[k]) + Len(jobs[k]))
      <3>1. i - Len(queue[k]) \in 1..Len(jobs[k]) /\ queue'[k][i].job = jobs[k][i - Len(queue[k])]
        BY <1>5, <2>3
      <3> QED
        BY <2>1, <3>1
    <2>4. i \in 1..(Len(queue[k]) + Len(jobs[k]))
      BY <1>5
    <2>5. i \in 1..Len(queue[k]) \/ i \in (Len(queue[k]) + 1)..(Len(queue[k]) + Len(jobs[k]))
      <3>1. \A a, b \in Nat : \A n \in 1..(a + b) : n \in 1..a \/ n \in (a + 1)..(a + b)
        OBVIOUS
      <3> QED
        BY <2>1, <2>4, <3>1
    <2> QED
      BY <2>2, <2>3, <2>5
  <1> QED
    BY <1>4, <1>5, <1>6 DEF QueueType

LEMMA NoneJobs == None \in Jobs /\ OfKeys(None) /\ \A k \in Key : None[k] = <<>>
  BY DEF None, Jobs, OfKeys

LEMMA OnlyJobs ==
    ASSUME NEW j \in Job
    PROVE  /\ Only(j) \in Jobs /\ OfKeys(Only(j))
           /\ \A k \in Key : Only(j)[k] = IF k = j.key THEN <<j>> ELSE <<>>
  <1>1. j.key \in Key
    BY JobFacts
  <1>2. \A k \in Key : Only(j)[k] = IF k = j.key THEN <<j>> ELSE <<>>
    BY <1>1 DEF Only, None
  <1>3. Only(j) \in Jobs
    <2>1. <<j>> \in Seq(Job) /\ <<>> \in Seq(Job)
      OBVIOUS
    <2> QED
      BY <1>1, <2>1 DEF Only, None, Jobs
  <1> QED
    BY <1>2, <1>3 DEF OfKeys

In(j, s) == \E i \in 1..Len(s) : s[i] = j

LEMMA Joined ==
    ASSUME NEW a \in Seq(Job), NEW b \in Seq(Job)
    PROVE  /\ a \o b \in Seq(Job) /\ Len(a \o b) = Len(a) + Len(b)
           /\ \A j : In(j, a \o b) <=> In(j, a) \/ In(j, b)
  <1>1. a \o b \in Seq(Job) /\ Len(a \o b) = Len(a) + Len(b) /\ Len(a) \in Nat /\ Len(b) \in Nat
    OBVIOUS
  <1>2. \A i \in 1..Len(a \o b) : (a \o b)[i] = IF i <= Len(a) THEN a[i] ELSE b[i - Len(a)]
    OBVIOUS
  <1>3. \A i \in 1..Len(a \o b) : i \in 1..Len(a) \/ (i > Len(a) /\ i - Len(a) \in 1..Len(b))
    BY <1>1
  <1>4. \A i \in 1..Len(a) : i \in 1..Len(a \o b) /\ (a \o b)[i] = a[i]
    BY <1>1, <1>2
  <1>5. \A i \in 1..Len(b) : Len(a) + i \in 1..Len(a \o b) /\ (a \o b)[Len(a) + i] = b[i]
    <2> SUFFICES ASSUME NEW i \in 1..Len(b) PROVE Len(a) + i \in 1..Len(a \o b) /\ (a \o b)[Len(a) + i] = b[i]
      OBVIOUS
    <2>1. Len(a) + i \in 1..Len(a \o b) /\ ~(Len(a) + i <= Len(a)) /\ (Len(a) + i) - Len(a) = i
      BY <1>1
    <2> QED
      BY <1>2, <2>1
  <1> QED
    BY <1>1, <1>2, <1>3, <1>4, <1>5 DEF In

LEMMA SetToSeqJobs ==
    ASSUME NEW S, IsFiniteSet(S), S \subseteq Job
    PROVE  SetToSeq(S) \in Seq(Job) /\ \A j : In(j, SetToSeq(S)) <=> j \in S
  <1> DEFINE n == Cardinality(S)
  <1>1. n \in Nat /\ \E f \in [1..n -> S] : IsInjective(f)
    BY FS_CardinalityType DEF ExistsBijection, Bijection, Injection
  <1>2. SetToSeq(S) \in [1..n -> S] /\ IsInjective(SetToSeq(S))
    BY <1>1 DEF SetToSeq
  <1>3. SetToSeq(S) \in Injection(1..n, S)
    BY <1>2 DEF Injection
  <1>4. Cardinality(1..n) = n
    BY <1>1, FS_Interval
  <1>5. SetToSeq(S) \in Surjection(1..n, S)
    BY <1>3, <1>4, FS_Injection
  <1> HIDE DEF n
  <1>6. \A f \in [1..n -> S] : f \in Seq(Job) /\ Len(f) = n
    BY <1>1
  <1> QED
    BY <1>2, <1>5, <1>6 DEF In, Surjection

-----------------------------------------------------------------------------
(* Transactions.                                                           *)

LEMMA SingletonUnion ==
    ASSUME NEW S, IsFiniteSet(S), NEW x PROVE IsFiniteSet(S \cup {x})
  BY FS_AddElement

LEMMA PutType ==
    ASSUME NEW S, IsFiniteSet(S), \A t, u \in S : t.id = u.id => t = u, NEW x
    PROVE  /\ IsFiniteSet(Put(S, x))
           /\ \A t, u \in Put(S, x) : t.id = u.id => t = u
           /\ \A T : S \subseteq T /\ x \in T => Put(S, x) \subseteq T
  <1>1. IsFiniteSet({y \in S : y.id # x.id})
    BY FS_Subset
  <1>2. IsFiniteSet(Put(S, x))
    BY <1>1, SingletonUnion DEF Put
  <1> QED
    BY <1>2 DEF Put

LEMMA Outcomes ==
    /\ Refused.row = row /\ Refused.ok = FALSE
    /\ \A r : Wrote(r).row = r /\ Wrote(r).ok = TRUE
  BY DEF Wrote, Refused

LEMMA TreatyRow ==
    ASSUME RowType(row), NEW j \in TreatyJobs
    PROVE  RowType(ApplyTreaty(j).row) /\ ApplyTreaty(j).ok \in BOOLEAN
  <1> DEFINE closed(x) == IF x.id = j.sup /\ x.st = "ACTIVE" THEN [x EXCEPT !.st = "EXPIRED"] ELSE x
             base == {closed(x) : x \in row.treaties}
             ts == Put(base, j.t)
  <1>1. j.t \in Treaty
    BY DEF TreatyJobs
  <1>2. \A x \in Treaty : closed(x) \in Treaty /\ closed(x).id = x.id
    BY DEF Treaty, TreatyType
  <1>3. IsFiniteSet(base)
    <2> DEFINE f == [x \in row.treaties |-> closed(x)]
    <2>1. f \in [row.treaties -> base] /\ \A y \in base : \E x \in row.treaties : f[x] = y
      OBVIOUS
    <2> HIDE DEF f, base
    <2> QED
      BY <2>1, ImageFinite DEF RowType
  <1>4. base \subseteq Treaty /\ \A t, u \in base : t.id = u.id => t = u
    <2> HIDE DEF closed
    <2>1. row.treaties \subseteq Treaty /\ \A t, u \in row.treaties : t.id = u.id => t = u
      BY DEF RowType
    <2> QED
      BY <1>2, <2>1
  <1> HIDE DEF base
  <1>5. ts \subseteq Treaty /\ IsFiniteSet(ts) /\ \A t, u \in ts : t.id = u.id => t = u
    BY <1>1, <1>3, <1>4, PutType
  <1> HIDE DEF ts
  <1>6. \A S : S \subseteq Treaty /\ IsFiniteSet(S) /\ (\A t, u \in S : t.id = u.id => t = u)
               => RowType([row EXCEPT !.treaties = S])
    BY DEF RowType
  <1>7. /\ ApplyTreaty(j).row \in {row, [row EXCEPT !.treaties = ts], [row EXCEPT !.treaties = base]}
        /\ ApplyTreaty(j).ok \in BOOLEAN
    <2> DEFINE insert == j.from = "PROPOSED" /\ j.t.st = "PROPOSED"
               old == {x \in row.treaties : x.id = j.t.id}
    <2>1. ApplyTreaty(j) \in {Wrote(row), Refused, Wrote([row EXCEPT !.treaties = ts]), Wrote([row EXCEPT !.treaties = base])}
      <3>1. CASE insert /\ old # {}
        BY <3>1 DEF ApplyTreaty
      <3>2. CASE ~(insert /\ old # {})
                 /\ ((insert /\ old = {}) \/ (~insert /\ j.t \notin row.treaties /\ \E x \in old : x.st = j.from))
        BY <3>2 DEF ApplyTreaty, ts, base
      <3>3. CASE ~(insert /\ old # {})
                 /\ ~((insert /\ old = {}) \/ (~insert /\ j.t \notin row.treaties /\ \E x \in old : x.st = j.from))
        BY <3>3 DEF ApplyTreaty, ts, base
      <3> QED
        BY <3>1, <3>2, <3>3
    <2> QED
      BY <2>1, Outcomes
  <1> QED
    BY <1>3, <1>4, <1>5, <1>6, <1>7

LEMMA OfferRow ==
    ASSUME RowType(row), NEW S, S \subseteq Offer, IsFiniteSet(S) PROVE RowType([row EXCEPT !.offers = S])
  BY DEF RowType

LEMMA OffersPut ==
    ASSUME RowType(row), NEW o \in Offer
    PROVE  RowType([row EXCEPT !.offers = Put(row.offers, o)]) /\ RowType([row EXCEPT !.offers = row.offers \cup {o}])
  <1>1. row.offers \subseteq Offer /\ IsFiniteSet(row.offers)
    BY DEF RowType
  <1>2. Put(row.offers, o) \subseteq Offer /\ row.offers \cup {o} \subseteq Offer
    BY <1>1 DEF Put
  <1>3. IsFiniteSet({x \in row.offers : x.id # o.id})
    BY <1>1, FS_Subset
  <1>4. IsFiniteSet(Put(row.offers, o)) /\ IsFiniteSet(row.offers \cup {o})
    BY <1>1, <1>3, SingletonUnion DEF Put
  <1> QED
    BY <1>2, <1>4, OfferRow

LEMMA RunType ==
    ASSUME RowType(row), NEW j \in Job, NEW afford \in BOOLEAN
    PROVE  RowType(Run(j, afford).row) /\ Run(j, afford).ok \in BOOLEAN
  <1>1. CASE j \in TreatyJobs
    <2>1. j.k = "Treaty"
      BY <1>1 DEF TreatyJobs
    <2> QED
      BY <1>1, <2>1, TreatyRow DEF Run
  <1>2. CASE j \in OfferJobs
    <2>1. j.k = "Offer" /\ j.t \in Offer
      BY <1>2 DEF OfferJobs
    <2> DEFINE a == [row EXCEPT !.offers = row.offers \cup {j.t}]
               b == [row EXCEPT !.offers = Put(row.offers, j.t)]
    <2>2. ApplyOffer(j) \in {Wrote(row), Refused, Wrote(a), Wrote(b)}
      BY DEF ApplyOffer
    <2>3. Run(j, afford) = ApplyOffer(j)
      BY <2>1 DEF Run
    <2>4. RowType(a) /\ RowType(b)
      BY <2>1, OffersPut
    <2> HIDE DEF a, b
    <2> QED
      BY <2>2, <2>3, <2>4, Outcomes
  <1>3. CASE j \in AcceptJobs
    <2>1. j.k = "Accept" /\ j.t \in Offer
      BY <1>3 DEF AcceptJobs
    <2> DEFINE a == row
               b == [row EXCEPT !.offers = Put(row.offers, j.t)]
    <2>2. Accept(j, afford) \in {Wrote(row), Refused, Wrote(b)}
      BY DEF Accept
    <2>3. Run(j, afford) = Accept(j, afford)
      BY <2>1 DEF Run
    <2>4. RowType(a) /\ RowType(b)
      BY <2>1, OffersPut
    <2> HIDE DEF a, b
    <2> QED
      BY <2>2, <2>3, <2>4, Outcomes
  <1>4. CASE j \in {EnterJob, LeaveJob}
    <2>1. j.k \in {"Enter", "Leave"}
      BY <1>4 DEF EnterJob, LeaveJob, UnitJob
    <2>2. Run(j, afford) \in {Wrote(row), Refused, Wrote([row EXCEPT !.inside = TRUE]), Wrote([row EXCEPT !.inside = FALSE])}
      BY <2>1 DEF Run, Enter
    <2>3. \A b \in BOOLEAN : RowType([row EXCEPT !.inside = b])
      BY DEF RowType
    <2> QED
      BY <2>2, <2>3, Outcomes
  <1> QED
    BY <1>1, <1>2, <1>3, <1>4 DEF Job

-----------------------------------------------------------------------------
(* Messages.                                                               *)

LEMMA Sent ==
    ASSUME InboxType, NEW m \in Message, Send(m)
    PROVE  /\ InboxType' /\ Len(inbox') \in {Len(inbox), Len(inbox) + 1}
           /\ \A i \in 1..Len(inbox) : inbox'[i] = inbox[i]
           /\ \A i \in 1..Len(inbox') : i \notin 1..Len(inbox) => i = Len(inbox) + 1 /\ inbox'[i] = m
  <1>1. inbox \in Seq(Message) /\ Len(inbox) \in Nat /\ InboxSize \in Nat /\ Len(inbox) <= InboxSize
    BY ConstantsAssumption DEF InboxType
  <1>2. CASE Len(inbox) < InboxSize
    <2>1. inbox' = Append(inbox, m)
      BY <1>2 DEF Send
    <2> QED
      BY <1>1, <1>2, <2>1 DEF InboxType
  <1>3. CASE ~(Len(inbox) < InboxSize)
    <2>1. inbox' = inbox
      BY <1>3 DEF Send
    <2> QED
      BY <1>1, <2>1 DEF InboxType
  <1> QED
    BY <1>2, <1>3

LEMMA Received ==
    ASSUME InboxType, inbox # <<>>, inbox' = Tail(inbox)
    PROVE  /\ InboxType' /\ Head(inbox) = inbox[1] /\ Head(inbox) \in Message
           /\ Len(inbox) >= 1 /\ Len(inbox') = Len(inbox) - 1
           /\ \A i \in 1..Len(inbox') : inbox'[i] = inbox[i + 1]
  <1>1. inbox \in Seq(Message) /\ InboxSize \in Nat /\ Len(inbox) <= InboxSize
    BY ConstantsAssumption DEF InboxType
  <1> QED
    BY <1>1 DEF InboxType

LEMMA Taken ==
    ASSUME QueueType, NEW k \in Key, queue[k] # <<>>, queue' = [queue EXCEPT ![k] = Tail(@)]
    PROVE  /\ QueueType' /\ Head(queue[k]) = queue[k][1] /\ Head(queue[k]) \in Item
           /\ Head(queue[k]).job \in Job /\ Head(queue[k]).job.key = k
           /\ Len(queue[k]) >= 1 /\ Len(queue'[k]) = Len(queue[k]) - 1
           /\ \A i \in 1..Len(queue'[k]) : queue'[k][i] = queue[k][i + 1]
           /\ \A q \in Key \ {k} : queue'[q] = queue[q]
  <1>1. queue[k] \in Seq(Item) /\ \A i \in 1..Len(queue[k]) : queue[k][i].job.key = k
    BY DEF QueueType
  <1>2. queue'[k] = Tail(queue[k]) /\ \A q \in Key \ {k} : queue'[q] = queue[q]
    BY DEF QueueType
  <1>3. /\ Tail(queue[k]) \in Seq(Item) /\ Len(Tail(queue[k])) = Len(queue[k]) - 1 /\ Len(queue[k]) >= 1
        /\ \A i \in 1..Len(Tail(queue[k])) : Tail(queue[k])[i] = queue[k][i + 1]
        /\ Head(queue[k]) = queue[k][1] /\ queue[k][1] \in Item
    BY <1>1
  <1>4. \A i \in 1..Len(Tail(queue[k])) : i + 1 \in 1..Len(queue[k])
    BY <1>1, <1>3
  <1>5. \A q \in Key : \A i \in 1..Len(queue'[q]) : queue'[q][i].job.key = q
    BY <1>1, <1>2, <1>3, <1>4 DEF QueueType
  <1>6. queue' \in [Key -> Seq(Item)]
    BY <1>3 DEF QueueType
  <1>7. queue[k][1].job \in Job /\ queue[k][1].job.key = k
    BY <1>1, <1>3 DEF Item
  <1> QED
    BY <1>2, <1>3, <1>5, <1>6, <1>7 DEF QueueType

-----------------------------------------------------------------------------
(* An order about treaties is alone: its pair is reserved until its answer *)
(* is handled, so the treaties it was given for are still those of the     *)
(* loop, and it does not take the alliance away, but by superseding it.    *)

OrderAt(i) == i \in 1..Len(queue["treaty"]) /\ queue["treaty"][i].job.order
BoxAt(i) == i \in 1..Len(inbox) /\ inbox[i].job.k = "Treaty" /\ inbox[i].job.order
Harmless(j) == \A o \in pacts : o.id = j.t.id /\ AllowsGarrison(o) => AllowsGarrison(j.t)

OneOrder ==
  /\ "treaty" \notin busy => \A i \in Nat : ~OrderAt(i) /\ ~BoxAt(i)
  /\ \A i \in Nat : OrderAt(i) => Harmless(queue["treaty"][i].job)
  /\ \A i \in Nat : BoxAt(i) => Harmless(inbox[i].job)
  /\ \A i, k \in Nat : OrderAt(i) /\ OrderAt(k) => i = k
  /\ \A i, k \in Nat : BoxAt(i) /\ BoxAt(k) => i = k
  /\ \A i, k \in Nat : ~(OrderAt(i) /\ BoxAt(k))

\* Jobs that are not orders change nothing of it, nor does the loop while the
\* pair is free.
LEMMA NoNewOrder ==
    ASSUME QueueType, OneOrder, NEW jobs \in Jobs, OfKeys(jobs), Submit(jobs), inbox' = inbox,
           \A i \in 1..Len(jobs["treaty"]) : ~jobs["treaty"][i].order,
           "treaty" \in busy <=> "treaty" \in busy',
           "treaty" \in busy => pacts' = pacts
    PROVE  OneOrder'
  <1>1. "treaty" \in Key
    BY DEF Key
  <1>2. queue["treaty"] \in Seq(Item) /\ queue'["treaty"] \in Seq(Item)
    BY <1>1, Submitted DEF QueueType
  <1>3. \A i \in Nat : OrderAt(i)' => OrderAt(i) /\ queue'["treaty"][i] = queue["treaty"][i]
    <2> SUFFICES ASSUME NEW i \in Nat, OrderAt(i)'
                 PROVE  OrderAt(i) /\ queue'["treaty"][i] = queue["treaty"][i]
      OBVIOUS
    <2>1. i \in 1..Len(queue'["treaty"]) /\ queue'["treaty"][i].job.order
      BY DEF OrderAt
    <2>2. i \in 1..Len(queue["treaty"])
      <3> SUFFICES ASSUME i \notin 1..Len(queue["treaty"]) PROVE FALSE
        OBVIOUS
      <3>1. i \in (Len(queue["treaty"]) + 1)..Len(queue'["treaty"])
        BY <1>2, <2>1
      <3>2. /\ i - Len(queue["treaty"]) \in 1..Len(jobs["treaty"])
            /\ queue'["treaty"][i].job = jobs["treaty"][i - Len(queue["treaty"])]
        BY <1>1, <3>1, Submitted
      <3> QED
        BY <2>1, <3>2
    <2>3. queue'["treaty"][i] = queue["treaty"][i]
      BY <1>1, <2>2, Submitted
    <2> QED
      BY <2>1, <2>2, <2>3 DEF OrderAt
  <1>4. \A i : BoxAt(i)' <=> BoxAt(i)
    BY DEF BoxAt
  <1>5. CASE "treaty" \in busy
    BY <1>3, <1>4, <1>5 DEF OneOrder, Harmless
  <1>6. CASE "treaty" \notin busy
    BY <1>3, <1>4, <1>6 DEF OneOrder
  <1> QED
    BY <1>5, <1>6

\* The order of a free pair is the only one.
LEMMA NewOrder ==
    ASSUME QueueType, OneOrder, NEW j \in TreatyJobs, Free("treaty"), TreatyOrder(j), Harmless(j)
    PROVE  QueueType' /\ OneOrder'
  <1>1. "treaty" \in Key /\ j \in Job /\ j.key = "treaty"
    BY DEF Key, Job, TreatyJobs
  <1>2. Only(j) \in Jobs /\ OfKeys(Only(j)) /\ Only(j)["treaty"] = <<j>> /\ Submit(Only(j))
    BY <1>1, OnlyJobs DEF TreatyOrder
  <1>3. queue["treaty"] \in Seq(Item) /\ queue'["treaty"] \in Seq(Item) /\ QueueType'
    BY <1>1, <1>2, Submitted DEF QueueType
  <1>4. \A i \in Nat : ~OrderAt(i) /\ ~BoxAt(i)
    BY DEF OneOrder, Free
  <1>5. \A i \in Nat : OrderAt(i)' => i = Len(queue["treaty"]) + 1 /\ queue'["treaty"][i].job = j
    <2> SUFFICES ASSUME NEW i \in Nat, OrderAt(i)'
                 PROVE  i = Len(queue["treaty"]) + 1 /\ queue'["treaty"][i].job = j
      OBVIOUS
    <2>1. i \in 1..Len(queue'["treaty"]) /\ queue'["treaty"][i].job.order
      BY DEF OrderAt
    <2>2. i \notin 1..Len(queue["treaty"])
      <3> SUFFICES ASSUME i \in 1..Len(queue["treaty"]) PROVE FALSE
        OBVIOUS
      <3>1. queue'["treaty"][i] = queue["treaty"][i]
        BY <1>1, <1>2, Submitted
      <3> QED
        BY <1>4, <2>1, <3>1 DEF OrderAt
    <2>3. i \in (Len(queue["treaty"]) + 1)..Len(queue'["treaty"])
      BY <1>3, <2>1, <2>2
    <2> DEFINE n == i - Len(queue["treaty"])
    <2>4. n \in 1..Len(<<j>>) /\ queue'["treaty"][i].job = <<j>>[n]
      <3>1. n \in 1..Len(Only(j)["treaty"]) /\ queue'["treaty"][i].job = Only(j)["treaty"][n]
        BY <1>1, <1>2, <2>3, Submitted
      <3> HIDE DEF n
      <3> QED
        BY <1>2, <3>1
    <2>5. Len(<<j>>) = 1 /\ <<j>>[1] = j /\ Len(queue["treaty"]) \in Nat
      BY <1>3
    <2>6. i - Len(queue["treaty"]) = 1
      BY <2>4, <2>5
    <2>7. i = Len(queue["treaty"]) + 1
      BY <2>5, <2>6
    <2> QED
      BY <2>4, <2>5, <2>6, <2>7
  <1>6. pacts' = pacts /\ inbox' = inbox /\ "treaty" \in busy'
    BY DEF TreatyOrder, Outside
  <1>7. \A i \in Nat : ~BoxAt(i)'
    <2>1. \A i : BoxAt(i)' <=> BoxAt(i)
      BY <1>6 DEF BoxAt
    <2> QED
      BY <1>4, <2>1
  <1>8. \A o \in pacts' : o.id = j.t.id /\ AllowsGarrison(o) => AllowsGarrison(j.t)
    BY <1>6 DEF Harmless
  <1>9. \A i \in Nat : OrderAt(i)' => (\A o \in pacts' : o.id = queue'["treaty"][i].job.t.id /\ AllowsGarrison(o)
                                                         => AllowsGarrison(queue'["treaty"][i].job.t))
    BY <1>5, <1>8
  <1>10. \A i \in Nat : OrderAt(i)' => Harmless(queue["treaty"][i].job)'
    BY <1>9 DEF Harmless
  <1>11. \A i, k \in Nat : OrderAt(i)' /\ OrderAt(k)' => i = k
    BY <1>5
  <1>12. /\ \A i \in Nat : BoxAt(i)' => Harmless(inbox[i].job)'
         /\ \A i, k \in Nat : BoxAt(i)' /\ BoxAt(k)' => i = k
         /\ \A i, k \in Nat : ~(OrderAt(i)' /\ BoxAt(k)')
    BY <1>7
  <1> QED
    BY <1>3, <1>6, <1>10, <1>11, <1>12 DEF OneOrder

\* The loop takes the head of its inbox, and it is not the answer to an order.
LEMMA NextMessage ==
    ASSUME InboxType, OneOrder, inbox # <<>>, inbox' = Tail(inbox), queue' = queue, pacts' = pacts,
           "treaty" \in busy <=> "treaty" \in busy'
    PROVE  OneOrder'
  <1>1. /\ Len(inbox) \in Nat /\ Len(inbox) >= 1 /\ Len(inbox') = Len(inbox) - 1
        /\ \A i \in 1..Len(inbox') : inbox'[i] = inbox[i + 1]
    BY Received DEF InboxType
  <1>2. \A i \in Nat : BoxAt(i)' => i + 1 \in Nat /\ BoxAt(i + 1) /\ inbox'[i] = inbox[i + 1]
    <2> SUFFICES ASSUME NEW i \in Nat, BoxAt(i)'
                 PROVE  i + 1 \in Nat /\ BoxAt(i + 1) /\ inbox'[i] = inbox[i + 1]
      OBVIOUS
    <2>1. i \in 1..Len(inbox') /\ inbox'[i].job.k = "Treaty" /\ inbox'[i].job.order
      BY DEF BoxAt
    <2>2. i + 1 \in 1..Len(inbox)
      BY <1>1, <2>1
    <2> QED
      BY <1>1, <2>1, <2>2 DEF BoxAt
  <1>3. \A i : OrderAt(i)' <=> OrderAt(i)
    BY DEF OrderAt
  <1>4. /\ \A i \in Nat : OrderAt(i)' => Harmless(queue["treaty"][i].job)'
        /\ \A i, k \in Nat : OrderAt(i)' /\ OrderAt(k)' => i = k
    BY <1>3 DEF OneOrder, Harmless
  <1>5. \A i \in Nat : BoxAt(i)' => Harmless(inbox[i].job)'
    BY <1>2 DEF OneOrder, Harmless
  <1>6. /\ \A i, k \in Nat : BoxAt(i)' /\ BoxAt(k)' => i = k
        /\ \A i, k \in Nat : ~(OrderAt(i)' /\ BoxAt(k)')
    <2>1. \A i, k \in Nat : i + 1 = k + 1 => i = k
      OBVIOUS
    <2>2. \A i, k \in Nat : BoxAt(i)' /\ BoxAt(k)' => i + 1 = k + 1
      BY <1>2 DEF OneOrder
    <2>3. \A i, k \in Nat : ~(OrderAt(i)' /\ BoxAt(k)')
      BY <1>2, <1>3 DEF OneOrder
    <2> QED
      BY <2>1, <2>2, <2>3
  <1>7. "treaty" \notin busy' => \A i \in Nat : ~OrderAt(i)' /\ ~BoxAt(i)'
    BY <1>2, <1>3 DEF OneOrder
  <1> QED
    BY <1>4, <1>5, <1>6, <1>7 DEF OneOrder

\* The loop takes the answer to the order: there was no other.
LEMMA OrderAnswered ==
    ASSUME InboxType, OneOrder, inbox # <<>>, inbox' = Tail(inbox), queue' = queue, BoxAt(1)
    PROVE  OneOrder'
  <1>1. /\ Len(inbox) \in Nat /\ Len(inbox) >= 1 /\ Len(inbox') = Len(inbox) - 1
        /\ \A i \in 1..Len(inbox') : inbox'[i] = inbox[i + 1]
    BY Received DEF InboxType
  <1>2. \A i \in Nat : ~BoxAt(i)'
    <2> SUFFICES ASSUME NEW i \in Nat, BoxAt(i)' PROVE FALSE
      OBVIOUS
    <2>1. i \in 1..Len(inbox') /\ inbox'[i].job.k = "Treaty" /\ inbox'[i].job.order
      BY DEF BoxAt
    <2>2. i + 1 \in 1..Len(inbox) /\ i + 1 # 1
      BY <1>1, <2>1
    <2>3. BoxAt(i + 1)
      BY <1>1, <2>1, <2>2 DEF BoxAt
    <2> QED
      BY <2>2, <2>3 DEF OneOrder
  <1>3. \A i \in Nat : ~OrderAt(i)'
    <2>1. \A i : OrderAt(i)' <=> OrderAt(i)
      BY DEF OrderAt
    <2> QED
      BY <2>1 DEF OneOrder
  <1> QED
    BY <1>2, <1>3 DEF OneOrder

\* A worker finishes the head of its queue: an order becomes its answer, or is lost.
LEMMA JobFinished ==
    ASSUME QueueType, InboxType, OneOrder, NEW k \in Key, queue[k] # <<>>,
           queue' = [queue EXCEPT ![k] = Tail(@)], pacts' = pacts, busy' = busy,
           inbox' = inbox \/ \E ok \in BOOLEAN : Send(Answer(Head(queue[k]).job, ok))
    PROVE  QueueType' /\ InboxType' /\ OneOrder'
  <1> DEFINE src(i) == IF k = "treaty" THEN i + 1 ELSE i
             job == Head(queue[k]).job
  <1>1. /\ QueueType' /\ job \in Job /\ job.key = k /\ job = queue[k][1].job
        /\ Len(queue[k]) \in Nat /\ Len(queue[k]) >= 1 /\ Len(queue'[k]) = Len(queue[k]) - 1
        /\ \A i \in 1..Len(queue'[k]) : queue'[k][i] = queue[k][i + 1]
        /\ \A q \in Key \ {k} : queue'[q] = queue[q]
    <2>1. Len(queue[k]) \in Nat
      BY DEF QueueType
    <2> QED
      BY <2>1, Taken
  <1>2. "treaty" \in Key
    BY DEF Key
  <1>3. ASSUME NEW i \in Nat, OrderAt(i)'
        PROVE  src(i) \in Nat /\ i # 0 /\ OrderAt(src(i)) /\ queue'["treaty"][i].job = queue["treaty"][src(i)].job
    <2>1. i \in 1..Len(queue'["treaty"]) /\ queue'["treaty"][i].job.order
      BY <1>3 DEF OrderAt
    <2>2. CASE k = "treaty"
      <3>1. i + 1 \in 1..Len(queue["treaty"]) /\ i # 0
        BY <1>1, <2>1, <2>2
      <3> QED
        BY <1>1, <2>1, <2>2, <3>1 DEF OrderAt
    <2>3. CASE k # "treaty"
      <3>1. queue'["treaty"] = queue["treaty"]
        BY <1>1, <1>2, <2>3
      <3> QED
        BY <2>1, <2>3, <3>1 DEF OrderAt
    <2> QED
      BY <2>2, <2>3
  <1>4. InboxType' /\ \A i \in Nat : BoxAt(i)' =>
          \/ BoxAt(i) /\ inbox'[i] = inbox[i]
          \/ k = "treaty" /\ i = Len(inbox) + 1 /\ OrderAt(1) /\ inbox'[i].job = queue["treaty"][1].job
    <2>1. CASE inbox' = inbox
      BY <2>1 DEF BoxAt, InboxType
    <2>2. CASE \E ok \in BOOLEAN : Send(Answer(job, ok))
      <3>1. PICK ok \in BOOLEAN : Send(Answer(job, ok))
        BY <2>2
      <3>2. Answer(job, ok) \in Message /\ Answer(job, ok).job = job
        BY <1>1 DEF Answer, Message
      <3>3. /\ InboxType'
            /\ \A i \in 1..Len(inbox) : inbox'[i] = inbox[i]
            /\ \A i \in 1..Len(inbox') : i \notin 1..Len(inbox) => i = Len(inbox) + 1 /\ inbox'[i] = Answer(job, ok)
        BY <3>1, <3>2, Sent
      <3>4. ASSUME NEW i \in Nat, BoxAt(i)', i \notin 1..Len(inbox)
            PROVE  k = "treaty" /\ i = Len(inbox) + 1 /\ OrderAt(1) /\ inbox'[i].job = queue["treaty"][1].job
        <4>1. i \in 1..Len(inbox') /\ inbox'[i].job.k = "Treaty" /\ inbox'[i].job.order
          BY <3>4 DEF BoxAt
        <4>2. i = Len(inbox) + 1 /\ inbox'[i].job = job
          BY <3>2, <3>3, <3>4, <4>1
        <4>3. k = "treaty"
          BY <1>1, <4>1, <4>2, JobFacts
        <4>4. 1 \in 1..Len(queue[k])
          BY <1>1
        <4> QED
          BY <1>1, <4>1, <4>2, <4>3, <4>4 DEF OrderAt
      <3>5. ASSUME NEW i \in Nat, BoxAt(i)', i \in 1..Len(inbox) PROVE BoxAt(i) /\ inbox'[i] = inbox[i]
        BY <3>3, <3>5 DEF BoxAt
      <3> QED
        BY <3>3, <3>4, <3>5
    <2> QED
      BY <2>1, <2>2
  <1> HIDE DEF job
  <1>5. \A i, n \in Nat : src(i) = src(n) => i = n
    OBVIOUS
  <1>6. \A i \in Nat : k = "treaty" /\ src(i) = 1 => i = 0
    OBVIOUS
  <1> HIDE DEF src
  <1>7. "treaty" \notin busy' => \A i \in Nat : ~OrderAt(i)' /\ ~BoxAt(i)'
    BY <1>3, <1>4 DEF OneOrder
  <1>8. \A i \in Nat : OrderAt(i)' => Harmless(queue["treaty"][i].job)'
    BY <1>3 DEF OneOrder, Harmless
  <1>9. \A i \in Nat : BoxAt(i)' => Harmless(inbox[i].job)'
    BY <1>4 DEF OneOrder, Harmless
  <1>10. \A i, n \in Nat : OrderAt(i)' /\ OrderAt(n)' => i = n
    BY <1>3, <1>5 DEF OneOrder
  <1>11. \A i, n \in Nat : BoxAt(i)' /\ BoxAt(n)' => i = n
    BY <1>4 DEF OneOrder
  <1>12. \A i, n \in Nat : ~(OrderAt(i)' /\ BoxAt(n)')
    BY <1>3, <1>4, <1>6 DEF OneOrder
  <1> QED
    BY <1>1, <1>4, <1>7, <1>8, <1>9, <1>10, <1>11, <1>12 DEF OneOrder

\* A worker that lost the answer keeps the job, and only marks it.
LEMMA JobMarked ==
    ASSUME QueueType, OneOrder, NEW k \in Key, queue[k] # <<>>, queue' = [queue EXCEPT ![k][1].done = TRUE],
           inbox' = inbox, pacts' = pacts, busy' = busy
    PROVE  QueueType' /\ OneOrder'
  <1>1. queue[k] \in Seq(Item) /\ Len(queue[k]) >= 1 /\ queue[k][1] \in Item
    BY DEF QueueType
  <1> DEFINE new == [queue[k] EXCEPT ![1].done = TRUE]
  <1>2. queue' = [queue EXCEPT ![k] = new]
    OBVIOUS
  <1>3. new \in Seq(Item) /\ Len(new) = Len(queue[k]) /\ \A i \in 1..Len(queue[k]) : new[i].job = queue[k][i].job
    <2>1. [queue[k][1] EXCEPT !.done = TRUE] \in Item /\ [queue[k][1] EXCEPT !.done = TRUE].job = queue[k][1].job
      BY <1>1 DEF Item
    <2> DEFINE it == [queue[k][1] EXCEPT !.done = TRUE]
    <2>2. new = [queue[k] EXCEPT ![1] = it]
      OBVIOUS
    <2>3. it \in Item /\ it.job = queue[k][1].job
      BY <2>1
    <2> HIDE DEF new, it
    <2> QED
      BY <1>1, <2>2, <2>3
  <1> HIDE DEF new
  <1>4. \A q \in Key : queue'[q] \in Seq(Item) /\ Len(queue'[q]) = Len(queue[q])
                       /\ \A i \in 1..Len(queue[q]) : queue'[q][i].job = queue[q][i].job
    BY <1>2, <1>3 DEF QueueType
  <1>5. QueueType'
    BY <1>2, <1>3, <1>4 DEF QueueType
  <1>6. \A i : (OrderAt(i)' <=> OrderAt(i)) /\ (OrderAt(i) => queue'["treaty"][i].job = queue["treaty"][i].job)
    <2>1. "treaty" \in Key
      BY DEF Key
    <2> QED
      BY <1>4, <2>1 DEF OrderAt
  <1>7. \A i : BoxAt(i)' <=> BoxAt(i)
    BY DEF BoxAt
  <1>8. /\ \A i \in Nat : OrderAt(i)' => Harmless(queue["treaty"][i].job)'
        /\ \A i \in Nat : BoxAt(i)' => Harmless(inbox[i].job)'
    BY <1>6, <1>7 DEF OneOrder, Harmless
  <1> QED
    BY <1>5, <1>6, <1>7, <1>8 DEF OneOrder

-----------------------------------------------------------------------------
(* One step of each actor.                                                 *)

Inv == TypeInv /\ OneOrder /\ GuestsLeave

LEMMA TreatyOrderStep ==
    ASSUME Inv, NEW j \in TreatyJobs, Free("treaty"), TreatyOrder(j), Harmless(j) PROVE Inv'
  <1>1. QueueType' /\ OneOrder'
    BY NewOrder DEF Inv, TypeInv
  <1>2. LoopType' /\ InboxType' /\ RowType(row)'
    BY DEF Inv, TypeInv, LoopType, InboxType, RowType, TreatyOrder, Outside
  <1>3. GuestsLeave'
    BY DEF Inv, GuestsLeave, Allied, TreatyOrder
  <1> QED
    BY <1>1, <1>2, <1>3 DEF Inv, TypeInv

\* Jobs of another key, submitted while the treaties stay.
LEMMA OtherJobStep ==
    ASSUME Inv, NEW j \in Job, j.key # "treaty", Submit(Only(j)), inbox' = inbox, pacts' = pacts,
           "treaty" \in busy <=> "treaty" \in busy'
    PROVE  QueueType' /\ InboxType' /\ OneOrder'
  <1>1. "treaty" \in Key
    BY DEF Key
  <1>2. Only(j) \in Jobs /\ OfKeys(Only(j)) /\ Only(j)["treaty"] = <<>>
    BY <1>1, OnlyJobs
  <1>3. QueueType' /\ InboxType'
    BY <1>2, Submitted DEF Inv, TypeInv, InboxType
  <1>4. \A i \in 1..Len(Only(j)["treaty"]) : ~Only(j)["treaty"][i].order
    BY <1>2
  <1> QED
    BY <1>2, <1>3, <1>4, NoNewOrder DEF Inv, TypeInv

LEMMA TradeOrderStep ==
    ASSUME Inv, NEW j \in OfferJobs \cup AcceptJobs, TradeOrder(j) PROVE Inv'
  <1>1. j \in Job /\ j.key # "treaty"
    BY DEF Job, OfferJobs, AcceptJobs
  <1>2. Submit(Only(j)) /\ inbox' = inbox /\ pacts' = pacts /\ ("treaty" \in busy <=> "treaty" \in busy')
    BY DEF TradeOrder, Outside
  <1>3. QueueType' /\ InboxType' /\ OneOrder'
    BY <1>1, <1>2, OtherJobStep
  <1>4. LoopType' /\ RowType(row)'
    BY DEF Inv, TypeInv, LoopType, RowType, TradeOrder, Outside
  <1>5. GuestsLeave'
    BY DEF Inv, GuestsLeave, Allied, TradeOrder
  <1> QED
    BY <1>3, <1>4, <1>5 DEF Inv, TypeInv

LEMMA UnitJobsTyped == EnterJob \in Job /\ LeaveJob \in Job /\ EnterJob.key # "treaty" /\ LeaveJob.key # "treaty"
  BY DEF Job, EnterJob, LeaveJob, UnitJob

LEMMA LeftType ==
    ASSUME LoopType, NEW tile \in BOOLEAN
    PROVE  /\ Left(tile) \in [entering : BOOLEAN, inside : BOOLEAN, leaving : BOOLEAN]
           /\ ~Left(tile).inside \/ Left(tile).leaving
  BY DEF LoopType, Left

LEMMA LeavesStep ==
    ASSUME Inv, NEW tile \in BOOLEAN, guest' = Left(tile), Submit(LeftJobs(tile)), Outside,
           UNCHANGED <<pacts, offers, busy, failed, rejected, past, slipped>>
    PROVE  Inv'
  <1>1. QueueType' /\ InboxType' /\ OneOrder'
    <2>1. CASE tile
      <3>1. Submit(Only(LeaveJob)) /\ inbox' = inbox
        BY <2>1 DEF LeftJobs, Outside
      <3> QED
        BY <3>1, UnitJobsTyped, OtherJobStep
    <2>2. CASE ~tile
      <3>1. Submit(None) /\ inbox' = inbox
        BY <2>2 DEF LeftJobs, Outside
      <3>2. None["treaty"] = <<>>
        BY NoneJobs DEF Key
      <3>3. \A i \in 1..Len(None["treaty"]) : ~None["treaty"][i].order
        BY <3>2
      <3>4. QueueType' /\ InboxType'
        BY <3>1, NoneJobs, Submitted DEF Inv, TypeInv, InboxType
      <3> QED
        BY <3>1, <3>3, <3>4, NoneJobs, NoNewOrder DEF Inv, TypeInv
    <2> QED
      BY <2>1, <2>2
  <1>2. LoopType' /\ RowType(row)'
    BY LeftType DEF Inv, TypeInv, LoopType, RowType, Outside
  <1>3. GuestsLeave'
    BY LeftType DEF Inv, TypeInv, GuestsLeave
  <1> QED
    BY <1>1, <1>2, <1>3 DEF Inv, TypeInv

LEMMA GarrisonStep == ASSUME Inv, GarrisonUnit PROVE Inv'
  <1>1. QueueType' /\ InboxType' /\ OneOrder'
    BY UnitJobsTyped, OtherJobStep DEF GarrisonUnit, Outside
  <1>2. LoopType' /\ RowType(row)'
    BY DEF Inv, TypeInv, LoopType, RowType, GarrisonUnit, Outside
  <1>3. GuestsLeave'
    BY DEF Inv, GuestsLeave, GarrisonUnit, TypeInv, LoopType
  <1> QED
    BY <1>1, <1>2, <1>3 DEF Inv, TypeInv

\* What does not touch the loop, the queue, the inbox and the rows.
LEMMA NothingMoves ==
    ASSUME Inv, UNCHANGED <<pacts, offers, busy, failed, guest, queue, inbox, row, slipped>>,
           rejected' \subseteq rejected
    PROVE  Inv'
  <1>1. TypeInv'
    BY DEF Inv, TypeInv, LoopType, QueueType, InboxType, RowType
  <1>2. OneOrder'
    BY DEF Inv, OneOrder, OrderAt, BoxAt, Harmless
  <1>3. GuestsLeave'
    BY DEF Inv, GuestsLeave, Allied
  <1> QED
    BY <1>1, <1>2, <1>3 DEF Inv

LEMMA TreatyOrdersStep ==
    ASSUME Inv, NEW p \in Player,
           \/ \E ty \in Types : ProposeTreaty(p, ty)
           \/ \E t \in pacts : CancelTreaty(p, t) \/ \E accept \in BOOLEAN : RespondTreaty(p, t, accept)
    PROVE  Inv'
  <1>1. ASSUME NEW ty \in Types, ProposeTreaty(p, ty) PROVE Inv'
    <2> DEFINE t == NewTreaty(Fresh, p, ty)
               j == TreatyJob(t, "PROPOSED", NoId, TRUE)
    <2>1. Fresh \in Nat /\ Fresh # NoId /\ \A o \in pacts : o.id # Fresh
      BY FreshId DEF Inv
    <2>2. ty \in DOMAIN Rank
      BY ConstantsAssumption
    <2>3. t \in Treaty /\ t.id = Fresh
      BY <2>1, <2>2 DEF Treaty, TreatyType, NewTreaty, OpenStates
    <2> HIDE DEF t
    <2>4. j \in TreatyJobs /\ j.t = t
      BY <2>3 DEF TreatyJobs, TreatyJob, OpenStates, NoId
    <2>5. Free("treaty") /\ TreatyOrder(j)
      BY <1>1 DEF ProposeTreaty, t
    <2> HIDE DEF j
    <2>6. Harmless(j)
      BY <2>1, <2>3, <2>4 DEF Harmless
    <2> QED
      BY <2>4, <2>5, <2>6, TreatyOrderStep
  <1>2. ASSUME NEW t \in pacts, NEW u \in Treaty, u.id = t.id, AllowsGarrison(t) => AllowsGarrison(u),
               NEW from \in OpenStates, NEW sup \in Nat, Free("treaty"), TreatyOrder(TreatyJob(u, from, sup, TRUE))
        PROVE  Inv'
    <2> DEFINE j == TreatyJob(u, from, sup, TRUE)
    <2>1. j \in TreatyJobs /\ j.t = u
      BY DEF TreatyJobs, TreatyJob
    <2> HIDE DEF j
    <2>2. Harmless(j)
      <3>1. \A o \in pacts : o.id = t.id => o = t
        BY DEF Inv, TypeInv, LoopType
      <3> QED
        BY <1>2, <2>1, <3>1 DEF Harmless
    <2>3. TreatyOrder(j)
      BY <1>2 DEF j
    <2> QED
      BY <1>2, <2>1, <2>2, <2>3, TreatyOrderStep
  <1>3. \A t \in pacts : t \in Treaty /\ t.st \in OpenStates
    BY DEF Inv, TypeInv, LoopType
  <1>4. NoId \in Nat /\ OpenStates = {"PROPOSED", "ACTIVE"}
    BY DEF NoId, OpenStates
  <1>5. ASSUME NEW t \in pacts, CancelTreaty(p, t) PROVE Inv'
    <2>1. CASE t.st = "PROPOSED" /\ TreatyOrder(TreatyJob([t EXCEPT !.st = "WITHDRAWN"], "PROPOSED", NoId, TRUE))
      <3> DEFINE u == [t EXCEPT !.st = "WITHDRAWN"]
      <3>1. u \in Treaty /\ u.id = t.id /\ ~AllowsGarrison(t)
        BY <1>3, <2>1 DEF Treaty, TreatyType, AllowsGarrison
      <3>2. Free("treaty") /\ TreatyOrder(TreatyJob(u, "PROPOSED", NoId, TRUE))
        BY <1>5, <2>1 DEF CancelTreaty
      <3> HIDE DEF u
      <3> QED
        BY <1>2, <1>4, <3>1, <3>2
    <2>2. CASE t.st = "ACTIVE" /\ TreatyOrder(TreatyJob([t EXCEPT !.brk = TRUE], "ACTIVE", NoId, TRUE))
      <3> DEFINE u == [t EXCEPT !.brk = TRUE]
      <3>1. u \in Treaty /\ u.id = t.id /\ (AllowsGarrison(t) => AllowsGarrison(u))
        BY <1>3, <2>2 DEF Treaty, TreatyType, AllowsGarrison
      <3>2. Free("treaty") /\ TreatyOrder(TreatyJob(u, "ACTIVE", NoId, TRUE))
        BY <1>5, <2>2 DEF CancelTreaty
      <3> HIDE DEF u
      <3> QED
        BY <1>2, <1>4, <3>1, <3>2
    <2> QED
      BY <1>5, <2>1, <2>2 DEF CancelTreaty
  <1>6. ASSUME NEW t \in pacts, NEW accept \in BOOLEAN, RespondTreaty(p, t, accept) PROVE Inv'
    <2> DEFINE u == [t EXCEPT !.st = IF accept THEN "ACTIVE" ELSE "REJECTED"]
               active == {o \in pacts : o.st = "ACTIVE"}
               sup == IF accept /\ active # {} THEN (CHOOSE o \in active : TRUE).id ELSE NoId
    <2>1. t.st = "PROPOSED" /\ t \in Treaty /\ t.by \in Player
      BY <1>3, <1>6 DEF RespondTreaty, Treaty
    <2>2. u \in Treaty /\ u.id = t.id /\ ~AllowsGarrison(t)
      BY <2>1 DEF Treaty, TreatyType, OpenStates, AllowsGarrison
    <2>3. sup \in Nat
      <3>1. active # {} => (CHOOSE o \in active : TRUE) \in pacts
        OBVIOUS
      <3>2. \A o \in pacts : o.id \in Nat
        BY <1>3 DEF Treaty, TreatyType
      <3> HIDE DEF active
      <3> QED
        BY <1>4, <3>1, <3>2
    <2>4. Free("treaty") /\ TreatyOrder(TreatyJob(u, "PROPOSED", sup, TRUE))
      BY <1>6 DEF RespondTreaty
    <2> HIDE DEF u, sup
    <2> QED
      BY <1>2, <1>4, <2>2, <2>3, <2>4
  <1> QED
    BY <1>1, <1>5, <1>6

LEMMA TradeOrdersStep ==
    ASSUME Inv, NEW p \in Player,
           ProposeTrade(p) \/ \E o \in offers : AcceptTrade(p, o) \/ CloseTrade(p, o)
    PROVE  Inv'
  <1>1. CASE ProposeTrade(p)
    <2> DEFINE o == [id |-> Fresh, by |-> p, st |-> "PROPOSED"]
               j == OfferJob(o, TRUE)
    <2>1. Fresh \in Nat
      BY FreshId DEF Inv
    <2>2. o \in Offer
      BY <2>1 DEF Offer
    <2>3. j \in OfferJobs
      BY <2>2 DEF OfferJobs, OfferJob
    <2>4. TradeOrder(j)
      BY <1>1 DEF ProposeTrade
    <2> HIDE DEF j
    <2> QED
      BY <2>3, <2>4, TradeOrderStep
  <1>2. \A o \in offers : o \in Offer
    BY DEF Inv, TypeInv, LoopType
  <1>3. ASSUME NEW o \in offers, AcceptTrade(p, o) PROVE Inv'
    <2> DEFINE u == [o EXCEPT !.st = "ACCEPTED"]
               j == AcceptJob(u)
    <2>1. u \in Offer /\ u.st = "ACCEPTED"
      BY <1>2 DEF Offer
    <2> HIDE DEF u
    <2>2. j \in AcceptJobs
      BY <2>1 DEF AcceptJobs, AcceptJob
    <2>3. TradeOrder(j)
      BY <1>3 DEF AcceptTrade, u
    <2> HIDE DEF j
    <2> QED
      BY <2>2, <2>3, TradeOrderStep
  <1>4. ASSUME NEW o \in offers, CloseTrade(p, o) PROVE Inv'
    <2> DEFINE u == [o EXCEPT !.st = IF o.by = p THEN "WITHDRAWN" ELSE "REJECTED"]
               j == OfferJob(u, TRUE)
    <2>1. u \in Offer
      BY <1>2 DEF Offer
    <2> HIDE DEF u
    <2>2. j \in OfferJobs
      BY <2>1 DEF OfferJobs, OfferJob
    <2>3. TradeOrder(j)
      BY <1>4 DEF CloseTrade, u
    <2> HIDE DEF j
    <2> QED
      BY <2>2, <2>3, TradeOrderStep
  <1> QED
    BY <1>1, <1>3, <1>4

LEMMA OrdersStep == ASSUME Inv, Orders PROVE Inv'
  BY TreatyOrdersStep, TradeOrdersStep, GarrisonStep, LeavesStep DEF Orders, UngarrisonUnit

LEMMA TimeStep == ASSUME Inv, Time PROVE Inv'
  <1>1. CASE Forgive
    BY <1>1, NothingMoves DEF Forgive, Outside
  <1>2. ASSUME NEW t \in pacts \cup offers, Lapse(t) PROVE Inv'
    BY <1>2, NothingMoves DEF Lapse, Reach, loop, Outside
  <1>3. ASSUME NEW t \in pacts, Expire(t) PROVE Inv'
    BY <1>3, NothingMoves DEF Expire, Reach, loop, Outside
  <1> QED
    BY <1>1, <1>2, <1>3 DEF Time

\* What a sweep submits: the closings given up, those of what is over, and the way
\* out of a guest whose alliance ended.
SweepJobs(tile) ==
  [k \in Key |-> SetToSeq({j \in failed : j.key = k})
                  \o SetToSeq({j \in Closings : j.key = k})
                  \o (IF Expelled THEN LeftJobs(tile)[k] ELSE <<>>)]

LEMMA SweepJobsAre ==
    ASSUME TypeInv, NEW tile \in BOOLEAN
    PROVE  /\ SweepJobs(tile) \in Jobs /\ OfKeys(SweepJobs(tile))
           /\ \A k \in Key : \A j : In(j, SweepJobs(tile)[k]) <=>
                (j \in failed \cup Closings /\ j.key = k) \/ (j = LeaveJob /\ k = "unit" /\ Expelled /\ tile)
           /\ \A j \in failed \cup Closings : j \in TreatyJobs \cup OfferJobs /\ ~j.order
           /\ Len(SweepJobs(tile)["unit"]) <= 1
  <1> DEFINE out == IF Expelled THEN LeftJobs(tile) ELSE None
  <1>1. Due \subseteq pacts /\ Falling \subseteq offers /\ IsFiniteSet(Due) /\ IsFiniteSet(Falling)
    <2>1. Due \subseteq pacts /\ Falling \subseteq offers
      BY DEF Due, Falling
    <2> QED
      BY <2>1, FS_Subset DEF TypeInv, LoopType
  <1>2. \A t \in Due : TreatyJob(Ended(t), t.st, NoId, FALSE) \in TreatyJobs
    <2> SUFFICES ASSUME NEW t \in Due PROVE TreatyJob(Ended(t), t.st, NoId, FALSE) \in TreatyJobs
      OBVIOUS
    <2>1. t \in Treaty /\ t.st \in OpenStates
      BY <1>1 DEF TypeInv, LoopType
    <2>2. Ended(t) \in Treaty
      BY <2>1 DEF Ended, Treaty, TreatyType, OpenStates
    <2> QED
      BY <2>1, <2>2 DEF TreatyJob, TreatyJobs, NoId
  <1>3. \A o \in Falling : OfferJob([o EXCEPT !.st = "EXPIRED"], FALSE) \in OfferJobs
    <2> SUFFICES ASSUME NEW o \in Falling PROVE OfferJob([o EXCEPT !.st = "EXPIRED"], FALSE) \in OfferJobs
      OBVIOUS
    <2>1. o \in Offer
      BY <1>1 DEF TypeInv, LoopType
    <2>2. [o EXCEPT !.st = "EXPIRED"] \in Offer
      BY <2>1 DEF Offer
    <2> QED
      BY <2>2 DEF OfferJob, OfferJobs
  <1>4. Closings \subseteq Job /\ IsFiniteSet(Closings) /\ \A j \in Closings : ~j.order
    <2> DEFINE A == {TreatyJob(Ended(t), t.st, NoId, FALSE) : t \in Due}
               B == {OfferJob([o EXCEPT !.st = "EXPIRED"], FALSE) : o \in Falling}
               f == [t \in Due |-> TreatyJob(Ended(t), t.st, NoId, FALSE)]
               g == [o \in Falling |-> OfferJob([o EXCEPT !.st = "EXPIRED"], FALSE)]
    <2>1. Closings = A \cup B
      BY DEF Closings
    <2>2. IsFiniteSet(A)
      <3>1. f \in [Due -> A] /\ \A y \in A : \E x \in Due : f[x] = y
        OBVIOUS
      <3> HIDE DEF f, A
      <3> QED
        BY <1>1, <3>1, ImageFinite
    <2>3. IsFiniteSet(B)
      <3>1. g \in [Falling -> B] /\ \A y \in B : \E x \in Falling : g[x] = y
        OBVIOUS
      <3> HIDE DEF g, B
      <3> QED
        BY <1>1, <3>1, ImageFinite
    <2>4. A \subseteq Job /\ B \subseteq Job
      BY <1>2, <1>3 DEF Job
    <2>5. \A j \in A \cup B : ~j.order
      BY DEF TreatyJob, OfferJob
    <2> HIDE DEF A, B
    <2> QED
      BY <2>1, <2>2, <2>3, <2>4, <2>5, FS_Union
  <1>5. failed \subseteq Job /\ IsFiniteSet(failed)
    BY DEF TypeInv, LoopType, Job
  <1>6. \A j \in failed \cup Closings : j \in TreatyJobs \cup OfferJobs /\ ~j.order
    <2>1. \A j \in Closings : j \in TreatyJobs \cup OfferJobs
      BY <1>2, <1>3 DEF Closings
    <2> QED
      BY <1>4, <2>1 DEF TypeInv, LoopType
  <1>7. ASSUME NEW k \in Key
        PROVE  /\ out[k] \in Seq(Job) /\ Len(out[k]) <= 1
               /\ \A j : In(j, out[k]) <=> j = LeaveJob /\ k = "unit" /\ Expelled /\ tile
    <2>1. out = IF Expelled /\ tile THEN Only(LeaveJob) ELSE None
      BY DEF LeftJobs
    <2>2. LeaveJob \in Job /\ LeaveJob.key = "unit"
      BY UnitJobsTyped DEF LeaveJob, UnitJob
    <2>3. Only(LeaveJob)[k] = IF k = "unit" THEN <<LeaveJob>> ELSE <<>>
      BY <2>2, OnlyJobs
    <2>4. None[k] = <<>>
      BY NoneJobs
    <2>5. /\ <<>> \in Seq(Job) /\ Len(<<>>) = 0 /\ \A j : ~In(j, <<>>)
          /\ <<LeaveJob>> \in Seq(Job) /\ Len(<<LeaveJob>>) = 1 /\ \A j : In(j, <<LeaveJob>>) <=> j = LeaveJob
      BY <2>2 DEF In
    <2>6. CASE Expelled /\ tile /\ k = "unit"
      <3>1. out[k] = <<LeaveJob>>
        BY <2>1, <2>3, <2>6
      <3> HIDE DEF out
      <3> QED
        BY <2>5, <2>6, <3>1
    <2>7. CASE ~(Expelled /\ tile /\ k = "unit")
      <3>1. out[k] = <<>>
        BY <2>1, <2>3, <2>4, <2>7
      <3> HIDE DEF out
      <3> QED
        BY <2>5, <2>7, <3>1
    <2> QED
      BY <2>6, <2>7
  <1>8. ASSUME NEW k \in Key
        PROVE  /\ SweepJobs(tile)[k] \in Seq(Job)
               /\ \A j : In(j, SweepJobs(tile)[k]) <=>
                    (j \in failed \cup Closings /\ j.key = k) \/ (j = LeaveJob /\ k = "unit" /\ Expelled /\ tile)
               /\ k = "unit" => Len(SweepJobs(tile)[k]) <= 1
    <2> DEFINE A == {j \in failed : j.key = k}
               B == {j \in Closings : j.key = k}
               a == SetToSeq(A)
               b == SetToSeq(B)
               c == out[k]
    <2>1. A \subseteq Job /\ B \subseteq Job /\ IsFiniteSet(A) /\ IsFiniteSet(B)
      BY <1>4, <1>5, FS_Subset
    <2> HIDE DEF A, B
    <2>2. a \in Seq(Job) /\ (\A j : In(j, a) <=> j \in A) /\ b \in Seq(Job) /\ (\A j : In(j, b) <=> j \in B)
      BY <2>1, SetToSeqJobs
    <2>3. SweepJobs(tile)[k] = a \o b \o c
      BY NoneJobs DEF SweepJobs, A, B
    <2>4. c \in Seq(Job) /\ Len(c) <= 1 /\ \A j : In(j, c) <=> j = LeaveJob /\ k = "unit" /\ Expelled /\ tile
      BY <1>7
    <2> HIDE DEF a, b, c, out
    <2>5. a \o b \in Seq(Job) /\ Len(a \o b) = Len(a) + Len(b) /\ \A j : In(j, a \o b) <=> In(j, a) \/ In(j, b)
      BY <2>2, Joined
    <2> DEFINE d == a \o b
    <2>6. d \in Seq(Job) /\ Len(d) = Len(a) + Len(b) /\ \A j : In(j, d) <=> In(j, a) \/ In(j, b)
      BY <2>5
    <2> HIDE DEF d
    <2>7. d \o c \in Seq(Job) /\ Len(d \o c) = Len(d) + Len(c) /\ \A j : In(j, d \o c) <=> In(j, d) \/ In(j, c)
      BY <2>4, <2>6, Joined
    <2>8. SweepJobs(tile)[k] = d \o c
      BY <2>3 DEF d
    <2>9. k = "unit" => Len(a) = 0 /\ Len(b) = 0
      <3>1. \A j \in TreatyJobs \cup OfferJobs : j.key # "unit"
        BY DEF TreatyJobs, OfferJobs
      <3>2. k = "unit" => A = {} /\ B = {}
        BY <1>6, <3>1 DEF A, B
      <3>3. \A s \in Seq(Job) : Len(s) # 0 => In(s[1], s)
        BY DEF In
      <3> QED
        BY <2>2, <3>2, <3>3
    <2>10. Len(a) \in Nat /\ Len(b) \in Nat /\ Len(c) \in Nat
      BY <2>2, <2>4
    <2>11. k = "unit" => Len(d \o c) <= 1
      BY <2>4, <2>6, <2>7, <2>9, <2>10
    <2>12. \A j : In(j, d \o c) <=> j \in A \cup B \/ (j = LeaveJob /\ k = "unit" /\ Expelled /\ tile)
      BY <2>2, <2>4, <2>6, <2>7
    <2>13. A \cup B = {j \in failed \cup Closings : j.key = k}
      BY DEF A, B
    <2> QED
      BY <2>7, <2>8, <2>11, <2>12, <2>13
  <1>9. SweepJobs(tile) \in Jobs
    <2>1. SweepJobs(tile) = [k \in Key |-> SweepJobs(tile)[k]]
      BY DEF SweepJobs
    <2> QED
      BY <1>8, <2>1 DEF Jobs
  <1>10. OfKeys(SweepJobs(tile))
    <2>1. LeaveJob.key = "unit"
      BY DEF LeaveJob, UnitJob
    <2> QED
      BY <1>8, <2>1 DEF OfKeys, In
  <1> QED
    BY <1>6, <1>8, <1>9, <1>10 DEF Key

\* The sweep: its closings are no orders, and an alliance it ends sends the guest out.
LEMMA SweepStep == ASSUME Inv, NEW tile \in BOOLEAN, Sweep(tile) PROVE Inv'
  <1> DEFINE jobs == SweepJobs(tile)
  <1>8. jobs \in Jobs /\ OfKeys(jobs) /\ \A i \in 1..Len(jobs["treaty"]) : ~jobs["treaty"][i].order
    <2>1. "treaty" \in Key /\ LeaveJob.order = FALSE
      BY DEF Key, LeaveJob, UnitJob
    <2>2. \A i \in 1..Len(jobs["treaty"]) : In(jobs["treaty"][i], jobs["treaty"])
      BY DEF In
    <2> QED
      BY <2>1, <2>2, SweepJobsAre DEF Inv
  <1>9. Submit(jobs)
    BY DEF Sweep, SweepJobs
  <1>10. inbox' = inbox /\ busy' = busy /\ pacts' = pacts \ Due /\ row' = row
    BY DEF Sweep, Outside
  <1>11. "treaty" \in busy => pacts' = pacts
    BY <1>10 DEF Due
  <1> HIDE DEF jobs
  <1>12. QueueType' /\ InboxType' /\ OneOrder'
    <2>1. QueueType' /\ OneOrder'
      BY <1>8, <1>9, <1>10, <1>11, Submitted, NoNewOrder DEF Inv, TypeInv
    <2> QED
      BY <1>10, <2>1 DEF Inv, TypeInv, InboxType
  <1>13. RowType(row)'
    BY <1>10 DEF Inv, TypeInv, RowType
  <1>14. LoopType'
    <2>1. IsFiniteSet(pacts \ Due)
      BY FS_Difference DEF Inv, TypeInv, LoopType
    <2>2. IsFiniteSet(offers \ Falling)
      BY FS_Difference DEF Inv, TypeInv, LoopType
    <2>3. offers' = offers \ Falling /\ failed' = {} /\ rejected' = rejected
          /\ guest' = (IF Expelled THEN Left(tile) ELSE guest)
      BY DEF Sweep, ExpelledGuest
    <2>4. guest' \in [entering : BOOLEAN, inside : BOOLEAN, leaving : BOOLEAN]
      BY <2>3, LeftType DEF Inv, TypeInv, LoopType
    <2> QED
      BY <1>10, <2>1, <2>2, <2>3, <2>4, FS_EmptySet DEF Inv, TypeInv, LoopType
  <1>15. GuestsLeave'
    <2>1. CASE Expelled
      <3>1. guest' = Left(tile)
        BY <2>1 DEF Sweep, ExpelledGuest
      <3> QED
        BY <3>1, LeftType DEF Inv, TypeInv, GuestsLeave
    <2>2. CASE ~Expelled
      <3>1. guest' = guest /\ slipped' = slipped
        BY <2>2 DEF Sweep
      <3> QED
        BY <1>10, <2>2, <3>1 DEF Inv, GuestsLeave, Allied, Expelled
    <2> QED
      BY <2>1, <2>2
  <1> QED
    BY <1>12, <1>13, <1>14, <1>15 DEF Inv, TypeInv

\* The answer to an order about treaties: the alliance outlives it, unless superseded.
LEMMA TreatyResolvedStep ==
    ASSUME Inv, inbox # <<>>, inbox' = Tail(inbox), UNCHANGED <<queue, row>>,
           Head(inbox).job.k = "Treaty", Head(inbox).job.order, HandleTreatyResolved(Head(inbox))
    PROVE  Inv'
  <1> DEFINE m == Head(inbox)
             t == m.job.t
  <1>1. InboxType' /\ m \in Message /\ m = inbox[1] /\ Len(inbox) >= 1 /\ Len(inbox) \in Nat
    BY Received DEF Inv, TypeInv, InboxType
  <1>2. m.job \in TreatyJobs /\ m.ok \in BOOLEAN
    BY <1>1, JobFacts DEF Message
  <1>3. t \in Treaty
    BY <1>2 DEF TreatyJobs
  <1>4. BoxAt(1)
    BY <1>1 DEF BoxAt
  <1>5. OneOrder'
    BY <1>4, OrderAnswered DEF Inv, TypeInv
  <1>6. Harmless(m.job)
    BY <1>1, <1>4 DEF Inv, OneOrder
  <1>7. /\ busy' = busy \ {"treaty"} /\ offers' = offers /\ failed' = failed /\ guest' = guest
        /\ slipped' = (slipped \/ (m.ok /\ \E o \in pacts : o.id = m.job.sup /\ AllowsGarrison(o)))
        /\ ~m.ok => pacts' = pacts /\ rejected' = rejected
        /\ m.ok => /\ pacts' = {o \in pacts : o.id \notin {t.id, m.job.sup}} \cup Kept(t)
                   /\ rejected' = IF t.st = "REJECTED" THEN rejected \cup {t.by} ELSE rejected
    BY DEF HandleTreatyResolved
  <1> HIDE DEF m, t
  <1>8. /\ pacts' \subseteq {o \in Treaty : o.st \in OpenStates} /\ IsFiniteSet(pacts')
        /\ \A o, u \in pacts' : o.id = u.id => o = u
    <2>1. CASE ~m.ok
      BY <1>7, <2>1 DEF Inv, TypeInv, LoopType
    <2>2. CASE m.ok
      <3> DEFINE rest == {o \in pacts : o.id \notin {t.id, m.job.sup}}
      <3>1. pacts' = rest \cup Kept(t)
        BY <1>7, <2>2
      <3>2. IsFiniteSet(rest)
        BY FS_Subset DEF Inv, TypeInv, LoopType
      <3>3. Kept(t) \in {{}, {t}} /\ \A o \in Kept(t) : o = t /\ t.st \in OpenStates
        BY DEF Kept
      <3>4. IsFiniteSet(rest \cup Kept(t))
        BY <3>2, <3>3, SingletonUnion
      <3>5. rest \subseteq {o \in Treaty : o.st \in OpenStates} /\ \A o, u \in rest : o.id = u.id => o = u
        BY DEF Inv, TypeInv, LoopType
      <3>6. \A o \in rest : o.id # t.id
        OBVIOUS
      <3> HIDE DEF rest
      <3> QED
        BY <1>3, <3>1, <3>3, <3>4, <3>5, <3>6
    <2> QED
      BY <1>2, <2>1, <2>2
  <1>9. rejected' \subseteq Player
    <2>1. t.st = "REJECTED" => t.by \in Player
      BY <1>3 DEF Treaty
    <2> QED
      BY <1>2, <1>7, <2>1 DEF Inv, TypeInv, LoopType
  <1>10. LoopType'
    BY <1>7, <1>8, <1>9 DEF Inv, TypeInv, LoopType
  <1>11. QueueType' /\ RowType(row)'
    BY DEF Inv, TypeInv, QueueType, RowType
  <1>12. GuestsLeave'
    <2> SUFFICES ASSUME guest'.inside, ~slipped' PROVE guest'.leaving \/ Allied(pacts')
      BY DEF GuestsLeave
    <2>1. guest.leaving \/ Allied(pacts)
      BY <1>7 DEF Inv, GuestsLeave
    <2>2. ASSUME NEW o \in pacts, AllowsGarrison(o) PROVE Allied(pacts')
      <3>1. CASE ~m.ok
        BY <1>7, <2>2, <3>1 DEF Allied
      <3>2. CASE m.ok
        <4>1. o.id # m.job.sup
          BY <1>7, <2>2, <3>2
        <4>2. CASE o.id = t.id
          <5>1. AllowsGarrison(t)
            BY <1>6, <2>2, <4>2 DEF Harmless, t
          <5>2. t \in Kept(t)
            BY <5>1 DEF Kept, AllowsGarrison, OpenStates
          <5> QED
            BY <1>7, <3>2, <5>1, <5>2 DEF Allied
        <4>3. CASE o.id # t.id
          <5>1. o \in pacts'
            BY <1>7, <3>2, <4>1, <4>3
          <5> QED
            BY <2>2, <5>1 DEF Allied
        <4> QED
          BY <4>2, <4>3
      <3> QED
        BY <1>2, <3>1, <3>2
    <2> QED
      BY <1>7, <2>1, <2>2 DEF Allied
  <1> QED
    BY <1>1, <1>5, <1>10, <1>11, <1>12 DEF Inv, TypeInv

LEMMA HandleStep == ASSUME Inv, Handle PROVE Inv'
  <1> DEFINE m == Head(inbox)
  <1>1. inbox # <<>> /\ inbox' = Tail(inbox) /\ queue' = queue /\ row' = row
    BY DEF Handle
  <1>2. InboxType' /\ m \in Message
    BY <1>1, Received DEF Inv, TypeInv
  <1>3. m.job \in Job /\ m.ok \in BOOLEAN
    BY <1>2 DEF Message
  <1>4. CASE m.job.k = "Treaty" /\ m.job.order /\ HandleTreatyResolved(m)
    BY <1>1, <1>4, TreatyResolvedStep
  <1>5. QueueType' /\ RowType(row)'
    BY <1>1 DEF Inv, TypeInv, QueueType, RowType
  <1>6. ASSUME pacts' = pacts, "treaty" \in busy <=> "treaty" \in busy', LoopType', GuestsLeave' PROVE Inv'
    BY <1>1, <1>2, <1>5, <1>6, NextMessage DEF Inv, TypeInv
  <1>7. CASE m.job.k \in {"Offer", "Accept"} /\ m.job.order /\ HandleTradeResolved(m)
    <2> DEFINE o == m.job.t
    <2>1. o \in Offer
      BY <1>3, <1>7, JobFacts DEF OfferJobs, AcceptJobs
    <2>2. /\ busy' = busy \ {"trade"} /\ UNCHANGED <<pacts, failed, rejected, guest, slipped>>
          /\ offers' = IF ~m.ok THEN offers ELSE {x \in offers : x.id # o.id} \cup {x \in {o} : x.st = "PROPOSED"}
      BY <1>7 DEF HandleTradeResolved
    <2> HIDE DEF o, m
    <2>3. IsFiniteSet({x \in offers : x.id # o.id})
      BY FS_Subset DEF Inv, TypeInv, LoopType
    <2>4. {x \in {o} : x.st = "PROPOSED"} \in {{}, {o}}
      OBVIOUS
    <2>5. IsFiniteSet({x \in offers : x.id # o.id} \cup {x \in {o} : x.st = "PROPOSED"})
      BY <2>3, <2>4, SingletonUnion
    <2>6. LoopType'
      BY <2>1, <2>2, <2>5 DEF Inv, TypeInv, LoopType
    <2>7. GuestsLeave'
      BY <2>2 DEF Inv, GuestsLeave, Allied
    <2> QED
      BY <1>6, <2>2, <2>6, <2>7
  <1>8. CASE m.job.k \in {"Treaty", "Offer"} /\ ~m.job.order /\ HandleEndPersistFailed(m)
             /\ UNCHANGED <<pacts, offers, busy, rejected, guest, slipped>>
    <2>1. failed' = failed \cup {m.job}
      BY <1>8 DEF HandleEndPersistFailed
    <2>2. IsFiniteSet(failed \cup {m.job})
      BY SingletonUnion DEF Inv, TypeInv, LoopType
    <2>5. m.job \in TreatyJobs \cup OfferJobs
      BY <1>3, <1>8, JobFacts
    <2> HIDE DEF m
    <2>3. LoopType'
      BY <1>8, <2>1, <2>2, <2>5 DEF Inv, TypeInv, LoopType
    <2>4. GuestsLeave'
      BY <1>8 DEF Inv, GuestsLeave, Allied
    <2> QED
      BY <1>6, <1>8, <2>3, <2>4
  <1>9. CASE m.job.k = "Enter" /\ HandleGarrisonEntryResolved(m)
    <2> HIDE DEF m
    <2>1. /\ guest' = [guest EXCEPT !.entering = FALSE, !.inside = @ \/ m.ok]
          /\ slipped' = (slipped \/ (m.ok /\ ~Allied(pacts)))
          /\ UNCHANGED <<pacts, offers, busy, failed, rejected>>
      BY <1>9 DEF HandleGarrisonEntryResolved
    <2>2. LoopType'
      BY <1>3, <2>1 DEF Inv, TypeInv, LoopType
    <2>3. GuestsLeave'
      <3>1. guest'.inside = (guest.inside \/ m.ok) /\ guest'.leaving = guest.leaving
        BY <2>1 DEF Inv, TypeInv, LoopType
      <3> QED
        BY <1>3, <2>1, <3>1 DEF Inv, GuestsLeave, Allied
    <2> QED
      BY <1>6, <2>1, <2>2, <2>3
  <1>10. CASE m.job.k = "Leave" /\ HandleGarrisonExitFailed(m)
    <2>1. /\ guest' = [guest EXCEPT !.inside = TRUE]
          /\ slipped' = (slipped \/ (~guest.inside /\ ~Allied(pacts)))
          /\ UNCHANGED <<pacts, offers, busy, failed, rejected>>
      BY <1>10 DEF HandleGarrisonExitFailed
    <2>2. LoopType'
      BY <2>1 DEF Inv, TypeInv, LoopType
    <2>3. GuestsLeave'
      <3>1. guest'.leaving = guest.leaving
        BY <2>1 DEF Inv, TypeInv, LoopType
      <3> QED
        BY <2>1, <3>1 DEF Inv, GuestsLeave, Allied
    <2> QED
      BY <1>6, <2>1, <2>2, <2>3
  <1> QED
    BY <1>4, <1>7, <1>8, <1>9, <1>10 DEF Handle

LEMMA WorkerStep == ASSUME Inv, NEW k \in Key, Worker(k) PROVE Inv'
  <1>1. queue[k] # <<>> /\ UNCHANGED loop /\ slipped' = slipped
    BY DEF Worker, Commit, CommitUnacked, GiveUp
  <1>2. LoopType' /\ GuestsLeave' /\ pacts' = pacts /\ busy' = busy
    BY <1>1 DEF loop, Inv, TypeInv, LoopType, GuestsLeave, Allied
  <1> DEFINE job == Head(queue[k]).job
  <1>3. job \in Job
    <2>1. queue[k] \in Seq(Item)
      BY DEF Inv, TypeInv, QueueType
    <2>2. Head(queue[k]) \in Item
      BY <1>1, <2>1
    <2> QED
      BY <2>2 DEF Item
  <1>4. \A afford \in BOOLEAN : RowType(Run(job, afford).row) /\ Run(job, afford).ok \in BOOLEAN
    BY <1>3, RunType DEF Inv, TypeInv
  <1>5. ASSUME NEW afford \in BOOLEAN, Commit(k, afford) PROVE Inv'
    <2>1. /\ row' = Run(job, afford).row /\ queue' = [queue EXCEPT ![k] = Tail(@)]
          /\ inbox' = inbox \/ Send(Answer(job, Run(job, afford).ok))
      BY <1>5 DEF Commit
    <2>2. RowType(row')
      BY <1>4, <2>1
    <2>3. RowType(row)'
      BY <2>2 DEF RowType
    <2>4. QueueType' /\ InboxType' /\ OneOrder'
      <3>1. inbox' = inbox \/ \E ok \in BOOLEAN : Send(Answer(job, ok))
        BY <1>4, <2>1
      <3> QED
        BY <1>1, <1>2, <2>1, <3>1, JobFinished DEF Inv, TypeInv
    <2> QED
      BY <1>2, <2>3, <2>4 DEF Inv, TypeInv
  <1>6. CASE CommitUnacked(k)
    <2>1. row' = Run(job, TRUE).row /\ queue' = [queue EXCEPT ![k][1].done = TRUE] /\ inbox' = inbox
      BY <1>6 DEF CommitUnacked
    <2>2. RowType(row')
      BY <1>4, <2>1
    <2>3. RowType(row)' /\ InboxType'
      BY <2>1, <2>2 DEF Inv, TypeInv, RowType, InboxType
    <2>4. QueueType' /\ OneOrder'
      BY <1>1, <1>2, <2>1, JobMarked DEF Inv, TypeInv
    <2> QED
      BY <1>2, <2>3, <2>4 DEF Inv, TypeInv
  <1>7. CASE GiveUp(k)
    <2>1. Send(Answer(job, FALSE)) /\ row' = row /\ queue' = [queue EXCEPT ![k] = Tail(@)]
      BY <1>7 DEF GiveUp
    <2>2. RowType(row)'
      BY <2>1 DEF Inv, TypeInv, RowType
    <2>3. QueueType' /\ InboxType' /\ OneOrder'
      BY <1>1, <1>2, <2>1, JobFinished DEF Inv, TypeInv
    <2> QED
      BY <1>2, <2>2, <2>3 DEF Inv, TypeInv
  <1> QED
    BY <1>5, <1>6, <1>7 DEF Worker

LEMMA RestartStep == ASSUME Inv, Restart PROVE Inv'
  <1>1. /\ pacts' = Open(row) /\ offers' = Pending(row) /\ busy' = {} /\ failed' = {}
        /\ guest' = [entering |-> FALSE, inside |-> row.inside, leaving |-> FALSE]
        /\ queue' = [k \in Key |-> <<>>] /\ inbox' = <<>> /\ row' = row /\ rejected' = rejected
        /\ slipped' = (row.inside /\ ~Allied(row.treaties))
    BY DEF Restart
  <1>2. RowType(row)
    BY DEF Inv, TypeInv
  <1>3. IsFiniteSet(Open(row)) /\ IsFiniteSet(Pending(row))
    BY <1>2, FS_Subset DEF RowType, Open, Pending
  <1>4. LoopType'
    BY <1>1, <1>2, <1>3, FS_EmptySet DEF Inv, TypeInv, LoopType, RowType, Open, Pending
  <1>5. QueueType'
    BY <1>1 DEF QueueType
  <1>6. InboxType' /\ RowType(row)'
    BY <1>1, <1>2, ConstantsAssumption DEF InboxType, RowType
  <1>7. OneOrder'
    <2>1. "treaty" \in Key
      BY DEF Key
    <2>2. \A i \in Nat : ~OrderAt(i)' /\ ~BoxAt(i)'
      BY <1>1, <2>1 DEF OrderAt, BoxAt
    <2> QED
      BY <2>2 DEF OneOrder
  <1>8. GuestsLeave'
    BY <1>1 DEF GuestsLeave, Allied, AllowsGarrison, Open, OpenStates
  <1> QED
    BY <1>4, <1>5, <1>6, <1>7, <1>8 DEF Inv, TypeInv

-----------------------------------------------------------------------------
(* The specification.                                                      *)

LEMMA Inductive == Init => Inv
  <1> SUFFICES ASSUME Init PROVE Inv
    OBVIOUS
  <1>1. TypeInv
    BY TypeInit
  <1>2. queue["treaty"] = <<>> /\ inbox = <<>> /\ ~guest.inside
    BY DEF Init, Key
  <1>3. \A i \in Nat : ~OrderAt(i) /\ ~BoxAt(i)
    BY <1>2 DEF OrderAt, BoxAt
  <1> QED
    BY <1>1, <1>2, <1>3 DEF Inv, OneOrder, GuestsLeave

LEMMA StepKeepsInv == Inv /\ [Next]_vars => Inv'
  <1> SUFFICES ASSUME Inv, [Next]_vars PROVE Inv'
    OBVIOUS
  <1>1. CASE Orders
    BY <1>1, OrdersStep
  <1>2. CASE Time
    BY <1>2, TimeStep
  <1>3. CASE RetryPendingExits
    BY <1>3, LeavesStep DEF RetryPendingExits
  <1>4. CASE \E tile \in BOOLEAN : Sweep(tile)
    BY <1>4, SweepStep
  <1>5. CASE Handle
    BY <1>5, HandleStep
  <1>6. CASE \E k \in Key : Worker(k)
    BY <1>6, WorkerStep
  <1>7. CASE Restart
    BY <1>7, RestartStep
  <1>8. CASE UNCHANGED vars
    BY <1>8, NothingMoves DEF vars, loop
  <1> QED
    BY <1>1, <1>2, <1>3, <1>4, <1>5, <1>6, <1>7, <1>8 DEF Next

\* The loop holds only treaties and offers that are open, whoever closes them and
\* whatever the workers answer (TypeOK of the runs).
THEOREM DiplomacyTypeCorrect == Spec => []TypeOK
  <1>1. Inv => TypeOK
    BY Typed DEF Inv
  <1> QED
    BY <1>1, Inductive, StepKeepsInv, PTL DEF Spec

\* When an alliance ends, by its notice or by its date, its guest leaves or waits
\* for a tile: an order about the treaty cannot take the alliance away behind the
\* sweep, since the pair is reserved while one is in flight (INV-GARR-008).  The
\* theorem promises nothing once slipped holds: an entry answered after the end, an
\* exit given up, a restart between the end and the exit, an alliance whose end a
\* crash lost and that a lesser treaty replaces.
THEOREM AlliancesEndWithTheirGuests == Spec => []GuestsLeave
  <1>1. Inv => GuestsLeave
    BY DEF Inv
  <1> QED
    BY <1>1, Inductive, StepKeepsInv, PTL DEF Spec
-----------------------------------------------------------------------------
(* Where jobs are: waiting in a queue, or answered in the inbox.           *)

ChannelIn(q, b, c) == IF c = "inbox" THEN b ELSE q[c]
CellsIn(q, b) == UNION {{c} \X (1..Len(ChannelIn(q, b, c))) : c \in Key \cup {"inbox"}}
EntryIn(q, b, x) == ChannelIn(q, b, x[1])[x[2]]
Cells == CellsIn(queue, inbox)
Entry(x) == EntryIn(queue, inbox, x)
Boxed(x) == x[1] = "inbox"

Book == {"treaty", "trade"}
BookOf(j) == IF j.k = "Treaty" THEN "treaty" ELSE "trade"
OrderOf(b, j) == j.order /\ BookOf(j) = b
OrderCells(b) == {x \in Cells : OrderOf(b, Entry(x).job)}
\* The closings on their way: failed, waiting for their turn, or given up.
EndOf(kind, j) == ~j.order /\ j.k = kind
Ends(kind) == {j \in failed : EndOf(kind, j)} \cup {Entry(x).job : x \in {y \in Cells : EndOf(kind, Entry(y).job)}}

\* A book is reserved by one order, and only while somebody will answer it.
Lone(b) ==
  /\ b \notin busy => OrderCells(b) = {}
  /\ \A x, y \in OrderCells(b) : x = y
Reserved(b) == b \in busy => lost \/ OrderCells(b) # {}
\* Only the job at the head of its queue may have been written unanswered.
DoneFirst == \A x \in Cells : ~Boxed(x) /\ Entry(x).done => x[2] = 1
\* While nothing fails, an order is behind every closing of its book.
Unfailed ==
  failures = 0 =>
    /\ failed = {}
    /\ \A x \in Cells : IF Boxed(x) THEN Entry(x).job.order \/ Entry(x).job = EnterJob
                        ELSE ~Entry(x).done /\ (Entry(x).job.order => x[2] = Len(queue[x[1]]))
Orderly == Lone("treaty") /\ Lone("trade") /\ Reserved("treaty") /\ Reserved("trade") /\ DoneFirst /\ Unfailed

(* What the loop holds once an order that was taken has been answered.     *)
AfterTreaty(ps, j) == {o \in ps : o.id \notin {j.t.id, j.sup}} \cup Kept(j.t)
AfterOffer(os, j) == {x \in os : x.id # j.t.id} \cup {x \in {j.t} : x.st = "PROPOSED"}
AtMostOne(S) == \A x, y \in S : x = y
OneHeld ==
  /\ OneOfEach(pacts) /\ AtMostOne(offers)
  /\ \A x \in OrderCells("treaty") : OneOfEach(AfterTreaty(pacts, Entry(x).job))
  /\ \A x \in OrderCells("trade") : AtMostOne(AfterOffer(offers, Entry(x).job))

(* What a transaction does to the treaties R, or the offers O.             *)
Inserts(j) == j.from = "PROPOSED" /\ j.t.st = "PROPOSED"
Closed(sup, x) == IF x.id = sup /\ x.st = "ACTIVE" THEN [x EXCEPT !.st = "EXPIRED"] ELSE x
Base(R, j) == {Closed(j.sup, x) : x \in R}
Has(S, n) == \E x \in S : x.id = n
TreatyTaken(R, j) ==
  IF Inserts(j) THEN Has(R, j.t.id) \/ OneOfEach(Put(Base(R, j), j.t))
  ELSE j.t \in R \/ ((\E x \in R : x.id = j.t.id /\ x.st = j.from) /\ OneOfEach(Put(Base(R, j), j.t)))
TreatiesAfter(R, j) ==
  IF ~TreatyTaken(R, j) \/ (Inserts(j) /\ Has(R, j.t.id)) THEN R
  ELSE IF ~Inserts(j) /\ j.t \in R THEN Base(R, j) ELSE Put(Base(R, j), j.t)

Waits(O, n) == \E x \in O : x.id = n /\ x.st = "PROPOSED"
OfferTaken(O, j, a) ==
  IF j.t.st = "PROPOSED" THEN Has(O, j.t.id) \/ \A x \in O : x.st # "PROPOSED"
  ELSE j.t \in O \/ (a /\ Waits(O, j.t.id))
OffersAfter(O, j, a) ==
  IF OfferTaken(O, j, a) /\ j.t \notin O /\ (j.t.st = "PROPOSED" => ~Has(O, j.t.id)) THEN Put(O, j.t) ELSE O

OneWritten ==
  /\ OneOfEach(row.treaties)
  /\ AtMostOne({o \in row.offers : o.st = "PROPOSED"})
  /\ \A o, u \in row.offers : o.id = u.id => o = u

(* What the rows still owe the loop: what is open, and no closing E of it  *)
(* is on its way.                                                          *)
LiveTreaties(R, E) == {t \in R : t.st \in OpenStates /\ \A c \in E : c.t.id # t.id}
LiveOffers(O, E) == {o \in O : o.st = "PROPOSED" /\ \A c \in E : c.t.id # o.id}

EndsTreaty(R, c) ==
  /\ c.from \in OpenStates /\ c.t.st \notin OpenStates /\ c.sup = NoId
  /\ \E x \in R : x.id = c.t.id /\ (x = c.t \/ (x.st = c.from /\ c.t = Ended(x)))
EndsOffer(O, c) ==
  c.t.st = "EXPIRED" /\ \E x \in O : x.id = c.t.id /\ (x = c.t \/ (x.st = "PROPOSED" /\ c.t = [x EXCEPT !.st = "EXPIRED"]))

\* What an order that is not written was given for.
SoundTreaty(P, R, j) ==
  IF Inserts(j) THEN j.sup = NoId /\ ~Has(R, j.t.id)
  ELSE /\ \E x \in P : x.id = j.t.id /\ x.st = j.from /\ x # j.t
       /\ j.sup # NoId => \E x \in P : x.id = j.sup /\ x.st = "ACTIVE" /\ x.id # j.t.id
SoundOffer(P, O, j) ==
  IF j.t.st = "PROPOSED" THEN P = {} /\ ~Has(O, j.t.id) ELSE Has(P, j.t.id)

TreatyClaim(box, e, P, R, E) ==
  IF box THEN LiveTreaties(R, E) = IF e.ok THEN AfterTreaty(P, e.job) ELSE P
  ELSE IF e.done THEN /\ TreatiesAfter(R, e.job) = R
                      /\ LiveTreaties(R, E) = IF TreatyTaken(R, e.job) THEN AfterTreaty(P, e.job) ELSE P
       ELSE SoundTreaty(P, R, e.job) /\ LiveTreaties(R, E) = P
OfferClaim(box, e, P, O, E) ==
  IF box THEN LiveOffers(O, E) = IF e.ok THEN AfterOffer(P, e.job) ELSE P
  ELSE IF e.done THEN /\ OffersAfter(O, e.job, TRUE) = O
                      /\ e.job.k = "Accept" => e.job.t \in O
                      /\ LiveOffers(O, E) = IF OfferTaken(O, e.job, TRUE) THEN AfterOffer(P, e.job) ELSE P
       ELSE SoundOffer(P, O, e.job) /\ LiveOffers(O, E) = P

\* The rows agree with the loop, but for what a message lost and what was written
\* and told to have failed.
Good == ~ghost /\ (failures = 0 \/ ~lost)
SameTreaties ==
  Good => /\ \A c \in Ends("Treaty") : EndsTreaty(row.treaties, c)
          /\ "treaty" \notin busy => LiveTreaties(row.treaties, Ends("Treaty")) = pacts
          /\ \A x \in OrderCells("treaty") : TreatyClaim(Boxed(x), Entry(x), pacts, row.treaties, Ends("Treaty"))
SameOffers ==
  Good => /\ \A c \in Ends("Offer") : EndsOffer(row.offers, c)
          /\ "trade" \notin busy => LiveOffers(row.offers, Ends("Offer")) = offers
          /\ \A x \in OrderCells("trade") : OfferClaim(Boxed(x), Entry(x), offers, row.offers, Ends("Offer"))
\* The unit: its way in and its way out.
EnterCells == {x \in Cells : Entry(x).job = EnterJob}
LeaveCells == {x \in Cells : Entry(x).job = LeaveJob}
Behind(x, y) == IF Boxed(x) = Boxed(y) THEN x[2] < y[2] ELSE Boxed(x)
GuestWay ==
  ~ghost /\ ~lost /\ ~slipped /\ ~crossed =>
    /\ guest.leaving => guest.inside /\ ~guest.entering
    /\ AtMostOne(EnterCells) /\ AtMostOne(LeaveCells)
    /\ guest.entering <=> EnterCells # {}
    /\ \A x \in LeaveCells : /\ ~guest.inside
                             /\ row.inside <=> (Boxed(x) \/ ~Entry(x).done)
                             /\ \A y \in EnterCells : Behind(x, y)
    /\ LeaveCells = {} =>
         /\ EnterCells = {} => row.inside = guest.inside
         /\ \A x \in EnterCells :
              IF Boxed(x) THEN row.inside = (guest.inside \/ Entry(x).ok)
              ELSE (guest.inside => row.inside) /\ (row.inside => guest.inside \/ Entry(x).done)

-----------------------------------------------------------------------------
(* Transactions about treaties.                                            *)

TreatyRows(R) ==
  /\ R \subseteq Treaty /\ OneOfEach(R)
  /\ \A t, u \in R : t.id = u.id => t = u

LEMMA TreatyTx ==
    ASSUME RowType(row), NEW j \in TreatyJobs
    PROVE  /\ ApplyTreaty(j).row.treaties = TreatiesAfter(row.treaties, j)
           /\ ApplyTreaty(j).row.offers = row.offers /\ ApplyTreaty(j).row.inside = row.inside
           /\ ApplyTreaty(j).ok = TreatyTaken(row.treaties, j)
  <1> DEFINE R == row.treaties
             old == {x \in R : x.id = j.t.id}
             ts == Put(Base(R, j), j.t)
             a == [row EXCEPT !.treaties = ts]
             b == [row EXCEPT !.treaties = Base(R, j)]
             matches == \E x \in old : x.st = j.from
  <1>1. /\ a.treaties = ts /\ a.offers = row.offers /\ a.inside = row.inside
        /\ b.treaties = Base(R, j) /\ b.offers = row.offers /\ b.inside = row.inside
    <2>1. \A S : LET r == [row EXCEPT !.treaties = S] IN r.treaties = S /\ r.offers = row.offers /\ r.inside = row.inside
      BY DEF RowType
    <2> QED
      BY <2>1
  <1>2. Has(R, j.t.id) <=> old # {}
    BY DEF Has
  <1>3. matches <=> \E x \in R : x.id = j.t.id /\ x.st = j.from
    OBVIOUS
  <1>4. CASE Inserts(j) /\ old # {}
    <2>1. ApplyTreaty(j) = Wrote(row)
      BY <1>4 DEF ApplyTreaty, Inserts
    <2>2. TreatyTaken(R, j) /\ TreatiesAfter(R, j) = R
      BY <1>2, <1>4 DEF TreatyTaken, TreatiesAfter
    <2> QED
      BY <2>1, <2>2, Outcomes
  <1>5. CASE (Inserts(j) /\ old = {}) \/ (~Inserts(j) /\ j.t \notin R /\ matches)
    <2>1. ApplyTreaty(j) = IF OneOfEach(ts) THEN Wrote(a) ELSE Refused
      BY <1>5 DEF ApplyTreaty, Inserts, Base, Closed
    <2>2. TreatyTaken(R, j) <=> OneOfEach(ts)
      BY <1>2, <1>3, <1>5 DEF TreatyTaken
    <2>3. TreatiesAfter(R, j) = IF OneOfEach(ts) THEN ts ELSE R
      BY <1>2, <1>5, <2>2 DEF TreatiesAfter
    <2>4. TreatyTaken(R, j) \in BOOLEAN
      BY DEF TreatyTaken
    <2>5. CASE OneOfEach(ts)
      <3>1. ApplyTreaty(j) = Wrote(a) /\ TreatyTaken(R, j) /\ TreatiesAfter(R, j) = ts
        BY <2>1, <2>2, <2>3, <2>5
      <3>2. Wrote(a).row = a /\ Wrote(a).ok = TRUE
        BY Outcomes
      <3> HIDE DEF a
      <3>3. ApplyTreaty(j).row = a /\ ApplyTreaty(j).ok = TRUE
        BY <3>1, <3>2
      <3> HIDE DEF ts
      <3> QED
        BY <1>1, <2>4, <3>1, <3>3
    <2>6. CASE ~OneOfEach(ts)
      <3>1. ApplyTreaty(j) = Refused /\ ~TreatyTaken(R, j) /\ TreatiesAfter(R, j) = R
        BY <2>1, <2>2, <2>3, <2>6
      <3> QED
        BY <2>4, <3>1, Outcomes
    <2> QED
      BY <2>5, <2>6
  <1>6. CASE ~Inserts(j) /\ (j.t \in R \/ ~matches)
    <2>1. ApplyTreaty(j) = IF j.t \in R THEN Wrote(b) ELSE Refused
      BY <1>6 DEF ApplyTreaty, Inserts, Base, Closed
    <2>2. TreatyTaken(R, j) <=> j.t \in R
      BY <1>3, <1>6 DEF TreatyTaken
    <2>3. TreatiesAfter(R, j) = IF j.t \in R THEN Base(R, j) ELSE R
      BY <1>6, <2>2 DEF TreatiesAfter
    <2>4. TreatyTaken(R, j) \in BOOLEAN
      BY DEF TreatyTaken
    <2> HIDE DEF b, R, old
    <2> QED
      BY <1>1, <2>1, <2>2, <2>3, <2>4, Outcomes DEF R
  <1> QED
    BY <1>4, <1>5, <1>6

LEMMA NothingToClose ==
    ASSUME NEW R, R \subseteq Treaty, NEW j, j.sup = NoId PROVE Base(R, j) = R
  <1>1. \A x \in R : Closed(j.sup, x) = x
    BY DEF Closed, Treaty
  <1> HIDE DEF Closed
  <1> QED
    BY <1>1 DEF Base

\* Whatever a transaction does, its indexes keep one treaty of each.
LEMMA OneOfEachKept ==
    ASSUME NEW R, TreatyRows(R), NEW j \in TreatyJobs
    PROVE  OneOfEach(TreatiesAfter(R, j))
  <1>1. OneOfEach(Base(R, j))
    <2>1. \A x \in R : Closed(j.sup, x).st \in OpenStates => Closed(j.sup, x) = x
      BY DEF Closed, TreatyRows, Treaty, TreatyType, OpenStates
    <2>2. OneOfEach(R)
      BY DEF TreatyRows
    <2> HIDE DEF Closed
    <2>3. \A y \in Base(R, j) : y.st \in OpenStates => y \in R
      BY <2>1 DEF Base
    <2> QED
      BY <2>2, <2>3 DEF OneOfEach
  <1>2. OneOfEach(R)
    BY DEF TreatyRows
  <1>3. TreatyTaken(R, j) /\ ~(Inserts(j) /\ Has(R, j.t.id)) /\ ~(~Inserts(j) /\ j.t \in R)
          => OneOfEach(Put(Base(R, j), j.t))
    BY DEF TreatyTaken
  <1> QED
    BY <1>1, <1>2, <1>3 DEF TreatiesAfter

\* A closing is always taken, and leaves as it was whatever else is open.
LEMMA EndRow ==
    ASSUME NEW R, TreatyRows(R), NEW c \in TreatyJobs, EndsTreaty(R, c)
    PROVE  TreatyTaken(R, c) /\ TreatiesAfter(R, c) = Put(R, c.t)
  <1>1. PICK x \in R : x.id = c.t.id /\ (x = c.t \/ (x.st = c.from /\ c.t = Ended(x)))
    BY DEF EndsTreaty
  <1>2. Base(R, c) = R
    BY NothingToClose DEF EndsTreaty, TreatyRows
  <1>3. ~Inserts(c) /\ c.t.st \notin OpenStates
    BY DEF EndsTreaty, Inserts, OpenStates
  <1>4. \A t, u \in R : t.id = u.id => t = u
    BY DEF TreatyRows
  <1>5. CASE x = c.t
    <2>1. c.t \in R
      BY <1>5
    <2>2. Put(R, c.t) = R
      BY <1>4, <2>1 DEF Put
    <2> QED
      BY <1>2, <1>3, <2>1, <2>2 DEF TreatyTaken, TreatiesAfter
  <1>6. CASE x # c.t
    <2>1. c.t \notin R
      BY <1>1, <1>4, <1>6
    <2>2. OneOfEach(Put(R, c.t))
      BY <1>3 DEF TreatyRows, OneOfEach, Put
    <2> QED
      BY <1>1, <1>2, <1>3, <1>6, <2>1, <2>2 DEF TreatyTaken, TreatiesAfter
  <1> QED
    BY <1>5, <1>6

LEMMA EndLive ==
    ASSUME NEW R, TreatyRows(R), NEW c \in TreatyJobs, EndsTreaty(R, c),
           NEW E, NEW F, F \subseteq E, E \subseteq F \cup {c}, c \in E
    PROVE  LiveTreaties(Put(R, c.t), F) = LiveTreaties(R, E)
  <1>1. c.t.st \notin OpenStates
    BY DEF EndsTreaty
  <1> QED
    BY <1>1 DEF LiveTreaties, Put

LEMMA EndEnds ==
    ASSUME NEW R, TreatyRows(R), NEW c \in TreatyJobs, EndsTreaty(R, c),
           NEW d \in TreatyJobs, EndsTreaty(R, d)
    PROVE  EndsTreaty(Put(R, c.t), d)
  <1>1. PICK x \in R : x.id = c.t.id /\ (x = c.t \/ (x.st = c.from /\ c.t = Ended(x)))
    BY DEF EndsTreaty
  <1>2. PICK y \in R : y.id = d.t.id /\ (y = d.t \/ (y.st = d.from /\ d.t = Ended(y)))
    BY DEF EndsTreaty
  <1>3. /\ c.from \in OpenStates /\ c.t.st \notin OpenStates
        /\ d.from \in OpenStates /\ d.t.st \notin OpenStates /\ d.sup = NoId
    BY DEF EndsTreaty
  <1>4. c.t \in Put(R, c.t) /\ (y.id # c.t.id => y \in Put(R, c.t))
    BY DEF Put
  <1>5. CASE d.t.id # c.t.id
    BY <1>2, <1>3, <1>4, <1>5 DEF EndsTreaty
  <1>6. CASE d.t.id = c.t.id
    <2>1. x = y
      BY <1>1, <1>2, <1>6 DEF TreatyRows
    <2>2. c.t = d.t \/ c.t = y
      BY <1>1, <1>2, <1>3, <2>1
    <2>3. c.t = d.t \/ (c.t.st = d.from /\ d.t = Ended(c.t))
      BY <1>2, <2>2
    <2> QED
      BY <1>3, <1>4, <1>6, <2>3 DEF EndsTreaty
  <1> QED
    BY <1>5, <1>6


\* An order that the loop gave while it agreed with the rows: what it writes is
\* what the loop will hold, no closing on its way is disturbed, and to write it
\* again changes nothing.
LEMMA OrderRow ==
    ASSUME NEW R, TreatyRows(R), NEW P, NEW j \in TreatyJobs, SoundTreaty(P, R, j),
           NEW E, E \subseteq TreatyJobs, \A c \in E : EndsTreaty(R, c), LiveTreaties(R, E) = P
    PROVE  LET Q == TreatiesAfter(R, j)
           IN /\ LiveTreaties(Q, E) = IF TreatyTaken(R, j) THEN AfterTreaty(P, j) ELSE P
              /\ \A c \in E : EndsTreaty(Q, c)
              /\ TreatiesAfter(Q, j) = Q /\ (TreatyTaken(Q, j) <=> TreatyTaken(R, j))
  <1> DEFINE Q == TreatiesAfter(R, j)
             ts == Put(Base(R, j), j.t)
  <1>1. CASE ~TreatyTaken(R, j)
    <2>1. Q = R
      BY <1>1 DEF TreatiesAfter
    <2> HIDE DEF Q
    <2> QED
      BY <1>1, <2>1 DEF Q
  <1>2. CASE TreatyTaken(R, j)
    <2>1. P \subseteq R /\ \A x \in P : x.st \in OpenStates /\ \A c \in E : c.t.id # x.id
      BY DEF LiveTreaties
    <2>2. \A t, u \in R : t.id = u.id => t = u
      BY DEF TreatyRows
    <2>3. \A x \in R : x.id # NoId
      BY DEF TreatyRows, Treaty
    <2>4. ~Inserts(j) => j.t \notin R
      BY <2>1, <2>2 DEF SoundTreaty
    <2>5. Inserts(j) => ~Has(R, j.t.id)
      BY DEF SoundTreaty
    <2>6. Q = ts
      BY <1>2, <2>4, <2>5 DEF TreatiesAfter
    <2>7. \A c \in E : c.t.id # j.t.id /\ c.t.id # j.sup
      <3> SUFFICES ASSUME NEW c \in E PROVE c.t.id # j.t.id /\ c.t.id # j.sup
        OBVIOUS
      <3>1. c.t.id # NoId /\ Has(R, c.t.id)
        BY <2>3 DEF EndsTreaty, Has
      <3> QED
        BY <2>1, <3>1 DEF SoundTreaty
    <2>8. \A x \in R : /\ Closed(j.sup, x).id = x.id
                       /\ x.id # j.sup => Closed(j.sup, x) = x
                       /\ Closed(j.sup, x).st \in OpenStates => Closed(j.sup, x) = x
                       /\ x.st \in OpenStates /\ Closed(j.sup, x) = x /\ x.id = j.sup => x.st # "ACTIVE"
      BY DEF Closed, TreatyRows, Treaty, TreatyType, OpenStates
    <2>9. \A x \in P : x.id = j.sup => x.st = "ACTIVE"
      <3> SUFFICES ASSUME NEW x \in P, x.id = j.sup PROVE x.st = "ACTIVE"
        OBVIOUS
      <3>1. j.sup # NoId
        BY <2>1, <2>3
      <3> QED
        BY <2>1, <2>2, <3>1 DEF SoundTreaty
    <2>10. j.t.id # j.sup \/ Inserts(j)
      BY <2>1, <2>3 DEF SoundTreaty
    <2> HIDE DEF Q, Closed
    <2>11. LiveTreaties(ts, E) = AfterTreaty(P, j)
      <3>1. ASSUME NEW x \in LiveTreaties(ts, E) PROVE x \in AfterTreaty(P, j)
        <4>1. x \in ts /\ x.st \in OpenStates /\ \A c \in E : c.t.id # x.id
          BY DEF LiveTreaties
        <4>2. CASE x = j.t
          BY <4>1, <4>2 DEF AfterTreaty, Kept
        <4>3. CASE x # j.t
          <5>1. x.id # j.t.id /\ x \in Base(R, j)
            BY <4>1, <4>3 DEF Put
          <5>2. x \in R /\ (x.id = j.sup => x.st # "ACTIVE")
            BY <2>8, <4>1, <5>1 DEF Base
          <5>3. x \in P
            BY <4>1, <5>2 DEF LiveTreaties
          <5> QED
            BY <2>9, <5>1, <5>2, <5>3 DEF AfterTreaty
        <4> QED
          BY <4>2, <4>3
      <3>2. ASSUME NEW x \in AfterTreaty(P, j) PROVE x \in LiveTreaties(ts, E)
        <4>1. CASE x \in Kept(j.t)
          <5>1. x = j.t /\ j.t.st \in OpenStates
            BY <4>1 DEF Kept
          <5> QED
            BY <2>7, <5>1 DEF LiveTreaties, Put
        <4>2. CASE x \notin Kept(j.t)
          <5>1. x \in P /\ x.id # j.t.id /\ x.id # j.sup
            BY <4>2 DEF AfterTreaty
          <5>2. x \in Base(R, j)
            BY <2>1, <2>8, <5>1 DEF Base
          <5> QED
            BY <2>1, <5>1, <5>2 DEF LiveTreaties, Put
        <4> QED
          BY <4>1, <4>2
      <3> QED
        BY <3>1, <3>2
    <2>12. \A c \in E : EndsTreaty(ts, c)
      <3> SUFFICES ASSUME NEW c \in E PROVE EndsTreaty(ts, c)
        OBVIOUS
      <3>1. PICK x \in R : x.id = c.t.id /\ (x = c.t \/ (x.st = c.from /\ c.t = Ended(x)))
        BY DEF EndsTreaty
      <3>2. x \in ts
        BY <2>7, <2>8, <3>1 DEF Base, Put
      <3> QED
        BY <3>1, <3>2 DEF EndsTreaty
    <2>13. j.t \in ts /\ Has(ts, j.t.id)
      BY DEF Put, Has
    <2>14. TreatyTaken(ts, j)
      BY <2>13 DEF TreatyTaken
    <2>15. TreatiesAfter(ts, j) = ts
      <3>1. CASE Inserts(j)
        BY <2>13, <3>1 DEF TreatiesAfter
      <3>2. CASE ~Inserts(j)
        <4>1. \A x \in ts : Closed(j.sup, x) = x
          <5> SUFFICES ASSUME NEW x \in ts PROVE Closed(j.sup, x) = x
            OBVIOUS
          <5>1. CASE x = j.t
            BY <2>10, <3>2, <5>1 DEF Closed
          <5>2. CASE x # j.t
            <6>1. PICK y \in R : x = Closed(j.sup, y)
              BY <5>2 DEF Put, Base
            <6>2. Closed(j.sup, Closed(j.sup, y)) = Closed(j.sup, y)
              BY DEF Closed, TreatyRows, Treaty, TreatyType
            <6> QED
              BY <6>1, <6>2
          <5> QED
            BY <5>1, <5>2
        <4>2. Base(ts, j) = ts
          <5> HIDE DEF ts
          <5> QED
            BY <4>1 DEF Base
        <4> QED
          BY <2>13, <2>14, <3>2, <4>2 DEF TreatiesAfter
      <3> QED
        BY <3>1, <3>2
    <2> HIDE DEF ts
    <2>16. /\ LiveTreaties(Q, E) = AfterTreaty(P, j)
           /\ \A c \in E : EndsTreaty(Q, c)
           /\ TreatiesAfter(Q, j) = Q /\ TreatyTaken(Q, j)
      BY <2>6, <2>11, <2>12, <2>14, <2>15
    <2> QED
      BY <1>2, <2>16 DEF Q
  <1> QED
    BY <1>1, <1>2

\* With no closing on its way, what the loop allows the indexes allow.
LEMMA OrderFits ==
    ASSUME NEW R, TreatyRows(R), NEW P, NEW j \in TreatyJobs, SoundTreaty(P, R, j),
           LiveTreaties(R, {}) = P, OneOfEach(AfterTreaty(P, j))
    PROVE  TreatyTaken(R, j)
  <1>1. CASE Inserts(j)
    <2>1. Base(R, j) = R
      BY <1>1, NothingToClose DEF SoundTreaty, TreatyRows
    <2>2. \A x \in R : x.id # j.t.id /\ x.id # j.sup
      BY <1>1 DEF SoundTreaty, TreatyRows, Treaty, Has
    <2>3. j.t \in AfterTreaty(P, j) /\ \A x \in R : x.st \in OpenStates => x \in AfterTreaty(P, j)
      BY <1>1, <2>2 DEF AfterTreaty, LiveTreaties, Kept, Inserts, OpenStates
    <2>4. OneOfEach(Put(R, j.t))
      BY <2>3 DEF OneOfEach, Put
    <2> QED
      BY <1>1, <2>1, <2>4 DEF TreatyTaken
  <1>2. CASE ~Inserts(j)
    <2>1. PICK x \in P : x.id = j.t.id /\ x.st = j.from
      BY <1>2 DEF SoundTreaty
    <2>2. x \in R
      BY <2>1 DEF LiveTreaties
    <2>3. \A y \in Put(Base(R, j), j.t) : y.st \in OpenStates => y \in AfterTreaty(P, j)
      <3> SUFFICES ASSUME NEW y \in Put(Base(R, j), j.t), y.st \in OpenStates PROVE y \in AfterTreaty(P, j)
        OBVIOUS
      <3>1. CASE y = j.t
        BY <3>1 DEF AfterTreaty, Kept
      <3>2. CASE y # j.t
        <4>1. PICK z \in R : y = Closed(j.sup, z) /\ y.id # j.t.id
          BY <3>2 DEF Put, Base
        <4>2. y = z /\ (y.id = j.sup => y.st # "ACTIVE")
          BY <4>1 DEF Closed, TreatyRows, Treaty, TreatyType, OpenStates
        <4>3. y \in P
          BY <4>1, <4>2 DEF LiveTreaties
        <4>4. y.id # j.sup
          <5> SUFFICES ASSUME y.id = j.sup PROVE FALSE
            OBVIOUS
          <5>1. j.sup # NoId
            BY <4>1, <4>2 DEF TreatyRows, Treaty
          <5>2. PICK u \in P : u.id = j.sup /\ u.st = "ACTIVE"
            BY <1>2, <5>1 DEF SoundTreaty
          <5>3. u \in R /\ u = y
            BY <4>1, <4>2, <5>2 DEF LiveTreaties, TreatyRows
          <5> QED
            BY <4>2, <5>2, <5>3
        <4> QED
          BY <4>1, <4>3, <4>4 DEF AfterTreaty
      <3> QED
        BY <3>1, <3>2
    <2>4. OneOfEach(Put(Base(R, j), j.t))
      BY <2>3 DEF OneOfEach
    <2> QED
      BY <1>2, <2>1, <2>2, <2>4 DEF TreatyTaken
  <1> QED
    BY <1>1, <1>2

LEMMA EndSound ==
    ASSUME NEW R, NEW c, EndsTreaty(R, c), NEW P, NEW j, SoundTreaty(P, R, j)
    PROVE  SoundTreaty(P, Put(R, c.t), j)
  <1>1. Has(R, c.t.id)
    BY DEF EndsTreaty, Has
  <1>2. Has(Put(R, c.t), j.t.id) => Has(R, j.t.id)
    BY <1>1 DEF Has, Put
  <1> QED
    BY <1>2 DEF SoundTreaty

-----------------------------------------------------------------------------
(* Transactions about offers.                                              *)

OfferRows(O) ==
  /\ O \subseteq Offer /\ AtMostOne({o \in O : o.st = "PROPOSED"})
  /\ \A o, u \in O : o.id = u.id => o = u

LEMMA OfferTx ==
    ASSUME RowType(row), OfferRows(row.offers), NEW j \in OfferJobs \cup AcceptJobs, NEW afford \in BOOLEAN
    PROVE  LET a == j.k = "Offer" \/ afford
           IN /\ Run(j, afford).row.offers = OffersAfter(row.offers, j, a)
              /\ Run(j, afford).row.treaties = row.treaties /\ Run(j, afford).row.inside = row.inside
              /\ Run(j, afford).ok = OfferTaken(row.offers, j, a)
  <1> DEFINE O == row.offers
             a == j.k = "Offer" \/ afford
             r(S) == [row EXCEPT !.offers = S]
             Did(S, b) == /\ Run(j, afford).row.offers = S /\ Run(j, afford).ok = b
                          /\ Run(j, afford).row.treaties = row.treaties /\ Run(j, afford).row.inside = row.inside
  <1>1. \A S : r(S).offers = S /\ r(S).treaties = row.treaties /\ r(S).inside = row.inside
    BY DEF RowType
  <1>2. /\ \A S : Run(j, afford) = Wrote(r(S)) => Did(S, TRUE)
        /\ Run(j, afford) = Wrote(row) => Did(O, TRUE)
        /\ Run(j, afford) = Refused => Did(O, FALSE)
    <2> HIDE DEF r
    <2> QED
      BY <1>1, Outcomes
  <1>3. /\ j.k = "Offer" => Run(j, afford) = ApplyOffer(j)
        /\ j.k = "Accept" => Run(j, afford) = Accept(j, afford) /\ j.t.st = "ACCEPTED"
        /\ j.k \in {"Offer", "Accept"}
    BY DEF Run, OfferJobs, AcceptJobs
  <1>4. \A o, u \in O : o.id = u.id => o = u
    BY DEF OfferRows
  <1>5. SUFFICES Did(OffersAfter(O, j, a), OfferTaken(O, j, a))
    OBVIOUS
  <1>6. CASE j.t.st = "PROPOSED"
    <2>1. Run(j, afford) = ApplyOffer(j)
      BY <1>3, <1>6
    <2>2. CASE Has(O, j.t.id)
      <3>1. Run(j, afford) = Wrote(row)
        BY <1>6, <2>1, <2>2 DEF ApplyOffer, Has
      <3>2. OfferTaken(O, j, a) = TRUE /\ OffersAfter(O, j, a) = O
        BY <1>6, <2>2 DEF OfferTaken, OffersAfter
      <3> HIDE DEF Did
      <3> QED
        BY <1>2, <3>1, <3>2
    <2>3. CASE ~Has(O, j.t.id) /\ \E x \in O : x.st = "PROPOSED"
      <3>1. Run(j, afford) = Refused
        BY <1>6, <2>1, <2>3 DEF ApplyOffer, Has
      <3>2. OfferTaken(O, j, a) = FALSE /\ OffersAfter(O, j, a) = O
        BY <1>6, <2>3 DEF OfferTaken, OffersAfter
      <3> HIDE DEF Did
      <3> QED
        BY <1>2, <3>1, <3>2
    <2>4. CASE ~Has(O, j.t.id) /\ ~\E x \in O : x.st = "PROPOSED"
      <3>1. Run(j, afford) = Wrote(r(O \cup {j.t}))
        BY <1>6, <2>1, <2>4 DEF ApplyOffer, Has
      <3>2. OfferTaken(O, j, a) = TRUE /\ OffersAfter(O, j, a) = Put(O, j.t)
        BY <1>6, <2>4 DEF OfferTaken, OffersAfter, Has
      <3>3. Put(O, j.t) = O \cup {j.t}
        BY <2>4 DEF Put, Has
      <3> HIDE DEF Did, r
      <3> QED
        BY <1>2, <3>1, <3>2, <3>3
    <2> QED
      BY <2>2, <2>3, <2>4
  <1>7. CASE j.t.st # "PROPOSED"
    <2>1. Waits(O, j.t.id) => j.t \notin O
      BY <1>4, <1>7 DEF Waits
    <2>2. CASE j.t \in O
      <3>1. Run(j, afford) = Wrote(row)
        BY <1>3, <1>7, <2>1, <2>2 DEF ApplyOffer, Accept, Waits
      <3>2. OfferTaken(O, j, a) = TRUE /\ OffersAfter(O, j, a) = O
        BY <1>7, <2>2 DEF OfferTaken, OffersAfter
      <3> HIDE DEF Did
      <3> QED
        BY <1>2, <3>1, <3>2
    <2>3. CASE j.t \notin O /\ a /\ Waits(O, j.t.id)
      <3>1. Run(j, afford) = Wrote(r(Put(O, j.t)))
        BY <1>3, <1>7, <2>3 DEF ApplyOffer, Accept, Waits
      <3>2. OfferTaken(O, j, a) = TRUE /\ OffersAfter(O, j, a) = Put(O, j.t)
        BY <1>7, <2>3 DEF OfferTaken, OffersAfter
      <3> HIDE DEF Did, r
      <3> QED
        BY <1>2, <3>1, <3>2
    <2>4. CASE j.t \notin O /\ ~(a /\ Waits(O, j.t.id))
      <3>1. Run(j, afford) = Refused
        BY <1>3, <1>7, <2>4 DEF ApplyOffer, Accept, Waits
      <3>2. OfferTaken(O, j, a) = FALSE /\ OffersAfter(O, j, a) = O
        BY <1>7, <2>4 DEF OfferTaken, OffersAfter
      <3> HIDE DEF Did
      <3> QED
        BY <1>2, <3>1, <3>2
    <2> QED
      BY <2>2, <2>3, <2>4
  <1> QED
    BY <1>6, <1>7

LEMMA OffersKept ==
    ASSUME NEW O, OfferRows(O), NEW j, j.t \in Offer, NEW a \in BOOLEAN
    PROVE  OfferRows(OffersAfter(O, j, a))
  <1>1. CASE OffersAfter(O, j, a) = O
    BY <1>1
  <1>2. CASE OffersAfter(O, j, a) = Put(O, j.t) /\ OfferTaken(O, j, a) /\ j.t \notin O
             /\ (j.t.st = "PROPOSED" => ~Has(O, j.t.id))
    <2>1. j.t.st = "PROPOSED" => \A x \in O : x.st # "PROPOSED"
      BY <1>2 DEF OfferTaken
    <2> QED
      BY <1>2, <2>1 DEF OfferRows, Put, AtMostOne
  <1> QED
    BY <1>1, <1>2 DEF OffersAfter

LEMMA EndOfferRow ==
    ASSUME NEW O, OfferRows(O), NEW c, EndsOffer(O, c)
    PROVE  OfferTaken(O, c, TRUE) /\ OffersAfter(O, c, TRUE) = Put(O, c.t)
  <1>1. PICK x \in O : x.id = c.t.id /\ (x = c.t \/ (x.st = "PROPOSED" /\ c.t = [x EXCEPT !.st = "EXPIRED"]))
    BY DEF EndsOffer
  <1>2. c.t.st = "EXPIRED"
    BY DEF EndsOffer
  <1>3. \A o, u \in O : o.id = u.id => o = u
    BY DEF OfferRows
  <1>4. CASE x = c.t
    <2>1. Put(O, c.t) = O
      BY <1>3, <1>4 DEF Put
    <2> QED
      BY <1>2, <1>4, <2>1 DEF OfferTaken, OffersAfter
  <1>5. CASE x # c.t
    <2>1. c.t \notin O /\ Waits(O, c.t.id)
      BY <1>1, <1>3, <1>5 DEF Waits
    <2> QED
      BY <1>2, <2>1 DEF OfferTaken, OffersAfter
  <1> QED
    BY <1>4, <1>5

LEMMA EndOfferLive ==
    ASSUME NEW O, NEW c, EndsOffer(O, c),
           NEW E, NEW F, F \subseteq E, E \subseteq F \cup {c}, c \in E
    PROVE  LiveOffers(Put(O, c.t), F) = LiveOffers(O, E)
  BY DEF EndsOffer, LiveOffers, Put

LEMMA EndOfferEnds ==
    ASSUME NEW O, OfferRows(O), NEW c, EndsOffer(O, c), NEW d, EndsOffer(O, d)
    PROVE  EndsOffer(Put(O, c.t), d)
  <1>1. PICK x \in O : x.id = c.t.id /\ (x = c.t \/ (x.st = "PROPOSED" /\ c.t = [x EXCEPT !.st = "EXPIRED"]))
    BY DEF EndsOffer
  <1>2. PICK y \in O : y.id = d.t.id /\ (y = d.t \/ (y.st = "PROPOSED" /\ d.t = [y EXCEPT !.st = "EXPIRED"]))
    BY DEF EndsOffer
  <1>3. c.t.st = "EXPIRED" /\ d.t.st = "EXPIRED"
    BY DEF EndsOffer
  <1>4. c.t \in Put(O, c.t) /\ (y.id # c.t.id => y \in Put(O, c.t))
    BY DEF Put
  <1>5. CASE d.t.id # c.t.id
    BY <1>2, <1>3, <1>4, <1>5 DEF EndsOffer
  <1>6. CASE d.t.id = c.t.id
    <2>1. x = y
      BY <1>1, <1>2, <1>6 DEF OfferRows
    <2>2. c.t = d.t
      BY <1>1, <1>2, <1>3, <2>1
    <2> QED
      BY <1>3, <1>4, <2>2 DEF EndsOffer
  <1> QED
    BY <1>5, <1>6

LEMMA EndOfferSound ==
    ASSUME NEW O, NEW c, EndsOffer(O, c), NEW P, NEW j, SoundOffer(P, O, j)
    PROVE  SoundOffer(P, Put(O, c.t), j)
  BY DEF EndsOffer, SoundOffer, Has, Put

LEMMA OfferOrderRow ==
    ASSUME NEW O, OfferRows(O), NEW P, NEW j \in OfferJobs \cup AcceptJobs, SoundOffer(P, O, j), NEW a \in BOOLEAN,
           NEW E, \A c \in E : EndsOffer(O, c), LiveOffers(O, E) = P
    PROVE  LET Q == OffersAfter(O, j, a)
           IN /\ LiveOffers(Q, E) = IF OfferTaken(O, j, a) THEN AfterOffer(P, j) ELSE P
              /\ \A c \in E : EndsOffer(Q, c)
              /\ a => /\ OffersAfter(Q, j, a) = Q /\ (OfferTaken(Q, j, a) <=> OfferTaken(O, j, a))
                      /\ j.k = "Accept" => j.t \in Q
  <1> DEFINE Q == OffersAfter(O, j, a)
  <1>1. \A o, u \in O : o.id = u.id => o = u
    BY DEF OfferRows
  <1>2. P \subseteq O /\ \A x \in P : x.st = "PROPOSED" /\ \A c \in E : c.t.id # x.id
    BY DEF LiveOffers
  <1>3. j.k = "Accept" => j.t.st # "PROPOSED"
    BY DEF OfferJobs, AcceptJobs
  <1>4. j.t \notin O /\ (j.t.st = "PROPOSED" => ~Has(O, j.t.id)) /\ (j.t.st # "PROPOSED" => Waits(O, j.t.id))
    BY <1>1, <1>2 DEF SoundOffer, Has, Waits
  <1>5. \A c \in E : c.t.id # j.t.id
    <2> SUFFICES ASSUME NEW c \in E PROVE c.t.id # j.t.id
      OBVIOUS
    <2>1. Has(O, c.t.id)
      BY DEF EndsOffer, Has
    <2>2. CASE j.t.st = "PROPOSED"
      BY <1>4, <2>1, <2>2 DEF Has
    <2>3. CASE j.t.st # "PROPOSED"
      BY <1>2, <2>3 DEF SoundOffer, Has
    <2> QED
      BY <2>2, <2>3
  <1>6. CASE ~OfferTaken(O, j, a)
    <2>1. Q = O
      BY <1>6 DEF OffersAfter
    <2>2. j.t.st = "PROPOSED" \/ ~a
      BY <1>4, <1>6 DEF OfferTaken
    <2> HIDE DEF Q
    <2> QED
      BY <1>3, <1>6, <2>1, <2>2 DEF Q
  <1>7. CASE OfferTaken(O, j, a)
    <2>1. Q = Put(O, j.t)
      BY <1>4, <1>7 DEF OffersAfter
    <2>2. j.t \in Put(O, j.t) /\ Has(Put(O, j.t), j.t.id)
      BY DEF Put, Has
    <2>3. OffersAfter(Put(O, j.t), j, a) = Put(O, j.t) /\ OfferTaken(Put(O, j.t), j, a)
      BY <2>2 DEF OffersAfter, OfferTaken
    <2>4. \A c \in E : EndsOffer(Put(O, j.t), c)
      BY <1>5 DEF EndsOffer, Put
    <2>5. LiveOffers(Put(O, j.t), E) = AfterOffer(P, j)
      BY <1>5 DEF LiveOffers, Put, AfterOffer
    <2> HIDE DEF Q
    <2> QED
      BY <1>7, <2>1, <2>2, <2>3, <2>4, <2>5 DEF Q
  <1> QED
    BY <1>6, <1>7

LEMMA OfferAgain ==
    ASSUME NEW O, NEW j \in OfferJobs \cup AcceptJobs, OffersAfter(O, j, TRUE) = O, j.k = "Accept" => j.t \in O,
           NEW a \in BOOLEAN, j.k = "Offer" => a
    PROVE  OffersAfter(O, j, a) = O /\ OfferTaken(O, j, a) = OfferTaken(O, j, TRUE)
  <1>1. CASE j.k = "Offer"
    <2>1. a = TRUE
      BY <1>1
    <2> QED
      BY <2>1
  <1>2. CASE j.k # "Offer"
    <2>1. j.t \in O /\ j.t.st = "ACCEPTED"
      BY <1>2 DEF OfferJobs, AcceptJobs
    <2> QED
      BY <2>1 DEF OffersAfter, OfferTaken
  <1> QED
    BY <1>1, <1>2

LEMMA OfferFits ==
    ASSUME NEW O, NEW P, NEW j, SoundOffer(P, O, j), LiveOffers(O, {}) = P
    PROVE  OfferTaken(O, j, TRUE)
  BY DEF SoundOffer, LiveOffers, OfferTaken, Has, Waits

-----------------------------------------------------------------------------
(* How jobs move: from a queue to the inbox, and one place forward.        *)

Queues == [Key -> Seq(Item)]

CellFacts(q, b) ==
  /\ \A x \in CellsIn(q, b) : /\ x = <<x[1], x[2]>> /\ x[1] \in Key \cup {"inbox"} /\ x[2] \in Nat \ {0}
                              /\ x[1] = "inbox" => x[2] \in 1..Len(b) /\ EntryIn(q, b, x) = b[x[2]]
                              /\ x[1] # "inbox" => x[2] \in 1..Len(q[x[1]]) /\ EntryIn(q, b, x) = q[x[1]][x[2]]
                              /\ EntryIn(q, b, x).job \in Job
  /\ \A i \in 1..Len(b) : <<"inbox", i>> \in CellsIn(q, b) /\ EntryIn(q, b, <<"inbox", i>>) = b[i]
  /\ \A k \in Key : \A i \in 1..Len(q[k]) : <<k, i>> \in CellsIn(q, b) /\ EntryIn(q, b, <<k, i>>) = q[k][i]

LEMMA CellsAre == ASSUME NEW q \in Queues, NEW b \in Seq(Message) PROVE CellFacts(q, b)
  <1>1. "inbox" \notin Key
    BY DEF Key
  <1>2. \A c \in Key \cup {"inbox"} : \A i \in 1..Len(ChannelIn(q, b, c)) :
          /\ <<c, i>> \in CellsIn(q, b) /\ <<c, i>>[1] = c /\ <<c, i>>[2] = i
          /\ EntryIn(q, b, <<c, i>>) = ChannelIn(q, b, c)[i] /\ i \in Nat \ {0}
    BY DEF CellsIn, EntryIn
  <1>3. \A x \in CellsIn(q, b) : \E c \in Key \cup {"inbox"} : \E i \in 1..Len(ChannelIn(q, b, c)) : x = <<c, i>>
    BY DEF CellsIn
  <1>4. ChannelIn(q, b, "inbox") = b /\ \A k \in Key : ChannelIn(q, b, k) = q[k]
    BY <1>1 DEF ChannelIn
  <1>5. (\A i \in 1..Len(b) : b[i].job \in Job) /\ \A k \in Key : \A i \in 1..Len(q[k]) : q[k][i].job \in Job
    <2>1. \A i \in 1..Len(b) : b[i] \in Message
      OBVIOUS
    <2>2. \A k \in Key : q[k] \in Seq(Item)
      BY DEF Queues
    <2>3. \A k \in Key : \A i \in 1..Len(q[k]) : q[k][i] \in Item
      BY <2>2
    <2> QED
      BY <2>1, <2>3 DEF Item, Message
  <1>6. ASSUME NEW x \in CellsIn(q, b)
        PROVE  /\ x = <<x[1], x[2]>> /\ x[1] \in Key \cup {"inbox"} /\ x[2] \in Nat \ {0}
               /\ x[1] = "inbox" => x[2] \in 1..Len(b) /\ EntryIn(q, b, x) = b[x[2]]
               /\ x[1] # "inbox" => x[2] \in 1..Len(q[x[1]]) /\ EntryIn(q, b, x) = q[x[1]][x[2]]
    <2>0. PICK c \in Key \cup {"inbox"} : \E i \in 1..Len(ChannelIn(q, b, c)) : x = <<c, i>>
      BY <1>3
    <2>1. PICK i \in 1..Len(ChannelIn(q, b, c)) : x = <<c, i>>
      BY <2>0
    <2>2. x[1] = c /\ x[2] = i
      BY <2>1
    <2> QED
      BY <1>2, <1>4, <2>1, <2>2
  <1>7. /\ \A i \in 1..Len(b) : <<"inbox", i>> \in CellsIn(q, b) /\ EntryIn(q, b, <<"inbox", i>>) = b[i]
        /\ \A k \in Key : \A i \in 1..Len(q[k]) : <<k, i>> \in CellsIn(q, b) /\ EntryIn(q, b, <<k, i>>) = q[k][i]
    BY <1>2, <1>4
  <1>8. ASSUME NEW x \in CellsIn(q, b) PROVE EntryIn(q, b, x).job \in Job
    BY <1>5, <1>6
  <1> QED
    BY <1>6, <1>7, <1>8 DEF CellFacts

\* Each job of the new channels was one of the old, in its own order; h is the one
\* that was at work.
Carries(src, h, q, b, p, a) ==
  /\ src \in [CellsIn(p, a) -> CellsIn(q, b)]
  /\ \A x, y \in CellsIn(p, a) : src[x] = src[y] => x = y
  /\ \A y \in CellsIn(q, b) : y # h => \E x \in CellsIn(p, a) : src[x] = y
  /\ \A x \in CellsIn(p, a) : src[x] # h =>
       /\ EntryIn(p, a, x) = EntryIn(q, b, src[x]) /\ x[1] = src[x][1]
       /\ src[x][2] = 1 => x[2] = 1
       /\ x[1] # "inbox" /\ src[x][2] = Len(q[x[1]]) => x[2] = Len(p[x[1]])
  /\ \A x, y \in CellsIn(p, a) :
       src[x] # h /\ src[y] # h /\ x[1] = y[1] /\ src[x][2] < src[y][2] => x[2] < y[2]

LEMMA CarriedTail ==
    ASSUME NEW q \in Queues, NEW b \in Seq(Message), b # <<>>
    PROVE  \E src : Carries(src, <<"inbox", 1>>, q, b, q, Tail(b)) /\ \A x \in CellsIn(q, Tail(b)) : src[x] # <<"inbox", 1>>
  <1> DEFINE a == Tail(b)
             new == CellsIn(q, a)
             old == CellsIn(q, b)
             f(x) == IF x[1] = "inbox" THEN <<"inbox", x[2] + 1>> ELSE x
             src == [x \in new |-> f(x)]
  <1>1. a \in Seq(Message) /\ Len(b) >= 1 /\ Len(a) = Len(b) - 1 /\ Len(b) \in Nat /\ \A i \in 1..Len(a) : a[i] = b[i + 1]
    OBVIOUS
  <1> HIDE DEF a
  <1>2. \A i \in 1..Len(a) : i + 1 \in 1..Len(b) /\ i + 1 # 1
    BY <1>1
  <1>3. "inbox" \notin Key
    BY DEF Key
  <1>0. CellFacts(q, a) /\ CellFacts(q, b)
    BY <1>1, CellsAre
  <1>4. ASSUME NEW x \in new
        PROVE  /\ f(x) \in old /\ EntryIn(q, a, x) = EntryIn(q, b, f(x)) /\ f(x)[1] = x[1] /\ f(x) # <<"inbox", 1>>
               /\ f(x)[2] = IF x[1] = "inbox" THEN x[2] + 1 ELSE x[2]
               /\ x[2] \in Nat \ {0} /\ x = <<x[1], x[2]>>
    <2>1. CASE x[1] = "inbox"
      <3>1. x[2] \in 1..Len(a) /\ EntryIn(q, a, x) = a[x[2]] /\ x[2] \in Nat \ {0} /\ x = <<x[1], x[2]>>
        BY <1>1, <2>1, <1>0 DEF CellFacts
      <3>2. x[2] + 1 \in 1..Len(b) /\ x[2] + 1 # 1 /\ a[x[2]] = b[x[2] + 1]
        BY <1>1, <1>2, <3>1
      <3>3. <<"inbox", x[2] + 1>> \in old /\ EntryIn(q, b, <<"inbox", x[2] + 1>>) = b[x[2] + 1]
        BY <3>2, <1>0 DEF CellFacts
      <3> QED
        BY <2>1, <3>1, <3>2, <3>3
    <2>2. CASE x[1] # "inbox"
      <3>1. x[1] \in Key /\ x[2] \in 1..Len(q[x[1]]) /\ EntryIn(q, a, x) = q[x[1]][x[2]] /\ x[2] \in Nat \ {0} /\ x = <<x[1], x[2]>>
        BY <1>1, <2>2, <1>0 DEF CellFacts
      <3>2. <<x[1], x[2]>> \in old /\ EntryIn(q, b, <<x[1], x[2]>>) = q[x[1]][x[2]]
        BY <3>1, <1>0 DEF CellFacts
      <3> QED
        BY <2>2, <3>1, <3>2
    <2> QED
      BY <2>1, <2>2
  <1>5. ASSUME NEW y \in old, y # <<"inbox", 1>> PROVE \E x \in new : f(x) = y
    <2>1. CASE y[1] = "inbox"
      <3>1. y[2] \in 1..Len(b) /\ y = <<"inbox", y[2]>>
        BY <2>1, <1>0 DEF CellFacts
      <3> DEFINE i == y[2] - 1
      <3>2. y[2] # 1
        BY <1>5, <3>1
      <3>3. i \in 1..Len(a) /\ i + 1 = y[2]
        BY <1>1, <3>1, <3>2
      <3> HIDE DEF i
      <3>4. <<"inbox", i>> \in new
        BY <1>1, <3>3, <1>0 DEF CellFacts
      <3>5. f(<<"inbox", i>>) = <<"inbox", i + 1>>
        OBVIOUS
      <3>6. f(<<"inbox", i>>) = y
        BY <3>1, <3>3, <3>5
      <3> QED
        BY <3>4, <3>6
    <2>2. CASE y[1] # "inbox"
      <3>1. y[1] \in Key /\ y[2] \in 1..Len(q[y[1]]) /\ y = <<y[1], y[2]>>
        BY <2>2, <1>0 DEF CellFacts
      <3>2. <<y[1], y[2]>> \in new
        BY <1>1, <3>1, <1>0 DEF CellFacts
      <3>3. f(y) = y
        BY <2>2
      <3> QED
        BY <3>1, <3>2, <3>3
    <2> QED
      BY <2>1, <2>2
  <1> HIDE DEF new, old, f
  <1>6. ASSUME NEW x \in new, NEW y \in new, f(x) = f(y) PROVE x = y
    <2>1. x[1] = y[1]
      BY <1>4, <1>6
    <2>2. x[2] = y[2]
      <3>1. \A m, n \in Nat : m + 1 = n + 1 => m = n
        OBVIOUS
      <3>2. f(x)[2] = f(y)[2]
        BY <1>6
      <3> QED
        BY <1>4, <2>1, <3>1, <3>2
    <2> QED
      BY <1>4, <2>1, <2>2
  <1>7. ASSUME NEW x \in new PROVE f(x)[2] = 1 => x[2] = 1
    BY <1>4
  <1>8. ASSUME NEW x \in new, NEW y \in new, x[1] = y[1], f(x)[2] < f(y)[2] PROVE x[2] < y[2]
    <2>1. x[2] \in Nat /\ y[2] \in Nat
      BY <1>4
    <2>2. CASE x[1] = "inbox"
      <3>1. f(x)[2] = x[2] + 1 /\ f(y)[2] = y[2] + 1
        BY <1>4, <1>8, <2>2
      <3> QED
        BY <1>8, <2>1, <3>1
    <2>3. CASE x[1] # "inbox"
      BY <1>4, <1>8, <2>3
    <2> QED
      BY <2>2, <2>3
  <1>9. ASSUME NEW x \in new, x[1] # "inbox", f(x)[2] = Len(q[x[1]]) PROVE x[2] = Len(q[x[1]])
    BY <1>4, <1>9
  <1>10. Carries(src, <<"inbox", 1>>, q, b, q, a) /\ \A x \in new : src[x] # <<"inbox", 1>>
    BY <1>4, <1>5, <1>6, <1>7, <1>8, <1>9 DEF Carries, new, old
  <1> HIDE DEF src
  <1> QED
    BY <1>10 DEF new, a

\* p is q without the job at the head of k.
TailIn(q, k, p) == p = [q EXCEPT ![k] = Tail(@)]

Finishes(k, m, q, b, p, a) ==
  \E src : /\ Carries(src, <<k, 1>>, q, b, p, a)
           /\ \A x \in CellsIn(p, a) : src[x] = <<k, 1>> =>
                /\ x[1] = "inbox" /\ EntryIn(p, a, x) = m /\ a # b
                /\ \A y \in CellsIn(p, a) : y[1] = "inbox" /\ src[y] # <<k, 1>> => y[2] < x[2]
           /\ a = Append(b, m) => \E x \in CellsIn(p, a) : src[x] = <<k, 1>>

LEMMA CarriedFinish ==
    ASSUME NEW q \in Queues, NEW b \in Seq(Message), NEW k \in Key, q[k] # <<>>,
           NEW p, TailIn(q, k, p), NEW m \in Message, NEW a, a = b \/ a = Append(b, m)
    PROVE  Finishes(k, m, q, b, p, a)
  <1> DEFINE last == <<"inbox", Len(b) + 1>>
             new == CellsIn(p, a)
             old == CellsIn(q, b)
             f(x) == IF x[1] = k THEN <<k, x[2] + 1>> ELSE IF x = last THEN <<k, 1>> ELSE x
             src == [x \in new |-> f(x)]
  <1>1. "inbox" \notin Key /\ k # "inbox"
    BY DEF Key
  <1>2. q[k] \in Seq(Item) /\ Len(q[k]) >= 1 /\ Len(q[k]) \in Nat
    <2>1. q[k] \in Seq(Item)
      BY DEF Queues
    <2> QED
      BY <2>1
  <1>3. /\ p \in Queues /\ Len(p[k]) = Len(q[k]) - 1 /\ \A i \in 1..Len(p[k]) : p[k][i] = q[k][i + 1]
        /\ \A c \in Key \ {k} : p[c] = q[c]
    <2>1. Tail(q[k]) \in Seq(Item) /\ Len(Tail(q[k])) = Len(q[k]) - 1 /\ \A i \in 1..Len(Tail(q[k])) : Tail(q[k])[i] = q[k][i + 1]
      BY <1>2
    <2>2. p[k] = Tail(q[k]) /\ \A c \in Key \ {k} : p[c] = q[c]
      BY DEF Queues, TailIn
    <2> QED
      BY <2>1, <2>2 DEF Queues, TailIn
  <1>4. /\ a \in Seq(Message) /\ Len(b) \in Nat /\ Len(a) \in {Len(b), Len(b) + 1} /\ Len(a) \in Nat
        /\ \A i \in 1..Len(b) : i \in 1..Len(a) /\ a[i] = b[i]
        /\ \A i \in 1..Len(a) : i \in 1..Len(b) \/ (i = Len(b) + 1 /\ a[i] = m)
        /\ a = Append(b, m) => Len(b) + 1 \in 1..Len(a)
    <2>1. CASE a = b
      <3>1. b # Append(b, m) /\ Len(b) \in Nat
        OBVIOUS
      <3> QED
        BY <2>1, <3>1
    <2>2. CASE a = Append(b, m)
      BY <2>2
    <2> QED
      BY <2>1, <2>2
  <1>5. /\ \A i \in 1..Len(p[k]) : i + 1 \in 1..Len(q[k]) /\ i + 1 # 1
        /\ \A i \in 1..Len(q[k]) : i # 1 => i - 1 \in 1..Len(p[k]) /\ (i - 1) + 1 = i
        /\ \A i \in 1..Len(b) : i # Len(b) + 1
        /\ \A i \in Nat : i + 1 = Len(q[k]) => i = Len(p[k])
    BY <1>2, <1>3, <1>4
  <1>6. /\ <<k, 1>>[1] = k /\ <<k, 1>>[2] = 1
        /\ \A i : <<k, i>>[1] = k /\ <<k, i>>[2] = i
        /\ last[1] = "inbox" /\ last[2] = Len(b) + 1
    OBVIOUS
  <1>0. CellFacts(p, a) /\ CellFacts(q, b)
    BY <1>3, <1>4, CellsAre
  <1>7. ASSUME NEW x \in new
        PROVE  /\ x = <<x[1], x[2]>> /\ x[2] \in Nat /\ f(x) \in old
               /\ \/ x[1] = k /\ f(x) = <<k, x[2] + 1>> /\ EntryIn(p, a, x) = EntryIn(q, b, f(x)) /\ f(x) # <<k, 1>>
                  \/ x = last /\ x[1] # k /\ f(x) = <<k, 1>> /\ EntryIn(p, a, x) = m /\ x[1] = "inbox"
                  \/ x # last /\ x[1] # k /\ f(x) = x /\ EntryIn(p, a, x) = EntryIn(q, b, f(x)) /\ f(x) # <<k, 1>>
    <2>1. x = <<x[1], x[2]>> /\ x[2] \in Nat /\ x[1] \in Key \cup {"inbox"}
      BY <1>3, <1>4, <1>0 DEF CellFacts
    <2>2. CASE x[1] = k
      <3>1. x[2] \in 1..Len(p[k]) /\ EntryIn(p, a, x) = p[k][x[2]]
        <4>1. x[1] # "inbox"
          BY <1>1, <2>2
        <4>2. x[2] \in 1..Len(p[x[1]]) /\ EntryIn(p, a, x) = p[x[1]][x[2]]
          BY <1>0, <4>1 DEF CellFacts
        <4> QED
          BY <2>2, <4>2
      <3>2. x[2] + 1 \in 1..Len(q[k]) /\ x[2] + 1 # 1 /\ p[k][x[2]] = q[k][x[2] + 1]
        BY <1>3, <1>5, <3>1
      <3>3. <<k, x[2] + 1>> \in old /\ EntryIn(q, b, <<k, x[2] + 1>>) = q[k][x[2] + 1]
        BY <3>2, <1>0 DEF CellFacts
      <3>4. f(x) = <<k, x[2] + 1>>
        BY <2>2
      <3>5. f(x) # <<k, 1>>
        BY <1>6, <3>2, <3>4
      <3> HIDE DEF f, old, last
      <3> QED
        BY <2>1, <2>2, <3>1, <3>2, <3>3, <3>4, <3>5
    <2>3. CASE x[1] = "inbox"
      <3>1. x[2] \in 1..Len(a) /\ EntryIn(p, a, x) = a[x[2]] /\ x[1] # k
        BY <1>1, <1>3, <1>4, <2>3, <1>0 DEF CellFacts
      <3>2. CASE x[2] \in 1..Len(b)
        <4>1. <<"inbox", x[2]>> \in old /\ EntryIn(q, b, <<"inbox", x[2]>>) = b[x[2]]
          BY <3>2, <1>0 DEF CellFacts
        <4>2. x # last
          BY <1>5, <1>6, <3>2
        <4>3. f(x) = x /\ x # <<k, 1>>
          BY <1>6, <3>1, <4>2
        <4> HIDE DEF f, old, last
        <4> QED
          BY <1>4, <2>1, <2>3, <3>1, <3>2, <4>1, <4>2, <4>3
      <3>3. CASE x[2] = Len(b) + 1 /\ a[x[2]] = m
        <4>1. x = last
          BY <2>1, <2>3, <3>3
        <4>2. f(x) = <<k, 1>>
          BY <3>1, <4>1
        <4>3. 1 \in 1..Len(q[k])
          BY <1>2
        <4>4. <<k, 1>> \in old
          BY <4>3, <1>0 DEF CellFacts
        <4> HIDE DEF f, old, last
        <4> QED
          BY <2>1, <2>3, <3>1, <3>3, <4>1, <4>2, <4>4
      <3> QED
        BY <1>4, <3>1, <3>2, <3>3
    <2>4. CASE x[1] \in Key \ {k}
      <3>1. x[2] \in 1..Len(p[x[1]]) /\ EntryIn(p, a, x) = p[x[1]][x[2]] /\ p[x[1]] = q[x[1]] /\ x[1] # "inbox"
        BY <1>1, <1>3, <1>4, <2>4, <1>0 DEF CellFacts
      <3>2. <<x[1], x[2]>> \in old /\ EntryIn(q, b, <<x[1], x[2]>>) = q[x[1]][x[2]]
        BY <2>4, <3>1, <1>0 DEF CellFacts
      <3>3. x # last /\ x[1] # k /\ x # <<k, 1>>
        BY <1>6, <2>4, <3>1
      <3>4. f(x) = x
        BY <3>3
      <3> HIDE DEF f, old, last
      <3> QED
        BY <2>1, <3>1, <3>2, <3>3, <3>4
    <2> QED
      BY <2>1, <2>2, <2>3, <2>4
  <1>8. ASSUME NEW y \in old, y # <<k, 1>> PROVE \E x \in new : f(x) = y
    <2>1. y = <<y[1], y[2]>> /\ y[2] \in Nat /\ y[1] \in Key \cup {"inbox"}
      BY <1>0 DEF CellFacts
    <2>2. CASE y[1] = k
      <3>1. y[2] \in 1..Len(q[k]) /\ y[2] # 1
        BY <1>1, <1>8, <2>1, <2>2, <1>0 DEF CellFacts
      <3> DEFINE i == y[2] - 1
      <3>2. i \in 1..Len(p[k]) /\ i + 1 = y[2]
        BY <1>5, <3>1
      <3> HIDE DEF i
      <3>3. <<k, i>> \in new
        BY <1>3, <1>4, <3>2, <1>0 DEF CellFacts
      <3>4. f(<<k, i>>) = <<k, i + 1>>
        OBVIOUS
      <3>5. f(<<k, i>>) = y
        BY <2>1, <2>2, <3>2, <3>4
      <3> QED
        BY <3>3, <3>5
    <2>3. CASE y[1] = "inbox"
      <3>1. y[2] \in 1..Len(b)
        BY <2>3, <1>0 DEF CellFacts
      <3>2. <<"inbox", y[2]>> \in new /\ y # last
        BY <1>3, <1>4, <1>5, <1>6, <3>1, <1>0 DEF CellFacts
      <3>3. f(y) = y
        BY <1>1, <2>3, <3>2
      <3> QED
        BY <2>1, <2>3, <3>2, <3>3
    <2>4. CASE y[1] \in Key \ {k}
      <3>1. y[2] \in 1..Len(p[y[1]])
        BY <1>1, <1>3, <2>4, <1>0 DEF CellFacts
      <3>2. <<y[1], y[2]>> \in new /\ y # last
        <4>1. <<y[1], y[2]>> \in new
          BY <1>0, <2>4, <3>1 DEF CellFacts
        <4> QED
          BY <1>1, <1>6, <2>4, <4>1
      <3>3. f(y) = y
        BY <2>4, <3>2
      <3> QED
        BY <2>1, <3>2, <3>3
    <2> QED
      BY <2>1, <2>2, <2>3, <2>4
  <1>9. a = Append(b, m) => last \in new /\ f(last) = <<k, 1>>
    BY <1>1, <1>3, <1>4, <1>6, <1>0 DEF CellFacts
  <1> HIDE DEF new, old, f, last
  <1>10. ASSUME NEW x \in new, NEW y \in new, f(x) = f(y) PROVE x = y
    <2>1. \A i, j \in Nat : <<k, i + 1>> = <<k, j + 1>> => i = j
      OBVIOUS
    <2>2. x[2] \in Nat /\ y[2] \in Nat /\ x = <<x[1], x[2]>> /\ y = <<y[1], y[2]>>
      BY <1>7
    <2>3. CASE x[1] = k
      <3>1. f(x) = <<k, x[2] + 1>> /\ f(x) # <<k, 1>> /\ f(x)[1] = k
        BY <1>7, <2>3
      <3>2. y[1] = k /\ f(y) = <<k, y[2] + 1>>
        BY <1>7, <1>10, <3>1
      <3> QED
        BY <1>10, <2>1, <2>2, <2>3, <3>1, <3>2
    <2>4. CASE y[1] = k
      <3>1. f(y) = <<k, y[2] + 1>> /\ f(y) # <<k, 1>> /\ f(y)[1] = k
        BY <1>7, <2>4
      <3>2. x[1] = k /\ f(x) = <<k, x[2] + 1>>
        BY <1>7, <1>10, <3>1
      <3> QED
        BY <1>10, <2>1, <2>2, <2>4, <3>1, <3>2
    <2>5. CASE x[1] # k /\ y[1] # k
      BY <1>7, <1>10, <2>5
    <2> QED
      BY <2>3, <2>4, <2>5
  <1>11. ASSUME NEW x \in new, f(x) # <<k, 1>>
         PROVE  /\ EntryIn(p, a, x) = EntryIn(q, b, f(x)) /\ x[1] = f(x)[1]
                /\ f(x)[2] = 1 => x[2] = 1
                /\ x[1] # "inbox" /\ f(x)[2] = Len(q[x[1]]) => x[2] = Len(p[x[1]])
    <2>1. CASE x[1] = k
      <3>1. f(x)[1] = k /\ f(x)[2] = x[2] + 1 /\ x[2] \in Nat /\ x[2] + 1 # 1 /\ EntryIn(p, a, x) = EntryIn(q, b, f(x))
        <4>1. x = <<x[1], x[2]>> /\ x[2] \in Nat /\ f(x) = <<k, x[2] + 1>> /\ EntryIn(p, a, x) = EntryIn(q, b, f(x))
          BY <1>7, <2>1
        <4>2. x[2] # 0
          BY <1>3, <1>4, <1>0 DEF CellFacts, new
        <4> QED
          BY <4>1, <4>2
      <3> QED
        BY <1>5, <2>1, <3>1
    <2>2. CASE x[1] # k
      <3>1. f(x) = x /\ EntryIn(p, a, x) = EntryIn(q, b, f(x))
        BY <1>7, <1>11, <2>2
      <3>2. x[1] \in Key \cup {"inbox"}
        BY <1>3, <1>4, <1>0 DEF CellFacts, new
      <3> QED
        BY <1>3, <2>2, <3>1, <3>2
    <2> QED
      BY <2>1, <2>2
  <1>12. ASSUME NEW x \in new, NEW y \in new, f(x) # <<k, 1>>, f(y) # <<k, 1>>, x[1] = y[1], f(x)[2] < f(y)[2]
         PROVE  x[2] < y[2]
    <2>1. CASE x[1] = k
      <3>1. f(x) = <<k, x[2] + 1>> /\ f(y) = <<k, y[2] + 1>> /\ x[2] \in Nat /\ y[2] \in Nat
        BY <1>7, <1>12, <2>1
      <3>2. f(x)[2] = x[2] + 1 /\ f(y)[2] = y[2] + 1
        BY <3>1
      <3> QED
        BY <1>12, <3>1, <3>2
    <2>2. CASE x[1] # k
      BY <1>7, <1>12, <2>2
    <2> QED
      BY <2>1, <2>2
  <1>13. ASSUME NEW x \in new, f(x) = <<k, 1>>
         PROVE  /\ x[1] = "inbox" /\ EntryIn(p, a, x) = m /\ a # b
                /\ \A y \in new : y[1] = "inbox" /\ f(y) # <<k, 1>> => y[2] < x[2]
    <2>1. x[1] = "inbox" /\ EntryIn(p, a, x) = m /\ x[2] = Len(b) + 1
      BY <1>6, <1>7, <1>13 DEF last
    <2>2. a # b
      <3>1. x[2] \in 1..Len(a)
        BY <1>0, <2>1 DEF CellFacts, new
      <3> QED
        BY <1>5, <2>1, <3>1
    <2>3. ASSUME NEW y \in new, y[1] = "inbox", f(y) # <<k, 1>> PROVE y[2] < x[2]
      <3>1. f(y) = y
        BY <1>1, <1>7, <2>3
      <3>2. y \in old
        BY <1>7, <3>1
      <3>3. y[2] \in 1..Len(b)
        BY <1>0, <2>3, <3>2 DEF CellFacts, old
      <3> QED
        BY <1>4, <2>1, <3>3
    <2> QED
      BY <2>1, <2>2, <2>3
  <1>14. /\ src \in [new -> old]
         /\ \A x \in new : src[x] = f(x)
    BY <1>7
  <1> HIDE DEF src
  <1>15. Carries(src, <<k, 1>>, q, b, p, a)
    <2>1. \A x, y \in new : src[x] = src[y] => x = y
      BY <1>10, <1>14
    <2>2. \A y \in old : y # <<k, 1>> => \E x \in new : src[x] = y
      BY <1>8, <1>14
    <2>3. \A x \in new : src[x] # <<k, 1>> =>
            /\ EntryIn(p, a, x) = EntryIn(q, b, src[x]) /\ x[1] = src[x][1]
            /\ src[x][2] = 1 => x[2] = 1
            /\ x[1] # "inbox" /\ src[x][2] = Len(q[x[1]]) => x[2] = Len(p[x[1]])
      BY <1>11, <1>14
    <2>4. \A x, y \in new :
            src[x] # <<k, 1>> /\ src[y] # <<k, 1>> /\ x[1] = y[1] /\ src[x][2] < src[y][2] => x[2] < y[2]
      BY <1>12, <1>14
    <2> QED
      BY <1>14, <2>1, <2>2, <2>3, <2>4 DEF Carries, new, old
  <1>16. /\ \A x \in CellsIn(p, a) : src[x] = <<k, 1>> =>
              /\ x[1] = "inbox" /\ EntryIn(p, a, x) = m /\ a # b
              /\ \A y \in CellsIn(p, a) : y[1] = "inbox" /\ src[y] # <<k, 1>> => y[2] < x[2]
         /\ a = Append(b, m) => \E x \in CellsIn(p, a) : src[x] = <<k, 1>>
    BY <1>9, <1>13, <1>14 DEF new
  <1> QED
    BY <1>15, <1>16 DEF Finishes

\* p is q with the job at the head of k marked.
MarkIn(q, k, p) ==
  /\ p \in Queues /\ \A c \in Key : Len(p[c]) = Len(q[c])
  /\ \A c \in Key : \A i \in 1..Len(q[c]) : c # k \/ i # 1 => p[c][i] = q[c][i]
  /\ p[k][1].done = TRUE /\ p[k][1].job = q[k][1].job

LEMMA Marks ==
    ASSUME QueueType, NEW k \in Key, queue[k] # <<>>, queue' = [queue EXCEPT ![k][1].done = TRUE]
    PROVE  MarkIn(queue, k, queue')
  <1>0. queue \in Queues
    BY DEF QueueType, Queues
  <1>1. queue[k] \in Seq(Item) /\ Len(queue[k]) >= 1 /\ Len(queue[k]) \in Nat /\ queue[k][1] \in Item
    <2>1. queue[k] \in Seq(Item)
      BY <1>0 DEF Queues
    <2> QED
      BY <2>1
  <1> DEFINE it == [queue[k][1] EXCEPT !.done = TRUE]
             s == [queue[k] EXCEPT ![1] = it]
  <1>2. it \in Item /\ it.done = TRUE /\ it.job = queue[k][1].job
    BY <1>1 DEF Item
  <1>3. queue' = [queue EXCEPT ![k] = s]
    OBVIOUS
  <1> HIDE DEF it
  <1>4. s \in Seq(Item) /\ Len(s) = Len(queue[k]) /\ s[1] = it /\ \A i \in 1..Len(queue[k]) : i # 1 => s[i] = queue[k][i]
    BY <1>1, <1>2
  <1> HIDE DEF s
  <1>5. queue' \in Queues /\ queue'[k] = s /\ \A c \in Key \ {k} : queue'[c] = queue[c]
    BY <1>0, <1>3, <1>4 DEF Queues
  <1> QED
    BY <1>2, <1>4, <1>5 DEF MarkIn

LEMMA CarriedMark ==
    ASSUME NEW q \in Queues, NEW b \in Seq(Message), NEW k \in Key, q[k] # <<>>,
           NEW p, MarkIn(q, k, p)
    PROVE  /\ CellsIn(p, b) = CellsIn(q, b) /\ p \in Queues
           /\ <<k, 1>> \in CellsIn(q, b)
           /\ \A x \in CellsIn(q, b) : x # <<k, 1>> => EntryIn(p, b, x) = EntryIn(q, b, x)
           /\ EntryIn(p, b, <<k, 1>>).done = TRUE /\ EntryIn(p, b, <<k, 1>>).job = EntryIn(q, b, <<k, 1>>).job
           /\ \A c \in Key : Len(p[c]) = Len(q[c])
  <1>1. "inbox" \notin Key /\ k # "inbox"
    BY DEF Key
  <1>2. Len(q[k]) >= 1 /\ Len(q[k]) \in Nat
    <2>1. q[k] \in Seq(Item)
      BY DEF Queues
    <2> QED
      BY <2>1
  <1>6. p \in Queues /\ (\A c \in Key : \A i \in 1..Len(q[c]) : c # k \/ i # 1 => p[c][i] = q[c][i])
        /\ p[k][1].done = TRUE /\ p[k][1].job = q[k][1].job
    BY DEF MarkIn
  <1>7. \A c \in Key : Len(p[c]) = Len(q[c])
    BY DEF MarkIn
  <1>8. \A c \in Key \cup {"inbox"} : Len(ChannelIn(p, b, c)) = Len(ChannelIn(q, b, c))
    BY <1>7 DEF ChannelIn
  <1>9. CellsIn(p, b) = CellsIn(q, b)
    BY <1>8 DEF CellsIn
  <1>10. 1 \in 1..Len(q[k]) /\ 1 \in 1..Len(p[k])
    BY <1>2, <1>7
  <1>0. CellFacts(p, b) /\ CellFacts(q, b)
    BY <1>6, CellsAre
  <1>11. <<k, 1>> \in CellsIn(q, b) /\ EntryIn(q, b, <<k, 1>>) = q[k][1] /\ EntryIn(p, b, <<k, 1>>) = p[k][1]
    BY <1>6, <1>10, <1>0 DEF CellFacts
  <1>12. ASSUME NEW x \in CellsIn(q, b), x # <<k, 1>> PROVE EntryIn(p, b, x) = EntryIn(q, b, x)
    <2>1. x = <<x[1], x[2]>> /\ x[1] \in Key \cup {"inbox"} /\ x[2] \in Nat \ {0}
      BY <1>0 DEF CellFacts
    <2>2. x \in CellsIn(p, b)
      BY <1>9
    <2>3. CASE x[1] = "inbox"
      BY <1>6, <2>2, <2>3, <1>0 DEF CellFacts
    <2>4. CASE x[1] # "inbox"
      <3>1. /\ x[2] \in 1..Len(q[x[1]]) /\ EntryIn(q, b, x) = q[x[1]][x[2]]
            /\ EntryIn(p, b, x) = p[x[1]][x[2]]
        BY <1>6, <2>2, <2>4, <1>0 DEF CellFacts
      <3>2. x[1] = k => x[2] # 1
        BY <1>12, <2>1
      <3> QED
        BY <1>6, <2>1, <2>4, <3>1, <3>2
    <2> QED
      BY <2>3, <2>4
  <1> QED
    BY <1>6, <1>7, <1>9, <1>11, <1>12

-----------------------------------------------------------------------------
(* The cells after each kind of step.                                      *)

CellsNow == CellFacts(queue, inbox)

LEMMA CellsTyped == ASSUME QueueType, InboxType PROVE CellsNow
  BY CellsAre DEF QueueType, InboxType, CellsNow, Queues

\* A queue grows at its end, by jobs that are not written.
NewCell(x, jobs) ==
  LET n == x[2] - Len(queue[x[1]])
  IN /\ x[1] \in Key /\ n \in 1..Len(jobs[x[1]])
     /\ Entry(x)'.job = jobs[x[1]][n] /\ ~Entry(x)'.done /\ x[2] = Len(queue[x[1]]) + n
Grown(jobs) ==
  /\ \A x \in Cells : x \in Cells' /\ Entry(x)' = Entry(x)
  /\ \A x \in Cells' : x \in Cells \/ NewCell(x, jobs)
  /\ \A k \in Key : \A n \in 1..Len(jobs[k]) : \E x \in Cells' : x[1] = k /\ Entry(x)'.job = jobs[k][n]
  /\ \A k \in Key : Len(queue'[k]) = Len(queue[k]) + Len(jobs[k])

LEMMA GrownBySubmit ==
    ASSUME QueueType, InboxType, NEW jobs \in Jobs, OfKeys(jobs), Submit(jobs), inbox' = inbox
    PROVE  Grown(jobs) /\ CellsNow'
  <1>1. queue' \in Queues /\ queue \in Queues /\ inbox \in Seq(Message)
    <2>1. QueueType'
      BY Submitted
    <2> QED
      BY <2>1 DEF QueueType, InboxType, Queues
  <1>2. /\ \A k \in Key : Len(queue'[k]) = Len(queue[k]) + Len(jobs[k])
        /\ \A k \in Key : \A i \in 1..Len(queue[k]) : queue'[k][i] = queue[k][i]
        /\ \A k \in Key : \A i \in (Len(queue[k]) + 1)..Len(queue'[k]) :
             /\ i - Len(queue[k]) \in 1..Len(jobs[k])
             /\ queue'[k][i].job = jobs[k][i - Len(queue[k])] /\ ~queue'[k][i].done
    BY Submitted
  <1>3. CellFacts(queue, inbox) /\ CellFacts(queue', inbox)
    BY <1>1, CellsAre
  <1>4. \A k \in Key : Len(queue[k]) \in Nat /\ Len(jobs[k]) \in Nat /\ k # "inbox"
    BY <1>1 DEF Queues, Jobs, Key
  <1>5. CellsNow' /\ Cells' = CellsIn(queue', inbox) /\ \A x : Entry(x)' = EntryIn(queue', inbox, x)
    BY <1>3 DEF CellsNow, Cells, Entry
  <1>6. ASSUME NEW x \in Cells PROVE x \in Cells' /\ Entry(x)' = Entry(x)
    <2>1. x \in CellsIn(queue, inbox) /\ x = <<x[1], x[2]>>
      BY <1>3, <1>6 DEF Cells, CellFacts
    <2>2. CASE x[1] = "inbox"
      <3>1. x[2] \in 1..Len(inbox) /\ EntryIn(queue, inbox, x) = inbox[x[2]]
        BY <1>3, <2>1, <2>2 DEF CellFacts
      <3>2. x \in CellsIn(queue', inbox) /\ EntryIn(queue', inbox, x) = inbox[x[2]]
        BY <1>3, <2>1, <2>2, <3>1 DEF CellFacts
      <3> QED
        BY <1>5, <3>1, <3>2 DEF Entry
    <2>3. CASE x[1] # "inbox"
      <3>1. x[1] \in Key /\ x[2] \in 1..Len(queue[x[1]]) /\ EntryIn(queue, inbox, x) = queue[x[1]][x[2]]
        BY <1>3, <2>1, <2>3 DEF CellFacts
      <3>2. x[2] \in 1..Len(queue'[x[1]]) /\ queue'[x[1]][x[2]] = queue[x[1]][x[2]]
        <4>1. PICK k \in Key : k = x[1]
          BY <3>1
        <4>2. PICK i \in Nat : i = x[2] /\ i \in 1..Len(queue[k])
          BY <3>1, <4>1
        <4>3. queue'[k][i] = queue[k][i]
          BY <1>2, <4>2
        <4>4. Len(queue'[k]) = Len(queue[k]) + Len(jobs[k])
          BY <1>2
        <4>5. \A l, w \in Nat : \A n \in 1..l : n \in 1..(l + w)
          OBVIOUS
        <4>6. i \in 1..Len(queue'[k])
          BY <1>4, <4>2, <4>4, <4>5
        <4> QED
          BY <4>1, <4>2, <4>3, <4>6
      <3>3. x \in CellsIn(queue', inbox) /\ EntryIn(queue', inbox, x) = queue'[x[1]][x[2]]
        BY <1>3, <2>1, <3>1, <3>2 DEF CellFacts
      <3> QED
        BY <1>5, <3>1, <3>2, <3>3 DEF Entry
    <2> QED
      BY <2>2, <2>3
  <1>7. ASSUME NEW x \in Cells', x \notin Cells PROVE NewCell(x, jobs)
    <2>1. x \in CellsIn(queue', inbox)
      BY <1>5
    <2>2. x = <<x[1], x[2]>> /\ x[1] \in Key \cup {"inbox"} /\ x[2] \in Nat \ {0}
      BY <1>3, <2>1 DEF CellFacts
    <2>3. x[1] # "inbox"
      <3> SUFFICES ASSUME x[1] = "inbox" PROVE FALSE
        OBVIOUS
      <3>1. x[2] \in 1..Len(inbox)
        BY <1>3, <2>1 DEF CellFacts
      <3>2. <<"inbox", x[2]>> \in CellsIn(queue, inbox)
        BY <1>3, <3>1 DEF CellFacts
      <3> QED
        BY <1>7, <2>2, <3>2 DEF Cells
    <2>4. x[1] \in Key /\ x[2] \in 1..Len(queue'[x[1]]) /\ EntryIn(queue', inbox, x) = queue'[x[1]][x[2]]
      BY <1>3, <2>1, <2>2, <2>3 DEF CellFacts
    <2>5. x[2] \notin 1..Len(queue[x[1]])
      <3> SUFFICES ASSUME x[2] \in 1..Len(queue[x[1]]) PROVE FALSE
        OBVIOUS
      <3>1. <<x[1], x[2]>> \in CellsIn(queue, inbox)
        BY <1>3, <2>4 DEF CellFacts
      <3> QED
        BY <1>7, <2>2, <3>1 DEF Cells
    <2>6. x[2] \in (Len(queue[x[1]]) + 1)..Len(queue'[x[1]]) /\ x[2] = Len(queue[x[1]]) + (x[2] - Len(queue[x[1]]))
      BY <1>2, <1>4, <2>2, <2>4, <2>5
    <2> QED
      BY <1>2, <1>5, <2>4, <2>6 DEF NewCell
  <1>8. ASSUME NEW k \in Key, NEW n \in 1..Len(jobs[k]) PROVE \E x \in Cells' : x[1] = k /\ Entry(x)'.job = jobs[k][n]
    <2>1. \E i \in Nat : i \in 1..Len(queue'[k]) /\ i \in (Len(queue[k]) + 1)..Len(queue'[k]) /\ i - Len(queue[k]) = n
      <3>1. \A l, w \in Nat : \A c \in 1..w :
              l + c \in Nat /\ l + c \in 1..(l + w) /\ l + c \in (l + 1)..(l + w) /\ (l + c) - l = c
        OBVIOUS
      <3>2. Len(queue[k]) \in Nat /\ Len(jobs[k]) \in Nat /\ Len(queue'[k]) = Len(queue[k]) + Len(jobs[k])
        BY <1>2, <1>4
      <3> QED
        BY <3>1, <3>2
    <2>2. PICK i \in Nat : i \in 1..Len(queue'[k]) /\ i \in (Len(queue[k]) + 1)..Len(queue'[k]) /\ i - Len(queue[k]) = n
      BY <2>1
    <2>3. queue'[k][i].job = jobs[k][n]
      BY <1>2, <2>2
    <2>4. <<k, i>> \in CellsIn(queue', inbox) /\ EntryIn(queue', inbox, <<k, i>>) = queue'[k][i]
      BY <1>3, <2>2 DEF CellFacts
    <2> DEFINE x == <<k, i>>
    <2>5. x \in Cells' /\ x[1] = k /\ EntryIn(queue', inbox, x) = queue'[k][i]
      BY <1>5, <2>4
    <2> HIDE DEF x
    <2>6. Entry(x)' = queue'[k][i]
      BY <1>5, <2>5
    <2> QED
      BY <2>3, <2>5, <2>6
  <1> QED
    BY <1>2, <1>5, <1>6, <1>7, <1>8 DEF Grown

\* A job goes from one cell to another, or away: every other one stays itself.
Moved(src, h) ==
  /\ Carries(src, h, queue, inbox, queue', inbox') /\ CellsNow' /\ h \in Cells
  /\ \A x \in Cells' : src[x] = h => Entry(x)'.job = Entry(h).job

LEMMA MovedByHandle ==
    ASSUME QueueType, InboxType, inbox # <<>>, inbox' = Tail(inbox), queue' = queue
    PROVE  /\ Entry(<<"inbox", 1>>) = Head(inbox)
           /\ \E src : Moved(src, <<"inbox", 1>>) /\ \A x \in Cells' : src[x] # <<"inbox", 1>>
  <1>1. queue \in Queues /\ inbox \in Seq(Message)
    BY DEF QueueType, InboxType, Queues
  <1>2. PICK src : Carries(src, <<"inbox", 1>>, queue, inbox, queue, Tail(inbox))
                   /\ \A x \in CellsIn(queue, Tail(inbox)) : src[x] # <<"inbox", 1>>
    BY <1>1, CarriedTail
  <1>3. Cells' = CellsIn(queue, Tail(inbox))
    BY DEF Cells
  <1>4. Tail(inbox) \in Seq(Message) /\ 1 \in 1..Len(inbox) /\ Head(inbox) = inbox[1]
    BY <1>1
  <1>5. CellFacts(queue, Tail(inbox)) /\ CellFacts(queue, inbox)
    BY <1>1, <1>4, CellsAre
  <1>6. <<"inbox", 1>> \in Cells /\ Entry(<<"inbox", 1>>) = Head(inbox)
    BY <1>4, <1>5 DEF CellFacts, Cells, Entry
  <1>7. CellsNow'
    BY <1>5 DEF CellsNow
  <1>8. Carries(src, <<"inbox", 1>>, queue, inbox, queue', inbox')
    BY <1>2
  <1>9. \A x \in Cells' : src[x] # <<"inbox", 1>>
    BY <1>2, <1>3
  <1>10. Moved(src, <<"inbox", 1>>)
    BY <1>6, <1>7, <1>8, <1>9 DEF Moved
  <1> QED
    BY <1>6, <1>9, <1>10

\* What becomes of the job at the head of k that a worker is done with: its answer,
\* the last of the inbox, or nothing.
Answered(src, k, m) ==
  /\ \A x \in Cells' : src[x] = <<k, 1>> =>
       /\ Boxed(x) /\ Entry(x)' = m /\ inbox' # inbox
       /\ \A y \in Cells' : Boxed(y) /\ src[y] # <<k, 1>> => y[2] < x[2]
  /\ inbox' = Append(inbox, m) => \E x \in Cells' : src[x] = <<k, 1>>

LEMMA MovedByFinish ==
    ASSUME QueueType, InboxType, NEW k \in Key, queue[k] # <<>>, queue' = [queue EXCEPT ![k] = Tail(@)],
           NEW ok \in BOOLEAN, inbox' = inbox \/ inbox' = Append(inbox, Answer(Head(queue[k]).job, ok))
    PROVE  /\ Entry(<<k, 1>>) = Head(queue[k])
           /\ \E src : Moved(src, <<k, 1>>) /\ Answered(src, k, Answer(Head(queue[k]).job, ok))
  <1> DEFINE m == Answer(Head(queue[k]).job, ok)
  <1>1. queue \in Queues /\ inbox \in Seq(Message)
    BY DEF QueueType, InboxType, Queues
  <1>2. Head(queue[k]).job \in Job /\ Head(queue[k]) = queue[k][1] /\ Len(queue[k]) >= 1 /\ Len(queue[k]) \in Nat
    <2>1. queue[k] \in Seq(Item)
      BY <1>1 DEF Queues
    <2>2. Head(queue[k]) \in Item /\ Head(queue[k]) = queue[k][1] /\ Len(queue[k]) >= 1 /\ Len(queue[k]) \in Nat
      BY <2>1
    <2> QED
      BY <2>2 DEF Item
  <1>3. m \in Message /\ m.job = Head(queue[k]).job
    BY <1>2 DEF Message, Answer
  <1> HIDE DEF m
  <1>4. PICK q2 : q2 = queue'
    OBVIOUS
  <1>5. PICK b2 : b2 = inbox'
    OBVIOUS
  <1>6. TailIn(queue, k, q2) /\ (b2 = inbox \/ b2 = Append(inbox, m))
    BY <1>4, <1>5 DEF m, TailIn
  <1>7. PICK src : /\ Carries(src, <<k, 1>>, queue, inbox, q2, b2)
                   /\ \A x \in CellsIn(q2, b2) : src[x] = <<k, 1>> =>
                        /\ x[1] = "inbox" /\ EntryIn(q2, b2, x) = m /\ b2 # inbox
                        /\ \A y \in CellsIn(q2, b2) : y[1] = "inbox" /\ src[y] # <<k, 1>> => y[2] < x[2]
                   /\ b2 = Append(inbox, m) => \E x \in CellsIn(q2, b2) : src[x] = <<k, 1>>
    <2>1. Finishes(k, m, queue, inbox, q2, b2)
      BY <1>1, <1>3, <1>6, CarriedFinish, ZenonT(60)
    <2> QED
      BY <2>1 DEF Finishes
  <1>8. Cells' = CellsIn(q2, b2) /\ \A x : Entry(x)' = EntryIn(q2, b2, x)
    BY <1>4, <1>5 DEF Cells, Entry
  <1>9. q2 \in Queues /\ b2 \in Seq(Message)
    <2>1. QueueType'
      BY Taken
    <2>2. Append(inbox, m) \in Seq(Message)
      BY <1>1, <1>3
    <2> QED
      BY <1>1, <1>4, <1>6, <2>1, <2>2 DEF QueueType, Queues
  <1>10. CellFacts(q2, b2) /\ CellFacts(queue, inbox)
    BY <1>1, <1>9, CellsAre
  <1>11. 1 \in 1..Len(queue[k])
    BY <1>2
  <1>12. <<k, 1>> \in Cells /\ Entry(<<k, 1>>) = Head(queue[k])
    BY <1>2, <1>10, <1>11 DEF CellFacts, Cells, Entry
  <1>13. CellsNow'
    BY <1>4, <1>5, <1>10 DEF CellsNow
  <1>14. Carries(src, <<k, 1>>, queue, inbox, queue', inbox')
    BY <1>4, <1>5, <1>7
  <1>15. Answered(src, k, m)
    BY <1>5, <1>7, <1>8 DEF Answered, Boxed
  <1>16. Moved(src, <<k, 1>>)
    BY <1>3, <1>12, <1>13, <1>14, <1>15 DEF Moved, Answered
  <1> QED
    BY <1>12, <1>15, <1>16 DEF m

LEMMA MovedByMark ==
    ASSUME QueueType, InboxType, NEW k \in Key, queue[k] # <<>>, queue' = [queue EXCEPT ![k][1].done = TRUE], inbox' = inbox
    PROVE  /\ Entry(<<k, 1>>) = Head(queue[k])
           /\ \E src : /\ Moved(src, <<k, 1>>)
                       /\ \A x \in Cells' : src[x] = x /\ x \in Cells
                       /\ <<k, 1>> \in Cells' /\ Entry(<<k, 1>>)'.done
  <1>1. queue \in Queues /\ inbox \in Seq(Message)
    BY DEF QueueType, InboxType, Queues
  <1>2. Head(queue[k]) = queue[k][1] /\ 1 \in 1..Len(queue[k]) /\ k # "inbox"
    <2>1. queue[k] \in Seq(Item)
      BY <1>1 DEF Queues
    <2> QED
      BY <2>1 DEF Key
  <1>3. /\ CellsIn(queue', inbox) = CellsIn(queue, inbox) /\ queue' \in Queues
        /\ <<k, 1>> \in CellsIn(queue, inbox)
        /\ \A x \in CellsIn(queue, inbox) : x # <<k, 1>> => EntryIn(queue', inbox, x) = EntryIn(queue, inbox, x)
        /\ EntryIn(queue', inbox, <<k, 1>>).done = TRUE
        /\ EntryIn(queue', inbox, <<k, 1>>).job = EntryIn(queue, inbox, <<k, 1>>).job
        /\ \A c \in Key : Len(queue'[c]) = Len(queue[c])
    <2>1. PICK q2 : q2 = queue'
      OBVIOUS
    <2>2. MarkIn(queue, k, queue')
      BY Marks
    <2>4. MarkIn(queue, k, q2)
      BY <2>1, <2>2
    <2>3. /\ CellsIn(q2, inbox) = CellsIn(queue, inbox) /\ q2 \in Queues
          /\ <<k, 1>> \in CellsIn(queue, inbox)
          /\ \A x \in CellsIn(queue, inbox) : x # <<k, 1>> => EntryIn(q2, inbox, x) = EntryIn(queue, inbox, x)
          /\ EntryIn(q2, inbox, <<k, 1>>).done = TRUE
          /\ EntryIn(q2, inbox, <<k, 1>>).job = EntryIn(queue, inbox, <<k, 1>>).job
          /\ \A c \in Key : Len(q2[c]) = Len(queue[c])
      BY <1>1, <2>4, CarriedMark, ZenonT(60)
    <2> QED
      BY <2>1, <2>3
  <1>4. CellFacts(queue', inbox') /\ CellFacts(queue, inbox)
    BY <1>1, <1>3, CellsAre
  <1>5. CellsNow' /\ Cells' = CellsIn(queue', inbox') /\ Cells = CellsIn(queue, inbox)
        /\ (\A x : Entry(x)' = EntryIn(queue', inbox', x)) /\ (\A x : Entry(x) = EntryIn(queue, inbox, x))
    BY <1>4 DEF CellsNow, Cells, Entry
  <1>6. Entry(<<k, 1>>) = Head(queue[k])
    BY <1>2, <1>4, <1>5 DEF CellFacts
  <1>7. \A x \in CellsIn(queue, inbox) : x[1] # "inbox" => x[1] \in Key
    BY <1>4 DEF CellFacts
  <1> DEFINE src == [x \in Cells' |-> x]
  <1>8. src \in [CellsIn(queue', inbox') -> CellsIn(queue, inbox)] /\ \A x \in CellsIn(queue', inbox') : src[x] = x
    BY <1>3, <1>5
  <1> HIDE DEF src
  <1>9. Carries(src, <<k, 1>>, queue, inbox, queue', inbox')
    BY <1>3, <1>7, <1>8 DEF Carries
  <1>10. Moved(src, <<k, 1>>)
    BY <1>3, <1>5, <1>8, <1>9 DEF Moved
  <1> QED
    BY <1>3, <1>5, <1>6, <1>8, <1>10

LEMMA CellJobs ==
    ASSUME QueueType, InboxType
    PROVE  \A x \in Cells : /\ x = <<x[1], x[2]>> /\ x[2] \in Nat \ {0} /\ Entry(x).job \in Job
                            /\ Boxed(x) => x[2] \in 1..Len(inbox) /\ Entry(x) = inbox[x[2]]
                            /\ ~Boxed(x) => /\ x[1] \in Key /\ x[2] \in 1..Len(queue[x[1]])
                                            /\ Entry(x) = queue[x[1]][x[2]] /\ Entry(x).job.key = x[1]
  <1> SUFFICES ASSUME NEW x \in Cells
      PROVE  /\ x = <<x[1], x[2]>> /\ x[2] \in Nat \ {0} /\ Entry(x).job \in Job
             /\ Boxed(x) => x[2] \in 1..Len(inbox) /\ Entry(x) = inbox[x[2]]
             /\ ~Boxed(x) => /\ x[1] \in Key /\ x[2] \in 1..Len(queue[x[1]])
                             /\ Entry(x) = queue[x[1]][x[2]] /\ Entry(x).job.key = x[1]
    OBVIOUS
  <1>1. /\ x = <<x[1], x[2]>> /\ x[1] \in Key \cup {"inbox"} /\ x[2] \in Nat \ {0}
        /\ x[1] = "inbox" => x[2] \in 1..Len(inbox) /\ Entry(x) = inbox[x[2]]
        /\ x[1] # "inbox" => x[2] \in 1..Len(queue[x[1]]) /\ Entry(x) = queue[x[1]][x[2]]
        /\ Entry(x).job \in Job
    BY CellsTyped DEF CellsNow, CellFacts, Cells, Entry
  <1> QED
    BY <1>1 DEF Boxed, QueueType

\* Which book an order is of, and which closing a job is.
LEMMA Books ==
    ASSUME NEW j \in Job
    PROVE  /\ OrderOf("treaty", j) => j \in TreatyJobs /\ j.key = "treaty"
           /\ OrderOf("trade", j) => j \in OfferJobs \cup AcceptJobs /\ j.key \in {"trade", "city"}
           /\ j.order => OrderOf("treaty", j) \/ OrderOf("trade", j)
           /\ ~(OrderOf("treaty", j) /\ OrderOf("trade", j))
           /\ j \in TreatyJobs /\ j.order => OrderOf("treaty", j)
           /\ j \in OfferJobs \cup AcceptJobs /\ j.order => OrderOf("trade", j)
           /\ EndOf("Treaty", j) => j \in TreatyJobs /\ ~j.order /\ j.key = "treaty"
           /\ EndOf("Offer", j) => j \in OfferJobs /\ ~j.order /\ j.key = "trade"
           /\ j \in {EnterJob, LeaveJob} => ~j.order /\ j.key = "unit" /\ ~EndOf("Treaty", j) /\ ~EndOf("Offer", j)
           /\ j \in Job /\ ~j.order /\ j \notin {EnterJob, LeaveJob} => EndOf("Treaty", j) \/ EndOf("Offer", j)
           /\ j.key = "unit" => j \in {EnterJob, LeaveJob}
           /\ j.key = "treaty" => j \in TreatyJobs
           /\ j.key = "trade" => j \in OfferJobs
           /\ j.key = "city" => j \in AcceptJobs
  <1>1. CASE j \in TreatyJobs
    <2>1. j.k = "Treaty" /\ j.key = "treaty" /\ j.order \in BOOLEAN
      BY <1>1 DEF TreatyJobs
    <2>3. EnterJob.key = "unit" /\ LeaveJob.key = "unit"
      BY DEF EnterJob, LeaveJob, UnitJob
    <2>4. \A i \in OfferJobs \cup AcceptJobs : i.key # "treaty"
      BY DEF OfferJobs, AcceptJobs
    <2>2. j \notin OfferJobs \cup AcceptJobs /\ j \notin {EnterJob, LeaveJob}
      BY <2>1, <2>3, <2>4
    <2> QED
      BY <1>1, <2>1, <2>2 DEF OrderOf, BookOf, EndOf
  <1>2. CASE j \in OfferJobs
    <2>1. j.k = "Offer" /\ j.key = "trade" /\ j.order \in BOOLEAN
      BY <1>2 DEF OfferJobs
    <2>2. j \notin TreatyJobs /\ j \notin {EnterJob, LeaveJob}
      BY <2>1 DEF TreatyJobs, EnterJob, LeaveJob, UnitJob
    <2> QED
      BY <1>2, <2>1, <2>2 DEF OrderOf, BookOf, EndOf
  <1>3. CASE j \in AcceptJobs
    <2>1. j.k = "Accept" /\ j.key = "city" /\ j.order = TRUE
      BY <1>3 DEF AcceptJobs
    <2>2. j \notin TreatyJobs /\ j \notin {EnterJob, LeaveJob}
      BY <2>1 DEF TreatyJobs, EnterJob, LeaveJob, UnitJob
    <2> QED
      BY <1>3, <2>1, <2>2 DEF OrderOf, BookOf, EndOf
  <1>4. CASE j \in {EnterJob, LeaveJob}
    <2>1. j.k \in {"Enter", "Leave"} /\ j.key = "unit" /\ j.order = FALSE
      BY <1>4 DEF EnterJob, LeaveJob, UnitJob
    <2> QED
      BY <1>4, <2>1 DEF OrderOf, BookOf, EndOf
  <1> QED
    BY <1>1, <1>2, <1>3, <1>4 DEF Job

LEMMA UnitKinds ==
    /\ EnterJob.k = "Enter" /\ LeaveJob.k = "Leave" /\ EnterJob # LeaveJob
    /\ \A j \in Job : (j.k = "Enter" <=> j = EnterJob) /\ (j.k = "Leave" <=> j = LeaveJob)
  <1>1. EnterJob.k = "Enter" /\ LeaveJob.k = "Leave"
    BY DEF EnterJob, LeaveJob, UnitJob
  <1>2. \A j \in Job : j \in {EnterJob, LeaveJob} \/ j.k \in {"Treaty", "Offer", "Accept"}
    BY DEF Job, TreatyJobs, OfferJobs, AcceptJobs
  <1> QED
    BY <1>1, <1>2

-----------------------------------------------------------------------------
(* The reservations and the order of the queues.                           *)

\* A step that moves one job: its answer comes, or the book is freed by it.
LEMMA OrderlyMoved ==
    ASSUME QueueType, InboxType, QueueType', InboxType', Orderly, NEW src, NEW h, Moved(src, h), lost => lost',
           \A b \in Book : (b \in busy' <=> b \in busy) \/ (b \notin busy' /\ OrderOf(b, Entry(h).job) /\ \A x \in Cells' : src[x] # h),
           \A b \in Book : b \in busy' /\ OrderOf(b, Entry(h).job) => lost' \/ \E x \in Cells' : src[x] = h,
           \A x \in Cells' : src[x] = h /\ ~Boxed(x) => x[2] = 1,
           failures' = 0 => /\ failures = 0 /\ failed' = {}
                            /\ \A x \in Cells' : src[x] = h => Boxed(x) /\ (Entry(h).job.order \/ Entry(h).job = EnterJob)
    PROVE  Orderly'
  <1>1. /\ \A x \in Cells' : src[x] \in Cells /\ Entry(x)'.job = Entry(src[x]).job
        /\ \A x, y \in Cells' : src[x] = src[y] => x = y
        /\ \A y \in Cells : y # h => \E x \in Cells' : src[x] = y
        /\ \A x \in Cells' : src[x] # h => /\ Entry(x)' = Entry(src[x]) /\ x[1] = src[x][1]
                                           /\ src[x][2] = 1 => x[2] = 1
                                           /\ x[1] # "inbox" /\ src[x][2] = Len(queue[x[1]]) => x[2] = Len(queue'[x[1]])
    BY DEF Moved, Carries, Cells, Entry
  <1>2. \A b \in Book : Lone(b) /\ Reserved(b)
    BY DEF Orderly, Book
  <1>3. ASSUME NEW b \in Book PROVE Lone(b)' /\ Reserved(b)'
    <2>1. \A x \in OrderCells(b)' : x \in Cells' /\ src[x] \in OrderCells(b)
      BY <1>1 DEF OrderCells
    <2>2. \A x \in Cells' : src[x] \in OrderCells(b) => x \in OrderCells(b)'
      BY <1>1 DEF OrderCells
    <2>3. \A x, y \in OrderCells(b)' : x = y
      <3> SUFFICES ASSUME NEW x \in OrderCells(b)', NEW y \in OrderCells(b)' PROVE x = y
        OBVIOUS
      <3>1. src[x] = src[y]
        BY <1>2, <2>1 DEF Lone
      <3> QED
        BY <1>1, <2>1, <3>1
    <2>4. CASE b \in busy' <=> b \in busy
      <3>1. b \notin busy' => OrderCells(b)' = {}
        BY <1>2, <2>1, <2>4 DEF Lone
      <3>2. ASSUME b \in busy', ~lost' PROVE OrderCells(b)' # {}
        <4>1. PICK y \in OrderCells(b) : TRUE
          BY <1>2, <2>4, <3>2 DEF Reserved
        <4>2. y \in Cells /\ OrderOf(b, Entry(y).job)
          BY DEF OrderCells
        <4>3. \E x \in Cells' : src[x] = y
          BY <1>1, <3>2, <4>2
        <4> QED
          BY <2>2, <4>3
      <3> QED
        BY <2>3, <3>1, <3>2 DEF Lone, Reserved
    <2>5. CASE b \notin busy' /\ OrderOf(b, Entry(h).job) /\ \A x \in Cells' : src[x] # h
      <3>1. h \in OrderCells(b)
        BY <2>5 DEF Moved, OrderCells
      <3>2. OrderCells(b)' = {}
        BY <1>2, <2>1, <2>5, <3>1 DEF Lone
      <3> QED
        BY <2>3, <2>5, <3>2 DEF Lone, Reserved
    <2> QED
      BY <2>4, <2>5
  <1>4. \A x \in Cells' : src[x] # h => (Boxed(x) <=> Boxed(src[x]))
    BY <1>1 DEF Boxed
  <1>5. DoneFirst'
    <2> SUFFICES ASSUME NEW x \in Cells', ~Boxed(x), Entry(x)'.done PROVE x[2] = 1
      BY DEF DoneFirst, Boxed
    <2>1. CASE src[x] = h
      BY <2>1
    <2>2. CASE src[x] # h
      <3>1. src[x] \in Cells /\ ~Boxed(src[x]) /\ Entry(src[x]).done
        BY <1>1, <1>4, <2>2
      <3> QED
        BY <1>1, <2>2, <3>1 DEF Orderly, DoneFirst
    <2> QED
      BY <2>1, <2>2
  <1>6. Unfailed'
    <2> SUFFICES ASSUME failures' = 0
        PROVE  /\ failed' = {}
               /\ \A x \in Cells' : IF Boxed(x) THEN Entry(x)'.job.order \/ Entry(x)'.job = EnterJob
                                    ELSE ~Entry(x)'.done /\ (Entry(x)'.job.order => x[2] = Len(queue'[x[1]]))
      BY DEF Unfailed, Boxed, EnterJob, UnitJob
    <2> SUFFICES ASSUME NEW x \in Cells'
        PROVE  IF Boxed(x) THEN Entry(x)'.job.order \/ Entry(x)'.job = EnterJob
               ELSE ~Entry(x)'.done /\ (Entry(x)'.job.order => x[2] = Len(queue'[x[1]]))
      OBVIOUS
    <2>1. CASE src[x] = h
      BY <1>1, <2>1
    <2>2. CASE src[x] # h
      <3>1. IF Boxed(src[x]) THEN Entry(src[x]).job.order \/ Entry(src[x]).job = EnterJob
            ELSE ~Entry(src[x]).done /\ (Entry(src[x]).job.order => src[x][2] = Len(queue[src[x][1]]))
        BY <1>1 DEF Orderly, Unfailed
      <3>2. ~Boxed(x) => x[1] # "inbox"
        BY DEF Boxed
      <3> QED
        BY <1>1, <1>4, <2>2, <3>1, <3>2
    <2> QED
      BY <2>1, <2>2
  <1> QED
    BY <1>3, <1>5, <1>6 DEF Orderly, Book

\* A queue with an order gets nothing after it, while nothing fails.
Room(jobs) == \A x \in Cells : ~Boxed(x) /\ Entry(x).job.order => Len(jobs[x[1]]) = 0

LEMMA OrderlyGrown ==
    ASSUME QueueType, InboxType, CellsNow', Orderly, NEW jobs \in Jobs, Grown(jobs), OfKeys(jobs), lost' = lost, failures' = failures,
           failures = 0 => failed' = {} /\ Room(jobs),
           NEW new \in SUBSET Book, busy' = busy \cup new, new \cap busy = {},
           \A b \in Book : (\A k \in Key : \A n \in 1..Len(jobs[k]) : OrderOf(b, jobs[k][n]) => b \in new /\ Len(jobs[k]) = 1),
           \A b \in new : \E k \in Key : \E n \in 1..Len(jobs[k]) : OrderOf(b, jobs[k][n]),
           \A b \in new : \A k, l \in Key : \A n \in 1..Len(jobs[k]) : \A m \in 1..Len(jobs[l]) :
              OrderOf(b, jobs[k][n]) /\ OrderOf(b, jobs[l][m]) => k = l
    PROVE  Orderly'
  <1> USE DEF Grown, NewCell
  <1>1. \A b \in Book : Lone(b) /\ Reserved(b)
    BY DEF Orderly, Book
  <1>2. \A k \in Key : Len(queue[k]) \in Nat /\ Len(jobs[k]) \in Nat
    BY DEF QueueType, Jobs
  <1>3. ASSUME NEW x \in Cells', x \notin Cells
        PROVE  /\ x[1] \in Key /\ ~Boxed(x) /\ ~Entry(x)'.done
               /\ \E n \in 1..Len(jobs[x[1]]) : Entry(x)'.job = jobs[x[1]][n] /\ x[2] = Len(queue[x[1]]) + n
    BY <1>3 DEF Boxed, Key
  <1>4. ASSUME NEW b \in Book PROVE Lone(b)' /\ Reserved(b)'
    <2>1. CASE b \notin new
      <3>1. \A x \in OrderCells(b)' : x \in OrderCells(b)
        BY <1>3, <2>1 DEF OrderCells
      <3>2. \A x \in OrderCells(b) : x \in OrderCells(b)'
        BY DEF OrderCells
      <3> QED
        BY <1>1, <2>1, <3>1, <3>2 DEF Lone, Reserved
    <2>2. CASE b \in new
      <3>1. OrderCells(b) = {}
        BY <1>1, <2>2 DEF Lone
      <3>2. \A x \in OrderCells(b)' : x \in Cells' /\ x \notin Cells
        BY <3>1 DEF OrderCells
      <3>3. ASSUME NEW x \in OrderCells(b)'
            PROVE  /\ x[1] \in Key /\ x[2] = Len(queue[x[1]]) + 1 /\ 1 \in 1..Len(jobs[x[1]]) /\ OrderOf(b, jobs[x[1]][1])
        <4>1. x[1] \in Key /\ OrderOf(b, Entry(x)'.job)
          BY <1>3, <3>2 DEF OrderCells
        <4>2. PICK n \in 1..Len(jobs[x[1]]) : Entry(x)'.job = jobs[x[1]][n] /\ x[2] = Len(queue[x[1]]) + n
          BY <1>3, <3>2
        <4>3. Len(jobs[x[1]]) = 1
          BY <4>1, <4>2
        <4>4. n = 1
          BY <4>3
        <4> QED
          BY <4>1, <4>2, <4>3, <4>4
      <3>4. \A x, y \in OrderCells(b)' : x = y
        <4> SUFFICES ASSUME NEW x \in OrderCells(b)', NEW y \in OrderCells(b)' PROVE x = y
          OBVIOUS
        <4>1. x[1] = y[1] /\ x[2] = y[2]
          BY <2>2, <3>3
        <4>2. x = <<x[1], x[2]>> /\ y = <<y[1], y[2]>>
          BY <3>2, CellsTyped DEF CellsNow, CellFacts, Cells
        <4> QED
          BY <4>1, <4>2
      <3>5. OrderCells(b)' # {}
        <4>1. PICK k \in Key : \E n \in 1..Len(jobs[k]) : OrderOf(b, jobs[k][n])
          BY <2>2
        <4>2. PICK n \in 1..Len(jobs[k]) : OrderOf(b, jobs[k][n])
          BY <4>1
        <4>3. PICK x \in Cells' : Entry(x)'.job = jobs[k][n]
          OBVIOUS
        <4> QED
          BY <4>2, <4>3 DEF OrderCells
      <3> QED
        BY <2>2, <3>4, <3>5 DEF Lone, Reserved
    <2> QED
      BY <2>1, <2>2
  <1>5. DoneFirst'
    <2> SUFFICES ASSUME NEW x \in Cells', ~Boxed(x), Entry(x)'.done PROVE x[2] = 1
      BY DEF DoneFirst, Boxed
    <2> QED
      BY <1>3 DEF Orderly, DoneFirst
  <1>6. Unfailed'
    <2> SUFFICES ASSUME failures' = 0
        PROVE  /\ failed' = {}
               /\ \A x \in Cells' : IF Boxed(x) THEN Entry(x)'.job.order \/ Entry(x)'.job = EnterJob
                                    ELSE ~Entry(x)'.done /\ (Entry(x)'.job.order => x[2] = Len(queue'[x[1]]))
      BY DEF Unfailed, Boxed, EnterJob, UnitJob
    <2> SUFFICES ASSUME NEW x \in Cells'
        PROVE  IF Boxed(x) THEN Entry(x)'.job.order \/ Entry(x)'.job = EnterJob
               ELSE ~Entry(x)'.done /\ (Entry(x)'.job.order => x[2] = Len(queue'[x[1]]))
      OBVIOUS
    <2>1. CASE x \in Cells
      <3>1. Entry(x)' = Entry(x)
        BY <2>1
      <3>2. IF Boxed(x) THEN Entry(x).job.order \/ Entry(x).job = EnterJob
            ELSE ~Entry(x).done /\ (Entry(x).job.order => x[2] = Len(queue[x[1]]))
        BY <2>1 DEF Orderly, Unfailed
      <3>3. ASSUME ~Boxed(x), Entry(x).job.order PROVE Len(queue'[x[1]]) = Len(queue[x[1]])
        <4>1. x[1] \in Key
          BY <2>1, <3>3, CellJobs
        <4>2. Len(jobs[x[1]]) = 0 /\ Len(queue'[x[1]]) = Len(queue[x[1]]) + Len(jobs[x[1]])
          BY <2>1, <3>3, <4>1 DEF Room
        <4> QED
          BY <1>2, <4>1, <4>2
      <3> QED
        BY <3>1, <3>2, <3>3
    <2>2. CASE x \notin Cells
      <3>1. PICK n \in 1..Len(jobs[x[1]]) : Entry(x)'.job = jobs[x[1]][n] /\ x[2] = Len(queue[x[1]]) + n
        BY <1>3, <2>2
      <3>2. x[1] \in Key /\ ~Boxed(x) /\ ~Entry(x)'.done /\ jobs[x[1]][n] \in Job
        BY <1>3, <2>2 DEF Jobs
      <3>3. ASSUME Entry(x)'.job.order PROVE x[2] = Len(queue'[x[1]])
        <4>1. OrderOf("treaty", jobs[x[1]][n]) \/ OrderOf("trade", jobs[x[1]][n])
          BY <3>1, <3>2, <3>3, Books
        <4>2. Len(jobs[x[1]]) = 1
          BY <3>2, <4>1 DEF Book
        <4>3. n = 1
          BY <4>2
        <4>4. Len(queue'[x[1]]) = Len(queue[x[1]]) + Len(jobs[x[1]])
          BY <3>2
        <4>5. Len(queue'[x[1]]) = Len(queue[x[1]]) + 1
          BY <4>2, <4>4
        <4> QED
          BY <3>1, <4>3, <4>5
      <3> QED
        BY <3>2, <3>3
    <2> QED
      BY <2>1, <2>2
  <1> QED
    BY <1>4, <1>5, <1>6 DEF Orderly, Book

-----------------------------------------------------------------------------
(* One treaty and one offer at a time, in memory and in the database.      *)

LEMMA OrdersMoved ==
    ASSUME NEW src, NEW h, Moved(src, h), NEW b
    PROVE  /\ \A x \in Cells' : src[x] \in Cells /\ Entry(x)'.job = Entry(src[x]).job
           /\ \A x : x \in OrderCells(b)' <=> x \in Cells' /\ src[x] \in OrderCells(b)
  <1>1. \A x \in Cells' : src[x] \in Cells /\ Entry(x)'.job = Entry(src[x]).job
    BY DEF Moved, Carries, Cells, Entry
  <1> QED
    BY <1>1 DEF OrderCells

LEMMA OneHeldMoved ==
    ASSUME NEW src, NEW h, Moved(src, h), OneHeld,
           pacts' = pacts \/ (OneOfEach(pacts') /\ OrderCells("treaty")' = {}),
           offers' = offers \/ (AtMostOne(offers') /\ OrderCells("trade")' = {})
    PROVE  OneHeld'
  <1>1. \A x \in OrderCells("treaty")' : src[x] \in OrderCells("treaty") /\ Entry(x)'.job = Entry(src[x]).job
    BY OrdersMoved
  <1>2. \A x \in OrderCells("trade")' : src[x] \in OrderCells("trade") /\ Entry(x)'.job = Entry(src[x]).job
    BY OrdersMoved
  <1>3. OneOfEach(pacts') /\ \A x \in OrderCells("treaty")' : OneOfEach(AfterTreaty(pacts', Entry(x)'.job))
    <2>1. CASE pacts' = pacts
      BY <1>1, <2>1 DEF OneHeld
    <2>2. CASE OneOfEach(pacts') /\ OrderCells("treaty")' = {}
      BY <2>2
    <2> QED
      BY <2>1, <2>2
  <1>4. AtMostOne(offers') /\ \A x \in OrderCells("trade")' : AtMostOne(AfterOffer(offers', Entry(x)'.job))
    <2>1. CASE offers' = offers
      BY <1>2, <2>1 DEF OneHeld
    <2>2. CASE AtMostOne(offers') /\ OrderCells("trade")' = {}
      BY <2>2
    <2> QED
      BY <2>1, <2>2
  <1> QED
    BY <1>3, <1>4 DEF OneHeld

LEMMA OrdersGrown ==
    ASSUME NEW jobs, Grown(jobs), NEW b
    PROVE  /\ \A x \in OrderCells(b) : x \in OrderCells(b)' /\ Entry(x)' = Entry(x)
           /\ \A x \in OrderCells(b)' : x \in OrderCells(b) \/
                (NewCell(x, jobs) /\ x[1] \in Key /\ \E n \in 1..Len(jobs[x[1]]) : Entry(x)'.job = jobs[x[1]][n] /\ OrderOf(b, jobs[x[1]][n]))
  BY DEF Grown, NewCell, OrderCells

LEMMA OneHeldGrown ==
    ASSUME NEW jobs, Grown(jobs), OneHeld, pacts' \subseteq pacts, offers' \subseteq offers,
           OrderCells("treaty") # {} => pacts' = pacts, OrderCells("trade") # {} => offers' = offers,
           \A k \in Key : \A n \in 1..Len(jobs[k]) :
             /\ OrderOf("treaty", jobs[k][n]) => OneOfEach(AfterTreaty(pacts', jobs[k][n]))
             /\ OrderOf("trade", jobs[k][n]) => AtMostOne(AfterOffer(offers', jobs[k][n]))
    PROVE  OneHeld'
  <1>1. OneOfEach(pacts') /\ AtMostOne(offers')
    BY DEF OneHeld, OneOfEach, AtMostOne
  <1>2. ASSUME NEW x \in OrderCells("treaty")' PROVE OneOfEach(AfterTreaty(pacts', Entry(x)'.job))
    <2>1. CASE x \in OrderCells("treaty")
      <3>1. pacts' = pacts /\ Entry(x)' = Entry(x)
        BY <2>1, OrdersGrown
      <3> QED
        BY <2>1, <3>1 DEF OneHeld
    <2>2. CASE x \notin OrderCells("treaty")
      BY <2>2, OrdersGrown
    <2> QED
      BY <2>1, <2>2
  <1>3. ASSUME NEW x \in OrderCells("trade")' PROVE AtMostOne(AfterOffer(offers', Entry(x)'.job))
    <2>1. CASE x \in OrderCells("trade")
      <3>1. offers' = offers /\ Entry(x)' = Entry(x)
        BY <2>1, OrdersGrown
      <3> QED
        BY <2>1, <3>1 DEF OneHeld
    <2>2. CASE x \notin OrderCells("trade")
      BY <2>2, OrdersGrown
    <2> QED
      BY <2>1, <2>2
  <1> QED
    BY <1>1, <1>2, <1>3 DEF OneHeld

LEMMA RowsAre ==
    ASSUME RowType(row), OneWritten PROVE TreatyRows(row.treaties) /\ OfferRows(row.offers) /\ row.inside \in BOOLEAN
  BY DEF RowType, OneWritten, TreatyRows, OfferRows

\* What each transaction does to the rows.
LEMMA Transaction ==
    ASSUME RowType(row), OneWritten, NEW j \in Job, NEW afford \in BOOLEAN, row' = Run(j, afford).row
    PROVE  /\ j \in TreatyJobs => /\ row'.treaties = TreatiesAfter(row.treaties, j)
                                  /\ Run(j, afford).ok = TreatyTaken(row.treaties, j)
           /\ j \notin TreatyJobs => row'.treaties = row.treaties
           /\ j \in OfferJobs \cup AcceptJobs => /\ row'.offers = OffersAfter(row.offers, j, j.k = "Offer" \/ afford)
                                                 /\ Run(j, afford).ok = OfferTaken(row.offers, j, j.k = "Offer" \/ afford)
           /\ j \notin OfferJobs \cup AcceptJobs => row'.offers = row.offers
           /\ j = EnterJob => /\ row'.inside <=> row.inside \/ Allied(row.treaties)
                              /\ Run(j, afford).ok <=> row'.inside
           /\ j = LeaveJob => ~row'.inside
           /\ j \notin {EnterJob, LeaveJob} => row'.inside = row.inside
           /\ OneWritten'
  <1>1. TreatyRows(row.treaties) /\ OfferRows(row.offers) /\ row.inside \in BOOLEAN
    BY RowsAre
  <1>2. CASE j \in TreatyJobs
    <2>1. Run(j, afford) = ApplyTreaty(j) /\ j \notin OfferJobs \cup AcceptJobs /\ j \notin {EnterJob, LeaveJob}
      <3>1. j.k = "Treaty"
        BY <1>2 DEF TreatyJobs
      <3>2. \A i \in OfferJobs \cup AcceptJobs : i.k # "Treaty"
        BY DEF OfferJobs, AcceptJobs
      <3> QED
        BY <3>1, <3>2, UnitKinds DEF Run
    <2>2. /\ row'.treaties = TreatiesAfter(row.treaties, j) /\ row'.offers = row.offers /\ row'.inside = row.inside
          /\ Run(j, afford).ok = TreatyTaken(row.treaties, j)
      BY <1>2, <2>1, TreatyTx
    <2>3. OneOfEach(row'.treaties)
      BY <1>1, <1>2, <2>2, OneOfEachKept
    <2>4. OneWritten'
      BY <2>2, <2>3 DEF OneWritten
    <2> QED
      BY <1>2, <2>1, <2>2, <2>4
  <1>3. CASE j \in OfferJobs \cup AcceptJobs
    <2> DEFINE a == j.k = "Offer" \/ afford
    <2>1. j \notin TreatyJobs /\ j \notin {EnterJob, LeaveJob} /\ j.t \in Offer
      <3>1. j.k \in {"Offer", "Accept"} /\ j.t \in Offer
        BY <1>3 DEF OfferJobs, AcceptJobs
      <3>2. \A i \in TreatyJobs : i.k = "Treaty"
        BY DEF TreatyJobs
      <3> QED
        BY <3>1, <3>2, UnitKinds
    <2>2. /\ row'.offers = OffersAfter(row.offers, j, a) /\ row'.treaties = row.treaties /\ row'.inside = row.inside
          /\ Run(j, afford).ok = OfferTaken(row.offers, j, a)
      BY <1>1, <1>3, OfferTx
    <2>3. OfferRows(row'.offers)
      <3>1. a \in BOOLEAN
        OBVIOUS
      <3> HIDE DEF a
      <3>2. OfferRows(OffersAfter(row.offers, j, a))
        BY <1>1, <2>1, <3>1, OffersKept
      <3> QED
        BY <2>2, <3>2
    <2>4. OneWritten'
      BY <2>2, <2>3 DEF OneWritten, OfferRows
    <2> QED
      BY <1>3, <2>1, <2>2, <2>4
  <1>4. CASE j \in {EnterJob, LeaveJob}
    <2>1. j \notin TreatyJobs /\ j \notin OfferJobs \cup AcceptJobs
      <3>1. \A i \in TreatyJobs \cup OfferJobs \cup AcceptJobs : i.k \in {"Treaty", "Offer", "Accept"}
        BY DEF TreatyJobs, OfferJobs, AcceptJobs
      <3> QED
        BY <1>4, <3>1, UnitKinds
    <2> DEFINE r(b) == [row EXCEPT !.inside = b]
    <2>2. \A b : r(b).treaties = row.treaties /\ r(b).offers = row.offers /\ r(b).inside = b
      BY DEF RowType
    <2>5. row'.treaties = row.treaties /\ row'.offers = row.offers => OneWritten'
      BY DEF OneWritten
    <2>6. j = EnterJob => j # LeaveJob
      BY UnitKinds
    <2> HIDE DEF r
    <2>3. CASE j = EnterJob
      <3>1. Run(j, afford) = Enter
        BY <2>3, UnitKinds DEF Run
      <3>2. Enter = IF row.inside THEN Wrote(row) ELSE IF Allied(row.treaties) THEN Wrote(r(TRUE)) ELSE Refused
        BY DEF Enter, r
      <3>3. /\ row'.treaties = row.treaties /\ row'.offers = row.offers
            /\ row'.inside <=> row.inside \/ Allied(row.treaties)
            /\ Run(j, afford).ok <=> row'.inside
        <4>1. CASE row.inside
          BY <3>1, <3>2, <4>1, Outcomes
        <4>2. CASE ~row.inside /\ Allied(row.treaties)
          <5>1. row' = r(TRUE) /\ Run(j, afford).ok = TRUE
            BY <3>1, <3>2, <4>2, Outcomes
          <5>2. row'.inside = TRUE /\ row'.treaties = row.treaties /\ row'.offers = row.offers
            BY <2>2, <5>1
          <5> QED
            BY <4>2, <5>1, <5>2
        <4>3. CASE ~row.inside /\ ~Allied(row.treaties)
          BY <3>1, <3>2, <4>3, Outcomes
        <4> QED
          BY <4>1, <4>2, <4>3
      <3> QED
        BY ONLY <2>1, <2>3, <2>5, <2>6, <3>3
    <2>4. CASE j = LeaveJob
      <3>1. row' = r(FALSE)
        BY <2>4, UnitKinds, Outcomes DEF Run, r
      <3>2. row'.inside = FALSE /\ row'.treaties = row.treaties /\ row'.offers = row.offers
        BY <2>2, <3>1
      <3> QED
        BY ONLY <2>1, <2>4, <2>5, <2>6, <3>2
    <2> QED
      BY <1>4, <2>3, <2>4
  <1> QED
    BY <1>2, <1>3, <1>4 DEF Job
-----------------------------------------------------------------------------
(* The rows and the loop.                                                  *)

LEMMA EndsAre ==
    ASSUME NEW kind
    PROVE  \A j : j \in Ends(kind) <=> EndOf(kind, j) /\ (j \in failed \/ \E x \in Cells : Entry(x).job = j)
  BY DEF Ends
LEMMA EndsMoved ==
    ASSUME NEW src, NEW h, Moved(src, h), NEW kind, failed \subseteq failed', failed' \subseteq failed \cup {Entry(h).job}
    PROVE  /\ Ends(kind)' \subseteq Ends(kind) /\ Ends(kind) \subseteq Ends(kind)' \cup {Entry(h).job}
           /\ EndOf(kind, Entry(h).job) => Entry(h).job \in Ends(kind)
           /\ ~EndOf(kind, Entry(h).job) \/ Entry(h).job \in failed' \/ (\E x \in Cells' : src[x] = h) =>
                Ends(kind)' = Ends(kind)
  <1>1. \A j : j \in Ends(kind) <=> EndOf(kind, j) /\ (j \in failed \/ \E x \in Cells : Entry(x).job = j)
    BY EndsAre
  <1>2. \A j : j \in Ends(kind)' <=> EndOf(kind, j) /\ (j \in failed' \/ \E x \in Cells' : Entry(x)'.job = j)
    BY DEF Ends, EndOf
  <1>3. h \in Cells /\ \A x \in Cells' : src[x] \in Cells /\ Entry(x)'.job = Entry(src[x]).job
    BY OrdersMoved DEF Moved
  <1>4. \A y \in Cells : y # h => \E x \in Cells' : src[x] = y
    BY DEF Moved, Carries, Cells
  <1>5. Ends(kind)' \subseteq Ends(kind)
    <2> SUFFICES ASSUME NEW j \in Ends(kind)' PROVE j \in Ends(kind)
      OBVIOUS
    <2>1. EndOf(kind, j) /\ (j \in failed' \/ \E x \in Cells' : Entry(x)'.job = j)
      BY <1>2
    <2>2. j \in failed \/ \E x \in Cells : Entry(x).job = j
      BY <1>3, <2>1
    <2> QED
      BY <1>1, <2>1, <2>2
  <1>6. Ends(kind) \subseteq Ends(kind)' \cup {Entry(h).job}
    <2> SUFFICES ASSUME NEW j \in Ends(kind), j # Entry(h).job PROVE j \in Ends(kind)'
      OBVIOUS
    <2>1. EndOf(kind, j) /\ (j \in failed \/ \E x \in Cells : Entry(x).job = j)
      BY <1>1
    <2>2. j \in failed' \/ \E x \in Cells' : Entry(x)'.job = j
      BY <1>3, <1>4, <2>1
    <2> QED
      BY <1>2, <2>1, <2>2
  <1>7. EndOf(kind, Entry(h).job) => Entry(h).job \in Ends(kind)
    BY <1>1, <1>3
  <1>8. ASSUME ~EndOf(kind, Entry(h).job) \/ Entry(h).job \in failed' \/ (\E x \in Cells' : src[x] = h)
        PROVE  Ends(kind)' = Ends(kind)
    <2>1. Entry(h).job \in Ends(kind) => Entry(h).job \in Ends(kind)'
      BY <1>1, <1>2, <1>3, <1>8
    <2> QED
      BY <1>5, <1>6, <2>1
  <1> QED
    BY <1>5, <1>6, <1>7, <1>8
LEMMA EndsJobs ==
    ASSUME LoopType, QueueType, InboxType
    PROVE  Ends("Treaty") \subseteq TreatyJobs /\ Ends("Offer") \subseteq OfferJobs
  <1>1. \A x \in Cells : Entry(x).job \in Job
    BY CellJobs
  <1>2. \A j \in failed : j \in Job
    BY DEF LoopType, Job
  <1>3. \A j \in Job : (EndOf("Treaty", j) => j \in TreatyJobs) /\ (EndOf("Offer", j) => j \in OfferJobs)
    BY Books
  <1> QED
    BY <1>1, <1>2, <1>3 DEF Ends
\* What a step that moves one job must show of the treaties.
LEMMA TreatiesMoved ==
    ASSUME NEW src, NEW h, Moved(src, h),
           Good' => /\ \A c \in Ends("Treaty")' : EndsTreaty(row'.treaties, c)
                    /\ "treaty" \notin busy' => LiveTreaties(row'.treaties, Ends("Treaty")') = pacts'
                    /\ \A x \in OrderCells("treaty") : x # h =>
                         TreatyClaim(Boxed(x), Entry(x), pacts', row'.treaties, Ends("Treaty")')
                    /\ \A x \in Cells' : src[x] = h /\ h \in OrderCells("treaty") =>
                         TreatyClaim(Boxed(x), Entry(x)', pacts', row'.treaties, Ends("Treaty")')
    PROVE  SameTreaties'
  <1>1. \A x \in OrderCells("treaty")' : x \in Cells' /\ src[x] \in OrderCells("treaty")
    BY OrdersMoved
  <1>2. \A x \in Cells' : src[x] # h => Entry(x)' = Entry(src[x]) /\ x[1] = src[x][1]
    BY DEF Moved, Carries, Cells, Entry
  <1>3. ASSUME Good', NEW x \in OrderCells("treaty")'
        PROVE  TreatyClaim(Boxed(x), Entry(x)', pacts', row'.treaties, Ends("Treaty")')
    <2>1. CASE src[x] = h
      BY <1>1, <1>3, <2>1
    <2>2. CASE src[x] # h
      <3>1. TreatyClaim(Boxed(src[x]), Entry(src[x]), pacts', row'.treaties, Ends("Treaty")')
        BY <1>1, <1>3, <2>2
      <3>2. Entry(x)' = Entry(src[x]) /\ Boxed(src[x]) = Boxed(x)
        BY <1>1, <1>2, <2>2 DEF Boxed
      <3> QED
        BY <3>1, <3>2
    <2> QED
      BY <2>1, <2>2
  <1> QED
    BY <1>3 DEF SameTreaties
\* A step that is not about the treaties, or that a closing survives.
LEMMA TreatiesKept ==
    ASSUME NEW src, NEW h, Moved(src, h), SameTreaties, Good' => Good, h \notin OrderCells("treaty"),
           Good' => Ends("Treaty")' = Ends("Treaty"), row'.treaties = row.treaties, pacts' = pacts,
           "treaty" \in busy' <=> "treaty" \in busy
    PROVE  SameTreaties'
  <1>1. Good' => /\ \A c \in Ends("Treaty")' : EndsTreaty(row'.treaties, c)
                 /\ "treaty" \notin busy' => LiveTreaties(row'.treaties, Ends("Treaty")') = pacts'
                 /\ \A x \in OrderCells("treaty") : TreatyClaim(Boxed(x), Entry(x), pacts', row'.treaties, Ends("Treaty")')
    BY DEF SameTreaties
  <1> QED
    BY <1>1, TreatiesMoved
\* A closing is written.
LEMMA TreatyEndWritten ==
    ASSUME NEW src, NEW h, Moved(src, h), SameTreaties, Good' => Good, LoopType, QueueType, InboxType,
           TreatyRows(row.treaties), DoneFirst, h = <<"treaty", 1>>, EndOf("Treaty", Entry(h).job),
           row'.treaties = TreatiesAfter(row.treaties, Entry(h).job), failed' = failed, pacts' = pacts,
           "treaty" \in busy' <=> "treaty" \in busy
    PROVE  SameTreaties'
  <1> SUFFICES ASSUME Good' PROVE SameTreaties'
    BY DEF SameTreaties
  <1>1. PICK c : c = Entry(h).job
    OBVIOUS
  <1>2. PICK R : R = row.treaties
    OBVIOUS
  <1>3. PICK E : E = Ends("Treaty")
    OBVIOUS
  <1>4. PICK F : F = Ends("Treaty")'
    OBVIOUS
  <1>5. F \subseteq E /\ E \subseteq F \cup {c} /\ c \in E
    BY <1>1, <1>3, <1>4, EndsMoved
  <1>6. TreatyRows(R) /\ (\A d \in E : EndsTreaty(R, d)) /\ EndsTreaty(R, c)
    BY <1>2, <1>3, <1>5 DEF SameTreaties
  <1>7. E \subseteq TreatyJobs
    BY <1>3, EndsJobs
  <1>8. row'.treaties = Put(R, c.t)
    BY <1>1, <1>2, <1>5, <1>6, <1>7, EndRow
  <1>9. LiveTreaties(Put(R, c.t), F) = LiveTreaties(R, E) /\ \A d \in F : EndsTreaty(Put(R, c.t), d)
    <2>1. c \in TreatyJobs /\ F \subseteq TreatyJobs /\ \A d \in F : EndsTreaty(R, d)
      BY <1>5, <1>6, <1>7
    <2>2. LiveTreaties(Put(R, c.t), F) = LiveTreaties(R, E)
      BY <1>5, <1>6, <2>1, EndLive
    <2> QED
      BY <1>6, <2>1, <2>2, EndEnds
  <1>10. h \notin OrderCells("treaty")
    BY DEF OrderCells, OrderOf, EndOf
  <1>11. ASSUME NEW x \in OrderCells("treaty")
         PROVE  TreatyClaim(Boxed(x), Entry(x), pacts', row'.treaties, F)
    <2>1. TreatyClaim(Boxed(x), Entry(x), pacts, R, E)
      BY <1>2, <1>3 DEF SameTreaties
    <2>2. Boxed(x) \/ ~Entry(x).done
      <3>1. x \in Cells /\ OrderOf("treaty", Entry(x).job)
        BY DEF OrderCells
      <3>2. SUFFICES ASSUME ~Boxed(x), Entry(x).done PROVE FALSE
        OBVIOUS
      <3>3. x[2] = 1
        BY <3>1, <3>2 DEF DoneFirst
      <3>4. x = <<x[1], x[2]>> /\ Entry(x).job.key = x[1] /\ Entry(x).job \in Job
        BY <3>1, <3>2, CellJobs
      <3>5. x[1] = "treaty"
        BY <3>1, <3>4, Books
      <3> QED
        BY <1>10, <3>3, <3>4, <3>5
    <2>3. CASE Boxed(x)
      BY <1>8, <1>9, <2>1, <2>3 DEF TreatyClaim
    <2>4. CASE ~Boxed(x)
      <3>1. SoundTreaty(pacts, R, Entry(x).job) /\ LiveTreaties(R, E) = pacts
        BY <2>1, <2>2, <2>4 DEF TreatyClaim
      <3>2. SoundTreaty(pacts, Put(R, c.t), Entry(x).job)
        BY <1>6, <3>1, EndSound
      <3> QED
        BY <1>8, <1>9, <2>2, <2>4, <3>1, <3>2 DEF TreatyClaim
    <2> QED
      BY <2>3, <2>4
  <1>12. "treaty" \notin busy' => LiveTreaties(row'.treaties, F) = pacts'
    BY <1>2, <1>3, <1>8, <1>9 DEF SameTreaties
  <1> QED
    BY <1>4, <1>8, <1>9, <1>10, <1>11, <1>12, TreatiesMoved
\* What is known of a treaty order and of the treaties while it is alone.
LEMMA OneTreatyOrder ==
    ASSUME LoopType, QueueType, InboxType, TreatyRows(row.treaties), SameTreaties, Good, Lone("treaty"),
           NEW h \in OrderCells("treaty")
    PROVE  /\ h \in Cells /\ Entry(h).job \in TreatyJobs /\ OrderCells("treaty") = {h} /\ "treaty" \in busy
           /\ Ends("Treaty") \subseteq TreatyJobs /\ ~EndOf("Treaty", Entry(h).job)
           /\ \A c \in Ends("Treaty") : EndsTreaty(row.treaties, c)
           /\ TreatyClaim(Boxed(h), Entry(h), pacts, row.treaties, Ends("Treaty"))
  <1>1. h \in Cells /\ OrderOf("treaty", Entry(h).job)
    BY DEF OrderCells
  <1>2. Entry(h).job \in TreatyJobs /\ ~EndOf("Treaty", Entry(h).job)
    BY <1>1, CellJobs, Books DEF OrderOf, EndOf
  <1>3. OrderCells("treaty") = {h} /\ "treaty" \in busy
    BY DEF Lone
  <1> QED
    BY <1>1, <1>2, <1>3, EndsJobs DEF SameTreaties
\* An order is written, and its answer is on its way or was lost.
LEMMA TreatyOrderWritten ==
    ASSUME NEW src, NEW h, Moved(src, h), SameTreaties, Good' => Good, LoopType, QueueType, InboxType,
           TreatyRows(row.treaties), Lone("treaty"), h \in OrderCells("treaty"), ~Boxed(h),
           row'.treaties = TreatiesAfter(row.treaties, Entry(h).job), failed' = failed, pacts' = pacts, busy' = busy,
           \A x \in Cells' : src[x] = h =>
             IF Boxed(x) THEN Entry(x)'.ok = TreatyTaken(row.treaties, Entry(h).job)
             ELSE Entry(x)'.done /\ ~Entry(h).done
    PROVE  SameTreaties'
  <1> SUFFICES ASSUME Good' PROVE SameTreaties'
    BY DEF SameTreaties
  <1>1. PICK j : j = Entry(h).job
    OBVIOUS
  <1>2. PICK R : R = row.treaties
    OBVIOUS
  <1>3. PICK E : E = Ends("Treaty")
    OBVIOUS
  <1>4. PICK Q : Q = TreatiesAfter(R, j)
    OBVIOUS
  <1>5. /\ j \in TreatyJobs /\ OrderCells("treaty") = {h} /\ "treaty" \in busy
        /\ E \subseteq TreatyJobs /\ ~EndOf("Treaty", j) /\ TreatyRows(R)
        /\ \A c \in E : EndsTreaty(R, c)
        /\ TreatyClaim(FALSE, Entry(h), pacts, R, E)
    BY <1>1, <1>2, <1>3, OneTreatyOrder DEF Boxed
  <1>6. Ends("Treaty")' = E
    BY <1>1, <1>3, <1>5, EndsMoved
  <1>7. row'.treaties = Q
    BY <1>1, <1>2, <1>4
  <1>8. /\ LiveTreaties(Q, E) = IF TreatyTaken(R, j) THEN AfterTreaty(pacts, j) ELSE pacts
        /\ \A c \in E : EndsTreaty(Q, c)
        /\ ~Entry(h).done => TreatiesAfter(Q, j) = Q /\ (TreatyTaken(Q, j) <=> TreatyTaken(R, j))
    <2>1. CASE Entry(h).done
      <3>1. Q = R /\ LiveTreaties(R, E) = IF TreatyTaken(R, j) THEN AfterTreaty(pacts, j) ELSE pacts
        BY <1>1, <1>4, <1>5, <2>1 DEF TreatyClaim
      <3> QED
        BY <1>5, <2>1, <3>1
    <2>2. CASE ~Entry(h).done
      <3>1. SoundTreaty(pacts, R, j) /\ LiveTreaties(R, E) = pacts
        BY <1>1, <1>5, <2>2 DEF TreatyClaim
      <3> QED
        BY <1>4, <1>5, <3>1, OrderRow
    <2> QED
      BY <2>1, <2>2
  <1>9. ASSUME NEW x \in Cells', src[x] = h
        PROVE  TreatyClaim(Boxed(x), Entry(x)', pacts, Q, E)
    <2>1. Entry(x)'.job = j
      BY <1>1, <1>9 DEF Moved
    <2>2. CASE Boxed(x)
      BY <1>1, <1>2, <1>8, <1>9, <2>1, <2>2 DEF TreatyClaim
    <2>3. CASE ~Boxed(x)
      BY <1>8, <1>9, <2>1, <2>3 DEF TreatyClaim
    <2> QED
      BY <2>2, <2>3
  <1> QED
    BY <1>5, <1>6, <1>7, <1>8, <1>9, TreatiesMoved
\* An order is given up before it was written.
LEMMA TreatyOrderDropped ==
    ASSUME NEW src, NEW h, Moved(src, h), SameTreaties, Good' => Good /\ ~Entry(h).done, LoopType, QueueType, InboxType,
           TreatyRows(row.treaties), Lone("treaty"), h \in OrderCells("treaty"), ~Boxed(h),
           row'.treaties = row.treaties, failed' = failed, pacts' = pacts, busy' = busy,
           \A x \in Cells' : src[x] = h => Boxed(x) /\ ~Entry(x)'.ok
    PROVE  SameTreaties'
  <1> SUFFICES ASSUME Good' PROVE SameTreaties'
    BY DEF SameTreaties
  <1>5. /\ OrderCells("treaty") = {h} /\ "treaty" \in busy
        /\ ~EndOf("Treaty", Entry(h).job)
        /\ \A c \in Ends("Treaty") : EndsTreaty(row.treaties, c)
        /\ TreatyClaim(FALSE, Entry(h), pacts, row.treaties, Ends("Treaty"))
    BY OneTreatyOrder DEF Boxed
  <1>6. Ends("Treaty")' = Ends("Treaty")
    BY <1>5, EndsMoved
  <1>7. LiveTreaties(row.treaties, Ends("Treaty")) = pacts
    BY <1>5 DEF TreatyClaim
  <1>8. \A x \in Cells' : src[x] = h => TreatyClaim(Boxed(x), Entry(x)', pacts, row.treaties, Ends("Treaty"))
    BY <1>7 DEF TreatyClaim
  <1> QED
    BY <1>5, <1>6, <1>7, <1>8, TreatiesMoved
\* The loop hears of it.
LEMMA TreatyOrderHeard ==
    ASSUME NEW src, NEW h, Moved(src, h), SameTreaties, Good' => Good, LoopType, QueueType, InboxType,
           TreatyRows(row.treaties), Lone("treaty"), h \in OrderCells("treaty"), Boxed(h), \A x \in Cells' : src[x] # h,
           row'.treaties = row.treaties, failed' = failed,
           pacts' = IF Entry(h).ok THEN AfterTreaty(pacts, Entry(h).job) ELSE pacts
    PROVE  SameTreaties' /\ OrderCells("treaty")' = {}
  <1>0. OrderCells("treaty")' = {}
    <2>1. OrderCells("treaty") \subseteq {h}
      BY DEF Lone
    <2> QED
      BY <2>1, OrdersMoved
  <1> SUFFICES ASSUME Good' PROVE SameTreaties'
    BY <1>0 DEF SameTreaties
  <1>5. /\ OrderCells("treaty") = {h} /\ "treaty" \in busy
        /\ ~EndOf("Treaty", Entry(h).job)
        /\ \A c \in Ends("Treaty") : EndsTreaty(row.treaties, c)
        /\ TreatyClaim(TRUE, Entry(h), pacts, row.treaties, Ends("Treaty"))
    BY OneTreatyOrder DEF Boxed
  <1>6. Ends("Treaty")' = Ends("Treaty")
    BY <1>5, EndsMoved
  <1>7. LiveTreaties(row.treaties, Ends("Treaty")) = pacts'
    BY <1>5 DEF TreatyClaim
  <1> QED
    BY <1>5, <1>6, <1>7, TreatiesMoved
-----------------------------------------------------------------------------
(* The same for the offers of trade.                                       *)

\* A deal that is written stays written, whatever closing comes.
LEMMA EndOfferDone ==
    ASSUME NEW O, OfferRows(O), NEW c, EndsOffer(O, c), NEW j, j.t \in O, j.t.st = "ACCEPTED"
    PROVE  /\ j.t \in Put(O, c.t) /\ OffersAfter(Put(O, c.t), j, TRUE) = Put(O, c.t)
           /\ OfferTaken(Put(O, c.t), j, TRUE) /\ OfferTaken(O, j, TRUE)
  <1>1. j.t.id # c.t.id
    <2> SUFFICES ASSUME j.t.id = c.t.id PROVE FALSE
      OBVIOUS
    <2>1. PICK x \in O : x.id = c.t.id /\ (x = c.t \/ x.st = "PROPOSED")
      BY DEF EndsOffer
    <2>2. x = j.t
      BY <2>1 DEF OfferRows
    <2>3. c.t.st = "EXPIRED"
      BY DEF EndsOffer
    <2> QED
      BY <2>1, <2>2, <2>3
  <1>2. j.t \in Put(O, c.t)
    BY <1>1 DEF Put
  <1> QED
    BY <1>2 DEF OffersAfter, OfferTaken
LEMMA OffersMoved ==
    ASSUME NEW src, NEW h, Moved(src, h),
           Good' => /\ \A c \in Ends("Offer")' : EndsOffer(row'.offers, c)
                    /\ "trade" \notin busy' => LiveOffers(row'.offers, Ends("Offer")') = offers'
                    /\ \A x \in OrderCells("trade") : x # h =>
                         OfferClaim(Boxed(x), Entry(x), offers', row'.offers, Ends("Offer")')
                    /\ \A x \in Cells' : src[x] = h /\ h \in OrderCells("trade") =>
                         OfferClaim(Boxed(x), Entry(x)', offers', row'.offers, Ends("Offer")')
    PROVE  SameOffers'
  <1>1. \A x \in OrderCells("trade")' : x \in Cells' /\ src[x] \in OrderCells("trade")
    BY OrdersMoved
  <1>2. \A x \in Cells' : src[x] # h => Entry(x)' = Entry(src[x]) /\ x[1] = src[x][1]
    BY DEF Moved, Carries, Cells, Entry
  <1>3. ASSUME Good', NEW x \in OrderCells("trade")'
        PROVE  OfferClaim(Boxed(x), Entry(x)', offers', row'.offers, Ends("Offer")')
    <2>1. CASE src[x] = h
      BY <1>1, <1>3, <2>1
    <2>2. CASE src[x] # h
      <3>1. OfferClaim(Boxed(src[x]), Entry(src[x]), offers', row'.offers, Ends("Offer")')
        BY <1>1, <1>3, <2>2
      <3>2. Entry(x)' = Entry(src[x]) /\ Boxed(src[x]) = Boxed(x)
        BY <1>1, <1>2, <2>2 DEF Boxed
      <3> QED
        BY <3>1, <3>2
    <2> QED
      BY <2>1, <2>2
  <1> QED
    BY <1>3 DEF SameOffers
LEMMA OffersUntouched ==
    ASSUME NEW src, NEW h, Moved(src, h), SameOffers, Good' => Good, h \notin OrderCells("trade"),
           Good' => Ends("Offer")' = Ends("Offer"), row'.offers = row.offers, offers' = offers,
           "trade" \in busy' <=> "trade" \in busy
    PROVE  SameOffers'
  <1>1. Good' => /\ \A c \in Ends("Offer")' : EndsOffer(row'.offers, c)
                 /\ "trade" \notin busy' => LiveOffers(row'.offers, Ends("Offer")') = offers'
                 /\ \A x \in OrderCells("trade") : OfferClaim(Boxed(x), Entry(x), offers', row'.offers, Ends("Offer")')
    BY DEF SameOffers
  <1> QED
    BY <1>1, OffersMoved
LEMMA OfferEndWritten ==
    ASSUME NEW src, NEW h, Moved(src, h), SameOffers, Good' => Good, LoopType, QueueType, InboxType,
           OfferRows(row.offers), DoneFirst, h = <<"trade", 1>>, EndOf("Offer", Entry(h).job),
           row'.offers = OffersAfter(row.offers, Entry(h).job, TRUE), failed' = failed, offers' = offers,
           "trade" \in busy' <=> "trade" \in busy
    PROVE  SameOffers'
  <1> SUFFICES ASSUME Good' PROVE SameOffers'
    BY DEF SameOffers
  <1>1. PICK c : c = Entry(h).job
    OBVIOUS
  <1>2. PICK O : O = row.offers
    OBVIOUS
  <1>3. PICK E : E = Ends("Offer")
    OBVIOUS
  <1>4. PICK F : F = Ends("Offer")'
    OBVIOUS
  <1>5. F \subseteq E /\ E \subseteq F \cup {c} /\ c \in E
    BY <1>1, <1>3, <1>4, EndsMoved
  <1>6. OfferRows(O) /\ (\A d \in E : EndsOffer(O, d)) /\ EndsOffer(O, c)
    BY <1>2, <1>3, <1>5 DEF SameOffers
  <1>8. row'.offers = Put(O, c.t)
    BY <1>1, <1>2, <1>5, <1>6, EndOfferRow
  <1>9. LiveOffers(Put(O, c.t), F) = LiveOffers(O, E) /\ \A d \in F : EndsOffer(Put(O, c.t), d)
    <2>1. \A d \in F : EndsOffer(O, d)
      BY <1>5, <1>6
    <2>2. LiveOffers(Put(O, c.t), F) = LiveOffers(O, E)
      BY <1>5, <1>6, EndOfferLive
    <2> QED
      BY <1>6, <2>1, <2>2, EndOfferEnds
  <1>10. h \notin OrderCells("trade")
    BY DEF OrderCells, OrderOf, EndOf
  <1>11. ASSUME NEW x \in OrderCells("trade")
         PROVE  OfferClaim(Boxed(x), Entry(x), offers', row'.offers, F)
    <2>1. OfferClaim(Boxed(x), Entry(x), offers, O, E)
      BY <1>2, <1>3 DEF SameOffers
    <2>2. x \in Cells /\ OrderOf("trade", Entry(x).job) /\ Entry(x).job \in Job
      BY CellJobs DEF OrderCells
    <2>3. CASE Boxed(x)
      BY <1>8, <1>9, <2>1, <2>3 DEF OfferClaim
    <2>4. CASE ~Boxed(x) /\ ~Entry(x).done
      <3>1. SoundOffer(offers, O, Entry(x).job) /\ LiveOffers(O, E) = offers
        BY <2>1, <2>4 DEF OfferClaim
      <3>2. SoundOffer(offers, Put(O, c.t), Entry(x).job)
        BY <1>6, <3>1, EndOfferSound
      <3> QED
        BY <1>8, <1>9, <2>4, <3>1, <3>2 DEF OfferClaim
    <2>5. CASE ~Boxed(x) /\ Entry(x).done
      <3>1. x = <<x[1], x[2]>> /\ Entry(x).job.key = x[1] /\ x[2] = 1
        BY <2>2, <2>5, CellJobs DEF DoneFirst
      <3>2. x[1] # "trade"
        BY <1>10, <3>1
      <3>3. Entry(x).job \in AcceptJobs
        BY <2>2, <3>1, <3>2, Books
      <3>4. Entry(x).job.k = "Accept" /\ Entry(x).job.t.st = "ACCEPTED"
        BY <3>3 DEF AcceptJobs
      <3>5. Entry(x).job.t \in O /\ LiveOffers(O, E) = IF OfferTaken(O, Entry(x).job, TRUE) THEN AfterOffer(offers, Entry(x).job) ELSE offers
        BY <2>1, <2>5, <3>4 DEF OfferClaim
      <3>6. /\ Entry(x).job.t \in Put(O, c.t) /\ OffersAfter(Put(O, c.t), Entry(x).job, TRUE) = Put(O, c.t)
            /\ OfferTaken(Put(O, c.t), Entry(x).job, TRUE) /\ OfferTaken(O, Entry(x).job, TRUE)
        BY <1>6, <3>4, <3>5, EndOfferDone
      <3> QED
        BY <1>8, <1>9, <2>5, <3>5, <3>6 DEF OfferClaim
    <2> QED
      BY <2>3, <2>4, <2>5
  <1>12. "trade" \notin busy' => LiveOffers(row'.offers, F) = offers'
    BY <1>2, <1>3, <1>8, <1>9 DEF SameOffers
  <1> QED
    BY <1>4, <1>8, <1>9, <1>10, <1>11, <1>12, OffersMoved
LEMMA OneOfferOrder ==
    ASSUME LoopType, QueueType, InboxType, OfferRows(row.offers), SameOffers, Good, Lone("trade"),
           NEW h \in OrderCells("trade")
    PROVE  /\ h \in Cells /\ Entry(h).job \in OfferJobs \cup AcceptJobs /\ OrderCells("trade") = {h} /\ "trade" \in busy
           /\ ~EndOf("Offer", Entry(h).job)
           /\ \A c \in Ends("Offer") : EndsOffer(row.offers, c)
           /\ OfferClaim(Boxed(h), Entry(h), offers, row.offers, Ends("Offer"))
  <1>1. h \in Cells /\ OrderOf("trade", Entry(h).job)
    BY DEF OrderCells
  <1>2. Entry(h).job \in OfferJobs \cup AcceptJobs /\ ~EndOf("Offer", Entry(h).job)
    BY <1>1, CellJobs, Books DEF OrderOf, EndOf
  <1>3. OrderCells("trade") = {h} /\ "trade" \in busy
    BY DEF Lone
  <1> QED
    BY <1>1, <1>2, <1>3 DEF SameOffers
LEMMA OfferOrderWritten ==
    ASSUME NEW src, NEW h, Moved(src, h), SameOffers, Good' => Good, LoopType, QueueType, InboxType,
           OfferRows(row.offers), Lone("trade"), h \in OrderCells("trade"), ~Boxed(h), NEW a \in BOOLEAN,
           Entry(h).job.k = "Offer" => a,
           row'.offers = OffersAfter(row.offers, Entry(h).job, a), failed' = failed, offers' = offers, busy' = busy,
           \A x \in Cells' : src[x] = h =>
             IF Boxed(x) THEN Entry(x)'.ok = OfferTaken(row.offers, Entry(h).job, a)
             ELSE a /\ Entry(x)'.done /\ ~Entry(h).done
    PROVE  SameOffers'
  <1> SUFFICES ASSUME Good' PROVE SameOffers'
    BY DEF SameOffers
  <1>1. PICK j : j = Entry(h).job
    OBVIOUS
  <1>2. PICK O : O = row.offers
    OBVIOUS
  <1>3. PICK E : E = Ends("Offer")
    OBVIOUS
  <1>4. PICK Q : Q = OffersAfter(O, j, a)
    OBVIOUS
  <1>5. /\ j \in OfferJobs \cup AcceptJobs /\ OrderCells("trade") = {h} /\ "trade" \in busy
        /\ ~EndOf("Offer", j) /\ OfferRows(O)
        /\ \A c \in E : EndsOffer(O, c)
        /\ OfferClaim(FALSE, Entry(h), offers, O, E)
    BY <1>1, <1>2, <1>3, OneOfferOrder DEF Boxed
  <1>6. Ends("Offer")' = E
    BY <1>1, <1>3, <1>5, EndsMoved
  <1>7. row'.offers = Q
    BY <1>1, <1>2, <1>4
  <1>8. /\ LiveOffers(Q, E) = IF OfferTaken(O, j, a) THEN AfterOffer(offers, j) ELSE offers
        /\ \A c \in E : EndsOffer(Q, c)
        /\ a /\ ~Entry(h).done => /\ OffersAfter(Q, j, a) = Q /\ (OfferTaken(Q, j, a) <=> OfferTaken(O, j, a))
                                  /\ j.k = "Accept" => j.t \in Q
    <2>1. CASE Entry(h).done
      <3>1. /\ OffersAfter(O, j, TRUE) = O
            /\ j.k = "Accept" => j.t \in O
            /\ LiveOffers(O, E) = IF OfferTaken(O, j, TRUE) THEN AfterOffer(offers, j) ELSE offers
        BY <1>1, <1>5, <2>1 DEF OfferClaim
      <3>2. OffersAfter(O, j, a) = O /\ OfferTaken(O, j, a) = OfferTaken(O, j, TRUE)
        BY <1>1, <1>5, <3>1, OfferAgain
      <3> QED
        BY <1>4, <1>5, <2>1, <3>1, <3>2
    <2>2. CASE ~Entry(h).done
      <3>1. SoundOffer(offers, O, j) /\ LiveOffers(O, E) = offers
        BY <1>1, <1>5, <2>2 DEF OfferClaim
      <3> QED
        BY <1>4, <1>5, <3>1, OfferOrderRow
    <2> QED
      BY <2>1, <2>2
  <1>9. ASSUME NEW x \in Cells', src[x] = h
        PROVE  OfferClaim(Boxed(x), Entry(x)', offers, Q, E)
    <2>1. Entry(x)'.job = j
      BY <1>1, <1>9 DEF Moved
    <2>2. CASE Boxed(x)
      BY <1>1, <1>2, <1>8, <1>9, <2>1, <2>2 DEF OfferClaim
    <2>3. CASE ~Boxed(x)
      <3>1. a = TRUE /\ Entry(x)'.done /\ ~Entry(h).done
        BY <1>9, <2>3
      <3> QED
        BY <1>8, <2>1, <2>3, <3>1 DEF OfferClaim
    <2> QED
      BY <2>2, <2>3
  <1> QED
    BY <1>5, <1>6, <1>7, <1>8, <1>9, OffersMoved
LEMMA OfferOrderDropped ==
    ASSUME NEW src, NEW h, Moved(src, h), SameOffers, Good' => Good /\ ~Entry(h).done, LoopType, QueueType, InboxType,
           OfferRows(row.offers), Lone("trade"), h \in OrderCells("trade"), ~Boxed(h),
           row'.offers = row.offers, failed' = failed, offers' = offers, busy' = busy,
           \A x \in Cells' : src[x] = h => Boxed(x) /\ ~Entry(x)'.ok
    PROVE  SameOffers'
  <1> SUFFICES ASSUME Good' PROVE SameOffers'
    BY DEF SameOffers
  <1>5. /\ OrderCells("trade") = {h} /\ "trade" \in busy
        /\ ~EndOf("Offer", Entry(h).job)
        /\ \A c \in Ends("Offer") : EndsOffer(row.offers, c)
        /\ OfferClaim(FALSE, Entry(h), offers, row.offers, Ends("Offer"))
    BY OneOfferOrder DEF Boxed
  <1>6. Ends("Offer")' = Ends("Offer")
    BY <1>5, EndsMoved
  <1>7. LiveOffers(row.offers, Ends("Offer")) = offers
    BY <1>5 DEF OfferClaim
  <1>8. \A x \in Cells' : src[x] = h => OfferClaim(Boxed(x), Entry(x)', offers, row.offers, Ends("Offer"))
    BY <1>7 DEF OfferClaim
  <1> QED
    BY <1>5, <1>6, <1>7, <1>8, OffersMoved
LEMMA OfferOrderHeard ==
    ASSUME NEW src, NEW h, Moved(src, h), SameOffers, Good' => Good, LoopType, QueueType, InboxType,
           OfferRows(row.offers), Lone("trade"), h \in OrderCells("trade"), Boxed(h), \A x \in Cells' : src[x] # h,
           row'.offers = row.offers, failed' = failed,
           offers' = IF Entry(h).ok THEN AfterOffer(offers, Entry(h).job) ELSE offers
    PROVE  SameOffers' /\ OrderCells("trade")' = {}
  <1>0. OrderCells("trade")' = {}
    <2>1. OrderCells("trade") \subseteq {h}
      BY DEF Lone
    <2> QED
      BY <2>1, OrdersMoved
  <1> SUFFICES ASSUME Good' PROVE SameOffers'
    BY <1>0 DEF SameOffers
  <1>5. /\ OrderCells("trade") = {h} /\ "trade" \in busy
        /\ ~EndOf("Offer", Entry(h).job)
        /\ \A c \in Ends("Offer") : EndsOffer(row.offers, c)
        /\ OfferClaim(TRUE, Entry(h), offers, row.offers, Ends("Offer"))
    BY OneOfferOrder
  <1>6. Ends("Offer")' = Ends("Offer")
    BY <1>5, EndsMoved
  <1>7. LiveOffers(row.offers, Ends("Offer")) = offers'
    BY <1>5 DEF OfferClaim
  <1> QED
    BY <1>5, <1>6, <1>7, OffersMoved
-----------------------------------------------------------------------------
(* The rows and the loop, when jobs are submitted.                         *)

LEMMA EndsGrown ==
    ASSUME QueueType, InboxType, NEW jobs, Grown(jobs), NEW kind
    PROVE  \A j : j \in Ends(kind)' <=>
             EndOf(kind, j) /\ (j \in failed' \/ (\E x \in Cells : Entry(x).job = j) \/ \E k \in Key : In(j, jobs[k]))
  <1>1. \A j : j \in Ends(kind)' <=> EndOf(kind, j) /\ (j \in failed' \/ \E x \in Cells' : Entry(x)'.job = j)
    BY DEF Ends, EndOf
  <1>2. \A j : (\E x \in Cells' : Entry(x)'.job = j) <=> (\E x \in Cells : Entry(x).job = j) \/ \E k \in Key : In(j, jobs[k])
    <2> TAKE j
    <2>1. ASSUME NEW x \in Cells', Entry(x)'.job = j, x \notin Cells
          PROVE  \E k \in Key : In(j, jobs[k])
      BY <2>1 DEF Grown, NewCell, In
    <2>2. ASSUME NEW x \in Cells', Entry(x)'.job = j, x \in Cells
          PROVE  \E y \in Cells : Entry(y).job = j
      BY <2>2 DEF Grown
    <2>3. ASSUME NEW x \in Cells, Entry(x).job = j
          PROVE  \E y \in Cells' : Entry(y)'.job = j
      BY <2>3 DEF Grown
    <2>4. ASSUME NEW k \in Key, In(j, jobs[k])
          PROVE  \E y \in Cells' : Entry(y)'.job = j
      BY <2>4 DEF Grown, In
    <2> QED
      BY <2>1, <2>2, <2>3, <2>4
  <1> QED
    BY <1>1, <1>2
LEMMA TreatiesGrown ==
    ASSUME NEW jobs, Grown(jobs), SameTreaties, Good' => Good, row' = row,
           Good => /\ \A c \in Ends("Treaty")' : EndsTreaty(row.treaties, c)
                   /\ "treaty" \notin busy' => LiveTreaties(row.treaties, Ends("Treaty")') = pacts'
                   /\ OrderCells("treaty") # {} => pacts' = pacts /\ Ends("Treaty")' = Ends("Treaty")
                   /\ \A k \in Key : \A n \in 1..Len(jobs[k]) : OrderOf("treaty", jobs[k][n]) =>
                        SoundTreaty(pacts', row.treaties, jobs[k][n]) /\ LiveTreaties(row.treaties, Ends("Treaty")') = pacts'
    PROVE  SameTreaties'
  <1>1. ASSUME Good, NEW x \in OrderCells("treaty")'
        PROVE  TreatyClaim(Boxed(x), Entry(x)', pacts', row.treaties, Ends("Treaty")')
    <2>1. CASE x \in OrderCells("treaty")
      <3>1. TreatyClaim(Boxed(x), Entry(x), pacts, row.treaties, Ends("Treaty"))
        BY <1>1, <2>1 DEF SameTreaties
      <3>2. Entry(x)' = Entry(x)
        BY <2>1, OrdersGrown
      <3>3. pacts' = pacts /\ Ends("Treaty")' = Ends("Treaty")
        BY <1>1, <2>1
      <3> QED
        BY <3>1, <3>2, <3>3
    <2>2. CASE x \notin OrderCells("treaty")
      <3>1. /\ NewCell(x, jobs) /\ x[1] \in Key
            /\ \E n \in 1..Len(jobs[x[1]]) : Entry(x)'.job = jobs[x[1]][n] /\ OrderOf("treaty", jobs[x[1]][n])
        BY <2>2, OrdersGrown
      <3>2. SoundTreaty(pacts', row.treaties, Entry(x)'.job) /\ LiveTreaties(row.treaties, Ends("Treaty")') = pacts'
        BY <1>1, <3>1
      <3>3. ~Boxed(x) /\ ~Entry(x)'.done
        BY <3>1 DEF NewCell, Boxed, Key
      <3> QED
        BY <3>2, <3>3 DEF TreatyClaim
    <2> QED
      BY <2>1, <2>2
  <1> QED
    BY <1>1 DEF SameTreaties
LEMMA OffersGrown ==
    ASSUME NEW jobs, Grown(jobs), SameOffers, Good' => Good, row' = row,
           Good => /\ \A c \in Ends("Offer")' : EndsOffer(row.offers, c)
                   /\ "trade" \notin busy' => LiveOffers(row.offers, Ends("Offer")') = offers'
                   /\ OrderCells("trade") # {} => offers' = offers /\ Ends("Offer")' = Ends("Offer")
                   /\ \A k \in Key : \A n \in 1..Len(jobs[k]) : OrderOf("trade", jobs[k][n]) =>
                        SoundOffer(offers', row.offers, jobs[k][n]) /\ LiveOffers(row.offers, Ends("Offer")') = offers'
    PROVE  SameOffers'
  <1>1. ASSUME Good, NEW x \in OrderCells("trade")'
        PROVE  OfferClaim(Boxed(x), Entry(x)', offers', row.offers, Ends("Offer")')
    <2>1. CASE x \in OrderCells("trade")
      <3>1. OfferClaim(Boxed(x), Entry(x), offers, row.offers, Ends("Offer"))
        BY <1>1, <2>1 DEF SameOffers
      <3>2. Entry(x)' = Entry(x)
        BY <2>1, OrdersGrown
      <3>3. offers' = offers /\ Ends("Offer")' = Ends("Offer")
        BY <1>1, <2>1
      <3> QED
        BY <3>1, <3>2, <3>3
    <2>2. CASE x \notin OrderCells("trade")
      <3>1. /\ NewCell(x, jobs) /\ x[1] \in Key
            /\ \E n \in 1..Len(jobs[x[1]]) : Entry(x)'.job = jobs[x[1]][n] /\ OrderOf("trade", jobs[x[1]][n])
        BY <2>2, OrdersGrown
      <3>2. SoundOffer(offers', row.offers, Entry(x)'.job) /\ LiveOffers(row.offers, Ends("Offer")') = offers'
        BY <1>1, <3>1
      <3>3. ~Boxed(x) /\ ~Entry(x)'.done
        BY <3>1 DEF NewCell, Boxed, Key
      <3> QED
        BY <3>2, <3>3 DEF OfferClaim
    <2> QED
      BY <2>1, <2>2
  <1> QED
    BY <1>1 DEF SameOffers
\* An order of the pair, or a job that is of no book: the closings stay as they are.
LEMMA EndsStay ==
    ASSUME QueueType, InboxType, NEW jobs, Grown(jobs), failed' = failed, NEW kind,
           \A k \in Key : \A n \in 1..Len(jobs[k]) : ~EndOf(kind, jobs[k][n])
    PROVE  Ends(kind)' = Ends(kind)
  <1>1. \A j : j \in Ends(kind)' <=> EndOf(kind, j) /\ (j \in failed' \/ (\E x \in Cells : Entry(x).job = j) \/ \E k \in Key : In(j, jobs[k]))
    BY EndsGrown
  <1>2. \A j : EndOf(kind, j) => ~\E k \in Key : In(j, jobs[k])
    BY DEF In
  <1> QED
    BY <1>1, <1>2, EndsAre
LEMMA TreatiesOrdered ==
    ASSUME QueueType, InboxType, NEW jobs, Grown(jobs), SameTreaties, Lone("treaty"), row' = row, failed' = failed, pacts' = pacts,
           Good' => Good, busy \subseteq busy',
           \A k \in Key : \A n \in 1..Len(jobs[k]) :
             /\ ~EndOf("Treaty", jobs[k][n])
             /\ OrderOf("treaty", jobs[k][n]) => "treaty" \notin busy /\ SoundTreaty(pacts, row.treaties, jobs[k][n])
    PROVE  SameTreaties'
  <1>1. Ends("Treaty")' = Ends("Treaty")
    BY EndsStay
  <1> QED
    BY <1>1, TreatiesGrown DEF SameTreaties
LEMMA OffersOrdered ==
    ASSUME QueueType, InboxType, NEW jobs, Grown(jobs), SameOffers, Lone("trade"), row' = row, failed' = failed, offers' = offers,
           Good' => Good, busy \subseteq busy',
           \A k \in Key : \A n \in 1..Len(jobs[k]) :
             /\ ~EndOf("Offer", jobs[k][n])
             /\ OrderOf("trade", jobs[k][n]) => "trade" \notin busy /\ SoundOffer(offers, row.offers, jobs[k][n])
    PROVE  SameOffers'
  <1>1. Ends("Offer")' = Ends("Offer")
    BY EndsStay
  <1> QED
    BY <1>1, OffersGrown DEF SameOffers
\* The closings a sweep submits, besides those that had failed.
LEMMA EndsSwept ==
    ASSUME TypeInv, NEW tile \in BOOLEAN, Grown(SweepJobs(tile)), failed' = {}
    PROVE  /\ Ends("Treaty")' = Ends("Treaty") \cup {TreatyJob(Ended(t), t.st, NoId, FALSE) : t \in Due}
           /\ Ends("Offer")' = Ends("Offer") \cup {OfferJob([o EXCEPT !.st = "EXPIRED"], FALSE) : o \in Falling}
           /\ \A k \in Key : \A n \in 1..Len(SweepJobs(tile)[k]) : ~SweepJobs(tile)[k][n].order
  <1> DEFINE jobs == SweepJobs(tile)
  <1> DEFINE T == {TreatyJob(Ended(t), t.st, NoId, FALSE) : t \in Due}
             O == {OfferJob([o EXCEPT !.st = "EXPIRED"], FALSE) : o \in Falling}
  <1>1. /\ \A k \in Key : \A j : In(j, jobs[k]) <=>
             (j \in failed \cup Closings /\ j.key = k) \/ (j = LeaveJob /\ k = "unit" /\ Expelled /\ tile)
        /\ \A j \in failed \cup Closings : j \in TreatyJobs \cup OfferJobs /\ ~j.order
    BY SweepJobsAre
  <1>2. \A j \in failed \cup Closings : j.key \in Key
    <2>1. \A j \in TreatyJobs \cup OfferJobs : j.key \in Key
      BY DEF TreatyJobs, OfferJobs, Key
    <2> QED
      BY <1>1, <2>1
  <1>3. ~EndOf("Treaty", LeaveJob) /\ ~EndOf("Offer", LeaveJob) /\ ~LeaveJob.order
    BY UnitJobsTyped, Books
  <1>4. Closings = T \cup O
    BY DEF Closings
  <1>5. \A j \in T : j.k = "Treaty" /\ ~j.order
    BY DEF TreatyJob
  <1>6. \A j \in O : j.k = "Offer" /\ ~j.order
    BY DEF OfferJob
  <1>7. QueueType /\ InboxType
    BY DEF TypeInv
  <1> HIDE DEF jobs, T, O
  <1>8. ASSUME NEW kind \in {"Treaty", "Offer"}
        PROVE  \A j : j \in Ends(kind)' <=> EndOf(kind, j) /\ (j \in Closings \/ j \in failed \/ \E x \in Cells : Entry(x).job = j)
    <2>1. \A j : j \in Ends(kind)' <=>
            EndOf(kind, j) /\ (j \in failed' \/ (\E x \in Cells : Entry(x).job = j) \/ \E k \in Key : In(j, jobs[k]))
      BY <1>7, EndsGrown DEF jobs
    <2>2. \A j : EndOf(kind, j) => ((\E k \in Key : In(j, jobs[k])) <=> j \in failed \cup Closings)
      BY <1>1, <1>2, <1>3
    <2> QED
      BY <2>1, <2>2
  <1>9. Ends("Treaty")' = Ends("Treaty") \cup T
    <2>1. \A j : j \in Ends("Treaty") <=> EndOf("Treaty", j) /\ (j \in failed \/ \E x \in Cells : Entry(x).job = j)
      BY EndsAre
    <2>2. \A j : j \in Closings /\ EndOf("Treaty", j) <=> j \in T
      BY <1>4, <1>5, <1>6 DEF EndOf
    <2> QED
      BY <1>8, <2>1, <2>2
  <1>10. Ends("Offer")' = Ends("Offer") \cup O
    <2>1. \A j : j \in Ends("Offer") <=> EndOf("Offer", j) /\ (j \in failed \/ \E x \in Cells : Entry(x).job = j)
      BY EndsAre
    <2>2. \A j : j \in Closings /\ EndOf("Offer", j) <=> j \in O
      BY <1>4, <1>5, <1>6 DEF EndOf
    <2> QED
      BY <1>8, <2>1, <2>2
  <1>11. \A k \in Key : \A n \in 1..Len(jobs[k]) : ~jobs[k][n].order
    <2> SUFFICES ASSUME NEW k \in Key, NEW n \in 1..Len(jobs[k]) PROVE ~jobs[k][n].order
      OBVIOUS
    <2>1. In(jobs[k][n], jobs[k])
      BY DEF In
    <2> QED
      BY <1>1, <1>3, <2>1
  <1> QED
    BY <1>9, <1>10, <1>11 DEF jobs, T, O
LEMMA TreatiesSwept ==
    ASSUME TypeInv, SameTreaties, NEW tile \in BOOLEAN, Grown(SweepJobs(tile)), failed' = {}, row' = row, busy' = busy,
           Good' => Good, pacts' = pacts \ Due, Lone("treaty")
    PROVE  SameTreaties'
  <1> DEFINE T == {TreatyJob(Ended(t), t.st, NoId, FALSE) : t \in Due}
  <1>1. /\ Ends("Treaty")' = Ends("Treaty") \cup T
        /\ \A k \in Key : \A n \in 1..Len(SweepJobs(tile)[k]) : ~SweepJobs(tile)[k][n].order
    BY EndsSwept
  <1>2. "treaty" \in busy => Due = {} /\ T = {} /\ pacts' = pacts
    BY DEF Due
  <1>3. "treaty" \notin busy => OrderCells("treaty") = {}
    BY DEF Lone
  <1>5. Due \subseteq pacts /\ \A t \in pacts : t.st \in OpenStates /\ t \in Treaty
    BY DEF Due, TypeInv, LoopType
  <1>4. \A j \in T : \E t \in Due : j.t.id = t.id /\ j.t = Ended(t) /\ j.from = t.st /\ j.sup = NoId
    BY <1>5 DEF TreatyJob, Ended, Treaty, TreatyType
  <1>4a. \A t \in Due : \E j \in T : j.t.id = t.id
    <2> SUFFICES ASSUME NEW t \in Due PROVE \E j \in T : j.t.id = t.id
      OBVIOUS
    <2>1. TreatyJob(Ended(t), t.st, NoId, FALSE) \in T
      OBVIOUS
    <2>2. TreatyJob(Ended(t), t.st, NoId, FALSE).t.id = t.id
      BY <1>5 DEF TreatyJob, Ended, Treaty, TreatyType
    <2> HIDE DEF T
    <2> QED
      BY <2>1, <2>2
  <1>6. \A t, u \in pacts : t.id = u.id => t = u
    BY DEF TypeInv, LoopType
  <1>7. \A t \in Due : Ended(t).st \notin OpenStates
    BY <1>5 DEF Ended, Treaty, TreatyType, OpenStates
  <1> HIDE DEF T
  <1>8. ASSUME Good, "treaty" \notin busy
        PROVE  /\ \A c \in T : EndsTreaty(row.treaties, c)
               /\ LiveTreaties(row.treaties, Ends("Treaty")') = pacts'
    <2>1. LiveTreaties(row.treaties, Ends("Treaty")) = pacts
      BY <1>8 DEF SameTreaties
    <2>2. pacts \subseteq row.treaties
      BY <2>1 DEF LiveTreaties
    <2>3. ASSUME NEW c \in T PROVE EndsTreaty(row.treaties, c)
      <3>1. PICK t \in Due : c.t.id = t.id /\ c.t = Ended(t) /\ c.from = t.st /\ c.sup = NoId
        BY <1>4
      <3> QED
        BY <1>5, <1>7, <2>2, <3>1 DEF EndsTreaty
    <2>4. \A t \in pacts : (\E c \in T : c.t.id = t.id) <=> t \in Due
      BY <1>4, <1>4a, <1>5, <1>6
    <2>5. LiveTreaties(row.treaties, Ends("Treaty") \cup T) = {t \in pacts : \A c \in T : c.t.id # t.id}
      BY <2>1 DEF LiveTreaties
    <2> QED
      BY <1>1, <2>3, <2>4, <2>5
  <1>9. Good => \A c \in Ends("Treaty")' : EndsTreaty(row.treaties, c)
    BY <1>1, <1>2, <1>8 DEF SameTreaties
  <1>10. Good => (OrderCells("treaty") # {} => pacts' = pacts /\ Ends("Treaty")' = Ends("Treaty"))
    BY <1>1, <1>2, <1>3
  <1> QED
    BY <1>1, <1>8, <1>9, <1>10, TreatiesGrown DEF OrderOf
LEMMA OffersSwept ==
    ASSUME TypeInv, SameOffers, NEW tile \in BOOLEAN, Grown(SweepJobs(tile)), failed' = {}, row' = row, busy' = busy,
           Good' => Good, offers' = offers \ Falling, Lone("trade"), AtMostOne(offers)
    PROVE  SameOffers'
  <1> DEFINE T == {OfferJob([o EXCEPT !.st = "EXPIRED"], FALSE) : o \in Falling}
  <1>1. /\ Ends("Offer")' = Ends("Offer") \cup T
        /\ \A k \in Key : \A n \in 1..Len(SweepJobs(tile)[k]) : ~SweepJobs(tile)[k][n].order
    BY EndsSwept
  <1>2. "trade" \in busy => Falling = {} /\ T = {} /\ offers' = offers
    BY DEF Falling
  <1>3. "trade" \notin busy => OrderCells("trade") = {}
    BY DEF Lone
  <1>5. Falling \subseteq offers /\ \A o \in offers : o.st = "PROPOSED" /\ o \in Offer
    BY DEF Falling, TypeInv, LoopType
  <1>4. \A j \in T : \E o \in Falling : j.t.id = o.id /\ j.t = [o EXCEPT !.st = "EXPIRED"] /\ j.t.st = "EXPIRED"
    BY <1>5 DEF OfferJob, Offer
  <1>4a. \A o \in Falling : \E j \in T : j.t.id = o.id
    <2> SUFFICES ASSUME NEW o \in Falling PROVE \E j \in T : j.t.id = o.id
      OBVIOUS
    <2>1. OfferJob([o EXCEPT !.st = "EXPIRED"], FALSE) \in T
      OBVIOUS
    <2>2. OfferJob([o EXCEPT !.st = "EXPIRED"], FALSE).t.id = o.id
      BY <1>5 DEF OfferJob, Offer
    <2> HIDE DEF T
    <2> QED
      BY <2>1, <2>2
  <1> HIDE DEF T
  <1>8. ASSUME Good, "trade" \notin busy
        PROVE  /\ \A c \in T : EndsOffer(row.offers, c)
               /\ LiveOffers(row.offers, Ends("Offer")') = offers'
    <2>1. LiveOffers(row.offers, Ends("Offer")) = offers
      BY <1>8 DEF SameOffers
    <2>2. offers \subseteq row.offers
      BY <2>1 DEF LiveOffers
    <2>3. ASSUME NEW c \in T PROVE EndsOffer(row.offers, c)
      <3>1. PICK o \in Falling : c.t.id = o.id /\ c.t = [o EXCEPT !.st = "EXPIRED"] /\ c.t.st = "EXPIRED"
        BY <1>4
      <3> QED
        BY <1>5, <2>2, <3>1 DEF EndsOffer
    <2>4. \A o \in offers : (\E c \in T : c.t.id = o.id) <=> o \in Falling
      <3>1. \A o \in offers : o \in Falling => \E c \in T : c.t.id = o.id
        BY <1>4a
      <3>2. ASSUME NEW o \in offers, NEW c \in T PROVE o \in Falling
        <4>1. PICK u \in Falling : c.t.id = u.id
          BY <1>4
        <4> QED
          BY <1>5, <4>1 DEF AtMostOne
      <3> QED
        BY <3>1, <3>2
    <2>5. LiveOffers(row.offers, Ends("Offer") \cup T) = {o \in offers : \A c \in T : c.t.id # o.id}
      BY <2>1 DEF LiveOffers
    <2> QED
      BY <1>1, <2>3, <2>4, <2>5
  <1>9. Good => \A c \in Ends("Offer")' : EndsOffer(row.offers, c)
    BY <1>1, <1>2, <1>8 DEF SameOffers
  <1>10. Good => (OrderCells("trade") # {} => offers' = offers /\ Ends("Offer")' = Ends("Offer"))
    BY <1>1, <1>2, <1>3
  <1> QED
    BY <1>1, <1>8, <1>9, <1>10, OffersGrown DEF OrderOf
-----------------------------------------------------------------------------
(* The unit.                                                               *)

Known == ~ghost /\ ~lost /\ ~slipped /\ ~crossed

LEMMA UnitCells ==
    ASSUME QueueType, InboxType
    PROVE  /\ \A x \in EnterCells : x \in Cells /\ Entry(x).job = EnterJob
           /\ \A x \in LeaveCells : x \in Cells /\ Entry(x).job = LeaveJob
           /\ \A x \in EnterCells \cup LeaveCells :
                /\ x = <<x[1], x[2]>> /\ x[2] \in Nat \ {0} /\ Boxed(x) \in BOOLEAN
                /\ IF Boxed(x) THEN x[1] = "inbox" ELSE x[1] = "unit" /\ x[2] \in 1..Len(queue["unit"])
           /\ EnterCells \cap LeaveCells = {}
  <1>1. EnterJob.key = "unit" /\ LeaveJob.key = "unit" /\ EnterJob # LeaveJob
    BY UnitKinds DEF EnterJob, LeaveJob, UnitJob
  <1> QED
    BY <1>1, CellJobs DEF EnterCells, LeaveCells, Boxed
LEMMA UnitMoved ==
    ASSUME QueueType, InboxType, QueueType', InboxType', NEW src, NEW h, Moved(src, h)
    PROVE  /\ \A x : x \in EnterCells' <=> x \in Cells' /\ src[x] \in EnterCells
           /\ \A x : x \in LeaveCells' <=> x \in Cells' /\ src[x] \in LeaveCells
           /\ \A x, y \in Cells' : src[x] = src[y] => x = y
           /\ \A y \in EnterCells : y # h => \E x \in EnterCells' : src[x] = y
           /\ \A y \in LeaveCells : y # h => \E x \in LeaveCells' : src[x] = y
           /\ \A x \in Cells' : src[x] # h => Entry(x)' = Entry(src[x]) /\ Boxed(x) = Boxed(src[x])
           /\ \A x \in LeaveCells' : \A y \in EnterCells' :
                src[x] # h /\ src[y] # h /\ Behind(src[x], src[y]) => Behind(x, y)
  <1>1. \A x \in Cells' : src[x] \in Cells /\ Entry(x)'.job = Entry(src[x]).job
    BY OrdersMoved
  <1>2. /\ \A x \in Cells' : src[x] # h => Entry(x)' = Entry(src[x]) /\ x[1] = src[x][1]
        /\ \A x, y \in Cells' : src[x] = src[y] => x = y
        /\ \A y \in Cells : y # h => \E x \in Cells' : src[x] = y
        /\ \A x, y \in Cells' :
             src[x] # h /\ src[y] # h /\ x[1] = y[1] /\ src[x][2] < src[y][2] => x[2] < y[2]
    BY DEF Moved, Carries, Cells, Entry
  <1>3. /\ \A x : x \in EnterCells' <=> x \in Cells' /\ src[x] \in EnterCells
        /\ \A x : x \in LeaveCells' <=> x \in Cells' /\ src[x] \in LeaveCells
    BY <1>1 DEF EnterCells, LeaveCells
  <1>4. /\ \A y \in EnterCells : y # h => \E x \in EnterCells' : src[x] = y
        /\ \A y \in LeaveCells : y # h => \E x \in LeaveCells' : src[x] = y
    <2>1. EnterCells \subseteq Cells /\ LeaveCells \subseteq Cells
      BY UnitCells
    <2> QED
      BY <1>2, <1>3, <2>1
  <1>5. ASSUME NEW x \in LeaveCells', NEW y \in EnterCells', src[x] # h, src[y] # h, Behind(src[x], src[y])
        PROVE  Behind(x, y)
    <2>1. x \in Cells' /\ y \in Cells' /\ src[x] \in LeaveCells /\ src[y] \in EnterCells
      BY <1>3
    <2>2. x[1] = src[x][1] /\ y[1] = src[y][1]
      BY <1>2, <1>5, <2>1
    <2>3. Boxed(x) = Boxed(src[x]) /\ Boxed(y) = Boxed(src[y])
      BY <2>2 DEF Boxed
    <2>4. CASE Boxed(x) = Boxed(y)
      <3>1. x[1] = y[1]
        BY <2>1, <2>2, <2>3, <2>4, UnitCells DEF Boxed
      <3>2. src[x][2] < src[y][2]
        BY <1>5, <2>3, <2>4 DEF Behind
      <3> QED
        BY <1>2, <1>5, <2>1, <2>4, <3>1, <3>2 DEF Behind
    <2>5. CASE Boxed(x) # Boxed(y)
      BY <1>5, <2>3, <2>5 DEF Behind
    <2> QED
      BY <2>4, <2>5
  <1> QED
    BY <1>2, <1>3, <1>4, <1>5 DEF Boxed
\* A step that is not about the unit.
LEMMA GuestMoved ==
    ASSUME QueueType, InboxType, QueueType', InboxType', NEW src, NEW h, Moved(src, h), GuestWay,
           Entry(h).job \notin {EnterJob, LeaveJob}, guest' = guest, row'.inside = row.inside, Known' => Known
    PROVE  GuestWay'
  <1>1. h \notin EnterCells /\ h \notin LeaveCells
    BY DEF EnterCells, LeaveCells
  <1>2. /\ \A x : x \in EnterCells' <=> x \in Cells' /\ src[x] \in EnterCells
        /\ \A x : x \in LeaveCells' <=> x \in Cells' /\ src[x] \in LeaveCells
        /\ \A x, y \in Cells' : src[x] = src[y] => x = y
        /\ \A y \in EnterCells : \E x \in EnterCells' : src[x] = y
        /\ \A y \in LeaveCells : \E x \in LeaveCells' : src[x] = y
        /\ \A x \in EnterCells' \cup LeaveCells' : Entry(x)' = Entry(src[x]) /\ Boxed(x) = Boxed(src[x])
        /\ \A x \in LeaveCells' : \A y \in EnterCells' : Behind(src[x], src[y]) => Behind(x, y)
    <2>1. \A x \in EnterCells' \cup LeaveCells' : x \in Cells' /\ src[x] # h
      BY <1>1, UnitMoved
    <2> QED
      BY <1>1, <2>1, UnitMoved
  <1>3. EnterCells' = {} <=> EnterCells = {}
    BY <1>2
  <1>4. LeaveCells' = {} <=> LeaveCells = {}
    BY <1>2
  <1>5. Known' =>
          /\ guest.leaving => guest.inside /\ ~guest.entering
          /\ AtMostOne(EnterCells) /\ AtMostOne(LeaveCells)
          /\ guest.entering <=> EnterCells # {}
          /\ \A x \in LeaveCells : /\ ~guest.inside
                                   /\ row.inside <=> (Boxed(x) \/ ~Entry(x).done)
                                   /\ \A y \in EnterCells : Behind(x, y)
          /\ LeaveCells = {} =>
               /\ EnterCells = {} => row.inside = guest.inside
               /\ \A x \in EnterCells :
                    IF Boxed(x) THEN row.inside = (guest.inside \/ Entry(x).ok)
                    ELSE (guest.inside => row.inside) /\ (row.inside => guest.inside \/ Entry(x).done)
    BY DEF GuestWay, Known
  <1>6. Known' => AtMostOne(EnterCells') /\ AtMostOne(LeaveCells')
    BY <1>2, <1>5 DEF AtMostOne
  <1>7. Known' => \A x \in LeaveCells' : /\ ~guest.inside
                                         /\ row.inside <=> (Boxed(x) \/ ~Entry(x)'.done)
                                         /\ \A y \in EnterCells' : Behind(x, y)
    BY <1>2, <1>5
  <1>8. Known' /\ LeaveCells' = {} =>
               /\ EnterCells' = {} => row.inside = guest.inside
               /\ \A x \in EnterCells' :
                    IF Boxed(x) THEN row.inside = (guest.inside \/ Entry(x)'.ok)
                    ELSE (guest.inside => row.inside) /\ (row.inside => guest.inside \/ Entry(x)'.done)
    BY <1>2, <1>3, <1>4, <1>5
  <1> QED
    BY <1>3, <1>5, <1>6, <1>7, <1>8 DEF GuestWay, Known, Boxed, Behind, AtMostOne
\* What is known of the unit while nothing was lost.
LEMMA GuestFacts ==
    ASSUME GuestWay, Known
    PROVE  /\ guest.leaving => guest.inside /\ ~guest.entering
           /\ \A x, y \in EnterCells : x = y
           /\ \A x, y \in LeaveCells : x = y
           /\ guest.entering <=> EnterCells # {}
           /\ \A x \in LeaveCells : /\ ~guest.inside
                                    /\ row.inside <=> (Boxed(x) \/ ~Entry(x).done)
                                    /\ \A y \in EnterCells : Behind(x, y)
           /\ LeaveCells = {} =>
                /\ EnterCells = {} => row.inside = guest.inside
                /\ \A x \in EnterCells :
                     IF Boxed(x) THEN row.inside = (guest.inside \/ Entry(x).ok)
                     ELSE (guest.inside => row.inside) /\ (row.inside => guest.inside \/ Entry(x).done)
  BY DEF GuestWay, Known, AtMostOne
\* The loop hears that the unit is in, or is not.
LEMMA EnterHeard ==
    ASSUME QueueType, InboxType, QueueType', InboxType', NEW src, NEW h, Moved(src, h), GuestWay, LoopType, RowType(row),
           h \in EnterCells, h = <<"inbox", 1>>, \A x \in Cells' : src[x] # h, NEW ok \in BOOLEAN, Entry(h).ok = ok,
           guest' = [guest EXCEPT !.entering = FALSE, !.inside = @ \/ ok], row'.inside = row.inside, Known' => Known
    PROVE  GuestWay'
  <1> SUFFICES ASSUME Known' PROVE GuestWay'
    BY DEF GuestWay, Known
  <1>1. Boxed(h)
    BY DEF Boxed
  <1>2. \A x \in EnterCells : x = h
    BY GuestFacts
  <1>3. LeaveCells = {}
    <2> SUFFICES ASSUME NEW x \in LeaveCells PROVE FALSE
      OBVIOUS
    <2>1. IF Boxed(x) = Boxed(h) THEN x[2] < h[2] ELSE Boxed(x)
      BY GuestFacts DEF Behind
    <2>2. x[2] \in Nat \ {0} /\ Boxed(x) \in BOOLEAN /\ Boxed(h) \in BOOLEAN
      BY UnitCells
    <2>3. h[2] = 1 /\ ~(x[2] < 1)
      BY <2>2
    <2> QED
      BY <1>1, <2>1, <2>2, <2>3
  <1>4. EnterCells' = {} /\ LeaveCells' = {}
    BY <1>2, <1>3, UnitMoved
  <1>5. row.inside = (guest.inside \/ ok) /\ ~guest.leaving
    BY <1>1, <1>3, GuestFacts
  <1>6. guest'.entering = FALSE /\ guest'.inside = (guest.inside \/ ok) /\ guest'.leaving = guest.leaving
    BY DEF LoopType
  <1>7. row'.inside = guest'.inside
    BY <1>5, <1>6
  <1> QED
    BY <1>4, <1>5, <1>6, <1>7 DEF GuestWay, AtMostOne
\* The loop hears that the way out could not be written.
LEMMA LeaveHeard ==
    ASSUME QueueType, InboxType, QueueType', InboxType', NEW src, NEW h, Moved(src, h), GuestWay, LoopType, RowType(row),
           h \in LeaveCells, h = <<"inbox", 1>>, \A x \in Cells' : src[x] # h,
           guest' = [guest EXCEPT !.inside = TRUE], row'.inside = row.inside, Known' => Known
    PROVE  GuestWay'
  <1> SUFFICES ASSUME Known' PROVE GuestWay'
    BY DEF GuestWay, Known
  <1>1. Boxed(h) /\ row.inside
    BY GuestFacts DEF Boxed
  <1>2. \A x \in LeaveCells : x = h
    BY GuestFacts
  <1>3. LeaveCells' = {}
    BY <1>2, UnitMoved
  <1>4. h \notin EnterCells
    BY UnitCells
  <1>5. EnterCells' = {} <=> EnterCells = {}
    BY <1>4, UnitMoved
  <1>6. \A x, y \in EnterCells' : x = y
    <2>1. \A x, y \in EnterCells : x = y
      BY GuestFacts
    <2> QED
      BY <2>1, UnitMoved
  <1>7. guest'.inside = TRUE /\ guest'.entering = guest.entering /\ guest'.leaving = guest.leaving /\ ~guest.leaving
    BY GuestFacts DEF LoopType
  <1>8. guest.entering <=> EnterCells # {}
    BY GuestFacts
  <1>9. row'.inside = TRUE
    BY <1>1 DEF RowType
  <1> QED
    BY <1>3, <1>5, <1>6, <1>7, <1>8, <1>9 DEF GuestWay, AtMostOne
\* A worker runs the entry, with an answer or without one, or gives it up unwritten.
LEMMA EnterRun ==
    ASSUME QueueType, InboxType, QueueType', InboxType', NEW src, NEW h, Moved(src, h), GuestWay, LoopType, RowType(row),
           h \in EnterCells, ~Boxed(h), h[2] = 1, guest' = guest, row'.inside \in BOOLEAN, row.inside => row'.inside,
           Known' => Known /\ \E x \in Cells' : src[x] = h,
           Known' => \A x \in Cells' : src[x] = h =>
             IF Boxed(x) THEN /\ \/ Entry(x)'.ok = row'.inside
                                 \/ Entry(x)'.ok = FALSE /\ row'.inside = row.inside /\ ~Entry(h).done
                              /\ \A y \in Cells' : Boxed(y) /\ src[y] # h => y[2] < x[2]
             ELSE Entry(x)'.done
    PROVE  GuestWay'
  <1> SUFFICES ASSUME Known' PROVE GuestWay'
    BY DEF GuestWay, Known
  <1>1. PICK x \in Cells' : src[x] = h
    OBVIOUS
  <1>2. \A y \in EnterCells : y = h
    BY GuestFacts
  <1>3. x \in EnterCells' /\ \A y \in EnterCells' : y = x
    BY <1>1, <1>2, UnitMoved
  <1>4. \A y \in LeaveCells : Boxed(y) /\ y # h
    <2> SUFFICES ASSUME NEW y \in LeaveCells PROVE Boxed(y) /\ y # h
      OBVIOUS
    <2>1. Behind(y, h) /\ y # h
      BY GuestFacts, UnitCells
    <2>2. y[2] \in Nat \ {0} /\ Boxed(y) \in BOOLEAN /\ Boxed(h) \in BOOLEAN
      BY UnitCells
    <2> QED
      BY <2>1, <2>2 DEF Behind
  <1>5. \A y \in LeaveCells' : /\ y \in Cells' /\ src[y] \in LeaveCells /\ src[y] # h /\ Boxed(y)
                               /\ Entry(y)' = Entry(src[y])
    BY <1>4, UnitMoved
  <1>6. \A y, z \in LeaveCells' : y = z
    <2>1. \A y, z \in LeaveCells : y = z
      BY GuestFacts
    <2> QED
      BY <1>5, <2>1, UnitMoved
  <1>7. guest.entering /\ ~guest.leaving
    BY GuestFacts
  <1>8. ASSUME NEW y \in LeaveCells'
        PROVE  ~guest.inside /\ row'.inside /\ Behind(y, x)
    <2>1. ~guest.inside /\ row.inside
      BY <1>4, <1>5, GuestFacts
    <2>2. Behind(y, x)
      <3>1. CASE Boxed(x)
        <4>1. y[2] < x[2]
          BY <1>1, <1>5, <3>1
        <4> QED
          BY <1>5, <3>1, <4>1 DEF Behind
      <3>2. CASE ~Boxed(x)
        BY <1>5, <3>2 DEF Behind
      <3> QED
        BY <3>1, <3>2
    <2> QED
      BY <2>1, <2>2
  <1>9. ASSUME LeaveCells' = {}
        PROVE  IF Boxed(x) THEN row'.inside = (guest.inside \/ Entry(x)'.ok)
               ELSE (guest.inside => row'.inside) /\ (row'.inside => guest.inside \/ Entry(x)'.done)
    <2>1. LeaveCells = {}
      BY <1>4, <1>9, UnitMoved
    <2>2. (guest.inside => row.inside) /\ (row.inside => guest.inside \/ Entry(h).done)
      BY <2>1, GuestFacts
    <2>3. row.inside \in BOOLEAN /\ guest.inside \in BOOLEAN
      BY DEF LoopType, RowType
    <2> QED
      BY <1>1, <2>2, <2>3
  <1> QED
    <2>1. /\ guest'.leaving => guest'.inside /\ ~guest'.entering
          /\ AtMostOne(EnterCells') /\ AtMostOne(LeaveCells')
          /\ guest'.entering <=> EnterCells' # {}
      BY <1>3, <1>6, <1>7 DEF AtMostOne
    <2>2. \A y \in LeaveCells' : /\ ~guest'.inside
                                 /\ row'.inside <=> (Boxed(y) \/ ~Entry(y)'.done)
                                 /\ \A z \in EnterCells' : Behind(y, z)
      BY <1>3, <1>5, <1>8
    <2>3. LeaveCells' = {} =>
               /\ EnterCells' = {} => row'.inside = guest'.inside
               /\ \A z \in EnterCells' :
                    IF Boxed(z) THEN row'.inside = (guest'.inside \/ Entry(z)'.ok)
                    ELSE (guest'.inside => row'.inside) /\ (row'.inside => guest'.inside \/ Entry(z)'.done)
      BY <1>3, <1>9
    <2> QED
      BY <2>1, <2>2, <2>3 DEF GuestWay, AtMostOne, Behind, Boxed
\* A worker runs the way out, and tells nobody; or marks it; or gives it up unwritten.
LEMMA LeaveRun ==
    ASSUME QueueType, InboxType, QueueType', InboxType', NEW src, NEW h, Moved(src, h), GuestWay, LoopType, RowType(row),
           h \in LeaveCells, ~Boxed(h), h[2] = 1, guest' = guest, Known' => Known,
           Known' => \/ row'.inside = FALSE /\ \A x \in Cells' : src[x] # h
                     \/ row'.inside = FALSE /\ \A x \in Cells' : src[x] = x /\ (x = h => Entry(x)'.done)
                     \/ row'.inside = row.inside /\ ~Entry(h).done /\ (\E x \in Cells' : src[x] = h)
                        /\ \A x \in Cells' : src[x] = h => Boxed(x)
    PROVE  GuestWay'
  <1> SUFFICES ASSUME Known' PROVE GuestWay'
    BY DEF GuestWay, Known
  <1>1. \A y \in LeaveCells : y = h
    BY GuestFacts
  <1>2. \A y, z \in LeaveCells' : y = z
    BY <1>1, UnitMoved
  <1>3. h \notin EnterCells /\ ~guest.inside /\ ~guest.leaving
    BY GuestFacts, UnitCells
  <1>4. \A y \in EnterCells : ~Boxed(y) /\ 1 < y[2] /\ y # h
    <2> SUFFICES ASSUME NEW y \in EnterCells PROVE ~Boxed(y) /\ 1 < y[2] /\ y # h
      OBVIOUS
    <2>1. Behind(h, y) /\ y # h
      BY <1>3, GuestFacts
    <2> QED
      BY <2>1, UnitCells DEF Behind
  <1>5. \A y \in EnterCells' : ~Boxed(y) /\ src[y] \in EnterCells /\ y \in Cells'
    BY <1>4, UnitMoved
  <1>6. EnterCells' = {} <=> EnterCells = {}
    BY <1>3, UnitMoved
  <1>7. \A y, z \in EnterCells' : y = z
    <2>1. \A y, z \in EnterCells : y = z
      BY GuestFacts
    <2> QED
      BY <2>1, UnitMoved
  <1>8. guest.entering <=> EnterCells # {}
    BY GuestFacts
  <1>9. \A x \in LeaveCells' : src[x] = h /\ x \in Cells'
    BY <1>1, UnitMoved
  <1>10. row.inside <=> ~Entry(h).done
    BY GuestFacts
  <1>11. ASSUME NEW x \in LeaveCells'
         PROVE  (row'.inside <=> (Boxed(x) \/ ~Entry(x)'.done)) /\ \A y \in EnterCells' : Behind(x, y)
    <2>1. CASE row'.inside = FALSE /\ \A y \in Cells' : src[y] = y /\ (y = h => Entry(y)'.done)
      <3>1. x = h /\ Entry(x)'.done /\ ~Boxed(x)
        BY <1>9, <2>1
      <3>2. \A y \in EnterCells' : y \in EnterCells
        BY <1>5, <2>1
      <3>3. \A y \in EnterCells' : Behind(x, y)
        BY <1>4, <3>1, <3>2 DEF Behind, Boxed
      <3> QED
        BY <2>1, <3>1, <3>3
    <2>2. CASE row'.inside = row.inside /\ ~Entry(h).done /\ \A y \in Cells' : src[y] = h => Boxed(y)
      <3>1. Boxed(x)
        BY <1>9, <2>2
      <3>2. \A y \in EnterCells' : Behind(x, y)
        <4> TAKE y \in EnterCells'
        <4>1. x[1] = "inbox" /\ ~(y[1] = "inbox")
          BY <1>5, <3>1 DEF Boxed
        <4> QED
          BY ONLY <4>1 DEF Behind, Boxed
      <3> QED
        BY <1>10, <2>2, <3>1, <3>2
    <2> QED
      BY <1>9, <2>1, <2>2
  <1>12. LeaveCells' = {} => row'.inside = FALSE
    BY UnitMoved
  <1> QED
    <2>1. /\ guest'.leaving => guest'.inside /\ ~guest'.entering
          /\ AtMostOne(EnterCells') /\ AtMostOne(LeaveCells')
          /\ guest'.entering <=> EnterCells' # {}
      BY <1>2, <1>3, <1>6, <1>7, <1>8 DEF AtMostOne
    <2>2. \A y \in LeaveCells' : /\ ~guest'.inside
                                 /\ row'.inside <=> (Boxed(y) \/ ~Entry(y)'.done)
                                 /\ \A z \in EnterCells' : Behind(y, z)
      BY <1>3, <1>11
    <2>3. LeaveCells' = {} =>
               /\ EnterCells' = {} => row'.inside = guest'.inside
               /\ \A z \in EnterCells' :
                    IF Boxed(z) THEN row'.inside = (guest'.inside \/ Entry(z)'.ok)
                    ELSE (guest'.inside => row'.inside) /\ (row'.inside => guest'.inside \/ Entry(z)'.done)
      BY <1>3, <1>5, <1>12 DEF LoopType
    <2> QED
      BY <2>1, <2>2, <2>3 DEF GuestWay, AtMostOne, Behind, Boxed
LEMMA UnitGrown ==
    ASSUME QueueType, InboxType, NEW jobs, Grown(jobs)
    PROVE  /\ \A x \in EnterCells : x \in EnterCells' /\ Entry(x)' = Entry(x)
           /\ \A x \in LeaveCells : x \in LeaveCells' /\ Entry(x)' = Entry(x)
           /\ \A x \in EnterCells' : x \in EnterCells \/
                (NewCell(x, jobs) /\ \E n \in 1..Len(jobs[x[1]]) : x[2] = Len(queue[x[1]]) + n /\ jobs[x[1]][n] = EnterJob)
           /\ \A x \in LeaveCells' : x \in LeaveCells \/
                (NewCell(x, jobs) /\ \E n \in 1..Len(jobs[x[1]]) : x[2] = Len(queue[x[1]]) + n /\ jobs[x[1]][n] = LeaveJob)
  <1>1. \A x \in Cells : x \in Cells' /\ Entry(x)' = Entry(x)
    BY DEF Grown
  <1>2. ASSUME NEW x \in Cells', x \notin Cells
        PROVE  NewCell(x, jobs) /\ \E n \in 1..Len(jobs[x[1]]) : x[2] = Len(queue[x[1]]) + n /\ Entry(x)'.job = jobs[x[1]][n]
    <2>1. NewCell(x, jobs)
      BY <1>2 DEF Grown
    <2> QED
      BY <2>1 DEF NewCell
  <1> QED
    BY <1>1, <1>2 DEF EnterCells, LeaveCells
\* Jobs that are not the unit's.
LEMMA GuestUntouched ==
    ASSUME QueueType, InboxType, NEW jobs, Grown(jobs), GuestWay, guest' = guest, row' = row, Known' => Known,
           \A k \in Key : \A n \in 1..Len(jobs[k]) : jobs[k][n] \notin {EnterJob, LeaveJob}
    PROVE  GuestWay'
  <1> SUFFICES ASSUME Known' PROVE GuestWay'
    BY DEF GuestWay, Known
  <1>1. /\ EnterCells' = EnterCells /\ LeaveCells' = LeaveCells
        /\ \A x \in EnterCells \cup LeaveCells : Entry(x)' = Entry(x)
    <2>1. \A x \in LeaveCells' \cup EnterCells' : x \in LeaveCells \cup EnterCells
      <3> SUFFICES ASSUME NEW x \in LeaveCells' \cup EnterCells', x \notin LeaveCells \cup EnterCells PROVE FALSE
        OBVIOUS
      <3>1. PICK n \in 1..Len(jobs[x[1]]) : NewCell(x, jobs) /\ jobs[x[1]][n] \in {EnterJob, LeaveJob}
        BY UnitGrown
      <3>2. x[1] \in Key
        BY <3>1 DEF NewCell
      <3> QED
        BY <3>1, <3>2
    <2>2. EnterCells \cap LeaveCells = {} /\ \A x \in EnterCells' : x \notin LeaveCells'
      <3>1. EnterCells \cap LeaveCells = {}
        BY UnitCells
      <3> QED
        BY <3>1, UnitKinds DEF EnterCells, LeaveCells
    <2>3. /\ \A x \in EnterCells : x \in EnterCells' /\ Entry(x)' = Entry(x)
          /\ \A x \in LeaveCells : x \in LeaveCells' /\ Entry(x)' = Entry(x)
      BY UnitGrown
    <2> QED
      BY <2>1, <2>2, <2>3
  <1>2. GuestWay /\ Known
    OBVIOUS
  <1> QED
    BY <1>1, <1>2 DEF GuestWay, Known, AtMostOne, Behind, Boxed
LEMMA EnterSubmitted ==
    ASSUME QueueType, InboxType, CellsNow', LoopType, RowType(row), NEW jobs, Grown(jobs), GuestWay, Known' => Known, row' = row,
           ~guest.entering, ~guest.inside, guest' = [guest EXCEPT !.entering = TRUE],
           \A k \in Key : \A n \in 1..Len(jobs[k]) : k = "unit" /\ n = 1 /\ jobs[k][n] = EnterJob,
           \E k \in Key : \E n \in 1..Len(jobs[k]) : jobs[k][n] = EnterJob
    PROVE  GuestWay'
  <1> SUFFICES ASSUME Known' PROVE GuestWay'
    BY DEF GuestWay, Known
  <1>1. EnterCells = {}
    BY GuestFacts
  <1>2. LeaveCells' = LeaveCells /\ \A x \in LeaveCells : Entry(x)' = Entry(x)
    <2>1. \A x \in LeaveCells' : x \in LeaveCells
      <3> SUFFICES ASSUME NEW x \in LeaveCells', x \notin LeaveCells PROVE FALSE
        OBVIOUS
      <3>1. PICK n \in 1..Len(jobs[x[1]]) : NewCell(x, jobs) /\ jobs[x[1]][n] = LeaveJob
        BY UnitGrown
      <3>2. x[1] \in Key
        BY <3>1 DEF NewCell
      <3> QED
        BY <3>1, <3>2, UnitKinds
    <2> QED
      BY <2>1, UnitGrown
  <1>3. PICK x \in Cells' : Entry(x)'.job = EnterJob
    BY DEF Grown
  <1>4. x \in EnterCells'
    BY <1>3 DEF EnterCells
  <1>5. \A y \in EnterCells' : y[1] = "unit" /\ y[2] = Len(queue["unit"]) + 1 /\ ~Entry(y)'.done /\ ~Boxed(y) /\ NewCell(y, jobs)
    <2> SUFFICES ASSUME NEW y \in EnterCells'
                 PROVE  y[1] = "unit" /\ y[2] = Len(queue["unit"]) + 1 /\ ~Entry(y)'.done /\ ~Boxed(y) /\ NewCell(y, jobs)
      OBVIOUS
    <2>1. PICK n \in 1..Len(jobs[y[1]]) : NewCell(y, jobs) /\ y[2] = Len(queue[y[1]]) + n
      BY <1>1, UnitGrown
    <2>2. y[1] \in Key /\ ~Entry(y)'.done
      BY <2>1 DEF NewCell
    <2>3. y[1] = "unit" /\ n = 1
      BY <2>1, <2>2
    <2> QED
      BY <2>1, <2>2, <2>3 DEF Boxed
  <1>6. \A y, z \in EnterCells' : y = z
    <2> SUFFICES ASSUME NEW y \in EnterCells', NEW z \in EnterCells' PROVE y = z
      OBVIOUS
    <2>1. y = <<y[1], y[2]>> /\ z = <<z[1], z[2]>>
      BY DEF CellsNow, CellFacts, EnterCells, LeaveCells, Cells
    <2> QED
      BY <1>5, <2>1
  <1>7. guest'.entering = TRUE /\ guest'.inside = guest.inside /\ guest'.leaving = guest.leaving /\ guest.inside = FALSE /\ guest.leaving = FALSE
    BY GuestFacts DEF LoopType
  <1>8. \A y \in LeaveCells : \A z \in EnterCells' : Behind(y, z)
    <2> SUFFICES ASSUME NEW y \in LeaveCells, NEW z \in EnterCells' PROVE Behind(y, z)
      OBVIOUS
    <2>1. Boxed(y) \in BOOLEAN /\ (~Boxed(y) => y[2] \in 1..Len(queue["unit"]))
      BY UnitCells
    <2>2. z[2] = Len(queue["unit"]) + 1 /\ ~Boxed(z)
      BY <1>5
    <2>3. Len(queue["unit"]) \in Nat
      BY DEF QueueType, Key
    <2> QED
      BY <2>1, <2>2, <2>3 DEF Behind, Boxed
  <1> QED
    <2>1. /\ guest'.leaving => guest'.inside /\ ~guest'.entering
          /\ AtMostOne(EnterCells') /\ AtMostOne(LeaveCells')
          /\ guest'.entering <=> EnterCells' # {}
      BY <1>2, <1>4, <1>6, <1>7, GuestFacts DEF AtMostOne
    <2>2. \A y \in LeaveCells' : /\ ~guest'.inside
                                 /\ row'.inside <=> (Boxed(y) \/ ~Entry(y)'.done)
                                 /\ \A z \in EnterCells' : Behind(y, z)
      BY <1>2, <1>7, <1>8, GuestFacts
    <2>3. LeaveCells' = {} =>
               /\ EnterCells' = {} => row'.inside = guest'.inside
               /\ \A z \in EnterCells' :
                    IF Boxed(z) THEN row'.inside = (guest'.inside \/ Entry(z)'.ok)
                    ELSE (guest'.inside => row'.inside) /\ (row'.inside => guest'.inside \/ Entry(z)'.done)
      BY <1>1, <1>2, <1>4, <1>5, <1>7, GuestFacts
    <2> QED
      BY <2>1, <2>2, <2>3 DEF GuestWay, AtMostOne, Behind, Boxed
\* The unit leaves, or waits for a tile.
LEMMA LeaveSubmitted ==
    ASSUME QueueType, InboxType, CellsNow', LoopType, RowType(row), NEW jobs, Grown(jobs), GuestWay, Known' => Known, row' = row,
           Known' => guest.inside /\ ~guest.entering, NEW tile \in BOOLEAN, guest' = Left(tile),
           \A k \in Key : \A n \in 1..Len(jobs[k]) : jobs[k][n] # EnterJob /\ (jobs[k][n] = LeaveJob => k = "unit" /\ n = 1 /\ tile),
           tile => \E k \in Key : \E n \in 1..Len(jobs[k]) : jobs[k][n] = LeaveJob
    PROVE  GuestWay'
  <1> SUFFICES ASSUME Known' PROVE GuestWay'
    BY DEF GuestWay, Known
  <1>1. EnterCells = {} /\ LeaveCells = {} /\ row.inside = guest.inside
    BY GuestFacts
  <1>2. EnterCells' = {}
    BY <1>1, UnitGrown DEF NewCell
  <1>3. \A y \in LeaveCells' : y[1] = "unit" /\ y[2] = Len(queue["unit"]) + 1 /\ ~Entry(y)'.done /\ ~Boxed(y) /\ tile
    <2> SUFFICES ASSUME NEW y \in LeaveCells'
                 PROVE  y[1] = "unit" /\ y[2] = Len(queue["unit"]) + 1 /\ ~Entry(y)'.done /\ ~Boxed(y) /\ tile
      OBVIOUS
    <2>1. PICK n \in 1..Len(jobs[y[1]]) : NewCell(y, jobs) /\ y[2] = Len(queue[y[1]]) + n /\ jobs[y[1]][n] = LeaveJob
      BY <1>1, UnitGrown
    <2>2. y[1] \in Key /\ ~Entry(y)'.done
      BY <2>1 DEF NewCell
    <2>3. y[1] = "unit" /\ n = 1 /\ tile
      BY <2>1, <2>2
    <2> QED
      BY <2>1, <2>2, <2>3 DEF Boxed
  <1>4. \A y, z \in LeaveCells' : y = z
    <2> SUFFICES ASSUME NEW y \in LeaveCells', NEW z \in LeaveCells' PROVE y = z
      OBVIOUS
    <2>1. y = <<y[1], y[2]>> /\ z = <<z[1], z[2]>>
      BY DEF CellsNow, CellFacts, EnterCells, LeaveCells, Cells
    <2> QED
      BY <1>3, <2>1
  <1>5. guest.inside = TRUE /\ guest.entering = FALSE
    BY DEF LoopType
  <1>6. /\ tile => guest'.inside = FALSE /\ guest'.leaving = FALSE
        /\ ~tile => guest'.inside = TRUE /\ guest'.leaving = TRUE
        /\ guest'.entering = FALSE
    BY <1>5 DEF Left, LoopType
  <1>7. tile => LeaveCells' # {}
    <2>1. tile => \E x \in Cells' : Entry(x)'.job = LeaveJob
      BY DEF Grown
    <2> QED
      BY <2>1 DEF LeaveCells
  <1>8. row'.inside = TRUE
    BY <1>1, <1>5
  <1> QED
    <2>1. /\ guest'.leaving => guest'.inside /\ ~guest'.entering
          /\ AtMostOne(EnterCells') /\ AtMostOne(LeaveCells')
          /\ guest'.entering <=> EnterCells' # {}
      BY <1>2, <1>4, <1>6 DEF AtMostOne
    <2>2. \A y \in LeaveCells' : /\ ~guest'.inside
                                 /\ row'.inside <=> (Boxed(y) \/ ~Entry(y)'.done)
                                 /\ \A z \in EnterCells' : Behind(y, z)
      BY <1>2, <1>3, <1>6, <1>8
    <2>3. LeaveCells' = {} =>
               /\ EnterCells' = {} => row'.inside = guest'.inside
               /\ \A z \in EnterCells' :
                    IF Boxed(z) THEN row'.inside = (guest'.inside \/ Entry(z)'.ok)
                    ELSE (guest'.inside => row'.inside) /\ (row'.inside => guest'.inside \/ Entry(z)'.done)
      BY <1>2, <1>6, <1>7, <1>8
    <2> QED
      BY <2>1, <2>2, <2>3 DEF GuestWay, AtMostOne, Behind, Boxed
-----------------------------------------------------------------------------
(* One step of each actor, again.                                          *)

Agreed == Orderly /\ OneHeld /\ OneWritten /\ SameTreaties /\ SameOffers /\ GuestWay

LEMMA TypesOf == ASSUME Inv PROVE TypeInv /\ LoopType /\ QueueType /\ InboxType /\ RowType(row)
  BY DEF Inv, TypeInv
LEMMA OnlyOne ==
    ASSUME NEW j \in Job
    PROVE  /\ Only(j) \in Jobs /\ OfKeys(Only(j)) /\ j.key \in Key
           /\ \A k \in Key : \A n \in 1..Len(Only(j)[k]) : k = j.key /\ n = 1 /\ Only(j)[k][n] = j /\ Len(Only(j)[k]) = 1
           /\ \E n \in 1..Len(Only(j)[j.key]) : Only(j)[j.key][n] = j
           /\ \A k \in Key : k # j.key => Len(Only(j)[k]) = 0
  <1>1. /\ Only(j) \in Jobs /\ OfKeys(Only(j))
        /\ \A k \in Key : Only(j)[k] = IF k = j.key THEN <<j>> ELSE <<>>
    BY OnlyJobs
  <1>2. j.key \in Key
    BY JobFacts
  <1>3. PICK jobs : jobs = Only(j)
    OBVIOUS
  <1>4. jobs[j.key] = <<j>> /\ \A k \in Key : k # j.key => jobs[k] = <<>>
    BY <1>1, <1>2, <1>3
  <1>5. Len(jobs[j.key]) = 1 /\ jobs[j.key][1] = j /\ \A k \in Key : k # j.key => Len(jobs[k]) = 0
    BY <1>4
  <1>6. ASSUME NEW k \in Key, NEW n \in 1..Len(jobs[k])
        PROVE  k = j.key /\ n = 1 /\ jobs[k][n] = j /\ Len(jobs[k]) = 1
    <2>1. k = j.key
      BY <1>5
    <2>2. Len(jobs[k]) = 1 /\ jobs[k][1] = j
      BY <1>5, <2>1
    <2>3. n \in 1..1
      BY <2>2
    <2>4. n = 1
      BY <2>3
    <2> QED
      BY <2>1, <2>2, <2>4
  <1>7. \E n \in 1..Len(jobs[j.key]) : jobs[j.key][n] = j
    BY <1>5
  <1> QED
    BY <1>1, <1>2, <1>3, <1>5, <1>6, <1>7
\* The channels as they were.
LEMMA NothingSubmitted ==
    ASSUME Inv, Inv', Agreed, UNCHANGED <<pacts, offers, busy, failed, guest, queue, inbox, row, failures, ghost, lost, slipped, crossed>>
    PROVE  Agreed'
  BY DEF Agreed, Orderly, Lone, Reserved, DoneFirst, Unfailed, OneHeld, OneWritten, SameTreaties, SameOffers, GuestWay, Good,
         OrderCells, Ends, EnterCells, LeaveCells, Cells, Entry
\* An order of a player.
LEMMA OrderSubmitted ==
    ASSUME Inv, Inv', Agreed, NEW j \in Job, j.order, NEW b \in Book, OrderOf(b, j), Free(b), busy' = busy \cup {b},
           Submit(Only(j)), Outside, UNCHANGED <<pacts, offers, failed, guest, slipped, crossed>>,
           b = "treaty" => OneOfEach(AfterTreaty(pacts, j)) /\ (Good => SoundTreaty(pacts, row.treaties, j)),
           b = "trade" => AtMostOne(AfterOffer(offers, j)) /\ (Good => SoundOffer(offers, row.offers, j))
    PROVE  Agreed'
  <1> DEFINE jobs == Only(j)
  <1>1. /\ jobs \in Jobs /\ OfKeys(jobs) /\ j.key \in Key
        /\ \A k \in Key : \A n \in 1..Len(jobs[k]) : k = j.key /\ n = 1 /\ jobs[k][n] = j /\ Len(jobs[k]) = 1
        /\ \E n \in 1..Len(jobs[j.key]) : jobs[j.key][n] = j
        /\ \A k \in Key : k # j.key => Len(jobs[k]) = 0
    BY OnlyOne
  <1>2. TypeInv /\ LoopType /\ QueueType /\ InboxType /\ RowType(row)
    BY TypesOf
  <1>3. Submit(jobs) /\ inbox' = inbox /\ row' = row /\ failures' = failures /\ ghost' = ghost /\ lost' = lost
    BY DEF Outside
  <1> HIDE DEF jobs
  <1>4. Grown(jobs) /\ CellsNow'
    BY <1>1, <1>2, <1>3, GrownBySubmit
  <1>5. \A c \in Book : OrderOf(c, j) => c = b
    BY Books DEF Book
  <1>6. /\ Orderly /\ OneHeld /\ OneWritten /\ SameTreaties /\ SameOffers /\ GuestWay
        /\ Lone("treaty") /\ Lone("trade") /\ b \notin busy
    BY DEF Agreed, Orderly, Free
  <1>7. Orderly'
    <2>1. Room(jobs)
      <3> SUFFICES ASSUME NEW x \in Cells, ~Boxed(x), Entry(x).job.order PROVE Len(jobs[x[1]]) = 0
        BY DEF Room
      <3>1. x[1] \in Key /\ Entry(x).job.key = x[1] /\ Entry(x).job \in Job
        BY <1>2, CellJobs
      <3>2. ~OrderOf(b, Entry(x).job)
        BY <1>6 DEF Lone, OrderCells, Book
      <3>3. x[1] # j.key
        BY <3>1, <3>2, Books DEF Book
      <3> QED
        BY <1>1, <3>1, <3>3
    <2>2. failures = 0 => failed' = {}
      BY <1>6 DEF Orderly, Unfailed
    <2> DEFINE new == {b}
    <2>3. new \in SUBSET Book /\ busy' = busy \cup new /\ new \cap busy = {}
      BY <1>6
    <2>4. \A c \in Book : \A k \in Key : \A n \in 1..Len(jobs[k]) : OrderOf(c, jobs[k][n]) => c \in new /\ Len(jobs[k]) = 1
      BY <1>1, <1>5
    <2>5. \A c \in new : \E k \in Key : \E n \in 1..Len(jobs[k]) : OrderOf(c, jobs[k][n])
      BY <1>1
    <2>6. \A c \in new : \A k, l \in Key : \A n \in 1..Len(jobs[k]) : \A m \in 1..Len(jobs[l]) :
             OrderOf(c, jobs[k][n]) /\ OrderOf(c, jobs[l][m]) => k = l
      BY <1>1
    <2> HIDE DEF new
    <2> QED
      BY <1>1, <1>2, <1>3, <1>4, <1>6, <2>1, <2>2, <2>3, <2>4, <2>5, <2>6, OrderlyGrown
  <1>8. OneHeld'
    <2>1. \A k \in Key : \A n \in 1..Len(jobs[k]) :
             /\ OrderOf("treaty", jobs[k][n]) => OneOfEach(AfterTreaty(pacts', jobs[k][n]))
             /\ OrderOf("trade", jobs[k][n]) => AtMostOne(AfterOffer(offers', jobs[k][n]))
      BY <1>1, <1>5 DEF Book
    <2> QED
      BY <1>4, <1>6, <2>1, OneHeldGrown
  <1>9. OneWritten'
    BY <1>3, <1>6 DEF OneWritten
  <1>10. Good' => Good
    BY <1>3 DEF Good
  <1>11. ~EndOf("Treaty", j) /\ ~EndOf("Offer", j) /\ j \notin {EnterJob, LeaveJob}
    BY Books DEF EndOf
  <1>12. SameTreaties'
    <2>1. CASE ~Good'
      BY <2>1 DEF SameTreaties
    <2>2. CASE Good'
      <3>1. \A k \in Key : \A n \in 1..Len(jobs[k]) :
             /\ ~EndOf("Treaty", jobs[k][n])
             /\ OrderOf("treaty", jobs[k][n]) => "treaty" \notin busy /\ SoundTreaty(pacts, row.treaties, jobs[k][n])
        BY <1>1, <1>5, <1>6, <1>10, <1>11, <2>2 DEF Book
      <3> QED
        BY <1>2, <1>3, <1>4, <1>6, <1>10, <3>1, TreatiesOrdered
    <2> QED
      BY <2>1, <2>2
  <1>13. SameOffers'
    <2>1. CASE ~Good'
      BY <2>1 DEF SameOffers
    <2>2. CASE Good'
      <3>1. \A k \in Key : \A n \in 1..Len(jobs[k]) :
             /\ ~EndOf("Offer", jobs[k][n])
             /\ OrderOf("trade", jobs[k][n]) => "trade" \notin busy /\ SoundOffer(offers, row.offers, jobs[k][n])
        BY <1>1, <1>5, <1>6, <1>10, <1>11, <2>2 DEF Book
      <3> QED
        BY <1>2, <1>3, <1>4, <1>6, <1>10, <3>1, OffersOrdered
    <2> QED
      BY <2>1, <2>2
  <1>14. GuestWay'
    <2>1. \A k \in Key : \A n \in 1..Len(jobs[k]) : jobs[k][n] \notin {EnterJob, LeaveJob}
      BY <1>1, <1>11
    <2> QED
      BY <1>2, <1>3, <1>4, <1>6, <2>1, GuestUntouched DEF Known
  <1> QED
    BY <1>7, <1>8, <1>9, <1>12, <1>13, <1>14 DEF Agreed
LEMMA TreatyOrderAgreed ==
    ASSUME Inv, Inv', Agreed, NEW j \in TreatyJobs, j.order = TRUE, Free("treaty"), TreatyOrder(j),
           OneOfEach(AfterTreaty(pacts, j)), Good => SoundTreaty(pacts, row.treaties, j)
    PROVE  Agreed'
  <1>1. j \in Job /\ "treaty" \in Book
    BY DEF Job, Book
  <1>2. OrderOf("treaty", j)
    BY <1>1, Books
  <1>3. /\ busy' = busy \cup {"treaty"} /\ Submit(Only(j)) /\ Outside
        /\ UNCHANGED <<pacts, offers, failed, guest, slipped, crossed>>
    BY DEF TreatyOrder
  <1> QED
    BY <1>1, <1>2, <1>3, OrderSubmitted
LEMMA TradeOrderAgreed ==
    ASSUME Inv, Inv', Agreed, NEW j \in OfferJobs \cup AcceptJobs, j.order = TRUE, Free("trade"), TradeOrder(j),
           AtMostOne(AfterOffer(offers, j)), Good => SoundOffer(offers, row.offers, j)
    PROVE  Agreed'
  <1>1. j \in Job /\ "trade" \in Book
    BY DEF Job, Book
  <1>2. OrderOf("trade", j)
    BY <1>1, Books
  <1>3. /\ busy' = busy \cup {"trade"} /\ Submit(Only(j)) /\ Outside
        /\ UNCHANGED <<pacts, offers, failed, guest, slipped, crossed>>
    BY DEF TradeOrder
  <1> QED
    BY <1>1, <1>2, <1>3, OrderSubmitted
LEMMA TreatyOrdersAgreed ==
    ASSUME Inv, Inv', Agreed, NEW p \in Player,
           \/ \E ty \in Types : ProposeTreaty(p, ty)
           \/ \E t \in pacts : CancelTreaty(p, t) \/ \E accept \in BOOLEAN : RespondTreaty(p, t, accept)
    PROVE  Agreed'
  <1>0. \A t, u \in pacts : (t.id = u.id => t = u) /\ (t.st = u.st => t = u) /\ t \in Treaty /\ t.st \in {"PROPOSED", "ACTIVE"}
    BY DEF Agreed, OneHeld, OneOfEach, Inv, TypeInv, LoopType, OpenStates
  <1>00. \A t \in Treaty : t.id \in Nat /\ t.id # NoId
    BY DEF Treaty, TreatyType
  <1>1. ASSUME NEW ty \in Types, ProposeTreaty(p, ty) PROVE Agreed'
    <2> DEFINE t == NewTreaty(Fresh, p, ty)
               j == TreatyJob(t, "PROPOSED", NoId, TRUE)
    <2>1. Fresh \in Nat /\ Fresh # NoId /\ \A o \in pacts \cup row.treaties : o.id # Fresh
      BY FreshId DEF Inv
    <2>2. ty \in DOMAIN Rank
      BY ConstantsAssumption
    <2>3. t \in Treaty /\ t.id = Fresh /\ t.st = "PROPOSED"
      BY <2>1, <2>2 DEF Treaty, TreatyType, NewTreaty, OpenStates
    <2> HIDE DEF t
    <2>4. j \in TreatyJobs /\ j.t = t /\ j.order = TRUE /\ j.from = "PROPOSED" /\ j.sup = NoId
      BY <2>3 DEF TreatyJobs, TreatyJob, OpenStates, NoId
    <2>5. Free("treaty") /\ TreatyOrder(j) /\ \A o \in pacts : o.st = "ACTIVE"
      BY <1>1 DEF ProposeTreaty, t, Improves
    <2> HIDE DEF j
    <2>6. SoundTreaty(pacts, row.treaties, j)
      BY <2>1, <2>3, <2>4 DEF SoundTreaty, Inserts, Has
    <2>7. OneOfEach(AfterTreaty(pacts, j))
      <3>1. \A o \in AfterTreaty(pacts, j) : o = t \/ (o \in pacts /\ o.st = "ACTIVE")
        BY <2>4, <2>5 DEF AfterTreaty, Kept
      <3> QED
        BY <1>0, <2>3, <3>1 DEF OneOfEach
    <2> QED
      BY <2>4, <2>5, <2>6, <2>7, TreatyOrderAgreed
  <1>2. ASSUME NEW t \in pacts, NEW u \in Treaty, u.id = t.id, u # t, NEW sup \in Nat, Free("treaty"),
               TreatyOrder(TreatyJob(u, t.st, sup, TRUE)), t.st # "PROPOSED" \/ u.st # "PROPOSED",
               sup # NoId => \E x \in pacts : x.id = sup /\ x.st = "ACTIVE" /\ x.id # t.id,
               u.st \in OpenStates => \A o \in pacts : o.id \notin {t.id, sup} => o.st # u.st
        PROVE  Agreed'
    <2> DEFINE j == TreatyJob(u, t.st, sup, TRUE)
    <2>1. j \in TreatyJobs /\ j.t = u /\ j.order = TRUE /\ j.from = t.st /\ j.sup = sup
      BY <1>0 DEF TreatyJobs, TreatyJob, OpenStates
    <2>2. TreatyOrder(j)
      BY <1>2
    <2> HIDE DEF j
    <2>3. SoundTreaty(pacts, row.treaties, j)
      BY <1>2, <2>1 DEF SoundTreaty, Inserts
    <2>4. OneOfEach(AfterTreaty(pacts, j))
      <3>1. \A o \in AfterTreaty(pacts, j) : (o = u /\ u.st \in OpenStates) \/ (o \in pacts /\ o.id \notin {t.id, sup})
        BY <1>2, <2>1 DEF AfterTreaty, Kept
      <3> QED
        BY <1>0, <1>2, <3>1 DEF OneOfEach
    <2> QED
      BY <1>2, <2>1, <2>2, <2>3, <2>4, TreatyOrderAgreed
  <1>4. NoId \in Nat /\ OpenStates = {"PROPOSED", "ACTIVE"}
    BY DEF NoId, OpenStates
  <1>5. ASSUME NEW t \in pacts, CancelTreaty(p, t) PROVE Agreed'
    <2>0. t \in Treaty
      BY <1>0
    <2>1. CASE t.st = "PROPOSED" /\ TreatyOrder(TreatyJob([t EXCEPT !.st = "WITHDRAWN"], "PROPOSED", NoId, TRUE))
      <3> DEFINE u == [t EXCEPT !.st = "WITHDRAWN"]
      <3>1. u \in Treaty /\ u.id = t.id /\ u.st = "WITHDRAWN"
        BY <2>0, <2>1 DEF Treaty, TreatyType
      <3>2. Free("treaty") /\ TreatyOrder(TreatyJob(u, t.st, NoId, TRUE))
        BY <1>5, <2>1 DEF CancelTreaty
      <3> HIDE DEF u
      <3> QED
        BY <1>2, <1>4, <2>1, <3>1, <3>2
    <2>2. CASE t.st = "ACTIVE" /\ ~t.brk /\ TreatyOrder(TreatyJob([t EXCEPT !.brk = TRUE], "ACTIVE", NoId, TRUE))
      <3> DEFINE u == [t EXCEPT !.brk = TRUE]
      <3>1. u \in Treaty /\ u.id = t.id /\ u.st = "ACTIVE" /\ u # t
        BY <2>0, <2>2 DEF Treaty, TreatyType
      <3>2. Free("treaty") /\ TreatyOrder(TreatyJob(u, t.st, NoId, TRUE))
        BY <1>5, <2>2 DEF CancelTreaty
      <3> HIDE DEF u
      <3>3. \A o \in pacts : o.id # t.id => o.st # u.st
        BY <1>0, <2>2, <3>1
      <3> QED
        BY <1>2, <1>4, <2>2, <3>1, <3>2, <3>3
    <2> QED
      BY <1>5, <2>1, <2>2 DEF CancelTreaty
  <1>6. ASSUME NEW t \in pacts, NEW accept \in BOOLEAN, RespondTreaty(p, t, accept) PROVE Agreed'
    <2> DEFINE u == [t EXCEPT !.st = IF accept THEN "ACTIVE" ELSE "REJECTED"]
               active == {o \in pacts : o.st = "ACTIVE"}
               sup == IF accept /\ active # {} THEN (CHOOSE o \in active : TRUE).id ELSE NoId
    <2>1. t.st = "PROPOSED" /\ t \in Treaty /\ t.by \in Player
      BY <1>0, <1>6 DEF RespondTreaty, Treaty
    <2>2. u \in Treaty /\ u.id = t.id /\ u.st = IF accept THEN "ACTIVE" ELSE "REJECTED"
      BY <2>1 DEF Treaty, TreatyType, OpenStates
    <2>3. PICK old : old = CHOOSE o \in active : TRUE
      OBVIOUS
    <2>4. active # {} => old \in active
      BY <2>3
    <2>5. /\ sup \in Nat
          /\ sup # NoId => \E x \in pacts : x.id = sup /\ x.st = "ACTIVE" /\ x.id # t.id
          /\ accept => \A o \in pacts : o.id \notin {t.id, sup} => o.st # "ACTIVE"
      <3>1. CASE accept /\ active # {}
        <4>1. old \in pacts /\ old.st = "ACTIVE" /\ sup = old.id
          BY <2>3, <2>4, <3>1
        <4>2. old.id \in Nat /\ old.id # t.id
          BY <1>0, <1>00, <2>1, <4>1
        <4> QED
          BY <1>0, <4>1, <4>2
      <3>2. CASE ~(accept /\ active # {})
        BY <1>4, <3>2
      <3> QED
        BY <3>1, <3>2
    <2>6. Free("treaty") /\ TreatyOrder(TreatyJob(u, t.st, sup, TRUE))
      BY <1>6, <2>1 DEF RespondTreaty
    <2> HIDE DEF u, sup
    <2> QED
      BY <1>2, <1>4, <2>1, <2>2, <2>5, <2>6
  <1> QED
    BY <1>1, <1>5, <1>6
LEMMA TradeOrdersAgreed ==
    ASSUME Inv, Inv', Agreed, NEW p \in Player,
           ProposeTrade(p) \/ \E o \in offers : AcceptTrade(p, o) \/ CloseTrade(p, o)
    PROVE  Agreed'
  <1>1. CASE ProposeTrade(p)
    <2> DEFINE o == [id |-> Fresh, by |-> p, st |-> "PROPOSED"]
               j == OfferJob(o, TRUE)
    <2>1. Fresh \in Nat /\ \A x \in row.offers : x.id # Fresh
      BY FreshId DEF Inv
    <2>2. o \in Offer
      BY <2>1 DEF Offer
    <2>3. j \in OfferJobs /\ j.t = o /\ j.order = TRUE
      BY <2>2 DEF OfferJobs, OfferJob
    <2>4. TradeOrder(j) /\ Free("trade") /\ offers = {}
      BY <1>1 DEF ProposeTrade
    <2>5. o.id = Fresh /\ o.st = "PROPOSED"
      OBVIOUS
    <2> HIDE DEF j, o
    <2>6. SoundOffer(offers, row.offers, j)
      BY <2>1, <2>3, <2>4, <2>5 DEF SoundOffer, Has
    <2>7. AtMostOne(AfterOffer(offers, j))
      BY <2>3, <2>4 DEF AtMostOne, AfterOffer
    <2> QED
      BY <2>3, <2>4, <2>6, <2>7, TradeOrderAgreed
  <1>2. \A o \in offers : o \in Offer
    BY DEF Inv, TypeInv, LoopType
  <1>3. ASSUME NEW o \in offers, NEW j \in OfferJobs \cup AcceptJobs, j.order = TRUE, j.t.id = o.id, j.t.st # "PROPOSED",
               Free("trade"), TradeOrder(j)
        PROVE  Agreed'
    <2>1. SoundOffer(offers, row.offers, j)
      BY <1>3 DEF SoundOffer, Has
    <2>2. AtMostOne(AfterOffer(offers, j))
      BY <1>3 DEF Agreed, OneHeld, AtMostOne, AfterOffer
    <2> QED
      BY <1>3, <2>1, <2>2, TradeOrderAgreed
  <1>4. ASSUME NEW o \in offers, AcceptTrade(p, o) PROVE Agreed'
    <2> DEFINE u == [o EXCEPT !.st = "ACCEPTED"]
               j == AcceptJob(u)
    <2>1. u \in Offer /\ u.st = "ACCEPTED" /\ u.id = o.id
      BY <1>2 DEF Offer
    <2> HIDE DEF u
    <2>2. j \in AcceptJobs /\ j.t = u /\ j.order = TRUE
      BY <2>1 DEF AcceptJobs, AcceptJob
    <2>3. TradeOrder(j) /\ Free("trade")
      BY <1>4 DEF AcceptTrade, u
    <2> HIDE DEF j
    <2> QED
      BY <1>3, <2>1, <2>2, <2>3
  <1>5. ASSUME NEW o \in offers, CloseTrade(p, o) PROVE Agreed'
    <2> DEFINE u == [o EXCEPT !.st = IF o.by = p THEN "WITHDRAWN" ELSE "REJECTED"]
               j == OfferJob(u, TRUE)
    <2>1. u \in Offer /\ u.st # "PROPOSED" /\ u.id = o.id
      BY <1>2 DEF Offer
    <2> HIDE DEF u
    <2>2. j \in OfferJobs /\ j.t = u /\ j.order = TRUE
      BY <2>1 DEF OfferJobs, OfferJob
    <2>3. TradeOrder(j) /\ Free("trade")
      BY <1>5 DEF CloseTrade, u
    <2> HIDE DEF j
    <2> QED
      BY <1>3, <2>1, <2>2, <2>3
  <1> QED
    BY <1>1, <1>4, <1>5
\* Jobs that are not orders.
LEMMA NoOrdersSubmitted ==
    ASSUME Inv, Agreed, NEW jobs \in Jobs, OfKeys(jobs), Grown(jobs), CellsNow',
           \A k \in Key : \A n \in 1..Len(jobs[k]) : ~jobs[k][n].order,
           busy' = busy, lost' = lost, failures' = failures, row' = row,
           failures = 0 => failed' = {} /\ Room(jobs), pacts' \subseteq pacts, offers' \subseteq offers,
           "treaty" \in busy => pacts' = pacts, "trade" \in busy => offers' = offers
    PROVE  Orderly' /\ OneHeld' /\ OneWritten'
  <1>1. QueueType /\ InboxType
    BY TypesOf
  <1>2. /\ Orderly /\ OneHeld /\ OneWritten
        /\ "treaty" \notin busy => OrderCells("treaty") = {}
        /\ "trade" \notin busy => OrderCells("trade") = {}
    BY DEF Agreed, Orderly, Lone
  <1>3. \A b : \A k \in Key : \A n \in 1..Len(jobs[k]) : ~OrderOf(b, jobs[k][n])
    BY DEF OrderOf
  <1>4. Orderly'
    <2> DEFINE new == {}
    <2>1. new \in SUBSET Book /\ busy' = busy \cup new /\ new \cap busy = {}
      OBVIOUS
    <2>2. \A b \in new : FALSE
      OBVIOUS
    <2> HIDE DEF new
    <2> QED
      BY <1>1, <1>2, <1>3, <2>1, <2>2, OrderlyGrown
  <1>5. OneHeld'
    BY <1>2, <1>3, OneHeldGrown
  <1> QED
    BY <1>2, <1>4, <1>5 DEF OneWritten
\* The way in and the way out of the unit.
LEMMA UnitSubmitted ==
    ASSUME Inv, Agreed, NEW jobs \in Jobs, OfKeys(jobs), Submit(jobs), Outside,
           UNCHANGED <<pacts, offers, busy, failed>>,
           \A k \in Key : \A n \in 1..Len(jobs[k]) : k = "unit" /\ jobs[k][n] \in {EnterJob, LeaveJob}
    PROVE  /\ Grown(jobs) /\ CellsNow' /\ row' = row /\ ghost' = ghost /\ lost' = lost
           /\ Orderly' /\ OneHeld' /\ OneWritten' /\ SameTreaties' /\ SameOffers'
  <1>1. QueueType /\ InboxType
    BY TypesOf
  <1>2. inbox' = inbox /\ row' = row /\ failures' = failures /\ ghost' = ghost /\ lost' = lost
    BY DEF Outside
  <1>3. Grown(jobs) /\ CellsNow'
    BY <1>1, <1>2, GrownBySubmit
  <1>4. /\ ~EnterJob.order /\ ~EndOf("Treaty", EnterJob) /\ ~EndOf("Offer", EnterJob)
        /\ ~LeaveJob.order /\ ~EndOf("Treaty", LeaveJob) /\ ~EndOf("Offer", LeaveJob)
    BY UnitJobsTyped, Books
  <1>5. /\ Orderly /\ Unfailed /\ Lone("treaty") /\ Lone("trade") /\ SameTreaties /\ SameOffers
    BY DEF Agreed, Orderly
  <1>6. Room(jobs)
    <2> SUFFICES ASSUME NEW x \in Cells, ~Boxed(x), Entry(x).job.order PROVE Len(jobs[x[1]]) = 0
      BY DEF Room
    <2>1. x[1] \in Key /\ Entry(x).job.key = x[1] /\ Entry(x).job \in Job
      BY <1>1, CellJobs
    <2>2. x[1] # "unit"
      BY <1>4, <2>1, Books
    <2>3. jobs[x[1]] \in Seq(Job)
      BY <2>1 DEF Jobs
    <2>4. Len(jobs[x[1]]) \in Nat /\ ~(1 \in 1..Len(jobs[x[1]]))
      BY <2>1, <2>2, <2>3
    <2> QED
      BY <2>4
  <1>7. Orderly' /\ OneHeld' /\ OneWritten'
    <2>1. failures = 0 => failed' = {}
      BY <1>5 DEF Unfailed
    <2>2. \A k \in Key : \A n \in 1..Len(jobs[k]) : ~jobs[k][n].order
      BY <1>4
    <2> QED
      BY <1>2, <1>3, <1>6, <2>1, <2>2, NoOrdersSubmitted
  <1>8. Good' => Good
    BY <1>2 DEF Good
  <1>9. SameTreaties'
    <2>1. \A k \in Key : \A n \in 1..Len(jobs[k]) : ~EndOf("Treaty", jobs[k][n]) /\ ~OrderOf("treaty", jobs[k][n])
      BY <1>4 DEF OrderOf
    <2> QED
      BY <1>1, <1>2, <1>3, <1>5, <1>8, <2>1, TreatiesOrdered
  <1>10. SameOffers'
    <2>1. \A k \in Key : \A n \in 1..Len(jobs[k]) : ~EndOf("Offer", jobs[k][n]) /\ ~OrderOf("trade", jobs[k][n])
      BY <1>4 DEF OrderOf
    <2> QED
      BY <1>1, <1>2, <1>3, <1>5, <1>8, <2>1, OffersOrdered
  <1> QED
    BY <1>2, <1>3, <1>7, <1>9, <1>10
LEMMA GarrisonAgreed == ASSUME Inv, Inv', Agreed, GarrisonUnit PROVE Agreed'
  <1> DEFINE jobs == Only(EnterJob)
  <1>0. EnterJob \in Job /\ EnterJob.key = "unit" /\ LeaveJob # EnterJob
    BY UnitJobsTyped, UnitKinds DEF EnterJob, UnitJob
  <1>1. /\ jobs \in Jobs /\ OfKeys(jobs)
        /\ \A k \in Key : \A n \in 1..Len(jobs[k]) : k = "unit" /\ n = 1 /\ jobs[k][n] = EnterJob
        /\ \E k \in Key : \E n \in 1..Len(jobs[k]) : jobs[k][n] = EnterJob
    BY <1>0, OnlyOne
  <1>2. /\ Submit(jobs) /\ Outside /\ UNCHANGED <<pacts, offers, busy, failed>> /\ slipped' = slipped /\ crossed' = crossed
        /\ ~guest.entering /\ ~guest.inside /\ guest' = [guest EXCEPT !.entering = TRUE]
    BY DEF GarrisonUnit
  <1> HIDE DEF jobs
  <1>3. /\ Grown(jobs) /\ CellsNow' /\ row' = row /\ ghost' = ghost /\ lost' = lost
        /\ Orderly' /\ OneHeld' /\ OneWritten' /\ SameTreaties' /\ SameOffers'
    BY <1>1, <1>2, UnitSubmitted
  <1>4. Known' => Known
    BY <1>2, <1>3 DEF Known
  <1>5. QueueType /\ InboxType /\ LoopType /\ RowType(row) /\ GuestWay
    BY TypesOf DEF Agreed
  <1>6. GuestWay'
    BY <1>1, <1>2, <1>3, <1>4, <1>5, EnterSubmitted
  <1> QED
    BY <1>3, <1>6 DEF Agreed
LEMMA LeavesAgreed ==
    ASSUME Inv, Inv', Agreed, NEW tile \in BOOLEAN, guest' = Left(tile), Submit(LeftJobs(tile)), Outside,
           Known => guest.inside /\ ~guest.entering,
           UNCHANGED <<pacts, offers, busy, failed, slipped, crossed>>
    PROVE  Agreed'
  <1> DEFINE jobs == LeftJobs(tile)
  <1>0. LeaveJob \in Job /\ LeaveJob.key = "unit" /\ LeaveJob # EnterJob
    BY UnitJobsTyped, UnitKinds DEF LeaveJob, UnitJob
  <1>1. /\ jobs \in Jobs /\ OfKeys(jobs)
        /\ \A k \in Key : \A n \in 1..Len(jobs[k]) : k = "unit" /\ n = 1 /\ jobs[k][n] = LeaveJob /\ tile
        /\ tile => \E k \in Key : \E n \in 1..Len(jobs[k]) : jobs[k][n] = LeaveJob
    <2>1. CASE tile
      <3>1. jobs = Only(LeaveJob)
        BY <2>1 DEF LeftJobs
      <3> HIDE DEF jobs
      <3> QED
        BY <1>0, <2>1, <3>1, OnlyOne
    <2>2. CASE ~tile
      <3>1. jobs = None
        BY <2>2 DEF LeftJobs
      <3> HIDE DEF jobs
      <3>2. \A k \in Key : Len(jobs[k]) = 0
        BY <3>1, NoneJobs
      <3> QED
        BY <2>2, <3>1, <3>2, NoneJobs
    <2> QED
      BY <2>1, <2>2
  <1>2. Submit(jobs)
    OBVIOUS
  <1> HIDE DEF jobs
  <1>3. /\ Grown(jobs) /\ CellsNow' /\ row' = row /\ ghost' = ghost /\ lost' = lost
        /\ Orderly' /\ OneHeld' /\ OneWritten' /\ SameTreaties' /\ SameOffers'
    BY <1>1, <1>2, UnitSubmitted
  <1>4. Known' => Known
    BY <1>3 DEF Known
  <1>5. QueueType /\ InboxType /\ LoopType /\ RowType(row) /\ GuestWay
    BY TypesOf DEF Agreed
  <1>6. GuestWay'
    BY <1>0, <1>1, <1>3, <1>4, <1>5, LeaveSubmitted
  <1> QED
    BY <1>3, <1>6 DEF Agreed
LEMMA RetryAgreed == ASSUME Inv, Inv', Agreed, RetryPendingExits PROVE Agreed'
  <1>1. guest.leaving /\ guest' = Left(TRUE) /\ Submit(LeftJobs(TRUE)) /\ Outside
        /\ UNCHANGED <<pacts, offers, busy, failed, slipped, crossed>>
    BY DEF RetryPendingExits
  <1>2. Known => guest.inside /\ ~guest.entering
    BY <1>1, GuestFacts DEF Agreed
  <1> QED
    BY <1>1, <1>2, LeavesAgreed
LEMMA SweepAgreed == ASSUME Inv, Inv', Agreed, NEW tile \in BOOLEAN, Sweep(tile) PROVE Agreed'
  <1> DEFINE jobs == SweepJobs(tile)
  <1>1. TypeInv /\ QueueType /\ InboxType /\ LoopType /\ RowType(row)
    BY TypesOf
  <1>2. /\ Submit(jobs) /\ Outside /\ pacts' = pacts \ Due /\ offers' = offers \ Falling /\ failed' = {}
        /\ guest' = (IF Expelled THEN Left(tile) ELSE guest)
        /\ crossed' = (crossed \/ (Expelled /\ guest.entering)) /\ busy' = busy /\ slipped' = slipped
    BY DEF Sweep, SweepJobs, ExpelledGuest
  <1>3. /\ jobs \in Jobs /\ OfKeys(jobs)
        /\ \A k \in Key : \A j : In(j, jobs[k]) <=>
             (j \in failed \cup Closings /\ j.key = k) \/ (j = LeaveJob /\ k = "unit" /\ Expelled /\ tile)
        /\ \A j \in failed \cup Closings : j \in TreatyJobs \cup OfferJobs /\ ~j.order
        /\ Len(jobs["unit"]) <= 1
    BY <1>1, SweepJobsAre
  <1>4. inbox' = inbox /\ row' = row /\ failures' = failures /\ ghost' = ghost /\ lost' = lost
    BY <1>2 DEF Outside
  <1>5. /\ Orderly /\ Unfailed /\ Lone("treaty") /\ Lone("trade") /\ SameTreaties /\ SameOffers /\ GuestWay /\ OneHeld
        /\ AtMostOne(offers)
    BY DEF Agreed, Orderly, OneHeld
  <1>6. Grown(SweepJobs(tile)) /\ CellsNow'
    <2> HIDE DEF jobs
    <2>1. Grown(jobs) /\ CellsNow'
      BY <1>1, <1>2, <1>3, <1>4, GrownBySubmit
    <2> QED
      BY <2>1 DEF jobs
  <1>7. \A k \in Key : \A n \in 1..Len(SweepJobs(tile)[k]) : ~SweepJobs(tile)[k][n].order
    BY <1>1, <1>2, <1>6, EndsSwept
  <1>8. SameTreaties'
    BY <1>1, <1>2, <1>4, <1>5, <1>6, TreatiesSwept DEF Good
  <1>9. SameOffers'
    BY <1>1, <1>2, <1>4, <1>5, <1>6, OffersSwept DEF Good
  <1>10. "treaty" \in busy => Due = {}
    BY DEF Due
  <1>11. "trade" \in busy => Falling = {}
    BY DEF Falling
  <1> HIDE DEF jobs
  <1>12. failures = 0 => failed' = {} /\ Room(jobs)
    <2> SUFFICES ASSUME failures = 0 PROVE Room(jobs)
      BY <1>2
    <2> SUFFICES ASSUME NEW x \in Cells, ~Boxed(x), Entry(x).job.order PROVE Len(jobs[x[1]]) = 0
      BY DEF Room
    <2>1. x[1] \in Key /\ Entry(x).job.key = x[1] /\ Entry(x).job \in Job
      BY <1>1, CellJobs
    <2>2. failed = {}
      BY <1>5 DEF Unfailed
    <2>3. \A t \in Due : TreatyJob(Ended(t), t.st, NoId, FALSE).key = "treaty"
      BY DEF TreatyJob
    <2>4. \A o \in Falling : OfferJob([o EXCEPT !.st = "EXPIRED"], FALSE).key = "trade"
      BY DEF OfferJob
    <2>5. \A j \in Closings : /\ j.key \in {"treaty", "trade"}
                              /\ j.key = "treaty" => Due # {}
                              /\ j.key = "trade" => Falling # {}
      BY <2>3, <2>4 DEF Closings
    <2>6. \A j : ~In(j, jobs[x[1]])
      <3> SUFFICES ASSUME NEW j, In(j, jobs[x[1]]) PROVE FALSE
        OBVIOUS
      <3>1. CASE OrderOf("treaty", Entry(x).job)
        <4>1. x[1] = "treaty" /\ "treaty" \in busy
          BY <1>5, <2>1, <3>1, Books DEF Lone, OrderCells
        <4>2. j \in Closings /\ j.key = "treaty"
          BY <1>3, <2>1, <2>2, <4>1
        <4> QED
          BY <1>10, <2>5, <4>1, <4>2
      <3>2. CASE OrderOf("trade", Entry(x).job)
        <4>1. x[1] \in {"trade", "city"} /\ "trade" \in busy
          BY <1>5, <2>1, <3>2, Books DEF Lone, OrderCells
        <4>2. j \in Closings /\ j.key = x[1]
          BY <1>3, <2>1, <2>2, <4>1
        <4> QED
          BY <1>11, <2>5, <4>1, <4>2
      <3> QED
        BY <2>1, <3>1, <3>2, Books
    <2>7. jobs[x[1]] \in Seq(Job)
      BY <1>3, <2>1 DEF Jobs
    <2>8. Len(jobs[x[1]]) \in Nat /\ ~(1 \in 1..Len(jobs[x[1]]))
      <3>1. Len(jobs[x[1]]) \in Nat
        BY <2>7
      <3>2. ~In(jobs[x[1]][1], jobs[x[1]])
        BY <2>6
      <3> QED
        BY <3>1, <3>2 DEF In
    <2> QED
      BY <2>8
  <1>13. Orderly' /\ OneHeld' /\ OneWritten'
    <2>1. /\ "treaty" \in busy => pacts' = pacts
          /\ "trade" \in busy => offers' = offers
          /\ pacts' \subseteq pacts /\ offers' \subseteq offers
      BY <1>2, <1>10, <1>11
    <2>2. Grown(jobs) /\ \A k \in Key : \A n \in 1..Len(jobs[k]) : ~jobs[k][n].order
      BY <1>6, <1>7 DEF jobs
    <2> QED
      BY <1>2, <1>3, <1>4, <1>6, <1>12, <2>1, <2>2, NoOrdersSubmitted
  <1>14. Known' => Known
    BY <1>2, <1>4 DEF Known
  <1>15. \A k \in Key : \A n \in 1..Len(jobs[k]) :
           jobs[k][n] # EnterJob /\ (jobs[k][n] = LeaveJob => k = "unit" /\ n = 1 /\ tile /\ Expelled)
    <2> SUFFICES ASSUME NEW k \in Key, NEW n \in 1..Len(jobs[k])
                 PROVE  jobs[k][n] # EnterJob /\ (jobs[k][n] = LeaveJob => k = "unit" /\ n = 1 /\ tile /\ Expelled)
      OBVIOUS
    <2>1. In(jobs[k][n], jobs[k])
      BY DEF In
    <2>2. \A j \in failed \cup Closings : j \notin {EnterJob, LeaveJob}
      <3>1. \A j \in TreatyJobs \cup OfferJobs : j.key # "unit"
        BY DEF TreatyJobs, OfferJobs
      <3>2. EnterJob.key = "unit" /\ LeaveJob.key = "unit"
        BY DEF EnterJob, LeaveJob, UnitJob
      <3> QED
        BY <1>3, <3>1, <3>2
    <2>3. jobs[k][n] # EnterJob /\ (jobs[k][n] = LeaveJob => k = "unit" /\ tile /\ Expelled)
      BY <1>3, <2>1, <2>2, UnitKinds
    <2>4. k = "unit" => n = 1
      <3>1. jobs[k] \in Seq(Job)
        BY <1>3 DEF Jobs
      <3>2. Len(jobs[k]) \in Nat
        BY <3>1
      <3>3. k = "unit" => Len(jobs[k]) <= 1
        BY <1>3
      <3> QED
        BY <3>2, <3>3
    <2> QED
      BY <2>3, <2>4
  <1>16. Grown(jobs)
    BY <1>6 DEF jobs
  <1>17. GuestWay'
    <2>1. CASE Expelled
      <3>1. guest' = Left(tile)
        BY <1>2, <2>1
      <3>2. Known' => guest.inside /\ ~guest.entering
        BY <1>2, <2>1 DEF Known, Expelled
      <3>3. tile => \E k \in Key : \E n \in 1..Len(jobs[k]) : jobs[k][n] = LeaveJob
        <4>1. tile => In(LeaveJob, jobs["unit"])
          BY <1>3, <2>1 DEF Key
        <4> QED
          BY <4>1 DEF In, Key
      <3> QED
        BY <1>1, <1>4, <1>5, <1>6, <1>14, <1>15, <1>16, <3>1, <3>2, <3>3, LeaveSubmitted
    <2>2. CASE ~Expelled
      <3>1. guest' = guest
        BY <1>2, <2>2
      <3>2. \A k \in Key : \A n \in 1..Len(jobs[k]) : jobs[k][n] \notin {EnterJob, LeaveJob}
        BY <1>15, <2>2
      <3> QED
        BY <1>1, <1>4, <1>5, <1>14, <1>16, <3>1, <3>2, GuestUntouched
    <2> QED
      BY <2>1, <2>2
  <1> QED
    BY <1>8, <1>9, <1>13, <1>17 DEF Agreed
\* What the loop has when it takes the head of its inbox.
LEMMA Hears ==
    ASSUME Inv, Inv', Agreed, inbox # <<>>, inbox' = Tail(inbox), queue' = queue
    PROVE  LET h == <<"inbox", 1>>
           IN /\ Entry(h) = Head(inbox) /\ h \in Cells /\ Boxed(h) /\ Head(inbox).job \in Job /\ Head(inbox).ok \in BOOLEAN
              /\ \E src : Moved(src, h) /\ \A x \in Cells' : src[x] # h
  <1>1. QueueType /\ InboxType
    BY TypesOf
  <1>2. Head(inbox) \in Message
    BY <1>1, Received
  <1> QED
    BY <1>1, <1>2, MovedByHandle DEF Moved, Boxed, Message
\* What a message leaves as it was: the rows, and all of the loop it is not about.
LEMMA HeardOrderly ==
    ASSUME Inv, Inv', Agreed, NEW src, NEW h, h = <<"inbox", 1>>, Moved(src, h), \A x \in Cells' : src[x] # h,
           lost' = lost, failures' = failures,
           \A b \in Book : IF OrderOf(b, Entry(h).job) THEN b \notin busy' ELSE b \in busy' <=> b \in busy,
           failures = 0 /\ (Entry(h).job.order \/ Entry(h).job = EnterJob) => failed' = failed
    PROVE  Orderly'
  <1>1. QueueType /\ InboxType /\ QueueType' /\ InboxType'
    BY DEF Inv, TypeInv
  <1>2. Orderly /\ Unfailed /\ h \in Cells /\ Boxed(h)
    BY DEF Agreed, Orderly, Moved, Boxed
  <1>3. failures = 0 => failed' = {}
    BY <1>2 DEF Unfailed
  <1> QED
    BY <1>1, <1>2, <1>3, OrderlyMoved
LEMMA HandleAgreed == ASSUME Inv, Inv', Agreed, Handle PROVE Agreed'
  <1> DEFINE h == <<"inbox", 1>>
  <1>1. PICK m : m = Head(inbox)
    OBVIOUS
  <1>2. /\ inbox # <<>> /\ inbox' = Tail(inbox) /\ queue' = queue /\ row' = row /\ failures' = failures
        /\ ghost' = ghost /\ lost' = lost /\ crossed' = crossed
    BY DEF Handle
  <1>3. /\ Entry(h) = m /\ h \in Cells /\ Boxed(h) /\ m.job \in Job /\ m.ok \in BOOLEAN
        /\ \E src : Moved(src, h) /\ \A x \in Cells' : src[x] # h
    BY <1>1, <1>2, Hears
  <1>4. PICK src : Moved(src, h) /\ \A x \in Cells' : src[x] # h
    BY <1>3
  <1>5. TypeInv /\ LoopType /\ QueueType /\ InboxType /\ RowType(row) /\ QueueType' /\ InboxType'
    BY TypesOf DEF Inv, TypeInv
  <1>6. /\ Orderly /\ OneHeld /\ OneWritten /\ SameTreaties /\ SameOffers /\ GuestWay /\ Lone("treaty") /\ Lone("trade")
        /\ TreatyRows(row.treaties) /\ OfferRows(row.offers)
    BY <1>5, RowsAre DEF Agreed, Orderly
  <1>7. OneWritten'
    BY <1>2, <1>6 DEF OneWritten
  <1>8. Good' => Good
    BY <1>2 DEF Good
  <1>9. /\ h \in OrderCells("treaty") <=> OrderOf("treaty", m.job)
        /\ h \in OrderCells("trade") <=> OrderOf("trade", m.job)
        /\ h \in EnterCells <=> m.job = EnterJob
        /\ h \in LeaveCells <=> m.job = LeaveJob
    BY <1>3 DEF OrderCells, EnterCells, LeaveCells
  <1>10. Book = {"treaty", "trade"}
    BY DEF Book
  <1>11. (slipped => slipped') => (Known' => Known)
    BY <1>2 DEF Known
  <1>12. row'.treaties = row.treaties /\ row'.offers = row.offers /\ row'.inside = row.inside
    BY <1>2
  <1>h. h = <<"inbox", 1>>
    OBVIOUS
  <1> HIDE DEF h
  \* The loop stays the same, but for its reservations, the unit and what had failed.
  <1>13. ASSUME pacts' = pacts, "treaty" \in busy' <=> "treaty" \in busy, ~OrderOf("treaty", m.job), failed \subseteq failed',
                failed' \subseteq failed \cup {m.job}, ~EndOf("Treaty", m.job) \/ m.job \in failed'
         PROVE  SameTreaties'
    <2>1. Ends("Treaty")' = Ends("Treaty")
      BY <1>3, <1>4, <1>13, EndsMoved
    <2> QED
      BY <1>4, <1>6, <1>8, <1>9, <1>12, <1>13, <2>1, TreatiesKept
  <1>14. ASSUME offers' = offers, "trade" \in busy' <=> "trade" \in busy, ~OrderOf("trade", m.job), failed \subseteq failed',
                failed' \subseteq failed \cup {m.job}, ~EndOf("Offer", m.job) \/ m.job \in failed'
         PROVE  SameOffers'
    <2>1. Ends("Offer")' = Ends("Offer")
      BY <1>3, <1>4, <1>14, EndsMoved
    <2> QED
      BY <1>4, <1>6, <1>8, <1>9, <1>12, <1>14, <2>1, OffersUntouched
  <1>15. ASSUME guest' = guest, slipped => slipped', m.job \notin {EnterJob, LeaveJob} PROVE GuestWay'
    BY <1>3, <1>4, <1>5, <1>6, <1>11, <1>12, <1>15, GuestMoved
  <1>16. CASE m.job.k = "Treaty" /\ m.job.order /\ HandleTreatyResolved(m)
    <2>1. /\ busy' = busy \ {"treaty"} /\ offers' = offers /\ failed' = failed /\ guest' = guest /\ (slipped => slipped')
          /\ pacts' = IF m.ok THEN AfterTreaty(pacts, m.job) ELSE pacts
      BY <1>16 DEF HandleTreatyResolved, AfterTreaty
    <2>2. OrderOf("treaty", m.job) /\ ~OrderOf("trade", m.job) /\ ~EndOf("Offer", m.job) /\ m.job \notin {EnterJob, LeaveJob}
      BY <1>3, <1>16, Books DEF OrderOf, BookOf, EndOf
    <2>3. SameTreaties' /\ OrderCells("treaty")' = {}
      BY <1>3, <1>4, <1>5, <1>6, <1>8, <1>9, <1>12, <2>1, <2>2, TreatyOrderHeard
    <2>4. SameOffers' /\ GuestWay'
      BY <1>14, <1>15, <2>1, <2>2
    <2>5. OneOfEach(pacts')
      BY <1>3, <1>6, <1>9, <2>1, <2>2 DEF OneHeld
    <2>6. OneHeld'
      BY <1>4, <1>6, <2>1, <2>3, <2>5, OneHeldMoved
    <2>7. Orderly'
      BY <1>2, <1>3, <1>4, <1>10, <1>h, <2>1, <2>2, HeardOrderly
    <2> QED
      BY <1>7, <2>3, <2>4, <2>6, <2>7 DEF Agreed
  <1>17. CASE m.job.k \in {"Offer", "Accept"} /\ m.job.order /\ HandleTradeResolved(m)
    <2>1. /\ busy' = busy \ {"trade"} /\ pacts' = pacts /\ failed' = failed /\ guest' = guest /\ (slipped => slipped')
          /\ offers' = IF m.ok THEN AfterOffer(offers, m.job) ELSE offers
      BY <1>17 DEF HandleTradeResolved, AfterOffer
    <2>2. OrderOf("trade", m.job) /\ ~OrderOf("treaty", m.job) /\ ~EndOf("Treaty", m.job) /\ m.job \notin {EnterJob, LeaveJob}
      BY <1>3, <1>17, Books DEF OrderOf, BookOf, EndOf
    <2>3. SameOffers' /\ OrderCells("trade")' = {}
      BY <1>3, <1>4, <1>5, <1>6, <1>8, <1>9, <1>12, <2>1, <2>2, OfferOrderHeard
    <2>4. SameTreaties' /\ GuestWay'
      BY <1>13, <1>15, <2>1, <2>2
    <2>5. AtMostOne(offers')
      BY <1>3, <1>6, <1>9, <2>1, <2>2 DEF OneHeld
    <2>6. OneHeld'
      BY <1>4, <1>6, <2>1, <2>3, <2>5, OneHeldMoved
    <2>7. Orderly'
      BY <1>2, <1>3, <1>4, <1>10, <1>h, <2>1, <2>2, HeardOrderly
    <2> QED
      BY <1>7, <2>3, <2>4, <2>6, <2>7 DEF Agreed
  <1>18. CASE /\ m.job.k \in {"Treaty", "Offer"} /\ ~m.job.order /\ HandleEndPersistFailed(m)
              /\ UNCHANGED <<pacts, offers, busy, rejected, guest, slipped>>
    <2>1. failed' = failed \cup {m.job}
      BY <1>18 DEF HandleEndPersistFailed
    <2>2. ~OrderOf("treaty", m.job) /\ ~OrderOf("trade", m.job)
      BY <1>18 DEF OrderOf
    <2>3. m.job \notin {EnterJob, LeaveJob}
      BY <1>18, UnitKinds
    <2>4. SameTreaties' /\ SameOffers' /\ GuestWay'
      BY <1>13, <1>14, <1>15, <1>18, <2>1, <2>2, <2>3
    <2>5. OneHeld'
      BY <1>4, <1>6, <1>18, OneHeldMoved
    <2>6. Orderly'
      BY <1>2, <1>3, <1>4, <1>10, <1>h, <1>18, <2>2, <2>3, HeardOrderly
    <2> QED
      BY <1>7, <2>4, <2>5, <2>6 DEF Agreed
  <1>19. CASE m.job.k \in {"Enter", "Leave"}
    <2>0. m.job \in {EnterJob, LeaveJob}
      BY <1>3, <1>19, UnitKinds
    <2>1. /\ ~OrderOf("treaty", m.job) /\ ~OrderOf("trade", m.job) /\ ~EndOf("Treaty", m.job) /\ ~EndOf("Offer", m.job)
      BY <1>3, <2>0, Books DEF OrderOf
    <2>2. /\ pacts' = pacts /\ offers' = offers /\ busy' = busy /\ failed' = failed /\ (slipped => slipped')
          /\ m.job = EnterJob => guest' = [guest EXCEPT !.entering = FALSE, !.inside = @ \/ m.ok]
          /\ m.job = LeaveJob => guest' = [guest EXCEPT !.inside = TRUE]
      BY <1>1, <1>19, UnitKinds DEF Handle, HandleGarrisonEntryResolved, HandleGarrisonExitFailed
    <2>3. SameTreaties' /\ SameOffers'
      BY <1>13, <1>14, <2>1, <2>2
    <2>4. OneHeld'
      BY <1>4, <1>6, <2>2, OneHeldMoved
    <2>5. Orderly'
      BY <1>2, <1>3, <1>4, <1>10, <1>h, <2>1, <2>2, HeardOrderly
    <2>6. CASE m.job = EnterJob
      <3>1. GuestWay'
        <4>1. PICK ok \in BOOLEAN : ok = m.ok
          BY <1>3
        <4>2. Entry(h).ok = ok /\ guest' = [guest EXCEPT !.entering = FALSE, !.inside = @ \/ ok]
          BY <1>3, <2>2, <2>6, <4>1
        <4>3. h \in EnterCells /\ (Known' => Known)
          BY <1>9, <1>11, <2>2, <2>6
        <4> QED
          BY <1>4, <1>5, <1>6, <1>12, <1>h, <4>2, <4>3, EnterHeard
      <3> QED
        BY <1>7, <2>3, <2>4, <2>5, <3>1 DEF Agreed
    <2>7. CASE m.job = LeaveJob
      <3>1. GuestWay'
        BY <1>3, <1>4, <1>5, <1>6, <1>9, <1>11, <1>12, <1>h, <2>2, <2>7, LeaveHeard
      <3> QED
        BY <1>7, <2>3, <2>4, <2>5, <3>1 DEF Agreed
    <2> QED
      BY <2>0, <2>6, <2>7
  <1> QED
    BY <1>1, <1>16, <1>17, <1>18, <1>19 DEF Handle
\* A transaction runs: its answer is on its way, or was lost and it will run again.
LEMMA RunRows ==
    ASSUME Inv, Inv', Agreed, NEW k \in Key, NEW src, NEW h, h = <<k, 1>>, Moved(src, h), NEW afford \in BOOLEAN,
           row' = Run(Entry(h).job, afford).row, UNCHANGED <<pacts, offers, busy, failed, ghost>>,
           lost => lost', failures' = 0 => failures = 0,
           \A x \in Cells' : src[x] = h =>
             IF Boxed(x) THEN Entry(x)'.ok = Run(Entry(h).job, afford).ok ELSE afford /\ Entry(x)'.done /\ ~Entry(h).done
    PROVE  SameTreaties' /\ SameOffers' /\ OneWritten'
  <1>1. PICK j : j = Entry(h).job
    OBVIOUS
  <1>2. TypeInv /\ LoopType /\ QueueType /\ InboxType /\ RowType(row) /\ QueueType' /\ InboxType'
    BY TypesOf DEF Inv, TypeInv
  <1>3. /\ OneWritten /\ DoneFirst /\ SameTreaties /\ SameOffers /\ Lone("treaty") /\ Lone("trade")
        /\ TreatyRows(row.treaties) /\ OfferRows(row.offers)
    BY <1>2, RowsAre DEF Agreed, Orderly
  <1>4. h \in Cells /\ ~Boxed(h)
    BY DEF Moved, Boxed, Key
  <1>5. j \in Job /\ j.key = k
    <2>1. h[1] = k
      OBVIOUS
    <2> QED
      BY <1>1, <1>2, <1>4, <2>1, CellJobs
  <1>6. Good' => Good
    BY DEF Good
  <1>7. /\ j \in TreatyJobs => /\ row'.treaties = TreatiesAfter(row.treaties, j)
                               /\ Run(j, afford).ok = TreatyTaken(row.treaties, j)
        /\ j \notin TreatyJobs => row'.treaties = row.treaties
        /\ j \in OfferJobs \cup AcceptJobs => /\ row'.offers = OffersAfter(row.offers, j, j.k = "Offer" \/ afford)
                                              /\ Run(j, afford).ok = OfferTaken(row.offers, j, j.k = "Offer" \/ afford)
        /\ j \notin OfferJobs \cup AcceptJobs => row'.offers = row.offers
        /\ OneWritten'
    BY <1>1, <1>2, <1>3, <1>5, Transaction
  <1>8. /\ h \in OrderCells("treaty") <=> OrderOf("treaty", j)
        /\ h \in OrderCells("trade") <=> OrderOf("trade", j)
    BY <1>1, <1>4 DEF OrderCells
  <1>9. SameTreaties'
    <2>1. CASE OrderOf("treaty", j)
      <3>1. j \in TreatyJobs /\ h \in OrderCells("treaty")
        BY <1>5, <1>8, <2>1, Books
      <3> QED
        BY <1>1, <1>2, <1>3, <1>4, <1>6, <1>7, <3>1, TreatyOrderWritten
    <2>2. CASE EndOf("Treaty", j)
      <3>1. j \in TreatyJobs /\ h = <<"treaty", 1>>
        BY <1>5, <2>2, Books
      <3> QED
        BY <1>1, <1>2, <1>3, <1>6, <1>7, <2>2, <3>1, TreatyEndWritten
    <2>3. CASE ~OrderOf("treaty", j) /\ ~EndOf("Treaty", j)
      <3>1. j \notin TreatyJobs
        <4>1. j \in TreatyJobs => j.k = "Treaty" /\ (j.order = TRUE \/ ~j.order)
          BY DEF TreatyJobs
        <4> QED
          BY <1>5, <2>3, <4>1, Books DEF EndOf
      <3>2. Ends("Treaty")' = Ends("Treaty")
        BY <1>1, <2>3, EndsMoved
      <3> QED
        BY <1>3, <1>6, <1>7, <1>8, <2>3, <3>1, <3>2, TreatiesKept
    <2> QED
      BY <2>1, <2>2, <2>3
  <1>10. SameOffers'
    <2>1. CASE OrderOf("trade", j)
      <3>1. j \in OfferJobs \cup AcceptJobs /\ h \in OrderCells("trade")
        BY <1>5, <1>8, <2>1, Books
      <3>2. PICK a \in BOOLEAN : a = (j.k = "Offer" \/ afford)
        OBVIOUS
      <3>3. /\ row'.offers = OffersAfter(row.offers, j, a) /\ Run(j, afford).ok = OfferTaken(row.offers, j, a)
            /\ j.k = "Offer" => a
        BY <1>7, <3>1, <3>2
      <3>4. \A x \in Cells' : src[x] = h =>
             IF Boxed(x) THEN Entry(x)'.ok = OfferTaken(row.offers, j, a) ELSE a /\ Entry(x)'.done /\ ~Entry(h).done
        BY <1>1, <3>2, <3>3
      <3> QED
        BY <1>1, <1>2, <1>3, <1>4, <1>6, <3>1, <3>3, <3>4, OfferOrderWritten
    <2>2. CASE EndOf("Offer", j)
      <3>1. j \in OfferJobs /\ h = <<"trade", 1>> /\ j.k = "Offer"
        BY <1>5, <2>2, Books DEF EndOf
      <3>2. row'.offers = OffersAfter(row.offers, j, TRUE)
        <4>1. (j.k = "Offer" \/ afford) = TRUE
          BY <3>1
        <4> QED
          BY <1>7, <3>1, <4>1
      <3> QED
        BY <1>1, <1>2, <1>3, <1>6, <2>2, <3>1, <3>2, OfferEndWritten
    <2>3. CASE ~OrderOf("trade", j) /\ ~EndOf("Offer", j)
      <3>1. j \notin OfferJobs \cup AcceptJobs
        <4>1. /\ j \in OfferJobs => j.k = "Offer" /\ (j.order = TRUE \/ ~j.order)
              /\ j \in AcceptJobs => j.order = TRUE
          BY DEF OfferJobs, AcceptJobs
        <4> QED
          BY <1>5, <2>3, <4>1, Books DEF EndOf
      <3>2. Ends("Offer")' = Ends("Offer")
        BY <1>1, <2>3, EndsMoved
      <3> QED
        BY <1>3, <1>6, <1>7, <1>8, <2>3, <3>1, <3>2, OffersUntouched
    <2> QED
      BY <2>1, <2>2, <2>3
  <1> QED
    BY <1>7, <1>9, <1>10
\* A job is given up: an order and a closing are told of, when the inbox has room.
LEMMA DroppedRows ==
    ASSUME Inv, Inv', Agreed, NEW k \in Key, NEW src, NEW h, h = <<k, 1>>, Moved(src, h),
           row' = row, UNCHANGED <<pacts, offers, busy, failed>>,
           lost => lost', ghost => ghost', failures' # 0, lost' \/ (\E x \in Cells' : src[x] = h),
           Entry(h).done /\ Entry(h).job.order => ghost',
           \A x \in Cells' : src[x] = h => Boxed(x) /\ Entry(x)'.ok = FALSE
    PROVE  SameTreaties' /\ SameOffers' /\ OneWritten'
  <1>1. PICK j : j = Entry(h).job
    OBVIOUS
  <1>2. TypeInv /\ LoopType /\ QueueType /\ InboxType /\ RowType(row) /\ QueueType' /\ InboxType'
    BY TypesOf DEF Inv, TypeInv
  <1>3. /\ OneWritten /\ SameTreaties /\ SameOffers /\ Lone("treaty") /\ Lone("trade")
        /\ TreatyRows(row.treaties) /\ OfferRows(row.offers)
    BY <1>2, RowsAre DEF Agreed, Orderly
  <1>4. h \in Cells /\ ~Boxed(h)
    BY DEF Moved, Boxed, Key
  <1>6. Good' => Good /\ (\E x \in Cells' : src[x] = h) /\ (j.order => ~Entry(h).done)
    BY <1>1 DEF Good
  <1>7. row'.treaties = row.treaties /\ row'.offers = row.offers
    OBVIOUS
  <1>8. /\ h \in OrderCells("treaty") <=> OrderOf("treaty", j)
        /\ h \in OrderCells("trade") <=> OrderOf("trade", j)
    BY <1>1, <1>4 DEF OrderCells
  <1>9. SameTreaties'
    <2>1. CASE OrderOf("treaty", j)
      <3>1. h \in OrderCells("treaty") /\ (Good' => Good /\ ~Entry(h).done)
        BY <1>6, <1>8, <2>1 DEF OrderOf
      <3> QED
        BY <1>2, <1>3, <1>4, <1>7, <3>1, TreatyOrderDropped
    <2>2. CASE ~OrderOf("treaty", j)
      <3>1. Good' => Ends("Treaty")' = Ends("Treaty")
        BY <1>6, EndsMoved
      <3> QED
        BY <1>3, <1>6, <1>7, <1>8, <2>2, <3>1, TreatiesKept
    <2> QED
      BY <2>1, <2>2
  <1>10. SameOffers'
    <2>1. CASE OrderOf("trade", j)
      <3>1. h \in OrderCells("trade") /\ (Good' => Good /\ ~Entry(h).done)
        BY <1>6, <1>8, <2>1 DEF OrderOf
      <3> QED
        BY <1>2, <1>3, <1>4, <1>7, <3>1, OfferOrderDropped
    <2>2. CASE ~OrderOf("trade", j)
      <3>1. Good' => Ends("Offer")' = Ends("Offer")
        BY <1>6, EndsMoved
      <3> QED
        BY <1>3, <1>6, <1>7, <1>8, <2>2, <3>1, OffersUntouched
    <2> QED
      BY <2>1, <2>2
  <1> QED
    BY <1>3, <1>9, <1>10 DEF OneWritten
\* What a worker has at the head of its queue.
LEMMA Works ==
    ASSUME Inv, Agreed, NEW k \in Key, queue[k] # <<>>
    PROVE  LET h == <<k, 1>>
           IN /\ h \in Cells /\ ~Boxed(h) /\ Entry(h) = Head(queue[k]) /\ Entry(h).job \in Job /\ Entry(h).job.key = k
              /\ h \in EnterCells <=> Entry(h).job = EnterJob
              /\ h \in LeaveCells <=> Entry(h).job = LeaveJob
  <1> DEFINE h == <<k, 1>>
  <1>1. QueueType /\ InboxType
    BY TypesOf
  <1>2. queue[k] \in Seq(Item)
    BY <1>1 DEF QueueType
  <1>3. Len(queue[k]) \in Nat /\ Len(queue[k]) # 0 /\ Head(queue[k]) = queue[k][1]
    BY <1>2
  <1>4. CellsNow
    BY <1>1, CellsTyped
  <1>5. h \in Cells /\ Entry(h) = queue[k][1]
    BY <1>3, <1>4 DEF CellsNow, CellFacts, Cells, Entry
  <1>6. ~Boxed(h) /\ h[1] = k
    BY DEF Boxed, Key
  <1> HIDE DEF h
  <1>7. Entry(h).job \in Job /\ Entry(h).job.key = k
    BY <1>1, <1>5, <1>6, CellJobs
  <1>8. /\ h \in EnterCells <=> Entry(h).job = EnterJob
        /\ h \in LeaveCells <=> Entry(h).job = LeaveJob
    BY <1>5 DEF EnterCells, LeaveCells
  <1> QED
    BY <1>3, <1>5, <1>6, <1>7, <1>8 DEF h
\* A job has gone from its queue: its answer was sent, or it has none.
LEMMA WorkedOrderly ==
    ASSUME Inv, Inv', Agreed, NEW k \in Key, NEW src, NEW h, h = <<k, 1>>, Moved(src, h),
           UNCHANGED <<pacts, offers, busy, failed>>, lost => lost', failures' = 0 => failures = 0,
           Entry(h).job.order => lost' \/ \E x \in Cells' : src[x] = h,
           \A x \in Cells' : src[x] = h => IF Boxed(x) THEN failures' # 0 \/ Entry(h).job.order \/ Entry(h).job = EnterJob
                                           ELSE x[2] = 1 /\ failures' # 0
    PROVE  Orderly' /\ OneHeld'
  <1>1. QueueType /\ InboxType /\ QueueType' /\ InboxType'
    BY DEF Inv, TypeInv
  <1>2. Orderly /\ Unfailed /\ OneHeld
    BY DEF Agreed, Orderly
  <1>3. failures' = 0 => failures = 0 /\ failed' = {}
    BY <1>2 DEF Unfailed
  <1>4. Orderly'
    BY <1>1, <1>2, <1>3, OrderlyMoved DEF OrderOf
  <1>5. OneHeld'
    BY <1>2, OneHeldMoved
  <1> QED
    BY <1>4, <1>5
LEMMA SendOutcome ==
    ASSUME InboxType, NEW m, Send(m)
    PROVE  /\ (inbox' = inbox /\ lost') \/ inbox' = Append(inbox, m)
           /\ lost => lost'
  <1>1. Len(inbox) \in Nat /\ InboxSize \in Nat
    BY ConstantsAssumption DEF InboxType
  <1>2. CASE Len(inbox) < InboxSize
    BY <1>2 DEF Send
  <1>3. CASE ~(Len(inbox) < InboxSize)
    <2>1. Len(inbox) >= InboxSize
      BY <1>1, <1>3
    <2> QED
      BY <1>3, <2>1 DEF Send
  <1> QED
    BY <1>2, <1>3
LEMMA CommitAgreed == ASSUME Inv, Inv', Agreed, NEW k \in Key, NEW afford \in BOOLEAN, Commit(k, afford) PROVE Agreed'
  <1> DEFINE h == <<k, 1>>
  <1>1. PICK j : j = Head(queue[k]).job
    OBVIOUS
  <1>2. /\ queue[k] # <<>> /\ row' = Run(j, afford).row /\ queue' = [queue EXCEPT ![k] = Tail(@)]
        /\ IF Answers(j) THEN Send(Answer(j, Run(j, afford).ok)) ELSE UNCHANGED <<inbox, lost>>
        /\ UNCHANGED <<pacts, offers, busy, failed, guest, failures, ghost, slipped, crossed>>
    BY <1>1 DEF Commit, loop
  <1>3. /\ h \in Cells /\ ~Boxed(h) /\ Entry(h) = Head(queue[k]) /\ j \in Job /\ j.key = k /\ Entry(h).job = j
        /\ h \in EnterCells <=> j = EnterJob
        /\ h \in LeaveCells <=> j = LeaveJob
    BY <1>1, <1>2, Works
  <1>4. TypeInv /\ LoopType /\ QueueType /\ InboxType /\ RowType(row) /\ QueueType' /\ InboxType' /\ OneWritten /\ GuestWay
    BY TypesOf DEF Inv, TypeInv, Agreed
  <1>5. PICK ok \in BOOLEAN : ok = Run(j, afford).ok
    BY <1>3, <1>4, RunType
  <1>6. PICK m : m = Answer(j, ok)
    OBVIOUS
  <1>7. m.job = j /\ m.ok = ok
    BY <1>6 DEF Answer
  <1>8. /\ inbox' = inbox \/ (inbox' = Append(inbox, m) /\ Answers(j))
        /\ (lost => lost')
        /\ Answers(j) => lost' \/ inbox' = Append(inbox, m)
        /\ ~Answers(j) => inbox' = inbox
    <2>1. Answers(j) => Send(m)
      BY <1>2, <1>5, <1>6
    <2>3. ~Answers(j) => inbox' = inbox /\ lost' = lost
      BY <1>2
    <2> QED
      BY <1>4, <2>1, <2>3, SendOutcome
  <1>9. PICK src : Moved(src, h) /\ Answered(src, k, m)
    <2>1. inbox' = inbox \/ inbox' = Append(inbox, Answer(Head(queue[k]).job, ok))
      BY <1>1, <1>6, <1>8
    <2>2. \E src : Moved(src, <<k, 1>>) /\ Answered(src, k, Answer(Head(queue[k]).job, ok))
      BY <1>2, <1>4, <2>1, MovedByFinish
    <2> QED
      BY <1>1, <1>6, <2>2
  <1>10. \A x \in Cells' : src[x] = h =>
           /\ Boxed(x) /\ Entry(x)'.ok = ok /\ Answers(j)
           /\ \A y \in Cells' : Boxed(y) /\ src[y] # h => y[2] < x[2]
    BY <1>7, <1>8, <1>9 DEF Answered
  <1>11. Answers(j) => lost' \/ \E x \in Cells' : src[x] = h
    BY <1>8, <1>9 DEF Answered
  <1>h. h = <<k, 1>> /\ h[2] = 1
    OBVIOUS
  <1> HIDE DEF h
  <1>12. SameTreaties' /\ SameOffers' /\ OneWritten'
    <2>1. /\ row' = Run(Entry(h).job, afford).row /\ UNCHANGED <<pacts, offers, busy, failed, ghost>>
          /\ (lost => lost') /\ (failures' = 0 => failures = 0)
      BY <1>2, <1>3, <1>8
    <2>2. \A x \in Cells' : src[x] = h =>
             IF Boxed(x) THEN Entry(x)'.ok = Run(Entry(h).job, afford).ok ELSE afford /\ Entry(x)'.done /\ ~Entry(h).done
      BY <1>3, <1>5, <1>10
    <2> QED
      BY <1>9, <1>h, <2>1, <2>2, RunRows
  <1>13. Orderly' /\ OneHeld'
    <2>1. Answers(j) <=> j.order \/ j = EnterJob
      BY <1>3, UnitKinds DEF Answers
    <2>2. /\ UNCHANGED <<pacts, offers, busy, failed>> /\ (lost => lost') /\ (failures' = 0 => failures = 0)
          /\ Entry(h).job.order => lost' \/ \E x \in Cells' : src[x] = h
      BY <1>2, <1>3, <1>8, <1>11, <2>1
    <2>3. \A x \in Cells' : src[x] = h => IF Boxed(x) THEN failures' # 0 \/ Entry(h).job.order \/ Entry(h).job = EnterJob
                                           ELSE x[2] = 1 /\ failures' # 0
      BY <1>3, <1>10, <2>1
    <2> QED
      BY <1>9, <1>h, <2>2, <2>3, WorkedOrderly
  <1>14. Known' => Known
    BY <1>2, <1>8 DEF Known
  <1>15. /\ j = EnterJob => /\ row'.inside <=> row.inside \/ Allied(row.treaties)
                            /\ ok <=> row'.inside
         /\ j = LeaveJob => ~row'.inside
         /\ j \notin {EnterJob, LeaveJob} => row'.inside = row.inside
         /\ row'.inside \in BOOLEAN
    <2>1. RowType(row')
      BY <1>2, <1>3, <1>4, RunType
    <2> QED
      BY <1>2, <1>3, <1>4, <1>5, <2>1, Transaction DEF RowType
  <1>16. GuestWay'
    <2>1. CASE j = EnterJob
      <3>1. h \in EnterCells /\ Answers(j)
        BY <1>3, <2>1, UnitKinds DEF Answers
      <3>2. Known' => Known /\ \E x \in Cells' : src[x] = h
        BY <1>11, <1>14, <3>1 DEF Known
      <3>3. row'.inside = ok /\ (row.inside => row'.inside)
        BY <1>15, <2>1
      <3> QED
        BY <1>2, <1>3, <1>4, <1>9, <1>10, <1>15, <1>h, <3>1, <3>2, <3>3, EnterRun
    <2>2. CASE j = LeaveJob
      <3>1. h \in LeaveCells /\ ~Answers(j)
        BY <1>3, <2>2, UnitKinds, UnitJobsTyped, Books DEF Answers
      <3>2. row'.inside = FALSE /\ \A x \in Cells' : src[x] # h
        BY <1>10, <1>15, <2>2, <3>1
      <3> QED
        BY <1>2, <1>3, <1>4, <1>9, <1>14, <1>h, <3>1, <3>2, LeaveRun
    <2>3. CASE j \notin {EnterJob, LeaveJob}
      BY <1>2, <1>3, <1>4, <1>9, <1>14, <1>15, <2>3, GuestMoved
    <2> QED
      BY <2>1, <2>2, <2>3
  <1> QED
    BY <1>12, <1>13, <1>16 DEF Agreed
LEMMA UnackedAgreed == ASSUME Inv, Inv', Agreed, failures \in Nat, NEW k \in Key, CommitUnacked(k) PROVE Agreed'
  <1> DEFINE h == <<k, 1>>
  <1>1. PICK j : j = Head(queue[k]).job
    OBVIOUS
  <1>2. /\ queue[k] # <<>> /\ ~Head(queue[k]).done /\ row' = Run(j, TRUE).row /\ queue' = [queue EXCEPT ![k][1].done = TRUE]
        /\ failures' = failures + 1 /\ inbox' = inbox
        /\ UNCHANGED <<pacts, offers, busy, failed, guest, ghost, lost, slipped, crossed>>
    BY <1>1 DEF CommitUnacked, loop
  <1>3. /\ h \in Cells /\ ~Boxed(h) /\ Entry(h) = Head(queue[k]) /\ j \in Job /\ j.key = k /\ Entry(h).job = j
        /\ h \in EnterCells <=> j = EnterJob
        /\ h \in LeaveCells <=> j = LeaveJob
    BY <1>1, <1>2, Works
  <1>4. TypeInv /\ LoopType /\ QueueType /\ InboxType /\ RowType(row) /\ QueueType' /\ InboxType' /\ OneWritten /\ GuestWay
    BY TypesOf DEF Inv, TypeInv, Agreed
  <1>5. failures' # 0
    BY <1>2
  <1>9. PICK src : /\ Moved(src, h)
                   /\ \A x \in Cells' : src[x] = x /\ x \in Cells
                   /\ h \in Cells' /\ Entry(h)'.done
    <2>1. \E src : /\ Moved(src, <<k, 1>>)
                   /\ \A x \in Cells' : src[x] = x /\ x \in Cells
                   /\ <<k, 1>> \in Cells' /\ Entry(<<k, 1>>)'.done
      BY <1>2, <1>4, MovedByMark
    <2> QED
      BY <2>1
  <1>h. h = <<k, 1>> /\ h[2] = 1
    OBVIOUS
  <1> HIDE DEF h
  <1>10. \A x \in Cells' : src[x] = h => x = h /\ ~Boxed(x) /\ Entry(x)'.done
    BY <1>3, <1>9
  <1>12. SameTreaties' /\ SameOffers' /\ OneWritten'
    <2>0. PICK afford \in BOOLEAN : afford = TRUE
      OBVIOUS
    <2>1. /\ row' = Run(Entry(h).job, afford).row /\ UNCHANGED <<pacts, offers, busy, failed, ghost>>
          /\ (lost => lost') /\ (failures' = 0 => failures = 0)
      BY <1>2, <1>3, <1>5, <2>0
    <2>2. \A x \in Cells' : src[x] = h =>
             IF Boxed(x) THEN Entry(x)'.ok = Run(Entry(h).job, afford).ok ELSE afford /\ Entry(x)'.done /\ ~Entry(h).done
      BY <1>2, <1>3, <1>10, <2>0
    <2> QED
      BY <1>9, <1>h, <2>1, <2>2, RunRows
  <1>13. Orderly' /\ OneHeld'
    <2>1. src[h] = h /\ h \in Cells'
      BY <1>9
    <2>2. /\ UNCHANGED <<pacts, offers, busy, failed>> /\ (lost => lost') /\ (failures' = 0 => failures = 0)
          /\ Entry(h).job.order => lost' \/ \E x \in Cells' : src[x] = h
      BY <1>2, <1>5, <2>1
    <2>3. \A x \in Cells' : src[x] = h => IF Boxed(x) THEN failures' # 0 \/ Entry(h).job.order \/ Entry(h).job = EnterJob
                                           ELSE x[2] = 1 /\ failures' # 0
      BY <1>5, <1>10, <1>h
    <2> QED
      BY <1>9, <1>h, <2>2, <2>3, WorkedOrderly
  <1>14. Known' => Known
    BY <1>2 DEF Known
  <1>15. /\ j = EnterJob => (row.inside => row'.inside)
         /\ j = LeaveJob => ~row'.inside
         /\ j \notin {EnterJob, LeaveJob} => row'.inside = row.inside
         /\ row'.inside \in BOOLEAN
    <2>1. RowType(row')
      BY <1>2, <1>3, <1>4, RunType
    <2> QED
      BY <1>2, <1>3, <1>4, <2>1, Transaction DEF RowType
  <1>16. GuestWay'
    <2>1. CASE j = EnterJob
      <3>1. h \in EnterCells /\ guest' = guest /\ ~Boxed(h) /\ (row.inside => row'.inside)
        BY <1>2, <1>3, <1>15, <2>1
      <3>2. Known' => Known /\ \E x \in Cells' : src[x] = h
        BY <1>9, <1>14
      <3>3. Known' => \A x \in Cells' : src[x] = h =>
             IF Boxed(x) THEN /\ \/ Entry(x)'.ok = row'.inside
                                 \/ Entry(x)'.ok = FALSE /\ row'.inside = row.inside /\ ~Entry(h).done
                              /\ \A y \in Cells' : Boxed(y) /\ src[y] # h => y[2] < x[2]
             ELSE Entry(x)'.done
        BY <1>10
      <3> QED
        BY <1>4, <1>9, <1>15, <1>h, <3>1, <3>2, <3>3, EnterRun
    <2>2. CASE j = LeaveJob
      <3>1. h \in LeaveCells /\ guest' = guest /\ ~Boxed(h)
        BY <1>2, <1>3, <2>2
      <3>2. row'.inside = FALSE /\ \A x \in Cells' : src[x] = x /\ (x = h => Entry(x)'.done)
        BY <1>9, <1>15, <2>2
      <3> QED
        BY <1>4, <1>9, <1>14, <1>h, <3>1, <3>2, LeaveRun
    <2>3. CASE j \notin {EnterJob, LeaveJob}
      BY <1>2, <1>3, <1>4, <1>9, <1>14, <1>15, <2>3, GuestMoved
    <2> QED
      BY <2>1, <2>2, <2>3
  <1> QED
    BY <1>12, <1>13, <1>16 DEF Agreed
\* A job is given up, written or not: its author is told, when the inbox has room.
LEMMA GiveUpAgreed == ASSUME Inv, Inv', Agreed, failures \in Nat, NEW k \in Key, GiveUp(k) PROVE Agreed'
  <1> DEFINE h == <<k, 1>>
  <1>1. PICK j : j = Head(queue[k]).job
    OBVIOUS
  <1>2. /\ queue[k] # <<>> /\ queue' = [queue EXCEPT ![k] = Tail(@)]
        /\ failures' = failures + 1 /\ Send(Answer(j, FALSE))
        /\ ghost' = (ghost \/ (Head(queue[k]).done /\ (j.order \/ k = "unit")))
        /\ UNCHANGED <<row, pacts, offers, busy, failed, guest, slipped, crossed>>
    BY <1>1 DEF GiveUp, loop
  <1>3. /\ h \in Cells /\ ~Boxed(h) /\ Entry(h) = Head(queue[k]) /\ j \in Job /\ j.key = k /\ Entry(h).job = j
        /\ h \in EnterCells <=> j = EnterJob
        /\ h \in LeaveCells <=> j = LeaveJob
    BY <1>1, <1>2, Works
  <1>4. TypeInv /\ LoopType /\ QueueType /\ InboxType /\ RowType(row) /\ QueueType' /\ InboxType' /\ OneWritten /\ GuestWay
    BY TypesOf DEF Inv, TypeInv, Agreed
  <1>5. failures' # 0
    BY <1>2
  <1>6. PICK m : m = Answer(j, FALSE)
    OBVIOUS
  <1>7. m.job = j /\ m.ok = FALSE
    BY <1>6 DEF Answer
  <1>8. /\ inbox' = inbox \/ inbox' = Append(inbox, m)
        /\ (lost => lost')
        /\ lost' \/ inbox' = Append(inbox, m)
    <2>1. Send(m)
      BY <1>2, <1>6
    <2> QED
      BY <1>4, <2>1, SendOutcome
  <1>9. PICK src : Moved(src, h) /\ Answered(src, k, m)
    <2>1. inbox' = inbox \/ inbox' = Append(inbox, Answer(Head(queue[k]).job, FALSE))
      BY <1>1, <1>6, <1>8
    <2>2. PICK ok \in BOOLEAN : ok = FALSE
      OBVIOUS
    <2>3. \E src : Moved(src, <<k, 1>>) /\ Answered(src, k, Answer(Head(queue[k]).job, ok))
      BY <1>2, <1>4, <2>1, <2>2, MovedByFinish
    <2> QED
      BY <1>1, <1>6, <2>2, <2>3
  <1>10. \A x \in Cells' : src[x] = h =>
           /\ Boxed(x) /\ Entry(x)'.ok = FALSE
           /\ \A y \in Cells' : Boxed(y) /\ src[y] # h => y[2] < x[2]
    BY <1>7, <1>9 DEF Answered
  <1>11. lost' \/ \E x \in Cells' : src[x] = h
    BY <1>8, <1>9 DEF Answered
  <1>h. h = <<k, 1>> /\ h[2] = 1
    OBVIOUS
  <1> HIDE DEF h
  <1>12. SameTreaties' /\ SameOffers' /\ OneWritten'
    <2>1. row' = row /\ UNCHANGED <<pacts, offers, busy, failed>>
      BY <1>2
    <2>3. lost => lost'
      BY <1>8
    <2>4. ghost => ghost'
      BY <1>2
    <2>5. Entry(h).done /\ Entry(h).job.order => ghost'
      BY <1>2, <1>3
    <2>2. \A x \in Cells' : src[x] = h => Boxed(x) /\ Entry(x)'.ok = FALSE
      BY <1>10
    <2>6. Inv /\ Inv' /\ Agreed
      OBVIOUS
    <2>7. Moved(src, h) /\ h = <<k, 1>>
      BY <1>9, <1>h
    <2> QED
      BY ONLY <1>5, <1>11, <2>1, <2>2, <2>3, <2>4, <2>5, <2>6, <2>7, DroppedRows, k \in Key, ZenonT(60)
  <1>13. Orderly' /\ OneHeld'
    <2>1. /\ UNCHANGED <<pacts, offers, busy, failed>> /\ (lost => lost') /\ (failures' = 0 => failures = 0)
          /\ Entry(h).job.order => lost' \/ \E x \in Cells' : src[x] = h
      BY <1>2, <1>5, <1>8, <1>11
    <2>2. \A x \in Cells' : src[x] = h => IF Boxed(x) THEN failures' # 0 \/ Entry(h).job.order \/ Entry(h).job = EnterJob
                                           ELSE x[2] = 1 /\ failures' # 0
      BY <1>5, <1>10
    <2> QED
      BY <1>9, <1>h, <2>1, <2>2, WorkedOrderly
  <1>14. Known' => Known /\ \E x \in Cells' : src[x] = h
    BY <1>2, <1>8, <1>11 DEF Known
  <1>15. row.inside \in BOOLEAN /\ row' = row /\ guest' = guest
    BY <1>2, <1>4 DEF RowType
  <1>16. j \in {EnterJob, LeaveJob} /\ Known' => ~Entry(h).done
    <2>1. EnterJob.key = "unit" /\ LeaveJob.key = "unit"
      BY DEF EnterJob, LeaveJob, UnitJob
    <2>2. j \in {EnterJob, LeaveJob} => k = "unit"
      BY <1>3, <2>1
    <2> QED
      BY <1>2, <1>3, <2>2 DEF Known
  <1>17. GuestWay'
    <2>1. CASE j = EnterJob
      <3>1. h \in EnterCells /\ ~Boxed(h) /\ row'.inside \in BOOLEAN /\ (row.inside => row'.inside)
        BY <1>3, <1>15, <2>1
      <3>2. Known' => \A x \in Cells' : src[x] = h =>
             IF Boxed(x) THEN /\ \/ Entry(x)'.ok = row'.inside
                                 \/ Entry(x)'.ok = FALSE /\ row'.inside = row.inside /\ ~Entry(h).done
                              /\ \A y \in Cells' : Boxed(y) /\ src[y] # h => y[2] < x[2]
             ELSE Entry(x)'.done
        BY <1>10, <1>15, <1>16, <2>1
      <3> QED
        BY <1>4, <1>9, <1>14, <1>15, <1>h, <3>1, <3>2, EnterRun
    <2>2. CASE j = LeaveJob
      <3>1. h \in LeaveCells /\ ~Boxed(h)
        BY <1>3, <2>2
      <3>2. Known' => /\ row'.inside = row.inside /\ ~Entry(h).done /\ \E x \in Cells' : src[x] = h
                      /\ \A x \in Cells' : src[x] = h => Boxed(x)
        BY <1>10, <1>14, <1>15, <1>16, <2>2
      <3> QED
        BY <1>4, <1>9, <1>14, <1>15, <1>h, <3>1, <3>2, LeaveRun
    <2>3. CASE j \notin {EnterJob, LeaveJob}
      BY <1>3, <1>4, <1>9, <1>14, <1>15, <2>3, GuestMoved
    <2> QED
      BY <2>1, <2>2, <2>3
  <1> QED
    BY <1>12, <1>13, <1>17 DEF Agreed
\* A restart reads the rows, and has nothing on its way.
LEMMA RestartAgreed == ASSUME Inv, Inv', Agreed, Restart PROVE Agreed'
  <1>1. /\ pacts' = Open(row) /\ offers' = Pending(row) /\ busy' = {} /\ failed' = {} /\ row' = row
        /\ guest' = [entering |-> FALSE, inside |-> row.inside, leaving |-> FALSE]
        /\ queue' = [k \in Key |-> <<>>] /\ inbox' = <<>>
    BY DEF Restart
  <1>2. OneWritten
    BY DEF Agreed
  <1>3. Cells' = {}
    <2>1. ASSUME NEW c \in Key \cup {"inbox"} PROVE ChannelIn(queue', inbox', c) = <<>>
      BY <1>1, <2>1 DEF ChannelIn
    <2> QED
      BY <2>1 DEF Cells, CellsIn
  <1>4. OrderCells("treaty")' = {} /\ OrderCells("trade")' = {} /\ EnterCells' = {} /\ LeaveCells' = {}
    BY <1>3 DEF OrderCells, EnterCells, LeaveCells
  <1>5. Ends("Treaty")' = {} /\ Ends("Offer")' = {}
    BY <1>1, <1>3 DEF Ends
  <1>6. Orderly'
    BY <1>1, <1>3, <1>4 DEF Orderly, Lone, Reserved, DoneFirst, Unfailed
  <1>7. OneHeld'
    <2>1. OneOfEach(Open(row)) /\ AtMostOne(Pending(row))
      BY <1>2 DEF OneWritten, OneOfEach, AtMostOne, Open, Pending
    <2> QED
      BY <1>1, <1>4, <2>1 DEF OneHeld
  <1>8. OneWritten'
    BY <1>1, <1>2 DEF OneWritten, OneOfEach, AtMostOne
  <1>9. SameTreaties'
    BY <1>1, <1>4, <1>5 DEF SameTreaties, LiveTreaties, Open
  <1>10. SameOffers'
    BY <1>1, <1>4, <1>5 DEF SameOffers, LiveOffers, Pending
  <1>11. GuestWay'
    BY <1>1, <1>4 DEF GuestWay, AtMostOne
  <1> QED
    BY <1>6, <1>7, <1>8, <1>9, <1>10, <1>11 DEF Agreed
LEMMA BeginsAgreed == Init => Agreed
  <1> SUFFICES ASSUME Init PROVE Agreed
    OBVIOUS
  <1>1. /\ row.offers = {} /\ ~row.inside /\ \A t, u \in row.treaties : t = u /\ t.st = "ACTIVE"
        /\ pacts = row.treaties /\ offers = {} /\ busy = {} /\ failed = {}
        /\ guest = [entering |-> FALSE, inside |-> FALSE, leaving |-> FALSE]
        /\ queue = [k \in Key |-> <<>>] /\ inbox = <<>> /\ row.inside = FALSE
    BY DEF Init, NewTreaty
  <1>2. Cells = {}
    <2>1. ASSUME NEW c \in Key \cup {"inbox"} PROVE ChannelIn(queue, inbox, c) = <<>>
      BY <1>1, <2>1 DEF ChannelIn
    <2> QED
      BY <2>1 DEF Cells, CellsIn
  <1>3. OrderCells("treaty") = {} /\ OrderCells("trade") = {} /\ EnterCells = {} /\ LeaveCells = {}
    BY <1>2 DEF OrderCells, EnterCells, LeaveCells
  <1>4. Ends("Treaty") = {} /\ Ends("Offer") = {}
    BY <1>1, <1>2 DEF Ends
  <1>5. Orderly
    BY <1>1, <1>2, <1>3 DEF Orderly, Lone, Reserved, DoneFirst, Unfailed
  <1>6. OneHeld /\ OneWritten
    BY <1>1, <1>3 DEF OneHeld, OneWritten, OneOfEach, AtMostOne
  <1>7. SameTreaties
    BY <1>1, <1>3, <1>4 DEF SameTreaties, LiveTreaties, OpenStates
  <1>8. SameOffers
    BY <1>1, <1>3, <1>4 DEF SameOffers, LiveOffers
  <1>9. GuestWay
    BY <1>1, <1>3 DEF GuestWay, AtMostOne
  <1> QED
    BY <1>5, <1>6, <1>7, <1>8, <1>9 DEF Agreed
\* What loop and rows have in common, whoever takes a step.
LEMMA StepAgreed == ASSUME Inv, Inv', Agreed, failures \in Nat, [Next]_vars PROVE Agreed'
  <1>1. CASE Orders
    <2>1. CASE \E p \in Player : \/ \E ty \in Types : ProposeTreaty(p, ty)
                                 \/ \E t \in pacts : CancelTreaty(p, t) \/ \E accept \in BOOLEAN : RespondTreaty(p, t, accept)
      BY <2>1, TreatyOrdersAgreed
    <2>2. CASE \E p \in Player : ProposeTrade(p) \/ \E o \in offers : AcceptTrade(p, o) \/ CloseTrade(p, o)
      BY <2>2, TradeOrdersAgreed
    <2>3. CASE GarrisonUnit
      BY <2>3, GarrisonAgreed
    <2>4. CASE \E tile \in BOOLEAN : UngarrisonUnit(tile)
      <3>1. PICK tile \in BOOLEAN : UngarrisonUnit(tile)
        BY <2>4
      <3>2. /\ guest' = Left(tile) /\ Submit(LeftJobs(tile)) /\ Outside /\ guest.inside /\ ~guest.entering
            /\ UNCHANGED <<pacts, offers, busy, failed, slipped, crossed>>
        BY <3>1 DEF UngarrisonUnit
      <3> QED
        BY <3>2, LeavesAgreed
    <2> QED
      BY <1>1, <2>1, <2>2, <2>3, <2>4 DEF Orders
  <1>2. CASE Time
    <2>1. UNCHANGED <<pacts, offers, busy, failed, guest, queue, inbox, row, failures, ghost, lost, slipped, crossed>>
      BY <1>2 DEF Time, Forgive, Lapse, Expire, Reach, Outside, loop
    <2> QED
      BY <2>1, NothingSubmitted
  <1>3. CASE RetryPendingExits
    BY <1>3, RetryAgreed
  <1>4. CASE \E tile \in BOOLEAN : Sweep(tile)
    BY <1>4, SweepAgreed
  <1>5. CASE Handle
    BY <1>5, HandleAgreed
  <1>6. CASE \E k \in Key : Worker(k)
    BY <1>6, CommitAgreed, UnackedAgreed, GiveUpAgreed DEF Worker
  <1>7. CASE Restart
    BY <1>7, RestartAgreed
  <1>8. CASE UNCHANGED vars
    <2>1. UNCHANGED <<pacts, offers, busy, failed, guest, queue, inbox, row, failures, ghost, lost, slipped, crossed>>
      BY <1>8 DEF vars, loop
    <2> QED
      BY <2>1, NothingSubmitted
  <1> QED
    BY <1>1, <1>2, <1>3, <1>4, <1>5, <1>6, <1>7, <1>8 DEF Next
LEMMA Counts == ASSUME failures \in Nat, [Next]_vars PROVE failures' \in Nat
  <1>1. CASE failures' = failures \/ failures' = failures + 1
    BY <1>1
  <1>2. CASE Orders
    BY <1>1, <1>2 DEF Orders, ProposeTreaty, CancelTreaty, RespondTreaty, TreatyOrder, ProposeTrade, AcceptTrade, CloseTrade, TradeOrder,
                      GarrisonUnit, UngarrisonUnit, Outside
  <1>3. CASE Time \/ RetryPendingExits \/ \E tile \in BOOLEAN : Sweep(tile)
    BY <1>1, <1>3 DEF Time, Forgive, Lapse, Expire, Reach, RetryPendingExits, Sweep, Outside
  <1>4. CASE Handle \/ Restart \/ UNCHANGED vars
    BY <1>1, <1>4 DEF Handle, Restart, vars
  <1>5. CASE \E k \in Key : Worker(k)
    BY <1>1, <1>5 DEF Worker, Commit, CommitUnacked, GiveUp
  <1> QED
    BY <1>2, <1>3, <1>4, <1>5 DEF Next
-----------------------------------------------------------------------------
(* The pair, as long as the specification runs.                            *)

Paired == Inv /\ Agreed /\ failures \in Nat

\* The key of a job says which jobs it is among.
LEMMA KeyOf ==
    ASSUME NEW j \in Job
    PROVE  /\ j \in TreatyJobs => j.key = "treaty" /\ j.k = "Treaty"
           /\ j \in OfferJobs => j.key = "trade" /\ j.k = "Offer"
           /\ j \in AcceptJobs => j.key = "city" /\ j.k = "Accept"
           /\ j \in {EnterJob, LeaveJob} => j.key = "unit" /\ j.k \in {"Enter", "Leave"}
           /\ j \in TreatyJobs \/ j \in OfferJobs \/ j \in AcceptJobs \/ j \in {EnterJob, LeaveJob}
  <1>1. j \in TreatyJobs => j.key = "treaty" /\ j.k = "Treaty"
    BY DEF TreatyJobs
  <1>2. j \in OfferJobs => j.key = "trade" /\ j.k = "Offer"
    BY DEF OfferJobs
  <1>3. j \in AcceptJobs => j.key = "city" /\ j.k = "Accept"
    BY DEF AcceptJobs
  <1>4. j \in {EnterJob, LeaveJob} => j.key = "unit" /\ j.k \in {"Enter", "Leave"}
    BY DEF EnterJob, LeaveJob, UnitJob
  <1> QED
    BY <1>1, <1>2, <1>3, <1>4 DEF Job
LEMMA PairedOneBetweenTwo == ASSUME Paired PROVE OneBetweenTwo
  <1>1. OneOfEach(pacts) /\ AtMostOne(offers) /\ IsFiniteSet(offers)
    BY DEF Paired, Inv, TypeInv, LoopType, Agreed, OneHeld
  <1>2. Cardinality(offers) <= 1
    <2>1. CASE offers = {}
      BY <2>1, FS_EmptySet
    <2>2. ASSUME NEW o \in offers PROVE Cardinality(offers) <= 1
      <3>1. offers = {o}
        BY <1>1 DEF AtMostOne
      <3> QED
        <4>1. Cardinality({o}) = 1
          BY FS_Singleton
        <4> QED
          BY <3>1, <4>1
    <2> QED
      BY <2>1, <2>2
  <1> QED
    BY <1>1, <1>2 DEF OneBetweenTwo
LEMMA PairedAwaited == ASSUME Paired PROVE BusyAwaited
  <1>1. QueueType /\ InboxType /\ Reserved("treaty") /\ Reserved("trade")
    BY DEF Paired, Inv, TypeInv, Agreed, Orderly
  <1>2. ASSUME NEW b \in Book, NEW x \in OrderCells(b)
        PROVE  IF b = "treaty" THEN Awaited({"treaty"}, {"Treaty"}) ELSE Awaited({"trade", "city"}, {"Offer", "Accept"})
    <2>1. x \in Cells /\ OrderOf(b, Entry(x).job)
      BY DEF OrderCells
    <2>2. PICK j : j = Entry(x).job
      OBVIOUS
    <2>3. /\ j \in Job /\ OrderOf(b, j) /\ j.order
          /\ Boxed(x) => x[2] \in 1..Len(inbox) /\ Entry(x) = inbox[x[2]]
          /\ ~Boxed(x) => /\ x[1] \in Key /\ x[2] \in 1..Len(queue[x[1]])
                          /\ Entry(x) = queue[x[1]][x[2]] /\ j.key = x[1]
      BY <1>1, <2>1, <2>2, CellJobs DEF OrderOf
    <2>4. IF b = "treaty" THEN j.key = "treaty" /\ j.k = "Treaty" ELSE j.key \in {"trade", "city"} /\ j.k \in {"Offer", "Accept"}
      BY <2>3, Books DEF Book, TreatyJobs, OfferJobs, AcceptJobs
    <2>5. /\ Boxed(x) => x[2] \in DOMAIN inbox
          /\ ~Boxed(x) => x[2] \in DOMAIN queue[x[1]]
      BY <1>1, <2>3 DEF QueueType, InboxType
    <2>6. CASE Boxed(x)
      BY <2>2, <2>3, <2>4, <2>5, <2>6 DEF Awaited
    <2>7. CASE ~Boxed(x)
      BY <2>2, <2>3, <2>4, <2>5, <2>7 DEF Awaited
    <2> QED
      BY <2>6, <2>7
  <1> QED
    BY <1>1, <1>2 DEF BusyAwaited, Reserved, Book
\* A closing alone in front of the queue is taken, and an order has every closing of
\* its book behind it.
LEMMA PairedFits == ASSUME Paired PROVE OrdersFit
  <1> SUFFICES ASSUME failures = 0, ~ghost, NEW k \in {"treaty", "trade"}, queue[k] # <<>> PROVE Run(Head(queue[k]).job, TRUE).ok
    BY DEF OrdersFit
  <1> DEFINE h == <<k, 1>>
             kind == IF k = "treaty" THEN "Treaty" ELSE "Offer"
  <1>1. PICK j : j = Head(queue[k]).job
    OBVIOUS
  <1>2. Inv /\ Agreed /\ k \in Key
    BY DEF Paired, Key
  <1>3. h \in Cells /\ ~Boxed(h) /\ Entry(h) = Head(queue[k]) /\ j \in Job /\ j.key = k /\ Entry(h).job = j
    BY <1>1, <1>2, Works
  <1>4. /\ QueueType /\ InboxType /\ RowType(row) /\ OneWritten /\ Unfailed /\ OneHeld /\ SameTreaties /\ SameOffers
        /\ TreatyRows(row.treaties) /\ OfferRows(row.offers) /\ Good
    BY <1>2, TypesOf, RowsAre DEF Agreed, Orderly, Good
  <1>5. IF k = "treaty" THEN j \in TreatyJobs ELSE j \in OfferJobs
    BY <1>3, KeyOf
  <1>h. h = <<k, 1>> /\ h[1] = k /\ h[2] = 1
    OBVIOUS
  <1> HIDE DEF h
  <1>6. j.order => ~Entry(h).done /\ h \in OrderCells(k) /\ Ends(kind) = {}
    <2> SUFFICES ASSUME j.order PROVE ~Entry(h).done /\ h \in OrderCells(k) /\ Ends(kind) = {}
      OBVIOUS
    <2>1. failed = {} /\ ~Entry(h).done /\ Len(queue[k]) = 1
      BY <1>3, <1>4, <1>h DEF Unfailed
    <2>2. h \in OrderCells(k)
      BY <1>3, <1>5 DEF OrderCells, OrderOf, BookOf, TreatyJobs, OfferJobs
    <2>3. ASSUME NEW y \in Cells, EndOf(kind, Entry(y).job) PROVE FALSE
      <3>1. PICK i : i = Entry(y).job
        OBVIOUS
      <3>2. /\ i \in Job /\ y = <<y[1], y[2]>>
            /\ ~Boxed(y) => y[1] \in Key /\ y[2] \in 1..Len(queue[y[1]]) /\ i.key = y[1]
        BY <1>4, <3>1, CellJobs
      <3>3. ~i.order /\ i.k = kind /\ i # EnterJob
        BY <2>3, <3>1 DEF EndOf, EnterJob, UnitJob
      <3>4. ~Boxed(y)
        BY <1>4, <3>1, <3>3 DEF Unfailed
      <3>5. i.key = k
        BY <3>2, <3>3, KeyOf
      <3>6. y[2] \in 1..1 /\ y[1] = k
        BY <2>1, <3>2, <3>4, <3>5
      <3>7. y = h
        BY <1>h, <3>2, <3>6
      <3> QED
        BY <1>3, <3>1, <3>3, <3>7
    <2> QED
      BY <2>1, <2>2, <2>3 DEF Ends
  <1>7. CASE k = "treaty"
    <2>1. Run(j, TRUE).ok = TreatyTaken(row.treaties, j)
      BY <1>4, <1>5, <1>7, TreatyTx DEF Run, TreatyJobs
    <2>2. CASE j.order
      <3>1. Ends("Treaty") = {} /\ h \in OrderCells("treaty") /\ ~Entry(h).done
        BY <1>6, <1>7, <2>2
      <3>2. TreatyClaim(Boxed(h), Entry(h), pacts, row.treaties, Ends("Treaty"))
        BY <1>4, <3>1 DEF SameTreaties
      <3>3. SoundTreaty(pacts, row.treaties, j) /\ LiveTreaties(row.treaties, {}) = pacts
        BY <1>3, <3>1, <3>2 DEF TreatyClaim
      <3>4. OneOfEach(AfterTreaty(pacts, j))
        BY <1>3, <1>4, <3>1 DEF OneHeld
      <3> QED
        BY <1>1, <1>4, <1>5, <1>7, <2>1, <3>3, <3>4, OrderFits
    <2>3. CASE ~j.order
      <3>1. j \in Ends("Treaty")
        BY <1>3, <1>5, <1>7, <2>3 DEF Ends, EndOf, TreatyJobs
      <3>2. EndsTreaty(row.treaties, j)
        BY <1>4, <3>1 DEF SameTreaties
      <3> QED
        BY <1>1, <1>4, <1>5, <1>7, <2>1, <3>2, EndRow
    <2> QED
      BY <2>2, <2>3
  <1>8. CASE k = "trade"
    <2>0. j \in OfferJobs /\ j.k = "Offer"
      BY <1>5, <1>8 DEF OfferJobs
    <2>1. Run(j, TRUE).ok = OfferTaken(row.offers, j, TRUE)
      BY <1>4, <2>0, OfferTx
    <2>2. CASE j.order
      <3>1. Ends("Offer") = {} /\ h \in OrderCells("trade") /\ ~Entry(h).done
        BY <1>6, <1>8, <2>2
      <3>2. OfferClaim(Boxed(h), Entry(h), offers, row.offers, Ends("Offer"))
        BY <1>4, <3>1 DEF SameOffers
      <3>3. SoundOffer(offers, row.offers, j) /\ LiveOffers(row.offers, {}) = offers
        BY <1>3, <3>1, <3>2 DEF OfferClaim
      <3> QED
        BY <1>1, <2>1, <3>3, OfferFits
    <2>3. CASE ~j.order
      <3>1. j \in Ends("Offer")
        BY <1>3, <2>0, <2>3 DEF Ends, EndOf
      <3>2. EndsOffer(row.offers, j)
        BY <1>4, <3>1 DEF SameOffers
      <3> QED
        BY <1>1, <1>4, <2>1, <3>2, EndOfferRow
    <2> QED
      BY <2>2, <2>3
  <1> QED
    BY <1>7, <1>8
LEMMA PairedSettles == ASSUME Paired PROVE RestartChangesNothing
  <1> SUFFICES ASSUME Settled PROVE /\ pacts = Open(row) /\ offers = Pending(row)
                                    /\ ~slipped /\ ~crossed => guest.inside = row.inside
    BY DEF RestartChangesNothing
  <1>1. (\A k \in Key : queue[k] = <<>>) /\ inbox = <<>> /\ failed = {} /\ ~ghost /\ ~lost
    BY DEF Settled
  <1>2. /\ Reserved("treaty") /\ Reserved("trade") /\ SameTreaties /\ SameOffers /\ GuestWay /\ Good
    BY <1>1 DEF Paired, Agreed, Orderly, Good
  <1>3. Cells = {}
    <2>1. ASSUME NEW c \in Key \cup {"inbox"} PROVE ChannelIn(queue, inbox, c) = <<>>
      BY <1>1, <2>1 DEF ChannelIn
    <2> QED
      BY <2>1 DEF Cells, CellsIn
  <1>4. OrderCells("treaty") = {} /\ OrderCells("trade") = {} /\ EnterCells = {} /\ LeaveCells = {}
    BY <1>3 DEF OrderCells, EnterCells, LeaveCells
  <1>5. Ends("Treaty") = {} /\ Ends("Offer") = {}
    BY <1>1, <1>3 DEF Ends
  <1>6. "treaty" \notin busy /\ "trade" \notin busy
    BY <1>1, <1>2, <1>4 DEF Reserved
  <1>7. pacts = Open(row)
    BY <1>2, <1>5, <1>6 DEF SameTreaties, LiveTreaties, Open
  <1>8. offers = Pending(row)
    BY <1>2, <1>5, <1>6 DEF SameOffers, LiveOffers, Pending
  <1>9. ~slipped /\ ~crossed => guest.inside = row.inside
    BY <1>1, <1>2, <1>4 DEF GuestWay
  <1> QED
    BY <1>7, <1>8, <1>9
LEMMA PairedBegins == Init => Paired
  BY Inductive, BeginsAgreed DEF Paired, Init
LEMMA PairedStep == Paired /\ [Next]_vars => Paired'
  <1> SUFFICES ASSUME Paired, [Next]_vars PROVE Paired'
    OBVIOUS
  <1>1. Inv /\ Agreed /\ failures \in Nat
    BY DEF Paired
  <1>2. Inv'
    BY <1>1, StepKeepsInv
  <1>3. Agreed'
    BY <1>1, <1>2, StepAgreed
  <1>4. failures' \in Nat
    BY <1>1, Counts
  <1> QED
    BY <1>2, <1>3, <1>4 DEF Paired

\* What a pair has between them is in order, for any types of treaty and whatever the
\* workers do: one treaty in force, one proposed and one offer at a time, though the
\* orders, the sweep and the improvement of a treaty close them each on its own; an
\* order is taken by the database while nothing fails, since every closing the loop
\* had in mind is before it in its queue; a reservation has an order that somebody
\* will answer (treaties.go, trade.go; INV-DIPLO-002, INV-TRADE-003).
THEOREM PairAlwaysInOrder == Spec => []PairInOrder
  <1>1. Paired => PairInOrder
    BY PairedOneBetweenTwo, PairedFits, PairedAwaited DEF PairInOrder
  <1> QED
    BY <1>1, PairedBegins, PairedStep, PTL DEF Spec

\* Once everything is written a restart reads what the loop held, though closings are
\* given up and submitted again behind orders, transactions are repeated after an
\* answer was lost, and orders were told to have failed (bootstrap of treaties and
\* offers; the guest with the two exceptions that slipped and crossed name).
THEOREM RestartsChangeNothing == Spec => []RestartChangesNothing
  <1>1. Paired => RestartChangesNothing
    BY PairedSettles
  <1> QED
    BY <1>1, PairedBegins, PairedStep, PTL DEF Spec
=============================================================================
