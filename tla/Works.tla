------------------------------- MODULE Works -------------------------------
(***************************************************************************)
(* The works of a city between the loop's memory and the database: houses  *)
(* (ordered, finished, destroyed), the training of a unit and its birth,   *)
(* the advance of era, and the deaths (internal/game/simulation/{economy,  *)
(* siege,combat,advance}.go, internal/persistence/postgres/{economy,       *)
(* advance,combat}.go).                                                    *)
(*                                                                         *)
(* Two counts must survive every interleaving: the population of the city  *)
(* and its limit.  The loop moves them at once; each job moves its rows    *)
(* and its share of the counts in one transaction.  The jobs of the city   *)
(* run in order; a death is a job of its unit and runs beside them.        *)
(*                                                                         *)
(* What an order costs is the subject of StockLedger: here a transaction   *)
(* may be refused for its stock.  Instants are left out: what is due may   *)
(* happen at any moment.                                                   *)
(***************************************************************************)
EXTENDS Naturals, Sequences, FiniteSets, SequencesExt

CONSTANTS
  Site,         \* tiles of the urban zone
  Villager,     \* units the city may ever have
  Settlers,      \* those it starts with
  VillageCap, TownCap,  \* population caps of the two eras
  Bonus,        \* PopulationBonus of a house
  QueueSize, InboxSize,
  MaxFailures,  \* bound: jobs given up or committed without an answer
  MaxOrders     \* bound: orders, destructions, deaths and restarts

NoId == 0

ASSUME ConstantsAssumption ==
  /\ IsFiniteSet(Site) /\ IsFiniteSet(Villager) /\ Settlers \subseteq Villager
  /\ NoId \notin Villager
  /\ VillageCap \in Nat /\ TownCap \in Nat /\ VillageCap <= TownCap
  /\ Bonus \in Nat \ {0}
  /\ QueueSize \in Nat \ {0} /\ InboxSize \in Nat \ {0}
  /\ MaxFailures \in Nat /\ MaxOrders \in Nat

VARIABLES
  city,      \* what the loop holds of the city
  queue,     \* jobs of the city, submitted and not finished
  dying,     \* deaths submitted, each in the queue of its unit
  inbox,     \* messages of the workers to the loop
  row,       \* the rows of the city
  failures,  \* bounded count of failures
  orders,    \* bounded count of orders
  ghost,     \* history: an order was written and its author told it was not
  lost       \* history: a message found the inbox full

vars == <<city, queue, dying, inbox, row, failures, orders, ghost, lost>>

-----------------------------------------------------------------------------
(* Values.  A house and a training bear the number of the request that      *)
(* ordered them.                                                           *)

Cap(era) == IF era = "VILLAGE" THEN VillageCap ELSE TownCap
NoHouse == [id |-> NoId, st |-> "NONE"]        \* ORDERED, UNDER_CONSTRUCTION, COMPLETE
NoWork == [req |-> NoId, st |-> "NONE"]        \* ORDERED, RUNNING; BIRTHING
NoRow == [there |-> FALSE, req |-> NoId, born |-> NoId]

Build(n, t)   == [k |-> "Build", id |-> n, site |-> t]
Train(n)      == [k |-> "Train", id |-> n]
Advance(n)    == [k |-> "Advance", id |-> n]
Complete(n)   == [k |-> "Complete", id |-> n]
Destroy(n, t) == [k |-> "Destroy", id |-> n, site |-> t]
Birth         == [k |-> "Birth", id |-> NoId]
EraEnd        == [k |-> "EraEnd", id |-> NoId]
IsOrder(j) == j.k \in {"Build", "Train", "Advance"}

\* A message: the job it answers, whether it was written, and the unit born.
Answer(j, ok, born) == [job |-> j, ok |-> ok, born |-> born]
DeathFailed(v) == Answer([k |-> "Death", id |-> v], FALSE, NoId)

Used == {city.houses[t].id : t \in Site} \cup {city.training.req, city.advance.req}
          \cup {city.destroying[t] : t \in Site} \cup {d.id : d \in city.destructions}
          \cup {queue[i].job.id : i \in DOMAIN queue}
          \cup {inbox[i].job.id : i \in DOMAIN inbox}
          \cup {h.id : h \in row.houses} \cup {row.prod.req, row.adv}
Fresh == CHOOSE n \in 1..(Cardinality(Used) + 1) : n \notin Used

Offer(box, m) == IF Len(box) < InboxSize THEN Append(box, m) ELSE box

\* The loop becomes c and submits the jobs, in order: what a full queue does not
\* take is handed back as given up.
Least(a, b) == IF a < b THEN a ELSE b
Becomes(c, box, jobs) ==
  LET fit  == Least(Len(jobs), QueueSize - Len(queue))
      over == Len(jobs) - fit
      told == Least(over, InboxSize - Len(box))
  IN /\ city' = c
     /\ queue' = queue \o [i \in 1..fit |-> [job |-> jobs[i], done |-> FALSE]]
     /\ inbox' = box \o [i \in 1..told |-> Answer(jobs[fit + i], FALSE, NoId)]
     /\ lost' = (lost \/ told < over)
     /\ UNCHANGED <<row, failures, ghost>>

Ordered == orders < MaxOrders /\ orders' = orders + 1
Quiet == UNCHANGED orders

-----------------------------------------------------------------------------
Init ==
  /\ city = [era |-> "VILLAGE", limit |-> VillageCap, pop |-> Cardinality(Settlers),
             houses |-> [t \in Site |-> NoHouse], destroying |-> [t \in Site |-> NoId],
             training |-> NoWork, advance |-> NoWork, units |-> Settlers,
             completions |-> {}, destructions |-> {}, eraEnd |-> FALSE, deaths |-> {}]
  /\ queue = <<>> /\ dying = {} /\ inbox = <<>>
  /\ row = [era |-> "VILLAGE", limit |-> VillageCap, pop |-> Cardinality(Settlers),
            houses |-> {}, prod |-> NoRow, adv |-> NoId, units |-> Settlers]
  /\ failures = 0 /\ orders = 0 /\ ghost = FALSE /\ lost = FALSE

(* city.build: the site is free of houses, ordered ones and ruins whose     *)
(* destruction is not written.                                             *)
\* Mutant of Occupied: a ruin that waits for its write is not looked at.
OccupiedStanding(t) == city.houses[t] # NoHouse

Occupied(t) == city.houses[t] # NoHouse \/ city.destroying[t] # NoId
BuildBuilding(t) ==
  /\ Ordered
  /\ ~Occupied(t)
  /\ Becomes([city EXCEPT !.houses[t] = [id |-> Fresh, st |-> "ORDERED"]], inbox,
             <<Build(Fresh, t)>>)
  /\ UNCHANGED dying

\* A birth takes a number no unit has.
Newborn == Villager \ (city.units \cup row.units \cup dying \cup city.deaths
             \cup {inbox[i].job.id : i \in {x \in DOMAIN inbox : inbox[x].job.k = "Death"}}
             \cup {inbox[i].born : i \in DOMAIN inbox})

(* city.train and city.advance: one work at a time. *)
Working == city.training # NoWork \/ city.advance # NoWork
TrainUnit ==
  /\ Ordered
  /\ ~Working /\ city.pop < city.limit
  /\ Newborn # {}                          \* bound: Villager
  /\ Becomes([city EXCEPT !.pop = @ + 1, !.training = [req |-> Fresh, st |-> "ORDERED"]],
             inbox, <<Train(Fresh)>>)
  /\ UNCHANGED dying
AdvanceEra ==
  /\ Ordered
  /\ ~Working /\ city.era = "VILLAGE"
  /\ Becomes([city EXCEPT !.advance = [req |-> Fresh, st |-> "ORDERED"]],
             inbox, <<Advance(Fresh)>>)
  /\ UNCHANGED dying

(* The tick: what is due. *)
CompleteBuilding(t) ==
  /\ Quiet
  /\ city.houses[t].st = "UNDER_CONSTRUCTION"
  /\ Becomes([city EXCEPT !.houses[t].st = "COMPLETE", !.limit = @ + Bonus],
             inbox, <<Complete(city.houses[t].id)>>)
  /\ UNCHANGED dying
CompleteProduction ==
  /\ Quiet
  /\ city.training.st = "RUNNING"
  /\ Becomes([city EXCEPT !.training.st = "BIRTHING"], inbox, <<Birth>>)
  /\ UNCHANGED dying
CompleteAdvance ==
  /\ Quiet
  /\ city.advance.st = "RUNNING"
  /\ IF city.era = "VILLAGE"
     THEN Becomes([city EXCEPT !.advance = NoWork, !.era = "TOWN",
                               !.limit = @ + TownCap - VillageCap], inbox, <<EraEnd>>)
     ELSE Becomes([city EXCEPT !.advance = NoWork], inbox, <<>>)
  /\ UNCHANGED dying

(* destroyHouse: a siege brings down a house, finished or not. *)
DestroyHouse(t) ==
  LET h == city.houses[t]
  IN /\ Ordered
     /\ h.st \in {"UNDER_CONSTRUCTION", "COMPLETE"}
     /\ Becomes([city EXCEPT !.houses[t] = NoHouse, !.destroying[t] = h.id,
                             !.completions = @ \ {h.id},
                             !.limit = IF h.st = "COMPLETE" THEN @ - Bonus ELSE @],
                inbox, <<Destroy(h.id, t)>>)
     /\ UNCHANGED dying

(* kill: the city counts one less; the death is a job of the unit. *)
Kill(v) ==
  /\ Ordered
  /\ v \in city.units
  /\ city' = [city EXCEPT !.units = @ \ {v}, !.pop = IF @ > 0 THEN @ - 1 ELSE 0]
  /\ dying' = dying \cup {v}
  /\ UNCHANGED <<queue, inbox, row, failures, ghost, lost>>

(* FlushDirty: completions, ends of era, destructions and deaths given up   *)
(* are submitted again.                                                    *)
ToFlush == \/ city.completions # {} \/ city.eraEnd
           \/ city.destructions # {} \/ city.deaths # {}
Standing(n) == \E t \in Site : city.houses[t].id = n
FlushJobs ==
  SetToSeq({Complete(n) : n \in {x \in city.completions : Standing(x)}})
    \o (IF city.eraEnd THEN <<EraEnd>> ELSE <<>>)
    \o SetToSeq({Destroy(d.id, d.site) : d \in city.destructions})
FlushDirty ==
  /\ Quiet
  /\ ToFlush
  /\ Becomes([city EXCEPT !.completions = {}, !.eraEnd = FALSE, !.destructions = {},
                          !.deaths = {}], inbox, FlushJobs)
  /\ dying' = dying \cup city.deaths

(* Messages *)
HandleBuildResolved(m) ==
  LET t == m.job.site
  IN IF city.houses[t].st # "ORDERED" \/ city.houses[t].id # m.job.id THEN city
     ELSE [city EXCEPT !.houses[t] = IF m.ok THEN [id |-> m.job.id, st |-> "UNDER_CONSTRUCTION"]
                                     ELSE NoHouse]
\* Mutant of HandleTrainResolved: a refused training keeps its place.
HandleTrainResolvedKeepsPlace(m) ==
  IF city.training.st # "ORDERED" \/ city.training.req # m.job.id THEN city
  ELSE IF m.ok THEN [city EXCEPT !.training.st = "RUNNING"]
       ELSE [city EXCEPT !.training = NoWork]

HandleTrainResolved(m) ==
  IF city.training.st # "ORDERED" \/ city.training.req # m.job.id THEN city
  ELSE IF m.ok THEN [city EXCEPT !.training.st = "RUNNING"]
       ELSE [city EXCEPT !.training = NoWork, !.pop = @ - 1]
HandleAdvanceResolved(m) ==
  IF city.advance.st # "ORDERED" \/ city.advance.req # m.job.id THEN city
  ELSE [city EXCEPT !.advance = IF m.ok THEN [req |-> m.job.id, st |-> "RUNNING"] ELSE NoWork]
HandleBirthResolved(m) ==
  CASE city.training.st # "BIRTHING" -> city
    [] city.training.st = "BIRTHING" /\ ~m.ok -> [city EXCEPT !.training.st = "RUNNING"]
    [] OTHER -> [city EXCEPT !.training = NoWork, !.units = @ \cup {m.born}]
\* Mutant of HandleBuildingCompletePersistFailed: the completion is forgotten.
HandleBuildingCompleteForgotten(m) == city

HandleBuildingCompletePersistFailed(m) ==
  IF Standing(m.job.id) THEN [city EXCEPT !.completions = @ \cup {m.job.id}] ELSE city
HandleBuildingDestroyResolved(m) ==
  [city EXCEPT !.destroying[m.job.site] = IF @ = m.job.id THEN NoId ELSE @,
               !.destructions = {d \in @ : d.id # m.job.id}]
\* Mutant of HandleBuildingDestroyPersistFailed: the destruction is forgotten.
HandleBuildingDestroyForgotten(m) == city

HandleBuildingDestroyPersistFailed(m) ==
  [city EXCEPT !.destructions = @ \cup {[id |-> m.job.id, site |-> m.job.site]}]
HandleDeathPersistFailed(m) == [city EXCEPT !.deaths = @ \cup {m.job.id}]

Handled(m) ==
  CASE m.job.k = "Build"    -> HandleBuildResolved(m)
    [] m.job.k = "Train"    -> HandleTrainResolved(m)
    [] m.job.k = "Advance"  -> HandleAdvanceResolved(m)
    [] m.job.k = "Birth"    -> HandleBirthResolved(m)
    [] m.job.k = "Complete" -> HandleBuildingCompletePersistFailed(m)
    [] m.job.k = "EraEnd"   -> [city EXCEPT !.eraEnd = TRUE]
    [] m.job.k = "Death"    -> HandleDeathPersistFailed(m)
    [] OTHER -> IF m.ok THEN HandleBuildingDestroyResolved(m)
                ELSE HandleBuildingDestroyPersistFailed(m)
Handle ==
  /\ Quiet
  /\ inbox # <<>>
  /\ Becomes(Handled(Head(inbox)), Tail(inbox), <<>>)
  /\ UNCHANGED dying

-----------------------------------------------------------------------------
(* Transactions.  Each yields the rows after it and its answer; a refusal   *)
(* writes nothing and is an answer, not a failure.                         *)

Wrote(r) == [row |-> r, ok |-> TRUE, born |-> NoId]
Refused == [row |-> row, ok |-> FALSE, born |-> NoId]
InProgress == row.prod.there /\ row.prod.born = NoId

\* afford is what applyStock decides (StockLedger).
TxBuild(j, afford) ==
  CASE \E h \in row.houses : h.id = j.id -> Wrote(row)
    [] (\A h \in row.houses : h.id # j.id) /\ (~afford \/ \E h \in row.houses : h.site = j.site) ->
         Refused
    [] OTHER -> Wrote([row EXCEPT !.houses =
                         @ \cup {[id |-> j.id, site |-> j.site, st |-> "UNDER_CONSTRUCTION"]}])

\* The trigger refuses to raise the population over the limit.
TxTrain(j, afford) ==
  CASE row.prod.req = j.id -> Wrote(row)
    [] row.prod.req # j.id /\ (InProgress \/ row.adv # NoId \/ ~afford \/ row.pop >= row.limit) ->
         Refused
    [] OTHER -> Wrote([row EXCEPT !.prod = [there |-> TRUE, req |-> j.id, born |-> NoId],
                              !.pop = @ + 1])

TxAdvance(j, afford) ==
  CASE row.adv = j.id -> Wrote(row)
    [] row.adv # j.id /\ (row.adv # NoId \/ row.era # "VILLAGE" \/ InProgress \/ ~afford) -> Refused
    [] OTHER -> Wrote([row EXCEPT !.adv = j.id])

\* Mutant of TxCompleteBuilding: the status of the house is not looked at.
TxCompleteBuildingAgain(j) ==
  LET due == {h \in row.houses : h.id = j.id}
  IN Wrote([row EXCEPT !.houses = (@ \ due) \cup {[h EXCEPT !.st = "COMPLETE"] : h \in due},
                       !.limit = @ + Bonus])

TxCompleteBuilding(j) ==
  LET due == {h \in row.houses : h.id = j.id /\ h.st = "UNDER_CONSTRUCTION"}
  IN IF due = {} THEN Wrote(row)
     ELSE Wrote([row EXCEPT !.houses = (@ \ due) \cup {[h EXCEPT !.st = "COMPLETE"] : h \in due},
                            !.limit = @ + Bonus])

\* Mutant of TxDestroyBuilding: the bonus of the loop is taken, not the row's.
TxDestroyBuildingAlways(j) ==
  LET hit == {h \in row.houses : h.id = j.id}
  IN Wrote([row EXCEPT !.houses = @ \ hit, !.limit = @ - Bonus])

TxDestroyBuilding(j) ==
  LET hit == {h \in row.houses : h.id = j.id}
  IN Wrote([row EXCEPT !.houses = @ \ hit,
                       !.limit = IF \E h \in hit : h.st = "COMPLETE" THEN @ - Bonus ELSE @])

TxBirthUnit(v) ==
  IF row.prod.born # NoId THEN [Wrote(row) EXCEPT !.born = row.prod.born]
  ELSE [Wrote([row EXCEPT !.prod.born = v, !.units = @ \cup {v}]) EXCEPT !.born = v]

TxCompleteAdvance ==
  IF row.era # "VILLAGE" THEN Wrote(row)
  ELSE Wrote([row EXCEPT !.era = "TOWN", !.adv = NoId, !.limit = @ + TownCap - VillageCap])

TxKill(v) ==
  IF v \notin row.units THEN row
  ELSE [row EXCEPT !.units = @ \ {v}, !.pop = IF @ > 0 THEN @ - 1 ELSE 0]

\* A birth whose production is not in its row fails.
Runnable(j) == j.k = "Birth" => row.prod.born # NoId \/ (row.prod.there /\ Newborn # {})
Run(j, afford) ==
  CASE j.k = "Build"    -> TxBuild(j, afford)
    [] j.k = "Train"    -> TxTrain(j, afford)
    [] j.k = "Advance"  -> TxAdvance(j, afford)
    [] j.k = "Complete" -> TxCompleteBuilding(j)
    [] j.k = "Destroy"  -> TxDestroyBuilding(j)
    [] j.k = "Birth"    -> TxBirthUnit(CHOOSE v \in Newborn \cup {NoId} : Newborn # {} => v \in Newborn)
    [] OTHER            -> TxCompleteAdvance

\* Completions answer only when they fail.
Answers(j) == j.k \notin {"Complete", "EraEnd"}

Commit(afford) ==
  /\ queue # <<>> /\ Runnable(Head(queue).job)
  /\ LET j  == Head(queue).job
         tx == Run(j, afford)
         m  == Answer(j, tx.ok, tx.born)
     IN /\ row' = tx.row
        /\ inbox' = IF Answers(j) THEN Offer(inbox, m) ELSE inbox
        /\ lost' = (lost \/ (Answers(j) /\ Len(inbox) >= InboxSize))
  /\ queue' = Tail(queue)
  /\ UNCHANGED <<city, dying, failures, orders, ghost>>

CommitUnacked ==
  /\ queue # <<>> /\ Runnable(Head(queue).job) /\ ~Head(queue).done
  /\ failures < MaxFailures /\ failures' = failures + 1
  /\ row' = Run(Head(queue).job, TRUE).row
  /\ queue' = [queue EXCEPT ![1].done = TRUE]
  /\ UNCHANGED <<city, dying, inbox, orders, ghost, lost>>

GiveUp ==
  /\ queue # <<>>
  /\ failures < MaxFailures /\ failures' = failures + 1
  /\ LET j == Head(queue).job
     IN /\ inbox' = Offer(inbox, Answer(j, FALSE, NoId))
        /\ lost' = (lost \/ Len(inbox) >= InboxSize)
        /\ ghost' = (ghost \/ (Head(queue).done /\ IsOrder(j)))
  /\ queue' = Tail(queue)
  /\ UNCHANGED <<city, dying, row, orders>>

(* The worker of a dead unit: the death is written, or given up with its    *)
(* transaction committed or not.                                           *)
CommitDeath(v) ==
  /\ v \in dying /\ dying' = dying \ {v}
  /\ row' = TxKill(v)
  /\ UNCHANGED <<city, queue, inbox, failures, orders, ghost, lost>>
GiveUpDeath(v, written) ==
  /\ v \in dying /\ dying' = dying \ {v}
  /\ failures < MaxFailures /\ failures' = failures + 1
  /\ row' = IF written THEN TxKill(v) ELSE row
  /\ inbox' = Offer(inbox, DeathFailed(v))
  /\ lost' = (lost \/ Len(inbox) >= InboxSize)
  /\ UNCHANGED <<city, queue, orders, ghost>>

(* The process dies; it starts from the rows, whose counts are recomputed   *)
(* (loadcheck), with no message, job nor pending write.                    *)
Finished == Cardinality({h \in row.houses : h.st = "COMPLETE"})
Recovered ==
  [era |-> row.era, limit |-> Cap(row.era) + Bonus * Finished,
   pop |-> Cardinality(row.units) + (IF InProgress THEN 1 ELSE 0),
   houses |-> [t \in Site |->
     IF \E h \in row.houses : h.site = t
     THEN LET h == CHOOSE x \in row.houses : x.site = t IN [id |-> h.id, st |-> h.st]
     ELSE NoHouse],
   destroying |-> [t \in Site |-> NoId],
   training |-> IF InProgress THEN [req |-> row.prod.req, st |-> "RUNNING"] ELSE NoWork,
   advance |-> IF row.adv # NoId /\ row.era = "VILLAGE"
               THEN [req |-> row.adv, st |-> "RUNNING"] ELSE NoWork,
   units |-> row.units,
   completions |-> {}, destructions |-> {}, eraEnd |-> FALSE, deaths |-> {}]
Restart ==
  /\ Ordered
  /\ city' = Recovered
  /\ row' = [row EXCEPT !.limit = Recovered.limit, !.pop = Recovered.pop,
                        !.adv = IF row.era = "VILLAGE" THEN @ ELSE NoId]
  /\ queue' = <<>> /\ dying' = {} /\ inbox' = <<>>
  /\ ghost' = FALSE /\ lost' = FALSE
  /\ UNCHANGED failures

Tick == (\E t \in Site : CompleteBuilding(t)) \/ CompleteProduction \/ CompleteAdvance
Worker == (\E afford \in BOOLEAN : Commit(afford)) \/ CommitUnacked \/ GiveUp
DeathWorker(v) == CommitDeath(v) \/ \E written \in BOOLEAN : GiveUpDeath(v, written)

Next ==
  \/ \E t \in Site : BuildBuilding(t) \/ DestroyHouse(t)
  \/ TrainUnit \/ AdvanceEra
  \/ Tick
  \/ \E v \in Villager : Kill(v) \/ DeathWorker(v)
  \/ FlushDirty
  \/ Handle
  \/ Worker
  \/ Restart

(* The loop drains its inbox and flushes at every interval; a worker takes  *)
(* the head of its queue.  Each weak fairness has its ENABLED written out.  *)
NothingToRun == queue = <<>> \/ ~Runnable(Head(queue).job)
Fairness ==
  /\ []<>(inbox = <<>>) \/ []<><<Handle>>_vars
  /\ []<>~ToFlush \/ []<><<FlushDirty>>_vars
  /\ []<>NothingToRun \/ []<><<Worker>>_vars

Spec == Init /\ [][Next]_vars /\ Fairness

-----------------------------------------------------------------------------
(* Properties *)

HouseType == [id : Nat, st : {"NONE", "ORDERED", "UNDER_CONSTRUCTION", "COMPLETE"}]
WorkType == [req : Nat, st : {"NONE", "ORDERED", "RUNNING", "BIRTHING"}]

\* Types of what the loop holds and of the rows.
TypeOK ==
  /\ city.era \in {"VILLAGE", "TOWN"} /\ city.limit \in Nat /\ city.pop \in Nat
  /\ city.houses \in [Site -> HouseType] /\ city.destroying \in [Site -> Nat]
  /\ city.training \in WorkType /\ city.advance \in WorkType
  /\ city.units \subseteq Villager /\ city.deaths \subseteq Villager
  /\ row.era \in {"VILLAGE", "TOWN"} /\ row.limit \in Nat /\ row.pop \in Nat
  /\ row.houses \subseteq [id : Nat, site : Site, st : {"UNDER_CONSTRUCTION", "COMPLETE"}]
  /\ row.prod \in [there : BOOLEAN, req : Nat, born : Villager \cup {NoId}] /\ row.adv \in Nat
  /\ row.units \subseteq Villager
  /\ dying \subseteq Villager /\ Len(queue) <= QueueSize /\ Len(inbox) <= InboxSize

\* In the database the two counts of the city are exact after every
\* transaction, retried or not, in whatever order a death, a birth, a finished
\* house and its destruction are written (INV-CITY-017, INV-ECON-004).
DatabaseAddsUp ==
  /\ row.pop = Cardinality(row.units) + (IF InProgress THEN 1 ELSE 0)
  /\ row.limit = Cap(row.era) + Bonus * Finished

\* In the loop too: the population is its living units and the place a
\* training reserves, the limit is its era and its finished houses.
LoopAddsUp ==
  /\ city.pop = Cardinality(city.units) + (IF city.training # NoWork THEN 1 ELSE 0)
  /\ city.limit = Cap(city.era)
       + Bonus * Cardinality({t \in Site : city.houses[t].st = "COMPLETE"})

\* The unique index of the standing houses never refuses a house the loop
\* accepted: a site whose ruin is still standing in the database takes no order
\* (ADR-029).  Only an order written without its author knowing may be in the way.
SiteFree ==
  ~ghost => \A i \in DOMAIN queue :
    queue[i].job.k = "Build" =>
      \A h \in row.houses : h.site = queue[i].job.site =>
        \/ h.id = queue[i].job.id
        \/ \E k \in 1..(i - 1) : queue[k].job.k = "Destroy" /\ queue[k].job.id = h.id

\* Once everything is written, a restart changes nothing: the loop and the
\* database tell the same city.  Left out: what a full inbox lost, an order its
\* author was told had failed, and a birth that is written and will be asked again.
Settled == /\ queue = <<>> /\ inbox = <<>> /\ dying = {} /\ ~ToFlush
           /\ ~ghost /\ ~lost
           /\ ~(city.training.st = "RUNNING" /\ row.prod.born # NoId)
RestartChangesNothing == Settled => Recovered = city

\* A ruin is written down in the end, and its site is free again; only a full
\* inbox may lose the answer (ADR-029: the destruction is retried).
RuinsEnd ==
  \A t \in Site : city.destroying[t] # NoId ~> city.destroying[t] = NoId \/ lost
=============================================================================
