---------------------------- MODULE Works_proofs ----------------------------
(***************************************************************************)
(* Proofs about Works, for any sites, units, caps, bonus, queues and       *)
(* failures: the two counts of a city in the database, the sites of its    *)
(* houses, then the whole city as the loop and the rows tell it: its       *)
(* training, its advance of era, its units, its houses and its counts.     *)
(***************************************************************************)
EXTENDS Works, FiniteSetTheorems, TLAPS

Done(houses) == {h \in houses : h.st = "COMPLETE"}

(* Rows is inductive with DatabaseAddsUp.  It says nothing of the jobs: a   *)
(* transaction keeps the counts whatever it is asked, because it looks at   *)
(* the rows it changes.                                                     *)
RowShape ==
  /\ row = [era |-> row.era, limit |-> row.limit, pop |-> row.pop, houses |-> row.houses,
            prod |-> row.prod, adv |-> row.adv, units |-> row.units]
  /\ row.prod = [there |-> row.prod.there, req |-> row.prod.req, born |-> row.prod.born]
  /\ row.prod.there \in BOOLEAN
  /\ row.era \in {"VILLAGE", "TOWN"}
  /\ row.units \subseteq Villager

\* A house is in the rows once.
HouseRows ==
  /\ IsFiniteSet(row.houses)
  /\ \A h \in row.houses : /\ h = [id |-> h.id, site |-> h.site, st |-> h.st]
                           /\ h.st \in {"UNDER_CONSTRUCTION", "COMPLETE"}
  /\ \A g, h \in row.houses : g.id = h.id => g = h

Population == row.pop = Cardinality(row.units) + (IF InProgress THEN 1 ELSE 0)
Limit == row.limit = Cap(row.era) + Bonus * Finished

Rows == RowShape /\ HouseRows /\ Population /\ Limit

-----------------------------------------------------------------------------
(* Facts about the counts.                                                  *)

LEMMA FiniteUnits == ASSUME RowShape PROVE IsFiniteSet(row.units) /\ Cardinality(row.units) \in Nat
  BY FS_Subset, FS_CardinalityType, ConstantsAssumption DEF RowShape

LEMMA DoneFinite ==
    ASSUME NEW houses, IsFiniteSet(houses)
    PROVE  IsFiniteSet(Done(houses)) /\ Cardinality(Done(houses)) \in Nat
  BY FS_Subset, FS_CardinalityType DEF Done

LEMMA CapType == \A era : Cap(era) \in Nat
  BY ConstantsAssumption DEF Cap

LEMMA Times == \A n \in Nat : Bonus * n \in Nat /\ Bonus * (n + 1) = Bonus * n + Bonus
  BY ConstantsAssumption

\* What changes neither the houses nor the era keeps the limit.
LEMMA SameHouses ==
    ASSUME HouseRows, Limit, row'.houses = row.houses, row'.era = row.era, row'.limit = row.limit
    PROVE  HouseRows' /\ Limit'
  BY DEF HouseRows, Limit, Finished, Cap

LEMMA SamePopulation ==
    ASSUME Population, row'.pop = row.pop, row'.units = row.units, row'.prod = row.prod
    PROVE  Population'
  BY DEF Population, InProgress

LEMMA SameRow == Rows /\ row' = row => Rows'
  BY DEF Rows, RowShape, HouseRows, Population, Limit, InProgress, Finished, Cap
-----------------------------------------------------------------------------
(* One lemma per transaction.                                               *)

LEMMA BuildKeeps ==
    ASSUME Rows, NEW j, NEW afford \in BOOLEAN, row' = TxBuild(j, afford).row
    PROVE  Rows'
  <1> DEFINE new == [id |-> j.id, site |-> j.site, st |-> "UNDER_CONSTRUCTION"]
  <1>1. CASE row' = row
    BY <1>1, SameRow
  <1>2. CASE /\ \A h \in row.houses : h.id # j.id
             /\ row' = [row EXCEPT !.houses = @ \cup {new}]
    <2>1. /\ row'.houses = row.houses \cup {new} /\ row'.era = row.era /\ row'.limit = row.limit
          /\ row'.pop = row.pop /\ row'.units = row.units /\ row'.prod = row.prod /\ RowShape'
      BY <1>2 DEF Rows, RowShape
    <2>2. Done(row'.houses) = Done(row.houses)
      BY <2>1 DEF Done
    <2>3. HouseRows'
      <3>1. IsFiniteSet(row'.houses)
        <4>1. IsFiniteSet(row.houses)
          BY DEF Rows, HouseRows
        <4> HIDE DEF new
        <4> QED
          BY <2>1, <4>1, FS_AddElement, Zenon
      <3>2. new.id = j.id /\ new = [id |-> new.id, site |-> new.site, st |-> new.st]
            /\ new.st \in {"UNDER_CONSTRUCTION", "COMPLETE"}
        OBVIOUS
      <3> HIDE DEF new
      <3> QED
        BY <1>2, <2>1, <3>1, <3>2 DEF Rows, HouseRows
    <2> QED
      BY <2>1, <2>2, <2>3, SamePopulation DEF Rows, Limit, Finished, Done, Cap
  <1> QED
    BY <1>1, <1>2 DEF TxBuild, Wrote, Refused

LEMMA TrainKeeps ==
    ASSUME Rows, NEW j, NEW afford \in BOOLEAN, row' = TxTrain(j, afford).row
    PROVE  Rows'
  <1> DEFINE new == [there |-> TRUE, req |-> j.id, born |-> NoId]
  <1>1. CASE row' = row
    BY <1>1, SameRow
  <1>2. CASE ~InProgress /\ row' = [row EXCEPT !.prod = new, !.pop = @ + 1]
    <2>1. /\ row'.houses = row.houses /\ row'.era = row.era /\ row'.limit = row.limit
          /\ row'.pop = row.pop + 1 /\ row'.units = row.units /\ row'.prod = new
      BY <1>2 DEF Rows, RowShape
    <2>2. InProgress' /\ RowShape'
      <3>1. row' = [era |-> row'.era, limit |-> row'.limit, pop |-> row'.pop, houses |-> row'.houses,
                    prod |-> row'.prod, adv |-> row'.adv, units |-> row'.units]
        BY <1>2 DEF Rows, RowShape
      <3> QED
        BY <2>1, <3>1 DEF InProgress, Rows, RowShape
    <2>3. Population'
      BY <1>2, <2>1, <2>2, FiniteUnits DEF Rows, Population
    <2> QED
      BY <2>1, <2>2, <2>3, SameHouses DEF Rows
  <1> QED
    BY <1>1, <1>2 DEF TxTrain, Wrote, Refused

LEMMA AdvanceKeeps ==
    ASSUME Rows, NEW j, NEW afford \in BOOLEAN, row' = TxAdvance(j, afford).row
    PROVE  Rows'
  <1>1. CASE row' = row
    BY <1>1, SameRow
  <1>2. CASE row' = [row EXCEPT !.adv = j.id]
    <2>1. /\ row'.houses = row.houses /\ row'.era = row.era /\ row'.limit = row.limit
          /\ row'.pop = row.pop /\ row'.units = row.units /\ row'.prod = row.prod /\ RowShape'
      BY <1>2 DEF Rows, RowShape
    <2> QED
      BY <2>1, SameHouses, SamePopulation DEF Rows
  <1> QED
    BY <1>1, <1>2 DEF TxAdvance, Wrote, Refused

\* The house is completed once: a row that is complete is not due.
LEMMA CompleteKeeps ==
    ASSUME Rows, NEW j, row' = TxCompleteBuilding(j).row
    PROVE  Rows'
  <1> DEFINE due == {h \in row.houses : h.id = j.id /\ h.st = "UNDER_CONSTRUCTION"}
  <1>1. CASE due = {}
    BY <1>1, SameRow DEF TxCompleteBuilding, Wrote
  <1>2. CASE due # {}
    <2>1. PICK d \in row.houses : due = {d} /\ d.id = j.id /\ d.st = "UNDER_CONSTRUCTION"
      BY <1>2 DEF Rows, HouseRows
    <2> DEFINE new == [d EXCEPT !.st = "COMPLETE"]
    <2>2. new = [id |-> d.id, site |-> d.site, st |-> "COMPLETE"]
      BY DEF Rows, HouseRows
    <2>3. row' = [row EXCEPT !.houses = (@ \ {d}) \cup {new}, !.limit = @ + Bonus]
      <3>1. {[h EXCEPT !.st = "COMPLETE"] : h \in due} = {new}
        BY <2>1
      <3> QED
        BY <1>2, <2>1, <3>1 DEF TxCompleteBuilding, Wrote
    <2>4. /\ row'.houses = (row.houses \ {d}) \cup {new} /\ row'.era = row.era
          /\ row'.limit = row.limit + Bonus
          /\ row'.pop = row.pop /\ row'.units = row.units /\ row'.prod = row.prod /\ RowShape'
      BY <2>3 DEF Rows, RowShape
    <2>5. new \notin Done(row.houses) /\ Done(row'.houses) = Done(row.houses) \cup {new}
      BY <2>1, <2>2, <2>4 DEF Done, Rows, HouseRows
    <2>6. HouseRows'
      <3>1. IsFiniteSet(row'.houses)
        <4>1. IsFiniteSet(row.houses \ {d})
          BY FS_RemoveElement DEF Rows, HouseRows
        <4> HIDE DEF new
        <4> QED
          <5>1. IsFiniteSet((row.houses \ {d}) \cup {new})
            BY <4>1, FS_AddElement, Zenon
          <5> QED
            BY <2>4, <5>1
      <3> QED
        BY <2>1, <2>2, <2>4, <3>1 DEF Rows, HouseRows
    <2>7. Limit'
      <3>1. Cardinality(Done(row'.houses)) = Cardinality(Done(row.houses)) + 1
            /\ Cardinality(Done(row.houses)) \in Nat
        BY <2>5, DoneFinite, FS_AddElement DEF Rows, HouseRows
      <3>2. Bonus * Cardinality(Done(row'.houses)) = Bonus * Cardinality(Done(row.houses)) + Bonus
            /\ Bonus * Cardinality(Done(row.houses)) \in Nat
        BY <3>1, Times
      <3> QED
        BY <2>4, <3>2, CapType, ConstantsAssumption DEF Rows, Limit, Finished, Done, Cap
    <2> QED
      BY <2>4, <2>6, <2>7, SamePopulation DEF Rows
  <1> QED
    BY <1>1, <1>2

\* The bonus is taken only if the row that falls had it.
LEMMA DestroyKeeps ==
    ASSUME Rows, NEW j, row' = TxDestroyBuilding(j).row
    PROVE  Rows'
  <1> DEFINE hit == {h \in row.houses : h.id = j.id}
             had == \E h \in hit : h.st = "COMPLETE"
  <1>1. row' = [row EXCEPT !.houses = @ \ hit, !.limit = IF had THEN @ - Bonus ELSE @]
    BY DEF TxDestroyBuilding, Wrote
  <1>2. /\ row'.houses = row.houses \ hit /\ row'.era = row.era
        /\ row'.limit = (IF had THEN row.limit - Bonus ELSE row.limit)
        /\ row'.pop = row.pop /\ row'.units = row.units /\ row'.prod = row.prod /\ RowShape'
    BY <1>1 DEF Rows, RowShape
  <1>3. HouseRows'
    BY <1>2, FS_Subset DEF Rows, HouseRows
  <1>4. CASE ~had
    <2>1. Done(row'.houses) = Done(row.houses)
      BY <1>2, <1>4 DEF Done
    <2> QED
      BY <1>2, <1>3, <1>4, <2>1, SamePopulation DEF Rows, Limit, Finished, Done, Cap
  <1>5. CASE had
    <2>1. PICK h \in row.houses : hit = {h} /\ h.st = "COMPLETE"
      BY <1>5 DEF Rows, HouseRows
    <2>2. h \in Done(row.houses) /\ Done(row'.houses) = Done(row.houses) \ {h}
      BY <1>2, <2>1 DEF Done
    <2>3. Cardinality(Done(row'.houses)) \in Nat
          /\ Cardinality(Done(row.houses)) = Cardinality(Done(row'.houses)) + 1
      <3>1. IsFiniteSet(Done(row.houses)) /\ Cardinality(Done(row.houses)) \in Nat
            /\ Cardinality(Done(row'.houses)) \in Nat
        BY <1>3, DoneFinite DEF Rows, HouseRows
      <3>2. Cardinality(Done(row'.houses)) = Cardinality(Done(row.houses)) - 1
        BY <2>2, <3>1, FS_RemoveElement
      <3> QED
        BY <3>1, <3>2
    <2>4. Bonus * Cardinality(Done(row.houses)) = Bonus * Cardinality(Done(row'.houses)) + Bonus
          /\ Bonus * Cardinality(Done(row'.houses)) \in Nat
      BY <2>3, Times
    <2>5. Limit'
      BY <1>2, <1>5, <2>4, CapType, ConstantsAssumption DEF Rows, Limit, Finished, Done, Cap
    <2> QED
      BY <1>2, <1>3, <2>5, SamePopulation DEF Rows
  <1> QED
    BY <1>4, <1>5

\* A birth turns the place of the training into a unit that was not there.
LEMMA BirthKeeps ==
    ASSUME Rows, NEW v, row' = TxBirthUnit(v).row,
           row.prod.born = NoId => row.prod.there /\ v \in Villager \ row.units
    PROVE  Rows'
  <1>1. CASE row.prod.born # NoId
    BY <1>1, SameRow DEF TxBirthUnit, Wrote
  <1>2. CASE row.prod.born = NoId
    <2>1. row' = [row EXCEPT !.prod.born = v, !.units = @ \cup {v}]
      BY <1>2 DEF TxBirthUnit, Wrote
    <2>2. /\ row'.houses = row.houses /\ row'.era = row.era /\ row'.limit = row.limit
          /\ row'.pop = row.pop /\ row'.units = row.units \cup {v}
          /\ row'.prod = [there |-> row.prod.there, req |-> row.prod.req, born |-> v] /\ RowShape'
      <3>1. PICK p : p = [row.prod EXCEPT !.born = v]
        OBVIOUS
      <3>2. p = [there |-> row.prod.there, req |-> row.prod.req, born |-> v] /\ p.there \in BOOLEAN
        BY <3>1 DEF Rows, RowShape
      <3>3. row' = [era |-> row.era, limit |-> row.limit, pop |-> row.pop, houses |-> row.houses,
                    prod |-> p, adv |-> row.adv, units |-> row.units \cup {v}]
        BY <2>1, <3>1 DEF Rows, RowShape
      <3>4. v \in Villager /\ row.units \subseteq Villager /\ row.era \in {"VILLAGE", "TOWN"}
        BY <1>2 DEF Rows, RowShape
      <3> QED
        BY <3>2, <3>3, <3>4 DEF RowShape
    <2>3. InProgress /\ ~InProgress'
      BY <1>2, <2>2, ConstantsAssumption DEF InProgress
    <2>4. Cardinality(row'.units) = Cardinality(row.units) + 1
      BY <1>2, <2>2, FiniteUnits, FS_AddElement DEF Rows
    <2>5. Population'
      BY <2>2, <2>3, <2>4, FiniteUnits DEF Rows, Population
    <2> QED
      BY <2>2, <2>5, SameHouses DEF Rows
  <1> QED
    BY <1>1, <1>2

LEMMA EraKeeps == ASSUME Rows, row' = TxCompleteAdvance.row PROVE Rows'
  <1>1. CASE row.era # "VILLAGE"
    BY <1>1, SameRow DEF TxCompleteAdvance, Wrote
  <1>2. CASE row.era = "VILLAGE"
    <2>1. row' = [row EXCEPT !.era = "TOWN", !.adv = NoId, !.limit = @ + TownCap - VillageCap]
      BY <1>2 DEF TxCompleteAdvance, Wrote
    <2>2. /\ row'.houses = row.houses /\ row'.era = "TOWN"
          /\ row'.limit = row.limit + TownCap - VillageCap
          /\ row'.pop = row.pop /\ row'.units = row.units /\ row'.prod = row.prod /\ RowShape'
      BY <2>1 DEF Rows, RowShape
    <2>3. Bonus * Cardinality(Done(row.houses)) \in Nat
      BY DoneFinite, Times DEF Rows, HouseRows
    <2>4. HouseRows' /\ Limit'
      BY <1>2, <2>2, <2>3, ConstantsAssumption DEF Rows, HouseRows, Limit, Finished, Done, Cap
    <2> QED
      BY <2>2, <2>4, SamePopulation DEF Rows
  <1> QED
    BY <1>1, <1>2

\* A death is counted once: a unit that is not in the rows is not counted.
LEMMA KillKeeps == ASSUME Rows, NEW v, row' = TxKill(v) PROVE Rows'
  <1>1. CASE v \notin row.units
    BY <1>1, SameRow DEF TxKill
  <1>2. CASE v \in row.units
    <2>1. Cardinality(row.units \ {v}) = Cardinality(row.units) - 1 /\ Cardinality(row.units) \in Nat
          /\ Cardinality(row.units) > 0
      <3>1. IsFiniteSet(row.units) /\ Cardinality(row.units) \in Nat
        BY FiniteUnits DEF Rows
      <3>2. Cardinality(row.units \ {v}) = Cardinality(row.units) - 1
        BY <1>2, <3>1, FS_RemoveElement
      <3>3. Cardinality(row.units) # 0
        BY <1>2, <3>1, FS_EmptySet
      <3> QED
        BY <3>1, <3>2, <3>3
    <2>2. row.pop > 0
      BY <2>1 DEF Rows, Population
    <2>3. row' = [row EXCEPT !.units = @ \ {v}, !.pop = @ - 1]
      BY <1>2, <2>2 DEF TxKill
    <2>4. /\ row'.houses = row.houses /\ row'.era = row.era /\ row'.limit = row.limit
          /\ row'.pop = row.pop - 1 /\ row'.units = row.units \ {v} /\ row'.prod = row.prod /\ RowShape'
      BY <2>3 DEF Rows, RowShape
    <2>5. Population'
      BY <2>1, <2>4 DEF Rows, Population, InProgress
    <2> QED
      BY <2>4, <2>5, SameHouses DEF Rows
  <1> QED
    BY <1>1, <1>2

LEMMA RunKeeps ==
    ASSUME Rows, NEW j, NEW afford \in BOOLEAN, Runnable(j), row' = Run(j, afford).row
    PROVE  Rows'
  <1> DEFINE v == CHOOSE x \in Newborn \cup {NoId} : Newborn # {} => x \in Newborn
  <1>1. CASE j.k = "Birth"
    <2>1. row' = TxBirthUnit(v).row
      BY <1>1 DEF Run
    <2>2. row.prod.born = NoId => row.prod.there /\ v \in Newborn
      BY <1>1 DEF Runnable
    <2>3. Newborn \subseteq Villager \ row.units
      BY DEF Newborn
    <2> QED
      BY <2>1, <2>2, <2>3, BirthKeeps
  <1>2. CASE j.k # "Birth"
    BY <1>2, BuildKeeps, TrainKeeps, AdvanceKeeps, CompleteKeeps, DestroyKeeps, EraKeeps DEF Run
  <1> QED
    BY <1>1, <1>2
-----------------------------------------------------------------------------
LEMMA RowsInit == Init => Rows
  <1> SUFFICES ASSUME Init PROVE Rows
    OBVIOUS
  <1>1. row = [era |-> "VILLAGE", limit |-> VillageCap, pop |-> Cardinality(Settlers),
               houses |-> {}, prod |-> NoRow, adv |-> NoId, units |-> Settlers]
    BY DEF Init
  <1>2. RowShape
    BY <1>1, ConstantsAssumption DEF RowShape, NoRow
  <1>3. HouseRows
    BY <1>1, FS_EmptySet DEF HouseRows
  <1>4. Finished = 0
    <2>1. {h \in row.houses : h.st = "COMPLETE"} = {}
      BY <1>1
    <2> QED
      BY <2>1, FS_EmptySet DEF Finished
  <1>5. Population
    BY <1>1, <1>2, FiniteUnits DEF Population, InProgress, NoRow
  <1>6. Limit
    BY <1>1, <1>4, ConstantsAssumption DEF Limit, Cap
  <1> QED
    BY <1>2, <1>3, <1>5, <1>6 DEF Rows

\* The load counts again: nothing moves.
LEMMA RestartKeeps == ASSUME Rows, Restart PROVE Rows'
  <1>1. /\ row'.houses = row.houses /\ row'.era = row.era /\ row'.units = row.units
        /\ row'.prod = row.prod /\ RowShape'
        /\ row'.limit = Cap(row.era) + Bonus * Finished
        /\ row'.pop = Cardinality(row.units) + (IF InProgress THEN 1 ELSE 0)
    BY DEF Rows, RowShape, Restart, Recovered
  <1> QED
    BY <1>1, SameHouses, SamePopulation DEF Rows, Population, Limit

LEMMA RowsStep == Rows /\ [Next]_vars => Rows'
  <1> SUFFICES ASSUME Rows, [Next]_vars PROVE Rows'
    OBVIOUS
  <1>1. ASSUME UNCHANGED row PROVE Rows'
    BY <1>1, SameRow
  <1>2. ASSUME NEW afford \in BOOLEAN, Commit(afford) PROVE Rows'
    BY <1>2, RunKeeps DEF Commit
  <1>3. CommitUnacked => Rows'
    BY RunKeeps DEF CommitUnacked
  <1>4. ASSUME NEW v \in Villager, DeathWorker(v) PROVE Rows'
    <2>1. row' = TxKill(v) \/ UNCHANGED row
      BY <1>4 DEF DeathWorker, CommitDeath, GiveUpDeath
    <2> QED
      BY <2>1, <1>1, KillKeeps
  <1>5. Restart => Rows'
    BY RestartKeeps
  <1>6. ASSUME \/ \E t \in Site : BuildBuilding(t) \/ DestroyHouse(t)
               \/ TrainUnit \/ AdvanceEra \/ Tick \/ FlushDirty \/ Handle \/ GiveUp
               \/ \E v \in Villager : Kill(v)
               \/ UNCHANGED vars
        PROVE  Rows'
    <2>1. UNCHANGED row
      BY <1>6 DEF BuildBuilding, DestroyHouse, TrainUnit, AdvanceEra, Tick, CompleteBuilding,
                  CompleteProduction, CompleteAdvance, FlushDirty, Handle, GiveUp, Kill, Becomes, vars
    <2> QED
      BY <2>1, <1>1
  <1> QED
    BY <1>2, <1>3, <1>4, <1>5, <1>6 DEF Next, Worker

\* In the database the population of a city is its living units and the place of
\* a training, and its limit is its era and its finished houses, after every
\* transaction, however often it is retried and in whatever order deaths, births,
\* completions and destructions arrive (INV-CITY-017, INV-ECON-004).
THEOREM CountsAddUp == Spec => []DatabaseAddsUp
  <1>1. Spec => []Rows
    BY RowsInit, RowsStep, PTL DEF Spec
  <1>2. Rows => DatabaseAddsUp
    BY DEF Rows, Population, Limit, DatabaseAddsUp
  <1> QED
    BY <1>1, <1>2, PTL

-----------------------------------------------------------------------------
(* The sites.  From here on, the jobs and the messages count too.           *)

BuildJobs == [k : {"Build"}, id : Nat \ {0}, site : Site]
DestroyJobs == [k : {"Destroy"}, id : Nat \ {0}, site : Site]
OtherJobs == [k : {"Train", "Advance", "Complete", "Birth", "EraEnd"}, id : Nat]
Jobs == BuildJobs \cup DestroyJobs \cup OtherJobs
Deaths == [k : {"Death"}, id : Villager]
Item == [job : Jobs, done : BOOLEAN]
Message == [job : Jobs \cup Deaths, ok : BOOLEAN, born : Villager \cup {NoId}]

CityShape ==
  city = [era |-> city.era, limit |-> city.limit, pop |-> city.pop, houses |-> city.houses,
          destroying |-> city.destroying, training |-> city.training, advance |-> city.advance, units |-> city.units,
          completions |-> city.completions, destructions |-> city.destructions, eraEnd |-> city.eraEnd, deaths |-> city.deaths]
House == {NoHouse} \cup [id : Nat \ {0}, st : {"ORDERED", "UNDER_CONSTRUCTION", "COMPLETE"}]
CityType ==
  /\ CityShape
  /\ city.houses \in [Site -> House] /\ city.destroying \in [Site -> Nat]
  /\ city.completions \subseteq Nat /\ IsFiniteSet(city.completions)
  /\ city.destructions \subseteq [id : Nat \ {0}, site : Site] /\ IsFiniteSet(city.destructions)
BaseType ==
  /\ Rows /\ row.prod.born \in Villager \cup {NoId}
  /\ \A h \in row.houses : h.id \in Nat \ {0} /\ h.site \in Site
QueueType == queue \in Seq(Item) /\ Len(queue) <= QueueSize
InboxType == inbox \in Seq(Message) /\ Len(inbox) <= InboxSize
Types == CityType /\ BaseType /\ QueueType /\ InboxType

Built(n) == \E h \in row.houses : h.id = n
Orders(x, n) == x.job.k = "Build" /\ x.job.id = n
Ruins(x) == x.job.k = "Destroy"

\* A house has its number.
Distinct == \A t, u \in Site : city.houses[t].id = city.houses[u].id /\ city.houses[t].id # NoId => t = u
\* A site has one house.
OneHouse == \A g, h \in row.houses : g.site = h.site => g = h
\* A site whose destruction is not written takes no house.
Ruined == \A t \in Site : city.destroying[t] # NoId => city.houses[t] = NoHouse
\* The loop waits for every order that is queued.
Awaited ==
  \A i \in DOMAIN queue : queue[i].job.k = "Build" =>
    city.houses[queue[i].job.site] = [id |-> queue[i].job.id, st |-> "ORDERED"]
\* An order is queued once, its answer comes after it, and it is written by its own
\* transaction only.
OrderedOnce ==
  /\ \A i, k \in DOMAIN queue : queue[i].job.k = "Build" /\ Orders(queue[k], queue[i].job.id) => i = k
  /\ \A m \in DOMAIN inbox : \A i \in DOMAIN queue :
       inbox[m].job.k = "Build" => ~Orders(queue[i], inbox[m].job.id)
  /\ \A i \in DOMAIN queue : queue[i].job.k = "Build" /\ ~queue[i].done => ~Built(queue[i].job.id)
\* A house that falls is not the loop's any more; once its end is confirmed, nor is it
\* in the rows.
Fallen ==
  /\ \A i \in DOMAIN queue : Ruins(queue[i]) => ~Standing(queue[i].job.id)
  /\ \A i \in DOMAIN inbox : Ruins(inbox[i]) => ~Standing(inbox[i].job.id) /\ (inbox[i].ok => ~Built(inbox[i].job.id))
  /\ \A d \in city.destructions : ~Standing(d.id)
\* An order that is said to have failed was not written, unless the loop could not know.
Answered == ~ghost => \A i \in DOMAIN inbox : inbox[i].job.k = "Build" /\ ~inbox[i].ok => ~Built(inbox[i].job.id)
\* A house of the rows is the loop's, standing or in ruins.
Knows(h) == city.houses[h.site].id = h.id \/ city.destroying[h.site] = h.id
Known == ~ghost => \A h \in row.houses : Knows(h)

Sites == Distinct /\ OneHouse /\ Ruined /\ Awaited /\ OrderedOnce /\ Fallen /\ Answered /\ Known
Inv == Types /\ Sites

-----------------------------------------------------------------------------
(* Fresh numbers.                                                           *)

LEMMA ImageFinite ==
    ASSUME NEW S, IsFiniteSet(S), NEW T, NEW f \in [S -> T], \A y \in T : \E x \in S : f[x] = y
    PROVE  IsFiniteSet(T)
  <1>1. f \in Surjection(S, T)
    BY DEF Surjection
  <1> QED
    BY <1>1, FS_Surjection

LEMMA FreshId ==
    ASSUME Types
    PROVE  /\ Fresh \in Nat \ {0}
           /\ \A t \in Site : city.houses[t].id # Fresh /\ city.destroying[t] # Fresh
           /\ \A d \in city.destructions : d.id # Fresh
           /\ \A i \in DOMAIN queue : queue[i].job.id # Fresh
           /\ \A i \in DOMAIN inbox : inbox[i].job.id # Fresh
           /\ ~Built(Fresh) /\ row.prod.req # Fresh /\ row.adv # Fresh
  <1> DEFINE A == {city.houses[t].id : t \in Site}
             B == {city.training.req, city.advance.req}
             C == {city.destroying[t] : t \in Site}
             D == {d.id : d \in city.destructions}
             E == {queue[i].job.id : i \in DOMAIN queue}
             F == {inbox[i].job.id : i \in DOMAIN inbox}
             G == {h.id : h \in row.houses}
             H == {row.prod.req, row.adv}
  <1>1. /\ IsFiniteSet(Site) /\ IsFiniteSet(city.destructions) /\ IsFiniteSet(row.houses)
        /\ IsFiniteSet(DOMAIN queue) /\ IsFiniteSet(DOMAIN inbox)
    <2>1. queue \in Seq(Item) /\ inbox \in Seq(Message)
      BY DEF Types, QueueType, InboxType
    <2>2. DOMAIN queue = 1..Len(queue) /\ Len(queue) \in Nat /\ DOMAIN inbox = 1..Len(inbox) /\ Len(inbox) \in Nat
      BY <2>1
    <2>3. IsFiniteSet(DOMAIN queue) /\ IsFiniteSet(DOMAIN inbox)
      BY <2>2, FS_Interval
    <2>4. IsFiniteSet(Site) /\ IsFiniteSet(city.destructions) /\ IsFiniteSet(row.houses)
      BY ConstantsAssumption DEF Types, CityType, BaseType, Rows, HouseRows
    <2> QED
      BY <2>3, <2>4
  <1>2. IsFiniteSet(A)
    <2> DEFINE f == [t \in Site |-> city.houses[t].id]
    <2>1. f \in [Site -> A] /\ \A y \in A : \E x \in Site : f[x] = y
      OBVIOUS
    <2> HIDE DEF f, A
    <2> QED
      BY <1>1, <2>1, ImageFinite
  <1>3. IsFiniteSet(C)
    <2> DEFINE f == [t \in Site |-> city.destroying[t]]
    <2>1. f \in [Site -> C] /\ \A y \in C : \E x \in Site : f[x] = y
      OBVIOUS
    <2> HIDE DEF f, C
    <2> QED
      BY <1>1, <2>1, ImageFinite
  <1>4. IsFiniteSet(D)
    <2> DEFINE f == [d \in city.destructions |-> d.id]
    <2>1. f \in [city.destructions -> D] /\ \A y \in D : \E x \in city.destructions : f[x] = y
      OBVIOUS
    <2> HIDE DEF f, D
    <2> QED
      BY <1>1, <2>1, ImageFinite
  <1>5. IsFiniteSet(E)
    <2> DEFINE f == [i \in DOMAIN queue |-> queue[i].job.id]
    <2>1. f \in [DOMAIN queue -> E] /\ \A y \in E : \E x \in DOMAIN queue : f[x] = y
      OBVIOUS
    <2> HIDE DEF f, E
    <2> QED
      BY <1>1, <2>1, ImageFinite
  <1>6. IsFiniteSet(F)
    <2> DEFINE f == [i \in DOMAIN inbox |-> inbox[i].job.id]
    <2>1. f \in [DOMAIN inbox -> F] /\ \A y \in F : \E x \in DOMAIN inbox : f[x] = y
      OBVIOUS
    <2> HIDE DEF f, F
    <2> QED
      BY <1>1, <2>1, ImageFinite
  <1>7. IsFiniteSet(G)
    <2> DEFINE f == [h \in row.houses |-> h.id]
    <2>1. f \in [row.houses -> G] /\ \A y \in G : \E x \in row.houses : f[x] = y
      OBVIOUS
    <2> HIDE DEF f, G
    <2> QED
      BY <1>1, <2>1, ImageFinite
  <1>8. IsFiniteSet(B) /\ IsFiniteSet(H)
    <2>1. \A x, y : IsFiniteSet({x, y})
      <3> SUFFICES ASSUME NEW x, NEW y PROVE IsFiniteSet({x, y})
        OBVIOUS
      <3>1. IsFiniteSet({x}) /\ IsFiniteSet({y})
        BY FS_Singleton
      <3>2. IsFiniteSet({x} \cup {y})
        BY <3>1, FS_Union
      <3>3. {x, y} = {x} \cup {y}
        OBVIOUS
      <3> QED
        BY <3>2, <3>3
    <2> QED
      BY <2>1
  <1>9. Used = A \cup B \cup C \cup D \cup E \cup F \cup G \cup H
    BY Zenon DEF Used
  <1>10. /\ \A t \in Site : city.houses[t].id \in A /\ city.destroying[t] \in C
         /\ \A d \in city.destructions : d.id \in D
         /\ \A i \in DOMAIN queue : queue[i].job.id \in E
         /\ \A i \in DOMAIN inbox : inbox[i].job.id \in F
         /\ \A h \in row.houses : h.id \in G
         /\ row.prod.req \in H /\ row.adv \in H
    OBVIOUS
  <1> HIDE DEF A, B, C, D, E, F, G, H
  <1>11. IsFiniteSet(Used)
    <2>1. IsFiniteSet(A \cup B)
      BY <1>2, <1>8, FS_Union
    <2>2. IsFiniteSet(A \cup B \cup C)
      BY <1>3, <2>1, FS_Union
    <2>3. IsFiniteSet(A \cup B \cup C \cup D)
      BY <1>4, <2>2, FS_Union
    <2>4. IsFiniteSet(A \cup B \cup C \cup D \cup E)
      BY <1>5, <2>3, FS_Union
    <2>5. IsFiniteSet(A \cup B \cup C \cup D \cup E \cup F)
      BY <1>6, <2>4, FS_Union
    <2>6. IsFiniteSet(A \cup B \cup C \cup D \cup E \cup F \cup G)
      BY <1>7, <2>5, FS_Union
    <2>7. IsFiniteSet(A \cup B \cup C \cup D \cup E \cup F \cup G \cup H)
      BY <1>8, <2>6, FS_Union
    <2> QED
      BY ONLY <1>9, <2>7
  <1>12. Cardinality(Used) \in Nat
    BY <1>11, FS_CardinalityType
  <1>13. \E n \in 1..(Cardinality(Used) + 1) : n \notin Used
    <2> SUFFICES ASSUME 1..(Cardinality(Used) + 1) \subseteq Used PROVE FALSE
      OBVIOUS
    <2>1. Cardinality(1..(Cardinality(Used) + 1)) = Cardinality(Used) + 1
      BY <1>12, FS_Interval
    <2>2. Cardinality(1..(Cardinality(Used) + 1)) <= Cardinality(Used)
      BY <1>11, FS_Subset
    <2> QED
      BY <1>12, <2>1, <2>2
  <1>14. Fresh \in 1..(Cardinality(Used) + 1) /\ Fresh \notin Used
    BY <1>13 DEF Fresh
  <1>15. \A n \in Nat : \A m \in 1..(n + 1) : m \in Nat \ {0}
    OBVIOUS
  <1>16. \A x \in A \cup B \cup C \cup D \cup E \cup F \cup G \cup H : x # Fresh
    BY <1>9, <1>14
  <1> QED
    BY <1>10, <1>12, <1>14, <1>15, <1>16 DEF Built

-----------------------------------------------------------------------------
(* Submitted jobs.                                                          *)

LEMMA Kinds ==
    ASSUME NEW j \in Jobs \cup Deaths
    PROVE  /\ j.k = "Build" => j \in BuildJobs
           /\ j.k = "Destroy" => j \in DestroyJobs
           /\ j.k = "Death" => j \in Deaths
           /\ j.k # "Death" => j \in Jobs
  BY DEF Jobs, BuildJobs, DestroyJobs, OtherJobs, Deaths

LEMMA Joined ==
    ASSUME NEW S, NEW a \in Seq(S), NEW n \in Nat, NEW f \in [1..n -> S]
    PROVE  /\ a \o f \in Seq(S) /\ Len(a \o f) = Len(a) + n
           /\ \A i \in 1..Len(a) : (a \o f)[i] = a[i]
           /\ \A i \in (Len(a) + 1)..(Len(a) + n) : i - Len(a) \in 1..n /\ (a \o f)[i] = f[i - Len(a)]
  <1>1. f \in Seq(S) /\ Len(f) = n
    OBVIOUS
  <1>2. /\ a \o f \in Seq(S) /\ Len(a \o f) = Len(a) + Len(f) /\ Len(a) \in Nat
        /\ \A i \in 1..(Len(a) + Len(f)) : (a \o f)[i] = IF i <= Len(a) THEN a[i] ELSE f[i - Len(a)]
    BY <1>1
  <1> QED
    BY <1>1, <1>2

\* Sequence b begins with a; what comes after is built from the jobs by F or by G.
Begins(a, b) == Len(a) <= Len(b) /\ \A i \in 1..Len(a) : b[i] = a[i]
Submitted(jobs, box) ==
  /\ Begins(queue, queue') /\ Begins(box, inbox')
  /\ \A i \in (Len(queue) + 1)..Len(queue') : \E n \in 1..Len(jobs) : queue'[i] = [job |-> jobs[n], done |-> FALSE]
  /\ \A i \in (Len(box) + 1)..Len(inbox') : \E n \in 1..Len(jobs) : inbox'[i] = Answer(jobs[n], FALSE, NoId)
  /\ (Len(queue') - Len(queue)) + (Len(inbox') - Len(box)) <= Len(jobs)

LEMMA Applied ==
    ASSUME QueueType, NEW c, NEW jobs \in Seq(Jobs), NEW box \in Seq(Message), Len(box) <= InboxSize, Becomes(c, box, jobs)
    PROVE  QueueType' /\ InboxType' /\ Submitted(jobs, box) /\ city' = c /\ UNCHANGED <<row, ghost>>
  <1>0. PICK q : q = queue
    OBVIOUS
  <1>1. PICK fit : fit = Least(Len(jobs), QueueSize - Len(q))
    OBVIOUS
  <1>2. PICK over : over = Len(jobs) - fit
    OBVIOUS
  <1>3. PICK told : told = Least(over, InboxSize - Len(box))
    OBVIOUS
  <1>4. q \in Seq(Item) /\ Len(q) \in Nat /\ Len(q) <= QueueSize
        /\ QueueSize \in Nat /\ InboxSize \in Nat /\ Len(jobs) \in Nat /\ Len(box) \in Nat
    BY <1>0, ConstantsAssumption DEF QueueType
  <1>5. fit \in Nat /\ fit <= Len(jobs) /\ fit <= QueueSize - Len(q) /\ over \in Nat
    BY <1>1, <1>2, <1>4 DEF Least
  <1>6. told \in Nat /\ told <= over /\ told <= InboxSize - Len(box)
    BY <1>3, <1>4, <1>5 DEF Least
  <1>7. PICK f : f = [i \in 1..fit |-> [job |-> jobs[i], done |-> FALSE]]
    OBVIOUS
  <1>8. PICK g : g = [i \in 1..told |-> Answer(jobs[fit + i], FALSE, NoId)]
    OBVIOUS
  <1>9. queue' = q \o f /\ inbox' = box \o g /\ city' = c /\ UNCHANGED <<row, ghost>>
    BY <1>0, <1>1, <1>2, <1>3, <1>7, <1>8 DEF Becomes
  <1>10. \A i \in 1..Len(jobs) : jobs[i] \in Jobs
    OBVIOUS
  <1>11. f \in [1..fit -> Item] /\ \A i \in 1..fit : i \in 1..Len(jobs) /\ f[i] = [job |-> jobs[i], done |-> FALSE]
    <2>1. \A i \in 1..fit : i \in 1..Len(jobs)
      BY <1>4, <1>5
    <2>2. \A i \in 1..fit : [job |-> jobs[i], done |-> FALSE] \in Item
      BY <1>10, <2>1 DEF Item
    <2> QED
      BY <1>7, <2>1, <2>2
  <1>12. g \in [1..told -> Message] /\ \A i \in 1..told : fit + i \in 1..Len(jobs) /\ g[i] = Answer(jobs[fit + i], FALSE, NoId)
    <2>1. \A i \in 1..told : fit + i \in 1..Len(jobs)
      BY <1>2, <1>4, <1>5, <1>6
    <2>2. \A i \in 1..told : Answer(jobs[fit + i], FALSE, NoId) \in Message
      BY <1>10, <2>1 DEF Answer, Message
    <2> QED
      BY <1>8, <2>1, <2>2
  <1>13. /\ q \o f \in Seq(Item) /\ Len(q \o f) = Len(q) + fit
         /\ \A i \in 1..Len(q) : (q \o f)[i] = q[i]
         /\ \A i \in (Len(q) + 1)..(Len(q) + fit) : i - Len(q) \in 1..fit /\ (q \o f)[i] = f[i - Len(q)]
    <2>1. q \in Seq(Item) /\ fit \in Nat /\ f \in [1..fit -> Item]
      BY <1>4, <1>5, <1>11
    <2>2. q \o f \in Seq(Item) /\ Len(q \o f) = Len(q) + fit
      BY ONLY <2>1, Joined
    <2>3. \A i \in 1..Len(q) : (q \o f)[i] = q[i]
      BY ONLY <2>1, Joined
    <2>4. \A i \in (Len(q) + 1)..(Len(q) + fit) : i - Len(q) \in 1..fit /\ (q \o f)[i] = f[i - Len(q)]
      BY ONLY <2>1, Joined
    <2> QED
      BY <2>2, <2>3, <2>4
  <1>14. /\ box \o g \in Seq(Message) /\ Len(box \o g) = Len(box) + told
         /\ \A i \in 1..Len(box) : (box \o g)[i] = box[i]
         /\ \A i \in (Len(box) + 1)..(Len(box) + told) : i - Len(box) \in 1..told /\ (box \o g)[i] = g[i - Len(box)]
    <2>1. box \in Seq(Message) /\ told \in Nat /\ g \in [1..told -> Message]
      BY <1>6, <1>12
    <2>2. box \o g \in Seq(Message) /\ Len(box \o g) = Len(box) + told
      BY ONLY <2>1, Joined
    <2>3. \A i \in 1..Len(box) : (box \o g)[i] = box[i]
      BY ONLY <2>1, Joined
    <2>4. \A i \in (Len(box) + 1)..(Len(box) + told) : i - Len(box) \in 1..told /\ (box \o g)[i] = g[i - Len(box)]
      BY ONLY <2>1, Joined
    <2> QED
      BY <2>2, <2>3, <2>4
  <1>15. QueueType' /\ InboxType'
    BY <1>4, <1>5, <1>6, <1>9, <1>13, <1>14 DEF QueueType, InboxType
  <1>16. /\ \A i \in (Len(q) + 1)..(Len(q) + fit) : \E n \in 1..Len(jobs) : (q \o f)[i] = [job |-> jobs[n], done |-> FALSE]
         /\ \A i \in (Len(box) + 1)..(Len(box) + told) : \E n \in 1..Len(jobs) : (box \o g)[i] = Answer(jobs[n], FALSE, NoId)
    <2>1. \A n \in 1..fit : \E k \in 1..Len(jobs) : f[n] = [job |-> jobs[k], done |-> FALSE]
      BY <1>11
    <2>2. \A n \in 1..told : \E k \in 1..Len(jobs) : g[n] = Answer(jobs[k], FALSE, NoId)
      BY <1>12
    <2>3. \A i \in (Len(q) + 1)..(Len(q) + fit) : \E n \in 1..fit : (q \o f)[i] = f[n]
      BY <1>13
    <2>4. \A i \in (Len(box) + 1)..(Len(box) + told) : \E n \in 1..told : (box \o g)[i] = g[n]
      BY <1>14
    <2>5. \A i \in (Len(q) + 1)..(Len(q) + fit) : \E n \in 1..Len(jobs) : (q \o f)[i] = [job |-> jobs[n], done |-> FALSE]
      <3> SUFFICES ASSUME NEW i \in (Len(q) + 1)..(Len(q) + fit) PROVE \E n \in 1..Len(jobs) : (q \o f)[i] = [job |-> jobs[n], done |-> FALSE]
        OBVIOUS
      <3>1. PICK n \in 1..fit : (q \o f)[i] = f[n]
        BY <2>3
      <3>2. PICK k \in 1..Len(jobs) : f[n] = [job |-> jobs[k], done |-> FALSE]
        BY <2>1
      <3> QED
        BY ONLY <3>1, <3>2, k \in 1..Len(jobs)
    <2>6. \A i \in (Len(box) + 1)..(Len(box) + told) : \E n \in 1..Len(jobs) : (box \o g)[i] = Answer(jobs[n], FALSE, NoId)
      <3> SUFFICES ASSUME NEW i \in (Len(box) + 1)..(Len(box) + told) PROVE \E n \in 1..Len(jobs) : (box \o g)[i] = Answer(jobs[n], FALSE, NoId)
        OBVIOUS
      <3>1. PICK n \in 1..told : (box \o g)[i] = g[n]
        BY <2>4
      <3>2. PICK k \in 1..Len(jobs) : g[n] = Answer(jobs[k], FALSE, NoId)
        BY <2>2
      <3> QED
        BY ONLY <3>1, <3>2, k \in 1..Len(jobs)
    <2> QED
      BY <2>5, <2>6
  <1>17. Begins(q, q \o f) /\ Begins(box, box \o g)
    BY <1>4, <1>5, <1>6, <1>13, <1>14 DEF Begins
  <1>18. (Len(q \o f) - Len(q)) + (Len(box \o g) - Len(box)) <= Len(jobs)
    BY <1>2, <1>4, <1>5, <1>6, <1>13, <1>14
  <1>19. Submitted(jobs, box)
    BY <1>0, <1>9, <1>13, <1>14, <1>16, <1>17, <1>18 DEF Submitted
  <1> QED
    BY <1>9, <1>15, <1>19

-----------------------------------------------------------------------------
(* Steps of the loop: the rows stay, and the city loses houses at most.     *)

\* The city' of a step whose city forgets no house the queue waits for.
Moves(jobs, box) ==
  /\ \A i \in 1..Len(box) : \E j \in DOMAIN inbox : box[i] = inbox[j]
  /\ \A n \in 1..Len(jobs) : jobs[n].k # "Build" /\ (jobs[n].k = "Destroy" => \A t \in Site : city'.houses[t].id # jobs[n].id)
  /\ \A t \in Site : city'.houses[t].id \in {city.houses[t].id, NoId}
  /\ \A i \in DOMAIN queue : queue[i].job.k = "Build" => city'.houses[queue[i].job.site] = city.houses[queue[i].job.site]
  /\ \A t \in Site : city'.destroying[t] # NoId => city'.houses[t] = NoHouse
  /\ \A d \in city'.destructions : d \in city.destructions \/ \A t \in Site : city'.houses[t].id # d.id
  /\ ~ghost => \A h \in row.houses : Knows(h) => city'.houses[h.site].id = h.id \/ city'.destroying[h.site] = h.id

LEMMA LoopKept ==
    ASSUME Types, Types', Sites, UNCHANGED <<row, ghost>>, NEW jobs, NEW box, Len(box) \in Nat, Len(jobs) \in Nat,
           Submitted(jobs, box), Moves(jobs, box)
    PROVE  Sites'
  <1>1. /\ queue \in Seq(Item) /\ queue' \in Seq(Item) /\ inbox \in Seq(Message) /\ inbox' \in Seq(Message)
    BY DEF Types, QueueType, InboxType
  <1>2. ASSUME NEW i \in DOMAIN queue'
        PROVE  \/ i \in DOMAIN queue /\ queue'[i] = queue[i]
               \/ \E n \in 1..Len(jobs) : queue'[i] = [job |-> jobs[n], done |-> FALSE]
    <2>1. i \in 1..Len(queue') /\ Len(queue) \in Nat /\ DOMAIN queue = 1..Len(queue)
      BY <1>1, <1>2
    <2>2. i \in 1..Len(queue) \/ i \in (Len(queue) + 1)..Len(queue')
      BY <1>1, <2>1
    <2> QED
      BY <2>1, <2>2 DEF Submitted, Begins
  <1>3. ASSUME NEW i \in DOMAIN inbox'
        PROVE  \/ \E j \in DOMAIN inbox : inbox'[i] = inbox[j]
               \/ \E n \in 1..Len(jobs) : inbox'[i] = Answer(jobs[n], FALSE, NoId)
    <2>1. i \in 1..Len(inbox')
      BY <1>1, <1>3
    <2>2. i \in 1..Len(box) \/ i \in (Len(box) + 1)..Len(inbox')
      BY <1>1, <2>1
    <2>3. CASE i \in 1..Len(box)
      <3>1. inbox'[i] = box[i]
        BY <2>3 DEF Submitted, Begins
      <3>2. \E j \in DOMAIN inbox : box[i] = inbox[j]
        BY <2>3 DEF Moves
      <3> QED
        BY <3>1, <3>2
    <2>4. CASE i \in (Len(box) + 1)..Len(inbox')
      BY <2>4 DEF Submitted
    <2> QED
      BY <2>2, <2>3, <2>4
  <1>4. \A n \in 1..Len(jobs) : jobs[n].k # "Build" /\ (jobs[n].k = "Destroy" => \A t \in Site : city'.houses[t].id # jobs[n].id)
    BY DEF Moves
  <1>5. \A i \in DOMAIN queue' : queue'[i].job.k = "Build" => i \in DOMAIN queue /\ queue'[i] = queue[i]
    BY <1>2, <1>4
  <1>6. \A i \in DOMAIN inbox' : inbox'[i].job.k = "Build" => \E j \in DOMAIN inbox : inbox'[i] = inbox[j]
    BY <1>3, <1>4 DEF Answer
  <1>7. ASSUME NEW n, n # NoId, ~Standing(n) PROVE \A t \in Site : city'.houses[t].id # n
    BY <1>7 DEF Moves, Standing
  <1>8. Distinct'
    BY DEF Distinct, Moves, Sites
  <1>9. OneHouse' /\ Ruined'
    BY DEF OneHouse, Ruined, Moves, Sites
  <1>10. Awaited'
    BY <1>5 DEF Awaited, Moves, Sites
  <1>11. OrderedOnce'
    <2>1. \A i, k \in DOMAIN queue' : queue'[i].job.k = "Build" /\ Orders(queue'[k], queue'[i].job.id) => i = k
      BY <1>5 DEF OrderedOnce, Sites, Orders
    <2>2. \A m \in DOMAIN inbox' : \A i \in DOMAIN queue' : inbox'[m].job.k = "Build" => ~Orders(queue'[i], inbox'[m].job.id)
      BY <1>5, <1>6 DEF OrderedOnce, Sites, Orders
    <2>3. \A i \in DOMAIN queue' : queue'[i].job.k = "Build" /\ ~queue'[i].done => \A h \in row'.houses : h.id # queue'[i].job.id
      BY <1>5 DEF OrderedOnce, Sites, Built
    <2> QED
      BY <2>1, <2>2, <2>3 DEF OrderedOnce, Built
  <1>12. Fallen'
    <2>1. ASSUME NEW i \in DOMAIN queue', Ruins(queue'[i]) PROVE \A t \in Site : city'.houses[t].id # queue'[i].job.id
      <3>1. PICK j : j = queue'[i].job
        OBVIOUS
      <3>2. j \in Jobs /\ j.k = "Destroy"
        <4>1. queue'[i] \in Item
          BY <1>1
        <4> QED
          BY <2>1, <3>1, <4>1 DEF Ruins, Item
      <3>3. j.id # NoId
        BY <3>2, Kinds DEF DestroyJobs, NoId
      <3>4. CASE i \in DOMAIN queue /\ queue'[i] = queue[i]
        <4>1. ~Standing(j.id)
          BY <2>1, <3>1, <3>4 DEF Fallen, Sites, Ruins
        <4> QED
          BY <1>7, <3>1, <3>3, <4>1
      <3>5. CASE \E n \in 1..Len(jobs) : queue'[i] = [job |-> jobs[n], done |-> FALSE]
        BY <1>4, <3>1, <3>2, <3>5
      <3> QED
        BY <1>2, <3>4, <3>5
    <2>2. ASSUME NEW i \in DOMAIN inbox', Ruins(inbox'[i])
          PROVE  (\A t \in Site : city'.houses[t].id # inbox'[i].job.id) /\ (inbox'[i].ok => \A h \in row'.houses : h.id # inbox'[i].job.id)
      <3>1. PICK m : m = inbox'[i]
        OBVIOUS
      <3>4. m.job \in Jobs \cup Deaths /\ m.job.k = "Destroy"
        <4>1. inbox'[i] \in Message
          BY <1>1
        <4> QED
          BY <2>2, <3>1, <4>1 DEF Ruins, Message
      <3>5. PICK n : n = m.job.id /\ n # NoId
        BY <3>4, Kinds DEF DestroyJobs, NoId
      <3>2. CASE \E j \in DOMAIN inbox : inbox'[i] = inbox[j]
        <4>1. ~Standing(n) /\ (m.ok => ~Built(n))
          BY <2>2, <3>1, <3>2, <3>5 DEF Fallen, Sites, Ruins
        <4>2. \A t \in Site : city'.houses[t].id # n
          BY <1>7, <3>5, <4>1
        <4> QED
          BY <3>1, <3>5, <4>1, <4>2 DEF Built
      <3>3. CASE \E p \in 1..Len(jobs) : inbox'[i] = Answer(jobs[p], FALSE, NoId)
        BY <1>4, <2>2, <3>3 DEF Ruins, Answer
      <3> QED
        BY <1>3, <3>2, <3>3
    <2>3. ASSUME NEW d \in city'.destructions PROVE \A t \in Site : city'.houses[t].id # d.id
      <3>1. d.id # NoId
        BY DEF Types, CityType, NoId
      <3> QED
        BY <1>7, <2>3, <3>1 DEF Fallen, Sites, Moves
    <2> QED
      BY <2>1, <2>2, <2>3 DEF Fallen, Standing, Built
  <1>13. Answered'
    BY <1>6 DEF Answered, Sites, Built
  <1>14. Known'
    BY DEF Known, Sites, Moves, Knows
  <1> QED
    BY <1>8, <1>9, <1>10, <1>11, <1>12, <1>13, <1>14 DEF Sites

LEMMA LoopStep ==
    ASSUME Inv, NEW c, NEW jobs \in Seq(Jobs), NEW box \in Seq(Message), Len(box) <= InboxSize, Becomes(c, box, jobs),
           CityType', Moves(jobs, box)
    PROVE  Inv'
  <1>1. QueueType' /\ InboxType' /\ Submitted(jobs, box) /\ UNCHANGED <<row, ghost>>
    BY Applied DEF Inv, Types
  <1>2. Types'
    BY <1>1, SameRow DEF Inv, Types, BaseType
  <1>3. Len(box) \in Nat /\ Len(jobs) \in Nat
    OBVIOUS
  <1> QED
    BY <1>1, <1>2, <1>3, LoopKept DEF Inv

\* A step that changes no house and no ruin.
LEMMA QuietStep ==
    ASSUME Inv, NEW c, NEW jobs \in Seq(Jobs), NEW box \in Seq(Message), Len(box) <= InboxSize, Becomes(c, box, jobs),
           CityType', city'.houses = city.houses, city'.destroying = city.destroying,
           \A i \in 1..Len(box) : \E j \in DOMAIN inbox : box[i] = inbox[j],
           \A d \in city'.destructions : d \in city.destructions \/ ~Standing(d.id),
           \A n \in 1..Len(jobs) : jobs[n].k # "Build" /\ (jobs[n].k = "Destroy" => ~Standing(jobs[n].id))
    PROVE  Inv'
  <1>1. Moves(jobs, box)
    BY DEF Moves, Standing, Knows, Inv, Sites, Ruined
  <1> QED
    BY <1>1, LoopStep

LEMMA OneJob ==
    ASSUME NEW j \in Jobs PROVE <<j>> \in Seq(Jobs) /\ Len(<<j>>) = 1 /\ \A n \in 1..Len(<<j>>) : <<j>>[n] = j
  OBVIOUS

LEMMA OwnBox == Inv => inbox \in Seq(Message) /\ Len(inbox) <= InboxSize /\ \A i \in 1..Len(inbox) : \E j \in DOMAIN inbox : inbox[i] = inbox[j]
  BY DEF Inv, Types, InboxType

\* Nothing of the four fields the sites look at changes.
Elsewhere ==
  /\ CityShape'
  /\ city'.houses = city.houses /\ city'.destroying = city.destroying
  /\ city'.completions = city.completions /\ city'.destructions = city.destructions

LEMMA ElsewhereStep ==
    ASSUME Inv, NEW c, NEW jobs \in Seq(Jobs), NEW box \in Seq(Message), Len(box) <= InboxSize, Becomes(c, box, jobs), Elsewhere,
           \A i \in 1..Len(box) : \E j \in DOMAIN inbox : box[i] = inbox[j],
           \A n \in 1..Len(jobs) : jobs[n].k \notin {"Build", "Destroy"}
    PROVE  Inv'
  <1>1. CityType'
    BY DEF Elsewhere, CityType, Inv, Types
  <1> QED
    BY <1>1, QuietStep DEF Elsewhere

LEMMA TrainUnitStep == Inv /\ TrainUnit => Inv'
  <1> SUFFICES ASSUME Inv, TrainUnit PROVE Inv'
    OBVIOUS
  <1>1. PICK c : c = [city EXCEPT !.pop = @ + 1, !.training = [req |-> Fresh, st |-> "ORDERED"]]
    OBVIOUS
  <1>2. PICK j : j = Train(Fresh)
    OBVIOUS
  <1>3. Becomes(c, inbox, <<j>>)
    BY <1>1, <1>2 DEF TrainUnit
  <1>4. j \in Jobs /\ j.k = "Train"
    BY <1>2, FreshId DEF Train, Jobs, OtherJobs, Inv
  <1>5. Elsewhere
    BY <1>1, <1>3 DEF Elsewhere, Becomes, CityShape, Inv, Types, CityType
  <1> QED
    BY <1>3, <1>4, <1>5, OneJob, OwnBox, ElsewhereStep

LEMMA AdvanceEraStep == Inv /\ AdvanceEra => Inv'
  <1> SUFFICES ASSUME Inv, AdvanceEra PROVE Inv'
    OBVIOUS
  <1>1. PICK c : c = [city EXCEPT !.advance = [req |-> Fresh, st |-> "ORDERED"]]
    OBVIOUS
  <1>2. PICK j : j = Advance(Fresh)
    OBVIOUS
  <1>3. Becomes(c, inbox, <<j>>)
    BY <1>1, <1>2 DEF AdvanceEra
  <1>4. j \in Jobs /\ j.k = "Advance"
    BY <1>2, FreshId DEF Advance, Jobs, OtherJobs, Inv
  <1>5. Elsewhere
    BY <1>1, <1>3 DEF Elsewhere, Becomes, CityShape, Inv, Types, CityType
  <1> QED
    BY <1>3, <1>4, <1>5, OneJob, OwnBox, ElsewhereStep

LEMMA CompleteProductionStep == Inv /\ CompleteProduction => Inv'
  <1> SUFFICES ASSUME Inv, CompleteProduction PROVE Inv'
    OBVIOUS
  <1>1. PICK c : c = [city EXCEPT !.training.st = "BIRTHING"]
    OBVIOUS
  <1>2. PICK j : j = Birth
    OBVIOUS
  <1>3. Becomes(c, inbox, <<j>>)
    BY <1>1, <1>2 DEF CompleteProduction
  <1>4. j \in Jobs /\ j.k = "Birth"
    BY <1>2 DEF Birth, Jobs, OtherJobs, NoId
  <1>5. Elsewhere
    BY <1>1, <1>3 DEF Elsewhere, Becomes, CityShape, Inv, Types, CityType
  <1> QED
    BY <1>3, <1>4, <1>5, OneJob, OwnBox, ElsewhereStep

LEMMA CompleteAdvanceStep == Inv /\ CompleteAdvance => Inv'
  <1> SUFFICES ASSUME Inv, CompleteAdvance PROVE Inv'
    OBVIOUS
  <1>1. CASE city.era = "VILLAGE"
    <2>1. PICK c : c = [city EXCEPT !.advance = NoWork, !.era = "TOWN", !.limit = @ + TownCap - VillageCap]
      OBVIOUS
    <2>2. PICK j : j = EraEnd
      OBVIOUS
    <2>3. Becomes(c, inbox, <<j>>)
      BY <1>1, <2>1, <2>2 DEF CompleteAdvance
    <2>4. j \in Jobs /\ j.k = "EraEnd"
      BY <2>2 DEF EraEnd, Jobs, OtherJobs, NoId
    <2>5. Elsewhere
      BY <2>1, <2>3 DEF Elsewhere, Becomes, CityShape, Inv, Types, CityType
    <2> QED
      BY <2>3, <2>4, <2>5, OneJob, OwnBox, ElsewhereStep
  <1>2. CASE city.era # "VILLAGE"
    <2>1. PICK c : c = [city EXCEPT !.advance = NoWork]
      OBVIOUS
    <2>2. PICK jobs : jobs = <<>>
      OBVIOUS
    <2>3. Becomes(c, inbox, jobs)
      BY <1>2, <2>1, <2>2 DEF CompleteAdvance
    <2>4. jobs \in Seq(Jobs) /\ \A n \in 1..Len(jobs) : jobs[n].k \notin {"Build", "Destroy"}
      BY <2>2
    <2>5. Elsewhere
      BY <2>1, <2>3 DEF Elsewhere, Becomes, CityShape, Inv, Types, CityType
    <2> QED
      BY <2>3, <2>4, <2>5, OwnBox, ElsewhereStep
  <1> QED
    BY <1>1, <1>2

LEMMA OrderedSite ==
    ASSUME Inv, NEW i \in DOMAIN queue, queue[i].job.k = "Build"
    PROVE  /\ queue[i].job.site \in Site /\ queue[i].job.id \in Nat \ {0}
           /\ city.houses[queue[i].job.site].st = "ORDERED" /\ city.houses[queue[i].job.site].id = queue[i].job.id
  <1>1. PICK x : x = queue[i].job
    OBVIOUS
  <1>2. queue[i] \in Item
    BY DEF Inv, Types, QueueType
  <1>3. x \in Jobs /\ x.k = "Build"
    BY <1>1, <1>2 DEF Item
  <1>4. x.site \in Site /\ x.id \in Nat \ {0}
    BY <1>3, Kinds DEF BuildJobs
  <1>5. city.houses[x.site] = [id |-> x.id, st |-> "ORDERED"]
    BY <1>1 DEF Inv, Sites, Awaited
  <1> QED
    BY <1>1, <1>4, <1>5

\* A house keeps its number when it is finished.
LEMMA CompleteBuildingStep == ASSUME Inv, NEW t \in Site, CompleteBuilding(t) PROVE Inv'
  <1>1. PICK c : c = [city EXCEPT !.houses[t].st = "COMPLETE", !.limit = @ + Bonus]
    OBVIOUS
  <1>2. PICK j : j = Complete(city.houses[t].id)
    OBVIOUS
  <1>3. Becomes(c, inbox, <<j>>) /\ city.houses[t].st = "UNDER_CONSTRUCTION"
    BY <1>1, <1>2 DEF CompleteBuilding
  <1>4. PICK h : h = city.houses[t]
    OBVIOUS
  <1>5. /\ h \in House /\ h # NoHouse /\ h.id \in Nat \ {0} /\ h.st = "UNDER_CONSTRUCTION"
        /\ city.destroying[t] = NoId
    BY <1>3, <1>4 DEF Inv, Types, CityType, House, NoHouse, Sites, Ruined
  <1>6. j \in Jobs /\ j.k = "Complete"
    BY <1>2, <1>4, <1>5 DEF Complete, Jobs, OtherJobs
  <1>7. /\ CityShape' /\ city'.destroying = city.destroying
        /\ city'.completions = city.completions /\ city'.destructions = city.destructions
        /\ city'.houses = [city.houses EXCEPT ![t].st = "COMPLETE"]
    BY <1>1, <1>3 DEF Becomes, CityShape, Inv, Types, CityType
  <1>8. PICK g : g = [id |-> h.id, st |-> "COMPLETE"]
    OBVIOUS
  <1>9. /\ city'.houses \in [Site -> House] /\ city'.houses[t] = g /\ g.id = h.id
        /\ \A u \in Site : u # t => city'.houses[u] = city.houses[u]
    <2>1. [h EXCEPT !.st = "COMPLETE"] = g /\ g \in House /\ g.id = h.id
      BY <1>5, <1>8 DEF House, NoHouse
    <2>2. city'.houses = [city.houses EXCEPT ![t] = g] /\ city.houses \in [Site -> House]
      BY <1>4, <1>7, <2>1 DEF Inv, Types, CityType
    <2> QED
      BY <2>1, <2>2
  <1>10. CityType'
    BY <1>7, <1>9 DEF CityType, Inv, Types
  <1>11. Moves(<<j>>, inbox)
    <2>1. \A i \in DOMAIN queue : queue[i].job.k = "Build" => queue[i].job.site \in Site /\ queue[i].job.site # t
      BY <1>4, <1>5, OrderedSite
    <2>2. \A u \in Site : city'.houses[u].id = city.houses[u].id
      BY <1>4, <1>9
    <2>3. \A u \in Site : city'.destroying[u] # NoId => city'.houses[u] = NoHouse
      BY <1>5, <1>7, <1>9 DEF Inv, Sites, Ruined
    <2>4. \A h2 \in row.houses : Knows(h2) => city'.houses[h2.site].id = h2.id \/ city'.destroying[h2.site] = h2.id
      BY <1>7, <2>2 DEF Knows, Inv, Types, BaseType
    <2> QED
      BY <1>6, <1>7, <1>9, <2>1, <2>2, <2>3, <2>4, OneJob, OwnBox DEF Moves
  <1> QED
    BY <1>3, <1>6, <1>10, <1>11, OneJob, OwnBox, LoopStep

\* A siege takes the house and keeps its number until its destruction is written.
LEMMA DestroyHouseStep == ASSUME Inv, NEW t \in Site, DestroyHouse(t) PROVE Inv'
  <1>1. PICK h : h = city.houses[t]
    OBVIOUS
  <1>2. PICK c : c = [city EXCEPT !.houses[t] = NoHouse, !.destroying[t] = h.id, !.completions = @ \ {h.id},
                                  !.limit = IF h.st = "COMPLETE" THEN @ - Bonus ELSE @]
    OBVIOUS
  <1>3. PICK j : j = Destroy(h.id, t)
    OBVIOUS
  <1>4. Becomes(c, inbox, <<j>>) /\ h.st \in {"UNDER_CONSTRUCTION", "COMPLETE"}
    BY <1>1, <1>2, <1>3 DEF DestroyHouse
  <1>5. h \in House /\ h # NoHouse /\ h.id \in Nat \ {0} /\ city.destroying[t] = NoId
    BY <1>1, <1>4 DEF Inv, Types, CityType, House, NoHouse, Sites, Ruined
  <1>6. j \in Jobs /\ j.k = "Destroy" /\ j.id = h.id
    BY <1>3, <1>5 DEF Destroy, Jobs, DestroyJobs
  <1>7. /\ CityShape' /\ city'.completions = city.completions \ {h.id} /\ city'.destructions = city.destructions
        /\ city'.houses = [city.houses EXCEPT ![t] = NoHouse]
        /\ city'.destroying = [city.destroying EXCEPT ![t] = h.id]
    BY <1>2, <1>4 DEF Becomes, CityShape, Inv, Types, CityType
  <1>8. /\ city'.houses \in [Site -> House] /\ city'.houses[t] = NoHouse /\ \A u \in Site : u # t => city'.houses[u] = city.houses[u]
        /\ city'.destroying \in [Site -> Nat] /\ city'.destroying[t] = h.id /\ \A u \in Site : u # t => city'.destroying[u] = city.destroying[u]
    BY <1>5, <1>7 DEF Inv, Types, CityType, House
  <1>9. CityType'
    <2>1. IsFiniteSet(city'.completions) /\ city'.completions \subseteq Nat
      BY <1>7, FS_Subset DEF Inv, Types, CityType
    <2> QED
      BY <1>7, <1>8, <2>1 DEF CityType, Inv, Types
  <1>10. Moves(<<j>>, inbox)
    <2>1. \A i \in DOMAIN queue : queue[i].job.k = "Build" => queue[i].job.site \in Site /\ queue[i].job.site # t
      BY <1>1, <1>4, OrderedSite
    <2>2. \A u \in Site : city'.houses[u].id \in {city.houses[u].id, NoId} /\ city'.houses[u].id # h.id
      BY <1>1, <1>5, <1>8 DEF Inv, Sites, Distinct, NoHouse, NoId
    <2>3. \A u \in Site : city'.destroying[u] # NoId => city'.houses[u] = NoHouse
      BY <1>8 DEF Inv, Sites, Ruined
    <2>4. ASSUME NEW g \in row.houses, Knows(g) PROVE city'.houses[g.site].id = g.id \/ city'.destroying[g.site] = g.id
      <3>1. g.site \in Site /\ g.id \in Nat \ {0}
        BY DEF Inv, Types, BaseType
      <3> QED
        BY <1>1, <1>5, <1>8, <2>4, <3>1 DEF Knows, NoId
    <2> QED
      BY <1>6, <1>7, <1>8, <2>1, <2>2, <2>3, <2>4, OneJob, OwnBox DEF Moves
  <1> QED
    BY <1>4, <1>6, <1>9, <1>10, OneJob, OwnBox, LoopStep

LEMMA SetToSeqJobs ==
    ASSUME NEW S, IsFiniteSet(S), NEW T, S \subseteq T
    PROVE  /\ SetToSeq(S) \in Seq(T)
           /\ \A i \in 1..Len(SetToSeq(S)) : SetToSeq(S)[i] \in S
  <1> DEFINE n == Cardinality(S)
  <1>1. n \in Nat /\ \E f \in [1..n -> S] : IsInjective(f)
    BY FS_CardinalityType DEF ExistsBijection, Bijection, Injection
  <1>2. SetToSeq(S) \in [1..n -> S]
    BY <1>1 DEF SetToSeq
  <1> HIDE DEF n
  <1>3. \A f \in [1..n -> S] : f \in Seq(T) /\ \A i \in 1..Len(f) : f[i] \in S
    BY <1>1
  <1> QED
    BY <1>2, <1>3

\* What is submitted again: completions, the end of an era, and the destructions that wait.
Flushed == {j \in Jobs : j.k # "Build" /\ (j.k = "Destroy" => ~Standing(j.id))}
LEMMA FlushJobsTyped == Inv => FlushJobs \in Seq(Flushed)
  <1> SUFFICES ASSUME Inv PROVE FlushJobs \in Seq(Flushed)
    OBVIOUS
  <1> DEFINE due == {x \in city.completions : Standing(x)}
             A == {Complete(n) : n \in due}
             D == {Destroy(d.id, d.site) : d \in city.destructions}
  <1>1. IsFiniteSet(A) /\ A \subseteq Flushed
    <2>1. IsFiniteSet(due) /\ due \subseteq Nat
      BY FS_Subset DEF Inv, Types, CityType
    <2>2. A \subseteq Flushed
      BY <2>1 DEF Complete, Flushed, Jobs, OtherJobs
    <2> DEFINE f == [n \in due |-> Complete(n)]
    <2>3. f \in [due -> A] /\ \A y \in A : \E x \in due : f[x] = y
      OBVIOUS
    <2> HIDE DEF f, A, due
    <2> QED
      BY <2>1, <2>2, <2>3, ImageFinite
  <1>2. IsFiniteSet(D) /\ D \subseteq Flushed
    <2>1. IsFiniteSet(city.destructions) /\ city.destructions \subseteq [id : Nat \ {0}, site : Site]
      BY DEF Inv, Types, CityType
    <2>2. D \subseteq Flushed
      <3> SUFFICES ASSUME NEW d \in city.destructions PROVE Destroy(d.id, d.site) \in Flushed
        OBVIOUS
      <3>1. ~Standing(d.id)
        BY DEF Inv, Sites, Fallen
      <3>2. Destroy(d.id, d.site) \in Jobs /\ Destroy(d.id, d.site).k = "Destroy" /\ Destroy(d.id, d.site).id = d.id
        BY <2>1 DEF Destroy, Jobs, DestroyJobs
      <3> QED
        BY <3>1, <3>2 DEF Flushed
    <2> DEFINE f == [d \in city.destructions |-> Destroy(d.id, d.site)]
    <2>3. f \in [city.destructions -> D] /\ \A y \in D : \E x \in city.destructions : f[x] = y
      OBVIOUS
    <2> HIDE DEF f, D
    <2> QED
      BY <2>1, <2>2, <2>3, ImageFinite
  <1> HIDE DEF A, D
  <1>3. SetToSeq(A) \in Seq(Flushed) /\ SetToSeq(D) \in Seq(Flushed)
    BY <1>1, <1>2, SetToSeqJobs
  <1>4. PICK e : e = IF city.eraEnd THEN <<EraEnd>> ELSE <<>>
    OBVIOUS
  <1>5. e \in Seq(Flushed)
    <2>1. EraEnd \in Flushed
      BY DEF EraEnd, Flushed, Jobs, OtherJobs, NoId
    <2>2. <<EraEnd>> \in Seq(Flushed) /\ <<>> \in Seq(Flushed)
      BY <2>1
    <2> QED
      BY <1>4, <2>2, Zenon
  <1>6. FlushJobs = SetToSeq(A) \o e \o SetToSeq(D)
    BY <1>4, Zenon DEF FlushJobs, A, D
  <1>7. \A a, b, d \in Seq(Flushed) : a \o b \o d \in Seq(Flushed)
    OBVIOUS
  <1> QED
    BY <1>3, <1>5, <1>6, <1>7

LEMMA FlushDirtyStep == Inv /\ FlushDirty => Inv'
  <1> SUFFICES ASSUME Inv, FlushDirty PROVE Inv'
    OBVIOUS
  <1>1. PICK c : c = [city EXCEPT !.completions = {}, !.eraEnd = FALSE, !.destructions = {}, !.deaths = {}]
    OBVIOUS
  <1>2. PICK jobs : jobs = FlushJobs
    OBVIOUS
  <1>3. Becomes(c, inbox, jobs)
    BY <1>1, <1>2 DEF FlushDirty
  <1>4. jobs \in Seq(Flushed)
    BY <1>2, FlushJobsTyped
  <1>5. jobs \in Seq(Jobs) /\ \A n \in 1..Len(jobs) : jobs[n].k # "Build" /\ (jobs[n].k = "Destroy" => ~Standing(jobs[n].id))
    <2>1. \A n \in 1..Len(jobs) : jobs[n] \in Flushed
      BY <1>4
    <2>2. Flushed \subseteq Jobs
      BY DEF Flushed
    <2>3. jobs \in Seq(Jobs)
      BY <1>4, <2>2
    <2> QED
      BY <2>1, <2>3 DEF Flushed
  <1>6. /\ CityShape' /\ city'.houses = city.houses /\ city'.destroying = city.destroying
        /\ city'.completions = {} /\ city'.destructions = {}
    BY <1>1, <1>3 DEF Becomes, CityShape, Inv, Types, CityType
  <1>7. CityType'
    BY <1>6, FS_EmptySet DEF CityType, Inv, Types
  <1>8. \A d \in city'.destructions : d \in city.destructions \/ ~Standing(d.id)
    BY <1>6
  <1> QED
    BY <1>3, <1>5, <1>6, <1>7, <1>8, OwnBox, QuietStep

\* The house of an order has a number nothing else has, on a site without a ruin.
LEMMA BuildBuildingStep == ASSUME Inv, NEW t \in Site, BuildBuilding(t) PROVE Inv'
  <1>1. PICK n : n = Fresh
    OBVIOUS
  <1>2. PICK g : g = [id |-> n, st |-> "ORDERED"]
    OBVIOUS
  <1>3. PICK c : c = [city EXCEPT !.houses[t] = g]
    OBVIOUS
  <1>4. PICK j : j = Build(n, t)
    OBVIOUS
  <1>5. Becomes(c, inbox, <<j>>) /\ city.houses[t] = NoHouse /\ city.destroying[t] = NoId
    BY <1>1, <1>2, <1>3, <1>4 DEF BuildBuilding, Occupied
  <1>6. Types
    BY DEF Inv
  <1>7. /\ n \in Nat \ {0} /\ ~Built(n)
        /\ \A u \in Site : city.houses[u].id # n /\ city.destroying[u] # n
        /\ \A d \in city.destructions : d.id # n
        /\ \A i \in DOMAIN queue : queue[i].job.id # n
        /\ \A i \in DOMAIN inbox : inbox[i].job.id # n
    BY <1>1, <1>6, FreshId
  <1>8. j \in Jobs /\ j.k = "Build" /\ j.id = n /\ j.site = t
    BY <1>4, <1>7 DEF Build, Jobs, BuildJobs
  <1>9. QueueType' /\ InboxType' /\ Submitted(<<j>>, inbox) /\ city' = c /\ UNCHANGED <<row, ghost>>
    <2>1. QueueType /\ <<j>> \in Seq(Jobs) /\ inbox \in Seq(Message) /\ Len(inbox) <= InboxSize
      BY <1>6, <1>8, OneJob DEF Types, InboxType
    <2> QED
      BY <1>5, <2>1, Applied
  <1>10. /\ CityShape' /\ city'.completions = city.completions /\ city'.destructions = city.destructions
         /\ city'.houses = [city.houses EXCEPT ![t] = g] /\ city'.destroying = city.destroying
    BY <1>3, <1>9 DEF CityShape, Inv, Types, CityType
  <1>11. city'.houses \in [Site -> House] /\ city'.houses[t] = g /\ \A u \in Site : u # t => city'.houses[u] = city.houses[u]
    <2>1. g \in House
      BY <1>2, <1>7 DEF House
    <2> QED
      BY <1>10, <2>1 DEF Inv, Types, CityType
  <1>12. Types'
    <2>1. CityType'
      BY <1>10, <1>11 DEF CityType, Inv, Types
    <2> QED
      BY <1>9, <2>1, SameRow DEF Inv, Types, BaseType
  <1>13. /\ Len(queue) \in Nat /\ Len(queue') \in Nat /\ Len(inbox) \in Nat /\ Len(inbox') \in Nat
         /\ DOMAIN queue = 1..Len(queue) /\ DOMAIN queue' = 1..Len(queue') /\ DOMAIN inbox = 1..Len(inbox) /\ DOMAIN inbox' = 1..Len(inbox')
    BY <1>6, <1>9 DEF Types, QueueType, InboxType
  <1>14. (Len(queue') - Len(queue)) + (Len(inbox') - Len(inbox)) <= 1 /\ Len(queue) <= Len(queue') /\ Len(inbox) <= Len(inbox')
    BY <1>8, <1>9, OneJob DEF Submitted, Begins
  <1>15. ASSUME NEW i \in DOMAIN queue'
         PROVE  \/ i \in DOMAIN queue /\ queue'[i] = queue[i]
                \/ i = Len(queue) + 1 /\ queue'[i] = [job |-> j, done |-> FALSE] /\ Len(inbox') = Len(inbox)
    <2>1. \A a, b, x, y, z \in Nat : (b - a) + (y - x) <= 1 /\ a <= b /\ x <= y /\ z \in (a + 1)..b => z = a + 1 /\ y = x
      OBVIOUS
    <2>2. i \in 1..Len(queue) \/ i \in (Len(queue) + 1)..Len(queue')
      BY <1>13
    <2>3. CASE i \in 1..Len(queue)
      BY <1>9, <1>13, <2>3 DEF Submitted, Begins
    <2>4. CASE i \in (Len(queue) + 1)..Len(queue')
      <3>1. queue'[i] = [job |-> j, done |-> FALSE]
        <4>1. PICK p \in 1..Len(<<j>>) : queue'[i] = [job |-> <<j>>[p], done |-> FALSE]
          BY <1>9, <2>4 DEF Submitted
        <4>2. <<j>>[p] = j
          BY <1>8, OneJob
        <4> QED
          BY <4>1, <4>2
      <3>2. PICK a \in Nat, b \in Nat, x \in Nat, y \in Nat : a = Len(queue) /\ b = Len(queue') /\ x = Len(inbox) /\ y = Len(inbox')
        BY <1>13
      <3>3. i \in Nat /\ (b - a) + (y - x) <= 1 /\ a <= b /\ x <= y /\ i \in (a + 1)..b
        BY <1>14, <2>4, <3>2
      <3>4. i = a + 1 /\ y = x
        BY ONLY <2>1, <3>2, <3>3
      <3> QED
        BY <3>1, <3>2, <3>4
    <2> QED
      BY <2>2, <2>3, <2>4
  <1>16. ASSUME NEW i \in DOMAIN inbox'
         PROVE  \/ i \in DOMAIN inbox /\ inbox'[i] = inbox[i]
                \/ inbox'[i] = Answer(j, FALSE, NoId) /\ Len(queue') = Len(queue) /\ Len(inbox') # Len(inbox)
    <2>1. \A a, b, x, y, z \in Nat : (b - a) + (y - x) <= 1 /\ a <= b /\ x <= y /\ z \in (x + 1)..y => a = b /\ x # y
      OBVIOUS
    <2>2. i \in 1..Len(inbox) \/ i \in (Len(inbox) + 1)..Len(inbox')
      BY <1>13
    <2>3. CASE i \in 1..Len(inbox)
      BY <1>9, <1>13, <2>3 DEF Submitted, Begins
    <2>4. CASE i \in (Len(inbox) + 1)..Len(inbox')
      <3>1. inbox'[i] = Answer(j, FALSE, NoId)
        <4>1. PICK p \in 1..Len(<<j>>) : inbox'[i] = Answer(<<j>>[p], FALSE, NoId)
          BY <1>9, <2>4 DEF Submitted
        <4>2. <<j>>[p] = j
          BY <1>8, OneJob
        <4> QED
          BY <4>1, <4>2
      <3>2. PICK a \in Nat, b \in Nat, x \in Nat, y \in Nat : a = Len(queue) /\ b = Len(queue') /\ x = Len(inbox) /\ y = Len(inbox')
        BY <1>13
      <3>3. i \in Nat /\ (b - a) + (y - x) <= 1 /\ a <= b /\ x <= y /\ i \in (x + 1)..y
        BY <1>14, <2>4, <3>2
      <3>4. a = b /\ x # y
        BY ONLY <2>1, <3>2, <3>3
      <3> QED
        BY <3>1, <3>2, <3>4
    <2> QED
      BY <2>2, <2>3, <2>4
  <1>17. \A m : ~Standing(m) /\ m # n => \A u \in Site : city'.houses[u].id # m
    BY <1>2, <1>11 DEF Standing
  <1>18. Distinct' /\ OneHouse' /\ Ruined'
    BY <1>2, <1>5, <1>7, <1>9, <1>10, <1>11 DEF Distinct, OneHouse, Ruined, Inv, Sites
  <1>19. Awaited'
    <2>1. ASSUME NEW i \in DOMAIN queue', queue'[i].job.k = "Build"
          PROVE  city'.houses[queue'[i].job.site] = [id |-> queue'[i].job.id, st |-> "ORDERED"]
      <3>1. CASE i \in DOMAIN queue /\ queue'[i] = queue[i]
        <4>1. queue[i].job.site \in Site /\ queue[i].job.site # t
          BY <1>5, <2>1, <3>1, OrderedSite DEF NoHouse
        <4> QED
          BY <1>11, <2>1, <3>1, <4>1 DEF Awaited, Inv, Sites
      <3>2. CASE queue'[i] = [job |-> j, done |-> FALSE]
        BY <1>2, <1>8, <1>11, <3>2
      <3> QED
        BY <1>15, <3>1, <3>2
    <2> QED
      BY <2>1 DEF Awaited
  <1>20. OrderedOnce'
    <2>1. \A i, k \in DOMAIN queue' : queue'[i].job.k = "Build" /\ Orders(queue'[k], queue'[i].job.id) => i = k
      BY <1>7, <1>8, <1>15 DEF OrderedOnce, Inv, Sites, Orders
    <2>2. ASSUME NEW m \in DOMAIN inbox', NEW i \in DOMAIN queue', inbox'[m].job.k = "Build", Orders(queue'[i], inbox'[m].job.id) PROVE FALSE
      <3>1. CASE inbox'[m] = Answer(j, FALSE, NoId) /\ Len(queue') = Len(queue) /\ Len(inbox') # Len(inbox)
        <4>1. i \in DOMAIN queue /\ queue'[i] = queue[i]
          BY <1>15, <3>1
        <4> QED
          BY <1>7, <1>8, <2>2, <3>1, <4>1 DEF Answer, Orders
      <3>2. CASE m \in DOMAIN inbox /\ inbox'[m] = inbox[m]
        BY <1>7, <1>8, <1>15, <2>2, <3>2 DEF OrderedOnce, Inv, Sites, Orders
      <3> QED
        BY <1>16, <3>1, <3>2
    <2>3. \A i \in DOMAIN queue' : queue'[i].job.k = "Build" /\ ~queue'[i].done => \A h \in row'.houses : h.id # queue'[i].job.id
      BY <1>7, <1>8, <1>9, <1>15 DEF OrderedOnce, Inv, Sites, Built
    <2> QED
      BY <2>1, <2>2, <2>3 DEF OrderedOnce, Built
  <1>21. Fallen'
    <2>1. ASSUME NEW i \in DOMAIN queue', Ruins(queue'[i]) PROVE \A u \in Site : city'.houses[u].id # queue'[i].job.id
      BY <1>7, <1>8, <1>15, <1>17, <2>1 DEF Fallen, Inv, Sites, Ruins
    <2>2. ASSUME NEW i \in DOMAIN inbox', Ruins(inbox'[i])
          PROVE  (\A u \in Site : city'.houses[u].id # inbox'[i].job.id) /\ (inbox'[i].ok => \A h \in row'.houses : h.id # inbox'[i].job.id)
      <3>1. i \in DOMAIN inbox /\ inbox'[i] = inbox[i]
        BY <1>8, <1>16, <2>2 DEF Ruins, Answer
      <3> QED
        BY <1>7, <1>9, <1>17, <2>2, <3>1 DEF Fallen, Inv, Sites, Ruins, Built
    <2>3. \A d \in city'.destructions : \A u \in Site : city'.houses[u].id # d.id
      BY <1>7, <1>10, <1>17 DEF Fallen, Inv, Sites
    <2> QED
      BY <2>1, <2>2, <2>3 DEF Fallen, Standing, Built
  <1>22. Answered'
    BY <1>7, <1>8, <1>9, <1>16 DEF Answered, Inv, Sites, Built, Answer
  <1>23. Known'
    <2>1. ASSUME NEW h \in row.houses, Knows(h) PROVE city'.houses[h.site].id = h.id \/ city'.destroying[h.site] = h.id
      <3>1. h.site \in Site /\ h.id # NoId
        BY DEF Inv, Types, BaseType, NoId
      <3> QED
        BY <1>5, <1>10, <1>11, <2>1, <3>1 DEF Knows, NoHouse
    <2>2. ghost' = ghost /\ row' = row
      BY <1>9
    <2>3. Known
      BY DEF Inv, Sites
    <2> QED
      BY <2>1, <2>2, <2>3 DEF Known, Knows
  <1> QED
    BY <1>12, <1>18, <1>19, <1>20, <1>21, <1>22, <1>23 DEF Inv, Sites

\* A death takes no house.
LEMMA KillStep == ASSUME Inv, NEW v \in Villager, Kill(v) PROVE Inv'
  <1>1. /\ CityShape' /\ city'.houses = city.houses /\ city'.destroying = city.destroying
        /\ city'.completions = city.completions /\ city'.destructions = city.destructions
        /\ UNCHANGED <<queue, inbox, row, ghost>>
    BY DEF Kill, CityShape, Inv, Types, CityType
  <1>2. Types'
    BY <1>1, SameRow DEF Inv, Types, CityType, BaseType, QueueType, InboxType
  <1>3. Sites'
    BY <1>1 DEF Inv, Sites, Distinct, OneHouse, Ruined, Awaited, OrderedOnce, Fallen, Answered, Known, Knows, Built, Standing, Orders, Ruins
  <1> QED
    BY <1>2, <1>3 DEF Inv

-----------------------------------------------------------------------------
(* Answers.                                                                 *)

LEMMA Shifted ==
    ASSUME NEW S, NEW a \in Seq(S), a # <<>>
    PROVE  /\ Tail(a) \in Seq(S) /\ Head(a) = a[1] /\ Head(a) \in S /\ 1 \in DOMAIN a
           /\ Len(a) \in Nat /\ Len(Tail(a)) <= Len(a)
           /\ DOMAIN Tail(a) = 1..Len(Tail(a))
           /\ \A i \in DOMAIN Tail(a) : i \in Nat /\ i # 0 /\ i + 1 \in DOMAIN a /\ Tail(a)[i] = a[i + 1]
  <1>1. PICK n \in Nat : n = Len(a) /\ DOMAIN a = 1..n /\ n # 0
    OBVIOUS
  <1>2. Tail(a) \in Seq(S) /\ Len(Tail(a)) = n - 1 /\ DOMAIN Tail(a) = 1..(n - 1)
    BY <1>1
  <1>3. \A i \in 1..(n - 1) : Tail(a)[i] = a[i + 1]
    BY <1>1
  <1>4. Head(a) = a[1] /\ Head(a) \in S
    OBVIOUS
  <1>5. \A i \in 1..(n - 1) : i \in Nat /\ i # 0 /\ i + 1 \in 1..n
    BY ONLY n \in Nat
  <1>6. 1 \in 1..n /\ n - 1 <= n
    BY ONLY <1>1, n \in Nat
  <1> QED
    BY <1>1, <1>2, <1>3, <1>4, <1>5, <1>6

\* The message at the head of the inbox, and the city it leaves.
Heads(m, box, c) ==
  /\ 1 \in DOMAIN inbox /\ inbox[1] = m /\ m \in Message
  /\ box \in Seq(Message) /\ Len(box) <= InboxSize
  /\ \A i \in 1..Len(box) : \E k \in DOMAIN inbox : box[i] = inbox[k]
  /\ c = Handled(m) /\ Becomes(c, box, <<>>)

LEMMA HandleHeads == Inv /\ Handle => \E m, box, c : Heads(m, box, c)
  <1> SUFFICES ASSUME Inv, Handle PROVE \E m, box, c : Heads(m, box, c)
    OBVIOUS
  <1>1. inbox \in Seq(Message) /\ inbox # <<>> /\ Len(inbox) <= InboxSize /\ InboxSize \in Nat
    BY ConstantsAssumption DEF Handle, Inv, Types, InboxType
  <1>2. PICK m : m = Head(inbox)
    OBVIOUS
  <1>3. PICK box : box = Tail(inbox)
    OBVIOUS
  <1>4. /\ box \in Seq(Message) /\ Len(inbox) \in Nat /\ Len(box) \in Nat /\ Len(box) <= Len(inbox)
        /\ \A i \in 1..Len(box) : \E k \in DOMAIN inbox : box[i] = inbox[k]
    <2>1. Tail(inbox) \in Seq(Message) /\ Len(inbox) \in Nat /\ Len(Tail(inbox)) <= Len(inbox)
      BY <1>1, Shifted
    <2>2. DOMAIN Tail(inbox) = 1..Len(Tail(inbox))
          /\ \A i \in DOMAIN Tail(inbox) : i \in Nat /\ i # 0 /\ i + 1 \in DOMAIN inbox /\ Tail(inbox)[i] = inbox[i + 1]
      BY <1>1, Shifted
    <2> QED
      BY <1>3, <2>1, <2>2
  <1>5. 1 \in DOMAIN inbox /\ inbox[1] = m /\ m \in Message
    BY <1>1, <1>2, Shifted
  <1>6. Becomes(Handled(m), box, <<>>)
    BY <1>2, <1>3 DEF Handle
  <1>7. Len(box) <= InboxSize
    BY <1>1, <1>4
  <1>8. Heads(m, box, Handled(m))
    BY <1>4, <1>5, <1>6, <1>7 DEF Heads
  <1> QED
    BY <1>8

LEMMA NoJobs == <<>> \in Seq(Jobs) /\ \A n \in 1..Len(<<>>) : FALSE
  OBVIOUS

LEMMA HandledElsewhere ==
    ASSUME Inv, NEW m, NEW box, NEW c, Heads(m, box, c), m.job.k \in {"Train", "Advance", "Birth", "EraEnd", "Death"}
    PROVE  Inv'
  <1>1. city' = c /\ Becomes(c, box, <<>>)
    BY DEF Heads, Becomes
  <1>2. CASE m.job.k = "Train"
    <2>1. c = HandleTrainResolved(m)
      BY <1>2 DEF Heads, Handled
    <2>2. Elsewhere
      BY <1>1, <2>1 DEF HandleTrainResolved, Elsewhere, CityShape, Inv, Types, CityType
    <2> QED
      BY <1>1, <2>2, NoJobs, ElsewhereStep DEF Heads
  <1>3. CASE m.job.k = "Advance"
    <2>1. c = HandleAdvanceResolved(m)
      BY <1>3 DEF Heads, Handled
    <2>2. Elsewhere
      BY <1>1, <2>1 DEF HandleAdvanceResolved, Elsewhere, CityShape, Inv, Types, CityType
    <2> QED
      BY <1>1, <2>2, NoJobs, ElsewhereStep DEF Heads
  <1>4. CASE m.job.k = "Birth"
    <2>1. c = HandleBirthResolved(m)
      BY <1>4 DEF Heads, Handled
    <2>2. Elsewhere
      BY <1>1, <2>1 DEF HandleBirthResolved, Elsewhere, CityShape, Inv, Types, CityType
    <2> QED
      BY <1>1, <2>2, NoJobs, ElsewhereStep DEF Heads
  <1>5. CASE m.job.k = "EraEnd"
    <2>1. c = [city EXCEPT !.eraEnd = TRUE]
      BY <1>5 DEF Heads, Handled
    <2>2. Elsewhere
      BY <1>1, <2>1 DEF Elsewhere, CityShape, Inv, Types, CityType
    <2> QED
      BY <1>1, <2>2, NoJobs, ElsewhereStep DEF Heads
  <1>6. CASE m.job.k = "Death"
    <2>1. c = HandleDeathPersistFailed(m)
      BY <1>6 DEF Heads, Handled
    <2>2. Elsewhere
      BY <1>1, <2>1 DEF HandleDeathPersistFailed, Elsewhere, CityShape, Inv, Types, CityType
    <2> QED
      BY <1>1, <2>2, NoJobs, ElsewhereStep DEF Heads
  <1> QED
    BY <1>2, <1>3, <1>4, <1>5, <1>6

\* The end of the order of a house: only the order that is awaited counts, and it is
\* not queued any more.
LEMMA HandledBuild ==
    ASSUME Inv, NEW m, NEW box, NEW c, Heads(m, box, c), m.job.k = "Build"
    PROVE  Inv'
  <1>1. PICK j : j = m.job
    OBVIOUS
  <1>2. PICK t : t = j.site
    OBVIOUS
  <1>3. city' = c /\ Becomes(c, box, <<>>) /\ c = HandleBuildResolved(m)
    BY DEF Heads, Becomes, Handled
  <1>4. j.id \in Nat \ {0} /\ t \in Site
    <2>1. j \in Jobs \cup Deaths /\ j.k = "Build"
      BY <1>1 DEF Heads, Message
    <2> QED
      BY <1>2, <2>1, Kinds DEF BuildJobs
  <1>5. CASE city.houses[t].st # "ORDERED" \/ city.houses[t].id # j.id
    <2>1. c = city
      BY <1>1, <1>2, <1>3, <1>5 DEF HandleBuildResolved
    <2>2. Elsewhere
      BY <1>3, <2>1 DEF Elsewhere, CityShape, Inv, Types, CityType
    <2> QED
      BY <1>3, <2>2, NoJobs, ElsewhereStep DEF Heads
  <1>6. CASE city.houses[t].st = "ORDERED" /\ city.houses[t].id = j.id
    <2>1. PICK g : g = IF m.ok THEN [id |-> j.id, st |-> "UNDER_CONSTRUCTION"] ELSE NoHouse
      OBVIOUS
    <2>2. c = [city EXCEPT !.houses[t] = g]
      BY <1>1, <1>2, <1>3, <1>6, <2>1, Zenon DEF HandleBuildResolved
    <2>3. g \in House /\ g.id \in {j.id, NoId} /\ (m.ok => g.id = j.id)
      <3>1. m.ok \in BOOLEAN
        BY DEF Heads, Message
      <3>2. CASE m.ok
        BY <1>4, <2>1, <3>2 DEF House
      <3>3. CASE ~m.ok
        BY <2>1, <3>3 DEF House, NoHouse
      <3> QED
        BY <3>2, <3>3
    <2>4. /\ CityShape' /\ city'.completions = city.completions /\ city'.destructions = city.destructions
          /\ city'.houses = [city.houses EXCEPT ![t] = g] /\ city'.destroying = city.destroying
      BY <1>3, <2>2 DEF CityShape, Inv, Types, CityType
    <2>5. city'.houses \in [Site -> House] /\ city'.houses[t] = g /\ \A u \in Site : u # t => city'.houses[u] = city.houses[u]
      BY <1>4, <2>3, <2>4 DEF Inv, Types, CityType
    <2>6. CityType'
      BY <2>4, <2>5 DEF CityType, Inv, Types
    <2>7. Moves(<<>>, box)
      <3>1. \A u \in Site : city'.houses[u].id \in {city.houses[u].id, NoId}
        BY <1>6, <2>3, <2>5
      <3>2. ASSUME NEW i \in DOMAIN queue, queue[i].job.k = "Build" PROVE city'.houses[queue[i].job.site] = city.houses[queue[i].job.site]
        <4>1. queue[i].job.site \in Site /\ city.houses[queue[i].job.site].id = queue[i].job.id
          BY <3>2, OrderedSite
        <4>2. queue[i].job.id # j.id
          BY <1>1, <3>2 DEF Inv, Sites, OrderedOnce, Orders, Heads
        <4> QED
          BY <1>6, <2>5, <4>1, <4>2
      <3>3. \A u \in Site : city'.destroying[u] # NoId => city'.houses[u] = NoHouse
        BY <1>4, <1>6, <2>4, <2>5 DEF Inv, Sites, Ruined, NoHouse, NoId
      <3>4. ASSUME ~ghost, NEW h \in row.houses, Knows(h) PROVE city'.houses[h.site].id = h.id \/ city'.destroying[h.site] = h.id
        <4>1. h.site \in Site
          BY DEF Inv, Types, BaseType
        <4>2. ~m.ok => h.id # j.id
          BY <1>1, <3>4 DEF Inv, Sites, Answered, Built, Heads
        <4>3. CASE h.site = t /\ city.houses[t].id = h.id
          BY <1>6, <2>3, <2>5, <4>2, <4>3
        <4>4. CASE h.site # t \/ city.houses[t].id # h.id
          BY <2>4, <2>5, <3>4, <4>1, <4>4 DEF Knows
        <4> QED
          BY <4>3, <4>4
      <3>5. /\ \A i \in 1..Len(box) : \E k \in DOMAIN inbox : box[i] = inbox[k]
            /\ \A d \in city'.destructions : d \in city.destructions
        BY <2>4 DEF Heads
      <3> QED
        BY <3>1, <3>2, <3>3, <3>4, <3>5, NoJobs DEF Moves
    <2> QED
      BY <1>3, <2>6, <2>7, NoJobs, LoopStep DEF Heads
  <1> QED
    BY <1>5, <1>6

LEMMA HandledComplete ==
    ASSUME Inv, NEW m, NEW box, NEW c, Heads(m, box, c), m.job.k = "Complete"
    PROVE  Inv'
  <1>1. city' = c /\ Becomes(c, box, <<>>) /\ c = HandleBuildingCompletePersistFailed(m)
    BY DEF Heads, Becomes, Handled
  <1>2. m.job.id \in Nat
    <2>1. PICK j : j = m.job
      OBVIOUS
    <2>2. j \in Jobs \cup Deaths /\ j.k = "Complete"
      BY <2>1 DEF Heads, Message
    <2>3. j.id \in Nat
      BY <2>2 DEF Jobs, BuildJobs, DestroyJobs, OtherJobs, Deaths
    <2> QED
      BY <2>1, <2>3
  <1>3. /\ CityShape' /\ city'.houses = city.houses /\ city'.destroying = city.destroying /\ city'.destructions = city.destructions
        /\ city'.completions \in {city.completions, city.completions \cup {m.job.id}}
    BY <1>1 DEF HandleBuildingCompletePersistFailed, CityShape, Inv, Types, CityType
  <1>4. CityType'
    <2>1. IsFiniteSet(city.completions) /\ city.completions \subseteq Nat
      BY DEF Inv, Types, CityType
    <2>2. IsFiniteSet(city.completions \cup {m.job.id}) /\ city.completions \cup {m.job.id} \subseteq Nat
      BY <1>2, <2>1, FS_AddElement
    <2>3. IsFiniteSet(city'.completions) /\ city'.completions \subseteq Nat
      BY <1>3, <2>1, <2>2
    <2> QED
      BY <1>3, <2>3 DEF CityType, Inv, Types
  <1>5. \A d \in city'.destructions : d \in city.destructions \/ ~Standing(d.id)
    BY <1>3
  <1> QED
    BY <1>1, <1>3, <1>4, <1>5, NoJobs, QuietStep DEF Heads

\* The end of a ruin: its number is nowhere any more.
LEMMA HandledDestroy ==
    ASSUME Inv, NEW m, NEW box, NEW c, Heads(m, box, c), m.job.k = "Destroy"
    PROVE  Inv'
  <1>1. PICK j : j = m.job
    OBVIOUS
  <1>2. PICK t : t = j.site
    OBVIOUS
  <1>3. city' = c /\ Becomes(c, box, <<>>)
    BY DEF Heads, Becomes
  <1>4. j.id \in Nat \ {0} /\ t \in Site
    <2>1. j \in Jobs \cup Deaths /\ j.k = "Destroy"
      BY <1>1 DEF Heads, Message
    <2> QED
      BY <1>2, <2>1, Kinds DEF DestroyJobs
  <1>5. ~Standing(j.id) /\ (m.ok => ~Built(j.id))
    BY <1>1 DEF Inv, Sites, Fallen, Ruins, Heads
  <1>6. m.ok \in BOOLEAN
    BY DEF Heads, Message
  <1>7. CASE m.ok
    <2>1. c = HandleBuildingDestroyResolved(m)
      BY <1>7 DEF Heads, Handled
    <2>2. PICK n : n = IF city.destroying[t] = j.id THEN NoId ELSE city.destroying[t]
      OBVIOUS
    <2>3. /\ CityShape' /\ city'.houses = city.houses /\ city'.completions = city.completions
          /\ city'.destructions = {d \in city.destructions : d.id # j.id}
          /\ city'.destroying = [city.destroying EXCEPT ![t] = n]
      BY <1>1, <1>2, <1>3, <1>4, <2>1, <2>2 DEF HandleBuildingDestroyResolved, CityShape, Inv, Types, CityType
    <2>4. n \in {NoId, city.destroying[t]} /\ (n # city.destroying[t] => city.destroying[t] = j.id) /\ n \in Nat
      BY <1>4, <2>2 DEF Inv, Types, CityType, NoId
    <2>5. city'.destroying \in [Site -> Nat] /\ city'.destroying[t] = n /\ \A u \in Site : u # t => city'.destroying[u] = city.destroying[u]
      BY <1>4, <2>3, <2>4 DEF Inv, Types, CityType
    <2>6. CityType'
      <3>1. IsFiniteSet(city.destructions) /\ city'.destructions \subseteq city.destructions
        BY <2>3 DEF Inv, Types, CityType
      <3>2. IsFiniteSet(city'.destructions)
        BY <3>1, FS_Subset
      <3> QED
        BY <2>3, <2>5, <3>1, <3>2 DEF CityType, Inv, Types
    <2>7. Moves(<<>>, box)
      <3>1. \A u \in Site : city'.houses[u] = city.houses[u]
        BY <2>3
      <3>2. \A i \in DOMAIN queue : city'.houses[queue[i].job.site] = city.houses[queue[i].job.site]
        BY <2>3
      <3>3. \A u \in Site : city'.destroying[u] # NoId => city'.houses[u] = NoHouse
        BY <2>4, <2>5, <3>1 DEF Inv, Sites, Ruined
      <3>4. ASSUME NEW h \in row.houses, Knows(h) PROVE city'.houses[h.site].id = h.id \/ city'.destroying[h.site] = h.id
        <4>1. h.site \in Site /\ h.id # j.id
          BY <1>5, <1>7 DEF Inv, Types, BaseType, Built
        <4> QED
          BY <2>3, <2>4, <2>5, <3>4, <4>1 DEF Knows
      <3>5. /\ \A i \in 1..Len(box) : \E k \in DOMAIN inbox : box[i] = inbox[k]
            /\ \A d \in city'.destructions : d \in city.destructions
        BY <2>3 DEF Heads
      <3> QED
        BY <3>1, <3>2, <3>3, <3>4, <3>5, NoJobs DEF Moves
    <2> QED
      BY <1>3, <2>6, <2>7, NoJobs, LoopStep DEF Heads
  <1>8. CASE ~m.ok
    <2>1. c = HandleBuildingDestroyPersistFailed(m)
      BY <1>8 DEF Heads, Handled
    <2>2. PICK d : d = [id |-> j.id, site |-> t]
      OBVIOUS
    <2>3. /\ CityShape' /\ city'.houses = city.houses /\ city'.destroying = city.destroying /\ city'.completions = city.completions
          /\ city'.destructions = city.destructions \cup {d}
      BY <1>1, <1>2, <1>3, <2>1, <2>2 DEF HandleBuildingDestroyPersistFailed, CityShape, Inv, Types, CityType
    <2>4. d \in [id : Nat \ {0}, site : Site] /\ d.id = j.id
      BY <1>4, <2>2
    <2>5. CityType'
      <3>1. IsFiniteSet(city.destructions) /\ city.destructions \subseteq [id : Nat \ {0}, site : Site]
        BY DEF Inv, Types, CityType
      <3>2. IsFiniteSet(city'.destructions) /\ city'.destructions \subseteq [id : Nat \ {0}, site : Site]
        BY <2>3, <2>4, <3>1, FS_AddElement
      <3> QED
        BY <2>3, <3>2 DEF CityType, Inv, Types
    <2>6. \A x \in city'.destructions : x \in city.destructions \/ ~Standing(x.id)
      BY <1>5, <2>3, <2>4
    <2> QED
      BY <1>3, <2>3, <2>5, <2>6, NoJobs, QuietStep DEF Heads
  <1> QED
    BY <1>6, <1>7, <1>8

LEMMA HandleStep == Inv /\ Handle => Inv'
  <1> SUFFICES ASSUME Inv, Handle PROVE Inv'
    OBVIOUS
  <1>1. PICK m, box, c : Heads(m, box, c)
    BY HandleHeads
  <1>2. m.job.k \in {"Build", "Complete", "Destroy", "Train", "Advance", "Birth", "EraEnd", "Death"}
    <2>1. PICK j : j = m.job
      OBVIOUS
    <2>2. j \in Jobs \cup Deaths
      BY <1>1, <2>1 DEF Heads, Message
    <2> QED
      BY <2>1, <2>2 DEF Jobs, BuildJobs, DestroyJobs, OtherJobs, Deaths
  <1> QED
    BY <1>1, <1>2, HandledElsewhere, HandledBuild, HandledComplete, HandledDestroy

-----------------------------------------------------------------------------
(* Transactions.                                                            *)

\* A transaction of j writes no house but its own.
Grows(j) ==
  \A h \in row'.houses : \/ \E g \in row.houses : g.id = h.id /\ g.site = h.site
                         \/ j.k = "Build" /\ h.id = j.id /\ h.site = j.site

\* What the transaction of j, answered by ok, leaves of the houses.
Leaves(j, ok) ==
  /\ Grows(j) /\ OneHouse' /\ BaseType'
  /\ j.k = "Build" /\ ~ok => \A h \in row'.houses : h.id # j.id
  /\ j.k = "Destroy" => \A h \in row'.houses : h.id # j.id

\* Without an order, a house has its twin in the rows before.
LEMMA Twins ==
    ASSUME BaseType, OneHouse, Rows', row'.prod.born \in Villager \cup {NoId}, NEW j,
           \A h \in row'.houses : \E g \in row.houses : g.id = h.id /\ g.site = h.site
    PROVE  Grows(j) /\ OneHouse' /\ BaseType'
  <1>1. Grows(j)
    BY DEF Grows
  <1>2. BaseType'
    BY DEF BaseType
  <1>3. OneHouse'
    BY DEF OneHouse, Rows, HouseRows
  <1> QED
    BY <1>1, <1>2, <1>3

LEMMA BuildLeaves ==
    ASSUME BaseType, OneHouse, NEW j \in BuildJobs, NEW afford \in BOOLEAN, row' = TxBuild(j, afford).row, Rows'
    PROVE  Leaves(j, TxBuild(j, afford).ok)
  <1>1. j.k = "Build" /\ j.id \in Nat \ {0} /\ j.site \in Site
    BY DEF BuildJobs
  <1>2. CASE row' = row /\ TxBuild(j, afford).ok
    BY <1>1, <1>2 DEF Leaves, Grows, BaseType, OneHouse
  <1>3. CASE row' = row /\ \A h \in row.houses : h.id # j.id
    BY <1>1, <1>3 DEF Leaves, Grows, BaseType, OneHouse
  <1>4. CASE /\ TxBuild(j, afford).ok /\ \A h \in row.houses : h.site # j.site
             /\ row' = [row EXCEPT !.houses = @ \cup {[id |-> j.id, site |-> j.site, st |-> "UNDER_CONSTRUCTION"]}]
    <2>1. PICK new : new = [id |-> j.id, site |-> j.site, st |-> "UNDER_CONSTRUCTION"]
      OBVIOUS
    <2>2. row'.houses = row.houses \cup {new} /\ row'.prod = row.prod /\ new.id = j.id /\ new.site = j.site
      BY <1>4, <2>1 DEF BaseType, Rows, RowShape
    <2>3. Grows(j) /\ OneHouse' /\ BaseType'
      BY <1>1, <1>4, <2>2 DEF Grows, OneHouse, BaseType
    <2> QED
      BY <1>1, <1>4, <2>3 DEF Leaves
  <1>5. \/ row' = row /\ TxBuild(j, afford).ok
        \/ row' = row /\ \A h \in row.houses : h.id # j.id
        \/ /\ TxBuild(j, afford).ok /\ \A h \in row.houses : h.site # j.site
           /\ row' = [row EXCEPT !.houses = @ \cup {[id |-> j.id, site |-> j.site, st |-> "UNDER_CONSTRUCTION"]}]
    BY DEF TxBuild, Wrote, Refused
  <1> QED
    BY <1>2, <1>3, <1>4, <1>5

LEMMA CompleteLeaves ==
    ASSUME BaseType, OneHouse, NEW j, j.k = "Complete", row' = TxCompleteBuilding(j).row, Rows', NEW ok
    PROVE  Leaves(j, ok)
  <1> DEFINE due == {h \in row.houses : h.id = j.id /\ h.st = "UNDER_CONSTRUCTION"}
  <1>1. \/ row' = row
        \/ row' = [row EXCEPT !.houses = (@ \ due) \cup {[h EXCEPT !.st = "COMPLETE"] : h \in due}, !.limit = @ + Bonus]
    BY DEF TxCompleteBuilding, Wrote
  <1>2. row'.prod = row.prod /\ row'.houses \in {row.houses, (row.houses \ due) \cup {[h EXCEPT !.st = "COMPLETE"] : h \in due}}
    BY <1>1 DEF BaseType, Rows, RowShape
  <1>3. \A h \in due : h \in row.houses /\ [h EXCEPT !.st = "COMPLETE"].id = h.id /\ [h EXCEPT !.st = "COMPLETE"].site = h.site
    BY DEF BaseType, Rows, HouseRows
  <1> DEFINE done == {[h EXCEPT !.st = "COMPLETE"] : h \in due}
  <1>6. ASSUME NEW h \in done PROVE \E g \in row.houses : g.id = h.id /\ g.site = h.site
    <2>1. PICK g \in due : h = [g EXCEPT !.st = "COMPLETE"]
      OBVIOUS
    <2>2. g \in row.houses /\ h.id = g.id /\ h.site = g.site
      BY <1>3, <2>1
    <2> QED
      BY <2>2
  <1>7. row'.houses \subseteq row.houses \cup done
    BY <1>2
  <1> HIDE DEF done, due
  <1>4. \A h \in row'.houses : \E g \in row.houses : g.id = h.id /\ g.site = h.site
    BY <1>6, <1>7
  <1>5. row'.prod.born \in Villager \cup {NoId}
    BY <1>2 DEF BaseType
  <1> QED
    BY <1>4, <1>5, Twins DEF Leaves

LEMMA DestroyLeaves ==
    ASSUME BaseType, OneHouse, NEW j, j.k = "Destroy", row' = TxDestroyBuilding(j).row, Rows', NEW ok
    PROVE  Leaves(j, ok)
  <1>1. row'.prod = row.prod /\ row'.houses = row.houses \ {h \in row.houses : h.id = j.id}
    BY DEF TxDestroyBuilding, Wrote, BaseType, Rows, RowShape
  <1>2. \A h \in row'.houses : h.id # j.id /\ \E g \in row.houses : g.id = h.id /\ g.site = h.site
    BY <1>1
  <1>3. row'.prod.born \in Villager \cup {NoId}
    BY <1>1 DEF BaseType
  <1> QED
    BY <1>2, <1>3, Twins DEF Leaves

LEMMA OtherLeaves ==
    ASSUME BaseType, OneHouse, NEW j, j.k \notin {"Build", "Destroy"}, row'.houses = row.houses,
           row'.prod.born \in Villager \cup {NoId}, Rows', NEW ok
    PROVE  Leaves(j, ok)
  <1>1. \A h \in row'.houses : \E g \in row.houses : g.id = h.id /\ g.site = h.site
    OBVIOUS
  <1> QED
    BY <1>1, Twins DEF Leaves

LEMMA RunLeaves ==
    ASSUME BaseType, OneHouse, NEW j \in Jobs, NEW afford \in BOOLEAN, Runnable(j), row' = Run(j, afford).row
    PROVE  Leaves(j, Run(j, afford).ok)
  <1>1. Rows'
    BY RunKeeps DEF BaseType
  <1>2. CASE j.k = "Build"
    <2>1. Run(j, afford) = TxBuild(j, afford)
      BY <1>2 DEF Run
    <2>2. j \in BuildJobs
      BY <1>2, Kinds
    <2> QED
      BY <1>1, <2>1, <2>2, BuildLeaves
  <1>3. CASE j.k = "Train"
    <2>1. row' = TxTrain(j, afford).row
      BY <1>3 DEF Run
    <2>2. row'.houses = row.houses /\ row'.prod.born \in Villager \cup {NoId}
      BY <2>1 DEF TxTrain, Wrote, Refused, BaseType, Rows, RowShape
    <2> QED
      BY <1>1, <1>3, <2>2, OtherLeaves
  <1>4. CASE j.k = "Advance"
    <2>1. row' = TxAdvance(j, afford).row
      BY <1>4 DEF Run
    <2>2. row'.houses = row.houses /\ row'.prod.born \in Villager \cup {NoId}
      BY <2>1 DEF TxAdvance, Wrote, Refused, BaseType, Rows, RowShape
    <2> QED
      BY <1>1, <1>4, <2>2, OtherLeaves
  <1>5. CASE j.k = "Complete"
    <2>1. row' = TxCompleteBuilding(j).row
      BY <1>5 DEF Run
    <2> QED
      BY <1>1, <1>5, <2>1, CompleteLeaves
  <1>6. CASE j.k = "Destroy"
    <2>1. row' = TxDestroyBuilding(j).row
      BY <1>6 DEF Run
    <2> QED
      BY <1>1, <1>6, <2>1, DestroyLeaves
  <1>7. CASE j.k = "Birth"
    <2>1. PICK v : v = CHOOSE x \in Newborn \cup {NoId} : Newborn # {} => x \in Newborn
      OBVIOUS
    <2>2. v \in Villager \cup {NoId}
      BY <2>1 DEF Newborn
    <2>3. row' = TxBirthUnit(v).row
      BY <1>7, <2>1 DEF Run
    <2>4. row'.houses = row.houses /\ row'.prod.born \in Villager \cup {NoId}
      BY <2>2, <2>3 DEF TxBirthUnit, Wrote, BaseType, Rows, RowShape
    <2> QED
      BY <1>1, <1>7, <2>4, OtherLeaves
  <1>8. CASE j.k = "EraEnd"
    <2>1. row' = TxCompleteAdvance.row
      BY <1>8 DEF Run
    <2>2. row'.houses = row.houses /\ row'.prod.born \in Villager \cup {NoId}
      BY <2>1 DEF TxCompleteAdvance, Wrote, BaseType, Rows, RowShape
    <2> QED
      BY <1>1, <1>8, <2>2, OtherLeaves
  <1> QED
    BY <1>2, <1>3, <1>4, <1>5, <1>6, <1>7, <1>8 DEF Jobs, BuildJobs, DestroyJobs, OtherJobs

\* The answer of a transaction is a message.
LEMMA RunAnswers ==
    ASSUME BaseType, NEW j \in Jobs, NEW afford \in BOOLEAN
    PROVE  Answer(j, Run(j, afford).ok, Run(j, afford).born) \in Message
  <1>1. PICK v : v = CHOOSE x \in Newborn \cup {NoId} : Newborn # {} => x \in Newborn
    OBVIOUS
  <1>2. v \in Villager \cup {NoId}
    BY <1>1 DEF Newborn
  <1>3. TxBirthUnit(v).ok \in BOOLEAN /\ TxBirthUnit(v).born \in Villager \cup {NoId}
    BY <1>2 DEF TxBirthUnit, Wrote, BaseType
  <1>4. \A r : Wrote(r).ok \in BOOLEAN /\ Wrote(r).born = NoId
    BY DEF Wrote
  <1>5. Refused.ok \in BOOLEAN /\ Refused.born = NoId
    BY DEF Refused
  <1>6. Run(j, afford).ok \in BOOLEAN /\ Run(j, afford).born \in Villager \cup {NoId}
    <2>1. CASE j.k = "Birth"
      BY <1>1, <1>3, <2>1 DEF Run
    <2>2. CASE j.k = "Build"
      BY <1>4, <1>5, <2>2 DEF Run, TxBuild
    <2>3. CASE j.k = "Train"
      BY <1>4, <1>5, <2>3 DEF Run, TxTrain
    <2>4. CASE j.k = "Advance"
      BY <1>4, <1>5, <2>4 DEF Run, TxAdvance
    <2>5. CASE j.k = "Complete"
      BY <1>4, <1>5, <2>5 DEF Run, TxCompleteBuilding
    <2>6. CASE j.k = "Destroy"
      BY <1>4, <1>5, <2>6 DEF Run, TxDestroyBuilding
    <2>7. CASE j.k \notin {"Build", "Train", "Advance", "Complete", "Destroy", "Birth"}
      BY <1>4, <1>5, <2>7 DEF Run, TxCompleteAdvance
    <2> QED
      BY <2>1, <2>2, <2>3, <2>4, <2>5, <2>6, <2>7
  <1> QED
    BY <1>6 DEF Answer, Message

-----------------------------------------------------------------------------
(* Workers: the city stays.                                                 *)

\* The worker runs job j at the head: the queue goes forward by s places, and m,
\* the answer to j, may join the inbox once j has left.
Works(j, m, s) ==
  /\ 1 \in DOMAIN queue /\ queue[1].job = j
  /\ \A i \in DOMAIN queue' : i \in Nat /\ i + s \in DOMAIN queue /\ queue'[i].job = queue[i + s].job
                               /\ (~queue'[i].done => ~queue[i + s].done /\ i + s # 1)
  /\ \A i \in DOMAIN inbox' : \/ i \in DOMAIN inbox /\ inbox'[i] = inbox[i]
                              \/ s = 1 /\ inbox'[i] = m
  /\ city' = city

LEMMA WorkerKept ==
    ASSUME Inv, NEW j, NEW m, NEW s \in {0, 1}, Works(j, m, s), Grows(j), OneHouse', m.job = j,
           ~ghost' => ~ghost,
           j.k = "Build" /\ ~m.ok /\ ~ghost' => \A h \in row'.houses : h.id # j.id,
           j.k = "Destroy" /\ m.ok => \A h \in row'.houses : h.id # j.id,
           s = 1 => \A i \in DOMAIN queue' : i + s # 1
    PROVE  Sites'
  <1>1. Distinct' /\ Ruined'
    BY DEF Works, Distinct, Ruined, Inv, Sites
  <1>2. Awaited'
    BY DEF Works, Awaited, Inv, Sites
  <1>3. j.k = "Build" => city.houses[j.site] = [id |-> j.id, st |-> "ORDERED"] /\ j.site \in Site /\ j.id \in Nat \ {0}
    <2>1. ASSUME j.k = "Build" PROVE j.site \in Site /\ j.id \in Nat \ {0}
      BY <2>1, OrderedSite DEF Works
    <2> QED
      BY <2>1 DEF Works, Awaited, Inv, Sites
  <1>4. \A n : ~Built(n) /\ ~(j.k = "Build" /\ n = j.id) => \A h \in row'.houses : h.id # n
    BY DEF Grows, Built
  <1>5. ASSUME NEW i \in DOMAIN queue', j.k = "Build", Orders(queue'[i], j.id) PROVE i + s = 1
    <2>1. i + s \in DOMAIN queue /\ Orders(queue[i + s], queue[1].job.id)
      BY <1>5 DEF Works, Orders
    <2>2. 1 \in DOMAIN queue /\ queue[1].job.k = "Build"
      BY <1>5 DEF Works
    <2> QED
      BY <2>1, <2>2 DEF Inv, Sites, OrderedOnce
  <1>6. OrderedOnce'
    <2>1. ASSUME NEW i \in DOMAIN queue', NEW k \in DOMAIN queue', queue'[i].job.k = "Build", Orders(queue'[k], queue'[i].job.id) PROVE i = k
      <3>1. i \in Nat /\ k \in Nat /\ i + s \in DOMAIN queue /\ k + s \in DOMAIN queue
            /\ queue[i + s].job.k = "Build" /\ Orders(queue[k + s], queue[i + s].job.id)
        BY <2>1 DEF Works, Orders
      <3>2. i + s = k + s
        BY <3>1 DEF Inv, Sites, OrderedOnce
      <3> QED
        BY <3>1, <3>2
    <2>2. ASSUME NEW n \in DOMAIN inbox', NEW i \in DOMAIN queue', inbox'[n].job.k = "Build", Orders(queue'[i], inbox'[n].job.id) PROVE FALSE
      <3>1. CASE n \in DOMAIN inbox /\ inbox'[n] = inbox[n]
        <4>1. i + s \in DOMAIN queue /\ Orders(queue[i + s], inbox[n].job.id)
          BY <2>2, <3>1 DEF Works, Orders
        <4> QED
          BY <2>2, <3>1, <4>1 DEF Inv, Sites, OrderedOnce
      <3>2. CASE s = 1 /\ inbox'[n] = m
        BY <1>5, <2>2, <3>2
      <3> QED
        BY <3>1, <3>2 DEF Works
    <2>3. ASSUME NEW i \in DOMAIN queue', queue'[i].job.k = "Build", ~queue'[i].done, NEW h \in row'.houses PROVE h.id # queue'[i].job.id
      <3>1. i + s \in DOMAIN queue /\ queue'[i].job = queue[i + s].job /\ ~queue[i + s].done /\ i + s # 1
        BY <2>3 DEF Works
      <3>2. ~Built(queue[i + s].job.id)
        BY <2>3, <3>1 DEF Inv, Sites, OrderedOnce
      <3>3. ~(j.k = "Build" /\ queue'[i].job.id = j.id)
        BY <1>5, <2>3, <3>1 DEF Orders
      <3> QED
        BY <1>4, <3>1, <3>2, <3>3
    <2> QED
      BY <2>1, <2>2, <2>3 DEF OrderedOnce, Built
  <1>7. Fallen'
    <2>1. \A i \in DOMAIN queue' : Ruins(queue'[i]) => \A t \in Site : city'.houses[t].id # queue'[i].job.id
      BY DEF Works, Ruins, Fallen, Standing, Inv, Sites
    <2>2. ASSUME NEW i \in DOMAIN inbox', Ruins(inbox'[i])
          PROVE  (\A t \in Site : city'.houses[t].id # inbox'[i].job.id) /\ (inbox'[i].ok => \A h \in row'.houses : h.id # inbox'[i].job.id)
      <3>1. CASE i \in DOMAIN inbox /\ inbox'[i] = inbox[i]
        <4>1. PICK n : n = inbox[i].job.id
          OBVIOUS
        <4>2. ~Standing(n) /\ (inbox[i].ok => ~Built(n))
          BY <2>2, <3>1, <4>1 DEF Inv, Sites, Fallen, Ruins
        <4>3. ~(j.k = "Build" /\ n = j.id)
          BY <1>3, <4>2 DEF Standing
        <4>4. inbox[i].ok => \A h \in row'.houses : h.id # n
          BY <1>4, <4>2, <4>3
        <4>5. \A t \in Site : city'.houses[t].id # n
          BY <4>2 DEF Standing, Works
        <4> QED
          BY <3>1, <4>1, <4>4, <4>5
      <3>2. CASE s = 1 /\ inbox'[i] = m
        <4>1. 1 \in DOMAIN queue /\ queue[1].job = j /\ j.k = "Destroy"
          BY <2>2, <3>2 DEF Works, Ruins
        <4>2. ~Standing(j.id)
          BY <4>1 DEF Inv, Sites, Fallen, Ruins
        <4>3. \A t \in Site : city'.houses[t].id # j.id
          BY <4>2 DEF Standing, Works
        <4> QED
          BY <3>2, <4>1, <4>3
      <3> QED
        BY <3>1, <3>2 DEF Works
    <2>3. \A d \in city'.destructions : \A t \in Site : city'.houses[t].id # d.id
      BY DEF Works, Fallen, Standing, Inv, Sites
    <2> QED
      BY <2>1, <2>2, <2>3 DEF Fallen, Standing, Built
  <1>8. Answered'
    <2>1. ASSUME ~ghost', NEW i \in DOMAIN inbox', inbox'[i].job.k = "Build", ~inbox'[i].ok, NEW h \in row'.houses PROVE h.id # inbox'[i].job.id
      <3>1. CASE i \in DOMAIN inbox /\ inbox'[i] = inbox[i]
        <4>1. ~Built(inbox[i].job.id)
          BY <2>1, <3>1 DEF Inv, Sites, Answered
        <4>2. ~(j.k = "Build" /\ inbox[i].job.id = j.id)
          <5>1. 1 \in DOMAIN queue /\ queue[1].job = j
            BY DEF Works
          <5> QED
            BY <2>1, <3>1, <5>1 DEF Inv, Sites, OrderedOnce, Orders
        <4> QED
          BY <1>4, <3>1, <4>1, <4>2
      <3>2. CASE inbox'[i] = m
        BY <2>1, <3>2
      <3> QED
        BY <3>1, <3>2 DEF Works
    <2> QED
      BY <2>1 DEF Answered, Built
  <1>9. Known'
    <2>1. ASSUME ~ghost', NEW h \in row'.houses PROVE city'.houses[h.site].id = h.id \/ city'.destroying[h.site] = h.id
      <3>1. CASE \E g \in row.houses : g.id = h.id /\ g.site = h.site
        BY <2>1, <3>1 DEF Inv, Sites, Known, Knows, Works
      <3>2. CASE j.k = "Build" /\ h.id = j.id /\ h.site = j.site
        BY <1>3, <3>2 DEF Works
      <3> QED
        BY <3>1, <3>2 DEF Grows
    <2> QED
      BY <2>1 DEF Known, Knows
  <1> QED
    BY <1>1, <1>2, <1>6, <1>7, <1>8, <1>9 DEF Sites

LEMMA Offered ==
    ASSUME InboxType, NEW m \in Message, inbox' = Offer(inbox, m)
    PROVE  InboxType' /\ \A i \in DOMAIN inbox' : (i \in DOMAIN inbox /\ inbox'[i] = inbox[i]) \/ inbox'[i] = m
  <1>1. CASE Len(inbox) < InboxSize
    <2>1. inbox' = Append(inbox, m) /\ inbox \in Seq(Message) /\ Len(inbox) \in Nat
      BY <1>1 DEF Offer, InboxType
    <2>2. inbox' \in Seq(Message) /\ Len(inbox') = Len(inbox) + 1
      BY <2>1
    <2>3. \A i \in DOMAIN inbox' : (i \in DOMAIN inbox /\ inbox'[i] = inbox[i]) \/ inbox'[i] = m
      BY <2>1
    <2> QED
      BY <1>1, <2>1, <2>2, <2>3, ConstantsAssumption DEF InboxType
  <1>2. CASE ~(Len(inbox) < InboxSize)
    BY <1>2 DEF Offer, InboxType
  <1> QED
    BY <1>1, <1>2

LEMMA HeadOf ==
    ASSUME Inv, queue # <<>>
    PROVE  /\ 1 \in DOMAIN queue /\ Head(queue) = queue[1] /\ Head(queue) \in Item /\ Head(queue).job \in Jobs
           /\ queue' = Tail(queue) => QueueType' /\ \A i \in DOMAIN queue' : i \in Nat /\ i # 0 /\ i + 1 \in DOMAIN queue /\ queue'[i] = queue[i + 1]
  <1>1. queue \in Seq(Item) /\ Len(queue) <= QueueSize /\ QueueSize \in Nat /\ Len(queue) \in Nat
    BY ConstantsAssumption DEF Inv, Types, QueueType
  <1>2. Head(queue) = queue[1] /\ Head(queue) \in Item /\ 1 \in DOMAIN queue
    BY <1>1, Shifted
  <1>3. Tail(queue) \in Seq(Item) /\ Len(Tail(queue)) <= Len(queue) /\ Len(Tail(queue)) \in Nat
    BY <1>1, Shifted
  <1>4. \A i \in DOMAIN Tail(queue) : i \in Nat /\ i # 0 /\ i + 1 \in DOMAIN queue /\ Tail(queue)[i] = queue[i + 1]
    BY <1>1, Shifted
  <1>5. ASSUME queue' = Tail(queue) PROVE QueueType' /\ \A i \in DOMAIN queue' : i \in Nat /\ i # 0 /\ i + 1 \in DOMAIN queue /\ queue'[i] = queue[i + 1]
    BY <1>1, <1>3, <1>4, <1>5 DEF QueueType
  <1>6. Head(queue).job \in Jobs
    BY <1>2 DEF Item
  <1> QED
    BY <1>2, <1>5, <1>6

\* The head left, with its answer or without one.
LEMMA Popped ==
    ASSUME Inv, queue # <<>>, queue' = Tail(queue), city' = city, NEW j, j = Head(queue).job, NEW m \in Message,
           inbox' = inbox \/ inbox' = Offer(inbox, m)
    PROVE  Works(j, m, 1) /\ QueueType' /\ InboxType' /\ (\A i \in DOMAIN queue' : i + 1 # 1)
  <1>1. 1 \in DOMAIN queue /\ queue[1].job = j
    BY HeadOf
  <1>2. QueueType' /\ \A i \in DOMAIN queue' : i \in Nat /\ i # 0 /\ i + 1 \in DOMAIN queue /\ queue'[i] = queue[i + 1]
    BY HeadOf
  <1>3. InboxType
    BY DEF Inv, Types
  <1>4. InboxType' /\ \A i \in DOMAIN inbox' : (i \in DOMAIN inbox /\ inbox'[i] = inbox[i]) \/ inbox'[i] = m
    <2>1. CASE inbox' = inbox
      BY <1>3, <2>1 DEF InboxType
    <2>2. CASE inbox' = Offer(inbox, m)
      BY <1>3, <2>2, Offered
    <2> QED
      BY <2>1, <2>2
  <1>5. \A i \in DOMAIN queue' : i + 1 # 1
    BY <1>2
  <1>6. Works(j, m, 1)
    BY <1>1, <1>2, <1>4, <1>5 DEF Works
  <1> QED
    BY <1>2, <1>4, <1>5, <1>6

LEMMA CommitStep == ASSUME Inv, NEW afford \in BOOLEAN, Commit(afford) PROVE Inv'
  <1>1. queue # <<>> /\ queue' = Tail(queue) /\ city' = city /\ ghost' = ghost
    BY DEF Commit
  <1>2. PICK j : j = Head(queue).job
    OBVIOUS
  <1>3. PICK m : m = Answer(j, Run(j, afford).ok, Run(j, afford).born)
    OBVIOUS
  <1>4. j \in Jobs
    BY <1>1, <1>2, HeadOf
  <1>5. Runnable(j) /\ row' = Run(j, afford).row /\ (inbox' = inbox \/ inbox' = Offer(inbox, m))
    BY <1>2, <1>3 DEF Commit
  <1>6. BaseType /\ OneHouse
    BY DEF Inv, Types, Sites
  <1>7. m \in Message /\ m.job = j /\ m.ok = Run(j, afford).ok
    BY <1>3, <1>4, <1>6, RunAnswers DEF Answer
  <1>8. Leaves(j, Run(j, afford).ok)
    BY <1>4, <1>5, <1>6, RunLeaves
  <1>9. Works(j, m, 1) /\ QueueType' /\ InboxType' /\ (\A i \in DOMAIN queue' : i + 1 # 1)
    BY <1>1, <1>2, <1>5, <1>7, Popped
  <1>10. Types'
    BY <1>1, <1>8, <1>9 DEF Leaves, Inv, Types, CityType, CityShape
  <1>11. Sites'
    <2>1. Grows(j) /\ OneHouse'
      BY <1>8 DEF Leaves
    <2>2. j.k = "Build" /\ ~m.ok /\ ~ghost' => \A h \in row'.houses : h.id # j.id
      BY <1>7, <1>8 DEF Leaves
    <2>3. j.k = "Destroy" /\ m.ok => \A h \in row'.houses : h.id # j.id
      BY <1>8 DEF Leaves
    <2>4. ~ghost' => ~ghost
      BY <1>1
    <2> QED
      BY <1>7, <1>9, <2>1, <2>2, <2>3, <2>4, WorkerKept
  <1> QED
    BY <1>10, <1>11 DEF Inv

LEMMA GiveUpStep == Inv /\ GiveUp => Inv'
  <1> SUFFICES ASSUME Inv, GiveUp PROVE Inv'
    OBVIOUS
  <1>1. queue # <<>> /\ queue' = Tail(queue) /\ city' = city /\ row' = row
    BY DEF GiveUp
  <1>2. PICK j : j = Head(queue).job
    OBVIOUS
  <1>3. PICK m : m = Answer(j, FALSE, NoId)
    OBVIOUS
  <1>4. j \in Jobs
    BY <1>1, <1>2, HeadOf
  <1>5. inbox' = Offer(inbox, m) /\ ghost' = (ghost \/ (Head(queue).done /\ IsOrder(j)))
    BY <1>2, <1>3 DEF GiveUp
  <1>6. m \in Message /\ m.job = j /\ ~m.ok
    BY <1>3, <1>4 DEF Answer, Message
  <1>7. Works(j, m, 1) /\ QueueType' /\ InboxType' /\ (\A i \in DOMAIN queue' : i + 1 # 1)
    BY <1>1, <1>2, <1>5, <1>6, Popped
  <1>8. Types'
    BY <1>1, <1>7, SameRow DEF Inv, Types, CityType, CityShape, BaseType
  <1>9. Sites'
    <2>1. Grows(j) /\ OneHouse'
      BY <1>1 DEF Grows, Inv, Sites, OneHouse
    <2>2. ~ghost' => ~ghost
      BY <1>5, Zenon
    <2>3. j.k = "Build" /\ ~ghost' => ~Head(queue).done
      BY <1>5 DEF IsOrder
    <2>4. j.k = "Build" /\ ~m.ok /\ ~ghost' => \A h \in row'.houses : h.id # j.id
      <3>1. 1 \in DOMAIN queue /\ Head(queue) = queue[1]
        BY <1>1, HeadOf
      <3>2. j.k = "Build" /\ ~ghost' => ~Built(j.id)
        BY <1>2, <2>3, <3>1 DEF Inv, Sites, OrderedOnce
      <3> QED
        BY <1>1, <3>2 DEF Built
    <2>5. j.k = "Destroy" /\ m.ok => \A h \in row'.houses : h.id # j.id
      BY <1>6
    <2> QED
      BY <1>6, <1>7, <2>1, <2>2, <2>4, <2>5, WorkerKept
  <1> QED
    BY <1>8, <1>9 DEF Inv

\* Written, and to be asked again: the job stays at the head.
LEMMA CommitUnackedStep == Inv /\ CommitUnacked => Inv'
  <1> SUFFICES ASSUME Inv, CommitUnacked PROVE Inv'
    OBVIOUS
  <1>1. queue # <<>> /\ UNCHANGED <<city, inbox, ghost>> /\ queue' = [queue EXCEPT ![1].done = TRUE]
    BY DEF CommitUnacked
  <1>2. PICK j : j = Head(queue).job
    OBVIOUS
  <1>3. PICK x : x = queue[1]
    OBVIOUS
  <1>4. j \in Jobs /\ x \in Item /\ x.job = j /\ 1 \in DOMAIN queue
    BY <1>1, <1>2, <1>3, HeadOf
  <1>5. Runnable(j) /\ row' = Run(j, TRUE).row
    BY <1>2 DEF CommitUnacked
  <1>6. BaseType /\ OneHouse
    BY DEF Inv, Types, Sites
  <1>7. Leaves(j, Run(j, TRUE).ok)
    BY <1>4, <1>5, <1>6, RunLeaves
  <1>8. PICK y : y = [x EXCEPT !.done = TRUE]
    OBVIOUS
  <1>9. queue' = [queue EXCEPT ![1] = y] /\ y \in Item /\ y.job = j /\ y.done
    <2>1. queue' = [queue EXCEPT ![1] = y]
      BY <1>1, <1>3, <1>8
    <2>2. y \in Item /\ y.job = j
      BY <1>4, <1>8 DEF Item
    <2>3. y.done = TRUE
      BY <1>4, <1>8 DEF Item
    <2> QED
      BY <2>1, <2>2, <2>3
  <1>10. queue' \in Seq(Item) /\ Len(queue') = Len(queue) /\ DOMAIN queue' = DOMAIN queue
         /\ queue'[1] = y /\ \A i \in DOMAIN queue : i # 1 => queue'[i] = queue[i]
    <2>1. queue \in Seq(Item)
      BY DEF Inv, Types, QueueType
    <2> QED
      BY <1>4, <1>9, <2>1
  <1>11. PICK m : m = Answer(j, TRUE, NoId)
    OBVIOUS
  <1>12. m.job = j /\ m.ok
    BY <1>11 DEF Answer
  <1>13. Works(j, m, 0)
    <2>1. \A i \in DOMAIN queue' : i \in Nat /\ i + 0 = i
      BY <1>10
    <2>2. \A i \in DOMAIN queue' : i \in DOMAIN queue /\ queue'[i].job = queue[i].job /\ (~queue'[i].done => ~queue[i].done /\ i # 1)
      BY <1>3, <1>4, <1>9, <1>10
    <2> QED
      BY <1>1, <1>3, <1>4, <2>1, <2>2 DEF Works
  <1>14. Types'
    <2>1. QueueType'
      BY <1>10 DEF Inv, Types, QueueType
    <2> QED
      BY <1>1, <1>7, <2>1 DEF Leaves, Inv, Types, CityType, CityShape, InboxType
  <1>15. Sites'
    <2>1. Grows(j) /\ OneHouse' /\ (j.k = "Destroy" => \A h \in row'.houses : h.id # j.id)
      BY <1>7 DEF Leaves
    <2>2. ~ghost' => ~ghost
      BY <1>1
    <2> QED
      BY <1>12, <1>13, <2>1, <2>2, WorkerKept
  <1> QED
    BY <1>14, <1>15 DEF Inv

\* A death, written or given up, touches no house.
LEMMA DeathWorkerStep == ASSUME Inv, NEW v \in Villager, DeathWorker(v) PROVE Inv'
  <1>1. /\ city' = city /\ queue' = queue /\ ghost' = ghost
        /\ row' = TxKill(v) \/ row' = row
        /\ inbox' = inbox \/ inbox' = Offer(inbox, DeathFailed(v))
    BY DEF DeathWorker, CommitDeath, GiveUpDeath
  <1>2. row'.houses = row.houses /\ row'.prod = row.prod
    BY <1>1 DEF TxKill, Inv, Types, BaseType, Rows, RowShape
  <1>3. BaseType'
    <2>1. Rows'
      BY <1>1, KillKeeps, SameRow DEF Inv, Types, BaseType
    <2> QED
      BY <1>2, <2>1 DEF Inv, Types, BaseType
  <1>4. PICK m : m = DeathFailed(v)
    OBVIOUS
  <1>5. m \in Message /\ m.job.k = "Death"
    BY <1>4 DEF DeathFailed, Answer, Message, Deaths
  <1>6. InboxType' /\ \A i \in DOMAIN inbox' : (i \in DOMAIN inbox /\ inbox'[i] = inbox[i]) \/ inbox'[i] = m
    <2>1. InboxType
      BY DEF Inv, Types
    <2>2. CASE inbox' = inbox
      BY <2>1, <2>2 DEF InboxType
    <2>3. CASE inbox' = Offer(inbox, m)
      BY <1>5, <2>1, <2>3, Offered
    <2> QED
      BY <1>1, <1>4, <2>2, <2>3
  <1>7. Types'
    BY <1>1, <1>3, <1>6 DEF Inv, Types, CityType, CityShape, QueueType
  <1>8. Sites'
    <2>1. Distinct' /\ OneHouse' /\ Ruined' /\ Awaited' /\ Known'
      BY <1>1, <1>2 DEF Distinct, OneHouse, Ruined, Awaited, Known, Knows, Inv, Sites
    <2>2. OrderedOnce'
      BY <1>1, <1>2, <1>5, <1>6 DEF OrderedOnce, Orders, Built, Inv, Sites
    <2>3. Fallen'
      BY <1>1, <1>2, <1>5, <1>6 DEF Fallen, Ruins, Standing, Built, Inv, Sites
    <2>4. Answered'
      BY <1>1, <1>2, <1>5, <1>6 DEF Answered, Built, Inv, Sites
    <2> QED
      BY <2>1, <2>2, <2>3, <2>4 DEF Sites
  <1> QED
    BY <1>7, <1>8 DEF Inv

-----------------------------------------------------------------------------
(* Beginnings.                                                              *)

LEMMA EmptyLines == <<>> \in Seq(Item) /\ <<>> \in Seq(Message) /\ Len(<<>>) = 0 /\ DOMAIN <<>> = {}
  OBVIOUS

\* With nothing queued nor said, what is left are the houses.
LEMMA StartsClean ==
    ASSUME CityType', BaseType', Distinct', OneHouse', queue' = <<>>, inbox' = <<>>, city'.destructions = {},
           \A t \in Site : city'.destroying[t] = NoId,
           \A h \in row'.houses : city'.houses[h.site].id = h.id
    PROVE  Inv'
  <1>1. DOMAIN queue' = {} /\ DOMAIN inbox' = {}
    BY EmptyLines
  <1>2. QueueType' /\ InboxType'
    BY EmptyLines, ConstantsAssumption DEF QueueType, InboxType
  <1>3. Ruined' /\ Known'
    BY DEF Ruined, Known, Knows
  <1>4. Awaited' /\ OrderedOnce' /\ Fallen' /\ Answered'
    BY <1>1 DEF Awaited, OrderedOnce, Fallen, Answered
  <1> QED
    BY <1>2, <1>3, <1>4 DEF Inv, Types, Sites

\* The loop reads the houses of the rows: one to a site, one to a number.
LEMMA RestartStep == Inv /\ Restart => Inv'
  <1> SUFFICES ASSUME Inv, Restart PROVE Inv'
    OBVIOUS
  <1>1. queue' = <<>> /\ inbox' = <<>> /\ city' = Recovered
    BY DEF Restart
  <1>2. row'.houses = row.houses /\ row'.prod = row.prod
    BY DEF Restart, Inv, Types, BaseType, Rows, RowShape
  <1>3. BaseType'
    BY <1>2, RestartKeeps DEF Inv, Types, BaseType
  <1>4. OneHouse'
    BY <1>2 DEF OneHouse, Inv, Sites
  <1> DEFINE Of(t) == IF \E h \in row.houses : h.site = t
                      THEN LET h == CHOOSE x \in row.houses : x.site = t IN [id |-> h.id, st |-> h.st]
                      ELSE NoHouse
  <1>5. /\ city'.houses = [t \in Site |-> Of(t)] /\ city'.destroying = [t \in Site |-> NoId]
        /\ city'.completions = {} /\ city'.destructions = {} /\ CityShape'
    BY <1>1 DEF Recovered, CityShape
  <1>6. ASSUME NEW t \in Site
        PROVE  \/ Of(t) = NoHouse /\ \A h \in row.houses : h.site # t
               \/ \E h \in row.houses : h.site = t /\ Of(t) = [id |-> h.id, st |-> h.st]
    OBVIOUS
  <1> HIDE DEF Of
  <1>7. \A t \in Site : city'.houses[t] = Of(t)
    BY <1>5
  <1>8. CityType'
    <2>1. \A h \in row.houses : [id |-> h.id, st |-> h.st] \in House
      BY DEF Inv, Types, BaseType, Rows, HouseRows, House
    <2>2. \A t \in Site : Of(t) \in House
      BY <1>6, <2>1 DEF House
    <2>3. city'.houses \in [Site -> House] /\ city'.destroying \in [Site -> Nat]
      BY <1>5, <2>2 DEF NoId
    <2> QED
      BY <1>5, <2>3, FS_EmptySet DEF CityType
  <1>9. ASSUME NEW h \in row.houses PROVE city'.houses[h.site].id = h.id
    <2>1. h.site \in Site
      BY DEF Inv, Types, BaseType
    <2>2. PICK g \in row.houses : g.site = h.site /\ Of(h.site) = [id |-> g.id, st |-> g.st]
      BY <1>6, <2>1
    <2>3. g = h
      BY <2>2 DEF Inv, Sites, OneHouse
    <2> QED
      BY <1>7, <2>1, <2>2, <2>3
  <1>10. Distinct'
    <2>1. ASSUME NEW t \in Site, NEW u \in Site, Of(t).id = Of(u).id, Of(t).id # NoId PROVE t = u
      <3>1. PICK g \in row.houses : g.site = t /\ Of(t) = [id |-> g.id, st |-> g.st]
        BY <1>6, <2>1 DEF NoHouse
      <3>2. PICK h \in row.houses : h.site = u /\ Of(u) = [id |-> h.id, st |-> h.st]
        BY <1>6, <2>1 DEF NoHouse
      <3>3. g.id = h.id
        BY <2>1, <3>1, <3>2
      <3>4. g = h
        BY <3>3 DEF Inv, Types, BaseType, Rows, HouseRows
      <3> QED
        BY <3>1, <3>2, <3>4
    <2> QED
      BY <1>7, <2>1 DEF Distinct
  <1>11. \A t \in Site : city'.destroying[t] = NoId
    BY <1>5
  <1> QED
    BY <1>1, <1>2, <1>3, <1>4, <1>5, <1>8, <1>9, <1>10, <1>11, StartsClean

LEMMA InitStep == Init => Inv
  <1> SUFFICES ASSUME Init PROVE Inv
    OBVIOUS
  <1>1. /\ city.houses = [t \in Site |-> NoHouse] /\ city.destroying = [t \in Site |-> NoId]
        /\ city.completions = {} /\ city.destructions = {} /\ CityShape
        /\ row.houses = {} /\ row.prod = NoRow
    BY DEF Init, CityShape
  <1>2. queue = <<>> /\ inbox = <<>> /\ DOMAIN queue = {} /\ DOMAIN inbox = {}
    BY EmptyLines DEF Init
  <1>3. CityType
    <2>1. city.houses \in [Site -> House] /\ city.destroying \in [Site -> Nat]
      BY <1>1 DEF House, NoId
    <2> QED
      BY <1>1, <2>1, FS_EmptySet DEF CityType
  <1>4. BaseType
    BY <1>1, RowsInit DEF BaseType, NoRow
  <1>5. QueueType /\ InboxType
    BY <1>2, EmptyLines, ConstantsAssumption DEF QueueType, InboxType
  <1>6. Distinct /\ OneHouse /\ Ruined /\ Known
    BY <1>1 DEF Distinct, OneHouse, Ruined, Known, NoHouse
  <1>7. Awaited /\ OrderedOnce /\ Fallen /\ Answered
    BY <1>1, <1>2 DEF Awaited, OrderedOnce, Fallen, Answered
  <1> QED
    BY <1>3, <1>4, <1>5, <1>6, <1>7 DEF Inv, Types, Sites

LEMMA NextStep == Inv /\ [Next]_vars => Inv'
  <1> SUFFICES ASSUME Inv, [Next]_vars PROVE Inv'
    OBVIOUS
  <1>1. ASSUME NEW t \in Site, BuildBuilding(t) \/ DestroyHouse(t) PROVE Inv'
    BY <1>1, BuildBuildingStep, DestroyHouseStep
  <1>2. TrainUnit \/ AdvanceEra => Inv'
    BY TrainUnitStep, AdvanceEraStep
  <1>3. Tick => Inv'
    BY CompleteBuildingStep, CompleteProductionStep, CompleteAdvanceStep DEF Tick
  <1>4. ASSUME NEW v \in Villager, Kill(v) \/ DeathWorker(v) PROVE Inv'
    BY <1>4, KillStep, DeathWorkerStep
  <1>5. FlushDirty \/ Handle => Inv'
    BY FlushDirtyStep, HandleStep
  <1>6. Worker => Inv'
    BY CommitStep, CommitUnackedStep, GiveUpStep DEF Worker
  <1>7. Restart => Inv'
    BY RestartStep
  <1>8. CASE UNCHANGED vars
    <2>1. UNCHANGED <<city, queue, inbox, row, ghost>>
      BY <1>8 DEF vars
    <2>2. Types'
      BY <2>1, SameRow DEF Inv, Types, CityType, CityShape, BaseType, QueueType, InboxType
    <2>3. Sites'
      BY <2>1 DEF Inv, Sites, Distinct, OneHouse, Ruined, Awaited, OrderedOnce, Fallen, Answered, Known, Knows, Built, Standing, Orders, Ruins
    <2> QED
      BY <2>2, <2>3 DEF Inv
  <1> QED
    BY <1>1, <1>2, <1>3, <1>4, <1>5, <1>6, <1>7, <1>8 DEF Next

\* A house of the rows on the site of an order is known: it stands where the order is
\* awaited, and is the same, or lies in ruins, and no order is awaited on a ruin.
LEMMA InvFree == Inv => SiteFree
  <1> SUFFICES ASSUME Inv, ~ghost, NEW i \in DOMAIN queue, queue[i].job.k = "Build",
                      NEW h \in row.houses, h.site = queue[i].job.site
               PROVE  h.id = queue[i].job.id
    BY DEF SiteFree
  <1>1. PICK t : t = queue[i].job.site
    OBVIOUS
  <1>2. t \in Site /\ city.houses[t].st = "ORDERED" /\ city.houses[t].id = queue[i].job.id
    BY <1>1, OrderedSite
  <1>3. h.id # NoId
    BY DEF Inv, Types, BaseType, NoId
  <1>4. city.houses[t].id = h.id \/ city.destroying[t] = h.id
    BY <1>1 DEF Inv, Sites, Known, Knows
  <1>5. city.destroying[t] = NoId
    BY <1>2 DEF Inv, Sites, Ruined, NoHouse
  <1> QED
    BY <1>2, <1>3, <1>4, <1>5

\* The unique index of the standing houses never refuses a house the loop accepted: a
\* house of the rows that stands on the site of a queued order is that order's own,
\* written and to be asked again, for any sites, queues, failures and restarts (ADR-029).
THEOREM SitesAreFree == Spec => []SiteFree
  <1>1. Spec => []Inv
    BY InitStep, NextStep, PTL DEF Spec
  <1> QED
    BY <1>1, InvFree, PTL

-----------------------------------------------------------------------------
(* What is on its way between the loop and the workers.                     *)

Queued == ToSet(queue)
Heard == ToSet(inbox)
None(s, k) == \A x \in ToSet(s) : x.job.k # k
Few(s, k) == \A i, l \in DOMAIN s : s[i].job.k = k /\ s[l].job.k = k => i = l

\* At most one job of kind k is queued, or answered in the inbox; or none.
Alone(k) == Few(queue, k) /\ Few(inbox, k) /\ (None(queue, k) \/ None(inbox, k))
Silent(k) == None(queue, k) /\ None(inbox, k)

LEMMA Members == \A s, x : x \in ToSet(s) <=> \E i \in DOMAIN s : s[i] = x
  BY DEF ToSet

\* Sequence b is a, and x after it if n is one.
Extends(a, b, x, n) ==
  /\ \A y : y \in ToSet(b) <=> y \in ToSet(a) \/ (n = 1 /\ y = x)
  /\ \A k : Few(a, k) /\ (n = 1 /\ x.job.k = k => None(a, k)) => Few(b, k)

LEMMA Ends ==
    ASSUME NEW S, NEW a \in Seq(S), NEW n \in {0, 1}, NEW f \in [1..n -> S], NEW x, n = 1 => f[1] = x, NEW b, b = a \o f
    PROVE  Extends(a, b, x, n)
  <1>1. PICK p \in Nat : p = Len(a) /\ DOMAIN a = 1..p
    OBVIOUS
  <1>0. n \in Nat
    OBVIOUS
  <1>2. b \in Seq(S) /\ Len(b) = p + n
    BY <1>0, <1>1, Joined
  <1>3. \A i \in 1..p : b[i] = a[i]
    BY <1>0, <1>1, Joined
  <1>4. \A i \in (p + 1)..(p + n) : i - p \in 1..n /\ b[i] = f[i - p]
    BY <1>0, <1>1, Joined
  <1>5. DOMAIN b = 1..(p + n)
    BY <1>2
  <1>6. n = 1 => b[p + 1] = x
    <2>1. PICK q : q = p + 1
      OBVIOUS
    <2>2. n = 1 => q \in (p + 1)..(p + n) /\ q - p = 1
      BY ONLY <2>1, p \in Nat, n \in {0, 1}
    <2>3. n = 1 => b[q] = f[q - p]
      BY ONLY <1>4, <2>2
    <2>4. n = 1 => b[q] = f[1]
      BY ONLY <2>2, <2>3
    <2> QED
      BY ONLY <2>1, <2>4, n = 1 => f[1] = x
  <1>7. \A i \in 1..(p + n) : i \in 1..p \/ (n = 1 /\ i = p + 1)
    BY ONLY p \in Nat, n \in {0, 1}
  <1>8. 1..p \subseteq 1..(p + n) /\ (n = 1 => p + 1 \in 1..(p + n))
    BY ONLY p \in Nat, n \in {0, 1}
  <1>9. \A y : y \in ToSet(b) <=> y \in ToSet(a) \/ (n = 1 /\ y = x)
    <2> SUFFICES ASSUME NEW y PROVE y \in ToSet(b) <=> y \in ToSet(a) \/ (n = 1 /\ y = x)
      OBVIOUS
    <2>1. y \in ToSet(a) <=> \E i \in 1..p : a[i] = y
      BY <1>1, Members
    <2>2. y \in ToSet(b) <=> \E i \in 1..(p + n) : b[i] = y
      BY ONLY <1>5, Members
    <2> QED
      <3>1. ASSUME NEW i \in 1..(p + n), b[i] = y PROVE (\E l \in 1..p : a[l] = y) \/ (n = 1 /\ y = x)
        BY ONLY <1>3, <1>6, <1>7, <3>1, i \in 1..(p + n)
      <3>2. ASSUME NEW l \in 1..p, a[l] = y PROVE \E i \in 1..(p + n) : b[i] = y
        BY ONLY <1>3, <1>8, <3>2, l \in 1..p
      <3>3. ASSUME n = 1, y = x PROVE \E i \in 1..(p + n) : b[i] = y
        BY ONLY <1>6, <1>8, <3>3
      <3> QED
        BY ONLY <2>1, <2>2, <3>1, <3>2, <3>3
  <1>10. ASSUME NEW k, Few(a, k), n = 1 /\ x.job.k = k => None(a, k) PROVE Few(b, k)
    <2> SUFFICES ASSUME NEW i \in DOMAIN b, NEW l \in DOMAIN b, b[i].job.k = k, b[l].job.k = k PROVE i = l
      BY DEF Few
    <2>1. i \in 1..p /\ l \in 1..p => i = l
      BY <1>1, <1>3, <1>10 DEF Few
    <2>2. \A y \in 1..p : a[y] \in ToSet(a)
      BY <1>1, Members
    <2> QED
      BY <1>3, <1>5, <1>6, <1>7, <1>10, <2>1, <2>2 DEF None
  <1> QED
    BY <1>9, <1>10 DEF Extends

LEMMA Rests ==
    ASSUME NEW S, NEW a \in Seq(S), a # <<>>
    PROVE  /\ Head(a) \in ToSet(a) /\ ToSet(Tail(a)) \subseteq ToSet(a) /\ ToSet(a) \subseteq ToSet(Tail(a)) \cup {Head(a)}
           /\ \A k : Few(a, k) => Few(Tail(a), k)
           /\ \A k : Few(a, k) /\ Head(a).job.k = k => None(Tail(a), k)
  <1>1. PICK n \in Nat : n = Len(a) /\ DOMAIN a = 1..n /\ n # 0
    OBVIOUS
  <1>2. PICK b : b = Tail(a)
    OBVIOUS
  <1>3. DOMAIN b = 1..(n - 1) /\ \A i \in 1..(n - 1) : b[i] = a[i + 1]
    BY <1>1, <1>2
  <1>4. Head(a) = a[1] /\ 1 \in 1..n
    BY <1>1
  <1>5. \A i \in 1..(n - 1) : i + 1 \in 1..n /\ i + 1 # 1
    BY ONLY n \in Nat
  <1>6. \A i \in 1..n : i = 1 \/ (i - 1 \in 1..(n - 1) /\ (i - 1) + 1 = i)
    BY ONLY n \in Nat
  <1>7. ToSet(b) \subseteq ToSet(a) /\ a[1] \in ToSet(a)
    BY <1>1, <1>3, <1>4, <1>5, Members
  <1>8. ASSUME NEW y \in ToSet(a), y # a[1] PROVE y \in ToSet(b)
    <2>1. PICK i \in 1..n : a[i] = y /\ i # 1
      BY <1>1, <1>8, Members
    <2>2. i - 1 \in 1..(n - 1) /\ (i - 1) + 1 = i
      BY <1>6, <2>1
    <2>3. b[i - 1] = y
      BY <1>3, <2>1, <2>2
    <2> QED
      BY <1>3, <2>2, <2>3, Members
  <1>9. ASSUME NEW k, Few(a, k) PROVE Few(b, k)
    <2> SUFFICES ASSUME NEW i \in 1..(n - 1), NEW l \in 1..(n - 1), b[i].job.k = k, b[l].job.k = k PROVE i = l
      BY <1>3 DEF Few
    <2>1. i + 1 = l + 1
      BY <1>1, <1>3, <1>5, <1>9 DEF Few
    <2> QED
      BY ONLY <2>1, i \in 1..(n - 1), l \in 1..(n - 1), n \in Nat
  <1>10. ASSUME NEW k, Few(a, k), a[1].job.k = k, NEW y \in ToSet(b) PROVE y.job.k # k
    <2>1. PICK i \in 1..(n - 1) : b[i] = y
      BY <1>3, Members
    <2>2. i + 1 \in 1..n /\ i + 1 # 1 /\ a[i + 1] = y
      BY <1>3, <1>5, <2>1
    <2> QED
      BY <1>1, <1>4, <1>10, <2>2 DEF Few
  <1> QED
    BY <1>2, <1>4, <1>7, <1>8, <1>9, <1>10 DEF None

\* At most one job is submitted: it is queued, or handed back, or lost.
Passed(box, j, n) ==
  \E fit, told \in {0, 1} :
    /\ fit + told <= n /\ (fit + told < n => lost')
    /\ Queued' = Queued \cup {y \in {[job |-> j, done |-> FALSE]} : fit = 1}
    /\ \A k : Few(queue, k) /\ (fit = 1 /\ j.k = k => None(queue, k)) => Few(queue', k)
    /\ Heard' = ToSet(box) \cup {y \in {Answer(j, FALSE, NoId)} : told = 1}
    /\ \A k : Few(box, k) /\ (told = 1 /\ j.k = k => None(box, k)) => Few(inbox', k)

LEMMA Passes ==
    ASSUME QueueType, NEW c, NEW box \in Seq(Message), Len(box) <= InboxSize, NEW j \in Jobs, NEW n \in {0, 1},
           NEW jobs \in Seq(Jobs), Len(jobs) = n, n = 1 => jobs[1] = j, Becomes(c, box, jobs)
    PROVE  Passed(box, j, n) /\ (lost => lost')
  <1>1. PICK fit : fit = Least(Len(jobs), QueueSize - Len(queue))
    OBVIOUS
  <1>2. PICK over : over = Len(jobs) - fit
    OBVIOUS
  <1>3. PICK told : told = Least(over, InboxSize - Len(box))
    OBVIOUS
  <1>4. queue \in Seq(Item) /\ Len(queue) \in Nat /\ Len(queue) <= QueueSize
        /\ QueueSize \in Nat /\ InboxSize \in Nat /\ Len(box) \in Nat
    BY ConstantsAssumption DEF QueueType
  <1>5. fit \in {0, 1} /\ fit <= n /\ over \in {0, 1} /\ over = n - fit
    BY <1>1, <1>2, <1>4 DEF Least
  <1>6. told \in {0, 1} /\ told <= over
    BY <1>3, <1>4, <1>5 DEF Least
  <1>7. PICK f : f = [i \in 1..fit |-> [job |-> jobs[i], done |-> FALSE]]
    OBVIOUS
  <1>8. PICK g : g = [i \in 1..told |-> Answer(jobs[fit + i], FALSE, NoId)]
    OBVIOUS
  <1>9. queue' = queue \o f /\ inbox' = box \o g
    BY <1>1, <1>2, <1>3, <1>7, <1>8 DEF Becomes
  <1>10. (lost => lost') /\ (told < over => lost')
    <2>1. lost' = (lost \/ told < over)
      BY <1>1, <1>2, <1>3, Zenon DEF Becomes
    <2> QED
      BY <2>1, Zenon
  <1>11. PICK x : x = [job |-> j, done |-> FALSE]
    OBVIOUS
  <1>12. PICK m : m = Answer(j, FALSE, NoId)
    OBVIOUS
  <1>13. x \in Item /\ x.job = j /\ m \in Message /\ m.job = j
    BY <1>11, <1>12 DEF Item, Message, Answer
  <1>14. f \in [1..fit -> Item] /\ (fit = 1 => f[1] = x)
    <2>1. CASE fit = 0
      BY <1>7, <2>1
    <2>2. CASE fit = 1
      <3>1. n = 1
        BY ONLY <1>5, <2>2, n \in {0, 1}
      <3>2. 1..fit = {1}
        BY <2>2
      <3> QED
        BY <1>7, <1>11, <1>13, <3>1, <3>2
    <2> QED
      BY <1>5, <2>1, <2>2
  <1>15. g \in [1..told -> Message] /\ (told = 1 => g[1] = m)
    <2>1. CASE told = 0
      BY <1>8, <2>1
    <2>2. CASE told = 1
      <3>1. n = 1 /\ fit = 0
        BY ONLY <1>5, <1>6, <2>2, n \in {0, 1}
      <3>2. 1..told = {1} /\ fit + 1 = 1
        BY <2>2, <3>1
      <3>3. g = [i \in {1} |-> Answer(jobs[fit + i], FALSE, NoId)]
        BY <1>8, <3>2
      <3>4. g = [i \in {1} |-> m]
        BY <1>12, <3>1, <3>2, <3>3
      <3> QED
        BY <1>13, <3>2, <3>4
    <2> QED
      BY <1>6, <2>1, <2>2
  <1>16. /\ ToSet(queue') = ToSet(queue) \cup {y \in {x} : fit = 1}
         /\ \A k : Few(queue, k) /\ (fit = 1 /\ x.job.k = k => None(queue, k)) => Few(queue', k)
    <2>1. PICK b : b = queue \o f
      OBVIOUS
    <2>2. Extends(queue, b, x, fit)
      BY ONLY <1>4, <1>5, <1>14, <2>1, Ends
    <2> QED
      BY ONLY <1>9, <2>1, <2>2 DEF Extends
  <1>17. /\ ToSet(inbox') = ToSet(box) \cup {y \in {m} : told = 1}
         /\ \A k : Few(box, k) /\ (told = 1 /\ m.job.k = k => None(box, k)) => Few(inbox', k)
    <2>1. PICK b : b = box \o g
      OBVIOUS
    <2>2. Extends(box, b, m, told)
      BY ONLY <1>6, <1>15, <2>1, box \in Seq(Message), Ends
    <2> QED
      BY ONLY <1>9, <2>1, <2>2 DEF Extends
  <1>18. fit + told <= n /\ (fit + told < n => told < over)
    BY ONLY <1>5, <1>6, n \in {0, 1}
  <1> QED
    BY <1>5, <1>6, <1>10, <1>11, <1>12, <1>13, <1>16, <1>17, <1>18 DEF Passed, Queued, Heard

\* The loop submits j.
Sent(j) ==
  /\ \/ Queued' = Queued \cup {[job |-> j, done |-> FALSE]} /\ Heard' = Heard
     \/ Queued' = Queued /\ Heard' = Heard \cup {Answer(j, FALSE, NoId)}
     \/ Queued' = Queued /\ Heard' = Heard /\ lost'
  /\ lost => lost'
  /\ \A k : Alone(k) /\ (k = j.k => Silent(k)) => Alone(k)'

LEMMA Sends ==
    ASSUME Inv, NEW c, NEW j \in Jobs, Becomes(c, inbox, <<j>>)
    PROVE  Sent(j) /\ city' = c /\ UNCHANGED <<row, ghost>>
  <1>1. city' = c /\ UNCHANGED <<row, ghost>>
    BY DEF Becomes
  <1>2. QueueType /\ inbox \in Seq(Message) /\ Len(inbox) <= InboxSize
    BY DEF Inv, Types, InboxType
  <1>3. PICK jobs : jobs = <<j>>
    OBVIOUS
  <1>4. jobs \in Seq(Jobs) /\ Len(jobs) = 1 /\ jobs[1] = j /\ Becomes(c, inbox, jobs)
    BY <1>3
  <1>5. Passed(inbox, j, 1) /\ (lost => lost')
    BY <1>2, <1>4, Passes
  <1>6. PICK fit \in {0, 1}, told \in {0, 1} :
          /\ fit + told <= 1 /\ (fit + told < 1 => lost')
          /\ Queued' = Queued \cup {y \in {[job |-> j, done |-> FALSE]} : fit = 1}
          /\ \A k : Few(queue, k) /\ (fit = 1 /\ j.k = k => None(queue, k)) => Few(queue', k)
          /\ Heard' = ToSet(inbox) \cup {y \in {Answer(j, FALSE, NoId)} : told = 1}
          /\ \A k : Few(inbox, k) /\ (told = 1 /\ j.k = k => None(inbox, k)) => Few(inbox', k)
    BY <1>5 DEF Passed
  <1>7. (fit = 1 /\ told = 0) \/ (fit = 0 /\ told = 1) \/ (fit = 0 /\ told = 0)
    BY ONLY <1>6, fit \in {0, 1}, told \in {0, 1}
  <1>8. /\ \/ Queued' = Queued \cup {[job |-> j, done |-> FALSE]} /\ Heard' = Heard
           \/ Queued' = Queued /\ Heard' = Heard \cup {Answer(j, FALSE, NoId)}
           \/ Queued' = Queued /\ Heard' = Heard /\ lost'
    <2>1. fit = 0 /\ told = 0 => lost'
      BY <1>6
    <2>2. Heard = ToSet(inbox)
      BY DEF Heard
    <2>3. fit = 0 => {y \in {[job |-> j, done |-> FALSE]} : fit = 1} = {}
      OBVIOUS
    <2>4. fit = 1 => {y \in {[job |-> j, done |-> FALSE]} : fit = 1} = {[job |-> j, done |-> FALSE]}
      OBVIOUS
    <2>5. told = 0 => {y \in {Answer(j, FALSE, NoId)} : told = 1} = {}
      OBVIOUS
    <2>6. told = 1 => {y \in {Answer(j, FALSE, NoId)} : told = 1} = {Answer(j, FALSE, NoId)}
      OBVIOUS
    <2> QED
      BY ONLY <1>6, <1>7, <2>1, <2>2, <2>3, <2>4, <2>5, <2>6
  <1>9. ASSUME NEW k, Alone(k), k = j.k => Silent(k) PROVE Alone(k)'
    <2>1. Few(queue, k) => Few(queue', k)
      BY <1>6, <1>9 DEF Silent
    <2>2. Few(inbox, k) => Few(inbox', k)
      BY <1>6, <1>9 DEF Silent
    <2>3. Few(queue', k) /\ Few(inbox', k)
      BY <1>9, <2>1, <2>2 DEF Alone
    <2>9. Answer(j, FALSE, NoId).job = j
      BY DEF Answer
    <2>4. PICK m : m = Answer(j, FALSE, NoId) /\ m.job = j
      BY <2>9
    <2>8. Heard' = ToSet(inbox) \cup {y \in {m} : told = 1} /\ Heard' = ToSet(inbox')
      BY <1>6, <2>4 DEF Heard
    <2>5. None(queue, k) /\ (fit = 0 \/ k # j.k) => None(queue', k)
      BY <1>6, <2>4 DEF None, Queued
    <2>6. None(inbox, k) /\ (told = 0 \/ k # j.k) => None(inbox', k)
      <3>1. \A y \in ToSet(inbox') : y \in ToSet(inbox) \/ (told = 1 /\ y = m)
        BY ONLY <2>8
      <3> QED
        <4>1. m.job = j
          BY <2>4
        <4>2. ASSUME \A y \in ToSet(inbox) : y.job.k # k, told = 0 \/ k # j.k, NEW y \in ToSet(inbox') PROVE y.job.k # k
          <5>1. y \in ToSet(inbox) \/ y = m
            BY ONLY <3>1, y \in ToSet(inbox')
          <5>2. CASE y = m
            <6>1. y \in ToSet(inbox) \/ told # 0
              BY ONLY <3>1, y \in ToSet(inbox')
            <6> QED
              BY ONLY <4>1, <4>2, <5>2, <6>1
          <5> QED
            BY ONLY <4>2, <5>1, <5>2
        <4> QED
          BY ONLY <4>2 DEF None
    <2>7. None(queue', k) \/ None(inbox', k)
      BY <1>7, <1>9, <2>5, <2>6 DEF Alone, Silent
    <2> QED
      BY <2>3, <2>7 DEF Alone
  <1> QED
    BY <1>1, <1>5, <1>8, <1>9 DEF Sent

\* The loop takes message m.
Heeded(m) ==
  /\ m \in Heard /\ Queued' = Queued /\ Heard' \subseteq Heard /\ Heard \subseteq Heard' \cup {m}
  /\ lost => lost'
  /\ \A k : Alone(k) => Alone(k)' /\ (k = m.job.k => Silent(k)')

LEMMA Heeds ==
    ASSUME Inv, Handle
    PROVE  \E m : m \in Message /\ Heeded(m) /\ city' = Handled(m) /\ UNCHANGED <<row, ghost, dying>>
  <1>1. PICK m : m = Head(inbox)
    OBVIOUS
  <1>2. PICK box : box = Tail(inbox)
    OBVIOUS
  <1>3. QueueType /\ inbox \in Seq(Message) /\ Len(inbox) <= InboxSize /\ InboxSize \in Nat /\ inbox # <<>>
    BY ConstantsAssumption DEF Inv, Types, InboxType, Handle
  <1>4. m \in Message /\ box \in Seq(Message) /\ Len(box) <= InboxSize
    <2>1. Head(inbox) \in Message /\ Tail(inbox) \in Seq(Message) /\ Len(inbox) \in Nat /\ Len(Tail(inbox)) <= Len(inbox)
      BY <1>3, Shifted
    <2>2. Len(box) \in Nat
      BY <1>2, <2>1
    <2> QED
      BY <1>1, <1>2, <1>3, <2>1, <2>2
  <1>5. PICK c, jobs : c = Handled(m) /\ jobs = <<>>
    OBVIOUS
  <1>6. Becomes(c, box, jobs) /\ jobs \in Seq(Jobs) /\ Len(jobs) = 0
    BY <1>1, <1>2, <1>5 DEF Handle
  <1>12. EraEnd \in Jobs
    BY DEF EraEnd, NoId, Jobs, OtherJobs
  <1>7. PICK j : j \in Jobs
    BY <1>12
  <1>8. /\ lost => lost'
        /\ Queued' = Queued /\ \A k : Few(queue, k) => Few(queue', k)
        /\ Heard' = ToSet(box) /\ \A k : Few(box, k) => Few(inbox', k)
    <2>1. Passed(box, j, 0) /\ (lost => lost')
      <3>1. QueueType /\ 0 \in {0, 1} /\ (0 = 1 => jobs[1] = j)
        BY <1>3
      <3> QED
        BY ONLY <1>4, <1>6, <1>7, <3>1, Passes
    <2>2. PICK fit \in {0, 1}, told \in {0, 1} :
          /\ fit + told <= 0 /\ (fit + told < 0 => lost')
          /\ Queued' = Queued \cup {y \in {[job |-> j, done |-> FALSE]} : fit = 1}
          /\ \A k : Few(queue, k) /\ (fit = 1 /\ j.k = k => None(queue, k)) => Few(queue', k)
          /\ Heard' = ToSet(box) \cup {y \in {Answer(j, FALSE, NoId)} : told = 1}
          /\ \A k : Few(box, k) /\ (told = 1 /\ j.k = k => None(box, k)) => Few(inbox', k)
      BY <2>1 DEF Passed
    <2>3. fit = 0 /\ told = 0
      BY ONLY <2>2, fit \in {0, 1}, told \in {0, 1}
    <2> QED
      BY <2>1, <2>2, <2>3
  <1>9. /\ m \in Heard /\ ToSet(box) \subseteq Heard /\ Heard \subseteq ToSet(box) \cup {m}
        /\ \A k : Few(inbox, k) => Few(box, k)
        /\ \A k : Few(inbox, k) /\ m.job.k = k => None(box, k)
    BY <1>1, <1>2, <1>3, Rests DEF Heard
  <1>10. ASSUME NEW k, Alone(k) PROVE Alone(k)' /\ (k = m.job.k => Silent(k)')
    <2>1. Few(queue', k) /\ Few(inbox', k)
      BY <1>8, <1>9, <1>10 DEF Alone
    <2>2. None(queue, k) => None(queue', k)
      BY <1>8 DEF None, Queued
    <2>3. None(inbox, k) => None(inbox', k)
      BY <1>8, <1>9 DEF None, Heard
    <2>4. k = m.job.k => None(queue, k)
      BY <1>9, <1>10 DEF Alone, None, Heard
    <2>5. k = m.job.k => None(inbox', k)
      BY <1>8, <1>9, <1>10 DEF Alone, None, Heard
    <2> QED
      BY <1>10, <2>1, <2>2, <2>3, <2>4, <2>5 DEF Alone, Silent
  <1>11. city' = c /\ UNCHANGED <<row, ghost, dying>>
    BY <1>6 DEF Becomes, Handle
  <1> QED
    BY <1>4, <1>5, <1>8, <1>9, <1>10, <1>11 DEF Heeded

LEMMA Appends ==
    ASSUME NEW S, NEW a \in Seq(S), NEW x \in S
    PROVE  Extends(a, Append(a, x), x, 1)
  <1>1. PICK f : f = <<x>>
    OBVIOUS
  <1>2. f \in [1..1 -> S] /\ f[1] = x
    BY <1>1
  <1>3. Append(a, x) = a \o f
    BY <1>1
  <1> QED
    BY <1>2, <1>3, Ends

\* The inbox is offered message m.
LEMMA Offers ==
    ASSUME Inv, NEW m \in Message, inbox' = Offer(inbox, m), lost => lost', Len(inbox) >= InboxSize => lost'
    PROVE  /\ (Heard' = Heard /\ lost') \/ Heard' = Heard \cup {m}
           /\ \A k : Few(inbox, k) /\ (m.job.k = k => None(inbox, k)) => Few(inbox', k)
  <1>1. inbox \in Seq(Message) /\ Len(inbox) \in Nat /\ InboxSize \in Nat
    BY ConstantsAssumption DEF Inv, Types, InboxType
  <1>2. CASE Len(inbox) < InboxSize
    <2>1. PICK b : b = Append(inbox, m)
      OBVIOUS
    <2>2. inbox' = b
      BY <1>2, <2>1 DEF Offer
    <2>3. Extends(inbox, b, m, 1)
      BY <1>1, <2>1, Appends
    <2>4. ToSet(b) = ToSet(inbox) \cup {m}
      BY <2>3 DEF Extends
    <2>5. \A k : Few(inbox, k) /\ (m.job.k = k => None(inbox, k)) => Few(b, k)
      BY <2>3 DEF Extends
    <2> QED
      BY ONLY <2>2, <2>4, <2>5 DEF Heard
  <1>3. CASE ~(Len(inbox) < InboxSize)
    <2>1. inbox' = inbox /\ lost'
      BY <1>1, <1>3 DEF Offer
    <2>2. Heard' = Heard
      BY <2>1 DEF Heard
    <2> QED
      BY ONLY <2>1, <2>2
  <1> QED
    BY <1>2, <1>3

\* The worker ends with item x of the queue, and answers m or nothing.
Served(x, m, answered) ==
  /\ x \in Queued /\ Queued' \subseteq Queued /\ Queued \subseteq Queued' \cup {x}
  /\ \/ Heard' = Heard \cup {m} /\ answered
     \/ Heard' = Heard /\ (answered => lost')
  /\ lost => lost'
  /\ \A k : Alone(k) => Alone(k)'
  /\ \A k : Alone(k) /\ k = x.job.k => None(queue', k) /\ None(inbox, k)

LEMMA Serves ==
    ASSUME Inv, queue # <<>>, queue' = Tail(queue), NEW x, x = Head(queue), NEW m \in Message, m.job = x.job,
           NEW answered, answered => inbox' = Offer(inbox, m), ~answered => inbox' = inbox, lost => lost',
           answered /\ Len(inbox) >= InboxSize => lost'
    PROVE  Served(x, m, answered)
  <1>1. queue \in Seq(Item)
    BY DEF Inv, Types, QueueType
  <1>2. /\ x \in ToSet(queue) /\ ToSet(queue') \subseteq ToSet(queue) /\ ToSet(queue) \subseteq ToSet(queue') \cup {x}
        /\ \A k : Few(queue, k) => Few(queue', k)
        /\ \A k : Few(queue, k) /\ x.job.k = k => None(queue', k)
    BY <1>1, Rests
  <1>3. (Heard' = Heard \cup {m} /\ answered) \/ (Heard' = Heard /\ (answered => lost'))
    <2>1. CASE answered
      BY <2>1, Offers
    <2>2. CASE ~answered
      BY <2>2 DEF Heard
    <2> QED
      BY <2>1, <2>2
  <1>4. \A k : Few(inbox, k) /\ (m.job.k = k => None(inbox, k)) => Few(inbox', k)
    <2>1. CASE answered
      BY <2>1, Offers
    <2>2. CASE ~answered
      BY <2>2
    <2> QED
      BY <2>1, <2>2
  <1>5. ASSUME NEW k, Alone(k), k = x.job.k PROVE None(queue', k) /\ None(inbox, k)
    BY <1>2, <1>5 DEF Alone, None
  <1>6. ASSUME NEW k, Alone(k) PROVE Alone(k)'
    <2>1. Few(queue', k) /\ Few(inbox', k)
      BY <1>2, <1>4, <1>5, <1>6 DEF Alone
    <2>2. None(queue, k) => None(queue', k)
      BY <1>2 DEF None
    <2>3. None(inbox, k) /\ k # x.job.k => None(inbox', k)
      <3>1. \A y \in ToSet(inbox') : y \in ToSet(inbox) \/ y = m
        BY <1>3 DEF Heard
      <3> QED
        BY <3>1 DEF None
    <2>4. None(queue', k) \/ None(inbox', k)
      BY <1>5, <1>6, <2>2, <2>3 DEF Alone
    <2> QED
      BY <2>1, <2>4 DEF Alone
  <1>7. x \in Queued /\ Queued' \subseteq Queued /\ Queued \subseteq Queued' \cup {x}
    BY <1>2 DEF Queued
  <1> QED
    BY <1>3, <1>5, <1>6, <1>7 DEF Served

\* Item x of the queue is written, and stays to be asked again as y.
Marked(x, y) ==
  /\ x \in Queued /\ y.job = x.job /\ ~x.done /\ y.done
  /\ Queued' \subseteq Queued \cup {y} /\ Queued \subseteq Queued' \cup {x} /\ y \in Queued'
  /\ Heard' = Heard /\ (lost => lost')
  /\ \A k : Alone(k) => Alone(k)'
  /\ \A k : Alone(k) /\ k = x.job.k => None(inbox, k) /\ \A z \in Queued' : z.job.k = k => z = y

LEMMA Marks ==
    ASSUME Inv, CommitUnacked
    PROVE  \E y : Marked(Head(queue), y)
  <1>1. queue \in Seq(Item) /\ queue # <<>> /\ queue' = [queue EXCEPT ![1].done = TRUE] /\ ~Head(queue).done
        /\ inbox' = inbox
    BY DEF Inv, Types, QueueType, CommitUnacked
  <1>2. PICK n \in Nat : n = Len(queue) /\ DOMAIN queue = 1..n /\ n # 0
    BY <1>1
  <1>3. PICK x : x = Head(queue)
    OBVIOUS
  <1>4. x = queue[1] /\ x \in Item /\ 1 \in 1..n /\ ~x.done
    BY <1>1, <1>2, <1>3
  <1>5. PICK y : y = [x EXCEPT !.done = TRUE]
    OBVIOUS
  <1>6. y.job = x.job /\ y.done = TRUE
    BY <1>4, <1>5 DEF Item
  <1>7. DOMAIN queue' = 1..n /\ queue'[1] = y /\ \A i \in 1..n : i # 1 => queue'[i] = queue[i]
    BY <1>1, <1>2, <1>4, <1>5
  <1>8. y.done
    BY <1>6, Zenon
  <1>9. /\ \A z : z \in Queued <=> \E i \in 1..n : queue[i] = z
        /\ \A z : z \in Queued' <=> \E i \in 1..n : queue'[i] = z
    BY <1>2, <1>7, Members DEF Queued
  <1>10. x \in Queued /\ Queued' \subseteq Queued \cup {y} /\ Queued \subseteq Queued' \cup {x} /\ y \in Queued'
    BY <1>4, <1>7, <1>9
  <1>11. \A i \in 1..n : queue'[i].job = queue[i].job
    BY <1>4, <1>6, <1>7
  <1>12. \A k : Few(queue, k) => Few(queue', k)
    BY <1>2, <1>7, <1>11 DEF Few
  <1>13. \A k : None(queue, k) => None(queue', k)
    BY <1>2, <1>7, <1>11, Members DEF None
  <1>14. Heard' = Heard /\ \A k : Alone(k) => Alone(k)'
    BY <1>1, <1>12, <1>13 DEF Heard, Alone
  <1>15. ASSUME NEW k, Alone(k), k = x.job.k PROVE None(inbox, k) /\ \A z \in Queued' : z.job.k = k => z = y
    <2>1. None(inbox, k)
      BY <1>10, <1>15 DEF Alone, None, Queued
    <2>2. ASSUME NEW z \in Queued', z.job.k = k PROVE z = y
      <3>1. PICK i \in 1..n : queue'[i] = z
        BY <1>9
      <3>2. queue[i].job.k = k /\ queue[1].job.k = k
        BY <1>4, <1>11, <1>15, <2>2, <3>1
      <3>3. i = 1
        BY <1>2, <1>4, <1>15, <3>2 DEF Alone, Few
      <3> QED
        BY <1>7, <3>1, <3>3
    <2> QED
      BY <2>1, <2>2
  <1>16. lost => lost'
    BY DEF CommitUnacked
  <1> QED
    BY <1>3, <1>4, <1>6, <1>8, <1>10, <1>14, <1>15, <1>16 DEF Marked

\* The worker of a dead unit says at most that the death is not written.
Mourned(v) ==
  /\ Queued' = Queued
  /\ Heard' = Heard \/ Heard' = Heard \cup {DeathFailed(v)}
  /\ lost => lost'
  /\ \A k : k # "Death" /\ Alone(k) => Alone(k)'

LEMMA Mourns ==
    ASSUME Inv, NEW v \in Villager, DeathWorker(v)
    PROVE  /\ Mourned(v) /\ v \in dying /\ dying' = dying \ {v} /\ UNCHANGED <<city, ghost>>
           /\ \/ row' = TxKill(v)
              \/ Heard' = Heard \cup {DeathFailed(v)}
              \/ lost'
  <1>1. PICK m : m = DeathFailed(v)
    OBVIOUS
  <1>2. m \in Message /\ m.job.k = "Death"
    BY <1>1 DEF DeathFailed, Answer, Message, Deaths
  <1>3. queue' = queue /\ v \in dying /\ dying' = dying \ {v} /\ UNCHANGED <<city, ghost>>
    BY DEF DeathWorker, CommitDeath, GiveUpDeath
  <1>4. CASE CommitDeath(v)
    <2>1. inbox' = inbox /\ lost' = lost /\ row' = TxKill(v)
      BY <1>4 DEF CommitDeath
    <2>2. lost => lost'
      BY <2>1, Zenon
    <2> QED
      BY <1>3, <2>1, <2>2 DEF Mourned, Queued, Heard, Alone
  <1>5. CASE \E written \in BOOLEAN : GiveUpDeath(v, written)
    <2>1. inbox' = Offer(inbox, m) /\ lost' = (lost \/ Len(inbox) >= InboxSize)
      BY <1>1, <1>5 DEF GiveUpDeath
    <2>2. (lost => lost') /\ (Len(inbox) >= InboxSize => lost')
      BY <2>1, Zenon
    <2>3. (Heard' = Heard /\ lost') \/ Heard' = Heard \cup {m}
      BY <1>2, <2>1, <2>2, Offers
    <2>4. \A k : Few(inbox, k) /\ (m.job.k = k => None(inbox, k)) => Few(inbox', k)
      BY <1>2, <2>1, <2>2, Offers
    <2>5. ASSUME NEW k, k # "Death", Alone(k) PROVE Alone(k)'
      <3>1. Few(inbox', k) /\ Few(queue', k)
        BY <1>2, <1>3, <2>4, <2>5 DEF Alone
      <3>2. \A y \in ToSet(inbox') : y \in ToSet(inbox) \/ y = m
        BY <2>3 DEF Heard
      <3>3. None(inbox, k) => None(inbox', k)
        BY <1>2, <2>5, <3>2 DEF None
      <3> QED
        BY <1>3, <2>5, <3>1, <3>3 DEF Alone
    <2>6. Mourned(v)
      BY <1>1, <1>3, <2>2, <2>3, <2>5 DEF Mourned, Queued
    <2> QED
      BY <1>1, <1>3, <2>3, <2>6
  <1> QED
    BY <1>4, <1>5 DEF DeathWorker

\* Sequence b is a, and the n values of f after it.
Prolongs(a, b, f, n) ==
  /\ ToSet(a) \subseteq ToSet(b) /\ \A i \in 1..n : f[i] \in ToSet(b)
  /\ \A y \in ToSet(b) : y \in ToSet(a) \/ \E i \in 1..n : f[i] = y
  /\ \A k : Few(a, k) /\ (\A i \in 1..n : f[i].job.k # k) => Few(b, k)

LEMMA EndsMany ==
    ASSUME NEW S, NEW a \in Seq(S), NEW n \in Nat, NEW f \in [1..n -> S], NEW b, b = a \o f
    PROVE  Prolongs(a, b, f, n)
  <1>1. PICK p \in Nat : p = Len(a) /\ DOMAIN a = 1..p
    OBVIOUS
  <1>2. b \in Seq(S) /\ Len(b) = p + n
    BY <1>1, Joined
  <1>3. \A i \in 1..p : b[i] = a[i]
    BY <1>1, Joined
  <1>4. \A i \in (p + 1)..(p + n) : i - p \in 1..n /\ b[i] = f[i - p]
    BY <1>1, Joined
  <1>5. DOMAIN b = 1..(p + n)
    BY <1>2
  <1>6. \A i \in 1..(p + n) : i \in 1..p \/ i \in (p + 1)..(p + n)
    BY ONLY p \in Nat, n \in Nat
  <1>7. 1..p \subseteq 1..(p + n) /\ (p + 1)..(p + n) \subseteq 1..(p + n)
    BY ONLY p \in Nat, n \in Nat
  <1>8. ASSUME NEW i \in 1..n PROVE f[i] \in ToSet(b)
    <2>1. PICK q : q = p + i
      OBVIOUS
    <2>2. q \in (p + 1)..(p + n) /\ q - p = i
      BY ONLY <2>1, p \in Nat, n \in Nat, i \in 1..n
    <2>3. b[q] = f[i] /\ q \in DOMAIN b
      BY ONLY <1>4, <1>5, <1>7, <2>2
    <2> QED
      BY ONLY <2>3, Members
  <1>9. ASSUME NEW y \in ToSet(b) PROVE y \in ToSet(a) \/ \E i \in 1..n : f[i] = y
    <2>1. PICK i \in 1..(p + n) : b[i] = y
      BY ONLY <1>5, Members, y \in ToSet(b)
    <2>2. CASE i \in 1..p
      BY ONLY <1>1, <1>3, <2>1, <2>2, Members
    <2>3. CASE i \in (p + 1)..(p + n)
      BY ONLY <1>4, <2>1, <2>3
    <2> QED
      BY <1>6, <2>2, <2>3
  <1>10. ASSUME NEW y \in ToSet(a) PROVE y \in ToSet(b)
    <2>1. PICK i \in 1..p : a[i] = y
      BY ONLY <1>1, Members, y \in ToSet(a)
    <2> QED
      BY ONLY <1>3, <1>5, <1>7, <2>1, i \in 1..p, Members
  <1>11. ASSUME NEW k, Few(a, k), \A i \in 1..n : f[i].job.k # k PROVE Few(b, k)
    <2>1. ASSUME NEW i \in 1..(p + n), NEW l \in 1..(p + n), b[i].job.k = k, b[l].job.k = k PROVE i = l
      <3>1. i \in 1..p /\ l \in 1..p
        BY ONLY <1>4, <1>6, <1>11, <2>1, i \in 1..(p + n), l \in 1..(p + n)
      <3> QED
        BY ONLY <1>1, <1>3, <1>11, <2>1, <3>1 DEF Few
    <2>2. \A i, l \in 1..(p + n) : b[i].job.k = k /\ b[l].job.k = k => i = l
      BY ONLY <2>1
    <2> QED
      BY ONLY <1>5, <2>2 DEF Few
  <1> QED
    BY ONLY <1>8, <1>9, <1>10, <1>11 DEF Prolongs

\* A set in a sequence is all there.
LEMMA SetToSeqAll == ASSUME NEW S, IsFiniteSet(S) PROVE ToSet(SetToSeq(S)) = S
  <1> DEFINE n == Cardinality(S)
  <1>1. n \in Nat /\ \E f \in [1..n -> S] : IsInjective(f)
    BY FS_CardinalityType DEF ExistsBijection, Bijection, Injection
  <1>2. SetToSeq(S) \in [1..n -> S] /\ IsInjective(SetToSeq(S))
    BY <1>1 DEF SetToSeq
  <1>3. PICK f : f = SetToSeq(S)
    OBVIOUS
  <1>4. f \in Injection(1..n, S)
    BY <1>2, <1>3 DEF Injection
  <1>5. IsFiniteSet(1..n) /\ Cardinality(1..n) = n
    BY <1>1, FS_Interval
  <1>6. f \in Surjection(1..n, S)
    BY <1>4, <1>5, FS_Injection
  <1>7. DOMAIN f = 1..n /\ (\A i \in 1..n : f[i] \in S) /\ \A y \in S : \E i \in 1..n : f[i] = y
    BY <1>6 DEF Surjection
  <1>8. \A y : y \in ToSet(f) <=> y \in S
    BY <1>7, Members
  <1> QED
    BY <1>3, <1>8

\* What FlushDirty submits again.
Again == {Complete(n) : n \in {x \in city.completions : Standing(x)}} \cup {e \in {EraEnd} : city.eraEnd}
           \cup {Destroy(d.id, d.site) : d \in city.destructions}

LEMMA JoinedSets ==
    ASSUME NEW S, NEW a \in Seq(S), NEW b \in Seq(S)
    PROVE  a \o b \in Seq(S) /\ ToSet(a \o b) = ToSet(a) \cup ToSet(b)
  <1>1. PICK n \in Nat : n = Len(b) /\ DOMAIN b = 1..n /\ b \in [1..n -> S]
    OBVIOUS
  <1>2. PICK c : c = a \o b
    OBVIOUS
  <1>3. c \in Seq(S)
    BY <1>2
  <1>4. Prolongs(a, c, b, n)
    BY ONLY <1>1, <1>2, a \in Seq(S), EndsMany
  <1>5. ToSet(a) \subseteq ToSet(c) /\ (\A i \in 1..n : b[i] \in ToSet(c))
        /\ \A y \in ToSet(c) : y \in ToSet(a) \/ \E i \in 1..n : b[i] = y
    BY ONLY <1>4 DEF Prolongs
  <1>6. \A y : y \in ToSet(b) <=> \E i \in 1..n : b[i] = y
    BY <1>1, Members
  <1>7. ToSet(c) = ToSet(a) \cup ToSet(b)
    BY ONLY <1>5, <1>6
  <1> QED
    BY <1>2, <1>3, <1>7

LEMMA FlushAll == Inv => FlushJobs \in Seq(Jobs) /\ ToSet(FlushJobs) = Again
  <1> SUFFICES ASSUME Inv PROVE FlushJobs \in Seq(Jobs) /\ ToSet(FlushJobs) = Again
    OBVIOUS
  <1> DEFINE due == {x \in city.completions : Standing(x)}
             A == {Complete(n) : n \in due}
             D == {Destroy(d.id, d.site) : d \in city.destructions}
             B == {e \in {EraEnd} : city.eraEnd}
  <1>1. IsFiniteSet(A) /\ A \subseteq Jobs
    <2>1. IsFiniteSet(due) /\ due \subseteq Nat
      BY FS_Subset DEF Inv, Types, CityType
    <2>2. A \subseteq Jobs
      BY <2>1 DEF Complete, Jobs, OtherJobs
    <2> DEFINE f == [n \in due |-> Complete(n)]
    <2>3. f \in [due -> A] /\ \A y \in A : \E x \in due : f[x] = y
      OBVIOUS
    <2> HIDE DEF f, A, due
    <2> QED
      BY <2>1, <2>2, <2>3, ImageFinite
  <1>2. IsFiniteSet(D) /\ D \subseteq Jobs
    <2>1. IsFiniteSet(city.destructions) /\ city.destructions \subseteq [id : Nat \ {0}, site : Site]
      BY DEF Inv, Types, CityType
    <2>2. D \subseteq Jobs
      BY <2>1 DEF Destroy, Jobs, DestroyJobs
    <2> DEFINE f == [d \in city.destructions |-> Destroy(d.id, d.site)]
    <2>3. f \in [city.destructions -> D] /\ \A y \in D : \E x \in city.destructions : f[x] = y
      OBVIOUS
    <2> HIDE DEF f, D
    <2> QED
      BY <2>1, <2>2, <2>3, ImageFinite
  <1> HIDE DEF A, D
  <1>3. /\ SetToSeq(A) \in Seq(Jobs) /\ ToSet(SetToSeq(A)) = A
        /\ SetToSeq(D) \in Seq(Jobs) /\ ToSet(SetToSeq(D)) = D
    BY <1>1, <1>2, SetToSeqJobs, SetToSeqAll
  <1>4. PICK e : e = IF city.eraEnd THEN <<EraEnd>> ELSE <<>>
    OBVIOUS
  <1>5. e \in Seq(Jobs) /\ ToSet(e) = B
    <2>1. EraEnd \in Jobs
      BY DEF EraEnd, Jobs, OtherJobs, NoId
    <2>2. <<EraEnd>> \in Seq(Jobs) /\ <<>> \in Seq(Jobs)
      BY <2>1
    <2>3. ToSet(<<EraEnd>>) = {EraEnd} /\ ToSet(<<>>) = {}
      BY DEF ToSet
    <2>4. CASE city.eraEnd
      BY <1>4, <2>2, <2>3, <2>4
    <2>5. CASE ~city.eraEnd
      BY <1>4, <2>2, <2>3, <2>5
    <2> QED
      BY <2>4, <2>5
  <1> HIDE DEF B
  <1>6. PICK s, t : s = SetToSeq(A) /\ t = SetToSeq(D)
    OBVIOUS
  <1>7. FlushJobs = s \o e \o t
    BY <1>4, <1>6, Zenon DEF FlushJobs, A, D
  <1>11. PICK u : u = s \o e
    OBVIOUS
  <1>8. u \in Seq(Jobs) /\ ToSet(u) = A \cup B
    BY <1>3, <1>5, <1>6, <1>11, JoinedSets
  <1>9. u \o t \in Seq(Jobs) /\ ToSet(u \o t) = A \cup B \cup D
    BY <1>3, <1>6, <1>8, JoinedSets
  <1>10. Again = A \cup B \cup D
    BY Zenon DEF Again, A, B, D
  <1> QED
    BY <1>7, <1>9, <1>10, <1>11

\* The loop submits again what was given up: all of it is on its way, unless it is lost.
Resubmits ==
  /\ Queued \subseteq Queued' /\ \A x \in Queued' : x \in Queued \/ (x.job \in Again /\ ~x.done)
  /\ Heard \subseteq Heard' /\ \A m \in Heard' : m \in Heard \/ (m.job \in Again /\ ~m.ok)
  /\ lost => lost'
  /\ lost' \/ \A j \in Again : (\E x \in Queued' : x.job = j) \/ (\E m \in Heard' : m.job = j)
  /\ \A k : Alone(k) /\ (\A j \in Again : j.k # k) => Alone(k)'

LEMMA Resubmitted ==
    ASSUME Inv, NEW c, NEW jobs \in Seq(Jobs), ToSet(jobs) = Again, Becomes(c, inbox, jobs)
    PROVE  Resubmits /\ city' = c /\ UNCHANGED <<row, ghost>>
  <1>1. PICK fit : fit = Least(Len(jobs), QueueSize - Len(queue))
    OBVIOUS
  <1>2. PICK over : over = Len(jobs) - fit
    OBVIOUS
  <1>3. PICK told : told = Least(over, InboxSize - Len(inbox))
    OBVIOUS
  <1>4. queue \in Seq(Item) /\ Len(queue) \in Nat /\ Len(queue) <= QueueSize /\ inbox \in Seq(Message)
        /\ QueueSize \in Nat /\ InboxSize \in Nat /\ Len(inbox) \in Nat /\ Len(inbox) <= InboxSize /\ Len(jobs) \in Nat
    BY ConstantsAssumption DEF Inv, Types, QueueType, InboxType
  <1>5. fit \in Nat /\ over \in Nat /\ fit + over = Len(jobs) /\ fit <= Len(jobs)
    BY <1>1, <1>2, <1>4 DEF Least
  <1>6. told \in Nat /\ told <= over
    BY <1>3, <1>4, <1>5 DEF Least
  <1>7. PICK f : f = [i \in 1..fit |-> [job |-> jobs[i], done |-> FALSE]]
    OBVIOUS
  <1>8. PICK g : g = [i \in 1..told |-> Answer(jobs[fit + i], FALSE, NoId)]
    OBVIOUS
  <1>9. queue' = queue \o f /\ inbox' = inbox \o g /\ city' = c /\ UNCHANGED <<row, ghost>>
    BY <1>1, <1>2, <1>3, <1>7, <1>8 DEF Becomes
  <1>10. (lost => lost') /\ (told < over => lost')
    <2>1. lost' = (lost \/ told < over)
      BY <1>1, <1>2, <1>3, Zenon DEF Becomes
    <2> QED
      BY <2>1, Zenon
  <1>11. \A i \in 1..Len(jobs) : jobs[i] \in Jobs /\ jobs[i] \in Again
    BY <1>4, Members
  <1>12. \A j \in Again : \E i \in 1..Len(jobs) : jobs[i] = j
    BY <1>4, Members
  <1>13. \A i \in 1..fit : i \in 1..Len(jobs)
    BY ONLY <1>4, <1>5
  <1>14. \A i \in 1..told : fit + i \in 1..Len(jobs)
    BY ONLY <1>4, <1>5, <1>6
  <1>15. f \in [1..fit -> Item] /\ \A i \in 1..fit : f[i].job = jobs[i] /\ ~f[i].done
    <2>1. \A i \in 1..fit : [job |-> jobs[i], done |-> FALSE] \in Item
      BY <1>11, <1>13 DEF Item
    <2> QED
      BY <1>7, <2>1
  <1>16. g \in [1..told -> Message] /\ \A i \in 1..told : g[i].job = jobs[fit + i] /\ ~g[i].ok
    <2>1. \A i \in 1..told : Answer(jobs[fit + i], FALSE, NoId) \in Message
      BY <1>11, <1>14 DEF Answer, Message
    <2>2. \A i \in 1..told : Answer(jobs[fit + i], FALSE, NoId).job = jobs[fit + i] /\ ~Answer(jobs[fit + i], FALSE, NoId).ok
      BY DEF Answer
    <2> QED
      BY <1>8, <2>1, <2>2
  <1>17. PICK qs, ms : qs = queue \o f /\ ms = inbox \o g
    OBVIOUS
  <1>18. /\ ToSet(queue) \subseteq ToSet(qs) /\ \A i \in 1..fit : f[i] \in ToSet(qs)
         /\ \A y \in ToSet(qs) : y \in ToSet(queue) \/ \E i \in 1..fit : f[i] = y
         /\ \A k : Few(queue, k) /\ (\A i \in 1..fit : f[i].job.k # k) => Few(qs, k)
    <2>1. Prolongs(queue, qs, f, fit)
      BY ONLY <1>4, <1>5, <1>15, <1>17, EndsMany
    <2> QED
      BY ONLY <2>1 DEF Prolongs
  <1>19. /\ ToSet(inbox) \subseteq ToSet(ms) /\ \A i \in 1..told : g[i] \in ToSet(ms)
         /\ \A y \in ToSet(ms) : y \in ToSet(inbox) \/ \E i \in 1..told : g[i] = y
         /\ \A k : Few(inbox, k) /\ (\A i \in 1..told : g[i].job.k # k) => Few(ms, k)
    <2>1. Prolongs(inbox, ms, g, told)
      BY ONLY <1>4, <1>6, <1>16, <1>17, EndsMany
    <2> QED
      BY ONLY <2>1 DEF Prolongs
  <1>20. queue' = qs /\ inbox' = ms
    BY <1>9, <1>17
  <1>21. Queued \subseteq Queued' /\ \A x \in Queued' : x \in Queued \/ (x.job \in Again /\ ~x.done)
    BY <1>11, <1>13, <1>15, <1>18, <1>20 DEF Queued
  <1>22. Heard \subseteq Heard' /\ \A m \in Heard' : m \in Heard \/ (m.job \in Again /\ ~m.ok)
    BY <1>11, <1>14, <1>16, <1>19, <1>20 DEF Heard
  <1>23. ASSUME ~lost', NEW j \in Again PROVE (\E x \in Queued' : x.job = j) \/ (\E m \in Heard' : m.job = j)
    <2>1. PICK i \in 1..Len(jobs) : jobs[i] = j
      BY <1>12
    <2>2. told = over
      BY <1>5, <1>6, <1>10, <1>23
    <2>3. i \in 1..fit \/ \E l \in 1..told : fit + l = i
      <3>1. PICK l : l = i - fit
        OBVIOUS
      <3>2. i \in 1..fit \/ (l \in 1..told /\ fit + l = i)
        BY ONLY <1>4, <1>5, <2>2, <3>1, i \in 1..Len(jobs)
      <3> QED
        BY ONLY <3>2
    <2>4. CASE i \in 1..fit
      BY <1>15, <1>18, <1>20, <2>1, <2>4 DEF Queued
    <2>5. CASE \E l \in 1..told : fit + l = i
      BY <1>16, <1>19, <1>20, <2>1, <2>5 DEF Heard
    <2> QED
      BY <2>3, <2>4, <2>5
  <1>24. ASSUME NEW k, Alone(k), \A j \in Again : j.k # k PROVE Alone(k)'
    <2>1. Few(qs, k) /\ Few(ms, k)
      BY <1>11, <1>13, <1>14, <1>15, <1>16, <1>18, <1>19, <1>24 DEF Alone
    <2>2. None(queue, k) => None(qs, k)
      BY <1>21, <1>20, <1>24 DEF None, Queued
    <2>3. None(inbox, k) => None(ms, k)
      BY <1>22, <1>20, <1>24 DEF None, Heard
    <2> QED
      BY <1>20, <1>24, <2>1, <2>2, <2>3 DEF Alone
  <1> QED
    BY <1>9, <1>10, <1>21, <1>22, <1>23, <1>24 DEF Resubmits

LEMMA Flushes ==
    ASSUME Inv, FlushDirty
    PROVE  /\ Resubmits /\ dying' = dying \cup city.deaths /\ UNCHANGED <<row, ghost>>
           /\ city' = [city EXCEPT !.completions = {}, !.eraEnd = FALSE, !.destructions = {}, !.deaths = {}]
  <1>1. PICK c, jobs : c = [city EXCEPT !.completions = {}, !.eraEnd = FALSE, !.destructions = {}, !.deaths = {}]
                       /\ jobs = FlushJobs
    OBVIOUS
  <1>2. Becomes(c, inbox, jobs) /\ dying' = dying \cup city.deaths
    BY <1>1 DEF FlushDirty
  <1>3. jobs \in Seq(Jobs) /\ ToSet(jobs) = Again
    BY <1>1, FlushAll
  <1> QED
    BY <1>1, <1>2, <1>3, Resubmitted

-----------------------------------------------------------------------------
(* What a step is about.                                                    *)

\* The step says nothing of the jobs of the kinds of K.
Hushed(K) ==
  /\ \A x : x.job.k \in K => (x \in Queued' <=> x \in Queued) /\ (x \in Heard' <=> x \in Heard)
  /\ \A k \in K : Alone(k) => Alone(k)'
  /\ (lost => lost') /\ (ghost => ghost')

LEMMA SentHushed ==
    ASSUME NEW j, Sent(j), UNCHANGED ghost, NEW K, j.k \notin K
    PROVE  Hushed(K)
  <1>1. PICK x, m : x = [job |-> j, done |-> FALSE] /\ m = Answer(j, FALSE, NoId)
    OBVIOUS
  <1>2. x.job = j /\ m.job = j
    BY <1>1 DEF Answer
  <1>3. /\ Queued' = Queued \/ Queued' = Queued \cup {x}
        /\ Heard' = Heard \/ Heard' = Heard \cup {m}
    BY <1>1 DEF Sent
  <1>4. \A y : y.job.k \in K => (y \in Queued' <=> y \in Queued) /\ (y \in Heard' <=> y \in Heard)
    BY <1>2, <1>3
  <1>5. \A k \in K : Alone(k) => Alone(k)'
    BY DEF Sent
  <1>6. (lost => lost') /\ (ghost => ghost')
    BY DEF Sent
  <1> QED
    BY <1>4, <1>5, <1>6 DEF Hushed

LEMMA HeededHushed ==
    ASSUME NEW m, Heeded(m), UNCHANGED ghost, NEW K, m.job.k \notin K
    PROVE  Hushed(K)
  BY DEF Heeded, Hushed

LEMMA ServedHushed ==
    ASSUME NEW x, NEW m, m.job = x.job, NEW answered, Served(x, m, answered), ghost => ghost', NEW K, x.job.k \notin K
    PROVE  Hushed(K)
  <1>1. \A y : y.job.k \in K => (y \in Queued' <=> y \in Queued)
    BY DEF Served
  <1>2. \A y : y.job.k \in K => (y \in Heard' <=> y \in Heard)
    <2>1. Heard' = Heard \/ Heard' = Heard \cup {m}
      BY DEF Served
    <2> QED
      BY <2>1
  <1>3. (\A k : Alone(k) => Alone(k)') /\ (lost => lost')
    BY DEF Served
  <1> QED
    BY <1>1, <1>2, <1>3 DEF Hushed

LEMMA MarkedHushed ==
    ASSUME NEW x, NEW y, Marked(x, y), UNCHANGED ghost, NEW K, x.job.k \notin K
    PROVE  Hushed(K)
  <1>1. \A z : z.job.k \in K => (z \in Queued' <=> z \in Queued)
    BY DEF Marked
  <1>2. Heard' = Heard /\ (\A k : Alone(k) => Alone(k)') /\ (lost => lost')
    BY DEF Marked
  <1> QED
    BY <1>1, <1>2 DEF Hushed

LEMMA MournedHushed ==
    ASSUME NEW v, Mourned(v), UNCHANGED ghost, NEW K, "Death" \notin K
    PROVE  Hushed(K)
  <1>1. PICK m : m = DeathFailed(v)
    OBVIOUS
  <1>2. m.job.k = "Death"
    BY <1>1 DEF DeathFailed, Answer
  <1>3. Queued' = Queued /\ (Heard' = Heard \/ Heard' = Heard \cup {m})
    BY <1>1 DEF Mourned
  <1>4. \A y : y.job.k \in K => (y \in Queued' <=> y \in Queued) /\ (y \in Heard' <=> y \in Heard)
    BY <1>2, <1>3
  <1>5. (\A k \in K : Alone(k) => Alone(k)') /\ (lost => lost')
    BY DEF Mourned
  <1> QED
    BY <1>4, <1>5 DEF Hushed

LEMMA ResubmittedHushed ==
    ASSUME Resubmits, UNCHANGED ghost, NEW K, K \cap {"Complete", "EraEnd", "Destroy"} = {}
    PROVE  Hushed(K)
  <1>1. \A j \in Again : j.k \notin K
    BY DEF Again, Complete, EraEnd, Destroy
  <1>2. \A y : y.job.k \in K => (y \in Queued' <=> y \in Queued) /\ (y \in Heard' <=> y \in Heard)
    BY <1>1 DEF Resubmits
  <1>3. \A k \in K : Alone(k) => Alone(k)'
    BY <1>1 DEF Resubmits
  <1>4. lost => lost'
    BY DEF Resubmits
  <1> QED
    BY <1>2, <1>3, <1>4 DEF Hushed

LEMMA StillHushed == ASSUME UNCHANGED vars, NEW K PROVE Hushed(K)
  <1>1. UNCHANGED <<queue, inbox, lost, ghost>>
    BY DEF vars
  <1>2. (lost => lost') /\ (ghost => ghost')
    BY <1>1, Zenon
  <1> QED
    BY <1>1, <1>2 DEF Hushed, Queued, Heard, Alone, None, Few

\* A unit that is to die in the rows too.
Doomed(v) == v \in dying \/ v \in city.deaths \/ \E m \in Heard : m.job.k = "Death" /\ m.job.id = v

\* The step is about a job of kind k, or submits again what was given up ("Flush"):
\* what the other jobs are about stays.
Concerns(k) ==
  /\ k \notin {"Train", "Birth"} =>
       Hushed({"Train", "Birth"}) /\ city'.training = city.training /\ row'.prod = row.prod
  /\ k \notin {"Advance", "EraEnd", "Flush"} =>
       /\ Hushed({"Advance", "EraEnd"}) /\ city'.advance = city.advance /\ city'.era = city.era
       /\ city'.eraEnd = city.eraEnd /\ row'.adv = row.adv /\ row'.era = row.era
  /\ k \notin {"Build", "Complete", "Destroy", "Flush"} =>
       /\ Hushed({"Build", "Complete", "Destroy"}) /\ city'.houses = city.houses /\ city'.destroying = city.destroying
       /\ city'.completions = city.completions /\ city'.destructions = city.destructions /\ row'.houses = row.houses
  /\ k \notin {"Birth", "Death"} =>
       /\ city'.units = city.units /\ row'.units = row.units /\ (lost => lost')
       /\ \A v : Doomed(v)' <=> Doomed(v)

LEMMA DoomedSame ==
    ASSUME Hushed({"Death"}), dying' = dying, city'.deaths = city.deaths
    PROVE  \A v : Doomed(v)' <=> Doomed(v)
  BY DEF Hushed, Doomed

LEMMA BuildConcerns == ASSUME Inv, NEW t \in Site, BuildBuilding(t) PROVE Sent(Build(Fresh, t)) /\ UNCHANGED <<row, ghost>> /\ Concerns("Build")
  <1>1. PICK c, j : c = [city EXCEPT !.houses[t] = [id |-> Fresh, st |-> "ORDERED"]] /\ j = Build(Fresh, t)
    OBVIOUS
  <1>2. j \in Jobs /\ j.k = "Build"
    BY <1>1, FreshId DEF Build, Jobs, BuildJobs, Inv
  <1>3. Becomes(c, inbox, <<j>>) /\ dying' = dying
    BY <1>1 DEF BuildBuilding
  <1>4. Sent(j) /\ city' = c /\ UNCHANGED <<row, ghost>>
    BY <1>2, <1>3, Sends
  <1>5. /\ city'.training = city.training /\ city'.advance = city.advance /\ city'.era = city.era /\ city'.eraEnd = city.eraEnd
        /\ city'.units = city.units /\ city'.deaths = city.deaths
    BY <1>1, <1>4 DEF Inv, Types, CityType, CityShape
  <1>6. Hushed({"Train", "Birth"}) /\ Hushed({"Advance", "EraEnd"}) /\ Hushed({"Death"})
    BY <1>2, <1>4, SentHushed
  <1>7. lost => lost'
    BY <1>4 DEF Sent
  <1> QED
    BY <1>1, <1>3, <1>4, <1>5, <1>6, <1>7, DoomedSame DEF Concerns

LEMMA TrainConcerns == Inv /\ TrainUnit => Sent(Train(Fresh)) /\ UNCHANGED <<row, ghost>> /\ Concerns("Train")
  <1> SUFFICES ASSUME Inv, TrainUnit PROVE Sent(Train(Fresh)) /\ UNCHANGED <<row, ghost>> /\ Concerns("Train")
    OBVIOUS
  <1>1. PICK c, j : c = [city EXCEPT !.pop = @ + 1, !.training = [req |-> Fresh, st |-> "ORDERED"]] /\ j = Train(Fresh)
    OBVIOUS
  <1>2. j \in Jobs /\ j.k = "Train"
    BY <1>1, FreshId DEF Train, Jobs, OtherJobs, Inv
  <1>3. Becomes(c, inbox, <<j>>) /\ dying' = dying
    BY <1>1 DEF TrainUnit
  <1>4. Sent(j) /\ city' = c /\ UNCHANGED <<row, ghost>>
    BY <1>2, <1>3, Sends
  <1>5. /\ city'.houses = city.houses /\ city'.destroying = city.destroying /\ city'.completions = city.completions
        /\ city'.destructions = city.destructions /\ city'.advance = city.advance /\ city'.era = city.era /\ city'.eraEnd = city.eraEnd
        /\ city'.units = city.units /\ city'.deaths = city.deaths
    BY <1>1, <1>4 DEF Inv, Types, CityType, CityShape
  <1>6. Hushed({"Build", "Complete", "Destroy"}) /\ Hushed({"Advance", "EraEnd"}) /\ Hushed({"Death"})
    BY <1>2, <1>4, SentHushed
  <1>7. lost => lost'
    BY <1>4 DEF Sent
  <1> QED
    BY <1>1, <1>3, <1>4, <1>5, <1>6, <1>7, DoomedSame DEF Concerns

LEMMA AdvanceConcerns == Inv /\ AdvanceEra => Sent(Advance(Fresh)) /\ UNCHANGED <<row, ghost>> /\ Concerns("Advance")
  <1> SUFFICES ASSUME Inv, AdvanceEra PROVE Sent(Advance(Fresh)) /\ UNCHANGED <<row, ghost>> /\ Concerns("Advance")
    OBVIOUS
  <1>1. PICK c, j : c = [city EXCEPT !.advance = [req |-> Fresh, st |-> "ORDERED"]] /\ j = Advance(Fresh)
    OBVIOUS
  <1>2. j \in Jobs /\ j.k = "Advance"
    BY <1>1, FreshId DEF Advance, Jobs, OtherJobs, Inv
  <1>3. Becomes(c, inbox, <<j>>) /\ dying' = dying
    BY <1>1 DEF AdvanceEra
  <1>4. Sent(j) /\ city' = c /\ UNCHANGED <<row, ghost>>
    BY <1>2, <1>3, Sends
  <1>5. /\ city'.houses = city.houses /\ city'.destroying = city.destroying /\ city'.completions = city.completions
        /\ city'.destructions = city.destructions /\ city'.training = city.training
        /\ city'.units = city.units /\ city'.deaths = city.deaths
    BY <1>1, <1>4 DEF Inv, Types, CityType, CityShape
  <1>6. Hushed({"Build", "Complete", "Destroy"}) /\ Hushed({"Train", "Birth"}) /\ Hushed({"Death"})
    BY <1>2, <1>4, SentHushed
  <1>7. lost => lost'
    BY <1>4 DEF Sent
  <1> QED
    BY <1>1, <1>3, <1>4, <1>5, <1>6, <1>7, DoomedSame DEF Concerns

LEMMA CompleteConcerns ==
    ASSUME Inv, NEW t \in Site, CompleteBuilding(t)
    PROVE  Sent(Complete(city.houses[t].id)) /\ UNCHANGED <<row, ghost>> /\ Concerns("Complete")
  <1>1. PICK c, j : c = [city EXCEPT !.houses[t].st = "COMPLETE", !.limit = @ + Bonus] /\ j = Complete(city.houses[t].id)
    OBVIOUS
  <1>2. j \in Jobs /\ j.k = "Complete"
    <2>1. city.houses[t] \in House
      BY DEF Inv, Types, CityType
    <2>2. city.houses[t].id \in Nat
      BY <2>1 DEF House, NoHouse, NoId
    <2> QED
      BY <1>1, <2>2 DEF Complete, Jobs, OtherJobs
  <1>3. Becomes(c, inbox, <<j>>) /\ dying' = dying
    BY <1>1 DEF CompleteBuilding
  <1>4. Sent(j) /\ city' = c /\ UNCHANGED <<row, ghost>>
    BY <1>2, <1>3, Sends
  <1>5. /\ city'.training = city.training /\ city'.advance = city.advance /\ city'.era = city.era /\ city'.eraEnd = city.eraEnd
        /\ city'.units = city.units /\ city'.deaths = city.deaths
    BY <1>1, <1>4 DEF Inv, Types, CityType, CityShape
  <1>6. Hushed({"Train", "Birth"}) /\ Hushed({"Advance", "EraEnd"}) /\ Hushed({"Death"})
    BY <1>2, <1>4, SentHushed
  <1>7. lost => lost'
    BY <1>4 DEF Sent
  <1> QED
    BY <1>1, <1>3, <1>4, <1>5, <1>6, <1>7, DoomedSame DEF Concerns

LEMMA BirthConcerns == Inv /\ CompleteProduction => Sent(Birth) /\ UNCHANGED <<row, ghost>> /\ Concerns("Birth")
  <1> SUFFICES ASSUME Inv, CompleteProduction PROVE Sent(Birth) /\ UNCHANGED <<row, ghost>> /\ Concerns("Birth")
    OBVIOUS
  <1>1. PICK c, j : c = [city EXCEPT !.training.st = "BIRTHING"] /\ j = Birth
    OBVIOUS
  <1>2. j \in Jobs /\ j.k = "Birth"
    BY <1>1 DEF Birth, Jobs, OtherJobs, NoId
  <1>3. Becomes(c, inbox, <<j>>) /\ dying' = dying
    BY <1>1 DEF CompleteProduction
  <1>4. Sent(j) /\ city' = c /\ UNCHANGED <<row, ghost>>
    BY <1>2, <1>3, Sends
  <1>5. /\ city'.houses = city.houses /\ city'.destroying = city.destroying /\ city'.completions = city.completions
        /\ city'.destructions = city.destructions /\ city'.advance = city.advance /\ city'.era = city.era /\ city'.eraEnd = city.eraEnd
    BY <1>1, <1>4 DEF Inv, Types, CityType, CityShape
  <1>6. Hushed({"Build", "Complete", "Destroy"}) /\ Hushed({"Advance", "EraEnd"})
    BY <1>2, <1>4, SentHushed
  <1> QED
    BY <1>1, <1>4, <1>5, <1>6 DEF Concerns

LEMMA DestroyConcerns ==
    ASSUME Inv, NEW t \in Site, DestroyHouse(t)
    PROVE  Sent(Destroy(city.houses[t].id, t)) /\ UNCHANGED <<row, ghost>> /\ Concerns("Destroy")
  <1>1. PICK c, j : /\ c = [city EXCEPT !.houses[t] = NoHouse, !.destroying[t] = city.houses[t].id,
                                        !.completions = @ \ {city.houses[t].id},
                                        !.limit = IF city.houses[t].st = "COMPLETE" THEN @ - Bonus ELSE @]
                    /\ j = Destroy(city.houses[t].id, t)
    OBVIOUS
  <1>2. j \in Jobs /\ j.k = "Destroy"
    <2>1. city.houses[t] \in House /\ city.houses[t].st # "NONE"
      BY DEF Inv, Types, CityType, DestroyHouse
    <2>2. city.houses[t].id \in Nat \ {0}
      BY <2>1 DEF House, NoHouse
    <2> QED
      BY <1>1, <2>2 DEF Destroy, Jobs, DestroyJobs
  <1>3. Becomes(c, inbox, <<j>>) /\ dying' = dying
    BY <1>1 DEF DestroyHouse
  <1>4. Sent(j) /\ city' = c /\ UNCHANGED <<row, ghost>>
    BY <1>2, <1>3, Sends
  <1>5. /\ city'.training = city.training /\ city'.advance = city.advance /\ city'.era = city.era /\ city'.eraEnd = city.eraEnd
        /\ city'.units = city.units /\ city'.deaths = city.deaths
    BY <1>1, <1>4 DEF Inv, Types, CityType, CityShape
  <1>6. Hushed({"Train", "Birth"}) /\ Hushed({"Advance", "EraEnd"}) /\ Hushed({"Death"})
    BY <1>2, <1>4, SentHushed
  <1>7. lost => lost'
    BY <1>4 DEF Sent
  <1> QED
    BY <1>1, <1>3, <1>4, <1>5, <1>6, <1>7, DoomedSame DEF Concerns

LEMMA EraConcerns ==
    ASSUME Inv, CompleteAdvance, city.era = "VILLAGE"
    PROVE  /\ Sent(EraEnd) /\ UNCHANGED <<row, ghost>> /\ Concerns("EraEnd")
           /\ city' = [city EXCEPT !.advance = NoWork, !.era = "TOWN", !.limit = @ + TownCap - VillageCap]
  <1>1. PICK c, j : c = [city EXCEPT !.advance = NoWork, !.era = "TOWN", !.limit = @ + TownCap - VillageCap] /\ j = EraEnd
    OBVIOUS
  <1>2. j \in Jobs /\ j.k = "EraEnd"
    BY <1>1 DEF EraEnd, Jobs, OtherJobs, NoId
  <1>3. Becomes(c, inbox, <<j>>) /\ dying' = dying
    BY <1>1 DEF CompleteAdvance
  <1>4. Sent(j) /\ city' = c /\ UNCHANGED <<row, ghost>>
    BY <1>2, <1>3, Sends
  <1>5. /\ city'.houses = city.houses /\ city'.destroying = city.destroying /\ city'.completions = city.completions
        /\ city'.destructions = city.destructions /\ city'.training = city.training
        /\ city'.units = city.units /\ city'.deaths = city.deaths
    BY <1>1, <1>4 DEF Inv, Types, CityType, CityShape
  <1>6. Hushed({"Build", "Complete", "Destroy"}) /\ Hushed({"Train", "Birth"}) /\ Hushed({"Death"})
    BY <1>2, <1>4, SentHushed
  <1>7. lost => lost'
    BY <1>4 DEF Sent
  <1> QED
    BY <1>1, <1>3, <1>4, <1>5, <1>6, <1>7, DoomedSame DEF Concerns

LEMMA KillConcerns == ASSUME Inv, NEW v \in Villager, Kill(v) PROVE Concerns("Death") /\ UNCHANGED <<row, ghost, lost, queue, inbox>>
  <1>1. UNCHANGED <<row, ghost, lost, queue, inbox>>
    BY DEF Kill
  <1>2. (lost => lost') /\ (ghost => ghost')
    BY <1>1, Zenon
  <1>3. \A K : Hushed(K)
    BY <1>1, <1>2 DEF Hushed, Queued, Heard, Alone, None, Few
  <1>4. /\ city'.houses = city.houses /\ city'.destroying = city.destroying /\ city'.completions = city.completions
        /\ city'.destructions = city.destructions /\ city'.training = city.training
        /\ city'.advance = city.advance /\ city'.era = city.era /\ city'.eraEnd = city.eraEnd
    BY DEF Kill, Inv, Types, CityType, CityShape
  <1> QED
    BY <1>1, <1>3, <1>4 DEF Concerns

LEMMA DeathConcerns ==
    ASSUME Inv, NEW v \in Villager, DeathWorker(v)
    PROVE  Concerns("Death") /\ city' = city /\ (row' = row \/ row' = TxKill(v)) /\ Mourned(v) /\ ghost' = ghost
  <1>1. Mourned(v) /\ UNCHANGED <<city, ghost>>
    BY Mourns
  <1>2. row' = row \/ row' = TxKill(v)
    BY DEF DeathWorker, CommitDeath, GiveUpDeath
  <1>3. row'.prod = row.prod /\ row'.adv = row.adv /\ row'.era = row.era /\ row'.houses = row.houses
    BY <1>2 DEF TxKill, Inv, Types, BaseType, Rows, RowShape
  <1>4. Hushed({"Build", "Complete", "Destroy"}) /\ Hushed({"Advance", "EraEnd"}) /\ Hushed({"Train", "Birth"})
    BY <1>1, MournedHushed
  <1> QED
    BY <1>1, <1>2, <1>3, <1>4 DEF Concerns

LEMMA FlushConcerns == Inv /\ FlushDirty => Concerns("Flush")
  <1> SUFFICES ASSUME Inv, FlushDirty PROVE Concerns("Flush")
    OBVIOUS
  <1>1. /\ Resubmits /\ dying' = dying \cup city.deaths /\ UNCHANGED <<row, ghost>>
        /\ city' = [city EXCEPT !.completions = {}, !.eraEnd = FALSE, !.destructions = {}, !.deaths = {}]
    BY Flushes
  <1>2. city'.training = city.training /\ city'.units = city.units /\ city'.deaths = {}
    BY <1>1 DEF Inv, Types, CityType, CityShape
  <1>3. Hushed({"Train", "Birth"}) /\ Hushed({"Death"})
    BY <1>1, ResubmittedHushed
  <1>4. \A v : Doomed(v)' <=> Doomed(v)
    BY <1>1, <1>2, <1>3 DEF Hushed, Doomed
  <1>5. lost => lost'
    BY <1>1 DEF Resubmits
  <1> QED
    BY <1>1, <1>2, <1>3, <1>4, <1>5 DEF Concerns

LEMMA HandleConcerns ==
    ASSUME Inv, Handle
    PROVE  \E m \in Message : Heeded(m) /\ city' = Handled(m) /\ UNCHANGED <<row, ghost, dying>> /\ Concerns(m.job.k)
  <1>1. PICK m : m \in Message /\ Heeded(m) /\ city' = Handled(m) /\ UNCHANGED <<row, ghost, dying>>
    BY Heeds
  <1>2. \A K : m.job.k \notin K => Hushed(K)
    BY <1>1, HeededHushed
  <1>3. lost => lost'
    BY <1>1 DEF Heeded
  <1>4. CityShape /\ city.houses \in [Site -> House] /\ city.destroying \in [Site -> Nat]
    BY DEF Inv, Types, CityType
  <1>5. CASE m.job.k = "Build"
    <2>1. city' = HandleBuildResolved(m)
      BY <1>1, <1>5 DEF Handled
    <2>2. /\ city'.training = city.training /\ city'.advance = city.advance /\ city'.era = city.era /\ city'.eraEnd = city.eraEnd
          /\ city'.units = city.units /\ city'.deaths = city.deaths
      BY <1>4, <2>1 DEF HandleBuildResolved, CityShape
    <2>3. Hushed({"Train", "Birth"}) /\ Hushed({"Advance", "EraEnd"}) /\ Hushed({"Death"})
      BY <1>2, <1>5
    <2>4. Concerns(m.job.k)
      BY <1>1, <1>3, <1>5, <2>2, <2>3, DoomedSame DEF Concerns
    <2> QED
      BY <1>1, <2>4
  <1>6. CASE m.job.k = "Train"
    <2>1. city' = HandleTrainResolved(m)
      BY <1>1, <1>6 DEF Handled
    <2>2. /\ city'.houses = city.houses /\ city'.destroying = city.destroying /\ city'.completions = city.completions
          /\ city'.destructions = city.destructions /\ city'.advance = city.advance /\ city'.era = city.era /\ city'.eraEnd = city.eraEnd
          /\ city'.units = city.units /\ city'.deaths = city.deaths
      BY <1>4, <2>1 DEF HandleTrainResolved, CityShape
    <2>3. Hushed({"Build", "Complete", "Destroy"}) /\ Hushed({"Advance", "EraEnd"}) /\ Hushed({"Death"})
      BY <1>2, <1>6
    <2>4. Concerns(m.job.k)
      BY <1>1, <1>3, <1>6, <2>2, <2>3, DoomedSame DEF Concerns
    <2> QED
      BY <1>1, <2>4
  <1>7. CASE m.job.k = "Advance"
    <2>1. city' = HandleAdvanceResolved(m)
      BY <1>1, <1>7 DEF Handled
    <2>2. /\ city'.houses = city.houses /\ city'.destroying = city.destroying /\ city'.completions = city.completions
          /\ city'.destructions = city.destructions /\ city'.training = city.training
          /\ city'.units = city.units /\ city'.deaths = city.deaths
      BY <1>4, <2>1 DEF HandleAdvanceResolved, CityShape
    <2>3. Hushed({"Build", "Complete", "Destroy"}) /\ Hushed({"Train", "Birth"}) /\ Hushed({"Death"})
      BY <1>2, <1>7
    <2>4. Concerns(m.job.k)
      BY <1>1, <1>3, <1>7, <2>2, <2>3, DoomedSame DEF Concerns
    <2> QED
      BY <1>1, <2>4
  <1>8. CASE m.job.k = "Birth"
    <2>1. city' = HandleBirthResolved(m)
      BY <1>1, <1>8 DEF Handled
    <2>2. /\ city'.houses = city.houses /\ city'.destroying = city.destroying /\ city'.completions = city.completions
          /\ city'.destructions = city.destructions /\ city'.advance = city.advance /\ city'.era = city.era /\ city'.eraEnd = city.eraEnd
      BY <1>4, <2>1 DEF HandleBirthResolved, CityShape
    <2>3. Hushed({"Build", "Complete", "Destroy"}) /\ Hushed({"Advance", "EraEnd"})
      BY <1>2, <1>8
    <2>4. Concerns(m.job.k)
      BY <1>1, <1>8, <2>2, <2>3 DEF Concerns
    <2> QED
      BY <1>1, <2>4
  <1>9. CASE m.job.k = "Complete"
    <2>1. city' = HandleBuildingCompletePersistFailed(m)
      BY <1>1, <1>9 DEF Handled
    <2>2. /\ city'.training = city.training /\ city'.advance = city.advance /\ city'.era = city.era /\ city'.eraEnd = city.eraEnd
          /\ city'.units = city.units /\ city'.deaths = city.deaths
      BY <1>4, <2>1 DEF HandleBuildingCompletePersistFailed, CityShape
    <2>3. Hushed({"Train", "Birth"}) /\ Hushed({"Advance", "EraEnd"}) /\ Hushed({"Death"})
      BY <1>2, <1>9
    <2>4. Concerns(m.job.k)
      BY <1>1, <1>3, <1>9, <2>2, <2>3, DoomedSame DEF Concerns
    <2> QED
      BY <1>1, <2>4
  <1>10. CASE m.job.k = "EraEnd"
    <2>1. city' = [city EXCEPT !.eraEnd = TRUE]
      BY <1>1, <1>10 DEF Handled
    <2>2. /\ city'.houses = city.houses /\ city'.destroying = city.destroying /\ city'.completions = city.completions
          /\ city'.destructions = city.destructions /\ city'.training = city.training
          /\ city'.units = city.units /\ city'.deaths = city.deaths
      BY <1>4, <2>1 DEF CityShape
    <2>3. Hushed({"Build", "Complete", "Destroy"}) /\ Hushed({"Train", "Birth"}) /\ Hushed({"Death"})
      BY <1>2, <1>10
    <2>4. Concerns(m.job.k)
      BY <1>1, <1>3, <1>10, <2>2, <2>3, DoomedSame DEF Concerns
    <2> QED
      BY <1>1, <2>4
  <1>11. CASE m.job.k = "Death"
    <2>1. city' = HandleDeathPersistFailed(m)
      BY <1>1, <1>11 DEF Handled
    <2>2. /\ city'.houses = city.houses /\ city'.destroying = city.destroying /\ city'.completions = city.completions
          /\ city'.destructions = city.destructions /\ city'.training = city.training
          /\ city'.advance = city.advance /\ city'.era = city.era /\ city'.eraEnd = city.eraEnd
      BY <1>4, <2>1 DEF HandleDeathPersistFailed, CityShape
    <2>3. Hushed({"Build", "Complete", "Destroy"}) /\ Hushed({"Train", "Birth"}) /\ Hushed({"Advance", "EraEnd"})
      BY <1>2, <1>11
    <2>4. Concerns(m.job.k)
      BY <1>1, <1>11, <2>2, <2>3 DEF Concerns
    <2> QED
      BY <1>1, <2>4
  <1>12. CASE m.job.k = "Destroy"
    <2>1. city' = HandleBuildingDestroyResolved(m) \/ city' = HandleBuildingDestroyPersistFailed(m)
      BY <1>1, <1>12 DEF Handled
    <2>2. /\ city'.training = city.training /\ city'.advance = city.advance /\ city'.era = city.era /\ city'.eraEnd = city.eraEnd
          /\ city'.units = city.units /\ city'.deaths = city.deaths
      BY <1>4, <2>1 DEF HandleBuildingDestroyResolved, HandleBuildingDestroyPersistFailed, CityShape
    <2>3. Hushed({"Train", "Birth"}) /\ Hushed({"Advance", "EraEnd"}) /\ Hushed({"Death"})
      BY <1>2, <1>12
    <2>4. Concerns(m.job.k)
      BY <1>1, <1>3, <1>12, <2>2, <2>3, DoomedSame DEF Concerns
    <2> QED
      BY <1>1, <2>4
  <1>13. m.job.k \in {"Build", "Train", "Advance", "Birth", "Complete", "EraEnd", "Death", "Destroy"}
    <2>1. m.job \in Jobs \cup Deaths
      BY <1>1 DEF Message
    <2> QED
      BY <2>1 DEF Jobs, BuildJobs, DestroyJobs, OtherJobs, Deaths
  <1> QED
    BY <1>5, <1>6, <1>7, <1>8, <1>9, <1>10, <1>11, <1>12, <1>13

\* A transaction touches the rows of its job.
LEMMA RunTouches ==
    ASSUME BaseType, NEW j \in Jobs, NEW afford \in BOOLEAN, row' = Run(j, afford).row
    PROVE  /\ j.k \notin {"Train", "Birth"} => row'.prod = row.prod
           /\ j.k \notin {"Advance", "EraEnd"} => row'.adv = row.adv /\ row'.era = row.era
           /\ j.k \notin {"Build", "Complete", "Destroy"} => row'.houses = row.houses
           /\ j.k # "Birth" => row'.units = row.units
  <1> USE DEF BaseType, Rows, RowShape
  <1>1. CASE j.k = "Build"
    <2>1. row' = TxBuild(j, afford).row
      BY <1>1 DEF Run
    <2> QED
      BY <1>1, <2>1 DEF TxBuild, Wrote, Refused
  <1>2. CASE j.k = "Train"
    <2>1. row' = TxTrain(j, afford).row
      BY <1>2 DEF Run
    <2> QED
      BY <1>2, <2>1 DEF TxTrain, Wrote, Refused
  <1>3. CASE j.k = "Advance"
    <2>1. row' = TxAdvance(j, afford).row
      BY <1>3 DEF Run
    <2> QED
      BY <1>3, <2>1 DEF TxAdvance, Wrote, Refused
  <1>4. CASE j.k = "Complete"
    <2>1. row' = TxCompleteBuilding(j).row
      BY <1>4 DEF Run
    <2> QED
      BY <1>4, <2>1 DEF TxCompleteBuilding, Wrote
  <1>5. CASE j.k = "Destroy"
    <2>1. row' = TxDestroyBuilding(j).row
      BY <1>5 DEF Run
    <2> QED
      BY <1>5, <2>1 DEF TxDestroyBuilding, Wrote
  <1>6. CASE j.k = "Birth"
    <2>1. PICK v : v = CHOOSE x \in Newborn \cup {NoId} : Newborn # {} => x \in Newborn
      OBVIOUS
    <2>2. row' = TxBirthUnit(v).row
      BY <1>6, <2>1 DEF Run
    <2> QED
      BY <1>6, <2>2 DEF TxBirthUnit, Wrote
  <1>7. CASE j.k = "EraEnd"
    <2>1. row' = TxCompleteAdvance.row
      BY <1>7 DEF Run
    <2> QED
      BY <1>7, <2>1 DEF TxCompleteAdvance, Wrote
  <1> QED
    BY <1>1, <1>2, <1>3, <1>4, <1>5, <1>6, <1>7 DEF Jobs, BuildJobs, DestroyJobs, OtherJobs

\* What a worker does is about the kind of its job.
LEMMA WorkerConcerns ==
    ASSUME Inv, NEW j \in Jobs, UNCHANGED <<city, dying>>, \A K : j.k \notin K => Hushed(K),
           row' = row \/ \E afford \in BOOLEAN : row' = Run(j, afford).row
    PROVE  Concerns(j.k)
  <1>1. BaseType
    BY DEF Inv, Types
  <1>2. /\ j.k \notin {"Train", "Birth"} => row'.prod = row.prod
        /\ j.k \notin {"Advance", "EraEnd"} => row'.adv = row.adv /\ row'.era = row.era
        /\ j.k \notin {"Build", "Complete", "Destroy"} => row'.houses = row.houses
        /\ j.k # "Birth" => row'.units = row.units
    <2>1. CASE row' = row
      BY <2>1
    <2>2. CASE \E afford \in BOOLEAN : row' = Run(j, afford).row
      BY <1>1, <2>2, RunTouches
    <2> QED
      BY <2>1, <2>2
  <1>3. j.k # "Death" /\ j.k # "Flush"
    BY DEF Jobs, BuildJobs, DestroyJobs, OtherJobs
  <1>4. Hushed({"Death"})
    BY <1>3
  <1>5. \A v : Doomed(v)' <=> Doomed(v)
    BY <1>4, DoomedSame
  <1>6. lost => lost'
    BY <1>4 DEF Hushed
  <1> QED
    BY <1>2, <1>3, <1>5, <1>6 DEF Concerns

LEMMA CommitConcerns ==
    ASSUME Inv, NEW afford \in BOOLEAN, Commit(afford)
    PROVE  \E x \in Item, m \in Message :
             /\ Runnable(x.job) /\ m = Answer(x.job, Run(x.job, afford).ok, Run(x.job, afford).born)
             /\ row' = Run(x.job, afford).row /\ Served(x, m, Answers(x.job))
             /\ UNCHANGED <<city, dying, ghost>> /\ Concerns(x.job.k)
  <1>1. queue # <<>> /\ queue' = Tail(queue) /\ UNCHANGED <<city, dying, ghost>> /\ BaseType
    BY DEF Commit, Inv, Types
  <1>2. PICK x : x = Head(queue)
    OBVIOUS
  <1>3. x \in Item
    BY <1>1, <1>2 DEF Inv, Types, QueueType
  <1>4. x.job \in Jobs
    BY <1>3 DEF Item
  <1>5. PICK m : m = Answer(x.job, Run(x.job, afford).ok, Run(x.job, afford).born)
    OBVIOUS
  <1>6. m \in Message /\ m.job = x.job
    BY <1>1, <1>4, <1>5, RunAnswers DEF Answer
  <1>7. Runnable(x.job) /\ row' = Run(x.job, afford).row
    BY <1>2 DEF Commit
  <1>8. (Answers(x.job) => inbox' = Offer(inbox, m)) /\ (~Answers(x.job) => inbox' = inbox)
    BY <1>2, <1>5 DEF Commit
  <1>9. (lost => lost') /\ (Answers(x.job) /\ Len(inbox) >= InboxSize => lost')
    <2>1. lost' = (lost \/ (Answers(x.job) /\ Len(inbox) >= InboxSize))
      BY <1>2, Zenon DEF Commit
    <2> QED
      BY <2>1, Zenon
  <1>10. PICK answered \in BOOLEAN : answered = Answers(x.job)
    BY DEF Answers
  <1>11. Served(x, m, Answers(x.job))
    BY <1>1, <1>2, <1>6, <1>8, <1>9, Serves
  <1>12. \A K : x.job.k \notin K => Hushed(K)
    <2>1. ghost => ghost'
      BY <1>1
    <2> QED
      BY <1>6, <1>11, <2>1, ServedHushed
  <1>13. Concerns(x.job.k)
    BY <1>1, <1>4, <1>7, <1>12, WorkerConcerns
  <1> QED
    BY <1>1, <1>3, <1>5, <1>6, <1>7, <1>11, <1>13

LEMMA GiveUpConcerns ==
    ASSUME Inv, GiveUp
    PROVE  \E x \in Item, m \in Message :
             /\ m = Answer(x.job, FALSE, NoId) /\ Served(x, m, TRUE) /\ UNCHANGED <<city, dying, row>>
             /\ (ghost => ghost') /\ (x.done /\ IsOrder(x.job) => ghost') /\ Concerns(x.job.k)
  <1>1. queue # <<>> /\ queue' = Tail(queue) /\ UNCHANGED <<city, dying, row>>
    BY DEF GiveUp
  <1>2. PICK x : x = Head(queue)
    OBVIOUS
  <1>3. x \in Item
    BY <1>1, <1>2 DEF Inv, Types, QueueType
  <1>4. x.job \in Jobs
    BY <1>3 DEF Item
  <1>5. PICK m : m = Answer(x.job, FALSE, NoId)
    OBVIOUS
  <1>6. m \in Message /\ m.job = x.job
    BY <1>4, <1>5 DEF Answer, Message
  <1>7. inbox' = Offer(inbox, m)
    BY <1>2, <1>5 DEF GiveUp
  <1>8. (lost => lost') /\ (Len(inbox) >= InboxSize => lost')
    <2>1. lost' = (lost \/ Len(inbox) >= InboxSize)
      BY <1>2, Zenon DEF GiveUp
    <2> QED
      BY <2>1, Zenon
  <1>9. (ghost => ghost') /\ (x.done /\ IsOrder(x.job) => ghost')
    <2>1. ghost' = (ghost \/ (x.done /\ IsOrder(x.job)))
      BY <1>2, Zenon DEF GiveUp
    <2> QED
      BY <2>1, Zenon
  <1>10. Served(x, m, TRUE)
    BY <1>1, <1>2, <1>6, <1>7, <1>8, Serves
  <1>11. \A K : x.job.k \notin K => Hushed(K)
    BY <1>6, <1>9, <1>10, ServedHushed
  <1>12. Concerns(x.job.k)
    BY <1>1, <1>4, <1>11, WorkerConcerns
  <1> QED
    BY <1>1, <1>3, <1>5, <1>6, <1>9, <1>10, <1>12

LEMMA MarkConcerns ==
    ASSUME Inv, CommitUnacked
    PROVE  \E x, y :
             /\ x \in Item /\ Runnable(x.job) /\ Marked(x, y) /\ (\E afford \in BOOLEAN : row' = Run(x.job, afford).row)
             /\ UNCHANGED <<city, dying, ghost>> /\ Concerns(x.job.k)
  <1>1. PICK x : x = Head(queue)
    OBVIOUS
  <1>2. queue # <<>> /\ Runnable(x.job) /\ row' = Run(x.job, TRUE).row /\ UNCHANGED <<city, dying, ghost>>
    BY <1>1 DEF CommitUnacked
  <1>3. x \in Item
    BY <1>1, <1>2 DEF Inv, Types, QueueType
  <1>4. x.job \in Jobs
    BY <1>3 DEF Item
  <1>5. PICK y : Marked(x, y)
    BY <1>1, Marks
  <1>6. \A K : x.job.k \notin K => Hushed(K)
    BY <1>2, <1>5, MarkedHushed
  <1>7. Concerns(x.job.k)
    BY <1>2, <1>4, <1>6, WorkerConcerns
  <1> QED
    BY <1>2, <1>3, <1>5, <1>7

LEMMA StillConcerns == ASSUME UNCHANGED vars PROVE Concerns("None")
  <1>1. UNCHANGED <<city, dying, inbox, row>>
    BY DEF vars
  <1>2. \A K : Hushed(K)
    BY StillHushed
  <1>3. \A v : Doomed(v)' <=> Doomed(v)
    BY <1>1 DEF Doomed, Heard
  <1>4. lost => lost'
    BY <1>2 DEF Hushed
  <1> QED
    BY <1>1, <1>2, <1>3, <1>4 DEF Concerns

\* What is submitted is a job nobody answered yet.
Added(j) ==
  /\ Queued \subseteq Queued' /\ \A x \in Queued' : x \in Queued \/ (x.job = j /\ ~x.done)
  /\ Heard \subseteq Heard' /\ \A m \in Heard' : m \in Heard \/ (m.job = j /\ ~m.ok)
  /\ lost' \/ (\E x \in Queued' : x.job = j) \/ (\E m \in Heard' : m.job = j)
  /\ (lost => lost')
  /\ \A k : Alone(k) /\ (k = j.k => Silent(k)) => Alone(k)'

LEMMA Adds == ASSUME NEW j, Sent(j) PROVE Added(j)
  <1>1. PICK x, m : x = [job |-> j, done |-> FALSE] /\ m = Answer(j, FALSE, NoId)
    OBVIOUS
  <1>2. x.job = j /\ ~x.done /\ m.job = j /\ ~m.ok
    BY <1>1 DEF Answer
  <1>3. \/ Queued' = Queued \cup {x} /\ Heard' = Heard
        \/ Queued' = Queued /\ Heard' = Heard \cup {m}
        \/ Queued' = Queued /\ Heard' = Heard /\ lost'
    BY <1>1 DEF Sent
  <1>4. (lost => lost') /\ \A k : Alone(k) /\ (k = j.k => Silent(k)) => Alone(k)'
    BY DEF Sent
  <1> QED
    BY <1>2, <1>3, <1>4 DEF Added

LEMMA Speaks == \A k : Silent(k) <=> \A x \in Queued \cup Heard : x.job.k # k
  BY DEF Silent, None, Queued, Heard

-----------------------------------------------------------------------------
(* The training of a unit, from its order to its birth.                     *)

TrainingType ==
  /\ city.training \in {NoWork} \cup [req : Nat \ {0}, st : {"ORDERED", "RUNNING", "BIRTHING"}]
  /\ row.prod.req \in Nat /\ (row.prod.there => row.prod.req # NoId)
\* The loop waits for the order, then for the birth.
TrainAwaited ==
  \A x \in Queued \cup Heard :
    /\ x.job.k = "Train" => city.training = [req |-> x.job.id, st |-> "ORDERED"]
    /\ x.job.k = "Birth" => city.training.st = "BIRTHING"
\* An order is written by its own transaction only, and not born while it is queued.
TrainWritten ==
  \A x \in Queued : x.job.k = "Train" =>
    /\ row.prod.req = x.job.id => InProgress
    /\ ~x.done => row.prod.req # x.job.id
TrainAnswered ==
  \A m \in Heard : m.job.k = "Train" =>
    /\ m.ok => row.prod.req = m.job.id /\ InProgress
    /\ ~m.ok /\ ~ghost => row.prod.req # m.job.id
\* What the loop trains is in the rows.
Trains == city.training.st \in {"RUNNING", "BIRTHING"} => row.prod.there /\ row.prod.req = city.training.req
Born == \A m \in Heard : m.job.k = "Birth" /\ m.ok => m.born = row.prod.born /\ row.prod.born # NoId
\* What the rows train is known to the loop.
TrainKnown == ~ghost /\ InProgress => city.training.req = row.prod.req
TrainOwed ==
  ~lost => /\ city.training.st = "ORDERED" => ~Silent("Train")
           /\ city.training.st = "BIRTHING" => ~Silent("Birth")
Training == /\ TrainingType /\ Alone("Train") /\ Alone("Birth") /\ TrainAwaited /\ TrainWritten /\ TrainAnswered
            /\ Trains /\ Born /\ TrainKnown /\ TrainOwed

LEMMA TrainingKept ==
    ASSUME Training, Hushed({"Train", "Birth"}), city'.training = city.training, row'.prod = row.prod
    PROVE  Training'
  <1>1. /\ \A x : x.job.k \in {"Train", "Birth"} => (x \in Queued' <=> x \in Queued) /\ (x \in Heard' <=> x \in Heard)
        /\ (Alone("Train") => Alone("Train")') /\ (Alone("Birth") => Alone("Birth")')
        /\ (lost => lost') /\ (ghost => ghost')
    BY DEF Hushed
  <1>2. InProgress' <=> InProgress
    BY DEF InProgress
  <1>3. Alone("Train")' /\ Alone("Birth")'
    BY <1>1 DEF Training
  <1>4. TrainingType' /\ Trains'
    BY DEF Training, TrainingType, Trains
  <1>9. \A x : x.job.k \in {"Train", "Birth"} => (x \in (Queued \cup Heard)' <=> x \in Queued \cup Heard)
    BY <1>1
  <1>5. TrainAwaited'
    <2>1. ASSUME NEW x \in (Queued \cup Heard)'
          PROVE  /\ x.job.k = "Train" => city.training = [req |-> x.job.id, st |-> "ORDERED"]
                 /\ x.job.k = "Birth" => city.training.st = "BIRTHING"
      BY <1>9, <2>1 DEF Training, TrainAwaited
    <2> QED
      BY <2>1 DEF TrainAwaited
  <1>6. TrainWritten' /\ TrainAnswered'
    BY <1>1, <1>2 DEF Training, TrainWritten, TrainAnswered
  <1>7. Born' /\ TrainKnown'
    BY <1>1, <1>2 DEF Training, Born, TrainKnown
  <1>8. TrainOwed'
    <2>1. \A k \in {"Train", "Birth"} : ~Silent(k) => ~Silent(k)'
      BY <1>9 DEF Silent, None, Queued, Heard
    <2> QED
      BY <1>1, <2>1 DEF Training, TrainOwed
  <1> QED
    BY <1>3, <1>4, <1>5, <1>6, <1>7, <1>8 DEF Training

\* Nothing of the training is on its way.
LEMMA TrainingIdle ==
    ASSUME Training
    PROVE  /\ city.training.st # "ORDERED" => Silent("Train")
           /\ city.training.st # "BIRTHING" => Silent("Birth")
  <1>1. ASSUME NEW x \in Queued \cup Heard, x.job.k = "Train" PROVE city.training.st = "ORDERED"
    <2>1. city.training = [req |-> x.job.id, st |-> "ORDERED"]
      BY <1>1 DEF Training, TrainAwaited
    <2> QED
      BY <2>1
  <1>2. \A x \in Queued \cup Heard : x.job.k = "Birth" => city.training.st = "BIRTHING"
    BY DEF Training, TrainAwaited
  <1> QED
    BY <1>1, <1>2, Speaks

LEMMA TrainUnitTraining == Inv /\ Training /\ TrainUnit => Training'
  <1> SUFFICES ASSUME Inv, Training, TrainUnit PROVE Training'
    OBVIOUS
  <1>1. PICK n, j : n = Fresh /\ j = Train(Fresh)
    OBVIOUS
  <1>2. Added(j) /\ row' = row /\ ghost' = ghost
    BY <1>1, TrainConcerns, Adds
  <1>3. city.training = NoWork /\ city'.training = [req |-> n, st |-> "ORDERED"]
    BY <1>1 DEF TrainUnit, Working, Becomes, Inv, Types, CityType, CityShape
  <1>4. n \in Nat \ {0} /\ row.prod.req # n /\ j.k = "Train" /\ j.id = n
    BY <1>1, FreshId DEF Train, Inv
  <1>5. city.training.st = "NONE" /\ city.training.req = NoId
    BY <1>3 DEF NoWork
  <1>6. Silent("Train") /\ Silent("Birth")
    BY <1>5, TrainingIdle
  <1>7. ~(InProgress /\ ~ghost)
    BY <1>5 DEF Training, TrainKnown, TrainingType, InProgress
  <1>8. /\ \A x \in Queued' : x.job.k \in {"Train", "Birth"} => x.job = j /\ ~x.done
        /\ \A m \in Heard' : m.job.k \in {"Train", "Birth"} => m.job = j /\ ~m.ok
    BY <1>2, <1>6, Speaks DEF Added
  <1>9. Alone("Train")' /\ Alone("Birth")'
    BY <1>2, <1>4, <1>6 DEF Added, Training
  <1>10. TrainingType' /\ Trains'
    BY <1>2, <1>3, <1>4 DEF Training, TrainingType, Trains
  <1>11. TrainAwaited'
    BY <1>3, <1>4, <1>8 DEF TrainAwaited
  <1>12. TrainWritten' /\ TrainAnswered' /\ Born'
    BY <1>2, <1>4, <1>8 DEF TrainWritten, TrainAnswered, Born
  <1>13. TrainKnown'
    BY <1>2, <1>7 DEF TrainKnown, InProgress
  <1>14. TrainOwed'
    <2>1. ~lost' => \E x \in (Queued \cup Heard)' : x.job.k = "Train"
      BY <1>2, <1>4 DEF Added
    <2>2. ~lost' => ~Silent("Train")'
      BY <2>1 DEF Silent, None, Queued, Heard
    <2> QED
      BY <1>3, <2>2 DEF TrainOwed
  <1> QED
    BY <1>9, <1>10, <1>11, <1>12, <1>13, <1>14 DEF Training

LEMMA CompleteProductionTraining == Inv /\ Training /\ CompleteProduction => Training'
  <1> SUFFICES ASSUME Inv, Training, CompleteProduction PROVE Training'
    OBVIOUS
  <1>1. PICK j : j = Birth
    OBVIOUS
  <1>2. Added(j) /\ row' = row /\ ghost' = ghost /\ j.k = "Birth"
    BY <1>1, BirthConcerns, Adds DEF Birth
  <1>3. city.training.st = "RUNNING" /\ city.training \in [req : Nat \ {0}, st : {"ORDERED", "RUNNING", "BIRTHING"}]
    BY DEF CompleteProduction, Training, TrainingType, NoWork
  <1>4. city'.training = [req |-> city.training.req, st |-> "BIRTHING"]
    <2>1. city'.training = [city.training EXCEPT !.st = "BIRTHING"]
      BY DEF CompleteProduction, Becomes, Inv, Types, CityType, CityShape
    <2> QED
      BY <1>3, <2>1
  <1>6. Silent("Train") /\ Silent("Birth")
    BY <1>3, TrainingIdle
  <1>8. /\ \A x \in Queued' : x.job.k \in {"Train", "Birth"} => x.job = j
        /\ \A m \in Heard' : m.job.k \in {"Train", "Birth"} => m.job = j /\ ~m.ok
    BY <1>2, <1>6, Speaks DEF Added
  <1>9. Alone("Train")' /\ Alone("Birth")'
    BY <1>2, <1>6 DEF Added, Training
  <1>10. TrainingType' /\ Trains'
    BY <1>2, <1>3, <1>4 DEF Training, TrainingType, Trains
  <1>11. TrainAwaited'
    BY <1>2, <1>4, <1>8 DEF TrainAwaited
  <1>12. TrainWritten' /\ TrainAnswered' /\ Born'
    BY <1>2, <1>8 DEF TrainWritten, TrainAnswered, Born
  <1>13. TrainKnown'
    BY <1>2, <1>4 DEF Training, TrainKnown, InProgress
  <1>14. TrainOwed'
    <2>1. ~lost' => \E x \in (Queued \cup Heard)' : x.job.k = "Birth"
      BY <1>2 DEF Added
    <2>2. ~lost' => ~Silent("Birth")'
      BY <2>1 DEF Silent, None, Queued, Heard
    <2> QED
      BY <1>4, <2>2 DEF TrainOwed
  <1> QED
    BY <1>9, <1>10, <1>11, <1>12, <1>13, <1>14 DEF Training

LEMMA TrainingQuiet ==
    ASSUME Silent("Train")', Silent("Birth")', TrainingType', Trains', TrainKnown', city'.training.st \notin {"ORDERED", "BIRTHING"}
    PROVE  Training'
  <1>1. \A x \in (Queued \cup Heard)' : x.job.k # "Train" /\ x.job.k # "Birth"
    BY DEF Silent, None, Queued, Heard
  <1>2. TrainAwaited' /\ TrainWritten' /\ TrainAnswered' /\ Born'
    BY <1>1 DEF TrainAwaited, TrainWritten, TrainAnswered, Born
  <1>3. \A k \in {"Train", "Birth"} : Few(queue', k) /\ Few(inbox', k)
    BY <1>1, Members DEF Few, Queued, Heard
  <1>4. Alone("Train")' /\ Alone("Birth")'
    BY <1>3 DEF Alone, Silent
  <1>5. TrainOwed'
    BY DEF TrainOwed
  <1> QED
    BY <1>2, <1>4, <1>5 DEF Training

LEMMA HandleTraining ==
    ASSUME Inv, Training, NEW m \in Message, Heeded(m), city' = Handled(m), UNCHANGED <<row, ghost>>, m.job.k \in {"Train", "Birth"}
    PROVE  Training'
  <1>1. m \in Heard /\ Queued' = Queued /\ Heard' \subseteq Heard /\ Silent(m.job.k)'
    BY DEF Heeded, Training
  <1>2. ASSUME NEW k, Silent(k) PROVE Silent(k)'
    BY <1>1, <1>2 DEF Silent, None, Queued, Heard
  <1>3. InProgress' <=> InProgress
    BY DEF InProgress
  <1>4. m.ok \in BOOLEAN
    BY DEF Message
  <1>5. CASE m.job.k = "Train"
    <2>1. city.training = [req |-> m.job.id, st |-> "ORDERED"]
      BY <1>1, <1>5 DEF Training, TrainAwaited
    <2>2. city.training.st = "ORDERED" /\ city.training.req = m.job.id
      BY <2>1
    <2>3. Silent("Train")' /\ Silent("Birth")'
      BY <1>1, <1>2, <1>5, <2>2, TrainingIdle
    <2>4. city.training \in [req : Nat \ {0}, st : {"ORDERED", "RUNNING", "BIRTHING"}]
      BY <2>2 DEF Training, TrainingType, NoWork
    <2>5. CASE m.ok
      <3>1. city'.training = [req |-> m.job.id, st |-> "RUNNING"]
        <4>1. city' = [city EXCEPT !.training.st = "RUNNING"]
          BY <1>5, <2>2, <2>5 DEF Handled, HandleTrainResolved
        <4>2. city'.training = [city.training EXCEPT !.st = "RUNNING"]
          BY <4>1 DEF Inv, Types, CityType, CityShape
        <4> QED
          BY <2>1, <4>2
      <3>2. row.prod.req = m.job.id /\ InProgress
        BY <1>1, <1>5, <2>5 DEF Training, TrainAnswered
      <3>3. TrainingType' /\ Trains' /\ TrainKnown'
        BY <2>1, <2>4, <3>1, <3>2 DEF Training, TrainingType, Trains, TrainKnown, InProgress
      <3> QED
        BY <2>3, <3>1, <3>3, TrainingQuiet
    <2>6. CASE ~m.ok
      <3>1. city'.training = NoWork
        <4>1. city' = [city EXCEPT !.training = NoWork, !.pop = @ - 1]
          BY <1>5, <2>2, <2>6 DEF Handled, HandleTrainResolved
        <4> QED
          BY <4>1 DEF Inv, Types, CityType, CityShape
      <3>2. ~ghost => row.prod.req # m.job.id
        BY <1>1, <1>5, <2>6 DEF Training, TrainAnswered
      <3>3. TrainKnown'
        BY <1>3, <2>2, <3>2 DEF Training, TrainKnown
      <3>4. TrainingType' /\ Trains' /\ city'.training.st = "NONE"
        BY <3>1 DEF Training, TrainingType, Trains, NoWork
      <3> QED
        BY <2>3, <3>3, <3>4, TrainingQuiet
    <2> QED
      BY <1>4, <2>5, <2>6
  <1>6. CASE m.job.k = "Birth"
    <2>1. city.training.st = "BIRTHING"
      BY <1>1, <1>6 DEF Training, TrainAwaited
    <2>3. Silent("Train")' /\ Silent("Birth")'
      BY <1>1, <1>2, <1>6, <2>1, TrainingIdle
    <2>4. city.training \in [req : Nat \ {0}, st : {"ORDERED", "RUNNING", "BIRTHING"}]
      BY <2>1 DEF Training, TrainingType, NoWork
    <2>5. CASE ~m.ok
      <3>1. city'.training = [req |-> city.training.req, st |-> "RUNNING"]
        <4>1. city' = [city EXCEPT !.training.st = "RUNNING"]
          BY <1>6, <2>1, <2>5 DEF Handled, HandleBirthResolved
        <4>2. city'.training = [city.training EXCEPT !.st = "RUNNING"]
          BY <4>1 DEF Inv, Types, CityType, CityShape
        <4> QED
          BY <2>4, <4>2
      <3>2. TrainingType' /\ Trains' /\ TrainKnown'
        BY <1>3, <2>1, <2>4, <3>1 DEF Training, TrainingType, Trains, TrainKnown
      <3> QED
        BY <2>3, <3>1, <3>2, TrainingQuiet
    <2>6. CASE m.ok
      <3>1. city'.training = NoWork
        <4>1. city' = [city EXCEPT !.training = NoWork, !.units = @ \cup {m.born}]
          BY <1>6, <2>1, <2>6 DEF Handled, HandleBirthResolved
        <4> QED
          BY <4>1 DEF Inv, Types, CityType, CityShape
      <3>2. row.prod.born # NoId
        BY <1>1, <1>6, <2>6 DEF Training, Born
      <3>3. TrainKnown'
        BY <1>3, <3>2 DEF TrainKnown, InProgress
      <3>4. TrainingType' /\ Trains' /\ city'.training.st = "NONE"
        BY <3>1 DEF Training, TrainingType, Trains, NoWork
      <3> QED
        BY <2>3, <3>3, <3>4, TrainingQuiet
    <2> QED
      BY <1>4, <2>5, <2>6
  <1> QED
    BY <1>5, <1>6

LEMMA RestartTraining == Inv /\ Training /\ Restart => Training'
  <1> SUFFICES ASSUME Inv, Training, Restart PROVE Training'
    OBVIOUS
  <1>1. row'.prod = row.prod
    BY DEF Restart, Inv, Types, BaseType, Rows, RowShape
  <1>2. InProgress' <=> InProgress
    BY <1>1 DEF InProgress
  <1>3. city'.training = IF InProgress THEN [req |-> row.prod.req, st |-> "RUNNING"] ELSE NoWork
    BY DEF Restart, Recovered
  <1>4. Silent("Train")' /\ Silent("Birth")'
    <2>1. queue' = <<>> /\ inbox' = <<>>
      BY DEF Restart
    <2> QED
      BY <2>1, EmptyLines, Members DEF Silent, None
  <1>5. row.prod.there => row.prod.req \in Nat \ {0}
    BY DEF Training, TrainingType, Inv, Types, BaseType, NoId
  <1>6. TrainingType' /\ city'.training.st \notin {"ORDERED", "BIRTHING"}
    BY <1>1, <1>3, <1>5 DEF Training, TrainingType, InProgress, NoWork
  <1>7. Trains' /\ TrainKnown'
    BY <1>1, <1>2, <1>3 DEF Trains, TrainKnown, InProgress, NoWork
  <1> QED
    BY <1>4, <1>6, <1>7, TrainingQuiet

LEMMA InitTraining == Init => Training
  <1> SUFFICES ASSUME Init PROVE Training
    OBVIOUS
  <1>1. city.training = NoWork /\ row.prod = NoRow /\ queue = <<>> /\ inbox = <<>>
    BY DEF Init
  <1>2. Queued = {} /\ Heard = {} /\ Alone("Train") /\ Alone("Birth")
    BY <1>1, EmptyLines, Members DEF Queued, Heard, Alone, Few, None
  <1>3. TrainAwaited /\ TrainWritten /\ TrainAnswered /\ Born
    BY <1>2 DEF TrainAwaited, TrainWritten, TrainAnswered, Born
  <1>4. TrainingType /\ Trains /\ TrainKnown /\ TrainOwed
    BY <1>1 DEF TrainingType, Trains, TrainKnown, TrainOwed, NoWork, NoRow, InProgress, NoId
  <1> QED
    BY <1>2, <1>3, <1>4 DEF Training

\* The transaction of an order writes it, or finds it written, or refuses it.
LEMMA TrainRuns ==
    ASSUME Inv, Training, NEW x \in Queued, x.job.k = "Train", NEW afford \in BOOLEAN, row' = Run(x.job, afford).row
    PROVE  \/ Run(x.job, afford).ok /\ row'.prod.req = x.job.id /\ InProgress'
           \/ ~Run(x.job, afford).ok /\ row' = row /\ row.prod.req # x.job.id
  <1>1. PICK j : j = x.job
    OBVIOUS
  <1>2. Run(j, afford) = TxTrain(j, afford)
    BY <1>1 DEF Run
  <1>3. CASE row.prod.req = j.id
    <2>1. TxTrain(j, afford).ok /\ TxTrain(j, afford).row = row
      BY <1>3 DEF TxTrain, Wrote
    <2>2. InProgress
      BY <1>1, <1>3 DEF Training, TrainWritten
    <2>3. row' = row
      BY <1>1, <1>2, <2>1
    <2>4. InProgress' /\ row'.prod.req = x.job.id
      BY <1>1, <1>3, <2>2, <2>3 DEF InProgress
    <2>5. Run(x.job, afford).ok
      BY <1>1, <1>2, <2>1
    <2> QED
      BY <2>4, <2>5
  <1>4. CASE row.prod.req # j.id /\ (InProgress \/ row.adv # NoId \/ ~afford \/ row.pop >= row.limit)
    <2>1. ~TxTrain(j, afford).ok /\ TxTrain(j, afford).row = row
      BY <1>4 DEF TxTrain, Refused
    <2> QED
      BY <1>1, <1>2, <1>4, <2>1
  <1>5. CASE row.prod.req # j.id /\ ~(InProgress \/ row.adv # NoId \/ ~afford \/ row.pop >= row.limit)
    <2>1. PICK p : p = [there |-> TRUE, req |-> j.id, born |-> NoId]
      OBVIOUS
    <2>2. TxTrain(j, afford) = Wrote([row EXCEPT !.prod = p, !.pop = @ + 1])
      BY <1>5, <2>1 DEF TxTrain
    <2>3. TxTrain(j, afford).ok /\ TxTrain(j, afford).row = [row EXCEPT !.prod = p, !.pop = @ + 1]
      BY <2>2 DEF Wrote
    <2>4. row'.prod = p
      BY <1>1, <1>2, <2>3 DEF Inv, Types, BaseType, Rows, RowShape
    <2>5. row'.prod.req = x.job.id /\ InProgress'
      BY <1>1, <2>1, <2>4 DEF InProgress
    <2> QED
      BY <1>1, <1>2, <2>3, <2>5
  <1> QED
    BY <1>3, <1>4, <1>5

\* The transaction of a birth leaves a unit that is born, the one it answers.
LEMMA BirthRuns ==
    ASSUME Inv, Training, NEW x \in Queued, x.job.k = "Birth", NEW afford \in BOOLEAN, row' = Run(x.job, afford).row, Runnable(x.job)
    PROVE  /\ row'.prod.there /\ row'.prod.req = row.prod.req /\ row'.prod.born # NoId
           /\ Run(x.job, afford).born = row'.prod.born
           /\ \/ row' = row
              \/ row'.prod.born \in Newborn /\ row'.units = row.units \cup {row'.prod.born} /\ row.prod.born = NoId
  <1>1. PICK v : v = CHOOSE n \in Newborn \cup {NoId} : Newborn # {} => n \in Newborn
    OBVIOUS
  <1>2. Run(x.job, afford) = TxBirthUnit(v)
    BY <1>1 DEF Run
  <1>3. row.prod.there
    BY DEF Training, TrainAwaited, Trains
  <1>4. CASE row.prod.born # NoId
    <2>1. TxBirthUnit(v) = [Wrote(row) EXCEPT !.born = row.prod.born]
      BY <1>4 DEF TxBirthUnit
    <2>2. TxBirthUnit(v).row = row /\ TxBirthUnit(v).born = row.prod.born
      BY <2>1 DEF Wrote
    <2> QED
      BY <1>2, <1>3, <1>4, <2>2
  <1>5. CASE row.prod.born = NoId
    <2>1. v \in Newborn
      BY <1>1, <1>5 DEF Runnable
    <2>2. v \in Villager /\ v # NoId
      BY <2>1, ConstantsAssumption DEF Newborn
    <2>3. PICK r : r = [row EXCEPT !.prod.born = v, !.units = @ \cup {v}]
      OBVIOUS
    <2>4. TxBirthUnit(v) = [Wrote(r) EXCEPT !.born = v]
      BY <1>5, <2>3 DEF TxBirthUnit
    <2>5. TxBirthUnit(v).row = r /\ TxBirthUnit(v).born = v
      BY <2>4 DEF Wrote
    <2>6. row' = r
      BY <1>2, <2>5
    <2>7. row'.units = row.units \cup {v} /\ row'.prod = [row.prod EXCEPT !.born = v]
      BY <2>3, <2>6 DEF Inv, Types, BaseType, Rows, RowShape
    <2>8. row.prod = [there |-> row.prod.there, req |-> row.prod.req, born |-> row.prod.born]
      BY DEF Inv, Types, BaseType, Rows, RowShape
    <2>9. row'.prod = [there |-> row.prod.there, req |-> row.prod.req, born |-> v]
      BY <2>7, <2>8
    <2>10. row'.prod.there /\ row'.prod.req = row.prod.req /\ row'.prod.born = v
      BY <1>3, <2>9
    <2> QED
      BY <1>2, <1>5, <2>1, <2>2, <2>5, <2>7, <2>10
  <1> QED
    BY <1>4, <1>5

\* The only one of its kind on the way is x.
LEMMA ServedAlone ==
    ASSUME Inv, Training, NEW x, NEW m, m.job = x.job, NEW answered, Served(x, m, answered), x.job.k \in {"Train", "Birth"}
    PROVE  /\ x \in Queued /\ Alone("Train")' /\ Alone("Birth")'
           /\ \A y \in Queued' : y.job.k \notin {"Train", "Birth"}
           /\ \A y \in Heard' : y.job.k \in {"Train", "Birth"} => y = m
           /\ m \in Heard' \/ (answered => lost')
           /\ x.job.k = "Train" => city.training = [req |-> x.job.id, st |-> "ORDERED"]
           /\ x.job.k = "Birth" => city.training.st = "BIRTHING"
  <1>1. /\ x \in Queued /\ Queued' \subseteq Queued /\ (Heard' = Heard \cup {m} \/ (Heard' = Heard /\ (answered => lost')))
        /\ \A k : Alone(k) => Alone(k)'
    BY DEF Served
  <1>2. None(queue', x.job.k) /\ None(inbox, x.job.k)
    BY DEF Served, Training
  <1>3. /\ x.job.k = "Train" => city.training = [req |-> x.job.id, st |-> "ORDERED"]
        /\ x.job.k = "Birth" => city.training.st = "BIRTHING"
    BY <1>1 DEF Training, TrainAwaited
  <1>4. x.job.k = "Train" => city.training.st = "ORDERED"
    BY <1>3
  <1>5. \A k \in {"Train", "Birth"} : k # x.job.k => Silent(k)
    BY <1>3, <1>4, TrainingIdle
  <1>6. \A k \in {"Train", "Birth"} : (\A y \in Queued' : y.job.k # k) /\ \A y \in Heard : y.job.k # k
    BY <1>1, <1>2, <1>5, Speaks DEF None, Queued, Heard
  <1> QED
    BY <1>1, <1>3, <1>6 DEF Training

LEMMA CommitTraining ==
    ASSUME Inv, Training, NEW x \in Item, NEW m \in Message, NEW afford \in BOOLEAN, x.job.k \in {"Train", "Birth"},
           Runnable(x.job), m = Answer(x.job, Run(x.job, afford).ok, Run(x.job, afford).born),
           row' = Run(x.job, afford).row, Served(x, m, Answers(x.job)), UNCHANGED <<city, ghost>>
    PROVE  Training'
  <1>1. m.job = x.job /\ m.ok = Run(x.job, afford).ok /\ m.born = Run(x.job, afford).born
    BY DEF Answer
  <1>2. /\ x \in Queued /\ Alone("Train")' /\ Alone("Birth")'
        /\ \A y \in Queued' : y.job.k \notin {"Train", "Birth"}
        /\ \A y \in Heard' : y.job.k \in {"Train", "Birth"} => y = m
        /\ m \in Heard' \/ lost'
        /\ x.job.k = "Train" => city.training = [req |-> x.job.id, st |-> "ORDERED"]
        /\ x.job.k = "Birth" => city.training.st = "BIRTHING"
    <2>1. Answers(x.job)
      BY DEF Answers
    <2>2. PICK answered : answered = Answers(x.job)
      OBVIOUS
    <2> QED
      BY <1>1, <2>1, ServedAlone
  <1>3. /\ \/ m.ok /\ row'.prod.req = x.job.id /\ InProgress'
           \/ ~m.ok /\ row' = row /\ row.prod.req # x.job.id
        \/ x.job.k = "Birth"
    BY <1>1, <1>2, TrainRuns
  <1>4. \/ row'.prod.there /\ row'.prod.req = row.prod.req /\ row'.prod.born # NoId /\ m.born = row'.prod.born
        \/ x.job.k = "Train"
    BY <1>1, <1>2, BirthRuns
  <1>5. TrainAwaited'
    BY <1>1, <1>2 DEF TrainAwaited
  <1>6. TrainWritten'
    BY <1>2 DEF TrainWritten
  <1>7. TrainAnswered' /\ Born'
    BY <1>1, <1>2, <1>3, <1>4 DEF TrainAnswered, Born, InProgress
  <1>8. TrainOwed'
    <2>1. \A y \in Heard' : ~Silent(y.job.k)'
      BY DEF Silent, None, Heard
    <2> QED
      BY <1>1, <1>2, <2>1 DEF TrainOwed
  <1>9. TrainingType' /\ Trains' /\ TrainKnown'
    <2>1. CASE x.job.k = "Train"
      <3>1. x.job.id \in Nat \ {0} /\ city.training.st = "ORDERED" /\ city.training.req = x.job.id
        BY <1>2, <2>1 DEF Training, TrainingType, NoWork
      <3>2. CASE row'.prod.req = x.job.id /\ InProgress'
        BY <3>1, <3>2 DEF Training, TrainingType, Trains, TrainKnown, NoId
      <3>3. CASE row' = row
        BY <3>1, <3>3 DEF Training, TrainingType, Trains, TrainKnown, InProgress
      <3> QED
        BY <1>3, <2>1, <3>2, <3>3
    <2>2. CASE x.job.k = "Birth"
      BY <1>2, <1>4, <2>2 DEF Training, TrainingType, Trains, TrainKnown, InProgress
    <2> QED
      BY <2>1, <2>2
  <1> QED
    BY <1>2, <1>5, <1>6, <1>7, <1>8, <1>9 DEF Training

LEMMA GiveUpTraining ==
    ASSUME Inv, Training, NEW x \in Item, NEW m \in Message, x.job.k \in {"Train", "Birth"}, m = Answer(x.job, FALSE, NoId),
           Served(x, m, TRUE), UNCHANGED <<city, row>>, ghost => ghost', x.done /\ IsOrder(x.job) => ghost'
    PROVE  Training'
  <1>1. m.job = x.job /\ ~m.ok
    BY DEF Answer
  <1>2. /\ x \in Queued /\ Alone("Train")' /\ Alone("Birth")'
        /\ \A y \in Queued' : y.job.k \notin {"Train", "Birth"}
        /\ \A y \in Heard' : y.job.k \in {"Train", "Birth"} => y = m
        /\ m \in Heard' \/ lost'
        /\ x.job.k = "Train" => city.training = [req |-> x.job.id, st |-> "ORDERED"]
        /\ x.job.k = "Birth" => city.training.st = "BIRTHING"
    BY <1>1, ServedAlone
  <1>3. x.job.k = "Train" /\ ~ghost' => row.prod.req # x.job.id
    BY <1>2 DEF IsOrder, Training, TrainWritten
  <1>5. TrainAwaited'
    BY <1>1, <1>2 DEF TrainAwaited
  <1>6. TrainWritten'
    BY <1>2 DEF TrainWritten
  <1>7. TrainAnswered' /\ Born'
    BY <1>1, <1>2, <1>3 DEF TrainAnswered, Born
  <1>8. TrainOwed'
    <2>1. \A y \in Heard' : ~Silent(y.job.k)'
      BY DEF Silent, None, Heard
    <2>2. x.job.k = "Train" => city.training.st = "ORDERED"
      BY <1>2
    <2> QED
      BY <1>1, <1>2, <2>1, <2>2 DEF TrainOwed
  <1>9. TrainingType' /\ Trains' /\ TrainKnown'
    BY DEF Training, TrainingType, Trains, TrainKnown, InProgress
  <1> QED
    BY <1>2, <1>5, <1>6, <1>7, <1>8, <1>9 DEF Training

LEMMA MarkTraining ==
    ASSUME Inv, Training, NEW x \in Item, NEW y, NEW afford \in BOOLEAN, x.job.k \in {"Train", "Birth"},
           Runnable(x.job), Marked(x, y), row' = Run(x.job, afford).row, UNCHANGED <<city, ghost>>
    PROVE  Training'
  <1>1. /\ x \in Queued /\ y.job = x.job /\ y.done /\ y \in Queued' /\ Queued' \subseteq Queued \cup {y} /\ Heard' = Heard
        /\ (lost => lost') /\ \A k : Alone(k) => Alone(k)'
    BY DEF Marked
  <1>2. None(inbox, x.job.k) /\ \A z \in Queued' : z.job.k = x.job.k => z = y
    BY DEF Marked, Training
  <1>3. /\ x.job.k = "Train" => city.training = [req |-> x.job.id, st |-> "ORDERED"]
        /\ x.job.k = "Birth" => city.training.st = "BIRTHING"
    BY <1>1 DEF Training, TrainAwaited
  <1>4. x.job.k = "Train" => city.training.st = "ORDERED" /\ city.training.req = x.job.id
    BY <1>3
  <1>5. \A k \in {"Train", "Birth"} : k # x.job.k => Silent(k)
    BY <1>3, <1>4, TrainingIdle
  <1>6. /\ \A z \in Queued' : z.job.k \in {"Train", "Birth"} => z = y
        /\ \A z \in Heard' : z.job.k \notin {"Train", "Birth"}
    BY <1>1, <1>2, <1>5, Speaks DEF None, Heard
  <1>7. \/ row'.prod.req = x.job.id /\ InProgress'
        \/ row' = row /\ row.prod.req # x.job.id
        \/ x.job.k = "Birth"
    BY <1>1, TrainRuns
  <1>8. \/ row'.prod.there /\ row'.prod.req = row.prod.req /\ row'.prod.born # NoId
        \/ x.job.k = "Train"
    BY <1>1, BirthRuns
  <1>9. TrainAwaited'
    <2>1. \A z \in (Queued \cup Heard)' : z.job.k \in {"Train", "Birth"} => z.job = x.job
      BY <1>1, <1>6
    <2> QED
      BY <1>3, <2>1 DEF TrainAwaited
  <1>10. TrainWritten'
    <2>1. \A z \in Queued' : z.job.k = "Train" => z.done /\ z.job = x.job
      BY <1>1, <1>6
    <2> QED
      BY <1>7, <2>1 DEF TrainWritten
  <1>11. TrainAnswered' /\ Born'
    BY <1>6 DEF TrainAnswered, Born
  <1>12. TrainOwed'
    <2>1. ~Silent(x.job.k)'
      BY <1>1 DEF Silent, None, Queued
    <2> QED
      BY <1>3, <1>4, <2>1 DEF TrainOwed
  <1>13. TrainingType' /\ Trains' /\ TrainKnown'
    <2>1. CASE x.job.k = "Train"
      <3>1. x.job.id \in Nat \ {0} /\ city.training.st = "ORDERED" /\ city.training.req = x.job.id
        BY <1>4, <2>1 DEF Training, TrainingType, NoWork
      <3>2. CASE row'.prod.req = x.job.id /\ InProgress'
        BY <3>1, <3>2 DEF Training, TrainingType, Trains, TrainKnown, NoId
      <3>3. CASE row' = row
        BY <3>1, <3>3 DEF Training, TrainingType, Trains, TrainKnown, InProgress
      <3> QED
        BY <1>7, <2>1, <3>2, <3>3
    <2>2. CASE x.job.k = "Birth"
      BY <1>3, <1>8, <2>2 DEF Training, TrainingType, Trains, TrainKnown, InProgress
    <2> QED
      BY <2>1, <2>2
  <1> QED
    BY <1>1, <1>9, <1>10, <1>11, <1>12, <1>13 DEF Training

\* A step about something else.
LEMMA TrainingElsewhere == ASSUME Training, NEW k, k \notin {"Train", "Birth"}, Concerns(k) PROVE Training'
  BY TrainingKept DEF Concerns

\* The era is advanced from the village only.
FromVillage == city.advance # NoWork => city.era = "VILLAGE"

LEMMA TrainingStep == Inv /\ FromVillage /\ Training /\ [Next]_vars => Training'
  <1> SUFFICES ASSUME Inv, FromVillage, Training, [Next]_vars PROVE Training'
    OBVIOUS
  <1>1. ASSUME NEW t \in Site, BuildBuilding(t) \/ DestroyHouse(t) PROVE Training'
    BY <1>1, BuildConcerns, DestroyConcerns, TrainingElsewhere
  <1>2. CASE TrainUnit \/ AdvanceEra
    BY <1>2, TrainUnitTraining, AdvanceConcerns, TrainingElsewhere
  <1>3. CASE Tick
    <2>1. CASE \E t \in Site : CompleteBuilding(t)
      BY <2>1, CompleteConcerns, TrainingElsewhere
    <2>2. CASE CompleteProduction
      BY <2>2, CompleteProductionTraining
    <2>3. CASE CompleteAdvance
      <3>1. city.era = "VILLAGE"
        BY <2>3 DEF FromVillage, CompleteAdvance, NoWork
      <3> QED
        BY <2>3, <3>1, EraConcerns, TrainingElsewhere
    <2> QED
      BY <1>3, <2>1, <2>2, <2>3 DEF Tick
  <1>4. ASSUME NEW v \in Villager, Kill(v) \/ DeathWorker(v) PROVE Training'
    BY <1>4, KillConcerns, DeathConcerns, TrainingElsewhere
  <1>5. CASE FlushDirty
    BY <1>5, FlushConcerns, TrainingElsewhere
  <1>6. CASE Handle
    <2>1. PICK m \in Message : Heeded(m) /\ city' = Handled(m) /\ UNCHANGED <<row, ghost, dying>> /\ Concerns(m.job.k)
      BY <1>6, HandleConcerns
    <2>2. PICK k : k = m.job.k
      OBVIOUS
    <2>3. CASE k \in {"Train", "Birth"}
      BY <2>1, <2>2, <2>3, HandleTraining
    <2>4. CASE k \notin {"Train", "Birth"}
      BY <2>1, <2>2, <2>4, TrainingElsewhere
    <2> QED
      BY <2>3, <2>4
  <1>7. ASSUME NEW afford \in BOOLEAN, Commit(afford) PROVE Training'
    <2>1. PICK x \in Item, m \in Message :
             /\ Runnable(x.job) /\ m = Answer(x.job, Run(x.job, afford).ok, Run(x.job, afford).born)
             /\ row' = Run(x.job, afford).row /\ Served(x, m, Answers(x.job))
             /\ UNCHANGED <<city, dying, ghost>> /\ Concerns(x.job.k)
      BY <1>7, CommitConcerns
    <2>2. PICK k : k = x.job.k
      OBVIOUS
    <2>3. CASE k \in {"Train", "Birth"}
      BY <2>1, <2>2, <2>3, CommitTraining
    <2>4. CASE k \notin {"Train", "Birth"}
      BY <2>1, <2>2, <2>4, TrainingElsewhere
    <2> QED
      BY <2>3, <2>4
  <1>8. CASE CommitUnacked
    <2>1. PICK x, y :
             /\ x \in Item /\ Runnable(x.job) /\ Marked(x, y) /\ (\E afford \in BOOLEAN : row' = Run(x.job, afford).row)
             /\ UNCHANGED <<city, dying, ghost>> /\ Concerns(x.job.k)
      BY <1>8, MarkConcerns
    <2>2. PICK k : k = x.job.k
      OBVIOUS
    <2>3. CASE k \in {"Train", "Birth"}
      BY <2>1, <2>2, <2>3, MarkTraining
    <2>4. CASE k \notin {"Train", "Birth"}
      BY <2>1, <2>2, <2>4, TrainingElsewhere
    <2> QED
      BY <2>3, <2>4
  <1>9. CASE GiveUp
    <2>1. PICK x \in Item, m \in Message :
             /\ m = Answer(x.job, FALSE, NoId) /\ Served(x, m, TRUE) /\ UNCHANGED <<city, dying, row>>
             /\ (ghost => ghost') /\ (x.done /\ IsOrder(x.job) => ghost') /\ Concerns(x.job.k)
      BY <1>9, GiveUpConcerns
    <2>2. PICK k : k = x.job.k
      OBVIOUS
    <2>3. CASE k \in {"Train", "Birth"}
      BY <2>1, <2>2, <2>3, GiveUpTraining
    <2>4. CASE k \notin {"Train", "Birth"}
      BY <2>1, <2>2, <2>4, TrainingElsewhere
    <2> QED
      BY <2>3, <2>4
  <1>10. CASE Restart
    BY <1>10, RestartTraining
  <1>11. CASE UNCHANGED vars
    BY <1>11, StillConcerns, TrainingElsewhere
  <1> QED
    BY <1>1, <1>2, <1>3, <1>4, <1>5, <1>6, <1>7, <1>8, <1>9, <1>10, <1>11 DEF Next, Worker

-----------------------------------------------------------------------------
(* The advance of era, from its order to its end in the rows.               *)

EraType ==
  /\ city.advance \in {NoWork} \cup [req : Nat \ {0}, st : {"ORDERED", "RUNNING"}]
  /\ city.era \in {"VILLAGE", "TOWN"} /\ row.adv \in Nat
AdvanceAwaited == \A x \in Queued \cup Heard : x.job.k = "Advance" => city.advance = [req |-> x.job.id, st |-> "ORDERED"]
AdvanceWritten == \A x \in Queued : x.job.k = "Advance" /\ ~x.done => row.adv # x.job.id
AdvanceAnswered ==
  \A m \in Heard : m.job.k = "Advance" =>
    /\ m.ok => row.adv = m.job.id
    /\ ~m.ok /\ ~ghost => row.adv # m.job.id
Advances == city.advance.st = "RUNNING" => row.adv = city.advance.req
\* The loop is never behind the rows, and ends what it has begun.
EraTold ==
  /\ row.era = "TOWN" => city.era = "TOWN"
  /\ city.eraEnd => city.era = "TOWN"
  /\ \A x \in Queued \cup Heard : x.job.k = "EraEnd" => city.era = "TOWN"
AdvanceKnown == ~ghost /\ row.adv # NoId /\ row.era = "VILLAGE" => city.advance.req = row.adv \/ city.era = "TOWN"
AdvanceOwed ==
  ~lost => /\ city.advance.st = "ORDERED" => ~Silent("Advance")
           /\ city.era = "TOWN" /\ row.era = "VILLAGE" => city.eraEnd \/ ~Silent("EraEnd")
Advancing == /\ EraType /\ Alone("Advance") /\ AdvanceAwaited /\ AdvanceWritten /\ AdvanceAnswered
             /\ Advances /\ FromVillage /\ EraTold /\ AdvanceKnown /\ AdvanceOwed

LEMMA AdvancingKept ==
    ASSUME Advancing, Hushed({"Advance", "EraEnd"}), city'.advance = city.advance, city'.era = city.era,
           city'.eraEnd = city.eraEnd, row'.adv = row.adv, row'.era = row.era
    PROVE  Advancing'
  <1>1. /\ \A x : x.job.k \in {"Advance", "EraEnd"} => (x \in Queued' <=> x \in Queued) /\ (x \in Heard' <=> x \in Heard)
        /\ (Alone("Advance") => Alone("Advance")')
        /\ (lost => lost') /\ (ghost => ghost')
    BY DEF Hushed
  <1>2. \A x : x.job.k \in {"Advance", "EraEnd"} => (x \in (Queued \cup Heard)' <=> x \in Queued \cup Heard)
    BY <1>1
  <1>3. EraType' /\ Alone("Advance")' /\ Advances' /\ FromVillage'
    BY <1>1 DEF Advancing, EraType, Advances, FromVillage
  <1>4. AdvanceAwaited'
    <2>1. ASSUME NEW x \in (Queued \cup Heard)', x.job.k = "Advance" PROVE city.advance = [req |-> x.job.id, st |-> "ORDERED"]
      BY <1>2, <2>1 DEF Advancing, AdvanceAwaited
    <2> QED
      BY <2>1 DEF AdvanceAwaited
  <1>5. AdvanceWritten' /\ AdvanceAnswered'
    BY <1>1 DEF Advancing, AdvanceWritten, AdvanceAnswered
  <1>6. EraTold'
    <2>1. ASSUME NEW x \in (Queued \cup Heard)', x.job.k = "EraEnd" PROVE city.era = "TOWN"
      BY <1>2, <2>1 DEF Advancing, EraTold
    <2> QED
      BY <2>1 DEF Advancing, EraTold
  <1>7. AdvanceKnown'
    BY <1>1 DEF Advancing, AdvanceKnown
  <1>8. AdvanceOwed'
    <2>1. \A k \in {"Advance", "EraEnd"} : ~Silent(k) => ~Silent(k)'
      BY <1>2 DEF Silent, None, Queued, Heard
    <2> QED
      BY <1>1, <2>1 DEF Advancing, AdvanceOwed
  <1> QED
    BY <1>3, <1>4, <1>5, <1>6, <1>7, <1>8 DEF Advancing

LEMMA AdvanceIdle ==
    ASSUME Advancing
    PROVE  /\ city.advance.st # "ORDERED" => Silent("Advance")
           /\ city.era = "VILLAGE" => Silent("EraEnd")
           /\ city.advance.st = "ORDERED" => city.era = "VILLAGE"
           /\ city.era = "TOWN" => city.advance = NoWork
  <1>1. ASSUME NEW x \in Queued \cup Heard, x.job.k = "Advance" PROVE city.advance.st = "ORDERED"
    <2>1. city.advance = [req |-> x.job.id, st |-> "ORDERED"]
      BY <1>1 DEF Advancing, AdvanceAwaited
    <2> QED
      BY <2>1
  <1>2. \A x \in Queued \cup Heard : x.job.k = "EraEnd" => city.era = "TOWN"
    BY DEF Advancing, EraTold
  <1>3. city.advance # NoWork => city.era = "VILLAGE"
    BY DEF Advancing, FromVillage
  <1> QED
    BY <1>1, <1>2, <1>3, Speaks DEF NoWork

LEMMA AdvanceEraAdvancing == Inv /\ Advancing /\ AdvanceEra => Advancing'
  <1> SUFFICES ASSUME Inv, Advancing, AdvanceEra PROVE Advancing'
    OBVIOUS
  <1>1. PICK n, j : n = Fresh /\ j = Advance(Fresh)
    OBVIOUS
  <1>2. Added(j) /\ row' = row /\ ghost' = ghost
    BY <1>1, AdvanceConcerns, Adds
  <1>3. city.advance = NoWork /\ city.era = "VILLAGE"
    BY DEF AdvanceEra, Working
  <1>4. city'.advance = [req |-> n, st |-> "ORDERED"] /\ city'.era = city.era /\ city'.eraEnd = city.eraEnd
    BY <1>1 DEF AdvanceEra, Becomes, Inv, Types, CityType, CityShape
  <1>5. n \in Nat \ {0} /\ row.adv # n /\ j.k = "Advance" /\ j.id = n
    BY <1>1, FreshId DEF Advance, Inv
  <1>6. city.advance.st = "NONE" /\ city.advance.req = NoId
    BY <1>3 DEF NoWork
  <1>7. Silent("Advance") /\ Silent("EraEnd")
    BY <1>3, <1>6, AdvanceIdle
  <1>8. /\ \A x \in Queued' : x.job.k \in {"Advance", "EraEnd"} => x.job = j /\ ~x.done
        /\ \A m \in Heard' : m.job.k \in {"Advance", "EraEnd"} => m.job = j /\ ~m.ok
    BY <1>2, <1>7, Speaks DEF Added
  <1>9. Alone("Advance")'
    BY <1>2, <1>5, <1>7 DEF Added, Advancing
  <1>10. EraType' /\ Advances' /\ FromVillage'
    BY <1>2, <1>3, <1>4, <1>5 DEF Advancing, EraType, Advances, FromVillage
  <1>11. AdvanceAwaited'
    BY <1>4, <1>5, <1>8 DEF AdvanceAwaited
  <1>12. AdvanceWritten' /\ AdvanceAnswered'
    BY <1>2, <1>5, <1>8 DEF AdvanceWritten, AdvanceAnswered
  <1>13. EraTold'
    <2>1. \A x \in (Queued \cup Heard)' : x.job.k # "EraEnd"
      BY <1>5, <1>8
    <2> QED
      BY <1>2, <1>4, <2>1 DEF Advancing, EraTold
  <1>14. AdvanceKnown'
    BY <1>2, <1>3, <1>4, <1>6 DEF Advancing, AdvanceKnown
  <1>15. AdvanceOwed'
    <2>1. ~lost' => \E x \in (Queued \cup Heard)' : x.job.k = "Advance"
      BY <1>2, <1>5 DEF Added
    <2>2. ~lost' => ~Silent("Advance")'
      BY <2>1 DEF Silent, None, Queued, Heard
    <2> QED
      BY <1>3, <1>4, <2>2 DEF AdvanceOwed
  <1> QED
    BY <1>9, <1>10, <1>11, <1>12, <1>13, <1>14, <1>15 DEF Advancing

LEMMA CompleteAdvanceAdvancing == Inv /\ Advancing /\ CompleteAdvance => Advancing'
  <1> SUFFICES ASSUME Inv, Advancing, CompleteAdvance PROVE Advancing'
    OBVIOUS
  <1>1. city.advance.st = "RUNNING"
    BY DEF CompleteAdvance
  <1>2. city.era = "VILLAGE"
    BY <1>1 DEF Advancing, FromVillage, NoWork
  <1>3. PICK j : j = EraEnd
    OBVIOUS
  <1>4. /\ Added(j) /\ row' = row /\ ghost' = ghost /\ j.k = "EraEnd"
        /\ city' = [city EXCEPT !.advance = NoWork, !.era = "TOWN", !.limit = @ + TownCap - VillageCap]
    BY <1>2, <1>3, EraConcerns, Adds DEF EraEnd
  <1>5. city'.advance = NoWork /\ city'.era = "TOWN" /\ city'.eraEnd = city.eraEnd
    BY <1>4 DEF Inv, Types, CityType, CityShape
  <1>6. Silent("Advance")
    BY <1>1, AdvanceIdle
  <1>7. \A x \in (Queued \cup Heard)' : x.job.k # "Advance"
    BY <1>4, <1>6, Speaks DEF Added
  <1>8. Alone("Advance")'
    BY <1>4 DEF Added, Advancing
  <1>9. EraType' /\ Advances' /\ FromVillage' /\ AdvanceKnown' /\ EraTold'
    BY <1>4, <1>5 DEF Advancing, EraType, Advances, FromVillage, AdvanceKnown, EraTold, NoWork
  <1>10. AdvanceAwaited' /\ AdvanceWritten' /\ AdvanceAnswered'
    BY <1>7 DEF AdvanceAwaited, AdvanceWritten, AdvanceAnswered
  <1>11. AdvanceOwed'
    <2>1. ~lost' => \E x \in (Queued \cup Heard)' : x.job.k = "EraEnd"
      BY <1>4 DEF Added
    <2>2. ~lost' => ~Silent("EraEnd")'
      BY <2>1 DEF Silent, None, Queued, Heard
    <2> QED
      BY <1>5, <2>2 DEF AdvanceOwed, NoWork
  <1> QED
    BY <1>8, <1>9, <1>10, <1>11 DEF Advancing

LEMMA FlushAdvancing == Inv /\ Advancing /\ FlushDirty => Advancing'
  <1> SUFFICES ASSUME Inv, Advancing, FlushDirty PROVE Advancing'
    OBVIOUS
  <1>1. /\ Resubmits /\ UNCHANGED <<row, ghost>>
        /\ city' = [city EXCEPT !.completions = {}, !.eraEnd = FALSE, !.destructions = {}, !.deaths = {}]
    BY Flushes
  <1>2. city'.advance = city.advance /\ city'.era = city.era /\ ~city'.eraEnd
    BY <1>1 DEF Inv, Types, CityType, CityShape
  <1>3. /\ \A j \in Again : j.k # "Advance" /\ (j.k = "EraEnd" => city.eraEnd)
        /\ city.eraEnd => EraEnd \in Again /\ EraEnd.k = "EraEnd"
    BY DEF Again, Complete, Destroy, EraEnd
  <1>4. /\ Queued \subseteq Queued' /\ \A x \in Queued' : x \in Queued \/ x.job \in Again
        /\ Heard \subseteq Heard' /\ \A m \in Heard' : m \in Heard \/ m.job \in Again
        /\ lost => lost'
        /\ lost' \/ \A j \in Again : (\E x \in Queued' : x.job = j) \/ (\E m \in Heard' : m.job = j)
        /\ \A k : Alone(k) /\ (\A j \in Again : j.k # k) => Alone(k)'
    BY <1>1 DEF Resubmits
  <1>5. /\ \A x \in Queued' : x.job.k = "Advance" => x \in Queued
        /\ \A m \in Heard' : m.job.k = "Advance" => m \in Heard
    BY <1>3, <1>4
  <1>6. EraType' /\ Alone("Advance")' /\ Advances' /\ FromVillage' /\ AdvanceKnown'
    BY <1>1, <1>2, <1>3, <1>4 DEF Advancing, EraType, Advances, FromVillage, AdvanceKnown
  <1>7. AdvanceAwaited'
    <2>1. ASSUME NEW x \in (Queued \cup Heard)', x.job.k = "Advance" PROVE city.advance = [req |-> x.job.id, st |-> "ORDERED"]
      BY <1>5, <2>1 DEF Advancing, AdvanceAwaited
    <2> QED
      BY <1>2, <2>1 DEF AdvanceAwaited
  <1>8. AdvanceWritten' /\ AdvanceAnswered'
    BY <1>1, <1>5 DEF Advancing, AdvanceWritten, AdvanceAnswered
  <1>9. EraTold'
    <2>1. ASSUME NEW x \in (Queued \cup Heard)', x.job.k = "EraEnd" PROVE city.era = "TOWN"
      BY <1>3, <1>4, <2>1 DEF Advancing, EraTold
    <2> QED
      BY <1>1, <1>2, <2>1 DEF Advancing, EraTold
  <1>10. AdvanceOwed'
    <2>1. \A k : ~Silent(k) => ~Silent(k)'
      BY <1>4 DEF Silent, None, Queued, Heard
    <2>2. city.eraEnd /\ ~lost' => \E x \in (Queued \cup Heard)' : x.job.k = "EraEnd"
      BY <1>3, <1>4
    <2>3. city.eraEnd /\ ~lost' => ~Silent("EraEnd")'
      BY <2>2 DEF Silent, None, Queued, Heard
    <2> QED
      BY <1>1, <1>2, <1>4, <2>1, <2>3 DEF Advancing, AdvanceOwed
  <1> QED
    BY <1>6, <1>7, <1>8, <1>9, <1>10 DEF Advancing

LEMMA HandleAdvancing ==
    ASSUME Inv, Advancing, NEW m \in Message, Heeded(m), city' = Handled(m), UNCHANGED <<row, ghost>>, m.job.k \in {"Advance", "EraEnd"}
    PROVE  Advancing'
  <1>1. m \in Heard /\ Queued' = Queued /\ Heard' \subseteq Heard /\ Heard \subseteq Heard' \cup {m} /\ (lost => lost')
        /\ Alone("Advance")' /\ (m.job.k = "Advance" => Silent("Advance")')
    BY DEF Heeded, Advancing
  <1>2. ASSUME NEW k, k # m.job.k, ~Silent(k) PROVE ~Silent(k)'
    BY <1>1, <1>2 DEF Silent, None, Queued, Heard
  <1>4. m.ok \in BOOLEAN
    BY DEF Message
  <1>5. CASE m.job.k = "Advance"
    <2>1. city.advance = [req |-> m.job.id, st |-> "ORDERED"]
      BY <1>1, <1>5 DEF Advancing, AdvanceAwaited
    <2>2. city.advance.st = "ORDERED" /\ city.advance.req = m.job.id
      BY <2>1
    <2>3. city.era = "VILLAGE" /\ m.job.id \in Nat \ {0}
      BY <2>2, AdvanceIdle DEF Advancing, EraType, NoWork
    <2>4. PICK w : w = IF m.ok THEN [req |-> m.job.id, st |-> "RUNNING"] ELSE NoWork
      OBVIOUS
    <2>5. city'.advance = w /\ city'.era = city.era /\ city'.eraEnd = city.eraEnd
      <3>1. city' = [city EXCEPT !.advance = w]
        BY <1>5, <2>2, <2>4 DEF Handled, HandleAdvanceResolved
      <3> QED
        BY <3>1 DEF Inv, Types, CityType, CityShape
    <2>6. /\ m.ok => w.st = "RUNNING" /\ w.req = m.job.id /\ w \in [req : Nat \ {0}, st : {"ORDERED", "RUNNING"}]
          /\ ~m.ok => w.st = "NONE" /\ w = NoWork
          /\ w.st # "ORDERED"
      BY <2>3, <2>4 DEF NoWork
    <2>7. (m.ok => row.adv = m.job.id) /\ (~m.ok /\ ~ghost => row.adv # m.job.id)
      BY <1>1, <1>5 DEF Advancing, AdvanceAnswered
    <2>8. \A x \in (Queued \cup Heard)' : x.job.k # "Advance"
      BY <1>1, <1>5 DEF Silent, None, Queued, Heard
    <2>9. EraType' /\ Advances' /\ FromVillage'
      BY <1>4, <2>3, <2>5, <2>6, <2>7 DEF Advancing, EraType, Advances, FromVillage
    <2>10. AdvanceAwaited' /\ AdvanceWritten' /\ AdvanceAnswered'
      BY <2>8 DEF AdvanceAwaited, AdvanceWritten, AdvanceAnswered
    <2>11. EraTold'
      BY <1>1, <2>5 DEF Advancing, EraTold
    <2>12. AdvanceKnown'
      BY <1>4, <2>2, <2>5, <2>6, <2>7 DEF Advancing, AdvanceKnown
    <2>13. AdvanceOwed'
      BY <1>1, <2>3, <2>5, <2>6 DEF AdvanceOwed
    <2> QED
      BY <1>1, <2>9, <2>10, <2>11, <2>12, <2>13 DEF Advancing
  <1>6. CASE m.job.k = "EraEnd"
    <2>1. city' = [city EXCEPT !.eraEnd = TRUE]
      BY <1>6 DEF Handled
    <2>2. city'.advance = city.advance /\ city'.era = city.era /\ city'.eraEnd
      BY <2>1 DEF Inv, Types, CityType, CityShape
    <2>3. city.era = "TOWN"
      BY <1>1, <1>6 DEF Advancing, EraTold
    <2>4. EraType' /\ Advances' /\ FromVillage' /\ EraTold' /\ AdvanceKnown'
      BY <2>2, <2>3 DEF Advancing, EraType, Advances, FromVillage, EraTold, AdvanceKnown
    <2>5. AdvanceAwaited'
      <3>1. ASSUME NEW x \in (Queued \cup Heard)', x.job.k = "Advance" PROVE city.advance = [req |-> x.job.id, st |-> "ORDERED"]
        BY <1>1, <3>1 DEF Advancing, AdvanceAwaited
      <3> QED
        BY <2>2, <3>1 DEF AdvanceAwaited
    <2>6. AdvanceWritten' /\ AdvanceAnswered'
      BY <1>1 DEF Advancing, AdvanceWritten, AdvanceAnswered
    <2>7. AdvanceOwed'
      <3>1. ~Silent("Advance") => ~Silent("Advance")'
        BY <1>2, <1>6
      <3> QED
        BY <1>1, <2>2, <3>1 DEF Advancing, AdvanceOwed
    <2> QED
      BY <1>1, <2>4, <2>5, <2>6, <2>7 DEF Advancing
  <1> QED
    BY <1>5, <1>6

LEMMA AdvanceRuns ==
    ASSUME Inv, Advancing, NEW x \in Queued, x.job.k = "Advance", NEW afford \in BOOLEAN, row' = Run(x.job, afford).row
    PROVE  /\ row'.era = row.era
           /\ \/ Run(x.job, afford).ok /\ row'.adv = x.job.id
              \/ ~Run(x.job, afford).ok /\ row' = row /\ row.adv # x.job.id
  <1>1. PICK j : j = x.job
    OBVIOUS
  <1>2. Run(j, afford) = TxAdvance(j, afford)
    BY <1>1 DEF Run
  <1>3. CASE row.adv = j.id
    BY <1>1, <1>2, <1>3 DEF TxAdvance, Wrote
  <1>4. CASE row.adv # j.id /\ (row.adv # NoId \/ row.era # "VILLAGE" \/ InProgress \/ ~afford)
    <2>1. ~TxAdvance(j, afford).ok /\ TxAdvance(j, afford).row = row
      BY <1>4 DEF TxAdvance, Refused
    <2> QED
      BY <1>1, <1>2, <1>4, <2>1
  <1>5. CASE row.adv # j.id /\ ~(row.adv # NoId \/ row.era # "VILLAGE" \/ InProgress \/ ~afford)
    <2>1. TxAdvance(j, afford) = Wrote([row EXCEPT !.adv = j.id])
      BY <1>5 DEF TxAdvance
    <2>2. TxAdvance(j, afford).ok /\ TxAdvance(j, afford).row = [row EXCEPT !.adv = j.id]
      BY <2>1 DEF Wrote
    <2>3. row'.adv = j.id /\ row'.era = row.era
      BY <1>1, <1>2, <2>2 DEF Inv, Types, BaseType, Rows, RowShape
    <2> QED
      BY <1>1, <1>2, <2>2, <2>3
  <1> QED
    BY <1>3, <1>4, <1>5

LEMMA EraRuns ==
    ASSUME Inv, NEW j, j.k = "EraEnd", NEW afford \in BOOLEAN, row' = Run(j, afford).row
    PROVE  row'.era = "TOWN" /\ row'.adv \in {NoId, row.adv}
  <1>1. Run(j, afford) = TxCompleteAdvance
    BY DEF Run
  <1>2. CASE row.era # "VILLAGE"
    <2>1. row' = row
      BY <1>1, <1>2 DEF TxCompleteAdvance, Wrote
    <2> QED
      BY <1>2, <2>1 DEF Inv, Types, BaseType, Rows, RowShape
  <1>3. CASE row.era = "VILLAGE"
    <2>1. row' = [row EXCEPT !.era = "TOWN", !.adv = NoId, !.limit = @ + TownCap - VillageCap]
      BY <1>1, <1>3 DEF TxCompleteAdvance, Wrote
    <2> QED
      BY <2>1 DEF Inv, Types, BaseType, Rows, RowShape
  <1> QED
    BY <1>2, <1>3

\* The end of the era is written: nothing of an advance is on the way.
LEMMA EraWritten ==
    ASSUME Inv, Advancing, UNCHANGED city, city.era = "TOWN", row'.era = "TOWN", row'.adv \in {NoId, row.adv},
           \A x \in (Queued \cup Heard)' : \E y \in Queued \cup Heard : y.job = x.job, Alone("Advance")'
    PROVE  Advancing'
  <1>1. city.advance = NoWork /\ city.advance.st = "NONE"
    BY AdvanceIdle DEF NoWork
  <1>2. Silent("Advance")
    BY <1>1, AdvanceIdle
  <1>3. \A x \in (Queued \cup Heard)' : x.job.k # "Advance"
    BY <1>2, Speaks
  <1>4. AdvanceAwaited' /\ AdvanceWritten' /\ AdvanceAnswered'
    BY <1>3 DEF AdvanceAwaited, AdvanceWritten, AdvanceAnswered
  <1>5. EraType' /\ Advances' /\ FromVillage' /\ EraTold' /\ AdvanceKnown' /\ AdvanceOwed'
    BY <1>1 DEF Advancing, EraType, Advances, FromVillage, EraTold, AdvanceKnown, AdvanceOwed, NoId
  <1> QED
    BY <1>4, <1>5 DEF Advancing

\* The only order on the way is x, and no end of an era is.
LEMMA AdvanceServed ==
    ASSUME Inv, Advancing, NEW x, NEW m, m.job = x.job, NEW answered, Served(x, m, answered), x.job.k = "Advance"
    PROVE  /\ x \in Queued /\ Alone("Advance")'
           /\ \A y \in Queued' : y.job.k \notin {"Advance", "EraEnd"}
           /\ \A y \in Heard' : y.job.k \in {"Advance", "EraEnd"} => y = m
           /\ m \in Heard' \/ (answered => lost')
           /\ city.advance = [req |-> x.job.id, st |-> "ORDERED"]
  <1>1. /\ x \in Queued /\ Queued' \subseteq Queued /\ (Heard' = Heard \cup {m} \/ (Heard' = Heard /\ (answered => lost')))
        /\ \A k : Alone(k) => Alone(k)'
    BY DEF Served
  <1>2. None(queue', "Advance") /\ None(inbox, "Advance")
    BY DEF Served, Advancing
  <1>3. city.advance = [req |-> x.job.id, st |-> "ORDERED"]
    BY <1>1 DEF Advancing, AdvanceAwaited
  <1>4. Silent("EraEnd")
    BY <1>3, AdvanceIdle
  <1>5. (\A y \in Queued' : y.job.k \notin {"Advance", "EraEnd"}) /\ \A y \in Heard : y.job.k \notin {"Advance", "EraEnd"}
    BY <1>1, <1>2, <1>4, Speaks DEF None, Queued, Heard
  <1> QED
    BY <1>1, <1>3, <1>5 DEF Advancing

LEMMA CommitAdvancing ==
    ASSUME Inv, Advancing, NEW x \in Item, NEW m \in Message, NEW afford \in BOOLEAN, x.job.k \in {"Advance", "EraEnd"},
           m = Answer(x.job, Run(x.job, afford).ok, Run(x.job, afford).born),
           row' = Run(x.job, afford).row, Served(x, m, Answers(x.job)), UNCHANGED <<city, ghost>>
    PROVE  Advancing'
  <1>1. m.job = x.job /\ m.ok = Run(x.job, afford).ok
    BY DEF Answer
  <1>2. CASE x.job.k = "EraEnd"
    <2>1. /\ x \in Queued /\ Queued' \subseteq Queued /\ (Heard' = Heard \cup {m} \/ Heard' = Heard)
          /\ \A k : Alone(k) => Alone(k)'
      BY DEF Served
    <2>2. \A z \in (Queued \cup Heard)' : \E y \in Queued \cup Heard : y.job = z.job
      BY <1>1, <2>1
    <2>3. city.era = "TOWN"
      BY <1>2, <2>1 DEF Advancing, EraTold
    <2>4. row'.era = "TOWN" /\ row'.adv \in {NoId, row.adv}
      BY <1>2, EraRuns
    <2> QED
      BY <2>1, <2>2, <2>3, <2>4, EraWritten DEF Advancing
  <1>3. CASE x.job.k = "Advance"
    <2>1. /\ x \in Queued /\ Alone("Advance")'
          /\ \A y \in Queued' : y.job.k \notin {"Advance", "EraEnd"}
          /\ \A y \in Heard' : y.job.k \in {"Advance", "EraEnd"} => y = m
          /\ m \in Heard' \/ lost'
          /\ city.advance = [req |-> x.job.id, st |-> "ORDERED"]
      <3>1. Answers(x.job)
        BY <1>3 DEF Answers
      <3>2. PICK answered : answered = Answers(x.job)
        OBVIOUS
      <3> QED
        BY <1>1, <1>3, <3>1, AdvanceServed
    <2>2. /\ row'.era = row.era
          /\ \/ m.ok /\ row'.adv = x.job.id
             \/ ~m.ok /\ row' = row /\ row.adv # x.job.id
      BY <1>1, <1>3, <2>1, AdvanceRuns
    <2>3. city.advance.st = "ORDERED" /\ city.advance.req = x.job.id
      BY <2>1
    <2>4. x.job.id \in Nat \ {0} /\ city.era = "VILLAGE"
      BY <2>3, AdvanceIdle DEF Advancing, EraType, NoWork
    <2>5. AdvanceAwaited'
      BY <1>1, <2>1 DEF AdvanceAwaited
    <2>6. AdvanceWritten'
      BY <2>1 DEF AdvanceWritten
    <2>7. AdvanceAnswered'
      BY <1>1, <2>1, <2>2 DEF AdvanceAnswered
    <2>8. EraType' /\ Advances' /\ FromVillage'
      BY <2>2, <2>3, <2>4 DEF Advancing, EraType, Advances, FromVillage
    <2>9. EraTold'
      <3>1. \A y \in (Queued \cup Heard)' : y.job.k # "EraEnd"
        BY <1>1, <1>3, <2>1
      <3> QED
        BY <2>2, <3>1 DEF Advancing, EraTold
    <2>10. AdvanceKnown'
      BY <2>2, <2>3 DEF Advancing, AdvanceKnown
    <2>11. AdvanceOwed'
      <3>1. \A y \in Heard' : ~Silent(y.job.k)'
        BY DEF Silent, None, Heard
      <3> QED
        BY <1>1, <1>3, <2>1, <2>4, <3>1 DEF AdvanceOwed
    <2> QED
      BY <2>1, <2>5, <2>6, <2>7, <2>8, <2>9, <2>10, <2>11 DEF Advancing
  <1> QED
    BY <1>2, <1>3

LEMMA GiveUpAdvancing ==
    ASSUME Inv, Advancing, NEW x \in Item, NEW m \in Message, x.job.k \in {"Advance", "EraEnd"}, m = Answer(x.job, FALSE, NoId),
           Served(x, m, TRUE), UNCHANGED <<city, row>>, ghost => ghost', x.done /\ IsOrder(x.job) => ghost'
    PROVE  Advancing'
  <1>1. m.job = x.job /\ ~m.ok
    BY DEF Answer
  <1>2. EraType' /\ Advances' /\ FromVillage' /\ AdvanceKnown'
    BY DEF Advancing, EraType, Advances, FromVillage, AdvanceKnown
  <1>3. CASE x.job.k = "EraEnd"
    <2>1. /\ x \in Queued /\ Queued' \subseteq Queued /\ (Heard' = Heard \cup {m} \/ (Heard' = Heard /\ lost'))
          /\ \A k : Alone(k) => Alone(k)'
      BY DEF Served
    <2>2. city.era = "TOWN"
      BY <1>3, <2>1 DEF Advancing, EraTold
    <2>3. city.era # "VILLAGE" /\ city.advance = NoWork /\ city.advance.st = "NONE"
      BY <2>2, AdvanceIdle DEF NoWork
    <2>4. Silent("Advance")
      BY <2>3, AdvanceIdle
    <2>5. \A z \in (Queued \cup Heard)' : z.job.k # "Advance"
      BY <1>1, <1>3, <2>1, <2>4, Speaks
    <2>6. AdvanceAwaited' /\ AdvanceWritten' /\ AdvanceAnswered'
      BY <2>5 DEF AdvanceAwaited, AdvanceWritten, AdvanceAnswered
    <2>7. EraTold'
      BY <2>2 DEF Advancing, EraTold
    <2>8. AdvanceOwed'
      <3>1. \A y \in Heard' : ~Silent(y.job.k)'
        BY DEF Silent, None, Heard
      <3>2. lost' \/ ~Silent("EraEnd")'
        BY <1>1, <1>3, <2>1, <3>1
      <3> QED
        BY <2>3, <3>2 DEF AdvanceOwed
    <2> QED
      BY <1>2, <2>1, <2>6, <2>7, <2>8 DEF Advancing
  <1>4. CASE x.job.k = "Advance"
    <2>1. /\ x \in Queued /\ Alone("Advance")'
          /\ \A y \in Queued' : y.job.k \notin {"Advance", "EraEnd"}
          /\ \A y \in Heard' : y.job.k \in {"Advance", "EraEnd"} => y = m
          /\ m \in Heard' \/ lost'
          /\ city.advance = [req |-> x.job.id, st |-> "ORDERED"]
      BY <1>1, <1>4, AdvanceServed
    <2>2. ~ghost' => row.adv # x.job.id
      BY <1>4, <2>1 DEF IsOrder, Advancing, AdvanceWritten
    <2>3. city.advance.st = "ORDERED"
      BY <2>1
    <2>4. city.era = "VILLAGE"
      BY <2>3, AdvanceIdle
    <2>5. AdvanceAwaited'
      BY <1>1, <2>1 DEF AdvanceAwaited
    <2>6. AdvanceWritten'
      BY <2>1 DEF AdvanceWritten
    <2>7. AdvanceAnswered'
      BY <1>1, <2>1, <2>2 DEF AdvanceAnswered
    <2>9. EraTold'
      <3>1. \A y \in (Queued \cup Heard)' : y.job.k # "EraEnd"
        BY <1>1, <1>4, <2>1
      <3> QED
        BY <3>1 DEF Advancing, EraTold
    <2>11. AdvanceOwed'
      <3>1. \A y \in Heard' : ~Silent(y.job.k)'
        BY DEF Silent, None, Heard
      <3> QED
        BY <1>1, <1>4, <2>1, <2>4, <3>1 DEF AdvanceOwed
    <2> QED
      BY <1>2, <2>1, <2>5, <2>6, <2>7, <2>9, <2>11 DEF Advancing
  <1> QED
    BY <1>3, <1>4

LEMMA MarkAdvancing ==
    ASSUME Inv, Advancing, NEW x \in Item, NEW y, NEW afford \in BOOLEAN, x.job.k \in {"Advance", "EraEnd"},
           Marked(x, y), row' = Run(x.job, afford).row, UNCHANGED <<city, ghost>>
    PROVE  Advancing'
  <1>1. /\ x \in Queued /\ y.job = x.job /\ y.done /\ y \in Queued' /\ Queued' \subseteq Queued \cup {y} /\ Heard' = Heard
        /\ (lost => lost') /\ \A k : Alone(k) => Alone(k)'
    BY DEF Marked
  <1>2. CASE x.job.k = "EraEnd"
    <2>1. \A z \in (Queued \cup Heard)' : \E w \in Queued \cup Heard : w.job = z.job
      BY <1>1
    <2>2. city.era = "TOWN"
      BY <1>1, <1>2 DEF Advancing, EraTold
    <2>3. row'.era = "TOWN" /\ row'.adv \in {NoId, row.adv}
      BY <1>2, EraRuns
    <2> QED
      BY <1>1, <2>1, <2>2, <2>3, EraWritten DEF Advancing
  <1>3. CASE x.job.k = "Advance"
    <2>1. city.advance = [req |-> x.job.id, st |-> "ORDERED"]
      BY <1>1, <1>3 DEF Advancing, AdvanceAwaited
    <2>2. city.advance.st = "ORDERED" /\ city.advance.req = x.job.id
      BY <2>1
    <2>3. x.job.id \in Nat \ {0} /\ city.era = "VILLAGE"
      BY <2>2, AdvanceIdle DEF Advancing, EraType, NoWork
    <2>4. Silent("EraEnd")
      BY <2>3, AdvanceIdle
    <2>5. None(inbox, "Advance") /\ \A z \in Queued' : z.job.k = "Advance" => z = y
      BY <1>3 DEF Marked, Advancing
    <2>6. /\ \A z \in Queued' : z.job.k \in {"Advance", "EraEnd"} => z = y
          /\ \A z \in Heard' : z.job.k \notin {"Advance", "EraEnd"}
      BY <1>1, <1>3, <2>4, <2>5, Speaks DEF None, Heard
    <2>7. /\ row'.era = row.era
          /\ row'.adv = x.job.id \/ (row' = row /\ row.adv # x.job.id)
      BY <1>1, <1>3, AdvanceRuns
    <2>8. AdvanceAwaited'
      <3>1. \A z \in (Queued \cup Heard)' : z.job.k = "Advance" => z.job = x.job
        BY <1>1, <2>6
      <3> QED
        BY <2>1, <3>1 DEF AdvanceAwaited
    <2>9. AdvanceWritten' /\ AdvanceAnswered'
      BY <1>1, <2>6 DEF AdvanceWritten, AdvanceAnswered
    <2>10. EraType' /\ Advances' /\ FromVillage'
      BY <2>2, <2>3, <2>7 DEF Advancing, EraType, Advances, FromVillage
    <2>11. EraTold'
      <3>1. \A z \in (Queued \cup Heard)' : z.job.k # "EraEnd"
        BY <1>1, <1>3, <2>6
      <3> QED
        BY <2>7, <3>1 DEF Advancing, EraTold
    <2>12. AdvanceKnown'
      BY <2>2, <2>7 DEF Advancing, AdvanceKnown
    <2>13. AdvanceOwed'
      <3>1. ~Silent("Advance")'
        BY <1>1, <1>3 DEF Silent, None, Queued
      <3> QED
        BY <2>3, <3>1 DEF AdvanceOwed
    <2> QED
      BY <1>1, <2>8, <2>9, <2>10, <2>11, <2>12, <2>13 DEF Advancing
  <1> QED
    BY <1>2, <1>3

LEMMA AdvancingQuiet ==
    ASSUME Queued = {}, Heard = {}, EraType, Advances, FromVillage, row.era = "TOWN" => city.era = "TOWN", ~city.eraEnd,
           AdvanceKnown, AdvanceOwed
    PROVE  Advancing
  <1>1. Alone("Advance")
    BY Members DEF Queued, Heard, Alone, Few, None
  <1>2. AdvanceAwaited /\ AdvanceWritten /\ AdvanceAnswered /\ EraTold
    BY DEF AdvanceAwaited, AdvanceWritten, AdvanceAnswered, EraTold
  <1> QED
    BY <1>1, <1>2 DEF Advancing

LEMMA InitAdvancing == Init => Advancing
  <1> SUFFICES ASSUME Init PROVE Advancing
    OBVIOUS
  <1>1. /\ city.advance = NoWork /\ city.era = "VILLAGE" /\ ~city.eraEnd /\ row.adv = NoId /\ row.era = "VILLAGE"
        /\ queue = <<>> /\ inbox = <<>>
    BY DEF Init
  <1>2. Queued = {} /\ Heard = {}
    BY <1>1, EmptyLines, Members DEF Queued, Heard
  <1>3. EraType /\ Advances /\ FromVillage /\ AdvanceKnown /\ AdvanceOwed
    BY <1>1 DEF EraType, Advances, FromVillage, AdvanceKnown, AdvanceOwed, NoWork, NoId
  <1> QED
    BY <1>1, <1>2, <1>3, AdvancingQuiet

LEMMA RestartAdvancing == Inv /\ Advancing /\ Restart => Advancing'
  <1> SUFFICES ASSUME Inv, Advancing, Restart PROVE Advancing'
    OBVIOUS
  <1>1. row'.era = row.era /\ row'.adv = (IF row.era = "VILLAGE" THEN row.adv ELSE NoId) /\ row.era \in {"VILLAGE", "TOWN"}
    BY DEF Restart, Inv, Types, BaseType, Rows, RowShape
  <1>2. /\ city'.advance = IF row.adv # NoId /\ row.era = "VILLAGE" THEN [req |-> row.adv, st |-> "RUNNING"] ELSE NoWork
        /\ city'.era = row.era /\ city'.eraEnd = FALSE
    BY DEF Restart, Recovered
  <1>3. Queued' = {} /\ Heard' = {}
    <2>1. queue' = <<>> /\ inbox' = <<>>
      BY DEF Restart
    <2> QED
      BY <2>1, EmptyLines, Members DEF Queued, Heard
  <1>4. row.adv \in Nat
    BY DEF Advancing, EraType
  <1>5. EraType' /\ Advances' /\ FromVillage' /\ AdvanceKnown' /\ AdvanceOwed'
    BY <1>1, <1>2, <1>4 DEF EraType, Advances, FromVillage, AdvanceKnown, AdvanceOwed, NoWork, NoId
  <1>6. Alone("Advance")'
    BY <1>3, Members DEF Queued, Heard, Alone, Few, None
  <1>7. AdvanceAwaited' /\ AdvanceWritten' /\ AdvanceAnswered' /\ EraTold'
    BY <1>1, <1>2, <1>3 DEF AdvanceAwaited, AdvanceWritten, AdvanceAnswered, EraTold
  <1> QED
    BY <1>5, <1>6, <1>7 DEF Advancing

LEMMA AdvancingElsewhere == ASSUME Advancing, NEW k, k \notin {"Advance", "EraEnd", "Flush"}, Concerns(k) PROVE Advancing'
  BY AdvancingKept DEF Concerns

\* An advance runs in the village only: its end is always the first.
LEMMA EndsInVillage == ASSUME Advancing, CompleteAdvance PROVE city.era = "VILLAGE"
  BY DEF Advancing, FromVillage, CompleteAdvance, NoWork

LEMMA AdvancingStep == Inv /\ Advancing /\ [Next]_vars => Advancing'
  <1> SUFFICES ASSUME Inv, Advancing, [Next]_vars PROVE Advancing'
    OBVIOUS
  <1>1. ASSUME NEW t \in Site, BuildBuilding(t) \/ DestroyHouse(t) PROVE Advancing'
    BY <1>1, BuildConcerns, DestroyConcerns, AdvancingElsewhere
  <1>2. CASE TrainUnit \/ AdvanceEra
    BY <1>2, AdvanceEraAdvancing, TrainConcerns, AdvancingElsewhere
  <1>3. CASE Tick
    BY <1>3, CompleteConcerns, BirthConcerns, CompleteAdvanceAdvancing, AdvancingElsewhere DEF Tick
  <1>4. ASSUME NEW v \in Villager, Kill(v) \/ DeathWorker(v) PROVE Advancing'
    BY <1>4, KillConcerns, DeathConcerns, AdvancingElsewhere
  <1>5. CASE FlushDirty
    BY <1>5, FlushAdvancing
  <1>6. CASE Handle
    <2>1. PICK m \in Message : Heeded(m) /\ city' = Handled(m) /\ UNCHANGED <<row, ghost, dying>> /\ Concerns(m.job.k)
      BY <1>6, HandleConcerns
    <2>2. PICK k : k = m.job.k
      OBVIOUS
    <2>3. CASE k \in {"Advance", "EraEnd"}
      BY <2>1, <2>2, <2>3, HandleAdvancing
    <2>4. CASE k \notin {"Advance", "EraEnd"}
      <3>1. k # "Flush"
        BY <2>2 DEF Message, Jobs, BuildJobs, DestroyJobs, OtherJobs, Deaths
      <3> QED
        BY <2>1, <2>2, <2>4, <3>1, AdvancingElsewhere
    <2> QED
      BY <2>3, <2>4
  <1>7. ASSUME NEW x \in Item PROVE x.job.k # "Flush"
    BY DEF Item, Jobs, BuildJobs, DestroyJobs, OtherJobs
  <1>8. ASSUME NEW afford \in BOOLEAN, Commit(afford) PROVE Advancing'
    <2>1. PICK x \in Item, m \in Message :
             /\ Runnable(x.job) /\ m = Answer(x.job, Run(x.job, afford).ok, Run(x.job, afford).born)
             /\ row' = Run(x.job, afford).row /\ Served(x, m, Answers(x.job))
             /\ UNCHANGED <<city, dying, ghost>> /\ Concerns(x.job.k)
      BY <1>8, CommitConcerns
    <2>2. PICK k : k = x.job.k
      OBVIOUS
    <2>3. CASE k \in {"Advance", "EraEnd"}
      BY <2>1, <2>2, <2>3, CommitAdvancing
    <2>4. CASE k \notin {"Advance", "EraEnd"}
      BY <1>7, <2>1, <2>2, <2>4, AdvancingElsewhere
    <2> QED
      BY <2>3, <2>4
  <1>9. CASE CommitUnacked
    <2>1. PICK x, y :
             /\ x \in Item /\ Runnable(x.job) /\ Marked(x, y) /\ (\E afford \in BOOLEAN : row' = Run(x.job, afford).row)
             /\ UNCHANGED <<city, dying, ghost>> /\ Concerns(x.job.k)
      BY <1>9, MarkConcerns
    <2>2. PICK k : k = x.job.k
      OBVIOUS
    <2>3. CASE k \in {"Advance", "EraEnd"}
      BY <2>1, <2>2, <2>3, MarkAdvancing
    <2>4. CASE k \notin {"Advance", "EraEnd"}
      BY <1>7, <2>1, <2>2, <2>4, AdvancingElsewhere
    <2> QED
      BY <2>3, <2>4
  <1>10. CASE GiveUp
    <2>1. PICK x \in Item, m \in Message :
             /\ m = Answer(x.job, FALSE, NoId) /\ Served(x, m, TRUE) /\ UNCHANGED <<city, dying, row>>
             /\ (ghost => ghost') /\ (x.done /\ IsOrder(x.job) => ghost') /\ Concerns(x.job.k)
      BY <1>10, GiveUpConcerns
    <2>2. PICK k : k = x.job.k
      OBVIOUS
    <2>3. CASE k \in {"Advance", "EraEnd"}
      BY <2>1, <2>2, <2>3, GiveUpAdvancing
    <2>4. CASE k \notin {"Advance", "EraEnd"}
      BY <1>7, <2>1, <2>2, <2>4, AdvancingElsewhere
    <2> QED
      BY <2>3, <2>4
  <1>11. CASE Restart
    BY <1>11, RestartAdvancing
  <1>12. CASE UNCHANGED vars
    BY <1>12, StillConcerns, AdvancingElsewhere
  <1> QED
    BY <1>1, <1>2, <1>3, <1>4, <1>5, <1>6, <1>8, <1>9, <1>10, <1>11, <1>12 DEF Next, Worker

-----------------------------------------------------------------------------
(* The units of the city, from their birth to their death.                  *)

\* Unit v is born in the rows, and the loop has not heard of it.
Unborn(v) == city.training.st \in {"RUNNING", "BIRTHING"} /\ row.prod.born = v /\ v # NoId
Alive == \A v \in city.units : v \in row.units /\ ~Doomed(v)
Coming == \A v : Unborn(v) => v \in row.units /\ v \notin city.units /\ ~Doomed(v)
\* Each unit of the rows lives in the loop, or is to die, or is to come.
Everyone == ~lost => \A v \in row.units : v \in city.units \/ Doomed(v) \/ Unborn(v)
Living == Alive /\ Coming /\ Everyone

LEMMA LivingKept ==
    ASSUME Living, city'.units = city.units, row'.units = row.units, lost => lost',
           \A v : Doomed(v)' <=> Doomed(v), \A v : Unborn(v)' <=> Unborn(v)
    PROVE  Living'
  <1>1. Alive'
    BY DEF Living, Alive
  <1>2. Coming'
    BY DEF Living, Coming
  <1>3. Everyone'
    BY DEF Living, Everyone
  <1> QED
    BY <1>1, <1>2, <1>3 DEF Living

LEMMA LivingElsewhere == ASSUME Living, NEW k, k \notin {"Train", "Birth", "Death"}, Concerns(k) PROVE Living'
  <1>1. city'.training = city.training /\ row'.prod = row.prod
    BY DEF Concerns
  <1>2. \A v : Unborn(v)' <=> Unborn(v)
    BY <1>1 DEF Unborn
  <1>3. city'.units = city.units /\ row'.units = row.units /\ (lost => lost') /\ \A v : Doomed(v)' <=> Doomed(v)
    BY DEF Concerns
  <1> QED
    BY <1>2, <1>3, LivingKept

\* An order of training bears nobody.
LEMMA TrainLiving ==
    ASSUME Living, Concerns("Train"), \A v : ~Unborn(v), \A v : ~Unborn(v)'
    PROVE  Living'
  <1>1. city'.units = city.units /\ row'.units = row.units /\ (lost => lost') /\ \A v : Doomed(v)' <=> Doomed(v)
    BY DEF Concerns
  <1> QED
    BY <1>1, LivingKept

LEMMA TrainUnitLiving == Inv /\ Living /\ TrainUnit => Living'
  <1> SUFFICES ASSUME Inv, Living, TrainUnit PROVE Living'
    OBVIOUS
  <1>1. Concerns("Train")
    BY TrainConcerns
  <1>2. PICK n : n = Fresh
    OBVIOUS
  <1>3. city.training = NoWork /\ city'.training = [req |-> n, st |-> "ORDERED"]
    BY <1>2 DEF TrainUnit, Working, Becomes, Inv, Types, CityType, CityShape
  <1>4. city.training.st = "NONE" /\ city'.training.st = "ORDERED"
    BY <1>3 DEF NoWork
  <1> QED
    BY <1>1, <1>4, TrainLiving DEF Unborn

LEMMA CompleteProductionLiving == Inv /\ Training /\ Living /\ CompleteProduction => Living'
  <1> SUFFICES ASSUME Inv, Training, Living, CompleteProduction PROVE Living'
    OBVIOUS
  <1>1. PICK j : j = Birth
    OBVIOUS
  <1>2. Sent(j) /\ UNCHANGED <<row, ghost>> /\ j.k = "Birth"
    BY <1>1, BirthConcerns DEF Birth
  <1>3. city' = [city EXCEPT !.training.st = "BIRTHING"] /\ dying' = dying /\ city.training.st = "RUNNING"
    BY DEF CompleteProduction, Becomes
  <1>4. city'.units = city.units /\ city'.deaths = city.deaths /\ city'.training = [city.training EXCEPT !.st = "BIRTHING"]
    BY <1>3 DEF Inv, Types, CityType, CityShape
  <1>5. Hushed({"Death"})
    BY <1>2, SentHushed
  <1>6. (lost => lost') /\ \A v : Doomed(v)' <=> Doomed(v)
    BY <1>3, <1>4, <1>5, DoomedSame DEF Hushed
  <1>7. city.training \in [req : Nat \ {0}, st : {"ORDERED", "RUNNING", "BIRTHING"}]
    BY <1>3 DEF Training, TrainingType, NoWork
  <1>8. city'.training.st = "BIRTHING"
    BY <1>4, <1>7
  <1>9. \A v : Unborn(v)' <=> Unborn(v)
    BY <1>2, <1>3, <1>8 DEF Unborn
  <1> QED
    BY <1>2, <1>4, <1>6, <1>9, LivingKept

LEMMA KillLiving == ASSUME Inv, Living, NEW v \in Villager, Kill(v) PROVE Living'
  <1>1. UNCHANGED <<row, ghost, lost, queue, inbox>> /\ v \in city.units /\ dying' = dying \cup {v}
    BY DEF Kill
  <1>2. city'.units = city.units \ {v} /\ city'.deaths = city.deaths /\ city'.training = city.training
    BY DEF Kill, Inv, Types, CityType, CityShape
  <1>3. \A w : Doomed(w)' <=> Doomed(w) \/ w = v
    BY <1>1, <1>2 DEF Doomed, Heard
  <1>4. \A w : Unborn(w)' <=> Unborn(w)
    BY <1>1, <1>2 DEF Unborn
  <1>5. lost => lost'
    BY <1>1, Zenon
  <1>6. Alive'
    BY <1>1, <1>2, <1>3 DEF Living, Alive
  <1>7. Coming'
    BY <1>1, <1>2, <1>3, <1>4 DEF Living, Coming
  <1>8. Everyone'
    BY <1>1, <1>2, <1>3, <1>4, <1>5 DEF Living, Everyone
  <1> QED
    BY <1>6, <1>7, <1>8 DEF Living

LEMMA DeathLiving == ASSUME Inv, Living, NEW v \in Villager, DeathWorker(v) PROVE Living'
  <1>1. /\ Mourned(v) /\ v \in dying /\ dying' = dying \ {v} /\ UNCHANGED <<city, ghost>>
        /\ row' = TxKill(v) \/ Heard' = Heard \cup {DeathFailed(v)} \/ lost'
    BY Mourns
  <1>2. row' = row \/ row' = TxKill(v)
    BY DeathConcerns
  <1>3. row'.prod = row.prod /\ (row'.units = row.units \/ row'.units = row.units \ {v})
    BY <1>2 DEF TxKill, Inv, Types, BaseType, Rows, RowShape
  <1>4. row' = TxKill(v) => v \notin row'.units
    BY DEF TxKill, Inv, Types, BaseType, Rows, RowShape
  <1>5. PICK d : d = DeathFailed(v)
    OBVIOUS
  <1>6. d.job.k = "Death" /\ d.job.id = v
    BY <1>5 DEF DeathFailed, Answer
  <1>7. (Heard' = Heard \/ Heard' = Heard \cup {d}) /\ (lost => lost')
    BY <1>1, <1>5 DEF Mourned
  <1>8. \A w : (Doomed(w)' => Doomed(w)) /\ (Doomed(w) /\ w # v => Doomed(w)') /\ Doomed(v)
    BY <1>1, <1>6, <1>7 DEF Doomed
  <1>9. lost' \/ v \notin row'.units \/ Doomed(v)'
    BY <1>1, <1>4, <1>5, <1>6 DEF Doomed
  <1>10. \A w : Unborn(w)' <=> Unborn(w)
    BY <1>1, <1>3 DEF Unborn
  <1>11. Alive'
    BY <1>1, <1>3, <1>8 DEF Living, Alive
  <1>12. Coming'
    BY <1>1, <1>3, <1>8, <1>10 DEF Living, Coming
  <1>13. Everyone'
    BY <1>1, <1>3, <1>7, <1>8, <1>9, <1>10 DEF Living, Everyone
  <1> QED
    BY <1>11, <1>12, <1>13 DEF Living

LEMMA HandleLiving ==
    ASSUME Inv, Training, Living, NEW m \in Message, Heeded(m), city' = Handled(m), UNCHANGED <<row, ghost, dying>>,
           m.job.k \in {"Train", "Birth", "Death"}, Concerns(m.job.k)
    PROVE  Living'
  <1>1. m \in Heard /\ Heard' \subseteq Heard /\ Heard \subseteq Heard' \cup {m} /\ (lost => lost') /\ m.ok \in BOOLEAN
    BY DEF Heeded, Message
  <1>2. CASE m.job.k = "Train"
    <2>1. city.training = [req |-> m.job.id, st |-> "ORDERED"]
      BY <1>1, <1>2 DEF Training, TrainAwaited
    <2>2. city.training.st = "ORDERED"
      BY <2>1
    <2>3. \A v : ~Unborn(v)
      BY <2>2 DEF Unborn
    <2>4. m.ok => row.prod.born = NoId
      BY <1>1, <1>2 DEF Training, TrainAnswered, InProgress
    <2>5. ~m.ok => city'.training = NoWork
      <3>1. city.training.req = m.job.id
        BY <2>1
      <3>2. ~m.ok => city' = [city EXCEPT !.training = NoWork, !.pop = @ - 1]
        BY <1>2, <2>2, <3>1 DEF Handled, HandleTrainResolved
      <3> QED
        BY <3>2 DEF Inv, Types, CityType, CityShape
    <2>6. \A v : ~Unborn(v)'
      BY <1>1, <2>4, <2>5 DEF Unborn, NoWork
    <2>7. Concerns("Train")
      BY <1>2
    <2> QED
      BY <2>3, <2>6, <2>7, TrainLiving
  <1>3. CASE m.job.k = "Birth"
    <2>1. city.training.st = "BIRTHING"
      BY <1>1, <1>3 DEF Training, TrainAwaited
    <2>2. CASE ~m.ok
      <3>1. city' = [city EXCEPT !.training.st = "RUNNING"]
        BY <1>3, <2>1, <2>2 DEF Handled, HandleBirthResolved
      <3>2. city'.training = [city.training EXCEPT !.st = "RUNNING"] /\ city'.units = city.units /\ city'.deaths = city.deaths
        BY <3>1 DEF Inv, Types, CityType, CityShape
      <3>3. city.training \in [req : Nat \ {0}, st : {"ORDERED", "RUNNING", "BIRTHING"}]
        BY <2>1 DEF Training, TrainingType, NoWork
      <3>4. city'.training.st = "RUNNING"
        BY <3>2, <3>3
      <3>5. \A v : Unborn(v)' <=> Unborn(v)
        BY <2>1, <3>4 DEF Unborn
      <3>6. \A v : Doomed(v)' <=> Doomed(v)
        BY <1>1, <1>3, <3>2 DEF Doomed
      <3> QED
        BY <1>1, <3>2, <3>5, <3>6, LivingKept
    <2>3. CASE m.ok
      <3>1. city' = [city EXCEPT !.training = NoWork, !.units = @ \cup {m.born}]
        BY <1>3, <2>1, <2>3 DEF Handled, HandleBirthResolved
      <3>2. city'.training = NoWork /\ city'.units = city.units \cup {m.born} /\ city'.deaths = city.deaths
        BY <3>1 DEF Inv, Types, CityType, CityShape
      <3>3. Unborn(m.born) /\ \A v : Unborn(v) => v = m.born
        BY <1>1, <1>3, <2>1, <2>3 DEF Training, Born, Unborn
      <3>4. \A v : ~Unborn(v)'
        BY <3>2 DEF Unborn, NoWork
      <3>5. \A v : Doomed(v)' <=> Doomed(v)
        BY <1>1, <1>3, <3>2 DEF Doomed
      <3>6. Alive'
        BY <3>2, <3>3, <3>5 DEF Living, Alive, Coming
      <3>7. Coming'
        BY <3>4 DEF Coming
      <3>8. Everyone'
        BY <1>1, <3>2, <3>3, <3>5 DEF Living, Everyone
      <3> QED
        BY <3>6, <3>7, <3>8 DEF Living
    <2> QED
      BY <1>1, <2>2, <2>3
  <1>4. CASE m.job.k = "Death"
    <2>1. city' = [city EXCEPT !.deaths = @ \cup {m.job.id}]
      BY <1>4 DEF Handled, HandleDeathPersistFailed
    <2>2. city'.training = city.training /\ city'.units = city.units /\ city'.deaths = city.deaths \cup {m.job.id}
      BY <2>1 DEF Inv, Types, CityType, CityShape
    <2>3. \A v : Doomed(v)' <=> Doomed(v)
      BY <1>1, <1>4, <2>2 DEF Doomed
    <2>4. \A v : Unborn(v)' <=> Unborn(v)
      BY <2>2 DEF Unborn
    <2> QED
      BY <1>1, <2>2, <2>3, <2>4, LivingKept
  <1> QED
    BY <1>2, <1>3, <1>4

\* A worker writes the order of a training, or a birth, or nothing.
LEMMA WorkerLiving ==
    ASSUME Inv, Training, Living, NEW x \in Queued, x.job.k \in {"Train", "Birth"}, Runnable(x.job), Hushed({"Death"}),
           row' = row \/ \E afford \in BOOLEAN : row' = Run(x.job, afford).row, UNCHANGED <<city, dying>>
    PROVE  Living'
  <1>1. (lost => lost') /\ \A v : Doomed(v)' <=> Doomed(v)
    BY DoomedSame DEF Hushed
  <1>2. x.job.k = "Train" => city.training = [req |-> x.job.id, st |-> "ORDERED"]
    BY DEF Training, TrainAwaited
  <1>3. x.job.k = "Train" => city.training.st = "ORDERED"
    BY <1>2
  <1>4. CASE row' = row
    <2>1. \A v : Unborn(v)' <=> Unborn(v)
      BY <1>4 DEF Unborn
    <2> QED
      BY <1>1, <1>4, <2>1, LivingKept
  <1>5. ASSUME NEW afford \in BOOLEAN, row' = Run(x.job, afford).row PROVE Living'
    <2>1. CASE x.job.k = "Train"
      <3>1. \A v : ~Unborn(v) /\ ~Unborn(v)'
        BY <1>3, <2>1 DEF Unborn
      <3>2. row'.units = row.units
        <4>1. BaseType /\ x.job \in Jobs
          <5>1. x \in Item
            BY Members DEF Queued, Inv, Types, QueueType
          <5> QED
            BY <5>1 DEF Inv, Types, Item
        <4> QED
          BY <1>5, <2>1, <4>1, RunTouches
      <3> QED
        BY <1>1, <3>1, <3>2, LivingKept
    <2>2. CASE x.job.k = "Birth"
      <3>1. PICK w : w = row'.prod.born
        OBVIOUS
      <3>2. row' = row \/ (w \in Newborn /\ row'.units = row.units \cup {w} /\ row.prod.born = NoId)
        BY <1>5, <2>2, <3>1, BirthRuns
      <3>3. CASE w \in Newborn /\ row'.units = row.units \cup {w} /\ row.prod.born = NoId
        <4>1. w \notin city.units /\ ~Doomed(w) /\ w # NoId
          <5>1. w \notin city.units /\ w \notin dying /\ w \notin city.deaths /\ w \in Villager
            BY <3>3 DEF Newborn
          <5>2. w \notin {inbox[i].job.id : i \in {l \in DOMAIN inbox : inbox[l].job.k = "Death"}}
            BY <3>3 DEF Newborn
          <5>3. ASSUME NEW m \in Heard, m.job.k = "Death" PROVE m.job.id # w
            <6>1. PICK i \in DOMAIN inbox : inbox[i] = m
              BY Members DEF Heard
            <6> QED
              BY <5>2, <5>3, <6>1
          <5> QED
            BY <5>1, <5>3, ConstantsAssumption DEF Doomed
        <4>2. \A v : ~Unborn(v)
          BY <3>3 DEF Unborn
        <4>3. city.training.st = "BIRTHING"
          BY <2>2 DEF Training, TrainAwaited
        <4>4. \A v : Unborn(v)' <=> v = w
          BY <3>1, <4>1, <4>3 DEF Unborn
        <4>5. Alive'
          BY <1>1, <3>3 DEF Living, Alive
        <4>6. Coming'
          BY <1>1, <3>3, <4>1, <4>4 DEF Coming
        <4>7. Everyone'
          BY <1>1, <3>3, <4>2, <4>4 DEF Living, Everyone
        <4> QED
          BY <4>5, <4>6, <4>7 DEF Living
      <3> QED
        BY <1>4, <3>2, <3>3
    <2> QED
      BY <2>1, <2>2
  <1> QED
    BY <1>4, <1>5

LEMMA InitLiving == Init => Living
  <1> SUFFICES ASSUME Init PROVE Living
    OBVIOUS
  <1>1. city.units = Settlers /\ row.units = Settlers /\ city.deaths = {} /\ dying = {} /\ inbox = <<>> /\ city.training = NoWork
    BY DEF Init
  <1>2. Heard = {}
    BY <1>1, EmptyLines, Members DEF Heard
  <1>3. \A v : ~Doomed(v) /\ ~Unborn(v)
    BY <1>1, <1>2 DEF Doomed, Unborn, NoWork
  <1> QED
    BY <1>1, <1>3 DEF Living, Alive, Coming, Everyone

LEMMA RestartLiving == Inv /\ Restart => Living'
  <1> SUFFICES ASSUME Inv, Restart PROVE Living'
    OBVIOUS
  <1>1. /\ city'.units = row.units /\ city'.deaths = {} /\ dying' = {} /\ inbox' = <<>>
        /\ city'.training = IF InProgress THEN [req |-> row.prod.req, st |-> "RUNNING"] ELSE NoWork
    BY DEF Restart, Recovered
  <1>2. row'.units = row.units /\ row'.prod = row.prod
    BY DEF Restart, Inv, Types, BaseType, Rows, RowShape
  <1>3. Heard' = {}
    BY <1>1, EmptyLines, Members DEF Heard
  <1>4. \A v : ~Doomed(v)'
    BY <1>1, <1>3 DEF Doomed
  <1>5. \A v : ~Unborn(v)'
    BY <1>1, <1>2 DEF Unborn, NoWork, InProgress
  <1>6. Alive' /\ Coming' /\ Everyone'
    BY <1>1, <1>2, <1>4, <1>5 DEF Alive, Coming, Everyone
  <1> QED
    BY <1>6 DEF Living

LEMMA LivingStep == Inv /\ FromVillage /\ Training /\ Living /\ [Next]_vars => Living'
  <1> SUFFICES ASSUME Inv, FromVillage, Training, Living, [Next]_vars PROVE Living'
    OBVIOUS
  <1>1. ASSUME NEW t \in Site, BuildBuilding(t) \/ DestroyHouse(t) PROVE Living'
    BY <1>1, BuildConcerns, DestroyConcerns, LivingElsewhere
  <1>2. CASE TrainUnit \/ AdvanceEra
    BY <1>2, TrainUnitLiving, AdvanceConcerns, LivingElsewhere
  <1>3. CASE Tick
    <2>1. CASE \E t \in Site : CompleteBuilding(t)
      BY <2>1, CompleteConcerns, LivingElsewhere
    <2>2. CASE CompleteProduction
      BY <2>2, CompleteProductionLiving
    <2>3. CASE CompleteAdvance
      <3>1. city.era = "VILLAGE"
        BY <2>3 DEF FromVillage, CompleteAdvance, NoWork
      <3> QED
        BY <2>3, <3>1, EraConcerns, LivingElsewhere
    <2> QED
      BY <1>3, <2>1, <2>2, <2>3 DEF Tick
  <1>4. ASSUME NEW v \in Villager, Kill(v) \/ DeathWorker(v) PROVE Living'
    BY <1>4, KillLiving, DeathLiving
  <1>5. CASE FlushDirty
    BY <1>5, FlushConcerns, LivingElsewhere
  <1>6. CASE Handle
    <2>1. PICK m \in Message : Heeded(m) /\ city' = Handled(m) /\ UNCHANGED <<row, ghost, dying>> /\ Concerns(m.job.k)
      BY <1>6, HandleConcerns
    <2>2. PICK k : k = m.job.k
      OBVIOUS
    <2>3. CASE k \in {"Train", "Birth", "Death"}
      BY <2>1, <2>2, <2>3, HandleLiving
    <2>4. CASE k \notin {"Train", "Birth", "Death"}
      BY <2>1, <2>2, <2>4, LivingElsewhere
    <2> QED
      BY <2>3, <2>4
  <1>7. ASSUME NEW x \in Item PROVE x.job.k # "Death"
    BY DEF Item, Jobs, BuildJobs, DestroyJobs, OtherJobs
  <1>8. ASSUME NEW afford \in BOOLEAN, Commit(afford) PROVE Living'
    <2>1. PICK x \in Item, m \in Message :
             /\ Runnable(x.job) /\ m = Answer(x.job, Run(x.job, afford).ok, Run(x.job, afford).born)
             /\ row' = Run(x.job, afford).row /\ Served(x, m, Answers(x.job))
             /\ UNCHANGED <<city, dying, ghost>> /\ Concerns(x.job.k)
      BY <1>8, CommitConcerns
    <2>2. PICK k : k = x.job.k
      OBVIOUS
    <2>3. CASE k \in {"Train", "Birth"}
      <3>1. x \in Queued /\ m.job = x.job
        BY <2>1 DEF Served, Answer
      <3>2. (ghost => ghost') /\ x.job.k \notin {"Death"}
        BY <1>7, <2>1
      <3>3. PICK answered : answered = Answers(x.job)
        OBVIOUS
      <3>4. Hushed({"Death"})
        BY <2>1, <3>1, <3>2, <3>3, ServedHushed
      <3> QED
        BY <2>1, <2>2, <2>3, <3>1, <3>4, WorkerLiving
    <2>4. CASE k \notin {"Train", "Birth"}
      BY <1>7, <2>1, <2>2, <2>4, LivingElsewhere
    <2> QED
      BY <2>3, <2>4
  <1>9. CASE CommitUnacked
    <2>1. PICK x, y :
             /\ x \in Item /\ Runnable(x.job) /\ Marked(x, y) /\ (\E afford \in BOOLEAN : row' = Run(x.job, afford).row)
             /\ UNCHANGED <<city, dying, ghost>> /\ Concerns(x.job.k)
      BY <1>9, MarkConcerns
    <2>2. PICK k : k = x.job.k
      OBVIOUS
    <2>3. CASE k \in {"Train", "Birth"}
      <3>1. x \in Queued /\ x.job.k \notin {"Death"}
        BY <1>7, <2>1 DEF Marked
      <3>2. Hushed({"Death"})
        BY <2>1, <3>1, MarkedHushed
      <3> QED
        BY <2>1, <2>2, <2>3, <3>1, <3>2, WorkerLiving
    <2>4. CASE k \notin {"Train", "Birth"}
      BY <1>7, <2>1, <2>2, <2>4, LivingElsewhere
    <2> QED
      BY <2>3, <2>4
  <1>10. CASE GiveUp
    <2>1. PICK x \in Item, m \in Message :
             /\ m = Answer(x.job, FALSE, NoId) /\ Served(x, m, TRUE) /\ UNCHANGED <<city, dying, row>>
             /\ (ghost => ghost') /\ (x.done /\ IsOrder(x.job) => ghost') /\ Concerns(x.job.k)
      BY <1>10, GiveUpConcerns
    <2>2. m.job = x.job /\ x.job.k \notin {"Death"}
      BY <1>7, <2>1 DEF Answer
    <2>3. Hushed({"Death"})
      BY <2>1, <2>2, ServedHushed
    <2>4. (lost => lost') /\ \A v : Doomed(v)' <=> Doomed(v)
      BY <2>1, <2>3, DoomedSame DEF Hushed
    <2>5. \A v : Unborn(v)' <=> Unborn(v)
      BY <2>1 DEF Unborn
    <2> QED
      BY <2>1, <2>4, <2>5, LivingKept
  <1>11. CASE Restart
    BY <1>11, RestartLiving
  <1>12. CASE UNCHANGED vars
    BY <1>12, StillConcerns, LivingElsewhere
  <1> QED
    BY <1>1, <1>2, <1>3, <1>4, <1>5, <1>6, <1>8, <1>9, <1>10, <1>11, <1>12 DEF Next, Worker

-----------------------------------------------------------------------------
(* The houses, from their order to their end, or to their ruin, in the rows. *)

Traffic == Queued \cup Heard
FinishedRow(n) == \E h \in row.houses : h.id = n /\ h.st = "COMPLETE"

\* A house of the rows stands on its site, and is not finished before the loop's.
Matched ==
  \A h \in row.houses : \A t \in Site : city.houses[t].id = h.id =>
    h.site = t /\ (h.st = "COMPLETE" => city.houses[t].st = "COMPLETE")
\* What is to be finished in the rows is finished.
Ended ==
  /\ \A n \in city.completions : \E t \in Site : city.houses[t].id = n /\ city.houses[t].st = "COMPLETE"
  /\ \A x \in Traffic : x.job.k = "Complete" =>
       x.job.id # NoId /\ \A t \in Site : city.houses[t].id = x.job.id => city.houses[t].st = "COMPLETE"
\* What the loop builds is in the rows.
BuiltUp ==
  /\ \A t \in Site : city.houses[t].st \in {"UNDER_CONSTRUCTION", "COMPLETE"} => Built(city.houses[t].id)
  /\ \A m \in Heard : m.job.k = "Build" /\ m.ok /\ Standing(m.job.id) => Built(m.job.id)
\* A ruin is the ruin of its site.
RuinsKnown ==
  /\ \A t \in Site : city.destroying[t] # NoId => ~Standing(city.destroying[t])
  /\ \A d \in city.destructions : \A t \in Site : city.destroying[t] = d.id => d.site = t
  /\ \A x \in Traffic : x.job.k = "Destroy" => \A t \in Site : city.destroying[t] = x.job.id => x.job.site = t
\* Every write that a site waits for is on its way, or is given up and known.
OwedAt(t) ==
  /\ city.houses[t].st = "ORDERED" => \E x \in Traffic : x.job.k = "Build" /\ x.job.id = city.houses[t].id /\ x.job.site = t
  /\ city.destroying[t] # NoId =>
       \/ \E d \in city.destructions : d.id = city.destroying[t]
       \/ \E x \in Traffic : x.job.k = "Destroy" /\ x.job.id = city.destroying[t]
  /\ city.houses[t].st = "COMPLETE" =>
       \/ city.houses[t].id \in city.completions \/ FinishedRow(city.houses[t].id)
       \/ \E x \in Traffic : x.job.k = "Complete" /\ x.job.id = city.houses[t].id
Owed == ~lost => \A t \in Site : OwedAt(t)
Housing == Matched /\ Ended /\ BuiltUp /\ RuinsKnown /\ Owed

LEMMA HousingKept ==
    ASSUME Housing, Hushed({"Build", "Complete", "Destroy"}), city'.houses = city.houses, city'.destroying = city.destroying,
           city'.completions = city.completions, city'.destructions = city.destructions, row'.houses = row.houses
    PROVE  Housing'
  <1>1. /\ \A x : x.job.k \in {"Build", "Complete", "Destroy"} => (x \in Heard' <=> x \in Heard) /\ (x \in Traffic' <=> x \in Traffic)
        /\ lost => lost'
    BY DEF Hushed, Traffic
  <1>2. \A n : (Built(n)' <=> Built(n)) /\ (FinishedRow(n)' <=> FinishedRow(n)) /\ (Standing(n)' <=> Standing(n))
    BY DEF Built, FinishedRow, Standing
  <1>3. Matched'
    BY DEF Housing, Matched
  <1>4. Ended'
    BY <1>1 DEF Housing, Ended
  <1>5. BuiltUp'
    BY <1>1, <1>2 DEF Housing, BuiltUp
  <1>6. RuinsKnown'
    BY <1>1, <1>2 DEF Housing, RuinsKnown
  <1>7. Owed'
    <2>1. ASSUME NEW t \in Site, OwedAt(t) PROVE OwedAt(t)'
      BY <1>1, <1>2, <2>1 DEF OwedAt
    <2> QED
      BY <1>1, <2>1 DEF Housing, Owed
  <1> QED
    BY <1>3, <1>4, <1>5, <1>6, <1>7 DEF Housing

LEMMA HousingElsewhere ==
    ASSUME Housing, NEW k, k \notin {"Build", "Complete", "Destroy", "Flush"}, Concerns(k)
    PROVE  Housing'
  BY HousingKept DEF Concerns

\* What the jobs and the messages on their way are.
LEMMA OnTheWay ==
    ASSUME Inv
    PROVE  /\ Queued \subseteq Item /\ Heard \subseteq Message
           /\ \A x \in Traffic : x.job.k \in {"Build", "Destroy"} => x.job.id \in Nat \ {0} /\ x.job.site \in Site
           /\ \A x \in Traffic : x.job.id # Fresh
           /\ \A x \in Traffic : x.job.k = "Destroy" => ~Standing(x.job.id)
           /\ \A x \in Queued : x.job.k = "Build" => city.houses[x.job.site] = [id |-> x.job.id, st |-> "ORDERED"]
  <1>1. Queued \subseteq Item /\ Heard \subseteq Message
    BY Members DEF Queued, Heard, Inv, Types, QueueType, InboxType
  <1>2. ASSUME NEW x \in Traffic, x.job.k \in {"Build", "Destroy"} PROVE x.job.id \in Nat \ {0} /\ x.job.site \in Site
    <2>1. x.job \in Jobs \cup Deaths
      BY <1>1 DEF Traffic, Item, Message
    <2> QED
      BY <1>2, <2>1, Kinds DEF BuildJobs, DestroyJobs
  <1>3. ASSUME NEW x \in Traffic PROVE x.job.id # Fresh /\ (x.job.k = "Destroy" => ~Standing(x.job.id))
    <2>1. CASE x \in Queued
      <3>1. PICK i \in DOMAIN queue : queue[i] = x
        BY <2>1, Members DEF Queued
      <3> QED
        BY <3>1, FreshId DEF Inv, Sites, Fallen, Ruins
    <2>2. CASE x \in Heard
      <3>1. PICK i \in DOMAIN inbox : inbox[i] = x
        BY <2>2, Members DEF Heard
      <3> QED
        BY <3>1, FreshId DEF Inv, Sites, Fallen, Ruins
    <2> QED
      BY <2>1, <2>2 DEF Traffic
  <1>4. ASSUME NEW x \in Queued, x.job.k = "Build" PROVE city.houses[x.job.site] = [id |-> x.job.id, st |-> "ORDERED"]
    <2>1. PICK i \in DOMAIN queue : queue[i] = x
      BY Members DEF Queued
    <2> QED
      BY <1>4, <2>1 DEF Inv, Sites, Awaited
  <1> QED
    BY <1>1, <1>2, <1>3, <1>4

\* The houses as the step finds them: distinct, and of these states.
LEMMA HouseFacts ==
    ASSUME Inv
    PROVE  /\ \A t \in Site : /\ city.houses[t] = NoHouse \/ city.houses[t].id \in Nat \ {0}
                              /\ city.houses[t].st \in {"ORDERED", "UNDER_CONSTRUCTION", "COMPLETE"} => city.houses[t].id # NoId
                              /\ city.houses[t].st \in {"NONE", "ORDERED", "UNDER_CONSTRUCTION", "COMPLETE"}
           /\ \A t, u \in Site : city.houses[t].id = city.houses[u].id /\ city.houses[t].id # NoId => t = u
           /\ \A h \in row.houses : h.id # NoId
           /\ NoHouse.id = NoId /\ NoHouse.st = "NONE"
           /\ \A t \in Site : city.destroying[t] # NoId => city.houses[t] = NoHouse
           /\ \A d \in city.destructions : d.id # NoId /\ ~Standing(d.id)
  <1>1. city.houses \in [Site -> House] /\ \A h \in row.houses : h.id \in Nat \ {0}
    BY DEF Inv, Types, CityType, BaseType
  <1>2. \A r \in House : /\ r = NoHouse \/ r.id \in Nat \ {0}
                         /\ r.st \in {"ORDERED", "UNDER_CONSTRUCTION", "COMPLETE"} => r.id # NoId
                         /\ r.st \in {"NONE", "ORDERED", "UNDER_CONSTRUCTION", "COMPLETE"}
    BY DEF House, NoHouse, NoId
  <1>3. \A d \in city.destructions : d.id # NoId /\ ~Standing(d.id)
    BY DEF Inv, Types, CityType, Sites, Fallen, NoId
  <1> QED
    BY <1>1, <1>2, <1>3 DEF Inv, Sites, Distinct, Ruined, NoHouse, NoId

LEMMA BuildHousing == ASSUME Inv, Housing, NEW t \in Site, BuildBuilding(t) PROVE Housing'
  <1>1. PICK n, j : n = Fresh /\ j = Build(Fresh, t)
    OBVIOUS
  <1>2. Added(j) /\ row' = row /\ j.k = "Build" /\ j.id = n /\ j.site = t
    BY <1>1, BuildConcerns, Adds DEF Build
  <1>3. city' = [city EXCEPT !.houses[t] = [id |-> n, st |-> "ORDERED"]] /\ ~Occupied(t)
    BY <1>1 DEF BuildBuilding, Becomes
  <1>4. /\ city'.houses = [city.houses EXCEPT ![t] = [id |-> n, st |-> "ORDERED"]] /\ city'.destroying = city.destroying
        /\ city'.completions = city.completions /\ city'.destructions = city.destructions
    BY <1>3 DEF Inv, Types, CityType, CityShape
  <1>5. /\ city'.houses[t].id = n /\ city'.houses[t].st = "ORDERED"
        /\ \A u \in Site : u # t => city'.houses[u] = city.houses[u]
    <2>1. city.houses \in [Site -> House]
      BY DEF Inv, Types, CityType
    <2>2. city'.houses[t] = [id |-> n, st |-> "ORDERED"]
      BY <1>4, <2>1
    <2> QED
      BY <1>4, <2>1, <2>2
  <1>6. city.houses[t] = NoHouse /\ city.destroying[t] = NoId
    BY <1>3 DEF Occupied
  <1>7. /\ n \in Nat \ {0} /\ ~Built(n) /\ \A u \in Site : city.destroying[u] # n
        /\ \A x \in Traffic : x.job.id # n
    BY <1>1, FreshId, OnTheWay DEF Inv
  <1>8. /\ \A x \in Traffic' : x \in Traffic \/ x.job = j
        /\ \A m \in Heard' : m \in Heard \/ ~m.ok
        /\ Traffic \subseteq Traffic' /\ (lost => lost')
        /\ lost' \/ \E x \in Traffic' : x.job = j
    BY <1>2 DEF Added, Traffic
  <1>9. \A k : (Built(k)' <=> Built(k)) /\ (FinishedRow(k)' <=> FinishedRow(k))
    BY <1>2 DEF Built, FinishedRow
  <1>10. \A k : k # n /\ Standing(k)' => Standing(k)
    BY <1>5 DEF Standing
  <1>11. \A u \in Site : u # t => city'.houses[u].st = city.houses[u].st /\ city'.houses[u].id = city.houses[u].id
    BY <1>5
  <1>12. Matched'
    BY <1>2, <1>5, <1>7 DEF Housing, Matched, Built
  <1>13. Ended'
    <2>1. \A k \in city'.completions : \E u \in Site : city'.houses[u].id = k /\ city'.houses[u].st = "COMPLETE"
      <3>1. ASSUME NEW k \in city.completions PROVE \E u \in Site : city'.houses[u].id = k /\ city'.houses[u].st = "COMPLETE"
        <4>1. PICK u \in Site : city.houses[u].id = k /\ city.houses[u].st = "COMPLETE"
          BY DEF Housing, Ended
        <4>2. u # t
          BY <1>6, <4>1 DEF NoHouse
        <4> QED
          BY <1>11, <4>1, <4>2
      <3> QED
        BY <1>4, <3>1
    <2>2. ASSUME NEW x \in Traffic', x.job.k = "Complete"
          PROVE  x.job.id # NoId /\ \A u \in Site : city'.houses[u].id = x.job.id => city'.houses[u].st = "COMPLETE"
      <3>1. x \in Traffic
        BY <1>2, <1>8, <2>2
      <3> QED
        BY <1>5, <1>7, <1>11, <2>2, <3>1 DEF Housing, Ended
    <2> QED
      BY <2>1, <2>2 DEF Ended
  <1>14. BuiltUp'
    <2>1. ASSUME NEW m \in Heard', m.job.k = "Build", m.ok, Standing(m.job.id)' PROVE Built(m.job.id)'
      <3>1. m \in Heard
        BY <1>8, <2>1
      <3>2. m.job.id # n
        BY <1>7, <3>1 DEF Traffic
      <3> QED
        BY <1>9, <1>10, <2>1, <3>1, <3>2 DEF Housing, BuiltUp
    <2> QED
      BY <1>5, <1>9, <1>11, <2>1 DEF Housing, BuiltUp
  <1>15. RuinsKnown'
    <2>1. ASSUME NEW x \in Traffic', x.job.k = "Destroy", NEW u \in Site, city.destroying[u] = x.job.id PROVE x.job.site = u
      BY <1>2, <1>8, <2>1 DEF Housing, RuinsKnown
    <2> QED
      BY <1>4, <1>7, <1>10, <2>1 DEF Housing, RuinsKnown
  <1>16. Owed'
    <2>1. ASSUME ~lost', NEW u \in Site PROVE OwedAt(u)'
      <3>1. OwedAt(u) /\ \E x \in Traffic' : x.job = j
        BY <1>8, <2>1 DEF Housing, Owed
      <3>2. CASE u = t
        BY <1>2, <1>4, <1>5, <1>6, <3>1, <3>2 DEF OwedAt
      <3>3. CASE u # t
        BY <1>4, <1>8, <1>9, <1>11, <3>1, <3>3 DEF OwedAt
      <3> QED
        BY <3>2, <3>3
    <2> QED
      BY <2>1 DEF Owed
  <1> QED
    BY <1>12, <1>13, <1>14, <1>15, <1>16 DEF Housing

LEMMA CompleteHousing == ASSUME Inv, Housing, NEW t \in Site, CompleteBuilding(t) PROVE Housing'
  <1>1. PICK n, j : n = city.houses[t].id /\ j = Complete(city.houses[t].id)
    OBVIOUS
  <1>2. Added(j) /\ row' = row /\ j.k = "Complete" /\ j.id = n
    BY <1>1, CompleteConcerns, Adds DEF Complete
  <1>3. city' = [city EXCEPT !.houses[t].st = "COMPLETE", !.limit = @ + Bonus] /\ city.houses[t].st = "UNDER_CONSTRUCTION"
    BY DEF CompleteBuilding, Becomes
  <1>4. /\ city'.houses = [city.houses EXCEPT ![t].st = "COMPLETE"] /\ city'.destroying = city.destroying
        /\ city'.completions = city.completions /\ city'.destructions = city.destructions
    BY <1>3 DEF Inv, Types, CityType, CityShape
  <1>5. /\ city'.houses[t].st = "COMPLETE"
        /\ \A u \in Site : city'.houses[u].id = city.houses[u].id
        /\ \A u \in Site : u # t => city'.houses[u].st = city.houses[u].st
    <2>1. city.houses \in [Site -> House]
      BY DEF Inv, Types, CityType
    <2>2. city.houses[t] \in [id : Nat \ {0}, st : {"ORDERED", "UNDER_CONSTRUCTION", "COMPLETE"}]
      BY <1>3, <2>1 DEF House, NoHouse
    <2>3. city'.houses[t] = [city.houses[t] EXCEPT !.st = "COMPLETE"] /\ \A u \in Site : u # t => city'.houses[u] = city.houses[u]
      BY <1>4, <2>1
    <2>4. city'.houses[t].st = "COMPLETE" /\ city'.houses[t].id = city.houses[t].id
      BY <2>2, <2>3
    <2> QED
      BY <2>3, <2>4
  <1>6. /\ \A x \in Traffic' : x \in Traffic \/ x.job = j
        /\ \A m \in Heard' : m \in Heard \/ ~m.ok
        /\ Traffic \subseteq Traffic' /\ (lost => lost')
        /\ lost' \/ \E x \in Traffic' : x.job = j
    BY <1>2 DEF Added, Traffic
  <1>7. \A k : (Built(k)' <=> Built(k)) /\ (FinishedRow(k)' <=> FinishedRow(k)) /\ (Standing(k)' <=> Standing(k))
    BY <1>2, <1>5 DEF Built, FinishedRow, Standing
  <1>8. n # NoId /\ \A u \in Site : city.houses[u].id = n => u = t
    BY <1>1, <1>3, HouseFacts
  <1>9. Matched'
    BY <1>2, <1>5 DEF Housing, Matched
  <1>10. Ended'
    <2>1. \A k \in city'.completions : \E u \in Site : city'.houses[u].id = k /\ city'.houses[u].st = "COMPLETE"
      BY <1>4, <1>5 DEF Housing, Ended
    <2>2. ASSUME NEW x \in Traffic', x.job.k = "Complete"
          PROVE  x.job.id # NoId /\ \A u \in Site : city'.houses[u].id = x.job.id => city'.houses[u].st = "COMPLETE"
      <3>1. CASE x \in Traffic
        BY <1>5, <2>2, <3>1 DEF Housing, Ended
      <3>2. CASE x.job = j
        BY <1>2, <1>5, <1>8, <3>2
      <3> QED
        BY <1>6, <3>1, <3>2
    <2> QED
      BY <2>1, <2>2 DEF Ended
  <1>11. BuiltUp'
    <2>1. ASSUME NEW m \in Heard', m.job.k = "Build", m.ok, Standing(m.job.id)' PROVE Built(m.job.id)'
      BY <1>6, <1>7, <2>1 DEF Housing, BuiltUp
    <2>2. ASSUME NEW u \in Site, city'.houses[u].st \in {"UNDER_CONSTRUCTION", "COMPLETE"} PROVE Built(city.houses[u].id)'
      <3>1. city.houses[u].st \in {"UNDER_CONSTRUCTION", "COMPLETE"}
        BY <1>3, <1>5, <2>2
      <3>2. Built(city.houses[u].id)
        BY <3>1 DEF Housing, BuiltUp
      <3> QED
        BY <1>2, <1>5, <3>2 DEF Built
    <2> QED
      BY <2>1, <2>2 DEF BuiltUp
  <1>12. RuinsKnown'
    <2>1. ASSUME NEW x \in Traffic', x.job.k = "Destroy", NEW u \in Site, city.destroying[u] = x.job.id PROVE x.job.site = u
      BY <1>2, <1>6, <2>1 DEF Housing, RuinsKnown
    <2> QED
      BY <1>4, <1>7, <2>1 DEF Housing, RuinsKnown
  <1>13. Owed'
    <2>1. ASSUME ~lost', NEW u \in Site PROVE OwedAt(u)'
      <3>1. OwedAt(u) /\ \E x \in Traffic' : x.job = j
        BY <1>6, <2>1 DEF Housing, Owed
      <3>2. CASE u = t
        BY <1>1, <1>2, <1>4, <1>5, <1>6, <3>1, <3>2 DEF OwedAt
      <3>3. CASE u # t
        BY <1>4, <1>5, <1>6, <1>7, <3>1, <3>3 DEF OwedAt
      <3> QED
        BY <3>2, <3>3
    <2> QED
      BY <2>1 DEF Owed
  <1> QED
    BY <1>9, <1>10, <1>11, <1>12, <1>13 DEF Housing

LEMMA DestroyHousing == ASSUME Inv, Housing, NEW t \in Site, DestroyHouse(t) PROVE Housing'
  <1>1. PICK n, j : n = city.houses[t].id /\ j = Destroy(city.houses[t].id, t)
    OBVIOUS
  <1>2. Added(j) /\ row' = row /\ j.k = "Destroy" /\ j.id = n /\ j.site = t
    BY <1>1, DestroyConcerns, Adds DEF Destroy
  <1>3. PICK s : s = city.houses[t].st
    OBVIOUS
  <1>4. s \in {"UNDER_CONSTRUCTION", "COMPLETE"}
        /\ city' = [city EXCEPT !.houses[t] = NoHouse, !.destroying[t] = n, !.completions = @ \ {n},
                                !.limit = IF s = "COMPLETE" THEN @ - Bonus ELSE @]
    BY <1>1, <1>3 DEF DestroyHouse, Becomes
  <1>5. /\ city'.houses = [city.houses EXCEPT ![t] = NoHouse] /\ city'.destroying = [city.destroying EXCEPT ![t] = n]
        /\ city'.completions = city.completions \ {n} /\ city'.destructions = city.destructions
    BY <1>4 DEF Inv, Types, CityType, CityShape
  <1>6. /\ city'.houses[t].id = NoId /\ city'.houses[t].st = "NONE" /\ city'.destroying[t] = n
        /\ \A u \in Site : u # t => city'.houses[u].id = city.houses[u].id /\ city'.houses[u].st = city.houses[u].st
        /\ \A u \in Site : u # t => city'.destroying[u] = city.destroying[u]
    <2>1. city.houses \in [Site -> House] /\ city.destroying \in [Site -> Nat]
      BY DEF Inv, Types, CityType
    <2>2. city'.houses[t] = NoHouse /\ \A u \in Site : u # t => city'.houses[u] = city.houses[u]
      BY <1>5, <2>1
    <2>3. city'.destroying[t] = n /\ \A u \in Site : u # t => city'.destroying[u] = city.destroying[u]
      BY <1>5, <2>1
    <2> QED
      BY <2>2, <2>3, HouseFacts
  <1>7. /\ n # NoId /\ Standing(n) /\ \A u \in Site : city.houses[u].id = n => u = t
        /\ \A h \in row.houses : h.id # NoId
    BY <1>1, <1>3, <1>4, HouseFacts DEF Standing
  <1>8. /\ \A x \in Traffic' : x \in Traffic \/ x.job = j
        /\ \A m \in Heard' : m \in Heard \/ ~m.ok
        /\ Traffic \subseteq Traffic' /\ (lost => lost')
        /\ lost' \/ \E x \in Traffic' : x.job = j
    BY <1>2 DEF Added, Traffic
  <1>9. \A k : (Built(k)' <=> Built(k)) /\ (FinishedRow(k)' <=> FinishedRow(k))
    BY <1>2 DEF Built, FinishedRow
  <1>10. \A k : k # NoId /\ Standing(k)' => Standing(k) /\ k # n
    BY <1>6, <1>7 DEF Standing
  <1>11. Matched'
    BY <1>2, <1>6, <1>7 DEF Housing, Matched
  <1>12. Ended'
    <2>1. ASSUME NEW k \in city'.completions PROVE \E u \in Site : city'.houses[u].id = k /\ city'.houses[u].st = "COMPLETE"
      <3>1. k \in city.completions /\ k # n
        BY <1>5, <2>1
      <3>2. PICK u \in Site : city.houses[u].id = k /\ city.houses[u].st = "COMPLETE"
        BY <3>1 DEF Housing, Ended
      <3> QED
        BY <1>1, <1>6, <3>1, <3>2
    <2>2. ASSUME NEW x \in Traffic', x.job.k = "Complete"
          PROVE  x.job.id # NoId /\ \A u \in Site : city'.houses[u].id = x.job.id => city'.houses[u].st = "COMPLETE"
      <3>1. x \in Traffic
        BY <1>2, <1>8, <2>2
      <3> QED
        BY <1>6, <2>2, <3>1 DEF Housing, Ended
    <2> QED
      BY <2>1, <2>2 DEF Ended
  <1>13. BuiltUp'
    <2>1. ASSUME NEW m \in Heard', m.job.k = "Build", m.ok, Standing(m.job.id)' PROVE Built(m.job.id)'
      <3>1. m \in Heard
        BY <1>8, <2>1
      <3>2. m.job.id # NoId
        BY <2>1, <3>1, OnTheWay DEF Traffic, NoId
      <3> QED
        BY <1>9, <1>10, <2>1, <3>1, <3>2 DEF Housing, BuiltUp
    <2>2. ASSUME NEW u \in Site, city'.houses[u].st \in {"UNDER_CONSTRUCTION", "COMPLETE"} PROVE Built(city.houses[u].id)'
      <3>1. u # t /\ city.houses[u].st \in {"UNDER_CONSTRUCTION", "COMPLETE"}
        BY <1>6, <2>2
      <3>2. Built(city.houses[u].id)
        BY <3>1 DEF Housing, BuiltUp
      <3> QED
        BY <1>2, <1>6, <3>1, <3>2 DEF Built
    <2> QED
      BY <2>1, <2>2 DEF BuiltUp
  <1>14. RuinsKnown'
    <2>1. ASSUME NEW u \in Site, city'.destroying[u] # NoId PROVE ~Standing(city.destroying[u])'
      <3>1. CASE u = t
        BY <1>6, <1>7, <3>1 DEF Standing
      <3>2. CASE u # t
        <4>1. ~Standing(city.destroying[u]) /\ city.destroying[u] # NoId
          BY <1>6, <2>1, <3>2 DEF Housing, RuinsKnown
        <4> QED
          BY <1>6, <3>2, <4>1 DEF Standing
      <3> QED
        BY <3>1, <3>2
    <2>2. ASSUME NEW x \in Traffic', x.job.k = "Destroy", NEW u \in Site, city'.destroying[u] = x.job.id PROVE x.job.site = u
      <3>1. CASE x.job = j
        <4>1. u # t => ~Standing(city.destroying[u])
          BY <1>2, <1>6, <1>7, <2>2, <3>1 DEF Housing, RuinsKnown
        <4> QED
          BY <1>2, <1>6, <1>7, <2>2, <3>1, <4>1
      <3>2. CASE x \in Traffic
        <4>1. x.job.id # n
          BY <1>7, <2>2, <3>2, OnTheWay
        <4> QED
          BY <1>6, <2>2, <3>2, <4>1 DEF Housing, RuinsKnown
      <3> QED
        BY <1>8, <3>1, <3>2
    <2>3. ASSUME NEW d \in city'.destructions, NEW u \in Site, city'.destroying[u] = d.id PROVE d.site = u
      <3>1. d \in city.destructions /\ d.id # n
        BY <1>5, <1>7, HouseFacts
      <3> QED
        BY <1>6, <2>3, <3>1 DEF Housing, RuinsKnown
    <2> QED
      BY <2>1, <2>2, <2>3 DEF RuinsKnown
  <1>15. Owed'
    <2>1. ASSUME ~lost', NEW u \in Site PROVE OwedAt(u)'
      <3>1. OwedAt(u) /\ \E x \in Traffic' : x.job = j
        BY <1>8, <2>1 DEF Housing, Owed
      <3>2. CASE u = t
        BY <1>2, <1>6, <3>1, <3>2 DEF OwedAt
      <3>3. CASE u # t
        <4>1. city.houses[u].id # n
          BY <1>7, <3>3
        <4> QED
          BY <1>5, <1>6, <1>8, <1>9, <3>1, <3>3, <4>1 DEF OwedAt
      <3> QED
        BY <3>2, <3>3
    <2> QED
      BY <2>1 DEF Owed
  <1> QED
    BY <1>11, <1>12, <1>13, <1>14, <1>15 DEF Housing

LEMMA FlushHousing == Inv /\ Housing /\ FlushDirty => Housing'
  <1> SUFFICES ASSUME Inv, Housing, FlushDirty PROVE Housing'
    OBVIOUS
  <1>1. /\ Resubmits /\ UNCHANGED <<row, ghost>>
        /\ city' = [city EXCEPT !.completions = {}, !.eraEnd = FALSE, !.destructions = {}, !.deaths = {}]
    BY Flushes
  <1>2. city'.houses = city.houses /\ city'.destroying = city.destroying /\ city'.completions = {} /\ city'.destructions = {}
    BY <1>1 DEF Inv, Types, CityType, CityShape
  <1>3. /\ \A x \in Traffic' : x \in Traffic \/ x.job \in Again
        /\ \A m \in Heard' : m \in Heard \/ ~m.ok
        /\ Traffic \subseteq Traffic' /\ (lost => lost')
        /\ lost' \/ \A j \in Again : \E x \in Traffic' : x.job = j
    BY <1>1 DEF Resubmits, Traffic
  <1>4. /\ \A j \in Again : j.k = "Complete" => j.id \in city.completions
        /\ \A n \in city.completions : Standing(n) => \E j \in Again : j.k = "Complete" /\ j.id = n
        /\ \A j \in Again : j.k = "Destroy" => \E d \in city.destructions : j.id = d.id /\ j.site = d.site
        /\ \A d \in city.destructions : \E j \in Again : j.k = "Destroy" /\ j.id = d.id
    <2>1. \A n : Complete(n).k = "Complete" /\ Complete(n).id = n
      BY DEF Complete
    <2>2. \A n, u : Destroy(n, u).k = "Destroy" /\ Destroy(n, u).id = n /\ Destroy(n, u).site = u
      BY DEF Destroy
    <2>3. EraEnd.k = "EraEnd"
      BY DEF EraEnd
    <2> QED
      BY <2>1, <2>2, <2>3 DEF Again
  <1>5. \A k : (Built(k)' <=> Built(k)) /\ (FinishedRow(k)' <=> FinishedRow(k)) /\ (Standing(k)' <=> Standing(k))
    BY <1>1, <1>2 DEF Built, FinishedRow, Standing
  <1>6. Matched'
    BY <1>1, <1>2 DEF Housing, Matched
  <1>7. Ended'
    <2>1. ASSUME NEW x \in Traffic', x.job.k = "Complete"
          PROVE  x.job.id # NoId /\ \A u \in Site : city.houses[u].id = x.job.id => city.houses[u].st = "COMPLETE"
      <3>1. CASE x \in Traffic
        BY <2>1, <3>1 DEF Housing, Ended
      <3>2. CASE x.job \in Again
        <4>1. PICK u \in Site : city.houses[u].id = x.job.id /\ city.houses[u].st = "COMPLETE"
          BY <1>4, <2>1, <3>2 DEF Housing, Ended
        <4> QED
          BY <4>1, HouseFacts
      <3> QED
        BY <1>3, <3>1, <3>2
    <2> QED
      BY <1>2, <2>1 DEF Ended
  <1>8. BuiltUp'
    BY <1>2, <1>3, <1>5 DEF Housing, BuiltUp
  <1>9. RuinsKnown'
    <2>1. ASSUME NEW x \in Traffic', x.job.k = "Destroy", NEW u \in Site, city.destroying[u] = x.job.id PROVE x.job.site = u
      BY <1>3, <1>4, <2>1 DEF Housing, RuinsKnown
    <2> QED
      BY <1>2, <1>5, <2>1 DEF Housing, RuinsKnown
  <1>10. Owed'
    <2>1. ASSUME ~lost', NEW u \in Site PROVE OwedAt(u)'
      <3>1. OwedAt(u) /\ \A j \in Again : \E x \in Traffic' : x.job = j
        BY <1>3, <2>1 DEF Housing, Owed
      <3>2. Standing(city.houses[u].id)
        BY DEF Standing
      <3>3. city.houses[u].id \in city.completions => \E x \in Traffic' : x.job.k = "Complete" /\ x.job.id = city.houses[u].id
        BY <1>4, <3>1, <3>2
      <3>4. (\E d \in city.destructions : d.id = city.destroying[u]) => \E x \in Traffic' : x.job.k = "Destroy" /\ x.job.id = city.destroying[u]
        BY <1>4, <3>1
      <3> QED
        BY <1>2, <1>3, <1>5, <3>1, <3>3, <3>4 DEF OwedAt
    <2> QED
      BY <2>1 DEF Owed
  <1> QED
    BY <1>6, <1>7, <1>8, <1>9, <1>10 DEF Housing

LEMMA HandleBuildHousing ==
    ASSUME Inv, Housing, NEW m \in Message, Heeded(m), city' = Handled(m), UNCHANGED <<row, ghost>>, m.job.k = "Build"
    PROVE  Housing'
  <1>1. /\ m \in Heard /\ Heard' \subseteq Heard /\ Traffic' \subseteq Traffic /\ Traffic \subseteq Traffic' \cup {m}
        /\ (lost => lost') /\ m.ok \in BOOLEAN
    BY DEF Heeded, Message, Traffic
  <1>2. PICK t, n : t = m.job.site /\ n = m.job.id
    OBVIOUS
  <1>3. t \in Site /\ n # NoId
    BY <1>1, <1>2, OnTheWay DEF Traffic, NoId
  <1>4. city' = HandleBuildResolved(m)
    BY DEF Handled
  <1>5. \A k : (Built(k)' <=> Built(k)) /\ (FinishedRow(k)' <=> FinishedRow(k))
    BY DEF Built, FinishedRow
  <1>6. CASE city.houses[t].st # "ORDERED" \/ city.houses[t].id # n
    <2>1. city' = city
      BY <1>2, <1>4, <1>6 DEF HandleBuildResolved
    <2>2. \A k : Standing(k)' <=> Standing(k)
      BY <2>1 DEF Standing
    <2>3. Matched'
      BY <2>1 DEF Housing, Matched
    <2>4. Ended'
      BY <1>1, <2>1 DEF Housing, Ended
    <2>5. BuiltUp'
      BY <1>1, <1>5, <2>1, <2>2 DEF Housing, BuiltUp
    <2>6. RuinsKnown'
      BY <1>1, <2>1, <2>2 DEF Housing, RuinsKnown
    <2>7. Owed'
      <3>1. ASSUME ~lost', NEW u \in Site PROVE OwedAt(u)'
        <4>1. OwedAt(u)
          BY <1>1, <3>1 DEF Housing, Owed
        <4>2. ASSUME city.houses[u].st = "ORDERED" PROVE \E x \in Traffic' : x.job.k = "Build" /\ x.job.id = city.houses[u].id /\ x.job.site = u
          <5>1. PICK x \in Traffic : x.job.k = "Build" /\ x.job.id = city.houses[u].id /\ x.job.site = u
            BY <4>1, <4>2 DEF OwedAt
          <5>2. x # m
            BY <1>2, <1>6, <4>2, <5>1
          <5> QED
            BY <1>1, <5>1, <5>2
        <4> QED
          BY <1>1, <1>5, <2>1, <4>1, <4>2 DEF OwedAt
      <3> QED
        BY <3>1 DEF Owed
    <2> QED
      BY <2>3, <2>4, <2>5, <2>6, <2>7 DEF Housing
  <1>7. CASE city.houses[t].st = "ORDERED" /\ city.houses[t].id = n
    <2>1. PICK r : r = IF m.ok THEN [id |-> n, st |-> "UNDER_CONSTRUCTION"] ELSE NoHouse
      OBVIOUS
    <2>2. city' = [city EXCEPT !.houses[t] = r]
      BY <1>2, <1>4, <1>7, <2>1 DEF HandleBuildResolved
    <2>3. /\ city'.houses = [city.houses EXCEPT ![t] = r] /\ city'.destroying = city.destroying
          /\ city'.completions = city.completions /\ city'.destructions = city.destructions
      BY <2>2 DEF Inv, Types, CityType, CityShape
    <2>4. /\ m.ok => r.id = n /\ r.st = "UNDER_CONSTRUCTION"
          /\ ~m.ok => r.id = NoId /\ r.st = "NONE"
      BY <2>1 DEF NoHouse
    <2>5. /\ city'.houses[t].id = r.id /\ city'.houses[t].st = r.st
          /\ \A u \in Site : u # t => city'.houses[u].id = city.houses[u].id /\ city'.houses[u].st = city.houses[u].st
      BY <1>3, <2>3 DEF Inv, Types, CityType
    <2>6. /\ \A u \in Site : city.houses[u].id = n => u = t
          /\ \A h \in row.houses : h.id # NoId
          /\ city.destroying[t] = NoId
      BY <1>3, <1>7, HouseFacts
    <2>7. \A k : k # NoId /\ Standing(k)' => Standing(k)
      BY <1>1, <1>7, <2>4, <2>5 DEF Standing
    <2>8. Standing(n)
      BY <1>3, <1>7 DEF Standing
    <2>9. m.ok => Built(n)
      BY <1>1, <1>2, <2>8 DEF Housing, BuiltUp
    <2>10. Matched'
      <3>1. ASSUME NEW h \in row.houses, NEW u \in Site, city'.houses[u].id = h.id
            PROVE  h.site = u /\ (h.st = "COMPLETE" => city'.houses[u].st = "COMPLETE")
        BY <1>1, <1>7, <2>4, <2>5, <2>6, <3>1 DEF Housing, Matched
      <3> QED
        BY <3>1 DEF Matched
    <2>11. Ended'
      <3>1. ASSUME NEW k \in city.completions PROVE \E u \in Site : city'.houses[u].id = k /\ city'.houses[u].st = "COMPLETE"
        <4>1. PICK u \in Site : city.houses[u].id = k /\ city.houses[u].st = "COMPLETE"
          BY DEF Housing, Ended
        <4> QED
          BY <1>7, <2>5, <4>1
      <3>2. ASSUME NEW x \in Traffic', x.job.k = "Complete"
            PROVE  x.job.id # NoId /\ \A u \in Site : city'.houses[u].id = x.job.id => city'.houses[u].st = "COMPLETE"
        <4>1. x.job.id # NoId /\ \A u \in Site : city.houses[u].id = x.job.id => city.houses[u].st = "COMPLETE"
          BY <1>1, <3>2 DEF Housing, Ended
        <4>2. x.job.id # n
          BY <1>3, <1>7, <4>1
        <4> QED
          BY <1>1, <2>4, <2>5, <4>1, <4>2
      <3> QED
        BY <2>3, <3>1, <3>2 DEF Ended
    <2>12. BuiltUp'
      <3>1. ASSUME NEW u \in Site, city'.houses[u].st \in {"UNDER_CONSTRUCTION", "COMPLETE"} PROVE Built(city.houses[u].id)'
        <4>1. CASE u = t
          BY <1>1, <1>5, <2>4, <2>5, <2>9, <3>1, <4>1 DEF Built
        <4>2. CASE u # t
          <5>1. Built(city.houses[u].id)
            BY <2>5, <3>1, <4>2 DEF Housing, BuiltUp
          <5> QED
            BY <2>5, <4>2, <5>1 DEF Built
        <4> QED
          BY <4>1, <4>2
      <3>2. ASSUME NEW x \in Heard', x.job.k = "Build", x.ok, Standing(x.job.id)' PROVE Built(x.job.id)'
        <4>1. x \in Heard /\ x.job.id # NoId
          BY <1>1, <3>2, OnTheWay DEF Traffic, NoId
        <4> QED
          BY <1>5, <2>7, <3>2, <4>1 DEF Housing, BuiltUp
      <3> QED
        BY <3>1, <3>2 DEF BuiltUp
    <2>13. RuinsKnown'
      <3>1. ASSUME NEW u \in Site, city.destroying[u] # NoId PROVE ~Standing(city.destroying[u])'
        <4>1. ~Standing(city.destroying[u])
          BY <3>1 DEF Housing, RuinsKnown
        <4> QED
          BY <2>3, <2>7, <3>1, <4>1 DEF Standing
      <3> QED
        BY <1>1, <2>3, <3>1 DEF Housing, RuinsKnown
    <2>14. Owed'
      <3>1. ASSUME ~lost', NEW u \in Site PROVE OwedAt(u)'
        <4>1. OwedAt(u)
          BY <1>1, <3>1 DEF Housing, Owed
        <4>2. CASE u = t
          BY <1>1, <2>3, <2>4, <2>5, <2>6, <4>2 DEF OwedAt
        <4>3. CASE u # t
          <5>1. ASSUME NEW x \in Traffic, x.job.k = "Build", x.job.site = u PROVE x \in Traffic'
            BY <1>1, <1>2, <4>3, <5>1
          <5>2. ASSUME NEW x \in Traffic, x.job.k # "Build" PROVE x \in Traffic'
            BY <1>1, <5>2
          <5> QED
            BY <1>5, <2>3, <2>5, <4>1, <4>3, <5>1, <5>2 DEF OwedAt
        <4> QED
          BY <4>2, <4>3
      <3> QED
        BY <3>1 DEF Owed
    <2> QED
      BY <2>10, <2>11, <2>12, <2>13, <2>14 DEF Housing
  <1> QED
    BY <1>6, <1>7

LEMMA HandleCompleteHousing ==
    ASSUME Inv, Housing, NEW m \in Message, Heeded(m), city' = Handled(m), UNCHANGED <<row, ghost>>, m.job.k = "Complete"
    PROVE  Housing'
  <1>1. /\ m \in Heard /\ Heard' \subseteq Heard /\ Traffic' \subseteq Traffic /\ Traffic \subseteq Traffic' \cup {m}
        /\ (lost => lost')
    BY DEF Heeded, Traffic
  <1>2. PICK n : n = m.job.id
    OBVIOUS
  <1>3. city' = HandleBuildingCompletePersistFailed(m)
    BY DEF Handled
  <1>4. /\ city'.houses = city.houses /\ city'.destroying = city.destroying /\ city'.destructions = city.destructions
        /\ city'.completions \subseteq city.completions \cup {n} /\ city.completions \subseteq city'.completions
        /\ n \in city'.completions /\ n \notin city.completions => Standing(n)
        /\ Standing(n) => n \in city'.completions
    BY <1>2, <1>3 DEF HandleBuildingCompletePersistFailed, Inv, Types, CityType, CityShape
  <1>5. \A k : (Built(k)' <=> Built(k)) /\ (FinishedRow(k)' <=> FinishedRow(k)) /\ (Standing(k)' <=> Standing(k))
    BY <1>4 DEF Built, FinishedRow, Standing
  <1>6. \A u \in Site : city.houses[u].id = n => city.houses[u].st = "COMPLETE"
    BY <1>1, <1>2 DEF Housing, Ended, Traffic
  <1>7. Matched'
    BY <1>4 DEF Housing, Matched
  <1>8. Ended'
    <2>1. \A k \in city'.completions : \E u \in Site : city.houses[u].id = k /\ city.houses[u].st = "COMPLETE"
      BY <1>4, <1>6 DEF Housing, Ended, Standing
    <2> QED
      BY <1>1, <1>4, <2>1 DEF Housing, Ended
  <1>9. BuiltUp'
    BY <1>1, <1>4, <1>5 DEF Housing, BuiltUp
  <1>10. RuinsKnown'
    BY <1>1, <1>4, <1>5 DEF Housing, RuinsKnown
  <1>11. Owed'
    <2>1. ASSUME ~lost', NEW u \in Site PROVE OwedAt(u)'
      <3>1. OwedAt(u) /\ Standing(city.houses[u].id)
        BY <1>1, <2>1 DEF Housing, Owed, Standing
      <3>2. ASSUME NEW x \in Traffic, x.job.k = "Complete", x.job.id = city.houses[u].id
            PROVE  x \in Traffic' \/ city.houses[u].id \in city'.completions
        BY <1>1, <1>2, <1>4, <3>1, <3>2
      <3>3. ASSUME NEW x \in Traffic, x.job.k # "Complete" PROVE x \in Traffic'
        BY <1>1, <3>3
      <3> QED
        BY <1>4, <1>5, <3>1, <3>2, <3>3 DEF OwedAt
    <2> QED
      BY <2>1 DEF Owed
  <1> QED
    BY <1>7, <1>8, <1>9, <1>10, <1>11 DEF Housing

LEMMA HandleDestroyHousing ==
    ASSUME Inv, Housing, NEW m \in Message, Heeded(m), city' = Handled(m), UNCHANGED <<row, ghost>>, m.job.k = "Destroy"
    PROVE  Housing'
  <1>1. /\ m \in Heard /\ Heard' \subseteq Heard /\ Traffic' \subseteq Traffic /\ Traffic \subseteq Traffic' \cup {m}
        /\ (lost => lost') /\ m.ok \in BOOLEAN
    BY DEF Heeded, Message, Traffic
  <1>2. PICK t, n : t = m.job.site /\ n = m.job.id
    OBVIOUS
  <1>3. t \in Site /\ n # NoId /\ \A u \in Site : city.destroying[u] = n => u = t
    BY <1>1, <1>2, OnTheWay DEF Traffic, NoId, Housing, RuinsKnown
  <1>4. CASE m.ok
    <2>1. city' = [city EXCEPT !.destroying[t] = IF @ = n THEN NoId ELSE @, !.destructions = {d \in @ : d.id # n}]
      BY <1>2, <1>4 DEF Handled, HandleBuildingDestroyResolved
    <2>2. /\ city'.houses = city.houses /\ city'.completions = city.completions
          /\ city'.destructions = {d \in city.destructions : d.id # n}
          /\ city'.destroying = [city.destroying EXCEPT ![t] = IF @ = n THEN NoId ELSE @]
      BY <2>1 DEF Inv, Types, CityType, CityShape
    <2>3. \A u \in Site : IF city.destroying[u] = n THEN city'.destroying[u] = NoId ELSE city'.destroying[u] = city.destroying[u]
      BY <1>3, <2>2 DEF Inv, Types, CityType
    <2>4. \A k : (Built(k)' <=> Built(k)) /\ (FinishedRow(k)' <=> FinishedRow(k)) /\ (Standing(k)' <=> Standing(k))
      BY <2>2 DEF Built, FinishedRow, Standing
    <2>5. Matched'
      BY <2>2 DEF Housing, Matched
    <2>6. Ended'
      BY <1>1, <2>2 DEF Housing, Ended
    <2>7. BuiltUp'
      BY <1>1, <2>2, <2>4 DEF Housing, BuiltUp
    <2>8. RuinsKnown'
      <3>1. ASSUME NEW u \in Site, city'.destroying[u] # NoId PROVE ~Standing(city.destroying[u])' /\ city'.destroying[u] = city.destroying[u]
        BY <2>2, <2>3, <3>1 DEF Housing, RuinsKnown, Standing
      <3>2. \A u \in Site : city'.destroying[u] # NoId => ~Standing(city.destroying[u])'
        BY <3>1
      <3>3. ASSUME NEW x \in Traffic', x.job.k = "Destroy", NEW u \in Site, city'.destroying[u] = x.job.id PROVE x.job.site = u
        <4>1. x.job.id # NoId
          BY <1>1, <3>3, OnTheWay DEF NoId
        <4> QED
          BY <1>1, <3>1, <3>3, <4>1 DEF Housing, RuinsKnown
      <3>4. ASSUME NEW d \in city'.destructions, NEW u \in Site, city'.destroying[u] = d.id PROVE d.site = u
        <4>1. d \in city.destructions /\ d.id # NoId
          BY <2>2, HouseFacts
        <4> QED
          BY <3>1, <3>4, <4>1 DEF Housing, RuinsKnown
      <3> QED
        BY <3>2, <3>3, <3>4 DEF RuinsKnown
    <2>9. Owed'
      <3>1. ASSUME ~lost', NEW u \in Site PROVE OwedAt(u)'
        <4>1. OwedAt(u)
          BY <1>1, <3>1 DEF Housing, Owed
        <4>2. city'.destroying[u] # NoId => city'.destroying[u] = city.destroying[u] /\ city.destroying[u] # n
          BY <2>3
        <4>3. \A x \in Traffic : x.job.k # "Destroy" \/ x.job.id # n => x \in Traffic'
          BY <1>1, <1>2
        <4> QED
          BY <2>2, <2>4, <4>1, <4>2, <4>3 DEF OwedAt
      <3> QED
        BY <3>1 DEF Owed
    <2> QED
      BY <2>5, <2>6, <2>7, <2>8, <2>9 DEF Housing
  <1>5. CASE ~m.ok
    <2>1. PICK g : g = [id |-> n, site |-> t]
      OBVIOUS
    <2>2. city' = [city EXCEPT !.destructions = @ \cup {g}] /\ g.id = n /\ g.site = t
      BY <1>2, <1>5, <2>1 DEF Handled, HandleBuildingDestroyPersistFailed
    <2>3. /\ city'.houses = city.houses /\ city'.completions = city.completions /\ city'.destroying = city.destroying
          /\ city'.destructions = city.destructions \cup {g}
      BY <2>2 DEF Inv, Types, CityType, CityShape
    <2>4. \A k : (Built(k)' <=> Built(k)) /\ (FinishedRow(k)' <=> FinishedRow(k)) /\ (Standing(k)' <=> Standing(k))
      BY <2>3 DEF Built, FinishedRow, Standing
    <2>5. Matched'
      BY <2>3 DEF Housing, Matched
    <2>6. Ended'
      BY <1>1, <2>3 DEF Housing, Ended
    <2>7. BuiltUp'
      BY <1>1, <2>3, <2>4 DEF Housing, BuiltUp
    <2>8. RuinsKnown'
      BY <1>1, <1>3, <2>2, <2>3, <2>4 DEF Housing, RuinsKnown
    <2>9. Owed'
      <3>1. ASSUME ~lost', NEW u \in Site PROVE OwedAt(u)'
        <4>1. OwedAt(u)
          BY <1>1, <3>1 DEF Housing, Owed
        <4>2. ASSUME NEW x \in Traffic, x.job.k = "Destroy", x.job.id = city.destroying[u]
              PROVE  x \in Traffic' \/ \E d \in city'.destructions : d.id = city.destroying[u]
          BY <1>1, <1>2, <2>2, <2>3, <4>2
        <4>3. \A x \in Traffic : x.job.k # "Destroy" => x \in Traffic'
          BY <1>1
        <4> QED
          BY <2>3, <2>4, <4>1, <4>2, <4>3 DEF OwedAt
      <3> QED
        BY <3>1 DEF Owed
    <2> QED
      BY <2>5, <2>6, <2>7, <2>8, <2>9 DEF Housing
  <1> QED
    BY <1>1, <1>4, <1>5

\* What a transaction, answered by ok, writes of the houses the loop holds.
Writes(j, ok) ==
  /\ Matched'
  /\ \A n : Standing(n) /\ Built(n) => Built(n)'
  /\ \A n : Standing(n) /\ FinishedRow(n) => FinishedRow(n)'
  /\ j.k = "Build" /\ ok => Built(j.id)'
  /\ j.k = "Complete" => \A t \in Site : city.houses[t].id = j.id => FinishedRow(j.id)'

LEMMA BuildWrites ==
    ASSUME Inv, Housing, NEW x \in Queued, x.job.k = "Build", NEW afford \in BOOLEAN, row' = TxBuild(x.job, afford).row, city' = city
    PROVE  Writes(x.job, TxBuild(x.job, afford).ok)
  <1>1. PICK j : j = x.job
    OBVIOUS
  <1>2. /\ j.id # NoId /\ j.site \in Site /\ city.houses[j.site] = [id |-> j.id, st |-> "ORDERED"]
    BY <1>1, OnTheWay DEF Traffic, NoId
  <1>3. \A t \in Site : city.houses[t].id = j.id => t = j.site
    <2>1. city.houses[j.site].id = j.id
      BY <1>2
    <2> QED
      BY <1>2, <2>1, HouseFacts
  <1>4. PICK new : new = [id |-> j.id, site |-> j.site, st |-> "UNDER_CONSTRUCTION"]
    OBVIOUS
  <1>5. new.id = j.id /\ new.site = j.site /\ new.st = "UNDER_CONSTRUCTION"
    BY <1>4
  <1>6. \/ row' = row /\ TxBuild(j, afford).ok /\ \E h \in row.houses : h.id = j.id
        \/ row' = row /\ ~TxBuild(j, afford).ok
        \/ row' = [row EXCEPT !.houses = @ \cup {new}]
    BY <1>1, <1>4 DEF TxBuild, Wrote, Refused
  <1>7. \/ row'.houses = row.houses /\ (TxBuild(j, afford).ok => Built(j.id))
        \/ row'.houses = row.houses \cup {new}
    BY <1>6 DEF Inv, Types, BaseType, Rows, RowShape, Built
  <1>8. Matched'
    <2>1. ASSUME NEW h \in row'.houses, NEW t \in Site, city.houses[t].id = h.id
          PROVE  h.site = t /\ (h.st = "COMPLETE" => city.houses[t].st = "COMPLETE")
      <3>1. CASE h \in row.houses
        BY <2>1, <3>1 DEF Housing, Matched
      <3>2. CASE h = new
        BY <1>3, <1>5, <2>1, <3>2
      <3> QED
        BY <1>7, <3>1, <3>2
    <2> QED
      BY <2>1 DEF Matched
  <1>9. /\ \A n : Built(n) => Built(n)'
        /\ \A n : FinishedRow(n) => FinishedRow(n)'
        /\ TxBuild(j, afford).ok => Built(j.id)'
    BY <1>5, <1>7 DEF Built, FinishedRow
  <1> QED
    BY <1>1, <1>8, <1>9 DEF Writes

LEMMA CompleteWrites ==
    ASSUME Inv, Housing, NEW x \in Queued, x.job.k = "Complete", row' = TxCompleteBuilding(x.job).row, city' = city, NEW ok
    PROVE  Writes(x.job, ok)
  <1>1. PICK n : n = x.job.id
    OBVIOUS
  <1> DEFINE due == {h \in row.houses : h.id = n /\ h.st = "UNDER_CONSTRUCTION"}
  <1> DEFINE done == {[h EXCEPT !.st = "COMPLETE"] : h \in due}
  <1>2. \/ due = {} /\ row' = row
        \/ row' = [row EXCEPT !.houses = (@ \ due) \cup done, !.limit = @ + Bonus]
    BY <1>1 DEF TxCompleteBuilding, Wrote
  <1>3. (due = {} /\ row'.houses = row.houses) \/ row'.houses = (row.houses \ due) \cup done
    BY <1>2 DEF Inv, Types, BaseType, Rows, RowShape
  <1>4. \A h \in due : h \in row.houses /\ [h EXCEPT !.st = "COMPLETE"].id = h.id /\ [h EXCEPT !.st = "COMPLETE"].site = h.site
                       /\ [h EXCEPT !.st = "COMPLETE"].st = "COMPLETE"
    BY DEF Inv, Types, BaseType, Rows, HouseRows
  <1>5. /\ \A h \in done : h.id = n /\ h.st = "COMPLETE" /\ \E g \in row.houses : g.id = n /\ g.site = h.site
        /\ \A h \in due : h.id = n /\ \E g \in done : g.id = n /\ g.st = "COMPLETE"
        /\ \A h \in row.houses : h.st = "COMPLETE" => h \notin due
        /\ \A h \in row.houses : h.id = n /\ h \notin due => h.st = "COMPLETE"
    <2>1. \A h \in row.houses : h.st \in {"UNDER_CONSTRUCTION", "COMPLETE"}
      BY DEF Inv, Types, BaseType, Rows, HouseRows
    <2>2. ASSUME NEW h \in due
          PROVE  h.id = n /\ h.st # "COMPLETE" /\ \E g \in done : g.id = n /\ g.st = "COMPLETE"
      <3>1. PICK g : g = [h EXCEPT !.st = "COMPLETE"]
        OBVIOUS
      <3>2. g \in done /\ g.id = h.id /\ g.st = "COMPLETE" /\ h.id = n /\ h.st # "COMPLETE"
        BY <1>4, <3>1
      <3> QED
        BY <3>2
    <2>3. ASSUME NEW h \in done
          PROVE  h.id = n /\ h.st = "COMPLETE" /\ \E g \in row.houses : g.id = n /\ g.site = h.site
      <3>1. PICK g \in due : h = [g EXCEPT !.st = "COMPLETE"]
        OBVIOUS
      <3> QED
        BY <1>4, <3>1
    <2> QED
      BY <2>1, <2>2, <2>3
  <1>6. \A t \in Site : city.houses[t].id = n => city.houses[t].st = "COMPLETE"
    BY <1>1 DEF Housing, Ended, Traffic
  <1> HIDE DEF due, done
  <1>7. \A h \in row'.houses : h \in row.houses \/ h \in done
    BY <1>3
  <1>8. Matched'
    <2>1. ASSUME NEW h \in row'.houses, NEW t \in Site, city.houses[t].id = h.id
          PROVE  h.site = t /\ (h.st = "COMPLETE" => city.houses[t].st = "COMPLETE")
      <3>1. CASE h \in row.houses
        BY <2>1, <3>1 DEF Housing, Matched
      <3>2. CASE h \in done
        BY <1>5, <1>6, <2>1, <3>2 DEF Housing, Matched
      <3> QED
        BY <1>7, <3>1, <3>2
    <2> QED
      BY <2>1 DEF Matched
  <1>9. \A h \in row.houses : h \in row'.houses \/ (h.id = n /\ \E g \in row'.houses : g.id = n /\ g.st = "COMPLETE")
    <2>1. CASE row'.houses = row.houses
      BY <2>1
    <2>2. CASE row'.houses = (row.houses \ due) \cup done
      BY <1>5, <2>2
    <2> QED
      BY <1>3, <2>1, <2>2
  <1>10. \A k : (Built(k) => Built(k)') /\ (FinishedRow(k) => FinishedRow(k)')
    BY <1>9 DEF Built, FinishedRow
  <1>11. Built(n) => FinishedRow(n)'
    <2>1. ASSUME NEW h \in row.houses, h.id = n PROVE \E g \in row'.houses : g.id = n /\ g.st = "COMPLETE"
      <3>1. CASE h \in due
        <4>1. due # {} /\ row'.houses = (row.houses \ due) \cup done
          BY <1>3, <3>1
        <4> QED
          BY <1>5, <3>1, <4>1
      <3>2. CASE h \notin due
        BY <1>5, <1>9, <2>1, <3>2
      <3> QED
        BY <3>1, <3>2
    <2> QED
      BY <2>1 DEF Built, FinishedRow
  <1>12. \A t \in Site : city.houses[t].id = n => Built(n)
    BY <1>6 DEF Housing, BuiltUp
  <1> QED
    BY <1>1, <1>8, <1>10, <1>11, <1>12 DEF Writes

LEMMA DestroyWrites ==
    ASSUME Inv, Housing, NEW x \in Queued, x.job.k = "Destroy", row' = TxDestroyBuilding(x.job).row, city' = city, NEW ok
    PROVE  Writes(x.job, ok)
  <1>1. row'.houses = row.houses \ {h \in row.houses : h.id = x.job.id}
    BY DEF TxDestroyBuilding, Wrote, Inv, Types, BaseType, Rows, RowShape
  <1>2. ~Standing(x.job.id)
    BY OnTheWay DEF Traffic
  <1>3. Matched'
    BY <1>1 DEF Housing, Matched
  <1>4. \A n : Standing(n) => (Built(n) => Built(n)') /\ (FinishedRow(n) => FinishedRow(n)')
    BY <1>1, <1>2 DEF Built, FinishedRow
  <1> QED
    BY <1>3, <1>4 DEF Writes

LEMMA RunWrites ==
    ASSUME Inv, Housing, NEW x \in Queued, x.job.k \in {"Build", "Complete", "Destroy"}, NEW afford \in BOOLEAN,
           row' = Run(x.job, afford).row, city' = city
    PROVE  Writes(x.job, Run(x.job, afford).ok)
  <1>1. CASE x.job.k = "Build"
    <2>1. Run(x.job, afford) = TxBuild(x.job, afford)
      BY <1>1 DEF Run
    <2> QED
      BY <1>1, <2>1, BuildWrites
  <1>2. CASE x.job.k = "Complete"
    <2>1. Run(x.job, afford) = TxCompleteBuilding(x.job)
      BY <1>2 DEF Run
    <2> QED
      BY <1>2, <2>1, CompleteWrites
  <1>3. CASE x.job.k = "Destroy"
    <2>1. Run(x.job, afford) = TxDestroyBuilding(x.job)
      BY <1>3 DEF Run
    <2> QED
      BY <1>3, <2>1, DestroyWrites
  <1> QED
    BY <1>1, <1>2, <1>3

\* A worker ends with x, or keeps it: every job stays on its way, but a house
\* finished in the rows.
LEMMA WorkerHousing ==
    ASSUME Inv, Housing, city' = city, NEW x \in Traffic, lost => lost', Matched',
           \A n : Standing(n) /\ Built(n) => Built(n)', \A n : Standing(n) /\ FinishedRow(n) => FinishedRow(n)',
           \A z \in Traffic' : \E y \in Traffic : y.job = z.job,
           \A z \in Heard' : z \in Heard \/ (z.job = x.job /\ (z.ok /\ x.job.k = "Build" => Built(x.job.id)')),
           lost' \/ \A y \in Traffic :
             \/ \E z \in Traffic' : z.job = y.job
             \/ y.job = x.job /\ x.job.k = "Complete" /\ \A t \in Site : city.houses[t].id = x.job.id => FinishedRow(x.job.id)'
    PROVE  Housing'
  <1>1. \A n : Standing(n)' <=> Standing(n)
    BY DEF Standing
  <1>2. \A t \in Site : Standing(city.houses[t].id)
    BY DEF Standing
  <1>3. Ended'
    <2>1. ASSUME NEW z \in Traffic', z.job.k = "Complete"
          PROVE  z.job.id # NoId /\ \A t \in Site : city.houses[t].id = z.job.id => city.houses[t].st = "COMPLETE"
      <3>1. PICK y \in Traffic : y.job = z.job
        OBVIOUS
      <3> QED
        BY <2>1, <3>1 DEF Housing, Ended
    <2> QED
      BY <2>1 DEF Housing, Ended
  <1>4. BuiltUp'
    <2>1. ASSUME NEW m \in Heard', m.job.k = "Build", m.ok, Standing(m.job.id) PROVE Built(m.job.id)'
      BY <2>1 DEF Housing, BuiltUp
    <2>2. ASSUME NEW t \in Site, city.houses[t].st \in {"UNDER_CONSTRUCTION", "COMPLETE"} PROVE Built(city.houses[t].id)'
      <3>1. Built(city.houses[t].id)
        BY <2>2 DEF Housing, BuiltUp
      <3>2. PICK n : n = city.houses[t].id
        OBVIOUS
      <3>3. Built(n)'
        BY <1>2, <3>1, <3>2
      <3> QED
        BY <3>2, <3>3 DEF Built
    <2> QED
      BY <1>1, <2>1, <2>2 DEF BuiltUp
  <1>5. RuinsKnown'
    <2>1. ASSUME NEW z \in Traffic', z.job.k = "Destroy", NEW t \in Site, city.destroying[t] = z.job.id PROVE z.job.site = t
      <3>1. PICK y \in Traffic : y.job = z.job
        OBVIOUS
      <3> QED
        BY <2>1, <3>1 DEF Housing, RuinsKnown
    <2>2. \A t \in Site : city.destroying[t] # NoId => ~Standing(city.destroying[t])'
      BY DEF Housing, RuinsKnown, Standing
    <2> QED
      BY <2>1, <2>2 DEF Housing, RuinsKnown
  <1>6. Owed'
    <2>1. ASSUME ~lost', NEW t \in Site PROVE OwedAt(t)'
      <3>1. OwedAt(t)
        BY <2>1 DEF Housing, Owed
      <3>2. PICK n : n = city.houses[t].id
        OBVIOUS
      <3>3. FinishedRow(n) => FinishedRow(n)'
        BY <1>2, <3>2
      <3>4. ASSUME NEW y \in Traffic, y.job.k = "Complete", y.job.id = n
            PROVE  FinishedRow(n)' \/ \E z \in Traffic' : z.job.k = "Complete" /\ z.job.id = n
        BY <2>1, <3>2, <3>4
      <3>5. ASSUME NEW y \in Traffic, y.job.k # "Complete" PROVE \E z \in Traffic' : z.job = y.job
        BY <2>1, <3>5
      <3>6. (city.houses[t].st = "ORDERED" => \E z \in Traffic' : z.job.k = "Build" /\ z.job.id = n /\ z.job.site = t)
        BY <3>1, <3>2, <3>5 DEF OwedAt
      <3>7. city.destroying[t] # NoId =>
              \/ \E d \in city.destructions : d.id = city.destroying[t]
              \/ \E z \in Traffic' : z.job.k = "Destroy" /\ z.job.id = city.destroying[t]
        BY <3>1, <3>5 DEF OwedAt
      <3>8. city.houses[t].st = "COMPLETE" =>
              n \in city.completions \/ FinishedRow(n)' \/ \E z \in Traffic' : z.job.k = "Complete" /\ z.job.id = n
        BY <3>1, <3>2, <3>3, <3>4 DEF OwedAt
      <3>9. FinishedRow(n)' => FinishedRow(city.houses[t].id)'
        BY <3>2 DEF FinishedRow
      <3> QED
        BY <3>2, <3>6, <3>7, <3>8, <3>9 DEF OwedAt
    <2> QED
      BY <2>1 DEF Owed
  <1> QED
    BY <1>3, <1>4, <1>5, <1>6 DEF Housing

LEMMA CommitHousing ==
    ASSUME Inv, Housing, NEW x \in Item, NEW m \in Message, NEW afford \in BOOLEAN, x.job.k \in {"Build", "Complete", "Destroy"},
           m = Answer(x.job, Run(x.job, afford).ok, Run(x.job, afford).born),
           row' = Run(x.job, afford).row, Served(x, m, Answers(x.job)), city' = city
    PROVE  Housing'
  <1>1. m.job = x.job /\ m.ok = Run(x.job, afford).ok
    BY DEF Answer
  <1>2. /\ x \in Queued /\ Queued' \subseteq Queued /\ Queued \subseteq Queued' \cup {x} /\ (lost => lost')
        /\ (Heard' = Heard \cup {m}) \/ (Heard' = Heard /\ (Answers(x.job) => lost'))
    BY DEF Served
  <1>3. x.job.k = "Complete" \/ Answers(x.job)
    BY DEF Answers
  <1>4. Writes(x.job, m.ok)
    BY <1>1, <1>2, RunWrites
  <1>5. /\ Matched'
        /\ \A n : Standing(n) /\ Built(n) => Built(n)'
        /\ \A n : Standing(n) /\ FinishedRow(n) => FinishedRow(n)'
        /\ x.job.k = "Build" /\ m.ok => Built(x.job.id)'
        /\ x.job.k = "Complete" => \A t \in Site : city.houses[t].id = x.job.id => FinishedRow(x.job.id)'
    BY <1>4 DEF Writes
  <1>6. x \in Traffic
    BY <1>2 DEF Traffic
  <1>7. \A z \in Traffic' : \E y \in Traffic : y.job = z.job
    BY <1>1, <1>2 DEF Traffic
  <1>8. \A z \in Heard' : z \in Heard \/ (z.job = x.job /\ (z.ok /\ x.job.k = "Build" => Built(x.job.id)'))
    BY <1>1, <1>2, <1>5
  <1>9. lost' \/ \A y \in Traffic :
             \/ \E z \in Traffic' : z.job = y.job
             \/ y.job = x.job /\ x.job.k = "Complete" /\ \A t \in Site : city.houses[t].id = x.job.id => FinishedRow(x.job.id)'
    <2>1. ASSUME ~lost', NEW y \in Traffic
          PROVE \/ \E z \in Traffic' : z.job = y.job
                \/ y.job = x.job /\ x.job.k = "Complete" /\ \A t \in Site : city.houses[t].id = x.job.id => FinishedRow(x.job.id)'
      <3>1. y \in Traffic' \/ y = x
        BY <1>2 DEF Traffic
      <3>2. m \in Traffic' \/ x.job.k = "Complete"
        BY <1>2, <1>3, <2>1 DEF Traffic
      <3> QED
        BY <1>1, <1>5, <3>1, <3>2
    <2> QED
      BY <2>1
  <1> QED
    BY <1>2, <1>5, <1>6, <1>7, <1>8, <1>9, WorkerHousing

LEMMA GiveUpHousing ==
    ASSUME Inv, Housing, NEW x \in Item, NEW m \in Message, m = Answer(x.job, FALSE, NoId), Served(x, m, TRUE), UNCHANGED <<city, row>>
    PROVE  Housing'
  <1>1. m.job = x.job /\ ~m.ok
    BY DEF Answer
  <1>2. /\ x \in Queued /\ Queued' \subseteq Queued /\ Queued \subseteq Queued' \cup {x} /\ (lost => lost')
        /\ (Heard' = Heard \cup {m}) \/ (Heard' = Heard /\ lost')
    BY DEF Served
  <1>3. Matched'
    BY DEF Housing, Matched
  <1>4. \A n : (Built(n) => Built(n)') /\ (FinishedRow(n) => FinishedRow(n)')
    BY DEF Built, FinishedRow
  <1>5. x \in Traffic
    BY <1>2 DEF Traffic
  <1>6. \A z \in Traffic' : \E y \in Traffic : y.job = z.job
    BY <1>1, <1>2 DEF Traffic
  <1>7. \A z \in Heard' : z \in Heard \/ (z.job = x.job /\ ~z.ok)
    BY <1>1, <1>2
  <1>8. lost' \/ \A y \in Traffic : \E z \in Traffic' : z.job = y.job
    <2>1. ASSUME ~lost', NEW y \in Traffic PROVE \E z \in Traffic' : z.job = y.job
      <3>1. (y \in Traffic' \/ y = x) /\ m \in Traffic'
        BY <1>2, <2>1 DEF Traffic
      <3> QED
        BY <1>1, <3>1
    <2> QED
      BY <2>1
  <1> QED
    BY <1>2, <1>3, <1>4, <1>5, <1>6, <1>7, <1>8, WorkerHousing

LEMMA MarkHousing ==
    ASSUME Inv, Housing, NEW x \in Item, NEW y, NEW afford \in BOOLEAN, x.job.k \in {"Build", "Complete", "Destroy"},
           Marked(x, y), row' = Run(x.job, afford).row, city' = city
    PROVE  Housing'
  <1>1. /\ x \in Queued /\ y.job = x.job /\ y \in Queued' /\ Queued' \subseteq Queued \cup {y} /\ Queued \subseteq Queued' \cup {x}
        /\ Heard' = Heard /\ (lost => lost')
    BY DEF Marked
  <1>2. Writes(x.job, Run(x.job, afford).ok)
    BY <1>1, RunWrites
  <1>3. /\ Matched'
        /\ \A n : Standing(n) /\ Built(n) => Built(n)'
        /\ \A n : Standing(n) /\ FinishedRow(n) => FinishedRow(n)'
    BY <1>2 DEF Writes
  <1>4. x \in Traffic
    BY <1>1 DEF Traffic
  <1>5. \A z \in Traffic' : \E w \in Traffic : w.job = z.job
    BY <1>1 DEF Traffic
  <1>6. \A w \in Traffic : \E z \in Traffic' : z.job = w.job
    BY <1>1 DEF Traffic
  <1> QED
    BY <1>1, <1>3, <1>4, <1>5, <1>6, WorkerHousing

\* The houses after a restart are those of the rows.
LEMMA RecoveredHouses ==
    ASSUME Inv, NEW t \in Site
    PROVE  \/ \E h \in row.houses : h.site = t /\ Recovered.houses[t] = [id |-> h.id, st |-> h.st]
           \/ (\A h \in row.houses : h.site # t) /\ Recovered.houses[t] = NoHouse
  <1>1. Recovered.houses[t] = IF \E h \in row.houses : h.site = t
                              THEN LET h == CHOOSE x \in row.houses : x.site = t IN [id |-> h.id, st |-> h.st]
                              ELSE NoHouse
    BY DEF Recovered
  <1>2. CASE \E h \in row.houses : h.site = t
    <2>1. PICK h : h = CHOOSE x \in row.houses : x.site = t
      OBVIOUS
    <2>2. h \in row.houses /\ h.site = t
      BY <1>2, <2>1
    <2>3. Recovered.houses[t] = [id |-> h.id, st |-> h.st]
      BY <1>1, <1>2, <2>1
    <2> QED
      BY <2>2, <2>3
  <1>3. CASE \A h \in row.houses : h.site # t
    BY <1>1, <1>3
  <1> QED
    BY <1>2, <1>3

LEMMA RestartHousing == Inv /\ Housing /\ Restart => Housing'
  <1> SUFFICES ASSUME Inv, Housing, Restart PROVE Housing'
    OBVIOUS
  <1>1. /\ city'.houses = Recovered.houses /\ city'.destroying = [t \in Site |-> NoId]
        /\ city'.completions = {} /\ city'.destructions = {} /\ queue' = <<>> /\ inbox' = <<>>
    BY DEF Restart, Recovered
  <1>2. row'.houses = row.houses
    BY DEF Restart, Inv, Types, BaseType, Rows, RowShape
  <1>3. Heard' = {} /\ Traffic' = {}
    BY <1>1, EmptyLines, Members DEF Queued, Heard, Traffic
  <1>4. ASSUME NEW t \in Site
        PROVE  \/ \E h \in row.houses : h.site = t /\ city'.houses[t].id = h.id /\ city'.houses[t].st = h.st
               \/ city'.houses[t].id = NoId /\ city'.houses[t].st = "NONE"
    <2>1. CASE \E h \in row.houses : h.site = t /\ Recovered.houses[t] = [id |-> h.id, st |-> h.st]
      BY <1>1, <2>1
    <2>2. CASE Recovered.houses[t] = NoHouse
      BY <1>1, <2>2 DEF NoHouse
    <2> QED
      BY <2>1, <2>2, RecoveredHouses
  <1>5. \A g, h \in row.houses : g.id = h.id => g = h
    BY DEF Inv, Types, BaseType, Rows, HouseRows
  <1>6. \A h \in row.houses : h.id # NoId /\ h.st \in {"UNDER_CONSTRUCTION", "COMPLETE"}
    BY HouseFacts DEF Inv, Types, BaseType, Rows, HouseRows
  <1>7. Matched'
    <2>1. ASSUME NEW h \in row.houses, NEW t \in Site, city'.houses[t].id = h.id
          PROVE  h.site = t /\ (h.st = "COMPLETE" => city'.houses[t].st = "COMPLETE")
      BY <1>4, <1>5, <1>6, <2>1
    <2> QED
      BY <1>2, <2>1 DEF Matched
  <1>8. Ended'
    BY <1>1, <1>3 DEF Ended
  <1>9. BuiltUp'
    BY <1>2, <1>3, <1>4 DEF BuiltUp, Built
  <1>10. RuinsKnown'
    BY <1>1, <1>3 DEF RuinsKnown
  <1>11. Owed'
    <2>1. ASSUME NEW t \in Site PROVE OwedAt(t)'
      BY <1>1, <1>2, <1>4, <1>6 DEF OwedAt, FinishedRow
    <2> QED
      BY <2>1 DEF Owed
  <1> QED
    BY <1>7, <1>8, <1>9, <1>10, <1>11 DEF Housing

LEMMA InitHousing == Init => Housing
  <1> SUFFICES ASSUME Init PROVE Housing
    OBVIOUS
  <1>1. /\ city.houses = [t \in Site |-> NoHouse] /\ city.destroying = [t \in Site |-> NoId] /\ row.houses = {}
        /\ city.completions = {} /\ city.destructions = {} /\ queue = <<>> /\ inbox = <<>>
    BY DEF Init
  <1>2. Heard = {} /\ Traffic = {}
    BY <1>1, EmptyLines, Members DEF Queued, Heard, Traffic
  <1>3. \A t \in Site : city.houses[t].id = NoId /\ city.houses[t].st = "NONE" /\ city.destroying[t] = NoId
    BY <1>1 DEF NoHouse
  <1> QED
    BY <1>1, <1>2, <1>3 DEF Housing, Matched, Ended, BuiltUp, RuinsKnown, Owed, OwedAt

LEMMA HousingStep == Inv /\ FromVillage /\ Housing /\ [Next]_vars => Housing'
  <1> SUFFICES ASSUME Inv, FromVillage, Housing, [Next]_vars PROVE Housing'
    OBVIOUS
  <1>1. ASSUME NEW t \in Site, BuildBuilding(t) \/ DestroyHouse(t) PROVE Housing'
    BY <1>1, BuildHousing, DestroyHousing
  <1>2. CASE TrainUnit \/ AdvanceEra
    BY <1>2, TrainConcerns, AdvanceConcerns, HousingElsewhere
  <1>3. CASE Tick
    <2>1. CASE \E t \in Site : CompleteBuilding(t)
      BY <2>1, CompleteHousing
    <2>2. CASE CompleteProduction
      BY <2>2, BirthConcerns, HousingElsewhere
    <2>3. CASE CompleteAdvance
      <3>1. city.era = "VILLAGE"
        BY <2>3 DEF FromVillage, CompleteAdvance, NoWork
      <3> QED
        BY <2>3, <3>1, EraConcerns, HousingElsewhere
    <2> QED
      BY <1>3, <2>1, <2>2, <2>3 DEF Tick
  <1>4. ASSUME NEW v \in Villager, Kill(v) \/ DeathWorker(v) PROVE Housing'
    BY <1>4, KillConcerns, DeathConcerns, HousingElsewhere
  <1>5. CASE FlushDirty
    BY <1>5, FlushHousing
  <1>6. CASE Handle
    <2>1. PICK m \in Message : Heeded(m) /\ city' = Handled(m) /\ UNCHANGED <<row, ghost, dying>> /\ Concerns(m.job.k)
      BY <1>6, HandleConcerns
    <2>2. PICK k : k = m.job.k
      OBVIOUS
    <2>3. CASE k \in {"Build", "Complete", "Destroy"}
      BY <2>1, <2>2, <2>3, HandleBuildHousing, HandleCompleteHousing, HandleDestroyHousing
    <2>4. CASE k \notin {"Build", "Complete", "Destroy"}
      <3>1. k # "Flush"
        BY <2>2 DEF Message, Jobs, BuildJobs, DestroyJobs, OtherJobs, Deaths
      <3> QED
        BY <2>1, <2>2, <2>4, <3>1, HousingElsewhere
    <2> QED
      BY <2>3, <2>4
  <1>7. ASSUME NEW x \in Item PROVE x.job.k # "Flush"
    BY DEF Item, Jobs, BuildJobs, DestroyJobs, OtherJobs
  <1>8. ASSUME NEW afford \in BOOLEAN, Commit(afford) PROVE Housing'
    <2>1. PICK x \in Item, m \in Message :
             /\ Runnable(x.job) /\ m = Answer(x.job, Run(x.job, afford).ok, Run(x.job, afford).born)
             /\ row' = Run(x.job, afford).row /\ Served(x, m, Answers(x.job))
             /\ UNCHANGED <<city, dying, ghost>> /\ Concerns(x.job.k)
      BY <1>8, CommitConcerns
    <2>2. PICK k : k = x.job.k
      OBVIOUS
    <2>3. CASE k \in {"Build", "Complete", "Destroy"}
      BY <2>1, <2>2, <2>3, CommitHousing
    <2>4. CASE k \notin {"Build", "Complete", "Destroy"}
      BY <1>7, <2>1, <2>2, <2>4, HousingElsewhere
    <2> QED
      BY <2>3, <2>4
  <1>9. CASE CommitUnacked
    <2>1. PICK x, y :
             /\ x \in Item /\ Runnable(x.job) /\ Marked(x, y) /\ (\E afford \in BOOLEAN : row' = Run(x.job, afford).row)
             /\ UNCHANGED <<city, dying, ghost>> /\ Concerns(x.job.k)
      BY <1>9, MarkConcerns
    <2>2. PICK k : k = x.job.k
      OBVIOUS
    <2>3. CASE k \in {"Build", "Complete", "Destroy"}
      BY <2>1, <2>2, <2>3, MarkHousing
    <2>4. CASE k \notin {"Build", "Complete", "Destroy"}
      BY <1>7, <2>1, <2>2, <2>4, HousingElsewhere
    <2> QED
      BY <2>3, <2>4
  <1>10. CASE GiveUp
    BY <1>10, GiveUpConcerns, GiveUpHousing
  <1>11. CASE Restart
    BY <1>11, RestartHousing
  <1>12. CASE UNCHANGED vars
    BY <1>12, StillConcerns, HousingElsewhere
  <1> QED
    BY <1>1, <1>2, <1>3, <1>4, <1>5, <1>6, <1>8, <1>9, <1>10, <1>11, <1>12 DEF Next, Worker

-----------------------------------------------------------------------------
(* The two counts of the loop.                                              *)

Whole == {t \in Site : city.houses[t].st = "COMPLETE"}
Headcount == city.pop = Cardinality(city.units) + (IF city.training # NoWork THEN 1 ELSE 0)
Ceiling == city.limit = Cap(city.era) + Bonus * Cardinality(Whole)
Sums == Headcount /\ Ceiling /\ city.eraEnd \in BOOLEAN

LEMMA FiniteCity ==
    ASSUME Inv, Alive
    PROVE  IsFiniteSet(city.units) /\ Cardinality(city.units) \in Nat
  <1>1. city.units \subseteq row.units /\ IsFiniteSet(row.units)
    BY FiniteUnits DEF Alive, Inv, Types, BaseType, Rows
  <1> QED
    BY <1>1, FS_Subset, FS_CardinalityType

LEMMA FiniteWhole == IsFiniteSet(Whole) /\ Cardinality(Whole) \in Nat /\ Bonus * Cardinality(Whole) \in Nat
  <1>1. IsFiniteSet(Whole)
    BY FS_Subset, ConstantsAssumption DEF Whole
  <1> QED
    BY <1>1, FS_CardinalityType, Times

LEMMA SameHeadcount ==
    ASSUME Headcount, city'.pop = city.pop, city'.units = city.units, city'.training = NoWork <=> city.training = NoWork
    PROVE  Headcount'
  BY DEF Headcount

LEMMA SameCeiling ==
    ASSUME Ceiling, city'.limit = city.limit, city'.era = city.era, Whole' = Whole
    PROVE  Ceiling'
  BY DEF Ceiling, Cap

\* A site that is not finished, before or after the step, is not counted.
LEMMA SameWhole ==
    ASSUME NEW t \in Site, \A u \in Site : u # t => city'.houses[u] = city.houses[u],
           city.houses[t].st # "COMPLETE", city'.houses[t].st # "COMPLETE"
    PROVE  Whole' = Whole
  BY DEF Whole

LEMMA SameSums == ASSUME Sums, city' = city PROVE Sums'
  BY DEF Sums, Headcount, Ceiling, Whole, Cap

LEMMA BuildSums == ASSUME Inv, Sums, NEW t \in Site, BuildBuilding(t) PROVE Sums'
  <1>1. PICK n : n = Fresh
    OBVIOUS
  <1>2. city' = [city EXCEPT !.houses[t] = [id |-> n, st |-> "ORDERED"]] /\ city.houses[t] = NoHouse
    BY <1>1 DEF BuildBuilding, Becomes, Occupied
  <1>3. /\ city'.pop = city.pop /\ city'.units = city.units /\ city'.training = city.training /\ city'.limit = city.limit
        /\ city'.era = city.era /\ city'.eraEnd = city.eraEnd
        /\ city'.houses = [city.houses EXCEPT ![t] = [id |-> n, st |-> "ORDERED"]]
    BY <1>2 DEF Inv, Types, CityType, CityShape
  <1>4. Whole' = Whole
    <2>1. city'.houses[t].st = "ORDERED" /\ \A u \in Site : u # t => city'.houses[u] = city.houses[u]
      BY <1>3 DEF Inv, Types, CityType
    <2>2. city.houses[t].st # "COMPLETE"
      BY <1>2 DEF NoHouse
    <2> QED
      BY <2>1, <2>2, SameWhole
  <1> QED
    BY <1>3, <1>4, SameHeadcount, SameCeiling DEF Sums

LEMMA TrainUnitSums == Inv /\ Alive /\ Sums /\ TrainUnit => Sums'
  <1> SUFFICES ASSUME Inv, Alive, Sums, TrainUnit PROVE Sums'
    OBVIOUS
  <1>1. PICK n : n = Fresh
    OBVIOUS
  <1>2. city' = [city EXCEPT !.pop = @ + 1, !.training = [req |-> n, st |-> "ORDERED"]] /\ city.training = NoWork
    BY <1>1 DEF TrainUnit, Becomes, Working
  <1>3. /\ city'.pop = city.pop + 1 /\ city'.units = city.units /\ city'.training = [req |-> n, st |-> "ORDERED"]
        /\ city'.limit = city.limit /\ city'.era = city.era /\ city'.eraEnd = city.eraEnd /\ city'.houses = city.houses
    BY <1>2 DEF Inv, Types, CityType, CityShape
  <1>4. city'.training # NoWork
    <2>1. city'.training.st = "ORDERED"
      BY <1>3
    <2> QED
      BY <2>1 DEF NoWork
  <1>5. Headcount'
    BY <1>2, <1>3, <1>4, FiniteCity DEF Sums, Headcount
  <1>6. Whole' = Whole
    BY <1>3 DEF Whole
  <1> QED
    BY <1>3, <1>5, <1>6, SameCeiling DEF Sums

LEMMA CompleteBuildingSums == ASSUME Inv, Sums, NEW t \in Site, CompleteBuilding(t) PROVE Sums'
  <1>1. city' = [city EXCEPT !.houses[t].st = "COMPLETE", !.limit = @ + Bonus] /\ city.houses[t].st = "UNDER_CONSTRUCTION"
    BY DEF CompleteBuilding, Becomes
  <1>2. /\ city'.pop = city.pop /\ city'.units = city.units /\ city'.training = city.training /\ city'.limit = city.limit + Bonus
        /\ city'.era = city.era /\ city'.eraEnd = city.eraEnd
        /\ city'.houses = [city.houses EXCEPT ![t].st = "COMPLETE"]
    BY <1>1 DEF Inv, Types, CityType, CityShape
  <1>3. city'.houses[t].st = "COMPLETE" /\ \A u \in Site : u # t => city'.houses[u] = city.houses[u]
    <2>1. city'.houses[t] = [city.houses[t] EXCEPT !.st = "COMPLETE"] /\ \A u \in Site : u # t => city'.houses[u] = city.houses[u]
      BY <1>2 DEF Inv, Types, CityType
    <2>2. PICK h : h = city.houses[t]
      OBVIOUS
    <2>3. h = [id |-> h.id, st |-> h.st]
      <3>1. h \in House
        BY <2>2 DEF Inv, Types, CityType
      <3> QED
        BY <3>1 DEF House, NoHouse
    <2>4. [h EXCEPT !.st = "COMPLETE"].st = "COMPLETE"
      BY <2>3
    <2> QED
      BY <2>1, <2>2, <2>4
  <1>4. t \notin Whole /\ Whole' = Whole \cup {t}
    BY <1>1, <1>3 DEF Whole
  <1>5. Cardinality(Whole)' = Cardinality(Whole) + 1
    BY <1>4, FiniteWhole, FS_AddElement
  <1>6. Bonus * Cardinality(Whole)' = Bonus * Cardinality(Whole) + Bonus
    BY <1>5, FiniteWhole, Times
  <1>7. Ceiling'
    BY <1>2, <1>6, FiniteWhole, CapType, ConstantsAssumption DEF Sums, Ceiling, Cap
  <1> QED
    BY <1>2, <1>7, SameHeadcount DEF Sums

LEMMA CompleteProductionSums == Inv /\ Sums /\ CompleteProduction => Sums'
  <1> SUFFICES ASSUME Inv, Sums, CompleteProduction PROVE Sums'
    OBVIOUS
  <1>1. city' = [city EXCEPT !.training.st = "BIRTHING"] /\ city.training.st = "RUNNING"
    BY DEF CompleteProduction, Becomes
  <1>2. /\ city'.pop = city.pop /\ city'.units = city.units /\ city'.training = [city.training EXCEPT !.st = "BIRTHING"]
        /\ city'.limit = city.limit /\ city'.era = city.era /\ city'.eraEnd = city.eraEnd /\ city'.houses = city.houses
    BY <1>1 DEF Inv, Types, CityType, CityShape
  <1>3. city.training # NoWork /\ city'.training # NoWork
    <2>1. PICK w : w = city.training
      OBVIOUS
    <2>2. w # NoWork
      BY <1>1, <2>1 DEF NoWork
    <2>3. [w EXCEPT !.st = "BIRTHING"] # NoWork
      <3>1. CASE w = [w EXCEPT !.st = "BIRTHING"]
        BY <2>2, <3>1
      <3>2. CASE "st" \in DOMAIN w
        BY <3>2 DEF NoWork
      <3>3. CASE "st" \notin DOMAIN w
        BY <3>3 DEF NoWork
      <3> QED
        BY <3>2, <3>3
    <2> QED
      BY <1>2, <2>1, <2>2, <2>3
  <1>4. Whole' = Whole
    BY <1>2 DEF Whole
  <1> QED
    BY <1>2, <1>3, <1>4, SameHeadcount, SameCeiling DEF Sums

LEMMA CompleteAdvanceSums == Inv /\ FromVillage /\ Sums /\ CompleteAdvance => Sums'
  <1> SUFFICES ASSUME Inv, FromVillage, Sums, CompleteAdvance PROVE Sums'
    OBVIOUS
  <1>1. city.era = "VILLAGE"
    BY DEF FromVillage, CompleteAdvance, NoWork
  <1>2. city' = [city EXCEPT !.advance = NoWork, !.era = "TOWN", !.limit = @ + TownCap - VillageCap]
    BY <1>1 DEF CompleteAdvance, Becomes
  <1>3. /\ city'.pop = city.pop /\ city'.units = city.units /\ city'.training = city.training
        /\ city'.limit = city.limit + TownCap - VillageCap
        /\ city'.era = "TOWN" /\ city'.eraEnd = city.eraEnd /\ city'.houses = city.houses
    BY <1>2 DEF Inv, Types, CityType, CityShape
  <1>4. Whole' = Whole
    BY <1>3 DEF Whole
  <1>5. Ceiling'
    BY <1>1, <1>3, <1>4, FiniteWhole, ConstantsAssumption DEF Sums, Ceiling, Cap
  <1> QED
    BY <1>3, <1>5, SameHeadcount DEF Sums

LEMMA StillWorks == ASSUME NEW w, NEW s, w # NoWork, s # "NONE" PROVE [w EXCEPT !.st = s] # NoWork
  <1>1. CASE "st" \in DOMAIN w
    BY <1>1 DEF NoWork
  <1>2. CASE "st" \notin DOMAIN w
    BY <1>2 DEF NoWork
  <1> QED
    BY <1>1, <1>2

LEMMA DestroySums == ASSUME Inv, Sums, NEW t \in Site, DestroyHouse(t) PROVE Sums'
  <1>1. PICK n, b : n = city.houses[t].id /\ b = (city.houses[t].st = "COMPLETE") /\ b \in BOOLEAN
    OBVIOUS
  <1>2. city' = [city EXCEPT !.houses[t] = NoHouse, !.destroying[t] = n, !.completions = @ \ {n},
                             !.limit = IF b THEN @ - Bonus ELSE @]
    BY <1>1 DEF DestroyHouse, Becomes
  <1>3. /\ city'.pop = city.pop /\ city'.units = city.units /\ city'.training = city.training
        /\ city'.limit = (IF b THEN city.limit - Bonus ELSE city.limit)
        /\ city'.era = city.era /\ city'.eraEnd = city.eraEnd /\ city'.houses = [city.houses EXCEPT ![t] = NoHouse]
    BY <1>2 DEF Inv, Types, CityType, CityShape
  <1>4. city'.houses[t].st # "COMPLETE" /\ \A u \in Site : u # t => city'.houses[u] = city.houses[u]
    BY <1>3 DEF Inv, Types, CityType, NoHouse
  <1>5. CASE ~b
    <2>1. Whole' = Whole
      BY <1>1, <1>4, <1>5, SameWhole
    <2> QED
      BY <1>3, <1>5, <2>1, SameHeadcount, SameCeiling DEF Sums
  <1>6. CASE b
    <2>1. t \in Whole /\ Whole' = Whole \ {t}
      BY <1>1, <1>4, <1>6 DEF Whole
    <2>2. IsFiniteSet(Whole \ {t}) /\ Cardinality(Whole \ {t}) \in Nat
      BY FiniteWhole, FS_RemoveElement, FS_CardinalityType
    <2>3. Cardinality(Whole \ {t}) = Cardinality(Whole) - 1
      BY <2>1, FiniteWhole, FS_RemoveElement
    <2>4. Cardinality(Whole) = Cardinality(Whole)' + 1 /\ Cardinality(Whole)' \in Nat
      BY <2>1, <2>2, <2>3, FiniteWhole
    <2>5. Bonus * Cardinality(Whole) = Bonus * Cardinality(Whole)' + Bonus /\ Bonus * Cardinality(Whole)' \in Nat
      BY <2>4, Times
    <2>6. Ceiling'
      BY <1>3, <1>6, <2>5, CapType, ConstantsAssumption DEF Sums, Ceiling, Cap
    <2> QED
      BY <1>3, <2>6, SameHeadcount DEF Sums
  <1> QED
    BY <1>1, <1>5, <1>6

LEMMA KillSums == ASSUME Inv, Alive, Sums, NEW v \in Villager, Kill(v) PROVE Sums'
  <1>1. v \in city.units /\ city' = [city EXCEPT !.units = @ \ {v}, !.pop = IF @ > 0 THEN @ - 1 ELSE 0]
    BY DEF Kill
  <1>2. /\ city'.pop = (IF city.pop > 0 THEN city.pop - 1 ELSE 0) /\ city'.units = city.units \ {v}
        /\ city'.training = city.training /\ city'.limit = city.limit
        /\ city'.era = city.era /\ city'.eraEnd = city.eraEnd /\ city'.houses = city.houses
    BY <1>1 DEF Inv, Types, CityType, CityShape
  <1>3. Cardinality(city.units \ {v}) = Cardinality(city.units) - 1 /\ Cardinality(city.units) # 0
    BY <1>1, FiniteCity, FS_RemoveElement, FS_EmptySet
  <1>4. Headcount'
    BY <1>2, <1>3, FiniteCity DEF Sums, Headcount
  <1>5. Whole' = Whole
    BY <1>2 DEF Whole
  <1> QED
    BY <1>2, <1>4, <1>5, SameCeiling DEF Sums

\* Of the messages, a refused training gives its place back, and a birth fills it.
LEMMA HandleTrainSums ==
    ASSUME Inv, Training, Alive, Sums, NEW m \in Message, Heeded(m), city' = Handled(m), m.job.k = "Train"
    PROVE  Sums'
  <1>1. city.training = [req |-> m.job.id, st |-> "ORDERED"]
    BY DEF Heeded, Training, TrainAwaited
  <1>2. city.training.st = "ORDERED" /\ city.training.req = m.job.id
    BY <1>1
  <1>3. city.training # NoWork
    BY <1>2 DEF NoWork
  <1>4. CASE m.ok
    <2>1. city' = [city EXCEPT !.training.st = "RUNNING"]
      BY <1>2, <1>4 DEF Handled, HandleTrainResolved
    <2>2. /\ city'.pop = city.pop /\ city'.units = city.units /\ city'.training = [city.training EXCEPT !.st = "RUNNING"]
          /\ city'.limit = city.limit /\ city'.era = city.era /\ city'.eraEnd = city.eraEnd /\ city'.houses = city.houses
      BY <2>1 DEF Inv, Types, CityType, CityShape
    <2>3. city'.training # NoWork
      BY <1>3, <2>2, StillWorks
    <2>4. Whole' = Whole
      BY <2>2 DEF Whole
    <2> QED
      BY <1>3, <2>2, <2>3, <2>4, SameHeadcount, SameCeiling DEF Sums
  <1>5. CASE ~m.ok
    <2>1. city' = [city EXCEPT !.training = NoWork, !.pop = @ - 1]
      BY <1>2, <1>5 DEF Handled, HandleTrainResolved
    <2>2. /\ city'.pop = city.pop - 1 /\ city'.units = city.units /\ city'.training = NoWork
          /\ city'.limit = city.limit /\ city'.era = city.era /\ city'.eraEnd = city.eraEnd /\ city'.houses = city.houses
      BY <2>1 DEF Inv, Types, CityType, CityShape
    <2>3. Headcount'
      BY <1>3, <2>2, FiniteCity DEF Sums, Headcount
    <2>4. Whole' = Whole
      BY <2>2 DEF Whole
    <2> QED
      BY <2>2, <2>3, <2>4, SameCeiling DEF Sums
  <1> QED
    BY <1>4, <1>5

LEMMA HandleBirthSums ==
    ASSUME Inv, Training, Living, Sums, NEW m \in Message, Heeded(m), city' = Handled(m), m.job.k = "Birth"
    PROVE  Sums'
  <1>1. m \in Heard /\ city.training.st = "BIRTHING"
    BY DEF Heeded, Training, TrainAwaited
  <1>2. city.training # NoWork
    BY <1>1 DEF NoWork
  <1>3. CASE ~m.ok
    <2>1. city' = [city EXCEPT !.training.st = "RUNNING"]
      BY <1>1, <1>3 DEF Handled, HandleBirthResolved
    <2>2. /\ city'.pop = city.pop /\ city'.units = city.units /\ city'.training = [city.training EXCEPT !.st = "RUNNING"]
          /\ city'.limit = city.limit /\ city'.era = city.era /\ city'.eraEnd = city.eraEnd /\ city'.houses = city.houses
      BY <2>1 DEF Inv, Types, CityType, CityShape
    <2>3. city'.training # NoWork
      BY <1>2, <2>2, StillWorks
    <2>4. Whole' = Whole
      BY <2>2 DEF Whole
    <2> QED
      BY <1>2, <2>2, <2>3, <2>4, SameHeadcount, SameCeiling DEF Sums
  <1>4. CASE m.ok
    <2>1. city' = [city EXCEPT !.training = NoWork, !.units = @ \cup {m.born}]
      BY <1>1, <1>4 DEF Handled, HandleBirthResolved
    <2>2. /\ city'.pop = city.pop /\ city'.units = city.units \cup {m.born} /\ city'.training = NoWork
          /\ city'.limit = city.limit /\ city'.era = city.era /\ city'.eraEnd = city.eraEnd /\ city'.houses = city.houses
      BY <2>1 DEF Inv, Types, CityType, CityShape
    <2>3. m.born = row.prod.born /\ row.prod.born # NoId
      BY <1>1, <1>4 DEF Training, Born
    <2>4. m.born \notin city.units
      BY <1>1, <2>3 DEF Living, Coming, Unborn
    <2>5. Cardinality(city'.units) = Cardinality(city.units) + 1
      <3>1. IsFiniteSet(city.units)
        BY FiniteCity DEF Living
      <3>2. Cardinality(city.units \cup {m.born}) = Cardinality(city.units) + 1
        BY ONLY <2>4, <3>1, FS_AddElement
      <3> QED
        BY <2>2, <3>2
    <2>6. Headcount'
      <3>1. city.pop = Cardinality(city.units) + 1
        BY <1>2 DEF Sums, Headcount
      <3> QED
        BY <2>2, <2>5, <3>1, FiniteCity DEF Headcount, Living
    <2>7. Whole' = Whole
      BY <2>2 DEF Whole
    <2> QED
      BY <2>2, <2>6, <2>7, SameCeiling DEF Sums
  <1> QED
    BY <1>3, <1>4

LEMMA HandleSums ==
    ASSUME Inv, Training, Living, Sums, NEW m \in Message, Heeded(m), city' = Handled(m)
    PROVE  Sums'
  <1>1. CityShape /\ city.houses \in [Site -> House]
    BY DEF Inv, Types, CityType
  <1>2. CASE m.job.k = "Build"
    <2>1. PICK t, r : t = m.job.site /\ r = IF m.ok THEN [id |-> m.job.id, st |-> "UNDER_CONSTRUCTION"] ELSE NoHouse
      OBVIOUS
    <2>2. CASE city' = city
      BY <2>2, SameSums
    <2>3. CASE city' # city
      <3>1. city' = [city EXCEPT !.houses[t] = r] /\ city.houses[t].st = "ORDERED"
        BY <1>2, <2>1, <2>3 DEF Handled, HandleBuildResolved
      <3>2. t \in Site
        <4>1. m.job \in Jobs \cup Deaths
          BY DEF Message
        <4> QED
          BY <1>2, <2>1, <4>1, Kinds DEF BuildJobs
      <3>3. /\ city'.pop = city.pop /\ city'.units = city.units /\ city'.training = city.training /\ city'.limit = city.limit
            /\ city'.era = city.era /\ city'.eraEnd = city.eraEnd /\ city'.houses = [city.houses EXCEPT ![t] = r]
        BY <1>1, <3>1 DEF CityShape
      <3>4. r.st # "COMPLETE"
        BY <2>1 DEF NoHouse
      <3>5. city'.houses[t] = r /\ \A u \in Site : u # t => city'.houses[u] = city.houses[u]
        BY <1>1, <3>2, <3>3
      <3>6. Whole' = Whole
        BY <3>1, <3>2, <3>4, <3>5, SameWhole
      <3> QED
        BY <3>3, <3>6, SameHeadcount, SameCeiling DEF Sums
    <2> QED
      BY <2>2, <2>3
  <1>3. CASE m.job.k \in {"Train", "Birth"}
    BY <1>3, HandleTrainSums, HandleBirthSums DEF Living
  <1>4. CASE m.job.k \notin {"Build", "Train", "Birth"}
    <2>1. /\ city'.pop = city.pop /\ city'.units = city.units /\ city'.training = city.training /\ city'.limit = city.limit
          /\ city'.era = city.era /\ city'.eraEnd \in {city.eraEnd, TRUE} /\ city'.houses = city.houses
      BY <1>1, <1>4 DEF Handled, HandleAdvanceResolved, HandleBuildingCompletePersistFailed, HandleDeathPersistFailed,
                        HandleBuildingDestroyResolved, HandleBuildingDestroyPersistFailed, CityShape
    <2>2. Whole' = Whole
      BY <2>1 DEF Whole
    <2> QED
      BY <2>1, <2>2, SameHeadcount, SameCeiling DEF Sums
  <1> QED
    BY <1>2, <1>3, <1>4

\* A restart counts each finished house of the rows at its site.
LEMMA FinishedSites ==
    ASSUME Inv
    PROVE  Cardinality({t \in Site : Recovered.houses[t].st = "COMPLETE"}) = Finished
  <1> DEFINE S == Done(row.houses)
             T == {t \in Site : Recovered.houses[t].st = "COMPLETE"}
             f == [h \in S |-> h.site]
  <1>1. /\ IsFiniteSet(S) /\ \A h \in row.houses : h.site \in Site
        /\ \A g, h \in row.houses : g.site = h.site => g = h
    BY DoneFinite DEF Inv, Types, BaseType, Rows, HouseRows, Sites, OneHouse
  <1>2. ASSUME NEW h \in S PROVE h.site \in T
    <2>1. h \in row.houses /\ h.st = "COMPLETE" /\ h.site \in Site
      BY <1>1 DEF Done
    <2>2. PICK g \in row.houses : g.site = h.site /\ Recovered.houses[h.site] = [id |-> g.id, st |-> g.st]
      BY <2>1, RecoveredHouses
    <2>3. g = h
      BY <1>1, <2>1, <2>2
    <2> QED
      BY <2>1, <2>2, <2>3
  <1>3. ASSUME NEW t \in T PROVE \E h \in S : h.site = t
    <2>1. t \in Site /\ Recovered.houses[t].st = "COMPLETE"
      OBVIOUS
    <2>2. PICK h \in row.houses : h.site = t /\ Recovered.houses[t] = [id |-> h.id, st |-> h.st]
      BY <2>1, RecoveredHouses DEF NoHouse
    <2>3. h.st = "COMPLETE"
      BY <2>1, <2>2
    <2> QED
      BY <2>2, <2>3 DEF Done
  <1>4. \A g, h \in S : g.site = h.site => g = h
    BY <1>1 DEF Done
  <1>5. f \in Bijection(S, T)
    <2> HIDE DEF S, T
    <2>1. f \in [S -> T]
      BY <1>2
    <2>2. IsInjective(f)
      BY <1>4 DEF IsInjective
    <2>3. \A t \in T : \E h \in S : f[h] = t
      BY <1>3
    <2> QED
      BY <2>1, <2>2, <2>3 DEF Bijection, Injection, Surjection
  <1>6. Cardinality(T) = Cardinality(S)
    <2> HIDE DEF S, T, f
    <2> QED
      BY <1>1, <1>5, FS_Bijection DEF ExistsBijection
  <1> QED
    BY <1>6 DEF Finished, Done

LEMMA RestartSums == Inv /\ Restart => Sums'
  <1> SUFFICES ASSUME Inv, Restart PROVE Sums'
    OBVIOUS
  <1>1. /\ city'.pop = Cardinality(row.units) + (IF InProgress THEN 1 ELSE 0) /\ city'.units = row.units
        /\ city'.training = (IF InProgress THEN [req |-> row.prod.req, st |-> "RUNNING"] ELSE NoWork)
        /\ city'.limit = Cap(row.era) + Bonus * Finished
        /\ city'.era = row.era /\ city'.eraEnd = FALSE /\ city'.houses = Recovered.houses
    BY DEF Restart, Recovered
  <1>2. city'.training # NoWork <=> InProgress
    <2>1. [req |-> row.prod.req, st |-> "RUNNING"].st = "RUNNING" /\ NoWork.st = "NONE"
      BY DEF NoWork
    <2> QED
      BY <1>1, <2>1
  <1>3. Headcount'
    BY <1>1, <1>2 DEF Headcount
  <1>4. Cardinality(Whole)' = Finished
    <2>1. Whole' = {t \in Site : Recovered.houses[t].st = "COMPLETE"}
      BY <1>1 DEF Whole
    <2> QED
      BY <2>1, FinishedSites
  <1>5. Ceiling'
    BY <1>1, <1>4 DEF Ceiling, Cap
  <1> QED
    BY <1>1, <1>3, <1>5 DEF Sums

LEMMA InitSums == Init => Sums
  <1> SUFFICES ASSUME Init PROVE Sums
    OBVIOUS
  <1>1. /\ city.pop = Cardinality(Settlers) /\ city.units = Settlers /\ city.training = NoWork /\ city.limit = VillageCap
        /\ city.era = "VILLAGE" /\ city.eraEnd = FALSE /\ city.houses = [t \in Site |-> NoHouse]
    BY DEF Init
  <1>2. Whole = {}
    BY <1>1 DEF Whole, NoHouse
  <1>3. Cardinality(Whole) = 0
    BY <1>2, FS_EmptySet
  <1>4. IsFiniteSet(Settlers) /\ Cardinality(Settlers) \in Nat
    BY FS_Subset, FS_CardinalityType, ConstantsAssumption
  <1>5. Headcount
    BY <1>1, <1>4 DEF Headcount
  <1>6. Ceiling
    BY <1>1, <1>3, ConstantsAssumption DEF Ceiling, Cap
  <1> QED
    BY <1>1, <1>5, <1>6 DEF Sums

LEMMA SumsStep == Inv /\ FromVillage /\ Training /\ Living /\ Sums /\ [Next]_vars => Sums'
  <1> SUFFICES ASSUME Inv, FromVillage, Training, Living, Sums, [Next]_vars PROVE Sums'
    OBVIOUS
  <1>1. Alive
    BY DEF Living
  <1>2. ASSUME NEW t \in Site, BuildBuilding(t) \/ DestroyHouse(t) PROVE Sums'
    BY <1>2, BuildSums, DestroySums
  <1>3. CASE TrainUnit
    BY <1>1, <1>3, TrainUnitSums
  <1>4. CASE AdvanceEra
    <2>1. city' = [city EXCEPT !.advance = [req |-> Fresh, st |-> "ORDERED"]]
      BY <1>4 DEF AdvanceEra, Becomes
    <2>2. /\ city'.pop = city.pop /\ city'.units = city.units /\ city'.training = city.training /\ city'.limit = city.limit
          /\ city'.era = city.era /\ city'.eraEnd = city.eraEnd /\ city'.houses = city.houses
      BY <2>1 DEF Inv, Types, CityType, CityShape
    <2>3. Whole' = Whole
      BY <2>2 DEF Whole
    <2> QED
      BY <2>2, <2>3, SameHeadcount, SameCeiling DEF Sums
  <1>5. CASE Tick
    BY <1>5, CompleteBuildingSums, CompleteProductionSums, CompleteAdvanceSums DEF Tick
  <1>6. ASSUME NEW v \in Villager, Kill(v) PROVE Sums'
    BY <1>1, <1>6, KillSums
  <1>7. CASE FlushDirty
    <2>1. city' = [city EXCEPT !.completions = {}, !.eraEnd = FALSE, !.destructions = {}, !.deaths = {}]
      BY <1>7, Flushes
    <2>2. /\ city'.pop = city.pop /\ city'.units = city.units /\ city'.training = city.training /\ city'.limit = city.limit
          /\ city'.era = city.era /\ city'.eraEnd = FALSE /\ city'.houses = city.houses
      BY <2>1 DEF Inv, Types, CityType, CityShape
    <2>3. Whole' = Whole
      BY <2>2 DEF Whole
    <2> QED
      BY <2>2, <2>3, SameHeadcount, SameCeiling DEF Sums
  <1>8. CASE Handle
    BY <1>8, HandleConcerns, HandleSums
  <1>9. CASE (\E v \in Villager : DeathWorker(v)) \/ Worker \/ UNCHANGED vars
    <2>1. city' = city
      BY <1>9 DEF DeathWorker, CommitDeath, GiveUpDeath, Worker, Commit, CommitUnacked, GiveUp, vars
    <2> QED
      BY <2>1, SameSums
  <1>10. CASE Restart
    BY <1>10, RestartSums
  <1> QED
    BY <1>2, <1>3, <1>4, <1>5, <1>6, <1>7, <1>8, <1>9, <1>10 DEF Next

-----------------------------------------------------------------------------
(* The whole story of a city, of which each chapter may read the others'.   *)

Story == Inv /\ Training /\ Advancing /\ Living /\ Housing /\ Sums

LEMMA InitStory == Init => Story
  BY InitStep, InitTraining, InitAdvancing, InitLiving, InitHousing, InitSums DEF Story

LEMMA StoryStep == Story /\ [Next]_vars => Story'
  BY NextStep, TrainingStep, AdvancingStep, LivingStep, HousingStep, SumsStep DEF Story, Advancing

-----------------------------------------------------------------------------
(* When everything is written, the rows tell the city of the loop.          *)

LEMMA NothingLeft ==
    ASSUME Settled
    PROVE  /\ Queued = {} /\ Heard = {} /\ Traffic = {} /\ (\A k : Silent(k))
           /\ city.completions = {} /\ city.destructions = {} /\ city.deaths = {} /\ ~city.eraEnd
           /\ (\A v : ~Doomed(v)) /\ ~lost /\ ~ghost
           /\ (city.training.st = "RUNNING" => row.prod.born = NoId)
  <1>1. queue = <<>> /\ inbox = <<>> /\ dying = {}
    BY DEF Settled
  <1>2. Queued = {} /\ Heard = {} /\ Traffic = {}
    BY <1>1, EmptyLines, Members DEF Queued, Heard, Traffic
  <1>3. \A k : Silent(k)
    BY <1>2, Speaks
  <1>4. city.completions = {} /\ city.destructions = {} /\ city.deaths = {} /\ ~city.eraEnd
    BY DEF Settled, ToFlush
  <1>5. \A v : ~Doomed(v)
    BY <1>1, <1>2, <1>4 DEF Doomed
  <1>6. ~lost /\ ~ghost
    BY Zenon DEF Settled
  <1>7. city.training.st = "RUNNING" => row.prod.born = NoId
    BY DEF Settled
  <1> QED
    BY <1>2, <1>3, <1>4, <1>5, <1>6, <1>7

LEMMA SettledTraining == ASSUME Inv, Training, Settled PROVE city.training = Recovered.training
  <1>1. /\ \A k : Silent(k)
        /\ ~lost /\ ~ghost /\ (city.training.st = "RUNNING" => row.prod.born = NoId)
    BY NothingLeft
  <1>2. city.training.st \notin {"ORDERED", "BIRTHING"}
    BY <1>1 DEF Training, TrainOwed
  <1>3. Recovered.training = IF InProgress THEN [req |-> row.prod.req, st |-> "RUNNING"] ELSE NoWork
    BY DEF Recovered
  <1>4. CASE city.training = NoWork
    <2>1. city.training.req = NoId
      BY <1>4 DEF NoWork
    <2>2. ~InProgress
      BY <1>1, <2>1 DEF Training, TrainKnown, TrainingType, InProgress
    <2> QED
      BY <1>3, <1>4, <2>2
  <1>5. CASE city.training # NoWork
    <2>1. city.training \in [req : Nat \ {0}, st : {"ORDERED", "RUNNING", "BIRTHING"}]
      BY <1>5 DEF Training, TrainingType
    <2>2. city.training.st = "RUNNING" /\ city.training = [req |-> city.training.req, st |-> "RUNNING"]
      BY <1>2, <2>1
    <2>3. row.prod.there /\ row.prod.req = city.training.req /\ row.prod.born = NoId
      BY <1>1, <2>2 DEF Training, Trains
    <2> QED
      BY <1>3, <2>2, <2>3 DEF InProgress
  <1> QED
    BY <1>4, <1>5

LEMMA SettledAdvance == ASSUME Inv, Advancing, Settled PROVE city.era = row.era /\ city.advance = Recovered.advance
  <1>1. (\A k : Silent(k)) /\ ~city.eraEnd /\ ~lost /\ ~ghost
    BY NothingLeft
  <1>2. city.advance.st # "ORDERED" /\ ~(city.era = "TOWN" /\ row.era = "VILLAGE")
    BY <1>1 DEF Advancing, AdvanceOwed
  <1>3. row.era \in {"VILLAGE", "TOWN"} /\ city.era \in {"VILLAGE", "TOWN"} /\ (row.era = "TOWN" => city.era = "TOWN")
    BY DEF Inv, Types, BaseType, Rows, RowShape, Advancing, EraType, EraTold
  <1>4. city.era = row.era
    BY <1>2, <1>3
  <1>5. Recovered.advance = IF row.adv # NoId /\ row.era = "VILLAGE" THEN [req |-> row.adv, st |-> "RUNNING"] ELSE NoWork
    BY DEF Recovered
  <1>6. CASE city.advance = NoWork
    <2>1. city.advance.req = NoId
      BY <1>6 DEF NoWork
    <2>2. ~(row.adv # NoId /\ row.era = "VILLAGE")
      BY <1>1, <1>4, <2>1 DEF Advancing, AdvanceKnown
    <2> QED
      BY <1>4, <1>5, <1>6, <2>2
  <1>7. CASE city.advance # NoWork
    <2>1. city.advance \in [req : Nat \ {0}, st : {"ORDERED", "RUNNING"}]
      BY <1>7 DEF Advancing, EraType
    <2>2. city.advance.st = "RUNNING" /\ city.advance = [req |-> city.advance.req, st |-> "RUNNING"] /\ city.advance.req # NoId
      BY <1>2, <2>1 DEF NoId
    <2>3. row.adv = city.advance.req /\ city.era = "VILLAGE"
      BY <1>7, <2>2 DEF Advancing, Advances, FromVillage
    <2> QED
      BY <1>4, <1>5, <2>2, <2>3
  <1> QED
    BY <1>4, <1>6, <1>7

LEMMA SettledUnits == ASSUME Training, Living, Settled PROVE city.units = row.units
  <1>1. (\A k : Silent(k)) /\ (\A v : ~Doomed(v)) /\ ~lost /\ (city.training.st = "RUNNING" => row.prod.born = NoId)
    BY NothingLeft
  <1>2. \A v : ~Unborn(v)
    BY <1>1 DEF Training, TrainOwed, Unborn
  <1> QED
    BY <1>1, <1>2 DEF Living, Alive, Everyone

LEMMA SettledHouses ==
    ASSUME Inv, Housing, Settled
    PROVE  city.houses = Recovered.houses /\ city.destroying = [t \in Site |-> NoId]
  <1>1. Traffic = {} /\ city.completions = {} /\ city.destructions = {} /\ ~lost /\ ~ghost
    BY NothingLeft
  <1>2. \A t \in Site : OwedAt(t)
    BY <1>1 DEF Housing, Owed
  <1>3. ASSUME NEW t \in Site PROVE city.houses[t].st # "ORDERED" /\ city.destroying[t] = NoId
                                    /\ (city.houses[t].st = "COMPLETE" => FinishedRow(city.houses[t].id))
    <2>1. OwedAt(t)
      BY <1>2
    <2> QED
      BY <1>1, <2>1 DEF OwedAt
  <1>4. \A h \in row.houses : h.site \in Site /\ Knows(h)
    BY <1>1 DEF Inv, Types, BaseType, Sites, Known
  <1>5. ASSUME NEW h \in row.houses PROVE city.houses[h.site].id = h.id
    BY <1>3, <1>4, HouseFacts DEF Knows
  <1>6. ASSUME NEW t \in Site PROVE city.houses[t] = Recovered.houses[t]
    <2>1. PICK r : r = city.houses[t]
      OBVIOUS
    <2>2. r \in House /\ r.st # "ORDERED"
      BY <1>3, <2>1 DEF Inv, Types, CityType
    <2>3. CASE r = NoHouse
      <3>1. ASSUME NEW h \in row.houses PROVE h.site # t
        <4>1. r.id = NoId /\ h.id # NoId
          BY <2>3, HouseFacts
        <4> QED
          BY <1>5, <2>1, <4>1
      <3> QED
        BY <2>1, <2>3, <3>1, RecoveredHouses
    <2>4. CASE r # NoHouse
      <3>1. r = [id |-> r.id, st |-> r.st] /\ r.st \in {"UNDER_CONSTRUCTION", "COMPLETE"}
        BY <2>2, <2>4 DEF House
      <3>2. PICK h \in row.houses : h.id = r.id
        BY <2>1, <3>1 DEF Housing, BuiltUp, Built
      <3>3. h.site = t /\ (h.st = "COMPLETE" => r.st = "COMPLETE")
        BY <2>1, <3>2 DEF Housing, Matched
      <3>4. r.st = "COMPLETE" => h.st = "COMPLETE"
        BY <1>3, <2>1, <3>2 DEF FinishedRow, Inv, Types, BaseType, Rows, HouseRows
      <3>5. h.st \in {"UNDER_CONSTRUCTION", "COMPLETE"}
        BY DEF Inv, Types, BaseType, Rows, HouseRows
      <3>6. r = [id |-> h.id, st |-> h.st]
        BY <3>1, <3>2, <3>3, <3>4, <3>5
      <3>7. PICK g \in row.houses : g.site = t /\ Recovered.houses[t] = [id |-> g.id, st |-> g.st]
        BY <3>3, RecoveredHouses
      <3>8. g = h
        BY <3>3, <3>7 DEF Inv, Sites, OneHouse
      <3> QED
        BY <2>1, <3>6, <3>7, <3>8
    <2> QED
      BY <2>3, <2>4
  <1>7. city.houses \in [Site -> House] /\ city.destroying \in [Site -> Nat]
    BY DEF Inv, Types, CityType
  <1>8. PICK f : f = [t \in Site |-> Recovered.houses[t]]
    OBVIOUS
  <1>9. Recovered.houses = f
    BY <1>8 DEF Recovered
  <1>10. city.houses = f
    BY <1>6, <1>7, <1>8
  <1> QED
    BY <1>3, <1>7, <1>9, <1>10

LEMMA SettledCounts ==
    ASSUME Inv, Training, Living, Sums, Settled, city.era = row.era, city.training = Recovered.training,
           city.units = row.units, city.houses = Recovered.houses
    PROVE  city.pop = Recovered.pop /\ city.limit = Recovered.limit
  <1>1. Recovered.training = IF InProgress THEN [req |-> row.prod.req, st |-> "RUNNING"] ELSE NoWork
    BY DEF Recovered
  <1>2. Recovered.training # NoWork <=> InProgress
    <2>1. [req |-> row.prod.req, st |-> "RUNNING"].st = "RUNNING" /\ NoWork.st = "NONE"
      BY DEF NoWork
    <2> QED
      BY <1>1, <2>1
  <1>3. Recovered.pop = Cardinality(row.units) + (IF InProgress THEN 1 ELSE 0)
        /\ Recovered.limit = Cap(row.era) + Bonus * Finished
    BY DEF Recovered
  <1>4. Cardinality(Whole) = Finished
    BY FinishedSites DEF Whole
  <1> QED
    BY <1>2, <1>3, <1>4 DEF Sums, Headcount, Ceiling

LEMMA StorySettled == Story => RestartChangesNothing
  <1> SUFFICES ASSUME Story, Settled PROVE Recovered = city
    BY DEF RestartChangesNothing
  <1>1. city.era = row.era /\ city.advance = Recovered.advance /\ city.training = Recovered.training /\ city.units = row.units
    BY SettledAdvance, SettledTraining, SettledUnits DEF Story
  <1>2. city.houses = Recovered.houses /\ city.destroying = [t \in Site |-> NoId]
    BY SettledHouses DEF Story
  <1>3. city.pop = Recovered.pop /\ city.limit = Recovered.limit
    BY <1>1, <1>2, SettledCounts DEF Story
  <1>4. city.completions = {} /\ city.destructions = {} /\ city.deaths = {} /\ city.eraEnd = FALSE
    BY NothingLeft DEF Story, Sums
  <1>5. Recovered = [era |-> row.era, limit |-> Recovered.limit, pop |-> Recovered.pop, houses |-> Recovered.houses,
                     destroying |-> [t \in Site |-> NoId], training |-> Recovered.training, advance |-> Recovered.advance,
                     units |-> row.units, completions |-> {}, destructions |-> {}, eraEnd |-> FALSE, deaths |-> {}]
    BY DEF Recovered
  <1>6. CityShape
    BY DEF Story, Inv, Types, CityType
  <1> QED
    BY <1>1, <1>2, <1>3, <1>4, <1>5, <1>6 DEF CityShape

\* In the loop, as in the rows, the two counts of the city add up after every step
\* (INV-CITY-017): the place of a training is given back once, when it is refused, and
\* filled once, at the birth; the bonus of a house comes with it and goes with it.
THEOREM LoopCountsAddUp == Spec => []LoopAddsUp
  <1>1. Story => LoopAddsUp
    BY DEF Story, Sums, Headcount, Ceiling, Whole, LoopAddsUp
  <1> QED
    BY <1>1, InitStory, StoryStep, PTL DEF Spec

\* Once nothing is on its way, a restart of the process finds in the rows the very city
\* the loop held, whatever the jobs given up, their order, the deaths beside them and
\* the restarts before it: no house, no ruin, no training nor advance is forgotten, and
\* none comes back.
THEOREM CitySurvivesRestarts == Spec => []RestartChangesNothing
  BY InitStory, StoryStep, StorySettled, PTL DEF Spec

-----------------------------------------------------------------------------
(* The types, the last to be read: they need the counts and the living.     *)

Mortals == dying \subseteq Villager /\ city.deaths \subseteq Villager

LEMMA MortalsStep == Inv /\ Mortals /\ [Next]_vars => Mortals'
  <1> SUFFICES ASSUME Inv, Mortals, [Next]_vars PROVE Mortals'
    OBVIOUS
  <1>1. CityShape
    BY DEF Inv, Types, CityType
  <1>2. ASSUME dying' \subseteq dying, city'.deaths = city.deaths PROVE Mortals'
    BY <1>2 DEF Mortals
  <1>3. ASSUME NEW t \in Site, BuildBuilding(t) \/ DestroyHouse(t) PROVE Mortals'
    BY <1>1, <1>2, <1>3 DEF BuildBuilding, DestroyHouse, Becomes, CityShape
  <1>4. CASE TrainUnit \/ AdvanceEra
    BY <1>1, <1>2, <1>4 DEF TrainUnit, AdvanceEra, Becomes, CityShape
  <1>5. CASE Tick
    BY <1>1, <1>2, <1>5 DEF Tick, CompleteBuilding, CompleteProduction, CompleteAdvance, Becomes, CityShape
  <1>6. ASSUME NEW v \in Villager, Kill(v) PROVE Mortals'
    BY <1>1, <1>6 DEF Kill, Mortals, CityShape
  <1>7. ASSUME NEW v \in Villager, DeathWorker(v) PROVE Mortals'
    BY <1>2, <1>7 DEF DeathWorker, CommitDeath, GiveUpDeath
  <1>8. CASE FlushDirty
    <2>1. city'.deaths = {} /\ dying' = dying \cup city.deaths
      BY <1>1, <1>8 DEF FlushDirty, Becomes, CityShape
    <2> QED
      BY <2>1 DEF Mortals
  <1>9. CASE Handle
    <2>1. PICK m \in Message : city' = Handled(m) /\ UNCHANGED dying
      BY <1>9, HandleConcerns
    <2>2. CASE m.job.k = "Death"
      <3>1. m.job.id \in Villager
        BY <2>2 DEF Message, Jobs, BuildJobs, DestroyJobs, OtherJobs, Deaths
      <3>2. city'.deaths = city.deaths \cup {m.job.id}
        BY <1>1, <2>1, <2>2 DEF Handled, HandleDeathPersistFailed, CityShape
      <3> QED
        BY <2>1, <3>1, <3>2 DEF Mortals
    <2>3. CASE m.job.k # "Death"
      <3>1. city'.deaths = city.deaths
        BY <1>1, <2>1, <2>3 DEF Handled, HandleBuildResolved, HandleTrainResolved, HandleAdvanceResolved, HandleBirthResolved,
             HandleBuildingCompletePersistFailed, HandleBuildingDestroyResolved, HandleBuildingDestroyPersistFailed, CityShape
      <3> QED
        BY <1>2, <2>1, <3>1
    <2> QED
      BY <2>2, <2>3
  <1>10. CASE Worker \/ UNCHANGED vars
    BY <1>2, <1>10 DEF Worker, Commit, CommitUnacked, GiveUp, vars
  <1>11. CASE Restart
    BY <1>11 DEF Restart, Recovered, Mortals
  <1> QED
    BY <1>3, <1>4, <1>5, <1>6, <1>7, <1>8, <1>9, <1>10, <1>11 DEF Next

LEMMA StoryTypes == Story /\ Mortals => TypeOK
  <1> SUFFICES ASSUME Story, Mortals PROVE TypeOK
    OBVIOUS
  <1>1. city.era \in {"VILLAGE", "TOWN"} /\ city.advance \in WorkType /\ row.adv \in Nat
    BY DEF Story, Advancing, EraType, WorkType, NoWork, NoId
  <1>2. city.training \in WorkType /\ row.prod.req \in Nat
    BY DEF Story, Training, TrainingType, WorkType, NoWork, NoId
  <1>3. city.pop \in Nat
    BY FiniteCity DEF Story, Living, Sums, Headcount
  <1>4. city.limit \in Nat
    BY FiniteWhole, CapType DEF Story, Sums, Ceiling
  <1>5. city.houses \in [Site -> HouseType] /\ city.destroying \in [Site -> Nat]
    <2>1. House \subseteq HouseType
      BY DEF House, HouseType, NoHouse, NoId
    <2> QED
      BY <2>1 DEF Story, Inv, Types, CityType
  <1>6. RowShape /\ HouseRows /\ Population /\ Limit
    BY DEF Story, Inv, Types, BaseType, Rows
  <1>7. row.era \in {"VILLAGE", "TOWN"} /\ row.units \subseteq Villager
        /\ row.prod \in [there : BOOLEAN, req : Nat, born : Villager \cup {NoId}]
    BY <1>2, <1>6 DEF RowShape, Story, Inv, Types, BaseType
  <1>8. row.pop \in Nat
    BY <1>6, FiniteUnits DEF Population
  <1>9. row.limit \in Nat
    <2>1. Finished \in Nat
      BY <1>6, DoneFinite DEF HouseRows, Finished, Done
    <2> QED
      BY <1>6, <2>1, CapType, Times DEF Limit
  <1>10. row.houses \subseteq [id : Nat, site : Site, st : {"UNDER_CONSTRUCTION", "COMPLETE"}]
    BY <1>6 DEF HouseRows, Story, Inv, Types, BaseType
  <1>11. city.units \subseteq Villager
    BY <1>7 DEF Story, Living, Alive
  <1>12. Len(queue) <= QueueSize /\ Len(inbox) <= InboxSize
    BY DEF Story, Inv, Types, QueueType, InboxType
  <1> QED
    BY <1>1, <1>2, <1>3, <1>4, <1>5, <1>7, <1>8, <1>9, <1>10, <1>11, <1>12 DEF TypeOK, Mortals

\* What the loop and the rows hold of a city is of its type, in particular the counts are
\* naturals: neither the bonus of a ruined house nor the place of a refused training is
\* taken from a count that does not have it.
THEOREM WorksTypeCorrect == Spec => []TypeOK
  <1>1. Init => Mortals
    BY DEF Init, Mortals
  <1>2. Story /\ Mortals /\ [Next]_vars => Mortals'
    BY MortalsStep DEF Story
  <1> QED
    BY <1>1, <1>2, InitStory, StoryStep, StoryTypes, PTL DEF Spec
=============================================================================
