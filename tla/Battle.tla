------------------------------- MODULE Battle -------------------------------
(***************************************************************************)
(* Combat in the loop's memory (internal/game/simulation/{combat,          *)
(* combat_response,pillage,siege}.go): fights, the automatic answer of the *)
(* guards, the pillage of a city in two phases and the siege of a house.   *)
(*                                                                         *)
(* Two sides face each other on a line of tiles.  The city of a side is    *)
(* its centre; the ring of its wall is the tiles beside it.  A tick moves  *)
(* every walking unit one tile and then resolves the fights in the order   *)
(* of the unit numbers, as the code does with its sorted ids; what a blow  *)
(* does is applied after all of them have been decided.                    *)
(***************************************************************************)
EXTENDS Integers, Sequences, FiniteSets, SequencesExt

CONSTANTS
  Unit,        \* numbers of the units, their order in the tick
  Warrior,     \* those that can attack
  SideOf,      \* side of each unit
  Start,       \* tile each unit starts on
  Side,        \* the two sides
  Center,      \* per side, the tile of its city
  Depot,       \* per side, the tile where its loot is left
  House,       \* per side, the tile of its house
  Safe,        \* tiles of a safe zone
  LastTile,    \* last tile of the line
  HP,          \* hit points of a unit and of a house
  Interval,    \* ticks between two blows
  MaxPath, MaxChase, Leash, GuardRadius, Repath,
  Wood, Floor, PerHit, Carry,
  MaxOrders    \* bound: orders, changes of politics and refused pillages

Tile == 0..LastTile
Range1 == 1    \* AttackRange of a warrior

ASSUME ConstantsAssumption ==
  /\ Unit \subseteq Nat /\ IsFiniteSet(Unit) /\ Warrior \subseteq Unit
  /\ SideOf \in [Unit -> Side] /\ Start \in [Unit -> Tile]
  /\ Center \in [Side -> Tile] /\ Depot \in [Side -> Tile] /\ House \in [Side -> Tile]
  /\ Safe \subseteq Tile /\ LastTile \in Nat
  /\ HP \in Nat \ {0} /\ Interval \in Nat \ {0} /\ Repath \in Nat
  /\ MaxChase <= MaxPath /\ Leash <= MaxChase
  /\ Wood \in Nat /\ Floor \in Nat /\ PerHit \in Nat \ {0} /\ Carry \in Nat \ {0}

VARIABLES
  unit,      \* [hp, at, status, walk, loot, pending]
  fight,     \* engagements: per unit, whom it attacks
  wood,      \* per side, the stock of its city
  house,     \* per side, hit points of its house; 0 once destroyed
  raids,     \* per side, pillages of its city that wait for their transaction
  politics,  \* [peace, shielded, away]: treaty, protected and absent sides
  ordered,   \* history: units their player gave an order to
  lost,      \* history: wood nobody inherited
  orders     \* bounded count of orders

vars == <<unit, fight, wood, house, raids, politics, ordered, lost, orders>>

-----------------------------------------------------------------------------
(* Values.  home is the post a returning guard walks to (returnLeg): it is  *)
(* of this walk and of no other.                                           *)

NoTile == -1
NoWalk == [to |-> NoTile, home |-> NoTile]
NoFight == [k |-> "none", target |-> 0, wait |-> 0, since |-> 0, auto |-> FALSE, post |-> NoTile]
Against(k, target) == [NoFight EXCEPT !.k = k, !.target = target]
\* The sides are numbered: the target of a city or of a house is its side.
Foe(side) == CHOOSE other \in Side : other # side

Dist(a, b) == IF a < b THEN b - a ELSE a - b
Alive(s, u) == s.unit[u].status # "DEAD" /\ s.unit[u].hp > 0
Moving(s, u) == s.unit[u].walk # NoWalk
Engaged(s, u) == s.fight[u] # NoFight
Reachable(from, to) == Dist(from, to) <= MaxPath
Carrying(s, u) == s.unit[u].loot + s.unit[u].pending
Ring(side) == {t \in Tile : Dist(t, Center[side]) = 1}
Ids == SetToSortSeq(Unit, <)

(* A step works on s, what the loop holds. *)
World == [unit |-> unit, fight |-> fight, wood |-> wood, house |-> house,
          raids |-> raids, lost |-> lost]

-----------------------------------------------------------------------------
(* Walks *)

Stop(s, u) ==
  IF ~Moving(s, u) THEN s
  ELSE [s EXCEPT !.unit[u].walk = NoWalk, !.unit[u].status = "IDLE"]
Walk(s, u, to, home) ==
  [s EXCEPT !.unit[u].walk = [to |-> to, home |-> home], !.unit[u].status = "MOVING"]

DepositLoot(s, u) ==
  IF s.unit[u].loot > 0 /\ s.unit[u].at = Depot[SideOf[u]]
  THEN [s EXCEPT !.wood[SideOf[u]] = @ + s.unit[u].loot, !.unit[u].loot = 0]
  ELSE s

\* Phase 3 of the tick: one tile, and what happens on arrival.
Advance(s, u) ==
  IF ~Moving(s, u) THEN s
  ELSE LET at   == s.unit[u].at
           to   == s.unit[u].walk.to
           next == CASE to > at -> at + 1 [] to < at -> at - 1 [] OTHER -> at
           m    == [s EXCEPT !.unit[u].at = next]
       IN IF next = to THEN DepositLoot(Stop(m, u), u) ELSE m
AdvanceMovements(s) == FoldLeft(Advance, s, Ids)

-----------------------------------------------------------------------------
(* Engagements *)

ReturnToPost(s, u, post) ==
  IF s.unit[u].at = post \/ ~Reachable(s.unit[u].at, post) THEN s
  ELSE Walk(s, u, post, post)

EndFight(s, u, stop) ==
  LET e    == s.fight[u]
      gone == [s EXCEPT !.fight[u] = NoFight]
      halt == Stop(gone, u)
      idle == IF halt.unit[u].status = "ATTACKING"
              THEN [halt EXCEPT !.unit[u].status = "IDLE"] ELSE halt
  IN CASE e = NoFight -> s
       [] e # NoFight /\ ~stop -> gone
       [] e # NoFight /\ stop /\ e.auto /\ Alive(s, u) -> ReturnToPost(idle, u, e.post)
       [] OTHER -> idle

StopByPlayer(s, u) ==
  EndFight(IF Engaged(s, u) THEN [s EXCEPT !.fight[u].auto = FALSE] ELSE s, u, TRUE)

StartAttacking(s, u, e) ==
  LET halt == Stop(s, u)
  IN [halt EXCEPT !.fight[u] = e, !.unit[u].status = "ATTACKING"]

Protected(side) == side \in politics.shielded
HostileBlocked(u, at, side) ==
  \/ side = SideOf[u] \/ Protected(side) \/ Protected(SideOf[u])
  \/ politics.peace \/ at \in Safe
AttackBlocked(s, u, t) ==
  HostileBlocked(u, s.unit[u].at, SideOf[t]) \/ s.unit[t].at \in Safe

\* The candidates of a wall or of a house, from the nearest one.
Nearest(at, tiles) ==
  CHOOSE t \in tiles : \A x \in tiles : \/ Dist(at, t) < Dist(at, x)
                                        \/ Dist(at, t) = Dist(at, x) /\ t <= x
Spots(e) == IF e.k = "city" THEN Ring(e.target)
            ELSE {t \in Tile : Dist(t, House[e.target]) = Range1}
InPlace(s, u, e) == IF e.k = "city" THEN s.unit[u].at \in Ring(e.target)
                    ELSE Dist(s.unit[u].at, House[e.target]) <= Range1

(* approachWall, approachHouse *)
CanApproach(s, u, e) == \E t \in Spots(e) : Reachable(s.unit[u].at, t)
Approach(s, u, e) ==
  Walk([Stop(s, u) EXCEPT !.fight[u] = e], u,
       Nearest(s.unit[u].at, {t \in Spots(e) : Reachable(s.unit[u].at, t)}), NoTile)

Chase(s, u) ==
  LET e    == s.fight[u]
      at   == s.unit[u].at
      goal == s.unit[e.target].at
      calm == IF s.unit[u].status = "ATTACKING"
              THEN [s EXCEPT !.unit[u].status = "IDLE"] ELSE s
      near == Moving(s, u) /\ Dist(s.unit[u].walk.to, goal) <= Range1
      soon == Moving(s, u) /\ e.since < Repath
  IN CASE near \/ soon -> calm
       [] ~(near \/ soon) /\ ~Reachable(at, goal) ->
            EndFight([calm EXCEPT !.fight[u].since = 0], u, TRUE)
       [] OTHER -> Walk([Stop(calm, u) EXCEPT !.fight[u].since = 0], u, goal, NoTile)

\* Phase 4, first pass: each attacker goes on, and its blow is noted if due.
\* acc is the state and the attackers whose blow falls, in order.
Strike(acc, u, e) ==
  LET s == StartAttacking(acc.s, u, e)
  IN IF e.wait > 0 THEN [acc EXCEPT !.s = s]
     ELSE [s |-> [s EXCEPT !.fight[u].wait = Interval], blows |-> Append(acc.blows, u)]

StepCity(acc, u, e) ==
  LET s == acc.s
  IN CASE \/ HostileBlocked(u, s.unit[u].at, e.target)
          \/ SideOf[u] \in politics.away
          \/ e.k = "house" /\ s.house[e.target] = 0 ->
            [acc EXCEPT !.s = EndFight(s, u, TRUE)]
       [] OTHER ->
            CASE InPlace(s, u, e) -> Strike(acc, u, e)
              [] ~InPlace(s, u, e) /\ Moving(s, u) -> acc
              [] OTHER -> [acc EXCEPT !.s = IF CanApproach(s, u, e) THEN Approach(s, u, e)
                                            ELSE EndFight(s, u, TRUE)]

StepUnit(acc, u, e) ==
  LET s == acc.s
      t == e.target
      d == Dist(s.unit[u].at, s.unit[t].at)
  IN CASE \/ ~Alive(s, t) \/ AttackBlocked(s, u, t) \/ d > MaxChase
          \/ e.auto /\ Dist(e.post, s.unit[t].at) > Leash ->
            [acc EXCEPT !.s = EndFight(s, u, TRUE)]
       [] OTHER -> IF d > Range1 THEN [acc EXCEPT !.s = Chase(s, u)] ELSE Strike(acc, u, e)

StepFight(acc, u) ==
  LET e == acc.s.fight[u]
  IN CASE e = NoFight -> acc
       [] e # NoFight /\ ~Alive(acc.s, u) -> [acc EXCEPT !.s.fight[u] = NoFight]
       [] OTHER -> IF e.k = "unit" THEN StepUnit(acc, u, e) ELSE StepCity(acc, u, e)

(* Second pass: the blows on units, then the deaths. *)
Aims(blows, s, k) == SelectSeq(blows, LAMBDA u : s.fight[u].k = k)

\* acc: the state, who killed whom, and the alarms (attacker, victim, tile).
\* Mutant of Hit: the blow of a unit that dies in the same tick is void.
HitIfAlive(aim, acc, u) ==
  LET t == aim[u].target
  IN IF acc.s.unit[t].hp = 0 \/ acc.s.unit[u].hp = 0 THEN acc
     ELSE [s |-> [acc.s EXCEPT !.unit[t].hp = @ - 1],
           killer |-> IF acc.s.unit[t].hp = 1 THEN [acc.killer EXCEPT ![t] = u] ELSE acc.killer,
           alarms |-> Append(acc.alarms, [by |-> u, on |-> t, at |-> acc.s.unit[t].at])]

Hit(aim, acc, u) ==
  LET t == aim[u].target
  IN IF acc.s.unit[t].hp = 0 THEN acc
     ELSE [s |-> [acc.s EXCEPT !.unit[t].hp = @ - 1],
           killer |-> IF acc.s.unit[t].hp = 1 THEN [acc.killer EXCEPT ![t] = u] ELSE acc.killer,
           alarms |-> Append(acc.alarms, [by |-> u, on |-> t, at |-> acc.s.unit[t].at])]

\* Mutant of Inherited: the room of the killer is not looked at.
InheritedAll(s, v, killer) == IF Alive(s, killer) THEN s.unit[v].loot ELSE 0

Inherited(s, v, killer) ==
  IF ~Alive(s, killer) THEN 0
  ELSE LET room == Carry - Carrying(s, killer)
       IN IF room < s.unit[v].loot THEN room ELSE s.unit[v].loot

AttackersOf(s, v) ==
  SelectSeq(Ids, LAMBDA a : s.fight[a].k = "unit" /\ s.fight[a].target = v)

\* Mutant of Kill: the load that waits for its transaction counts as loot.
KillWithPending(s, v, killer) ==
  LET gained == Inherited([s EXCEPT !.unit[v].loot = Carrying(s, v)], v, killer)
      dead == [s EXCEPT !.unit[v] = [@ EXCEPT !.hp = 0, !.status = "DEAD", !.walk = NoWalk,
                                             !.loot = 0, !.pending = 0],
                        !.fight[v] = NoFight,
                        !.lost = @ + Carrying(s, v) - gained]
      free == FoldLeft(LAMBDA r, a : EndFight(r, a, TRUE), dead, AttackersOf(dead, v))
  IN [free EXCEPT !.unit[killer].loot = @ + gained]

\* Mutant of Kill: those who attacked the dead unit keep their engagement.
KillAlone(s, v, killer) ==
  LET gained == Inherited(s, v, killer)
      dead == [s EXCEPT !.unit[v] = [@ EXCEPT !.hp = 0, !.status = "DEAD", !.walk = NoWalk,
                                             !.loot = 0, !.pending = 0],
                        !.fight[v] = NoFight,
                        !.lost = @ + s.unit[v].loot - gained]
  IN [dead EXCEPT !.unit[killer].loot = @ + gained]

Kill(s, v, killer) ==
  LET gained == Inherited(s, v, killer)
      dead == [s EXCEPT !.unit[v] = [@ EXCEPT !.hp = 0, !.status = "DEAD", !.walk = NoWalk,
                                             !.loot = 0, !.pending = 0],
                        !.fight[v] = NoFight,
                        !.lost = @ + s.unit[v].loot - gained]
      free == FoldLeft(LAMBDA r, a : EndFight(r, a, TRUE), dead, AttackersOf(dead, v))
  IN [free EXCEPT !.unit[killer].loot = @ + gained]

\* Mutant of ApplyPillage: a raider with nothing to take waits for more.
ApplyPillageWaits(s, u) ==
  LET side == s.fight[u].target
      room == Carry - Carrying(s, u)
      can  == {PerHit, room, s.wood[side] - Floor}
      amount == CHOOSE n \in can : \A m \in can : n <= m
  IN IF amount <= 0 THEN s
     ELSE [s EXCEPT !.wood[side] = @ - amount, !.unit[u].pending = @ + amount,
                    !.raids[side] = Append(@, [by |-> u, amount |-> amount])]

ApplyPillage(s, u) ==
  LET side == s.fight[u].target
      room == Carry - Carrying(s, u)
      can  == {PerHit, room, s.wood[side] - Floor}
      amount == CHOOSE n \in can : \A m \in can : n <= m
      took == [s EXCEPT !.wood[side] = @ - amount, !.unit[u].pending = @ + amount,
                        !.raids[side] = Append(@, [by |-> u, amount |-> amount])]
  IN IF amount <= 0 THEN EndFight(s, u, TRUE)
     ELSE IF Carrying(took, u) >= Carry THEN EndFight(took, u, TRUE) ELSE took

ApplySiege(s, u) ==
  LET side == s.fight[u].target
  IN IF s.house[side] = 0 THEN EndFight(s, u, TRUE)
     ELSE LET hurt == [s EXCEPT !.house[side] = @ - 1]
          IN IF hurt.house[side] = 0 THEN EndFight(hurt, u, TRUE) ELSE hurt

\* Third pass: the guards answer.  A guard is free when it does nothing, or
\* walks back to its post.
\* Mutant of Post: a guard on its way back takes the tile it is on as its post.
PostHere(s, g) ==
  IF Engaged(s, g) \/ s.unit[g].status \notin {"IDLE", "MOVING"} THEN NoTile ELSE s.unit[g].at

Post(s, g) ==
  CASE Engaged(s, g) -> NoTile
    [] ~Engaged(s, g) /\ s.unit[g].status = "IDLE" -> s.unit[g].at
    [] ~Engaged(s, g) /\ s.unit[g].status = "MOVING" -> s.unit[g].walk.home
    [] OTHER -> NoTile

Respond(s, g, attacker) ==
  LET post == Post(s, g)
      foe  == s.unit[attacker].at
      e    == [Against("unit", attacker) EXCEPT !.auto = TRUE, !.post = post]
  IN IF \/ g \notin Warrior \/ post = NoTile \/ AttackBlocked(s, g, attacker)
        \/ Dist(post, foe) > Leash
     THEN s
     ELSE IF Dist(s.unit[g].at, foe) <= Range1 THEN StartAttacking(s, g, e)
     ELSE IF Reachable(s.unit[g].at, foe)
          THEN Walk([Stop(s, g) EXCEPT !.fight[g] = e], g, foe, NoTile) ELSE s

GuardsNear(s, side, at) ==
  SelectSeq(Ids, LAMBDA g : /\ g \in Warrior /\ SideOf[g] = side /\ Alive(s, g)
                            /\ Dist(s.unit[g].at, at) <= GuardRadius)

RaiseAlarm(s, al) ==
  IF ~Alive(s, al.by) THEN s
  ELSE LET victim == IF al.on \in Unit /\ Alive(s, al.on) THEN Respond(s, al.on, al.by) ELSE s
       IN FoldLeft(LAMBDA r, g : IF g = al.on THEN r ELSE Respond(r, g, al.by), victim,
                   GuardsNear(victim, Foe(SideOf[al.by]), al.at))

\* A blow on a city rings at its centre, if it took or broke something.
CityBlow(acc, u) ==
  LET s == acc.s
      side == s.fight[u].target
      after == IF s.fight[u].k = "city" THEN ApplyPillage(s, u) ELSE ApplySiege(s, u)
      rang  == after.wood # s.wood \/ after.house # s.house
  IN IF ~Alive(s, u) \/ ~Engaged(s, u) THEN acc
     ELSE [s |-> after,
           alarms |-> IF rang THEN Append(acc.alarms, [by |-> u, on |-> 0, at |-> Center[side]])
                      ELSE acc.alarms]

ResolveCombat(s0) ==
  LET step   == FoldLeft(StepFight, [s |-> s0, blows |-> <<>>], Ids)
      s1     == step.s
      struck == FoldLeft(LAMBDA acc, u : Hit(s1.fight, acc, u),
                         [s |-> s1, killer |-> [u \in Unit |-> 0], alarms |-> <<>>],
                         Aims(step.blows, s1, "unit"))
      killed == FoldLeft(LAMBDA s, v : IF struck.killer[v] = 0 THEN s
                                       ELSE Kill(s, v, struck.killer[v]), struck.s, Ids)
      robbed == FoldLeft(CityBlow, [s |-> killed, alarms |-> struck.alarms],
                         Aims(step.blows, s1, "city") \o Aims(step.blows, s1, "house"))
  IN FoldLeft(RaiseAlarm, robbed.s, robbed.alarms)

-----------------------------------------------------------------------------
Init ==
  /\ unit = [u \in Unit |-> [hp |-> HP, at |-> Start[u], status |-> "IDLE",
                             walk |-> NoWalk, loot |-> 0, pending |-> 0]]
  /\ fight = [u \in Unit |-> NoFight]
  /\ wood = [side \in Side |-> Wood]
  /\ house = [side \in Side |-> HP]
  /\ raids = [side \in Side |-> <<>>]
  /\ politics = [peace |-> FALSE, shielded |-> {}, away |-> {}]
  /\ ordered = {} /\ lost = 0 /\ orders = 0

Becomes(s) ==
  /\ unit' = s.unit /\ fight' = s.fight /\ wood' = s.wood /\ house' = s.house
  /\ raids' = s.raids /\ lost' = s.lost

\* An order a player gives to a unit of theirs.
Orders(u) == /\ orders < MaxOrders /\ orders' = orders + 1
             /\ Alive(World, u)
             /\ ordered' = ordered \cup {u}
             /\ UNCHANGED politics

(* unit.attack, unit.pillage, unit.demolish: the previous fight ends before *)
(* the route is known.                                                     *)
AttackUnit(u, t) ==
  /\ Orders(u)
  /\ u \in Warrior /\ Alive(World, t) /\ ~AttackBlocked(World, u, t)
  /\ LET s == EndFight(World, u, FALSE)
         e == Against("unit", t)
     IN Becomes(IF Dist(unit[u].at, unit[t].at) <= Range1 THEN StartAttacking(s, u, e)
                ELSE IF Reachable(unit[u].at, unit[t].at)
                THEN Walk([Stop(s, u) EXCEPT !.fight[u] = e], u, unit[t].at, NoTile) ELSE s)

Raid(u, e) ==
  /\ Orders(u)
  /\ u \in Warrior /\ ~HostileBlocked(u, unit[u].at, e.target)
  /\ LET s == EndFight(World, u, FALSE)
     IN Becomes(IF InPlace(s, u, e) THEN StartAttacking(s, u, e)
                ELSE IF CanApproach(s, u, e) THEN Approach(s, u, e) ELSE s)
PillageCity(u, side) == Raid(u, Against("city", side))
DemolishBuilding(u, side) == house[side] > 0 /\ Raid(u, Against("house", side))

(* unit.move, unit.cancel_move *)
Move(u, to) ==
  /\ Orders(u)
  /\ Becomes(IF to = unit[u].at THEN Stop(StopByPlayer(World, u), u)
             ELSE IF Reachable(unit[u].at, to)
             THEN Walk(Stop(EndFight(World, u, FALSE), u), u, to, NoTile) ELSE World)
CancelMove(u) ==
  /\ Orders(u)
  /\ Moving(World, u) \/ Engaged(World, u) \/ unit[u].status = "ATTACKING"
  /\ Becomes(Stop(StopByPlayer(World, u), u))

(* The politics of the two sides changes between ticks. *)
Politics ==
  /\ orders < MaxOrders /\ orders' = orders + 1
  /\ \/ politics' = [politics EXCEPT !.peace = ~@]
     \/ \E side \in Side :
          \/ politics' = [politics EXCEPT !.shielded = @ \cup {side}, !.away = @ \cup {side}]
          \/ politics' = [politics EXCEPT !.away = @ \cup {side}]
          \/ politics' = [politics EXCEPT !.shielded = @ \ {side}, !.away = @ \ {side}]
  /\ UNCHANGED <<unit, fight, wood, house, raids, ordered, lost>>

(* A tick: time passes for the blows and for the routes, the units move,    *)
(* the fights are resolved.                                                *)
Elapsed(s) ==
  [s EXCEPT !.fight = [u \in Unit |->
     IF @[u] = NoFight THEN NoFight
     ELSE [@[u] EXCEPT !.wait = IF @ = 0 THEN 0 ELSE @ - 1,
                       !.since = IF @ < Repath THEN @ + 1 ELSE @]]]
Busy == \E u \in Unit : Moving(World, u) \/ Engaged(World, u)
Tick ==
  /\ Busy
  /\ Becomes(ResolveCombat(AdvanceMovements(Elapsed(World))))
  /\ UNCHANGED <<politics, ordered, orders>>

(* A house without a blow for a while is whole again.  A besieger in place  *)
(* strikes it every Interval, which is shorter (RN-COMBAT-032); one that    *)
(* still walks to it prevents nothing.                                     *)
ForgetSiegeDamage(side) ==
  /\ house[side] \in 1..(HP - 1)
  /\ \A u \in Unit :
       fight[u].k = "house" /\ fight[u].target = side => ~InPlace(World, u, fight[u])
  /\ house' = [house EXCEPT ![side] = HP]
  /\ UNCHANGED <<unit, fight, wood, raids, politics, ordered, lost, orders>>

(* The transaction of a pillage answers, in the order of the city's queue.  *)
PillageResolved(side, ok) ==
  /\ raids[side] # <<>>
  /\ ok \/ orders < MaxOrders
  /\ orders' = IF ok THEN orders ELSE orders + 1
  /\ LET r == Head(raids[side])
         s == [World EXCEPT !.raids[side] = Tail(@),
                            !.unit[r.by].pending = IF @ > r.amount THEN @ - r.amount ELSE 0]
         u == r.by
     IN Becomes(CASE ~ok -> [s EXCEPT !.wood[side] = @ + r.amount]
                  [] ok /\ ~Alive(s, u) -> [s EXCEPT !.lost = @ + r.amount]
                  [] OTHER -> LET l == [s EXCEPT !.unit[u].loot = @ + r.amount]
                              IN IF l.unit[u].status = "IDLE" /\ ~Moving(l, u)
                                 THEN DepositLoot(l, u) ELSE l)
  /\ UNCHANGED <<politics, ordered>>

Next ==
  \/ \E u \in Unit, t \in Unit : AttackUnit(u, t)
  \/ \E u \in Unit, side \in Side : PillageCity(u, side) \/ DemolishBuilding(u, side)
  \/ \E u \in Unit, to \in Tile : Move(u, to)
  \/ \E u \in Unit : CancelMove(u)
  \/ Politics
  \/ Tick
  \/ \E side \in Side : ForgetSiegeDamage(side)
  \/ \E side \in Side, ok \in BOOLEAN : PillageResolved(side, ok)

(* The loop ticks for as long as anything moves or fights: WF_vars(Tick),    *)
(* with its ENABLED written out.                                           *)
Fairness == []<>~Busy \/ []<><<Tick>>_vars

Spec == Init /\ [][Next]_vars /\ Fairness

-----------------------------------------------------------------------------
(* Properties *)

\* Types, and the life of a unit: dead exactly with no hit points
\* (INV-COMBAT-001), never above its load.
TypeOK ==
  /\ \A u \in Unit :
       /\ unit[u].hp \in 0..HP /\ unit[u].at \in Tile
       /\ unit[u].status \in {"IDLE", "MOVING", "ATTACKING", "DEAD"}
       /\ unit[u].status = "DEAD" <=> unit[u].hp = 0
       /\ unit[u].status = "MOVING" <=> unit[u].walk # NoWalk
       /\ unit[u].loot \in Nat /\ unit[u].pending \in Nat
       /\ Carrying(World, u) <= Carry
  /\ \A side \in Side : wood[side] \in Nat /\ house[side] \in 0..HP
  /\ orders \in 0..MaxOrders

InFlight(side) == FoldLeft(LAMBDA n, r : n + r.amount, 0, raids[side])
Total(f, set) == FoldLeft(LAMBDA n, x : n + f[x], 0, SetToSeq(set))

\* Fighting creates no wood and destroys none but the loot nobody inherits:
\* every unit of wood is in a stock, on a shoulder, or in a transaction that
\* has not answered (INV-COMBAT-003), whoever dies while it is in flight.
WoodConserved ==
  Total([side \in Side |-> wood[side] + InFlight(side)], Side)
    + Total([u \in Unit |-> unit[u].loot], Unit) + lost = Wood * Cardinality(Side)

\* A guard its player never ordered goes home: whenever it neither fights nor
\* walks, it stands on the post it had, however many alarms drew it away
\* (RN-COMBAT-014, RN-COMBAT-015).
GuardGoesHome ==
  \A u \in Unit \ ordered :
    unit[u].status = "IDLE" /\ ~Engaged(World, u) => unit[u].at = Start[u]

\* A fight outlives neither of its units: whoever is engaged is alive, and so
\* is its target.
NoFightWithTheDead ==
  \A u \in Unit : Engaged(World, u) =>
    unit[u].hp > 0 /\ (fight[u].k = "unit" => unit[fight[u].target].hp > 0)

\* The blows of a tick fall together (ADR-024): two units that strike each
\* other are both hurt, even if the first blow kills.
Together ==
  [][\A a, b \in Unit :
       (/\ fight[a].k = "unit" /\ fight[a].target = b /\ fight[b].k = "unit"
        /\ fight[b].target = a /\ fight[a].wait <= 1 /\ fight[b].wait <= 1
        /\ unit[a].status = "ATTACKING" /\ unit[b].status = "ATTACKING"
        /\ unit[a].hp = 1 /\ unit[b].hp = 1 /\ unit'[a].hp = 0
        /\ Dist(unit[a].at, unit[b].at) <= Range1) => unit'[b].hp = 0]_vars

\* "ATTACKING hasta que el enfrentamiento termina": a unit that attacks has
\* something it attacks (combat-raid.md).
AttackingSomething ==
  \A u \in Unit : unit[u].status = "ATTACKING" => Engaged(World, u)

\* Without new orders every fight ends: alarms, chases, leashes and returns
\* to the post never feed each other for ever (RN-COMBAT-012 to 015).
BattleEnds == <>[](\A u \in Unit : ~Engaged(World, u))
=============================================================================
