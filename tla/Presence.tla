------------------------------ MODULE Presence ------------------------------
(***************************************************************************)
(* Presence and protection (docs/specs/presence.md, ADR-022, ADR-024): the *)
(* goroutine of every connection tells the loop when its session begins    *)
(* and ends; the loop counts sessions, lets a grace run after the last one *)
(* and a cooldown after the grace, and moves the city of each player       *)
(* through ONLINE, OFFLINE_PENDING and PROTECTED, writing every transition *)
(* behind the tick.                                                        *)
(*                                                                         *)
(* Commands travel by two bounded channels: `commands`, a FIFO shared with *)
(* everything the players send, and the loop's inbox, drained before it.   *)
(* What the inbox holds is a set: no property depends on its order.  Every *)
(* instant is an age, how long ago it was, capped at Horizon, so that time *)
(* has no end and the states are finite.                                   *)
(***************************************************************************)
EXTENDS Integers, Sequences, FiniteSets

CONSTANTS
    Player,      \* each owns at most one city
    Session,     \* connections, each opened at most once
    Owner,       \* [Session -> Player]
    Founded,     \* players whose city the first boot finds in the database
    Grace,       \* DisconnectGrace, in ages
    Cooldown,    \* ProtectionCooldown; the configuration admits zero
    Horizon,     \* ages stop growing here
    CommandCap, InboxCap, QueueCap,
    TickBudget,  \* MaxCommandsPerTick
    MaxFailed,   \* bound on writes that exhaust their attempts
    MaxCrash     \* bound on restarts

Never == -1

ASSUME PresenceAssumption ==
    /\ Owner \in [Session -> Player] /\ Founded \subseteq Player
    /\ IsFiniteSet(Player) /\ IsFiniteSet(Session)
    /\ {Grace, Cooldown, MaxFailed, MaxCrash} \subseteq Nat
    /\ {CommandCap, InboxCap, QueueCap, TickBudget} \subseteq Nat \ {0}
    /\ Horizon \in Nat /\ Horizon >= Grace /\ Horizon >= Cooldown

VARIABLES
    conn,       \* the goroutine of each connection
    founding,   \* players whose foundation committed and is being dispatched
    commands, inbox,
    phase,      \* the step of the tick the loop is at
    budget,     \* what is left of the tick's budget
    sessions,   \* Simulation.sessions
    early,      \* Simulation.earlyDisconnects
    absent,     \* Simulation.disconnectedAt: the age of the mark, or Never
    city,       \* State: presence and last_offline_at of each city in RAM
    dirty,      \* State.presenceDirty
    queue,      \* per city, the presence jobs the persistence queue holds
    row,        \* the table cities
    seen,       \* history: how long ago the loop last counted a session
    defect,     \* history: applyPresence refused a transition
    lost,       \* history: what both channels, or a full inbox, dropped
    nFailed, nCrash

channels == <<commands, inbox, lost>>
sim == <<sessions, early, absent, seen>>
cities == <<city, dirty, queue, defect>>
tick == <<phase, budget>>
counters == <<nFailed, nCrash>>
vars == <<conn, founding, channels, tick, sim, cities, row, counters>>

State == {"ONLINE", "OFFLINE_PENDING", "PROTECTED"}
Age == {Never} \cup 0..Horizon
City == [state: State \cup {"none"}, offline: Age]
NoCity == [state |-> "none", offline |-> Never]
NewCity == [state |-> "ONLINE", offline |-> Never]
HasCity(p) == city[p].state # "none"

Connected(s) == [kind |-> "connected", session |-> s]
Disconnected(s) == [kind |-> "disconnected", session |-> s]
Snapshot(s) == [kind |-> "snapshot", session |-> s]
Introduce(p) == [kind |-> "introduce", player |-> p]
Failed(p) == [kind |-> "failed", player |-> p]
Command == [kind: {"connected", "disconnected", "snapshot"}, session: Session]
             \cup [kind: {"introduce"}, player: Player]
Message == [kind: {"disconnected"}, session: Session] \cup [kind: {"failed"}, player: Player]

Fits(ch) == Len(ch) < CommandCap

-----------------------------------------------------------------------------
(* The channels and the write-behind of a city's presence.                 *)

\* Inbox.Offer, once `taken` has left the inbox: what does not fit is dropped.
Post(taken, msgs) ==
    LET rest == inbox \ taken IN
    \E kept \in SUBSET msgs :
        /\ Cardinality(rest \cup kept) <= InboxCap \/ kept = {}
        /\ kept = msgs \/ Cardinality(rest \cup kept) >= InboxCap
        /\ inbox' = rest \cup kept
        /\ lost' = lost \cup (msgs \ kept)

\* presenceMark: the offline mark, or now for a city that has none.
\* Mutant: the mark is always now.
PresenceMarkNow(c) == 0

PresenceMark(c) == IF c.state = "ONLINE" \/ c.offline = Never THEN 0 ELSE c.offline

\* submitPresence for the cities ps, now cs: the CURRENT state of each.  A
\* full partition compensates at once, through the inbox.
SubmitPresence(taken, ps, cs) ==
    LET fits == {p \in ps : Len(queue[p]) < QueueCap} IN
    /\ queue' = [p \in Player |->
                   IF p \in fits THEN Append(queue[p], [state |-> cs[p].state, mark |-> PresenceMark(cs[p])])
                   ELSE queue[p]]
    /\ Post(taken, {Failed(p) : p \in ps \ fits})

\* Mutant: protection has no way out.
CanTransitionClosed(from, to) ==
    from = to \/ (from = "ONLINE" /\ to = "OFFLINE_PENDING")
    \/ (from = "OFFLINE_PENDING" /\ to \in {"PROTECTED", "ONLINE"})

CanTransition(from, to) ==
    \/ from = to
    \/ from = "ONLINE" /\ to = "OFFLINE_PENDING"
    \/ from = "OFFLINE_PENDING" /\ to \in {"PROTECTED", "ONLINE"}
    \/ from = "PROTECTED" /\ to = "ONLINE"

Moved(c, to) == [state |-> to, offline |-> IF to = "OFFLINE_PENDING" THEN 0 ELSE c.offline]

\* applyPresence over the cities ps, some of which may not exist.
ApplyPresence(ps, to) ==
    LET asked == {p \in ps : HasCity(p) /\ city[p].state # to}
        moved == {p \in asked : CanTransition(city[p].state, to)} IN
    /\ city' = [p \in Player |-> IF p \in moved THEN Moved(city[p], to) ELSE city[p]]
    /\ dirty' = dirty \ moved
    /\ defect' = (defect \/ moved # asked)
    /\ SubmitPresence({}, moved, city')

-----------------------------------------------------------------------------
(* The goroutines of the connections (serve) and of the foundation (Found). *)

Open(s) ==
    /\ conn[s] = "new" /\ row[Owner[s]].state # "none"
    /\ conn' = [conn EXCEPT ![s] = "joining"]
    /\ UNCHANGED <<founding, channels, tick, sim, cities, row, counters>>

\* dispatchWithin: waits for room, or closes a session the loop never counts.
Join(s) ==
    /\ conn[s] = "joining" /\ Fits(commands)
    /\ conn' = [conn EXCEPT ![s] = "joined"]
    /\ commands' = Append(commands, Connected(s))
    /\ UNCHANGED <<founding, inbox, lost, tick, sim, cities, row, counters>>

JoinTimeout(s) ==
    /\ conn[s] = "joining" /\ ~Fits(commands)
    /\ conn' = [conn EXCEPT ![s] = "gone"]
    /\ UNCHANGED <<founding, channels, tick, sim, cities, row, counters>>

\* sendSnapshot: its request follows the session by the same channel, if it fits.
AskSnapshot(s) ==
    /\ conn[s] = "joined"
    /\ conn' = [conn EXCEPT ![s] = "live"]
    /\ commands' = IF Fits(commands) THEN Append(commands, Snapshot(s)) ELSE commands
    /\ UNCHANGED <<founding, inbox, lost, tick, sim, cities, row, counters>>

\* dispatchDisconnect: by the inbox when the commands are full.
Leave(s) ==
    /\ conn[s] = "live"
    /\ conn' = [conn EXCEPT ![s] = "gone"]
    /\ IF Fits(commands)
       THEN commands' = Append(commands, Disconnected(s)) /\ UNCHANGED <<inbox, lost>>
       ELSE Post({}, {Disconnected(s)}) /\ UNCHANGED commands
    /\ UNCHANGED <<founding, tick, sim, cities, row, counters>>

\* The transaction of the foundation, and then its dispatch or its timeout.
FoundCommit(p) ==
    /\ row[p].state = "none"
    /\ row' = [row EXCEPT ![p] = NewCity]
    /\ founding' = founding \cup {p}
    /\ UNCHANGED <<conn, channels, tick, sim, cities, counters>>

FoundDispatch(p) ==
    /\ p \in founding
    /\ founding' = founding \ {p}
    /\ IF Fits(commands)
       THEN commands' = Append(commands, Introduce(p)) /\ UNCHANGED lost
       ELSE lost' = lost \cup {Introduce(p)} /\ UNCHANGED commands
    /\ UNCHANGED <<conn, inbox, tick, sim, cities, row, counters>>

Outside ==
    \/ \E s \in Session : Open(s) \/ Join(s) \/ JoinTimeout(s) \/ AskSnapshot(s) \/ Leave(s)
    \/ \E p \in Player : FoundCommit(p) \/ FoundDispatch(p)

-----------------------------------------------------------------------------
(* The handlers, on the loop.                                              *)

\* Mutant: a session whose end came first is counted all the same.
HandleConnectedAnyway(s) ==
    LET p == Owner[s] IN
    /\ sessions' = [sessions EXCEPT ![p] = @ \cup {s}]
    /\ absent' = [absent EXCEPT ![p] = Never]
    /\ seen' = [seen EXCEPT ![p] = 0]
    /\ ApplyPresence({p}, "ONLINE")
    /\ UNCHANGED early

HandleConnected(s) ==
    LET p == Owner[s] IN
    IF s \in early
    THEN early' = early \ {s} /\ UNCHANGED <<sessions, absent, seen, cities, inbox, lost>>
    ELSE /\ sessions' = [sessions EXCEPT ![p] = @ \cup {s}]
         /\ absent' = [absent EXCEPT ![p] = Never]
         /\ seen' = [seen EXCEPT ![p] = 0]
         /\ ApplyPresence({p}, "ONLINE")
         /\ UNCHANGED early

\* Mutant: the end of one session ends them all.
HandleDisconnectedAll(s) ==
    LET p == Owner[s] IN
    IF s \notin sessions[p]
    THEN early' = early \cup {s} /\ UNCHANGED <<sessions, absent, seen>>
    ELSE /\ sessions' = [sessions EXCEPT ![p] = {}]
         /\ absent' = [absent EXCEPT ![p] = 0]
         /\ UNCHANGED <<early, seen>>

\* A session the loop has not: its end came first, or came twice.
HandleDisconnected(s) ==
    LET p == Owner[s] IN
    IF s \notin sessions[p]
    THEN early' = early \cup {s} /\ UNCHANGED <<sessions, absent, seen>>
    ELSE /\ sessions' = [sessions EXCEPT ![p] = @ \ {s}]
         /\ absent' = IF sessions'[p] = {} THEN [absent EXCEPT ![p] = 0] ELSE absent
         /\ UNCHANGED <<early, seen>>

HandleIntroduce(p) ==
    /\ city' = [city EXCEPT ![p] = NewCity]
    /\ UNCHANGED <<sim, dirty, queue, defect>>

\* Mutant: nobody retries a dropped write.
HandlePersistFailedLost(p) == UNCHANGED <<sim, cities>>

\* handleCityPresencePersistFailed
HandlePersistFailed(p) ==
    /\ dirty' = IF HasCity(p) THEN dirty \cup {p} ELSE dirty
    /\ UNCHANGED <<sim, city, queue, defect>>

-----------------------------------------------------------------------------
(* A tick: inbox, commands, grace, cooldown, and from time to time a flush. *)

Step(from, to) == phase = from /\ phase' = to
\* Mutant: the drain does not look at what is left.
SpendMore(at) == phase = at /\ budget' = budget - 1 /\ UNCHANGED phase

Spend(at) == phase = at /\ budget > 0 /\ budget' = budget - 1 /\ UNCHANGED phase

DrainInbox ==
    /\ Spend("inbox")
    /\ \E m \in inbox :
          /\ inbox' = inbox \ {m}
          /\ \/ m.kind = "disconnected" /\ HandleDisconnected(m.session) /\ UNCHANGED cities
             \/ m.kind = "failed" /\ HandlePersistFailed(m.player)
    /\ UNCHANGED <<conn, founding, commands, lost, row, counters>>

InboxDone ==
    /\ Step("inbox", "commands")
    /\ inbox = {} \/ budget = 0
    /\ UNCHANGED <<conn, founding, channels, budget, sim, cities, row, counters>>

DrainCommands ==
    LET m == Head(commands) IN
    /\ commands # <<>> /\ Spend("commands")
    /\ commands' = Tail(commands)
    /\ \/ m.kind = "connected" /\ HandleConnected(m.session)
       \/ m.kind = "disconnected" /\ HandleDisconnected(m.session) /\ UNCHANGED <<cities, inbox, lost>>
       \/ m.kind = "introduce" /\ HandleIntroduce(m.player) /\ UNCHANGED <<inbox, lost>>
       \/ m.kind = "snapshot" /\ UNCHANGED <<sim, cities, inbox, lost>>
    /\ UNCHANGED <<conn, founding, row, counters>>

CommandsDone ==
    /\ Step("commands", "grace")
    /\ commands = <<>> \/ budget = 0
    /\ UNCHANGED <<conn, founding, channels, budget, sim, cities, row, counters>>

\* Mutant: the grace is one instant short.
GraceOverEarly(p) == absent[p] + 1 >= Grace

GraceOver(p) == absent[p] >= Grace

\* ProcessTimers, step 1.
EndGrace ==
    LET marked == {p \in Player : absent[p] # Never}
        over == {p \in marked : sessions[p] = {} /\ GraceOver(p)} IN
    /\ Step("grace", "cooldown")
    /\ absent' = [p \in Player |-> IF sessions[p] # {} \/ p \in over THEN Never ELSE absent[p]]
    /\ ApplyPresence(over, "OFFLINE_PENDING")
    /\ UNCHANGED <<conn, founding, commands, budget, sessions, early, seen, row, counters>>

\* Mutant: the mark decides, whatever the state.
EngageByMark(c) == c.offline # Never /\ c.offline >= Cooldown

ShouldEngageProtection(c) ==
    c.state = "OFFLINE_PENDING" /\ c.offline # Never /\ c.offline >= Cooldown

\* ProcessTimers, step 3.
EngageProtection ==
    /\ Step("cooldown", "flush")
    /\ ApplyPresence({p \in Player : ShouldEngageProtection(city[p])}, "PROTECTED")
    /\ UNCHANGED <<conn, founding, commands, budget, sim, row, counters>>

\* flushPresence, in the ticks that flush; the others only end.
FlushPresence ==
    /\ Step("flush", "inbox") /\ budget' = TickBudget
    /\ dirty' = {}
    /\ SubmitPresence({}, {p \in dirty : HasCity(p)}, city)
    /\ UNCHANGED <<conn, founding, commands, sim, city, defect, row, counters>>

EndTick ==
    /\ Step("flush", "inbox") /\ budget' = TickBudget
    /\ UNCHANGED <<conn, founding, channels, sim, cities, row, counters>>

Tick ==
    \/ DrainInbox \/ InboxDone \/ DrainCommands \/ CommandsDone
    \/ EndGrace \/ EngageProtection \/ FlushPresence \/ EndTick

\* Time passes between ticks: a tick works with one instant.
Older(a) == IF a \in {Never, Horizon} THEN a ELSE a + 1
OlderCity(c) == [c EXCEPT !.offline = Older(@)]
ClockTick ==
    /\ phase = "inbox" /\ budget = TickBudget
    /\ absent' = [p \in Player |-> Older(absent[p])]
    /\ seen' = [p \in Player |-> IF sessions[p] # {} THEN 0 ELSE Older(seen[p])]
    /\ city' = [p \in Player |-> OlderCity(city[p])]
    /\ row' = [p \in Player |-> OlderCity(row[p])]
    /\ queue' = [p \in Player |-> [i \in DOMAIN queue[p] |-> [queue[p][i] EXCEPT !.mark = Older(@)]]]
    /\ UNCHANGED <<conn, founding, channels, tick, sessions, early, dirty, defect, counters>>

-----------------------------------------------------------------------------
(* The workers of the queue, the crash and the boot.                       *)

\* CityRepo.SetPresence: ONLINE leaves last_offline_at as it was.
SetPresence(c, j) == [state |-> j.state, offline |-> IF j.state = "ONLINE" THEN c.offline ELSE j.mark]

Write(p) ==
    /\ queue[p] # <<>>
    /\ queue' = [queue EXCEPT ![p] = Tail(@)]
    /\ row' = [row EXCEPT ![p] = SetPresence(@, Head(queue[p]))]
    /\ UNCHANGED <<conn, founding, channels, tick, sim, city, dirty, defect, counters>>

Fail(p) ==
    /\ queue[p] # <<>> /\ nFailed < MaxFailed
    /\ nFailed' = nFailed + 1
    /\ queue' = [queue EXCEPT ![p] = Tail(@)]
    /\ Post({}, {Failed(p)})
    /\ UNCHANGED <<conn, founding, commands, tick, sim, city, dirty, defect, row, nCrash>>

\* Hydrate and AfterBoot over the rows r: who was ONLINE left when we booted.
AfterBoot(c) == IF c.state = "ONLINE" THEN Moved(c, "OFFLINE_PENDING") ELSE c
BootQueue(c) == IF c.state = "ONLINE" THEN <<[state |-> "OFFLINE_PENDING", mark |-> 0]>> ELSE <<>>

Restart ==
    /\ nCrash < MaxCrash
    /\ nCrash' = nCrash + 1
    /\ conn' = [s \in Session |-> IF conn[s] = "new" THEN "new" ELSE "gone"]
    /\ founding' = {} /\ commands' = <<>> /\ inbox' = {} /\ lost' = {}
    /\ phase' = "inbox" /\ budget' = TickBudget
    /\ sessions' = [p \in Player |-> {}] /\ early' = {}
    /\ absent' = [p \in Player |-> Never] /\ seen' = absent'
    /\ city' = [p \in Player |-> AfterBoot(row[p])]
    /\ queue' = [p \in Player |-> BootQueue(row[p])]
    /\ dirty' = {}
    /\ UNCHANGED <<defect, row, nFailed>>

\* The rows a first boot may find.
FoundRow(c) ==
    /\ c.state = "ONLINE" \/ (c.state = "OFFLINE_PENDING" /\ c.offline # Never)
       \/ (c.state = "PROTECTED" /\ c.offline >= Cooldown)

Init ==
    /\ conn = [s \in Session |-> "new"] /\ founding = {}
    /\ commands = <<>> /\ inbox = {} /\ lost = {}
    /\ phase = "inbox" /\ budget = TickBudget
    /\ sessions = [p \in Player |-> {}] /\ early = {}
    /\ absent = [p \in Player |-> Never] /\ seen = absent
    /\ row \in [Player -> City]
    /\ \A p \in Player : IF p \in Founded THEN FoundRow(row[p]) ELSE row[p] = NoCity
    /\ city = [p \in Player |-> AfterBoot(row[p])]
    /\ queue = [p \in Player |-> BootQueue(row[p])]
    /\ dirty = {} /\ defect = FALSE
    /\ nFailed = 0 /\ nCrash = 0

Next ==
    \/ Outside \/ Tick \/ ClockTick
    \/ \E p \in Player : Write(p) \/ Fail(p)
    \/ Restart

Spec == Init /\ [][Next]_vars

\* The loop ticks, time passes, goroutines and workers are scheduled, and one
\* tick in FlushIntervalTicks flushes.  Nobody has to connect or to leave.
Fairness ==
    /\ WF_vars(Tick) /\ SF_vars(ClockTick) /\ SF_vars(FlushPresence)
    /\ \A p \in Player : WF_vars(Write(p)) /\ WF_vars(FoundDispatch(p))
    /\ \A s \in Session : WF_vars(Join(s) \/ JoinTimeout(s) \/ AskSnapshot(s))

FairSpec == Spec /\ Fairness

-----------------------------------------------------------------------------
(* Properties.                                                             *)

TypeOK ==
    /\ conn \in [Session -> {"new", "joining", "joined", "live", "gone"}]
    /\ founding \subseteq Player
    /\ commands \in Seq(Command) /\ inbox \subseteq Message /\ lost \subseteq Message \cup Command
    /\ phase \in {"inbox", "commands", "grace", "cooldown", "flush"} /\ budget \in 0..TickBudget
    /\ sessions \in [Player -> SUBSET Session] /\ early \subseteq Session
    /\ absent \in [Player -> Age] /\ seen \in [Player -> Age]
    /\ city \in [Player -> City] /\ row \in [Player -> City]
    /\ dirty \subseteq Player /\ defect \in BOOLEAN
    /\ queue \in [Player -> Seq([state: State, mark: 0..Horizon])]
    /\ nFailed \in Nat /\ nCrash \in Nat

Pending == {commands[i] : i \in DOMAIN commands}

\* RN-PRESENCE-022: a session whose beginning the loop applied is counted while
\* its connection lives, whatever other sessions of its player did.
LiveSessionCounted ==
    \A s \in Session : conn[s] \in {"joined", "live"} /\ Connected(s) \notin Pending =>
        s \in sessions[Owner[s]]

\* RN-PRESENCE-023: once both ends of a closed session are applied, in either
\* order and by either channel, nothing of it is left: no phantom keeps the
\* city ONLINE and no early end waits to cancel another session.
NoPhantomSession ==
    \A s \in Session :
        conn[s] = "gone" /\ {Connected(s), Disconnected(s)} \cap (Pending \cup inbox \cup lost) = {}
            => s \notin sessions[Owner[s]] \cup early

\* INV-CITY-014, first half: while the loop counts a session of its owner no
\* city is protected, nor on its way to be; it is ONLINE.
CountedIsOnline == \A p \in Player : sessions[p] # {} /\ HasCity(p) => city[p].state = "ONLINE"

\* The loop counts the sessions that live and no other, whatever the two channels
\* did to their order, and a city with one is exposed.
SessionsCounted == LiveSessionCounted /\ NoPhantomSession /\ CountedIsOnline

\* INV-CITY-011 and INV-CITY-013, in RAM and in the database: outside ONLINE
\* there is a mark, and protection never comes before the cooldown.
ProtectionEarned ==
    \A p \in Player : \A c \in {city[p], row[p]} :
        /\ c.state \in {"OFFLINE_PENDING", "PROTECTED"} => c.offline # Never
        /\ c.state = "PROTECTED" => c.offline >= Cooldown

\* INV-CITY-005: no caller of applyPresence asks for a forbidden edge.
NoForbiddenTransition == ~defect

\* ADR-022: when nothing of a city is on its way, its row says what RAM says,
\* whichever of its writes were dropped and however they crossed.
DatabaseFollows ==
    \A p \in Player :
        HasCity(p) /\ queue[p] = <<>> /\ p \notin dirty /\ Failed(p) \notin inbox \cup lost =>
            /\ row[p].state = city[p].state
            /\ city[p].state # "ONLINE" => row[p].offline = city[p].offline

\* RN-PRESENCE-004: a running server degrades a city only when its owner has
\* had no session for the whole grace, however often sessions came and went.
GraceRespected ==
    [][\A p \in Player :
          city[p].state = "ONLINE" /\ city'[p].state = "OFFLINE_PENDING" /\ nCrash' = nCrash =>
              sessions[p] = {} /\ seen[p] >= Grace]_vars

\* A player whose absence the loop has noticed and who does not come back ends
\* PROTECTED, in RAM and in the database, unless both channels were full.
Absent(p) == \A s \in Session : Owner[s] = p => conn[s] \in {"new", "gone"}
AbsentIsProtected ==
    \A p \in Player : Absent(p) /\ HasCity(p) /\ absent[p] # Never ~>
        \/ city[p].state = "PROTECTED" /\ row[p].state = "PROTECTED"
        \/ ~Absent(p) \/ lost # {}

\* The comment of PresenceOnline, "its owner has a live session": a city does
\* not stay ONLINE for ever without one (what AfterBoot repairs after a crash).
OnlineHasOwner ==
    \A p \in Player : city[p].state = "ONLINE" ~>
        city[p].state # "ONLINE" \/ sessions[p] # {} \/ lost # {}
=============================================================================
