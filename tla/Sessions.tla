------------------------------ MODULE Sessions ------------------------------
(***************************************************************************)
(* The sessions of the WebSocket server and the view of the world each     *)
(* client keeps (internal/websocket, docs/specs/websocket-protocol.md).    *)
(*                                                                         *)
(* Three goroutines meet at a session: the loop broadcasts what happens to *)
(* the sessions subscribed to a chunk; the reader of the connection greets *)
(* it, asks the loop for snapshots and subscribes it; the writer empties   *)
(* its bounded output.  Send numbers a message and then enqueues it, in    *)
(* two steps that no lock joins.  A client replaces its view with every    *)
(* snapshot and drops what is numbered below the last it saw.              *)
(*                                                                         *)
(* The world is one unit: the chunk it is in and how often it has changed. *)
(* TCP delivers in order, so the output and the network are one FIFO.      *)
(***************************************************************************)
EXTENDS Integers, Sequences, FiniteSets, SequencesExt

CONSTANTS
    Session,     \* connections of one player, each opened at most once
    Loop,        \* the game loop, the other producer of messages
    Chunk,
    Area,        \* sets of chunks: ChunksInRadius of some centre
    HomeArea,    \* the area centred in the player's city
    OutCap,      \* OutboundQueue
    MaxEvents,   \* bound on what happens to the unit
    MaxNotices,  \* bound on messages to the player
    MaxViews,    \* bound on changes of area
    MaxFull,     \* bound on commands refused and on snapshots that time out
    None

Absent == -1

ASSUME SessionsAssumption ==
    /\ Loop \notin Session /\ None \notin Area
    /\ HomeArea \in Area /\ Area \subseteq SUBSET Chunk
    /\ OutCap \in Nat \ {0}
    /\ {MaxEvents, MaxNotices, MaxViews, MaxFull} \subseteq Nat

VARIABLES
    place, value,  \* the unit, in the loop's state
    calls,         \* calls to the hub the loop has still to make
    todo,          \* messages to the sessions copied under the hub's lock
    hand,          \* per producer: a message numbered and not yet enqueued
    registered,    \* Hub.sessions
    subs,          \* Session.chunks, and Hub.byChunk with it
    reader,        \* where the reader of each connection is
    wanted,        \* the area of the snapshot a reader asked for
    reply,         \* what the loop left in its channel
    terrainSent,
    out, seq,      \* the output of each session, and its counter
    closed,        \* the code of the close frame, 0 while open
    client,        \* what each client has
    told,          \* history: sessions whose writer wrote RATE_LIMITED
    flushed,       \* history: sessions whose close waits in the output
    overtaken,     \* history: snapshots in the making that miss something
    astray,        \* history: clients whose view may be wrong
    dropped,       \* history: clients that discarded a snapshot
    nEvents, nNotices, nViews, nFull

worldVars == <<place, value>>
loopVars == <<calls, todo>>
hub == <<registered, subs>>
asking == <<wanted, reply, terrainSent>>
output == <<out, seq, closed>>
history == <<told, flushed, overtaken, astray, dropped>>
counters == <<nEvents, nNotices, nViews, nFull>>
vars == <<worldVars, loopVars, hand, hub, reader, asking, output, client, history, counters>>

Producer == Session \cup {Loop}
Type == {"welcome", "snapshot", "spawn", "update", "despawn", "notice", "error", "limited", "marker"}
\* What changes a view: the rest only has a number.
ViewType == {"snapshot", "spawn", "update", "despawn"}
Values == {Absent} \cup 0..MaxEvents
Message == [type: Type, seq: Nat, unit: Values, terrain: SUBSET Chunk]
Say(type, unit, terrain) == [type |-> type, seq |-> 0, unit |-> unit, terrain |-> terrain]
Plain(type) == Say(type, Absent, {})

ReaderPC == {"off", "joined", "asking", "waiting", "subscribed", "reading",
             "limiting", "leaving", "closing", "over"}

NewClient == [last |-> 0, unit |-> Absent, terrain |-> {}, snapped |-> FALSE]

Init ==
    /\ place \in Chunk /\ value = 0 /\ calls = <<>> /\ todo = {}
    /\ hand = [p \in Producer |-> None]
    /\ registered = {} /\ subs = [s \in Session |-> {}]
    /\ reader = [s \in Session |-> "off"]
    /\ wanted = [s \in Session |-> None] /\ reply = [s \in Session |-> None]
    /\ terrainSent = [s \in Session |-> {}]
    /\ out = [s \in Session |-> <<>>] /\ seq = [s \in Session |-> 0]
    /\ closed = [s \in Session |-> 0]
    /\ client = [s \in Session |-> NewClient]
    /\ told = {} /\ flushed = {} /\ overtaken = {} /\ astray = {} /\ dropped = {}
    /\ nEvents = 0 /\ nNotices = 0 /\ nViews = 0 /\ nFull = 0

-----------------------------------------------------------------------------
(* Session.Send, in its two steps, and the two ways to close.              *)

\* A closed session takes no message; the others give it the next number.
Number(p, s, m) ==
    IF closed[s] # 0 THEN UNCHANGED <<hand, seq>>
    ELSE /\ seq' = [seq EXCEPT ![s] = @ + 1]
         /\ hand' = [hand EXCEPT ![p] = [to |-> s, msg |-> [m EXCEPT !.seq = seq[s] + 1]]]

Close(s, code) == closed' = [closed EXCEPT ![s] = IF @ = 0 THEN code ELSE @]

\* Something numbered above it is already on its way: the client will drop it.
Late(s, m) == client[s].last > m.seq \/ \E i \in DOMAIN out[s] : out[s][i].seq > m.seq

\* Mutant: the output has no bound.
EnqueueAlways(s, m) ==
    /\ out' = [out EXCEPT ![s] = Append(@, m)]
    /\ UNCHANGED closed

\* A full output closes the session; the number is gone all the same.
Enqueue(s, m) ==
    IF Len(out[s]) < OutCap
    THEN out' = [out EXCEPT ![s] = Append(@, m)] /\ UNCHANGED closed
    ELSE Close(s, 4500) /\ UNCHANGED out

Put(p) ==
    LET s == hand[p].to
        m == hand[p].msg
        wrong == m.type \in ViewType /\ (Late(s, m) \/ (m.type = "snapshot" /\ s \in overtaken)) IN
    /\ hand[p] # None
    /\ Enqueue(s, m)
    /\ hand' = [hand EXCEPT ![p] = None]
    /\ astray' = IF wrong THEN astray \cup {s} ELSE IF m.type = "snapshot" THEN astray \ {s} ELSE astray
    /\ overtaken' = IF m.type = "snapshot" THEN overtaken \ {s} ELSE overtaken
    /\ dropped' = IF m.type = "snapshot" /\ Late(s, m) THEN dropped \cup {s} ELSE dropped
    /\ UNCHANGED <<worldVars, loopVars, hub, reader, asking, seq, client, told, flushed, counters>>

-----------------------------------------------------------------------------
(* The loop: what happens, and the hub's calls that announce it.           *)

LoopIdle == calls = <<>> /\ todo = {} /\ hand[Loop] = None

SeenIn(chunks) == IF place \in chunks THEN value ELSE Absent

\* A snapshot between its making on the loop and its place in the output.
InTheMaking(s) ==
    \/ reply[s] # None
    \/ hand[s] # None /\ hand[s].msg.type = "snapshot"

Happens(next) ==
    /\ LoopIdle /\ nEvents < MaxEvents
    /\ nEvents' = nEvents + 1
    /\ value' = value + 1
    /\ calls' = next
    /\ overtaken' = overtaken \cup {s \in Session : InTheMaking(s)}
    /\ UNCHANGED <<todo, hand, hub, reader, asking, output, client, told, flushed, astray, dropped,
                   nNotices, nViews, nFull>>

\* Every delta of an entity goes to the chunk it is in.
Change == UNCHANGED place /\ Happens(<<[call |-> "chunk", at |-> place]>>)

\* moveUnit: the transition first, the caller's own delta after it.
Cross(c) ==
    /\ c # place /\ place' = c
    /\ Happens(<<[call |-> "transition", from |-> place, at |-> c], [call |-> "chunk", at |-> c]>>)

Notice ==
    /\ LoopIdle /\ nNotices < MaxNotices
    /\ nNotices' = nNotices + 1
    /\ calls' = <<[call |-> "player"]>>
    /\ UNCHANGED <<worldVars, todo, hand, hub, reader, asking, output, client, history, nEvents, nViews, nFull>>

Watching(c) == {s \in registered : c \in subs[s]}

\* Mutant: the crossing is announced to everybody on each side.
TransitionToAll(from, to) ==
    {<<s, Say("spawn", value, {})>> : s \in Watching(to)}
      \cup {<<s, Plain("despawn")>> : s \in Watching(from)}

\* BroadcastChunkTransition: who watches both sides hears nothing of it.
Transition(from, to) ==
    {<<s, Say("spawn", value, {})>> : s \in Watching(to) \ Watching(from)}
      \cup {<<s, Plain("despawn")>> : s \in Watching(from) \ Watching(to)}

\* A call copies its targets under the hub's lock and sends after it.
Targets(c) ==
    CASE c.call = "chunk" -> {<<s, Say("update", value, {})>> : s \in Watching(c.at)}
      [] c.call = "transition" -> Transition(c.from, c.at)
      [] c.call = "player" -> {<<s, Plain("notice")>> : s \in registered}

CallHub ==
    /\ calls # <<>> /\ todo = {} /\ hand[Loop] = None
    /\ todo' = Targets(Head(calls))
    /\ calls' = Tail(calls)
    /\ UNCHANGED <<worldVars, hand, hub, reader, asking, output, client, history, counters>>

SendNext ==
    /\ hand[Loop] = None
    /\ \E t \in todo : Number(Loop, t[1], t[2]) /\ todo' = todo \ {t}
    /\ UNCHANGED <<worldVars, calls, hub, reader, asking, out, closed, client, history, counters>>

\* handleRequestSnapshot: what the loop sees now, in the channel of the request.
Serve(s) ==
    /\ LoopIdle /\ reader[s] = "waiting" /\ wanted[s] # None
    /\ reply' = [reply EXCEPT ![s] = [area |-> wanted[s], unit |-> SeenIn(wanted[s])]]
    /\ wanted' = [wanted EXCEPT ![s] = None]
    /\ UNCHANGED <<worldVars, loopVars, hand, hub, reader, terrainSent, output, client, history, counters>>

LoopStep ==
    \/ Change \/ (\E c \in Chunk : Cross(c)) \/ Notice
    \/ CallHub \/ SendNext \/ (\E s \in Session : Serve(s))

-----------------------------------------------------------------------------
(* The reader of a connection: serve, readPump, sendSnapshot.              *)

\* Its next step, once the message in its hand is enqueued.
Reader(s, from, to) ==
    /\ reader[s] = from /\ hand[s] = None
    /\ reader' = [reader EXCEPT ![s] = to]

Open(s) ==
    /\ Reader(s, "off", "joined")
    /\ registered' = registered \cup {s}
    /\ UNCHANGED <<worldVars, loopVars, hand, subs, asking, output, client, history, counters>>

\* The loop had no room for PlayerConnected.
Refused(s) ==
    /\ Reader(s, "joined", "over")
    /\ nFull < MaxFull /\ nFull' = nFull + 1
    /\ registered' = registered \ {s}
    /\ Close(s, 4500)
    /\ UNCHANGED <<worldVars, loopVars, hand, subs, asking, out, seq, client, history, nEvents, nNotices, nViews>>

Welcome(s) ==
    /\ Reader(s, "joined", "asking")
    /\ Number(s, s, Plain("welcome"))
    /\ wanted' = [wanted EXCEPT ![s] = HomeArea]
    /\ UNCHANGED <<worldVars, loopVars, hub, reply, terrainSent, out, closed, client, history, counters>>

\* The request waits in the channel of commands from here on.
Ask(s) ==
    /\ Reader(s, "asking", "waiting")
    /\ UNCHANGED <<worldVars, loopVars, hand, hub, asking, output, client, history, counters>>

\* The channel is full, or two seconds passed: an error, and no snapshot.
GiveUpSnapshot(s) ==
    /\ Reader(s, "asking", "reading") \/ Reader(s, "waiting", "reading")
    /\ nFull < MaxFull /\ nFull' = nFull + 1
    /\ wanted' = [wanted EXCEPT ![s] = None] /\ reply' = [reply EXCEPT ![s] = None]
    /\ overtaken' = overtaken \ {s}
    /\ Number(s, s, Plain("error"))
    /\ UNCHANGED <<worldVars, loopVars, hub, terrainSent, out, closed, client, told, flushed, astray, dropped,
                   nEvents, nNotices, nViews>>

Subscribe(s) ==
    /\ reply[s] # None
    /\ Reader(s, "waiting", "subscribed")
    /\ subs' = [subs EXCEPT ![s] = reply[s].area]
    /\ UNCHANGED <<worldVars, loopVars, hand, registered, asking, output, client, history, counters>>

\* Mutant: the chunks are marked before they are filtered.
MarkedFirst(s) == {}

\* NeedsTerrain: only what the session has not received yet.
TerrainFor(s) == reply[s].area \ terrainSent[s]

SendSnapshot(s) ==
    /\ Reader(s, "subscribed", "reading")
    /\ Number(s, s, Say("snapshot", reply[s].unit, TerrainFor(s)))
    /\ terrainSent' = [terrainSent EXCEPT ![s] = @ \cup reply[s].area]
    /\ reply' = [reply EXCEPT ![s] = None]
    /\ UNCHANGED <<worldVars, loopVars, hub, wanted, out, closed, client, history, counters>>

\* session.view: the web client waits for its first snapshot before it moves.
View(s, a) ==
    /\ client[s].snapped /\ closed[s] = 0
    /\ nViews < MaxViews /\ nViews' = nViews + 1
    /\ Reader(s, "reading", "asking")
    /\ wanted' = [wanted EXCEPT ![s] = a]
    /\ UNCHANGED <<worldVars, loopVars, hand, hub, reply, terrainSent, output, client, history,
                   nEvents, nNotices, nFull>>

\* Too many messages: the error, and then a close that waits for it.
RateLimit(s) ==
    /\ closed[s] = 0
    /\ Reader(s, "reading", "limiting")
    /\ Number(s, s, Plain("limited"))
    /\ UNCHANGED <<worldVars, loopVars, hub, asking, out, closed, client, history, counters>>

\* Mutant: the close does not wait for what explains it.
CloseAtOnce(s) ==
    /\ Close(s, 4429) /\ UNCHANGED out
    /\ flushed' = flushed \cup {s}

\* CloseAfterFlush: a marker in the output, or the close at once without room.
CloseAfterFlush(s) ==
    IF closed[s] # 0 THEN UNCHANGED <<out, closed, flushed>>
    ELSE IF Len(out[s]) < OutCap
    THEN /\ out' = [out EXCEPT ![s] = Append(@, Plain("marker"))]
         /\ flushed' = flushed \cup {s}
         /\ UNCHANGED closed
    ELSE Close(s, 4429) /\ UNCHANGED <<out, flushed>>

Limited(s) ==
    /\ Reader(s, "limiting", "leaving")
    /\ CloseAfterFlush(s)
    /\ UNCHANGED <<worldVars, loopVars, hand, hub, asking, seq, client, told, overtaken, astray, dropped, counters>>

\* Mutant: a close does not wake the reader up.
LeaveOnlyOpen(s) ==
    /\ closed[s] = 0
    /\ Reader(s, "reading", "leaving")
    /\ UNCHANGED <<worldVars, loopVars, hand, hub, asking, output, client, history, counters>>

\* The client goes, the read fails, or the session was closed.
Leave(s) ==
    /\ Reader(s, "reading", "leaving")
    /\ UNCHANGED <<worldVars, loopVars, hand, hub, asking, output, client, history, counters>>

Unregister(s) ==
    /\ Reader(s, "leaving", "closing")
    /\ registered' = registered \ {s} /\ subs' = [subs EXCEPT ![s] = {}]
    /\ UNCHANGED <<worldVars, loopVars, hand, asking, output, client, history, counters>>

\* awaitPendingClose ends, by the close or by its limit.
Finish(s) ==
    /\ Reader(s, "closing", "over")
    /\ Close(s, 1000)
    /\ UNCHANGED <<worldVars, loopVars, hand, hub, asking, out, seq, client, history, counters>>

Advance(s) ==
    \/ Welcome(s) \/ Ask(s) \/ Subscribe(s) \/ SendSnapshot(s)
    \/ Limited(s) \/ Unregister(s) \/ Finish(s)
ReaderStep(s) ==
    \/ Open(s) \/ Refused(s) \/ Advance(s) \/ GiveUpSnapshot(s)
    \/ (\E a \in Area : View(s, a)) \/ RateLimit(s) \/ Leave(s)

-----------------------------------------------------------------------------
(* The writer, and the client that receives what it writes.                *)

Applied(c, m) ==
    LET known == c.unit # Absent IN
    CASE m.type = "snapshot" -> [c EXCEPT !.unit = m.unit, !.terrain = @ \cup m.terrain, !.snapped = TRUE]
      [] m.type = "spawn" -> [c EXCEPT !.unit = m.unit]
      [] m.type = "update" /\ known -> [c EXCEPT !.unit = m.unit]
      [] m.type = "despawn" -> [c EXCEPT !.unit = Absent]
      [] OTHER -> c

\* handleRaw: only a welcome is taken whatever its number.
Receives(c, m) ==
    IF m.seq <= c.last /\ m.type # "welcome" THEN c ELSE [Applied(c, m) EXCEPT !.last = m.seq]

Write(s) ==
    LET m == Head(out[s]) IN
    /\ reader[s] # "off" /\ closed[s] = 0 /\ out[s] # <<>>
    /\ out' = [out EXCEPT ![s] = Tail(@)]
    /\ IF m.type = "marker" THEN Close(s, 4429) /\ UNCHANGED <<client, told>>
       ELSE /\ client' = [client EXCEPT ![s] = Receives(@, m)]
            /\ told' = IF m.type = "limited" THEN told \cup {s} ELSE told
            /\ UNCHANGED closed
    /\ UNCHANGED <<worldVars, loopVars, hand, hub, reader, asking, seq, flushed, overtaken, astray, dropped, counters>>

\* A write or a ping fails.
Break(s) ==
    /\ reader[s] # "off" /\ closed[s] = 0
    /\ Close(s, 4500)
    /\ UNCHANGED <<worldVars, loopVars, hand, hub, reader, asking, out, seq, client, history, counters>>

-----------------------------------------------------------------------------
Next ==
    \/ LoopStep
    \/ \E p \in Producer : Put(p)
    \/ \E s \in Session : ReaderStep(s) \/ Write(s) \/ Break(s)

Spec == Init /\ [][Next]_vars

\* Goroutines run, the network delivers, and a close wakes the reader of its
\* session: its deadline is moved, and a client that has read the close frame
\* sends no more (readPump looks at Done after each message it handles, not
\* after one it cannot decode).  Nothing has to happen in the world, and no
\* client has to move, to leave or to be silent.
Fairness ==
    /\ WF_vars(CallHub) /\ WF_vars(SendNext)
    /\ \A p \in Producer : WF_vars(Put(p))
    /\ \A s \in Session :
          /\ WF_vars(Serve(s)) /\ WF_vars(Advance(s)) /\ WF_vars(Write(s))
          /\ WF_vars(closed[s] # 0 /\ Leave(s))

FairSpec == Spec /\ Fairness

-----------------------------------------------------------------------------
(* Properties.                                                             *)

TypeOK ==
    /\ place \in Chunk /\ value \in 0..MaxEvents
    /\ \A c \in Range(calls) : c.call \in {"chunk", "transition", "player"}
    /\ todo \subseteq Session \X Message
    /\ \A p \in Producer : hand[p] # None => hand[p].to \in Session /\ hand[p].msg \in Message
    /\ registered \subseteq Session /\ subs \in [Session -> SUBSET Chunk]
    /\ reader \in [Session -> ReaderPC]
    /\ wanted \in [Session -> Area \cup {None}]
    /\ terrainSent \in [Session -> SUBSET Chunk]
    /\ \A s \in Session : Range(out[s]) \subseteq Message /\ Len(out[s]) <= OutCap
    /\ seq \in [Session -> Nat] /\ closed \in [Session -> {0, 1000, 4429, 4500}]
    /\ client \in [Session -> [last: Nat, unit: Values, terrain: SUBSET Chunk, snapped: BOOLEAN]]
    /\ UNION {told, flushed, overtaken, astray, dropped} \subseteq Session

\* Nothing is on its way to the client of an open session.
Settled(s) ==
    /\ closed[s] = 0 /\ reader[s] = "reading" /\ out[s] = <<>>
    /\ LoopIdle /\ \A p \in Producer : hand[p] = None \/ hand[p].to # s

ViewIsRight(s) == client[s].unit = SeenIn(subs[s])

\* Interest management: a client to which nothing is on its way sees exactly
\* what its area holds, through crossings, changes of area and full outputs.
\* The only ways to go astray are a snapshot overtaken by what happens while it
\* is made and a message overtaken by the number of another; the next snapshot
\* that is neither brings the client back.
ViewExplained == \A s \in Session : Settled(s) => ViewIsRight(s) \/ s \in astray

\* Terrain is sent once (NeedsTerrain): what is marked as sent has reached the
\* client or is on its way.  One snapshot discarded by its number is enough to
\* leave a hole that no later one fills.
OnItsWay(s) ==
    UNION ({m.terrain : m \in Range(out[s])}
             \cup (IF hand[s] = None THEN {} ELSE {hand[s].msg.terrain}))
TerrainArrives ==
    \A s \in Session : closed[s] = 0 =>
        terrainSent[s] \subseteq client[s].terrain \cup OnItsWay(s) \/ s \in dropped

\* CloseAfterFlush: the client is told why before the close that waits for it.
LimitedIsTold == \A s \in Session : closed[s] = 4429 /\ s \in flushed => s \in told

\* A client is never left without what it will not ask for again: the terrain of
\* its chunks and the reason of its close, with its output full or not.
NothingUntold == TerrainArrives /\ LimitedIsTold

\* A closed session leaves the hub: its reader wakes up, whatever it was doing.
ClosedIsForgotten == \A s \in Session : closed[s] # 0 ~> s \notin registered

\* Section 7.1: after the welcome, the initial snapshot.
SnapshotArrives ==
    \A s \in Session : reader[s] = "joined" ~>
        client[s].snapped \/ closed[s] # 0 \/ reader[s] \in {"limiting", "leaving", "closing", "over"}
=============================================================================
