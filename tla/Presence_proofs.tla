--------------------------- MODULE Presence_proofs ---------------------------
(***************************************************************************)
(* Proofs about Presence, for any players, sessions, channels, grace and   *)
(* cooldown, and any number of failed writes and restarts.                 *)
(***************************************************************************)
EXTENDS Presence, TLAPS

-----------------------------------------------------------------------------
(* Types.                                                                  *)

Job == [state : State, mark : 0..Horizon]

LEMMA Constants == 0 \in 0..Horizon /\ Never \in Age /\ 0 \in Age /\ \A s \in Session : Owner[s] \in Player
  BY PresenceAssumption DEF Age

LEMMA OlderType == \A a \in Age : Older(a) \in Age /\ (a \in 0..Horizon => Older(a) \in 0..Horizon)
  BY PresenceAssumption DEF Age, Older, Never

LEMMA MovedType == ASSUME NEW c \in City, NEW to \in State PROVE Moved(c, to) \in City /\ Moved(c, to).state = to
  BY Constants DEF City, Moved

LEMMA AfterBootType == ASSUME NEW c \in City PROVE AfterBoot(c) \in City /\ BootQueue(c) \in Seq(Job)
  <1>1. [state |-> "OFFLINE_PENDING", mark |-> 0] \in Job
    BY Constants DEF Job, State
  <1>2. BootQueue(c) \in Seq(Job)
    BY <1>1 DEF BootQueue
  <1> QED
    BY <1>2, MovedType DEF AfterBoot, State

LEMMA MarkType == ASSUME NEW c \in City PROVE PresenceMark(c) \in 0..Horizon
  BY Constants DEF City, PresenceMark, Age

\* What Inbox.Offer does to the inbox.
LEMMA PostFacts ==
    ASSUME NEW taken, NEW msgs, Post(taken, msgs)
    PROVE  \E kept \in SUBSET msgs : inbox' = (inbox \ taken) \cup kept /\ lost' = lost \cup (msgs \ kept)
  BY DEF Post

LEMMA PostType ==
    ASSUME inbox \subseteq Message, lost \subseteq Message \cup Command,
           NEW taken, NEW msgs \in SUBSET Message, Post(taken, msgs)
    PROVE  inbox' \subseteq Message /\ lost' \subseteq Message \cup Command
  BY PostFacts

LEMMA SubmitType ==
    ASSUME TypeOK, NEW taken, NEW ps \in SUBSET Player, NEW cs \in [Player -> City],
           \A p \in ps : cs[p].state \in State,
           SubmitPresence(taken, ps, cs)
    PROVE  /\ queue' \in [Player -> Seq(Job)]
           /\ inbox' \subseteq Message /\ lost' \subseteq Message \cup Command
  <1>1. \A p \in ps : [state |-> cs[p].state, mark |-> PresenceMark(cs[p])] \in Job
    BY MarkType DEF Job
  <1>2. queue' \in [Player -> Seq(Job)]
    <2>1. PICK fits \in SUBSET ps :
            queue' = [p \in Player |->
                       IF p \in fits THEN Append(queue[p], [state |-> cs[p].state, mark |-> PresenceMark(cs[p])])
                       ELSE queue[p]]
      BY DEF SubmitPresence
    <2>2. \A p \in Player : queue[p] \in Seq(Job)
      BY DEF TypeOK, Job
    <2> QED
      BY <1>1, <2>1, <2>2
  <1>3. \A p \in Player : Failed(p) \in Message
    BY DEF Failed, Message
  <1>4. PICK msgs \in SUBSET Message : Post(taken, msgs)
    BY <1>3 DEF SubmitPresence
  <1>5. inbox' \subseteq Message /\ lost' \subseteq Message \cup Command
    BY <1>4, PostType DEF TypeOK
  <1> QED
    BY <1>2, <1>5

LEMMA ApplyType ==
    ASSUME TypeOK, NEW ps \in SUBSET Player, NEW to \in State, ApplyPresence(ps, to)
    PROVE  /\ city' \in [Player -> City] /\ dirty' \subseteq Player /\ defect' \in BOOLEAN
           /\ queue' \in [Player -> Seq(Job)]
           /\ inbox' \subseteq Message /\ lost' \subseteq Message \cup Command
  <1> DEFINE asked == {p \in ps : HasCity(p) /\ city[p].state # to}
             moved == {p \in asked : CanTransition(city[p].state, to)}
  <1>1. city' = [p \in Player |-> IF p \in moved THEN Moved(city[p], to) ELSE city[p]]
        /\ dirty' = dirty \ moved /\ defect' = (defect \/ moved # asked)
        /\ SubmitPresence({}, moved, city')
    BY DEF ApplyPresence
  <1>2. city' \in [Player -> City] /\ \A p \in moved : city'[p].state \in State
    BY <1>1, MovedType DEF TypeOK
  <1>3. moved \in SUBSET Player
    OBVIOUS
  <1>4. queue' \in [Player -> Seq(Job)] /\ inbox' \subseteq Message /\ lost' \subseteq Message \cup Command
    <2> HIDE DEF moved
    <2> QED
      BY <1>1, <1>2, <1>3, SubmitType
  <1> QED
    BY <1>1, <1>2, <1>4 DEF TypeOK

LEMMA TypeInit == Init => TypeOK
  <1> SUFFICES ASSUME Init PROVE TypeOK
    OBVIOUS
  <1>1. city \in [Player -> City] /\ queue \in [Player -> Seq(Job)]
    BY AfterBootType DEF Init
  <1>2. TickBudget \in 0..TickBudget
    BY PresenceAssumption
  <1>3. absent \in [Player -> Age] /\ seen \in [Player -> Age] /\ row \in [Player -> City]
    BY Constants DEF Init
  <1>4. /\ conn \in [Session -> {"new", "joining", "joined", "live", "gone"}]
        /\ founding = {} /\ commands = <<>> /\ inbox = {} /\ lost = {}
        /\ phase = "inbox" /\ budget = TickBudget
        /\ sessions \in [Player -> SUBSET Session] /\ early \subseteq Session
        /\ dirty = {} /\ defect = FALSE /\ nFailed = 0 /\ nCrash = 0
    BY DEF Init
  <1>5. commands \in Seq(Command) /\ founding \subseteq Player /\ inbox \subseteq Message
        /\ lost \subseteq Message \cup Command /\ dirty \subseteq Player
        /\ 0 \in Nat /\ FALSE \in BOOLEAN
        /\ phase \in {"inbox", "commands", "grace", "cooldown", "flush"} /\ budget \in 0..TickBudget
    BY <1>2, <1>4
  <1> QED
    BY <1>1, <1>3, <1>4, <1>5 DEF TypeOK, Job

LEMMA DisconnectedType ==
    ASSUME TypeOK, NEW s \in Session, HandleDisconnected(s)
    PROVE  sessions' \in [Player -> SUBSET Session] /\ early' \subseteq Session
           /\ absent' \in [Player -> Age] /\ seen' \in [Player -> Age]
  <1>1. Owner[s] \in Player
    BY Constants
  <1>2. CASE s \notin sessions[Owner[s]]
    BY <1>2 DEF HandleDisconnected, TypeOK
  <1>3. CASE s \in sessions[Owner[s]]
    <2>1. sessions' = [sessions EXCEPT ![Owner[s]] = @ \ {s}] /\ UNCHANGED <<early, seen>>
          /\ (absent' = [absent EXCEPT ![Owner[s]] = 0] \/ absent' = absent)
      BY <1>3 DEF HandleDisconnected
    <2> QED
      BY <1>1, <2>1, Constants DEF TypeOK
  <1> QED
    BY <1>2, <1>3

LEMMA ConnectedType ==
    ASSUME TypeOK, NEW s \in Session, HandleConnected(s)
    PROVE  /\ sessions' \in [Player -> SUBSET Session] /\ early' \subseteq Session
           /\ absent' \in [Player -> Age] /\ seen' \in [Player -> Age]
           /\ city' \in [Player -> City] /\ dirty' \subseteq Player /\ defect' \in BOOLEAN
           /\ queue' \in [Player -> Seq(Job)]
           /\ inbox' \subseteq Message /\ lost' \subseteq Message \cup Command
  <1>1. CASE s \in early
    <2>1. early' = early \ {s} /\ UNCHANGED <<sessions, absent, seen, city, dirty, queue, defect, inbox, lost>>
      BY <1>1 DEF HandleConnected, cities
    <2> QED
      BY <2>1 DEF TypeOK, Job
  <1>2. CASE s \notin early
    <2>1. ApplyPresence({Owner[s]}, "ONLINE")
      BY <1>2 DEF HandleConnected
    <2>2. /\ city' \in [Player -> City] /\ dirty' \subseteq Player /\ defect' \in BOOLEAN
          /\ queue' \in [Player -> Seq(Job)]
          /\ inbox' \subseteq Message /\ lost' \subseteq Message \cup Command
      BY <2>1, ApplyType, Constants DEF State
    <2> QED
      <3>1. /\ sessions' = [sessions EXCEPT ![Owner[s]] = @ \cup {s}] /\ early' = early
            /\ absent' = [absent EXCEPT ![Owner[s]] = Never] /\ seen' = [seen EXCEPT ![Owner[s]] = 0]
        BY <1>2 DEF HandleConnected
      <3>2. sessions' \in [Player -> SUBSET Session]
        BY <3>1 DEF TypeOK
      <3>3. absent' \in [Player -> Age] /\ seen' \in [Player -> Age]
        BY <3>1, Constants DEF TypeOK
      <3> QED
        BY <2>2, <3>1, <3>2, <3>3 DEF TypeOK
  <1> QED
    BY <1>1, <1>2

LEMMA TypeStep == TypeOK /\ [Next]_vars => TypeOK'
  <1> SUFFICES ASSUME TypeOK, [Next]_vars PROVE TypeOK'
    OBVIOUS
  <1> DEFINE Ch == commands \in Seq(Command) /\ inbox \subseteq Message /\ lost \subseteq Message \cup Command
             Conns == conn \in [Session -> {"new", "joining", "joined", "live", "gone"}]
                      /\ founding \subseteq Player
             Tk == phase \in {"inbox", "commands", "grace", "cooldown", "flush"} /\ budget \in 0..TickBudget
             Sim == /\ sessions \in [Player -> SUBSET Session] /\ early \subseteq Session
                    /\ absent \in [Player -> Age] /\ seen \in [Player -> Age]
             Cts == /\ city \in [Player -> City] /\ dirty \subseteq Player /\ defect \in BOOLEAN
                    /\ queue \in [Player -> Seq(Job)]
             Rw == row \in [Player -> City]
             Cn == nFailed \in Nat /\ nCrash \in Nat
  <1>a. Conns /\ Ch /\ Tk /\ Sim /\ Cts /\ Rw /\ Cn
    BY DEF TypeOK, Job
  <1>b. Conns' /\ Ch' /\ Tk' /\ Sim' /\ Cts' /\ Rw' /\ Cn' => TypeOK'
    BY DEF TypeOK, Job
  <1>c. /\ UNCHANGED channels => Ch'
        /\ UNCHANGED tick => Tk'
        /\ UNCHANGED sim => Sim'
        /\ UNCHANGED cities => Cts'
        /\ UNCHANGED row => Rw'
        /\ UNCHANGED counters => Cn'
    BY <1>a DEF channels, tick, sim, cities, counters
  <1>d. TickBudget \in 0..TickBudget
    BY PresenceAssumption
  <1>g. \A m \in Command : Append(commands, m) \in Seq(Command)
    BY <1>a
  <1>e. \A s \in Session : {Connected(s), Disconnected(s), Snapshot(s)} \subseteq Command
        /\ Disconnected(s) \in Message
    BY DEF Connected, Disconnected, Snapshot, Command, Message
  <1>f. \A p \in Player : Introduce(p) \in Command /\ Failed(p) \in Message
    BY DEF Introduce, Failed, Command, Message
  <1>1. ASSUME NEW s \in Session, Open(s) \/ JoinTimeout(s) PROVE TypeOK'
    BY <1>1, <1>a, <1>b, <1>c DEF Open, JoinTimeout
  <1>2. ASSUME NEW s \in Session, Join(s) \/ AskSnapshot(s) PROVE TypeOK'
    <2>1. commands' = commands \/ \E m \in Command : commands' = Append(commands, m)
      BY <1>2, <1>e DEF Join, AskSnapshot
    <2>2. Ch'
      BY <1>2, <2>1, <1>a, <1>g DEF Join, AskSnapshot
    <2>3. Conns'
      BY <1>2, <1>a DEF Join, AskSnapshot
    <2> QED
      BY <1>2, <2>2, <2>3, <1>b, <1>c DEF Join, AskSnapshot
  <1>3. ASSUME NEW s \in Session, Leave(s) PROVE TypeOK'
    <2>1. Ch'
      <3>1. CASE Fits(commands)
        <4>1. commands' = Append(commands, Disconnected(s)) /\ UNCHANGED <<inbox, lost>>
          BY <1>3, <3>1 DEF Leave
        <4> QED
          BY <4>1, <1>a, <1>e
      <3>2. CASE ~Fits(commands)
        <4>1. Post({}, {Disconnected(s)}) /\ UNCHANGED commands
          BY <1>3, <3>2 DEF Leave
        <4> QED
          BY <4>1, PostType, <1>a, <1>e
      <3> QED
        BY <3>1, <3>2
    <2> QED
      BY <1>3, <2>1, <1>a, <1>b, <1>c DEF Leave
  <1>4. ASSUME NEW p \in Player, FoundCommit(p) PROVE TypeOK'
    <2>1. NewCity \in City
      BY Constants DEF NewCity, City, State
    <2> QED
      BY <1>4, <2>1, <1>a, <1>b, <1>c DEF FoundCommit
  <1>5. ASSUME NEW p \in Player, FoundDispatch(p) PROVE TypeOK'
    <2>1. \/ commands' = Append(commands, Introduce(p)) /\ UNCHANGED lost
          \/ commands' = commands /\ lost' = lost \cup {Introduce(p)}
      BY <1>5 DEF FoundDispatch
    <2>2. UNCHANGED inbox /\ Introduce(p) \in Command
      BY <1>5, <1>f DEF FoundDispatch
    <2>3. Ch'
      BY <2>1, <2>2, <1>a, <1>g
    <2>4. Conns'
      BY <1>5, <1>a DEF FoundDispatch
    <2> QED
      BY <1>5, <2>3, <2>4, <1>b, <1>c DEF FoundDispatch
  <1>6. ASSUME DrainInbox PROVE TypeOK'
    <2>1. PICK m \in inbox : inbox' = inbox \ {m} /\ (\/ m.kind = "disconnected" /\ HandleDisconnected(m.session) /\ UNCHANGED cities
                                                      \/ m.kind = "failed" /\ HandlePersistFailed(m.player))
      BY <1>6 DEF DrainInbox
    <2>2. Ch' /\ Tk' /\ Conns' /\ Rw' /\ Cn'
      BY <1>6, <2>1, <1>a, <1>c, PresenceAssumption DEF DrainInbox, Spend
    <2>3. m \in Message
      BY <2>1, <1>a
    <2>4. CASE m.kind = "disconnected" /\ HandleDisconnected(m.session) /\ UNCHANGED cities
      <3>1. m.session \in Session
        BY <2>3, <2>4 DEF Message
      <3>2. Sim'
        BY <2>4, <3>1, DisconnectedType
      <3> QED
        BY <2>2, <2>4, <3>2, <1>b, <1>c
    <2>5. CASE m.kind = "failed" /\ HandlePersistFailed(m.player)
      <3>1. m.player \in Player
        BY <2>3, <2>5 DEF Message
      <3>2. Sim' /\ Cts'
        BY <2>5, <3>1, <1>a, <1>c DEF HandlePersistFailed
      <3> QED
        BY <2>2, <3>2, <1>b
    <2> QED
      BY <2>1, <2>4, <2>5
  <1>7. ASSUME InboxDone \/ CommandsDone \/ EndTick PROVE TypeOK'
    BY <1>7, <1>a, <1>b, <1>c, <1>d DEF InboxDone, CommandsDone, EndTick, Step
  <1>8. ASSUME DrainCommands PROVE TypeOK'
    <2>1. Head(commands) \in Command /\ commands' \in Seq(Command)
      BY <1>8, <1>a DEF DrainCommands
    <2>2. Tk' /\ Conns' /\ Rw' /\ Cn'
      BY <1>8, <1>a, <1>c, PresenceAssumption DEF DrainCommands, Spend
    <2> DEFINE m == Head(commands)
    <2>3. CASE m.kind = "connected" /\ HandleConnected(m.session)
      <3>1. m.session \in Session
        BY <2>1, <2>3 DEF Command
      <3>2. Sim' /\ Cts' /\ inbox' \subseteq Message /\ lost' \subseteq Message \cup Command
        BY <2>3, <3>1, ConnectedType
      <3> QED
        BY <2>1, <2>2, <3>2, <1>b
    <2>4. CASE m.kind = "disconnected" /\ HandleDisconnected(m.session) /\ UNCHANGED <<cities, inbox, lost>>
      <3>1. m.session \in Session
        BY <2>1, <2>4 DEF Command
      <3>2. Sim'
        BY <2>4, <3>1, DisconnectedType
      <3> QED
        BY <2>1, <2>2, <2>4, <3>2, <1>a, <1>b, <1>c
    <2>5. CASE m.kind = "introduce" /\ HandleIntroduce(m.player) /\ UNCHANGED <<inbox, lost>>
      <3>1. NewCity \in City
        BY Constants DEF NewCity, City, State
      <3>2. Cts' /\ Sim'
        BY <2>5, <3>1, <1>a, <1>c DEF HandleIntroduce
      <3> QED
        BY <2>1, <2>2, <2>5, <3>2, <1>a, <1>b
    <2>6. CASE m.kind = "snapshot" /\ UNCHANGED <<sim, cities, inbox, lost>>
      BY <2>1, <2>2, <2>6, <1>a, <1>b, <1>c
    <2> QED
      BY <1>8, <2>3, <2>4, <2>5, <2>6 DEF DrainCommands
  <1>9. ASSUME EndGrace PROVE TypeOK'
    <2>1. PICK over \in SUBSET Player :
            ApplyPresence(over, "OFFLINE_PENDING")
            /\ absent' = [p \in Player |-> IF sessions[p] # {} \/ p \in over THEN Never ELSE absent[p]]
      BY <1>9 DEF EndGrace
    <2>2. Cts' /\ inbox' \subseteq Message /\ lost' \subseteq Message \cup Command
      BY <2>1, ApplyType DEF State
    <2>3. absent' \in [Player -> Age]
      BY <2>1, <1>a, Constants
    <2> QED
      BY <1>9, <2>2, <2>3, <1>a, <1>b, <1>c DEF EndGrace, Step
  <1>10. ASSUME EngageProtection PROVE TypeOK'
    <2>1. PICK ps \in SUBSET Player : ApplyPresence(ps, "PROTECTED")
      BY <1>10 DEF EngageProtection
    <2>2. Cts' /\ inbox' \subseteq Message /\ lost' \subseteq Message \cup Command
      BY <2>1, ApplyType DEF State
    <2> QED
      BY <1>10, <2>2, <1>a, <1>b, <1>c DEF EngageProtection, Step
  <1>11. ASSUME FlushPresence PROVE TypeOK'
    <2>1. PICK ps \in SUBSET Player : ps = {p \in dirty : HasCity(p)} /\ SubmitPresence({}, ps, city)
      BY <1>11, <1>a DEF FlushPresence
    <2>2. \A p \in ps : city[p].state \in State
      BY <2>1, <1>a DEF HasCity, City
    <2>3. queue' \in [Player -> Seq(Job)] /\ inbox' \subseteq Message /\ lost' \subseteq Message \cup Command
      BY <2>1, <2>2, <1>a, SubmitType
    <2> QED
      BY <1>11, <2>3, <1>a, <1>b, <1>c, <1>d DEF FlushPresence, Step
  <1>12. ASSUME ClockTick PROVE TypeOK'
    <2>1. \A c \in City : OlderCity(c) \in City
      BY OlderType DEF OlderCity, City
    <2>2. \A p \in Player : queue'[p] \in Seq(Job)
      <3> SUFFICES ASSUME NEW p \in Player PROVE queue'[p] \in Seq(Job)
        OBVIOUS
      <3>1. queue[p] \in Seq(Job)
        BY <1>a
      <3>2. \A j \in Job : [j EXCEPT !.mark = Older(@)] \in Job
        BY OlderType DEF Job, Age
      <3>3. queue'[p] = [i \in 1..Len(queue[p]) |-> [queue[p][i] EXCEPT !.mark = Older(@)]]
        BY <1>12, <3>1 DEF ClockTick
      <3> QED
        BY <3>1, <3>2, <3>3, \A i \in 1..Len(queue[p]) : queue[p][i] \in Job
    <2>3. Cts' /\ Rw' /\ Sim'
      BY <1>12, <2>1, <2>2, <1>a, OlderType, Constants DEF ClockTick
    <2> QED
      BY <1>12, <2>3, <1>a, <1>b, <1>c DEF ClockTick
  <1>13. ASSUME NEW p \in Player, Write(p) PROVE TypeOK'
    <2>1. Head(queue[p]) \in Job /\ Tail(queue[p]) \in Seq(Job)
      BY <1>13, <1>a DEF Write
    <2>2. SetPresence(row[p], Head(queue[p])) \in City
      BY <2>1, <1>a DEF SetPresence, Job, City, Age
    <2>3. Cts' /\ Rw'
      BY <1>13, <2>1, <2>2, <1>a DEF Write
    <2> QED
      BY <1>13, <2>3, <1>a, <1>b, <1>c DEF Write
  <1>14. ASSUME NEW p \in Player, Fail(p) PROVE TypeOK'
    <2>1. Tail(queue[p]) \in Seq(Job)
      BY <1>14, <1>a DEF Fail
    <2>2. inbox' \subseteq Message /\ lost' \subseteq Message \cup Command
      BY <1>14, PostType, <1>a, <1>f DEF Fail
    <2>3. Cts' /\ Cn'
      BY <1>14, <2>1, <1>a DEF Fail
    <2> QED
      BY <1>14, <2>2, <2>3, <1>a, <1>b, <1>c DEF Fail
  <1>15. ASSUME Restart PROVE TypeOK'
    <2>1. Cts'
      BY <1>15, <1>a, AfterBootType DEF Restart
    <2> QED
      BY <1>15, <2>1, <1>a, <1>b, <1>c, <1>d, Constants DEF Restart
  <1>16. UNCHANGED vars => TypeOK'
    BY <1>a, <1>b, <1>c DEF vars
  <1> QED
    BY <1>1, <1>2, <1>3, <1>4, <1>5, <1>6, <1>7, <1>8, <1>9, <1>10, <1>11, <1>12, <1>13, <1>14, <1>15, <1>16
       DEF Next, Outside, Tick

\* The model is well typed for every value of the constants: in particular a city
\* has a presence job only with a state of its own, never that of a city not founded.
THEOREM PresenceTypeCorrect == Spec => []TypeOK
  BY TypeInit, TypeStep, PTL DEF Spec
-----------------------------------------------------------------------------
(* The story of a session: where its beginning and its end are, and what   *)
(* the loop knows of it.                                                    *)

Line(i, m) == i \in 1..Len(commands) /\ commands[i] = m
InLine(m) == \E i \in Nat : Line(i, m)

\* In the channel each of the two comes once, the beginning first.
InOrder(s) ==
  /\ \A i, j \in Nat : Line(i, Connected(s)) /\ Line(j, Connected(s)) => i = j
  /\ \A i, j \in Nat : Line(i, Disconnected(s)) /\ Line(j, Disconnected(s)) => i = j
  /\ \A i, j \in Nat : Line(i, Connected(s)) /\ Line(j, Disconnected(s)) => i < j

Known(s) == s \in sessions[Owner[s]]
Coming(s) == InLine(Connected(s))
Going(s) == InLine(Disconnected(s)) \/ Disconnected(s) \in inbox

Telling(s) ==
  /\ ~(InLine(Disconnected(s)) /\ Disconnected(s) \in inbox)
  /\ conn[s] \in {"new", "joining"} => ~Coming(s) /\ ~Going(s) /\ ~Known(s) /\ s \notin early
  /\ conn[s] \in {"joined", "live"} => ~Going(s) /\ s \notin early /\ (Coming(s) \/ Known(s))
  /\ Coming(s) => ~Known(s)
  /\ s \in early => Coming(s) /\ ~Going(s)
  /\ Going(s) => Coming(s) \/ Known(s)
  /\ conn[s] = "gone" /\ (Known(s) \/ (Coming(s) /\ s \notin early)) =>
       Going(s) \/ Disconnected(s) \in lost

Told == \A s \in Session : InOrder(s) /\ Telling(s)

LEMMA Distinct ==
    /\ \A s, t : Connected(s) # Disconnected(t) /\ (Connected(s) = Connected(t) => s = t)
    /\ \A s, t : Disconnected(s) = Disconnected(t) => s = t
    /\ \A s, t : Snapshot(s) # Connected(t) /\ Snapshot(s) # Disconnected(t)
    /\ \A p, s : Introduce(p) # Connected(s) /\ Introduce(p) # Disconnected(s)
    /\ \A p, s : Failed(p) # Disconnected(s)
  <1>1. \A s : Connected(s).kind = "connected" /\ Connected(s).session = s
               /\ Disconnected(s).kind = "disconnected" /\ Disconnected(s).session = s
               /\ Snapshot(s).kind = "snapshot"
    BY DEF Connected, Disconnected, Snapshot
  <1>2. \A p : Introduce(p).kind = "introduce" /\ Failed(p).kind = "failed"
    BY DEF Introduce, Failed
  <1> QED
    BY <1>1, <1>2

\* Taking the head moves the rest one place.
LEMMA TailLines ==
    ASSUME TypeOK, commands # <<>>, commands' = Tail(commands)
    PROVE  \A m : \A i \in Nat : Line(i, m)' <=> i > 0 /\ Line(i + 1, m)
  <1>1. commands \in Seq(Command) /\ Len(commands) \in Nat \ {0}
    BY DEF TypeOK
  <1>2. Len(commands') = Len(commands) - 1 /\ \A i \in 1..(Len(commands) - 1) : commands'[i] = commands[i + 1]
    BY <1>1
  <1> QED
    BY <1>1, <1>2 DEF Line

LEMMA AppendLines ==
    ASSUME TypeOK, NEW x \in Command, commands' = Append(commands, x)
    PROVE  \A m : \A i \in Nat : Line(i, m)' <=> Line(i, m) \/ (i = Len(commands) + 1 /\ m = x)
  <1>1. commands \in Seq(Command) /\ Len(commands) \in Nat
    BY DEF TypeOK
  <1>2. Len(commands') = Len(commands) + 1 /\ commands'[Len(commands) + 1] = x
        /\ \A i \in 1..Len(commands) : commands'[i] = commands[i]
    BY <1>1
  <1> QED
    BY <1>1, <1>2 DEF Line

LEMMA LineFacts == ASSUME TypeOK PROVE \A m : \A i \in Nat : Line(i, m) => i \in 1..Len(commands)
  BY DEF Line

\* A step of the channel about something else.
Elsewhere(s) ==
  \/ UNCHANGED commands
  \/ \E x \in Command \ {Connected(s), Disconnected(s)} : commands' = Append(commands, x)
  \/ /\ commands # <<>> /\ commands' = Tail(commands)
     /\ Head(commands) \notin {Connected(s), Disconnected(s)}

LEMMA OrderKept ==
    ASSUME TypeOK, NEW s \in Session, InOrder(s), Elsewhere(s)
    PROVE  InOrder(s)' /\ (Coming(s)' <=> Coming(s)) /\ (InLine(Disconnected(s))' <=> InLine(Disconnected(s)))
  <1>1. CASE UNCHANGED commands
    BY <1>1 DEF InOrder, Coming, InLine, Line
  <1>2. ASSUME NEW x \in Command \ {Connected(s), Disconnected(s)}, commands' = Append(commands, x)
        PROVE  InOrder(s)' /\ (Coming(s)' <=> Coming(s)) /\ (InLine(Disconnected(s))' <=> InLine(Disconnected(s)))
    <2>1. \A i \in Nat : (Line(i, Connected(s))' <=> Line(i, Connected(s)))
                         /\ (Line(i, Disconnected(s))' <=> Line(i, Disconnected(s)))
      BY <1>2, AppendLines
    <2> QED
      BY <2>1 DEF InOrder, Coming, InLine
  <1>3. ASSUME commands # <<>>, commands' = Tail(commands),
               Head(commands) \notin {Connected(s), Disconnected(s)}
        PROVE  InOrder(s)' /\ (Coming(s)' <=> Coming(s)) /\ (InLine(Disconnected(s))' <=> InLine(Disconnected(s)))
    <2> DEFINE M == {Connected(s), Disconnected(s)}
    <2>1. \A m \in M : \A i \in Nat : Line(i, m)' <=> i > 0 /\ Line(i + 1, m)
      BY <1>3, TailLines
    <2>2. \A m \in M : ~Line(1, m) /\ ~Line(0, m)
      BY <1>3 DEF Line, TypeOK
    <2>3. \A m \in M : \A i \in Nat : Line(i, m) => i - 1 \in Nat /\ Line(i - 1, m)'
      <3> SUFFICES ASSUME NEW m \in M, NEW i \in Nat, Line(i, m) PROVE i - 1 \in Nat /\ Line(i - 1, m)'
        OBVIOUS
      <3>1. PICK k \in Nat : k = i - 1 /\ k > 0
        BY <2>2
      <3>2. Line(k, m)'
        BY <2>1, <3>1
      <3> QED
        BY <3>1, <3>2 DEF Line
    <2>4. InOrder(s)'
      BY <2>1 DEF InOrder
    <2>5. \A m \in M : InLine(m)' <=> InLine(m)
      <3> SUFFICES ASSUME NEW m \in M PROVE InLine(m)' <=> InLine(m)
        OBVIOUS
      <3>1. InLine(m)' => InLine(m)
        BY <2>1 DEF InLine
      <3>2. InLine(m) => InLine(m)'
        BY <2>3 DEF InLine
      <3> QED
        BY <3>1, <3>2
    <2> QED
      BY <2>4, <2>5 DEF Coming
  <1> QED
    BY <1>1, <1>2, <1>3 DEF Elsewhere

\* A step that does not concern s.
LEMMA NotConcerned ==
    ASSUME TypeOK, NEW s \in Session, InOrder(s), Telling(s), Elsewhere(s),
           conn'[s] = conn[s], Known(s)' <=> Known(s), s \in early' <=> s \in early,
           Disconnected(s) \in inbox' <=> Disconnected(s) \in inbox,
           Disconnected(s) \in lost => Disconnected(s) \in lost'
    PROVE  InOrder(s)' /\ Telling(s)'
  BY OrderKept DEF Telling, Going

\* Compensations are not ends of sessions.
LEMMA CompensationsOnly ==
    ASSUME NEW ps, NEW cs, SubmitPresence({}, ps, cs), NEW s
    PROVE  /\ Disconnected(s) \in inbox' <=> Disconnected(s) \in inbox
           /\ Disconnected(s) \in lost => Disconnected(s) \in lost'
  <1>1. PICK fits : Post({}, {Failed(p) : p \in ps \ fits})
    BY DEF SubmitPresence
  <1>2. Disconnected(s) \notin {Failed(p) : p \in ps \ fits}
    BY Distinct
  <1> QED
    BY <1>1, <1>2, PostFacts
-----------------------------------------------------------------------------
(* The two handlers.                                                        *)

\* The end of s is handled: it leaves the inbox, or the channel.
LEMMA EndHandled ==
    ASSUME TypeOK, NEW s \in Session, InOrder(s), Telling(s), Going(s), HandleDisconnected(s),
           conn'[s] = conn[s], InOrder(s)', ~Going(s)', Coming(s)' <=> Coming(s),
           InLine(Disconnected(s)) => ~Coming(s) \/ Known(s)
    PROVE  Telling(s)'
  <1>1. conn[s] = "gone"
    BY DEF Telling, TypeOK
  <1>2. CASE Known(s)
    <2>1. sessions'[Owner[s]] = sessions[Owner[s]] \ {s} /\ early' = early
      BY <1>2, Constants DEF HandleDisconnected, Known, TypeOK
    <2> QED
      BY <1>1, <1>2, <2>1 DEF Telling, Known, Going
  <1>3. CASE ~Known(s)
    <2>1. sessions' = sessions /\ early' = early \cup {s} /\ Coming(s)
      BY <1>3 DEF HandleDisconnected, Known, Telling
    <2> QED
      BY <1>1, <1>3, <2>1 DEF Telling, Known, Going
  <1> QED
    BY <1>2, <1>3

\* Handling the end of s says nothing of the others.
LEMMA EndOfAnother ==
    ASSUME TypeOK, NEW s \in Session, NEW t \in Session, t # s, HandleDisconnected(s)
    PROVE  (Known(t)' <=> Known(t)) /\ (t \in early' <=> t \in early)
  <1>1. CASE s \notin sessions[Owner[s]]
    BY <1>1 DEF HandleDisconnected, Known
  <1>2. CASE s \in sessions[Owner[s]]
    <2>1. sessions' = [sessions EXCEPT ![Owner[s]] = @ \ {s}] /\ early' = early
      BY <1>2 DEF HandleDisconnected
    <2> QED
      BY <2>1, Constants DEF Known, TypeOK
  <1> QED
    BY <1>1, <1>2

LEMMA BeginningHandled ==
    ASSUME TypeOK, NEW s \in Session, InOrder(s), Telling(s), Coming(s), HandleConnected(s),
           conn'[s] = conn[s], ~Coming(s)', InLine(Disconnected(s))' <=> InLine(Disconnected(s))
    PROVE  Telling(s)'
  <1>1. conn[s] \in {"joined", "live", "gone"}
    BY DEF Telling, TypeOK
  <1>2. CASE s \in early
    BY <1>1, <1>2 DEF HandleConnected, Telling, Known, Going
  <1>3. CASE s \notin early
    <2>1. Known(s)' /\ s \notin early'
      BY <1>3, Constants DEF HandleConnected, Known, TypeOK
    <2>2. (Disconnected(s) \in inbox' <=> Disconnected(s) \in inbox)
          /\ (Disconnected(s) \in lost => Disconnected(s) \in lost')
      BY <1>3, CompensationsOnly DEF HandleConnected, ApplyPresence
    <2> QED
      BY <1>1, <1>3, <2>1, <2>2 DEF Telling, Going
  <1> QED
    BY <1>2, <1>3

LEMMA BeginningOfAnother ==
    ASSUME TypeOK, NEW s \in Session, NEW t \in Session, t # s, HandleConnected(s)
    PROVE  /\ (Known(t)' <=> Known(t)) /\ (t \in early' <=> t \in early)
           /\ Disconnected(t) \in inbox' <=> Disconnected(t) \in inbox
           /\ Disconnected(t) \in lost => Disconnected(t) \in lost'
  <1>1. CASE s \in early
    BY <1>1 DEF HandleConnected, Known
  <1>2. CASE s \notin early
    <2>1. sessions' = [sessions EXCEPT ![Owner[s]] = @ \cup {s}] /\ early' = early /\ ApplyPresence({Owner[s]}, "ONLINE")
      BY <1>2 DEF HandleConnected
    <2>2. (Known(t)' <=> Known(t)) /\ (t \in early' <=> t \in early)
      BY <2>1, Constants DEF Known, TypeOK
    <2>3. /\ Disconnected(t) \in inbox' <=> Disconnected(t) \in inbox
          /\ Disconnected(t) \in lost => Disconnected(t) \in lost'
      BY <2>1, CompensationsOnly DEF ApplyPresence
    <2> QED
      BY <2>2, <2>3
  <1> QED
    BY <1>1, <1>2

\* The head of the channel, when it is of s, is the first of the two of s.
LEMMA HeadTaken ==
    ASSUME TypeOK, NEW s \in Session, InOrder(s), commands # <<>>, commands' = Tail(commands)
    PROVE  /\ InOrder(s)'
           /\ Head(commands) = Connected(s) =>
                Coming(s) /\ ~Coming(s)' /\ (InLine(Disconnected(s))' <=> InLine(Disconnected(s)))
           /\ Head(commands) = Disconnected(s) =>
                InLine(Disconnected(s)) /\ ~InLine(Disconnected(s))' /\ ~Coming(s) /\ ~Coming(s)'
  <1> DEFINE c == Connected(s)
             d == Disconnected(s)
  <1>1. \A m \in {c, d} : \A i \in Nat : Line(i, m)' <=> i > 0 /\ Line(i + 1, m)
    BY TailLines
  <1>2. InOrder(s)'
    BY <1>1 DEF InOrder
  <1>3. \A m \in {c, d} : Head(commands) = m <=> Line(1, m)
    BY DEF Line, TypeOK
  <1>4. \A m \in {c, d} : \A i \in Nat : Line(i, m) => i > 0
    BY DEF Line
  <1>5. ASSUME Line(1, c) PROVE Coming(s) /\ ~Coming(s)' /\ (InLine(d)' <=> InLine(d))
    <2>1. Coming(s)
      BY <1>5 DEF Coming, InLine
    <2>2. ~Coming(s)'
      <3> SUFFICES ASSUME NEW i \in Nat, Line(i, c)' PROVE FALSE
        BY DEF Coming, InLine
      <3>1. i > 0 /\ i + 1 = 1
        BY <1>1, <1>5 DEF InOrder
      <3> QED
        BY <3>1
    <2>3. InLine(d)' => InLine(d)
      BY <1>1 DEF InLine
    <2>4. InLine(d) => InLine(d)'
      <3> SUFFICES ASSUME NEW i \in Nat, Line(i, d) PROVE InLine(d)'
        BY DEF InLine
      <3>1. i > 1
        BY <1>5 DEF InOrder
      <3>2. PICK k \in Nat : i = k + 1 /\ k > 0
        BY <3>1
      <3>3. Line(k, d)'
        BY <1>1, <3>2
      <3> QED
        BY <3>3 DEF InLine
    <2> QED
      BY <2>1, <2>2, <2>3, <2>4
  <1>6. ASSUME Line(1, d) PROVE InLine(d) /\ ~InLine(d)' /\ ~Coming(s) /\ ~Coming(s)'
    <2>1. InLine(d)
      BY <1>6 DEF InLine
    <2>2. ~InLine(d)'
      <3> SUFFICES ASSUME NEW i \in Nat, Line(i, d)' PROVE FALSE
        BY DEF InLine
      <3>1. i > 0 /\ i + 1 = 1
        BY <1>1, <1>6 DEF InOrder
      <3> QED
        BY <3>1
    <2>3. ~Coming(s)
      <3> SUFFICES ASSUME NEW i \in Nat, Line(i, c) PROVE FALSE
        BY DEF Coming, InLine
      <3>1. i < 1 /\ i > 0
        BY <1>4, <1>6 DEF InOrder
      <3> QED
        BY <3>1
    <2>4. ~Coming(s)'
      BY <1>1, <2>3 DEF Coming, InLine
    <2> QED
      BY <2>1, <2>2, <2>3, <2>4
  <1> QED
    BY <1>2, <1>3, <1>5, <1>6

-----------------------------------------------------------------------------
(* Every step tells the story of every session.                            *)

LEMMA ToldInit == Init => Told
  <1> SUFFICES ASSUME Init, NEW s \in Session PROVE InOrder(s) /\ Telling(s)
    BY DEF Told
  <1>1. \A i \in Nat : \A m : ~Line(i, m)
    BY DEF Init, Line
  <1>2. conn[s] = "new" /\ inbox = {} /\ ~Known(s) /\ s \notin early
    BY Constants DEF Init, Known
  <1> QED
    BY <1>1, <1>2 DEF InOrder, Telling, Coming, Going, InLine

\* Steps that leave the channels alone, and what the loop knows.
LEMMA Apart ==
    ASSUME TypeOK, NEW s \in Session, InOrder(s), Telling(s), UNCHANGED <<commands, sessions, early>>,
           conn'[s] = conn[s],
           Disconnected(s) \in inbox' <=> Disconnected(s) \in inbox,
           Disconnected(s) \in lost => Disconnected(s) \in lost'
    PROVE  InOrder(s)' /\ Telling(s)'
  <1>1. Elsewhere(s) /\ (Known(s)' <=> Known(s)) /\ (s \in early' <=> s \in early)
    BY DEF Elsewhere, Known
  <1> QED
    BY <1>1, NotConcerned

LEMMA ConnectionsTell ==
    ASSUME TypeOK, Told, NEW s \in Session, NEW t \in Session,
           Open(t) \/ Join(t) \/ JoinTimeout(t) \/ AskSnapshot(t) \/ Leave(t)
    PROVE  InOrder(s)' /\ Telling(s)'
  <1>0. InOrder(s) /\ Telling(s) /\ UNCHANGED <<sessions, early>> /\ (Known(s)' <=> Known(s))
    BY DEF Told, Open, Join, JoinTimeout, AskSnapshot, Leave, sim, Known
  <1>m. {Connected(t), Disconnected(t), Snapshot(t)} \subseteq Command
    BY DEF Connected, Disconnected, Snapshot, Command
  <1>1. CASE Open(t) \/ JoinTimeout(t)
    <2>1. UNCHANGED <<commands, inbox, lost>> /\ conn' \in {[conn EXCEPT ![t] = "joining"], [conn EXCEPT ![t] = "gone"]}
      BY <1>1 DEF Open, JoinTimeout, channels
    <2>2. CASE s # t
      BY <1>0, <2>1, <2>2, Apart DEF TypeOK
    <2>3. CASE s = t
      <3>1. conn[s] \in {"new", "joining"} /\ conn'[s] \in {"joining", "gone"}
        BY <1>1, <2>3 DEF Open, JoinTimeout, TypeOK
      <3>2. InOrder(s)' /\ (Coming(s)' <=> Coming(s)) /\ (InLine(Disconnected(s))' <=> InLine(Disconnected(s)))
        BY <1>0, <2>1, OrderKept DEF Elsewhere
      <3> QED
        BY <1>0, <2>1, <3>1, <3>2 DEF Telling, Going
    <2> QED
      BY <2>2, <2>3
  <1>2. CASE Join(t)
    <2>1. commands' = Append(commands, Connected(t)) /\ UNCHANGED <<inbox, lost>>
          /\ conn[t] = "joining" /\ conn' = [conn EXCEPT ![t] = "joined"]
      BY <1>2 DEF Join
    <2>2. CASE s # t
      <3>1. Elsewhere(s)
        BY <1>m, <2>1, <2>2, Distinct DEF Elsewhere
      <3> QED
        BY <1>0, <2>1, <2>2, <3>1, NotConcerned DEF TypeOK
    <2>3. CASE s = t
      <3>1. \A i \in Nat : /\ Line(i, Connected(s))' <=> Line(i, Connected(s)) \/ i = Len(commands) + 1
                           /\ Line(i, Disconnected(s))' <=> Line(i, Disconnected(s))
        BY <1>m, <2>1, <2>3, AppendLines, Distinct
      <3>2. ~Coming(s) /\ ~Going(s) /\ ~Known(s) /\ s \notin early
        BY <1>0, <2>1, <2>3 DEF Telling
      <3>3. \A i \in Nat : ~Line(i, Connected(s)) /\ ~Line(i, Disconnected(s))
        BY <3>2 DEF Coming, Going, InLine
      <3>4. Len(commands) + 1 \in Nat
        BY DEF TypeOK
      <3>5. InOrder(s)' /\ Coming(s)' /\ ~InLine(Disconnected(s))'
        BY <3>1, <3>3, <3>4 DEF InOrder, Coming, InLine
      <3>6. conn'[s] = "joined"
        BY <2>1, <2>3 DEF TypeOK
      <3> QED
        BY <1>0, <2>1, <3>2, <3>5, <3>6 DEF Telling, Going
    <2> QED
      BY <2>2, <2>3
  <1>3. CASE AskSnapshot(t)
    <2>1. (UNCHANGED commands \/ commands' = Append(commands, Snapshot(t))) /\ UNCHANGED <<inbox, lost>>
          /\ conn[t] = "joined" /\ conn' = [conn EXCEPT ![t] = "live"]
      BY <1>3 DEF AskSnapshot
    <2>2. Elsewhere(s)
      BY <1>m, <2>1, Distinct DEF Elsewhere
    <2>3. CASE s # t
      BY <1>0, <2>1, <2>2, <2>3, NotConcerned DEF TypeOK
    <2>4. CASE s = t
      <3>1. conn[s] = "joined" /\ conn'[s] = "live"
        BY <2>1, <2>4 DEF TypeOK
      <3> QED
        BY <1>0, <2>1, <2>2, <3>1, OrderKept DEF Telling, Going
    <2> QED
      BY <2>3, <2>4
  <1>4. CASE Leave(t)
    <2>1. conn[t] = "live" /\ conn' = [conn EXCEPT ![t] = "gone"]
          /\ \/ commands' = Append(commands, Disconnected(t)) /\ UNCHANGED <<inbox, lost>>
             \/ Post({}, {Disconnected(t)}) /\ UNCHANGED commands
      BY <1>4 DEF Leave
    <2>p. Post({}, {Disconnected(t)}) =>
            /\ \A m : m # Disconnected(t) => (m \in inbox' <=> m \in inbox)
            /\ \A m \in lost : m \in lost'
            /\ Disconnected(t) \in inbox' \cup lost'
      BY PostFacts
    <2>2. CASE s # t
      <3>1. Elsewhere(s)
        BY <1>m, <2>1, <2>2, Distinct DEF Elsewhere
      <3>2. (Disconnected(s) \in inbox' <=> Disconnected(s) \in inbox)
            /\ (Disconnected(s) \in lost => Disconnected(s) \in lost')
        BY <2>1, <2>2, <2>p, Distinct
      <3> QED
        BY <1>0, <2>1, <2>2, <3>1, <3>2, NotConcerned DEF TypeOK
    <2>3. CASE s = t
      <3>1. ~Going(s) /\ s \notin early /\ (Coming(s) \/ Known(s)) /\ (Coming(s) => ~Known(s))
        BY <1>0, <2>1, <2>3 DEF Telling
      <3>2. conn'[s] = "gone"
        BY <2>1, <2>3 DEF TypeOK
      <3>3. CASE commands' = Append(commands, Disconnected(s)) /\ UNCHANGED <<inbox, lost>>
        <4>1. \A i \in Nat : /\ Line(i, Connected(s))' <=> Line(i, Connected(s))
                             /\ Line(i, Disconnected(s))' <=> Line(i, Disconnected(s)) \/ i = Len(commands) + 1
          BY <1>m, <2>3, <3>3, AppendLines, Distinct
        <4>2. \A i \in Nat : ~Line(i, Disconnected(s)) /\ (Line(i, Connected(s)) => i < Len(commands) + 1)
          BY <3>1 DEF Going, InLine, Line, TypeOK
        <4>3. Len(commands) + 1 \in Nat
          BY DEF TypeOK
        <4>4. InOrder(s)' /\ (Coming(s)' <=> Coming(s)) /\ InLine(Disconnected(s))'
          BY <1>0, <4>1, <4>2, <4>3 DEF InOrder, Coming, InLine
        <4> QED
          BY <1>0, <3>1, <3>2, <3>3, <4>4 DEF Telling, Going
      <3>4. CASE Post({}, {Disconnected(s)}) /\ UNCHANGED commands
        <4>1. InOrder(s)' /\ (Coming(s)' <=> Coming(s)) /\ (InLine(Disconnected(s))' <=> InLine(Disconnected(s)))
          BY <1>0, <3>4, OrderKept DEF Elsewhere
        <4>2. Disconnected(s) \in inbox' \cup lost'
          BY <2>3, <2>p, <3>4
        <4> QED
          BY <1>0, <3>1, <3>2, <4>1, <4>2 DEF Telling, Going
      <3> QED
        BY <2>1, <2>3, <3>3, <3>4
    <2> QED
      BY <2>2, <2>3
  <1> QED
    BY <1>1, <1>2, <1>3, <1>4

LEMMA InboxTells == ASSUME TypeOK, Told, NEW s \in Session, DrainInbox PROVE InOrder(s)' /\ Telling(s)'
  <1>0. InOrder(s) /\ Telling(s) /\ UNCHANGED <<conn, commands, lost>>
    BY DEF Told, DrainInbox
  <1>1. PICK m \in Message :
          /\ m \in inbox /\ inbox' = inbox \ {m}
          /\ \/ m.kind = "disconnected" /\ HandleDisconnected(m.session)
             \/ m.kind = "failed" /\ HandlePersistFailed(m.player)
    BY DEF DrainInbox, TypeOK
  <1>2. CASE m.kind = "failed" /\ HandlePersistFailed(m.player)
    <2>1. m # Disconnected(s) /\ UNCHANGED <<sessions, early>>
      BY <1>2 DEF HandlePersistFailed, Disconnected, sim
    <2> QED
      BY <1>0, <1>1, <2>1, Apart
  <1>3. CASE m.kind = "disconnected" /\ HandleDisconnected(m.session)
    <2>1. PICK t \in Session : m = Disconnected(t) /\ HandleDisconnected(t)
      BY <1>3 DEF Message, Disconnected
    <2>2. CASE t # s
      <3>1. Disconnected(s) \in inbox' <=> Disconnected(s) \in inbox
        BY <1>1, <2>1, <2>2, Distinct
      <3>2. (Known(s)' <=> Known(s)) /\ (s \in early' <=> s \in early)
        BY <2>1, <2>2, EndOfAnother
      <3>3. Elsewhere(s)
        BY <1>0 DEF Elsewhere
      <3> QED
        BY <1>0, <3>1, <3>2, <3>3, NotConcerned
    <2>3. CASE t = s
      <3>1. Going(s) /\ ~InLine(Disconnected(s)) /\ Disconnected(s) \notin inbox'
        BY <1>0, <1>1, <2>1, <2>3 DEF Going, Telling
      <3>2. InOrder(s)' /\ (Coming(s)' <=> Coming(s)) /\ ~InLine(Disconnected(s))'
        BY <1>0, <3>1, OrderKept DEF Elsewhere
      <3>3. ~Going(s)'
        BY <3>1, <3>2 DEF Going
      <3> QED
        BY <1>0, <2>1, <2>3, <3>1, <3>2, <3>3, EndHandled
    <2> QED
      BY <2>2, <2>3
  <1> QED
    BY <1>1, <1>2, <1>3

LEMMA CommandsTell == ASSUME TypeOK, Told, NEW s \in Session, DrainCommands PROVE InOrder(s)' /\ Telling(s)'
  <1>0. InOrder(s) /\ Telling(s) /\ UNCHANGED conn /\ commands # <<>> /\ commands' = Tail(commands)
    BY DEF Told, DrainCommands
  <1>1. PICK m \in Command :
          /\ m = Head(commands)
          /\ \/ m.kind = "connected" /\ HandleConnected(m.session)
             \/ m.kind = "disconnected" /\ HandleDisconnected(m.session) /\ UNCHANGED <<inbox, lost>>
             \/ m.kind = "introduce" /\ HandleIntroduce(m.player) /\ UNCHANGED <<inbox, lost>>
             \/ m.kind = "snapshot" /\ UNCHANGED <<sim, inbox, lost>>
    BY DEF DrainCommands, TypeOK
  <1>2. m \notin {Connected(s), Disconnected(s)} => Elsewhere(s)
    BY <1>0, <1>1 DEF Elsewhere
  <1>3. CASE m.kind = "connected" /\ HandleConnected(m.session)
    <2>1. PICK t \in Session : m = Connected(t) /\ HandleConnected(t)
      BY <1>3 DEF Command, Connected
    <2>2. CASE t # s
      <3>1. Elsewhere(s)
        BY <1>2, <2>1, <2>2, Distinct
      <3> QED
        BY <1>0, <2>1, <2>2, <3>1, BeginningOfAnother, NotConcerned
    <2>3. CASE t = s
      <3>1. InOrder(s)' /\ Coming(s) /\ ~Coming(s)' /\ (InLine(Disconnected(s))' <=> InLine(Disconnected(s)))
        BY <1>0, <1>1, <2>1, <2>3, HeadTaken
      <3> QED
        BY <1>0, <2>1, <2>3, <3>1, BeginningHandled
    <2> QED
      BY <2>2, <2>3
  <1>4. CASE m.kind = "disconnected" /\ HandleDisconnected(m.session) /\ UNCHANGED <<inbox, lost>>
    <2>1. PICK t \in Session : m = Disconnected(t) /\ HandleDisconnected(t)
      BY <1>4 DEF Command, Disconnected
    <2>2. CASE t # s
      <3>1. Elsewhere(s)
        BY <1>2, <2>1, <2>2, Distinct
      <3> QED
        BY <1>0, <1>4, <2>1, <2>2, <3>1, EndOfAnother, NotConcerned
    <2>3. CASE t = s
      <3>1. InOrder(s)' /\ InLine(Disconnected(s)) /\ ~InLine(Disconnected(s))' /\ ~Coming(s) /\ ~Coming(s)'
        BY <1>0, <1>1, <2>1, <2>3, HeadTaken
      <3>2. Going(s) /\ ~Going(s)'
        BY <1>0, <1>4, <3>1 DEF Telling, Going
      <3> QED
        BY <1>0, <2>1, <2>3, <3>1, <3>2, EndHandled
    <2> QED
      BY <2>2, <2>3
  <1>5. CASE m.kind \in {"introduce", "snapshot"} /\ UNCHANGED <<sessions, early, inbox, lost>>
    <2>1. m \notin {Connected(s), Disconnected(s)}
      BY <1>5 DEF Connected, Disconnected
    <2>2. (Known(s)' <=> Known(s)) /\ (s \in early' <=> s \in early)
      BY <1>5 DEF Known
    <2> QED
      BY <1>0, <1>2, <1>5, <2>1, <2>2, NotConcerned
  <1> QED
    BY <1>1, <1>3, <1>4, <1>5 DEF HandleIntroduce, sim

LEMMA ToldStep == TypeOK /\ Told /\ [Next]_vars => Told'
  <1> SUFFICES ASSUME TypeOK, Told, [Next]_vars, NEW s \in Session PROVE InOrder(s)' /\ Telling(s)'
    BY DEF Told
  <1>0. InOrder(s) /\ Telling(s)
    BY DEF Told
  <1>1. ASSUME NEW t \in Session, Open(t) \/ Join(t) \/ JoinTimeout(t) \/ AskSnapshot(t) \/ Leave(t)
        PROVE  InOrder(s)' /\ Telling(s)'
    BY <1>1, ConnectionsTell
  <1>2. CASE UNCHANGED <<conn, channels, sim>>
    BY <1>0, <1>2, Apart DEF channels, sim
  <1>3. ASSUME NEW p \in Player, FoundDispatch(p) PROVE InOrder(s)' /\ Telling(s)'
    <2>1. UNCHANGED <<conn, inbox, sessions, early>> /\ \A m \in lost : m \in lost'
      BY <1>3 DEF FoundDispatch, sim
    <2>2. Introduce(p) \in Command \ {Connected(s), Disconnected(s)}
      BY Distinct DEF Introduce, Command
    <2>3. Elsewhere(s)
      BY <1>3, <2>2 DEF FoundDispatch, Elsewhere
    <2>4. (Known(s)' <=> Known(s)) /\ (s \in early' <=> s \in early)
      BY <2>1 DEF Known
    <2> QED
      BY <1>0, <2>1, <2>3, <2>4, NotConcerned
  <1>4. CASE EndGrace \/ EngageProtection \/ FlushPresence
    <2>1. \E ps, cs : SubmitPresence({}, ps, cs)
      BY <1>4 DEF EndGrace, EngageProtection, FlushPresence, ApplyPresence
    <2>2. /\ Disconnected(s) \in inbox' <=> Disconnected(s) \in inbox
          /\ Disconnected(s) \in lost => Disconnected(s) \in lost'
      BY <2>1, CompensationsOnly
    <2>3. UNCHANGED <<conn, commands, sessions, early>>
      BY <1>4 DEF EndGrace, EngageProtection, FlushPresence, sim
    <2> QED
      BY <1>0, <2>2, <2>3, Apart
  <1>5. ASSUME NEW p \in Player, Fail(p) PROVE InOrder(s)' /\ Telling(s)'
    <2>1. UNCHANGED <<conn, commands, sessions, early>> /\ Post({}, {Failed(p)})
      BY <1>5 DEF Fail, sim
    <2>2. Disconnected(s) \notin {Failed(p)}
      BY Distinct
    <2>3. /\ Disconnected(s) \in inbox' <=> Disconnected(s) \in inbox
          /\ Disconnected(s) \in lost => Disconnected(s) \in lost'
      BY <2>1, <2>2, PostFacts
    <2> QED
      BY <1>0, <2>1, <2>3, Apart
  <1>6. CASE Restart
    <2>1. \A i \in Nat : \A m : ~Line(i, m)'
      BY <1>6 DEF Restart, Line
    <2>2. conn'[s] \in {"new", "gone"} /\ inbox' = {} /\ ~Known(s)' /\ s \notin early'
      BY <1>6, Constants DEF Restart, Known
    <2> QED
      BY <2>1, <2>2 DEF InOrder, Telling, Coming, Going, InLine
  <1>7. CASE ClockTick
    BY <1>0, <1>7, Apart DEF ClockTick, channels
  <1>8. CASE InboxDone \/ CommandsDone \/ EndTick \/ \E p \in Player : FoundCommit(p) \/ Write(p)
    BY <1>2, <1>8 DEF InboxDone, CommandsDone, EndTick, FoundCommit, Write
  <1>9. CASE UNCHANGED vars
    BY <1>2, <1>9 DEF vars
  <1> QED
    BY <1>1, <1>3, <1>4, <1>5, <1>6, <1>7, <1>8, <1>9, InboxTells, CommandsTell DEF Next, Outside, Tick
-----------------------------------------------------------------------------
(* A city whose owner has a session is exposed.                            *)

LEMMA Moves ==
    ASSUME TypeOK, NEW ps \in SUBSET Player, NEW to \in State, ApplyPresence(ps, to), NEW p \in Player
    PROVE  /\ p \notin ps => city'[p] = city[p]
           /\ city'[p].state \in {city[p].state, to}
           /\ p \in ps /\ HasCity(p) /\ CanTransition(city[p].state, to) => city'[p].state = to
           /\ ~HasCity(p) => city'[p] = city[p]
  <1> DEFINE asked == {q \in ps : HasCity(q) /\ city[q].state # to}
             moved == {q \in asked : CanTransition(city[q].state, to)}
  <1>1. city'[p] = IF p \in moved THEN Moved(city[p], to) ELSE city[p]
    BY DEF ApplyPresence
  <1>2. city[p] \in City
    BY DEF TypeOK
  <1>3. Moved(city[p], to).state = to
    BY <1>2, MovedType
  <1> QED
    BY <1>1, <1>3

LEMMA ExposedInit == Init => CountedIsOnline
  BY DEF Init, CountedIsOnline

LEMMA ExposedStep == TypeOK /\ CountedIsOnline /\ [Next]_vars => CountedIsOnline'
  <1> SUFFICES ASSUME TypeOK, CountedIsOnline, [Next]_vars, NEW p \in Player,
                      sessions'[p] # {}, city'[p].state # "none"
               PROVE  city'[p].state = "ONLINE"
    BY DEF CountedIsOnline, HasCity
  <1>1. CASE UNCHANGED <<sessions, city>>
    BY <1>1 DEF CountedIsOnline, HasCity
  <1>2. ASSUME NEW s \in Session, HandleDisconnected(s), UNCHANGED city PROVE city'[p].state = "ONLINE"
    <2>1. sessions[p] # {}
      <3>1. CASE s \notin sessions[Owner[s]]
        BY <1>2, <3>1 DEF HandleDisconnected
      <3>2. CASE s \in sessions[Owner[s]]
        <4>1. sessions' = [sessions EXCEPT ![Owner[s]] = @ \ {s}]
          BY <1>2, <3>2 DEF HandleDisconnected
        <4> QED
          BY <4>1, Constants DEF TypeOK
      <3> QED
        BY <3>1, <3>2
    <2> QED
      BY <1>2, <2>1 DEF CountedIsOnline, HasCity
  <1>3. ASSUME NEW s \in Session, HandleConnected(s) PROVE city'[p].state = "ONLINE"
    <2>1. CASE s \in early
      BY <1>1, <1>3, <2>1 DEF HandleConnected, cities
    <2>2. CASE s \notin early
      <3>1. sessions' = [sessions EXCEPT ![Owner[s]] = @ \cup {s}] /\ ApplyPresence({Owner[s]}, "ONLINE")
        BY <1>3, <2>2 DEF HandleConnected
      <3>2. {Owner[s]} \in SUBSET Player /\ "ONLINE" \in State
        BY Constants DEF State
      <3>3. city[p].state # "none" /\ city[p].state \in State
        <4>1. city[p].state = "none" => city'[p] = city[p]
          BY <3>1, <3>2, Moves DEF HasCity
        <4>2. city[p].state \in State \cup {"none"}
          BY DEF TypeOK, City
        <4> QED
          BY <4>1, <4>2
      <3>4. CASE p = Owner[s]
        <4>1. CanTransition(city[p].state, "ONLINE")
          BY <3>3 DEF CanTransition, State
        <4> QED
          BY <3>1, <3>2, <3>3, <3>4, <4>1, Moves DEF HasCity
      <3>5. CASE p # Owner[s]
        <4>1. sessions'[p] = sessions[p]
          BY <3>1, <3>5 DEF TypeOK
        <4>2. p \notin {Owner[s]}
          BY <3>5
        <4>3. city'[p] = city[p]
          BY <3>1, <3>2, <4>2, Moves
        <4> QED
          BY <4>1, <4>3 DEF CountedIsOnline, HasCity
      <3> QED
        BY <3>4, <3>5
    <2> QED
      BY <2>1, <2>2
  <1>4. CASE DrainInbox
    <2>1. PICK m \in Message : \/ m.kind = "disconnected" /\ HandleDisconnected(m.session) /\ UNCHANGED cities
                               \/ m.kind = "failed" /\ HandlePersistFailed(m.player)
      BY <1>4 DEF DrainInbox, TypeOK
    <2> QED
      BY <1>1, <1>2, <2>1 DEF Message, cities, HandlePersistFailed, sim
  <1>5. CASE DrainCommands
    <2>1. PICK m \in Command :
            \/ m.kind = "connected" /\ HandleConnected(m.session)
            \/ m.kind = "disconnected" /\ HandleDisconnected(m.session) /\ UNCHANGED cities
            \/ m.kind = "introduce" /\ HandleIntroduce(m.player)
            \/ m.kind = "snapshot" /\ UNCHANGED <<sim, cities>>
      BY <1>5 DEF DrainCommands, TypeOK
    <2>2. CASE m.kind = "introduce" /\ HandleIntroduce(m.player)
      <3>1. m.player \in Player /\ UNCHANGED sessions /\ city' = [city EXCEPT ![m.player] = NewCity]
        BY <2>2 DEF HandleIntroduce, sim, Command
      <3>2. city'[p] = city[p] \/ city'[p].state = "ONLINE"
        BY <3>1 DEF TypeOK, NewCity
      <3> QED
        BY <3>1, <3>2 DEF CountedIsOnline, HasCity
    <2>3. CASE m.kind = "snapshot" /\ UNCHANGED <<sim, cities>>
      BY <1>1, <2>3 DEF sim, cities
    <2>4. CASE m.kind = "connected" /\ HandleConnected(m.session)
      BY <1>3, <2>4 DEF Command
    <2>5. CASE m.kind = "disconnected" /\ HandleDisconnected(m.session) /\ UNCHANGED cities
      BY <1>2, <2>5 DEF Command, cities
    <2> QED
      BY <2>1, <2>2, <2>3, <2>4, <2>5
  <1>6. CASE EndGrace
    <2>1. PICK over \in SUBSET Player : ApplyPresence(over, "OFFLINE_PENDING") /\ \A q \in over : sessions[q] = {}
      BY <1>6 DEF EndGrace
    <2>2. UNCHANGED sessions /\ p \notin over
      BY <1>6, <2>1 DEF EndGrace
    <2>3. city'[p] = city[p]
      BY <2>1, <2>2, Moves DEF State
    <2> QED
      BY <2>2, <2>3 DEF CountedIsOnline, HasCity
  <1>7. CASE EngageProtection
    <2>1. PICK ps \in SUBSET Player :
            ApplyPresence(ps, "PROTECTED") /\ \A q \in ps : city[q].state = "OFFLINE_PENDING"
      BY <1>7 DEF EngageProtection, ShouldEngageProtection
    <2>2. UNCHANGED sessions
      BY <1>7 DEF EngageProtection, sim
    <2>3. p \notin ps
      BY <2>1, <2>2 DEF CountedIsOnline, HasCity
    <2>4. city'[p] = city[p]
      BY <2>1, <2>3, Moves DEF State
    <2> QED
      BY <2>2, <2>4 DEF CountedIsOnline, HasCity
  <1>8. CASE ClockTick
    <2>1. UNCHANGED sessions /\ city'[p] = OlderCity(city[p]) /\ city[p] \in City
      BY <1>8 DEF ClockTick, TypeOK
    <2>2. city'[p].state = city[p].state
      BY <2>1 DEF OlderCity, City
    <2> QED
      BY <2>1, <2>2 DEF CountedIsOnline, HasCity
  <1>9. CASE Restart
    BY <1>9 DEF Restart
  <1>10. CASE InboxDone \/ CommandsDone \/ EndTick \/ FlushPresence \/ \E q \in Player : Write(q) \/ Fail(q)
    BY <1>1, <1>10 DEF InboxDone, CommandsDone, EndTick, FlushPresence, Write, Fail, sim, cities
  <1>11. CASE Outside
    BY <1>1, <1>11 DEF Outside, Open, Join, JoinTimeout, AskSnapshot, Leave, FoundCommit, FoundDispatch, sim, cities
  <1>12. CASE UNCHANGED vars
    BY <1>1, <1>12 DEF vars, sim, cities
  <1> QED
    BY <1>4, <1>5, <1>6, <1>7, <1>8, <1>9, <1>10, <1>11, <1>12 DEF Next, Tick
-----------------------------------------------------------------------------
(* What follows.                                                           *)

LEMMA InLinePending == TypeOK => \A m : InLine(m) <=> m \in Pending
  <1> SUFFICES ASSUME TypeOK, NEW m PROVE InLine(m) <=> m \in Pending
    OBVIOUS
  <1>1. DOMAIN commands = 1..Len(commands) /\ Len(commands) \in Nat
    BY DEF TypeOK
  <1> QED
    BY <1>1 DEF InLine, Line, Pending

LEMMA ToldCounts == TypeOK /\ Told => LiveSessionCounted /\ NoPhantomSession
  <1> SUFFICES ASSUME TypeOK, Told, NEW s \in Session
               PROVE  /\ conn[s] \in {"joined", "live"} /\ Connected(s) \notin Pending => s \in sessions[Owner[s]]
                      /\ conn[s] = "gone"
                         /\ {Connected(s), Disconnected(s)} \cap (Pending \cup inbox \cup lost) = {}
                           => s \notin sessions[Owner[s]] \cup early
    BY DEF LiveSessionCounted, NoPhantomSession
  <1>1. Telling(s) /\ (Coming(s) <=> Connected(s) \in Pending) /\ (InLine(Disconnected(s)) <=> Disconnected(s) \in Pending)
    BY InLinePending DEF Told, Coming
  <1> QED
    BY <1>1 DEF Telling, Going, Known

\* RN-PRESENCE-022 and 023 and the first half of INV-CITY-014, whatever the order in
\* which the two bounded channels deliver the beginnings and the ends of any number of
\* sessions, and whatever they drop: a live session whose beginning was applied is
\* counted, one whose end was applied leaves nothing behind, and no city is protected
\* while its owner is counted.
THEOREM SessionsAreCounted == Spec => []SessionsCounted
  <1>1. Init => TypeOK /\ Told /\ CountedIsOnline
    BY TypeInit, ToldInit, ExposedInit
  <1>2. TypeOK /\ Told /\ CountedIsOnline /\ [Next]_vars => (TypeOK /\ Told /\ CountedIsOnline)'
    BY TypeStep, ToldStep, ExposedStep
  <1>3. TypeOK /\ Told /\ CountedIsOnline => SessionsCounted
    BY ToldCounts DEF SessionsCounted
  <1> QED
    BY <1>1, <1>2, <1>3, PTL DEF Spec
-----------------------------------------------------------------------------
(* The row of a city, the jobs that write it and what RAM says.            *)

\* What applyPresence and flushPresence write of a city.
JobOf(c) == [state |-> c.state, mark |-> PresenceMark(c)]
Says(j, c) == j.state = c.state /\ (c.state # "ONLINE" => j.mark = c.offline)
Same(r, c) == r.state = c.state /\ (c.state # "ONLINE" => r.offline = c.offline)

Earned(c) ==
  /\ c.state \in {"OFFLINE_PENDING", "PROTECTED"} => c.offline # Never
  /\ c.state = "PROTECTED" => c.offline >= Cooldown
EarnedJob(j) == j.state = "PROTECTED" => j.mark >= Cooldown

\* The last job says what RAM says, or the row does, or a write is to be repeated.
Owing(p) == p \in dirty \/ Failed(p) \in inbox \cup lost
Follows(p) ==
  \/ Owing(p)
  \/ queue[p] # <<>> /\ Says(queue[p][Len(queue[p])], city[p])
  \/ queue[p] = <<>> /\ Same(row[p], city[p])

Written(p) ==
  /\ Earned(city[p]) /\ Earned(row[p])
  /\ \A i \in 1..Len(queue[p]) : EarnedJob(queue[p][i])
  /\ HasCity(p) => Follows(p)

\* A city is in the database before it is in RAM, as the foundation left it, and its
\* introduction comes once.
OnceInLine(p) == \A i, j \in Nat : Line(i, Introduce(p)) /\ Line(j, Introduce(p)) => i = j
Introduced(p) ==
  /\ HasCity(p) => row[p].state # "none"
  /\ ~HasCity(p) => queue[p] = <<>>
  /\ p \in founding \/ InLine(Introduce(p)) => ~HasCity(p) /\ row[p] = NewCity
  /\ p \in founding => ~InLine(Introduce(p))
  /\ OnceInLine(p)

Cities == \A p \in Player : Written(p) /\ Introduced(p)

\* A step that leaves the city alone.
LEMMA WrittenKept ==
    ASSUME NEW p \in Player, Written(p), city'[p] = city[p], row'[p] = row[p], queue'[p] = queue[p],
           Owing(p) => Owing(p)'
    PROVE  Written(p)'
  BY DEF Written, Follows, HasCity

LEMMA IntroducedKept ==
    ASSUME NEW p \in Player, Introduced(p), HasCity(p)' <=> HasCity(p), queue'[p] = queue[p], row'[p] = row[p],
           p \in founding' <=> p \in founding, InLine(Introduce(p))' => InLine(Introduce(p)), OnceInLine(p)'
    PROVE  Introduced(p)'
  BY DEF Introduced

\* Once a city is in RAM its foundation is over: only its row and its jobs matter.
LEMMA IntroducedCity ==
    ASSUME NEW p \in Player, Introduced(p), HasCity(p), HasCity(p)', row'[p].state # "none",
           p \in founding' <=> p \in founding, InLine(Introduce(p))' => InLine(Introduce(p)), OnceInLine(p)'
    PROVE  Introduced(p)'
  BY DEF Introduced

LEMMA LinesKept ==
    ASSUME NEW p, OnceInLine(p), UNCHANGED commands
    PROVE  OnceInLine(p)' /\ (InLine(Introduce(p))' => InLine(Introduce(p)))
  BY DEF OnceInLine, InLine, Line

\* Another command joins the channel, or leaves it.
LEMMA LinesOfAnother ==
    ASSUME TypeOK, NEW p \in Player, OnceInLine(p), NEW x \in Command, x # Introduce(p),
           \/ commands' = Append(commands, x)
           \/ commands # <<>> /\ commands' = Tail(commands)
    PROVE  OnceInLine(p)' /\ (InLine(Introduce(p))' => InLine(Introduce(p)))
  <1>1. CASE commands' = Append(commands, x)
    <2>1. \A i \in Nat : Line(i, Introduce(p))' <=> Line(i, Introduce(p))
      BY <1>1, AppendLines
    <2> QED
      BY <2>1 DEF OnceInLine, InLine
  <1>2. CASE commands # <<>> /\ commands' = Tail(commands)
    <2>1. \A i \in Nat : Line(i, Introduce(p))' <=> i > 0 /\ Line(i + 1, Introduce(p))
      BY <1>2, TailLines
    <2>2. \A i \in Nat : i + 1 \in Nat
      OBVIOUS
    <2>3. InLine(Introduce(p))' => InLine(Introduce(p))
      BY <2>1, <2>2 DEF InLine
    <2>4. \A i, j \in Nat : i + 1 = j + 1 => i = j
      OBVIOUS
    <2>5. OnceInLine(p)'
      BY <2>1, <2>2, <2>4 DEF OnceInLine
    <2> QED
      BY <2>3, <2>5
  <1> QED
    BY <1>1, <1>2

LEMMA OwingKept ==
    ASSUME NEW p, UNCHANGED <<dirty, inbox, lost>> PROVE Owing(p) => Owing(p)'
  BY DEF Owing

LEMMA OwingPosted ==
    ASSUME NEW msgs, Post({}, msgs), NEW p PROVE Failed(p) \in inbox \cup lost => Failed(p) \in inbox' \cup lost'
  BY PostFacts

LEMMA JobEarned ==
    ASSUME NEW c \in City, Earned(c), c.state # "none"
    PROVE  EarnedJob(JobOf(c)) /\ Says(JobOf(c), c) /\ JobOf(c) \in Job
  <1>1. PICK m \in 0..Horizon : m = PresenceMark(c)
    BY MarkType
  <1>2. JobOf(c).state = c.state /\ JobOf(c).mark = m /\ JobOf(c) \in Job
    BY <1>1 DEF JobOf, City, Job
  <1>3. c.state # "ONLINE" => m = c.offline /\ (c.state = "PROTECTED" => m >= Cooldown)
    BY <1>1 DEF PresenceMark, Earned, City, State
  <1> QED
    BY <1>2, <1>3 DEF EarnedJob, Says

\* A city whose current state is submitted.
LEMMA SubmittedOne ==
    ASSUME TypeOK, NEW ps \in SUBSET Player, NEW cs, SubmitPresence({}, ps, cs), NEW p \in Player
    PROVE  /\ p \notin ps => queue'[p] = queue[p]
           /\ p \in ps => \/ queue'[p] = Append(queue[p], JobOf(cs[p]))
                          \/ queue'[p] = queue[p] /\ Failed(p) \in inbox' \cup lost'
           /\ Failed(p) \in inbox \cup lost => Failed(p) \in inbox' \cup lost'
  <1>1. PICK fits \in SUBSET ps :
          /\ queue' = [q \in Player |->
                        IF q \in fits THEN Append(queue[q], [state |-> cs[q].state, mark |-> PresenceMark(cs[q])])
                        ELSE queue[q]]
          /\ Post({}, {Failed(q) : q \in ps \ fits})
    BY DEF SubmitPresence
  <1>2. p \in ps \ fits => Failed(p) \in inbox' \cup lost'
    BY <1>1, PostFacts
  <1>3. Failed(p) \in inbox \cup lost => Failed(p) \in inbox' \cup lost'
    BY <1>1, OwingPosted
  <1> QED
    BY <1>1, <1>2, <1>3 DEF JobOf

LEMMA WrittenSubmitted ==
    ASSUME TypeOK, TypeOK', NEW ps \in SUBSET Player, NEW p \in ps, Written(p), SubmitPresence({}, ps, city'),
           Earned(city'[p]), HasCity(p)', row'[p] = row[p]
    PROVE  Written(p)'
  <1>1. \/ queue'[p] = Append(queue[p], JobOf(city'[p]))
        \/ queue'[p] = queue[p] /\ Failed(p) \in inbox' \cup lost'
    <2>1. PICK cs : cs = city'
      OBVIOUS
    <2> QED
      BY <2>1, SubmittedOne
  <1>2. CASE queue'[p] = queue[p] /\ Failed(p) \in inbox' \cup lost'
    BY <1>2 DEF Written, Follows, Owing
  <1>3. CASE queue'[p] = Append(queue[p], JobOf(city'[p]))
    <2>1. PICK c \in City : c = city'[p] /\ Earned(c) /\ c.state # "none"
      BY DEF TypeOK, HasCity
    <2>2. EarnedJob(JobOf(c)) /\ Says(JobOf(c), c) /\ JobOf(c) \in Job
      BY <2>1, JobEarned
    <2>3. PICK j : j = JobOf(c)
      OBVIOUS
    <2>4. queue[p] \in Seq(Job) /\ queue'[p] = Append(queue[p], j)
      BY <1>3, <2>1, <2>3 DEF TypeOK, Job
    <2>5. /\ Len(queue'[p]) = Len(queue[p]) + 1 /\ queue'[p][Len(queue[p]) + 1] = j /\ queue'[p] # <<>>
          /\ \A i \in 1..Len(queue[p]) : queue'[p][i] = queue[p][i]
          /\ Len(queue[p]) \in Nat
      BY <2>2, <2>3, <2>4
    <2>6. Follows(p)'
      BY <2>1, <2>2, <2>3, <2>5 DEF Follows
    <2>7. ASSUME NEW i \in 1..Len(queue'[p]) PROVE EarnedJob(queue'[p][i])
      <3>1. CASE i \in 1..Len(queue[p])
        BY <2>5, <3>1 DEF Written
      <3>2. CASE i = Len(queue[p]) + 1
        BY <2>2, <2>3, <2>5, <3>2
      <3> QED
        BY <2>5, <3>1, <3>2
    <2> QED
      BY <2>6, <2>7 DEF Written
  <1> QED
    BY <1>1, <1>2, <1>3

LEMMA MovedEarned ==
    ASSUME NEW c \in City, NEW to \in State, CanTransition(c.state, to), Earned(c),
           to = "PROTECTED" => ShouldEngageProtection(c)
    PROVE  Earned(Moved(c, to))
  <1>1. Moved(c, to).state = to /\ Moved(c, to).offline = IF to = "OFFLINE_PENDING" THEN 0 ELSE c.offline
    BY DEF Moved
  <1> QED
    BY <1>1 DEF Earned, ShouldEngageProtection, Never, City, Age, State

\* applyPresence: the cities that move are written, or their write is owed.
LEMMA CitiesApplied ==
    ASSUME TypeOK, TypeOK', NEW ps \in SUBSET Player, NEW to \in State, ApplyPresence(ps, to),
           to = "PROTECTED" => \A p \in ps : ShouldEngageProtection(city[p]),
           NEW p \in Player, Written(p), row'[p] = row[p]
    PROVE  /\ Written(p)' /\ (HasCity(p)' <=> HasCity(p))
           /\ ~HasCity(p) => queue'[p] = queue[p]
  <1> DEFINE asked == {q \in ps : HasCity(q) /\ city[q].state # to}
             moved == {q \in asked : CanTransition(city[q].state, to)}
  <1>1. /\ city' = [q \in Player |-> IF q \in moved THEN Moved(city[q], to) ELSE city[q]]
        /\ dirty' = dirty \ moved /\ SubmitPresence({}, moved, city')
    BY DEF ApplyPresence
  <1>2. moved \in SUBSET Player
    OBVIOUS
  <1>3. CASE p \in moved
    <2>1. PICK c \in City : c = city[p] /\ Earned(c) /\ c.state # "none" /\ c.state # to /\ CanTransition(c.state, to)
                            /\ (to = "PROTECTED" => ShouldEngageProtection(c))
      BY <1>3 DEF TypeOK, HasCity, Written
    <2>2. city'[p] = Moved(c, to) /\ Moved(c, to) \in City /\ Moved(c, to).state = to /\ Earned(Moved(c, to))
      BY <1>1, <1>3, <2>1, MovedType, MovedEarned
    <2>3. HasCity(p) /\ HasCity(p)'
      BY <2>1, <2>2 DEF HasCity, State
    <2>4. PICK ms \in SUBSET Player : ms = moved
      BY <1>2
    <2> HIDE DEF moved
    <2>5. Written(p)'
      BY <1>1, <1>3, <2>2, <2>3, <2>4, WrittenSubmitted
    <2> QED
      BY <2>3, <2>5
  <1>4. CASE p \notin moved
    <2>1. city'[p] = city[p] /\ (p \in dirty => p \in dirty')
      BY <1>1, <1>4
    <2>2. PICK ms \in SUBSET Player : \E cs : ms = moved /\ cs = city'
      BY <1>2
    <2> HIDE DEF moved
    <2>3. queue'[p] = queue[p] /\ (Failed(p) \in inbox \cup lost => Failed(p) \in inbox' \cup lost')
      BY <1>1, <1>4, <2>2, SubmittedOne
    <2>4. Owing(p) => Owing(p)'
      BY <2>1, <2>3 DEF Owing
    <2> QED
      BY <2>1, <2>3, <2>4, WrittenKept DEF HasCity
  <1> QED
    BY <1>3, <1>4

LEMMA IntroducedApplied ==
    ASSUME NEW p \in Player, Introduced(p), HasCity(p)' <=> HasCity(p), ~HasCity(p) => queue'[p] = queue[p],
           row'[p] = row[p], p \in founding' <=> p \in founding,
           InLine(Introduce(p))' => InLine(Introduce(p)), OnceInLine(p)'
    PROVE  Introduced(p)'
  BY DEF Introduced

LEMMA GraceWrites == ASSUME TypeOK, TypeOK', Cities, EndGrace \/ EngageProtection, NEW p \in Player PROVE Written(p)' /\ Introduced(p)'
  <1>1. UNCHANGED <<row, founding, commands>> /\ Written(p) /\ Introduced(p)
    BY DEF EndGrace, EngageProtection, Cities
  <1>2. \E ps \in SUBSET Player, to \in State :
          ApplyPresence(ps, to) /\ (to = "PROTECTED" => \A q \in ps : ShouldEngageProtection(city[q]))
    <2>1. CASE EndGrace
      <3>1. PICK ps \in SUBSET Player : ApplyPresence(ps, "OFFLINE_PENDING")
        BY <2>1 DEF EndGrace
      <3> QED
        BY <3>1 DEF State
    <2>2. CASE EngageProtection
      <3>1. PICK ps \in SUBSET Player : ApplyPresence(ps, "PROTECTED") /\ \A q \in ps : ShouldEngageProtection(city[q])
        BY <2>2 DEF EngageProtection
      <3> QED
        BY <3>1 DEF State
    <2> QED
      BY <2>1, <2>2
  <1>3. Written(p)' /\ (HasCity(p)' <=> HasCity(p)) /\ (~HasCity(p) => queue'[p] = queue[p])
    BY <1>1, <1>2, CitiesApplied
  <1>4. OnceInLine(p)' /\ (InLine(Introduce(p))' => InLine(Introduce(p)))
    BY <1>1, LinesKept DEF Introduced
  <1> QED
    BY <1>1, <1>3, <1>4, IntroducedApplied

LEMMA InboxWrites == ASSUME TypeOK, Cities, DrainInbox, NEW p \in Player PROVE Written(p)' /\ Introduced(p)'
  <1>1. UNCHANGED <<row, founding, commands, lost>> /\ Written(p) /\ Introduced(p)
    BY DEF DrainInbox, Cities
  <1>2. PICK m \in inbox : /\ inbox' = inbox \ {m}
                           /\ \/ m.kind = "disconnected" /\ UNCHANGED cities
                              \/ m.kind = "failed" /\ HandlePersistFailed(m.player)
    BY DEF DrainInbox
  <1>3. UNCHANGED <<city, queue>>
    BY <1>2 DEF cities, HandlePersistFailed
  <1>4. HasCity(p) /\ Owing(p) => Owing(p)'
    <2>1. CASE m = Failed(p)
      <3>1. m.kind = "failed" /\ m.player = p
        BY <2>1 DEF Failed
      <3> QED
        BY <1>2, <3>1 DEF HandlePersistFailed, Owing
    <2>2. CASE m # Failed(p)
      BY <1>1, <1>2, <2>2 DEF HandlePersistFailed, Owing, cities
    <2> QED
      BY <2>1, <2>2
  <1>5. OnceInLine(p)' /\ (InLine(Introduce(p))' => InLine(Introduce(p)))
    BY <1>1, LinesKept DEF Introduced
  <1>6. Written(p)'
    BY <1>1, <1>3, <1>4 DEF Written, Follows, HasCity
  <1> QED
    BY <1>1, <1>3, <1>5, <1>6, IntroducedKept DEF HasCity

LEMMA IntroductionHandled ==
    ASSUME TypeOK, NEW p \in Player, Written(p), Introduced(p), commands # <<>>, Head(commands) = Introduce(p),
           commands' = Tail(commands), HandleIntroduce(p), UNCHANGED <<row, founding>>
    PROVE  Written(p)' /\ Introduced(p)'
  <1>1. Line(1, Introduce(p))
    BY DEF TypeOK, Line
  <1>2. ~HasCity(p) /\ row[p] = NewCity /\ queue[p] = <<>> /\ p \notin founding /\ OnceInLine(p)
    BY <1>1 DEF Introduced, InLine
  <1>3. city'[p] = NewCity /\ queue'[p] = queue[p]
    BY DEF HandleIntroduce, TypeOK
  <1>4. \A i \in Nat : Line(i, Introduce(p))' <=> i > 0 /\ Line(i + 1, Introduce(p))
    BY TailLines
  <1>5. \A i \in Nat : ~Line(i, Introduce(p))'
    <2>1. \A i \in Nat : i + 1 \in Nat /\ (i > 0 => i + 1 # 1)
      OBVIOUS
    <2> QED
      BY <1>1, <1>2, <1>4, <2>1 DEF OnceInLine
  <1>6. NewCity.state = "ONLINE" /\ Earned(NewCity) /\ Same(NewCity, NewCity)
    BY DEF NewCity, Earned, Same
  <1>7. Written(p)'
    BY <1>2, <1>3, <1>6 DEF Written, Follows
  <1>8. Introduced(p)'
    BY <1>2, <1>3, <1>5, <1>6 DEF Introduced, InLine, OnceInLine, HasCity
  <1> QED
    BY <1>7, <1>8

LEMMA CommandsWrite ==
    ASSUME TypeOK, TypeOK', Cities, DrainCommands, NEW p \in Player PROVE Written(p)' /\ Introduced(p)'
  <1>0. UNCHANGED <<row, founding>> /\ Written(p) /\ Introduced(p) /\ commands # <<>> /\ commands' = Tail(commands)
    BY DEF DrainCommands, Cities
  <1>1. PICK m \in Command :
          /\ m = Head(commands)
          /\ \/ m.kind = "connected" /\ HandleConnected(m.session)
             \/ m.kind = "disconnected" /\ UNCHANGED <<cities, inbox, lost>>
             \/ m.kind = "introduce" /\ HandleIntroduce(m.player) /\ UNCHANGED <<inbox, lost>>
             \/ m.kind = "snapshot" /\ UNCHANGED <<cities, inbox, lost>>
    BY DEF DrainCommands, TypeOK
  <1>2. CASE m = Introduce(p)
    <2>1. m.kind = "introduce" /\ m.player = p
      BY <1>2 DEF Introduce
    <2> QED
      BY <1>0, <1>1, <1>2, <2>1, IntroductionHandled
  <1>3. CASE m # Introduce(p)
    <2>1. OnceInLine(p)' /\ (InLine(Introduce(p))' => InLine(Introduce(p)))
      <3>1. \A i \in Nat : Line(i, Introduce(p))' <=> i > 0 /\ Line(i + 1, Introduce(p))
        BY <1>0, TailLines
      <3>2. \A i \in Nat : i + 1 \in Nat
        OBVIOUS
      <3>3. \A i, j \in Nat : i + 1 = j + 1 => i = j
        OBVIOUS
      <3> QED
        BY <1>0, <3>1, <3>2, <3>3 DEF Introduced, OnceInLine, InLine
    <2>2. CASE UNCHANGED <<cities, inbox, lost>>
      BY <1>0, <2>1, <2>2, WrittenKept, IntroducedKept, OwingKept DEF cities, HasCity
    <2>3. CASE m.kind = "introduce" /\ HandleIntroduce(m.player) /\ UNCHANGED <<inbox, lost>>
      <3>1. m.player \in Player /\ m.player # p
        <4>1. m = Introduce(m.player)
          BY <2>3 DEF Command, Introduce
        <4> QED
          BY <1>3, <2>3, <4>1 DEF Command
      <3>2. city'[p] = city[p] /\ UNCHANGED <<dirty, queue>>
        BY <2>3, <3>1 DEF HandleIntroduce, TypeOK
      <3> QED
        BY <1>0, <2>1, <2>3, <3>2, WrittenKept, IntroducedKept, OwingKept DEF HasCity
    <2>4. CASE m.kind = "connected" /\ HandleConnected(m.session)
      <3>1. CASE m.session \in early
        BY <1>0, <2>2, <2>4, <3>1 DEF HandleConnected
      <3>2. CASE m.session \notin early
        <4>1. {Owner[m.session]} \in SUBSET Player /\ "ONLINE" \in State
          BY <2>4, Constants DEF Command, State
        <4>2. ApplyPresence({Owner[m.session]}, "ONLINE")
          BY <2>4, <3>2 DEF HandleConnected
        <4>3. Written(p)' /\ (HasCity(p)' <=> HasCity(p)) /\ (~HasCity(p) => queue'[p] = queue[p])
          BY <1>0, <4>1, <4>2, CitiesApplied
        <4> QED
          BY <1>0, <2>1, <4>3, IntroducedApplied
      <3> QED
        BY <3>1, <3>2
    <2> QED
      BY <1>1, <2>2, <2>3, <2>4
  <1> QED
    BY <1>2, <1>3

LEMMA FlushWrites == ASSUME TypeOK, TypeOK', Cities, FlushPresence, NEW p \in Player PROVE Written(p)' /\ Introduced(p)'
  <1>1. UNCHANGED <<row, city, founding, commands>> /\ Written(p) /\ Introduced(p)
    BY DEF FlushPresence, Cities
  <1>2. PICK ps \in SUBSET Player : /\ ps = {q \in dirty : HasCity(q)} /\ SubmitPresence({}, ps, city)
    BY DEF FlushPresence, TypeOK
  <1>3. HasCity(p)' <=> HasCity(p)
    BY <1>1 DEF HasCity
  <1>4. OnceInLine(p)' /\ (InLine(Introduce(p))' => InLine(Introduce(p)))
    BY <1>1, LinesKept DEF Introduced
  <1>5. CASE p \in ps
    <2>1. HasCity(p)' /\ Earned(city'[p]) /\ SubmitPresence({}, ps, city')
      BY <1>1, <1>2, <1>3, <1>5 DEF Written
    <2>2. Written(p)'
      BY <1>1, <1>5, <2>1, WrittenSubmitted
    <2> QED
      BY <1>1, <1>2, <1>3, <1>4, <1>5, <2>2, IntroducedApplied
  <1>6. CASE p \notin ps
    <2>1. queue'[p] = queue[p] /\ (Failed(p) \in inbox \cup lost => Failed(p) \in inbox' \cup lost')
      BY <1>2, <1>6, SubmittedOne
    <2>2. HasCity(p) => p \notin dirty
      BY <1>2, <1>6
    <2>3. Written(p)'
      BY <1>1, <2>1, <2>2 DEF Written, Follows, Owing, HasCity
    <2> QED
      BY <1>1, <1>3, <1>4, <2>1, <2>3, IntroducedKept
  <1> QED
    BY <1>5, <1>6

LEMMA OlderFacts ==
    ASSUME NEW c \in City
    PROVE  /\ OlderCity(c).state = c.state /\ OlderCity(c).offline = Older(c.offline)
           /\ Earned(c) => Earned(OlderCity(c))
           /\ c = NewCity => OlderCity(c) = NewCity
  <1>1. OlderCity(c) = [state |-> c.state, offline |-> Older(c.offline)]
    BY DEF OlderCity, City
  <1>2. c.offline \in Age
    BY DEF City
  <1>3. c.offline # Never => Older(c.offline) # Never /\ Older(c.offline) >= c.offline
    BY <1>2, PresenceAssumption DEF Older, Age, Never
  <1>4. c.offline >= Cooldown => c.offline # Never /\ Older(c.offline) >= Cooldown
    BY <1>2, <1>3, PresenceAssumption DEF Age, Never, Older
  <1>5. Earned(c) => Earned(OlderCity(c))
    BY <1>1, <1>3, <1>4 DEF Earned
  <1>6. c = NewCity => OlderCity(c) = NewCity
    BY <1>1 DEF NewCity, Older
  <1> QED
    BY <1>1, <1>5, <1>6

LEMMA ClockWrites == ASSUME TypeOK, Cities, ClockTick, NEW p \in Player PROVE Written(p)' /\ Introduced(p)'
  <1>1. UNCHANGED <<founding, commands, inbox, lost, dirty>> /\ Written(p) /\ Introduced(p)
    BY DEF ClockTick, Cities, channels
  <1>2. PICK c \in City, r \in City : c = city[p] /\ r = row[p]
    BY DEF TypeOK
  <1>3. city'[p] = OlderCity(c) /\ row'[p] = OlderCity(r)
    BY <1>2 DEF ClockTick
  <1>4. PICK q \in Seq(Job) : q = queue[p]
    BY DEF TypeOK, Job
  <1>5. queue'[p] = [i \in DOMAIN q |-> [q[i] EXCEPT !.mark = Older(@)]]
    BY <1>4 DEF ClockTick
  <1>6. DOMAIN q = 1..Len(q) /\ Len(q) \in Nat /\ \A i \in 1..Len(q) : q[i] \in Job
    BY <1>4
  <1> DEFINE aged(j) == [j EXCEPT !.mark = Older(@)]
  <1>7. \A j \in Job : aged(j).state = j.state /\ aged(j).mark = Older(j.mark) /\ aged(j) \in Job
    BY OlderType DEF Job, Age
  <1>8. /\ Len(queue'[p]) = Len(q) /\ (queue'[p] = <<>> <=> q = <<>>)
        /\ \A i \in 1..Len(q) : queue'[p][i].state = q[i].state /\ queue'[p][i].mark = Older(q[i].mark)
    <2>1. queue'[p] = [i \in 1..Len(q) |-> aged(q[i])]
      BY <1>5, <1>6
    <2> HIDE DEF aged
    <2>2. \A i \in 1..Len(q) : aged(q[i]) \in Job
      BY <1>6, <1>7
    <2>3. queue'[p] \in Seq(Job) /\ Len(queue'[p]) = Len(q)
      BY <1>6, <2>1, <2>2
    <2> QED
      BY <1>6, <1>7, <2>1, <2>3
  <1>9. OlderCity(c).state = c.state /\ OlderCity(c).offline = Older(c.offline)
        /\ OlderCity(r).state = r.state /\ OlderCity(r).offline = Older(r.offline)
        /\ Earned(OlderCity(c)) /\ Earned(OlderCity(r)) /\ (r = NewCity => OlderCity(r) = NewCity)
    BY <1>1, <1>2, OlderFacts DEF Written
  <1>10. \A i \in 1..Len(q) : EarnedJob(queue'[p][i])
    <2>0. Cooldown \in Nat /\ Horizon \in Nat
      BY PresenceAssumption
    <2>1. \A a \in 0..Horizon : a >= Cooldown => Older(a) >= Cooldown
      BY <2>0 DEF Older, Never
    <2>2. \A i \in 1..Len(q) : EarnedJob(q[i]) /\ q[i].mark \in 0..Horizon
      BY <1>1, <1>4, <1>6 DEF Written, Job
    <2> QED
      BY <1>8, <2>1, <2>2 DEF EarnedJob
  <1>11. HasCity(p)' <=> HasCity(p)
    BY <1>2, <1>3, <1>9 DEF HasCity
  <1>12. Follows(p) => Follows(p)'
    <2>1. Owing(p) => Owing(p)'
      BY <1>1, OwingKept
    <2>2. q # <<>> => Len(q) \in 1..Len(q)
      BY <1>4, <1>6
    <2>3. queue[p] # <<>> /\ Says(queue[p][Len(queue[p])], city[p]) =>
            queue'[p] # <<>> /\ Says(queue'[p][Len(queue'[p])], city'[p])
      BY <1>2, <1>3, <1>4, <1>8, <1>9, <2>2 DEF Says
    <2>4. queue[p] = <<>> /\ Same(row[p], city[p]) => queue'[p] = <<>> /\ Same(row'[p], city'[p])
      BY <1>2, <1>3, <1>4, <1>8, <1>9 DEF Same
    <2> QED
      BY <2>1, <2>3, <2>4 DEF Follows
  <1>13. Written(p)'
    BY <1>1, <1>3, <1>8, <1>9, <1>10, <1>11, <1>12 DEF Written
  <1>14. OnceInLine(p)' /\ (InLine(Introduce(p))' => InLine(Introduce(p)))
    BY <1>1, LinesKept DEF Introduced
  <1>15. Introduced(p)'
    BY <1>1, <1>2, <1>3, <1>4, <1>8, <1>9, <1>11, <1>14 DEF Introduced
  <1> QED
    BY <1>13, <1>15

\* What a worker takes from a queue, and what it leaves.
LEMMA HeadFacts ==
    ASSUME NEW S, NEW q \in Seq(S), q # <<>>
    PROVE  /\ Head(q) = q[1] /\ q[1] \in S /\ Len(q) \in Nat \ {0} /\ Len(Tail(q)) = Len(q) - 1
           /\ Tail(q) = <<>> <=> Len(q) = 1
           /\ \A i \in 1..(Len(q) - 1) : Tail(q)[i] = q[i + 1]
  <1>1. Len(q) \in Nat /\ Len(q) # 0
    OBVIOUS
  <1>2. Head(q) = q[1] /\ q[1] \in S
    BY <1>1
  <1>3. Tail(q) \in Seq(S) /\ Len(Tail(q)) = Len(q) - 1
    BY <1>1
  <1>4. PICK t \in Seq(S) : t = Tail(q)
    BY <1>3
  <1>5. t = <<>> <=> Len(t) = 0
    OBVIOUS
  <1>6. \A i \in 1..(Len(q) - 1) : Tail(q)[i] = q[i + 1]
    BY <1>1
  <1> QED
    BY <1>1, <1>2, <1>3, <1>4, <1>5, <1>6

LEMMA WorkerWrites ==
    ASSUME TypeOK, Cities, NEW t \in Player, Write(t), NEW p \in Player PROVE Written(p)' /\ Introduced(p)'
  <1>1. UNCHANGED <<founding, commands, inbox, lost, dirty, city>> /\ Written(p) /\ Introduced(p)
    BY DEF Write, Cities, channels
  <1>2. OnceInLine(p)' /\ (InLine(Introduce(p))' => InLine(Introduce(p)))
    BY <1>1, LinesKept DEF Introduced
  <1>3. Owing(p) => Owing(p)'
    BY <1>1, OwingKept
  <1>4. CASE p # t
    <2>1. queue'[p] = queue[p] /\ row'[p] = row[p]
      BY <1>4 DEF Write, TypeOK
    <2> QED
      BY <1>1, <1>2, <1>3, <2>1, WrittenKept, IntroducedKept DEF HasCity
  <1>5. CASE p = t
    <2>0. queue[p] \in Seq(Job) /\ queue[p] # <<>>
      BY <1>5 DEF Write, TypeOK, Job
    <2>1. PICK q \in Seq(Job), j \in Job : q = queue[p] /\ q # <<>> /\ j = Head(queue[p]) /\ q[1] = j
      BY <2>0, HeadFacts
    <2>2. queue'[p] = Tail(q) /\ row'[p] = SetPresence(row[p], j)
      BY <1>5, <2>1 DEF Write, TypeOK
    <2> HIDE DEF Job
    <2>3. /\ Len(q) \in Nat \ {0} /\ Len(Tail(q)) = Len(q) - 1 /\ (Tail(q) = <<>> <=> Len(q) = 1)
          /\ \A i \in 1..(Len(q) - 1) : Tail(q)[i] = q[i + 1]
      BY <2>1, HeadFacts
    <2>4. HasCity(p) /\ HasCity(p)' /\ EarnedJob(j)
      <3>1. 1 \in 1..Len(q)
        BY <2>3
      <3> QED
        BY <1>1, <2>1, <3>1 DEF Introduced, Written, HasCity
    <2>5. PICK r : r = SetPresence(row[p], j)
      OBVIOUS
    <2>6. /\ r.state = j.state /\ r.offline = IF j.state = "ONLINE" THEN row[p].offline ELSE j.mark
          /\ j.state \in State /\ j.mark \in 0..Horizon
      BY <2>1, <2>5 DEF SetPresence, Job
    <2>7. Earned(r) /\ r.state # "none"
      BY <2>4, <2>6 DEF Earned, EarnedJob, State, Never
    <2>8. PICK left : left = Tail(q)
      OBVIOUS
    <2>9. \A i \in 1..Len(left) : EarnedJob(left[i])
      <3>1. \A i \in 1..Len(left) : i + 1 \in 1..Len(q) /\ left[i] = q[i + 1]
        BY <2>3, <2>8
      <3> QED
        BY <1>1, <2>1, <3>1 DEF Written
    <2>10. Follows(p)'
      <3>1. Follows(p)
        BY <1>1, <2>4 DEF Written
      <3>2. CASE Owing(p)
        BY <1>3, <3>2 DEF Follows
      <3>3. CASE Says(q[Len(q)], city[p]) /\ Len(q) = 1
        <4>1. Same(r, city[p])
          BY <2>1, <2>6, <3>3 DEF Says, Same
        <4> QED
          BY <1>1, <2>2, <2>3, <2>5, <3>3, <4>1 DEF Follows
      <3>4. CASE Says(q[Len(q)], city[p]) /\ Len(q) # 1
        <4>1. left # <<>> /\ left[Len(left)] = q[Len(q)]
          <5>1. Len(left) \in 1..(Len(q) - 1) /\ Len(left) + 1 = Len(q)
            BY <2>3, <2>8, <3>4
          <5> QED
            BY <2>3, <2>8, <3>4, <5>1
        <4> QED
          BY <1>1, <2>2, <2>8, <3>4, <4>1 DEF Follows
      <3> QED
        BY <2>1, <3>1, <3>2, <3>3, <3>4 DEF Follows
    <2>11. Written(p)'
      BY <1>1, <2>2, <2>5, <2>7, <2>8, <2>9, <2>10 DEF Written
    <2>12. Introduced(p)'
      BY <1>1, <1>2, <2>2, <2>4, <2>5, <2>7, IntroducedCity
    <2> QED
      BY <2>11, <2>12
  <1> QED
    BY <1>4, <1>5

LEMMA FailureOwes ==
    ASSUME TypeOK, Cities, NEW t \in Player, Fail(t), NEW p \in Player PROVE Written(p)' /\ Introduced(p)'
  <1>1. UNCHANGED <<founding, commands, dirty, city, row>> /\ Written(p) /\ Introduced(p) /\ Post({}, {Failed(t)})
    BY DEF Fail, Cities
  <1>2. OnceInLine(p)' /\ (InLine(Introduce(p))' => InLine(Introduce(p)))
    BY <1>1, LinesKept DEF Introduced
  <1>3. Owing(p) => Owing(p)'
    BY <1>1, OwingPosted DEF Owing
  <1>4. CASE p # t
    <2>1. queue'[p] = queue[p]
      BY <1>4 DEF Fail, TypeOK
    <2> QED
      BY <1>1, <1>2, <1>3, <2>1, WrittenKept, IntroducedKept DEF HasCity
  <1>5. CASE p = t
    <2>1. Owing(p)'
      BY <1>1, <1>5, PostFacts DEF Owing
    <2>2. PICK q \in Seq(Job) : q = queue[p] /\ q # <<>> /\ queue'[p] = Tail(q)
      BY <1>5 DEF Fail, TypeOK, Job
    <2>3. PICK left : left = Tail(q)
      OBVIOUS
    <2>4. \A i \in 1..Len(left) : i + 1 \in 1..Len(q) /\ left[i] = q[i + 1]
      BY <2>2, <2>3
    <2>5. Written(p)'
      BY <1>1, <2>1, <2>2, <2>3, <2>4 DEF Written, Follows
    <2>6. HasCity(p) /\ HasCity(p)' /\ row[p].state # "none"
      BY <1>1, <2>2 DEF Introduced, HasCity
    <2> QED
      BY <1>1, <1>2, <2>5, <2>6, IntroducedCity
  <1> QED
    BY <1>4, <1>5

\* The boot, the first or any other: what RAM holds is what the row says, but for a
\* city found ONLINE, whose degradation is on its way.
LEMMA Booted ==
    ASSUME NEW r \in City, Earned(r)
    PROVE  /\ Earned(AfterBoot(r)) /\ (AfterBoot(r).state = "none" <=> r.state = "none")
           /\ r.state = "none" => BootQueue(r) = <<>>
           /\ \/ BootQueue(r) = <<>> /\ Same(r, AfterBoot(r))
              \/ Len(BootQueue(r)) = 1 /\ BootQueue(r) # <<>> /\ Says(BootQueue(r)[1], AfterBoot(r))
           /\ \A i \in 1..Len(BootQueue(r)) : EarnedJob(BootQueue(r)[i])
  <1> DEFINE job == [state |-> "OFFLINE_PENDING", mark |-> 0]
  <1>1. CASE r.state = "ONLINE"
    <2>1. AfterBoot(r).state = "OFFLINE_PENDING" /\ AfterBoot(r).offline = 0 /\ BootQueue(r) = <<job>>
      BY <1>1 DEF AfterBoot, BootQueue, Moved
    <2>2. EarnedJob(job) /\ Says(job, AfterBoot(r)) /\ Earned(AfterBoot(r))
      BY <2>1 DEF EarnedJob, Says, Earned, Never
    <2> HIDE DEF job
    <2> QED
      BY <1>1, <2>1, <2>2
  <1>2. CASE r.state # "ONLINE"
    BY <1>2 DEF AfterBoot, BootQueue, Same
  <1> QED
    BY <1>1, <1>2

LEMMA BootWrites ==
    ASSUME NEW p \in Player, NEW r \in City, Earned(r), row'[p] = r, city'[p] = AfterBoot(r),
           queue'[p] = BootQueue(r), commands' = <<>>, founding' = {}
    PROVE  Written(p)' /\ Introduced(p)'
  <1>1. PICK c, q : c = AfterBoot(r) /\ q = BootQueue(r)
    OBVIOUS
  <1>2. /\ Earned(c) /\ (c.state = "none" <=> r.state = "none") /\ (r.state = "none" => q = <<>>)
        /\ (q = <<>> /\ Same(r, c)) \/ (Len(q) = 1 /\ q # <<>> /\ Says(q[1], c))
        /\ \A i \in 1..Len(q) : EarnedJob(q[i])
    BY <1>1, Booted
  <1>3. row'[p] = r /\ city'[p] = c /\ queue'[p] = q
    BY <1>1
  <1>4. Written(p)'
    BY <1>2, <1>3 DEF Written, Follows
  <1>5. \A m : ~InLine(m)'
    BY DEF InLine, Line
  <1>6. OnceInLine(p)'
    BY DEF OnceInLine, Line
  <1>7. Introduced(p)'
    BY <1>2, <1>3, <1>5, <1>6 DEF Introduced, HasCity
  <1> QED
    BY <1>4, <1>7

LEMMA RestartWrites ==
    ASSUME TypeOK, Cities, Restart, NEW p \in Player PROVE Written(p)' /\ Introduced(p)'
  <1>1. PICK r \in City : r = row[p] /\ Earned(r)
    BY DEF TypeOK, Cities, Written
  <1>2. row'[p] = r /\ city'[p] = AfterBoot(r) /\ queue'[p] = BootQueue(r) /\ commands' = <<>> /\ founding' = {}
    BY <1>1 DEF Restart
  <1> QED
    BY <1>1, <1>2, BootWrites

LEMMA CitiesInit == Init => Cities
  <1> SUFFICES ASSUME Init, NEW p \in Player PROVE Written(p) /\ Introduced(p)
    BY DEF Cities
  <1>1. PICK r \in City : r = row[p] /\ (FoundRow(r) \/ r = NoCity)
    BY DEF Init
  <1>2. Earned(r)
    <2>1. CASE FoundRow(r)
      BY <2>1, PresenceAssumption DEF FoundRow, Earned, Never
    <2>2. CASE r = NoCity
      BY <2>2 DEF NoCity, Earned
    <2> QED
      BY <1>1, <2>1, <2>2
  <1>3. PICK c, q : c = AfterBoot(r) /\ q = BootQueue(r)
    OBVIOUS
  <1>4. /\ Earned(c) /\ (c.state = "none" <=> r.state = "none") /\ (r.state = "none" => q = <<>>)
        /\ (q = <<>> /\ Same(r, c)) \/ (Len(q) = 1 /\ q # <<>> /\ Says(q[1], c))
        /\ \A i \in 1..Len(q) : EarnedJob(q[i])
    BY <1>2, <1>3, Booted
  <1>5. row[p] = r /\ city[p] = c /\ queue[p] = q /\ commands = <<>> /\ founding = {}
    BY <1>1, <1>3 DEF Init
  <1>6. Written(p)
    BY <1>2, <1>4, <1>5 DEF Written, Follows
  <1>7. (\A m : ~InLine(m)) /\ OnceInLine(p)
    BY <1>5 DEF InLine, OnceInLine, Line
  <1>8. Introduced(p)
    BY <1>4, <1>5, <1>7 DEF Introduced, HasCity
  <1> QED
    BY <1>6, <1>8

LEMMA GoroutinesKeep ==
    ASSUME TypeOK, Cities, NEW s \in Session, Open(s) \/ Join(s) \/ JoinTimeout(s) \/ AskSnapshot(s) \/ Leave(s),
           NEW p \in Player
    PROVE  Written(p)' /\ Introduced(p)'
  <1>1. UNCHANGED <<city, row, queue, dirty, founding>> /\ Written(p) /\ Introduced(p)
    BY DEF Open, Join, JoinTimeout, AskSnapshot, Leave, Cities, cities
  <1>2. Owing(p) => Owing(p)'
    <2>1. UNCHANGED <<inbox, lost>> \/ Post({}, {Disconnected(s)})
      BY DEF Open, Join, JoinTimeout, AskSnapshot, Leave, channels
    <2> QED
      BY <1>1, <2>1, OwingPosted DEF Owing
  <1>3. OnceInLine(p)' /\ (InLine(Introduce(p))' => InLine(Introduce(p)))
    <2>1. UNCHANGED commands \/ \E x \in {Connected(s), Snapshot(s), Disconnected(s)} : commands' = Append(commands, x)
      BY DEF Open, Join, JoinTimeout, AskSnapshot, Leave, channels
    <2>2. \A x \in {Connected(s), Snapshot(s), Disconnected(s)} : x \in Command /\ x # Introduce(p)
      <3>1. \A x \in {Connected(s), Snapshot(s), Disconnected(s)} : x.kind # "introduce" /\ x \in Command
        BY DEF Connected, Snapshot, Disconnected, Command
      <3>2. Introduce(p).kind = "introduce"
        BY DEF Introduce
      <3> QED
        BY <3>1, <3>2
    <2> QED
      BY <1>1, <2>1, <2>2, LinesKept, LinesOfAnother DEF Introduced
  <1> QED
    BY <1>1, <1>2, <1>3, WrittenKept, IntroducedKept DEF HasCity

LEMMA FoundationCommits ==
    ASSUME TypeOK, Cities, NEW t \in Player, FoundCommit(t), NEW p \in Player PROVE Written(p)' /\ Introduced(p)'
  <1>1. UNCHANGED <<city, queue, dirty, commands, inbox, lost>> /\ Written(p) /\ Introduced(p)
    BY DEF FoundCommit, Cities, cities, channels
  <1>2. OnceInLine(p)' /\ (InLine(Introduce(p))' => InLine(Introduce(p)))
    BY <1>1, LinesKept DEF Introduced
  <1>3. CASE p # t
    <2>1. row'[p] = row[p] /\ (p \in founding' <=> p \in founding) /\ (Owing(p) => Owing(p)')
      BY <1>1, <1>3, OwingKept DEF FoundCommit, TypeOK
    <2> QED
      BY <1>1, <1>2, <2>1, WrittenKept, IntroducedKept DEF HasCity
  <1>4. CASE p = t
    <2>1. row[p].state = "none" /\ row'[p] = NewCity /\ p \in founding'
      BY <1>4 DEF FoundCommit, TypeOK
    <2>2. ~HasCity(p) /\ ~HasCity(p)' /\ ~InLine(Introduce(p)) /\ queue[p] = <<>>
      BY <1>1, <2>1 DEF Introduced, NewCity, HasCity
    <2>3. Earned(NewCity)
      BY DEF Earned, NewCity
    <2>4. Written(p)'
      BY <1>1, <2>1, <2>2, <2>3 DEF Written
    <2>5. Introduced(p)'
      BY <1>1, <1>2, <2>1, <2>2 DEF Introduced
    <2> QED
      BY <2>4, <2>5
  <1> QED
    BY <1>3, <1>4

LEMMA FoundationDispatched ==
    ASSUME TypeOK, Cities, NEW t \in Player, FoundDispatch(t), NEW p \in Player PROVE Written(p)' /\ Introduced(p)'
  <1>1. /\ UNCHANGED <<city, queue, dirty, row, inbox>> /\ Written(p) /\ Introduced(p)
        /\ t \in founding /\ founding' = founding \ {t}
        /\ (commands' = Append(commands, Introduce(t)) /\ UNCHANGED lost)
             \/ (lost' = lost \cup {Introduce(t)} /\ UNCHANGED commands)
    BY DEF FoundDispatch, Cities, cities
  <1>2. Written(p)'
    BY <1>1, WrittenKept DEF Owing
  <1>3. CASE UNCHANGED commands
    <2>1. OnceInLine(p)' /\ (InLine(Introduce(p))' => InLine(Introduce(p)))
      BY <1>1, <1>3, LinesKept DEF Introduced
    <2> QED
      BY <1>1, <1>2, <2>1 DEF Introduced, HasCity
  <1>4. CASE commands' = Append(commands, Introduce(t)) /\ p # t
    <2>1. Introduce(t) \in Command /\ Introduce(t) # Introduce(p)
      <3>1. Introduce(t).player = t /\ Introduce(p).player = p
        BY DEF Introduce
      <3> QED
        BY <1>4, <3>1 DEF Introduce, Command
    <2>2. OnceInLine(p)' /\ (InLine(Introduce(p))' => InLine(Introduce(p)))
      BY <1>1, <1>4, <2>1, LinesOfAnother DEF Introduced
    <2> QED
      BY <1>1, <1>2, <1>4, <2>2, IntroducedKept DEF HasCity
  <1>5. CASE commands' = Append(commands, Introduce(t)) /\ p = t
    <2>1. ~InLine(Introduce(p)) /\ ~HasCity(p) /\ row[p] = NewCity /\ p \notin founding'
      BY <1>1, <1>5 DEF Introduced
    <2>2. Introduce(p) \in Command
      BY DEF Introduce, Command
    <2>3. \A i \in Nat : Line(i, Introduce(p))' => i = Len(commands) + 1
      BY <1>5, <2>1, <2>2, AppendLines DEF InLine
    <2>4. OnceInLine(p)'
      BY <2>3 DEF OnceInLine
    <2> QED
      BY <1>1, <1>2, <2>1, <2>4 DEF Introduced, HasCity
  <1> QED
    BY <1>1, <1>3, <1>4, <1>5

LEMMA CitiesStep == TypeOK /\ Cities /\ [Next]_vars => Cities'
  <1> SUFFICES ASSUME TypeOK, Cities, [Next]_vars, NEW p \in Player PROVE Written(p)' /\ Introduced(p)'
    BY DEF Cities
  <1>0. TypeOK'
    BY TypeStep
  <1>1. CASE Outside
    BY <1>1, GoroutinesKeep, FoundationCommits, FoundationDispatched DEF Outside
  <1>2. CASE DrainInbox
    BY <1>2, InboxWrites
  <1>3. CASE DrainCommands
    BY <1>0, <1>3, CommandsWrite
  <1>4. CASE EndGrace \/ EngageProtection
    BY <1>0, <1>4, GraceWrites
  <1>5. CASE FlushPresence
    BY <1>0, <1>5, FlushWrites
  <1>6. CASE ClockTick
    BY <1>6, ClockWrites
  <1>7. CASE \E t \in Player : Write(t) \/ Fail(t)
    BY <1>7, WorkerWrites, FailureOwes
  <1>8. CASE Restart
    BY <1>8, RestartWrites
  <1>9. CASE InboxDone \/ CommandsDone \/ EndTick \/ UNCHANGED vars
    <2>1. UNCHANGED <<city, row, queue, dirty, founding, commands, inbox, lost>> /\ Written(p) /\ Introduced(p)
      BY <1>9 DEF InboxDone, CommandsDone, EndTick, vars, cities, channels, Cities
    <2>2. (Owing(p) => Owing(p)') /\ OnceInLine(p)' /\ (InLine(Introduce(p))' => InLine(Introduce(p)))
      BY <2>1, OwingKept, LinesKept DEF Introduced
    <2> QED
      BY <2>1, <2>2, WrittenKept, IntroducedKept DEF HasCity
  <1> QED
    BY <1>1, <1>2, <1>3, <1>4, <1>5, <1>6, <1>7, <1>8, <1>9 DEF Next, Tick

\* INV-CITY-011 and INV-CITY-013: in RAM and in the rows, outside ONLINE there is an
\* offline mark and a PROTECTED city left for at least the cooldown, however many
\* writes of presence fail or cross and however often the server restarts.
THEOREM ProtectionIsEarned == Spec => []ProtectionEarned
  <1>1. Init => TypeOK /\ Cities
    BY TypeInit, CitiesInit
  <1>2. TypeOK /\ Cities /\ [Next]_vars => (TypeOK /\ Cities)'
    BY TypeStep, CitiesStep
  <1>3. TypeOK /\ Cities => ProtectionEarned
    BY DEF Cities, Written, Earned, ProtectionEarned
  <1> QED
    BY <1>1, <1>2, <1>3, PTL DEF Spec

\* ADR-022: with nothing of a city on its way (no job in line, no repetition owed, no
\* compensation in the inbox or dropped) its row says what RAM says of its presence.
THEOREM DatabaseFollowsAlways == Spec => []DatabaseFollows
  <1>1. Init => TypeOK /\ Cities
    BY TypeInit, CitiesInit
  <1>2. TypeOK /\ Cities /\ [Next]_vars => (TypeOK /\ Cities)'
    BY TypeStep, CitiesStep
  <1>3. TypeOK /\ Cities => DatabaseFollows
    BY DEF Cities, Written, Follows, Owing, Same, DatabaseFollows
  <1> QED
    BY <1>1, <1>2, <1>3, PTL DEF Spec
-----------------------------------------------------------------------------
(* The grace, and the transitions the loop asks for.                       *)

\* A running grace began no earlier than the last session was seen, and its city
\* is still exposed.
Marked(p) ==
  /\ sessions[p] # {} => absent[p] = Never /\ seen[p] = 0
  /\ absent[p] # Never => seen[p] >= absent[p] /\ (HasCity(p) => city[p].state = "ONLINE")
Marks == \A p \in Player : Marked(p)

LEMMA MarkedKept ==
    ASSUME NEW p, Marked(p), sessions'[p] = sessions[p], absent'[p] = absent[p] \/ absent'[p] = Never,
           seen'[p] = seen[p], absent'[p] # Never => city'[p] = city[p] \/ city'[p].state = "ONLINE",
           sessions[p] # {} => absent'[p] = Never
    PROVE  Marked(p)'
  BY DEF Marked, HasCity

LEMMA EndMarks ==
    ASSUME TypeOK, CountedIsOnline, NEW s \in Session, HandleDisconnected(s), UNCHANGED city,
           NEW p \in Player, Marked(p)
    PROVE  Marked(p)'
  <1>1. Owner[s] \in Player
    BY Constants
  <1>2. CASE s \notin sessions[Owner[s]]
    BY <1>2, MarkedKept DEF HandleDisconnected, Marked
  <1>3. CASE s \in sessions[Owner[s]]
    <2>1. sessions' = [sessions EXCEPT ![Owner[s]] = @ \ {s}] /\ UNCHANGED seen
          /\ absent' = IF sessions'[Owner[s]] = {} THEN [absent EXCEPT ![Owner[s]] = 0] ELSE absent
      BY <1>3 DEF HandleDisconnected
    <2>2. CASE p # Owner[s]
      <3>1. sessions'[p] = sessions[p] /\ absent'[p] = absent[p]
        BY <2>1, <2>2 DEF TypeOK
      <3> QED
        BY <2>1, <3>1, MarkedKept DEF Marked
    <2>3. CASE p = Owner[s]
      <3>1. absent[p] = Never /\ seen'[p] = 0 /\ (HasCity(p) => city[p].state = "ONLINE")
        BY <1>3, <2>1, <2>3 DEF Marked, CountedIsOnline
      <3>2. absent'[p] = IF sessions'[p] = {} THEN 0 ELSE absent[p]
        BY <1>1, <2>1, <2>3 DEF TypeOK
      <3> QED
        BY <3>1, <3>2 DEF Marked, HasCity
    <2> QED
      BY <2>2, <2>3
  <1> QED
    BY <1>2, <1>3

LEMMA BeginningMarks ==
    ASSUME TypeOK, NEW s \in Session, s \notin early, HandleConnected(s), NEW p \in Player, Marked(p)
    PROVE  Marked(p)'
  <1>1. Owner[s] \in Player /\ {Owner[s]} \in SUBSET Player /\ "ONLINE" \in State
    BY Constants DEF State
  <1>2. /\ sessions' = [sessions EXCEPT ![Owner[s]] = @ \cup {s}] /\ absent' = [absent EXCEPT ![Owner[s]] = Never]
        /\ seen' = [seen EXCEPT ![Owner[s]] = 0] /\ ApplyPresence({Owner[s]}, "ONLINE")
    BY DEF HandleConnected
  <1>3. CASE p # Owner[s]
    <2>1. p \notin {Owner[s]}
      BY <1>3
    <2>2. city'[p] = city[p]
      BY <1>1, <1>2, <2>1, Moves
    <2>3. sessions'[p] = sessions[p] /\ absent'[p] = absent[p] /\ seen'[p] = seen[p]
      BY <1>2, <1>3 DEF TypeOK
    <2> QED
      BY <2>2, <2>3, MarkedKept DEF Marked
  <1>4. CASE p = Owner[s]
    <2>1. absent'[p] = Never /\ seen'[p] = 0
      BY <1>1, <1>2, <1>4 DEF TypeOK
    <2> QED
      BY <2>1 DEF Marked
  <1> QED
    BY <1>3, <1>4

LEMMA ClockMarks == ASSUME TypeOK, ClockTick, NEW p \in Player, Marked(p) PROVE Marked(p)'
  <1>1. UNCHANGED sessions /\ absent'[p] = Older(absent[p]) /\ seen'[p] = (IF sessions[p] # {} THEN 0 ELSE Older(seen[p]))
        /\ city'[p] = OlderCity(city[p])
    BY DEF ClockTick
  <1>2. PICK c \in City : c = city[p]
    BY DEF TypeOK
  <1>3. HasCity(p)' => HasCity(p) /\ city'[p].state = city[p].state
    BY <1>1, <1>2, OlderFacts DEF HasCity
  <1>4. absent[p] \in Age /\ seen[p] \in Age /\ Horizon \in Nat
    BY PresenceAssumption DEF TypeOK
  <1>5. Older(absent[p]) # Never => absent[p] # Never
    BY DEF Older
  <1>6. \A a, b \in 0..Horizon : b >= a => Older(b) >= Older(a)
    BY <1>4 DEF Older, Never
  <1>7. absent[p] # Never /\ seen[p] >= absent[p] => Older(seen[p]) >= Older(absent[p])
    BY <1>4, <1>6 DEF Age, Never
  <1>8. absent[p] = Never => Older(absent[p]) = Never
    BY DEF Older
  <1> QED
    BY <1>1, <1>3, <1>5, <1>7, <1>8 DEF Marked

\* The two steps of the timers: whom they ask to move, and from where.
LEMMA TimersAsk ==
    ASSUME TypeOK, Marks, EndGrace \/ EngageProtection
    PROVE  \E ps \in SUBSET Player, to \in {"OFFLINE_PENDING", "PROTECTED"} :
             /\ ApplyPresence(ps, to)
             /\ \A p \in ps : HasCity(p) => CanTransition(city[p].state, to)
             /\ to = "OFFLINE_PENDING" => \A p \in ps : sessions[p] = {} /\ seen[p] >= Grace /\ absent'[p] = Never
             /\ to = "PROTECTED" => \A p \in ps : city[p].state = "OFFLINE_PENDING"
             /\ UNCHANGED <<sessions, seen>>
             /\ \A p \in Player : absent'[p] = Never \/ (absent'[p] = absent[p] /\ sessions[p] = {})
                                  \/ UNCHANGED absent
  <1>1. CASE EndGrace
    <2>1. PICK over \in SUBSET Player :
            /\ over = {p \in {q \in Player : absent[q] # Never} : sessions[p] = {} /\ GraceOver(p)}
            /\ ApplyPresence(over, "OFFLINE_PENDING")
            /\ absent' = [p \in Player |-> IF sessions[p] # {} \/ p \in over THEN Never ELSE absent[p]]
      BY <1>1 DEF EndGrace
    <2>2. ASSUME NEW p \in over
          PROVE  (HasCity(p) => CanTransition(city[p].state, "OFFLINE_PENDING"))
                 /\ sessions[p] = {} /\ seen[p] >= Grace /\ absent'[p] = Never
      <3>1. p \in Player /\ absent[p] # Never /\ absent[p] >= Grace /\ sessions[p] = {}
        BY <2>1 DEF GraceOver
      <3>2. seen[p] >= absent[p] /\ (HasCity(p) => city[p].state = "ONLINE")
        BY <3>1 DEF Marks, Marked
      <3>3. absent[p] \in Int /\ seen[p] \in Int /\ Grace \in Int
        BY <3>1, PresenceAssumption DEF TypeOK, Age, Never
      <3> QED
        BY <2>1, <3>1, <3>2, <3>3 DEF CanTransition
    <2>3. UNCHANGED <<sessions, seen>>
      BY <1>1 DEF EndGrace
    <2>4. \A p \in Player : absent'[p] = Never \/ (absent'[p] = absent[p] /\ sessions[p] = {})
      BY <2>1
    <2> QED
      BY <2>1, <2>2, <2>3, <2>4
  <1>2. CASE EngageProtection
    <2>1. PICK ps \in SUBSET Player :
            ApplyPresence(ps, "PROTECTED") /\ \A p \in ps : city[p].state = "OFFLINE_PENDING"
      BY <1>2 DEF EngageProtection, ShouldEngageProtection
    <2>2. UNCHANGED <<sessions, seen, absent>>
      BY <1>2 DEF EngageProtection, sim
    <2> QED
      BY <2>1, <2>2 DEF CanTransition
  <1> QED
    BY <1>1, <1>2

LEMMA TimersMark ==
    ASSUME TypeOK, Marks, EndGrace \/ EngageProtection, NEW p \in Player PROVE Marked(p)'
  <1>0. Marked(p)
    BY DEF Marks
  <1>1. PICK ps \in SUBSET Player, to \in {"OFFLINE_PENDING", "PROTECTED"} :
          /\ ApplyPresence(ps, to)
          /\ to = "OFFLINE_PENDING" => \A q \in ps : absent'[q] = Never
          /\ to = "PROTECTED" => \A q \in ps : city[q].state = "OFFLINE_PENDING"
          /\ UNCHANGED <<sessions, seen>>
          /\ absent'[p] = Never \/ (absent'[p] = absent[p] /\ sessions[p] = {}) \/ UNCHANGED absent
    BY TimersAsk
  <1>2. to \in State
    BY DEF State
  <1>3. p \notin ps => city'[p] = city[p]
    BY <1>1, <1>2, Moves
  <1>4. ~HasCity(p) => city'[p] = city[p]
    BY <1>1, <1>2, Moves
  <1>5. absent'[p] # Never => city'[p] = city[p]
    BY <1>0, <1>1, <1>3, <1>4 DEF Marked, HasCity
  <1> QED
    BY <1>0, <1>1, <1>5, MarkedKept DEF Marked

LEMMA MarksStep == TypeOK /\ CountedIsOnline /\ Marks /\ [Next]_vars => Marks'
  <1> SUFFICES ASSUME TypeOK, CountedIsOnline, Marks, [Next]_vars, NEW p \in Player PROVE Marked(p)'
    BY DEF Marks
  <1>0. Marked(p)
    BY DEF Marks
  <1>1. CASE UNCHANGED <<sessions, absent, seen, city>>
    BY <1>0, <1>1, MarkedKept DEF Marked
  <1>2. CASE DrainInbox
    <2>1. PICK m \in Message : \/ m.kind = "disconnected" /\ HandleDisconnected(m.session) /\ UNCHANGED cities
                               \/ m.kind = "failed" /\ HandlePersistFailed(m.player)
      BY <1>2 DEF DrainInbox, TypeOK
    <2>2. CASE m.kind = "disconnected" /\ HandleDisconnected(m.session) /\ UNCHANGED cities
      BY <1>0, <2>2, EndMarks DEF Message, cities
    <2>3. CASE m.kind = "failed" /\ HandlePersistFailed(m.player)
      BY <1>1, <2>3 DEF HandlePersistFailed, sim
    <2> QED
      BY <2>1, <2>2, <2>3
  <1>3. CASE DrainCommands
    <2>1. PICK m \in Command :
            \/ m.kind = "connected" /\ HandleConnected(m.session)
            \/ m.kind = "disconnected" /\ HandleDisconnected(m.session) /\ UNCHANGED cities
            \/ m.kind = "introduce" /\ HandleIntroduce(m.player)
            \/ m.kind = "snapshot" /\ UNCHANGED <<sim, cities>>
      BY <1>3 DEF DrainCommands, TypeOK
    <2>2. CASE m.kind = "introduce" /\ HandleIntroduce(m.player)
      <3>1. m.player \in Player /\ UNCHANGED <<sessions, absent, seen>> /\ city' = [city EXCEPT ![m.player] = NewCity]
        BY <2>2 DEF HandleIntroduce, sim, Command
      <3>2. city'[p] = city[p] \/ city'[p].state = "ONLINE"
        BY <3>1 DEF TypeOK, NewCity
      <3> QED
        BY <1>0, <3>1, <3>2, MarkedKept DEF Marked
    <2>3. CASE m.kind = "snapshot" /\ UNCHANGED <<sim, cities>>
      BY <1>1, <2>3 DEF sim, cities
    <2>4. CASE m.kind = "connected" /\ HandleConnected(m.session)
      <3>1. CASE m.session \in early
        BY <1>1, <2>4, <3>1 DEF HandleConnected, cities
      <3>2. CASE m.session \notin early
        BY <1>0, <2>4, <3>2, BeginningMarks DEF Command
      <3> QED
        BY <3>1, <3>2
    <2>5. CASE m.kind = "disconnected" /\ HandleDisconnected(m.session) /\ UNCHANGED cities
      BY <1>0, <2>5, EndMarks DEF Command, cities
    <2> QED
      BY <2>1, <2>2, <2>3, <2>4, <2>5
  <1>4. CASE EndGrace \/ EngageProtection
    BY <1>4, TimersMark
  <1>5. CASE ClockTick
    BY <1>0, <1>5, ClockMarks
  <1>6. CASE Restart
    BY <1>6 DEF Restart, Marked
  <1>7. CASE InboxDone \/ CommandsDone \/ EndTick \/ FlushPresence \/ \E q \in Player : Write(q) \/ Fail(q)
    BY <1>1, <1>7 DEF InboxDone, CommandsDone, EndTick, FlushPresence, Write, Fail, sim, cities
  <1>8. CASE Outside
    BY <1>1, <1>8 DEF Outside, Open, Join, JoinTimeout, AskSnapshot, Leave, FoundCommit, FoundDispatch, sim, cities
  <1>9. CASE UNCHANGED vars
    BY <1>1, <1>9 DEF vars, sim, cities
  <1> QED
    BY <1>2, <1>3, <1>4, <1>5, <1>6, <1>7, <1>8, <1>9 DEF Next, Tick

LEMMA MarksInit == Init => CountedIsOnline /\ Marks
  BY ExposedInit DEF Init, Marks, Marked

\* What RN-PRESENCE-004 says of one step.
GraceObserved ==
  \A p \in Player :
    city[p].state = "ONLINE" /\ city'[p].state = "OFFLINE_PENDING" /\ nCrash' = nCrash =>
      sessions[p] = {} /\ seen[p] >= Grace

\* Everyone who asks applyPresence to move a city asks for an edge of the machine.
Asks(p, to) == HasCity(p) => CanTransition(city[p].state, to)

LEMMA ReturnAllowed == ASSUME TypeOK, NEW p \in Player PROVE Asks(p, "ONLINE")
  BY DEF TypeOK, City, State, CanTransition, HasCity, Asks

LEMMA AskedIsMoved ==
    ASSUME TypeOK, NEW ps \in SUBSET Player, NEW to \in State, ApplyPresence(ps, to), \A p \in ps : Asks(p, to), ~defect
    PROVE  ~defect'
  <1> DEFINE asked == {q \in ps : HasCity(q) /\ city[q].state # to}
             moved == {q \in asked : CanTransition(city[q].state, to)}
  <1>1. moved = asked
    BY DEF Asks
  <1>2. defect' = (defect \/ moved # asked)
    BY DEF ApplyPresence
  <1> QED
    BY <1>1, <1>2

LEMMA LoopStep ==
    ASSUME TypeOK, Marks, NEW ps \in SUBSET Player, ApplyPresence(ps, "ONLINE")
    PROVE  GraceObserved /\ (~defect => ~defect')
  <1>1. "ONLINE" \in State /\ \A p \in ps : Asks(p, "ONLINE")
    BY ReturnAllowed DEF State
  <1>2. ~defect => ~defect'
    BY <1>1, AskedIsMoved
  <1>3. \A p \in Player : city'[p].state \in {city[p].state, "ONLINE"}
    BY <1>1, Moves
  <1> QED
    BY <1>2, <1>3 DEF GraceObserved

LEMMA TransitionStep == TypeOK /\ Marks /\ [Next]_vars => GraceObserved /\ (~defect => ~defect')
  <1> SUFFICES ASSUME TypeOK, Marks, [Next]_vars PROVE GraceObserved /\ (~defect => ~defect')
    OBVIOUS
  <1>1. CASE UNCHANGED <<city, defect>>
    BY <1>1 DEF GraceObserved
  <1>2. CASE DrainInbox
    BY <1>1, <1>2 DEF DrainInbox, cities, HandlePersistFailed
  <1>3. CASE DrainCommands
    <2>1. PICK m \in Command :
            \/ m.kind = "connected" /\ HandleConnected(m.session)
            \/ m.kind = "introduce" /\ HandleIntroduce(m.player)
            \/ UNCHANGED <<city, defect>>
      BY <1>3 DEF DrainCommands, TypeOK, cities
    <2>2. CASE m.kind = "connected" /\ HandleConnected(m.session)
      <3>1. {Owner[m.session]} \in SUBSET Player
        BY <2>2, Constants DEF Command
      <3>2. UNCHANGED <<city, defect>> \/ ApplyPresence({Owner[m.session]}, "ONLINE")
        BY <2>2 DEF HandleConnected, cities
      <3> QED
        BY <1>1, <3>1, <3>2, LoopStep
    <2>3. CASE m.kind = "introduce" /\ HandleIntroduce(m.player)
      <3>1. m.player \in Player /\ UNCHANGED defect /\ city' = [city EXCEPT ![m.player] = NewCity]
        BY <2>3 DEF HandleIntroduce, Command
      <3>2. \A p \in Player : city'[p] = city[p] \/ city'[p].state = "ONLINE"
        BY <3>1 DEF TypeOK, NewCity
      <3> QED
        BY <3>1, <3>2 DEF GraceObserved
    <2> QED
      BY <1>1, <2>1, <2>2, <2>3
  <1>4. CASE EndGrace \/ EngageProtection
    <2>1. PICK ps \in SUBSET Player, to \in {"OFFLINE_PENDING", "PROTECTED"} :
             /\ ApplyPresence(ps, to)
             /\ \A p \in ps : HasCity(p) => CanTransition(city[p].state, to)
             /\ to = "OFFLINE_PENDING" => \A p \in ps : sessions[p] = {} /\ seen[p] >= Grace
      BY <1>4, TimersAsk
    <2>2. to \in State /\ \A p \in ps : Asks(p, to)
      BY <2>1 DEF State, Asks
    <2>3. ~defect => ~defect'
      BY <2>1, <2>2, AskedIsMoved
    <2>4. \A p \in Player : (p \notin ps => city'[p] = city[p]) /\ city'[p].state \in {city[p].state, to}
      BY <2>1, <2>2, Moves
    <2> QED
      BY <2>1, <2>3, <2>4 DEF GraceObserved
  <1>5. CASE ClockTick
    <2>1. \A p \in Player : city'[p] = OlderCity(city[p]) /\ city[p] \in City
      BY <1>5 DEF ClockTick, TypeOK
    <2>2. \A p \in Player : city'[p].state = city[p].state
      BY <2>1 DEF OlderCity, City
    <2> QED
      BY <1>5, <2>2 DEF ClockTick, GraceObserved
  <1>6. CASE Restart
    <2>1. nCrash' # nCrash /\ UNCHANGED defect
      BY <1>6 DEF Restart, TypeOK
    <2> QED
      BY <2>1 DEF GraceObserved
  <1>7. CASE InboxDone \/ CommandsDone \/ EndTick \/ FlushPresence \/ \E q \in Player : Write(q) \/ Fail(q)
    BY <1>1, <1>7 DEF InboxDone, CommandsDone, EndTick, FlushPresence, Write, Fail, cities
  <1>8. CASE Outside
    BY <1>1, <1>8 DEF Outside, Open, Join, JoinTimeout, AskSnapshot, Leave, FoundCommit, FoundDispatch, cities
  <1>9. CASE UNCHANGED vars
    BY <1>1, <1>9 DEF vars, cities
  <1> QED
    BY <1>2, <1>3, <1>4, <1>5, <1>6, <1>7, <1>8, <1>9 DEF Next, Tick

LEMMA MarksAlways == Spec => [](TypeOK /\ CountedIsOnline /\ Marks)
  <1>1. Init => TypeOK /\ CountedIsOnline /\ Marks
    BY TypeInit, MarksInit
  <1>2. TypeOK /\ CountedIsOnline /\ Marks /\ [Next]_vars => (TypeOK /\ CountedIsOnline /\ Marks)'
    BY TypeStep, ExposedStep, MarksStep
  <1> QED
    BY <1>1, <1>2, PTL DEF Spec

\* RN-PRESENCE-004: a running server degrades a city only when its owner has had no
\* session for the whole grace; only the boot after a crash degrades it at once.
THEOREM GraceIsRespected == Spec => GraceRespected
  <1>1. TypeOK /\ CountedIsOnline /\ Marks /\ [Next]_vars => [GraceObserved]_vars
    BY TransitionStep
  <1>2. Spec => [][GraceObserved]_vars
    BY <1>1, MarksAlways, PTL DEF Spec
  <1> QED
    BY <1>2 DEF GraceRespected, GraceObserved

\* INV-CITY-005: applyPresence is never asked for an edge its machine forbids, so the
\* error it would log and drop never happens.
THEOREM TransitionsAreAllowed == Spec => []NoForbiddenTransition
  <1>1. Init => NoForbiddenTransition
    BY DEF Init, NoForbiddenTransition
  <1>2. TypeOK /\ CountedIsOnline /\ Marks /\ NoForbiddenTransition /\ [Next]_vars => NoForbiddenTransition'
    BY TransitionStep DEF NoForbiddenTransition
  <1> QED
    BY <1>1, <1>2, MarksAlways, PTL DEF Spec
=============================================================================
