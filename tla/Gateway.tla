------------------------------ MODULE Gateway ------------------------------
(***************************************************************************)
(* The connections of one player and the requests they repeat              *)
(* (internal/websocket/{server,limits}.go, internal/persistence/redis and  *)
(* its twin internal/persistence/memory).                                  *)
(*                                                                         *)
(* A client that lost the answer of a request opens another connection and *)
(* sends it again, while the goroutine of the first one may still be at    *)
(* work.  The reservation of the request in the store is taken, read,      *)
(* released and completed by different goroutines, one call at a time, and *)
(* the store may fail or forget.                                           *)
(***************************************************************************)
EXTENDS Naturals, Sequences, FiniteSets

CONSTANTS
  Session,         \* connections
  Request,         \* requestIds
  MaxConnections,  \* connections the server admits
  CommandCap,      \* commands the loop's channel holds
  MaxFailures      \* bound: calls to the store that fail, keys that expire, restarts

Nobody == "nobody"
NoRequest == "none"

ASSUME ConstantsAssumption ==
  /\ IsFiniteSet(Session) /\ Nobody \notin Session /\ NoRequest \notin Request
  /\ MaxConnections \in Nat \ {0} /\ CommandCap \in Nat \ {0} /\ MaxFailures \in Nat

VARIABLES
  reader,     \* per connection, where its goroutine is, and at which request
  alive,      \* connections whose client still listens
  sent,       \* per connection, the requests sent by it
  store,      \* per request, its key: absent, pending or the reply
  online,     \* the key of presence: the connection that holds it
  newest,     \* the last connection to write it
  commands,   \* the channel of commands of the loop, those of others unnamed
  running,    \* requests executed and not answered yet
  writing,    \* replies on their way to the store
  effects,    \* history: times each request was executed
  heard,      \* requests whose reply some connection got
  excused,    \* history: requests whose key failed or expired
  lapsed,     \* history: requests whose key was gone between its two reads
  burned,     \* history: requests whose reservation nobody will end
  faded,      \* history: the key of presence failed or expired
  failures    \* bounded count of failures

lost == <<excused, lapsed, burned, faded, failures>>
vars == <<reader, alive, sent, store, online, newest, commands, running, writing,
          effects, heard, lost>>

-----------------------------------------------------------------------------
At(pc, r) == [pc |-> pc, req |-> r]
Idle(pc) == At(pc, NoRequest)
Go(s, where) == reader' = [reader EXCEPT ![s] = where]
Open == {s \in Session : reader[s].pc \in {"READY", "READ", "DISPATCH", "RELEASE"}}

\* Sessions of the hub hear what the loop sends to the player.
Registered == {s \in Session : reader[s].pc \notin {"OUT", "HELLO", "LEAVING", "GONE"}}

Failing == failures < MaxFailures /\ failures' = failures + 1
World == UNCHANGED <<commands, running, writing, effects>>
Keys == UNCHANGED <<store, online, newest>>

Init ==
  /\ reader = [s \in Session |-> Idle("OUT")]
  /\ alive = {}
  /\ sent = [s \in Session |-> {}]
  /\ store = [r \in Request |-> "absent"]
  /\ online = Nobody /\ newest = Nobody
  /\ commands = <<>> /\ running = {} /\ writing = {}
  /\ effects = [r \in Request |-> 0]
  /\ heard = {} /\ excused = {} /\ lapsed = {} /\ burned = {}
  /\ faded = FALSE /\ failures = 0

-----------------------------------------------------------------------------
(* A connection *)

\* connLimiter.acquire: the place is kept until the goroutine ends.
Places == {s \in Session : reader[s].pc \notin {"OUT", "GONE"}}
Connect(s) ==
  /\ reader[s].pc = "OUT"
  /\ Cardinality(Places) < MaxConnections
  /\ Go(s, Idle("HELLO")) /\ alive' = alive \cup {s}
  /\ Keys /\ World /\ UNCHANGED <<sent, heard, lost>>

\* handshake: the ticket holds, or the connection ends before it has a session.
Hello(s, valid) ==
  /\ reader[s].pc = "HELLO"
  /\ Go(s, Idle(IF valid THEN "MARK" ELSE "GONE"))
  /\ alive' = IF valid THEN alive ELSE alive \ {s}
  /\ Keys /\ World /\ UNCHANGED <<sent, heard, lost>>

MarkOnline(s, fails) ==
  /\ reader[s].pc = "MARK"
  /\ IF fails THEN Failing /\ faded' = TRUE ELSE UNCHANGED <<failures, faded>>
  /\ Go(s, Idle("ADMIT"))
  /\ online' = IF fails THEN online ELSE s
  /\ newest' = s
  /\ World /\ UNCHANGED <<alive, sent, store, heard, excused, lapsed, burned>>

\* dispatchWithin: the loop counts the session in time, or it is closed.
Admit(s, admitted) ==
  /\ reader[s].pc = "ADMIT"
  /\ Go(s, Idle(IF admitted THEN "READY" ELSE "LEAVING"))
  /\ Keys /\ World /\ UNCHANGED <<alive, sent, heard, lost>>

\* The client goes, at any moment; its goroutine finds out when it reads.
Drop(s) ==
  /\ s \in alive /\ alive' = alive \ {s}
  /\ Keys /\ World /\ UNCHANGED <<reader, sent, heard, lost>>
Leave(s) ==
  /\ reader[s].pc = "READY" /\ s \notin alive
  /\ Go(s, Idle("LEAVING"))
  /\ Keys /\ World /\ UNCHANGED <<alive, sent, heard, lost>>

\* Mutant of ClearIfSession: the key is deleted whoever holds it.
ClearAnySession(s) == Nobody

ClearIfSession(s) == IF online = s THEN Nobody ELSE online
Finish(s) ==
  /\ reader[s].pc = "LEAVING"
  /\ Go(s, Idle("GONE")) /\ alive' = alive \ {s}
  /\ online' = ClearIfSession(s)
  /\ World /\ UNCHANGED <<sent, store, newest, heard, lost>>

-----------------------------------------------------------------------------
(* A request *)

\* The client sends a request once on each connection until it hears of it.
Sends(s, r) == /\ reader[s].pc = "READY" /\ s \in alive
               /\ r \notin sent[s] /\ r \notin heard
               /\ sent' = [sent EXCEPT ![s] = @ \cup {r}]

\* Mutant of Reserve: a reservation in place is taken for one's own.
ReserveAlways(r) == TRUE

Reserve(r) == store[r] = "absent"      \* SetNX wins

(* Claim, first call: the reservation is won, or there is one to read; if   *)
(* the store fails the command is executed anyway.                         *)
Claim(s, r) ==
  /\ Sends(s, r)
  /\ Go(s, At(IF Reserve(r) THEN "DISPATCH" ELSE "READ", r))
  /\ store' = IF Reserve(r) THEN [store EXCEPT ![r] = "pending"] ELSE store
  /\ World /\ UNCHANGED <<alive, online, newest, heard, lost>>
ClaimFails(s, r) ==
  /\ Sends(s, r)
  /\ Failing /\ excused' = excused \cup {r}
  /\ Go(s, At("DISPATCH", r))
  /\ Keys /\ World /\ UNCHANGED <<alive, heard, lapsed, burned, faded>>

(* Claim, second call: nothing (the key is gone: as if it were the first    *)
(* time), a request in progress (no answer) or its reply, told again.      *)
Read(s) ==
  /\ reader[s].pc = "READ"
  /\ LET r == reader[s].req
     IN /\ Go(s, IF store[r] = "absent" THEN At("DISPATCH", r) ELSE Idle("READY"))
        /\ lapsed' = IF store[r] = "absent" THEN lapsed \cup {r} ELSE lapsed
        /\ heard' = IF store[r] = "reply" /\ s \in alive THEN heard \cup {r} ELSE heard
  /\ Keys /\ World /\ UNCHANGED <<alive, sent, excused, burned, faded, failures>>

ReadFails(s) ==
  /\ reader[s].pc = "READ"
  /\ Failing /\ excused' = excused \cup {reader[s].req}
  /\ Go(s, At("DISPATCH", reader[s].req))
  /\ Keys /\ World /\ UNCHANGED <<alive, sent, heard, lapsed, burned, faded>>

\* Mutant of Rejected: a command that does not fit keeps its reservation.
RejectedForgotten(r) == Idle("READY")

Rejected(r) == At("RELEASE", r)
Dispatch(s) ==
  /\ reader[s].pc = "DISPATCH"
  /\ LET fits == Len(commands) < CommandCap
     IN /\ commands' = IF fits THEN Append(commands, reader[s].req) ELSE commands
        /\ Go(s, IF fits THEN Idle("READY") ELSE Rejected(reader[s].req))
  /\ Keys /\ UNCHANGED <<alive, sent, running, writing, effects, heard, lost>>

\* Release, and the error that invites to try again, on any connection.
Release(s, fails) ==
  /\ reader[s].pc = "RELEASE"
  /\ LET r == reader[s].req
     IN /\ store' = IF fails THEN store ELSE [store EXCEPT ![r] = "absent"]
        /\ IF fails THEN Failing /\ burned' = burned \cup {r} ELSE UNCHANGED <<failures, burned>>
        /\ sent' = [sent EXCEPT ![s] = @ \ {r}]
  /\ Go(s, Idle("READY"))
  /\ World /\ UNCHANGED <<alive, online, newest, heard, excused, lapsed, faded>>

\* The channel is everybody's: the command of another player takes its room.
Crowd ==
  /\ Len(commands) < CommandCap
  /\ commands' = Append(commands, NoRequest)
  /\ Keys /\ UNCHANGED <<reader, alive, sent, running, writing, effects, heard, lost>>

(* The loop executes it, and answers now or when its transaction ends: to   *)
(* every session of the player, and to the store by a goroutine of its own. *)
Execute ==
  /\ commands # <<>>
  /\ effects' = [r \in Request |-> IF r = Head(commands) /\ effects[r] < 2
                                  THEN effects[r] + 1 ELSE effects[r]]
  /\ running' = running \cup ({Head(commands)} \cap Request)
  /\ commands' = Tail(commands)
  /\ Keys /\ UNCHANGED <<reader, alive, sent, writing, heard, lost>>
Answer(r) ==
  /\ r \in running /\ running' = running \ {r}
  /\ heard' = IF Registered \cap alive # {} THEN heard \cup {r} ELSE heard
  /\ writing' = writing \cup {r}
  /\ Keys /\ UNCHANGED <<reader, alive, sent, commands, effects, lost>>

Complete(r, fails) ==
  /\ r \in writing /\ writing' = writing \ {r}
  /\ store' = IF fails THEN store ELSE [store EXCEPT ![r] = "reply"]
  /\ IF fails THEN Failing ELSE UNCHANGED failures
  /\ UNCHANGED <<reader, alive, sent, online, newest, commands, running, effects, heard,
                 excused, lapsed, burned, faded>>

-----------------------------------------------------------------------------
(* The store forgets a key whose time is over; a restart forgets the rest.  *)
Expire(r) ==
  /\ store[r] # "absent" /\ Failing
  /\ store' = [store EXCEPT ![r] = "absent"]
  /\ excused' = excused \cup {r}
  /\ World /\ UNCHANGED <<reader, alive, sent, online, newest, heard, lapsed, burned, faded>>
PresenceExpires ==
  /\ online # Nobody /\ Failing
  /\ online' = Nobody /\ faded' = TRUE
  /\ World /\ UNCHANGED <<reader, alive, sent, store, newest, heard, excused, lapsed, burned>>
Restart ==
  /\ Failing
  /\ reader' = [s \in Session |-> IF reader[s].pc = "OUT" THEN reader[s] ELSE Idle("GONE")]
  /\ alive' = {}
  /\ commands' = <<>> /\ running' = {} /\ writing' = {}
  /\ burned' = burned \cup {r \in Request : store[r] = "pending"}
  /\ UNCHANGED <<sent, store, online, newest, effects, heard, excused, lapsed, faded>>

Serve(s) ==
  \/ Connect(s)
  \/ \E ok \in BOOLEAN : Hello(s, ok) \/ MarkOnline(s, ~ok) \/ Admit(s, ok) \/ Release(s, ~ok)
  \/ \E r \in Request : Claim(s, r) \/ ClaimFails(s, r)
  \/ Read(s) \/ ReadFails(s) \/ Dispatch(s)
  \/ Drop(s) \/ Leave(s) \/ Finish(s)

Next ==
  \/ \E s \in Session : Serve(s)
  \/ Crowd \/ Execute
  \/ \E r \in Request : Answer(r) \/ Expire(r) \/ \E fails \in BOOLEAN : Complete(r, fails)
  \/ PresenceExpires
  \/ Restart

Spec == Init /\ [][Next]_vars

-----------------------------------------------------------------------------
(* Properties *)

\* Types of the connections, of the keys and of the commands.
TypeOK ==
  /\ reader \in [Session -> [pc : {"OUT", "HELLO", "MARK", "ADMIT", "READY", "READ", "DISPATCH",
                                   "RELEASE", "LEAVING", "GONE"},
                             req : Request \cup {NoRequest}]]
  /\ alive \subseteq Session /\ sent \in [Session -> SUBSET Request]
  /\ store \in [Request -> {"absent", "pending", "reply"}]
  /\ {online, newest} \subseteq Session \cup {Nobody}
  /\ commands \in Seq(Request \cup {NoRequest}) /\ Len(commands) <= CommandCap
  /\ effects \in [Request -> 0..2]
  /\ running \cup writing \cup heard \subseteq Request
  /\ excused \cup lapsed \cup burned \subseteq Request
  /\ faded \in BOOLEAN /\ failures \in 0..MaxFailures

\* A request that is repeated, by any connections and at any moment, is
\* executed once (INV-SEC-007) while the store answers and its key lives; the
\* one other way is a key released between the two calls of a Claim.
OneEffect == \A r \in Request : effects[r] > 1 => r \in excused \cup lapsed

\* A request is not reserved in vain: whoever finds it in progress may trust
\* that it was executed or will be (I-10: a full channel burns no requestId),
\* unless the process or the store failed in between.
ReservationKept ==
  \A r \in Request : store[r] = "pending" =>
    \/ \E s \in Session : reader[s] \in {At("DISPATCH", r), At("RELEASE", r)}
    \/ \E i \in DOMAIN commands : commands[i] = r
    \/ effects[r] > 0
    \/ r \in burned

\* The end of an old connection never takes away the presence of a newer one
\* (clearIfSessionScript), however late it comes.
NewestPresent ==
  newest \in Open => online = newest \/ faded

\* "La degradación con Redis caído ... es el único camino por el que el
\* invariante puede romperse" (INV-SEC-007).
OnlyOneWay == \A r \in Request : effects[r] > 1 => r \in excused
=============================================================================
