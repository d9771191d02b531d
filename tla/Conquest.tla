------------------------------ MODULE Conquest ------------------------------
(***************************************************************************)
(* The conquest of territories (docs/specs/territory-conquest.md,          *)
(* ADR-034): a warrior claims the territory it stands on; if nothing       *)
(* breaks the claim before its term, the territory changes hands.          *)
(*                                                                         *)
(* The start is an order in two phases, an end is decided in RAM and       *)
(* written later, a capture waits for its transaction, which also moves    *)
(* the population limit of both cities.  All jobs of a claim are keyed by  *)
(* the claimer's city, so those of two claimers are not ordered among      *)
(* themselves.  The other writer of territory_control is the foundation of *)
(* a city, whose news reach the loop later.                                *)
(*                                                                         *)
(* A tile stands for its territory; a player for his only city, key of the *)
(* queue.  An id stands for a request and for the row it writes.           *)
(***************************************************************************)
EXTENDS Integers, JobQueues

CONSTANTS
    Player, None,
    Unit,           \* warriors
    UnitOwner,      \* [Unit -> Player]
    NumTerritories,
    Home,           \* [Player -> Territory \cup {None}]: what holds his city
    Settled,        \* players with a city when the model starts
    Owner0,         \* [Territory -> Player \cup {None}] when the model starts
    QueueCap, InboxCap,
    MaxClaims,      \* bound on orders to claim
    MaxFailed,      \* bound on commits without an answer, and on jobs that
                    \*   exhaust their attempts
    MaxCrash        \* bound on restarts

Territory == 1..NumTerritories
ClaimId == 1..MaxClaims

ASSUME ConquestAssumption ==
    /\ NumTerritories \in Nat \ {0} /\ None \notin Player
    /\ UnitOwner \in [Unit -> Player]
    /\ Home \in [Player -> Territory \cup {None}]
    /\ Settled \subseteq Player /\ Owner0 \in [Territory -> Settled \cup {None}]
    /\ {QueueCap, InboxCap, MaxClaims, MaxFailed, MaxCrash} \subseteq Nat

VARIABLES
    step,       \* where the tick is
    asked,      \* history: what each order to claim asked for
    status, at,             \* RAM: each warrior
    claims,                 \* conquestState.claims
    pendingEnds, pendingCaptures,
    control, limit,         \* State.control; the conquests in each city's limit
    present,                \* State.cities
    barred,     \* players at peace or protected: none of their claims goes on
    queue, inbox, lost,
    news,       \* foundations committed and not yet dispatched, or not yet applied
    row,        \* territory_claims
    dbControl, contested,   \* territory_control
    dbLimit, dbPresent,     \* cities
    phantom,    \* history: starts reported as failed although they committed
    nFailed, nCrash

warriors == <<status, at>>
conquest == <<claims, pendingEnds, pendingCaptures>>
world == <<control, limit, present, barred>>
mail == <<queue, inbox, lost, news>>
db == <<row, dbControl, contested, dbLimit, dbPresent>>
counters == <<nFailed, nCrash>>
vars == <<step, asked, warriors, conquest, world, mail, db, phantom, counters>>

\* The tick: inbox, commands, movement and combat, sweepClaims territory by
\* territory, flush.
Inbox == -2
Commands == 0
Advance == -1
Flush == NumTerritories + 1
Flushing == NumTerritories + 2

Status == {"idle", "busy", "claiming", "dead"}
Control == [owner: Player \cup {None}, version: Nat]
NoControl == [owner |-> None, version |-> 0]
Claim == [id: ClaimId \cup {0}, pending: BOOLEAN, capturing: BOOLEAN, from: Control]
NoClaim == [id |-> 0, pending |-> FALSE, capturing |-> FALSE, from |-> NoControl]

TerrOf(n) == asked[n].terr
UnitOf(n) == asked[n].unit
PlayerOf(n) == UnitOwner[asked[n].unit]

\* CaptureBonus: a city adds the territories it conquered, not its capital.
Bonus(p, t) == IF p = None THEN 0 ELSE IF Home[p] = t THEN 0 ELSE 1
Conquered(ctl, p) == Cardinality({t \in Territory : ctl[t].owner = p /\ Home[p] # t})

\* Jobs: the start, the end and the capture of a claim; `from` is the control a
\* capture expects.
Job(kind, n, from) ==
    [kind |-> kind, id |-> n, from |-> from,
     keys |-> {PlayerOf(n)} \cup (IF kind = "capture" THEN {from.owner} \ {None} ELSE {})]
StartJob(n) == Job("start", n, NoControl)
EndJob(n) == Job("end", n, NoControl)
CaptureJob(n, from) == Job("capture", n, from)

\* What comes back: ClaimResolved, ClaimEndPersistFailed, CaptureResolved.
Message ==
    [kind: {"started"}, id: ClaimId, ok: BOOLEAN]
      \cup [kind: {"endFailed"}, id: ClaimId]
      \cup [kind: {"captured"}, terr: Territory, control: Control]
      \cup [kind: {"conflict", "captureFailed"}, terr: Territory]

\* IntroducePlayer, which comes by the commands.
Introduction == [player: Player, control: Control]

FailureOf(j) ==
    CASE j.kind = "start" -> [kind |-> "started", id |-> j.id, ok |-> FALSE]
      [] j.kind = "end" -> [kind |-> "endFailed", id |-> j.id]
      [] j.kind = "capture" -> [kind |-> "captureFailed", terr |-> TerrOf(j.id)]

Post(taken, msgs) ==
    \E kept \in Keeps(inbox \ taken, msgs, InboxCap) :
        /\ inbox' = (inbox \ taken) \cup kept
        /\ lost' = lost \cup (msgs \ kept)

Submit(taken, j) ==
    IF Fits(queue, j, QueueCap)
    THEN queue' = Enqueued(queue, j) /\ inbox' = inbox \ taken /\ UNCHANGED lost
    ELSE Post(taken, {FailureOf(j)}) /\ UNCHANGED queue

Consume(m) == inbox' = inbox \ {m} /\ UNCHANGED <<queue, lost>>

\* The Init predicate of the RAM a database gives: Hydrate and SetClaims.
Active(n) == row[n] = "ACTIVE"
ActiveOn(t) == {n \in ClaimId : Active(n) /\ TerrOf(n) = t}

Init ==
    /\ step = Inbox /\ asked = <<>>
    /\ status = [u \in Unit |-> "idle"] /\ at \in [Unit -> Territory]
    /\ claims = [t \in Territory |-> NoClaim] /\ pendingEnds = {} /\ pendingCaptures = {}
    /\ dbControl = [t \in Territory |-> [owner |-> Owner0[t], version |-> 0]]
    /\ dbLimit = [p \in Player |-> Conquered(dbControl, p)]
    /\ control = dbControl /\ limit = dbLimit
    /\ present = Settled /\ dbPresent = Settled /\ barred = {}
    /\ queue = [p \in Player |-> <<>>] /\ inbox = {} /\ lost = {} /\ news = {}
    /\ row = [n \in ClaimId |-> "none"] /\ contested = {}
    /\ phantom = {} /\ nFailed = 0 /\ nCrash = 0

-----------------------------------------------------------------------------
(* What else moves a warrior: orders of its player, arrivals, deaths; and  *)
(* what makes a claim impossible: peace, protection.                       *)

\* A move, an attack, a task (busy), or a cancellation (idle: abandonClaim).
Order(u) ==
    /\ step = Commands /\ status[u] # "dead"
    /\ \E s \in {"busy", "idle"} : status' = [status EXCEPT ![u] = s]
    /\ UNCHANGED <<step, asked, at, conquest, world, mail, db, phantom, counters>>

Arrive(u) ==
    /\ step = Advance /\ status[u] = "busy"
    /\ status' = [status EXCEPT ![u] = "idle"]
    /\ \E t \in Territory : at' = [at EXCEPT ![u] = t]
    /\ UNCHANGED <<step, asked, conquest, world, mail, db, phantom, counters>>

Die(u) ==
    /\ step = Advance /\ status[u] # "dead"
    /\ status' = [status EXCEPT ![u] = "dead"]
    /\ UNCHANGED <<step, asked, at, conquest, world, mail, db, phantom, counters>>

Bar(p) ==
    /\ step \in {Commands, Advance}
    /\ barred' = (barred \cup {p}) \ (barred \cap {p})
    /\ UNCHANGED <<step, asked, warriors, conquest, control, limit, present, mail, db, phantom, counters>>

\* drainCommands takes commands only once the inbox is empty: what the inbox has
\* left when the budget of the tick is spent waits for the next.
Drained ==
    /\ step = Inbox
    /\ step' = IF inbox = {} THEN Commands ELSE Advance
    /\ UNCHANGED <<asked, warriors, conquest, world, mail, db, phantom, counters>>

\* The phases that are not of this component.
Proceed ==
    /\ step \in {Commands, Advance}
    /\ step' = IF step = Commands THEN Advance ELSE 1
    /\ UNCHANGED <<asked, warriors, conquest, world, mail, db, phantom, counters>>

-----------------------------------------------------------------------------
(* The claim.                                                              *)

IsCapital(p, t) == p # None /\ Home[p] = t

\* claimBlocked: the same predicate when it is ordered and in every sweep.
Blocked(p, t) ==
    LET owner == control[t].owner IN
    \/ owner = p \/ IsCapital(owner, t) \/ p \in barred
    \/ owner # None /\ owner \in barred

HandleClaim(u) ==
    LET t == at[u]
        n == Len(asked) + 1 IN
    /\ step = Commands /\ n \in ClaimId
    /\ UnitOwner[u] \in present /\ status[u] # "dead"
    /\ claims[t] = NoClaim /\ ~Blocked(UnitOwner[u], t)
    /\ asked' = Append(asked, [unit |-> u, terr |-> t])
    /\ status' = [status EXCEPT ![u] = "claiming"]
    /\ claims' = [claims EXCEPT ![t] = [NoClaim EXCEPT !.id = n, !.pending = TRUE]]
    /\ Submit({}, [kind |-> "start", id |-> n, from |-> NoControl, keys |-> {UnitOwner[u]}])
    /\ UNCHANGED <<step, at, pendingEnds, pendingCaptures, world, news, db, phantom, counters>>

\* dropClaim, and the warrior of the claim set free wherever it is planted.
Drop(t) == claims' = [claims EXCEPT ![t] = NoClaim]
Free(u) == status' = IF status[u] = "claiming" THEN [status EXCEPT ![u] = "idle"] ELSE status

\* endClaim of a claim that has its row.
EndClaim(taken, t) ==
    LET n == claims[t].id IN
    /\ Drop(t) /\ Free(UnitOf(n))
    /\ Submit(taken, EndJob(n))

\* Mutant: the warrior of a claim that did not start stays planted.
HandleStartedStillPlanted(m) ==
    LET t == TerrOf(m.id)
        c == claims[t] IN
    /\ step = Inbox /\ m \in inbox /\ m.kind = "started"
    /\ IF c.id = m.id /\ c.pending /\ m.ok /\ status[UnitOf(m.id)] # "claiming" THEN EndClaim({m}, t)
       ELSE /\ IF c.id # m.id \/ ~c.pending THEN UNCHANGED claims
               ELSE IF m.ok THEN claims' = [claims EXCEPT ![t].pending = FALSE] ELSE Drop(t)
            /\ Consume(m) /\ UNCHANGED status
    /\ UNCHANGED <<step, asked, at, pendingEnds, pendingCaptures, world, db, news, phantom, counters>>

HandleStarted(m) ==
    LET t == TerrOf(m.id)
        c == claims[t]
        u == UnitOf(m.id) IN
    /\ step = Inbox /\ m \in inbox /\ m.kind = "started"
    /\ CASE c.id # m.id \/ ~c.pending -> Consume(m) /\ UNCHANGED <<claims, status>>
         [] c.id = m.id /\ c.pending /\ ~m.ok -> Drop(t) /\ Free(u) /\ Consume(m)
         [] c.id = m.id /\ c.pending /\ m.ok /\ status[u] # "claiming" -> EndClaim({m}, t)
         [] OTHER ->
              /\ claims' = [claims EXCEPT ![t].pending = FALSE]
              /\ Consume(m) /\ UNCHANGED status
    /\ UNCHANGED <<step, asked, at, pendingEnds, pendingCaptures, world, db, news, phantom, counters>>

\* Mutant: an end that could not be written is only logged.
HandleEndFailedForgets(m) ==
    /\ step = Inbox /\ m \in inbox /\ m.kind = "endFailed"
    /\ Consume(m)
    /\ UNCHANGED <<step, asked, warriors, conquest, world, db, news, phantom, counters>>

HandleEndFailed(m) ==
    /\ step = Inbox /\ m \in inbox /\ m.kind = "endFailed"
    /\ pendingEnds' = pendingEnds \cup {m.id}
    /\ Consume(m)
    /\ UNCHANGED <<step, asked, warriors, claims, pendingCaptures, world, db, news, phantom, counters>>

\* handleCaptureResolved
HandleCaptured(m) ==
    LET t == m.terr
        n == claims[t].id
        new == PlayerOf(n)
        old == claims[t].from.owner IN
    /\ step = Inbox /\ m \in inbox /\ m.kind = "captured"
    /\ IF claims[t].capturing
       THEN /\ Drop(t) /\ Free(UnitOf(n))
            /\ limit' = [p \in Player |-> limit[p] + (IF p = new THEN Bonus(new, t) ELSE 0)
                                                   - (IF p = old THEN Bonus(old, t) ELSE 0)]
            /\ control' = [control EXCEPT ![t] = m.control]
       ELSE UNCHANGED <<claims, status, limit, control>>
    /\ Consume(m)
    /\ UNCHANGED <<step, asked, at, pendingEnds, pendingCaptures, present, barred, db, news, phantom, counters>>

HandleConflict(m) ==
    /\ step = Inbox /\ m \in inbox /\ m.kind = "conflict"
    /\ IF claims[m.terr].capturing THEN EndClaim({m}, m.terr)
       ELSE Consume(m) /\ UNCHANGED <<claims, status>>
    /\ UNCHANGED <<step, asked, at, pendingEnds, pendingCaptures, world, db, news, phantom, counters>>

\* Mutant: a capture that could not be written is only logged.
HandleCaptureFailedForgets(m) ==
    /\ step = Inbox /\ m \in inbox /\ m.kind = "captureFailed"
    /\ Consume(m)
    /\ UNCHANGED <<step, asked, warriors, conquest, world, db, news, phantom, counters>>

HandleCaptureFailed(m) ==
    /\ step = Inbox /\ m \in inbox /\ m.kind = "captureFailed"
    /\ pendingCaptures' = IF claims[m.terr].capturing THEN pendingCaptures \cup {m.terr} ELSE pendingCaptures
    /\ Consume(m)
    /\ UNCHANGED <<step, asked, warriors, claims, pendingEnds, world, db, news, phantom, counters>>

\* claimBroken
Broken(t) ==
    LET u == UnitOf(claims[t].id) IN
    status[u] # "claiming" \/ at[u] # t \/ Blocked(UnitOwner[u], t)

\* sweepClaims, one territory after another.
Sweeps(t) == step = t /\ step' = step + 1
Settles(t) == claims[t] # NoClaim /\ ~claims[t].pending /\ ~claims[t].capturing

SweepNothing(t) ==
    /\ Sweeps(t)
    /\ Settles(t) => ~Broken(t)
    /\ UNCHANGED <<asked, warriors, conquest, world, mail, db, phantom, counters>>

SweepBroken(t) ==
    /\ Sweeps(t) /\ Settles(t) /\ Broken(t)
    /\ EndClaim({}, t)
    /\ UNCHANGED <<asked, at, pendingEnds, pendingCaptures, world, db, news, phantom, counters>>

\* The term is over: startCapture.
SweepDue(t) ==
    /\ Sweeps(t) /\ Settles(t) /\ ~Broken(t)
    /\ claims' = [claims EXCEPT ![t].capturing = TRUE, ![t].from = control[t]]
    /\ Submit({}, CaptureJob(claims[t].id, control[t]))
    /\ UNCHANGED <<asked, warriors, pendingEnds, pendingCaptures, world, db, news, phantom, counters>>

\* flushClaims: the ends by id, then the captures by territory, while the
\* workers go on.
FlushEnd(n) ==
    /\ step = Flushing /\ n \in pendingEnds /\ \A o \in pendingEnds : n <= o
    /\ pendingEnds' = pendingEnds \ {n}
    /\ Submit({}, EndJob(n))
    /\ UNCHANGED <<step, asked, warriors, claims, pendingCaptures, world, db, news, phantom, counters>>

FlushCapture(t) ==
    /\ step = Flushing /\ pendingEnds = {}
    /\ t \in pendingCaptures /\ \A o \in pendingCaptures : t <= o
    /\ pendingCaptures' = pendingCaptures \ {t}
    /\ Submit({}, CaptureJob(claims[t].id, claims[t].from))
    /\ UNCHANGED <<step, asked, warriors, claims, pendingEnds, world, db, news, phantom, counters>>

\* The flush begins, and ends with nothing left to submit.
FlushBegins ==
    /\ step = Flush /\ step' = Flushing
    /\ UNCHANGED <<asked, warriors, conquest, world, mail, db, phantom, counters>>
FlushOver ==
    /\ step = Flushing /\ pendingEnds = {} /\ pendingCaptures = {}
    /\ step' = Inbox
    /\ UNCHANGED <<asked, warriors, conquest, world, mail, db, phantom, counters>>
FlushClaims ==
    (\E n \in pendingEnds : FlushEnd(n)) \/ (\E t \in pendingCaptures : FlushCapture(t)) \/ FlushOver

\* A tick without a flush.
EndTick ==
    /\ step = Flush /\ step' = Inbox
    /\ UNCHANGED <<asked, warriors, conquest, world, mail, db, phantom, counters>>

-----------------------------------------------------------------------------
(* The transactions of ConquestRepo.                                       *)

\* The two unique indexes on ACTIVE rows.
Clashes(n) ==
    \E o \in ClaimId \ {n} : Active(o) /\ (TerrOf(o) = TerrOf(n) \/ UnitOf(o) = UnitOf(n))

\* Mutant: the capture does not look at the version and the owner.
MatchesAny(j) == TRUE

\* The UPDATE of territory_control: the version and the owner RAM knew.
Matches(j) == dbControl[TerrOf(j.id)] = j.from

\* The capital of its owner, whose city the database has.
Capital(j) == j.from.owner \in dbPresent /\ IsCapital(j.from.owner, TerrOf(j.id))

Takes(j) == Active(j.id) /\ ~Capital(j) /\ Matches(j)

Accepts(j) ==
    CASE j.kind = "start" -> row[j.id] # "none" \/ ~Clashes(j.id)
      [] j.kind = "end" -> TRUE
      [] j.kind = "capture" -> Takes(j) \/ row[j.id] = "COMPLETED"

StartRow(j) ==
    /\ row' = [row EXCEPT ![j.id] = "ACTIVE"]
    /\ contested' = contested \cup {TerrOf(j.id)}
    /\ UNCHANGED <<dbControl, dbLimit, dbPresent>>

EndRow(j) ==
    /\ row' = [row EXCEPT ![j.id] = "FAILED"]
    /\ contested' = contested \ {TerrOf(j.id)}
    /\ UNCHANGED <<dbControl, dbLimit, dbPresent>>

\* Mutant: the limit of the previous owner stays as it was.
CaptureRowKeepsLimit(j) ==
    LET t == TerrOf(j.id)
        new == PlayerOf(j.id) IN
    /\ row' = [row EXCEPT ![j.id] = "COMPLETED"]
    /\ contested' = contested \ {t}
    /\ dbControl' = [dbControl EXCEPT ![t] = [owner |-> new, version |-> @.version + 1]]
    /\ dbLimit' = [dbLimit EXCEPT ![new] = @ + Bonus(new, t)]
    /\ UNCHANGED dbPresent

\* Mutant: the two deltas, each with the sign of the other.
CaptureRowSwapped(j) ==
    LET t == TerrOf(j.id)
        new == PlayerOf(j.id)
        old == j.from.owner IN
    /\ row' = [row EXCEPT ![j.id] = "COMPLETED"]
    /\ contested' = contested \ {t}
    /\ dbControl' = [dbControl EXCEPT ![t] = [owner |-> new, version |-> @.version + 1]]
    /\ dbLimit' = [p \in Player |-> dbLimit[p] - (IF p = new THEN Bonus(new, t) ELSE 0)
                                               + (IF p = old THEN Bonus(old, t) ELSE 0)]
    /\ UNCHANGED dbPresent

CaptureRow(j) ==
    LET t == TerrOf(j.id)
        new == PlayerOf(j.id)
        old == j.from.owner IN
    /\ row' = [row EXCEPT ![j.id] = "COMPLETED"]
    /\ contested' = contested \ {t}
    /\ dbControl' = [dbControl EXCEPT ![t] = [owner |-> new, version |-> @.version + 1]]
    /\ dbLimit' = [p \in Player |-> dbLimit[p] + (IF p = new THEN Bonus(new, t) ELSE 0)
                                               - (IF p = old THEN Bonus(old, t) ELSE 0)]
    /\ UNCHANGED dbPresent

\* Mutant: the end does not look at the status of its row.
WritesEndTwice(j) ==
    CASE j.kind = "start" -> row[j.id] = "none" /\ ~Clashes(j.id)
      [] j.kind = "end" -> TRUE
      [] j.kind = "capture" -> Takes(j)

\* What is already written, or already ended, is left alone.
Writes(j) ==
    CASE j.kind = "start" -> row[j.id] = "none" /\ ~Clashes(j.id)
      [] j.kind = "end" -> Active(j.id)
      [] j.kind = "capture" -> Takes(j)
Apply(j) ==
    IF ~Writes(j) THEN UNCHANGED db
    ELSE CASE j.kind = "start" -> StartRow(j)
           [] j.kind = "end" -> EndRow(j)
           [] j.kind = "capture" -> CaptureRow(j)

\* Mutant: a start that clashes is answered as if it were written.
AnswerOfClash(j) ==
    CASE j.kind = "start" -> {[kind |-> "started", id |-> j.id, ok |-> TRUE]}
      [] j.kind = "end" -> {}
      [] j.kind = "capture" /\ Accepts(j) ->
           {[kind |-> "captured", terr |-> TerrOf(j.id), control |-> dbControl'[TerrOf(j.id)]]}
      [] OTHER -> {[kind |-> "conflict", terr |-> TerrOf(j.id)]}

\* The answer, with the control the transaction leaves.
AnswerOf(j) ==
    CASE j.kind = "start" -> {[kind |-> "started", id |-> j.id, ok |-> Accepts(j)]}
      [] j.kind = "end" -> {}
      [] j.kind = "capture" /\ Accepts(j) ->
           {[kind |-> "captured", terr |-> TerrOf(j.id), control |-> dbControl'[TerrOf(j.id)]]}
      [] OTHER -> {[kind |-> "conflict", terr |-> TerrOf(j.id)]}

Run(p) ==
    LET j == Head(queue[p]) IN
    /\ Runnable(queue, p)
    /\ Apply(j)
    /\ queue' = Dequeued(queue, j)
    /\ Post({}, AnswerOf(j))
    /\ UNCHANGED <<step, asked, warriors, conquest, world, news, phantom, counters>>

\* A commit whose acknowledgement is lost: the job stays and is tried again.
RunUnacked(p) ==
    LET j == Head(queue[p]) IN
    /\ nFailed < MaxFailed /\ nFailed' = nFailed + 1
    /\ Runnable(queue, p) /\ Writes(j)
    /\ Apply(j)
    /\ UNCHANGED <<step, asked, warriors, conquest, world, mail, phantom, nCrash>>

\* The last attempt failed.
GiveUp(p) ==
    LET j == Head(queue[p]) IN
    /\ nFailed < MaxFailed /\ nFailed' = nFailed + 1
    /\ Runnable(queue, p)
    /\ queue' = Dequeued(queue, j)
    /\ Post({}, {FailureOf(j)})
    /\ phantom' = phantom \cup (IF j.kind = "start" /\ row[j.id] # "none" THEN {j.id} ELSE {})
    /\ UNCHANGED <<step, asked, warriors, conquest, world, db, nCrash, news>>

-----------------------------------------------------------------------------
(* The foundation of a city, and the boot.                                 *)

\* Bootstrapper.create takes the control of a free territory; the answer of the
\* foundation carries it to the loop, or is dropped with the commands full.
Found(p) ==
    LET t == Home[p]
        takes == t # None /\ dbControl[t].owner = None IN
    /\ p \notin dbPresent
    /\ dbPresent' = dbPresent \cup {p}
    /\ dbControl' = IF takes THEN [dbControl EXCEPT ![t] = [owner |-> p, version |-> @.version + 1]]
                    ELSE dbControl
    /\ news' = news \cup {[player |-> p, control |-> IF takes THEN dbControl'[t] ELSE NoControl]}
    /\ UNCHANGED <<step, asked, warriors, conquest, world, queue, inbox, lost, row, contested, dbLimit, phantom, counters>>

NewsDropped(m) ==
    /\ m \in news
    /\ news' = news \ {m} /\ lost' = lost \cup {m}
    /\ UNCHANGED <<step, asked, warriors, conquest, world, queue, inbox, db, phantom, counters>>

HandleIntroduce(m) ==
    /\ step = Commands /\ m \in news
    /\ present' = present \cup {m.player}
    /\ control' = IF m.control = NoControl THEN control
                  ELSE [control EXCEPT ![Home[m.player]] = m.control]
    /\ news' = news \ {m}
    /\ UNCHANGED <<step, asked, warriors, conquest, limit, barred, queue, inbox, lost, db, phantom, counters>>

\* A warrior is found where its last flush left it, perhaps alive again.
LoadedClaim(t) ==
    IF ActiveOn(t) = {} THEN NoClaim
    ELSE [NoClaim EXCEPT !.id = CHOOSE n \in ActiveOn(t) : TRUE]
Replants(u, s, l) ==
    s[u] = "idle" /\ \E n \in ClaimId : Active(n) /\ UnitOf(n) = u /\ TerrOf(n) = l[u]
Restart ==
    /\ nCrash < MaxCrash /\ nCrash' = nCrash + 1
    /\ step' = Inbox
    /\ \E s \in [Unit -> {"idle", "busy", "dead"}], l \in [Unit -> Territory] :
          /\ \A u \in Unit : s[u] = "dead" => status[u] = "dead"
          /\ status' = [u \in Unit |-> IF Replants(u, s, l) THEN "claiming" ELSE s[u]]
          /\ at' = l
    /\ claims' = [t \in Territory |-> LoadedClaim(t)]
    /\ pendingEnds' = {} /\ pendingCaptures' = {}
    /\ control' = dbControl /\ limit' = dbLimit /\ present' = dbPresent
    /\ queue' = [p \in Player |-> <<>>] /\ inbox' = {} /\ lost' = {} /\ news' = {} /\ phantom' = {}
    /\ UNCHANGED <<asked, barred, db, nFailed>>

-----------------------------------------------------------------------------
Handle(m) ==
    \/ HandleStarted(m) \/ HandleEndFailed(m) \/ HandleCaptured(m)
    \/ HandleConflict(m) \/ HandleCaptureFailed(m)

Sweep(t) == SweepNothing(t) \/ SweepBroken(t) \/ SweepDue(t)

Next ==
    \/ \E u \in Unit : Order(u) \/ Arrive(u) \/ Die(u) \/ HandleClaim(u)
    \/ \E p \in Player : Bar(p) \/ Found(p) \/ Run(p) \/ RunUnacked(p) \/ GiveUp(p)
    \/ Drained \/ Proceed \/ (\E m \in inbox : Handle(m))
    \/ (\E m \in news : HandleIntroduce(m) \/ NewsDropped(m))
    \/ (\E t \in Territory : Sweep(t))
    \/ FlushBegins \/ FlushClaims \/ EndTick
    \/ Restart

Spec == Init /\ [][Next]_vars

\* Ticks go on, the inbox is drained before what follows it, one tick in
\* FlushIntervalTicks flushes, the term of a claim that stands runs out, and
\* workers write.
Fairness ==
    /\ WF_vars(Drained) /\ WF_vars(Proceed) /\ WF_vars(FlushClaims)
    /\ WF_vars(FlushBegins \/ EndTick) /\ SF_vars(FlushBegins)
    /\ SF_vars(\E m \in inbox : Handle(m))
    /\ \A t \in Territory : WF_vars(Sweep(t)) /\ SF_vars(SweepDue(t))
    /\ \A p \in Player : WF_vars(Run(p))

FairSpec == Spec /\ Fairness

-----------------------------------------------------------------------------
(* Properties.                                                             *)

TypeOK ==
    /\ step \in -2..Flushing
    /\ asked \in Seq([unit: Unit, terr: Territory]) /\ Len(asked) <= MaxClaims
    /\ status \in [Unit -> Status] /\ at \in [Unit -> Territory]
    /\ claims \in [Territory -> Claim]
    /\ pendingEnds \subseteq ClaimId /\ pendingCaptures \subseteq Territory
    /\ control \in [Territory -> Control] /\ dbControl \in [Territory -> Control]
    /\ limit \in [Player -> Nat] /\ dbLimit \in [Player -> Nat]
    /\ present \subseteq Player /\ dbPresent \subseteq Player /\ barred \subseteq Player
    /\ DOMAIN queue = Player
    /\ \A j \in Queued(queue) : j = Job(j.kind, j.id, j.from)
    /\ inbox \subseteq Message /\ lost \subseteq Message \cup Introduction /\ news \subseteq Introduction
    /\ row \in [ClaimId -> {"none", "ACTIVE", "COMPLETED", "FAILED"}]
    /\ contested \subseteq Territory /\ phantom \subseteq ClaimId

\* ADR-034 (4), "contested is: there is an active claim", in the database, with
\* ends, captures and starts of different claimers in any order.
ContestedIsActive == \A t \in Territory : t \in contested <=> ActiveOn(t) # {}

\* ADR-034, "RAM and the database cannot disagree on the owner of a territory":
\* outside a capture in flight and the news of a foundation, they do not.
NewsOf(t) == \E m \in news \cup (lost \cap Introduction) : Home[m.player] = t /\ m.control # NoControl
OwnersAgree ==
    \A t \in Territory : control[t] = dbControl[t] \/ claims[t].capturing \/ NewsOf(t)

\* INV-ECON-004 (ADR-034 (6)): the limit of a city counts exactly the territories
\* its player conquered, in the database and in RAM.
LimitsAgree ==
    \A p \in Player : limit[p] = Conquered(control, p) /\ dbLimit[p] = Conquered(dbControl, p)

\* A warrior does not stay planted without a claim where it stands.
PlantedHasClaim ==
    \A u \in Unit : status[u] = "claiming" =>
        claims[at[u]].id # 0 /\ UnitOf(claims[at[u]].id) = u

\* Nothing exists for the others before its row does (ADR-034 (1)).
ConfirmedHasRow ==
    \A t \in Territory : LET c == claims[t] IN
        c.id # 0 /\ ~c.pending => Active(c.id) \/ (c.capturing /\ row[c.id] = "COMPLETED")

\* Every active row is in RAM, or its end is on its way.  A start reported as
\* failed although it committed is the exception (see NoOrphanRow).
Ending(n) ==
    \/ n \in pendingEnds \/ EndJob(n) \in Queued(queue)
    \/ [kind |-> "endFailed", id |-> n] \in inbox \cup lost
RowTracked ==
    \A n \in ClaimId : Active(n) => claims[TerrOf(n)].id = n \/ Ending(n) \/ n \in phantom

\* Whatever fails, a claim in RAM that waits for an answer has a job, a retry of
\* flushClaims or a message on its way: nobody waits for ever (unless an answer was
\* lost to a full inbox), and claims are swept once nothing is awaited.
About(t, c) ==
    {m \in (inbox \cup lost) \cap Message :
       IF m.kind \in {"started", "endFailed"} THEN m.kind = "started" /\ m.id = c.id
       ELSE m.terr = t}
AnswerAwaited ==
    \A t \in Territory : LET c == claims[t] IN
        /\ c # NoClaim /\ c.pending => StartJob(c.id) \in Queued(queue) \/ About(t, c) # {}
        /\ c.capturing => \/ CaptureJob(c.id, c.from) \in Queued(queue) \/ t \in pendingCaptures
                          \/ About(t, c) # {}

\* RAM, the rows of the claims and the contested marks tell the same of every
\* territory, whoever claims it and whatever is on its way (ADR-034 (1), (4)).
BaseAgrees == OwnersAgree /\ ConfirmedHasRow /\ PlantedHasClaim /\ ContestedIsActive

\* No claim is forgotten half way: neither its row in the database nor the answer
\* it waits for in RAM.
NothingForgotten == RowTracked /\ AnswerAwaited

\* INV-TERR-011: no transaction takes a territory from the player whose city is
\* in it.
CapitalKept ==
    [][\A t \in Territory, p \in Player :
          p \in dbPresent /\ IsCapital(p, t) /\ dbControl[t].owner = p => dbControl'[t].owner = p]_vars

\* A claim in RAM is captured or ends, and so is its row, unless an answer was
\* lost to a full inbox.
ClaimsEnd ==
    \A n \in ClaimId :
        (\E t \in Territory : claims[t].id = n)
            ~> ((\A t \in Territory : claims[t].id # n) \/ lost # {})

\* The same of its row: whatever fails, endClaim and flushClaims end it in the base.
RowsEnd == \A n \in ClaimId : Active(n) ~> (~Active(n) \/ lost # {} \/ n \in phantom)

\* OnPermanentFailure of the start: "the warrior is free".  With the row in the
\* database neither the warrior nor the territory can be claimed until a restart.
NoOrphanRow == \A n \in ClaimId : Active(n) => claims[TerrOf(n)].id = n \/ Ending(n)

\* RN-CONQ-005 lists what breaks a claim; the end of ANOTHER claim of the same
\* warrior is not in it: whoever is freed stands where the ended claim was.
FreesItsOwn ==
    [][\A t \in Territory :
          claims[t] # NoClaim /\ claims'[t] = NoClaim =>
             LET u == UnitOf(claims[t].id) IN
             status[u] = "claiming" /\ status'[u] = "idle" => at[u] = t]_vars
=============================================================================
