----------------------------- MODULE Diplomacy -----------------------------
(***************************************************************************)
(* Two players: their treaties, the offers of trade these allow, and a     *)
(* unit of one of them that a treaty of alliance lets into the city of the *)
(* other (internal/game/simulation/{treaties,trade,garrison}.go,           *)
(* internal/domain/{diplomacy,trade}, internal/persistence/postgres/       *)
(* {diplomacy,trade}.go).                                                  *)
(*                                                                         *)
(* The orders of the players go in two phases: the loop reserves the pair, *)
(* a transaction writes, a message confirms.  What the clock ends is ended *)
(* in memory at once and written behind.  Treaties, offers, deals and the  *)
(* unit each have a key of their own: their jobs run in order among        *)
(* themselves and in any order with the others.                            *)
(*                                                                         *)
(* What a deal moves is the subject of StockLedger, the walks of the unit  *)
(* that of Units.  A full queue gives a job up at once, which is GiveUp    *)
(* here.                                                                   *)
(***************************************************************************)
EXTENDS Naturals, Sequences, FiniteSets, SequencesExt

CONSTANTS
  Player,       \* the two players
  Types,        \* types of treaty they propose
  InboxSize,
  MaxFailures,  \* bound: jobs given up or committed without an answer
  MaxOrders     \* bound: orders, restarts and dates of administrative treaties

Rank == [TRADE |-> 1, NON_AGGRESSION |-> 2, ALLIANCE |-> 3]
Nobody == "NOBODY"   \* who proposed an administrative treaty
NoId == 0

ASSUME ConstantsAssumption ==
  /\ Cardinality(Player) = 2 /\ Nobody \notin Player
  /\ Types \subseteq DOMAIN Rank
  /\ InboxSize \in Nat \ {0}
  /\ MaxFailures \in Nat /\ MaxOrders \in Nat

VARIABLES
  pacts,     \* diplo.open: treaties proposed and active
  offers,    \* trade.open: offers pending
  busy,      \* books with an order that waits for its transaction
  failed,    \* failedEnds: closings given up, for the next sweep
  rejected,  \* proposers whose last treaty was turned down a moment ago
  guest,     \* the unit: entering, inside, waiting for a tile to leave
  past,      \* dates that have been reached
  queue,     \* per key, jobs submitted and not finished
  inbox,     \* messages of the workers to the loop
  row,       \* the rows of treaties, trade_offers and garrisons
  failures,  \* bounded count of failures
  orders,    \* bounded count of orders
  ghost,     \* history: an order was written and its author told it was not
  lost,      \* history: a message found the inbox full
  slipped,   \* history: a way in that the end of an alliance does not look at
  crossed    \* history: a unit was sent out while its way in was unanswered

loop == <<pacts, offers, busy, failed, rejected, guest>>
vars == <<loop, past, queue, inbox, row, failures, orders, ghost, lost, slipped, crossed>>

-----------------------------------------------------------------------------
(* Values.  A treaty and an offer bear the number of the request that       *)
(* proposed them.                                                          *)

Key == {"treaty", "trade", "city", "unit"}
OpenStates == {"PROPOSED", "ACTIVE"}

NewTreaty(n, p, ty) == [id |-> n, type |-> ty, by |-> p, st |-> "PROPOSED", brk |-> FALSE]
AllowsGarrison(t) == t.st = "ACTIVE" /\ t.type = "ALLIANCE"
Over(t) == <<t.id, t.st>> \in past

TreatyJob(t, from, sup, order) ==
  [key |-> "treaty", k |-> "Treaty", t |-> t, from |-> from, sup |-> sup, order |-> order]
OfferJob(o, order) == [key |-> "trade", k |-> "Offer", t |-> o, order |-> order]
AcceptJob(o) == [key |-> "city", k |-> "Accept", t |-> o, order |-> TRUE]
UnitJob(kind) == [key |-> "unit", k |-> kind, order |-> FALSE]
Answer(j, ok) == [job |-> j, ok |-> ok]
EnterJob == UnitJob("Enter")
LeaveJob == UnitJob("Leave")

Used == {t.id : t \in pacts \cup row.treaties} \cup {o.id : o \in offers \cup row.offers}
          \cup {queue["treaty"][i].job.t.id : i \in DOMAIN queue["treaty"]}
          \cup {queue["trade"][i].job.t.id : i \in DOMAIN queue["trade"]}
Fresh == CHOOSE n \in 1..(Cardinality(Used) + 1) : n \notin Used

\* Submit, for each key: every key keeps the order of its own jobs.
Submit(jobs) ==
  queue' = [k \in Key |-> queue[k] \o [i \in DOMAIN jobs[k] |-> [job |-> jobs[k][i], done |-> FALSE]]]
None == [k \in Key |-> <<>>]
Only(j) == [None EXCEPT ![j.key] = <<j>>]

Ordered == orders < MaxOrders /\ orders' = orders + 1
Quiet == UNCHANGED orders
Outside == UNCHANGED <<inbox, row, failures, ghost, lost>>

\* AllowsTradeAt, GivesPeaceAt: by the date, not by the sweep.
TradeAllowed(ts) == \E t \in ts : t.st = "ACTIVE" /\ ~Over(t)

-----------------------------------------------------------------------------
(* They begin as strangers, or allied by an administrative treaty. *)
Init ==
  /\ row \in {[treaties |-> ts, offers |-> {}, inside |-> FALSE] :
                ts \in {{}, {[NewTreaty(1, Nobody, "ALLIANCE") EXCEPT !.st = "ACTIVE"]}}}
  /\ pacts = row.treaties
  /\ offers = {} /\ busy = {} /\ failed = {} /\ rejected = {}
  /\ guest = [entering |-> FALSE, inside |-> FALSE, leaving |-> FALSE]
  /\ past = {} /\ queue = [k \in Key |-> <<>>] /\ inbox = <<>>
  /\ failures = 0 /\ orders = 0 /\ ghost = FALSE /\ lost = FALSE /\ slipped = FALSE /\ crossed = FALSE

(* Orders about treaties *)
TreatyOrder(job) ==
  /\ Ordered
  /\ busy' = busy \cup {"treaty"}
  /\ Submit(Only(job))
  /\ Outside
  /\ UNCHANGED <<pacts, offers, failed, rejected, guest, past, slipped, crossed>>

\* Supersedes: only a higher step of the ladder, over one nobody is breaking.
Improves(ty, t) == t.st = "ACTIVE" /\ ~t.brk /\ Rank[ty] > Rank[t.type]
\* Mutant of Free: the order in flight of the pair is not looked at.
FreeAlways(book) == TRUE

Free(book) == book \notin busy

ProposeTreaty(p, ty) ==
  /\ Free("treaty")
  /\ \A t \in pacts : Improves(ty, t)
  /\ p \notin rejected
  /\ TreatyOrder(TreatyJob(NewTreaty(Fresh, p, ty), "PROPOSED", NoId, TRUE))

RespondTreaty(p, t, accept) ==
  /\ t.st = "PROPOSED" /\ t.by # p /\ Free("treaty")
  /\ LET active == {o \in pacts : o.st = "ACTIVE"}
     IN TreatyOrder(TreatyJob([t EXCEPT !.st = IF accept THEN "ACTIVE" ELSE "REJECTED"], "PROPOSED",
          IF accept /\ active # {} THEN (CHOOSE o \in active : TRUE).id ELSE NoId, TRUE))

\* Withdraw an offer of one's own, or announce the end of a treaty in force.
CancelTreaty(p, t) ==
  /\ Free("treaty")
  /\ \/ /\ t.st = "PROPOSED" /\ t.by = p
        /\ TreatyOrder(TreatyJob([t EXCEPT !.st = "WITHDRAWN"], "PROPOSED", NoId, TRUE))
     \/ /\ t.st = "ACTIVE" /\ ~t.brk
        /\ TreatyOrder(TreatyJob([t EXCEPT !.brk = TRUE], "ACTIVE", NoId, TRUE))

(* Orders about offers of trade *)
TradeOrder(job) ==
  /\ Ordered
  /\ busy' = busy \cup {"trade"}
  /\ Submit(Only(job))
  /\ Outside
  /\ UNCHANGED <<pacts, offers, failed, rejected, guest, past, slipped, crossed>>

ProposeTrade(p) ==
  /\ Free("trade") /\ offers = {} /\ TradeAllowed(pacts)
  /\ TradeOrder(OfferJob([id |-> Fresh, by |-> p, st |-> "PROPOSED"], TRUE))
AcceptTrade(p, o) ==
  /\ o.by # p /\ Free("trade") /\ TradeAllowed(pacts)
  /\ TradeOrder(AcceptJob([o EXCEPT !.st = "ACCEPTED"]))
CloseTrade(p, o) ==
  /\ Free("trade")
  /\ TradeOrder(OfferJob([o EXCEPT !.st = IF o.by = p THEN "WITHDRAWN" ELSE "REJECTED"], TRUE))

(* The unit.  Whether a treaty lets it in is for the transaction to say. *)
GarrisonUnit ==
  /\ Ordered
  /\ ~guest.entering /\ ~guest.inside
  /\ guest' = [guest EXCEPT !.entering = TRUE]
  /\ Submit(Only(EnterJob))
  /\ Outside
  /\ UNCHANGED <<pacts, offers, busy, failed, rejected, past, slipped, crossed>>

\* exit: through a free tile, or it waits for one.
Left(tile) == IF tile THEN [guest EXCEPT !.inside = FALSE, !.leaving = FALSE]
              ELSE [guest EXCEPT !.leaving = TRUE]
LeftJobs(tile) == IF tile THEN Only(LeaveJob) ELSE None
UngarrisonUnit(tile) ==
  /\ Ordered
  /\ guest.inside /\ ~guest.entering /\ ~guest.leaving
  /\ guest' = Left(tile) /\ Submit(LeftJobs(tile))
  /\ Outside
  /\ UNCHANGED <<pacts, offers, busy, failed, rejected, past, slipped, crossed>>
RetryPendingExits ==
  /\ Quiet
  /\ guest.leaving
  /\ guest' = Left(TRUE) /\ Submit(LeftJobs(TRUE))
  /\ Outside
  /\ UNCHANGED <<pacts, offers, busy, failed, rejected, past, slipped, crossed>>

(* Time: the life of an offer, the notice of a break, the date an           *)
(* administrative treaty may bear (expires_at, which no order of a player   *)
(* sets), a grudge.                                                        *)
Reach(t) ==
  /\ ~Over(t)
  /\ past' = past \cup {<<t.id, t.st>>}
  /\ UNCHANGED <<loop, queue, slipped, crossed>> /\ Outside
Lapse(t) == Quiet /\ (t.st = "PROPOSED" \/ (t.st = "ACTIVE" /\ t.brk)) /\ Reach(t)
Expire(t) == Ordered /\ t.st = "ACTIVE" /\ t.by = Nobody /\ Reach(t)
Forgive ==
  /\ rejected # {} /\ rejected' = {}
  /\ UNCHANGED <<pacts, offers, busy, failed, guest, past, queue, orders, slipped, crossed>> /\ Outside

(* sweepTreaties: closings given up are submitted again; what is over ends, *)
(* unless its pair has an order in flight; an alliance that ends sends the  *)
(* guest out; then the offers of trade that are over, or that no treaty     *)
(* allows any longer.                                                      *)
Due == IF "treaty" \in busy THEN {} ELSE {t \in pacts : Over(t)}
\* Of a notice and a date, the notice: which one came first changes the name of
\* the end and nothing else.
Ended(t) == [t EXCEPT !.st = IF @ = "ACTIVE" /\ t.brk THEN "BROKEN" ELSE "EXPIRED"]
\* Mutant of Falls: the offers of a pair without a treaty wait for their date.
FallsByDate(o) == Over(o)

Falls(o) == Over(o) \/ ~TradeAllowed(pacts \ Due)
Falling == IF "trade" \in busy THEN {} ELSE {o \in offers : Falls(o)}
Expelled == guest.inside /\ ~guest.leaving /\ \E t \in Due : AllowsGarrison(t)
\* Mutant of ExpelledGuest: without a tile the guest just stays.
ExpelledGuestStays(tile) == IF tile THEN Left(tile) ELSE guest

ExpelledGuest(tile) == Left(tile)
Closings == {TreatyJob(Ended(t), t.st, NoId, FALSE) : t \in Due}
              \cup {OfferJob([o EXCEPT !.st = "EXPIRED"], FALSE) : o \in Falling}
ToSweep == failed # {} \/ Due # {} \/ Falling # {}
Sweep(tile) ==
  /\ Quiet
  /\ ToSweep
  /\ pacts' = pacts \ Due
  /\ offers' = offers \ Falling
  /\ failed' = {}
  /\ guest' = IF Expelled THEN ExpelledGuest(tile) ELSE guest
  /\ Submit([k \in Key |-> SetToSeq({j \in failed : j.key = k})
                            \o SetToSeq({j \in Closings : j.key = k})
                            \o (IF Expelled THEN LeftJobs(tile)[k] ELSE <<>>)])
  /\ crossed' = (crossed \/ (Expelled /\ guest.entering))
  /\ Outside
  /\ UNCHANGED <<busy, rejected, past, slipped>>

(* Messages *)
Allied(ts) == \E t \in ts : AllowsGarrison(t)
\* Mutant of Kept: a treaty that has ended is stored too.
KeptAlways(t) == {t}

Kept(t) == {o \in {t} : o.st \in OpenStates}
HandleTreatyResolved(m) ==
  LET t == m.job.t
  IN /\ busy' = busy \ {"treaty"}
     /\ IF ~m.ok THEN UNCHANGED <<pacts, rejected>>
        ELSE /\ pacts' = {o \in pacts : o.id \notin {t.id, m.job.sup}}
                           \cup Kept(t)
             /\ rejected' = IF t.st = "REJECTED" THEN rejected \cup {t.by} ELSE rejected
     /\ slipped' = (slipped \/ (m.ok /\ \E o \in pacts : o.id = m.job.sup /\ AllowsGarrison(o)))
     /\ UNCHANGED <<offers, failed, guest>>
HandleTradeResolved(m) ==
  LET o == m.job.t
  IN /\ busy' = busy \ {"trade"}
     /\ offers' = IF ~m.ok THEN offers
                  ELSE {x \in offers : x.id # o.id} \cup {x \in {o} : x.st = "PROPOSED"}
     /\ UNCHANGED <<pacts, failed, rejected, guest, slipped>>
\* Mutant of HandleEndPersistFailed: the closing is forgotten.
HandleEndForgotten(m) == failed' = failed

HandleEndPersistFailed(m) == failed' = failed \cup {m.job}
HandleGarrisonEntryResolved(m) ==
  /\ guest' = [guest EXCEPT !.entering = FALSE, !.inside = @ \/ m.ok]
  /\ slipped' = (slipped \/ (m.ok /\ ~Allied(pacts)))
  /\ UNCHANGED <<pacts, offers, busy, failed, rejected>>
HandleGarrisonExitFailed(m) ==
  /\ guest' = [guest EXCEPT !.inside = TRUE]
  /\ slipped' = (slipped \/ (~guest.inside /\ ~Allied(pacts)))
  /\ UNCHANGED <<pacts, offers, busy, failed, rejected>>

Handle ==
  /\ inbox # <<>> /\ inbox' = Tail(inbox)
  /\ LET m == Head(inbox)
     IN \/ m.job.k = "Treaty" /\ m.job.order /\ HandleTreatyResolved(m)
        \/ m.job.k \in {"Offer", "Accept"} /\ m.job.order /\ HandleTradeResolved(m)
        \/ /\ m.job.k \in {"Treaty", "Offer"} /\ ~m.job.order /\ HandleEndPersistFailed(m)
           /\ UNCHANGED <<pacts, offers, busy, rejected, guest, slipped>>
        \/ m.job.k = "Enter" /\ HandleGarrisonEntryResolved(m)
        \/ m.job.k = "Leave" /\ HandleGarrisonExitFailed(m)
  /\ UNCHANGED <<past, queue, row, failures, orders, ghost, lost, crossed>>

-----------------------------------------------------------------------------
(* Transactions.  Each yields the rows after it and whether it was applied. *)

Wrote(r) == [row |-> r, ok |-> TRUE]
Refused == [row |-> row, ok |-> FALSE]

\* INV-DIPLO-002: indexes treaties_one_offer_per_pair, treaties_one_active_per_pair.
OneOfEach(ts) == \A t, u \in ts : t.st = u.st /\ t.st \in OpenStates => t = u
Put(ts, t) == {x \in ts : x.id # t.id} \cup {t}

\* Mutant of ApplyTreaty: the treaty in force is not closed by the one that improves it.
ApplyTreatyBeside(j) ==
  LET old == {x \in row.treaties : x.id = j.t.id}
      ts  == Put(row.treaties, j.t)
  IN IF old = {} \/ \E x \in old : x.st = j.from
     THEN IF OneOfEach(ts) THEN Wrote([row EXCEPT !.treaties = ts]) ELSE Refused
     ELSE IF j.t \in row.treaties THEN Wrote(row) ELSE Refused

ApplyTreaty(j) ==
  LET insert == j.from = "PROPOSED" /\ j.t.st = "PROPOSED"
      old  == {x \in row.treaties : x.id = j.t.id}
      base == {IF x.id = j.sup /\ x.st = "ACTIVE" THEN [x EXCEPT !.st = "EXPIRED"] ELSE x : x \in row.treaties}
      ts   == Put(base, j.t)
  IN CASE insert /\ old # {} -> Wrote(row)
       [] (insert /\ old = {}) \/ (~insert /\ j.t \notin row.treaties /\ \E x \in old : x.st = j.from) ->
            IF OneOfEach(ts) THEN Wrote([row EXCEPT !.treaties = ts]) ELSE Refused
       [] OTHER -> IF j.t \in row.treaties THEN Wrote([row EXCEPT !.treaties = base]) ELSE Refused

\* INV-TRADE-003: index trade_offers_one_pending_per_pair.
ApplyOffer(j) ==
  LET old == {x \in row.offers : x.id = j.t.id}
  IN CASE j.t.st = "PROPOSED" ->
            IF old # {} THEN Wrote(row)
            ELSE IF \E x \in row.offers : x.st = "PROPOSED" THEN Refused
            ELSE Wrote([row EXCEPT !.offers = @ \cup {j.t}])
       [] j.t.st # "PROPOSED" /\ \E x \in old : x.st = "PROPOSED" ->
            Wrote([row EXCEPT !.offers = Put(@, j.t)])
       [] OTHER -> IF j.t \in old THEN Wrote(row) ELSE Refused

\* Accept: each deal bears its own request; its stock may be refused (StockLedger).
Accept(j, afford) ==
  CASE j.t \in row.offers -> Wrote(row)
    [] j.t \notin row.offers /\ afford /\ \E x \in row.offers : x.id = j.t.id /\ x.st = "PROPOSED" ->
         Wrote([row EXCEPT !.offers = Put(@, j.t)])
    [] OTHER -> Refused

Enter == IF row.inside THEN Wrote(row)
         ELSE IF Allied(row.treaties) THEN Wrote([row EXCEPT !.inside = TRUE]) ELSE Refused

Run(j, afford) ==
  CASE j.k = "Treaty" -> ApplyTreaty(j)
    [] j.k = "Offer"  -> ApplyOffer(j)
    [] j.k = "Accept" -> Accept(j, afford)
    [] j.k = "Enter"  -> Enter
    [] OTHER          -> Wrote([row EXCEPT !.inside = FALSE])

\* Mutant of Answers: a deal is written and nobody is told.
AnswersNoDeals(j) == j.k # "Accept" /\ (j.order \/ j.k = "Enter")

\* Closings and exits answer only when they fail; a closing takes a conflict for done.
Answers(j) == j.order \/ j.k = "Enter"
Send(m) ==
  /\ inbox' = IF Len(inbox) < InboxSize THEN Append(inbox, m) ELSE inbox
  /\ lost' = (lost \/ Len(inbox) >= InboxSize)

Commit(k, afford) ==
  /\ queue[k] # <<>>
  /\ LET j  == Head(queue[k]).job
         tx == Run(j, afford)
     IN /\ row' = tx.row
        /\ IF Answers(j) THEN Send(Answer(j, tx.ok)) ELSE UNCHANGED <<inbox, lost>>
  /\ queue' = [queue EXCEPT ![k] = Tail(@)]
  /\ UNCHANGED <<loop, past, failures, orders, ghost, slipped, crossed>>

CommitUnacked(k) ==
  /\ queue[k] # <<>> /\ ~Head(queue[k]).done
  /\ failures < MaxFailures /\ failures' = failures + 1
  /\ row' = Run(Head(queue[k]).job, TRUE).row
  /\ queue' = [queue EXCEPT ![k][1].done = TRUE]
  /\ UNCHANGED <<loop, past, inbox, orders, ghost, lost, slipped, crossed>>

GiveUp(k) ==
  /\ queue[k] # <<>>
  /\ failures < MaxFailures /\ failures' = failures + 1
  /\ Send(Answer(Head(queue[k]).job, FALSE))
  /\ LET j == Head(queue[k]).job
     IN ghost' = (ghost \/ (Head(queue[k]).done /\ (j.order \/ k = "unit")))
  /\ queue' = [queue EXCEPT ![k] = Tail(@)]
  /\ UNCHANGED <<loop, past, row, orders, slipped, crossed>>

(* A restart reads the open rows; the sweep closes what is over. *)
Open(r) == {t \in r.treaties : t.st \in OpenStates}
Pending(r) == {o \in r.offers : o.st = "PROPOSED"}
Restart ==
  /\ Ordered
  /\ pacts' = Open(row) /\ offers' = Pending(row)
  /\ busy' = {} /\ failed' = {}
  /\ guest' = [entering |-> FALSE, inside |-> row.inside, leaving |-> FALSE]
  /\ queue' = [k \in Key |-> <<>>] /\ inbox' = <<>>
  /\ ghost' = FALSE /\ lost' = FALSE /\ crossed' = FALSE
  /\ slipped' = (row.inside /\ ~Allied(row.treaties))
  /\ UNCHANGED <<rejected, past, row, failures>>

Orders ==
  \/ \E p \in Player :
       \/ \E ty \in Types : ProposeTreaty(p, ty)
       \/ \E t \in pacts : CancelTreaty(p, t) \/ \E accept \in BOOLEAN : RespondTreaty(p, t, accept)
       \/ ProposeTrade(p)
       \/ \E o \in offers : AcceptTrade(p, o) \/ CloseTrade(p, o)
  \/ GarrisonUnit
  \/ \E tile \in BOOLEAN : UngarrisonUnit(tile)
Time == Forgive \/ (\E t \in pacts \cup offers : Lapse(t)) \/ \E t \in pacts : Expire(t)
Worker(k) == (\E afford \in BOOLEAN : Commit(k, afford)) \/ CommitUnacked(k) \/ GiveUp(k)

Next ==
  \/ Orders
  \/ Time
  \/ RetryPendingExits
  \/ \E tile \in BOOLEAN : Sweep(tile)
  \/ Handle
  \/ \E k \in Key : Worker(k)
  \/ Restart

(* The loop drains its inbox and sweeps every second; a worker takes the    *)
(* head of its queue.  Each weak fairness has its ENABLED written out.      *)
Fairness ==
  /\ []<>(inbox = <<>>) \/ []<><<Handle>>_vars
  /\ []<>~ToSweep \/ []<><<\E tile \in BOOLEAN : Sweep(tile)>>_vars
  /\ \A k \in Key : []<>(queue[k] = <<>>) \/ []<><<Worker(k)>>_vars

Spec == Init /\ [][Next]_vars /\ Fairness

-----------------------------------------------------------------------------
(* Properties *)

TreatyType == [id : Nat, type : DOMAIN Rank, by : Player \cup {Nobody}, brk : BOOLEAN,
               st : OpenStates \cup {"REJECTED", "WITHDRAWN", "EXPIRED", "BROKEN"}]
\* Types of what the loop holds: treaties and offers that are open, and no other.
TypeOK ==
  /\ pacts \subseteq {t \in TreatyType : t.st \in OpenStates}
  /\ offers \subseteq [id : Nat, by : Player, st : {"PROPOSED"}]
  /\ busy \subseteq {"treaty", "trade"} /\ rejected \subseteq Player
  /\ guest \in [entering : BOOLEAN, inside : BOOLEAN, leaving : BOOLEAN]
  /\ row.treaties \subseteq TreatyType /\ Len(inbox) <= InboxSize

\* The loop holds at most one treaty in force and one proposed between two
\* players, and at most one offer of trade, whatever closes them and in whatever
\* order (INV-DIPLO-002, INV-TRADE-003).
OneBetweenTwo == OneOfEach(pacts) /\ Cardinality(offers) <= 1

\* While nothing fails the database takes every order the loop took: the queue
\* of the pair has already run the closings the loop had in mind.
OrdersFit ==
  failures = 0 /\ ~ghost => \A k \in {"treaty", "trade"} :
    queue[k] # <<>> => Run(Head(queue[k]).job, TRUE).ok

\* A pair is reserved only while its order is written or answered; a full inbox
\* may lose the answer, and then only a restart frees it (treaties.go, trade.go).
Awaited(books, kinds) ==
  \/ \E k \in books : \E i \in DOMAIN queue[k] : queue[k][i].job.order
  \/ \E i \in DOMAIN inbox : inbox[i].job.k \in kinds /\ inbox[i].job.order
BusyAwaited ==
  /\ "treaty" \in busy => lost \/ Awaited({"treaty"}, {"Treaty"})
  /\ "trade" \in busy => lost \/ Awaited({"trade", "city"}, {"Offer", "Accept"})

\* What a pair of players has between them is in order: one treaty and one offer at
\* a time, orders the database takes, and a reservation that somebody will lift.
PairInOrder == OneBetweenTwo /\ OrdersFit /\ BusyAwaited

\* Once everything is written, a restart finds what the loop holds: treaties,
\* offers and the guest.  Left out: an order its author was told had failed, what
\* a full inbox lost, and a unit expelled while a new entry of it is unanswered
\* (an exit that was given up had put it inside): expelGarrisons does not look at
\* IsEntering, and after a new alliance the rows take entry and exit in that order,
\* the loop in the other.
Settled == (\A k \in Key : queue[k] = <<>>) /\ inbox = <<>> /\ failed = {} /\ ~ghost /\ ~lost
RestartChangesNothing ==
  Settled => /\ pacts = Open(row) /\ offers = Pending(row)
             /\ ~slipped /\ ~crossed => guest.inside = row.inside

\* When an alliance ends its guest leaves, or waits for a tile (INV-GARR-008).
\* Left out, and shown by NobodyLeftInside: an entry answered after the alliance
\* ended, an exit that could not be written, a restart between the two writes,
\* and an alliance whose end was lost by a crash and that a lesser treaty replaces.
GuestsLeave == guest.inside /\ ~slipped => guest.leaving \/ Allied(pacts)

\* INV-GARR-008 as docs/invariants/diplomacy.md states it: with the alliance gone,
\* nobody is garrisoned in the other's city except to wait for a tile.
NobodyLeftInside == guest.inside => guest.leaving \/ Allied(pacts)

\* A treaty the loop has closed is closed in the database in the end: a closing
\* given up is submitted by the next sweep (ADR-027).
EndsWritten ==
  \A n \in 1..(MaxOrders + 1) :
    (\E t \in Open(row) : t.id = n) /\ (\A t \in pacts : t.id # n)
      ~> (\A t \in Open(row) : t.id # n) \/ (\E t \in pacts : t.id = n) \/ ghost \/ lost

\* An offer of trade does not outlive the treaty that allowed it (RN-TRADE-006).
OffersFall ==
  offers # {} /\ ~TradeAllowed(pacts) ~> offers = {} \/ TradeAllowed(pacts) \/ lost
=============================================================================
