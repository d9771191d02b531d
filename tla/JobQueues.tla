------------------------------ MODULE JobQueues ------------------------------
(***************************************************************************)
(* What the components that write behind the tick see of the persistence   *)
(* queue and of the loop's inbox.  WriteQueue and KeyedQueue are where the *)
(* queue itself is checked; here it is what they promise: a FIFO per key,  *)
(* and a job of two keys in both, that runs at the head of both.           *)
(*                                                                         *)
(* A queue is a function from keys to sequences of jobs, a job a record    *)
(* with a field `keys`, the set of its keys; the operators have no state.  *)
(***************************************************************************)
EXTENDS Naturals, Sequences, FiniteSets

Fits(q, j, cap) == \A k \in j.keys : Len(q[k]) < cap
Enqueued(q, j) == [k \in DOMAIN q |-> IF k \in j.keys THEN Append(q[k], j) ELSE q[k]]
Dequeued(q, j) == [k \in DOMAIN q |-> IF k \in j.keys THEN Tail(q[k]) ELSE q[k]]

Runnable(q, k) == q[k] # <<>> /\ \A l \in Head(q[k]).keys : q[l] # <<>> /\ Head(q[l]) = Head(q[k])
Queued(q) == UNION {{q[k][i] : i \in DOMAIN q[k]} : k \in DOMAIN q}

\* Inbox.Offer of the messages msgs, when rest is what the inbox holds: the sets
\* that may be kept.  A full inbox drops what does not fit, and nothing else.
Keeps(rest, msgs, cap) ==
    {kept \in SUBSET msgs :
        /\ Cardinality(rest \cup kept) <= cap \/ kept = {}
        /\ kept = msgs \/ Cardinality(rest \cup kept) >= cap}
=============================================================================
