----------------------------- MODULE KeyedQueue -----------------------------
(***************************************************************************)
(* What the persistence queue promises to the simulation (the doc comments *)
(* of Queue and of Job.Key, Key2 and Run): every job is accepted or        *)
(* dropped; two jobs that share a key run in the order they were           *)
(* submitted, retries included, and never together; every job ends once,   *)
(* written or compensated.  Nothing is said of jobs that share no key.     *)
(***************************************************************************)
EXTENDS Naturals, Sequences

CONSTANTS Job,
          KeysOf       \* [Job -> SUBSET keys]: Job.Key and Job.Key2

VARIABLES accepted,    \* the jobs accepted, in order
          state        \* [Job -> State]

vars == <<accepted, state>>

Ended == {"written", "compensated"}
State == {"new", "queued", "running", "dropped"} \cup Ended

Shares(a, b) == KeysOf[a] \cap KeysOf[b] # {}

Init == accepted = <<>> /\ state = [j \in Job |-> "new"]

Accept(j) ==
    /\ state[j] = "new"
    /\ accepted' = Append(accepted, j)
    /\ state' = [state EXCEPT ![j] = "queued"]

Drop(j) ==
    /\ state[j] = "new"
    /\ state' = [state EXCEPT ![j] = "dropped"]
    /\ UNCHANGED accepted

\* A job starts when all that was accepted before it under one of its keys
\* has ended.
Start(j) ==
    /\ state[j] = "queued"
    /\ \A b \in 1..Len(accepted) : \A a \in 1..(b - 1) :
          accepted[b] = j /\ Shares(accepted[a], j) => state[accepted[a]] \in Ended
    /\ state' = [state EXCEPT ![j] = "running"]
    /\ UNCHANGED accepted

End(j) ==
    /\ state[j] = "running"
    /\ \E r \in Ended : state' = [state EXCEPT ![j] = r]
    /\ UNCHANGED accepted

Next == \E j \in Job : Accept(j) \/ Drop(j) \/ Start(j) \/ End(j)

Spec == Init /\ [][Next]_vars
=============================================================================
