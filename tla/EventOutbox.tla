----------------------------- MODULE EventOutbox -----------------------------
(***************************************************************************)
(* What the event queue of a client promises, whatever the threads, the    *)
(* retries and the network do: staged events wait in staging order, leave  *)
(* the queue only once the receiver has had them (or clear() discards      *)
(* them), and first reach the receiver in the order they were staged.      *)
(* Delivery is at least once.  Flush implements this module.               *)
(***************************************************************************)
EXTENDS Naturals, Sequences, Functions

CONSTANT Event        \* identities of staged events

VARIABLES queue,      \* staged and not yet trimmed, oldest first
          arrived,    \* the events the receiver has had at least once
          discarded   \* the events clear() dropped

outboxVars == <<queue, arrived, discarded>>

\* The first n elements of the queue, as a set.
Oldest(n) == {queue[i] : i \in 1..n}

Init == queue = <<>> /\ arrived = {} /\ discarded = {}

Stage(e) ==
    /\ e \notin Range(queue) \cup arrived \cup discarded
    /\ queue' = Append(queue, e)
    /\ UNCHANGED <<arrived, discarded>>

\* A payload reaches the receiver: a prefix of the queue, plus events that
\* arrived or were discarded before (a retried or late request).
Arrive(n, again) ==
    /\ again \subseteq arrived \cup discarded
    /\ arrived' = arrived \cup Oldest(n) \cup again
    /\ UNCHANGED <<queue, discarded>>

\* Only events the receiver has had leave the queue.
Confirm(n) ==
    /\ Oldest(n) \subseteq arrived
    /\ queue' = SubSeq(queue, n + 1, Len(queue))
    /\ UNCHANGED <<arrived, discarded>>

Discard ==
    /\ discarded' = discarded \cup Range(queue)
    /\ queue' = <<>>
    /\ UNCHANGED arrived

Next ==
    \/ \E e \in Event : Stage(e)
    \/ \E n \in 0..Len(queue) : \E again \in SUBSET (arrived \cup discarded) :
          Arrive(n, again)
    \/ \E n \in 1..Len(queue) : Confirm(n)
    \/ Discard

Spec == Init /\ [][Next]_outboxVars
==============================================================================
