---------------------------- MODULE DotnetClient ----------------------------
(***************************************************************************)
(* The .NET client: tasks that call FlushAsync, DisposeAsync and Dispose,  *)
(* the background loop, and the semaphore that serialises flushes.  The    *)
(* program may pass an HttpClient of its own or not, so a request under    *)
(* way may or may not be answered after Dispose.                           *)
(***************************************************************************)
EXTENDS Receiver

Queue == INSTANCE SequencesExt

CONSTANTS Caller,      \* tasks of the program
          Loop,        \* the task of LoopAsync
          None,        \* nobody
          MaxRetries,  \* MaxRetries
          MaxLate,     \* bound: abandoned requests still travelling
          MaxStaged    \* bound: events and absolute values staged, together

ASSUME DotnetAssumption ==
    /\ Loop \notin Caller
    /\ None \notin Caller \cup {Loop}
    /\ MaxRetries \in Nat /\ MaxLate \in Nat /\ MaxStaged \in Nat

Task == Caller \cup {Loop}

VARIABLES
    events,     \* _events
    gauge,      \* the newest absolute value in the registry
    staged,     \* how many events were ever staged
    lastGauge,  \* the newest absolute value ever staged
    discarded,  \* events dropped by Clear
    disposed,   \* _disposed is set and _stopping cancelled
    cleaned,    \* Cleanup has run: _flushGate is disposed
    disposer,   \* the task that is inside DisposeAsync
    holder,     \* who holds _flushGate
    waiters,    \* who waits for it, first come first served
    pc,         \* where each task is
    unmet,      \* events staged before its call and, once it succeeded, not sent
    payload, attempt,   \* of the request it makes
    late        \* requests given up on that may still arrive

registryVars == <<events, gauge, staged, lastGauge, discarded>>
lifeVars     == <<disposed, cleaned, disposer>>
sendVars     == <<holder, waiters, pc, unmet, payload, attempt>>
vars == <<registryVars, lifeVars, sendVars, late, receiverVars>>

TypeOK ==
    /\ events \in Seq(Ids) /\ discarded \subseteq Ids
    /\ gauge \in Gauges /\ lastGauge \in Gauges /\ staged \in 0..MaxEvents
    /\ {disposed, cleaned} \subseteq BOOLEAN
    /\ disposer \in Caller \cup {None}
    /\ holder \in Task \cup {None}
    /\ waiters \in Seq(Task)
    /\ pc \in [Task -> {"idle", "joining", "queued", "locked", "posting", "backoff",
                        "trimming", "cleaning", "ended", "faulted"}]
    /\ unmet \in [Task -> SUBSET Ids]
    /\ payload \in [Task -> Payloads]
    /\ attempt \in [Task -> 0..(MaxRetries + 1)]
    /\ late \subseteq Payloads
    /\ ReceiverTypeOK

\* The constructor: without a FlushInterval the loop is a completed task.
Init ==
    /\ events = <<>> /\ discarded = {} /\ gauge = 0 /\ staged = 0 /\ lastGauge = 0
    /\ disposed = FALSE /\ cleaned = FALSE
    /\ disposer = None /\ holder = None /\ waiters = <<>>
    /\ \E p \in {"idle", "ended"} :
          pc = [t \in Task |-> IF t = Loop THEN p ELSE "idle"]
    /\ unmet = [t \in Task |-> {}]
    /\ payload = [t \in Task |-> Unsent]
    /\ attempt = [t \in Task |-> 0]
    /\ late = {}
    /\ ReceiverInit

------------------------------------------------------------------------------
(* Staging. *)

StageEvent ==
    /\ staged < MaxEvents /\ staged + lastGauge < MaxStaged
    /\ staged' = staged + 1
    /\ events' = Append(events, staged + 1)
    /\ UNCHANGED <<gauge, lastGauge, discarded, lifeVars, sendVars, late, receiverVars>>

StageValue ==
    /\ lastGauge < MaxGauge /\ staged + lastGauge < MaxStaged
    /\ lastGauge' = lastGauge + 1
    /\ gauge' = lastGauge + 1
    /\ UNCHANGED <<events, staged, discarded, lifeVars, sendVars, late, receiverVars>>

Clear ==
    /\ events # <<>> \/ gauge # 0
    /\ discarded' = discarded \cup Range(events)
    /\ events' = <<>>
    /\ gauge' = 0
    /\ UNCHANGED <<staged, lastGauge, lifeVars, sendVars, late, receiverVars>>

------------------------------------------------------------------------------
(* The gate. *)

\* WaitAsync of a gate that is not disposed.
Wait(t) ==
    IF holder = None
       THEN /\ holder' = t
            /\ pc' = [pc EXCEPT ![t] = "locked"]
            /\ UNCHANGED waiters
       ELSE /\ waiters' = Append(waiters, t)
            /\ pc' = [pc EXCEPT ![t] = "queued"]
            /\ UNCHANGED holder

\* mutant: an exception leaves the gate taken
ReleaseOnSuccess(t, next, how) ==
    IF how = "ok" /\ ~cleaned /\ waiters # <<>>
       THEN /\ holder' = Head(waiters)
            /\ waiters' = Tail(waiters)
            /\ pc' = [pc EXCEPT ![t] = next, ![Head(waiters)] = "locked"]
       ELSE /\ holder' = IF how = "ok" THEN None ELSE holder
            /\ pc' = [pc EXCEPT ![t] = next]
            /\ UNCHANGED waiters

\* Release hands the gate to the first waiter; on a disposed gate it throws,
\* and whoever waits goes on waiting.
Release(t, next, how) ==
    IF ~cleaned /\ waiters # <<>>
       THEN /\ holder' = Head(waiters)
            /\ waiters' = Tail(waiters)
            /\ pc' = [pc EXCEPT ![t] = next, ![Head(waiters)] = "locked"]
       ELSE /\ holder' = None
            /\ pc' = [pc EXCEPT ![t] = next]
            /\ UNCHANGED waiters

------------------------------------------------------------------------------
(* FlushAsync ends; `how` is "ok", "failed" or "cancelled". *)

\* LoopAsync: a failure goes to OnError, which may raise and fault the loop; a
\* cancellation ends it.
LoopGoesOn(how, next) ==
    \/ how = "ok" /\ next = "idle"
    \/ how = "cancelled" /\ next = "ended"
    \/ how = "failed" /\ next \in {"idle", "faulted"}

\* DisposeAsync hands the failure of its flush to OnError, which may raise.
DisposeGoesOn(how, next) ==
    \/ next = "cleaning"
    \/ how = "failed" /\ next = "idle"

Return(t, result) ==
    LET how == IF cleaned THEN "failed" ELSE result
    IN  \E next \in {"idle", "ended", "faulted", "cleaning"} :
          /\ CASE t = Loop     -> LoopGoesOn(how, next)
               [] t = disposer -> DisposeGoesOn(how, next)
               [] OTHER        -> next = "idle"
          /\ disposer' = IF t = disposer /\ next = "idle" THEN None ELSE disposer
          /\ Release(t, next, how)
          /\ unmet' = [unmet EXCEPT ![t] = IF how = "ok"
                                              THEN @ \ (arrived \cup discarded) ELSE {}]
          /\ payload' = [payload EXCEPT ![t] = Unsent]
          /\ attempt' = [attempt EXCEPT ![t] = 0]
          /\ UNCHANGED <<disposed, cleaned>>

------------------------------------------------------------------------------
(* Calls. *)

Undertake(t) == unmet' = [unmet EXCEPT ![t] = Range(events)]

\* FlushAsync of a disposed client throws at once.
FlushAsync(c) ==
    /\ pc[c] = "idle" /\ ~cleaned
    /\ Wait(c) /\ Undertake(c)
    /\ UNCHANGED <<registryVars, lifeVars, payload, attempt, late, receiverVars>>

Tick == ~disposed /\ FlushAsync(Loop)

\* The delay is cancelled, or `while` sees the token; after Dispose the token
\* itself may throw.
Quit ==
    /\ pc[Loop] = "idle" /\ disposed
    /\ \E p \in {"ended"} \cup (IF cleaned THEN {"faulted"} ELSE {}) :
          pc' = [pc EXCEPT ![Loop] = p]
    /\ UNCHANGED <<registryVars, lifeVars, holder, waiters, unmet, payload, attempt, late,
                   receiverVars>>

\* A second call returns at once.
DisposeAsync(c) ==
    /\ pc[c] = "idle" /\ ~disposed
    /\ disposed' = TRUE
    /\ disposer' = c
    /\ pc' = [pc EXCEPT ![c] = "joining"]
    /\ Undertake(c)
    /\ UNCHANGED <<registryVars, cleaned, holder, waiters, payload, attempt, late,
                   receiverVars>>

Joined(c) ==
    /\ pc[c] = "joining" /\ pc[Loop] = "ended"
    /\ Wait(c)
    /\ UNCHANGED <<registryVars, lifeVars, unmet, payload, attempt, late, receiverVars>>

\* await _loop rethrows what OnError raised: no final flush, no Cleanup.
JoinThrows(c) ==
    /\ pc[c] = "joining" /\ pc[Loop] = "faulted"
    /\ pc' = [pc EXCEPT ![c] = "idle"]
    /\ disposer' = None
    /\ unmet' = [unmet EXCEPT ![c] = {}]
    /\ UNCHANGED <<registryVars, disposed, cleaned, holder, waiters, payload, attempt, late,
                   receiverVars>>

Cleanup(c) ==
    /\ pc[c] = "cleaning"
    /\ pc' = [pc EXCEPT ![c] = "idle"]
    /\ cleaned' = TRUE /\ disposer' = None
    /\ UNCHANGED <<registryVars, disposed, holder, waiters, unmet, payload, attempt, late,
                   receiverVars>>

\* Cancels _stopping, and goes on to Cleanup without waiting for anyone.
Dispose(c) ==
    /\ pc[c] = "idle" /\ ~disposed
    /\ disposed' = TRUE
    /\ pc' = [pc EXCEPT ![c] = "cleaning"]
    /\ UNCHANGED <<registryVars, cleaned, disposer, holder, waiters, unmet, payload, attempt,
                   late, receiverVars>>

\* The token of the call is cancelled (_stopping for the loop): WaitAsync,
\* SendAsync and Delay throw, and a request under way may still arrive.
Cancel(t) ==
    /\ IF t = Loop THEN disposed ELSE t # disposer
    /\ \/ /\ pc[t] = "queued"
          /\ waiters' = Queue!RemoveFirst(waiters, t)
          /\ pc' = [pc EXCEPT ![t] = IF t = Loop THEN "ended" ELSE "idle"]
          /\ unmet' = [unmet EXCEPT ![t] = {}]
          /\ UNCHANGED <<lifeVars, holder, payload, attempt, late>>
       \/ /\ pc[t] \in {"posting", "backoff"}
          /\ Return(t, "cancelled")
          /\ \/ late' = late
             \/ /\ pc[t] = "posting" /\ Cardinality(late) < MaxLate
                /\ late' = late \cup {payload[t]}
    /\ UNCHANGED <<registryVars, receiverVars>>

------------------------------------------------------------------------------
(* FlushAsync under the gate, and PostAsync. *)

\* mutant: events alone are no reason to send
NoValueStaged == gauge = 0

Nothing == events = <<>> /\ gauge = 0

SkipEmpty(t) ==
    /\ pc[t] = "locked" /\ Nothing
    /\ Return(t, "ok")
    /\ UNCHANGED <<registryVars, late, receiverVars>>

Post(t) ==
    /\ pc' = [pc EXCEPT ![t] = "posting"]
    /\ attempt' = [attempt EXCEPT ![t] = @ + 1]

Snapshot(t) ==
    /\ pc[t] = "locked" /\ ~Nothing
    /\ payload' = [payload EXCEPT ![t] = [events |-> events, gauge |-> gauge]]
    /\ Post(t)
    /\ UNCHANGED <<registryVars, lifeVars, holder, waiters, unmet, late, receiverVars>>

Retry(t) ==
    /\ pc[t] = "backoff"
    /\ Post(t)
    /\ UNCHANGED <<registryVars, lifeVars, holder, waiters, unmet, payload, late,
                   receiverVars>>

\* mutant: one event too many is removed
TrimOneMore(t) ==
    /\ pc[t] = "trimming"
    /\ events' = SubSeq(events, Len(payload[t].events) + 2, Len(events))
    /\ Return(t, "ok")
    /\ UNCHANGED <<gauge, staged, lastGauge, discarded, late, receiverVars>>

\* RemoveRange of what was sent, or of all there is.
Trim(t) ==
    /\ pc[t] = "trimming"
    /\ events' = SubSeq(events, Len(payload[t].events) + 1, Len(events))
    /\ Return(t, "ok")
    /\ UNCHANGED <<gauge, staged, lastGauge, discarded, late, receiverVars>>

Enter(t, p) ==
    /\ pc' = [pc EXCEPT ![t] = p]
    /\ UNCHANGED <<lifeVars, holder, waiters, unmet, payload, attempt>>

\* mutant: the last failure is forgotten
AttemptForgiven(t) ==
    IF attempt[t] > MaxRetries THEN Enter(t, "trimming") ELSE Enter(t, "backoff")

\* mutant: one failure too many is retried
AttemptFailsLate(t) ==
    IF attempt[t] > MaxRetries + 1 THEN Return(t, "failed") ELSE Enter(t, "backoff")

\* No (complete) answer, 429 or 5xx.
AttemptFails(t) ==
    IF attempt[t] > MaxRetries THEN Return(t, "failed") ELSE Enter(t, "backoff")

------------------------------------------------------------------------------
(* The network and the receiver (external). *)

\* The request arrives; a 2xx comes back, another answer or none.
Receive(t) ==
    /\ pc[t] = "posting"
    /\ Apply(payload[t])
    /\ Enter(t, "trimming") \/ AttemptFails(t)
    /\ UNCHANGED <<registryVars, late>>

\* The request does not arrive, or a 4xx refuses it.  A first attempt that is
\* refused is also what a payload looks like that cannot be serialized: nothing
\* arrives or is trimmed, the loop hands the failure to OnError, and DisposeAsync
\* does not catch it and leaves without Cleanup.
Refuse(t) ==
    /\ pc[t] = "posting"
    /\ AttemptFails(t) \/ Return(t, "failed")
    /\ UNCHANGED <<registryVars, late, receiverVars>>

\* Timeout is over while the request is still on its way.
TimeOut(t) ==
    /\ pc[t] = "posting"
    /\ Cardinality(late) < MaxLate
    /\ late' = late \cup {payload[t]}
    /\ AttemptFails(t)
    /\ UNCHANGED <<registryVars, receiverVars>>

ArriveLate(p) ==
    /\ late' = late \ {p}
    /\ Apply(p)
    /\ UNCHANGED <<registryVars, lifeVars, sendVars>>

LoseLate(p) ==
    /\ late' = late \ {p}
    /\ UNCHANGED <<registryVars, lifeVars, sendVars, receiverVars>>

------------------------------------------------------------------------------

Step(t) == SkipEmpty(t) \/ Snapshot(t) \/ Retry(t) \/ Trim(t)

Network ==
    \/ \E t \in Task : Receive(t) \/ Refuse(t) \/ TimeOut(t)
    \/ \E p \in late : ArriveLate(p) \/ LoseLate(p)

InFlight == \E t \in Task : pc[t] \in {"posting", "backoff", "trimming"}

Finish(c) == Joined(c) \/ JoinThrows(c) \/ Cleanup(c)

\* The program calls Clear only while no request is in flight, in Spec itself:
\* every property here rests on it.  The trim by count after a Clear under a
\* request is shown by GoClient (NeverJams).
Next ==
    \/ StageEvent \/ StageValue
    \/ ~InFlight /\ Clear
    \/ \E c \in Caller : FlushAsync(c) \/ DisposeAsync(c) \/ Dispose(c) \/ Finish(c)
    \/ Tick \/ Quit
    \/ \E t \in Task : Step(t) \/ Cancel(t)
    \/ Network

Spec == Init /\ [][Next]_vars

(* Tasks go on; Timeout ends every attempt; the delay of the loop ends and a *)
(* cancelled token is noticed; a network that is tried for ever lets a       *)
(* request of the loop through again and again.                              *)
Fairness ==
    /\ \A t \in Task : WF_vars(Step(t)) /\ WF_vars(Refuse(t))
    /\ \A c \in Caller : WF_vars(Finish(c))
    /\ WF_vars(Tick) /\ WF_vars(Quit) /\ WF_vars(Cancel(Loop))
    /\ SF_vars(Receive(Loop) /\ pc'[Loop] = "trimming")

FairSpec == Spec /\ Fairness

------------------------------------------------------------------------------
(* Properties. *)

\* The client keeps the promise of EventOutbox (Telemetry.cs:451-452).
Outbox == INSTANCE EventOutbox WITH
    Event <- Ids, queue <- events, arrived <- arrived
OutboxSpec == Outbox!Spec

\* A FlushAsync or DisposeAsync whose send succeeded has sent every event
\* staged before it was called.
SuccessMeansSent == \A c \in Caller : pc[c] = "idle" => unmet[c] = {}

\* DisposeAsync returns: it cancels the flush of the loop, outlasts those of
\* other callers, and its own flush gets the gate in its turn.  A FlushAsync
\* returns, if the client is not disposed while it waits: nobody wakes who
\* waits for a disposed gate.
CallsReturn ==
    \A c \in Caller : /\ (disposer = c) ~> (disposer # c)
                      /\ (pc[c] # "idle") ~> (pc[c] = "idle" \/ cleaned)

\* While the loop runs, the client catches up with what is staged, again and
\* again.  An exception of OnError ends the loop.
EventuallyDelivered ==
    [](pc[Loop] \notin {"ended", "faulted"} /\ ~disposed)
        => []<>(1..staged \subseteq arrived \cup discarded)
==============================================================================
