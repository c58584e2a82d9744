------------------------------ MODULE JsClient ------------------------------
(***************************************************************************)
(* The JavaScript client: one event loop, on which several callers and the *)
(* interval timer flush one registry.  A second flush() does not queue: it *)
(* awaits the request in flight.  One action is one run of the event loop, *)
(* from one await to the next.                                             *)
(***************************************************************************)
EXTENDS Receiver

CONSTANTS Caller,      \* asynchronous code that calls flush() and close()
          Timer,       \* the callback of setInterval
          None,        \* #inFlight is null
          MaxRetries,  \* maxRetries
          MaxLate      \* bound: abandoned requests still travelling

ASSUME JsAssumption ==
    /\ Timer \notin Caller
    /\ None \notin Caller \cup {Timer}
    /\ MaxRetries \in Nat /\ MaxLate \in Nat

Flusher == Caller \cup {Timer}

VARIABLES
    events,     \* #events
    gauge,      \* the newest absolute value in the registry
    staged,     \* how many events were ever staged
    lastGauge,  \* the newest absolute value ever staged
    discarded,  \* events dropped by clear()
    timerOn,    \* #timer is set
    inFlight,   \* #inFlight: whose request it is
    pc,         \* where each flush() is
    kind,       \* "flush", "tick" or "close": the latest call of each
    unmet,      \* events it undertook to send and, once it resolved, has not
    payload, attempt, reply,   \* of the request it makes
    deaf,       \* its signal was aborted where nobody listens
    late        \* requests given up on that may still arrive

registryVars == <<events, gauge, staged, lastGauge, discarded>>
sendVars     == <<inFlight, pc, unmet, payload, attempt, reply, deaf>>
vars == <<registryVars, timerOn, kind, sendVars, late, receiverVars>>

TypeOK ==
    /\ events \in Seq(Ids) /\ discarded \subseteq Ids
    /\ gauge \in Gauges /\ lastGauge \in Gauges /\ staged \in 0..MaxEvents
    /\ timerOn \in BOOLEAN
    /\ inFlight \in Flusher \cup {None}
    /\ pc \in [Flusher -> {"idle", "sharing", "fetching", "answered", "backoff"}]
    /\ kind \in [Flusher -> {"flush", "tick", "close"}]
    /\ unmet \in [Flusher -> SUBSET Ids]
    /\ payload \in [Flusher -> Payloads]
    /\ attempt \in [Flusher -> 0..(MaxRetries + 1)]
    /\ reply \in [Flusher -> {"none", "ok", "busy", "rejected"}]
    /\ deaf \in [Flusher -> BOOLEAN]
    /\ late \subseteq Payloads
    /\ ReceiverTypeOK

Init ==
    /\ events = <<>> /\ discarded = {} /\ gauge = 0 /\ staged = 0 /\ lastGauge = 0
    /\ timerOn \in BOOLEAN
    /\ inFlight = None
    /\ pc = [c \in Flusher |-> "idle"]
    /\ kind = [c \in Flusher |-> IF c = Timer THEN "tick" ELSE "flush"]
    /\ unmet = [c \in Flusher |-> {}]
    /\ payload = [c \in Flusher |-> Unsent]
    /\ attempt = [c \in Flusher |-> 0]
    /\ reply = [c \in Flusher |-> "none"]
    /\ deaf = [c \in Flusher |-> FALSE]
    /\ late = {}
    /\ ReceiverInit

------------------------------------------------------------------------------
(* Staging, and the timer. *)

StageEvent ==
    /\ staged < MaxEvents
    /\ staged' = staged + 1
    /\ events' = Append(events, staged + 1)
    /\ UNCHANGED <<gauge, lastGauge, discarded, timerOn, kind, sendVars, late,
                   receiverVars>>

StageValue ==
    /\ lastGauge < MaxGauge
    /\ lastGauge' = lastGauge + 1
    /\ gauge' = lastGauge + 1
    /\ UNCHANGED <<events, staged, discarded, timerOn, kind, sendVars, late,
                   receiverVars>>

Clear ==
    /\ events # <<>> \/ gauge # 0
    /\ discarded' = discarded \cup Range(events)
    /\ events' = <<>>
    /\ gauge' = 0
    /\ UNCHANGED <<staged, lastGauge, timerOn, kind, sendVars, late, receiverVars>>

Start ==
    /\ timerOn' = TRUE
    /\ UNCHANGED <<registryVars, kind, sendVars, late, receiverVars>>

Stop ==
    /\ timerOn' = FALSE
    /\ UNCHANGED <<registryVars, kind, sendVars, late, receiverVars>>

------------------------------------------------------------------------------
(* flush(), up to its first await. *)

\* mutant: events alone are no reason to send
NoValueStaged == gauge = 0

Nothing == events = <<>> /\ gauge = 0

ReturnEmpty(c) ==
    /\ inFlight = None /\ Nothing
    /\ unmet' = [unmet EXCEPT ![c] = {}]
    /\ UNCHANGED <<inFlight, pc, payload, attempt, reply, deaf>>

\* What a second caller is promised is the request in flight; close() promises
\* to "flush one last time".
Share(c) ==
    /\ inFlight # None
    /\ unmet' = [unmet EXCEPT ![c] =
                    IF kind'[c] = "close" THEN Range(events) ELSE {}]
    /\ pc' = [pc EXCEPT ![c] = "sharing"]
    /\ UNCHANGED <<inFlight, payload, attempt, reply, deaf>>

Fetch(c) ==
    /\ unmet' = [unmet EXCEPT ![c] = Range(events)]
    /\ inFlight' = c
    /\ payload' = [payload EXCEPT ![c] = [events |-> events, gauge |-> gauge]]
    /\ attempt' = [attempt EXCEPT ![c] = 1]
    /\ pc' = [pc EXCEPT ![c] = "fetching"]
    /\ UNCHANGED <<reply, deaf>>

\* mutant: a request in flight does not keep another from starting
BeginAlways(c) == ~Nothing /\ Fetch(c)

Begin(c) ==
    /\ inFlight = None /\ ~Nothing
    /\ Fetch(c)

Flush(c, k) ==
    /\ pc[c] = "idle"
    /\ kind' = [kind EXCEPT ![c] = k]
    /\ ReturnEmpty(c) \/ Share(c) \/ Begin(c)
    /\ UNCHANGED <<registryVars, late, receiverVars>>

Tick == timerOn /\ Flush(Timer, "tick") /\ UNCHANGED timerOn

Close(c) == timerOn' = FALSE /\ Flush(c, "close")

CallFlush(c) == Flush(c, "flush") /\ UNCHANGED timerOn

------------------------------------------------------------------------------
(* The request in flight.  Its outcome is everybody's who awaits it. *)

Sending == {"fetching", "answered", "backoff"}

Awaiting(c) == {c} \cup {u \in Flusher : pc[u] = "sharing"}

\* mutant: #inFlight is reset only when the request succeeds
ResetOnSuccess(ok) == inFlight' = IF ok THEN None ELSE inFlight

Reset(ok) == inFlight' = None

\* #inFlight = null and the promise settles.  Whoever is rejected knows that
\* nothing is promised.
Settle(c, ok) ==
    /\ Reset(ok)
    /\ pc' = [u \in Flusher |-> IF u \in Awaiting(c) THEN "idle" ELSE pc[u]]
    /\ unmet' = [u \in Flusher |->
          IF u \notin Awaiting(c) THEN unmet[u]
          ELSE IF ok THEN unmet[u] \ (arrived \cup discarded) ELSE {}]
    /\ payload' = [payload EXCEPT ![c] = Unsent]
    /\ attempt' = [attempt EXCEPT ![c] = 0]
    /\ reply' = [reply EXCEPT ![c] = "none"]
    /\ deaf' = [deaf EXCEPT ![c] = FALSE]

EnterBackoff(c) ==
    /\ pc' = [pc EXCEPT ![c] = "backoff"]
    /\ reply' = [reply EXCEPT ![c] = "none"]
    /\ UNCHANGED <<inFlight, unmet, payload, attempt, deaf>>

\* mutant: a 5xx on the last attempt counts as sent
SucceedAnyway(c) ==
    /\ pc[c] = "answered"
    /\ reply[c] = "ok" \/ (reply[c] = "busy" /\ attempt[c] > MaxRetries)
    /\ events' = SubSeq(events, Len(payload[c].events) + 1, Len(events))
    /\ Settle(c, TRUE)
    /\ UNCHANGED <<gauge, staged, lastGauge, discarded, timerOn, kind, late,
                   receiverVars>>

\* A 2xx: the events of the payload are spliced off the queue.
Succeed(c) ==
    /\ pc[c] = "answered" /\ reply[c] = "ok"
    /\ events' = SubSeq(events, Len(payload[c].events) + 1, Len(events))
    /\ Settle(c, TRUE)
    /\ UNCHANGED <<gauge, staged, lastGauge, discarded, timerOn, kind, late,
                   receiverVars>>

\* Any other status once its body is discarded: a 4xx or the last attempt
\* rejects, 429 and 5xx back off.
Refused(c) ==
    /\ pc[c] = "answered" /\ reply[c] \in {"busy", "rejected"}
    /\ IF reply[c] = "rejected" \/ attempt[c] > MaxRetries
          THEN Settle(c, FALSE) ELSE EnterBackoff(c)
    /\ UNCHANGED <<registryVars, timerOn, kind, late, receiverVars>>

\* mutant: one failure too many is retried
FetchFailedOnceMore(c) ==
    IF attempt[c] > MaxRetries + 1 THEN Settle(c, FALSE) ELSE EnterBackoff(c)

\* fetch() rejects: no connection, no HTTP, or the timeout.
FetchFailed(c) ==
    IF attempt[c] > MaxRetries THEN Settle(c, FALSE) ELSE EnterBackoff(c)

\* The delay is over; fetch() rejects at once when the signal is aborted.
Retry(c) ==
    /\ pc[c] = "backoff"
    /\ \/ deaf[c] /\ Settle(c, FALSE)
       \/ /\ ~deaf[c]
          /\ pc' = [pc EXCEPT ![c] = "fetching"]
          /\ attempt' = [attempt EXCEPT ![c] = @ + 1]
          /\ UNCHANGED <<inFlight, unmet, payload, reply, deaf>>
    /\ UNCHANGED <<registryVars, timerOn, kind, late, receiverVars>>

\* The caller that started the request aborts its signal.  fetch() and delay()
\* listen; while the body is discarded nobody does, and delay() does not look
\* at a signal that was aborted before.
Abort(c) ==
    /\ kind[c] = "flush" /\ pc[c] \in Sending /\ ~deaf[c]
    /\ IF pc[c] = "answered"
          THEN /\ deaf' = [deaf EXCEPT ![c] = TRUE]
               /\ UNCHANGED <<inFlight, pc, unmet, payload, attempt, reply, late>>
          ELSE /\ Settle(c, FALSE)
               /\ \/ late' = late
                  \/ /\ pc[c] = "fetching" /\ Cardinality(late) < MaxLate
                     /\ late' = late \cup {payload[c]}
    /\ UNCHANGED <<registryVars, timerOn, kind, receiverVars>>

------------------------------------------------------------------------------
(* The network and the receiver (external). *)

Answer(c, r) ==
    /\ pc' = [pc EXCEPT ![c] = "answered"]
    /\ reply' = [reply EXCEPT ![c] = r]
    /\ UNCHANGED <<inFlight, unmet, payload, attempt, deaf>>

\* The request arrives; a status comes back, or the answer is lost.
Receive(c) ==
    /\ pc[c] = "fetching"
    /\ Apply(payload[c])
    /\ Answer(c, "ok") \/ Answer(c, "busy") \/ FetchFailed(c)
    /\ UNCHANGED <<registryVars, timerOn, kind, late>>

\* The request does not arrive, or its answer is an error.  A first attempt that
\* is rejected is also what a payload looks like that JSON.stringify throws on.
Refuse(c) ==
    /\ pc[c] = "fetching"
    /\ Answer(c, "busy") \/ Answer(c, "rejected") \/ FetchFailed(c)
    /\ UNCHANGED <<registryVars, timerOn, kind, late, receiverVars>>

\* timeoutMs is over while the request is still on its way.
TimeOut(c) ==
    /\ pc[c] = "fetching"
    /\ Cardinality(late) < MaxLate
    /\ late' = late \cup {payload[c]}
    /\ FetchFailed(c)
    /\ UNCHANGED <<registryVars, timerOn, kind, receiverVars>>

ArriveLate(p) ==
    /\ late' = late \ {p}
    /\ Apply(p)
    /\ UNCHANGED <<registryVars, timerOn, kind, sendVars>>

LoseLate(p) ==
    /\ late' = late \ {p}
    /\ UNCHANGED <<registryVars, timerOn, kind, sendVars, receiverVars>>

------------------------------------------------------------------------------

Step(c) == Succeed(c) \/ Refused(c) \/ Retry(c)

Network ==
    \/ \E c \in Flusher : Receive(c) \/ Refuse(c) \/ TimeOut(c)
    \/ \E p \in late : ArriveLate(p) \/ LoseLate(p)

InFlight == \E c \in Flusher : pc[c] \in Sending

\* The program calls clear() only while no request is in flight, in Spec itself:
\* every property here rests on it.  The trim by count after a clear() under a
\* request is shown by GoClient (NeverJams).
Next ==
    \/ StageEvent \/ StageValue
    \/ ~InFlight /\ Clear
    \/ Start \/ Stop \/ Tick
    \/ \E c \in Caller : CallFlush(c) \/ Close(c)
    \/ \E c \in Flusher : Step(c) \/ Abort(c)
    \/ Network

Spec == Init /\ [][Next]_vars

(* The event loop runs what is ready; timeoutMs ends every fetch; while it  *)
(* is set the interval fires again and again, now and then with no request  *)
(* of a caller in flight; a network that is tried for ever lets a request   *)
(* of the timer through again and again.                                    *)
Fairness ==
    /\ \A c \in Flusher : WF_vars(Step(c)) /\ WF_vars(Refuse(c))
    /\ WF_vars(\E p \in late : ArriveLate(p) \/ LoseLate(p))
    /\ SF_vars(Tick /\ inFlight = None)
    /\ SF_vars(Receive(Timer) /\ pc'[Timer] = "answered" /\ reply'[Timer] = "ok")

FairSpec == Spec /\ Fairness

------------------------------------------------------------------------------
(* Properties. *)

\* The client keeps the promise of EventOutbox: what leaves the queue has been
\* sent, and first arrives in staging order (registry.js:322).
Outbox == INSTANCE EventOutbox WITH
    Event <- Ids, queue <- events, arrived <- arrived
OutboxSpec == Outbox!Spec

\* A flush() that made its own request and resolved has sent every event that
\* was staged when it was called.
FlushedMeansSent ==
    \A c \in Flusher : pc[c] = "idle" /\ kind[c] # "close" => unmet[c] = {}

\* "Stops the timer and flushes one last time" (registry.js:352): a close()
\* that resolved has sent every event staged before it was called.
CloseDelivers ==
    \A c \in Caller : pc[c] = "idle" /\ kind[c] = "close" => unmet[c] = {}

\* Every flush() settles, the one whose abort nobody heard included.
FlushSettles == \A c \in Flusher : (pc[c] # "idle") ~> (pc[c] = "idle")

\* While the timer runs, the client catches up with what is staged, again and
\* again: a request that fails makes room for the next.
EventuallyDelivered ==
    <>[]timerOn => []<>(1..staged \subseteq arrived \cup discarded)
==============================================================================
