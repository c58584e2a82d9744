-------------------------------- MODULE Flush --------------------------------
(***************************************************************************)
(* One registry of the Python client and the threads (or asyncio tasks)    *)
(* that flush it: staging, the flush lock, the snapshot, the retry loop of *)
(* _transport.post, the trim of the sent events, and clear().  The         *)
(* network and the receiver are external (Receiver).                       *)
(***************************************************************************)
EXTENDS Receiver

CONSTANTS Thread,      \* threads or tasks that call flush()
          Loop,        \* the one of them that runs _loop()
          Free,        \* "the flush lock is not held"
          MaxRetries,  \* max_retries of the client
          Cancellable, \* TRUE for the asyncio front end
          MaxLate      \* bound: abandoned requests still travelling

ASSUME FlushAssumption ==
    /\ Loop \in Thread
    /\ Free \notin Thread
    /\ MaxRetries \in Nat
    /\ Cancellable \in BOOLEAN
    /\ MaxLate \in Nat

VARIABLES
    events,     \* Registry._events
    gauge,      \* the newest absolute value in the registry
    staged,     \* how many events were ever staged
    lastGauge,  \* the newest absolute value ever staged
    discarded,  \* events dropped by clear()
    flushLock,  \* Telemetry._flush_lock: its holder
    pc,         \* where each thread is inside flush()
    payload,    \* the payload each thread built
    attempt,    \* `attempt` of the retry loop
    reply,      \* what the attempt under way has come back with
    late        \* requests given up on that may still arrive

registryVars == <<events, gauge, staged, lastGauge, discarded>>
flushVars    == <<flushLock, pc, payload, attempt>>
vars == <<registryVars, flushVars, reply, late, receiverVars>>

TypeOK ==
    /\ events \in Seq(Ids)
    /\ gauge \in Gauges /\ lastGauge \in Gauges
    /\ staged \in 0..MaxEvents
    /\ discarded \subseteq Ids
    /\ flushLock \in Thread \cup {Free}
    /\ pc \in [Thread -> {"idle", "locked", "posting", "backoff", "trimming"}]
    /\ payload \in [Thread -> Payloads]
    /\ attempt \in [Thread -> 0..(MaxRetries + 1)]
    /\ reply \in [Thread -> Replies]
    /\ late \subseteq Payloads
    /\ ReceiverTypeOK

Init ==
    /\ events = <<>> /\ gauge = 0 /\ staged = 0 /\ lastGauge = 0 /\ discarded = {}
    /\ flushLock = Free
    /\ pc = [t \in Thread |-> "idle"]
    /\ payload = [t \in Thread |-> Unsent]
    /\ attempt = [t \in Thread |-> 0]
    /\ reply = [t \in Thread |-> "none"]
    /\ late = {}
    /\ ReceiverInit

------------------------------------------------------------------------------
(* Staging: any thread, any time, under the registry lock. *)

StageEvent ==
    /\ staged < MaxEvents
    /\ staged' = staged + 1
    /\ events' = Append(events, staged + 1)
    /\ UNCHANGED <<gauge, lastGauge, discarded, flushVars, reply, late, receiverVars>>

StageValue ==
    /\ lastGauge < MaxGauge
    /\ lastGauge' = lastGauge + 1
    /\ gauge' = lastGauge + 1
    /\ UNCHANGED <<events, staged, discarded, flushVars, reply, late, receiverVars>>

Clear ==
    /\ events # <<>> \/ gauge # 0
    /\ discarded' = discarded \cup Range(events)
    /\ events' = <<>>
    /\ gauge' = 0
    /\ UNCHANGED <<staged, lastGauge, flushVars, reply, late, receiverVars>>

------------------------------------------------------------------------------
(* flush() and the retry loop. *)

\* mutant: two flushes may run together
AcquireAlways(t) ==
    /\ pc[t] = "idle"
    /\ flushLock' = t
    /\ pc' = [pc EXCEPT ![t] = "locked"]
    /\ UNCHANGED <<registryVars, payload, attempt, reply, late, receiverVars>>

Acquire(t) ==
    /\ pc[t] = "idle"
    /\ flushLock = Free
    /\ flushLock' = t
    /\ pc' = [pc EXCEPT ![t] = "locked"]
    /\ UNCHANGED <<registryVars, payload, attempt, reply, late, receiverVars>>

\* Leaving flush(), by return or by exception: the with block frees the lock.
Leave(t) ==
    /\ pc' = [pc EXCEPT ![t] = "idle"]
    /\ flushLock' = Free
    /\ payload' = [payload EXCEPT ![t] = Unsent]
    /\ attempt' = [attempt EXCEPT ![t] = 0]
    /\ reply' = [reply EXCEPT ![t] = "none"]

\* mutant: only events count as something to send
NoEventsStaged == events = <<>>

Nothing == events = <<>> /\ gauge = 0

\* The payload carries nothing but retain and remove: no request is made.
SkipEmpty(t) ==
    /\ pc[t] = "locked"
    /\ Nothing
    /\ Leave(t)
    /\ UNCHANGED <<registryVars, late, receiverVars>>

BuildPayload(t) ==
    /\ pc[t] = "locked"
    /\ ~Nothing
    /\ payload' = [payload EXCEPT ![t] = [events |-> events, gauge |-> gauge]]
    /\ attempt' = [attempt EXCEPT ![t] = 1]
    /\ pc' = [pc EXCEPT ![t] = "posting"]
    /\ UNCHANGED <<registryVars, flushLock, reply, late, receiverVars>>

\* mutant: the retry loop is over whatever the last attempt came back with
SucceedAnyway(t) ==
    /\ pc[t] = "posting"
    /\ reply[t] \in {"ok", "down"}
    /\ pc' = [pc EXCEPT ![t] = "trimming"]
    /\ UNCHANGED <<registryVars, flushLock, payload, attempt, reply, late, receiverVars>>

Succeed(t) ==
    /\ pc[t] = "posting"
    /\ reply[t] = "ok"
    /\ pc' = [pc EXCEPT ![t] = "trimming"]
    /\ UNCHANGED <<registryVars, flushLock, payload, attempt, reply, late, receiverVars>>

\* mutant: the queue is emptied instead of trimmed
TrimAll(t) ==
    /\ pc[t] = "trimming"
    /\ events' = <<>>
    /\ Leave(t)
    /\ UNCHANGED <<gauge, staged, lastGauge, discarded, late, receiverVars>>

Trim(t) ==
    /\ pc[t] = "trimming"
    /\ events' = SubSeq(events, Len(payload[t].events) + 1, Len(events))
    /\ Leave(t)
    /\ UNCHANGED <<gauge, staged, lastGauge, discarded, late, receiverVars>>

\* _retryable: a transport failure, 429 or 5xx.
Retryable(r) == r = "down"

\* mutant: the lock stays held when an exception leaves flush()
RaiseHoldingLock(t) ==
    /\ pc[t] = "posting"
    /\ \/ reply[t] \in {"cut", "rejected"}
       \/ Retryable(reply[t]) /\ attempt[t] > MaxRetries
    /\ pc' = [pc EXCEPT ![t] = "idle"]
    /\ UNCHANGED <<registryVars, flushLock, payload, attempt, reply, late, receiverVars>>

\* A 4xx, an exception that _post_once does not turn into a TelemetryError (a
\* response cut short), or the last attempt: flush() raises.
Raise(t) ==
    /\ pc[t] = "posting"
    /\ \/ reply[t] \in {"cut", "rejected"}
       \/ Retryable(reply[t]) /\ attempt[t] > MaxRetries
    /\ Leave(t)
    /\ UNCHANGED <<registryVars, late, receiverVars>>

\* mutant: one failure too many is retried
BackoffOnceMore(t) ==
    /\ pc[t] = "posting"
    /\ Retryable(reply[t])
    /\ attempt[t] <= MaxRetries + 1
    /\ pc' = [pc EXCEPT ![t] = "backoff"]
    /\ UNCHANGED <<registryVars, flushLock, payload, attempt, reply, late, receiverVars>>

Backoff(t) ==
    /\ pc[t] = "posting"
    /\ Retryable(reply[t])
    /\ attempt[t] <= MaxRetries
    /\ pc' = [pc EXCEPT ![t] = "backoff"]
    /\ UNCHANGED <<registryVars, flushLock, payload, attempt, reply, late, receiverVars>>

Retry(t) ==
    /\ pc[t] = "backoff"
    /\ pc' = [pc EXCEPT ![t] = "posting"]
    /\ attempt' = [attempt EXCEPT ![t] = @ + 1]
    /\ reply' = [reply EXCEPT ![t] = "none"]
    /\ UNCHANGED <<registryVars, flushLock, payload, late, receiverVars>>

\* The asyncio task is cancelled at an await of the send.  The worker thread
\* that is posting goes on: its request may still arrive.
Cancel(t) ==
    /\ Cancellable
    /\ pc[t] \in {"posting", "backoff"}
    /\ Leave(t)
    /\ \/ late' = late
       \/ /\ pc[t] = "posting" /\ reply[t] = "none"
          /\ Cardinality(late) < MaxLate
          /\ late' = late \cup {payload[t]}
    /\ UNCHANGED <<registryVars, receiverVars>>

------------------------------------------------------------------------------
(* The network and the receiver (external). *)

Waiting(t) == pc[t] = "posting" /\ reply[t] = "none"

\* The request arrives; the 200 comes back, is lost, or is cut short.
Receive(t, r) ==
    /\ Waiting(t)
    /\ Apply(payload[t])
    /\ reply' = [reply EXCEPT ![t] = r]
    /\ UNCHANGED <<registryVars, flushVars, late>>

\* 429, 5xx or no connection ("down"), any other 4xx ("rejected"), or a reply
\* that is not HTTP ("cut").  A first attempt that is rejected is also what a
\* payload looks like that json.dumps cannot encode (module Registry).
Refuse(t, r) ==
    /\ Waiting(t)
    /\ reply' = [reply EXCEPT ![t] = r]
    /\ UNCHANGED <<registryVars, flushVars, late, receiverVars>>

\* The client times out while the request is still on its way.
TimeOut(t) ==
    /\ Waiting(t)
    /\ Cardinality(late) < MaxLate
    /\ reply' = [reply EXCEPT ![t] = "down"]
    /\ late' = late \cup {payload[t]}
    /\ UNCHANGED <<registryVars, flushVars, receiverVars>>

ArriveLate(p) ==
    /\ late' = late \ {p}
    /\ Apply(p)
    /\ UNCHANGED <<registryVars, flushVars, reply>>

LoseLate(p) ==
    /\ late' = late \ {p}
    /\ UNCHANGED <<registryVars, flushVars, reply, receiverVars>>

Network ==
    \/ \E t \in Thread :
          \/ \E r \in {"ok", "down", "cut"} : Receive(t, r)
          \/ \E r \in {"down", "rejected", "cut"} : Refuse(t, r)
          \/ TimeOut(t)
    \/ \E p \in late : ArriveLate(p) \/ LoseLate(p)

------------------------------------------------------------------------------

Step(t) == \/ SkipEmpty(t) \/ BuildPayload(t)
           \/ Succeed(t) \/ Trim(t)
           \/ Raise(t) \/ Backoff(t) \/ Retry(t)

Flushing == \E t \in Thread : Acquire(t) \/ Step(t) \/ Cancel(t)

Next == StageEvent \/ StageValue \/ Clear \/ Flushing \/ Network

Spec == Init /\ [][Next]_vars

\* A program that calls clear() only while no request is in flight.
InFlight == \E t \in Thread : pc[t] \in {"posting", "backoff", "trimming"}

QuietNext ==
    \/ StageEvent \/ StageValue \/ Flushing \/ Network
    \/ ~InFlight /\ Clear

QuietSpec == Init /\ [][QuietNext]_vars

(* Fairness.  A thread inside flush() goes on; timeout_seconds gives every  *)
(* attempt an answer; abandoned requests arrive or are dropped.  The loop   *)
(* wakes every flush_seconds and gets the lock again and again; a network   *)
(* that is tried for ever lets a request through again and again.           *)
Fairness ==
    /\ \A t \in Thread : WF_vars(Step(t))
    /\ \A t \in Thread : WF_vars(\E r \in {"down", "rejected"} : Refuse(t, r))
    /\ WF_vars(\E p \in late : ArriveLate(p) \/ LoseLate(p))
    /\ SF_vars(Acquire(Loop))
    /\ SF_vars(Receive(Loop, "ok"))

FairSpec == QuietSpec /\ Fairness

------------------------------------------------------------------------------
(* Properties. *)

\* Every event ever staged is still queued, has reached the receiver, or was
\* discarded by clear(): retries, failures and events staged while a request
\* is in flight lose nothing (_registry.py:376, _telemetry.py:71).
NoSilentLoss ==
    \A e \in 1..staged : e \in Range(events) \cup arrived \cup discarded

\* Concurrent flushes serialise, and "each sends the absolute state at the
\* moment it runs" (_telemetry.py:64): NetCrunch goes back to an older value
\* only when a request the client had given up on arrives late.
ShownNeverRegresses == [][shown' < shown => late' # late]_vars

\* A staged event reaches the receiver unless clear() discards it: no flush
\* keeps the lock for ever, whatever the server answers.
EventuallyDelivered ==
    \A e \in 1..MaxEvents : (e <= staged) ~> (e \in arrived \cup discarded)

\* Once the program stops staging, NetCrunch ends up showing the last value.
EventuallyCurrent == <>[](gauge # 0) => <>[](shown = gauge)

\* Flush keeps the promise of EventOutbox.
Outbox == INSTANCE EventOutbox WITH
    Event <- Ids, queue <- events, arrived <- arrived
OutboxSpec == Outbox!Spec
==============================================================================
