------------------------------ MODULE GoClient ------------------------------
(***************************************************************************)
(* The Go client: goroutines that call Flush and Close, the background     *)
(* loop, the two mutexes and the stop and done channels.  A flush that     *)
(* finds another under way queues on flushMu, whatever its context says.   *)
(***************************************************************************)
EXTENDS Receiver

CONSTANTS Caller,      \* goroutines of the program
          Loop,        \* the goroutine that runs loop()
          Free,        \* flushMu is not held
          MaxRetries,  \* maxRetries
          MaxLate      \* bound: abandoned requests still travelling

ASSUME GoAssumption ==
    /\ Loop \notin Caller
    /\ Free \notin Caller \cup {Loop}
    /\ MaxRetries \in Nat /\ MaxLate \in Nat

Goroutine == Caller \cup {Loop}

VARIABLES
    events,     \* Telemetry.events
    gauge,      \* the newest absolute value in the registry
    staged,     \* how many events were ever staged
    lastGauge,  \* the newest absolute value ever staged
    discarded,  \* events dropped by Clear
    jammed,     \* mu was left locked by a panic
    flushMu,    \* who holds flushMu
    stop,       \* the channel stop is closed
    pc,         \* where each goroutine is
    unmet,      \* events staged before its call and, once it returned nil, not sent
    ctxDone,    \* its context is cancelled or past its deadline
    payload, attempt,   \* of the request it makes
    late        \* requests given up on that may still arrive

registryVars == <<events, gauge, staged, lastGauge, discarded>>
sendVars     == <<flushMu, pc, unmet, ctxDone, payload, attempt>>
vars == <<registryVars, jammed, stop, sendVars, late, receiverVars>>

TypeOK ==
    /\ events \in Seq(Ids) /\ discarded \subseteq Ids
    /\ gauge \in Gauges /\ lastGauge \in Gauges /\ staged \in 0..MaxEvents
    /\ jammed \in BOOLEAN /\ stop \in BOOLEAN
    /\ flushMu \in Goroutine \cup {Free}
    /\ pc \in [Goroutine -> {"idle", "closing", "queued", "locked", "posting",
                             "backoff", "trimming", "ended"}]
    /\ unmet \in [Goroutine -> SUBSET Ids]
    /\ ctxDone \in [Goroutine -> BOOLEAN]
    /\ payload \in [Goroutine -> Payloads]
    /\ attempt \in [Goroutine -> 0..(MaxRetries + 1)]
    /\ late \subseteq Payloads
    /\ ReceiverTypeOK

\* New: with a FlushInterval the loop starts, without one done is closed.
Init ==
    /\ events = <<>> /\ discarded = {} /\ gauge = 0 /\ staged = 0 /\ lastGauge = 0
    /\ jammed = FALSE /\ stop = FALSE
    /\ flushMu = Free
    /\ \E p \in {"idle", "ended"} :
          pc = [t \in Goroutine |-> IF t = Loop THEN p ELSE "idle"]
    /\ unmet = [t \in Goroutine |-> {}]
    /\ ctxDone = [t \in Goroutine |-> FALSE]
    /\ payload = [t \in Goroutine |-> Unsent]
    /\ attempt = [t \in Goroutine |-> 0]
    /\ late = {}
    /\ ReceiverInit

------------------------------------------------------------------------------
(* Staging takes mu. *)

StageEvent ==
    /\ ~jammed
    /\ staged < MaxEvents
    /\ staged' = staged + 1
    /\ events' = Append(events, staged + 1)
    /\ UNCHANGED <<gauge, lastGauge, discarded, jammed, stop, sendVars, late, receiverVars>>

StageValue ==
    /\ ~jammed
    /\ lastGauge < MaxGauge
    /\ lastGauge' = lastGauge + 1
    /\ gauge' = lastGauge + 1
    /\ UNCHANGED <<events, staged, discarded, jammed, stop, sendVars, late, receiverVars>>

Clear ==
    /\ ~jammed
    /\ events # <<>> \/ gauge # 0
    /\ discarded' = discarded \cup Range(events)
    /\ events' = <<>>
    /\ gauge' = 0
    /\ UNCHANGED <<staged, lastGauge, jammed, stop, sendVars, late, receiverVars>>

------------------------------------------------------------------------------
(* Calls, the loop, and the lock. *)

Go(t, p) == pc' = [pc EXCEPT ![t] = p]

\* The call begins; what it has to send is what is staged by now.
Call(c, p) ==
    /\ pc[c] = "idle"
    /\ Go(c, p)
    /\ unmet' = [unmet EXCEPT ![c] = Range(events)]
    /\ UNCHANGED <<registryVars, jammed, flushMu, ctxDone, payload, attempt, late, receiverVars>>

Flush(c) == Call(c, "queued") /\ UNCHANGED stop

\* mutant: Close waits for done but nobody has closed stop
CloseSilently(c) == Call(c, "closing") /\ UNCHANGED stop

Close(c) == Call(c, "closing") /\ stop' = TRUE

\* <-t.done
LoopIsDone(c) ==
    /\ pc[c] = "closing" /\ pc[Loop] = "ended"
    /\ Go(c, "queued")
    /\ UNCHANGED <<registryVars, jammed, stop, flushMu, unmet, ctxDone, payload, attempt,
                   late, receiverVars>>

\* The select of loop() takes either channel when both are ready.
Tick == Flush(Loop)

Quit ==
    /\ pc[Loop] = "idle" /\ stop
    /\ Go(Loop, "ended")
    /\ UNCHANGED <<registryVars, jammed, stop, flushMu, unmet, ctxDone, payload, attempt,
                   late, receiverVars>>

\* mutant: a flush does not wait for the one under way
AcquireAlways(t) ==
    /\ pc[t] = "queued"
    /\ flushMu' = t
    /\ Go(t, "locked")
    /\ UNCHANGED <<registryVars, jammed, stop, unmet, ctxDone, payload, attempt, late, receiverVars>>

Acquire(t) ==
    /\ pc[t] = "queued" /\ flushMu = Free
    /\ flushMu' = t
    /\ Go(t, "locked")
    /\ UNCHANGED <<registryVars, jammed, stop, unmet, ctxDone, payload, attempt, late, receiverVars>>

\* mutant: only a flush that went well unlocks
UnlockOnSuccess(ok) == flushMu' = IF ok THEN Free ELSE flushMu

\* The deferred unlock runs however Flush ends.
Unlock(ok) == flushMu' = Free

\* Flush returns: nil when ok, an error otherwise, which promises nothing.
Return(t, ok) ==
    /\ Go(t, "idle")
    /\ Unlock(ok)
    /\ unmet' = [unmet EXCEPT ![t] = IF ok THEN @ \ (arrived \cup discarded) ELSE {}]
    /\ ctxDone' = [ctxDone EXCEPT ![t] = FALSE]
    /\ payload' = [payload EXCEPT ![t] = Unsent]
    /\ attempt' = [attempt EXCEPT ![t] = 0]

------------------------------------------------------------------------------
(* Flush and post. *)

\* mutant: events alone are no reason to send
NoValueStaged == gauge = 0

Nothing == events = <<>> /\ gauge = 0

SkipEmpty(t) ==
    /\ pc[t] = "locked" /\ ~jammed /\ Nothing
    /\ Return(t, TRUE)
    /\ UNCHANGED <<registryVars, jammed, stop, late, receiverVars>>

Post(t) ==
    /\ Go(t, "posting")
    /\ attempt' = [attempt EXCEPT ![t] = @ + 1]

Snapshot(t) ==
    /\ pc[t] = "locked" /\ ~jammed /\ ~Nothing
    /\ payload' = [payload EXCEPT ![t] = [events |-> events, gauge |-> gauge]]
    /\ Post(t)
    /\ UNCHANGED <<registryVars, jammed, stop, flushMu, unmet, ctxDone, late, receiverVars>>

\* Slicing beyond the end of t.events panics between mu.Lock and mu.Unlock: mu
\* stays locked, and only the deferred unlock of flushMu runs.
Trim(t) ==
    /\ pc[t] = "trimming" /\ ~jammed
    /\ jammed' = (Len(payload[t].events) > Len(events))
    /\ events' = SubSeq(events, Len(payload[t].events) + 1, Len(events))
    /\ Return(t, Len(payload[t].events) <= Len(events))
    /\ UNCHANGED <<gauge, staged, lastGauge, discarded, stop, late, receiverVars>>

PostSucceeds(t) == Go(t, "trimming") /\ UNCHANGED <<flushMu, unmet, ctxDone, payload, attempt>>

\* mutant: post returns nil when the last attempt fails
AttemptForgiven(t) ==
    IF attempt[t] > MaxRetries
       THEN PostSucceeds(t)
       ELSE Go(t, "backoff") /\ UNCHANGED <<flushMu, unmet, ctxDone, payload, attempt>>

\* mutant: one failure too many is retried
AttemptFailsLate(t) ==
    IF attempt[t] > MaxRetries + 1
       THEN Return(t, FALSE)
       ELSE Go(t, "backoff") /\ UNCHANGED <<flushMu, unmet, ctxDone, payload, attempt>>

\* No (complete) answer, 429 or 5xx.
AttemptFails(t) ==
    IF attempt[t] > MaxRetries
       THEN Return(t, FALSE)
       ELSE Go(t, "backoff") /\ UNCHANGED <<flushMu, unmet, ctxDone, payload, attempt>>

\* The select of post: the delay is over, or the context is done.
Retry(t) ==
    /\ pc[t] = "backoff"
    /\ Post(t)
    /\ UNCHANGED <<registryVars, jammed, stop, flushMu, unmet, ctxDone, payload, late,
                   receiverVars>>

GiveUp(t) ==
    /\ pc[t] = "backoff" /\ ctxDone[t]
    /\ Return(t, FALSE)
    /\ UNCHANGED <<registryVars, jammed, stop, late, receiverVars>>

\* The context of a caller is done (the loop has context.Background).  Only a
\* request under way notices at once, and that request may still arrive.
Cancel(c) ==
    /\ pc[c] \in {"queued", "posting", "backoff"} /\ ~ctxDone[c]
    /\ ctxDone' = [ctxDone EXCEPT ![c] = TRUE]
    /\ \/ late' = late
       \/ /\ pc[c] = "posting" /\ Cardinality(late) < MaxLate
          /\ late' = late \cup {payload[c]}
    /\ UNCHANGED <<registryVars, jammed, stop, flushMu, pc, unmet, payload, attempt,
                   receiverVars>>

------------------------------------------------------------------------------
(* The network and the receiver (external). *)

\* The request arrives; a 2xx comes back, another answer or none.
Receive(t) ==
    /\ pc[t] = "posting" /\ ~ctxDone[t]
    /\ Apply(payload[t])
    /\ PostSucceeds(t) \/ AttemptFails(t)
    /\ UNCHANGED <<registryVars, jammed, stop, late>>

\* The request does not arrive (with a context that is done it is not even
\* sent), or a 4xx refuses it.  A first attempt that is refused is also what a
\* payload looks like that json.Marshal cannot encode: nothing arrives, nothing
\* is trimmed, Flush returns the error and unlocks.
Refuse(t) ==
    /\ pc[t] = "posting"
    /\ AttemptFails(t) \/ (~ctxDone[t] /\ Return(t, FALSE))
    /\ UNCHANGED <<registryVars, jammed, stop, late, receiverVars>>

\* Timeout is over while the request is still on its way.
TimeOut(t) ==
    /\ pc[t] = "posting" /\ ~ctxDone[t]
    /\ Cardinality(late) < MaxLate
    /\ late' = late \cup {payload[t]}
    /\ AttemptFails(t)
    /\ UNCHANGED <<registryVars, jammed, stop, receiverVars>>

ArriveLate(p) ==
    /\ late' = late \ {p}
    /\ Apply(p)
    /\ UNCHANGED <<registryVars, jammed, stop, sendVars>>

LoseLate(p) ==
    /\ late' = late \ {p}
    /\ UNCHANGED <<registryVars, jammed, stop, sendVars, receiverVars>>

------------------------------------------------------------------------------

Step(t) ==
    \/ SkipEmpty(t) \/ Snapshot(t) \/ Trim(t)
    \/ Retry(t) \/ GiveUp(t)

Network ==
    \/ \E t \in Goroutine : Receive(t) \/ Refuse(t) \/ TimeOut(t)
    \/ \E p \in late : ArriveLate(p) \/ LoseLate(p)

InFlight == \E t \in Goroutine : pc[t] \in {"posting", "backoff", "trimming"}

ButClear ==
    \/ StageEvent \/ StageValue
    \/ \E c \in Caller : Flush(c) \/ Close(c) \/ LoopIsDone(c) \/ Cancel(c)
    \/ Tick \/ Quit
    \/ \E t \in Goroutine : Acquire(t) \/ Step(t)
    \/ Network

\* Clear at any moment.
Spec == Init /\ [][ButClear \/ Clear]_vars

\* A program that calls Clear only while no request is in flight.
QuietSpec == Init /\ [][ButClear \/ (~InFlight /\ Clear)]_vars

(* Goroutines inside the package go on; sync.Mutex hands the lock to one    *)
(* that waits long enough; Timeout ends every attempt; the ticker fires;    *)
(* select picks at random, so a closed stop is noticed; a network that is   *)
(* tried for ever lets a request of the loop through again and again.       *)
Fairness ==
    /\ \A t \in Goroutine :
          WF_vars(Step(t)) /\ SF_vars(Acquire(t)) /\ WF_vars(Refuse(t))
    /\ \A c \in Caller : WF_vars(LoopIsDone(c))
    /\ WF_vars(Tick) /\ SF_vars(Quit)
    /\ SF_vars(Receive(Loop) /\ pc'[Loop] = "trimming")

FairSpec == QuietSpec /\ Fairness

------------------------------------------------------------------------------
(* Properties. *)

\* The client keeps the promise of EventOutbox (telemetry.go:558-559).
Outbox == INSTANCE EventOutbox WITH
    Event <- Ids, queue <- events, arrived <- arrived
OutboxSpec == Outbox!Spec

\* A Flush or Close that returned nil has sent every event staged before it
\* was called: Close "flushes once more" for real, since it waits for the loop
\* and the flush under way and then makes a snapshot of its own.
NilMeansSent == \A c \in Caller : pc[c] = "idle" => unmet[c] = {}

\* Every Flush and Close returns, whatever else is queued on flushMu and
\* however often the loop is in the middle of a flush.
CallsReturn == \A c \in Caller : (pc[c] # "idle") ~> (pc[c] = "idle")

\* While the loop runs, the client catches up with what is staged, again and
\* again: every event is delivered or cleared.
EventuallyDelivered ==
    [](pc[Loop] # "ended" /\ ~stop) => []<>(1..staged \subseteq arrived \cup discarded)

\* Telemetry "is safe for concurrent use" (telemetry.go:104): no sequence of
\* its calls leaves mu locked.
NeverJams == ~jammed
==============================================================================
