------------------------------- MODULE Service -------------------------------
(***************************************************************************)
(* A program built like examples/service.py, second by second: the main    *)
(* thread serves requests and takes SIGTERM, the background thread         *)
(* flushes, post() tries and backs off, and the receiver drops values it   *)
(* has not had for retain_minutes.                                         *)
(*                                                                         *)
(* Time passes only while a thread waits for it: for the next flush, for   *)
(* an answer, for the next attempt.  What a payload holds beyond the       *)
(* service's status and its events is module Registry, what is sent twice  *)
(* or not at all module Flush, start() and stop() at large FlushLoop.      *)
(***************************************************************************)
EXTENDS Integers, Sequences

CONSTANTS
    FlushSeconds,    \* flush_seconds
    RetainSeconds,   \* 60 * retain_minutes
    AttemptSeconds,  \* timeout_seconds, which an attempt is taken to keep to
    MaxRetries,      \* max_retries
    MaxMissed,       \* bound: flushes that fail in a row
    MaxEvents,       \* bound: events staged
    MaxSignals       \* bound: signals

\* The constructor insists on the second conjunct (_registry.py:67).
ASSUME ServiceAssumption ==
    /\ FlushSeconds \in Nat \ {0} /\ AttemptSeconds \in Nat
    /\ RetainSeconds \in Nat /\ RetainSeconds > FlushSeconds
    /\ MaxRetries \in Nat /\ MaxMissed \in Nat /\ MaxEvents \in Nat /\ MaxSignals \in Nat

\* mutant: 2 ** attempt
BackoffDoubled(n) == IF n <= 4 THEN <<2, 4, 8, 16>>[n] ELSE 30

\* The pause after attempt n.
Backoff(n) == IF n <= 5 THEN <<1, 2, 4, 8, 16>>[n] ELSE 30

\* The pauses before attempt n, together.
BackedOff(n) == IF n <= 6 THEN <<0, 1, 3, 7, 15, 31>>[n] ELSE 31 + 30 * (n - 6)

\* How long the first n attempts of a flush take at most, and all of them.
SendBy(n)   == n * AttemptSeconds + BackedOff(n)
SendSeconds == SendBy(MaxRetries + 1)

JoinSeconds == AttemptSeconds + 5

Content == [status : {"none", "Starting", "OK", "Stopping"}, events : 0..MaxEvents]

VARIABLES
    main,      \* what the main thread is doing
    request,   \* handle_request() is on its stack
    stopping,  \* Telemetry._stopping
    loop,      \* what the background thread is doing
    post,      \* the attempt, or the pause, of the flush under way
    attempt,   \* attempt in post()
    timer,     \* seconds the loop has waited, or the attempt or the pause has taken
    staged,    \* the status and the number of events staged so far
    payload,   \* what the flush under way carries
    seen,      \* what the receiver has had
    got,       \* the attempt under way has reached the receiver
    missed,    \* flushes that have failed since the last that did not
    age,       \* seconds since the receiver had a payload, until a signal
    late,      \* seconds since the signal
    signals    \* signals so far

retention == <<missed, age>>
program   == <<main, request, stopping, signals>>
sending   == <<post, attempt, timer, payload, got>>
vars      == <<program, loop, sending, staged, seen, retention, late>>

Init ==
    /\ main = "serving" /\ request = FALSE /\ signals = 0
    /\ stopping = FALSE /\ loop = "waiting"
    /\ post = "none" /\ attempt = 1 /\ timer = 0 /\ got = FALSE
    /\ staged = [status |-> "Starting", events |-> 0]
    /\ payload = [status |-> "none", events |-> 0] /\ seen = payload
    /\ missed = 0 /\ age = 0 /\ late = 0

------------------------------------------------------------------------------
(* The main thread at work.  A call of the library holds one of its locks,   *)
(* none of them reentrant, and a signal may come in the middle of it.        *)

Accept ==
    /\ main = "serving" /\ ~request
    /\ request' = TRUE
    /\ UNCHANGED <<main, stopping, signals, loop, sending, staged, seen, retention, late>>

\* Counters are updated, the status and the timestamp set, or an event queued.
Call ==
    /\ main = "serving"
    /\ main' = "staging"
    /\ UNCHANGED <<request, stopping, signals, loop, sending, staged, seen, retention, late>>

Return ==
    /\ main = "staging"
    /\ main' = "serving"
    /\ UNCHANGED <<stopping, signals, loop, sending, seen, retention, late>>

\* The request succeeds: counters only.
Served == Return /\ request /\ request' = FALSE /\ UNCHANGED staged

\* The request fails: an event.
RequestFailed ==
    /\ Return /\ request /\ staged.events < MaxEvents
    /\ request' = FALSE
    /\ staged' = [staged EXCEPT !.events = @ + 1]

record_healthy ==
    /\ Return /\ ~request
    /\ staged' = [staged EXCEPT !.status = "OK"]
    /\ UNCHANGED request

(* shutdown(), called between two steps of the main thread: a second time    *)
(* there is no thread to join.                                               *)

Signal ==
    /\ signals < MaxSignals
    /\ signals' = signals + 1

Shutdown ==
    /\ Signal /\ main = "serving"
    /\ staged' = [staged EXCEPT !.status = "Stopping"]
    /\ stopping' = TRUE
    /\ main' = IF stopping THEN "queued" ELSE "joining"
    /\ late' = 0 /\ age' = 0
    /\ UNCHANGED <<request, loop, sending, seen, missed>>

\* A second signal while the first waits: the nested close() waits for the
\* same thing, and its SystemExit ends the outer one too.
ShutdownAgain ==
    /\ Signal /\ main \in {"joining", "queued"}
    /\ UNCHANGED <<main, request, stopping, loop, sending, staged, seen, retention, late>>

\* The handler asks for a lock that its own thread holds: it never returns.
ShutdownStuck ==
    /\ Signal /\ main \in {"staging", "flushing"}
    /\ main' = "stuck"
    /\ UNCHANGED <<request, stopping, loop, sending, staged, seen, retention, late>>

------------------------------------------------------------------------------
(* flush() and post(), in the thread that holds the flush lock. *)

\* Building the payload takes the registry's lock.
Build ==
    /\ post = "none" /\ main \notin {"staging", "stuck"}
    /\ payload' = staged
    /\ post' = "posting" /\ attempt' = 1 /\ timer' = 0 /\ got' = FALSE

Wake ==
    /\ loop = "waiting" /\ ~stopping /\ timer = FlushSeconds
    /\ Build
    /\ loop' = "flushing"
    /\ UNCHANGED <<program, staged, seen, retention, late>>

\* A request arrives while it is waited for, or never: one that timed out and
\* arrives afterwards would only make the values younger, and LastWord is about
\* what the receiver was told, not about what it shows (Flush has the late ones).
Arrive ==
    /\ post = "posting" /\ ~got
    /\ got' = TRUE /\ seen' = payload
    /\ age' = 0
    /\ UNCHANGED <<program, loop, post, attempt, timer, payload, staged, missed, late>>

\* A thread that is stuck does not go on with its flush.
Running == loop = "flushing" \/ main = "flushing"

\* mutant: one attempt too many
RetryOnceMore ==
    /\ Running /\ post = "posting" /\ attempt <= MaxRetries + 1
    /\ post' = "backoff" /\ timer' = 0 /\ got' = FALSE
    /\ UNCHANGED <<program, loop, attempt, payload, staged, seen, retention, late>>

\* No answer, 429 or 5xx.
RetryLater ==
    /\ Running /\ post = "posting" /\ attempt <= MaxRetries
    /\ post' = "backoff" /\ timer' = 0 /\ got' = FALSE
    /\ UNCHANGED <<program, loop, attempt, payload, staged, seen, retention, late>>

Retry ==
    /\ Running /\ post = "backoff" /\ timer = Backoff(attempt)
    /\ post' = "posting" /\ timer' = 0 /\ attempt' = attempt + 1
    /\ UNCHANGED <<program, loop, payload, got, staged, seen, retention, late>>

Ended == post' = "none" /\ timer' = 0 /\ got' = FALSE

Succeed == post = "posting" /\ got /\ Ended /\ missed' = 0

\* Any other answer at any attempt, or the last attempt fails.
Fail == post = "posting" /\ missed < MaxMissed /\ Ended /\ missed' = missed + 1

\* _loop(): on_error, if the flush failed, and on to the next wait.
LoopFlushed ==
    /\ loop = "flushing" /\ (Succeed \/ Fail)
    /\ loop' = "waiting"
    /\ UNCHANGED <<program, attempt, payload, staged, seen, age, late>>

Quit ==
    /\ loop = "waiting" /\ stopping
    /\ loop' = "ended"
    /\ UNCHANGED <<program, sending, staged, seen, retention, late>>

------------------------------------------------------------------------------
(* close(): the join, and the final flush. *)

Joined ==
    /\ main = "joining"
    /\ loop = "ended" \/ late >= JoinSeconds
    /\ main' = "queued"
    /\ UNCHANGED <<request, stopping, signals, loop, sending, staged, seen, retention, late>>

FinalBuild ==
    /\ main = "queued" /\ Build
    /\ main' = "flushing"
    /\ UNCHANGED <<request, stopping, signals, loop, staged, seen, retention, late>>

FinalSent ==
    /\ main = "flushing" /\ Succeed
    /\ main' = "exited"
    /\ UNCHANGED <<request, stopping, signals, loop, attempt, payload, staged, seen, age, late>>

\* mutant: the failure of the last flush is swallowed
FinalIgnored ==
    /\ main = "flushing" /\ Fail
    /\ main' = "exited"
    /\ UNCHANGED <<request, stopping, signals, loop, attempt, payload, staged, seen, age, late>>

\* flush() raises, so that shutdown() never raises SystemExit: the request it
\* interrupted has failed, and the program goes on unless nothing catches it.
FinalFailed ==
    /\ main = "flushing" /\ Fail
    /\ main' \in IF request THEN {"serving"} ELSE {"serving", "crashed"}
    /\ request' = FALSE
    /\ staged' = IF request /\ staged.events < MaxEvents
                 THEN [staged EXCEPT !.events = @ + 1] ELSE staged
    /\ UNCHANGED <<stopping, signals, loop, attempt, payload, seen, age, late>>

------------------------------------------------------------------------------
(* Time. *)

\* What a thread is waiting for takes so long at most.
Limit ==
    IF post = "none" THEN FlushSeconds
    ELSE IF post = "posting" THEN AttemptSeconds ELSE Backoff(attempt)

\* A thread that can go on does, at once; time passes for the others.
Tick ==
    /\ main \in {"serving", "joining", "queued", "flushing"}
    /\ post # "none" \/ (loop = "waiting" /\ ~stopping)
    /\ timer < Limit
    /\ timer' = timer + 1
    /\ age' = IF stopping THEN age ELSE age + 1
    /\ late' = IF main = "serving" THEN late ELSE late + 1
    /\ UNCHANGED <<program, loop, post, attempt, payload, got, staged, seen, missed>>

------------------------------------------------------------------------------

Work  == Accept \/ Call \/ Served \/ RequestFailed \/ record_healthy
Flush == Wake \/ Arrive \/ RetryLater \/ Retry \/ LoopFlushed \/ Quit
Close == Joined \/ FinalBuild \/ FinalSent \/ FinalFailed

Next == Work \/ Shutdown \/ ShutdownAgain \/ ShutdownStuck \/ Flush \/ Close \/ Tick

Spec == Init /\ [][Next]_vars

------------------------------------------------------------------------------
(* Properties. *)

TypeOK ==
    /\ main \in {"serving", "staging", "joining", "queued", "flushing", "stuck",
                 "exited", "crashed"}
    /\ request \in BOOLEAN /\ stopping \in BOOLEAN /\ got \in BOOLEAN
    /\ loop \in {"waiting", "flushing", "ended"}
    /\ post \in {"none", "posting", "backoff"}
    /\ attempt \in 1..MaxRetries + 1
    /\ timer \in 0..Limit
    /\ staged \in Content /\ payload \in Content /\ seen \in Content
    /\ missed \in 0..MaxMissed /\ age \in Nat /\ late \in Nat
    /\ signals \in 0..MaxSignals

\* Values do not expire between two sends: with m flushes missed in a row the
\* receiver waits for the next payload no longer than m + 1 intervals and as
\* many flushes at their longest, and the rest of the attempt that brought the
\* last one.  retain_minutes must exceed that; "Must exceed the flush interval,
\* or values expire between sends" (_telemetry.py:44) is not enough.
KeptWhileRetained ==
    ~stopping /\ (missed + 1) * (FlushSeconds + SendSeconds) + AttemptSeconds <= RetainSeconds
        => age <= RetainSeconds

\* A service that has exited with 0 has told the receiver that it is stopping
\* and of every event, the signal having come at any moment ("Send what is
\* staged before the process goes away", examples/service.py:65).
LastWord == main = "exited" => seen = staged /\ seen.status = "Stopping"

\* A shutdown that is not stuck lasts no longer than two flushes at their
\* longest: the one the signal found under way and the final one.
ShutdownBounded == main \in {"joining", "queued", "flushing"} => late <= 2 * SendSeconds
==============================================================================
