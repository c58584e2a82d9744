---------------------------- MODULE ServiceProofs ----------------------------
(***************************************************************************)
(* Proofs about Service, for every interval, timeout, number of retries    *)
(* and bound: how long values must be retained, how long a shutdown lasts  *)
(* and what it leaves at the receiver.                                     *)
(***************************************************************************)
EXTENDS Service, TLAPS

\* Who flushes, and what a signal has set in motion.
FlushInv ==
    /\ post = "none" => loop # "flushing" /\ main # "flushing"
    /\ post # "none" => loop = "flushing" \/ main \in {"flushing", "stuck"}
    /\ ~(loop = "flushing" /\ main = "flushing")
    /\ post = "backoff" => attempt <= MaxRetries
    /\ got => post = "posting"

StopInv ==
    /\ loop = "ended" => stopping
    /\ main \in {"joining", "queued", "flushing", "exited", "crashed"} => stopping
    /\ ~stopping /\ main = "stuck" => (post = "none" <=> loop = "waiting")
    /\ stopping /\ main \notin {"joining", "queued", "stuck"} => loop # "flushing"
    /\ main \in {"exited", "crashed"} => post = "none"

\* TypeOK in four parts.
ContentType == staged \in Content /\ payload \in Content /\ seen \in Content

TimerType == timer \in 0..Limit

FlagType == request \in BOOLEAN /\ stopping \in BOOLEAN /\ got \in BOOLEAN

StateType ==
    /\ main \in {"serving", "staging", "joining", "queued", "flushing", "stuck",
                 "exited", "crashed"}
    /\ loop \in {"waiting", "flushing", "ended"}
    /\ post \in {"none", "posting", "backoff"}
    /\ attempt \in 1..MaxRetries + 1
    /\ missed \in 0..MaxMissed /\ age \in Nat /\ late \in Nat
    /\ signals \in 0..MaxSignals

Control == StateType /\ FlushInv /\ StopInv

Shape == Control /\ TimerType /\ FlagType /\ ContentType

\* Seconds since the flush under way began.
Elapsed ==
    IF post = "none" THEN 0
    ELSE IF post = "posting" THEN SendBy(attempt) - AttemptSeconds + timer
    ELSE SendBy(attempt) + timer

\* From one flush to the end of the next, at most.
Interval == FlushSeconds + SendSeconds

\* A payload the receiver has had is at most as old as the attempt that
\* brought it; any other is older than the flushes missed since, one interval
\* and the flush under way.
AgeBound ==
    /\ got => age <= timer
    /\ age <= missed * Interval + AttemptSeconds
                + (IF post = "none" THEN timer ELSE FlushSeconds + Elapsed)

AgeInv == ~stopping => AgeBound

\* The flush the signal found under way began before it.
LateInv ==
    /\ main \in {"joining", "queued"} => late <= (IF post = "none" THEN SendSeconds ELSE Elapsed)
    /\ main = "flushing" => late <= SendSeconds + Elapsed

WordInv ==
    /\ got => seen = payload
    /\ main \in {"joining", "queued", "flushing"} => staged.status = "Stopping"
    /\ main = "flushing" => payload = staged
    /\ LastWord

------------------------------------------------------------------------------
(* How long a flush takes. *)

LEMMA TimesMonotone ==
    ASSUME NEW m \in Nat, NEW n \in Nat, NEW s \in Nat, m <= n
    PROVE  m * s <= n * s
<1>1. PICK d \in Nat : n = m + d
  <2>1. n - m \in Nat /\ n = m + (n - m)
    OBVIOUS
  <2>2. QED
    BY <2>1
<1>2. n * s = m * s + d * s /\ d * s >= 0
  BY <1>1
<1>3. QED
  BY <1>2

LEMMA Distributes ==
    ASSUME NEW m \in Nat, NEW s \in Nat
    PROVE  (m + 1) * s = m * s + s
OBVIOUS

\* What the definitions say of each n.
LEMMA Pauses ==
    ASSUME NEW n \in Nat \ {0}
    PROVE  /\ n = 1 => Backoff(n) = 1 /\ BackedOff(n) = 0
           /\ n = 2 => Backoff(n) = 2 /\ BackedOff(n) = 1
           /\ n = 3 => Backoff(n) = 4 /\ BackedOff(n) = 3
           /\ n = 4 => Backoff(n) = 8 /\ BackedOff(n) = 7
           /\ n = 5 => Backoff(n) = 16 /\ BackedOff(n) = 15
           /\ n = 6 => Backoff(n) = 30 /\ BackedOff(n) = 31
           /\ n > 6 => Backoff(n) = 30 /\ BackedOff(n) = 31 + 30 * (n - 6)
BY DEF Backoff, BackedOff

LEMMA BackoffSum ==
    ASSUME NEW n \in Nat \ {0}
    PROVE  /\ Backoff(n) \in Nat /\ BackedOff(n) \in Nat
           /\ BackedOff(n + 1) = BackedOff(n) + Backoff(n)
<1>1. n + 1 \in Nat \ {0}
  OBVIOUS
<1>2. n = 1 \/ n = 2 \/ n = 3 \/ n = 4 \/ n = 5 \/ n = 6 \/ n > 6
  OBVIOUS
<1>3. QED
  BY <1>1, <1>2, Pauses

LEMMA SendByMonotone ==
    ASSUME NEW m \in Nat \ {0}, NEW n \in Nat \ {0}, m <= n
    PROVE  /\ SendBy(m) \in Nat /\ SendBy(m) >= AttemptSeconds
           /\ SendBy(m) <= SendBy(n)
<1>1. BackedOff(m) \in Nat /\ BackedOff(n) \in Nat /\ BackedOff(m) <= BackedOff(n)
  <2>1. m = 1 \/ m = 2 \/ m = 3 \/ m = 4 \/ m = 5 \/ m = 6 \/ m > 6
    OBVIOUS
  <2>2. n = 1 \/ n = 2 \/ n = 3 \/ n = 4 \/ n = 5 \/ n = 6 \/ n > 6
    OBVIOUS
  <2>3. QED
    BY <2>1, <2>2, Pauses
<1>2. m * AttemptSeconds <= n * AttemptSeconds /\ m * AttemptSeconds >= AttemptSeconds
  BY ServiceAssumption, TimesMonotone
<1>3. QED
  BY <1>1, <1>2, ServiceAssumption DEF SendBy

\* The next attempt begins when the pause after this one is over.
LEMMA SendByNext ==
    ASSUME NEW n \in Nat \ {0}
    PROVE  SendBy(n + 1) = SendBy(n) + Backoff(n) + AttemptSeconds
BY BackoffSum, ServiceAssumption, Distributes DEF SendBy

LEMMA SendSecondsType == SendSeconds \in Nat
BY SendByMonotone, ServiceAssumption DEF SendSeconds

LEMMA ElapsedBounded ==
    ASSUME Shape
    PROVE  Elapsed \in Nat /\ Elapsed <= SendSeconds
<1> USE ServiceAssumption
<1>1. /\ attempt \in Nat \ {0} /\ attempt <= MaxRetries + 1
      /\ timer \in Nat /\ timer <= Limit
  BY BackoffSum DEF Shape, Control, StateType, TimerType, Limit
<1>2. SendBy(attempt) \in Nat /\ SendBy(attempt) >= AttemptSeconds
      /\ SendBy(attempt) <= SendSeconds
  BY <1>1, SendByMonotone DEF SendSeconds
<1>3. CASE post = "none"
  BY <1>3, SendSecondsType DEF Elapsed
<1>4. CASE post = "posting"
  BY <1>1, <1>2, <1>4, SendSecondsType DEF Elapsed, Limit
<1>5. CASE post = "backoff"
  <2>1. timer <= Backoff(attempt) /\ attempt + 1 <= MaxRetries + 1 /\ Backoff(attempt) \in Nat
    BY <1>1, <1>5, BackoffSum DEF Limit, FlushInv, Shape, Control
  <2>2. SendBy(attempt + 1) <= SendSeconds
    BY <1>1, <2>1, SendByMonotone DEF SendSeconds
  <2>3. QED
    BY <1>1, <1>2, <1>5, <2>1, <2>2, SendByNext, SendSecondsType DEF Elapsed
<1>6. QED
  BY <1>3, <1>4, <1>5 DEF Shape, Control, StateType

------------------------------------------------------------------------------
(* The shape of the state. *)

LEMMA LimitType ==
    ASSUME attempt \in 1..MaxRetries + 1
    PROVE  Limit \in Nat
BY BackoffSum, ServiceAssumption DEF Limit

LEMMA InitControl == Init => Control
<1> SUFFICES ASSUME Init PROVE Control
  OBVIOUS
<1>1. StateType
  BY ServiceAssumption DEF Init, StateType
<1>2. FlushInv /\ StopInv
  BY DEF Init, FlushInv, StopInv
<1>3. QED
  BY <1>1, <1>2 DEF Control

LEMMA NextControl == Control /\ [Next]_vars => Control'
<1> SUFFICES ASSUME Control, [Next]_vars PROVE Control'
  OBVIOUS
<1> USE ServiceAssumption DEF Control, StateType, FlushInv, StopInv
<1>1. ASSUME Accept \/ Call PROVE Control'
  BY <1>1 DEF Accept, Call, sending, retention
<1>2. ASSUME Served \/ RequestFailed \/ record_healthy PROVE Control'
  BY <1>2 DEF Served, RequestFailed, record_healthy, Return, sending, retention
<1>3. CASE Shutdown
  BY <1>3 DEF Shutdown, Signal, sending
<1>4. ASSUME ShutdownAgain \/ ShutdownStuck PROVE Control'
  BY <1>4 DEF ShutdownAgain, ShutdownStuck, Signal, sending, retention
<1>5. CASE Wake
  BY <1>5 DEF Wake, Build, program, retention
<1>6. CASE Arrive
  BY <1>6 DEF Arrive, program
<1>7. ASSUME RetryLater \/ Retry PROVE Control'
  BY <1>7 DEF RetryLater, Retry, Running, program, retention
<1>8. CASE LoopFlushed
  BY <1>8 DEF LoopFlushed, Succeed, Fail, Ended, program
<1>9. ASSUME Quit \/ Joined PROVE Control'
  BY <1>9 DEF Quit, Joined, program, sending, retention
<1>10. CASE FinalBuild
  BY <1>10 DEF FinalBuild, Build, retention
<1>11. CASE FinalSent
  BY <1>11 DEF FinalSent, Succeed, Ended
<1>12. CASE FinalFailed
  BY <1>12 DEF FinalFailed, Fail, Ended
<1>13. CASE Tick
  BY <1>13 DEF Tick, program
<1>14. CASE UNCHANGED vars
  BY <1>14 DEF vars, program, sending, retention
<1>15. QED
  BY <1>1, <1>2, <1>3, <1>4, <1>5, <1>6, <1>7, <1>8, <1>9, <1>10, <1>11, <1>12, <1>13, <1>14
     DEF Next, Work, Flush, Close

LEMMA NextTimer == Control /\ TimerType /\ [Next]_vars => TimerType'
<1> SUFFICES ASSUME Control, TimerType, [Next]_vars PROVE TimerType'
  OBVIOUS
<1> USE ServiceAssumption DEF TimerType
<1>1. Limit \in Nat /\ timer \in Nat
  BY LimitType DEF Control, StateType
<1>2. Limit' \in Nat
  <2>1. (attempt \in 1..MaxRetries + 1)'
    BY NextControl DEF Control, StateType
  <2>2. QED
    BY <2>1, BackoffSum DEF Limit
<1>3. ASSUME UNCHANGED <<post, attempt, timer>> PROVE TimerType'
  BY <1>3 DEF Limit
<1>4. ASSUME timer' = 0 PROVE TimerType'
  BY <1>2, <1>4
<1>5. CASE Tick
  <2>1. Limit' = Limit /\ timer' = timer + 1 /\ timer < Limit
    BY <1>5 DEF Tick, Limit
  <2>2. QED
    BY <1>1, <2>1
<1>6. QED
  BY <1>3, <1>4, <1>5
     DEF Next, Work, Flush, Close, vars, sending, Accept, Call, Served, RequestFailed,
         record_healthy, Return, Shutdown, ShutdownAgain, ShutdownStuck, Wake, Build, Arrive,
         RetryLater, Retry, LoopFlushed, Succeed, Fail, Ended, Quit, Joined, FinalBuild,
         FinalSent, FinalFailed

LEMMA NextContent == ContentType /\ [Next]_vars => ContentType'
<1> SUFFICES ASSUME ContentType, [Next]_vars PROVE ContentType'
  OBVIOUS
<1> USE ServiceAssumption DEF ContentType
<1>1. staged.events \in 0..MaxEvents
  BY DEF Content
<1>2. ASSUME staged' = staged \/ (\E x \in {"OK", "Stopping"} : staged' = [staged EXCEPT !.status = x])
                 \/ (staged.events < MaxEvents /\ staged' = [staged EXCEPT !.events = @ + 1])
      PROVE  staged' \in Content
  BY <1>1, <1>2 DEF Content
<1>3. staged' \in Content
  BY <1>2
     DEF Next, Work, Flush, Close, vars, Accept, Call, Served, RequestFailed,
         record_healthy, Shutdown, ShutdownAgain, ShutdownStuck, Wake, Arrive,
         RetryLater, Retry, LoopFlushed, Quit, Joined, FinalBuild, FinalSent, FinalFailed, Tick
<1>4. payload' \in {payload, staged} /\ seen' \in {seen, payload}
  BY DEF Next, Work, Flush, Close, vars, sending, Accept, Call, Served, RequestFailed,
         record_healthy, Return, Shutdown, ShutdownAgain, ShutdownStuck, Wake, Build, Arrive,
         RetryLater, Retry, LoopFlushed, Quit, Joined, FinalBuild, FinalSent, FinalFailed, Tick
<1>5. QED
  BY <1>3, <1>4

LEMMA NextFlag == FlagType /\ [Next]_vars => FlagType'
BY DEF FlagType, Next, Work, Flush, Close, vars, program, sending, Accept, Call, Served,
       RequestFailed, record_healthy, Return, Shutdown, Signal, ShutdownAgain, ShutdownStuck,
       Wake, Build, Arrive, RetryLater, Retry, LoopFlushed, Succeed, Fail, Ended, Quit, Joined,
       FinalBuild, FinalSent, FinalFailed, Tick

LEMMA InitShape == Init => Shape
<1> SUFFICES ASSUME Init PROVE Shape
  OBVIOUS
<1>1. TimerType
  BY ServiceAssumption DEF Init, TimerType, Limit
<1>2. ContentType
  BY ServiceAssumption DEF Init, ContentType, Content
<1>3. FlagType
  BY DEF Init, FlagType
<1>4. QED
  BY <1>1, <1>2, <1>3, InitControl DEF Shape

LEMMA NextShape == Shape /\ [Next]_vars => Shape'
BY NextControl, NextTimer, NextFlag, NextContent DEF Shape

LEMMA ShapeTyped == Shape => TypeOK
BY DEF Shape, Control, StateType, TimerType, FlagType, ContentType, TypeOK

------------------------------------------------------------------------------
(* Age. *)

LEMMA IntervalType == Interval \in Nat
BY SendSecondsType, ServiceAssumption DEF Interval

\* What the flush under way has taken, after each of its steps.
LEMMA ElapsedSteps ==
    ASSUME Shape, Shape'
    PROVE  /\ Wake \/ FinalBuild => Elapsed' = 0
           /\ RetryLater => Elapsed' \in Nat /\ Elapsed' >= Elapsed
           /\ Retry => Elapsed' = Elapsed
           /\ Tick => post' = post /\ Elapsed' = (IF post = "none" THEN 0 ELSE Elapsed + 1)
           /\ UNCHANGED <<post, attempt, timer>> => Elapsed' = Elapsed
<1> USE ServiceAssumption
<1>1. /\ timer \in Nat /\ attempt \in Nat \ {0} /\ timer <= Limit
  BY LimitType DEF Shape, Control, StateType, TimerType
<1>2. SendBy(attempt) \in Nat /\ SendBy(1) = AttemptSeconds
  BY <1>1, SendByMonotone, Pauses DEF SendBy
<1>3. Wake \/ FinalBuild => Elapsed' = 0
  BY <1>2 DEF Wake, FinalBuild, Build, Elapsed
<1>4. RetryLater => Elapsed' \in Nat /\ Elapsed' >= Elapsed
  BY <1>1, <1>2 DEF RetryLater, Elapsed, Limit
<1>5. Retry => Elapsed' = Elapsed
  BY <1>1, <1>2, SendByNext, BackoffSum DEF Retry, Elapsed
<1>6. Tick => post' = post /\ Elapsed' = (IF post = "none" THEN 0 ELSE Elapsed + 1)
  BY <1>1, <1>2 DEF Tick, Elapsed
<1>7. UNCHANGED <<post, attempt, timer>> => Elapsed' = Elapsed
  BY DEF Elapsed
<1>8. QED
  BY <1>3, <1>4, <1>5, <1>6, <1>7

LEMMA InitAge == Init => AgeInv
BY IntervalType, ServiceAssumption DEF Init, AgeInv, AgeBound

LEMMA StoppingStays == [Next]_vars => stopping' = stopping \/ stopping' = TRUE
BY DEF Next, Work, Flush, Close, vars, program, Accept, Call, Served, RequestFailed,
       record_healthy, Return, Shutdown, ShutdownAgain, ShutdownStuck, Wake, Arrive,
       RetryLater, Retry, LoopFlushed, Quit, Joined, FinalBuild, FinalSent, FinalFailed, Tick

LEMMA NextAge == Shape /\ AgeInv /\ [Next]_vars => AgeInv'
<1> SUFFICES ASSUME Shape, AgeInv, [Next]_vars, ~stopping, ~stopping' PROVE AgeBound'
  BY StoppingStays DEF AgeInv
<1> USE ServiceAssumption
<1>a. Shape' /\ AgeBound
  BY NextShape DEF AgeInv
<1>b. /\ age \in Nat /\ timer \in Nat /\ missed \in Nat /\ timer <= Limit
      /\ got => post = "posting"
  BY LimitType DEF Shape, Control, StateType, TimerType, FlushInv
<1>c. /\ Elapsed \in Nat /\ Elapsed <= SendSeconds /\ SendSeconds \in Nat
  BY ElapsedBounded, SendSecondsType
<1>d. /\ missed * Interval \in Nat
      /\ (missed + 1) * Interval = missed * Interval + FlushSeconds + SendSeconds
      /\ 0 * Interval = 0
  BY <1>b, <1>c, IntervalType, Distributes DEF Interval
<1>1. ASSUME UNCHANGED <<got, age, timer, missed, post, attempt>> PROVE AgeBound'
  BY <1>1, <1>a, ElapsedSteps DEF AgeBound, Interval, SendSeconds
<1>2. CASE Wake
  <2>1. Elapsed' = 0
    BY <1>2, <1>a, ElapsedSteps
  <2>2. /\ post = "none" /\ timer = FlushSeconds /\ ~got' /\ post' = "posting"
        /\ age' = age /\ missed' = missed
    BY <1>2 DEF Wake, Build, retention
  <2>3. QED
    BY <1>a, <1>b, <1>d, <2>1, <2>2 DEF AgeBound
<1>3. CASE Arrive
  <2>1. UNCHANGED <<post, attempt, timer, missed>> /\ age' = 0 /\ post = "posting"
    BY <1>3 DEF Arrive
  <2>2. Elapsed' = Elapsed
    BY <2>1 DEF Elapsed
  <2>3. QED
    BY <1>b, <1>c, <1>d, <2>1, <2>2 DEF AgeBound
<1>4. CASE RetryLater
  <2>1. Elapsed' \in Nat /\ Elapsed' >= Elapsed
    BY <1>4, <1>a, ElapsedSteps
  <2>2. post = "posting" /\ post' = "backoff" /\ ~got' /\ UNCHANGED <<age, missed>>
    BY <1>4 DEF RetryLater, retention
  <2>3. QED
    BY <1>a, <1>b, <1>c, <1>d, <2>1, <2>2 DEF AgeBound
<1>5. CASE Retry
  BY <1>5, <1>a, <1>b, <1>c, <1>d, ElapsedSteps DEF AgeBound, Retry, retention
<1>6. ASSUME Succeed, age' = age PROVE AgeBound'
  <2>1. age <= timer /\ timer <= AttemptSeconds
    BY <1>6, <1>a, <1>b DEF AgeBound, Succeed, Limit
  <2>2. ~got' /\ post' = "none" /\ timer' = 0 /\ missed' = 0
    BY <1>6 DEF Succeed, Ended
  <2>3. QED
    BY <1>6, <1>b, <1>d, <2>1, <2>2 DEF AgeBound
<1>7. ASSUME Fail, age' = age PROVE AgeBound'
  BY <1>7, <1>a, <1>b, <1>c, <1>d DEF AgeBound, Fail, Ended
<1>8. CASE Tick
  BY <1>8, <1>a, <1>b, <1>c, <1>d, ElapsedSteps DEF AgeBound, Tick
<1>9. ASSUME FinalBuild \/ Shutdown PROVE FALSE
  BY <1>9 DEF FinalBuild, Shutdown, Shape, Control, StopInv
<1>10. QED
  BY <1>1, <1>2, <1>3, <1>4, <1>5, <1>6, <1>7, <1>8, <1>9
     DEF Next, Work, Flush, Close, vars, program, sending, retention, Accept, Call, Served,
         RequestFailed, record_healthy, Return, ShutdownAgain, ShutdownStuck, LoopFlushed,
         Quit, Joined, FinalSent, FinalFailed

------------------------------------------------------------------------------
(* How long a shutdown lasts. *)

LEMMA NextLate == Shape /\ LateInv /\ [Next]_vars => LateInv'
<1> SUFFICES ASSUME Shape, LateInv, [Next]_vars PROVE LateInv'
  OBVIOUS
<1>a. Shape'
  BY NextShape
<1>b. /\ Elapsed \in Nat /\ Elapsed <= SendSeconds /\ SendSeconds \in Nat /\ late \in Nat
      /\ FlushInv /\ StopInv
  BY ElapsedBounded, SendSecondsType DEF Shape, Control, StateType
<1> USE DEF LateInv
<1>1. ASSUME UNCHANGED <<main, late, post, attempt, timer>> PROVE LateInv'
  <2>1. Elapsed' = Elapsed
    BY <1>1, <1>a, ElapsedSteps
  <2>2. QED
    BY <1>1, <2>1 DEF SendSeconds
<1>2. ASSUME main' \notin {"joining", "queued", "flushing"} PROVE LateInv'
  BY <1>2
<1>3. CASE Shutdown
  <2>1. main' \in {"joining", "queued"} /\ late' = 0 /\ UNCHANGED <<post, attempt, timer>>
    BY <1>3 DEF Shutdown, sending
  <2>2. Elapsed' = Elapsed
    BY <2>1, <1>a, ElapsedSteps
  <2>3. QED
    BY <1>b, <2>1, <2>2
<1>4. CASE Wake
  <2>1. main' \notin {"joining", "queued", "flushing"}
    BY <1>4, <1>b DEF Wake, StopInv, program
  <2>2. QED
    BY <2>1
<1>5. ASSUME RetryLater \/ Retry PROVE LateInv'
  <2>1. Elapsed' \in Nat /\ Elapsed' >= Elapsed
    BY <1>5, <1>a, <1>b, ElapsedSteps
  <2>2. post # "none" /\ post' # "none" /\ UNCHANGED <<main, late>>
    BY <1>5 DEF RetryLater, Retry, program
  <2>3. ASSUME main \in {"joining", "queued"} PROVE late <= Elapsed'
    BY <1>b, <2>1, <2>2, <2>3
  <2>4. ASSUME main = "flushing" PROVE late <= SendSeconds + Elapsed'
    <3> DEFINE before == Elapsed
    <3> DEFINE after == Elapsed'
    <3>1. before \in Nat /\ after \in Nat /\ after >= before /\ SendSeconds \in Nat /\ late \in Nat
      BY <1>b, <2>1
    <3>2. late <= SendSeconds + before
      BY <2>4
    <3> HIDE DEF before, after
    <3>3. late <= SendSeconds + after
      BY <3>1, <3>2
    <3>4. QED
      BY <3>3 DEF after
  <2>5. QED
    BY <2>2, <2>3, <2>4
<1>6. CASE LoopFlushed
  <2>1. post # "none" /\ post' = "none" /\ UNCHANGED <<main, late>> /\ main # "flushing"
    BY <1>6, <1>b DEF LoopFlushed, Succeed, Fail, Ended, FlushInv, program
  <2>2. QED
    BY <1>b, <2>1
<1>7. CASE Joined
  <2>1. main = "joining" /\ main' = "queued" /\ UNCHANGED <<late, post, attempt, timer>>
    BY <1>7 DEF Joined, sending
  <2>2. Elapsed' = Elapsed
    BY <2>1, <1>a, ElapsedSteps
  <2>3. QED
    BY <2>1, <2>2
<1>8. CASE FinalBuild
  <2>1. Elapsed' = 0
    BY <1>8, <1>a, ElapsedSteps
  <2>2. main = "queued" /\ main' = "flushing" /\ post = "none" /\ late' = late
    BY <1>8 DEF FinalBuild, Build
  <2>3. QED
    BY <1>b, <2>1, <2>2
<1>9. CASE Tick
  <2>1. post' = post /\ Elapsed' = (IF post = "none" THEN 0 ELSE Elapsed + 1)
    BY <1>9, <1>a, ElapsedSteps
  <2>2. /\ main' = main
        /\ main \in {"joining", "queued", "flushing"} => post # "none" /\ late' = late + 1
    BY <1>9, <1>b DEF Tick, StopInv, program
  <2>3. QED
    BY <1>b, <2>1, <2>2
<1>10. QED
  BY <1>1, <1>2, <1>3, <1>4, <1>5, <1>6, <1>7, <1>8, <1>9
     DEF Next, Work, Flush, Close, vars, program, sending, retention, Accept, Call, Served,
         RequestFailed, record_healthy, Return, ShutdownAgain, ShutdownStuck, Arrive, Quit,
         FinalSent, FinalFailed

LEMMA LateEnough == Shape /\ LateInv => ShutdownBounded
BY ElapsedBounded, SendSecondsType DEF Shape, Control, StateType, LateInv, ShutdownBounded

------------------------------------------------------------------------------
(* What a shutdown leaves at the receiver. *)

LEMMA InitWord == Init => WordInv
BY DEF Init, WordInv, LastWord

LEMMA NextWord == Shape /\ WordInv /\ [Next]_vars => WordInv'
<1> SUFFICES ASSUME FlushInv, StopInv, WordInv, [Next]_vars PROVE WordInv'
  BY DEF Shape, Control
<1> USE DEF WordInv, LastWord
<1>1. ASSUME UNCHANGED <<main, got, payload, seen, staged>> PROVE WordInv'
  BY <1>1
<1>2. ASSUME main' \in {"serving", "staging", "stuck"}, UNCHANGED <<got, payload, seen>>
      PROVE  WordInv'
  BY <1>2
<1>3. CASE Shutdown
  <2>1. /\ staged' = [staged EXCEPT !.status = "Stopping"] /\ main' \in {"joining", "queued"}
        /\ UNCHANGED <<got, payload, seen>>
    BY <1>3 DEF Shutdown, sending
  <2>2. staged'.status = "Stopping"
    BY <2>1
  <2>3. QED
    BY <2>1, <2>2
<1>4. CASE Wake
  BY <1>4 DEF Wake, Build, StopInv, program
<1>5. CASE Arrive
  BY <1>5 DEF Arrive, StopInv, program
<1>6. ASSUME RetryLater \/ Retry PROVE WordInv'
  BY <1>6 DEF RetryLater, Retry, program
<1>7. CASE LoopFlushed
  BY <1>7 DEF LoopFlushed, Succeed, Fail, Ended, program
<1>8. CASE Joined
  BY <1>8 DEF Joined, sending
<1>9. CASE FinalBuild
  BY <1>9 DEF FinalBuild, Build
<1>10. CASE FinalSent
  BY <1>10 DEF FinalSent, Succeed, Ended
<1>11. CASE FinalFailed
  BY <1>11 DEF FinalFailed, Fail, Ended
<1>12. QED
  BY <1>1, <1>2, <1>3, <1>4, <1>5, <1>6, <1>7, <1>8, <1>9, <1>10, <1>11
     DEF Next, Work, Flush, Close, vars, program, sending, retention, Accept, Call, Served,
         RequestFailed, record_healthy, Return, ShutdownAgain, ShutdownStuck, Quit, Tick

------------------------------------------------------------------------------

\* Every variable holds what it is declared to hold.
THEOREM TypeCorrect == Spec => []TypeOK
BY InitShape, NextShape, ShapeTyped, PTL DEF Spec

\* For every interval, timeout and number of retries: no value expires while
\* the loop runs, if retain_minutes covers the flushes that may fail in a row.
THEOREM NothingExpires == Spec => []KeptWhileRetained
<1>1. Shape /\ AgeInv => KeptWhileRetained
  <2> SUFFICES ASSUME Shape, AgeInv, ~stopping,
                      (missed + 1) * (FlushSeconds + SendSeconds) + AttemptSeconds
                          <= RetainSeconds
               PROVE  age <= RetainSeconds
    BY DEF KeptWhileRetained
  <2>1. /\ age \in Nat /\ missed \in Nat /\ timer \in Nat
        /\ StopInv /\ FlushInv /\ timer <= Limit
    BY ServiceAssumption, LimitType DEF Shape, Control, StateType, TimerType
  <2>2. Elapsed \in Nat /\ Elapsed <= SendSeconds /\ SendSeconds \in Nat
    BY ElapsedBounded, SendSecondsType
  <2>3. /\ missed * Interval \in Nat
        /\ (missed + 1) * Interval = missed * Interval + FlushSeconds + SendSeconds
    BY <2>1, <2>2, IntervalType, Distributes, ServiceAssumption DEF Interval
  <2>4. (missed + 1) * Interval + AttemptSeconds <= RetainSeconds
    BY DEF Interval
  <2>5. post = "none" => timer <= FlushSeconds
    BY <2>1 DEF Limit
  <2>6. age <= missed * Interval + AttemptSeconds
                + (IF post = "none" THEN timer ELSE FlushSeconds + Elapsed)
    BY DEF AgeInv, AgeBound
  <2>7. QED
    BY <2>1, <2>2, <2>3, <2>4, <2>5, <2>6, ServiceAssumption
<1>2. QED
  BY InitShape, NextShape, InitAge, NextAge, <1>1, PTL DEF Spec

\* A service that exits with 0 has sent its last status and every event.
THEOREM ExitTellsAll == Spec => []LastWord
<1>1. WordInv => LastWord
  BY DEF WordInv
<1>2. QED
  BY InitShape, NextShape, InitWord, NextWord, <1>1, PTL DEF Spec

\* A shutdown lasts no longer than two flushes.
THEOREM ShutdownEnds == Spec => []ShutdownBounded
<1>1. Init => LateInv
  BY DEF Init, LateInv
<1>2. QED
  BY InitShape, NextShape, <1>1, NextLate, LateEnough, PTL DEF Spec
==============================================================================
