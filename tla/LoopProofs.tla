------------------------------ MODULE LoopProofs ------------------------------
(***************************************************************************)
(* Proofs about the two background loops of the Python client, for every   *)
(* set of callers and of threads or tasks.  FlushLoop: one background      *)
(* thread at a time, and none after stop().  AsyncLoop, as the instance    *)
(* Async: no task that a stop() would not wait for.                        *)
(***************************************************************************)
EXTENDS FlushLoop, TLAPS

\* The asyncio loop, on the same callers, with the tasks for the threads: what
\* AsyncLoop assumes of its constants is FlushLoopAssumption.  A variable of its
\* own name stands for each of its variables.
VARIABLES task, event, set, waits
Async == INSTANCE AsyncLoop WITH TaskId <- LoopId

\* TypeOK in two parts: what the life of the threads is, and who flushes.
LifeType ==
    /\ thread \in LoopId \cup {None}
    /\ stopping \in BOOLEAN /\ halted \in BOOLEAN
    /\ joinee \in [Caller -> LoopId \cup {None}]
    /\ closing \in [Caller -> BOOLEAN]
    /\ overlapped \in BOOLEAN /\ gaveUp \in BOOLEAN

FlushType ==
    /\ loop \in [LoopId -> Alive \cup {"unborn", "created", "ended", "crashed"}]
    /\ flushLock \in LoopId \cup Caller \cup {None}
    /\ \A l \in LoopId : loop[l] = "flushing" <=> flushLock = l
    /\ pc \in [Caller -> {"idle", "starting", "creating", "launching", "joining", "joined",
                          "queued", "flushing"}]
    /\ \A c \in Caller : pc[c] = "flushing" <=> flushLock = c

\* Where the calls of a program that uses the client well can be: one of them
\* at a time, what start() has seen and set of _thread still true, and the
\* thread that stop() joins still the one it read.
CallInv ==
    /\ \A c, d \in Caller : pc[c] # "idle" /\ pc[d] # "idle" => c = d
    /\ \A c \in Caller :
          /\ pc[c] \in {"starting", "creating"} => thread = None
          /\ pc[c] = "launching" => thread # None /\ loop[thread] = "created"
          /\ pc[c] = "joining" => thread # None /\ joinee[c] = thread
          /\ pc[c] = "joined" => \A l \in LoopId : loop[l] \notin Alive \cup {"created"}

\* A thread that lives, or is about to, is the one _thread names; after stop()
\* it names none.
ThreadInv ==
    /\ \A l \in LoopId : loop[l] \in Alive \cup {"created"} => thread = l
    /\ halted => thread = None

Inv == LifeType /\ FlushType /\ (WellUsed => CallInv /\ ThreadInv)

------------------------------------------------------------------------------
(* Types. *)

LEMMA TypeParts == TypeOK <=> LifeType /\ FlushType
BY DEF TypeOK, LifeType, FlushType

LEMMA InitType == Init => LifeType /\ FlushType
BY FlushLoopAssumption DEF Init, LifeType, FlushType, Alive

LEMMA StepLifeType ==
    ASSUME LifeType, [Next]_vars
    PROVE  LifeType'
<1>1. CASE \E c \in Caller : Start(c) \/ CloseStopped(c) \/ FinalFlush(c)
                               \/ \E andFlush \in BOOLEAN : Stop(c, andFlush)
  BY <1>1 DEF LifeType, Start, CloseStopped, FinalFlush, Stop, Call, history
<1>2. CASE \E c \in Caller : CallerStep(c)
  BY <1>2 DEF LifeType, CallerStep, Unstop, Create, Launch, JoinRaises, Joined, JoinTimeout,
              Forget, FinalFlushed, history
<1>3. CASE \E l \in LoopId : LoopStep(l) \/ LoopFlush(l)
  BY <1>3 DEF LifeType, LoopStep, Wake, Quit, Flushed, OnErrorRaised, LoopFlush, LoopOnly, history
<1>4. CASE UNCHANGED vars
  BY <1>4 DEF LifeType, vars, history
<1>5. QED
  BY <1>1, <1>2, <1>3, <1>4 DEF Next

LEMMA CallFlushType ==
    ASSUME FlushType, NEW c \in Caller,
           \/ Start(c) \/ CloseStopped(c) \/ FinalFlush(c) \/ CallerStep(c)
           \/ \E andFlush \in BOOLEAN : Stop(c, andFlush)
    PROVE  FlushType'
<1> USE FlushLoopAssumption DEF FlushType, CallerTo, LoopTo, Alive
<1>1. CASE Start(c)
  BY <1>1 DEF Start, Call
<1>2. CASE CloseStopped(c)
  BY <1>2 DEF CloseStopped, Call
<1>3. CASE FinalFlush(c)
  BY <1>3 DEF FinalFlush
<1>4. CASE \E andFlush \in BOOLEAN : Stop(c, andFlush)
  BY <1>4 DEF Stop, Call
<1>5. CASE Unstop(c) \/ Create(c) \/ Launch(c)
  BY <1>5 DEF Unstop, Create, Launch
<1>6. CASE JoinRaises(c) \/ Joined(c) \/ JoinTimeout(c)
  BY <1>6 DEF JoinRaises, Joined, JoinTimeout
<1>7. CASE Forget(c)
  BY <1>7 DEF Forget
<1>8. CASE FinalFlushed(c)
  BY <1>8 DEF FinalFlushed
<1>9. QED
  BY <1>1, <1>2, <1>3, <1>4, <1>5, <1>6, <1>7, <1>8 DEF CallerStep

LEMMA LoopFlushType ==
    ASSUME FlushType, NEW l \in LoopId, LoopStep(l) \/ LoopFlush(l)
    PROVE  FlushType'
<1> USE FlushLoopAssumption DEF FlushType, CallerTo, LoopTo, LoopOnly, Alive
<1>1. CASE Wake(l) \/ Quit(l)
  BY <1>1 DEF Wake, Quit
<1>2. CASE LoopFlush(l)
  BY <1>2 DEF LoopFlush
<1>3. CASE Flushed(l) \/ OnErrorRaised(l)
  BY <1>3 DEF Flushed, OnErrorRaised
<1>4. QED
  BY <1>1, <1>2, <1>3 DEF LoopStep

LEMMA StepFlushType ==
    ASSUME FlushType, [Next]_vars
    PROVE  FlushType'
<1>1. CASE UNCHANGED vars
  BY <1>1 DEF FlushType, vars
<1>2. QED
  BY <1>1, CallFlushType, LoopFlushType DEF Next

\* Threads, callers and the flush lock keep their types, and whoever flushes,
\* and nobody else, holds the flush lock (_telemetry.py:53-132).
THEOREM TypeCorrect == Spec => []TypeOK
<1>1. Init => LifeType /\ FlushType
  BY InitType
<1>2. LifeType /\ FlushType /\ [Next]_vars => LifeType' /\ FlushType'
  BY StepLifeType, StepFlushType
<1>3. LifeType /\ FlushType => TypeOK
  BY TypeParts
<1>4. QED
  BY <1>1, <1>2, <1>3, PTL DEF Spec

------------------------------------------------------------------------------
(* One thread at a time. *)

LEMMA InitInv == Init => Inv
BY InitType DEF Init, Inv, CallInv, ThreadInv, Alive

\* A call that begins while another is under way ends the good use; one that
\* begins alone is the only one.
LEMMA CallAlone ==
    ASSUME Inv, NEW c \in Caller, Call(c), WellUsed'
    PROVE  /\ WellUsed /\ CallInv /\ ThreadInv
           /\ \A d \in Caller : pc[d] = "idle"
BY DEF Inv, Call, WellUsed

LEMMA CallStepInv ==
    ASSUME Inv, NEW c \in Caller, WellUsed',
           \/ Start(c) \/ CloseStopped(c)
           \/ \E andFlush \in BOOLEAN : Stop(c, andFlush)
    PROVE  CallInv' /\ ThreadInv'
<1>1. WellUsed /\ CallInv /\ ThreadInv /\ \A d \in Caller : pc[d] = "idle"
  BY CallAlone DEF Start, CloseStopped, Stop
<1>2. CASE Start(c)
  BY <1>1, <1>2 DEF Inv, FlushType, CallInv, ThreadInv, Start, CallerTo
<1>3. CASE CloseStopped(c)
  BY <1>1, <1>3 DEF Inv, FlushType, CallInv, ThreadInv, CloseStopped, CallerTo
<1>4. CASE \E andFlush \in BOOLEAN : Stop(c, andFlush)
  BY <1>1, <1>4 DEF Inv, FlushType, LifeType, CallInv, ThreadInv, Stop, CallerTo
<1>5. QED
  BY <1>2, <1>3, <1>4

LEMMA CallerStepInv ==
    ASSUME Inv, NEW c \in Caller, WellUsed', CallerStep(c) \/ FinalFlush(c)
    PROVE  CallInv' /\ ThreadInv'
<1>1. WellUsed /\ CallInv /\ ThreadInv
  BY DEF Inv, WellUsed, CallerStep, Unstop, Create, Launch, JoinRaises, Joined, JoinTimeout,
         Forget, FinalFlushed, FinalFlush, history
<1> USE <1>1 DEF Inv, LifeType, FlushType, CallInv, ThreadInv, CallerTo, LoopTo
\* _thread was None since the test, so that no thread lives but the new one.
<1>2. CASE Create(c)
  <2>1. thread = None /\ \A l \in LoopId : loop[l] \notin Alive \cup {"created"}
    BY <1>2, FlushLoopAssumption DEF Create
  <2>2. PICK l \in LoopId : LoopTo(l, "created") /\ thread' = l
    BY <1>2 DEF Create
  <2>3. QED
    BY <1>2, <2>1, <2>2, FlushLoopAssumption DEF Create, Alive
<1>3. CASE Unstop(c)
  BY <1>3 DEF Unstop
<1>4. CASE Launch(c)
  BY <1>4 DEF Launch, Alive
<1>5. CASE JoinRaises(c)
  BY <1>5 DEF JoinRaises
\* Any thread that lives would be the one just joined.
<1>6. CASE Joined(c)
  <2>1. \A l \in LoopId : loop[l] \notin Alive \cup {"created"}
    BY <1>6 DEF Joined, Alive
  <2>2. QED
    BY <1>6, <2>1 DEF Joined
<1>7. CASE JoinTimeout(c)
  BY <1>7 DEF JoinTimeout, WellUsed
<1>8. CASE Forget(c)
  BY <1>8 DEF Forget
<1>9. CASE FinalFlush(c)
  BY <1>9 DEF FinalFlush
<1>10. CASE FinalFlushed(c)
  BY <1>10 DEF FinalFlushed
<1>11. QED
  BY <1>2, <1>3, <1>4, <1>5, <1>6, <1>7, <1>8, <1>9, <1>10 DEF CallerStep

\* The loop only gives up its own life.
LEMMA LoopStepInv ==
    ASSUME Inv, NEW l \in LoopId, WellUsed', LoopStep(l) \/ LoopFlush(l)
    PROVE  CallInv' /\ ThreadInv'
<1>1. WellUsed /\ CallInv /\ ThreadInv
  BY DEF Inv, WellUsed, LoopStep, LoopFlush, Wake, Quit, Flushed, OnErrorRaised, LoopOnly, history
<1>2. /\ UNCHANGED <<thread, pc, joinee, halted>>
      /\ \A m \in LoopId : loop'[m] \in Alive => loop[m] \in Alive
      /\ \A m \in LoopId : loop'[m] = "created" <=> loop[m] = "created"
  BY DEF Inv, FlushType, LoopStep, LoopFlush, Wake, Quit, Flushed, OnErrorRaised, LoopOnly,
         LoopTo, Alive
<1>3. ThreadInv'
  BY <1>1, <1>2 DEF ThreadInv
<1>4. CallInv'
  <2>1. thread # None => thread \in LoopId
    BY DEF Inv, LifeType
  <2>2. QED
    BY <1>1, <1>2, <2>1 DEF CallInv
<1>5. QED
  BY <1>3, <1>4

LEMMA StepInv ==
    ASSUME Inv, [Next]_vars
    PROVE  Inv'
<1>1. LifeType' /\ FlushType'
  BY StepLifeType, StepFlushType DEF Inv
<1>2. ASSUME WellUsed', UNCHANGED vars PROVE CallInv' /\ ThreadInv'
  BY <1>2 DEF Inv, WellUsed, CallInv, ThreadInv, vars, history
<1>3. WellUsed' => CallInv' /\ ThreadInv'
  BY <1>2, CallStepInv, CallerStepInv, LoopStepInv DEF Next
<1>4. QED
  BY <1>1, <1>3 DEF Inv

\* At most one background thread at a time, and none between a stop() and the
\* next start(), for a program whose calls do not overlap and whose flushes end
\* within the timeout of join() (_telemetry.py:90-106).
THEOREM OneLoopAtATime == Spec => []AtMostOneLoop
<1>1. Inv => AtMostOneLoop
  BY FlushLoopAssumption DEF Inv, AtMostOneLoop, ThreadInv
<1>2. Init => Inv
  BY InitInv
<1>3. Inv /\ [Next]_vars => Inv'
  BY StepInv
<1>4. QED
  BY <1>1, <1>2, <1>3, PTL DEF Spec

------------------------------------------------------------------------------
(* The asyncio loop. *)

\* TypeOK in two parts: what the life of the tasks is, and who flushes.
AsyncLifeType ==
    /\ task \in LoopId \cup {None} /\ event \in LoopId \cup {None}
    /\ set \subseteq LoopId
    /\ waits \in [LoopId -> LoopId \cup {None}]
    /\ joinee \in [Caller -> LoopId \cup {None}]
    /\ closing \in [Caller -> BOOLEAN] /\ halted \in BOOLEAN /\ overlapped \in BOOLEAN

AsyncFlushType ==
    /\ loop \in [LoopId -> Async!Alive \cup {"unborn", "ended", "crashed"}]
    /\ flushLock \in LoopId \cup Caller \cup {None}
    /\ \A l \in LoopId : loop[l] = "flushing" <=> flushLock = l
    /\ pc \in [Caller -> {"idle", "joining", "queued", "flushing"}]
    /\ \A c \in Caller : pc[c] = "flushing" <=> flushLock = c

\* As long as nothing overlaps a stop(): one stop() at a time, and the task it
\* awaits is still the one self._task names.
AsyncStopInv ==
    /\ \A c, d \in Caller : pc[c] = "joining" /\ pc[d] = "joining" => c = d
    /\ \A c \in Caller : pc[c] = "joining" => task # None /\ joinee[c] = task

\* A task that runs is the one self._task names; after stop() it names none.
AsyncTaskInv ==
    /\ \A l \in LoopId : loop[l] \in Async!Alive => task = l
    /\ halted => task = None

\* Whoever awaits a task awaits one there is, and a task has its event,
\* overlapping calls or not.
AsyncJoineeInv ==
    /\ \A c \in Caller : pc[c] = "joining" => joinee[c] \in LoopId
    /\ task # None => event \in LoopId

AsyncInv ==
    /\ AsyncLifeType /\ AsyncFlushType /\ AsyncJoineeInv
    /\ ~overlapped => AsyncStopInv /\ AsyncTaskInv

------------------------------------------------------------------------------
(* Types. *)

LEMMA AsyncInitType == Async!Init => AsyncLifeType /\ AsyncFlushType /\ AsyncJoineeInv
BY FlushLoopAssumption DEF Async!Init, AsyncLifeType, AsyncFlushType, AsyncJoineeInv, Async!Alive

LEMMA AsyncStepLifeType ==
    ASSUME AsyncLifeType, AsyncJoineeInv, [Async!Next]_(Async!vars)
    PROVE  AsyncLifeType'
<1> USE DEF AsyncLifeType, Async!CallerTo, Async!CallerOnly, Async!loopVars
<1>1. CASE \E c \in Caller : Async!Start(c)
  BY <1>1 DEF Async!Start, Async!Call
<1>2. CASE \E c \in Caller : Async!CloseStopped(c) \/ Async!CancelStop(c)
  BY <1>2 DEF Async!CloseStopped, Async!CancelStop, Async!Call
<1>3. CASE \E c \in Caller : \E andFlush \in BOOLEAN : Async!Stop(c, andFlush)
  BY <1>3 DEF Async!Stop, Async!Call, AsyncJoineeInv
<1>4. CASE \E c \in Caller : Async!CallerStep(c)
  BY <1>4 DEF Async!CallerStep, Async!Stopped, Async!StopRaises, Async!FinalFlush,
              Async!FinalFlushed
<1>5. CASE \E l \in LoopId : Async!LoopStep(l)
  BY <1>5 DEF Async!LoopStep, Async!Wake, Async!Quit, Async!Flushed, Async!OnErrorRaised,
              Async!LoopFlush
<1>6. CASE UNCHANGED Async!vars
  BY <1>6 DEF Async!vars
<1>7. QED
  BY <1>1, <1>2, <1>3, <1>4, <1>5, <1>6 DEF Async!Next

LEMMA AsyncStepJoinee ==
    ASSUME AsyncLifeType, AsyncFlushType, AsyncJoineeInv, [Async!Next]_(Async!vars)
    PROVE  AsyncJoineeInv'
<1> USE DEF AsyncLifeType, AsyncFlushType, AsyncJoineeInv, Async!CallerTo, Async!CallerOnly,
            Async!loopVars
<1>1. CASE \E c \in Caller : Async!Start(c)
  BY <1>1 DEF Async!Start, Async!Call
<1>2. CASE \E c \in Caller : Async!CloseStopped(c) \/ Async!CancelStop(c)
  BY <1>2 DEF Async!CloseStopped, Async!CancelStop, Async!Call
<1>3. CASE \E c \in Caller : \E andFlush \in BOOLEAN : Async!Stop(c, andFlush)
  BY <1>3 DEF Async!Stop, Async!Call
<1>4. CASE \E c \in Caller : Async!CallerStep(c)
  BY <1>4 DEF Async!CallerStep, Async!Stopped, Async!StopRaises, Async!FinalFlush,
              Async!FinalFlushed
<1>5. CASE \E l \in LoopId : Async!LoopStep(l)
  BY <1>5 DEF Async!LoopStep, Async!Wake, Async!Quit, Async!Flushed, Async!OnErrorRaised,
              Async!LoopFlush
<1>6. CASE UNCHANGED Async!vars
  BY <1>6 DEF Async!vars
<1>7. QED
  BY <1>1, <1>2, <1>3, <1>4, <1>5, <1>6 DEF Async!Next

LEMMA AsyncStepFlushType ==
    ASSUME AsyncFlushType, AsyncJoineeInv, [Async!Next]_(Async!vars)
    PROVE  AsyncFlushType'
<1> USE FlushLoopAssumption DEF AsyncFlushType, Async!CallerTo, Async!LoopTo, Async!CallerOnly,
                                Async!loopVars, Async!Alive
<1>1. ASSUME NEW c \in Caller, Async!Start(c) \/ Async!CloseStopped(c)
                    \/ \E f \in BOOLEAN : Async!Stop(c, f)
      PROVE  AsyncFlushType'
  BY <1>1 DEF Async!Start, Async!CloseStopped, Async!Stop, Async!Call
<1>2. ASSUME NEW c \in Caller, Async!CancelStop(c)
      PROVE  AsyncFlushType'
  BY <1>2 DEF Async!CancelStop, AsyncJoineeInv
<1>3. ASSUME NEW c \in Caller, Async!Stopped(c) \/ Async!StopRaises(c)
      PROVE  AsyncFlushType'
  BY <1>3 DEF Async!Stopped, Async!StopRaises
<1>4. ASSUME NEW c \in Caller, Async!FinalFlush(c) \/ Async!FinalFlushed(c)
      PROVE  AsyncFlushType'
  BY <1>4 DEF Async!FinalFlush, Async!FinalFlushed
<1>5. ASSUME NEW l \in LoopId, Async!LoopStep(l)
      PROVE  AsyncFlushType'
  BY <1>5 DEF Async!LoopStep, Async!Wake, Async!Quit, Async!Flushed, Async!OnErrorRaised,
              Async!LoopFlush
<1>6. CASE UNCHANGED Async!vars
  BY <1>6 DEF Async!vars
<1>7. QED
  BY <1>1, <1>2, <1>3, <1>4, <1>5, <1>6 DEF Async!Next, Async!CallerStep

\* Tasks, events and the flush lock keep their types, and whoever flushes, and
\* nobody else, holds the flush lock (_async.py:48-134).
THEOREM AsyncTypeCorrect == Async!Spec => []Async!TypeOK
<1>1. Async!Init => AsyncLifeType /\ AsyncFlushType /\ AsyncJoineeInv
  BY AsyncInitType
<1>2. AsyncLifeType /\ AsyncFlushType /\ AsyncJoineeInv /\ [Async!Next]_(Async!vars)
        => AsyncLifeType' /\ AsyncFlushType' /\ AsyncJoineeInv'
  BY AsyncStepLifeType, AsyncStepJoinee, AsyncStepFlushType
<1>3. AsyncLifeType /\ AsyncFlushType => Async!TypeOK
  BY DEF AsyncLifeType, AsyncFlushType, Async!TypeOK
<1>4. QED
  BY <1>1, <1>2, <1>3, PTL DEF Async!Spec

------------------------------------------------------------------------------
(* No orphan. *)

LEMMA AsyncInitInv == Async!Init => AsyncInv
BY AsyncInitType DEF Async!Init, AsyncInv, AsyncStopInv, AsyncTaskInv, Async!Alive

\* A start(), stop() or aclose() under a stop() is an overlap; else there is
\* no stop() under way.
LEMMA AsyncCallStepInv ==
    ASSUME AsyncInv, NEW c \in Caller, ~overlapped',
           \/ Async!Start(c) \/ Async!CloseStopped(c)
           \/ \E andFlush \in BOOLEAN : Async!Stop(c, andFlush)
    PROVE  AsyncStopInv' /\ AsyncTaskInv'
<1>1. ~overlapped /\ AsyncStopInv /\ AsyncTaskInv /\ \A d \in Caller : pc[d] # "joining"
  BY DEF AsyncInv, Async!Start, Async!CloseStopped, Async!Stop, Async!Call
<1> USE <1>1 DEF AsyncInv, AsyncLifeType, AsyncFlushType, AsyncStopInv, AsyncTaskInv,
                 Async!CallerTo, Async!LoopTo, Async!CallerOnly, Async!loopVars
<1>2. CASE Async!Start(c)
  <2>1. task = None /\ halted' = FALSE /\ UNCHANGED <<pc, joinee>>
    BY <1>2 DEF Async!Start
  <2>2. PICK l \in LoopId : Async!LoopTo(l, "waiting") /\ task' = l
    BY <1>2 DEF Async!Start
  <2>3. QED
    BY <2>1, <2>2, FlushLoopAssumption DEF Async!Alive
<1>3. CASE Async!CloseStopped(c)
  BY <1>3 DEF Async!CloseStopped
<1>4. CASE \E andFlush \in BOOLEAN : Async!Stop(c, andFlush)
  BY <1>4 DEF Async!Stop
<1>5. QED
  BY <1>2, <1>3, <1>4

LEMMA AsyncCallerStepInv ==
    ASSUME AsyncInv, NEW c \in Caller, ~overlapped', Async!CallerStep(c) \/ Async!CancelStop(c)
    PROVE  AsyncStopInv' /\ AsyncTaskInv'
<1>1. ~overlapped /\ AsyncStopInv /\ AsyncTaskInv
  BY DEF AsyncInv, Async!CallerStep, Async!CancelStop, Async!Stopped, Async!StopRaises,
         Async!FinalFlush, Async!FinalFlushed
<1> USE <1>1 DEF AsyncInv, AsyncLifeType, AsyncFlushType, AsyncStopInv, AsyncTaskInv,
                 Async!CallerTo, Async!LoopTo, Async!CallerOnly, Async!loopVars
\* The task that is forgotten is the one that has ended.
<1>2. CASE Async!Stopped(c)
  <2>1. \A l \in LoopId : loop[l] \notin Async!Alive
    BY <1>2, FlushLoopAssumption DEF Async!Stopped, Async!Alive
  <2>2. QED
    BY <1>2, <2>1 DEF Async!Stopped
<1>3. CASE Async!StopRaises(c)
  BY <1>3 DEF Async!StopRaises
<1>4. CASE Async!CancelStop(c)
  BY <1>4 DEF Async!CancelStop, Async!Alive
<1>5. CASE Async!FinalFlush(c) \/ Async!FinalFlushed(c)
  BY <1>5 DEF Async!FinalFlush, Async!FinalFlushed
<1>6. QED
  BY <1>2, <1>3, <1>4, <1>5 DEF Async!CallerStep

LEMMA AsyncLoopStepInv ==
    ASSUME AsyncInv, NEW l \in LoopId, ~overlapped', Async!LoopStep(l)
    PROVE  AsyncStopInv' /\ AsyncTaskInv'
<1>1. /\ UNCHANGED <<task, pc, joinee, halted, overlapped>>
      /\ \A m \in LoopId : loop'[m] \in Async!Alive => loop[m] \in Async!Alive
  BY DEF AsyncInv, AsyncFlushType, Async!LoopStep, Async!LoopFlush, Async!Wake, Async!Quit,
         Async!Flushed, Async!OnErrorRaised, Async!LoopTo,
         Async!CallerOnly, Async!Alive
<1>2. QED
  BY <1>1 DEF AsyncInv, AsyncStopInv, AsyncTaskInv

LEMMA AsyncStepInv ==
    ASSUME AsyncInv, [Async!Next]_(Async!vars)
    PROVE  AsyncInv'
<1>1. AsyncLifeType' /\ AsyncJoineeInv' /\ AsyncFlushType'
  BY AsyncStepLifeType, AsyncStepJoinee, AsyncStepFlushType DEF AsyncInv
<1>2. ASSUME ~overlapped', UNCHANGED Async!vars PROVE AsyncStopInv' /\ AsyncTaskInv'
  BY <1>2 DEF AsyncInv, AsyncStopInv, AsyncTaskInv, Async!vars, Async!loopVars
<1>3. ~overlapped' => AsyncStopInv' /\ AsyncTaskInv'
  BY <1>2, AsyncCallStepInv, AsyncCallerStepInv, AsyncLoopStepInv DEF Async!Next
<1>4. QED
  BY <1>1, <1>3 DEF AsyncInv

\* As long as no call overlaps a stop(), a loop task that runs is the one a
\* stop() would await, and none runs between a stop() and the next start()
\* (_async.py:78-98).
THEOREM AsyncNoOrphan == Async!Spec => []Async!NoOrphanInSequence
<1>1. AsyncInv => Async!NoOrphanInSequence
  BY FlushLoopAssumption DEF AsyncInv, Async!NoOrphanInSequence, AsyncTaskInv
<1>2. Async!Init => AsyncInv
  BY AsyncInitInv
<1>3. AsyncInv /\ [Async!Next]_(Async!vars) => AsyncInv'
  BY AsyncStepInv
<1>4. QED
  BY <1>1, <1>2, <1>3, PTL DEF Async!Spec
==============================================================================
