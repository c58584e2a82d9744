------------------------------ MODULE AsyncLoop ------------------------------
(***************************************************************************)
(* The life of the background flush task of the asyncio front end: start,  *)
(* stop and aclose awaited by the program's tasks, and the loop.  All run  *)
(* on one event loop: a step runs from one await to the next.  Unlike the  *)
(* blocking front end, every start() makes a new Event, stop() waits       *)
(* without a timeout, and the loop reads self._stopping at every turn.     *)
(***************************************************************************)
EXTENDS Naturals, FiniteSets

CONSTANTS Caller,        \* tasks that await start, stop and aclose
          TaskId,        \* bound: the loop tasks that can be created
          None           \* Python's None; "the flush lock is free"

ASSUME AsyncLoopAssumption ==
    /\ None \notin Caller \cup TaskId
    /\ Caller \cap TaskId = {}

VARIABLES
    task,       \* AsyncTelemetry._task
    event,      \* AsyncTelemetry._stopping: named by the task it was made for
    set,        \* the events that are set
    loop,       \* what each loop task is doing
    waits,      \* the event each loop task waits for
    flushLock,  \* AsyncTelemetry._flush_lock: its holder
    pc,         \* what each caller is doing
    joinee,     \* the task stop() awaits
    closing,    \* the stop() under way is the first half of aclose()
    halted,     \* history: a stop() has returned and start() has not run since
    overlapped  \* history: start() or stop() was called under a stop()

loopVars == <<loop, waits>>
vars == <<task, event, set, loopVars, flushLock, pc, joinee, closing, halted, overlapped>>

Alive == {"waiting", "queued", "flushing"}

TypeOK ==
    /\ task \in TaskId \cup {None} /\ event \in TaskId \cup {None}
    /\ set \subseteq TaskId
    /\ loop \in [TaskId -> Alive \cup {"unborn", "ended", "crashed"}]
    /\ waits \in [TaskId -> TaskId \cup {None}]
    /\ flushLock \in TaskId \cup Caller \cup {None}
    /\ \A l \in TaskId : loop[l] = "flushing" <=> flushLock = l
    /\ pc \in [Caller -> {"idle", "joining", "queued", "flushing"}]
    /\ \A c \in Caller : pc[c] = "flushing" <=> flushLock = c
    /\ joinee \in [Caller -> TaskId \cup {None}]
    /\ closing \in [Caller -> BOOLEAN] /\ halted \in BOOLEAN /\ overlapped \in BOOLEAN

Init ==
    /\ task = None /\ event = None /\ set = {} /\ halted = FALSE /\ overlapped = FALSE
    /\ loop = [l \in TaskId |-> "unborn"] /\ waits = [l \in TaskId |-> None]
    /\ flushLock = None
    /\ pc = [c \in Caller |-> "idle"] /\ joinee = [c \in Caller |-> None]
    /\ closing = [c \in Caller |-> FALSE]

CallerTo(c, step) == pc' = [pc EXCEPT ![c] = step]
LoopTo(l, step)   == loop' = [loop EXCEPT ![l] = step]
CallerOnly        == <<pc, joinee, closing>>

Call(c) ==
    /\ pc[c] = "idle"
    /\ overlapped' = (overlapped \/ \E d \in Caller : pc[d] = "joining")

------------------------------------------------------------------------------
(* start(): no await inside, so the test and the creation are one step. *)

Start(c) ==
    /\ Call(c) /\ task = None
    /\ \E l \in TaskId :
          /\ loop[l] = "unborn"
          /\ LoopTo(l, "waiting") /\ waits' = [waits EXCEPT ![l] = l]
          /\ task' = l /\ event' = l
    /\ halted' = FALSE
    /\ UNCHANGED <<set, flushLock, CallerOnly>>

(* stop() and aclose(). *)

\* mutant: stop() does not set the event
StopUnset(c, andFlush) ==
    /\ Call(c) /\ task # None
    /\ joinee' = [joinee EXCEPT ![c] = task]
    /\ closing' = [closing EXCEPT ![c] = andFlush]
    /\ CallerTo(c, "joining")
    /\ UNCHANGED <<task, event, set, loopVars, flushLock, halted>>

Stop(c, andFlush) ==
    /\ Call(c) /\ task # None
    /\ set' = set \cup {event}
    /\ joinee' = [joinee EXCEPT ![c] = task]
    /\ closing' = [closing EXCEPT ![c] = andFlush]
    /\ CallerTo(c, "joining")
    /\ UNCHANGED <<task, event, loopVars, flushLock, halted>>

CloseStopped(c) ==
    /\ Call(c) /\ task = None
    /\ CallerTo(c, "queued")
    /\ UNCHANGED <<task, event, set, loopVars, flushLock, joinee, closing, halted>>

\* mutant: stop() does not await the task
StoppedEarly(c) ==
    /\ pc[c] = "joining"
    /\ task' = None
    /\ halted' = TRUE
    /\ joinee' = [joinee EXCEPT ![c] = None]
    /\ closing' = [closing EXCEPT ![c] = FALSE]
    /\ CallerTo(c, IF closing[c] THEN "queued" ELSE "idle")
    /\ UNCHANGED <<event, set, loopVars, flushLock, overlapped>>

\* The await is over: the task returned, or was cancelled.
Stopped(c) ==
    /\ pc[c] = "joining" /\ loop[joinee[c]] = "ended"
    /\ task' = None
    /\ halted' = TRUE
    /\ joinee' = [joinee EXCEPT ![c] = None]
    /\ closing' = [closing EXCEPT ![c] = FALSE]
    /\ CallerTo(c, IF closing[c] THEN "queued" ELSE "idle")
    /\ UNCHANGED <<event, set, loopVars, flushLock, overlapped>>

\* The task had died of an exception: await raises it here, _task stays, and
\* aclose() does not get to its flush.
StopRaises(c) ==
    /\ pc[c] = "joining" /\ loop[joinee[c]] = "crashed"
    /\ joinee' = [joinee EXCEPT ![c] = None]
    /\ closing' = [closing EXCEPT ![c] = FALSE]
    /\ CallerTo(c, "idle")
    /\ UNCHANGED <<task, event, set, loopVars, flushLock, halted, overlapped>>

\* The caller is cancelled while it awaits the task: the task is cancelled with
\* it, the lock of a flush under way is freed.
CancelStop(c) ==
    /\ pc[c] = "joining" /\ loop[joinee[c]] \in Alive
    /\ LoopTo(joinee[c], "ended")
    /\ flushLock' = IF flushLock = joinee[c] THEN None ELSE flushLock
    /\ UNCHANGED <<task, event, set, waits, CallerOnly, halted, overlapped>>

FinalFlush(c) ==
    /\ pc[c] = "queued" /\ flushLock = None
    /\ flushLock' = c
    /\ CallerTo(c, "flushing")
    /\ UNCHANGED <<task, event, set, loopVars, joinee, closing, halted, overlapped>>

FinalFlushed(c) ==
    /\ pc[c] = "flushing"
    /\ flushLock' = None
    /\ CallerTo(c, "idle")
    /\ UNCHANGED <<task, event, set, loopVars, joinee, closing, halted, overlapped>>

------------------------------------------------------------------------------
(* _loop(). *)

\* wait_for times out before the event is set.
Wake(l) ==
    /\ loop[l] = "waiting" /\ waits[l] \notin set
    /\ LoopTo(l, "queued")
    /\ UNCHANGED <<task, event, set, waits, flushLock, CallerOnly, halted, overlapped>>

Quit(l) ==
    /\ loop[l] = "waiting" /\ waits[l] \in set
    /\ LoopTo(l, "ended")
    /\ UNCHANGED <<task, event, set, waits, flushLock, CallerOnly, halted, overlapped>>

\* mutant: the loop does not take the flush lock
LoopFlushUnlocked(l) ==
    /\ loop[l] = "queued"
    /\ flushLock' = l
    /\ LoopTo(l, "flushing")
    /\ UNCHANGED <<task, event, set, waits, CallerOnly, halted, overlapped>>

LoopFlush(l) ==
    /\ loop[l] = "queued" /\ flushLock = None
    /\ flushLock' = l
    /\ LoopTo(l, "flushing")
    /\ UNCHANGED <<task, event, set, waits, CallerOnly, halted, overlapped>>

\* Sent, or failed and on_error (if any) returned; the next wait reads
\* self._stopping again.
Flushed(l) ==
    /\ loop[l] = "flushing"
    /\ flushLock' = None
    /\ LoopTo(l, "waiting")
    /\ waits' = [waits EXCEPT ![l] = event]
    /\ UNCHANGED <<task, event, set, CallerOnly, halted, overlapped>>

OnErrorRaised(l) ==
    /\ loop[l] = "flushing"
    /\ flushLock' = None
    /\ LoopTo(l, "crashed")
    /\ UNCHANGED <<task, event, set, waits, CallerOnly, halted, overlapped>>

------------------------------------------------------------------------------

CallerStep(c) == Stopped(c) \/ StopRaises(c) \/ FinalFlush(c) \/ FinalFlushed(c)
LoopStep(l)   == Wake(l) \/ Quit(l) \/ LoopFlush(l) \/ Flushed(l) \/ OnErrorRaised(l)

Next ==
    \/ \E c \in Caller :
          \/ Start(c) \/ CloseStopped(c) \/ CancelStop(c)
          \/ \E andFlush \in BOOLEAN : Stop(c, andFlush)
          \/ CallerStep(c)
    \/ \E l \in TaskId : LoopStep(l)

Spec == Init /\ [][Next]_vars

(* Fairness: the event loop runs every ready task, wait_for times out, a      *)
(* flush ends, and asyncio.Lock serves its waiters in order.                  *)
Fairness ==
    /\ \A c \in Caller : SF_vars(CallerStep(c))
    /\ \A l \in TaskId : SF_vars(LoopStep(l))

FairSpec == Spec /\ Fairness

------------------------------------------------------------------------------
(* Properties. *)

\* A loop task that runs is the one self._task names, so that a stop() finds
\* it; and stop() "waits for it to finish" (_async.py:87): when it has returned
\* and start() was not called again, no loop task runs.  This for a program
\* whose starts and stops do not overlap another stop().
NoOrphanInSequence ==
    ~overlapped => \A l \in TaskId : loop[l] \in Alive => task = l /\ ~halted

\* stop() and aclose() return, unless calls overlap: then a start() can give the
\* loop that is being stopped a new event to wait for, which nobody has set.
StopReturns == \A c \in Caller : (pc[c] = "joining") ~> (pc[c] = "idle" \/ overlapped)
==============================================================================
