------------------------------ MODULE FlushLoop ------------------------------
(***************************************************************************)
(* The life of the background flush thread of the blocking Python front    *)
(* end: start(), stop(), close() called by the program's threads, and the  *)
(* loop itself.  A flush is one step that takes as long as it takes; what  *)
(* happens inside it is module Flush.                                      *)
(***************************************************************************)
EXTENDS Naturals, FiniteSets

CONSTANTS Caller,        \* threads that call start, stop and close
          LoopId,        \* bound: the loop threads that can be created
          None           \* Python's None; "the flush lock is free"

ASSUME FlushLoopAssumption ==
    /\ None \notin Caller \cup LoopId
    /\ Caller \cap LoopId = {}

VARIABLES
    thread,    \* Telemetry._thread
    stopping,  \* Telemetry._stopping, the one Event all loops share
    loop,      \* what each loop thread is doing
    flushLock, \* Telemetry._flush_lock: its holder
    pc,        \* what each caller is doing
    joinee,    \* the thread stop() read before it set the event
    closing,   \* the stop() under way is the first half of close()
    halted,    \* history: stop() has returned and start() has not run since
    overlapped,\* history: two calls of start, stop or close have overlapped
    gaveUp     \* history: a join() has timed out

history == <<overlapped, gaveUp>>
vars == <<thread, stopping, loop, flushLock, pc, joinee, closing, halted, history>>

Alive == {"waiting", "queued", "flushing"}

TypeOK ==
    /\ thread \in LoopId \cup {None}
    /\ stopping \in BOOLEAN /\ halted \in BOOLEAN
    /\ loop \in [LoopId -> Alive \cup {"unborn", "created", "ended", "crashed"}]
    /\ flushLock \in LoopId \cup Caller \cup {None}
    /\ \A l \in LoopId : loop[l] = "flushing" <=> flushLock = l
    /\ pc \in [Caller -> {"idle", "starting", "creating", "launching", "joining", "joined",
                          "queued", "flushing"}]
    /\ \A c \in Caller : pc[c] = "flushing" <=> flushLock = c
    /\ joinee \in [Caller -> LoopId \cup {None}]
    /\ closing \in [Caller -> BOOLEAN]
    /\ overlapped \in BOOLEAN /\ gaveUp \in BOOLEAN

\* The constructor has not started a thread yet (flush_seconds > 0 makes it
\* call start(), like any caller).
Init ==
    /\ thread = None /\ stopping = FALSE /\ halted = FALSE
    /\ loop = [l \in LoopId |-> "unborn"]
    /\ flushLock = None
    /\ pc = [c \in Caller |-> "idle"]
    /\ joinee = [c \in Caller |-> None]
    /\ closing = [c \in Caller |-> FALSE]
    /\ overlapped = FALSE /\ gaveUp = FALSE

CallerTo(c, step) == pc' = [pc EXCEPT ![c] = step]
LoopTo(l, step)   == loop' = [loop EXCEPT ![l] = step]

Call(c) ==
    /\ pc[c] = "idle"
    /\ overlapped' = (overlapped \/ \E d \in Caller : pc[d] # "idle")
    /\ UNCHANGED gaveUp

------------------------------------------------------------------------------
(* start() tests _thread without a lock, and acts on the test later. *)

\* The bound on threads: one is left for every call that is starting one.
CanCreate == Cardinality({l \in LoopId : loop[l] = "unborn"})
                > Cardinality({c \in Caller : pc[c] \in {"starting", "creating"}})

Start(c) ==
    /\ Call(c) /\ thread = None /\ CanCreate
    /\ CallerTo(c, "starting")
    /\ UNCHANGED <<thread, stopping, loop, flushLock, joinee, closing, halted>>

Unstop(c) ==
    /\ pc[c] = "starting"
    /\ stopping' = FALSE
    /\ CallerTo(c, "creating")
    /\ UNCHANGED <<thread, loop, flushLock, joinee, closing, halted, history>>

Create(c) ==
    /\ pc[c] = "creating"
    /\ \E l \in LoopId : loop[l] = "unborn" /\ LoopTo(l, "created") /\ thread' = l
    /\ CallerTo(c, "launching")
    /\ halted' = FALSE
    /\ UNCHANGED <<stopping, flushLock, joinee, closing, history>>

\* start() of whatever thread _thread names by now: of none, or of one that
\* another caller has started already, it raises.
Launch(c) ==
    /\ pc[c] = "launching"
    /\ IF thread # None /\ loop[thread] = "created"
          THEN LoopTo(thread, "waiting") ELSE UNCHANGED loop
    /\ CallerTo(c, "idle")
    /\ UNCHANGED <<thread, stopping, flushLock, joinee, closing, halted, history>>

(* stop() and close(). *)

\* mutant: stop() does not wait for the thread
StopWithoutJoin(c, andFlush) ==
    /\ Call(c) /\ thread # None
    /\ stopping' = TRUE
    /\ joinee' = [joinee EXCEPT ![c] = thread]
    /\ closing' = [closing EXCEPT ![c] = andFlush]
    /\ CallerTo(c, "joined")
    /\ UNCHANGED <<thread, loop, flushLock, halted>>

Stop(c, andFlush) ==
    /\ Call(c) /\ thread # None
    /\ stopping' = TRUE
    /\ joinee' = [joinee EXCEPT ![c] = thread]
    /\ closing' = [closing EXCEPT ![c] = andFlush]
    /\ CallerTo(c, "joining")
    /\ UNCHANGED <<thread, loop, flushLock, halted>>

\* No thread to stop: close() goes on to its flush.
CloseStopped(c) ==
    /\ Call(c) /\ thread = None
    /\ CallerTo(c, "queued")
    /\ UNCHANGED <<thread, stopping, loop, flushLock, joinee, closing, halted>>

\* join() of a thread that was not started yet raises: stop() forgets nothing.
JoinRaises(c) ==
    /\ pc[c] = "joining" /\ loop[joinee[c]] = "created"
    /\ joinee' = [joinee EXCEPT ![c] = None]
    /\ closing' = [closing EXCEPT ![c] = FALSE]
    /\ CallerTo(c, "idle")
    /\ UNCHANGED <<thread, stopping, loop, flushLock, halted, history>>

Joined(c) ==
    /\ pc[c] = "joining" /\ loop[joinee[c]] \in {"ended", "crashed"}
    /\ CallerTo(c, "joined")
    /\ UNCHANGED <<thread, stopping, loop, flushLock, joinee, closing, halted, history>>

\* join(timeout) gives up, and returns: on a thread that is inside flush() for
\* too long, or on one that will not quit since start() cleared the event.
JoinTimeout(c) ==
    /\ pc[c] = "joining" /\ loop[joinee[c]] \in Alive
    /\ loop[joinee[c]] = "waiting" => ~stopping
    /\ gaveUp' = TRUE
    /\ CallerTo(c, "joined")
    /\ UNCHANGED <<thread, stopping, loop, flushLock, joinee, closing, halted, overlapped>>

Forget(c) ==
    /\ pc[c] = "joined"
    /\ thread' = None
    /\ halted' = TRUE
    /\ joinee' = [joinee EXCEPT ![c] = None]
    /\ closing' = [closing EXCEPT ![c] = FALSE]
    /\ CallerTo(c, IF closing[c] THEN "queued" ELSE "idle")
    /\ UNCHANGED <<stopping, loop, flushLock, history>>

FinalFlush(c) ==
    /\ pc[c] = "queued" /\ flushLock = None
    /\ flushLock' = c
    /\ CallerTo(c, "flushing")
    /\ UNCHANGED <<thread, stopping, loop, joinee, closing, halted, history>>

FinalFlushed(c) ==
    /\ pc[c] = "flushing"
    /\ flushLock' = None
    /\ CallerTo(c, "idle")
    /\ UNCHANGED <<thread, stopping, loop, joinee, closing, halted, history>>

------------------------------------------------------------------------------
(* _loop(). *)

LoopOnly == <<thread, stopping, pc, joinee, closing, halted, history>>

\* _stopping.wait(flush_seconds) times out.
Wake(l) ==
    /\ loop[l] = "waiting" /\ ~stopping
    /\ LoopTo(l, "queued")
    /\ UNCHANGED <<flushLock, LoopOnly>>

Quit(l) ==
    /\ loop[l] = "waiting" /\ stopping
    /\ LoopTo(l, "ended")
    /\ UNCHANGED <<flushLock, LoopOnly>>

\* mutant: the loop does not take the flush lock
LoopFlushUnlocked(l) ==
    /\ loop[l] = "queued"
    /\ flushLock' = l
    /\ LoopTo(l, "flushing")
    /\ UNCHANGED LoopOnly

LoopFlush(l) ==
    /\ loop[l] = "queued" /\ flushLock = None
    /\ flushLock' = l
    /\ LoopTo(l, "flushing")
    /\ UNCHANGED LoopOnly

\* mutant: a failed flush ends the loop
FlushedOrDead(l) ==
    /\ loop[l] = "flushing"
    /\ flushLock' = None
    /\ \E step \in {"waiting", "ended"} : LoopTo(l, step)
    /\ UNCHANGED LoopOnly

\* mutant: the loop never looks at the event again
FlushedForEver(l) ==
    /\ loop[l] = "flushing"
    /\ flushLock' = None
    /\ LoopTo(l, "queued")
    /\ UNCHANGED LoopOnly

\* The flush succeeded, or failed and on_error (if any) returned.
Flushed(l) ==
    /\ loop[l] = "flushing"
    /\ flushLock' = None
    /\ LoopTo(l, "waiting")
    /\ UNCHANGED LoopOnly

\* The flush failed and on_error raised: nothing catches that.
OnErrorRaised(l) ==
    /\ loop[l] = "flushing"
    /\ flushLock' = None
    /\ LoopTo(l, "crashed")
    /\ UNCHANGED LoopOnly

------------------------------------------------------------------------------

CallerStep(c) ==
    \/ Unstop(c) \/ Create(c) \/ Launch(c)
    \/ JoinRaises(c) \/ Joined(c) \/ JoinTimeout(c) \/ Forget(c) \/ FinalFlushed(c)
LoopStep(l)   == Wake(l) \/ Quit(l) \/ Flushed(l) \/ OnErrorRaised(l)

Next ==
    \/ \E c \in Caller :
          \/ Start(c) \/ CloseStopped(c)
          \/ \E andFlush \in BOOLEAN : Stop(c, andFlush)
          \/ CallerStep(c) \/ FinalFlush(c)
    \/ \E l \in LoopId : LoopStep(l) \/ LoopFlush(l)

Spec == Init /\ [][Next]_vars

(* Fairness: threads run, wait() and join() time out, flush() ends (as       *)
(* ShutdownBounded of module Service shows), and a thread that keeps asking  *)
(* for the flush lock gets it.  Nothing makes the program call start, stop   *)
(* or close.                                                                 *)
Fairness ==
    /\ \A c \in Caller : WF_vars(CallerStep(c)) /\ SF_vars(FinalFlush(c))
    /\ \A l \in LoopId : WF_vars(LoopStep(l)) /\ SF_vars(LoopFlush(l))

FairSpec == Spec /\ Fairness

------------------------------------------------------------------------------
(* Properties. *)

\* Calls of start, stop and close that do not overlap, and flushes that end
\* within join(timeout_seconds + 5): what the program has to see to itself, as
\* start() tests _thread without a lock and stop() forgets a thread it could
\* not join (_telemetry.py:91, 104).
WellUsed == ~overlapped /\ ~gaveUp

\* One background thread at a time ("the background flush thread",
\* _telemetry.py:90; the test of _thread at line 91 is there for this).
\* And when stop() has returned and start() was not called again, none runs
\* ("Stops the background flush thread", line 99).
AtMostOneLoop ==
    WellUsed =>
        /\ \A l, m \in LoopId : loop[l] \in Alive /\ loop[m] \in Alive => l = m
        /\ halted => \A l \in LoopId : loop[l] \notin Alive

\* A started loop that nobody stops flushes again and again, failed flushes
\* included ("the loop must not die", _telemetry.py:112), unless the program's
\* own on_error raised in it.
KeepsFlushing ==
    <>[](thread # None /\ ~stopping /\ loop[thread] # "crashed")
        => []<>(\E l \in LoopId : loop[l] = "flushing")

\* stop() and close() return or raise, however long the flush under way takes; and
\* once the event stays set every loop thread ends, also one whose join()
\* timed out and one that a second start() displaced.
StopEnds ==
    /\ \A c \in Caller : (pc[c] = "joining") ~> (pc[c] = "idle")
    /\ <>[]stopping => <>[](\A l \in LoopId : loop[l] \notin Alive)
==============================================================================
