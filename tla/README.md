# Specifications of the NetCrunch telemetry clients

The repository holds five client libraries (Python, Go, JavaScript, .NET,
PowerShell) for one wire format, the NetCrunch *Telemetry* sensor
(`spec/v1.md`, `spec/client-model.md`). A program stages counters, statuses,
events and data objects in memory; a flush posts all of it as one JSON payload
and retries failures; a background loop may flush on a timer. The modules in
this directory specify that behaviour. TLC checks them on small instances, and
TLAPS proves the safety properties for every instance.

Source paths below are relative to `src/`.

## Inventory

| Part | State | Operations | What is hard |
| --- | --- | --- | --- |
| Registry (every client) | counters in staging order, statuses, timestamps, data objects, events | counter, status, event, timestamp, data, clear, build_payload | staging and clear() run while a flush is in flight; a payload reads its handles at different moments |
| Counter handles | one number each: a lock (Python), one event loop (JavaScript), compare-and-swap (Go, .NET) | set, add, max, min, reset | lost updates, overflow |
| Aggregates (SelfCount, PartCount, CategoryCount) | what each instance holds against a counter | construct, set, close or dispose | double close, close against set, set after close, clear() between set and close |
| Transport | the attempt counter | post, retry, backoff | a timeout with the request still travelling, lost answers, cut answers |
| Flush | a flush lock (Python, Go, .NET) or a shared promise (JavaScript) | flush | concurrent flushes; a failure must keep the events, a success must remove exactly what was sent |
| Background loop | thread, task, goroutine or timer; a stop signal | start, stop, close, dispose | starts and stops that overlap, slow flushes, callbacks that raise |
| Validation | none | checks of names, values, instances, members | the receiver drops invalid values silently, so a client must refuse them |
| Example services | the main thread, its signal handler and the background loop | serve, shut down | retention against missed flushes, a signal under a flush or a library call |
| PowerShell module | one script-scope buffer | Connect, Set-NC*, Add-NCEvent, Send, Clear | single-threaded: a retry loop and validation |

How they interact: the program's threads call the registry and the handles; a
flush (called by the program or by the loop) takes the flush lock, snapshots the
registry under the registry lock, posts without it, and trims the sent events
under it again. Locks are always taken in the order aggregate, registry,
counter. The loop and `stop`/`close`/`dispose` share a stop signal.

What makes each part correct:

- *flush*: no event is lost silently; events first arrive in staging order; an
  older absolute value does not replace a newer one; every flush ends; staged
  data arrives as long as the loop runs.
- *registry*: what a call accepts the receiver keeps; what was reported once
  stays in every payload until clear(); a value that cannot be sent delays events
  and loses none.
- *aggregates*: a counter is what calls made by hand add up to plus exactly what
  each open aggregate holds; a payload counts a category count once.
- *loops*: one at a time, none after `stop()`, it survives failed flushes, and
  `stop()`/`close()`/`dispose()` return.
- *a service*: values do not expire while it runs; an exit with 0 has said
  everything; a shutdown takes a bounded time.

## Modules

| Module | What it specifies | Source |
| --- | --- | --- |
| `Receiver` | External: NetCrunch taking a payload. Absolute values replace, events accumulate (`spec/v1.md`). | how the clients use it |
| `EventOutbox` | Abstract: what a client promises about events. Stage at the end, deliver the oldest first and possibly again, remove only what was delivered, discard only by clear(). | `_registry.py`, shared promise of all clients |
| `Flush` | The Python flush of both front ends: staging, flush lock, snapshot, retry loop, trim, clear(), cancellation. Implements `EventOutbox`. | `_telemetry.py`, `_async.py`, `_transport.py`, `_registry.py` |
| `FlushLoop` | start, stop, close and the thread of the blocking Python front end; start() is one action per line, since it tests, clears, creates and starts without a lock. | `_telemetry.py` |
| `AsyncLoop` | start, stop, aclose and the task of the asyncio front end. | `_async.py` |
| `Registry`, `MCRegistry` | Every staging call of Python with its checks, the stores, the payload they make, its encoding, and a flush that fails or delivers it. | `_registry.py`, `_validate.py`, `_counters.py` |
| `Categories`, `MCCategories` | Category counts, the registry that resolves their buckets and build_payload reading handle by handle (Python). | `_counters.py`, `_registry.py` |
| `Counters`, `MCCounters` | Handles and the three aggregates in four clients, one variable choosing the client. | `_counters.py`, `handles.js`, `counter.go`, `Counter.cs`, `Aggregates.cs` |
| `Service` | A program built like the example, second by second: main thread, signals, loop, attempts and pauses, retention. | `examples/service.py`, `_telemetry.py`, `_transport.py`, `_registry.py` |
| `GoClient` | Flush, loop and Close of Go, with both mutexes, contexts, and a panic under the lock. Implements `EventOutbox`. | `telemetry.go`, `transport.go` |
| `JsClient` | Flush, the shared request, the interval timer and close() of JavaScript. Implements `EventOutbox`. | `registry.js`, `transport.js` |
| `DotnetClient` | FlushAsync, LoopAsync, DisposeAsync and Dispose of .NET, with the first-come-first-served gate. Implements `EventOutbox`. | `Telemetry.cs` |
| `FlushProofs`, `LoopProofs`, `CountProofs`, `RegistryProofs`, `ServiceProofs`, `GoProofs`, `JsProofs`, `DotnetProofs` | The TLAPS proofs (below). `LoopProofs` is about `FlushLoop` and `AsyncLoop`, `CountProofs` about `Categories` and `Counters`; each extends the first of the two and instantiates the second. | |

`Flush`, `GoClient`, `JsClient` and `DotnetClient` extend `Receiver`, and each
instantiates `EventOutbox` with `queue <- events`. The Python client is cut along
its locks, and the pieces meet at interfaces that another piece shows:

- `FlushLoop` and `AsyncLoop` treat one flush as an interval (acquire, then end)
  and assume that it ends; `EventuallyDelivered` of `Flush` fails if one does not,
  and `ShutdownBounded` of `Service` bounds how long it takes.
- `Flush` takes all absolute state as one number, the age of the newest value;
  what that state is, and what the receiver makes of it, is `Registry`.
- `Registry` takes a flush as one build followed by one success or failure; how
  it retries is `Flush`.
- `Registry` reads its handles in one step; that a payload reads them one by one
  while category counts move is `Categories`.
- `Service` puts the loop, the retries and the shutdown together, with time.

The MC modules only give finite sets and symmetry.

### From code to model

- One action is one stretch of code that no other actor can see the middle of:
  what runs under one lock, or from one `await` to the next. In `Flush`,
  `Acquire` is the entry of `with self._flush_lock`, `BuildPayload` the snapshot,
  `Receive`/`Refuse`/`TimeOut` what the network does with the attempt,
  `Succeed`/`Backoff`/`Retry`/`Raise` the branches of `post`, `Trim` the removal
  by count, and `Leave` the exit of the `with` block on every path.
- Events are numbered in staging order. The repository gives them no identity,
  so a retry whose first answer was lost repeats them; `EventOutbox` allows it.
- All absolute values (counters, statuses, data) are one number, `gauge`, which
  only grows in the model so that "older" has a meaning. 0 stands for a payload
  with nothing absolute in it.
- An attempt may be answered 2xx, refused for good (4xx), refused for now (429,
  5xx, no connection), cut short, or time out while the request is still
  travelling. Such a request is in `late`, and arrives later or never.
- A payload that cannot be encoded (status data of any type) fails before a
  request is made. In the four flush modules that is the `Refuse` of a first attempt:
  nothing arrives, nothing is trimmed, the call fails and frees its lock. In
  `Registry` it is `Fail`, and depends on what is staged.
- In `Registry` a text is what the checks ask of it: is it a str, is it blank,
  does it start with "@", how long is it. A data object is the lengths of its two
  members and whether its rows are ragged. A call that is refused raises before it
  changes anything, so it is an action that is not enabled. The receiver's silent
  rules (`spec/v1.md` §3-7) are the four `Keeps` operators, written from the spec
  and not from the checks. The key under which a counter is registered joins its
  parts with NUL (`_registry.py:19`); the model takes the parts as a tuple.
- In `Counters`, numbers are the integers of a small range plus the two
  infinities, which is what the refusals and the sums can tell apart. Python and
  JavaScript update a counter in one step; Go and .NET load, compute and swap.
- In `Service` time is a `Tick` of one second, which is possible only while some
  thread waits (for the interval, an answer, a pause). A signal lands between any
  two steps of the main thread, inside a call of the library included. A request that
  timed out never arrives later: that would only make values younger, and
  `LastWord` is about what the receiver was told. What it shows after a late arrival
  is `ShownNeverRegresses`, in `Flush`.
- A variable commented "history" records what happened for a property, and no
  action reads it to decide anything a program would do.
- Definitions commented "mutant" are variants with one plausible mistake; no
  specification uses them. They are there to show that each property can fail.

## Runs

| Run | Question | Bounds |
| --- | --- | --- |
| `FlushLive` | Does the Python flush keep every event, implement `EventOutbox`, never fall back to an older value on its own, deliver, and end up current? | loop and one caller, 2 events, 2 values, 1 retry, 1 late request |
| `GoLife`, `JsLife`, `NetLife` | The same for the other clients, with what their callers are told: a flush that succeeded has sent what was staged before it, and every call returns. | loop and 1 caller (.NET: 2), 2 events, 1 value (.NET: two of these three in one behaviour, `MaxStaged`), 1 retry, 1 late request |
| `LoopLife`, `AsyncLife` | One loop, none after stop(), failures survived, stop() returns. | 2 callers, 2 loop threads / 3 loop tasks |
| `RegistryLife` | Does the receiver keep all that is accepted, does what was reported stay, and is every event delivered once a bad value is gone? | a text for each way to pass or be refused, 5 paths, 3 paths for timestamps (its own, one a counter has too, a blank one), keys at and beyond the limit, arrays at and beyond it, 2 events |
| `CatOccupancy` | Does every bucket, and every payload, count each category count once? | 2 threads, 2 category counts, 3 buckets |
| `CountLedger` | Is a counter exactly what was done to it by hand plus what the aggregates hold, in all four clients? | 2 threads, 1 aggregate of each class, 2 counters, finite numbers -3..3 |
| `ServiceLife` | Do values outlive the gap between two sends, does an exit with 0 mean that all was said, and how long does a shutdown take? | interval 2 s, attempts 2 s, 2 retries, 2 missed flushes, 2 signals, 2 events, retention 24 s |
| `GoClear`, `JsClose` | Findings, below: TLC must find the violation. | the smallest that shows it |

Why the bounds are enough to be interesting: two flushers are what it takes for
flushes to overlap, queue and race close; two events are a sent one and one staged
under way, so that trimming too much, too little or out of order differ; one retry
gives a first, a middle and a last attempt and every exit of the loop; one late
request can arrive before, between and after the retries. In .NET two callers matter
(one disposes while the other waits). To keep that run within minutes its constant
`MaxStaged` bounds events and values together: a behaviour stages two events, one of
them perhaps under a request, or an event and a value. For the counters, two threads
and three updates give every interleaving of a load, a swap and a retry; numbers up
to 3 let a sum (2+2) and a difference (-2 to 2) leave the finite range. In
`RegistryLife` the limits are small (keys of 2, arrays of 1) and the inputs straddle
them. In `ServiceLife` a flush takes at most 3·2 + 1 + 2 = 9 seconds, so two missed
ones already matter, and the retention of 24 is exactly what one missed flush needs
(2·(2+9)+2): the run reaches an age of values that meets the bound, and with two
missed ones the condition of `KeptWhileRetained` is no longer true.

`CHECK_DEADLOCK FALSE` appears where a program that has closed its client, a
service that has exited or hangs in its signal handler, or a Go process after a
panic, rightly stops. The other passing runs check for deadlock; in
`CatOccupancy` that covers the lock order aggregate, registry, counter.

### What the properties say beyond the shape of the code

- `NoSilentLoss`, `OutboxSpec`: retries, cuts, cancellation and staging under a
  request lose nothing, and events first arrive in order.
- `ShownNeverRegresses`: NetCrunch goes back to an older value only when a
  request the client gave up on arrives late. It cannot be excluded: a payload
  carries no sequence number, and `spec/v1.md:95` calls delivery idempotent.
- `FlushedMeansSent`, `NilMeansSent`, `SuccessMeansSent`: what a successful call
  tells its caller. In JavaScript it holds of flushes that made their own request.
- `EventuallyDelivered`, `EventuallyCurrent`, `KeepsFlushing`, `StopEnds`,
  `StopReturns`, `CallsReturn`, `FlushSettles`: under fairness. The first of them
  also takes that no flush keeps its lock, whatever the server answers.
- `AtMostOneLoop`, `NoOrphanInSequence`: a loop that runs is one that stop() can
  find, and none runs after it, for programs whose calls do not overlap (and, in
  the blocking client, whose joins do not time out: `WellUsed`).
- `ReceiverKeepsAll`: the checks of the client imply those of the receiver. The
  exception is a data object whose lists the program changed after data().
- `StaysReported`: what has been reported is in every payload until clear(); zero
  and absent differ. The one exception is the path of a timestamp whose status key
  is given another path, and it may not take a counter with it. A timestamp is sent
  in place of any status of its key, whichever came last. `HealedDelivers`: a
  counter that overflowed, or status data that is not JSON, fails every flush but
  loses no event.
- `OccupancyExact`, `PayloadCounts`: a bucket counts exactly its holders unless
  clear() found one held (`orphaned`); a payload counts none twice and leaves out
  none that did not move while it was built.
- `LedgerBalanced`: no update of a counter is lost, in four clients.
- `KeptWhileRetained`, `LastWord`, `ShutdownBounded`: what a service gets out of
  all this, in seconds.

### Fairness, and why the code justifies it

Nothing makes a program stage, flush, start, stop or clear. Assumed are:

- a thread, task or goroutine inside the library goes on (weak fairness);
- every attempt ends, because every client sets a timeout: weak fairness of
  `Refuse`, the outcome that is always open;
- an abandoned request arrives or is dropped (Python, JavaScript);
- the loop fires again (timed wait, ticker, interval) and gets the flush lock
  if it asks again and again: strong fairness. Go's `sync.Mutex` hands over to a
  starving waiter, `asyncio.Lock` and `SemaphoreSlim` serve in order, a
  `threading.Lock` with a loop that asks every few seconds is free often enough;
- Go's `select` chooses at random among what is ready, so a closed `stop` is
  noticed: strong fairness of `Quit`;
- in JavaScript the interval fires now and then with no request of a caller in
  flight: otherwise a tick shares the caller's request and sends nothing new;
- a network that is tried for ever lets a request of the loop through again and
  again: strong fairness of a successful attempt, in `Registry` of a delivery.
  Without it nothing can be delivered, whatever the client does. It includes that a
  program does not keep a value staged that cannot be encoded; `HealedDelivers` says
  so where the value is modelled.

`Categories`, `Counters` and `Service` state safety only, without fairness.

## Proofs

The proofs hold for every value of the constants that satisfies the named
assumption of each module (`FlushAssumption`, `GoAssumption`, ...); these say
that the sets of actors are disjoint, null values are none of the others, and
limits are natural numbers. `CountersAssumption` also says that 1 is a finite number
and that there are finitely many aggregates; the theorems about
`Counters` have it as their hypothesis (`L!LedgerConstants`), since an instance brings
no assumption along. Each proof follows one pattern: an inductive
invariant in named parts, a lemma for the initial states, a lemma per group of
actions with a step per action, and a temporal step at the end.

Every safety property of the passing runs is a theorem, the four refinements and
the two action properties included. `ArriveInOrder`, `NobodyForgotten` and
`NeverOlder` of Go, JavaScript and .NET go beyond the runs: no configuration lists
them.

| Theorem | What it says |
| --- | --- |
| `FlushProofs!TypeCorrect`, `FlushesSerialise` | Types, and two threads are never inside flush() together, clear() at any moment. |
| `FlushProofs!NothingLost`, `ArriveInOrder`, `ImplementsOutbox` | `NoSilentLoss`, events arrive in the order they were staged and none is lost, `OutboxSpec`, when clear() is not called under a request. |
| `FlushProofs!NeverOlder` | `ShownNeverRegresses`, clear() at any moment. |
| `GoProofs!TypeCorrect`, `NeverOlder` | Types, and what is shown goes back to an older value only when an abandoned request arrives, clear() at any moment. |
| `GoProofs!NilIsTrue`, `ArriveInOrder`, `ImplementsOutbox` | No trim panics, `NilMeansSent`, events in order and none lost, `OutboxSpec`, when clear() is not called under a request. |
| `JsProofs!TypeCorrect`, `ResolvedIsSent`, `NeverOlder`, `ArriveInOrder`, `ImplementsOutbox` | Types, `FlushedMeansSent`, values and events in order, `OutboxSpec`. |
| `DotnetProofs!TypeCorrect`, `GateExcludes`, `NobodyForgotten` | Types, the gate lets one task in at a time, and no wake-up is lost: who waits is in line and, until the gate is disposed of, somebody holds it who will hand it on. |
| `DotnetProofs!SuccessIsSent`, `NeverOlder`, `ArriveInOrder`, `ImplementsOutbox` | `SuccessMeansSent`, values and events in order, `OutboxSpec`. |
| `RegistryProofs!TypeCorrect`, `KeptAtTheOtherEnd`, `OnceReported` | Types (no run lists them), `ReceiverKeepsAll`, `StaysReported` with its exception for a timestamp that is replaced. |
| `RegistryProofs!ArriveInOrder` | Events in order and none lost, through flushes that fail in the encoder or on the network, clear() between flushes included. |
| `CountProofs!TypeCorrect`, `BucketsExact`, `PayloadsCount` | `Categories`: types, `OccupancyExact`, `PayloadCounts`. |
| `CountProofs!LedgerTypeCorrect`, `LedgerKept` | `Counters`: types, `LedgerBalanced`, in four clients. |
| `LoopProofs!TypeCorrect`, `OneLoopAtATime` | `FlushLoop`: types, `AtMostOneLoop`. |
| `LoopProofs!AsyncTypeCorrect`, `AsyncNoOrphan` | `AsyncLoop`: types, `NoOrphanInSequence`. |
| `ServiceProofs!TypeCorrect`, `NothingExpires`, `ShutdownEnds`, `ExitTellsAll` | Types, `KeptWhileRetained`, `ShutdownBounded`, `LastWord`. |

Where clear() stands differs. `Flush` and `GoClient` have it at any moment in
`Spec`; `QuietSpec` differs in one guard, clear() not under a request, and is what the
theorems about events need (finding 1). `JsClient` and `DotnetClient` have that
guard in `Spec` itself, so all of their theorems and properties take it.

Why the invariants are what they are:

- *The four clients: types.* `TypeOK` is not inductive: that the retry counter stays
  within its limit needs `AttemptInv` (a pause only while an attempt is left), and
  that leaving frees a lock that is held needs to know who holds it. In Python and Go
  that is `LockInv`: whoever is inside, and nobody else, is the holder. In JavaScript
  `FlightInv`: `#inFlight` names the one request under way, and who shares has one
  to share. In .NET `GateInv`: besides the holder, the queue of the
  gate names tasks that wait for it and each of them once, or the hand-over in
  `Release` could let a task in that had left the queue.
- *The four clients: events.* The trim removes the first n events whatever they are, so
  it is safe only if what was sent is still the front of the queue (`PrefixInv`) and
  has arrived (`DeliveredInv`). Both need the exclusion above: nobody else
  trims meanwhile. `OwedInv` says where the events are that a call still owes: in the
  queue until its snapshot, in its payload after. In JavaScript the snapshot is made
  with the call, and a `close()` that shares a request is the exception, as `JsClose`
  shows. Without the guard on clear(), `PrefixInv` fails, as `GoClear` shows.
- *The four clients: the outbox.* A delivery in `EventOutbox` is of the first n events
  of the queue, and an abandoned request that arrives late must be one too. `LateInv`
  says that such a request covers a front of the present queue, plus only events
  that have left it since; `KnownInv` that every event the client knows of was
  staged, so that the next one is new.
- *The four clients: order (`ArriveInOrder`).* `OrderInv` says that the queue is consecutive and
  reaches to the last event staged, and that all before its head have gone, that is
  arrived or were dropped. What has gone is then an initial run of the events staged
  (an abandoned request may have brought some of the queue as well, always from its
  front), so that each step of `EventOutbox` keeps it, and `OutboxStep` carries that
  over to each client; staging alone needs its own lemma, since the number of an event
  is not in `EventOutbox`.
- *Values (`NeverOlder`).* `AgeInv`: nothing shown or still travelling is newer than
  the payload under way, unless that payload has nothing absolute in it. In Python and
  Go it needs `LockInv` alone, in JavaScript `FlightInv`, in .NET the gate: with two
  payloads under way the older could be sent last.
- *The gate of .NET (`NobodyForgotten`).* `LineInv`: a waiting task is in line, and a gate
  nobody holds has no line. It rests on each task being in line once (`GateInv`): a release
  that took one entry of a task that had two, or a cancellation that
  left one behind, would hand the gate to a task that is gone.
- *Registry.* Each store keeps what its checks let in (`StoredInv`, one conjunct
  for each store), and `SendingInv` says that the payload under way is no longer
  than the queue. The rest is arithmetic of the checks against the `Keeps` rules:
  `NormalKept` and its like show that what passes one passes the other. For the
  order of events, `OrderInv`: the queue is the last events staged, and exactly the
  others have arrived or been dropped, so the first n of it are the next n in order.
- *Categories.* `Exact`: the counter of a bucket is the number of category counts
  that hold it. It needs that one thread at a time is inside a category count
  (`LockInv`), that what set() read of `_current` is still true (`HoldInv`), that
  handles are distinct and new ones at zero (`HandleInv`), and that a handle
  resolved is still the registered one when it is updated (`HandInv`), which clear()
  breaks, hence `orphaned`.
- *The payload.* `PayloadInv` names what a payload has counted so far: some set of
  category counts, as many as its buckets add up to, each of which is in a bucket
  already read or cannot enter one before the payload is over. The second half is the
  point: a count that has left an unread bucket may not turn up in
  one that has been read, or it could be counted again from there.
- *Counters.* `LedgerBalanced` speaks of the moments when no call is under way, so the
  invariant must speak of the others. `Balance` gives each counter its share of what
  the aggregates hold in the middle of a call: a self count from the first update of
  its constructor to the one of close(), a category count between its entry and its
  exit, a part count by what it has recorded. `CallInv` is the list of the
  calls a thread can be in and the updates each has left; `OneCall` that an aggregate
  is in one of them. Sums over sets of aggregates need lemmas of their own
  (`SumUnique`, `TotalChange` and their like): a fold is defined by recursion, and what
  it adds up to follows from the smallest subset for which it would not.
- *Loops.* `CallInv` and `StopInv`: calls do not overlap, and what start() and
  stop() have read of the thread or task is still so; a thread that was created and
  not started is that of the start() under way. `ThreadInv` and `TaskInv`: a loop
  that lives, or is about to, is the one the client names, and after stop() it names none.
- *Service.* `AgeBound`: a value is no older than the intervals missed, the flush
  under way so far and the attempt that brought the last payload. `LateInv` bounds
  a shutdown by the flush found under way plus the final one so far. `WordInv`: the
  payload of the final flush is all that is staged, as the main thread, which alone
  stages, is the one that flushes.

Only model-checked is what is out of the prover's reach, all of it liveness under
fairness: `EventuallyDelivered`, `EventuallyCurrent`, `KeepsFlushing`, `StopEnds`,
`StopReturns`, `CallsReturn`, `FlushSettles` and `HealedDelivers`. The two findings
are counterexamples of TLC: there is nothing to prove about a property that fails.
`NobodyForgotten` is the safety half of `CallsReturn` in .NET; that whoever holds
the gate does hand it on is the other half, and TLC's.

## Findings

1. **clear() under a request** (`GoClear`, `go/telemetry.go:561`). The trim
   after a 2xx counts from the front of whatever the queue holds then. In Go the
   slice goes out of range when the queue is shorter, the panic leaves `mu` locked
   and, recovered, every later call blocks. The same trim by count
   in Python (`_registry.py:380`) and the others takes events staged since the
   clear, which were never sent, out of the queue. This is why the passing runs of
   the flush clear only between requests.
2. **JavaScript close()** (`JsClose`, `registry.js:355`): "flushes one last time",
   but shares a request already in flight, whose snapshot is older than what was
   staged since. That is not sent, and the timer is off.

Further disagreements appear as the exceptions the properties name:

- Python, `_counters.py:253`: the release of a category count resolves its bucket
  again; after a clear() that is a fresh counter, which reports -1
  (`orphaned` in `OccupancyExact`).
- Python: two overlapping `start()`s make two loops, or start one thread twice,
  which raises, and leave the other unstarted; a `stop()` between creation and start
  raises at the join (`JoinRaises`). A join that times out
  forgets a thread that still runs, and a later `start()` clears the event it
  was to stop on (`WellUsed`). An `on_error` that raises ends the loop
  (`KeepsFlushing`), although the comment at `_telemetry.py:112` says it must
  not die. In asyncio, a `start()` under a `stop()` gives the old loop a new
  event nobody sets, so the `stop()` hangs; two `stop()`s with a `start()` between
  orphan the new task (`overlapped`). A response that is cut short raises an
  exception that is not retried and is not a `TelemetryError`.
- Python, `_registry.py:67`: the constructor accepts any retention longer than the
  flush interval. What is needed for m missed flushes is
  (m + 1)·(interval + longest flush) + one attempt (`KeptWhileRetained`). The
  comment at `examples/service.py:26` promises "one missed send does not expire the
  values": with its 60 s, the default timeout of 30 s and default 3 retries, the longest
  gap is 2·(60 + 127) + 30 = 404 s, against 5 minutes.
- Python, `examples/service.py:67`: a final flush that fails raises in the signal
  handler instead of `SystemExit`; the request handler that the signal interrupted
  takes it for its own failure and the service goes on, without its loop. A signal
  that lands inside a call of the library asks for a lock its own thread holds and
  never returns (`stuck`). A shutdown may take 254 s.
- Python, `_registry.py:187`: a timestamp is stored under its status key alone. A
  second one with the same key and another path takes the first path out of every
  later payload without a word (`PathLeft` in `StaysReported`). A status staged
  under the key of a timestamp is never sent (`_registry.py:360`).
- Python, `_registry.py:222`: lists are kept by reference after they were checked
  (`touched` in `ReceiverKeepsAll`).
- JavaScript, `handles.js:174`, also `:135`: set() after dispose() counts again,
  and nothing will withdraw it (`Counting` in `LedgerBalanced`). The other clients
  refuse. An abort that arrives during the backoff delay is not heard (`deaf`).
- Go: a part count moved by more than the finite range changes its record but not
  the counter (`overflown`). `Close` called from `OnError` waits for the loop that
  is running it.
- .NET: an exception of `OnError` ends the loop, comes out of `DisposeAsync` and
  skips its final flush, although `Telemetry.cs:554` says "swallowing any failure".
  Tasks that wait for the gate when it is disposed wait for ever (the exception
  `cleaned` in `CallsReturn`).

## Not modelled

- Payload and validation of the JavaScript, Go and .NET clients: the rules
  `Registry` models for Python, kept alike by the repository's conformance cases;
  four more copies of one model would say nothing new.
- The PowerShell module: one thread, one buffer, no loop; its retry loop is the
  Python one without a lock.
- The asyncio example: its calls are those `AsyncLoop` is made of; its timing is
  that of `Service`, without signals on the stack.
- Leak detectors (`__del__`, `FinalizationRegistry`): they report, and change no count.
- TypeScript declarations, polyfills, packaging, tests, documents: no behaviour.
- The JSON text itself: only whether it can be written and read.
- .NET's -0.0: a compare-and-swap that compares bits in a loop that compares
  numbers loses an update when another thread stores -0.0 over 0.0
  (`Counter.cs:53`). `Counters` has one zero.
- Names that collide: two paths whose texts contain NUL can share a key
  (`_registry.py:106`). The model has tuples.

Some hazards of the list in `PROJECT.json` are covered by no property, each with a
note that says why. Two are outside the models: -0.0, and `Close` called from
`OnError` in Go, which is a program waiting for itself. The others are in the models
and are what the code does, so that the property they would break excepts them by
name or takes a program that avoids them: clear() under a request or with a bucket
held, overlapping start() and stop(), an `on_error` that raises, set() after
dispose() in JavaScript, and a signal that finds a lock of the library held. They
are listed under Findings, with the exception that stands for each.
