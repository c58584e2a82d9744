------------------------------ MODULE GoProofs ------------------------------
(***************************************************************************)
(* Proofs about GoClient, for every set of goroutines, retry limit and     *)
(* bound: its types and that what is shown never gets older whenever Clear *)
(* is called, and, when Clear keeps away from requests, that no trim       *)
(* panics, that a nil tells the truth, that events arrive in order, and    *)
(* that the client implements EventOutbox.                                 *)
(***************************************************************************)
EXTENDS GoClient, TLAPS

Sending == {"posting", "backoff", "trimming"}
Waiting == {"closing", "queued", "locked"}
Inside  == Sending \cup {"locked"}

\* Whoever is past Lock and before the deferred Unlock holds flushMu.
LockInv == \A t \in Goroutine : pc[t] \in Inside <=> flushMu = t

\* Only post counts attempts, and it waits only when another one is left.
AttemptInv ==
    \A t \in Goroutine :
        /\ pc[t] = "backoff" => attempt[t] <= MaxRetries
        /\ pc[t] \notin Sending => attempt[t] = 0

TypeInv == TypeOK /\ LockInv /\ AttemptInv

\* The events of a payload under way are the oldest of the queue.
PrefixInv ==
    \A t \in Goroutine : pc[t] \in Sending =>
        /\ Len(payload[t].events) <= Len(events)
        /\ \A i \in 1..Len(payload[t].events) : payload[t].events[i] = events[i]

\* After a 2xx the receiver has them.
DeliveredInv ==
    \A t \in Goroutine : pc[t] = "trimming" => Range(payload[t].events) \subseteq arrived

\* What a call still owes is queued until it makes its snapshot, and in its
\* payload from then on.
OwedInv ==
    \A t \in Goroutine :
        /\ pc[t] \in Waiting => unmet[t] \subseteq Range(events) \cup arrived \cup discarded
        /\ pc[t] \in Sending =>
              unmet[t] \subseteq Range(payload[t].events) \cup arrived \cup discarded
        /\ pc[t] = "idle" => unmet[t] = {}

QuietInv == PrefixInv /\ DeliveredInv /\ OwedInv /\ NeverJams

------------------------------------------------------------------------------
(* Sequences. *)

LEMMA RangeOfSeq ==
    ASSUME NEW S, NEW s \in Seq(S)
    PROVE  Range(s) = {s[i] : i \in 1..Len(s)} /\ Range(s) \subseteq S
BY DEF Range

LEMMA AppendKeeps ==
    ASSUME NEW S, NEW s \in Seq(S), NEW e \in S
    PROVE  /\ Append(s, e) \in Seq(S) /\ Len(Append(s, e)) = Len(s) + 1
           /\ \A i \in 1..Len(s) : Append(s, e)[i] = s[i]
           /\ Range(Append(s, e)) = Range(s) \cup {e}
<1>1. /\ Append(s, e) \in Seq(S) /\ Len(Append(s, e)) = Len(s) + 1
      /\ \A i \in 1..Len(s) : Append(s, e)[i] = s[i]
  OBVIOUS
<1>2. Append(s, e)[Len(s) + 1] = e
  OBVIOUS
<1>3. /\ Range(Append(s, e)) = {Append(s, e)[i] : i \in 1..(Len(s) + 1)}
      /\ Range(s) = {s[i] : i \in 1..Len(s)}
  BY <1>1, RangeOfSeq
<1>4. Range(s) \cup {e} \subseteq Range(Append(s, e))
  BY <1>1, <1>2, <1>3
<1>5. Range(Append(s, e)) \subseteq Range(s) \cup {e}
  BY <1>1, <1>2, <1>3
<1>6. QED
  BY <1>1, <1>4, <1>5

\* Cutting the first Len(p) elements off s, of which p is a prefix, loses
\* nothing that is not in p.
LEMMA CutPrefix ==
    ASSUME NEW S, NEW s \in Seq(S), NEW p \in Seq(S), Len(p) <= Len(s),
           \A i \in 1..Len(p) : p[i] = s[i]
    PROVE  Range(s) \subseteq Range(SubSeq(s, Len(p) + 1, Len(s))) \cup Range(p)
<1> DEFINE r == SubSeq(s, Len(p) + 1, Len(s))
<1>1. r \in Seq(S) /\ Len(r) = Len(s) - Len(p)
  OBVIOUS
<1>2. \A j \in 1..(Len(s) - Len(p)) : r[j] = s[Len(p) + j]
  OBVIOUS
<1> HIDE DEF r
<1>3. /\ Range(s) = {s[i] : i \in 1..Len(s)}
      /\ Range(p) = {p[i] : i \in 1..Len(p)}
      /\ Range(r) = {r[i] : i \in 1..Len(r)}
  BY <1>1, RangeOfSeq
<1>4. ASSUME NEW i \in 1..Len(s) PROVE s[i] \in Range(r) \cup Range(p)
  <2>1. CASE i <= Len(p)
    <3>1. i \in 1..Len(p)
      BY <2>1
    <3>2. QED
      BY <1>3, <3>1
  <2>2. CASE i > Len(p)
    <3>1. i - Len(p) \in 1..(Len(s) - Len(p)) /\ Len(p) + (i - Len(p)) = i
      BY <2>2
    <3>2. i - Len(p) \in 1..Len(r) /\ r[i - Len(p)] = s[i]
      BY <1>1, <1>2, <3>1
    <3>3. QED
      BY <1>3, <3>2
  <2>3. QED
    BY <2>1, <2>2
<1>5. QED
  BY <1>3, <1>4 DEF r

------------------------------------------------------------------------------
(* Types, flushMu and the attempts. *)

LEMMA InitTypeInv == Init => TypeInv
<1> SUFFICES ASSUME Init PROVE TypeInv
  OBVIOUS
<1>1. Unsent \in Payloads /\ 0 \in Gauges
  BY ReceiverAssumption DEF Unsent, Payloads, Gauges
<1>2. TypeOK
  <2>1. pc \in [Goroutine -> {"idle", "closing", "queued", "locked", "posting",
                             "backoff", "trimming", "ended"}]
    BY DEF Init
  <2>2. ctxDone \in [Goroutine -> BOOLEAN]
    BY Zenon DEF Init
  <2>3. unmet \in [Goroutine -> SUBSET Ids] /\ attempt \in [Goroutine -> 0..(MaxRetries + 1)]
    BY GoAssumption DEF Init
  <2>4. /\ jammed \in BOOLEAN /\ stop \in BOOLEAN /\ discarded \subseteq Ids
        /\ events = <<>> /\ staged = 0 /\ gauge \in Gauges /\ lastGauge \in Gauges
    BY <1>1, Zenon DEF Init
  <2>5. /\ flushMu \in Goroutine \cup {Free} /\ late \subseteq Payloads
        /\ payload \in [Goroutine -> Payloads]
    BY <1>1 DEF Init
  <2>6. ReceiverTypeOK
    BY <1>1 DEF Init, ReceiverInit, ReceiverTypeOK
  <2>7. QED
    BY <2>1, <2>2, <2>3, <2>4, <2>5, <2>6, ReceiverAssumption DEF TypeOK
<1>3. LockInv /\ AttemptInv
  BY GoAssumption DEF Init, LockInv, AttemptInv, Inside, Sending, Goroutine
<1>4. QED
  BY <1>2, <1>3 DEF TypeInv

LEMMA ApplyTypes ==
    ASSUME TypeOK, NEW p \in Payloads, Apply(p)
    PROVE  /\ arrived' \subseteq Ids /\ shown' \in Gauges
           /\ arrived' = arrived \cup Range(p.events)
<1>1. p.events \in Seq(Ids) /\ p.gauge \in Gauges
  BY DEF Payloads
<1>2. Range(p.events) \subseteq Ids
  BY <1>1, RangeOfSeq
<1>3. QED
  BY <1>1, <1>2 DEF Apply, TypeOK, ReceiverTypeOK

\* Returning from Flush keeps the three, whatever happens to the queue.
LEMMA ReturnTypeInv ==
    ASSUME TypeInv, NEW t \in Goroutine, pc[t] \in Inside, NEW ok \in BOOLEAN, Return(t, ok),
           events' \in Seq(Ids), jammed' \in BOOLEAN, late' \subseteq Payloads,
           arrived' \subseteq Ids, shown' \in Gauges,
           UNCHANGED <<gauge, staged, lastGauge, discarded, stop>>
    PROVE  TypeInv'
<1>1. Unsent \in Payloads /\ 0 \in 0..(MaxRetries + 1)
  BY ReceiverAssumption, GoAssumption DEF Unsent, Payloads, Gauges
<1>2. TypeOK'
  BY <1>1 DEF TypeInv, TypeOK, ReceiverTypeOK, Return, Go, Unlock
<1>3. LockInv'
  BY GoAssumption DEF TypeInv, TypeOK, LockInv, Return, Go, Unlock, Inside, Sending, Goroutine
<1>4. AttemptInv'
  BY DEF TypeInv, TypeOK, AttemptInv, Return, Go, Sending
<1>5. QED
  BY <1>2, <1>3, <1>4 DEF TypeInv

\* The outcome of an attempt keeps them.
LEMMA OutcomeTypeInv ==
    ASSUME TypeInv, NEW t \in Goroutine, pc[t] = "posting",
           PostSucceeds(t) \/ AttemptFails(t),
           late' \subseteq Payloads, arrived' \subseteq Ids, shown' \in Gauges,
           UNCHANGED <<registryVars, jammed, stop>>
    PROVE  TypeInv'
<1>1. CASE PostSucceeds(t)
  <2>1. TypeOK'
    BY <1>1 DEF PostSucceeds, Go, TypeInv, TypeOK, ReceiverTypeOK, registryVars
  <2>2. LockInv' /\ AttemptInv'
    BY <1>1 DEF PostSucceeds, Go, TypeInv, TypeOK, LockInv, AttemptInv, Inside, Sending
  <2>3. QED
    BY <2>1, <2>2 DEF TypeInv
<1>2. CASE AttemptFails(t) /\ attempt[t] > MaxRetries
  BY <1>2, ReturnTypeInv DEF AttemptFails, TypeInv, TypeOK, registryVars, Inside, Sending
<1>3. CASE AttemptFails(t) /\ ~(attempt[t] > MaxRetries)
  <2>1. attempt[t] <= MaxRetries
    BY <1>3, GoAssumption DEF TypeInv, TypeOK
  <2>2. TypeOK'
    BY <1>3 DEF AttemptFails, Go, TypeInv, TypeOK, ReceiverTypeOK, registryVars
  <2>3. LockInv' /\ AttemptInv'
    BY <1>3, <2>1 DEF AttemptFails, Go, TypeInv, TypeOK, LockInv, AttemptInv, Inside, Sending
  <2>4. QED
    BY <2>2, <2>3 DEF TypeInv
<1>4. QED
  BY <1>1, <1>2, <1>3

LEMMA StagingTypeInv ==
    ASSUME TypeInv, StageEvent \/ StageValue \/ Clear
    PROVE  TypeInv'
<1> USE DEF TypeInv, LockInv, AttemptInv, sendVars, receiverVars
<1>1. CASE StageEvent
  <2>1. staged + 1 \in Ids /\ staged + 1 \in 0..MaxEvents
    BY <1>1, ReceiverAssumption DEF TypeOK, StageEvent, Ids
  <2>2. QED
    BY <1>1, <2>1 DEF TypeOK, ReceiverTypeOK, StageEvent
<1>2. CASE StageValue
  <2>1. lastGauge + 1 \in Gauges
    BY <1>2, ReceiverAssumption DEF TypeOK, StageValue, Gauges
  <2>2. QED
    BY <1>2, <2>1 DEF TypeOK, ReceiverTypeOK, StageValue
<1>3. CASE Clear
  <2>1. Range(events) \subseteq Ids /\ 0 \in Gauges /\ <<>> \in Seq(Ids)
    BY RangeOfSeq, ReceiverAssumption DEF TypeOK, Gauges
  <2>2. QED
    BY <1>3, <2>1 DEF TypeOK, ReceiverTypeOK, Clear
<1>4. QED
  BY <1>1, <1>2, <1>3

LEMMA CallTypeInv ==
    ASSUME TypeInv, NEW t \in Goroutine,
           Flush(t) \/ Close(t) \/ LoopIsDone(t) \/ (t = Loop /\ Quit) \/ Cancel(t)
    PROVE  TypeInv'
<1> USE DEF TypeInv, LockInv, AttemptInv, registryVars, receiverVars, Go, Inside, Sending
<1>1. Range(events) \subseteq Ids
  BY RangeOfSeq DEF TypeOK
<1>2. CASE Flush(t)
  BY <1>1, <1>2 DEF Flush, Call, TypeOK, ReceiverTypeOK
<1>3. CASE Close(t)
  BY <1>1, <1>3 DEF Close, Call, TypeOK, ReceiverTypeOK
<1>4. CASE LoopIsDone(t)
  BY <1>4 DEF LoopIsDone, TypeOK, ReceiverTypeOK
<1>5. CASE t = Loop /\ Quit
  BY <1>5 DEF Quit, TypeOK, ReceiverTypeOK
<1>6. CASE Cancel(t)
  <2>1. late' \subseteq Payloads
    BY <1>6 DEF Cancel, TypeOK
  <2>2. QED
    BY <1>6, <2>1 DEF Cancel, TypeOK, ReceiverTypeOK
<1>7. QED
  BY <1>2, <1>3, <1>4, <1>5, <1>6

LEMMA FlushingTypeInv ==
    ASSUME TypeInv, NEW t \in Goroutine, Acquire(t) \/ Step(t)
    PROVE  TypeInv'
<1>1. CASE Acquire(t)
  BY <1>1, GoAssumption
     DEF Acquire, Go, TypeInv, TypeOK, ReceiverTypeOK, LockInv, AttemptInv,
         registryVars, receiverVars, Inside, Sending, Goroutine
<1>2. CASE SkipEmpty(t)
  BY <1>2, ReturnTypeInv
     DEF SkipEmpty, TypeInv, TypeOK, ReceiverTypeOK, registryVars, receiverVars, Inside
<1>3. CASE Snapshot(t)
  <2>1. [events |-> events, gauge |-> gauge] \in Payloads
    BY DEF TypeInv, TypeOK, Payloads
  <2>2. attempt[t] = 0 /\ 0 + 1 \in 0..(MaxRetries + 1)
    BY <1>3, GoAssumption DEF Snapshot, TypeInv, AttemptInv, Sending
  <2>3. QED
    BY <1>3, <2>1, <2>2
       DEF Snapshot, Post, Go, TypeInv, TypeOK, ReceiverTypeOK, LockInv, AttemptInv,
           registryVars, receiverVars, Inside, Sending
<1>4. CASE Trim(t)
  <2>1. Len(payload[t].events) \in Nat /\ Len(events) \in Nat
    BY DEF TypeInv, TypeOK, Payloads
  <2>2. SubSeq(events, Len(payload[t].events) + 1, Len(events)) \in Seq(Ids)
    BY <2>1 DEF TypeInv, TypeOK
  <2>3. PICK ok \in BOOLEAN : Return(t, ok)
    BY <1>4 DEF Trim, Return, Unlock
  <2>4. jammed' \in BOOLEAN /\ pc[t] \in Inside
    BY <1>4 DEF Trim, Inside, Sending
  <2>5. QED
    BY <1>4, <2>2, <2>3, <2>4, ReturnTypeInv
       DEF Trim, TypeInv, TypeOK, ReceiverTypeOK, receiverVars
<1>5. CASE Retry(t)
  <2>1. attempt[t] + 1 \in 0..(MaxRetries + 1)
    BY <1>5, GoAssumption DEF Retry, TypeInv, TypeOK, AttemptInv
  <2>2. QED
    BY <1>5, <2>1
       DEF Retry, Post, Go, TypeInv, TypeOK, ReceiverTypeOK, LockInv, AttemptInv,
           registryVars, receiverVars, Inside, Sending
<1>6. CASE GiveUp(t)
  BY <1>6, ReturnTypeInv
     DEF GiveUp, TypeInv, TypeOK, ReceiverTypeOK, registryVars, receiverVars, Inside, Sending
<1>7. QED
  BY <1>1, <1>2, <1>3, <1>4, <1>5, <1>6 DEF Step

LEMMA NetworkTypeInv ==
    ASSUME TypeInv, Network
    PROVE  TypeInv'
<1>1. ASSUME NEW t \in Goroutine, Receive(t) PROVE TypeInv'
  <2>1. payload[t] \in Payloads
    BY DEF TypeInv, TypeOK
  <2>2. QED
    BY <1>1, <2>1, ApplyTypes, OutcomeTypeInv DEF Receive, TypeInv, TypeOK
<1>2. ASSUME NEW t \in Goroutine, Refuse(t) PROVE TypeInv'
  BY <1>2, OutcomeTypeInv, ReturnTypeInv
     DEF Refuse, TypeInv, TypeOK, ReceiverTypeOK, registryVars, receiverVars, Inside, Sending
<1>3. ASSUME NEW t \in Goroutine, TimeOut(t) PROVE TypeInv'
  <2>1. late' \subseteq Payloads
    BY <1>3 DEF TimeOut, TypeInv, TypeOK
  <2>2. QED
    BY <1>3, <2>1, OutcomeTypeInv DEF TimeOut, TypeInv, TypeOK, ReceiverTypeOK, receiverVars
<1>4. ASSUME NEW p \in late, ArriveLate(p) PROVE TypeInv'
  <2>1. p \in Payloads
    BY DEF TypeInv, TypeOK
  <2>2. QED
    BY <1>4, <2>1, ApplyTypes
       DEF ArriveLate, TypeInv, TypeOK, ReceiverTypeOK, LockInv, AttemptInv,
           registryVars, sendVars
<1>5. ASSUME NEW p \in late, LoseLate(p) PROVE TypeInv'
  BY <1>5 DEF LoseLate, TypeInv, TypeOK, ReceiverTypeOK, LockInv, AttemptInv,
              registryVars, sendVars, receiverVars
<1>6. QED
  BY <1>1, <1>2, <1>3, <1>4, <1>5 DEF Network

LEMMA StepTypeInv == TypeInv /\ [ButClear \/ Clear]_vars => TypeInv'
<1> SUFFICES ASSUME TypeInv, [ButClear \/ Clear]_vars PROVE TypeInv'
  OBVIOUS
<1>1. CASE UNCHANGED vars
  BY <1>1 DEF vars, registryVars, sendVars, receiverVars,
              TypeInv, TypeOK, ReceiverTypeOK, LockInv, AttemptInv
<1>2. CASE ButClear
  BY <1>2, StagingTypeInv, CallTypeInv, FlushingTypeInv, NetworkTypeInv
     DEF ButClear, Tick, Goroutine
<1>3. QED
  BY <1>1, <1>2, StagingTypeInv

\* Every state of the client has its declared types, Clear at any moment
\* included: the attempts stay within the retry limit (transport.go:42) and
\* flushMu is held by whoever is inside Flush (telemetry.go:540).
THEOREM TypeCorrect == Spec => []TypeOK
<1>1. TypeInv => TypeOK
  BY DEF TypeInv
<1>2. QED
  BY <1>1, InitTypeInv, StepTypeInv, PTL DEF Spec

------------------------------------------------------------------------------
(* What is shown never gets older, Clear at any moment included. *)

\* Nothing that was sent is newer than the payload t is sending.
NoOlder(t) ==
    payload[t].gauge = 0 \/ /\ shown <= payload[t].gauge
                            /\ \A p \in late : p.gauge <= payload[t].gauge

AgeInv ==
    /\ gauge \in {0, lastGauge}
    /\ shown <= lastGauge
    /\ \A p \in late : p.gauge <= lastGauge
    /\ \A t \in Goroutine : pc[t] \in Sending => payload[t].gauge <= lastGauge /\ NoOlder(t)

LEMMA Ages ==
    ASSUME TypeInv
    PROVE  /\ gauge \in Nat /\ lastGauge \in Nat /\ shown \in Nat
           /\ \A p \in late : p.gauge \in Nat
           /\ \A t \in Goroutine : payload[t].gauge \in Nat
BY ReceiverAssumption DEF TypeInv, TypeOK, ReceiverTypeOK, Gauges, Payloads

\* A step that starts no send, applies no payload and abandons no request but
\* those under way keeps the ages apart, and shows nothing older.
LEMMA QuietAge ==
    ASSUME TypeInv, AgeInv, lastGauge' = lastGauge, gauge' \in {0, lastGauge},
           \/ shown' = shown
           \/ \E t \in Goroutine : /\ pc[t] \in Sending
                                   /\ shown' = IF payload[t].gauge = 0 THEN shown ELSE payload[t].gauge,
           \A p \in late' : p \in late \/ \E t \in Goroutine : pc[t] \in Sending /\ p = payload[t],
           \A t \in Goroutine : pc'[t] \in Sending => pc[t] \in Sending /\ payload'[t] = payload[t]
    PROVE  AgeInv' /\ ~(shown' < shown)
<1>1. ASSUME NEW p \in late' PROVE p.gauge <= lastGauge
  BY <1>1 DEF AgeInv
<1>2. shown' <= lastGauge /\ ~(shown' < shown)
  BY Ages DEF AgeInv, NoOlder
<1>3. ASSUME NEW t \in Goroutine, pc'[t] \in Sending
      PROVE  payload'[t].gauge <= lastGauge /\ NoOlder(t)'
  <2>1. pc[t] \in Sending /\ payload'[t] = payload[t]
    BY <1>3
  <2>2. \A u \in Goroutine : pc[u] \in Sending => u = t
    BY <2>1 DEF TypeInv, LockInv, Inside
  <2>3. ASSUME NEW p \in late', payload[t].gauge # 0 PROVE p.gauge <= payload[t].gauge
    <3>1. CASE p \in late
      BY <2>1, <2>3, <3>1 DEF AgeInv, NoOlder
    <3>2. CASE p = payload[t]
      BY <3>2, Ages
    <3>3. QED
      BY <2>2, <3>1, <3>2
  <2>4. payload[t].gauge # 0 => shown' <= payload[t].gauge
    BY <2>1, <2>2, Ages DEF AgeInv, NoOlder
  <2>5. QED
    BY <2>1, <2>3, <2>4 DEF AgeInv, NoOlder
<1>4. QED
  BY <1>1, <1>2, <1>3 DEF AgeInv

\* A value staged is newer than all.
LEMMA StageValueAge == TypeInv /\ AgeInv /\ StageValue => AgeInv' /\ ~(shown' < shown)
<1> SUFFICES ASSUME TypeInv, AgeInv, StageValue PROVE AgeInv' /\ ~(shown' < shown)
  OBVIOUS
<1>1. /\ lastGauge' = lastGauge + 1 /\ gauge' = lastGauge'
      /\ UNCHANGED <<pc, payload, late, shown>>
  BY DEF StageValue, sendVars, receiverVars
<1>2. \A t \in Goroutine : NoOlder(t) => NoOlder(t)'
  BY <1>1 DEF NoOlder
<1>3. \A n \in Nat : n <= lastGauge => n <= lastGauge'
  BY <1>1, Ages
<1>4. QED
  BY <1>1, <1>2, <1>3, Ages DEF AgeInv

\* A payload takes the newest value there is.
LEMMA SnapshotAge ==
    ASSUME TypeInv, AgeInv, NEW t \in Goroutine, Snapshot(t)
    PROVE  AgeInv' /\ ~(shown' < shown)
<1>1. /\ payload'[t].gauge = gauge
      /\ \A u \in Goroutine : u # t => pc'[u] = pc[u]
      /\ UNCHANGED <<gauge, lastGauge, shown, late>>
  BY DEF Snapshot, Post, Go, TypeInv, TypeOK, registryVars, receiverVars
<1>2. ASSUME NEW u \in Goroutine, pc'[u] \in Sending PROVE u = t
  BY <1>1, <1>2 DEF Snapshot, TypeInv, LockInv, Inside, Sending
<1>3. payload'[t].gauge <= lastGauge' /\ NoOlder(t)'
  BY <1>1, Ages DEF AgeInv, NoOlder
<1>4. QED
  BY <1>1, <1>2, <1>3, Ages DEF AgeInv

\* A request that arrives late leaves its mark in `late`.
LEMMA LateAge ==
    ASSUME TypeInv, AgeInv, NEW p \in late, ArriveLate(p)
    PROVE  AgeInv' /\ late' # late
<1>1. shown' = IF p.gauge = 0 THEN shown ELSE p.gauge
  BY DEF ArriveLate, Apply
<1>2. late' = late \ {p} /\ UNCHANGED <<gauge, lastGauge, pc, payload>>
  BY DEF ArriveLate, registryVars, sendVars
<1>3. shown' <= lastGauge
  BY <1>1 DEF AgeInv
<1>4. \A t \in Goroutine : NoOlder(t) => NoOlder(t)'
  BY <1>1, <1>2 DEF NoOlder
<1>5. QED
  BY <1>2, <1>3, <1>4 DEF AgeInv

\* An attempt that ends, or a Flush that returns, starts no send.
LEMMA EndStartsNone ==
    ASSUME TypeInv, NEW t \in Goroutine,
           \/ pc[t] = "posting" /\ (PostSucceeds(t) \/ AttemptFails(t))
           \/ \E ok \in BOOLEAN : Return(t, ok)
    PROVE  \A u \in Goroutine :
              pc'[u] \in Sending => pc[u] \in Sending /\ payload'[u] = payload[u]
<1> USE DEF TypeInv, TypeOK, Go, Sending
<1>1. CASE \E ok \in BOOLEAN : Return(t, ok)
  <2>1. pc' = [pc EXCEPT ![t] = "idle"] /\ payload' = [payload EXCEPT ![t] = Unsent]
    BY <1>1 DEF Return
  <2>2. QED
    BY <2>1
<1>2. CASE pc[t] = "posting" /\ UNCHANGED payload
           /\ \E p \in {"trimming", "backoff"} : Go(t, p)
  BY <1>2
<1>3. QED
  BY <1>1, <1>2 DEF PostSucceeds, AttemptFails

LEMMA CallAge ==
    ASSUME TypeInv, AgeInv, NEW t \in Goroutine,
           Flush(t) \/ Close(t) \/ LoopIsDone(t) \/ (t = Loop /\ Quit) \/ Cancel(t)
    PROVE  AgeInv' /\ ~(shown' < shown)
<1>1. UNCHANGED <<gauge, lastGauge, shown, payload>>
  BY DEF Flush, Close, Call, LoopIsDone, Quit, Cancel, registryVars, receiverVars
<1>2. \A p \in late' : p \in late \/ (pc[t] \in Sending /\ p = payload[t])
  BY DEF Flush, Close, Call, LoopIsDone, Quit, Cancel, Sending
<1>3. \A u \in Goroutine : pc'[u] \in Sending => pc[u] \in Sending
  BY DEF Flush, Close, Call, LoopIsDone, Quit, Cancel, Go, Sending, TypeInv, TypeOK
<1>4. QED
  BY <1>1, <1>2, <1>3, QuietAge DEF AgeInv

LEMMA FlushingAge ==
    ASSUME TypeInv, AgeInv, NEW t \in Goroutine, Acquire(t) \/ Step(t)
    PROVE  AgeInv' /\ ~(shown' < shown)
<1>1. CASE Snapshot(t)
  BY <1>1, SnapshotAge
<1>2. CASE SkipEmpty(t) \/ Trim(t) \/ GiveUp(t)
  <2>1. UNCHANGED <<gauge, lastGauge, shown, late>>
    BY <1>2 DEF SkipEmpty, Trim, GiveUp, registryVars, receiverVars
  <2>2. \E ok \in BOOLEAN : Return(t, ok)
    BY <1>2 DEF SkipEmpty, Trim, GiveUp, Return, Unlock
  <2>3. QED
    BY <2>1, <2>2, EndStartsNone, QuietAge DEF AgeInv
<1>3. CASE Acquire(t) \/ Retry(t)
  <2>1. UNCHANGED <<gauge, lastGauge, shown, late, payload>>
    BY <1>3 DEF Acquire, Retry, registryVars, receiverVars
  <2>2. \A u \in Goroutine : pc'[u] \in Sending => pc[u] \in Sending
    BY <1>3 DEF Acquire, Retry, Post, Go, Sending, TypeInv, TypeOK
  <2>3. QED
    BY <2>1, <2>2, QuietAge DEF AgeInv
<1>4. QED
  BY <1>1, <1>2, <1>3 DEF Step

LEMMA AttemptAge ==
    ASSUME TypeInv, AgeInv, NEW t \in Goroutine, Receive(t) \/ Refuse(t) \/ TimeOut(t)
    PROVE  AgeInv' /\ ~(shown' < shown)
<1>1. /\ pc[t] = "posting" /\ UNCHANGED <<gauge, lastGauge>>
      /\ PostSucceeds(t) \/ AttemptFails(t) \/ Return(t, FALSE)
  BY DEF Receive, Refuse, TimeOut, registryVars
<1>2. \/ shown' = shown
      \/ shown' = IF payload[t].gauge = 0 THEN shown ELSE payload[t].gauge
  BY DEF Receive, Apply, Refuse, TimeOut, receiverVars
<1>3. \A p \in late' : p \in late \/ p = payload[t]
  BY DEF Receive, Refuse, TimeOut
<1>4. \A u \in Goroutine : pc'[u] \in Sending => pc[u] \in Sending /\ payload'[u] = payload[u]
  BY <1>1, EndStartsNone
<1>5. QED
  BY <1>1, <1>2, <1>3, <1>4, QuietAge DEF AgeInv, Sending

LEMMA StepAge ==
    ASSUME TypeInv, AgeInv, [ButClear \/ Clear]_vars
    PROVE  AgeInv' /\ (shown' < shown => late' # late)
<1>1. CASE UNCHANGED vars
  BY <1>1, QuietAge DEF AgeInv, vars, registryVars, sendVars, receiverVars
<1>2. CASE StageEvent \/ Clear
  BY <1>2, QuietAge DEF AgeInv, StageEvent, Clear, sendVars, receiverVars
<1>3. CASE \E p \in late : LoseLate(p)
  BY <1>3, QuietAge DEF AgeInv, LoseLate, registryVars, sendVars, receiverVars
<1>4. QED
  BY <1>1, <1>2, <1>3, StageValueAge, CallAge, FlushingAge, AttemptAge, LateAge
     DEF ButClear, Network, Tick, Goroutine

\* What NetCrunch shows goes back to an older value only when a request that
\* was given up on arrives late: one goroutine at a time is inside Flush, and
\* its snapshot is the newest state of its own moment, Clear at any time included
\* (telemetry.go:535-545).
THEOREM NeverOlder == Spec => [][shown' < shown => late' # late]_vars
<1>1. TypeInv /\ AgeInv /\ [ButClear \/ Clear]_vars => AgeInv'
  BY StepAge
<1>2. TypeInv /\ AgeInv /\ [ButClear \/ Clear]_vars => [shown' < shown => late' # late]_vars
  BY StepAge
<1>3. Init => AgeInv
  BY DEF Init, ReceiverInit, AgeInv, Sending
<1>4. QED
  BY <1>1, <1>2, <1>3, InitTypeInv, StepTypeInv, PTL DEF Spec

------------------------------------------------------------------------------
(* Trims and nils, when Clear keeps away from requests. *)

\* A step that leaves the queue alone and starts no send keeps the four, when
\* it also keeps the payloads under way and what is owed.
LEMMA QuietStep ==
    ASSUME QuietInv, UNCHANGED <<events, discarded, jammed>>,
           arrived \subseteq arrived',
           \A u \in Goroutine : pc'[u] \in Sending =>
               pc[u] \in Sending /\ payload'[u] = payload[u] /\ unmet'[u] = unmet[u],
           \A u \in Goroutine : pc'[u] = "trimming" =>
               Range(payload'[u].events) \subseteq arrived',
           \A u \in Goroutine : pc'[u] \in Waiting =>
               unmet'[u] = Range(events) \/ (pc[u] \in Waiting /\ unmet'[u] = unmet[u]),
           \A u \in Goroutine : pc'[u] = "idle" => unmet'[u] = {}
    PROVE  QuietInv'
<1>1. PrefixInv'
  BY DEF QuietInv, PrefixInv
<1>2. DeliveredInv'
  BY DEF DeliveredInv
<1>3. OwedInv'
  <2> SUFFICES ASSUME NEW u \in Goroutine
               PROVE  /\ pc'[u] \in Waiting =>
                            unmet'[u] \subseteq Range(events) \cup arrived' \cup discarded
                      /\ pc'[u] \in Sending =>
                            unmet'[u] \subseteq
                               Range(payload'[u].events) \cup arrived' \cup discarded
    BY DEF OwedInv
  <2>1. CASE pc'[u] \in Waiting /\ unmet'[u] = unmet[u] /\ pc[u] \in Waiting
    BY <2>1 DEF QuietInv, OwedInv, Waiting, Sending
  <2>2. CASE pc'[u] \in Waiting /\ unmet'[u] = Range(events)
    BY <2>2 DEF Waiting, Sending
  <2>3. CASE pc'[u] \in Sending
    BY <2>3 DEF QuietInv, OwedInv, Waiting, Sending
  <2>4. QED
    BY <2>1, <2>2, <2>3
<1>4. NeverJams'
  BY DEF QuietInv, NeverJams
<1>5. QED
  BY <1>1, <1>2, <1>3, <1>4 DEF QuietInv

\* Only one goroutine is inside Flush.
LEMMA Alone ==
    ASSUME TypeInv, NEW t \in Goroutine, pc[t] \in Inside
    PROVE  \A u \in Goroutine : pc[u] \in Inside => u = t
BY DEF TypeInv, LockInv

\* An outcome of an attempt of t: a 2xx that has arrived, or a failure.
LEMMA OutcomeQuiet ==
    ASSUME TypeInv, QuietInv, NEW t \in Goroutine, pc[t] = "posting",
           \/ PostSucceeds(t) /\ Range(payload[t].events) \subseteq arrived'
           \/ AttemptFails(t)
           \/ Return(t, FALSE),
           arrived \subseteq arrived',
           UNCHANGED <<events, discarded, jammed>>
    PROVE  QuietInv'
<1> USE DEF TypeInv, TypeOK
<1>1. CASE PostSucceeds(t) /\ Range(payload[t].events) \subseteq arrived'
  <2>1. \A u \in Goroutine : pc'[u] = IF u = t THEN "trimming" ELSE pc[u]
    BY <1>1 DEF PostSucceeds, Go
  <2>2. payload' = payload /\ unmet' = unmet
    BY <1>1 DEF PostSucceeds
  <2>3. QED
    BY <1>1, <2>1, <2>2, QuietStep DEF QuietInv, DeliveredInv, OwedInv, Sending, Waiting
<1>2. CASE Return(t, FALSE)
  <2>1. \A u \in Goroutine : /\ pc'[u] = IF u = t THEN "idle" ELSE pc[u]
                             /\ unmet'[u] = IF u = t THEN {} ELSE unmet[u]
                             /\ u # t => payload'[u] = payload[u]
    BY <1>2 DEF Return, Go
  <2>2. QED
    BY <2>1, QuietStep DEF QuietInv, DeliveredInv, OwedInv, Sending, Waiting
<1>3. CASE /\ Go(t, "backoff") /\ UNCHANGED <<flushMu, unmet, ctxDone, payload, attempt>>
  <2>1. \A u \in Goroutine : pc'[u] = IF u = t THEN "backoff" ELSE pc[u]
    BY <1>3 DEF Go
  <2>2. QED
    BY <1>3, <2>1, QuietStep DEF QuietInv, DeliveredInv, OwedInv, Sending, Waiting
<1>4. QED
  BY <1>1, <1>2, <1>3 DEF AttemptFails

LEMMA NetworkQuiet ==
    ASSUME TypeInv, QuietInv, Network
    PROVE  QuietInv'
<1>1. ASSUME NEW t \in Goroutine, Receive(t) PROVE QuietInv'
  <2>1. payload[t] \in Payloads
    BY DEF TypeInv, TypeOK
  <2>2. arrived' = arrived \cup Range(payload[t].events)
    BY <1>1, <2>1, ApplyTypes DEF Receive, TypeInv
  <2>3. QED
    BY <1>1, <2>2, OutcomeQuiet DEF Receive, registryVars
<1>2. ASSUME NEW t \in Goroutine, Refuse(t) PROVE QuietInv'
  BY <1>2, OutcomeQuiet DEF Refuse, registryVars, receiverVars
<1>3. ASSUME NEW t \in Goroutine, TimeOut(t) PROVE QuietInv'
  BY <1>3, OutcomeQuiet DEF TimeOut, registryVars, receiverVars
<1>4. ASSUME NEW p \in late, ArriveLate(p) PROVE QuietInv'
  <2>1. p \in Payloads
    BY DEF TypeInv, TypeOK
  <2>2. arrived \subseteq arrived'
    BY <1>4, <2>1, ApplyTypes DEF ArriveLate, TypeInv
  <2>3. QED
    BY <1>4, <2>2, QuietStep
       DEF ArriveLate, registryVars, sendVars, QuietInv, DeliveredInv, OwedInv
<1>5. ASSUME NEW p \in late, LoseLate(p) PROVE QuietInv'
  BY <1>5, QuietStep
     DEF LoseLate, registryVars, sendVars, receiverVars, QuietInv, DeliveredInv, OwedInv
<1>6. QED
  BY <1>1, <1>2, <1>3, <1>4, <1>5 DEF Network

LEMMA StagingQuiet ==
    ASSUME TypeInv, QuietInv, StageEvent \/ StageValue \/ (~InFlight /\ Clear)
    PROVE  QuietInv'
<1>1. CASE StageEvent
  <2>1. events \in Seq(Ids) /\ staged + 1 \in Ids
    BY <1>1, ReceiverAssumption DEF TypeInv, TypeOK, StageEvent, Ids
  <2>2. /\ Len(events') = Len(events) + 1
        /\ \A i \in 1..Len(events) : events'[i] = events[i]
        /\ Range(events') = Range(events) \cup {staged + 1}
    BY <1>1, <2>1, AppendKeeps DEF StageEvent
  <2>3. UNCHANGED <<pc, payload, unmet, arrived, discarded, jammed>>
    BY <1>1 DEF StageEvent, sendVars, receiverVars
  <2>4. PrefixInv'
    <3> SUFFICES ASSUME NEW t \in Goroutine, pc[t] \in Sending
                 PROVE  /\ Len(payload[t].events) <= Len(events')
                        /\ \A i \in 1..Len(payload[t].events) :
                              payload[t].events[i] = events'[i]
      BY <2>3 DEF PrefixInv
    <3>1. /\ Len(payload[t].events) <= Len(events)
          /\ \A i \in 1..Len(payload[t].events) : payload[t].events[i] = events[i]
      BY DEF QuietInv, PrefixInv
    <3>2. Len(payload[t].events) \in Nat /\ Len(events) \in Nat
      BY <2>1 DEF TypeInv, TypeOK, Payloads
    <3>3. QED
      BY <2>2, <3>1, <3>2
  <2>5. DeliveredInv' /\ OwedInv' /\ NeverJams'
    BY <2>2, <2>3 DEF QuietInv, DeliveredInv, OwedInv, NeverJams
  <2>6. QED
    BY <2>4, <2>5 DEF QuietInv
<1>2. CASE StageValue
  BY <1>2, QuietStep
     DEF StageValue, sendVars, receiverVars, QuietInv, DeliveredInv, OwedInv
<1>3. CASE ~InFlight /\ Clear
  <2>1. \A t \in Goroutine : pc'[t] \notin Sending /\ pc'[t] = pc[t] /\ unmet'[t] = unmet[t]
    BY <1>3 DEF InFlight, Clear, sendVars, Sending
  <2>2. discarded' = discarded \cup Range(events) /\ arrived' = arrived /\ jammed' = jammed
    BY <1>3 DEF Clear, receiverVars
  <2>3. PrefixInv' /\ DeliveredInv' /\ NeverJams'
    BY <2>1, <2>2 DEF QuietInv, PrefixInv, DeliveredInv, NeverJams, Sending
  <2>4. OwedInv'
    BY <2>1, <2>2 DEF QuietInv, OwedInv
  <2>5. QED
    BY <2>3, <2>4 DEF QuietInv
<1>4. QED
  BY <1>1, <1>2, <1>3

LEMMA CallQuiet ==
    ASSUME TypeInv, QuietInv, NEW t \in Goroutine,
           Flush(t) \/ Close(t) \/ LoopIsDone(t) \/ (t = Loop /\ Quit) \/ Cancel(t)
    PROVE  QuietInv'
<1> USE DEF TypeInv, TypeOK, Waiting, Sending, registryVars, receiverVars
<1>1. ASSUME NEW p \in {"queued", "closing"}, Call(t, p) PROVE QuietInv'
  <2>1. \A u \in Goroutine : /\ pc'[u] = IF u = t THEN p ELSE pc[u]
                             /\ unmet'[u] = IF u = t THEN Range(events) ELSE unmet[u]
    BY <1>1 DEF Call, Go
  <2>2. QED
    BY <1>1, <2>1, QuietStep DEF Call, QuietInv, DeliveredInv, OwedInv
<1>2. CASE LoopIsDone(t)
  <2>1. \A u \in Goroutine : pc'[u] = IF u = t THEN "queued" ELSE pc[u]
    BY <1>2 DEF LoopIsDone, Go
  <2>2. QED
    BY <1>2, <2>1, QuietStep DEF LoopIsDone, QuietInv, DeliveredInv, OwedInv
<1>3. CASE t = Loop /\ Quit
  <2>1. \A u \in Goroutine : pc'[u] = IF u = Loop THEN "ended" ELSE pc[u]
    BY <1>3 DEF Quit, Go
  <2>2. QED
    BY <1>3, <2>1, QuietStep DEF Quit, QuietInv, DeliveredInv, OwedInv
<1>4. CASE Cancel(t)
  BY <1>4, QuietStep DEF Cancel, QuietInv, DeliveredInv, OwedInv
<1>5. QED
  BY <1>1, <1>2, <1>3, <1>4 DEF Flush, Close

\* The trim takes away what has arrived, and no more than that.
LEMMA TrimQuiet ==
    ASSUME TypeInv, QuietInv, NEW t \in Goroutine, Trim(t)
    PROVE  QuietInv'
<1> DEFINE n == Len(payload[t].events)
<1>1. /\ events \in Seq(Ids) /\ payload[t].events \in Seq(Ids)
      /\ pc[t] = "trimming"
  BY DEF TypeInv, TypeOK, Payloads, Trim
<1>2. n <= Len(events) /\ \A i \in 1..n : payload[t].events[i] = events[i]
  BY <1>1 DEF QuietInv, PrefixInv, Sending
<1>3. Return(t, TRUE) /\ jammed' = FALSE
  <2>1. n \in Nat /\ Len(events) \in Nat
    BY <1>1
  <2>2. ~(n > Len(events))
    BY <1>2, <2>1
  <2>3. Return(t, TRUE)
    BY <1>2 DEF Trim, Return, Unlock
  <2>4. jammed' = FALSE
    <3> DEFINE over == n > Len(events)
    <3>1. jammed' = over /\ ~over /\ over \in BOOLEAN
      BY <2>2 DEF Trim
    <3> HIDE DEF over
    <3>2. QED
      BY <3>1, Zenon
  <2>5. QED
    BY <2>3, <2>4
<1>4. Range(events) \subseteq Range(events') \cup arrived
  <2>1. Range(payload[t].events) \subseteq arrived
    BY <1>1 DEF QuietInv, DeliveredInv
  <2>2. Range(events) \subseteq
           Range(SubSeq(events, Len(payload[t].events) + 1, Len(events)))
              \cup Range(payload[t].events)
    BY <1>1, <1>2, CutPrefix
  <2>3. QED
    BY <2>1, <2>2 DEF Trim
<1>5. \A u \in Goroutine : u # t => pc[u] \notin Sending
  BY <1>1, Alone DEF Inside, Sending
<1>6. /\ arrived' = arrived /\ discarded' = discarded
      /\ \A u \in Goroutine :
            /\ pc'[u] = IF u = t THEN "idle" ELSE pc[u]
            /\ unmet'[u] = IF u = t THEN unmet[t] \ (arrived \cup discarded) ELSE unmet[u]
  BY <1>3 DEF Trim, Return, Go, receiverVars, TypeInv, TypeOK
<1>7. unmet'[t] = {}
  BY <1>1, <1>6 DEF QuietInv, OwedInv, DeliveredInv, Sending
<1>8. PrefixInv' /\ DeliveredInv'
  BY <1>5, <1>6 DEF PrefixInv, DeliveredInv, Sending
<1>9. OwedInv'
  <2> SUFFICES ASSUME NEW u \in Goroutine
               PROVE  /\ pc'[u] \in Waiting =>
                            unmet'[u] \subseteq Range(events') \cup arrived \cup discarded
                      /\ pc'[u] = "idle" => unmet'[u] = {}
    BY <1>5, <1>6 DEF OwedInv, Sending
  <2>1. CASE u = t
    BY <1>6, <1>7, <2>1 DEF Waiting
  <2>2. CASE u # t
    BY <1>4, <1>6, <2>2 DEF QuietInv, OwedInv
  <2>3. QED
    BY <2>1, <2>2
<1>10. QED
  BY <1>3, <1>8, <1>9 DEF QuietInv, NeverJams

LEMMA FlushingQuiet ==
    ASSUME TypeInv, QuietInv, NEW t \in Goroutine, Acquire(t) \/ Step(t)
    PROVE  QuietInv'
<1> USE DEF TypeInv, TypeOK, Waiting, Sending, registryVars, receiverVars
<1>1. CASE Acquire(t)
  <2>1. \A u \in Goroutine : pc'[u] = IF u = t THEN "locked" ELSE pc[u]
    BY <1>1 DEF Acquire, Go
  <2>2. QED
    BY <1>1, <2>1, QuietStep DEF Acquire, QuietInv, DeliveredInv, OwedInv
<1>2. CASE SkipEmpty(t)
  <2>1. \A u \in Goroutine :
           /\ pc'[u] = IF u = t THEN "idle" ELSE pc[u]
           /\ unmet'[u] = IF u = t THEN unmet[t] \ (arrived \cup discarded) ELSE unmet[u]
           /\ u # t => payload'[u] = payload[u]
    BY <1>2 DEF SkipEmpty, Return, Go
  <2>2. Range(events) = {}
    <3>1. events = <<>> /\ 1..0 = {}
      BY <1>2 DEF SkipEmpty, Nothing
    <3>2. Range(events) = {events[i] : i \in 1..Len(events)}
      BY RangeOfSeq
    <3>3. Len(events) = 0
      BY <3>1
    <3>4. QED
      BY <3>1, <3>2, <3>3
  <2>3. unmet'[t] = {}
    BY <1>2, <2>1, <2>2 DEF SkipEmpty, QuietInv, OwedInv
  <2>4. UNCHANGED <<events, discarded, jammed, arrived>>
    BY <1>2 DEF SkipEmpty
  <2>5. QED
    BY <2>1, <2>3, <2>4, QuietStep DEF QuietInv, DeliveredInv, OwedInv
<1>3. CASE Snapshot(t)
  <2>1. /\ pc[t] = "locked" /\ UNCHANGED <<events, discarded, jammed, arrived, unmet>>
        /\ \A u \in Goroutine : /\ pc'[u] = IF u = t THEN "posting" ELSE pc[u]
                                /\ u # t => payload'[u] = payload[u]
        /\ payload'[t].events = events
    BY <1>3 DEF Snapshot, Post, Go
  <2>2. Len(events) \in Nat
    OBVIOUS
  <2>3. PrefixInv'
    <3> SUFFICES ASSUME NEW u \in Goroutine, pc'[u] \in Sending
                 PROVE  /\ Len(payload'[u].events) <= Len(events)
                        /\ \A i \in 1..Len(payload'[u].events) :
                              payload'[u].events[i] = events[i]
      BY <2>1 DEF PrefixInv
    <3>1. CASE u = t
      BY <2>1, <2>2, <3>1
    <3>2. CASE u # t
      BY <2>1, <3>2 DEF QuietInv, PrefixInv
    <3>3. QED
      BY <3>1, <3>2
  <2>4. DeliveredInv' /\ OwedInv' /\ NeverJams'
    BY <2>1 DEF QuietInv, DeliveredInv, OwedInv, NeverJams
  <2>5. QED
    BY <2>3, <2>4 DEF QuietInv
<1>4. CASE Trim(t)
  BY <1>4, TrimQuiet
<1>5. CASE Retry(t)
  <2>1. \A u \in Goroutine : pc'[u] = IF u = t THEN "posting" ELSE pc[u]
    BY <1>5 DEF Retry, Post, Go
  <2>2. QED
    BY <1>5, <2>1, QuietStep DEF Retry, QuietInv, DeliveredInv, OwedInv
<1>6. CASE GiveUp(t)
  <2>1. \A u \in Goroutine : /\ pc'[u] = IF u = t THEN "idle" ELSE pc[u]
                             /\ unmet'[u] = IF u = t THEN {} ELSE unmet[u]
                             /\ u # t => payload'[u] = payload[u]
    BY <1>6 DEF GiveUp, Return, Go
  <2>2. QED
    BY <1>6, <2>1, QuietStep DEF GiveUp, QuietInv, DeliveredInv, OwedInv
<1>7. QED
  BY <1>1, <1>2, <1>3, <1>4, <1>5, <1>6 DEF Step

LEMMA InitQuiet == Init => QuietInv
<1> SUFFICES ASSUME Init PROVE QuietInv
  OBVIOUS
<1>1. \A t \in Goroutine : pc[t] \in {"idle", "ended"} /\ unmet[t] = {}
  BY DEF Init
<1>2. jammed = FALSE
  BY DEF Init
<1>3. QED
  BY <1>1, <1>2 DEF QuietInv, PrefixInv, DeliveredInv, OwedInv, NeverJams, Sending, Waiting

LEMMA StepQuiet ==
    TypeInv /\ QuietInv /\ [ButClear \/ (~InFlight /\ Clear)]_vars => QuietInv'
<1> SUFFICES ASSUME TypeInv, QuietInv, [ButClear \/ (~InFlight /\ Clear)]_vars
             PROVE  QuietInv'
  OBVIOUS
<1>1. CASE UNCHANGED vars
  BY <1>1 DEF vars, registryVars, sendVars, receiverVars,
              QuietInv, PrefixInv, DeliveredInv, OwedInv, NeverJams
<1>2. CASE ButClear
  BY <1>2, StagingQuiet, CallQuiet, FlushingQuiet, NetworkQuiet DEF ButClear, Tick, Goroutine
<1>3. QED
  BY <1>1, <1>2, StagingQuiet

\* mu is never left locked, and a nil from Flush or Close means that every
\* event staged before the call was sent (telemetry.go:561, 583), for any
\* number of goroutines, retries and events, as long as Clear keeps away from
\* requests: the panic of the trim needs a Clear under a request.
THEOREM NilIsTrue == QuietSpec => [](NeverJams /\ NilMeansSent)
<1>1. TypeInv /\ [ButClear \/ (~InFlight /\ Clear)]_vars => TypeInv'
  BY StepTypeInv
<1>2. QuietInv => NeverJams /\ NilMeansSent
  BY DEF QuietInv, OwedInv, NilMeansSent, Goroutine
<1>3. QED
  BY <1>1, <1>2, InitTypeInv, InitQuiet, StepQuiet, PTL DEF QuietSpec

------------------------------------------------------------------------------
(* The client implements EventOutbox, when Clear keeps away from requests. *)

\* The first n elements of a sequence, as a set.
First(s, n) == {s[i] : i \in 1..n}

\* The events known to the client are the ones that were staged.
KnownInv == Range(events) \cup arrived \cup discarded \subseteq 1..staged

\* An abandoned request carries the oldest events of the queue, those that
\* have left the queue since the request was built apart.
Covers(p, n) ==
    /\ First(events, n) \subseteq Range(p.events)
    /\ Range(p.events) \subseteq First(events, n) \cup arrived \cup discarded

LateInv == \A p \in late : \E n \in 0..Len(events) : Covers(p, n)

OutboxInv == TypeInv /\ QuietInv /\ KnownInv /\ LateInv

------------------------------------------------------------------------------
(* Lengths and ranges. *)

LEMMA Lengths ==
    ASSUME TypeInv
    PROVE  /\ events \in Seq(Ids) /\ Len(events) \in Nat /\ staged \in Nat
           /\ Range(events) = First(events, Len(events))
           /\ \A t \in Goroutine : /\ payload[t].events \in Seq(Ids)
                                   /\ Len(payload[t].events) \in Nat
<1>1. events \in Seq(Ids) /\ Len(events) \in Nat /\ staged \in Nat
  BY ReceiverAssumption DEF TypeInv, TypeOK
<1>2. Range(events) = First(events, Len(events))
  BY <1>1, RangeOfSeq DEF First
<1>3. \A t \in Goroutine : payload[t] \in Payloads
  BY DEF TypeInv, TypeOK
<1>4. QED
  BY <1>1, <1>2, <1>3 DEF Payloads

\* The events of a request under way are the oldest of the queue.
LEMMA UnderWay ==
    ASSUME TypeInv, QuietInv, NEW t \in Goroutine, pc[t] \in Sending
    PROVE  /\ Len(payload[t].events) \in 0..Len(events)
           /\ Range(payload[t].events) = First(events, Len(payload[t].events))
<1> DEFINE sent == payload[t].events
<1>1. sent \in Seq(Ids) /\ Len(sent) \in Nat /\ Len(events) \in Nat
  BY Lengths
<1>2. Len(sent) <= Len(events) /\ \A i \in 1..Len(sent) : sent[i] = events[i]
  BY DEF QuietInv, PrefixInv
<1>3. Range(sent) = {sent[i] : i \in 1..Len(sent)}
  BY <1>1, RangeOfSeq
<1>4. QED
  BY <1>1, <1>2, <1>3 DEF First

------------------------------------------------------------------------------
(* The invariant. *)

LEMMA InitOutbox == Init => KnownInv /\ LateInv
BY DEF Init, ReceiverInit, KnownInv, LateInv, Range

\* A step that leaves the queue alone, and abandons no request but one under
\* way, keeps the invariant when nothing unknown arrives.
LEMMA QuietOutbox ==
    ASSUME OutboxInv, UNCHANGED <<events, staged, discarded>>,
           arrived \subseteq arrived', arrived' \subseteq 1..staged,
           \A p \in late' : p \in late \/ \E t \in Goroutine : pc[t] \in Sending /\ p = payload[t]
    PROVE  KnownInv' /\ LateInv'
<1>1. KnownInv'
  BY DEF OutboxInv, KnownInv
<1>2. ASSUME NEW p \in late'
      PROVE  \E n \in 0..Len(events) : Covers(p, n)
  BY UnderWay DEF OutboxInv, LateInv, Covers
<1>3. ASSUME NEW p \in late', NEW n \in 0..Len(events), Covers(p, n)
      PROVE  Covers(p, n)'
  BY <1>3 DEF Covers, First
<1>4. QED
  BY <1>1, <1>2, <1>3 DEF LateInv

LEMMA StageEventOutbox == OutboxInv /\ StageEvent => KnownInv' /\ LateInv'
<1> SUFFICES ASSUME OutboxInv, StageEvent PROVE KnownInv' /\ LateInv'
  OBVIOUS
<1>1. events \in Seq(Ids) /\ staged + 1 \in Ids /\ staged \in Nat /\ Len(events) \in Nat
  BY Lengths, ReceiverAssumption DEF OutboxInv, TypeInv, TypeOK, StageEvent, Ids
<1>2. Range(events') = Range(events) \cup {staged + 1}
  BY <1>1, AppendKeeps DEF StageEvent
<1>3. KnownInv'
  BY <1>1, <1>2 DEF OutboxInv, KnownInv, StageEvent, receiverVars
<1>4. /\ Len(events') = Len(events) + 1
      /\ \A n \in 0..Len(events) : First(events', n) = First(events, n)
  BY <1>1 DEF StageEvent, First
<1>5. ASSUME NEW p \in late
      PROVE  \E n \in 0..Len(events') : Covers(p, n)'
  <2>1. PICK n \in 0..Len(events) : Covers(p, n)
    BY DEF OutboxInv, LateInv
  <2>2. n \in 0..Len(events') /\ Covers(p, n)'
    BY <1>1, <1>4, <2>1 DEF Covers, StageEvent, receiverVars
  <2>3. QED
    BY <2>2
<1>6. QED
  BY <1>3, <1>5 DEF LateInv, StageEvent

LEMMA ClearOutbox == OutboxInv /\ Clear => KnownInv' /\ LateInv'
<1> SUFFICES ASSUME OutboxInv, Clear PROVE KnownInv' /\ LateInv'
  OBVIOUS
<1>1. events' = <<>> /\ discarded' = discarded \cup Range(events)
      /\ UNCHANGED <<arrived, staged, late>>
  BY DEF Clear, receiverVars
<1>2. KnownInv'
  BY <1>1 DEF OutboxInv, KnownInv, Range
<1>3. ASSUME NEW p \in late
      PROVE  0 \in 0..Len(events') /\ Covers(p, 0)'
  <2>1. PICK n \in 0..Len(events) : Covers(p, n)
    BY DEF OutboxInv, LateInv
  <2>2. First(events, n) \subseteq Range(events)
    BY Lengths DEF OutboxInv, First
  <2>3. First(events', 0) = {}
    BY DEF First
  <2>4. QED
    BY <1>1, <2>1, <2>2, <2>3 DEF Covers
<1>4. QED
  BY <1>1, <1>2, <1>3 DEF LateInv

\* What Trim does to the queue.
LEMMA Trimmed ==
    ASSUME OutboxInv, NEW t \in Goroutine, Trim(t)
    PROVE  LET k == Len(payload[t].events) IN
           /\ k \in 0..Len(events)
           /\ First(events, k) \subseteq arrived
           /\ Len(events') = Len(events) - k
           /\ \A i \in 1..(Len(events) - k) : events'[i] = events[k + i]
           /\ events' \in Seq(Ids)
           /\ UNCHANGED <<arrived, discarded, staged, late>>
<1> DEFINE k == Len(payload[t].events)
<1>1. pc[t] = "trimming" /\ pc[t] \in Sending
  BY DEF Trim, Sending
<1>2. k \in 0..Len(events) /\ Range(payload[t].events) = First(events, k)
  BY <1>1, UnderWay DEF OutboxInv
<1>3. Range(payload[t].events) \subseteq arrived
  BY <1>1 DEF OutboxInv, QuietInv, DeliveredInv
<1>4. events \in Seq(Ids) /\ Len(events) \in Nat
  BY Lengths DEF OutboxInv
<1>5. events' = SubSeq(events, k + 1, Len(events))
  BY DEF Trim
<1> HIDE DEF k
<1>6. /\ Len(events') = Len(events) - k
      /\ \A i \in 1..(Len(events) - k) : events'[i] = events[k + i]
      /\ events' \in Seq(Ids)
  BY <1>2, <1>4, <1>5
<1>7. UNCHANGED <<arrived, discarded, staged, late>>
  BY DEF Trim, receiverVars
<1>8. QED
  BY <1>2, <1>3, <1>6, <1>7 DEF k

LEMMA TrimOutbox ==
    ASSUME OutboxInv, NEW t \in Goroutine, Trim(t)
    PROVE  KnownInv' /\ LateInv'
<1> DEFINE k == Len(payload[t].events)
<1>1. /\ k \in 0..Len(events) /\ Len(events) \in Nat
      /\ First(events, k) \subseteq arrived
      /\ Len(events') = Len(events) - k
      /\ \A i \in 1..(Len(events) - k) : events'[i] = events[k + i]
      /\ events' \in Seq(Ids)
      /\ UNCHANGED <<arrived, discarded, staged, late>>
  BY Trimmed, Lengths DEF OutboxInv
<1> HIDE DEF k
<1>2. Range(events') \subseteq Range(events)
  <2>1. Range(events') = {events'[i] : i \in 1..Len(events')}
    BY <1>1, RangeOfSeq
  <2>2. Range(events) = {events[i] : i \in 1..Len(events)}
    BY Lengths, RangeOfSeq DEF OutboxInv
  <2>3. \A i \in 1..(Len(events) - k) : k + i \in 1..Len(events)
    BY <1>1
  <2>4. QED
    BY <1>1, <2>1, <2>2, <2>3
<1>3. KnownInv'
  BY <1>1, <1>2 DEF OutboxInv, KnownInv
<1>4. ASSUME NEW p \in late
      PROVE  \E n \in 0..Len(events') : Covers(p, n)'
  <2>1. PICK n \in 0..Len(events) : Covers(p, n)
    BY DEF OutboxInv, LateInv
  <2>2. CASE n <= k
    <3>1. First(events, n) \subseteq First(events, k)
      BY <1>1, <2>2 DEF First
    <3>2. First(events', 0) = {}
      BY DEF First
    <3>3. 0 \in 0..Len(events') /\ Covers(p, 0)'
      BY <1>1, <2>1, <3>1, <3>2 DEF Covers
    <3>4. QED
      BY <3>3
  <2>3. CASE n > k
    <3>1. PICK m \in 0..Len(events') : m = n - k
      BY <1>1, <2>3
    <3>2. First(events', n - k) \subseteq First(events, n)
      <4>1. \A i \in 1..(n - k) : k + i \in 1..n /\ i \in 1..(Len(events) - k)
        BY <1>1, <2>3
      <4>2. QED
        BY <1>1, <4>1 DEF First
    <3>3. First(events, n) \subseteq First(events, k) \cup First(events', n - k)
      <4>1. ASSUME NEW i \in 1..n, i > k
            PROVE  events[i] \in First(events', n - k)
        <5>1. i - k \in 1..(n - k) /\ i - k \in 1..(Len(events) - k) /\ k + (i - k) = i
          BY <1>1, <2>3, <4>1
        <5>2. QED
          BY <1>1, <5>1 DEF First
      <4>2. ASSUME NEW i \in 1..n, ~(i > k)
            PROVE  events[i] \in First(events, k)
        <5>1. i \in 1..k
          BY <1>1, <4>2
        <5>2. QED
          BY <5>1 DEF First
      <4>3. QED
        BY <4>1, <4>2 DEF First
    <3>4. Covers(p, m)'
      BY <1>1, <2>1, <3>1, <3>2, <3>3 DEF Covers
    <3>5. QED
      BY <3>4
  <2>4. QED
    BY <1>1, <2>2, <2>3
<1>5. QED
  BY <1>1, <1>3, <1>4 DEF LateInv

LEMMA CallingOutbox ==
    ASSUME OutboxInv, NEW t \in Goroutine,
           Flush(t) \/ Close(t) \/ LoopIsDone(t) \/ (t = Loop /\ Quit) \/ Cancel(t)
    PROVE  KnownInv' /\ LateInv'
<1>1. arrived \subseteq 1..staged
  BY DEF OutboxInv, KnownInv
<1>2. CASE Cancel(t)
  BY <1>1, <1>2, QuietOutbox DEF Cancel, registryVars, receiverVars, Sending
<1>3. CASE Flush(t) \/ Close(t) \/ LoopIsDone(t) \/ (t = Loop /\ Quit)
  BY <1>1, <1>3, QuietOutbox
     DEF Flush, Close, Call, LoopIsDone, Quit, registryVars, receiverVars
<1>4. QED
  BY <1>2, <1>3

LEMMA FlushingOutbox ==
    ASSUME OutboxInv, NEW t \in Goroutine, Acquire(t) \/ Step(t)
    PROVE  KnownInv' /\ LateInv'
<1>1. arrived \subseteq 1..staged
  BY DEF OutboxInv, KnownInv
<1>2. CASE Trim(t)
  BY <1>2, TrimOutbox
<1>3. CASE Acquire(t) \/ SkipEmpty(t) \/ Snapshot(t) \/ Retry(t) \/ GiveUp(t)
  BY <1>1, <1>3, QuietOutbox
     DEF Acquire, SkipEmpty, Snapshot, Retry, GiveUp, registryVars, receiverVars
<1>4. QED
  BY <1>2, <1>3 DEF Step

LEMMA NetworkOutbox ==
    ASSUME OutboxInv, Network
    PROVE  KnownInv' /\ LateInv'
<1> USE DEF registryVars, sendVars
<1>1. arrived \subseteq 1..staged /\ Range(events) \subseteq 1..staged /\ discarded \subseteq 1..staged
  BY DEF OutboxInv, KnownInv
<1>2. \A n \in 0..Len(events) : First(events, n) \subseteq Range(events)
  BY Lengths DEF OutboxInv, First
<1>3. ASSUME NEW t \in Goroutine, Receive(t)
      PROVE  KnownInv' /\ LateInv'
  <2>1. pc[t] \in Sending /\ arrived' = arrived \cup Range(payload[t].events)
    BY <1>3 DEF Receive, Apply, Sending
  <2>2. Range(payload[t].events) \subseteq Range(events)
    BY <1>2, <2>1, UnderWay DEF OutboxInv
  <2>3. QED
    BY <1>1, <1>3, <2>1, <2>2, QuietOutbox DEF Receive
<1>4. ASSUME NEW t \in Goroutine, Refuse(t)
      PROVE  KnownInv' /\ LateInv'
  BY <1>1, <1>4, QuietOutbox DEF Refuse, receiverVars
<1>5. ASSUME NEW t \in Goroutine, TimeOut(t)
      PROVE  KnownInv' /\ LateInv'
  BY <1>1, <1>5, QuietOutbox DEF TimeOut, Sending, receiverVars
<1>6. ASSUME NEW p \in late, ArriveLate(p)
      PROVE  KnownInv' /\ LateInv'
  <2>1. PICK n \in 0..Len(events) : Covers(p, n)
    BY DEF OutboxInv, LateInv
  <2>2. arrived' = arrived \cup Range(p.events)
    BY <1>6 DEF ArriveLate, Apply
  <2>3. arrived' \subseteq 1..staged
    BY <1>1, <1>2, <2>1, <2>2 DEF Covers
  <2>4. QED
    BY <1>6, <2>2, <2>3, QuietOutbox DEF ArriveLate
<1>7. ASSUME NEW p \in late, LoseLate(p)
      PROVE  KnownInv' /\ LateInv'
  BY <1>1, <1>7, QuietOutbox DEF LoseLate, receiverVars
<1>8. QED
  BY <1>3, <1>4, <1>5, <1>6, <1>7 DEF Network

LEMMA StepOutbox == OutboxInv /\ [ButClear \/ (~InFlight /\ Clear)]_vars => OutboxInv'
<1> SUFFICES ASSUME OutboxInv, [ButClear \/ (~InFlight /\ Clear)]_vars PROVE OutboxInv'
  OBVIOUS
<1>1. arrived \subseteq 1..staged
  BY DEF OutboxInv, KnownInv
<1>2. TypeInv' /\ QuietInv'
  BY StepTypeInv, StepQuiet DEF OutboxInv
<1>3. ASSUME StageValue PROVE KnownInv' /\ LateInv'
  BY <1>1, <1>3, QuietOutbox DEF StageValue, receiverVars
<1>4. ASSUME UNCHANGED vars PROVE KnownInv' /\ LateInv'
  BY <1>1, <1>4, QuietOutbox DEF vars, registryVars, receiverVars
<1>5. KnownInv' /\ LateInv'
  BY <1>3, <1>4, StageEventOutbox, ClearOutbox, CallingOutbox, FlushingOutbox, NetworkOutbox
     DEF ButClear, Tick, Goroutine
<1>6. QED
  BY <1>2, <1>5 DEF OutboxInv

------------------------------------------------------------------------------
(* Every step of the client is a step of the outbox, or none. *)

LEMMA ArriveStep ==
    ASSUME NEW n \in 0..Len(events), NEW p, Covers(p, n),
           arrived' = arrived \cup Range(p.events), UNCHANGED <<events, discarded>>
    PROVE  Outbox!Next
<1> DEFINE again == Range(p.events) \cap (arrived \cup discarded)
<1>1. arrived' = arrived \cup First(events, n) \cup again
  BY DEF Covers
<1>2. Outbox!Arrive(n, again)
  BY <1>1 DEF Outbox!Arrive, Outbox!Oldest, First
<1>3. again \in SUBSET (arrived \cup discarded)
  OBVIOUS
<1>4. QED
  BY <1>2, <1>3 DEF Outbox!Next

LEMMA StageStep == OutboxInv /\ StageEvent => Outbox!Next
<1> SUFFICES ASSUME OutboxInv, StageEvent PROVE Outbox!Next
  OBVIOUS
<1>1. staged + 1 \in Ids /\ staged \in Nat
  BY ReceiverAssumption DEF OutboxInv, TypeInv, TypeOK, StageEvent, Ids
<1>2. staged + 1 \notin Range(events) \cup arrived \cup discarded
  BY <1>1 DEF OutboxInv, KnownInv
<1>3. Outbox!Stage(staged + 1)
  BY <1>2 DEF Outbox!Stage, StageEvent, Range, Outbox!Range, receiverVars
<1>4. QED
  BY <1>1, <1>3 DEF Outbox!Next

LEMMA ClearStep == Clear => Outbox!Next
BY DEF Clear, Outbox!Next, Outbox!Discard, Range, Outbox!Range, receiverVars

LEMMA TrimStep ==
    ASSUME OutboxInv, NEW t \in Goroutine, Trim(t)
    PROVE  [Outbox!Next]_(Outbox!outboxVars)
<1> DEFINE k == Len(payload[t].events)
<1>1. /\ k \in 0..Len(events) /\ Len(events) \in Nat /\ events \in Seq(Ids)
      /\ First(events, k) \subseteq arrived
      /\ events' = SubSeq(events, k + 1, Len(events))
      /\ UNCHANGED <<arrived, discarded>>
  BY Trimmed, Lengths DEF OutboxInv, Trim
<1> HIDE DEF k
<1>2. CASE k = 0
  <2>1. events' = events
    BY <1>1, <1>2
  <2>2. QED
    BY <1>1, <2>1 DEF Outbox!outboxVars
<1>3. CASE k # 0
  <2>1. Outbox!Confirm(k)
    BY <1>1 DEF Outbox!Confirm, Outbox!Oldest, First
  <2>2. k \in 1..Len(events)
    BY <1>1, <1>3
  <2>3. QED
    BY <2>1, <2>2 DEF Outbox!Next
<1>4. QED
  BY <1>2, <1>3

LEMMA NetworkStep ==
    ASSUME OutboxInv, Network
    PROVE  [Outbox!Next]_(Outbox!outboxVars)
<1>1. ASSUME NEW t \in Goroutine, Receive(t)
      PROVE  Outbox!Next
  <2>1. pc[t] \in Sending /\ arrived' = arrived \cup Range(payload[t].events)
    BY <1>1 DEF Receive, Apply, Sending
  <2>2. /\ Len(payload[t].events) \in 0..Len(events)
        /\ Covers(payload[t], Len(payload[t].events))
    BY <2>1, UnderWay DEF OutboxInv, Covers
  <2>3. QED
    BY <1>1, <2>1, <2>2, ArriveStep DEF Receive, registryVars
<1>2. ASSUME NEW p \in late, ArriveLate(p)
      PROVE  Outbox!Next
  <2>1. PICK n \in 0..Len(events) : Covers(p, n)
    BY DEF OutboxInv, LateInv
  <2>2. QED
    BY <1>2, <2>1, ArriveStep DEF ArriveLate, Apply, registryVars
<1>3. ASSUME \/ \E t \in Goroutine : TimeOut(t) \/ Refuse(t)
             \/ \E p \in late : LoseLate(p)
      PROVE  UNCHANGED Outbox!outboxVars
  BY <1>3 DEF TimeOut, Refuse, LoseLate, registryVars, receiverVars, Outbox!outboxVars
<1>4. QED
  BY <1>1, <1>2, <1>3 DEF Network

LEMMA FlushingStep ==
    ASSUME OutboxInv, NEW t \in Goroutine, Acquire(t) \/ Step(t)
    PROVE  [Outbox!Next]_(Outbox!outboxVars)
<1>1. CASE Trim(t)
  BY <1>1, TrimStep
<1>2. CASE Acquire(t) \/ SkipEmpty(t) \/ Snapshot(t) \/ Retry(t) \/ GiveUp(t)
  BY <1>2 DEF Acquire, SkipEmpty, Snapshot, Retry, GiveUp, registryVars, receiverVars,
              Outbox!outboxVars
<1>3. QED
  BY <1>1, <1>2 DEF Step

LEMMA CallingStep ==
    ASSUME NEW t \in Goroutine,
           Flush(t) \/ Close(t) \/ LoopIsDone(t) \/ (t = Loop /\ Quit) \/ Cancel(t)
    PROVE  UNCHANGED Outbox!outboxVars
BY DEF Flush, Close, Call, LoopIsDone, Quit, Cancel, registryVars, receiverVars,
       Outbox!outboxVars

\* Every step is one of EventOutbox, or changes nothing it knows of.
LEMMA OutboxStep ==
    OutboxInv /\ [ButClear \/ (~InFlight /\ Clear)]_vars => [Outbox!Next]_(Outbox!outboxVars)
<1>1. ASSUME UNCHANGED vars \/ StageValue PROVE UNCHANGED Outbox!outboxVars
  BY <1>1 DEF vars, registryVars, receiverVars, StageValue, Outbox!outboxVars
<1>2. QED
  BY <1>1, StageStep, ClearStep, CallingStep, FlushingStep, NetworkStep
     DEF ButClear, Tick, Goroutine

\* The client keeps the promise of EventOutbox: staged events wait in order,
\* leave the queue only once the receiver has had them, and are never sent
\* behind newer ones, through retries, contexts that end and late arrivals
\* (telemetry.go:538-561), as long as Clear keeps away from requests.
THEOREM ImplementsOutbox == QuietSpec => OutboxSpec
<1>1. Init => Outbox!Init
  BY DEF Init, ReceiverInit, Outbox!Init
<1>2. Init => OutboxInv
  BY InitTypeInv, InitQuiet, InitOutbox DEF OutboxInv
<1>3. QED
  BY <1>1, <1>2, OutboxStep, StepOutbox, PTL DEF QuietSpec, OutboxSpec, Outbox!Spec

------------------------------------------------------------------------------
(* Order of arrival. *)

\* The events the receiver has had, or clear() dropped.
Gone == arrived \cup discarded

\* The queue is the newest events staged, in order; all older ones are gone,
\* and none is gone before those staged ahead of it.
OrderInv ==
    /\ Len(events) <= staged
    /\ \A i \in 1..Len(events) : events[i] = (staged - Len(events)) + i
    /\ 1..(staged - Len(events)) \subseteq Gone
    /\ \A e \in Gone : 1..e \subseteq Gone

\* Every event ever staged is queued or gone, and the receiver has had none
\* ahead of one that was staged before it and is still queued.
ArrivesInOrder ==
    /\ 1..staged \subseteq Range(events) \cup arrived \cup discarded
    /\ \A e \in arrived : 1..e \subseteq arrived \cup discarded

\* The oldest n of the queue follow what is gone.
LEMMA OldestFollow ==
    ASSUME TypeInv, OrderInv, NEW n \in 0..Len(events)
    PROVE  /\ 1..((staged - Len(events)) + n) \subseteq Gone \cup First(events, n)
           /\ \A e \in Gone \cup First(events, n) : 1..e \subseteq Gone \cup First(events, n)
<1> DEFINE base == staged - Len(events)
<1>1. /\ base \in Nat /\ Len(events) \in Nat /\ 1..base \subseteq Gone
      /\ \A i \in 1..Len(events) : events[i] = base + i
  BY Lengths DEF OrderInv
<1> HIDE DEF base
<1>2. ASSUME NEW m \in 0..n, NEW x \in 1..(base + m)
      PROVE  x \in Gone \cup First(events, n)
  <2>1. CASE x <= base
    BY <1>1, <2>1
  <2>2. CASE x > base
    <3>1. x - base \in 1..n /\ x - base \in 1..Len(events) /\ base + (x - base) = x
      BY <1>1, <1>2, <2>2
    <3>2. QED
      BY <1>1, <3>1 DEF First
  <2>3. QED
    BY <1>1, <2>1, <2>2
<1>3. ASSUME NEW e \in First(events, n)
      PROVE  1..e \subseteq Gone \cup First(events, n)
  <2>1. PICK i \in 1..n : e = events[i]
    BY <1>3 DEF First
  <2>2. e = base + i /\ i \in 0..n
    BY <1>1, <2>1
  <2>3. QED
    BY <1>2, <2>2
<1>4. 1..(base + n) \subseteq Gone \cup First(events, n)
  BY <1>2
<1>5. QED
  BY <1>3, <1>4 DEF base, OrderInv

\* So they are 1..staged together with the queue.
LEMMA OrderMeans ==
    ASSUME OutboxInv, OrderInv
    PROVE  ArrivesInOrder
<1>1. Len(events) \in Nat /\ staged \in Nat /\ Range(events) = First(events, Len(events))
  BY Lengths DEF OutboxInv
<1>2. 1..((staged - Len(events)) + Len(events)) \subseteq Gone \cup First(events, Len(events))
  BY <1>1, OldestFollow DEF OutboxInv
<1>3. (staged - Len(events)) + Len(events) = staged
  BY <1>1
<1>4. QED
  BY <1>1, <1>2, <1>3 DEF ArrivesInOrder, OrderInv, Gone

\* A new event goes behind the others.
LEMMA StageOrder == OutboxInv /\ OrderInv /\ StageEvent => OrderInv'
<1> SUFFICES ASSUME OutboxInv, OrderInv, StageEvent PROVE OrderInv'
  OBVIOUS
<1>1. events \in Seq(Ids) /\ staged \in Nat /\ Len(events) \in Nat
  BY Lengths DEF OutboxInv
<1>2. events' = Append(events, staged + 1) /\ staged' = staged + 1 /\ Gone' = Gone
  BY DEF StageEvent, Gone, receiverVars
<1>3. /\ Len(events') = Len(events) + 1 /\ events'[Len(events) + 1] = staged + 1
      /\ \A i \in 1..Len(events) : events'[i] = events[i]
  BY <1>1, <1>2
<1>4. staged' - Len(events') = staged - Len(events)
  BY <1>1, <1>2, <1>3
<1>5. ASSUME NEW i \in 1..Len(events')
      PROVE  events'[i] = (staged - Len(events)) + i
  <2>1. CASE i = Len(events) + 1
    BY <1>1, <1>3, <2>1
  <2>2. CASE i # Len(events) + 1
    <3>1. i \in 1..Len(events)
      BY <1>1, <1>3, <2>2
    <3>2. QED
      BY <1>3, <3>1 DEF OrderInv
  <2>3. QED
    BY <2>1, <2>2
<1>6. Len(events') <= staged'
  BY <1>1, <1>2, <1>3 DEF OrderInv
<1>7. QED
  BY <1>2, <1>4, <1>5, <1>6 DEF OrderInv

\* What leaves the queue is gone already.
LEMMA ConfirmOrder ==
    ASSUME OutboxInv, OrderInv, NEW k \in 0..Len(events), First(events, k) \subseteq Gone,
           Len(events') = Len(events) - k,
           \A i \in 1..(Len(events) - k) : events'[i] = events[k + i],
           Gone' = Gone, staged' = staged
    PROVE  OrderInv'
<1>1. events \in Seq(Ids) /\ staged \in Nat /\ Len(events) \in Nat
  BY Lengths DEF OutboxInv
<1>2. staged - Len(events') = (staged - Len(events)) + k
  BY <1>1
<1>3. 1..((staged - Len(events)) + k) \subseteq Gone
  BY OldestFollow DEF OutboxInv
<1>4. ASSUME NEW i \in 1..(Len(events) - k)
      PROVE  events'[i] = (staged - Len(events')) + i
  <2>1. k + i \in 1..Len(events)
    BY <1>1
  <2>2. events'[i] = (staged - Len(events)) + (k + i)
    BY <2>1 DEF OrderInv
  <2>3. QED
    BY <1>1, <2>2
<1>5. Len(events') <= staged
  BY <1>1 DEF OrderInv
<1>6. QED
  BY <1>2, <1>3, <1>4, <1>5 DEF OrderInv

\* A step of the outbox that stages nothing keeps the order: a payload brings
\* the oldest of the queue, or what was gone before.
LEMMA OutboxOrder ==
    ASSUME OutboxInv, KnownInv', OrderInv, [Outbox!Next]_(Outbox!outboxVars), staged' = staged
    PROVE  OrderInv'
<1>1. events \in Seq(Ids) /\ staged \in Nat /\ Len(events) \in Nat
      /\ Range(events) = First(events, Len(events))
  BY Lengths DEF OutboxInv
<1>2. ASSUME NEW e \in Ids, Outbox!Stage(e) PROVE FALSE
  <2>1. e \notin Range(events) \cup arrived \cup discarded /\ events' = Append(events, e)
    BY <1>2 DEF Outbox!Stage, Outbox!Range, Range
  <2>2. e \in Range(events')
    BY <1>1, <2>1, AppendKeeps
  <2>3. e \in 1..staged
    BY <2>2 DEF KnownInv
  <2>4. QED
    BY <2>1, <2>3, OrderMeans DEF ArrivesInOrder
<1>3. ASSUME NEW n \in 0..Len(events), NEW again \in SUBSET (arrived \cup discarded),
             Outbox!Arrive(n, again)
      PROVE  OrderInv'
  <2>1. Gone' = Gone \cup First(events, n) /\ UNCHANGED <<events, staged>>
    BY <1>3 DEF Outbox!Arrive, Outbox!Oldest, First, Gone
  <2>2. QED
    BY <2>1, OldestFollow DEF OutboxInv, OrderInv
<1>4. ASSUME NEW n \in 1..Len(events), Outbox!Confirm(n)
      PROVE  OrderInv'
  <2>1. /\ First(events, n) \subseteq Gone /\ events' = SubSeq(events, n + 1, Len(events))
        /\ Gone' = Gone /\ n \in 0..Len(events)
    BY <1>4 DEF Outbox!Confirm, Outbox!Oldest, First, Gone
  <2>2. /\ Len(events') = Len(events) - n
        /\ \A i \in 1..(Len(events) - n) : events'[i] = events[n + i]
    BY <1>1, <2>1
  <2>3. QED
    BY <2>1, <2>2, ConfirmOrder
<1>5. CASE Outbox!Discard
  <2>1. events' = <<>> /\ Gone' = Gone \cup First(events, Len(events))
    BY <1>1, <1>5 DEF Outbox!Discard, Outbox!Range, Range, Gone
  <2>2. Len(events') = 0 /\ Len(events) \in 0..Len(events)
        /\ staged - 0 = (staged - Len(events)) + Len(events)
    BY <1>1, <2>1
  <2>3. QED
    BY <1>1, <2>1, <2>2, OldestFollow DEF OutboxInv, OrderInv
<1>6. CASE UNCHANGED Outbox!outboxVars
  BY <1>6 DEF Outbox!outboxVars, OrderInv, Gone
<1>7. QED
  BY <1>2, <1>3, <1>4, <1>5, <1>6 DEF Outbox!Next

LEMMA StepOrder == OutboxInv /\ OrderInv /\ [ButClear \/ (~InFlight /\ Clear)]_vars => OrderInv'
<1> SUFFICES ASSUME OutboxInv, OrderInv, [ButClear \/ (~InFlight /\ Clear)]_vars PROVE OrderInv'
  OBVIOUS
<1>1. CASE StageEvent
  BY <1>1, StageOrder
<1>2. CASE ~StageEvent
  <2>1. staged' = staged
    BY <1>2 DEF ButClear, Clear, StageValue, Flush, Close, Call, LoopIsDone, Cancel, Tick, Quit,
                Acquire, Step, SkipEmpty, Snapshot, Trim, Retry, GiveUp, Network,
                Receive, Refuse, TimeOut, ArriveLate, LoseLate, vars, registryVars
  <2>2. KnownInv'
    BY StepOutbox DEF OutboxInv
  <2>3. QED
    BY <2>1, <2>2, OutboxStep, OutboxOrder
<1>3. QED
  BY <1>1, <1>2

\* Every event staged is still queued, has arrived, or was cleared, and events
\* arrive in the order they were staged, through retries, cancelled contexts and
\* requests that arrive late, when Clear is not called under a request
\* (telemetry.go:519-520, telemetry.go:548-563).
THEOREM ArriveInOrder == QuietSpec => []ArrivesInOrder
<1>1. Init => OutboxInv /\ OrderInv
  BY InitTypeInv, InitQuiet, InitOutbox, GoAssumption, ReceiverAssumption
     DEF Init, ReceiverInit, OutboxInv, OrderInv, Gone
<1>2. QED
  BY <1>1, StepOutbox, StepOrder, OrderMeans, PTL DEF QuietSpec
==============================================================================
