----------------------------- MODULE FlushProofs -----------------------------
(***************************************************************************)
(* Proofs about Flush, for every set of threads, retry limit and bound:    *)
(* its types, the exclusion of the flush lock, that no staged event is     *)
(* lost silently and all arrive in order as long as clear() is not called  *)
(* under a flush, that what is shown never gets older, and that Flush      *)
(* implements EventOutbox.                                                 *)
(***************************************************************************)
EXTENDS Flush, TLAPS

\* Whoever is inside flush() holds the flush lock.
LockInv == \A t \in Thread : pc[t] # "idle" <=> flushLock = t

\* The retry counter and the answer of an attempt belong to the send loop.
AttemptInv ==
    \A t \in Thread :
        /\ pc[t] = "backoff" => attempt[t] <= MaxRetries
        /\ pc[t] \in {"idle", "locked"} => reply[t] = "none"

TypeInv == TypeOK /\ LockInv /\ AttemptInv

Sending == {"posting", "backoff", "trimming"}

\* The events of a payload under way are the oldest of the queue: what Trim
\* removes by count is what was sent.
PrefixInv ==
    \A t \in Thread : pc[t] \in Sending =>
        /\ Len(payload[t].events) <= Len(events)
        /\ \A i \in 1..Len(payload[t].events) : payload[t].events[i] = events[i]

\* After a 2xx the receiver has them all.
DeliveredInv ==
    \A t \in Thread : (pc[t] = "trimming" \/ (pc[t] = "posting" /\ reply[t] = "ok")) =>
        Range(payload[t].events) \subseteq arrived

------------------------------------------------------------------------------
(* Sequences. *)

LEMMA RangeOfSeq ==
    ASSUME NEW S, NEW s \in Seq(S)
    PROVE  Range(s) = {s[i] : i \in 1..Len(s)} /\ Range(s) \subseteq S
BY DEF Range

LEMMA RangeOfAppend ==
    ASSUME NEW S, NEW s \in Seq(S), NEW e \in S
    PROVE  Range(Append(s, e)) = Range(s) \cup {e}
<1>1. Append(s, e) \in Seq(S) /\ Len(Append(s, e)) = Len(s) + 1
  OBVIOUS
<1>2. \A i \in 1..Len(s) : Append(s, e)[i] = s[i]
  OBVIOUS
<1>3. Append(s, e)[Len(s) + 1] = e
  OBVIOUS
<1>4. Range(Append(s, e)) = {Append(s, e)[i] : i \in 1..(Len(s) + 1)}
  BY <1>1, RangeOfSeq
<1>5. Range(s) = {s[i] : i \in 1..Len(s)}
  BY RangeOfSeq
<1>6. ASSUME NEW x \in Range(s) PROVE x \in Range(Append(s, e))
  BY <1>2, <1>4, <1>5
<1>7. e \in Range(Append(s, e))
  BY <1>3, <1>4
<1>8. ASSUME NEW x \in Range(Append(s, e)) PROVE x \in Range(s) \cup {e}
  BY <1>2, <1>3, <1>4, <1>5
<1>9. QED
  BY <1>6, <1>7, <1>8

LEMMA TailAfter ==
    ASSUME NEW S, NEW s \in Seq(S), NEW n \in Nat, n <= Len(s)
    PROVE  /\ SubSeq(s, n + 1, Len(s)) \in Seq(S)
           /\ \A i \in 1..Len(s) : i <= n \/ s[i] \in Range(SubSeq(s, n + 1, Len(s)))
<1> DEFINE r == SubSeq(s, n + 1, Len(s))
<1>1. r \in Seq(S) /\ Len(r) = Len(s) - n
  OBVIOUS
<1>2. \A j \in 1..(Len(s) - n) : r[j] = s[n + j]
  OBVIOUS
<1> HIDE DEF r
<1>3. ASSUME NEW i \in 1..Len(s), i > n
      PROVE  s[i] \in Range(r)
  <2>1. i - n \in 1..Len(r) /\ r[i - n] = s[i]
    BY <1>1, <1>2, <1>3
  <2>2. Range(r) = {r[j] : j \in 1..Len(r)}
    BY <1>1, RangeOfSeq
  <2>3. QED
    BY <2>1, <2>2
<1>4. QED
  BY <1>1, <1>3 DEF r

------------------------------------------------------------------------------
(* Types, the flush lock and the retry counter. *)

LEMMA ApplyTypes ==
    ASSUME TypeOK, NEW p \in Payloads, Apply(p)
    PROVE  /\ arrived' \subseteq Ids /\ shown' \in Gauges
           /\ arrived' = arrived \cup Range(p.events)
<1>1. p.events \in Seq(Ids) /\ p.gauge \in Gauges
  BY DEF Payloads
<1>2. Range(p.events) \subseteq Ids
  BY <1>1, RangeOfSeq
<1>3. QED
  BY <1>1, <1>2 DEF Apply, TypeOK, ReceiverTypeOK

LEMMA InitTypeInv == Init => TypeInv
<1> SUFFICES ASSUME Init PROVE TypeInv
  OBVIOUS
<1>1. Unsent \in Payloads
  BY ReceiverAssumption DEF Unsent, Payloads, Gauges
<1>2. QED
  BY <1>1, FlushAssumption, ReceiverAssumption
     DEF Init, ReceiverInit, TypeInv, TypeOK, ReceiverTypeOK, LockInv, AttemptInv, Gauges, Replies

\* Leaving flush() keeps the three, whatever happens to the queue.
LEMMA LeaveTypeInv ==
    ASSUME TypeInv, NEW t \in Thread, pc[t] # "idle", Leave(t),
           events' \in Seq(Ids), late' \subseteq Payloads,
           UNCHANGED <<gauge, staged, lastGauge, discarded, receiverVars>>
    PROVE  TypeInv'
<1>1. Unsent \in Payloads
  BY ReceiverAssumption DEF Unsent, Payloads, Gauges
<1>2. TypeOK'
  BY <1>1, FlushAssumption DEF TypeInv, TypeOK, ReceiverTypeOK, Leave, receiverVars, Replies
<1>3. LockInv'
  BY FlushAssumption DEF TypeInv, TypeOK, LockInv, Leave
<1>4. AttemptInv'
  BY DEF TypeInv, TypeOK, AttemptInv, Leave
<1>5. QED
  BY <1>2, <1>3, <1>4 DEF TypeInv

\* A step that only records an answer keeps them too.
LEMMA ReplyTypeInv ==
    ASSUME TypeInv, NEW t \in Thread, NEW r \in Replies, pc[t] = "posting",
           reply' = [reply EXCEPT ![t] = r],
           late' \subseteq Payloads,
           arrived' \subseteq Ids,
           shown' \in Gauges,
           UNCHANGED <<registryVars, flushVars>>
    PROVE  TypeInv'
<1>1. TypeOK'
  BY DEF TypeInv, TypeOK, ReceiverTypeOK, registryVars, flushVars
<1>2. LockInv' /\ AttemptInv'
  BY DEF TypeInv, TypeOK, LockInv, AttemptInv, registryVars, flushVars
<1>3. QED
  BY <1>1, <1>2 DEF TypeInv

LEMMA StagingTypeInv ==
    ASSUME TypeInv, StageEvent \/ StageValue \/ Clear
    PROVE  TypeInv'
<1>1. CASE StageEvent
  <2>1. staged + 1 \in Ids /\ staged + 1 \in 0..MaxEvents
    BY <1>1, ReceiverAssumption DEF TypeInv, TypeOK, StageEvent, Ids
  <2>2. QED
    BY <1>1, <2>1 DEF TypeInv, TypeOK, ReceiverTypeOK, LockInv, AttemptInv, StageEvent,
                      flushVars, receiverVars
<1>2. CASE StageValue
  <2>1. lastGauge + 1 \in Gauges
    BY <1>2, ReceiverAssumption DEF TypeInv, TypeOK, StageValue, Gauges
  <2>2. QED
    BY <1>2, <2>1 DEF TypeInv, TypeOK, ReceiverTypeOK, LockInv, AttemptInv, StageValue,
                      flushVars, receiverVars
<1>3. CASE Clear
  <2>1. Range(events) \subseteq Ids
    BY RangeOfSeq DEF TypeInv, TypeOK
  <2>2. 0 \in Gauges /\ <<>> \in Seq(Ids)
    BY ReceiverAssumption DEF Gauges
  <2>3. QED
    BY <1>3, <2>1, <2>2 DEF TypeInv, TypeOK, ReceiverTypeOK, LockInv, AttemptInv, Clear,
                            flushVars, receiverVars
<1>4. QED
  BY <1>1, <1>2, <1>3

LEMMA FlushingTypeInv ==
    ASSUME TypeInv, NEW t \in Thread, Acquire(t) \/ Step(t) \/ Cancel(t)
    PROVE  TypeInv'
<1> USE DEF TypeInv
<1>1. CASE Acquire(t)
  BY <1>1, FlushAssumption
     DEF Acquire, TypeOK, ReceiverTypeOK, LockInv, AttemptInv, registryVars, receiverVars
<1>2. CASE SkipEmpty(t)
  BY <1>2, LeaveTypeInv DEF SkipEmpty, TypeOK, registryVars
<1>3. CASE BuildPayload(t)
  <2>1. [events |-> events, gauge |-> gauge] \in Payloads
    BY DEF TypeOK, Payloads
  <2>2. 1 \in 0..(MaxRetries + 1)
    BY FlushAssumption
  <2>3. QED
    BY <1>3, <2>1, <2>2
       DEF BuildPayload, TypeOK, ReceiverTypeOK, LockInv, AttemptInv, registryVars, receiverVars
<1>4. CASE Succeed(t)
  BY <1>4 DEF Succeed, TypeOK, ReceiverTypeOK, LockInv, AttemptInv, registryVars, receiverVars
<1>5. CASE Trim(t)
  <2>1. SubSeq(events, Len(payload[t].events) + 1, Len(events)) \in Seq(Ids)
    BY DEF TypeOK, Payloads
  <2>2. QED
    BY <1>5, <2>1, LeaveTypeInv DEF Trim, TypeOK
<1>6. CASE Raise(t)
  BY <1>6, LeaveTypeInv DEF Raise, TypeOK, registryVars
<1>7. CASE Backoff(t)
  BY <1>7 DEF Backoff, TypeOK, ReceiverTypeOK, LockInv, AttemptInv, registryVars, receiverVars
<1>8. CASE Retry(t)
  <2>1. attempt[t] + 1 \in 0..(MaxRetries + 1)
    BY <1>8, FlushAssumption DEF Retry, TypeOK, AttemptInv
  <2>2. QED
    BY <1>8, <2>1 DEF Retry, TypeOK, ReceiverTypeOK, LockInv, AttemptInv, Replies,
                      registryVars, receiverVars
<1>9. CASE Cancel(t)
  <2>1. late' \subseteq Payloads
    BY <1>9 DEF Cancel, TypeOK
  <2>2. QED
    BY <1>9, <2>1, LeaveTypeInv DEF Cancel, TypeOK, registryVars
<1>10. QED
  BY <1>1, <1>2, <1>3, <1>4, <1>5, <1>6, <1>7, <1>8, <1>9 DEF Step

LEMMA NetworkTypeInv ==
    ASSUME TypeInv, Network
    PROVE  TypeInv'
<1>1. ASSUME NEW t \in Thread, NEW r \in {"ok", "down", "cut"}, Receive(t, r)
      PROVE  TypeInv'
  <2>1. payload[t] \in Payloads
    BY DEF TypeInv, TypeOK
  <2>2. QED
    BY <1>1, <2>1, ApplyTypes, ReplyTypeInv DEF Receive, Waiting, TypeInv, TypeOK, Replies
<1>2. ASSUME NEW t \in Thread, NEW r \in {"down", "rejected", "cut"}, Refuse(t, r)
      PROVE  TypeInv'
  BY <1>2, ReplyTypeInv DEF Refuse, Waiting, TypeInv, TypeOK, ReceiverTypeOK, Replies, receiverVars
<1>3. ASSUME NEW t \in Thread, TimeOut(t)
      PROVE  TypeInv'
  <2>1. late' \subseteq Payloads
    BY <1>3 DEF TimeOut, TypeInv, TypeOK
  <2>2. QED
    BY <1>3, <2>1, ReplyTypeInv DEF TimeOut, Waiting, TypeInv, TypeOK, ReceiverTypeOK, Replies, receiverVars
<1>4. ASSUME NEW p \in late, ArriveLate(p)
      PROVE  TypeInv'
  <2>1. p \in Payloads
    BY DEF TypeInv, TypeOK
  <2>2. QED
    BY <1>4, <2>1, ApplyTypes
       DEF ArriveLate, TypeInv, TypeOK, ReceiverTypeOK, LockInv, AttemptInv, registryVars, flushVars
<1>5. ASSUME NEW p \in late, LoseLate(p)
      PROVE  TypeInv'
  BY <1>5 DEF LoseLate, TypeInv, TypeOK, ReceiverTypeOK, LockInv, AttemptInv,
              registryVars, flushVars, receiverVars
<1>6. QED
  BY <1>1, <1>2, <1>3, <1>4, <1>5 DEF Network

LEMMA StepTypeInv == TypeInv /\ [Next]_vars => TypeInv'
<1> SUFFICES ASSUME TypeInv, [Next]_vars PROVE TypeInv'
  OBVIOUS
<1>1. CASE UNCHANGED vars
  BY <1>1 DEF vars, registryVars, flushVars, receiverVars,
              TypeInv, TypeOK, ReceiverTypeOK, LockInv, AttemptInv
<1>2. QED
  BY <1>1, StagingTypeInv, FlushingTypeInv, NetworkTypeInv DEF Next, Flushing

\* Every state of the client has its declared types and at most one flush at a
\* time, clear() at any moment included.
THEOREM TypeCorrect == Spec => []TypeOK
<1>1. TypeInv => TypeOK
  BY DEF TypeInv
<1>2. QED
  BY <1>1, InitTypeInv, StepTypeInv, PTL DEF Spec

\* Two threads are never inside flush() together (_telemetry.py:71).
THEOREM FlushesSerialise ==
    Spec => [](\A t, u \in Thread : pc[t] # "idle" /\ pc[u] # "idle" => t = u)
<1>1. TypeInv => \A t, u \in Thread : pc[t] # "idle" /\ pc[u] # "idle" => t = u
  BY DEF TypeInv, LockInv
<1>2. QED
  BY <1>1, InitTypeInv, StepTypeInv, PTL DEF Spec

------------------------------------------------------------------------------
(* No silent loss, when clear() is not called under a flush. *)

LossInv == PrefixInv /\ DeliveredInv /\ NoSilentLoss

\* A step that leaves the queue and what happened to its events alone, and
\* starts no send, keeps the three when it also keeps the payloads under way.
LEMMA QuietStep ==
    ASSUME TypeInv, LossInv, UNCHANGED <<events, staged, discarded>>,
           arrived \subseteq arrived',
           \A t \in Thread : pc'[t] \in Sending =>
               pc[t] \in Sending /\ payload'[t] = payload[t],
           \A t \in Thread : (pc'[t] = "trimming" \/ (pc'[t] = "posting" /\ reply'[t] = "ok")) =>
               Range(payload'[t].events) \subseteq arrived'
    PROVE  LossInv'
<1>1. PrefixInv'
  BY DEF LossInv, PrefixInv
<1>2. DeliveredInv'
  BY DEF DeliveredInv
<1>3. NoSilentLoss'
  BY DEF LossInv, NoSilentLoss
<1>4. QED
  BY <1>1, <1>2, <1>3 DEF LossInv

LEMMA StageEventLoss == TypeInv /\ LossInv /\ StageEvent => LossInv'
<1> SUFFICES ASSUME TypeInv, LossInv, StageEvent PROVE LossInv'
  OBVIOUS
<1>1. events \in Seq(Ids) /\ staged + 1 \in Ids /\ staged \in Nat
  BY ReceiverAssumption DEF TypeInv, TypeOK, StageEvent, Ids
<1>2. Range(events') = Range(events) \cup {staged + 1}
  BY <1>1, RangeOfAppend DEF StageEvent
<1>3. Len(events') = Len(events) + 1 /\ \A i \in 1..Len(events) : events'[i] = events[i]
  BY <1>1 DEF StageEvent
<1>4. PrefixInv'
  <2> SUFFICES ASSUME NEW t \in Thread, pc[t] \in Sending
               PROVE  /\ Len(payload[t].events) <= Len(events')
                      /\ \A i \in 1..Len(payload[t].events) :
                            payload[t].events[i] = events'[i]
    BY DEF PrefixInv, StageEvent, flushVars
  <2>1. /\ Len(payload[t].events) <= Len(events)
        /\ \A i \in 1..Len(payload[t].events) : payload[t].events[i] = events[i]
    BY DEF LossInv, PrefixInv
  <2>2. Len(payload[t].events) \in Nat /\ Len(events) \in Nat
    BY <1>1 DEF TypeInv, TypeOK, Payloads
  <2>3. QED
    BY <1>3, <2>1, <2>2
<1>5. DeliveredInv'
  BY DEF LossInv, DeliveredInv, StageEvent, flushVars, receiverVars
<1>6. NoSilentLoss'
  BY <1>1, <1>2 DEF LossInv, NoSilentLoss, StageEvent, receiverVars
<1>7. QED
  BY <1>4, <1>5, <1>6 DEF LossInv

LEMMA ClearLoss == TypeInv /\ LossInv /\ ~InFlight /\ Clear => LossInv'
<1> SUFFICES ASSUME TypeInv, LossInv, ~InFlight, Clear PROVE LossInv'
  OBVIOUS
<1>1. PrefixInv' /\ DeliveredInv'
  BY DEF InFlight, Clear, flushVars, PrefixInv, DeliveredInv, Sending
<1>2. NoSilentLoss'
  BY DEF LossInv, NoSilentLoss, Clear, receiverVars
<1>3. QED
  BY <1>1, <1>2 DEF LossInv

LEMMA TrimLoss ==
    ASSUME TypeInv, LossInv, NEW t \in Thread, Trim(t)
    PROVE  LossInv'
<1> DEFINE sent == payload[t].events
<1>1. events \in Seq(Ids) /\ sent \in Seq(Ids) /\ Len(sent) \in Nat
  BY DEF TypeInv, TypeOK, Payloads
<1>2. /\ Len(sent) <= Len(events)
      /\ \A i \in 1..Len(sent) : sent[i] = events[i]
      /\ Range(sent) \subseteq arrived
  <2>1. pc[t] = "trimming" /\ pc[t] \in Sending
    BY DEF Trim, Sending
  <2>2. Len(sent) <= Len(events) /\ \A i \in 1..Len(sent) : sent[i] = events[i]
    BY <2>1 DEF LossInv, PrefixInv
  <2>3. DeliveredInv
    BY DEF LossInv
  <2>4. Range(payload[t].events) \subseteq arrived
    BY <2>1, <2>3 DEF DeliveredInv
  <2>5. QED
    BY <2>2, <2>4
<1>3. \A u \in Thread : pc'[u] = "idle"
  BY DEF TypeInv, TypeOK, LockInv, Trim, Leave
<1>4. PrefixInv' /\ DeliveredInv'
  BY <1>3 DEF PrefixInv, DeliveredInv, Sending
<1>5. ASSUME NEW e \in 1..staged', e \notin arrived', e \notin discarded'
      PROVE  e \in Range(events')
  <2>1. e \in Range(events) /\ e \notin arrived
    BY <1>5 DEF LossInv, NoSilentLoss, Trim, receiverVars
  <2>2. PICK i \in 1..Len(events) : events[i] = e
    BY <1>1, <2>1, RangeOfSeq
  <2>3. ASSUME i <= Len(sent) PROVE FALSE
    <3>1. i \in 1..Len(sent) /\ sent[i] = e
      BY <1>1, <1>2, <2>2, <2>3
    <3>2. e \in Range(sent)
      BY <1>1, <3>1, RangeOfSeq
    <3>3. QED
      BY <1>2, <2>1, <3>2
  <2>4. events[i] \in Range(SubSeq(events, Len(sent) + 1, Len(events)))
    BY <1>1, <1>2, <2>3, TailAfter
  <2>5. QED
    BY <2>2, <2>4 DEF Trim
<1>6. NoSilentLoss'
  BY <1>5 DEF NoSilentLoss
<1>7. QED
  BY <1>4, <1>6 DEF LossInv

LEMMA FlushingLoss ==
    ASSUME TypeInv, LossInv, NEW t \in Thread, Acquire(t) \/ Step(t) \/ Cancel(t)
    PROVE  LossInv'
<1> USE DEF TypeInv, TypeOK, LossInv, DeliveredInv, Sending
<1>1. CASE Acquire(t)
  BY <1>1, QuietStep DEF Acquire, registryVars, receiverVars
<1>2. CASE SkipEmpty(t) \/ Raise(t) \/ Cancel(t)
  <2>1. Leave(t) /\ UNCHANGED <<registryVars, receiverVars>>
    BY <1>2 DEF SkipEmpty, Raise, Cancel
  <2>2. QED
    BY <2>1, QuietStep DEF Leave, registryVars, receiverVars
<1>3. CASE BuildPayload(t)
  <2>1. /\ payload'[t].events = events /\ pc'[t] = "posting" /\ reply'[t] = "none"
        /\ UNCHANGED <<events, staged, discarded, arrived>>
        /\ \A u \in Thread : u # t =>
              pc'[u] = pc[u] /\ payload'[u] = payload[u] /\ reply'[u] = reply[u]
    <3>1. reply[t] = "none" /\ UNCHANGED <<events, staged, discarded, arrived, reply>>
      BY <1>3 DEF BuildPayload, AttemptInv, registryVars, receiverVars
    <3>2. /\ pc' = [pc EXCEPT ![t] = "posting"]
          /\ payload' = [payload EXCEPT ![t] = [events |-> events, gauge |-> gauge]]
      BY <1>3 DEF BuildPayload
    <3>3. QED
      BY <3>1, <3>2
  <2>2. SUFFICES PrefixInv'
    BY <2>1 DEF NoSilentLoss
  <2>3. SUFFICES ASSUME NEW u \in Thread, pc'[u] \in Sending
                 PROVE  /\ Len(payload'[u].events) <= Len(events)
                        /\ \A i \in 1..Len(payload'[u].events) : payload'[u].events[i] = events[i]
    BY <2>1 DEF PrefixInv
  <2>4. CASE u = t
    <3>1. Len(events) \in Nat
      OBVIOUS
    <3>2. QED
      BY <2>1, <2>4, <3>1
  <2>5. CASE u # t
    <3>1. pc[u] \in Sending /\ payload'[u] = payload[u]
      BY <2>1, <2>3, <2>5
    <3>2. QED
      BY <3>1 DEF PrefixInv
  <2>6. QED
    BY <2>4, <2>5
<1>4. CASE Succeed(t)
  BY <1>4, QuietStep DEF Succeed, registryVars, receiverVars
<1>5. CASE Trim(t)
  BY <1>5, TrimLoss
<1>6. CASE Backoff(t)
  BY <1>6, QuietStep DEF Backoff, registryVars, receiverVars
<1>7. CASE Retry(t)
  BY <1>7, QuietStep DEF Retry, registryVars, receiverVars
<1>8. QED
  BY <1>1, <1>2, <1>3, <1>4, <1>5, <1>6, <1>7 DEF Step

LEMMA NetworkLoss ==
    ASSUME TypeInv, LossInv, Network
    PROVE  LossInv'
<1> USE DEF TypeInv, TypeOK, LossInv, DeliveredInv, Sending, registryVars, flushVars
<1>1. ASSUME NEW t \in Thread, NEW r \in {"ok", "down", "cut"}, Receive(t, r)
      PROVE  LossInv'
  <2>1. arrived' = arrived \cup Range(payload[t].events)
    BY <1>1 DEF Receive, Apply
  <2>2. QED
    BY <1>1, <2>1, QuietStep DEF Receive
<1>2. ASSUME NEW t \in Thread, NEW r \in {"down", "rejected", "cut"}, Refuse(t, r)
      PROVE  LossInv'
  BY <1>2, QuietStep DEF Refuse, receiverVars
<1>3. ASSUME NEW t \in Thread, TimeOut(t)
      PROVE  LossInv'
  BY <1>3, QuietStep DEF TimeOut, receiverVars
<1>4. ASSUME NEW p \in late, ArriveLate(p)
      PROVE  LossInv'
  <2>1. arrived \subseteq arrived'
    BY <1>4 DEF ArriveLate, Apply
  <2>2. QED
    BY <1>4, <2>1, QuietStep DEF ArriveLate
<1>5. ASSUME NEW p \in late, LoseLate(p)
      PROVE  LossInv'
  BY <1>5, QuietStep DEF LoseLate, receiverVars
<1>6. QED
  BY <1>1, <1>2, <1>3, <1>4, <1>5 DEF Network

LEMMA InitLoss == Init => LossInv
BY FlushAssumption, ReceiverAssumption DEF Init, ReceiverInit, LossInv, PrefixInv, DeliveredInv, NoSilentLoss, Sending

LEMMA StepLoss == TypeInv /\ LossInv /\ [QuietNext]_vars => LossInv'
<1> SUFFICES ASSUME TypeInv, LossInv, [QuietNext]_vars PROVE LossInv'
  OBVIOUS
<1>1. CASE StageValue
  BY <1>1, QuietStep DEF StageValue, flushVars, receiverVars, LossInv, DeliveredInv
<1>2. CASE UNCHANGED vars
  BY <1>2, QuietStep DEF vars, registryVars, flushVars, receiverVars, LossInv, DeliveredInv
<1>3. QED
  BY <1>1, <1>2, StageEventLoss, ClearLoss, FlushingLoss, NetworkLoss
     DEF QuietNext, Flushing

\* Failed sends, retries, cancelled and abandoned requests, and events staged
\* while a request is in flight lose nothing (_registry.py:376).
THEOREM NothingLost == QuietSpec => []NoSilentLoss
<1>1. [QuietNext]_vars => [Next]_vars
  BY DEF QuietNext, Next
<1>2. LossInv => NoSilentLoss
  BY DEF LossInv
<1>3. QED
  BY <1>1, <1>2, InitTypeInv, StepTypeInv, InitLoss, StepLoss, PTL DEF QuietSpec

------------------------------------------------------------------------------
(* What is shown never gets older, clear() at any moment included. *)

\* Nothing that was sent is newer than the payload t is sending.
NoOlder(t) ==
    payload[t].gauge = 0 \/ /\ shown <= payload[t].gauge
                            /\ \A p \in late : p.gauge <= payload[t].gauge

AgeInv ==
    /\ gauge \in {0, lastGauge}
    /\ shown <= lastGauge
    /\ \A p \in late : p.gauge <= lastGauge
    /\ \A t \in Thread : pc[t] \in Sending => payload[t].gauge <= lastGauge /\ NoOlder(t)

LEMMA Ages ==
    ASSUME TypeInv
    PROVE  /\ gauge \in Nat /\ lastGauge \in Nat /\ shown \in Nat
           /\ \A p \in late : p.gauge \in Nat
           /\ \A t \in Thread : payload[t].gauge \in Nat
BY ReceiverAssumption DEF TypeInv, TypeOK, ReceiverTypeOK, Gauges, Payloads

LEMMA InitAge == Init => AgeInv
BY DEF Init, ReceiverInit, AgeInv, Sending

\* A step that starts no send, applies no payload, and abandons no request but
\* one under way, keeps the ages apart.
LEMMA QuietAge ==
    ASSUME TypeInv, AgeInv, UNCHANGED <<lastGauge, shown>>, gauge' \in {0, lastGauge},
           \A p \in late' : p \in late \/ \E t \in Thread : pc[t] \in Sending /\ p = payload[t],
           \A t \in Thread : pc'[t] \in Sending => pc[t] \in Sending /\ payload'[t] = payload[t]
    PROVE  AgeInv'
<1>1. ASSUME NEW p \in late' PROVE p.gauge <= lastGauge
  BY <1>1 DEF AgeInv
<1>2. ASSUME NEW t \in Thread, pc'[t] \in Sending
      PROVE  payload'[t].gauge <= lastGauge /\ NoOlder(t)'
  <2>1. pc[t] \in Sending /\ payload'[t] = payload[t]
    BY <1>2
  <2>2. ASSUME NEW p \in late', payload[t].gauge # 0 PROVE p.gauge <= payload[t].gauge
    <3>1. CASE p \in late
      BY <2>1, <2>2, <3>1 DEF AgeInv, NoOlder
    <3>2. CASE \E u \in Thread : pc[u] \in Sending /\ p = payload[u]
      <4>1. PICK u \in Thread : pc[u] \in Sending /\ p = payload[u]
        BY <3>2
      <4>2. u = t
        BY <2>1, <4>1 DEF TypeInv, LockInv, Sending
      <4>3. QED
        BY <4>1, <4>2, Ages
    <3>3. QED
      BY <3>1, <3>2
  <2>3. QED
    BY <2>1, <2>2 DEF AgeInv, NoOlder
<1>3. QED
  BY <1>1, <1>2 DEF AgeInv

\* A value staged is newer than all.
LEMMA StageValueAge == TypeInv /\ AgeInv /\ StageValue => AgeInv'
<1> SUFFICES ASSUME TypeInv, AgeInv, StageValue PROVE AgeInv'
  OBVIOUS
<1>1. /\ lastGauge' = lastGauge + 1 /\ gauge' = lastGauge'
      /\ UNCHANGED <<pc, payload, late, shown>>
  BY DEF StageValue, flushVars, receiverVars
<1>2. \A t \in Thread : NoOlder(t) => NoOlder(t)'
  BY <1>1 DEF NoOlder
<1>3. \A n \in Nat : n <= lastGauge => n <= lastGauge'
  BY <1>1, Ages
<1>4. QED
  BY <1>1, <1>2, <1>3, Ages DEF AgeInv

\* A payload takes the newest value there is.
LEMMA BuildAge ==
    ASSUME TypeInv, AgeInv, NEW t \in Thread, BuildPayload(t)
    PROVE  AgeInv'
<1>1. /\ payload'[t].gauge = gauge
      /\ \A u \in Thread : u # t => pc'[u] = pc[u]
      /\ UNCHANGED <<gauge, lastGauge, shown, late>>
  BY DEF BuildPayload, TypeInv, TypeOK, registryVars, receiverVars
<1>2. ASSUME NEW u \in Thread, pc'[u] \in Sending PROVE u = t
  <2>1. pc[t] = "locked"
    BY DEF BuildPayload
  <2>2. QED
    BY <1>1, <1>2, <2>1 DEF TypeInv, LockInv, Sending
<1>3. payload'[t].gauge <= lastGauge' /\ NoOlder(t)'
  BY <1>1, Ages DEF AgeInv, NoOlder
<1>4. QED
  BY <1>1, <1>2, <1>3 DEF AgeInv

\* What arrives in time is as new as anything that was sent.
LEMMA ReceiveAge ==
    ASSUME TypeInv, AgeInv, NEW t \in Thread, NEW r \in {"ok", "down", "cut"}, Receive(t, r)
    PROVE  AgeInv' /\ shown' >= shown
<1>1. pc[t] \in Sending /\ shown' = IF payload[t].gauge = 0 THEN shown ELSE payload[t].gauge
  BY DEF Receive, Waiting, Apply, Sending
<1>2. UNCHANGED <<gauge, lastGauge, pc, payload, late>>
  BY DEF Receive, registryVars, flushVars
<1>3. payload[t].gauge <= lastGauge /\ NoOlder(t)
  BY <1>1 DEF AgeInv
<1>4. shown' >= shown /\ shown' <= lastGauge
  BY <1>1, <1>3, Ages DEF AgeInv, NoOlder
<1>5. NoOlder(t)'
  BY <1>1, <1>2, <1>3, Ages DEF NoOlder
<1>6. ASSUME NEW u \in Thread, pc[u] \in Sending PROVE u = t
  BY <1>1, <1>6 DEF TypeInv, LockInv, Sending
<1>7. QED
  BY <1>2, <1>3, <1>4, <1>5, <1>6 DEF AgeInv

LEMMA LateAge ==
    ASSUME TypeInv, AgeInv, NEW p \in late, ArriveLate(p)
    PROVE  AgeInv' /\ late' # late
<1>1. shown' = IF p.gauge = 0 THEN shown ELSE p.gauge
  BY DEF ArriveLate, Apply
<1>2. late' = late \ {p} /\ UNCHANGED <<gauge, lastGauge, pc, payload>>
  BY DEF ArriveLate, registryVars, flushVars
<1>3. shown' <= lastGauge
  BY <1>1 DEF AgeInv
<1>4. \A t \in Thread : NoOlder(t) => NoOlder(t)'
  BY <1>1, <1>2 DEF NoOlder
<1>5. QED
  BY <1>2, <1>3, <1>4 DEF AgeInv

LEMMA FlushingAge ==
    ASSUME TypeInv, AgeInv, NEW t \in Thread, Acquire(t) \/ Step(t) \/ Cancel(t)
    PROVE  AgeInv' /\ shown' = shown
<1> USE DEF TypeInv, TypeOK, AgeInv, Sending
<1>1. CASE Acquire(t)
  BY <1>1, QuietAge DEF Acquire, registryVars, receiverVars
<1>2. CASE SkipEmpty(t) \/ Raise(t) \/ Trim(t)
  <2>1. Leave(t) /\ UNCHANGED <<gauge, lastGauge, late, receiverVars>>
    BY <1>2 DEF SkipEmpty, Raise, Trim, registryVars
  <2>2. QED
    BY <2>1, QuietAge DEF Leave, receiverVars
<1>3. CASE BuildPayload(t)
  BY <1>3, BuildAge DEF BuildPayload, receiverVars
<1>4. CASE Succeed(t) \/ Backoff(t)
  BY <1>4, QuietAge DEF Succeed, Backoff, registryVars, receiverVars
<1>5. CASE Retry(t)
  BY <1>5, QuietAge DEF Retry, registryVars, receiverVars
<1>6. CASE Cancel(t)
  <2>1. Leave(t) /\ UNCHANGED <<gauge, lastGauge, receiverVars>>
    BY <1>6 DEF Cancel, registryVars
  <2>2. \A p \in late' : p \in late \/ (pc[t] \in Sending /\ p = payload[t])
    BY <1>6 DEF Cancel
  <2>3. QED
    BY <2>1, <2>2, QuietAge DEF Leave, receiverVars
<1>7. QED
  BY <1>1, <1>2, <1>3, <1>4, <1>5, <1>6 DEF Step

LEMMA StepAge ==
    ASSUME TypeInv, AgeInv, [Next]_vars
    PROVE  AgeInv' /\ (shown' < shown => late' # late)
<1>1. ASSUME UNCHANGED shown, AgeInv' PROVE AgeInv' /\ (shown' < shown => late' # late)
  BY <1>1, Ages
<1>2. CASE UNCHANGED vars
  BY <1>1, <1>2, QuietAge DEF AgeInv, vars, registryVars, flushVars, receiverVars
<1>3. CASE StageEvent \/ Clear
  BY <1>1, <1>3, QuietAge DEF AgeInv, StageEvent, Clear, flushVars, receiverVars
<1>4. CASE StageValue
  BY <1>1, <1>4, StageValueAge DEF StageValue, receiverVars
<1>5. CASE Flushing
  BY <1>1, <1>5, FlushingAge DEF Flushing
<1>6. ASSUME NEW t \in Thread, NEW r \in {"ok", "down", "cut"}, Receive(t, r)
      PROVE  AgeInv' /\ (shown' < shown => late' # late)
  <2>1. AgeInv' /\ shown' >= shown /\ lastGauge' = lastGauge
    BY <1>6, ReceiveAge DEF Receive, registryVars
  <2>2. shown' \in Nat
    BY <1>6, Ages DEF Receive, Apply
  <2>3. QED
    BY <2>1, <2>2, Ages
<1>7. ASSUME NEW t \in Thread, NEW r \in {"down", "rejected", "cut"}, Refuse(t, r) \/ TimeOut(t)
      PROVE  AgeInv' /\ (shown' < shown => late' # late)
  BY <1>1, <1>7, QuietAge
     DEF AgeInv, Refuse, TimeOut, Waiting, Sending, registryVars, flushVars, receiverVars
<1>8. ASSUME NEW p \in late, ArriveLate(p)
      PROVE  AgeInv' /\ (shown' < shown => late' # late)
  BY <1>8, LateAge
<1>9. ASSUME NEW p \in late, LoseLate(p)
      PROVE  AgeInv' /\ (shown' < shown => late' # late)
  BY <1>1, <1>9, QuietAge DEF AgeInv, LoseLate, registryVars, flushVars, receiverVars
<1>10. QED
  BY <1>2, <1>3, <1>4, <1>5, <1>6, <1>7, <1>8, <1>9 DEF Next, Network

\* What NetCrunch shows goes back to an older value only when a request that
\* was given up on arrives late: flushes take turns at the lock, and each sends
\* the newest state of its own moment, clear() at any time included
\* (_telemetry.py:61-87, _async.py:52-76).
THEOREM NeverOlder == Spec => ShownNeverRegresses
<1>1. TypeInv /\ AgeInv /\ [Next]_vars => AgeInv'
  BY StepAge
<1>2. TypeInv /\ AgeInv /\ [Next]_vars => [shown' < shown => late' # late]_vars
  BY StepAge
<1>3. QED
  BY <1>1, <1>2, InitTypeInv, StepTypeInv, InitAge, PTL DEF Spec, ShownNeverRegresses

------------------------------------------------------------------------------
(* Flush implements EventOutbox, when clear() is not called under a flush. *)

\* The first n elements of a sequence, as a set.
First(s, n) == {s[i] : i \in 1..n}

\* The events known to the client are the ones that were staged.
KnownInv == Range(events) \cup arrived \cup discarded \subseteq 1..staged

\* An abandoned request carries the oldest events of the queue, those that
\* have left the queue since the request was built apart.
Covers(p, n) ==
    /\ First(events, n) \subseteq Range(p.events)
    /\ Range(p.events) \subseteq First(events, n) \cup arrived \cup discarded

LateInv == \A p \in late : \E n \in 0..Len(events) : Covers(p, n)

OutboxInv == TypeInv /\ LossInv /\ KnownInv /\ LateInv

------------------------------------------------------------------------------
(* Lengths and ranges. *)

LEMMA Lengths ==
    ASSUME TypeInv
    PROVE  /\ events \in Seq(Ids) /\ Len(events) \in Nat /\ staged \in Nat
           /\ Range(events) = First(events, Len(events))
           /\ \A t \in Thread : /\ payload[t].events \in Seq(Ids)
                                /\ Len(payload[t].events) \in Nat
<1>1. events \in Seq(Ids) /\ Len(events) \in Nat /\ staged \in Nat
  BY ReceiverAssumption DEF TypeInv, TypeOK
<1>2. Range(events) = First(events, Len(events))
  BY <1>1, RangeOfSeq DEF First
<1>3. \A t \in Thread : payload[t] \in Payloads
  BY DEF TypeInv, TypeOK
<1>4. QED
  BY <1>1, <1>2, <1>3 DEF Payloads

\* The events of a request under way are the oldest of the queue.
LEMMA UnderWay ==
    ASSUME TypeInv, LossInv, NEW t \in Thread, pc[t] \in Sending
    PROVE  /\ Len(payload[t].events) \in 0..Len(events)
           /\ Range(payload[t].events) = First(events, Len(payload[t].events))
<1> DEFINE sent == payload[t].events
<1>1. sent \in Seq(Ids) /\ Len(sent) \in Nat /\ Len(events) \in Nat
  BY Lengths
<1>2. Len(sent) <= Len(events) /\ \A i \in 1..Len(sent) : sent[i] = events[i]
  BY DEF LossInv, PrefixInv
<1>3. Range(sent) = {sent[i] : i \in 1..Len(sent)}
  BY <1>1, RangeOfSeq
<1>4. QED
  BY <1>1, <1>2, <1>3 DEF First

------------------------------------------------------------------------------
(* The invariant. *)

LEMMA InitOutbox == Init => KnownInv /\ LateInv
BY DEF Init, ReceiverInit, KnownInv, LateInv, Range

\* A step that leaves the queue alone, and abandons no request but one under
\* way, keeps the invariant when nothing unknown arrives.
LEMMA QuietOutbox ==
    ASSUME OutboxInv, UNCHANGED <<events, staged, discarded>>,
           arrived \subseteq arrived', arrived' \subseteq 1..staged,
           \A p \in late' : p \in late \/ \E t \in Thread : pc[t] \in Sending /\ p = payload[t]
    PROVE  KnownInv' /\ LateInv'
<1>1. KnownInv'
  BY DEF OutboxInv, KnownInv
<1>2. ASSUME NEW p \in late'
      PROVE  \E n \in 0..Len(events) : Covers(p, n)
  BY UnderWay DEF OutboxInv, LateInv, Covers
<1>3. ASSUME NEW p \in late', NEW n \in 0..Len(events), Covers(p, n)
      PROVE  Covers(p, n)'
  BY <1>3 DEF Covers, First
<1>4. QED
  BY <1>1, <1>2, <1>3 DEF LateInv

LEMMA StageEventOutbox == OutboxInv /\ StageEvent => KnownInv' /\ LateInv'
<1> SUFFICES ASSUME OutboxInv, StageEvent PROVE KnownInv' /\ LateInv'
  OBVIOUS
<1>1. events \in Seq(Ids) /\ staged + 1 \in Ids /\ staged \in Nat /\ Len(events) \in Nat
  BY Lengths, ReceiverAssumption DEF OutboxInv, TypeInv, TypeOK, StageEvent, Ids
<1>2. Range(events') = Range(events) \cup {staged + 1}
  BY <1>1, RangeOfAppend DEF StageEvent
<1>3. KnownInv'
  BY <1>1, <1>2 DEF OutboxInv, KnownInv, StageEvent, receiverVars
<1>4. /\ Len(events') = Len(events) + 1
      /\ \A n \in 0..Len(events) : First(events', n) = First(events, n)
  BY <1>1 DEF StageEvent, First
<1>5. ASSUME NEW p \in late
      PROVE  \E n \in 0..Len(events') : Covers(p, n)'
  <2>1. PICK n \in 0..Len(events) : Covers(p, n)
    BY DEF OutboxInv, LateInv
  <2>2. n \in 0..Len(events') /\ Covers(p, n)'
    BY <1>1, <1>4, <2>1 DEF Covers, StageEvent, receiverVars
  <2>3. QED
    BY <2>2
<1>6. QED
  BY <1>3, <1>5 DEF LateInv, StageEvent

LEMMA ClearOutbox == OutboxInv /\ Clear => KnownInv' /\ LateInv'
<1> SUFFICES ASSUME OutboxInv, Clear PROVE KnownInv' /\ LateInv'
  OBVIOUS
<1>1. events' = <<>> /\ discarded' = discarded \cup Range(events)
      /\ UNCHANGED <<arrived, staged, late>>
  BY DEF Clear, receiverVars
<1>2. KnownInv'
  BY <1>1 DEF OutboxInv, KnownInv, Range
<1>3. ASSUME NEW p \in late
      PROVE  0 \in 0..Len(events') /\ Covers(p, 0)'
  <2>1. PICK n \in 0..Len(events) : Covers(p, n)
    BY DEF OutboxInv, LateInv
  <2>2. First(events, n) \subseteq Range(events)
    BY Lengths DEF OutboxInv, First
  <2>3. First(events', 0) = {}
    BY DEF First
  <2>4. QED
    BY <1>1, <2>1, <2>2, <2>3 DEF Covers
<1>4. QED
  BY <1>1, <1>2, <1>3 DEF LateInv

\* What Trim does to the queue.
LEMMA Trimmed ==
    ASSUME OutboxInv, NEW t \in Thread, Trim(t)
    PROVE  LET k == Len(payload[t].events) IN
           /\ k \in 0..Len(events)
           /\ First(events, k) \subseteq arrived
           /\ Len(events') = Len(events) - k
           /\ \A i \in 1..(Len(events) - k) : events'[i] = events[k + i]
           /\ events' \in Seq(Ids)
           /\ UNCHANGED <<arrived, discarded, staged, late>>
<1> DEFINE k == Len(payload[t].events)
<1>1. pc[t] = "trimming" /\ pc[t] \in Sending
  BY DEF Trim, Sending
<1>2. k \in 0..Len(events) /\ Range(payload[t].events) = First(events, k)
  BY <1>1, UnderWay DEF OutboxInv
<1>3. Range(payload[t].events) \subseteq arrived
  BY <1>1 DEF OutboxInv, LossInv, DeliveredInv
<1>4. events \in Seq(Ids) /\ Len(events) \in Nat
  BY Lengths DEF OutboxInv
<1>5. events' = SubSeq(events, k + 1, Len(events))
  BY DEF Trim
<1> HIDE DEF k
<1>6. /\ Len(events') = Len(events) - k
      /\ \A i \in 1..(Len(events) - k) : events'[i] = events[k + i]
      /\ events' \in Seq(Ids)
  BY <1>2, <1>4, <1>5
<1>7. UNCHANGED <<arrived, discarded, staged, late>>
  BY DEF Trim, receiverVars
<1>8. QED
  BY <1>2, <1>3, <1>6, <1>7 DEF k

LEMMA TrimOutbox ==
    ASSUME OutboxInv, NEW t \in Thread, Trim(t)
    PROVE  KnownInv' /\ LateInv'
<1> DEFINE k == Len(payload[t].events)
<1>1. /\ k \in 0..Len(events) /\ Len(events) \in Nat
      /\ First(events, k) \subseteq arrived
      /\ Len(events') = Len(events) - k
      /\ \A i \in 1..(Len(events) - k) : events'[i] = events[k + i]
      /\ events' \in Seq(Ids)
      /\ UNCHANGED <<arrived, discarded, staged, late>>
  BY Trimmed, Lengths DEF OutboxInv
<1> HIDE DEF k
<1>2. Range(events') \subseteq Range(events)
  <2>1. Range(events') = {events'[i] : i \in 1..Len(events')}
    BY <1>1, RangeOfSeq
  <2>2. Range(events) = {events[i] : i \in 1..Len(events)}
    BY Lengths, RangeOfSeq DEF OutboxInv
  <2>3. \A i \in 1..(Len(events) - k) : k + i \in 1..Len(events)
    BY <1>1
  <2>4. QED
    BY <1>1, <2>1, <2>2, <2>3
<1>3. KnownInv'
  BY <1>1, <1>2 DEF OutboxInv, KnownInv
<1>4. ASSUME NEW p \in late
      PROVE  \E n \in 0..Len(events') : Covers(p, n)'
  <2>1. PICK n \in 0..Len(events) : Covers(p, n)
    BY DEF OutboxInv, LateInv
  <2>2. CASE n <= k
    <3>1. First(events, n) \subseteq First(events, k)
      BY <1>1, <2>2 DEF First
    <3>2. First(events', 0) = {}
      BY DEF First
    <3>3. 0 \in 0..Len(events') /\ Covers(p, 0)'
      BY <1>1, <2>1, <3>1, <3>2 DEF Covers
    <3>4. QED
      BY <3>3
  <2>3. CASE n > k
    <3>1. PICK m \in 0..Len(events') : m = n - k
      BY <1>1, <2>3
    <3>2. First(events', n - k) \subseteq First(events, n)
      <4>1. \A i \in 1..(n - k) : k + i \in 1..n /\ i \in 1..(Len(events) - k)
        BY <1>1, <2>3
      <4>2. QED
        BY <1>1, <4>1 DEF First
    <3>3. First(events, n) \subseteq First(events, k) \cup First(events', n - k)
      <4>1. ASSUME NEW i \in 1..n, i > k
            PROVE  events[i] \in First(events', n - k)
        <5>1. i - k \in 1..(n - k) /\ i - k \in 1..(Len(events) - k) /\ k + (i - k) = i
          BY <1>1, <2>3, <4>1
        <5>2. QED
          BY <1>1, <5>1 DEF First
      <4>2. ASSUME NEW i \in 1..n, ~(i > k)
            PROVE  events[i] \in First(events, k)
        <5>1. i \in 1..k
          BY <1>1, <4>2
        <5>2. QED
          BY <5>1 DEF First
      <4>3. QED
        BY <4>1, <4>2 DEF First
    <3>4. Covers(p, m)'
      BY <1>1, <2>1, <3>1, <3>2, <3>3 DEF Covers
    <3>5. QED
      BY <3>4
  <2>4. QED
    BY <1>1, <2>2, <2>3
<1>5. QED
  BY <1>1, <1>3, <1>4 DEF LateInv

LEMMA FlushingOutbox ==
    ASSUME OutboxInv, NEW t \in Thread, Acquire(t) \/ Step(t) \/ Cancel(t)
    PROVE  KnownInv' /\ LateInv'
<1>1. arrived \subseteq 1..staged
  BY DEF OutboxInv, KnownInv
<1>2. CASE Trim(t)
  BY <1>2, TrimOutbox
<1>3. CASE Cancel(t)
  BY <1>1, <1>3, QuietOutbox DEF Cancel, registryVars, receiverVars, Sending
<1>4. CASE Acquire(t) \/ (Step(t) /\ ~Trim(t))
  BY <1>1, <1>4, QuietOutbox
     DEF Acquire, Step, SkipEmpty, BuildPayload, Succeed, Raise, Backoff, Retry,
         registryVars, receiverVars
<1>5. QED
  BY <1>2, <1>3, <1>4

LEMMA NetworkOutbox ==
    ASSUME OutboxInv, Network
    PROVE  KnownInv' /\ LateInv'
<1> USE DEF registryVars, flushVars
<1>1. arrived \subseteq 1..staged /\ Range(events) \subseteq 1..staged /\ discarded \subseteq 1..staged
  BY DEF OutboxInv, KnownInv
<1>2. \A n \in 0..Len(events) : First(events, n) \subseteq Range(events)
  BY Lengths DEF OutboxInv, First
<1>3. ASSUME NEW t \in Thread, NEW r \in {"ok", "down", "cut"}, Receive(t, r)
      PROVE  KnownInv' /\ LateInv'
  <2>1. pc[t] \in Sending /\ arrived' = arrived \cup Range(payload[t].events)
    BY <1>3 DEF Receive, Apply, Waiting, Sending
  <2>2. Range(payload[t].events) \subseteq Range(events)
    BY <1>2, <2>1, UnderWay DEF OutboxInv
  <2>3. QED
    BY <1>1, <1>3, <2>1, <2>2, QuietOutbox DEF Receive
<1>4. ASSUME NEW t \in Thread, NEW r \in {"down", "rejected", "cut"}, Refuse(t, r)
      PROVE  KnownInv' /\ LateInv'
  BY <1>1, <1>4, QuietOutbox DEF Refuse, receiverVars
<1>5. ASSUME NEW t \in Thread, TimeOut(t)
      PROVE  KnownInv' /\ LateInv'
  BY <1>1, <1>5, QuietOutbox DEF TimeOut, Waiting, Sending, receiverVars
<1>6. ASSUME NEW p \in late, ArriveLate(p)
      PROVE  KnownInv' /\ LateInv'
  <2>1. PICK n \in 0..Len(events) : Covers(p, n)
    BY DEF OutboxInv, LateInv
  <2>2. arrived' = arrived \cup Range(p.events)
    BY <1>6 DEF ArriveLate, Apply
  <2>3. arrived' \subseteq 1..staged
    BY <1>1, <1>2, <2>1, <2>2 DEF Covers
  <2>4. QED
    BY <1>6, <2>2, <2>3, QuietOutbox DEF ArriveLate
<1>7. ASSUME NEW p \in late, LoseLate(p)
      PROVE  KnownInv' /\ LateInv'
  BY <1>1, <1>7, QuietOutbox DEF LoseLate, receiverVars
<1>8. QED
  BY <1>3, <1>4, <1>5, <1>6, <1>7 DEF Network

LEMMA StepOutbox == OutboxInv /\ [QuietNext]_vars => OutboxInv'
<1> SUFFICES ASSUME OutboxInv, [QuietNext]_vars PROVE OutboxInv'
  OBVIOUS
<1>1. arrived \subseteq 1..staged
  BY DEF OutboxInv, KnownInv
<1>2. TypeInv' /\ LossInv'
  BY StepTypeInv, StepLoss DEF OutboxInv, QuietNext, Next
<1>3. ASSUME StageValue PROVE KnownInv' /\ LateInv'
  BY <1>1, <1>3, QuietOutbox DEF StageValue, receiverVars
<1>4. ASSUME UNCHANGED vars PROVE KnownInv' /\ LateInv'
  BY <1>1, <1>4, QuietOutbox DEF vars, registryVars, receiverVars
<1>5. KnownInv' /\ LateInv'
  BY <1>3, <1>4, StageEventOutbox, ClearOutbox, FlushingOutbox, NetworkOutbox
     DEF QuietNext, Flushing
<1>6. QED
  BY <1>2, <1>5 DEF OutboxInv

------------------------------------------------------------------------------
(* Every step of the client is a step of the outbox, or none. *)

LEMMA ArriveStep ==
    ASSUME NEW n \in 0..Len(events), NEW p, Covers(p, n),
           arrived' = arrived \cup Range(p.events), UNCHANGED <<events, discarded>>
    PROVE  Outbox!Next
<1> DEFINE again == Range(p.events) \cap (arrived \cup discarded)
<1>1. arrived' = arrived \cup First(events, n) \cup again
  BY DEF Covers
<1>2. Outbox!Arrive(n, again)
  BY <1>1 DEF Outbox!Arrive, Outbox!Oldest, First
<1>3. again \in SUBSET (arrived \cup discarded)
  OBVIOUS
<1>4. QED
  BY <1>2, <1>3 DEF Outbox!Next

LEMMA StageStep == OutboxInv /\ StageEvent => Outbox!Next
<1> SUFFICES ASSUME OutboxInv, StageEvent PROVE Outbox!Next
  OBVIOUS
<1>1. staged + 1 \in Ids /\ staged \in Nat
  BY ReceiverAssumption DEF OutboxInv, TypeInv, TypeOK, StageEvent, Ids
<1>2. staged + 1 \notin Range(events) \cup arrived \cup discarded
  BY <1>1 DEF OutboxInv, KnownInv
<1>3. Outbox!Stage(staged + 1)
  BY <1>2 DEF Outbox!Stage, StageEvent, Range, Outbox!Range, receiverVars
<1>4. QED
  BY <1>1, <1>3 DEF Outbox!Next

LEMMA ClearStep == Clear => Outbox!Next
BY DEF Clear, Outbox!Next, Outbox!Discard, Range, Outbox!Range, receiverVars

LEMMA TrimStep ==
    ASSUME OutboxInv, NEW t \in Thread, Trim(t)
    PROVE  [Outbox!Next]_(Outbox!outboxVars)
<1> DEFINE k == Len(payload[t].events)
<1>1. /\ k \in 0..Len(events) /\ Len(events) \in Nat /\ events \in Seq(Ids)
      /\ First(events, k) \subseteq arrived
      /\ events' = SubSeq(events, k + 1, Len(events))
      /\ UNCHANGED <<arrived, discarded>>
  BY Trimmed, Lengths DEF OutboxInv, Trim
<1> HIDE DEF k
<1>2. CASE k = 0
  <2>1. events' = events
    BY <1>1, <1>2
  <2>2. QED
    BY <1>1, <2>1 DEF Outbox!outboxVars
<1>3. CASE k # 0
  <2>1. Outbox!Confirm(k)
    BY <1>1 DEF Outbox!Confirm, Outbox!Oldest, First
  <2>2. k \in 1..Len(events)
    BY <1>1, <1>3
  <2>3. QED
    BY <2>1, <2>2 DEF Outbox!Next
<1>4. QED
  BY <1>2, <1>3

LEMMA NetworkStep ==
    ASSUME OutboxInv, Network
    PROVE  [Outbox!Next]_(Outbox!outboxVars)
<1>1. ASSUME NEW t \in Thread, NEW r \in {"ok", "down", "cut"}, Receive(t, r)
      PROVE  Outbox!Next
  <2>1. pc[t] \in Sending /\ arrived' = arrived \cup Range(payload[t].events)
    BY <1>1 DEF Receive, Apply, Waiting, Sending
  <2>2. /\ Len(payload[t].events) \in 0..Len(events)
        /\ Covers(payload[t], Len(payload[t].events))
    BY <2>1, UnderWay DEF OutboxInv, Covers
  <2>3. QED
    BY <1>1, <2>1, <2>2, ArriveStep DEF Receive, registryVars
<1>2. ASSUME NEW p \in late, ArriveLate(p)
      PROVE  Outbox!Next
  <2>1. PICK n \in 0..Len(events) : Covers(p, n)
    BY DEF OutboxInv, LateInv
  <2>2. QED
    BY <1>2, <2>1, ArriveStep DEF ArriveLate, Apply, registryVars
<1>3. ASSUME \/ \E t \in Thread : TimeOut(t) \/ \E r \in {"down", "rejected", "cut"} : Refuse(t, r)
             \/ \E p \in late : LoseLate(p)
      PROVE  UNCHANGED Outbox!outboxVars
  BY <1>3 DEF TimeOut, Refuse, LoseLate, registryVars, receiverVars, Outbox!outboxVars
<1>4. QED
  BY <1>1, <1>2, <1>3 DEF Network

LEMMA FlushingStep ==
    ASSUME OutboxInv, NEW t \in Thread, Acquire(t) \/ Step(t) \/ Cancel(t)
    PROVE  [Outbox!Next]_(Outbox!outboxVars)
<1>1. CASE Trim(t)
  BY <1>1, TrimStep
<1>2. CASE Acquire(t) \/ Cancel(t) \/ (Step(t) /\ ~Trim(t))
  BY <1>2 DEF Acquire, Cancel, Step, SkipEmpty, BuildPayload, Succeed, Raise, Backoff, Retry,
              registryVars, receiverVars, Outbox!outboxVars
<1>3. QED
  BY <1>1, <1>2

\* Every step is one of EventOutbox, or changes nothing it knows of.
LEMMA OutboxStep == OutboxInv /\ [QuietNext]_vars => [Outbox!Next]_(Outbox!outboxVars)
<1>1. ASSUME UNCHANGED vars \/ StageValue PROVE UNCHANGED Outbox!outboxVars
  BY <1>1 DEF vars, registryVars, receiverVars, StageValue, Outbox!outboxVars
<1>2. QED
  BY <1>1, StageStep, ClearStep, FlushingStep, NetworkStep DEF QuietNext, Flushing

\* The client keeps the promise of EventOutbox: staged events wait in order,
\* leave the queue only once the receiver has had them, and are never sent
\* behind newer ones, through retries, failures, cancellation and late arrivals
\* (_registry.py:376-380, _telemetry.py:71-87).
THEOREM ImplementsOutbox == QuietSpec => OutboxSpec
<1>1. Init => Outbox!Init
  BY DEF Init, ReceiverInit, Outbox!Init
<1>2. Init => OutboxInv
  BY InitTypeInv, InitLoss, InitOutbox DEF OutboxInv
<1>3. QED
  BY <1>1, <1>2, OutboxStep, StepOutbox, PTL DEF QuietSpec, OutboxSpec, Outbox!Spec

------------------------------------------------------------------------------
(* Order of arrival. *)

\* The events the receiver has had, or clear() dropped.
Gone == arrived \cup discarded

\* The queue is the newest events staged, in order; all older ones are gone,
\* and none is gone before those staged ahead of it.
OrderInv ==
    /\ Len(events) <= staged
    /\ \A i \in 1..Len(events) : events[i] = (staged - Len(events)) + i
    /\ 1..(staged - Len(events)) \subseteq Gone
    /\ \A e \in Gone : 1..e \subseteq Gone

\* Every event ever staged is queued or gone, and the receiver has had none
\* ahead of one that was staged before it and is still queued.
ArrivesInOrder ==
    /\ 1..staged \subseteq Range(events) \cup arrived \cup discarded
    /\ \A e \in arrived : 1..e \subseteq arrived \cup discarded

\* The oldest n of the queue follow what is gone.
LEMMA OldestFollow ==
    ASSUME TypeInv, OrderInv, NEW n \in 0..Len(events)
    PROVE  /\ 1..((staged - Len(events)) + n) \subseteq Gone \cup First(events, n)
           /\ \A e \in Gone \cup First(events, n) : 1..e \subseteq Gone \cup First(events, n)
<1> DEFINE base == staged - Len(events)
<1>1. /\ base \in Nat /\ Len(events) \in Nat /\ 1..base \subseteq Gone
      /\ \A i \in 1..Len(events) : events[i] = base + i
  BY Lengths DEF OrderInv
<1> HIDE DEF base
<1>2. ASSUME NEW m \in 0..n, NEW x \in 1..(base + m)
      PROVE  x \in Gone \cup First(events, n)
  <2>1. CASE x <= base
    BY <1>1, <2>1
  <2>2. CASE x > base
    <3>1. x - base \in 1..n /\ x - base \in 1..Len(events) /\ base + (x - base) = x
      BY <1>1, <1>2, <2>2
    <3>2. QED
      BY <1>1, <3>1 DEF First
  <2>3. QED
    BY <1>1, <2>1, <2>2
<1>3. ASSUME NEW e \in First(events, n)
      PROVE  1..e \subseteq Gone \cup First(events, n)
  <2>1. PICK i \in 1..n : e = events[i]
    BY <1>3 DEF First
  <2>2. e = base + i /\ i \in 0..n
    BY <1>1, <2>1
  <2>3. QED
    BY <1>2, <2>2
<1>4. 1..(base + n) \subseteq Gone \cup First(events, n)
  BY <1>2
<1>5. QED
  BY <1>3, <1>4 DEF base, OrderInv

\* So they are 1..staged together with the queue.
LEMMA OrderMeans ==
    ASSUME OutboxInv, OrderInv
    PROVE  ArrivesInOrder
<1>1. Len(events) \in Nat /\ staged \in Nat /\ Range(events) = First(events, Len(events))
  BY Lengths DEF OutboxInv
<1>2. 1..((staged - Len(events)) + Len(events)) \subseteq Gone \cup First(events, Len(events))
  BY <1>1, OldestFollow DEF OutboxInv
<1>3. (staged - Len(events)) + Len(events) = staged
  BY <1>1
<1>4. QED
  BY <1>1, <1>2, <1>3 DEF ArrivesInOrder, OrderInv, Gone

\* A new event goes behind the others.
LEMMA StageOrder == OutboxInv /\ OrderInv /\ StageEvent => OrderInv'
<1> SUFFICES ASSUME OutboxInv, OrderInv, StageEvent PROVE OrderInv'
  OBVIOUS
<1>1. events \in Seq(Ids) /\ staged \in Nat /\ Len(events) \in Nat
  BY Lengths DEF OutboxInv
<1>2. events' = Append(events, staged + 1) /\ staged' = staged + 1 /\ Gone' = Gone
  BY DEF StageEvent, Gone, receiverVars
<1>3. /\ Len(events') = Len(events) + 1 /\ events'[Len(events) + 1] = staged + 1
      /\ \A i \in 1..Len(events) : events'[i] = events[i]
  BY <1>1, <1>2
<1>4. staged' - Len(events') = staged - Len(events)
  BY <1>1, <1>2, <1>3
<1>5. ASSUME NEW i \in 1..Len(events')
      PROVE  events'[i] = (staged - Len(events)) + i
  <2>1. CASE i = Len(events) + 1
    BY <1>1, <1>3, <2>1
  <2>2. CASE i # Len(events) + 1
    <3>1. i \in 1..Len(events)
      BY <1>1, <1>3, <2>2
    <3>2. QED
      BY <1>3, <3>1 DEF OrderInv
  <2>3. QED
    BY <2>1, <2>2
<1>6. Len(events') <= staged'
  BY <1>1, <1>2, <1>3 DEF OrderInv
<1>7. QED
  BY <1>2, <1>4, <1>5, <1>6 DEF OrderInv

\* What leaves the queue is gone already.
LEMMA ConfirmOrder ==
    ASSUME OutboxInv, OrderInv, NEW k \in 0..Len(events), First(events, k) \subseteq Gone,
           Len(events') = Len(events) - k,
           \A i \in 1..(Len(events) - k) : events'[i] = events[k + i],
           Gone' = Gone, staged' = staged
    PROVE  OrderInv'
<1>1. events \in Seq(Ids) /\ staged \in Nat /\ Len(events) \in Nat
  BY Lengths DEF OutboxInv
<1>2. staged - Len(events') = (staged - Len(events)) + k
  BY <1>1
<1>3. 1..((staged - Len(events)) + k) \subseteq Gone
  BY OldestFollow DEF OutboxInv
<1>4. ASSUME NEW i \in 1..(Len(events) - k)
      PROVE  events'[i] = (staged - Len(events')) + i
  <2>1. k + i \in 1..Len(events)
    BY <1>1
  <2>2. events'[i] = (staged - Len(events)) + (k + i)
    BY <2>1 DEF OrderInv
  <2>3. QED
    BY <1>1, <2>2
<1>5. Len(events') <= staged
  BY <1>1 DEF OrderInv
<1>6. QED
  BY <1>2, <1>3, <1>4, <1>5 DEF OrderInv

\* A step of the outbox that stages nothing keeps the order: a payload brings
\* the oldest of the queue, or what was gone before.
LEMMA OutboxOrder ==
    ASSUME OutboxInv, KnownInv', OrderInv, [Outbox!Next]_(Outbox!outboxVars), staged' = staged
    PROVE  OrderInv'
<1>1. events \in Seq(Ids) /\ staged \in Nat /\ Len(events) \in Nat
      /\ Range(events) = First(events, Len(events))
  BY Lengths DEF OutboxInv
<1>2. ASSUME NEW e \in Ids, Outbox!Stage(e) PROVE FALSE
  <2>1. e \notin Range(events) \cup arrived \cup discarded /\ events' = Append(events, e)
    BY <1>2 DEF Outbox!Stage, Outbox!Range, Range
  <2>2. e \in Range(events')
    BY <1>1, <2>1, RangeOfAppend
  <2>3. e \in 1..staged
    BY <2>2 DEF KnownInv
  <2>4. QED
    BY <2>1, <2>3, OrderMeans DEF ArrivesInOrder
<1>3. ASSUME NEW n \in 0..Len(events), NEW again \in SUBSET (arrived \cup discarded),
             Outbox!Arrive(n, again)
      PROVE  OrderInv'
  <2>1. Gone' = Gone \cup First(events, n) /\ UNCHANGED <<events, staged>>
    BY <1>3 DEF Outbox!Arrive, Outbox!Oldest, First, Gone
  <2>2. QED
    BY <2>1, OldestFollow DEF OutboxInv, OrderInv
<1>4. ASSUME NEW n \in 1..Len(events), Outbox!Confirm(n)
      PROVE  OrderInv'
  <2>1. /\ First(events, n) \subseteq Gone /\ events' = SubSeq(events, n + 1, Len(events))
        /\ Gone' = Gone /\ n \in 0..Len(events)
    BY <1>4 DEF Outbox!Confirm, Outbox!Oldest, First, Gone
  <2>2. /\ Len(events') = Len(events) - n
        /\ \A i \in 1..(Len(events) - n) : events'[i] = events[n + i]
    BY <1>1, <2>1
  <2>3. QED
    BY <2>1, <2>2, ConfirmOrder
<1>5. CASE Outbox!Discard
  <2>1. events' = <<>> /\ Gone' = Gone \cup First(events, Len(events))
    BY <1>1, <1>5 DEF Outbox!Discard, Outbox!Range, Range, Gone
  <2>2. Len(events') = 0 /\ Len(events) \in 0..Len(events)
        /\ staged - 0 = (staged - Len(events)) + Len(events)
    BY <1>1, <2>1
  <2>3. QED
    BY <1>1, <2>1, <2>2, OldestFollow DEF OutboxInv, OrderInv
<1>6. CASE UNCHANGED Outbox!outboxVars
  BY <1>6 DEF Outbox!outboxVars, OrderInv, Gone
<1>7. QED
  BY <1>2, <1>3, <1>4, <1>5, <1>6 DEF Outbox!Next

LEMMA StepOrder == OutboxInv /\ OrderInv /\ [QuietNext]_vars => OrderInv'
<1> SUFFICES ASSUME OutboxInv, OrderInv, [QuietNext]_vars PROVE OrderInv'
  OBVIOUS
<1>1. CASE StageEvent
  BY <1>1, StageOrder
<1>2. CASE ~StageEvent
  <2>1. staged' = staged
    BY <1>2 DEF QuietNext, StageValue, Clear, Flushing, Acquire, Step, SkipEmpty, BuildPayload,
                Succeed, Trim, Raise, Backoff, Retry, Cancel, Network, Receive, Refuse, TimeOut,
                ArriveLate, LoseLate, vars, registryVars
  <2>2. KnownInv'
    BY StepOutbox DEF OutboxInv
  <2>3. QED
    BY <2>1, <2>2, OutboxStep, OutboxOrder
<1>3. QED
  BY <1>1, <1>2

\* Events reach NetCrunch in the order they were staged: whatever it has had,
\* it has had all that was staged before, unless clear() dropped it; and none
\* is lost.  Failures, retries and late arrivals change nothing of it
\* (_registry.py:327, _registry.py:376-380).
THEOREM ArriveInOrder == QuietSpec => []ArrivesInOrder
<1>1. Init => OutboxInv /\ OrderInv
  BY InitTypeInv, InitLoss, InitOutbox, FlushAssumption, ReceiverAssumption
     DEF Init, ReceiverInit, OutboxInv, OrderInv, Gone
<1>2. QED
  BY <1>1, StepOutbox, StepOrder, OrderMeans, PTL DEF QuietSpec
==============================================================================
