------------------------------ MODULE JsProofs ------------------------------
(***************************************************************************)
(* Proofs about JsClient, for every set of callers, retry limit and bound: *)
(* its types, with one request in flight at a time, that a flush() that    *)
(* resolved has sent what it undertook to, that events arrive in order and *)
(* what is shown never gets older, and that the client implements          *)
(* EventOutbox.                                                            *)
(***************************************************************************)
EXTENDS JsClient, TLAPS

\* #inFlight is set from the first await of a request to its outcome, and only
\* meanwhile somebody shares it.
FlightInv ==
    /\ \A c \in Flusher : pc[c] \in Sending <=> inFlight = c
    /\ \A c \in Flusher : pc[c] = "sharing" => inFlight # None

\* A request waits only when another attempt is left.
AttemptInv == \A c \in Flusher : pc[c] = "backoff" => attempt[c] <= MaxRetries

TypeInv == TypeOK /\ FlightInv /\ AttemptInv

\* The events of the payload under way are the oldest of the queue.
PrefixInv ==
    \A c \in Flusher : pc[c] \in Sending =>
        /\ Len(payload[c].events) <= Len(events)
        /\ \A i \in 1..Len(payload[c].events) : payload[c].events[i] = events[i]

\* After a 2xx the receiver has them.
DeliveredInv ==
    \A c \in Flusher : pc[c] = "answered" /\ reply[c] = "ok" =>
        Range(payload[c].events) \subseteq arrived

\* What a request owes is in its payload, has arrived or was discarded; nobody
\* else owes anything, a close() that shares or has shared a request apart.
OwedInv ==
    \A c \in Flusher :
        /\ pc[c] \in Sending =>
              unmet[c] \subseteq Range(payload[c].events) \cup arrived \cup discarded
        /\ pc[c] \notin Sending /\ kind[c] # "close" => unmet[c] = {}

QuietInv == PrefixInv /\ DeliveredInv /\ OwedInv

------------------------------------------------------------------------------
(* Sequences. *)

LEMMA RangeOfSeq ==
    ASSUME NEW S, NEW s \in Seq(S)
    PROVE  Range(s) = {s[i] : i \in 1..Len(s)} /\ Range(s) \subseteq S
BY DEF Range

LEMMA AppendKeeps ==
    ASSUME NEW S, NEW s \in Seq(S), NEW e \in S
    PROVE  /\ Append(s, e) \in Seq(S) /\ Len(Append(s, e)) = Len(s) + 1
           /\ \A i \in 1..Len(s) : Append(s, e)[i] = s[i]
           /\ Range(Append(s, e)) = Range(s) \cup {e}
<1>1. /\ Append(s, e) \in Seq(S) /\ Len(Append(s, e)) = Len(s) + 1
      /\ \A i \in 1..Len(s) : Append(s, e)[i] = s[i]
  OBVIOUS
<1>2. Append(s, e)[Len(s) + 1] = e
  OBVIOUS
<1>3. /\ Range(Append(s, e)) = {Append(s, e)[i] : i \in 1..(Len(s) + 1)}
      /\ Range(s) = {s[i] : i \in 1..Len(s)}
  BY <1>1, RangeOfSeq
<1>4. Range(s) \cup {e} \subseteq Range(Append(s, e))
  BY <1>1, <1>2, <1>3
<1>5. Range(Append(s, e)) \subseteq Range(s) \cup {e}
  BY <1>1, <1>2, <1>3
<1>6. QED
  BY <1>1, <1>4, <1>5

------------------------------------------------------------------------------
(* Types, #inFlight and the attempts. *)

LEMMA InitTypeInv == Init => TypeInv
<1> SUFFICES ASSUME Init PROVE TypeInv
  OBVIOUS
<1>1. Unsent \in Payloads /\ 0 \in Gauges
  BY ReceiverAssumption DEF Unsent, Payloads, Gauges
<1>2. TypeOK
  <2>1. timerOn \in BOOLEAN /\ deaf \in [Flusher -> BOOLEAN]
    BY Zenon DEF Init
  <2>2. /\ kind \in [Flusher -> {"flush", "tick", "close"}]
        /\ pc \in [Flusher -> {"idle", "sharing", "fetching", "answered", "backoff"}]
        /\ reply \in [Flusher -> {"none", "ok", "busy", "rejected"}]
    BY DEF Init
  <2>3. unmet \in [Flusher -> SUBSET Ids] /\ attempt \in [Flusher -> 0..(MaxRetries + 1)]
    BY JsAssumption DEF Init
  <2>4. /\ discarded \subseteq Ids /\ gauge \in Gauges /\ lastGauge \in Gauges
        /\ events \in Seq(Ids) /\ staged \in 0..MaxEvents
    BY <1>1, ReceiverAssumption DEF Init
  <2>5. /\ inFlight \in Flusher \cup {None} /\ late \subseteq Payloads
        /\ payload \in [Flusher -> Payloads]
    BY <1>1 DEF Init
  <2>6. ReceiverTypeOK
    BY <1>1 DEF Init, ReceiverInit, ReceiverTypeOK
  <2>7. QED
    BY <2>1, <2>2, <2>3, <2>4, <2>5, <2>6 DEF TypeOK
<1>3. FlightInv /\ AttemptInv
  BY JsAssumption DEF Init, FlightInv, AttemptInv, Sending, Flusher
<1>4. QED
  BY <1>2, <1>3 DEF TypeInv

LEMMA ApplyTypes ==
    ASSUME TypeOK, NEW p \in Payloads, Apply(p)
    PROVE  /\ arrived' \subseteq Ids /\ shown' \in Gauges
           /\ arrived' = arrived \cup Range(p.events)
<1>1. p.events \in Seq(Ids) /\ p.gauge \in Gauges
  BY DEF Payloads
<1>2. Range(p.events) \subseteq Ids
  BY <1>1, RangeOfSeq
<1>3. QED
  BY <1>1, <1>2 DEF Apply, TypeOK, ReceiverTypeOK

\* When the request in flight is settled, nobody is inside flush() any more.
LEMMA AllIdle ==
    ASSUME TypeInv, NEW c \in Flusher, pc[c] \in Sending, NEW ok, Settle(c, ok)
    PROVE  \A u \in Flusher : pc'[u] = "idle"
<1>1. \A u \in Flusher : u \notin Awaiting(c) => pc[u] = "idle"
  BY DEF TypeInv, TypeOK, FlightInv, Sending, Awaiting
<1>2. QED
  BY <1>1 DEF Settle

LEMMA SettleTypeInv ==
    ASSUME TypeInv, NEW c \in Flusher, pc[c] \in Sending, NEW ok \in BOOLEAN, Settle(c, ok),
           events' \in Seq(Ids), late' \subseteq Payloads,
           arrived' \subseteq Ids, shown' \in Gauges,
           UNCHANGED <<gauge, staged, lastGauge, discarded, timerOn, kind>>
    PROVE  TypeInv'
<1>1. Unsent \in Payloads /\ 0 \in 0..(MaxRetries + 1)
  BY ReceiverAssumption, JsAssumption DEF Unsent, Payloads, Gauges
<1>2. \A u \in Flusher : pc'[u] = "idle"
  BY AllIdle
<1>3. unmet' \in [Flusher -> SUBSET Ids]
  BY DEF TypeInv, TypeOK, Settle
<1>4. TypeOK'
  BY <1>1, <1>3 DEF TypeInv, TypeOK, ReceiverTypeOK, Settle, Reset
<1>5. FlightInv' /\ AttemptInv'
  BY <1>2, JsAssumption DEF FlightInv, AttemptInv, Settle, Reset, Sending, Flusher
<1>6. QED
  BY <1>4, <1>5 DEF TypeInv

\* A request that goes on keeps the three.
LEMMA MoveTypeInv ==
    ASSUME TypeInv, NEW c \in Flusher, pc[c] \in Sending,
           NEW p \in Sending, NEW n \in 0..(MaxRetries + 1), p = "backoff" => n <= MaxRetries,
           NEW r \in {"none", "ok", "busy", "rejected"},
           pc' = [pc EXCEPT ![c] = p],
           attempt' = [attempt EXCEPT ![c] = n],
           reply' = [reply EXCEPT ![c] = r],
           UNCHANGED <<registryVars, timerOn, kind, inFlight, unmet, payload, deaf>>,
           late' \subseteq Payloads, arrived' \subseteq Ids, shown' \in Gauges
    PROVE  TypeInv'
<1> USE DEF TypeInv, TypeOK, Sending, registryVars
<1>1. TypeOK'
  BY DEF ReceiverTypeOK
<1>2. FlightInv'
  BY DEF FlightInv
<1>3. AttemptInv'
  BY DEF AttemptInv
<1>4. QED
  BY <1>1, <1>2, <1>3

LEMMA FailedTypeInv ==
    ASSUME TypeInv, NEW c \in Flusher, pc[c] \in Sending, FetchFailed(c),
           UNCHANGED <<registryVars, timerOn, kind>>,
           late' \subseteq Payloads, arrived' \subseteq Ids, shown' \in Gauges
    PROVE  TypeInv'
<1>1. CASE attempt[c] > MaxRetries
  BY <1>1, SettleTypeInv DEF FetchFailed, TypeInv, TypeOK, registryVars
<1>2. CASE ~(attempt[c] > MaxRetries)
  <2>1. attempt[c] \in 0..(MaxRetries + 1) /\ attempt[c] <= MaxRetries
    BY <1>2, JsAssumption DEF TypeInv, TypeOK
  <2>2. attempt' = [attempt EXCEPT ![c] = attempt[c]]
    BY <1>2 DEF FetchFailed, EnterBackoff, TypeInv, TypeOK
  <2>3. "backoff" \in Sending
    BY DEF Sending
  <2>4. QED
    BY <1>2, <2>1, <2>2, <2>3, MoveTypeInv DEF FetchFailed, EnterBackoff
<1>3. QED
  BY <1>1, <1>2

LEMMA AnswerTypeInv ==
    ASSUME TypeInv, NEW c \in Flusher, pc[c] \in Sending,
           NEW r \in {"none", "ok", "busy", "rejected"}, Answer(c, r),
           UNCHANGED <<registryVars, timerOn, kind>>,
           late' \subseteq Payloads, arrived' \subseteq Ids, shown' \in Gauges
    PROVE  TypeInv'
<1>1. attempt[c] \in 0..(MaxRetries + 1) /\ attempt' = [attempt EXCEPT ![c] = attempt[c]]
  BY DEF TypeInv, TypeOK, Answer
<1>2. "answered" \in Sending
  BY DEF Sending
<1>3. QED
  BY <1>1, <1>2, MoveTypeInv DEF Answer

LEMMA StagingTypeInv ==
    ASSUME TypeInv, StageEvent \/ StageValue \/ Clear \/ Start \/ Stop
    PROVE  TypeInv'
<1> USE DEF TypeInv, FlightInv, AttemptInv, sendVars, receiverVars
<1>1. CASE StageEvent
  <2>1. staged + 1 \in Ids /\ staged + 1 \in 0..MaxEvents
    BY <1>1, ReceiverAssumption DEF TypeOK, StageEvent, Ids
  <2>2. QED
    BY <1>1, <2>1 DEF TypeOK, ReceiverTypeOK, StageEvent
<1>2. CASE StageValue
  <2>1. lastGauge + 1 \in Gauges
    BY <1>2, ReceiverAssumption DEF TypeOK, StageValue, Gauges
  <2>2. QED
    BY <1>2, <2>1 DEF TypeOK, ReceiverTypeOK, StageValue
<1>3. CASE Clear
  <2>1. Range(events) \subseteq Ids /\ 0 \in Gauges /\ <<>> \in Seq(Ids)
    BY RangeOfSeq, ReceiverAssumption DEF TypeOK, Gauges
  <2>2. QED
    BY <1>3, <2>1 DEF TypeOK, ReceiverTypeOK, Clear
<1>4. CASE Start \/ Stop
  BY <1>4 DEF TypeOK, ReceiverTypeOK, Start, Stop, registryVars
<1>5. QED
  BY <1>1, <1>2, <1>3, <1>4

LEMMA FlushTypeInv ==
    ASSUME TypeInv, NEW c \in Flusher, NEW k \in {"flush", "tick", "close"}, Flush(c, k),
           timerOn' \in BOOLEAN
    PROVE  TypeInv'
<1> USE DEF TypeInv, TypeOK, ReceiverTypeOK, Flush, registryVars, receiverVars
<1>1. Range(events) \subseteq Ids
  BY RangeOfSeq
<1>2. CASE ReturnEmpty(c)
  BY <1>2 DEF ReturnEmpty, FlightInv, AttemptInv
<1>3. CASE Share(c)
  <2>1. unmet' \in [Flusher -> SUBSET Ids]
    BY <1>1, <1>3 DEF Share
  <2>2. TypeOK'
    BY <1>3, <2>1 DEF Share
  <2>3. FlightInv' /\ AttemptInv'
    BY <1>3 DEF Share, FlightInv, AttemptInv, Sending
  <2>4. QED
    BY <2>2, <2>3
<1>4. CASE Begin(c)
  <2>1. [events |-> events, gauge |-> gauge] \in Payloads
    BY DEF Payloads
  <2>2. 1 \in 0..(MaxRetries + 1)
    BY JsAssumption
  <2>3. TypeOK'
    BY <1>1, <1>4, <2>1, <2>2 DEF Begin, Fetch
  <2>4. FlightInv' /\ AttemptInv'
    BY <1>4, JsAssumption DEF Begin, Fetch, FlightInv, AttemptInv, Sending, Flusher
  <2>5. QED
    BY <2>3, <2>4
<1>5. QED
  BY <1>2, <1>3, <1>4

LEMMA CallTypeInv ==
    ASSUME TypeInv, Tick \/ \E c \in Caller : CallFlush(c) \/ Close(c)
    PROVE  TypeInv'
BY FlushTypeInv DEF Tick, CallFlush, Close, Flusher, TypeInv, TypeOK

LEMMA RequestTypeInv ==
    ASSUME TypeInv, NEW c \in Flusher, Step(c) \/ Abort(c)
    PROVE  TypeInv'
<1> USE DEF TypeInv, Sending
<1>1. CASE Succeed(c)
  <2>1. SubSeq(events, Len(payload[c].events) + 1, Len(events)) \in Seq(Ids)
    BY DEF TypeOK, Payloads
  <2>2. QED
    BY <1>1, <2>1, SettleTypeInv DEF Succeed, TypeOK, ReceiverTypeOK, receiverVars
<1>2. CASE Refused(c)
  <2>1. CASE Settle(c, FALSE)
    BY <1>2, <2>1, SettleTypeInv
       DEF Refused, TypeOK, ReceiverTypeOK, registryVars, receiverVars
  <2>2. CASE EnterBackoff(c) /\ ~(attempt[c] > MaxRetries)
    <3>1. FetchFailed(c)
      BY <2>2 DEF FetchFailed
    <3>2. QED
      BY <1>2, <3>1, FailedTypeInv DEF Refused, TypeOK, ReceiverTypeOK, receiverVars
  <2>3. QED
    BY <1>2, <2>1, <2>2 DEF Refused
<1>3. CASE Retry(c)
  <2>1. CASE Settle(c, FALSE)
    BY <1>3, <2>1, SettleTypeInv
       DEF Retry, TypeOK, ReceiverTypeOK, registryVars, receiverVars
  <2>2. CASE ~Settle(c, FALSE)
    <3>1. attempt[c] + 1 \in 0..(MaxRetries + 1)
      BY <1>3, JsAssumption DEF Retry, TypeOK, AttemptInv
    <3>2. reply' = [reply EXCEPT ![c] = reply[c]]
          /\ reply[c] \in {"none", "ok", "busy", "rejected"}
      BY <1>3, <2>2 DEF Retry, TypeOK
    <3>3. QED
      BY <1>3, <2>2, <3>1, <3>2, MoveTypeInv DEF Retry, TypeOK, ReceiverTypeOK, receiverVars
  <2>3. QED
    BY <2>1, <2>2
<1>4. CASE Abort(c)
  <2>1. CASE pc[c] = "answered"
    <3>1. UNCHANGED <<registryVars, timerOn, kind, inFlight, pc, unmet, payload, attempt,
                      reply, late, receiverVars>>
      BY <1>4, <2>1 DEF Abort
    <3>2. deaf' = [deaf EXCEPT ![c] = TRUE]
      BY <1>4, <2>1 DEF Abort
    <3>3. deaf' \in [Flusher -> BOOLEAN]
      BY <3>2 DEF TypeOK
    <3>4. QED
      BY <3>1, <3>3
         DEF TypeOK, ReceiverTypeOK, FlightInv, AttemptInv, registryVars, receiverVars
  <2>2. CASE pc[c] # "answered"
    <3>1. late' \subseteq Payloads
      BY <1>4, <2>2 DEF Abort, TypeOK
    <3>2. QED
      BY <1>4, <2>2, <3>1, SettleTypeInv
         DEF Abort, TypeOK, ReceiverTypeOK, registryVars, receiverVars
  <2>3. QED
    BY <2>1, <2>2
<1>5. QED
  BY <1>1, <1>2, <1>3, <1>4 DEF Step

LEMMA NetworkTypeInv ==
    ASSUME TypeInv, Network
    PROVE  TypeInv'
<1>1. ASSUME NEW c \in Flusher, Receive(c) PROVE TypeInv'
  <2>1. payload[c] \in Payloads /\ pc[c] \in Sending /\ late' \subseteq Payloads
    BY <1>1 DEF TypeInv, TypeOK, Receive, Sending
  <2>2. arrived' \subseteq Ids /\ shown' \in Gauges
    BY <1>1, <2>1, ApplyTypes DEF Receive, TypeInv
  <2>3. QED
    BY <1>1, <2>1, <2>2, AnswerTypeInv, FailedTypeInv DEF Receive
<1>2. ASSUME NEW c \in Flusher, Refuse(c) PROVE TypeInv'
  BY <1>2, AnswerTypeInv, FailedTypeInv
     DEF Refuse, TypeInv, TypeOK, ReceiverTypeOK, receiverVars, Sending
<1>3. ASSUME NEW c \in Flusher, TimeOut(c) PROVE TypeInv'
  <2>1. late' \subseteq Payloads
    BY <1>3 DEF TimeOut, TypeInv, TypeOK
  <2>2. QED
    BY <1>3, <2>1, FailedTypeInv
       DEF TimeOut, TypeInv, TypeOK, ReceiverTypeOK, receiverVars, Sending
<1>4. ASSUME NEW p \in late, ArriveLate(p) PROVE TypeInv'
  <2>1. p \in Payloads
    BY DEF TypeInv, TypeOK
  <2>2. QED
    BY <1>4, <2>1, ApplyTypes
       DEF ArriveLate, TypeInv, TypeOK, ReceiverTypeOK, FlightInv, AttemptInv,
           registryVars, sendVars
<1>5. ASSUME NEW p \in late, LoseLate(p) PROVE TypeInv'
  BY <1>5 DEF LoseLate, TypeInv, TypeOK, ReceiverTypeOK, FlightInv, AttemptInv,
              registryVars, sendVars, receiverVars
<1>6. QED
  BY <1>1, <1>2, <1>3, <1>4, <1>5 DEF Network

LEMMA StepTypeInv == TypeInv /\ [Next]_vars => TypeInv'
<1> SUFFICES ASSUME TypeInv, [Next]_vars PROVE TypeInv'
  OBVIOUS
<1>1. CASE UNCHANGED vars
  BY <1>1 DEF vars, registryVars, sendVars, receiverVars,
              TypeInv, TypeOK, ReceiverTypeOK, FlightInv, AttemptInv
<1>2. QED
  BY <1>1, StagingTypeInv, CallTypeInv, RequestTypeInv, NetworkTypeInv DEF Next

\* Every state of the client has its declared types: the attempts stay within
\* the retry limit and there is never a second request in flight
\* (registry.js:297-328).
THEOREM TypeCorrect == Spec => []TypeOK
<1>1. TypeInv => TypeOK
  BY DEF TypeInv
<1>2. QED
  BY <1>1, InitTypeInv, StepTypeInv, PTL DEF Spec

------------------------------------------------------------------------------
(* What is shown never gets older. *)

\* Nothing that was sent is newer than the payload c is sending.
NoOlder(c) ==
    payload[c].gauge = 0 \/ /\ shown <= payload[c].gauge
                            /\ \A p \in late : p.gauge <= payload[c].gauge

AgeInv ==
    /\ gauge \in {0, lastGauge}
    /\ shown <= lastGauge
    /\ \A p \in late : p.gauge <= lastGauge
    /\ \A c \in Flusher : pc[c] \in Sending => payload[c].gauge <= lastGauge /\ NoOlder(c)

LEMMA Ages ==
    ASSUME TypeInv
    PROVE  /\ gauge \in Nat /\ lastGauge \in Nat /\ shown \in Nat
           /\ \A p \in late : p.gauge \in Nat
           /\ \A c \in Flusher : payload[c].gauge \in Nat
BY ReceiverAssumption DEF TypeInv, TypeOK, ReceiverTypeOK, Gauges, Payloads

\* A step that starts no send, applies no payload and abandons no request but
\* those under way keeps the ages apart, and shows nothing older.
LEMMA QuietAge ==
    ASSUME TypeInv, AgeInv, lastGauge' = lastGauge, gauge' \in {0, lastGauge},
           \/ shown' = shown
           \/ \E c \in Flusher : /\ pc[c] \in Sending
                                 /\ shown' = IF payload[c].gauge = 0 THEN shown ELSE payload[c].gauge,
           \A p \in late' : p \in late \/ \E c \in Flusher : pc[c] \in Sending /\ p = payload[c],
           \A c \in Flusher : pc'[c] \in Sending => pc[c] \in Sending /\ payload'[c] = payload[c]
    PROVE  AgeInv' /\ ~(shown' < shown)
<1>1. ASSUME NEW p \in late' PROVE p.gauge <= lastGauge
  BY <1>1 DEF AgeInv
<1>2. shown' <= lastGauge /\ ~(shown' < shown)
  BY Ages DEF AgeInv, NoOlder
<1>3. ASSUME NEW c \in Flusher, pc'[c] \in Sending
      PROVE  payload'[c].gauge <= lastGauge /\ NoOlder(c)'
  <2>1. pc[c] \in Sending /\ payload'[c] = payload[c]
    BY <1>3
  <2>2. \A u \in Flusher : pc[u] \in Sending => u = c
    BY <2>1 DEF TypeInv, FlightInv
  <2>3. ASSUME NEW p \in late', payload[c].gauge # 0 PROVE p.gauge <= payload[c].gauge
    <3>1. CASE p \in late
      BY <2>1, <2>3, <3>1 DEF AgeInv, NoOlder
    <3>2. CASE p = payload[c]
      BY <3>2, Ages
    <3>3. QED
      BY <2>2, <3>1, <3>2
  <2>4. payload[c].gauge # 0 => shown' <= payload[c].gauge
    BY <2>1, <2>2, Ages DEF AgeInv, NoOlder
  <2>5. QED
    BY <2>1, <2>3, <2>4 DEF AgeInv, NoOlder
<1>4. QED
  BY <1>1, <1>2, <1>3 DEF AgeInv

\* A value staged is newer than all.
LEMMA StageValueAge == TypeInv /\ AgeInv /\ StageValue => AgeInv' /\ ~(shown' < shown)
<1> SUFFICES ASSUME TypeInv, AgeInv, StageValue PROVE AgeInv' /\ ~(shown' < shown)
  OBVIOUS
<1>1. /\ lastGauge' = lastGauge + 1 /\ gauge' = lastGauge'
      /\ UNCHANGED <<pc, payload, late, shown>>
  BY DEF StageValue, sendVars, receiverVars
<1>2. \A c \in Flusher : NoOlder(c) => NoOlder(c)'
  BY <1>1 DEF NoOlder
<1>3. \A n \in Nat : n <= lastGauge => n <= lastGauge'
  BY <1>1, Ages
<1>4. QED
  BY <1>1, <1>2, <1>3, Ages DEF AgeInv

\* A payload takes the newest value there is.
LEMMA BeginAge ==
    ASSUME TypeInv, AgeInv, NEW c \in Flusher, Begin(c), UNCHANGED <<registryVars, late, receiverVars>>
    PROVE  AgeInv' /\ ~(shown' < shown)
<1>1. /\ payload'[c].gauge = gauge
      /\ \A u \in Flusher : u # c => pc'[u] = pc[u]
      /\ UNCHANGED <<gauge, lastGauge, shown, late>>
  BY DEF Begin, Fetch, TypeInv, TypeOK, registryVars, receiverVars
<1>2. ASSUME NEW u \in Flusher, pc'[u] \in Sending PROVE u = c
  BY <1>1, <1>2 , JsAssumption DEF Begin, TypeInv, FlightInv, Sending, Flusher
<1>3. payload'[c].gauge <= lastGauge' /\ NoOlder(c)'
  BY <1>1, Ages DEF AgeInv, NoOlder
<1>4. QED
  BY <1>1, <1>2, <1>3, Ages DEF AgeInv

\* A request that arrives late leaves its mark in `late`.
LEMMA LateAge ==
    ASSUME TypeInv, AgeInv, NEW p \in late, ArriveLate(p)
    PROVE  AgeInv' /\ late' # late
<1>1. shown' = IF p.gauge = 0 THEN shown ELSE p.gauge
  BY DEF ArriveLate, Apply
<1>2. late' = late \ {p} /\ UNCHANGED <<gauge, lastGauge, pc, payload>>
  BY DEF ArriveLate, registryVars, sendVars
<1>3. shown' <= lastGauge
  BY <1>1 DEF AgeInv
<1>4. \A c \in Flusher : NoOlder(c) => NoOlder(c)'
  BY <1>1, <1>2 DEF NoOlder
<1>5. QED
  BY <1>2, <1>3, <1>4 DEF AgeInv

\* A request that goes on, or is settled, starts none.
LEMMA EndStartsNone ==
    ASSUME TypeInv, NEW c \in Flusher, pc[c] \in Sending,
           \/ \E ok \in BOOLEAN : Settle(c, ok)
           \/ UNCHANGED payload /\ \E p \in Sending : pc' = [pc EXCEPT ![c] = p]
    PROVE  \A u \in Flusher :
              pc'[u] \in Sending => pc[u] \in Sending /\ payload'[u] = payload[u]
<1>1. CASE \E ok \in BOOLEAN : Settle(c, ok)
  BY <1>1, AllIdle DEF Sending
<1>2. CASE UNCHANGED payload /\ \E p \in Sending : pc' = [pc EXCEPT ![c] = p]
  BY <1>2 DEF TypeInv, TypeOK
<1>3. QED
  BY <1>1, <1>2

LEMMA FlushAge ==
    ASSUME TypeInv, AgeInv, NEW c \in Flusher, NEW k, Flush(c, k)
    PROVE  AgeInv' /\ ~(shown' < shown)
<1>1. CASE Begin(c)
  BY <1>1, BeginAge DEF Flush
<1>2. CASE ReturnEmpty(c) \/ Share(c)
  <2>1. UNCHANGED <<gauge, lastGauge, shown, late, payload>>
    BY <1>2 DEF Flush, ReturnEmpty, Share, registryVars, receiverVars
  <2>2. \A u \in Flusher : pc'[u] \in Sending => pc[u] \in Sending
    BY <1>2 DEF ReturnEmpty, Share, Sending, TypeInv, TypeOK
  <2>3. QED
    BY <2>1, <2>2, QuietAge DEF AgeInv
<1>3. QED
  BY <1>1, <1>2 DEF Flush

LEMMA RequestAge ==
    ASSUME TypeInv, AgeInv, NEW c \in Flusher, Step(c) \/ Abort(c)
    PROVE  AgeInv' /\ ~(shown' < shown)
<1>1. pc[c] \in Sending /\ UNCHANGED <<gauge, lastGauge, shown>>
  BY DEF Step, Succeed, Refused, Retry, Abort, Sending, registryVars, receiverVars
<1>2. \A p \in late' : p \in late \/ p = payload[c]
  BY DEF Step, Succeed, Refused, Retry, Abort
<1>3. \/ \E ok \in BOOLEAN : Settle(c, ok)
      \/ UNCHANGED <<payload, pc>>
      \/ UNCHANGED payload /\ \E p \in Sending : pc' = [pc EXCEPT ![c] = p]
  BY DEF Step, Succeed, Refused, Retry, EnterBackoff, Abort, Sending
<1>4. \A u \in Flusher : pc'[u] \in Sending => pc[u] \in Sending /\ payload'[u] = payload[u]
  BY <1>1, <1>3, EndStartsNone
<1>5. QED
  BY <1>1, <1>2, <1>4, QuietAge DEF AgeInv

LEMMA AttemptAge ==
    ASSUME TypeInv, AgeInv, NEW c \in Flusher, Receive(c) \/ Refuse(c) \/ TimeOut(c)
    PROVE  AgeInv' /\ ~(shown' < shown)
<1>1. /\ pc[c] \in Sending /\ UNCHANGED <<gauge, lastGauge>>
      /\ FetchFailed(c) \/ \E r \in {"ok", "busy", "rejected"} : Answer(c, r)
  BY DEF Receive, Refuse, TimeOut, Sending, registryVars
<1>2. \/ shown' = shown
      \/ shown' = IF payload[c].gauge = 0 THEN shown ELSE payload[c].gauge
  BY DEF Receive, Apply, Refuse, TimeOut, receiverVars
<1>3. \A p \in late' : p \in late \/ p = payload[c]
  BY DEF Receive, Refuse, TimeOut
<1>4. \A u \in Flusher : pc'[u] \in Sending => pc[u] \in Sending /\ payload'[u] = payload[u]
  BY <1>1, EndStartsNone DEF FetchFailed, EnterBackoff, Answer, Sending
<1>5. QED
  BY <1>1, <1>2, <1>3, <1>4, QuietAge DEF AgeInv

LEMMA StepAge ==
    ASSUME TypeInv, AgeInv, [Next]_vars
    PROVE  AgeInv' /\ (shown' < shown => late' # late)
<1>1. CASE UNCHANGED vars
  BY <1>1, QuietAge DEF AgeInv, vars, registryVars, sendVars, receiverVars
<1>2. CASE StageEvent \/ Clear \/ Start \/ Stop
  BY <1>2, QuietAge
     DEF AgeInv, StageEvent, Clear, Start, Stop, registryVars, sendVars, receiverVars
<1>3. CASE \E p \in late : LoseLate(p)
  BY <1>3, QuietAge DEF AgeInv, LoseLate, registryVars, sendVars, receiverVars
<1>4. CASE Tick \/ \E c \in Caller : CallFlush(c) \/ Close(c)
  BY <1>4, FlushAge DEF Tick, CallFlush, Close, Flusher
<1>5. QED
  BY <1>1, <1>2, <1>3, <1>4, StageValueAge, RequestAge, AttemptAge, LateAge DEF Next, Network

\* What NetCrunch shows goes back to an older value only when a request that
\* was given up on arrives late: there is one request in flight, and it carries
\* the newest state there was when it began, clear() not being called under it
\* (registry.js:290-328).
THEOREM NeverOlder == Spec => [][shown' < shown => late' # late]_vars
<1>1. TypeInv /\ AgeInv /\ [Next]_vars => AgeInv'
  BY StepAge
<1>2. TypeInv /\ AgeInv /\ [Next]_vars => [shown' < shown => late' # late]_vars
  BY StepAge
<1>3. Init => AgeInv
  BY DEF Init, ReceiverInit, AgeInv, Sending
<1>4. QED
  BY <1>1, <1>2, <1>3, InitTypeInv, StepTypeInv, PTL DEF Spec

------------------------------------------------------------------------------

------------------------------------------------------------------------------
(* What a flush() that resolved has sent. *)

\* A step that leaves the queue alone and starts no request keeps the three,
\* when it also keeps the payload under way and what is owed.
LEMMA QuietStep ==
    ASSUME QuietInv, UNCHANGED <<events, discarded>>, arrived \subseteq arrived',
           \A u \in Flusher : pc'[u] \in Sending =>
               pc[u] \in Sending /\ payload'[u] = payload[u] /\ unmet'[u] = unmet[u],
           \A u \in Flusher : pc'[u] = "answered" /\ reply'[u] = "ok" =>
               Range(payload'[u].events) \subseteq arrived',
           \A u \in Flusher : pc'[u] \notin Sending /\ kind'[u] # "close" => unmet'[u] = {}
    PROVE  QuietInv'
<1>1. PrefixInv'
  BY DEF QuietInv, PrefixInv
<1>2. DeliveredInv'
  BY DEF DeliveredInv
<1>3. OwedInv'
  BY DEF QuietInv, OwedInv
<1>4. QED
  BY <1>1, <1>2, <1>3 DEF QuietInv

\* A request that fails: whoever awaits it is promised nothing.
LEMMA FailureQuiet ==
    ASSUME TypeInv, QuietInv, NEW c \in Flusher, pc[c] \in Sending, Settle(c, FALSE),
           arrived \subseteq arrived', UNCHANGED <<events, discarded, kind>>
    PROVE  QuietInv'
<1>1. \A u \in Flusher : pc'[u] = "idle"
  BY AllIdle
<1>2. \A u \in Flusher : unmet'[u] = IF u \in Awaiting(c) THEN {} ELSE unmet[u]
  BY DEF Settle
<1>3. \A u \in Flusher : u \notin Awaiting(c) => pc[u] \notin Sending
  BY DEF TypeInv, FlightInv, Awaiting
<1>4. \A u \in Flusher : kind'[u] # "close" => unmet'[u] = {}
  BY <1>2, <1>3 DEF QuietInv, OwedInv
<1>5. QED
  BY <1>1, <1>4, QuietStep DEF Sending

LEMMA BackoffQuiet ==
    ASSUME TypeInv, QuietInv, NEW c \in Flusher, pc[c] \in Sending, EnterBackoff(c),
           arrived \subseteq arrived', UNCHANGED <<events, discarded, kind>>
    PROVE  QuietInv'
<1>1. \A u \in Flusher : pc'[u] = IF u = c THEN "backoff" ELSE pc[u]
  BY DEF EnterBackoff, TypeInv, TypeOK
<1>2. \A u \in Flusher : u # c => reply'[u] = reply[u]
  BY DEF EnterBackoff, TypeInv, TypeOK
<1>3. payload' = payload /\ unmet' = unmet
  BY DEF EnterBackoff
<1>4. QED
  BY <1>1, <1>2, <1>3, QuietStep DEF QuietInv, DeliveredInv, OwedInv, Sending

LEMMA AnswerQuiet ==
    ASSUME TypeInv, QuietInv, NEW c \in Flusher, pc[c] \in Sending, NEW r, Answer(c, r),
           r = "ok" => Range(payload[c].events) \subseteq arrived',
           arrived \subseteq arrived', UNCHANGED <<events, discarded, kind>>
    PROVE  QuietInv'
<1>1. \A u \in Flusher : /\ pc'[u] = IF u = c THEN "answered" ELSE pc[u]
                         /\ reply'[u] = IF u = c THEN r ELSE reply[u]
  BY DEF Answer, TypeInv, TypeOK
<1>2. payload' = payload /\ unmet' = unmet
  BY DEF Answer
<1>3. QED
  BY <1>1, <1>2, QuietStep DEF QuietInv, DeliveredInv, OwedInv, Sending

LEMMA NetworkQuiet ==
    ASSUME TypeInv, QuietInv, Network
    PROVE  QuietInv'
<1>1. ASSUME NEW c \in Flusher, Receive(c) PROVE QuietInv'
  <2>1. arrived' = arrived \cup Range(payload[c].events) /\ pc[c] \in Sending
    BY <1>1 DEF Receive, Apply, Sending
  <2>2. QED
    BY <1>1, <2>1, AnswerQuiet, FailureQuiet, BackoffQuiet DEF Receive, FetchFailed, registryVars
<1>2. ASSUME NEW c \in Flusher, Refuse(c) PROVE QuietInv'
  BY <1>2, AnswerQuiet, FailureQuiet, BackoffQuiet
     DEF Refuse, FetchFailed, registryVars, receiverVars, Sending
<1>3. ASSUME NEW c \in Flusher, TimeOut(c) PROVE QuietInv'
  BY <1>3, FailureQuiet, BackoffQuiet
     DEF TimeOut, FetchFailed, registryVars, receiverVars, Sending
<1>4. ASSUME NEW p \in late, ArriveLate(p) \/ LoseLate(p) PROVE QuietInv'
  <2>1. arrived \subseteq arrived'
    BY <1>4 DEF ArriveLate, LoseLate, Apply, receiverVars
  <2>2. UNCHANGED <<events, discarded, kind, pc, unmet, payload, reply>>
    BY <1>4 DEF ArriveLate, LoseLate, registryVars, sendVars
  <2>3. QED
    BY <2>1, <2>2, QuietStep DEF QuietInv, DeliveredInv, OwedInv
<1>5. QED
  BY <1>1, <1>2, <1>3, <1>4 DEF Network

LEMMA StagingQuiet ==
    ASSUME TypeInv, QuietInv, StageEvent \/ StageValue \/ (~InFlight /\ Clear) \/ Start \/ Stop
    PROVE  QuietInv'
<1>1. CASE StageEvent
  <2>1. events \in Seq(Ids) /\ staged + 1 \in Ids
    BY <1>1, ReceiverAssumption DEF TypeInv, TypeOK, StageEvent, Ids
  <2>2. /\ Len(events') = Len(events) + 1
        /\ \A i \in 1..Len(events) : events'[i] = events[i]
    BY <1>1, <2>1, AppendKeeps DEF StageEvent
  <2>3. UNCHANGED <<pc, kind, payload, unmet, reply, arrived, discarded>>
    BY <1>1 DEF StageEvent, sendVars, receiverVars
  <2>4. PrefixInv'
    <3> SUFFICES ASSUME NEW c \in Flusher, pc[c] \in Sending
                 PROVE  /\ Len(payload[c].events) <= Len(events')
                        /\ \A i \in 1..Len(payload[c].events) :
                              payload[c].events[i] = events'[i]
      BY <2>3 DEF PrefixInv
    <3>1. /\ Len(payload[c].events) <= Len(events)
          /\ \A i \in 1..Len(payload[c].events) : payload[c].events[i] = events[i]
      BY DEF QuietInv, PrefixInv
    <3>2. Len(payload[c].events) \in Nat /\ Len(events) \in Nat
      BY <2>1 DEF TypeInv, TypeOK, Payloads
    <3>3. QED
      BY <2>2, <3>1, <3>2
  <2>5. DeliveredInv' /\ OwedInv'
    BY <2>3 DEF QuietInv, DeliveredInv, OwedInv
  <2>6. QED
    BY <2>4, <2>5 DEF QuietInv
<1>2. CASE StageValue \/ Start \/ Stop
  BY <1>2, QuietStep
     DEF StageValue, Start, Stop, registryVars, sendVars, receiverVars,
         QuietInv, DeliveredInv, OwedInv
<1>3. CASE ~InFlight /\ Clear
  <2>1. \A c \in Flusher : pc[c] \notin Sending
    BY <1>3 DEF InFlight
  <2>2. UNCHANGED <<pc, kind, unmet>>
    BY <1>3 DEF Clear, sendVars
  <2>3. QED
    BY <2>1, <2>2 DEF QuietInv, PrefixInv, DeliveredInv, OwedInv, Sending
<1>4. QED
  BY <1>1, <1>2, <1>3

LEMMA FlushQuiet ==
    ASSUME TypeInv, QuietInv, NEW c \in Flusher, NEW k, Flush(c, k)
    PROVE  QuietInv'
<1>1. /\ pc[c] = "idle" /\ UNCHANGED <<events, discarded, arrived>>
      /\ \A u \in Flusher : kind'[u] = IF u = c THEN k ELSE kind[u]
  BY DEF Flush, registryVars, receiverVars, TypeInv, TypeOK
<1>2. CASE ReturnEmpty(c)
  <2>1. /\ UNCHANGED <<pc, payload, reply>>
        /\ \A u \in Flusher : unmet'[u] = IF u = c THEN {} ELSE unmet[u]
    BY <1>2 DEF ReturnEmpty, TypeInv, TypeOK
  <2>2. QED
    BY <1>1, <2>1, QuietStep DEF QuietInv, DeliveredInv, OwedInv, Sending
<1>3. CASE Share(c)
  <2>1. /\ UNCHANGED <<payload, reply>>
        /\ \A u \in Flusher : pc'[u] = IF u = c THEN "sharing" ELSE pc[u]
        /\ \A u \in Flusher : u # c => unmet'[u] = unmet[u]
        /\ kind'[c] # "close" => unmet'[c] = {}
    BY <1>3 DEF Share, TypeInv, TypeOK
  <2>2. QED
    BY <1>1, <2>1, QuietStep DEF QuietInv, DeliveredInv, OwedInv, Sending
<1>4. CASE Begin(c)
  <2>1. \A u \in Flusher : pc[u] \notin Sending
    BY <1>4, JsAssumption DEF Begin, TypeInv, FlightInv, Flusher
  <2>2. /\ \A u \in Flusher : pc'[u] = IF u = c THEN "fetching" ELSE pc[u]
        /\ \A u \in Flusher : unmet'[u] = IF u = c THEN Range(events) ELSE unmet[u]
        /\ payload'[c].events = events
    BY <1>4 DEF Begin, Fetch, TypeInv, TypeOK
  <2>3. Len(events) \in Nat
    BY DEF TypeInv, TypeOK
  <2>4. PrefixInv' /\ DeliveredInv'
    BY <1>1, <2>1, <2>2, <2>3 DEF PrefixInv, DeliveredInv, Sending
  <2>5. OwedInv'
    BY <1>1, <2>1, <2>2 DEF QuietInv, OwedInv, Sending
  <2>6. QED
    BY <2>4, <2>5 DEF QuietInv
<1>5. QED
  BY <1>2, <1>3, <1>4 DEF Flush

\* Splicing takes away what has arrived, and whoever awaited it owes nothing.
LEMMA SucceedQuiet ==
    ASSUME TypeInv, QuietInv, NEW c \in Flusher, Succeed(c)
    PROVE  QuietInv'
<1>1. /\ pc[c] \in Sending /\ Settle(c, TRUE)
      /\ Range(payload[c].events) \subseteq arrived
      /\ UNCHANGED <<arrived, discarded, kind>>
  BY DEF Succeed, Sending, QuietInv, DeliveredInv, receiverVars
<1>2. \A u \in Flusher : pc'[u] = "idle"
  BY <1>1, AllIdle
<1>3. \A u \in Flusher :
         unmet'[u] = IF u \in Awaiting(c) THEN unmet[u] \ (arrived \cup discarded) ELSE unmet[u]
  BY <1>1 DEF Settle
<1>4. \A u \in Flusher : pc[u] \in Sending => u = c
  BY <1>1 DEF TypeInv, FlightInv
<1>5. ASSUME NEW u \in Flusher, kind[u] # "close" PROVE unmet'[u] = {}
  <2>1. CASE u = c
    BY <1>1, <1>3, <2>1 DEF QuietInv, OwedInv, Awaiting
  <2>2. CASE u # c
    <3>1. unmet[u] = {}
      BY <1>4, <1>5, <2>2 DEF QuietInv, OwedInv
    <3>2. QED
      BY <1>3, <3>1
  <2>3. QED
    BY <2>1, <2>2
<1>6. QED
  BY <1>1, <1>2, <1>5 DEF QuietInv, PrefixInv, DeliveredInv, OwedInv, Sending

LEMMA RequestQuiet ==
    ASSUME TypeInv, QuietInv, NEW c \in Flusher, Step(c) \/ Abort(c)
    PROVE  QuietInv'
<1> USE DEF registryVars, receiverVars
<1>1. CASE Succeed(c)
  BY <1>1, SucceedQuiet
<1>2. CASE Refused(c)
  BY <1>2, FailureQuiet, BackoffQuiet DEF Refused, Sending
<1>3. CASE Retry(c) /\ Settle(c, FALSE)
  BY <1>3, FailureQuiet DEF Retry, Sending
<1>4. CASE Retry(c) /\ ~Settle(c, FALSE)
  <2>1. \A u \in Flusher : pc'[u] = IF u = c THEN "fetching" ELSE pc[u]
    BY <1>4 DEF Retry, TypeInv, TypeOK
  <2>2. UNCHANGED <<events, discarded, arrived, kind, unmet, payload, reply>>
    BY <1>4 DEF Retry
  <2>3. pc[c] = "backoff"
    BY <1>4 DEF Retry
  <2>4. QED
    BY <2>1, <2>2, <2>3, QuietStep DEF QuietInv, DeliveredInv, OwedInv, Sending
<1>5. CASE Abort(c) /\ pc[c] = "answered"
  BY <1>5, QuietStep DEF Abort, QuietInv, DeliveredInv, OwedInv
<1>6. CASE Abort(c) /\ pc[c] # "answered"
  BY <1>6, FailureQuiet DEF Abort
<1>7. QED
  BY <1>1, <1>2, <1>3, <1>4, <1>5, <1>6 DEF Step

LEMMA InitQuiet == Init => QuietInv
BY DEF Init, QuietInv, PrefixInv, DeliveredInv, OwedInv, Sending

LEMMA StepQuiet == TypeInv /\ QuietInv /\ [Next]_vars => QuietInv'
<1> SUFFICES ASSUME TypeInv, QuietInv, [Next]_vars PROVE QuietInv'
  OBVIOUS
<1>1. CASE UNCHANGED vars
  BY <1>1 DEF vars, registryVars, sendVars, receiverVars,
              QuietInv, PrefixInv, DeliveredInv, OwedInv
<1>2. CASE Tick \/ \E c \in Caller : CallFlush(c) \/ Close(c)
  BY <1>2, FlushQuiet DEF Tick, CallFlush, Close, Flusher
<1>3. QED
  BY <1>1, <1>2, StagingQuiet, RequestQuiet, NetworkQuiet DEF Next

\* A flush() or tick that resolved has sent, or seen discarded, every event it
\* undertook to send, for any number of callers that share, abort or retry, when
\* clear() is not called under a request (registry.js:297-328).
THEOREM ResolvedIsSent == Spec => []FlushedMeansSent
<1>1. QuietInv => FlushedMeansSent
  BY DEF QuietInv, OwedInv, FlushedMeansSent, Sending
<1>2. QED
  BY <1>1, InitTypeInv, InitQuiet, StepTypeInv, StepQuiet, PTL DEF Spec

------------------------------------------------------------------------------
(* The client implements EventOutbox, with clear() away from requests. *)

\* The first n elements of a sequence, as a set.
First(s, n) == {s[i] : i \in 1..n}

\* The events known to the client are the ones that were staged.
KnownInv == Range(events) \cup arrived \cup discarded \subseteq 1..staged

\* An abandoned request carries the oldest events of the queue, those that
\* have left the queue since the request was built apart.
Covers(p, n) ==
    /\ First(events, n) \subseteq Range(p.events)
    /\ Range(p.events) \subseteq First(events, n) \cup arrived \cup discarded

LateInv == \A p \in late : \E n \in 0..Len(events) : Covers(p, n)

OutboxInv == TypeInv /\ QuietInv /\ KnownInv /\ LateInv

------------------------------------------------------------------------------
(* Lengths and ranges. *)

LEMMA Lengths ==
    ASSUME TypeInv
    PROVE  /\ events \in Seq(Ids) /\ Len(events) \in Nat /\ staged \in Nat
           /\ Range(events) = First(events, Len(events))
           /\ \A c \in Flusher : /\ payload[c].events \in Seq(Ids)
                                 /\ Len(payload[c].events) \in Nat
<1>1. events \in Seq(Ids) /\ Len(events) \in Nat /\ staged \in Nat
  BY ReceiverAssumption DEF TypeInv, TypeOK
<1>2. Range(events) = First(events, Len(events))
  BY <1>1, RangeOfSeq DEF First
<1>3. \A c \in Flusher : payload[c] \in Payloads
  BY DEF TypeInv, TypeOK
<1>4. QED
  BY <1>1, <1>2, <1>3 DEF Payloads

\* The events of a request under way are the oldest of the queue.
LEMMA UnderWay ==
    ASSUME TypeInv, QuietInv, NEW c \in Flusher, pc[c] \in Sending
    PROVE  /\ Len(payload[c].events) \in 0..Len(events)
           /\ Range(payload[c].events) = First(events, Len(payload[c].events))
<1> DEFINE sent == payload[c].events
<1>1. sent \in Seq(Ids) /\ Len(sent) \in Nat /\ Len(events) \in Nat
  BY Lengths
<1>2. Len(sent) <= Len(events) /\ \A i \in 1..Len(sent) : sent[i] = events[i]
  BY DEF QuietInv, PrefixInv
<1>3. Range(sent) = {sent[i] : i \in 1..Len(sent)}
  BY <1>1, RangeOfSeq
<1>4. QED
  BY <1>1, <1>2, <1>3 DEF First

------------------------------------------------------------------------------
(* The invariant. *)

LEMMA InitOutbox == Init => KnownInv /\ LateInv
BY DEF Init, ReceiverInit, KnownInv, LateInv, Range

\* A step that leaves the queue alone, and abandons no request but one under
\* way, keeps the invariant when nothing unknown arrives.
LEMMA QuietOutbox ==
    ASSUME OutboxInv, UNCHANGED <<events, staged, discarded>>,
           arrived \subseteq arrived', arrived' \subseteq 1..staged,
           \A p \in late' : p \in late \/ \E c \in Flusher : pc[c] \in Sending /\ p = payload[c]
    PROVE  KnownInv' /\ LateInv'
<1>1. KnownInv'
  BY DEF OutboxInv, KnownInv
<1>2. ASSUME NEW p \in late'
      PROVE  \E n \in 0..Len(events) : Covers(p, n)
  BY UnderWay DEF OutboxInv, LateInv, Covers
<1>3. ASSUME NEW p \in late', NEW n \in 0..Len(events), Covers(p, n)
      PROVE  Covers(p, n)'
  BY <1>3 DEF Covers, First
<1>4. QED
  BY <1>1, <1>2, <1>3 DEF LateInv

LEMMA StageEventOutbox == OutboxInv /\ StageEvent => KnownInv' /\ LateInv'
<1> SUFFICES ASSUME OutboxInv, StageEvent PROVE KnownInv' /\ LateInv'
  OBVIOUS
<1>1. events \in Seq(Ids) /\ staged + 1 \in Ids /\ staged \in Nat /\ Len(events) \in Nat
  BY Lengths, ReceiverAssumption DEF OutboxInv, TypeInv, TypeOK, StageEvent, Ids
<1>2. Range(events') = Range(events) \cup {staged + 1}
  BY <1>1, AppendKeeps DEF StageEvent
<1>3. KnownInv'
  BY <1>1, <1>2 DEF OutboxInv, KnownInv, StageEvent, receiverVars
<1>4. /\ Len(events') = Len(events) + 1
      /\ \A n \in 0..Len(events) : First(events', n) = First(events, n)
  BY <1>1 DEF StageEvent, First
<1>5. ASSUME NEW p \in late
      PROVE  \E n \in 0..Len(events') : Covers(p, n)'
  <2>1. PICK n \in 0..Len(events) : Covers(p, n)
    BY DEF OutboxInv, LateInv
  <2>2. n \in 0..Len(events') /\ Covers(p, n)'
    BY <1>1, <1>4, <2>1 DEF Covers, StageEvent, receiverVars
  <2>3. QED
    BY <2>2
<1>6. QED
  BY <1>3, <1>5 DEF LateInv, StageEvent

LEMMA ClearOutbox == OutboxInv /\ Clear => KnownInv' /\ LateInv'
<1> SUFFICES ASSUME OutboxInv, Clear PROVE KnownInv' /\ LateInv'
  OBVIOUS
<1>1. events' = <<>> /\ discarded' = discarded \cup Range(events)
      /\ UNCHANGED <<arrived, staged, late>>
  BY DEF Clear, receiverVars
<1>2. KnownInv'
  BY <1>1 DEF OutboxInv, KnownInv, Range
<1>3. ASSUME NEW p \in late
      PROVE  0 \in 0..Len(events') /\ Covers(p, 0)'
  <2>1. PICK n \in 0..Len(events) : Covers(p, n)
    BY DEF OutboxInv, LateInv
  <2>2. First(events, n) \subseteq Range(events)
    BY Lengths DEF OutboxInv, First
  <2>3. First(events', 0) = {}
    BY DEF First
  <2>4. QED
    BY <1>1, <2>1, <2>2, <2>3 DEF Covers
<1>4. QED
  BY <1>1, <1>2, <1>3 DEF LateInv

\* What Succeed does to the queue.
LEMMA Spliced ==
    ASSUME OutboxInv, NEW c \in Flusher, Succeed(c)
    PROVE  LET k == Len(payload[c].events) IN
           /\ k \in 0..Len(events)
           /\ First(events, k) \subseteq arrived
           /\ Len(events') = Len(events) - k
           /\ \A i \in 1..(Len(events) - k) : events'[i] = events[k + i]
           /\ events' \in Seq(Ids)
           /\ UNCHANGED <<arrived, discarded, staged, late>>
<1> DEFINE k == Len(payload[c].events)
<1>1. pc[c] = "answered" /\ reply[c] = "ok" /\ pc[c] \in Sending
  BY DEF Succeed, Sending
<1>2. k \in 0..Len(events) /\ Range(payload[c].events) = First(events, k)
  BY <1>1, UnderWay DEF OutboxInv
<1>3. Range(payload[c].events) \subseteq arrived
  BY <1>1 DEF OutboxInv, QuietInv, DeliveredInv
<1>4. events \in Seq(Ids) /\ Len(events) \in Nat
  BY Lengths DEF OutboxInv
<1>5. events' = SubSeq(events, k + 1, Len(events))
  BY DEF Succeed
<1> HIDE DEF k
<1>6. /\ Len(events') = Len(events) - k
      /\ \A i \in 1..(Len(events) - k) : events'[i] = events[k + i]
      /\ events' \in Seq(Ids)
  BY <1>2, <1>4, <1>5
<1>7. UNCHANGED <<arrived, discarded, staged, late>>
  BY DEF Succeed, receiverVars
<1>8. QED
  BY <1>2, <1>3, <1>6, <1>7 DEF k

LEMMA SucceedOutbox ==
    ASSUME OutboxInv, NEW c \in Flusher, Succeed(c)
    PROVE  KnownInv' /\ LateInv'
<1> DEFINE k == Len(payload[c].events)
<1>1. /\ k \in 0..Len(events) /\ Len(events) \in Nat
      /\ First(events, k) \subseteq arrived
      /\ Len(events') = Len(events) - k
      /\ \A i \in 1..(Len(events) - k) : events'[i] = events[k + i]
      /\ events' \in Seq(Ids)
      /\ UNCHANGED <<arrived, discarded, staged, late>>
  BY Spliced, Lengths DEF OutboxInv
<1> HIDE DEF k
<1>2. Range(events') \subseteq Range(events)
  <2>1. Range(events') = {events'[i] : i \in 1..Len(events')}
    BY <1>1, RangeOfSeq
  <2>2. Range(events) = {events[i] : i \in 1..Len(events)}
    BY Lengths, RangeOfSeq DEF OutboxInv
  <2>3. \A i \in 1..(Len(events) - k) : k + i \in 1..Len(events)
    BY <1>1
  <2>4. QED
    BY <1>1, <2>1, <2>2, <2>3
<1>3. KnownInv'
  BY <1>1, <1>2 DEF OutboxInv, KnownInv
<1>4. ASSUME NEW p \in late
      PROVE  \E n \in 0..Len(events') : Covers(p, n)'
  <2>1. PICK n \in 0..Len(events) : Covers(p, n)
    BY DEF OutboxInv, LateInv
  <2>2. CASE n <= k
    <3>1. First(events, n) \subseteq First(events, k)
      BY <1>1, <2>2 DEF First
    <3>2. First(events', 0) = {}
      BY DEF First
    <3>3. 0 \in 0..Len(events') /\ Covers(p, 0)'
      BY <1>1, <2>1, <3>1, <3>2 DEF Covers
    <3>4. QED
      BY <3>3
  <2>3. CASE n > k
    <3>1. PICK m \in 0..Len(events') : m = n - k
      BY <1>1, <2>3
    <3>2. First(events', n - k) \subseteq First(events, n)
      <4>1. \A i \in 1..(n - k) : k + i \in 1..n /\ i \in 1..(Len(events) - k)
        BY <1>1, <2>3
      <4>2. QED
        BY <1>1, <4>1 DEF First
    <3>3. First(events, n) \subseteq First(events, k) \cup First(events', n - k)
      <4>1. ASSUME NEW i \in 1..n, i > k
            PROVE  events[i] \in First(events', n - k)
        <5>1. i - k \in 1..(n - k) /\ i - k \in 1..(Len(events) - k) /\ k + (i - k) = i
          BY <1>1, <2>3, <4>1
        <5>2. QED
          BY <1>1, <5>1 DEF First
      <4>2. ASSUME NEW i \in 1..n, ~(i > k)
            PROVE  events[i] \in First(events, k)
        <5>1. i \in 1..k
          BY <1>1, <4>2
        <5>2. QED
          BY <5>1 DEF First
      <4>3. QED
        BY <4>1, <4>2 DEF First
    <3>4. Covers(p, m)'
      BY <1>1, <2>1, <3>1, <3>2, <3>3 DEF Covers
    <3>5. QED
      BY <3>4
  <2>4. QED
    BY <1>1, <2>2, <2>3
<1>5. QED
  BY <1>1, <1>3, <1>4 DEF LateInv

LEMMA CallOutbox ==
    ASSUME OutboxInv,
           \/ Start \/ Stop \/ Tick
           \/ \E c \in Caller : CallFlush(c) \/ Close(c)
    PROVE  KnownInv' /\ LateInv'
<1>1. arrived \subseteq 1..staged
  BY DEF OutboxInv, KnownInv
<1>2. UNCHANGED <<registryVars, late, receiverVars>>
  BY DEF Start, Stop, Tick, CallFlush, Close, Flush
<1>3. QED
  BY <1>1, <1>2, QuietOutbox DEF registryVars, receiverVars

LEMMA RequestOutbox ==
    ASSUME OutboxInv, NEW c \in Flusher, Step(c) \/ Abort(c)
    PROVE  KnownInv' /\ LateInv'
<1>1. arrived \subseteq 1..staged
  BY DEF OutboxInv, KnownInv
<1>2. CASE Succeed(c)
  BY <1>2, SucceedOutbox
<1>3. CASE Refused(c) \/ Retry(c)
  BY <1>1, <1>3, QuietOutbox DEF Refused, Retry, registryVars, receiverVars
<1>4. CASE Abort(c)
  BY <1>1, <1>4, QuietOutbox DEF Abort, registryVars, receiverVars
<1>5. QED
  BY <1>2, <1>3, <1>4 DEF Step

LEMMA NetworkOutbox ==
    ASSUME OutboxInv, Network
    PROVE  KnownInv' /\ LateInv'
<1> USE DEF registryVars, sendVars
<1>1. arrived \subseteq 1..staged /\ Range(events) \subseteq 1..staged /\ discarded \subseteq 1..staged
  BY DEF OutboxInv, KnownInv
<1>2. \A n \in 0..Len(events) : First(events, n) \subseteq Range(events)
  BY Lengths DEF OutboxInv, First
<1>3. ASSUME NEW c \in Flusher, Receive(c)
      PROVE  KnownInv' /\ LateInv'
  <2>1. pc[c] \in Sending /\ arrived' = arrived \cup Range(payload[c].events)
    BY <1>3 DEF Receive, Apply, Sending
  <2>2. Range(payload[c].events) \subseteq Range(events)
    BY <1>2, <2>1, UnderWay DEF OutboxInv
  <2>3. QED
    BY <1>1, <1>3, <2>1, <2>2, QuietOutbox DEF Receive
<1>4. ASSUME NEW c \in Flusher, Refuse(c)
      PROVE  KnownInv' /\ LateInv'
  BY <1>1, <1>4, QuietOutbox DEF Refuse, receiverVars
<1>5. ASSUME NEW c \in Flusher, TimeOut(c)
      PROVE  KnownInv' /\ LateInv'
  BY <1>1, <1>5, QuietOutbox DEF TimeOut, Sending, receiverVars
<1>6. ASSUME NEW p \in late, ArriveLate(p)
      PROVE  KnownInv' /\ LateInv'
  <2>1. PICK n \in 0..Len(events) : Covers(p, n)
    BY DEF OutboxInv, LateInv
  <2>2. arrived' = arrived \cup Range(p.events)
    BY <1>6 DEF ArriveLate, Apply
  <2>3. arrived' \subseteq 1..staged
    BY <1>1, <1>2, <2>1, <2>2 DEF Covers
  <2>4. QED
    BY <1>6, <2>2, <2>3, QuietOutbox DEF ArriveLate
<1>7. ASSUME NEW p \in late, LoseLate(p)
      PROVE  KnownInv' /\ LateInv'
  BY <1>1, <1>7, QuietOutbox DEF LoseLate, receiverVars
<1>8. QED
  BY <1>3, <1>4, <1>5, <1>6, <1>7 DEF Network

LEMMA StepOutbox == OutboxInv /\ [Next]_vars => OutboxInv'
<1> SUFFICES ASSUME OutboxInv, [Next]_vars PROVE OutboxInv'
  OBVIOUS
<1>1. arrived \subseteq 1..staged
  BY DEF OutboxInv, KnownInv
<1>2. TypeInv' /\ QuietInv'
  BY StepTypeInv, StepQuiet DEF OutboxInv
<1>3. ASSUME StageValue PROVE KnownInv' /\ LateInv'
  BY <1>1, <1>3, QuietOutbox DEF StageValue, receiverVars
<1>4. ASSUME UNCHANGED vars PROVE KnownInv' /\ LateInv'
  BY <1>1, <1>4, QuietOutbox DEF vars, registryVars, receiverVars
<1>5. KnownInv' /\ LateInv'
  BY <1>3, <1>4, StageEventOutbox, ClearOutbox, CallOutbox, RequestOutbox, NetworkOutbox
     DEF Next
<1>6. QED
  BY <1>2, <1>5 DEF OutboxInv

------------------------------------------------------------------------------
(* Every step of the client is a step of the outbox, or none. *)

LEMMA ArriveStep ==
    ASSUME NEW n \in 0..Len(events), NEW p, Covers(p, n),
           arrived' = arrived \cup Range(p.events), UNCHANGED <<events, discarded>>
    PROVE  Outbox!Next
<1> DEFINE again == Range(p.events) \cap (arrived \cup discarded)
<1>1. arrived' = arrived \cup First(events, n) \cup again
  BY DEF Covers
<1>2. Outbox!Arrive(n, again)
  BY <1>1 DEF Outbox!Arrive, Outbox!Oldest, First
<1>3. again \in SUBSET (arrived \cup discarded)
  OBVIOUS
<1>4. QED
  BY <1>2, <1>3 DEF Outbox!Next

LEMMA StageStep == OutboxInv /\ StageEvent => Outbox!Next
<1> SUFFICES ASSUME OutboxInv, StageEvent PROVE Outbox!Next
  OBVIOUS
<1>1. staged + 1 \in Ids /\ staged \in Nat
  BY ReceiverAssumption DEF OutboxInv, TypeInv, TypeOK, StageEvent, Ids
<1>2. staged + 1 \notin Range(events) \cup arrived \cup discarded
  BY <1>1 DEF OutboxInv, KnownInv
<1>3. Outbox!Stage(staged + 1)
  BY <1>2 DEF Outbox!Stage, StageEvent, Range, Outbox!Range, receiverVars
<1>4. QED
  BY <1>1, <1>3 DEF Outbox!Next

LEMMA ClearStep == Clear => Outbox!Next
BY DEF Clear, Outbox!Next, Outbox!Discard, Range, Outbox!Range, receiverVars

LEMMA SucceedStep ==
    ASSUME OutboxInv, NEW c \in Flusher, Succeed(c)
    PROVE  [Outbox!Next]_(Outbox!outboxVars)
<1> DEFINE k == Len(payload[c].events)
<1>1. /\ k \in 0..Len(events) /\ Len(events) \in Nat /\ events \in Seq(Ids)
      /\ First(events, k) \subseteq arrived
      /\ events' = SubSeq(events, k + 1, Len(events))
      /\ UNCHANGED <<arrived, discarded>>
  BY Spliced, Lengths DEF OutboxInv, Succeed
<1> HIDE DEF k
<1>2. CASE k = 0
  <2>1. events' = events
    BY <1>1, <1>2
  <2>2. QED
    BY <1>1, <2>1 DEF Outbox!outboxVars
<1>3. CASE k # 0
  <2>1. Outbox!Confirm(k)
    BY <1>1 DEF Outbox!Confirm, Outbox!Oldest, First
  <2>2. k \in 1..Len(events)
    BY <1>1, <1>3
  <2>3. QED
    BY <2>1, <2>2 DEF Outbox!Next
<1>4. QED
  BY <1>2, <1>3

LEMMA NetworkStep ==
    ASSUME OutboxInv, Network
    PROVE  [Outbox!Next]_(Outbox!outboxVars)
<1>1. ASSUME NEW c \in Flusher, Receive(c)
      PROVE  Outbox!Next
  <2>1. pc[c] \in Sending /\ arrived' = arrived \cup Range(payload[c].events)
    BY <1>1 DEF Receive, Apply, Sending
  <2>2. /\ Len(payload[c].events) \in 0..Len(events)
        /\ Covers(payload[c], Len(payload[c].events))
    BY <2>1, UnderWay DEF OutboxInv, Covers
  <2>3. QED
    BY <1>1, <2>1, <2>2, ArriveStep DEF Receive, registryVars
<1>2. ASSUME NEW p \in late, ArriveLate(p)
      PROVE  Outbox!Next
  <2>1. PICK n \in 0..Len(events) : Covers(p, n)
    BY DEF OutboxInv, LateInv
  <2>2. QED
    BY <1>2, <2>1, ArriveStep DEF ArriveLate, Apply, registryVars
<1>3. ASSUME \/ \E c \in Flusher : TimeOut(c) \/ Refuse(c)
             \/ \E p \in late : LoseLate(p)
      PROVE  UNCHANGED Outbox!outboxVars
  BY <1>3 DEF TimeOut, Refuse, LoseLate, registryVars, receiverVars, Outbox!outboxVars
<1>4. QED
  BY <1>1, <1>2, <1>3 DEF Network

LEMMA RequestStep ==
    ASSUME OutboxInv, NEW c \in Flusher, Step(c) \/ Abort(c)
    PROVE  [Outbox!Next]_(Outbox!outboxVars)
<1>1. CASE Succeed(c)
  BY <1>1, SucceedStep
<1>2. CASE Refused(c) \/ Retry(c) \/ Abort(c)
  BY <1>2 DEF Refused, Retry, Abort, registryVars, receiverVars, Outbox!outboxVars
<1>3. QED
  BY <1>1, <1>2 DEF Step

LEMMA CallStep ==
    ASSUME \/ Start \/ Stop \/ Tick
           \/ \E c \in Caller : CallFlush(c) \/ Close(c)
    PROVE  UNCHANGED Outbox!outboxVars
BY DEF Start, Stop, Tick, CallFlush, Close, Flush, registryVars, receiverVars,
       Outbox!outboxVars

\* Every step is one of EventOutbox, or changes nothing it knows of.
LEMMA OutboxStep == OutboxInv /\ [Next]_vars => [Outbox!Next]_(Outbox!outboxVars)
<1>1. ASSUME UNCHANGED vars \/ StageValue PROVE UNCHANGED Outbox!outboxVars
  BY <1>1 DEF vars, registryVars, receiverVars, StageValue, Outbox!outboxVars
<1>2. QED
  BY <1>1, StageStep, ClearStep, CallStep, RequestStep, NetworkStep DEF Next

\* The client keeps the promise of EventOutbox: staged events wait in order,
\* leave the queue only once the receiver has had them, and are never sent
\* behind newer ones, through shared requests, retries, aborts and late
\* arrivals, when clear() is not called under a request (registry.js:297-328).
THEOREM ImplementsOutbox == Spec => OutboxSpec
<1>1. Init => Outbox!Init
  BY DEF Init, ReceiverInit, Outbox!Init
<1>2. Init => OutboxInv
  BY InitTypeInv, InitQuiet, InitOutbox DEF OutboxInv
<1>3. QED
  BY <1>1, <1>2, OutboxStep, StepOutbox, PTL DEF Spec, OutboxSpec, Outbox!Spec

------------------------------------------------------------------------------
(* Order of arrival. *)

\* The events the receiver has had, or clear() dropped.
Gone == arrived \cup discarded

\* The queue is the newest events staged, in order; all older ones are gone,
\* and none is gone before those staged ahead of it.
OrderInv ==
    /\ Len(events) <= staged
    /\ \A i \in 1..Len(events) : events[i] = (staged - Len(events)) + i
    /\ 1..(staged - Len(events)) \subseteq Gone
    /\ \A e \in Gone : 1..e \subseteq Gone

\* Every event ever staged is queued or gone, and the receiver has had none
\* ahead of one that was staged before it and is still queued.
ArrivesInOrder ==
    /\ 1..staged \subseteq Range(events) \cup arrived \cup discarded
    /\ \A e \in arrived : 1..e \subseteq arrived \cup discarded

\* The oldest n of the queue follow what is gone.
LEMMA OldestFollow ==
    ASSUME TypeInv, OrderInv, NEW n \in 0..Len(events)
    PROVE  /\ 1..((staged - Len(events)) + n) \subseteq Gone \cup First(events, n)
           /\ \A e \in Gone \cup First(events, n) : 1..e \subseteq Gone \cup First(events, n)
<1> DEFINE base == staged - Len(events)
<1>1. /\ base \in Nat /\ Len(events) \in Nat /\ 1..base \subseteq Gone
      /\ \A i \in 1..Len(events) : events[i] = base + i
  BY Lengths DEF OrderInv
<1> HIDE DEF base
<1>2. ASSUME NEW m \in 0..n, NEW x \in 1..(base + m)
      PROVE  x \in Gone \cup First(events, n)
  <2>1. CASE x <= base
    BY <1>1, <2>1
  <2>2. CASE x > base
    <3>1. x - base \in 1..n /\ x - base \in 1..Len(events) /\ base + (x - base) = x
      BY <1>1, <1>2, <2>2
    <3>2. QED
      BY <1>1, <3>1 DEF First
  <2>3. QED
    BY <1>1, <2>1, <2>2
<1>3. ASSUME NEW e \in First(events, n)
      PROVE  1..e \subseteq Gone \cup First(events, n)
  <2>1. PICK i \in 1..n : e = events[i]
    BY <1>3 DEF First
  <2>2. e = base + i /\ i \in 0..n
    BY <1>1, <2>1
  <2>3. QED
    BY <1>2, <2>2
<1>4. 1..(base + n) \subseteq Gone \cup First(events, n)
  BY <1>2
<1>5. QED
  BY <1>3, <1>4 DEF base, OrderInv

\* So they are 1..staged together with the queue.
LEMMA OrderMeans ==
    ASSUME OutboxInv, OrderInv
    PROVE  ArrivesInOrder
<1>1. Len(events) \in Nat /\ staged \in Nat /\ Range(events) = First(events, Len(events))
  BY Lengths DEF OutboxInv
<1>2. 1..((staged - Len(events)) + Len(events)) \subseteq Gone \cup First(events, Len(events))
  BY <1>1, OldestFollow DEF OutboxInv
<1>3. (staged - Len(events)) + Len(events) = staged
  BY <1>1
<1>4. QED
  BY <1>1, <1>2, <1>3 DEF ArrivesInOrder, OrderInv, Gone

\* A new event goes behind the others.
LEMMA StageOrder == OutboxInv /\ OrderInv /\ StageEvent => OrderInv'
<1> SUFFICES ASSUME OutboxInv, OrderInv, StageEvent PROVE OrderInv'
  OBVIOUS
<1>1. events \in Seq(Ids) /\ staged \in Nat /\ Len(events) \in Nat
  BY Lengths DEF OutboxInv
<1>2. events' = Append(events, staged + 1) /\ staged' = staged + 1 /\ Gone' = Gone
  BY DEF StageEvent, Gone, receiverVars
<1>3. /\ Len(events') = Len(events) + 1 /\ events'[Len(events) + 1] = staged + 1
      /\ \A i \in 1..Len(events) : events'[i] = events[i]
  BY <1>1, <1>2
<1>4. staged' - Len(events') = staged - Len(events)
  BY <1>1, <1>2, <1>3
<1>5. ASSUME NEW i \in 1..Len(events')
      PROVE  events'[i] = (staged - Len(events)) + i
  <2>1. CASE i = Len(events) + 1
    BY <1>1, <1>3, <2>1
  <2>2. CASE i # Len(events) + 1
    <3>1. i \in 1..Len(events)
      BY <1>1, <1>3, <2>2
    <3>2. QED
      BY <1>3, <3>1 DEF OrderInv
  <2>3. QED
    BY <2>1, <2>2
<1>6. Len(events') <= staged'
  BY <1>1, <1>2, <1>3 DEF OrderInv
<1>7. QED
  BY <1>2, <1>4, <1>5, <1>6 DEF OrderInv

\* What leaves the queue is gone already.
LEMMA ConfirmOrder ==
    ASSUME OutboxInv, OrderInv, NEW k \in 0..Len(events), First(events, k) \subseteq Gone,
           Len(events') = Len(events) - k,
           \A i \in 1..(Len(events) - k) : events'[i] = events[k + i],
           Gone' = Gone, staged' = staged
    PROVE  OrderInv'
<1>1. events \in Seq(Ids) /\ staged \in Nat /\ Len(events) \in Nat
  BY Lengths DEF OutboxInv
<1>2. staged - Len(events') = (staged - Len(events)) + k
  BY <1>1
<1>3. 1..((staged - Len(events)) + k) \subseteq Gone
  BY OldestFollow DEF OutboxInv
<1>4. ASSUME NEW i \in 1..(Len(events) - k)
      PROVE  events'[i] = (staged - Len(events')) + i
  <2>1. k + i \in 1..Len(events)
    BY <1>1
  <2>2. events'[i] = (staged - Len(events)) + (k + i)
    BY <2>1 DEF OrderInv
  <2>3. QED
    BY <1>1, <2>2
<1>5. Len(events') <= staged
  BY <1>1 DEF OrderInv
<1>6. QED
  BY <1>2, <1>3, <1>4, <1>5 DEF OrderInv

\* A step of the outbox that stages nothing keeps the order: a payload brings
\* the oldest of the queue, or what was gone before.
LEMMA OutboxOrder ==
    ASSUME OutboxInv, KnownInv', OrderInv, [Outbox!Next]_(Outbox!outboxVars), staged' = staged
    PROVE  OrderInv'
<1>1. events \in Seq(Ids) /\ staged \in Nat /\ Len(events) \in Nat
      /\ Range(events) = First(events, Len(events))
  BY Lengths DEF OutboxInv
<1>2. ASSUME NEW e \in Ids, Outbox!Stage(e) PROVE FALSE
  <2>1. e \notin Range(events) \cup arrived \cup discarded /\ events' = Append(events, e)
    BY <1>2 DEF Outbox!Stage, Outbox!Range, Range
  <2>2. e \in Range(events')
    BY <1>1, <2>1, AppendKeeps
  <2>3. e \in 1..staged
    BY <2>2 DEF KnownInv
  <2>4. QED
    BY <2>1, <2>3, OrderMeans DEF ArrivesInOrder
<1>3. ASSUME NEW n \in 0..Len(events), NEW again \in SUBSET (arrived \cup discarded),
             Outbox!Arrive(n, again)
      PROVE  OrderInv'
  <2>1. Gone' = Gone \cup First(events, n) /\ UNCHANGED <<events, staged>>
    BY <1>3 DEF Outbox!Arrive, Outbox!Oldest, First, Gone
  <2>2. QED
    BY <2>1, OldestFollow DEF OutboxInv, OrderInv
<1>4. ASSUME NEW n \in 1..Len(events), Outbox!Confirm(n)
      PROVE  OrderInv'
  <2>1. /\ First(events, n) \subseteq Gone /\ events' = SubSeq(events, n + 1, Len(events))
        /\ Gone' = Gone /\ n \in 0..Len(events)
    BY <1>4 DEF Outbox!Confirm, Outbox!Oldest, First, Gone
  <2>2. /\ Len(events') = Len(events) - n
        /\ \A i \in 1..(Len(events) - n) : events'[i] = events[n + i]
    BY <1>1, <2>1
  <2>3. QED
    BY <2>1, <2>2, ConfirmOrder
<1>5. CASE Outbox!Discard
  <2>1. events' = <<>> /\ Gone' = Gone \cup First(events, Len(events))
    BY <1>1, <1>5 DEF Outbox!Discard, Outbox!Range, Range, Gone
  <2>2. Len(events') = 0 /\ Len(events) \in 0..Len(events)
        /\ staged - 0 = (staged - Len(events)) + Len(events)
    BY <1>1, <2>1
  <2>3. QED
    BY <1>1, <2>1, <2>2, OldestFollow DEF OutboxInv, OrderInv
<1>6. CASE UNCHANGED Outbox!outboxVars
  BY <1>6 DEF Outbox!outboxVars, OrderInv, Gone
<1>7. QED
  BY <1>2, <1>3, <1>4, <1>5, <1>6 DEF Outbox!Next

LEMMA StepOrder == OutboxInv /\ OrderInv /\ [Next]_vars => OrderInv'
<1> SUFFICES ASSUME OutboxInv, OrderInv, [Next]_vars PROVE OrderInv'
  OBVIOUS
<1>1. CASE StageEvent
  BY <1>1, StageOrder
<1>2. CASE ~StageEvent
  <2>1. staged' = staged
    BY <1>2 DEF Next, Clear, StageValue, Start, Stop, Tick, CallFlush, Close, Flush, Step,
                Succeed, Refused, Retry, Abort, Network, Receive, Refuse, TimeOut,
                ArriveLate, LoseLate, vars, registryVars
  <2>2. KnownInv'
    BY StepOutbox DEF OutboxInv
  <2>3. QED
    BY <2>1, <2>2, OutboxStep, OutboxOrder
<1>3. QED
  BY <1>1, <1>2

\* Every event staged is still queued, has arrived, or was cleared, and events
\* arrive in the order they were staged, through retries, aborted signals and
\* requests that arrive late, when clear() is not called under a request
\* (registry.js:310-330).
THEOREM ArriveInOrder == Spec => []ArrivesInOrder
<1>1. Init => OutboxInv /\ OrderInv
  BY InitTypeInv, InitQuiet, InitOutbox, JsAssumption, ReceiverAssumption
     DEF Init, ReceiverInit, OutboxInv, OrderInv, Gone
<1>2. QED
  BY <1>1, StepOutbox, StepOrder, OrderMeans, PTL DEF Spec
==============================================================================
