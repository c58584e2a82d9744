---------------------------- MODULE DotnetProofs ----------------------------
(***************************************************************************)
(* Proofs about DotnetClient, for every set of tasks, retry limit and      *)
(* bound: its types, that the gate lets one task in at a time and forgets  *)
(* nobody who waits, that a call that succeeded has sent what was staged   *)
(* before it, that events arrive in order and what is shown never gets     *)
(* older, and that the client implements EventOutbox.                      *)
(***************************************************************************)
EXTENDS DotnetClient, TLAPS

Sending == {"posting", "backoff", "trimming"}
Waiting == {"joining", "queued", "locked"}
Inside  == Sending \cup {"locked"}
Done    == {"idle", "cleaning", "ended", "faulted"}

\* Every element of s at most once.
Once(s) == \A i, j \in 1..Len(s) : s[i] = s[j] => i = j

\* Whoever is past WaitAsync and before Release holds the gate, and a task
\* waits for it in one place at most.
GateInv ==
    /\ \A t \in Task : pc[t] \in Inside <=> holder = t
    /\ \A t \in Range(waiters) : pc[t] = "queued"
    /\ Once(waiters)

\* Only PostAsync counts attempts, and it waits only when another one is left.
AttemptInv ==
    \A t \in Task :
        /\ pc[t] = "backoff" => attempt[t] <= MaxRetries
        /\ pc[t] \notin Sending => attempt[t] = 0

Places == {"idle", "joining", "queued", "locked", "posting", "backoff",
           "trimming", "cleaning", "ended", "faulted"}

\* TypeOK in four parts, with the two invariants it needs.
RestOK ==
    /\ events \in Seq(Ids) /\ discarded \subseteq Ids
    /\ gauge \in Gauges /\ lastGauge \in Gauges /\ staged \in 0..MaxEvents
    /\ disposer \in Caller \cup {None}
    /\ unmet \in [Task -> SUBSET Ids]
    /\ payload \in [Task -> Payloads]
    /\ late \subseteq Payloads
    /\ ReceiverTypeOK

FlagOK == {disposed, cleaned} \subseteq BOOLEAN

GateOK ==
    /\ holder \in Task \cup {None}
    /\ waiters \in Seq(Task)
    /\ pc \in [Task -> Places]
    /\ GateInv

AttemptOK == attempt \in [Task -> 0..(MaxRetries + 1)] /\ AttemptInv

TypeInv == RestOK /\ FlagOK /\ GateOK /\ AttemptOK

\* The events of a payload under way are the oldest of the queue.
PrefixInv ==
    \A t \in Task : pc[t] \in Sending =>
        /\ Len(payload[t].events) <= Len(events)
        /\ \A i \in 1..Len(payload[t].events) : payload[t].events[i] = events[i]

\* After a 2xx the receiver has them.
DeliveredInv ==
    \A t \in Task : pc[t] = "trimming" => Range(payload[t].events) \subseteq arrived

\* What a call still owes is queued until it makes its snapshot, and in its
\* payload from then on.
OwedInv ==
    \A t \in Task :
        /\ pc[t] \in Waiting => unmet[t] \subseteq Range(events) \cup arrived \cup discarded
        /\ pc[t] \in Sending =>
              unmet[t] \subseteq Range(payload[t].events) \cup arrived \cup discarded
        /\ pc[t] \in Done => unmet[t] = {}

QuietInv == PrefixInv /\ DeliveredInv /\ OwedInv

------------------------------------------------------------------------------
(* Sequences, and sequences without repetition. *)

LEMMA RangeOfSeq ==
    ASSUME NEW S, NEW s \in Seq(S)
    PROVE  Range(s) = {s[i] : i \in 1..Len(s)} /\ Range(s) \subseteq S
BY DEF Range

LEMMA AppendKeeps ==
    ASSUME NEW S, NEW s \in Seq(S), NEW e \in S
    PROVE  /\ Append(s, e) \in Seq(S) /\ Len(Append(s, e)) = Len(s) + 1
           /\ \A i \in 1..Len(s) : Append(s, e)[i] = s[i]
           /\ Range(Append(s, e)) = Range(s) \cup {e}
<1>1. /\ Append(s, e) \in Seq(S) /\ Len(Append(s, e)) = Len(s) + 1
      /\ \A i \in 1..Len(s) : Append(s, e)[i] = s[i]
  OBVIOUS
<1>2. Append(s, e)[Len(s) + 1] = e
  OBVIOUS
<1>3. /\ Range(Append(s, e)) = {Append(s, e)[i] : i \in 1..(Len(s) + 1)}
      /\ Range(s) = {s[i] : i \in 1..Len(s)}
  BY <1>1, RangeOfSeq
<1>4. Range(s) \cup {e} \subseteq Range(Append(s, e))
  BY <1>1, <1>2, <1>3
<1>5. Range(Append(s, e)) \subseteq Range(s) \cup {e}
  BY <1>1, <1>2, <1>3
<1>6. QED
  BY <1>1, <1>4, <1>5

\* Cutting the first Len(p) elements off s, of which p is a prefix, loses
\* nothing that is not in p.
LEMMA CutPrefix ==
    ASSUME NEW S, NEW s \in Seq(S), NEW p \in Seq(S), Len(p) <= Len(s),
           \A i \in 1..Len(p) : p[i] = s[i]
    PROVE  Range(s) \subseteq Range(SubSeq(s, Len(p) + 1, Len(s))) \cup Range(p)
<1> DEFINE r == SubSeq(s, Len(p) + 1, Len(s))
<1>1. r \in Seq(S) /\ Len(r) = Len(s) - Len(p)
  OBVIOUS
<1>2. \A j \in 1..(Len(s) - Len(p)) : r[j] = s[Len(p) + j]
  OBVIOUS
<1> HIDE DEF r
<1>3. /\ Range(s) = {s[i] : i \in 1..Len(s)}
      /\ Range(p) = {p[i] : i \in 1..Len(p)}
      /\ Range(r) = {r[i] : i \in 1..Len(r)}
  BY <1>1, RangeOfSeq
<1>4. ASSUME NEW i \in 1..Len(s) PROVE s[i] \in Range(r) \cup Range(p)
  <2>1. CASE i <= Len(p)
    <3>1. i \in 1..Len(p)
      BY <2>1
    <3>2. QED
      BY <1>3, <3>1
  <2>2. CASE i > Len(p)
    <3>1. i - Len(p) \in 1..(Len(s) - Len(p)) /\ Len(p) + (i - Len(p)) = i
      BY <2>2
    <3>2. i - Len(p) \in 1..Len(r) /\ r[i - Len(p)] = s[i]
      BY <1>1, <1>2, <3>1
    <3>3. QED
      BY <1>3, <3>2
  <2>3. QED
    BY <2>1, <2>2
<1>5. QED
  BY <1>3, <1>4 DEF r

LEMMA TailOnce ==
    ASSUME NEW S, NEW s \in Seq(S), s # <<>>, Once(s)
    PROVE  /\ Head(s) \in S /\ Head(s) \in Range(s) /\ Tail(s) \in Seq(S) /\ Once(Tail(s))
           /\ Range(Tail(s)) = Range(s) \ {Head(s)}
<1>1. /\ Tail(s) \in Seq(S) /\ Len(Tail(s)) = Len(s) - 1 /\ Len(s) \in Nat \ {0}
      /\ Head(s) = s[1] /\ s[1] \in S
      /\ \A i \in 1..Len(Tail(s)) : Tail(s)[i] = s[i + 1]
  OBVIOUS
<1>2. /\ Range(s) = {s[i] : i \in 1..Len(s)}
      /\ Range(Tail(s)) = {Tail(s)[i] : i \in 1..Len(Tail(s))}
  BY <1>1, RangeOfSeq
<1>3. \A i \in 1..Len(Tail(s)) : i + 1 \in 1..Len(s) /\ i + 1 # 1 /\ 1 \in 1..Len(s)
  BY <1>1
<1>4. Once(Tail(s))
  <2> SUFFICES ASSUME NEW i \in 1..Len(Tail(s)), NEW j \in 1..Len(Tail(s)),
                      Tail(s)[i] = Tail(s)[j]
               PROVE  i = j
    BY DEF Once
  <2>1. s[i + 1] = s[j + 1] /\ i + 1 \in 1..Len(s) /\ j + 1 \in 1..Len(s)
    BY <1>1, <1>3
  <2>2. i + 1 = j + 1
    BY <2>1 DEF Once
  <2>3. QED
    BY <1>1, <2>2
<1>5. Range(Tail(s)) \subseteq Range(s) \ {Head(s)}
  <2> SUFFICES ASSUME NEW i \in 1..Len(Tail(s))
               PROVE  Tail(s)[i] \in Range(s) /\ Tail(s)[i] # s[1]
    BY <1>1, <1>2
  <2>1. Tail(s)[i] = s[i + 1] /\ i + 1 \in 1..Len(s) /\ i + 1 # 1 /\ 1 \in 1..Len(s)
    BY <1>1, <1>3
  <2>2. QED
    BY <1>2, <2>1 DEF Once
<1>6. Head(s) \in Range(s)
  BY <1>1, <1>2
<1>7. ASSUME NEW k \in 1..Len(s), s[k] # s[1] PROVE s[k] \in Range(Tail(s))
  <2>1. k - 1 \in 1..Len(Tail(s)) /\ (k - 1) + 1 = k
    BY <1>1, <1>7
  <2>2. QED
    BY <1>1, <1>2, <2>1
<1>8. Range(s) \ {Head(s)} \subseteq Range(Tail(s))
  BY <1>1, <1>2, <1>7
<1>9. QED
  BY <1>1, <1>4, <1>5, <1>6, <1>8

LEMMA AppendOnce ==
    ASSUME NEW S, NEW s \in Seq(S), NEW e \in S, Once(s), e \notin Range(s)
    PROVE  Append(s, e) \in Seq(S) /\ Once(Append(s, e)) /\ Range(Append(s, e)) = Range(s) \cup {e}
<1>1. /\ Append(s, e) \in Seq(S) /\ Len(Append(s, e)) = Len(s) + 1 /\ Len(s) \in Nat
      /\ \A i \in 1..Len(s) : Append(s, e)[i] = s[i]
      /\ Range(Append(s, e)) = Range(s) \cup {e}
  BY AppendKeeps
<1>2. Append(s, e)[Len(s) + 1] = e
  OBVIOUS
<1>3. \A i \in 1..Len(s) : s[i] # e
  BY RangeOfSeq
<1>4. Once(Append(s, e))
  <2> SUFFICES ASSUME NEW i \in 1..(Len(s) + 1), NEW j \in 1..(Len(s) + 1),
                      Append(s, e)[i] = Append(s, e)[j]
               PROVE  i = j
    BY <1>1 DEF Once
  <2>1. CASE i \in 1..Len(s) /\ j \in 1..Len(s)
    BY <1>1, <2>1 DEF Once
  <2>2. CASE i = Len(s) + 1 /\ j \in 1..Len(s)
    BY <1>1, <1>2, <1>3, <2>2
  <2>3. CASE i \in 1..Len(s) /\ j = Len(s) + 1
    BY <1>1, <1>2, <1>3, <2>3
  <2>4. QED
    BY <1>1, <2>1, <2>2, <2>3
<1>5. QED
  BY <1>1, <1>4

\* A cancelled task leaves the queue of the gate.
LEMMA RemoveOnce ==
    ASSUME NEW S, NEW s \in Seq(S), NEW e \in Range(s), Once(s)
    PROVE  /\ Queue!RemoveFirst(s, e) \in Seq(S) /\ Once(Queue!RemoveFirst(s, e))
           /\ Range(Queue!RemoveFirst(s, e)) = Range(s) \ {e}
<1>1. Range(s) = {s[i] : i \in 1..Len(s)}
  BY RangeOfSeq
<1>2. PICK k \in 1..Len(s) : s[k] = e
  BY <1>1
<1>3. \A i \in 1..Len(s) : s[i] = e => i = k
  BY <1>2 DEF Once
<1>4. Queue!RemoveFirst(s, e) = SubSeq(s, 1, k - 1) \o SubSeq(s, k + 1, Len(s))
  <2>1. {i \in 1..Len(s) : s[i] = e} = {k}
    BY <1>2, <1>3
  <2>2. (CHOOSE x \in {k} : \A y \in {k} : x =< y) = k
    BY <1>2
  <2>3. Queue!SelectInSeq(s, LAMBDA v : v = e) = k
    BY <2>1, <2>2 DEF Queue!SelectInSeq, Queue!Min
  <2>4. QED
    BY <1>2, <2>3 DEF Queue!RemoveFirst, Queue!RemoveAt
<1>5. PICK r : r = Queue!RemoveFirst(s, e)
  OBVIOUS
<1>6. /\ r \in Seq(S) /\ Len(r) = Len(s) - 1 /\ Len(s) \in Nat
      /\ \A i \in 1..(Len(s) - 1) : r[i] = IF i < k THEN s[i] ELSE s[i + 1]
  <2>1. Len(s) \in Nat /\ k \in Nat /\ 1 <= k /\ k <= Len(s)
    BY <1>2
  <2>2. PICK a : a = SubSeq(s, 1, k - 1)
    OBVIOUS
  <2>3. a \in Seq(S) /\ Len(a) = k - 1 /\ \A i \in 1..(k - 1) : a[i] = s[i]
    BY <2>1, <2>2
  <2>4. PICK b : b = SubSeq(s, k + 1, Len(s))
    OBVIOUS
  <2>5. b \in Seq(S) /\ Len(b) = Len(s) - k /\ \A i \in 1..(Len(s) - k) : b[i] = s[k + i]
    BY <2>1, <2>4
  <2>6. r = a \o b
    BY <1>4, <1>5, <2>2, <2>4
  <2>7. r \in Seq(S) /\ Len(r) = Len(s) - 1
    BY <2>1, <2>3, <2>5, <2>6
  <2>8. ASSUME NEW i \in 1..(Len(s) - 1), i < k PROVE r[i] = s[i]
    BY <2>1, <2>3, <2>5, <2>6, <2>8
  <2>9. ASSUME NEW i \in 1..(Len(s) - 1), ~(i < k) PROVE r[i] = s[i + 1]
    <3>1. r[i] = b[i - (k - 1)]
      BY <2>1, <2>3, <2>5, <2>6, <2>9
    <3>2. i - (k - 1) \in 1..(Len(s) - k) /\ k + (i - (k - 1)) = i + 1
      BY <2>1, <2>9
    <3>3. QED
      BY <2>5, <3>1, <3>2
  <2>10. QED
    BY <2>1, <2>7, <2>8, <2>9
<1>7. Once(r)
  <2> SUFFICES ASSUME NEW i \in 1..(Len(s) - 1), NEW j \in 1..(Len(s) - 1), r[i] = r[j]
               PROVE  i = j
    BY <1>6 DEF Once
  <2>1. PICK a, b : a = (IF i < k THEN i ELSE i + 1) /\ b = (IF j < k THEN j ELSE j + 1)
    OBVIOUS
  <2>2. a \in 1..Len(s) /\ b \in 1..Len(s) /\ (a = b => i = j)
    BY <1>2, <1>6, <2>1
  <2>3. s[a] = s[b]
    BY <1>6, <2>1
  <2>4. QED
    BY <2>2, <2>3 DEF Once
<1>8. Range(r) \subseteq Range(s) \ {e}
  <2>1. Range(r) = {r[i] : i \in 1..(Len(s) - 1)}
    BY <1>6, RangeOfSeq
  <2> SUFFICES ASSUME NEW i \in 1..(Len(s) - 1)
               PROVE  r[i] \in Range(s) /\ r[i] # e
    BY <2>1
  <2>2. PICK a : a = (IF i < k THEN i ELSE i + 1)
    OBVIOUS
  <2>3. a \in 1..Len(s) /\ a # k
    BY <1>2, <1>6, <2>2
  <2>4. r[i] = s[a]
    BY <1>6, <2>2
  <2>5. QED
    BY <1>1, <1>3, <2>3, <2>4
<1>9. ASSUME NEW a \in 1..Len(s), s[a] # e PROVE s[a] \in Range(r)
  <2>1. Range(r) = {r[i] : i \in 1..(Len(s) - 1)}
    BY <1>6, RangeOfSeq
  <2>2. CASE a < k
    <3>1. a \in 1..(Len(s) - 1) /\ r[a] = s[a]
      BY <1>6, <2>2
    <3>2. QED
      BY <2>1, <3>1
  <2>3. CASE ~(a < k)
    <3>1. a # k
      BY <1>2, <1>9
    <3>2. a - 1 \in 1..(Len(s) - 1) /\ ~(a - 1 < k) /\ (a - 1) + 1 = a
      BY <1>6, <2>3, <3>1
    <3>3. r[a - 1] = s[a]
      BY <1>6, <3>2
    <3>4. QED
      BY <2>1, <3>2, <3>3
  <2>4. QED
    BY <2>2, <2>3
<1>10. Range(s) \ {e} \subseteq Range(r)
  BY <1>1, <1>9
<1>11. QED
  BY <1>5, <1>6, <1>7, <1>8, <1>10

------------------------------------------------------------------------------
(* Types, the gate and the attempts. *)

LEMMA InitTypeInv == Init => TypeInv
<1> SUFFICES ASSUME Init PROVE TypeInv
  OBVIOUS
<1>1. Unsent \in Payloads /\ 0 \in Gauges
  BY ReceiverAssumption DEF Unsent, Payloads, Gauges
<1>2. RestOK
  BY <1>1, ReceiverAssumption DEF Init, ReceiverInit, RestOK, ReceiverTypeOK
<1>3. FlagOK
  BY DEF Init, FlagOK
<1>4. GateOK
  <2>1. waiters = <<>> /\ Len(waiters) = 0 /\ waiters \in Seq(Task) /\ holder = None
    BY DEF Init
  <2>2. Range(waiters) = {} /\ Once(waiters)
    <3>1. Range(waiters) = {waiters[i] : i \in 1..Len(waiters)}
      <4>1. waiters \in Seq(Task)
        BY <2>1
      <4>2. QED
        BY <4>1, RangeOfSeq
    <3>2. 1..0 = {}
      OBVIOUS
    <3>3. QED
      BY <2>1, <3>1, <3>2 DEF Once
  <2>3. pc \in [Task -> Places] /\ \A t \in Task : pc[t] \in {"idle", "ended"}
    BY DEF Init, Places
  <2>4. QED
    BY <2>1, <2>2, <2>3, DotnetAssumption DEF GateOK, GateInv, Inside, Sending, Task
<1>5. AttemptOK
  BY DotnetAssumption DEF Init, AttemptOK, AttemptInv
<1>6. QED
  BY <1>2, <1>3, <1>4, <1>5 DEF TypeInv

LEMMA ApplyTypes ==
    ASSUME RestOK, NEW p \in Payloads, Apply(p)
    PROVE  /\ arrived' \subseteq Ids /\ shown' \in Gauges
           /\ arrived' = arrived \cup Range(p.events)
<1>1. p.events \in Seq(Ids) /\ p.gauge \in Gauges
  BY DEF Payloads
<1>2. Range(p.events) \subseteq Ids
  BY <1>1, RangeOfSeq
<1>3. QED
  BY <1>1, <1>2 DEF Apply, RestOK, ReceiverTypeOK

\* Only one task is inside FlushAsync.
LEMMA Alone ==
    ASSUME GateOK, NEW t \in Task, pc[t] \in Inside
    PROVE  \A u \in Task : pc[u] \in Inside => u = t
BY DEF GateOK, GateInv

LEMMA WaitGate ==
    ASSUME GateOK, NEW t \in Task, pc[t] \in {"idle", "joining"}, Wait(t)
    PROVE  /\ GateOK'
           /\ pc'[t] \in {"queued", "locked"}
           /\ \A u \in Task : u # t => pc'[u] = pc[u]
<1> USE DEF GateOK, GateInv, Inside, Sending, Places
<1>1. CASE holder = None
  <2>1. /\ holder' = t /\ waiters' = waiters /\ pc' = [pc EXCEPT ![t] = "locked"]
    BY <1>1 DEF Wait
  <2>2. \A u \in Task : pc'[u] = IF u = t THEN "locked" ELSE pc[u]
    BY <2>1
  <2>3. \A u \in Task : pc[u] \notin Inside
    BY <1>1, DotnetAssumption DEF Task
  <2>4. \A u \in Range(waiters) : u \in Task /\ u # t
    BY RangeOfSeq
  <2>5. pc' \in [Task -> Places]
    BY <2>1
  <2>6. QED
    BY <2>1, <2>2, <2>3, <2>4, <2>5
<1>2. CASE holder # None
  <2>1. t \notin Range(waiters)
    OBVIOUS
  <2>2. /\ waiters' \in Seq(Task) /\ Once(waiters')
        /\ Range(waiters') = Range(waiters) \cup {t}
    <3>1. waiters \in Seq(Task) /\ Once(waiters)
      OBVIOUS
    <3>2. waiters' = Append(waiters, t)
      BY <1>2 DEF Wait
    <3>3. QED
      BY <2>1, <3>1, <3>2, AppendOnce
  <2>3. /\ pc' = [pc EXCEPT ![t] = "queued"] /\ holder' = holder
    BY <1>2 DEF Wait
  <2>4. \A u \in Task : pc'[u] = IF u = t THEN "queued" ELSE pc[u]
    BY <2>3
  <2>5. Range(waiters) \subseteq Task
    BY RangeOfSeq
  <2>6. QED
    BY <2>2, <2>3, <2>4, <2>5
<1>3. QED
  BY <1>1, <1>2

LEMMA ReleaseGate ==
    ASSUME GateOK, NEW t \in Task, pc[t] \in Inside, NEW next \in Done, NEW how,
           Release(t, next, how)
    PROVE  /\ GateOK'
           /\ pc'[t] = next
           /\ \A u \in Task : u # t =>
                 pc'[u] = pc[u] \/ (pc[u] = "queued" /\ pc'[u] = "locked")
<1> USE DEF GateOK, GateInv
<1>1. next \in Places /\ next \notin Inside /\ next # "queued"
  BY DEF Places, Inside, Sending, Done
<1>2. CASE ~cleaned /\ waiters # <<>>
  <2>1. PICK h : h = Head(waiters)
    OBVIOUS
  <2>2. /\ h \in Task /\ h \in Range(waiters)
        /\ Tail(waiters) \in Seq(Task) /\ Once(Tail(waiters))
        /\ Range(Tail(waiters)) \subseteq Range(waiters) \ {h}
    BY <1>2, <2>1, TailOnce
  <2>3. /\ holder' = h /\ waiters' = Tail(waiters)
        /\ pc' = [pc EXCEPT ![t] = next, ![h] = "locked"]
    BY <1>2, <2>1 DEF Release
  <2>4. pc[h] = "queued" /\ h # t
    BY <2>2 DEF Inside, Sending
  <2>5. \A u \in Task : pc'[u] = IF u = h THEN "locked" ELSE IF u = t THEN next ELSE pc[u]
    BY <2>3, <2>4
  <2>6. pc' \in [Task -> Places]
    BY <1>1, <2>3 DEF Places
  <2>7. \A u \in Task : pc'[u] \in Inside <=> u = h
    BY <1>1, <2>5 DEF Inside, Sending
  <2>8. \A u \in Range(waiters') : pc'[u] = "queued"
    <3>1. Range(waiters) \subseteq Task
      BY RangeOfSeq
    <3>2. ASSUME NEW u \in Range(waiters') PROVE u \in Task /\ u # h /\ pc[u] = "queued"
      BY <2>2, <2>3, <3>1
    <3>3. \A u \in Range(waiters') : u # t
      BY <3>2 DEF Inside, Sending
    <3>4. QED
      BY <2>5, <3>2, <3>3
  <2>9. QED
    BY <2>2, <2>3, <2>4, <2>5, <2>6, <2>7, <2>8
<1>3. CASE ~(~cleaned /\ waiters # <<>>)
  <2>1. /\ holder' = None /\ waiters' = waiters /\ pc' = [pc EXCEPT ![t] = next]
    BY <1>3 DEF Release
  <2>2. \A u \in Task : pc'[u] = IF u = t THEN next ELSE pc[u]
    BY <2>1
  <2>3. pc' \in [Task -> Places]
    BY <1>1, <2>1
  <2>4. \A u \in Task : pc'[u] \notin Inside
    BY <1>1, <2>2, Alone
  <2>5. \A u \in Range(waiters) : u \in Task /\ u # t
    <3>1. Range(waiters) \subseteq Task
      BY RangeOfSeq
    <3>2. QED
      BY <3>1 DEF Inside, Sending
  <2>6. QED
    BY <2>1, <2>2, <2>3, <2>4, <2>5, DotnetAssumption DEF Task
<1>4. QED
  BY <1>2, <1>3

\* Return keeps the three, whatever happens to the queue.
LEMMA ReturnTypeInv ==
    ASSUME TypeInv, NEW t \in Task, pc[t] \in Inside, NEW result, Return(t, result),
           events' \in Seq(Ids), late' \subseteq Payloads,
           arrived' \subseteq Ids, shown' \in Gauges,
           UNCHANGED <<gauge, staged, lastGauge, discarded>>
    PROVE  TypeInv'
<1>1. RestOK /\ FlagOK /\ GateOK /\ AttemptOK
  BY DEF TypeInv
<1>2. PICK how, next :
         /\ next \in {"idle", "ended", "faulted", "cleaning"}
         /\ Release(t, next, how)
         /\ disposer' = IF t = disposer /\ next = "idle" THEN None ELSE disposer
         /\ unmet' = [unmet EXCEPT ![t] = IF how = "ok" THEN @ \ (arrived \cup discarded)
                                                        ELSE {}]
         /\ payload' = [payload EXCEPT ![t] = Unsent]
         /\ attempt' = [attempt EXCEPT ![t] = 0]
         /\ UNCHANGED <<disposed, cleaned>>
  BY DEF Return
<1>3. /\ GateOK' /\ pc'[t] = next
      /\ \A u \in Task : u # t => pc'[u] = pc[u] \/ (pc[u] = "queued" /\ pc'[u] = "locked")
  BY <1>1, <1>2, ReleaseGate DEF Done
<1>4. RestOK'
  <2>1. Unsent \in Payloads
    BY ReceiverAssumption DEF Unsent, Payloads, Gauges
  <2>2. disposer' \in Caller \cup {None}
    BY <1>1, <1>2 DEF RestOK
  <2>3. unmet' \in [Task -> SUBSET Ids]
    BY <1>1, <1>2 DEF RestOK
  <2>4. QED
    BY <1>1, <1>2, <2>1, <2>2, <2>3 DEF RestOK, ReceiverTypeOK
<1>5. FlagOK'
  BY <1>1, <1>2 DEF FlagOK
<1>6. AttemptOK'
  <2>1. \A u \in Task : attempt'[u] = IF u = t THEN 0 ELSE attempt[u]
    BY <1>1, <1>2 DEF AttemptOK
  <2>2. attempt' \in [Task -> 0..(MaxRetries + 1)]
    BY <1>1, <1>2, DotnetAssumption DEF AttemptOK
  <2>3. \A u \in Task : u # t => /\ pc'[u] \in Sending <=> pc[u] \in Sending
                                 /\ pc'[u] = "backoff" <=> pc[u] = "backoff"
    BY <1>3 DEF Sending
  <2>4. AttemptInv'
    BY <1>1, <1>2, <1>3, <2>1, <2>3 DEF AttemptOK, AttemptInv, Sending
  <2>5. QED
    BY <2>2, <2>4 DEF AttemptOK
<1>7. QED
  BY <1>3, <1>4, <1>5, <1>6 DEF TypeInv

\* A task that moves on under the gate keeps them.
LEMMA MoveTypeInv ==
    ASSUME TypeInv, NEW t \in Task, pc[t] \in Inside, NEW p \in Sending,
           NEW n \in 0..(MaxRetries + 1), p = "backoff" => n <= MaxRetries,
           pc' = [pc EXCEPT ![t] = p],
           attempt' = [attempt EXCEPT ![t] = n],
           payload' \in [Task -> Payloads], late' \subseteq Payloads,
           arrived' \subseteq Ids, shown' \in Gauges,
           UNCHANGED <<registryVars, lifeVars, holder, waiters, unmet>>
    PROVE  TypeInv'
<1>1. RestOK /\ FlagOK /\ GateOK /\ AttemptOK
  BY DEF TypeInv
<1>2. \A u \in Task : /\ pc'[u] = IF u = t THEN p ELSE pc[u]
                      /\ attempt'[u] = IF u = t THEN n ELSE attempt[u]
  BY <1>1 DEF GateOK, AttemptOK
<1>3. RestOK'
  BY <1>1 DEF RestOK, ReceiverTypeOK, registryVars, lifeVars
<1>4. FlagOK'
  BY <1>1 DEF FlagOK, lifeVars
<1>5. GateOK'
  <2>1. pc' \in [Task -> Places]
    BY <1>1 DEF GateOK, Places, Sending
  <2>2. \A u \in Range(waiters) : u \in Task /\ u # t
    BY <1>1, RangeOfSeq DEF GateOK, GateInv, Inside, Sending
  <2>3. QED
    BY <1>1, <1>2, <2>1, <2>2 DEF GateOK, GateInv, Inside
<1>6. AttemptOK'
  BY <1>1, <1>2 DEF AttemptOK, AttemptInv
<1>7. QED
  BY <1>3, <1>4, <1>5, <1>6 DEF TypeInv

LEMMA FailedTypeInv ==
    ASSUME TypeInv, NEW t \in Task, pc[t] = "posting",
           AttemptFails(t) \/ Enter(t, "trimming"),
           late' \subseteq Payloads, arrived' \subseteq Ids, shown' \in Gauges,
           UNCHANGED registryVars
    PROVE  TypeInv'
<1>1. RestOK /\ attempt \in [Task -> 0..(MaxRetries + 1)] /\ attempt[t] \in 0..(MaxRetries + 1)
  BY DEF TypeInv, AttemptOK
<1>2. pc[t] \in Inside /\ {"trimming", "backoff"} \subseteq Sending
  BY DEF Inside, Sending
<1>3. ASSUME NEW p \in {"trimming", "backoff"}, Enter(t, p),
             p = "backoff" => attempt[t] <= MaxRetries
      PROVE  TypeInv'
  <2>1. attempt' = [attempt EXCEPT ![t] = attempt[t]] /\ payload' \in [Task -> Payloads]
    BY <1>1, <1>3 DEF Enter, RestOK
  <2>2. QED
    BY <1>1, <1>2, <1>3, <2>1, MoveTypeInv DEF Enter
<1>4. ASSUME Return(t, "failed") PROVE TypeInv'
  BY <1>1, <1>2, <1>4, ReturnTypeInv DEF RestOK, registryVars
<1>5. attempt[t] > MaxRetries \/ attempt[t] <= MaxRetries
  BY <1>1, DotnetAssumption
<1>6. QED
  BY <1>3, <1>4, <1>5 DEF AttemptFails

LEMMA StagingTypeInv ==
    ASSUME TypeInv, StageEvent \/ StageValue \/ Clear
    PROVE  TypeInv'
<1>1. RestOK /\ FlagOK /\ GateOK /\ AttemptOK
  BY DEF TypeInv
<1>2. RestOK'
  <2>1. CASE StageEvent
    <3>1. staged + 1 \in Ids /\ staged + 1 \in 0..MaxEvents
      BY <1>1, <2>1, ReceiverAssumption DEF RestOK, StageEvent, Ids
    <3>2. QED
      BY <1>1, <2>1, <3>1 DEF RestOK, ReceiverTypeOK, StageEvent, lifeVars, sendVars, receiverVars
  <2>2. CASE StageValue
    <3>1. lastGauge + 1 \in Gauges
      BY <1>1, <2>2, ReceiverAssumption DEF RestOK, StageValue, Gauges
    <3>2. QED
      BY <1>1, <2>2, <3>1 DEF RestOK, ReceiverTypeOK, StageValue, lifeVars, sendVars, receiverVars
  <2>3. CASE Clear
    <3>1. Range(events) \subseteq Ids /\ 0 \in Gauges /\ <<>> \in Seq(Ids)
      BY <1>1, RangeOfSeq, ReceiverAssumption DEF RestOK, Gauges
    <3>2. QED
      BY <1>1, <2>3, <3>1 DEF RestOK, ReceiverTypeOK, Clear, lifeVars, sendVars, receiverVars
  <2>4. QED
    BY <2>1, <2>2, <2>3
<1>3. UNCHANGED <<lifeVars, sendVars>>
  BY DEF StageEvent, StageValue, Clear
<1>4. FlagOK' /\ GateOK' /\ AttemptOK'
  BY <1>1, <1>3 DEF FlagOK, GateOK, GateInv, AttemptOK, AttemptInv, lifeVars, sendVars
<1>5. QED
  BY <1>2, <1>4 DEF TypeInv

\* A task outside FlushAsync that goes elsewhere outside keeps the gate.
LEMMA OutsideGate ==
    ASSUME GateOK, AttemptOK, NEW t \in Task, pc[t] \in Done \cup {"joining"},
           NEW p \in Done \cup {"joining"}, pc' = [pc EXCEPT ![t] = p],
           UNCHANGED <<holder, waiters, attempt>>
    PROVE  GateOK' /\ AttemptOK'
<1>1. \A u \in Task : pc'[u] = IF u = t THEN p ELSE pc[u]
  BY DEF GateOK
<1>2. pc' \in [Task -> Places]
  BY DEF GateOK, Places, Done
<1>3. \A u \in Range(waiters) : u \in Task /\ u # t
  BY RangeOfSeq DEF GateOK, GateInv, Done
<1>4. GateOK'
  BY <1>1, <1>2, <1>3 DEF GateOK, GateInv, Inside, Sending, Done
<1>5. AttemptOK'
  BY <1>1 DEF AttemptOK, AttemptInv, Sending, Done
<1>6. QED
  BY <1>4, <1>5

LEMMA CallTypeInv ==
    ASSUME TypeInv,
           NEW t \in Task, FlushAsync(t) \/ (t \in Caller /\ (DisposeAsync(t) \/ Dispose(t) \/ Finish(t)))
    PROVE  TypeInv'
<1>1. RestOK /\ FlagOK /\ GateOK /\ AttemptOK
  BY DEF TypeInv
<1>2. Range(events) \subseteq Ids
  BY <1>1, RangeOfSeq DEF RestOK
<1>3. RestOK'
  <2>1. unmet' \in [Task -> SUBSET Ids]
    BY <1>1, <1>2
       DEF RestOK, FlushAsync, Undertake, DisposeAsync, Dispose, Finish, Joined, JoinThrows,
           Cleanup, sendVars
  <2>2. disposer' \in Caller \cup {None}
    BY <1>1 DEF RestOK, FlushAsync, DisposeAsync, Dispose, Finish, Joined, JoinThrows,
                Cleanup, lifeVars
  <2>3. UNCHANGED <<registryVars, payload, late, receiverVars>>
    BY DEF FlushAsync, DisposeAsync, Dispose, Finish, Joined, JoinThrows, Cleanup, sendVars
  <2>4. QED
    BY <1>1, <2>1, <2>2, <2>3 DEF RestOK, ReceiverTypeOK, registryVars, receiverVars
<1>4. FlagOK'
  BY <1>1 DEF FlagOK, FlushAsync, DisposeAsync, Dispose, Finish, Joined, JoinThrows, Cleanup,
              lifeVars
<1>5. GateOK' /\ AttemptOK'
  <2>1. CASE (FlushAsync(t) \/ Joined(t))
    <3>1. pc[t] \in {"idle", "joining"} /\ Wait(t) /\ attempt' = attempt
      BY <2>1 DEF FlushAsync, Joined
    <3>2. GateOK' /\ pc'[t] \in {"queued", "locked"} /\ \A u \in Task : u # t => pc'[u] = pc[u]
      BY <1>1, <3>1, WaitGate
    <3>3. AttemptOK'
      BY <1>1, <3>1, <3>2 DEF AttemptOK, AttemptInv, Sending
    <3>4. QED
      BY <3>2, <3>3
  <2>2. CASE DisposeAsync(t) \/ Dispose(t) \/ JoinThrows(t) \/ Cleanup(t)
    BY <1>1, <2>2, OutsideGate DEF DisposeAsync, Dispose, JoinThrows, Cleanup, Done
  <2>3. QED
    BY <2>1, <2>2 DEF Finish
<1>6. QED
  BY <1>3, <1>4, <1>5 DEF TypeInv

LEMMA QuitTypeInv == TypeInv /\ Quit => TypeInv'
<1> SUFFICES ASSUME TypeInv, Quit PROVE TypeInv'
  OBVIOUS
<1>1. RestOK /\ FlagOK /\ GateOK /\ AttemptOK
  BY DEF TypeInv
<1>2. PICK p \in {"ended", "faulted"} : pc' = [pc EXCEPT ![Loop] = p]
  BY DEF Quit
<1>3. GateOK' /\ AttemptOK'
  BY <1>1, <1>2, OutsideGate DEF Quit, Done, Task
<1>4. RestOK' /\ FlagOK'
  BY <1>1 DEF Quit, RestOK, ReceiverTypeOK, FlagOK, registryVars, lifeVars, receiverVars
<1>5. QED
  BY <1>3, <1>4 DEF TypeInv

\* A wait that is cancelled.
LEMMA CancelWaitGate ==
    ASSUME GateOK, AttemptOK, NEW t \in Task, pc[t] = "queued", NEW p \in Done,
           waiters' = Queue!RemoveFirst(waiters, t), pc' = [pc EXCEPT ![t] = p],
           UNCHANGED <<holder, attempt>>
    PROVE  GateOK' /\ AttemptOK'
<1>1. \A u \in Task : pc'[u] = IF u = t THEN p ELSE pc[u]
  BY DEF GateOK
<1>2. pc' \in [Task -> Places]
  BY DEF GateOK, Places, Done
<1>3. /\ waiters \in Seq(Task) /\ Once(waiters) /\ Range(waiters) \subseteq Task
  BY RangeOfSeq DEF GateOK, GateInv
<1>4. waiters' \in Seq(Task) /\ Once(waiters') /\ Range(waiters') \subseteq Range(waiters) \ {t}
  <2>1. CASE t \in Range(waiters)
    BY <1>3, <2>1, RemoveOnce
  <2>2. CASE t \notin Range(waiters)
    <3>1. ~\E i \in 1..Len(waiters) : waiters[i] = t
      BY <1>3, <2>2, RangeOfSeq
    <3>2. waiters' = waiters
      BY <3>1 DEF Queue!RemoveFirst
    <3>3. QED
      BY <1>3, <2>2, <3>2
  <2>3. QED
    BY <2>1, <2>2
<1>5. GateOK'
  BY <1>1, <1>2, <1>3, <1>4 DEF GateOK, GateInv, Inside, Sending, Done
<1>6. AttemptOK'
  BY <1>1 DEF AttemptOK, AttemptInv, Sending, Done
<1>7. QED
  BY <1>5, <1>6

LEMMA CancelTypeInv ==
    ASSUME TypeInv, NEW t \in Task, Cancel(t)
    PROVE  TypeInv'
<1>1. RestOK /\ FlagOK /\ GateOK /\ AttemptOK
  BY DEF TypeInv
<1>2. CASE pc[t] = "queued"
  <2>1. /\ waiters' = Queue!RemoveFirst(waiters, t)
        /\ pc' = [pc EXCEPT ![t] = IF t = Loop THEN "ended" ELSE "idle"]
        /\ unmet' = [unmet EXCEPT ![t] = {}]
        /\ UNCHANGED <<registryVars, lifeVars, holder, payload, attempt, late, receiverVars>>
    BY <1>2 DEF Cancel
  <2>2. (IF t = Loop THEN "ended" ELSE "idle") \in Done
    BY DEF Done
  <2>3. GateOK' /\ AttemptOK'
    BY <1>1, <1>2, <2>1, <2>2, CancelWaitGate
  <2>4. unmet' \in [Task -> SUBSET Ids]
    BY <1>1, <2>1 DEF RestOK
  <2>5. RestOK' /\ FlagOK'
    BY <1>1, <2>1, <2>4 DEF RestOK, ReceiverTypeOK, FlagOK, registryVars, lifeVars, receiverVars
  <2>6. QED
    BY <2>3, <2>5 DEF TypeInv
<1>3. CASE pc[t] # "queued"
  <2>1. /\ pc[t] \in {"posting", "backoff"} /\ Return(t, "cancelled")
        /\ late' = late \/ late' = late \cup {payload[t]}
        /\ UNCHANGED <<registryVars, receiverVars>>
    BY <1>3 DEF Cancel
  <2>2. late' \subseteq Payloads
    BY <1>1, <2>1 DEF RestOK
  <2>3. QED
    BY <1>1, <2>1, <2>2, ReturnTypeInv
       DEF RestOK, ReceiverTypeOK, registryVars, receiverVars, Inside, Sending
<1>4. QED
  BY <1>2, <1>3

LEMMA FlushingTypeInv ==
    ASSUME TypeInv, NEW t \in Task, Step(t)
    PROVE  TypeInv'
<1>1. RestOK /\ GateOK /\ AttemptOK
  BY DEF TypeInv
<1>2. CASE SkipEmpty(t)
  BY <1>1, <1>2, ReturnTypeInv
     DEF SkipEmpty, RestOK, ReceiverTypeOK, registryVars, receiverVars, Inside
<1>3. CASE Snapshot(t)
  <2>1. [events |-> events, gauge |-> gauge] \in Payloads
    BY <1>1 DEF RestOK, Payloads
  <2>2. payload' \in [Task -> Payloads]
    BY <1>1, <1>3, <2>1 DEF Snapshot, RestOK
  <2>3. attempt[t] = 0 /\ 0 + 1 \in 0..(MaxRetries + 1)
    BY <1>1, <1>3, DotnetAssumption DEF Snapshot, AttemptOK, AttemptInv, Sending
  <2>4. pc' = [pc EXCEPT ![t] = "posting"] /\ attempt' = [attempt EXCEPT ![t] = 0 + 1]
    BY <1>3, <2>3 DEF Snapshot, Post
  <2>5. pc[t] \in Inside /\ "posting" \in Sending
    BY <1>3 DEF Snapshot, Inside, Sending
  <2>6. QED
    BY <1>1, <1>3, <2>2, <2>3, <2>4, <2>5, MoveTypeInv
       DEF Snapshot, RestOK, ReceiverTypeOK, receiverVars
<1>4. CASE Retry(t)
  <2>1. attempt[t] + 1 \in 0..(MaxRetries + 1)
    BY <1>1, <1>4, DotnetAssumption DEF Retry, AttemptOK, AttemptInv
  <2>2. pc[t] \in Inside /\ "posting" \in Sending
    BY <1>4 DEF Retry, Inside, Sending
  <2>3. QED
    BY <1>1, <1>4, <2>1, <2>2, MoveTypeInv
       DEF Retry, Post, RestOK, ReceiverTypeOK, receiverVars
<1>5. CASE Trim(t)
  <2>1. SubSeq(events, Len(payload[t].events) + 1, Len(events)) \in Seq(Ids)
    BY <1>1 DEF RestOK, Payloads
  <2>2. QED
    BY <1>1, <1>5, <2>1, ReturnTypeInv
       DEF Trim, RestOK, ReceiverTypeOK, receiverVars, Inside, Sending
<1>6. QED
  BY <1>2, <1>3, <1>4, <1>5 DEF Step

LEMMA NetworkTypeInv ==
    ASSUME TypeInv, Network
    PROVE  TypeInv'
<1>1. RestOK /\ FlagOK /\ GateOK /\ AttemptOK
  BY DEF TypeInv
<1>2. ASSUME NEW t \in Task, Receive(t) PROVE TypeInv'
  <2>1. payload[t] \in Payloads /\ late' \subseteq Payloads
    BY <1>1, <1>2 DEF RestOK, Receive
  <2>2. arrived' \subseteq Ids /\ shown' \in Gauges
    BY <1>1, <1>2, <2>1, ApplyTypes DEF Receive
  <2>3. QED
    BY <1>2, <2>1, <2>2, FailedTypeInv DEF Receive
<1>3. ASSUME NEW t \in Task, Refuse(t) PROVE TypeInv'
  <2>1. CASE AttemptFails(t)
    BY <1>1, <1>3, <2>1, FailedTypeInv DEF Refuse, RestOK, ReceiverTypeOK, receiverVars
  <2>2. CASE Return(t, "failed")
    BY <1>1, <1>3, <2>2, ReturnTypeInv
       DEF Refuse, RestOK, ReceiverTypeOK, registryVars, receiverVars, Inside, Sending
  <2>3. QED
    BY <1>3, <2>1, <2>2 DEF Refuse
<1>4. ASSUME NEW t \in Task, TimeOut(t) PROVE TypeInv'
  <2>1. late' \subseteq Payloads
    BY <1>1, <1>4 DEF TimeOut, RestOK
  <2>2. QED
    BY <1>1, <1>4, <2>1, FailedTypeInv DEF TimeOut, RestOK, ReceiverTypeOK, receiverVars
<1>5. ASSUME NEW p \in late, ArriveLate(p) \/ LoseLate(p) PROVE TypeInv'
  <2>1. p \in Payloads
    BY <1>1 DEF RestOK
  <2>2. arrived' \subseteq Ids /\ shown' \in Gauges /\ late' \subseteq Payloads
    BY <1>1, <1>5, <2>1, ApplyTypes DEF ArriveLate, LoseLate, RestOK, ReceiverTypeOK, receiverVars
  <2>3. UNCHANGED <<registryVars, lifeVars, sendVars>>
    BY <1>5 DEF ArriveLate, LoseLate
  <2>4. RestOK' /\ FlagOK'
    BY <1>1, <2>2, <2>3 DEF RestOK, ReceiverTypeOK, FlagOK, registryVars, lifeVars, sendVars
  <2>5. GateOK' /\ AttemptOK'
    BY <1>1, <2>3 DEF GateOK, GateInv, AttemptOK, AttemptInv, sendVars
  <2>6. QED
    BY <2>4, <2>5 DEF TypeInv
<1>6. QED
  BY <1>2, <1>3, <1>4, <1>5 DEF Network

LEMMA StepTypeInv == TypeInv /\ [Next]_vars => TypeInv'
<1> SUFFICES ASSUME TypeInv, [Next]_vars PROVE TypeInv'
  OBVIOUS
<1>1. CASE UNCHANGED vars
  BY <1>1 DEF vars, registryVars, lifeVars, sendVars, receiverVars, TypeInv, RestOK, FlagOK,
              GateOK, AttemptOK, ReceiverTypeOK, GateInv, AttemptInv
<1>2. CASE Tick \/ \E c \in Caller : FlushAsync(c) \/ DisposeAsync(c) \/ Dispose(c) \/ Finish(c)
  BY <1>2, CallTypeInv DEF Tick, Task
<1>3. QED
  BY <1>1, <1>2, StagingTypeInv, QuitTypeInv, FlushingTypeInv, CancelTypeInv, NetworkTypeInv
     DEF Next

\* Every state of the client has its declared types: the attempts stay within
\* the retry limit, and the gate is held by whoever is inside FlushAsync
\* (Telemetry.cs:436-464).
THEOREM TypeCorrect == Spec => []TypeOK
<1>1. TypeInv => TypeOK
  BY DEF TypeInv, RestOK, FlagOK, GateOK, AttemptOK, TypeOK, Places
<1>2. QED
  BY <1>1, InitTypeInv, StepTypeInv, PTL DEF Spec

\* Two tasks are never under the gate together, whatever is cancelled or
\* disposed of (Telemetry.cs:438, 462).
THEOREM GateExcludes ==
    Spec => [](\A t, u \in Task : pc[t] \in Inside /\ pc[u] \in Inside => t = u)
<1>1. TypeInv => \A t, u \in Task : pc[t] \in Inside /\ pc[u] \in Inside => t = u
  BY DEF TypeInv, GateOK, GateInv
<1>2. QED
  BY <1>1, InitTypeInv, StepTypeInv, PTL DEF Spec

------------------------------------------------------------------------------
(* Nobody is forgotten at the gate. *)

\* A task that waits is in line, and a gate that is free has no line until it
\* is disposed of.
LineInv ==
    /\ \A t \in Task : pc[t] = "queued" => t \in Range(waiters)
    /\ holder = None /\ ~cleaned => waiters = <<>>

\* A step that lets nobody in or out of line.
LEMMA SameLine ==
    ASSUME LineInv, UNCHANGED <<holder, waiters>>, cleaned => cleaned',
           \A u \in Task : pc'[u] = "queued" => pc[u] = "queued"
    PROVE  LineInv'
BY DEF LineInv

LEMMA WaitLine ==
    ASSUME GateOK, LineInv, NEW t \in Task, Wait(t)
    PROVE  LineInv'
<1>1. CASE holder = None
  <2>1. /\ holder' = t /\ waiters' = waiters /\ t # None
        /\ \A u \in Task : pc'[u] = IF u = t THEN "locked" ELSE pc[u]
    BY <1>1, DotnetAssumption DEF Wait, GateOK, Task
  <2>2. QED
    BY <2>1 DEF LineInv
<1>2. CASE holder # None
  <2>1. /\ holder' = holder /\ waiters' = Append(waiters, t)
        /\ \A u \in Task : pc'[u] = IF u = t THEN "queued" ELSE pc[u]
    BY <1>2 DEF Wait, GateOK
  <2>2. Range(waiters') = Range(waiters) \cup {t}
    BY <2>1, AppendKeeps DEF GateOK
  <2>3. QED
    BY <1>2, <2>1, <2>2 DEF LineInv
<1>3. QED
  BY <1>1, <1>2

LEMMA ReleaseLine ==
    ASSUME GateOK, LineInv, NEW t \in Task, NEW next \in Done, NEW how,
           Release(t, next, how), cleaned' = cleaned
    PROVE  LineInv'
<1>1. CASE ~cleaned /\ waiters # <<>>
  <2>1. PICK h : h = Head(waiters)
    OBVIOUS
  <2>2. /\ waiters \in Seq(Task) /\ Once(waiters)
    BY DEF GateOK, GateInv
  <2>3. h \in Task /\ Range(Tail(waiters)) = Range(waiters) \ {h}
    BY <1>1, <2>1, <2>2, TailOnce
  <2>4. /\ holder' = h /\ waiters' = Tail(waiters)
        /\ pc' = [pc EXCEPT ![t] = next, ![h] = "locked"]
    BY <1>1, <2>1 DEF Release
  <2>5. \A u \in Task : pc'[u] = "queued" => u # h /\ pc[u] = "queued"
    BY <2>3, <2>4 DEF GateOK, Done
  <2>6. holder' # None
    BY <2>3, <2>4, DotnetAssumption DEF Task
  <2>7. QED
    BY <2>3, <2>4, <2>5, <2>6 DEF LineInv
<1>2. CASE ~(~cleaned /\ waiters # <<>>)
  <2>1. /\ holder' = None /\ waiters' = waiters /\ pc' = [pc EXCEPT ![t] = next]
    BY <1>2 DEF Release
  <2>2. \A u \in Task : pc'[u] = "queued" => pc[u] = "queued"
    BY <2>1 DEF GateOK, Done
  <2>3. QED
    BY <1>2, <2>1, <2>2 DEF LineInv
<1>3. QED
  BY <1>1, <1>2

\* FlushAsync that returns, by success, failure or cancellation.
LEMMA ReturnLine ==
    ASSUME TypeInv, LineInv, NEW t \in Task, NEW result, Return(t, result)
    PROVE  LineInv'
<1>1. PICK how, next : next \in Done /\ Release(t, next, how)
  BY DEF Return, Done
<1>2. cleaned' = cleaned
  BY DEF Return
<1>3. QED
  BY <1>1, <1>2, ReleaseLine DEF TypeInv

\* Who gives up waiting leaves the others in line.
LEMMA CancelLine ==
    ASSUME TypeInv, LineInv, NEW t \in Task, Cancel(t)
    PROVE  LineInv'
<1>1. CASE pc[t] = "queued"
  <2>1. /\ waiters' = Queue!RemoveFirst(waiters, t) /\ UNCHANGED <<holder, cleaned>>
        /\ pc' = [pc EXCEPT ![t] = IF t = Loop THEN "ended" ELSE "idle"]
    BY <1>1 DEF Cancel, lifeVars
  <2>2. t \in Range(waiters)
    BY <1>1 DEF LineInv
  <2>3. Range(waiters') = Range(waiters) \ {t}
    BY <2>1, <2>2, RemoveOnce DEF TypeInv, GateOK, GateInv
  <2>4. \A u \in Task : pc'[u] = "queued" => u # t /\ pc[u] = "queued"
    BY <2>1 DEF TypeInv, GateOK
  <2>5. waiters # <<>>
    BY <2>2, RangeOfSeq DEF TypeInv, GateOK
  <2>6. QED
    BY <2>1, <2>3, <2>4, <2>5 DEF LineInv
<1>2. CASE pc[t] # "queued"
  BY <1>2, ReturnLine DEF Cancel
<1>3. QED
  BY <1>1, <1>2

LEMMA CallLine ==
    ASSUME TypeInv, LineInv,
           \/ Tick \/ Quit
           \/ \E c \in Caller : FlushAsync(c) \/ DisposeAsync(c) \/ Dispose(c) \/ Finish(c)
    PROVE  LineInv'
<1>1. ASSUME NEW t \in Task, FlushAsync(t) \/ (t \in Caller /\ Joined(t)) PROVE LineInv'
  BY <1>1, WaitLine DEF FlushAsync, Joined, TypeInv
<1>2. ASSUME NEW t \in Task, NEW p \in Done \cup {"joining"}, pc' = [pc EXCEPT ![t] = p],
             UNCHANGED <<holder, waiters>>, cleaned => cleaned'
      PROVE  LineInv'
  <2>1. \A u \in Task : pc'[u] = "queued" => pc[u] = "queued"
    BY <1>2 DEF TypeInv, GateOK, Done
  <2>2. QED
    BY <1>2, <2>1, SameLine
<1>3. CASE Quit
  BY <1>2, <1>3 DEF Quit, lifeVars, Done, Task
<1>4. ASSUME NEW c \in Caller, DisposeAsync(c) \/ Dispose(c) \/ JoinThrows(c) \/ Cleanup(c)
      PROVE  LineInv'
  BY <1>2, <1>4 DEF DisposeAsync, Dispose, JoinThrows, Cleanup, Done, Task
<1>5. QED
  BY <1>1, <1>3, <1>4 DEF Tick, Finish, Task

LEMMA StepLine == TypeInv /\ LineInv /\ [Next]_vars => LineInv'
<1> SUFFICES ASSUME TypeInv, LineInv, [Next]_vars PROVE LineInv'
  OBVIOUS
<1>1. CASE \/ UNCHANGED vars \/ StageEvent \/ StageValue \/ Clear
           \/ \E p \in late : ArriveLate(p) \/ LoseLate(p)
  BY <1>1, SameLine
     DEF vars, StageEvent, StageValue, Clear, ArriveLate, LoseLate, lifeVars, sendVars
<1>2. ASSUME NEW t \in Task, NEW p \in Sending, pc' = [pc EXCEPT ![t] = p],
             UNCHANGED <<lifeVars, holder, waiters>>
      PROVE  LineInv'
  <2>1. \A u \in Task : pc'[u] = "queued" => pc[u] = "queued"
    BY <1>2 DEF TypeInv, GateOK, Sending
  <2>2. QED
    BY <1>2, <2>1, SameLine DEF lifeVars
<1>3. ASSUME NEW t \in Task, Step(t) PROVE LineInv'
  BY <1>2, <1>3, ReturnLine DEF Step, SkipEmpty, Snapshot, Post, Retry, Trim, Sending
<1>4. ASSUME NEW t \in Task, Receive(t) \/ Refuse(t) \/ TimeOut(t) PROVE LineInv'
  <2>1. \/ \E how : Return(t, how)
        \/ \E p \in Sending : Enter(t, p)
    BY <1>4 DEF Receive, Refuse, TimeOut, AttemptFails, Sending
  <2>2. QED
    BY <1>2, <2>1, ReturnLine DEF Enter
<1>5. QED
  BY <1>1, <1>3, <1>4, CallLine, CancelLine DEF Next, Network

\* No wake-up is lost: a FlushAsync that waits is in the line of the gate, and
\* as long as it is, and the gate is not disposed of, somebody holds the gate
\* who hands it on, whoever fails, is cancelled or gives up waiting meanwhile
\* (Telemetry.cs:438, 462).
THEOREM NobodyForgotten ==
    Spec => [](\A t \in Task : pc[t] = "queued" =>
                   t \in Range(waiters) /\ (cleaned \/ \E u \in Task : pc[u] \in Inside))
<1>1. Init => LineInv
  BY DEF Init, LineInv
<1>2. ASSUME TypeInv, LineInv, NEW t \in Task, pc[t] = "queued"
      PROVE  t \in Range(waiters) /\ (cleaned \/ \E u \in Task : pc[u] \in Inside)
  <2>1. t \in Range(waiters)
    BY <1>2 DEF LineInv
  <2>2. waiters # <<>>
    BY <1>2, <2>1, RangeOfSeq DEF TypeInv, GateOK
  <2>3. holder \in Task \cup {None}
    BY <1>2 DEF TypeInv, GateOK
  <2>4. ASSUME ~cleaned PROVE pc[holder] \in Inside /\ holder \in Task
    BY <1>2, <2>2, <2>3, <2>4 DEF LineInv, TypeInv, GateOK, GateInv
  <2>5. QED
    BY <2>1, <2>4
<1>3. TypeInv /\ LineInv =>
         \A t \in Task : pc[t] = "queued" =>
             t \in Range(waiters) /\ (cleaned \/ \E u \in Task : pc[u] \in Inside)
  BY <1>2
<1>4. QED
  BY <1>1, <1>3, InitTypeInv, StepTypeInv, StepLine, PTL DEF Spec

------------------------------------------------------------------------------
(* What is shown never gets older. *)

\* Nothing that was sent is newer than the payload t is sending.
NoOlder(t) ==
    payload[t].gauge = 0 \/ /\ shown <= payload[t].gauge
                            /\ \A p \in late : p.gauge <= payload[t].gauge

AgeInv ==
    /\ gauge \in {0, lastGauge}
    /\ shown <= lastGauge
    /\ \A p \in late : p.gauge <= lastGauge
    /\ \A t \in Task : pc[t] \in Sending => payload[t].gauge <= lastGauge /\ NoOlder(t)

LEMMA Ages ==
    ASSUME TypeInv
    PROVE  /\ gauge \in Nat /\ lastGauge \in Nat /\ shown \in Nat
           /\ \A p \in late : p.gauge \in Nat
           /\ \A t \in Task : payload[t].gauge \in Nat
BY ReceiverAssumption DEF TypeInv, RestOK, ReceiverTypeOK, Gauges, Payloads

\* A step that starts no send, applies no payload and abandons no request but
\* those under way keeps the ages apart, and shows nothing older.
LEMMA QuietAge ==
    ASSUME TypeInv, AgeInv, lastGauge' = lastGauge, gauge' \in {0, lastGauge},
           \/ shown' = shown
           \/ \E t \in Task : /\ pc[t] \in Sending
                              /\ shown' = IF payload[t].gauge = 0 THEN shown ELSE payload[t].gauge,
           \A p \in late' : p \in late \/ \E t \in Task : pc[t] \in Sending /\ p = payload[t],
           \A t \in Task : pc'[t] \in Sending => pc[t] \in Sending /\ payload'[t] = payload[t]
    PROVE  AgeInv' /\ ~(shown' < shown)
<1>1. ASSUME NEW p \in late' PROVE p.gauge <= lastGauge
  BY <1>1 DEF AgeInv
<1>2. shown' <= lastGauge /\ ~(shown' < shown)
  BY Ages DEF AgeInv, NoOlder
<1>3. ASSUME NEW t \in Task, pc'[t] \in Sending
      PROVE  payload'[t].gauge <= lastGauge /\ NoOlder(t)'
  <2>1. pc[t] \in Sending /\ payload'[t] = payload[t]
    BY <1>3
  <2>2. \A u \in Task : pc[u] \in Sending => u = t
    BY <2>1 , Alone DEF TypeInv, Inside
  <2>3. ASSUME NEW p \in late', payload[t].gauge # 0 PROVE p.gauge <= payload[t].gauge
    <3>1. CASE p \in late
      BY <2>1, <2>3, <3>1 DEF AgeInv, NoOlder
    <3>2. CASE p = payload[t]
      BY <3>2, Ages
    <3>3. QED
      BY <2>2, <3>1, <3>2
  <2>4. payload[t].gauge # 0 => shown' <= payload[t].gauge
    BY <2>1, <2>2, Ages DEF AgeInv, NoOlder
  <2>5. QED
    BY <2>1, <2>3, <2>4 DEF AgeInv, NoOlder
<1>4. QED
  BY <1>1, <1>2, <1>3 DEF AgeInv

\* A value staged is newer than all.
LEMMA StageValueAge == TypeInv /\ AgeInv /\ StageValue => AgeInv' /\ ~(shown' < shown)
<1> SUFFICES ASSUME TypeInv, AgeInv, StageValue PROVE AgeInv' /\ ~(shown' < shown)
  OBVIOUS
<1>1. /\ lastGauge' = lastGauge + 1 /\ gauge' = lastGauge'
      /\ UNCHANGED <<pc, payload, late, shown>>
  BY DEF StageValue, sendVars, receiverVars
<1>2. \A t \in Task : NoOlder(t) => NoOlder(t)'
  BY <1>1 DEF NoOlder
<1>3. \A n \in Nat : n <= lastGauge => n <= lastGauge'
  BY <1>1, Ages
<1>4. QED
  BY <1>1, <1>2, <1>3, Ages DEF AgeInv

\* A payload takes the newest value there is.
LEMMA SnapshotAge ==
    ASSUME TypeInv, AgeInv, NEW t \in Task, Snapshot(t)
    PROVE  AgeInv' /\ ~(shown' < shown)
<1>1. /\ payload'[t].gauge = gauge
      /\ \A u \in Task : u # t => pc'[u] = pc[u]
      /\ UNCHANGED <<gauge, lastGauge, shown, late>>
  BY DEF Snapshot, Post, TypeInv, GateOK, RestOK, registryVars, receiverVars
<1>2. ASSUME NEW u \in Task, pc'[u] \in Sending PROVE u = t
  BY <1>1, <1>2 , Alone DEF Snapshot, TypeInv, Inside, Sending
<1>3. payload'[t].gauge <= lastGauge' /\ NoOlder(t)'
  BY <1>1, Ages DEF AgeInv, NoOlder
<1>4. QED
  BY <1>1, <1>2, <1>3, Ages DEF AgeInv

\* A request that arrives late leaves its mark in `late`.
LEMMA LateAge ==
    ASSUME TypeInv, AgeInv, NEW p \in late, ArriveLate(p)
    PROVE  AgeInv' /\ late' # late
<1>1. shown' = IF p.gauge = 0 THEN shown ELSE p.gauge
  BY DEF ArriveLate, Apply
<1>2. late' = late \ {p} /\ UNCHANGED <<gauge, lastGauge, pc, payload>>
  BY DEF ArriveLate, registryVars, sendVars
<1>3. shown' <= lastGauge
  BY <1>1 DEF AgeInv
<1>4. \A t \in Task : NoOlder(t) => NoOlder(t)'
  BY <1>1, <1>2 DEF NoOlder
<1>5. QED
  BY <1>2, <1>3, <1>4 DEF AgeInv

\* When a FlushAsync returns nobody is sending: the gate goes to a task that has
\* yet to make its snapshot, if to any.
LEMMA ReturnSendsNone ==
    ASSUME TypeInv, NEW t \in Task, pc[t] \in Inside, NEW result, Return(t, result)
    PROVE  \A u \in Task : pc'[u] \notin Sending
<1>1. PICK how, next : next \in Done /\ Release(t, next, how)
  BY DEF Return, Done
<1>2. /\ pc'[t] = next
      /\ \A u \in Task : u # t => pc'[u] = pc[u] \/ (pc[u] = "queued" /\ pc'[u] = "locked")
  BY <1>1, ReleaseGate DEF TypeInv
<1>3. \A u \in Task : u # t => pc[u] \notin Sending
  BY Alone DEF TypeInv, Inside
<1>4. QED
  BY <1>1, <1>2, <1>3 DEF Done, Sending

\* An attempt that ends starts no send.
LEMMA EndStartsNone ==
    ASSUME TypeInv, NEW t \in Task, pc[t] = "posting",
           Enter(t, "trimming") \/ AttemptFails(t) \/ Return(t, "failed")
    PROVE  \A u \in Task : pc'[u] \in Sending => pc[u] \in Sending /\ payload'[u] = payload[u]
<1>1. CASE Return(t, "failed")
  BY <1>1, ReturnSendsNone DEF Inside, Sending
<1>2. CASE \E p \in {"trimming", "backoff"} : Enter(t, p)
  BY <1>2 DEF Enter, Sending, TypeInv, GateOK
<1>3. QED
  BY <1>1, <1>2 DEF AttemptFails

LEMMA CallAge ==
    ASSUME TypeInv, AgeInv,
           \/ Tick \/ Quit
           \/ \E c \in Caller : FlushAsync(c) \/ DisposeAsync(c) \/ Dispose(c) \/ Finish(c)
    PROVE  AgeInv' /\ ~(shown' < shown)
<1>1. UNCHANGED <<gauge, lastGauge, shown, late, payload>>
  BY DEF Tick, Quit, FlushAsync, DisposeAsync, Dispose, Finish, Joined, JoinThrows, Cleanup,
         registryVars, sendVars, receiverVars
<1>2. \A u \in Task : pc'[u] \in Sending => pc[u] \in Sending
  <2>1. ASSUME NEW c \in Task, Wait(c)
        PROVE  \A u \in Task : pc'[u] \in Sending => pc[u] \in Sending
    BY <2>1 DEF Wait, Sending, TypeInv, GateOK
  <2>2. ASSUME NEW c \in Task, NEW p \in Done \cup {"joining"}, pc' = [pc EXCEPT ![c] = p]
        PROVE  \A u \in Task : pc'[u] \in Sending => pc[u] \in Sending
    BY <2>2 DEF Done, Sending, TypeInv, GateOK
  <2>3. CASE Tick \/ \E c \in Caller : FlushAsync(c) \/ Joined(c)
    BY <2>1, <2>3 DEF Tick, FlushAsync, Joined, Task
  <2>4. CASE Quit \/ \E c \in Caller : \/ DisposeAsync(c) \/ Dispose(c)
                                       \/ JoinThrows(c) \/ Cleanup(c)
    BY <2>2, <2>4 DEF Quit, DisposeAsync, Dispose, JoinThrows, Cleanup, Done, Task
  <2>5. QED
    BY <2>3, <2>4 DEF Finish
<1>3. QED
  BY <1>1, <1>2, QuietAge DEF AgeInv

LEMMA FlushingAge ==
    ASSUME TypeInv, AgeInv, NEW t \in Task, Step(t) \/ Cancel(t)
    PROVE  AgeInv' /\ ~(shown' < shown)
<1>1. CASE Snapshot(t)
  BY <1>1, SnapshotAge
<1>2. CASE SkipEmpty(t) \/ Trim(t)
  <2>1. UNCHANGED <<gauge, lastGauge, shown, late>>
    BY <1>2 DEF SkipEmpty, Trim, registryVars, receiverVars
  <2>2. \A u \in Task : pc'[u] \notin Sending
    BY <1>2, ReturnSendsNone DEF SkipEmpty, Trim, Inside, Sending
  <2>3. QED
    BY <2>1, <2>2, QuietAge DEF AgeInv
<1>3. CASE Retry(t)
  <2>1. UNCHANGED <<gauge, lastGauge, shown, late, payload>>
    BY <1>3 DEF Retry, registryVars, receiverVars
  <2>2. \A u \in Task : pc'[u] \in Sending => pc[u] \in Sending
    BY <1>3 DEF Retry, Post, Sending, TypeInv, GateOK
  <2>3. QED
    BY <2>1, <2>2, QuietAge DEF AgeInv
<1>4. CASE Cancel(t) /\ pc[t] = "queued"
  <2>1. UNCHANGED <<gauge, lastGauge, shown, late, payload>>
    BY <1>4 DEF Cancel, registryVars, receiverVars
  <2>2. pc' = [pc EXCEPT ![t] = IF t = Loop THEN "ended" ELSE "idle"]
    BY <1>4 DEF Cancel
  <2>3. \A u \in Task : pc'[u] \in Sending => pc[u] \in Sending
    BY <2>2 DEF Sending, TypeInv, GateOK
  <2>4. QED
    BY <2>1, <2>3, QuietAge DEF AgeInv
<1>5. CASE Cancel(t) /\ pc[t] # "queued"
  <2>1. /\ pc[t] \in Sending /\ Return(t, "cancelled") /\ UNCHANGED <<gauge, lastGauge, shown>>
        /\ \A p \in late' : p \in late \/ p = payload[t]
    BY <1>5 DEF Cancel, Sending, registryVars, receiverVars
  <2>2. \A u \in Task : pc'[u] \notin Sending
    BY <2>1, ReturnSendsNone DEF Inside
  <2>3. QED
    BY <2>1, <2>2, QuietAge DEF AgeInv
<1>6. QED
  BY <1>1, <1>2, <1>3, <1>4, <1>5 DEF Step

LEMMA AttemptAge ==
    ASSUME TypeInv, AgeInv, NEW t \in Task, Receive(t) \/ Refuse(t) \/ TimeOut(t)
    PROVE  AgeInv' /\ ~(shown' < shown)
<1>1. /\ pc[t] = "posting" /\ UNCHANGED <<gauge, lastGauge>>
      /\ Enter(t, "trimming") \/ AttemptFails(t) \/ Return(t, "failed")
  BY DEF Receive, Refuse, TimeOut, registryVars
<1>2. \/ shown' = shown
      \/ shown' = IF payload[t].gauge = 0 THEN shown ELSE payload[t].gauge
  BY DEF Receive, Apply, Refuse, TimeOut, receiverVars
<1>3. \A p \in late' : p \in late \/ p = payload[t]
  BY DEF Receive, Refuse, TimeOut
<1>4. \A u \in Task : pc'[u] \in Sending => pc[u] \in Sending /\ payload'[u] = payload[u]
  BY <1>1, EndStartsNone
<1>5. QED
  BY <1>1, <1>2, <1>3, <1>4, QuietAge DEF AgeInv, Sending

LEMMA StepAge ==
    ASSUME TypeInv, AgeInv, [Next]_vars
    PROVE  AgeInv' /\ (shown' < shown => late' # late)
<1>1. CASE UNCHANGED vars
  BY <1>1, QuietAge DEF AgeInv, vars, registryVars, sendVars, receiverVars
<1>2. CASE StageEvent \/ Clear
  BY <1>2, QuietAge DEF AgeInv, StageEvent, Clear, sendVars, receiverVars
<1>3. CASE \E p \in late : LoseLate(p)
  BY <1>3, QuietAge DEF AgeInv, LoseLate, registryVars, sendVars, receiverVars
<1>4. QED
  BY <1>1, <1>2, <1>3, StageValueAge, CallAge, FlushingAge, AttemptAge, LateAge
     DEF Next, Network

\* What NetCrunch shows goes back to an older value only when a request that
\* was given up on arrives late: one task at a time is under the gate, and its
\* snapshot is the newest state of its own moment, through cancellation and
\* disposal, when Clear is not called under a request (Telemetry.cs:436-464).
THEOREM NeverOlder == Spec => [][shown' < shown => late' # late]_vars
<1>1. TypeInv /\ AgeInv /\ [Next]_vars => AgeInv'
  BY StepAge
<1>2. TypeInv /\ AgeInv /\ [Next]_vars => [shown' < shown => late' # late]_vars
  BY StepAge
<1>3. Init => AgeInv
  BY DEF Init, ReceiverInit, AgeInv, Sending
<1>4. QED
  BY <1>1, <1>2, <1>3, InitTypeInv, StepTypeInv, PTL DEF Spec

------------------------------------------------------------------------------
(* What a call that succeeded has sent. *)

\* A step that leaves the queue alone and starts no send keeps the three, when
\* it also keeps the payloads under way and what is owed.
LEMMA QuietStep ==
    ASSUME QuietInv, UNCHANGED <<events, discarded>>, arrived \subseteq arrived',
           \A u \in Task : pc'[u] \in Sending =>
               pc[u] \in Sending /\ payload'[u] = payload[u] /\ unmet'[u] = unmet[u],
           \A u \in Task : pc'[u] = "trimming" => Range(payload'[u].events) \subseteq arrived',
           \A u \in Task : pc'[u] \in Waiting =>
               unmet'[u] = Range(events) \/ (pc[u] \in Waiting /\ unmet'[u] = unmet[u]),
           \A u \in Task : pc'[u] \in Done => unmet'[u] = {}
    PROVE  QuietInv'
<1>1. PrefixInv'
  BY DEF QuietInv, PrefixInv
<1>2. DeliveredInv'
  BY DEF DeliveredInv
<1>3. OwedInv'
  <2> SUFFICES ASSUME NEW u \in Task
               PROVE  /\ pc'[u] \in Waiting =>
                            unmet'[u] \subseteq Range(events) \cup arrived' \cup discarded
                      /\ pc'[u] \in Sending =>
                            unmet'[u] \subseteq
                               Range(payload'[u].events) \cup arrived' \cup discarded
    BY DEF OwedInv
  <2>1. CASE pc'[u] \in Waiting /\ unmet'[u] = unmet[u] /\ pc[u] \in Waiting
    BY <2>1 DEF QuietInv, OwedInv, Waiting, Sending
  <2>2. CASE pc'[u] \in Waiting /\ unmet'[u] = Range(events)
    BY <2>2 DEF Waiting, Sending
  <2>3. CASE pc'[u] \in Sending
    BY <2>3 DEF QuietInv, OwedInv, Waiting, Sending
  <2>4. QED
    BY <2>1, <2>2, <2>3
<1>4. QED
  BY <1>1, <1>2, <1>3 DEF QuietInv

\* What Return does to the tasks: one leaves, one may get the gate.
LEMMA Returned ==
    ASSUME TypeInv, NEW t \in Task, pc[t] \in Inside, NEW result, Return(t, result),
           result = "ok" => unmet[t] \subseteq arrived \cup discarded
    PROVE  /\ pc'[t] \in Done /\ unmet'[t] = {}
           /\ \A u \in Task : u # t =>
                 /\ pc'[u] = pc[u] \/ (pc[u] = "queued" /\ pc'[u] = "locked")
                 /\ unmet'[u] = unmet[u] /\ payload'[u] = payload[u]
           /\ \A u \in Task : pc'[u] \notin Sending
<1>1. PICK how, next :
         /\ next \in Done /\ (how = "ok" => result = "ok")
         /\ Release(t, next, how)
         /\ unmet' = [unmet EXCEPT ![t] = IF how = "ok" THEN @ \ (arrived \cup discarded)
                                                        ELSE {}]
         /\ payload' = [payload EXCEPT ![t] = Unsent]
  BY DEF Return, Done
<1>2. /\ pc'[t] = next
      /\ \A u \in Task : u # t => pc'[u] = pc[u] \/ (pc[u] = "queued" /\ pc'[u] = "locked")
  BY <1>1, ReleaseGate DEF TypeInv
<1>3. /\ unmet'[t] = {}
      /\ \A u \in Task : u # t => unmet'[u] = unmet[u] /\ payload'[u] = payload[u]
  BY <1>1 DEF TypeInv, RestOK
<1>4. \A u \in Task : u # t => pc[u] \notin Sending
  BY Alone DEF TypeInv, Inside
<1>5. \A u \in Task : pc'[u] \notin Sending
  BY <1>1, <1>2, <1>4 DEF Done, Sending
<1>6. QED
  BY <1>1, <1>2, <1>3, <1>5

\* A call that ends without touching the queue.
LEMMA ReturnQuiet ==
    ASSUME TypeInv, QuietInv, NEW t \in Task, pc[t] \in Inside, NEW result, Return(t, result),
           result = "ok" => unmet[t] \subseteq arrived \cup discarded,
           arrived \subseteq arrived', UNCHANGED <<events, discarded>>
    PROVE  QuietInv'
<1>1. /\ pc'[t] \in Done /\ unmet'[t] = {}
      /\ \A u \in Task : u # t =>
            /\ pc'[u] = pc[u] \/ (pc[u] = "queued" /\ pc'[u] = "locked")
            /\ unmet'[u] = unmet[u]
      /\ \A u \in Task : pc'[u] \notin Sending
  BY Returned
<1>2. \A u \in Task : pc'[u] \in Waiting => pc[u] \in Waiting /\ unmet'[u] = unmet[u]
  BY <1>1 DEF Waiting, Done
<1>3. \A u \in Task : pc'[u] \in Done => unmet'[u] = {}
  BY <1>1 DEF QuietInv, OwedInv, Done
<1>4. QED
  BY <1>1, <1>2, <1>3, QuietStep DEF Sending

\* An attempt that ends in a 2xx, which has arrived, or in a wait.
LEMMA EnterQuiet ==
    ASSUME TypeInv, QuietInv, NEW t \in Task, pc[t] = "posting",
           \/ Enter(t, "trimming") /\ Range(payload[t].events) \subseteq arrived'
           \/ Enter(t, "backoff"),
           arrived \subseteq arrived', UNCHANGED <<events, discarded>>
    PROVE  QuietInv'
<1>1. PICK p \in {"trimming", "backoff"} :
         /\ \A u \in Task : pc'[u] = IF u = t THEN p ELSE pc[u]
         /\ p = "trimming" => Range(payload[t].events) \subseteq arrived'
  BY DEF Enter, TypeInv, GateOK
<1>2. payload' = payload /\ unmet' = unmet
  BY DEF Enter
<1>3. QED
  BY <1>1, <1>2, QuietStep DEF QuietInv, DeliveredInv, OwedInv, Sending, Waiting, Done

LEMMA NetworkQuiet ==
    ASSUME TypeInv, QuietInv, Network
    PROVE  QuietInv'
<1> USE DEF registryVars, receiverVars, AttemptFails, Inside, Sending
<1>1. ASSUME NEW t \in Task, Receive(t) PROVE QuietInv'
  <2>1. arrived' = arrived \cup Range(payload[t].events)
    BY <1>1 DEF Receive, Apply
  <2>2. QED
    BY <1>1, <2>1, EnterQuiet, ReturnQuiet DEF Receive
<1>2. ASSUME NEW t \in Task, Refuse(t) PROVE QuietInv'
  BY <1>2, EnterQuiet, ReturnQuiet DEF Refuse
<1>3. ASSUME NEW t \in Task, TimeOut(t) PROVE QuietInv'
  BY <1>3, EnterQuiet, ReturnQuiet DEF TimeOut
<1>4. ASSUME NEW p \in late, ArriveLate(p) \/ LoseLate(p) PROVE QuietInv'
  <2>1. arrived \subseteq arrived'
    BY <1>4 DEF ArriveLate, LoseLate, Apply
  <2>2. UNCHANGED <<events, discarded, pc, unmet, payload>>
    BY <1>4 DEF ArriveLate, LoseLate, sendVars
  <2>3. QED
    BY <2>1, <2>2, QuietStep DEF QuietInv, DeliveredInv, OwedInv
<1>5. QED
  BY <1>1, <1>2, <1>3, <1>4 DEF Network

LEMMA StagingQuiet ==
    ASSUME TypeInv, QuietInv, StageEvent \/ StageValue \/ (~InFlight /\ Clear)
    PROVE  QuietInv'
<1>1. CASE StageEvent
  <2>1. events \in Seq(Ids) /\ staged + 1 \in Ids
    BY <1>1, ReceiverAssumption DEF TypeInv, RestOK, StageEvent, Ids
  <2>2. /\ Len(events') = Len(events) + 1
        /\ \A i \in 1..Len(events) : events'[i] = events[i]
        /\ Range(events') = Range(events) \cup {staged + 1}
    BY <1>1, <2>1, AppendKeeps DEF StageEvent
  <2>3. UNCHANGED <<pc, payload, unmet, arrived, discarded>>
    BY <1>1 DEF StageEvent, sendVars, receiverVars
  <2>4. PrefixInv'
    <3> SUFFICES ASSUME NEW t \in Task, pc[t] \in Sending
                 PROVE  /\ Len(payload[t].events) <= Len(events')
                        /\ \A i \in 1..Len(payload[t].events) :
                              payload[t].events[i] = events'[i]
      BY <2>3 DEF PrefixInv
    <3>1. /\ Len(payload[t].events) <= Len(events)
          /\ \A i \in 1..Len(payload[t].events) : payload[t].events[i] = events[i]
      BY DEF QuietInv, PrefixInv
    <3>2. Len(payload[t].events) \in Nat /\ Len(events) \in Nat
      BY <2>1 DEF TypeInv, RestOK, Payloads
    <3>3. QED
      BY <2>2, <3>1, <3>2
  <2>5. DeliveredInv' /\ OwedInv'
    BY <2>2, <2>3 DEF QuietInv, DeliveredInv, OwedInv
  <2>6. QED
    BY <2>4, <2>5 DEF QuietInv
<1>2. CASE StageValue
  BY <1>2, QuietStep DEF StageValue, sendVars, receiverVars, QuietInv, DeliveredInv, OwedInv
<1>3. CASE ~InFlight /\ Clear
  <2>1. \A t \in Task : pc'[t] \notin Sending /\ pc'[t] = pc[t] /\ unmet'[t] = unmet[t]
    BY <1>3 DEF InFlight, Clear, sendVars, Sending
  <2>2. discarded' = discarded \cup Range(events) /\ arrived' = arrived
    BY <1>3 DEF Clear, receiverVars
  <2>3. PrefixInv' /\ DeliveredInv'
    BY <2>1 DEF PrefixInv, DeliveredInv, Sending
  <2>4. OwedInv'
    BY <2>1, <2>2 DEF QuietInv, OwedInv
  <2>5. QED
    BY <2>3, <2>4 DEF QuietInv
<1>4. QED
  BY <1>1, <1>2, <1>3

LEMMA CallQuiet ==
    ASSUME TypeInv, QuietInv,
           NEW t \in Task, FlushAsync(t) \/ DisposeAsync(t) \/ Dispose(t) \/ Finish(t)
    PROVE  QuietInv'
<1>1. UNCHANGED <<events, discarded, arrived, payload>>
  BY DEF FlushAsync, DisposeAsync, Dispose, Finish, Joined, JoinThrows, Cleanup,
         registryVars, sendVars, receiverVars
<1>2. ASSUME \A u \in Task : u # t => pc'[u] = pc[u],
             pc'[t] \in Waiting, \A u \in Task : u # t => unmet'[u] = unmet[u],
             unmet'[t] = Range(events) \/ (pc[t] \in Waiting /\ unmet'[t] = unmet[t])
      PROVE  QuietInv'
  BY <1>1, <1>2, QuietStep DEF QuietInv, DeliveredInv, OwedInv, Sending, Waiting, Done
<1>3. CASE FlushAsync(t) \/ Joined(t)
  <2>1. pc'[t] \in {"queued", "locked"} /\ \A u \in Task : u # t => pc'[u] = pc[u]
    BY <1>3, WaitGate DEF FlushAsync, Joined, TypeInv
  <2>2. /\ \A u \in Task : u # t => unmet'[u] = unmet[u]
        /\ unmet'[t] = Range(events) \/ (pc[t] \in Waiting /\ unmet'[t] = unmet[t])
    BY <1>3 DEF FlushAsync, Joined, Undertake, Waiting, TypeInv, RestOK
  <2>3. QED
    BY <1>2, <2>1, <2>2 DEF Waiting
<1>4. CASE DisposeAsync(t)
  <2>1. \A u \in Task : /\ pc'[u] = IF u = t THEN "joining" ELSE pc[u]
                        /\ unmet'[u] = IF u = t THEN Range(events) ELSE unmet[u]
    BY <1>4 DEF DisposeAsync, Undertake, TypeInv, RestOK, GateOK
  <2>2. QED
    BY <1>2, <2>1 DEF Waiting
<1>5. CASE Dispose(t)
  <2>1. \A u \in Task : /\ pc'[u] = IF u = t THEN "cleaning" ELSE pc[u]
                        /\ unmet'[u] = unmet[u]
    BY <1>5 DEF Dispose, TypeInv, GateOK
  <2>2. unmet'[t] = {}
    BY <1>5, <2>1 DEF Dispose, QuietInv, OwedInv, Done
  <2>3. QED
    BY <1>1, <2>1, <2>2, QuietStep DEF QuietInv, DeliveredInv, OwedInv, Sending, Waiting, Done
<1>6. CASE JoinThrows(t) \/ Cleanup(t)
  <2>1. \A u \in Task : pc'[u] = IF u = t THEN "idle" ELSE pc[u]
    BY <1>6 DEF JoinThrows, Cleanup, TypeInv, GateOK
  <2>2. /\ \A u \in Task : u # t => unmet'[u] = unmet[u]
        /\ unmet'[t] = {}
    BY <1>6 DEF JoinThrows, Cleanup, TypeInv, RestOK, QuietInv, OwedInv, Done
  <2>3. QED
    BY <1>1, <2>1, <2>2, QuietStep DEF QuietInv, DeliveredInv, OwedInv, Sending, Waiting, Done
<1>7. QED
  BY <1>3, <1>4, <1>5, <1>6 DEF Finish

LEMMA QuitQuiet == TypeInv /\ QuietInv /\ Quit => QuietInv'
<1> SUFFICES ASSUME TypeInv, QuietInv, Quit PROVE QuietInv'
  OBVIOUS
<1>1. PICK p \in {"ended", "faulted"} : \A u \in Task : pc'[u] = IF u = Loop THEN p ELSE pc[u]
  BY DEF Quit, TypeInv, GateOK
<1>2. pc[Loop] = "idle" /\ UNCHANGED <<events, discarded, arrived, payload, unmet>>
  BY DEF Quit, registryVars, receiverVars
<1>3. QED
  BY <1>1, <1>2, QuietStep DEF QuietInv, DeliveredInv, OwedInv, Sending, Waiting, Done

LEMMA CancelQuiet ==
    ASSUME TypeInv, QuietInv, NEW t \in Task, Cancel(t)
    PROVE  QuietInv'
<1>1. UNCHANGED <<events, discarded, arrived>>
  BY DEF Cancel, registryVars, receiverVars
<1>2. CASE pc[t] = "queued"
  <2>1. PICK p \in {"ended", "idle"} : \A u \in Task : pc'[u] = IF u = t THEN p ELSE pc[u]
    BY <1>2 DEF Cancel, TypeInv, GateOK
  <2>2. payload' = payload /\ \A u \in Task : unmet'[u] = IF u = t THEN {} ELSE unmet[u]
    BY <1>2 DEF Cancel, TypeInv, RestOK
  <2>3. QED
    BY <1>1, <2>1, <2>2, QuietStep DEF QuietInv, DeliveredInv, OwedInv, Sending, Waiting, Done
<1>3. CASE pc[t] # "queued"
  BY <1>1, <1>3, ReturnQuiet DEF Cancel, Inside, Sending
<1>4. QED
  BY <1>2, <1>3

\* The trim takes away what has arrived, and no more than that.
LEMMA TrimQuiet ==
    ASSUME TypeInv, QuietInv, NEW t \in Task, Trim(t)
    PROVE  QuietInv'
<1>1. /\ events \in Seq(Ids) /\ payload[t].events \in Seq(Ids)
      /\ pc[t] = "trimming" /\ UNCHANGED <<arrived, discarded>>
  BY DEF TypeInv, RestOK, Payloads, Trim, receiverVars
<1>2. /\ Len(payload[t].events) <= Len(events)
      /\ \A i \in 1..Len(payload[t].events) : payload[t].events[i] = events[i]
      /\ Range(payload[t].events) \subseteq arrived
  BY <1>1 DEF QuietInv, PrefixInv, DeliveredInv, Sending
<1>3. Range(events) \subseteq Range(events') \cup arrived
  <2>1. Range(events) \subseteq
           Range(SubSeq(events, Len(payload[t].events) + 1, Len(events)))
              \cup Range(payload[t].events)
    BY <1>1, <1>2, CutPrefix
  <2>2. QED
    BY <1>2, <2>1 DEF Trim
<1>4. /\ pc'[t] \in Done /\ unmet'[t] = {}
      /\ \A u \in Task : u # t =>
            /\ pc'[u] = pc[u] \/ (pc[u] = "queued" /\ pc'[u] = "locked")
            /\ unmet'[u] = unmet[u]
      /\ \A u \in Task : pc'[u] \notin Sending
  <2>1. unmet[t] \subseteq arrived \cup discarded
    BY <1>1, <1>2 DEF QuietInv, OwedInv, Sending
  <2>2. pc[t] \in Inside /\ Return(t, "ok")
    BY <1>1 DEF Trim, Inside, Sending
  <2>3. QED
    BY <2>1, <2>2, Returned
<1>5. PrefixInv' /\ DeliveredInv'
  BY <1>4 DEF PrefixInv, DeliveredInv, Sending
<1>6. OwedInv'
  <2> SUFFICES ASSUME NEW u \in Task
               PROVE  /\ pc'[u] \in Waiting =>
                            unmet'[u] \subseteq Range(events') \cup arrived \cup discarded
                      /\ pc'[u] \in Done => unmet'[u] = {}
    BY <1>1, <1>4 DEF OwedInv
  <2>1. CASE u = t
    BY <1>4, <2>1 DEF Waiting, Done
  <2>2. CASE u # t
    BY <1>3, <1>4, <2>2 DEF QuietInv, OwedInv, Waiting, Done
  <2>3. QED
    BY <2>1, <2>2
<1>7. QED
  BY <1>5, <1>6 DEF QuietInv

LEMMA FlushingQuiet ==
    ASSUME TypeInv, QuietInv, NEW t \in Task, Step(t)
    PROVE  QuietInv'
<1> USE DEF registryVars, receiverVars
<1>1. CASE SkipEmpty(t)
  <2>1. Range(events) = {}
    <3>1. events = <<>> /\ 1..0 = {}
      BY <1>1 DEF SkipEmpty, Nothing
    <3>2. Range(events) = {events[i] : i \in 1..Len(events)}
      BY RangeOfSeq DEF TypeInv, RestOK
    <3>3. Len(events) = 0
      BY <3>1
    <3>4. QED
      BY <3>1, <3>2, <3>3
  <2>2. unmet[t] \subseteq arrived \cup discarded
    BY <1>1, <2>1 DEF SkipEmpty, QuietInv, OwedInv, Waiting
  <2>3. QED
    BY <1>1, <2>2, ReturnQuiet DEF SkipEmpty, Inside
<1>2. CASE Snapshot(t)
  <2>1. /\ pc[t] = "locked" /\ UNCHANGED <<events, discarded, arrived, unmet>>
        /\ \A u \in Task : /\ pc'[u] = IF u = t THEN "posting" ELSE pc[u]
                           /\ u # t => payload'[u] = payload[u]
        /\ payload'[t].events = events
    BY <1>2 DEF Snapshot, Post, TypeInv, RestOK, GateOK
  <2>2. Len(events) \in Nat
    BY DEF TypeInv, RestOK
  <2>3. PrefixInv'
    <3> SUFFICES ASSUME NEW u \in Task, pc'[u] \in Sending
                 PROVE  /\ Len(payload'[u].events) <= Len(events)
                        /\ \A i \in 1..Len(payload'[u].events) :
                              payload'[u].events[i] = events[i]
      BY <2>1 DEF PrefixInv
    <3>1. CASE u = t
      BY <2>1, <2>2, <3>1
    <3>2. CASE u # t
      BY <2>1, <3>2 DEF QuietInv, PrefixInv
    <3>3. QED
      BY <3>1, <3>2
  <2>4. DeliveredInv'
    BY <2>1 DEF QuietInv, DeliveredInv
  <2>5. OwedInv'
    BY <2>1 DEF QuietInv, OwedInv, Sending, Waiting, Done
  <2>6. QED
    BY <2>3, <2>4, <2>5 DEF QuietInv
<1>3. CASE Retry(t)
  <2>1. \A u \in Task : pc'[u] = IF u = t THEN "posting" ELSE pc[u]
    BY <1>3 DEF Retry, Post, TypeInv, GateOK
  <2>2. pc[t] = "backoff" /\ UNCHANGED <<events, discarded, arrived, unmet, payload>>
    BY <1>3 DEF Retry
  <2>3. QED
    BY <2>1, <2>2, QuietStep DEF QuietInv, DeliveredInv, OwedInv, Sending, Waiting, Done
<1>4. CASE Trim(t)
  BY <1>4, TrimQuiet
<1>5. QED
  BY <1>1, <1>2, <1>3, <1>4 DEF Step

LEMMA InitQuiet == Init => QuietInv
<1> SUFFICES ASSUME Init PROVE QuietInv
  OBVIOUS
<1>1. \A t \in Task : pc[t] \in {"idle", "ended"} /\ unmet[t] = {}
  BY DEF Init
<1>2. QED
  BY <1>1 DEF QuietInv, PrefixInv, DeliveredInv, OwedInv, Sending, Waiting

LEMMA StepQuiet == TypeInv /\ QuietInv /\ [Next]_vars => QuietInv'
<1> SUFFICES ASSUME TypeInv, QuietInv, [Next]_vars PROVE QuietInv'
  OBVIOUS
<1>1. CASE UNCHANGED vars
  BY <1>1 DEF vars, registryVars, sendVars, receiverVars,
              QuietInv, PrefixInv, DeliveredInv, OwedInv
<1>2. CASE Tick \/ \E c \in Caller : FlushAsync(c) \/ DisposeAsync(c) \/ Dispose(c) \/ Finish(c)
  BY <1>2, CallQuiet DEF Tick, Task
<1>3. QED
  BY <1>1, <1>2, StagingQuiet, QuitQuiet, FlushingQuiet, CancelQuiet, NetworkQuiet DEF Next

\* A FlushAsync or DisposeAsync whose send succeeded has sent, or seen
\* discarded, every event staged before it was called, for any number of tasks
\* that queue, cancel and dispose, when Clear is not called under a request
\* (Telemetry.cs:436-464).
THEOREM SuccessIsSent == Spec => []SuccessMeansSent
<1>1. QuietInv => SuccessMeansSent
  BY DEF QuietInv, OwedInv, SuccessMeansSent, Task, Done
<1>2. QED
  BY <1>1, InitTypeInv, InitQuiet, StepTypeInv, StepQuiet, PTL DEF Spec

------------------------------------------------------------------------------
(* The client implements EventOutbox, when Clear keeps away from requests. *)

\* The first n elements of a sequence, as a set.
First(s, n) == {s[i] : i \in 1..n}

\* The events known to the client are the ones that were staged.
KnownInv == Range(events) \cup arrived \cup discarded \subseteq 1..staged

\* An abandoned request carries the oldest events of the queue, those that
\* have left the queue since the request was built apart.
Covers(p, n) ==
    /\ First(events, n) \subseteq Range(p.events)
    /\ Range(p.events) \subseteq First(events, n) \cup arrived \cup discarded

LateInv == \A p \in late : \E n \in 0..Len(events) : Covers(p, n)

OutboxInv == TypeInv /\ QuietInv /\ KnownInv /\ LateInv

------------------------------------------------------------------------------
(* Lengths and ranges. *)

LEMMA Lengths ==
    ASSUME TypeInv
    PROVE  /\ events \in Seq(Ids) /\ Len(events) \in Nat /\ staged \in Nat
           /\ Range(events) = First(events, Len(events))
           /\ \A t \in Task : /\ payload[t].events \in Seq(Ids)
                              /\ Len(payload[t].events) \in Nat
<1>1. events \in Seq(Ids) /\ Len(events) \in Nat /\ staged \in Nat
  BY ReceiverAssumption DEF TypeInv, RestOK
<1>2. Range(events) = First(events, Len(events))
  BY <1>1, RangeOfSeq DEF First
<1>3. \A t \in Task : payload[t] \in Payloads
  BY DEF TypeInv, RestOK
<1>4. QED
  BY <1>1, <1>2, <1>3 DEF Payloads

\* The events of a request under way are the oldest of the queue.
LEMMA UnderWay ==
    ASSUME TypeInv, QuietInv, NEW t \in Task, pc[t] \in Sending
    PROVE  /\ Len(payload[t].events) \in 0..Len(events)
           /\ Range(payload[t].events) = First(events, Len(payload[t].events))
<1> DEFINE sent == payload[t].events
<1>1. sent \in Seq(Ids) /\ Len(sent) \in Nat /\ Len(events) \in Nat
  BY Lengths
<1>2. Len(sent) <= Len(events) /\ \A i \in 1..Len(sent) : sent[i] = events[i]
  BY DEF QuietInv, PrefixInv
<1>3. Range(sent) = {sent[i] : i \in 1..Len(sent)}
  BY <1>1, RangeOfSeq
<1>4. QED
  BY <1>1, <1>2, <1>3 DEF First

------------------------------------------------------------------------------
(* The invariant. *)

LEMMA InitOutbox == Init => KnownInv /\ LateInv
BY DEF Init, ReceiverInit, KnownInv, LateInv, Range

\* A step that leaves the queue alone, and abandons no request but one under
\* way, keeps the invariant when nothing unknown arrives.
LEMMA QuietOutbox ==
    ASSUME OutboxInv, UNCHANGED <<events, staged, discarded>>,
           arrived \subseteq arrived', arrived' \subseteq 1..staged,
           \A p \in late' : p \in late \/ \E t \in Task : pc[t] \in Sending /\ p = payload[t]
    PROVE  KnownInv' /\ LateInv'
<1>1. KnownInv'
  BY DEF OutboxInv, KnownInv
<1>2. ASSUME NEW p \in late'
      PROVE  \E n \in 0..Len(events) : Covers(p, n)
  BY UnderWay DEF OutboxInv, LateInv, Covers
<1>3. ASSUME NEW p \in late', NEW n \in 0..Len(events), Covers(p, n)
      PROVE  Covers(p, n)'
  BY <1>3 DEF Covers, First
<1>4. QED
  BY <1>1, <1>2, <1>3 DEF LateInv

LEMMA StageEventOutbox == OutboxInv /\ StageEvent => KnownInv' /\ LateInv'
<1> SUFFICES ASSUME OutboxInv, StageEvent PROVE KnownInv' /\ LateInv'
  OBVIOUS
<1>1. events \in Seq(Ids) /\ staged + 1 \in Ids /\ staged \in Nat /\ Len(events) \in Nat
  BY Lengths, ReceiverAssumption DEF OutboxInv, TypeInv, RestOK, StageEvent, Ids
<1>2. Range(events') = Range(events) \cup {staged + 1}
  BY <1>1, AppendKeeps DEF StageEvent
<1>3. KnownInv'
  BY <1>1, <1>2 DEF OutboxInv, KnownInv, StageEvent, receiverVars
<1>4. /\ Len(events') = Len(events) + 1
      /\ \A n \in 0..Len(events) : First(events', n) = First(events, n)
  BY <1>1 DEF StageEvent, First
<1>5. ASSUME NEW p \in late
      PROVE  \E n \in 0..Len(events') : Covers(p, n)'
  <2>1. PICK n \in 0..Len(events) : Covers(p, n)
    BY DEF OutboxInv, LateInv
  <2>2. n \in 0..Len(events') /\ Covers(p, n)'
    BY <1>1, <1>4, <2>1 DEF Covers, StageEvent, receiverVars
  <2>3. QED
    BY <2>2
<1>6. QED
  BY <1>3, <1>5 DEF LateInv, StageEvent

LEMMA ClearOutbox == OutboxInv /\ Clear => KnownInv' /\ LateInv'
<1> SUFFICES ASSUME OutboxInv, Clear PROVE KnownInv' /\ LateInv'
  OBVIOUS
<1>1. events' = <<>> /\ discarded' = discarded \cup Range(events)
      /\ UNCHANGED <<arrived, staged, late>>
  BY DEF Clear, receiverVars
<1>2. KnownInv'
  BY <1>1 DEF OutboxInv, KnownInv, Range
<1>3. ASSUME NEW p \in late
      PROVE  0 \in 0..Len(events') /\ Covers(p, 0)'
  <2>1. PICK n \in 0..Len(events) : Covers(p, n)
    BY DEF OutboxInv, LateInv
  <2>2. First(events, n) \subseteq Range(events)
    BY Lengths DEF OutboxInv, First
  <2>3. First(events', 0) = {}
    BY DEF First
  <2>4. QED
    BY <1>1, <2>1, <2>2, <2>3 DEF Covers
<1>4. QED
  BY <1>1, <1>2, <1>3 DEF LateInv

\* What Trim does to the queue.
LEMMA Trimmed ==
    ASSUME OutboxInv, NEW t \in Task, Trim(t)
    PROVE  LET k == Len(payload[t].events) IN
           /\ k \in 0..Len(events)
           /\ First(events, k) \subseteq arrived
           /\ Len(events') = Len(events) - k
           /\ \A i \in 1..(Len(events) - k) : events'[i] = events[k + i]
           /\ events' \in Seq(Ids)
           /\ UNCHANGED <<arrived, discarded, staged, late>>
<1> DEFINE k == Len(payload[t].events)
<1>1. pc[t] = "trimming" /\ pc[t] \in Sending
  BY DEF Trim, Sending
<1>2. k \in 0..Len(events) /\ Range(payload[t].events) = First(events, k)
  BY <1>1, UnderWay DEF OutboxInv
<1>3. Range(payload[t].events) \subseteq arrived
  BY <1>1 DEF OutboxInv, QuietInv, DeliveredInv
<1>4. events \in Seq(Ids) /\ Len(events) \in Nat
  BY Lengths DEF OutboxInv
<1>5. events' = SubSeq(events, k + 1, Len(events))
  BY DEF Trim
<1> HIDE DEF k
<1>6. /\ Len(events') = Len(events) - k
      /\ \A i \in 1..(Len(events) - k) : events'[i] = events[k + i]
      /\ events' \in Seq(Ids)
  BY <1>2, <1>4, <1>5
<1>7. UNCHANGED <<arrived, discarded, staged, late>>
  BY DEF Trim, receiverVars
<1>8. QED
  BY <1>2, <1>3, <1>6, <1>7 DEF k

LEMMA TrimOutbox ==
    ASSUME OutboxInv, NEW t \in Task, Trim(t)
    PROVE  KnownInv' /\ LateInv'
<1> DEFINE k == Len(payload[t].events)
<1>1. /\ k \in 0..Len(events) /\ Len(events) \in Nat
      /\ First(events, k) \subseteq arrived
      /\ Len(events') = Len(events) - k
      /\ \A i \in 1..(Len(events) - k) : events'[i] = events[k + i]
      /\ events' \in Seq(Ids)
      /\ UNCHANGED <<arrived, discarded, staged, late>>
  BY Trimmed, Lengths DEF OutboxInv
<1> HIDE DEF k
<1>2. Range(events') \subseteq Range(events)
  <2>1. Range(events') = {events'[i] : i \in 1..Len(events')}
    BY <1>1, RangeOfSeq
  <2>2. Range(events) = {events[i] : i \in 1..Len(events)}
    BY Lengths, RangeOfSeq DEF OutboxInv
  <2>3. \A i \in 1..(Len(events) - k) : k + i \in 1..Len(events)
    BY <1>1
  <2>4. QED
    BY <1>1, <2>1, <2>2, <2>3
<1>3. KnownInv'
  BY <1>1, <1>2 DEF OutboxInv, KnownInv
<1>4. ASSUME NEW p \in late
      PROVE  \E n \in 0..Len(events') : Covers(p, n)'
  <2>1. PICK n \in 0..Len(events) : Covers(p, n)
    BY DEF OutboxInv, LateInv
  <2>2. CASE n <= k
    <3>1. First(events, n) \subseteq First(events, k)
      BY <1>1, <2>2 DEF First
    <3>2. First(events', 0) = {}
      BY DEF First
    <3>3. 0 \in 0..Len(events') /\ Covers(p, 0)'
      BY <1>1, <2>1, <3>1, <3>2 DEF Covers
    <3>4. QED
      BY <3>3
  <2>3. CASE n > k
    <3>1. PICK m \in 0..Len(events') : m = n - k
      BY <1>1, <2>3
    <3>2. First(events', n - k) \subseteq First(events, n)
      <4>1. \A i \in 1..(n - k) : k + i \in 1..n /\ i \in 1..(Len(events) - k)
        BY <1>1, <2>3
      <4>2. QED
        BY <1>1, <4>1 DEF First
    <3>3. First(events, n) \subseteq First(events, k) \cup First(events', n - k)
      <4>1. ASSUME NEW i \in 1..n, i > k
            PROVE  events[i] \in First(events', n - k)
        <5>1. i - k \in 1..(n - k) /\ i - k \in 1..(Len(events) - k) /\ k + (i - k) = i
          BY <1>1, <2>3, <4>1
        <5>2. QED
          BY <1>1, <5>1 DEF First
      <4>2. ASSUME NEW i \in 1..n, ~(i > k)
            PROVE  events[i] \in First(events, k)
        <5>1. i \in 1..k
          BY <1>1, <4>2
        <5>2. QED
          BY <5>1 DEF First
      <4>3. QED
        BY <4>1, <4>2 DEF First
    <3>4. Covers(p, m)'
      BY <1>1, <2>1, <3>1, <3>2, <3>3 DEF Covers
    <3>5. QED
      BY <3>4
  <2>4. QED
    BY <1>1, <2>2, <2>3
<1>5. QED
  BY <1>1, <1>3, <1>4 DEF LateInv

LEMMA CallOutbox ==
    ASSUME OutboxInv,
           \/ Tick \/ Quit
           \/ \E c \in Caller : FlushAsync(c) \/ DisposeAsync(c) \/ Dispose(c) \/ Finish(c)
    PROVE  KnownInv' /\ LateInv'
<1>1. arrived \subseteq 1..staged
  BY DEF OutboxInv, KnownInv
<1>2. UNCHANGED <<registryVars, late, receiverVars>>
  BY DEF Tick, Quit, FlushAsync, DisposeAsync, Dispose, Finish, Joined, JoinThrows, Cleanup
<1>3. QED
  BY <1>1, <1>2, QuietOutbox DEF registryVars, receiverVars

LEMMA FlushingOutbox ==
    ASSUME OutboxInv, NEW t \in Task, Step(t) \/ Cancel(t)
    PROVE  KnownInv' /\ LateInv'
<1>1. arrived \subseteq 1..staged
  BY DEF OutboxInv, KnownInv
<1>2. CASE Trim(t)
  BY <1>2, TrimOutbox
<1>3. CASE SkipEmpty(t) \/ Snapshot(t) \/ Retry(t)
  BY <1>1, <1>3, QuietOutbox DEF SkipEmpty, Snapshot, Retry, registryVars, receiverVars
<1>4. CASE Cancel(t)
  BY <1>1, <1>4, QuietOutbox DEF Cancel, registryVars, receiverVars, Sending
<1>5. QED
  BY <1>2, <1>3, <1>4 DEF Step

LEMMA NetworkOutbox ==
    ASSUME OutboxInv, Network
    PROVE  KnownInv' /\ LateInv'
<1> USE DEF registryVars, sendVars
<1>1. arrived \subseteq 1..staged /\ Range(events) \subseteq 1..staged /\ discarded \subseteq 1..staged
  BY DEF OutboxInv, KnownInv
<1>2. \A n \in 0..Len(events) : First(events, n) \subseteq Range(events)
  BY Lengths DEF OutboxInv, First
<1>3. ASSUME NEW t \in Task, Receive(t)
      PROVE  KnownInv' /\ LateInv'
  <2>1. pc[t] \in Sending /\ arrived' = arrived \cup Range(payload[t].events)
    BY <1>3 DEF Receive, Apply, Sending
  <2>2. Range(payload[t].events) \subseteq Range(events)
    BY <1>2, <2>1, UnderWay DEF OutboxInv
  <2>3. QED
    BY <1>1, <1>3, <2>1, <2>2, QuietOutbox DEF Receive
<1>4. ASSUME NEW t \in Task, Refuse(t)
      PROVE  KnownInv' /\ LateInv'
  BY <1>1, <1>4, QuietOutbox DEF Refuse, receiverVars
<1>5. ASSUME NEW t \in Task, TimeOut(t)
      PROVE  KnownInv' /\ LateInv'
  BY <1>1, <1>5, QuietOutbox DEF TimeOut, Sending, receiverVars
<1>6. ASSUME NEW p \in late, ArriveLate(p)
      PROVE  KnownInv' /\ LateInv'
  <2>1. PICK n \in 0..Len(events) : Covers(p, n)
    BY DEF OutboxInv, LateInv
  <2>2. arrived' = arrived \cup Range(p.events)
    BY <1>6 DEF ArriveLate, Apply
  <2>3. arrived' \subseteq 1..staged
    BY <1>1, <1>2, <2>1, <2>2 DEF Covers
  <2>4. QED
    BY <1>6, <2>2, <2>3, QuietOutbox DEF ArriveLate
<1>7. ASSUME NEW p \in late, LoseLate(p)
      PROVE  KnownInv' /\ LateInv'
  BY <1>1, <1>7, QuietOutbox DEF LoseLate, receiverVars
<1>8. QED
  BY <1>3, <1>4, <1>5, <1>6, <1>7 DEF Network

LEMMA StepOutbox == OutboxInv /\ [Next]_vars => OutboxInv'
<1> SUFFICES ASSUME OutboxInv, [Next]_vars PROVE OutboxInv'
  OBVIOUS
<1>1. arrived \subseteq 1..staged
  BY DEF OutboxInv, KnownInv
<1>2. TypeInv' /\ QuietInv'
  BY StepTypeInv, StepQuiet DEF OutboxInv
<1>3. ASSUME StageValue PROVE KnownInv' /\ LateInv'
  BY <1>1, <1>3, QuietOutbox DEF StageValue, receiverVars
<1>4. ASSUME UNCHANGED vars PROVE KnownInv' /\ LateInv'
  BY <1>1, <1>4, QuietOutbox DEF vars, registryVars, receiverVars
<1>5. KnownInv' /\ LateInv'
  BY <1>3, <1>4, StageEventOutbox, ClearOutbox, CallOutbox, FlushingOutbox, NetworkOutbox
     DEF Next
<1>6. QED
  BY <1>2, <1>5 DEF OutboxInv

------------------------------------------------------------------------------
(* Every step of the client is a step of the outbox, or none. *)

LEMMA ArriveStep ==
    ASSUME NEW n \in 0..Len(events), NEW p, Covers(p, n),
           arrived' = arrived \cup Range(p.events), UNCHANGED <<events, discarded>>
    PROVE  Outbox!Next
<1> DEFINE again == Range(p.events) \cap (arrived \cup discarded)
<1>1. arrived' = arrived \cup First(events, n) \cup again
  BY DEF Covers
<1>2. Outbox!Arrive(n, again)
  BY <1>1 DEF Outbox!Arrive, Outbox!Oldest, First
<1>3. again \in SUBSET (arrived \cup discarded)
  OBVIOUS
<1>4. QED
  BY <1>2, <1>3 DEF Outbox!Next

LEMMA StageStep == OutboxInv /\ StageEvent => Outbox!Next
<1> SUFFICES ASSUME OutboxInv, StageEvent PROVE Outbox!Next
  OBVIOUS
<1>1. staged + 1 \in Ids /\ staged \in Nat
  BY ReceiverAssumption DEF OutboxInv, TypeInv, RestOK, StageEvent, Ids
<1>2. staged + 1 \notin Range(events) \cup arrived \cup discarded
  BY <1>1 DEF OutboxInv, KnownInv
<1>3. Outbox!Stage(staged + 1)
  BY <1>2 DEF Outbox!Stage, StageEvent, Range, Outbox!Range, receiverVars
<1>4. QED
  BY <1>1, <1>3 DEF Outbox!Next

LEMMA ClearStep == Clear => Outbox!Next
BY DEF Clear, Outbox!Next, Outbox!Discard, Range, Outbox!Range, receiverVars

LEMMA TrimStep ==
    ASSUME OutboxInv, NEW t \in Task, Trim(t)
    PROVE  [Outbox!Next]_(Outbox!outboxVars)
<1> DEFINE k == Len(payload[t].events)
<1>1. /\ k \in 0..Len(events) /\ Len(events) \in Nat /\ events \in Seq(Ids)
      /\ First(events, k) \subseteq arrived
      /\ events' = SubSeq(events, k + 1, Len(events))
      /\ UNCHANGED <<arrived, discarded>>
  BY Trimmed, Lengths DEF OutboxInv, Trim
<1> HIDE DEF k
<1>2. CASE k = 0
  <2>1. events' = events
    BY <1>1, <1>2
  <2>2. QED
    BY <1>1, <2>1 DEF Outbox!outboxVars
<1>3. CASE k # 0
  <2>1. Outbox!Confirm(k)
    BY <1>1 DEF Outbox!Confirm, Outbox!Oldest, First
  <2>2. k \in 1..Len(events)
    BY <1>1, <1>3
  <2>3. QED
    BY <2>1, <2>2 DEF Outbox!Next
<1>4. QED
  BY <1>2, <1>3

LEMMA NetworkStep ==
    ASSUME OutboxInv, Network
    PROVE  [Outbox!Next]_(Outbox!outboxVars)
<1>1. ASSUME NEW t \in Task, Receive(t)
      PROVE  Outbox!Next
  <2>1. pc[t] \in Sending /\ arrived' = arrived \cup Range(payload[t].events)
    BY <1>1 DEF Receive, Apply, Sending
  <2>2. /\ Len(payload[t].events) \in 0..Len(events)
        /\ Covers(payload[t], Len(payload[t].events))
    BY <2>1, UnderWay DEF OutboxInv, Covers
  <2>3. QED
    BY <1>1, <2>1, <2>2, ArriveStep DEF Receive, registryVars
<1>2. ASSUME NEW p \in late, ArriveLate(p)
      PROVE  Outbox!Next
  <2>1. PICK n \in 0..Len(events) : Covers(p, n)
    BY DEF OutboxInv, LateInv
  <2>2. QED
    BY <1>2, <2>1, ArriveStep DEF ArriveLate, Apply, registryVars
<1>3. ASSUME \/ \E t \in Task : TimeOut(t) \/ Refuse(t)
             \/ \E p \in late : LoseLate(p)
      PROVE  UNCHANGED Outbox!outboxVars
  BY <1>3 DEF TimeOut, Refuse, LoseLate, registryVars, receiverVars, Outbox!outboxVars
<1>4. QED
  BY <1>1, <1>2, <1>3 DEF Network

LEMMA FlushingStep ==
    ASSUME OutboxInv, NEW t \in Task, Step(t) \/ Cancel(t)
    PROVE  [Outbox!Next]_(Outbox!outboxVars)
<1>1. CASE Trim(t)
  BY <1>1, TrimStep
<1>2. CASE SkipEmpty(t) \/ Snapshot(t) \/ Retry(t) \/ Cancel(t)
  BY <1>2 DEF SkipEmpty, Snapshot, Retry, Cancel, registryVars, receiverVars,
              Outbox!outboxVars
<1>3. QED
  BY <1>1, <1>2 DEF Step

LEMMA CallStep ==
    ASSUME \/ Tick \/ Quit
           \/ \E c \in Caller : FlushAsync(c) \/ DisposeAsync(c) \/ Dispose(c) \/ Finish(c)
    PROVE  UNCHANGED Outbox!outboxVars
BY DEF Tick, Quit, FlushAsync, DisposeAsync, Dispose, Finish, Joined, JoinThrows, Cleanup,
       registryVars, receiverVars, Outbox!outboxVars

\* Every step is one of EventOutbox, or changes nothing it knows of.
LEMMA OutboxStep == OutboxInv /\ [Next]_vars => [Outbox!Next]_(Outbox!outboxVars)
<1>1. ASSUME UNCHANGED vars \/ StageValue PROVE UNCHANGED Outbox!outboxVars
  BY <1>1 DEF vars, registryVars, receiverVars, StageValue, Outbox!outboxVars
<1>2. QED
  BY <1>1, StageStep, ClearStep, CallStep, FlushingStep, NetworkStep DEF Next

\* The client keeps the promise of EventOutbox: staged events wait in order,
\* leave the queue only once the receiver has had them, and are never sent
\* behind newer ones, through retries, cancellation, disposal and late arrivals,
\* when Clear is not called under a request (Telemetry.cs:436-464).
THEOREM ImplementsOutbox == Spec => OutboxSpec
<1>1. Init => Outbox!Init
  BY DEF Init, ReceiverInit, Outbox!Init
<1>2. Init => OutboxInv
  BY InitTypeInv, InitQuiet, InitOutbox DEF OutboxInv
<1>3. QED
  BY <1>1, <1>2, OutboxStep, StepOutbox, PTL DEF Spec, OutboxSpec, Outbox!Spec

------------------------------------------------------------------------------
(* Order of arrival. *)

\* The events the receiver has had, or clear() dropped.
Gone == arrived \cup discarded

\* The queue is the newest events staged, in order; all older ones are gone,
\* and none is gone before those staged ahead of it.
OrderInv ==
    /\ Len(events) <= staged
    /\ \A i \in 1..Len(events) : events[i] = (staged - Len(events)) + i
    /\ 1..(staged - Len(events)) \subseteq Gone
    /\ \A e \in Gone : 1..e \subseteq Gone

\* Every event ever staged is queued or gone, and the receiver has had none
\* ahead of one that was staged before it and is still queued.
ArrivesInOrder ==
    /\ 1..staged \subseteq Range(events) \cup arrived \cup discarded
    /\ \A e \in arrived : 1..e \subseteq arrived \cup discarded

\* The oldest n of the queue follow what is gone.
LEMMA OldestFollow ==
    ASSUME TypeInv, OrderInv, NEW n \in 0..Len(events)
    PROVE  /\ 1..((staged - Len(events)) + n) \subseteq Gone \cup First(events, n)
           /\ \A e \in Gone \cup First(events, n) : 1..e \subseteq Gone \cup First(events, n)
<1> DEFINE base == staged - Len(events)
<1>1. /\ base \in Nat /\ Len(events) \in Nat /\ 1..base \subseteq Gone
      /\ \A i \in 1..Len(events) : events[i] = base + i
  BY Lengths DEF OrderInv
<1> HIDE DEF base
<1>2. ASSUME NEW m \in 0..n, NEW x \in 1..(base + m)
      PROVE  x \in Gone \cup First(events, n)
  <2>1. CASE x <= base
    BY <1>1, <2>1
  <2>2. CASE x > base
    <3>1. x - base \in 1..n /\ x - base \in 1..Len(events) /\ base + (x - base) = x
      BY <1>1, <1>2, <2>2
    <3>2. QED
      BY <1>1, <3>1 DEF First
  <2>3. QED
    BY <1>1, <2>1, <2>2
<1>3. ASSUME NEW e \in First(events, n)
      PROVE  1..e \subseteq Gone \cup First(events, n)
  <2>1. PICK i \in 1..n : e = events[i]
    BY <1>3 DEF First
  <2>2. e = base + i /\ i \in 0..n
    BY <1>1, <2>1
  <2>3. QED
    BY <1>2, <2>2
<1>4. 1..(base + n) \subseteq Gone \cup First(events, n)
  BY <1>2
<1>5. QED
  BY <1>3, <1>4 DEF base, OrderInv

\* So they are 1..staged together with the queue.
LEMMA OrderMeans ==
    ASSUME OutboxInv, OrderInv
    PROVE  ArrivesInOrder
<1>1. Len(events) \in Nat /\ staged \in Nat /\ Range(events) = First(events, Len(events))
  BY Lengths DEF OutboxInv
<1>2. 1..((staged - Len(events)) + Len(events)) \subseteq Gone \cup First(events, Len(events))
  BY <1>1, OldestFollow DEF OutboxInv
<1>3. (staged - Len(events)) + Len(events) = staged
  BY <1>1
<1>4. QED
  BY <1>1, <1>2, <1>3 DEF ArrivesInOrder, OrderInv, Gone

\* A new event goes behind the others.
LEMMA StageOrder == OutboxInv /\ OrderInv /\ StageEvent => OrderInv'
<1> SUFFICES ASSUME OutboxInv, OrderInv, StageEvent PROVE OrderInv'
  OBVIOUS
<1>1. events \in Seq(Ids) /\ staged \in Nat /\ Len(events) \in Nat
  BY Lengths DEF OutboxInv
<1>2. events' = Append(events, staged + 1) /\ staged' = staged + 1 /\ Gone' = Gone
  BY DEF StageEvent, Gone, receiverVars
<1>3. /\ Len(events') = Len(events) + 1 /\ events'[Len(events) + 1] = staged + 1
      /\ \A i \in 1..Len(events) : events'[i] = events[i]
  BY <1>1, <1>2
<1>4. staged' - Len(events') = staged - Len(events)
  BY <1>1, <1>2, <1>3
<1>5. ASSUME NEW i \in 1..Len(events')
      PROVE  events'[i] = (staged - Len(events)) + i
  <2>1. CASE i = Len(events) + 1
    BY <1>1, <1>3, <2>1
  <2>2. CASE i # Len(events) + 1
    <3>1. i \in 1..Len(events)
      BY <1>1, <1>3, <2>2
    <3>2. QED
      BY <1>3, <3>1 DEF OrderInv
  <2>3. QED
    BY <2>1, <2>2
<1>6. Len(events') <= staged'
  BY <1>1, <1>2, <1>3 DEF OrderInv
<1>7. QED
  BY <1>2, <1>4, <1>5, <1>6 DEF OrderInv

\* What leaves the queue is gone already.
LEMMA ConfirmOrder ==
    ASSUME OutboxInv, OrderInv, NEW k \in 0..Len(events), First(events, k) \subseteq Gone,
           Len(events') = Len(events) - k,
           \A i \in 1..(Len(events) - k) : events'[i] = events[k + i],
           Gone' = Gone, staged' = staged
    PROVE  OrderInv'
<1>1. events \in Seq(Ids) /\ staged \in Nat /\ Len(events) \in Nat
  BY Lengths DEF OutboxInv
<1>2. staged - Len(events') = (staged - Len(events)) + k
  BY <1>1
<1>3. 1..((staged - Len(events)) + k) \subseteq Gone
  BY OldestFollow DEF OutboxInv
<1>4. ASSUME NEW i \in 1..(Len(events) - k)
      PROVE  events'[i] = (staged - Len(events')) + i
  <2>1. k + i \in 1..Len(events)
    BY <1>1
  <2>2. events'[i] = (staged - Len(events)) + (k + i)
    BY <2>1 DEF OrderInv
  <2>3. QED
    BY <1>1, <2>2
<1>5. Len(events') <= staged
  BY <1>1 DEF OrderInv
<1>6. QED
  BY <1>2, <1>3, <1>4, <1>5 DEF OrderInv

\* A step of the outbox that stages nothing keeps the order: a payload brings
\* the oldest of the queue, or what was gone before.
LEMMA OutboxOrder ==
    ASSUME OutboxInv, KnownInv', OrderInv, [Outbox!Next]_(Outbox!outboxVars), staged' = staged
    PROVE  OrderInv'
<1>1. events \in Seq(Ids) /\ staged \in Nat /\ Len(events) \in Nat
      /\ Range(events) = First(events, Len(events))
  BY Lengths DEF OutboxInv
<1>2. ASSUME NEW e \in Ids, Outbox!Stage(e) PROVE FALSE
  <2>1. e \notin Range(events) \cup arrived \cup discarded /\ events' = Append(events, e)
    BY <1>2 DEF Outbox!Stage, Outbox!Range, Range
  <2>2. e \in Range(events')
    BY <1>1, <2>1, AppendKeeps
  <2>3. e \in 1..staged
    BY <2>2 DEF KnownInv
  <2>4. QED
    BY <2>1, <2>3, OrderMeans DEF ArrivesInOrder
<1>3. ASSUME NEW n \in 0..Len(events), NEW again \in SUBSET (arrived \cup discarded),
             Outbox!Arrive(n, again)
      PROVE  OrderInv'
  <2>1. Gone' = Gone \cup First(events, n) /\ UNCHANGED <<events, staged>>
    BY <1>3 DEF Outbox!Arrive, Outbox!Oldest, First, Gone
  <2>2. QED
    BY <2>1, OldestFollow DEF OutboxInv, OrderInv
<1>4. ASSUME NEW n \in 1..Len(events), Outbox!Confirm(n)
      PROVE  OrderInv'
  <2>1. /\ First(events, n) \subseteq Gone /\ events' = SubSeq(events, n + 1, Len(events))
        /\ Gone' = Gone /\ n \in 0..Len(events)
    BY <1>4 DEF Outbox!Confirm, Outbox!Oldest, First, Gone
  <2>2. /\ Len(events') = Len(events) - n
        /\ \A i \in 1..(Len(events) - n) : events'[i] = events[n + i]
    BY <1>1, <2>1
  <2>3. QED
    BY <2>1, <2>2, ConfirmOrder
<1>5. CASE Outbox!Discard
  <2>1. events' = <<>> /\ Gone' = Gone \cup First(events, Len(events))
    BY <1>1, <1>5 DEF Outbox!Discard, Outbox!Range, Range, Gone
  <2>2. Len(events') = 0 /\ Len(events) \in 0..Len(events)
        /\ staged - 0 = (staged - Len(events)) + Len(events)
    BY <1>1, <2>1
  <2>3. QED
    BY <1>1, <2>1, <2>2, OldestFollow DEF OutboxInv, OrderInv
<1>6. CASE UNCHANGED Outbox!outboxVars
  BY <1>6 DEF Outbox!outboxVars, OrderInv, Gone
<1>7. QED
  BY <1>2, <1>3, <1>4, <1>5, <1>6 DEF Outbox!Next

LEMMA StepOrder == OutboxInv /\ OrderInv /\ [Next]_vars => OrderInv'
<1> SUFFICES ASSUME OutboxInv, OrderInv, [Next]_vars PROVE OrderInv'
  OBVIOUS
<1>1. CASE StageEvent
  BY <1>1, StageOrder
<1>2. CASE ~StageEvent
  <2>1. staged' = staged
    BY <1>2 DEF Next, Clear, StageValue, FlushAsync, DisposeAsync, Dispose, Finish, Joined,
                JoinThrows, Cleanup, Tick, Quit, Step, SkipEmpty, Snapshot, Retry,
                Trim, Cancel, Network, Receive, Refuse, TimeOut, ArriveLate,
                LoseLate, vars, registryVars
  <2>2. KnownInv'
    BY StepOutbox DEF OutboxInv
  <2>3. QED
    BY <2>1, <2>2, OutboxStep, OutboxOrder
<1>3. QED
  BY <1>1, <1>2

\* Every event staged is still queued, has arrived, or was cleared, and events
\* arrive in the order they were staged, through retries, cancellation, disposal
\* and requests that arrive late, when Clear is not called under a request
\* (Telemetry.cs:436-464).
THEOREM ArriveInOrder == Spec => []ArrivesInOrder
<1>1. Init => OutboxInv /\ OrderInv
  BY InitTypeInv, InitQuiet, InitOutbox, DotnetAssumption, ReceiverAssumption
     DEF Init, ReceiverInit, OutboxInv, OrderInv, Gone
<1>2. QED
  BY <1>1, StepOutbox, StepOrder, OrderMeans, PTL DEF Spec
==============================================================================
