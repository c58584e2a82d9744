--------------------------- MODULE RegistryProofs ---------------------------
(***************************************************************************)
(* Proofs about Registry, for every set of texts, paths and limits: its    *)
(* types, that the receiver keeps whatever the checks let through, that a  *)
(* counter once reported stays in the payload until clear(), and that a    *)
(* flush that fails neither loses events nor lets later ones overtake.     *)
(***************************************************************************)
EXTENDS Registry, TLAPS

\* What the checks leave in each store.
CountersInv == \A p \in Key : counters[p] # None => KeepsCounter(p)

StatusesInv ==
    \A k \in Keys : statuses[k] # None => status_key(k) /\ status_value(statuses[k].value)

StampsInv ==
    \A k \in Keys : stamps[k] # None =>
        /\ counter_path(stamps[k].path)
        /\ status_key(k) /\ status_value(stamps[k].value)

EventsInv == \A i \in 1..Len(events) : event_message(events[i].message)

ObjectsInv ==
    \A id \in ObjectIds : objects[id] # None /\ id \notin touched => KeepsObject(objects[id])

StoredInv == CountersInv /\ StatusesInv /\ StampsInv /\ EventsInv /\ ObjectsInv

\* The events of the payload under way are still in the queue.
SendingInv == sending # None => sending.events <= Len(events)

TypeInv == TypeOK /\ SendingInv

------------------------------------------------------------------------------
(* The arguments. *)

\* A path that passed the checks is reported, in its normal form, in a way the
\* receiver keeps.
LEMMA NormalKept ==
    ASSUME NEW path \in Paths, counter_path(path), counter_instance(path[3])
    PROVE  KeepsCounter(Normal(path)) /\ Normal(path) \in Key
<1>1. path \in Text \X Text \X (Text \cup {None})
  BY RegistryAssumption
<1>2. /\ path[1] \in Text /\ path[2] \in Text
      /\ path[1].str /\ path[1].len # 0
      /\ path[2].str /\ path[2].len # 0
  BY <1>1, RegistryAssumption DEF counter_path, NonBlank
<1>3. CASE path[3] # None /\ path[3].len = 0
  BY <1>2, <1>3 DEF Normal, KeepsCounter, Key
<1>4. CASE ~(path[3] # None /\ path[3].len = 0)
  BY <1>2, <1>4 DEF Normal, KeepsCounter, Key, counter_instance
<1>5. QED
  BY <1>3, <1>4

LEMMA StampPathKept ==
    ASSUME NEW path \in StampPaths, counter_path(path)
    PROVE  KeepsCounter(path)
<1>1. path[1] \in Text /\ path[2] \in Text /\ path[3] = None
  BY RegistryAssumption
<1>2. QED
  BY <1>1, RegistryAssumption DEF counter_path, NonBlank, KeepsCounter

\* A key and a value that passed the checks survive.
LEMMA StatusKept ==
    ASSUME NEW key \in Keys, NEW s, status_key(key), status_value(s.value)
    PROVE  KeepsStatus(key, s)
BY DEF status_key, status_value, NonBlank, KeepsStatus

LEMMA EventKept ==
    ASSUME NEW e \in Event, event_message(e.message)
    PROVE  KeepsEvent(e)
<1>1. e.message \in Text
  BY RegistryAssumption DEF Event
<1>2. QED
  BY <1>1, RegistryAssumption DEF event_message, NonBlank, KeepsEvent

LEMMA ObjectKept ==
    ASSUME NEW id \in ObjectIds, NEW d \in Object, data_object(id, d)
    PROVE  KeepsObject(d)
BY RegistryAssumption
   DEF data_object, Object, Length, IsSequence, KeepsObject, DATA_TYPE_MEMBERS, Types

LEMMA SuffixElement ==
    ASSUME NEW S, NEW s \in Seq(S), NEW n \in Nat, n <= Len(s),
           NEW i \in 1..Len(SubSeq(s, n + 1, Len(s)))
    PROVE  i + n \in 1..Len(s) /\ SubSeq(s, n + 1, Len(s))[i] = s[i + n]
<1>1. Len(SubSeq(s, n + 1, Len(s))) = Len(s) - n
  OBVIOUS
<1>2. i \in 1..Len(s) - n
  BY <1>1
<1>3. QED
  BY <1>2

LEMMA SumIsNumber ==
    ASSUME NEW x \in Number, NEW d \in Finite
    PROVE  Plus(x, d) \in Number
BY RegistryAssumption DEF Plus, Number, Finite

------------------------------------------------------------------------------
(* Types. *)

LEMMA InitTyped == Init => TypeInv
BY RegistryAssumption DEF Init, TypeOK, TypeInv, SendingInv

LEMMA NextTyped == TypeInv /\ [Next]_vars => TypeInv'
<1> SUFFICES ASSUME TypeInv, [Next]_vars PROVE TypeInv'
  OBVIOUS
<1> USE RegistryAssumption DEF TypeInv
<1>a. TypeOK /\ SendingInv
  OBVIOUS
<1>b. \A i \in 1..Len(events) : events[i] \in Event /\ events[i].id \in 1..MaxEvents
  <2>1. events \in Seq(Event)
    BY DEF TypeOK
  <2>2. \A e \in Event : e.id \in 1..MaxEvents
    BY DEF Event
  <2>3. QED
    BY <2>1, <2>2
<1>1. ASSUME NEW path \in Paths, Resolve(path) PROVE TypeInv'
  <2>1. 0 \in Number
    BY DEF Number
  <2>2. counters' \in [Key -> Number \cup {None}]
    BY <1>1, <2>1 DEF TypeOK, Resolve
  <2>3. QED
    BY <1>1, <2>2 DEF TypeOK, Resolve, queue, SendingInv
<1>2. ASSUME NEW p \in Key, NEW d \in Deltas, Add(p, d) PROVE TypeInv'
  <2>1. counters[p] \in Number /\ d \in Finite
    BY <1>2 DEF TypeOK, Add, counter_value
  <2>2. Plus(counters[p], d) \in Number
    BY <2>1, SumIsNumber
  <2>3. QED
    BY <1>2, <2>2 DEF TypeOK, Add, queue, SendingInv
<1>3. ASSUME NEW p \in Key, Set(p, 0) PROVE TypeInv'
  <2>1. 0 \in Number
    BY DEF Number
  <2>2. QED
    BY <1>3, <2>1 DEF TypeOK, Set, queue, SendingInv
<1>4. ASSUME NEW key \in Keys, NEW value \in Values, NEW data \in Encoding,
             StageStatus(key, value, data)
      PROVE TypeInv'
  BY <1>4 DEF TypeOK, StageStatus, Status, queue, SendingInv
<1>5. ASSUME NEW path \in StampPaths, NEW key \in Keys, NEW value \in Values,
             StageTimestamp(path, key, value)
      PROVE TypeInv'
  BY <1>5 DEF TypeOK, StageTimestamp, Stamp, queue, SendingInv
<1>6. ASSUME NEW message \in Messages, StageEvent(message) PROVE TypeInv'
  <2>1. staged + 1 \in 1..MaxEvents
    BY <1>6 DEF TypeOK, StageEvent
  <2>2. [id |-> staged + 1, message |-> message] \in Event
    BY <2>1 DEF Event
  <2>3. events' \in Seq(Event) /\ staged' \in 0..MaxEvents
    BY <1>6, <2>1, <2>2 DEF TypeOK, StageEvent
  <2>4. QED
    BY <1>6, <2>3 DEF TypeOK, StageEvent, stores, SendingInv
<1>7. ASSUME NEW id \in ObjectIds, NEW d \in Object, StageData(id, d) PROVE TypeInv'
  BY <1>7 DEF TypeOK, StageData, queue, SendingInv
<1>8. ASSUME NEW id \in ObjectIds, NEW right \in 0..MaxEntries + 1, NEW ragged \in BOOLEAN,
             ChangeList(id, right, ragged)
      PROVE TypeInv'
  <2>1. objects[id] \in Object /\ right \in Length
    BY <1>8 DEF TypeOK, ChangeList, Length
  <2>2. [objects[id] EXCEPT !.right = right, !.ragged = ragged] \in Object
    BY <2>1 DEF Object
  <2>3. objects' = [objects EXCEPT ![id] = [objects[id] EXCEPT !.right = right, !.ragged = ragged]]
    BY <1>8 DEF TypeOK, ChangeList
  <2>4. objects' \in [ObjectIds -> Object \cup {None}]
    BY <2>2, <2>3 DEF TypeOK
  <2>5. QED
    BY <1>8, <2>4 DEF TypeOK, ChangeList, queue, SendingInv
<1>9. CASE Clear
  <2>1. {events[i].id : i \in DOMAIN events} \subseteq 1..MaxEvents
    BY <1>b DEF TypeOK
  <2>2. events' \in Seq(Event)
    BY <1>9 DEF Clear
  <2>3. QED
    BY <1>9, <2>1, <2>2 DEF TypeOK, Clear, SendingInv
<1>10. CASE Build
  BY <1>10 DEF TypeOK, Build, IsJson, stores, queue, SendingInv
<1>11. CASE Fail
  BY <1>11 DEF TypeOK, Fail, stores, queue, SendingInv
<1>12. CASE Deliver
  <2>1. sending.events \in Nat
    BY <1>12 DEF TypeOK, Deliver
  <2>2. SubSeq(events, sending.events + 1, Len(events)) \in Seq(Event)
    BY <2>1 DEF TypeOK
  <2>3. {events[i].id : i \in 1..sending.events} \subseteq 1..MaxEvents
    BY <1>b, <1>12, <2>1 DEF Deliver, SendingInv, TypeOK
  <2>4. QED
    BY <1>12, <2>2, <2>3 DEF TypeOK, Deliver, stores, SendingInv
<1>13. CASE UNCHANGED vars
  BY <1>13 DEF TypeOK, vars, stores, queue, SendingInv
<1>14. QED
  BY <1>1, <1>2, <1>3, <1>4, <1>5, <1>6, <1>7, <1>8, <1>9, <1>10, <1>11, <1>12, <1>13
     DEF Next, Stage

------------------------------------------------------------------------------
(* What the stores hold. *)

LEMMA InitStored == Init => StoredInv
BY DEF Init, StoredInv, CountersInv, StatusesInv, StampsInv, EventsInv, ObjectsInv

LEMMA NextStored == TypeInv /\ StoredInv /\ [Next]_vars => StoredInv'
<1> SUFFICES ASSUME TypeInv, StoredInv, [Next]_vars PROVE StoredInv'
  OBVIOUS
<1> USE RegistryAssumption DEF StoredInv
<1>a. TypeOK /\ SendingInv
  BY DEF TypeInv
<1>1. ASSUME NEW path \in Paths, Resolve(path) PROVE StoredInv'
  <2>1. KeepsCounter(Normal(path))
    BY <1>1, NormalKept DEF Resolve
  <2>2. CountersInv'
    BY <1>1, <2>1 DEF Resolve, CountersInv, TypeOK
  <2>3. UNCHANGED <<statuses, stamps, objects, events, touched>>
    BY <1>1 DEF Resolve, queue
  <2>4. QED
    BY <2>2, <2>3 DEF StatusesInv, StampsInv, EventsInv, ObjectsInv
<1>2. ASSUME NEW p \in Key, NEW d \in Deltas, Add(p, d) PROVE StoredInv'
  <2>1. CountersInv'
    BY <1>a, <1>2 DEF Add, CountersInv, TypeOK
  <2>2. UNCHANGED <<statuses, stamps, objects, events, touched>>
    BY <1>2 DEF Add, queue
  <2>3. QED
    BY <2>1, <2>2 DEF StatusesInv, StampsInv, EventsInv, ObjectsInv
<1>3. ASSUME NEW p \in Key, Set(p, 0) PROVE StoredInv'
  <2>1. CountersInv'
    BY <1>a, <1>3 DEF Set, CountersInv, TypeOK
  <2>2. UNCHANGED <<statuses, stamps, objects, events, touched>>
    BY <1>3 DEF Set, queue
  <2>3. QED
    BY <2>1, <2>2 DEF StatusesInv, StampsInv, EventsInv, ObjectsInv
<1>4. ASSUME NEW key \in Keys, NEW value \in Values, NEW data \in Encoding,
             StageStatus(key, value, data)
      PROVE StoredInv'
  <2>1. StatusesInv'
    BY <1>a, <1>4 DEF StageStatus, StatusesInv, TypeOK
  <2>2. UNCHANGED <<counters, stamps, objects, events, touched>>
    BY <1>4 DEF StageStatus, queue
  <2>3. QED
    BY <2>1, <2>2 DEF CountersInv, StampsInv, EventsInv, ObjectsInv
<1>5. ASSUME NEW path \in StampPaths, NEW key \in Keys, NEW value \in Values,
             StageTimestamp(path, key, value)
      PROVE StoredInv'
  <2>1. StampsInv'
    BY <1>a, <1>5 DEF StageTimestamp, StampsInv, TypeOK
  <2>2. UNCHANGED <<counters, statuses, objects, events, touched>>
    BY <1>5 DEF StageTimestamp, queue
  <2>3. QED
    BY <2>1, <2>2 DEF CountersInv, StatusesInv, EventsInv, ObjectsInv
<1>6. ASSUME NEW message \in Messages, StageEvent(message) PROVE StoredInv'
  <2>1. events \in Seq(Event) /\ event_message(message)
        /\ events' = Append(events, [id |-> staged + 1, message |-> message])
    BY <1>a, <1>6 DEF StageEvent, TypeOK
  <2>2. EventsInv'
    BY <2>1 DEF EventsInv
  <2>3. UNCHANGED <<counters, statuses, stamps, objects, touched>>
    BY <1>6 DEF StageEvent, stores
  <2>4. QED
    BY <2>2, <2>3 DEF CountersInv, StatusesInv, StampsInv, ObjectsInv
<1>7. ASSUME NEW id \in ObjectIds, NEW d \in Object, StageData(id, d) PROVE StoredInv'
  <2>1. KeepsObject(d)
    BY <1>7, ObjectKept DEF StageData
  <2>2. ObjectsInv'
    BY <1>a, <1>7, <2>1 DEF StageData, ObjectsInv, TypeOK
  <2>3. UNCHANGED <<counters, statuses, stamps, events>>
    BY <1>7 DEF StageData, queue
  <2>4. QED
    BY <2>2, <2>3 DEF CountersInv, StatusesInv, StampsInv, EventsInv
<1>8. ASSUME NEW id \in ObjectIds, NEW right \in 0..MaxEntries + 1, NEW ragged \in BOOLEAN,
             ChangeList(id, right, ragged)
      PROVE StoredInv'
  <2>1. ObjectsInv'
    BY <1>a, <1>8 DEF ChangeList, ObjectsInv, TypeOK
  <2>2. UNCHANGED <<counters, statuses, stamps, events>>
    BY <1>8 DEF ChangeList, queue
  <2>3. QED
    BY <2>1, <2>2 DEF CountersInv, StatusesInv, StampsInv, EventsInv
<1>9. CASE Clear
  BY <1>9 DEF Clear, CountersInv, StatusesInv, StampsInv, EventsInv, ObjectsInv
<1>10. ASSUME Deliver PROVE StoredInv'
  <2>1. events \in Seq(Event) /\ sending.events \in Nat
        /\ sending.events <= Len(events)
        /\ events' = SubSeq(events, sending.events + 1, Len(events))
    BY <1>a, <1>10 DEF Deliver, TypeOK, SendingInv
  <2>2. EventsInv'
    <3>1. ASSUME NEW i \in 1..Len(events') PROVE event_message(events'[i].message)
      <4> DEFINE n == sending.events
      <4>1. n \in Nat /\ n <= Len(events) /\ events \in Seq(Event)
        BY <2>1
      <4>2. events' = SubSeq(events, n + 1, Len(events))
        BY <2>1
      <4>3. i \in 1..Len(SubSeq(events, n + 1, Len(events)))
        BY <3>1, <4>2
      <4> HIDE DEF n
      <4>4. /\ i + n \in 1..Len(events)
            /\ SubSeq(events, n + 1, Len(events))[i] = events[i + n]
        BY <4>1, <4>3, SuffixElement
      <4>5. events'[i] = events[i + n]
        BY <4>2, <4>4
      <4>6. QED
        BY <4>4, <4>5 DEF EventsInv
    <3>2. QED
      BY <3>1 DEF EventsInv
  <2>3. UNCHANGED <<counters, statuses, stamps, objects, touched>>
    BY <1>10 DEF Deliver, stores
  <2>4. QED
    BY <2>2, <2>3 DEF CountersInv, StatusesInv, StampsInv, ObjectsInv
<1>11. ASSUME Build \/ Fail \/ UNCHANGED vars PROVE StoredInv'
  <2>1. UNCHANGED <<counters, statuses, stamps, objects, events, touched>>
    BY <1>11 DEF Build, Fail, vars, stores, queue
  <2>2. QED
    BY <2>1 DEF CountersInv, StatusesInv, StampsInv, EventsInv, ObjectsInv
<1>12. QED
  BY <1>1, <1>2, <1>3, <1>4, <1>5, <1>6, <1>7, <1>8, <1>9, <1>10, <1>11 DEF Next, Stage

LEMMA StoredIsKept == TypeOK /\ StoredInv => ReceiverKeepsAll
<1> SUFFICES ASSUME TypeOK, StoredInv PROVE ReceiverKeepsAll
  OBVIOUS
<1> USE DEF StoredInv
<1>1. ASSUME NEW p \in Reported PROVE KeepsCounter(p)
  BY <1>1, StampPathKept DEF Reported, Staged, CountersInv, StampsInv, Stamp, TypeOK
<1>2. ASSUME NEW k \in SentStatuses PROVE KeepsStatus(k, SentStatus(k))
  <2>1. k \in Keys
    BY <1>2 DEF SentStatuses, Staged, TypeOK
  <2>2. status_key(k) /\ status_value(SentStatus(k).value)
    BY <1>2, <2>1 DEF SentStatuses, Staged, SentStatus, StatusesInv, StampsInv, TypeOK
  <2>3. QED
    BY <2>1, <2>2, StatusKept
<1>3. ASSUME NEW i \in DOMAIN events PROVE KeepsEvent(events[i])
  <2>1. events \in Seq(Event)
    BY DEF TypeOK
  <2>2. events[i] \in Event /\ event_message(events[i].message)
    BY <1>3, <2>1 DEF EventsInv
  <2>3. QED
    BY <2>2, EventKept
<1>4. ASSUME NEW id \in Staged(objects) \ touched PROVE KeepsObject(objects[id])
  BY <1>4 DEF Staged, ObjectsInv, TypeOK
<1>5. QED
  BY <1>1, <1>2, <1>3, <1>4 DEF ReceiverKeepsAll

------------------------------------------------------------------------------
(* The order of the events. *)

Out == arrived \cup discarded

\* The receiver has had, or clear() has dropped, every staged event or it is
\* still queued; and none arrives before one that was staged earlier.
ArrivesInOrder ==
    /\ \A e \in 1..staged : e \in Out \/ \E i \in 1..Len(events) : events[i].id = e
    /\ \A e \in arrived : 1..e \subseteq Out

\* The queue is the last events staged, oldest first; all others are out.
OrderInv ==
    /\ Len(events) <= staged
    /\ \A i \in 1..Len(events) : events[i].id = (staged - Len(events)) + i
    /\ Out = 1..(staged - Len(events))

LEMMA OrderMeans == TypeOK /\ OrderInv => ArrivesInOrder
<1> SUFFICES ASSUME TypeOK, OrderInv PROVE ArrivesInOrder
  OBVIOUS
<1>1. staged \in Nat /\ Len(events) \in Nat
  BY RegistryAssumption DEF TypeOK
<1>2. ASSUME NEW e \in 1..staged, e \notin Out
      PROVE  \E i \in 1..Len(events) : events[i].id = e
  <2>1. e - (staged - Len(events)) \in 1..Len(events)
    BY <1>1, <1>2 DEF OrderInv
  <2>2. events[e - (staged - Len(events))].id = e
    BY <1>1, <2>1 DEF OrderInv
  <2>3. QED
    BY <2>1, <2>2
<1>3. ASSUME NEW e \in arrived PROVE 1..e \subseteq Out
  BY <1>1, <1>3 DEF OrderInv, Out
<1>4. QED
  BY <1>2, <1>3 DEF ArrivesInOrder

\* The first n events of the queue leave it, and are out.
LEMMA LeaveOrder ==
    ASSUME TypeOK, OrderInv, NEW n \in 0..Len(events),
           Len(events') = Len(events) - n,
           \A i \in 1..(Len(events) - n) : events'[i] = events[i + n],
           Out' = Out \cup {events[i].id : i \in 1..n},
           staged' = staged
    PROVE  OrderInv'
<1>1. staged \in Nat /\ Len(events) \in Nat
  BY RegistryAssumption DEF TypeOK
<1> DEFINE first == (staged - Len(events)) + 1
           last  == (staged - Len(events)) + n
<1>2. {events[i].id : i \in 1..n} = first..last
  <2>1. ASSUME NEW i \in 1..n
        PROVE  events[i].id = (staged - Len(events)) + i /\ events[i].id \in first..last
    BY <1>1 DEF OrderInv
  <2>2. ASSUME NEW e \in first..last
        PROVE  e \in {events[i].id : i \in 1..n}
    <3>1. e - (staged - Len(events)) \in 1..n
      BY <1>1
    <3>2. events[e - (staged - Len(events))].id = e
      BY <1>1, <2>1, <3>1
    <3>3. QED
      BY <3>1, <3>2
  <2>3. QED
    BY <2>1, <2>2
<1>3. Out' = 1..(staged - (Len(events) - n))
  <2>1. Out' = 1..(staged - Len(events)) \cup first..last
    BY <1>2 DEF OrderInv
  <2>2. /\ staged - Len(events) \in Nat
        /\ staged - (Len(events) - n) = (staged - Len(events)) + n
    BY <1>1 DEF OrderInv
  <2>3. \A h \in Nat : 1..h \cup (h + 1)..(h + n) = 1..(h + n)
    OBVIOUS
  <2>4. QED
    BY <2>1, <2>2, <2>3
<1>4. ASSUME NEW i \in 1..(Len(events) - n)
      PROVE  events'[i].id = (staged - (Len(events) - n)) + i
  <2>1. i + n \in 1..Len(events) /\ events'[i] = events[i + n]
    BY <1>1
  <2>2. events[i + n].id = (staged - Len(events)) + (i + n)
    BY <2>1 DEF OrderInv
  <2>3. QED
    BY <1>1, <2>1, <2>2
<1>5. QED
  BY <1>1, <1>3, <1>4 DEF OrderInv

LEMMA InitOrder == Init => OrderInv
BY DEF Init, OrderInv, Out

LEMMA NextOrder == TypeInv /\ OrderInv /\ [Next]_vars => OrderInv'
<1> SUFFICES ASSUME TypeInv, OrderInv, [Next]_vars PROVE OrderInv'
  OBVIOUS
<1>a. TypeOK /\ SendingInv
  BY DEF TypeInv
<1>b. staged \in Nat /\ events \in Seq(Event) /\ Len(events) \in Nat
  BY <1>a, RegistryAssumption DEF TypeOK
<1>1. ASSUME NEW message \in Messages, StageEvent(message) PROVE OrderInv'
  <2>1. /\ staged' = staged + 1 /\ Out' = Out
        /\ events' = Append(events, [id |-> staged + 1, message |-> message])
    BY <1>1 DEF StageEvent, Out
  <2>2. /\ Len(events') = Len(events) + 1
        /\ \A i \in 1..Len(events) : events'[i] = events[i]
        /\ events'[Len(events) + 1].id = staged + 1
    BY <1>b, <2>1
  <2>3. ASSUME NEW i \in 1..Len(events')
        PROVE  events'[i].id = (staged' - Len(events')) + i
    <3>1. CASE i \in 1..Len(events)
      BY <1>b, <2>1, <2>2, <3>1 DEF OrderInv
    <3>2. CASE i = Len(events) + 1
      BY <1>b, <2>1, <2>2, <3>2
    <3>3. QED
      BY <1>b, <2>2, <3>1, <3>2
  <2>4. QED
    BY <1>b, <2>1, <2>2, <2>3 DEF OrderInv
<1>2. CASE Clear
  <2>1. events' = <<>> /\ Out' = Out \cup {events[i].id : i \in 1..Len(events)} /\ staged' = staged
    BY <1>b, <1>2 DEF Clear, Out
  <2>2. Len(events) \in 0..Len(events) /\ Len(events') = Len(events) - Len(events)
        /\ 1..(Len(events) - Len(events)) = {}
    BY <1>b, <2>1
  <2>3. QED
    BY <1>a, <2>1, <2>2, LeaveOrder
<1>3. CASE Deliver
  <2> DEFINE n == sending.events
  <2>1. n \in 0..Len(events)
    BY <1>a, <1>b, <1>3 DEF Deliver, TypeOK, SendingInv
  <2>2. /\ events' = SubSeq(events, n + 1, Len(events))
        /\ Out' = Out \cup {events[i].id : i \in 1..n} /\ staged' = staged
    BY <1>3 DEF Deliver, Out
  <2> HIDE DEF n
  <2>3. Len(events') = Len(events) - n
    BY <1>b, <2>1, <2>2
  <2>4. ASSUME NEW i \in 1..(Len(events) - n) PROVE events'[i] = events[i + n]
    <3>1. i \in 1..Len(SubSeq(events, n + 1, Len(events))) /\ n \in Nat /\ n <= Len(events)
      BY <1>b, <2>1, <2>2, <2>3
    <3>2. QED
      BY <1>b, <2>2, <3>1, SuffixElement
  <2>5. QED
    BY <1>a, <2>1, <2>2, <2>3, <2>4, LeaveOrder
<1>4. ASSUME UNCHANGED <<events, staged, arrived, discarded>> PROVE OrderInv'
  BY <1>4 DEF OrderInv, Out
<1>5. QED
  BY <1>1, <1>2, <1>3, <1>4
     DEF Next, Stage, Resolve, Add, Set, StageStatus, StageTimestamp, StageData, ChangeList,
         Build, Fail, queue, vars

------------------------------------------------------------------------------
(* Nothing but clear() takes anything out of a store. *)

LEMMA StepCounters ==
    ASSUME TypeOK, [Next]_vars, ~Clear
    PROVE  Staged(counters) \subseteq Staged(counters)'
<1> USE RegistryAssumption DEF Staged
<1>a. counters \in [Key -> Number \cup {None}] /\ None \notin Int
  BY DEF TypeOK
<1>1. ASSUME NEW path \in Paths, Resolve(path)
      PROVE  Staged(counters) \subseteq Staged(counters)'
  BY <1>a, <1>1 DEF Resolve
<1>2. ASSUME NEW q \in Key, NEW d \in Deltas, Add(q, d)
      PROVE  Staged(counters) \subseteq Staged(counters)'
  <2>1. counters[q] \in Number /\ d \in Finite
    BY <1>a, <1>2 DEF Add, counter_value
  <2>2. Plus(counters[q], d) \in Number
    BY <2>1, SumIsNumber
  <2>3. Plus(counters[q], d) # None
    BY <1>a, <2>2 DEF Number
  <2>4. QED
    BY <1>a, <1>2, <2>3 DEF Add
<1>3. ASSUME NEW q \in Key, Set(q, 0)
      PROVE  Staged(counters) \subseteq Staged(counters)'
  <2>1. 0 # None
    BY <1>a
  <2>2. QED
    BY <1>a, <1>3, <2>1 DEF Set
<1>4. ASSUME UNCHANGED counters
      PROVE  Staged(counters) \subseteq Staged(counters)'
  BY <1>4
<1>5. QED
  BY <1>1, <1>2, <1>3, <1>4
     DEF Next, Stage, StageStatus, StageTimestamp, StageEvent, StageData, ChangeList, Build,
         Deliver, Fail, stores, vars

LEMMA StepStores ==
    ASSUME TypeOK, [Next]_vars, ~Clear
    PROVE  /\ Staged(statuses) \subseteq Staged(statuses)'
           /\ Staged(stamps) \subseteq Staged(stamps)'
           /\ Staged(objects) \subseteq Staged(objects)'
<1> DEFINE Kept == /\ Staged(statuses) \subseteq Staged(statuses)'
                   /\ Staged(stamps) \subseteq Staged(stamps)'
                   /\ Staged(objects) \subseteq Staged(objects)'
<1>a. /\ statuses \in [Keys -> Status \cup {None}]
      /\ stamps \in [Keys -> Stamp \cup {None}]
      /\ objects \in [ObjectIds -> Object \cup {None}]
  BY DEF TypeOK
<1>1. ASSUME NEW key \in Keys, NEW value \in Values, NEW data \in Encoding,
             StageStatus(key, value, data)
      PROVE  Kept
  BY <1>a, <1>1, RegistryAssumption DEF Staged, StageStatus, Status
<1>2. ASSUME NEW path \in StampPaths, NEW key \in Keys, NEW value \in Values,
             StageTimestamp(path, key, value)
      PROVE  Kept
  BY <1>a, <1>2, RegistryAssumption DEF Staged, StageTimestamp, Stamp
<1>3. ASSUME NEW id \in ObjectIds, NEW d \in Object, StageData(id, d)
      PROVE  Kept
  BY <1>a, <1>3, RegistryAssumption DEF Staged, StageData
<1>4. ASSUME NEW id \in ObjectIds, NEW right \in 0..MaxEntries + 1, NEW ragged \in BOOLEAN,
             ChangeList(id, right, ragged)
      PROVE  Kept
  <2>1. objects[id] \in Object /\ right \in Length
    BY <1>a, <1>4, RegistryAssumption DEF ChangeList, Length
  <2>2. [objects[id] EXCEPT !.right = right, !.ragged = ragged] \in Object
    BY <2>1 DEF Object
  <2>3. objects' = [objects EXCEPT ![id] = [objects[id] EXCEPT !.right = right, !.ragged = ragged]]
    BY <1>a, <1>4 DEF ChangeList
  <2>4. Staged(objects) \subseteq Staged(objects)'
    BY <1>a, <2>2, <2>3, RegistryAssumption DEF Staged
  <2>5. QED
    BY <1>4, <2>4 DEF ChangeList, Staged
<1>5. ASSUME UNCHANGED <<statuses, stamps, objects>>
      PROVE  Kept
  BY <1>5 DEF Staged
<1>6. QED
  BY <1>1, <1>2, <1>3, <1>4, <1>5
     DEF Next, Stage, Resolve, Add, Set, StageEvent, Build, Deliver, Fail, stores, vars

------------------------------------------------------------------------------

\* Every store holds what it is declared to hold, in every behaviour.
THEOREM TypeCorrect == Spec => []TypeOK
<1>1. QED
  BY InitTyped, NextTyped, PTL DEF Spec, TypeInv

\* The checks of _validate.py are enough: the receiver keeps all that a
\* payload carries, for every set of texts and all limits.
THEOREM KeptAtTheOtherEnd == Spec => []ReceiverKeepsAll
<1>1. TypeInv => TypeOK
  BY DEF TypeInv
<1>2. QED
  BY InitTyped, NextTyped, InitStored, NextStored, StoredIsKept, <1>1, PTL DEF Spec

\* What has been reported stays in every payload until clear(), but for the
\* path of a timestamp that was replaced; and the timestamp of a key is sent in
\* place of any status staged under it (_registry.py:187, 339-363).
THEOREM OnceReported == Spec => StaysReported
<1> DEFINE Stays ==
      /\ \A p \in Reported \ Reported' : PathLeft(p) /\ p \notin Staged(counters)
      /\ SentStatuses \subseteq SentStatuses'
      /\ Staged(objects) \subseteq Staged(objects)'
      /\ \A k \in Staged(stamps) : SentStatus(k)' # SentStatus(k) => stamps'[k] # stamps[k]
<1>1. TypeInv /\ [Next]_vars => [Clear \/ Stays]_vars
  <2> SUFFICES ASSUME TypeInv, [Next]_vars, ~Clear PROVE Stays
    OBVIOUS
  <2>a. TypeOK
    BY DEF TypeInv
  <2>1. Staged(counters) \subseteq Staged(counters)'
    BY <2>a, StepCounters
  <2>2. /\ Staged(statuses) \subseteq Staged(statuses)'
        /\ Staged(stamps) \subseteq Staged(stamps)'
        /\ Staged(objects) \subseteq Staged(objects)'
    BY <2>a, StepStores
  <2>3. ASSUME NEW p \in Reported, p \notin Reported'
        PROVE  PathLeft(p) /\ p \notin Staged(counters)
    <3>1. p \notin Staged(counters)
      BY <2>1, <2>3 DEF Reported
    <3>2. PICK k \in Staged(stamps) : stamps[k].path = p
      BY <2>3, <3>1 DEF Reported
    <3>3. k \in Staged(stamps)' /\ stamps'[k].path # p
      BY <2>2, <2>3, <3>2 DEF Reported
    <3>4. QED
      BY <3>1, <3>2, <3>3 DEF PathLeft
  <2>4. SentStatuses \subseteq SentStatuses'
    BY <2>2 DEF SentStatuses
  <2>5. ASSUME NEW k \in Staged(stamps), stamps'[k] = stamps[k]
        PROVE  SentStatus(k)' = SentStatus(k)
    BY <2>5 DEF Staged, SentStatus
  <2>6. QED
    BY <2>2, <2>3, <2>4, <2>5
<1>2. QED
  BY InitTyped, NextTyped, <1>1, PTL DEF Spec, StaysReported

\* A flush that fails, in the encoder or on the network, skips nothing: every
\* staged event is queued until it arrives or clear() drops it, and they arrive
\* in the order they were staged (_registry.py:376-380, _telemetry.py:77-87).
THEOREM ArriveInOrder == Spec => []ArrivesInOrder
<1>1. TypeInv => TypeOK
  BY DEF TypeInv
<1>2. QED
  BY InitTyped, NextTyped, InitOrder, NextOrder, OrderMeans, <1>1, PTL DEF Spec
==============================================================================
