------------------------------ MODULE Registry ------------------------------
(***************************************************************************)
(* What a program stages in the Registry of the Python client: the checks  *)
(* of _validate.py, the stores they guard, build_payload, and a flush that *)
(* sends what it builds.  The other end is external: what the receiver     *)
(* drops, truncates or rejects without a word (spec/v1.md).                *)
(*                                                                         *)
(* A text is known by what the checks ask of it: whether it is a str,      *)
(* whether it is blank, whether it starts with "@", and its length, which  *)
(* also tells texts apart.  A data object is known by the lengths of its   *)
(* two members, -1 for what is not a sequence.  An infinite counter is one *)
(* beyond MaxFinite.  How a flush retries is module Flush.                 *)
(***************************************************************************)
EXTENDS Integers, Sequences, FiniteSets, Functions

CONSTANTS
    None,          \* nothing staged; no instance
    Text,          \* what may be passed where a text is expected
    Keys, Values, Messages, ObjectIds,  \* bound: the texts tried as each
    Paths,         \* bound: the <<object, counter, instance>> tried
    Deltas,        \* bound: numbers added to a counter
    StampPaths,    \* bound: the paths tried for timestamps, which have no instance
    MaxKey,        \* MAX_STATUS_KEY_LENGTH
    MaxEntries,    \* MAX_DATA_ENTRIES
    MaxFinite,     \* the largest finite number
    MaxEvents      \* bound: events staged

Number   == -(MaxFinite + 1) .. MaxFinite + 1
Finite   == -MaxFinite .. MaxFinite
Length   == -1 .. MaxEntries + 1
Encoding == {"json", "other"}
DATA_TYPE_MEMBERS == {"table", "time-series", "category"}
Types    == DATA_TYPE_MEMBERS \cup {"internal", "unknown"}
Event    == [id : 1..MaxEvents, message : Messages]
Status   == [value : Values, data : Encoding]
Stamp    == [path : StampPaths, value : Values]
\* `left` and `right` are the two members in the order of DATA_TYPE_MEMBERS;
\* `ragged`: some row is not a sequence of as many cells as there are columns.
Object   == [type : Types, left : Length, right : Length, ragged : BOOLEAN]

ASSUME RegistryAssumption ==
    /\ Text \subseteq [str : BOOLEAN, blank : BOOLEAN, at : BOOLEAN, len : Nat]
    /\ \A x \in Text : x.len = 0 => x.blank
    /\ Keys \cup Values \cup Messages \cup ObjectIds \subseteq Text
    /\ Paths \subseteq Text \X Text \X (Text \cup {None})
    /\ StampPaths \subseteq Text \X Text \X {None}
    /\ None \notin Text \cup Int \cup Status \cup Stamp \cup Object
    /\ Deltas \subseteq Int
    /\ MaxKey \in Nat /\ MaxEntries \in Nat /\ MaxFinite \in Nat /\ MaxEvents \in Nat

VARIABLES
    counters,   \* Registry._counters: path -> the value of its handle
    statuses,   \* Registry._statuses
    stamps,     \* Registry._timestamps: status key -> timestamp
    objects,    \* Registry._data_objects
    events,     \* Registry._events
    staged,     \* how many events were ever staged
    sending,    \* the flush under way: events in its payload, is it JSON
    arrived,    \* events the receiver has had
    discarded,  \* events dropped by clear()
    touched     \* history: objects whose lists the program changed since data()

stores == <<counters, statuses, stamps, objects>>
queue  == <<events, staged, discarded>>
vars   == <<stores, queue, sending, arrived, touched>>

------------------------------------------------------------------------------
(* _validate.py. *)

NonBlank(x) == x.str /\ ~x.blank

counter_path(path) == NonBlank(path[1]) /\ NonBlank(path[2])

counter_instance(instance) == instance # None => instance.str

counter_value(x) == x \in Finite

\* mutant: a key one character too long passes
status_key_off_by_one(key) == NonBlank(key) /\ ~key.at /\ key.len <= MaxKey + 1

status_key(key) == NonBlank(key) /\ ~key.at /\ key.len <= MaxKey

status_value(value) == value.str /\ value.len # 0

event_message(message) == NonBlank(message)

IsSequence(n) == n # -1

data_object(id, d) ==
    /\ NonBlank(id)
    /\ d.type \in DATA_TYPE_MEMBERS
    /\ \A n \in {d.left, d.right} : IsSequence(n) /\ n <= MaxEntries
    /\ IF d.type = "table" THEN ~d.ragged ELSE d.left = d.right

------------------------------------------------------------------------------
(* build_payload. *)

\* An instance that is None or empty is none.
Normal(path) ==
    IF path[3] # None /\ path[3].len = 0 THEN <<path[1], path[2], None>> ELSE path

Key == {Normal(p) : p \in Paths}

Staged(f) == {k \in DOMAIN f : f[k] # None}

\* mutant: counters at zero are left out
ReportedNonZero == {p \in Staged(counters) : counters[p] # 0} \cup {stamps[k].path : k \in Staged(stamps)}

\* A timestamp contributes an age among the counters (any finite number) and a
\* status, which takes the place of one staged under the same key.
Reported == Staged(counters) \cup {stamps[k].path : k \in Staged(stamps)}

SentStatus(k) ==
    IF stamps[k] # None THEN [value |-> stamps[k].value, data |-> "json"] ELSE statuses[k]

SentStatuses == Staged(statuses) \cup Staged(stamps)

\* The payload carries nothing but retain and remove.
Nothing == Reported = {} /\ SentStatuses = {} /\ events = <<>> /\ Staged(objects) = {}

\* json.dumps raises on a value it cannot encode; on NaN and infinity it
\* writes what no parser accepts.
IsJson ==
    /\ \A k \in SentStatuses : SentStatus(k).data = "json"
    /\ \A p \in Staged(counters) : counters[p] \in Finite

------------------------------------------------------------------------------
(* Staging: each call checks its arguments and takes the registry lock once. *)
(* A call that is refused raises before it changes anything.                 *)

Init ==
    /\ counters = [p \in Key |-> None]
    /\ statuses = [k \in Keys |-> None]
    /\ stamps = [k \in Keys |-> None]
    /\ objects = [i \in ObjectIds |-> None]
    /\ events = <<>> /\ staged = 0 /\ discarded = {}
    /\ sending = None /\ arrived = {} /\ touched = {}

Resolve(path) ==
    /\ counter_path(path) /\ counter_instance(path[3])
    /\ counters[Normal(path)] = None
    /\ counters' = [counters EXCEPT ![Normal(path)] = 0]
    /\ UNCHANGED <<statuses, stamps, objects, queue, sending, arrived, touched>>

\* The sum of two finite numbers may be infinite, and stays so.
Plus(x, d) ==
    IF x \notin Finite THEN x
    ELSE IF x + d > MaxFinite THEN MaxFinite + 1
    ELSE IF x + d < -MaxFinite THEN -(MaxFinite + 1)
    ELSE x + d

Add(p, d) ==
    /\ counters[p] # None /\ counter_value(d)
    /\ counters' = [counters EXCEPT ![p] = Plus(@, d)]
    /\ UNCHANGED <<statuses, stamps, objects, queue, sending, arrived, touched>>

\* reset() is set(0).
Set(p, x) ==
    /\ counters[p] # None /\ counter_value(x)
    /\ counters' = [counters EXCEPT ![p] = x]
    /\ UNCHANGED <<statuses, stamps, objects, queue, sending, arrived, touched>>

\* Nothing looks at the data that goes with a status.
StageStatus(key, value, data) ==
    /\ status_key(key) /\ status_value(value)
    /\ statuses' = [statuses EXCEPT ![key] = [value |-> value, data |-> data]]
    /\ UNCHANGED <<counters, stamps, objects, queue, sending, arrived, touched>>

StageEvent(message) ==
    /\ event_message(message)
    /\ staged < MaxEvents
    /\ staged' = staged + 1
    /\ events' = Append(events, [id |-> staged + 1, message |-> message])
    /\ UNCHANGED <<stores, discarded, sending, arrived, touched>>

\* One timestamp for each status key: a second one takes its place, path and all.
StageTimestamp(path, key, value) ==
    /\ counter_path(path) /\ status_key(key) /\ status_value(value)
    /\ stamps' = [stamps EXCEPT ![key] = [path |-> path, value |-> value]]
    /\ UNCHANGED <<counters, statuses, objects, queue, sending, arrived, touched>>

\* data(), and table(), time_series() and category_chart() through it: the
\* members are kept as they are, not copied.
StageData(id, d) ==
    /\ data_object(id, d)
    /\ objects' = [objects EXCEPT ![id] = d]
    /\ touched' = touched \ {id}
    /\ UNCHANGED <<counters, statuses, stamps, queue, sending, arrived>>

\* The program changes the second of the lists it has passed to data().
ChangeList(id, right, ragged) ==
    /\ objects[id] # None
    /\ objects' = [objects EXCEPT ![id].right = right, ![id].ragged = ragged]
    /\ touched' = touched \cup {id}
    /\ UNCHANGED <<counters, statuses, stamps, queue, sending, arrived>>

\* A program that discards everything between two flushes.
Clear ==
    /\ sending = None
    /\ ~Nothing
    /\ counters' = [p \in Key |-> None]
    /\ statuses' = [k \in Keys |-> None]
    /\ stamps' = [k \in Keys |-> None]
    /\ objects' = [i \in ObjectIds |-> None]
    /\ events' = <<>>
    /\ discarded' = discarded \cup {events[i].id : i \in DOMAIN events}
    /\ UNCHANGED <<staged, sending, arrived, touched>>

------------------------------------------------------------------------------
(* flush(): build the payload, encode it, post it, trim what was sent. *)

Build ==
    /\ sending = None
    /\ ~Nothing
    /\ sending' = [events |-> Len(events), json |-> IsJson]
    /\ UNCHANGED <<stores, queue, arrived, touched>>

\* mutant: the events of a failed flush are trimmed too
FailAndTrim ==
    /\ sending # None
    /\ events' = SubSeq(events, sending.events + 1, Len(events))
    /\ sending' = None
    /\ UNCHANGED <<stores, staged, discarded, arrived, touched>>

\* json.dumps raises, the receiver answers 400, or the network fails for good:
\* flush() raises and trims nothing.
Fail ==
    /\ sending # None
    /\ sending' = None
    /\ UNCHANGED <<stores, queue, arrived, touched>>

\* Only a payload that is JSON is ever accepted.
Deliver ==
    /\ sending # None /\ sending.json
    /\ arrived' = arrived \cup {events[i].id : i \in 1..sending.events}
    /\ events' = SubSeq(events, sending.events + 1, Len(events))
    /\ sending' = None
    /\ UNCHANGED <<stores, staged, discarded, touched>>

------------------------------------------------------------------------------

Stage ==
    \/ \E path \in Paths : Resolve(path)
    \/ \E p \in Key, d \in Deltas : Add(p, d)
    \/ \E p \in Key : Set(p, 0)
    \/ \E key \in Keys, value \in Values :
          \/ \E data \in Encoding : StageStatus(key, value, data)
          \/ \E path \in StampPaths : StageTimestamp(path, key, value)
    \/ \E message \in Messages : StageEvent(message)
    \/ \E id \in ObjectIds :
          \/ \E d \in Object : StageData(id, d)
          \/ \E right \in 0..MaxEntries + 1, ragged \in BOOLEAN : ChangeList(id, right, ragged)
    \/ Clear

Next == Stage \/ Build \/ Deliver \/ Fail

Spec == Init /\ [][Next]_vars

(* Fairness: the loop flushes again and again, a flush ends, and a network   *)
(* that is tried for ever lets a payload through again and again.            *)
FairSpec == Spec /\ WF_vars(Build) /\ WF_vars(Deliver \/ Fail) /\ SF_vars(Deliver)

------------------------------------------------------------------------------
(* What the receiver does without telling anyone (external, spec/v1.md 3-7). *)

\* A status that is not a non-empty string is dropped, its key is cut at 500
\* characters, and "@" keys are commands.
KeepsStatus(key, s) == s.value.str /\ s.value.len # 0 /\ key.str /\ key.len <= MaxKey /\ ~key.at

KeepsEvent(e) == e.message.str /\ e.message.len # 0

KeepsCounter(p) ==
    /\ \A i \in 1..2 : p[i].str /\ p[i].len # 0
    /\ p[3] # None => p[3].str /\ p[3].len # 0

\* Unknown types are dropped, long arrays are cut, ragged ones drawn as they are.
KeepsObject(d) ==
    /\ d.type \in {"table", "time-series", "category"}
    /\ d.left \in 0..MaxEntries /\ d.right \in 0..MaxEntries
    /\ IF d.type = "table" THEN ~d.ragged ELSE d.left = d.right

------------------------------------------------------------------------------
(* Properties. *)

TypeOK ==
    /\ counters \in [Key -> Number \cup {None}]
    /\ statuses \in [Keys -> Status \cup {None}]
    /\ stamps \in [Keys -> Stamp \cup {None}]
    /\ objects \in [ObjectIds -> Object \cup {None}]
    /\ events \in Seq(Event)
    /\ staged \in 0..MaxEvents
    /\ sending \in [events : Nat, json : BOOLEAN] \cup {None}
    /\ arrived \subseteq 1..MaxEvents /\ discarded \subseteq 1..MaxEvents
    /\ touched \subseteq ObjectIds

\* Whatever the program stages, and in whatever order, the receiver keeps all
\* of the payload as it was staged: nothing is dropped, cut or drawn crooked
\* there "with nothing raised at either end" (_validate.py:5).  The exception
\* is a data object whose lists the program changed after data() checked them.
ReceiverKeepsAll ==
    /\ \A p \in Reported : KeepsCounter(p)
    /\ \A k \in SentStatuses : KeepsStatus(k, SentStatus(k))
    /\ \A i \in DOMAIN events : KeepsEvent(events[i])
    /\ \A id \in Staged(objects) \ touched : KeepsObject(objects[id])

\* A timestamp that a second one has replaced leaves its path behind.
PathLeft(p) ==
    \E k \in Staged(stamps) \cap Staged(stamps)' : stamps[k].path = p /\ stamps'[k].path # p

\* What has been reported once is in every later payload, until clear()
\* discards everything: "a handle MUST continue to appear in every payload,
\* including at value zero" (client-model.md, section 4), and so must status
\* keys and data objects.  The exception is the path of a timestamp, which
\* leaves without a word when its status key is given another path
\* (_registry.py:187).  And a status staged under the key of a timestamp is
\* never sent: the timestamp wins, whichever came last (_registry.py:360).
StaysReported ==
    [][\/ Clear
       \/ /\ \A p \in Reported \ Reported' : PathLeft(p) /\ p \notin Staged(counters)
          /\ SentStatuses \subseteq SentStatuses'
          /\ Staged(objects) \subseteq Staged(objects)'
          /\ \A k \in Staged(stamps) :
                SentStatus(k)' # SentStatus(k) => stamps'[k] # stamps[k]]_vars

\* A value that cannot be sent (a counter that overflowed, status data that is
\* not JSON) fails every flush, but loses nothing: once no such value is left,
\* every event that waited behind it is delivered or discarded by clear().
HealedDelivers ==
    <>[]IsJson => \A e \in 1..MaxEvents : (e <= staged) ~> (e \in arrived \cup discarded)
==============================================================================
