----------------------------- MODULE Categories -----------------------------
(***************************************************************************)
(* CategoryCount of the Python client, the registry that resolves its      *)
(* buckets, and build_payload reading the handles one after the other,     *)
(* used by several threads.                                                *)
(*                                                                         *)
(* Three kinds of lock: the registry's (resolving a handle, building a     *)
(* payload, clear), one per category count (set and close), one per        *)
(* counter, held for a single mutation or read and so not a variable here. *)
(* The buckets are the keys of the registry: no other counter is used.     *)
(***************************************************************************)
EXTENDS Integers, Sequences, FiniteSets, FiniteSetsExt

CONSTANTS Thread, Free,      \* threads; "no thread holds the lock"
          Handle, NoHandle,  \* bound: the Counter objects that can be created
          Bucket, NoBucket,  \* instances of the category counter; None
          CatAgg             \* bound: the category counts

ASSUME CategoriesAssumption ==
    /\ Free \notin Thread /\ NoHandle \notin Handle /\ NoBucket \notin Bucket
    /\ Free \notin CatAgg
    /\ IsFiniteSet(CatAgg) /\ IsFiniteSet(Handle)

VARIABLES
    registered,  \* Registry._counters: key -> handle
    order,       \* Registry._counter_order
    created,     \* the Counter objects that exist
    value,       \* Counter._value
    life,        \* a category count before its constructor; open; closed
    lock,        \* _Aggregate._lock: its holder
    current,     \* CategoryCount._current
    pc, busy, target, hand,  \* each thread: step, category count, argument, handle
    reading,     \* build_payload holds the registry lock
    snap,        \* the counters it has read so far: <<handle, value>>
    still,       \* history: category counts that held a bucket since it began
    orphaned     \* history: clear() ran while a category count held a bucket

registryVars == <<registered, order, created>>
aggVars      == <<life, lock, current>>
threadVars   == <<pc, busy, target, hand>>
snapVars     == <<reading, snap, still>>
vars == <<registryVars, value, aggVars, threadVars, snapVars, orphaned>>

TypeOK ==
    /\ registered \in [Bucket -> Handle \cup {NoHandle}]
    /\ order \in Seq(Handle)
    /\ {order[i] : i \in 1..Len(order)} = {registered[k] : k \in Bucket} \ {NoHandle}
    /\ created \subseteq Handle
    /\ value \in [Handle -> Int]
    /\ life \in [CatAgg -> {"unborn", "open", "closed"}]
    /\ lock \in [CatAgg -> Thread \cup {Free}]
    /\ current \in [CatAgg -> Bucket \cup {NoBucket}]
    /\ pc \in [Thread -> {"idle", "leave", "dec", "enter", "inc"}]
    /\ busy \in [Thread -> CatAgg \cup {Free}]
    /\ target \in [Thread -> Bucket \cup {NoBucket}]
    /\ hand \in [Thread -> Handle \cup {NoHandle}]
    /\ reading \in BOOLEAN
    /\ snap \in Seq(Handle \X Int)
    /\ still \subseteq CatAgg /\ orphaned \in BOOLEAN

Init ==
    /\ registered = [k \in Bucket |-> NoHandle] /\ order = <<>> /\ created = {}
    /\ value = [h \in Handle |-> 0]
    /\ life = [a \in CatAgg |-> "unborn"] /\ lock = [a \in CatAgg |-> Free]
    /\ current = [a \in CatAgg |-> NoBucket]
    /\ pc = [t \in Thread |-> "idle"] /\ busy = [t \in Thread |-> Free]
    /\ target = [t \in Thread |-> NoBucket] /\ hand = [t \in Thread |-> NoHandle]
    /\ reading = FALSE /\ snap = <<>> /\ still = {} /\ orphaned = FALSE

------------------------------------------------------------------------------
(* The registry. *)

\* mutant: get-or-create that always creates
ResolveFresh(k, h) ==
    /\ ~reading
    /\ h \notin created
    /\ registered' = [registered EXCEPT ![k] = h]
    /\ order' = Append(order, h)
    /\ created' = created \cup {h}

\* mutant: resolving does not wait for a payload that is being built
ResolveUnlocked(k, h) ==
    IF registered[k] # NoHandle
    THEN h = registered[k] /\ UNCHANGED registryVars
    ELSE /\ created # Handle
         /\ h = CHOOSE x \in Handle : x \notin created
         /\ registered' = [registered EXCEPT ![k] = h]
         /\ order' = Append(order, h)
         /\ created' = created \cup {h}

\* Registry.counter: the handle registered under k, or a new one.
Resolve(k, h) ==
    /\ ~reading
    /\ IF registered[k] # NoHandle
       THEN h = registered[k] /\ UNCHANGED registryVars
       ELSE /\ created # Handle
            /\ h = CHOOSE x \in Handle : x \notin created
            /\ registered' = [registered EXCEPT ![k] = h]
            /\ order' = Append(order, h)
            /\ created' = created \cup {h}

\* No bucket is held or about to be.
Unused == \A a \in CatAgg : current[a] = NoBucket /\ lock[a] = Free

Clear ==
    /\ ~reading
    /\ order # <<>>
    /\ registered' = [k \in Bucket |-> NoHandle]
    /\ order' = <<>>
    /\ orphaned' = (orphaned \/ ~Unused)
    /\ UNCHANGED <<created, value, aggVars, threadVars, snapVars>>

------------------------------------------------------------------------------
(* CategoryCount. *)

\* A category count resolves nothing until it is set.
OpenCategory(a) ==
    /\ life[a] = "unborn"
    /\ life' = [life EXCEPT ![a] = "open"]
    /\ UNCHANGED <<registryVars, value, lock, current, threadVars, snapVars, orphaned>>

\* set() and close(): the lock is held from the first step to the last.  The
\* calls that change nothing (closed already, same value) are stuttering steps.

\* mutant: set() and close() do not take the lock
TakeUnlocked(t, a) ==
    /\ pc[t] = "idle"
    /\ lock' = lock
    /\ busy' = [busy EXCEPT ![t] = a]

Take(t, a) ==
    /\ pc[t] = "idle" /\ lock[a] = Free
    /\ lock' = [lock EXCEPT ![a] = t]
    /\ busy' = [busy EXCEPT ![t] = a]

GoTo(t, step) == pc' = [pc EXCEPT ![t] = step]

Release(t) ==
    /\ lock' = [lock EXCEPT ![busy[t]] = Free]
    /\ busy' = [busy EXCEPT ![t] = Free]
    /\ GoTo(t, "idle")

SetCategory(t, a, b) ==
    /\ Take(t, a)
    /\ life[a] = "open" /\ b # current[a]
    /\ target' = [target EXCEPT ![t] = b]
    /\ GoTo(t, IF current[a] = NoBucket THEN "enter" ELSE "leave")
    /\ still' = still \ {a}
    /\ UNCHANGED <<registryVars, value, life, current, hand, reading, snap, orphaned>>

\* _release resolves the bucket again instead of keeping its handle.
Leave(t) ==
    /\ pc[t] = "leave"
    /\ \E h \in Handle :
          /\ Resolve(current[busy[t]], h)
          /\ hand' = [hand EXCEPT ![t] = h]
    /\ GoTo(t, "dec")
    /\ UNCHANGED <<value, aggVars, busy, target, snapVars, orphaned>>

Dec(t) ==
    /\ pc[t] = "dec"
    /\ value' = [value EXCEPT ![hand[t]] = @ - 1]
    /\ current' = [current EXCEPT ![busy[t]] = NoBucket]
    /\ IF target[t] # NoBucket
       THEN GoTo(t, "enter") /\ UNCHANGED <<lock, busy>>
       ELSE Release(t)
    /\ UNCHANGED <<registryVars, life, target, hand, snapVars, orphaned>>

Enter(t) ==
    /\ pc[t] = "enter"
    /\ \E h \in Handle :
          /\ Resolve(target[t], h)
          /\ hand' = [hand EXCEPT ![t] = h]
    /\ GoTo(t, "inc")
    /\ UNCHANGED <<value, aggVars, busy, target, snapVars, orphaned>>

Inc(t) ==
    /\ pc[t] = "inc"
    /\ value' = [value EXCEPT ![hand[t]] = @ + 1]
    /\ current' = [current EXCEPT ![busy[t]] = target[t]]
    /\ Release(t)
    /\ UNCHANGED <<registryVars, life, target, hand, snapVars, orphaned>>

\* _Aggregate.close: leave the bucket for none.
Close(t, a) ==
    /\ Take(t, a)
    /\ life[a] = "open" /\ current[a] # NoBucket
    /\ life' = [life EXCEPT ![a] = "closed"]
    /\ target' = [target EXCEPT ![t] = NoBucket]
    /\ GoTo(t, "leave")
    /\ still' = still \ {a}
    /\ UNCHANGED <<registryVars, value, current, hand, reading, snap, orphaned>>

\* A category count that holds nothing closes without touching a counter.
CloseUnset(a) ==
    /\ lock[a] = Free /\ life[a] = "open" /\ current[a] = NoBucket
    /\ life' = [life EXCEPT ![a] = "closed"]
    /\ UNCHANGED <<registryVars, value, lock, current, threadVars, snapVars, orphaned>>

------------------------------------------------------------------------------
(* build_payload: the registry lock is held while the handles are read one  *)
(* by one, each under its own counter's lock.                               *)

BeginPayload ==
    /\ ~reading
    /\ reading' = TRUE
    /\ snap' = <<>>
    /\ still' = {a \in CatAgg : current[a] # NoBucket /\ lock[a] = Free}
    /\ UNCHANGED <<registryVars, value, aggVars, threadVars, orphaned>>

ReadCounter ==
    /\ reading /\ Len(snap) < Len(order)
    /\ LET h == order[Len(snap) + 1] IN snap' = Append(snap, <<h, value[h]>>)
    /\ UNCHANGED <<registryVars, value, aggVars, threadVars, reading, still, orphaned>>

EndPayload ==
    /\ reading /\ Len(snap) = Len(order)
    /\ reading' = FALSE
    /\ snap' = <<>> /\ still' = {}
    /\ UNCHANGED <<registryVars, value, aggVars, threadVars, orphaned>>

------------------------------------------------------------------------------

Use(t) ==
    \/ \E a \in CatAgg : Close(t, a) \/ \E b \in Bucket \cup {NoBucket} : SetCategory(t, a, b)
    \/ Leave(t) \/ Dec(t) \/ Enter(t) \/ Inc(t)

Payload == BeginPayload \/ ReadCounter \/ EndPayload

Next ==
    \/ \E a \in CatAgg : OpenCategory(a) \/ CloseUnset(a)
    \/ \E t \in Thread : Use(t)
    \/ Payload
    \/ Clear

Spec == Init /\ [][Next]_vars

------------------------------------------------------------------------------
(* Properties.  A category count resolves its bucket again when it leaves it *)
(* (_counters.py:253): after a clear() that found it in the bucket that is   *)
(* another counter, one that never received its increment and goes to minus  *)
(* one.  The properties are about programs that do not do that.              *)

\* Each bucket's counter is exactly the number of category counts that hold
\* it, through every step of every move ("how many X are currently in state Y
\* correct by construction", _counters.py:4).
Occupants(b) == {a \in CatAgg : current[a] = b}

OccupancyExact ==
    ~orphaned =>
        \A b \in Bucket :
            IF registered[b] = NoHandle
            THEN Occupants(b) = {}
            ELSE value[registered[b]] = Cardinality(Occupants(b))

\* The sum of c over T.
Total(c, T) == MapThenSumSet(LAMBDA a : c[a], T)

\* What a payload under way has read of the buckets' counters, and its sum.
ReadCounts == [i \in DOMAIN snap |-> snap[i][2]]
OfBuckets == {i \in DOMAIN snap : \E b \in Bucket : registered[b] = snap[i][1]}
BucketTotal == Total(ReadCounts, OfBuckets)

\* No payload counts one category count twice, although the counters of a
\* payload are read at different moments: a move needs the registry lock
\* between the bucket it leaves and the bucket it enters.  And a category
\* count that nobody moved while the payload was being built is in it.
PayloadCounts ==
    ~orphaned =>
        /\ BucketTotal <= Cardinality({a \in CatAgg : life[a] # "unborn"})
        /\ reading /\ Len(snap) = Len(order) => BucketTotal >= Cardinality(still)
==============================================================================
