------------------------------ MODULE Counters ------------------------------
(***************************************************************************)
(* One counter, its buckets, and the lifetime-bound aggregates over it, in *)
(* four of the clients.  Python guards a counter with a lock and           *)
(* JavaScript runs one call at a time, so an update is one step; Go and    *)
(* .NET load the number, compute, and store it with a compare-and-swap     *)
(* that is tried again when another thread came first.                     *)
(*                                                                         *)
(* Numbers are finite or infinite: a sum that leaves the finite range      *)
(* stays infinite until the counter is set again.  (Python integers have   *)
(* no such limit: its numbers are floats here.)                            *)
(***************************************************************************)
EXTENDS Integers, Sequences, FiniteSets, FiniteSetsExt

CONSTANTS Lang,             \* the clients explored, of "py", "js", "go", "net"
          Thread, Free,     \* threads; "in no call"
          Bucket, Plain,    \* the instances of the counter; the one without
          NoKey,            \* null: a category count that holds nothing
          SelfAgg, PartAgg, CatAgg,  \* bound: the aggregates of each class
          ByHand,           \* a call made on the counter itself
          HandValues,       \* bound: numbers passed by hand
          Amounts,          \* bound: contributions a part count is set to
          MaxFinite,        \* the largest finite number
          Unread            \* no number loaded

Agg == SelfAgg \cup PartAgg \cup CatAgg
Key == Bucket \cup {Plain}
Finite == -MaxFinite .. MaxFinite
Number == -(MaxFinite + 1) .. MaxFinite + 1

LedgerConstants ==
    /\ Lang \subseteq {"py", "js", "go", "net"}
    /\ MaxFinite \in Nat \ {0} /\ HandValues \subseteq Finite /\ Amounts \subseteq Finite
    /\ Plain \notin Bucket /\ NoKey \notin Key /\ Unread \notin Number
    /\ {Free, ByHand} \cap Agg = {} /\ Free # ByHand
    /\ SelfAgg \cap PartAgg = {} /\ SelfAgg \cap CatAgg = {} /\ PartAgg \cap CatAgg = {}
    /\ IsFiniteSet(Agg)

ASSUME CountersAssumption == LedgerConstants

VARIABLES
    lang,          \* the client this behaviour is of
    value,         \* the number of each counter
    life,          \* unborn, open, or closed (disposed)
    contribution,  \* of each part count
    current,       \* the bucket a category count holds
    busy,          \* what each thread is calling: an aggregate, ByHand, or nothing
    todo,          \* the updates that call still has to make
    goal,          \* what its aggregate holds afterwards
    seen,          \* the number the compare-and-swap loop has loaded
    byHand,        \* history: what the calls made by hand add up to
    overflown      \* history: counters a sum has taken out of the finite range

aggVars == <<life, contribution, current>>
vars == <<lang, value, aggVars, busy, todo, goal, seen, byHand, overflown>>

Update == [key : Key, op : {"add", "set", "max", "min"}, arg : Finite]

TypeOK ==
    /\ lang \in Lang
    /\ value \in [Key -> Number]
    /\ life \in [Agg -> {"unborn", "open", "closed"}]
    /\ contribution \in [PartAgg -> Finite]
    /\ current \in [CatAgg -> Key \cup {NoKey}]
    /\ busy \in [Thread -> Agg \cup {ByHand, Free}]
    /\ \A t \in Thread : /\ Len(todo[t]) \in 0..2
                         /\ \A i \in DOMAIN todo[t] : todo[t][i] \in Update
                         /\ todo[t] = <<>> <=> busy[t] = Free
    /\ \A t \in Thread : goal[t] = NoKey \/ goal[t] \in Key \/ goal[t] \in Finite
    /\ \A t \in Thread : seen[t] = Unread \/ seen[t] \in Number
    /\ byHand \in [Key -> Int]
    /\ overflown \subseteq Key

Init ==
    /\ lang \in Lang
    /\ value = [k \in Key |-> 0]
    /\ life = [a \in Agg |-> "unborn"]
    /\ contribution = [a \in PartAgg |-> 0]
    /\ current = [a \in CatAgg |-> NoKey]
    /\ busy = [t \in Thread |-> Free]
    /\ todo = [t \in Thread |-> <<>>]
    /\ goal = [t \in Thread |-> NoKey]
    /\ seen = [t \in Thread |-> Unread]
    /\ byHand = [k \in Key |-> 0]
    /\ overflown = {}

------------------------------------------------------------------------------
(* Updates of one counter. *)

Infinite(x) == x \notin Finite

\* The sum of a number and a finite one.
Plus(x, d) ==
    IF Infinite(x) THEN x
    ELSE IF x + d > MaxFinite THEN MaxFinite + 1
    ELSE IF x + d < -MaxFinite THEN -(MaxFinite + 1)
    ELSE x + d

Effect(u, x) ==
    CASE u.op = "add" -> Plus(x, u.arg)
      [] u.op = "set" -> u.arg
      [] u.op = "max" -> IF u.arg > x THEN u.arg ELSE x
      [] u.op = "min" -> IF u.arg < x THEN u.arg ELSE x

\* The call is over: its aggregate now holds what it was to hold.
Finish(t) ==
    /\ busy' = [busy EXCEPT ![t] = Free]
    /\ goal' = [goal EXCEPT ![t] = NoKey]
    /\ contribution' = IF busy[t] \in PartAgg
                       THEN [contribution EXCEPT ![busy[t]] = goal[t]] ELSE contribution
    /\ current' = IF busy[t] \in CatAgg
                  THEN [current EXCEPT ![busy[t]] = goal[t]] ELSE current
    /\ life' = IF busy[t] \in Agg /\ life[busy[t]] = "unborn"
               THEN [life EXCEPT ![busy[t]] = "open"] ELSE life

\* The counter of t's next update becomes x.
Store(t, x) ==
    LET u == Head(todo[t])
        due == Effect(u, value[u.key])
    IN /\ value' = [value EXCEPT ![u.key] = x]
       /\ overflown' = IF Infinite(due) THEN overflown \cup {u.key} ELSE overflown
       /\ byHand' = IF u.key \in overflown' THEN [byHand EXCEPT ![u.key] = 0]
                    ELSE IF busy[t] = ByHand
                    THEN [byHand EXCEPT ![u.key] = @ + due - value[u.key]]
                    ELSE byHand
       /\ todo' = [todo EXCEPT ![t] = Tail(@)]
       /\ seen' = [seen EXCEPT ![t] = Unread]
       /\ IF Len(todo[t]) = 1 THEN Finish(t) ELSE UNCHANGED <<busy, goal, aggVars>>
       /\ UNCHANGED lang

Whole(t) == Store(t, Effect(Head(todo[t]), value[Head(todo[t]).key]))

PyUpdate(t) == lang = "py" /\ todo[t] # <<>> /\ Whole(t)

JsUpdate(t) == lang = "js" /\ todo[t] # <<>> /\ Whole(t)

\* Load; max and min return at once when the number is already beyond.  A
\* set stores without a look.
Load(t) ==
    LET u == Head(todo[t]) IN
    /\ seen[t] = Unread
    /\ IF u.op = "set" \/ (u.op # "add" /\ Effect(u, value[u.key]) = value[u.key])
       THEN Whole(t)
       ELSE /\ seen' = [seen EXCEPT ![t] = value[u.key]]
            /\ UNCHANGED <<lang, value, aggVars, busy, todo, goal, byHand, overflown>>

\* mutant: the new number is stored without the comparison
SwapBlindly(t) ==
    /\ seen[t] # Unread
    /\ Store(t, Effect(Head(todo[t]), seen[t]))

\* The comparison fails when the counter moved in between, and the loop turns.
Swap(t) ==
    LET u == Head(todo[t]) IN
    /\ seen[t] # Unread
    /\ IF value[u.key] = seen[t]
       THEN Store(t, Effect(u, seen[t]))
       ELSE /\ seen' = [seen EXCEPT ![t] = Unread]
            /\ UNCHANGED <<lang, value, aggVars, busy, todo, goal, byHand, overflown>>

GoUpdate(t) == lang = "go" /\ todo[t] # <<>> /\ (Load(t) \/ Swap(t))

NetUpdate(t) == lang = "net" /\ todo[t] # <<>> /\ (Load(t) \/ Swap(t))

------------------------------------------------------------------------------
(* Calls.  An aggregate is in one call at a time: its lock in Python, Go    *)
(* and .NET, the single thread in JavaScript.                               *)

Add(k, d) == [key |-> k, op |-> "add", arg |-> d]

Turn == lang = "js" => \A u \in Thread : busy[u] = Free

Idle(t, a) ==
    /\ Turn
    /\ busy[t] = Free
    /\ a # ByHand => \A u \in Thread : busy[u] # a

Enter(t, a, updates, g) ==
    /\ Idle(t, a)
    /\ busy' = [busy EXCEPT ![t] = a]
    /\ todo' = [todo EXCEPT ![t] = updates]
    /\ goal' = [goal EXCEPT ![t] = g]
    /\ UNCHANGED <<lang, value, contribution, current, seen, byHand, overflown>>

\* set, add (inc, dec), max and min on the handle itself.
CallByHand(t, u) ==
    /\ Enter(t, ByHand, <<u>>, NoKey)
    /\ UNCHANGED life

OpenSelf(t, a) ==
    /\ life[a] = "unborn"
    /\ Enter(t, a, <<Add(Plain, 1)>>, NoKey)
    /\ UNCHANGED life

\* A part or category count touches no counter until it is set.
OpenUnset(a) ==
    /\ Turn /\ life[a] = "unborn"
    /\ life' = [life EXCEPT ![a] = "open"]
    /\ UNCHANGED <<lang, value, contribution, current, busy, todo, goal, seen, byHand, overflown>>

CloseSelf(t, a) ==
    /\ life[a] = "open"
    /\ Enter(t, a, <<Add(Plain, -1)>>, NoKey)
    /\ life' = [life EXCEPT ![a] = "closed"]

ClosePart(t, a) ==
    /\ life[a] = "open" /\ contribution[a] # 0
    /\ Enter(t, a, <<Add(Plain, -contribution[a])>>, 0)
    /\ life' = [life EXCEPT ![a] = "closed"]

CloseCategory(t, a) ==
    /\ life[a] = "open" /\ current[a] # NoKey
    /\ Enter(t, a, <<Add(current[a], -1)>>, NoKey)
    /\ life' = [life EXCEPT ![a] = "closed"]

CloseUnset(a) ==
    /\ Turn /\ life[a] = "open"
    /\ \A t \in Thread : busy[t] # a
    /\ \/ a \in PartAgg /\ contribution[a] = 0
       \/ a \in CatAgg /\ current[a] = NoKey
    /\ life' = [life EXCEPT ![a] = "closed"]
    /\ UNCHANGED <<lang, value, contribution, current, busy, todo, goal, seen, byHand, overflown>>

\* mutant: the difference is added unchecked
MovePartUnchecked(t, a, v) ==
    /\ contribution[a] # v
    /\ Enter(t, a, <<Add(Plain, v - contribution[a])>>, v)
    /\ UNCHANGED life

\* The counter moves by the difference.  A difference that is not finite is
\* refused by the counter before anything changes.
MovePart(t, a, v) ==
    /\ contribution[a] # v /\ ~Infinite(v - contribution[a])
    /\ Enter(t, a, <<Add(Plain, v - contribution[a])>>, v)
    /\ UNCHANGED life

PySetPart(t, a, v) == lang = "py" /\ life[a] = "open" /\ MovePart(t, a, v)

NetSetPart(t, a, v) == lang = "net" /\ life[a] = "open" /\ MovePart(t, a, v)

\* JavaScript does not ask whether the aggregate is disposed.
JsSetPart(t, a, v) == lang = "js" /\ life[a] # "unborn" /\ MovePart(t, a, v)

\* Go's Add ignores a difference that is not finite, and says nothing: the
\* contribution changes and the counter does not.
GoSetPart(t, a, v) ==
    /\ lang = "go" /\ life[a] = "open"
    /\ \/ MovePart(t, a, v)
       \/ /\ Infinite(v - contribution[a])
          /\ Idle(t, a)
          /\ contribution' = [contribution EXCEPT ![a] = v]
          /\ overflown' = overflown \cup {Plain}
          /\ byHand' = [byHand EXCEPT ![Plain] = 0]
          /\ UNCHANGED <<lang, value, life, current, busy, todo, goal, seen>>

\* Leave the bucket held, if any, and enter the next, if any.
MoveCategory(t, a, b) ==
    /\ b # current[a]
    /\ Enter(t, a,
             (IF current[a] = NoKey THEN <<>> ELSE <<Add(current[a], -1)>>)
             \o (IF b = NoKey THEN <<>> ELSE <<Add(b, 1)>>),
             b)
    /\ UNCHANGED life

PySetCategory(t, a, b) == lang = "py" /\ life[a] = "open" /\ b # Plain /\ MoveCategory(t, a, b)

GoSetCategory(t, a, b) == lang = "go" /\ life[a] = "open" /\ b # Plain /\ MoveCategory(t, a, b)

NetSetCategory(t, a, b) == lang = "net" /\ life[a] = "open" /\ b # Plain /\ MoveCategory(t, a, b)

\* In JavaScript the empty string is not null: it is the counter without an
\* instance.
JsSetCategory(t, a, b) == lang = "js" /\ life[a] # "unborn" /\ MoveCategory(t, a, b)

------------------------------------------------------------------------------

UpdatesByHand == [key : {Plain}, op : {"add", "set", "max", "min"}, arg : HandValues]

Call(t) ==
    \/ \E u \in UpdatesByHand : CallByHand(t, u)
    \/ \E a \in SelfAgg : OpenSelf(t, a) \/ CloseSelf(t, a)
    \/ \E a \in PartAgg :
          \/ ClosePart(t, a)
          \/ \E v \in Amounts : \/ PySetPart(t, a, v) \/ JsSetPart(t, a, v)
                                \/ GoSetPart(t, a, v) \/ NetSetPart(t, a, v)
    \/ \E a \in CatAgg :
          \/ CloseCategory(t, a)
          \/ \E b \in Key \cup {NoKey} : \/ PySetCategory(t, a, b) \/ JsSetCategory(t, a, b)
                                         \/ GoSetCategory(t, a, b) \/ NetSetCategory(t, a, b)

Next ==
    \/ \E t \in Thread : \/ Call(t)
                         \/ PyUpdate(t) \/ JsUpdate(t) \/ GoUpdate(t) \/ NetUpdate(t)
    \/ \E a \in PartAgg \cup CatAgg : OpenUnset(a) \/ CloseUnset(a)

Spec == Init /\ [][Next]_vars

------------------------------------------------------------------------------
(* Properties. *)

Held(k, open) ==
    (IF k = Plain THEN Cardinality({a \in SelfAgg : life[a] = "open"})
                       + MapThenSumSet(LAMBDA a : contribution[a], PartAgg \cap open)
     ELSE 0)
    + Cardinality({a \in CatAgg \cap open : current[a] = k})

Quiescent == \A t \in Thread : busy[t] = Free

\* What counts: an aggregate that is open.  JavaScript also lets one that is
\* disposed be set, and then counts it for ever (handles.js:135, 174), against
\* "set(null) and disposal leave the count at zero everywhere"
\* (client-model.md:40).
Counting == {a \in Agg : lang = "js" \/ life[a] = "open"}

\* No update of a counter is ever lost: when every call has returned, it is
\* what the calls made by hand add up to, applied one after the other, plus
\* exactly what each aggregate that counts holds, in every client and after any
\* contention ("Instances are safe for concurrent use", Counter.cs:10,
\* _counters.py:21; "Disposal withdraws exactly its current contribution",
\* client-model.md:39).  A counter that has left the finite range, and in Go
\* one whose part count was moved by more than that range, is excepted.
LedgerBalanced ==
    Quiescent => \A k \in Key \ overflown : value[k] = byHand[k] + Held(k, Counting)
==============================================================================
