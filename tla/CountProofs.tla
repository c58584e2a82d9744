---------------------------- MODULE CountProofs -----------------------------
(***************************************************************************)
(* Proofs about what counters count, for every set of threads, buckets and *)
(* aggregates.  Three parts follow the lemmas on sums over finite sets:    *)
(*                                                                         *)
(*   - Categories: the counter of a bucket is the number of category       *)
(*     counts that hold it;                                                *)
(*   - the payload: what it reads of the buckets adds up to no more        *)
(*     category counts than there are, and to no fewer than stayed put;    *)
(*   - Counters, as the instance L: no update is ever lost, in the four    *)
(*     clients.                                                            *)
(***************************************************************************)
EXTENDS Categories, FiniteSetTheorems, SequenceTheorems, WellFoundedInduction, TLAPS

------------------------------------------------------------------------------
(* Sums over finite sets. *)

\* The element the sum of s takes out first.
Chosen(s) == CHOOSE x \in s : TRUE

\* f sums c over every subset of T, taking out the chosen element first.
IsSum(f, c, T) ==
    f = [s \in SUBSET T |-> IF s = {} THEN 0 ELSE c[Chosen(s)] + f[s \ {Chosen(s)}]]

\* A family of subsets of a finite set has a smallest one.
LEMMA Smallest ==
    ASSUME NEW T, IsFiniteSet(T), NEW B \in SUBSET (SUBSET T), B # {}
    PROVE  \E s \in B : \A u \in SUBSET s : u # s => u \notin B
<1>1. \A s \in SUBSET T : IsFiniteSet(s)
  BY FS_Subset
<1>2. B \subseteq FiniteSubsetsOf(T)
  BY <1>1 DEF FiniteSubsetsOf
<1>3. PICK s \in B : \A u \in B : ~(<<u, s>> \in StrictSubsetOrdering(T))
  <2>1. IsWellFoundedOn(StrictSubsetOrdering(T), FiniteSubsetsOf(T))
    BY FS_StrictSubsetOrderingWellFounded
  <2>2. QED
    BY <1>2, <2>1, WFMin
<1>4. ASSUME NEW u \in SUBSET s, u # s, u \in B PROVE FALSE
  <2>1. <<u, s>> \in StrictSubsetOrdering(T)
    BY <1>4 DEF StrictSubsetOrdering
  <2>2. QED
    BY <1>3, <1>4, <2>1
<1>5. QED
  BY <1>4

LEMMA SumAt ==
    ASSUME NEW T, NEW c, NEW f, IsSum(f, c, T), NEW s \in SUBSET T
    PROVE  f[s] = IF s = {} THEN 0 ELSE c[Chosen(s)] + f[s \ {Chosen(s)}]
BY DEF IsSum

LEMMA ChosenIn ==
    ASSUME NEW s, s # {}
    PROVE  Chosen(s) \in s
BY DEF Chosen

\* Two sums of summands that agree agree.
LEMMA SumUnique ==
    ASSUME NEW T, IsFiniteSet(T), NEW c, NEW f, IsSum(f, c, T),
           NEW U, NEW d, NEW g, IsSum(g, d, U),
           NEW S, S \subseteq T, S \subseteq U, \A x \in S : c[x] = d[x]
    PROVE  f[S] = g[S]
<1> DEFINE B == {s \in SUBSET S : f[s] # g[s]}
<1>1. SUFFICES ASSUME B # {} PROVE FALSE
  BY DEF B
<1>2. IsFiniteSet(S)
  BY FS_Subset
<1>3. PICK s \in B : \A u \in SUBSET s : u # s => u \notin B
  <2>1. B \in SUBSET SUBSET S
    OBVIOUS
  <2> HIDE DEF B
  <2>2. QED
    BY <1>1, <1>2, <2>1, Smallest
<1>4. s \in SUBSET S /\ s \in SUBSET T /\ s \in SUBSET U /\ f[s] # g[s]
  BY <1>3
<1>5. f[s] = IF s = {} THEN 0 ELSE c[Chosen(s)] + f[s \ {Chosen(s)}]
  <2>1. IsSum(f, c, T) /\ s \in SUBSET T
    BY <1>4
  <2>2. QED
    BY <2>1, SumAt
<1>6. g[s] = IF s = {} THEN 0 ELSE d[Chosen(s)] + g[s \ {Chosen(s)}]
  <2>1. IsSum(g, d, U) /\ s \in SUBSET U
    BY <1>4
  <2>2. QED
    BY <2>1, SumAt
<1>7. s # {}
  BY <1>4, <1>5, <1>6
<1>8. Chosen(s) \in s /\ Chosen(s) \in S
  BY <1>4, <1>7, ChosenIn
<1> DEFINE r == s \ {Chosen(s)}
<1>9. r \notin B /\ r \in SUBSET S
  BY <1>3, <1>4, <1>8
<1>10. f[r] = g[r]
  BY <1>9
<1>11. c[Chosen(s)] = d[Chosen(s)]
  BY <1>8
<1>12. QED
  BY <1>4, <1>5, <1>6, <1>7, <1>10, <1>11

LEMMA SumExists ==
    ASSUME NEW T, IsFiniteSet(T), NEW c
    PROVE  \E f : IsSum(f, c, T)
<1> DEFINE B == {s \in SUBSET T : ~ \E f : IsSum(f, c, s)}
<1>1. SUFFICES ASSUME B # {} PROVE FALSE
  BY DEF B
<1>2. PICK s \in B : \A u \in SUBSET s : u # s => u \notin B
  <2>1. B \in SUBSET SUBSET T
    OBVIOUS
  <2> HIDE DEF B
  <2>2. QED
    BY <1>1, <2>1, Smallest
<1> DEFINE F(u) == CHOOSE f : IsSum(f, c, u)
<1>3. ASSUME NEW u \in SUBSET s, u # s PROVE IsSum(F(u), c, u)
  BY <1>2, <1>3
<1> DEFINE at(u) == IF u = {} THEN 0 ELSE c[Chosen(u)] + F(u \ {Chosen(u)})[u \ {Chosen(u)}]
<1> DEFINE g == [u \in SUBSET s |-> at(u)]
<1>4. ASSUME NEW u \in SUBSET s, u # s PROVE g[u] = F(u)[u]
  <2>1. IsSum(F(u), c, u)
    BY <1>3, <1>4
  <2>2. CASE u = {}
    BY <2>1, <2>2, SumAt
  <2>3. CASE u # {}
    <3> DEFINE v == u \ {Chosen(u)}
    <3>1. v \in SUBSET s /\ v # s /\ v \in SUBSET u
      BY <2>3, ChosenIn
    <3>2. IsSum(F(v), c, v)
      BY <3>1, <1>3
    <3>3. IsFiniteSet(u)
      BY FS_Subset
    <3>4. F(v)[v] = F(u)[v]
      <4> HIDE DEF F, v
      <4>1. IsFiniteSet(v)
        BY <3>1, <3>3, FS_Subset
      <4>2. QED
        BY <2>1, <3>1, <3>2, <4>1, SumUnique
    <3>5. F(u)[u] = c[Chosen(u)] + F(u)[v]
      BY <2>1, <2>3, SumAt
    <3>6. QED
      BY <2>3, <3>4, <3>5
  <2>4. QED
    BY <2>2, <2>3
<1>5. IsSum(g, c, s)
  <2>1. ASSUME NEW u \in SUBSET s, u # {} PROVE F(u \ {Chosen(u)})[u \ {Chosen(u)}] = g[u \ {Chosen(u)}]
    <3>1. u \ {Chosen(u)} \in SUBSET s /\ u \ {Chosen(u)} # s
      BY <2>1, ChosenIn
    <3> HIDE DEF g, F
    <3>2. QED
      BY <3>1, <1>4
  <2>2. ASSUME NEW u \in SUBSET s
        PROVE  at(u) = IF u = {} THEN 0 ELSE c[Chosen(u)] + g[u \ {Chosen(u)}]
    <3> HIDE DEF g, F
    <3>1. QED
      BY <2>1
  <2>3. g = [u \in SUBSET s |-> IF u = {} THEN 0 ELSE c[Chosen(u)] + g[u \ {Chosen(u)}]]
    <3>1. g = [u \in SUBSET s |-> at(u)]
      OBVIOUS
    <3> HIDE DEF g, F, at
    <3>2. QED
      BY <2>2, <3>1
  <2>4. QED
    BY <2>3 DEF IsSum
<1>6. QED
  BY <1>2, <1>5

\* One function sums c over every subset of T.
LEMMA Totals ==
    ASSUME NEW T, IsFiniteSet(T), NEW c
    PROVE  \E f : IsSum(f, c, T) /\ \A S \in SUBSET T : Total(c, S) = f[S]
<1>1. PICK f : IsSum(f, c, T)
  BY SumExists
<1>2. ASSUME NEW S \in SUBSET T PROVE Total(c, S) = f[S]
  <2> DEFINE g == CHOOSE h : IsSum(h, c, S)
  <2>1. IsFiniteSet(S)
    BY FS_Subset
  <2>2. IsSum(g, c, S)
    BY <2>1, SumExists
  <2>3. Total(c, S) = g[S]
    BY DEF Total, MapThenSumSet, MapThenFoldSet, IsSum, Chosen
  <2> HIDE DEF g
  <2>4. QED
    BY <1>1, <2>1, <2>2, <2>3, SumUnique
<1>3. QED
  BY <1>1, <1>2

LEMMA TotalStep ==
    ASSUME NEW T, IsFiniteSet(T), NEW c
    PROVE  Total(c, T) = IF T = {} THEN 0 ELSE c[Chosen(T)] + Total(c, T \ {Chosen(T)})
<1>1. PICK f : IsSum(f, c, T) /\ \A S \in SUBSET T : Total(c, S) = f[S]
  BY Totals
<1>2. f[T] = IF T = {} THEN 0 ELSE c[Chosen(T)] + f[T \ {Chosen(T)}]
  BY <1>1, SumAt
<1>3. QED
  BY <1>1, <1>2

LEMMA TotalInt ==
    ASSUME NEW T, IsFiniteSet(T), NEW c, \A x \in T : c[x] \in Int
    PROVE  Total(c, T) \in Int
<1> DEFINE B == {s \in SUBSET T : Total(c, s) \notin Int}
<1>1. SUFFICES ASSUME B # {} PROVE FALSE
  BY DEF B
<1>2. PICK s \in B : \A u \in SUBSET s : u # s => u \notin B
  <2>1. B \in SUBSET SUBSET T
    OBVIOUS
  <2> HIDE DEF B
  <2>2. QED
    BY <1>1, <2>1, Smallest
<1>3. s \in SUBSET T /\ Total(c, s) \notin Int /\ IsFiniteSet(s)
  BY <1>2, FS_Subset
<1>4. Total(c, s) = IF s = {} THEN 0 ELSE c[Chosen(s)] + Total(c, s \ {Chosen(s)})
  BY <1>3, TotalStep
<1>5. s # {}
  BY <1>3, <1>4
<1>6. Chosen(s) \in s
  BY <1>5, ChosenIn
<1>7. Total(c, s \ {Chosen(s)}) \in Int
  BY <1>2, <1>3, <1>6
<1>8. c[Chosen(s)] \in Int
  BY <1>3, <1>6
<1>9. QED
  BY <1>3, <1>4, <1>5, <1>7, <1>8

\* Any element may be taken out first.
LEMMA TotalRemove ==
    ASSUME NEW T, IsFiniteSet(T), NEW c, \A x \in T : c[x] \in Int, NEW a \in T
    PROVE  Total(c, T) = c[a] + Total(c, T \ {a})
<1> DEFINE Good(s) == \A x \in s : Total(c, s) = c[x] + Total(c, s \ {x})
           B == {s \in SUBSET T : ~Good(s)}
<1>1. SUFFICES ASSUME B # {} PROVE FALSE
  <2>1. CASE B = {}
    <3>1. Good(T)
      BY <2>1
    <3>2. QED
      BY <3>1
  <2>2. QED
    BY <2>1
<1>2. PICK s \in B : \A u \in SUBSET s : u # s => u \notin B
  <2>1. B \in SUBSET SUBSET T
    OBVIOUS
  <2> HIDE DEF B
  <2>2. QED
    BY <1>1, <2>1, Smallest
<1>3. PICK x \in s : Total(c, s) # c[x] + Total(c, s \ {x})
  BY <1>2
<1>4. s \in SUBSET T /\ \A u \in SUBSET T : IsFiniteSet(u) /\ Total(c, u) \in Int
  BY <1>2, FS_Subset, TotalInt
<1> DEFINE b == Chosen(s)
<1>5. b \in s /\ Total(c, s) = c[b] + Total(c, s \ {b})
  BY <1>3, <1>4, TotalStep, ChosenIn
<1>6. b # x
  BY <1>3, <1>5
<1> HIDE DEF b
<1>7. Total(c, s \ {b}) = c[x] + Total(c, s \ {b, x})
  <2>1. s \ {b} \in SUBSET s /\ s \ {b} # s /\ x \in s \ {b}
    BY <1>3, <1>5, <1>6
  <2>2. Good(s \ {b})
    BY <1>2, <1>4, <2>1
  <2>3. (s \ {b}) \ {x} = s \ {b, x}
    OBVIOUS
  <2>4. QED
    BY <2>1, <2>2, <2>3
<1>8. Total(c, s \ {x}) = c[b] + Total(c, s \ {b, x})
  <2>1. s \ {x} \in SUBSET s /\ s \ {x} # s /\ b \in s \ {x}
    BY <1>3, <1>5, <1>6
  <2>2. Good(s \ {x})
    BY <1>2, <1>4, <2>1
  <2>3. (s \ {x}) \ {b} = s \ {b, x}
    OBVIOUS
  <2>4. QED
    BY <2>1, <2>2, <2>3
<1>9. /\ c[x] \in Int /\ c[b] \in Int
      /\ Total(c, s \ {b, x}) \in Int
  BY <1>3, <1>4, <1>5
<1>10. QED
  BY <1>3, <1>5, <1>7, <1>8, <1>9

\* Equal summands, equal totals.
LEMMA TotalSame ==
    ASSUME NEW T, IsFiniteSet(T), NEW c, NEW d, \A x \in T : c[x] = d[x]
    PROVE  Total(c, T) = Total(d, T)
<1>1. PICK f : IsSum(f, c, T) /\ \A S \in SUBSET T : Total(c, S) = f[S]
  BY Totals
<1>2. PICK g : IsSum(g, d, T) /\ \A S \in SUBSET T : Total(d, S) = g[S]
  BY Totals
<1>3. QED
  BY <1>1, <1>2, SumUnique

\* What adds nothing may be left out.
LEMMA TotalWithout ==
    ASSUME NEW T, IsFiniteSet(T), NEW c, \A x \in T : c[x] \in Int,
           NEW S \in SUBSET T, \A x \in T \ S : c[x] = 0
    PROVE  Total(c, S) = Total(c, T)
<1> DEFINE B == {s \in SUBSET T : S \subseteq s /\ Total(c, s) # Total(c, S)}
<1>1. SUFFICES ASSUME B # {} PROVE FALSE
  BY DEF B
<1>2. PICK s \in B : \A u \in SUBSET s : u # s => u \notin B
  <2>1. B \in SUBSET SUBSET T
    OBVIOUS
  <2> HIDE DEF B
  <2>2. QED
    BY <1>1, <2>1, Smallest
<1>3. s \in SUBSET T /\ S \subseteq s /\ Total(c, s) # Total(c, S) /\ IsFiniteSet(s)
  BY <1>2, FS_Subset
<1>4. PICK x \in s : x \notin S
  BY <1>3
<1>5. Total(c, s) = c[x] + Total(c, s \ {x})
  BY <1>3, TotalRemove
<1>6. Total(c, s \ {x}) = Total(c, S)
  BY <1>2, <1>3, <1>4
<1>7. c[x] = 0 /\ Total(c, S) \in Int
  BY <1>3, <1>4, TotalInt, FS_Subset
<1>8. QED
  BY <1>3, <1>5, <1>6, <1>7

LEMMA TotalEmpty == ASSUME NEW c PROVE Total(c, {}) = 0
BY FS_EmptySet, TotalStep

\* One summand changes.
LEMMA TotalChange ==
    ASSUME NEW T, IsFiniteSet(T), NEW c, \A x \in T : c[x] \in Int,
           NEW a \in T, NEW d, d[a] \in Int, \A x \in T \ {a} : d[x] = c[x]
    PROVE  Total(d, T) = Total(c, T) + d[a] - c[a]
<1>1. IsFiniteSet(T \ {a})
  BY FS_Subset
<1>2. Total(d, T \ {a}) = Total(c, T \ {a}) /\ Total(c, T \ {a}) \in Int
  BY <1>1, TotalSame, TotalInt
<1>3. \A x \in T : d[x] \in Int
  OBVIOUS
<1>4. Total(d, T) = d[a] + Total(d, T \ {a})
  BY <1>3, TotalRemove
<1>5. Total(c, T) = c[a] + Total(c, T \ {a})
  BY TotalRemove
<1>6. QED
  BY <1>2, <1>4, <1>5

------------------------------------------------------------------------------
(* Categories. *)

\* TypeOK in parts.
RegistryType ==
    /\ registered \in [Bucket -> Handle \cup {NoHandle}]
    /\ created \subseteq Handle
    /\ order \in Seq(Handle)
    /\ {order[i] : i \in 1..Len(order)} = {registered[k] : k \in Bucket} \ {NoHandle}

AggType ==
    /\ life \in [CatAgg -> {"unborn", "open", "closed"}]
    /\ lock \in [CatAgg -> Thread \cup {Free}]
    /\ current \in [CatAgg -> Bucket \cup {NoBucket}]

ThreadType ==
    /\ pc \in [Thread -> {"idle", "leave", "dec", "enter", "inc"}]
    /\ busy \in [Thread -> CatAgg \cup {Free}]
    /\ target \in [Thread -> Bucket \cup {NoBucket}]
    /\ hand \in [Thread -> Handle \cup {NoHandle}]

ValueType == value \in [Handle -> Int]

SnapType == reading \in BOOLEAN /\ snap \in Seq(Handle \X Int) /\ still \subseteq CatAgg

\* Whoever is inside set() or close() holds the lock of the category count.
LockInv ==
    \A t \in Thread :
        /\ pc[t] = "idle" <=> busy[t] = Free
        /\ \A a \in CatAgg : busy[t] = a <=> lock[a] = t

\* _current, as set() and close() have seen it, is still what it was.
HoldInv ==
    \A t \in Thread :
        /\ pc[t] \in {"leave", "dec"} => current[busy[t]] \in Bucket
        /\ pc[t] \in {"enter", "inc"} => current[busy[t]] = NoBucket /\ target[t] \in Bucket

Shape == RegistryType /\ AggType /\ ThreadType /\ LockInv /\ HoldInv

\* The handles of the registry are different ones, made by it, and a new one
\* counts nothing.
HandleInv ==
    /\ \A b, c \in Bucket : registered[b] = registered[c] /\ registered[b] # NoHandle => b = c
    /\ \A b \in Bucket : registered[b] # NoHandle => registered[b] \in created
    /\ \A h \in Handle \ created : value[h] = 0

\* The handle that set() or close() has resolved is still the registered one.
HandInv ==
    \A t \in Thread :
        /\ pc[t] = "dec" => hand[t] = registered[current[busy[t]]] /\ hand[t] \in Handle
        /\ pc[t] = "inc" => hand[t] = registered[target[t]] /\ hand[t] \in Handle

Exact ==
    \A b \in Bucket :
        IF registered[b] = NoHandle
        THEN Occupants(b) = {}
        ELSE value[registered[b]] = Cardinality(Occupants(b))

ExactInv == HandleInv /\ HandInv /\ Exact

Inv == Shape /\ ValueType /\ (orphaned \/ ExactInv)

(* Types, the locks of the category counts, and what their holders know. *)

LEMMA InitShape == Init => Shape /\ ValueType /\ SnapType
<1> SUFFICES ASSUME Init PROVE Shape /\ ValueType /\ SnapType
  OBVIOUS
<1>1. RegistryType
  BY DEF Init, RegistryType
<1>2. AggType /\ ThreadType
  BY DEF Init, AggType, ThreadType
<1>3. LockInv /\ HoldInv
  BY CategoriesAssumption DEF Init, LockInv, HoldInv
<1>4. ValueType
  BY DEF Init, ValueType
<1>5. reading \in BOOLEAN /\ still \subseteq CatAgg
  BY DEF Init
<1>6. snap \in Seq(Handle \X Int)
  BY DEF Init
<1>7. QED
  BY <1>1, <1>2, <1>3, <1>4, <1>5, <1>6 DEF Shape, SnapType

\* Get-or-create answers with the handle registered under the key; what was
\* registered before stays.
LEMMA ResolveRegisters ==
    ASSUME RegistryType, NEW k \in Bucket, NEW h \in Handle, Resolve(k, h)
    PROVE  /\ RegistryType'
           /\ registered'[k] = h
           /\ \A b \in Bucket : b # k => registered'[b] = registered[b]
           /\ \/ registered[k] = h /\ UNCHANGED registryVars
              \/ registered[k] = NoHandle /\ h \notin created /\ created' = created \cup {h}
<1>1. CASE registered[k] # NoHandle
  BY <1>1 DEF Resolve, RegistryType, registryVars
<1>2. CASE registered[k] = NoHandle
  <2>1. /\ h \notin created
        /\ registered' = [registered EXCEPT ![k] = h]
        /\ order' = Append(order, h)
        /\ created' = created \cup {h}
    <3>1. \E x \in Handle : x \notin created
      <4>1. created # Handle /\ created \subseteq Handle
        BY <1>2 DEF Resolve, RegistryType
      <4>2. QED
        BY <4>1
    <3>2. QED
      BY <1>2, <3>1 DEF Resolve
  <2>2. /\ registered' \in [Bucket -> Handle \cup {NoHandle}]
        /\ created' \subseteq Handle
        /\ registered'[k] = h
        /\ \A b \in Bucket : b # k => registered'[b] = registered[b]
    BY <2>1 DEF RegistryType
  <2>3. /\ order' \in Seq(Handle) /\ Len(order') = Len(order) + 1
        /\ order'[Len(order) + 1] = h
        /\ \A i \in 1..Len(order) : order'[i] = order[i]
        /\ Len(order) \in Nat
    BY <2>1 DEF RegistryType
  <2>4. {order'[i] : i \in 1..Len(order')} = {order[i] : i \in 1..Len(order)} \cup {h}
    <3>1. \A i \in 1..(Len(order) + 1) : i \in 1..Len(order) \/ i = Len(order) + 1
      BY <2>3
    <3>2. \A i \in 1..Len(order) : i \in 1..(Len(order) + 1)
      BY <2>3
    <3>3. Len(order) + 1 \in 1..(Len(order) + 1)
      BY <2>3
    <3>4. QED
      BY <2>3, <3>1, <3>2, <3>3
  <2>5. {registered'[b] : b \in Bucket} \ {NoHandle}
           = ({registered[b] : b \in Bucket} \ {NoHandle}) \cup {h}
    BY <1>2, <2>2, CategoriesAssumption DEF RegistryType
  <2>6. QED
    BY <1>2, <2>1, <2>2, <2>3, <2>4, <2>5 DEF RegistryType
<1>3. QED
  BY <1>1, <1>2

\* A thread takes a free category count and goes to the first of its steps.
LEMMA TakeShape ==
    ASSUME Shape, NEW t \in Thread, NEW a \in CatAgg, Take(t, a),
           NEW b \in Bucket \cup {NoBucket}, target' = [target EXCEPT ![t] = b],
           NEW step \in {"leave", "enter"}, pc' = [pc EXCEPT ![t] = step],
           step = "leave" => current[a] \in Bucket,
           step = "enter" => current[a] = NoBucket /\ b \in Bucket,
           life' \in [CatAgg -> {"unborn", "open", "closed"}],
           UNCHANGED <<registryVars, current, hand>>
    PROVE  Shape'
<1> USE DEF Shape
<1>1. RegistryType'
  BY DEF RegistryType, registryVars
<1>2. AggType'
  BY DEF AggType, Take
<1>3. ThreadType'
  BY DEF ThreadType, Take
<1>4. LockInv'
  BY CategoriesAssumption DEF LockInv, AggType, ThreadType, Take
<1>5. HoldInv'
  BY DEF HoldInv, ThreadType, Take
<1>6. QED
  BY <1>1, <1>2, <1>3, <1>4, <1>5

\* A thread resolves a handle and goes to the step that uses it.
LEMMA ResolveShape ==
    ASSUME Shape, NEW t \in Thread, NEW k \in Bucket, NEW h \in Handle, Resolve(k, h),
           hand' = [hand EXCEPT ![t] = h],
           NEW step, pc' = [pc EXCEPT ![t] = step],
           \/ pc[t] = "leave" /\ step = "dec"
           \/ pc[t] = "enter" /\ step = "inc",
           UNCHANGED <<aggVars, busy, target>>
    PROVE  Shape'
<1> USE DEF Shape, aggVars
<1>1. RegistryType'
  BY ResolveRegisters
<1>2. AggType'
  BY DEF AggType
<1>3. ThreadType'
  BY DEF ThreadType
<1>4. LockInv'
  BY DEF LockInv, ThreadType
<1>5. HoldInv'
  BY DEF HoldInv, ThreadType
<1>6. QED
  BY <1>1, <1>2, <1>3, <1>4, <1>5

\* A thread inside set() or close() has its category count to itself.
LEMMA Alone ==
    ASSUME Shape, NEW t \in Thread, pc[t] # "idle"
    PROVE  /\ busy[t] \in CatAgg /\ lock[busy[t]] = t
           /\ \A u \in Thread : busy[u] = busy[t] => u = t
BY CategoriesAssumption DEF Shape, LockInv, ThreadType, AggType

\* A thread frees its category count.
LEMMA ReleaseShape ==
    ASSUME Shape, NEW t \in Thread, pc[t] # "idle", Release(t),
           NEW b \in Bucket \cup {NoBucket}, current' = [current EXCEPT ![busy[t]] = b],
           UNCHANGED <<registryVars, life, target, hand>>
    PROVE  Shape'
<1> USE DEF Shape, GoTo
<1>1. busy[t] \in CatAgg /\ lock[busy[t]] = t /\ \A u \in Thread : busy[u] = busy[t] => u = t
  BY Alone
<1>2. RegistryType'
  BY DEF RegistryType, registryVars
<1>3. AggType'
  BY <1>1 DEF AggType, Release
<1>4. ThreadType'
  BY DEF ThreadType, Release
<1>5. LockInv'
  <2>1. ASSUME NEW u \in Thread PROVE pc'[u] = "idle" <=> busy'[u] = Free
    BY DEF LockInv, ThreadType, Release
  <2>2. ASSUME NEW u \in Thread, NEW a \in CatAgg PROVE busy'[u] = a <=> lock'[a] = u
    BY <1>1, CategoriesAssumption DEF LockInv, ThreadType, AggType, Release
  <2>3. QED
    BY <2>1, <2>2 DEF LockInv
<1>6. HoldInv'
  BY <1>1, CategoriesAssumption DEF HoldInv, LockInv, ThreadType, AggType, Release
<1>7. QED
  BY <1>2, <1>3, <1>4, <1>5, <1>6

\* The bucket is left and the next one is still to be entered.
LEMMA MoveOnShape ==
    ASSUME Shape, NEW t \in Thread, pc[t] = "dec", target[t] # NoBucket,
           current' = [current EXCEPT ![busy[t]] = NoBucket], GoTo(t, "enter"),
           UNCHANGED <<registryVars, life, lock, busy, target, hand>>
    PROVE  Shape'
<1> USE DEF Shape, GoTo
<1>1. busy[t] \in CatAgg /\ \A u \in Thread : busy[u] = busy[t] => u = t
  BY Alone
<1>2. RegistryType'
  BY DEF RegistryType, registryVars
<1>3. AggType'
  BY DEF AggType
<1>4. ThreadType'
  BY DEF ThreadType
<1>5. LockInv'
  BY DEF LockInv, ThreadType
<1>6. HoldInv'
  BY <1>1, CategoriesAssumption DEF HoldInv, LockInv, ThreadType, AggType
<1>7. QED
  BY <1>2, <1>3, <1>4, <1>5, <1>6

LEMMA UseShape ==
    ASSUME Shape, NEW t \in Thread, Use(t)
    PROVE  Shape'
<1>1. CASE \E a \in CatAgg : Close(t, a)
  <2>1. PICK a \in CatAgg : Close(t, a)
    BY <1>1
  <2>2. current[a] \in Bucket /\ NoBucket \in Bucket \cup {NoBucket}
    BY <2>1 DEF Close, Shape, AggType
  <2>3. life' \in [CatAgg -> {"unborn", "open", "closed"}]
    BY <2>1 DEF Close, Shape, AggType
  <2>4. QED
    BY <2>1, <2>2, <2>3, TakeShape DEF Close, GoTo
<1>2. CASE \E a \in CatAgg, b \in Bucket \cup {NoBucket} : SetCategory(t, a, b)
  <2>1. PICK a \in CatAgg, b \in Bucket \cup {NoBucket} : SetCategory(t, a, b)
    BY <1>2
  <2>2. current[a] \in Bucket \cup {NoBucket} /\ b # current[a]
    BY <2>1 DEF SetCategory, Shape, AggType
  <2>3. life' \in [CatAgg -> {"unborn", "open", "closed"}]
    BY <2>1 DEF SetCategory, Shape, AggType
  <2>4. CASE current[a] = NoBucket
    BY <2>1, <2>2, <2>3, <2>4, TakeShape DEF SetCategory, GoTo
  <2>5. CASE current[a] # NoBucket
    BY <2>1, <2>2, <2>3, <2>5, TakeShape DEF SetCategory, GoTo
  <2>6. QED
    BY <2>4, <2>5
<1>3. CASE Leave(t)
  <2>1. current[busy[t]] \in Bucket
    BY <1>3 DEF Leave, Shape, HoldInv
  <2>2. QED
    BY <1>3, <2>1, ResolveShape DEF Leave, GoTo
<1>4. CASE Enter(t)
  <2>1. target[t] \in Bucket
    BY <1>4 DEF Enter, Shape, HoldInv
  <2>2. QED
    BY <1>4, <2>1, ResolveShape DEF Enter, GoTo
<1>5. CASE Dec(t)
  BY <1>5, ReleaseShape, MoveOnShape DEF Dec
<1>6. CASE Inc(t)
  <2>1. target[t] \in Bucket \cup {NoBucket}
    BY DEF Shape, ThreadType
  <2>2. QED
    BY <1>6, <2>1, ReleaseShape DEF Inc
<1>7. QED
  BY <1>1, <1>2, <1>3, <1>4, <1>5, <1>6 DEF Use

LEMMA StepShape ==
    ASSUME Shape, [Next]_vars
    PROVE  Shape'
<1>1. ASSUME UNCHANGED <<registryVars, lock, current, threadVars>>,
             life' \in [CatAgg -> {"unborn", "open", "closed"}]
      PROVE  Shape'
  <2>1. RegistryType'
    BY <1>1 DEF Shape, RegistryType, registryVars
  <2>2. AggType'
    BY <1>1 DEF Shape, AggType
  <2>3. ThreadType' /\ LockInv' /\ HoldInv'
    BY <1>1 DEF Shape, ThreadType, LockInv, HoldInv, threadVars
  <2>4. QED
    BY <2>1, <2>2, <2>3 DEF Shape
<1>2. ASSUME NEW a \in CatAgg, OpenCategory(a) \/ CloseUnset(a)
      PROVE  Shape'
  <2>1. life' \in [CatAgg -> {"unborn", "open", "closed"}]
    BY <1>2 DEF OpenCategory, CloseUnset, Shape, AggType
  <2>2. QED
    BY <1>1, <1>2, <2>1 DEF OpenCategory, CloseUnset
<1>3. ASSUME Payload \/ UNCHANGED vars
      PROVE  Shape'
  BY <1>1, <1>3 DEF Payload, BeginPayload, ReadCounter, EndPayload, vars, aggVars, Shape, AggType
<1>4. ASSUME Clear PROVE Shape'
  <2>1. registered' = [k \in Bucket |-> NoHandle] /\ order' = <<>> /\ created' = created
    BY <1>4 DEF Clear
  <2>2. RegistryType'
    BY <2>1 DEF Shape, RegistryType
  <2>3. AggType' /\ ThreadType' /\ LockInv' /\ HoldInv'
    BY <1>4 DEF Clear, Shape, AggType, ThreadType, LockInv, HoldInv, aggVars, threadVars
  <2>4. QED
    BY <2>2, <2>3 DEF Shape
<1>5. QED
  BY <1>2, <1>3, <1>4, UseShape DEF Next

LEMMA StepValueType ==
    ASSUME ValueType, [Next]_vars
    PROVE  ValueType'
<1>1. CASE \E t \in Thread : Dec(t) \/ Inc(t)
  BY <1>1 DEF ValueType, Dec, Inc
<1>2. CASE UNCHANGED value
  BY <1>2 DEF ValueType
<1>3. QED
  BY <1>1, <1>2 DEF Next, Use, Payload, vars, OpenCategory, CloseUnset, Close, SetCategory, Leave,
                    Enter, BeginPayload, ReadCounter, EndPayload, Clear

\* What a payload reads are handles of the registry.
LEMMA StepSnapType ==
    ASSUME Shape, ValueType, SnapType, [Next]_vars
    PROVE  SnapType'
<1>1. CASE BeginPayload \/ EndPayload
  <2>1. reading' \in BOOLEAN /\ still' \subseteq CatAgg
    BY <1>1 DEF BeginPayload, EndPayload
  <2>2. snap' = <<>>
    BY <1>1 DEF BeginPayload, EndPayload
  <2>3. QED
    BY <2>1, <2>2 DEF SnapType
<1>2. CASE ReadCounter
  <2>1. snap \in Seq(Handle \X Int) /\ order \in Seq(Handle) /\ Len(snap) < Len(order)
    BY <1>2 DEF ReadCounter, SnapType, Shape, RegistryType
  <2>2. order[Len(snap) + 1] \in Handle
    BY <2>1
  <2>3. snap' = Append(snap, <<order[Len(snap) + 1], value[order[Len(snap) + 1]]>>)
    BY <1>2 DEF ReadCounter
  <2>4. snap' \in Seq(Handle \X Int)
    BY <2>1, <2>2, <2>3 DEF ValueType
  <2>5. QED
    BY <1>2, <2>4 DEF ReadCounter, SnapType
<1>3. CASE UNCHANGED <<reading, snap>> /\ still' \subseteq still
  BY <1>3 DEF SnapType
<1>4. QED
  BY <1>1, <1>2, <1>3
     DEF Next, Use, Payload, vars, OpenCategory, CloseUnset, Close, SetCategory, Leave, Dec,
         Enter, Inc, Clear, snapVars

\* The registry, the locks and the handles keep their types, clear() at any
\* moment included; the key order names exactly the registered handles
\* (_registry.py:96-114, 382-391; _counters.py:105-254).
THEOREM TypeCorrect == Spec => []TypeOK
<1>1. Init => Shape /\ ValueType /\ SnapType /\ orphaned \in BOOLEAN
  BY InitShape DEF Init
<1>2. ASSUME orphaned \in BOOLEAN, [Next]_vars PROVE orphaned' \in BOOLEAN
  BY <1>2 DEF Next, Use, Payload, vars, OpenCategory, CloseUnset, Close, SetCategory, Leave, Dec,
              Enter, Inc, Clear, BeginPayload, ReadCounter, EndPayload
<1>3. Shape /\ ValueType /\ SnapType /\ orphaned \in BOOLEAN /\ [Next]_vars
         => (Shape /\ ValueType /\ SnapType /\ orphaned \in BOOLEAN)'
  BY <1>2, StepShape, StepValueType, StepSnapType
<1>4. Shape /\ ValueType /\ SnapType /\ orphaned \in BOOLEAN => TypeOK
  BY DEF Shape, RegistryType, AggType, ThreadType, ValueType, SnapType, TypeOK
<1>5. QED
  BY <1>1, <1>3, <1>4, PTL DEF Spec

(* Each bucket counts its holders. *)

LEMMA InitExact == Init => ExactInv
<1> SUFFICES ASSUME Init PROVE ExactInv
  OBVIOUS
<1>1. HandleInv /\ HandInv
  BY DEF Init, HandleInv, HandInv
<1>2. Exact
  BY CategoriesAssumption DEF Init, Exact, Occupants
<1>3. QED
  BY <1>1, <1>2 DEF ExactInv

\* A step that neither resolves nor counts keeps the counts exact.
LEMMA QuietExact ==
    ASSUME Shape, ExactInv, UNCHANGED <<registryVars, value, current>>,
           \A t \in Thread : pc'[t] \in {"dec", "inc"} =>
               pc'[t] = pc[t] /\ busy'[t] = busy[t] /\ target'[t] = target[t] /\ hand'[t] = hand[t]
    PROVE  ExactInv'
<1> USE DEF ExactInv, registryVars
<1>1. HandleInv'
  BY DEF HandleInv
<1>2. HandInv'
  BY DEF HandInv
<1>3. Exact'
  BY DEF Exact, Occupants
<1>4. QED
  BY <1>1, <1>2, <1>3

\* A new handle counts nothing, and its bucket is empty.
LEMMA ResolveExact ==
    ASSUME Shape, ExactInv, NEW t \in Thread, NEW k \in Bucket, NEW h \in Handle, Resolve(k, h),
           hand' = [hand EXCEPT ![t] = h],
           \/ pc[t] = "leave" /\ pc' = [pc EXCEPT ![t] = "dec"] /\ k = current[busy[t]]
           \/ pc[t] = "enter" /\ pc' = [pc EXCEPT ![t] = "inc"] /\ k = target[t],
           UNCHANGED <<value, current, busy, target>>
    PROVE  ExactInv'
<1>1. /\ registered'[k] = h
      /\ \A b \in Bucket : b # k => registered'[b] = registered[b]
      /\ \/ registered[k] = h /\ UNCHANGED registryVars
         \/ registered[k] = NoHandle /\ h \notin created /\ created' = created \cup {h}
  BY ResolveRegisters DEF Shape
<1>2. h # NoHandle
  BY CategoriesAssumption
<1>3. HandleInv'
  <2>1. CASE UNCHANGED registryVars
    BY <2>1 DEF ExactInv, HandleInv, registryVars
  <2>2. CASE registered[k] = NoHandle /\ h \notin created /\ created' = created \cup {h}
    BY <1>1, <1>2, <2>2 DEF ExactInv, HandleInv
  <2>3. QED
    BY <1>1, <2>1, <2>2
<1>4. HandInv'
  <2>1. \A b \in Bucket : registered[b] # NoHandle => registered'[b] = registered[b]
    BY <1>1
  <2>2. ASSUME NEW u \in Thread, pc'[u] = "dec"
        PROVE  hand'[u] = registered'[current'[busy'[u]]] /\ hand'[u] \in Handle
    <3>1. CASE u = t
      BY <1>1, <2>2, <3>1 DEF Shape, ThreadType
    <3>2. CASE u # t
      <4>1. pc[u] = "dec" /\ hand'[u] = hand[u]
        BY <2>2, <3>2 DEF Shape, ThreadType
      <4>2. hand[u] = registered[current[busy[u]]] /\ hand[u] \in Handle /\ current[busy[u]] \in Bucket
        BY <4>1 DEF ExactInv, HandInv, Shape, HoldInv
      <4>3. QED
        BY <2>1, <4>1, <4>2, CategoriesAssumption
    <3>3. QED
      BY <3>1, <3>2
  <2>3. ASSUME NEW u \in Thread, pc'[u] = "inc"
        PROVE  hand'[u] = registered'[target'[u]] /\ hand'[u] \in Handle
    <3>1. CASE u = t
      BY <1>1, <2>3, <3>1 DEF Shape, ThreadType
    <3>2. CASE u # t
      <4>1. pc[u] = "inc" /\ hand'[u] = hand[u]
        BY <2>3, <3>2 DEF Shape, ThreadType
      <4>2. hand[u] = registered[target[u]] /\ hand[u] \in Handle /\ target[u] \in Bucket
        BY <4>1 DEF ExactInv, HandInv, Shape, HoldInv
      <4>3. QED
        BY <2>1, <4>1, <4>2, CategoriesAssumption
    <3>3. QED
      BY <3>1, <3>2
  <2>4. QED
    BY <2>2, <2>3 DEF HandInv
<1>5. Exact'
  <2>1. CASE UNCHANGED registryVars
    BY <2>1 DEF ExactInv, Exact, Occupants, registryVars
  <2>2. CASE registered[k] = NoHandle /\ h \notin created
    <3>1. value[h] = 0
      BY <2>2 DEF ExactInv, HandleInv
    <3>2. Occupants(k) = {}
      BY <2>2 DEF ExactInv, Exact
    <3>3. \A b \in Bucket : Occupants(b)' = Occupants(b)
      BY DEF Occupants
    <3>4. QED
      BY <1>1, <1>2, <3>1, <3>2, <3>3, FS_EmptySet DEF ExactInv, Exact
  <2>3. QED
    BY <1>1, <2>1, <2>2
<1>6. QED
  BY <1>3, <1>4, <1>5 DEF ExactInv

LEMMA OccupantsFinite == \A b \in Bucket : IsFiniteSet(Occupants(b))
BY CategoriesAssumption, FS_Subset DEF Occupants

\* A counter that goes up or down by one, with its bucket.
LEMMA CountExact ==
    ASSUME Shape, ValueType, ExactInv, NEW t \in Thread, NEW b \in Bucket, NEW d \in {1, -1},
           pc[t] \in {"dec", "inc"}, registered[b] = hand[t], hand[t] \in Handle,
           value' = [value EXCEPT ![hand[t]] = @ + d],
           Cardinality(Occupants(b)') = Cardinality(Occupants(b)) + d,
           \A c \in Bucket : c # b => Occupants(c)' = Occupants(c),
           \A u \in Thread : u # t => current'[busy[u]] = current[busy[u]] \/ pc[u] = "idle",
           \A u \in Thread : u # t =>
               pc'[u] = pc[u] /\ busy'[u] = busy[u] /\ target'[u] = target[u] /\ hand'[u] = hand[u],
           pc'[t] \notin {"dec", "inc"},
           UNCHANGED registryVars
    PROVE  ExactInv'
<1> USE DEF registryVars
<1>1. hand[t] \in created /\ hand[t] # NoHandle
  BY CategoriesAssumption DEF ExactInv, HandleInv
<1>2. value'[hand[t]] = value[hand[t]] + d /\ \A h \in Handle : h # hand[t] => value'[h] = value[h]
  BY DEF ValueType
<1>3. HandleInv'
  BY <1>1, <1>2 DEF ExactInv, HandleInv
<1>4. HandInv'
  BY DEF ExactInv, HandInv
<1>5. Exact'
  <2>1. value'[registered[b]] = Cardinality(Occupants(b)')
    BY <1>1, <1>2 DEF ExactInv, Exact
  <2>2. ASSUME NEW c \in Bucket, c # b, registered[c] # NoHandle
        PROVE  value'[registered[c]] = Cardinality(Occupants(c)')
    <3>1. registered[c] # hand[t] /\ registered[c] \in Handle
      BY <2>2 DEF ExactInv, HandleInv, Shape, RegistryType
    <3>2. QED
      BY <1>2, <2>2, <3>1 DEF ExactInv, Exact
  <2>3. ASSUME NEW c \in Bucket, registered[c] = NoHandle
        PROVE  Occupants(c)' = {}
    BY <1>1, <2>3 DEF ExactInv, Exact
  <2>4. QED
    BY <1>1, <2>1, <2>2, <2>3 DEF Exact
<1>6. QED
  BY <1>3, <1>4, <1>5 DEF ExactInv

LEMMA DecExact ==
    ASSUME Shape, ValueType, ExactInv, NEW t \in Thread, Dec(t)
    PROVE  ExactInv'
<1>1. pc[t] = "dec" /\ current[busy[t]] \in Bucket /\ hand[t] \in Handle
  BY DEF Dec, Shape, HoldInv, ExactInv, HandInv
<1>2. PICK b \in Bucket : b = current[busy[t]]
  BY <1>1
<1>3. PICK a \in CatAgg : a = busy[t]
  BY <1>1, Alone
<1>4. \A u \in Thread : busy[u] = a => u = t
  BY <1>1, <1>3, Alone
<1>5. registered[b] = hand[t]
  BY <1>1, <1>2 DEF ExactInv, HandInv
<1>6. \A x \in CatAgg : current'[x] = IF x = a THEN NoBucket ELSE current[x]
  BY <1>3 DEF Dec, Shape, AggType
<1>7. Occupants(b)' = Occupants(b) \ {a} /\ a \in Occupants(b)
  BY <1>2, <1>3, <1>6, CategoriesAssumption DEF Occupants
<1>8. \A c \in Bucket : c # b => Occupants(c)' = Occupants(c)
  BY <1>2, <1>3, <1>6, CategoriesAssumption DEF Occupants
<1>9. Cardinality(Occupants(b)') = Cardinality(Occupants(b)) + (-1)
  <2>1. Cardinality(Occupants(b) \ {a}) = Cardinality(Occupants(b)) - 1
    BY <1>7, OccupantsFinite, FS_RemoveElement
  <2>2. Cardinality(Occupants(b)) \in Nat
    BY OccupantsFinite, FS_CardinalityType
  <2>3. QED
    BY <1>7, <2>1, <2>2
<1>10. pc'[t] \notin {"dec", "inc"} /\ UNCHANGED registryVars
  BY DEF Dec, Release, GoTo, Shape, ThreadType
<1>11. \A u \in Thread : u # t =>
          pc'[u] = pc[u] /\ busy'[u] = busy[u] /\ target'[u] = target[u] /\ hand'[u] = hand[u]
  BY DEF Dec, Release, GoTo, Shape, ThreadType
<1>12. \A u \in Thread : u # t => current'[busy[u]] = current[busy[u]] \/ pc[u] = "idle"
  BY <1>4, <1>6, Alone
<1>13. value' = [value EXCEPT ![hand[t]] = @ + (-1)]
  <2>1. value[hand[t]] - 1 = value[hand[t]] + (-1)
    BY <1>1 DEF ValueType
  <2>2. QED
    BY <2>1 DEF Dec
<1>14. QED
  BY <1>1, <1>5, <1>8, <1>9, <1>10, <1>11, <1>12, <1>13, CountExact

LEMMA IncExact ==
    ASSUME Shape, ValueType, ExactInv, NEW t \in Thread, Inc(t)
    PROVE  ExactInv'
<1>1. pc[t] = "inc" /\ target[t] \in Bucket /\ current[busy[t]] = NoBucket /\ hand[t] \in Handle
  BY DEF Inc, Shape, HoldInv, ExactInv, HandInv
<1>2. PICK b \in Bucket : b = target[t]
  BY <1>1
<1>3. PICK a \in CatAgg : a = busy[t]
  BY <1>1, Alone
<1>4. \A u \in Thread : busy[u] = a => u = t
  BY <1>1, <1>3, Alone
<1>5. registered[b] = hand[t]
  BY <1>1, <1>2 DEF ExactInv, HandInv
<1>6. \A x \in CatAgg : current'[x] = IF x = a THEN b ELSE current[x]
  BY <1>2, <1>3 DEF Inc, Shape, AggType
<1>7. Occupants(b)' = Occupants(b) \cup {a} /\ a \notin Occupants(b)
  BY <1>1, <1>3, <1>6, CategoriesAssumption DEF Occupants
<1>8. \A c \in Bucket : c # b => Occupants(c)' = Occupants(c)
  BY <1>1, <1>3, <1>6, CategoriesAssumption DEF Occupants
<1>9. Cardinality(Occupants(b)') = Cardinality(Occupants(b)) + 1
  BY <1>7, OccupantsFinite, FS_AddElement
<1>10. pc'[t] \notin {"dec", "inc"} /\ UNCHANGED registryVars
  BY DEF Inc, Release, GoTo, Shape, ThreadType
<1>11. \A u \in Thread : u # t =>
          pc'[u] = pc[u] /\ busy'[u] = busy[u] /\ target'[u] = target[u] /\ hand'[u] = hand[u]
  BY DEF Inc, Release, GoTo, Shape, ThreadType
<1>12. \A u \in Thread : u # t => current'[busy[u]] = current[busy[u]] \/ pc[u] = "idle"
  BY <1>4, <1>6, Alone
<1>13. value' = [value EXCEPT ![hand[t]] = @ + 1]
  BY DEF Inc
<1>14. QED
  BY <1>1, <1>5, <1>8, <1>9, <1>10, <1>11, <1>12, <1>13, CountExact

\* clear() when no bucket is held: nothing is registered, and nothing counted.
LEMMA ClearExact ==
    ASSUME Shape, ExactInv, Clear, Unused
    PROVE  ExactInv'
<1>1. \A b \in Bucket : registered'[b] = NoHandle
  BY DEF Clear
<1>2. \A t \in Thread : pc[t] = "idle"
  BY Alone, CategoriesAssumption DEF Unused
<1>3. HandleInv'
  BY <1>1 DEF Clear, ExactInv, HandleInv
<1>4. HandInv'
  BY <1>2 DEF Clear, HandInv, threadVars
<1>5. Exact'
  BY <1>1, CategoriesAssumption DEF Clear, Unused, Exact, Occupants, aggVars
<1>6. QED
  BY <1>3, <1>4, <1>5 DEF ExactInv

LEMMA UseExact ==
    ASSUME Shape, ValueType, ExactInv, NEW t \in Thread, Use(t)
    PROVE  ExactInv'
<1>1. ASSUME NEW a \in CatAgg, Close(t, a) \/ \E b \in Bucket \cup {NoBucket} : SetCategory(t, a, b)
      PROVE  ExactInv'
  <2>1. \A u \in Thread : u # t =>
           pc'[u] = pc[u] /\ busy'[u] = busy[u] /\ target'[u] = target[u] /\ hand'[u] = hand[u]
    BY <1>1 DEF Close, SetCategory, Take, GoTo, Shape, ThreadType
  <2>2. pc'[t] \notin {"dec", "inc"}
    BY <1>1 DEF Close, SetCategory, GoTo, Shape, ThreadType
  <2>3. UNCHANGED <<registryVars, value, current>>
    BY <1>1 DEF Close, SetCategory
  <2>4. QED
    BY <2>1, <2>2, <2>3, QuietExact
<1>2. CASE Leave(t)
  <2>1. current[busy[t]] \in Bucket
    BY <1>2 DEF Leave, Shape, HoldInv
  <2>2. QED
    BY <1>2, <2>1, ResolveExact DEF Leave, GoTo, aggVars
<1>3. CASE Enter(t)
  <2>1. target[t] \in Bucket
    BY <1>3 DEF Enter, Shape, HoldInv
  <2>2. QED
    BY <1>3, <2>1, ResolveExact DEF Enter, GoTo, aggVars
<1>4. QED
  BY <1>1, <1>2, <1>3, DecExact, IncExact DEF Use

LEMMA StepExact ==
    ASSUME Shape, ValueType, orphaned \/ ExactInv, [Next]_vars
    PROVE  orphaned' \/ ExactInv'
<1>1. CASE Clear
  BY <1>1, ClearExact DEF Clear
<1>2. CASE ~Clear
  <2>1. orphaned' = orphaned
    BY <1>2 DEF Next, Use, Payload, vars, OpenCategory, CloseUnset, Close, SetCategory, Leave,
       Dec,
                Enter, Inc, BeginPayload, ReadCounter, EndPayload
  <2>2. ASSUME ExactInv, Payload \/ UNCHANGED vars \/ \E a \in CatAgg : OpenCategory(a) \/ CloseUnset(a)
        PROVE  ExactInv'
    <3>1. UNCHANGED <<registryVars, value, current, threadVars>>
      BY <2>2 DEF Payload, BeginPayload, ReadCounter, EndPayload, OpenCategory, CloseUnset, vars,
                  aggVars
    <3>2. QED
      BY <2>2, <3>1, QuietExact DEF threadVars
  <2>3. QED
    BY <1>2, <2>1, <2>2, UseExact DEF Next
<1>3. QED
  BY <1>1, <1>2

\* Through every step of every set() and close(), however they interleave with
\* each other and with payloads, the counter of a bucket is the number of
\* category counts that hold it, unless clear() runs while one is held
\* (_counters.py:219-254).
THEOREM BucketsExact == Spec => []OccupancyExact
<1>1. Inv => OccupancyExact
  BY DEF Inv, ExactInv, Exact, OccupancyExact
<1>2. Init => Inv
  BY InitShape, InitExact DEF Inv
<1>3. Inv /\ [Next]_vars => Inv'
  BY StepShape, StepValueType, StepExact DEF Inv
<1>4. QED
  BY <1>1, <1>2, <1>3, PTL DEF Spec

------------------------------------------------------------------------------
(* The payload. *)

\* A category count that is not yet there holds nothing.
BornInv == \A a \in CatAgg : life[a] = "unborn" => current[a] = NoBucket /\ lock[a] = Free

\* No counter is twice in the registry.
OrderInv == \A i, j \in 1..Len(order) : order[i] = order[j] => i = j

\* A payload reads the counters in the order of the registry.
ReadInv ==
    /\ ~reading => snap = <<>> /\ still = {}
    /\ Len(snap) <= Len(order)
    /\ \A i \in 1..Len(snap) : snap[i][1] = order[i] /\ snap[i][2] \in Int

StillInv == \A a \in still : lock[a] = Free /\ current[a] \in Bucket

\* The payload under way has read the counter of b.
Covered(b) == \E i \in 1..Len(snap) : order[i] = registered[b]

\* The category counts the payload has counted so far: each is still in a
\* bucket that has been read, or cannot enter one before the payload is over.
Counted(C) ==
    /\ \A a \in C : life[a] # "unborn"
    /\ BucketTotal = Cardinality(C)
    /\ \A a \in C : \/ current[a] \in Bucket /\ Covered(current[a])
                    \/ /\ current[a] = NoBucket
                       /\ \A t \in Thread : busy[t] = a => pc[t] # "inc"
    /\ \A a \in still : Covered(current[a]) => a \in C

PayloadInv == \E C \in SUBSET CatAgg : Counted(C)

SnapInv == BornInv /\ (orphaned \/ (OrderInv /\ ReadInv /\ StillInv /\ PayloadInv))

LEMMA EmptySum == ASSUME snap = <<>> PROVE BucketTotal = 0
<1>1. OfBuckets = {}
  BY DEF OfBuckets
<1>2. Total(ReadCounts, {}) = 0
  BY TotalEmpty
<1>3. QED
  BY <1>1, <1>2 DEF BucketTotal

\* Every counter read is a bucket's.
LEMMA AllBuckets ==
    ASSUME RegistryType, SnapType, ReadInv
    PROVE  OfBuckets = 1..Len(snap) /\ Len(snap) \in Nat
<1>1. DOMAIN snap = 1..Len(snap) /\ Len(snap) \in Nat /\ Len(order) \in Nat /\ Len(snap) <= Len(order)
  BY DEF SnapType, RegistryType, ReadInv
<1>2. ASSUME NEW i \in 1..Len(snap) PROVE \E b \in Bucket : registered[b] = snap[i][1]
  <2>1. i \in 1..Len(order) /\ snap[i][1] = order[i]
    BY <1>1 DEF ReadInv
  <2>2. order[i] \in {registered[k] : k \in Bucket}
    BY <2>1 DEF RegistryType
  <2>3. QED
    BY <2>1, <2>2
<1>3. QED
  BY <1>1, <1>2 DEF OfBuckets

\* Between payloads nothing is counted.
LEMMA NoneCounted ==
    ASSUME snap' = <<>>
    PROVE  PayloadInv'
<1>1. BucketTotal' = 0
  <2>1. OfBuckets' = {}
    BY DEF OfBuckets
  <2>2. Total(ReadCounts', {}) = 0
    BY TotalEmpty
  <2>3. QED
    BY <2>1, <2>2 DEF BucketTotal
<1>2. \A b : ~ Covered(b)'
  <2>1. Len(snap') = 0
    OBVIOUS
  <2>2. QED
    BY <2>1 DEF Covered
<1>3. Cardinality({}) = 0
  BY FS_EmptySet
<1>4. Counted({})'
  BY <1>1, <1>2, <1>3 DEF Counted
<1>5. QED
  BY <1>4 DEF PayloadInv

\* Reading one more counter counts the category counts of its bucket.
LEMMA ReadCounted ==
    ASSUME Shape, ValueType, SnapType, ExactInv, SnapInv, ~orphaned, ReadCounter
    PROVE  (ReadInv /\ PayloadInv)'
<1>1. PICK n, h : n = Len(snap) + 1 /\ h = order[n]
  OBVIOUS
<1>2. /\ reading /\ Len(snap) < Len(order)
      /\ snap' = Append(snap, <<h, value[h]>>)
      /\ UNCHANGED <<registryVars, value, aggVars, threadVars, reading, still, orphaned>>
  BY <1>1 DEF ReadCounter
<1>3. /\ snap \in Seq(Handle \X Int) /\ Len(snap) \in Nat /\ order \in Seq(Handle) /\ Len(order) \in Nat
      /\ n \in 1..Len(order) /\ h \in Handle /\ value[h] \in Int
  BY <1>1, <1>2 DEF SnapType, Shape, RegistryType, ValueType
<1>4. /\ Len(snap') = n /\ snap'[n] = <<h, value[h]>>
      /\ \A i \in 1..Len(snap) : snap'[i] = snap[i]
      /\ DOMAIN snap' = 1..n /\ DOMAIN snap = 1..Len(snap)
  BY <1>1, <1>2, <1>3
<1>5. ReadInv /\ OrderInv /\ StillInv /\ BornInv
  BY DEF SnapInv
<1>6. ReadInv'
  <2>1. reading' /\ order' = order /\ Len(snap') <= Len(order)
    BY <1>1, <1>2, <1>3, <1>4 DEF registryVars
  <2>2. ASSUME NEW i \in 1..n PROVE snap'[i][1] = order[i] /\ snap'[i][2] \in Int
    <3>1. CASE i = n
      BY <1>1, <1>3, <1>4, <3>1
    <3>2. CASE i # n
      <4>1. i \in 1..Len(snap)
        BY <1>1, <1>3, <3>2
      <4>2. QED
        BY <1>4, <1>5, <4>1 DEF ReadInv
    <3>3. QED
      BY <3>1, <3>2
  <2>3. QED
    BY <1>4, <2>1, <2>2 DEF ReadInv
<1>7. RegistryType' /\ SnapType'
  <2>1. RegistryType
    BY DEF Shape
  <2>2. RegistryType'
    BY <1>2, <2>1 DEF RegistryType, registryVars
  <2>3. snap' \in Seq(Handle \X Int)
    BY <1>2, <1>3
  <2>4. QED
    BY <1>2, <2>2, <2>3 DEF SnapType
<1>8. PICK b \in Bucket : registered[b] = h
  BY <1>1, <1>3 DEF Shape, RegistryType
<1>9. PICK C \in SUBSET CatAgg : Counted(C)
  BY DEF SnapInv, PayloadInv
<1>10. ~Covered(b)
  <2>1. ASSUME NEW i \in 1..Len(snap), order[i] = registered[b] PROVE FALSE
    BY <1>1, <1>3, <1>5, <1>8, <2>1 DEF OrderInv
  <2>2. QED
    BY <2>1 DEF Covered
<1>11. Occupants(b) \cap C = {}
  BY <1>9, <1>10, CategoriesAssumption DEF Counted, Occupants
<1>12. value[h] = Cardinality(Occupants(b)) /\ h # NoHandle
  BY <1>3, <1>8, CategoriesAssumption DEF ExactInv, Exact
<1>13. Cardinality(C \cup Occupants(b)) = Cardinality(C) + value[h]
  <2>1. IsFiniteSet(C) /\ IsFiniteSet(Occupants(b)) /\ C \cap Occupants(b) = {}
    BY <1>11, CategoriesAssumption, FS_Subset DEF Occupants
  <2>2. Cardinality(C \cup Occupants(b)) = Cardinality(C) + Cardinality(Occupants(b)) - Cardinality(C \cap Occupants(b))
    BY <2>1, FS_Union
  <2>3. Cardinality({}) = 0 /\ Cardinality(C) \in Nat /\ Cardinality(Occupants(b)) \in Nat
    BY <2>1, FS_EmptySet, FS_CardinalityType
  <2>4. QED
    BY <1>12, <2>1, <2>2, <2>3
<1>14. BucketTotal' = BucketTotal + value[h]
  <2>1. OfBuckets = 1..Len(snap) /\ OfBuckets' = 1..n
    <3>1. OfBuckets = 1..Len(snap)
      BY <1>5, AllBuckets DEF Shape
    <3>2. ASSUME NEW i \in 1..n PROVE \E k \in Bucket : registered'[k] = snap'[i][1]
      <4>1. i \in 1..Len(order) /\ snap'[i][1] = order[i]
        BY <1>3, <1>4, <1>6, <1>2 DEF ReadInv, registryVars
      <4>2. order[i] \in {registered[k] : k \in Bucket}
        BY <4>1 DEF Shape, RegistryType
      <4>3. QED
        BY <1>2, <4>1, <4>2 DEF registryVars
    <3>3. OfBuckets' = 1..n
      BY <1>4, <3>2 DEF OfBuckets
    <3>4. QED
      BY <3>1, <3>3
  <2> DEFINE c == ReadCounts
             d == ReadCounts'
  <2>2. IsFiniteSet(1..n) /\ n \in 1..n /\ (1..n) \ {n} = 1..Len(snap) /\ IsFiniteSet(1..Len(snap))
    <3>1. n \in Nat /\ Len(snap) \in Nat /\ n \in 1..n /\ (1..n) \ {n} = 1..Len(snap)
      BY <1>1, <1>3
    <3>2. QED
      BY <3>1, FS_Interval
  <2>3. /\ \A i \in 1..Len(snap) : c[i] = snap[i][2] /\ d[i] = snap'[i][2] /\ c[i] = d[i]
        /\ d[n] = value[h]
    BY <1>4, <2>2 DEF ReadCounts
  <2>4. \A i \in 1..n : d[i] \in Int
    BY <1>4, <1>6 DEF ReadCounts, ReadInv
  <2> HIDE DEF c, d
  <2>5. Total(d, 1..n) = d[n] + Total(d, 1..Len(snap))
    <3>1. PICK T : T = 1..n
      OBVIOUS
    <3>2. IsFiniteSet(T) /\ n \in T /\ \A i \in T : d[i] \in Int
      BY <2>2, <2>4, <3>1
    <3>3. Total(d, T) = d[n] + Total(d, T \ {n})
      BY <3>2, TotalRemove
    <3>4. QED
      BY <2>2, <3>1, <3>3
  <2>6. Total(d, 1..Len(snap)) = Total(c, 1..Len(snap))
    BY <2>2, <2>3, TotalSame
  <2>7. Total(c, 1..Len(snap)) \in Int
    <3>1. \A i \in 1..Len(snap) : d[i] \in Int
      BY <2>2, <2>4
    <3>2. QED
      BY <2>2, <2>6, <3>1, TotalInt
  <2>8. BucketTotal = Total(c, 1..Len(snap)) /\ BucketTotal' = Total(d, 1..n)
    BY <2>1 DEF BucketTotal, c, d
  <2>9. QED
    BY <1>3, <2>3, <2>5, <2>6, <2>7, <2>8
<1>15. \A k \in Bucket : Covered(k)' <=> (Covered(k) \/ k = b)
  <2>1. \A i \in 1..n : i \in 1..Len(snap) \/ i = n
    BY <1>1, <1>3
  <2>2. 1..Len(snap) \subseteq 1..n /\ n \in 1..n
    BY <1>1, <1>3
  <2>3. \A k \in Bucket : order[n] = registered[k] <=> k = b
    BY <1>1, <1>8, <1>12 DEF ExactInv, HandleInv
  <2>4. order' = order /\ registered' = registered
    BY <1>2 DEF registryVars
  <2>5. QED
    BY <1>4, <2>1, <2>2, <2>3, <2>4 DEF Covered
<1>16. PICK D : D = C \cup Occupants(b)
  OBVIOUS
<1>17. Counted(D)'
  <2>1. UNCHANGED <<life, current, busy, pc, still, lock>>
    BY <1>2 DEF aggVars, threadVars
  <2>2. \A a \in D : life'[a] # "unborn"
    BY <1>5, <1>9, <1>16, <2>1, CategoriesAssumption DEF Counted, BornInv, Occupants
  <2>3. BucketTotal' = Cardinality(D)
    BY <1>9, <1>13, <1>14, <1>16 DEF Counted
  <2>4. ASSUME NEW a \in D
        PROVE  \/ current'[a] \in Bucket /\ Covered(current[a])'
               \/ /\ current'[a] = NoBucket
                  /\ \A t \in Thread : busy'[t] = a => pc'[t] # "inc"
    <3>1. CASE a \in C
      BY <1>9, <1>15, <2>1, <3>1 DEF Counted
    <3>2. CASE a \in Occupants(b)
      BY <1>15, <2>1, <3>2 DEF Occupants
    <3>3. QED
      BY <1>16, <3>1, <3>2
  <2>5. ASSUME NEW a \in still, Covered(current[a])' PROVE a \in D
    <3>1. current[a] \in Bucket /\ a \in CatAgg
      BY <1>5 DEF StillInv, SnapType
    <3>2. Covered(current[a]) \/ current[a] = b
      BY <1>15, <2>1, <2>5, <3>1
    <3>3. QED
      BY <1>9, <1>16, <3>1, <3>2 DEF Counted, Occupants
  <2>6. QED
    BY <2>1, <2>2, <2>3, <2>4, <2>5 DEF Counted
<1>18. D \in SUBSET CatAgg
  BY <1>16 DEF Occupants
<1>19. PayloadInv'
  BY <1>17, <1>18 DEF PayloadInv
<1>20. QED
  BY <1>6, <1>19

LEMMA InitSnap == Init => SnapInv
<1> SUFFICES ASSUME Init PROVE SnapInv
  OBVIOUS
<1>1. BornInv
  BY DEF Init, BornInv
<1>2. OrderInv /\ ReadInv /\ StillInv
  BY DEF Init, OrderInv, ReadInv, StillInv
<1>3. PayloadInv
  <2>1. BucketTotal = 0 /\ Cardinality({}) = 0
    BY EmptySum, FS_EmptySet DEF Init
  <2>2. Counted({})
    BY <2>1 DEF Init, Counted
  <2>3. QED
    BY <2>2 DEF PayloadInv
<1>4. QED
  BY <1>1, <1>2, <1>3 DEF SnapInv

LEMMA StepBorn == ASSUME Shape, BornInv, [Next]_vars PROVE BornInv'
<1>1. CASE UNCHANGED vars
  BY <1>1 DEF vars, aggVars, BornInv
<1>2. ASSUME NEW a \in CatAgg, OpenCategory(a) \/ CloseUnset(a) PROVE BornInv'
  BY <1>2 DEF OpenCategory, CloseUnset, BornInv, Shape, AggType
<1>3. ASSUME NEW t \in Thread, NEW a \in CatAgg,
             Close(t, a) \/ \E b \in Bucket \cup {NoBucket} : SetCategory(t, a, b)
      PROVE  BornInv'
  BY <1>3 DEF Close, SetCategory, Take, BornInv, Shape, AggType
<1>4. ASSUME NEW t \in Thread, Leave(t) \/ Enter(t) PROVE BornInv'
  BY <1>4 DEF Leave, Enter, aggVars, BornInv
<1>5. ASSUME NEW t \in Thread, Dec(t) \/ Inc(t) PROVE BornInv'
  <2>1. pc[t] # "idle" /\ busy[t] \in CatAgg /\ lock[busy[t]] = t
    BY <1>5, Alone DEF Dec, Inc
  <2>2. life[busy[t]] # "unborn"
    BY <2>1, CategoriesAssumption DEF BornInv
  <2>3. /\ life' = life
        /\ \A a \in CatAgg : a # busy[t] => current'[a] = current[a] /\ lock'[a] = lock[a]
    BY <1>5 DEF Dec, Inc, Release, Shape, AggType
  <2>4. QED
    BY <2>2, <2>3 DEF BornInv
<1>6. CASE Payload \/ Clear
  BY <1>6 DEF Payload, BeginPayload, ReadCounter, EndPayload, Clear, aggVars, BornInv
<1>7. QED
  BY <1>1, <1>2, <1>3, <1>4, <1>5, <1>6 DEF Next, Use

\* A step that leaves the registry and the payload alone keeps what is counted.
LEMMA QuietCounted ==
    ASSUME Shape, SnapType, OrderInv, ReadInv, StillInv, PayloadInv,
           UNCHANGED <<registryVars, reading, snap>>, still' \subseteq still,
           \A a \in CatAgg : life[a] # "unborn" => life'[a] # "unborn",
           \A a \in still' : lock'[a] = lock[a] /\ current'[a] = current[a],
           \A a \in CatAgg :
               \/ /\ current'[a] = current[a]
                  /\ \A t \in Thread : busy'[t] = a /\ pc'[t] = "inc" => busy[t] = a /\ pc[t] = "inc"
               \/ current'[a] = NoBucket /\ \A t \in Thread : busy'[t] = a => pc'[t] # "inc"
               \/ current[a] = NoBucket /\ \E t \in Thread : busy[t] = a /\ pc[t] = "inc"
    PROVE  (OrderInv /\ ReadInv /\ StillInv /\ PayloadInv)'
<1>1. OrderInv' /\ ReadInv'
  BY DEF OrderInv, ReadInv, registryVars
<1>2. StillInv'
  BY DEF StillInv
<1>3. PICK C \in SUBSET CatAgg : Counted(C)
  BY DEF PayloadInv
<1>4. \A b \in Bucket : Covered(b)' <=> Covered(b)
  BY DEF Covered, registryVars
<1>5. BucketTotal' = BucketTotal
  BY DEF BucketTotal, ReadCounts, OfBuckets, registryVars
<1>6. ASSUME NEW a \in C
      PROVE  \/ current'[a] \in Bucket /\ Covered(current[a])'
             \/ /\ current'[a] = NoBucket
                /\ \A t \in Thread : busy'[t] = a => pc'[t] # "inc"
  <2>1. \/ current[a] \in Bucket /\ Covered(current[a])
        \/ /\ current[a] = NoBucket
           /\ \A t \in Thread : busy[t] = a => pc[t] # "inc"
    BY <1>3 DEF Counted
  <2>2. QED
    BY <1>3, <1>4, <2>1, CategoriesAssumption
<1>7. ASSUME NEW a \in still', Covered(current[a])' PROVE a \in C
  <2>1. current'[a] = current[a] /\ current[a] \in Bucket /\ a \in still
    BY <1>7 DEF StillInv
  <2>2. QED
    BY <1>3, <1>4, <1>7, <2>1 DEF Counted
<1>8. Counted(C)'
  BY <1>3, <1>5, <1>6, <1>7 DEF Counted
<1>9. QED
  BY <1>1, <1>2, <1>3, <1>8 DEF PayloadInv

\* Between payloads.
LEMMA BetweenPayloads ==
    ASSUME OrderInv', order' \in Seq(Handle), snap' = <<>>, still' = {}
    PROVE  (ReadInv /\ StillInv /\ PayloadInv)'
<1>1. ReadInv'
  <2>1. Len(snap') = 0 /\ Len(order') \in Nat
    OBVIOUS
  <2>2. QED
    BY <2>1 DEF ReadInv
<1>2. StillInv'
  BY DEF StillInv
<1>3. QED
  BY <1>1, <1>2, NoneCounted

LEMMA ResolveOrder ==
    ASSUME RegistryType, HandleInv, OrderInv, NEW k \in Bucket, NEW h \in Handle, Resolve(k, h)
    PROVE  OrderInv'
<1>1. CASE UNCHANGED registryVars
  BY <1>1 DEF OrderInv, registryVars
<1>2. CASE ~ UNCHANGED registryVars
  <2>1. registered[k] = NoHandle /\ order' = Append(order, h) /\ h \notin created
    BY <1>2, ResolveRegisters DEF Resolve
  <2>2. ASSUME NEW i \in 1..Len(order) PROVE order[i] # h
    <3>1. order[i] \in {registered[b] : b \in Bucket} \ {NoHandle}
      BY DEF RegistryType
    <3>2. order[i] \in created
      BY <3>1 DEF HandleInv
    <3>3. QED
      BY <2>1, <3>2
  <2>3. /\ Len(order) \in Nat /\ Len(order') = Len(order) + 1
        /\ order'[Len(order) + 1] = h
        /\ \A i \in 1..Len(order) : order'[i] = order[i]
    BY <2>1 DEF RegistryType
  <2>4. QED
    BY <2>2, <2>3 DEF OrderInv
<1>3. QED
  BY <1>1, <1>2

LEMMA StepSnap ==
    ASSUME Shape, ValueType, SnapType, orphaned \/ ExactInv, SnapInv, orphaned \in BOOLEAN,
           [Next]_vars
    PROVE  SnapInv'
<1>1. BornInv'
  BY StepBorn DEF SnapInv
<1>2. SUFFICES ASSUME ~orphaned' PROVE (OrderInv /\ ReadInv /\ StillInv /\ PayloadInv)'
  BY <1>1 DEF SnapInv
<1>3. ~orphaned
  BY <1>2 DEF Next, Use, Payload, vars, OpenCategory, CloseUnset, Close, SetCategory, Leave, Dec,
              Enter, Inc, Clear, BeginPayload, ReadCounter, EndPayload
<1>4. ExactInv /\ OrderInv /\ ReadInv /\ StillInv /\ PayloadInv
  BY <1>3 DEF SnapInv
<1>5. order' \in Seq(Handle)
  BY StepShape DEF Shape, RegistryType
<1>6. CASE UNCHANGED vars
  <2>1. UNCHANGED <<registryVars, reading, snap, still, life, lock, current, busy, pc>>
    BY <1>6 DEF vars, aggVars, threadVars, snapVars
  <2>2. QED
    BY <1>4, <2>1, QuietCounted
<1>7. ASSUME NEW a \in CatAgg, OpenCategory(a) \/ CloseUnset(a)
      PROVE  (OrderInv /\ ReadInv /\ StillInv /\ PayloadInv)'
  <2>1. UNCHANGED <<registryVars, reading, snap, still, lock, current, busy, pc>>
    BY <1>7 DEF OpenCategory, CloseUnset, threadVars, snapVars
  <2>2. \A b \in CatAgg : life[b] # "unborn" => life'[b] # "unborn"
    BY <1>7 DEF OpenCategory, CloseUnset, Shape, AggType
  <2>3. QED
    BY <1>4, <2>1, <2>2, QuietCounted
<1>8. ASSUME NEW t \in Thread, NEW a \in CatAgg,
             Close(t, a) \/ \E b \in Bucket \cup {NoBucket} : SetCategory(t, a, b)
      PROVE  (OrderInv /\ ReadInv /\ StillInv /\ PayloadInv)'
  <2>1. /\ UNCHANGED <<registryVars, reading, snap, current>>
        /\ still' = still \ {a}
        /\ \A b \in CatAgg \ {a} : lock'[b] = lock[b]
        /\ \A b \in CatAgg : life[b] # "unborn" => life'[b] # "unborn"
    BY <1>8 DEF Close, SetCategory, Take, Shape, AggType
  <2>2. \A u \in Thread : pc'[u] = "inc" => u # t
    BY <1>8 DEF Close, SetCategory, GoTo, Shape, ThreadType
  <2>3. \A u \in Thread : u # t => busy'[u] = busy[u] /\ pc'[u] = pc[u]
    BY <1>8 DEF Close, SetCategory, Take, GoTo, Shape, ThreadType
  <2>4. QED
    BY <1>4, <2>1, <2>2, <2>3, QuietCounted DEF SnapType
<1>9. ASSUME NEW t \in Thread, Leave(t) \/ Enter(t)
      PROVE  (OrderInv /\ ReadInv /\ StillInv /\ PayloadInv)'
  <2>1. PICK k \in Bucket, h \in Handle : Resolve(k, h)
    BY <1>9 DEF Leave, Enter, Shape, HoldInv
  <2>3. OrderInv'
    BY <1>4, <2>1, ResolveOrder DEF Shape, ExactInv
  <2>4. ~reading /\ UNCHANGED <<snap, still>>
    BY <1>9, <2>1 DEF Leave, Enter, Resolve, snapVars
  <2>5. snap' = <<>> /\ still' = {}
    BY <1>4, <2>4 DEF ReadInv
  <2>6. QED
    BY <1>5, <2>3, <2>5, BetweenPayloads
<1>10. ASSUME NEW t \in Thread, Dec(t) \/ Inc(t)
      PROVE  (OrderInv /\ ReadInv /\ StillInv /\ PayloadInv)'
  <2>1. pc[t] # "idle"
    BY <1>10 DEF Dec, Inc
  <2>2. PICK a \in CatAgg : /\ a = busy[t] /\ lock[a] = t
                            /\ \A u \in Thread : busy[u] = a => u = t
    BY <2>1, Alone
  <2>3. a \notin still
    BY <1>4, <2>2, CategoriesAssumption DEF StillInv
  <2>4. /\ UNCHANGED <<registryVars, reading, snap, still, life>>
        /\ \A b \in CatAgg \ {a} : lock'[b] = lock[b] /\ current'[b] = current[b]
    BY <1>10, <2>2 DEF Dec, Inc, Release, snapVars, Shape, AggType
  <2>5. pc'[t] # "inc" /\ \A u \in Thread : u # t => busy'[u] = busy[u] /\ pc'[u] = pc[u]
    BY <1>10 DEF Dec, Inc, Release, GoTo, Shape, ThreadType
  <2>6. busy'[t] \in {a, Free}
    BY <1>10, <2>2 DEF Dec, Inc, Release, Shape, ThreadType
  <2>7. \A u \in Thread : busy'[u] = a => pc'[u] # "inc"
    BY <2>2, <2>5
  <2>8. CASE Dec(t)
    <3>1. current'[a] = NoBucket
      BY <2>2, <2>8 DEF Dec, Shape, AggType
    <3>2. QED
      BY <1>4, <2>3, <2>4, <2>5, <2>6, <2>7, <3>1, QuietCounted, CategoriesAssumption DEF SnapType
  <2>9. CASE Inc(t)
    <3>1. current[a] = NoBucket /\ pc[t] = "inc"
      BY <2>2, <2>9 DEF Inc, Shape, HoldInv
    <3>2. QED
      BY <1>4, <2>2, <2>3, <2>4, <2>5, <2>6, <3>1, QuietCounted, CategoriesAssumption DEF SnapType
  <2>10. QED
    BY <1>10, <2>8, <2>9
<1>11. CASE BeginPayload
  <2>1. OrderInv' /\ snap' = <<>> /\ reading' /\ order' = order
    BY <1>4, <1>11 DEF BeginPayload, OrderInv, registryVars
  <2>2. ReadInv'
    <3>1. Len(snap') = 0 /\ Len(order') \in Nat
      BY <1>5, <2>1
    <3>2. QED
      BY <2>1, <3>1 DEF ReadInv
  <2>3. StillInv'
    BY <1>11 DEF BeginPayload, StillInv, aggVars, Shape, AggType
  <2>4. QED
    BY <2>1, <2>2, <2>3, NoneCounted
<1>12. CASE ReadCounter
  <2>1. OrderInv' /\ StillInv'
    BY <1>4, <1>12 DEF ReadCounter, OrderInv, StillInv, registryVars, aggVars
  <2>2. QED
    BY <1>3, <1>4, <1>12, <2>1, ReadCounted
<1>13. CASE EndPayload
  <2>1. OrderInv' /\ snap' = <<>> /\ still' = {}
    BY <1>4, <1>13 DEF EndPayload, OrderInv, registryVars
  <2>2. QED
    BY <1>5, <2>1, BetweenPayloads
<1>14. CASE Clear
  <2>1. OrderInv'
    BY <1>14 DEF Clear, OrderInv
  <2>2. snap' = <<>> /\ still' = {}
    BY <1>4, <1>14 DEF Clear, ReadInv, snapVars
  <2>3. QED
    BY <1>5, <2>1, <2>2, BetweenPayloads
<1>15. QED
  BY <1>6, <1>7, <1>8, <1>9, <1>10, <1>11, <1>12, <1>13, <1>14 DEF Next, Use, Payload

LEMMA PayloadExact ==
    ASSUME Shape, SnapType, ExactInv, OrderInv, ReadInv, StillInv, PayloadInv
    PROVE  /\ BucketTotal <= Cardinality({a \in CatAgg : life[a] # "unborn"})
           /\ reading /\ Len(snap) = Len(order) => BucketTotal >= Cardinality(still)
<1>1. PICK C \in SUBSET CatAgg : Counted(C)
  BY DEF PayloadInv
<1> DEFINE B == {a \in CatAgg : life[a] # "unborn"}
<1>2. C \subseteq B /\ IsFiniteSet(B) /\ IsFiniteSet(C)
  BY <1>1, CategoriesAssumption, FS_Subset DEF Counted
<1>3. Cardinality(C) <= Cardinality(B)
  BY <1>2, FS_Subset
<1>4. ASSUME Len(snap) = Len(order) PROVE Cardinality(still) <= Cardinality(C)
  <2>1. ASSUME NEW a \in still PROVE a \in C
    <3>1. PICK b \in Bucket : b = current[a]
      BY DEF StillInv
    <3>2. a \in Occupants(b)
      BY <3>1 DEF Occupants, SnapType
    <3>3. registered[b] # NoHandle
      BY <3>2 DEF ExactInv, Exact
    <3>4. registered[b] \in {order[i] : i \in 1..Len(order)}
      BY <3>3 DEF Shape, RegistryType
    <3>5. Covered(b)
      BY <1>4, <3>4 DEF Covered
    <3>6. QED
      BY <1>1, <3>1, <3>5 DEF Counted
  <2>2. QED
    BY <1>2, <2>1, FS_Subset
<1>5. QED
  BY <1>1, <1>3, <1>4 DEF Counted

\* A payload reads its counters one by one while category counts move from
\* bucket to bucket.  However the moves fall between the reads, the buckets it
\* shows add up to no more than the category counts that were ever opened, and
\* to no fewer than those that stayed where they were meanwhile: a move takes
\* its 1 off the old bucket before it adds it to the new one, so no category
\* count is read twice (_counters.py:229-246, _registry.py:327-346).
THEOREM PayloadsCount == Spec => []PayloadCounts
<1> DEFINE I == Inv /\ SnapType /\ orphaned \in BOOLEAN /\ SnapInv
<1>1. Init => I
  BY InitShape, InitExact, InitSnap DEF Inv, Init
<1>2. I /\ [Next]_vars => I'
  <2>1. SUFFICES ASSUME I, [Next]_vars PROVE I'
    OBVIOUS
  <2>2. orphaned' \in BOOLEAN
    BY <2>1 DEF Next, Use, Payload, vars, OpenCategory, CloseUnset, Close, SetCategory, Leave,
                Dec, Enter, Inc, Clear, BeginPayload, ReadCounter, EndPayload
  <2>3. QED
    BY <2>1, <2>2, StepShape, StepValueType, StepExact, StepSnapType, StepSnap DEF Inv
<1>3. I => PayloadCounts
  BY PayloadExact DEF Inv, SnapInv, PayloadCounts
<1>4. QED
  BY <1>1, <1>2, <1>3, PTL DEF Spec

------------------------------------------------------------------------------
(* Counters.  The names it shares with Categories are the same parameters   *)
(* here; what Categories calls Free, the holder of a free lock, is not what *)
(* a thread in no call is calling.                                          *)

CONSTANTS Lang, Plain, NoKey, SelfAgg, PartAgg, ByHand, HandValues, Amounts, MaxFinite, Unread,
          NoCall

VARIABLES lang, contribution, todo, goal, seen, byHand, overflown

L == INSTANCE Counters WITH Free <- NoCall

\* TypeOK, with the updates of a call as a sequence.
Types ==
    /\ lang \in Lang
    /\ value \in [L!Key -> L!Number]
    /\ life \in [L!Agg -> {"unborn", "open", "closed"}]
    /\ contribution \in [PartAgg -> L!Finite]
    /\ current \in [CatAgg -> L!Key \cup {NoKey}]
    /\ busy \in [Thread -> L!Agg \cup {ByHand, NoCall}]
    /\ todo \in [Thread -> Seq(L!Update)]
    /\ goal \in [Thread -> L!Key \cup {NoKey} \cup L!Finite]
    /\ seen \in [Thread -> L!Number \cup {Unread}]
    /\ byHand \in [L!Key -> Int]
    /\ overflown \subseteq L!Key

\* The calls a thread can be in, by the class of what it calls.
OfNone(t) == busy[t] = NoCall /\ todo[t] = <<>>

OfHand(t) == busy[t] = ByHand /\ \E u \in L!Update : todo[t] = <<u>>

OfSelf(t) ==
    /\ busy[t] \in SelfAgg
    /\ \/ life[busy[t]] = "unborn" /\ todo[t] = <<L!Add(Plain, 1)>>
       \/ life[busy[t]] = "closed" /\ todo[t] = <<L!Add(Plain, -1)>>

OfPart(t) ==
    /\ busy[t] \in PartAgg /\ goal[t] \in L!Finite /\ life[busy[t]] # "unborn"
    /\ goal[t] - contribution[busy[t]] \in L!Finite
    /\ todo[t] = <<L!Add(Plain, goal[t] - contribution[busy[t]])>>

Leaves(t) ==
    /\ current[busy[t]] \in L!Key /\ goal[t] = NoKey
    /\ todo[t] = <<L!Add(current[busy[t]], -1)>>

Changes(t) ==
    /\ current[busy[t]] \in L!Key /\ goal[t] \in L!Key
    /\ todo[t] = <<L!Add(current[busy[t]], -1), L!Add(goal[t], 1)>>

Enters(t) ==
    /\ goal[t] \in L!Key
    /\ todo[t] = <<L!Add(goal[t], 1)>>

OfCat(t) ==
    /\ busy[t] \in CatAgg /\ life[busy[t]] # "unborn"
    /\ Leaves(t) \/ Changes(t) \/ Enters(t)

InSomeCall(t) == OfNone(t) \/ OfHand(t) \/ OfSelf(t) \/ OfPart(t) \/ OfCat(t)

CallInv == \A t \in Thread : InSomeCall(t)

\* An aggregate is in one call at a time.
OneCall == \A t, u \in Thread : busy[t] \in L!Agg /\ busy[u] = busy[t] => u = t

\* A number is loaded only for an update that is still to be made.
SeenInv == \A t \in Thread : todo[t] = <<>> => seen[t] = Unread

\* What is not open holds nothing, or its last call withdraws it.
ClosedPart(a) ==
    life[a] # "open" =>
        /\ (\A t \in Thread : busy[t] # a) => contribution[a] = 0
        /\ \A t \in Thread : busy[t] = a => goal[t] = 0

ClosedCat(a) ==
    life[a] # "open" =>
        /\ (\A t \in Thread : busy[t] # a) => current[a] = NoKey
        /\ \A t \in Thread : busy[t] = a => goal[t] = NoKey

ClosedInv ==
    lang # "js" => (\A a \in PartAgg : ClosedPart(a)) /\ (\A a \in CatAgg : ClosedCat(a))

\* The number of a counter, whatever calls are under way: a self count counts
\* from the update its constructor makes to the one close() makes, a category
\* count from its entry to the update that leaves.
InCall(a) == \E t \in Thread : busy[t] = a
SelfIn == {a \in SelfAgg : life[a] = IF InCall(a) THEN "closed" ELSE "open"}
Inside(a) == \A t \in Thread : busy[t] = a => Head(todo[t]).arg = -1
CatIn(k) == {a \in CatAgg : current[a] = k /\ Inside(a)}

\* The share of a counter that the aggregates hold; the rest is by hand.
OfPlain == Cardinality(SelfIn) + Total(contribution, PartAgg)
Share(k) == (IF k = Plain THEN OfPlain ELSE 0) + Cardinality(CatIn(k))
Balance == \A k \in L!Key \ overflown : value[k] \in L!Finite /\ value[k] = byHand[k] + Share(k)

LedgerShape == Types /\ CallInv /\ OneCall /\ SeenInv
LedgerInv == LedgerShape /\ ClosedInv /\ Balance

LEMMA FiniteAgg == ASSUME L!LedgerConstants PROVE IsFiniteSet(L!Agg)
BY DEF L!LedgerConstants, L!IsFiniteSet, IsFiniteSet

LEMMA One ==
    ASSUME L!LedgerConstants
    PROVE  /\ -1 \in L!Finite
           /\ 1 \in L!Finite
           /\ 0 \in L!Finite
           /\ L!Finite \subseteq Int
           /\ L!Finite \subseteq L!Number
           /\ L!Number \subseteq Int
BY DEF L!Finite, L!Number, L!LedgerConstants

LEMMA AddUpdate ==
    ASSUME L!LedgerConstants, NEW k \in L!Key, NEW d \in L!Finite
    PROVE  L!Add(k, d) \in L!Update
BY DEF L!Add, L!Update

\* Of short sequences.
LEMMA OneLong ==
    ASSUME L!LedgerConstants, NEW x
    PROVE  Head(<<x>>) = x /\ Tail(<<x>>) = <<>> /\ Len(<<x>>) = 1 /\ <<x>> # <<>>
OBVIOUS
LEMMA TwoLong ==
    ASSUME L!LedgerConstants, NEW x, NEW y
    PROVE  Head(<<x, y>>) = x /\ Tail(<<x, y>>) = <<y>> /\ Len(<<x, y>>) = 2 /\ <<x, y>> # <<>>
OBVIOUS

LEMMA TypeOf == ASSUME L!LedgerConstants, LedgerShape PROVE L!TypeOK
<1>1. \A t \in Thread : /\ Len(todo[t]) \in 0..2
                         /\ \A i \in DOMAIN todo[t] : todo[t][i] \in L!Update
  <2>1. TAKE t \in Thread
  <2>2. todo[t] \in Seq(L!Update)
    BY DEF LedgerShape, Types
  <2>3. \A i \in DOMAIN todo[t] : todo[t][i] \in L!Update
    BY <2>2
  <2>4. \/ todo[t] = <<>> \/ (\E x : todo[t] = <<x>>) \/ \E x, y : todo[t] = <<x, y>>
    BY DEF LedgerShape, CallInv, InSomeCall, OfNone, OfHand, OfSelf, OfPart, OfCat, Leaves, Changes,
       Enters
  <2>5. Len(todo[t]) \in 0..2
    <3>1. CASE todo[t] = <<>>
      BY <3>1
    <3>2. CASE \E x : todo[t] = <<x>>
      BY <3>2, OneLong
    <3>3. CASE \E x, y : todo[t] = <<x, y>>
      BY <3>3, TwoLong
    <3>4. QED
      BY <2>4, <3>1, <3>2, <3>3
  <2>6. QED
    BY <2>3, <2>5
<1>2. \A t \in Thread : todo[t] = <<>> <=> busy[t] = NoCall
  <2>1. TAKE t \in Thread
  <2>2. InSomeCall(t)
    BY DEF LedgerShape, CallInv
  <2>3. CASE OfNone(t)
    BY <2>3 DEF OfNone
  <2>4. CASE ~OfNone(t)
    <3>1. busy[t] \in L!Agg \cup {ByHand}
      BY <2>2, <2>4 DEF InSomeCall, OfHand, OfSelf, OfPart, OfCat, L!Agg
    <3>2. busy[t] # NoCall
      BY <3>1 DEF L!LedgerConstants
    <3>3. (\E x : todo[t] = <<x>>) \/ \E x, y : todo[t] = <<x, y>>
      BY <2>2, <2>4 DEF InSomeCall, OfHand, OfSelf, OfPart, OfCat, Leaves, Changes, Enters
    <3>4. todo[t] # <<>>
      BY <3>3, OneLong, TwoLong
    <3>5. QED
      BY <3>2, <3>4
  <2>5. QED
    BY <2>3, <2>4
<1>3. \A t \in Thread : goal[t] = NoKey \/ goal[t] \in L!Key \/ goal[t] \in L!Finite
  BY DEF LedgerShape, Types
<1>4. \A t \in Thread : seen[t] = Unread \/ seen[t] \in L!Number
  BY DEF LedgerShape, Types
<1>5. QED
  BY <1>1, <1>2, <1>3, <1>4 DEF L!TypeOK, LedgerShape, Types

LEMMA Initially == ASSUME L!LedgerConstants, L!Init PROVE LedgerInv
<1>1. Types
  <2>1. <<>> \in Seq(L!Update)
    OBVIOUS
  <2>2. 0 \in L!Finite /\ 0 \in L!Number
    BY One
  <2>3. QED
    BY <2>1, <2>2 DEF L!Init, Types
<1>2. CallInv
  BY DEF L!Init, CallInv, InSomeCall, OfNone
<1>3. OneCall /\ SeenInv
  BY DEF L!Init, OneCall, SeenInv, L!LedgerConstants
<1>4. ClosedInv
  BY DEF L!Init, ClosedInv, ClosedPart, ClosedCat, L!Agg, L!LedgerConstants
<1>5. Balance
  <2>1. SelfIn = {}
    BY DEF L!Init, SelfIn, InCall, L!Agg, L!LedgerConstants
  <2>2. Total(contribution, PartAgg) = 0
    <3>1. IsFiniteSet(PartAgg)
      BY FiniteAgg, FS_Subset DEF L!Agg
    <3>2. \A a \in PartAgg : contribution[a] = 0
      BY DEF L!Init
    <3>3. Total(contribution, {}) = Total(contribution, PartAgg)
      BY <3>1, <3>2, TotalWithout
    <3>4. QED
      BY <3>3, TotalEmpty
  <2>3. \A k \in L!Key : CatIn(k) = {}
    BY DEF L!Init, CatIn, L!LedgerConstants
  <2>4. Cardinality({}) = 0
    BY FS_EmptySet
  <2>5. \A k \in L!Key : Share(k) = 0
    BY <2>1, <2>2, <2>3, <2>4 DEF Share, OfPlain
  <2>6. QED
    BY <2>5, One DEF Balance, L!Init
<1>6. QED
  BY <1>1, <1>2, <1>3, <1>4, <1>5 DEF LedgerInv, LedgerShape

\* A call that a step leaves alone goes on as it was.
LEMMA CallKept ==
    ASSUME L!LedgerConstants, NEW u \in Thread, InSomeCall(u),
           busy'[u] = busy[u], todo'[u] = todo[u], goal'[u] = goal[u],
           busy[u] \in PartAgg => contribution'[busy[u]] = contribution[busy[u]],
           busy[u] \in CatAgg => current'[busy[u]] = current[busy[u]],
           busy[u] \in L!Agg => life'[busy[u]] = life[busy[u]]
    PROVE  InSomeCall(u)'
<1>1. CASE OfNone(u)
  BY <1>1 DEF InSomeCall, OfNone
<1>2. CASE OfHand(u)
  BY <1>2 DEF InSomeCall, OfHand
<1>3. CASE OfSelf(u)
  BY <1>3 DEF InSomeCall, OfSelf, L!Agg
<1>4. CASE OfPart(u)
  BY <1>4 DEF InSomeCall, OfPart, L!Agg
<1>5. CASE OfCat(u)
  BY <1>5 DEF InSomeCall, OfCat, L!Agg, Leaves, Changes, Enters
<1>6. QED
  BY <1>1, <1>2, <1>3, <1>4, <1>5 DEF InSomeCall

\* What loading and storing come to: an update made whole, or a look.
Look(t) ==
    /\ todo[t] # <<>>
    /\ \E x \in L!Number \cup {Unread} : seen' = [seen EXCEPT ![t] = x]
    /\ UNCHANGED <<lang, value, L!aggVars, busy, todo, goal, byHand, overflown>>

LEMMA HeadUpdate ==
    ASSUME L!LedgerConstants, LedgerShape, NEW t \in Thread, todo[t] # <<>>
    PROVE  Head(todo[t]) \in L!Update
BY DEF LedgerShape, Types

LEMMA Updated ==
    ASSUME L!LedgerConstants, LedgerShape, NEW t \in Thread,
           L!PyUpdate(t) \/ L!JsUpdate(t) \/ L!GoUpdate(t) \/ L!NetUpdate(t)
    PROVE  todo[t] # <<>> /\ (L!Whole(t) \/ Look(t))
<1>1. todo[t] # <<>>
  BY DEF L!PyUpdate, L!JsUpdate, L!GoUpdate, L!NetUpdate
<1>2. value[Head(todo[t]).key] \in L!Number
  BY <1>1, HeadUpdate DEF L!Update, LedgerShape, Types
<1>3. CASE L!Load(t)
  BY <1>1, <1>2, <1>3 DEF L!Load, Look
<1>4. CASE L!Swap(t)
  BY <1>1, <1>4 DEF L!Swap, Look, L!Whole
<1>5. QED
  BY <1>1, <1>3, <1>4 DEF L!PyUpdate, L!JsUpdate, L!GoUpdate, L!NetUpdate

LEMMA EffectNumber ==
    ASSUME L!LedgerConstants, NEW u \in L!Update, NEW x \in L!Number
    PROVE  L!Effect(u, x) \in L!Number
<1>1. L!Plus(x, u.arg) \in L!Number
  BY DEF L!Plus, L!Infinite, L!Number, L!Finite, L!Update, L!LedgerConstants
<1>2. u.arg \in L!Number
  BY One DEF L!Update
<1>3. u.op \in {"add", "set", "max", "min"}
  BY DEF L!Update
<1>4. QED
  BY <1>1, <1>2, <1>3 DEF L!Effect

\* What an update does, whoever makes it.
LEMMA WholeStep ==
    ASSUME L!LedgerConstants, LedgerShape, NEW t \in Thread, todo[t] # <<>>, L!Whole(t)
    PROVE  LET u == Head(todo[t])
               x == L!Effect(u, value[u.key])
           IN /\ u \in L!Update /\ x \in L!Number
              /\ value' = [value EXCEPT ![u.key] = x]
              /\ overflown' = IF L!Infinite(x) THEN overflown \cup {u.key} ELSE overflown
              /\ byHand' = IF u.key \in overflown' THEN [byHand EXCEPT ![u.key] = 0]
                           ELSE IF busy[t] = ByHand
                           THEN [byHand EXCEPT ![u.key] = @ + x - value[u.key]]
                           ELSE byHand
              /\ todo' = [todo EXCEPT ![t] = Tail(@)]
              /\ seen' = [seen EXCEPT ![t] = Unread]
              /\ UNCHANGED lang
<1>1. Head(todo[t]) \in L!Update
  BY HeadUpdate
<1>2. value[Head(todo[t]).key] \in L!Number
  BY <1>1 DEF L!Update, LedgerShape, Types
<1>3. L!Effect(Head(todo[t]), value[Head(todo[t]).key]) \in L!Number
  BY <1>1, <1>2, EffectNumber
<1>4. QED
  BY <1>1, <1>3 DEF L!Whole, L!Store

LEMMA WholeTypes ==
    ASSUME L!LedgerConstants, LedgerShape, NEW t \in Thread, todo[t] # <<>>, L!Whole(t)
    PROVE  /\ lang' \in Lang /\ value' \in [L!Key -> L!Number] /\ overflown' \subseteq L!Key
           /\ byHand' \in [L!Key -> Int]
           /\ seen' \in [Thread -> L!Number \cup {Unread}]
           /\ todo' \in [Thread -> Seq(L!Update)]
<1> DEFINE u == Head(todo[t])
           x == L!Effect(u, value[u.key])
<1>1. /\ u \in L!Update /\ x \in L!Number
      /\ value' = [value EXCEPT ![u.key] = x]
      /\ overflown' = IF L!Infinite(x) THEN overflown \cup {u.key} ELSE overflown
      /\ byHand' = IF u.key \in overflown' THEN [byHand EXCEPT ![u.key] = 0]
                   ELSE IF busy[t] = ByHand
                   THEN [byHand EXCEPT ![u.key] = @ + x - value[u.key]]
                   ELSE byHand
      /\ todo' = [todo EXCEPT ![t] = Tail(@)]
      /\ seen' = [seen EXCEPT ![t] = Unread]
      /\ UNCHANGED lang
  BY WholeStep
<1> HIDE DEF u, x
<1>2. u.key \in L!Key
  BY <1>1 DEF L!Update
<1>3. lang' \in Lang /\ value' \in [L!Key -> L!Number] /\ overflown' \subseteq L!Key
  BY <1>1, <1>2 DEF LedgerShape, Types
<1>4. byHand' \in [L!Key -> Int]
  <2>1. value[u.key] \in Int /\ x \in Int /\ byHand[u.key] \in Int /\ byHand \in [L!Key -> Int]
    BY <1>1, <1>2, One DEF LedgerShape, Types
  <2>2. byHand[u.key] + x - value[u.key] \in Int
    BY <2>1
  <2>3. QED
    BY <1>1, <1>2, <2>1, <2>2
<1>5. seen' \in [Thread -> L!Number \cup {Unread}]
  BY <1>1 DEF LedgerShape, Types
<1>6. todo' \in [Thread -> Seq(L!Update)]
  <2>1. todo[t] \in Seq(L!Update) /\ todo \in [Thread -> Seq(L!Update)]
    BY DEF LedgerShape, Types
  <2>2. Tail(todo[t]) \in Seq(L!Update)
    BY <2>1
  <2>3. QED
    BY <1>1, <2>1, <2>2
<1>7. QED
  BY <1>3, <1>4, <1>5, <1>6

LEMMA WholeCount ==
    ASSUME L!LedgerConstants, NEW t \in Thread, L!Whole(t)
    PROVE  IF Len(todo[t]) = 1 THEN L!Finish(t) ELSE UNCHANGED <<busy, goal, L!aggVars>>
BY DEF L!Whole, L!Store

\* The last update of a call, by the class of what was called.
LEMMA LastStep ==
    ASSUME L!LedgerConstants, LedgerShape, NEW t \in Thread, L!Whole(t), NEW u, todo[t] = <<u>>
    PROVE  /\ L!Finish(t)
           /\ todo' = [todo EXCEPT ![t] = <<>>]
           /\ seen' = [seen EXCEPT ![t] = Unread]
           /\ UNCHANGED lang
<1>1. Head(todo[t]) = u /\ Tail(todo[t]) = <<>> /\ Len(todo[t]) = 1 /\ todo[t] # <<>>
  BY OneLong
<1>2. L!Finish(t)
  BY <1>1, WholeCount
<1>3. todo' = [todo EXCEPT ![t] = Tail(@)] /\ seen' = [seen EXCEPT ![t] = Unread] /\ lang' = lang
  BY <1>1, WholeStep
<1>4. QED
  BY <1>1, <1>2, <1>3

LEMMA FinishOther ==
    ASSUME L!LedgerConstants, LedgerShape, NEW t \in Thread, NEW u, todo[t] = <<u>>,
           busy[t] \in L!Agg \cup {ByHand}, L!Finish(t),
           todo' = [todo EXCEPT ![t] = <<>>],
           NEW v \in Thread, v # t
    PROVE  InSomeCall(v)'
<1>1. InSomeCall(v) /\ OneCall
  BY DEF LedgerShape, CallInv
<1>2. busy[v] \in L!Agg => busy[v] # busy[t]
  BY <1>1 DEF OneCall
<1>3. busy'[v] = busy[v] /\ todo'[v] = todo[v] /\ goal'[v] = goal[v]
  BY DEF L!Finish, LedgerShape, Types
<1>4. busy[v] \in PartAgg => contribution'[busy[v]] = contribution[busy[v]]
  BY <1>2 DEF L!Finish, LedgerShape, Types, L!Agg
<1>5. busy[v] \in CatAgg => current'[busy[v]] = current[busy[v]]
  BY <1>2 DEF L!Finish, LedgerShape, Types, L!Agg
<1>6. busy[v] \in L!Agg => life'[busy[v]] = life[busy[v]]
  BY <1>2 DEF L!Finish, LedgerShape, Types
<1>7. QED
  BY <1>1, <1>3, <1>4, <1>5, <1>6, CallKept

LEMMA InCallAgg ==
    ASSUME L!LedgerConstants, LedgerShape, NEW t \in Thread, todo[t] # <<>>
    PROVE  busy[t] \in L!Agg \cup {ByHand} /\ ~OfNone(t) /\ busy[t] # NoCall
<1>1. InSomeCall(t)
  BY DEF LedgerShape, CallInv
<1>2. ~OfNone(t)
  BY DEF OfNone
<1>3. busy[t] \in L!Agg \cup {ByHand}
  BY <1>1, <1>2 DEF InSomeCall, OfHand, OfSelf, OfPart, OfCat, L!Agg
<1>4. QED
  BY <1>2, <1>3 DEF L!LedgerConstants

LEMMA FinishShape ==
    ASSUME L!LedgerConstants, LedgerShape, NEW t \in Thread, NEW u, todo[t] = <<u>>, L!Whole(t)
    PROVE  LedgerShape'
<1>1. /\ L!Finish(t)
      /\ todo' = [todo EXCEPT ![t] = <<>>]
      /\ seen' = [seen EXCEPT ![t] = Unread]
      /\ UNCHANGED lang
  BY LastStep
<1>2. busy[t] \in L!Agg \cup {ByHand} /\ ~OfNone(t) /\ InSomeCall(t)
  BY InCallAgg, OneLong DEF LedgerShape, CallInv
<1>3. Types'
  <2>1. lang' \in Lang /\ value' \in [L!Key -> L!Number] /\ overflown' \subseteq L!Key
    BY WholeTypes, OneLong
  <2>2. busy' \in [Thread -> L!Agg \cup {ByHand, NoCall}]
    BY <1>1 DEF L!Finish, LedgerShape, Types
  <2>3. goal' \in [Thread -> L!Key \cup {NoKey} \cup L!Finite]
    BY <1>1 DEF L!Finish, LedgerShape, Types
  <2>4. life' \in [L!Agg -> {"unborn", "open", "closed"}]
    BY <1>1 DEF L!Finish, LedgerShape, Types
  <2>5. contribution' \in [PartAgg -> L!Finite]
    <3>1. busy[t] \in PartAgg => goal[t] \in L!Finite
      BY <1>2 DEF InSomeCall, OfHand, OfSelf, OfPart, OfCat, L!Agg, L!LedgerConstants
    <3>2. QED
      BY <1>1, <3>1 DEF L!Finish, LedgerShape, Types
  <2>6. current' \in [CatAgg -> L!Key \cup {NoKey}]
    <3>1. busy[t] \in CatAgg => goal[t] \in L!Key \cup {NoKey}
      BY <1>2 DEF InSomeCall, OfHand, OfSelf, OfPart, OfCat, L!Agg, Leaves, Changes, Enters,
         L!LedgerConstants
    <3>2. QED
      BY <1>1, <3>1 DEF L!Finish, LedgerShape, Types
  <2>7. /\ todo' \in [Thread -> Seq(L!Update)]
        /\ seen' \in [Thread -> L!Number \cup {Unread}]
        /\ byHand' \in [L!Key -> Int]
    BY WholeTypes, OneLong
  <2>8. QED
    BY <2>1, <2>2, <2>3, <2>4, <2>5, <2>6, <2>7 DEF Types
<1>4. CallInv'
  <2>1. InSomeCall(t)'
    BY <1>1 DEF L!Finish, InSomeCall, OfNone, LedgerShape, Types
  <2>2. \A v \in Thread \ {t} : InSomeCall(v)'
    BY <1>1, <1>2, FinishOther
  <2>3. QED
    BY <2>1, <2>2 DEF CallInv
<1>5. OneCall'
  BY <1>1 DEF L!Finish, OneCall, LedgerShape, Types, L!LedgerConstants
<1>6. SeenInv'
  BY <1>1 DEF SeenInv, LedgerShape, Types
<1>7. QED
  BY <1>3, <1>4, <1>5, <1>6 DEF LedgerShape

\* The first of two updates: a category count leaves the bucket it held.
LEMMA FirstShape ==
    ASSUME L!LedgerConstants, LedgerShape, NEW t \in Thread, OfCat(t), Changes(t), L!Whole(t)
    PROVE  /\ LedgerShape' /\ OfCat(t)' /\ Enters(t)'
           /\ todo' = [todo EXCEPT ![t] = <<L!Add(goal[t], 1)>>]
           /\ UNCHANGED <<lang, busy, goal, L!aggVars>>
<1>1. todo[t] = <<L!Add(current[busy[t]], -1), L!Add(goal[t], 1)>>
  BY DEF Changes
<1>2. /\ todo' = [todo EXCEPT ![t] = <<L!Add(goal[t], 1)>>]
      /\ UNCHANGED <<lang, busy, goal, L!aggVars>>
      /\ seen' = [seen EXCEPT ![t] = Unread]
  <2>1. todo[t] # <<>> /\ Len(todo[t]) # 1 /\ Tail(todo[t]) = <<L!Add(goal[t], 1)>>
    BY <1>1, TwoLong
  <2>2. QED
    BY <2>1, WholeStep, WholeCount
<1>3. Types'
  BY <1>1, <1>2, TwoLong, WholeTypes DEF LedgerShape, Types, L!aggVars
<1>4. OfCat(t)' /\ Enters(t)'
  BY <1>2 DEF OfCat, Changes, Enters, L!aggVars, LedgerShape, Types
<1>5. CallInv'
  <2>1. \A v \in Thread \ {t} : InSomeCall(v)'
    BY <1>2, CallKept DEF LedgerShape, CallInv, Types, L!aggVars
  <2>2. QED
    BY <1>4, <2>1 DEF CallInv, InSomeCall
<1>6. OneCall'
  BY <1>2 DEF LedgerShape, OneCall
<1>7. SeenInv'
  BY <1>2 DEF LedgerShape, SeenInv, Types
<1>8. QED
  BY <1>2, <1>3, <1>4, <1>5, <1>6, <1>7 DEF LedgerShape

LEMMA WholeShape ==
    ASSUME L!LedgerConstants, LedgerShape, NEW t \in Thread, todo[t] # <<>>, L!Whole(t)
    PROVE  LedgerShape'
<1>1. InSomeCall(t) /\ ~OfNone(t)
  BY InCallAgg DEF LedgerShape, CallInv
<1>2. CASE \E u : todo[t] = <<u>>
  BY <1>2, FinishShape
<1>3. CASE OfCat(t) /\ Changes(t)
  BY <1>3, FirstShape
<1>4. QED
  BY <1>1, <1>2, <1>3 DEF InSomeCall, OfHand, OfSelf, OfPart, OfCat, Leaves, Enters

LEMMA LookShape ==
    ASSUME L!LedgerConstants, LedgerShape, NEW t \in Thread, Look(t)
    PROVE  LedgerShape'
<1>1. Types'
  BY DEF Look, LedgerShape, Types, L!aggVars
<1>2. CallInv'
  BY CallKept DEF Look, LedgerShape, CallInv, L!aggVars
<1>3. OneCall'
  BY DEF Look, LedgerShape, OneCall
<1>4. SeenInv'
  BY DEF Look, LedgerShape, SeenInv, Types
<1>5. QED
  BY <1>1, <1>2, <1>3, <1>4 DEF LedgerShape

\* A call begins.
LEMMA EnterShape ==
    ASSUME L!LedgerConstants, LedgerShape, NEW t \in Thread, NEW a \in L!Agg \cup {ByHand},
           NEW us \in Seq(L!Update), us # <<>>,
           NEW g \in L!Key \cup {NoKey} \cup L!Finite,
           L!Enter(t, a, us, g), life' \in [L!Agg -> {"unborn", "open", "closed"}],
           \A b \in L!Agg \ {a} : life'[b] = life[b],
           InSomeCall(t)'
    PROVE  LedgerShape'
<1>1. /\ busy' = [busy EXCEPT ![t] = a]
      /\ todo' = [todo EXCEPT ![t] = us]
      /\ goal' = [goal EXCEPT ![t] = g]
      /\ UNCHANGED <<lang, value, contribution, current, seen, byHand, overflown>>
  BY DEF L!Enter
<1>2. \A v \in Thread : a \in L!Agg => busy[v] # a
  BY DEF L!Enter, L!Idle, L!Agg, L!LedgerConstants
<1>3. Types'
  BY <1>1 DEF LedgerShape, Types
<1>4. CallInv'
  <2>1. ASSUME NEW v \in Thread \ {t} PROVE InSomeCall(v)'
    <3>1. InSomeCall(v)
      BY DEF LedgerShape, CallInv
    <3>2. busy[v] \in L!Agg => life'[busy[v]] = life[busy[v]]
      BY <1>2
    <3>3. busy'[v] = busy[v] /\ todo'[v] = todo[v] /\ goal'[v] = goal[v]
      BY <1>1 DEF LedgerShape, Types
    <3>4. QED
      BY <1>1, <3>1, <3>2, <3>3, CallKept
  <2>2. QED
    BY <2>1 DEF CallInv
<1>5. OneCall'
  BY <1>1, <1>2 DEF OneCall, LedgerShape, Types
<1>6. SeenInv'
  BY <1>1 DEF SeenInv, LedgerShape, Types
<1>7. QED
  BY <1>3, <1>4, <1>5, <1>6 DEF LedgerShape

LEMMA HandShape ==
    ASSUME L!LedgerConstants, LedgerShape, NEW t \in Thread, NEW u \in L!UpdatesByHand,
           L!CallByHand(t, u)
    PROVE  LedgerShape'
<1>1. u \in L!Update /\ <<u>> \in Seq(L!Update) /\ <<u>> # <<>>
  BY DEF L!UpdatesByHand, L!Update, L!Key, L!LedgerConstants
<1>2. InSomeCall(t)'
  BY <1>1 DEF InSomeCall, OfHand, L!CallByHand, L!Enter, LedgerShape, Types
<1>3. QED
  BY <1>1, <1>2, EnterShape DEF L!CallByHand, LedgerShape, Types

LEMMA SelfShape ==
    ASSUME L!LedgerConstants, LedgerShape, NEW t \in Thread, NEW a \in SelfAgg, L!OpenSelf(t,
           a) \/ L!CloseSelf(t, a)
    PROVE  LedgerShape'
<1>1. /\ L!Add(Plain, 1) \in L!Update /\ <<L!Add(Plain, 1)>> \in Seq(L!Update)
      /\ L!Add(Plain, -1) \in L!Update /\ <<L!Add(Plain, -1)>> \in Seq(L!Update)
  BY One, AddUpdate DEF L!Key
<1>2. CASE L!OpenSelf(t, a)
  <2>1. InSomeCall(t)'
    BY <1>2 DEF InSomeCall, OfSelf, L!OpenSelf, L!Enter, LedgerShape, Types
  <2>2. QED
    BY <1>1, <1>2, <2>1, EnterShape, OneLong DEF L!OpenSelf, LedgerShape, Types, L!Agg
<1>3. CASE L!CloseSelf(t, a)
  <2>1. InSomeCall(t)'
    BY <1>3 DEF InSomeCall, OfSelf, L!CloseSelf, L!Enter, LedgerShape, Types, L!Agg
  <2>2. QED
    BY <1>1, <1>3, <2>1, EnterShape, OneLong DEF L!CloseSelf, LedgerShape, Types, L!Agg
<1>4. QED
  BY <1>2, <1>3

LEMMA PartShape ==
    ASSUME L!LedgerConstants, LedgerShape, NEW t \in Thread, NEW a \in PartAgg,
           NEW v \in L!Finite,
           life[a] # "unborn", v - contribution[a] \in L!Finite,
           L!Enter(t, a, <<L!Add(Plain, v - contribution[a])>>, v),
           life' \in [L!Agg -> {"unborn", "open", "closed"}],
           \A b \in L!Agg \ {a} : life'[b] = life[b], life'[a] # "unborn"
    PROVE  LedgerShape'
<1>1. <<L!Add(Plain, v - contribution[a])>> \in Seq(L!Update)
  BY AddUpdate DEF L!Key
<1>2. InSomeCall(t)'
  BY DEF InSomeCall, OfPart, L!Enter, LedgerShape, Types
<1>3. QED
  BY <1>1, <1>2, EnterShape, OneLong DEF L!Agg

LEMMA MovePartShape ==
    ASSUME L!LedgerConstants, LedgerShape, NEW t \in Thread, NEW a \in PartAgg, NEW v \in Amounts,
           life[a] # "unborn", L!MovePart(t, a, v)
    PROVE  LedgerShape'
<1>1. v \in L!Finite /\ v - contribution[a] \in L!Finite
  BY DEF L!MovePart, L!Infinite, L!LedgerConstants
<1>2. life' = life
  BY DEF L!MovePart
<1>3. QED
  BY <1>1, <1>2, PartShape DEF L!MovePart, LedgerShape, Types, L!Agg

LEMMA ClosePartShape ==
    ASSUME L!LedgerConstants, LedgerShape, NEW t \in Thread, NEW a \in PartAgg, L!ClosePart(t, a)
    PROVE  LedgerShape'
<1>1. contribution[a] \in L!Finite /\ 0 - contribution[a] = -contribution[a]
  <2>1. contribution[a] \in L!Finite
    BY DEF LedgerShape, Types
  <2>2. contribution[a] \in Int
    BY <2>1, One
  <2>3. QED
    BY <2>1, <2>2
<1>2. 0 \in L!Finite /\ 0 - contribution[a] \in L!Finite
  BY <1>1 DEF L!Finite, L!LedgerConstants
<1>3. life' = [life EXCEPT ![a] = "closed"]
  BY DEF L!ClosePart
<1>4. L!Enter(t, a, <<L!Add(Plain, 0 - contribution[a])>>, 0)
  BY <1>1 DEF L!ClosePart
<1>5. life[a] # "unborn"
  BY DEF L!ClosePart
<1>6. QED
  BY <1>2, <1>3, <1>4, <1>5, PartShape DEF LedgerShape, Types, L!Agg

\* Joining one-element sequences.
LEMMA JoinOnes ==
    ASSUME L!LedgerConstants, NEW S, NEW x \in S, NEW y \in S
    PROVE  <<x>> \o <<y>> = <<x, y>>
<1>1. <<x>> \in Seq(S) /\ <<y>> \in Seq(S) /\ <<x, y>> \in Seq(S)
  OBVIOUS
<1>2. /\ Len(<<x>>) = 1 /\ Len(<<y>>) = 1 /\ Len(<<x, y>>) = 2
  OBVIOUS
<1>3. <<x>> \o <<y>> \in Seq(S) /\ Len(<<x>> \o <<y>>) = 2
  BY <1>1, <1>2, ConcatProperties
<1>4. (<<x>> \o <<y>>)[1] = x /\ (<<x>> \o <<y>>)[2] = y
  BY <1>1, <1>2, ConcatProperties
<1>5. <<x, y>>[1] = x /\ <<x, y>>[2] = y
  OBVIOUS
<1> DEFINE s == <<x>> \o <<y>>
           p == <<x, y>>
<1>6. s \in Seq(S) /\ p \in Seq(S) /\ Len(s) = 2 /\ Len(p) = 2 /\ s[1] = p[1] /\ s[2] = p[2]
  BY <1>1, <1>2, <1>3, <1>4, <1>5
<1> HIDE DEF s, p
<1>7. \A i \in 1..Len(s) : s[i] = p[i]
  BY <1>6
<1>8. s = p
  BY <1>6, <1>7, SeqEqual
<1>9. QED
  BY <1>8 DEF s, p

LEMMA JoinNone ==
    ASSUME L!LedgerConstants, NEW S, NEW x \in S
    PROVE  <<>> \o <<x>> = <<x>> /\ <<x>> \o <<>> = <<x>>
<1>1. <<x>> \in Seq(S)
  OBVIOUS
<1>5. QED
  BY <1>1, ConcatEmptySeq

\* The updates of a category count that moves to b.
Updates(a, b) ==
    (IF current[a] = NoKey THEN <<>> ELSE <<L!Add(current[a], -1)>>)
    \o (IF b = NoKey THEN <<>> ELSE <<L!Add(b, 1)>>)

LEMMA UpdatesOf ==
    ASSUME L!LedgerConstants, LedgerShape, NEW a \in CatAgg, NEW b \in L!Key \cup {NoKey},
           b # current[a]
    PROVE  /\ Updates(a, b) \in Seq(L!Update) /\ Updates(a, b) # <<>>
           /\ current[a] = NoKey => b \in L!Key /\ Updates(a, b) = <<L!Add(b, 1)>>
           /\ b = NoKey => current[a] \in L!Key /\ Updates(a, b) = <<L!Add(current[a], -1)>>
           /\ current[a] # NoKey /\ b # NoKey =>
                 /\ current[a] \in L!Key /\ b \in L!Key
                 /\ Updates(a, b) = <<L!Add(current[a], -1), L!Add(b, 1)>>
<1>1. current[a] \in L!Key \cup {NoKey} /\ NoKey \notin L!Key
  BY DEF LedgerShape, Types, L!LedgerConstants
<1>2. \A x, y \in L!Update : /\ <<x>> \o <<y>> = <<x, y>>
                               /\ <<>> \o <<y>> = <<y>> /\ <<x>> \o <<>> = <<x>>
  BY JoinOnes, JoinNone
<1>3. CASE current[a] = NoKey
  <2>1. b \in L!Key /\ L!Add(b, 1) \in L!Update
    BY <1>3, One, AddUpdate
  <2>2. Updates(a, b) = <<L!Add(b, 1)>>
    BY <1>1, <1>2, <1>3, <2>1 DEF Updates
  <2>3. QED
    BY <1>1, <1>3, <2>1, <2>2, OneLong
<1>4. CASE current[a] # NoKey /\ b = NoKey
  <2>1. current[a] \in L!Key /\ L!Add(current[a], -1) \in L!Update
    BY <1>1, <1>4, One, AddUpdate
  <2>2. Updates(a, b) = <<L!Add(current[a], -1)>>
    BY <1>2, <1>4 DEF Updates
  <2>3. QED
    BY <1>4, <2>1, <2>2, OneLong
<1>5. CASE current[a] # NoKey /\ b # NoKey
  <2>1. /\ current[a] \in L!Key /\ L!Add(current[a], -1) \in L!Update
        /\ b \in L!Key /\ L!Add(b, 1) \in L!Update
    BY <1>1, <1>5, One, AddUpdate
  <2>2. Updates(a, b) = <<L!Add(current[a], -1)>> \o <<L!Add(b, 1)>>
    BY <1>5 DEF Updates
  <2>3. Updates(a, b) = <<L!Add(current[a], -1), L!Add(b, 1)>>
    BY <1>2, <2>1, <2>2
  <2>4. QED
    BY <1>5, <2>1, <2>3, TwoLong
<1>6. QED
  BY <1>3, <1>4, <1>5

LEMMA CatShape ==
    ASSUME L!LedgerConstants, LedgerShape, NEW t \in Thread, NEW a \in CatAgg,
           NEW b \in L!Key \cup {NoKey},
           b # current[a],
           life[a] # "unborn", L!Enter(t, a, Updates(a, b), b),
           life' \in [L!Agg -> {"unborn", "open", "closed"}],
           \A c \in L!Agg \ {a} : life'[c] = life[c], life'[a] # "unborn"
    PROVE  LedgerShape'
<1>1. Updates(a, b) \in Seq(L!Update) /\ Updates(a, b) # <<>>
  BY UpdatesOf
<1>2. busy'[t] = a /\ goal'[t] = b /\ todo'[t] = Updates(a, b) /\ current' = current
  BY DEF L!Enter, LedgerShape, Types
<1>3. current[a] \in L!Key \cup {NoKey}
  BY DEF LedgerShape, Types
<1>4. InSomeCall(t)'
  BY <1>2, <1>3, UpdatesOf DEF InSomeCall, OfCat, Leaves, Changes, Enters
<1>5. QED
  BY <1>1, <1>4, EnterShape DEF L!Agg

LEMMA MoveCategoryShape ==
    ASSUME L!LedgerConstants, LedgerShape, NEW t \in Thread, NEW a \in CatAgg,
           NEW b \in L!Key \cup {NoKey},
           life[a] # "unborn", L!MoveCategory(t, a, b)
    PROVE  LedgerShape'
<1>1. L!Enter(t, a, Updates(a, b), b) /\ b # current[a] /\ life' = life
  BY DEF L!MoveCategory, Updates
<1>2. QED
  BY <1>1, CatShape DEF LedgerShape, Types, L!Agg

LEMMA CloseCategoryShape ==
    ASSUME L!LedgerConstants, LedgerShape, NEW t \in Thread, NEW a \in CatAgg,
           L!CloseCategory(t, a)
    PROVE  LedgerShape'
<1>1. NoKey # current[a] /\ life[a] # "unborn" /\ life' = [life EXCEPT ![a] = "closed"]
  BY DEF L!CloseCategory
<1>2. Updates(a, NoKey) = <<L!Add(current[a], -1)>>
  BY <1>1, UpdatesOf
<1>3. L!Enter(t, a, Updates(a, NoKey), NoKey)
  BY <1>2 DEF L!CloseCategory
<1>4. QED
  BY <1>1, <1>3, CatShape DEF LedgerShape, Types, L!Agg

\* A part or category count is opened, or is disposed of holding nothing.
LEMMA UnsetShape ==
    ASSUME L!LedgerConstants, LedgerShape, NEW a \in PartAgg \cup CatAgg,
           L!OpenUnset(a) \/ L!CloseUnset(a)
    PROVE  LedgerShape'
<1>1. /\ life' \in [L!Agg -> {"unborn", "open", "closed"}] /\ life'[a] # "unborn"
      /\ \A b \in L!Agg \ {a} : life'[b] = life[b]
      /\ UNCHANGED <<lang, value, contribution, current, busy, todo, goal, seen, byHand, overflown>>
  BY DEF L!OpenUnset, L!CloseUnset, LedgerShape, Types, L!Agg
<1>2. Types' /\ OneCall' /\ SeenInv'
  BY <1>1 DEF LedgerShape, Types, OneCall, SeenInv
<1>3. ASSUME NEW t \in Thread PROVE InSomeCall(t)'
  <2>1. InSomeCall(t)
    BY DEF LedgerShape, CallInv
  <2>2. CASE busy[t] # a
    BY <1>1, <2>1, <2>2, CallKept
  <2>3. CASE busy[t] = a
    <3>1. OfPart(t) \/ OfCat(t)
      BY <2>1, <2>3 DEF InSomeCall, OfNone, OfHand, OfSelf, L!Agg, L!LedgerConstants
    <3>2. QED
      BY <1>1, <2>3, <3>1 DEF InSomeCall, OfPart, OfCat, Leaves, Changes, Enters
  <2>4. QED
    BY <2>2, <2>3
<1>4. QED
  BY <1>2, <1>3 DEF LedgerShape, CallInv

\* The difference that Go does not add.
LEMMA SkipShape ==
    ASSUME L!LedgerConstants, LedgerShape, NEW t \in Thread, NEW a \in PartAgg, NEW v \in Amounts,
           L!Idle(t, a),
           contribution' = [contribution EXCEPT ![a] = v],
           overflown' = overflown \cup {Plain},
           byHand' = [byHand EXCEPT ![Plain] = 0],
           UNCHANGED <<lang, value, life, current, busy, todo, goal, seen>>
    PROVE  LedgerShape'
<1>1. Types'
  BY DEF LedgerShape, Types, L!Key, L!LedgerConstants
<1>2. ASSUME NEW u \in Thread PROVE InSomeCall(u)'
  <2>1. busy[u] # a
    BY DEF L!Idle, L!Agg, L!LedgerConstants
  <2>2. QED
    BY <2>1, CallKept DEF LedgerShape, CallInv, Types
<1>3. OneCall' /\ SeenInv'
  BY DEF LedgerShape, OneCall, SeenInv
<1>4. QED
  BY <1>1, <1>2, <1>3 DEF LedgerShape, CallInv

LEMMA LedgerStep == ASSUME L!LedgerConstants, LedgerShape, [L!Next]_(L!vars) PROVE LedgerShape'
<1>1. ASSUME NEW t \in Thread, L!Call(t) PROVE LedgerShape'
  <2>1. ASSUME NEW u \in L!UpdatesByHand, L!CallByHand(t, u) PROVE LedgerShape'
    BY <2>1, HandShape
  <2>2. ASSUME NEW a \in SelfAgg, L!OpenSelf(t, a) \/ L!CloseSelf(t, a) PROVE LedgerShape'
    BY <2>2, SelfShape
  <2>3. ASSUME NEW a \in PartAgg, L!ClosePart(t, a) PROVE LedgerShape'
    BY <2>3, ClosePartShape
  <2>4. ASSUME NEW a \in PartAgg, NEW v \in Amounts,
               L!PySetPart(t, a, v) \/ L!JsSetPart(t, a, v) \/ L!NetSetPart(t, a, v)
        PROVE  LedgerShape'
    BY <2>4, MovePartShape DEF L!PySetPart, L!JsSetPart, L!NetSetPart
  <2>5. ASSUME NEW a \in PartAgg, NEW v \in Amounts, L!GoSetPart(t, a, v)
        PROVE  LedgerShape'
    BY <2>5, MovePartShape, SkipShape DEF L!GoSetPart
  <2>6. ASSUME NEW a \in CatAgg, L!CloseCategory(t, a) PROVE LedgerShape'
    BY <2>6, CloseCategoryShape
  <2>7. ASSUME NEW a \in CatAgg, NEW b \in L!Key \cup {NoKey},
               \/ L!PySetCategory(t, a, b) \/ L!JsSetCategory(t, a, b)
               \/ L!GoSetCategory(t, a, b) \/ L!NetSetCategory(t, a, b)
        PROVE  LedgerShape'
    BY <2>7, MoveCategoryShape
       DEF L!PySetCategory, L!JsSetCategory, L!GoSetCategory, L!NetSetCategory
  <2>8. QED
    BY <1>1, <2>1, <2>2, <2>3, <2>4, <2>5, <2>6, <2>7 DEF L!Call
<1>2. ASSUME NEW t \in Thread, L!PyUpdate(t) \/ L!JsUpdate(t) \/ L!GoUpdate(t) \/ L!NetUpdate(t)
      PROVE  LedgerShape'
  BY <1>2, Updated, WholeShape, LookShape
<1>3. ASSUME NEW a \in PartAgg \cup CatAgg, L!OpenUnset(a) \/ L!CloseUnset(a) PROVE LedgerShape'
  BY <1>3, UnsetShape
<1>4. CASE UNCHANGED L!vars
  <2>1. Types' /\ OneCall' /\ SeenInv'
    BY <1>4 DEF L!vars, L!aggVars, LedgerShape, Types, OneCall, SeenInv
  <2>2. CallInv'
    BY <1>4, CallKept DEF L!vars, L!aggVars, LedgerShape, CallInv
  <2>3. QED
    BY <2>1, <2>2 DEF LedgerShape
<1>5. QED
  BY <1>1, <1>2, <1>3, <1>4 DEF L!Next

\* Counters' TypeOK: in every client numbers stay numbers, an aggregate's record
\* of what it holds stays finite, and a call makes at most two updates, between
\* its first and its last step (_counters.py:105-254, handles.js:82-198,
\* counter.go:118-220, Aggregates.cs:17-204).
THEOREM LedgerTypeCorrect == ASSUME L!LedgerConstants PROVE L!Spec => []L!TypeOK
<1>1. L!Init => LedgerShape
  BY Initially DEF LedgerInv
<1>2. LedgerShape /\ [L!Next]_(L!vars) => LedgerShape'
  BY LedgerStep
<1>3. LedgerShape => L!TypeOK
  BY TypeOf
<1>4. QED
  BY <1>1, <1>2, <1>3, PTL DEF L!Spec

ClosedAt(a) == (a \in PartAgg => ClosedPart(a)) /\ (a \in CatAgg => ClosedCat(a))

LEMMA ClosedKept ==
    ASSUME L!LedgerConstants, NEW a, ClosedAt(a), life'[a] = life[a],
           a \in PartAgg => contribution'[a] = contribution[a],
           a \in CatAgg => current'[a] = current[a],
           \A t \in Thread : busy'[t] = a <=> busy[t] = a,
           \A t \in Thread : busy[t] = a => goal'[t] = goal[t]
    PROVE  ClosedAt(a)'
BY DEF ClosedAt, ClosedPart, ClosedCat

LEMMA FinishClosed ==
    ASSUME L!LedgerConstants, LedgerShape, ClosedInv, lang # "js", NEW t \in Thread,
           todo[t] # <<>>, L!Finish(t), lang' = lang
    PROVE  ClosedInv'
<1>1. ASSUME NEW a \in PartAgg \cup CatAgg PROVE ClosedAt(a)'
  <2>1. ClosedAt(a)
    BY DEF ClosedInv, ClosedAt, L!LedgerConstants
  <2>2. busy[t] # NoCall /\ a # NoCall
    BY InCallAgg DEF L!Agg, L!LedgerConstants
  <2>3. CASE a # busy[t]
    <3>1. \A u \in Thread : busy'[u] = a <=> busy[u] = a
      BY <2>2, <2>3 DEF L!Finish, LedgerShape, Types
    <3>2. \A u \in Thread : busy[u] = a => goal'[u] = goal[u]
      BY <2>3 DEF L!Finish, LedgerShape, Types
    <3>3. /\ life'[a] = life[a]
          /\ a \in PartAgg => contribution'[a] = contribution[a]
          /\ a \in CatAgg => current'[a] = current[a]
      BY <2>3 DEF L!Finish, LedgerShape, Types, L!Agg
    <3>4. QED
      BY <2>1, <3>1, <3>2, <3>3, ClosedKept
  <2>4. CASE a = busy[t]
    <3>1. \A u \in Thread : busy'[u] # a
      BY <2>2, <2>4 DEF L!Finish, LedgerShape, Types, OneCall, L!Agg
    <3>2. life'[a] # "open" => life[a] # "open"
      BY <2>4 DEF L!Finish, LedgerShape, Types, L!Agg
    <3>3. a \in PartAgg => contribution'[a] = goal[t]
      BY <2>4 DEF L!Finish, LedgerShape, Types
    <3>4. a \in CatAgg => current'[a] = goal[t]
      BY <2>4 DEF L!Finish, LedgerShape, Types
    <3>5. QED
      BY <2>1, <2>4, <3>1, <3>2, <3>3, <3>4 DEF ClosedAt, ClosedPart, ClosedCat
  <2>5. QED
    BY <2>3, <2>4
<1>2. QED
  BY <1>1 DEF ClosedInv, ClosedAt

LEMMA EnterClosed ==
    ASSUME L!LedgerConstants, LedgerShape, ClosedInv, NEW t \in Thread,
           NEW a \in L!Agg \cup {ByHand}, NEW us, NEW g,
           L!Enter(t, a, us, g),
           \A b \in L!Agg \ {a} : life'[b] = life[b],
           lang # "js" /\ a \in PartAgg \cup CatAgg =>
                life'[a] = "open" \/ (a \in PartAgg /\ g = 0) \/ (a \in CatAgg /\ g = NoKey)
    PROVE  ClosedInv'
<1>1. SUFFICES ASSUME lang # "js", NEW b \in PartAgg \cup CatAgg PROVE ClosedAt(b)'
  BY DEF ClosedInv, ClosedAt, L!Enter
<1>2. /\ busy' = [busy EXCEPT ![t] = a]
      /\ goal' = [goal EXCEPT ![t] = g]
      /\ UNCHANGED <<contribution, current>>
      /\ busy[t] = NoCall
  BY DEF L!Enter, L!Idle
<1>3. CASE b # a
  <2>1. ClosedAt(b) /\ b # NoCall
    BY <1>1 DEF ClosedInv, ClosedAt, L!Agg, L!LedgerConstants
  <2>2. \A u \in Thread : (busy'[u] = b <=> busy[u] = b) /\ (busy[u] = b => goal'[u] = goal[u])
    BY <1>2, <1>3, <2>1 DEF LedgerShape, Types
  <2>3. QED
    BY <1>2, <1>3, <2>1, <2>2, ClosedKept DEF L!Agg
<1>4. CASE b = a
  <2>1. busy'[t] = a /\ goal'[t] = g
    BY <1>2 DEF LedgerShape, Types
  <2>2. \A u \in Thread : busy'[u] = a => u = t
    BY <1>2, <1>4 DEF L!Enter, L!Idle, LedgerShape, Types, L!Agg, L!LedgerConstants
  <2>3. (a \in PartAgg => a \notin CatAgg)
    BY DEF L!LedgerConstants
  <2>4. QED
    BY <1>1, <1>4, <2>1, <2>2, <2>3 DEF ClosedAt, ClosedPart, ClosedCat
<1>5. QED
  BY <1>3, <1>4

LEMMA UnsetClosed ==
    ASSUME L!LedgerConstants, LedgerShape, ClosedInv, NEW a \in PartAgg \cup CatAgg,
           L!OpenUnset(a) \/ L!CloseUnset(a)
    PROVE  ClosedInv'
<1>1. SUFFICES ASSUME lang # "js", NEW b \in PartAgg \cup CatAgg PROVE ClosedAt(b)'
  BY DEF ClosedInv, ClosedAt, L!OpenUnset, L!CloseUnset
<1>2. UNCHANGED <<contribution, current, busy, goal>>
  BY DEF L!OpenUnset, L!CloseUnset
<1>3. CASE b # a
  <2>1. ClosedAt(b) /\ life'[b] = life[b]
    BY <1>1, <1>3 DEF ClosedInv, ClosedAt, L!OpenUnset, L!CloseUnset, LedgerShape, Types, L!Agg
  <2>2. QED
    BY <1>2, <2>1, ClosedKept
<1>4. CASE b = a /\ L!OpenUnset(a)
  <2>1. life'[a] = "open"
    BY <1>4 DEF L!OpenUnset, LedgerShape, Types, L!Agg
  <2>2. QED
    BY <1>4, <2>1 DEF ClosedAt, ClosedPart, ClosedCat
<1>5. CASE b = a /\ L!CloseUnset(a)
  BY <1>2, <1>5 DEF L!CloseUnset, ClosedAt, ClosedPart, ClosedCat, L!LedgerConstants
<1>6. QED
  BY <1>3, <1>4, <1>5

LEMMA UpdateClosed ==
    ASSUME L!LedgerConstants, LedgerShape, ClosedInv, NEW t \in Thread, todo[t] # <<>>,
           L!Whole(t) \/ Look(t)
    PROVE  ClosedInv'
<1>1. lang' = lang
  BY WholeStep DEF Look
<1>2. CASE UNCHANGED <<busy, goal, L!aggVars>>
  BY <1>1, <1>2 DEF ClosedInv, ClosedPart, ClosedCat, L!aggVars
<1>3. CASE L!Finish(t)
  BY <1>1, <1>3, FinishClosed DEF ClosedInv
<1>4. QED
  BY <1>2, <1>3, WholeCount DEF Look

LEMMA StepClosed ==
    ASSUME L!LedgerConstants, LedgerShape, ClosedInv, [L!Next]_(L!vars)
    PROVE  ClosedInv'
<1>1. ASSUME NEW t \in Thread, L!Call(t) PROVE ClosedInv'
  <2>1. ASSUME NEW u \in L!UpdatesByHand, L!CallByHand(t, u) PROVE ClosedInv'
    BY <2>1, EnterClosed DEF L!CallByHand, L!Agg, L!LedgerConstants
  <2>2. ASSUME NEW a \in SelfAgg, L!OpenSelf(t, a) \/ L!CloseSelf(t, a) PROVE ClosedInv'
    <3>1. a \notin PartAgg \cup CatAgg /\ a \in L!Agg
      BY DEF L!Agg, L!LedgerConstants
    <3>2. \A b \in L!Agg \ {a} : life'[b] = life[b]
      BY <2>2 DEF L!OpenSelf, L!CloseSelf, LedgerShape, Types
    <3>3. \E us, g : L!Enter(t, a, us, g)
      BY <2>2 DEF L!OpenSelf, L!CloseSelf
    <3>4. QED
      BY <3>1, <3>2, <3>3, EnterClosed
  <2>3. ASSUME NEW a \in PartAgg, L!ClosePart(t, a) PROVE ClosedInv'
    BY <2>3, EnterClosed DEF L!ClosePart, L!Agg, LedgerShape, Types
  <2>4. ASSUME NEW a \in PartAgg, NEW v \in Amounts, L!MovePart(t, a, v), lang # "js" => life[a] = "open"
        PROVE  ClosedInv'
    BY <2>4, EnterClosed DEF L!MovePart, L!Agg
  <2>5. ASSUME NEW a \in PartAgg, NEW v \in Amounts,
               L!PySetPart(t, a, v) \/ L!JsSetPart(t, a, v) \/ L!NetSetPart(t, a, v)
        PROVE  ClosedInv'
    BY <2>5, <2>4 DEF L!PySetPart, L!JsSetPart, L!NetSetPart
  <2>6. ASSUME NEW a \in PartAgg, NEW v \in Amounts, L!GoSetPart(t, a, v)
        PROVE  ClosedInv'
    <3>1. CASE L!MovePart(t, a, v)
      BY <3>1, <2>4, <2>6 DEF L!GoSetPart
    <3>2. CASE ~L!MovePart(t, a, v)
      <4>1. /\ contribution' = [contribution EXCEPT ![a] = v] /\ life[a] = "open"
            /\ UNCHANGED <<lang, life, current, busy, goal>>
        BY <2>6, <3>2 DEF L!GoSetPart
      <4>2. QED
        BY <4>1 DEF ClosedInv, ClosedPart, ClosedCat, LedgerShape, Types
    <3>3. QED
      BY <3>1, <3>2
  <2>7. ASSUME NEW a \in CatAgg, L!CloseCategory(t, a) PROVE ClosedInv'
    BY <2>7, EnterClosed DEF L!CloseCategory, L!Agg, LedgerShape, Types
  <2>8. ASSUME NEW a \in CatAgg, NEW b \in L!Key \cup {NoKey}, L!MoveCategory(t, a, b),
               lang # "js" => life[a] = "open"
        PROVE  ClosedInv'
    BY <2>8, EnterClosed DEF L!MoveCategory, L!Agg
  <2>9. ASSUME NEW a \in CatAgg, NEW b \in L!Key \cup {NoKey},
               \/ L!PySetCategory(t, a, b) \/ L!JsSetCategory(t, a, b)
               \/ L!GoSetCategory(t, a, b) \/ L!NetSetCategory(t, a, b)
        PROVE  ClosedInv'
    BY <2>8, <2>9 DEF L!PySetCategory, L!JsSetCategory, L!GoSetCategory, L!NetSetCategory
  <2>10. QED
    BY <1>1, <2>1, <2>2, <2>3, <2>5, <2>6, <2>7, <2>9 DEF L!Call
<1>2. ASSUME NEW t \in Thread, L!PyUpdate(t) \/ L!JsUpdate(t) \/ L!GoUpdate(t) \/ L!NetUpdate(t)
      PROVE  ClosedInv'
  BY <1>2, Updated, UpdateClosed
<1>3. ASSUME NEW a \in PartAgg \cup CatAgg, L!OpenUnset(a) \/ L!CloseUnset(a) PROVE ClosedInv'
  BY <1>3, UnsetClosed
<1>4. CASE UNCHANGED L!vars
  BY <1>4 DEF L!vars, L!aggVars, ClosedInv, ClosedPart, ClosedCat
<1>5. QED
  BY <1>1, <1>2, <1>3, <1>4 DEF L!Next

LEMMA FiniteParts ==
    ASSUME L!LedgerConstants PROVE /\ IsFiniteSet(PartAgg) /\ IsFiniteSet(SelfIn)
    /\ \A k \in L!Key : IsFiniteSet(CatIn(k))
<1>1. PartAgg \subseteq L!Agg /\ SelfIn \subseteq L!Agg /\ \A k \in L!Key : CatIn(k) \subseteq L!Agg
  BY DEF L!Agg, SelfIn, CatIn
<1>2. QED
  BY <1>1, FiniteAgg, FS_Subset

LEMMA Sizes ==
    ASSUME L!LedgerConstants, LedgerShape
    PROVE  /\ Cardinality(SelfIn) \in Int /\ Total(contribution, PartAgg) \in Int
           /\ \A k \in L!Key : Cardinality(CatIn(k)) \in Int /\ Share(k) \in Int
<1>1. Cardinality(SelfIn) \in Int /\ \A k \in L!Key : Cardinality(CatIn(k)) \in Int
  BY FiniteParts, FS_CardinalityType
<1>2. Total(contribution, PartAgg) \in Int
  <2>1. \A a \in PartAgg : contribution[a] \in Int
    BY One DEF LedgerShape, Types
  <2>2. QED
    BY <2>1, FiniteParts, TotalInt
<1>3. QED
  BY <1>1, <1>2 DEF Share, OfPlain

\* Which self and category counts are in, after a step.
LEMMA SelfSame ==
    ASSUME L!LedgerConstants, \A a \in SelfAgg : life'[a] = life[a] /\ (InCall(a)' <=> InCall(a))
    PROVE  SelfIn' = SelfIn
BY DEF SelfIn

LEMMA CatSame ==
    ASSUME L!LedgerConstants, NEW k, \A a \in CatAgg : current'[a] = current[a],
           \A a \in CatAgg : current[a] = k => (Inside(a)' <=> Inside(a))
    PROVE  CatIn(k)' = CatIn(k)
BY DEF CatIn

LEMMA ShareSame ==
    ASSUME L!LedgerConstants, NEW k, SelfIn' = SelfIn, contribution' = contribution,
           CatIn(k)' = CatIn(k)
    PROVE  Share(k)' = Share(k)
BY DEF Share, OfPlain

LEMMA BalanceKept ==
    ASSUME L!LedgerConstants, Balance, \A k \in L!Key : Share(k)' = Share(k),
           UNCHANGED <<value, byHand, overflown>>
    PROVE  Balance'
BY DEF Balance

\* Entering a call changes nobody's share.
LEMMA EnterShare ==
    ASSUME L!LedgerConstants, LedgerShape, NEW t \in Thread, NEW a \in L!Agg \cup {ByHand},
           NEW us, NEW g,
           L!Enter(t, a, us, g),
           \A b \in SelfAgg \ {a} : life'[b] = life[b],
           a \in SelfAgg => \/ life[a] = "unborn" /\ life'[a] = "unborn"
                            \/ life[a] = "open" /\ life'[a] = "closed",
           a \in CatAgg /\ current[a] \in L!Key => Head(us).arg = -1
    PROVE  /\ \A k \in L!Key : Share(k)' = Share(k)
           /\ UNCHANGED <<value, byHand, overflown>>
<1>1. /\ busy' = [busy EXCEPT ![t] = a] /\ busy[t] = NoCall
      /\ todo' = [todo EXCEPT ![t] = us]
      /\ UNCHANGED <<value, contribution, current, byHand, overflown>>
      /\ a # ByHand => \A u \in Thread : busy[u] # a
  BY DEF L!Enter, L!Idle
<1>2. \A b \in L!Agg : b # NoCall /\ b # ByHand
  BY DEF L!LedgerConstants
<1>3. ASSUME NEW b \in L!Agg, b # a
      PROVE  /\ InCall(b)' <=> InCall(b)
             /\ Inside(b)' <=> Inside(b)
  <2>1. \A u \in Thread : busy'[u] = b <=> busy[u] = b
    BY <1>1, <1>2, <1>3 DEF LedgerShape, Types
  <2>2. \A u \in Thread : busy[u] = b => todo'[u] = todo[u]
    BY <1>1, <1>2 DEF LedgerShape, Types
  <2>3. QED
    BY <2>1, <2>2 DEF InCall, Inside
<1>4. a \in L!Agg => InCall(a)' /\ ~InCall(a) /\ Inside(a)
  BY <1>1, <1>2 DEF InCall, Inside, LedgerShape, Types
<1>5. a \in CatAgg /\ current[a] \in L!Key => Inside(a)'
  <2>1. SUFFICES ASSUME a \in CatAgg, current[a] \in L!Key PROVE Inside(a)'
    OBVIOUS
  <2>2. \A u \in Thread : busy'[u] = a => u = t
    BY <1>1, <1>2, <2>1 DEF LedgerShape, Types, L!Agg
  <2>3. todo'[t] = us /\ Head(us).arg = -1
    BY <1>1, <2>1 DEF LedgerShape, Types
  <2>4. QED
    BY <2>2, <2>3 DEF Inside
<1>6. SelfIn' = SelfIn
  <2>1. \A b \in SelfAgg : b \in L!Agg
    BY DEF L!Agg
  <2>2. \A b \in SelfAgg \ {a} : b \in SelfIn' <=> b \in SelfIn
    BY <1>3, <2>1 DEF SelfIn
  <2>3. a \in SelfAgg => (a \in SelfIn' <=> a \in SelfIn)
    BY <1>4, <2>1 DEF SelfIn
  <2>4. SelfIn \subseteq SelfAgg /\ SelfIn' \subseteq SelfAgg
    BY DEF SelfIn
  <2>5. QED
    BY <2>2, <2>3, <2>4
<1>7. ASSUME NEW k \in L!Key PROVE CatIn(k)' = CatIn(k)
  <2>1. ASSUME NEW b \in CatAgg, current[b] = k PROVE Inside(b)' <=> Inside(b)
    BY <1>3, <1>4, <1>5, <2>1 DEF L!Agg
  <2>2. QED
    BY <1>1, <2>1, CatSame
<1>8. QED
  BY <1>1, <1>6, <1>7, ShareSame

LEMMA UnsetShare ==
    ASSUME L!LedgerConstants, LedgerShape, NEW a \in PartAgg \cup CatAgg,
           L!OpenUnset(a) \/ L!CloseUnset(a)
    PROVE  /\ \A k \in L!Key : Share(k)' = Share(k)
           /\ UNCHANGED <<value, byHand, overflown>>
<1>1. UNCHANGED <<value, contribution, current, busy, todo, byHand, overflown>>
  BY DEF L!OpenUnset, L!CloseUnset
<1>2. \A b \in SelfAgg : life'[b] = life[b]
  BY DEF L!OpenUnset, L!CloseUnset, LedgerShape, Types, L!Agg, L!LedgerConstants
<1>3. SelfIn' = SelfIn
  BY <1>1, <1>2, SelfSame DEF InCall
<1>4. \A k \in L!Key : CatIn(k)' = CatIn(k)
  BY <1>1 DEF CatIn, Inside
<1>5. QED
  BY <1>1, <1>3, <1>4, ShareSame

\* The end of a call changes the share of what was called, and no other.
LEMMA FinishRest ==
    ASSUME L!LedgerConstants, LedgerShape, NEW t \in Thread, todo[t] # <<>>, L!Finish(t),
           todo' = [todo EXCEPT ![t] = <<>>], NEW b \in L!Agg
    PROVE  /\ b # busy[t] => /\ InCall(b)' <=> InCall(b)
                             /\ Inside(b)' <=> Inside(b)
                             /\ life'[b] = life[b]
           /\ b = busy[t] => InCall(b) /\ ~InCall(b)' /\ Inside(b)'
           /\ b = busy[t] => (Inside(b) <=> Head(todo[t]).arg = -1)
<1>1. b # NoCall
  BY DEF L!LedgerConstants
<1>2. busy' = [busy EXCEPT ![t] = NoCall]
  BY DEF L!Finish
<1>3. CASE b # busy[t]
  <2>1. \A u \in Thread : busy'[u] = b <=> busy[u] = b
    BY <1>1, <1>2, <1>3 DEF LedgerShape, Types
  <2>2. \A u \in Thread : busy[u] = b => todo'[u] = todo[u]
    BY <1>3 DEF LedgerShape, Types
  <2>3. life'[b] = life[b]
    BY <1>3 DEF L!Finish, LedgerShape, Types
  <2>4. QED
    BY <1>3, <2>1, <2>2, <2>3 DEF InCall, Inside
<1>4. CASE b = busy[t]
  <2>1. \A u \in Thread : busy[u] = b => u = t
    BY <1>4 DEF LedgerShape, OneCall
  <2>2. \A u \in Thread : busy'[u] # b
    BY <1>1, <1>2, <2>1 DEF LedgerShape, Types
  <2>3. QED
    BY <1>4, <2>1, <2>2 DEF InCall, Inside
<1>5. QED
  BY <1>3, <1>4

\* By how much the update t makes next changes what is held of k.
Moved(t, k) ==
    IF busy[t] # ByHand /\ k = Head(todo[t]).key THEN Head(todo[t]).arg ELSE 0

LEMMA HandShare ==
    ASSUME L!LedgerConstants, LedgerShape, NEW t \in Thread, OfHand(t), L!Whole(t),
           NEW k \in L!Key
    PROVE  Share(k)' = Share(k)
<1>1. PICK u : todo[t] = <<u>>
  BY DEF OfHand
<1>2. L!Finish(t) /\ todo' = [todo EXCEPT ![t] = <<>>] /\ todo[t] # <<>>
  BY <1>1, LastStep, OneLong
<1>3. \A b \in L!Agg : b # busy[t]
  BY DEF OfHand, L!LedgerConstants
<1>4. contribution' = contribution /\ current' = current
  BY <1>2, <1>3 DEF L!Finish, L!Agg
<1>5. SelfIn' = SelfIn
  BY <1>2, <1>3, FinishRest, SelfSame DEF L!Agg
<1>6. CatIn(k)' = CatIn(k)
  BY <1>2, <1>3, <1>4, FinishRest, CatSame DEF L!Agg
<1>7. QED
  BY <1>4, <1>5, <1>6, ShareSame

LEMMA MovedBy ==
    ASSUME NEW t, busy[t] # ByHand, NEW l, NEW d, todo[t] = <<L!Add(l, d)>>, NEW k
    PROVE  Moved(t, k) = IF k = l THEN d ELSE 0
<1>1. Head(todo[t]) = L!Add(l, d)
  OBVIOUS
<1>2. L!Add(l, d).key = l /\ L!Add(l, d).arg = d
  BY DEF L!Add
<1>3. QED
  BY <1>1, <1>2 DEF Moved

LEMMA SelfShare ==
    ASSUME L!LedgerConstants, LedgerShape, NEW t \in Thread, OfSelf(t), L!Whole(t),
           NEW k \in L!Key
    PROVE  Share(k)' = Share(k) + Moved(t, k)
<1>0. PICK a : a = busy[t]
  OBVIOUS
<1>1. /\ a \in SelfAgg /\ a \in L!Agg /\ a \notin PartAgg \cup CatAgg /\ a # ByHand
  BY <1>0 DEF OfSelf, L!Agg, L!LedgerConstants
<1>2. PICK d \in {1, -1} : todo[t] = <<L!Add(Plain, d)>> /\ life[a] = IF d = 1 THEN "unborn" ELSE "closed"
  BY <1>0 DEF OfSelf
<1>3. L!Finish(t) /\ todo' = [todo EXCEPT ![t] = <<>>] /\ todo[t] # <<>>
  <2>1. PICK u : todo[t] = <<u>>
    BY <1>2
  <2>2. QED
    BY <2>1, LastStep, OneLong
<1>4. Moved(t, k) = IF k = Plain THEN d ELSE 0
  BY <1>0, <1>1, <1>2, MovedBy
<1>5. contribution' = contribution /\ current' = current
  BY <1>0, <1>1, <1>3 DEF L!Finish
<1>6. CatIn(k)' = CatIn(k)
  <2>1. ASSUME NEW b \in CatAgg PROVE Inside(b)' <=> Inside(b)
    <3>1. b \in L!Agg /\ b # busy[t]
      BY <1>0, <1>1 DEF L!Agg
    <3>2. QED
      BY <1>3, <3>1, FinishRest
  <2>2. QED
    BY <1>5, <2>1, CatSame
<1>7. /\ InCall(a) /\ ~InCall(a)'
      /\ life'[a] = IF d = 1 THEN "open" ELSE "closed"
  <2>1. InCall(a) /\ ~InCall(a)'
    BY <1>0, <1>1, <1>3, FinishRest
  <2>2. life' = IF life[a] = "unborn" THEN [life EXCEPT ![a] = "open"] ELSE life
    BY <1>0, <1>1, <1>3 DEF L!Finish
  <2>3. QED
    BY <1>1, <1>2, <2>1, <2>2 DEF LedgerShape, Types
<1>8. \A b \in SelfAgg \ {a} : b \in SelfIn' <=> b \in SelfIn
  BY <1>0, <1>3, FinishRest DEF SelfIn, L!Agg
<1>9. Cardinality(SelfIn') = Cardinality(SelfIn) + d
  <2>1. CASE d = 1
    <3>1. a \notin SelfIn /\ SelfIn' = SelfIn \cup {a}
      BY <1>0, <1>1, <1>2, <1>7, <1>8, <2>1 DEF SelfIn
    <3>2. QED
      BY <1>0, <2>1, <3>1, FiniteParts, FS_AddElement
  <2>2. CASE d = -1
    <3>1. a \in SelfIn /\ SelfIn' = SelfIn \ {a}
      BY <1>0, <1>1, <1>2, <1>7, <1>8, <2>2 DEF SelfIn
    <3>2. QED
      BY <1>0, <2>2, <3>1, FiniteParts, FS_RemoveElement, Sizes
  <2>3. QED
    BY <1>0, <2>1, <2>2
<1>10. QED
  BY <1>0, <1>4, <1>5, <1>6, <1>9, Sizes DEF Share, OfPlain

LEMMA PartShare ==
    ASSUME L!LedgerConstants, LedgerShape, NEW t \in Thread, OfPart(t), L!Whole(t),
           NEW k \in L!Key
    PROVE  Share(k)' = Share(k) + Moved(t, k)
<1>0. PICK a, d : a = busy[t] /\ d = goal[t] - contribution[a]
  OBVIOUS
<1>1. /\ a \in PartAgg /\ a \in L!Agg /\ a \notin SelfAgg \cup CatAgg /\ a # ByHand
  BY <1>0 DEF OfPart, L!Agg, L!LedgerConstants
<1>2. todo[t] = <<L!Add(Plain, d)>> /\ goal[t] \in Int /\ \A b \in PartAgg : contribution[b] \in Int
  BY <1>0, One DEF OfPart, LedgerShape, Types
<1>3. L!Finish(t) /\ todo' = [todo EXCEPT ![t] = <<>>] /\ todo[t] # <<>>
  <2>1. PICK u : todo[t] = <<u>>
    BY <1>2
  <2>2. QED
    BY <2>1, LastStep, OneLong
<1>4. Moved(t, k) = IF k = Plain THEN d ELSE 0
  BY <1>0, <1>1, <1>2, MovedBy
<1>5. contribution' = [contribution EXCEPT ![a] = goal[t]] /\ current' = current
  BY <1>0, <1>1, <1>3 DEF L!Finish
<1>6. CatIn(k)' = CatIn(k)
  <2>1. ASSUME NEW b \in CatAgg PROVE Inside(b)' <=> Inside(b)
    <3>1. b \in L!Agg /\ b # busy[t]
      BY <1>0, <1>1 DEF L!Agg
    <3>2. QED
      BY <1>3, <3>1, FinishRest
  <2>2. QED
    BY <1>5, <2>1, CatSame
<1>7. SelfIn' = SelfIn
  BY <1>0, <1>1, <1>3, FinishRest, SelfSame DEF L!Agg
<1>8. Total(contribution', PartAgg) = Total(contribution, PartAgg) + d
  <2>1. /\ contribution'[a] = goal[t]
        /\ \A b \in PartAgg \ {a} : contribution'[b] = contribution[b]
    BY <1>0, <1>1, <1>5 DEF LedgerShape, Types
  <2>2. Total(contribution', PartAgg) = Total(contribution, PartAgg) + goal[t] - contribution[a]
    BY <1>0, <1>1, <1>2, <2>1, FiniteParts, TotalChange
  <2>3. QED
    BY <1>0, <1>1, <1>2, <2>2, Sizes
<1>9. d \in Int
  BY <1>0, <1>1, <1>2
<1>10. QED
  BY <1>0, <1>4, <1>6, <1>7, <1>8, <1>9, Sizes DEF Share, OfPlain

LEMMA CatShare ==
    ASSUME L!LedgerConstants, LedgerShape, NEW t \in Thread, OfCat(t), L!Whole(t), NEW k \in L!Key
    PROVE  Share(k)' = Share(k) + Moved(t, k)
<1>0. PICK a : a = busy[t]
  OBVIOUS
<1>1. /\ a \in CatAgg /\ a \in L!Agg /\ a \notin SelfAgg \cup PartAgg /\ a # ByHand
  BY <1>0 DEF OfCat, L!Agg, L!LedgerConstants
<1>2. NoKey \notin L!Key
  BY <1>0 DEF L!LedgerConstants
<1>3. CASE Leaves(t) \/ Enters(t)
  <2>1. PICK l \in L!Key, d \in {1, -1} : /\ todo[t] = <<L!Add(l, d)>>
                                          /\ d = -1 => current[a] = l /\ goal[t] = NoKey
                                          /\ d = 1 => goal[t] = l
    BY <1>0, <1>3 DEF Leaves, Enters
  <2>0. PICK u : todo[t] = <<u>> /\ u.key = l /\ u.arg = d
    <3>1. L!Add(l, d).key = l /\ L!Add(l, d).arg = d
      BY DEF L!Add
    <3>2. QED
      BY <2>1, <3>1
  <2>2. L!Finish(t) /\ todo' = [todo EXCEPT ![t] = <<>>] /\ todo[t] # <<>>
    BY <2>0, LastStep, OneLong
  <2>3. Moved(t, k) = IF k = l THEN d ELSE 0
    BY <1>0, <1>1, <2>0, OneLong DEF Moved
  <2>4. current' = [current EXCEPT ![a] = goal[t]] /\ contribution' = contribution
    BY <1>0, <1>1, <2>2 DEF L!Finish
  <2>5. SelfIn' = SelfIn
    BY <1>0, <1>1, <2>2, FinishRest, SelfSame DEF L!Agg
  <2>6. \A b \in CatAgg \ {a} : b \in CatIn(k)' <=> b \in CatIn(k)
    BY <1>0, <2>2, <2>4, FinishRest DEF CatIn, L!Agg, LedgerShape, Types
  <2>7. a \in CatIn(k)' <=> (d = 1 /\ k = l)
    <3>1. Inside(a)' /\ current'[a] = goal[t]
      <4>1. Inside(a)'
        BY <1>0, <1>1, <2>2, FinishRest
      <4>2. current'[a] = goal[t]
        BY <1>1, <2>4 DEF LedgerShape, Types
      <4>3. QED
        BY <4>1, <4>2
    <3>2. goal[t] = k <=> (d = 1 /\ k = l)
      BY <1>2, <2>1
    <3>3. a \in CatIn(k)' <=> current'[a] = k
      BY <1>1, <3>1 DEF CatIn
    <3>4. QED
      BY <3>1, <3>2, <3>3
  <2>8. a \in CatIn(k) <=> (d = -1 /\ k = l)
    <3>1. Inside(a) <=> d = -1
      <4>1. Head(todo[t]).arg = d
        BY <2>0, OneLong
      <4>2. Inside(a) <=> Head(todo[t]).arg = -1
        BY <1>0, <1>1, <2>2, FinishRest
      <4>3. QED
        BY <4>1, <4>2
    <3>2. a \in CatIn(k) <=> current[a] = k /\ d = -1
      BY <1>1, <3>1 DEF CatIn
    <3>3. d = -1 => current[a] = l
      BY <2>1
    <3>4. QED
      BY <3>2, <3>3
  <2>9. Cardinality(CatIn(k)') = Cardinality(CatIn(k)) + Moved(t, k)
    <3>0. IsFiniteSet(CatIn(k)) /\ Cardinality(CatIn(k)) \in Int
      BY FiniteParts, Sizes
    <3>1. CASE k # l
      <4>1. CatIn(k)' = CatIn(k)
        BY <1>0, <2>6, <2>7, <2>8, <3>1 DEF CatIn
      <4>2. QED
        BY <1>0, <2>3, <3>1, <4>1, Sizes
    <3>2. CASE k = l /\ d = 1
      <4>1. a \notin CatIn(k) /\ CatIn(k)' = CatIn(k) \cup {a}
        BY <1>0, <1>1, <2>6, <2>7, <2>8, <3>2 DEF CatIn
      <4>2. QED
        BY <2>3, <3>0, <3>2, <4>1, FS_AddElement
    <3>3. CASE k = l /\ d = -1
      <4>1. a \in CatIn(k) /\ CatIn(k)' = CatIn(k) \ {a}
        BY <1>0, <1>1, <2>6, <2>7, <2>8, <3>3 DEF CatIn
      <4>2. QED
        BY <2>3, <3>0, <3>3, <4>1, FS_RemoveElement
    <3>4. QED
      BY <1>0, <3>1, <3>2, <3>3
  <2>10. QED
    BY <1>0, <2>3, <2>4, <2>5, <2>9, Sizes DEF Share, OfPlain
<1>4. CASE Changes(t)
  <2>0. PICK l : l = current[a]
    OBVIOUS
  <2>1. /\ todo[t] = <<L!Add(l, -1), L!Add(goal[t], 1)>> /\ l \in L!Key
    BY <1>0, <2>0, <1>4 DEF Changes
  <2>2. /\ todo' = [todo EXCEPT ![t] = <<L!Add(goal[t], 1)>>]
        /\ UNCHANGED <<lang, busy, goal, L!aggVars>>
    BY <1>0, <2>0, <1>4, FirstShape
  <2>3. Moved(t, k) = IF k = l THEN -1 ELSE 0
    BY <1>0, <2>0, <1>1, <2>1, TwoLong DEF Moved, L!Add
  <2>4. SelfIn' = SelfIn
    BY <1>0, <2>0, <2>2 DEF SelfIn, InCall, L!aggVars
  <2>5. \A b \in CatAgg \ {a} : b \in CatIn(k)' <=> b \in CatIn(k)
    <3>1. \A u \in Thread, b \in CatAgg \ {a} : busy[u] = b => todo'[u] = todo[u]
      BY <1>0, <2>0, <2>2 DEF LedgerShape, Types
    <3>2. QED
      BY <1>0, <2>0, <2>2, <3>1 DEF CatIn, Inside, L!aggVars
  <2>6. a \notin CatIn(k)'
    <3>1. ~ Inside(a)'
      BY <1>0, <2>0, <2>2, OneLong DEF Inside, L!Add, LedgerShape, Types
    <3>2. QED
      BY <1>0, <3>1 DEF CatIn
  <2>7. a \in CatIn(k) <=> k = l
    <3>1. Inside(a)
      BY <1>0, <2>0, <1>1, <2>1, TwoLong DEF Inside, L!Add, LedgerShape, OneCall
    <3>2. QED
      BY <1>0, <2>0, <1>1, <3>1 DEF CatIn
  <2>8. Cardinality(CatIn(k)') = Cardinality(CatIn(k)) + Moved(t, k)
    <3>1. CASE k # l
      <4>1. CatIn(k)' = CatIn(k)
        BY <1>0, <2>0, <2>5, <2>6, <2>7, <3>1 DEF CatIn
      <4>2. QED
        BY <1>0, <2>0, <2>3, <3>1, <4>1, Sizes
    <3>2. CASE k = l
      <4>1. a \in CatIn(k) /\ CatIn(k)' = CatIn(k) \ {a}
        BY <1>0, <2>0, <2>5, <2>6, <2>7, <3>2 DEF CatIn
      <4>2. Cardinality(CatIn(k)') = Cardinality(CatIn(k)) - 1
        BY <4>1, FiniteParts, FS_RemoveElement
      <4>3. Moved(t, k) = -1 /\ Cardinality(CatIn(k)) \in Int
        BY <2>3, <3>2, Sizes
      <4>4. QED
        BY <4>2, <4>3
    <3>3. QED
      BY <1>0, <3>1, <3>2
  <2>9. QED
    BY <1>0, <2>0, <2>2, <2>3, <2>4, <2>8, Sizes DEF Share, OfPlain, L!aggVars
<1>5. QED
  BY <1>3, <1>4 DEF OfCat

LEMMA WholeShare ==
    ASSUME L!LedgerConstants, LedgerShape, NEW t \in Thread, todo[t] # <<>>, L!Whole(t),
           NEW k \in L!Key
    PROVE  Share(k)' = Share(k) + Moved(t, k)
<1>1. InSomeCall(t) /\ ~OfNone(t)
  BY InCallAgg DEF LedgerShape, CallInv
<1>2. CASE OfHand(t)
  <2>1. Moved(t, k) = 0 /\ Share(k) \in Int
    BY <1>2, Sizes DEF Moved, OfHand
  <2>2. QED
    BY <1>2, <2>1, HandShare
<1>3. QED
  BY <1>1, <1>2, SelfShare, PartShare, CatShare DEF InSomeCall

\* Only calls by hand do anything but add.
LEMMA OnlyAdds ==
    ASSUME L!LedgerConstants, LedgerShape, NEW t \in Thread, todo[t] # <<>>, busy[t] # ByHand
    PROVE  Head(todo[t]).op = "add"
<1>1. OfSelf(t) \/ OfPart(t) \/ OfCat(t)
  BY InCallAgg DEF LedgerShape, CallInv, InSomeCall, OfHand
<1>2. PICK k, d : todo[t] = <<L!Add(k, d)>> \/ \E k2, d2 : todo[t] = <<L!Add(k, d), L!Add(k2, d2)>>
  BY <1>1 DEF OfSelf, OfPart, OfCat, Leaves, Changes, Enters
<1>3. Head(todo[t]) = L!Add(k, d)
  BY <1>2, OneLong, TwoLong
<1>4. QED
  BY <1>3 DEF L!Add

LEMMA WholeBalance ==
    ASSUME L!LedgerConstants, LedgerShape, Balance, NEW t \in Thread, todo[t] # <<>>, L!Whole(t)
    PROVE  Balance'
<1>1. PICK u, x :
         /\ u = Head(todo[t]) /\ x = L!Effect(u, value[u.key])
         /\ u \in L!Update /\ x \in L!Number
         /\ value' = [value EXCEPT ![u.key] = x]
         /\ overflown' = IF L!Infinite(x) THEN overflown \cup {u.key} ELSE overflown
         /\ byHand' = IF u.key \in overflown' THEN [byHand EXCEPT ![u.key] = 0]
                      ELSE IF busy[t] = ByHand
                      THEN [byHand EXCEPT ![u.key] = @ + x - value[u.key]]
                      ELSE byHand
  BY WholeStep
<1>2. SUFFICES ASSUME NEW k \in L!Key, k \notin overflown'
               PROVE  value'[k] \in L!Finite /\ value'[k] = byHand'[k] + Share(k)'
  BY DEF Balance
<1>3. u.key \in L!Key /\ u.arg \in Int
  BY <1>1, One DEF L!Update
<1>4. k \notin overflown
  BY <1>1, <1>2
<1>5. /\ value[k] \in L!Finite /\ value[k] \in Int /\ byHand[k] \in Int /\ Share(k) \in Int
      /\ value[k] = byHand[k] + Share(k)
  BY <1>4, One, Sizes DEF Balance, LedgerShape, Types
<1>6. Share(k)' = Share(k) + Moved(t, k)
  BY WholeShare
<1>7. CASE k # u.key
  <2>1. value'[k] = value[k] /\ byHand'[k] = byHand[k]
    BY <1>1, <1>3, <1>7 DEF LedgerShape, Types
  <2>2. Moved(t, k) = 0
    BY <1>1, <1>7 DEF Moved
  <2>3. QED
    BY <1>5, <1>6, <2>1, <2>2
<1>8. CASE k = u.key
  <2>1. x \in L!Finite /\ x \in Int /\ value'[k] = x
    BY <1>1, <1>2, <1>3, <1>8, One DEF L!Infinite, LedgerShape, Types
  <2>2. CASE busy[t] = ByHand
    <3>1. byHand'[k] = byHand[k] + x - value[k]
      BY <1>1, <1>2, <1>3, <1>8, <2>2 DEF LedgerShape, Types
    <3>2. Moved(t, k) = 0
      BY <2>2 DEF Moved
    <3>3. QED
      BY <1>5, <1>6, <2>1, <3>1, <3>2
  <2>3. CASE busy[t] # ByHand
    <3>1. byHand'[k] = byHand[k]
      BY <1>1, <1>2, <1>8, <2>3
    <3>2. Moved(t, k) = u.arg
      BY <1>1, <1>8, <2>3 DEF Moved
    <3>3. x = L!Plus(value[k], u.arg)
      BY <1>1, <1>8, <2>3, OnlyAdds DEF L!Effect
    <3>4. x = value[k] + u.arg
      BY <1>3, <1>5, <2>1, <3>3 DEF L!Plus, L!Infinite, L!Finite, L!LedgerConstants
    <3>5. QED
      BY <1>3, <1>5, <1>6, <2>1, <3>1, <3>2, <3>4
  <2>4. QED
    BY <2>2, <2>3
<1>9. QED
  BY <1>7, <1>8

LEMMA SkipBalance ==
    ASSUME L!LedgerConstants, LedgerShape, Balance, NEW a \in PartAgg, NEW v \in Amounts,
           contribution' = [contribution EXCEPT ![a] = v],
           overflown' = overflown \cup {Plain},
           byHand' = [byHand EXCEPT ![Plain] = 0],
           UNCHANGED <<lang, value, life, current, busy, todo, goal, seen>>
    PROVE  Balance'
<1>1. SUFFICES ASSUME NEW k \in L!Key, k \notin overflown, k # Plain
               PROVE  value[k] \in L!Finite /\ value[k] = byHand'[k] + Share(k)'
  BY DEF Balance
<1>2. CatIn(k)' = CatIn(k)
  BY DEF CatIn, Inside
<1>3. Share(k)' = Share(k)
  BY <1>1, <1>2 DEF Share
<1>4. byHand'[k] = byHand[k]
  BY <1>1 DEF LedgerShape, Types
<1>5. QED
  BY <1>1, <1>3, <1>4 DEF Balance

LEMMA StepBalance ==
    ASSUME L!LedgerConstants, LedgerShape, Balance, [L!Next]_(L!vars)
    PROVE  Balance'
<1>1. ASSUME NEW t \in Thread, L!Call(t) PROVE Balance'
  <2>1. ASSUME NEW u \in L!UpdatesByHand, L!CallByHand(t, u) PROVE Balance'
    <3>1. ByHand \notin SelfAgg \cup CatAgg
      BY DEF L!Agg, L!LedgerConstants
    <3>2. \A b \in SelfAgg : life'[b] = life[b]
      BY <2>1 DEF L!CallByHand
    <3>3. L!Enter(t, ByHand, <<u>>, NoKey)
      BY <2>1 DEF L!CallByHand
    <3>4. QED
      BY <3>1, <3>2, <3>3, EnterShare, BalanceKept
  <2>2. ASSUME NEW a \in SelfAgg, L!OpenSelf(t, a) \/ L!CloseSelf(t, a) PROVE Balance'
    <3>1. a \notin CatAgg /\ a \in L!Agg
      BY DEF L!Agg, L!LedgerConstants
    <3>2. \A b \in SelfAgg \ {a} : life'[b] = life[b]
      BY <2>2 DEF L!OpenSelf, L!CloseSelf, LedgerShape, Types, L!Agg
    <3>3. \/ life[a] = "unborn" /\ life'[a] = "unborn"
          \/ life[a] = "open" /\ life'[a] = "closed"
      BY <2>2, <3>1 DEF L!OpenSelf, L!CloseSelf, LedgerShape, Types
    <3>4. \E us, g : L!Enter(t, a, us, g)
      BY <2>2 DEF L!OpenSelf, L!CloseSelf
    <3>5. QED
      BY <3>1, <3>2, <3>3, <3>4, EnterShare, BalanceKept
  <2>3. ASSUME NEW a \in PartAgg, NEW us, NEW g, L!Enter(t, a, us, g),
               \A b \in L!Agg \ {a} : life'[b] = life[b]
        PROVE  Balance'
    <3>1. a \in L!Agg /\ a \notin SelfAgg \cup CatAgg /\ \A b \in SelfAgg : life'[b] = life[b]
      BY <2>3 DEF L!Agg, L!LedgerConstants
    <3>2. QED
      BY <2>3, <3>1, EnterShare, BalanceKept
  <2>4. ASSUME NEW a \in PartAgg, L!ClosePart(t, a) PROVE Balance'
    BY <2>3, <2>4 DEF L!ClosePart, LedgerShape, Types
  <2>5. ASSUME NEW a \in PartAgg, NEW v \in Amounts, L!MovePart(t, a, v) PROVE Balance'
    BY <2>3, <2>5 DEF L!MovePart
  <2>6. ASSUME NEW a \in PartAgg, NEW v \in Amounts,
               \/ L!PySetPart(t, a, v) \/ L!JsSetPart(t, a, v)
               \/ L!GoSetPart(t, a, v) \/ L!NetSetPart(t, a, v)
        PROVE  Balance'
    BY <2>5, <2>6, SkipBalance DEF L!PySetPart, L!JsSetPart, L!NetSetPart, L!GoSetPart
  <2>7. ASSUME NEW a \in CatAgg, NEW b \in L!Key \cup {NoKey}, b # current[a],
               L!Enter(t, a, Updates(a, b), b),
               \A c \in L!Agg \ {a} : life'[c] = life[c]
        PROVE  Balance'
    <3>1. a \in L!Agg /\ a \notin SelfAgg /\ \A c \in SelfAgg : life'[c] = life[c]
      BY <2>7 DEF L!Agg, L!LedgerConstants
    <3>2. ASSUME current[a] \in L!Key PROVE Head(Updates(a, b)).arg = -1
      <4>1. Head(Updates(a, b)) = L!Add(current[a], -1)
        BY <2>7, <3>2, UpdatesOf, OneLong, TwoLong DEF L!LedgerConstants
      <4>2. QED
        BY <4>1 DEF L!Add
    <3>3. QED
      BY <2>7, <3>1, <3>2, EnterShare, BalanceKept
  <2>8. ASSUME NEW a \in CatAgg, L!CloseCategory(t, a) PROVE Balance'
    <3>1. NoKey # current[a] /\ life' = [life EXCEPT ![a] = "closed"]
      BY <2>8 DEF L!CloseCategory
    <3>2. L!Enter(t, a, Updates(a, NoKey), NoKey)
      BY <2>8, <3>1, UpdatesOf DEF L!CloseCategory
    <3>3. QED
      BY <2>7, <3>1, <3>2 DEF LedgerShape, Types
  <2>9. ASSUME NEW a \in CatAgg, NEW b \in L!Key \cup {NoKey}, L!MoveCategory(t, a, b) PROVE Balance'
    BY <2>7, <2>9 DEF L!MoveCategory, Updates
  <2>10. ASSUME NEW a \in CatAgg, NEW b \in L!Key \cup {NoKey},
               \/ L!PySetCategory(t, a, b) \/ L!JsSetCategory(t, a, b)
               \/ L!GoSetCategory(t, a, b) \/ L!NetSetCategory(t, a, b)
        PROVE  Balance'
    BY <2>9, <2>10 DEF L!PySetCategory, L!JsSetCategory, L!GoSetCategory, L!NetSetCategory
  <2>11. QED
    BY <1>1, <2>1, <2>2, <2>4, <2>6, <2>8, <2>10 DEF L!Call
<1>2. ASSUME NEW t \in Thread, Look(t) PROVE Balance'
  <2>1. SelfIn' = SelfIn /\ \A k \in L!Key : CatIn(k)' = CatIn(k)
    BY <1>2 DEF Look, L!aggVars, SelfIn, CatIn, InCall, Inside
  <2>2. QED
    BY <1>2, <2>1, ShareSame, BalanceKept DEF Look, L!aggVars
<1>3. ASSUME NEW t \in Thread, L!PyUpdate(t) \/ L!JsUpdate(t) \/ L!GoUpdate(t) \/ L!NetUpdate(t)
      PROVE  Balance'
  BY <1>2, <1>3, Updated, WholeBalance
<1>4. ASSUME NEW a \in PartAgg \cup CatAgg, L!OpenUnset(a) \/ L!CloseUnset(a) PROVE Balance'
  BY <1>4, UnsetShare, BalanceKept
<1>5. CASE UNCHANGED L!vars
  <2>1. SelfIn' = SelfIn /\ \A k \in L!Key : CatIn(k)' = CatIn(k)
    BY <1>5 DEF L!vars, L!aggVars, SelfIn, CatIn, InCall, Inside
  <2>2. QED
    BY <1>5, <2>1, ShareSame, BalanceKept DEF L!vars, L!aggVars
<1>6. QED
  BY <1>1, <1>3, <1>4, <1>5 DEF L!Next

LEMMA Balanced == ASSUME L!LedgerConstants, LedgerInv PROVE L!LedgerBalanced
<1>1. SUFFICES ASSUME L!Quiescent, NEW k \in L!Key \ overflown
               PROVE  value[k] = byHand[k] + L!Held(k, L!Counting)
  BY DEF L!LedgerBalanced
<1>2. \A a \in L!Agg : ~InCall(a) /\ Inside(a)
  BY <1>1 DEF L!Quiescent, InCall, Inside, L!LedgerConstants
<1>3. SelfIn = {a \in SelfAgg : life[a] = "open"}
  BY <1>2 DEF SelfIn, L!Agg
<1>4. MapThenSumSet(LAMBDA a : contribution[a], PartAgg \cap L!Counting) = Total(contribution, PartAgg)
  <2>1. \A a \in PartAgg \ (PartAgg \cap L!Counting) : contribution[a] = 0
    BY <1>2 DEF L!Counting, LedgerInv, ClosedInv, ClosedPart, InCall, L!Agg
  <2>2. \A a \in PartAgg : contribution[a] \in Int
    BY One DEF LedgerInv, LedgerShape, Types
  <2>3. Total(contribution, PartAgg \cap L!Counting) = Total(contribution, PartAgg)
    <3> DEFINE S == PartAgg \cap L!Counting
    <3>1. S \in SUBSET PartAgg /\ \A a \in PartAgg \ S : contribution[a] = 0
      BY <2>1
    <3> HIDE DEF S
    <3>2. Total(contribution, S) = Total(contribution, PartAgg)
      BY <2>2, <3>1, FiniteParts, TotalWithout
    <3>3. QED
      BY <3>2 DEF S
  <2>4. QED
    BY <2>3 DEF Total
<1>5. {a \in CatAgg \cap L!Counting : current[a] = k} = CatIn(k)
  <2>1. \A a \in CatAgg : a \notin L!Counting => current[a] = NoKey
    BY <1>2 DEF L!Counting, LedgerInv, ClosedInv, ClosedCat, InCall, L!Agg
  <2>2. NoKey # k
    BY DEF L!LedgerConstants
  <2>3. QED
    BY <1>2, <2>1, <2>2 DEF CatIn, L!Agg
<1>6. L!Held(k, L!Counting) = Share(k)
  <2>1. /\ L!Cardinality(SelfIn) = Cardinality(SelfIn)
        /\ L!Cardinality(CatIn(k)) = Cardinality(CatIn(k))
    BY DEF L!Cardinality, Cardinality
  <2>2. L!MapThenSumSet(LAMBDA a : contribution[a], PartAgg \cap L!Counting)
        = Total(contribution, PartAgg)
    BY <1>4 DEF L!MapThenSumSet, L!MapThenFoldSet, MapThenSumSet, MapThenFoldSet
  <2>3. QED
    BY <1>3, <1>5, <2>1, <2>2 DEF L!Held, Share, OfPlain
<1>7. QED
  BY <1>6 DEF LedgerInv, Balance

\* Counters' LedgerBalanced: no update is lost.  Whenever no call is under way, a
\* counter is what the calls made by hand add up to plus what the aggregates
\* that count hold, in the four clients, for every number of threads and
\* aggregates and every interleaving of their updates (_counters.py:41-85,
\* handles.js:18-69, counter.go:31-93, Counter.cs:35-100).
THEOREM LedgerKept == ASSUME L!LedgerConstants PROVE L!Spec => []L!LedgerBalanced
<1>1. L!Init => LedgerInv
  BY Initially
<1>2. LedgerInv /\ [L!Next]_(L!vars) => LedgerInv'
  BY LedgerStep, StepClosed, StepBalance DEF LedgerInv
<1>3. LedgerInv => L!LedgerBalanced
  BY Balanced
<1>4. QED
  BY <1>1, <1>2, <1>3, PTL DEF L!Spec
==============================================================================
