---------------------------- MODULE OrderProofs -----------------------------
(***************************************************************************)
(* Proofs about what has to happen in its order: services are started      *)
(* after what they depend on (DependencyGraph), a pairing completes after  *)
(* it was begun (Devices), and what a peer sends is taken in the order of  *)
(* its numbers (RemoteDelivery).  The parts share no state: each has its   *)
(* own invariant and its own specification.                                *)
(***************************************************************************)
EXTENDS DependencyGraph, Devices, RemoteDelivery, FiniteSetTheorems, SequenceTheorems,
        TLAPS

-----------------------------------------------------------------------------
(* A function on 1..n into S is a sequence over S of length n. *)
LEMMA FunctionIsSeq ==
    ASSUME NEW n \in Nat, NEW S, NEW u \in [1..n -> S]
    PROVE  u \in Seq(S) /\ Len(u) = n
OBVIOUS

(* The services named by two lists together (queue.push_back on the queue). *)
LEMMA NamesOfConcat ==
    ASSUME NEW S, NEW s \in Seq(S), NEW t \in Seq(S)
    PROVE  Names(s \o t) = Names(s) \cup Names(t)
<1>1. /\ Len(s) \in Nat /\ Len(t) \in Nat /\ Len(s \o t) = Len(s) + Len(t)
      /\ \A i \in 1..Len(s) : (s \o t)[i] = s[i]
      /\ \A i \in 1..Len(t) : (s \o t)[Len(s) + i] = t[i]
      /\ \A i \in 1..Len(s) + Len(t) : i \in 1..Len(s) \/ i - Len(s) \in 1..Len(t)
    BY ConcatProperties
<1>2. Names(s \o t) \subseteq Names(s) \cup Names(t)
    <2> SUFFICES ASSUME NEW i \in 1..Len(s) + Len(t) PROVE (s \o t)[i] \in Names(s) \cup Names(t)
        BY <1>1 DEF Names
    <2>1. CASE i \in 1..Len(s)
        BY Zenon, <1>1, <2>1 DEF Names
    <2>2. CASE i - Len(s) \in 1..Len(t)
        <3>1. (s \o t)[i] = t[i - Len(s)]
            BY <1>1, <2>2
        <3> QED BY Zenon, <2>2, <3>1 DEF Names
    <2> QED BY Zenon, <1>1, <2>1, <2>2
<1>3. Names(s) \subseteq Names(s \o t)
    BY <1>1 DEF Names
<1>4. Names(t) \subseteq Names(s \o t)
    <2> SUFFICES ASSUME NEW i \in 1..Len(t) PROVE t[i] \in Names(s \o t)
        BY Zenon DEF Names
    <2>1. Len(s) + i \in 1..Len(s \o t)
        BY <1>1
    <2> QED BY Zenon, <1>1, <2>1 DEF Names
<1> QED BY Zenon, <1>2, <1>3, <1>4

(* 1..n is finite and has n members: the in-degree of a service is the      *)
(* length of its dependency list (graph.rs 68-74).                          *)
LEMMA IntervalSize ==
    ASSUME NEW n \in Nat
    PROVE  IsFiniteSet(1..n) /\ Cardinality(1..n) = n
<1>1. /\ IsFiniteSet(1..n)
      /\ Cardinality(1..n) = IF 1 > n THEN 0 ELSE n - 1 + 1
    BY FS_Interval
<1>2. (IF 1 > n THEN 0 ELSE n - 1 + 1) = n
    OBVIOUS
<1> QED BY <1>1, <1>2

(* The input seen through the map. *)
LEMMA MapTypes ==
    ASSUME manifests \in Seq(Manifest), NEW id \in Ids
    PROVE  /\ id \in Nat
           /\ Dependencies(id) \in Seq(ServiceIds)
           /\ Len(Dependencies(id)) \in Nat
           /\ Priority(id) \in Nat
<1>1. PICK i \in 1..Len(manifests) : manifests[i].service_id = id
    BY DEF Ids
<1>2. ManifestOf(id) \in Manifest
    <2>1. (CHOOSE k \in 1..Len(manifests) : manifests[k].service_id = id) \in 1..Len(manifests)
        BY Zenon, <1>1
    <2> QED BY <2>1 DEF ManifestOf
<1>3. id \in ServiceIds
    <2>1. manifests[i] \in Manifest
        BY <1>1
    <2> QED BY Zenon, <1>1, <2>1 DEF Manifest
<1> QED BY <1>2, <1>3, ServiceIdsAssumption DEF Manifest, Dependencies, Priority

(* The BTreeMap has finitely many keys. *)
LEMMA IdsFinite ==
    ASSUME manifests \in Seq(Manifest)
    PROVE  IsFiniteSet(Ids)
<1> DEFINE f == [i \in 1..Len(manifests) |-> manifests[i].service_id]
<1>1. f \in Surjection(1..Len(manifests), Ids)
    BY DEF Ids, Surjection
<1>2. IsFiniteSet(1..Len(manifests))
    BY FS_Interval
<1> QED BY Zenon, <1>1, <1>2, FS_Surjection

(* The input does not change. *)
LEMMA InputUnchanged ==
    ASSUME manifests' = manifests
    PROVE  /\ Ids' = Ids
           /\ \A id : Dependencies(id)' = Dependencies(id)
           /\ DuplicateServiceId' = DuplicateServiceId
           /\ MissingDependency' = MissingDependency
           /\ [id \in Ids |-> Dependencies(id)]' = [id \in Ids |-> Dependencies(id)]
<1>1. Ids' = Ids
    BY DEF Ids
<1>2. \A id : Dependencies(id)' = Dependencies(id)
    BY DEF Dependencies, ManifestOf
<1>3. DuplicateServiceId' = DuplicateServiceId
    BY DEF DuplicateServiceId
<1>4. MissingDependency' = MissingDependency
    BY Zenon, <1>1, <1>2 DEF MissingDependency
<1>5. [id \in Ids |-> Dependencies(id)]' = [id \in Ids |-> Dependencies(id)]
    BY Zenon, <1>1, <1>2
<1> QED BY Zenon, <1>1, <1>2, <1>3, <1>4, <1>5

(* A sorted enumeration repeats nothing. *)
LEMMA SortedIsInjective ==
    ASSUME manifests \in Seq(Manifest), NEW S \in SUBSET Ids, NEW u \in Seq(S),
           SortedEnumeration(u, S)
    PROVE  /\ \A i, j \in 1..Len(u) : u[i] = u[j] => i = j
           /\ Names(u) = S
<1>1. \A a \in Ids : ~Before(a, a)
    BY MapTypes DEF Before
<1>2. ASSUME NEW i \in 1..Len(u), NEW j \in 1..Len(u), i < j PROVE u[i] # u[j]
    <2>1. Before(u[i], u[j])
        BY Zenon, <1>2 DEF SortedEnumeration
    <2>2. u[i] \in Ids
        OBVIOUS
    <2> QED BY Zenon, <1>1, <2>1, <2>2
<1>3. \A i, j \in 1..Len(u) : u[i] = u[j] => i = j
    <2> SUFFICES ASSUME NEW i \in 1..Len(u), NEW j \in 1..Len(u), i # j PROVE u[i] # u[j]
        OBVIOUS
    <2>1. i < j \/ j < i
        OBVIOUS
    <2> QED BY Zenon, <1>2, <2>1
<1>4. Names(u) = S
    BY DEF Names, SortedEnumeration
<1> QED BY Zenon, <1>3, <1>4

(* What is unresolved is finite, and counts as much as the list is long     *)
(* before anything has been ordered.                                        *)
LEMMA UnresolvedFinite ==
    ASSUME manifests \in Seq(Manifest), NEW id \in Ids
    PROVE  /\ IsFiniteSet(Unresolved(id))
           /\ Cardinality(Unresolved(id)) \in Nat
           /\ start_order = << >> => Cardinality(Unresolved(id)) = Len(Dependencies(id))
<1>1. Len(Dependencies(id)) \in Nat
    BY Zenon, MapTypes
<1>2. /\ IsFiniteSet(1..Len(Dependencies(id)))
      /\ Cardinality(1..Len(Dependencies(id))) = Len(Dependencies(id))
    BY Zenon, <1>1, IntervalSize
<1>3. Unresolved(id) \in SUBSET (1..Len(Dependencies(id)))
    BY DEF Unresolved
<1>4. IsFiniteSet(Unresolved(id))
    BY Zenon, <1>2, <1>3, FS_Subset
<1>5. start_order = << >> => Unresolved(id) = 1..Len(Dependencies(id))
    BY DEF Unresolved, Names
<1> QED BY <1>2, <1>4, <1>5, FS_CardinalityType

(* The invariant holds when DependencyGraph::new is entered. *)
LEMMA InitInd == DgInit => DgIndInv
<1> SUFFICES ASSUME DgInit PROVE DgIndInv
    OBVIOUS
<1>1. manifests \in Seq(Manifest)
    BY Zenon, InputsAssumption DEF DgInit
<1>2. DgTypeOK
    BY <1>1 DEF DgInit, DgTypeOK
<1> QED BY Zenon, <1>2 DEF DgInit, DgIndInv, Sorting

(* Filling the in-degrees and the first ready list establishes LoopInv       *)
(* (graph.rs 66-90).                                                         *)
LEMMA PrepareInd ==
    ASSUME DgIndInv, Prepare
    PROVE  DgIndInv'
<1> DEFINE ready == {id \in Ids : Len(Dependencies(id)) = 0}
<1>1. DgTypeOK /\ manifests \in Seq(Manifest) /\ start_order = << >>
    BY Zenon DEF DgIndInv, DgTypeOK, Prepare
<1>2. /\ manifests' = manifests /\ start_order' = << >> /\ result' = "none" /\ pc' = "sort"
      /\ ~DuplicateServiceId /\ ~MissingDependency
      /\ indegree' = [id \in Ids |-> Len(Dependencies(id))]
    BY Zenon, <1>1 DEF Prepare, DgIndInv, DgTypeOK
<1>3. PICK u \in [1..Cardinality(ready) -> ready] : SortedEnumeration(u, ready) /\ queue' = u
    BY Zenon DEF Prepare
<1>4. ready \in SUBSET Ids /\ IsFiniteSet(ready) /\ Cardinality(ready) \in Nat
    BY <1>1, IdsFinite, FS_Subset, FS_CardinalityType
<1>5. u \in Seq(ready) /\ u \in Seq(Ids)
    <2>1. u \in Seq(ready)
        BY Zenon, <1>4, FunctionIsSeq
    <2> QED BY <1>4, <2>1, SeqMonotonic
<1>6. Ids' = Ids /\ (\A id : Dependencies(id)' = Dependencies(id))
    BY <1>2, InputUnchanged
<1> HIDE DEF ready
<1>7. Names(u) = ready /\ \A i, j \in 1..Len(u) : u[i] = u[j] => i = j
    BY <1>1, <1>3, <1>4, <1>5, SortedIsInjective
<1>8. DgTypeOK'
    <2>1. \A id \in Ids : Len(Dependencies(id)) \in Nat
        BY Zenon, <1>1, MapTypes
    <2> QED BY Zenon, <1>1, <1>2, <1>3, <1>5, <1>6, <2>1 DEF DgTypeOK
<1>9. Enqueued' = u
    <2>1. << >> \o u = u
        BY <1>5
    <2> QED BY Zenon, <1>2, <1>3, <2>1 DEF Enqueued
<1>10. \A id \in Ids : Cardinality(Unresolved(id))' = Len(Dependencies(id))
    <2>1. \A id \in Ids : Unresolved(id)' = Unresolved(id)
        BY Zenon, <1>1, <1>2, <1>6 DEF Unresolved
    <2> QED BY Zenon, <1>1, <2>1, UnresolvedFinite
<1>11. LoopInv'
    <2>1. (\A id \in Ids : indegree[id] = Cardinality(Unresolved(id)))'
        BY Zenon, <1>2, <1>6, <1>10
    <2>2. (\A id \in Ids : indegree[id] = 0 <=> id \in Names(Enqueued))'
        <3>1. \A id \in Ids : indegree'[id] = Len(Dependencies(id))
            BY Zenon, <1>2
        <3>2. Names(Enqueued)' = ready
            BY Zenon, <1>7, <1>9 DEF Names
        <3>3. \A id \in Ids : Len(Dependencies(id)) = 0 <=> id \in ready
            BY Zenon DEF ready
        <3> QED BY Zenon, <1>6, <3>1, <3>2, <3>3
    <2>3. (\A i, j \in 1..Len(Enqueued) : Enqueued[i] = Enqueued[j] => i = j)'
        BY <1>7, <1>9
    <2>4. DependenciesFirst(start_order, [id \in Ids |-> Dependencies(id)])'
        BY <1>2 DEF DependenciesFirst
    <2>5. ~DuplicateServiceId' /\ ~MissingDependency'
        BY <1>2, InputUnchanged
    <2> QED BY Zenon, <2>1, <2>2, <2>3, <2>4, <2>5 DEF LoopInv
<1> QED BY Zenon, <1>2, <1>8, <1>11 DEF DgIndInv

(* Concatenation by name, for the steps that only rearrange. *)
Cat(s, t) == s \o t

LEMMA CatAssociative ==
    ASSUME NEW S, NEW s \in Seq(S), NEW t \in Seq(S), NEW u \in Seq(S)
    PROVE  Cat(Cat(s, t), u) = Cat(s, Cat(t, u)) /\ Cat(s, t) \in Seq(S)
<1>1. (s \o t) \o u = s \o (t \o u)
    BY ConcatAssociative, SMTT(30)
<1>2. s \o t \in Seq(S)
    BY ConcatProperties
<1> QED BY <1>1, <1>2, Zenon DEF Cat

(* Moving the head of q to the end of s moves nothing in s and q together. *)
LEMMA MoveHead ==
    ASSUME NEW S, NEW s \in Seq(S), NEW q \in Seq(S), q # << >>, NEW u \in Seq(S)
    PROVE  Cat(Append(s, Head(q)), Cat(Tail(q), u)) = Cat(Cat(s, q), u)
<1> DEFINE one == <<Head(q)>>
           rest == Tail(q)
           a == Append(s, Head(q))
<1>1. one \in Seq(S) /\ rest \in Seq(S)
    BY HeadTailProperties
<1>2. Cat(one, rest) = q /\ a = Cat(s, one)
    BY HeadTailProperties, AppendIsConcat DEF Cat
<1> HIDE DEF one, rest, a
<1>3. Cat(a, rest) = Cat(s, q) /\ a \in Seq(S)
    BY <1>1, <1>2, CatAssociative
<1>4. Cat(a, Cat(rest, u)) = Cat(Cat(a, rest), u)
    BY <1>1, <1>3, CatAssociative
<1>5. Cat(a, Cat(rest, u)) = Cat(Cat(s, q), u)
    BY <1>3, <1>4
<1> QED BY <1>5 DEF a, rest

(* The members of a sequence over S. *)
LEMMA MemberOf ==
    ASSUME NEW S, NEW s \in Seq(S)
    PROVE  \A i \in 1..Len(s) : s[i] \in S
OBVIOUS

(* A turn of the loop only appends to what was ever queued, and takes out   *)
(* a service that had not been ordered yet.                                 *)
LEMMA EnqueuedGrows ==
    ASSUME DgIndInv, PopFront, NEW u \in Seq(Ids), queue' = Tail(queue) \o u
    PROVE  /\ Enqueued \in Seq(Ids) /\ Enqueued' = Enqueued \o u
           /\ Head(queue) \in Names(Enqueued) /\ Head(queue) \notin Names(start_order)
<1> DEFINE id == Head(queue)
<1>1. DgTypeOK /\ LoopInv /\ queue # << >>
    BY Zenon DEF DgIndInv, PopFront, Sorting
<1>2. start_order' = Append(start_order, id)
    BY Zenon DEF PopFront
<1>3. queue \in Seq(Ids) /\ start_order \in Seq(Ids) /\ id \in Ids /\ Tail(queue) \in Seq(Ids)
    BY Zenon, <1>1, HeadTailProperties DEF DgTypeOK
<1> HIDE DEF id
<1>4. Enqueued \in Seq(Ids) /\ Enqueued' = Enqueued \o u
    <2>1. Enqueued \in Seq(Ids)
        BY <1>3 DEF Enqueued
    <2>2. Cat(Append(start_order, id), Cat(Tail(queue), u)) = Cat(Cat(start_order, queue), u)
        BY <1>1, <1>3, MoveHead DEF id
    <2>3. Enqueued' = Append(start_order, id) \o (Tail(queue) \o u)
        BY <1>2, Zenon DEF Enqueued
    <2> QED BY <2>1, <2>2, <2>3, Zenon DEF Enqueued, Cat
<1>5. id \in Names(Enqueued) /\ id \notin Names(start_order)
    <2>1. /\ Len(queue) \in Nat /\ Len(queue) >= 1 /\ queue[1] = id
          /\ Len(start_order) \in Nat
        BY <1>1, <1>3 DEF id
    <2>2. /\ Len(Enqueued) = Len(start_order) + Len(queue)
          /\ \A i \in 1..Len(start_order) : Enqueued[i] = start_order[i]
          /\ Enqueued[Len(start_order) + 1] = id
        BY <1>3, <2>1, ConcatProperties DEF Enqueued
    <2>3. Len(start_order) + 1 \in 1..Len(Enqueued) /\ \A i \in 1..Len(start_order) : i \in 1..Len(Enqueued) /\ i # Len(start_order) + 1
        BY <2>1, <2>2
    <2>4. \A i \in 1..Len(start_order) : start_order[i] # id
        BY Zenon, <1>1, <2>2, <2>3 DEF LoopInv
    <2> QED BY Zenon, <2>2, <2>3, <2>4 DEF Names
<1> QED BY Zenon, <1>4, <1>5 DEF id

(* One turn of the loop. *)
LEMMA PopFrontInd ==
    ASSUME DgIndInv, PopFront
    PROVE  DgIndInv'
<1> DEFINE id == Head(queue)
           S == Unlocked(id)
<1>1. /\ DgTypeOK /\ manifests \in Seq(Manifest) /\ LoopInv /\ queue # << >>
      /\ pc = "sort" /\ result = "none"
    BY Zenon DEF DgIndInv, DgTypeOK, PopFront, Sorting
<1>2. /\ manifests' = manifests /\ pc' = pc /\ result' = result
      /\ start_order' = Append(start_order, id)
      /\ indegree' = Decremented(id)
    BY Zenon DEF PopFront
<1>3. PICK u \in [1..Cardinality(S) -> S] : SortedEnumeration(u, S) /\ queue' = Tail(queue) \o u
    BY Zenon DEF PopFront
<1>4. S \in SUBSET Ids /\ IsFiniteSet(S) /\ Cardinality(S) \in Nat
    <2>1. S \in SUBSET Ids
        BY DEF Unlocked
    <2> QED BY <1>1, <2>1, IdsFinite, FS_Subset, FS_CardinalityType
<1>5. u \in Seq(S) /\ u \in Seq(Ids)
    <2>1. u \in Seq(S)
        BY Zenon, <1>4, FunctionIsSeq
    <2> QED BY Zenon, <1>4, <2>1, SeqMonotonic
<1>6. queue \in Seq(Ids) /\ start_order \in Seq(Ids) /\ id \in Ids /\ Tail(queue) \in Seq(Ids)
    BY Zenon, <1>1, HeadTailProperties DEF DgTypeOK
<1>7. Ids' = Ids /\ (\A x : Dependencies(x)' = Dependencies(x))
    BY Zenon, <1>2, InputUnchanged
<1> HIDE DEF id, S
<1>8. Names(u) = S /\ \A i, j \in 1..Len(u) : u[i] = u[j] => i = j
    BY Zenon, <1>1, <1>3, <1>4, <1>5, SortedIsInjective
<1>9. Names(start_order') = Names(start_order) \cup {id}
    BY <1>2, <1>6, AppendProperties DEF Names
<1>10. /\ Enqueued \in Seq(Ids) /\ Enqueued' = Enqueued \o u
       /\ id \in Names(Enqueued) /\ id \notin Names(start_order)
    BY Zenon, <1>3, <1>5, EnqueuedGrows DEF id
<1>11. Names(Enqueued') = Names(Enqueued) \cup S
    BY <1>5, <1>8, <1>10, NamesOfConcat
<1>13. ASSUME NEW c \in Ids
       PROVE  /\ Unresolved(c)' = Unresolved(c) \ Occurrences(c, id)
              /\ Occurrences(c, id) \subseteq Unresolved(c)
              /\ IsFiniteSet(Unresolved(c))
              /\ indegree[c] = Cardinality(Unresolved(c))
              /\ indegree[c] \in Nat
              /\ Cardinality(Occurrences(c, id)) \in Nat
              /\ Cardinality(Occurrences(c, id)) <= indegree[c]
              /\ indegree'[c] = indegree[c] - Cardinality(Occurrences(c, id))
              /\ indegree'[c] = Cardinality(Unresolved(c))'
              /\ (indegree[c] = 0 <=> Unresolved(c) = {})
              /\ (Cardinality(Occurrences(c, id)) = 0 <=> Occurrences(c, id) = {})
    <2>1. Unresolved(c)' = Unresolved(c) \ Occurrences(c, id)
        BY Zenon, <1>7, <1>9 DEF Unresolved, Occurrences
    <2>2. Occurrences(c, id) \subseteq Unresolved(c)
        BY Zenon, <1>10 DEF Unresolved, Occurrences
    <2>3. IsFiniteSet(Unresolved(c)) /\ indegree[c] = Cardinality(Unresolved(c)) /\ indegree[c] \in Nat
        BY Zenon, <1>1, UnresolvedFinite DEF LoopInv
    <2>4. /\ IsFiniteSet(Occurrences(c, id))
          /\ Cardinality(Occurrences(c, id)) \in Nat
          /\ Cardinality(Occurrences(c, id)) <= Cardinality(Unresolved(c))
        BY Zenon, <2>2, <2>3, FS_Subset, FS_CardinalityType
    <2>5. Cardinality(Unresolved(c) \ Occurrences(c, id)) = Cardinality(Unresolved(c)) - Cardinality(Occurrences(c, id))
        <3>1. Unresolved(c) \cap Occurrences(c, id) = Occurrences(c, id)
            BY <2>2
        <3>2. Cardinality(Unresolved(c) \ Occurrences(c, id)) = Cardinality(Unresolved(c)) - Cardinality(Unresolved(c) \cap Occurrences(c, id))
            BY Zenon, <2>3, FS_Difference
        <3> QED BY Zenon, <3>1, <3>2
    <2>6. indegree'[c] = indegree[c] - Cardinality(Occurrences(c, id))
        BY <1>2, <2>3, <2>4 DEF Decremented
    <2>7. (indegree[c] = 0 <=> Unresolved(c) = {}) /\ (Cardinality(Occurrences(c, id)) = 0 <=> Occurrences(c, id) = {})
        BY Zenon, <2>3, <2>4, FS_EmptySet
    <2> QED BY <2>1, <2>2, <2>3, <2>4, <2>5, <2>6, <2>7
<1>14. DgTypeOK'
    <2>1. indegree' \in [Ids -> Nat]
        <3>1. indegree' = [c \in Ids |-> indegree'[c]]
            BY Zenon, <1>2 DEF Decremented
        <3>2. \A c \in Ids : indegree'[c] \in Nat
            BY <1>13
        <3> QED BY Zenon, <3>1, <3>2
    <2>2. queue' \in Seq(Ids) /\ start_order' \in Seq(Ids)
        BY <1>2, <1>3, <1>5, <1>6
    <2> QED BY Zenon, <1>1, <1>2, <1>7, <2>1, <2>2 DEF DgTypeOK
<1>15. \A c \in Ids : indegree'[c] = 0 <=> c \in Names(Enqueued')
    <2> SUFFICES ASSUME NEW c \in Ids PROVE indegree'[c] = 0 <=> c \in Names(Enqueued')
        OBVIOUS
    <2>1. c \in S <=> Occurrences(c, id) # {} /\ indegree[c] <= Cardinality(Occurrences(c, id))
        BY Zenon DEF S, Unlocked
    <2>2. c \in Names(Enqueued) <=> indegree[c] = 0
        BY Zenon, <1>1 DEF LoopInv
    <2> QED BY <1>11, <1>13, <2>1, <2>2
<1>16. \A i, j \in 1..Len(Enqueued') : Enqueued'[i] = Enqueued'[j] => i = j
    <2>1. \A c \in S : c \notin Names(Enqueued)
        <3> SUFFICES ASSUME NEW c \in S PROVE c \notin Names(Enqueued)
            OBVIOUS
        <3>1. c \in Ids /\ Occurrences(c, id) # {}
            BY Zenon DEF S, Unlocked
        <3>2. indegree[c] # 0
            BY Zenon, <1>13, <3>1
        <3> QED BY Zenon, <1>1, <3>1, <3>2 DEF LoopInv
    <2>2. /\ Len(Enqueued) \in Nat /\ Len(u) \in Nat
          /\ Len(Enqueued') = Len(Enqueued) + Len(u)
          /\ \A i \in 1..Len(Enqueued) + Len(u) :
                Enqueued'[i] = IF i <= Len(Enqueued) THEN Enqueued[i] ELSE u[i - Len(Enqueued)]
        BY <1>5, <1>10, ConcatProperties
    <2>3. \A i \in 1..Len(Enqueued) : Enqueued[i] \in Names(Enqueued)
        BY DEF Names
    <2>4. \A i \in 1..Len(u) : u[i] \in S
        BY Zenon, <1>8 DEF Names
    <2>5. \A i, j \in 1..Len(Enqueued) : Enqueued[i] = Enqueued[j] => i = j
        BY Zenon, <1>1 DEF LoopInv
    <2> SUFFICES ASSUME NEW i \in 1..Len(Enqueued'), NEW j \in 1..Len(Enqueued'),
                        Enqueued'[i] = Enqueued'[j]
                 PROVE  i = j
        OBVIOUS
    <2> DEFINE e == Len(Enqueued)
    <2>6. \A k \in 1..Len(Enqueued') : \/ k \in 1..e /\ Enqueued'[k] = Enqueued[k]
                                       \/ k - e \in 1..Len(u) /\ Enqueued'[k] = u[k - e]
        BY <2>2
    <2>7. CASE i \in 1..e /\ Enqueued'[i] = Enqueued[i]
        BY Zenon, <2>1, <2>3, <2>4, <2>5, <2>6, <2>7
    <2>8. CASE i - e \in 1..Len(u) /\ Enqueued'[i] = u[i - e]
        <3>1. j - e \in 1..Len(u) /\ u[i - e] = u[j - e]
            BY Zenon, <2>1, <2>3, <2>4, <2>6, <2>8
        <3>2. i - e = j - e
            BY Zenon, <1>8, <2>8, <3>1
        <3> QED BY <2>2, <3>2
    <2> QED BY Zenon, <2>6, <2>7, <2>8
<1>17. DependenciesFirst(start_order, [x \in Ids |-> Dependencies(x)])'
    <2>1. /\ Len(start_order) \in Nat /\ Len(start_order') = Len(start_order) + 1
          /\ \A i \in 1..Len(start_order) : start_order'[i] = start_order[i] /\ start_order[i] \in Ids
          /\ start_order'[Len(start_order) + 1] = id
        BY <1>2, <1>6, AppendProperties
    <2>2. \A d \in Names(Dependencies(id)) : d \in Names(start_order)
        <3>1. Unresolved(id) = {}
            BY Zenon, <1>1, <1>6, <1>10, <1>13 DEF LoopInv
        <3> QED BY <3>1 DEF Unresolved, Names
    <2>3. \A i \in 1..Len(start_order) : \A d \in Names(Dependencies(start_order[i])) : \E j \in 1..(i - 1) : start_order[j] = d
        BY Zenon, <1>1, <2>1 DEF LoopInv, DependenciesFirst
    <2>4. ASSUME NEW i \in 1..Len(start_order'), NEW d \in Names(Dependencies(start_order'[i]))
          PROVE  \E j \in 1..(i - 1) : start_order'[j] = d
        <3>1. CASE i \in 1..Len(start_order)
            <4>1. PICK j \in 1..(i - 1) : start_order[j] = d
                BY Zenon, <2>1, <2>3, <2>4, <3>1
            <4>2. j \in 1..Len(start_order)
                BY <2>1, <3>1
            <4> QED BY <2>1, <4>1, <4>2
        <3>2. CASE i = Len(start_order) + 1
            <4>1. d \in Names(start_order)
                BY Zenon, <2>1, <2>2, <2>4, <3>2
            <4>2. PICK j \in 1..Len(start_order) : start_order[j] = d
                BY Zenon, <4>1 DEF Names
            <4> QED BY <2>1, <3>2, <4>2
        <3> QED BY <2>1, <3>1, <3>2
    <2>5. \A i \in 1..Len(start_order') : start_order'[i] \in Ids
        BY <1>6, <2>1
    <2>6. [x \in Ids |-> Dependencies(x)]' = [x \in Ids |-> Dependencies(x)]
        BY Zenon, <1>2, InputUnchanged
    <2>7. DependenciesFirst(start_order', [x \in Ids |-> Dependencies(x)])
        BY Zenon, <2>4, <2>5 DEF DependenciesFirst
    <2> QED BY Zenon, <2>6, <2>7 DEF DependenciesFirst
<1>18. LoopInv'
    <2>1. ~DuplicateServiceId' /\ ~MissingDependency'
        BY <1>1, <1>2, InputUnchanged DEF LoopInv
    <2>2. (\A c \in Ids : indegree[c] = Cardinality(Unresolved(c)))'
        BY Zenon, <1>7, <1>13
    <2>3. (\A c \in Ids : indegree[c] = 0 <=> c \in Names(Enqueued))'
        BY Zenon, <1>7, <1>15 DEF Names
    <2> QED BY Zenon, <1>16, <1>17, <2>1, <2>2, <2>3 DEF LoopInv
<1> QED BY Zenon, <1>1, <1>2, <1>14, <1>18 DEF DgIndInv

(* Leaving the loop keeps it: ok and CircularDependency are told apart by    *)
(* the number of ordered services (graph.rs 114-121).                        *)
LEMMA FinishInd ==
    ASSUME DgIndInv, Finish
    PROVE  DgIndInv'
<1>1. DgTypeOK /\ LoopInv /\ pc = "sort" /\ queue = << >>
    BY DEF DgIndInv, Finish, Sorting
<1>2. /\ manifests' = manifests /\ indegree' = indegree /\ queue' = queue
      /\ start_order' = start_order /\ pc' = "done"
      /\ result' = IF Len(start_order) # Cardinality(Ids) THEN "CircularDependency" ELSE "ok"
    BY Zenon DEF Finish
<1>3. Ids' = Ids /\ (\A x : Dependencies(x)' = Dependencies(x))
    BY Zenon, <1>2, InputUnchanged
<1>4. DgTypeOK'
    BY Zenon, <1>1, <1>2, <1>3 DEF DgTypeOK
<1>5. LoopInv'
    <2>1. Enqueued' = Enqueued
        BY Zenon, <1>2 DEF Enqueued
    <2>2. \A x \in Ids : Unresolved(x)' = Unresolved(x)
        BY <1>2, <1>3 DEF Unresolved
    <2>3. DependenciesFirst(start_order, [x \in Ids |-> Dependencies(x)])' = DependenciesFirst(start_order, [x \in Ids |-> Dependencies(x)])
        BY <1>2, InputUnchanged, ZenonT(60) DEF DependenciesFirst
    <2>4. ~DuplicateServiceId' /\ ~MissingDependency'
        BY <1>1, <1>2, InputUnchanged DEF LoopInv
    <2>5. (\A x \in Ids : indegree[x] = Cardinality(Unresolved(x)))'
        BY <1>1, <1>2, <1>3, <2>2 DEF LoopInv
    <2>6. (\A x \in Ids : indegree[x] = 0 <=> x \in Names(Enqueued))'
        BY <1>1, <1>2, <1>3, <2>1 DEF LoopInv, Names
    <2>7. (\A i, j \in 1..Len(Enqueued) : Enqueued[i] = Enqueued[j] => i = j)'
        BY <1>1, <2>1 DEF LoopInv
    <2> QED BY Zenon, <1>1, <2>3, <2>4, <2>5, <2>6, <2>7 DEF LoopInv
<1> QED BY Zenon, <1>1, <1>2, <1>3, <1>4, <1>5 DEF DgIndInv

(* Every step of DependencyGraph::new preserves the invariant. *)
LEMMA NextInd == DgIndInv /\ [DgNext]_dgVars => DgIndInv'
<1> SUFFICES ASSUME DgIndInv, [DgNext]_dgVars PROVE DgIndInv'
    OBVIOUS
<1>1. CASE RejectDuplicate \/ RejectMissing
    <2>1. /\ UNCHANGED <<manifests, indegree, queue, start_order>> /\ pc' = "done"
          /\ result' \in {"DuplicateServiceId", "MissingDependency"}
        BY Zenon, <1>1 DEF RejectDuplicate, RejectMissing, Fail
    <2>2. Ids' = Ids
        BY Zenon, <2>1 DEF Ids
    <2> QED BY Zenon, <2>1, <2>2 DEF DgIndInv, DgTypeOK, Sorting
<1>2. CASE UNCHANGED dgVars
    <2>1. UNCHANGED <<manifests, pc, indegree, queue, start_order, result>>
        BY Zenon, <1>2 DEF dgVars
    <2>2. DgTypeOK' /\ Ids' = Ids
        BY Zenon, <2>1 DEF DgIndInv, DgTypeOK, Ids
    <2>3. LoopInv' = LoopInv
        <3>1. Enqueued' = Enqueued /\ (\A x : Dependencies(x)' = Dependencies(x))
            BY <2>1, InputUnchanged DEF Enqueued
        <3>2. \A x \in Ids : Unresolved(x)' = Unresolved(x)
            BY <2>1, <3>1 DEF Unresolved
        <3>3. DependenciesFirst(start_order, [x \in Ids |-> Dependencies(x)])' = DependenciesFirst(start_order, [x \in Ids |-> Dependencies(x)])
            BY <2>1, InputUnchanged, ZenonT(60) DEF DependenciesFirst
        <3>4. DuplicateServiceId' = DuplicateServiceId /\ MissingDependency' = MissingDependency
            BY <2>1, InputUnchanged
        <3> QED BY <2>1, <2>2, <3>1, <3>2, <3>3, <3>4 DEF LoopInv, Names
    <2> QED BY Zenon, <2>1, <2>2, <2>3 DEF DgIndInv, Sorting
<1> QED BY <1>1, <1>2, PrepareInd, PopFrontInd, FinishInd DEF DgNext, Done

(* The loop of DependencyGraph::new keeps its books for every list of       *)
(* manifests, of any length and with any dependency lists.                  *)
THEOREM LoopIsExact == DgSpec => []DgIndInv
BY InitInd, NextInd, PTL DEF DgSpec

-----------------------------------------------------------------------------
(* A repetition-free enumeration of part of a finite set that is as long as *)
(* the set is large misses nothing, and a shorter one misses something.     *)
LEMMA EnumerationSize ==
    ASSUME NEW S, IsFiniteSet(S), NEW s \in Seq(S),
           \A i, j \in 1..Len(s) : s[i] = s[j] => i = j
    PROVE  Len(s) = Cardinality(S) <=> Names(s) = S
<1>1. Len(s) \in Nat /\ s \in [1..Len(s) -> S]
    BY LenProperties
<1>2. s \in Injection(1..Len(s), S)
    BY <1>1 DEF Injection, IsInjective
<1>3. Cardinality(1..Len(s)) = Cardinality(S) <=> s \in Surjection(1..Len(s), S)
    BY <1>2, FS_Injection
<1>4. s \in Surjection(1..Len(s), S) <=> Names(s) = S
    BY <1>1 DEF Surjection, Names
<1> QED BY <1>1, <1>3, <1>4, IntervalSize

(* Accepted manifests are given a start order (graph.rs 121, 124-127): each *)
(* service exactly once, after all of its dependencies.                     *)
THEOREM AcceptedIsSorted == DgSpec => []ResultIsStartOrder
<1>1. DgIndInv => ResultIsStartOrder
    <2> SUFFICES ASSUME DgIndInv, result = "ok"
                 PROVE  IsStartOrder(start_order, Ids, [id \in Ids |-> Dependencies(id)])
        BY Zenon DEF ResultIsStartOrder
    <2>1. /\ DgTypeOK /\ LoopInv /\ queue = << >> /\ start_order \in Seq(Ids)
          /\ Len(start_order) = Cardinality(Ids) /\ manifests \in Seq(Manifest)
        BY DEF DgIndInv, DgTypeOK, Sorting
    <2>2. Enqueued = start_order
        BY <2>1 DEF Enqueued
    <2>3. \A i, j \in 1..Len(start_order) : start_order[i] = start_order[j] => i = j
        BY Zenon, <2>1, <2>2 DEF LoopInv
    <2>4. Names(start_order) = Ids
        BY Zenon, <2>1, <2>3, IdsFinite, EnumerationSize
    <2> QED BY Zenon, <2>1, <2>3, <2>4 DEF IsStartOrder, Enumerates, LoopInv, Names
<1> QED BY <1>1, LoopIsExact, PTL

(* A cycle is reported only if there is one (graph.rs 114-119).             *)
THEOREM ReportedCycleIsReal == DgSpec => []CycleIsReal
<1>1. DgIndInv => CycleIsReal
    <2> SUFFICES ASSUME DgIndInv, result = "CircularDependency"
                 PROVE  /\ Ids \ Names(start_order) # {}
                        /\ \A id \in Ids \ Names(start_order) :
                                Names(Dependencies(id)) \cap (Ids \ Names(start_order)) # {}
        BY Zenon DEF CycleIsReal
    <2>1. /\ DgTypeOK /\ LoopInv /\ queue = << >> /\ start_order \in Seq(Ids)
          /\ Len(start_order) # Cardinality(Ids) /\ manifests \in Seq(Manifest)
        BY DEF DgIndInv, DgTypeOK, Sorting
    <2>2. Enqueued = start_order
        BY <2>1 DEF Enqueued
    <2>3. Ids \ Names(start_order) # {}
        <3>1. Names(start_order) # Ids
            BY <2>1, <2>2, IdsFinite, EnumerationSize DEF LoopInv
        <3>2. Names(start_order) \subseteq Ids
            BY <2>1 DEF Names
        <3> QED BY Zenon, <3>1, <3>2
    <2>4. ASSUME NEW id \in Ids \ Names(start_order)
          PROVE  Names(Dependencies(id)) \cap (Ids \ Names(start_order)) # {}
        <3>1. Cardinality(Unresolved(id)) # 0
            BY Zenon, <2>1, <2>2 DEF LoopInv
        <3>2. Unresolved(id) # {}
            BY Zenon, <3>1, FS_EmptySet
        <3>3. PICK i \in 1..Len(Dependencies(id)) : Dependencies(id)[i] \notin Names(start_order)
            BY Zenon, <3>2 DEF Unresolved
        <3>4. Dependencies(id)[i] \in Names(Dependencies(id)) /\ Dependencies(id)[i] \in Ids
            BY Zenon, <2>1 DEF Names, LoopInv, MissingDependency
        <3> QED BY Zenon, <3>3, <3>4
    <2> QED BY Zenon, <2>3, <2>4
<1> QED BY <1>1, LoopIsExact, PTL

-----------------------------------------------------------------------------
(* What was ever queued is in the order of (priority, id) wherever the      *)
(* dependencies do not decide.                                              *)
QueuedByPriority ==
    \A i, j \in 1..Len(Enqueued) :
        i < j /\ Names(Dependencies(Enqueued[i])) = Names(Dependencies(Enqueued[j]))
            => Before(Enqueued[i], Enqueued[j])

(* The order of (priority, id) is read off the input. *)
LEMMA OrderUnchanged ==
    ASSUME manifests' = manifests
    PROVE  /\ \A a, b : Before(a, b)' <=> Before(a, b)
           /\ \A id : Names(Dependencies(id))' = Names(Dependencies(id))
           /\ Enqueued' = Enqueued => (QueuedByPriority => QueuedByPriority')
<1>1. \A a, b : Before(a, b)' <=> Before(a, b)
    BY DEF Before, Priority, ManifestOf
<1>2. \A id : Names(Dependencies(id))' = Names(Dependencies(id))
    <2>1. \A id : Dependencies(id)' = Dependencies(id)
        BY Zenon DEF Dependencies, ManifestOf
    <2> QED BY Zenon, <2>1 DEF Names
<1>3. ASSUME Enqueued' = Enqueued, QueuedByPriority PROVE QueuedByPriority'
    BY Zenon, <1>1, <1>2, <1>3 DEF QueuedByPriority
<1> QED BY Zenon, <1>1, <1>2, <1>3

(* A service that is unlocked now has a dependency that nothing queued      *)
(* before can have: whatever was queued before has all of its dependencies  *)
(* ordered, and the one just taken out was not.                             *)
LEMMA PopFrontByPriority ==
    ASSUME DgIndInv, QueuedByPriority, PopFront
    PROVE  QueuedByPriority'
<1> DEFINE id == Head(queue)
           S == Unlocked(id)
           n == Len(Enqueued)
<1>1. DgTypeOK /\ LoopInv /\ manifests \in Seq(Manifest) /\ manifests' = manifests
    BY Zenon DEF DgIndInv, DgTypeOK, PopFront, Sorting
<1>2. PICK u \in [1..Cardinality(S) -> S] : SortedEnumeration(u, S) /\ queue' = Tail(queue) \o u
    BY Zenon DEF PopFront
<1>3. u \in Seq(S) /\ u \in Seq(Ids)
    <2>1. S \in SUBSET Ids
        BY DEF Unlocked
    <2>2. Cardinality(S) \in Nat
        BY <1>1, <2>1, IdsFinite, FS_Subset, FS_CardinalityType
    <2>3. u \in Seq(S)
        BY Zenon, <2>2, FunctionIsSeq
    <2> QED BY <2>1, <2>3, SeqMonotonic
<1>4. /\ Enqueued \in Seq(Ids) /\ Enqueued' = Enqueued \o u
      /\ id \notin Names(start_order)
    BY Zenon, <1>2, <1>3, EnqueuedGrows
<1>5. /\ n \in Nat /\ Len(u) \in Nat /\ Len(Enqueued') = n + Len(u)
      /\ \A i \in 1..n : Enqueued'[i] = Enqueued[i] /\ Enqueued[i] \in Ids
      /\ \A i \in 1..Len(u) : Enqueued'[n + i] = u[i] /\ u[i] \in S
    <2>1. n \in Nat /\ Len(u) \in Nat
        BY <1>3, <1>4
    <2>2. \A i \in 1..n : Enqueued[i] \in Ids
        BY <1>4
    <2>3. \A i \in 1..Len(u) : u[i] \in S
        <3> HIDE DEF S
        <3> QED BY Zenon, <1>3, MemberOf
    <2>4. /\ Len(Enqueued \o u) = n + Len(u)
          /\ \A i \in 1..n : (Enqueued \o u)[i] = Enqueued[i]
          /\ \A i \in 1..Len(u) : (Enqueued \o u)[n + i] = u[i]
        <3> HIDE DEF S
        <3> QED BY <1>3, <1>4, ConcatProperties
    <2> QED BY <1>4, <2>1, <2>2, <2>3, <2>4
<1>6. ASSUME NEW i \in 1..n PROVE id \notin Names(Dependencies(Enqueued[i]))
    <2>1. Enqueued[i] \in Ids /\ Enqueued[i] \in Names(Enqueued)
        BY <1>5 DEF Names
    <2>2. Unresolved(Enqueued[i]) = {}
        <3>1. Cardinality(Unresolved(Enqueued[i])) = 0 /\ IsFiniteSet(Unresolved(Enqueued[i]))
            BY Zenon, <1>1, <2>1, UnresolvedFinite DEF LoopInv
        <3> QED BY <3>1, FS_EmptySet
    <2> QED BY Zenon, <1>4, <2>2 DEF Unresolved, Names
<1>7. ASSUME NEW c \in S PROVE id \in Names(Dependencies(c))
    BY Zenon DEF Unlocked, Occurrences, Names
<1> HIDE DEF id, S, n
<1>8. ASSUME NEW i \in 1..Len(Enqueued'), NEW j \in 1..Len(Enqueued'), i < j,
             Names(Dependencies(Enqueued'[i])) = Names(Dependencies(Enqueued'[j]))
      PROVE  Before(Enqueued'[i], Enqueued'[j])
    <2>1. CASE j \in 1..n
        <3>1. i \in 1..n
            BY <1>5, <1>8, <2>1
        <3> QED BY Zenon, <1>5, <1>8, <2>1, <3>1 DEF QueuedByPriority, n
    <2>2. CASE j \notin 1..n
        <3>1. j - n \in 1..Len(u) /\ Enqueued'[j] = u[j - n]
            <4>1. j - n \in 1..Len(u) /\ n + (j - n) = j
                BY <1>5, <2>2
            <4> QED BY Zenon, <1>5, <4>1
        <3>2. id \in Names(Dependencies(Enqueued'[j]))
            BY Zenon, <1>5, <1>7, <3>1
        <3>3. i \notin 1..n
            BY Zenon, <1>5, <1>6, <1>8, <3>2
        <3>4. i - n \in 1..Len(u) /\ Enqueued'[i] = u[i - n] /\ i - n < j - n
            <4>1. i - n \in 1..Len(u) /\ n + (i - n) = i /\ i - n < j - n
                BY <1>5, <1>8, <3>3
            <4> QED BY Zenon, <1>5, <4>1
        <3> QED BY Zenon, <1>2, <3>1, <3>4 DEF SortedEnumeration
    <2> QED BY Zenon, <2>1, <2>2
<1> QED BY Zenon, <1>1, <1>8, OrderUnchanged DEF QueuedByPriority

(* Every step of DependencyGraph::new keeps that order. *)
LEMMA NextByPriority == DgIndInv /\ QueuedByPriority /\ [DgNext]_dgVars => QueuedByPriority'
<1> SUFFICES ASSUME DgIndInv, QueuedByPriority, [DgNext]_dgVars PROVE QueuedByPriority'
    OBVIOUS
<1>1. CASE Prepare
    <2> DEFINE ready == {id \in Ids : Len(Dependencies(id)) = 0}
    <2>1. PICK u \in [1..Cardinality(ready) -> ready] : SortedEnumeration(u, ready) /\ queue' = u
        BY Zenon, <1>1 DEF Prepare
    <2>2. start_order' = << >> /\ manifests' = manifests /\ manifests \in Seq(Manifest)
        BY <1>1 DEF Prepare, DgIndInv, DgTypeOK
    <2>3. Cardinality(ready) \in Nat
        BY <2>2, IdsFinite, FS_Subset, FS_CardinalityType
    <2>4. u \in Seq(ready)
        BY Zenon, <2>3, FunctionIsSeq
    <2> HIDE DEF ready
    <2>5. Enqueued' = u
        <3>1. << >> \o u = u
            BY <2>4
        <3> QED BY <2>1, <2>2, <3>1 DEF Enqueued
    <2> QED BY Zenon, <2>1, <2>2, <2>5, OrderUnchanged DEF QueuedByPriority, SortedEnumeration
<1>2. CASE UNCHANGED <<manifests, queue, start_order>>
    <2>1. Enqueued' = Enqueued
        BY <1>2 DEF Enqueued
    <2> QED BY <1>2, <2>1, OrderUnchanged
<1> QED BY Zenon, <1>1, <1>2, PopFrontByPriority DEF DgNext, RejectDuplicate, RejectMissing, Fail, Finish, Done, dgVars

(* Services whose dependencies are the same start in the order of their     *)
(* priority, then of their ids, for every list of manifests (graph.rs       *)
(* 82-90, 100-110).                                                         *)
THEOREM TiesAreBrokenByPriority == DgSpec => []TiesByPriority
<1>1. DgInit => QueuedByPriority
    <2>1. ASSUME DgInit PROVE Enqueued = << >>
        BY <2>1 DEF DgInit, Enqueued
    <2> QED BY <2>1 DEF QueuedByPriority
<1>2. DgIndInv /\ QueuedByPriority => TiesByPriority
    <2> SUFFICES ASSUME DgIndInv, QueuedByPriority, NEW i \in 1..Len(start_order), NEW j \in 1..Len(start_order), i < j,
                        Names(Dependencies(start_order[i])) = Names(Dependencies(start_order[j]))
                 PROVE  Before(start_order[i], start_order[j])
        BY Zenon DEF TiesByPriority, Before
    <2>1. start_order \in Seq(Ids) /\ queue \in Seq(Ids)
        BY Zenon DEF DgIndInv, DgTypeOK
    <2>2. /\ Len(start_order) \in Nat /\ Len(queue) \in Nat
          /\ Len(Enqueued) = Len(start_order) + Len(queue)
          /\ \A k \in 1..Len(start_order) : Enqueued[k] = start_order[k]
        BY <2>1, ConcatProperties DEF Enqueued
    <2>3. i \in 1..Len(Enqueued) /\ j \in 1..Len(Enqueued)
        BY <2>2
    <2> QED BY Zenon, <2>2, <2>3 DEF QueuedByPriority
<1> QED BY <1>1, <1>2, NextByPriority, LoopIsExact, PTL DEF DgSpec

-----------------------------------------------------------------------------
(* The services can be started in some order, each after its dependencies.  *)
Startable == \E order : IsStartOrder(order, Ids, [id \in Ids |-> Dependencies(id)])

(* A nonempty set of naturals has a least member.                           *)
LEMMA LeastPlace ==
    ASSUME NEW T \in SUBSET Nat, T # {}
    PROVE  \E m \in T : \A n \in T : m <= n
<1>1. PICK m \in T : \A n \in T : ~(<<n, m>> \in OpToRel(<, Nat))
    BY Zenon, NatLessThanWellFounded, WFMin
<1>2. \A n \in T : ~ (n < m)
    BY Zenon, <1>1 DEF OpToRel
<1> QED BY <1>2

(* Services each of which waits for another one of them cannot be started:  *)
(* the first of them in an order has a dependency that comes later.         *)
LEMMA WaitingInCircles ==
    ASSUME NEW R \in SUBSET Ids, R # {}, \A id \in R : Names(Dependencies(id)) \cap R # {}
    PROVE  ~ Startable
<1> SUFFICES ASSUME NEW order, IsStartOrder(order, Ids, [id \in Ids |-> Dependencies(id)])
             PROVE  FALSE
    BY Zenon DEF Startable
<1> DEFINE T == {i \in 1..Len(order) : order[i] \in R}
<1>1. /\ order \in Seq(Ids)
      /\ \A s \in Ids : \E i \in 1..Len(order) : order[i] = s
    BY Zenon DEF IsStartOrder, Enumerates
<1>2. T \in SUBSET Nat /\ T # {}
    <2>1. T \in SUBSET Nat
        OBVIOUS
    <2> QED BY Zenon, <1>1, <2>1
<1>3. PICK k \in T : \A n \in T : k <= n
    <2> HIDE DEF T
    <2> QED BY Zenon, <1>2, LeastPlace
<1>4. k \in 1..Len(order) /\ order[k] \in R /\ order[k] \in Ids
    BY Zenon, <1>3
<1>5. PICK d \in R : d \in Names(Dependencies(order[k]))
    BY Zenon, <1>4
<1>6. PICK j \in 1..(k - 1) : order[j] = d
    <2>1. [id \in Ids |-> Dependencies(id)][order[k]] = Dependencies(order[k])
        BY Zenon, <1>4
    <2>2. \A x \in Names([id \in Ids |-> Dependencies(id)][order[k]]) :
              \E i \in 1..(k - 1) : order[i] = x
        BY Zenon, <1>4 DEF IsStartOrder, DependenciesFirst
    <2> QED BY Zenon, <1>5, <2>1, <2>2
<1>7. j \in 1..Len(order) /\ ~ (k <= j)
    <2>1. Len(order) \in Nat
        BY <1>1
    <2> HIDE DEF T
    <2> QED BY <1>4, <1>6, <2>1
<1>8. j \in T
    BY Zenon, <1>5, <1>6, <1>7
<1> QED BY Zenon, <1>3, <1>7, <1>8

(* Nor can a service whose dependency is not in the list.                   *)
LEMMA MissingIsFatal == MissingDependency => ~ Startable
<1> SUFFICES ASSUME MissingDependency, NEW order,
                    IsStartOrder(order, Ids, [id \in Ids |-> Dependencies(id)])
             PROVE  FALSE
    BY Zenon DEF Startable
<1>1. PICK id \in Ids : \E d \in Names(Dependencies(id)) : d \notin Ids
    BY Zenon DEF MissingDependency
<1> PICK d \in Names(Dependencies(id)) : d \notin Ids
    BY Zenon, <1>1
<1>2. /\ order \in Seq(Ids) /\ Len(order) \in Nat
      /\ \A s \in Ids : \E i \in 1..Len(order) : order[i] = s
    <2>1. order \in Seq(Ids)
        BY Zenon DEF IsStartOrder, Enumerates
    <2>2. Len(order) \in Nat
        BY <2>1
    <2> QED BY Zenon, <2>1, <2>2 DEF IsStartOrder, Enumerates
<1>3. PICK k \in 1..Len(order) : order[k] = id
    BY Zenon, <1>2
<1>4. PICK j \in 1..(k - 1) : order[j] = d
    <2>1. [x \in Ids |-> Dependencies(x)][order[k]] = Dependencies(id)
        BY Zenon, <1>3
    <2> QED BY Zenon, <1>1, <1>3, <2>1 DEF IsStartOrder, DependenciesFirst
<1>5. order[j] \in Ids
    <2>1. \A n \in Nat : \A x \in 1..n : \A y \in 1..(x - 1) : y \in 1..n
        OBVIOUS
    <2>2. j \in 1..Len(order)
        BY Zenon, <1>2, <2>1
    <2>3. \A S : \A s \in Seq(S) : \A i \in 1..Len(s) : s[i] \in S
        OBVIOUS
    <2> QED BY Zenon, <1>2, <2>2, <2>3
<1> QED BY Zenon, <1>1, <1>4, <1>5

(* The error is of the list the graph was built from.                       *)
MissingTold == result = "MissingDependency" => MissingDependency

LEMMA MissingToldStep == MissingTold /\ [DgNext]_dgVars => MissingTold'
<1> SUFFICES ASSUME MissingTold, [DgNext]_dgVars PROVE MissingTold'
    OBVIOUS
<1>1. MissingDependency => MissingDependency'
    <2>1. manifests' = manifests
        BY Zenon DEF DgNext, RejectDuplicate, RejectMissing, Fail, Prepare, PopFront, Finish, Done, dgVars
    <2>2. Ids' = Ids
        BY Zenon, <2>1 DEF Ids
    <2>3. \A id : Names(Dependencies(id))' = Names(Dependencies(id))
        BY Zenon, <2>1, OrderUnchanged
    <2> QED BY Zenon, <2>2, <2>3 DEF MissingDependency
<1>2. result' = "MissingDependency" => result = "MissingDependency" \/ MissingDependency
    <2>1. CASE RejectDuplicate
        BY <2>1 DEF RejectDuplicate, Fail
    <2>2. CASE RejectMissing
        BY Zenon, <2>2 DEF RejectMissing
    <2>3. CASE Finish
        BY <2>3 DEF Finish
    <2>4. CASE result' = result
        BY Zenon, <2>4
    <2> QED BY Zenon, <2>1, <2>2, <2>3, <2>4 DEF DgNext, Prepare, PopFront, Done, dgVars
<1> QED BY Zenon, <1>1, <1>2 DEF MissingTold

(* DependencyGraph::new decides the question: a list it accepts can be      *)
(* started in the order it returns, and one it refuses for a missing or a   *)
(* circular dependency in no order at all, for every list of manifests.     *)
THEOREM VerdictIsExact ==
    DgSpec => [](/\ result = "ok" => Startable
                 /\ result \in {"MissingDependency", "CircularDependency"} => ~ Startable)
<1> DEFINE Exact == /\ result = "ok" => Startable
                    /\ result \in {"MissingDependency", "CircularDependency"} => ~ Startable
<1>1. DgInit => MissingTold
    BY Zenon DEF DgInit, MissingTold
<1>2. ResultIsStartOrder /\ CycleIsReal /\ MissingTold => Exact
    <2> SUFFICES ASSUME ResultIsStartOrder, CycleIsReal, MissingTold PROVE Exact
        OBVIOUS
    <2>1. ASSUME result = "ok" PROVE Startable
        BY Zenon, <2>1 DEF ResultIsStartOrder, Startable
    <2>2. ASSUME result = "MissingDependency" PROVE ~ Startable
        BY Zenon, <2>2, MissingIsFatal DEF MissingTold
    <2>3. ASSUME result = "CircularDependency" PROVE ~ Startable
        <3> DEFINE R == Ids \ Names(start_order)
        <3>1. R \in SUBSET Ids /\ R # {} /\ \A id \in R : Names(Dependencies(id)) \cap R # {}
            BY Zenon, <2>3 DEF CycleIsReal
        <3> HIDE DEF R
        <3> QED BY Zenon, <3>1, WaitingInCircles
    <2> QED BY <2>1, <2>2, <2>3
<1> QED BY <1>1, <1>2, MissingToldStep, AcceptedIsSorted, ReportedCycleIsReal, PTL DEF DgSpec

-----------------------------------------------------------------------------
(* The device registry (Devices), for any devices and every limit.          *)

(* A pairing under way was begun; the rest is the property itself.          *)
DevInv ==
    /\ registry \in [Devices -> PairingState \union {Unregistered}]
    /\ \A d \in Devices : registry[d] \in {"Pairing", "Paired"} => d \in begun
    /\ Cardinality(Registered) <= DEVICE_REGISTRY_LIMIT

(* The registered devices are finitely many, and what a step adds to them   *)
(* or takes from them.                                                      *)
LEMMA RegisteredCount ==
    ASSUME NEW S \in SUBSET Devices, NEW d \in Devices
    PROVE  /\ Cardinality(S) \in Nat
           /\ d \notin S => Cardinality(S \union {d}) = Cardinality(S) + 1
           /\ Cardinality(S \ {d}) <= Cardinality(S)
<1>1. IsFiniteSet(S)
  BY Zenon, DevicesAssumption, FS_Subset
<1>2. Cardinality(S) \in Nat
  BY Zenon, <1>1, FS_CardinalityType
<1>3. d \notin S => Cardinality(S \union {d}) = Cardinality(S) + 1
  BY Zenon, <1>1, FS_AddElement
<1>4. Cardinality(S \ {d}) = IF d \in S THEN Cardinality(S) - 1 ELSE Cardinality(S)
  BY Zenon, <1>1, FS_RemoveElement
<1> QED BY <1>2, <1>3, <1>4

(* Every step of the daemon and of the peers keeps the invariant.           *)
LEMMA DevStepKeeps == DevInv /\ [DevNext]_devVars => DevInv'
<1> SUFFICES ASSUME DevInv, [DevNext]_devVars PROVE DevInv'
  OBVIOUS
<1>0. Registered \in SUBSET Devices
  BY DEF Registered
<1>1. ASSUME NEW d \in Devices, register(d) PROVE DevInv'
  <2>1. Registered' = Registered \union {d}
    BY Zenon, <1>1 DEF register, Registered, DevInv, Unregistered
  <2>2. Cardinality(Registered') <= DEVICE_REGISTRY_LIMIT
    BY <1>0, <1>1, <2>1, RegisteredCount, DevicesAssumption DEF register
  <2> QED BY Zenon, <1>1, <2>2 DEF register, DevInv, PairingState
<1>2. ASSUME NEW d \in Devices, pair_begin(d) PROVE DevInv'
  <2>1. Registered' = Registered
    BY <1>2 DEF pair_begin, transition, Registered, DevInv, Unregistered
  <2> QED BY Zenon, <1>2, <2>1 DEF pair_begin, transition, DevInv, PairingState
<1>3. ASSUME NEW d \in Devices, pair_complete(d) PROVE DevInv'
  <2>1. Registered' = Registered
    BY Zenon, <1>3 DEF pair_complete, transition, Registered, DevInv, Unregistered
  <2> QED BY Zenon, <1>3, <2>1 DEF pair_complete, transition, DevInv, PairingState
<1>4. ASSUME NEW d \in Devices, revoke(d) PROVE DevInv'
  <2>1. Registered' = Registered
    BY Zenon, <1>4 DEF revoke, transition, Registered, DevInv, Unregistered
  <2> QED BY Zenon, <1>4, <2>1 DEF revoke, transition, DevInv, PairingState
<1>5. ASSUME NEW d \in Devices, unregister(d) PROVE DevInv'
  <2>1. Registered' = Registered \ {d}
    BY Zenon, <1>5 DEF unregister, Registered, DevInv, Unregistered
  <2>2. Cardinality(Registered') <= DEVICE_REGISTRY_LIMIT
    <3>1. Cardinality(Registered \ {d}) \in Nat
      BY Zenon, <1>0, RegisteredCount
    <3> QED BY <1>0, <2>1, <3>1, RegisteredCount, DevicesAssumption DEF DevInv
  <2> QED BY Zenon, <1>5, <2>2 DEF unregister, DevInv, Unregistered
<1>6. ASSUME NEW d \in Devices, PeerAccepts(d) \/ RequestExpires(d) PROVE DevInv'
  BY <1>6 DEF PeerAccepts, RequestExpires, DevInv, Registered
<1>7. CASE UNCHANGED devVars
  BY <1>7 DEF devVars, DevInv, Registered
<1> QED BY Zenon, <1>1, <1>2, <1>3, <1>4, <1>5, <1>6, <1>7 DEF DevNext

(* For any devices and any limit: a late or repeated completion pairs       *)
(* nothing that is not being paired, and the registry stays within bounds.  *)
THEOREM PairedWasBegun == DevSpec => []PairedMeansBegun
<1>1. DevInit => DevInv
  <2> SUFFICES ASSUME DevInit PROVE DevInv
    OBVIOUS
  <2>1. Registered = {}
    BY DEF DevInit, Registered
  <2>2. Cardinality(Registered) <= DEVICE_REGISTRY_LIMIT
    BY <2>1, FS_EmptySet, DevicesAssumption
  <2> QED BY Zenon, <2>2 DEF DevInit, DevInv, Unregistered
<1>2. DevInv => PairedMeansBegun
  BY Zenon DEF DevInv, PairedMeansBegun, paired, Registered
<1> QED BY <1>1, <1>2, DevStepKeeps, PTL DEF DevSpec

-----------------------------------------------------------------------------
(* Remote delivery (RemoteDelivery): what a paired peer sends is taken in   *)
(* order, once and in time, for every skew window, every clock and any      *)
(* number of messages in the network.                                       *)

Message == [kind : RemoteDeliveryKind, seq : Nat, timestamp : Nat]

Taken == [kind : RemoteDeliveryKind, seq : Nat, age : Int]

(* The property is inductive once the types are known: every message taken  *)
(* has a number up to the last of its kind, which a later one must exceed.  *)
RemoteInv ==
    /\ now \in Nat /\ next_seq \in Nat
    /\ network \subseteq Message
    /\ last_seq \in [RemoteDeliveryKind -> Nat]
    /\ accepted \in Seq(Taken)
    /\ DeliveredInOrder

(* Nothing is taken at the start.                                           *)
LEMMA RemoteInitHolds == RemoteInit => RemoteInv
BY DEF RemoteInit, RemoteInv, DeliveredInOrder, RemoteDeliveryKind

(* What one accepted message does to the record.                            *)
LEMMA Taking ==
    ASSUME NEW s \in Seq(Taken), NEW last \in [RemoteDeliveryKind -> Nat], NEW e \in Taken,
           last[e.kind] < e.seq,
           \A i \in DOMAIN s : s[i].seq <= last[s[i].kind],
           \A i, j \in DOMAIN s : i < j /\ s[i].kind = s[j].kind => s[i].seq < s[j].seq
    PROVE  LET t == Append(s, e)
           IN  /\ t \in Seq(Taken) /\ t[Len(s) + 1] = e /\ Len(s) + 1 \in DOMAIN t
               /\ \A i \in DOMAIN s : i \in DOMAIN t /\ t[i] = s[i]
               /\ \A i \in DOMAIN t : i \in DOMAIN s \/ i = Len(s) + 1
               /\ \A i \in DOMAIN t : t[i].kind = e.kind => t[i].seq <= e.seq
               /\ \A i, j \in DOMAIN t :
                     i < j /\ t[i].kind = t[j].kind => t[i].seq < t[j].seq
<1> DEFINE t == Append(s, e)
<1>1. /\ t \in Seq(Taken) /\ Len(s) \in Nat /\ Len(t) = Len(s) + 1
      /\ DOMAIN t = 1..(Len(s) + 1) /\ DOMAIN s = 1..Len(s)
  OBVIOUS
<1>2. t[Len(s) + 1] = e /\ \A i \in DOMAIN s : t[i] = s[i] /\ s[i] \in Taken
  OBVIOUS
<1>3. /\ Len(s) + 1 \in DOMAIN t /\ \A i \in DOMAIN s : i \in DOMAIN t
      /\ \A i \in DOMAIN t : i \in DOMAIN s \/ i = Len(s) + 1
  BY <1>1
<1> HIDE DEF t
<1>4. ASSUME NEW i \in DOMAIN s, s[i].kind = e.kind PROVE s[i].seq < e.seq
  <2>1. s[i].seq \in Nat /\ e.seq \in Nat /\ last[e.kind] \in Nat /\ s[i].seq <= last[e.kind]
    BY Zenon, <1>2, <1>4 DEF Taken
  <2> QED BY <2>1
<1>5. \A i \in DOMAIN t : t[i].kind = e.kind => t[i].seq <= e.seq
  <2> SUFFICES ASSUME NEW i \in DOMAIN t, t[i].kind = e.kind PROVE t[i].seq <= e.seq
    OBVIOUS
  <2>1. CASE i \in DOMAIN s
    <3>1. s[i].seq < e.seq /\ s[i].seq \in Nat /\ e.seq \in Nat /\ t[i] = s[i]
      BY Zenon, <1>2, <1>4, <2>1 DEF Taken
    <3> QED BY <3>1
  <2>2. CASE i = Len(s) + 1
    BY <1>2, <2>2 DEF Taken
  <2> QED BY Zenon, <1>3, <2>1, <2>2
<1>6. \A i, j \in DOMAIN t : i < j /\ t[i].kind = t[j].kind => t[i].seq < t[j].seq
  <2> SUFFICES ASSUME NEW i \in DOMAIN t, NEW j \in DOMAIN t, i < j, t[i].kind = t[j].kind
               PROVE  t[i].seq < t[j].seq
    OBVIOUS
  <2>1. i \in DOMAIN s
    BY <1>1
  <2>2. CASE j \in DOMAIN s
    BY Zenon, <1>2, <2>1, <2>2
  <2>3. CASE j = Len(s) + 1
    BY Zenon, <1>2, <1>4, <2>1, <2>3
  <2> QED BY Zenon, <1>3, <2>2, <2>3
<1> QED BY Zenon, <1>1, <1>2, <1>3, <1>5, <1>6 DEF t

(* A difference that saturates bounds the one that does not: saturating_sub. *)
LEMMA Saturating ==
    ASSUME NEW t \in Nat, NEW u \in Nat, saturating_sub(t, u) <= skew_ms
    PROVE  t - u \in Int /\ t - u <= skew_ms
BY RemoteAssumption DEF saturating_sub

(* A delivery, taken or rejected, the last time or not.                     *)
LEMMA AcceptKeeps ==
    ASSUME RemoteInv, NEW m \in network, NEW again \in BOOLEAN, accept(m, again)
    PROVE  RemoteInv'
<1>1. m \in Message /\ now \in Nat
  BY Zenon DEF RemoteInv
<1>2. network' \subseteq network /\ UNCHANGED <<grant, now, next_seq>>
  BY Zenon DEF accept
<1>3. CASE ~ accept_remote_delivery(m)
  BY Zenon, <1>2, <1>3 DEF accept, RemoteInv, DeliveredInOrder
<1>4. CASE accept_remote_delivery(m)
  <2> DEFINE k == m.kind
             e == [kind |-> m.kind, seq |-> m.seq, age |-> now - m.timestamp]
             t == Append(accepted, e)
             n == Len(accepted) + 1
  <2>1. /\ k \in RemoteDeliveryKind /\ k \in grant /\ m.seq \in Nat /\ m.timestamp \in Nat
        /\ last_seq[k] < m.seq /\ saturating_sub(now, m.timestamp) <= skew_ms
    BY Zenon, <1>1, <1>4 DEF accept_remote_delivery, Message
  <2>2. now - m.timestamp \in Int /\ now - m.timestamp <= skew_ms
    BY Zenon, <1>1, <2>1, Saturating
  <2>3. /\ e \in Taken /\ e.kind = k /\ e.seq = m.seq /\ e.age = now - m.timestamp
    BY Zenon, <2>1, <2>2 DEF Taken
  <2>4. e.age <= skew_ms
    BY Zenon, <2>2, <2>3
  <2>5. last_seq' = [last_seq EXCEPT ![k] = m.seq] /\ accepted' = t
    BY <1>4 DEF accept
  <2>6. /\ t \in Seq(Taken) /\ t[n] = e /\ n \in DOMAIN t
        /\ \A i \in DOMAIN accepted : i \in DOMAIN t /\ t[i] = accepted[i]
        /\ \A i \in DOMAIN t : i \in DOMAIN accepted \/ i = n
        /\ \A i \in DOMAIN t : t[i].kind = e.kind => t[i].seq <= e.seq
        /\ \A i, j \in DOMAIN t : i < j /\ t[i].kind = t[j].kind => t[i].seq < t[j].seq
    <3>1. accepted \in Seq(Taken) /\ last_seq \in [RemoteDeliveryKind -> Nat]
      BY Zenon DEF RemoteInv
    <3>2. /\ \A i \in DOMAIN accepted : accepted[i].seq <= last_seq[accepted[i].kind]
          /\ \A i, j \in DOMAIN accepted :
                i < j /\ accepted[i].kind = accepted[j].kind => accepted[i].seq < accepted[j].seq
      BY Zenon DEF RemoteInv, DeliveredInOrder
    <3>3. last_seq[e.kind] < e.seq
      BY Zenon, <2>1, <2>3
    <3> HIDE DEF e, k
    <3> QED BY <2>3, <3>1, <3>2, <3>3, Taking, Zenon
  <2> HIDE DEF e, t, n, k
  <2>7. /\ last_seq' \in [RemoteDeliveryKind -> Nat] /\ last_seq'[k] = m.seq
        /\ \A c \in RemoteDeliveryKind \ {k} : last_seq'[c] = last_seq[c]
    BY Zenon, <2>1, <2>5 DEF RemoteInv
  <2>8. ASSUME NEW i \in DOMAIN t
        PROVE  t[i].kind \in grant /\ t[i].age <= skew_ms /\ t[i].seq <= last_seq'[t[i].kind]
    <3>1. CASE i = n
      BY Zenon, <2>1, <2>3, <2>4, <2>6, <2>7, <2>8, <3>1
    <3>2. CASE i \in DOMAIN accepted
      <4>1. /\ t[i] = accepted[i] /\ t[i].kind \in RemoteDeliveryKind
            /\ t[i].kind \in grant /\ t[i].age <= skew_ms /\ t[i].seq <= last_seq[t[i].kind]
        <5>1. t[i] = accepted[i] /\ t[i] \in Taken
          BY <2>6, <2>8, <3>2
        <5> QED BY Zenon, <3>2, <5>1 DEF RemoteInv, DeliveredInOrder, Taken
      <4>2. CASE t[i].kind = k
        BY Zenon, <2>3, <2>6, <2>7, <2>8, <4>1, <4>2
      <4>3. CASE t[i].kind # k
        BY Zenon, <2>7, <4>1, <4>3
      <4> QED BY Zenon, <4>2, <4>3, <4>1
    <3> QED BY Zenon, <2>6, <2>8, <3>1, <3>2
  <2>9. ASSUME NEW c \in RemoteDeliveryKind, last_seq'[c] > 0
        PROVE  \E i \in DOMAIN t : t[i].kind = c /\ t[i].seq = last_seq'[c]
    <3>1. CASE c = k
      BY Zenon, <2>3, <2>6, <2>7, <3>1
    <3>2. CASE c # k
      <4>1. PICK i \in DOMAIN accepted : accepted[i].kind = c /\ accepted[i].seq = last_seq[c]
        BY Zenon, <2>7, <2>9, <3>2 DEF RemoteInv, DeliveredInOrder
      <4> QED BY Zenon, <2>6, <2>7, <2>9, <3>2, <4>1
    <3> QED BY Zenon, <3>1, <3>2
  <2>10. DeliveredInOrder'
    BY Zenon, <1>2, <2>5, <2>6, <2>8, <2>9 DEF DeliveredInOrder
  <2> QED BY Zenon, <1>2, <2>5, <2>6, <2>7, <2>10 DEF RemoteInv
<1> QED BY Zenon, <1>3, <1>4

(* Every step of the peer, the network and the runtime keeps the invariant. *)
LEMMA RemoteStepKeeps == RemoteInv /\ [RemoteNext]_remoteVars => RemoteInv'
<1> SUFFICES ASSUME RemoteInv, [RemoteNext]_remoteVars PROVE RemoteInv'
  OBVIOUS
<1> USE DEF RemoteInv
<1>1. ASSUME NEW k \in RemoteDeliveryKind, NEW ahead \in 0..MaxAhead, Send(k, ahead) PROVE RemoteInv'
  <2>1. next_seq' \in Nat /\ now + ahead \in Nat /\ UNCHANGED <<grant, now, last_seq, accepted>>
    BY <1>1 DEF Send
  <2>2. network' = network \union {[kind |-> k, seq |-> next_seq', timestamp |-> now + ahead]}
    BY Zenon, <1>1 DEF Send
  <2>3. network' \subseteq Message
    <3>1. [kind |-> k, seq |-> next_seq', timestamp |-> now + ahead] \in Message
      BY <2>1 DEF Message
    <3>2. network \subseteq Message
      BY Zenon
    <3> HIDE DEF RemoteInv, Message
    <3> QED BY Zenon, <2>2, <3>1, <3>2
  <2> QED BY Zenon, <2>1, <2>3 DEF DeliveredInOrder
<1>2. ASSUME NEW m \in network, Lose(m) PROVE RemoteInv'
  BY Zenon, <1>2 DEF Lose, DeliveredInOrder
<1>3. ASSUME NEW m \in network, NEW again \in BOOLEAN, accept(m, again) PROVE RemoteInv'
  BY Zenon, <1>3, AcceptKeeps
<1>4. CASE TimePasses
  <2>1. now' \in Nat /\ UNCHANGED <<grant, next_seq, network, last_seq, accepted>>
    <3>1. now \in Nat
      OBVIOUS
    <3>2. now' = now + 1 /\ UNCHANGED <<grant, next_seq, network, last_seq, accepted>>
      BY Zenon, <1>4 DEF TimePasses
    <3> HIDE DEF RemoteInv
    <3> QED BY <3>1, <3>2
  <2> QED BY Zenon, <2>1 DEF DeliveredInOrder
<1>5. CASE PeerRestarts
  BY <1>5 DEF PeerRestarts, DeliveredInOrder
<1>6. CASE UNCHANGED remoteVars
  BY Zenon, <1>6 DEF remoteVars, DeliveredInOrder
<1> QED BY Zenon, <1>1, <1>2, <1>3, <1>4, <1>5, <1>6 DEF RemoteNext

(* Messages of a kind are taken in the order of their numbers, once, within  *)
(* the skew window, whatever the network does and whenever the peer restarts. *)
THEOREM PeerMessagesInOrder == RemoteSpec => []DeliveredInOrder
<1>1. RemoteInv => DeliveredInOrder
  BY DEF RemoteInv
<1> QED BY <1>1, RemoteInitHolds, RemoteStepKeeps, PTL DEF RemoteSpec
=============================================================================
