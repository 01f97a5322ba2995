-------------------------- MODULE AgentTasksProofs --------------------------
(***************************************************************************)
(* Proofs about the agent's tasks (AgentTasks), for any ids, limits and    *)
(* ports: the live tasks never wait for each other in a circle, no task is *)
(* lost or kept twice, and no action is performed too often, the requests  *)
(* that outlive their attempts included.                                   *)
(***************************************************************************)
EXTENDS AgentTasks, FiniteSetTheorems, TLAPS

(* The task graph and the agent surface (AgentTasks).                       *)

(* A task reaches what it depends on directly. *)
LEMMA ReachesItsOwn ==
    ASSUME NEW T, NEW t \in T, NEW target \in t.deps
    PROVE  TransitivelyDependsOn(T, t, target)
BY DEF TransitivelyDependsOn

(* Inserting a task that passes the checks of TaskGraph::insert closes no  *)
(* circle.                                                                 *)
LEMMA InsertKeepsAcyclic ==
    ASSUME NEW T, NEW task, AcyclicGraph(T), Insertable(T, task)
    PROVE  AcyclicGraph(T \cup {task})
<1> DEFINE U == T \cup {task}
<1>1. /\ task.id \notin Ids(T) /\ task.deps \subseteq Ids(T)
      /\ \A t \in T : task.id \notin t.deps
    BY ReachesItsOwn DEF Insertable
<1>2. DependsOn(U, task.id) = task.deps
    BY <1>1 DEF DependsOn, Ids
<1>3. \A id \in Ids(T) : DependsOn(U, id) = DependsOn(T, id) /\ task.id \notin DependsOn(T, id)
    BY <1>1 DEF DependsOn, Ids
<1>4. Ids(U) = Ids(T) \cup {task.id}
    BY DEF Ids
<1>5. SUFFICES ASSUME NEW S \in SUBSET Ids(U), S # {}
              PROVE  \E id \in S : DependsOn(U, id) \cap S = {}
    BY Zenon DEF AcyclicGraph
<1> DEFINE R == S \ {task.id}
<1>6. R \subseteq Ids(T)
    BY <1>4
<1>7. CASE R = {}
  <2>1. S = {task.id}
    BY <1>5, <1>7
  <2> QED BY <2>1, <1>1, <1>2
<1>8. CASE R # {}
  <2>1. PICK id \in R : DependsOn(T, id) \cap R = {}
    BY Zenon, <1>6, <1>8 DEF AcyclicGraph
  <2>2. DependsOn(U, id) \cap S = {}
    BY <2>1, <1>3, <1>6
  <2> QED BY Zenon, <2>1, <2>2
<1> QED BY Zenon, <1>7, <1>8

(* Removing a task, whatever waits for it, closes no circle. *)
LEMMA RemoveKeepsAcyclic ==
    ASSUME NEW T, NEW x, AcyclicGraph(T)
    PROVE  AcyclicGraph(Without(T, x))
<1> DEFINE U == Without(T, x)
<1>1. Ids(U) \subseteq Ids(T)
    BY DEF Ids, Without
<1>2. \A id \in Ids(U) : DependsOn(U, id) = DependsOn(T, id)
    BY DEF Ids, Without, DependsOn
<1>3. SUFFICES ASSUME NEW S \in SUBSET Ids(U), S # {}
              PROVE  \E id \in S : DependsOn(U, id) \cap S = {}
    BY DEF AcyclicGraph
<1>4. PICK id \in S : DependsOn(T, id) \cap S = {}
    BY <1>1, <1>3 DEF AcyclicGraph
<1> QED BY <1>2, <1>3, <1>4

-----------------------------------------------------------------------------
(* How often a number waits in a queue. *)

Waiting(s, n) == Cardinality({i \in 1..Len(s) : s[i] = n})

(* The places where n waits are finitely many.                              *)
LEMMA WaitingIsNat ==
    ASSUME NEW S, NEW s \in Seq(S), NEW n
    PROVE  /\ IsFiniteSet({i \in 1..Len(s) : s[i] = n})
           /\ Waiting(s, n) \in Nat
<1>1. IsFiniteSet(1..Len(s))
    BY FS_Interval
<1>2. IsFiniteSet({i \in 1..Len(s) : s[i] = n})
    BY <1>1, FS_Subset
<1> QED BY <1>2, FS_CardinalityType DEF Waiting

(* Nothing waits in an empty queue.                                         *)
LEMMA NobodyWaits ==
    ASSUME NEW n
    PROVE  Waiting(<<>>, n) = 0
<1>1. {i \in 1..Len(<<>>) : <<>>[i] = n} = {}
    OBVIOUS
<1> QED BY <1>1, FS_EmptySet DEF Waiting

(* A queued connection is one more that waits.                              *)
LEMMA WaitingAfterPush ==
    ASSUME NEW S, NEW s \in Seq(S), NEW x \in S, NEW n
    PROVE  Waiting(Append(s, x), n) = IF x = n THEN Waiting(s, n) + 1 ELSE Waiting(s, n)
<1> DEFINE A == {i \in 1..Len(s) : s[i] = n}
           B == {i \in 1..Len(Append(s, x)) : Append(s, x)[i] = n}
<1>1. IsFiniteSet(A)
    BY Zenon, WaitingIsNat
<1>2. CASE x = n
  <2>1. B = A \cup {Len(s) + 1} /\ Len(s) + 1 \notin A
    BY <1>2
  <2> HIDE DEF A, B
  <2>2. Cardinality(B) = Cardinality(A) + 1
    BY Zenon, <1>1, <2>1, FS_AddElement
  <2> QED BY Zenon, <1>2, <2>2 DEF Waiting, A, B
<1>3. CASE x # n
  <2>1. B = A
    BY <1>3
  <2> QED BY Zenon, <1>3, <2>1 DEF Waiting
<1> QED BY <1>2, <1>3

(* Accepting the first connection leaves one less.                          *)
LEMMA WaitingAfterPop ==
    ASSUME NEW S, NEW s \in Seq(S), s # <<>>, NEW n
    PROVE  Waiting(s, n) = IF Head(s) = n THEN Waiting(Tail(s), n) + 1 ELSE Waiting(Tail(s), n)
<1> DEFINE A == {i \in 1..Len(s) : s[i] = n}
           B == {i \in 1..Len(Tail(s)) : Tail(s)[i] = n}
           f == [i \in B |-> i + 1]
<1>1. Tail(s) \in Seq(S) /\ Len(Tail(s)) = Len(s) - 1 /\ Len(s) \in Nat \ {0}
      /\ \A i \in 1..Len(Tail(s)) : Tail(s)[i] = s[i + 1]
    OBVIOUS
<1>2. IsFiniteSet(B) /\ IsFiniteSet(A)
    BY Zenon, <1>1, WaitingIsNat
<1>3. f \in [B -> A \ {1}]
    BY <1>1
<1>4. \A i, j \in B : f[i] = f[j] => i = j
    BY <1>1
<1>5. \A k \in A \ {1} : \E i \in B : f[i] = k
  <2> SUFFICES ASSUME NEW k \in A \ {1} PROVE \E i \in B : f[i] = k
    BY Zenon
  <2>1. k - 1 \in B /\ f[k - 1] = (k - 1) + 1 /\ k \in Nat
    BY <1>1
  <2>2. (k - 1) + 1 = k
    BY <2>1
  <2> HIDE DEF B, f
  <2> QED BY <2>1, <2>2
<1> HIDE DEF f
<1>6. f \in Bijection(B, A \ {1})
    BY Zenon, <1>3, <1>4, <1>5 DEF Bijection, Injection, Surjection, IsInjective
<1>7. Cardinality(A \ {1}) = Cardinality(B)
    BY Zenon, <1>2, <1>6, FS_Bijection DEF ExistsBijection
<1>8. CASE Head(s) = n
  <2>1. 1 \in A
    BY <1>1, <1>8
  <2> HIDE DEF A, B
  <2>2. Cardinality(A) \in Nat /\ Cardinality(A \ {1}) = Cardinality(A) - 1
    BY Zenon, <1>2, <2>1, FS_CardinalityType, FS_RemoveElement
  <2>3. Cardinality(A) = Cardinality(B) + 1
    BY <1>7, <2>2
  <2> QED BY Zenon, <1>8, <2>3 DEF Waiting, A, B
<1>9. CASE Head(s) # n
  <2>1. A \ {1} = A
    BY <1>1, <1>9
  <2> QED BY Zenon, <1>7, <1>9, <2>1 DEF Waiting
<1> QED BY <1>8, <1>9

-----------------------------------------------------------------------------
-----------------------------------------------------------------------------
(* The inductive invariant of the agent surface. *)

TaskRecords == [id : ProposalIds, kind : Kinds, deps : SUBSET ProposalIds, number : 1..MaxTasks]
Outcomes == [task : TaskRecords, stage : {"Done", "Failed"}]

AtType ==
    /\ DOMAIN proposals \subseteq ProposalIds
    /\ \A p \in DOMAIN proposals : proposals[p] \in Kinds
    /\ tasks \subseteq TaskRecords
    /\ executing = NoExecution \/ executing \in [task : TaskRecords, attempt : Nat \ {0}, port : Ports]
    /\ backlog \in Seq(1..MaxTasks)
    /\ created \in 0..MaxTasks
    /\ recorded \in Seq(Outcomes)
    /\ history \in Seq(Outcomes)
    /\ performed \in [1..MaxTasks -> Nat]

(* No two live tasks share an id or a number. *)
TasksDiffer == \A t, u \in tasks : t.id = u.id \/ t.number = u.number => t = u

(* How often the action of task n was performed or still may be by a        *)
(* request that waits.                                                      *)
Spent(n) == performed[n] + Waiting(backlog, n)

(* What has not been started has spent nothing; what runs, less than the    *)
(* attempt it is at; what ended, no more than its attempts.                 *)
SpentIsBounded ==
    /\ \A n \in 1..MaxTasks : n \notin Executed \cup Recorded => Spent(n) = 0
    /\ ~LoopIsFree => /\ Spent(executing.task.number) < executing.attempt
                      /\ executing.attempt <= Retries(executing.task.kind) + 1
    /\ \A i \in DOMAIN recorded : Spent(recorded[i].task.number) <= Retries(recorded[i].task.kind) + 1

(* The first part of EveryTaskOnce, in which place a task is. *)
InOnePlace ==
    /\ Live \cup Executed \cup cancelled \cup Recorded = 1..created
    /\ Live \cap (Executed \cup cancelled \cup Recorded) = {}
    /\ Executed \cap (cancelled \cup Recorded) = {} /\ cancelled \cap Recorded = {}
    /\ \A i, j \in DOMAIN recorded : recorded[i].task.number = recorded[j].task.number => i = j

(* Its second part, that the history is the end of what was recorded. *)
HistoryIsEnd ==
    /\ Len(history) = IF Len(recorded) < HistoryLimit THEN Len(recorded) ELSE HistoryLimit
    /\ \A i \in DOMAIN history : history[i] = recorded[Len(recorded) - Len(history) + i]

AtInv == AtType /\ TasksDiffer /\ NoTaskCycle /\ InOnePlace /\ HistoryIsEnd /\ SpentIsBounded

(* An element of a sequence is of its type. *)
LEMMA ElementOf ==
    ASSUME NEW S, NEW s \in Seq(S), NEW i \in DOMAIN s
    PROVE  s[i] \in S
OBVIOUS

(* The agent surface starts with nothing proposed, live or recorded.        *)
LEMMA AtStart == AtInit => AtInv
<1> SUFFICES ASSUME AtInit PROVE AtInv
    OBVIOUS
<1> USE AgentAssumption
<1>1. AtType
    BY DEF AtInit, AtType, NoExecution
<1>2. Executed = {} /\ Recorded = {} /\ Live = {} /\ LoopIsFree
    BY DEF AtInit, Executed, Recorded, Live, LoopIsFree, NoExecution
<1>3. TasksDiffer /\ NoTaskCycle
  <2>1. tasks = {}
    BY DEF AtInit
  <2>2. Ids({}) = {}
    BY DEF Ids
  <2>3. AcyclicGraph({})
    BY <2>2 DEF AcyclicGraph
  <2> QED BY <2>1, <2>3 DEF TasksDiffer, NoTaskCycle
<1>4. InOnePlace /\ HistoryIsEnd
    BY <1>2 DEF AtInit, InOnePlace, HistoryIsEnd
<1>5. \A n \in 1..MaxTasks : Spent(n) = 0
    BY NobodyWaits DEF AtInit, Spent
<1>6. SpentIsBounded
    BY <1>2, <1>5 DEF AtInit, SpentIsBounded
<1> QED BY <1>1, <1>3, <1>4, <1>6 DEF AtInv

(* The invariant is what the runs check, and more. *)
LEMMA AtInvGives ==
    ASSUME AtInv
    PROVE  NoTaskCycle /\ EveryTaskOnce /\ NoRepeatedAction
<1> USE AgentAssumption
<1>1. EveryTaskOnce
    BY DEF AtInv, InOnePlace, HistoryIsEnd, EveryTaskOnce
<1>2. NoRepeatedAction
  <2> DEFINE Started == {recorded[i].task : i \in DOMAIN recorded} \cup (IF LoopIsFree THEN {} ELSE {executing.task})
  <2> SUFFICES ASSUME NEW task \in Started
               PROVE  performed[task.number] <= (IF task.kind = "write" THEN 1 ELSE MaxRetries + 1)
    BY DEF NoRepeatedAction
  <2>1. Spent(task.number) <= Retries(task.kind) + 1 /\ task \in TaskRecords
    <3>1. CASE task \in {recorded[i].task : i \in DOMAIN recorded}
      <4>1. PICK i \in DOMAIN recorded : task = recorded[i].task
        BY <3>1
      <4>2. recorded[i] \in Outcomes
        <5>1. recorded \in Seq(Outcomes)
          BY Zenon DEF AtInv, AtType
        <5> QED BY Zenon, <5>1, ElementOf
      <4>3. Spent(recorded[i].task.number) <= Retries(recorded[i].task.kind) + 1
        BY Zenon DEF AtInv, SpentIsBounded
      <4> QED BY Zenon, <4>1, <4>2, <4>3 DEF Outcomes
    <3>2. CASE ~LoopIsFree /\ task = executing.task
      <4>1. /\ task \in TaskRecords /\ executing.attempt \in Nat
            /\ Spent(task.number) < executing.attempt
            /\ executing.attempt <= Retries(task.kind) + 1
        BY <3>2 DEF AtInv, SpentIsBounded, AtType, LoopIsFree, NoExecution
      <4>2. Spent(task.number) \in Nat /\ Retries(task.kind) \in Nat
        <5>1. task.number \in 1..MaxTasks /\ backlog \in Seq(1..MaxTasks) /\ performed \in [1..MaxTasks -> Nat]
          BY <4>1 DEF AtInv, AtType, TaskRecords
        <5>2. Waiting(backlog, task.number) \in Nat /\ performed[task.number] \in Nat
          BY Zenon, <5>1, WaitingIsNat
        <5> QED BY <5>2 DEF Spent, Retries
      <4> QED BY <4>1, <4>2
    <3> QED BY Zenon, <3>1, <3>2
  <2>2. performed[task.number] \in Nat /\ Waiting(backlog, task.number) \in Nat
    BY Zenon, <2>1, WaitingIsNat DEF AtInv, AtType, TaskRecords
  <2> QED BY <2>1, <2>2 DEF Spent, Retries
<1> QED BY Zenon, <1>1, <1>2 DEF AtInv

-----------------------------------------------------------------------------
(* h is the end of r, of at most k entries. *)
EndOf(h, r, k) ==
    /\ Len(h) = IF Len(r) < k THEN Len(r) ELSE k
    /\ \A i \in 1..Len(h) : h[i] = r[Len(r) - Len(h) + i]

(* A log cut to its newest entries is its own end. *)
LEMMA BoundedIsEnd ==
    ASSUME NEW S, NEW s \in Seq(S), NEW k \in Nat \ {0}
    PROVE  Bounded(s, k) \in Seq(S) /\ EndOf(Bounded(s, k), s, k)
<1>1. CASE Len(s) > k
  <2> DEFINE b == SubSeq(s, Len(s) - k + 1, Len(s))
  <2>1. Bounded(s, k) = b
    BY <1>1 DEF Bounded
  <2>2. b \in Seq(S) /\ Len(b) = k /\ \A i \in 1..k : b[i] = s[Len(s) - k + i]
    BY <1>1
  <2> HIDE DEF b
  <2> QED BY <1>1, <2>1, <2>2 DEF EndOf
<1>2. CASE ~(Len(s) > k)
  <2>1. Bounded(s, k) = s /\ Len(s) \in Nat
    BY <1>2 DEF Bounded
  <2> QED BY <1>2, <2>1 DEF EndOf
<1> QED BY <1>1, <1>2

(* Cutting the grown end of a log gives the end of the grown log. *)
LEMMA EndGrows ==
    ASSUME NEW S, NEW h \in Seq(S), NEW r \in Seq(S), NEW e \in S, NEW k \in Nat \ {0}, EndOf(h, r, k)
    PROVE  EndOf(Bounded(Append(h, e), k), Append(r, e), k)
<1> DEFINE a == Append(h, e)
           q == Append(r, e)
           g == Bounded(a, k)
<1>1. a \in Seq(S) /\ Len(a) = Len(h) + 1 /\ a[Len(h) + 1] = e /\ \A i \in 1..Len(h) : a[i] = h[i]
    OBVIOUS
<1>2. q \in Seq(S) /\ Len(q) = Len(r) + 1 /\ q[Len(r) + 1] = e /\ \A i \in 1..Len(r) : q[i] = r[i]
    OBVIOUS
<1>3. Len(h) \in Nat /\ Len(r) \in Nat /\ Len(h) <= Len(r)
    BY DEF EndOf
<1> HIDE DEF a, q
<1>4. g \in Seq(S) /\ EndOf(g, a, k)
    BY Zenon, <1>1, BoundedIsEnd
<1> HIDE DEF g
<1>5. Len(g) = IF Len(q) < k THEN Len(q) ELSE k
    BY <1>1, <1>2, <1>3, <1>4 DEF EndOf
<1>6. ASSUME NEW i \in 1..Len(a) PROVE a[i] = q[Len(q) - Len(a) + i]
  <2>1. CASE i = Len(h) + 1
    <3>1. Len(q) - Len(a) + i = Len(r) + 1
      BY <2>1, <1>1, <1>2, <1>3
    <3> QED BY Zenon, <3>1, <2>1, <1>1, <1>2
  <2>2. CASE i \in 1..Len(h)
    <3> DEFINE j == Len(r) - Len(h) + i
    <3>1. j \in 1..Len(r) /\ Len(q) - Len(a) + i = j
      BY <2>2, <1>1, <1>2, <1>3
    <3>2. a[i] = r[j]
      BY Zenon, <2>2, <1>1 DEF EndOf
    <3> HIDE DEF j
    <3> QED BY Zenon, <3>1, <3>2, <1>2
  <2> QED BY <1>1, <1>3, <2>1, <2>2
<1>7. ASSUME NEW i \in 1..Len(g) PROVE g[i] = q[Len(q) - Len(g) + i]
  <2>1. Len(g) \in Nat /\ Len(g) <= Len(a) /\ Len(a) \in Nat /\ Len(q) \in Nat
    BY <1>1, <1>2, <1>3, <1>4 DEF EndOf
  <2> DEFINE j == Len(a) - Len(g) + i
  <2>2. j \in 1..Len(a)
    BY <2>1
  <2>3. Len(q) - Len(a) + j = Len(q) - Len(g) + i
    BY <2>1
  <2>4. g[i] = a[j]
    BY Zenon, <1>4 DEF EndOf
  <2> HIDE DEF j
  <2>5. a[j] = q[Len(q) - Len(a) + j]
    BY Zenon, <1>6, <2>2
  <2> QED BY <2>3, <2>4, <2>5
<1>8. EndOf(g, q, k)
    BY Zenon, <1>5, <1>7 DEF EndOf
<1> QED BY <1>8 DEF g, a, q

(* What recording an outcome does to the history and to what was recorded. *)
LEMMA OutcomeRecorded ==
    ASSUME AtInv, NEW task \in TaskRecords, NEW stage \in {"Done", "Failed"},
           RecordHistory(task, stage), task.number \notin Recorded
    PROVE  /\ recorded' \in Seq(Outcomes) /\ history' \in Seq(Outcomes)
           /\ HistoryIsEnd'
           /\ Recorded' = Recorded \cup {task.number}
           /\ \A i, j \in DOMAIN recorded' : recorded'[i].task.number = recorded'[j].task.number => i = j
           /\ \A i \in DOMAIN recorded' : \/ i \in DOMAIN recorded /\ recorded'[i] = recorded[i]
                                          \/ recorded'[i].task = task
<1> DEFINE e == [task |-> task, stage |-> stage]
<1>1. e \in Outcomes /\ e.task = task
    BY DEF Outcomes
<1>2. recorded \in Seq(Outcomes) /\ history \in Seq(Outcomes) /\ HistoryLimit \in Nat \ {0}
    BY AgentAssumption DEF AtInv, AtType
<1>3. recorded' = Append(recorded, e) /\ history' = Bounded(Append(history, e), HistoryLimit)
    BY DEF RecordHistory
<1> HIDE DEF e
<1>4. EndOf(history, recorded, HistoryLimit)
  <2>1. DOMAIN history = 1..Len(history)
    BY <1>2
  <2> QED BY Zenon, <2>1 DEF AtInv, HistoryIsEnd, EndOf
<1>5. history' \in Seq(Outcomes) /\ recorded' \in Seq(Outcomes) /\ EndOf(history', recorded', HistoryLimit)
  <2>1. Append(history, e) \in Seq(Outcomes) /\ Append(recorded, e) \in Seq(Outcomes)
    BY <1>1, <1>2
  <2>2. Bounded(Append(history, e), HistoryLimit) \in Seq(Outcomes)
    BY Zenon, <1>2, <2>1, BoundedIsEnd
  <2>3. EndOf(Bounded(Append(history, e), HistoryLimit), Append(recorded, e), HistoryLimit)
    BY <1>1, <1>2, <1>4, EndGrows
  <2> QED BY Zenon, <1>3, <2>1, <2>2, <2>3
<1>6. HistoryIsEnd'
  <2>1. DOMAIN history' = 1..Len(history')
    BY <1>5
  <2> QED BY <1>5, <2>1 DEF HistoryIsEnd, EndOf
<1>7. /\ DOMAIN recorded' = DOMAIN recorded \cup {Len(recorded) + 1} /\ Len(recorded) + 1 \notin DOMAIN recorded
      /\ \A i \in DOMAIN recorded : recorded'[i] = recorded[i]
      /\ recorded'[Len(recorded) + 1] = e
    BY <1>1, <1>2, <1>3
<1>8. \A i \in DOMAIN recorded : recorded[i].task.number # task.number
    BY Zenon DEF Recorded
<1>9. Recorded' = Recorded \cup {task.number}
    BY <1>1, <1>7 DEF Recorded
<1>10. ASSUME NEW i \in DOMAIN recorded', NEW j \in DOMAIN recorded',
              recorded'[i].task.number = recorded'[j].task.number
       PROVE  i = j
    BY Zenon, <1>1, <1>7, <1>8, <1>10 DEF AtInv, InOnePlace
<1> QED BY <1>1, <1>5, <1>6, <1>7, <1>9, <1>10

-----------------------------------------------------------------------------
(* The counts stay bounded where neither the requests nor the outcomes move. *)
LEMMA SpentStays ==
    ASSUME SpentIsBounded, UNCHANGED <<executing, recorded, performed, backlog>>
    PROVE  SpentIsBounded' /\ Executed' = Executed /\ Recorded' = Recorded
<1>1. Executed' = Executed /\ Recorded' = Recorded /\ LoopIsFree' = LoopIsFree
    BY DEF Executed, Recorded, LoopIsFree
<1>2. \A n \in 1..MaxTasks : Spent(n)' = Spent(n)
    BY DEF Spent
<1>3. Spent(executing.task.number)' = Spent(executing.task.number)
    BY DEF Spent
<1>4. \A i \in DOMAIN recorded : Spent(recorded[i].task.number)' = Spent(recorded[i].task.number)
    BY Zenon DEF Spent
<1> QED BY Zenon, <1>1, <1>2, <1>3, <1>4 DEF SpentIsBounded

(* Inserting a task that passes the checks. *)
LEMMA InsertKeeps ==
    ASSUME AtInv, created < MaxTasks, NEW task \in TaskRecords, task.number = created + 1,
           Insertable(tasks, task), tasks' = tasks \cup {task}, created' = created + 1,
           DOMAIN proposals' \subseteq DOMAIN proposals,
           \A p \in DOMAIN proposals' : proposals'[p] = proposals[p],
           UNCHANGED <<history, executing, backlog, cancelled, recorded, performed>>
    PROVE  AtInv'
<1> USE AgentAssumption
<1>1. created \in 0..MaxTasks /\ created + 1 \in 1..MaxTasks
    BY DEF AtInv, AtType
<1>2. AtType'
    BY <1>1 DEF AtInv, AtType
<1>3. NoTaskCycle'
    BY InsertKeepsAcyclic DEF AtInv, NoTaskCycle
<1>4. SpentIsBounded' /\ Executed' = Executed /\ Recorded' = Recorded
    BY Zenon, SpentStays DEF AtInv
<1>5. Live' = Live \cup {created + 1}
    BY Zenon DEF Live
<1>6. \A t \in tasks : t.id # task.id /\ t.number # task.number
  <2>1. \A t \in tasks : t.number \in 1..created
    BY Zenon DEF AtInv, InOnePlace, Live
  <2> QED BY <1>1, <2>1 DEF Insertable, Ids
<1>7. TasksDiffer'
    BY Zenon, <1>6 DEF AtInv, TasksDiffer
<1>8. InOnePlace'
  <2>1. 1..(created + 1) = (1..created) \cup {created + 1} /\ created + 1 \notin 1..created
    BY <1>1
  <2>2. \A i, j \in DOMAIN recorded' : recorded'[i].task.number = recorded'[j].task.number => i = j
    BY Zenon DEF AtInv, InOnePlace
  <2>3. cancelled' = cancelled /\ created' = created + 1
    OBVIOUS
  <2> QED BY <1>4, <1>5, <2>1, <2>2, <2>3 DEF AtInv, InOnePlace
<1>9. HistoryIsEnd'
    BY Zenon DEF AtInv, HistoryIsEnd
<1> QED BY Zenon, <1>2, <1>3, <1>4, <1>7, <1>8, <1>9 DEF AtInv

(* Removing a live task takes exactly its number off the live ones. *)
LEMMA RemoveLeaves ==
    ASSUME AtInv, NEW task \in tasks, tasks' = Without(tasks, task.id)
    PROVE  /\ tasks' \subseteq TaskRecords /\ TasksDiffer' /\ NoTaskCycle'
           /\ Live' = Live \ {task.number} /\ task.number \in Live
           /\ task \in TaskRecords /\ task.number \notin Executed \cup cancelled \cup Recorded
<1>1. tasks' \subseteq tasks /\ tasks' = tasks \ {task}
    BY DEF AtInv, TasksDiffer, Without
<1>2. tasks' \subseteq TaskRecords /\ task \in TaskRecords
    BY <1>1 DEF AtInv, AtType
<1>3. TasksDiffer'
    BY Zenon, <1>1 DEF AtInv, TasksDiffer
<1>4. NoTaskCycle'
    BY Zenon, RemoveKeepsAcyclic DEF AtInv, NoTaskCycle
<1>5. Live' = Live \ {task.number} /\ task.number \in Live
    BY Zenon, <1>1 DEF AtInv, TasksDiffer, Live
<1>6. task.number \notin Executed \cup cancelled \cup Recorded
    BY Zenon, <1>5 DEF AtInv, InOnePlace
<1> QED BY <1>2, <1>3, <1>4, <1>5, <1>6

(* agent.cancel moves a task from the live ones to the cancelled ones.      *)
LEMMA CancelKeeps ==
    ASSUME AtInv, NEW task \in tasks, Cancel(task)
    PROVE  AtInv'
<1>1. /\ tasks' \subseteq TaskRecords /\ TasksDiffer' /\ NoTaskCycle'
      /\ Live' = Live \ {task.number} /\ task.number \in Live
      /\ task.number \notin Executed \cup cancelled \cup Recorded
    BY Zenon, RemoveLeaves DEF Cancel
<1>2. AtType'
    BY Zenon, <1>1 DEF AtInv, AtType, Cancel
<1>3. SpentIsBounded' /\ Executed' = Executed /\ Recorded' = Recorded
    BY Zenon, SpentStays DEF AtInv, Cancel
<1>4. InOnePlace'
  <2>1. \A i, j \in DOMAIN recorded' : recorded'[i].task.number = recorded'[j].task.number => i = j
    BY DEF AtInv, InOnePlace, Cancel
  <2>2. cancelled' = cancelled \cup {task.number} /\ created' = created
    BY Zenon DEF Cancel
  <2> QED BY <1>1, <1>3, <2>1, <2>2 DEF AtInv, InOnePlace
<1>5. HistoryIsEnd'
    BY DEF AtInv, HistoryIsEnd, Cancel
<1> QED BY Zenon, <1>1, <1>2, <1>3, <1>4, <1>5 DEF AtInv

(* agent.execute moves a task to the executor, or to the history when there *)
(* is nothing to execute.                                                   *)
LEMMA ExecuteKeeps ==
    ASSUME AtInv, NEW task \in tasks, NEW port \in Ports, Execute(task, port)
    PROVE  AtInv'
<1> USE AgentAssumption
<1>1. /\ tasks' \subseteq TaskRecords /\ TasksDiffer' /\ NoTaskCycle'
      /\ Live' = Live \ {task.number} /\ task.number \in Live
      /\ task \in TaskRecords /\ task.number \notin Executed \cup cancelled \cup Recorded
    BY Zenon, RemoveLeaves DEF Execute
<1>2. Executed = {} /\ LoopIsFree
    BY Zenon DEF Execute, Executed
<1>3. UNCHANGED <<proposals, backlog, created, cancelled, performed>>
    BY Zenon DEF Execute
<1>4. task.number \in 1..MaxTasks /\ Spent(task.number) = 0
  <2>1. task.number \in 1..MaxTasks
    BY <1>1 DEF TaskRecords
  <2> QED BY Zenon, <1>1, <2>1 DEF AtInv, SpentIsBounded
<1>5. \A n \in 1..MaxTasks : Spent(n)' = Spent(n)
    BY Zenon, <1>3 DEF Spent
<1>6. CASE task.kind = "unsupported"
  <2>1. RecordHistory(task, "Failed") /\ UNCHANGED executing
    BY Zenon, <1>6 DEF Execute
  <2>2. /\ recorded' \in Seq(Outcomes) /\ history' \in Seq(Outcomes)
        /\ HistoryIsEnd'
        /\ Recorded' = Recorded \cup {task.number}
        /\ \A i, j \in DOMAIN recorded' : recorded'[i].task.number = recorded'[j].task.number => i = j
        /\ \A i \in DOMAIN recorded' : \/ i \in DOMAIN recorded /\ recorded'[i] = recorded[i]
                                       \/ recorded'[i].task = task
    BY Zenon, <1>1, <2>1, OutcomeRecorded
  <2>3. Executed' = {} /\ LoopIsFree'
    BY Zenon, <1>2, <2>1 DEF Executed, LoopIsFree
  <2>4. AtType'
    BY Zenon, <1>1, <1>3, <2>1, <2>2 DEF AtInv, AtType
  <2>5. InOnePlace'
    BY <1>1, <1>2, <1>3, <2>2, <2>3 DEF AtInv, InOnePlace
  <2>6. \A n \in 1..MaxTasks : n \notin Executed' \cup Recorded' => Spent(n)' = 0
    BY Zenon, <1>2, <1>5, <2>2, <2>3 DEF AtInv, SpentIsBounded
  <2>7. ASSUME NEW i \in DOMAIN recorded'
        PROVE  performed'[recorded'[i].task.number] + Waiting(backlog', recorded'[i].task.number)
                 <= Retries(recorded'[i].task.kind) + 1
    <3>1. CASE i \in DOMAIN recorded /\ recorded'[i] = recorded[i]
      BY Zenon, <1>3, <3>1 DEF AtInv, SpentIsBounded, Spent
    <3>2. CASE recorded'[i].task = task
      BY <1>3, <1>4, <3>2 DEF Spent, Retries
    <3> QED BY Zenon, <2>2, <3>1, <3>2
  <2>8. SpentIsBounded'
    BY Zenon, <2>3, <2>6, <2>7 DEF SpentIsBounded, Spent
  <2> QED BY Zenon, <1>1, <2>2, <2>4, <2>5, <2>8 DEF AtInv
<1>7. CASE task.kind # "unsupported"
  <2>1. executing' = [task |-> task, attempt |-> 1, port |-> port] /\ UNCHANGED <<history, recorded>>
    BY Zenon, <1>7 DEF Execute
  <2>2. /\ ~LoopIsFree' /\ Executed' = {task.number} /\ Recorded' = Recorded
        /\ executing'.task = task /\ executing'.attempt = 1
    BY <2>1 DEF Executed, LoopIsFree, Recorded
  <2>3. AtType'
    BY <1>1, <1>3, <2>1 DEF AtInv, AtType
  <2>4. InOnePlace'
    <3>1. \A i, j \in DOMAIN recorded' : recorded'[i].task.number = recorded'[j].task.number => i = j
      BY Zenon, <2>1 DEF AtInv, InOnePlace
    <3> QED BY <1>1, <1>2, <1>3, <2>2, <3>1 DEF AtInv, InOnePlace
  <2>5. \A n \in 1..MaxTasks : n \notin Executed' \cup Recorded' => Spent(n)' = 0
    BY Zenon, <1>2, <1>5, <2>2 DEF AtInv, SpentIsBounded
  <2>6. /\ performed'[executing'.task.number] + Waiting(backlog', executing'.task.number) < executing'.attempt
        /\ executing'.attempt <= Retries(executing'.task.kind) + 1
    <3>1. Retries(task.kind) \in Nat
      BY Zenon DEF Retries
    <3> QED BY <1>3, <1>4, <2>2, <3>1 DEF Spent
  <2>7. \A i \in DOMAIN recorded : performed[recorded[i].task.number] + Waiting(backlog, recorded[i].task.number)
                                     <= Retries(recorded[i].task.kind) + 1
    BY Zenon DEF AtInv, SpentIsBounded, Spent
  <2>8. SpentIsBounded'
    BY Zenon, <1>3, <2>1, <2>5, <2>6, <2>7 DEF SpentIsBounded, Spent
  <2>9. HistoryIsEnd'
    BY Zenon, <2>1 DEF AtInv, HistoryIsEnd
  <2> QED BY Zenon, <1>1, <2>3, <2>4, <2>8, <2>9 DEF AtInv
<1> QED BY Zenon, <1>6, <1>7

-----------------------------------------------------------------------------
(* What one attempt of the executor does: its task spends at most one more, *)
(* no other task any, and the handler ends or tries again.                  *)
AttemptEffect(n0) ==
    /\ UNCHANGED <<proposals, tasks, created, cancelled>>
    /\ performed' \in [1..MaxTasks -> Nat] /\ backlog' \in Seq(1..MaxTasks)
    /\ \A n \in 1..MaxTasks : n # n0 => Spent(n)' = Spent(n)
    /\ performed'[n0] + Waiting(backlog', n0) <= Spent(n0) + 1

HandlerEnds == Finish("Done") \/ Finish("Failed")

TriesAgain ==
    /\ MayRetry(executing.task, executing.attempt)
    /\ executing' = [executing EXCEPT !.attempt = NextAttempt(@)]
    /\ UNCHANGED <<history, recorded>>

(* Whatever the port and the answer, an attempt has that effect.            *)
LEMMA AttemptIs ==
    ASSUME AtInv, Attempt
    PROVE  /\ ~LoopIsFree
           /\ AttemptEffect(executing.task.number)
           /\ HandlerEnds \/ TriesAgain
<1> DEFINE n0 == executing.task.number
<1>1. ~LoopIsFree
    BY Zenon DEF Attempt, AttemptLocal, AttemptOwnPort, AttemptOtherPort
<1>2. n0 \in 1..MaxTasks /\ performed \in [1..MaxTasks -> Nat] /\ backlog \in Seq(1..MaxTasks)
    BY <1>1 DEF AtInv, AtType, LoopIsFree, NoExecution, TaskRecords
<1>3. \A n \in 1..MaxTasks : performed[n] \in Nat /\ Waiting(backlog, n) \in Nat
    BY Zenon, <1>2, WaitingIsNat
<1> HIDE DEF n0
<1>4. ASSUME NEW k \in {0, 1}, performed' = [performed EXCEPT ![n0] = @ + k],
             UNCHANGED <<proposals, tasks, backlog, created, cancelled>>
      PROVE  AttemptEffect(n0)
  <2>1. /\ performed' \in [1..MaxTasks -> Nat] /\ performed'[n0] = performed[n0] + k
        /\ \A n \in 1..MaxTasks : n # n0 => performed'[n] = performed[n]
    BY <1>2, <1>3, <1>4
  <2>2. \A n \in 1..MaxTasks : n # n0 => Spent(n)' = Spent(n)
    BY Zenon, <1>4, <2>1 DEF Spent
  <2>3. performed'[n0] + Waiting(backlog', n0) <= Spent(n0) + 1
    BY <1>2, <1>3, <1>4, <2>1 DEF Spent
  <2> QED BY <1>2, <1>4, <2>1, <2>2, <2>3 DEF AttemptEffect
<1>5. CASE AttemptLocal
  <2>1. AttemptEffect(n0)
    BY Zenon, <1>4, <1>5 DEF AttemptLocal, n0
  <2> QED BY Zenon, <1>1, <1>5, <2>1 DEF AttemptLocal, HandlerEnds, n0
<1>6. CASE \E performs, answers \in BOOLEAN : AttemptOtherPort(performs, answers)
  <2>1. PICK performs \in BOOLEAN, answers \in BOOLEAN : AttemptOtherPort(performs, answers)
    BY Zenon, <1>6
  <2> DEFINE k == IF performs THEN 1 ELSE 0
  <2>2. k \in {0, 1} /\ performed' = [performed EXCEPT ![n0] = @ + k]
    BY Zenon, <2>1 DEF AttemptOtherPort, n0
  <2>3. UNCHANGED <<proposals, tasks, backlog, created, cancelled>>
    BY Zenon, <2>1 DEF AttemptOtherPort
  <2> HIDE DEF k
  <2>4. AttemptEffect(n0)
    BY Zenon, <1>4, <2>2, <2>3
  <2>5. HandlerEnds \/ TriesAgain
    BY <2>1 DEF AttemptOtherPort, AfterFailure, HandlerEnds, TriesAgain
  <2> QED BY Zenon, <1>1, <2>4, <2>5 DEF n0
<1>7. CASE AttemptOwnPort
  <2>1. UNCHANGED <<proposals, tasks, created, cancelled, performed>>
    BY <1>7 DEF AttemptOwnPort
  <2>2. backlog' = Append(backlog, n0) \/ backlog' = backlog
    BY Zenon, <1>7 DEF AttemptOwnPort, n0
  <2>3. /\ backlog' \in Seq(1..MaxTasks)
        /\ \A n \in 1..MaxTasks : n # n0 => Waiting(backlog', n) = Waiting(backlog, n)
        /\ Waiting(backlog', n0) <= Waiting(backlog, n0) + 1
    <3>1. Append(backlog, n0) \in Seq(1..MaxTasks)
      BY <1>2
    <3>2. \A n \in 1..MaxTasks :
              Waiting(Append(backlog, n0), n) = IF n0 = n THEN Waiting(backlog, n) + 1 ELSE Waiting(backlog, n)
      <4> DEFINE M == 1..MaxTasks
      <4>1. backlog \in Seq(M) /\ n0 \in M
        BY Zenon, <1>2
      <4> HIDE DEF M
      <4>2. \A n : Waiting(Append(backlog, n0), n) = IF n0 = n THEN Waiting(backlog, n) + 1 ELSE Waiting(backlog, n)
        BY Zenon, <4>1, WaitingAfterPush
      <4> QED BY <4>2
    <3>3. Waiting(Append(backlog, n0), n0) = Waiting(backlog, n0) + 1
      BY <1>2, <3>2
    <3>4. Waiting(backlog, n0) \in Nat
      BY Zenon, <1>2, <1>3
    <3>5. CASE backlog' = backlog
      BY <1>2, <3>4, <3>5
    <3>6. CASE backlog' = Append(backlog, n0)
      BY <3>1, <3>2, <3>3, <3>4, <3>6
    <3> QED BY Zenon, <2>2, <3>5, <3>6
  <2>4. performed'[n0] + Waiting(backlog', n0) <= Spent(n0) + 1
    <3>1. Waiting(backlog', n0) \in Nat
      BY Zenon, <2>3, WaitingIsNat
    <3> QED BY <1>2, <1>3, <2>1, <2>3, <3>1 DEF Spent
  <2>5. AttemptEffect(n0)
    BY <1>2, <2>1, <2>3, <2>4 DEF AttemptEffect, Spent
  <2>6. HandlerEnds \/ TriesAgain
    BY <1>7 DEF AttemptOwnPort, AfterFailure, HandlerEnds, TriesAgain
  <2> QED BY <1>1, <2>5, <2>6 DEF n0
<1> QED BY Zenon, <1>5, <1>6, <1>7 DEF Attempt

(* An attempt keeps the invariant: the handler ends with at most as many    *)
(* requests out as attempts made, or is at one attempt more.                *)
LEMMA AttemptKeeps ==
    ASSUME AtInv, Attempt
    PROVE  AtInv'
<1> USE AgentAssumption
<1> DEFINE task == executing.task
           n0 == task.number
           a == executing.attempt
<1>1. ~LoopIsFree /\ AttemptEffect(n0) /\ (HandlerEnds \/ TriesAgain)
    BY Zenon, AttemptIs
<1>2. /\ task \in TaskRecords /\ a \in Nat \ {0} /\ executing.port \in Ports
      /\ executing \in [task : TaskRecords, attempt : Nat \ {0}, port : Ports]
    BY <1>1 DEF AtInv, AtType, LoopIsFree, NoExecution
<1>3. n0 \in 1..MaxTasks
    BY Zenon, <1>2 DEF TaskRecords
<1>4. Spent(n0) < a /\ a <= Retries(task.kind) + 1 /\ Retries(task.kind) \in Nat /\ Retries(task.kind) <= MaxRetries
    BY <1>1 DEF AtInv, SpentIsBounded, Retries
<1>5. Executed = {n0} /\ n0 \notin Recorded /\ n0 \notin cancelled /\ n0 \notin Live
    BY Zenon, <1>1 DEF AtInv, InOnePlace, Executed
<1>6. /\ UNCHANGED <<proposals, tasks, created, cancelled>>
      /\ performed' \in [1..MaxTasks -> Nat] /\ backlog' \in Seq(1..MaxTasks)
      /\ \A n \in 1..MaxTasks : n # n0 => Spent(n)' = Spent(n)
      /\ performed'[n0] + Waiting(backlog', n0) <= Spent(n0) + 1
    BY Zenon, <1>1 DEF AttemptEffect
<1>7. Spent(n0) \in Nat /\ performed'[n0] + Waiting(backlog', n0) \in Nat
  <2>1. performed[n0] \in Nat /\ performed'[n0] \in Nat /\ Waiting(backlog, n0) \in Nat /\ Waiting(backlog', n0) \in Nat
    BY Zenon, <1>3, <1>6, WaitingIsNat DEF AtInv, AtType
  <2> QED BY <2>1 DEF Spent
<1>8. NoTaskCycle' /\ TasksDiffer' /\ Live' = Live
    BY <1>6 DEF AtInv, NoTaskCycle, TasksDiffer, Live
<1>9. ASSUME NEW i \in DOMAIN recorded
      PROVE  performed'[recorded[i].task.number] + Waiting(backlog', recorded[i].task.number)
               <= Retries(recorded[i].task.kind) + 1
  <2>1. recorded[i].task.number \in 1..MaxTasks /\ recorded[i].task.number # n0
    <3>1. recorded[i] \in Outcomes
      BY Zenon, ElementOf DEF AtInv, AtType
    <3> QED BY Zenon, <1>5, <3>1 DEF Outcomes, TaskRecords, Recorded
  <2>2. Spent(recorded[i].task.number) <= Retries(recorded[i].task.kind) + 1
    BY Zenon DEF AtInv, SpentIsBounded
  <2>3. \A n \in 1..MaxTasks : n # n0 => performed'[n] + Waiting(backlog', n) = Spent(n)
    BY Zenon, <1>6 DEF Spent
  <2> QED BY <2>1, <2>2, <2>3
<1> HIDE DEF task, n0, a
<1>10. CASE HandlerEnds
  <2>1. PICK stage \in {"Done", "Failed"} : RecordHistory(task, stage) /\ executing' = NoExecution
    BY Zenon, <1>10 DEF HandlerEnds, Finish, task
  <2>2. /\ recorded' \in Seq(Outcomes) /\ history' \in Seq(Outcomes)
        /\ HistoryIsEnd'
        /\ Recorded' = Recorded \cup {n0}
        /\ \A i, j \in DOMAIN recorded' : recorded'[i].task.number = recorded'[j].task.number => i = j
        /\ \A i \in DOMAIN recorded' : \/ i \in DOMAIN recorded /\ recorded'[i] = recorded[i]
                                       \/ recorded'[i].task = task
    BY Zenon, <1>2, <1>5, <2>1, OutcomeRecorded DEF n0
  <2>3. Executed' = {} /\ LoopIsFree'
    BY <2>1 DEF Executed, LoopIsFree, NoExecution
  <2>4. AtType'
    BY Zenon, <1>6, <2>1, <2>2 DEF AtInv, AtType
  <2>5. InOnePlace'
    BY Zenon, <1>5, <1>6, <1>8, <2>2, <2>3 DEF AtInv, InOnePlace
  <2>6. \A n \in 1..MaxTasks : n \notin Executed' \cup Recorded' => Spent(n)' = 0
    BY Zenon, <1>5, <1>6, <2>2, <2>3 DEF AtInv, SpentIsBounded
  <2>7. ASSUME NEW i \in DOMAIN recorded'
        PROVE  performed'[recorded'[i].task.number] + Waiting(backlog', recorded'[i].task.number)
                 <= Retries(recorded'[i].task.kind) + 1
    <3>1. CASE i \in DOMAIN recorded /\ recorded'[i] = recorded[i]
      BY Zenon, <1>9, <3>1
    <3>2. CASE recorded'[i].task = task
      <4>1. performed'[n0] + Waiting(backlog', n0) <= Retries(task.kind) + 1
        BY <1>2, <1>4, <1>6, <1>7
      <4> QED BY Zenon, <3>2, <4>1 DEF n0
    <3> QED BY Zenon, <2>2, <3>1, <3>2
  <2>8. SpentIsBounded'
    BY Zenon, <2>3, <2>6, <2>7 DEF SpentIsBounded, Spent
  <2> QED BY Zenon, <1>8, <2>2, <2>4, <2>5, <2>8 DEF AtInv
<1>11. CASE TriesAgain
  <2>1. a <= Retries(task.kind) /\ executing' = [executing EXCEPT !.attempt = NextAttempt(a)] /\ UNCHANGED <<history, recorded>>
    BY <1>11 DEF TriesAgain, MayRetry, task, a
  <2>2. NextAttempt(a) = a + 1
    BY <1>2, <1>4, <2>1 DEF NextAttempt
  <2>3. /\ executing'.task = task /\ executing'.attempt = a + 1
        /\ executing' \in [task : TaskRecords, attempt : Nat \ {0}, port : Ports]
    BY <1>2, <2>1, <2>2 DEF task, a
  <2>4. ~LoopIsFree' /\ Executed' = {n0} /\ Recorded' = Recorded
    BY Zenon, <1>2, <2>1, <2>3 DEF Executed, LoopIsFree, Recorded, n0
  <2>5. AtType'
    BY Zenon, <1>6, <2>1, <2>3 DEF AtInv, AtType
  <2>6. InOnePlace'
    <3>1. \A i, j \in DOMAIN recorded' : recorded'[i].task.number = recorded'[j].task.number => i = j
      BY Zenon, <2>1 DEF AtInv, InOnePlace
    <3> QED BY Zenon, <1>5, <1>6, <1>8, <2>4, <3>1 DEF AtInv, InOnePlace
  <2>7. \A n \in 1..MaxTasks : n \notin Executed' \cup Recorded' => Spent(n)' = 0
    BY Zenon, <1>5, <1>6, <2>4 DEF AtInv, SpentIsBounded
  <2>8. /\ performed'[executing'.task.number] + Waiting(backlog', executing'.task.number) < executing'.attempt
        /\ executing'.attempt <= Retries(executing'.task.kind) + 1
    <3>1. performed'[n0] + Waiting(backlog', n0) < a + 1 /\ a + 1 <= Retries(task.kind) + 1
      <4> DEFINE p == performed'[n0] + Waiting(backlog', n0)
                 t == Spent(n0)
      <4>1. p \in Nat /\ t \in Nat /\ p <= t + 1 /\ t < a
        BY Zenon, <1>4, <1>6, <1>7
      <4>2. a \in Nat /\ Retries(task.kind) \in Nat /\ a <= Retries(task.kind)
        BY Zenon, <1>2, <1>4, <2>1
      <4> HIDE DEF p, t
      <4>3. p < a + 1 /\ a + 1 <= Retries(task.kind) + 1
        BY <4>1, <4>2
      <4> QED BY Zenon, <4>3 DEF p
    <3> QED BY Zenon, <2>3, <3>1 DEF n0
  <2>9. SpentIsBounded'
    BY <1>9, <2>1, <2>7, <2>8 DEF SpentIsBounded, Spent
  <2>10. HistoryIsEnd'
    BY Zenon, <2>1 DEF AtInv, HistoryIsEnd
  <2> QED BY Zenon, <1>8, <2>5, <2>6, <2>9, <2>10 DEF AtInv
<1> QED BY <1>1, <1>10, <1>11

-----------------------------------------------------------------------------
(* The first connection of a backlog that is not empty, and the others.     *)
LEMMA HeadAndTail ==
    ASSUME NEW S, NEW s \in Seq(S), s # <<>>
    PROVE  Head(s) \in S /\ Tail(s) \in Seq(S)
OBVIOUS

(* A served request moves what was waiting to what was performed. *)
LEMMA ServeKeeps ==
    ASSUME AtInv, ServeQueued
    PROVE  AtInv'
<1>1. /\ backlog \in Seq(1..MaxTasks) /\ backlog # <<>>
      /\ performed \in [1..MaxTasks -> Nat]
    BY DEF ServeQueued, AtInv, AtType
<1> DEFINE h == Head(backlog)
<1>2. h \in 1..MaxTasks /\ Tail(backlog) \in Seq(1..MaxTasks)
    BY Zenon, <1>1, HeadAndTail
<1> HIDE DEF h
<1>3. backlog' = Tail(backlog) /\ performed' = [performed EXCEPT ![h] = @ + 1]
    BY DEF ServeQueued, h
<1>4. UNCHANGED <<statusVars, executing, created, cancelled, recorded>>
    BY DEF ServeQueued
<1>5. performed' \in [1..MaxTasks -> Nat] /\ backlog' \in Seq(1..MaxTasks)
    BY <1>1, <1>2, <1>3
<1>6. \A n \in 1..MaxTasks : performed'[n] + Waiting(backlog', n) = Spent(n)
  <2> SUFFICES ASSUME NEW n \in 1..MaxTasks
               PROVE  performed'[n] + Waiting(backlog', n) = Spent(n)
    OBVIOUS
  <2>1. Waiting(backlog, n) = IF h = n THEN Waiting(backlog', n) + 1 ELSE Waiting(backlog', n)
    BY Zenon, <1>1, <1>3, WaitingAfterPop DEF h
  <2>2. performed'[n] = (IF h = n THEN performed[n] + 1 ELSE performed[n])
    BY Zenon, <1>1, <1>2, <1>3
  <2>3. performed[n] \in Nat /\ Waiting(backlog', n) \in Nat
    BY Zenon, <1>1, <1>5, WaitingIsNat
  <2> QED BY <2>1, <2>2, <2>3 DEF Spent
<1>7. Executed' = Executed /\ Recorded' = Recorded /\ Live' = Live /\ LoopIsFree' = LoopIsFree
    BY <1>4 DEF statusVars, Executed, Recorded, Live, LoopIsFree
<1>8. AtType'
    BY <1>4, <1>5 DEF AtInv, AtType, statusVars
<1>9. NoTaskCycle' /\ TasksDiffer' /\ HistoryIsEnd'
    BY Zenon, <1>4 DEF AtInv, NoTaskCycle, TasksDiffer, HistoryIsEnd, statusVars
<1>10. InOnePlace'
    BY Zenon, <1>4, <1>7 DEF AtInv, InOnePlace
<1>11. SpentIsBounded'
  <2>1. LoopIsFree /\ executing' = executing /\ recorded' = recorded
    BY Zenon, <1>4 DEF ServeQueued
  <2>2. \A n \in 1..MaxTasks : n \notin Executed' \cup Recorded' => Spent(n)' = 0
    BY Zenon, <1>6, <1>7 DEF AtInv, SpentIsBounded, Spent
  <2>3. ASSUME NEW i \in DOMAIN recorded
        PROVE  performed'[recorded[i].task.number] + Waiting(backlog', recorded[i].task.number)
                 <= Retries(recorded[i].task.kind) + 1
    <3>1. recorded[i] \in Outcomes
      BY Zenon, ElementOf DEF AtInv, AtType
    <3>2. recorded[i].task.number \in 1..MaxTasks
      BY Zenon, <3>1 DEF Outcomes, TaskRecords
    <3>3. Spent(recorded[i].task.number) <= Retries(recorded[i].task.kind) + 1
      BY Zenon DEF AtInv, SpentIsBounded
    <3> QED BY Zenon, <1>6, <3>2, <3>3
  <2> QED BY Zenon, <1>7, <2>1, <2>2, <2>3 DEF SpentIsBounded, Spent
<1> QED BY <1>8, <1>9, <1>10, <1>11 DEF AtInv

(* A step that leaves tasks, outcomes and requests alone. *)
LEMMA StatusKeeps ==
    ASSUME AtInv, UNCHANGED <<tasks, history, executing, backlog, created, cancelled, recorded, performed>>,
           DOMAIN proposals' \subseteq ProposalIds,
           \A p \in DOMAIN proposals' : proposals'[p] \in Kinds
    PROVE  AtInv'
<1>1. AtType'
    BY Zenon DEF AtInv, AtType
<1>2. SpentIsBounded' /\ Executed' = Executed /\ Recorded' = Recorded
    BY Zenon, SpentStays DEF AtInv
<1>3. NoTaskCycle' /\ TasksDiffer' /\ HistoryIsEnd' /\ Live' = Live
    BY Zenon DEF AtInv, NoTaskCycle, TasksDiffer, HistoryIsEnd, Live
<1>4. InOnePlace'
    BY Zenon, <1>2, <1>3 DEF AtInv, InOnePlace
<1> QED BY Zenon, <1>1, <1>2, <1>3, <1>4 DEF AtInv

(* agent.approve inserts the task or only drops the proposal.               *)
LEMMA ApproveKeeps ==
    ASSUME AtInv, NEW p \in ProposalIds, Approve(p)
    PROVE  AtInv'
<1> DEFINE task == NewTask(p, proposals[p], {})
<1>1. p \in DOMAIN proposals /\ created < MaxTasks
    BY Zenon DEF Approve
<1>2. /\ DOMAIN proposals' \subseteq DOMAIN proposals
      /\ \A q \in DOMAIN proposals' : proposals'[q] = proposals[q]
    BY Zenon DEF Approve, RemoveProposal
<1>3. task \in TaskRecords /\ task.number = created + 1
  <2>1. proposals[p] \in Kinds /\ created + 1 \in 1..MaxTasks
    BY <1>1, AgentAssumption DEF AtInv, AtType
  <2> QED BY Zenon, <2>1 DEF TaskRecords, NewTask
<1>4. UNCHANGED <<history, executing, backlog, cancelled, recorded, performed>>
    BY Zenon DEF Approve
<1> HIDE DEF task
<1>5. CASE Insertable(tasks, task)
  <2>1. tasks' = tasks \cup {task} /\ created' = created + 1
    BY Zenon, <1>5 DEF Approve, task
  <2> QED BY Zenon, <1>1, <1>2, <1>3, <1>4, <1>5, <2>1, InsertKeeps
<1>6. CASE ~Insertable(tasks, task)
  <2>1. tasks' = tasks /\ created' = created
    BY Zenon, <1>6 DEF Approve, task
  <2>2. DOMAIN proposals' \subseteq ProposalIds /\ \A q \in DOMAIN proposals' : proposals'[q] \in Kinds
    BY Zenon, <1>2 DEF AtInv, AtType
  <2> QED BY Zenon, <1>4, <2>1, <2>2, StatusKeeps
<1> QED BY Zenon, <1>5, <1>6

(* Every handler, every attempt and every late request keeps the invariant. *)
LEMMA AtStepKeeps == AtInv /\ [AtNext]_atVars => AtInv'
<1> SUFFICES ASSUME AtInv, [AtNext]_atVars PROVE AtInv'
    OBVIOUS
<1>0. /\ DOMAIN proposals \subseteq ProposalIds /\ \A p \in DOMAIN proposals : proposals[p] \in Kinds
      /\ \A offer \in Offers : offer[1] \in ProposalIds /\ offer[2] \in Kinds
    BY Zenon, AgentAssumption DEF AtInv, AtType, Kinds
<1>1. ASSUME NEW o \in Observations, Observe(o) PROVE AtInv'
    BY Zenon, <1>0, <1>1, StatusKeeps DEF Observe
<1>2. ASSUME NEW offer \in Offers, NEW evidence \in SUBSET Observations, Propose(offer[1], offer[2], evidence)
      PROVE  AtInv'
  <2>1. /\ DOMAIN proposals' \subseteq ProposalIds
        /\ \A p \in DOMAIN proposals' : proposals'[p] \in Kinds
    BY <1>0, <1>2 DEF Propose
  <2> QED BY Zenon, <1>2, <2>1, StatusKeeps DEF Propose
<1>3. ASSUME NEW p \in ProposalIds, Approve(p) PROVE AtInv'
    BY Zenon, <1>3, ApproveKeeps
<1>4. ASSUME NEW offer \in Offers, NEW deps \in (SUBSET ProposalIds) \ {{}}, InsertTask(offer[1], offer[2], deps)
      PROVE  AtInv'
  <2> DEFINE task == NewTask(offer[1], offer[2], deps)
  <2>1. task \in TaskRecords /\ task.number = created + 1
    <3>1. created + 1 \in 1..MaxTasks
      BY <1>4, AgentAssumption DEF AtInv, AtType, InsertTask
    <3> QED BY Zenon, <1>0, <3>1 DEF TaskRecords, NewTask
  <2>2. /\ created < MaxTasks /\ Insertable(tasks, task) /\ tasks' = tasks \cup {task} /\ created' = created + 1
        /\ UNCHANGED <<proposals, history, executing, backlog, cancelled, recorded, performed>>
    BY <1>4 DEF InsertTask
  <2> HIDE DEF task
  <2> QED BY Zenon, <2>1, <2>2, InsertKeeps
<1>5. ASSUME NEW task \in tasks, Cancel(task) PROVE AtInv'
    BY <1>5, CancelKeeps
<1>6. ASSUME NEW task \in tasks, NEW port \in Ports, Execute(task, port) PROVE AtInv'
    BY <1>6, ExecuteKeeps
<1>7. CASE Attempt
    BY <1>7, AttemptKeeps
<1>8. CASE ServeQueued
    BY Zenon, <1>8, ServeKeeps
<1>9. CASE UNCHANGED atVars
    BY Zenon, <1>0, <1>9, StatusKeeps DEF atVars, statusVars
<1> QED BY Zenon, <1>1, <1>2, <1>3, <1>4, <1>5, <1>6, <1>7, <1>8, <1>9 DEF AtNext

(* The invariant of the agent surface, for any ids, ports, limits and       *)
(* retries.                                                                 *)
LEMMA AtAlways == AtSpec => []AtInv
BY AtStart, AtStepKeeps, PTL DEF AtSpec

(* The live tasks never wait for each other in a circle, for any ids, any   *)
(* dependencies and any order of insertions, removals and insertions again. *)
THEOREM TasksStayAcyclic == AtSpec => []NoTaskCycle
BY AtAlways, AtInvGives, PTL

(* A task is never lost and never in two places, and the history is the end *)
(* of what was recorded, for every limit.                                   *)
THEOREM TasksAreKeptOnce == AtSpec => []EveryTaskOnce
BY AtAlways, AtInvGives, PTL

(* A task's action is never performed more often than its retries allow, by *)
(* the attempts and by the requests that outlive them together, for every   *)
(* number of retries and every size of the backlog.                         *)
THEOREM ActionsAreNotRepeated == AtSpec => []NoRepeatedAction
BY AtAlways, AtInvGives, PTL

(* A proposal only leaves the pending set into a task, or because a live    *)
(* task has its id or waits for it.                                         *)
THEOREM ApprovalsAreAnswered == AtSpec => ApprovalIsAnswered
<1>1. [AtNext]_atVars => [\A p \in DOMAIN proposals \ DOMAIN proposals' :
                         \/ p \in Ids(tasks')
                         \/ \E t \in tasks' : TransitivelyDependsOn(tasks', t, p)]_atVars
  <2> DEFINE Answered(p) == p \in Ids(tasks') \/ \E t \in tasks' : TransitivelyDependsOn(tasks', t, p)
  <2> SUFFICES ASSUME AtNext, NEW p \in DOMAIN proposals \ DOMAIN proposals' PROVE Answered(p)
    BY Zenon DEF atVars
  <2>1. CASE \E q \in ProposalIds : Approve(q)
    <3>1. PICK q \in ProposalIds : Approve(q)
      BY Zenon, <2>1
    <3>2. q = p
      BY Zenon, <3>1 DEF Approve, RemoveProposal
    <3> DEFINE task == NewTask(p, proposals[p], {})
    <3>3. task.id = p /\ task.deps = {}
      BY Zenon DEF NewTask
    <3>4. tasks' = IF Insertable(tasks, task) THEN tasks \cup {task} ELSE tasks
      BY Zenon, <3>1, <3>2 DEF Approve
    <3> HIDE DEF task
    <3>5. CASE Insertable(tasks, task)
      BY Zenon, <3>3, <3>4, <3>5 DEF Ids
    <3>6. CASE ~Insertable(tasks, task)
      BY Zenon, <3>3, <3>4, <3>6 DEF Insertable
    <3> QED BY Zenon, <3>5, <3>6
  <2>2. CASE ~\E q \in ProposalIds : Approve(q)
    <3>1. DOMAIN proposals \subseteq DOMAIN proposals'
      BY Zenon, <2>2 DEF AtNext, Observe, Propose, InsertTask, Cancel, Execute, Attempt, AttemptLocal, AttemptOwnPort,
           AttemptOtherPort, ServeQueued, statusVars
    <3> QED BY Zenon, <3>1
  <2> QED BY Zenon, <2>1, <2>2
<1> QED BY <1>1, PTL DEF AtSpec, ApprovalIsAnswered
=============================================================================
