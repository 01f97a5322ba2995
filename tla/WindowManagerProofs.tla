------------------------ MODULE WindowManagerProofs -------------------------
(***************************************************************************)
(* The tables of the window manager, for any number of windows and         *)
(* workspaces: the stacking order, the lists of the workspaces, the focus  *)
(* and the windows themselves stay in step under every call.               *)
(*                                                                         *)
(* The invariant WmInv says it of one manager m, window by window and list *)
(* by list; TablesAgree counts places, and follows.  The calls are         *)
(* operators, so each has a lemma "the manager after the call satisfies    *)
(* WmInv", which the desktop's proofs use again.  Vec::retain is a         *)
(* recursive function: what it returns is proved by the least              *)
(* counterexample.                                                         *)
(***************************************************************************)
EXTENDS Workspaces, WellFoundedInduction, FiniteSetTheorems, TLAPS

(* A set of natural numbers has a least element: induction, in the form the *)
(* proofs below use it, on a set of counterexamples.                        *)
LEMMA LeastNat ==
    ASSUME NEW T \in SUBSET Nat, T # {}
    PROVE  \E m \in T : \A n \in T : m <= n
<1>1. PICK m \in T : \A n \in T : ~(<<n, m>> \in OpToRel(<, Nat))
  BY Zenon, NatLessThanWellFounded, WFMin
<1>2. \A n \in T : ~ (n < m)
  BY Zenon, <1>1 DEF OpToRel
<1> QED BY <1>2

(* A set of natural numbers with a bound has a greatest element.            *)
LEMMA GreatestNat ==
    ASSUME NEW T \in SUBSET Nat, T # {}, NEW b \in Nat, \A n \in T : n <= b
    PROVE  \E m \in T : \A n \in T : n <= m
<1> DEFINE U == {u \in Nat : \A n \in T : n <= u}
<1>1. PICK u \in U : \A v \in U : u <= v
  <2>1. U \in SUBSET Nat /\ b \in U
    OBVIOUS
  <2> HIDE DEF U
  <2> QED BY <2>1, LeastNat
<1>2. u \in T
  <2> SUFFICES ASSUME u \notin T PROVE FALSE
    OBVIOUS
  <2>1. PICK t \in T : TRUE
    BY Zenon
  <2>2. u - 1 \in U
    <3>1. \A n \in T : n <= u - 1
      BY <1>1
    <3>2. u - 1 \in Nat
      BY <1>1, <2>1, <3>1
    <3> QED BY <3>1, <3>2
  <2> QED BY <1>1, <2>2
<1> QED BY <1>1, <1>2

-----------------------------------------------------------------------------
(* Vec::retain *)

(* One step of retain, and what a function must satisfy to be the fold.     *)
Retain(s, id, f) ==
    [n \in 0..Len(s) |-> IF n = 0 THEN <<>>
                         ELSE IF s[n] = id THEN f[n - 1] ELSE Append(f[n - 1], s[n])]

(* The recursion of retain has a solution.                                  *)
LEMMA RetainIsDefined ==
    ASSUME NEW S, NEW s \in Seq(S), NEW id
    PROVE  \E f : f = Retain(s, id, f)
<1> DEFINE Step(f, n) == IF n = 0 THEN <<>>
                         ELSE IF s[n] = id THEN f[n - 1] ELSE Append(f[n - 1], s[n])
           Upto(k) == \E f : f = [n \in 0..k |-> Step(f, n)]
           T == {k \in Nat : ~ Upto(k)}
<1>1. T = {}
  <2> SUFFICES ASSUME T # {} PROVE FALSE
    OBVIOUS
  <2>1. PICK k \in T : \A n \in T : k <= n
    <3>1. T \in SUBSET Nat
      OBVIOUS
    <3> HIDE DEF T
    <3> QED BY <3>1, LeastNat
  <2>2. CASE k = 0
    <3> DEFINE g == [n \in 0..0 |-> <<>>]
    <3>1. g = [n \in 0..0 |-> Step(g, n)]
      OBVIOUS
    <3> QED BY Zenon, <2>1, <2>2, <3>1
  <2>3. CASE k # 0
    <3>1. k \in Nat /\ k - 1 \in Nat /\ k - 1 \notin T
      <4>1. k \in Nat
        OBVIOUS
      <4> HIDE DEF T
      <4> QED BY <2>1, <2>3, <4>1
    <3>2. PICK f : f = [n \in 0..(k - 1) |-> Step(f, n)]
      BY Zenon, <3>1
    <3> DEFINE g == [n \in 0..k |-> Step(f, n)]
    <3>3. \A n \in 0..(k - 1) : g[n] = f[n]
      <4> SUFFICES ASSUME NEW n \in 0..(k - 1) PROVE g[n] = f[n]
        BY Zenon
      <4>1. f[n] = Step(f, n)
        BY Zenon, <3>2
      <4>2. g[n] = Step(f, n)
        BY <3>1
      <4> QED BY <4>1, <4>2
    <3>4. g = [n \in 0..k |-> Step(g, n)]
      <4>1. \A n \in 0..k : Step(f, n) = Step(g, n)
        <5> SUFFICES ASSUME NEW n \in 0..k PROVE Step(f, n) = Step(g, n)
          OBVIOUS
        <5> HIDE DEF g
        <5>1. CASE n = 0
          BY <5>1
        <5>2. CASE n # 0
          <6>1. n - 1 \in 0..(k - 1)
            BY <3>1, <5>2
          <6> QED BY Zenon, <3>3, <6>1
        <5> QED BY <5>1, <5>2
      <4> QED BY Zenon, <4>1
    <3> QED BY Zenon, <2>1, <3>4
  <2> QED BY <2>2, <2>3
<1>2. Upto(Len(s))
  BY <1>1
<1> QED BY Zenon, <1>2 DEF Retain

(* What retain keeps: the elements other than id, in their order.  The map  *)
(* f takes each place of the result to the place it comes from.             *)
KeptBy(s, id, n, r, f) ==
    /\ f \in [1..Len(r) -> 1..n]
    /\ \A i, j \in 1..Len(r) : i < j => f[i] < f[j]
    /\ \A i \in 1..Len(r) : r[i] = s[f[i]] /\ s[f[i]] # id
    /\ \A p \in 1..n : s[p] # id => \E i \in 1..Len(r) : f[i] = p

(* One more element: the witness of Retain is extended or kept.             *)
LEMMA RetainStep ==
    ASSUME NEW S, NEW s \in Seq(S), NEW id, NEW n \in 1..Len(s), NEW r \in Seq(S),
           NEW f, KeptBy(s, id, n - 1, r, f)
    PROVE  /\ s[n] = id => KeptBy(s, id, n, r, f)
           /\ s[n] # id => KeptBy(s, id, n, Append(r, s[n]),
                                  [i \in 1..(Len(r) + 1) |-> IF i = Len(r) + 1 THEN n ELSE f[i]])
<1>1. n \in Nat /\ n >= 1 /\ Len(r) \in Nat
  OBVIOUS
<1>2. ASSUME s[n] = id PROVE KeptBy(s, id, n, r, f)
  <2>1. f \in [1..Len(r) -> 1..n]
    BY <1>1 DEF KeptBy
  <2>2. \A p \in 1..n : s[p] # id => p \in 1..(n - 1)
    BY <1>1, <1>2
  <2> QED BY <2>1, <2>2 DEF KeptBy
<1>3. ASSUME s[n] # id
      PROVE  KeptBy(s, id, n, Append(r, s[n]),
                    [i \in 1..(Len(r) + 1) |-> IF i = Len(r) + 1 THEN n ELSE f[i]])
  <2> DEFINE r1 == Append(r, s[n])
             g == [i \in 1..(Len(r) + 1) |-> IF i = Len(r) + 1 THEN n ELSE f[i]]
  <2>1. Len(r1) = Len(r) + 1 /\ r1[Len(r) + 1] = s[n] /\ \A i \in 1..Len(r) : r1[i] = r[i]
    OBVIOUS
  <2>2. \A i \in 1..Len(r) : g[i] = f[i] /\ f[i] \in 1..(n - 1)
    <3>1. \A i \in 1..Len(r) : f[i] \in 1..(n - 1)
      BY Zenon DEF KeptBy
    <3>2. \A i \in 1..Len(r) : i \in 1..(Len(r) + 1) /\ i # Len(r) + 1
      BY <1>1
    <3> QED BY Zenon, <3>1, <3>2
  <2>3. g[Len(r) + 1] = n
    BY <1>1
  <2>4. g \in [1..(Len(r) + 1) -> 1..n]
    BY <1>1 DEF KeptBy
  <2> HIDE DEF r1, g
  <2>5. \A i \in 1..Len(r1) : i \in 1..Len(r) \/ i = Len(r) + 1
    BY <1>1, <2>1
  <2>6. \A i, j \in 1..Len(r1) : i < j => g[i] < g[j]
    <3> SUFFICES ASSUME NEW i \in 1..Len(r1), NEW j \in 1..Len(r1), i < j PROVE g[i] < g[j]
      OBVIOUS
    <3>1. i \in 1..Len(r)
      BY <1>1, <2>1
    <3>2. CASE j \in 1..Len(r)
      BY <2>2, <3>1, <3>2 DEF KeptBy
    <3>3. CASE j = Len(r) + 1
      BY <1>1, <2>2, <2>3, <3>1, <3>3
    <3> QED BY <2>5, <3>2, <3>3
  <2>7. \A i \in 1..Len(r1) : r1[i] = s[g[i]] /\ s[g[i]] # id
    BY Zenon, <1>3, <2>1, <2>2, <2>3, <2>5 DEF KeptBy
  <2>8. \A p \in 1..n : s[p] # id => \E i \in 1..Len(r1) : g[i] = p
    <3> SUFFICES ASSUME NEW p \in 1..n, s[p] # id PROVE \E i \in 1..Len(r1) : g[i] = p
      OBVIOUS
    <3>1. CASE p = n
      BY <1>1, <2>1, <2>3, <3>1
    <3>2. CASE p # n
      <4>1. PICK i \in 1..Len(r) : f[i] = p
        BY <1>1, <3>2 DEF KeptBy
      <4> QED BY <1>1, <2>1, <2>2, <4>1
    <3> QED BY <3>1, <3>2
  <2> QED BY Zenon, <2>1, <2>4, <2>6, <2>7, <2>8 DEF KeptBy, r1, g
<1> QED BY <1>2, <1>3

(* Vec::retain keeps the other elements, in their order, and nothing else.  *)
LEMMA WithoutKeeps ==
    ASSUME NEW S, NEW s \in Seq(S), NEW id
    PROVE  /\ without(s, id) \in Seq(S)
           /\ \E f : KeptBy(s, id, Len(s), without(s, id), f)
<1> DEFINE h == CHOOSE f : f = Retain(s, id, f)
           Good(n) == h[n] \in Seq(S) /\ \E f : KeptBy(s, id, n, h[n], f)
           T == {n \in 0..Len(s) : ~ Good(n)}
<1>1. h = Retain(s, id, h)
  BY RetainIsDefined
<1>2. without(s, id) = h[Len(s)]
  BY DEF without, Retain
<1> HIDE DEF h
<1>3. \A n \in 0..Len(s) : h[n] = IF n = 0 THEN <<>>
                                  ELSE IF s[n] = id THEN h[n - 1] ELSE Append(h[n - 1], s[n])
  BY Zenon, <1>1 DEF Retain
<1>4. Good(0)
  <2>1. h[0] = <<>> /\ <<>> \in Seq(S) /\ Len(<<>>) = 0
    BY <1>3
  <2>2. KeptBy(s, id, 0, <<>>, <<>>)
    BY DEF KeptBy
  <2> QED BY <2>1, <2>2
<1>5. T = {}
  <2> SUFFICES ASSUME T # {} PROVE FALSE
    OBVIOUS
  <2>1. PICK k \in T : \A n \in T : k <= n
    <3>1. T \in SUBSET Nat
      OBVIOUS
    <3> HIDE DEF T
    <3> QED BY <3>1, LeastNat
  <2>2. k \in 1..Len(s) /\ ~ Good(k)
    <3>1. k \in 0..Len(s) /\ ~ Good(k)
      BY <2>1
    <3> HIDE DEF Good
    <3> QED BY <1>4, <3>1
  <2>3. Good(k - 1)
    <3>1. k - 1 \in 0..Len(s) /\ k - 1 < k
      BY <2>2
    <3>2. k - 1 \notin T
      <4> HIDE DEF T
      <4> QED BY <2>1, <2>2, <3>1
    <3> QED BY <3>1, <3>2
  <2>4. PICK f : KeptBy(s, id, k - 1, h[k - 1], f)
    BY <2>3
  <2>5. s[k] \in S
    BY <2>2
  <2>6. h[k] = IF s[k] = id THEN h[k - 1] ELSE Append(h[k - 1], s[k])
    BY <1>3, <2>2
  <2>7. \E g : KeptBy(s, id, k, h[k], g)
    <3>1. h[k - 1] \in Seq(S)
      BY <2>3
    <3> DEFINE g == [i \in 1..(Len(h[k - 1]) + 1) |->
                        IF i = Len(h[k - 1]) + 1 THEN k ELSE f[i]]
    <3>2. /\ s[k] = id => KeptBy(s, id, k, h[k - 1], f)
          /\ s[k] # id => KeptBy(s, id, k, Append(h[k - 1], s[k]), g)
      BY <2>2, <2>4, <3>1, RetainStep, ZenonT(60)
    <3> HIDE DEF g
    <3> QED BY <2>6, <3>2
  <2>8. h[k] \in Seq(S)
    BY <2>3, <2>5, <2>6
  <2> QED BY <2>2, <2>7, <2>8
<1>6. Good(Len(s))
  BY <1>5
<1> QED BY <1>2, <1>6

(* So the result holds the other elements, each as often as before.         *)
LEMMA WithoutRange ==
    ASSUME NEW S, NEW s \in Seq(S), NEW id
    PROVE  /\ without(s, id) \in Seq(S)
           /\ Range(without(s, id)) = Range(s) \ {id}
           /\ IsInjective(s) => IsInjective(without(s, id))
<1> DEFINE r == without(s, id)
<1>1. r \in Seq(S)
  BY WithoutKeeps
<1>2. PICK f : KeptBy(s, id, Len(s), r, f)
  BY WithoutKeeps
<1> HIDE DEF r
<1>3. DOMAIN r = 1..Len(r) /\ DOMAIN s = 1..Len(s)
  BY <1>1
<1>4. Range(r) = Range(s) \ {id}
  <2>1. ASSUME NEW i \in 1..Len(r) PROVE r[i] # id /\ \E p \in 1..Len(s) : s[p] = r[i]
    BY Zenon, <1>2 DEF KeptBy
  <2>2. ASSUME NEW p \in 1..Len(s), s[p] # id PROVE \E i \in 1..Len(r) : r[i] = s[p]
    BY <1>2, <2>2 DEF KeptBy
  <2>3. \A x \in Range(r) : x # id /\ x \in Range(s)
    BY <1>3, <2>1 DEF Range
  <2>4. \A x \in Range(s) : x # id => x \in Range(r)
    BY <1>3, <2>2 DEF Range
  <2> QED BY <2>3, <2>4
<1>5. ASSUME IsInjective(s) PROVE IsInjective(r)
  <2> SUFFICES ASSUME NEW i \in 1..Len(r), NEW j \in 1..Len(r), r[i] = r[j] PROVE i = j
    BY Zenon, <1>3 DEF IsInjective
  <2>1. f[i] = f[j]
    BY Zenon, <1>2, <1>3, <1>5 DEF KeptBy, IsInjective
  <2>2. ~ (i < j) /\ ~ (j < i)
    BY <1>2, <2>1 DEF KeptBy
  <2> QED BY <1>1, <2>2
<1> QED BY <1>1, <1>4, <1>5 DEF r

-----------------------------------------------------------------------------
(* The windows of applications in A, and records with the fields of the     *)
(* manager.                                                                 *)
States == {"Normal", "Minimized", "Maximized"}
Win(A) == [app_id : A, state : States, focused : BOOLEAN, visible : BOOLEAN,
           workspace_id : Nat]

IsManager(m) ==
    m = [windows |-> m.windows, stack |-> m.stack, focused |-> m.focused,
         next_id |-> m.next_id, active_workspace |-> m.active_workspace,
         workspaces |-> m.workspaces]

(* The windows have ids that were given out.                                *)
WindowsOk(A, windows, next_id) ==
    /\ next_id \in Nat
    /\ windows \in [DOMAIN windows -> Win(A)]
    /\ DOMAIN windows \subseteq 1..next_id

(* The stacking order holds each of them once.                              *)
StackOk(windows, stack) ==
    /\ stack \in Seq(DOMAIN windows)
    /\ Range(stack) = DOMAIN windows
    /\ IsInjective(stack)

(* The workspaces are numbered from 0, and a window is once on its own one. *)
WorkspacesOk(windows, workspaces, active) ==
    /\ workspaces \in [DOMAIN workspaces -> Seq(DOMAIN windows)]
    /\ 0 \in DOMAIN workspaces /\ active \in DOMAIN workspaces
    /\ \E b \in Nat : DOMAIN workspaces \subseteq 0..b
    /\ \A k \in DOMAIN workspaces : IsInjective(workspaces[k])
    /\ \A w \in DOMAIN windows :
          /\ windows[w].workspace_id \in DOMAIN workspaces
          /\ \A k \in DOMAIN workspaces :
                w \in Range(workspaces[k]) <=> windows[w].workspace_id = k

(* The focused window exists, says so and can be seen.                      *)
FocusOk(windows, focused) ==
    focused # NoWindow => /\ focused \in DOMAIN windows
                          /\ windows[focused].focused
                          /\ windows[focused].visible
                          /\ windows[focused].state # "Minimized"

WmTables(A, m) == /\ IsManager(m)
                  /\ WindowsOk(A, m.windows, m.next_id)
                  /\ StackOk(m.windows, m.stack)
                  /\ WorkspacesOk(m.windows, m.workspaces, m.active_workspace)

WmInv(A, m) == WmTables(A, m) /\ FocusOk(m.windows, m.focused)

(* The count of a window's places in a workspace list is 0 or 1.            *)
LEMMA InvAgrees ==
    ASSUME NEW A, NEW m, WmInv(A, m)
    PROVE  TablesAgree(m)
<1>1. ASSUME NEW w \in Ids(m), NEW k \in DOMAIN m.workspaces
      PROVE  Cardinality({i \in 1..Len(m.workspaces[k]) : m.workspaces[k][i] = w})
                 = IF m.windows[w].workspace_id = k THEN 1 ELSE 0
  <2> DEFINE s == m.workspaces[k]
             P == {i \in 1..Len(s) : s[i] = w}
  <2>1. s \in Seq(Ids(m)) /\ IsInjective(s) /\ (w \in Range(s) <=> m.windows[w].workspace_id = k)
    BY Zenon DEF WmInv, WmTables, WorkspacesOk, Ids
  <2> HIDE DEF s
  <2>2. DOMAIN s = 1..Len(s)
    BY <2>1
  <2>3. CASE w \in Range(s)
    <3>1. PICK i \in 1..Len(s) : s[i] = w
      BY <2>2, <2>3 DEF Range
    <3>2. P = {i}
      BY <2>1, <2>2, <3>1 DEF IsInjective
    <3> QED BY Zenon, <2>1, <2>3, <3>2, FS_Singleton DEF s
  <2>4. CASE w \notin Range(s)
    <3>1. P = {}
      BY <2>2, <2>4 DEF Range
    <3> QED BY Zenon, <2>1, <2>4, <3>1, FS_EmptySet DEF s
  <2> QED BY <2>3, <2>4
<1>2. ASSUME NEW k \in DOMAIN m.workspaces PROVE Range(m.workspaces[k]) \subseteq Ids(m)
  <2>1. m.workspaces[k] \in Seq(Ids(m))
    BY DEF WmInv, WmTables, WorkspacesOk, Ids
  <2> QED BY <2>1 DEF Range
<1>3. m.focused # NoWindow => m.focused \in Ids(m) /\ m.windows[m.focused].focused
                                 /\ m.focused \in showing(m)
  BY DEF WmInv, FocusOk, Ids, showing
<1> QED BY Zenon, <1>1, <1>2, <1>3 DEF TablesAgree, WmInv, WmTables, StackOk, WorkspacesOk, Ids

(* Sequences of windows: a change of the set they are over, a push, and     *)
(* Vec::extend with other windows.                                          *)
LEMMA SeqOver ==
    ASSUME NEW S, NEW T, NEW s \in Seq(S), Range(s) \subseteq T
    PROVE  s \in Seq(T)
<1>1. DOMAIN s = 1..Len(s) /\ Len(s) \in Nat /\ s = [i \in 1..Len(s) |-> s[i]]
  OBVIOUS
<1>2. \A i \in 1..Len(s) : s[i] \in T
  BY <1>1 DEF Range
<1>3. s \in [1..Len(s) -> T]
  BY Zenon, <1>1, <1>2
<1> QED BY <1>1, <1>3

(* The elements of a sequence over S are in S.                              *)
LEMMA RangeOver == ASSUME NEW S, NEW s \in Seq(S) PROVE Range(s) \subseteq S
<1>1. DOMAIN s = 1..Len(s)
  OBVIOUS
<1> QED BY <1>1 DEF Range

(* Vec::push.                                                               *)
LEMMA Pushed ==
    ASSUME NEW S, NEW s \in Seq(S), NEW x
    PROVE  /\ Append(s, x) \in Seq(S \union {x})
           /\ Range(Append(s, x)) = Range(s) \union {x}
           /\ IsInjective(s) /\ x \notin Range(s) => IsInjective(Append(s, x))
<1> DEFINE r == Append(s, x)
<1>1. /\ Len(r) = Len(s) + 1 /\ r[Len(s) + 1] = x
      /\ \A i \in 1..Len(s) : r[i] = s[i]
      /\ Len(s) \in Nat
  OBVIOUS
<1>2. DOMAIN r = 1..(Len(s) + 1) /\ DOMAIN s = 1..Len(s)
  OBVIOUS
<1>3. r \in Seq(S \union {x})
  <2>1. s \in Seq(S \union {x})
    BY SeqOver, RangeOver
  <2> QED BY <2>1
<1> HIDE DEF r
<1>4. \A i \in 1..(Len(s) + 1) : i \in 1..Len(s) \/ i = Len(s) + 1
  BY <1>1
<1>5. Range(r) = Range(s) \union {x}
  BY <1>1, <1>2, <1>4 DEF Range
<1>6. ASSUME IsInjective(s), x \notin Range(s) PROVE IsInjective(r)
  BY Zenon, <1>1, <1>2, <1>4, <1>6 DEF IsInjective, Range
<1> QED BY Zenon, <1>3, <1>5, <1>6 DEF r

(* Vec::extend with windows that are not there yet.                         *)
LEMMA Extended ==
    ASSUME NEW S, NEW s \in Seq(S), NEW t \in Seq(S)
    PROVE  /\ s \o t \in Seq(S)
           /\ Range(s \o t) = Range(s) \union Range(t)
           /\ IsInjective(s) /\ IsInjective(t) /\ Range(s) \intersect Range(t) = {}
                => IsInjective(s \o t)
<1> DEFINE r == s \o t
<1>1. /\ Len(r) = Len(s) + Len(t) /\ Len(s) \in Nat /\ Len(t) \in Nat
      /\ \A i \in 1..Len(s) : r[i] = s[i]
      /\ \A i \in 1..Len(t) : r[Len(s) + i] = t[i]
  OBVIOUS
<1>2. DOMAIN r = 1..Len(r) /\ DOMAIN s = 1..Len(s) /\ DOMAIN t = 1..Len(t)
  OBVIOUS
<1>3. r \in Seq(S)
  OBVIOUS
<1> HIDE DEF r
<1>4. \A i \in 1..Len(r) : i \in 1..Len(s) \/ \E j \in 1..Len(t) : i = Len(s) + j
  <2> SUFFICES ASSUME NEW i \in 1..Len(r), ~ (i \in 1..Len(s))
               PROVE  \E j \in 1..Len(t) : i = Len(s) + j
    OBVIOUS
  <2>1. i - Len(s) \in 1..Len(t) /\ i = Len(s) + (i - Len(s))
    BY <1>1
  <2> QED BY Zenon, <2>1
<1>5. \A i \in 1..Len(s) : i \in 1..Len(r)
  BY <1>1
<1>6. \A j \in 1..Len(t) : Len(s) + j \in 1..Len(r)
  BY <1>1
<1>7. Range(r) = Range(s) \union Range(t)
  <2>1. ASSUME NEW x \in Range(r) PROVE x \in Range(s) \/ x \in Range(t)
    <3>1. PICK i \in 1..Len(r) : x = r[i]
      BY <1>2 DEF Range
    <3>2. CASE i \in 1..Len(s)
      BY Zenon, <1>1, <1>2, <3>1, <3>2 DEF Range
    <3>3. CASE \E j \in 1..Len(t) : i = Len(s) + j
      BY Zenon, <1>1, <1>2, <3>1, <3>3 DEF Range
    <3> QED BY <1>4, <3>2, <3>3
  <2>2. \A x \in Range(s) : x \in Range(r)
    BY <1>1, <1>2, <1>5 DEF Range
  <2>3. \A x \in Range(t) : x \in Range(r)
    BY <1>1, <1>2, <1>6 DEF Range
  <2> QED BY <2>1, <2>2, <2>3
<1>8. ASSUME IsInjective(s), IsInjective(t), Range(s) \intersect Range(t) = {}
      PROVE  IsInjective(r)
  <2> SUFFICES ASSUME NEW i \in 1..Len(r), NEW j \in 1..Len(r), r[i] = r[j] PROVE i = j
    BY Zenon, <1>2 DEF IsInjective
  <2>1. \A a \in 1..Len(s), b \in 1..Len(t) : s[a] # t[b]
    BY Zenon, <1>2, <1>8 DEF Range
  <2>2. \A a, b \in 1..Len(s) : s[a] = s[b] => a = b
    BY Zenon, <1>2, <1>8 DEF IsInjective
  <2>3. \A a, b \in 1..Len(t) : t[a] = t[b] => a = b
    BY Zenon, <1>2, <1>8 DEF IsInjective
  <2>4. CASE i \in 1..Len(s) /\ j \in 1..Len(s)
    BY <1>1, <2>2, <2>4
  <2>5. CASE i \in 1..Len(s) /\ j \notin 1..Len(s)
    <3>1. PICK b \in 1..Len(t) : j = Len(s) + b
      BY <1>4, <2>5
    <3>2. r[i] = s[i] /\ r[j] = t[b]
      BY <1>1, <2>5, <3>1
    <3> QED BY Zenon, <2>1, <2>5, <3>2
  <2>6. CASE i \notin 1..Len(s) /\ j \in 1..Len(s)
    <3>1. PICK b \in 1..Len(t) : i = Len(s) + b
      BY <1>4, <2>6
    <3>2. r[j] = s[j] /\ r[i] = t[b]
      BY Zenon, <1>1, <2>6, <3>1
    <3> QED BY Zenon, <2>1, <2>6, <3>2
  <2>7. CASE i \notin 1..Len(s) /\ j \notin 1..Len(s)
    <3>1. PICK a \in 1..Len(t) : i = Len(s) + a
      BY Zenon, <1>4, <2>7
    <3>2. PICK b \in 1..Len(t) : j = Len(s) + b
      BY Zenon, <1>4, <2>7
    <3>3. t[a] = t[b]
      BY Zenon, <1>1, <3>1, <3>2
    <3> QED BY Zenon, <2>3, <3>1, <3>2, <3>3
  <2> QED BY <2>4, <2>5, <2>6, <2>7
<1> QED BY Zenon, <1>3, <1>7, <1>8 DEF r

-----------------------------------------------------------------------------

-----------------------------------------------------------------------------
(* The fields of a window after a change of one of them.                    *)
LEMMA SetFocused ==
    ASSUME NEW A, NEW r \in Win(A), NEW b \in BOOLEAN
    PROVE  LET q == [r EXCEPT !.focused = b]
           IN  q \in Win(A) /\ q.state = r.state /\ q.focused = b
                 /\ q.visible = r.visible /\ q.workspace_id = r.workspace_id
BY DEF Win

(* A window that loses the focus flag changes in nothing else.              *)
LEMMA Unfocused ==
    ASSUME NEW A, NEW r \in Win(A)
    PROVE  LET q == unfocused(r)
           IN  q \in Win(A) /\ q.state = r.state /\ ~ q.focused
                 /\ q.visible = r.visible /\ q.workspace_id = r.workspace_id
BY Zenon DEF Win, unfocused

(* A change of visible only.                                                *)
LEMMA SetVisible ==
    ASSUME NEW A, NEW r \in Win(A), NEW b \in BOOLEAN
    PROVE  LET q == [r EXCEPT !.visible = b]
           IN  q \in Win(A) /\ q.state = r.state /\ q.focused = r.focused
                 /\ q.visible = b /\ q.workspace_id = r.workspace_id
BY DEF Win

(* A change of state only.                                                  *)
LEMMA SetState ==
    ASSUME NEW A, NEW r \in Win(A), NEW x \in States
    PROVE  LET q == [r EXCEPT !.state = x]
           IN  q \in Win(A) /\ q.state = x /\ q.focused = r.focused
                 /\ q.visible = r.visible /\ q.workspace_id = r.workspace_id
BY DEF Win

(* A change of workspace_id only.                                           *)
LEMMA SetWorkspace ==
    ASSUME NEW A, NEW r \in Win(A), NEW k \in Nat
    PROVE  LET q == [r EXCEPT !.workspace_id = k]
           IN  q \in Win(A) /\ q.state = r.state /\ q.focused = r.focused
                 /\ q.visible = r.visible /\ q.workspace_id = k
BY DEF Win

(* A raised window is shown, focused and not minimized.                     *)
LEMMA RaisedShows ==
    ASSUME NEW A, NEW r \in Win(A)
    PROVE  LET q == raised(r)
           IN  q \in Win(A) /\ q.focused /\ q.visible /\ q.state # "Minimized"
                 /\ q.workspace_id = r.workspace_id
<1> DEFINE s == IF r.state = "Minimized" THEN "Normal" ELSE r.state
           q1 == [r EXCEPT !.focused = TRUE]
           q2 == [q1 EXCEPT !.visible = TRUE]
           q3 == [q2 EXCEPT !.state = s]
<1>1. raised(r) = q3
  BY Zenon DEF raised
<1>2. TRUE \in BOOLEAN /\ s \in States /\ s # "Minimized"
  <2>1. r.state \in States
    BY DEF Win
  <2> QED BY <2>1 DEF States
<1> HIDE DEF s
<1>3. q1 \in Win(A) /\ q1.focused = TRUE /\ q1.workspace_id = r.workspace_id
  BY <1>2, SetFocused, Zenon
<1> HIDE DEF q1
<1>4. q2 \in Win(A) /\ q2.focused = TRUE /\ q2.visible = TRUE /\ q2.workspace_id = r.workspace_id
  BY <1>2, <1>3, SetVisible, Zenon
<1> HIDE DEF q2
<1>5. /\ q3 \in Win(A) /\ q3.state = s /\ q3.focused = q2.focused /\ q3.visible = q2.visible
      /\ q3.workspace_id = q2.workspace_id
  BY <1>2, <1>4, SetState
<1> HIDE DEF q3
<1> QED BY <1>1, <1>2, <1>4, <1>5, Zenon

(* The lists of the workspaces fit every table with the same windows on them. *)
LEMMA WorkspacesSame ==
    ASSUME NEW u, NEW v, NEW workspaces, NEW a, NEW b, WorkspacesOk(u, workspaces, a),
           DOMAIN v = DOMAIN u, b \in DOMAIN workspaces,
           \A w \in DOMAIN u : v[w].workspace_id = u[w].workspace_id
    PROVE  WorkspacesOk(v, workspaces, b)
<1>1. workspaces \in [DOMAIN workspaces -> Seq(DOMAIN v)]
  BY DEF WorkspacesOk
<1>2. \A w \in DOMAIN v :
          /\ v[w].workspace_id \in DOMAIN workspaces
          /\ \A k \in DOMAIN workspaces :
                w \in Range(workspaces[k]) <=> v[w].workspace_id = k
  BY Zenon DEF WorkspacesOk
<1>3. /\ 0 \in DOMAIN workspaces
      /\ \E c \in Nat : DOMAIN workspaces \subseteq 0..c
      /\ \A k \in DOMAIN workspaces : IsInjective(workspaces[k])
  BY DEF WorkspacesOk
<1> QED BY <1>1, <1>2, <1>3, Zenon DEF WorkspacesOk

(* What only changes how windows look leaves the tables in step.            *)
LEMMA SameTables ==
    ASSUME NEW A, NEW m, NEW n, WmTables(A, m), IsManager(n),
           n.stack = m.stack, n.workspaces = m.workspaces, n.next_id = m.next_id,
           n.active_workspace \in DOMAIN m.workspaces,
           n.windows \in [Ids(m) -> Win(A)],
           \A w \in Ids(m) : n.windows[w].workspace_id = m.windows[w].workspace_id
    PROVE  WmTables(A, n) /\ Ids(n) = Ids(m)
<1>1. DOMAIN n.windows = DOMAIN m.windows
  BY DEF Ids
<1>2. WindowsOk(A, n.windows, n.next_id)
  BY <1>1 DEF WmTables, WindowsOk, Ids
<1>3. StackOk(n.windows, n.stack)
  BY <1>1 DEF WmTables, StackOk
<1>4. WorkspacesOk(n.windows, n.workspaces, n.active_workspace)
  <2>1. WorkspacesOk(m.windows, m.workspaces, m.active_workspace)
    BY Zenon DEF WmTables
  <2> QED BY Zenon, <1>1, <2>1, WorkspacesSame DEF Ids
<1> QED BY <1>1, <1>2, <1>3, <1>4 DEF WmTables, Ids

(* One window takes another look.                                           *)
SetWindow(m, id, q) == [m EXCEPT !.windows[id] = q]

OnlyLook(A, m, n, id) == /\ WmTables(A, n) /\ Ids(n) = Ids(m)
                         /\ n.stack = m.stack /\ n.focused = m.focused
                         /\ n.workspaces = m.workspaces /\ n.next_id = m.next_id
                         /\ \A w \in Ids(m) \ {id} : n.windows[w] = m.windows[w]

(* ... and nothing else in the manager changes.                             *)
LEMMA OneLook ==
    ASSUME NEW A, NEW m, WmTables(A, m), NEW id \in Ids(m), NEW q \in Win(A),
           q.workspace_id = m.windows[id].workspace_id
    PROVE  OnlyLook(A, m, SetWindow(m, id, q), id) /\ SetWindow(m, id, q).windows[id] = q
<1> DEFINE n == SetWindow(m, id, q)
<1>1. n = [windows |-> [m.windows EXCEPT ![id] = q], stack |-> m.stack,
           focused |-> m.focused, next_id |-> m.next_id,
           active_workspace |-> m.active_workspace, workspaces |-> m.workspaces]
  BY DEF SetWindow, WmTables, IsManager
<1> HIDE DEF n
<1>2. /\ IsManager(n) /\ n.windows = [m.windows EXCEPT ![id] = q]
      /\ n.stack = m.stack /\ n.focused = m.focused /\ n.workspaces = m.workspaces
      /\ n.next_id = m.next_id /\ n.active_workspace = m.active_workspace
  BY Zenon, <1>1 DEF IsManager
<1>3. m.windows \in [Ids(m) -> Win(A)] /\ m.active_workspace \in DOMAIN m.workspaces
  BY Zenon DEF WmTables, WindowsOk, WorkspacesOk, Ids
<1>4. /\ n.windows \in [Ids(m) -> Win(A)] /\ n.windows[id] = q
      /\ \A w \in Ids(m) \ {id} : n.windows[w] = m.windows[w]
  BY Zenon, <1>2, <1>3
<1>5. \A w \in Ids(m) : n.windows[w].workspace_id = m.windows[w].workspace_id
  BY Zenon, <1>4
<1>6. WmTables(A, n) /\ Ids(n) = Ids(m)
  BY Zenon, <1>2, <1>3, <1>4, <1>5, SameTables
<1> QED BY Zenon, <1>2, <1>4, <1>6 DEF n, OnlyLook

(* Focus given to a window that shows, or to none.                          *)
LEMMA GiveFocusKeeps ==
    ASSUME NEW A, NEW m, WmTables(A, m), NEW id, id = NoWindow \/ id \in showing(m)
    PROVE  /\ WmInv(A, give_focus(m, id))
           /\ Ids(give_focus(m, id)) = Ids(m) /\ give_focus(m, id).focused = id
           /\ give_focus(m, id).stack = m.stack
           /\ give_focus(m, id).workspaces = m.workspaces
           /\ id # NoWindow =>
                 give_focus(m, id).windows
                     = [m.windows EXCEPT ![id] = [m.windows[id] EXCEPT !.focused = TRUE]]
           /\ id = NoWindow => give_focus(m, id).windows = m.windows
<1> DEFINE n == give_focus(m, id)
<1>1. CASE id = NoWindow
  <2>1. n = [windows |-> m.windows, stack |-> m.stack, focused |-> NoWindow,
             next_id |-> m.next_id, active_workspace |-> m.active_workspace,
             workspaces |-> m.workspaces]
    BY <1>1 DEF give_focus, WmTables, IsManager
  <2> QED BY <1>1, <2>1 DEF WmInv, WmTables, IsManager, FocusOk, Ids
<1>2. CASE id # NoWindow
  <2> DEFINE q == [m.windows[id] EXCEPT !.focused = TRUE]
             c == [m EXCEPT !.windows[id] = q]
  <2>1. id \in Ids(m) /\ m.windows[id].visible /\ m.windows[id].state # "Minimized"
    BY Zenon, <1>2 DEF showing
  <2>2. m.windows[id] \in Win(A)
    BY <2>1 DEF WmTables, WindowsOk, Ids
  <2>3. /\ q \in Win(A) /\ q.workspace_id = m.windows[id].workspace_id
        /\ q.focused = TRUE /\ q.visible = m.windows[id].visible
        /\ q.state = m.windows[id].state
    BY Zenon, <2>2, SetFocused
  <2>4. n = [windows |-> [m.windows EXCEPT ![id] = q],
             stack |-> m.stack, focused |-> id,
             next_id |-> m.next_id, active_workspace |-> m.active_workspace,
             workspaces |-> m.workspaces]
    BY Zenon, <1>2 DEF give_focus, WmTables, IsManager
  <2> HIDE DEF n, q
  <2>5. /\ IsManager(n) /\ n.windows = [m.windows EXCEPT ![id] = q]
        /\ n.stack = m.stack /\ n.focused = id /\ n.workspaces = m.workspaces
        /\ n.next_id = m.next_id /\ n.active_workspace = m.active_workspace
    BY <2>4 DEF IsManager
  <2>6. m.windows \in [Ids(m) -> Win(A)] /\ m.active_workspace \in DOMAIN m.workspaces
    BY Zenon DEF WmTables, WindowsOk, WorkspacesOk, Ids
  <2>7. /\ n.windows \in [Ids(m) -> Win(A)] /\ n.windows[id] = q
        /\ \A w \in Ids(m) : n.windows[w].workspace_id = m.windows[w].workspace_id
    <3>1. n.windows \in [Ids(m) -> Win(A)] /\ n.windows[id] = q
      BY <2>1, <2>3, <2>5, <2>6
    <3>2. \A w \in Ids(m) \ {id} : n.windows[w] = m.windows[w]
      BY Zenon, <2>5, <2>6
    <3> QED BY Zenon, <2>3, <3>1, <3>2
  <2>8. WmTables(A, n) /\ Ids(n) = Ids(m)
    BY Zenon, <2>5, <2>6, <2>7, SameTables
  <2>9. q.focused /\ q.visible /\ q.state # "Minimized"
    BY <2>1, <2>3, Zenon
  <2>10. FocusOk(n.windows, n.focused)
    BY <2>1, <2>5, <2>7, <2>8, <2>9, Zenon DEF FocusOk, Ids
  <2> QED BY Zenon, <1>2, <2>5, <2>8, <2>10 DEF WmInv, n, q
<1> QED BY Zenon, <1>1, <1>2

-----------------------------------------------------------------------------
(* focus of a window that exists: it is on top, focused and shown.          *)
LEMMA FocusKeeps ==
    ASSUME NEW A, NEW m, WmTables(A, m), NEW id \in Ids(m)
    PROVE  /\ WmInv(A, focus(m, id))
           /\ focus(m, id).focused = id /\ Ids(focus(m, id)) = Ids(m)
           /\ focus(m, id).stack = Append(without(m.stack, id), id)
           /\ focus(m, id).workspaces = m.workspaces
           /\ \A w \in Ids(m) : focus(m, id).windows[w]
                  = IF w = id THEN raised(m.windows[w])
                    ELSE unfocused(m.windows[w])
<1> DEFINE n == focus(m, id)
           v == [w \in Ids(m) |-> IF w = id THEN raised(m.windows[w])
                                  ELSE unfocused(m.windows[w])]
<1>1. n = [m EXCEPT !.stack = Append(without(m.stack, id), id), !.focused = id, !.windows = v]
  BY Zenon DEF focus
<1>2. /\ DOMAIN v = Ids(m)
      /\ \A w \in Ids(m) : v[w] = IF w = id THEN raised(m.windows[w])
                                  ELSE unfocused(m.windows[w])
  BY Zenon
<1> HIDE DEF n, v
<1>3. n = [windows |-> v, stack |-> Append(without(m.stack, id), id), focused |-> id,
           next_id |-> m.next_id, active_workspace |-> m.active_workspace,
           workspaces |-> m.workspaces]
  BY Zenon, <1>1 DEF WmTables, IsManager
<1>4. /\ IsManager(n) /\ n.stack = Append(without(m.stack, id), id) /\ n.windows = v
      /\ n.workspaces = m.workspaces /\ n.focused = id
      /\ n.next_id = m.next_id /\ n.active_workspace = m.active_workspace
  BY <1>3 DEF IsManager
<1>5. \A w \in Ids(m) : m.windows[w] \in Win(A)
  BY DEF WmTables, WindowsOk, Ids
<1>6. \A w \in Ids(m) : v[w] \in Win(A) /\ v[w].workspace_id = m.windows[w].workspace_id
  <2> SUFFICES ASSUME NEW w \in Ids(m)
               PROVE  v[w] \in Win(A) /\ v[w].workspace_id = m.windows[w].workspace_id
    OBVIOUS
  <2>1. CASE w = id
    BY <1>2, <1>5, <2>1, RaisedShows, Zenon
  <2>2. CASE w # id
    <3>1. v[w] = unfocused(m.windows[w])
      BY <1>2, <2>2, Zenon
    <3> QED BY <1>5, <3>1, Unfocused, Zenon
  <2> QED BY <2>1, <2>2
<1>7. v \in [Ids(m) -> Win(A)]
  <2>1. v = [w \in Ids(m) |-> v[w]]
    BY Zenon DEF v
  <2> QED BY Zenon, <1>6, <2>1
<1>8. DOMAIN m.windows = Ids(m) /\ DOMAIN n.windows = Ids(m)
  BY Zenon, <1>2, <1>4 DEF Ids
<1>9. WindowsOk(A, n.windows, n.next_id)
  BY Zenon, <1>4, <1>7, <1>8 DEF WmTables, WindowsOk
<1>10. WorkspacesOk(n.windows, n.workspaces, n.active_workspace)
  <2>1. /\ WorkspacesOk(m.windows, m.workspaces, m.active_workspace)
        /\ m.active_workspace \in DOMAIN m.workspaces
    BY DEF WmTables, WorkspacesOk
  <2> QED BY <1>4, <1>6, <1>8, <2>1, WorkspacesSame
<1>11. StackOk(n.windows, n.stack)
  <2> DEFINE r == without(m.stack, id)
  <2>1. /\ m.stack \in Seq(Ids(m)) /\ IsInjective(m.stack) /\ Range(m.stack) = Ids(m)
    BY DEF WmTables, StackOk, Ids
  <2>2. r \in Seq(Ids(m)) /\ Range(r) = Ids(m) \ {id} /\ IsInjective(r)
    BY <2>1, WithoutRange
  <2> HIDE DEF r
  <2>3. /\ Append(r, id) \in Seq(Ids(m)) /\ Range(Append(r, id)) = Ids(m)
        /\ IsInjective(Append(r, id))
    <3>1. Ids(m) \union {id} = Ids(m) /\ (Ids(m) \ {id}) \union {id} = Ids(m)
      OBVIOUS
    <3>2. id \notin Range(r)
      BY <2>2
    <3>3. /\ Append(r, id) \in Seq(Ids(m) \union {id})
          /\ Range(Append(r, id)) = Range(r) \union {id}
          /\ IsInjective(r) /\ id \notin Range(r) => IsInjective(Append(r, id))
      BY <2>2, Pushed, Zenon
    <3> QED BY <2>2, <3>1, <3>2, <3>3, Zenon
  <2> QED BY Zenon, <1>4, <1>8, <2>3 DEF StackOk, r
<1>12. FocusOk(n.windows, n.focused)
  <2>1. v[id] = raised(m.windows[id])
    BY <1>2
  <2>2. v[id].focused /\ v[id].visible /\ v[id].state # "Minimized"
    BY <1>5, <2>1, RaisedShows, Zenon
  <2> QED BY <1>4, <1>8, <2>2, Zenon DEF FocusOk
<1>13. WmInv(A, n) /\ Ids(n) = Ids(m)
  BY Zenon, <1>4, <1>8, <1>9, <1>10, <1>11, <1>12 DEF WmInv, WmTables, Ids
<1> QED BY <1>2, <1>4, <1>13, Zenon DEF n

-----------------------------------------------------------------------------
(* The top-most window *)

(* x is the window of S that lies on top in the stack, or there is none.    *)
IsTop(stack, S, x) ==
    \/ x = NoWindow /\ \A i \in 1..Len(stack) : stack[i] \notin S
    \/ \E p \in 1..Len(stack) : /\ stack[p] = x /\ x \in S
                                /\ \A q \in 1..Len(stack) : q > p => stack[q] \notin S

(* topmost returns the window on top.                                       *)
LEMMA TopmostIsTop ==
    ASSUME NEW I, NEW m, m.stack \in Seq(I), NEW S
    PROVE  IsTop(m.stack, S, topmost(m, S))
<1> DEFINE places == {i \in 1..Len(m.stack) : m.stack[i] \in S}
<1>1. CASE places = {}
  BY <1>1 DEF topmost, IsTop
<1>2. CASE places # {}
  <2>1. places \in SUBSET Nat /\ Len(m.stack) \in Nat /\ \A i \in places : i <= Len(m.stack)
    OBVIOUS
  <2> DEFINE p == CHOOSE i \in places : \A j \in places : j <= i
  <2>2. topmost(m, S) = m.stack[p]
    BY <1>2 DEF topmost
  <2>3. p \in places /\ \A j \in places : j <= p
    <3>1. \E i \in places : \A j \in places : j <= i
      <4> HIDE DEF places
      <4> QED BY Zenon, <1>2, <2>1, GreatestNat
    <3> QED BY Zenon, <3>1
  <2> HIDE DEF p
  <2>4. \A q \in 1..Len(m.stack) : q > p => m.stack[q] \notin S
    BY <2>1, <2>3
  <2> QED BY Zenon, <2>2, <2>3, <2>4 DEF IsTop
<1> QED BY Zenon, <1>1, <1>2

(* There is one such window.                                                *)
LEMMA TopIsUnique ==
    ASSUME NEW I, NEW stack \in Seq(I), NEW S, NEW x, NEW y,
           IsTop(stack, S, x), IsTop(stack, S, y)
    PROVE  x = y
BY DEF IsTop

-----------------------------------------------------------------------------
(* ... which is one of those asked for, or none.                            *)
LEMMA TopmostAmong ==
    ASSUME NEW A, NEW m, WmTables(A, m), NEW S
    PROVE  topmost(m, S) = NoWindow \/ topmost(m, S) \in S
<1>1. m.stack \in Seq(DOMAIN m.windows)
  BY DEF WmTables, StackOk
<1>2. IsTop(m.stack, S, topmost(m, S))
  BY <1>1, TopmostIsTop
<1> QED BY <1>2 DEF IsTop

(* The looks that minimize, maximize and restore give a window.             *)
LEMMA MinimizedLook ==
    ASSUME NEW A, NEW r \in Win(A)
    PROVE  LET q == [r EXCEPT !.state = "Minimized", !.visible = FALSE, !.focused = FALSE]
           IN  q \in Win(A) /\ q.state = "Minimized" /\ ~ q.focused
                 /\ q.workspace_id = r.workspace_id
<1> DEFINE q1 == [r EXCEPT !.state = "Minimized"]
           q2 == [q1 EXCEPT !.visible = FALSE]
           q3 == unfocused(q2)
<1>1. FALSE \in BOOLEAN /\ "Minimized" \in States
  BY DEF States
<1>2. q1 \in Win(A) /\ q1.state = "Minimized" /\ q1.workspace_id = r.workspace_id
  BY <1>1, SetState
<1> HIDE DEF q1
<1>3. q2 \in Win(A) /\ q2.state = "Minimized" /\ q2.workspace_id = r.workspace_id
  BY Zenon, <1>1, <1>2, SetVisible
<1> HIDE DEF q2
<1>4. q3 \in Win(A) /\ q3.state = "Minimized" /\ q3.workspace_id = r.workspace_id /\ ~ q3.focused
  BY <1>3, Unfocused
<1> QED BY <1>4, Zenon DEF q1, q2, q3, unfocused

Shown(r, x, b) == [r EXCEPT !.state = x, !.visible = b]

(* A window shown in another state keeps its workspace.                     *)
LEMMA ShownLook ==
    ASSUME NEW A, NEW r \in Win(A), NEW x \in States, NEW b \in BOOLEAN
    PROVE  Shown(r, x, b) \in Win(A) /\ Shown(r, x, b).workspace_id = r.workspace_id
<1> DEFINE q1 == [r EXCEPT !.state = x]
           q2 == [q1 EXCEPT !.visible = b]
<1>1. q1 \in Win(A) /\ q1.workspace_id = r.workspace_id
  BY SetState
<1> HIDE DEF q1
<1>2. q2 \in Win(A) /\ q2.workspace_id = r.workspace_id
  BY <1>1, SetVisible
<1> QED BY <1>2, Zenon DEF q1, q2, Shown

(* minimize: the focus, if it was there, moves to a window that shows.      *)
LEMMA MinimizeKeeps ==
    ASSUME NEW A, NEW m, WmInv(A, m), NEW id
    PROVE  WmInv(A, minimize(m, id))
<1>1. CASE id \notin Ids(m)
  BY <1>1 DEF minimize
<1>2. CASE id \in Ids(m)
  <2> DEFINE q == [m.windows[id] EXCEPT !.state = "Minimized", !.visible = FALSE,
                                        !.focused = FALSE]
             n == SetWindow(m, id, q)
  <2>1. minimize(m, id) = IF m.focused # id THEN n ELSE give_focus(n, topmost(n, showing(n)))
    BY <1>2, Zenon DEF minimize, SetWindow
  <2>2. m.windows[id] \in Win(A) /\ WmTables(A, m)
    BY <1>2 DEF WmInv, WmTables, WindowsOk, Ids
  <2>3. q \in Win(A) /\ q.workspace_id = m.windows[id].workspace_id
    BY <2>2, MinimizedLook, Zenon
  <2> HIDE DEF q
  <2>4. /\ WmTables(A, n) /\ Ids(n) = Ids(m) /\ n.focused = m.focused
        /\ \A w \in Ids(m) \ {id} : n.windows[w] = m.windows[w]
    <3>1. OnlyLook(A, m, n, id)
      BY Zenon, <1>2, <2>2, <2>3, OneLook
    <3> HIDE DEF n
    <3> QED BY Zenon, <3>1 DEF OnlyLook
  <2> HIDE DEF n
  <2>5. CASE m.focused # id
    <3>1. FocusOk(n.windows, n.focused)
      BY Zenon, <2>4, <2>5 DEF WmInv, FocusOk, Ids
    <3> QED BY Zenon, <2>1, <2>4, <2>5, <3>1 DEF WmInv
  <2>6. CASE m.focused = id
    <3>1. topmost(n, showing(n)) = NoWindow \/ topmost(n, showing(n)) \in showing(n)
      BY <2>4, TopmostAmong
    <3>2. WmInv(A, give_focus(n, topmost(n, showing(n))))
      BY Zenon, <2>4, <3>1, GiveFocusKeeps
    <3> QED BY Zenon, <2>1, <2>6, <3>2
  <2> QED BY <2>5, <2>6
<1> QED BY <1>1, <1>2

(* focus of any id; one that does not exist changes nothing.                *)
LEMMA FocusCallKeeps ==
    ASSUME NEW A, NEW m, WmInv(A, m), NEW id
    PROVE  WmInv(A, focus(m, id))
<1>1. CASE id \in Ids(m)
  BY <1>1, FocusKeeps DEF WmInv
<1>2. CASE id \notin Ids(m)
  BY <1>2 DEF focus
<1> QED BY <1>1, <1>2

(* What focus does to a window that first took another look.                *)
LEMMA ShownThenFocused ==
    ASSUME NEW A, NEW m, WmInv(A, m), NEW id \in Ids(m), NEW x \in States, NEW b \in BOOLEAN
    PROVE  OnlyLook(A, m, SetWindow(m, id, Shown(m.windows[id], x, b)), id)
<1> DEFINE q == Shown(m.windows[id], x, b)
<1>1. m.windows[id] \in Win(A) /\ WmTables(A, m)
  BY DEF WmInv, WmTables, WindowsOk, Ids
<1>2. q \in Win(A) /\ q.workspace_id = m.windows[id].workspace_id
  BY <1>1, ShownLook, Zenon
<1> HIDE DEF q
<1>3. OnlyLook(A, m, SetWindow(m, id, q), id)
  BY Zenon, <1>1, <1>2, OneLook
<1> QED BY Zenon, <1>3 DEF q

(* maximize and restore are such a look, then focus.                        *)
LEMMA MaximizeIs ==
    ASSUME NEW m, NEW id \in Ids(m)
    PROVE  maximize(m, id) =
               focus(SetWindow(m, id, Shown(m.windows[id], "Maximized", TRUE)), id)
BY Zenon DEF maximize, SetWindow, Shown

(* restore shows a window unless it was hidden with its workspace.          *)
LEMMA RestoreIs ==
    ASSUME NEW A, NEW m, WmInv(A, m), NEW id \in Ids(m)
    PROVE  \E b \in BOOLEAN :
              restore(m, id) =
                  focus(SetWindow(m, id, Shown(m.windows[id], "Normal", b)), id)
<1> DEFINE r == m.windows[id]
           b == (r.state = "Minimized") \/ r.visible
<1>1. b \in BOOLEAN
  BY Zenon
<1>2. restore(m, id) = focus(SetWindow(m, id, Shown(r, "Normal", b)), id)
  BY Zenon DEF restore, SetWindow, Shown
<1> HIDE DEF b
<1> QED BY <1>1, <1>2, Zenon

LEMMA MaximizeKeeps ==
    ASSUME NEW A, NEW m, WmInv(A, m), NEW id
    PROVE  WmInv(A, maximize(m, id))
<1>1. CASE id \notin Ids(m)
  BY Zenon, <1>1 DEF maximize
<1>2. CASE id \in Ids(m)
  <2> DEFINE n == SetWindow(m, id, Shown(m.windows[id], "Maximized", TRUE))
  <2>1. TRUE \in BOOLEAN /\ "Maximized" \in States
    BY DEF States
  <2>3. maximize(m, id) = focus(n, id)
    BY <1>2, MaximizeIs, Zenon
  <2>2. WmTables(A, n) /\ Ids(n) = Ids(m)
    <3>1. OnlyLook(A, m, n, id)
      BY Zenon, <1>2, <2>1, ShownThenFocused
    <3> HIDE DEF n
    <3> QED BY Zenon, <3>1 DEF OnlyLook
  <2> HIDE DEF n
  <2>4. WmInv(A, focus(n, id))
    BY <1>2, <2>2, FocusKeeps, Zenon
  <2> QED BY Zenon, <2>3, <2>4
<1> QED BY <1>1, <1>2

LEMMA RestoreKeeps ==
    ASSUME NEW A, NEW m, WmInv(A, m), NEW id
    PROVE  WmInv(A, restore(m, id))
<1>1. CASE id \notin Ids(m)
  BY <1>1 DEF restore
<1>2. CASE id \in Ids(m)
  <2>1. PICK b \in BOOLEAN :
            restore(m, id) =
                focus(SetWindow(m, id, Shown(m.windows[id], "Normal", b)), id)
    BY <1>2, RestoreIs, Zenon
  <2> DEFINE n == SetWindow(m, id, Shown(m.windows[id], "Normal", b))
  <2>2. "Normal" \in States
    BY DEF States
  <2>4. restore(m, id) = focus(n, id)
    BY <2>1, Zenon
  <2>3. WmTables(A, n) /\ Ids(n) = Ids(m)
    <3>1. OnlyLook(A, m, n, id)
      BY <1>2, <2>2, ShownThenFocused, Zenon
    <3> HIDE DEF n
    <3> QED BY <3>1 DEF OnlyLook
  <2> HIDE DEF n
  <2>5. WmInv(A, focus(n, id))
    BY <1>2, <2>3, FocusKeeps, Zenon
  <2> QED BY <2>4, <2>5
<1> QED BY <1>1, <1>2

-----------------------------------------------------------------------------
(* A window leaves the manager: every table forgets it.                     *)
Dropped(m, id) ==
    [m EXCEPT !.windows = [w \in Ids(m) \ {id} |-> m.windows[w]],
              !.stack = without(@, id),
              !.workspaces[m.windows[id].workspace_id] = without(@, id)]

(* The three tables lose the window together.                               *)
LEMMA DropKeeps ==
    ASSUME NEW A, NEW m, WmTables(A, m), NEW id \in Ids(m), NEW n, n = Dropped(m, id)
    PROVE  /\ WmTables(A, n)
           /\ Ids(n) = Ids(m) \ {id}
           /\ \A w \in Ids(n) : n.windows[w] = m.windows[w]
           /\ n.stack = without(m.stack, id) /\ n.focused = m.focused
           /\ DOMAIN n.workspaces = DOMAIN m.workspaces
<1> DEFINE I == Ids(m) \ {id}
           j == m.windows[id].workspace_id
           left == without(m.workspaces[j], id)
<1>1. n = [windows |-> [w \in I |-> m.windows[w]], stack |-> without(m.stack, id),
           focused |-> m.focused, next_id |-> m.next_id,
           active_workspace |-> m.active_workspace,
           workspaces |-> [m.workspaces EXCEPT ![j] = left]]
  BY Zenon DEF WmTables, IsManager, Dropped
<1>2. /\ IsManager(n) /\ n.windows = [w \in I |-> m.windows[w]]
      /\ n.stack = without(m.stack, id) /\ n.focused = m.focused
      /\ n.next_id = m.next_id /\ n.active_workspace = m.active_workspace
      /\ n.workspaces = [m.workspaces EXCEPT ![j] = left]
  BY <1>1 DEF IsManager
<1>3. /\ m.windows \in [Ids(m) -> Win(A)] /\ m.next_id \in Nat /\ Ids(m) \subseteq 1..m.next_id
      /\ m.stack \in Seq(Ids(m)) /\ Range(m.stack) = Ids(m) /\ IsInjective(m.stack)
      /\ WorkspacesOk(m.windows, m.workspaces, m.active_workspace)
  BY DEF WmTables, WindowsOk, StackOk, Ids
<1>4. DOMAIN n.windows = I /\ \A w \in I : n.windows[w] = m.windows[w]
  BY Zenon, <1>2
<1>5. WindowsOk(A, n.windows, n.next_id)
  BY <1>2, <1>3, <1>4 DEF WindowsOk
<1>6. StackOk(n.windows, n.stack)
  <2>1. /\ without(m.stack, id) \in Seq(Ids(m)) /\ Range(without(m.stack, id)) = I
        /\ IsInjective(without(m.stack, id))
    BY <1>3, WithoutRange
  <2>2. without(m.stack, id) \in Seq(I)
    BY <2>1, SeqOver, Zenon
  <2> QED BY Zenon, <1>2, <1>4, <2>1, <2>2 DEF StackOk
<1>7. WorkspacesOk(n.windows, n.workspaces, n.active_workspace)
  <2> DEFINE D == DOMAIN m.workspaces
  <2>1. /\ m.workspaces \in [D -> Seq(Ids(m))] /\ 0 \in D /\ m.active_workspace \in D /\ j \in D
        /\ \E b \in Nat : D \subseteq 0..b
    BY Zenon, <1>3 DEF WorkspacesOk, Ids
  <2>2. \A k \in D : /\ m.workspaces[k] \in Seq(Ids(m)) /\ IsInjective(m.workspaces[k])
                     /\ \A w \in Ids(m) : w \in Range(m.workspaces[k]) <=> m.windows[w].workspace_id = k
    BY Zenon, <1>3, <2>1 DEF WorkspacesOk, Ids
  <2>3. \A w \in Ids(m) : m.windows[w].workspace_id \in D
    BY <1>3 DEF WorkspacesOk, Ids
  <2>4. left \in Seq(Ids(m)) /\ Range(left) = Range(m.workspaces[j]) \ {id} /\ IsInjective(left)
    <3>1. m.workspaces[j] \in Seq(Ids(m)) /\ IsInjective(m.workspaces[j])
      BY Zenon, <2>1, <2>2
    <3> QED BY Zenon, <3>1, WithoutRange
  <2> HIDE DEF D, j, left
  <2>5. /\ DOMAIN n.workspaces = D
        /\ \A k \in D : n.workspaces[k] = IF k = j THEN left ELSE m.workspaces[k]
        /\ n.workspaces = [k \in D |-> n.workspaces[k]]
    <3>1. n.workspaces = [m.workspaces EXCEPT ![j] = left]
      BY <1>2
    <3> QED BY Zenon, <2>1, <3>1
  <2>6. ASSUME NEW k \in D
        PROVE  /\ n.workspaces[k] \in Seq(I) /\ IsInjective(n.workspaces[k])
               /\ \A w \in I : w \in Range(n.workspaces[k]) <=> m.windows[w].workspace_id = k
    <3>1. Range(n.workspaces[k]) = Range(m.workspaces[k]) \ {id}
      <4>1. CASE k = j
        BY Zenon, <2>4, <2>5, <4>1
      <4>2. CASE k # j
        <5>1. id \notin Range(m.workspaces[k])
          BY Zenon, <2>2, <4>2 DEF j
        <5> QED BY Zenon, <2>5, <4>2, <5>1
      <4> QED BY Zenon, <4>1, <4>2
    <3>2. n.workspaces[k] \in Seq(Ids(m)) /\ IsInjective(n.workspaces[k])
      BY Zenon, <2>2, <2>4, <2>5
    <3>3. Range(m.workspaces[k]) \subseteq Ids(m)
      BY <2>2, RangeOver, Zenon
    <3>4. n.workspaces[k] \in Seq(I)
      BY Zenon, <3>1, <3>2, <3>3, SeqOver
    <3>5. \A w \in I : w \in Range(n.workspaces[k]) <=> m.windows[w].workspace_id = k
      BY Zenon, <2>2, <3>1
    <3> QED BY <3>2, <3>4, <3>5
  <2>7. n.workspaces \in [D -> Seq(I)]
    BY Zenon, <2>5, <2>6
  <2>8. \A w \in I : /\ n.windows[w].workspace_id \in D
                     /\ \A k \in D : w \in Range(n.workspaces[k]) <=> n.windows[w].workspace_id = k
    BY Zenon, <1>4, <2>3, <2>6
  <2> QED BY <1>2, <1>4, <2>1, <2>5, <2>6, <2>7, <2>8, Zenon DEF WorkspacesOk
<1> QED BY Zenon, <1>2, <1>4, <1>5, <1>6, <1>7 DEF WmTables, Ids

-----------------------------------------------------------------------------
(* close: the focus, if it was there, moves to a window that shows.         *)
LEMMA CloseKeeps ==
    ASSUME NEW A, NEW m, WmInv(A, m), NEW id
    PROVE  WmInv(A, close(m, id))
<1>1. CASE id \notin Ids(m)
  BY Zenon, <1>1 DEF close
<1>2. CASE id \in Ids(m)
  <2> DEFINE n == Dropped(m, id)
  <2>1. close(m, id) = IF m.focused # id THEN n ELSE give_focus(n, topmost(n, showing(n)))
    BY <1>2, Zenon DEF close, Dropped
  <2>2. /\ WmTables(A, n) /\ Ids(n) = Ids(m) \ {id} /\ n.focused = m.focused
        /\ \A w \in Ids(n) : n.windows[w] = m.windows[w]
    BY <1>2, DropKeeps DEF WmInv
  <2> HIDE DEF n
  <2>3. CASE m.focused # id
    <3>1. FocusOk(n.windows, n.focused)
      BY Zenon, <2>2, <2>3 DEF WmInv, FocusOk, Ids
    <3> QED BY Zenon, <2>1, <2>2, <2>3, <3>1 DEF WmInv
  <2>4. CASE m.focused = id
    <3>1. topmost(n, showing(n)) = NoWindow \/ topmost(n, showing(n)) \in showing(n)
      BY Zenon, <2>2, TopmostAmong
    <3>2. WmInv(A, give_focus(n, topmost(n, showing(n))))
      BY Zenon, <2>2, <3>1, GiveFocusKeeps
    <3> QED BY <2>1, <2>4, <3>2
  <2> QED BY <2>3, <2>4
<1> QED BY <1>1, <1>2

(* Tab focuses a showing window, if there is one.                           *)
LEMMA CycleIs ==
    ASSUME NEW A, NEW m, WmTables(A, m)
    PROVE  cycle_focus(m) = m \/ \E w \in showing(m) : cycle_focus(m) = focus(m, w)
<1> DEFINE visible == showing(m)
           later == {w \in visible : w > m.focused}
           first(S) == CHOOSE w \in S : \A v \in S : w <= v
<1>1. visible \in SUBSET Nat
  BY DEF WmTables, WindowsOk, showing, Ids
<1>2. \A S \in SUBSET Nat : S # {} => first(S) \in S
  BY Zenon, LeastNat
<1>3. CASE visible = {}
  BY <1>3 DEF cycle_focus
<1>4. CASE visible # {}
  <2> DEFINE x == IF later # {} THEN first(later) ELSE first(visible)
  <2>1. cycle_focus(m) = focus(m, x)
    BY <1>4, Zenon DEF cycle_focus
  <2>2. later \subseteq visible
    OBVIOUS
  <2> HIDE DEF visible, later, first
  <2>3. x \in visible
    <3>1. later \in SUBSET Nat
      BY Zenon, <1>1, <2>2
    <3>2. CASE later # {}
      BY Zenon, <1>2, <2>2, <3>1, <3>2
    <3>3. CASE later = {}
      BY <1>1, <1>2, <1>4, <3>3
    <3> QED BY Zenon, <3>2, <3>3
  <2> QED BY <2>1, <2>3 DEF visible
<1> QED BY <1>3, <1>4

LEMMA CycleKeeps ==
    ASSUME NEW A, NEW m, WmInv(A, m)
    PROVE  WmInv(A, cycle_focus(m))
<1>1. cycle_focus(m) = m \/ \E w \in showing(m) : cycle_focus(m) = focus(m, w)
  BY Zenon, CycleIs DEF WmInv
<1> QED BY <1>1, FocusCallKeeps

(* A new window is on top of the stack, on the active workspace and has the *)
(* focus.                                                                   *)
NewWin(m, app) == [app_id |-> app, state |-> "Normal", focused |-> TRUE, visible |-> TRUE,
                   workspace_id |-> m.active_workspace]

(* create: the new window has an id never given out, and enters every table. *)
LEMMA CreateKeeps ==
    ASSUME NEW A, NEW m, WmInv(A, m), NEW app \in A
    PROVE  LET n == create(m, app) IN
           /\ WmInv(A, n)
           /\ Ids(n) = Ids(m) \union {m.next_id + 1}
           /\ n.next_id = m.next_id + 1 /\ n.focused = m.next_id + 1
           /\ n.stack = Append(m.stack, m.next_id + 1)
           /\ n.windows[m.next_id + 1] = NewWin(m, app)
           /\ \A w \in Ids(m) : n.windows[w] = unfocused(m.windows[w])
           /\ DOMAIN n.workspaces = DOMAIN m.workspaces
<1> DEFINE n == create(m, app)
           id == m.next_id + 1
           I == Ids(m) \union {id}
           a == m.active_workspace
           v == [w \in I |-> IF w = id THEN NewWin(m, app)
                             ELSE unfocused(m.windows[w])]
<1>1. n = [m EXCEPT !.next_id = id, !.stack = Append(m.stack, id), !.focused = id,
                    !.windows = v, !.workspaces[a] = Append(m.workspaces[a], id)]
  BY Zenon DEF create, NewWin
<1>2. /\ DOMAIN v = I /\ v = [w \in I |-> v[w]]
      /\ \A w \in I : v[w] = IF w = id THEN NewWin(m, app)
                             ELSE unfocused(m.windows[w])
  BY Zenon
<1> HIDE DEF n, v
<1>3. n = [windows |-> v, stack |-> Append(m.stack, id), focused |-> id, next_id |-> id,
           active_workspace |-> a, workspaces |-> [m.workspaces EXCEPT ![a] = Append(@, id)]]
  BY Zenon, <1>1 DEF WmInv, WmTables, IsManager
<1>4. /\ IsManager(n) /\ n.windows = v /\ n.stack = Append(m.stack, id) /\ n.focused = id
      /\ n.next_id = id /\ n.active_workspace = a
      /\ n.workspaces = [m.workspaces EXCEPT ![a] = Append(@, id)]
  BY <1>3 DEF IsManager
<1>5. /\ m.windows \in [Ids(m) -> Win(A)] /\ m.next_id \in Nat /\ Ids(m) \subseteq 1..m.next_id
      /\ m.stack \in Seq(Ids(m)) /\ Range(m.stack) = Ids(m) /\ IsInjective(m.stack)
      /\ WorkspacesOk(m.windows, m.workspaces, a)
  BY DEF WmInv, WmTables, WindowsOk, StackOk, Ids
<1> DEFINE D == DOMAIN m.workspaces
<1>6. /\ m.workspaces \in [D -> Seq(Ids(m))] /\ 0 \in D /\ a \in D
      /\ \E b \in Nat : D \subseteq 0..b
  BY Zenon, <1>5 DEF WorkspacesOk, Ids
<1>7. id \notin Ids(m) /\ id \in Nat /\ a \in Nat
  BY <1>5, <1>6
<1>8. /\ v[id] = NewWin(m, app)
      /\ \A w \in Ids(m) : v[w] = unfocused(m.windows[w])
  BY <1>2, <1>7, Zenon
<1>9. NewWin(m, app) \in Win(A) /\ NewWin(m, app).workspace_id = a
  BY <1>7 DEF NewWin, Win, States
<1>10. \A w \in Ids(m) : v[w] \in Win(A) /\ v[w].workspace_id = m.windows[w].workspace_id
  <2> SUFFICES ASSUME NEW w \in Ids(m)
               PROVE  v[w] \in Win(A) /\ v[w].workspace_id = m.windows[w].workspace_id
    OBVIOUS
  <2>1. m.windows[w] \in Win(A)
    BY Zenon, <1>5
  <2> QED BY <1>8, <2>1, Unfocused, Zenon
<1>11. v \in [I -> Win(A)]
  <2>1. \A w \in I : v[w] \in Win(A)
    BY Zenon, <1>8, <1>9, <1>10
  <2> QED BY Zenon, <1>2, <2>1
<1> HIDE DEF D, a, id
<1>12. WindowsOk(A, n.windows, n.next_id)
  <2>1. I \subseteq 1..id
    BY <1>5 DEF id
  <2> QED BY Zenon, <1>2, <1>4, <1>7, <1>11, <2>1 DEF WindowsOk
<1>13. StackOk(n.windows, n.stack)
  <2>1. id \notin Range(m.stack)
    BY <1>5, <1>7
  <2>2. /\ Append(m.stack, id) \in Seq(I) /\ Range(Append(m.stack, id)) = I
        /\ IsInjective(Append(m.stack, id))
    <3>1. /\ Append(m.stack, id) \in Seq(Ids(m) \union {id})
          /\ Range(Append(m.stack, id)) = Range(m.stack) \union {id}
          /\ IsInjective(m.stack) /\ id \notin Range(m.stack) => IsInjective(Append(m.stack, id))
      BY <1>5, Pushed, Zenon
    <3> QED BY <1>5, <2>1, <3>1, Zenon
  <2> QED BY Zenon, <1>2, <1>4, <2>2 DEF StackOk
<1>14. WorkspacesOk(n.windows, n.workspaces, n.active_workspace)
  <2>1. \A k \in D : /\ m.workspaces[k] \in Seq(Ids(m)) /\ IsInjective(m.workspaces[k])
                     /\ \A w \in Ids(m) : w \in Range(m.workspaces[k]) <=> m.windows[w].workspace_id = k
    BY Zenon, <1>5, <1>6 DEF WorkspacesOk, Ids, D
  <2>2. \A w \in Ids(m) : m.windows[w].workspace_id \in D
    BY <1>5 DEF WorkspacesOk, Ids, D
  <2>3. /\ DOMAIN n.workspaces = D /\ n.workspaces = [k \in D |-> n.workspaces[k]]
        /\ \A k \in D : n.workspaces[k] = IF k = a THEN Append(m.workspaces[k], id)
                                          ELSE m.workspaces[k]
    <3>1. n.workspaces = [m.workspaces EXCEPT ![a] = Append(@, id)]
      BY <1>4
    <3> QED BY Zenon, <1>6, <3>1
  <2>4. ASSUME NEW k \in D
        PROVE  /\ n.workspaces[k] \in Seq(I) /\ IsInjective(n.workspaces[k])
               /\ \A w \in I : w \in Range(n.workspaces[k]) <=> v[w].workspace_id = k
    <3>1. Range(m.workspaces[k]) \subseteq Ids(m)
      BY <2>1, RangeOver, Zenon
    <3>2. m.workspaces[k] \in Seq(I) /\ id \notin Range(m.workspaces[k])
      BY Zenon, <1>7, <2>1, <3>1, SeqOver
    <3>3. CASE k = a
      <4>1. /\ Append(m.workspaces[k], id) \in Seq(I \union {id})
            /\ Range(Append(m.workspaces[k], id)) = Range(m.workspaces[k]) \union {id}
            /\ IsInjective(Append(m.workspaces[k], id))
        BY <2>1, <3>2, Pushed
      <4>2. I \union {id} = I
        OBVIOUS
      <4>3. \A w \in I : w \in Range(m.workspaces[k]) \union {id} <=> v[w].workspace_id = k
        BY Zenon, <1>8, <1>9, <1>10, <2>1, <3>3
      <4> QED BY Zenon, <2>3, <3>3, <4>1, <4>2, <4>3
    <3>4. CASE k # a
      <4>1. \A w \in I : w \in Range(m.workspaces[k]) <=> v[w].workspace_id = k
        BY Zenon, <1>8, <1>9, <1>10, <2>1, <3>2, <3>4
      <4> QED BY Zenon, <2>1, <2>3, <3>2, <3>4, <4>1
    <3> QED BY <3>3, <3>4
  <2>5. n.workspaces \in [D -> Seq(I)]
    BY Zenon, <2>3, <2>4
  <2>6. \A w \in I : /\ v[w].workspace_id \in D
                     /\ \A k \in D : w \in Range(n.workspaces[k]) <=> v[w].workspace_id = k
    BY Zenon, <1>6, <1>8, <1>9, <1>10, <2>2, <2>4
  <2>7. WorkspacesOk(v, n.workspaces, a)
    BY <1>2, <1>6, <2>3, <2>4, <2>5, <2>6, Zenon DEF WorkspacesOk
  <2> QED BY Zenon, <1>4, <2>7
<1>15. FocusOk(n.windows, n.focused)
  BY <1>2, <1>4, <1>8 DEF FocusOk, NewWin
<1>16. DOMAIN n.workspaces = DOMAIN m.workspaces
  BY Zenon, <1>4
<1>17. WmInv(A, n) /\ Ids(n) = I
  BY Zenon, <1>2, <1>4, <1>12, <1>13, <1>14, <1>15 DEF WmInv, WmTables, Ids
<1> QED BY <1>4, <1>8, <1>16, <1>17, Zenon DEF n, id

-----------------------------------------------------------------------------
(* What a manager's workspaces are, field by field.                         *)
LEMMA WorkspacesAre ==
    ASSUME NEW A, NEW m, WmTables(A, m)
    PROVE  LET D == DOMAIN m.workspaces IN
           /\ m.workspaces \in [D -> Seq(Ids(m))] /\ 0 \in D /\ m.active_workspace \in D
           /\ \E b \in Nat : D \subseteq 0..b
           /\ \A k \in D : /\ m.workspaces[k] \in Seq(Ids(m)) /\ IsInjective(m.workspaces[k])
                           /\ Range(m.workspaces[k]) \subseteq Ids(m)
                           /\ \A w \in Ids(m) : w \in Range(m.workspaces[k])
                                                  <=> m.windows[w].workspace_id = k
           /\ \A w \in Ids(m) : m.windows[w].workspace_id \in D
<1> DEFINE D == DOMAIN m.workspaces
<1>1. WorkspacesOk(m.windows, m.workspaces, m.active_workspace)
  BY Zenon DEF WmTables
<1>2. m.workspaces \in [D -> Seq(Ids(m))] /\ 0 \in D /\ m.active_workspace \in D
  BY Zenon, <1>1 DEF WorkspacesOk, Ids
<1>3. \E b \in Nat : D \subseteq 0..b
  BY Zenon, <1>1 DEF WorkspacesOk
<1>4. ASSUME NEW k \in D
      PROVE  /\ m.workspaces[k] \in Seq(Ids(m)) /\ IsInjective(m.workspaces[k])
             /\ Range(m.workspaces[k]) \subseteq Ids(m)
             /\ \A w \in Ids(m) : w \in Range(m.workspaces[k]) <=> m.windows[w].workspace_id = k
  <2>1. m.workspaces[k] \in Seq(Ids(m))
    BY <1>2
  <2>2. Range(m.workspaces[k]) \subseteq Ids(m)
    BY <2>1, RangeOver, Zenon
  <2> QED BY Zenon, <1>1, <2>1, <2>2 DEF WorkspacesOk, Ids
<1>5. \A w \in Ids(m) : m.windows[w].workspace_id \in D
  BY Zenon, <1>1 DEF WorkspacesOk, Ids
<1> QED BY Zenon, <1>2, <1>3, <1>4, <1>5

(* The windows v of I are placed on the workspaces u, numbered by D.        *)
Placed(A, I, v, D, u, a) ==
    /\ v \in [I -> Win(A)]
    /\ u \in [D -> Seq(I)]
    /\ 0 \in D /\ a \in D
    /\ \E b \in Nat : D \subseteq 0..b
    /\ \A k \in D : IsInjective(u[k])
    /\ \A w \in I : /\ v[w].workspace_id \in D
                    /\ \A k \in D : w \in Range(u[k]) <=> v[w].workspace_id = k

(* The tables of a manager whose stack is as it was.                        *)
LEMMA TablesFrom ==
    ASSUME NEW A, NEW m, NEW n, WmTables(A, m), IsManager(n),
           n.stack = m.stack, n.next_id = m.next_id,
           NEW v, NEW D, NEW u, NEW a, Placed(A, Ids(m), v, D, u, a),
           n.windows = v, n.workspaces = u, n.active_workspace = a
    PROVE  WmTables(A, n) /\ Ids(n) = Ids(m)
<1>1. DOMAIN v = Ids(m) /\ DOMAIN m.windows = Ids(m) /\ DOMAIN u = D
  BY Zenon DEF Placed, Ids
<1>2. WindowsOk(A, v, m.next_id)
  BY Zenon, <1>1 DEF WmTables, WindowsOk, Placed
<1>3. StackOk(v, m.stack)
  BY <1>1 DEF WmTables, StackOk
<1>4. WorkspacesOk(v, u, a)
  BY <1>1, Zenon DEF Placed, WorkspacesOk
<1> QED BY Zenon, <1>1, <1>2, <1>3, <1>4 DEF WmTables, Ids

(* A new workspace has an unused number and no windows.                     *)
LEMMA CreateWorkspaceKeeps ==
    ASSUME NEW A, NEW m, WmInv(A, m)
    PROVE  WmInv(A, create_workspace(m))
<1> DEFINE n == create_workspace(m)
           used == DOMAIN m.workspaces
           top == CHOOSE k \in used : \A j \in used : j <= k
           id == 1 + top
           D == used \union {id}
           u == [k \in D |-> IF k = id THEN <<>> ELSE m.workspaces[k]]
<1>0. WmTables(A, m)
  BY DEF WmInv
<1>1. /\ m.workspaces \in [used -> Seq(Ids(m))] /\ 0 \in used /\ m.active_workspace \in used
      /\ \E b \in Nat : used \subseteq 0..b
      /\ \A k \in used : /\ m.workspaces[k] \in Seq(Ids(m)) /\ IsInjective(m.workspaces[k])
                         /\ Range(m.workspaces[k]) \subseteq Ids(m)
                         /\ \A w \in Ids(m) : w \in Range(m.workspaces[k])
                                                <=> m.windows[w].workspace_id = k
      /\ \A w \in Ids(m) : m.windows[w].workspace_id \in used
  BY <1>0, WorkspacesAre, Zenon
<1>2. n = [m EXCEPT !.workspaces = u]
  BY Zenon DEF create_workspace
<1> HIDE DEF n, u
<1>3. n = [windows |-> m.windows, stack |-> m.stack, focused |-> m.focused,
           next_id |-> m.next_id, active_workspace |-> m.active_workspace, workspaces |-> u]
  BY Zenon, <1>0, <1>2 DEF WmTables, IsManager
<1>4. /\ IsManager(n) /\ n.windows = m.windows /\ n.stack = m.stack /\ n.focused = m.focused
      /\ n.next_id = m.next_id /\ n.active_workspace = m.active_workspace /\ n.workspaces = u
  BY Zenon, <1>3 DEF IsManager
<1> HIDE DEF used
<1>5. top \in used /\ top \in Nat /\ \A j \in used : j \in Nat /\ j <= top
  <2>1. PICK b \in Nat : used \subseteq 0..b
    BY Zenon, <1>1
  <2>2. used \in SUBSET Nat /\ used # {} /\ \A j \in used : j <= b
    <3>1. \A k \in 0..b : k \in Nat /\ k <= b
      OBVIOUS
    <3> QED BY Zenon, <1>1, <2>1, <3>1
  <2>3. \E k \in used : \A j \in used : j <= k
    BY Zenon, <2>1, <2>2, GreatestNat
  <2> QED BY Zenon, <2>2, <2>3
<1> HIDE DEF top
<1>6. id \notin used /\ id \in Nat /\ D \subseteq 0..id
  BY <1>5
<1> HIDE DEF id
<1>7. /\ u = [k \in D |-> u[k]] /\ u[id] = <<>> /\ \A k \in used : u[k] = m.workspaces[k]
  BY <1>6 DEF u
<1>8. <<>> \in Seq(Ids(m)) /\ IsInjective(<<>>) /\ Range(<<>>) = {}
  BY DEF IsInjective, Range
<1>9. u \in [D -> Seq(Ids(m))] /\ \A k \in D : IsInjective(u[k])
  <2>1. ASSUME NEW k \in D PROVE u[k] \in Seq(Ids(m)) /\ IsInjective(u[k])
    <3>1. CASE k = id
      BY <1>7, <1>8, <3>1
    <3>2. CASE k \in used
      BY Zenon, <1>1, <1>7, <3>2
    <3> QED BY <3>1, <3>2
  <2> QED BY Zenon, <1>7, <2>1
<1>10. \A w \in Ids(m) : /\ m.windows[w].workspace_id \in D
                         /\ \A k \in D : w \in Range(u[k]) <=> m.windows[w].workspace_id = k
  BY <1>1, <1>6, <1>7, <1>8
<1>11. m.windows \in [Ids(m) -> Win(A)] /\ 0 \in D /\ m.active_workspace \in D
  BY Zenon, <1>0, <1>1 DEF WmTables, WindowsOk, Ids
<1> HIDE DEF D
<1>12. WmTables(A, n)
  <2>1. Placed(A, Ids(m), m.windows, D, u, m.active_workspace)
    BY <1>6, <1>9, <1>10, <1>11, Zenon DEF Placed
  <2> QED BY Zenon, <1>0, <1>4, <2>1, TablesFrom
<1>13. FocusOk(n.windows, n.focused)
  BY Zenon, <1>4 DEF WmInv
<1> QED BY <1>12, <1>13 DEF WmInv, n

(* The windows of a removed workspace go to workspace 0.                    *)
LEMMA DestroyWorkspaceKeeps ==
    ASSUME NEW A, NEW m, WmInv(A, m), NEW id
    PROVE  WmInv(A, destroy_workspace(m, id))
<1>1. CASE id = 0 \/ id \notin DOMAIN m.workspaces
  BY Zenon, <1>1 DEF destroy_workspace
<1>2. CASE id # 0 /\ id \in DOMAIN m.workspaces
  <2> DEFINE n == destroy_workspace(m, id)
             E == DOMAIN m.workspaces
             D == E \ {id}
             moved == m.workspaces[id]
             u == [k \in D |-> IF k = 0 THEN m.workspaces[k] \o moved ELSE m.workspaces[k]]
             v == [w \in Ids(m) |-> IF w \in Range(moved)
                                    THEN [m.windows[w] EXCEPT !.workspace_id = 0]
                                    ELSE m.windows[w]]
             a == IF m.active_workspace = id THEN 0 ELSE m.active_workspace
  <2>0. WmTables(A, m)
    BY DEF WmInv
  <2>1. /\ m.workspaces \in [E -> Seq(Ids(m))] /\ 0 \in E /\ m.active_workspace \in E
        /\ \E b \in Nat : E \subseteq 0..b
        /\ \A k \in E : /\ m.workspaces[k] \in Seq(Ids(m)) /\ IsInjective(m.workspaces[k])
                        /\ Range(m.workspaces[k]) \subseteq Ids(m)
                        /\ \A w \in Ids(m) : w \in Range(m.workspaces[k])
                                               <=> m.windows[w].workspace_id = k
        /\ \A w \in Ids(m) : m.windows[w].workspace_id \in E
    BY <2>0, WorkspacesAre, Zenon
  <2>2. n = [m EXCEPT !.workspaces = u, !.windows = v, !.active_workspace = a]
    BY <1>2, Zenon DEF destroy_workspace
  <2>3. /\ u = [k \in D |-> u[k]]
        /\ \A k \in D : u[k] = IF k = 0 THEN m.workspaces[k] \o moved ELSE m.workspaces[k]
    BY Zenon
  <2>4. /\ v = [w \in Ids(m) |-> v[w]]
        /\ \A w \in Ids(m) : v[w] = IF w \in Range(moved)
                                    THEN [m.windows[w] EXCEPT !.workspace_id = 0]
                                    ELSE m.windows[w]
    BY Zenon
  <2> HIDE DEF n, u, v
  <2>5. n = [windows |-> v, stack |-> m.stack, focused |-> m.focused,
             next_id |-> m.next_id, active_workspace |-> a, workspaces |-> u]
    BY Zenon, <2>0, <2>2 DEF WmTables, IsManager
  <2>6. /\ IsManager(n) /\ n.windows = v /\ n.stack = m.stack /\ n.focused = m.focused
        /\ n.next_id = m.next_id /\ n.active_workspace = a /\ n.workspaces = u
    BY <2>5 DEF IsManager
  <2> HIDE DEF E
  <2>7. 0 \in D /\ a \in D /\ id \in E /\ moved \in Seq(Ids(m))
    BY <1>2, <2>1 DEF E
  <2>8. \A w \in Ids(m) : w \in Range(moved) <=> m.windows[w].workspace_id = id
    BY Zenon, <2>1, <2>7
  <2>9. \A w \in Ids(m) : /\ v[w] \in Win(A)
                          /\ v[w].workspace_id = IF w \in Range(moved) THEN 0
                                                 ELSE m.windows[w].workspace_id
                          /\ v[w].focused = m.windows[w].focused
                          /\ v[w].visible = m.windows[w].visible
                          /\ v[w].state = m.windows[w].state
    <3> SUFFICES ASSUME NEW w \in Ids(m)
                 PROVE  /\ v[w] \in Win(A)
                        /\ v[w].workspace_id = IF w \in Range(moved) THEN 0
                                               ELSE m.windows[w].workspace_id
                        /\ v[w].focused = m.windows[w].focused
                        /\ v[w].visible = m.windows[w].visible
                        /\ v[w].state = m.windows[w].state
      OBVIOUS
    <3>1. m.windows[w] \in Win(A) /\ 0 \in Nat
      BY Zenon, <2>0 DEF WmTables, WindowsOk, Ids
    <3>2. CASE w \in Range(moved)
      <4>1. v[w] = [m.windows[w] EXCEPT !.workspace_id = 0]
        BY Zenon, <2>4, <3>2
      <4>2. LET q == [m.windows[w] EXCEPT !.workspace_id = 0]
            IN  q \in Win(A) /\ q.state = m.windows[w].state
                  /\ q.focused = m.windows[w].focused /\ q.visible = m.windows[w].visible
                  /\ q.workspace_id = 0
        BY <3>1, SetWorkspace
      <4> QED BY <3>2, <4>1, <4>2, Zenon
    <3>3. CASE w \notin Range(moved)
      BY Zenon, <2>4, <3>1, <3>3
    <3> QED BY Zenon, <3>2, <3>3
  <2>10. v \in [Ids(m) -> Win(A)]
    BY Zenon, <2>4, <2>9
  <2>11. ASSUME NEW k \in D
         PROVE  /\ u[k] \in Seq(Ids(m)) /\ IsInjective(u[k])
                /\ Range(u[k]) = IF k = 0 THEN Range(m.workspaces[0]) \union Range(moved)
                                 ELSE Range(m.workspaces[k])
    <3>1. CASE k # 0
      BY Zenon, <2>1, <2>3, <3>1
    <3>2. CASE k = 0
      <4>1. u[0] = m.workspaces[0] \o moved
        BY Zenon, <2>3, <2>7
      <4>2. /\ m.workspaces[0] \in Seq(Ids(m)) /\ IsInjective(m.workspaces[0])
            /\ IsInjective(moved) /\ Range(m.workspaces[0]) \subseteq Ids(m)
        BY Zenon, <2>1, <2>7
      <4>3. Range(m.workspaces[0]) \intersect Range(moved) = {}
        BY Zenon, <1>2, <2>1, <2>7, <2>8, <4>2
      <4> HIDE DEF moved
      <4>4. /\ m.workspaces[0] \o moved \in Seq(Ids(m))
            /\ Range(m.workspaces[0] \o moved) = Range(m.workspaces[0]) \union Range(moved)
            /\ IsInjective(m.workspaces[0] \o moved)
        BY <2>7, <4>2, <4>3, Extended
      <4> QED BY <3>2, <4>1, <4>4
    <3> QED BY Zenon, <3>1, <3>2
  <2>12. u \in [D -> Seq(Ids(m))] /\ \A k \in D : IsInjective(u[k])
    BY Zenon, <2>3, <2>11
  <2>13. \A w \in Ids(m) : /\ v[w].workspace_id \in D
                           /\ \A k \in D : w \in Range(u[k]) <=> v[w].workspace_id = k
    <3> SUFFICES ASSUME NEW w \in Ids(m)
                 PROVE  /\ v[w].workspace_id \in D
                        /\ \A k \in D : w \in Range(u[k]) <=> v[w].workspace_id = k
      OBVIOUS
    <3>1. CASE w \in Range(moved)
      <4>1. v[w].workspace_id = 0 /\ m.windows[w].workspace_id = id
        BY Zenon, <2>8, <2>9, <3>1
      <4>2. \A k \in D : w \in Range(u[k]) <=> k = 0
        BY <2>1, <2>11, <3>1, <4>1
      <4> QED BY Zenon, <2>7, <4>1, <4>2
    <3>2. CASE w \notin Range(moved)
      <4>1. v[w].workspace_id = m.windows[w].workspace_id /\ m.windows[w].workspace_id # id
        BY Zenon, <2>8, <2>9, <3>2
      <4>2. \A k \in D : w \in Range(u[k]) <=> w \in Range(m.workspaces[k])
        BY Zenon, <2>11, <3>2
      <4> QED BY Zenon, <2>1, <4>1, <4>2
    <3> QED BY Zenon, <3>1, <3>2
  <2>14. PICK b \in Nat : D \subseteq 0..b
    BY Zenon, <2>1
  <2> HIDE DEF D, a
  <2>15. WmTables(A, n)
    <3>1. Placed(A, Ids(m), v, D, u, a)
      BY <2>7, <2>10, <2>12, <2>13, <2>14, Zenon DEF Placed
    <3> QED BY <2>0, <2>6, <3>1, TablesFrom
  <2>16. FocusOk(n.windows, n.focused)
    <3>1. FocusOk(m.windows, m.focused)
      BY DEF WmInv
    <3>2. DOMAIN v = Ids(m) /\ DOMAIN m.windows = Ids(m)
      BY <2>10 DEF Ids
    <3> QED BY <2>6, <2>9, <3>1, <3>2 DEF FocusOk
  <2> QED BY Zenon, <2>15, <2>16 DEF WmInv, n
<1> QED BY <1>1, <1>2

-----------------------------------------------------------------------------
(* Hiding, showing and the new focus together.                              *)
LEMMA ActivateKeeps ==
    ASSUME NEW A, NEW m, WmInv(A, m), NEW id
    PROVE  WmInv(A, activate_workspace(m, id))
<1>1. CASE id \notin DOMAIN m.workspaces
  BY Zenon, <1>1 DEF activate_workspace
<1>2. CASE id \in DOMAIN m.workspaces
  <2> DEFINE old == Range(m.workspaces[m.active_workspace])
             shown == Range(m.workspaces[id])
             v == [w \in Ids(m) |->
                      CASE w \in shown -> [m.windows[w] EXCEPT !.visible = TRUE]
                        [] w \in old \ shown /\ m.windows[w].state # "Minimized"
                             -> [m.windows[w] EXCEPT !.visible = FALSE]
                        [] OTHER -> m.windows[w]]
             n == [m EXCEPT !.active_workspace = id, !.windows = v]
             S == {w \in showing(n) : n.windows[w].workspace_id = id}
  <2>0. WmTables(A, m)
    BY DEF WmInv
  <2>1. activate_workspace(m, id) = give_focus(n, topmost(n, S))
    BY <1>2, Zenon DEF activate_workspace
  <2>2. ASSUME NEW w \in Ids(m)
        PROVE  v[w] \in Win(A) /\ v[w].workspace_id = m.windows[w].workspace_id
    <3>1. m.windows[w] \in Win(A) /\ TRUE \in BOOLEAN /\ FALSE \in BOOLEAN
      BY <2>0 DEF WmTables, WindowsOk, Ids
    <3>2. \/ v[w] = [m.windows[w] EXCEPT !.visible = TRUE]
          \/ v[w] = [m.windows[w] EXCEPT !.visible = FALSE]
          \/ v[w] = m.windows[w]
      BY Zenon
    <3> HIDE DEF v
    <3>3. /\ [m.windows[w] EXCEPT !.visible = TRUE] \in Win(A)
          /\ [m.windows[w] EXCEPT !.visible = TRUE].workspace_id = m.windows[w].workspace_id
      BY Zenon, <3>1, SetVisible
    <3>4. /\ [m.windows[w] EXCEPT !.visible = FALSE] \in Win(A)
          /\ [m.windows[w] EXCEPT !.visible = FALSE].workspace_id = m.windows[w].workspace_id
      BY Zenon, <3>1, SetVisible
    <3> QED BY <3>1, <3>2, <3>3, <3>4, Zenon
  <2>3. v = [w \in Ids(m) |-> v[w]]
    BY Zenon
  <2> HIDE DEF v
  <2>10. n = [m EXCEPT !.active_workspace = id, !.windows = v]
    OBVIOUS
  <2> HIDE DEF n
  <2>4. n = [windows |-> v, stack |-> m.stack, focused |-> m.focused,
             next_id |-> m.next_id, active_workspace |-> id, workspaces |-> m.workspaces]
    BY Zenon, <2>0, <2>10 DEF WmTables, IsManager
  <2>5. /\ IsManager(n) /\ n.windows = v /\ n.stack = m.stack
        /\ n.next_id = m.next_id /\ n.active_workspace = id /\ n.workspaces = m.workspaces
    BY <2>4 DEF IsManager
  <2>6. v \in [Ids(m) -> Win(A)]
    BY <2>2, <2>3
  <2>7. WmTables(A, n)
    BY <1>2, <2>0, <2>2, <2>5, <2>6, SameTables
  <2>8. topmost(n, S) = NoWindow \/ topmost(n, S) \in showing(n)
    <3>1. S \subseteq showing(n)
      OBVIOUS
    <3> HIDE DEF S
    <3> QED BY Zenon, <2>7, <3>1, TopmostAmong
  <2> HIDE DEF S
  <2>9. WmInv(A, give_focus(n, topmost(n, S)))
    BY Zenon, <2>7, <2>8, GiveFocusKeeps
  <2> QED BY Zenon, <2>1, <2>9
<1> QED BY Zenon, <1>1, <1>2

(* A window leaves one list and enters another, which may be the same.      *)
LEMMA MoveKeeps ==
    ASSUME NEW A, NEW m, WmInv(A, m), NEW w, NEW target
    PROVE  WmInv(A, move_window_to_workspace(m, w, target))
<1>1. CASE target \notin DOMAIN m.workspaces \/ w \notin Ids(m)
  BY <1>1 DEF move_window_to_workspace
<1>2. CASE target \in DOMAIN m.workspaces /\ w \in Ids(m)
  <2> DEFINE n == move_window_to_workspace(m, w, target)
             D == DOMAIN m.workspaces
             j == m.windows[w].workspace_id
             left == without(m.workspaces[j], w)
             out == [m.workspaces EXCEPT ![j] = left]
             u == [out EXCEPT ![target] = Append(out[target], w)]
             q == [m.windows[w] EXCEPT !.workspace_id = target]
             v == [m.windows EXCEPT ![w] = q]
  <2>0. WmTables(A, m)
    BY DEF WmInv
  <2>1. /\ m.workspaces \in [D -> Seq(Ids(m))] /\ 0 \in D /\ m.active_workspace \in D
        /\ \E b \in Nat : D \subseteq 0..b
        /\ \A k \in D : /\ m.workspaces[k] \in Seq(Ids(m)) /\ IsInjective(m.workspaces[k])
                        /\ Range(m.workspaces[k]) \subseteq Ids(m)
                        /\ \A x \in Ids(m) : x \in Range(m.workspaces[k])
                                               <=> m.windows[x].workspace_id = k
        /\ \A x \in Ids(m) : m.windows[x].workspace_id \in D
    BY <2>0, WorkspacesAre, Zenon
  <2>2. n = [windows |-> v, stack |-> m.stack, focused |-> m.focused,
             next_id |-> m.next_id, active_workspace |-> m.active_workspace, workspaces |-> u]
    BY Zenon, <1>2, <2>0 DEF move_window_to_workspace, WmTables, IsManager
  <2>3. j \in D /\ target \in D /\ target \in Nat /\ w \in Ids(m)
    BY <1>2, <2>1
  <2>4. m.windows \in [Ids(m) -> Win(A)] /\ m.windows[w] \in Win(A)
    BY <2>0, <2>3 DEF WmTables, WindowsOk, Ids
  <2>5. /\ q \in Win(A) /\ q.workspace_id = target /\ q.focused = m.windows[w].focused
        /\ q.visible = m.windows[w].visible /\ q.state = m.windows[w].state
    BY <2>3, <2>4, SetWorkspace
  <2> HIDE DEF q
  <2>6. v \in [Ids(m) -> Win(A)] /\ v[w] = q /\ \A x \in Ids(m) \ {w} : v[x] = m.windows[x]
    BY Zenon, <2>3, <2>4, <2>5
  <2> HIDE DEF v, u, n
  <2>7. /\ IsManager(n) /\ n.windows = v /\ n.stack = m.stack /\ n.focused = m.focused
        /\ n.next_id = m.next_id /\ n.active_workspace = m.active_workspace /\ n.workspaces = u
    BY Zenon, <2>2 DEF IsManager
  <2>8. /\ left \in Seq(Ids(m)) /\ Range(left) = Range(m.workspaces[j]) \ {w}
        /\ IsInjective(left)
    <3>1. m.workspaces[j] \in Seq(Ids(m)) /\ IsInjective(m.workspaces[j])
      BY Zenon, <2>1, <2>3
    <3> QED BY Zenon, <3>1, WithoutRange
  <2> HIDE DEF D, j, left
  <2>9. /\ out \in [D -> Seq(Ids(m))]
        /\ \A k \in D : out[k] = IF k = j THEN left ELSE m.workspaces[k]
    BY <2>1, <2>3, <2>8
  <2> HIDE DEF out
  <2>10. ASSUME NEW k \in D
         PROVE  /\ out[k] \in Seq(Ids(m)) /\ IsInjective(out[k])
                /\ Range(out[k]) = Range(m.workspaces[k]) \ {w}
    <3>1. CASE k = j
      BY <2>8, <2>9, <3>1
    <3>2. CASE k # j
      <4>1. w \notin Range(m.workspaces[k])
        BY <2>1, <2>3, <3>2 DEF j
      <4> QED BY <2>1, <2>9, <3>2, <4>1
    <3> QED BY <3>1, <3>2
  <2>11. /\ Append(out[target], w) \in Seq(Ids(m))
         /\ Range(Append(out[target], w)) = Range(out[target]) \union {w}
         /\ IsInjective(Append(out[target], w))
    <3>1. out[target] \in Seq(Ids(m)) /\ IsInjective(out[target]) /\ w \notin Range(out[target])
      BY Zenon, <2>3, <2>10
    <3>2. Ids(m) \union {w} = Ids(m)
      BY <2>3
    <3>3. /\ Append(out[target], w) \in Seq(Ids(m) \union {w})
          /\ Range(Append(out[target], w)) = Range(out[target]) \union {w}
          /\ IsInjective(out[target]) /\ w \notin Range(out[target])
               => IsInjective(Append(out[target], w))
      BY <3>1, Pushed, Zenon
    <3> QED BY <3>1, <3>2, <3>3, Zenon
  <2>12. /\ u \in [D -> Seq(Ids(m))]
         /\ \A k \in D : u[k] = IF k = target THEN Append(out[target], w) ELSE out[k]
    BY Zenon, <2>3, <2>9, <2>11 DEF u
  <2>13. ASSUME NEW k \in D
         PROVE  /\ IsInjective(u[k])
                /\ \A x \in Ids(m) : x \in Range(u[k]) <=> v[x].workspace_id = k
    <3>1. IsInjective(u[k])
      BY Zenon, <2>10, <2>11, <2>12
    <3>2. Range(u[k]) = IF k = target THEN (Range(m.workspaces[k]) \ {w}) \union {w}
                        ELSE Range(m.workspaces[k]) \ {w}
      BY Zenon, <2>10, <2>11, <2>12
    <3>3. v[w].workspace_id = target /\ (w \in Range(u[k]) <=> k = target)
      BY <2>5, <2>6, <3>2
    <3>4. \A x \in Ids(m) \ {w} : x \in Range(u[k]) <=> v[x].workspace_id = k
      BY <2>1, <2>6, <3>2
    <3> QED BY Zenon, <3>1, <3>3, <3>4
  <2>14. \A x \in Ids(m) : v[x].workspace_id \in D
    BY Zenon, <2>1, <2>3, <2>5, <2>6
  <2>15. WmTables(A, n)
    <3>1. Placed(A, Ids(m), v, D, u, m.active_workspace)
      BY <2>1, <2>6, <2>12, <2>13, <2>14, Zenon DEF Placed
    <3> QED BY <2>0, <2>7, <3>1, TablesFrom
  <2>16. FocusOk(n.windows, n.focused)
    <3>1. FocusOk(m.windows, m.focused)
      BY DEF WmInv
    <3>2. DOMAIN v = Ids(m) /\ DOMAIN m.windows = Ids(m)
      BY Zenon, <2>6 DEF Ids
    <3>3. \A x \in Ids(m) : /\ v[x].focused = m.windows[x].focused
                            /\ v[x].visible = m.windows[x].visible
                            /\ v[x].state = m.windows[x].state
      BY Zenon, <2>5, <2>6
    <3> QED BY <2>7, <3>1, <3>2, <3>3 DEF FocusOk
  <2> QED BY <2>15, <2>16 DEF WmInv, n
<1> QED BY <1>1, <1>2

(* The empty manager.                                                       *)
LEMMA NewKeeps == ASSUME NEW A PROVE WmInv(A, new)
<1>1. /\ IsManager(new) /\ new.windows = <<>> /\ new.stack = <<>> /\ new.focused = NoWindow
      /\ new.next_id = 0 /\ new.active_workspace = 0 /\ new.workspaces = [k \in {0} |-> <<>>]
  BY DEF new, IsManager
<1>2. DOMAIN <<>> = {} /\ <<>> \in Seq({}) /\ Range(<<>>) = {} /\ IsInjective(<<>>)
  BY DEF Range, IsInjective
<1>3. WindowsOk(A, <<>>, 0)
  BY <1>2 DEF WindowsOk
<1>4. StackOk(<<>>, <<>>)
  BY <1>2 DEF StackOk
<1>5. WorkspacesOk(<<>>, [k \in {0} |-> <<>>], 0)
  <2>1. {0} \subseteq 0..0 /\ 0 \in Nat
    OBVIOUS
  <2> QED BY <1>2, <2>1 DEF WorkspacesOk
<1> QED BY Zenon, <1>1, <1>3, <1>4, <1>5 DEF WmInv, WmTables, FocusOk

(* Every call of the library keeps the tables in step.                      *)
WsInv == WmInv({"app"}, desk)

(* One case per call.                                                       *)
LEMMA WsStepKeeps == WsInv /\ [WsNext]_desk => WsInv'
<1> SUFFICES ASSUME WmInv({"app"}, desk), [WsNext]_desk PROVE WmInv({"app"}, desk')
  BY DEF WsInv
<1>1. CASE Create
  BY <1>1, CreateKeeps DEF Create
<1>2. CASE Cycle
  BY <1>2, CycleKeeps DEF Cycle
<1>3. CASE CreateWorkspace
  BY <1>3, CreateWorkspaceKeeps DEF CreateWorkspace
<1>4. ASSUME NEW w \in 1..MaxWindows, WindowCall(w) PROVE WmInv({"app"}, desk')
  BY Zenon, <1>4, FocusCallKeeps, MinimizeKeeps, MaximizeKeeps, RestoreKeeps, CloseKeeps DEF WindowCall
<1>5. ASSUME NEW w \in 1..MaxWindows, NEW k \in 0..MaxWorkspaces, Move(w, k)
      PROVE  WmInv({"app"}, desk')
  BY <1>5, MoveKeeps DEF Move
<1>6. ASSUME NEW k \in 0..MaxWorkspaces, WorkspaceCall(k) PROVE WmInv({"app"}, desk')
  BY <1>6, DestroyWorkspaceKeeps, ActivateKeeps DEF WorkspaceCall
<1>7. CASE UNCHANGED desk
  BY <1>7
<1> QED BY Zenon, <1>1, <1>2, <1>3, <1>4, <1>5, <1>6, <1>7 DEF WsNext

(* For any number of windows and workspaces and every order of calls, the   *)
(* five tables of the window manager stay in step.                          *)
THEOREM TablesStayInStep == WsSpec => []WindowTablesAgree
<1>1. WsInit => WsInv
  BY NewKeeps DEF WsInit, WsInv
<1>2. WsInv => WindowTablesAgree
  BY InvAgrees DEF WindowTablesAgree, WsInv
<1> QED BY <1>1, <1>2, WsStepKeeps, PTL DEF WsSpec

-----------------------------------------------------------------------------
(* The ids of windows *)

(* From m to n no id is given out and no window appears.                    *)
NoneNew(m, n) == /\ DOMAIN n = DOMAIN m
                 /\ n.next_id = m.next_id
                 /\ Ids(n) \subseteq Ids(m)

HasIds(m) == {"next_id", "windows"} \subseteq DOMAIN m

(* Two such steps make one.                                                 *)
LEMMA NoneNewTwice ==
    ASSUME NEW m, NEW n, NEW q, NoneNew(m, n), NoneNew(n, q)
    PROVE  NoneNew(m, q)
BY Zenon DEF NoneNew

(* Giving the focus away creates nothing.                                   *)
LEMMA GiveFocusNew ==
    ASSUME NEW m, HasIds(m), NEW id
    PROVE  NoneNew(m, give_focus(m, id))
<1>1. CASE id = NoWindow
  BY <1>1 DEF NoneNew, HasIds, Ids, give_focus
<1>2. CASE id # NoWindow
  BY <1>2 DEF NoneNew, HasIds, Ids, give_focus
<1> QED BY <1>1, <1>2

(* Nor does focusing a window, whatever its number.                         *)
LEMMA FocusNew ==
    ASSUME NEW m, HasIds(m), NEW id
    PROVE  NoneNew(m, focus(m, id))
<1>1. CASE id \notin Ids(m)
  BY <1>1 DEF NoneNew, focus
<1>2. CASE id \in Ids(m)
  BY <1>2 DEF NoneNew, HasIds, Ids, focus
<1> QED BY <1>1, <1>2

(* Nor a change of one window, which the calls below start with.            *)
LEMMA SetWindowNew ==
    ASSUME NEW m, HasIds(m), NEW id, NEW q
    PROVE  NoneNew(m, SetWindow(m, id, q)) /\ HasIds(SetWindow(m, id, q))
BY DEF NoneNew, HasIds, Ids, SetWindow

(* The calls for one window change it, take it away or move the focus.      *)
LEMMA MinimizeNew ==
    ASSUME NEW m, HasIds(m), NEW id
    PROVE  NoneNew(m, minimize(m, id))
<1> DEFINE q == [m.windows[id] EXCEPT !.state = "Minimized", !.visible = FALSE,
                                      !.focused = FALSE]
           n == SetWindow(m, id, q)
<1>1. minimize(m, id) \in {m, n, give_focus(n, topmost(n, showing(n)))}
  BY Zenon DEF minimize, SetWindow
<1> HIDE DEF q
<1>2. NoneNew(m, n) /\ HasIds(n)
  BY Zenon, SetWindowNew
<1>3. NoneNew(m, m)
  BY Zenon DEF NoneNew
<1> HIDE DEF n
<1>4. NoneNew(m, give_focus(n, topmost(n, showing(n))))
  BY Zenon, <1>2, GiveFocusNew, NoneNewTwice
<1> QED BY Zenon, <1>1, <1>2, <1>3, <1>4

LEMMA MaximizeNew ==
    ASSUME NEW m, HasIds(m), NEW id
    PROVE  NoneNew(m, maximize(m, id))
<1>1. CASE id \notin Ids(m)
  BY Zenon, <1>1 DEF maximize, NoneNew
<1>2. CASE id \in Ids(m)
  <2> DEFINE n == SetWindow(m, id, Shown(m.windows[id], "Maximized", TRUE))
  <2>1. maximize(m, id) = focus(n, id)
    BY Zenon, <1>2, MaximizeIs
  <2>2. NoneNew(m, n) /\ HasIds(n)
    BY Zenon, SetWindowNew
  <2> HIDE DEF n
  <2> QED BY Zenon, <2>1, <2>2, FocusNew, NoneNewTwice
<1> QED BY Zenon, <1>1, <1>2

LEMMA RestoreNew ==
    ASSUME NEW A, NEW m, WmInv(A, m), HasIds(m), NEW id
    PROVE  NoneNew(m, restore(m, id))
<1>1. CASE id \notin Ids(m)
  BY Zenon, <1>1 DEF restore, NoneNew
<1>2. CASE id \in Ids(m)
  <2>1. PICK b \in BOOLEAN :
            restore(m, id) = focus(SetWindow(m, id, Shown(m.windows[id], "Normal", b)), id)
    BY Zenon, <1>2, RestoreIs
  <2> DEFINE n == SetWindow(m, id, Shown(m.windows[id], "Normal", b))
  <2>2. NoneNew(m, n) /\ HasIds(n)
    BY Zenon, SetWindowNew
  <2>3. restore(m, id) = focus(n, id)
    BY Zenon, <2>1
  <2> HIDE DEF n
  <2> QED BY Zenon, <2>2, <2>3, FocusNew, NoneNewTwice
<1> QED BY Zenon, <1>1, <1>2

LEMMA CloseNew ==
    ASSUME NEW m, HasIds(m), NEW id
    PROVE  NoneNew(m, close(m, id))
<1> DEFINE n == Dropped(m, id)
<1>1. close(m, id) \in {m, n, give_focus(n, topmost(n, showing(n)))}
  BY Zenon DEF close, Dropped
<1>2. NoneNew(m, n) /\ HasIds(n)
  BY DEF NoneNew, HasIds, Ids, Dropped
<1>3. NoneNew(m, m)
  BY Zenon DEF NoneNew
<1> HIDE DEF n
<1>4. NoneNew(m, give_focus(n, topmost(n, showing(n))))
  BY Zenon, <1>2, GiveFocusNew, NoneNewTwice
<1> QED BY Zenon, <1>1, <1>2, <1>3, <1>4

(* The workspaces hide, show and move windows, and create none.             *)
LEMMA WorkspaceNew ==
    ASSUME NEW m, HasIds(m), NEW k
    PROVE  NoneNew(m, create_workspace(m)) /\ NoneNew(m, destroy_workspace(m, k))
<1>1. NoneNew(m, m)
  BY Zenon DEF NoneNew
<1>2. NoneNew(m, create_workspace(m))
  BY DEF NoneNew, HasIds, Ids, create_workspace
<1>3. CASE k = 0 \/ k \notin DOMAIN m.workspaces
  BY Zenon, <1>1, <1>2, <1>3 DEF destroy_workspace
<1>4. CASE ~ (k = 0 \/ k \notin DOMAIN m.workspaces)
  <2>1. NoneNew(m, destroy_workspace(m, k))
    BY <1>4 DEF NoneNew, HasIds, Ids, destroy_workspace
  <2> QED BY Zenon, <1>2, <2>1
<1> QED BY Zenon, <1>3, <1>4

LEMMA ActivateNew ==
    ASSUME NEW m, HasIds(m), NEW k
    PROVE  NoneNew(m, activate_workspace(m, k))
<1>1. CASE k \notin DOMAIN m.workspaces
  BY Zenon, <1>1 DEF activate_workspace, NoneNew
<1>2. CASE k \in DOMAIN m.workspaces
  <2> DEFINE old == Range(m.workspaces[m.active_workspace])
             shown == Range(m.workspaces[k])
             n == [m EXCEPT !.active_workspace = k,
                            !.windows = [w \in Ids(m) |->
                                CASE w \in shown -> [m.windows[w] EXCEPT !.visible = TRUE]
                                  [] w \in old \ shown /\ m.windows[w].state # "Minimized"
                                       -> [m.windows[w] EXCEPT !.visible = FALSE]
                                  [] OTHER -> m.windows[w]]]
             x == topmost(n, {w \in showing(n) : n.windows[w].workspace_id = k})
  <2>1. activate_workspace(m, k) = give_focus(n, x)
    BY Zenon, <1>2 DEF activate_workspace
  <2> HIDE DEF old, shown
  <2>2. NoneNew(m, n) /\ HasIds(n)
    BY DEF NoneNew, HasIds, Ids
  <2> HIDE DEF n, x
  <2> QED BY Zenon, <2>1, <2>2, GiveFocusNew, NoneNewTwice
<1> QED BY Zenon, <1>1, <1>2

LEMMA MoveNew ==
    ASSUME NEW m, HasIds(m), NEW w, NEW k
    PROVE  NoneNew(m, move_window_to_workspace(m, w, k))
<1>1. CASE k \notin DOMAIN m.workspaces \/ w \notin Ids(m)
  BY Zenon, <1>1 DEF move_window_to_workspace, NoneNew
<1>2. CASE ~ (k \notin DOMAIN m.workspaces \/ w \notin Ids(m))
  BY <1>2 DEF NoneNew, HasIds, Ids, move_window_to_workspace
<1> QED BY Zenon, <1>1, <1>2

(* Window w had its id and is closed.                                       *)
Closed(w) == w <= desk.next_id /\ w \notin Ids(desk)

(* The counter of ids never goes back, and a window that appears has an id  *)
(* above every id given out before.                                         *)
FreshIds == /\ desk.next_id <= desk'.next_id
            /\ \A w \in Ids(desk') \ Ids(desk) : desk.next_id < w /\ w <= desk'.next_id

(* Only create gives out an id; one case per call.                          *)
LEMMA StepIsFresh == WsInv /\ [WsNext]_desk => FreshIds
<1> SUFFICES ASSUME WmInv({"app"}, desk), [WsNext]_desk PROVE FreshIds
  BY Zenon DEF WsInv
<1>1. HasIds(desk) /\ WmTables({"app"}, desk)
  <2>1. IsManager(desk)
    BY Zenon DEF WmInv, WmTables
  <2>2. HasIds(desk)
    BY <2>1 DEF IsManager, HasIds
  <2> QED BY Zenon, <2>2 DEF WmInv
<1>2. desk.next_id \in Nat
  BY Zenon, <1>1 DEF WmTables, WindowsOk
<1>3. ASSUME NoneNew(desk, desk') PROVE FreshIds
  <2>1. desk'.next_id = desk.next_id /\ Ids(desk') \ Ids(desk) = {}
    BY Zenon, <1>3 DEF NoneNew
  <2>2. desk.next_id <= desk'.next_id
    BY <1>2, <2>1
  <2> QED BY Zenon, <2>1, <2>2 DEF FreshIds
<1>4. CASE Create
  <2>1. desk'.next_id = desk.next_id + 1 /\ Ids(desk') = Ids(desk) \union {desk.next_id + 1}
    <3> DEFINE n == create(desk, "app")
    <3>1. "app" \in {"app"}
      BY Zenon
    <3>2. n.next_id = desk.next_id + 1 /\ Ids(n) = Ids(desk) \union {desk.next_id + 1}
      BY Zenon, <3>1, CreateKeeps
    <3> HIDE DEF n
    <3>3. desk' = n
      BY Zenon, <1>4 DEF Create, n
    <3> QED BY Zenon, <3>2, <3>3
  <2>2. \A n \in Nat : n <= n + 1 /\ n < n + 1 /\ n + 1 <= n + 1
    OBVIOUS
  <2> QED BY Zenon, <1>2, <2>1, <2>2 DEF FreshIds
<1>5. CASE Cycle
  <2>1. desk' = desk \/ \E w \in showing(desk) : desk' = focus(desk, w)
    BY Zenon, <1>1, <1>5, CycleIs DEF Cycle
  <2>2. NoneNew(desk, desk')
    BY Zenon, <1>1, <2>1, FocusNew DEF NoneNew
  <2> QED BY Zenon, <1>3, <2>2
<1>6. CASE CreateWorkspace
  BY Zenon, <1>1, <1>3, <1>6, WorkspaceNew DEF CreateWorkspace
<1>7. ASSUME NEW w \in 1..MaxWindows, WindowCall(w) PROVE FreshIds
  <2>1. NoneNew(desk, desk')
    <3>1. NoneNew(desk, focus(desk, w)) /\ NoneNew(desk, minimize(desk, w))
      BY Zenon, <1>1, FocusNew, MinimizeNew
    <3>2. NoneNew(desk, maximize(desk, w)) /\ NoneNew(desk, close(desk, w))
      BY Zenon, <1>1, MaximizeNew, CloseNew
    <3>3. NoneNew(desk, restore(desk, w))
      BY Zenon, <1>1, RestoreNew
    <3> QED BY Zenon, <1>7, <3>1, <3>2, <3>3 DEF WindowCall
  <2> QED BY Zenon, <1>3, <2>1
<1>8. ASSUME NEW w \in 1..MaxWindows, NEW k \in 0..MaxWorkspaces, Move(w, k) PROVE FreshIds
  BY Zenon, <1>1, <1>3, <1>8, MoveNew DEF Move
<1>9. ASSUME NEW k \in 0..MaxWorkspaces, WorkspaceCall(k) PROVE FreshIds
  <2>1. NoneNew(desk, desk')
    BY Zenon, <1>1, <1>9, WorkspaceNew, ActivateNew DEF WorkspaceCall
  <2> QED BY Zenon, <1>3, <2>1
<1>10. CASE UNCHANGED desk
  BY Zenon, <1>3, <1>10 DEF NoneNew
<1> QED BY Zenon, <1>4, <1>5, <1>6, <1>7, <1>8, <1>9, <1>10 DEF WsNext

(* An id that a caller still holds after its window was closed never comes  *)
(* to name another window: for any number of windows and workspaces, a      *)
(* closed window stays closed whatever calls follow.                        *)
THEOREM ClosedIdsStayClosed ==
    ASSUME NEW w \in Nat
    PROVE  WsSpec => [](Closed(w) => []Closed(w))
<1>1. WsInv /\ Closed(w) /\ [WsNext]_desk => Closed(w)'
  <2> SUFFICES ASSUME WsInv, Closed(w), [WsNext]_desk PROVE Closed(w)'
    OBVIOUS
  <2>1. FreshIds
    BY Zenon, StepIsFresh
  <2>2. desk.next_id \in Nat /\ desk'.next_id \in Nat
    <3>1. WsInv'
      BY Zenon, WsStepKeeps
    <3> QED BY Zenon, <3>1 DEF WsInv, WmInv, WmTables, WindowsOk
  <2>3. w <= desk.next_id /\ w \notin Ids(desk)
    BY Zenon DEF Closed
  <2>4. w <= desk'.next_id /\ ~ (desk.next_id < w)
    BY <2>1, <2>2, <2>3 DEF FreshIds
  <2>5. w \notin Ids(desk')
    BY Zenon, <2>1, <2>3, <2>4 DEF FreshIds
  <2> QED BY Zenon, <2>4, <2>5 DEF Closed
<1>2. WsInit => WsInv
  BY Zenon, NewKeeps DEF WsInit, WsInv
<1> QED BY <1>1, <1>2, WsStepKeeps, PTL DEF WsSpec
=============================================================================
