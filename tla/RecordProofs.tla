---------------------------- MODULE RecordProofs ----------------------------
(***************************************************************************)
(* Proofs about what is recorded and handed out: the audit log and its     *)
(* chain (ControlDaemon), the store's records (AppStore) and the order of  *)
(* spoken replies (VoiceSession).  The parts share no state: each has its  *)
(* own invariant and its own specification.                                *)
(***************************************************************************)
EXTENDS ControlDaemon, AppStore, VoiceSession, WellFoundedInduction, TLAPS

(* The control daemon and its audit log (ControlDaemon, AuditChain).        *)

(* A nonempty set of naturals has a least member.                           *)
LEMMA LeastNat ==
    ASSUME NEW T \in SUBSET Nat, T # {}
    PROVE  \E m \in T : \A n \in T : m <= n
<1>1. PICK m \in T : \A n \in T : ~(<<n, m>> \in OpToRel(<, Nat))
  BY Zenon, NatLessThanWellFounded, WFMin
<1>2. \A n \in T : ~ (n < m)
  BY Zenon, <1>1 DEF OpToRel
<1> QED BY <1>2

(* The log is a sequence of entries whose hashes are left open.             *)
IsSeq(s) == \E S : s \in Seq(S)

(* Vec::push and Vec::remove(0).                                            *)
LEMMA SeqPush ==
    ASSUME NEW s, IsSeq(s), NEW x
    PROVE  /\ IsSeq(Append(s, x)) /\ Len(Append(s, x)) = Len(s) + 1 /\ Len(s) \in Nat
           /\ Append(s, x)[Len(s) + 1] = x
           /\ \A i \in 1..Len(s) : Append(s, x)[i] = s[i]
<1>1. PICK S : s \in Seq(S)
  BY DEF IsSeq
<1> DEFINE U == S \union {x}
<1>2. DOMAIN s = 1..Len(s) /\ Len(s) \in Nat /\ \A i \in 1..Len(s) : s[i] \in S
  BY <1>1
<1>3. s = [i \in 1..Len(s) |-> s[i]]
  BY <1>1
<1>4. s \in [1..Len(s) -> U]
  BY <1>2, <1>3
<1>5. s \in Seq(U) /\ x \in U
  BY <1>2, <1>4
<1> HIDE DEF U
<1>6. Append(s, x) \in Seq(U)
  BY <1>5
<1>7. /\ Len(Append(s, x)) = Len(s) + 1 /\ Append(s, x)[Len(s) + 1] = x
      /\ \A i \in 1..Len(s) : Append(s, x)[i] = s[i]
  BY <1>5
<1> QED BY <1>2, <1>6, <1>7 DEF IsSeq

(* What is left of a sequence from some place on.                           *)
Left(s, d, r) == /\ IsSeq(r) /\ d \in 0..Len(s) /\ Len(r) = Len(s) - d
                 /\ \A i \in 1..Len(r) : r[i] = s[i + d]

(* Everything is left from the start on.                                    *)
LEMMA LeftAll == ASSUME NEW s, IsSeq(s) PROVE Left(s, 0, s) /\ Len(s) \in Nat
<1>1. Len(s) \in Nat
  BY DEF IsSeq
<1> QED BY <1>1 DEF Left

(* The tail of a sequence is what is left after its first entry.            *)
LEMMA LeftTail ==
    ASSUME NEW s, IsSeq(s), Len(s) >= 1
    PROVE  Left(s, 1, Tail(s))
<1>1. PICK S : s \in Seq(S)
  BY DEF IsSeq
<1>2. Tail(s) \in Seq(S) /\ Len(Tail(s)) = Len(s) - 1 /\ Len(s) \in Nat
  BY <1>1
<1>3. \A i \in 1..Len(s) - 1 : Tail(s)[i] = s[i + 1]
  BY <1>1
<1> QED BY <1>2, <1>3 DEF Left, IsSeq

(* The entries from place k on are what is left there.                      *)
LEMMA LeftSubSeq ==
    ASSUME NEW s, IsSeq(s), NEW k \in 1..Len(s)
    PROVE  Left(s, k - 1, SubSeq(s, k, Len(s)))
<1>1. PICK S : s \in Seq(S)
  BY DEF IsSeq
<1> DEFINE r == SubSeq(s, k, Len(s))
<1>2. r \in Seq(S) /\ Len(r) = Len(s) - k + 1 /\ Len(s) \in Nat
  BY <1>1
<1>3. \A i \in 1..(Len(s) - k + 1) : r[i] = s[k + i - 1]
  BY <1>1, <1>2
<1> HIDE DEF r
<1>4. Len(r) = Len(s) - (k - 1) /\ k - 1 \in 0..Len(s)
  BY <1>2
<1>5. \A i \in 1..Len(r) : r[i] = s[i + (k - 1)]
  <2> TAKE i \in 1..Len(r)
  <2>1. k + i - 1 = i + (k - 1) /\ i \in 1..(Len(s) - k + 1)
    BY <1>2
  <2> QED BY <1>3, <2>1
<1>6. IsSeq(r)
  BY <1>2 DEF IsSeq
<1> QED BY <1>4, <1>5, <1>6 DEF Left, r

(* The chain of hashes that Restamp computes.                               *)
Link(e, h, n) == IF n = 0 THEN Genesis ELSE Hash(n - 1, e[n].ts, e[n].what, h[n - 1])

(* The chain of hashes exists for a log of any length, so that the          *)
(* recursive definition in Restamp is the one function it describes.        *)
LEMMA HashesAreDefined ==
    ASSUME NEW e, NEW len \in Nat
    PROVE  \E h : h = [n \in 0..len |-> Link(e, h, n)]
<1> DEFINE Upto(k) == \E h : h = [n \in 0..k |-> Link(e, h, n)]
           T == {k \in Nat : ~ Upto(k)}
<1>1. T = {}
  <2> SUFFICES ASSUME T # {} PROVE FALSE
    OBVIOUS
  <2>1. PICK k \in T : \A n \in T : k <= n
    <3>1. T \in SUBSET Nat
      OBVIOUS
    <3> HIDE DEF T
    <3> QED BY <3>1, LeastNat
  <2>2. CASE k = 0
    <3> DEFINE g == [n \in 0..0 |-> Genesis]
    <3>1. g = [n \in 0..0 |-> Link(e, g, n)]
      BY DEF Link
    <3> QED BY <2>1, <2>2, <3>1
  <2>3. CASE k # 0
    <3>1. k \in Nat /\ k - 1 \in Nat /\ k - 1 \notin T
      <4>1. k \in Nat
        OBVIOUS
      <4> HIDE DEF T
      <4> QED BY <2>1, <2>3, <4>1
    <3>2. PICK h : h = [n \in 0..(k - 1) |-> Link(e, h, n)]
      BY <3>1
    <3> DEFINE g == [n \in 0..k |-> Link(e, h, n)]
    <3>3. \A n \in 0..(k - 1) : g[n] = h[n]
      <4> SUFFICES ASSUME NEW n \in 0..(k - 1) PROVE g[n] = h[n]
        BY Zenon
      <4>1. h[n] = Link(e, h, n)
        BY Zenon, <3>2
      <4>2. g[n] = Link(e, h, n)
        BY <3>1
      <4> QED BY <4>1, <4>2
    <3>4. g = [n \in 0..k |-> Link(e, g, n)]
      <4>1. \A n \in 0..k : Link(e, h, n) = Link(e, g, n)
        <5> SUFFICES ASSUME NEW n \in 0..k PROVE Link(e, h, n) = Link(e, g, n)
          OBVIOUS
        <5> HIDE DEF g
        <5>1. CASE n = 0
          BY Zenon, <5>1 DEF Link
        <5>2. CASE n # 0
          <6>1. n - 1 \in 0..(k - 1)
            BY <3>1, <5>2
          <6>2. g[n - 1] = h[n - 1]
            BY Zenon, <3>3, <6>1
          <6> QED BY <6>2 DEF Link
        <5> QED BY <5>1, <5>2
      <4> QED BY <4>1
    <3> QED BY Zenon, <2>1, <3>4
  <2> QED BY <2>2, <2>3
<1> QED BY <1>1

(* prune's loop: the entries stay, and the chain verifies.                  *)
LEMMA RestampVerifies ==
    ASSUME NEW e, IsSeq(e)
    PROVE  /\ IsSeq(Restamp(e)) /\ Len(Restamp(e)) = Len(e)
           /\ \A i \in 1..Len(e) : /\ Restamp(e)[i].ts = e[i].ts
                                   /\ Restamp(e)[i].what = e[i].what
                                   /\ Restamp(e)[i].index = i - 1
           /\ Verifies(Restamp(e))
<1> DEFINE h == CHOOSE h : h = [n \in 0..Len(e) |->
                     IF n = 0 THEN Genesis ELSE Hash(n - 1, e[n].ts, e[n].what, h[n - 1])]
           r == Restamp(e)
<1>1. Len(e) \in Nat
  BY DEF IsSeq
<1>2. h = [n \in 0..Len(e) |->
              IF n = 0 THEN Genesis ELSE Hash(n - 1, e[n].ts, e[n].what, h[n - 1])]
  <2>1. \E g : g = [n \in 0..Len(e) |->
              IF n = 0 THEN Genesis ELSE Hash(n - 1, e[n].ts, e[n].what, g[n - 1])]
    BY Zenon, <1>1, HashesAreDefined DEF Link
  <2> QED BY Zenon, <2>1
<1>3. r = [i \in 1..Len(e) |-> Stamp(i - 1, e[i].ts, e[i].what, h[i - 1])]
  BY DEF Restamp
<1> HIDE DEF h, r
<1>4. DOMAIN r = 1..Len(e)
  BY <1>3
<1>5. IsSeq(r) /\ Len(r) = Len(e)
  <2>1. r \in [1..Len(e) -> {r[i] : i \in 1..Len(e)}]
    BY <1>3
  <2>2. r \in Seq({r[i] : i \in 1..Len(e)})
    BY <1>1, <2>1
  <2>3. Len(r) = Len(e)
    BY <1>1, <1>4, <2>2
  <2> QED BY <2>2, <2>3 DEF IsSeq
<1>6. ASSUME NEW i \in 1..Len(e)
      PROVE  /\ r[i].ts = e[i].ts /\ r[i].what = e[i].what /\ r[i].index = i - 1
             /\ r[i].prev = h[i - 1] /\ r[i].hash = Hash(i - 1, e[i].ts, e[i].what, h[i - 1])
             /\ h[i] = r[i].hash
  <2>1. r[i] = Stamp(i - 1, e[i].ts, e[i].what, h[i - 1])
    BY Zenon, <1>3
  <2>2. h[i] = Hash(i - 1, e[i].ts, e[i].what, h[i - 1])
    BY <1>1, <1>2
  <2> QED BY <2>1, <2>2 DEF Stamp
<1>7. h[0] = Genesis
  BY <1>1, <1>2
<1>8. Verifies(r)
  <2> SUFFICES ASSUME NEW i \in 1..Len(e)
               PROVE  /\ r[i].index = i - 1
                      /\ r[i].prev = IF i = 1 THEN Genesis ELSE r[i - 1].hash
                      /\ r[i].hash = Hash(r[i].index, r[i].ts, r[i].what, r[i].prev)
    BY Zenon, <1>4 DEF Verifies
  <2>1. CASE i = 1
    BY <1>6, <1>7, <2>1
  <2>2. CASE i # 1
    <3>1. i - 1 \in 1..Len(e)
      BY <1>1, <2>2
    <3>2. h[i - 1] = r[i - 1].hash
      BY Zenon, <1>6, <3>1
    <3> QED BY <1>6, <2>2, <3>2
  <2> QED BY Zenon, <2>1, <2>2
<1> QED BY Zenon, <1>5, <1>6, <1>8 DEF r

-----------------------------------------------------------------------------
(* The log c, the history h of what was recorded and whether an eviction    *)
(* has cut the chain (b).  A cut chain is one whose indices start after 0,  *)
(* so that it fails whatever the hashes are.                                *)
IsEndOf(c, h) == \A i \in 1..Len(c) : <<c[i].ts, c[i].what>> = h[Len(h) - Len(c) + i]

LogInv(c, h, b) ==
    /\ IsSeq(c) /\ IsSeq(h)
    /\ Len(c) <= MaxEntries /\ Len(c) <= Len(h)
    /\ \A i \in 1..Len(c) : c[i].ts \in Nat /\ c[i].index \in Nat
    /\ IsEndOf(c, h)
    /\ ~ b => Verifies(c)
    /\ b => MaxEntries > 1 /\ Len(c) > 0 /\ \A i \in 1..Len(c) : c[i].index >= 1

(* The oldest entry goes at the cap.                                        *)
LEMMA EvictLeaves ==
    ASSUME NEW c, IsSeq(c), Len(c) <= MaxEntries
    PROVE  /\ Len(c) >= MaxEntries => Left(c, 1, Evict(c))
           /\ Len(c) < MaxEntries => Left(c, 0, Evict(c)) /\ Evict(c) = c
<1>1. Len(c) \in Nat /\ Left(c, 0, c) /\ MaxEntries \in Nat \ {0}
  BY LeftAll, RetentionAssumption
<1>2. CASE Len(c) >= MaxEntries
  <2>1. Left(c, 1, Tail(c))
    BY <1>1, <1>2, LeftTail
  <2> QED BY <1>1, <1>2, <2>1 DEF Evict
<1>3. CASE Len(c) < MaxEntries
  BY <1>1, <1>3 DEF Evict
<1> QED BY Zenon, <1>1, <1>2, <1>3

(* An entry appended with the index and the link verify_chain expects.      *)
LEMMA AppendVerifies ==
    ASSUME NEW c, IsSeq(c), Verifies(c), NEW ts, NEW what
    PROVE  Verifies(Append(c, Stamp(Len(c), ts, what, LastHash(c))))
<1> DEFINE x == Stamp(Len(c), ts, what, LastHash(c))
           r == Append(c, x)
           n == Len(c) + 1
<1>1. /\ IsSeq(r) /\ Len(r) = n /\ Len(c) \in Nat /\ r[n] = x
      /\ \A i \in 1..Len(c) : r[i] = c[i]
  BY SeqPush
<1>2. x.index = Len(c) /\ x.prev = LastHash(c) /\ x.ts = ts /\ x.what = what
        /\ x.hash = Hash(Len(c), ts, what, LastHash(c))
  BY DEF Stamp
<1>3. LastHash(c) = IF n = 1 THEN Genesis ELSE c[Len(c)].hash
  <2>1. c = <<>> <=> Len(c) = 0
    BY DEF IsSeq
  <2> QED BY <1>1, <2>1 DEF LastHash
<1> HIDE DEF x, r
<1>4. DOMAIN r = 1..n /\ DOMAIN c = 1..Len(c)
  BY <1>1 DEF IsSeq
<1> SUFFICES ASSUME NEW i \in 1..n
             PROVE  /\ r[i].index = i - 1
                    /\ r[i].prev = IF i = 1 THEN Genesis ELSE r[i - 1].hash
                    /\ r[i].hash = Hash(r[i].index, r[i].ts, r[i].what, r[i].prev)
  BY Zenon, <1>4 DEF Verifies, r, x
<1>5. CASE i = n
  <2>1. n # 1 => Len(c) \in 1..Len(c) /\ n - 1 = Len(c)
    BY <1>1
  <2>2. i - 1 = Len(c)
    BY <1>1, <1>5
  <2> QED BY Zenon, <1>1, <1>2, <1>3, <1>5, <2>1, <2>2
<1>6. CASE i # n
  <2>1. i \in 1..Len(c) /\ (i # 1 => i - 1 \in 1..Len(c))
    BY <1>1, <1>6
  <2>2. /\ c[i].index = i - 1
        /\ c[i].prev = IF i = 1 THEN Genesis ELSE c[i - 1].hash
        /\ c[i].hash = Hash(c[i].index, c[i].ts, c[i].what, c[i].prev)
    BY Zenon, <1>4, <2>1 DEF Verifies
  <2> QED BY <1>1, <2>1, <2>2
<1> QED BY Zenon, <1>5, <1>6

(* Recording an entry keeps the log the end of the history, whether it      *)
(* evicts or not (AuditLog::record).                                        *)
LEMMA RecordKeeps ==
    ASSUME NEW c, NEW h, NEW b, LogInv(c, h, b), NEW ts \in Nat, NEW what
    PROVE  LogInv(Record(c, ts, what), Append(h, <<ts, what>>), b \/ Evicts(c))
<1> DEFINE kept == Evict(c)
           x == Stamp(Len(kept), ts, what, LastHash(kept))
           r == Append(kept, x)
           g == Append(h, <<ts, what>>)
           n == Len(kept) + 1
<1>0. MaxEntries \in Nat \ {0}
  BY Zenon, RetentionAssumption
<1>a. IsSeq(c) /\ IsSeq(h) /\ Len(c) <= MaxEntries /\ Len(c) <= Len(h) /\ IsEndOf(c, h)
  BY Zenon DEF LogInv
<1>b. \A i \in 1..Len(c) : c[i].ts \in Nat /\ c[i].index \in Nat
  BY DEF LogInv
<1>c. Len(c) \in Nat /\ Len(h) \in Nat
  BY <1>a, LeftAll
<1>1. PICK d \in {0, 1} : Left(c, d, kept) /\ (d = 0 => Len(c) < MaxEntries /\ kept = c)
                            /\ (d = 1 => Len(c) >= MaxEntries)
  BY <1>0, <1>a, <1>c, EvictLeaves
<1>2. /\ IsSeq(kept) /\ Len(kept) = Len(c) - d /\ Len(kept) \in Nat
      /\ \A i \in 1..Len(kept) : kept[i] = c[i + d] /\ i + d \in 1..Len(c)
      /\ Len(kept) < MaxEntries
  BY <1>0, <1>1, <1>a, <1>c DEF Left
<1> HIDE DEF kept
<1>3. Record(c, ts, what) = r
  BY Zenon DEF Record, kept
<1>4. x.index = Len(kept) /\ x.ts = ts /\ x.what = what
  BY DEF Stamp
<1>v. ASSUME Verifies(kept) PROVE Verifies(r)
  BY Zenon, <1>2, <1>v, AppendVerifies
<1> HIDE DEF x
<1>5. /\ IsSeq(r) /\ Len(r) = n /\ r[n] = x /\ \A i \in 1..Len(kept) : r[i] = kept[i]
  BY <1>2, SeqPush
<1>6. /\ IsSeq(g) /\ Len(g) = Len(h) + 1 /\ g[Len(h) + 1] = <<ts, what>>
      /\ \A i \in 1..Len(h) : g[i] = h[i]
  BY <1>a, SeqPush
<1> HIDE DEF r, g
<1>7. \A i \in 1..n : i \in 1..Len(kept) \/ i = n
  BY <1>2
<1>8. \A i \in 1..n : r[i].ts \in Nat /\ r[i].index \in Nat
  BY Zenon, <1>2, <1>4, <1>5, <1>7, <1>b
<1>9. IsEndOf(r, g)
  <2> SUFFICES ASSUME NEW i \in 1..n PROVE <<r[i].ts, r[i].what>> = g[Len(g) - Len(r) + i]
    BY <1>5 DEF IsEndOf
  <2>1. CASE i = n
    <3>1. Len(g) - Len(r) + i = Len(h) + 1
      BY <1>2, <1>5, <1>6, <1>c, <2>1
    <3> QED BY <1>4, <1>5, <1>6, <2>1, <3>1
  <2>2. CASE i \in 1..Len(kept)
    <3>1. Len(g) - Len(r) + i = Len(h) - Len(c) + (i + d) /\ i + d \in 1..Len(c)
      BY <1>2, <1>5, <1>6, <1>c, <2>2
    <3>2. Len(h) - Len(c) + (i + d) \in 1..Len(h)
      BY <1>a, <1>c, <3>1
    <3>3. <<c[i + d].ts, c[i + d].what>> = h[Len(h) - Len(c) + (i + d)]
      BY Zenon, <1>a, <3>1 DEF IsEndOf
    <3>4. r[i] = c[i + d]
      BY Zenon, <1>2, <1>5, <2>2
    <3> QED BY Zenon, <1>6, <3>1, <3>2, <3>3, <3>4
  <2> QED BY <1>7, <2>1, <2>2
<1>10. ASSUME ~ (b \/ Evicts(c)) PROVE Verifies(r)
  <2>1. CASE d = 0
    BY Zenon, <1>1, <1>10, <1>v, <2>1 DEF LogInv
  <2>2. CASE d = 1
    <3>1. Len(kept) = 0
      BY <1>0, <1>1, <1>2, <1>10, <1>a, <1>c, <2>2 DEF Evicts
    <3>2. DOMAIN kept = {}
      BY <1>2, <3>1 DEF IsSeq
    <3>3. Verifies(kept)
      BY Zenon, <3>2 DEF Verifies
    <3> QED BY Zenon, <1>v, <3>3
  <2> QED BY Zenon, <2>1, <2>2
<1>11. ASSUME b \/ Evicts(c)
       PROVE  MaxEntries > 1 /\ Len(r) > 0 /\ \A i \in 1..Len(r) : r[i].index >= 1
  <2>1. MaxEntries > 1
    BY Zenon, <1>11 DEF Evicts, LogInv
  <2>2. ASSUME NEW i \in 1..Len(kept) PROVE c[i + d].index >= 1
    <3>1. CASE b
      BY Zenon, <1>2, <3>1 DEF LogInv
    <3>2. CASE ~ b
      <4>1. Verifies(c) /\ DOMAIN c = 1..Len(c) /\ Evicts(c)
        BY <1>11, <3>2 DEF LogInv, IsSeq
      <4>2. d = 1
        <5>1. ~ (Len(c) < MaxEntries)
          BY <1>0, <1>c, <4>1 DEF Evicts
        <5> QED BY Zenon, <1>1, <5>1
      <4>3. c[i + d].index = i
        <5>1. i + d \in DOMAIN c /\ (i + d) - 1 = i
          BY <1>2, <4>1, <4>2
        <5> QED BY Zenon, <4>1, <5>1 DEF Verifies
      <4> QED BY <4>3
    <3> QED BY Zenon, <3>1, <3>2
  <2>3. Len(kept) >= 1
    <3>1. CASE d = 0
      BY <1>0, <1>1, <1>2, <1>11, <1>c, <3>1 DEF LogInv, Evicts
    <3>2. CASE d = 1
      BY <1>0, <1>1, <1>2, <1>c, <2>1, <3>2
    <3> QED BY <3>1, <3>2
  <2>4. \A i \in 1..n : r[i].index >= 1
    BY Zenon, <1>2, <1>4, <1>5, <1>7, <2>2, <2>3
  <2>5. Len(r) = n /\ n > 0
    BY <1>2, <1>5
  <2> QED BY Zenon, <2>1, <2>4, <2>5
<1>12. Len(r) <= MaxEntries /\ Len(r) <= Len(g)
  <2>1. Len(r) = Len(kept) + 1 /\ Len(g) = Len(h) + 1 /\ Len(c) <= Len(h)
    BY Zenon, <1>5, <1>6, <1>a
  <2>2. Len(kept) = Len(c) - d /\ Len(kept) \in Nat /\ Len(kept) < MaxEntries
    BY Zenon, <1>2
  <2>3. Len(kept) + 1 <= MaxEntries /\ Len(kept) <= Len(c)
    BY <1>0, <1>c, <2>2
  <2> QED BY <1>c, <2>1, <2>2, <2>3
<1>13. LogInv(r, g, b \/ Evicts(c))
  BY <1>5, <1>6, <1>8, <1>9, <1>10, <1>11, <1>12 DEF LogInv
<1> QED BY <1>3, <1>13 DEF g

-----------------------------------------------------------------------------
(* What pruning leaves: everything from some place on, and what it drops is *)
(* older than the cutoff.                                                   *)
LEMMA KeptFromLeaves ==
    ASSUME NEW c, IsSeq(c), NEW now \in Nat, \A i \in 1..Len(c) : c[i].ts \in Nat
    PROVE  \E d \in 0..Len(c) : /\ Left(c, d, KeptFrom(c, now))
                                /\ \A i \in 1..d : c[i].ts < Cutoff(now)
                                /\ d < Len(c) => c[d + 1].ts >= Cutoff(now)
<1> DEFINE young == {i \in DOMAIN c : c[i].ts >= Cutoff(now)}
<1>0. DOMAIN c = 1..Len(c) /\ Len(c) \in Nat /\ Cutoff(now) \in Nat
  BY RetentionAssumption DEF IsSeq, Cutoff
<1>1. CASE young = {}
  <2>1. KeptFrom(c, now) = <<>>
    BY <1>1 DEF KeptFrom
  <2>2. Left(c, Len(c), <<>>)
    <3>1. IsSeq(<<>>) /\ Len(<<>>) = 0
      BY DEF IsSeq
    <3> QED BY <1>0, <3>1 DEF Left
  <2>3. \A i \in 1..Len(c) : c[i].ts < Cutoff(now)
    BY <1>0, <1>1
  <2>4. Len(c) \in 0..Len(c) /\ ~ (Len(c) < Len(c))
    BY <1>0
  <2> QED BY <2>1, <2>2, <2>3, <2>4
<1>2. CASE young # {}
  <2> DEFINE k == CHOOSE i \in young : \A j \in young : i <= j
  <2>1. KeptFrom(c, now) = SubSeq(c, k, Len(c))
    BY Zenon, <1>2 DEF KeptFrom
  <2>2. k \in young /\ \A j \in young : k <= j
    <3>1. \E i \in young : \A j \in young : i <= j
      <4>1. young \in SUBSET Nat
        BY <1>0
      <4> HIDE DEF young
      <4> QED BY <1>2, <4>1, LeastNat
    <3> QED BY <3>1
  <2> HIDE DEF k
  <2>3. k \in 1..Len(c) /\ k - 1 \in 0..Len(c)
    BY <1>0, <2>2
  <2>4. Left(c, k - 1, KeptFrom(c, now))
    BY Zenon, <2>1, <2>3, LeftSubSeq
  <2>5. \A i \in 1..(k - 1) : c[i].ts < Cutoff(now)
    <3> SUFFICES ASSUME NEW i \in 1..(k - 1) PROVE c[i].ts < Cutoff(now)
      OBVIOUS
    <3>1. i \in DOMAIN c /\ ~ (k <= i) /\ c[i].ts \in Nat
      BY <1>0, <2>3
    <3>2. ~ (c[i].ts >= Cutoff(now))
      BY Zenon, <2>2, <3>1
    <3> QED BY <1>0, <3>1, <3>2
  <2>6. c[(k - 1) + 1].ts >= Cutoff(now)
    <3>1. (k - 1) + 1 = k
      BY <2>3
    <3> QED BY Zenon, <2>2, <3>1
  <2> QED BY Zenon, <2>3, <2>4, <2>5, <2>6
<1> QED BY <1>1, <1>2

(* audit.prune at any time: the chain is left as it is or written anew.     *)
LEMMA PruneKeeps ==
    ASSUME NEW c, NEW h, NEW b, LogInv(c, h, b), NEW now \in Nat
    PROVE  /\ LogInv(Prune(c, now), h, b /\ Prune(c, now) = c /\ c # <<>>)
           /\ Prune(c, now) # c => CutAtFirstYoung(c, Prune(c, now), now)
<1> DEFINE kept == KeptFrom(c, now)
           r == Prune(c, now)
<1>a. IsSeq(c) /\ IsSeq(h) /\ Len(c) <= MaxEntries /\ Len(c) <= Len(h) /\ IsEndOf(c, h)
  BY DEF LogInv
<1>b. \A i \in 1..Len(c) : c[i].ts \in Nat /\ c[i].index \in Nat
  BY DEF LogInv
<1>c. Len(c) \in Nat /\ Len(h) \in Nat
  BY <1>a, LeftAll
<1>1. CASE MaxAge = 0 \/ Len(kept) = Len(c)
  <2>1. r = c
    BY Zenon, <1>1 DEF Prune
  <2>2. b => c # <<>>
    BY DEF LogInv
  <2>3. LogInv(c, h, b /\ c # <<>>)
    BY <2>2 DEF LogInv
  <2> HIDE DEF r
  <2>4. LogInv(r, h, b /\ r = c /\ c # <<>>)
    BY Zenon, <2>1, <2>3 DEF LogInv
  <2> QED BY <2>1, <2>4 DEF r
<1>2. CASE ~ (MaxAge = 0 \/ Len(kept) = Len(c))
  <2>1. r = Restamp(kept)
    BY Zenon, <1>2 DEF Prune
  <2>2. PICK d \in 0..Len(c) : /\ Left(c, d, kept) /\ \A i \in 1..d : c[i].ts < Cutoff(now)
                               /\ d < Len(c) => c[d + 1].ts >= Cutoff(now)
    BY Zenon, <1>a, <1>b, KeptFromLeaves
  <2> HIDE DEF kept
  <2>3. /\ IsSeq(kept) /\ Len(kept) = Len(c) - d /\ Len(kept) \in Nat
        /\ \A i \in 1..Len(kept) : kept[i] = c[i + d] /\ i + d \in 1..Len(c)
    <3>1. Left(c, d, kept)
      BY Zenon, <2>2
    <3> QED BY <1>c, <3>1 DEF Left
  <2>4. /\ IsSeq(r) /\ Len(r) = Len(kept) /\ Verifies(r)
        /\ \A i \in 1..Len(kept) : /\ r[i].ts = kept[i].ts /\ r[i].what = kept[i].what
                                   /\ r[i].index = i - 1
    BY <2>1, <2>3, RestampVerifies
  <2> HIDE DEF r
  <2>5. r # c
    BY Zenon, <1>2, <2>4
  <2>6. \A i \in 1..Len(r) : r[i].ts \in Nat /\ r[i].index \in Nat
    <3> SUFFICES ASSUME NEW i \in 1..Len(r) PROVE r[i].ts \in Nat /\ r[i].index \in Nat
      OBVIOUS
    <3>1. i \in 1..Len(kept) /\ i - 1 \in Nat
      BY <2>3, <2>4
    <3>2. r[i].ts = kept[i].ts /\ r[i].index = i - 1
      BY Zenon, <2>4, <3>1
    <3>3. kept[i] = c[i + d] /\ i + d \in 1..Len(c)
      BY Zenon, <2>3, <3>1
    <3>4. c[i + d].ts \in Nat
      BY Zenon, <1>b, <3>3
    <3> QED BY <3>1, <3>2, <3>3, <3>4, Zenon
  <2>7. IsEndOf(r, h)
    <3> SUFFICES ASSUME NEW i \in 1..Len(r)
                 PROVE  <<r[i].ts, r[i].what>> = h[Len(h) - Len(r) + i]
      BY DEF IsEndOf
    <3>1. Len(h) - Len(r) + i = Len(h) - Len(c) + (i + d) /\ i + d \in 1..Len(c)
      BY <1>c, <2>3, <2>4
    <3>2. <<c[i + d].ts, c[i + d].what>> = h[Len(h) - Len(c) + (i + d)]
      BY Zenon, <1>a, <3>1 DEF IsEndOf
    <3>3. r[i].ts = c[i + d].ts /\ r[i].what = c[i + d].what
      BY Zenon, <2>3, <2>4
    <3> QED BY Zenon, <3>1, <3>2, <3>3
  <2>8. Len(r) <= MaxEntries /\ Len(r) <= Len(h)
    BY <1>a, <1>c, <2>3, <2>4, RetentionAssumption
  <2>9. LogInv(r, h, b /\ r = c /\ c # <<>>)
    BY Zenon, <1>a, <2>4, <2>5, <2>6, <2>7, <2>8 DEF LogInv
  <2>10. \A i \in 1..(Len(c) - Len(r)) : c[i].ts + MaxAge < now
    <3> SUFFICES ASSUME NEW i \in 1..(Len(c) - Len(r)) PROVE c[i].ts + MaxAge < now
      OBVIOUS
    <3>1. i \in 1..d /\ i \in 1..Len(c)
      BY <1>c, <2>3, <2>4
    <3>2. c[i].ts \in Nat /\ c[i].ts < Cutoff(now)
      BY <1>b, <2>2, <3>1
    <3> QED BY <3>2, RetentionAssumption DEF Cutoff
  <2>11. r # <<>> => r[1].ts + MaxAge >= now
    <3> SUFFICES ASSUME r # <<>> PROVE r[1].ts + MaxAge >= now
      OBVIOUS
    <3>1. 1 \in 1..Len(kept) /\ d < Len(c) /\ 1 + d = d + 1
      BY <1>c, <2>3, <2>4 DEF IsSeq
    <3>2. r[1].ts = kept[1].ts
      BY Zenon, <2>4, <3>1
    <3>3. kept[1] = c[d + 1] /\ d + 1 \in 1..Len(c)
      BY Zenon, <2>3, <3>1
    <3>4. c[d + 1].ts >= Cutoff(now) /\ c[d + 1].ts \in Nat
      BY Zenon, <1>b, <2>2, <3>1, <3>3
    <3> DEFINE t == c[d + 1].ts
    <3>5. r[1].ts = t /\ t >= Cutoff(now) /\ t \in Nat
      BY Zenon, <3>2, <3>3, <3>4
    <3> HIDE DEF t
    <3> QED BY <3>5, RetentionAssumption DEF Cutoff
  <2>12. CutAtFirstYoung(c, r, now)
    BY Zenon, <2>10, <2>11 DEF CutAtFirstYoung
  <2> QED BY <2>9, <2>12 DEF r
<1> QED BY Zenon, <1>1, <1>2

(* The daemon: the log, and the services once the loop has ended.           *)
CdInv == LogInv(chain, hist, broken) /\ EndedMeansStopped /\ (shutting_down => conn = "none")

(* What a request leaves in the log.                                        *)
LEMMA AuditKeeps ==
    ASSUME LogInv(chain, hist, broken), NEW command, NEW allowed \in BOOLEAN,
           Audit(command, allowed)
    PROVE  /\ LogInv(chain', hist', broken')
           /\ hist' = hist => chain' = chain
<1> DEFINE log == [chain |-> chain, hist |-> hist, broken |-> broken]
<1> DEFINE Good(l) == LogInv(l.chain, l.hist, l.broken) /\ Len(hist) <= Len(l.hist)
                        /\ (Len(hist) = Len(l.hist) => l.chain = chain)
<1>0. PICK gated \in gate(log, allowed) : \E after \in audited(gated, command, allowed) :
          chain' = after.chain /\ hist' = after.hist /\ broken' = after.broken
  BY Zenon DEF Audit
<1>1. PICK after \in audited(gated, command, allowed) :
          chain' = after.chain /\ hist' = after.hist /\ broken' = after.broken
  BY Zenon, <1>0
<1>2. \A ts \in Times : ts \in Nat
  BY Zenon, DaemonAssumption
<1>3. log.chain = chain /\ log.hist = hist /\ log.broken = broken
  BY Zenon
<1>4. Good(log)
  <2>1. LogInv(log.chain, log.hist, log.broken)
    BY <1>3, Zenon
  <2>2. Len(hist) \in Nat
    BY Zenon, LeftAll DEF LogInv
  <2>3. log.hist = hist /\ log.chain = chain
    BY Zenon, <1>3
  <2> HIDE DEF log
  <2> QED BY <2>1, <2>2, <2>3
<1> HIDE DEF log
<1>5. ASSUME NEW l, Good(l), NEW ts \in Nat, NEW what
      PROVE  Good(record_audit(l, ts, what))
  <2> DEFINE n == record_audit(l, ts, what)
  <2>1. n.chain = Record(l.chain, ts, what) /\ n.hist = Append(l.hist, <<ts, what>>)
          /\ n.broken = (l.broken \/ Evicts(l.chain))
    BY Zenon DEF record_audit
  <2>2. LogInv(Record(l.chain, ts, what), Append(l.hist, <<ts, what>>), l.broken \/ Evicts(l.chain))
    BY <1>5, RecordKeeps
  <2>3. Len(Append(l.hist, <<ts, what>>)) = Len(l.hist) + 1 /\ Len(l.hist) \in Nat /\ Len(hist) \in Nat
    BY Zenon, <1>5, SeqPush, LeftAll DEF LogInv
  <2> QED BY <1>5, <2>1, <2>2, <2>3
<1> HIDE DEF Good
<1>6. Good(gated)
  <2>1. gated = log \/ \E ts \in Times : gated = record_audit(log, ts, "denied")
    BY Zenon DEF gate
  <2> QED BY Zenon, <1>2, <1>4, <1>5, <2>1
<1>7. Good(after)
  <2>1. after = gated \/ \E ts \in Times, what \in {"success", "failure"} :
                             after = record_audit(gated, ts, what)
    BY DEF audited
  <2> QED BY Zenon, <1>2, <1>5, <1>6, <2>1
<1> QED BY Zenon, <1>1, <1>7 DEF Good

(* Every step of the daemon keeps the invariant.                            *)
LEMMA CdStepKeeps ==
    CdInv /\ [CdNext]_cdVars => CdInv'
<1> SUFFICES ASSUME CdInv, [CdNext]_cdVars PROVE CdInv'
  OBVIOUS
<1>1. ASSUME NEW command, NEW t, Request(command, t) PROVE CdInv'
  <2>1. ~ shutting_down /\ ~ shutting_down'
    BY Zenon, <1>1 DEF Request, CdInv
  <2>2. LogInv(chain', hist', broken')
    <3>1. CASE Audit(command, TRUE) \/ Audit(command, FALSE)
      BY Zenon, <3>1, AuditKeeps DEF CdInv
    <3>2. CASE UNCHANGED <<chain, hist, broken>>
      BY <3>2 DEF CdInv
    <3>3. CASE HandlePrune(command)
      <4>1. PICK now \in Times : /\ chain' = Prune(chain, now) /\ hist' = hist
                                 /\ broken' = (broken /\ chain' = chain /\ chain # <<>>)
        BY <3>3 DEF HandlePrune
      <4>2. now \in Nat
        BY Zenon, DaemonAssumption
      <4>3. LogInv(Prune(chain, now), hist, broken /\ Prune(chain, now) = chain /\ chain # <<>>)
        BY Zenon, <4>2, PruneKeeps DEF CdInv
      <4> QED BY <4>1, <4>3, Zenon
    <3> QED BY Zenon, <1>1, <3>1, <3>2, <3>3 DEF Request, HandleServices, HandleOther
  <2> QED BY <2>1, <2>2 DEF CdInv, EndedMeansStopped
<1>2. CASE Connect
  BY <1>2 DEF Connect, CdInv, EndedMeansStopped
<1>3. CASE Disconnect
  BY Zenon, <1>3 DEF Disconnect, CdInv, EndedMeansStopped
<1>4. CASE UNCHANGED cdVars
  BY Zenon, <1>4 DEF cdVars, CdInv, EndedMeansStopped
<1> QED BY Zenon, <1>1, <1>2, <1>3, <1>4 DEF CdNext

(* The history h ends with the log, so a step that records nothing pruned   *)
(* or left the log alone.                                                   *)
LEMMA StepCuts ==
    CdInv /\ [CdNext]_cdVars => [hist' = hist /\ chain' # chain =>
        \E now \in Times : CutAtFirstYoung(chain, chain', now)]_cdVars
<1> SUFFICES ASSUME CdInv, CdNext, hist' = hist, chain' # chain
             PROVE  \E now \in Times : CutAtFirstYoung(chain, chain', now)
  BY DEF cdVars
<1>1. ASSUME NEW command, HandlePrune(command)
      PROVE  \E now \in Times : CutAtFirstYoung(chain, chain', now)
  <2>1. PICK now \in Times : chain' = Prune(chain, now)
    BY <1>1 DEF HandlePrune
  <2>2. now \in Nat
    BY Zenon, DaemonAssumption
  <2>3. CutAtFirstYoung(chain, Prune(chain, now), now)
    BY Zenon, <2>1, <2>2, PruneKeeps DEF CdInv
  <2> QED BY Zenon, <2>1, <2>3
<1>2. ASSUME NEW command, Audit(command, TRUE) \/ Audit(command, FALSE) PROVE FALSE
  BY Zenon, <1>2, AuditKeeps DEF CdInv
<1> QED BY Zenon, <1>1, <1>2 DEF CdNext, Connect, Disconnect, Request, HandleServices, HandleOther

(* The log starts empty and whole.                                          *)
LEMMA CdStart == CdInit => CdInv
<1> SUFFICES ASSUME CdInit PROVE CdInv
  OBVIOUS
<1>1. chain = <<>> /\ hist = <<>> /\ ~ broken /\ ~ shutting_down
  BY DEF CdInit
<1>2. IsSeq(<<>>) /\ Len(<<>>) = 0 /\ DOMAIN <<>> = {}
  BY DEF IsSeq
<1>3. LogInv(chain, hist, broken)
  BY <1>1, <1>2, RetentionAssumption DEF LogInv, IsEndOf, Verifies
<1> QED BY <1>1, <1>3 DEF CdInv, EndedMeansStopped

(* The invariant of the control daemon, for every cap, every retention and  *)
(* any clients.                                                             *)
LEMMA CdAlways == CdSpec => []CdInv
BY CdStart, CdStepKeeps, PTL DEF CdSpec

(* Two entries say the same: all the fields that are hashed, and the hash.  *)
SameEntry(e, f) ==
    e.index = f.index /\ e.ts = f.ts /\ e.what = f.what /\ e.prev = f.prev /\ e.hash = f.hash

(* No entry of c and no entry of d that differ have the same hash.          *)
NoCollision(c, d) ==
    \A i \in DOMAIN c, j \in DOMAIN d :
        Hash(c[i].index, c[i].ts, c[i].what, c[i].prev)
            = Hash(d[j].index, d[j].ts, d[j].what, d[j].prev)
        => /\ c[i].index = d[j].index /\ c[i].ts = d[j].ts
           /\ c[i].what = d[j].what /\ c[i].prev = d[j].prev

(* verify_chain recomputes every hash: entries with the same hash, of which *)
(* no two collide, are the same.                                            *)
LEMMA HashPinsEntry ==
    ASSUME NEW c, NEW d, Verifies(c), Verifies(d), NoCollision(c, d),
           NEW i \in DOMAIN c, NEW j \in DOMAIN d, c[i].hash = d[j].hash
    PROVE  SameEntry(c[i], d[j])
<1>1. /\ c[i].hash = Hash(c[i].index, c[i].ts, c[i].what, c[i].prev)
      /\ d[j].hash = Hash(d[j].index, d[j].ts, d[j].what, d[j].prev)
  BY Zenon DEF Verifies
<1>2. Hash(c[i].index, c[i].ts, c[i].what, c[i].prev)
         = Hash(d[j].index, d[j].ts, d[j].what, d[j].prev)
  BY Zenon, <1>1
<1>3. /\ c[i].index = d[j].index /\ c[i].ts = d[j].ts
      /\ c[i].what = d[j].what /\ c[i].prev = d[j].prev
  BY Zenon, <1>2 DEF NoCollision
<1> QED BY Zenon, <1>3 DEF SameEntry

(* What makes the log tamper-evident: two logs that verify_chain accepts    *)
(* and that end in the same hash have the same length and the same entries, *)
(* unless two of their entries collide.  The last hash of a log therefore   *)
(* vouches for every entry, whatever the hash function and the length.      *)
THEOREM LastHashPinsTheLog ==
    ASSUME NEW c, IsSeq(c), NEW d, IsSeq(d), Len(c) > 0, Len(d) > 0,
           Verifies(c), Verifies(d), NoCollision(c, d), LastHash(c) = LastHash(d)
    PROVE  Len(c) = Len(d) /\ \A i \in 1..Len(c) : SameEntry(c[i], d[i])
<1>1. /\ Len(c) \in Nat /\ DOMAIN c = 1..Len(c) /\ c # <<>>
      /\ Len(d) \in Nat /\ DOMAIN d = 1..Len(d) /\ d # <<>>
  BY DEF IsSeq
<1>2. Len(c) \in DOMAIN c /\ Len(d) \in DOMAIN d
  BY <1>1
<1>3. c[Len(c)].hash = d[Len(d)].hash
  BY Zenon, <1>1 DEF LastHash
<1>4. SameEntry(c[Len(c)], d[Len(d)])
  <2>1. \A i \in DOMAIN c, j \in DOMAIN d : c[i].hash = d[j].hash => SameEntry(c[i], d[j])
    BY Zenon, HashPinsEntry
  <2> QED BY Zenon, <1>2, <1>3, <2>1
<1>5. Len(c) = Len(d)
  <2>1. \A e : Verifies(e) /\ Len(e) \in DOMAIN e => e[Len(e)].index = Len(e) - 1
    BY Zenon DEF Verifies
  <2>2. Len(c) - 1 = Len(d) - 1
    BY Zenon, <1>2, <1>4, <2>1 DEF SameEntry
  <2>3. \A x, y \in Nat : x - 1 = y - 1 => x = y
    OBVIOUS
  <2> QED BY Zenon, <1>1, <2>2, <2>3
<1> DEFINE n == Len(c)
           T == {k \in 0..(n - 1) : ~ SameEntry(c[n - k], d[n - k])}
<1>6. T = {}
  <2> SUFFICES ASSUME T # {} PROVE FALSE
    OBVIOUS
  <2>1. T \in SUBSET Nat
    BY <1>1
  <2>2. PICK k \in T : \A m \in T : k <= m
    BY Zenon, <2>1, LeastNat
  <2>3. k \in Nat /\ k <= n - 1 /\ ~ SameEntry(c[n - k], d[n - k])
    BY <1>1, <2>2
  <2>4. k # 0
    <3>1. n - 0 = n
      BY <1>1
    <3> QED BY Zenon, <1>4, <1>5, <2>3, <3>1
  <2>5. k - 1 \in 0..(n - 1) /\ ~ (k <= k - 1)
    BY <1>1, <2>3, <2>4
  <2> DEFINE i == n - k
  <2>6. /\ n - (k - 1) = i + 1 /\ (i + 1) - 1 = i /\ i + 1 # 1
        /\ i \in DOMAIN c /\ i + 1 \in DOMAIN c /\ i \in DOMAIN d /\ i + 1 \in DOMAIN d
    BY <1>1, <1>5, <2>3, <2>4
  <2>7. SameEntry(c[i + 1], d[i + 1])
    <3>1. SameEntry(c[n - (k - 1)], d[n - (k - 1)])
      BY Zenon, <2>2, <2>5
    <3> QED BY Zenon, <2>6, <3>1
  <2> HIDE DEF i, T, n
  <2>8. c[i + 1].prev = c[i].hash /\ d[i + 1].prev = d[i].hash
    <3>1. \A e : Verifies(e) /\ i + 1 \in DOMAIN e => e[i + 1].prev = e[(i + 1) - 1].hash
      BY <2>6 DEF Verifies
    <3> QED BY Zenon, <2>6, <3>1
  <2>9. c[i].hash = d[i].hash
    BY Zenon, <2>7, <2>8 DEF SameEntry
  <2>10. SameEntry(c[i], d[i])
    BY Zenon, <2>6, <2>9, HashPinsEntry
  <2> QED BY Zenon, <2>3, <2>10 DEF i
<1>7. ASSUME NEW i \in 1..n PROVE SameEntry(c[i], d[i])
  <2>1. n - i \in 0..(n - 1) /\ n - (n - i) = i
    BY <1>1
  <2>2. n - i \notin T
    BY Zenon, <1>6
  <2>3. SameEntry(c[n - (n - i)], d[n - (n - i)])
    BY Zenon, <2>1, <2>2
  <2> QED BY Zenon, <2>1, <2>3
<1> QED BY Zenon, <1>5, <1>7

(* For any cap, any age and any hash: verification fails exactly from an    *)
(* eviction to the next pruning that drops something.                       *)
THEOREM VerifyFailsAfterEviction == CdSpec => []VerifyTellsEviction
<1>1. CdInv => VerifyTellsEviction
  <2> SUFFICES ASSUME CdInv, broken, Verifies(chain) PROVE FALSE
    BY Zenon DEF CdInv, LogInv, VerifyTellsEviction
  <2>1. /\ Len(chain) > 0 /\ \A i \in 1..Len(chain) : chain[i].index >= 1
        /\ Len(chain) \in Nat /\ DOMAIN chain = 1..Len(chain)
    BY DEF CdInv, LogInv, IsSeq
  <2>2. chain[1].index = 0 /\ 1 \in 1..Len(chain)
    BY <2>1 DEF Verifies
  <2> QED BY <2>1, <2>2
<1> QED BY <1>1, CdAlways, PTL

(* The log is the tail of what was recorded, within its cap.                *)
THEOREM LogKeepsRecentHistory == CdSpec => []LogIsRecentHistory
<1>1. CdInv => LogIsRecentHistory
  <2> SUFFICES ASSUME CdInv PROVE LogIsRecentHistory
    OBVIOUS
  <2>1. DOMAIN chain = 1..Len(chain)
    BY DEF CdInv, LogInv, IsSeq
  <2> QED BY Zenon, <2>1 DEF CdInv, LogInv, IsEndOf, LogIsRecentHistory
<1> QED BY <1>1, CdAlways, PTL

(* A loop that has ended has stopped every service.                         *)
THEOREM EndStopsServices == CdSpec => []EndedMeansStopped
<1>1. CdInv => EndedMeansStopped
  BY DEF CdInv
<1> QED BY <1>1, CdAlways, PTL

(* Pruning cuts the log right before its first young entry, whatever the    *)
(* cap, the age and the order of the timestamps.                            *)
THEOREM PruningCutsAtFirstYoung == CdSpec => PruneCutsAtFirstYoung
BY CdAlways, StepCuts, PTL DEF CdSpec, PruneCutsAtFirstYoung

-----------------------------------------------------------------------------
(* The application store (AppStore): its records stay true through failed   *)
(* writes, crashes and installs of the same application again, for any      *)
(* publishers and any number of installs.                                   *)

AnyPackage == [number : Nat, publisher : Publishers \union {"nobody"}]

(* The receipt is the last file of an install: a receipt on disk is that of *)
(* an install that has returned.  While an install writes, nothing is       *)
(* listed; what is listed is what the files say; a cached payload belongs   *)
(* to the entry and to one finished install.                                *)
StoreInv ==
    /\ attempts \in Nat
    /\ store_files \in [RecordFiles -> AnyPackage]
    /\ persisting \in AnyPackage
    /\ written_files \in 0..2
    /\ store_files["install"] = NoPackage \/ store_files["install"] \in receipts
    /\ NoPackage \notin receipts
    /\ ~ Idle => installed = NoEntry /\ payload = NoPackage /\ persisting.number > 0
    /\ ~ Idle => \A i \in 1..written_files : store_files[PersistOrder[i]] = persisting
    /\ installed # NoEntry => /\ installed = store_files
                              /\ \A f \in RecordFiles : store_files[f] # NoPackage
    /\ payload # NoPackage => /\ payload \in receipts
                              /\ installed = [f \in RecordFiles |-> payload]
    /\ \A l \in launched : l.payload \in receipts /\ l.entry = [f \in RecordFiles |-> l.payload]

(* An empty store satisfies the invariant.                                  *)
LEMMA StoreInitHolds == StoreInit => StoreInv
BY DEF StoreInit, StoreInv, NoEntry, NoPackage, AnyPackage, Idle, RecordFiles

(* An entry holds a package in every field or in none.                      *)
LEMMA Filled ==
    ASSUME StoreInv, installed # NoEntry
    PROVE  installed["install"] # NoPackage
BY Zenon DEF StoreInv, RecordFiles

(* The three writes of persist_install, the last of which ends the install. *)
LEMMA PersistKeeps ==
    ASSUME StoreInv, persist_install
    PROVE  StoreInv'
<1>1. /\ attempts \in Nat /\ store_files \in [RecordFiles -> AnyPackage]
      /\ persisting \in AnyPackage /\ persisting # NoPackage /\ persisting.number > 0
      /\ written_files \in 0..2
      /\ store_files["install"] = NoPackage \/ store_files["install"] \in receipts
      /\ NoPackage \notin receipts
      /\ installed = NoEntry /\ payload = NoPackage
      /\ \A i \in 1..written_files : store_files[PersistOrder[i]] = persisting
      /\ \A l \in launched : l.payload \in receipts /\ l.entry = [f \in RecordFiles |-> l.payload]
  BY Zenon DEF StoreInv, persist_install, Idle
<1>2. /\ store_files' = [store_files EXCEPT ![File] = persisting]
      /\ attempts' = attempts /\ launched' = launched
  BY Zenon DEF persist_install
<1>3. /\ Len(PersistOrder) = 3 /\ PersistOrder[1] = "manifest" /\ PersistOrder[2] = "consent"
      /\ PersistOrder[3] = "install"
  BY DEF PersistOrder
<1>4. File = PersistOrder[written_files + 1]
  BY Zenon DEF File
<1>5. CASE written_files \in {0, 1}
  <2>1. File \in RecordFiles /\ File # "install"
    BY <1>3, <1>4, <1>5 DEF RecordFiles
  <2>2. written_files + 1 < Len(PersistOrder) /\ written_files + 1 \in 0..2
    BY <1>3, <1>5
  <2>3. written_files' = written_files + 1 /\ UNCHANGED <<installed, payload, persisting, receipts>>
    BY Zenon, <2>2 DEF persist_install
  <2>4. /\ store_files' \in [RecordFiles -> AnyPackage] /\ store_files'[File] = persisting
        /\ \A f \in RecordFiles \ {File} : store_files'[f] = store_files[f]
    BY Zenon, <1>1, <1>2, <2>1
  <2>5. store_files'["install"] = store_files["install"]
    BY Zenon, <2>1, <2>4 DEF RecordFiles
  <2>6. \A i \in 1..(written_files + 1) : store_files'[PersistOrder[i]] = persisting
    <3>1. CASE written_files = 0
      BY <1>4, <2>4, <3>1
    <3>2. CASE written_files = 1
      <4>1. File = "consent" /\ "manifest" \in RecordFiles \ {File}
        BY <1>3, <1>4, <3>2 DEF RecordFiles
      <4>2. store_files'[PersistOrder[1]] = persisting /\ store_files'[PersistOrder[2]] = persisting
        BY <1>1, <1>3, <2>4, <3>2, <4>1
      <4> QED BY <3>2, <4>2
    <3> QED BY <1>5, <3>1, <3>2
  <2>7. /\ attempts' \in Nat /\ written_files' \in 0..2
        /\ persisting' \in AnyPackage /\ persisting' # NoPackage /\ persisting'.number > 0
        /\ NoPackage \notin receipts' /\ installed' = NoEntry /\ payload' = NoPackage
        /\ store_files'["install"] = NoPackage \/ store_files'["install"] \in receipts'
    BY <1>1, <1>2, <2>2, <2>3, <2>5
  <2>8. \A i \in 1..written_files' : store_files'[PersistOrder[i]] = persisting'
    BY Zenon, <2>3, <2>6
  <2>9. \A l \in launched' : l.payload \in receipts' /\ l.entry = [f \in RecordFiles |-> l.payload]
    BY Zenon, <1>1, <1>2, <2>3
  <2> QED BY Zenon, <2>4, <2>7, <2>8, <2>9 DEF StoreInv
<1>6. CASE written_files = 2
  <2>1. File = "install" /\ ~ (written_files + 1 < Len(PersistOrder))
    BY <1>3, <1>4, <1>6
  <2>2. store_files["manifest"] = persisting /\ store_files["consent"] = persisting
    BY <1>1, <1>3, <1>6
  <2>3. \A f \in RecordFiles : store_files'[f] = persisting
    BY Zenon, <1>1, <1>2, <2>1, <2>2 DEF RecordFiles
  <2>4. store_files' = [f \in RecordFiles |-> persisting]
    BY Zenon, <1>1, <1>2, <2>3
  <2>5. /\ payload' = persisting /\ installed' = [f \in RecordFiles |-> persisting]
        /\ receipts' = receipts \union {persisting}
        /\ persisting' = NoPackage /\ written_files' = 0
    BY Zenon, <2>1 DEF persist_install
  <2>6. 0 \in 0..2 /\ NoPackage \in AnyPackage /\ "install" \in RecordFiles
    BY DEF NoPackage, AnyPackage, RecordFiles
  <2>7. store_files' \in [RecordFiles -> AnyPackage]
    BY Zenon, <1>1, <2>4
  <2> QED BY Zenon, <1>1, <1>2, <2>3, <2>4, <2>5, <2>6, <2>7 DEF StoreInv, Idle
<1> QED BY <1>1, <1>5, <1>6

(* Every call, failed write and crash keeps the invariant.                  *)
LEMMA StoreStepKeeps == StoreInv /\ [StoreNext]_storeVars => StoreInv'
<1> SUFFICES ASSUME StoreInv, [StoreNext]_storeVars PROVE StoreInv'
  OBVIOUS
<1> USE DEF StoreInv, Idle
<1>1. ASSUME NEW S \in SUBSET Publishers, set_trust(S) PROVE StoreInv'
  BY Zenon, <1>1 DEF set_trust
<1>2. CASE set_trust_fails
  BY Zenon, <1>2 DEF set_trust_fails
<1>3. ASSUME NEW p \in Publishers, install_signed(p) PROVE StoreInv'
  <2>1. persisting' \in AnyPackage /\ persisting'.number > 0 /\ attempts' \in Nat
    BY <1>3 DEF install_signed, AnyPackage
  <2>2. payload = NoPackage
    BY Zenon, <1>3, Filled DEF install_signed, NoEntry, RecordFiles
  <2> QED BY <1>3, <2>1, <2>2 DEF install_signed
<1>4. CASE persist_install
  BY Zenon, <1>4, PersistKeeps
<1>5. CASE persist_fails
  <2>1. store_files' = store_files \/ store_files' = [store_files EXCEPT ![File] = NoPackage]
    BY <1>5 DEF persist_fails
  <2>2. /\ store_files' \in [RecordFiles -> AnyPackage]
        /\ store_files'["install"] = NoPackage \/ store_files'["install"] \in receipts
    BY <2>1 DEF AnyPackage, NoPackage, RecordFiles
  <2>3. installed' = NoEntry /\ payload' = NoPackage /\ persisting' = NoPackage
    BY Zenon, <1>5 DEF persist_fails
  <2> QED BY <1>5, <2>2, <2>3 DEF persist_fails, NoPackage, AnyPackage
<1>6. CASE store_launch
  <2>1. payload \in receipts /\ installed = [f \in RecordFiles |-> payload]
    BY Zenon, <1>6 DEF store_launch
  <2>2. ASSUME NEW l \in launched'
        PROVE  l.payload \in receipts /\ l.entry = [f \in RecordFiles |-> l.payload]
    <3>1. CASE l \in launched
      BY Zenon, <3>1
    <3>2. CASE l = [entry |-> installed, payload |-> payload]
      BY <3>2, <2>1
    <3> QED BY Zenon, <1>6, <3>1, <3>2 DEF store_launch
  <2> QED BY Zenon, <1>6, <2>2 DEF store_launch
<1>7. CASE uninstall
  BY Zenon, <1>7 DEF uninstall
<1>8. CASE restart_store
  <2>1. store_files' = store_files \/ store_files' = [store_files EXCEPT ![File] = NoPackage]
    BY Zenon, <1>8 DEF restart_store
  <2>2. /\ store_files' \in [RecordFiles -> AnyPackage]
        /\ store_files'["install"] = NoPackage \/ store_files'["install"] \in receipts
    BY <2>1 DEF AnyPackage, NoPackage, RecordFiles
  <2>3. installed' # NoEntry => /\ installed' = store_files'
                                /\ \A f \in RecordFiles : store_files'[f] # NoPackage
    BY Zenon, <1>8 DEF restart_store, rehydrate_installs
  <2> QED BY <1>8, <2>2, <2>3 DEF restart_store, NoPackage, AnyPackage
<1>9. CASE UNCHANGED storeVars
  BY <1>9 DEF storeVars
<1> QED BY Zenon, <1>1, <1>2, <1>3, <1>4, <1>5, <1>6, <1>7, <1>8, <1>9 DEF StoreNext

(* What the store lists and launches is one finished install.               *)
THEOREM StoreStaysTrue == StoreSpec => []StoreIsTrue
<1>1. StoreInv => StoreIsTrue
  BY DEF StoreInv, StoreIsTrue, rehydrate_installs, RecordFiles
<1> QED BY <1>1, StoreInitHolds, StoreStepKeeps, PTL DEF StoreSpec

-----------------------------------------------------------------------------
(* The voice session (VoiceSession): replies are one to a wake and in the   *)
(* order of the wakes, for any number of wakes.                             *)

Answers == SUBSET Nat

Precedes(a, b) == \A v \in a, w \in b : v < w

Ordered(s) == \A i, j \in DOMAIN s : i < j => Precedes(s[i], s[j])

\* Every reply in s answers exactly one of the wakes 1..n.
OneWakeEach(s, n) == \A i \in DOMAIN s : \E w \in 1..n : s[i] = {w}

(* What was recorded, understood and is being thought about was said after  *)
(* the last wake, and from that wake until the reply is queued no reply to  *)
(* it is in the queue or was played.                                        *)
VoiceInv ==
    /\ wakes \in Nat
    /\ playing \in BOOLEAN
    /\ recording \subseteq {wakes}
    /\ last_result \subseteq {wakes}
    /\ spoken \in Seq(Answers) /\ queue \in Seq(Answers)
    /\ OneWakeEach(spoken, wakes) /\ OneWakeEach(queue, wakes)
    /\ Ordered(spoken) /\ Ordered(queue)
    /\ \A i \in DOMAIN spoken, j \in DOMAIN queue : Precedes(spoken[i], queue[j])
    /\ voice \in {"Capturing", "Thinking"} =>
          wakes >= 1 /\ OneWakeEach(spoken, wakes - 1) /\ OneWakeEach(queue, wakes - 1)
    /\ voice = "Thinking" => reply = {wakes}
    /\ playing => queue # <<>>
    /\ voice = "Stopped" => queue = <<>> /\ ~ playing

(* The members of a sequence of replies are replies.                        *)
LEMMA Elements == ASSUME NEW s \in Seq(Answers) PROVE \A i \in DOMAIN s : s[i] \in Answers
OBVIOUS

(* Sequences that only grow at the end by something later stay in order.    *)
LEMMA Grows ==
    ASSUME NEW s \in Seq(Answers), NEW a \in Answers, Ordered(s),
           \A i \in DOMAIN s : Precedes(s[i], a)
    PROVE  /\ Append(s, a) \in Seq(Answers)
           /\ Ordered(Append(s, a))
           /\ \A i \in DOMAIN Append(s, a) :
                 Append(s, a)[i] = a \/ \E j \in DOMAIN s : Append(s, a)[i] = s[j]
<1> DEFINE t == Append(s, a)
<1>1. /\ t \in Seq(Answers) /\ Len(s) \in Nat
      /\ DOMAIN t = 1..(Len(s) + 1) /\ DOMAIN s = 1..Len(s)
  OBVIOUS
<1>2. t[Len(s) + 1] = a /\ \A i \in DOMAIN s : t[i] = s[i]
  OBVIOUS
<1>3. \A i \in DOMAIN t : i \in DOMAIN s \/ i = Len(s) + 1
  BY <1>1
<1> HIDE DEF t
<1>4. ASSUME NEW i \in DOMAIN t, NEW j \in DOMAIN t, i < j PROVE Precedes(t[i], t[j])
  <2>1. i \in DOMAIN s
    BY <1>1, <1>4
  <2>2. CASE j \in DOMAIN s
    BY Zenon, <1>2, <1>4, <2>1, <2>2 DEF Ordered
  <2>3. CASE j = Len(s) + 1
    BY Zenon, <1>2, <2>1, <2>3
  <2> QED BY Zenon, <1>3, <2>2, <2>3
<1>5. Ordered(t)
  BY Zenon, <1>4 DEF Ordered
<1>6. \A i \in DOMAIN t : t[i] = a \/ \E j \in DOMAIN s : t[i] = s[j]
  BY Zenon, <1>2, <1>3
<1> QED BY Zenon, <1>1, <1>5, <1>6 DEF t

(* What is left of an ordered queue without its head, which was before it.  *)
LEMMA Shrinks ==
    ASSUME NEW s \in Seq(Answers), s # <<>>, Ordered(s)
    PROVE  /\ Head(s) = s[1] /\ 1 \in DOMAIN s
           /\ Tail(s) \in Seq(Answers)
           /\ Ordered(Tail(s))
           /\ \A i \in DOMAIN Tail(s) : /\ i + 1 \in DOMAIN s
                                        /\ Tail(s)[i] = s[i + 1]
                                        /\ Precedes(Head(s), Tail(s)[i])
<1>1. /\ Head(s) = s[1] /\ Len(s) \in Nat /\ Len(s) >= 1 /\ DOMAIN s = 1..Len(s)
      /\ Tail(s) \in Seq(Answers) /\ DOMAIN Tail(s) = 1..(Len(s) - 1)
  OBVIOUS
<1>2. \A i \in DOMAIN Tail(s) : i \in Nat /\ 1 < i + 1 /\ i + 1 \in DOMAIN s
  BY <1>1
<1>3. \A i \in DOMAIN Tail(s) : Tail(s)[i] = s[i + 1]
  BY <1>1
<1>4. \A i, j \in DOMAIN Tail(s) : i < j => i + 1 < j + 1
  BY <1>2
<1>5. Ordered(Tail(s))
  BY <1>2, <1>3, <1>4 DEF Ordered
<1>6. 1 \in DOMAIN s
  BY <1>1
<1>7. \A i \in DOMAIN Tail(s) : Precedes(s[1], s[i + 1])
  BY <1>2, <1>6 DEF Ordered
<1> QED BY Zenon, <1>1, <1>2, <1>3, <1>5, <1>6, <1>7

(* An empty queue.                                                          *)
LEMMA NoReplies ==
    /\ <<>> \in Seq(Answers) /\ DOMAIN <<>> = {}
    /\ Ordered(<<>>) /\ \A n : OneWakeEach(<<>>, n)
BY DEF OneWakeEach, Ordered

(* A new session.                                                           *)
LEMMA VoiceInitHolds == VoiceInit => VoiceInv
<1> SUFFICES ASSUME VoiceInit PROVE VoiceInv
  OBVIOUS
<1>1. /\ voice = "Idle" /\ wakes = 0 /\ recording = {} /\ last_result = {}
      /\ spoken = <<>> /\ queue = <<>> /\ playing = FALSE
  BY DEF VoiceInit
<1>2. \A i \in DOMAIN spoken, j \in DOMAIN queue : Precedes(spoken[i], queue[j])
  BY <1>1, NoReplies
<1>3. /\ spoken \in Seq(Answers) /\ queue \in Seq(Answers)
      /\ OneWakeEach(spoken, wakes) /\ OneWakeEach(queue, wakes)
      /\ Ordered(spoken) /\ Ordered(queue)
  BY <1>1, NoReplies
<1> QED BY Zenon, <1>1, <1>2, <1>3 DEF VoiceInv

(* A further wake changes nothing for the replies there are.                *)
LEMMA LaterWake ==
    ASSUME NEW s, NEW n \in Nat, OneWakeEach(s, n)
    PROVE  OneWakeEach(s, n + 1)
BY DEF OneWakeEach

(* Replies to earlier wakes come before the reply to this one.              *)
LEMMA EarlierWake ==
    ASSUME NEW s, NEW n \in Nat, OneWakeEach(s, n - 1)
    PROVE  \A i \in DOMAIN s : Precedes(s[i], {n})
BY DEF OneWakeEach, Precedes

(* The reply is queued behind all others.                                   *)
LEMMA ThinkingKeeps ==
    ASSUME VoiceInv, tick_thinking
    PROVE  VoiceInv'
<1> USE DEF VoiceInv, tick_thinking
<1>1. reply = {wakes} /\ reply \in Answers /\ wakes \in Nat
  BY Zenon DEF Answers
<1>2. /\ \A i \in DOMAIN queue : Precedes(queue[i], reply)
      /\ \A i \in DOMAIN spoken : Precedes(spoken[i], reply)
  BY <1>1, EarlierWake
<1>3. /\ queue' \in Seq(Answers) /\ Ordered(queue')
      /\ \A i \in DOMAIN queue' : queue'[i] = reply \/ \E j \in DOMAIN queue : queue'[i] = queue[j]
  <2>1. queue' = Append(queue, reply) /\ queue \in Seq(Answers) /\ Ordered(queue)
    OBVIOUS
  <2> HIDE DEF VoiceInv, tick_thinking
  <2>2. /\ Append(queue, reply) \in Seq(Answers) /\ Ordered(Append(queue, reply))
        /\ \A i \in DOMAIN Append(queue, reply) :
              \/ Append(queue, reply)[i] = reply
              \/ \E j \in DOMAIN queue : Append(queue, reply)[i] = queue[j]
    BY <1>1, <1>2, <2>1, Grows, Zenon
  <2> QED BY <2>1, <2>2, Zenon
<1>4. wakes >= 1 /\ OneWakeEach(queue, wakes)
  OBVIOUS
<1>5. OneWakeEach(queue', wakes)
  <2> HIDE DEF VoiceInv, tick_thinking
  <2> QED BY <1>1, <1>3, <1>4 DEF OneWakeEach
<1>6. \A i \in DOMAIN spoken, j \in DOMAIN queue' : Precedes(spoken[i], queue'[j])
  BY Zenon, <1>2, <1>3
<1>7. queue' # <<>>
  OBVIOUS
<1> QED BY Zenon, <1>3, <1>5, <1>6, <1>7

(* Playback, to the end of an utterance or not.                             *)
LEMMA AdvanceKeeps ==
    ASSUME VoiceInv, NEW ok \in BOOLEAN, NEW ended \in BOOLEAN, advance(ok, ended)
    PROVE  VoiceInv'
<1> USE DEF VoiceInv, advance
<1>1. plays(ok) \in BOOLEAN /\ (plays(ok) => queue # <<>>)
  BY Zenon DEF plays
<1>2. CASE ~ (plays(ok) /\ ended)
  BY Zenon, <1>1, <1>2
<1>3. CASE plays(ok) /\ ended
  <2>1. /\ Head(queue) = queue[1] /\ 1 \in DOMAIN queue /\ queue[1] \in Answers
        /\ Tail(queue) \in Seq(Answers) /\ Ordered(Tail(queue))
        /\ \A i \in DOMAIN Tail(queue) : /\ i + 1 \in DOMAIN queue
                                         /\ Tail(queue)[i] = queue[i + 1]
                                         /\ Precedes(Head(queue), Tail(queue)[i])
    BY <1>1, <1>3, Shrinks, Elements
  <2>2. /\ spoken' \in Seq(Answers) /\ Ordered(spoken')
        /\ \A i \in DOMAIN spoken' :
              spoken'[i] = queue[1] \/ \E j \in DOMAIN spoken : spoken'[i] = spoken[j]
    <3>1. /\ spoken' = Append(spoken, queue[1]) /\ spoken \in Seq(Answers) /\ Ordered(spoken)
          /\ \A i \in DOMAIN spoken : Precedes(spoken[i], queue[1])
      BY Zenon, <1>3, <2>1
    <3> HIDE DEF VoiceInv, advance
    <3> QED BY Zenon, <2>1, <3>1, Grows
  <2>3. queue' = Tail(queue) /\ ~ playing' /\ UNCHANGED <<voice, wakes, recording, last_result>>
        /\ voice = "Speaking"
    BY Zenon, <1>3
  <2>4. OneWakeEach(spoken', wakes)
    <3>1. OneWakeEach(spoken, wakes) /\ OneWakeEach(queue, wakes)
      OBVIOUS
    <3> HIDE DEF VoiceInv, advance
    <3>2. \E w \in 1..wakes : queue[1] = {w}
      BY Zenon, <2>1, <3>1 DEF OneWakeEach
    <3>3. \A i \in DOMAIN spoken : \E w \in 1..wakes : spoken[i] = {w}
      BY Zenon, <3>1 DEF OneWakeEach
    <3>4. ASSUME NEW i \in DOMAIN spoken' PROVE \E w \in 1..wakes : spoken'[i] = {w}
      <4>1. CASE spoken'[i] = queue[1]
        BY Zenon, <3>2, <4>1
      <4>2. CASE \E j \in DOMAIN spoken : spoken'[i] = spoken[j]
        BY Zenon, <3>3, <4>2
      <4> QED BY Zenon, <2>2, <4>1, <4>2
    <3> QED BY Zenon, <3>4 DEF OneWakeEach
  <2>5. OneWakeEach(queue', wakes)
    BY <2>1, <2>3 DEF OneWakeEach
  <2>6. \A i \in DOMAIN spoken', j \in DOMAIN queue' : Precedes(spoken'[i], queue'[j])
    BY Zenon, <2>1, <2>2, <2>3
  <2> QED BY Zenon, <1>3, <2>1, <2>2, <2>3, <2>4, <2>5, <2>6
<1> QED BY Zenon, <1>2, <1>3

(* Every call keeps the invariant.                                          *)
LEMMA VoiceStepKeeps == VoiceInv /\ [VoiceNext]_voiceVars => VoiceInv'
<1> SUFFICES ASSUME VoiceInv, [VoiceNext]_voiceVars PROVE VoiceInv'
  OBVIOUS
<1> USE DEF VoiceInv
<1>1. CASE start
  BY Zenon, <1>1 DEF start
<1>2. CASE stop_speaking
  <2>1. queue' = <<>> /\ ~ playing' /\ recording' = {} /\ voice' = "Stopped"
        /\ playing' \in BOOLEAN /\ UNCHANGED <<wakes, last_result, spoken>>
    BY Zenon, <1>2 DEF stop_speaking
  <2>2. /\ queue' \in Seq(Answers) /\ Ordered(queue') /\ OneWakeEach(queue', wakes)
        /\ DOMAIN queue' = {}
    BY <2>1, NoReplies
  <2> QED BY Zenon, <2>1, <2>2
<1>3. CASE wake
  <2>1. wakes' = wakes + 1 /\ wakes' - 1 = wakes /\ wakes' \in Nat
    BY <1>3 DEF wake
  <2>2. OneWakeEach(spoken, wakes') /\ OneWakeEach(queue, wakes')
    BY Zenon, <2>1, LaterWake
  <2> QED BY <1>3, <2>1, <2>2 DEF wake, stt_start
<1>4. ASSUME NEW loud \in BOOLEAN, NEW ends \in BOOLEAN, feed(loud, ends) PROVE VoiceInv'
  BY Zenon, <1>4 DEF feed
<1>5. ASSUME NEW ok \in BOOLEAN, tick_capturing(ok) PROVE VoiceInv'
  <2>1. recording' \subseteq {wakes} /\ last_result' \subseteq {wakes}
    BY Zenon, <1>5 DEF tick_capturing, stt_process
  <2>2. voice' = "Thinking" => reply' = {wakes}
    BY Zenon, <1>5, <2>1 DEF tick_capturing
  <2>3. voice' \in {"Thinking", "Listening", "Capturing"}
    BY <1>5 DEF tick_capturing
  <2> QED BY <1>5, <2>1, <2>2, <2>3 DEF tick_capturing
<1>6. ASSUME NEW ok \in BOOLEAN, tick_speaking(ok) PROVE VoiceInv'
  BY <1>6 DEF tick_speaking, plays
<1>7. CASE tick_thinking
  BY Zenon, <1>7, ThinkingKeeps
<1>8. ASSUME NEW ok \in BOOLEAN, NEW ended \in BOOLEAN, advance(ok, ended) PROVE VoiceInv'
  BY Zenon, <1>8, AdvanceKeeps
<1>9. CASE UNCHANGED voiceVars
  BY Zenon, <1>9 DEF voiceVars
<1> QED BY Zenon, <1>1, <1>2, <1>3, <1>4, <1>5, <1>6, <1>7, <1>8, <1>9 DEF VoiceNext

(* The replies played and those queued, one after the other.                *)
LEMMA Joined ==
    ASSUME NEW s \in Seq(Answers), NEW q \in Seq(Answers), Ordered(s), Ordered(q),
           \A i \in DOMAIN s, j \in DOMAIN q : Precedes(s[i], q[j])
    PROVE  /\ Ordered(s \o q)
           /\ \A i \in DOMAIN (s \o q) : \/ \E j \in DOMAIN s : (s \o q)[i] = s[j]
                                         \/ \E j \in DOMAIN q : (s \o q)[i] = q[j]
<1> DEFINE t == s \o q
<1>1. /\ Len(s) \in Nat /\ Len(q) \in Nat /\ DOMAIN s = 1..Len(s) /\ DOMAIN q = 1..Len(q)
      /\ DOMAIN t = 1..(Len(s) + Len(q))
  OBVIOUS
<1>2. \A i \in DOMAIN t : IF i \in DOMAIN s THEN t[i] = s[i]
                          ELSE i - Len(s) \in DOMAIN q /\ t[i] = q[i - Len(s)]
  BY <1>1
<1> HIDE DEF t
<1>3. ASSUME NEW i \in DOMAIN t, NEW j \in DOMAIN t, i < j PROVE Precedes(t[i], t[j])
  <2>1. CASE j \in DOMAIN s
    <3>1. i \in DOMAIN s
      BY <1>1, <1>3, <2>1
    <3> QED BY Zenon, <1>2, <1>3, <2>1, <3>1 DEF Ordered
  <2>2. CASE i \in DOMAIN s /\ j \notin DOMAIN s
    BY Zenon, <1>2, <2>2
  <2>3. CASE i \notin DOMAIN s /\ j \notin DOMAIN s
    <3>1. i - Len(s) < j - Len(s)
      BY <1>1, <1>3
    <3> QED BY Zenon, <1>2, <2>3, <3>1 DEF Ordered
  <2>4. j \notin DOMAIN s \/ i \in DOMAIN s
    BY <1>1, <1>3
  <2> QED BY Zenon, <2>1, <2>2, <2>3, <2>4
<1>4. Ordered(t)
  BY Zenon, <1>3 DEF Ordered
<1>5. \A i \in DOMAIN t : (\E j \in DOMAIN s : t[i] = s[j]) \/ (\E j \in DOMAIN q : t[i] = q[j])
  BY Zenon, <1>2
<1> QED BY Zenon, <1>4, <1>5 DEF t

(* Each reply answers one wake and they are played in the order of the      *)
(* wakes, whichever transcription or synthesis fails.                       *)
THEOREM RepliesStayInOrder == VoiceSpec => []RepliesInOrder
<1>1. VoiceInv => RepliesInOrder
  <2> SUFFICES ASSUME VoiceInv PROVE RepliesInOrder
    OBVIOUS
  <2> DEFINE all == spoken \o queue
  <2>1. /\ Ordered(all)
        /\ \A i \in DOMAIN all : \/ \E j \in DOMAIN spoken : all[i] = spoken[j]
                                 \/ \E j \in DOMAIN queue : all[i] = queue[j]
    BY Zenon, Joined DEF VoiceInv
  <2> HIDE DEF all
  <2>2. \A i \in DOMAIN all : \E w \in 1..wakes : all[i] = {w}
    BY <2>1 DEF VoiceInv, OneWakeEach
  <2>3. \A i, j \in DOMAIN all : i < j => \A v \in all[i], w \in all[j] : v < w
    BY <2>1 DEF Ordered, Precedes
  <2> QED BY Zenon, <2>2, <2>3 DEF VoiceInv, RepliesInOrder, all
<1> QED BY <1>1, VoiceInitHolds, VoiceStepKeeps, PTL DEF VoiceSpec
=============================================================================
