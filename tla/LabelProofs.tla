----------------------------- MODULE LabelProofs -----------------------------
(***************************************************************************)
(* Proofs about labels: what the merge of a request makes of the labels of *)
(* an entity, for any number of labels and mutations; and a bulk label     *)
(* task, for any number of sinks, entities and attempts, when Druid        *)
(* answers every query with the same list.                                 *)
(***************************************************************************)
EXTENDS BulkLabel, Labels, FiniteSetTheorems, SequenceTheorems, TLAPS

-----------------------------------------------------------------------------
(* Folds.  The library defines FoldLeft through a recursive function over  *)
(* sets of indices, chosen to satisfy its equation.                        *)

(* A set of numbers has a least one. *)
LEMMA LeastNatural ==
  ASSUME NEW T \in SUBSET Nat, T # {}
  PROVE  \E x \in T : \A y \in T : x <= y
<1>. DEFINE R == OpToRel(<, Nat)
<1>1. IsWellFoundedOn(R, Nat)
  BY NatLessThanWellFounded
<1>3. \A x, y \in Nat : y < x => <<y, x>> \in R
  BY DEF OpToRel
<1>. HIDE DEF R
<1>4. PICK x \in T : \A y \in T : ~(<<y, x>> \in R)
  BY <1>1, WFMin
<1>5. \A y \in T : ~(y < x)
  BY <1>3, <1>4
<1>. QED BY <1>5

(* Induction, with the property as a set. *)
LEMMA SetOfNaturals ==
  ASSUME NEW S \in SUBSET Nat, 0 \in S, \A n \in S : n + 1 \in S
  PROVE  S = Nat
<1>. SUFFICES ASSUME Nat \ S # {} PROVE FALSE
  OBVIOUS
<1>1. PICK x \in Nat \ S : \A y \in Nat \ S : x <= y
  BY LeastNatural
<1>2. x - 1 \in Nat /\ x - 1 \notin Nat \ S
  BY <1>1
<1>. QED BY <1>1, <1>2

Greatest(s) == CHOOSE x \in s : \A y \in s : x >= y

(* f[<<x, i>>] is what the element at i makes of x. *)
FoldStep(g, s, base, f) == IF s = {} THEN base ELSE f[<<g[s \ {Greatest(s)}], Greatest(s)>>]

(* Any set of indices has a greatest. *)
LEMMA LastExists ==
  ASSUME NEW n \in Nat, NEW S \in SUBSET (1..n), S # {}
  PROVE  \E j \in S : \A k \in S : k <= j
<1>. DEFINE T == {n - x : x \in S}
<1>1. T \in SUBSET Nat /\ T # {}
  <2>1. \A x \in S : n - x \in Nat
    OBVIOUS
  <2>2. T \subseteq Nat
    BY <2>1
  <2>3. PICK x \in S : TRUE
    OBVIOUS
  <2>4. n - x \in T
    OBVIOUS
  <2>. HIDE DEF T
  <2>. QED BY <2>2, <2>4
<1>2. PICK t \in T : \A u \in T : t <= u
  BY <1>1, LeastNatural
<1>3. PICK x \in S : t = n - x
  OBVIOUS
<1>4. ASSUME NEW y \in S PROVE y <= x
  <2>1. n - y \in T
    OBVIOUS
  <2>2. n - x <= n - y
    BY <1>2, <1>3, <2>1
  <2>. QED BY <2>2
<1>. QED BY <1>4

(* ... which is the one the fold chooses. *)
LEMMA GreatestIn ==
  ASSUME NEW n \in Nat, NEW s \in SUBSET (1..n), s # {}
  PROVE  Greatest(s) \in s
<1>1. PICK x \in s : \A y \in s : y <= x
  BY LastExists
<1>2. \A y \in s : x >= y
  BY <1>1
<1>. QED BY <1>2, Zenon DEF Greatest

(* The greatest index of a set that has the greatest. *)
LEMMA GreatestOfInterval ==
  ASSUME NEW m \in Nat, NEW s \in SUBSET (1..(m+1)), m + 1 \in s
  PROVE  Greatest(s) = m + 1
<1>1. \A y \in s : m + 1 >= y
  OBVIOUS
<1>2. Greatest(s) \in s /\ \A y \in s : Greatest(s) >= y
  BY <1>1, Zenon DEF Greatest
<1>3. PICK M : M = Greatest(s) /\ M \in s /\ M >= m + 1
  BY <1>2
<1>. QED BY <1>3

HasFold(m, V, base, f) ==
  \E g \in [SUBSET (1..m) -> V] : \A s \in SUBSET (1..m) : g[s] = FoldStep(g, s, base, f)

(* The equation of a fold over values V has a solution. *)
LEMMA FoldExists ==
  ASSUME NEW V, NEW base \in V, NEW f, NEW n \in Nat, \A x \in V, i \in 1..n : f[<<x, i>>] \in V
  PROVE  HasFold(n, V, base, f)
<1>. DEFINE S == {m \in Nat : m <= n => HasFold(m, V, base, f)}
<1>1. 0 \in S
  <2>1. SUBSET (1..0) = {{}}
    OBVIOUS
  <2>. DEFINE h == [s \in SUBSET (1..0) |-> base]
  <2>2. h \in [SUBSET (1..0) -> V] /\ \A s \in SUBSET (1..0) : h[s] = FoldStep(h, s, base, f)
    BY <2>1 DEF FoldStep
  <2>. QED BY <2>2 DEF HasFold
<1>2. ASSUME NEW m \in S PROVE m + 1 \in S
  <2>. SUFFICES ASSUME m + 1 <= n PROVE HasFold(m + 1, V, base, f)
    OBVIOUS
  <2>10. HasFold(m, V, base, f)
    OBVIOUS
  <2>1. PICK g \in [SUBSET (1..m) -> V] : \A s \in SUBSET (1..m) : g[s] = FoldStep(g, s, base, f)
    BY <2>10 DEF HasFold
  <2>. DEFINE h == [s \in SUBSET (1..(m+1)) |->
                     IF m + 1 \in s THEN f[<<g[s \ {m + 1}], m + 1>>] ELSE g[s]]
  <2>0. ASSUME NEW s \in SUBSET (1..(m+1)) PROVE s \ {m + 1} \in SUBSET (1..m) /\ h[s] \in V
    <3>1. s \ {m + 1} \in SUBSET (1..m) /\ m + 1 \in 1..n
      OBVIOUS
    <3>2. g[s \ {m + 1}] \in V /\ f[<<g[s \ {m + 1}], m + 1>>] \in V
      BY <3>1
    <3>3. m + 1 \notin s => s = s \ {m + 1}
      OBVIOUS
    <3>. QED BY <3>1, <3>2, <3>3
  <2>2. ASSUME NEW s \in SUBSET (1..(m+1)), m + 1 \in s PROVE h[s] = FoldStep(h, s, base, f)
    <3>1. Greatest(s) = m + 1 /\ s # {}
      BY <2>2, GreatestOfInterval
    <3>2. s \ {m + 1} \in SUBSET (1..(m+1)) /\ m + 1 \notin s \ {m + 1}
      OBVIOUS
    <3>3. h[s \ {m + 1}] = g[s \ {m + 1}] /\ h[s] = f[<<g[s \ {m + 1}], m + 1>>]
      BY <2>2, <3>2
    <3>. HIDE DEF h
    <3>. QED BY <3>1, <3>3 DEF FoldStep
  <2>3. ASSUME NEW s \in SUBSET (1..(m+1)), m + 1 \notin s PROVE h[s] = FoldStep(h, s, base, f)
    <3>. PICK M : M = Greatest(s)
      OBVIOUS
    <3>0. s \in SUBSET (1..m)
      BY <2>3
    <3>1. s \in SUBSET (1..m) /\ s \ {M} \in SUBSET (1..(m+1)) /\ m + 1 \notin s \ {M}
      BY <2>3, <3>0
    <3>2. h[s] = g[s] /\ h[s \ {M}] = g[s \ {M}]
      BY <2>3, <3>1
    <3>3. g[s] = FoldStep(g, s, base, f)
      BY <2>1, <3>1
    <3>. HIDE DEF h
    <3>. QED BY <3>2, <3>3 DEF FoldStep
  <2>4. h \in [SUBSET (1..(m+1)) -> V]
    BY <2>0
  <2>. HIDE DEF h
  <2>5. \A s \in SUBSET (1..(m+1)) : h[s] = FoldStep(h, s, base, f)
    BY <2>2, <2>3
  <2>. QED BY <2>4, <2>5 DEF HasFold
<1>. HIDE DEF S
<1>3. S = Nat
  <2>1. S \in SUBSET Nat
    BY DEF S
  <2>. QED BY <1>1, <1>2, <2>1, SetOfNaturals
<1>. QED BY <1>3 DEF S

(* What holds after each element holds at the end. *)
LEMMA StepByStep ==
  ASSUME NEW n \in Nat, NEW h, NEW J, h[0] \in J[0],
         \A i \in 0..(n-1) : h[i] \in J[i] => h[i+1] \in J[i+1]
  PROVE  h[n] \in J[n]
<1>. DEFINE S == {m \in Nat : m <= n => h[m] \in J[m]}
<1>1. 0 \in S
  OBVIOUS
<1>2. ASSUME NEW m \in S PROVE m + 1 \in S
  <2>1. m + 1 <= n => m \in 0..(n-1) /\ h[m] \in J[m]
    OBVIOUS
  <2>. QED BY <2>1
<1>. HIDE DEF S
<1>3. S = Nat
  <2>1. S \in SUBSET Nat
    BY DEF S
  <2>. QED BY <1>1, <1>2, <2>1, SetOfNaturals
<1>4. n \in S
  BY <1>3
<1>. QED BY <1>4 DEF S

-----------------------------------------------------------------------------
(* Sequences that list the elements of a set.                              *)

Once(s, S) ==
  /\ s \in Seq(S)
  /\ \A a, b \in 1..Len(s) : s[a] = s[b] => a = b
  /\ \A x \in S : \E a \in 1..Len(s) : s[a] = x

(* Such a sequence is as long as the set is large. *)
LEMMA OnceCounts ==
  ASSUME NEW S, NEW s, Once(s, S)
  PROVE  IsFiniteSet(S) /\ Cardinality(S) = Len(s) /\ Len(s) \in Nat
<1>1. Len(s) \in Nat /\ s \in [1..Len(s) -> S] /\ DOMAIN s = 1..Len(s)
  BY LenProperties DEF Once
<1>2. s \in Bijection(1..Len(s), S)
  BY <1>1 DEF Once, Bijection, Injection, Surjection, IsInjective
<1>3. ExistsBijection(1..Len(s), S)
  BY <1>2 DEF ExistsBijection
<1>. QED BY <1>1, <1>3, FS_NatBijection, FS_CountingElements

(* t is u, of length l, and behind it v, of length m. *)
JoinOf(t, T, u, l, v, m) ==
  /\ t \in Seq(T) /\ Len(t) = l + m
  /\ \A k \in 1..l : t[k] = u[k]
  /\ \A k \in 1..m : t[l + k] = v[k]

(* Two sequences, one behind the other. *)
LEMMA Joined ==
  ASSUME NEW T, NEW u \in Seq(T), NEW v \in Seq(T), NEW l \in Nat, Len(u) = l, NEW m \in Nat, Len(v) = m
  PROVE  JoinOf(u \o v, T, u, l, v, m)
<1>1. PICK t : t = u \o v
  OBVIOUS
<1>2. t \in Seq(T) /\ Len(t) = l + m /\ \A k \in 1..(l + m) : t[k] = IF k <= l THEN u[k] ELSE v[k - l]
  BY <1>1, ConcatProperties
<1>3. ASSUME NEW k \in 1..l PROVE t[k] = u[k]
  <2>1. k \in 1..(l + m) /\ k <= l
    OBVIOUS
  <2>. QED BY <1>2, <2>1
<1>4. ASSUME NEW k \in 1..m PROVE t[l + k] = v[k]
  <2>1. l + k \in 1..(l + m) /\ ~(l + k <= l) /\ (l + k) - l = k
    OBVIOUS
  <2>. QED BY <1>2, <2>1
<1>5. JoinOf(t, T, u, l, v, m)
  BY <1>2, <1>3, <1>4 DEF JoinOf
<1>. QED BY <1>1, <1>5

(* An injection of as many indices lists a finite set. *)
LEMMA OnceOfInjection ==
  ASSUME NEW S, IsFiniteSet(S), NEW s \in [1..Cardinality(S) -> S],
         \A a, b \in 1..Cardinality(S) : s[a] = s[b] => a = b
  PROVE  Once(s, S)
<1>1. PICK n \in Nat : n = Cardinality(S)
  BY FS_CardinalityType
<1>2. s \in Injection(1..n, S)
  BY <1>1 DEF Injection, IsInjective
<1>3. Cardinality(1..n) = n
  BY FS_Interval
<1>4. s \in Surjection(1..n, S)
  BY <1>1, <1>2, <1>3, FS_Injection
<1>5. s \in Seq(S) /\ Len(s) = n
  BY <1>1
<1>. QED BY <1>1, <1>4, <1>5 DEF Once, Surjection

(* SetToSeq lists the elements of a finite set. *)
LEMMA SetToSeqLists ==
  ASSUME NEW S, IsFiniteSet(S)
  PROVE  Once(SetToSeq(S), S) /\ Len(SetToSeq(S)) = Cardinality(S) /\ Cardinality(S) \in Nat
<1>1. PICK s : s \in Bijection(1..Cardinality(S), S)
  BY FS_CardinalityType DEF ExistsBijection
<1>2. s \in [1..Cardinality(S) -> S] /\ IsInjective(s)
  BY <1>1 DEF Bijection, Injection, IsInjective
<1>3. SetToSeq(S) \in [1..Cardinality(S) -> S] /\ IsInjective(SetToSeq(S))
  BY <1>2, Zenon DEF SetToSeq
<1>4. PICK z : z = SetToSeq(S) /\ z \in [1..Cardinality(S) -> S] /\ IsInjective(z)
  BY <1>3
<1>5. \A a, b \in 1..Cardinality(S) : z[a] = z[b] => a = b
  BY <1>4 DEF IsInjective
<1>6. Once(z, S)
  BY <1>4, <1>5, OnceOfInjection
<1>. QED BY <1>4, <1>6, OnceCounts

(* s has the element x. *)
Has(s, x) == \E a \in 1..Len(s) : s[a] = x

(* Two sequences, one behind the other, have what each has. *)
LEMMA JoinHas ==
  ASSUME NEW T, NEW u \in Seq(T), NEW v \in Seq(T)
  PROVE  u \o v \in Seq(T) /\ \A x : Has(u, x) \/ Has(v, x) => Has(u \o v, x)
<1>1. Len(u) \in Nat /\ Len(v) \in Nat
  OBVIOUS
<1>2. PICK l \in Nat, m \in Nat : l = Len(u) /\ m = Len(v)
  BY <1>1
<1>3. PICK t : t = u \o v /\ JoinOf(t, T, u, l, v, m)
  BY <1>2, Joined
<1>4. ASSUME NEW x, Has(u, x) PROVE Has(t, x)
  <2>1. PICK a \in 1..l : u[a] = x
    BY <1>2, <1>4 DEF Has
  <2>2. t[a] = x /\ a \in 1..Len(t)
    BY <1>3, <2>1 DEF JoinOf
  <2>. QED BY <2>2 DEF Has
<1>5. ASSUME NEW x, Has(v, x) PROVE Has(t, x)
  <2>1. PICK a \in 1..m : v[a] = x
    BY <1>2, <1>5 DEF Has
  <2>2. t[l + a] = x /\ l + a \in 1..Len(t)
    BY <1>3, <2>1 DEF JoinOf
  <2>. QED BY <2>2 DEF Has
<1>6. t \in Seq(T)
  BY <1>3 DEF JoinOf
<1>. QED BY <1>3, <1>4, <1>5, <1>6

(* The recursive function of FlattenSeq. *)
FlattenStep(g, ss, i) == IF i = 1 THEN ss[i] ELSE g[i-1] \o ss[i]
Flattens(g, ss, n) == g = [i \in 1..n |-> FlattenStep(g, ss, i)]

(* Its equation has a solution. *)
LEMMA FlattenExists ==
  ASSUME NEW T, NEW n \in Nat, NEW ss \in [1..n -> Seq(T)]
  PROVE  \E g : Flattens(g, ss, n)
<1>. DEFINE f == [p \in Seq(T) \X (1..n) |-> p[1] \o ss[p[2]]]
<1>1. \A x \in Seq(T), i \in 1..n : f[<<x, i>>] = x \o ss[i]
  OBVIOUS
<1>2. ASSUME NEW x \in Seq(T), NEW i \in 1..n PROVE f[<<x, i>>] \in Seq(T)
  <2>1. ss[i] \in Seq(T)
    OBVIOUS
  <2>2. x \o ss[i] \in Seq(T)
    BY <2>1, JoinHas
  <2>. HIDE DEF f
  <2>. QED BY <1>1, <2>2
<1>. HIDE DEF f
<1>3. <<>> \in Seq(T)
  OBVIOUS
<1>4. HasFold(n, Seq(T), <<>>, f)
  BY <1>2, <1>3, FoldExists
<1>5. PICK h \in [SUBSET (1..n) -> Seq(T)] : \A s \in SUBSET (1..n) : h[s] = FoldStep(h, s, <<>>, f)
  BY <1>4 DEF HasFold
<1>. DEFINE g == [i \in 1..n |-> h[1..i]]
<1>6. ASSUME NEW i \in 1..n PROVE g[i] = FlattenStep(g, ss, i)
  <2>1. PICK m \in Nat : i = m + 1
    <3>1. i - 1 \in Nat /\ i = (i - 1) + 1
      OBVIOUS
    <3>. QED BY <3>1
  <2>8. 1..i \in SUBSET (1..n) /\ 1..m \in SUBSET (1..n)
    BY <2>1
  <2>9. 1..i \in SUBSET (1..(m+1)) /\ m + 1 \in 1..i
    BY <2>1
  <2>10. (1..(m+1)) \ {m + 1} = 1..m
    OBVIOUS
  <2>2. 1..i \in SUBSET (1..n) /\ 1..m \in SUBSET (1..n) /\ 1..i \in SUBSET (1..(m+1)) /\ m + 1 \in 1..i
        /\ (1..i) \ {m + 1} = 1..m /\ 1..i # {}
    BY <2>1, <2>8, <2>9, <2>10
  <2>3. Greatest(1..i) = m + 1
    BY <2>2, GreatestOfInterval
  <2>4. h[1..i] = f[<<h[1..m], i>>]
    BY <1>5, <2>1, <2>2, <2>3 DEF FoldStep
  <2>5. h[1..i] = h[1..m] \o ss[i]
    BY <1>1, <2>2, <2>4
  <2>6. CASE m = 0
    <3>1. 1..m = {}
      BY <2>6
    <3>2. h[1..m] = <<>>
      BY <1>5, <2>2, <3>1 DEF FoldStep
    <3>3. ss[i] \in Seq(T)
      OBVIOUS
    <3>4. <<>> \o ss[i] = ss[i]
      BY <3>3
    <3>5. i = 1
      BY <2>1, <2>6
    <3>6. g[i] = h[1..i]
      OBVIOUS
    <3>. HIDE DEF g
    <3>. QED BY <2>5, <3>2, <3>4, <3>5, <3>6 DEF FlattenStep
  <2>7. CASE m # 0
    <3>1. m \in 1..n /\ i # 1 /\ i - 1 = m
      BY <2>1, <2>7
    <3>2. g[i] = h[1..i] /\ g[m] = h[1..m]
      BY <3>1
    <3>. HIDE DEF g
    <3>. QED BY <2>5, <3>1, <3>2 DEF FlattenStep
  <2>. QED BY <2>6, <2>7
<1>7. Flattens(g, ss, n)
  <2>1. g = [i \in 1..n |-> g[i]]
    OBVIOUS
  <2>. HIDE DEF g
  <2>. QED BY <1>6, <2>1 DEF Flattens
<1>. QED BY <1>7

(* FlattenSeq has the elements of each sequence. *)
LEMMA FlattenHas ==
  ASSUME NEW T, NEW n \in Nat, NEW ss \in [1..n -> Seq(T)]
  PROVE  FlattenSeq(ss) \in Seq(T) /\ \A k \in 1..n : \A x : Has(ss[k], x) => Has(FlattenSeq(ss), x)
<1>0. ss \in Seq(Seq(T)) /\ Len(ss) = n
  OBVIOUS
<1>1. CASE n = 0
  <2>1. FlattenSeq(ss) = ss
    BY <1>0, <1>1 DEF FlattenSeq
  <2>2. 1..n = {}
    BY <1>1
  <2>3. ss \in [1..n -> T]
    BY <2>2
  <2>4. ss \in Seq(T)
    BY <2>3
  <2>. QED BY <2>1, <2>2, <2>4
<1>2. CASE n # 0
  <2>1. FlattenSeq(ss) = (CHOOSE g : Flattens(g, ss, n))[n]
    BY <1>0, <1>2, Zenon DEF FlattenSeq, Flattens, FlattenStep
  <2>2. PICK g : Flattens(g, ss, n) /\ FlattenSeq(ss) = g[n]
    BY <2>1, FlattenExists, Zenon
  <2>. DEFINE c == [i \in 0..n |-> IF i = 0 THEN <<>> ELSE g[i]]
              J == [i \in 0..n |-> {s \in Seq(T) : \A k \in 1..i : \A x : Has(ss[k], x) => Has(s, x)}]
  <2>3. c[0] \in J[0]
    <3>1. 1..0 = {}
      OBVIOUS
    <3>2. <<>> \in Seq(T)
      OBVIOUS
    <3>. QED BY <3>1, <3>2
  <2>4. ASSUME NEW i \in 0..(n-1), c[i] \in J[i] PROVE c[i+1] \in J[i+1]
    <3>1. i \in 0..n /\ i + 1 \in 0..n /\ i + 1 \in 1..n /\ i + 1 # 0 /\ (i + 1) - 1 = i /\ i \in Nat
      OBVIOUS
    <3>2. g[i + 1] = FlattenStep(g, ss, i + 1)
      BY <2>2, <3>1 DEF Flattens
    <3>3. ss[i + 1] \in Seq(T)
      BY <3>1
    <3>4. c[i + 1] = g[i + 1]
      BY <3>1
    <3>5. PICK u : u = c[i] /\ u \in Seq(T) /\ \A k \in 1..i : \A x : Has(ss[k], x) => Has(u, x)
      BY <2>4, <3>1
    <3>6. PICK w \in Seq(T) : w = g[i + 1] /\ \A x : Has(u, x) \/ Has(ss[i + 1], x) => Has(w, x)
      <4>1. CASE i = 0
        <5>1. g[i + 1] = ss[i + 1]
          BY <3>2, <4>1 DEF FlattenStep
        <5>2. u = <<>>
          BY <3>1, <3>5, <4>1
        <5>3. ~\E x : Has(u, x)
          <6>1. Len(<<>>) = 0 /\ 1..0 = {}
            OBVIOUS
          <6>. QED BY <5>2, <6>1 DEF Has
        <5>. QED BY <3>3, <5>1, <5>3
      <4>2. CASE i # 0
        <5>1. u = g[i]
          BY <3>1, <3>5, <4>2
        <5>4. i + 1 # 1
          BY <3>1, <4>2
        <5>2. g[i + 1] = u \o ss[i + 1]
          BY <3>1, <3>2, <5>1, <5>4, Zenon DEF FlattenStep
        <5>3. u \o ss[i + 1] \in Seq(T) /\ \A x : Has(u, x) \/ Has(ss[i + 1], x) => Has(u \o ss[i + 1], x)
          BY <3>3, <3>5, JoinHas
        <5>. QED BY <5>2, <5>3
      <4>. QED BY <4>1, <4>2
    <3>7. \A k \in 1..(i + 1) : k \in 1..i \/ k = i + 1
      OBVIOUS
    <3>8. \A k \in 1..(i + 1) : \A x : Has(ss[k], x) => Has(w, x)
      BY <3>5, <3>6, <3>7
    <3>. QED BY <3>1, <3>4, <3>6, <3>8
  <2>5. c[n] \in J[n]
    <3>. HIDE DEF c, J
    <3>. QED BY <2>3, <2>4, StepByStep
  <2>. QED BY <1>2, <2>2, <2>5
<1>. QED BY <1>1, <1>2

-----------------------------------------------------------------------------
(* The mutations of a request.                                             *)

Mutated == [label : LabelNames \cup {NoName}, reason : Reasons, status : LabelStatus, expires : 1..Never]

(* Requests of the labels in LabelNames, or of none. *)
Asks(q) ==
  q \in Seq(Mutated) /\ NoName \notin LabelNames /\ \A i \in 1..Len(q) : q[i].label \in LabelNames \cup {NoName}

(* Of the first n mutations, those of l with the strongest status, and     *)
(* those that no label's are.                                              *)
Strong(q, l, n) ==
  {i \in 1..n : q[i].label = l /\ \A j \in 1..n : q[j].label = l => q[j].status <= q[i].status}
Others(q, n) == {i \in 1..n : \A l \in LabelNames : i \notin Strong(q, l, n)}

(* There is a mutation after the first n, and it is of l. *)
More(q, n) == Asks(q) /\ n + 1 <= Len(q)
IsOf(m, l) == m.label = l

(* A list of one element. *)
Sole(z, x, S) == z = <<x>> /\ z \in Seq(S) /\ Len(z) = 1 /\ z[1] = x

(* Every element is the only one of some list. *)
LEMMA SoleExists == ASSUME NEW S, NEW x \in S PROVE \E z : Sole(z, x, S)
<1>1. <<x>> \in Seq(S)
  OBVIOUS
<1>2. Len(<<x>>) = 1
  OBVIOUS
<1>3. <<x>>[1] = x
  OBVIOUS
<1>4. Sole(<<x>>, x, S)
  BY <1>1, <1>2, <1>3, Zenon DEF Sole
<1>. QED BY <1>4, Zenon

(* Mutations that are asked for. *)
LEMMA Asked ==
  ASSUME NEW q, NEW n \in Nat, More(q, n)
  PROVE  /\ n + 1 \in 1..Len(q) /\ q[n + 1] \in Mutated /\ q[n + 1].label \in LabelNames \cup {NoName} /\ NoName \notin LabelNames
         /\ \A i \in 1..n : q[i] \in Mutated
<1>0. q \in Seq(Mutated)
  BY DEF More, Asks
<1>1. n + 1 <= Len(q) /\ NoName \notin LabelNames /\ \A i \in 1..Len(q) : q[i].label \in LabelNames \cup {NoName}
  BY DEF More, Asks
<1>2. PICK m \in Nat : m = Len(q) /\ \A i \in 1..m : q[i] \in Mutated
  <2>1. Len(q) \in Nat
    BY <1>0
  <2>2. \A i \in 1..Len(q) : q[i] \in Mutated
    BY <1>0
  <2>. QED BY <2>1, <2>2
<1>3. n + 1 \in 1..m /\ \A i \in 1..n : i \in 1..m
  <2>1. n + 1 <= m
    BY <1>1, <1>2
  <2>. QED BY <2>1
<1>. QED BY <1>1, <1>2, <1>3

(* Statuses are ordered. *)
LEMMA StatusIsNat == ASSUME NEW m \in Mutated PROVE m.status \in Nat
<1>1. m.status \in 0..3
  BY DEF Mutated, LabelStatus, REMOVED, MANUALLY_ADDED
<1>. QED BY <1>1

(* So is the first of some mutations with another. *)
LEMMA HeadStatus ==
  ASSUME NEW k \in Seq(Mutated), NEW m \in Mutated
  PROVE  ~(k # <<>> /\ m.status > k[1].status /\ m.status < k[1].status)
<1>. SUFFICES ASSUME k # <<>> PROVE ~(m.status > k[1].status /\ m.status < k[1].status)
  OBVIOUS
<1>1. Len(k) # 0 /\ Len(k) \in Nat
  BY EmptySeq
<1>2. PICK e \in Mutated : e = k[1]
  BY <1>1
<1>3. PICK a, b \in Nat : a = m.status /\ b = e.status
  BY StatusIsNat
<1>. QED BY <1>2, <1>3

(* What one more mutation does to them. *)
LEMMA StrongStep ==
  ASSUME NEW q, Asks(q), NEW n \in Nat, n + 1 <= Len(q), NEW l \in LabelNames
  PROVE  /\ q[n + 1].label # l => Strong(q, l, n + 1) = Strong(q, l, n)
         /\ q[n + 1].label = l /\ (\A j \in 1..n : q[j].label # l) => Strong(q, l, n + 1) = {n + 1}
         /\ q[n + 1].label = l => \A a \in Strong(q, l, n) :
              /\ q[n + 1].status < q[a].status => Strong(q, l, n + 1) = Strong(q, l, n)
              /\ q[n + 1].status > q[a].status => Strong(q, l, n + 1) = {n + 1}
              /\ q[n + 1].status = q[a].status => Strong(q, l, n + 1) = Strong(q, l, n) \cup {n + 1}
<1>1. \A i \in 1..(n + 1) : q[i].status \in Nat /\ (i \in 1..n \/ i = n + 1)
  <2>0. q \in Seq(Mutated)
    BY DEF Asks
  <2>1. Len(q) \in Nat /\ \A i \in 1..Len(q) : q[i] \in Mutated
    BY <2>0
  <2>2. \A i \in 1..(n + 1) : i \in 1..Len(q)
    BY <2>1
  <2>. QED BY <2>1, <2>2, StatusIsNat
<1>2. \A i \in 1..n : i \in 1..(n + 1) /\ i # n + 1
  OBVIOUS
<1>3. n + 1 \in 1..(n + 1) /\ n + 1 \notin 1..n
  OBVIOUS
<1>4. q[n + 1].label # l => Strong(q, l, n + 1) = Strong(q, l, n)
  BY <1>1, <1>2, <1>3 DEF Strong
<1>5. q[n + 1].label = l /\ (\A j \in 1..n : q[j].label # l) => Strong(q, l, n + 1) = {n + 1}
  BY <1>1, <1>2, <1>3 DEF Strong
<1>6. ASSUME q[n + 1].label = l, NEW a \in Strong(q, l, n)
      PROVE  /\ q[n + 1].status < q[a].status => Strong(q, l, n + 1) = Strong(q, l, n)
             /\ q[n + 1].status > q[a].status => Strong(q, l, n + 1) = {n + 1}
             /\ q[n + 1].status = q[a].status => Strong(q, l, n + 1) = Strong(q, l, n) \cup {n + 1}
  <2>1. /\ a \in 1..n /\ q[a].label = l /\ \A j \in 1..n : q[j].label = l => q[j].status <= q[a].status
        /\ q[a].status \in Nat /\ q[n + 1].status \in Nat
    BY <1>1, <1>2, <1>3, <1>6 DEF Strong
  <2>2. \A i : i \in Strong(q, l, n) <=> i \in 1..n /\ q[i].label = l /\ q[i].status = q[a].status
    BY <1>1, <1>2, <2>1 DEF Strong
  <2>3. ASSUME NEW i \in 1..(n + 1)
        PROVE  i \in Strong(q, l, n + 1) <=> /\ q[i].label = l /\ q[i].status >= q[a].status
                                             /\ q[i].status >= q[n + 1].status
    BY <1>1, <1>2, <1>3, <1>6, <2>1 DEF Strong
  <2>4. Strong(q, l, n + 1) \subseteq 1..(n + 1)
    BY DEF Strong
  <2>5. ASSUME q[n + 1].status < q[a].status PROVE Strong(q, l, n + 1) = Strong(q, l, n)
    <3>1. ASSUME NEW i \in 1..n PROVE i \in Strong(q, l, n + 1) <=> i \in Strong(q, l, n)
      <4>1. q[i].label = l => q[i].status <= q[a].status /\ q[i].status \in Nat
        BY <1>1, <1>2, <2>1
      <4>2. i \in Strong(q, l, n + 1) <=> /\ q[i].label = l /\ q[i].status >= q[a].status
                                          /\ q[i].status >= q[n + 1].status
        BY <1>2, <2>3
      <4>. QED BY <2>1, <2>2, <2>5, <4>1, <4>2
    <3>2. n + 1 \notin Strong(q, l, n + 1)
      BY <1>3, <2>1, <2>3, <2>5
    <3>3. \A i : i \in Strong(q, l, n) => i \in 1..n
      BY <2>2
    <3>4. \A i : i \in Strong(q, l, n + 1) => i \in 1..n
      BY <1>1, <2>4, <3>2
    <3>. QED BY <3>1, <3>3, <3>4
  <2>6. ASSUME q[n + 1].status > q[a].status PROVE Strong(q, l, n + 1) = {n + 1}
    BY <1>1, <1>2, <1>3, <1>6, <2>1, <2>3, <2>4, <2>6
  <2>7. ASSUME q[n + 1].status = q[a].status PROVE Strong(q, l, n + 1) = Strong(q, l, n) \cup {n + 1}
    BY <1>1, <1>2, <1>3, <1>6, <2>1, <2>2, <2>3, <2>4, <2>7
  <2>. QED BY <2>5, <2>6, <2>7
<1>. QED BY <1>4, <1>5, <1>6

(* ... and to the others. *)
LEMMA OthersStep ==
  ASSUME NEW q, Asks(q), NEW n \in Nat, n + 1 <= Len(q)
  PROVE  /\ (\A l \in LabelNames : Strong(q, l, n + 1) = Strong(q, l, n)) =>
              Others(q, n + 1) = Others(q, n) \cup {n + 1}
         /\ \A l \in LabelNames : q[n + 1].label = l =>
              /\ Strong(q, l, n + 1) = Strong(q, l, n) \cup {n + 1} => Others(q, n + 1) = Others(q, n)
              /\ Strong(q, l, n + 1) = {n + 1} => Others(q, n + 1) = Others(q, n) \cup Strong(q, l, n)
<1>1. \A i : i \in 1..(n + 1) <=> i \in 1..n \/ i = n + 1
  OBVIOUS
<1>2. \A l \in LabelNames : Strong(q, l, n) \subseteq 1..n /\ n + 1 \notin Strong(q, l, n)
  BY DEF Strong
<1>3. (\A l \in LabelNames : Strong(q, l, n + 1) = Strong(q, l, n)) =>
        Others(q, n + 1) = Others(q, n) \cup {n + 1}
  BY <1>1, <1>2 DEF Others
<1>4. ASSUME NEW l \in LabelNames, q[n + 1].label = l
      PROVE  /\ Strong(q, l, n + 1) = Strong(q, l, n) \cup {n + 1} => Others(q, n + 1) = Others(q, n)
             /\ Strong(q, l, n + 1) = {n + 1} => Others(q, n + 1) = Others(q, n) \cup Strong(q, l, n)
  <2>1. \A k \in LabelNames : k # l => Strong(q, k, n + 1) = Strong(q, k, n)
    BY <1>4, StrongStep
  <2>2. \A k \in LabelNames : k # l => \A i \in Strong(q, l, n) : i \notin Strong(q, k, n)
    BY DEF Strong
  <2>3. n + 1 \notin 1..n
    OBVIOUS
  <2>4. ASSUME Strong(q, l, n + 1) = Strong(q, l, n) \cup {n + 1} PROVE Others(q, n + 1) = Others(q, n)
    BY <1>1, <1>2, <2>1, <2>3, <2>4 DEF Others
  <2>5. ASSUME Strong(q, l, n + 1) = {n + 1} PROVE Others(q, n + 1) = Others(q, n) \cup Strong(q, l, n)
    BY <1>1, <1>2, <2>1, <2>2, <2>3, <2>5 DEF Others
  <2>. QED BY <2>4, <2>5
<1>. QED BY <1>3, <1>4

(* r lists what p does, and x behind it. *)
Longer(r, p, x) == Len(r) = Len(p) + 1 /\ r[Len(p) + 1] = x /\ \A a \in 1..Len(p) : r[a] = p[a]

(* A list with one element more. *)
LEMMA OnceAppended ==
  ASSUME NEW S, NEW p, Once(p, S), NEW x, x \notin S
  PROVE  \E r : Once(r, S \cup {x}) /\ Longer(r, p, x)
<1>1. /\ p \in Seq(S) /\ (\A a, b \in 1..Len(p) : p[a] = p[b] => a = b) /\ \A y \in S : \E a \in 1..Len(p) : p[a] = y
  BY DEF Once
<1>2. PICK T : T = S \cup {x}
  OBVIOUS
<1>3. PICK m \in Nat : m = Len(p) /\ \A a \in 1..m : p[a] \in S
  BY <1>1
<1>4. p \in Seq(T)
  BY <1>1, <1>2, SeqMonotonic
<1>5. PICK r : r = Append(p, x)
  OBVIOUS
<1>6. r \in Seq(T) /\ Len(r) = m + 1 /\ r[m + 1] = x /\ \A a \in 1..m : r[a] = p[a]
  BY <1>2, <1>3, <1>4, <1>5, AppendProperties
<1>7. \A a \in 1..(m + 1) : a \in 1..m \/ a = m + 1
  OBVIOUS
<1>8. \A a, b \in 1..(m + 1) : r[a] = r[b] => a = b
  BY <1>1, <1>3, <1>6, <1>7
<1>9. \A y \in T : \E a \in 1..(m + 1) : r[a] = y
  <2>1. ASSUME NEW y \in S PROVE \E a \in 1..(m + 1) : r[a] = y
    <3>1. PICK a \in 1..m : p[a] = y
      BY <1>1, <1>3
    <3>2. a \in 1..(m + 1)
      OBVIOUS
    <3>. QED BY <1>6, <3>1, <3>2
  <2>2. m + 1 \in 1..(m + 1)
    OBVIOUS
  <2>. QED BY <1>2, <1>6, <2>1, <2>2
<1>10. Once(r, T)
  BY <1>6, <1>8, <1>9 DEF Once
<1>11. Longer(r, p, x)
  BY <1>3, <1>6 DEF Longer
<1>. QED BY <1>2, <1>10, <1>11

(* Two lists, one behind the other. *)
OnceBehind(t, S, p, T, r) ==
  /\ Once(t, S \cup T) /\ Len(t) = Len(p) + Len(r)
  /\ \A a \in 1..Len(p) : t[a] = p[a]
  /\ \A a \in 1..Len(r) : t[Len(p) + a] = r[a]

(* ... *)
LEMMA OnceJoined ==
  ASSUME NEW S, NEW p, Once(p, S), NEW T, NEW r, Once(r, T), S \cap T = {}
  PROVE  \E t : OnceBehind(t, S, p, T, r)
<1>1. PICK U : U = S \cup T
  OBVIOUS
<1>2. PICK l \in Nat, m \in Nat : l = Len(p) /\ m = Len(r)
  BY OnceCounts
<1>3. p \in Seq(S) /\ r \in Seq(T) /\ p \in Seq(U) /\ r \in Seq(U)
  BY <1>1, SeqMonotonic DEF Once
<1>4. (\A a \in 1..l : p[a] \in S) /\ \A a \in 1..m : r[a] \in T
  BY <1>2, <1>3
<1>5. PICK t : JoinOf(t, U, p, l, r, m)
  BY <1>2, <1>3, Joined
<1>6. t \in Seq(U) /\ Len(t) = l + m /\ (\A a \in 1..l : t[a] = p[a]) /\ \A a \in 1..m : t[l + a] = r[a]
  BY <1>5 DEF JoinOf
<1>7. /\ \A a, b \in 1..l : p[a] = p[b] => a = b
      /\ \A a, b \in 1..m : r[a] = r[b] => a = b
      /\ \A y \in S : \E a \in 1..l : p[a] = y
      /\ \A y \in T : \E a \in 1..m : r[a] = y
  BY <1>2 DEF Once
<1>8. ASSUME NEW a \in 1..(l + m), NEW b \in 1..(l + m), t[a] = t[b] PROVE a = b
  <2>1. ASSUME NEW c \in 1..(l + m) PROVE c \in 1..l \/ \E d \in 1..m : c = l + d
    <3>1. c \in 1..l \/ (c - l \in 1..m /\ c = l + (c - l))
      OBVIOUS
    <3>. QED BY <3>1
  <2>2. CASE a \in 1..l /\ b \in 1..l
    BY <1>6, <1>7, <1>8, <2>2
  <2>3. CASE \E c, d \in 1..m : a = l + c /\ b = l + d
    <3>1. PICK c, d \in 1..m : a = l + c /\ b = l + d
      BY <2>3
    <3>2. r[c] = r[d]
      BY <1>6, <1>8, <3>1
    <3>3. c = d
      BY <1>7, <3>2
    <3>. QED BY <3>1, <3>3
  <2>4. CASE a \in 1..l /\ \E d \in 1..m : b = l + d
    BY <1>4, <1>6, <1>8, <2>4
  <2>5. CASE b \in 1..l /\ \E d \in 1..m : a = l + d
    BY <1>4, <1>6, <1>8, <2>5
  <2>. QED BY <2>1, <2>2, <2>3, <2>4, <2>5
<1>9. ASSUME NEW y \in U PROVE \E a \in 1..(l + m) : t[a] = y
  <2>1. CASE y \in S
    <3>1. PICK a \in 1..l : p[a] = y
      BY <1>7, <2>1
    <3>2. a \in 1..(l + m)
      OBVIOUS
    <3>. QED BY <1>6, <3>1, <3>2
  <2>2. CASE y \in T
    <3>1. PICK a \in 1..m : r[a] = y
      BY <1>7, <2>2
    <3>2. l + a \in 1..(l + m)
      OBVIOUS
    <3>. QED BY <1>6, <3>1, <3>2
  <2>. QED BY <1>1, <2>1, <2>2
<1>10. Once(t, U)
  BY <1>6, <1>8, <1>9 DEF Once
<1>11. OnceBehind(t, S, p, T, r)
  BY <1>1, <1>2, <1>6, <1>10 DEF OnceBehind
<1>. QED BY <1>11

-----------------------------------------------------------------------------
(* One iteration of _get_mutations_by_label_name_and_drop_conflicts.       *)

Why == {"INVALID_LABEL_NAME", "CONFLICTING_MUTATION"}
Drops == [mutation : Mutated, why : Why]
Splits == [kept : [LabelNames -> Seq(Mutated)], dropped : Seq(Drops)]

(* p are the positions of what is kept, in order, or dropped. *)
KeptAt(k, q, S, p) ==
  /\ Once(p, S) /\ Len(p) = Len(k)
  /\ \A a \in 1..Len(p) : k[a] = q[p[a]]
  /\ \A a, b \in 1..Len(p) : a < b => p[a] < p[b]
DroppedAt(d, q, S, p) == Once(p, S) /\ Len(p) = Len(d) /\ \A a \in 1..Len(p) : d[a].mutation = q[p[a]]

(* The first n mutations have been split. *)
KeptOk(k, q, l, n) ==
  /\ \E p : KeptAt(k, q, Strong(q, l, n), p)
  /\ (\E i \in 1..n : q[i].label = l) => Len(k) # 0
SplitOk(x, q, n) ==
  /\ \A l \in LabelNames : KeptOk(x.kept[l], q, l, n)
  /\ \E p : DroppedAt(x.dropped, q, Others(q, n), p)

IsSplit(y) == y = [kept |-> y.kept, dropped |-> y.dropped]

(* What is reported of mutations that give way to a stronger one. *)
Conflicts(k) == [i \in DOMAIN k |-> Dropped(k[i], "CONFLICTING_MUTATION")]

(* What an iteration does: y is x after the mutation m. *)
AddOf(y, x, m) ==
  /\ IsSplit(y)
  /\ m.label = NoName => /\ y.kept = x.kept
                     /\ \E d \in Drops : d.mutation = m /\ y.dropped = Append(x.dropped, d)
  /\ m.label \in LabelNames => \E k \in Seq(Mutated) : k = x.kept[m.label] /\
       \/ /\ k # <<>> /\ m.status > k[1].status
          /\ y.kept = [x.kept EXCEPT ![m.label] = <<m>>]
          /\ y.dropped = x.dropped \o Conflicts(k)
       \/ /\ k # <<>> /\ m.status < k[1].status
          /\ y.kept = x.kept
          /\ \E d \in Drops : d.mutation = m /\ y.dropped = Append(x.dropped, d)
       \/ /\ k = <<>> \/ ~(m.status < k[1].status \/ m.status > k[1].status)
          /\ y.kept = [x.kept EXCEPT ![m.label] = Append(k, m)]
          /\ y.dropped = x.dropped

(* AddMutation does that. *)
LEMMA AddMutationIs ==
  ASSUME NEW x \in Splits, NEW m \in Mutated, m.label \in LabelNames \cup {NoName}, NoName \notin LabelNames
  PROVE  AddOf(AddMutation(x, m), x, m)
<1>0. PICK y : y = AddMutation(x, m)
  OBVIOUS
<1>1. PICK kept \in [LabelNames -> Seq(Mutated)], dropped \in Seq(Drops) : x = [kept |-> kept, dropped |-> dropped]
  BY DEF Splits
<1>2. ASSUME NEW why \in Why PROVE Dropped(m, why) \in Drops /\ Dropped(m, why).mutation = m
  BY DEF Dropped, Drops
<1>3. x.kept = kept /\ x.dropped = dropped
  BY <1>1
<1>4. ASSUME m.label = NoName
      PROVE  IsSplit(y) /\ y.kept = kept /\ \E d \in Drops : d.mutation = m /\ y.dropped = Append(dropped, d)
  <2>1. PICK d \in Drops : d = Dropped(m, "INVALID_LABEL_NAME") /\ d.mutation = m
    BY <1>2 DEF Why
  <2>2. y = [x EXCEPT !.dropped = Append(@, d)]
    BY <1>0, <1>4, <2>1 DEF AddMutation
  <2>3. IsSplit(y)
    BY <1>1, <2>2 DEF IsSplit
  <2>. QED BY <1>1, <2>1, <2>2, <2>3
<1>5. ASSUME m.label \in LabelNames
      PROVE  IsSplit(y) /\ \E k \in Seq(Mutated) : k = kept[m.label] /\
              \/ /\ k # <<>> /\ m.status > k[1].status
                 /\ y.kept = [kept EXCEPT ![m.label] = <<m>>]
                 /\ y.dropped = dropped \o Conflicts(k)
              \/ /\ k # <<>> /\ m.status < k[1].status
                 /\ y.kept = kept
                 /\ \E d \in Drops : d.mutation = m /\ y.dropped = Append(dropped, d)
              \/ /\ k = <<>> \/ ~(m.status < k[1].status \/ m.status > k[1].status)
                 /\ y.kept = [kept EXCEPT ![m.label] = Append(k, m)]
                 /\ y.dropped = dropped
  <2>1. PICK k \in Seq(Mutated) : k = kept[m.label]
    BY <1>5
  <2>2. PICK d \in Drops : d = Dropped(m, "CONFLICTING_MUTATION") /\ d.mutation = m
    BY <1>2 DEF Why
  <2>3. PICK ds : ds = Conflicts(k)
    OBVIOUS
  <2>4. m.label # NoName
    BY <1>5
  <2>5. \/ /\ k # <<>> /\ m.status > k[1].status
           /\ y = [kept |-> [kept EXCEPT ![m.label] = <<m>>], dropped |-> dropped \o ds]
        \/ /\ k # <<>> /\ m.status < k[1].status
           /\ y = [x EXCEPT !.dropped = Append(@, d)]
        \/ /\ ~(k # <<>> /\ m.status > k[1].status) /\ ~(k # <<>> /\ m.status < k[1].status)
           /\ y = [x EXCEPT !.kept[m.label] = Append(@, m)]
    <3>1. ~(k # <<>> /\ m.status > k[1].status /\ m.status < k[1].status)
      BY <2>1, HeadStatus
    <3>2. y = CASE k # <<>> /\ m.status > k[1].status ->
                     [kept |-> [kept EXCEPT ![m.label] = <<m>>], dropped |-> dropped \o ds]
                [] k # <<>> /\ m.status < k[1].status -> [x EXCEPT !.dropped = Append(@, d)]
                [] OTHER -> [x EXCEPT !.kept[m.label] = Append(@, m)]
      BY <1>0, <1>3, <2>1, <2>2, <2>3, <2>4, Zenon DEF AddMutation, Conflicts
    <3>3. PICK u, v, w : /\ u = [kept |-> [kept EXCEPT ![m.label] = <<m>>], dropped |-> dropped \o ds]
                         /\ v = [x EXCEPT !.dropped = Append(@, d)]
                         /\ w = [x EXCEPT !.kept[m.label] = Append(@, m)]
      OBVIOUS
    <3>4. PICK more, less \in BOOLEAN : more = (k # <<>> /\ m.status > k[1].status) /\ less = (k # <<>> /\ m.status < k[1].status)
      OBVIOUS
    <3>5. y = CASE more -> u [] less -> v [] OTHER -> w
      BY <3>2, <3>3, <3>4, Zenon
    <3>6. (more /\ y = u) \/ (less /\ y = v) \/ (~more /\ ~less /\ y = w)
      <4>1. ~(more /\ less)
        BY <3>1, <3>4, Zenon
      <4>. QED BY <3>5, <4>1
    <3>. QED BY <3>3, <3>4, <3>6, Zenon
  <2>6. CASE /\ k # <<>> /\ m.status > k[1].status
             /\ y = [kept |-> [kept EXCEPT ![m.label] = <<m>>], dropped |-> dropped \o ds]
    <3>0. PICK u, v : u = [kept EXCEPT ![m.label] = <<m>>] /\ v = dropped \o ds
      OBVIOUS
    <3>1. y.kept = u /\ y.dropped = v /\ IsSplit(y)
      BY <2>6, <3>0 DEF IsSplit
    <3>2. /\ y.kept = [kept EXCEPT ![m.label] = <<m>>]
          /\ y.dropped = dropped \o Conflicts(k)
      BY <2>3, <3>0, <3>1, Zenon
    <3>. QED BY <2>1, <2>6, <3>1, <3>2, Zenon
  <2>7. CASE /\ k # <<>> /\ m.status < k[1].status
             /\ y = [x EXCEPT !.dropped = Append(@, d)]
    <3>1. y.kept = kept /\ y.dropped = Append(dropped, d) /\ IsSplit(y)
      BY <1>1, <2>7 DEF IsSplit
    <3>. QED BY <2>1, <2>2, <2>7, <3>1
  <2>8. CASE /\ ~(k # <<>> /\ m.status > k[1].status) /\ ~(k # <<>> /\ m.status < k[1].status)
             /\ y = [x EXCEPT !.kept[m.label] = Append(@, m)]
    <3>1. y.kept = [kept EXCEPT ![m.label] = Append(k, m)] /\ y.dropped = dropped /\ IsSplit(y)
      BY <1>1, <2>1, <2>8 DEF IsSplit
    <3>. QED BY <2>1, <2>8, <3>1
  <2>. QED BY <2>5, <2>6, <2>7, <2>8
<1>6. IsSplit(y)
  BY <1>4, <1>5
<1>7. AddOf(y, x, m)
  BY <1>3, <1>4, <1>5, <1>6, Zenon DEF AddOf
<1>. QED BY <1>0, <1>7

(* What is dropped is recorded with its mutation. *)
LEMMA DropsRecorded ==
  ASSUME NEW k \in Seq(Mutated)
  PROVE  /\ Conflicts(k) \in Seq(Drops) /\ Len(Conflicts(k)) = Len(k)
         /\ \A i \in 1..Len(k) : Conflicts(k)[i].mutation = k[i]
<1>0. PICK e : e = Conflicts(k)
  OBVIOUS
<1>1. Len(k) \in Nat /\ DOMAIN k = 1..Len(k) /\ \A i \in 1..Len(k) : k[i] \in Mutated
  BY LenProperties
<1>2. ASSUME NEW m \in Mutated PROVE Dropped(m, "CONFLICTING_MUTATION") \in Drops
                                     /\ Dropped(m, "CONFLICTING_MUTATION").mutation = m
  BY DEF Dropped, Drops, Why
<1>3. e \in [1..Len(k) -> Drops] /\ \A i \in 1..Len(k) : e[i].mutation = k[i]
  BY <1>0, <1>1, <1>2 DEF Conflicts
<1>4. e \in Seq(Drops) /\ Len(e) = Len(k)
  BY <1>1, <1>3, SeqDef
<1>. QED BY <1>0, <1>3, <1>4

(* An iteration yields a split again. *)
LEMMA AddCloses ==
  ASSUME NEW x \in Splits, NEW m \in Mutated, m.label \in LabelNames \cup {NoName}, NoName \notin LabelNames
  PROVE  AddMutation(x, m) \in Splits
<1>1. PICK y : y = AddMutation(x, m) /\ AddOf(y, x, m)
  BY AddMutationIs
<1>2. PICK kept \in [LabelNames -> Seq(Mutated)], dropped \in Seq(Drops) : x.kept = kept /\ x.dropped = dropped
  BY DEF Splits
<1>3. y.kept \in [LabelNames -> Seq(Mutated)] /\ y.dropped \in Seq(Drops)
  <2>1. CASE m.label = NoName
    <3>1. PICK d \in Drops : y.kept = kept /\ y.dropped = Append(dropped, d)
      BY <1>1, <1>2, <2>1 DEF AddOf
    <3>2. Append(dropped, d) \in Seq(Drops)
      BY <1>2, <3>1, AppendProperties
    <3>. QED BY <3>1, <3>2
  <2>2. CASE m.label \in LabelNames
    <3>0. PICK k \in Seq(Mutated) :
            \/ /\ y.kept = [kept EXCEPT ![m.label] = <<m>>]
               /\ y.dropped = dropped \o Conflicts(k)
            \/ y.kept = kept /\ \E d \in Drops : y.dropped = Append(dropped, d)
            \/ y.kept = [kept EXCEPT ![m.label] = Append(k, m)] /\ y.dropped = dropped
      BY <1>1, <1>2, <2>2, Zenon DEF AddOf
    <3>5. PICK e : e = Conflicts(k)
      OBVIOUS
    <3>1.   \/ y.kept = [kept EXCEPT ![m.label] = <<m>>] /\ y.dropped = dropped \o e
            \/ y.kept = kept /\ \E d \in Drops : y.dropped = Append(dropped, d)
            \/ y.kept = [kept EXCEPT ![m.label] = Append(k, m)] /\ y.dropped = dropped
      BY <3>0, <3>5, Zenon
    <3>7. k \in Seq(Mutated)
      BY <3>0
    <3>6. e \in Seq(Drops)
      BY <3>5, <3>7, DropsRecorded
    <3>8. m \in Mutated
      OBVIOUS
    <3>9. Append(k, m) \in Seq(Mutated)
      BY <3>7, <3>8, AppendProperties
    <3>10. \E z : Sole(z, m, Mutated)
      BY <3>8, SoleExists, Zenon
    <3>2. <<m>> \in Seq(Mutated) /\ Append(k, m) \in Seq(Mutated)
      BY <3>9, <3>10, Zenon DEF Sole
    <3>3. dropped \o e \in Seq(Drops) /\ \A d \in Drops : Append(dropped, d) \in Seq(Drops)
      BY <1>2, <3>6, ConcatProperties, AppendProperties
    <3>4. \A l \in Seq(Mutated) : [kept EXCEPT ![m.label] = l] \in [LabelNames -> Seq(Mutated)]
      BY <1>2, <2>2
    <3>. QED BY <1>2, <3>1, <3>2, <3>3, <3>4
  <2>. QED BY <2>1, <2>2
<1>4. y \in Splits
  <2>1. y = [kept |-> y.kept, dropped |-> y.dropped]
    BY <1>1 DEF AddOf, IsSplit
  <2>. QED BY <1>3, <2>1 DEF Splits
<1>. QED BY <1>1, <1>4

(* What is kept of a label that a mutation does not change. *)
LEMMA SameKept ==
  ASSUME NEW q, NEW n \in Nat, NEW l, NEW k, NEW p, KeptAt(k, q, Strong(q, l, n), p),
         Strong(q, l, n + 1) = Strong(q, l, n)
  PROVE  KeptAt(k, q, Strong(q, l, n + 1), p)
OBVIOUS

(* The positions of what is kept, and of one more mutation. *)
LEMMA MoreKept ==
  ASSUME NEW q, NEW n \in Nat, NEW l, NEW k \in Seq(Mutated), NEW p, KeptAt(k, q, Strong(q, l, n), p),
         q[n + 1] \in Mutated, Strong(q, l, n + 1) = Strong(q, l, n) \cup {n + 1}
  PROVE  \E r : KeptAt(Append(k, q[n + 1]), q, Strong(q, l, n + 1), r)
<1>1. PICK S : S = Strong(q, l, n) /\ S \subseteq 1..n /\ n + 1 \notin S
  <2>1. Strong(q, l, n) \subseteq 1..n
    BY DEF Strong
  <2>2. n + 1 \notin 1..n
    OBVIOUS
  <2>. QED BY <2>1, <2>2
<1>2. /\ Once(p, S) /\ Len(p) = Len(k) /\ (\A a \in 1..Len(p) : k[a] = q[p[a]])
      /\ \A a, b \in 1..Len(p) : a < b => p[a] < p[b]
  BY <1>1 DEF KeptAt
<1>3. PICK r : Once(r, S \cup {n + 1}) /\ Longer(r, p, n + 1)
  BY <1>1, <1>2, OnceAppended
<1>4. PICK m \in Nat : m = Len(p)
  BY <1>2, OnceCounts
<1>5. Len(r) = m + 1 /\ r[m + 1] = n + 1 /\ \A a \in 1..m : r[a] = p[a]
  BY <1>3, <1>4 DEF Longer
<1>6. PICK t : t = Append(k, q[n + 1]) /\ Len(t) = m + 1 /\ t[m + 1] = q[n + 1] /\ \A a \in 1..m : t[a] = k[a]
  <2>1. /\ Len(Append(k, q[n + 1])) = Len(k) + 1 /\ Append(k, q[n + 1])[Len(k) + 1] = q[n + 1]
        /\ \A a \in 1..Len(k) : Append(k, q[n + 1])[a] = k[a]
    BY AppendProperties
  <2>. QED BY <1>2, <1>4, <2>1
<1>7. \A a \in 1..(m + 1) : a \in 1..m \/ a = m + 1
  BY <1>4
<1>8. \A a \in 1..(m + 1) : t[a] = q[r[a]]
  BY <1>2, <1>4, <1>5, <1>6, <1>7
<1>9. ASSUME NEW a \in 1..(m + 1), NEW b \in 1..(m + 1), a < b PROVE r[a] < r[b]
  <2>1. a \in 1..m
    BY <1>4, <1>9
  <2>2. CASE b \in 1..m
    BY <1>2, <1>4, <1>5, <1>9, <2>1, <2>2
  <2>3. CASE b = m + 1
    <3>1. p[a] \in 1..n
      <4>1. p[a] \in S
        BY <1>2, <1>4, <2>1 DEF Once
      <4>. QED BY <1>1, <4>1
    <3>. QED BY <1>5, <2>1, <2>3, <3>1
  <2>. QED BY <1>7, <2>2, <2>3
<1>10. KeptAt(t, q, S \cup {n + 1}, r)
  BY <1>3, <1>5, <1>6, <1>8, <1>9 DEF KeptAt
<1>. QED BY <1>1, <1>6, <1>10

(* The positions of what is dropped, and of one more mutation. *)
LEMMA MoreDropped ==
  ASSUME NEW q, NEW n \in Nat, NEW ds \in Seq(Drops), NEW p, DroppedAt(ds, q, Others(q, n), p),
         NEW d \in Drops, d.mutation = q[n + 1], Others(q, n + 1) = Others(q, n) \cup {n + 1}
  PROVE  \E r : DroppedAt(Append(ds, d), q, Others(q, n + 1), r)
<1>1. PICK S : S = Others(q, n) /\ n + 1 \notin S
  <2>1. Others(q, n) \subseteq 1..n
    BY DEF Others
  <2>2. n + 1 \notin 1..n
    OBVIOUS
  <2>. QED BY <2>1, <2>2
<1>2. Once(p, S) /\ Len(p) = Len(ds) /\ \A a \in 1..Len(p) : ds[a].mutation = q[p[a]]
  BY <1>1 DEF DroppedAt
<1>3. PICK r : Once(r, S \cup {n + 1}) /\ Longer(r, p, n + 1)
  BY <1>1, <1>2, OnceAppended
<1>4. PICK m \in Nat : m = Len(p)
  BY <1>2, OnceCounts
<1>5. Len(r) = m + 1 /\ r[m + 1] = n + 1 /\ \A a \in 1..m : r[a] = p[a]
  BY <1>3, <1>4 DEF Longer
<1>6. PICK t : t = Append(ds, d) /\ Len(t) = m + 1 /\ t[m + 1] = d /\ \A a \in 1..m : t[a] = ds[a]
  <2>1. /\ Len(Append(ds, d)) = Len(ds) + 1 /\ Append(ds, d)[Len(ds) + 1] = d
        /\ \A a \in 1..Len(ds) : Append(ds, d)[a] = ds[a]
    BY AppendProperties
  <2>. QED BY <1>2, <1>4, <2>1
<1>7. \A a \in 1..(m + 1) : a \in 1..m \/ a = m + 1
  BY <1>4
<1>8. \A a \in 1..(m + 1) : t[a].mutation = q[r[a]]
  BY <1>2, <1>4, <1>5, <1>6, <1>7
<1>9. DroppedAt(t, q, S \cup {n + 1}, r)
  BY <1>3, <1>5, <1>6, <1>8 DEF DroppedAt
<1>. QED BY <1>1, <1>6, <1>9

(* The positions of what is dropped, and of all that was kept of a label. *)
LEMMA AllDropped ==
  ASSUME NEW q, NEW ds \in Seq(Drops), NEW S, NEW p, DroppedAt(ds, q, S, p), NEW k \in Seq(Mutated), NEW T, NEW r,
         KeptAt(k, q, T, r), S \cap T = {}
  PROVE  \E u : DroppedAt(ds \o Conflicts(k), q, S \cup T, u)
<1>0. PICK e : e = Conflicts(k)
  OBVIOUS
<1>1. Once(p, S) /\ Len(p) = Len(ds) /\ \A a \in 1..Len(p) : ds[a].mutation = q[p[a]]
  BY DEF DroppedAt
<1>2. Once(r, T) /\ Len(r) = Len(k) /\ \A a \in 1..Len(r) : k[a] = q[r[a]]
  BY DEF KeptAt
<1>3. PICK l \in Nat, m \in Nat : l = Len(p) /\ m = Len(r)
  BY <1>1, <1>2, OnceCounts
<1>4. e \in Seq(Drops) /\ Len(e) = m /\ \A a \in 1..m : e[a].mutation = k[a]
  <2>1. e \in Seq(Drops) /\ Len(e) = Len(k) /\ \A i \in 1..Len(k) : e[i].mutation = k[i]
    BY <1>0, DropsRecorded
  <2>. QED BY <1>2, <1>3, <2>1
<1>5. PICK u : /\ Once(u, S \cup T) /\ Len(u) = l + m
               /\ (\A a \in 1..l : u[a] = p[a]) /\ \A a \in 1..m : u[l + a] = r[a]
  <2>1. Once(p, S)
    BY <1>1
  <2>2. Once(r, T)
    BY <1>2
  <2>3. PICK u : OnceBehind(u, S, p, T, r)
    BY <2>1, <2>2, OnceJoined
  <2>. QED BY <1>3, <2>3 DEF OnceBehind
<1>6. PICK t : t = ds \o e /\ JoinOf(t, Drops, ds, l, e, m)
  <2>1. ds \in Seq(Drops) /\ Len(ds) = l /\ e \in Seq(Drops) /\ Len(e) = m
    BY <1>1, <1>3, <1>4
  <2>. QED BY <2>1, Joined
<1>7. Len(t) = l + m /\ (\A a \in 1..l : t[a] = ds[a]) /\ \A a \in 1..m : t[l + a] = e[a]
  BY <1>6 DEF JoinOf
<1>8. ASSUME NEW a \in 1..(l + m) PROVE t[a].mutation = q[u[a]]
  <2>1. CASE a \in 1..l
    BY <1>1, <1>3, <1>5, <1>7, <2>1
  <2>2. CASE a \notin 1..l
    <3>1. PICK b \in 1..m : a = l + b
      <4>1. a - l \in 1..m /\ a = l + (a - l)
        BY <1>3, <2>2
      <4>. QED BY <4>1
    <3>2. t[a] = e[b] /\ u[a] = r[b]
      BY <1>5, <1>7, <3>1
    <3>3. e[b].mutation = q[r[b]]
      BY <1>2, <1>3, <1>4, <3>1
    <3>. QED BY <3>2, <3>3
  <2>. QED BY <2>1, <2>2
<1>9. DroppedAt(t, q, S \cup T, u)
  BY <1>5, <1>7, <1>8 DEF DroppedAt
<1>. QED BY <1>0, <1>6, <1>9

(* The strongest of other labels stay. *)
LEMMA StrongSame ==
  ASSUME NEW q, NEW n \in Nat, More(q, n), NEW j \in LabelNames, ~IsOf(q[n + 1], j)
  PROVE  Strong(q, j, n + 1) = Strong(q, j, n)
<1>1. Asks(q) /\ n + 1 <= Len(q) /\ q[n + 1].label # j
  BY DEF More, IsOf
<1>. QED BY <1>1, StrongStep

(* A mutation is of one label. *)
LEMMA OneLabel == ASSUME NEW m, NEW l, IsOf(m, l), NEW j, j # l PROVE ~IsOf(m, j)
BY DEF IsOf

(* The others, when a mutation joins the strongest or replaces them. *)
LEMMA OthersSame ==
  ASSUME NEW q, NEW n \in Nat, More(q, n), NEW l \in LabelNames, IsOf(q[n + 1], l),
         Strong(q, l, n + 1) = Strong(q, l, n) \cup {n + 1}
  PROVE  Others(q, n + 1) = Others(q, n)
<1>1. Asks(q) /\ n + 1 <= Len(q) /\ q[n + 1].label = l
  BY DEF More, IsOf
<1>. QED BY <1>1, OthersStep

(* ... *)
LEMMA OthersGrow ==
  ASSUME NEW q, NEW n \in Nat, More(q, n), NEW l \in LabelNames, IsOf(q[n + 1], l),
         Strong(q, l, n + 1) = {n + 1}
  PROVE  Others(q, n + 1) = Others(q, n) \cup Strong(q, l, n)
<1>1. Asks(q) /\ n + 1 <= Len(q) /\ q[n + 1].label = l
  BY DEF More, IsOf
<1>. QED BY <1>1, OthersStep

(* What a mutation does to the strongest of its label. *)
LEMMA StrongJoins ==
  ASSUME NEW q, NEW n \in Nat, More(q, n), NEW l \in LabelNames, IsOf(q[n + 1], l),
         NEW a \in Strong(q, l, n)
  PROVE  /\ q[n + 1].status < q[a].status => Strong(q, l, n + 1) = Strong(q, l, n)
         /\ q[n + 1].status > q[a].status => Strong(q, l, n + 1) = {n + 1}
         /\ q[n + 1].status = q[a].status => Strong(q, l, n + 1) = Strong(q, l, n) \cup {n + 1}
<1>1. Asks(q) /\ n + 1 <= Len(q) /\ q[n + 1].label = l
  BY DEF More, IsOf
<1>. QED BY <1>1, StrongStep

(* ... and the first of a label. *)
LEMMA StrongFirst ==
  ASSUME NEW q, NEW n \in Nat, More(q, n), NEW l \in LabelNames, IsOf(q[n + 1], l),
         \A j \in 1..n : q[j].label # l
  PROVE  Strong(q, l, n + 1) = {n + 1}
<1>1. Asks(q) /\ n + 1 <= Len(q) /\ q[n + 1].label = l
  BY DEF More, IsOf
<1>. QED BY <1>1, StrongStep

(* What is kept of other labels stays. *)
LEMMA OthersKept ==
  ASSUME NEW q, NEW n \in Nat, More(q, n), NEW j \in LabelNames, ~IsOf(q[n + 1], j), NEW k, KeptOk(k, q, j, n)
  PROVE  KeptOk(k, q, j, n + 1)
<1>1. Strong(q, j, n + 1) = Strong(q, j, n)
  BY StrongSame
<1>2. \E p : KeptAt(k, q, Strong(q, j, n + 1), p)
  BY <1>1 DEF KeptOk
<1>3. ASSUME NEW i \in 1..(n + 1), q[i].label = j PROVE Len(k) # 0
  <2>1. i \in 1..n \/ i = n + 1
    OBVIOUS
  <2>2. q[n + 1].label # j
    BY DEF IsOf
  <2>3. i \in 1..n
    BY <1>3, <2>1, <2>2
  <2>. QED BY <1>3, <2>3 DEF KeptOk
<1>. QED BY <1>2, <1>3 DEF KeptOk

(* A mutation weaker than what its label keeps, or of no label, is dropped. *)
LEMMA WeakerIsDropped ==
  ASSUME NEW q, NEW n \in Nat, More(q, n), NEW x \in Splits, NEW y,
         SplitOk(x, q, n), y.kept = x.kept, NEW d \in Drops, d.mutation = q[n + 1],
         y.dropped = Append(x.dropped, d), \A l \in LabelNames : Strong(q, l, n + 1) = Strong(q, l, n),
         \A l \in LabelNames : q[n + 1].label = l => Len(x.kept[l]) # 0
  PROVE  SplitOk(y, q, n + 1)
<1>1. ASSUME NEW l \in LabelNames PROVE KeptOk(y.kept[l], q, l, n + 1)
  <2>1. \A i \in 1..(n + 1) : i \in 1..n \/ i = n + 1
    OBVIOUS
  <2>2. KeptOk(x.kept[l], q, l, n)
    BY DEF SplitOk
  <2>. QED BY <2>1, <2>2 DEF KeptOk
<1>3. \E p : DroppedAt(y.dropped, q, Others(q, n + 1), p)
  <2>1. PICK p : DroppedAt(x.dropped, q, Others(q, n), p)
    BY DEF SplitOk
  <2>2. Others(q, n + 1) = Others(q, n) \cup {n + 1}
    BY OthersStep DEF More
  <2>3. PICK ds \in Seq(Drops) : ds = x.dropped
    BY DEF Splits
  <2>4. PICK r : DroppedAt(Append(ds, d), q, Others(q, n + 1), r)
    BY <2>1, <2>2, <2>3, MoreDropped
  <2>. QED BY <2>3, <2>4
<1>. QED BY <1>1, <1>3 DEF SplitOk

(* One that is as strong, or the first of its label, is kept too. *)
LEMMA EqualIsKept ==
  ASSUME NEW q, NEW n \in Nat, More(q, n), NEW x \in Splits, NEW y,
         SplitOk(x, q, n), NEW l \in LabelNames, IsOf(q[n + 1], l), y.dropped = x.dropped,
         y.kept = [x.kept EXCEPT ![l] = Append(x.kept[l], q[n + 1])],
         Strong(q, l, n + 1) = Strong(q, l, n) \cup {n + 1}
  PROVE  SplitOk(y, q, n + 1)
<1>0. PICK kept \in [LabelNames -> Seq(Mutated)] : kept = x.kept
  BY DEF Splits
<1>1. PICK k \in Seq(Mutated) : k = kept[l]
  BY <1>0
<1>2. q[n + 1] \in Mutated
  BY Asked
<1>3. PICK z \in Seq(Mutated) : z = Append(k, q[n + 1]) /\ Len(z) # 0
  <2>1. Append(k, q[n + 1]) \in Seq(Mutated) /\ Len(Append(k, q[n + 1])) = Len(k) + 1 /\ Len(k) \in Nat
    BY <1>1, <1>2, AppendProperties
  <2>2. Len(Append(k, q[n + 1])) # 0
    BY <2>1
  <2>. QED BY <2>1, <2>2
<1>4. y.kept[l] = z /\ \A j \in LabelNames : j # l => y.kept[j] = kept[j]
  BY <1>0, <1>1, <1>3
<1>5. \A j \in LabelNames : KeptOk(kept[j], q, j, n)
  BY <1>0 DEF SplitOk
<1>6. KeptOk(z, q, l, n + 1)
  <2>1. PICK p : KeptAt(k, q, Strong(q, l, n), p)
    BY <1>1, <1>5 DEF KeptOk
  <2>2. PICK r : KeptAt(Append(k, q[n + 1]), q, Strong(q, l, n + 1), r)
    BY <1>1, <1>2, <2>1, MoreKept, Zenon
  <2>. QED BY <1>3, <2>2, Zenon DEF KeptOk
<1>7. ASSUME NEW j \in LabelNames PROVE KeptOk(y.kept[j], q, j, n + 1)
  <2>1. CASE j = l
    BY <1>4, <1>6, <2>1
  <2>2. CASE j # l
    <3>1. PICK i \in Seq(Mutated) : i = kept[j] /\ i = y.kept[j]
      BY <1>0, <1>4, <2>2
    <3>2. ~IsOf(q[n + 1], j)
      BY <2>2, OneLabel
    <3>3. KeptOk(i, q, j, n)
      BY <1>5, <3>1
    <3>4. KeptOk(i, q, j, n + 1)
      BY <3>2, <3>3, OthersKept
    <3>. QED BY <3>1, <3>4
  <2>. QED BY <2>1, <2>2
<1>8. Others(q, n + 1) = Others(q, n)
  BY OthersSame
<1>9. \E p : DroppedAt(y.dropped, q, Others(q, n + 1), p)
  BY <1>8 DEF SplitOk
<1>. QED BY <1>7, <1>9, Zenon DEF SplitOk

(* A stronger one takes the place of what its label kept. *)
LEMMA StrongerReplaces ==
  ASSUME NEW q, NEW n \in Nat, More(q, n), NEW x \in Splits, NEW y,
         SplitOk(x, q, n), NEW l \in LabelNames, IsOf(q[n + 1], l),
         y.kept = [x.kept EXCEPT ![l] = <<q[n + 1]>>], y.dropped = x.dropped \o Conflicts(x.kept[l]),
         Strong(q, l, n + 1) = {n + 1}
  PROVE  SplitOk(y, q, n + 1)
<1>0. PICK kept \in [LabelNames -> Seq(Mutated)] : kept = x.kept
  BY DEF Splits
<1>1. PICK k \in Seq(Mutated) : k = kept[l]
  BY <1>0
<1>2. q[n + 1] \in Mutated
  BY Asked
<1>3. PICK z : Sole(z, q[n + 1], Mutated)
  BY <1>2, SoleExists, Zenon
<1>4. z = <<q[n + 1]>>
  BY <1>3, Zenon DEF Sole
<1>5. y.kept = [kept EXCEPT ![l] = z]
  BY <1>0, <1>4, Zenon
<1>6. y.kept[l] = z /\ \A j \in LabelNames : j # l => y.kept[j] = kept[j]
  BY <1>0, <1>5
<1>12. \A j \in LabelNames : KeptOk(kept[j], q, j, n)
  BY <1>0 DEF SplitOk
<1>7. \E p : KeptAt(z, q, Strong(q, l, n + 1), p)
  <2>1. PICK p : Sole(p, n + 1, {n + 1})
    BY SoleExists
  <2>2. (\A a \in 1..1 : a = 1) /\ 1 \in 1..1
    OBVIOUS
  <2>3. p \in Seq({n + 1}) /\ Len(p) = 1 /\ p[1] = n + 1
    BY <2>1, Zenon DEF Sole
  <2>4. Once(p, {n + 1})
    BY <2>2, <2>3 DEF Once
  <2>5. Len(z) = 1 /\ z[1] = q[n + 1]
    BY <1>3, Zenon DEF Sole
  <2>6. \A a, b \in 1..1 : a < b => p[a] < p[b]
    OBVIOUS
  <2>7. KeptAt(z, q, {n + 1}, p)
    BY <2>2, <2>3, <2>4, <2>5, <2>6 DEF KeptAt
  <2>. QED BY <2>7
<1>8. KeptOk(z, q, l, n + 1)
  <2>1. Len(z) = 1
    BY <1>3, Zenon DEF Sole
  <2>2. Len(z) # 0
    BY <2>1
  <2>. QED BY <1>7, <2>2, Zenon DEF KeptOk
<1>9. ASSUME NEW j \in LabelNames PROVE KeptOk(y.kept[j], q, j, n + 1)
  <2>1. CASE j = l
    BY <1>6, <1>8, <2>1, Zenon
  <2>2. CASE j # l
    <3>1. PICK i \in Seq(Mutated) : i = kept[j] /\ i = y.kept[j]
      BY <1>0, <1>6, <2>2
    <3>2. ~IsOf(q[n + 1], j)
      BY <2>2, OneLabel
    <3>3. KeptOk(i, q, j, n)
      BY <1>12, <3>1
    <3>4. KeptOk(i, q, j, n + 1)
      BY <3>2, <3>3, OthersKept
    <3>. QED BY <3>1, <3>4
  <2>. QED BY <2>1, <2>2
<1>10. Others(q, n + 1) = Others(q, n) \cup Strong(q, l, n)
  BY OthersGrow
<1>11. \E p : DroppedAt(y.dropped, q, Others(q, n + 1), p)
  <2>1. PICK p : DroppedAt(x.dropped, q, Others(q, n), p)
    BY DEF SplitOk
  <2>2. PICK r : KeptAt(k, q, Strong(q, l, n), r)
    BY <1>1, <1>12 DEF KeptOk
  <2>3. PICK S, T : S = Others(q, n) /\ T = Strong(q, l, n)
    OBVIOUS
  <2>4. S \cap T = {}
    BY <2>3 DEF Others
  <2>5. PICK ds \in Seq(Drops) : ds = x.dropped
    BY DEF Splits
  <2>7. DroppedAt(ds, q, S, p) /\ KeptAt(k, q, T, r)
    BY <2>1, <2>2, <2>3, <2>5, Zenon
  <2>8. \E u : DroppedAt(ds \o Conflicts(k), q, S \cup T, u)
    BY <1>1, <2>4, <2>5, <2>7, AllDropped, Zenon
  <2>9. y.dropped = ds \o Conflicts(k)
    BY <1>0, <1>1, <2>5, Zenon
  <2>. QED BY <1>10, <2>3, <2>8, <2>9, Zenon
<1>. QED BY <1>9, <1>11, Zenon DEF SplitOk

(* What a label keeps begins with one of its strongest mutations. *)
LEMMA FirstIsStrong ==
  ASSUME NEW q, NEW S, NEW k, NEW p, KeptAt(k, q, S, p), Len(k) # 0
  PROVE  \E a \in S : k[1] = q[a]
<1>1. Len(p) \in Nat /\ Len(p) # 0 /\ p \in Seq(S) /\ Len(p) = Len(k)
  BY OnceCounts DEF KeptAt, Once
<1>2. 1 \in 1..Len(p)
  BY <1>1
<1>. QED BY <1>1, <1>2 DEF KeptAt

(* Of none there are no strongest. *)
LEMMA NothingKept ==
  ASSUME NEW q, NEW S, NEW k, NEW p, KeptAt(k, q, S, p), Len(k) = 0
  PROVE  S = {}
<1>1. Len(p) = 0 /\ \A y \in S : \E a \in 1..Len(p) : p[a] = y
  BY DEF KeptAt, Once
<1>2. 1..0 = {}
  OBVIOUS
<1>. QED BY <1>1, <1>2

(* An iteration splits one mutation more. *)
LEMMA SplitStep ==
  ASSUME NEW q, NEW n \in Nat, More(q, n), NEW x \in Splits, NEW y,
         SplitOk(x, q, n), AddOf(y, x, q[n + 1])
  PROVE  SplitOk(y, q, n + 1)
<1>0. /\ q[n + 1] \in Mutated /\ q[n + 1].label \in LabelNames \cup {NoName} /\ NoName \notin LabelNames
      /\ \A i \in 1..n : q[i] \in Mutated
  BY Asked
<1>1. CASE q[n + 1].label = NoName
  <2>1. PICK d \in Drops : d.mutation = q[n + 1] /\ y.kept = x.kept /\ y.dropped = Append(x.dropped, d)
    BY <1>1 DEF AddOf
  <2>2. \A l \in LabelNames : q[n + 1].label # l
    BY <1>0, <1>1
  <2>3. \A l \in LabelNames : Strong(q, l, n + 1) = Strong(q, l, n)
    BY <2>2, StrongSame DEF IsOf
  <2>. QED BY <2>1, <2>2, <2>3, WeakerIsDropped, Zenon
<1>2. CASE q[n + 1].label \in LabelNames
  <2>0. PICK l \in LabelNames : l = q[n + 1].label
    BY <1>2
  <2>8. IsOf(q[n + 1], l)
    BY <2>0 DEF IsOf
  <2>1. PICK k \in Seq(Mutated) : k = x.kept[l] /\
       \/ /\ k # <<>> /\ q[n + 1].status > k[1].status
          /\ y.kept = [x.kept EXCEPT ![l] = <<q[n + 1]>>]
          /\ y.dropped = x.dropped \o Conflicts(k)
       \/ /\ k # <<>> /\ q[n + 1].status < k[1].status
          /\ y.kept = x.kept
          /\ \E d \in Drops : d.mutation = q[n + 1] /\ y.dropped = Append(x.dropped, d)
       \/ /\ k = <<>> \/ ~(q[n + 1].status < k[1].status \/ q[n + 1].status > k[1].status)
          /\ y.kept = [x.kept EXCEPT ![l] = Append(k, q[n + 1])]
          /\ y.dropped = x.dropped
    BY <1>2, <2>0, Zenon DEF AddOf
  <2>11. KeptOk(k, q, l, n)
    BY <2>1 DEF SplitOk
  <2>2. PICK p : KeptAt(k, q, Strong(q, l, n), p)
    BY <2>11 DEF KeptOk
  <2>3. k # <<>> => Len(k) # 0
    BY <2>1, EmptySeq
  <2>4. k # <<>> => \E a \in Strong(q, l, n) : k[1] = q[a]
    BY <2>2, <2>3, FirstIsStrong, Zenon
  <2>9. \A a \in Strong(q, l, n) :
              /\ q[n + 1].status < q[a].status => Strong(q, l, n + 1) = Strong(q, l, n)
              /\ q[n + 1].status > q[a].status => Strong(q, l, n + 1) = {n + 1}
              /\ q[n + 1].status = q[a].status => Strong(q, l, n + 1) = Strong(q, l, n) \cup {n + 1}
    BY <2>8, StrongJoins
  <2>10. \A j \in LabelNames : j # l => Strong(q, j, n + 1) = Strong(q, j, n)
    BY <2>8, OneLabel, StrongSame
  <2>5. CASE /\ k # <<>> /\ q[n + 1].status > k[1].status
             /\ y.kept = [x.kept EXCEPT ![l] = <<q[n + 1]>>]
             /\ y.dropped = x.dropped \o Conflicts(k)
    <3>1. Strong(q, l, n + 1) = {n + 1}
      BY <2>4, <2>5, <2>9, Zenon
    <3>2. y.kept = [x.kept EXCEPT ![l] = <<q[n + 1]>>]
      BY <2>5, Zenon
    <3>3. y.dropped = x.dropped \o Conflicts(x.kept[l])
      BY <2>1, <2>5, Zenon
    <3>. QED BY <2>8, <3>1, <3>2, <3>3, StrongerReplaces, Zenon
  <2>6. CASE /\ k # <<>> /\ q[n + 1].status < k[1].status
             /\ y.kept = x.kept
             /\ \E d \in Drops : d.mutation = q[n + 1] /\ y.dropped = Append(x.dropped, d)
    <3>1. Strong(q, l, n + 1) = Strong(q, l, n)
      BY <2>4, <2>6, <2>9, Zenon
    <3>2. \A j \in LabelNames : Strong(q, j, n + 1) = Strong(q, j, n)
      BY <2>10, <3>1, Zenon
    <3>3. \A j \in LabelNames : q[n + 1].label = j => Len(x.kept[j]) # 0
      BY <2>0, <2>1, <2>3, <2>6, Zenon
    <3>4. PICK d \in Drops : d.mutation = q[n + 1] /\ y.dropped = Append(x.dropped, d)
      BY <2>6
    <3>5. y.kept = x.kept
      BY <2>6
    <3>. QED BY <3>2, <3>3, <3>4, <3>5, WeakerIsDropped, Zenon
  <2>7. CASE /\ k = <<>> \/ ~(q[n + 1].status < k[1].status \/ q[n + 1].status > k[1].status)
             /\ y.kept = [x.kept EXCEPT ![l] = Append(k, q[n + 1])]
             /\ y.dropped = x.dropped
    <3>0. y.kept = [x.kept EXCEPT ![l] = Append(x.kept[l], q[n + 1])] /\ y.dropped = x.dropped
      BY <2>1, <2>7, Zenon
    <3>1. CASE k # <<>>
      <4>1. PICK a \in Strong(q, l, n) : k[1] = q[a]
        BY <2>4, <3>1
      <4>2. q[a] \in Mutated
        <5>1. a \in 1..n
          BY <4>1 DEF Strong
        <5>. QED BY <1>0, <5>1
      <4>3. q[n + 1].status = q[a].status
        <5>1. PICK u, v \in Nat : u = q[n + 1].status /\ v = q[a].status
          BY <1>0, <4>2, StatusIsNat
        <5>2. ~(u < v \/ u > v)
          BY <2>7, <3>1, <4>1, <5>1, Zenon
        <5>. QED BY <5>1, <5>2
      <4>4. Strong(q, l, n + 1) = Strong(q, l, n) \cup {n + 1}
        BY <2>9, <4>1, <4>3, Zenon
      <4>. QED BY <2>8, <3>0, <4>4, EqualIsKept, Zenon
    <3>2. CASE k = <<>>
      <4>0. Len(k) = 0
        BY <3>2
      <4>1. Strong(q, l, n) = {}
        BY <2>2, <4>0, NothingKept, Zenon
      <4>2. \A j \in 1..n : q[j].label # l
        <5>1. (\E i \in 1..n : q[i].label = l) => Len(k) # 0
          BY <2>11 DEF KeptOk
        <5>. QED BY <4>0, <5>1, Zenon
      <4>3. Strong(q, l, n + 1) = {n + 1}
        BY <2>8, <4>2, StrongFirst
      <4>4. Strong(q, l, n + 1) = Strong(q, l, n) \cup {n + 1}
        BY <4>1, <4>3
      <4>. QED BY <2>8, <3>0, <4>4, EqualIsKept, Zenon
    <3>. QED BY <3>1, <3>2
  <2>. QED BY <2>1, <2>5, <2>6, <2>7
<1>. QED BY <1>0, <1>1, <1>2

SplitFold(base, es) == FoldLeft(AddMutation, base, es)

(* What AddMutation keeps step by step: J[i] is the set of values allowed  *)
(* after i mutations.                                                      *)
LEMMA SplitFoldSteps ==
  ASSUME NEW V, NEW es, NEW n \in Nat, DOMAIN es = 1..n, NEW base \in V,
         \A x \in V, i \in 1..n : AddMutation(x, es[i]) \in V,
         NEW J, base \in J[0], \A i \in 0..(n-1) : \A x \in J[i] : AddMutation(x, es[i+1]) \in J[i+1]
  PROVE  SplitFold(base, es) \in J[n]
<1>. DEFINE f == [p \in V \X (1..n) |-> AddMutation(p[1], es[p[2]])]
            St(g, s) == IF s = {} THEN base ELSE AddMutation(g[s \ {Greatest(s)}], es[Greatest(s)])
            IsFold(g) == g = [s \in SUBSET (1..n) |-> St(g, s)]
<1>1. SplitFold(base, es) = (CHOOSE g : IsFold(g))[1..n]
  BY Zenon DEF SplitFold, FoldLeft, MapThenFoldSet, Max, Greatest
<1>2. \A x \in V, i \in 1..n : f[<<x, i>>] = AddMutation(x, es[i])
  OBVIOUS
<1>. HIDE DEF f
<1>3. PICK h \in [SUBSET (1..n) -> V] : \A s \in SUBSET (1..n) : h[s] = FoldStep(h, s, base, f)
  <2>1. \A x \in V, i \in 1..n : f[<<x, i>>] \in V
    BY <1>2
  <2>2. HasFold(n, V, base, f)
    BY <2>1, FoldExists
  <2>. QED BY <2>2 DEF HasFold
<1>4. ASSUME NEW s \in SUBSET (1..n) PROVE h[s] = St(h, s)
  <2>1. CASE s = {}
    BY <1>3, <2>1 DEF FoldStep
  <2>2. CASE s # {}
    <3>1. PICK M \in 1..n : M = Greatest(s)
      BY <2>2, GreatestIn
    <3>2. h[s \ {M}] \in V
      OBVIOUS
    <3>. QED BY <1>2, <1>3, <2>2, <3>1, <3>2 DEF FoldStep
  <2>. QED BY <2>1, <2>2
<1>5. IsFold(h)
  <2>. HIDE DEF St
  <2>1. h = [s \in SUBSET (1..n) |-> h[s]]
    OBVIOUS
  <2>. QED BY <1>4, <2>1
<1>6. PICK g : SplitFold(base, es) = g[1..n] /\ IsFold(g)
  <2>. HIDE DEF IsFold
  <2>. QED BY <1>1, <1>5, Zenon
<1>. DEFINE c == [i \in 0..n |-> g[1..i]]
<1>7. c[0] \in J[0]
  <2>1. 1..0 = {} /\ {} \in SUBSET (1..n)
    OBVIOUS
  <2>. QED BY <1>6, <2>1
<1>8. ASSUME NEW i \in 0..(n-1), c[i] \in J[i] PROVE c[i+1] \in J[i+1]
  <2>1. i \in 0..n /\ i + 1 \in 0..n /\ i + 1 \in 1..(i+1) /\ 1..(i+1) \in SUBSET (1..n) /\ i \in Nat
        /\ (1..(i+1)) \ {i + 1} = 1..i /\ 1..(i+1) \in SUBSET (1..(i+1))
    OBVIOUS
  <2>2. Greatest(1..(i+1)) = i + 1
    BY <2>1, GreatestOfInterval
  <2>3. g[1..(i+1)] = St(g, 1..(i+1))
    <3>. HIDE DEF St
    <3>. QED BY <1>6, <2>1
  <2>4. g[1..(i+1)] = AddMutation(g[1..i], es[i+1])
    BY <2>1, <2>2, <2>3
  <2>. QED BY <1>8, <2>1, <2>4
<1>9. c[n] \in J[n]
  <2>. HIDE DEF c
  <2>. QED BY <1>7, <1>8, StepByStep
<1>10. c[n] = g[1..n]
  OBVIOUS
<1>. QED BY <1>6, <1>9, <1>10

(* The first mutation is not one, and nothing is kept or dropped yet. *)
LEMMA SplitBase ==
  ASSUME NEW q
  PROVE  LET x == [kept |-> [l \in LabelNames |-> <<>>], dropped |-> <<>>] IN x \in Splits /\ SplitOk(x, q, 0)
<1>1. PICK x : x = [kept |-> [l \in LabelNames |-> <<>>], dropped |-> <<>>]
  OBVIOUS
<1>2. <<>> \in Seq(Mutated) /\ <<>> \in Seq(Drops)
  OBVIOUS
<1>3. x.kept = [l \in LabelNames |-> <<>>] /\ x.dropped = <<>>
  BY <1>1
<1>4. x \in Splits
  BY <1>1, <1>2 DEF Splits
<1>5. 1..0 = {}
  OBVIOUS
<1>6. PICK p : p = <<>> /\ p \in Seq({}) /\ Len(p) = 0
  <2>1. <<>> \in Seq({})
    OBVIOUS
  <2>2. Len(<<>>) = 0
    OBVIOUS
  <2>. QED BY <2>1, <2>2
<1>7. Once(p, {})
  BY <1>5, <1>6 DEF Once
<1>8. ASSUME NEW l \in LabelNames PROVE KeptOk(x.kept[l], q, l, 0)
  <2>1. Strong(q, l, 0) = {}
    BY <1>5 DEF Strong
  <2>2. x.kept[l] = p
    BY <1>3, <1>6
  <2>3. KeptAt(p, q, {}, p)
    BY <1>5, <1>6, <1>7 DEF KeptAt
  <2>. QED BY <1>5, <2>1, <2>2, <2>3 DEF KeptOk
<1>9. Others(q, 0) = {}
  BY <1>5 DEF Others
<1>10. DroppedAt(p, q, {}, p)
  BY <1>5, <1>6, <1>7 DEF DroppedAt
<1>11. \E r : DroppedAt(x.dropped, q, Others(q, 0), r)
  BY <1>3, <1>6, <1>9, <1>10
<1>12. SplitOk(x, q, 0)
  BY <1>8, <1>11 DEF SplitOk
<1>. QED BY <1>1, <1>4, <1>12

(* Of a request's mutations of one label, however many it has, exactly     *)
(* those of the strongest status are kept, in their order, and every other *)
(* one is dropped once                                                     *)
(* (_get_mutations_by_label_name_and_drop_conflicts).                      *)
LEMMA StrongestAreKept ==
  ASSUME NEW q, Asks(q)
  PROVE  DropConflicts(q) \in Splits /\ SplitOk(DropConflicts(q), q, Len(q))
<1>0. q \in Seq(Mutated)
  BY DEF Asks
<1>1. PICK n \in Nat : n = Len(q) /\ DOMAIN q = 1..n
  BY <1>0, LenProperties
<1>2. PICK base : base = [kept |-> [l \in LabelNames |-> <<>>], dropped |-> <<>>]
  OBVIOUS
<1>3. base \in Splits /\ SplitOk(base, q, 0)
  BY <1>2, SplitBase
<1>4. \A i \in 1..n : q[i] \in Mutated /\ q[i].label \in LabelNames \cup {NoName} /\ NoName \notin LabelNames
  BY <1>0, <1>1 DEF Asks
<1>5. \A x \in Splits, i \in 1..n : AddMutation(x, q[i]) \in Splits
  BY <1>4, AddCloses
<1>. DEFINE J == [i \in 0..n |-> {x \in Splits : SplitOk(x, q, i)}]
<1>6. base \in J[0]
  BY <1>3
<1>7. ASSUME NEW i \in 0..(n-1), NEW x \in J[i] PROVE AddMutation(x, q[i+1]) \in J[i+1]
  <2>1. i \in 0..n /\ i + 1 \in 0..n /\ i + 1 \in 1..n /\ i \in Nat /\ i + 1 <= n
    OBVIOUS
  <2>2. x \in Splits /\ SplitOk(x, q, i)
    BY <2>1
  <2>3. PICK y : y = AddMutation(x, q[i + 1])
    OBVIOUS
  <2>4. AddOf(y, x, q[i + 1]) /\ y \in Splits
    BY <1>4, <1>5, <2>1, <2>2, <2>3, AddMutationIs
  <2>5. More(q, i)
    BY <1>1, <2>1 DEF More
  <2>6. SplitOk(y, q, i + 1)
    BY <2>1, <2>2, <2>4, <2>5, SplitStep
  <2>. QED BY <2>1, <2>3, <2>4, <2>6
<1>8. SplitFold(base, q) \in J[n]
  <2>. HIDE DEF J
  <2>. QED BY <1>1, <1>3, <1>5, <1>6, <1>7, SplitFoldSteps
<1>9. SplitFold(base, q) = DropConflicts(q)
  BY <1>2, Zenon DEF SplitFold, DropConflicts
<1>. QED BY <1>1, <1>8, <1>9

(* k are the elements of q at the positions S, in order; d is about those, *)
(* in some order.                                                          *)
ChosenAt(k, q, S) ==
  \E at \in [DOMAIN k -> S] :
    /\ \A a, b \in DOMAIN at : a < b => at[a] < at[b]
    /\ \A i \in S : \E a \in DOMAIN at : at[a] = i
    /\ \A a \in DOMAIN at : k[a] = q[at[a]]
ListedAt(d, q, S) ==
  \E at \in [DOMAIN d -> S] :
    /\ \A a, b \in DOMAIN at : at[a] = at[b] => a = b
    /\ \A i \in S : \E a \in DOMAIN at : at[a] = i
    /\ \A a \in DOMAIN at : d[a].mutation = q[at[a]]

(* What is kept is a choice of positions. *)
LEMMA KeptIsChosen ==
  ASSUME NEW q, NEW S, NEW k \in Seq(Mutated), NEW p, KeptAt(k, q, S, p)
  PROVE  ChosenAt(k, q, S)
<1>1. p \in Seq(S) /\ Len(p) = Len(k) /\ Once(p, S)
  BY DEF KeptAt, Once
<1>2. p \in [1..Len(p) -> S] /\ DOMAIN k = 1..Len(k)
  BY <1>1, LenProperties
<1>3. p \in [DOMAIN k -> S] /\ DOMAIN p = 1..Len(p)
  BY <1>1, <1>2
<1>4. /\ \A a, b \in DOMAIN p : a < b => p[a] < p[b]
      /\ \A i \in S : \E a \in DOMAIN p : p[a] = i
      /\ \A a \in DOMAIN p : k[a] = q[p[a]]
  BY <1>3 DEF KeptAt, Once
<1>. QED BY <1>3, <1>4 DEF ChosenAt

(* So is what is dropped, in some order. *)
LEMMA DroppedIsListed ==
  ASSUME NEW q, NEW S, NEW d \in Seq(Drops), NEW p, DroppedAt(d, q, S, p)
  PROVE  ListedAt(d, q, S)
<1>1. p \in Seq(S) /\ Len(p) = Len(d) /\ Once(p, S)
  BY DEF DroppedAt, Once
<1>2. p \in [1..Len(p) -> S] /\ DOMAIN d = 1..Len(d)
  BY <1>1, LenProperties
<1>3. p \in [DOMAIN d -> S] /\ DOMAIN p = 1..Len(p)
  BY <1>1, <1>2
<1>4. /\ \A a, b \in DOMAIN p : p[a] = p[b] => a = b
      /\ \A i \in S : \E a \in DOMAIN p : p[a] = i
      /\ \A a \in DOMAIN p : d[a].mutation = q[p[a]]
  BY <1>3 DEF DroppedAt, Once
<1>. QED BY <1>3, <1>4 DEF ListedAt

(* Of a request's mutations of one label, however many it has, exactly     *)
(* those of the strongest status are kept, in their order, and every other *)
(* one is dropped, once                                                    *)
(* (_get_mutations_by_label_name_and_drop_conflicts).                      *)
THEOREM RequestsSplitByStrength == ASSUME NEW q, Asks(q) PROVE SplitByStrength(q)
<1>0. q \in Seq(Mutated)
  BY DEF Asks
<1>1. DOMAIN q = 1..Len(q)
  BY <1>0, LenProperties
<1>2. PICK x \in Splits : x = DropConflicts(q) /\ SplitOk(x, q, Len(q))
  BY StrongestAreKept
<1>3. \A l : Strongest(q, l) = Strong(q, l, Len(q))
  BY <1>1 DEF Strongest, Strong
<1>4. {i \in DOMAIN q : \A l \in LabelNames : i \notin Strongest(q, l)} = Others(q, Len(q))
  BY <1>1, <1>3 DEF Others
<1>5. ASSUME NEW l \in LabelNames PROVE ChosenAt(x.kept[l], q, Strongest(q, l))
  <2>1. PICK k \in Seq(Mutated) : k = x.kept[l]
    BY <1>2 DEF Splits
  <2>2. PICK p : KeptAt(k, q, Strong(q, l, Len(q)), p)
    BY <1>2, <2>1 DEF SplitOk, KeptOk
  <2>. QED BY <1>3, <2>1, <2>2, KeptIsChosen
<1>6. ListedAt(x.dropped, q, Others(q, Len(q)))
  <2>1. PICK d \in Seq(Drops) : d = x.dropped
    BY <1>2 DEF Splits
  <2>2. PICK p : DroppedAt(d, q, Others(q, Len(q)), p)
    BY <1>2, <2>1 DEF SplitOk
  <2>. QED BY <2>1, <2>2, DroppedIsListed
<1>7. \A l \in LabelNames : ChosenAt(DropConflicts(q).kept[l], q, Strongest(q, l))
  BY <1>2, <1>5, Zenon
<1>8. ListedAt(DropConflicts(q).dropped, q, {i \in DOMAIN q : \A l \in LabelNames : i \notin Strongest(q, l)})
  BY <1>2, <1>4, <1>6
<1>. QED BY <1>7, <1>8, Zenon DEF SplitByStrength, ChosenAt, ListedAt

-----------------------------------------------------------------------------
(* The reasons of a state.                                                 *)

(* A label that is known has a reason, and all of them expire or never do. *)
ReasonsOk(rs) == DOMAIN rs # {} /\ \A r \in DOMAIN rs : rs[r].expires \in 1..Never

Reason == [created : Nat, expires : 1..Never]
SomeReasons == UNION {[D -> Reason] : D \in SUBSET Reasons}

(* A reason is added to some. *)
LEMMA InsertCloses ==
  ASSUME NEW rs \in SomeReasons, NEW name \in Reasons, NEW x \in Reason
  PROVE  InsertOrUpdate(rs, name, x) \in SomeReasons /\ name \in DOMAIN InsertOrUpdate(rs, name, x)
<1>1. PICK D \in SUBSET Reasons : rs \in [D -> Reason]
  BY DEF SomeReasons
<1>2. PICK y : y = InsertOrUpdate(rs, name, x)
  OBVIOUS
<1>3. CASE name \notin DOMAIN rs
  <2>1. y = [r \in DOMAIN rs \cup {name} |-> IF r = name THEN x ELSE rs[r]]
    BY <1>2, <1>3 DEF InsertOrUpdate
  <2>2. y \in [D \cup {name} -> Reason]
    BY <1>1, <2>1
  <2>3. D \cup {name} \in SUBSET Reasons
    BY <1>1
  <2>. QED BY <1>2, <2>2, <2>3 DEF SomeReasons
<1>4. CASE name \in DOMAIN rs
  <2>1. rs[name] \in Reason /\ name \in D
    BY <1>1, <1>4
  <2>2. PICK z : z = [created |-> rs[name].created, expires |-> x.expires]
    OBVIOUS
  <2>3. z \in Reason
    BY <2>1, <2>2 DEF Reason
  <2>4. y = rs \/ y = [rs EXCEPT ![name] = z]
    BY <1>2, <1>4, <2>2 DEF InsertOrUpdate
  <2>5. y \in [D -> Reason]
    BY <1>1, <2>3, <2>4
  <2>. QED BY <1>2, <2>1, <2>5 DEF SomeReasons
<1>. QED BY <1>3, <1>4

(* The reason a mutation gives at a time. *)
AddReason(rs, m, t) == InsertOrUpdate(rs, m.reason, [created |-> t, expires |-> m.expires])

(* It joins the others. *)
LEMMA AddReasonCloses ==
  ASSUME NEW rs \in SomeReasons, NEW m \in Mutated, NEW t \in Nat
  PROVE  AddReason(rs, m, t) \in SomeReasons /\ DOMAIN AddReason(rs, m, t) # {}
<1>1. m.reason \in Reasons /\ m.expires \in 1..Never
  BY DEF Mutated
<1>2. PICK x : x = [created |-> t, expires |-> m.expires]
  OBVIOUS
<1>3. x \in Reason
  BY <1>1, <1>2 DEF Reason
<1>. QED BY <1>1, <1>2, <1>3, InsertCloses DEF AddReason

ReasonFold(base, es, t) ==
  FoldLeft(LAMBDA rs, m : InsertOrUpdate(rs, m.reason, [created |-> t, expires |-> m.expires]), base, es)

(* What AddReason keeps step by step. *)
LEMMA ReasonFoldSteps ==
  ASSUME NEW V, NEW t, NEW es, NEW n \in Nat, DOMAIN es = 1..n, NEW base \in V,
         \A x \in V, i \in 1..n : AddReason(x, es[i], t) \in V,
         NEW J, base \in J[0], \A i \in 0..(n-1) : \A x \in J[i] : AddReason(x, es[i+1], t) \in J[i+1]
  PROVE  ReasonFold(base, es, t) \in J[n]
<1>. DEFINE f == [p \in V \X (1..n) |-> AddReason(p[1], es[p[2]], t)]
            St(g, s) == IF s = {} THEN base ELSE AddReason(g[s \ {Greatest(s)}], es[Greatest(s)], t)
            IsFold(g) == g = [s \in SUBSET (1..n) |-> St(g, s)]
<1>1. ReasonFold(base, es, t) = (CHOOSE g : IsFold(g))[1..n]
  BY Zenon DEF ReasonFold, AddReason, FoldLeft, MapThenFoldSet, Max, Greatest
<1>2. \A x \in V, i \in 1..n : f[<<x, i>>] = AddReason(x, es[i], t)
  OBVIOUS
<1>. HIDE DEF f
<1>3. PICK h \in [SUBSET (1..n) -> V] : \A s \in SUBSET (1..n) : h[s] = FoldStep(h, s, base, f)
  <2>1. \A x \in V, i \in 1..n : f[<<x, i>>] \in V
    BY <1>2
  <2>2. HasFold(n, V, base, f)
    BY <2>1, FoldExists
  <2>. QED BY <2>2 DEF HasFold
<1>4. ASSUME NEW s \in SUBSET (1..n) PROVE h[s] = St(h, s)
  <2>1. CASE s = {}
    BY <1>3, <2>1 DEF FoldStep
  <2>2. CASE s # {}
    <3>1. PICK M \in 1..n : M = Greatest(s)
      BY <2>2, GreatestIn
    <3>2. h[s \ {M}] \in V
      OBVIOUS
    <3>. QED BY <1>2, <1>3, <2>2, <3>1, <3>2 DEF FoldStep
  <2>. QED BY <2>1, <2>2
<1>5. IsFold(h)
  <2>. HIDE DEF St
  <2>1. h = [s \in SUBSET (1..n) |-> h[s]]
    OBVIOUS
  <2>. QED BY <1>4, <2>1
<1>6. PICK g : ReasonFold(base, es, t) = g[1..n] /\ IsFold(g)
  <2>. HIDE DEF IsFold
  <2>. QED BY <1>1, <1>5, Zenon
<1>. DEFINE c == [i \in 0..n |-> g[1..i]]
<1>7. c[0] \in J[0]
  <2>1. 1..0 = {} /\ {} \in SUBSET (1..n)
    OBVIOUS
  <2>. QED BY <1>6, <2>1
<1>8. ASSUME NEW i \in 0..(n-1), c[i] \in J[i] PROVE c[i+1] \in J[i+1]
  <2>1. i \in 0..n /\ i + 1 \in 0..n /\ i + 1 \in 1..(i+1) /\ 1..(i+1) \in SUBSET (1..n) /\ i \in Nat
        /\ (1..(i+1)) \ {i + 1} = 1..i /\ 1..(i+1) \in SUBSET (1..(i+1))
    OBVIOUS
  <2>2. Greatest(1..(i+1)) = i + 1
    BY <2>1, GreatestOfInterval
  <2>3. g[1..(i+1)] = St(g, 1..(i+1))
    <3>. HIDE DEF St
    <3>. QED BY <1>6, <2>1
  <2>4. g[1..(i+1)] = AddReason(g[1..i], es[i+1], t)
    BY <2>1, <2>2, <2>3
  <2>. QED BY <1>8, <2>1, <2>4
<1>9. c[n] \in J[n]
  <2>. HIDE DEF c
  <2>. QED BY <1>7, <1>8, StepByStep
<1>10. c[n] = g[1..n]
  OBVIOUS
<1>. QED BY <1>6, <1>9, <1>10

(* The state a request asks for has reasons. *)
LEMMA DesiredHasReasons ==
  ASSUME NEW k \in Seq(Mutated), k # <<>>, NEW t \in Nat
  PROVE  DesiredState(k, t).status = k[1].status /\ ReasonsOk(DesiredState(k, t).reasons)
<1>1. PICK n \in Nat : n = Len(k) /\ DOMAIN k = 1..n /\ n # 0
  BY LenProperties, EmptySeq
<1>2. <<>> \in SomeReasons
  <2>1. <<>> \in Seq(Reason)
    OBVIOUS
  <2>2. PICK m \in Nat : <<>> \in [1..m -> Reason]
    BY <2>1, SeqDef
  <2>3. DOMAIN <<>> = {}
    OBVIOUS
  <2>4. 1..m = {}
    BY <2>2, <2>3
  <2>5. <<>> \in [{} -> Reason]
    BY <2>2, <2>4
  <2>. QED BY <2>5 DEF SomeReasons
<1>3. \A i \in 1..n : k[i] \in Mutated
  BY <1>1
<1>4. \A x \in SomeReasons, i \in 1..n : AddReason(x, k[i], t) \in SomeReasons
  BY <1>3, AddReasonCloses
<1>. DEFINE J == [i \in 0..n |-> {x \in SomeReasons : i # 0 => DOMAIN x # {}}]
<1>5. <<>> \in J[0]
  BY <1>2
<1>6. ASSUME NEW i \in 0..(n-1), NEW x \in J[i] PROVE AddReason(x, k[i+1], t) \in J[i+1]
  <2>1. i \in 0..n /\ i + 1 \in 0..n /\ i + 1 \in 1..n
    OBVIOUS
  <2>2. x \in SomeReasons
    BY <2>1
  <2>3. AddReason(x, k[i+1], t) \in SomeReasons /\ DOMAIN AddReason(x, k[i+1], t) # {}
    BY <1>3, <2>1, <2>2, AddReasonCloses
  <2>. QED BY <2>1, <2>3
<1>7. ReasonFold(<<>>, k, t) \in J[n]
  <2>. HIDE DEF J
  <2>. QED BY <1>1, <1>2, <1>4, <1>5, <1>6, ReasonFoldSteps
<1>8. PICK rs : rs = ReasonFold(<<>>, k, t) /\ rs \in SomeReasons /\ DOMAIN rs # {}
  BY <1>1, <1>7
<1>9. DesiredState(k, t) = [status |-> k[1].status, reasons |-> rs]
  BY <1>8, Zenon DEF DesiredState, ReasonFold
<1>10. ReasonsOk(rs)
  <2>1. PICK D \in SUBSET Reasons : rs \in [D -> Reason]
    BY <1>8 DEF SomeReasons
  <2>. QED BY <1>8, <2>1 DEF ReasonsOk, Reason
<1>. QED BY <1>9, <1>10

(* x is a state, and if it is known it has reasons. *)
IsState(x) == DOMAIN x = {"status", "reasons", "previous", "known"}
KnownOk(x) == x.known => ReasonsOk(x.reasons)

(* A reason that joins others is the old one, or has the new expiry. *)
LEMMA InsertedReason ==
  ASSUME NEW rs, ReasonsOk(rs) \/ DOMAIN rs = {}, NEW name, NEW x, x.expires \in 1..Never
  PROVE  InsertOrUpdate(rs, name, x)[name].expires \in 1..Never
<1>1. PICK y : y = InsertOrUpdate(rs, name, x)
  OBVIOUS
<1>2. CASE name \notin DOMAIN rs
  <2>1. y = [r \in DOMAIN rs \cup {name} |-> IF r = name THEN x ELSE rs[r]]
    BY <1>1, <1>2 DEF InsertOrUpdate
  <2>2. y[name] = x
    BY <2>1
  <2>. QED BY <1>1, <2>2
<1>3. CASE name \in DOMAIN rs
  <2>1. PICK z : z = [created |-> rs[name].created, expires |-> x.expires]
    OBVIOUS
  <2>2. y = rs \/ y = [rs EXCEPT ![name] = z]
    BY <1>1, <1>3, <2>1 DEF InsertOrUpdate
  <2>3. y[name] = rs[name] \/ y[name] = z
    BY <1>3, <2>2
  <2>4. rs[name].expires \in 1..Never
    BY <1>3 DEF ReasonsOk
  <2>. QED BY <1>1, <2>1, <2>3, <2>4
<1>. QED BY <1>2, <1>3

(* A state that a desired state is applied to keeps having reasons. *)
LEMMA ApplyKeepsReasons ==
  ASSUME NEW x, IsState(x), ReasonsOk(x.reasons), NEW d, ReasonsOk(d.reasons), NEW t
  PROVE  LET y == TryApply(x, d, t).state IN ReasonsOk(y.reasons)
<1>1. PICK y, shifted : y = TryApply(x, d, t).state /\ shifted = Shift(x)
  OBVIOUS
<1>2. IsState(shifted) /\ shifted.reasons = <<>>
  <2>1. PICK p : p = <<[status |-> x.status, reasons |-> x.reasons]>> \o x.previous
    OBVIOUS
  <2>2. shifted = [x EXCEPT !.previous = p, !.reasons = <<>>]
    BY <1>1, <2>1 DEF Shift
  <2>. QED BY <2>2 DEF IsState
<1>3. \/ y = [shifted EXCEPT !.status = d.status, !.reasons = d.reasons]
      \/ y = x
      \/ y = MergeDesired(x, d)
  BY <1>1 DEF TryApply
<1>4. CASE y = [shifted EXCEPT !.status = d.status, !.reasons = d.reasons]
  <2>1. y.reasons = d.reasons
    BY <1>2, <1>4 DEF IsState
  <2>. QED BY <1>1, <2>1
<1>5. CASE y = MergeDesired(x, d)
  <2>1. PICK base, rs : /\ base = (IF x.status # d.status THEN shifted ELSE x)
                        /\ rs = [r \in DOMAIN base.reasons \cup DOMAIN d.reasons |->
                                   IF r \in DOMAIN d.reasons
                                   THEN InsertOrUpdate(base.reasons, r, d.reasons[r])[r] ELSE base.reasons[r]]
    OBVIOUS
  <2>2. y = [base EXCEPT !.status = d.status, !.reasons = rs]
    BY <1>1, <1>5, <2>1 DEF MergeDesired
  <2>3. IsState(base) /\ (ReasonsOk(base.reasons) \/ DOMAIN base.reasons = {})
    <3>1. DOMAIN <<>> = {}
      OBVIOUS
    <3>. QED BY <1>2, <2>1, <3>1
  <2>4. y.reasons = rs
    BY <2>2, <2>3 DEF IsState
  <2>5. DOMAIN rs = DOMAIN base.reasons \cup DOMAIN d.reasons /\ DOMAIN d.reasons # {}
    BY <2>1 DEF ReasonsOk
  <2>6. ASSUME NEW r \in DOMAIN rs PROVE rs[r].expires \in 1..Never
    <3>1. CASE r \in DOMAIN d.reasons
      <4>1. rs[r] = InsertOrUpdate(base.reasons, r, d.reasons[r])[r]
        BY <2>1, <2>5, <3>1
      <4>2. d.reasons[r].expires \in 1..Never
        BY <3>1 DEF ReasonsOk
      <4>3. PICK b, e : b = base.reasons /\ e = d.reasons[r]
        OBVIOUS
      <4>. QED BY <2>3, <4>1, <4>2, <4>3, InsertedReason
    <3>2. CASE r \notin DOMAIN d.reasons
      <4>1. rs[r] = base.reasons[r] /\ r \in DOMAIN base.reasons
        BY <2>1, <2>5, <2>6, <3>2
      <4>. QED BY <2>3, <4>1 DEF ReasonsOk
    <3>. QED BY <3>1, <3>2
  <2>. QED BY <1>1, <2>4, <2>5, <2>6 DEF ReasonsOk
<1>. QED BY <1>1, <1>3, <1>4, <1>5

(* What a merge makes of one label: nothing, or the desired state.         *)
MergedTo(y, x, k, t) ==
  /\ k = <<>> => y = x
  /\ k # <<>> /\ x.known => y = TryApply(x, DesiredState(k, t), t).state
  /\ k # <<>> /\ ~x.known => y = FromInner(DesiredState(k, t))

(* The merge of a request, for one label. *)
LEMMA MergeOfLabel ==
  ASSUME NEW ls, NEW q, NEW t, NEW l \in LabelNames
  PROVE  MergedTo(ComputeNewLabels(ls, q, t).labels[l], ls[l], DropConflicts(q).kept[l], t)
BY DEF ComputeNewLabels, MergedTo

(* After a request a label that is known has reasons, if it did before. *)
LEMMA MergeKeepsReasons ==
  ASSUME NEW q, Asks(q), NEW t \in Nat, NEW l \in LabelNames, NEW x, IsState(x), KnownOk(x),
         NEW y, MergedTo(y, x, DropConflicts(q).kept[l], t)
  PROVE  KnownOk(y)
<1>1. PICK s \in Splits : s = DropConflicts(q)
  BY StrongestAreKept
<1>2. PICK k \in Seq(Mutated) : k = s.kept[l]
  BY <1>1 DEF Splits
<1>3. MergedTo(y, x, k, t)
  BY <1>1, <1>2
<1>4. IsState(x) /\ KnownOk(x)
  OBVIOUS
<1>5. CASE k = <<>>
  BY <1>3, <1>4, <1>5 DEF MergedTo
<1>6. CASE k # <<>>
  <2>1. PICK d : d = DesiredState(k, t) /\ ReasonsOk(d.reasons)
    BY <1>6, DesiredHasReasons
  <2>2. CASE x.known
    <3>1. y = TryApply(x, d, t).state
      BY <1>3, <1>6, <2>1, <2>2 DEF MergedTo
    <3>2. ReasonsOk(x.reasons)
      BY <1>4, <2>2 DEF KnownOk
    <3>3. ReasonsOk(y.reasons)
      BY <1>4, <2>1, <3>1, <3>2, ApplyKeepsReasons
    <3>. QED BY <1>3, <3>3 DEF KnownOk
  <2>3. CASE ~x.known
    <3>1. y = FromInner(d)
      BY <1>3, <1>6, <2>1, <2>3 DEF MergedTo
    <3>2. y.reasons = d.reasons
      BY <3>1 DEF FromInner
    <3>. QED BY <1>3, <2>1, <3>2 DEF KnownOk
  <2>. QED BY <2>2, <2>3
<1>. QED BY <1>5, <1>6

(* The expiry of a state is that of the reason that expires last. *)
LEMMA ExpiryIsLast ==
  ASSUME NEW x, ReasonsOk(x.reasons), Never \in Nat
  PROVE  ExpiresAt(x) \in 1..Never /\ \A r \in DOMAIN x.reasons : x.reasons[r].expires <= ExpiresAt(x)
<1>1. PICK E : E = {x.reasons[r].expires : r \in DOMAIN x.reasons}
  OBVIOUS
<1>2. E \in SUBSET (1..Never) /\ E # {}
  BY <1>1 DEF ReasonsOk
<1>3. PICK j \in E : \A k \in E : k <= j
  BY <1>2, LastExists
<1>4. j \in E /\ \A k \in E : j >= k
  BY <1>2, <1>3
<1>5. Max(E) \in E /\ \A k \in E : Max(E) >= k
  BY <1>4, Zenon DEF Max
<1>6. PICK M : M = Max(E) /\ M \in 1..Never /\ \A k \in E : M >= k
  BY <1>2, <1>5
<1>7. M = ExpiresAt(x)
  BY <1>1, <1>6, Zenon DEF ExpiresAt
<1>8. ASSUME NEW r \in DOMAIN x.reasons PROVE x.reasons[r].expires <= M
  <2>1. x.reasons[r].expires \in E
    BY <1>1
  <2>. QED BY <1>2, <1>6, <2>1
<1>. QED BY <1>6, <1>7, <1>8

(* A rule sees a state as added or as removed, and as set by hand only     *)
(* while it has not expired (HasLabel, LabelState.is_expired).             *)
LEMMA StatesHaveOneView ==
  ASSUME NEW x, KnownOk(x), NEW t \in Nat, Never \in Nat, Slop \in Nat
  PROVE  OneView(x, t)
<1>1. CASE ~x.known \/ Standing(x, t) = {}
  <2>1. \A s, m, a : HasLabel(x, s, m, a, t) = (s = "removed" /\ m # "yes")
    BY <1>1 DEF HasLabel
  <2>2. HasLabel(x, "added", "either", 0, t) = FALSE /\ HasLabel(x, "removed", "either", 0, t) = TRUE
    <3>1. ("added" = "removed" /\ "either" # "yes") = FALSE /\ ("removed" = "removed" /\ "either" # "yes") = TRUE
      OBVIOUS
    <3>. QED BY <2>1, <3>1, Zenon
  <2>3. \A s \in SimpleStatuses :
          /\ HasLabel(x, s, "either", 0, t) <=> HasLabel(x, s, "yes", 0, t) \/ HasLabel(x, s, "no", 0, t)
          /\ HasLabel(x, s, "either", 1, t) => HasLabel(x, s, "either", 0, t)
          /\ ~HasLabel(x, s, "yes", 0, t)
    <3>1. \A s, m, a : HasLabel(x, s, m, a, t) <=> s = "removed" /\ m # "yes"
      BY <2>1, Zenon
    <3>. QED BY <3>1
  <2>. QED BY <2>2, <2>3, Zenon DEF OneView
<1>2. CASE x.known /\ Standing(x, t) # {}
  <2>1. PICK S, M : S = SimpleStatus(x.status) /\ M = ManualType(x.status) /\ S \in SimpleStatuses /\ M \in {"yes", "no"}
    BY DEF SimpleStatus, SimpleStatuses, ManualType
  <2>0. ~(0 > 0)
    OBVIOUS
  <2>2. \A s, m : HasLabel(x, s, m, 0, t) = (s = S /\ m \in {"either", M})
    BY <1>2, <2>0, <2>1, Zenon DEF HasLabel
  <2>3. \A s, m : HasLabel(x, s, m, 1, t) => s = S
    BY <1>2, <2>1 DEF HasLabel
  <2>4. ~IsExpired(x, t)
    <3>1. PICK r \in DOMAIN x.reasons : x.reasons[r].expires > t
      BY <1>2 DEF Standing
    <3>2. ReasonsOk(x.reasons)
      BY <1>2 DEF KnownOk
    <3>3. PICK M2, e : M2 = ExpiresAt(x) /\ M2 \in 1..Never /\ e = x.reasons[r].expires /\ e <= M2 /\ e \in 1..Never
      BY <3>2, ExpiryIsLast DEF ReasonsOk
    <3>4. ~(M2 + Slop < t)
      BY <3>1, <3>3
    <3>. QED BY <3>3, <3>4 DEF IsExpired
  <2>5. HasLabel(x, "added", "either", 0, t) # HasLabel(x, "removed", "either", 0, t)
    <3>1. CASE S = "added"
      <4>1. HasLabel(x, "added", "either", 0, t) = TRUE /\ HasLabel(x, "removed", "either", 0, t) = FALSE
        BY <2>2, <3>1
      <4>. QED BY <4>1
    <3>2. CASE S = "removed"
      <4>1. HasLabel(x, "added", "either", 0, t) = FALSE /\ HasLabel(x, "removed", "either", 0, t) = TRUE
        BY <2>2, <3>2
      <4>. QED BY <4>1
    <3>. QED BY <2>1, <3>1, <3>2 DEF SimpleStatuses
  <2>6. \A s \in SimpleStatuses :
          /\ HasLabel(x, s, "either", 0, t) <=> HasLabel(x, s, "yes", 0, t) \/ HasLabel(x, s, "no", 0, t)
          /\ HasLabel(x, s, "either", 1, t) => HasLabel(x, s, "either", 0, t)
    BY <2>1, <2>2, <2>3
  <2>. QED BY <2>4, <2>5, <2>6, Zenon DEF OneView
<1>. QED BY <1>1, <1>2

(* What is reported of mutations that cannot override a manual state. *)
Blocked(k) == [j \in DOMAIN k |-> Dropped(k[j], "CANNOT_OVERRIDE_MANUAL")]
Reports == [mutation : Mutated, why : Why \cup {"CANNOT_OVERRIDE_MANUAL"}]

(* What a request reports as dropped: the conflicts, and what the labels B *)
(* refused.                                                                *)
ReportOf(rep, ls, q, t, B) ==
  /\ B \in SUBSET LabelNames
  /\ \A j \in LabelNames : DropConflicts(q).kept[j] # <<>> /\ ls[j].known
                           /\ TryApply(ls[j], DesiredState(DropConflicts(q).kept[j], t), t).drop => j \in B
  /\ rep = DropConflicts(q).dropped \o
           FlattenSeq([i \in 1..Cardinality(B) |-> Blocked(DropConflicts(q).kept[SetToSeq(B)[i]])])

(* ComputeNewLabels reports those. *)
LEMMA ReportIs ==
  ASSUME NEW ls, NEW q, NEW t
  PROVE  \E B : ReportOf(ComputeNewLabels(ls, q, t).dropped, ls, q, t, B)
<1>. DEFINE split == DropConflicts(q)
            wanted == {l \in LabelNames : split.kept[l] # <<>>}
            desired == [l \in wanted |-> DesiredState(split.kept[l], t)]
            tried == [l \in wanted |->
                     IF ls[l].known THEN TryApply(ls[l], desired[l], t)
                     ELSE [state |-> FromInner(desired[l]), drop |-> FALSE]]
            blocked == {l \in wanted : tried[l].drop}
<1>1. ComputeNewLabels(ls, q, t).dropped =
        split.dropped \o
            FlattenSeq([i \in 1..Cardinality(blocked) |->
                LET kept == split.kept[SetToSeq(blocked)[i]]
                IN [j \in DOMAIN kept |-> Dropped(kept[j], "CANNOT_OVERRIDE_MANUAL")]])
  BY DEF ComputeNewLabels
<1>2. \A j \in LabelNames : split.kept[j] # <<>> /\ ls[j].known
                           /\ TryApply(ls[j], DesiredState(split.kept[j], t), t).drop => j \in blocked
  OBVIOUS
<1>3. blocked \in SUBSET LabelNames
  OBVIOUS
<1>4. PICK B : B = blocked
  OBVIOUS
<1>. HIDE DEF blocked
<1>. QED BY <1>1, <1>2, <1>3, <1>4 DEF ReportOf, Blocked

(* The report of mutations that are refused has each. *)
LEMMA BlockedHas ==
  ASSUME NEW k \in Seq(Mutated)
  PROVE  /\ Blocked(k) \in Seq(Reports)
         /\ \A a \in 1..Len(k) : Has(Blocked(k), Dropped(k[a], "CANNOT_OVERRIDE_MANUAL"))
<1>1. PICK n \in Nat : n = Len(k) /\ DOMAIN k = 1..n
  BY LenProperties
<1>2. PICK b : b = Blocked(k) /\ b = [j \in 1..n |-> Dropped(k[j], "CANNOT_OVERRIDE_MANUAL")]
  BY <1>1 DEF Blocked
<1>3. \A j \in 1..n : Dropped(k[j], "CANNOT_OVERRIDE_MANUAL") \in Reports
  BY <1>1 DEF Dropped, Reports
<1>4. b \in [1..n -> Reports]
  BY <1>2, <1>3
<1>5. b \in Seq(Reports) /\ Len(b) = n
  BY <1>4
<1>6. ASSUME NEW a \in 1..Len(k) PROVE Has(b, Dropped(k[a], "CANNOT_OVERRIDE_MANUAL"))
  <2>1. a \in 1..Len(b) /\ b[a] = Dropped(k[a], "CANNOT_OVERRIDE_MANUAL")
    BY <1>1, <1>2, <1>5
  <2>. QED BY <2>1 DEF Has
<1>. QED BY <1>2, <1>5, <1>6

(* Every mutation of a label that refuses, or that a stronger one beat, is *)
(* reported.                                                               *)
LEMMA ReportHas ==
  ASSUME NEW ls, NEW q, Asks(q), NEW t, NEW l \in LabelNames, IsFiniteSet(LabelNames),
         NEW rep, NEW B, ReportOf(rep, ls, q, t, B)
  PROVE  /\ rep \in Seq(Reports)
         /\ \A x : Has(DropConflicts(q).dropped, x) => Has(rep, x)
         /\ l \in B => \A a \in 1..Len(DropConflicts(q).kept[l]) :
                         Has(rep, Dropped(DropConflicts(q).kept[l][a], "CANNOT_OVERRIDE_MANUAL"))
<1>1. PICK s \in Splits : s = DropConflicts(q)
  BY StrongestAreKept
<1>2. s.kept \in [LabelNames -> Seq(Mutated)] /\ s.dropped \in Seq(Drops)
  BY <1>1 DEF Splits
<1>3. IsFiniteSet(B) /\ B \in SUBSET LabelNames
  BY FS_Subset DEF ReportOf
<1>4. PICK z : z = SetToSeq(B) /\ Once(z, B) /\ Len(z) = Cardinality(B)
  BY <1>3, SetToSeqLists
<1>5. PICK n \in Nat : n = Cardinality(B)
  BY <1>3, SetToSeqLists
<1>6. PICK ss : ss = [i \in 1..n |-> Blocked(s.kept[z[i]])]
  OBVIOUS
<1>7. \A i \in 1..n : z[i] \in B
  BY <1>4, <1>5 DEF Once
<1>8. \A i \in 1..n : Blocked(s.kept[z[i]]) \in Seq(Reports)
  BY <1>2, <1>3, <1>7, BlockedHas
<1>9. ss \in [1..n -> Seq(Reports)]
  BY <1>6, <1>8
<1>10. PICK v : v = FlattenSeq(ss) /\ v \in Seq(Reports) /\ \A k \in 1..n : \A x : Has(ss[k], x) => Has(v, x)
  BY <1>9, FlattenHas
<1>11. PICK u : u = s.dropped /\ u \in Seq(Reports)
  <2>1. Drops \subseteq Reports
    BY DEF Drops, Reports
  <2>2. PICK m \in Nat : s.dropped \in [1..m -> Drops]
    BY <1>2, SeqDef
  <2>3. s.dropped \in [1..m -> Reports]
    BY <2>1, <2>2
  <2>4. s.dropped \in Seq(Reports)
    BY <2>3
  <2>. QED BY <2>4
<1>12. rep = u \o v
  BY <1>1, <1>4, <1>5, <1>6, <1>10, <1>11, Zenon DEF ReportOf
<1>13. rep \in Seq(Reports) /\ \A x : Has(u, x) \/ Has(v, x) => Has(rep, x)
  BY <1>10, <1>11, <1>12, JoinHas
<1>14. ASSUME l \in B, NEW a \in 1..Len(s.kept[l]) PROVE Has(rep, Dropped(s.kept[l][a], "CANNOT_OVERRIDE_MANUAL"))
  <2>1. PICK i \in 1..n : z[i] = l
    BY <1>4, <1>5, <1>14 DEF Once
  <2>2. PICK k \in Seq(Mutated) : k = s.kept[l]
    BY <1>2
  <2>3. ss[i] = Blocked(k)
    BY <1>6, <2>1, <2>2
  <2>4. Has(ss[i], Dropped(k[a], "CANNOT_OVERRIDE_MANUAL"))
    BY <2>2, <2>3, BlockedHas
  <2>. QED BY <1>10, <1>13, <2>1, <2>2, <2>4
<1>. QED BY <1>1, <1>11, <1>13, <1>14

(* A human set the label, and rules ask to change it. *)
Refuses(ls, q, l, t) ==
  /\ ls[l].known /\ IsManual(ls[l].status) /\ ~IsExpired(ls[l], t)
  /\ \A i \in DOMAIN q : ~IsManual(q[i].status)
Untouched(y, rep, ls, q, l) ==
  /\ y = ls[l]
  /\ \A i \in DOMAIN q : q[i].label = l => \E d \in ToSet(rep) : d.mutation = q[i]

(* A request of rules leaves a state that a human set as it is, and what   *)
(* it asks of the label is reported: y is what it makes of the state.      *)
LEMMA ManualStatesHold ==
  ASSUME NEW ls, NEW q, Asks(q), NEW t, NEW l \in LabelNames, IsFiniteSet(LabelNames), Refuses(ls, q, l, t),
         NEW y, MergedTo(y, ls[l], DropConflicts(q).kept[l], t), NEW rep, NEW B, ReportOf(rep, ls, q, t, B)
  PROVE  Untouched(y, rep, ls, q, l)
<1>. USE DEF Refuses
<1>0. q \in Seq(Mutated)
  BY DEF Asks
<1>1. PICK n \in Nat : n = Len(q) /\ DOMAIN q = 1..n
  BY <1>0, LenProperties
<1>2. PICK s \in Splits : s = DropConflicts(q) /\ SplitOk(s, q, n)
  BY <1>1, StrongestAreKept
<1>3. PICK k \in Seq(Mutated) : k = s.kept[l]
  BY <1>2 DEF Splits
<1>4. PICK p : KeptAt(k, q, Strong(q, l, n), p)
  BY <1>2, <1>3 DEF SplitOk, KeptOk
<1>5. Len(p) = Len(k) /\ Len(k) \in Nat /\ (\A a \in 1..Len(k) : p[a] \in Strong(q, l, n) /\ k[a] = q[p[a]])
      /\ \A i \in Strong(q, l, n) : \E a \in 1..Len(k) : p[a] = i
  BY <1>4 DEF KeptAt, Once
<1>6. ASSUME k # <<>> PROVE TryApply(ls[l], DesiredState(k, t), t) = [state |-> ls[l], drop |-> TRUE]
  <2>1. 1 \in 1..Len(k)
    BY <1>5, <1>6, EmptySeq
  <2>2. p[1] \in 1..n /\ k[1] = q[p[1]]
    BY <1>5, <2>1 DEF Strong
  <2>3. ~IsManual(k[1].status)
    BY <1>1, <2>2
  <2>4. PICK d : d = DesiredState(k, t) /\ d = [status |-> k[1].status, reasons |-> ReasonFold(<<>>, k, t)]
    BY Zenon DEF DesiredState, ReasonFold
  <2>5. d.status = k[1].status
    BY <2>4
  <2>. QED BY <2>3, <2>4, <2>5 DEF TryApply
<1>7. y = ls[l]
  <2>1. MergedTo(y, ls[l], k, t)
    BY <1>2, <1>3
  <2>2. PICK x : x = ls[l]
    OBVIOUS
  <2>. QED BY <1>6, <2>1, <2>2 DEF MergedTo
<1>9. /\ rep \in Seq(Reports)
      /\ \A x : Has(s.dropped, x) => Has(rep, x)
      /\ l \in B => \A a \in 1..Len(k) : Has(rep, Dropped(k[a], "CANNOT_OVERRIDE_MANUAL"))
  BY <1>2, <1>3, ReportHas
<1>10. k # <<>> => l \in B
  <2>. SUFFICES ASSUME k # <<>> PROVE l \in B
    OBVIOUS
  <2>1. TryApply(ls[l], DesiredState(DropConflicts(q).kept[l], t), t).drop /\ DropConflicts(q).kept[l] # <<>>
    BY <1>2, <1>3, <1>6
  <2>. QED BY <2>1 DEF ReportOf
<1>11. ASSUME NEW i \in 1..n, q[i].label = l PROVE \E d : Has(rep, d) /\ d.mutation = q[i]
  <2>1. CASE i \in Strong(q, l, n)
    <3>1. PICK a \in 1..Len(k) : k[a] = q[i]
      BY <1>5, <2>1
    <3>2. k # <<>>
      <4>1. Len(k) # 0
        BY <1>5, <3>1
      <4>2. Len(<<>>) = 0
        OBVIOUS
      <4>. QED BY <4>1, <4>2
    <3>3. PICK d : d = Dropped(k[a], "CANNOT_OVERRIDE_MANUAL") /\ Has(rep, d)
      BY <1>9, <1>10, <3>1, <3>2
    <3>4. d.mutation = k[a]
      BY <3>3 DEF Dropped
    <3>. QED BY <3>1, <3>3, <3>4
  <2>2. CASE i \notin Strong(q, l, n)
    <3>1. i \in Others(q, n)
      BY <1>11, <2>2 DEF Others, Strong
    <3>2. PICK pd : DroppedAt(s.dropped, q, Others(q, n), pd)
      BY <1>2 DEF SplitOk
    <3>3. PICK a \in 1..Len(s.dropped) : s.dropped[a].mutation = q[i]
      BY <3>1, <3>2 DEF DroppedAt, Once
    <3>4. PICK d : d = s.dropped[a]
      OBVIOUS
    <3>5. Has(s.dropped, d)
      BY <3>3, <3>4 DEF Has
    <3>. QED BY <1>9, <3>3, <3>4, <3>5
  <2>. QED BY <2>1, <2>2
<1>12. ASSUME NEW d, Has(rep, d) PROVE d \in ToSet(rep)
  <2>1. DOMAIN rep = 1..Len(rep)
    BY <1>9, LenProperties
  <2>. QED BY <1>12, <2>1 DEF Has, ToSet
<1>13. \A i \in DOMAIN q : q[i].label = l => \E d \in ToSet(rep) : d.mutation = q[i]
  BY <1>1, <1>11, <1>12
<1>. QED BY <1>7, <1>13 DEF Untouched

(* What a human set stays until it expires: a request of rules, however    *)
(* long it is, leaves the label as it is, and all it asked of the label is *)
(* reported as dropped (LabelState.try_apply_desired_state,                *)
(* _compute_new_labels_from_mutations).                                    *)
THEOREM ManualStatesStay ==
  ASSUME NEW ls, NEW q, Asks(q), NEW t, NEW l \in LabelNames, IsFiniteSet(LabelNames)
  PROVE  ManualStays(ls, q, l, t)
<1>. SUFFICES ASSUME Refuses(ls, q, l, t)
              PROVE  /\ ComputeNewLabels(ls, q, t).labels[l] = ls[l]
                     /\ \A i \in DOMAIN q : q[i].label = l =>
                          \E d \in ToSet(ComputeNewLabels(ls, q, t).dropped) : d.mutation = q[i]
  BY Zenon DEF ManualStays, Refuses
<1>1. PICK y : y = ComputeNewLabels(ls, q, t).labels[l] /\ MergedTo(y, ls[l], DropConflicts(q).kept[l], t)
  BY MergeOfLabel
<1>2. PICK rep, B : rep = ComputeNewLabels(ls, q, t).dropped /\ ReportOf(rep, ls, q, t, B)
  BY ReportIs
<1>3. Untouched(y, rep, ls, q, l)
  <2>1. MergedTo(y, ls[l], DropConflicts(q).kept[l], t)
    BY <1>1
  <2>2. ReportOf(rep, ls, q, t, B)
    BY <1>2
  <2>. QED BY <2>1, <2>2, ManualStatesHold
<1>. QED BY <1>1, <1>2, <1>3 DEF Untouched

-----------------------------------------------------------------------------
(* The bulk label task.                                                    *)

(* The list that Druid answers with. *)
The == CHOOSE r \in Results : TRUE

(* What the proofs ask of the constants. *)
Parameters ==
  /\ Results = {The} /\ The \in Seq(ToSet(The))
  /\ Expected \in Nat /\ Excluded \in Nat /\ MAX_ATTEMPTS \in Nat \ {0}

Columns == {"status", "attempts", "labeled", "total", "expected"}
Adjusted == IF Expected > Excluded THEN Expected - Excluded ELSE 0
DoneTo(n) == \A i \in 1..n : The[i] \in done

(* What holds of the row, and of a sink's copies of it, whichever columns  *)
(* of which copy were written last.                                        *)
RowOk(x) ==
  /\ DOMAIN x = Columns
  /\ x.attempts \in Nat /\ x.labeled \in Nat /\ x.expected \in Nat
  /\ x.total \in {0, Len(The)}
  /\ DoneTo(x.labeled)
  /\ x.status = "COMPLETE" => DoneTo(Len(The))
  /\ InMargin(Adjusted, Len(The)) => x.expected \in {Expected, Adjusted}

(* A sink at work, given by its record, never writes the attempts, takes   *)
(* the total from the row or the list, and has labelled every entity it    *)
(* has passed.                                                             *)
Fields == {"pc", "obj", "base", "q", "errs", "list", "idx"}
Phase(x, total) ==
  /\ x.pc \in {"run", "query", "check", "label", "labelled", "finish", "analytics"}
  /\ x.pc \in {"check", "label", "labelled"} => x.list = The
  /\ x.pc \in {"label", "labelled"} => total = Len(The) /\ x.idx \in Nat /\ DoneTo(x.idx)
  /\ x.pc = "labelled" => DoneTo(x.idx + 1)
  /\ x.pc \in {"finish", "analytics"} => DoneTo(Len(The))
ObjOk(x, o) ==
  /\ RowOk(o) /\ o.attempts = x.base.attempts
  /\ o.total = 0 => x.base.total = 0
SinkOk(x) ==
  /\ DOMAIN x = Fields /\ RowOk(x.base) /\ ObjOk(x, x.obj) /\ Phase(x, x.obj.total)
  /\ x.base.total # 0 => row.total # 0

(* Claims of the task that will be processed, and no more of them than     *)
(* attempts were counted.                                                  *)
Pending == {s \in Sinks : sink[s].pc = "run" /\ sink[s].obj.attempts < MAX_ATTEMPTS}
Counted ==
  /\ IsFiniteSet(Pending) /\ runs \in Nat
  /\ runs + Cardinality(Pending) <= row.attempts
  /\ runs + Cardinality(Pending) < MAX_ATTEMPTS

TaskInv ==
  /\ RowOk(row) /\ Counted
  /\ DOMAIN sink = Sinks /\ \A s \in Sinks : sink[s] = Idle \/ SinkOk(sink[s])
  /\ DOMAIN label = Entities

-----------------------------------------------------------------------------
(* What a step that writes the row, or grows the set of labelled entities, *)
(* leaves as it was.                                                       *)

(* A copy of the row stays right: labelled entities stay labelled. *)
LEMMA RowOkStays ==
  ASSUME NEW x, RowOk(x), done \subseteq done'
  PROVE  RowOk(x)'
BY DEF RowOk, DoneTo

(* So does a sink that takes no part in the step. *)
LEMMA SinkOkStays ==
  ASSUME NEW x, SinkOk(x), done \subseteq done', row.total # 0 => row'.total # 0
  PROVE  SinkOk(x)'
<1>1. RowOk(x.base)' /\ RowOk(x.obj)'
  BY RowOkStays DEF SinkOk, ObjOk
<1>2. Phase(x, x.obj.total)'
  BY DEF SinkOk, Phase, DoneTo
<1>. QED BY <1>1, <1>2 DEF SinkOk, ObjOk

(* A save mixes the columns of three right rows, keeps the attempts and    *)
(* never takes the total away.                                             *)
LEMMA MixOk ==
  ASSUME Parameters, NEW x, NEW o, NEW r, RowOk(r), RowOk(x.base), ObjOk(x, o),
         x.base.total # 0 => r.total # 0,
         NEW n, n = [f \in DOMAIN r |-> IF o[f] # x.base[f] THEN o[f] ELSE r[f]]
  PROVE  /\ RowOk(n) /\ n.attempts = r.attempts
         /\ r.total # 0 => n.total # 0
         /\ o.total = Len(The) => n.total = Len(The)
<1>1. DOMAIN n = Columns /\ DOMAIN r = Columns
  BY DEF RowOk
<1>2. \A f \in Columns : n[f] = IF o[f] # x.base[f] THEN o[f] ELSE r[f]
  BY <1>1
<1>3. n.attempts = r.attempts
  BY <1>2 DEF Columns, ObjOk
<1>4. /\ n.status \in {o.status, r.status} /\ n.labeled \in {o.labeled, r.labeled}
      /\ n.expected \in {o.expected, r.expected}
  BY <1>2 DEF Columns
<1>5. n.total = IF o.total # x.base.total THEN o.total ELSE r.total
  BY <1>2 DEF Columns
<1>6. o.total \in {0, Len(The)} /\ r.total \in {0, Len(The)}
  BY DEF RowOk, ObjOk
<1>7. n.total \in {0, Len(The)} /\ (r.total # 0 => n.total # 0) /\ (o.total = Len(The) => n.total = Len(The))
  BY <1>5, <1>6 DEF ObjOk
<1>8. RowOk(n)
  BY <1>1, <1>3, <1>4, <1>7 DEF RowOk, ObjOk
<1>. QED BY <1>3, <1>7, <1>8

-----------------------------------------------------------------------------
(* Counting the claims that will be processed.                             *)

(* The claims after a step of one sink. *)
LEMMA PendingAfter ==
  ASSUME DOMAIN sink = Sinks, NEW s \in Sinks, NEW x, sink' = [sink EXCEPT ![s] = x]
  PROVE  Pending' = IF x.pc = "run" /\ x.obj.attempts < MAX_ATTEMPTS THEN Pending \cup {s} ELSE Pending \ {s}
<1>1. sink'[s] = x /\ \A t \in Sinks : t # s => sink'[t] = sink[t]
  OBVIOUS
<1>. QED BY <1>1 DEF Pending

(* A sink that is not at the start of its work leaves no claim behind. *)
LEMMA CountWithout ==
  ASSUME Parameters, TaskInv, NEW s \in Sinks, NEW x, sink' = [sink EXCEPT ![s] = x], x.pc # "run",
         runs' = runs, row'.attempts = row.attempts
  PROVE  Counted'
<1>1. Pending' = Pending \ {s}
  BY PendingAfter DEF TaskInv
<1>2. IsFiniteSet(Pending) /\ IsFiniteSet(Pending \ {s}) /\ Cardinality(Pending) \in Nat
      /\ Cardinality(Pending \ {s}) \in Nat /\ Cardinality(Pending \ {s}) <= Cardinality(Pending)
  <2>1. PICK P : P = Pending
    OBVIOUS
  <2>2. IsFiniteSet(P)
    BY <2>1 DEF TaskInv, Counted
  <2>3. /\ IsFiniteSet(P \ {s})
        /\ Cardinality(P \ {s}) = IF s \in P THEN Cardinality(P) - 1 ELSE Cardinality(P)
    BY <2>2, FS_RemoveElement
  <2>4. Cardinality(P) \in Nat /\ Cardinality(P \ {s}) \in Nat
    BY <2>2, <2>3, FS_CardinalityType
  <2>5. Cardinality(P \ {s}) <= Cardinality(P)
    BY <2>3, <2>4
  <2>. QED BY <2>1, <2>2, <2>3, <2>4, <2>5
<1>3. row.attempts \in Nat
  BY DEF TaskInv, RowOk
<1>. QED BY <1>1, <1>2, <1>3 DEF Counted, Parameters, TaskInv

(* The parts of the invariant after a step of one sink. *)
LEMMA SinkStepKeeps ==
  ASSUME TaskInv, NEW s \in Sinks, NEW x, sink' = [sink EXCEPT ![s] = x], x = Idle \/ SinkOk(x)',
         RowOk(row)', Counted', DOMAIN label' = Entities,
         done \subseteq done', row.total # 0 => row'.total # 0
  PROVE  TaskInv'
<1>1. DOMAIN sink' = Sinks /\ sink'[s] = x /\ \A t \in Sinks : t # s => sink'[t] = sink[t]
  BY DEF TaskInv
<1>2. ASSUME NEW t \in Sinks PROVE (sink[t] = Idle \/ SinkOk(sink[t]))'
  <2>1. CASE t = s
    BY <1>1, <2>1
  <2>2. CASE t # s
    <3>1. PICK y : y = sink[t]
      OBVIOUS
    <3>2. y = Idle \/ SinkOk(y)
      BY <3>1 DEF TaskInv
    <3>3. y = Idle \/ SinkOk(y)'
      BY <3>2, SinkOkStays
    <3>. QED BY <1>1, <2>2, <3>1, <3>3
  <2>. QED BY <2>1, <2>2
<1>. QED BY <1>1, <1>2 DEF TaskInv

-----------------------------------------------------------------------------
(* The ways a sink leaves the row.                                         *)

(* A commit: the sink goes on with what the row now holds (heartbeat,      *)
(* release).                                                               *)
LEMMA SaveCommits ==
  ASSUME Parameters, TaskInv, NEW s \in Sinks, sink[s] # Idle,
         NEW obj, ObjOk(sink[s], obj), NEW rest, DOMAIN rest = Fields, Phase(rest, obj.total),
         Save(s, obj, rest), UNCHANGED <<label, done>>
  PROVE  /\ \E x : sink' = [sink EXCEPT ![s] = x] /\ x.pc = rest.pc
         /\ row'.attempts = row.attempts
         /\ Counted' => TaskInv'
<1>1. PICK y, r, n, x : /\ y = sink[s] /\ r = row
                        /\ n = [f \in DOMAIN r |-> IF obj[f] # y.base[f] THEN obj[f] ELSE r[f]]
                        /\ x = [rest EXCEPT !.obj = n, !.base = n]
  OBVIOUS
<1>2. row' = n /\ sink' = [sink EXCEPT ![s] = x]
  BY <1>1 DEF Save, Saved
<1>3. SinkOk(y) /\ RowOk(r) /\ ObjOk(y, obj)
  BY <1>1 DEF TaskInv
<1>4. /\ RowOk(n) /\ n.attempts = r.attempts
      /\ r.total # 0 => n.total # 0
      /\ obj.total = Len(The) => n.total = Len(The)
  BY <1>1, <1>3, MixOk DEF SinkOk
<1>5. DOMAIN x = Fields /\ x.obj = n /\ x.base = n /\ x.pc = rest.pc /\ x.list = rest.list /\ x.idx = rest.idx
  BY <1>1 DEF Fields
<1>6. Phase(x, n.total)
  BY <1>4, <1>5 DEF Phase
<1>7. done' = done /\ row'.total = n.total /\ row'.attempts = row.attempts
  BY <1>1, <1>2, <1>4
<1>8. RowOk(n)' /\ Phase(x, n.total)'
  BY <1>4, <1>6, <1>7 DEF RowOk, Phase, DoneTo
<1>9. SinkOk(x)'
  BY <1>2, <1>5, <1>8 DEF SinkOk, ObjOk
<1>10. RowOk(row)' /\ (row.total # 0 => row'.total # 0) /\ DOMAIN label' = Entities
  BY <1>1, <1>2, <1>4, <1>8 DEF TaskInv
<1>11. Counted' => TaskInv'
  BY <1>2, <1>7, <1>9, <1>10, SinkStepKeeps
<1>. QED BY <1>2, <1>5, <1>7, <1>11

(* No claim is left once the sink has begun. *)
LEMMA SaveKeeps ==
  ASSUME Parameters, TaskInv, NEW s \in Sinks, sink[s] # Idle,
         NEW obj, ObjOk(sink[s], obj), NEW rest, DOMAIN rest = Fields, Phase(rest, obj.total),
         rest.pc # "run", Save(s, obj, rest), UNCHANGED <<label, done, runs>>
  PROVE  TaskInv'
<1>1. PICK x : sink' = [sink EXCEPT ![s] = x] /\ x.pc = rest.pc
  BY SaveCommits
<1>2. row'.attempts = row.attempts /\ (Counted' => TaskInv')
  BY SaveCommits
<1>. QED BY <1>1, <1>2, CountWithout

(* The last commit of a sink (release). *)
LEMMA ReleaseKeeps ==
  ASSUME Parameters, TaskInv, NEW s \in Sinks, sink[s] # Idle,
         NEW obj, ObjOk(sink[s], obj), NEW status, status # "COMPLETE",
         Release(s, obj, status), UNCHANGED <<label, done, runs>>
  PROVE  TaskInv'
<1>1. PICK y, r, o, n, x : /\ y = sink[s] /\ r = row /\ o = [obj EXCEPT !.status = status]
                           /\ n = [f \in DOMAIN r |-> IF o[f] # y.base[f] THEN o[f] ELSE r[f]]
                           /\ x = Idle
  OBVIOUS
<1>2. row' = n /\ sink' = [sink EXCEPT ![s] = x]
  BY <1>1 DEF Release, Saved
<1>3. SinkOk(y) /\ RowOk(r) /\ ObjOk(y, obj)
  BY <1>1 DEF TaskInv
<1>4. /\ DOMAIN o = Columns /\ o.status = status /\ o.attempts = obj.attempts /\ o.labeled = obj.labeled
      /\ o.total = obj.total /\ o.expected = obj.expected
  BY <1>1, <1>3 DEF ObjOk, RowOk, Columns
<1>5. ObjOk(y, o)
  BY <1>3, <1>4 DEF ObjOk, RowOk
<1>6. RowOk(n) /\ n.attempts = r.attempts /\ (r.total # 0 => n.total # 0)
  BY <1>1, <1>3, <1>5, MixOk DEF SinkOk
<1>7. done' = done /\ row'.attempts = row.attempts /\ (row.total # 0 => row'.total # 0)
  BY <1>1, <1>2, <1>6
<1>8. RowOk(row)' /\ DOMAIN label' = Entities
  BY <1>2, <1>6, <1>7 DEF RowOk, DoneTo, TaskInv
<1>9. Counted'
  <2>1. x.pc # "run" /\ runs' = runs
    BY <1>1 DEF Idle
  <2>. QED BY <1>2, <1>7, <2>1, CountWithout
<1>. QED BY <1>1, <1>2, <1>7, <1>8, <1>9, SinkStepKeeps

(* A step of a sink that leaves the row. *)
LEMMA LocalKeeps ==
  ASSUME Parameters, TaskInv, NEW s \in Sinks, sink[s] # Idle,
         NEW x, sink' = [sink EXCEPT ![s] = x], DOMAIN x = Fields, x.base = sink[s].base,
         ObjOk(x, x.obj)', Phase(x, x.obj.total)', x.pc # "run",
         row' = row, runs' = runs, done \subseteq done', DOMAIN label' = Entities
  PROVE  TaskInv'
<1>1. PICK y : y = sink[s]
  OBVIOUS
<1>2. SinkOk(y)
  BY <1>1 DEF TaskInv
<1>3. SinkOk(y)'
  BY <1>2, SinkOkStays
<1>4. SinkOk(x)'
  BY <1>1, <1>3 DEF SinkOk
<1>5. RowOk(row)'
  <2>1. PICK r : r = row
    OBVIOUS
  <2>2. RowOk(r)'
    BY <2>1, RowOkStays DEF TaskInv
  <2>. QED BY <2>1, <2>2
<1>6. Counted'
  BY CountWithout
<1>. QED BY <1>4, <1>5, <1>6, SinkStepKeeps

-----------------------------------------------------------------------------
(* The steps of a sink.                                                    *)

(* A new task is not claimed, and nothing of it is done. *)
LEMMA TaskInitInv == ASSUME Parameters, Init PROVE TaskInv
<1>1. Len(The) \in Nat
  BY DEF Parameters
<1>2. RowOk(row)
  <2>1. /\ DOMAIN row = Columns /\ row.status = "QUEUED" /\ row.attempts = 0 /\ row.labeled = 0
        /\ row.total = 0 /\ row.expected = Expected
    BY DEF Init, Columns
  <2>. QED BY <1>1, <2>1 DEF RowOk, DoneTo, Parameters
<1>3. Pending = {}
  BY DEF Pending, Init, Idle
<1>4. Counted
  BY <1>2, <1>3, FS_EmptySet DEF Counted, Init, RowOk, Parameters
<1>. QED BY <1>2, <1>4 DEF TaskInv, Init

(* A claim counts an attempt before the task is processed. *)
LEMMA ClaimKeeps == ASSUME Parameters, TaskInv, NEW s \in Sinks, Claim(s) PROVE TaskInv'
<1>1. PICK r, n, x : /\ r = row /\ n = [r EXCEPT !.status = "COLLECTING", !.attempts = @ + 1]
                     /\ x = [pc |-> "run", obj |-> n, base |-> n, q |-> 0, errs |-> 0, list |-> <<>>, idx |-> 0]
  OBVIOUS
<1>2. /\ row' = n /\ sink' = [sink EXCEPT ![s] = x] /\ sink[s] = Idle
      /\ label' = label /\ done' = done /\ runs' = runs
  BY <1>1 DEF Claim, TakeUp
<1>3. RowOk(r)
  BY <1>1 DEF TaskInv
<1>4. /\ DOMAIN n = Columns /\ n.status = "COLLECTING" /\ n.attempts = r.attempts + 1 /\ n.labeled = r.labeled
      /\ n.total = r.total /\ n.expected = r.expected
  BY <1>1, <1>3 DEF RowOk, Columns
<1>5. RowOk(n)'
  BY <1>2, <1>3, <1>4 DEF RowOk, DoneTo
<1>6. DOMAIN x = Fields /\ x.pc = "run" /\ x.obj = n /\ x.base = n
  BY <1>1 DEF Fields
<1>7. SinkOk(x)'
  BY <1>2, <1>5, <1>6 DEF SinkOk, ObjOk, Phase
<1>8. s \notin Pending
  BY <1>2 DEF Pending, Idle
<1>9. Counted'
  <2>1. PICK P : P = Pending
    OBVIOUS
  <2>2. Pending' = IF n.attempts < MAX_ATTEMPTS THEN P \cup {s} ELSE P
    BY <1>2, <1>6, <1>8, <2>1, PendingAfter DEF TaskInv
  <2>3. IsFiniteSet(P) /\ s \notin P /\ runs \in Nat /\ r.attempts \in Nat
        /\ runs + Cardinality(P) <= r.attempts /\ runs + Cardinality(P) < MAX_ATTEMPTS
    BY <1>1, <1>3, <1>8, <2>1 DEF TaskInv, Counted, RowOk
  <2>4. IsFiniteSet(P \cup {s}) /\ Cardinality(P \cup {s}) = Cardinality(P) + 1
    BY <2>3, FS_AddElement
  <2>5. Cardinality(P) \in Nat
    BY <2>3, FS_CardinalityType
  <2>6. row'.attempts = r.attempts + 1
    BY <1>2, <1>4
  <2>7. CASE n.attempts < MAX_ATTEMPTS
    BY <1>2, <1>4, <2>2, <2>3, <2>4, <2>5, <2>6, <2>7 DEF Counted, Parameters
  <2>8. CASE ~(n.attempts < MAX_ATTEMPTS)
    BY <1>2, <1>4, <2>2, <2>3, <2>5, <2>6, <2>8 DEF Counted, Parameters
  <2>. QED BY <2>7, <2>8
<1>10. RowOk(row)' /\ (row.total # 0 => row'.total # 0) /\ DOMAIN label' = Entities
  BY <1>1, <1>2, <1>4, <1>5 DEF TaskInv
<1>. QED BY <1>2, <1>7, <1>9, <1>10, SinkStepKeeps

(* A sink at work is not idle. *)
LEMMA AtWork ==
  ASSUME TaskInv, NEW s \in Sinks, sink[s].pc # "idle"
  PROVE  sink[s] # Idle /\ SinkOk(sink[s])
BY DEF TaskInv, Idle

(* A heartbeat writes a status and the entities labelled so far. *)
LEMMA HeartbeatKeeps ==
  ASSUME Parameters, TaskInv, NEW s \in Sinks, sink[s] # Idle,
         NEW status, status # "COMPLETE",
         NEW count, status = "LABELLING" => count \in Nat /\ DoneTo(count),
         NEW next, DOMAIN next = Fields, Phase(next, sink[s].obj.total), next.pc # "run",
         Heartbeat(s, status, count, next), UNCHANGED <<label, done, runs>>
  PROVE  TaskInv'
<1>1. PICK y, o : /\ y = sink[s]
                  /\ o = [y.obj EXCEPT !.status = status, !.labeled = IF status = "LABELLING" THEN count ELSE @]
  OBVIOUS
<1>2. SinkOk(y) /\ ObjOk(y, y.obj)
  BY <1>1 DEF TaskInv, SinkOk
<1>3. /\ DOMAIN o = Columns /\ o.status = status /\ o.attempts = y.obj.attempts /\ o.total = y.obj.total
      /\ o.labeled = (IF status = "LABELLING" THEN count ELSE y.obj.labeled) /\ o.expected = y.obj.expected
  BY <1>1, <1>2 DEF ObjOk, RowOk, Columns
<1>4. ObjOk(y, o)
  BY <1>2, <1>3 DEF ObjOk, RowOk
<1>5. Save(s, o, next)
  BY <1>1 DEF Heartbeat
<1>. QED BY <1>1, <1>3, <1>4, <1>5, SaveKeeps

(* run's except branch never says COMPLETE. *)
LEMMA FailKeeps ==
  ASSUME Parameters, TaskInv, NEW s \in Sinks, sink[s] # Idle, NEW obj, ObjOk(sink[s], obj), NEW retryable,
         Fail(s, obj, retryable), UNCHANGED <<label, done, runs>>
  PROVE  TaskInv'
BY ReleaseKeeps DEF Fail

(* The first heartbeat turns a claim into a run. *)
LEMMA StartKeeps == ASSUME Parameters, TaskInv, NEW s \in Sinks, Start(s) PROVE TaskInv'
<1>1. sink[s].pc = "run" /\ sink[s] # Idle /\ SinkOk(sink[s]) /\ ObjOk(sink[s], sink[s].obj)
  BY AtWork DEF Start, SinkOk
<1>2. label' = label /\ done' = done
  BY DEF Start
<1>3. CASE sink[s].obj.attempts >= MAX_ATTEMPTS
  BY <1>1, <1>3, ReleaseKeeps DEF Start
<1>4. CASE ~(sink[s].obj.attempts >= MAX_ATTEMPTS)
  <2>1. PICK y, o, next : /\ y = sink[s] /\ next = [y EXCEPT !.pc = "query"]
                          /\ o = [y.obj EXCEPT !.status = "COLLECTING",
                                               !.labeled = IF "COLLECTING" = "LABELLING" THEN 0 ELSE @]
    OBVIOUS
  <2>2. Save(s, o, next) /\ runs' = runs + 1
    BY <1>4, <2>1 DEF Start, Heartbeat
  <2>3. SinkOk(y) /\ RowOk(y.obj) /\ ObjOk(y, y.obj)
    BY <1>1, <2>1 DEF ObjOk
  <2>4. /\ DOMAIN o = Columns /\ o.status = "COLLECTING" /\ o.attempts = y.obj.attempts
        /\ o.labeled = y.obj.labeled /\ o.total = y.obj.total /\ o.expected = y.obj.expected
    BY <2>1, <2>3 DEF RowOk, Columns
  <2>5. ObjOk(y, o)
    BY <2>3, <2>4 DEF ObjOk, RowOk
  <2>6. DOMAIN next = Fields /\ next.pc = "query"
    BY <2>1, <2>3 DEF SinkOk, Fields
  <2>7. Phase(next, o.total)
    BY <2>6 DEF Phase
  <2>8. /\ \E x : sink' = [sink EXCEPT ![s] = x] /\ x.pc = next.pc
        /\ row'.attempts = row.attempts
        /\ Counted' => TaskInv'
    <3>1. ObjOk(sink[s], o) /\ sink[s] # Idle /\ UNCHANGED <<label, done>>
      BY <1>1, <1>2, <2>1, <2>5
    <3>. QED BY <2>2, <2>6, <2>7, <3>1, SaveCommits, Zenon
  <2>9. PICK x : sink' = [sink EXCEPT ![s] = x] /\ x.pc = "query"
    BY <2>6, <2>8
  <2>10. Counted'
    <3>1. PICK P : P = Pending
      OBVIOUS
    <3>2. Pending' = P \ {s}
      BY <2>9, <3>1, PendingAfter DEF TaskInv
    <3>3. s \in P
      <4>1. sink[s].obj.attempts \in Nat /\ MAX_ATTEMPTS \in Nat
        BY <2>1, <2>3 DEF RowOk, Parameters
      <4>2. sink[s].obj.attempts < MAX_ATTEMPTS
        BY <1>4, <4>1
      <4>. QED BY <1>1, <3>1, <4>2 DEF Pending
    <3>4. /\ IsFiniteSet(P) /\ runs \in Nat /\ row.attempts \in Nat
          /\ runs + Cardinality(P) <= row.attempts /\ runs + Cardinality(P) < MAX_ATTEMPTS
      BY <3>1 DEF TaskInv, Counted, RowOk
    <3>5. IsFiniteSet(P \ {s}) /\ Cardinality(P \ {s}) = Cardinality(P) - 1
      BY <3>3, <3>4, FS_RemoveElement
    <3>6. Cardinality(P) \in Nat /\ Cardinality(P \ {s}) \in Nat
      BY <3>4, <3>5, FS_CardinalityType
    <3>7. runs' + Cardinality(P \ {s}) = runs + Cardinality(P) /\ runs' \in Nat
      BY <2>2, <3>4, <3>5, <3>6
    <3>. QED BY <2>8, <3>2, <3>4, <3>5, <3>7 DEF Counted
  <2>. QED BY <2>8, <2>10
<1>. QED BY <1>3, <1>4

(* Every answer of Druid is the same list. *)
LEMMA QueryKeeps == ASSUME Parameters, TaskInv, NEW s \in Sinks, Query(s) PROVE TaskInv'
<1>1. sink[s].pc = "query" /\ sink[s] # Idle /\ SinkOk(sink[s]) /\ ObjOk(sink[s], sink[s].obj)
  BY AtWork DEF Query, SinkOk
<1>2. label' = label /\ done' = done /\ runs' = runs /\ DOMAIN label = Entities
  BY DEF Query, TaskInv
<1>3. ASSUME NEW q, NEW e, NEW next, next = [sink[s] EXCEPT !.q = q, !.errs = e] \/ next = [sink[s] EXCEPT !.errs = e],
             Heartbeat(s, "COLLECTING", 0, next)
      PROVE  TaskInv'
  <2>1. DOMAIN next = Fields /\ next.pc = "query"
    BY <1>1, <1>3 DEF SinkOk, Fields
  <2>2. Phase(next, sink[s].obj.total)
    BY <2>1 DEF Phase
  <2>. QED BY <1>1, <1>2, <1>3, <2>1, <2>2, HeartbeatKeeps
<1>4. ASSUME NEW list \in Results,
             sink' = [sink EXCEPT ![s] = [@ EXCEPT !.pc = "check", !.list = list, !.errs = 0]],
             row' = row
      PROVE  TaskInv'
  <2>1. PICK y, x : y = sink[s] /\ x = [y EXCEPT !.pc = "check", !.list = list, !.errs = 0]
    OBVIOUS
  <2>2. sink' = [sink EXCEPT ![s] = x]
    BY <1>4, <2>1 DEF TaskInv
  <2>3. DOMAIN x = Fields /\ x.pc = "check" /\ x.list = list /\ x.base = y.base /\ x.obj = y.obj
    BY <1>1, <2>1 DEF SinkOk, Fields
  <2>4. list = The
    BY <1>4 DEF Parameters
  <2>5. ObjOk(x, x.obj)'
    BY <1>1, <1>2, <2>1, <2>3 DEF ObjOk, RowOk, DoneTo
  <2>6. Phase(x, x.obj.total)'
    BY <2>3, <2>4 DEF Phase
  <2>. QED BY <1>1, <1>2, <1>4, <2>1, <2>2, <2>3, <2>5, <2>6, LocalKeeps
<1>5. ASSUME NEW retryable, Fail(s, sink[s].obj, retryable) PROVE TaskInv'
  BY <1>1, <1>2, <1>5, FailKeeps
<1>. QED BY <1>3, <1>4, <1>5 DEF Query

(* The check takes the total from the list, and subtracts the excluded     *)
(* entities only from an expectation that does not fit.                    *)
LEMMA CheckKeeps == ASSUME Parameters, TaskInv, NEW s \in Sinks, Check(s) PROVE TaskInv'
<1>1. sink[s].pc = "check" /\ sink[s] # Idle /\ SinkOk(sink[s])
  BY AtWork DEF Check
<1>2. label' = label /\ done' = done /\ runs' = runs /\ DOMAIN label = Entities
  BY DEF Check, TaskInv
<1>3. PICK y, obj, adj : /\ y = sink[s]
                         /\ obj = [y.obj EXCEPT !.total = IF @ = 0 THEN Len(y.list) ELSE @]
                         /\ adj = [obj EXCEPT !.expected = IF @ > Excluded THEN @ - Excluded ELSE 0]
  OBVIOUS
<1>4. SinkOk(y) /\ RowOk(y.obj) /\ ObjOk(y, y.obj) /\ y.list = The
  BY <1>1, <1>3 DEF SinkOk, ObjOk, Phase
<1>5. /\ DOMAIN obj = Columns /\ obj.status = y.obj.status /\ obj.attempts = y.obj.attempts
      /\ obj.labeled = y.obj.labeled /\ obj.expected = y.obj.expected
      /\ obj.total = IF y.obj.total = 0 THEN Len(y.list) ELSE y.obj.total
  BY <1>3, <1>4 DEF RowOk, Columns
<1>6. obj.total = Len(The)
  BY <1>4, <1>5 DEF RowOk
<1>7. ObjOk(y, obj)
  BY <1>4, <1>5, <1>6 DEF ObjOk, RowOk
<1>8. /\ DOMAIN adj = Columns /\ adj.status = obj.status /\ adj.attempts = obj.attempts
      /\ adj.labeled = obj.labeled /\ adj.total = obj.total
      /\ adj.expected = IF obj.expected > Excluded THEN obj.expected - Excluded ELSE 0
  BY <1>3, <1>5 DEF Columns
<1>9. adj.expected \in Nat
  BY <1>7, <1>8 DEF ObjOk, RowOk, Parameters
<1>10. ASSUME ~InMargin(obj.expected, obj.total) PROVE ObjOk(y, adj)
  <2>1. InMargin(Adjusted, Len(The)) => obj.expected = Expected
    BY <1>6, <1>7, <1>10 DEF ObjOk, RowOk
  <2>2. InMargin(Adjusted, Len(The)) => adj.expected = Adjusted
    BY <1>8, <2>1 DEF Adjusted
  <2>. QED BY <1>7, <1>8, <1>9, <2>2 DEF ObjOk, RowOk
<1>11. ASSUME NEW o, ObjOk(y, o), o.total = Len(The), row' = row,
              sink' = [sink EXCEPT ![s] = [@ EXCEPT !.pc = "label", !.obj = o, !.idx = o.labeled]]
       PROVE  TaskInv'
  <2>1. PICK x : x = [y EXCEPT !.pc = "label", !.obj = o, !.idx = o.labeled]
    OBVIOUS
  <2>2. sink' = [sink EXCEPT ![s] = x]
    BY <1>3, <1>11, <2>1 DEF TaskInv
  <2>3. DOMAIN x = Fields /\ x.pc = "label" /\ x.obj = o /\ x.base = y.base /\ x.list = y.list /\ x.idx = o.labeled
    BY <1>4, <2>1 DEF SinkOk, Fields
  <2>4. ObjOk(x, x.obj)'
    BY <1>2, <1>11, <2>3 DEF ObjOk, RowOk, DoneTo
  <2>5. Phase(x, x.obj.total)'
    BY <1>2, <1>4, <1>11, <2>3 DEF Phase, ObjOk, RowOk, DoneTo
  <2>. QED BY <1>1, <1>2, <1>3, <1>11, <2>2, <2>3, <2>4, <2>5, LocalKeeps
<1>12. ASSUME NEW o, ObjOk(y, o), Fail(s, o, FALSE) PROVE TaskInv'
  BY <1>1, <1>2, <1>3, <1>12, FailKeeps
<1>13. \/ /\ row' = row /\ sink' = [sink EXCEPT ![s] = [@ EXCEPT !.pc = "label", !.obj = obj, !.idx = obj.labeled]]
       \/ /\ ~InMargin(obj.expected, obj.total)
          /\ \/ row' = row /\ sink' = [sink EXCEPT ![s] = [@ EXCEPT !.pc = "label", !.obj = adj, !.idx = adj.labeled]]
             \/ Fail(s, adj, FALSE)
       \/ Fail(s, obj, FALSE)
  <2>. DEFINE o == [sink[s].obj EXCEPT !.total = IF @ = 0 THEN Len(sink[s].list) ELSE @]
              a == [o EXCEPT !.expected = IF @ > Excluded THEN @ - Excluded ELSE 0]
  <2>1. \/ /\ row' = row /\ sink' = [sink EXCEPT ![s] = [@ EXCEPT !.pc = "label", !.obj = o, !.idx = o.labeled]]
        \/ /\ ~InMargin(o.expected, o.total)
           /\ \/ row' = row /\ sink' = [sink EXCEPT ![s] = [@ EXCEPT !.pc = "label", !.obj = a, !.idx = a.labeled]]
              \/ Fail(s, a, FALSE)
        \/ Fail(s, o, FALSE)
    BY Zenon DEF Check
  <2>2. o = obj /\ a = adj
    BY <1>3, Zenon
  <2>. HIDE DEF o, a
  <2>. QED BY <2>1, <2>2, Zenon
<1>. QED BY <1>6, <1>7, <1>8, <1>10, <1>11, <1>12, <1>13

(* An entity is labelled before the index passes it. *)
LEMMA LabelKeeps == ASSUME Parameters, TaskInv, NEW s \in Sinks, Label(s) PROVE TaskInv'
<1>1. PICK y : y = sink[s]
  OBVIOUS
<1>2. /\ y.pc = "label" /\ y # Idle /\ SinkOk(y) /\ ObjOk(y, y.obj) /\ RowOk(y.obj)
      /\ y.list = The /\ y.idx \in Nat /\ DoneTo(y.idx) /\ y.obj.total = Len(The)
  BY <1>1, AtWork DEF Label, SinkOk, ObjOk, Phase
<1>3. runs' = runs /\ DOMAIN label = Entities
  BY DEF Label, TaskInv
<1>4. ASSUME y.idx < Len(The),
             label' = [label EXCEPT ![The[y.idx + 1]] = WithBulkLabel(@)], done' = done \cup {The[y.idx + 1]},
             sink' = [sink EXCEPT ![s] = [@ EXCEPT !.pc = "labelled", !.errs = 0]], row' = row
      PROVE  TaskInv'
  <2>1. PICK x : x = [y EXCEPT !.pc = "labelled", !.errs = 0]
    OBVIOUS
  <2>2. sink' = [sink EXCEPT ![s] = x]
    BY <1>1, <1>4, <2>1 DEF TaskInv
  <2>3. DOMAIN x = Fields /\ x.pc = "labelled" /\ x.obj = y.obj /\ x.base = y.base /\ x.list = y.list /\ x.idx = y.idx
    BY <1>2, <2>1 DEF SinkOk, Fields
  <2>4. RowOk(y.obj)'
    BY <1>2, <1>4, RowOkStays
  <2>5. ObjOk(x, x.obj)'
    BY <1>2, <2>3, <2>4 DEF ObjOk
  <2>6. DoneTo(y.idx)' /\ DoneTo(y.idx + 1)'
    BY <1>2, <1>4 DEF DoneTo
  <2>7. Phase(x, x.obj.total)'
    BY <1>2, <2>3, <2>6 DEF Phase
  <2>8. DOMAIN label' = Entities /\ done \subseteq done'
    BY <1>3, <1>4
  <2>. QED BY <1>1, <1>2, <1>3, <1>4, <2>2, <2>3, <2>5, <2>7, <2>8, LocalKeeps
<1>5. ASSUME NEW e, Heartbeat(s, "LABELLING", y.obj.labeled, [y EXCEPT !.errs = e]), UNCHANGED <<label, done>>
      PROVE  TaskInv'
  <2>1. PICK next : next = [y EXCEPT !.errs = e]
    OBVIOUS
  <2>2. DOMAIN next = Fields /\ next.pc = "label" /\ next.list = y.list /\ next.idx = y.idx
    BY <1>2, <2>1 DEF SinkOk, Fields
  <2>3. Phase(next, y.obj.total)
    BY <1>2, <2>2 DEF Phase
  <2>4. y.obj.labeled \in Nat /\ DoneTo(y.obj.labeled)
    BY <1>2 DEF RowOk
  <2>. QED BY <1>1, <1>2, <1>3, <1>5, <2>1, <2>2, <2>3, <2>4, HeartbeatKeeps
<1>6. ASSUME Fail(s, y.obj, TRUE), UNCHANGED <<label, done>> PROVE TaskInv'
  BY <1>1, <1>2, <1>3, <1>6, FailKeeps
<1>7. \/ /\ y.idx < Len(The) /\ row' = row
         /\ label' = [label EXCEPT ![The[y.idx + 1]] = WithBulkLabel(@)] /\ done' = done \cup {The[y.idx + 1]}
         /\ sink' = [sink EXCEPT ![s] = [@ EXCEPT !.pc = "labelled", !.errs = 0]]
      \/ UNCHANGED <<label, done>> /\ \E e : Heartbeat(s, "LABELLING", y.obj.labeled, [y EXCEPT !.errs = e])
      \/ UNCHANGED <<label, done>> /\ Fail(s, y.obj, TRUE)
  BY <1>1, <1>2 DEF Label
<1>. QED BY <1>4, <1>5, <1>6, <1>7

(* The heartbeat after an entity reports what has been labelled. *)
LEMMA AdvanceKeeps == ASSUME Parameters, TaskInv, NEW s \in Sinks, Advance(s) PROVE TaskInv'
<1>1. PICK y, next : y = sink[s] /\ next = [y EXCEPT !.pc = "label", !.idx = @ + 1]
  OBVIOUS
<1>2. /\ y.pc = "labelled" /\ y # Idle /\ SinkOk(y) /\ ObjOk(y, y.obj) /\ RowOk(y.obj)
      /\ y.list = The /\ y.idx \in Nat /\ DoneTo(y.idx + 1) /\ y.obj.total = Len(The)
  BY <1>1, AtWork DEF Advance, SinkOk, ObjOk, Phase
<1>3. label' = label /\ done' = done /\ runs' = runs /\ DOMAIN label = Entities
  BY DEF Advance, TaskInv
<1>4. /\ DOMAIN next = Fields /\ next.pc = "label" /\ next.list = y.list /\ next.idx = y.idx + 1
      /\ next.obj = y.obj /\ next.base = y.base
  BY <1>1, <1>2 DEF SinkOk, Fields
<1>5. next.idx \in Nat /\ DoneTo(next.idx)
  BY <1>2, <1>4
<1>6. Phase(next, y.obj.total)
  BY <1>2, <1>4, <1>5 DEF Phase
<1>7. CASE Heartbeat(s, "LABELLING", next.idx, next)
  <2>1. sink[s] # Idle /\ Phase(next, sink[s].obj.total) /\ UNCHANGED <<label, done, runs>> /\ next.pc # "run"
    BY <1>1, <1>2, <1>3, <1>4, <1>6
  <2>. QED BY <1>4, <1>5, <1>7, <2>1, HeartbeatKeeps
<1>8. CASE sink' = [sink EXCEPT ![s] = next] /\ row' = row
  <2>1. ObjOk(next, next.obj)'
    BY <1>2, <1>3, <1>4 DEF ObjOk, RowOk, DoneTo
  <2>2. Phase(next, next.obj.total)'
    BY <1>3, <1>4, <1>6 DEF Phase, DoneTo
  <2>. QED BY <1>1, <1>2, <1>3, <1>4, <1>8, <2>1, <2>2, LocalKeeps
<1>9. \/ Heartbeat(s, "LABELLING", next.idx, next)
      \/ sink' = [sink EXCEPT ![s] = next] /\ row' = row
  <2>. DEFINE n == [sink[s] EXCEPT !.pc = "label", !.idx = @ + 1]
  <2>1. \/ Heartbeat(s, "LABELLING", n.idx, n)
        \/ sink' = [sink EXCEPT ![s] = n] /\ row' = row
    BY Zenon DEF Advance
  <2>2. n = next
    BY <1>1, Zenon
  <2>. HIDE DEF n
  <2>. QED BY <2>1, <2>2, Zenon
<1>. QED BY <1>7, <1>8, <1>9

(* The last heartbeat comes when the index has passed every entity. *)
LEMMA FinishKeeps == ASSUME Parameters, TaskInv, NEW s \in Sinks, Finish(s) PROVE TaskInv'
<1>1. PICK y, next : y = sink[s] /\ next = [y EXCEPT !.pc = "finish"]
  OBVIOUS
<1>2. /\ y.pc = "label" /\ y # Idle /\ SinkOk(y) /\ y.idx \in Nat /\ DoneTo(y.idx)
      /\ y.obj.total = Len(The) /\ y.idx >= y.obj.total
  BY <1>1, AtWork DEF Finish, SinkOk, Phase
<1>3. Len(The) \in Nat /\ DoneTo(Len(The))
  BY <1>2 DEF DoneTo, Parameters
<1>4. DOMAIN next = Fields /\ next.pc = "finish"
  BY <1>1, <1>2 DEF SinkOk, Fields
<1>5. Phase(next, y.obj.total)
  BY <1>3, <1>4 DEF Phase
<1>6. Heartbeat(s, "LABELLING", y.obj.total, next) /\ UNCHANGED <<label, done, runs>>
  BY <1>1 DEF Finish
<1>. QED BY <1>1, <1>2, <1>3, <1>4, <1>5, <1>6, HeartbeatKeeps

(* COMPLETE is written when every entity has been labelled. *)
LEMMA CompleteKeeps == ASSUME Parameters, TaskInv, NEW s \in Sinks, Complete(s) PROVE TaskInv'
<1>1. PICK y, o, rest : /\ y = sink[s] /\ rest = [y EXCEPT !.pc = "analytics"]
                        /\ o = [y.obj EXCEPT !.status = "COMPLETE"]
  OBVIOUS
<1>2. y.pc = "finish" /\ y # Idle /\ SinkOk(y) /\ ObjOk(y, y.obj) /\ RowOk(y.obj) /\ DoneTo(Len(The))
  BY <1>1, AtWork DEF Complete, SinkOk, ObjOk, Phase
<1>3. /\ DOMAIN o = Columns /\ o.status = "COMPLETE" /\ o.attempts = y.obj.attempts
      /\ o.labeled = y.obj.labeled /\ o.total = y.obj.total /\ o.expected = y.obj.expected
  BY <1>1, <1>2 DEF RowOk, Columns
<1>4. ObjOk(y, o)
  BY <1>2, <1>3 DEF ObjOk, RowOk
<1>5. DOMAIN rest = Fields /\ rest.pc = "analytics"
  BY <1>1, <1>2 DEF SinkOk, Fields
<1>6. Phase(rest, o.total)
  BY <1>2, <1>5 DEF Phase
<1>7. Save(s, o, rest) /\ UNCHANGED <<label, done, runs>>
  BY <1>1 DEF Complete
<1>. QED BY <1>1, <1>2, <1>4, <1>5, <1>6, <1>7, SaveKeeps

(* A sink that is done, or rebooted, leaves the row. *)
LEMMA IdleKeeps ==
  ASSUME Parameters, TaskInv, NEW s \in Sinks, sink' = [sink EXCEPT ![s] = Idle], UNCHANGED <<row, label, done, runs>>
  PROVE  TaskInv'
<1>1. PICK x : x = Idle
  OBVIOUS
<1>2. x.pc # "run" /\ x = Idle /\ sink' = [sink EXCEPT ![s] = x]
  BY <1>1 DEF Idle
<1>3. Counted'
  BY <1>2, CountWithout
<1>4. RowOk(row)' /\ DOMAIN label' = Entities
  BY DEF TaskInv, RowOk, DoneTo
<1>. QED BY <1>2, <1>3, <1>4, SinkStepKeeps

(* The analytics event, whose failure releases the task again. *)
LEMMA SendAnalyticsKeeps == ASSUME Parameters, TaskInv, NEW s \in Sinks, SendAnalytics(s) PROVE TaskInv'
<1>1. sink[s] # Idle /\ ObjOk(sink[s], sink[s].obj) /\ UNCHANGED <<label, done, runs>>
  BY AtWork DEF SendAnalytics, SinkOk
<1>. QED BY <1>1, IdleKeeps, FailKeeps DEF SendAnalytics

(* Time and the rollback touch neither the row nor the sinks. *)
LEMMA RestKeeps ==
  ASSUME TaskInv, UNCHANGED <<row, sink, done, runs>>, DOMAIN label' = DOMAIN label
  PROVE  TaskInv'
<1>1. Counted'
  BY DEF TaskInv, Counted, Pending
<1>2. RowOk(row)'
  BY DEF TaskInv, RowOk, DoneTo
<1>3. ASSUME NEW s \in Sinks PROVE (sink[s] = Idle \/ SinkOk(sink[s]))'
  <2>1. PICK x : x = sink[s]
    OBVIOUS
  <2>2. x = Idle \/ SinkOk(x)'
    BY <2>1, SinkOkStays DEF TaskInv
  <2>. QED BY <2>1, <2>2
<1>. QED BY <1>1, <1>2, <1>3 DEF TaskInv

(* Every step keeps the invariant. *)
LEMMA TaskNextKeepsInv == ASSUME Parameters, TaskInv, Next \/ UNCHANGED vars PROVE TaskInv'
<1>1. ASSUME NEW s \in Sinks, SinkStep(s) PROVE TaskInv'
  BY <1>1, ClaimKeeps, StartKeeps, QueryKeeps, CheckKeeps, LabelKeeps, AdvanceKeeps, FinishKeeps, CompleteKeeps,
     SendAnalyticsKeeps DEF SinkStep
<1>2. ASSUME NEW s \in Sinks, Crash(s) PROVE TaskInv'
  BY <1>2, IdleKeeps DEF Crash
<1>3. ASSUME NEW e \in Entities, AddOtherReason(e) \/ RollbackReads(e) \/ RollbackWrites(e) PROVE TaskInv'
  BY <1>3, RestKeeps DEF AddOtherReason, RollbackReads, RollbackWrites
<1>4. CASE Expire \/ BackoffEnds \/ StartRollback \/ UNCHANGED vars
  BY <1>4, RestKeeps DEF Expire, BackoffEnds, StartRollback, vars
<1>. QED BY <1>1, <1>2, <1>3, <1>4 DEF Next

-----------------------------------------------------------------------------
(* What follows from the invariant.                                        *)

TaskSafe == PrefixLabelled /\ CompleteMeansLabelled /\ ExpectedAdjustedOnce /\ BoundedRuns

(* The invariant implies the properties that runs check. *)
LEMMA TaskInvGives == ASSUME Parameters, TaskInv PROVE TaskSafe
<1>1. PrefixLabelled
  BY DEF PrefixLabelled, TaskInv, RowOk, DoneTo, Parameters
<1>2. CompleteMeansLabelled
  <2>1. row.status = "COMPLETE" => \A i \in 1..Len(The) : The[i] \in done
    BY DEF TaskInv, RowOk, DoneTo
  <2>2. ToSet(The) = {The[i] : i \in 1..Len(The)}
    BY DEF Parameters, ToSet
  <2>. QED BY <2>1, <2>2 DEF CompleteMeansLabelled, Parameters
<1>3. ExpectedAdjustedOnce
  <2>1. row.expected \in Nat /\ (InMargin(Adjusted, Len(The)) => row.expected \in {Expected, Adjusted})
    BY DEF TaskInv, RowOk
  <2>2. Adjusted + Excluded >= Expected /\ Expected + Excluded >= Expected
    BY DEF Parameters, Adjusted
  <2>3. InMargin(Adjusted, Len(The)) => row.expected + Excluded >= Expected
    BY <2>1, <2>2
  <2>4. (\A r \in Results : InMargin(Adjusted, Len(r))) => InMargin(Adjusted, Len(The))
    BY DEF Parameters
  <2>. QED BY <2>3, <2>4 DEF ExpectedAdjustedOnce, Adjusted
<1>4. BoundedRuns
  <2>1. Cardinality(Pending) \in Nat
    BY FS_CardinalityType DEF TaskInv, Counted
  <2>. QED BY <2>1 DEF BoundedRuns, TaskInv, Counted, Parameters
<1>. QED BY <1>1, <1>2, <1>3, <1>4 DEF TaskSafe

(* Resuming a task skips no entity, COMPLETE means that all are labelled,  *)
(* the excluded are subtracted once and a task is processed fewer than     *)
(* MAX_ATTEMPTS times, for any number of sinks and takeovers               *)
(* (BulkLabelSink, BulkLabelTask.claim).                                   *)
THEOREM TaskIsSafe == ASSUME Parameters PROVE Spec => []TaskSafe
<1>1. Init => TaskInv
  BY TaskInitInv
<1>2. TaskInv /\ [Next]_vars => TaskInv'
  BY TaskNextKeepsInv
<1>3. TaskInv => TaskSafe
  BY TaskInvGives
<1>. QED BY <1>1, <1>2, <1>3, PTL DEF Spec

(* A label that was read and has had another reason since is known to. *)
RollbackInv ==
  /\ DOMAIN rollback = {"started", "read", "late"}
  /\ \A e \in Entities : e \in rollback.read /\ label[e] \in {"other", "mixed"} => e \in rollback.late

(* What a step does to labels and to the rollback: a label joins the bulk  *)
(* reason, gets another, or is read or removed by the rollback.            *)
LEMMA LabelSteps ==
  ASSUME Next \/ UNCHANGED vars
  PROVE  \/ \E e \in Entities : AddOtherReason(e) \/ RollbackReads(e) \/ RollbackWrites(e)
         \/ rollback' = rollback /\ (label' = label \/ \E a : label' = [label EXCEPT ![a] = WithBulkLabel(label[a])])
         \/ rollback' = [rollback EXCEPT !.started = TRUE] /\ label' = label
<1>1. ASSUME NEW s \in Sinks, Label(s)
      PROVE  rollback' = rollback /\ (label' = label \/ \E a : label' = [label EXCEPT ![a] = WithBulkLabel(label[a])])
  BY <1>1 DEF Label
<1>2. ASSUME NEW s \in Sinks, SinkStep(s) \/ Crash(s), ~Label(s) PROVE UNCHANGED <<label, rollback>>
  BY <1>2 DEF SinkStep, Claim, TakeUp, Start, Query, Check, Advance, Finish, Complete, SendAnalytics, Crash
<1>3. CASE Expire \/ BackoffEnds \/ UNCHANGED vars
  BY <1>3 DEF Expire, BackoffEnds, vars
<1>4. CASE StartRollback
  BY <1>4 DEF StartRollback
<1>. QED BY <1>1, <1>2, <1>3, <1>4 DEF Next

(* The step removes a label that has another reason only if that is late. *)
Spares == \A e \in Entities : label[e] \in {"other", "mixed"} /\ label'[e] = "removed" => e \in rollback.late

(* Only the rollback removes a label, and it knows what came late. *)
LEMMA RollbackKeeps ==
  ASSUME TaskInv, RollbackInv, Next \/ UNCHANGED vars
  PROVE  RollbackInv' /\ Spares
<1>0. DOMAIN label = Entities /\ DOMAIN rollback = {"started", "read", "late"}
  BY DEF TaskInv, RollbackInv
<1>1. ASSUME NEW a \in Entities, AddOtherReason(a) PROVE RollbackInv' /\ Spares
  <2>1. PICK l, r : l = label' /\ r = rollback'
    OBVIOUS
  <2>2. /\ l = [label EXCEPT ![a] = WithOtherReason(label[a])]
        /\ r = [rollback EXCEPT !.late = rollback.late \cup ({a} \cap rollback.read)]
    BY <1>1, <2>1 DEF AddOtherReason
  <2>3. /\ DOMAIN r = {"started", "read", "late"} /\ r.read = rollback.read
        /\ r.late = rollback.late \cup ({a} \cap rollback.read)
    BY <1>0, <2>2
  <2>4. \A e \in Entities : l[e] = IF e = a THEN WithOtherReason(label[a]) ELSE label[e]
    BY <1>0, <2>2
  <2>5. \A e \in Entities : e # a => l[e] = label[e]
    BY <2>4
  <2>6. \A e \in Entities : e \in r.read /\ l[e] \in {"other", "mixed"} => e \in r.late
    BY <2>3, <2>5 DEF RollbackInv
  <2>7. WithOtherReason(label[a]) # "removed"
    BY DEF WithOtherReason
  <2>8. Spares
    BY <2>1, <2>4, <2>7 DEF Spares
  <2>. QED BY <2>1, <2>3, <2>6, <2>8 DEF RollbackInv
<1>2. ASSUME NEW a \in Entities, RollbackReads(a) PROVE RollbackInv' /\ Spares
  <2>1. label' = label /\ label[a] = "bulk" /\ rollback' = [rollback EXCEPT !.read = {a}]
    BY <1>2 DEF RollbackReads
  <2>2. DOMAIN rollback' = {"started", "read", "late"} /\ rollback'.read = {a}
    BY <1>0, <2>1
  <2>. QED BY <2>1, <2>2 DEF RollbackInv, Spares
<1>3. ASSUME NEW a \in Entities, RollbackWrites(a) PROVE RollbackInv' /\ Spares
  <2>1. label' = [label EXCEPT ![a] = "removed"] /\ a \in rollback.read
        /\ rollback' = [rollback EXCEPT !.read = {}, !.late = {}]
    BY <1>3 DEF RollbackWrites
  <2>2. DOMAIN rollback' = {"started", "read", "late"} /\ rollback'.read = {}
    BY <1>0, <2>1
  <2>3. \A e \in Entities : e # a => label'[e] = label[e]
    BY <1>0, <2>1
  <2>. QED BY <2>1, <2>2, <2>3 DEF RollbackInv, Spares
<1>4. CASE rollback' = rollback /\ (label' = label \/ \E a : label' = [label EXCEPT ![a] = WithBulkLabel(label[a])])
  <2>1. \A e \in Entities : label'[e] = label[e] \/ label'[e] = WithBulkLabel(label[e])
    BY <1>0, <1>4
  <2>2. \A x : WithBulkLabel(x) # "removed" /\ (WithBulkLabel(x) \in {"other", "mixed"} => x \in {"other", "mixed"})
    BY DEF WithBulkLabel
  <2>3. \A e \in Entities : /\ label'[e] \in {"other", "mixed"} => label[e] \in {"other", "mixed"}
                            /\ label'[e] = "removed" => label[e] = "removed"
    BY <2>1, <2>2
  <2>. QED BY <1>4, <2>3 DEF RollbackInv, Spares
<1>5. CASE rollback' = [rollback EXCEPT !.started = TRUE] /\ label' = label
  <2>1. /\ DOMAIN rollback' = {"started", "read", "late"} /\ rollback'.read = rollback.read
        /\ rollback'.late = rollback.late
    BY <1>0, <1>5
  <2>. QED BY <1>5, <2>1 DEF RollbackInv, Spares
<1>. QED BY <1>1, <1>2, <1>3, <1>4, <1>5, LabelSteps

(* rollback_task_effects leaves a label alone that has another reason when *)
(* it reads it, whatever sinks and others do meanwhile: what it takes away *)
(* is at most a reason that came between its read and its write.           *)
THEOREM RollbackSpares == ASSUME Parameters PROVE Spec => RollbackSparesOthers
<1>1. Init => TaskInv /\ RollbackInv
  <2>1. Init => RollbackInv
    BY DEF Init, RollbackInv
  <2>. QED BY <2>1, TaskInitInv
<1>2. TaskInv /\ RollbackInv /\ [Next]_vars => (TaskInv /\ RollbackInv)'
  BY TaskNextKeepsInv, RollbackKeeps
<1>3. TaskInv /\ RollbackInv /\ [Next]_vars => [Spares]_vars
  BY RollbackKeeps
<1>4. Spec => [][Spares]_vars
  BY <1>1, <1>2, <1>3, PTL DEF Spec
<1>. QED BY <1>4 DEF RollbackSparesOthers, Spares
=============================================================================
