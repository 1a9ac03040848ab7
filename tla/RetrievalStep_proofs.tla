------------------------ MODULE RetrievalStep_proofs ------------------------
(***************************************************************************)
(* Proofs about RetrievalStep, for documents of any number of pages, any   *)
(* chapters, plans and searches, and any limits.                           *)
(*                                                                         *)
(* They follow the pages: what a retrieval returns, what the merger lays   *)
(* out of it, and what is left of that in the context.  Then they follow   *)
(* the characters: what the merger counts, and what is cut of what it does *)
(* not count.  Nothing is assumed of scores, and of lengths and limits no  *)
(* more than that they are natural numbers.                                *)
(***************************************************************************)
EXTENDS RetrievalStep, FiniteSetTheorems, WellFoundedInduction, TLAPS

-----------------------------------------------------------------------------
(* Numbers and finite sets.                                                *)

LEMMA Least ==
  ASSUME NEW T, T \subseteq Nat, T # {}
  PROVE  \E m \in T : \A k \in T : m <= k
  <1> DEFINE R == OpToRel(<, Nat)
  <1>1. IsWellFoundedOn(R, Nat) BY NatLessThanWellFounded
  <1>2. \A x, y \in Nat : <<y, x>> \in R <=> y < x BY DEF OpToRel
  <1> HIDE DEF R
  <1>3. PICK m \in T : \A k \in T : ~(<<k, m>> \in R) BY <1>1, WFMin
  <1>4. \A k \in T : ~(k < m) BY <1>2, <1>3
  <1>5. \A k \in T : m <= k BY <1>4
  <1> QED BY <1>5

\* What holds at 0 and passes from each number to the next holds up to n.
LEMMA UpTo ==
  ASSUME NEW n \in Nat, NEW T, 0 \in T, \A i \in 1..n : i - 1 \in T => i \in T
  PROVE  \A i \in 0..n : i \in T
  <1> DEFINE U == {i \in 0..n : i \notin T}
  <1>1. CASE U = {} BY <1>1
  <1>2. CASE U # {}
    <2>1. U \subseteq Nat OBVIOUS
    <2>2. PICK m \in U : \A k \in U : m <= k BY <1>2, <2>1, Least
    <2>3. m \in 1..n /\ m - 1 \in 0..n /\ m \notin T BY <2>2
    <2>4. m - 1 \notin U BY <2>2, <2>3
    <2>5. m - 1 \in T BY <2>3, <2>4
    <2> QED BY <2>3, <2>5
  <1> QED BY <1>1, <1>2

LEMMA MinIs ==
  ASSUME NEW T, T \subseteq Nat, T # {}
  PROVE  Min(T) \in T
  <1>1. \E m \in T : \A k \in T : m <= k BY Least
  <1> QED BY <1>1 DEF Min

LEMMA MinOfTwo ==
  ASSUME NEW a \in Int, NEW b \in Int
  PROVE  Min({a, b}) = IF a <= b THEN a ELSE b
  <1> DEFINE m == IF a <= b THEN a ELSE b
  <1>1. m \in {a, b} /\ \A k \in {a, b} : m <= k OBVIOUS
  <1>2. \A l \in {a, b} : (\A k \in {a, b} : l <= k) => l = m OBVIOUS
  <1> QED BY <1>1, <1>2 DEF Min

LEMMA MaxOfTwo ==
  ASSUME NEW a \in Int, NEW b \in Int
  PROVE  Max({a, b}) = IF a >= b THEN a ELSE b
  <1> DEFINE m == IF a >= b THEN a ELSE b
  <1>1. m \in {a, b} /\ \A k \in {a, b} : m >= k OBVIOUS
  <1>2. \A l \in {a, b} : (\A k \in {a, b} : l >= k) => l = m OBVIOUS
  <1> QED BY <1>1, <1>2 DEF Max

LEMMA Divided ==
  ASSUME NEW a \in Nat, NEW b \in Nat, b # 0
  PROVE  a \div b \in Nat
  OBVIOUS

LEMMA LimitsAre ==
  /\ Cfg.max_chars \in Nat /\ Cfg.budget \in Nat /\ Cfg.min_step \in Nat
  /\ Cfg.min_single_step \in Nat /\ Cfg.single_step_max \in Nat /\ Cfg.multi_step_max \in Nat
  /\ Cfg.sub_merge_cap \in Nat /\ Cfg.min_per_doc \in Nat /\ Cfg.header \in Nat
  /\ Cfg.section \in Nat /\ Cfg.marker \in Nat \ {0} /\ Cfg.heading \in Nat
  /\ Cfg.min_room \in Nat /\ Cfg.least_standard \in Nat /\ Cfg.least_decomposed \in Nat
  /\ Cfg.cap_top \in Nat /\ Cfg.cap_high \in Nat /\ Cfg.cap_medium \in Nat
  /\ Cfg.cap_low \in Nat /\ Cfg.cap_floor \in Nat /\ Cfg.page_parts \in Nat \ {0}
  /\ Cfg.max_rescued \in Nat /\ Cfg.excerpt \in Nat /\ Cfg.structure_content \in Nat
  /\ Cfg.page_preview \in Nat /\ Cfg.leading_pages \in Nat \ {0}
  BY StepAssumption DEF Limits

\* SetToSeq lists each element of a finite set.
LEMMA SetToSeqIs ==
  ASSUME NEW S, IsFiniteSet(S)
  PROVE  /\ SetToSeq(S) \in [1..Cardinality(S) -> S]
         /\ Cardinality(S) \in Nat
         /\ \A x \in S : \E i \in 1..Cardinality(S) : SetToSeq(S)[i] = x
  <1> DEFINE n == Cardinality(S)
  <1>1. n \in Nat /\ ExistsBijection(1..n, S) BY FS_CardinalityType
  <1>2. PICK g \in Bijection(1..n, S) : TRUE BY <1>1 DEF ExistsBijection
  <1>3. g \in [1..n -> S] /\ IsInjective(g) BY <1>2, Zenon DEF Bijection, Injection
  <1> DEFINE f == SetToSeq(S)
  <1>4. \E h \in [1..n -> S] : IsInjective(h) BY <1>3
  <1>5. f \in [1..n -> S] /\ IsInjective(f) BY <1>4, Zenon DEF SetToSeq
  <1> HIDE DEF f
  <1>6. f \in Injection(1..n, S) BY <1>5, Zenon DEF Injection
  <1>7. IsFiniteSet(1..n) /\ Cardinality(1..n) = n
    <2>1. 0 \in Int /\ 1 \in Int /\ n \in Int BY <1>1
    <2>2. IsFiniteSet(1..n) /\ Cardinality(1..n) = IF 1 > n THEN 0 ELSE n - 1 + 1
      BY <2>1, FS_Interval
    <2> QED BY <1>1, <2>2
  <1>8. f \in Surjection(1..n, S) BY <1>6, <1>7, FS_Injection
  <1> QED BY <1>1, <1>5, <1>8 DEF f, Surjection

-----------------------------------------------------------------------------
(* Sequences.                                                              *)

\* What is kept of a sequence, and that it is.
LEMMA KeepOf ==
  ASSUME NEW X, NEW s \in Seq(X), NEW I
  PROVE  /\ Keep(s, I) \in Seq(X)
         /\ \A x : (\E i \in DOMAIN Keep(s, I) : Keep(s, I)[i] = x)
                     <=> \E i \in 1..Len(s) : i \in I /\ s[i] = x
  <1> DEFINE all == [i \in 1..Len(s) |-> i]
             n == Len(all)
             base == <<>>
             op(out, i) == IF i \in I THEN Append(out, s[i]) ELSE out
             E(g) == [i \in 0..n |->
                        IF i = 0 THEN base ELSE At(g[i - 1], LAMBDA a : op(a, all[i]))]
             f == CHOOSE g : g = E(g)
  <1>100. n \in Nat /\ n = Len(s) OBVIOUS
  <1>1. Keep(s, I) = f[n] BY DEF Keep, Fold
  <1>2. base \in Seq(X) /\ \A i : i \notin DOMAIN base OBVIOUS
  <1>3. ASSUME NEW i \in 1..n, NEW a \in Seq(X)
        PROVE  /\ op(a, all[i]) \in Seq(X)
               /\ \A x : (\E j \in DOMAIN op(a, all[i]) : op(a, all[i])[j] = x)
                           <=> (\E j \in DOMAIN a : a[j] = x) \/ (i \in I /\ s[i] = x)
    <2>1. all[i] = i /\ s[i] \in X BY <1>100
    <2> HIDE DEF all, n
    <2>2. CASE i \notin I BY <2>1, <2>2
    <2>3. CASE i \in I
      <3> DEFINE b == Append(a, s[i])
      <3>1. op(a, all[i]) = b BY <2>1, <2>3
      <3>2. b \in Seq(X) BY <2>1
      <3>3. Len(a) \in Nat /\ DOMAIN a = 1..Len(a) /\ DOMAIN b = 1..(Len(a) + 1) BY <2>1
      <3>4. (\A j \in 1..Len(a) : b[j] = a[j]) /\ b[Len(a) + 1] = s[i] BY <2>1
      <3> HIDE DEF b, op
      <3>5. \A j \in DOMAIN b : j \in DOMAIN a \/ j = Len(a) + 1 BY <3>3
      <3>6. Len(a) + 1 \in DOMAIN b /\ \A j \in DOMAIN a : j \in DOMAIN b BY <3>3
      <3>7. \A x : (\E j \in DOMAIN b : b[j] = x) <=> (\E j \in DOMAIN a : a[j] = x) \/ s[i] = x
        BY <3>3, <3>4, <3>5, <3>6
      <3> QED BY <2>3, <3>1, <3>2, <3>7
    <2> QED BY <2>2, <2>3
  <1> HIDE DEF all
  <1> HIDE DEF op, base, n
  <1> DEFINE H(m, h) == h = [i \in 0..m |-> IF i = 0 THEN base ELSE op(h[i - 1], all[i])]
             T == {m \in 0..n : \E h : H(m, h)}
  <1>101. 0 \in T
    <2>1. H(0, [i \in 0..0 |-> base]) OBVIOUS
    <2> HIDE DEF H
    <2> QED BY <1>100, <2>1
  <1>102. ASSUME NEW m \in 1..n, m - 1 \in T PROVE m \in T
    <2>1. m \in 0..n BY <1>100
    <2>2. PICK h : H(m - 1, h) BY <1>102
    <2> DEFINE g == [i \in 0..m |-> IF i = m THEN op(h[m - 1], all[m]) ELSE h[i]]
    <2>3. ASSUME NEW i \in 0..m PROVE g[i] = IF i = 0 THEN base ELSE op(g[i - 1], all[i])
      <3>1. CASE i = m
        <4>1. m - 1 \in 0..m /\ m # 0 /\ m - 1 # m BY <1>100
        <4> QED BY <3>1, <4>1
      <3>2. CASE i # m
        <4>1. i \in 0..(m - 1) BY <1>100, <3>2
        <4>2. i # 0 => i - 1 \in 0..m /\ i - 1 # m BY <1>100, <3>2
        <4>3. g[i] = h[i] /\ (i # 0 => g[i - 1] = h[i - 1]) BY <3>2, <4>2
        <4>4. h[i] = IF i = 0 THEN base ELSE op(h[i - 1], all[i]) BY <2>2, <4>1
        <4> QED BY <4>3, <4>4
      <3> QED BY <3>1, <3>2
    <2>4. H(m, g) BY <2>3
    <2> HIDE DEF g, H
    <2> QED BY <2>1, <2>4
  <1>103. PICK h : H(n, h)
    <2> HIDE DEF T
    <2>1. \A m \in 1..n : m - 1 \in T => m \in T BY <1>102
    <2>2. \A m \in 0..n : m \in T BY <1>100, <1>101, <2>1, UpTo
    <2>3. n \in T BY <1>100, <2>2
    <2> QED BY <2>3 DEF T
  <1>104. \A g, i : At(g[i - 1], LAMBDA a : op(a, all[i])) = op(g[i - 1], all[i])
    BY Zenon DEF At
  <1>105. h = E(h) BY <1>103, <1>104
  <1> HIDE DEF E, H, T
  <1>106. f = E(f) BY <1>105, Zenon
  <1> HIDE DEF f
  <1>107. \A i \in 0..n : f[i] = IF i = 0 THEN base ELSE op(f[i - 1], all[i]) BY <1>104, <1>106 DEF E
  <1>108. f[0] = base /\ \A i \in 1..n : i - 1 \in 0..n /\ f[i] = op(f[i - 1], all[i])
    <2>1. 0 \in 0..n /\ \A i \in 1..n : i \in 0..n /\ i # 0 /\ i - 1 \in 0..n BY <1>100
    <2> QED BY <1>107, <2>1
  <1> DEFINE Has(m) == \A x : (\E j \in DOMAIN f[m] : f[m][j] = x)
                                <=> \E j \in 1..m : j \in I /\ s[j] = x
             U == {m \in 0..n : f[m] \in Seq(X) /\ Has(m)}
  <1>4. 0 \in U
    <2>1. 0 \in 0..n /\ \A j : j \notin 1..0 BY <1>100
    <2> QED BY <1>2, <1>108, <2>1
  <1>5. ASSUME NEW m \in 1..n, m - 1 \in U PROVE m \in U
    <2> DEFINE a == f[m - 1]
               b == f[m]
    <2>1. a \in Seq(X) /\ Has(m - 1) BY <1>5
    <2>2. b = op(a, all[m]) BY <1>108
    <2>3. Has(m - 1) <=> \A x : (\E j \in DOMAIN a : a[j] = x)
                                  <=> \E j \in 1..(m - 1) : j \in I /\ s[j] = x
      OBVIOUS
    <2>4. Has(m) <=> \A x : (\E j \in DOMAIN b : b[j] = x)
                              <=> \E j \in 1..m : j \in I /\ s[j] = x
      OBVIOUS
    <2> HIDE DEF a, b, Has
    <2>5. op(a, all[m]) \in Seq(X) BY <1>3, <2>1
    <2>6. \A x : (\E j \in DOMAIN op(a, all[m]) : op(a, all[m])[j] = x)
                      <=> (\E j \in DOMAIN a : a[j] = x) \/ (m \in I /\ s[m] = x)
      BY <1>3, <2>1
    <2>7. /\ b \in Seq(X)
          /\ \A x : (\E j \in DOMAIN b : b[j] = x)
                      <=> (\E j \in DOMAIN a : a[j] = x) \/ (m \in I /\ s[m] = x)
      BY <2>2, <2>5, <2>6, Zenon
    <2>8. m \in 0..n /\ \A j : j \in 1..m <=> j \in 1..(m - 1) \/ j = m BY <1>100
    <2>9. Has(m) BY <2>1, <2>3, <2>4, <2>7, <2>8
    <2> QED BY <2>7, <2>8, <2>9 DEF b
  <1>6. \A m \in 1..n : m - 1 \in U => m \in U BY <1>5
  <1>7. n \in U
    <2> HIDE DEF U
    <2>1. \A m \in 0..n : m \in U BY <1>4, <1>6, <1>100, UpTo
    <2> QED BY <1>100, <2>1
  <1>8. f[n] \in Seq(X) /\ Has(n) BY <1>7
  <1>9. 1..n = 1..Len(s) BY <1>100
  <1> QED BY <1>1, <1>8, <1>9, Zenon

LEMMA InsertAtOf ==
  ASSUME NEW X, NEW t \in Seq(X), NEW x \in X, NEW k \in 1..(Len(t) + 1)
  PROVE  /\ InsertAt(t, k, x) \in Seq(X)
         /\ Len(InsertAt(t, k, x)) = Len(t) + 1
         /\ Range(InsertAt(t, k, x)) = Range(t) \cup {x}
  <1> DEFINE l == SubSeq(t, 1, k - 1)
             r == SubSeq(t, k, Len(t))
             u == l \o <<x>> \o r
             n == Len(t)
  <1>1. u = InsertAt(t, k, x) BY DEF InsertAt
  <1>2. n \in Nat /\ DOMAIN t = 1..n OBVIOUS
  <1>3. l \in Seq(X) /\ Len(l) = k - 1 /\ \A i \in 1..(k - 1) : l[i] = t[i] OBVIOUS
  <1>4. r \in Seq(X) /\ Len(r) = n - k + 1 /\ \A i \in 1..(n - k + 1) : r[i] = t[k + i - 1]
    <2>1. CASE k = n + 1 BY <2>1
    <2>2. CASE k \in 1..n BY <2>2
    <2> QED BY <1>2, <2>1, <2>2
  <1> HIDE DEF l, r
  <1> DEFINE v == l \o <<x>>
  <1>5. /\ v \in Seq(X) /\ Len(v) = k /\ v[k] = x
        /\ \A i \in 1..(k - 1) : v[i] = t[i]
    <2>1. Len(l) \in Nat /\ k \in Nat BY <1>2
    <2> QED BY <1>3, <2>1
  <1>6. u = v \o r BY <1>3, <1>4
  <1> HIDE DEF v, u
  <1>7. u \in Seq(X) /\ Len(u) = n + 1
    <2>1. v \in Seq(X) /\ r \in Seq(X) BY <1>4, <1>5
    <2>2. u \in Seq(X) /\ Len(u) = Len(v) + Len(r) BY <1>6, <2>1
    <2>3. k \in Nat /\ n \in Nat BY <1>2
    <2>4. Len(v) + Len(r) = n + 1 BY <1>4, <1>5, <2>3
    <2> QED BY <2>2, <2>4
  <1>8. /\ \A i \in 1..(k - 1) : u[i] = t[i]
       /\ u[k] = x
       /\ \A i \in (k + 1)..(n + 1) : u[i] = t[i - 1]
    <2>1. k \in Nat /\ n \in Nat /\ k <= n + 1 BY <1>2
    <2>2. \A i \in 1..k : u[i] = v[i] BY <1>4, <1>5, <1>6, <2>1
    <2>3. \A i \in (k + 1)..(n + 1) : i - k \in 1..(n - k + 1) /\ u[i] = r[i - k]
      BY <1>4, <1>5, <1>6, <2>1
    <2>4. \A i \in (k + 1)..(n + 1) : k + (i - k) - 1 = i - 1 BY <2>1
    <2>5. \A i \in (k + 1)..(n + 1) : r[i - k] = t[k + (i - k) - 1] BY <1>4, <2>3
    <2>6. \A i \in (k + 1)..(n + 1) : u[i] = t[i - 1] BY <2>3, <2>4, <2>5, Zenon
    <2>7. k \in 1..k /\ \A i \in 1..(k - 1) : i \in 1..k BY <2>1
    <2>8. u[k] = x BY <1>5, <2>2, <2>7, Zenon
    <2>9. \A i \in 1..(k - 1) : u[i] = t[i] BY <1>5, <2>2, <2>7, Zenon
    <2> QED BY <2>6, <2>8, <2>9, Zenon
  <1> HIDE DEF n
  <1>9. Range(u) \subseteq Range(t) \cup {x}
    <2> SUFFICES ASSUME NEW i \in 1..(n + 1) PROVE u[i] \in Range(t) \cup {x}
      BY <1>2, <1>7 DEF Range
    <2>1. CASE i \in 1..(k - 1)
      <3>1. i \in DOMAIN t BY <1>2, <2>1 DEF n
      <3> QED BY <1>8, <2>1, <3>1 DEF Range
    <2>2. CASE i = k BY <1>8, <2>2
    <2>3. CASE i \in (k + 1)..(n + 1)
      <3>1. i - 1 \in DOMAIN t BY <1>2, <2>3 DEF n
      <3> QED BY <1>8, <2>3, <3>1 DEF Range
    <2> QED BY <1>2, <2>1, <2>2, <2>3
  <1>10. Range(t) \cup {x} \subseteq Range(u)
    <2>1. DOMAIN u = 1..(n + 1) BY <1>2, <1>7
    <2>2. k \in 1..(n + 1) BY DEF n
    <2>3. x \in Range(u) BY <1>8, <2>1, <2>2 DEF Range
    <2>4. ASSUME NEW i \in 1..n PROVE t[i] \in Range(u)
      <3>1. CASE i < k
        <4>1. i \in 1..(k - 1) /\ i \in 1..(n + 1) BY <1>2, <2>2, <3>1
        <4> QED BY <1>8, <2>1, <4>1 DEF Range
      <3>2. CASE i >= k
        <4>1. i + 1 \in (k + 1)..(n + 1) /\ i + 1 \in 1..(n + 1) /\ i + 1 - 1 = i BY <1>2, <2>2, <3>2
        <4>2. u[i + 1] = t[i] BY <1>8, <4>1
        <4> QED BY <2>1, <4>1, <4>2 DEF Range
      <3> QED BY <1>2, <2>2, <3>1, <3>2
    <2> QED BY <1>2, <2>3, <2>4 DEF Range
  <1> QED BY <1>1, <1>7, <1>9, <1>10 DEF n

\* The elements of a finite set, each once, whatever the order.
LEMMA SortedByOf ==
  ASSUME NEW S, IsFiniteSet(S), NEW R
  PROVE  /\ SortedBy(S, R) \in Seq(S)
         /\ Len(SortedBy(S, R)) = Cardinality(S)
         /\ Cardinality(S) \in Nat
         /\ Range(SortedBy(S, R)) = S
  <1> DEFINE s == SetToSeq(S)
             n == Len(s)
             base == <<>>
             op(t, x) == InsertAt(t, 1 + Cardinality({j \in DOMAIN t : <<t[j], x>> \in R}), x)
             E(g) == [i \in 0..n |->
                        IF i = 0 THEN base ELSE At(g[i - 1], LAMBDA a : op(a, s[i]))]
             f == CHOOSE g : g = E(g)
  <1>1. /\ s \in [1..Cardinality(S) -> S]
        /\ Cardinality(S) \in Nat
        /\ \A x \in S : \E i \in 1..Cardinality(S) : s[i] = x
    BY SetToSeqIs
  <1>2. SortedBy(S, R) = f[n] BY DEF SortedBy, Fold
  <1> HIDE DEF s
  <1>100. n \in Nat /\ n = Cardinality(S) BY <1>1
  <1>3. base \in Seq(S) /\ Len(base) = 0 /\ Range(base) = {} BY DEF Range
  <1>4. ASSUME NEW x \in S, NEW t \in Seq(S)
        PROVE  /\ op(t, x) \in Seq(S)
               /\ Len(op(t, x)) = Len(t) + 1
               /\ Range(op(t, x)) = Range(t) \cup {x}
    <2> DEFINE T == {j \in DOMAIN t : <<t[j], x>> \in R}
    <2>1. Len(t) \in Nat /\ DOMAIN t = 1..Len(t) OBVIOUS
    <2>2. IsFiniteSet(1..Len(t)) /\ Cardinality(1..Len(t)) = Len(t)
      <3>1. 1 \in Int /\ Len(t) \in Int BY <2>1
      <3>2. IsFiniteSet(1..Len(t)) /\ Cardinality(1..Len(t)) = IF 1 > Len(t) THEN 0 ELSE Len(t) - 1 + 1
        BY <3>1, FS_Interval
      <3> QED BY <2>1, <3>2
    <2>3. T \in SUBSET (1..Len(t)) BY <2>1
    <2> HIDE DEF T
    <2>4. IsFiniteSet(T) /\ Cardinality(T) <= Len(t) BY <2>2, <2>3, FS_Subset
    <2>5. Cardinality(T) \in Nat BY <2>4, FS_CardinalityType
    <2>6. 1 + Cardinality(T) \in 1..(Len(t) + 1) BY <2>1, <2>4, <2>5
    <2>7. op(t, x) = InsertAt(t, 1 + Cardinality(T), x) BY DEF T
    <2> HIDE DEF op
    <2> QED BY <2>6, <2>7, InsertAtOf
  <1> HIDE DEF op, base, n
  <1> DEFINE H(m, h) == h = [i \in 0..m |-> IF i = 0 THEN base ELSE op(h[i - 1], s[i])]
             T == {m \in 0..n : \E h : H(m, h)}
  <1>101. 0 \in T
    <2>1. H(0, [i \in 0..0 |-> base]) OBVIOUS
    <2> HIDE DEF H
    <2> QED BY <1>100, <2>1
  <1>102. ASSUME NEW m \in 1..n, m - 1 \in T PROVE m \in T
    <2>1. m \in 0..n BY <1>100
    <2>2. PICK h : H(m - 1, h) BY <1>102
    <2> DEFINE g == [i \in 0..m |-> IF i = m THEN op(h[m - 1], s[m]) ELSE h[i]]
    <2>3. ASSUME NEW i \in 0..m PROVE g[i] = IF i = 0 THEN base ELSE op(g[i - 1], s[i])
      <3>1. CASE i = m
        <4>1. m - 1 \in 0..m /\ m # 0 /\ m - 1 # m BY <1>100
        <4> QED BY <3>1, <4>1
      <3>2. CASE i # m
        <4>1. i \in 0..(m - 1) BY <1>100, <3>2
        <4>2. i # 0 => i - 1 \in 0..m /\ i - 1 # m BY <1>100, <3>2
        <4>3. g[i] = h[i] /\ (i # 0 => g[i - 1] = h[i - 1]) BY <3>2, <4>2
        <4>4. h[i] = IF i = 0 THEN base ELSE op(h[i - 1], s[i]) BY <2>2, <4>1
        <4> QED BY <4>3, <4>4
      <3> QED BY <3>1, <3>2
    <2>4. H(m, g) BY <2>3
    <2> HIDE DEF g, H
    <2> QED BY <2>1, <2>4
  <1>103. PICK h : H(n, h)
    <2> HIDE DEF T
    <2>1. \A m \in 1..n : m - 1 \in T => m \in T BY <1>102
    <2>2. \A m \in 0..n : m \in T BY <1>100, <1>101, <2>1, UpTo
    <2>3. n \in T BY <1>100, <2>2
    <2> QED BY <2>3 DEF T
  <1>104. \A g, i : At(g[i - 1], LAMBDA a : op(a, s[i])) = op(g[i - 1], s[i])
    BY Zenon DEF At
  <1>105. h = E(h) BY <1>103, <1>104
  <1> HIDE DEF E, H, T
  <1>106. f = E(f) BY <1>105, Zenon
  <1> HIDE DEF f
  <1>107. \A i \in 0..n : f[i] = IF i = 0 THEN base ELSE op(f[i - 1], s[i]) BY <1>104, <1>106 DEF E
  <1>108. f[0] = base /\ \A i \in 1..n : i - 1 \in 0..n /\ f[i] = op(f[i - 1], s[i])
    <2>1. 0 \in 0..n /\ \A i \in 1..n : i \in 0..n /\ i # 0 /\ i - 1 \in 0..n BY <1>100
    <2> QED BY <1>107, <2>1
  <1> DEFINE U == {m \in 0..n : /\ f[m] \in Seq(S) /\ Len(f[m]) = m
                                /\ Range(f[m]) = {s[j] : j \in 1..m}}
  <1>5. 0 \in U
    <2>1. 0 \in 0..n /\ {s[j] : j \in 1..0} = {} BY <1>100
    <2> QED BY <1>3, <1>108, <2>1
  <1>6. ASSUME NEW m \in 1..n, m - 1 \in U PROVE m \in U
    <2> DEFINE a == f[m - 1]
    <2>1. /\ a \in Seq(S) /\ Len(a) = m - 1 /\ Range(a) = {s[j] : j \in 1..(m - 1)} BY <1>6
    <2>2. f[m] = op(a, s[m]) BY <1>108
    <2>3. s[m] \in S BY <1>1, <1>100
    <2> HIDE DEF a
    <2>4. f[m] \in Seq(S) /\ Len(f[m]) = Len(a) + 1 /\ Range(f[m]) = Range(a) \cup {s[m]}
      BY <1>4, <2>1, <2>2, <2>3
    <2>5. m \in 0..n /\ m - 1 + 1 = m /\ \A j : j \in 1..m <=> j \in 1..(m - 1) \/ j = m BY <1>100
    <2>6. {s[j] : j \in 1..m} = {s[j] : j \in 1..(m - 1)} \cup {s[m]} BY <2>5
    <2> QED BY <2>1, <2>4, <2>5, <2>6
  <1>7. \A m \in 1..n : m - 1 \in U => m \in U BY <1>6
  <1>8. n \in U
    <2> HIDE DEF U
    <2>1. \A m \in 0..n : m \in U BY <1>5, <1>7, <1>100, UpTo
    <2> QED BY <1>100, <2>1
  <1>9. f[n] \in Seq(S) /\ Len(f[n]) = n /\ Range(f[n]) = {s[j] : j \in 1..n} BY <1>8
  <1>10. {s[j] : j \in 1..n} = S BY <1>1, <1>100
  <1> QED BY <1>1, <1>2, <1>9, <1>10, <1>100

LEMMA SeqOfItsOwn ==
  ASSUME NEW S, NEW s \in Seq(S)
  PROVE  s \in Seq(Range(s)) /\ Range(s) \subseteq S
  <1>1. Len(s) \in Nat /\ DOMAIN s = 1..Len(s) /\ s = [i \in 1..Len(s) |-> s[i]]
        /\ \A i \in 1..Len(s) : s[i] \in S
    OBVIOUS
  <1>2. Range(s) = {s[i] : i \in 1..Len(s)} BY <1>1, Zenon DEF Range
  <1>3. \A i \in 1..Len(s) : s[i] \in Range(s) BY <1>2
  <1>4. s \in [1..Len(s) -> Range(s)] BY <1>1, <1>3, Zenon
  <1>5. s \in Seq(Range(s)) BY <1>1, <1>4
  <1> QED BY <1>1, <1>2, <1>5

\* Sequences laid end to end.
LEMMA JoinedSteps ==
  ASSUME NEW texts, Len(texts) \in Nat
  PROVE  \E f : /\ f[0] = <<>>
                /\ \A i \in 1..Len(texts) : /\ i - 1 \in 0..Len(texts)
                                             /\ f[i] = f[i - 1] \o texts[i]
                /\ Joined(texts) = f[Len(texts)]
  <1> DEFINE n == Len(texts)
             base == <<>>
             op(a, t) == a \o t
             E(g) == [i \in 0..n |->
                        IF i = 0 THEN base ELSE At(g[i - 1], LAMBDA a : op(a, texts[i]))]
             f == CHOOSE g : g = E(g)
  <1>100. n \in Nat OBVIOUS
  <1>1. Joined(texts) = f[n] BY DEF Joined, Fold
  <1> HIDE DEF op, base, n
  <1> DEFINE H(m, h) == h = [i \in 0..m |-> IF i = 0 THEN base ELSE op(h[i - 1], texts[i])]
             T == {m \in 0..n : \E h : H(m, h)}
  <1>101. 0 \in T
    <2>1. H(0, [i \in 0..0 |-> base]) OBVIOUS
    <2> HIDE DEF H
    <2> QED BY <1>100, <2>1
  <1>102. ASSUME NEW m \in 1..n, m - 1 \in T PROVE m \in T
    <2>1. m \in 0..n BY <1>100
    <2>2. PICK h : H(m - 1, h) BY <1>102
    <2> DEFINE g == [i \in 0..m |-> IF i = m THEN op(h[m - 1], texts[m]) ELSE h[i]]
    <2>3. ASSUME NEW i \in 0..m PROVE g[i] = IF i = 0 THEN base ELSE op(g[i - 1], texts[i])
      <3>1. CASE i = m
        <4>1. m - 1 \in 0..m /\ m # 0 /\ m - 1 # m BY <1>100
        <4> QED BY <3>1, <4>1
      <3>2. CASE i # m
        <4>1. i \in 0..(m - 1) BY <1>100, <3>2
        <4>2. i # 0 => i - 1 \in 0..m /\ i - 1 # m BY <1>100, <3>2
        <4>3. g[i] = h[i] /\ (i # 0 => g[i - 1] = h[i - 1]) BY <3>2, <4>2
        <4>4. h[i] = IF i = 0 THEN base ELSE op(h[i - 1], texts[i]) BY <2>2, <4>1
        <4> QED BY <4>3, <4>4
      <3> QED BY <3>1, <3>2
    <2>4. H(m, g) BY <2>3
    <2> HIDE DEF g, H
    <2> QED BY <2>1, <2>4
  <1>103. PICK h : H(n, h)
    <2> HIDE DEF T
    <2>1. \A m \in 1..n : m - 1 \in T => m \in T BY <1>102
    <2>2. \A m \in 0..n : m \in T BY <1>100, <1>101, <2>1, UpTo
    <2>3. n \in T BY <1>100, <2>2
    <2> QED BY <2>3 DEF T
  <1>104. \A g, i : At(g[i - 1], LAMBDA a : op(a, texts[i])) = op(g[i - 1], texts[i])
    BY Zenon DEF At
  <1>105. h = E(h) BY <1>103, <1>104
  <1> HIDE DEF E, H, T
  <1>106. f = E(f) BY <1>105, Zenon
  <1> HIDE DEF f
  <1>107. \A i \in 0..n : f[i] = IF i = 0 THEN base ELSE op(f[i - 1], texts[i]) BY <1>104, <1>106 DEF E
  <1>108. f[0] = base /\ \A i \in 1..n : i - 1 \in 0..n /\ f[i] = op(f[i - 1], texts[i])
    <2>1. 0 \in 0..n /\ \A i \in 1..n : i \in 0..n /\ i # 0 /\ i - 1 \in 0..n BY <1>100
    <2> QED BY <1>107, <2>1
  <1> HIDE DEF E, f
  <1>2. \A i \in 1..n : f[i] = op(f[i - 1], texts[i]) BY <1>108
  <1> QED BY <1>1, <1>2, <1>108 DEF op, base, n

\* They are made of the same elements.
LEMMA JoinedOf ==
  ASSUME NEW X, NEW texts \in Seq(Seq(X))
  PROVE  Joined(texts) \in Seq(X)
  <1> DEFINE n == Len(texts)
  <1>1. n \in Nat /\ \A i \in 1..n : texts[i] \in Seq(X) OBVIOUS
  <1>2. PICK f : /\ f[0] = <<>> /\ \A i \in 1..n : i - 1 \in 0..n /\ f[i] = f[i - 1] \o texts[i]
                 /\ Joined(texts) = f[n]
    BY <1>1, JoinedSteps
  <1> HIDE DEF n
  <1> DEFINE T == {i \in 0..n : f[i] \in Seq(X)}
  <1>3. 0 \in T
    <2>1. 0 \in 0..n BY <1>1
    <2>2. <<>> \in Seq(X) OBVIOUS
    <2> QED BY <1>2, <2>1, <2>2
  <1>4. ASSUME NEW i \in 1..n, i - 1 \in T PROVE i \in T
    <2>1. i \in 0..n BY <1>1
    <2>2. f[i - 1] \in Seq(X) /\ texts[i] \in Seq(X) BY <1>1, <1>4
    <2>3. f[i - 1] \o texts[i] \in Seq(X) BY <2>2
    <2> QED BY <1>2, <2>1, <2>3
  <1> HIDE DEF T
  <1>5. \A i \in 0..n : i \in T BY <1>1, <1>3, <1>4, UpTo
  <1>6. n \in T BY <1>1, <1>5
  <1> QED BY <1>2, <1>6 DEF T

-----------------------------------------------------------------------------
(* Results: which pages a sequence of them names.                          *)

IsResult(r, P) ==
    /\ r = [page |-> r.page, score |-> r.score, len |-> r.len, excerpt |-> r.excerpt]
    /\ r.page \in P /\ r.len \in Nat
ResultsIn(rs, P) == rs \in Seq(Range(rs)) /\ \A r \in Range(rs) : IsResult(r, P)

LEMMA ResultsAre ==
  ASSUME NEW rs, NEW P, ResultsIn(rs, P)
  PROVE  /\ Len(rs) \in Nat /\ DOMAIN rs = 1..Len(rs) /\ rs = [i \in 1..Len(rs) |-> rs[i]]
         /\ \A i \in 1..Len(rs) : IsResult(rs[i], P) /\ rs[i].page \in Found(rs)
         /\ Found(rs) = {rs[i].page : i \in 1..Len(rs)}
         /\ Found(rs) \subseteq P
         /\ ResultsIn(rs, Found(rs))
  <1> DEFINE n == Len(rs)
  <1>1. n \in Nat /\ DOMAIN rs = 1..n /\ rs = [i \in 1..n |-> rs[i]] BY DEF ResultsIn
  <1> HIDE DEF n
  <1>2. Range(rs) = {rs[i] : i \in 1..n} BY <1>1, Zenon DEF Range
  <1>3. \A i \in 1..n : IsResult(rs[i], P) BY <1>2 DEF ResultsIn
  <1>4. Found(rs) = {rs[i].page : i \in 1..n} BY <1>1 DEF Found
  <1>5. Found(rs) \subseteq P BY <1>3, <1>4 DEF IsResult
  <1>6. \A i \in 1..n : rs[i].page \in Found(rs) BY <1>4
  <1>7. \A i \in 1..n : IsResult(rs[i], Found(rs)) BY <1>3, <1>6 DEF IsResult
  <1>8. ResultsIn(rs, Found(rs)) BY <1>2, <1>7 DEF ResultsIn
  <1> QED BY <1>1, <1>3, <1>4, <1>5, <1>6, <1>8 DEF n

LEMMA ResultsFrom ==
  ASSUME NEW n \in Nat, NEW rs, NEW P, rs = [i \in 1..n |-> rs[i]],
         \A i \in 1..n : IsResult(rs[i], P)
  PROVE  ResultsIn(rs, P) /\ Len(rs) = n
  <1>1. DOMAIN rs = 1..n OBVIOUS
  <1>2. Range(rs) = {rs[i] : i \in 1..n} BY <1>1, Zenon DEF Range
  <1>3. rs \in [1..n -> Range(rs)] BY <1>2
  <1>4. rs \in Seq(Range(rs)) BY <1>3
  <1>5. Len(rs) = n BY <1>1
  <1> QED BY <1>2, <1>4, <1>5 DEF ResultsIn

LEMMA ResultsMore ==
  ASSUME NEW rs, NEW P, NEW Q, ResultsIn(rs, P), Found(rs) \subseteq Q
  PROVE  ResultsIn(rs, Q)
  <1>1. ResultsIn(rs, Found(rs)) BY ResultsAre
  <1> QED BY <1>1 DEF ResultsIn, IsResult

LEMMA NoResults ==
  ASSUME NEW P
  PROVE  ResultsIn(<<>>, P) /\ Found(<<>>) = {}
  BY DEF ResultsIn, Range, Found

\* Taking some of them.
LEMMA KeptResults ==
  ASSUME NEW rs, NEW P, ResultsIn(rs, P), NEW I
  PROVE  /\ ResultsIn(Keep(rs, I), P)
         /\ Found(Keep(rs, I)) = {rs[i].page : i \in {j \in 1..Len(rs) : j \in I}}
  <1> DEFINE k == Keep(rs, I)
  <1>1. /\ k \in Seq(Range(rs))
        /\ \A x : (\E i \in DOMAIN k : k[i] = x) <=> \E i \in 1..Len(rs) : i \in I /\ rs[i] = x
    <2> DEFINE X == Range(rs)
    <2>1. rs \in Seq(X) BY DEF ResultsIn
    <2> HIDE DEF X
    <2>2. /\ k \in Seq(X)
          /\ \A x : (\E i \in DOMAIN k : k[i] = x) <=> \E i \in 1..Len(rs) : i \in I /\ rs[i] = x
      BY <2>1, KeepOf
    <2> QED BY <2>2 DEF X
  <1> HIDE DEF k
  <1>2. k \in Seq(Range(k)) /\ Range(k) \subseteq Range(rs) BY <1>1, SeqOfItsOwn
  <1>3. ResultsIn(k, P) BY <1>2 DEF ResultsIn
  <1>4. Found(k) \subseteq {rs[i].page : i \in {j \in 1..Len(rs) : j \in I}}
    <2> SUFFICES ASSUME NEW i \in DOMAIN k
                 PROVE  \E j \in 1..Len(rs) : j \in I /\ k[i].page = rs[j].page
      BY DEF Found
    <2>1. \E j \in 1..Len(rs) : j \in I /\ rs[j] = k[i] BY <1>1
    <2> QED BY <2>1
  <1>5. {rs[i].page : i \in {j \in 1..Len(rs) : j \in I}} \subseteq Found(k)
    <2> SUFFICES ASSUME NEW j \in 1..Len(rs), j \in I
                 PROVE  \E i \in DOMAIN k : k[i].page = rs[j].page
      BY DEF Found
    <2>1. \E i \in DOMAIN k : k[i] = rs[j] BY <1>1
    <2> QED BY <2>1
  <1> QED BY <1>3, <1>4, <1>5 DEF k

LEMMA FewerResults ==
  ASSUME NEW rs, NEW P, ResultsIn(rs, P), NEW I
  PROVE  ResultsIn(Keep(rs, I), P) /\ Found(Keep(rs, I)) \subseteq Found(rs)
  <1>1. Found(rs) = {rs[i].page : i \in 1..Len(rs)} BY ResultsAre
  <1> QED BY <1>1, KeptResults

LEMMA UptoAll ==
  ASSUME NEW rs, NEW P, ResultsIn(rs, P), NEW n \in Int, Len(rs) <= n
  PROVE  ResultsIn(Upto(rs, n), P) /\ Found(Upto(rs, n)) = Found(rs)
  <1>1. Len(rs) \in Nat /\ Found(rs) = {rs[i].page : i \in 1..Len(rs)} BY ResultsAre
  <1>2. {j \in 1..Len(rs) : j \in 1..n} = 1..Len(rs) BY <1>1
  <1> QED BY <1>1, <1>2, KeptResults DEF Upto

LEMMA MoreResults ==
  ASSUME NEW a, NEW b, NEW P, ResultsIn(a, P), ResultsIn(b, P)
  PROVE  ResultsIn(a \o b, P) /\ Found(a \o b) = Found(a) \cup Found(b)
  <1> DEFINE c == a \o b
             m == Len(a)
             n == Len(b)
  <1>1. m \in Nat /\ n \in Nat BY ResultsAre
  <1> DEFINE X == Range(a) \cup Range(b)
  <1>2. a \in Seq(X) /\ b \in Seq(X)
    <2>1. a \in Seq(Range(a)) /\ b \in Seq(Range(b)) BY DEF ResultsIn
    <2> QED BY <2>1
  <1> HIDE DEF X
  <1>3. /\ Len(c) = m + n /\ DOMAIN c = 1..(m + n) /\ c = [i \in 1..(m + n) |-> c[i]]
        /\ \A i \in 1..m : c[i] = a[i]
        /\ \A i \in 1..n : c[m + i] = b[i]
    <2>1. c \in Seq(X) /\ Len(c) = m + n BY <1>2
    <2>2. \A i \in 1..m : c[i] = a[i] BY <1>1, <1>2
    <2>3. \A i \in 1..n : m + i > m /\ m + i \in 1..(m + n) /\ (m + i) - m = i BY <1>1
    <2>4. \A i \in 1..n : c[m + i] = b[i] BY <1>1, <1>2, <2>3
    <2> HIDE DEF c, m, n
    <2>5. DOMAIN c = 1..(m + n) /\ c = [i \in 1..(m + n) |-> c[i]] BY <2>1
    <2> QED BY <2>1, <2>2, <2>4, <2>5
  <1> HIDE DEF c
  <1>4. \A i \in 1..(m + n) : i \in 1..m \/ (i - m \in 1..n /\ m + (i - m) = i) BY <1>1
  <1>5. \A i \in 1..(m + n) : (i \in 1..m /\ c[i] = a[i]) \/ (i - m \in 1..n /\ c[i] = b[i - m])
    BY <1>3, <1>4
  <1>6. \A i \in 1..m : IsResult(a[i], P) BY ResultsAre
  <1>7. \A i \in 1..n : IsResult(b[i], P) BY ResultsAre
  <1>8. m + n \in Nat /\ \A i \in 1..(m + n) : IsResult(c[i], P) BY <1>1, <1>5, <1>6, <1>7
  <1>9. ResultsIn(c, P) BY <1>3, <1>8, ResultsFrom
  <1>10. Found(a) = {a[i].page : i \in 1..m} BY ResultsAre
  <1>11. Found(b) = {b[i].page : i \in 1..n} BY ResultsAre
  <1>12. Found(c) = {c[i].page : i \in 1..(m + n)} BY <1>3 DEF Found
  <1> HIDE DEF m, n
  <1>13. Found(c) \subseteq Found(a) \cup Found(b) BY <1>5, <1>10, <1>11, <1>12
  <1>14. \A i \in 1..m : i \in 1..(m + n) BY <1>1
  <1>15. \A i \in 1..n : m + i \in 1..(m + n) BY <1>1
  <1>16. Found(a) \subseteq Found(c) BY <1>3, <1>10, <1>12, <1>14
  <1>17. Found(b) \subseteq Found(c) BY <1>3, <1>11, <1>12, <1>15
  <1> QED BY <1>9, <1>13, <1>16, <1>17 DEF c

\* However results are ordered, the pages stay the same.
LEMMA RankedResults ==
  ASSUME NEW rs, NEW P, ResultsIn(rs, P)
  PROVE  ResultsIn(Ranked(rs), P) /\ Found(Ranked(rs)) = Found(rs) /\ Len(Ranked(rs)) = Len(rs)
  <1> DEFINE n == Len(rs)
             S == DOMAIN rs
             before(i, j) == \/ rs[i].score > rs[j].score
                             \/ rs[i].score = rs[j].score /\ i < j
             R == {r \in S \X S : before(r[1], r[2])}
             order == SortedBy(S, R)
             k == [i \in S |-> rs[order[i]]]
  <1>1. n \in Nat /\ S = 1..n /\ \A i \in 1..n : IsResult(rs[i], P) BY ResultsAre
  <1>2. Found(rs) = {rs[i].page : i \in 1..n} BY ResultsAre
  <1>3. Ranked(rs) = k BY DEF Ranked, Sorted
  <1>4. IsFiniteSet(1..n) /\ Cardinality(1..n) = n
    <2>1. 1 \in Int /\ n \in Int BY <1>1
    <2>2. IsFiniteSet(1..n) /\ Cardinality(1..n) = IF 1 > n THEN 0 ELSE n - 1 + 1
      BY <2>1, FS_Interval
    <2> QED BY <1>1, <2>2
  <1> HIDE DEF R, S, n
  <1>5. order \in Seq(S) /\ Len(order) = n /\ Range(order) = S BY <1>1, <1>4, SortedByOf
  <1> HIDE DEF order
  <1>6. DOMAIN order = 1..n BY <1>1, <1>5
  <1>7. \A i \in 1..n : order[i] \in 1..n BY <1>1, <1>5, <1>6
  <1>8. \A j \in 1..n : \E i \in 1..n : order[i] = j BY <1>1, <1>5, <1>6 DEF Range
  <1>9. k = [i \in 1..n |-> rs[order[i]]] BY <1>1
  <1> HIDE DEF k
  <1>10. k = [i \in 1..n |-> k[i]] /\ \A i \in 1..n : k[i] = rs[order[i]] BY <1>9
  <1>11. \A i \in 1..n : IsResult(k[i], P) BY <1>1, <1>7, <1>10
  <1>12. ResultsIn(k, P) /\ Len(k) = n BY <1>1, <1>10, <1>11, ResultsFrom
  <1>13. Found(k) = {k[i].page : i \in 1..n} BY <1>10 DEF Found
  <1>14. Found(k) = Found(rs)
    <2>1. \A i \in 1..n : k[i].page \in Found(rs) BY <1>2, <1>7, <1>10
    <2>2. \A j \in 1..n : rs[j].page \in Found(k)
      <3> TAKE j \in 1..n
      <3>1. PICK i \in 1..n : order[i] = j BY <1>8
      <3>2. k[i].page = rs[j].page BY <1>10, <3>1
      <3> QED BY <1>13, <3>2
    <2> QED BY <1>2, <1>13, <2>1, <2>2
  <1> QED BY <1>3, <1>12, <1>14 DEF n

\* Other scores and lengths for the same pages.
LEMMA SamePages ==
  ASSUME NEW rs, NEW P, ResultsIn(rs, P), NEW k, k = [i \in DOMAIN rs |-> k[i]],
         \A i \in DOMAIN rs : IsResult(k[i], {rs[i].page})
  PROVE  ResultsIn(k, P) /\ Found(k) = Found(rs)
  <1> DEFINE n == Len(rs)
  <1>1. /\ n \in Nat /\ DOMAIN rs = 1..n /\ Found(rs) = {rs[i].page : i \in 1..n}
        /\ \A i \in 1..n : IsResult(rs[i], P)
    BY ResultsAre
  <1> HIDE DEF n
  <1>2. \A i \in 1..n : k[i].page = rs[i].page BY <1>1 DEF IsResult
  <1>3. \A i \in 1..n : IsResult(k[i], P) BY <1>1, <1>2 DEF IsResult
  <1>4. k = [i \in 1..n |-> k[i]] BY <1>1
  <1>5. ResultsIn(k, P) BY <1>1, <1>3, <1>4, ResultsFrom
  <1>6. Found(k) = {k[i].page : i \in 1..n} BY <1>1, <1>4 DEF Found
  <1> QED BY <1>1, <1>2, <1>5, <1>6

LEMMA BoostedResults ==
  ASSUME NEW rs, NEW P, ResultsIn(rs, P), NEW by
  PROVE  ResultsIn(Boosted(rs, by), P) /\ Found(Boosted(rs, by)) = Found(rs)
  <1> DEFINE k == Boosted(rs, by)
  <1>1. k = [i \in DOMAIN rs |-> k[i]] BY DEF Boosted
  <1>2. \A i \in DOMAIN rs : IsResult(rs[i], P) BY ResultsAre
  <1>3. \A i \in DOMAIN rs : IsResult(k[i], {rs[i].page}) BY <1>2 DEF Boosted, IsResult
  <1> HIDE DEF k
  <1>4. ResultsIn(k, P) /\ Found(k) = Found(rs) BY <1>1, <1>3, SamePages
  <1> QED BY <1>4 DEF k

\* Adding results, and how many of them.
LEMMA AddedResults ==
  ASSUME NEW rs, NEW P, ResultsIn(rs, P), NEW found, IsFiniteSet(DOMAIN found),
         DOMAIN found \subseteq P, \A p \in DOMAIN found : IsResult(found[p], {p})
  PROVE  /\ \A max : /\ ResultsIn(Adding(rs, found, max), P)
                     /\ Found(rs) \subseteq Found(Adding(rs, found, max))
         /\ ResultsIn(AddingAll(rs, found), P)
         /\ Found(AddingAll(rs, found)) = Found(rs) \cup DOMAIN found
  <1> DEFINE S == DOMAIN found \ Found(rs)
             R == {r \in S \X S : Before(r[1], r[2])}
             new == SortedBy(S, R)
             n == Len(new)
             k == [i \in DOMAIN new |-> found[new[i]]]
  <1>1. IsFiniteSet(S) /\ Cardinality(S) <= Cardinality(DOMAIN found)
    <2>1. S \in SUBSET DOMAIN found OBVIOUS
    <2> HIDE DEF S
    <2> QED BY <2>1, FS_Subset
  <1>2. new = InOrder(S) BY DEF InOrder, Sorted
  <1> HIDE DEF R
  <1>3. new \in Seq(S) /\ n = Cardinality(S) /\ n \in Nat /\ Range(new) = S
    <2> HIDE DEF S
    <2> QED BY <1>1, SortedByOf
  <1> HIDE DEF new
  <1>4. DOMAIN new = 1..n /\ \A i \in 1..n : new[i] \in S BY <1>3
  <1>5. \A p \in S : \E i \in 1..n : new[i] = p BY <1>3, <1>4 DEF Range
  <1> HIDE DEF n
  <1>6. k = [i \in 1..n |-> k[i]] /\ \A i \in 1..n : k[i] = found[new[i]] BY <1>4
  <1>7. \A i \in 1..n : k[i].page = new[i] /\ IsResult(k[i], P) BY <1>4, <1>6 DEF IsResult
  <1> HIDE DEF k
  <1>8. ResultsIn(k, P) /\ Len(k) = n BY <1>3, <1>6, <1>7, ResultsFrom
  <1>9. Found(k) = S
    <2>1. Found(k) = {k[i].page : i \in 1..n} BY <1>6 DEF Found
    <2> QED BY <1>4, <1>5, <1>7, <2>1
  <1>10. \A max : Adding(rs, found, max) = rs \o Upto(k, max - Len(rs))
    BY <1>2 DEF Adding, k
  <1>11. ASSUME NEW max
         PROVE  /\ ResultsIn(Adding(rs, found, max), P)
                /\ Found(Adding(rs, found, max)) = Found(rs) \cup Found(Upto(k, max - Len(rs)))
    <2> DEFINE u == Upto(k, max - Len(rs))
    <2>1. ResultsIn(u, P) BY <1>8, FewerResults DEF Upto
    <2>2. Adding(rs, found, max) = rs \o u BY <1>10
    <2> HIDE DEF u
    <2>3. ResultsIn(rs \o u, P) /\ Found(rs \o u) = Found(rs) \cup Found(u) BY <2>1, MoreResults
    <2> QED BY <2>2, <2>3 DEF u
  <1>12. /\ ResultsIn(AddingAll(rs, found), P)
         /\ Found(AddingAll(rs, found)) = Found(rs) \cup S
    <2> DEFINE max == Len(rs) + Cardinality(DOMAIN found)
    <2>1. Len(rs) \in Nat BY ResultsAre
    <2>2. Cardinality(DOMAIN found) \in Nat BY FS_CardinalityType
    <2>3. max - Len(rs) \in Int /\ Len(k) <= max - Len(rs) BY <1>1, <1>3, <1>8, <2>1, <2>2
    <2>4. AddingAll(rs, found) = Adding(rs, found, max) BY DEF AddingAll
    <2> HIDE DEF max
    <2>5. Found(Upto(k, max - Len(rs))) = Found(k) BY <1>8, <2>3, UptoAll
    <2> QED BY <1>9, <1>11, <2>4, <2>5
  <1> QED BY <1>11, <1>12

-----------------------------------------------------------------------------
(* The pages of the tenant, and those of some documents.                   *)

AllPages == UNION {{<<d, n>> : n \in 1..PageCount[d]} : d \in Docs}
OwnPages(ds) == {p \in AllPages : p[1] \in ds}

LEMMA FiniteUnion ==
  ASSUME NEW S, IsFiniteSet(S), NEW f, \A x \in S : IsFiniteSet(f[x])
  PROVE  IsFiniteSet(UNION {f[x] : x \in S})
  <1> DEFINE g == [x \in S |-> f[x]]
             T == {f[x] : x \in S}
  <1>1. g \in Surjection(S, T) BY DEF Surjection
  <1>2. \A t \in T : IsFiniteSet(t) OBVIOUS
  <1> HIDE DEF g, T
  <1>3. IsFiniteSet(T) BY <1>1, FS_Surjection
  <1>4. IsFiniteSet(UNION T) BY <1>2, <1>3, FS_UNION
  <1> QED BY <1>4 DEF T

LEMMA PagesOfOne ==
  ASSUME NEW s, NEW d \in Docs
  PROVE  /\ IsFiniteSet(PagesOf(s, d)) /\ PagesOf(s, d) \subseteq AllPages
         /\ \A p \in PagesOf(s, d) : p[1] = d
  <1> DEFINE n == PageCount[d]
             T == {<<d, m>> : m \in 1..n}
             g == [m \in 1..n |-> <<d, m>>]
  <1>1. n \in Nat BY StepAssumption
  <1>2. g \in Surjection(1..n, T) BY DEF Surjection
  <1>3. IsFiniteSet(1..n)
    <2>1. 1 \in Int /\ n \in Int BY <1>1
    <2> QED BY <2>1, FS_Interval
  <1>4. IsFiniteSet(T)
    <2> HIDE DEF g, T
    <2> QED BY <1>2, <1>3, FS_Surjection
  <1>5. T \subseteq AllPages /\ \A p \in T : p[1] = d BY DEF AllPages
  <1>6. PagesOf(s, d) = T \/ PagesOf(s, d) = {} BY DEF PagesOf
  <1> HIDE DEF T
  <1> QED BY <1>4, <1>5, <1>6, FS_EmptySet

LEMMA PagesOfAll ==
  ASSUME NEW s
  PROVE  /\ IsFiniteSet(Everywhere(s)) /\ Everywhere(s) \subseteq AllPages
         /\ \A p \in Everywhere(s) : p[1] \in Docs
         /\ \A d \in Docs : PagesOf(s, d) \subseteq Everywhere(s)
  <1> DEFINE f == [d \in Docs |-> PagesOf(s, d)]
  <1>1. \A d \in Docs : f[d] = PagesOf(s, d) /\ IsFiniteSet(f[d]) BY PagesOfOne
  <1>2. Everywhere(s) = UNION {f[d] : d \in Docs} BY <1>1 DEF Everywhere
  <1>3. IsFiniteSet(Docs) BY StepAssumption
  <1> HIDE DEF f
  <1>4. IsFiniteSet(UNION {f[d] : d \in Docs}) BY <1>1, <1>3, FiniteUnion
  <1>5. \A d \in Docs : \A p \in PagesOf(s, d) : p \in AllPages /\ p[1] = d BY PagesOfOne
  <1>6. IsFiniteSet(Everywhere(s)) BY <1>2, <1>4
  <1>7. \A p \in Everywhere(s) : \E d \in Docs : p \in PagesOf(s, d) BY DEF Everywhere
  <1>8. \A d \in Docs : PagesOf(s, d) \subseteq Everywhere(s) BY DEF Everywhere
  <1>9. Everywhere(s) \subseteq AllPages /\ \A p \in Everywhere(s) : p[1] \in Docs BY <1>5, <1>7
  <1> QED BY <1>6, <1>8, <1>9

LEMMA PagesWithin ==
  ASSUME NEW s, NEW filter \in SUBSET Docs
  PROVE  /\ IsFiniteSet(Within(s, filter)) /\ Within(s, filter) \subseteq Everywhere(s)
         /\ Within(s, filter) \subseteq AllPages
         /\ filter # {} => Within(s, filter) \subseteq OwnPages(filter)
         /\ \A d \in filter : PagesOf(s, d) \subseteq Within(s, filter)
         /\ \A T \in SUBSET Within(s, filter) : IsFiniteSet(T)
  <1>1. Within(s, filter) \in SUBSET Everywhere(s) BY DEF Within
  <1>2. IsFiniteSet(Everywhere(s)) /\ Everywhere(s) \subseteq AllPages BY PagesOfAll
  <1>3. IsFiniteSet(Within(s, filter)) BY <1>1, <1>2, FS_Subset
  <1>4. \A T \in SUBSET Within(s, filter) : IsFiniteSet(T)
    <2> DEFINE W == Within(s, filter)
    <2>1. IsFiniteSet(W) BY <1>3
    <2> HIDE DEF W
    <2>2. \A T \in SUBSET W : IsFiniteSet(T) BY <2>1, FS_Subset
    <2> QED BY <2>2 DEF W
  <1>5. filter # {} => Within(s, filter) \subseteq OwnPages(filter) BY <1>1, <1>2 DEF Within, OwnPages
  <1>6. \A d \in filter : PagesOf(s, d) \subseteq Within(s, filter)
    <2> TAKE d \in filter
    <2>1. d \in Docs OBVIOUS
    <2>2. \A p \in PagesOf(s, d) : p[1] = d BY <2>1, PagesOfOne
    <2>3. PagesOf(s, d) \subseteq Everywhere(s) BY <2>1, PagesOfAll
    <2> QED BY <2>2, <2>3 DEF Within
  <1> QED BY <1>1, <1>2, <1>3, <1>4, <1>5, <1>6

\* Chapters and names of a document stay on its pages.
LEMMA PagesOfIndex ==
  ASSUME NEW s, NEW d
  PROVE  /\ MatchingPages(s, d) \subseteq PagesOf(s, d)
         /\ \A missing, ws : NamedBy(s, missing, d, ws) \subseteq PagesOf(s, d)
         /\ ChapterPages(s, d) \subseteq PagesOf(s, d)
         /\ \A c : ChapterRange(s, d, c) \subseteq PagesOf(s, d)
  <1>1. \A c : ChapterRange(s, d, c) \subseteq PagesOf(s, d) BY DEF ChapterRange
  <1>2. MatchingPages(s, d) \subseteq PagesOf(s, d) BY <1>1 DEF MatchingPages
  <1>3. \A missing, ws : NamedBy(s, missing, d, ws) \subseteq PagesOf(s, d)
    <2>1. \A missing, w : Selective(s, missing, d, w) \subseteq PagesOf(s, d) BY DEF Selective
    <2> QED BY <2>1 DEF NamedBy
  <1> QED BY <1>1, <1>2, <1>3 DEF ChapterPages

LEMMA ResultOf ==
  ASSUME NEW p \in AllPages, NEW score, NEW max \in Nat
  PROVE  IsResult(Result(p, score, max), {p}) /\ IsResult(Whole(p, score), {p})
  <1>1. Length[p] \in Nat BY StepAssumption DEF AllPages
  <1>2. ASSUME NEW most \in Nat PROVE IsResult(Result(p, score, most), {p})
    <2> DEFINE len == Min({Length[p], most})
    <2>1. len \in Nat BY <1>1, MinOfTwo
    <2>2. Result(p, score, most) = [page |-> p, score |-> score, len |-> len, excerpt |-> FALSE]
      BY DEF Result
    <2> HIDE DEF len
    <2> QED BY <2>1, <2>2 DEF IsResult
  <1> QED BY <1>1, <1>2 DEF Whole

LEMMA InOrderOf ==
  ASSUME NEW S, IsFiniteSet(S)
  PROVE  /\ Len(InOrder(S)) \in Nat /\ DOMAIN InOrder(S) = 1..Len(InOrder(S))
         /\ \A i \in DOMAIN InOrder(S) : InOrder(S)[i] \in S
  <1> DEFINE new == SortedBy(S, {r \in S \X S : Before(r[1], r[2])})
  <1>1. new = InOrder(S) BY DEF InOrder, Sorted
  <1>2. new \in Seq(S) BY SortedByOf
  <1> HIDE DEF new
  <1>3. Len(new) \in Nat /\ DOMAIN new = 1..Len(new) /\ \A i \in DOMAIN new : new[i] \in S BY <1>2
  <1> QED BY <1>1, <1>3

-----------------------------------------------------------------------------
(* The stages of a search return pages it is asked for, and lose none.     *)

LEMMA AggregatedIn ==
  ASSUME NEW s, NEW filter \in SUBSET Docs, NEW numbers, NEW limit
  PROVE  ResultsIn(Aggregated(s, filter, numbers, limit), Within(s, filter))
  <1> DEFINE S == SearchFts(s, filter, numbers)
             W == Within(s, filter)
             ps == InOrder(S)
             n == Len(ps)
             k == [i \in DOMAIN ps |-> Whole(ps[i], WordScore[ps[i]])]
  <1>1. S \in SUBSET W BY DEF SearchFts, Chunks, Within
  <1>2. IsFiniteSet(S) BY <1>1, PagesWithin
  <1> HIDE DEF S, W
  <1>3. n \in Nat /\ DOMAIN ps = 1..n /\ \A i \in 1..n : ps[i] \in S BY <1>2, InOrderOf
  <1>4. Aggregated(s, filter, numbers, limit) = Upto(Ranked(k), limit)
    BY DEF Aggregated, S
  <1> HIDE DEF ps, n
  <1>5. k = [i \in 1..n |-> k[i]] /\ \A i \in 1..n : k[i] = Whole(ps[i], WordScore[ps[i]])
    BY <1>3
  <1> HIDE DEF k
  <1>6. \A i \in 1..n : IsResult(k[i], W)
    <2>1. \A i \in 1..n : ps[i] \in W /\ ps[i] \in AllPages BY <1>1, <1>3, PagesWithin DEF W
    <2>2. \A i \in 1..n : IsResult(k[i], {ps[i]}) BY <1>5, <2>1, ResultOf, 0 \in Nat
    <2> QED BY <2>1, <2>2 DEF IsResult
  <1>7. ResultsIn(k, W) BY <1>3, <1>5, <1>6, ResultsFrom
  <1>8. ResultsIn(Ranked(k), W) BY <1>7, RankedResults
  <1>9. ResultsIn(Upto(Ranked(k), limit), W) BY <1>8, FewerResults DEF Upto
  <1> QED BY <1>4, <1>9 DEF W

\* The pages of the tokens a rescue scans the documents for.
NamedIn(s, ds) == UNION {NamedBy(s, s.unread, d, Scanned(d)) : d \in ds}

\* The scope of a search: the pages of what its documents ask for.
LEMMA ScopeIn ==
  ASSUME NEW s, NEW filter \in SUBSET Docs
  PROVE  /\ UNION {MatchingPages(s, d) : d \in filter} \in SUBSET Within(s, filter)
         /\ UNION {ChapterPages(s, d) : d \in filter} \in SUBSET Within(s, filter)
         /\ NamedIn(s, filter) \in SUBSET Within(s, filter)
  <1>1. \A d \in filter : PagesOf(s, d) \subseteq Within(s, filter) BY PagesWithin
  <1>2. \A d \in filter : /\ MatchingPages(s, d) \subseteq Within(s, filter)
                          /\ ChapterPages(s, d) \subseteq Within(s, filter)
                          /\ NamedBy(s, s.unread, d, Scanned(d)) \subseteq Within(s, filter)
    BY <1>1, PagesOfIndex
  <1> QED BY <1>2 DEF NamedIn

LEMMA StructureIn ==
  ASSUME NEW s, NEW filter \in SUBSET Docs, NEW rs, ResultsIn(rs, Within(s, filter)), NEW max
  PROVE  /\ ResultsIn(WithStructure(s, rs, filter, max), Within(s, filter))
         /\ Found(rs) \subseteq Found(WithStructure(s, rs, filter, max))
  <1> DEFINE W == Within(s, filter)
             ps == UNION {MatchingPages(s, d) : d \in filter}
             first == Boosted(rs, [p \in UNION {ChapterPages(s, d) : d \in filter} |-> 50])
             second == Boosted(first, [p \in ps |-> (ChapterScore(s, p) * 3) \div 10])
             found == [p \in ps |-> Result(p, ChapterScore(s, p), Cfg.structure_content)]
  <1>1. WithStructure(s, rs, filter, max) = Adding(second, found, 2 * max) BY DEF WithStructure
  <1>2. ps \in SUBSET W /\ IsFiniteSet(ps) BY ScopeIn, PagesWithin
  <1>3. DOMAIN found = ps /\ \A p \in ps : IsResult(found[p], {p})
    <2> HIDE DEF ps
    <2>1. \A p \in ps : p \in AllPages BY <1>2, PagesWithin
    <2> QED BY <2>1, LimitsAre, ResultOf
  <1> HIDE DEF W, ps
  <1>4. ResultsIn(first, W) /\ Found(first) = Found(rs) BY BoostedResults DEF W
  <1> HIDE DEF first, found
  <1>5. ResultsIn(second, W) /\ Found(second) = Found(rs) BY <1>4, BoostedResults
  <1> HIDE DEF second
  <1>6. /\ ResultsIn(Adding(second, found, 2 * max), W)
        /\ Found(second) \subseteq Found(Adding(second, found, 2 * max))
    BY <1>2, <1>3, <1>5, AddedResults
  <1> QED BY <1>1, <1>5, <1>6 DEF W

LEMMA LocatedIn ==
  ASSUME NEW s, NEW filter \in SUBSET Docs, NEW rs, ResultsIn(rs, Within(s, filter)), NEW max
  PROVE  /\ ResultsIn(WithLocated(s, rs, filter, max), Within(s, filter))
         /\ Found(rs) \subseteq Found(WithLocated(s, rs, filter, max))
  <1> DEFINE W == Within(s, filter)
             ps == UNION {ChapterPages(s, d) : d \in filter}
             found == [p \in ps |-> Result(p, 35, Cfg.page_preview)]
  <1>1. WithLocated(s, rs, filter, max) = Adding(rs, found, max) BY DEF WithLocated
  <1>2. ps \in SUBSET W /\ IsFiniteSet(ps) BY ScopeIn, PagesWithin
  <1>3. DOMAIN found = ps /\ \A p \in ps : IsResult(found[p], {p})
    <2> HIDE DEF ps
    <2>1. \A p \in ps : p \in AllPages BY <1>2, PagesWithin
    <2> QED BY <2>1, LimitsAre, ResultOf
  <1>4. ResultsIn(rs, W) OBVIOUS
  <1> HIDE DEF W, ps, found
  <1>5. ResultsIn(Adding(rs, found, max), W) /\ Found(rs) \subseteq Found(Adding(rs, found, max))
    BY <1>2, <1>3, <1>4, AddedResults
  <1> QED BY <1>1, <1>5 DEF W

\* A document that is there and has pages is found.
LEMMA LeadingIn ==
  ASSUME NEW s, NEW filter \in SUBSET Docs, NEW rs, ResultsIn(rs, Within(s, filter))
  PROVE  /\ ResultsIn(WithLeadingPages(s, rs, filter), Within(s, filter))
         /\ Found(rs) \subseteq Found(WithLeadingPages(s, rs, filter))
         /\ \A d \in filter : d \in s.live /\ PageCount[d] > 0 =>
                                <<d, 1>> \in Found(WithLeadingPages(s, rs, filter))
  <1> DEFINE W == Within(s, filter)
             ps == {q \in W : filter # {} /\ q[2] <= Cfg.leading_pages}
             found == [p \in ps |-> Result(p, IF p \in LowValue THEN 15 ELSE 35, Cfg.page_preview)]
  <1>1. WithLeadingPages(s, rs, filter) = AddingAll(rs, found) BY DEF WithLeadingPages
  <1>2. ps \in SUBSET W /\ IsFiniteSet(ps)
    <2>1. ps \in SUBSET Within(s, filter) OBVIOUS
    <2> HIDE DEF ps
    <2> QED BY <2>1, PagesWithin
  <1>3. DOMAIN found = ps /\ \A p \in ps : IsResult(found[p], {p})
    <2> HIDE DEF ps
    <2>1. \A p \in ps : p \in AllPages BY <1>2, PagesWithin
    <2> QED BY <2>1, LimitsAre, ResultOf
  <1>4. ResultsIn(rs, W) OBVIOUS
  <1>5. ASSUME NEW d \in filter, d \in s.live, PageCount[d] > 0
        PROVE  <<d, 1>> \in ps
    <2>1. d \in Docs /\ PageCount[d] \in Nat /\ Cfg.leading_pages \in Nat \ {0}
      BY StepAssumption, LimitsAre
    <2>2. 1 \in 1..PageCount[d] /\ 1 <= Cfg.leading_pages BY <1>5, <2>1
    <2>3. <<d, 1>> \in PagesOf(s, d) BY <1>5, <2>2 DEF PagesOf
    <2>4. <<d, 1>> \in W BY <2>3, PagesWithin
    <2> HIDE DEF W
    <2> QED BY <2>2, <2>4
  <1> HIDE DEF W, ps, found
  <1>6. /\ ResultsIn(AddingAll(rs, found), W)
        /\ Found(AddingAll(rs, found)) = Found(rs) \cup ps
    BY <1>2, <1>3, <1>4, AddedResults
  <1> QED BY <1>1, <1>5, <1>6 DEF W

LEMMA VectorsIn ==
  ASSUME NEW s, NEW filter \in SUBSET Docs, NEW rs, ResultsIn(rs, Within(s, filter)), NEW max
  PROVE  /\ ResultsIn(WithVectors(s, rs, filter, max), Within(s, filter))
         /\ Found(rs) \subseteq Found(WithVectors(s, rs, filter, max))
  <1> DEFINE W == Within(s, filter)
             ps == s.near \cap W
             found == [p \in ps |-> Whole(p, 50)]
  <1>1. WithVectors(s, rs, filter, max) \in {rs, AddingAll(rs, found)} BY DEF WithVectors
  <1>2. ps \in SUBSET W /\ IsFiniteSet(ps)
    <2>1. ps \in SUBSET Within(s, filter) OBVIOUS
    <2> HIDE DEF ps
    <2> QED BY <2>1, PagesWithin
  <1>3. DOMAIN found = ps /\ \A p \in ps : IsResult(found[p], {p})
    <2> HIDE DEF ps
    <2>1. \A p \in ps : p \in AllPages BY <1>2, PagesWithin
    <2> QED BY <2>1, LimitsAre, ResultOf
  <1>4. ResultsIn(rs, W) OBVIOUS
  <1> HIDE DEF W, ps, found
  <1>5. ResultsIn(AddingAll(rs, found), W) /\ Found(rs) \subseteq Found(AddingAll(rs, found))
    BY <1>2, <1>3, <1>4, AddedResults
  <1> QED BY <1>1, <1>4, <1>5 DEF W

LEMMA ConfirmedIn ==
  ASSUME NEW s, NEW filter \in SUBSET Docs, NEW rs, ResultsIn(rs, Within(s, filter))
  PROVE  /\ ResultsIn(WithConfirmed(s, rs, filter), Within(s, filter))
         /\ Found(rs) \subseteq Found(WithConfirmed(s, rs, filter))
  <1> DEFINE W == Within(s, filter)
             ps == s.close \cap W
             raised == Boosted(rs, [p \in ps |-> 1500])
             found == [p \in ps |-> Result(p, 650, Cfg.page_preview)]
  <1>1. WithConfirmed(s, rs, filter) \in {rs, AddingAll(raised, found)} BY DEF WithConfirmed
  <1>2. ps \in SUBSET W /\ IsFiniteSet(ps)
    <2>1. ps \in SUBSET Within(s, filter) OBVIOUS
    <2> HIDE DEF ps
    <2> QED BY <2>1, PagesWithin
  <1>3. DOMAIN found = ps /\ \A p \in ps : IsResult(found[p], {p})
    <2> HIDE DEF ps
    <2>1. \A p \in ps : p \in AllPages BY <1>2, PagesWithin
    <2> QED BY <2>1, LimitsAre, ResultOf
  <1>4. ResultsIn(rs, W) OBVIOUS
  <1> HIDE DEF W, ps, found
  <1>5. ResultsIn(raised, W) /\ Found(raised) = Found(rs) BY <1>4, BoostedResults
  <1> HIDE DEF raised
  <1>6. ResultsIn(AddingAll(raised, found), W) /\ Found(raised) \subseteq Found(AddingAll(raised, found))
    BY <1>2, <1>3, <1>5, AddedResults
  <1> QED BY <1>1, <1>4, <1>5, <1>6 DEF W

LEMMA SupplementedIn ==
  ASSUME NEW s, NEW filter \in SUBSET Docs, NEW rs, ResultsIn(rs, Within(s, filter)),
         NEW max, NEW quota
  PROVE  /\ ResultsIn(Supplemented(s, rs, filter, max, quota), Within(s, filter))
         /\ Found(rs) \subseteq Found(Supplemented(s, rs, filter, max, quota))
  <1> DEFINE W == Within(s, filter)
             few(ps) == {p \in ps : Cardinality({q \in ps : Before(q, p)}) < Cfg.min_pages}
             of(d) == CASE filter = {} -> few(PagesOf(s, d) \ Found(rs))
                        [] filter # {} /\ ChapterPages(s, d) = {} -> PagesOf(s, d)
                        [] OTHER -> ChapterPages(s, d)
             docs == IF filter = {} THEN DocsOf(rs) ELSE filter
             ps == UNION {of(d) : d \in docs}
             found == [p \in ps |-> Whole(p, 15)]
             total == MaxTotal(rs, filter, max, quota)
  <1>1. Supplemented(s, rs, filter, max, quota) = Adding(rs, found, total)
    BY DEF Supplemented
  <1>2. ASSUME NEW d \in docs PROVE of(d) \subseteq W
    <2>1. of(d) \subseteq PagesOf(s, d)
      <3>1. ChapterPages(s, d) \subseteq PagesOf(s, d) BY PagesOfIndex
      <3>2. \A T : few(T) \subseteq T OBVIOUS
      <3>3. few(PagesOf(s, d) \ Found(rs)) \subseteq PagesOf(s, d) BY <3>2
      <3> HIDE DEF few
      <3> QED BY <3>1, <3>3
    <2>2. PagesOf(s, d) \subseteq W
      <3>1. CASE filter # {} BY <3>1, PagesWithin
      <3>2. CASE filter = {}
        <4>1. d \in Docs
          <5>1. \A i \in DOMAIN rs : rs[i].page \in Found(rs) BY ResultsAre
          <5>2. PICK i \in DOMAIN rs : d = rs[i].page[1] BY <3>2 DEF DocsOf
          <5>3. rs[i].page \in Within(s, filter) BY <5>1, ResultsAre
          <5>4. rs[i].page \in Everywhere(s) BY <5>3 DEF Within
          <5> QED BY <5>2, <5>4, PagesOfAll
        <4>2. PagesOf(s, d) \subseteq Everywhere(s) BY <4>1, PagesOfAll
        <4> QED BY <3>2, <4>2 DEF Within
      <3> QED BY <3>1, <3>2
    <2> QED BY <2>1, <2>2
  <1> HIDE DEF of
  <1>3. ps \in SUBSET W /\ IsFiniteSet(ps)
    <2>1. ps \in SUBSET Within(s, filter) BY <1>2
    <2> HIDE DEF ps
    <2> QED BY <2>1, PagesWithin
  <1>4. DOMAIN found = ps /\ \A p \in ps : IsResult(found[p], {p})
    <2> HIDE DEF ps
    <2>1. \A p \in ps : p \in AllPages BY <1>3, PagesWithin
    <2> QED BY <2>1, LimitsAre, ResultOf
  <1>5. ResultsIn(rs, W) OBVIOUS
  <1> HIDE DEF W, ps, found, total
  <1>6. ResultsIn(Adding(rs, found, total), W) /\ Found(rs) \subseteq Found(Adding(rs, found, total))
    BY <1>3, <1>4, <1>5, AddedResults
  <1> QED BY <1>1, <1>6 DEF W

\* The pages a search may return: those it searches, and an industry pack's.
Reach(s, filter) == Within(s, filter) \cup (PackPages \cap Everywhere(s))

LEMMA ReachIs ==
  ASSUME NEW s, NEW filter \in SUBSET Docs
  PROVE  /\ Reach(s, filter) \subseteq Everywhere(s)
         /\ Within(s, filter) \subseteq Reach(s, filter)
  BY PagesWithin DEF Reach

LEMMA InReach ==
  ASSUME NEW s, NEW filter \in SUBSET Docs, NEW rs, ResultsIn(rs, Reach(s, filter))
  PROVE  ResultsIn(rs, Everywhere(s))
  <1>1. Found(rs) \subseteq Reach(s, filter) BY ResultsAre
  <1> QED BY <1>1, ReachIs, ResultsMore

\* An industry pack brings in pages of other documents only where nothing else
\* was found.
LEMMA PackIn ==
  ASSUME NEW s, NEW filter \in SUBSET Docs, NEW rs, ResultsIn(rs, Within(s, filter))
  PROVE  /\ ResultsIn(WithPack(s, rs), Reach(s, filter))
         /\ Found(rs) # {} => ResultsIn(WithPack(s, rs), Within(s, filter))
  <1> DEFINE W == Within(s, filter)
             A == Everywhere(s)
             B == Reach(s, filter)
             ps == {p \in PackPages \cap A : rs = <<>> \/ p[1] \in DocsOf(rs)}
             raised == [i \in DOMAIN rs |-> IF rs[i].page \in ps
                                            THEN [rs[i] EXCEPT !.score = Max({@, 400})] ELSE rs[i]]
             found == [p \in ps |-> Whole(p, 400)]
  <1>1. WithPack(s, rs) = Ranked(AddingAll(raised, found)) BY DEF WithPack
  <1>2. W \subseteq B BY ReachIs
  <1>3. ps \subseteq B /\ IsFiniteSet(ps)
    <2>1. IsFiniteSet(A) BY PagesOfAll
    <2>3. ps \subseteq B BY DEF Reach
    <2>2. ps \in SUBSET A OBVIOUS
    <2> HIDE DEF ps, A, B
    <2> QED BY <2>1, <2>2, <2>3, FS_Subset
  <1>4. Found(rs) # {} => ps \subseteq W
    <2> SUFFICES ASSUME Found(rs) # {}, NEW p \in ps PROVE p \in W OBVIOUS
    <2>1. rs # <<>> BY NoResults
    <2>2. PICK i \in DOMAIN rs : p[1] = rs[i].page[1] BY <2>1 DEF DocsOf
    <2>3. rs[i].page \in W
      <3>1. rs[i].page \in Found(rs) /\ Found(rs) \subseteq W BY ResultsAre
      <3> QED BY <3>1
    <2>4. p \in Everywhere(s) /\ (filter = {} \/ p[1] \in filter) BY <2>2, <2>3 DEF Within
    <2> QED BY <2>4 DEF Within
  <1>5. DOMAIN found = ps /\ \A p \in ps : IsResult(found[p], {p})
    <2>1. \A p \in ps : p \in AllPages BY PagesOfAll
    <2> HIDE DEF ps
    <2> QED BY <2>1, LimitsAre, ResultOf
  <1>6. \A P : ResultsIn(rs, P) => ResultsIn(raised, P) /\ Found(raised) = Found(rs)
    <2> SUFFICES ASSUME NEW P, ResultsIn(rs, P)
                 PROVE  ResultsIn(raised, P) /\ Found(raised) = Found(rs)
      OBVIOUS
    <2>1. raised = [i \in DOMAIN rs |-> raised[i]] OBVIOUS
    <2>2. \A i \in DOMAIN rs : IsResult(rs[i], P) BY ResultsAre
    <2>3. \A i \in DOMAIN rs : IsResult(raised[i], {rs[i].page}) BY <2>2 DEF IsResult
    <2> HIDE DEF raised
    <2> QED BY <2>1, <2>3, SamePages
  <1>7. ResultsIn(rs, W) /\ ResultsIn(rs, B)
    <2>1. Found(rs) \subseteq W BY ResultsAre
    <2> HIDE DEF B
    <2> QED BY <1>2, <2>1, ResultsMore
  <1> HIDE DEF W, A, B, ps, found, raised
  <1>8. ASSUME NEW P, ResultsIn(rs, P), ps \subseteq P
        PROVE  ResultsIn(WithPack(s, rs), P)
    <2>1. ResultsIn(raised, P) BY <1>6, <1>8
    <2>2. ResultsIn(AddingAll(raised, found), P) BY <1>3, <1>5, <1>8, <2>1, AddedResults
    <2> QED BY <1>1, <2>2, RankedResults
  <1>9. ResultsIn(WithPack(s, rs), B) BY <1>3, <1>7, <1>8
  <1>10. Found(rs) # {} => ResultsIn(WithPack(s, rs), W) BY <1>4, <1>7, <1>8
  <1> QED BY <1>9, <1>10 DEF W, B

LEMMA ExactIn ==
  ASSUME NEW s, NEW filter \in SUBSET Docs, NEW max, NEW quota
  PROVE  /\ ResultsIn(Exact(s, filter, max, quota), Reach(s, filter))
         /\ (\E d \in filter : d \in s.live /\ PageCount[d] > 0) =>
               ResultsIn(Exact(s, filter, max, quota), Within(s, filter))
  <1> DEFINE W == Within(s, filter)
             counted == Aggregated(s, filter, PageFilter(s, filter), max)
             hits == Boosted(counted, Rules.search)
             structured == WithStructure(s, hits, filter, max)
             located == WithLocated(s, structured, filter, max)
             leading == WithLeadingPages(s, located, filter)
             filled == WithVectors(s, leading, filter, max)
             recalled == WithConfirmed(s, filled, filter)
             supplemented == Supplemented(s, recalled, filter, max, quota)
             all == Ranked(supplemented)
             kept == Keep(all, {i \in DOMAIN all : filter = {} \/ all[i].page[1] \in filter})
             total == Max({MaxTotal(recalled, filter, max, quota), max})
  <1>1. Exact(s, filter, max, quota) = Upto(WithPack(s, kept), total)
    BY Zenon DEF Exact, At
  <1>2. ResultsIn(hits, W)
    <2>1. ResultsIn(counted, W) BY AggregatedIn
    <2> HIDE DEF counted, W
    <2> QED BY <2>1, BoostedResults
  <1> HIDE DEF hits
  <1>3. ResultsIn(structured, W) BY <1>2, StructureIn
  <1> HIDE DEF structured
  <1>4. ResultsIn(located, W) BY <1>3, LocatedIn
  <1> HIDE DEF located
  <1>5. /\ ResultsIn(leading, W)
        /\ \A d \in filter : d \in s.live /\ PageCount[d] > 0 => <<d, 1>> \in Found(leading)
    BY <1>4, LeadingIn
  <1> HIDE DEF leading
  <1>6. ResultsIn(filled, W) /\ Found(leading) \subseteq Found(filled) BY <1>5, VectorsIn
  <1> HIDE DEF filled
  <1>7. ResultsIn(recalled, W) /\ Found(filled) \subseteq Found(recalled) BY <1>6, ConfirmedIn
  <1> HIDE DEF recalled
  <1>8. ResultsIn(supplemented, W) /\ Found(recalled) \subseteq Found(supplemented)
    BY <1>7, SupplementedIn
  <1> HIDE DEF supplemented
  <1>9. ResultsIn(all, W) /\ Found(all) = Found(supplemented)
    <2> HIDE DEF W
    <2> QED BY <1>8, RankedResults
  <1> HIDE DEF all
  <1>10. ResultsIn(kept, W) /\ Found(kept) = Found(all)
    <2> DEFINE I == {i \in DOMAIN all : filter = {} \/ all[i].page[1] \in filter}
    <2>1. /\ DOMAIN all = 1..Len(all) /\ Found(all) = {all[i].page : i \in 1..Len(all)}
          /\ \A i \in 1..Len(all) : IsResult(all[i], W)
      <3> HIDE DEF W
      <3> QED BY <1>9, ResultsAre
    <2>2. \A i \in DOMAIN all : i \in I BY <2>1 DEF IsResult, Within
    <2> HIDE DEF I, W
    <2>3. ResultsIn(Keep(all, I), W)
          /\ Found(Keep(all, I)) = {all[i].page : i \in {j \in 1..Len(all) : j \in I}}
      BY <1>9, KeptResults
    <2>4. {j \in 1..Len(all) : j \in I} = 1..Len(all) BY <2>1, <2>2
    <2> QED BY <2>1, <2>3, <2>4 DEF I
  <1> HIDE DEF kept
  <1>11. /\ ResultsIn(WithPack(s, kept), Reach(s, filter))
         /\ Found(kept) # {} => ResultsIn(WithPack(s, kept), W)
    BY <1>10, PackIn
  <1>12. (\E d \in filter : d \in s.live /\ PageCount[d] > 0) => Found(kept) # {}
    BY <1>5, <1>6, <1>7, <1>8, <1>9, <1>10
  <1> HIDE DEF W, total
  <1>13. \A P : ResultsIn(WithPack(s, kept), P) => ResultsIn(Upto(WithPack(s, kept), total), P)
    BY FewerResults DEF Upto
  <1> QED BY <1>1, <1>11, <1>12, <1>13 DEF W

-----------------------------------------------------------------------------
(* What the executor makes of it.                                          *)

LEMMA FallbackIn ==
  ASSUME NEW s, NEW d \in Docs
  PROVE  ResultsIn(FallbackToFts(s, d), Within(s, {d}))
  <1> DEFINE W == Within(s, {d})
             rs == Aggregated(s, {d}, {}, Cfg.fallback_pages)
             F(r) == [i \in DOMAIN r |-> [r[i] EXCEPT !.score = @ + 500]]
             k == F(rs)
  <1>1. FallbackToFts(s, d) = k
    <2>1. FallbackToFts(s, d) = At(rs, F) BY DEF FallbackToFts
    <2> HIDE DEF F, rs
    <2> QED BY <2>1, Zenon DEF At
  <1>2. {d} \in SUBSET Docs OBVIOUS
  <1>3. ResultsIn(rs, W) BY <1>2, AggregatedIn
  <1> HIDE DEF rs, W
  <1>4. \A i \in DOMAIN rs : IsResult(rs[i], W) BY <1>3, ResultsAre
  <1>5. k = [i \in DOMAIN rs |-> k[i]] /\ \A i \in DOMAIN rs : IsResult(k[i], {rs[i].page})
    BY <1>4 DEF IsResult
  <1> HIDE DEF k
  <1>6. ResultsIn(k, W) BY <1>3, <1>5, SamePages
  <1> QED BY <1>1, <1>6 DEF W

LEMMA WithoutIn ==
  ASSUME NEW rs, NEW P, ResultsIn(rs, P), NEW ps
  PROVE  ResultsIn(Without(rs, ps), P)
  BY FewerResults DEF Without

\* Each chapter read brings its pages.
LEMMA ChapterResultsIn ==
  ASSUME NEW s, NEW d \in Docs, NEW picks
  PROVE  ResultsIn(ChapterResults(s, d, picks), Within(s, {d}))
  <1> DEFINE W == Within(s, {d})
             S == Selection(d, picks)
             before(i, j) == \/ Chapters[d][i].rank > Chapters[d][j].rank
                             \/ Chapters[d][i].rank = Chapters[d][j].rank /\ i < j
             idx == SortedBy(S, {r \in S \X S : before(r[1], r[2])})
             n == Len(idx)
             base == <<>>
             read(i) == [p \in ChapterRange(s, d, Segment(d, i)) |-> Whole(p, 1000)]
             op(rs, i) == AddingAll(rs, read(i))
             E(g) == [i \in 0..n |->
                        IF i = 0 THEN base ELSE At(g[i - 1], LAMBDA a : op(a, idx[i]))]
             f == CHOOSE g : g = E(g)
  <1>1. IsFiniteSet(S)
    <2>1. S \in SUBSET DOMAIN Chapters[d] BY DEF Selection
    <2>2. IsFiniteSet(DOMAIN Chapters[d]) BY StepAssumption
    <2> HIDE DEF S
    <2> QED BY <2>1, <2>2, FS_Subset
  <1>2. ChapterResults(s, d, picks) = f[n] BY DEF ChapterResults, Sorted, Fold
  <1>100. n \in Nat
    <2> HIDE DEF S
    <2>1. idx \in Seq(S) BY <1>1, SortedByOf
    <2> HIDE DEF idx
    <2> QED BY <2>1
  <1> HIDE DEF idx
  <1>3. ASSUME NEW rs, ResultsIn(rs, W), NEW i PROVE ResultsIn(op(rs, i), W)
    <2> DEFINE ps == ChapterRange(s, d, Segment(d, i))
    <2>1. {d} \in SUBSET Docs /\ d \in {d} OBVIOUS
    <2>2. ps \subseteq PagesOf(s, d) BY PagesOfIndex
    <2>3. PagesOf(s, d) \subseteq Within(s, {d}) BY <2>1, PagesWithin
    <2>4. ps \in SUBSET W BY <2>2, <2>3
    <2>5. IsFiniteSet(ps)
      <3> HIDE DEF ps
      <3> QED BY <2>1, <2>4, PagesWithin
    <2>6. DOMAIN read(i) = ps /\ \A p \in ps : IsResult(read(i)[p], {p})
      <3> HIDE DEF ps
      <3>1. \A p \in ps : p \in AllPages BY <2>1, <2>4, PagesWithin
      <3> QED BY <3>1, ResultOf, 0 \in Nat DEF ps
    <2> HIDE DEF ps, W, read
    <2> QED BY <1>3, <2>4, <2>5, <2>6, AddedResults
  <1>4. ResultsIn(base, W) BY NoResults
  <1> HIDE DEF W
  <1> HIDE DEF op, base, n
  <1> DEFINE H(m, h) == h = [i \in 0..m |-> IF i = 0 THEN base ELSE op(h[i - 1], idx[i])]
             T == {m \in 0..n : \E h : H(m, h)}
  <1>101. 0 \in T
    <2>1. H(0, [i \in 0..0 |-> base]) OBVIOUS
    <2> HIDE DEF H
    <2> QED BY <1>100, <2>1
  <1>102. ASSUME NEW m \in 1..n, m - 1 \in T PROVE m \in T
    <2>1. m \in 0..n BY <1>100
    <2>2. PICK h : H(m - 1, h) BY <1>102
    <2> DEFINE g == [i \in 0..m |-> IF i = m THEN op(h[m - 1], idx[m]) ELSE h[i]]
    <2>3. ASSUME NEW i \in 0..m PROVE g[i] = IF i = 0 THEN base ELSE op(g[i - 1], idx[i])
      <3>1. CASE i = m
        <4>1. m - 1 \in 0..m /\ m # 0 /\ m - 1 # m BY <1>100
        <4> QED BY <3>1, <4>1
      <3>2. CASE i # m
        <4>1. i \in 0..(m - 1) BY <1>100, <3>2
        <4>2. i # 0 => i - 1 \in 0..m /\ i - 1 # m BY <1>100, <3>2
        <4>3. g[i] = h[i] /\ (i # 0 => g[i - 1] = h[i - 1]) BY <3>2, <4>2
        <4>4. h[i] = IF i = 0 THEN base ELSE op(h[i - 1], idx[i]) BY <2>2, <4>1
        <4> QED BY <4>3, <4>4
      <3> QED BY <3>1, <3>2
    <2>4. H(m, g) BY <2>3
    <2> HIDE DEF g, H
    <2> QED BY <2>1, <2>4
  <1>103. PICK h : H(n, h)
    <2> HIDE DEF T
    <2>1. \A m \in 1..n : m - 1 \in T => m \in T BY <1>102
    <2>2. \A m \in 0..n : m \in T BY <1>100, <1>101, <2>1, UpTo
    <2>3. n \in T BY <1>100, <2>2
    <2> QED BY <2>3 DEF T
  <1>104. \A g, i : At(g[i - 1], LAMBDA a : op(a, idx[i])) = op(g[i - 1], idx[i])
    BY Zenon DEF At
  <1>105. h = E(h) BY <1>103, <1>104
  <1> HIDE DEF E, H, T
  <1>106. f = E(f) BY <1>105, Zenon
  <1> HIDE DEF f
  <1>107. \A i \in 0..n : f[i] = IF i = 0 THEN base ELSE op(f[i - 1], idx[i]) BY <1>104, <1>106 DEF E
  <1>108. f[0] = base /\ \A i \in 1..n : i - 1 \in 0..n /\ f[i] = op(f[i - 1], idx[i])
    <2>1. 0 \in 0..n /\ \A i \in 1..n : i \in 0..n /\ i # 0 /\ i - 1 \in 0..n BY <1>100
    <2> QED BY <1>107, <2>1
  <1> DEFINE U == {m \in 0..n : ResultsIn(f[m], W)}
  <1>5. 0 \in U BY <1>4, <1>100, <1>108
  <1>6. \A m \in 1..n : m - 1 \in U => m \in U
    <2> SUFFICES ASSUME NEW m \in 1..n, m - 1 \in U PROVE m \in U OBVIOUS
    <2>1. f[m] = op(f[m - 1], idx[m]) BY <1>108
    <2>2. ResultsIn(op(f[m - 1], idx[m]), W) BY <1>3
    <2>3. m \in 0..n BY <1>100
    <2> QED BY <2>1, <2>2, <2>3
  <1>7. n \in U
    <2> HIDE DEF U
    <2>1. \A m \in 0..n : m \in U BY <1>5, <1>6, <1>100, UpTo
    <2> QED BY <1>100, <2>1
  <1> QED BY <1>2, <1>7 DEF W

LEMMA StartsFirstIn ==
  ASSUME NEW rs, NEW P, ResultsIn(rs, P), NEW d \in Docs
  PROVE  ResultsIn(StartsFirst(rs, d), P)
  <1> DEFINE S == {i \in Matching(d) : Chapters[d][i].match # 2}
             direct == SortedBy(S, {r \in S \X S : r[1] < r[2]})
             on(i, a) == Without(Keep(rs, {j \in DOMAIN rs : rs[j].page = <<d, Chapters[d][i].from>>}), Found(a))
             n == Len(direct)
             base == <<>>
             op(a, i) == a \o on(i, a)
             E(g) == [i \in 0..n |->
                        IF i = 0 THEN base ELSE At(g[i - 1], LAMBDA a : op(a, direct[i]))]
             f == CHOOSE g : g = E(g)
  <1>1. IsFiniteSet(S)
    <2>1. S \in SUBSET DOMAIN Chapters[d] BY DEF Matching
    <2>2. IsFiniteSet(DOMAIN Chapters[d]) BY StepAssumption
    <2> HIDE DEF S
    <2> QED BY <2>1, <2>2, FS_Subset
  <1>2. StartsFirst(rs, d) = f[n] \o Without(rs, Found(f[n])) BY Zenon DEF StartsFirst, Sorted, Fold, At
  <1>100. n \in Nat
    <2> HIDE DEF S
    <2>1. direct \in Seq(S) BY <1>1, SortedByOf
    <2> HIDE DEF direct
    <2> QED BY <2>1
  <1> HIDE DEF direct
  <1>3. ASSUME NEW a, ResultsIn(a, P), NEW i PROVE ResultsIn(op(a, i), P)
    <2> DEFINE I == {j \in DOMAIN rs : rs[j].page = <<d, Chapters[d][i].from>>}
    <2>1. on(i, a) = Without(Keep(rs, I), Found(a)) OBVIOUS
    <2> HIDE DEF I, on
    <2>2. ResultsIn(Keep(rs, I), P) BY FewerResults
    <2>3. ResultsIn(on(i, a), P) BY <2>1, <2>2, WithoutIn
    <2> QED BY <1>3, <2>3, MoreResults
  <1>4. ResultsIn(base, P) BY NoResults
  <1> HIDE DEF on
  <1> HIDE DEF op, base, n
  <1> DEFINE H(m, h) == h = [i \in 0..m |-> IF i = 0 THEN base ELSE op(h[i - 1], direct[i])]
             T == {m \in 0..n : \E h : H(m, h)}
  <1>101. 0 \in T
    <2>1. H(0, [i \in 0..0 |-> base]) OBVIOUS
    <2> HIDE DEF H
    <2> QED BY <1>100, <2>1
  <1>102. ASSUME NEW m \in 1..n, m - 1 \in T PROVE m \in T
    <2>1. m \in 0..n BY <1>100
    <2>2. PICK h : H(m - 1, h) BY <1>102
    <2> DEFINE g == [i \in 0..m |-> IF i = m THEN op(h[m - 1], direct[m]) ELSE h[i]]
    <2>3. ASSUME NEW i \in 0..m PROVE g[i] = IF i = 0 THEN base ELSE op(g[i - 1], direct[i])
      <3>1. CASE i = m
        <4>1. m - 1 \in 0..m /\ m # 0 /\ m - 1 # m BY <1>100
        <4> QED BY <3>1, <4>1
      <3>2. CASE i # m
        <4>1. i \in 0..(m - 1) BY <1>100, <3>2
        <4>2. i # 0 => i - 1 \in 0..m /\ i - 1 # m BY <1>100, <3>2
        <4>3. g[i] = h[i] /\ (i # 0 => g[i - 1] = h[i - 1]) BY <3>2, <4>2
        <4>4. h[i] = IF i = 0 THEN base ELSE op(h[i - 1], direct[i]) BY <2>2, <4>1
        <4> QED BY <4>3, <4>4
      <3> QED BY <3>1, <3>2
    <2>4. H(m, g) BY <2>3
    <2> HIDE DEF g, H
    <2> QED BY <2>1, <2>4
  <1>103. PICK h : H(n, h)
    <2> HIDE DEF T
    <2>1. \A m \in 1..n : m - 1 \in T => m \in T BY <1>102
    <2>2. \A m \in 0..n : m \in T BY <1>100, <1>101, <2>1, UpTo
    <2>3. n \in T BY <1>100, <2>2
    <2> QED BY <2>3 DEF T
  <1>104. \A g, i : At(g[i - 1], LAMBDA a : op(a, direct[i])) = op(g[i - 1], direct[i])
    BY Zenon DEF At
  <1>105. h = E(h) BY <1>103, <1>104
  <1> HIDE DEF E, H, T
  <1>106. f = E(f) BY <1>105, Zenon
  <1> HIDE DEF f
  <1>107. \A i \in 0..n : f[i] = IF i = 0 THEN base ELSE op(f[i - 1], direct[i]) BY <1>104, <1>106 DEF E
  <1>108. f[0] = base /\ \A i \in 1..n : i - 1 \in 0..n /\ f[i] = op(f[i - 1], direct[i])
    <2>1. 0 \in 0..n /\ \A i \in 1..n : i \in 0..n /\ i # 0 /\ i - 1 \in 0..n BY <1>100
    <2> QED BY <1>107, <2>1
  <1> DEFINE U == {m \in 0..n : ResultsIn(f[m], P)}
  <1>5. 0 \in U BY <1>4, <1>100, <1>108
  <1>6. \A m \in 1..n : m - 1 \in U => m \in U
    <2> SUFFICES ASSUME NEW m \in 1..n, m - 1 \in U PROVE m \in U OBVIOUS
    <2>1. f[m] = op(f[m - 1], direct[m]) BY <1>108
    <2>2. ResultsIn(op(f[m - 1], direct[m]), P) BY <1>3
    <2>3. m \in 0..n BY <1>100
    <2> QED BY <2>1, <2>2, <2>3
  <1>7. n \in U
    <2> HIDE DEF U
    <2>1. \A m \in 0..n : m \in U BY <1>5, <1>6, <1>100, UpTo
    <2> QED BY <1>100, <2>1
  <1>8. ResultsIn(f[n], P) BY <1>7
  <1>9. ResultsIn(Without(rs, Found(f[n])), P) BY WithoutIn
  <1> QED BY <1>2, <1>8, <1>9, MoreResults

LEMMA ChapterRetrieveIn ==
  ASSUME NEW s, NEW d \in Docs, NEW picks, NEW quota
  PROVE  ResultsIn(ChapterRetrieve(s, d, picks, quota), Within(s, {d}))
  <1> DEFINE W == Within(s, {d})
             read == ChapterResults(s, d, picks)
             rs == StartsFirst(read, d)
             ps == Pinned(rs)
             hoisted == Hoisted(rs, ps)
  <1>1. \/ ChapterRetrieve(s, d, picks, quota) = FallbackToFts(s, d)
        \/ ChapterRetrieve(s, d, picks, quota) = UpToQuota(hoisted, quota)
    BY Zenon DEF ChapterRetrieve, At
  <1>2. ResultsIn(FallbackToFts(s, d), W) BY FallbackIn
  <1>3. ResultsIn(read, W) BY ChapterResultsIn
  <1> HIDE DEF W, read
  <1>4. ResultsIn(rs, W) BY <1>3, StartsFirstIn
  <1> HIDE DEF rs, ps
  <1>5. ResultsIn(hoisted, W)
    <2> DEFINE I == {i \in DOMAIN rs : rs[i].page \in ps}
    <2>1. hoisted = Keep(rs, I) \o Without(rs, ps) BY DEF Hoisted
    <2> HIDE DEF I
    <2>2. ResultsIn(Keep(rs, I), W) /\ ResultsIn(Without(rs, ps), W) BY <1>4, FewerResults, WithoutIn
    <2> QED BY <2>1, <2>2, MoreResults
  <1> HIDE DEF hoisted
  <1>6. ResultsIn(UpToQuota(hoisted, quota), W)
    <2>1. \A I : ResultsIn(Keep(hoisted, I), W) BY <1>5, FewerResults
    <2> QED BY <2>1 DEF UpToQuota, Upto
  <1> QED BY <1>1, <1>2, <1>6 DEF W

\* Those of the documents asked for are the evidence, up to a number of them.
LEMMA EvidenceIs ==
  ASSUME NEW s, NEW filter \in SUBSET Docs, NEW rs, ResultsIn(rs, Everywhere(s))
  PROVE  /\ Range(Evidence(s, rs, filter)) \in SUBSET Within(s, filter)
         /\ filter # {} /\ Cardinality(NamedIn(s, filter)) <= Cfg.max_rescued =>
              NamedIn(s, filter) \subseteq Range(Evidence(s, rs, filter))
  <1> DEFINE named == NamedIn(s, filter)
             docs == IF filter = {} THEN DocsOf(rs) ELSE filter
             ps == UNION {NamedBy(s, s.unread, d, Scanned(d)) : d \in docs}
             strength == [p \in ps |-> Strength(s, p)]
             R(of) == {r \in ps \X ps : \/ Stronger(of[r[1]], of[r[2]])
                                        \/ of[r[1]] = of[r[2]] /\ Before(r[1], r[2])}
             F(of) == Upto(SortedBy(ps, R(of)), Cfg.max_rescued)
             sorted == SortedBy(ps, R(strength))
             ev == Upto(sorted, Cfg.max_rescued)
  <1>1. ev = Evidence(s, rs, filter)
    <2>1. Evidence(s, rs, filter) = At(strength, F) BY DEF Evidence, Sorted
    <2>2. At(strength, F) = F(strength)
      <3> HIDE DEF F, strength
      <3> QED BY Zenon DEF At
    <2> QED BY <2>1, <2>2
  <1>2. docs \subseteq Docs
    <2>1. CASE filter = {}
      <3>1. \A i \in DOMAIN rs : rs[i].page \in Everywhere(s)
        <4>1. \A i \in DOMAIN rs : rs[i].page \in Found(rs) BY ResultsAre
        <4>2. Found(rs) \subseteq Everywhere(s) BY ResultsAre
        <4> QED BY <4>1, <4>2
      <3>2. \A i \in DOMAIN rs : rs[i].page[1] \in Docs BY <3>1, PagesOfAll
      <3> QED BY <2>1, <3>2 DEF DocsOf
    <2>2. CASE filter # {} BY <2>2
    <2> QED BY <2>1, <2>2
  <1>3. ps \in SUBSET Everywhere(s)
    <2> HIDE DEF docs
    <2>1. \A d \in docs : NamedBy(s, s.unread, d, Scanned(d)) \subseteq PagesOf(s, d) BY PagesOfIndex
    <2>2. \A d \in docs : PagesOf(s, d) \subseteq Everywhere(s) BY <1>2, PagesOfAll
    <2> QED BY <2>1, <2>2
  <1>4. IsFiniteSet(ps)
    <2> HIDE DEF ps
    <2>1. IsFiniteSet(Everywhere(s)) BY PagesOfAll
    <2> QED BY <1>3, <2>1, FS_Subset
  <1>5. ps \subseteq Within(s, filter)
    <2>1. named \in SUBSET Within(s, filter) BY ScopeIn
    <2>2. filter = {} => Within(s, filter) = Everywhere(s) BY DEF Within
    <2>3. filter # {} => ps \subseteq named BY DEF NamedIn
    <2> HIDE DEF ps, named
    <2> QED BY <1>3, <2>1, <2>2, <2>3
  <1>6. filter # {} => ps = named BY DEF NamedIn
  <1> HIDE DEF named, ps, R, strength, F
  <1>7. /\ sorted \in Seq(ps) /\ Len(sorted) = Cardinality(ps) /\ Range(sorted) = ps
        /\ Cardinality(ps) \in Nat
    BY <1>4, SortedByOf
  <1> HIDE DEF sorted
  <1>8. /\ ev \in Seq(ps)
        /\ \A x : (\E i \in DOMAIN ev : ev[i] = x)
                    <=> \E i \in 1..Len(sorted) : i \in 1..Cfg.max_rescued /\ sorted[i] = x
    <2> DEFINE I == 1..Cfg.max_rescued
    <2>1. ev = Keep(sorted, I) BY DEF Upto
    <2> HIDE DEF I, ev
    <2>2. /\ Keep(sorted, I) \in Seq(ps)
          /\ \A x : (\E i \in DOMAIN Keep(sorted, I) : Keep(sorted, I)[i] = x)
                      <=> \E i \in 1..Len(sorted) : i \in I /\ sorted[i] = x
      BY <1>7, KeepOf
    <2> QED BY <2>1, <2>2 DEF I
  <1> HIDE DEF ev
  <1>9. Range(ev) \subseteq ps BY <1>8, SeqOfItsOwn
  <1>10. ASSUME Cardinality(ps) <= Cfg.max_rescued PROVE ps \subseteq Range(ev)
    <2> SUFFICES ASSUME NEW x \in ps PROVE x \in Range(ev) OBVIOUS
    <2>1. PICK i \in 1..Len(sorted) : sorted[i] = x BY <1>7 DEF Range
    <2>2. i \in 1..Cfg.max_rescued BY <1>7, <1>10, LimitsAre
    <2>3. \E j \in DOMAIN ev : ev[j] = x BY <1>8, <2>1, <2>2
    <2> QED BY <2>3 DEF Range
  <1> QED BY <1>1, <1>5, <1>6, <1>9, <1>10 DEF named

\* A rescue adds the evidence to what was found.
LEMMA RescueIn ==
  ASSUME NEW s, NEW filter \in SUBSET Docs, NEW rs, ResultsIn(rs, Everywhere(s))
  PROVE  /\ \A P : ResultsIn(rs, P) /\ Within(s, filter) \subseteq P =>
              ResultsIn(Rescue(s, rs, filter), P)
         /\ filter # {} /\ Cardinality(NamedIn(s, filter)) <= Cfg.max_rescued =>
              NamedIn(s, filter) \subseteq Found(Rescue(s, rs, filter))
  <1> DEFINE named == NamedIn(s, filter)
             A == Everywhere(s)
             W == Within(s, filter)
             ps == Range(Evidence(s, rs, filter))
             k == [i \in DOMAIN rs |-> IF rs[i].page \in ps THEN Excerpted(rs[i]) ELSE rs[i]]
             new(p) == [page |-> p, score |-> 4500 + 100 * Cardinality(WordsOn(s, p)),
                        len |-> Cfg.excerpt, excerpt |-> TRUE]
             found == [p \in ps |-> new(p)]
  <1>1. Rescue(s, rs, filter) = AddingAll(k, found)
    <2> DEFINE F(x) == AddingAll([i \in DOMAIN rs |-> IF rs[i].page \in x THEN Excerpted(rs[i]) ELSE rs[i]],
                                 [p \in x |-> new(p)])
    <2>1. Rescue(s, rs, filter) = At(ps, F) BY DEF Rescue
    <2>2. At(ps, F) = F(ps)
      <3> HIDE DEF F, ps
      <3> QED BY Zenon DEF At
    <2> QED BY <2>1, <2>2
  <1>2. /\ ps \in SUBSET W
        /\ filter # {} /\ Cardinality(named) <= Cfg.max_rescued => named \subseteq ps
    BY EvidenceIs
  <1>3. IsFiniteSet(ps)
    <2> HIDE DEF ps
    <2> QED BY <1>2, PagesWithin
  <1>4. DOMAIN found = ps /\ \A p \in ps : IsResult(found[p], {p})
    <2> HIDE DEF ps
    <2>1. DOMAIN found = ps /\ \A p \in ps : found[p] = new(p) OBVIOUS
    <2>2. \A p : IsResult(new(p), {p})
      <3> TAKE p
      <3> DEFINE score == 4500 + 100 * Cardinality(WordsOn(s, p))
      <3> HIDE DEF score
      <3> QED BY LimitsAre DEF IsResult, score
    <2> HIDE DEF found, new
    <2> QED BY <2>1, <2>2
  <1>5. k = [i \in DOMAIN rs |-> k[i]] OBVIOUS
  <1>6. \A i \in DOMAIN rs : IsResult(k[i], {rs[i].page})
    <2>1. \A i \in DOMAIN rs : IsResult(rs[i], A) BY ResultsAre
    <2>2. \A r : IsResult(r, A) => IsResult(Excerpted(r), {r.page}) /\ IsResult(r, {r.page})
      <3> HIDE DEF A
      <3> TAKE r
      <3> DEFINE score == Max({r.score, 4500})
                 len == IF r.excerpt THEN r.len ELSE r.len + Cfg.excerpt
      <3>1. Excerpted(r) = [r EXCEPT !.score = score, !.excerpt = TRUE, !.len = len]
        BY DEF Excerpted
      <3>2. IsResult(r, A) => len \in Nat BY LimitsAre DEF IsResult
      <3> HIDE DEF score, len
      <3> QED BY <3>1, <3>2 DEF IsResult
    <2> HIDE DEF A, ps
    <2>3. \A i \in DOMAIN rs : k[i] = Excerpted(rs[i]) \/ k[i] = rs[i] OBVIOUS
    <2> HIDE DEF k
    <2> QED BY <2>1, <2>2, <2>3
  <1>7. ResultsIn(rs, A) OBVIOUS
  <1> HIDE DEF named, A, W, ps, k, found
  <1>8. ASSUME NEW P, ResultsIn(rs, P), ps \subseteq P
        PROVE  ResultsIn(AddingAll(k, found), P) /\ ps \subseteq Found(AddingAll(k, found))
    <2>1. ResultsIn(k, P) BY <1>5, <1>6, <1>8, SamePages
    <2> QED BY <1>3, <1>4, <1>8, <2>1, AddedResults
  <1>9. \A P : ResultsIn(rs, P) /\ W \subseteq P => ResultsIn(AddingAll(k, found), P)
    BY <1>2, <1>8
  <1>10. ps \subseteq Found(AddingAll(k, found))
    <2>1. W \subseteq A BY PagesWithin DEF W, A
    <2> QED BY <1>2, <1>7, <1>8, <2>1
  <1> QED BY <1>1, <1>2, <1>9, <1>10 DEF named, W

LEMMA JoinedResults ==
  ASSUME NEW n \in Nat, NEW rss, rss = [i \in 1..n |-> rss[i]], NEW P,
         \A i \in 1..n : ResultsIn(rss[i], P)
  PROVE  ResultsIn(Joined(rss), P)
  <1> DEFINE X == UNION {Range(rss[i]) : i \in 1..n}
  <1>1. \A i \in 1..n : rss[i] \in Seq(Range(rss[i])) BY DEF ResultsIn
  <1>2. \A i \in 1..n : Range(rss[i]) \subseteq X OBVIOUS
  <1>3. \A r \in X : IsResult(r, P) BY DEF ResultsIn
  <1> HIDE DEF X
  <1>4. \A i \in 1..n : rss[i] \in Seq(X) BY <1>1, <1>2
  <1>5. rss \in Seq(Seq(X)) BY <1>4
  <1> DEFINE j == Joined(rss)
  <1>6. j \in Seq(X) BY <1>5, JoinedOf
  <1> HIDE DEF j
  <1>7. j \in Seq(Range(j)) /\ Range(j) \subseteq X BY <1>6, SeqOfItsOwn
  <1> QED BY <1>3, <1>7 DEF ResultsIn, j

LEMMA BestIn ==
  ASSUME NEW rs, NEW P, ResultsIn(rs, P)
  PROVE  ResultsIn(Best(rs), P)
  <1> DEFINE same(page) == {j \in DOMAIN rs : rs[j].page = page}
             S == {i \in DOMAIN rs : i = Min(same(rs[i].page))}
             firsts == SortedBy(S, {r \in S \X S : r[1] < r[2]})
             best == Ranked(rs)
             F(b) == [i \in DOMAIN firsts |-> b[Min({j \in DOMAIN b : b[j].page = rs[firsts[i]].page})]]
             k == F(best)
             n == Len(firsts)
  <1>1. Best(rs) = k
    <2>1. Best(rs) = At(best, F) BY DEF Best, Sorted
    <2> HIDE DEF F, best
    <2> QED BY <2>1, Zenon DEF At
  <1>2. Len(rs) \in Nat /\ DOMAIN rs = 1..Len(rs) /\ \A i \in DOMAIN rs : rs[i].page \in Found(rs)
    BY ResultsAre
  <1>3. IsFiniteSet(S)
    <2>1. S \in SUBSET (1..Len(rs)) BY <1>2
    <2>2. IsFiniteSet(1..Len(rs))
      <3>1. 1 \in Int /\ Len(rs) \in Int BY <1>2
      <3> QED BY <3>1, FS_Interval
    <2> HIDE DEF S
    <2> QED BY <2>1, <2>2, FS_Subset
  <1>4. S \subseteq DOMAIN rs OBVIOUS
  <1> HIDE DEF S
  <1>5. firsts \in Seq(S) BY <1>3, SortedByOf
  <1> HIDE DEF firsts
  <1>6. n \in Nat /\ DOMAIN firsts = 1..n /\ \A i \in 1..n : firsts[i] \in S BY <1>5
  <1>7. ResultsIn(best, P) /\ Found(best) = Found(rs) BY RankedResults
  <1>8. /\ Found(best) = {best[j].page : j \in 1..Len(best)} /\ DOMAIN best = 1..Len(best)
        /\ \A j \in 1..Len(best) : IsResult(best[j], P)
    <2> HIDE DEF best
    <2> QED BY <1>7, ResultsAre
  <1> HIDE DEF best, n
  <1>9. k = [i \in 1..n |-> k[i]] BY <1>6
  <1>10. \A i \in 1..n : IsResult(k[i], P)
    <2> TAKE i \in 1..n
    <2> DEFINE T == {j \in DOMAIN best : best[j].page = rs[firsts[i]].page}
    <2>1. k[i] = best[Min(T)] BY <1>6
    <2>2. rs[firsts[i]].page \in Found(best) BY <1>2, <1>4, <1>6, <1>7
    <2>3. T \subseteq Nat /\ T # {} BY <1>8, <2>2
    <2>4. Min(T) \in DOMAIN best
      <3>1. T \subseteq DOMAIN best OBVIOUS
      <3> HIDE DEF T
      <3> QED BY <2>3, <3>1, MinIs
    <2> QED BY <1>8, <2>1, <2>4
  <1> HIDE DEF k
  <1>11. ResultsIn(k, P) BY <1>6, <1>9, <1>10, ResultsFrom
  <1> QED BY <1>1, <1>11

\* A search returns pages within its reach.  If all of the documents asked for are
\* there and have pages, it returns only theirs; and it returns the pages with a
\* token that is scanned for, unless there are more than a rescue takes.
LEMMA RetrieveIn ==
  ASSUME NEW s, NEW filter \in SUBSET Docs, NEW quota
  PROVE  /\ ResultsIn(Retrieve(s, filter, quota), Reach(s, filter))
         /\ filter # {} /\ (\A d \in filter : d \in s.live /\ PageCount[d] > 0) =>
              ResultsIn(Retrieve(s, filter, quota), Within(s, filter))
         /\ filter # {} /\ Cardinality(NamedIn(s, filter)) <= Cfg.max_rescued =>
              NamedIn(s, filter) \subseteq Found(Retrieve(s, filter, quota))
  <1> DEFINE named == NamedIn(s, filter)
             rs == Retrieve(s, filter, quota)
             all == \A d \in filter : d \in s.live /\ PageCount[d] > 0
             few == Cardinality(named) <= Cfg.max_rescued
  <1>1. CASE Cardinality(filter) <= 1
    <2> DEFINE exact == Exact(s, filter, MaxResults(filter, quota), quota)
    <2>1. rs = Rescue(s, exact, filter) BY <1>1 DEF Retrieve
    <2>2. /\ ResultsIn(exact, Reach(s, filter))
          /\ filter # {} /\ all => ResultsIn(exact, Within(s, filter))
      BY ExactIn
    <2> HIDE DEF exact, rs
    <2>3. ResultsIn(exact, Everywhere(s)) BY <2>2, InReach
    <2>4. /\ \A P : ResultsIn(exact, P) /\ Within(s, filter) \subseteq P =>
               ResultsIn(Rescue(s, exact, filter), P)
          /\ filter # {} /\ few => named \subseteq Found(Rescue(s, exact, filter))
      BY <2>3, RescueIn
    <2> QED BY <2>1, <2>2, <2>4, ReachIs DEF rs
  <1>2. CASE ~(Cardinality(filter) <= 1)
    <2> DEFINE each == Max({Cfg.per_doc_floor, MaxResults(filter, quota) \div Cardinality(filter)})
               ds == SortedBy(filter, {r \in filter \X filter : r[1] < r[2]})
               n == Len(ds)
               rss == [i \in DOMAIN ds |-> Exact(s, {ds[i]}, each, quota)]
               joined == Joined(rss)
               ranked == Ranked(Best(joined))
               rescued == Rescue(s, ranked, filter)
    <2>1. rs = Ranked(rescued)
      <3> DEFINE G(x) == Ranked(Rescue(s, Ranked(Best(Joined(x))), filter))
                 F(x) == At([i \in DOMAIN x |-> Exact(s, {x[i]}, each, quota)], G)
      <3>1. rs = At(ds, F) BY <1>2 DEF Retrieve, Sorted
      <3>2. At(ds, F) = F(ds)
        <4> HIDE DEF F, ds
        <4> QED BY Zenon DEF At
      <3>3. At(rss, G) = G(rss)
        <4> HIDE DEF G, rss
        <4> QED BY Zenon DEF At
      <3> QED BY <3>1, <3>2, <3>3
    <2>2. IsFiniteSet(filter)
      <3>1. IsFiniteSet(Docs) BY StepAssumption
      <3> QED BY <3>1, FS_Subset
    <2>3. ds \in Seq(filter) BY <2>2, SortedByOf
    <2> HIDE DEF ds, each
    <2>4. n \in Nat /\ DOMAIN ds = 1..n /\ \A i \in 1..n : ds[i] \in filter BY <2>3
    <2> HIDE DEF n
    <2>5. rss = [i \in 1..n |-> rss[i]] BY <2>4
    <2>6. \A i \in 1..n : /\ ResultsIn(rss[i], Reach(s, filter))
                          /\ all => ResultsIn(rss[i], Within(s, filter))
      <3> TAKE i \in 1..n
      <3> DEFINE d == ds[i]
      <3>1. d \in filter /\ {d} \in SUBSET Docs BY <2>4
      <3>2. rss[i] = Exact(s, {d}, each, quota) BY <2>4
      <3> HIDE DEF d, rss
      <3>3. /\ ResultsIn(rss[i], Reach(s, {d}))
            /\ all => ResultsIn(rss[i], Within(s, {d}))
        BY <3>1, <3>2, ExactIn
      <3>4. Within(s, {d}) \subseteq Within(s, filter) BY <3>1 DEF Within
      <3>6. ResultsIn(rss[i], Reach(s, filter))
        <4>1. Found(rss[i]) \subseteq Reach(s, {d}) BY <3>3, ResultsAre
        <4>2. Reach(s, {d}) \subseteq Reach(s, filter) BY <3>4 DEF Reach
        <4> QED BY <3>3, <4>1, <4>2, ResultsMore
      <3>5. ResultsIn(rss[i], Within(s, {d})) => ResultsIn(rss[i], Within(s, filter))
        <4> SUFFICES ASSUME ResultsIn(rss[i], Within(s, {d}))
                     PROVE  ResultsIn(rss[i], Within(s, filter))
          OBVIOUS
        <4>1. Found(rss[i]) \subseteq Within(s, {d}) BY ResultsAre
        <4> QED BY <3>4, <4>1, ResultsMore
      <3> QED BY <3>3, <3>5, <3>6
    <2> HIDE DEF rss
    <2>7. \A P : (\A i \in 1..n : ResultsIn(rss[i], P)) => ResultsIn(ranked, P)
      <3> SUFFICES ASSUME NEW P, \A i \in 1..n : ResultsIn(rss[i], P) PROVE ResultsIn(ranked, P)
        OBVIOUS
      <3>1. ResultsIn(joined, P) BY <2>4, <2>5, JoinedResults
      <3> HIDE DEF joined
      <3>2. ResultsIn(Best(joined), P) BY <3>1, BestIn
      <3> QED BY <3>2, RankedResults
    <2>8. /\ ResultsIn(ranked, Reach(s, filter))
          /\ all => ResultsIn(ranked, Within(s, filter))
      <3> HIDE DEF all, ranked
      <3> QED BY <2>6, <2>7
    <2> HIDE DEF ranked, rs, all
    <2>8a. ResultsIn(ranked, Everywhere(s)) BY <2>8, InReach
    <2>9. /\ \A P : ResultsIn(ranked, P) /\ Within(s, filter) \subseteq P => ResultsIn(rescued, P)
          /\ filter # {} /\ few => named \subseteq Found(rescued)
      BY <2>8a, RescueIn
    <2> HIDE DEF rescued, named
    <2>10. \A P : ResultsIn(rescued, P) => ResultsIn(rs, P) /\ Found(rs) = Found(rescued)
      BY <2>1, RankedResults
    <2>11. \/ ~(filter # {} /\ all)
           \/ ResultsIn(rs, Within(s, filter)) BY <2>8, <2>9, <2>10
    <2>12. ResultsIn(rescued, Reach(s, filter)) BY <2>8, <2>9, ReachIs
    <2>13. ResultsIn(rs, Reach(s, filter)) /\ Found(rs) = Found(rescued) BY <2>10, <2>12
    <2>14. filter # {} /\ few => named \subseteq Found(rs) BY <2>9, <2>13
    <2> QED BY <2>11, <2>13, <2>14 DEF rs, all, named
  <1> QED BY <1>1, <1>2

\* The rest of a section is of the same document.
LEMMA SectionsIn ==
  ASSUME NEW s, NEW P, P \subseteq AllPages, NEW rs, ResultsIn(rs, P),
         \A p \in P, q \in AllPages : q[1] = p[1] => q \in P
  PROVE  ResultsIn(WithSections(s, rs), P)
  <1> DEFINE beside(p, q) == \E c \in Range(Chapters[p[1]]) :
               /\ q[1] = p[1] /\ q[2] \in c.from..c.to
               /\ p[2] \in c.from..c.to \/ (p[2] \in c.around /\ p[2] \in {q[2] - 1, q[2] + 1})
             ps == {r \in Everywhere(s) : Length[r] > 0 /\ \E q \in Found(rs) : beside(r, q)}
             found == [p \in ps |-> Whole(p, 10)]
  <1>1. WithSections(s, rs) = AddingAll(rs, found) BY DEF WithSections
  <1>2. Everywhere(s) \subseteq AllPages /\ IsFiniteSet(Everywhere(s)) BY PagesOfAll
  <1>3. ps \in SUBSET Everywhere(s) OBVIOUS
  <1>4. ps \subseteq P
    <2> SUFFICES ASSUME NEW r \in ps PROVE r \in P OBVIOUS
    <2>1. PICK q \in Found(rs) : beside(r, q) OBVIOUS
    <2>2. q \in P BY ResultsAre
    <2>3. r[1] = q[1] BY <2>1
    <2> HIDE DEF beside
    <2> QED BY <1>2, <2>2, <2>3
  <1> HIDE DEF ps, beside
  <1>5. IsFiniteSet(ps) BY <1>2, <1>3, FS_Subset
  <1>6. \A p \in ps : IsResult(found[p], {p})
    <2>1. \A p \in ps : p \in AllPages /\ found[p] = Whole(p, 10) BY <1>2, <1>3
    <2> HIDE DEF found
    <2>2. 0 \in Nat OBVIOUS
    <2> QED BY <2>1, <2>2, ResultOf
  <1>7. DOMAIN found = ps OBVIOUS
  <1> HIDE DEF found
  <1>8. ResultsIn(AddingAll(rs, found), P) BY <1>4, <1>5, <1>6, <1>7, AddedResults
  <1> QED BY <1>1, <1>8

-----------------------------------------------------------------------------
(* Texts: which pages they hold.                                           *)

IsPiece(p, P) ==
    /\ p = [what |-> p.what, page |-> p.page, len |-> p.len]
    /\ p.what = "page" => p.page \in P
    /\ p.len \in Nat
TextOf(text, P) == text \in Seq(Range(text)) /\ \A p \in Range(text) : IsPiece(p, P)

LEMMA TextsAre ==
  ASSUME NEW text, NEW P, TextOf(text, P)
  PROVE  /\ Len(text) \in Nat /\ DOMAIN text = 1..Len(text)
         /\ \A i \in DOMAIN text : IsPiece(text[i], P)
         /\ PagesIn(text) \subseteq P
         /\ \A Q : P \subseteq Q => TextOf(text, Q)
  <1> DEFINE n == Len(text)
  <1>1. n \in Nat /\ DOMAIN text = 1..n BY DEF TextOf
  <1> HIDE DEF n
  <1>2. \A i \in DOMAIN text : IsPiece(text[i], P) BY DEF TextOf, Range
  <1>3. PagesIn(text) \subseteq P BY <1>2 DEF PagesIn, IsPiece
  <1>4. \A Q : P \subseteq Q => TextOf(text, Q) BY DEF TextOf, IsPiece
  <1> QED BY <1>1, <1>2, <1>3, <1>4 DEF n

\* A text is made of elements of any set of pieces.
LEMMA TextFrom ==
  ASSUME NEW X, NEW text \in Seq(X), NEW P, \A p \in X : IsPiece(p, P)
  PROVE  TextOf(text, P)
  BY SeqOfItsOwn DEF TextOf

LEMMA PieceOf ==
  ASSUME NEW what, NEW page, NEW len \in Nat, NEW P, what = "page" => page \in P
  PROVE  IsPiece(Piece(what, page, len), P) /\ TextOf(<<Piece(what, page, len)>>, P)
  <1> DEFINE p == Piece(what, page, len)
  <1>1. IsPiece(p, P) BY DEF IsPiece, Piece
  <1> HIDE DEF p
  <1> DEFINE X == {p}
  <1>2. <<p>> \in Seq(X) /\ \A q \in X : IsPiece(q, P) BY <1>1
  <1> HIDE DEF X
  <1>3. TextOf(<<p>>, P) BY <1>2, TextFrom
  <1> QED BY <1>1, <1>3 DEF p

LEMMA MoreText ==
  ASSUME NEW a, NEW b, NEW P, TextOf(a, P), TextOf(b, P)
  PROVE  TextOf(a \o b, P)
  <1> DEFINE X == Range(a) \cup Range(b)
  <1>1. a \in Seq(X) /\ b \in Seq(X)
    <2>1. a \in Seq(Range(a)) /\ b \in Seq(Range(b)) BY DEF TextOf
    <2> QED BY <2>1
  <1>2. \A p \in X : IsPiece(p, P) BY DEF TextOf
  <1> HIDE DEF X
  <1>3. a \o b \in Seq(X) BY <1>1
  <1> DEFINE c == a \o b
  <1> HIDE DEF c
  <1>4. TextOf(c, P) BY <1>2, <1>3, TextFrom DEF c
  <1> QED BY <1>4 DEF c

LEMMA OnePieceMore ==
  ASSUME NEW a, NEW p, NEW P, TextOf(a, P), IsPiece(p, P)
  PROVE  TextOf(Append(a, p), P)
  <1> DEFINE X == Range(a) \cup {p}
             c == Append(a, p)
  <1>1. a \in Seq(X)
    <2>1. a \in Seq(Range(a)) BY DEF TextOf
    <2> QED BY <2>1
  <1>2. p \in X /\ \A q \in X : IsPiece(q, P) BY DEF TextOf
  <1> HIDE DEF X
  <1>3. c \in Seq(X) BY <1>1, <1>2
  <1> HIDE DEF c
  <1>4. TextOf(c, P) BY <1>2, <1>3, TextFrom
  <1> QED BY <1>4 DEF c

LEMMA NoText ==
  ASSUME NEW P
  PROVE  TextOf(<<>>, P)
  BY DEF TextOf, Range

LEMMA MarkedText ==
  ASSUME NEW text, NEW P, TextOf(text, P)
  PROVE  TextOf(MarkTruncated(text), P)
  <1>1. IsPiece(Marker, P)
    <2>1. "marker" # "page" OBVIOUS
    <2> QED BY <2>1, LimitsAre, PieceOf DEF Marker
  <1> QED BY <1>1, OnePieceMore DEF MarkTruncated

-----------------------------------------------------------------------------
(* Sizes: where each piece of a text ends.                                 *)

\* e[i] is where piece i ends.
EndsOf(e, text) == e[0] = 0 /\ \A i \in 1..Len(text) : e[i] = e[i - 1] + text[i].len

LEMMA SizeSteps ==
  ASSUME NEW text, Len(text) \in Nat
  PROVE  \E e : EndsOf(e, text) /\ e[Len(text)] = Size(text)
  <1> DEFINE n == Len(text)
             base == 0
             op(a, p) == a + p.len
             E(g) == [i \in 0..n |->
                        IF i = 0 THEN base ELSE At(g[i - 1], LAMBDA a : op(a, text[i]))]
             f == CHOOSE g : g = E(g)
  <1>100. n \in Nat OBVIOUS
  <1>1. Size(text) = f[n] BY DEF Size, Fold
  <1>2. base = 0 /\ \A a, i : op(a, text[i]) = a + text[i].len OBVIOUS
  <1> HIDE DEF op, base, n
  <1> DEFINE H(m, h) == h = [i \in 0..m |-> IF i = 0 THEN base ELSE op(h[i - 1], text[i])]
             T == {m \in 0..n : \E h : H(m, h)}
  <1>101. 0 \in T
    <2>1. H(0, [i \in 0..0 |-> base]) OBVIOUS
    <2> HIDE DEF H
    <2> QED BY <1>100, <2>1
  <1>102. ASSUME NEW m \in 1..n, m - 1 \in T PROVE m \in T
    <2>1. m \in 0..n BY <1>100
    <2>2. PICK h : H(m - 1, h) BY <1>102
    <2> DEFINE g == [i \in 0..m |-> IF i = m THEN op(h[m - 1], text[m]) ELSE h[i]]
    <2>3. ASSUME NEW i \in 0..m PROVE g[i] = IF i = 0 THEN base ELSE op(g[i - 1], text[i])
      <3>1. CASE i = m
        <4>1. m - 1 \in 0..m /\ m # 0 /\ m - 1 # m BY <1>100
        <4> QED BY <3>1, <4>1
      <3>2. CASE i # m
        <4>1. i \in 0..(m - 1) BY <1>100, <3>2
        <4>2. i # 0 => i - 1 \in 0..m /\ i - 1 # m BY <1>100, <3>2
        <4>3. g[i] = h[i] /\ (i # 0 => g[i - 1] = h[i - 1]) BY <3>2, <4>2
        <4>4. h[i] = IF i = 0 THEN base ELSE op(h[i - 1], text[i]) BY <2>2, <4>1
        <4> QED BY <4>3, <4>4
      <3> QED BY <3>1, <3>2
    <2>4. H(m, g) BY <2>3
    <2> HIDE DEF g, H
    <2> QED BY <2>1, <2>4
  <1>103. PICK h : H(n, h)
    <2> HIDE DEF T
    <2>1. \A m \in 1..n : m - 1 \in T => m \in T BY <1>102
    <2>2. \A m \in 0..n : m \in T BY <1>100, <1>101, <2>1, UpTo
    <2>3. n \in T BY <1>100, <2>2
    <2> QED BY <2>3 DEF T
  <1>104. \A g, i : At(g[i - 1], LAMBDA a : op(a, text[i])) = op(g[i - 1], text[i])
    BY Zenon DEF At
  <1>105. h = E(h) BY <1>103, <1>104
  <1> HIDE DEF E, H, T
  <1>106. f = E(f) BY <1>105, Zenon
  <1> HIDE DEF f
  <1>107. \A i \in 0..n : f[i] = IF i = 0 THEN base ELSE op(f[i - 1], text[i]) BY <1>104, <1>106 DEF E
  <1>108. f[0] = base /\ \A i \in 1..n : i - 1 \in 0..n /\ f[i] = op(f[i - 1], text[i])
    <2>1. 0 \in 0..n /\ \A i \in 1..n : i \in 0..n /\ i # 0 /\ i - 1 \in 0..n BY <1>100
    <2> QED BY <1>107, <2>1
  <1>3. EndsOf(f, text) BY <1>2, <1>108 DEF EndsOf, n
  <1> HIDE DEF E, f
  <1> QED BY <1>1, <1>3 DEF n

LEMMA EndsAre ==
  ASSUME NEW text, NEW P, TextOf(text, P), NEW e, EndsOf(e, text)
  PROVE  /\ e[Len(text)] = Size(text) /\ Size(text) \in Nat
         /\ \A i \in 0..Len(text) : e[i] \in Nat /\ e[i] <= Size(text)
  <1> DEFINE n == Len(text)
  <1>1. n \in Nat /\ DOMAIN text = 1..n /\ \A i \in 1..n : text[i].len \in Nat
    BY TextsAre DEF IsPiece
  <1>2. PICK g : EndsOf(g, text) /\ g[n] = Size(text) BY <1>1, SizeSteps
  <1>3. /\ e[0] = 0 /\ \A i \in 1..n : e[i] = e[i - 1] + text[i].len
        /\ g[0] = 0 /\ \A i \in 1..n : g[i] = g[i - 1] + text[i].len
    BY <1>2 DEF EndsOf
  <1> HIDE DEF n
  <1> DEFINE T == {i \in 0..n : e[i] = g[i] /\ e[i] \in Nat}
  <1>4. 0 \in T BY <1>1, <1>3
  <1>5. ASSUME NEW i \in 1..n, i - 1 \in T PROVE i \in T
    <2>1. i \in 0..n /\ e[i - 1] = g[i - 1] /\ e[i - 1] \in Nat BY <1>1, <1>5
    <2>2. e[i] = e[i - 1] + text[i].len /\ g[i] = g[i - 1] + text[i].len /\ text[i].len \in Nat
      BY <1>1, <1>3
    <2>3. e[i] = g[i] /\ e[i] \in Nat BY <2>1, <2>2
    <2> QED BY <2>1, <2>3
  <1> HIDE DEF T
  <1>6. \A i \in 0..n : i \in T BY <1>1, <1>4, <1>5, UpTo
  <1>7. \A i \in 0..n : e[i] = g[i] /\ e[i] \in Nat BY <1>6 DEF T
  <1> DEFINE U == {k \in 0..n : e[n - k] <= e[n]}
  <1>8. 0 \in U BY <1>1, <1>7
  <1>9. ASSUME NEW k \in 1..n, k - 1 \in U PROVE k \in U
    <2>1. n - (k - 1) \in 1..n /\ n - (k - 1) - 1 = n - k /\ n - k \in 0..n /\ k \in 0..n BY <1>1
    <2>2. e[n - (k - 1)] <= e[n] BY <1>9
    <2>3. e[n - (k - 1)] = e[n - k] + text[n - (k - 1)].len BY <1>3, <2>1
    <2>4. text[n - (k - 1)].len \in Nat /\ e[n - k] \in Nat BY <1>1, <1>7, <2>1
    <2>5. n \in 0..n /\ e[n] \in Nat BY <1>1, <1>7
    <2>6. e[n - k] <= e[n] BY <2>2, <2>3, <2>4, <2>5
    <2> QED BY <2>1, <2>6
  <1> HIDE DEF U
  <1>10. \A k \in 0..n : k \in U BY <1>1, <1>8, <1>9, UpTo
  <1>11. ASSUME NEW i \in 0..n PROVE e[i] <= e[n]
    <2>1. n - i \in 0..n /\ n - (n - i) = i BY <1>1
    <2>2. n - i \in U BY <1>10, <2>1
    <2> QED BY <2>1, <2>2 DEF U
  <1>12. n \in 0..n BY <1>1
  <1> QED BY <1>2, <1>7, <1>11, <1>12 DEF n

LEMMA EndsSame ==
  ASSUME NEW text, NEW P, TextOf(text, P), NEW e, EndsOf(e, text), NEW g, EndsOf(g, text)
  PROVE  \A i \in 0..Len(text) : e[i] = g[i]
  <1> DEFINE n == Len(text)
  <1>1. n \in Nat BY TextsAre
  <1>2. /\ e[0] = 0 /\ \A i \in 1..n : e[i] = e[i - 1] + text[i].len
        /\ g[0] = 0 /\ \A i \in 1..n : g[i] = g[i - 1] + text[i].len
    BY DEF EndsOf
  <1> HIDE DEF n
  <1> DEFINE T == {i \in 0..n : e[i] = g[i]}
  <1>3. 0 \in T BY <1>1, <1>2
  <1>4. ASSUME NEW i \in 1..n, i - 1 \in T PROVE i \in T
    <2>1. i \in 0..n /\ e[i - 1] = g[i - 1] BY <1>1, <1>4
    <2> QED BY <1>2, <2>1
  <1> HIDE DEF T
  <1>5. \A i \in 0..n : i \in T BY <1>1, <1>3, <1>4, UpTo
  <1> QED BY <1>5 DEF T, n

LEMMA SizeIs ==
  ASSUME NEW text, NEW P, TextOf(text, P)
  PROVE  Size(text) \in Nat /\ \E e : EndsOf(e, text)
  <1>1. Len(text) \in Nat BY TextsAre
  <1>2. PICK e : EndsOf(e, text) BY <1>1, SizeSteps
  <1> QED BY <1>2, EndsAre

LEMMA EmptySize == Size(<<>>) = 0
  <1> DEFINE t == <<>>
  <1>1. Len(t) = 0 OBVIOUS
  <1>2. TextOf(t, {}) BY NoText
  <1> HIDE DEF t
  <1>3. PICK e : EndsOf(e, t) BY <1>2, SizeIs
  <1>4. e[0] = Size(t) /\ e[0] = 0 BY <1>1, <1>2, <1>3, EndsAre DEF EndsOf
  <1> QED BY <1>4 DEF t

\* A marker in the first n characters.
MarkedWithin(text, n) ==
    \E e : EndsOf(e, text) /\ \E i \in DOMAIN text : text[i] = Marker /\ e[i] <= n

LEMMA MarkedIs ==
  ASSUME NEW text, NEW P, TextOf(text, P)
  PROVE  /\ \A n : MarkedWithin(text, n) => IsTruncated(text)
         /\ \A n \in Int : IsTruncated(text) /\ Size(text) <= n => MarkedWithin(text, n)
         /\ \A n \in Int : \A m \in Int : MarkedWithin(text, n) /\ n <= m => MarkedWithin(text, m)
  <1>1. \A n : MarkedWithin(text, n) => IsTruncated(text) BY DEF MarkedWithin, IsTruncated
  <1>2. DOMAIN text = 1..Len(text) /\ Len(text) \in Nat BY TextsAre
  <1>3. \A e : EndsOf(e, text) => \A i \in DOMAIN text : e[i] \in Nat /\ e[i] <= Size(text)
    BY <1>2, EndsAre
  <1>4. ASSUME NEW n \in Int, IsTruncated(text), Size(text) <= n PROVE MarkedWithin(text, n)
    <2>1. PICK e : EndsOf(e, text) BY SizeIs
    <2>2. PICK i \in DOMAIN text : text[i] = Marker BY <1>4 DEF IsTruncated
    <2>3. e[i] <= n BY <1>3, <1>4, <2>1, SizeIs
    <2> QED BY <2>1, <2>2, <2>3 DEF MarkedWithin
  <1>5. ASSUME NEW n \in Int, NEW m \in Int, MarkedWithin(text, n), n <= m PROVE MarkedWithin(text, m)
    <2>1. PICK e : EndsOf(e, text) /\ \E i \in DOMAIN text : text[i] = Marker /\ e[i] <= n
      BY <1>5 DEF MarkedWithin
    <2>2. PICK i \in DOMAIN text : text[i] = Marker /\ e[i] <= n BY <2>1
    <2>3. e[i] <= m BY <1>3, <1>5, <2>1, <2>2
    <2> QED BY <2>1, <2>2, <2>3 DEF MarkedWithin
  <1> QED BY <1>1, <1>4, <1>5

\* Two texts, one after the other.
LEMMA SizeOfBoth ==
  ASSUME NEW a, NEW b, NEW P, TextOf(a, P), TextOf(b, P)
  PROVE  /\ Size(a \o b) = Size(a) + Size(b)
         /\ IsTruncated(a \o b) <=> IsTruncated(a) \/ IsTruncated(b)
         /\ PagesIn(a \o b) = PagesIn(a) \cup PagesIn(b)
         /\ \A n : MarkedWithin(a, n) => MarkedWithin(a \o b, n)
         /\ \A n \in Int : MarkedWithin(b, n) => MarkedWithin(a \o b, Size(a) + n)
  <1> DEFINE c == a \o b
             m == Len(a)
             n == Len(b)
  <1>1. m \in Nat /\ n \in Nat /\ DOMAIN a = 1..m /\ DOMAIN b = 1..n BY TextsAre
  <1> DEFINE X == Range(a) \cup Range(b)
  <1>2. a \in Seq(X) /\ b \in Seq(X)
    <2>1. a \in Seq(Range(a)) /\ b \in Seq(Range(b)) BY DEF TextOf
    <2> QED BY <2>1
  <1> HIDE DEF X
  <1>3. /\ Len(c) = m + n /\ DOMAIN c = 1..(m + n)
        /\ \A i \in 1..m : c[i] = a[i]
        /\ \A i \in 1..n : c[m + i] = b[i]
    <2>1. c \in Seq(X) /\ Len(c) = m + n BY <1>2
    <2>2. \A i \in 1..m : c[i] = a[i] BY <1>1, <1>2
    <2>3. \A i \in 1..n : m + i > m /\ m + i \in 1..(m + n) /\ (m + i) - m = i BY <1>1
    <2>4. \A i \in 1..n : c[m + i] = b[i] BY <1>1, <1>2, <2>3
    <2> HIDE DEF c, m, n
    <2>5. DOMAIN c = 1..(m + n) BY <2>1
    <2> QED BY <2>1, <2>2, <2>4, <2>5
  <1>4. TextOf(c, P) BY MoreText
  <1> HIDE DEF c, m, n
  <1>5. /\ \A i \in 1..m : i \in 1..(m + n)
        /\ \A i \in 1..n : m + i \in 1..(m + n)
        /\ \A i \in 1..(m + n) : i \in 1..m \/ (i - m \in 1..n /\ m + (i - m) = i)
    BY <1>1
  <1>6. \A i \in 1..(m + n) : (i \in 1..m /\ c[i] = a[i]) \/ (i - m \in 1..n /\ c[i] = b[i - m])
    BY <1>3, <1>5
  <1>7. IsTruncated(c) <=> IsTruncated(a) \/ IsTruncated(b)
    <2>1. IsTruncated(c) => IsTruncated(a) \/ IsTruncated(b)
      BY <1>1, <1>3, <1>6 DEF IsTruncated
    <2>2. IsTruncated(a) => IsTruncated(c) BY <1>1, <1>3, <1>5 DEF IsTruncated
    <2>3. IsTruncated(b) => IsTruncated(c) BY <1>1, <1>3, <1>5 DEF IsTruncated
    <2> QED BY <2>1, <2>2, <2>3
  <1>8. PagesIn(c) = PagesIn(a) \cup PagesIn(b)
    <2>1. PagesIn(c) \subseteq PagesIn(a) \cup PagesIn(b)
      <3> SUFFICES ASSUME NEW i \in 1..(m + n), c[i].what = "page"
                   PROVE  c[i].page \in PagesIn(a) \cup PagesIn(b)
        BY <1>3 DEF PagesIn
      <3>1. CASE i \in 1..m /\ c[i] = a[i] BY <1>1, <3>1 DEF PagesIn
      <3>2. CASE i - m \in 1..n /\ c[i] = b[i - m]
        <4> DEFINE k == i - m
        <4>1. k \in DOMAIN b /\ c[i] = b[k] BY <1>1, <3>2
        <4> HIDE DEF k
        <4> QED BY <4>1 DEF PagesIn
      <3> QED BY <1>6, <3>1, <3>2
    <2>2. PagesIn(a) \subseteq PagesIn(c)
      <3> SUFFICES ASSUME NEW i \in 1..m, a[i].what = "page" PROVE a[i].page \in PagesIn(c)
        BY <1>1 DEF PagesIn
      <3>1. i \in DOMAIN c /\ c[i] = a[i] BY <1>3, <1>5
      <3> QED BY <3>1 DEF PagesIn
    <2>3. PagesIn(b) \subseteq PagesIn(c)
      <3> SUFFICES ASSUME NEW i \in 1..n, b[i].what = "page" PROVE b[i].page \in PagesIn(c)
        BY <1>1 DEF PagesIn
      <3>1. m + i \in DOMAIN c /\ c[m + i] = b[i] BY <1>3, <1>5
      <3> DEFINE k == m + i
      <3> HIDE DEF k
      <3>2. k \in DOMAIN c /\ c[k] = b[i] BY <3>1 DEF k
      <3> QED BY <3>2 DEF PagesIn
    <2> QED BY <2>1, <2>2, <2>3
  <1>9. ASSUME NEW e, EndsOf(e, a), NEW h, EndsOf(h, b)
        PROVE  \E g : /\ EndsOf(g, c) /\ \A i \in 0..m : g[i] = e[i]
                      /\ \A i \in 1..n : g[m + i] = Size(a) + h[i]
    <2> DEFINE g == [i \in 0..(m + n) |-> IF i <= m THEN e[i] ELSE Size(a) + h[i - m]]
    <2>1. e[m] = Size(a) /\ Size(a) \in Nat BY <1>9, EndsAre DEF m
    <2>2. /\ e[0] = 0 /\ \A i \in 1..m : e[i] = e[i - 1] + a[i].len
          /\ h[0] = 0 /\ \A i \in 1..n : h[i] = h[i - 1] + b[i].len
      BY <1>9 DEF EndsOf, m, n
    <2>3. \A i \in 0..n : h[i] \in Nat BY <1>9, EndsAre DEF n
    <2>4. \A i \in 0..m : g[i] = e[i] BY <1>1
    <2>5. \A i \in 1..n : g[m + i] = Size(a) + h[i]
      <3> TAKE i \in 1..n
      <3>1. m + i \in 0..(m + n) /\ ~(m + i <= m) /\ (m + i) - m = i BY <1>1
      <3> QED BY <3>1
    <2> HIDE DEF g
    <2>6. ASSUME NEW i \in 1..(m + n) PROVE g[i] = g[i - 1] + c[i].len
      <3>1. CASE i \in 1..m
        <4>1. i \in 0..m /\ i - 1 \in 0..m BY <1>1, <3>1
        <4> QED BY <1>3, <2>2, <2>4, <3>1, <4>1
      <3>2. CASE i \notin 1..m
        <4> DEFINE j == i - m
        <4>1. j \in 1..n /\ m + j = i /\ c[i] = b[j] BY <1>3, <1>5, <3>2
        <4>2. g[i] = Size(a) + h[j] BY <2>5, <4>1
        <4>3. h[j] = h[j - 1] + b[j].len BY <2>2, <4>1
        <4>4. g[i - 1] = Size(a) + h[j - 1]
          <5>1. CASE j = 1
            <6>1. i - 1 = m /\ m \in 0..m /\ j - 1 = 0 BY <1>1, <4>1, <5>1
            <6> HIDE DEF j
            <6> QED BY <2>1, <2>2, <2>4, <6>1
          <5>2. CASE j # 1
            <6>1. j - 1 \in 1..n /\ m + (j - 1) = i - 1 BY <1>1, <4>1, <5>2
            <6> HIDE DEF j
            <6> QED BY <2>5, <6>1
          <5> QED BY <5>1, <5>2
        <4>5. b[j].len \in Nat /\ h[j - 1] \in Nat
          <5>1. IsPiece(b[j], P) BY <1>1, <4>1, TextsAre
          <5>2. j - 1 \in 0..n BY <1>1, <4>1
          <5> QED BY <2>3, <5>1, <5>2 DEF IsPiece
        <4> HIDE DEF j
        <4> QED BY <2>1, <4>1, <4>2, <4>3, <4>4, <4>5
      <3> QED BY <3>1, <3>2
    <2>7. g[0] = 0 BY <1>1, <2>2, <2>4
    <2>8. EndsOf(g, c) BY <1>3, <2>6, <2>7 DEF EndsOf
    <2> QED BY <2>4, <2>5, <2>8
  <1>10. \E h : EndsOf(h, b) BY SizeIs
  <1>11. \E e : EndsOf(e, a) BY SizeIs
  <1>12. Size(a) \in Nat /\ Size(b) \in Nat BY SizeIs
  <1>13. Size(c) = Size(a) + Size(b)
    <2>1. PICK e : EndsOf(e, a) BY <1>11
    <2>2. PICK h : EndsOf(h, b) BY <1>10
    <2>3. PICK g : /\ EndsOf(g, c) /\ \A i \in 0..m : g[i] = e[i]
                   /\ \A i \in 1..n : g[m + i] = Size(a) + h[i]
      BY <1>9, <2>1, <2>2
    <2>4. g[m + n] = Size(c) /\ e[m] = Size(a) /\ h[n] = Size(b) /\ h[0] = 0
      <3>1. EndsOf(g, c) BY <2>3
      <3>2. g[Len(c)] = Size(c) BY <1>4, <3>1, EndsAre, Zenon
      <3>3. e[Len(a)] = Size(a) BY <2>1, EndsAre, Zenon
      <3>4. h[Len(b)] = Size(b) BY <2>2, EndsAre, Zenon
      <3>5. h[0] = 0 BY <2>2 DEF EndsOf
      <3> QED BY <1>3, <3>2, <3>3, <3>4, <3>5, Zenon DEF m, n
    <2>5. CASE n = 0
      <3>1. m + n = m /\ m \in 0..m BY <1>1, <2>5
      <3>2. Size(b) = 0 BY <2>4, <2>5
      <3> QED BY <1>12, <2>3, <2>4, <3>1, <3>2
    <2>6. CASE n # 0
      <3>1. n \in 1..n BY <1>1, <2>6
      <3> QED BY <2>3, <2>4, <3>1
    <2> QED BY <2>5, <2>6
  <1>14. ASSUME NEW k, MarkedWithin(a, k) PROVE MarkedWithin(c, k)
    <2>1. PICK e : EndsOf(e, a) /\ \E i \in DOMAIN a : a[i] = Marker /\ e[i] <= k
      BY <1>14 DEF MarkedWithin
    <2>2. PICK i \in 1..m : a[i] = Marker /\ e[i] <= k BY <1>1, <2>1
    <2>3. PICK g : EndsOf(g, c) /\ \A j \in 0..m : g[j] = e[j] BY <1>9, <1>10, <2>1
    <2>4. i \in 0..m /\ i \in DOMAIN c /\ c[i] = a[i] BY <1>1, <1>3, <1>5
    <2>5. c[i] = Marker /\ g[i] <= k BY <2>2, <2>3, <2>4
    <2> QED BY <2>3, <2>4, <2>5 DEF MarkedWithin
  <1>15. ASSUME NEW k \in Int, MarkedWithin(b, k) PROVE MarkedWithin(c, Size(a) + k)
    <2>1. PICK h : EndsOf(h, b) /\ \E i \in DOMAIN b : b[i] = Marker /\ h[i] <= k
      BY <1>15 DEF MarkedWithin
    <2>2. PICK i \in 1..n : b[i] = Marker /\ h[i] <= k BY <1>1, <2>1
    <2>3. PICK g : EndsOf(g, c) /\ \A j \in 1..n : g[m + j] = Size(a) + h[j] BY <1>9, <1>11, <2>1
    <2>4. m + i \in DOMAIN c /\ c[m + i] = Marker BY <1>3, <1>5, <2>2
    <2>5. h[i] \in Nat
      <3>1. i \in 0..n BY <1>1
      <3> QED BY <2>1, <3>1, EndsAre DEF n
    <2>6. g[m + i] <= Size(a) + k BY <1>12, <2>2, <2>3, <2>5
    <2> QED BY <2>3, <2>4, <2>6 DEF MarkedWithin
  <1> QED BY <1>7, <1>8, <1>13, <1>14, <1>15 DEF c

LEMMA SizeOfOne ==
  ASSUME NEW p, NEW P, IsPiece(p, P)
  PROVE  /\ TextOf(<<p>>, P) /\ Size(<<p>>) = p.len
         /\ IsTruncated(<<p>>) <=> p = Marker
         /\ PagesIn(<<p>>) = IF p.what = "page" THEN {p.page} ELSE {}
  <1> DEFINE t == <<p>>
  <1>1. Len(t) = 1 /\ DOMAIN t = {1} /\ t[1] = p OBVIOUS
  <1>2. TextOf(t, P)
    <2> DEFINE X == {p}
    <2>1. t \in Seq(X) /\ \A q \in X : IsPiece(q, P) OBVIOUS
    <2> HIDE DEF X, t
    <2> QED BY <2>1, TextFrom
  <1> HIDE DEF t
  <1>3. PICK e : EndsOf(e, t) BY <1>2, SizeIs
  <1>4. e[1] = Size(t) BY <1>1, <1>2, <1>3, EndsAre
  <1>5. e[0] = 0 /\ e[1] = e[0] + p.len
    <2>1. 1 \in 1..1 /\ 1 - 1 = 0 OBVIOUS
    <2> QED BY <1>1, <1>3, <2>1 DEF EndsOf
  <1>6. Size(t) = p.len BY <1>4, <1>5 DEF IsPiece
  <1>7. IsTruncated(t) <=> p = Marker BY <1>1 DEF IsTruncated
  <1>8. PagesIn(t) = IF p.what = "page" THEN {p.page} ELSE {} BY <1>1 DEF PagesIn
  <1> QED BY <1>2, <1>6, <1>7, <1>8 DEF t

LEMMA SizeOfMore ==
  ASSUME NEW t, NEW p, NEW P, TextOf(t, P), IsPiece(p, P)
  PROVE  /\ TextOf(Append(t, p), P) /\ Size(Append(t, p)) = Size(t) + p.len
         /\ IsTruncated(Append(t, p)) <=> IsTruncated(t) \/ p = Marker
         /\ PagesIn(Append(t, p)) = PagesIn(t) \cup (IF p.what = "page" THEN {p.page} ELSE {})
         /\ \A n : MarkedWithin(t, n) => MarkedWithin(Append(t, p), n)
  <1> DEFINE u == <<p>>
  <1>1. Append(t, p) = t \o u
    <2> DEFINE X == Range(t) \cup {p}
    <2>1. t \in Seq(X) /\ p \in X
      <3>1. t \in Seq(Range(t)) BY DEF TextOf
      <3> QED BY <3>1
    <2> HIDE DEF X
    <2> QED BY <2>1
  <1>2. /\ TextOf(u, P) /\ Size(u) = p.len
        /\ IsTruncated(u) <=> p = Marker
        /\ PagesIn(u) = IF p.what = "page" THEN {p.page} ELSE {}
    BY SizeOfOne
  <1> HIDE DEF u
  <1>3. /\ Size(t \o u) = Size(t) + Size(u)
        /\ IsTruncated(t \o u) <=> IsTruncated(t) \/ IsTruncated(u)
        /\ PagesIn(t \o u) = PagesIn(t) \cup PagesIn(u)
        /\ \A n : MarkedWithin(t, n) => MarkedWithin(t \o u, n)
    BY <1>2, SizeOfBoth
  <1>4. TextOf(t \o u, P) BY <1>2, MoreText
  <1> QED BY <1>1, <1>2, <1>3, <1>4

LEMMA SizeOfMarked ==
  ASSUME NEW t, NEW P, TextOf(t, P)
  PROVE  /\ TextOf(MarkTruncated(t), P) /\ Size(MarkTruncated(t)) = Size(t) + Cfg.marker
         /\ IsTruncated(MarkTruncated(t))
         /\ PagesIn(MarkTruncated(t)) = PagesIn(t)
         /\ MarkedWithin(MarkTruncated(t), Size(t) + Cfg.marker)
         /\ \A n : MarkedWithin(t, n) => MarkedWithin(MarkTruncated(t), n)
  <1>1. IsPiece(Marker, P) /\ Marker.what # "page" /\ Marker.len = Cfg.marker
    <2>1. "marker" # "page" OBVIOUS
    <2> QED BY <2>1, LimitsAre, PieceOf DEF Marker, Piece
  <1> DEFINE m == Marker
             u == Append(t, m)
  <1>2. u = MarkTruncated(t) /\ m = Marker BY DEF MarkTruncated
  <1> HIDE DEF m
  <1>3. /\ TextOf(u, P) /\ Size(u) = Size(t) + m.len
        /\ IsTruncated(u) <=> IsTruncated(t) \/ m = Marker
        /\ PagesIn(u) = PagesIn(t) \cup (IF m.what = "page" THEN {m.page} ELSE {})
        /\ \A n : MarkedWithin(t, n) => MarkedWithin(u, n)
    BY <1>1, <1>2, SizeOfMore
  <1> HIDE DEF u
  <1>4. Size(u) \in Nat BY <1>3, SizeIs
  <1>5. MarkedWithin(u, Size(u)) BY <1>2, <1>3, <1>4, MarkedIs
  <1> QED BY <1>1, <1>2, <1>3, <1>5

\* Texts in a row.
Row(ts, n) == ts = [i \in 1..n |-> ts[i]]

LEMMA JoinedTexts ==
  ASSUME NEW n \in Nat, NEW ts, Row(ts, n), NEW P,
         \A i \in 1..n : TextOf(ts[i], P)
  PROVE  TextOf(Joined(ts), P)
  <1> DEFINE X == UNION {Range(ts[i]) : i \in 1..n}
  <1>1. \A i \in 1..n : ts[i] \in Seq(Range(ts[i])) BY DEF TextOf
  <1>2. \A i \in 1..n : Range(ts[i]) \subseteq X OBVIOUS
  <1>3. \A p \in X : IsPiece(p, P) BY DEF TextOf
  <1> HIDE DEF X
  <1>4. \A i \in 1..n : ts[i] \in Seq(X) BY <1>1, <1>2
  <1>5. ts \in Seq(Seq(X)) BY <1>4 DEF Row
  <1> DEFINE j == Joined(ts)
  <1>6. j \in Seq(X) BY <1>5, JoinedOf
  <1> HIDE DEF j
  <1>7. TextOf(j, P) BY <1>3, <1>6, TextFrom
  <1> QED BY <1>7 DEF j

\* Their lengths add up to that of the whole.
SumsOf(g, ts, n) ==
    /\ g[0] = 0 /\ g[n] = Size(Joined(ts))
    /\ \A i \in 1..n : g[i] = g[i - 1] + Size(ts[i]) /\ g[i - 1] \in Nat

LEMMA JoinedSizes ==
  ASSUME NEW n \in Nat, NEW ts, Row(ts, n), NEW P,
         \A i \in 1..n : TextOf(ts[i], P)
  PROVE  /\ \E g : SumsOf(g, ts, n)
         /\ \A i \in 1..n : /\ Size(ts[i]) <= Size(Joined(ts))
                            /\ PagesIn(ts[i]) \subseteq PagesIn(Joined(ts))
                            /\ IsTruncated(ts[i]) => IsTruncated(Joined(ts))
  <1>1. Len(ts) = n BY DEF Row
  <1>2. PICK f : /\ f[0] = <<>> /\ \A i \in 1..n : i - 1 \in 0..n /\ f[i] = f[i - 1] \o ts[i]
                 /\ Joined(ts) = f[n]
    BY <1>1, JoinedSteps
  <1> DEFINE T == {i \in 0..n : TextOf(f[i], P)}
             g == [i \in 0..n |-> Size(f[i])]
  <1>3. 0 \in T
    <2>1. TextOf(<<>>, P) BY NoText
    <2> QED BY <1>2, <2>1
  <1>4. ASSUME NEW i \in 1..n, i - 1 \in T PROVE i \in T
    <2>1. TextOf(f[i - 1] \o ts[i], P) BY <1>4, MoreText
    <2>2. i \in 0..n OBVIOUS
    <2> QED BY <1>2, <2>1, <2>2
  <1> HIDE DEF T
  <1>5. \A i \in 0..n : i \in T BY <1>3, <1>4, UpTo
  <1>6. \A i \in 0..n : TextOf(f[i], P) BY <1>5 DEF T
  <1>7. \A i \in 0..n : g[i] = Size(f[i]) /\ g[i] \in Nat BY <1>6, SizeIs
  <1> HIDE DEF g
  <1>8. ASSUME NEW i \in 1..n
        PROVE  /\ g[i] = g[i - 1] + Size(ts[i]) /\ g[i - 1] \in Nat /\ Size(ts[i]) \in Nat
               /\ PagesIn(f[i]) = PagesIn(f[i - 1]) \cup PagesIn(ts[i])
               /\ IsTruncated(f[i]) <=> IsTruncated(f[i - 1]) \/ IsTruncated(ts[i])
    <2> DEFINE a == f[i - 1]
               b == ts[i]
    <2>1. i \in 0..n /\ i - 1 \in 0..n OBVIOUS
    <2>2. TextOf(a, P) /\ TextOf(b, P) /\ f[i] = a \o b BY <1>2, <1>6, <2>1
    <2>3. g[i] = Size(f[i]) /\ g[i - 1] = Size(a) /\ g[i - 1] \in Nat BY <1>7, <2>1
    <2> HIDE DEF a, b
    <2>4. /\ Size(a \o b) = Size(a) + Size(b)
          /\ IsTruncated(a \o b) <=> IsTruncated(a) \/ IsTruncated(b)
          /\ PagesIn(a \o b) = PagesIn(a) \cup PagesIn(b)
      BY <2>2, SizeOfBoth
    <2>5. Size(b) \in Nat BY <2>2, SizeIs
    <2> QED BY <2>2, <2>3, <2>4, <2>5 DEF a, b
  <1>9. g[0] = 0
    <2>1. Size(<<>>) = 0 BY EmptySize
    <2>2. 0 \in 0..n OBVIOUS
    <2> QED BY <1>2, <1>7, <2>1, <2>2
  <1>10. g[n] = Size(Joined(ts)) BY <1>2, <1>7
  <1>11. ASSUME NEW k \in 1..n
         PROVE  /\ Size(ts[k]) <= Size(Joined(ts))
                /\ PagesIn(ts[k]) \subseteq PagesIn(Joined(ts))
                /\ IsTruncated(ts[k]) => IsTruncated(Joined(ts))
    <2> DEFINE Has(i) == /\ Size(ts[k]) <= g[i] /\ PagesIn(ts[k]) \subseteq PagesIn(f[i])
                         /\ IsTruncated(ts[k]) => IsTruncated(f[i])
               U == {i \in 0..n : i >= k => Has(i)}
    <2>1. 0 \in U OBVIOUS
    <2>2. ASSUME NEW i \in 1..n, i - 1 \in U PROVE i \in U
      <3>1. CASE i < k
        <4>1. i \in 0..n OBVIOUS
        <4> QED BY <3>1, <4>1
      <3>2. CASE i = k
        <4>1. Has(k) BY <1>8
        <4> HIDE DEF Has
        <4> QED BY <3>2, <4>1
      <3>3. CASE i > k
        <4>1. Has(i - 1) BY <2>2, <3>3
        <4>2. Size(ts[k]) \in Nat BY <1>8
        <4>3. /\ g[i] = g[i - 1] + Size(ts[i]) /\ g[i - 1] \in Nat /\ Size(ts[i]) \in Nat
              /\ PagesIn(f[i]) = PagesIn(f[i - 1]) \cup PagesIn(ts[i])
              /\ IsTruncated(f[i]) <=> IsTruncated(f[i - 1]) \/ IsTruncated(ts[i])
          BY <1>8
        <4>4. Size(ts[k]) <= g[i] BY <4>1, <4>2, <4>3
        <4>5. Has(i) BY <4>1, <4>3, <4>4
        <4> HIDE DEF Has
        <4>6. i \in 0..n OBVIOUS
        <4> QED BY <4>5, <4>6
      <3> QED BY <3>1, <3>2, <3>3
    <2> HIDE DEF U
    <2>3. \A i \in 0..n : i \in U BY <2>1, <2>2, UpTo
    <2>4. Has(n)
      <3>1. n \in U BY <2>3
      <3> QED BY <3>1 DEF U
    <2> QED BY <1>2, <1>10, <2>4
  <1>12. SumsOf(g, ts, n) BY <1>8, <1>9, <1>10 DEF SumsOf
  <1> QED BY <1>11, <1>12

\* Texts that are longer, one by one, are longer together.
LEMMA JoinedLonger ==
  ASSUME NEW n \in Nat, NEW P,
         NEW ts, Row(ts, n), \A i \in 1..n : TextOf(ts[i], P),
         NEW us, Row(us, n), \A i \in 1..n : TextOf(us[i], P),
         \A i \in 1..n : Size(ts[i]) <= Size(us[i])
  PROVE  Size(Joined(ts)) <= Size(Joined(us))
  <1>1. PICK g : SumsOf(g, ts, n) BY JoinedSizes
  <1>2. PICK h : SumsOf(h, us, n) BY JoinedSizes
  <1>3. \A i \in 1..n : Size(ts[i]) \in Nat /\ Size(us[i]) \in Nat BY SizeIs
  <1> DEFINE T == {i \in 0..n : g[i] <= h[i]}
  <1>4. 0 \in T BY <1>1, <1>2 DEF SumsOf
  <1>5. ASSUME NEW i \in 1..n, i - 1 \in T PROVE i \in T
    <2>1. i \in 0..n OBVIOUS
    <2>2. g[i - 1] <= h[i - 1] BY <1>5
    <2>3. g[i] <= h[i] BY <1>1, <1>2, <1>3, <2>2 DEF SumsOf
    <2> QED BY <2>1, <2>3
  <1> HIDE DEF T
  <1>6. \A i \in 0..n : i \in T BY <1>4, <1>5, UpTo
  <1>7. n \in T BY <1>6
  <1> QED BY <1>1, <1>2, <1>7 DEF T, SumsOf

\* Cutting a text that is too long, piece by piece.
LEMMA CutSteps ==
  ASSUME NEW text, Len(text) \in Nat, NEW room, ~(Size(text) <= room)
  PROVE  \E f : /\ f[0] = [room |-> room, text |-> <<>>]
                /\ \A i \in 1..Len(text) : f[i] =
                     LET a == f[i - 1]
                         p == text[i]
                     IN  IF a.room <= 0 THEN a
                         ELSE [room |-> a.room - p.len,
                               text |-> Append(a.text, [p EXCEPT !.len = Min({@, a.room})])]
                /\ Cut(text, room) = f[Len(text)].text
  <1> DEFINE n == Len(text)
             base == [room |-> room, text |-> <<>>]
             op(a, p) == IF a.room <= 0 THEN a
                         ELSE [room |-> a.room - p.len,
                               text |-> Append(a.text, [p EXCEPT !.len = Min({@, a.room})])]
             E(g) == [i \in 0..n |->
                        IF i = 0 THEN base ELSE At(g[i - 1], LAMBDA a : op(a, text[i]))]
             f == CHOOSE g : g = E(g)
  <1>100. n \in Nat OBVIOUS
  <1>1. Cut(text, room) = f[n].text BY DEF Cut, Fold
  <1> HIDE DEF op, base, n
  <1> DEFINE H(m, h) == h = [i \in 0..m |-> IF i = 0 THEN base ELSE op(h[i - 1], text[i])]
             T == {m \in 0..n : \E h : H(m, h)}
  <1>101. 0 \in T
    <2>1. H(0, [i \in 0..0 |-> base]) OBVIOUS
    <2> HIDE DEF H
    <2> QED BY <1>100, <2>1
  <1>102. ASSUME NEW m \in 1..n, m - 1 \in T PROVE m \in T
    <2>1. m \in 0..n BY <1>100
    <2>2. PICK h : H(m - 1, h) BY <1>102
    <2> DEFINE g == [i \in 0..m |-> IF i = m THEN op(h[m - 1], text[m]) ELSE h[i]]
    <2>3. ASSUME NEW i \in 0..m PROVE g[i] = IF i = 0 THEN base ELSE op(g[i - 1], text[i])
      <3>1. CASE i = m
        <4>1. m - 1 \in 0..m /\ m # 0 /\ m - 1 # m BY <1>100
        <4> QED BY <3>1, <4>1
      <3>2. CASE i # m
        <4>1. i \in 0..(m - 1) BY <1>100, <3>2
        <4>2. i # 0 => i - 1 \in 0..m /\ i - 1 # m BY <1>100, <3>2
        <4>3. g[i] = h[i] /\ (i # 0 => g[i - 1] = h[i - 1]) BY <3>2, <4>2
        <4>4. h[i] = IF i = 0 THEN base ELSE op(h[i - 1], text[i]) BY <2>2, <4>1
        <4> QED BY <4>3, <4>4
      <3> QED BY <3>1, <3>2
    <2>4. H(m, g) BY <2>3
    <2> HIDE DEF g, H
    <2> QED BY <2>1, <2>4
  <1>103. PICK h : H(n, h)
    <2> HIDE DEF T
    <2>1. \A m \in 1..n : m - 1 \in T => m \in T BY <1>102
    <2>2. \A m \in 0..n : m \in T BY <1>100, <1>101, <2>1, UpTo
    <2>3. n \in T BY <1>100, <2>2
    <2> QED BY <2>3 DEF T
  <1>104. \A g, i : At(g[i - 1], LAMBDA a : op(a, text[i])) = op(g[i - 1], text[i])
    BY Zenon DEF At
  <1>105. h = E(h) BY <1>103, <1>104
  <1> HIDE DEF E, H, T
  <1>106. f = E(f) BY <1>105, Zenon
  <1> HIDE DEF f
  <1>107. \A i \in 0..n : f[i] = IF i = 0 THEN base ELSE op(f[i - 1], text[i]) BY <1>104, <1>106 DEF E
  <1>108. f[0] = base /\ \A i \in 1..n : i - 1 \in 0..n /\ f[i] = op(f[i - 1], text[i])
    <2>1. 0 \in 0..n /\ \A i \in 1..n : i \in 0..n /\ i # 0 /\ i - 1 \in 0..n BY <1>100
    <2> QED BY <1>107, <2>1
  <1> HIDE DEF E, f
  <1>2. \A i \in 1..n : f[i] = op(f[i - 1], text[i]) BY <1>108
  <1> QED BY <1>1, <1>2, <1>108 DEF op, base, n

\* What is left of a text fits, keeps its first piece, and keeps a marker that
\* was within its length.
LEMMA CutText ==
  ASSUME NEW text, NEW P, TextOf(text, P), NEW room \in Int
  PROVE  /\ TextOf(Cut(text, room), P)
         /\ Size(text) <= room => Cut(text, room) = text
         /\ room \in Nat => Size(Cut(text, room)) <= room
         /\ MarkedWithin(text, room) => IsTruncated(Cut(text, room))
         /\ room > 0 /\ text # <<>> =>
              \E i \in DOMAIN Cut(text, room) : /\ Cut(text, room)[i].what = text[1].what
                                                /\ Cut(text, room)[i].page = text[1].page
  <1> DEFINE n == Len(text)
             Heads(t) == \E i \in DOMAIN t : t[i].what = text[1].what /\ t[i].page = text[1].page
  <1>1. n \in Nat /\ DOMAIN text = 1..n /\ \A i \in 1..n : IsPiece(text[i], P) BY TextsAre
  <1>2. Size(text) \in Nat BY SizeIs
  <1>3. CASE Size(text) <= room
    <2>1. Cut(text, room) = text BY <1>3 DEF Cut
    <2>2. MarkedWithin(text, room) => IsTruncated(text) BY MarkedIs
    <2>3. text # <<>> => 1 \in DOMAIN text
      <3>1. text = <<>> \/ n # 0 BY DEF TextOf
      <3> QED BY <1>1, <3>1
    <2> QED BY <1>3, <2>1, <2>2, <2>3
  <1>4. CASE ~(Size(text) <= room)
    <2>1. PICK f : /\ f[0] = [room |-> room, text |-> <<>>]
                   /\ \A i \in 1..n : f[i] =
                        LET a == f[i - 1]
                            p == text[i]
                        IN  IF a.room <= 0 THEN a
                            ELSE [room |-> a.room - p.len,
                                  text |-> Append(a.text, [p EXCEPT !.len = Min({@, a.room})])]
                   /\ Cut(text, room) = f[n].text
      BY <1>1, <1>4, CutSteps
    <2>2. PICK e : EndsOf(e, text) BY SizeIs
    <2>3. /\ e[0] = 0 /\ \A i \in 1..n : e[i] = e[i - 1] + text[i].len
          /\ \A i \in 0..n : e[i] \in Nat
      BY <2>2, EndsAre DEF EndsOf
    <2> HIDE DEF n
    <2> DEFINE t(i) == f[i].text
               r(i) == f[i].room
               Marked(i) == \E k \in 1..i : text[k] = Marker /\ e[k] <= room
               Good(i) == /\ TextOf(t(i), P) /\ r(i) \in Int /\ r(i) >= room - e[i]
                          /\ room \in Nat => Size(t(i)) + (IF r(i) > 0 THEN r(i) ELSE 0) = room
                          /\ Marked(i) => IsTruncated(t(i))
                          /\ room > 0 /\ i # 0 => Heads(t(i))
               T == {i \in 0..n : Good(i)}
    <2>4. 0 \in T
      <3>1. t(0) = <<>> /\ r(0) = room BY <2>1
      <3>2. TextOf(<<>>, P) BY NoText
      <3>3. Size(<<>>) = 0 BY EmptySize
      <3>4. ~Marked(0) OBVIOUS
      <3>5. 0 \in 0..n BY <1>1
      <3> HIDE DEF Marked, t, r
      <3>6. Good(0) BY <2>3, <3>1, <3>2, <3>3, <3>4
      <3> HIDE DEF Good
      <3> QED BY <3>5, <3>6
    <2>5. ASSUME NEW i \in 1..n, i - 1 \in T PROVE i \in T
      <3> DEFINE p == text[i]
                 a == t(i - 1)
                 s == r(i - 1)
                 len == Min({p.len, s})
                 q == [p EXCEPT !.len = len]
      <3>1. i \in 0..n /\ i - 1 \in 0..n /\ i # 0 BY <1>1
      <3>2. Good(i - 1) BY <2>5
      <3>3. /\ TextOf(a, P) /\ s \in Int /\ s >= room - e[i - 1]
            /\ room \in Nat => Size(a) + (IF s > 0 THEN s ELSE 0) = room
            /\ Marked(i - 1) => IsTruncated(a)
            /\ room > 0 /\ i - 1 # 0 => Heads(a)
        BY <3>2
      <3>4. e[i] = e[i - 1] + p.len /\ e[i] \in Nat /\ e[i - 1] \in Nat BY <2>3, <3>1
      <3>5. IsPiece(p, P) /\ p.len \in Nat BY <1>1 DEF IsPiece
      <3>6. Marked(i) => Marked(i - 1) \/ (p = Marker /\ e[i] <= room)
        <4>1. \A k \in 1..i : k \in 1..(i - 1) \/ k = i BY <1>1
        <4> QED BY <4>1
      <3>7. p = Marker /\ e[i] <= room => s >= p.len /\ s > 0
        <4>1. Marker.len = Cfg.marker BY DEF Marker, Piece
        <4> HIDE DEF p, s
        <4> QED BY <3>3, <3>4, <3>5, <4>1, LimitsAre
      <3>8. Size(a) \in Nat BY <3>3, SizeIs
      <3>9. CASE s <= 0
        <4>1. f[i] = f[i - 1] BY <2>1, <3>9
        <4>2. t(i) = a /\ r(i) = s BY <4>1
        <4>3. room > 0 => i - 1 # 0
          <5>1. r(0) = room BY <2>1
          <5> QED BY <3>9, <5>1
        <4> HIDE DEF t, r, a, s, p, Marked, Heads
        <4>4. s >= room - e[i] BY <3>3, <3>4, <3>5
        <4>5. Marked(i) => IsTruncated(a) BY <3>3, <3>6, <3>7, <3>9
        <4>6. Good(i) BY <3>3, <3>9, <4>2, <4>3, <4>4, <4>5
        <4> HIDE DEF Good
        <4> QED BY <3>1, <4>6
      <3>10. CASE ~(s <= 0)
        <4>1. f[i] = [room |-> s - p.len, text |-> Append(a, q)] BY <2>1, <3>10
        <4>2. t(i) = Append(a, q) /\ r(i) = s - p.len BY <4>1
        <4>3. len = IF p.len <= s THEN p.len ELSE s BY <3>3, <3>5, MinOfTwo
        <4>4. len \in Nat
          <5> HIDE DEF len, s, p
          <5> QED BY <3>3, <3>5, <3>10, <4>3
        <4>5. IsPiece(q, P) /\ q.what = p.what /\ q.page = p.page /\ q.len = len
          <5> HIDE DEF len, p
          <5> QED BY <3>5, <4>4 DEF IsPiece
        <4>6. p = Marker /\ p.len <= s => q = Marker
          <5>1. p.len <= s => q = [p EXCEPT !.len = p.len] BY <4>3
          <5> HIDE DEF q, len, s, p
          <5> QED BY <3>5, <5>1 DEF IsPiece
        <4> HIDE DEF q, len
        <4>7. /\ TextOf(Append(a, q), P) /\ Size(Append(a, q)) = Size(a) + q.len
              /\ IsTruncated(Append(a, q)) <=> IsTruncated(a) \/ q = Marker
          <5> HIDE DEF a
          <5> QED BY <3>3, <4>5, SizeOfMore
        <4>8. room > 0 => Heads(Append(a, q))
          <5>1. Len(a) \in Nat /\ DOMAIN a = 1..Len(a) BY <3>3, TextsAre
          <5>2. a \in Seq(Range(a) \cup {q}) /\ q \in Range(a) \cup {q}
            <6>1. a \in Seq(Range(a)) BY <3>3 DEF TextOf
            <6> QED BY <6>1
          <5> DEFINE X == Range(a) \cup {q}
                     b == Append(a, q)
          <5> HIDE DEF X, a
          <5>3. /\ Len(a) + 1 \in DOMAIN b /\ b[Len(a) + 1] = q
                /\ \A k \in DOMAIN a : k \in DOMAIN b /\ b[k] = a[k]
            BY <5>1, <5>2 DEF X
          <5> HIDE DEF b
          <5>4. CASE i = 1
            <6>1. q.what = text[1].what /\ q.page = text[1].page BY <4>5, <5>4
            <6> QED BY <5>3, <6>1 DEF b
          <5>5. CASE i # 1
            <6>1. i - 1 # 0 BY <5>5
            <6> QED BY <3>3, <5>3, <6>1 DEF b
          <5> QED BY <5>4, <5>5
        <4> DEFINE b == Append(a, q)
        <4> HIDE DEF t, r, a, s, p, b, Marked, Heads
        <4>9. s - p.len \in Int /\ s - p.len >= room - e[i] BY <3>3, <3>4, <3>5
        <4>10. Marked(i) => IsTruncated(b) BY <3>3, <3>6, <3>7, <4>6, <4>7 DEF b
        <4>11. room \in Nat => Size(b) + (IF s - p.len > 0 THEN s - p.len ELSE 0) = room
          BY <3>3, <3>5, <3>8, <3>10, <4>3, <4>5, <4>7 DEF b
        <4>12. t(i) = b /\ TextOf(b, P) /\ (room > 0 => Heads(b)) BY <4>2, <4>7, <4>8 DEF b
        <4>13. Good(i) BY <4>2, <4>9, <4>10, <4>11, <4>12
        <4> HIDE DEF Good
        <4> QED BY <3>1, <4>13
      <3> QED BY <3>9, <3>10
    <2> HIDE DEF T
    <2>6. \A i \in 0..n : i \in T BY <1>1, <2>4, <2>5, UpTo
    <2>7. Good(n)
      <3>1. n \in T BY <1>1, <2>6
      <3> QED BY <3>1 DEF T
    <2> DEFINE c == Cut(text, room)
    <2>8. t(n) = c BY <2>1
    <2> HIDE DEF c
    <2>9. /\ TextOf(c, P) /\ (Marked(n) => IsTruncated(c)) /\ (room > 0 /\ n # 0 => Heads(c))
          /\ room \in Nat => Size(c) + (IF r(n) > 0 THEN r(n) ELSE 0) = room /\ r(n) \in Int
      BY <2>7, <2>8
    <2>10. MarkedWithin(text, room) => Marked(n)
      <3> SUFFICES ASSUME MarkedWithin(text, room) PROVE Marked(n) OBVIOUS
      <3>1. PICK g : EndsOf(g, text) /\ \E i \in DOMAIN text : text[i] = Marker /\ g[i] <= room
        BY DEF MarkedWithin
      <3>2. PICK i \in 1..n : text[i] = Marker /\ g[i] <= room BY <1>1, <3>1
      <3>3. g[i] = e[i] BY <2>2, <3>1, EndsSame DEF n
      <3> QED BY <3>2, <3>3
    <2>11. text # <<>> => n # 0 BY DEF TextOf, n
    <2>12. room \in Nat => Size(c) <= room
      <3>1. Size(c) \in Nat BY <2>9, SizeIs
      <3> HIDE DEF r
      <3> QED BY <2>9, <3>1
    <2> QED BY <1>4, <2>9, <2>10, <2>11, <2>12 DEF c
  <1> QED BY <1>3, <1>4

-----------------------------------------------------------------------------
(* The merger lays pages it is given, and cites each it lays.              *)

\* What is counted fits.  A text is as long as what is counted, or has a marker
\* that fits as well; and every page cited is in it.
Counted(a, max) ==
    /\ a.chars <= max
    /\ Size(a.text) = a.chars \/ MarkedWithin(a.text, max)
    /\ a.cited \subseteq PagesIn(a.text)
Laid(a, P, max) ==
    /\ a = [text |-> a.text, cited |-> a.cited, chars |-> a.chars, used |-> a.used,
            full |-> a.full, stop |-> a.stop]
    /\ TextOf(a.text, a.cited) /\ a.cited \subseteq P
    /\ a.chars \in Nat /\ a.used \in Nat
    /\ max \in Nat => Counted(a, max)

LEMMA FlaggedLays ==
  ASSUME NEW P, NEW max, NEW a, Laid(a, P, max)
  PROVE  Laid([a EXCEPT !.full = TRUE], P, max) /\ Laid([a EXCEPT !.stop = TRUE], P, max)
  <1> DEFINE yes == TRUE
             b == [a EXCEPT !.full = yes]
             c == [a EXCEPT !.stop = yes]
  <1> HIDE DEF yes
  <1>1. Laid(b, P, max) BY DEF Laid, Counted
  <1>2. Laid(c, P, max) BY DEF Laid, Counted
  <1> QED BY <1>1, <1>2 DEF yes

\* The text of a page starts with the page.
LEMMA ContentOf ==
  ASSUME NEW r, NEW P, IsResult(r, P), NEW share \in Int
  PROVE  /\ TextOf(Content(r, share), {r.page})
         /\ Content(r, share) # <<>> /\ 1 \in DOMAIN Content(r, share)
         /\ Content(r, share)[1].what = "page" /\ Content(r, share)[1].page = r.page
  <1> DEFINE floor == Max({Cfg.cap_floor, share \div Cfg.page_parts})
             cap == ContentCap(r.score)
             max == Min({cap, floor})
             Is(t) == /\ TextOf(t, {r.page}) /\ t # <<>> /\ 1 \in DOMAIN t
                      /\ t[1].what = "page" /\ t[1].page = r.page
  <1>1. floor \in Nat
    <2> DEFINE part == share \div Cfg.page_parts
    <2>1. part \in Int BY LimitsAre
    <2> HIDE DEF part
    <2>2. Cfg.cap_floor \in Nat BY LimitsAre
    <2>3. Max({Cfg.cap_floor, part}) = IF Cfg.cap_floor >= part THEN Cfg.cap_floor ELSE part
      BY <2>1, <2>2, MaxOfTwo
    <2> QED BY <2>1, <2>2, <2>3 DEF part
  <1>2. cap \in Nat
    <2>1. cap \in {Cfg.cap_top, Cfg.cap_high, Cfg.cap_medium, Cfg.cap_low} BY DEF ContentCap
    <2> HIDE DEF cap
    <2> QED BY <2>1, LimitsAre
  <1> HIDE DEF floor, cap
  <1>3. max \in Nat BY <1>1, <1>2, MinOfTwo
  <1> HIDE DEF max
  <1>4. ASSUME NEW len \in Nat
        PROVE  /\ Is(<<Piece("page", r.page, len)>>)
               /\ Is(MarkTruncated(<<Piece("page", r.page, len)>>))
    <2> DEFINE p == Piece("page", r.page, len)
               t == <<p>>
    <2>1. p.what = "page" /\ p.page = r.page BY DEF Piece
    <2>2. TextOf(t, {r.page}) BY PieceOf
    <2> HIDE DEF p
    <2>3. t \in Seq({p}) /\ t # <<>> /\ t[1] = p /\ Len(t) = 1 OBVIOUS
    <2> HIDE DEF t
    <2>4. TextOf(MarkTruncated(t), {r.page}) BY <2>2, MarkedText
    <2>5. /\ MarkTruncated(t) # <<>> /\ 1 \in DOMAIN MarkTruncated(t)
          /\ MarkTruncated(t)[1] = p
      <3> DEFINE X == {p, Marker}
                 u == Append(t, Marker)
      <3>1. t \in Seq(X) /\ Marker \in X BY <2>3
      <3> HIDE DEF X
      <3>2. u # <<>> /\ 1 \in DOMAIN u /\ u[1] = t[1] BY <2>3, <3>1
      <3> QED BY <2>3, <3>2 DEF MarkTruncated
    <2>6. 1 \in DOMAIN t BY <2>3
    <2> QED BY <2>1, <2>2, <2>3, <2>4, <2>5, <2>6 DEF t, p
  <1> DEFINE short == <<Piece("page", r.page, max)>>
             whole == <<Piece("page", r.page, r.len)>>
  <1>5. Is(whole) /\ Is(short) /\ Is(MarkTruncated(short)) BY <1>3, <1>4 DEF IsResult
  <1>6. Content(r, share) \in {whole, short, MarkTruncated(short)}
    BY DEF Content, SmartTruncate, max, floor, cap
  <1> HIDE DEF short, whole
  <1>7. Is(Content(r, share)) BY <1>5, <1>6
  <1> QED BY <1>7

LEMMA AddPageLays ==
  ASSUME NEW P, NEW max \in Int, NEW a, Laid(a, P, max), NEW r, IsResult(r, P), NEW share \in Int
  PROVE  Laid(AddPage(a, r, share, max), P, max)
  <1> DEFINE content == Content(r, share)
             total   == Cfg.section + Size(content)
             room    == Min({share - a.used, max - a.chars}) - Cfg.section - Cfg.marker
             part    == Cut(content, room)
             rest    == MarkTruncated(part)
             cites   == a.cited \cup {r.page}
             front   == a.text \o <<Section(r)>>
             none    == [a EXCEPT !.full = TRUE]
  <1>1. \/ AddPage(a, r, share, max) = LayWhole(a, r, content) /\ a.chars + total <= max
        \/ AddPage(a, r, share, max) = LayPart(a, r, content, room) /\ room > Cfg.min_room
        \/ AddPage(a, r, share, max) = none
    BY DEF AddPage
  <1>2. /\ TextOf(content, {r.page}) /\ content # <<>> /\ 1 \in DOMAIN content
        /\ content[1].what = "page" /\ content[1].page = r.page
    BY ContentOf
  <1> HIDE DEF content
  <1>3. TextOf(content, cites) BY <1>2, TextsAre
  <1>4. /\ TextOf(a.text, a.cited) /\ a.cited \subseteq P /\ a.chars \in Nat /\ a.used \in Nat
        /\ max \in Nat => Counted(a, max)
        /\ r.page \in P
        /\ a = [text |-> a.text, cited |-> a.cited, chars |-> a.chars, used |-> a.used,
                full |-> a.full, stop |-> a.stop]
    BY DEF Laid, IsResult
  <1>14. a = [text |-> a.text, cited |-> a.cited, chars |-> a.chars, used |-> a.used,
              full |-> a.full, stop |-> a.stop]
    BY DEF Laid
  <1>5. room \in Int /\ room <= max - a.chars - Cfg.section - Cfg.marker
    <2> DEFINE x == share - a.used
               y == max - a.chars
    <2>1. x \in Int /\ y \in Int BY <1>4
    <2>2. room = Min({x, y}) - Cfg.section - Cfg.marker OBVIOUS
    <2> HIDE DEF x, y, room
    <2>3. Min({x, y}) = IF x <= y THEN x ELSE y BY <2>1, MinOfTwo
    <2>4. Cfg.section \in Nat /\ Cfg.marker \in Nat BY LimitsAre
    <2>5. room \in Int /\ room <= y - Cfg.section - Cfg.marker BY <2>1, <2>2, <2>3, <2>4
    <2> QED BY <2>5 DEF y
  <1> HIDE DEF room
  <1>6. /\ TextOf(front, cites) /\ Size(front) = Size(a.text) + Cfg.section
        /\ PagesIn(front) = PagesIn(a.text)
        /\ \A k : MarkedWithin(a.text, k) => MarkedWithin(front, k)
    <2> DEFINE s == <<Section(r)>>
    <2>1. "section" # "page" /\ Section(r).what = "section" /\ Section(r).len = Cfg.section
      BY DEF Section, Piece
    <2>2. IsPiece(Section(r), cites) BY <2>1, LimitsAre, PieceOf DEF Section
    <2>3. TextOf(s, cites) /\ Size(s) = Cfg.section /\ PagesIn(s) = {} BY <2>1, <2>2, SizeOfOne
    <2>4. TextOf(a.text, cites) BY <1>4, TextsAre
    <2> DEFINE t == a.text
    <2> HIDE DEF cites, s, t
    <2>5. TextOf(t, cites) BY <2>4 DEF t
    <2>6. TextOf(t \o s, cites) BY <2>3, <2>5, MoreText
    <2>7. /\ Size(t \o s) = Size(t) + Size(s) /\ PagesIn(t \o s) = PagesIn(t) \cup PagesIn(s)
          /\ \A k : MarkedWithin(t, k) => MarkedWithin(t \o s, k)
      BY <2>3, <2>5, SizeOfBoth
    <2>8. front = t \o s BY DEF t, s
    <2> HIDE DEF front
    <2> QED BY <2>3, <2>6, <2>7, <2>8 DEF t
  <1>7. Size(content) \in Nat /\ Size(a.text) \in Nat BY <1>2, <1>4, SizeIs
  <1>8. /\ TextOf(rest, cites) /\ TextOf(part, {r.page})
        /\ Size(rest) = Size(part) + Cfg.marker /\ PagesIn(rest) = PagesIn(part)
        /\ MarkedWithin(rest, Size(part) + Cfg.marker)
        /\ room \in Nat => Size(part) <= room
        /\ Size(part) \in Nat
    <2>1. TextOf(part, {r.page}) /\ (room \in Nat => Size(part) <= room) BY <1>2, <1>5, CutText
    <2> HIDE DEF part
    <2>2. /\ TextOf(rest, {r.page})
          /\ Size(rest) = Size(part) + Cfg.marker /\ PagesIn(rest) = PagesIn(part)
          /\ MarkedWithin(rest, Size(part) + Cfg.marker)
      BY <2>1, SizeOfMarked
    <2> HIDE DEF rest
    <2>3. TextOf(rest, cites) BY <2>2, TextsAre
    <2> QED BY <2>1, <2>2, <2>3, SizeIs
  <1>9. room > Cfg.min_room => r.page \in PagesIn(part)
    <2> SUFFICES ASSUME room > Cfg.min_room PROVE r.page \in PagesIn(part) OBVIOUS
    <2>1. room > 0 BY <1>5, LimitsAre
    <2>2. \E i \in DOMAIN part : part[i].what = content[1].what /\ part[i].page = content[1].page
      BY <1>2, <1>5, <2>1, CutText
    <2> HIDE DEF part
    <2> QED BY <1>2, <2>2 DEF PagesIn
  <1>10. cites \subseteq P BY <1>4
  <1>11. ASSUME AddPage(a, r, share, max) = LayWhole(a, r, content), a.chars + total <= max
         PROVE  Laid(AddPage(a, r, share, max), P, max)
    <2> DEFINE text == front \o content
               chars == a.chars + total
               used == a.used + total
               b == LayWhole(a, r, content)
    <2>1. b = [a EXCEPT !.text = text, !.cited = cites, !.chars = chars, !.used = used]
      BY DEF LayWhole
    <2> HIDE DEF front, b
    <2>2. TextOf(text, cites) BY <1>3, <1>6, MoreText
    <2>3. /\ Size(text) = Size(front) + Size(content)
          /\ PagesIn(text) = PagesIn(front) \cup PagesIn(content)
          /\ \A k : MarkedWithin(front, k) => MarkedWithin(text, k)
      <3> HIDE DEF cites
      <3> QED BY <1>3, <1>6, SizeOfBoth
    <2>4. r.page \in PagesIn(content) BY <1>2 DEF PagesIn
    <2>5. chars \in Nat /\ used \in Nat BY <1>4, <1>7, LimitsAre
    <2>6. max \in Nat => /\ chars <= max /\ cites \subseteq PagesIn(text)
                         /\ Size(text) = chars \/ MarkedWithin(text, max)
      <3> SUFFICES ASSUME max \in Nat
                   PROVE  /\ chars <= max /\ cites \subseteq PagesIn(text)
                          /\ Size(text) = chars \/ MarkedWithin(text, max)
        OBVIOUS
      <3>1. /\ Size(a.text) = a.chars \/ MarkedWithin(a.text, max)
            /\ a.cited \subseteq PagesIn(a.text)
        BY <1>4 DEF Counted
      <3> HIDE DEF text
      <3>2. cites \subseteq PagesIn(text) BY <1>6, <2>3, <2>4, <3>1
      <3>3. CASE Size(a.text) = a.chars
        <4>1. Size(text) = chars BY <1>4, <1>6, <1>7, <2>3, <3>3, LimitsAre
        <4> QED BY <1>11, <3>2, <4>1
      <3>4. CASE MarkedWithin(a.text, max)
        <4>1. MarkedWithin(text, max) BY <1>6, <2>3, <3>4
        <4> QED BY <1>11, <3>2, <4>1
      <3> QED BY <3>1, <3>3, <3>4
    <2> HIDE DEF text, chars, used, cites
    <2>7. b.text = text /\ b.cited = cites /\ b.chars = chars /\ b.used = used
      BY <1>14, <2>1
    <2>8. b = [text |-> b.text, cited |-> b.cited, chars |-> b.chars, used |-> b.used,
               full |-> b.full, stop |-> b.stop]
      BY <1>14, <2>1
    <2>9. Laid(b, P, max) BY <1>10, <2>2, <2>5, <2>6, <2>7, <2>8 DEF Laid, Counted
    <2> QED BY <1>11, <2>9 DEF b
  <1>12. ASSUME AddPage(a, r, share, max) = LayPart(a, r, content, room), room > Cfg.min_room
         PROVE  Laid(AddPage(a, r, share, max), P, max)
    <2> DEFINE text == front \o rest
               yes == TRUE
               b == LayPart(a, r, content, room)
    <2>1. b = [a EXCEPT !.text = text, !.cited = cites, !.full = yes] BY DEF LayPart
    <2> HIDE DEF front, rest, part, b
    <2>2. TextOf(text, cites) BY <1>6, <1>8, MoreText
    <2>3. /\ PagesIn(text) = PagesIn(front) \cup PagesIn(rest)
          /\ \A k : MarkedWithin(front, k) => MarkedWithin(text, k)
          /\ \A k \in Int : MarkedWithin(rest, k) => MarkedWithin(text, Size(front) + k)
      <3> HIDE DEF cites
      <3> QED BY <1>6, <1>8, SizeOfBoth
    <2>4. max \in Nat => /\ a.chars <= max /\ cites \subseteq PagesIn(text)
                         /\ MarkedWithin(text, max)
      <3> SUFFICES ASSUME max \in Nat
                   PROVE  /\ a.chars <= max /\ cites \subseteq PagesIn(text)
                          /\ MarkedWithin(text, max)
        OBVIOUS
      <3>1. /\ Size(a.text) = a.chars \/ MarkedWithin(a.text, max)
            /\ a.cited \subseteq PagesIn(a.text) /\ a.chars <= max
        BY <1>4 DEF Counted
      <3> HIDE DEF text
      <3>2. cites \subseteq PagesIn(text) BY <1>6, <1>8, <1>9, <1>12, <2>3, <3>1
      <3>3. CASE Size(a.text) = a.chars
        <4> DEFINE k == Size(part) + Cfg.marker
                   l == Size(front) + k
        <4>1. room \in Nat BY <1>5, <1>12, LimitsAre
        <4>2. k \in Int /\ l \in Int /\ l <= max
          BY <1>4, <1>5, <1>6, <1>7, <1>8, <3>3, <4>1, LimitsAre
        <4>3. MarkedWithin(text, l) BY <1>8, <2>3, <4>2
        <4> HIDE DEF k, l, cites
        <4>4. MarkedWithin(text, max) BY <2>2, <4>2, <4>3, MarkedIs DEF text
        <4> QED BY <3>1, <3>2, <4>4
      <3>4. CASE MarkedWithin(a.text, max)
        <4>1. MarkedWithin(text, max) BY <1>6, <2>3, <3>4
        <4> QED BY <3>1, <3>2, <4>1
      <3> QED BY <3>1, <3>3, <3>4
    <2> HIDE DEF text, cites, yes
    <2>5. b.text = text /\ b.cited = cites /\ b.chars = a.chars /\ b.used = a.used
      BY <1>14, <2>1
    <2>6. b = [text |-> b.text, cited |-> b.cited, chars |-> b.chars, used |-> b.used,
               full |-> b.full, stop |-> b.stop]
      BY <1>14, <2>1
    <2>7. Laid(b, P, max) BY <1>4, <1>10, <2>2, <2>4, <2>5, <2>6 DEF Laid, Counted
    <2> QED BY <1>12, <2>7 DEF b
  <1>13. Laid(none, P, max) BY FlaggedLays
  <1> HIDE DEF none
  <1> QED BY <1>1, <1>11, <1>12, <1>13

LEMMA AddDocLays ==
  ASSUME NEW P, NEW max \in Int, NEW a, Laid(a, P, max), NEW rs, ResultsIn(rs, P),
         NEW share \in Int
  PROVE  Laid(AddDoc(a, rs, share, max), P, max)
  <1> DEFINE ordered == Ordered(rs)
             n == Len(ordered)
             header == Piece("header", <<rs[1].page[1]>>, Cfg.header)
             base == [a EXCEPT !.text = Append(@, header),
                               !.chars = @ + Cfg.header, !.used = 0, !.full = FALSE]
             op(b, r) == AddPage(b, r, share, max)
             stopped == [a EXCEPT !.stop = TRUE]
             E(g) == [i \in 0..n |->
                        IF i = 0 THEN base ELSE At(g[i - 1], LAMBDA b : op(b, ordered[i]))]
             f == CHOOSE g : g = E(g)
  <1>1. \/ AddDoc(a, rs, share, max) = stopped
        \/ AddDoc(a, rs, share, max) = f[n] /\ ~(a.chars + Cfg.header > max)
    BY DEF AddDoc, Fold
  <1>2. Laid(stopped, P, max) BY FlaggedLays
  <1>3. ResultsIn(ordered, P)
    <2> DEFINE boosted == Boosted(rs, Rules.merge)
               ranked == Ranked(boosted)
               F(g) == Ranked([i \in DOMAIN g |-> Penalised(g[i])])
               g == AboveThreshold(ranked)
               k == [i \in DOMAIN g |-> Penalised(g[i])]
    <2>1. ordered = F(g)
      <3>1. ordered = At(g, F) BY DEF Ordered
      <3> HIDE DEF F, g
      <3> QED BY <3>1, Zenon DEF At
    <2>2. ResultsIn(ranked, P)
      <3>1. ResultsIn(boosted, P) BY BoostedResults
      <3> HIDE DEF boosted
      <3> QED BY <3>1, RankedResults
    <2> HIDE DEF ranked
    <2>3. ResultsIn(g, P)
      <3>1. \A I : ResultsIn(Keep(ranked, I), P) BY <2>2, FewerResults
      <3> QED BY <3>1 DEF AboveThreshold
    <2> HIDE DEF g
    <2>4. \A i \in DOMAIN g : IsResult(g[i], P) BY <2>3, ResultsAre
    <2>5. \A r : IsResult(r, P) => IsResult(Penalised(r), {r.page})
      <3> TAKE r
      <3> DEFINE score == r.score - (IF r.page \in LowValue THEN 300 ELSE 0)
                                  - (IF r.page \in Described THEN 1500 ELSE 0)
      <3>1. Penalised(r) = [r EXCEPT !.score = score] BY DEF Penalised
      <3> HIDE DEF score
      <3> QED BY <3>1 DEF IsResult
    <2>6. k = [i \in DOMAIN g |-> k[i]] /\ \A i \in DOMAIN g : IsResult(k[i], {g[i].page})
      BY <2>4, <2>5
    <2>7. ordered = Ranked(k) BY <2>1
    <2> HIDE DEF k, ordered
    <2>8. ResultsIn(k, P) BY <2>3, <2>6, SamePages
    <2> QED BY <2>7, <2>8, RankedResults
  <1> HIDE DEF ordered
  <1>100. n \in Nat BY <1>3, ResultsAre
  <1>4. \A i \in 1..n : IsResult(ordered[i], P) BY <1>3, ResultsAre
  <1>5. ASSUME ~(a.chars + Cfg.header > max) PROVE Laid(base, P, max)
    <2> DEFINE text == Append(a.text, header)
               chars == a.chars + Cfg.header
               no == FALSE
    <2>1. base = [a EXCEPT !.text = text, !.chars = chars, !.used = 0, !.full = no] OBVIOUS
    <2>2. "header" # "page" /\ header.what = "header" /\ header.len = Cfg.header BY DEF Piece
    <2>3. IsPiece(header, a.cited) BY <2>2, LimitsAre, PieceOf
    <2> HIDE DEF header
    <2>4. TextOf(a.text, a.cited) /\ a.chars \in Nat /\ (max \in Nat => Counted(a, max)) BY DEF Laid
    <2>5. /\ TextOf(text, a.cited) /\ Size(text) = Size(a.text) + Cfg.header
          /\ PagesIn(text) = PagesIn(a.text)
          /\ \A k : MarkedWithin(a.text, k) => MarkedWithin(text, k)
      <3> DEFINE u == a.text
      <3>1. TextOf(u, a.cited) BY <2>4
      <3> HIDE DEF u
      <3>2. /\ TextOf(Append(u, header), a.cited)
            /\ Size(Append(u, header)) = Size(u) + header.len
            /\ PagesIn(Append(u, header))
                 = PagesIn(u) \cup (IF header.what = "page" THEN {header.page} ELSE {})
            /\ \A k : MarkedWithin(u, k) => MarkedWithin(Append(u, header), k)
        BY <2>3, <3>1, SizeOfMore
      <3> QED BY <2>2, <3>2 DEF u
    <2> HIDE DEF text
    <2>6. chars \in Nat BY <2>4, LimitsAre
    <2>7. max \in Nat => chars <= max /\ (Size(text) = chars \/ MarkedWithin(text, max))
      BY <1>5, <2>4, <2>5, <2>6, LimitsAre DEF Counted
    <2> HIDE DEF chars, base, no
    <2>8. base.text = text /\ base.cited = a.cited /\ base.chars = chars /\ base.used = 0
      BY <2>1 DEF Laid
    <2>9. base = [text |-> base.text, cited |-> base.cited, chars |-> base.chars,
                  used |-> base.used, full |-> base.full, stop |-> base.stop]
      BY <2>1 DEF Laid
    <2>10. max \in Nat => Counted(base, max) BY <2>4, <2>5, <2>7, <2>8 DEF Counted
    <2> QED BY <2>5, <2>6, <2>8, <2>9, <2>10 DEF Laid
  <1> HIDE DEF op, base, n
  <1> DEFINE H(m, h) == h = [i \in 0..m |-> IF i = 0 THEN base ELSE op(h[i - 1], ordered[i])]
             T == {m \in 0..n : \E h : H(m, h)}
  <1>101. 0 \in T
    <2>1. H(0, [i \in 0..0 |-> base]) OBVIOUS
    <2> HIDE DEF H
    <2> QED BY <1>100, <2>1
  <1>102. ASSUME NEW m \in 1..n, m - 1 \in T PROVE m \in T
    <2>1. m \in 0..n BY <1>100
    <2>2. PICK h : H(m - 1, h) BY <1>102
    <2> DEFINE g == [i \in 0..m |-> IF i = m THEN op(h[m - 1], ordered[m]) ELSE h[i]]
    <2>3. ASSUME NEW i \in 0..m PROVE g[i] = IF i = 0 THEN base ELSE op(g[i - 1], ordered[i])
      <3>1. CASE i = m
        <4>1. m - 1 \in 0..m /\ m # 0 /\ m - 1 # m BY <1>100
        <4> QED BY <3>1, <4>1
      <3>2. CASE i # m
        <4>1. i \in 0..(m - 1) BY <1>100, <3>2
        <4>2. i # 0 => i - 1 \in 0..m /\ i - 1 # m BY <1>100, <3>2
        <4>3. g[i] = h[i] /\ (i # 0 => g[i - 1] = h[i - 1]) BY <3>2, <4>2
        <4>4. h[i] = IF i = 0 THEN base ELSE op(h[i - 1], ordered[i]) BY <2>2, <4>1
        <4> QED BY <4>3, <4>4
      <3> QED BY <3>1, <3>2
    <2>4. H(m, g) BY <2>3
    <2> HIDE DEF g, H
    <2> QED BY <2>1, <2>4
  <1>103. PICK h : H(n, h)
    <2> HIDE DEF T
    <2>1. \A m \in 1..n : m - 1 \in T => m \in T BY <1>102
    <2>2. \A m \in 0..n : m \in T BY <1>100, <1>101, <2>1, UpTo
    <2>3. n \in T BY <1>100, <2>2
    <2> QED BY <2>3 DEF T
  <1>104. \A g, i : At(g[i - 1], LAMBDA b : op(b, ordered[i])) = op(g[i - 1], ordered[i])
    BY Zenon DEF At
  <1>105. h = E(h) BY <1>103, <1>104
  <1> HIDE DEF E, H, T
  <1>106. f = E(f) BY <1>105, Zenon
  <1> HIDE DEF f
  <1>107. \A i \in 0..n : f[i] = IF i = 0 THEN base ELSE op(f[i - 1], ordered[i]) BY <1>104, <1>106 DEF E
  <1>108. f[0] = base /\ \A i \in 1..n : i - 1 \in 0..n /\ f[i] = op(f[i - 1], ordered[i])
    <2>1. 0 \in 0..n /\ \A i \in 1..n : i \in 0..n /\ i # 0 /\ i - 1 \in 0..n BY <1>100
    <2> QED BY <1>107, <2>1
  <1> DEFINE U == {m \in 0..n : Laid(f[m], P, max)}
  <1>6. ~(a.chars + Cfg.header > max) => 0 \in U
    <2>1. 0 \in 0..n BY <1>100
    <2> QED BY <1>5, <1>108, <2>1
  <1>7. \A m \in 1..n : m - 1 \in U => m \in U
    <2> SUFFICES ASSUME NEW m \in 1..n, m - 1 \in U PROVE m \in U OBVIOUS
    <2>1. f[m] = op(f[m - 1], ordered[m]) BY <1>108
    <2>2. Laid(op(f[m - 1], ordered[m]), P, max) BY <1>4, AddPageLays DEF op
    <2>3. m \in 0..n BY <1>100
    <2> QED BY <2>1, <2>2, <2>3
  <1>8. ~(a.chars + Cfg.header > max) => n \in U
    <2> HIDE DEF U
    <2> SUFFICES ASSUME ~(a.chars + Cfg.header > max) PROVE n \in U OBVIOUS
    <2>1. \A m \in 0..n : m \in U BY <1>6, <1>7, <1>100, UpTo
    <2> QED BY <1>100, <2>1
  <1> HIDE DEF stopped
  <1> QED BY <1>1, <1>2, <1>8

LEMMA DocsFinite ==
  ASSUME NEW rs, NEW P, ResultsIn(rs, P)
  PROVE  IsFiniteSet(DocsOf(rs)) /\ Cardinality(DocsOf(rs)) \in Nat
  <1> DEFINE S == DocsOf(rs)
             m == Len(rs)
             g == [i \in 1..m |-> rs[i].page[1]]
  <1>1. m \in Nat /\ DOMAIN rs = 1..m BY ResultsAre
  <1>2. S = {rs[i].page[1] : i \in 1..m} BY <1>1 DEF DocsOf
  <1>3. g \in Surjection(1..m, S) BY <1>2 DEF Surjection
  <1>4. IsFiniteSet(1..m)
    <2>1. 1 \in Int /\ m \in Int BY <1>1
    <2> HIDE DEF m
    <2> QED BY <2>1, FS_Interval
  <1> HIDE DEF S, g, m
  <1>5. IsFiniteSet(S) BY <1>3, <1>4, FS_Surjection
  <1>6. Cardinality(S) \in Nat BY <1>5, FS_CardinalityType
  <1> QED BY <1>5, <1>6 DEF S

\* The results of each document by itself.
LEMMA GroupedIn ==
  ASSUME NEW rs, NEW P, ResultsIn(rs, P)
  PROVE  /\ Len(Grouped(rs)) \in Nat
         /\ \A i \in 1..Len(Grouped(rs)) : ResultsIn(Grouped(rs)[i], P)
  <1> DEFINE S == DocsOf(rs)
             ds == SortedBy(S, {r \in S \X S : First(rs, r[1]) < First(rs, r[2])})
             n == Len(ds)
             F(x) == [i \in DOMAIN x |-> Keep(rs, {j \in DOMAIN rs : rs[j].page[1] = x[i]})]
             k == F(ds)
  <1>1. Grouped(rs) = k
    <2>1. Grouped(rs) = At(ds, F) BY DEF Grouped, Sorted
    <2> HIDE DEF F, ds
    <2> QED BY <2>1, Zenon DEF At
  <1>2. IsFiniteSet(S) BY DocsFinite
  <1> HIDE DEF S
  <1>3. ds \in Seq(S) BY <1>2, SortedByOf
  <1> HIDE DEF ds
  <1>4. n \in Nat /\ DOMAIN ds = 1..n BY <1>3
  <1>5. k = [i \in 1..n |-> Keep(rs, {j \in DOMAIN rs : rs[j].page[1] = ds[i]})] BY <1>4
  <1>6. Len(k) = n BY <1>4, <1>5
  <1>7. \A I : ResultsIn(Keep(rs, I), P) BY FewerResults
  <1>8. \A i \in 1..n : ResultsIn(k[i], P) BY <1>5, <1>7
  <1> QED BY <1>1, <1>4, <1>6, <1>8

LEMMA MergeLays ==
  ASSUME NEW rs, NEW P, ResultsIn(rs, P), NEW max \in Int
  PROVE  /\ TextOf(Merge(rs, max).text, Merge(rs, max).cited)
         /\ Merge(rs, max).cited \subseteq P
         /\ Merge(rs, max).cut \in BOOLEAN
         /\ max \in Nat /\ Merge(rs, max).cut => MarkedWithin(Merge(rs, max).text, max)
         /\ max \in Nat /\ ~Merge(rs, max).cut =>
              /\ Size(Merge(rs, max).text) <= max
              /\ Merge(rs, max).cited \subseteq PagesIn(Merge(rs, max).text)
  <1> DEFINE share == Share(Cardinality(DocsOf(rs)), max)
             groups == Grouped(rs)
             n == Len(groups)
             base == [text |-> <<>>, cited |-> {}, chars |-> 0, used |-> 0, full |-> FALSE, stop |-> FALSE]
             op(a, g) == AddDoc(a, g, share, max)
             M(a) == IF Size(a.text) > max
                     THEN [text |-> MarkTruncated(Cut(a.text, max)), cited |-> a.cited, cut |-> TRUE]
                     ELSE [text |-> a.text, cited |-> a.cited, cut |-> FALSE]
             E(g) == [i \in 0..n |->
                        IF i = 0 THEN base ELSE At(g[i - 1], LAMBDA a : op(a, groups[i]))]
             f == CHOOSE g : g = E(g)
  <1>1. Merge(rs, max) = M(f[n])
    <2>1. Merge(rs, max) = At(f[n], M) BY DEF Merge, Fold
    <2> HIDE DEF M, f
    <2> QED BY <2>1, Zenon DEF At
  <1>100. n \in Nat BY GroupedIn
  <1>2. \A i \in 1..n : ResultsIn(groups[i], P) BY GroupedIn
  <1>9. share \in Int
    <2> DEFINE m == Cardinality(DocsOf(rs))
    <2>1. m \in Nat BY DocsFinite
    <2> HIDE DEF m
    <2>2. m > 1 => max \div m \in Int BY <2>1
    <2>3. m > 1 => Max({max \div m, Cfg.min_per_doc}) \in Int
      <3> DEFINE part == max \div m
      <3> HIDE DEF part
      <3>1. Cfg.min_per_doc \in Int BY LimitsAre
      <3>2. part \in Int => Max({part, Cfg.min_per_doc}) \in Int BY <3>1, MaxOfTwo
      <3> QED BY <2>2, <3>2 DEF part
    <2> QED BY <2>3 DEF Share, m
  <1> HIDE DEF groups, share
  <1>3. Laid(base, P, max)
    <2>1. TextOf(<<>>, {}) BY NoText
    <2>2. max \in Nat => Counted(base, max) BY EmptySize DEF Counted
    <2> QED BY <2>1, <2>2 DEF Laid
  <1> HIDE DEF M
  <1> HIDE DEF op, base, n
  <1> DEFINE H(m, h) == h = [i \in 0..m |-> IF i = 0 THEN base ELSE op(h[i - 1], groups[i])]
             T == {m \in 0..n : \E h : H(m, h)}
  <1>101. 0 \in T
    <2>1. H(0, [i \in 0..0 |-> base]) OBVIOUS
    <2> HIDE DEF H
    <2> QED BY <1>100, <2>1
  <1>102. ASSUME NEW m \in 1..n, m - 1 \in T PROVE m \in T
    <2>1. m \in 0..n BY <1>100
    <2>2. PICK h : H(m - 1, h) BY <1>102
    <2> DEFINE g == [i \in 0..m |-> IF i = m THEN op(h[m - 1], groups[m]) ELSE h[i]]
    <2>3. ASSUME NEW i \in 0..m PROVE g[i] = IF i = 0 THEN base ELSE op(g[i - 1], groups[i])
      <3>1. CASE i = m
        <4>1. m - 1 \in 0..m /\ m # 0 /\ m - 1 # m BY <1>100
        <4> QED BY <3>1, <4>1
      <3>2. CASE i # m
        <4>1. i \in 0..(m - 1) BY <1>100, <3>2
        <4>2. i # 0 => i - 1 \in 0..m /\ i - 1 # m BY <1>100, <3>2
        <4>3. g[i] = h[i] /\ (i # 0 => g[i - 1] = h[i - 1]) BY <3>2, <4>2
        <4>4. h[i] = IF i = 0 THEN base ELSE op(h[i - 1], groups[i]) BY <2>2, <4>1
        <4> QED BY <4>3, <4>4
      <3> QED BY <3>1, <3>2
    <2>4. H(m, g) BY <2>3
    <2> HIDE DEF g, H
    <2> QED BY <2>1, <2>4
  <1>103. PICK h : H(n, h)
    <2> HIDE DEF T
    <2>1. \A m \in 1..n : m - 1 \in T => m \in T BY <1>102
    <2>2. \A m \in 0..n : m \in T BY <1>100, <1>101, <2>1, UpTo
    <2>3. n \in T BY <1>100, <2>2
    <2> QED BY <2>3 DEF T
  <1>104. \A g, i : At(g[i - 1], LAMBDA a : op(a, groups[i])) = op(g[i - 1], groups[i])
    BY Zenon DEF At
  <1>105. h = E(h) BY <1>103, <1>104
  <1> HIDE DEF E, H, T
  <1>106. f = E(f) BY <1>105, Zenon
  <1> HIDE DEF f
  <1>107. \A i \in 0..n : f[i] = IF i = 0 THEN base ELSE op(f[i - 1], groups[i]) BY <1>104, <1>106 DEF E
  <1>108. f[0] = base /\ \A i \in 1..n : i - 1 \in 0..n /\ f[i] = op(f[i - 1], groups[i])
    <2>1. 0 \in 0..n /\ \A i \in 1..n : i \in 0..n /\ i # 0 /\ i - 1 \in 0..n BY <1>100
    <2> QED BY <1>107, <2>1
  <1> DEFINE U == {m \in 0..n : Laid(f[m], P, max)}
  <1>4. 0 \in U BY <1>3, <1>100, <1>108
  <1>5. \A m \in 1..n : m - 1 \in U => m \in U
    <2> SUFFICES ASSUME NEW m \in 1..n, m - 1 \in U PROVE m \in U OBVIOUS
    <2>1. f[m] = op(f[m - 1], groups[m]) BY <1>108
    <2>2. Laid(op(f[m - 1], groups[m]), P, max) BY <1>2, <1>9, AddDocLays DEF op
    <2>3. m \in 0..n BY <1>100
    <2> QED BY <2>1, <2>2, <2>3
  <1>6. Laid(f[n], P, max)
    <2> HIDE DEF U
    <2>1. \A m \in 0..n : m \in U BY <1>4, <1>5, <1>100, UpTo
    <2>2. n \in U BY <1>100, <2>1
    <2> QED BY <2>2 DEF U
  <1> DEFINE a == f[n]
             short == Cut(a.text, max)
             marked == MarkTruncated(short)
  <1> HIDE DEF a
  <1>7. /\ TextOf(a.text, a.cited) /\ a.cited \subseteq P /\ a.chars \in Nat
        /\ max \in Nat => Counted(a, max)
    BY <1>6 DEF Laid, a
  <1>8. Size(a.text) \in Nat BY <1>7, SizeIs
  <1>10. CASE Size(a.text) > max
    <2> DEFINE u == a.text
    <2> HIDE DEF u
    <2>1. TextOf(u, a.cited) BY <1>7 DEF u
    <2>2. /\ TextOf(Cut(u, max), a.cited) /\ (max \in Nat => Size(Cut(u, max)) <= max)
          /\ MarkedWithin(u, max) => IsTruncated(Cut(u, max))
      BY <2>1, CutText
    <2>3. short = Cut(u, max) BY DEF u
    <2> HIDE DEF short
    <2>4. TextOf(short, a.cited) BY <2>2, <2>3
    <2>5. /\ TextOf(marked, a.cited)
          /\ \A k : MarkedWithin(short, k) => MarkedWithin(marked, k)
      BY <2>4, SizeOfMarked
    <2>6. max \in Nat => MarkedWithin(marked, max)
      <3> SUFFICES ASSUME max \in Nat PROVE MarkedWithin(marked, max) OBVIOUS
      <3>1. MarkedWithin(u, max) BY <1>7, <1>8, <1>10 DEF Counted, u
      <3>2. IsTruncated(short) /\ Size(short) <= max BY <2>2, <2>3, <3>1
      <3>3. MarkedWithin(short, max) BY <2>4, <3>2, MarkedIs
      <3> HIDE DEF marked
      <3> QED BY <2>5, <3>3
    <2> HIDE DEF marked
    <2>7. M(a) = [text |-> marked, cited |-> a.cited, cut |-> TRUE]
      BY <1>10 DEF M, marked, short
    <2>8. M(a).text = marked /\ M(a).cited = a.cited /\ M(a).cut = TRUE BY <2>7
    <2> QED BY <1>1, <1>7, <2>5, <2>6, <2>8 DEF a
  <1>11. CASE ~(Size(a.text) > max)
    <2>1. M(a) = [text |-> a.text, cited |-> a.cited, cut |-> FALSE] BY <1>11 DEF M
    <2>2. M(a).text = a.text /\ M(a).cited = a.cited /\ M(a).cut = FALSE BY <2>1
    <2>3. Size(a.text) <= max BY <1>8, <1>11
    <2>4. max \in Nat => a.cited \subseteq PagesIn(a.text) BY <1>7 DEF Counted
    <2> QED BY <1>1, <1>7, <2>2, <2>3, <2>4 DEF a
  <1> QED BY <1>10, <1>11

\* The context is the texts, or it is marked.
LEMMA AssembleIn ==
  ASSUME NEW n \in Nat, NEW ts, Row(ts, n), NEW P,
         \A i \in 1..n : TextOf(ts[i], P), NEW least \in Int
  PROVE  /\ TextOf(Assemble(ts, least), P)
         /\ Size(Joined(ts)) <= Cfg.budget => Assemble(ts, least) = Joined(ts)
         /\ Size(Joined(ts)) > Cfg.budget => IsTruncated(Assemble(ts, least))
  <1> DEFINE total == Size(Joined(ts))
             F(x) == [i \in DOMAIN ts |-> Cut(ts[i], Max({(Size(ts[i]) * Cfg.budget) \div x, least}))]
             k == F(total)
  <1>1. Proportional(ts, least) = k
    <2>1. Proportional(ts, least) = At(total, F) BY DEF Proportional
    <2> HIDE DEF F, total
    <2> QED BY <2>1, Zenon DEF At
  <1>2. TextOf(Joined(ts), P) BY JoinedTexts
  <1>3. total \in Nat
    <2> DEFINE j == Joined(ts)
    <2>1. TextOf(j, P) BY <1>2
    <2> HIDE DEF j
    <2>2. Size(j) \in Nat BY <2>1, SizeIs
    <2> QED BY <2>2 DEF j
  <1>4. DOMAIN ts = 1..n BY DEF Row
  <1>5. Row(k, n) /\ \A i \in 1..n : k[i] = Cut(ts[i], Max({(Size(ts[i]) * Cfg.budget) \div total, least}))
    <2> HIDE DEF total
    <2> QED BY <1>4 DEF Row
  <1> HIDE DEF k, total
  <1>6. ASSUME ~(total <= Cfg.budget), NEW i \in 1..n PROVE TextOf(k[i], P)
    <2> DEFINE s == Size(ts[i])
               q == (s * Cfg.budget) \div total
               room == Max({q, least})
    <2>1. s \in Nat /\ Cfg.budget \in Nat BY SizeIs, LimitsAre
    <2>2. total # 0 BY <1>3, <1>6, <2>1
    <2> HIDE DEF s
    <2>3. s * Cfg.budget \in Nat BY <2>1
    <2> DEFINE b == s * Cfg.budget
    <2> HIDE DEF b
    <2>4. b \div total \in Nat BY <1>3, <2>2, <2>3, Divided DEF b
    <2>5. q \in Int BY <2>4 DEF b
    <2> HIDE DEF q
    <2>6. Max({q, least}) \in Int BY <2>5, MaxOfTwo
    <2>7. k[i] = Cut(ts[i], room) BY <1>5 DEF q, s
    <2> HIDE DEF room
    <2>8. TextOf(Cut(ts[i], room), P) BY <2>6, CutText DEF room
    <2> QED BY <2>7, <2>8
  <1>7. CASE total <= Cfg.budget
    <2>1. Assemble(ts, least) = Joined(ts) BY <1>7 DEF Assemble, total
    <2>2. ~(total > Cfg.budget) BY <1>3, <1>7, LimitsAre
    <2> QED BY <1>2, <2>1, <2>2 DEF total
  <1>8. CASE ~(total <= Cfg.budget) /\ Len(ts) = 1
    <2> DEFINE c == Cut(ts[1], Cfg.budget)
    <2>1. Assemble(ts, least) = MarkTruncated(c) BY <1>8 DEF Assemble, total
    <2>2. 1 \in 1..n
      <3>1. Len(ts) = n BY DEF Row
      <3> QED BY <1>8, <3>1
    <2>3. Cfg.budget \in Int BY LimitsAre
    <2>4. TextOf(c, P) BY <2>2, <2>3, CutText
    <2> HIDE DEF c
    <2>5. TextOf(MarkTruncated(c), P) /\ IsTruncated(MarkTruncated(c)) BY <2>4, SizeOfMarked
    <2> QED BY <1>8, <2>1, <2>5 DEF total
  <1>9. CASE ~(total <= Cfg.budget) /\ Len(ts) # 1
    <2> DEFINE j == Joined(k)
    <2>1. Assemble(ts, least) = MarkTruncated(j) BY <1>1, <1>9 DEF Assemble, total
    <2>2. TextOf(j, P) BY <1>5, <1>6, <1>9, JoinedTexts
    <2> HIDE DEF j
    <2>3. TextOf(MarkTruncated(j), P) /\ IsTruncated(MarkTruncated(j)) BY <2>2, SizeOfMarked
    <2> QED BY <1>9, <2>1, <2>3 DEF total
  <1> QED BY <1>7, <1>8, <1>9

-----------------------------------------------------------------------------
(* The invariant.                                                          *)

AllThere(ds) == \A d \in ds : d \in live /\ PageCount[d] > 0

\* Whether the documents of a retrieval may have resolved to none.
Lost(ds, one) == IF one THEN ~(ds \subseteq live) ELSE ds \cap live = {}

\* The pages a step that is asked of these documents may be given.
Allowed(ds, one) ==
    IF ds = {} \/ Lost(ds, one) THEN AllPages
    ELSE IF AllThere(ds) THEN OwnPages(ds)
    ELSE OwnPages(ds) \cup {p \in AllPages : p[1] \in PackDocs}
AllowedHere == Allowed(asked, OneByOne(Step))

\* What was resolved holds at least what is still there.
MemoIs == \A f \in DOMAIN memo : memo[f] \subseteq f /\ f \cap live \subseteq memo[f]

\* What is still to do is part of what the step is asked of: nothing only where
\* nothing is left, and all of it unless its documents are taken one by one.
JobsAre ==
    /\ jobs \in Seq(SUBSET asked)
    /\ \A i \in DOMAIN jobs : jobs[i] = {} => asked \cap live = {}
    /\ ~OneByOne(Step) => \A i \in DOMAIN jobs : jobs[i] = asked
    /\ pc \in {"resolve", "retrieve"} => jobs # <<>>
    /\ pc \in {"start", "merge"} => jobs = <<>>

\* The retrieval under way is given at least what is left of its documents.
TargetIs ==
    /\ pc = "retrieve" => target \subseteq Head(jobs) /\ Head(jobs) \cap live \subseteq target
    /\ pc \in {"start", "resolve", "merge"} => target = {}

ResultsAllowed ==
    /\ ResultsIn(results, AllowedHere)
    /\ pc = "start" => results = <<>>

IsPart(part) ==
    /\ part = [step |-> part.step, filter |-> part.filter, text |-> part.text]
    /\ part.step \in 1..at[1] /\ part.filter \in SUBSET Docs
    /\ TextOf(part.text, Allowed(part.filter, OneByOne(Steps[part.step])))
    /\ TextOf(part.text, cited)
PartsAllowed ==
    /\ parts \in Seq(Range(parts)) /\ \A part \in Range(parts) : IsPart(part)
    /\ pc = "assemble" => parts # <<>>

ContextCited == pc = "done" => TextOf(context, cited)

\* The documents that no retrieval is still to do for had theirs.
Few == ~unread /\ Cardinality(UNION {NamedPages(Docs, d) : d \in asked}) <= Cfg.max_rescued
NamedSoFar ==
    pc \in {"resolve", "retrieve", "merge"} /\ Few =>
        \A d \in asked \cap live :
            (\A i \in DOMAIN jobs : d \notin jobs[i]) => NamedPages(live, d) \subseteq Found(results)

IInv ==
    /\ TypeOK /\ MemoIs /\ JobsAre /\ TargetIs
    /\ ResultsAllowed /\ PartsAllowed /\ ContextCited /\ NamedSoFar

-----------------------------------------------------------------------------
(* What a step retrieves.                                                  *)

LEMMA PlanIs ==
  ASSUME TypeOK
  PROVE  /\ Steps \in Seq(StepType) /\ Len(Steps) \in Nat /\ DOMAIN Steps = 1..Len(Steps)
         /\ \A i \in 1..Len(Steps) :
              /\ Steps[i].filters \in Seq(SUBSET Docs) /\ Steps[i].filters # <<>>
              /\ Len(Steps[i].filters) \in Nat
              /\ DOMAIN Steps[i].filters = 1..Len(Steps[i].filters)
              /\ 1 \in DOMAIN Steps[i].filters
              /\ \A j \in DOMAIN Steps[i].filters : Steps[i].filters[j] \in SUBSET Docs
         /\ at[1] \in 1..Len(Steps) /\ at[2] \in 1..Len(Step.filters)
         /\ Filter \in SUBSET Docs
  <1>1. /\ plan \in [strategy : {"standard", "decomposed"}, steps : Seq(StepType)]
        /\ \A i \in DOMAIN plan.steps : plan.steps[i].filters # <<>>
    BY StepAssumption DEF TypeOK
  <1>2. Steps \in Seq(StepType) BY <1>1 DEF Steps
  <1>3. Len(Steps) \in Nat /\ DOMAIN Steps = 1..Len(Steps) BY <1>2
  <1>4. ASSUME NEW i \in 1..Len(Steps)
        PROVE  /\ Steps[i].filters \in Seq(SUBSET Docs) /\ Steps[i].filters # <<>>
               /\ Len(Steps[i].filters) \in Nat
               /\ DOMAIN Steps[i].filters = 1..Len(Steps[i].filters)
               /\ 1 \in DOMAIN Steps[i].filters
               /\ \A j \in DOMAIN Steps[i].filters : Steps[i].filters[j] \in SUBSET Docs
    <2>1. Steps[i] \in StepType BY <1>2, <1>3
    <2> DEFINE fs == Steps[i].filters
    <2>2. fs \in Seq(SUBSET Docs) BY <2>1 DEF StepType
    <2>3. fs # <<>> BY <1>1, <1>3 DEF Steps
    <2> HIDE DEF fs
    <2>4. Len(fs) \in Nat /\ DOMAIN fs = 1..Len(fs) BY <2>2
    <2>5. Len(fs) # 0 BY <2>2, <2>3
    <2>6. 1 \in DOMAIN fs /\ \A j \in DOMAIN fs : fs[j] \in SUBSET Docs BY <2>2, <2>4, <2>5
    <2> QED BY <2>2, <2>3, <2>4, <2>6 DEF fs
  <1>5. at[1] \in 1..Len(Steps) /\ at[2] \in DOMAIN Step.filters BY <1>3 DEF TypeOK
  <1>6. at[2] \in 1..Len(Step.filters) BY <1>4, <1>5 DEF Step
  <1>7. Filter \in SUBSET Docs BY <1>4, <1>5 DEF Filter, Step
  <1> QED BY <1>2, <1>3, <1>4, <1>5, <1>6, <1>7


LEMMA ResolvedIs ==
  ASSUME MemoIs, NEW ids
  PROVE  /\ Resolved(ids) \subseteq ids /\ ids \cap live \subseteq Resolved(ids)
         /\ Resolve(ids) =>
              \A f \in DOMAIN memo' : /\ f \in DOMAIN memo \/ f = ids
                                      /\ memo'[f] \subseteq f /\ f \cap live \subseteq memo'[f]
  <1>1. \A f : /\ f \in DOMAIN memo => Resolved(f) = memo[f]
               /\ f \notin DOMAIN memo => Resolved(f) = f \cap live
    BY DEF Resolved
  <1>2. \A f : Resolved(f) \subseteq f /\ f \cap live \subseteq Resolved(f) BY <1>1 DEF MemoIs
  <1>3. Resolve(ids) => /\ DOMAIN memo' = DOMAIN memo \cup {ids}
                        /\ \A f \in DOMAIN memo \cup {ids} : memo'[f] = Resolved(f)
    BY DEF Resolve
  <1> QED BY <1>2, <1>3

LEMMA NarrowedIs ==
  ASSUME TypeOK
  PROVE  Narrowed \in SUBSET Docs
  <1>1. Filter \in SUBSET Docs BY PlanIs
  <1>2. \A j \in DOMAIN Step.filters : Step.filters[j] \in SUBSET Docs
    <2>1. /\ at[1] \in 1..Len(Steps)
          /\ \A i \in 1..Len(Steps) : \A j \in DOMAIN Steps[i].filters : Steps[i].filters[j] \in SUBSET Docs
      BY PlanIs
    <2> QED BY <2>1 DEF Step
  <1>3. StepFilter(Step) \in SUBSET Docs BY <1>2 DEF StepFilter, Range
  <1> QED BY <1>1, <1>3 DEF Narrowed

LEMMA AllowedIs ==
  ASSUME NEW ds \in SUBSET Docs, NEW one
  PROVE  /\ Allowed(ds, one) \subseteq AllPages
         /\ \A p \in Allowed(ds, one), q \in AllPages : q[1] = p[1] => q \in Allowed(ds, one)
  <1>1. Allowed(ds, one) \subseteq AllPages BY DEF Allowed, OwnPages
  <1> QED BY <1>1 DEF Allowed, OwnPages

\* What the retrieval under way returns its step may be given.
LEMMA RetrievedAllowed ==
  ASSUME TypeOK, JobsAre, TargetIs, pc = "retrieve",
         NEW s, s.live = live, NEW rs, ResultsIn(rs, Reach(s, target)),
         target # {} /\ (\A d \in target : d \in s.live /\ PageCount[d] > 0) =>
            ResultsIn(rs, Within(s, target))
  PROVE  ResultsIn(rs, AllowedHere)
  <1> DEFINE one == OneByOne(Step)
             job == Head(jobs)
  <1>1. /\ asked \in SUBSET Docs /\ target \in SUBSET asked /\ target \in SUBSET Docs
        /\ target \subseteq job /\ job \cap live \subseteq target
    BY DEF TypeOK, TargetIs
  <1>2. /\ job \in SUBSET asked /\ (job = {} => asked \cap live = {})
        /\ ~one => job = asked
    <2> DEFINE X == SUBSET asked
    <2>1. jobs \in Seq(X) /\ jobs # <<>> BY DEF JobsAre
    <2> HIDE DEF X
    <2>2. 1 \in DOMAIN jobs /\ job = jobs[1] /\ jobs[1] \in X BY <2>1
    <2> QED BY <2>2 DEF JobsAre, X
  <1>3. /\ Within(s, target) \subseteq AllPages /\ Reach(s, target) \subseteq AllPages
        /\ target # {} => Within(s, target) \subseteq OwnPages(target)
        /\ Reach(s, target) \subseteq Within(s, target) \cup PackPages
    <2>1. Reach(s, target) \subseteq Everywhere(s) /\ Everywhere(s) \subseteq AllPages
      BY <1>1, ReachIs, PagesOfAll
    <2> QED BY <1>1, <2>1, PagesWithin DEF Reach
  <1>4. OwnPages(target) \subseteq OwnPages(asked) BY <1>1 DEF OwnPages
  <1> HIDE DEF one, job
  <1>5. CASE asked = {} \/ Lost(asked, one)
    <2>1. AllowedHere = AllPages BY <1>5 DEF AllowedHere, Allowed, one
    <2>2. Found(rs) \subseteq AllPages BY <1>3, ResultsAre
    <2> QED BY <2>1, <2>2, ResultsMore
  <1>6. CASE ~(asked = {} \/ Lost(asked, one))
    <2>1. asked # {} /\ target # {}
      <3>1. CASE one
        <4>1. asked \subseteq live BY <1>6, <3>1 DEF Lost
        <4>2. job # {} BY <1>2, <1>6, <4>1
        <4> QED BY <1>1, <1>2, <1>6, <4>1, <4>2
      <3>2. CASE ~one
        <4>1. asked \cap live # {} /\ job = asked BY <1>2, <1>6, <3>2 DEF Lost
        <4> QED BY <1>1, <4>1
      <3> QED BY <3>1, <3>2
    <2>2. CASE AllThere(asked)
      <3>1. \A d \in target : d \in s.live /\ PageCount[d] > 0 BY <1>1, <2>2 DEF AllThere
      <3>2. ResultsIn(rs, Within(s, target)) BY <2>1, <3>1
      <3>3. Found(rs) \subseteq OwnPages(asked)
        <4>1. Found(rs) \subseteq Within(s, target) BY <3>2, ResultsAre
        <4> QED BY <1>3, <1>4, <2>1, <4>1
      <3>4. AllowedHere = OwnPages(asked) BY <1>6, <2>2 DEF AllowedHere, Allowed, one
      <3> QED BY <3>2, <3>3, <3>4, ResultsMore
    <2>3. CASE ~AllThere(asked)
      <3>1. AllowedHere = OwnPages(asked) \cup {p \in AllPages : p[1] \in PackDocs}
        BY <1>6, <2>3 DEF AllowedHere, Allowed, one
      <3>2. \A p \in PackPages : p[1] \in PackDocs BY DEF PackDocs
      <3>3. Reach(s, target) \subseteq AllowedHere BY <1>3, <1>4, <2>1, <3>1, <3>2
      <3>4. Found(rs) \subseteq AllowedHere BY <3>3, ResultsAre
      <3> QED BY <3>4, ResultsMore
    <2> QED BY <2>2, <2>3
  <1> QED BY <1>5, <1>6

\* The pages a rescue has to bring, where all could be listed and are few.
LEMMA NamedOf ==
  ASSUME asked \in SUBSET Docs, live \subseteq Docs,
         Cardinality(UNION {NamedPages(Docs, d) : d \in asked}) <= Cfg.max_rescued,
         NEW s, s.live = live, s.unread = {}, NEW es \in SUBSET asked
  PROVE  /\ Cardinality(NamedIn(s, es)) <= Cfg.max_rescued
         /\ \A d \in es : NamedPages(live, d) \subseteq NamedIn(s, es)
  <1> DEFINE named == NamedIn(s, es)
             all == UNION {NamedPages(Docs, d) : d \in asked}
             t == [live |-> Docs, unread |-> {}]
             here == [live |-> live]
             there == [live |-> Docs]
  <1>1. \A d \in asked : /\ PagesOf(s, d) = PagesOf(here, d)
                         /\ PagesOf(t, d) = PagesOf(there, d)
                         /\ d \in live => PagesOf(s, d) = PagesOf(t, d)
                         /\ d \notin live => PagesOf(s, d) = {}
    BY DEF PagesOf
  <1>2. t.unread = {} OBVIOUS
  <1> HIDE DEF here, there, t
  <1>3. \A d \in asked : \A w : /\ Selective(here, {}, d, w) = Selective(s, s.unread, d, w)
                                /\ Selective(t, t.unread, d, w) = Selective(there, {}, d, w)
                                /\ Selective(s, s.unread, d, w) \subseteq Selective(there, {}, d, w)
    <2> TAKE d \in asked
    <2> TAKE w
    <2>1. Selective(here, {}, d, w) = Selective(s, s.unread, d, w) BY <1>1 DEF Selective
    <2>2. Selective(t, t.unread, d, w) = Selective(there, {}, d, w) BY <1>1, <1>2 DEF Selective
    <2>3. d \in live => Selective(s, s.unread, d, w) = Selective(t, t.unread, d, w)
      BY <1>1, <1>2 DEF Selective
    <2>4. d \notin live => Selective(s, s.unread, d, w) = {} BY <1>1 DEF Selective
    <2> QED BY <2>1, <2>2, <2>3, <2>4
  <1>4. \A d \in asked : \A ws : /\ NamedBy(here, {}, d, ws) = NamedBy(s, s.unread, d, ws)
                                 /\ NamedBy(t, t.unread, d, ws) = NamedBy(there, {}, d, ws)
                                 /\ NamedBy(s, s.unread, d, ws) \subseteq NamedBy(there, {}, d, ws)
    BY <1>3 DEF NamedBy
  <1>5. \A d : /\ NamedPages(live, d) = NamedBy(here, {}, d, Scanned(d))
               /\ NamedPages(Docs, d) = NamedBy(there, {}, d, Scanned(d))
    BY DEF NamedPages, here, there
  <1>6. named \subseteq all BY <1>4, <1>5 DEF NamedIn
  <1>7. all = NamedIn(t, asked) BY <1>4, <1>5 DEF NamedIn
  <1>8. IsFiniteSet(all)
    <2>1. NamedIn(t, asked) \in SUBSET Within(t, asked) BY ScopeIn
    <2> HIDE DEF all
    <2> QED BY <1>7, <2>1, PagesWithin
  <1>9. Cardinality(named) <= Cfg.max_rescued
    <2>1. Cfg.max_rescued \in Nat BY LimitsAre
    <2>2. Cardinality(all) <= Cfg.max_rescued OBVIOUS
    <2> HIDE DEF all, named
    <2>3. IsFiniteSet(named) /\ Cardinality(named) <= Cardinality(all) BY <1>6, <1>8, FS_Subset
    <2>4. Cardinality(named) \in Nat /\ Cardinality(all) \in Nat BY <1>8, <2>3, FS_CardinalityType
    <2> QED BY <2>1, <2>2, <2>3, <2>4
  <1>10. \A d \in es : NamedPages(live, d) \subseteq named BY <1>4, <1>5 DEF NamedIn
  <1> QED BY <1>9, <1>10 DEF named

-----------------------------------------------------------------------------
(* The steps keep the invariant.                                           *)

LEMMA Initially == Init => IInv
  <1> SUFFICES ASSUME Init PROVE IInv OBVIOUS
  <1> USE DEF Init
  <1>1. at[1] = 1 /\ at[2] = 1 /\ Steps = plan.steps BY DEF Steps
  <1>2. plan.steps \in Seq(StepType) /\ plan.steps # <<>>
    BY StepAssumption
  <1>3. 1 \in DOMAIN Steps BY <1>1, <1>2
  <1>4. Step.filters \in Seq(SUBSET Docs) /\ Step.filters # <<>>
    <2>1. Step = plan.steps[1] BY <1>1 DEF Step
    <2>2. plan.steps[1] \in StepType BY <1>1, <1>2, <1>3
    <2>3. plan.steps[1].filters # <<>> BY <1>1, <1>3, StepAssumption
    <2> QED BY <2>1, <2>2, <2>3 DEF StepType
  <1>5. 1 \in DOMAIN Step.filters BY <1>4
  <1>6. \A f : f \notin DOMAIN memo OBVIOUS
  <1>7. TypeOK BY <1>1, <1>3, <1>5, <1>6 DEF TypeOK
  <1>8. MemoIs BY <1>6 DEF MemoIs
  <1>9. JobsAre /\ TargetIs
    <2>1. jobs \in Seq(SUBSET asked) /\ \A i : i \notin DOMAIN jobs OBVIOUS
    <2> QED BY <2>1 DEF JobsAre, TargetIs
  <1>10. ResultsAllowed BY NoResults DEF ResultsAllowed
  <1>11. PartsAllowed BY DEF PartsAllowed, Range
  <1>12. ContextCited /\ NamedSoFar BY DEF ContextCited, NamedSoFar
  <1> QED BY <1>7, <1>8, <1>9, <1>10, <1>11, <1>12 DEF IInv

LEMMA HereKept ==
  ASSUME UNCHANGED <<plan, live>>
  PROVE  /\ \A ds, one : Allowed(ds, one)' = Allowed(ds, one)
         /\ \A step : OneByOne(step)' = OneByOne(step)
         /\ Steps' = Steps
         /\ UNCHANGED <<at, asked>> => Step' = Step /\ AllowedHere' = AllowedHere
  <1>1. \A ds, one : Allowed(ds, one)' = Allowed(ds, one) BY DEF Allowed, AllThere, Lost
  <1>2. \A step : OneByOne(step)' = OneByOne(step) BY DEF OneByOne
  <1>3. Steps' = Steps BY DEF Steps
  <1>4. UNCHANGED <<at, asked>> => Step' = Step BY <1>3 DEF Step
  <1>5. UNCHANGED <<at, asked>> => AllowedHere' = AllowedHere
    <2> SUFFICES ASSUME UNCHANGED <<at, asked>> PROVE AllowedHere' = AllowedHere OBVIOUS
    <2>1. AllowedHere' = Allowed(asked, OneByOne(Step)) BY <1>4 DEF AllowedHere, Allowed, AllThere, Lost, OneByOne
    <2> QED BY <2>1 DEF AllowedHere
  <1> QED BY <1>1, <1>2, <1>3, <1>4, <1>5

\* A part stays what it was as more is cited.
LEMMA PartsKept ==
  ASSUME PartsAllowed, at[1]' = at[1], UNCHANGED <<plan, parts, cited, live>>
  PROVE  parts' \in Seq(Range(parts')) /\ \A part \in Range(parts') : IsPart(part)'
  <1>1. /\ \A ds, one : Allowed(ds, one)' = Allowed(ds, one)
        /\ \A step : OneByOne(step)' = OneByOne(step)
        /\ Steps' = Steps
    BY HereKept
  <1> QED BY <1>1 DEF PartsAllowed, IsPart

\* What a step is to retrieve: each document that is left is in one retrieval.
LEMMA StartKeeps == IInv /\ Start => IInv'
  <1> SUFFICES ASSUME IInv, Start PROVE IInv' OBVIOUS
  <1> USE DEF IInv
  <1> DEFINE a == asked'
             js == jobs'
             X == Resolved(a)
             R == {r \in X \X X : r[1] < r[2]}
             ds == SortedBy(X, R)
             F(x) == IF x = <<>> /\ Step.tool = "fulltext" THEN <<{}>>
                     ELSE [i \in DOMAIN x |-> {x[i]}]
             apart == OneByOne(Step) /\ a # {}
  <1>1. /\ pc = "start" /\ a = Narrowed
        /\ pc' = IF js = <<>> THEN "merge" ELSE "resolve"
        /\ UNCHANGED <<plan, at, target, results, unread, parts, cited, cut, skipped, context, live>>
    BY DEF Start
  <1>2. a \in SUBSET Docs BY <1>1, NarrowedIs
  <1>3. /\ Step' = Step /\ Steps' = Steps /\ (OneByOne(Step)' <=> OneByOne(Step))
    BY <1>1 DEF Step, Steps, OneByOne
  <1>4. /\ js \in Seq(SUBSET a)
        /\ \A i \in DOMAIN js : js[i] = {} => a \cap live = {}
        /\ ~OneByOne(Step) => \A i \in DOMAIN js : js[i] = a
        /\ \A d \in a \cap live : \E i \in DOMAIN js : d \in js[i]
        /\ \A f \in DOMAIN memo' : /\ f \in DOMAIN memo \/ f = a
                                   /\ memo'[f] \subseteq f /\ f \cap live \subseteq memo'[f]
    <2>1. CASE apart
      <3>1. js = F(ds) /\ Resolve(a)
        <4>1. js = At(ds, F) /\ Resolve(a) BY <2>1 DEF Start, Sorted
        <4> HIDE DEF F, ds, a
        <4> QED BY <4>1, Zenon DEF At
      <3>2. OneByOne(Step) BY <2>1
      <3> HIDE DEF a, js
      <3>3. /\ X \subseteq a /\ a \cap live \subseteq X
            /\ \A f \in DOMAIN memo' : /\ f \in DOMAIN memo \/ f = a
                                       /\ memo'[f] \subseteq f /\ f \cap live \subseteq memo'[f]
        BY <3>1, ResolvedIs
      <3>4. IsFiniteSet(X)
        <4>1. X \subseteq Docs BY <1>2, <3>3
        <4> HIDE DEF X
        <4> QED BY <4>1, StepAssumption, FS_Subset
      <3> HIDE DEF X, R
      <3>5. ds \in Seq(X) /\ Range(ds) = X BY <3>4, SortedByOf DEF R
      <3> HIDE DEF ds
      <3>6. /\ Len(ds) \in Nat /\ DOMAIN ds = 1..Len(ds) /\ \A i \in DOMAIN ds : ds[i] \in X
            /\ \A d \in X : \E i \in DOMAIN ds : ds[i] = d
        BY <3>5 DEF Range
      <3>7. CASE ds = <<>> /\ Step.tool = "fulltext"
        <4>1. js = <<{}>> BY <3>1, <3>7
        <4>2. a \cap live = {} BY <3>3, <3>6, <3>7
        <4>3. js \in Seq(SUBSET a) BY <4>1
        <4>4. \A d \in a \cap live : \E i \in DOMAIN js : d \in js[i] BY <4>2
        <4>5. \A i \in DOMAIN js : js[i] = {} => a \cap live = {} BY <4>2
        <4> HIDE DEF F
        <4> QED BY <3>2, <3>3, <4>3, <4>4, <4>5
      <3>8. CASE ~(ds = <<>> /\ Step.tool = "fulltext")
        <4>1. js = [i \in 1..Len(ds) |-> {ds[i]}] BY <3>1, <3>6, <3>8
        <4>2. DOMAIN js = 1..Len(ds) /\ \A i \in 1..Len(ds) : js[i] = {ds[i]} /\ js[i] \in SUBSET a
          BY <3>3, <3>6, <4>1
        <4>3. js \in Seq(SUBSET a) BY <3>6, <4>1, <4>2
        <4>4. \A d \in a \cap live : \E i \in DOMAIN js : d \in js[i] BY <3>3, <3>6, <4>2
        <4>5. \A i \in DOMAIN js : js[i] # {} BY <4>2
        <4> HIDE DEF F
        <4> QED BY <3>2, <3>3, <4>3, <4>4, <4>5
      <3> QED BY <3>7, <3>8
    <2>2. CASE ~apart
      <3>1. js = <<a>> /\ memo' = memo BY <2>2 DEF Start
      <3>2. OneByOne(Step) => a = {} BY <2>2
      <3> HIDE DEF a, js
      <3>3. js \in Seq(SUBSET a) /\ DOMAIN js = {1} /\ js[1] = a BY <3>1
      <3> QED BY <3>1, <3>2, <3>3 DEF MemoIs
    <2> QED BY <2>1, <2>2
  <1>5. asked' \in SUBSET Docs BY <1>2
  <1>6. jobs' = js OBVIOUS
  <1>7. asked' = a OBVIOUS
  <1>8. TypeOK'
    <2>1. target = {} BY <1>1 DEF TargetIs
    <2>2. \A f \in DOMAIN memo' : f \subseteq Docs /\ memo'[f] \subseteq f
      BY <1>2, <1>4 DEF TypeOK
    <2> HIDE DEF a, js
    <2> QED BY <1>1, <1>3, <1>5, <2>1, <2>2 DEF TypeOK
  <1>9. MemoIs' BY <1>1, <1>4 DEF MemoIs
  <1> HIDE DEF a, js
  <1>10. pc' \in {"resolve", "merge"} /\ (pc' = "resolve" <=> js # <<>>) BY <1>1
  <1>11. JobsAre'
    <2> DEFINE S == SUBSET a
    <2>1. jobs' \in Seq(S) BY <1>4, <1>6
    <2> HIDE DEF S
    <2>2. jobs' \in Seq(SUBSET asked') BY <1>7, <2>1 DEF S
    <2> QED BY <1>1, <1>3, <1>4, <1>6, <1>7, <1>10, <2>2 DEF JobsAre
  <1>12. TargetIs' BY <1>1, <1>10 DEF TargetIs
  <1>13. ResultsAllowed' BY <1>1, <1>10, NoResults DEF ResultsAllowed
  <1>14. PartsAllowed'
    <2>1. parts' \in Seq(Range(parts')) /\ \A part \in Range(parts') : IsPart(part)'
      BY <1>1, PartsKept
    <2> QED BY <1>10, <2>1 DEF PartsAllowed
  <1>15. ContextCited' BY <1>10 DEF ContextCited
  <1>16. NamedSoFar' BY <1>1, <1>4, <1>6, <1>7 DEF NamedSoFar
  <1> QED BY <1>8, <1>9, <1>11, <1>12, <1>13, <1>14, <1>15, <1>16

\* The head of what is still to do, and the rest.
LEMMA JobIs ==
  ASSUME JobsAre, pc \in {"resolve", "retrieve"}
  PROVE  /\ Head(jobs) \in SUBSET asked /\ Len(jobs) \in Nat \ {0}
         /\ Tail(jobs) \in Seq(SUBSET asked)
         /\ Len(jobs) = 1 <=> Tail(jobs) = <<>>
         /\ \A i \in DOMAIN Tail(jobs) : \E j \in DOMAIN jobs : Tail(jobs)[i] = jobs[j]
         /\ \A j \in DOMAIN jobs : \/ jobs[j] = Head(jobs)
                                   \/ \E i \in DOMAIN Tail(jobs) : Tail(jobs)[i] = jobs[j]
  <1> DEFINE X == SUBSET asked
  <1>1. jobs # <<>> /\ jobs \in Seq(X) BY DEF JobsAre
  <1> HIDE DEF X
  <1>2. Len(jobs) \in Nat \ {0} /\ DOMAIN jobs = 1..Len(jobs) BY <1>1
  <1>3. Head(jobs) = jobs[1] /\ Head(jobs) \in X BY <1>1, <1>2
  <1>4. /\ Tail(jobs) \in Seq(X) /\ Len(Tail(jobs)) = Len(jobs) - 1
        /\ DOMAIN Tail(jobs) = 1..(Len(jobs) - 1)
        /\ \A i \in 1..(Len(jobs) - 1) : Tail(jobs)[i] = jobs[i + 1]
    BY <1>1, <1>2
  <1>5. \A i \in DOMAIN Tail(jobs) : Tail(jobs)[i] = jobs[i + 1] /\ i + 1 \in DOMAIN jobs
    BY <1>2, <1>4
  <1>6. \A j \in DOMAIN jobs : j # 1 => j - 1 \in DOMAIN Tail(jobs) /\ Tail(jobs)[j - 1] = jobs[j]
    <2> SUFFICES ASSUME NEW j \in DOMAIN jobs, j # 1
                 PROVE  j - 1 \in DOMAIN Tail(jobs) /\ Tail(jobs)[j - 1] = jobs[j]
      OBVIOUS
    <2>1. j - 1 \in 1..(Len(jobs) - 1) /\ j - 1 + 1 = j BY <1>2
    <2> QED BY <1>4, <2>1
  <1>7. Len(jobs) = 1 <=> Tail(jobs) = <<>>
    <2> DEFINE t == Tail(jobs)
    <2>1. t \in Seq(X) /\ Len(t) = Len(jobs) - 1 BY <1>4
    <2> HIDE DEF t
    <2>2. Len(t) = 0 <=> t = <<>> BY <2>1
    <2> QED BY <1>2, <2>1, <2>2 DEF t
  <1> QED BY <1>2, <1>3, <1>4, <1>5, <1>6, <1>7 DEF X

LEMMA ResolveJobKeeps == IInv /\ ResolveJob => IInv'
  <1> SUFFICES ASSUME IInv, ResolveJob PROVE IInv' OBVIOUS
  <1> USE DEF IInv
  <1> DEFINE job == Head(jobs)
  <1>1. /\ pc = "resolve" /\ pc' = "retrieve" /\ target' = Resolved(job) /\ Resolve(job)
        /\ UNCHANGED <<plan, at, asked, jobs, results, unread, parts, cited, cut, skipped, context, live>>
    BY DEF ResolveJob
  <1>2. job \in SUBSET asked BY <1>1, JobIs
  <1>3. asked \in SUBSET Docs BY DEF TypeOK
  <1>4. /\ Resolved(job) \subseteq job /\ job \cap live \subseteq Resolved(job)
        /\ \A f \in DOMAIN memo' : /\ f \in DOMAIN memo \/ f = job
                                   /\ memo'[f] \subseteq f /\ f \cap live \subseteq memo'[f]
    BY <1>1, ResolvedIs
  <1>5. Head(jobs') = job BY <1>1
  <1> HIDE DEF job
  <1>6. Step' = Step /\ Steps' = Steps /\ (OneByOne(Step)' <=> OneByOne(Step)) /\ AllowedHere' = AllowedHere
    BY <1>1, HereKept DEF OneByOne
  <1>7. TypeOK'
    <2>1. target' \subseteq asked BY <1>1, <1>2, <1>4
    <2>2. \A f \in DOMAIN memo' : f \subseteq Docs /\ memo'[f] \subseteq f
      BY <1>2, <1>3, <1>4 DEF TypeOK
    <2> QED BY <1>1, <1>6, <2>1, <2>2 DEF TypeOK
  <1>8. MemoIs' BY <1>1, <1>4 DEF MemoIs
  <1>9. JobsAre' BY <1>1, <1>6 DEF JobsAre
  <1>10. TargetIs' BY <1>1, <1>4, <1>5 DEF TargetIs
  <1>11. ResultsAllowed' BY <1>1, <1>6 DEF ResultsAllowed
  <1>12. PartsAllowed'
    <2>1. parts' \in Seq(Range(parts')) /\ \A part \in Range(parts') : IsPart(part)'
      BY <1>1, PartsKept
    <2> QED BY <1>1, <2>1 DEF PartsAllowed
  <1>13. ContextCited' BY <1>1 DEF ContextCited
  <1>14. NamedSoFar' BY <1>1 DEF NamedSoFar, Few
  <1> QED BY <1>7, <1>8, <1>9, <1>10, <1>11, <1>12, <1>13, <1>14

\* A retrieval that returns what its documents allow, with their named pages.
LEMMA CollectKeeps ==
  ASSUME IInv, pc = "retrieve", NEW s, NEW rs, Collect(s, rs), ResultsIn(rs, AllowedHere),
         Few /\ s.unread = {} => \A d \in target \cap live : NamedPages(live, d) \subseteq Found(rs)
  PROVE  IInv'
  <1> USE DEF IInv
  <1>1. /\ results' = results \o rs /\ jobs' = Tail(jobs) /\ target' = {}
        /\ unread' = (unread \/ s.unread # {})
        /\ pc' = IF Len(jobs) = 1 THEN "merge" ELSE "resolve"
        /\ UNCHANGED <<plan, at, asked, memo, parts, cited, cut, skipped, context, live>>
    BY DEF Collect
  <1>2. Step' = Step /\ Steps' = Steps /\ (OneByOne(Step)' <=> OneByOne(Step)) /\ AllowedHere' = AllowedHere
    BY <1>1, HereKept DEF OneByOne
  <1>3. TypeOK' BY <1>1, <1>2 DEF TypeOK
  <1>4. MemoIs' BY <1>1 DEF MemoIs
  <1>5. /\ Head(jobs) \in SUBSET asked /\ Len(jobs) \in Nat \ {0}
        /\ Tail(jobs) \in Seq(SUBSET asked)
        /\ Len(jobs) = 1 <=> Tail(jobs) = <<>>
        /\ \A i \in DOMAIN Tail(jobs) : \E j \in DOMAIN jobs : Tail(jobs)[i] = jobs[j]
        /\ \A j \in DOMAIN jobs : \/ jobs[j] = Head(jobs)
                                  \/ \E i \in DOMAIN Tail(jobs) : Tail(jobs)[i] = jobs[j]
    BY JobIs
  <1>6. pc' \in {"resolve", "merge"} /\ (pc' = "merge" <=> jobs' = <<>>) BY <1>1, <1>5
  <1>7. JobsAre'
    <2>1. jobs' \in Seq(SUBSET asked') BY <1>1, <1>5
    <2>2. \A i \in DOMAIN jobs' : /\ jobs'[i] = {} => asked \cap live = {}
                                  /\ ~OneByOne(Step) => jobs'[i] = asked
      BY <1>1, <1>5 DEF JobsAre
    <2> QED BY <1>1, <1>2, <1>6, <2>1, <2>2 DEF JobsAre
  <1>8. TargetIs' BY <1>1, <1>6 DEF TargetIs
  <1>9. /\ ResultsIn(results \o rs, AllowedHere)
        /\ Found(results \o rs) = Found(results) \cup Found(rs)
    BY MoreResults DEF ResultsAllowed
  <1>10. ResultsAllowed' BY <1>1, <1>2, <1>6, <1>9 DEF ResultsAllowed
  <1>11. PartsAllowed'
    <2>1. parts' \in Seq(Range(parts')) /\ \A part \in Range(parts') : IsPart(part)'
      BY <1>1, PartsKept
    <2> QED BY <1>6, <2>1 DEF PartsAllowed
  <1>12. ContextCited' BY <1>6 DEF ContextCited
  <1>13. NamedSoFar'
    <2> SUFFICES ASSUME Few', NEW d \in asked \cap live, \A i \in DOMAIN jobs' : d \notin jobs'[i]
                 PROVE  NamedPages(live, d) \subseteq Found(results')
      BY <1>1 DEF NamedSoFar
    <2>1. Few /\ s.unread = {} BY <1>1 DEF Few
    <2>2. CASE d \in Head(jobs)
      <3>1. d \in target BY <2>2 DEF TargetIs
      <3> QED BY <1>1, <1>9, <2>1, <3>1
    <2>3. CASE d \notin Head(jobs)
      <3>1. \A j \in DOMAIN jobs : d \notin jobs[j] BY <1>1, <1>5, <2>3
      <3> QED BY <1>1, <1>9, <2>1, <3>1 DEF NamedSoFar
    <2> QED BY <2>2, <2>3
  <1> QED BY <1>3, <1>4, <1>7, <1>8, <1>10, <1>11, <1>12, <1>13

LEMMA SearchKeeps == IInv /\ Search => IInv'
  <1> SUFFICES ASSUME IInv, Search PROVE IInv' OBVIOUS
  <1>1. PICK w \in Searches : Collect(w, Retrieve(Searching(w), target, Quota)) BY DEF Search
  <1> DEFINE s == Searching(w)
             quota == Quota
             rs == Retrieve(s, target, quota)
             named == NamedIn(s, target)
  <1>2. pc = "retrieve" BY DEF Search
  <1>3. asked \in SUBSET Docs /\ target \in SUBSET asked /\ target \in SUBSET Docs /\ live \subseteq Docs
    BY DEF IInv, TypeOK
  <1>4. s.live = live /\ s.unread = w.unread BY DEF Searching
  <1> HIDE DEF s, quota
  <1>5. /\ ResultsIn(rs, Reach(s, target))
        /\ target # {} /\ (\A d \in target : d \in s.live /\ PageCount[d] > 0) =>
             ResultsIn(rs, Within(s, target))
        /\ target # {} /\ Cardinality(named) <= Cfg.max_rescued => named \subseteq Found(rs)
    BY <1>3, RetrieveIn
  <1> HIDE DEF rs, named
  <1>6. ResultsIn(rs, AllowedHere) BY <1>2, <1>4, <1>5, RetrievedAllowed DEF IInv
  <1>7. Few /\ w.unread = {} => \A d \in target \cap live : NamedPages(live, d) \subseteq Found(rs)
    <2> SUFFICES ASSUME Few, w.unread = {}, NEW d \in target \cap live
                 PROVE  NamedPages(live, d) \subseteq Found(rs)
      OBVIOUS
    <2>1. /\ Cardinality(named) <= Cfg.max_rescued
          /\ \A e \in target : NamedPages(live, e) \subseteq named
      BY <1>3, <1>4, NamedOf DEF named, Few
    <2> QED BY <1>5, <2>1
  <1>8. Collect(w, rs) BY <1>1 DEF rs, s, quota
  <1> QED BY <1>2, <1>6, <1>7, <1>8, CollectKeeps

LEMMA PickChaptersKeeps == IInv /\ PickChapters => IInv'
  <1> SUFFICES ASSUME IInv, PickChapters PROVE IInv' OBVIOUS
  <1> DEFINE quota == Quota
             read(s, d, picks) == IF d \in live THEN ChapterRetrieve(s, d, picks, quota) ELSE <<>>
  <1>1. PICK d \in target, w \in Searches : \E picks \in SUBSET (0..Len(Chapters[d])) :
          \/ Collect(w, Rescue(Searching(w), read(Searching(w), d, picks), {d}))
          \/ Collect(w, Retrieve(Searching(w), {d}, quota))
    BY DEF PickChapters
  <1>2. PICK picks \in SUBSET (0..Len(Chapters[d])) :
          \/ Collect(w, Rescue(Searching(w), read(Searching(w), d, picks), {d}))
          \/ Collect(w, Retrieve(Searching(w), {d}, quota))
    BY <1>1
  <1> DEFINE s == Searching(w)
             named == NamedIn(s, {d})
             first == read(s, d, picks)
  <1>3. pc = "retrieve" /\ Cardinality(target) = 1 BY DEF PickChapters
  <1>4. asked \in SUBSET Docs /\ target \in SUBSET asked /\ live \subseteq Docs
    BY DEF IInv, TypeOK
  <1>5. target = {d}
    <2>1. IsFiniteSet(target)
      <3>1. IsFiniteSet(Docs) BY StepAssumption
      <3> QED BY <1>4, <3>1, FS_Subset
    <2>2. \E x : target = {x} BY <1>3, <2>1, FS_Singleton
    <2> QED BY <1>1, <2>2
  <1>6. s.live = live /\ s.unread = w.unread BY DEF Searching
  <1> HIDE DEF s, quota, named
  <1>7. d \in Docs /\ {d} \in SUBSET Docs /\ {d} \in SUBSET asked BY <1>4, <1>5
  <1>8. ResultsIn(first, Within(s, {d}))
    <2>1. ResultsIn(ChapterRetrieve(s, d, picks, quota), Within(s, {d})) BY <1>7, ChapterRetrieveIn
    <2>2. ResultsIn(<<>>, Within(s, {d})) BY NoResults
    <2> QED BY <2>1, <2>2
  <1> HIDE DEF first, read
  <1>9. ASSUME NEW rs, Collect(w, rs), ResultsIn(rs, Reach(s, {d})),
               (\A e \in {d} : e \in s.live /\ PageCount[e] > 0) => ResultsIn(rs, Within(s, {d})),
               Cardinality(named) <= Cfg.max_rescued => named \subseteq Found(rs)
        PROVE  IInv'
    <2>1. Few /\ w.unread = {} => \A e \in target \cap live : NamedPages(live, e) \subseteq Found(rs)
      <3> SUFFICES ASSUME Few, w.unread = {} PROVE NamedPages(live, d) \subseteq Found(rs) BY <1>5
      <3>1. /\ Cardinality(named) <= Cfg.max_rescued
            /\ \A e \in {d} : NamedPages(live, e) \subseteq named
        BY <1>4, <1>6, <1>7, NamedOf DEF named, Few
      <3> QED BY <1>9, <3>1
    <2>2. ResultsIn(rs, AllowedHere) BY <1>3, <1>5, <1>6, <1>9, RetrievedAllowed DEF IInv
    <2> QED BY <1>3, <1>9, <2>1, <2>2, CollectKeeps
  <1>10. CASE Collect(w, Rescue(s, first, {d}))
    <2> DEFINE rs == Rescue(s, first, {d})
    <2>1. ResultsIn(first, Everywhere(s))
      <3>1. Within(s, {d}) \subseteq Everywhere(s) BY <1>7, PagesWithin
      <3>2. Found(first) \subseteq Within(s, {d}) BY <1>8, ResultsAre
      <3> QED BY <1>8, <3>1, <3>2, ResultsMore
    <2>2. /\ \A P : ResultsIn(first, P) /\ Within(s, {d}) \subseteq P => ResultsIn(rs, P)
          /\ Cardinality(named) <= Cfg.max_rescued => named \subseteq Found(rs)
      BY <1>7, <2>1, RescueIn DEF named
    <2> HIDE DEF rs
    <2>3. ResultsIn(rs, Within(s, {d})) BY <1>8, <2>2
    <2>4. ResultsIn(rs, Reach(s, {d}))
      <3>1. Found(rs) \subseteq Within(s, {d}) BY <2>3, ResultsAre
      <3>2. Within(s, {d}) \subseteq Reach(s, {d}) BY <1>7, ReachIs
      <3> QED BY <2>3, <3>1, <3>2, ResultsMore
    <2>5. Collect(w, rs) BY <1>10 DEF rs
    <2> QED BY <1>9, <2>2, <2>3, <2>4, <2>5
  <1>11. CASE Collect(w, Retrieve(s, {d}, quota))
    <2> DEFINE rs == Retrieve(s, {d}, quota)
    <2>1. /\ ResultsIn(rs, Reach(s, {d}))
          /\ {d} # {} /\ (\A e \in {d} : e \in s.live /\ PageCount[e] > 0) =>
               ResultsIn(rs, Within(s, {d}))
          /\ {d} # {} /\ Cardinality(named) <= Cfg.max_rescued => named \subseteq Found(rs)
      BY <1>7, RetrieveIn DEF named
    <2> HIDE DEF rs
    <2>2. Collect(w, rs) BY <1>11 DEF rs
    <2> QED BY <1>9, <2>1, <2>2
  <1> QED BY <1>2, <1>10, <1>11 DEF s, first

LEMMA DeleteKeeps == ASSUME IInv, NEW e \in Docs, Delete(e) PROVE IInv'
  <1> USE DEF IInv
  <1>1. /\ live' \subseteq live /\ live' \subseteq Docs
        /\ UNCHANGED <<plan, pc, at, asked, memo, jobs, target, results, unread, parts, cited, cut,
                       skipped, context>>
    BY DEF Delete, TypeOK
  <1>2. /\ Step' = Step /\ Steps' = Steps
        /\ \A step : OneByOne(step)' = OneByOne(step)
    BY <1>1 DEF Step, Steps, OneByOne
  <1>3. TypeOK' BY <1>1, <1>2 DEF TypeOK
  <1>4. MemoIs' BY <1>1 DEF MemoIs
  <1>5. JobsAre'
    <2>1. asked \cap live = {} => asked \cap live' = {} BY <1>1
    <2>2. OneByOne(Step)' <=> OneByOne(Step) BY <1>1, <1>2 DEF OneByOne
    <2> QED BY <1>1, <2>1, <2>2 DEF JobsAre
  <1>6. TargetIs' BY <1>1 DEF TargetIs
  <1>7. \A ds : OwnPages(ds) \subseteq AllPages BY DEF OwnPages
  <1>8. ResultsAllowed'
    <2>1. ResultsIn(results, AllowedHere) BY DEF ResultsAllowed
    <2>2. Found(results) \subseteq AllowedHere BY <2>1, ResultsAre
    <2>3. OneByOne(Step)' <=> OneByOne(Step) BY <1>1, <1>2 DEF OneByOne
    <2>4. AllowedHere \subseteq AllowedHere'
      BY <1>1, <1>7, <2>3 DEF AllowedHere, Allowed, AllThere, Lost
    <2> DEFINE more == AllowedHere'
    <2> HIDE DEF more
    <2>5. ResultsIn(results, more) BY <2>1, <2>2, <2>4, ResultsMore DEF more
    <2> QED BY <1>1, <2>5 DEF ResultsAllowed, more
  <1>9. PartsAllowed'
    <2>1. ASSUME NEW part \in Range(parts) PROVE IsPart(part)'
      <3>1. IsPart(part) BY DEF PartsAllowed
      <3> DEFINE given == Allowed(part.filter, OneByOne(Steps[part.step]))
                 more == given'
      <3>2. TextOf(part.text, given) BY <3>1 DEF IsPart
      <3>3. OneByOne(Steps[part.step])' <=> OneByOne(Steps[part.step]) BY <1>1, <1>2 DEF OneByOne
      <3>4. given \subseteq more BY <1>1, <1>7, <3>3 DEF Allowed, AllThere, Lost
      <3> HIDE DEF given, more
      <3>5. TextOf(part.text, more) BY <3>2, <3>4, TextsAre
      <3> QED BY <1>1, <1>2, <3>1, <3>5 DEF IsPart, more, given
    <2> QED BY <1>1, <2>1 DEF PartsAllowed
  <1>10. ContextCited' BY <1>1 DEF ContextCited
  <1>11. NamedSoFar'
    <2>1. \A d \in live' : NamedPages(live', d) = NamedPages(live, d)
      <3> TAKE d \in live'
      <3> DEFINE u == [live |-> live']
                 t == [live |-> live]
      <3>1. d \in live BY <1>1
      <3>2. PagesOf(u, d) = PagesOf(t, d) BY <3>1 DEF PagesOf
      <3> HIDE DEF u, t
      <3>3. \A w : Selective(u, {}, d, w) = Selective(t, {}, d, w) BY <3>2 DEF Selective
      <3>4. NamedBy(u, {}, d, Scanned(d)) = NamedBy(t, {}, d, Scanned(d)) BY <3>3 DEF NamedBy
      <3> QED BY <3>4 DEF NamedPages, u, t
    <2> QED BY <1>1, <2>1 DEF NamedSoFar, Few
  <1> QED BY <1>3, <1>4, <1>5, <1>6, <1>8, <1>9, <1>10, <1>11

LEMMA NonsenseKeeps == IInv /\ PickNonsense => IInv'
  <1> SUFFICES ASSUME IInv, PickNonsense PROVE IInv' OBVIOUS
  <1> USE DEF IInv
  <1>1. /\ pc' = "raised"
        /\ UNCHANGED <<plan, at, asked, memo, jobs, target, results, unread, parts, cited, cut, skipped,
                       context, live>>
    BY DEF PickNonsense
  <1>2. Step' = Step /\ Steps' = Steps /\ (OneByOne(Step)' <=> OneByOne(Step)) /\ AllowedHere' = AllowedHere
    BY <1>1, HereKept DEF OneByOne
  <1>3. TypeOK' BY <1>1, <1>2 DEF TypeOK
  <1>4. MemoIs' /\ TargetIs' BY <1>1 DEF MemoIs, TargetIs
  <1>5. JobsAre' BY <1>1, <1>2 DEF JobsAre
  <1>6. ResultsAllowed' BY <1>1, <1>2 DEF ResultsAllowed
  <1>7. PartsAllowed'
    <2>1. parts' \in Seq(Range(parts')) /\ \A part \in Range(parts') : IsPart(part)'
      BY <1>1, PartsKept
    <2> QED BY <1>1, <2>1 DEF PartsAllowed
  <1>8. ContextCited' /\ NamedSoFar' BY <1>1 DEF ContextCited, NamedSoFar
  <1> QED BY <1>3, <1>4, <1>5, <1>6, <1>7, <1>8

-----------------------------------------------------------------------------
(* The shares of the steps.                                                *)

LEMMA Sum0Steps ==
  ASSUME NEW s, Len(s) \in Nat
  PROVE  \E f : /\ f[0] = 0 /\ \A i \in 1..Len(s) : f[i] = f[i - 1] + s[i]
                /\ Sum0(s) = f[Len(s)]
  <1> DEFINE n == Len(s)
             base == 0
             op(a, x) == a + x
             E(g) == [i \in 0..n |->
                        IF i = 0 THEN base ELSE At(g[i - 1], LAMBDA a : op(a, s[i]))]
             f == CHOOSE g : g = E(g)
  <1>100. n \in Nat OBVIOUS
  <1>1. Sum0(s) = f[n] BY DEF Sum0, Fold
  <1> HIDE DEF op, base, n
  <1> DEFINE H(m, h) == h = [i \in 0..m |-> IF i = 0 THEN base ELSE op(h[i - 1], s[i])]
             T == {m \in 0..n : \E h : H(m, h)}
  <1>101. 0 \in T
    <2>1. H(0, [i \in 0..0 |-> base]) OBVIOUS
    <2> HIDE DEF H
    <2> QED BY <1>100, <2>1
  <1>102. ASSUME NEW m \in 1..n, m - 1 \in T PROVE m \in T
    <2>1. m \in 0..n BY <1>100
    <2>2. PICK h : H(m - 1, h) BY <1>102
    <2> DEFINE g == [i \in 0..m |-> IF i = m THEN op(h[m - 1], s[m]) ELSE h[i]]
    <2>3. ASSUME NEW i \in 0..m PROVE g[i] = IF i = 0 THEN base ELSE op(g[i - 1], s[i])
      <3>1. CASE i = m
        <4>1. m - 1 \in 0..m /\ m # 0 /\ m - 1 # m BY <1>100
        <4> QED BY <3>1, <4>1
      <3>2. CASE i # m
        <4>1. i \in 0..(m - 1) BY <1>100, <3>2
        <4>2. i # 0 => i - 1 \in 0..m /\ i - 1 # m BY <1>100, <3>2
        <4>3. g[i] = h[i] /\ (i # 0 => g[i - 1] = h[i - 1]) BY <3>2, <4>2
        <4>4. h[i] = IF i = 0 THEN base ELSE op(h[i - 1], s[i]) BY <2>2, <4>1
        <4> QED BY <4>3, <4>4
      <3> QED BY <3>1, <3>2
    <2>4. H(m, g) BY <2>3
    <2> HIDE DEF g, H
    <2> QED BY <2>1, <2>4
  <1>103. PICK h : H(n, h)
    <2> HIDE DEF T
    <2>1. \A m \in 1..n : m - 1 \in T => m \in T BY <1>102
    <2>2. \A m \in 0..n : m \in T BY <1>100, <1>101, <2>1, UpTo
    <2>3. n \in T BY <1>100, <2>2
    <2> QED BY <2>3 DEF T
  <1>104. \A g, i : At(g[i - 1], LAMBDA a : op(a, s[i])) = op(g[i - 1], s[i])
    BY Zenon DEF At
  <1>105. h = E(h) BY <1>103, <1>104
  <1> HIDE DEF E, H, T
  <1>106. f = E(f) BY <1>105, Zenon
  <1> HIDE DEF f
  <1>107. \A i \in 0..n : f[i] = IF i = 0 THEN base ELSE op(f[i - 1], s[i]) BY <1>104, <1>106 DEF E
  <1>108. f[0] = base /\ \A i \in 1..n : i - 1 \in 0..n /\ f[i] = op(f[i - 1], s[i])
    <2>1. 0 \in 0..n /\ \A i \in 1..n : i \in 0..n /\ i # 0 /\ i - 1 \in 0..n BY <1>100
    <2> QED BY <1>107, <2>1
  <1> HIDE DEF E, f
  <1>2. \A i \in 1..n : f[i] = op(f[i - 1], s[i]) BY <1>108
  <1> QED BY <1>1, <1>2, <1>108 DEF op, base, n

LEMMA Sum0Is ==
  ASSUME NEW n \in Nat, NEW s, Row(s, n)
  PROVE  /\ (\A i \in 1..n : s[i] \in Int) => Sum0(s) \in Int
         /\ (\A i \in 1..n : s[i] \in Nat) => Sum0(s) \in Nat
  <1>1. Len(s) = n BY DEF Row
  <1>2. PICK f : /\ f[0] = 0 /\ \A i \in 1..n : f[i] = f[i - 1] + s[i]
                 /\ Sum0(s) = f[n]
    BY <1>1, Sum0Steps
  <1>3. ASSUME \A i \in 1..n : s[i] \in Int PROVE Sum0(s) \in Int
    <2> DEFINE T == {i \in 0..n : f[i] \in Int}
    <2>1. 0 \in T BY <1>2
    <2>2. ASSUME NEW i \in 1..n, i - 1 \in T PROVE i \in T
      <3>1. i \in 0..n /\ f[i - 1] \in Int BY <2>2
      <3> QED BY <1>2, <1>3, <3>1
    <2> HIDE DEF T
    <2>3. \A i \in 0..n : i \in T BY <2>1, <2>2, UpTo
    <2>4. n \in T BY <2>3
    <2> QED BY <1>2, <2>4 DEF T
  <1>4. ASSUME \A i \in 1..n : s[i] \in Nat PROVE Sum0(s) \in Nat
    <2> DEFINE T == {i \in 0..n : f[i] \in Nat}
    <2>1. 0 \in T BY <1>2
    <2>2. ASSUME NEW i \in 1..n, i - 1 \in T PROVE i \in T
      <3>1. i \in 0..n /\ f[i - 1] \in Nat BY <2>2
      <3> QED BY <1>2, <1>4, <3>1
    <2> HIDE DEF T
    <2>3. \A i \in 0..n : i \in T BY <2>1, <2>2, UpTo
    <2>4. n \in T BY <2>3
    <2> QED BY <1>2, <2>4 DEF T
  <1> QED BY <1>3, <1>4

LEMMA PortionsAre ==
  ASSUME NEW n \in Nat, NEW fs, Row(fs, n), \A i \in 1..n : IsFiniteSet(fs[i])
  PROVE  \A i \in 1..n : Portions(fs)[i] \in Int
  <1> DEFINE card == [i \in DOMAIN fs |-> Cardinality(fs[i])]
             docs == Sum0(card)
             free == {i \in DOMAIN fs : fs[i] = {}}
             own(i) == IF docs = 0 THEN 0
                       ELSE (((Cfg.max_chars * 4) \div 5) * Cardinality(fs[i])) \div docs
             owns == [i \in DOMAIN fs |-> own(i)]
             left == Cfg.max_chars - Sum0(owns)
  <1>1. DOMAIN fs = 1..n BY DEF Row
  <1>2. \A i \in 1..n : Cardinality(fs[i]) \in Nat BY FS_CardinalityType
  <1>3. docs \in Nat
    <2>1. Row(card, n) /\ \A i \in 1..n : card[i] \in Nat BY <1>1, <1>2 DEF Row
    <2> HIDE DEF card
    <2> QED BY <2>1, Sum0Is
  <1> HIDE DEF docs, card
  <1>4. ASSUME NEW i \in 1..n PROVE own(i) \in Nat
    <2> DEFINE whole == (Cfg.max_chars * 4) \div 5
               c == Cardinality(fs[i])
               x == whole * c
    <2>1. Cfg.max_chars \in Nat BY LimitsAre
    <2>2. whole \in Nat BY <2>1
    <2>3. c \in Nat BY <1>2
    <2> HIDE DEF whole, c
    <2>4. x \in Nat BY <2>2, <2>3
    <2> HIDE DEF x
    <2>5. docs # 0 => x \div docs \in Nat BY <1>3, <2>4, Divided
    <2> QED BY <2>5 DEF x, whole, c
  <1> HIDE DEF own
  <1>5. left \in Int
    <2>1. Row(owns, n) /\ \A i \in 1..n : owns[i] \in Nat BY <1>1, <1>4 DEF Row
    <2> HIDE DEF owns
    <2>2. Sum0(owns) \in Nat BY <2>1, Sum0Is
    <2> QED BY <2>2, LimitsAre
  <1> HIDE DEF left, owns
  <1>6. ASSUME NEW i \in free PROVE left \div Cardinality(free) \in Int
    <2>1. IsFiniteSet(free)
      <3>1. IsFiniteSet(1..n)
        <4>1. 1 \in Int /\ n \in Int OBVIOUS
        <4> QED BY <4>1, FS_Interval
      <3> QED BY <1>1, <3>1, FS_Subset
    <2>2. free # {} BY <1>6
    <2> DEFINE c == Cardinality(free)
    <2> HIDE DEF free
    <2>3. c \in Nat /\ c # 0 BY <2>1, <2>2, FS_CardinalityType, FS_EmptySet
    <2> HIDE DEF c
    <2>4. left \div c \in Int BY <1>5, <2>3
    <2> QED BY <2>4 DEF c
  <1>7. Portions(fs) = [i \in DOMAIN fs |-> IF i \in free THEN left \div Cardinality(free) ELSE own(i)]
    BY DEF Portions, left, owns, own, docs, card
  <1>8. \A i \in 1..n : Portions(fs)[i] = IF i \in free THEN left \div Cardinality(free) ELSE own(i)
    <2> HIDE DEF free
    <2> QED BY <1>1, <1>7
  <1> HIDE DEF free
  <1> QED BY <1>4, <1>6, <1>8

LEMMA QuotasAre ==
  ASSUME NEW n \in Nat \ {0}, NEW fs, Row(fs, n), \A i \in 1..n : IsFiniteSet(fs[i])
  PROVE  \A i \in 1..n : Quotas(fs)[i] \in Nat
  <1> DEFINE least == IF n = 1 THEN Min({Cfg.min_single_step, Cfg.max_chars})
                               ELSE Min({Cfg.min_step, Cfg.max_chars \div n})
             raised(q) == IF n = 1 THEN Min({Max({q, least}), Cfg.single_step_max}) ELSE Max({q, least})
             F(qs) == IF Sum0(qs) <= Cfg.multi_step_max THEN qs
                      ELSE [i \in DOMAIN qs |-> (qs[i] * Cfg.multi_step_max) \div Sum0(qs)]
             qs == [i \in DOMAIN fs |-> raised(Portions(fs)[i])]
  <1>1. Len(fs) = n /\ DOMAIN fs = 1..n BY DEF Row
  <1>2. Quotas(fs) = F(qs)
    <2>1. Quotas(fs) = At(qs, F) BY <1>1 DEF Quotas
    <2> HIDE DEF F, qs
    <2> QED BY <2>1, Zenon DEF At
  <1>3. least \in Nat
    <2>1. /\ Cfg.min_single_step \in Nat /\ Cfg.max_chars \in Nat /\ Cfg.min_step \in Nat
      BY LimitsAre
    <2> DEFINE part == Cfg.max_chars \div n
    <2>2. part \in Nat BY <2>1, Divided
    <2> HIDE DEF part
    <2>3. Min({Cfg.min_single_step, Cfg.max_chars}) \in Nat BY <2>1, MinOfTwo
    <2>4. Min({Cfg.min_step, part}) \in Nat BY <2>1, <2>2, MinOfTwo
    <2> QED BY <2>3, <2>4 DEF part
  <1> HIDE DEF least
  <1>4. ASSUME NEW q \in Int PROVE raised(q) \in Nat
    <2> DEFINE top == Max({q, least})
    <2>1. top = IF q >= least THEN q ELSE least BY <1>3, MaxOfTwo
    <2> HIDE DEF top
    <2>2. top \in Nat BY <1>3, <2>1
    <2>3. Cfg.single_step_max \in Nat BY LimitsAre
    <2>4. Min({top, Cfg.single_step_max}) \in Nat BY <2>2, <2>3, MinOfTwo
    <2> QED BY <2>2, <2>4 DEF top
  <1> HIDE DEF raised
  <1>5. Row(qs, n) /\ \A i \in 1..n : qs[i] \in Nat
    <2>1. \A i \in 1..n : Portions(fs)[i] \in Int BY PortionsAre
    <2> QED BY <1>1, <1>4, <2>1 DEF Row
  <1> HIDE DEF qs
  <1> DEFINE sum == Sum0(qs)
  <1>6. sum \in Nat BY <1>5, Sum0Is
  <1> HIDE DEF sum
  <1>7. CASE sum <= Cfg.multi_step_max BY <1>2, <1>5, <1>7 DEF sum
  <1>8. CASE ~(sum <= Cfg.multi_step_max)
    <2>1. DOMAIN qs = 1..n BY <1>5 DEF Row
    <2>2. F(qs) = [i \in DOMAIN qs |-> (qs[i] * Cfg.multi_step_max) \div sum] BY <1>8 DEF sum
    <2> HIDE DEF F
    <2>3. Cfg.multi_step_max \in Nat BY LimitsAre
    <2>4. ASSUME NEW i \in 1..n PROVE Quotas(fs)[i] \in Nat
      <3> DEFINE x == qs[i] * Cfg.multi_step_max
      <3>1. x \in Nat BY <1>5, <2>3
      <3>2. Quotas(fs)[i] = x \div sum BY <1>2, <2>1, <2>2
      <3>3. sum # 0 BY <1>6, <1>8, <2>3
      <3> HIDE DEF x
      <3> QED BY <1>6, <3>1, <3>2, <3>3, Divided
    <2> QED BY <2>4
  <1> QED BY <1>7, <1>8

LEMMA QuotaIs ==
  ASSUME TypeOK
  PROVE  Quota \in Nat
  <1> DEFINE fs == [i \in DOMAIN Steps |-> StepFilter(Steps[i])]
             n == Len(Steps)
  <1>1. /\ n \in Nat /\ DOMAIN Steps = 1..n /\ at[1] \in 1..n
        /\ \A i \in 1..n : \A j \in DOMAIN Steps[i].filters : Steps[i].filters[j] \in SUBSET Docs
    BY PlanIs
  <1> HIDE DEF n
  <1>2. n \in Nat \ {0} BY <1>1
  <1>3. Row(fs, n) /\ \A i \in 1..n : fs[i] = UNION Range(Steps[i].filters)
    BY <1>1 DEF Row, StepFilter
  <1>4. ASSUME NEW i \in 1..n PROVE IsFiniteSet(fs[i])
    <2>1. fs[i] \subseteq Docs BY <1>1, <1>3 DEF Range
    <2> QED BY <2>1, StepAssumption, FS_Subset
  <1> HIDE DEF fs
  <1>5. Quotas(fs)[at[1]] \in Nat BY <1>1, <1>2, <1>3, <1>4, QuotasAre
  <1> QED BY <1>5 DEF Quota, Shares, fs

\* The texts of the parts so far.
PartTexts == [i \in DOMAIN parts |-> parts[i].text]

LEMMA PartTextsAre ==
  ASSUME PartsAllowed
  PROVE  /\ Len(parts) \in Nat /\ DOMAIN parts = 1..Len(parts)
         /\ Row(PartTexts, Len(parts)) /\ Used = Size(Joined(PartTexts))
         /\ \A i \in 1..Len(parts) : /\ PartTexts[i] = parts[i].text /\ IsPart(parts[i])
                                     /\ TextOf(parts[i].text, cited)
         /\ Used \in Nat
  <1> DEFINE n == Len(parts)
             X == Range(parts)
  <1>1. parts \in Seq(X) /\ \A part \in X : IsPart(part) BY DEF PartsAllowed
  <1> HIDE DEF X
  <1>2. n \in Nat /\ DOMAIN parts = 1..n /\ \A i \in 1..n : parts[i] \in X BY <1>1
  <1> HIDE DEF n
  <1>3. \A i \in 1..n : PartTexts[i] = parts[i].text /\ IsPart(parts[i]) BY <1>1, <1>2 DEF PartTexts
  <1>4. \A i \in 1..n : TextOf(parts[i].text, cited) BY <1>3 DEF IsPart
  <1>5. Row(PartTexts, n) BY <1>2 DEF Row, PartTexts
  <1>6. Used = Size(Joined(PartTexts)) BY DEF Used, PartTexts
  <1>7. TextOf(Joined(PartTexts), cited) BY <1>2, <1>3, <1>4, <1>5, JoinedTexts
  <1> DEFINE j == Joined(PartTexts)
  <1>8. TextOf(j, cited) BY <1>7
  <1> HIDE DEF j
  <1>9. Size(j) \in Nat BY <1>8, SizeIs
  <1> QED BY <1>2, <1>3, <1>4, <1>5, <1>6, <1>9 DEF n, j

\* On to the next sub-query or step, with what its part was given.
LEMMA ProceedKeeps ==
  ASSUME IInv, pc = "merge", Proceed, skipped' \in BOOLEAN, cut' \in BOOLEAN,
         UNCHANGED <<plan, memo, jobs, target, context, live>>,
         cited' \subseteq AllPages,
         parts' \in Seq(Range(parts')), parts' # <<>>,
         \A part \in Range(parts') :
           /\ part = [step |-> part.step, filter |-> part.filter, text |-> part.text]
           /\ part.step \in 1..at[1] /\ part.filter \in SUBSET Docs
           /\ TextOf(part.text, Allowed(part.filter, OneByOne(Steps[part.step])))
           /\ TextOf(part.text, cited')
  PROVE  IInv'
  <1> DEFINE next == IF at[2] < Len(Step.filters) THEN <<at[1], at[2] + 1>> ELSE <<at[1] + 1, 1>>
  <1>2. /\ Len(Steps) \in Nat
        /\ \A i \in 1..Len(Steps) :
             /\ 1 \in DOMAIN Steps[i].filters
             /\ DOMAIN Steps[i].filters = 1..Len(Steps[i].filters) /\ Len(Steps[i].filters) \in Nat
        /\ DOMAIN Steps = 1..Len(Steps)
        /\ at[1] \in 1..Len(Steps) /\ at[2] \in 1..Len(Step.filters)
    <2>1. TypeOK BY DEF IInv
    <2> QED BY <2>1, PlanIs
  <1>12. at[2] < Len(Step.filters) => at[2] + 1 \in 1..Len(Step.filters)
    <2>1. Len(Step.filters) \in Nat BY <1>2 DEF Step
    <2> QED BY <1>2, <2>1
  <1> USE DEF IInv
  <1>1. results' = <<>> /\ unread' = FALSE BY DEF Proceed
  <1>3. /\ Steps' = Steps
        /\ \A ds, one : Allowed(ds, one)' = Allowed(ds, one)
        /\ \A step : OneByOne(step)' = OneByOne(step)
    BY HereKept
  <1>4. jobs = <<>> /\ target = {} BY DEF JobsAre, TargetIs
  <1>5. ASSUME at[1]' >= at[1], at[1]' \in Nat PROVE \A part \in Range(parts') : IsPart(part)'
    <2>1. \A part \in Range(parts') : part.step \in 1..at[1]' BY <1>2, <1>5
    <2> QED BY <1>3, <2>1 DEF IsPart
  <1>6. cited' \subseteq UNION {{<<d, n>> : n \in 1..PageCount[d]} : d \in Docs} BY DEF AllPages
  <1>7. MemoIs' BY DEF MemoIs
  <1>8. ResultsAllowed' BY <1>1, NoResults DEF ResultsAllowed
  <1>9. \A i : i \notin DOMAIN jobs' BY <1>4
  <1>10. CASE next[1] > Len(Steps) \/ skipped'
    <2>1. pc' = "assemble" /\ UNCHANGED <<at, asked>> BY <1>10 DEF Proceed
    <2>2. TypeOK' BY <1>1, <1>3, <1>6, <2>1 DEF TypeOK, Step
    <2>3. JobsAre' /\ TargetIs' BY <1>9, <2>1 DEF JobsAre, TargetIs
    <2>4. PartsAllowed' BY <1>2, <1>5, <2>1 DEF PartsAllowed
    <2>5. ContextCited' /\ NamedSoFar' BY <2>1 DEF ContextCited, NamedSoFar
    <2> QED BY <1>7, <1>8, <2>2, <2>3, <2>4, <2>5
  <1>11. CASE ~(next[1] > Len(Steps) \/ skipped')
    <2>1. pc' = "start" /\ at' = next /\ asked' = {} BY <1>11 DEF Proceed
    <2>2. next[1] \in 1..Len(Steps) /\ next[1] >= at[1] BY <1>2, <1>11
    <2>3. next[2] \in DOMAIN Steps[next[1]].filters
      <3>1. CASE at[2] < Len(Step.filters)
        <4>1. next = <<at[1], at[2] + 1>> BY <3>1
        <4>2. at[2] + 1 \in 1..Len(Step.filters) BY <1>12, <3>1, Zenon
        <4>3. at[2] + 1 \in DOMAIN Steps[at[1]].filters BY <1>2, <4>2 DEF Step
        <4> QED BY <4>1, <4>3
      <3>2. CASE ~(at[2] < Len(Step.filters))
        <4>1. next[2] = 1 BY <3>2
        <4> HIDE DEF next
        <4> QED BY <1>2, <2>2, <4>1
      <3> QED BY <3>1, <3>2
    <2>4. at[1]' = next[1] /\ at[2]' = next[2] BY <2>1
    <2> HIDE DEF next
    <2>5. Step' = Steps[next[1]] BY <1>3, <2>4 DEF Step
    <2>6. TypeOK' BY <1>1, <1>2, <1>3, <1>4, <1>6, <2>1, <2>2, <2>3, <2>4, <2>5 DEF TypeOK
    <2>7. JobsAre' /\ TargetIs'
      <3>1. jobs' \in Seq(SUBSET asked') BY <1>4
      <3> QED BY <1>4, <1>9, <2>1, <3>1 DEF JobsAre, TargetIs
    <2>8. PartsAllowed' BY <1>2, <1>5, <2>1, <2>2, <2>4 DEF PartsAllowed
    <2>9. ContextCited' /\ NamedSoFar' BY <2>1 DEF ContextCited, NamedSoFar
    <2> QED BY <1>7, <1>8, <2>6, <2>7, <2>8, <2>9
  <1> QED BY <1>10, <1>11

\* The sections the merger is given besides are of the documents found.
LEMMA LayingIs ==
  ASSUME IInv
  PROVE  ResultsIn(Laying, AllowedHere)
  <1> DEFINE P == AllowedHere
             s == [live |-> live]
  <1>1. asked \in SUBSET Docs BY DEF IInv, TypeOK
  <1>2. /\ P \subseteq AllPages
        /\ \A p \in P, q \in AllPages : q[1] = p[1] => q \in P
    BY <1>1, AllowedIs DEF AllowedHere
  <1>3. ResultsIn(results, P) BY DEF IInv, ResultsAllowed
  <1> HIDE DEF P, s
  <1>4. ResultsIn(WithSections(s, results), P) BY <1>2, <1>3, SectionsIn
  <1> QED BY <1>4 DEF Laying, P, s

\* What is laid is cited, and is what the documents of the step allow.
LEMMA LayIs ==
  ASSUME IInv, NEW max \in Int, NEW most \in Int, NEW m, m = Merge(Laying, max), Lay(m, most)
  PROVE  /\ cut' \in BOOLEAN /\ cited' \subseteq AllPages
         /\ parts' \in Seq(Range(parts')) /\ parts' # <<>>
         /\ \A part \in Range(parts') :
              /\ part = [step |-> part.step, filter |-> part.filter, text |-> part.text]
              /\ part.step \in 1..at[1] /\ part.filter \in SUBSET Docs
              /\ TextOf(part.text, Allowed(part.filter, OneByOne(Steps[part.step])))
              /\ TextOf(part.text, cited')
  <1> DEFINE text == Cut(m.text, most)
             new == [step |-> at[1], filter |-> asked, text |-> text]
  <1>1. parts' = Append(parts, new) /\ cited' = cited \cup m.cited /\ cut' \in BOOLEAN
    BY DEF Lay
  <1>2. /\ asked \in SUBSET Docs /\ at[1] \in Nat \ {0}
        /\ cited \subseteq AllPages
    BY PlanIs DEF IInv, TypeOK, AllPages
  <1>3. TextOf(m.text, m.cited) /\ m.cited \subseteq AllowedHere
    <2>1. ResultsIn(Laying, AllowedHere) BY LayingIs
    <2> QED BY <2>1, MergeLays
  <1>4. TextOf(text, m.cited) BY <1>3, CutText
  <1> HIDE DEF text
  <1>5. m.cited \subseteq AllPages BY <1>2, <1>3, AllowedIs DEF AllowedHere
  <1>6. TextOf(text, AllowedHere) /\ TextOf(text, cited') BY <1>1, <1>3, <1>4, TextsAre
  <1> DEFINE ok(part) ==
        /\ part = [step |-> part.step, filter |-> part.filter, text |-> part.text]
        /\ part.step \in 1..at[1] /\ part.filter \in SUBSET Docs
        /\ TextOf(part.text, Allowed(part.filter, OneByOne(Steps[part.step])))
        /\ TextOf(part.text, cited')
  <1>7. ok(new)
    <2>1. AllowedHere = Allowed(asked, OneByOne(Steps[at[1]])) BY DEF AllowedHere, Step
    <2>2. new = [step |-> at[1], filter |-> asked, text |-> text] OBVIOUS
    <2>3. new.step = at[1] /\ new.filter = asked /\ new.text = text BY <2>2
    <2> HIDE DEF new
    <2> QED BY <1>2, <1>6, <2>1, <2>2, <2>3
  <1>8. ASSUME NEW part \in Range(parts) PROVE ok(part)
    <2>1. IsPart(part) BY DEF IInv, PartsAllowed
    <2>2. TextOf(part.text, cited) BY <2>1 DEF IsPart
    <2>3. TextOf(part.text, cited') BY <1>1, <2>2, TextsAre
    <2> QED BY <2>1, <2>3 DEF IsPart
  <1> HIDE DEF ok, new
  <1> DEFINE X == Range(parts) \cup {new}
  <1>9. parts \in Seq(Range(parts)) BY DEF IInv, PartsAllowed
  <1>10. \A part \in X : ok(part) BY <1>7, <1>8
  <1>11. parts \in Seq(X) /\ new \in X
    <2> DEFINE Y == Range(parts)
    <2>1. Y \subseteq X OBVIOUS
    <2>2. parts \in Seq(Y) BY <1>9
    <2> HIDE DEF Y, X
    <2>3. parts \in Seq(X) BY <2>1, <2>2
    <2> QED BY <2>3 DEF X
  <1> HIDE DEF X
  <1>12. parts' \in Seq(X) /\ parts' # <<>> BY <1>1, <1>11
  <1>13. parts' \in Seq(Range(parts')) /\ Range(parts') \subseteq X BY <1>12, SeqOfItsOwn
  <1>14. \A part \in Range(parts') : ok(part) BY <1>10, <1>13
  <1>15. cited' \subseteq AllPages BY <1>1, <1>2, <1>5
  <1> QED BY <1>1, <1>12, <1>13, <1>14, <1>15 DEF ok

LEMMA MergeStepKeeps == IInv /\ MergeStep => IInv'
  <1> SUFFICES ASSUME IInv, MergeStep PROVE IInv' OBVIOUS
  <1>1. /\ pc = "merge" /\ Proceed /\ UNCHANGED <<plan, memo, jobs, target, context, live>>
        /\ skipped' \in BOOLEAN
    BY DEF MergeStep
  <1> DEFINE left == Cfg.max_chars - Used
             most == Quota
             max == Min({most, left})
  <1>2. PICK m \in {Merge(Laying, max)} : Lay(m, most) BY DEF MergeStep
  <1>3. most \in Int /\ left \in Int
    <2>1. Used \in Nat BY PartTextsAre DEF IInv
    <2>2. Cfg.max_chars \in Nat BY LimitsAre
    <2>3. Quota \in Nat BY QuotaIs DEF IInv
    <2> QED BY <2>1, <2>2, <2>3
  <1> HIDE DEF left, most
  <1>4. max \in Int BY <1>3, MinOfTwo
  <1> HIDE DEF max
  <1> QED BY <1>1, <1>2, <1>3, <1>4, LayIs, ProceedKeeps

LEMMA MergeSubQueryKeeps == IInv /\ MergeSubQuery => IInv'
  <1> SUFFICES ASSUME IInv, MergeSubQuery PROVE IInv' OBVIOUS
  <1>1. /\ pc = "merge" /\ Proceed /\ UNCHANGED <<plan, memo, jobs, target, context, live>>
        /\ skipped' \in BOOLEAN
    BY DEF MergeSubQuery, IInv, TypeOK
  <1> DEFINE left == Cfg.sub_merge_cap
             most == Quota
             max == Min({most, left})
  <1>2. PICK m \in {Merge(Laying, max)} : Lay(m, most) BY DEF MergeSubQuery
  <1>3. most \in Int /\ left \in Int BY QuotaIs, LimitsAre DEF IInv
  <1> HIDE DEF left, most
  <1>4. max \in Int BY <1>3, MinOfTwo
  <1> HIDE DEF max
  <1> QED BY <1>1, <1>2, <1>3, <1>4, LayIs, ProceedKeeps

\* The text of a step is made of its parts and of headings.
LEMMA TextOfStepIs ==
  ASSUME PartsAllowed, NEW i
  PROVE  TextOf(TextOfStep(i), cited)
  <1> DEFINE I == {j \in DOMAIN parts : parts[j].step = i}
             own == Keep(parts, I)
             n == Len(own)
             plain == [j \in DOMAIN own |-> own[j].text]
             headed == [j \in DOMAIN own |-> <<Heading>> \o own[j].text]
             X == Range(parts)
  <1>1. parts \in Seq(X) /\ \A part \in X : TextOf(part.text, cited)
    BY DEF PartsAllowed, IsPart
  <1> HIDE DEF I, X
  <1>2. own \in Seq(X) BY <1>1, KeepOf
  <1> HIDE DEF own
  <1>3. n \in Nat /\ DOMAIN own = 1..n /\ \A j \in 1..n : own[j] \in X BY <1>2
  <1> HIDE DEF n
  <1>4. Row(plain, n) /\ \A j \in 1..n : plain[j] = own[j].text BY <1>3 DEF Row
  <1>5. Row(headed, n) /\ \A j \in 1..n : headed[j] = <<Heading>> \o own[j].text
    BY <1>3 DEF Row
  <1> HIDE DEF plain, headed
  <1>6. TextOf(<<Heading>>, cited)
    <2>1. "heading" # "page" OBVIOUS
    <2> QED BY <2>1, LimitsAre, PieceOf DEF Heading
  <1>7. \A j \in 1..n : TextOf(plain[j], cited) BY <1>1, <1>3, <1>4
  <1>8. \A j \in 1..n : TextOf(headed[j], cited)
    <2> TAKE j \in 1..n
    <2> DEFINE t == own[j].text
               h == <<Heading>>
    <2>1. TextOf(t, cited) BY <1>1, <1>3
    <2>2. headed[j] = h \o t BY <1>5
    <2>3. TextOf(h, cited) BY <1>6
    <2> HIDE DEF t, h
    <2> QED BY <2>1, <2>2, <2>3, MoreText
  <1>9. TextOf(Joined(plain), cited) BY <1>3, <1>4, <1>7, JoinedTexts DEF n
  <1>10. TextOf(Joined(headed), cited) BY <1>3, <1>5, <1>8, JoinedTexts DEF n
  <1>11. TextOf(<<Heading>> \o Joined(headed), cited)
    <2> DEFINE t == Joined(headed)
               h == <<Heading>>
    <2> HIDE DEF t, h
    <2>1. TextOf(t, cited) /\ TextOf(h, cited) BY <1>6, <1>10 DEF t, h
    <2>2. TextOf(h \o t, cited) BY <2>1, MoreText
    <2> QED BY <2>2 DEF t, h
  <1>12. TextOfStep(i) = IF plan.strategy = "standard" THEN Joined(plain)
                         ELSE <<Heading>> \o Joined(headed)
    BY DEF TextOfStep, own, I, plain, headed
  <1> QED BY <1>9, <1>11, <1>12

LEMMA FinishKeeps == IInv /\ Finish => IInv'
  <1> SUFFICES ASSUME IInv, Finish PROVE IInv' OBVIOUS
  <1> USE DEF IInv
  <1> DEFINE least == IF plan.strategy = "standard" THEN Cfg.least_standard ELSE Cfg.least_decomposed
             n == parts[Len(parts)].step
  <1>1. /\ pc = "assemble" /\ pc' = "done" /\ cut' \in BOOLEAN
        /\ context' = Assemble(Texts, least)
        /\ UNCHANGED <<plan, at, asked, memo, jobs, target, results, unread, parts, cited, skipped, live>>
    BY DEF Finish
  <1>2. Step' = Step /\ Steps' = Steps /\ (OneByOne(Step)' <=> OneByOne(Step)) /\ AllowedHere' = AllowedHere
    BY <1>1, HereKept DEF OneByOne
  <1>3. TypeOK' BY <1>1, <1>2 DEF TypeOK
  <1>4. MemoIs' /\ TargetIs' BY <1>1 DEF MemoIs, TargetIs
  <1>5. JobsAre' BY <1>1, <1>2 DEF JobsAre
  <1>6. ResultsAllowed' BY <1>1, <1>2 DEF ResultsAllowed
  <1>7. PartsAllowed'
    <2>1. parts' \in Seq(Range(parts')) /\ \A part \in Range(parts') : IsPart(part)'
      BY <1>1, PartsKept
    <2> QED BY <1>1, <2>1 DEF PartsAllowed
  <1>8. ContextCited'
    <2>1. n \in Nat
      <3> DEFINE X == Range(parts)
      <3>1. parts \in Seq(X) /\ parts # <<>> BY <1>1 DEF PartsAllowed
      <3> HIDE DEF X
      <3>2. Len(parts) \in DOMAIN parts BY <3>1
      <3>3. parts[Len(parts)] \in X BY <3>1, <3>2
      <3>4. IsPart(parts[Len(parts)]) BY <3>3 DEF PartsAllowed, X
      <3>5. at[1] \in Nat BY PlanIs
      <3> QED BY <3>4, <3>5 DEF IsPart
    <2>2. Texts = [i \in 1..n |-> TextOfStep(i)] BY DEF Texts
    <2>3. Row(Texts, n) /\ \A i \in 1..n : Texts[i] = TextOfStep(i)
      BY <2>2 DEF Row
    <2>6. least \in Int BY LimitsAre
    <2> HIDE DEF n, least
    <2>4. \A i \in 1..n : TextOf(Texts[i], cited) BY <2>3, TextOfStepIs
    <2>5. TextOf(Assemble(Texts, least), cited) BY <2>1, <2>3, <2>4, <2>6, AssembleIn
    <2> QED BY <1>1, <2>5 DEF ContextCited
  <1>9. NamedSoFar' BY <1>1 DEF NamedSoFar
  <1> QED BY <1>3, <1>4, <1>5, <1>6, <1>7, <1>8, <1>9

LEMMA Invariant == Spec => []IInv
  <1>1. IInv /\ [Next]_vars => IInv'
    <2> SUFFICES ASSUME IInv, [Next]_vars PROVE IInv' OBVIOUS
    <2>1. CASE Start BY <2>1, StartKeeps
    <2>2. CASE ResolveJob BY <2>2, ResolveJobKeeps
    <2>3. CASE PickChapters BY <2>3, PickChaptersKeeps
    <2>4. CASE PickNonsense BY <2>4, NonsenseKeeps
    <2>5. CASE Search BY <2>5, SearchKeeps
    <2>6. CASE MergeStep BY <2>6, MergeStepKeeps
    <2>7. CASE MergeSubQuery BY <2>7, MergeSubQueryKeeps
    <2>8. CASE Finish BY <2>8, FinishKeeps
    <2>9. CASE \E d \in Docs : Delete(d) BY <2>9, DeleteKeeps
    <2>10. CASE UNCHANGED vars
      <3> USE DEF IInv
      <3>1. UNCHANGED <<plan, pc, at, asked, memo, jobs, target, results, unread, parts, cited, cut,
                        skipped, context, live>>
        BY <2>10 DEF vars
      <3>2. /\ Step' = Step /\ Steps' = Steps /\ (OneByOne(Step)' <=> OneByOne(Step))
            /\ AllowedHere' = AllowedHere
        BY <3>1, HereKept DEF OneByOne
      <3>3. PartsAllowed'
        <4>1. parts' \in Seq(Range(parts')) /\ \A part \in Range(parts') : IsPart(part)'
          BY <3>1, PartsKept
        <4> QED BY <3>1, <4>1 DEF PartsAllowed
      <3>4. TypeOK' BY <3>1, <3>2 DEF TypeOK
      <3>5. MemoIs' /\ TargetIs' /\ ContextCited' BY <3>1 DEF MemoIs, TargetIs, ContextCited
      <3>6. JobsAre' BY <3>1, <3>2 DEF JobsAre
      <3>7. ResultsAllowed' BY <3>1, <3>2 DEF ResultsAllowed
      <3>8. NamedSoFar' BY <3>1 DEF NamedSoFar, Few
      <3> QED BY <3>3, <3>4, <3>5, <3>6, <3>7, <3>8
    <2> QED BY <2>1, <2>2, <2>3, <2>4, <2>5, <2>6, <2>7, <2>8, <2>9, <2>10 DEF Next
  <1> QED BY Initially, <1>1, PTL DEF Spec

-----------------------------------------------------------------------------
(* The accounts: whatever was cut off of what was laid has left its mark.  *)

\* One part for each step of a standard plan, and the last is the step's own.
PartsInStep ==
    /\ pc = "assemble" => parts[Len(parts)].step = at[1]
    /\ plan.strategy = "standard" =>
         /\ \A i \in DOMAIN parts : parts[i].step = i
         /\ pc \in {"start", "resolve", "retrieve", "merge"} =>
              Len(parts) = at[1] - 1 /\ Used <= Cfg.max_chars

\* A cut is marked in one of the parts; without one, they hold every page cited.
CutsKept ==
    pc # "done" =>
      /\ cut => \E i \in DOMAIN parts : IsTruncated(parts[i].text)
      /\ ~cut => cited \subseteq UNION {PagesIn(parts[i].text) : i \in DOMAIN parts}

\* Steps are skipped only where there is more than the context may hold.
SkipsKept ==
    skipped => /\ plan.strategy = "standard" /\ pc \in {"assemble", "done"}
               /\ pc = "assemble" => Used >= Cfg.max_chars

ContextTold ==
    pc = "done" => /\ cut => IsTruncated(context)
                   /\ skipped /\ Cfg.budget < Cfg.max_chars => IsTruncated(context)
                   /\ ~cut => cited \subseteq PagesIn(context)

Accounted == PartsInStep /\ CutsKept /\ SkipsKept /\ ContextTold

LEMMA InitiallyAccounted == Init => Accounted
  <1> SUFFICES ASSUME Init PROVE Accounted OBVIOUS
  <1>1. /\ pc = "start" /\ at[1] = 1 /\ parts = <<>> /\ cited = {}
        /\ cut = FALSE /\ skipped = FALSE
    BY DEF Init
  <1>2. Len(parts) = 0 /\ \A i : i \notin DOMAIN parts BY <1>1
  <1>3. Used = 0
    <2> DEFINE ts == [i \in DOMAIN parts |-> parts[i].text]
    <2>1. Row(ts, 0) BY <1>2 DEF Row
    <2>2. Used = Size(Joined(ts)) BY DEF Used
    <2> HIDE DEF ts
    <2>3. \A i \in 1..0 : TextOf(ts[i], {}) OBVIOUS
    <2>4. PICK g : SumsOf(g, ts, 0) BY <2>1, <2>3, JoinedSizes
    <2> QED BY <2>2, <2>4 DEF SumsOf
  <1>4. Cfg.max_chars >= 0 BY LimitsAre
  <1>5. PartsInStep BY <1>1, <1>2, <1>3, <1>4 DEF PartsInStep
  <1>6. CutsKept BY <1>1 DEF CutsKept
  <1>7. SkipsKept /\ ContextTold BY <1>1 DEF SkipsKept, ContextTold
  <1> QED BY <1>5, <1>6, <1>7 DEF Accounted

\* Searching and deleting leave the parts as they are.
LEMMA Untouched ==
  ASSUME Accounted, UNCHANGED <<plan, at, parts, cited, cut, skipped, context>>,
         \/ pc' = pc
         \/ /\ pc \in {"start", "resolve", "retrieve"}
            /\ pc' \in {"resolve", "retrieve", "merge", "raised"}
  PROVE  Accounted'
  <1>1. Used' = Used BY DEF Used
  <1>2. /\ pc' = "done" => pc = "done"
        /\ pc' = "assemble" => pc = "assemble"
        /\ pc' \in {"start", "resolve", "retrieve", "merge"} =>
             pc \in {"start", "resolve", "retrieve", "merge"}
        /\ pc \in {"assemble", "done"} => pc' = pc
    OBVIOUS
  <1>3. PartsInStep' BY <1>1, <1>2 DEF Accounted, PartsInStep
  <1>4. CutsKept' BY <1>2 DEF Accounted, CutsKept
  <1>5. SkipsKept' BY <1>1, <1>2 DEF Accounted, SkipsKept
  <1>6. ContextTold' BY <1>2 DEF Accounted, ContextTold
  <1> QED BY <1>3, <1>4, <1>5, <1>6 DEF Accounted

\* What the merger did not count it marked within its limit, and the cut to a
\* limit no smaller leaves the mark.
LEMMA LayAccounts ==
  ASSUME IInv, CutsKept, pc = "merge", NEW max \in Nat, NEW most \in Nat, max <= most,
         NEW m, m = Merge(Laying, max), Lay(m, most)
  PROVE  /\ Len(parts) \in Nat /\ DOMAIN parts' = 1..(Len(parts) + 1)
         /\ Len(parts') = Len(parts) + 1
         /\ \A i \in 1..Len(parts) : parts'[i] = parts[i]
         /\ parts'[Len(parts) + 1].step = at[1]
         /\ cut' => \E i \in DOMAIN parts' : IsTruncated(parts'[i].text)
         /\ ~cut' => cited' \subseteq UNION {PagesIn(parts'[i].text) : i \in DOMAIN parts'}
  <1> DEFINE text == Cut(m.text, most)
             new == [step |-> at[1], filter |-> asked, text |-> text]
             n == Len(parts)
  <1>1. /\ parts' = Append(parts, new) /\ cited' = cited \cup m.cited
        /\ cut' = (cut \/ m.cut \/ Size(m.text) > most)
    BY DEF Lay
  <1>2. /\ TextOf(m.text, m.cited) /\ m.cut \in BOOLEAN
        /\ m.cut => MarkedWithin(m.text, max)
        /\ ~m.cut => Size(m.text) <= max /\ m.cited \subseteq PagesIn(m.text)
    <2>1. ResultsIn(Laying, AllowedHere) BY LayingIs
    <2>2. max \in Int OBVIOUS
    <2> QED BY <2>1, <2>2, MergeLays
  <1>3. Size(m.text) \in Nat BY <1>2, SizeIs
  <1>4. /\ MarkedWithin(m.text, most) => IsTruncated(text)
        /\ Size(m.text) <= most => text = m.text
    <2> DEFINE u == m.text
    <2>1. TextOf(u, m.cited) BY <1>2
    <2> HIDE DEF u
    <2>2. most \in Int OBVIOUS
    <2>3. /\ MarkedWithin(u, most) => IsTruncated(Cut(u, most))
          /\ Size(u) <= most => Cut(u, most) = u
      BY <2>1, <2>2, CutText
    <2> QED BY <2>3 DEF u
  <1> HIDE DEF text
  <1>5. m.cut => IsTruncated(text)
    <2> SUFFICES ASSUME m.cut PROVE IsTruncated(text) OBVIOUS
    <2>1. max \in Int /\ most \in Int OBVIOUS
    <2>2. MarkedWithin(m.text, max) BY <1>2
    <2>3. MarkedWithin(m.text, most) BY <1>2, <2>1, <2>2, MarkedIs
    <2> QED BY <1>4, <2>3
  <1>6. ~m.cut => text = m.text /\ Size(m.text) <= most /\ m.cited \subseteq PagesIn(text)
    BY <1>2, <1>3, <1>4
  <1>7. new.step = at[1] /\ new.text = text OBVIOUS
  <1> HIDE DEF new
  <1>8. /\ n \in Nat /\ DOMAIN parts = 1..n
        /\ Len(parts') = n + 1 /\ DOMAIN parts' = 1..(n + 1) /\ parts'[n + 1] = new
        /\ \A i \in 1..n : parts'[i] = parts[i]
    <2> DEFINE X == Range(parts) \cup {new}
               Y == Range(parts)
    <2>1. parts \in Seq(Y) BY DEF IInv, PartsAllowed
    <2>2. Y \subseteq X OBVIOUS
    <2> HIDE DEF Y
    <2>3. parts \in Seq(X) BY <2>1, <2>2
    <2>4. new \in X OBVIOUS
    <2> HIDE DEF X
    <2> QED BY <1>1, <2>3, <2>4
  <1> HIDE DEF n
  <1>9. n + 1 \in DOMAIN parts' /\ \A i \in DOMAIN parts : i \in DOMAIN parts' /\ parts'[i] = parts[i]
    BY <1>8
  <1>10. /\ cut => \E i \in DOMAIN parts : IsTruncated(parts[i].text)
         /\ ~cut => cited \subseteq UNION {PagesIn(parts[i].text) : i \in DOMAIN parts}
    BY DEF CutsKept
  <1>11. cut' => \E i \in DOMAIN parts' : IsTruncated(parts'[i].text)
    <2>1. cut' => cut \/ m.cut
      <3>1. ~m.cut => ~(Size(m.text) > most) BY <1>3, <1>6
      <3> QED BY <1>1, <3>1, Zenon
    <2>2. cut => \E i \in DOMAIN parts' : IsTruncated(parts'[i].text) BY <1>9, <1>10
    <2>3. m.cut => IsTruncated(parts'[n + 1].text) BY <1>5, <1>7, <1>8
    <2> QED BY <1>9, <2>1, <2>2, <2>3
  <1>12. ~cut' => cited' \subseteq UNION {PagesIn(parts'[i].text) : i \in DOMAIN parts'}
    <2> SUFFICES ASSUME ~cut', NEW p \in cited'
                 PROVE  \E i \in DOMAIN parts' : p \in PagesIn(parts'[i].text)
      OBVIOUS
    <2>1. ~cut /\ ~m.cut BY <1>1
    <2>2. CASE p \in cited
      <3>1. PICK i \in DOMAIN parts : p \in PagesIn(parts[i].text) BY <1>10, <2>1, <2>2
      <3> QED BY <1>9, <3>1
    <2>3. CASE p \in m.cited
      <3>1. p \in PagesIn(parts'[n + 1].text) BY <1>6, <1>7, <1>8, <2>1, <2>3
      <3> QED BY <1>9, <3>1
    <2> QED BY <1>1, <2>2, <2>3
  <1> QED BY <1>7, <1>8, <1>11, <1>12 DEF n

LEMMA StandardSteps ==
  ASSUME TypeOK, plan.strategy = "standard"
  PROVE  \A i \in DOMAIN Steps : Len(Steps[i].filters) = 1
  BY StepAssumption DEF TypeOK, Steps

LEMMA MergeStepAccounts == ASSUME IInv, Accounted, MergeStep PROVE Accounted'
  <1>1. /\ pc = "merge" /\ plan.strategy = "standard"
        /\ Proceed /\ UNCHANGED <<plan, context, live>>
        /\ skipped' = (/\ at[1] < Len(Steps)
                       /\ Size(Joined([i \in DOMAIN parts' |-> parts'[i].text])) >= Cfg.max_chars)
    BY DEF MergeStep
  <1> DEFINE left == Cfg.max_chars - Used
             most == Quota
             max == Min({most, left})
             n == Len(parts)
  <1>2. PICK m \in {Merge(Laying, max)} : Lay(m, most) BY DEF MergeStep
  <1>3. /\ Used <= Cfg.max_chars /\ n = at[1] - 1
        /\ \A i \in DOMAIN parts : parts[i].step = i
    BY <1>1 DEF Accounted, PartsInStep
  <1>4. most \in Nat /\ left \in Nat
    <2>1. Used \in Nat BY PartTextsAre DEF IInv
    <2>2. Cfg.max_chars \in Nat BY LimitsAre
    <2>3. Quota \in Nat BY QuotaIs DEF IInv
    <2> QED BY <1>3, <2>1, <2>2, <2>3
  <1> HIDE DEF left, most
  <1>5. max \in Nat /\ max <= most BY <1>4, MinOfTwo
  <1> HIDE DEF max
  <1>6. /\ n \in Nat /\ DOMAIN parts' = 1..(n + 1) /\ Len(parts') = n + 1
        /\ \A i \in 1..n : parts'[i] = parts[i]
        /\ parts'[n + 1].step = at[1]
        /\ cut' => \E i \in DOMAIN parts' : IsTruncated(parts'[i].text)
        /\ ~cut' => cited' \subseteq UNION {PagesIn(parts'[i].text) : i \in DOMAIN parts'}
    BY <1>1, <1>2, <1>4, <1>5, LayAccounts DEF Accounted
  <1> HIDE DEF n
  <1>7. /\ at[1] \in Nat /\ at[2] \in Nat /\ Len(Steps) \in Nat /\ at[2] \in 1..Len(Step.filters)
        /\ Len(Step.filters) = 1
    <2>1. at[1] \in DOMAIN Steps /\ at[1] \in Nat /\ Len(Steps) \in Nat /\ at[2] \in 1..Len(Step.filters)
      BY PlanIs DEF IInv
    <2>2. Len(Step.filters) = 1 BY <1>1, <2>1, StandardSteps DEF IInv, Step
    <2> QED BY <2>1, <2>2
  <1>8. at[1] = n + 1 BY <1>3, <1>6, <1>7 DEF n
  <1>9. \A i \in DOMAIN parts' : parts'[i].step = i
    <2>1. DOMAIN parts = 1..n BY PartTextsAre DEF IInv, n
    <2> TAKE i \in DOMAIN parts'
    <2>2. i \in 1..n \/ i = n + 1 BY <1>6
    <2> QED BY <1>3, <1>6, <1>8, <2>1, <2>2
  <1>10. plan' = plan /\ pc' # "done" /\ pc' \in {"start", "assemble"} BY <1>1 DEF Proceed
  <1>11. Used' = Size(Joined([i \in DOMAIN parts' |-> parts'[i].text])) BY DEF Used
  <1>12. Used' \in Nat
    <2> DEFINE ts == [i \in DOMAIN parts' |-> parts'[i].text]
    <2>1. IInv' BY MergeStepKeeps
    <2>2. \A i \in 1..(n + 1) : TextOf(parts'[i].text, cited')
      <3> TAKE i \in 1..(n + 1)
      <3>1. parts'[i] \in Range(parts') BY <1>6 DEF Range
      <3> QED BY <2>1, <3>1 DEF IInv, PartsAllowed, IsPart
    <2>3. Row(ts, n + 1) /\ \A i \in 1..(n + 1) : TextOf(ts[i], cited') BY <1>6, <2>2 DEF Row
    <2> HIDE DEF ts
    <2>4. TextOf(Joined(ts), cited') BY <1>6, <2>3, JoinedTexts
    <2> DEFINE j == Joined(ts)
    <2>5. TextOf(j, cited') BY <2>4
    <2> HIDE DEF j
    <2>6. Size(j) \in Nat BY <2>5, SizeIs
    <2> QED BY <1>11, <2>6 DEF j, ts
  <1>13. /\ pc' = "assemble" => at' = at
         /\ pc' = "start" => ~skipped' /\ at[1] + 1 <= Len(Steps) /\ at'[1] = at[1] + 1
    <2> DEFINE next == <<at[1] + 1, 1>>
    <2>1. /\ results' = <<>>
          /\ IF next[1] > Len(Steps) \/ skipped'
             THEN pc' = "assemble" /\ UNCHANGED <<at, asked>>
             ELSE pc' = "start" /\ at' = next
      BY <1>1, <1>7 DEF Proceed
    <2>2. next[1] = at[1] + 1 OBVIOUS
    <2> HIDE DEF next
    <2> QED BY <1>7, <2>1, <2>2
  <1>14. PartsInStep'
    <2>1. pc' = "assemble" => parts'[Len(parts')].step = at'[1] BY <1>6, <1>13
    <2>2. pc' = "start" => Len(parts') = at'[1] - 1 /\ Used' <= Cfg.max_chars
      <3> SUFFICES ASSUME pc' = "start" PROVE Len(parts') = at'[1] - 1 /\ Used' <= Cfg.max_chars
        OBVIOUS
      <3>1. ~skipped' /\ at[1] < Len(Steps) BY <1>7, <1>13
      <3>2. ~(Used' >= Cfg.max_chars) BY <1>1, <1>11, <3>1
      <3>3. Used' <= Cfg.max_chars BY <1>12, <3>2, LimitsAre
      <3> QED BY <1>6, <1>7, <1>8, <1>13, <3>3
    <2> QED BY <1>9, <1>10, <2>1, <2>2 DEF PartsInStep
  <1>15. CutsKept' BY <1>6 DEF CutsKept
  <1>16. SkipsKept' BY <1>1, <1>10, <1>11, <1>13 DEF SkipsKept
  <1>17. ContextTold' BY <1>10 DEF ContextTold
  <1> QED BY <1>14, <1>15, <1>16, <1>17 DEF Accounted

LEMMA MergeSubQueryAccounts == ASSUME IInv, Accounted, MergeSubQuery PROVE Accounted'
  <1>1. /\ pc = "merge" /\ plan.strategy = "decomposed"
        /\ Proceed /\ UNCHANGED <<plan, context, live>> /\ skipped' = skipped
    BY DEF MergeSubQuery
  <1> DEFINE left == Cfg.sub_merge_cap
             most == Quota
             max == Min({most, left})
             n == Len(parts)
  <1>2. PICK m \in {Merge(Laying, max)} : Lay(m, most) BY DEF MergeSubQuery
  <1>3. most \in Nat /\ left \in Nat BY QuotaIs, LimitsAre DEF IInv
  <1> HIDE DEF left, most
  <1>4. max \in Nat /\ max <= most BY <1>3, MinOfTwo
  <1> HIDE DEF max
  <1>5. /\ n \in Nat /\ DOMAIN parts' = 1..(n + 1) /\ Len(parts') = n + 1
        /\ parts'[n + 1].step = at[1]
        /\ cut' => \E i \in DOMAIN parts' : IsTruncated(parts'[i].text)
        /\ ~cut' => cited' \subseteq UNION {PagesIn(parts'[i].text) : i \in DOMAIN parts'}
    BY <1>1, <1>2, <1>3, <1>4, LayAccounts DEF Accounted
  <1> HIDE DEF n
  <1>6. ~skipped' BY <1>1 DEF Accounted, SkipsKept
  <1>7. /\ pc' \in {"start", "assemble"} /\ pc' # "done"
        /\ pc' = "assemble" => at' = at
    BY <1>1 DEF Proceed
  <1>8. plan'.strategy # "standard" BY <1>1
  <1>9. PartsInStep' BY <1>5, <1>7, <1>8 DEF PartsInStep
  <1>10. CutsKept' BY <1>5 DEF CutsKept
  <1>11. SkipsKept' /\ ContextTold' BY <1>6, <1>7 DEF SkipsKept, ContextTold
  <1> QED BY <1>9, <1>10, <1>11 DEF Accounted

\* Each part is in the text of its step.
LEMMA PartInStep ==
  ASSUME PartsAllowed, NEW k \in 1..Len(parts), NEW i, parts[k].step = i
  PROVE  /\ Size(parts[k].text) <= Size(TextOfStep(i))
         /\ PagesIn(parts[k].text) \subseteq PagesIn(TextOfStep(i))
         /\ IsTruncated(parts[k].text) => IsTruncated(TextOfStep(i))
  <1> DEFINE I == {j \in DOMAIN parts : parts[j].step = i}
             own == Keep(parts, I)
             n == Len(own)
             plain == [j \in DOMAIN own |-> own[j].text]
             headed == [j \in DOMAIN own |-> <<Heading>> \o own[j].text]
             X == Range(parts)
             head == <<Heading>>
             Has(t) == /\ Size(parts[k].text) <= Size(t)
                       /\ PagesIn(parts[k].text) \subseteq PagesIn(t)
                       /\ IsTruncated(parts[k].text) => IsTruncated(t)
  <1>1. /\ parts \in Seq(X) /\ \A part \in X : TextOf(part.text, cited)
        /\ DOMAIN parts = 1..Len(parts) /\ TextOf(parts[k].text, cited)
    BY PartTextsAre DEF PartsAllowed, IsPart
  <1>2. k \in I BY <1>1
  <1>3. TextOfStep(i) = IF plan.strategy = "standard" THEN Joined(plain) ELSE head \o Joined(headed)
    BY DEF TextOfStep
  <1>4. Size(parts[k].text) \in Nat
    <2> DEFINE t == parts[k].text
    <2>1. TextOf(t, cited) BY <1>1
    <2> HIDE DEF t
    <2>2. Size(t) \in Nat BY <2>1, SizeIs
    <2> QED BY <2>2 DEF t
  <1> HIDE DEF I, X
  <1>5. own \in Seq(X) /\ \E j \in DOMAIN own : own[j] = parts[k]
    <2>1. parts \in Seq(X) BY <1>1
    <2>2. /\ Keep(parts, I) \in Seq(X)
          /\ \A x : (\E j \in DOMAIN Keep(parts, I) : Keep(parts, I)[j] = x)
                      <=> \E j \in 1..Len(parts) : j \in I /\ parts[j] = x
      BY <2>1, KeepOf
    <2> HIDE DEF own
    <2>3. /\ own \in Seq(X)
          /\ (\E j \in DOMAIN own : own[j] = parts[k])
               <=> \E j \in 1..Len(parts) : j \in I /\ parts[j] = parts[k]
      BY <2>2 DEF own
    <2> QED BY <1>2, <2>3
  <1> HIDE DEF own
  <1>6. n \in Nat /\ DOMAIN own = 1..n /\ \A j \in 1..n : own[j] \in X BY <1>5
  <1> HIDE DEF n
  <1>7. PICK h \in 1..n : own[h] = parts[k] BY <1>5, <1>6
  <1>8. Row(plain, n) /\ \A j \in 1..n : plain[j] = own[j].text BY <1>6 DEF Row
  <1>9. Row(headed, n) /\ \A j \in 1..n : headed[j] = head \o own[j].text BY <1>6 DEF Row
  <1> HIDE DEF plain, headed
  <1>10. TextOf(head, cited)
    <2>1. "heading" # "page" OBVIOUS
    <2> QED BY <2>1, LimitsAre, PieceOf DEF Heading
  <1> HIDE DEF head
  <1>11. \A t : TextOf(t, cited) =>
           /\ TextOf(head \o t, cited) /\ Size(t) <= Size(head \o t)
           /\ PagesIn(t) \subseteq PagesIn(head \o t)
           /\ IsTruncated(t) => IsTruncated(head \o t)
    <2> SUFFICES ASSUME NEW t, TextOf(t, cited)
                 PROVE  /\ TextOf(head \o t, cited) /\ Size(t) <= Size(head \o t)
                        /\ PagesIn(t) \subseteq PagesIn(head \o t)
                        /\ IsTruncated(t) => IsTruncated(head \o t)
      OBVIOUS
    <2>1. /\ Size(head \o t) = Size(head) + Size(t)
          /\ IsTruncated(head \o t) <=> IsTruncated(head) \/ IsTruncated(t)
          /\ PagesIn(head \o t) = PagesIn(head) \cup PagesIn(t)
      BY <1>10, SizeOfBoth
    <2>2. TextOf(head \o t, cited) BY <1>10, MoreText
    <2>3. Size(head) \in Nat /\ Size(t) \in Nat BY <1>10, SizeIs
    <2> QED BY <2>1, <2>2, <2>3
  <1>12. \A j \in 1..n : TextOf(plain[j], cited) BY <1>1, <1>6, <1>8
  <1>13. \A j \in 1..n : TextOf(headed[j], cited) BY <1>1, <1>6, <1>9, <1>11
  <1>14. Has(Joined(plain))
    <2>1. /\ Size(plain[h]) <= Size(Joined(plain))
          /\ PagesIn(plain[h]) \subseteq PagesIn(Joined(plain))
          /\ IsTruncated(plain[h]) => IsTruncated(Joined(plain))
      BY <1>6, <1>8, <1>12, JoinedSizes
    <2>2. plain[h] = parts[k].text BY <1>7, <1>8
    <2> QED BY <2>1, <2>2
  <1>15. Has(head \o Joined(headed))
    <2> DEFINE t == parts[k].text
               u == head \o t
               v == Joined(headed)
               w == head \o v
    <2>1. /\ Size(headed[h]) <= Size(v)
          /\ PagesIn(headed[h]) \subseteq PagesIn(v)
          /\ IsTruncated(headed[h]) => IsTruncated(v)
      BY <1>6, <1>9, <1>13, JoinedSizes
    <2>2. headed[h] = u BY <1>7, <1>9
    <2>3. TextOf(v, cited) BY <1>6, <1>9, <1>13, JoinedTexts
    <2>4. TextOf(t, cited) BY <1>1
    <2> HIDE DEF v, t
    <2>5. /\ TextOf(u, cited) /\ Size(t) <= Size(u) /\ PagesIn(t) \subseteq PagesIn(u)
          /\ IsTruncated(t) => IsTruncated(u)
      BY <1>11, <2>4
    <2>6. /\ TextOf(w, cited) /\ Size(v) <= Size(w) /\ PagesIn(v) \subseteq PagesIn(w)
          /\ IsTruncated(v) => IsTruncated(w)
      BY <1>11, <2>3
    <2> HIDE DEF u, w
    <2>7. Size(t) \in Nat /\ Size(u) \in Nat /\ Size(v) \in Nat /\ Size(w) \in Nat
      BY <2>3, <2>4, <2>5, <2>6, SizeIs
    <2>8. Size(t) <= Size(w) BY <2>1, <2>2, <2>5, <2>6, <2>7
    <2>9. PagesIn(t) \subseteq PagesIn(w) /\ (IsTruncated(t) => IsTruncated(w))
      BY <2>1, <2>2, <2>5, <2>6
    <2> QED BY <2>8, <2>9 DEF t, v, w
  <1> HIDE DEF Has
  <1>16. Has(TextOfStep(i)) BY <1>3, <1>14, <1>15
  <1> QED BY <1>16 DEF Has

LEMMA FinishAccounts == ASSUME IInv, Accounted, Finish PROVE Accounted'
  <1> DEFINE least == IF plan.strategy = "standard" THEN Cfg.least_standard ELSE Cfg.least_decomposed
             n == parts[Len(parts)].step
             m == Len(parts)
             whole == Joined(Texts)
  <1>1. /\ pc = "assemble" /\ pc' = "done"
        /\ cut' = (cut \/ Size(whole) > Cfg.budget)
        /\ context' = Assemble(Texts, least)
        /\ UNCHANGED <<plan, at, parts, cited, skipped, live>>
    BY DEF Finish
  <1>2. PartsAllowed /\ parts # <<>> BY <1>1 DEF IInv, PartsAllowed
  <1>3. /\ m \in Nat /\ DOMAIN parts = 1..m
        /\ Row(PartTexts, m) /\ Used = Size(Joined(PartTexts)) /\ Used \in Nat
        /\ \A i \in 1..m : /\ PartTexts[i] = parts[i].text /\ IsPart(parts[i])
                           /\ TextOf(parts[i].text, cited)
    BY <1>2, PartTextsAre
  <1>4. m \in 1..m
    <2> DEFINE X == Range(parts)
    <2>1. parts \in Seq(X) BY <1>2 DEF PartsAllowed
    <2> HIDE DEF X
    <2> QED BY <1>2, <2>1
  <1>5. n = at[1] BY <1>1 DEF Accounted, PartsInStep
  <1>6. n \in Nat /\ \A i \in 1..m : parts[i].step \in 1..n
    <2>1. at[1] \in Nat BY PlanIs DEF IInv
    <2> QED BY <1>3, <1>5, <2>1 DEF IsPart
  <1>7. Row(Texts, n) /\ \A i \in 1..n : Texts[i] = TextOfStep(i)
    <2>1. Texts = [i \in 1..n |-> TextOfStep(i)] BY DEF Texts
    <2> HIDE DEF n
    <2> QED BY <2>1 DEF Row
  <1> HIDE DEF n, m
  <1>8. \A i \in 1..n : TextOf(Texts[i], cited) BY <1>2, <1>7, TextOfStepIs
  <1>9. /\ Size(whole) <= Cfg.budget => context' = whole
        /\ Size(whole) > Cfg.budget => IsTruncated(context')
    <2>1. least \in Int BY LimitsAre
    <2> HIDE DEF least
    <2>2. /\ Size(Joined(Texts)) <= Cfg.budget => Assemble(Texts, least) = Joined(Texts)
          /\ Size(Joined(Texts)) > Cfg.budget => IsTruncated(Assemble(Texts, least))
      BY <1>6, <1>7, <1>8, <2>1, AssembleIn
    <2> QED BY <1>1, <2>2
  <1>10. Size(whole) \in Nat
    <2>1. TextOf(whole, cited) BY <1>6, <1>7, <1>8, JoinedTexts
    <2> HIDE DEF whole
    <2> QED BY <2>1, SizeIs
  <1>11. ASSUME NEW k \in 1..m
         PROVE  /\ PagesIn(parts[k].text) \subseteq PagesIn(whole)
                /\ IsTruncated(parts[k].text) => IsTruncated(whole)
    <2> DEFINE i == parts[k].step
    <2>1. i \in 1..n BY <1>6
    <2>2. /\ PagesIn(parts[k].text) \subseteq PagesIn(TextOfStep(i))
          /\ IsTruncated(parts[k].text) => IsTruncated(TextOfStep(i))
      BY <1>2, PartInStep DEF m
    <2> HIDE DEF i
    <2>3. /\ PagesIn(Texts[i]) \subseteq PagesIn(Joined(Texts))
          /\ IsTruncated(Texts[i]) => IsTruncated(Joined(Texts))
      BY <1>6, <1>7, <1>8, <2>1, JoinedSizes
    <2> QED BY <1>7, <2>1, <2>2, <2>3
  <1>12. ASSUME plan.strategy = "standard" PROVE Used <= Size(whole)
    <2>1. \A i \in 1..m : parts[i].step = i BY <1>3, <1>12 DEF Accounted, PartsInStep
    <2>2. n = m BY <1>4, <2>1 DEF n, m
    <2>3. \A i \in 1..m : Size(PartTexts[i]) <= Size(Texts[i])
      <3> TAKE i \in 1..m
      <3>1. Size(parts[i].text) <= Size(TextOfStep(i)) BY <1>2, <2>1, PartInStep DEF m
      <3> QED BY <1>3, <1>7, <2>2, <3>1
    <2>4. \A i \in 1..m : TextOf(PartTexts[i], cited) BY <1>3
    <2>5. Size(Joined(PartTexts)) <= Size(Joined(Texts))
      BY <1>3, <1>7, <1>8, <2>2, <2>3, <2>4, JoinedLonger
    <2> QED BY <1>3, <2>5
  <1> HIDE DEF whole
  <1>13. /\ cut => \E i \in 1..m : IsTruncated(parts[i].text)
         /\ ~cut => cited \subseteq UNION {PagesIn(parts[i].text) : i \in 1..m}
    BY <1>1, <1>3 DEF Accounted, CutsKept
  <1>14. Size(whole) <= Cfg.budget \/ Size(whole) > Cfg.budget BY <1>10, LimitsAre
  <1>15. cut' => IsTruncated(context')
    <2>1. CASE Size(whole) > Cfg.budget BY <1>9, <2>1
    <2>2. CASE Size(whole) <= Cfg.budget
      <3>1. ~(Size(whole) > Cfg.budget) BY <1>10, <2>2, LimitsAre
      <3>2. cut => IsTruncated(whole) BY <1>11, <1>13
      <3> QED BY <1>1, <1>9, <2>2, <3>1, <3>2
    <2> QED BY <1>14, <2>1, <2>2
  <1>16. skipped /\ Cfg.budget < Cfg.max_chars => IsTruncated(context')
    <2> SUFFICES ASSUME skipped, Cfg.budget < Cfg.max_chars PROVE IsTruncated(context') OBVIOUS
    <2>1. plan.strategy = "standard" /\ Used >= Cfg.max_chars BY <1>1 DEF Accounted, SkipsKept
    <2>2. Used \in Nat /\ Used <= Size(whole) BY <1>3, <1>12, <2>1
    <2>3. Cfg.budget \in Nat /\ Cfg.max_chars \in Nat BY LimitsAre
    <2>4. Size(whole) > Cfg.budget BY <1>10, <2>1, <2>2, <2>3
    <2> QED BY <1>9, <2>4
  <1>17. ~cut' => cited \subseteq PagesIn(context')
    <2> SUFFICES ASSUME ~cut' PROVE cited \subseteq PagesIn(context') OBVIOUS
    <2>1. ~cut /\ context' = whole BY <1>1, <1>9, <1>14
    <2>2. UNION {PagesIn(parts[i].text) : i \in 1..m} \subseteq PagesIn(whole) BY <1>11
    <2> QED BY <1>13, <2>1, <2>2
  <1>18. PartsInStep' BY <1>1 DEF Accounted, PartsInStep
  <1>19. CutsKept' BY <1>1 DEF CutsKept
  <1>20. SkipsKept' BY <1>1 DEF Accounted, SkipsKept
  <1>21. ContextTold' BY <1>1, <1>15, <1>16, <1>17 DEF ContextTold
  <1> QED BY <1>18, <1>19, <1>20, <1>21 DEF Accounted

LEMMA Accounting == Spec => []Accounted
  <1>1. IInv /\ Accounted /\ [Next]_vars => Accounted'
    <2> SUFFICES ASSUME IInv, Accounted, [Next]_vars PROVE Accounted' OBVIOUS
    <2>1. CASE PickChapters
      <3>1. /\ pc = "retrieve" /\ pc' \in {"resolve", "merge"}
            /\ UNCHANGED <<plan, at, parts, cited, cut, skipped, context>>
        BY <2>1 DEF PickChapters, Collect
      <3> QED BY <3>1, Untouched
    <2>2. CASE PickNonsense
      <3>1. /\ pc = "retrieve" /\ pc' = "raised"
            /\ UNCHANGED <<plan, at, parts, cited, cut, skipped, context>>
        BY <2>2 DEF PickNonsense
      <3> QED BY <3>1, Untouched
    <2>3. CASE Search
      <3>1. /\ pc = "retrieve" /\ pc' \in {"resolve", "merge"}
            /\ UNCHANGED <<plan, at, parts, cited, cut, skipped, context>>
        BY <2>3 DEF Search, Collect
      <3> QED BY <3>1, Untouched
    <2>4. CASE MergeStep BY <2>4, MergeStepAccounts
    <2>5. CASE MergeSubQuery BY <2>5, MergeSubQueryAccounts
    <2>6. CASE Finish BY <2>6, FinishAccounts
    <2>7. CASE \E d \in Docs : Delete(d)
      <3>1. UNCHANGED <<plan, at, parts, cited, cut, skipped, context>> /\ pc' = pc
        BY <2>7 DEF Delete
      <3> QED BY <3>1, Untouched
    <2>8. CASE UNCHANGED vars
      <3>1. UNCHANGED <<plan, at, parts, cited, cut, skipped, context>> /\ pc' = pc
        BY <2>8 DEF vars
      <3> QED BY <3>1, Untouched
    <2>9. CASE Start
      <3>1. /\ pc = "start" /\ pc' \in {"resolve", "merge"}
            /\ UNCHANGED <<plan, at, parts, cited, cut, skipped, context>>
        BY <2>9 DEF Start
      <3> QED BY <3>1, Untouched
    <2>10. CASE ResolveJob
      <3>1. /\ pc = "resolve" /\ pc' = "retrieve"
            /\ UNCHANGED <<plan, at, parts, cited, cut, skipped, context>>
        BY <2>10 DEF ResolveJob
      <3> QED BY <3>1, Untouched
    <2> QED BY <2>1, <2>2, <2>3, <2>4, <2>5, <2>6, <2>7, <2>8, <2>9, <2>10 DEF Next
  <1> QED BY InitiallyAccounted, Invariant, <1>1, PTL DEF Spec

-----------------------------------------------------------------------------
(* The theorems.                                                           *)

\* The variables have their types: a plan is carried out step by step within
\* its bounds, and what is cited are pages of the tenant.
THEOREM TypeCorrect == Spec => []TypeOK
  <1>1. IInv => TypeOK BY DEF IInv
  <1> QED BY Invariant, <1>1, PTL

\* _retrieve_exact and _chapter_retrieve behind _single_retrieve, which resolves
\* its filter again: a step that is asked of some documents is given no page of
\* another, whatever is deleted in between, as long as no filter of its own
\* resolves to nothing, and except for the documents of an industry pack, which
\* come in only where one of those asked for is gone or has no pages.
THEOREM PagesOfTheFilter == Spec => []NoForeignPages
  <1>1. IInv => NoForeignPages
    <2> SUFFICES ASSUME IInv, NEW i \in DOMAIN parts, parts[i].filter # {}, ~Forgotten(parts[i]),
                        NEW p \in PagesIn(parts[i].text)
                 PROVE  \/ p[1] \in parts[i].filter
                        \/ p[1] \in PackDocs /\ \E d \in parts[i].filter : d \notin live \/ PageCount[d] = 0
      BY DEF NoForeignPages
    <2>1. IsPart(parts[i])
      <3>1. parts[i] \in Range(parts) BY DEF Range
      <3> QED BY <3>1 DEF IInv, PartsAllowed
    <2> DEFINE part == parts[i]
               given == Allowed(part.filter, OneByOne(Steps[part.step]))
    <2>2. TextOf(part.text, given) /\ part.filter \in SUBSET Docs BY <2>1 DEF IsPart
    <2>3. p \in given
      <3> HIDE DEF given
      <3> QED BY <2>2, TextsAre
    <2>4. ~Lost(part.filter, OneByOne(Steps[part.step])) BY DEF Forgotten, Lost
    <2>5. \A d \in part.filter : PageCount[d] \in Nat BY <2>2, StepAssumption
    <2>6. AllThere(part.filter) \/ \E d \in part.filter : d \notin live \/ PageCount[d] = 0
      BY <2>5 DEF AllThere
    <2> QED BY <2>3, <2>4, <2>6 DEF Allowed, OwnPages
  <1> QED BY Invariant, <1>1, PTL

\* _apply_rare_token_rescue: however the pages of a step were searched for, and
\* whichever other words were scanned for, those of its documents with a word
\* scanned for are among them, unless all of these pages together are more than a
\* rescue takes, or some of them could not be listed.
THEOREM NamedPagesAreFound == Spec => []NamedPageFound
  <1>1. IInv => NamedPageFound
    <2> SUFFICES ASSUME IInv, pc = "merge", ~unread,
                        Cardinality(UNION {NamedPages(Docs, e) : e \in asked}) <= Cfg.max_rescued,
                        NEW d \in asked \cap live
                 PROVE  NamedPages(live, d) \subseteq Found(results)
      BY DEF NamedPageFound
    <2>1. Few BY DEF Few
    <2>2. jobs = <<>> BY DEF IInv, JobsAre
    <2>3. \A i \in DOMAIN jobs : d \notin jobs[i] BY <2>2
    <2> QED BY <2>1, <2>3 DEF IInv, NamedSoFar
  <1> QED BY Invariant, <1>1, PTL

\* SegmentMerger and the cuts of the executor: a page whose text is in the
\* context is named by the sources of the answer.
THEOREM ContextHasItsSources == Spec => []ContextIsCited
  <1>1. IInv => ContextIsCited
    BY TextsAre DEF IInv, ContextCited, ContextIsCited
  <1> QED BY Invariant, <1>1, PTL

\* truncation.py, the merger and the cuts behind it: unless the budget of the
\* context were as large as what the steps may fill together (the code's is three
\* quarters of it), text that was laid out and cut off again, and steps that were
\* left out, are told of in the context, and so reach the confidence of the
\* answer.
THEOREM CutsAreMarked == ASSUME Cfg.budget < Cfg.max_chars PROVE Spec => []CutIsMarked
  <1>1. Accounted => CutIsMarked BY DEF Accounted, ContextTold, CutIsMarked
  <1> QED BY Accounting, <1>1, PTL

\* SegmentMerger and _build_sources: the sources name every page of the context,
\* and a page that is not in it only where the context says that it was cut.
THEOREM SourcesAreTheContext == Spec => []SourcesAreContext
  <1>1. IInv /\ Accounted => SourcesAreContext
    <2>1. IInv => ContextIsCited BY TextsAre DEF IInv, ContextCited, ContextIsCited
    <2>2. IInv /\ Accounted /\ pc = "done" /\ ~IsTruncated(context) => cited \subseteq PagesIn(context)
      BY DEF Accounted, ContextTold, IInv, TypeOK
    <2> QED BY <2>1, <2>2 DEF SourcesAreContext
  <1> QED BY Invariant, Accounting, <1>1, PTL
=============================================================================
