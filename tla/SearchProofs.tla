---------------------------- MODULE SearchProofs -----------------------------
(***************************************************************************)
(* What a search promises, for any index, any queries and rankings, and    *)
(* any syncs beside it.                                                    *)
(***************************************************************************)
EXTENDS Search, SequenceTheorems, FiniteSetTheorems, WellFoundedInduction, TLAPS

\* A nonempty set of numbers has a least one.
LEMMA LeastIn ==
  ASSUME NEW S, S \subseteq Nat, S # {}
  PROVE  \E x \in S : \A y \in S : x <= y
<1>1. PICK x \in S : \A y \in S : ~ (<<y, x>> \in OpToRel(<, Nat))
  <2> HIDE DEF OpToRel
  <2> QED BY WFMin, NatLessThanWellFounded
<1>2. ASSUME NEW y \in S PROVE x <= y
  <2>1. SUFFICES ASSUME y < x PROVE FALSE
    OBVIOUS
  <2>2. <<y, x>> \in OpToRel(<, Nat)
    BY <2>1, Zenon DEF OpToRel
  <2> QED
    BY <2>2, <1>1
<1> QED
  BY <1>2

\* In a finite set ordered by what comes before, each place is taken by one member.
LEMMA Places ==
  ASSUME NEW S, IsFiniteSet(S), NEW before \in [S -> SUBSET S],
         \A x \in S : x \notin before[x],
         \A x, y \in S : x # y => x \in before[y] \/ y \in before[x],
         \A x, y \in S : x \in before[y] => before[x] \subseteq before[y]
  PROVE  /\ Cardinality(S) \in Nat
         /\ \A x \in S : Cardinality(before[x]) \in 0..(Cardinality(S) - 1)
         /\ \A x, y \in S : x \in before[y] => Cardinality(before[x]) < Cardinality(before[y])
         /\ \A k \in 1..Cardinality(S) : \E x \in S : Cardinality(before[x]) = k - 1
<1> DEFINE n == Cardinality(S)
           rank == [x \in S |-> Cardinality(before[x])]
<1>1. n \in Nat
  BY FS_CardinalityType
<1>2. ASSUME NEW x \in S
      PROVE  IsFiniteSet(before[x]) /\ Cardinality(before[x]) \in 0..(n - 1)
  <2>1. before[x] \in SUBSET (S \ {x})
    OBVIOUS
  <2>2. IsFiniteSet(S \ {x}) /\ Cardinality(S \ {x}) = n - 1
    BY FS_RemoveElement
  <2>3. IsFiniteSet(before[x]) /\ Cardinality(before[x]) <= n - 1
    BY <2>1, <2>2, FS_Subset
  <2> QED
    BY <1>1, <2>3, FS_CardinalityType
<1>3. ASSUME NEW x \in S, NEW y \in S, x \in before[y]
      PROVE  Cardinality(before[x]) < Cardinality(before[y])
  <2>1. before[x] \in SUBSET before[y] /\ before[x] # before[y]
    BY <1>3
  <2>2. Cardinality(before[x]) <= Cardinality(before[y]) /\ Cardinality(before[x]) # Cardinality(before[y])
    BY <1>2, <2>1, FS_Subset
  <2> QED
    BY <1>1, <1>2, <2>2
<1>4. rank \in [S -> 0..(n - 1)]
  BY <1>2
<1>5. rank \in Injection(S, 0..(n - 1))
  <2>1. ASSUME NEW x \in S, NEW y \in S, x # y PROVE rank[x] # rank[y]
    <3>1. Cardinality(before[x]) < Cardinality(before[y]) \/ Cardinality(before[y]) < Cardinality(before[x])
      BY <2>1, <1>3
    <3> QED
      BY <1>1, <1>2, <3>1
  <2> QED
    BY <1>4, <2>1 DEF Injection, IsInjective
<1>6. IsFiniteSet(0..(n - 1)) /\ Cardinality(0..(n - 1)) = n
  BY <1>1, FS_Interval, SMTT(30)
<1>7. rank \in Surjection(S, 0..(n - 1))
  <2> HIDE DEF rank
  <2> QED BY <1>5, <1>6, FS_Injection
<1>8. ASSUME NEW k \in 1..n PROVE \E x \in S : rank[x] = k - 1
  <2>1. k - 1 \in 0..(n - 1)
    BY <1>1
  <2> QED
    BY <1>7, <2>1 DEF Surjection
<1> QED
  BY <1>1, <1>2, <1>3, <1>8

LEMMA ImageFinite ==
  ASSUME NEW S, IsFiniteSet(S), NEW f, DOMAIN f = S, f = [x \in S |-> f[x]]
  PROVE  IsFiniteSet({f[x] : x \in S})
<1> DEFINE T == {f[x] : x \in S}
<1>1. f \in Surjection(S, T)
  BY DEF Surjection
<1> QED
  BY <1>1, FS_Surjection

\* SetToSeq lists a set, in some order.
LEMMA Listing ==
  ASSUME NEW S, IsFiniteSet(S)
  PROVE  /\ Cardinality(S) \in Nat
         /\ SetToSeq(S) \in [1..Cardinality(S) -> S]
         /\ \A i, j \in 1..Cardinality(S) : SetToSeq(S)[i] = SetToSeq(S)[j] => i = j
         /\ \A x \in S : \E i \in 1..Cardinality(S) : SetToSeq(S)[i] = x
<1> DEFINE n == Cardinality(S)
<1>1. n \in Nat /\ ExistsBijection(1..n, S)
  BY FS_CardinalityType
<1>2. PICK f \in Bijection(1..n, S) : TRUE
  BY <1>1 DEF ExistsBijection
<1>3. f \in [1..n -> S] /\ IsInjective(f)
  BY <1>2 DEF Bijection, Injection
<1>4. SetToSeq(S) \in [1..n -> S] /\ IsInjective(SetToSeq(S))
  BY <1>3 DEF SetToSeq
<1>5. \A i, j \in 1..n : SetToSeq(S)[i] = SetToSeq(S)[j] => i = j
  BY <1>4 DEF IsInjective
<1>6. SetToSeq(S) \in Surjection(1..n, S)
  <2>1. SetToSeq(S) \in Injection(1..n, S)
    BY <1>4 DEF Injection
  <2>2. Cardinality(1..n) = n
    BY <1>1, FS_Interval
  <2> QED
    BY <2>1, <2>2, FS_Injection
<1>7. \A x \in S : \E i \in 1..n : SetToSeq(S)[i] = x
  BY <1>6 DEF Surjection
<1> QED
  BY <1>1, <1>4, <1>5, <1>7

\* A strict order in which being level is transitive, as sorting by a key is.
Weak(S, ahead) ==
  /\ \A x \in S : <<x, x>> \notin ahead
  /\ \A x, y, z \in S : <<x, y>> \in ahead /\ <<y, z>> \in ahead => <<x, z>> \in ahead
  /\ \A x, y, z \in S : <<x, y>> \in ahead => <<x, z>> \in ahead \/ <<z, y>> \in ahead

\* s lists S, each member once.
Lists(s, S) ==
  /\ Cardinality(S) \in Nat
  /\ s \in [1..Cardinality(S) -> S]
  /\ \A i, j \in 1..Cardinality(S) : s[i] = s[j] => i = j
  /\ \A x \in S : \E i \in 1..Cardinality(S) : s[i] = x

\* sorted() lists the set, and nothing after what it is ahead of.
LEMMA SortedLists ==
  ASSUME NEW S, IsFiniteSet(S), NEW ahead, Weak(S, ahead)
  PROVE  /\ Lists(Sorted(S, ahead), S)
         /\ \A i, j \in 1..Cardinality(S) :
              i < j => <<Sorted(S, ahead)[j], Sorted(S, ahead)[i]>> \notin ahead
<1> DEFINE n == Cardinality(S)
           s == SetToSeq(S)
           Before(i, j) == <<s[i], s[j]>> \in ahead \/ (i < j /\ <<s[j], s[i]>> \notin ahead)
           before == [i \in 1..n |-> {j \in 1..n : Before(j, i)}]
           At(k) == CHOOSE i \in 1..n : Cardinality({j \in 1..n : Before(j, i)}) = k - 1
<1>1. n \in Nat /\ s \in [1..n -> S] /\ DOMAIN s = 1..n
      /\ (\A i, j \in 1..n : s[i] = s[j] => i = j) /\ (\A x \in S : \E i \in 1..n : s[i] = x)
  BY Listing
<1> HIDE DEF s, n
<1>2. Sorted(S, ahead) = [k \in 1..n |-> s[At(k)]]
  BY <1>1 DEF Sorted, s
<1>3. before \in [1..n -> SUBSET (1..n)]
  OBVIOUS
<1>4. \A i \in 1..n : ~Before(i, i)
  BY <1>1 DEF Weak
<1>5. \A i, j \in 1..n : i # j => Before(i, j) \/ Before(j, i)
  BY <1>1
<1>6. ASSUME NEW i \in 1..n, NEW j \in 1..n, NEW k \in 1..n, Before(i, j), Before(j, k)
      PROVE  Before(i, k)
  <2>1. s[i] \in S /\ s[j] \in S /\ s[k] \in S
    BY <1>1
  <2>2. CASE <<s[i], s[j]>> \in ahead
    <3>1. <<s[i], s[k]>> \in ahead \/ <<s[k], s[j]>> \in ahead
      BY <2>1, <2>2 DEF Weak
    <3>2. <<s[k], s[j]>> \notin ahead
      BY <1>6, <2>1 DEF Weak
    <3> QED BY <3>1, <3>2
  <2>3. CASE <<s[i], s[j]>> \notin ahead /\ i < j /\ <<s[j], s[i]>> \notin ahead
    <3>1. CASE <<s[j], s[k]>> \in ahead
      <4>1. <<s[j], s[i]>> \in ahead \/ <<s[i], s[k]>> \in ahead
        BY <2>1, <3>1 DEF Weak
      <4> QED BY <2>3, <4>1
    <3>2. CASE j < k /\ <<s[k], s[j]>> \notin ahead
      <4>1. <<s[k], s[i]>> \notin ahead
        BY <2>1, <2>3, <3>2 DEF Weak
      <4> QED BY <1>1, <2>3, <3>2, <4>1
    <3> QED BY <1>6, <3>1, <3>2
  <2> QED BY <1>6, <2>2, <2>3
<1>7. IsFiniteSet(1..n) /\ Cardinality(1..n) = n
  BY <1>1, FS_Interval
<1>8. /\ \A i, j \in 1..n : Before(i, j) => Cardinality(before[i]) < Cardinality(before[j])
      /\ \A k \in 1..n : \E i \in 1..n : Cardinality(before[i]) = k - 1
  <2>0. /\ \A i \in 1..n : i \notin before[i]
        /\ \A i, j \in 1..n : i # j => i \in before[j] \/ j \in before[i]
        /\ \A i, j \in 1..n : i \in before[j] => before[i] \subseteq before[j]
    BY <1>4, <1>5, <1>6
  <2>1. \A i, j \in 1..n : Before(i, j) => i \in before[j]
    OBVIOUS
  <2> HIDE DEF before, Before
  <2>2. /\ \A i, j \in 1..n : i \in before[j] => Cardinality(before[i]) < Cardinality(before[j])
        /\ \A k \in 1..Cardinality(1..n) : \E i \in 1..n : Cardinality(before[i]) = k - 1
    BY <1>3, <1>7, <2>0, Places, ZenonT(30)
  <2> QED
    BY <1>7, <2>1, <2>2
<1>9. \A k \in 1..n : At(k) \in 1..n /\ Cardinality(before[At(k)]) = k - 1
  <2> SUFFICES ASSUME NEW k \in 1..n PROVE At(k) \in 1..n /\ Cardinality(before[At(k)]) = k - 1
    OBVIOUS
  <2>1. \A i \in 1..n : before[i] = {j \in 1..n : Before(j, i)}
    OBVIOUS
  <2> HIDE DEF Before, before
  <2>2. \E i \in 1..n : Cardinality({j \in 1..n : Before(j, i)}) = k - 1
    BY <1>8, <2>1
  <2>3. At(k) \in 1..n /\ Cardinality({j \in 1..n : Before(j, At(k))}) = k - 1
    BY <2>2
  <2> QED
    BY <2>1, <2>3
<1> HIDE DEF At, before
<1>10. \A k, l \in 1..n : At(k) = At(l) => k = l
  <2> SUFFICES ASSUME NEW k \in 1..n, NEW l \in 1..n, At(k) = At(l) PROVE k = l
    OBVIOUS
  <2>1. k - 1 = l - 1
    BY <1>9
  <2> QED
    BY <1>1, <2>1
<1>11. \A i \in 1..n : \E k \in 1..n : At(k) = i
  <2> DEFINE at == [k \in 1..n |-> At(k)]
  <2>1. at \in Injection(1..n, 1..n)
    BY <1>9, <1>10 DEF Injection, IsInjective
  <2>2. at \in Surjection(1..n, 1..n)
    <3> HIDE DEF at
    <3> QED BY <1>7, <2>1, FS_Injection
  <2> QED
    BY <2>2 DEF Surjection
<1>12. ASSUME NEW k \in 1..n, NEW l \in 1..n, k < l
       PROVE  <<s[At(l)], s[At(k)]>> \notin ahead
  <2>1. SUFFICES ASSUME <<s[At(l)], s[At(k)]>> \in ahead PROVE FALSE
    OBVIOUS
  <2>2. Cardinality(before[At(l)]) < Cardinality(before[At(k)])
    BY <1>8, <1>9, <2>1
  <2> QED
    BY <1>1, <1>9, <1>12, <2>2
<1>13. Lists(Sorted(S, ahead), S)
  <2>1. Sorted(S, ahead) \in [1..n -> S]
    BY <1>1, <1>2, <1>9
  <2>2. \A k, l \in 1..n : Sorted(S, ahead)[k] = Sorted(S, ahead)[l] => k = l
    BY <1>1, <1>2, <1>9, <1>10, SMTT(30)
  <2>3. ASSUME NEW x \in S PROVE \E k \in 1..n : Sorted(S, ahead)[k] = x
    <3>1. PICK i \in 1..n : s[i] = x
      BY <1>1
    <3>2. PICK k \in 1..n : At(k) = i
      BY <1>11
    <3> QED
      BY <1>2, <3>1, <3>2
  <2> QED
    BY <1>1, <2>1, <2>2, <2>3 DEF Lists, n
<1> QED
  BY <1>2, <1>12, <1>13 DEF n

-----------------------------------------------------------------------------
(* The operators of Ranking *)

LEMMA MinMax ==
  ASSUME NEW a \in Int, NEW b \in Int
  PROVE  /\ Min({a, b}) \in {a, b} /\ Min({a, b}) <= a /\ Min({a, b}) <= b
         /\ Max({a, b}) \in {a, b} /\ Max({a, b}) >= a /\ Max({a, b}) >= b
<1>1. \E x \in {a, b} : \A y \in {a, b} : x <= y
  OBVIOUS
<1>2. \E x \in {a, b} : \A y \in {a, b} : x >= y
  OBVIOUS
<1>3. Min({a, b}) \in {a, b} /\ \A y \in {a, b} : Min({a, b}) <= y
  BY <1>1, Zenon DEF Min
<1>4. Max({a, b}) \in {a, b} /\ \A y \in {a, b} : Max({a, b}) >= y
  BY <1>2, Zenon DEF Max
<1> QED
  BY <1>3, <1>4

\* p lists the n members of `at` upwards.
Upwards(p, at, n) ==
  /\ p \in [1..n -> at]
  /\ \A i \in at : \E k \in 1..n : p[k] = i
  /\ \A k, l \in 1..n : k < l <=> p[k] < p[l]
  /\ \A k \in 1..n : Cardinality({j \in at : j < p[k]}) = k - 1

\* Select(s, at) is s at the members of `at`, upwards.
Picks(p, s, at) ==
  /\ Upwards(p, at, Cardinality(at))
  /\ Select(s, at) = [k \in 1..Cardinality(at) |-> s[p[k]]]

LEMMA Selects ==
  ASSUME NEW s, NEW at, IsFiniteSet(at), at \subseteq Nat
  PROVE  /\ Cardinality(at) \in Nat
         /\ \E p : Picks(p, s, at)
<1> DEFINE n == Cardinality(at)
           before == [i \in at |-> {j \in at : j < i}]
           At(k) == CHOOSE i \in at : Cardinality({j \in at : j < i}) = k - 1
           p == [k \in 1..n |-> At(k)]
<1>1. n \in Nat
  BY FS_CardinalityType
<1>2. Select(s, at) = [k \in 1..n |-> s[At(k)]]
  BY DEF Select
<1>3. /\ before \in [at -> SUBSET at]
      /\ \A i \in at : before[i] = {j \in at : j < i}
      /\ \A i, j \in at : i \in before[j] <=> i < j
  OBVIOUS
<1> HIDE DEF before
<1>4. /\ \A i, j \in at : i < j => Cardinality(before[i]) < Cardinality(before[j])
      /\ \A k \in 1..n : \E i \in at : Cardinality(before[i]) = k - 1
      /\ \A i \in at : Cardinality(before[i]) \in 0..(n - 1)
  <2>0. /\ before \in [at -> SUBSET at]
        /\ \A i, j \in at : i \in before[j] <=> i < j
    BY <1>3
  <2>1. /\ \A i \in at : i \notin before[i]
        /\ \A i, j \in at : i # j => i \in before[j] \/ j \in before[i]
        /\ \A i, j \in at : i \in before[j] => before[i] \subseteq before[j]
    <3>1. \A i \in at : i \notin before[i]
      BY <2>0
    <3>2. \A i, j \in at : i # j => i \in before[j] \/ j \in before[i]
      BY <2>0
    <3>3. ASSUME NEW i \in at, NEW j \in at, i \in before[j], NEW k \in before[i] PROVE k \in before[j]
      <4>1. k \in at /\ k < i /\ i < j
        BY <2>0, <3>3
      <4> QED BY <2>0, <4>1
    <3> QED BY <3>1, <3>2, <3>3
  <2>2. /\ \A x, y \in at : x \in before[y] => Cardinality(before[x]) < Cardinality(before[y])
        /\ \A k \in 1..Cardinality(at) : \E x \in at : Cardinality(before[x]) = k - 1
        /\ \A x \in at : Cardinality(before[x]) \in 0..(Cardinality(at) - 1)
    BY <2>0, <2>1, Places, ZenonT(30)
  <2> QED
    BY <2>0, <2>2
<1>5. ASSUME NEW k \in 1..n PROVE At(k) \in at /\ Cardinality({j \in at : j < At(k)}) = k - 1
  <2>1. \E i \in at : Cardinality({j \in at : j < i}) = k - 1
    BY <1>3, <1>4
  <2> QED
    BY <2>1
<1> HIDE DEF At, n
<1>6. /\ p \in [1..n -> at]
      /\ \A k \in 1..n : p[k] = At(k)
      /\ Select(s, at) = [k \in 1..n |-> s[p[k]]]
  BY <1>2, <1>5
<1> HIDE DEF p
<1>7. \A k \in 1..n : p[k] \in at /\ p[k] \in Nat /\ Cardinality(before[p[k]]) = k - 1
  BY <1>3, <1>5, <1>6, ZenonT(30)
<1>8. ASSUME NEW k \in 1..n, NEW l \in 1..n PROVE k < l <=> p[k] < p[l]
  <2>1. CASE p[k] < p[l]
    <3>1. k - 1 < l - 1
      BY <1>4, <1>7, <2>1
    <3> QED BY <1>1, <2>1, <3>1
  <2>2. CASE p[l] < p[k]
    <3>1. l - 1 < k - 1
      BY <1>4, <1>7, <2>2
    <3> QED BY <1>1, <1>7, <2>2, <3>1
  <2>3. CASE p[k] = p[l]
    <3>1. l - 1 = k - 1
      BY <1>7, <2>3
    <3> QED BY <1>1, <1>7, <2>3, <3>1
  <2> QED BY <1>7, <2>1, <2>2, <2>3
<1>9. ASSUME NEW i \in at PROVE \E k \in 1..n : p[k] = i
  <2>1. Cardinality(before[i]) + 1 \in 1..n
    BY <1>1, <1>4
  <2>2. PICK k \in 1..n : k = Cardinality(before[i]) + 1
    BY <2>1
  <2>3. Cardinality(before[p[k]]) = Cardinality(before[i])
    BY <1>4, <1>7, <2>2
  <2>4. Cardinality(before[i]) \in Int
    BY <1>4
  <2>5. ~(p[k] < i) /\ ~(i < p[k])
    BY <1>4, <1>7, <2>3, <2>4
  <2> QED BY <1>7, <2>5
<1>10. \A k \in 1..n : Cardinality({j \in at : j < p[k]}) = k - 1
  BY <1>5, <1>6
<1>11. Upwards(p, at, n)
  BY <1>6, <1>8, <1>9, <1>10 DEF Upwards
<1> QED
  BY <1>1, <1>6, <1>11 DEF n, Picks

\* Tuples of numbers: the first difference decides.
LEMMA LexOrder ==
  ASSUME NEW n \in Nat, NEW a \in [1..n -> Int], NEW b \in [1..n -> Int], NEW c \in [1..n -> Int]
  PROVE  /\ ~Lex(a, a)
         /\ Lex(a, b) /\ Lex(b, c) => Lex(a, c)
         /\ Lex(a, b) => Lex(a, c) \/ Lex(c, b)
<1>1. ~Lex(a, a)
  BY DEF Lex
<1>2. ASSUME Lex(a, b), Lex(b, c) PROVE Lex(a, c)
  <2>1. PICK i \in 1..n : a[i] < b[i] /\ \A j \in 1..(i - 1) : a[j] = b[j]
    BY <1>2 DEF Lex
  <2>2. PICK k \in 1..n : b[k] < c[k] /\ \A j \in 1..(k - 1) : b[j] = c[j]
    BY <1>2 DEF Lex
  <2>3. CASE i <= k
    <3>1. a[i] < c[i]
      BY <2>1, <2>2, <2>3
    <3>2. \A j \in 1..(i - 1) : a[j] = c[j]
      BY <2>1, <2>2, <2>3
    <3> QED BY <3>1, <3>2 DEF Lex
  <2>4. CASE k < i
    <3>1. a[k] < c[k]
      BY <2>1, <2>2, <2>4
    <3>2. \A j \in 1..(k - 1) : a[j] = c[j]
      BY <2>1, <2>2, <2>4
    <3> QED BY <3>1, <3>2 DEF Lex
  <2> QED BY <2>3, <2>4
<1>3. ASSUME Lex(a, b) PROVE Lex(a, c) \/ Lex(c, b)
  <2>1. PICK i \in 1..n : a[i] < b[i] /\ \A j \in 1..(i - 1) : a[j] = b[j]
    BY <1>3 DEF Lex
  <2> DEFINE D == {k \in 1..i : a[k] # c[k] \/ b[k] # c[k]}
  <2>2. i \in D /\ D \subseteq Nat
    BY <2>1
  <2>3. PICK m \in D : \A k \in D : m <= k
    <3> HIDE DEF D
    <3> QED BY <2>2, LeastIn
  <2>4. m \in 1..n /\ m <= i /\ (a[m] # c[m] \/ b[m] # c[m])
    BY <2>1, <2>3
  <2>5. \A j \in 1..(m - 1) : a[j] = c[j] /\ b[j] = c[j]
    <3> SUFFICES ASSUME NEW j \in 1..(m - 1) PROVE j \notin D
      BY <2>4
    <3> QED BY <2>3, <2>4
  <2>6. a[m] < c[m] \/ c[m] < b[m]
    <3>1. CASE m = i
      BY <2>1, <2>4, <3>1
    <3>2. CASE m < i
      <4>1. a[m] = b[m]
        BY <2>1, <2>4, <3>2
      <4> QED BY <2>4, <4>1
    <3> QED BY <2>4, <3>1, <3>2
  <2> QED BY <2>4, <2>5, <2>6 DEF Lex
<1> QED
  BY <1>1, <1>2, <1>3

LEMMA LexWeak ==
  ASSUME NEW S, NEW n \in Nat, NEW key \in [S -> [1..n -> Int]]
  PROVE  Weak(S, {p \in S \X S : Lex(key[p[1]], key[p[2]])})
<1> DEFINE ahead == {p \in S \X S : Lex(key[p[1]], key[p[2]])}
<1>1. \A x, y \in S : <<x, y>> \in ahead <=> Lex(key[x], key[y])
  OBVIOUS
<1> HIDE DEF ahead
<1>2. ASSUME NEW x \in S PROVE <<x, x>> \notin ahead
  <2>1. key[x] \in [1..n -> Int]
    OBVIOUS
  <2> QED BY <1>1, <2>1, LexOrder
<1>3. ASSUME NEW x \in S, NEW y \in S, NEW z \in S
      PROVE  /\ <<x, y>> \in ahead /\ <<y, z>> \in ahead => <<x, z>> \in ahead
             /\ <<x, y>> \in ahead => <<x, z>> \in ahead \/ <<z, y>> \in ahead
  <2>1. key[x] \in [1..n -> Int] /\ key[y] \in [1..n -> Int] /\ key[z] \in [1..n -> Int]
    OBVIOUS
  <2>2. /\ Lex(key[x], key[y]) /\ Lex(key[y], key[z]) => Lex(key[x], key[z])
        /\ Lex(key[x], key[y]) => Lex(key[x], key[z]) \/ Lex(key[z], key[y])
    BY <2>1, LexOrder
  <2> QED BY <1>1, <2>2
<1> QED
  BY <1>2, <1>3 DEF Weak, ahead

\* sorted(key = ...) of a finite set lists it.
LEMMA SortedByLists ==
  ASSUME NEW S, IsFiniteSet(S), NEW n \in Nat, NEW key \in [S -> [1..n -> Int]]
  PROVE  Lists(SortedBy(S, key), S)
<1> DEFINE ahead == {p \in S \X S : Lex(key[p[1]], key[p[2]])}
<1>1. Weak(S, ahead)
  BY LexWeak
<1>2. SortedBy(S, key) = Sorted(S, ahead)
  BY DEF SortedBy
<1> HIDE DEF ahead
<1> QED
  BY <1>1, <1>2, SortedLists

LEMMA ListsSeq ==
  ASSUME NEW S, NEW s, Lists(s, S)
  PROVE  /\ s \in Seq(S) /\ ToSet(s) = S /\ Len(s) = Cardinality(S) /\ DOMAIN s = 1..Len(s)
         /\ S # {} => s[1] \in S
<1>1. /\ Cardinality(S) \in Nat
      /\ s \in [1..Cardinality(S) -> S]
      /\ \A x \in S : \E i \in 1..Cardinality(S) : s[i] = x
  BY DEF Lists
<1>2. s \in Seq(S) /\ Len(s) = Cardinality(S)
  BY <1>1
<1>3. ToSet(s) = S
  BY <1>1 DEF ToSet
<1>4. ASSUME S # {} PROVE s[1] \in S
  <2>1. PICK x \in S : TRUE
    BY <1>4
  <2>2. PICK i \in 1..Cardinality(S) : s[i] = x
    BY <1>1
  <2>3. 1 \in 1..Cardinality(S)
    BY <1>1
  <2> QED BY <1>1, <2>3
<1> QED
  BY <1>1, <1>2, <1>3, <1>4

LEMMA PrefixSeq ==
  ASSUME NEW S, NEW s \in Seq(S), NEW n \in Nat
  PROVE  /\ Prefix(s, n) \in Seq(S) /\ Len(Prefix(s, n)) = Min({n, Len(s)})
         /\ Len(Prefix(s, n)) \in Nat /\ Len(Prefix(s, n)) <= n /\ Len(Prefix(s, n)) <= Len(s)
         /\ \A i \in 1..Len(Prefix(s, n)) : Prefix(s, n)[i] = s[i]
         /\ ToSet(Prefix(s, n)) \subseteq ToSet(s)
<1> DEFINE m == Min({n, Len(s)})
           u == SubSeq(s, 1, m)
<1>0. n \in Int /\ Len(s) \in Int /\ Len(s) \in Nat /\ DOMAIN s = 1..Len(s)
  BY LenProperties
<1>a. m \in {n, Len(s)} /\ m <= n /\ m <= Len(s)
  BY <1>0, MinMax
<1> HIDE DEF m
<1>1. m <= n /\ m <= Len(s)
  BY <1>a
<1>2. m \in Nat
  BY <1>0, <1>a
<1>3. u \in Seq(S) /\ Len(u) = m /\ (\A i \in 1..m : u[i] = s[i]) /\ DOMAIN u = 1..m
  BY <1>0, <1>1, <1>2
<1>4. Prefix(s, n) = u
  BY DEF Prefix, m
<1> HIDE DEF u
<1>5. ToSet(u) \subseteq ToSet(s)
  <2>1. 1..m \subseteq 1..Len(s)
    BY <1>0, <1>1, <1>2
  <2> QED BY <2>1, <1>0, <1>3 DEF ToSet
<1> QED
  BY <1>1, <1>2, <1>3, <1>4, <1>5 DEF m

\* Select(s, at) has the members of s at `at`, each place once.
LEMMA SelectSeqOf ==
  ASSUME NEW S, NEW s \in Seq(S), NEW at, at \subseteq DOMAIN s
  PROVE  /\ IsFiniteSet(at) /\ at \subseteq Nat /\ at \subseteq 1..Len(s)
         /\ Select(s, at) \in Seq({s[i] : i \in at})
         /\ Select(s, at) \in Seq(S)
         /\ ToSet(Select(s, at)) = {s[i] : i \in at}
         /\ Len(Select(s, at)) = Cardinality(at)
<1> DEFINE n == Cardinality(at)
           members == {s[i] : i \in at}
<1>1. at \in SUBSET (1..Len(s)) /\ Len(s) \in Nat
  OBVIOUS
<1>2. IsFiniteSet(at) /\ at \subseteq Nat
  <2>1. IsFiniteSet(1..Len(s))
    BY <1>1, FS_Interval
  <2> QED BY <1>1, <2>1, FS_Subset
<1>3. n \in Nat
  BY <1>2, FS_CardinalityType
<1>b. PICK p : Picks(p, s, at)
  BY <1>2, Selects
<1>4. Upwards(p, at, n) /\ Select(s, at) = [k \in 1..n |-> s[p[k]]]
  BY <1>b DEF Picks
<1>4a. p \in [1..n -> at] /\ \A i \in at : \E k \in 1..n : p[k] = i
  BY <1>4 DEF Upwards
<1>5. \A i \in at : s[i] \in members /\ s[i] \in S
  BY <1>1
<1>6. \A x \in members : \E i \in at : x = s[i]
  OBVIOUS
<1> HIDE DEF n, members
<1> DEFINE u == [k \in 1..n |-> s[p[k]]]
<1>7. \A k \in 1..n : u[k] \in members /\ u[k] \in S /\ u[k] = s[p[k]]
  BY <1>4a, <1>5
<1>8. DOMAIN u = 1..n
  OBVIOUS
<1>9. u \in [1..n -> members] /\ u \in [1..n -> S]
  BY <1>7
<1> HIDE DEF u
<1>10. u \in Seq(members) /\ u \in Seq(S) /\ Len(u) = n
  BY <1>3, <1>9
<1>11. ToSet(u) = members
  <2>1. \A x \in members : \E k \in 1..n : u[k] = x
    BY <1>4a, <1>6, <1>7
  <2> QED BY <1>7, <1>8, <2>1 DEF ToSet
<1> QED
  BY <1>1, <1>2, <1>4, <1>10, <1>11 DEF u, n, members

LEMMA ShownSeq ==
  ASSUME NEW s \in Seq(Chunks), NEW S
  PROVE  Shown(s, S) \in Seq(Chunks) /\ Shown(s, S) \in Seq(S) /\ ToSet(Shown(s, S)) = ToSet(s) \cap S
<1> DEFINE at == {i \in DOMAIN s : s[i] \in S}
           members == {s[i] : i \in at}
<1>1. Shown(s, S) = Select(s, at) /\ at \subseteq DOMAIN s
  BY DEF Shown
<1>2. members = ToSet(s) \cap S
  BY DEF ToSet
<1> HIDE DEF at
<1>3. /\ Select(s, at) \in Seq(members) /\ Select(s, at) \in Seq(Chunks)
      /\ ToSet(Select(s, at)) = members
  BY <1>1, SelectSeqOf
<1> HIDE DEF members
<1>4. members \subseteq S
  BY <1>2
<1>5. Select(s, at) \in Seq(S)
  BY <1>3, <1>4, SeqMonotonic
<1> QED
  BY <1>1, <1>2, <1>3, <1>5

-----------------------------------------------------------------------------
(* The stored definitions and edges *)

Nodes == UNION {Graph[t].symbols : t \in Trees}
Links == UNION {Graph[t].edges : t \in Trees}
Ids == {Id(n) : n \in Nodes} \cup {e.src : e \in Links} \cup {e.dst : e \in Links}

LEMMA NodeTypes ==
  /\ \A n \in Nodes : /\ n.blob \in Int /\ n.from \in Int /\ n.to \in Int /\ n.path \in Int
                      /\ \A term \in DOMAIN n.like : n.like[term] \in Int
                      /\ \A q \in Queries : q.affinity[n.path] \in Int
                      /\ Id(n) \in Ids
  /\ \A e \in Links : e.src \in Ids /\ e.dst \in Ids
  /\ \A id \in Ids : Place(id) \in [1..3 -> Int]
<1>1. \A n \in Nodes : /\ n.blob \in Int /\ n.from \in Int /\ n.to \in Int /\ n.path \in Int
                       /\ \A term \in DOMAIN n.like : n.like[term] \in Int
                       /\ \A q \in Queries : q.affinity[n.path] \in Int
                       /\ Id(n) \in Ids
  BY SchemaAssumption DEF Nodes, Ids
<1>2. \A e \in Links : e.src \in Ids /\ e.dst \in Ids
  BY DEF Ids
<1>3. ASSUME NEW id \in Ids PROVE id[1] \in Int /\ id[2] \in Int /\ id[3] \in Int
  <2>1. \A n \in Nodes : Id(n)[1] = n.blob /\ Id(n)[2] = n.from /\ Id(n)[3] = n.to
    BY DEF Id
  <2>2. \A e \in Links : \A i \in 1..3 : e.src[i] \in Int /\ e.dst[i] \in Int
    BY SchemaAssumption DEF Links
  <2>3. 1 \in 1..3 /\ 2 \in 1..3 /\ 3 \in 1..3
    OBVIOUS
  <2> QED BY <1>1, <2>1, <2>2, <2>3 DEF Ids
<1>4. \A id \in Ids : Place(id) \in [1..3 -> Int]
  BY <1>3 DEF Place
<1> QED
  BY <1>1, <1>2, <1>4

-----------------------------------------------------------------------------
(* The queries of the store *)

LEMMA SetToSeqSeq ==
  ASSUME NEW S, IsFiniteSet(S)
  PROVE  SetToSeq(S) \in Seq(S) /\ ToSet(SetToSeq(S)) = S /\ Len(SetToSeq(S)) = Cardinality(S)
<1>1. Lists(SetToSeq(S), S)
  BY Listing DEF Lists
<1> QED
  BY <1>1, ListsSeq

LEMMA DefinitionsSeq ==
  ASSUME symbols \subseteq Nodes, IsFiniteSet(symbols), NEW name
  PROVE  /\ Definitions(name) \in Seq({n \in Nodes : n.blob \in active})
         /\ ToSet(Definitions(name)) = {n \in symbols : n.symbol = name /\ n.blob \in active}
<1> DEFINE found == {n \in symbols : n.symbol = name /\ n.blob \in active}
           key == [n \in found |-> <<n.path, n.from>>]
           good == {n \in Nodes : n.blob \in active}
<1>1. IsFiniteSet(found) /\ found \subseteq good
  BY FS_Subset
<1>2. key \in [found -> [1..2 -> Int]]
  <2>1. ASSUME NEW n \in found PROVE <<n.path, n.from>> \in [1..2 -> Int]
    <3>1. n.path \in Int /\ n.from \in Int
      BY NodeTypes
    <3> QED BY <3>1
  <2> QED BY <2>1
<1>3. Definitions(name) = SortedBy(found, key)
  BY DEF Definitions
<1> HIDE DEF found, key, good
<1>4. Lists(SortedBy(found, key), found)
  BY <1>1, <1>2, SortedByLists
<1>5. SortedBy(found, key) \in Seq(found) /\ ToSet(SortedBy(found, key)) = found
  BY <1>4, ListsSeq
<1>6. SortedBy(found, key) \in Seq(good)
  BY <1>1, <1>5, SeqMonotonic
<1> QED
  BY <1>3, <1>5, <1>6 DEF found, good

LEMMA SymbolSearchSeq ==
  ASSUME symbols \subseteq Nodes, IsFiniteSet(symbols), NEW term
  PROVE  SymbolSearch(term) \in Seq({n \in Nodes : n.blob \in active})
<1> DEFINE found == {n \in symbols : term \in DOMAIN n.like /\ n.blob \in active}
           key == [n \in found |-> <<n.like[term], n.path>>]
           good == {n \in Nodes : n.blob \in active}
<1>1. IsFiniteSet(found) /\ found \subseteq good
  BY FS_Subset
<1>2. key \in [found -> [1..2 -> Int]]
  <2>1. ASSUME NEW n \in found PROVE <<n.like[term], n.path>> \in [1..2 -> Int]
    <3>1. n.path \in Int /\ n.like[term] \in Int
      BY NodeTypes
    <3> QED BY <3>1
  <2> QED BY <2>1
<1>3. SymbolSearch(term) = Prefix(SortedBy(found, key), SymbolTop)
  BY DEF SymbolSearch
<1> HIDE DEF found, key, good
<1>4. SortedBy(found, key) \in Seq(found)
  BY <1>1, <1>2, SortedByLists, ListsSeq
<1>5. SortedBy(found, key) \in Seq(good)
  BY <1>1, <1>4, SeqMonotonic
<1>6. SymbolTop \in Nat
  BY SearchAssumption
<1>7. Prefix(SortedBy(found, key), SymbolTop) \in Seq(good)
  BY <1>5, <1>6, PrefixSeq
<1> QED
  BY <1>3, <1>7 DEF good

\* The chunk a definition is read from is stored, of its blob, and overlaps it.
LEMMA ChunkForOverlaps ==
  ASSUME NEW n \in Nodes
  PROVE  /\ IsFiniteSet(ChunkFor(n))
         /\ \A c \in ChunkFor(n) : /\ c \in Chunks /\ Chunk[c].blob = n.blob
                                   /\ n.from < Chunk[c].to /\ Chunk[c].from < n.to
<1> DEFINE Shared(c) == Min({Chunk[c].to, n.to}) - Max({Chunk[c].from, n.from})
           over == {c \in StoredChunks : Chunk[c].blob = n.blob /\ Shared(c) > 0}
           Before(c, d) == \/ Shared(c) > Shared(d)
                           \/ Shared(c) = Shared(d) /\ Chunk[c].from < Chunk[d].from
<1>1. ChunkFor(n) = {c \in over : \A d \in over \ {c} : Before(c, d)}
  BY DEF ChunkFor
<1> HIDE DEF Before
<1>2. ChunkFor(n) \subseteq over /\ over \subseteq Chunks
  BY <1>1 DEF StoredChunks
<1>3. IsFiniteSet(ChunkFor(n))
  BY <1>2, SchemaAssumption, FS_Subset
<1>4. ASSUME NEW c \in over PROVE n.from < Chunk[c].to /\ Chunk[c].from < n.to
  <2>1. Chunk[c].to \in Int /\ Chunk[c].from \in Int /\ n.from \in Int /\ n.to \in Int
    BY <1>2, SchemaAssumption, NodeTypes
  <2> DEFINE a == Min({Chunk[c].to, n.to})
             b == Max({Chunk[c].from, n.from})
  <2>2. a <= Chunk[c].to /\ a <= n.to /\ a \in Int
    BY <2>1, MinMax
  <2>3. b >= Chunk[c].from /\ b >= n.from /\ b \in Int
    BY <2>1, MinMax
  <2>4. a - b > 0
    OBVIOUS
  <2> HIDE DEF a, b
  <2> QED BY <2>1, <2>2, <2>3, <2>4
<1> QED
  BY <1>2, <1>3, <1>4

-----------------------------------------------------------------------------
(* Scores *)

LEMMA RankNat ==
  ASSUME NEW S, NEW s \in Seq(S), NEW d
  PROVE  RankIn(s, d) \in Nat
<1> DEFINE I == {i \in 1..Len(s) : s[i] = d}
<1>1. RankIn(s, d) = IF I # {} THEN Min(I) ELSE 0
  BY DEF RankIn, SelectInSeq
<1>2. I \subseteq Nat
  OBVIOUS
<1> HIDE DEF I
<1>3. ASSUME I # {} PROVE Min(I) \in I
  <2>1. \E x \in I : \A y \in I : x <= y
    BY <1>2, <1>3, LeastIn
  <2> QED BY <2>1 DEF Min
<1>4. CASE I = {}
  BY <1>1, <1>4
<1>5. CASE I # {}
  BY <1>1, <1>2, <1>3, <1>5
<1> QED
  BY <1>4, <1>5

LEMMA ShareInt ==
  ASSUME NEW S, NEW s \in Seq(S), NEW d
  PROVE  Share(s, d) \in Int
<1>1. RankIn(s, d) \in Nat /\ Scale \in Nat /\ RrfK \in Nat /\ RrfK > 0
  BY RankNat, RankingAssumption
<1>2. RrfK + RankIn(s, d) \in Nat /\ RrfK + RankIn(s, d) > 0
  BY <1>1
<1>3. Scale \div (RrfK + RankIn(s, d)) \in Int
  BY <1>1, <1>2
<1> QED
  BY <1>3 DEF Share

\* Whatever three lists rank has a score.
LEMMA FuseScores ==
  ASSUME NEW S, NEW a \in Seq(S), NEW b \in Seq(S), NEW c \in Seq(S),
         NEW u \in Int, NEW v \in Int, NEW w \in Int
  PROVE  Fuse(<<a, b, c>>, <<u, v, w>>) \in [ToSet(a) \cup ToSet(b) \cup ToSet(c) -> Int]
<1> DEFINE lists == <<a, b, c>>
           weights == <<u, v, w>>
           ranked == UNION {ToSet(lists[i]) : i \in 1..3}
<1>1. /\ lists[1] = a /\ lists[2] = b /\ lists[3] = c
      /\ weights[1] = u /\ weights[2] = v /\ weights[3] = w
  OBVIOUS
<1>2. Fuse(lists, weights) =
        [d \in ranked |-> weights[1] * Share(lists[1], d) + weights[2] * Share(lists[2], d)
                          + weights[3] * Share(lists[3], d)]
  BY DEF Fuse
<1> HIDE DEF lists, weights
<1>3. ranked = ToSet(a) \cup ToSet(b) \cup ToSet(c)
  <2>1. 1..3 = {1, 2, 3}
    OBVIOUS
  <2> QED BY <1>1, <2>1
<1> HIDE DEF ranked
<1> DEFINE score(d) == weights[1] * Share(lists[1], d) + weights[2] * Share(lists[2], d)
                         + weights[3] * Share(lists[3], d)
<1>4. ASSUME NEW d \in ranked PROVE score(d) \in Int
  <2>1. Share(a, d) \in Int /\ Share(b, d) \in Int /\ Share(c, d) \in Int
    BY ShareInt
  <2>2. u * Share(a, d) \in Int /\ v * Share(b, d) \in Int /\ w * Share(c, d) \in Int
    BY <2>1
  <2> QED BY <1>1, <2>2
<1>5. Fuse(lists, weights) = [d \in ranked |-> score(d)]
  BY <1>2
<1> HIDE DEF score
<1>6. Fuse(lists, weights) \in [ranked -> Int]
  BY <1>4, <1>5
<1> QED
  BY <1>3, <1>6 DEF lists, weights

\* Best first: every scored chunk once.
LEMMA OrderedLists ==
  ASSUME NEW S, IsFiniteSet(S), S \subseteq Chunks, NEW scores \in [S -> Int]
  PROVE  Lists(Ordered(scores), S)
<1> DEFINE key == [c \in S |-> <<-scores[c], c>>]
<1>1. key \in [S -> [1..2 -> Int]]
  <2>1. ASSUME NEW c \in S PROVE <<-scores[c], c>> \in [1..2 -> Int]
    <3>1. -scores[c] \in Int /\ c \in Int
      BY SchemaAssumption
    <3> QED BY <3>1
  <2> QED BY <2>1
<1>2. Ordered(scores) = SortedBy(S, key)
  BY DEF Ordered
<1> HIDE DEF key
<1> QED
  BY <1>1, <1>2, SortedByLists

\* What is listed is listed somewhere.
LEMMA ListedAt ==
  ASSUME NEW S, NEW s \in Seq(S), NEW x \in ToSet(s)
  PROVE  \E i \in 1..Len(s) : s[i] = x
<1>1. PICK i \in DOMAIN s : s[i] = x
  BY Zenon DEF ToSet
<1>2. DOMAIN s = 1..Len(s)
  BY LenProperties, Zenon
<1> QED
  BY <1>1, <1>2, Zenon

\* The candidates are chunks of the three lists; o reranks them all.
LEMMA PoolChunks ==
  ASSUME NEW S, S \subseteq Chunks, NEW a \in Seq(S), NEW b \in Seq(S), NEW c \in Seq(S)
  PROVE  /\ Pool(a, b, c) \in Seq(S)
         /\ 2 * ChannelHead + Max({1, ChannelHead \div 2}) <= RerankTop =>
              /\ ToSet(Prefix(a, ChannelHead)) \subseteq ToSet(Pool(a, b, c))
              /\ ToSet(Prefix(b, ChannelHead)) \subseteq ToSet(Pool(a, b, c))
              /\ ToSet(Prefix(c, Max({1, ChannelHead \div 2}))) \subseteq ToSet(Pool(a, b, c))
<1> DEFINE half == Max({1, ChannelHead \div 2})
           fused == Ordered(Fuse(<<a, b, c>>, <<1, 1, 1>>))
           p == Prefix(b, ChannelHead)
           q == Prefix(a, ChannelHead)
           r == Prefix(c, half)
           heads == p \o q \o r
           all == heads \o fused
           firsts == {i \in DOMAIN all : \A j \in 1..(i - 1) : all[j] # all[i]}
           pool == Select(all, firsts)
<1>0. /\ Pool(a, b, c) = Prefix(pool, RerankTop)
      /\ pool = Select(all, firsts) /\ firsts \subseteq DOMAIN all
  BY DEF Pool, Distinct
<1> HIDE DEF pool, firsts
<1>1. ChannelHead \in Nat /\ half \in Nat /\ RerankTop \in Nat
  <2>1. ChannelHead \in Nat /\ RerankTop \in Nat /\ ChannelHead \div 2 \in Int /\ ChannelHead \div 2 >= 0
    BY RankingAssumption
  <2> DEFINE h == ChannelHead \div 2
  <2>b. 1 \in Int /\ h \in Int
    BY <2>1
  <2> HIDE DEF h
  <2>2. Max({1, h}) \in {1, h} /\ Max({1, h}) >= 1
    BY <2>b, MinMax
  <2> QED BY <2>1, <2>b, <2>2 DEF h
<1>2. fused \in Seq(S)
  <2>1. ToSet(a) \cup ToSet(b) \cup ToSet(c) \subseteq S
    BY DEF ToSet
  <2> DEFINE T == ToSet(a) \cup ToSet(b) \cup ToSet(c)
  <2>2. IsFiniteSet(T) /\ T \subseteq Chunks /\ T \subseteq S
    BY <2>1, SchemaAssumption, FS_Subset
  <2> DEFINE scores == Fuse(<<a, b, c>>, <<1, 1, 1>>)
  <2>3. scores \in [T -> Int]
    BY FuseScores, 1 \in Int
  <2> HIDE DEF T, scores
  <2>4. Ordered(scores) \in Seq(T)
    BY <2>2, <2>3, OrderedLists, ListsSeq
  <2>5. fused \in Seq(T)
    BY <2>4 DEF scores
  <2> QED BY <2>2, <2>5, SeqMonotonic
<1>3. /\ p \in Seq(S) /\ Len(p) \in Nat /\ Len(p) <= ChannelHead
      /\ q \in Seq(S) /\ Len(q) \in Nat /\ Len(q) <= ChannelHead
      /\ r \in Seq(S) /\ Len(r) \in Nat /\ Len(r) <= half
  BY <1>1, PrefixSeq
<1> HIDE DEF half, fused, p, q, r
<1>5. /\ heads \in Seq(S) /\ all \in Seq(S) /\ DOMAIN all = 1..Len(all)
      /\ Len(heads) = Len(p) + Len(q) + Len(r) /\ Len(heads) <= Len(all)
  BY <1>2, <1>3
<1>6. \A i \in 1..Len(heads) : all[i] = heads[i]
  BY <1>2, <1>3
<1>7. ToSet(p) \cup ToSet(q) \cup ToSet(r) \subseteq ToSet(heads)
  <2>1. ASSUME NEW x \in ToSet(p) PROVE x \in ToSet(heads)
    <3>1. PICK i \in 1..Len(p) : p[i] = x
      BY <1>3, <2>1, ListedAt, Zenon
    <3>2. i \in DOMAIN heads /\ heads[i] = x
      BY <1>3, <3>1
    <3> QED BY <3>2, Zenon DEF ToSet
  <2>2. ASSUME NEW x \in ToSet(q) PROVE x \in ToSet(heads)
    <3>1. PICK i \in 1..Len(q) : q[i] = x
      BY <1>3, <2>2, ListedAt, Zenon
    <3>2. Len(p) + i \in DOMAIN heads /\ heads[Len(p) + i] = x
      BY <1>3, <3>1
    <3> QED BY <3>2, Zenon DEF ToSet
  <2>3. ASSUME NEW x \in ToSet(r) PROVE x \in ToSet(heads)
    <3>1. PICK i \in 1..Len(r) : r[i] = x
      BY <1>3, <2>3, ListedAt, Zenon
    <3>2. p \o q \in Seq(S) /\ Len(p \o q) = Len(p) + Len(q)
      BY <1>3
    <3> DEFINE pq == p \o q
    <3>3. heads = pq \o r
      OBVIOUS
    <3> HIDE DEF pq
    <3>4. Len(pq) + i \in DOMAIN (pq \o r) /\ (pq \o r)[Len(pq) + i] = x
      BY <1>3, <3>1, <3>2 DEF pq
    <3> QED BY <3>3, <3>4, Zenon DEF ToSet
  <2> QED BY <2>1, <2>2, <2>3
<1> HIDE DEF heads, all
<1>8. /\ IsFiniteSet(firsts) /\ firsts \subseteq Nat /\ firsts \subseteq 1..Len(all)
      /\ pool \in Seq(S)
  BY <1>0, <1>5, SelectSeqOf
<1>9. Pool(a, b, c) \in Seq(S)
  BY <1>1, <1>0, <1>8, PrefixSeq
<1>10. ASSUME 2 * ChannelHead + half <= RerankTop, NEW x \in ToSet(heads)
       PROVE  x \in ToSet(Pool(a, b, c))
  <2>1. Len(heads) <= RerankTop
    BY <1>1, <1>3, <1>5, <1>10
  <2>2. PICK l \in 1..Len(heads) : heads[l] = x
    BY <1>5, <1>10, ListedAt, Zenon
  <2> DEFINE P == {i \in 1..Len(all) : all[i] = x}
  <2>3. l \in P /\ P \subseteq Nat
    BY <1>5, <1>6, <2>2
  <2>4. PICK i \in P : \A j \in P : i <= j
    <3> HIDE DEF P
    <3> QED BY <2>3, LeastIn
  <2>5. i \in firsts /\ i <= l /\ all[i] = x
    <3>1. i \in 1..Len(all) /\ all[i] = x /\ i <= l
      BY <2>3, <2>4
    <3>2. ASSUME NEW j \in 1..(i - 1) PROVE all[j] # x
      BY <1>5, <2>4, <3>1
    <3> QED BY <1>5, <3>1, <3>2 DEF firsts
  <2> DEFINE n == Cardinality(firsts)
  <2>a. PICK at : Picks(at, all, firsts)
    BY <1>8, Selects
  <2>6. Upwards(at, firsts, n) /\ pool = [k \in 1..n |-> all[at[k]]]
    BY <1>0, <2>a DEF Picks
  <2>7. n \in Nat
    BY <1>8, FS_CardinalityType
  <2> HIDE DEF n
  <2>8. PICK k \in 1..n : at[k] = i
    BY <2>5, <2>6 DEF Upwards
  <2>9. k <= i
    <3>1. Cardinality({j \in firsts : j < i}) = k - 1
      BY <2>6, <2>8 DEF Upwards
    <3>2. i \in Nat /\ i >= 1
      BY <1>8, <2>5
    <3>a. 1 \in Int /\ i - 1 \in Int /\ i - 1 - 1 + 1 = i - 1 /\ ~(1 > i - 1 /\ i - 1 # 0)
      BY <3>2
    <3>3. IsFiniteSet(1..(i - 1)) /\ Cardinality(1..(i - 1)) = i - 1
      BY <3>a, FS_Interval
    <3>4. {j \in firsts : j < i} \in SUBSET (1..(i - 1))
      <4> SUFFICES ASSUME NEW j \in firsts, j < i PROVE j \in 1..(i - 1)
        OBVIOUS
      <4> QED BY <1>8, <3>2
    <3>5. Cardinality({j \in firsts : j < i}) <= Cardinality(1..(i - 1))
      BY <3>3, <3>4, FS_Subset
    <3> QED BY <2>7, <3>1, <3>2, <3>3, <3>5
  <2>10. k <= RerankTop /\ pool[k] = x /\ Len(pool) = n
    <3>1. i <= l /\ i \in Nat /\ l <= Len(heads) /\ Len(heads) \in Nat
      BY <1>5, <1>8, <2>2, <2>5, LenProperties
    <3>2. k <= RerankTop
      BY <1>1, <2>1, <2>7, <2>9, <3>1
    <3>3. pool[k] = all[i] /\ Len(pool) = n
      BY <2>6, <2>7, <2>8
    <3> QED BY <2>5, <3>2, <3>3
  <2> DEFINE u == Prefix(pool, RerankTop)
  <2>11. u \in Seq(S) /\ Len(u) = Min({RerankTop, Len(pool)}) /\ \A j \in 1..Len(u) : u[j] = pool[j]
    BY <1>1, <1>8, PrefixSeq
  <2>12. k <= Min({RerankTop, Len(pool)})
    <3>1. RerankTop \in Int /\ Len(pool) \in Int /\ k <= RerankTop /\ k <= Len(pool)
      BY <1>1, <2>7, <2>10
    <3>2. Min({RerankTop, Len(pool)}) \in {RerankTop, Len(pool)}
      BY <3>1, MinMax
    <3> QED BY <3>1, <3>2
  <2> HIDE DEF u
  <2>13. k \in DOMAIN u /\ u[k] = x
    <3>1. k \in 1..Len(u) /\ DOMAIN u = 1..Len(u)
      BY <2>7, <2>11, <2>12, LenProperties
    <3> QED BY <2>10, <2>11, <3>1
  <2> QED BY <1>0, <2>13, Zenon DEF ToSet, u
<1> QED
  BY <1>7, <1>9, <1>10, Zenon DEF half, p, q, r

LEMMA BlendScores ==
  ASSUME NEW a \in Seq(Chunks), NEW b \in Seq(Chunks), NEW w \in Int
  PROVE  Blend(a, b, w) \in [ToSet(a) -> Int]
<1> DEFINE f == Fuse(<<a, b, <<>> >>, <<1, w, 0>>)
           T == ToSet(a) \cup ToSet(b) \cup ToSet(<<>>)
<1>1. f \in [T -> Int]
  <2>1. <<>> \in Seq(Chunks) /\ 1 \in Int /\ 0 \in Int
    OBVIOUS
  <2> QED BY <2>1, FuseScores
<1>2. ToSet(a) \subseteq T
  OBVIOUS
<1>3. Blend(a, b, w) = Restrict(f, ToSet(a))
  BY DEF Blend
<1> HIDE DEF f, T
<1> QED
  BY <1>1, <1>2, <1>3 DEF Restrict

LEMMA RouterScoreInt ==
  ASSUME NEW tier \in Int, NEW rank \in Int
  PROVE  RouterScore(tier, rank) \in Int
<1> DEFINE a == 1000 - 120 * tier
           b == Max({100, a})
           d == b - 40 * rank
<1>1. a \in Int /\ 100 \in Int /\ 50 \in Int
  OBVIOUS
<1> HIDE DEF a
<1>2. b \in {100, a}
  BY <1>1, MinMax
<1> HIDE DEF b
<1>3. d \in Int
  BY <1>1, <1>2
<1> HIDE DEF d
<1>4. Max({50, d}) \in {50, d}
  BY <1>1, <1>3, MinMax
<1>5. Max({50, d}) \in Int
  BY <1>3, <1>4
<1> QED
  BY <1>5 DEF RouterScore, a, b, d

LEMMA TokenOrderSeq ==
  ASSUME NEW S, NEW ds \in Seq(Seq(S))
  PROVE  TokenOrder(ds) \in Seq(DOMAIN ds)
<1> DEFINE found == {t \in DOMAIN ds : ds[t] # <<>>}
           key == [t \in found |-> <<IF Len(ds[t]) > AmbiguousDefs THEN 1 ELSE 0, Len(ds[t]), t>>]
<1>1. DOMAIN ds = 1..Len(ds) /\ Len(ds) \in Nat
  BY LenProperties
<1>2. IsFiniteSet(found) /\ found \subseteq DOMAIN ds
  <2>1. found \in SUBSET (1..Len(ds)) /\ IsFiniteSet(1..Len(ds))
    BY <1>1, FS_Interval
  <2> QED BY <1>1, <2>1, FS_Subset
<1>3. key \in [found -> [1..3 -> Int]]
  <2>1. ASSUME NEW t \in found
        PROVE  <<IF Len(ds[t]) > AmbiguousDefs THEN 1 ELSE 0, Len(ds[t]), t>> \in [1..3 -> Int]
    <3>1. t \in Int /\ Len(ds[t]) \in Int
      BY <1>1, LenProperties
    <3> QED BY <3>1
  <2> QED BY <2>1
<1>4. TokenOrder(ds) = SortedBy(found, key)
  BY DEF TokenOrder
<1> HIDE DEF found, key
<1>5. SortedBy(found, key) \in Seq(found)
  BY <1>2, <1>3, SortedByLists, ListsSeq
<1> QED
  BY <1>2, <1>4, <1>5, SeqMonotonic

LEMMA ContributionSeq ==
  ASSUME query \in Queries, NEW S, S \subseteq Nodes, NEW ds \in Seq(S)
  PROVE  Contribution(ds) \in Seq(S)
<1> DEFINE key == [i \in DOMAIN ds |-> <<-query.affinity[ds[i].path], i>>]
           order == SortedBy(DOMAIN ds, key)
           listed == [i \in DOMAIN order |-> ds[order[i]]]
<1>1. DOMAIN ds = 1..Len(ds) /\ Len(ds) \in Nat /\ IsFiniteSet(DOMAIN ds)
  BY LenProperties, FS_Interval
<1>2. key \in [DOMAIN ds -> [1..2 -> Int]]
  <2>1. ASSUME NEW i \in DOMAIN ds PROVE <<-query.affinity[ds[i].path], i>> \in [1..2 -> Int]
    <3>1. ds[i] \in Nodes /\ i \in Int
      BY <1>1
    <3>2. -query.affinity[ds[i].path] \in Int
      BY <3>1, NodeTypes, SMTT(30)
    <3> QED BY <3>1, <3>2
  <2> QED BY <2>1
<1>3. Contribution(ds) = Prefix(listed, Fanout)
  BY DEF Contribution
<1> HIDE DEF key
<1>4. order \in Seq(DOMAIN ds)
  BY <1>1, <1>2, SortedByLists, ListsSeq
<1> HIDE DEF order
<1>5. listed \in Seq(S)
  <2>1. DOMAIN order = 1..Len(order) /\ Len(order) \in Nat /\ \A i \in 1..Len(order) : order[i] \in DOMAIN ds
    BY <1>4, LenProperties
  <2>2. \A i \in DOMAIN ds : ds[i] \in S
    BY <1>1
  <2>3. listed \in [1..Len(order) -> S]
    BY <2>1, <2>2
  <2> QED BY <2>1, <2>3
<1> HIDE DEF listed
<1>6. Fanout \in Nat
  BY RankingAssumption
<1> QED
  BY <1>3, <1>5, <1>6, PrefixSeq

\* Cross-multiplied, usefulness per token is a weak order.
LEMMA DensityOrder ==
  ASSUME NEW a \in Int, NEW b \in Int, NEW c \in Int,
         NEW u \in Int, NEW v \in Int, NEW w \in Int, u > 0, v > 0, w > 0
  PROVE  /\ a * v > b * u /\ b * w >= c * v => a * w > c * u
         /\ a * v >= b * u /\ b * w > c * v => a * w > c * u
         /\ a * v = b * u /\ b * w = c * v => a * w = c * u
<1>1. /\ (a * v) * w = (a * w) * v /\ (b * u) * w = (b * w) * u /\ (c * v) * u = (c * u) * v
      /\ a * v \in Int /\ b * u \in Int /\ b * w \in Int /\ c * v \in Int /\ a * w \in Int /\ c * u \in Int
  OBVIOUS
<1>2. \A x, y \in Int : /\ x > y => x * w > y * w /\ x * u > y * u
                        /\ x >= y => x * w >= y * w /\ x * u >= y * u
                        /\ x * v > y * v => x > y
                        /\ x * v = y * v => x = y
  OBVIOUS
<1>3. ASSUME a * v > b * u, b * w >= c * v PROVE a * w > c * u
  <2>1. (a * v) * w > (b * u) * w /\ (b * w) * u >= (c * v) * u
    BY <1>1, <1>2, <1>3
  <2>2. (a * w) * v > (c * u) * v
    BY <1>1, <2>1
  <2> QED BY <1>1, <1>2, <2>2
<1>4. ASSUME a * v >= b * u, b * w > c * v PROVE a * w > c * u
  <2>1. (a * v) * w >= (b * u) * w /\ (b * w) * u > (c * v) * u
    BY <1>1, <1>2, <1>4
  <2>2. (a * w) * v > (c * u) * v
    BY <1>1, <2>1
  <2> QED BY <1>1, <1>2, <2>2
<1>5. ASSUME a * v = b * u, b * w = c * v PROVE a * w = c * u
  <2>1. (a * w) * v = (c * u) * v
    BY <1>1, <1>5
  <2> QED BY <1>1, <1>2, <2>1
<1> QED
  BY <1>3, <1>4, <1>5

\* A score of a at the cost u against one of b at the cost v.
Denser(a, u, b, v) == a * v > b * u
Level(a, u, b, v) == a * v = b * u

LEMMA DenserOrder ==
  ASSUME NEW a \in Int, NEW b \in Int, NEW c \in Int,
         NEW u \in Int, NEW v \in Int, NEW w \in Int, u > 0, v > 0, w > 0
  PROVE  /\ ~Denser(a, u, a, u)
         /\ Denser(a, u, b, v) \/ Level(a, u, b, v) \/ Denser(b, v, a, u)
         /\ Level(a, u, b, v) => Level(b, v, a, u) /\ ~Denser(a, u, b, v)
         /\ Denser(a, u, b, v) => ~Denser(b, v, a, u)
         /\ Denser(a, u, b, v) /\ Denser(b, v, c, w) => Denser(a, u, c, w)
         /\ Denser(a, u, b, v) /\ Level(b, v, c, w) => Denser(a, u, c, w)
         /\ Level(a, u, b, v) /\ Denser(b, v, c, w) => Denser(a, u, c, w)
         /\ Level(a, u, b, v) /\ Level(b, v, c, w) => Level(a, u, c, w)
<1> DEFINE ab == a * v
           ba == b * u
           bc == b * w
           cb == c * v
           ac == a * w
           ca == c * u
<1>1. ab \in Int /\ ba \in Int /\ bc \in Int /\ cb \in Int /\ ac \in Int /\ ca \in Int /\ a * u \in Int
  OBVIOUS
<1>2. /\ ab > ba /\ bc >= cb => ac > ca
      /\ ab >= ba /\ bc > cb => ac > ca
      /\ ab = ba /\ bc = cb => ac = ca
  BY DensityOrder
<1>3. /\ Denser(a, u, b, v) <=> ab > ba
      /\ Level(a, u, b, v) <=> ab = ba
      /\ Denser(b, v, a, u) <=> ba > ab
      /\ Level(b, v, a, u) <=> ba = ab
      /\ Denser(b, v, c, w) <=> bc > cb
      /\ Level(b, v, c, w) <=> bc = cb
      /\ Denser(a, u, c, w) <=> ac > ca
      /\ Level(a, u, c, w) <=> ac = ca
  BY DEF Denser, Level
<1>4. ~Denser(a, u, a, u)
  BY <1>1 DEF Denser
<1> HIDE DEF ab, ba, bc, cb, ac, ca
<1> QED
  BY <1>1, <1>2, <1>3, <1>4

LEMMA CostPositive ==
  ASSUME NEW r, r.cost \in Int
  PROVE  Cost(r) \in Int /\ Cost(r) > 0
<1> DEFINE c == r.cost
<1>1. c \in Int /\ 1 \in Int
  OBVIOUS
<1> HIDE DEF c
<1>2. Max({1, c}) \in {1, c} /\ Max({1, c}) >= 1
  BY <1>1, MinMax
<1>3. Max({1, c}) \in Int /\ Max({1, c}) > 0
  BY <1>1, <1>2
<1> QED
  BY <1>3 DEF Cost, c

\* The packer goes through every result once.
LEMMA PackOrderLists ==
  ASSUME NEW S, IsFiniteSet(S),
         \A r \in S : r.score \in Int /\ r.cost \in Int /\ r.chunk \in Int
  PROVE  Lists(PackOrder(S), S)
<1> DEFINE Ahead(a, b) ==
             LET x == a.score * Cost(b)
                 y == b.score * Cost(a)
             IN  x > y \/ (x = y /\ Lex(<<-a.score, a.chunk>>, <<-b.score, b.chunk>>))
           ahead == {p \in S \X S : Ahead(p[1], p[2])}
<1>1. PackOrder(S) = Sorted(S, ahead)
  BY DEF PackOrder
<1>2. \A x, y \in S : <<x, y>> \in ahead <=> Ahead(x, y)
  OBVIOUS
<1> HIDE DEF ahead
<1>3. \A r \in S : Cost(r) \in Int /\ Cost(r) > 0 /\ r.score \in Int
  BY CostPositive
<1> DEFINE key(r) == <<-r.score, r.chunk>>
<1>4. ASSUME NEW r \in S PROVE key(r) \in [1..2 -> Int]
  <2>1. -r.score \in Int /\ r.chunk \in Int
    OBVIOUS
  <2> QED BY <2>1
<1>5. \A a, b \in S : Ahead(a, b) <=>
         \/ Denser(a.score, Cost(a), b.score, Cost(b))
         \/ Level(a.score, Cost(a), b.score, Cost(b)) /\ Lex(key(a), key(b))
  BY DEF Denser, Level
<1> HIDE DEF key, Ahead
<1>6. ASSUME NEW a \in S PROVE ~Ahead(a, a)
  <2>1. ~Lex(key(a), key(a))
    BY <1>4, LexOrder
  <2>2. ~Denser(a.score, Cost(a), a.score, Cost(a))
    BY <1>3, DenserOrder
  <2> QED BY <1>5, <2>1, <2>2
<1>7. ASSUME NEW a \in S, NEW b \in S, NEW c \in S
      PROVE  /\ Ahead(a, b) /\ Ahead(b, c) => Ahead(a, c)
             /\ Ahead(a, b) => Ahead(a, c) \/ Ahead(c, b)
  <2>1. /\ Lex(key(a), key(b)) /\ Lex(key(b), key(c)) => Lex(key(a), key(c))
        /\ Lex(key(a), key(b)) => Lex(key(a), key(c)) \/ Lex(key(c), key(b))
    BY <1>4, LexOrder
  <2> DEFINE D(x, y) == Denser(x.score, Cost(x), y.score, Cost(y))
             L(x, y) == Level(x.score, Cost(x), y.score, Cost(y))
  <2>2. \A x, y, z \in S :
          /\ D(x, y) \/ L(x, y) \/ D(y, x)
          /\ L(x, y) => L(y, x) /\ ~D(x, y)
          /\ D(x, y) => ~D(y, x)
          /\ D(x, y) /\ D(y, z) => D(x, z)
          /\ D(x, y) /\ L(y, z) => D(x, z)
          /\ L(x, y) /\ D(y, z) => D(x, z)
          /\ L(x, y) /\ L(y, z) => L(x, z)
    <3> SUFFICES ASSUME NEW x \in S, NEW y \in S, NEW z \in S
                 PROVE  /\ D(x, y) \/ L(x, y) \/ D(y, x)
                        /\ L(x, y) => L(y, x) /\ ~D(x, y)
                        /\ D(x, y) => ~D(y, x)
                        /\ D(x, y) /\ D(y, z) => D(x, z)
                        /\ D(x, y) /\ L(y, z) => D(x, z)
                        /\ L(x, y) /\ D(y, z) => D(x, z)
                        /\ L(x, y) /\ L(y, z) => L(x, z)
      OBVIOUS
    <3>1. /\ x.score \in Int /\ Cost(x) \in Int /\ Cost(x) > 0
          /\ y.score \in Int /\ Cost(y) \in Int /\ Cost(y) > 0
          /\ z.score \in Int /\ Cost(z) \in Int /\ Cost(z) > 0
      BY <1>3
    <3>2. PICK a1 \in Int, u1 \in Int : a1 = x.score /\ u1 = Cost(x) /\ u1 > 0
      BY <3>1
    <3>3. PICK a2 \in Int, u2 \in Int : a2 = y.score /\ u2 = Cost(y) /\ u2 > 0
      BY <3>1
    <3>4. PICK a3 \in Int, u3 \in Int : a3 = z.score /\ u3 = Cost(z) /\ u3 > 0
      BY <3>1
    <3>5. /\ Denser(a1, u1, a2, u2) \/ Level(a1, u1, a2, u2) \/ Denser(a2, u2, a1, u1)
          /\ Level(a1, u1, a2, u2) => Level(a2, u2, a1, u1) /\ ~Denser(a1, u1, a2, u2)
          /\ Denser(a1, u1, a2, u2) => ~Denser(a2, u2, a1, u1)
          /\ Denser(a1, u1, a2, u2) /\ Denser(a2, u2, a3, u3) => Denser(a1, u1, a3, u3)
          /\ Denser(a1, u1, a2, u2) /\ Level(a2, u2, a3, u3) => Denser(a1, u1, a3, u3)
          /\ Level(a1, u1, a2, u2) /\ Denser(a2, u2, a3, u3) => Denser(a1, u1, a3, u3)
          /\ Level(a1, u1, a2, u2) /\ Level(a2, u2, a3, u3) => Level(a1, u1, a3, u3)
      BY <3>2, <3>3, <3>4, DenserOrder
    <3> QED BY <3>2, <3>3, <3>4, <3>5
  <2>3. \A x, y \in S : Ahead(x, y) <=> D(x, y) \/ (L(x, y) /\ Lex(key(x), key(y)))
    BY <1>5
  <2> HIDE DEF D, L
  <2>4. ASSUME Ahead(a, b), Ahead(b, c) PROVE Ahead(a, c)
    BY <2>1, <2>2, <2>3, <2>4
  <2>5. ASSUME Ahead(a, b) PROVE Ahead(a, c) \/ Ahead(c, b)
    <3>1. CASE D(a, c) \/ D(c, b)
      BY <2>3, <3>1
    <3>2. CASE ~D(a, c) /\ ~D(c, b)
      <4>1. (L(a, c) \/ D(c, a)) /\ (L(c, b) \/ D(b, c))
        BY <2>2, <3>2
      <4>2. ~D(b, a)
        BY <2>2, <2>3, <2>5
      <4>3. ~D(c, a)
        BY <2>2, <2>3, <2>5, <3>2, <4>1, <4>2
      <4>4. ~D(b, c)
        BY <2>2, <2>3, <2>5, <3>2, <4>1, <4>2
      <4>5. L(a, c) /\ L(c, b) /\ L(a, b)
        BY <2>2, <4>1, <4>3, <4>4
      <4>6. Lex(key(a), key(b))
        BY <2>2, <2>3, <2>5, <4>5
      <4> QED BY <2>1, <2>3, <4>5, <4>6
    <3> QED BY <3>1, <3>2
  <2> QED BY <2>4, <2>5
<1>8. Weak(S, ahead)
  BY <1>2, <1>6, <1>7 DEF Weak
<1> QED
  BY <1>1, <1>8, SortedLists

LEMMA ReturnedLists ==
  ASSUME NEW S, IsFiniteSet(S), \A r \in S : r.score \in Int /\ r.chunk \in Int
  PROVE  Lists(Returned(S), S)
<1> DEFINE key == [r \in S |-> <<-r.score, r.chunk>>]
<1>1. key \in [S -> [1..2 -> Int]]
  <2>1. ASSUME NEW r \in S PROVE <<-r.score, r.chunk>> \in [1..2 -> Int]
    <3>1. -r.score \in Int /\ r.chunk \in Int
      OBVIOUS
    <3> QED BY <3>1
  <2> QED BY <2>1
<1>2. Returned(S) = SortedBy(S, key)
  BY DEF Returned
<1> HIDE DEF key
<1> QED
  BY <1>1, <1>2, SortedByLists

-----------------------------------------------------------------------------
(* The inductive invariant.  What a call has read stays justified: what a  *)
(* file once active or an edge once stored gave it.                        *)

Sources == {"symbol", "bm25", "vector", "expansion"}
Names == UNION {ToSet(Chunk[c].names) : c \in Chunks}
Crumbs == {Chunk[c].crumb : c \in Chunks}
Vias == [edge : Links, of : Ids, id : Ids]
Rows == [chunk : Chunks, score : Int, source : Sources, via : {None} \cup Vias,
         blob : Blobs, from : Int, to : Int, crumb : Crumbs, cost : Int]
Steps == [rank : Int, kind : {"calls", "imports", "references"}, incoming : BOOLEAN]
Heads == [chunk : Chunks, score : Int, names : Seq(Names), nodes : Seq(Nodes)]

SeenNodes == {n \in Nodes : n.blob \in wasActive}
SeenChunks == {c \in Chunks : Chunk[c].blob \in wasActive}

\* Edges that were stored, with both their ends.
Ties == {v \in Vias : v.edge \in wasEdge /\ {v.edge.src, v.edge.dst} = {v.of, v.id}}
GoodLinks == {l \in [edge : Links, rank : Int, of : Ids, id : Ids] :
                l.edge \in wasEdge /\ {l.edge.src, l.edge.dst} = {l.of, l.id}}

GoodHits == {h \in Rows :
  /\ h.blob \in wasActive
  /\ h.via # None => /\ h.via \in Ties
                     /\ h.via.id[1] = h.blob /\ h.via.id[2] < h.to /\ h.from < h.via.id[3]}

Found == [node : SeenNodes, score : Int]
FoundSources == {m \in [node : SeenNodes, via : {None} \cup Ties, score : Int] :
                   m.via # None => m.via.id = Id(m.node)}

IndexInv ==
  /\ active \subseteq known /\ chunked \subseteq known /\ known \subseteq Blobs
  /\ symbols \subseteq Nodes /\ IsFiniteSet(symbols)
  /\ edges \subseteq Links /\ IsFiniteSet(edges)
  /\ sync \in {"none", "blobs", "chunks", "reactivate", "wipe", "symbols", "edges"}
  /\ sync # "none" => target \in Trees
  /\ sync = "reactivate" => target \subseteq known
  /\ sync = "chunks" => adding \in known
  /\ (adding # None) <=> (sync = "chunks")

SearchStages == {"tokens", "define", "text", "vector", "knn", "scan", "filter", "symbols", "expand",
                 "pack", "trim"}
SymbolStages == {"symbol", "counting", "sources"}

CallInv ==
  /\ stage \in SearchStages \cup SymbolStages \cup {"idle", "handle", "answered"}
  /\ stage = "idle" <=> query = None
  /\ stage = "idle" => wasActive = {} /\ wasEdge = {}
  /\ stage # "idle" => query \in Queries /\ active \subseteq wasActive /\ edges \subseteq wasEdge
  /\ stage \in SearchStages => query.tool = "search"
  /\ stage \in SymbolStages => query.tool # "search" /\ query.tool # "expand"
  /\ stage = "handle" => query.tool = "expand" /\ query.tokens[1] \in StoredChunks
  /\ stage = "answered" /\ query.tool = "expand" => reply.rows # <<>>

ReadInv ==
  /\ weight \in Int
  /\ defs \in Seq(Seq(SeenNodes))
  /\ text \in Seq(SeenChunks) /\ vector \in Seq(SeenChunks) /\ symbolic \in Seq(SeenChunks)
  /\ distance \in Seq(Chunks)

ItemsInv ==
  /\ stage = "define" => items \in Seq(Found)
  /\ stage \in {"symbols", "counting"} => items \in Seq(SeenNodes)
  /\ stage = "expand" => items \in Seq(Heads)
  /\ stage = "sources" => items \in Seq(FoundSources)
  /\ stage \notin {"define", "symbols", "counting", "expand", "sources"} => items = <<>>

WalkInv ==
  /\ stage \in {"define", "expand"} => plan \in Seq(Steps)
  /\ stage \notin {"define", "expand", "symbols"} => plan = <<>>
  /\ stage \in {"define", "expand"} /\ ~Walked => base \in [id : Ids, score : Int]
  /\ links \subseteq GoodLinks /\ IsFiniteSet(links)
  /\ IsFiniteSet(around)
  /\ \A m \in around : m.node \in SeenNodes /\ m.via \in Ties /\ m.via.id = Id(m.node)
  /\ stage \in {"define", "expand"} => \A m \in around : m.rank \in Int
  /\ stage \notin {"define", "expand", "counting"} => links = {} /\ around = {}
  /\ counted \subseteq Links /\ IsFiniteSet(counted)

HitsInv ==
  /\ hits \in Seq(GoodHits)
  /\ packed \subseteq ToSet(hits)
  /\ stage = "pack" => todo \in Seq(ToSet(hits))
  /\ stage \notin {"pack", "trim", "answered"} => packed = {}

IInv == IndexInv /\ CallInv /\ ReadInv /\ ItemsInv /\ WalkInv /\ HitsInv

\* What a call has seen, it has seen.
LEMMA SeenGrows ==
  ASSUME wasActive \subseteq wasActive', wasEdge \subseteq wasEdge'
  PROVE  /\ SeenNodes \subseteq SeenNodes' /\ SeenChunks \subseteq SeenChunks'
         /\ Ties \subseteq Ties' /\ GoodLinks \subseteq GoodLinks' /\ GoodHits \subseteq GoodHits'
         /\ Found \subseteq Found' /\ FoundSources \subseteq FoundSources'
<1>1. SeenNodes \subseteq SeenNodes' /\ SeenChunks \subseteq SeenChunks'
  BY DEF SeenNodes, SeenChunks
<1>2. Ties \subseteq Ties' /\ GoodLinks \subseteq GoodLinks'
  BY DEF Ties, GoodLinks
<1>3. GoodHits \subseteq GoodHits'
  BY <1>2 DEF GoodHits
<1>4. Found \subseteq Found'
  BY <1>1 DEF Found
<1>5. FoundSources \subseteq FoundSources'
  BY <1>1, <1>2 DEF FoundSources
<1> QED
  BY <1>1, <1>2, <1>3, <1>4, <1>5

LEMMA SeenSame ==
  ASSUME UNCHANGED <<wasActive, wasEdge>>
  PROVE  /\ SeenNodes' = SeenNodes /\ SeenChunks' = SeenChunks
         /\ Ties' = Ties /\ GoodLinks' = GoodLinks /\ GoodHits' = GoodHits
         /\ Found' = Found /\ FoundSources' = FoundSources
BY DEF SeenNodes, SeenChunks, Ties, GoodLinks, GoodHits, Found, FoundSources

\* A step of the sync leaves the call what it has read.
LEMMA CommitKeepsCall ==
  ASSUME IInv, Commit, chunked \subseteq chunked'
  PROVE  (CallInv /\ ReadInv /\ ItemsInv /\ WalkInv /\ HitsInv)'
<1>1. UNCHANGED <<weight, stage, query, defs, channels, items, walk, hits, packer>>
  BY DEF Commit
<1>2. /\ wasActive \subseteq wasActive' /\ wasEdge \subseteq wasEdge'
      /\ stage = "idle" => wasActive' = {} /\ wasEdge' = {}
      /\ stage # "idle" => active' \subseteq wasActive' /\ edges' \subseteq wasEdge'
  BY DEF Commit, history, IInv, CallInv
<1>3. /\ SeenNodes \subseteq SeenNodes' /\ SeenChunks \subseteq SeenChunks'
      /\ Ties \subseteq Ties' /\ GoodLinks \subseteq GoodLinks' /\ GoodHits \subseteq GoodHits'
      /\ Found \subseteq Found' /\ FoundSources \subseteq FoundSources'
  BY <1>2, SeenGrows
<1>4. CallInv'
  <2>1. StoredChunks \subseteq StoredChunks'
    BY DEF StoredChunks
  <2> QED
    BY <1>1, <1>2, <2>1 DEF packer, IInv, CallInv
<1>5. ReadInv'
  <2>1. Seq(SeenChunks) \subseteq Seq(SeenChunks') /\ Seq(Seq(SeenNodes)) \subseteq Seq(Seq(SeenNodes'))
    BY <1>3, SeqMonotonic
  <2> QED
    BY <1>1, <2>1 DEF channels, IInv, ReadInv
<1>6. ItemsInv'
  <2>1. /\ Seq(SeenNodes) \subseteq Seq(SeenNodes') /\ Seq(Found) \subseteq Seq(Found')
        /\ Seq(FoundSources) \subseteq Seq(FoundSources')
    BY <1>3, SeqMonotonic
  <2> QED
    BY <1>1, <2>1 DEF IInv, ItemsInv
<1>7. WalkInv'
  BY <1>1, <1>3 DEF walk, Walked, IInv, WalkInv
<1>8. HitsInv'
  <2>1. Seq(GoodHits) \subseteq Seq(GoodHits')
    BY <1>3, SeqMonotonic
  <2> QED
    BY <1>1, <2>1 DEF packer, IInv, HitsInv
<1> QED
  BY <1>4, <1>5, <1>6, <1>7, <1>8

LEMMA SyncStep ==
  ASSUME IInv, Sync
  PROVE  IInv'
<1>0. IndexInv
  BY DEF IInv
<1>1. ASSUME NEW t \in Trees, StartSync(t) PROVE IndexInv' /\ Commit /\ chunked \subseteq chunked'
  BY <1>0, <1>1 DEF StartSync, SyncGoto, IndexInv
<1>2. ASSUME NEW b \in Blobs, AddBlob(b) PROVE IndexInv' /\ Commit /\ chunked \subseteq chunked'
  BY <1>0, <1>2, SearchAssumption DEF AddBlob, SyncGoto, IndexInv
<1>3. CASE AddChunks
  <2>1. IndexInv'
    BY <1>0, <1>3 DEF AddChunks, SyncGoto, IndexInv
  <2> QED BY <1>3, <2>1, CommitKeepsCall DEF AddChunks, IInv
<1>4. CASE Deactivate
  <2>1. IndexInv'
    BY <1>0, <1>4 DEF Deactivate, SyncGoto, IndexInv
  <2> QED BY <1>4, <2>1, CommitKeepsCall DEF Deactivate, IInv
<1>5. CASE Reactivate
  <2>1. IndexInv'
    BY <1>0, <1>5 DEF Reactivate, SyncGoto, IndexInv
  <2> QED BY <1>5, <2>1, CommitKeepsCall DEF Reactivate, IInv
<1>6. CASE WipeGraph
  <2>1. IndexInv'
    BY <1>0, <1>6, FS_EmptySet DEF WipeGraph, SyncGoto, IndexInv
  <2> QED BY <1>6, <2>1, CommitKeepsCall DEF WipeGraph, IInv
<1>7. CASE AddSymbols
  <2>1. target \in Trees
    BY <1>0, <1>7 DEF AddSymbols, SyncGoto, IndexInv
  <2>2. Graph[target].symbols \subseteq Nodes /\ IsFiniteSet(Graph[target].symbols)
    BY <2>1, SchemaAssumption DEF Nodes
  <2>3. IndexInv'
    BY <1>0, <1>7, <2>2 DEF AddSymbols, SyncGoto, IndexInv
  <2> QED BY <1>7, <2>3, CommitKeepsCall DEF AddSymbols, IInv
<1>8. CASE AddEdges
  <2>1. target \in Trees
    BY <1>0, <1>8 DEF AddEdges, SyncGoto, IndexInv
  <2>2. Graph[target].edges \subseteq Links /\ IsFiniteSet(Graph[target].edges)
    BY <2>1, SchemaAssumption DEF Links
  <2>3. IndexInv'
    BY <1>0, <1>8, <2>2 DEF AddEdges, SyncGoto, IndexInv
  <2> QED BY <1>8, <2>3, CommitKeepsCall DEF AddEdges, IInv
<1>9. CASE CrashSync
  <2>1. IndexInv'
    BY <1>0, <1>9 DEF CrashSync, IndexInv
  <2> QED BY <1>9, <2>1, CommitKeepsCall DEF CrashSync, IInv
<1> QED
  BY <1>1, <1>2, <1>3, <1>4, <1>5, <1>6, <1>7, <1>8, <1>9, CommitKeepsCall DEF Sync, IInv

-----------------------------------------------------------------------------
(* The steps of a call *)

LEMMA CallKeeps ==
  ASSUME IInv, Call
  PROVE  /\ IndexInv' /\ StoredChunks' = StoredChunks
         /\ weight' = weight /\ query' = query /\ active' = active /\ edges' = edges
         /\ wasActive' = wasActive /\ wasEdge' = wasEdge
         /\ SeenNodes' = SeenNodes /\ SeenChunks' = SeenChunks
         /\ Ties' = Ties /\ GoodLinks' = GoodLinks /\ GoodHits' = GoodHits
         /\ Found' = Found /\ FoundSources' = FoundSources
<1>1. UNCHANGED <<known, active, chunked, symbols, edges, sync, target, was, adding,
                  weight, query, wasActive, wasEdge>>
  BY DEF Call, index, history
<1>2. IndexInv'
  BY <1>1 DEF IInv, IndexInv
<1> QED
  BY <1>1, <1>2, SeenSame DEF StoredChunks

\* What a query of the store finds during a call is seen.
LEMMA DefinitionsSeen ==
  ASSUME IInv, stage # "idle", NEW name
  PROVE  /\ Definitions(name) \in Seq(SeenNodes)
         /\ ToSet(Definitions(name)) \subseteq SeenNodes
         /\ IsFiniteSet(ToSet(Definitions(name)))
         /\ SymbolSearch(name) \in Seq(SeenNodes)
<1>1. symbols \subseteq Nodes /\ IsFiniteSet(symbols) /\ active \subseteq wasActive
  BY DEF IInv, IndexInv, CallInv
<1>2. {n \in Nodes : n.blob \in active} \subseteq SeenNodes
  BY <1>1 DEF SeenNodes
<1>3. Definitions(name) \in Seq(SeenNodes) /\ SymbolSearch(name) \in Seq(SeenNodes)
  BY <1>1, <1>2, DefinitionsSeq, SymbolSearchSeq, SeqMonotonic
<1>4. ToSet(Definitions(name)) \subseteq symbols
  BY <1>1, DefinitionsSeq
<1>5. IsFiniteSet(ToSet(Definitions(name)))
  BY <1>1, <1>4, FS_Subset
<1>6. ToSet(Definitions(name)) \subseteq SeenNodes
  BY <1>3 DEF ToSet
<1> QED
  BY <1>3, <1>5, <1>6

LEMMA FirstSorted ==
  ASSUME NEW S, IsFiniteSet(S), S # {}, NEW n \in Nat, NEW key \in [S -> [1..n -> Int]]
  PROVE  SortedBy(S, key)[1] \in S
BY SortedByLists, ListsSeq

\* A definition's result is good; so is that of the end of an edge.
LEMMA ResultGood ==
  ASSUME NEW n \in SeenNodes, NEW c \in ChunkFor(n), NEW score \in Int, NEW source \in Sources,
         NEW via \in {None} \cup Ties, via # None => via.id = Id(n)
  PROVE  Result(c, score, source, via) \in GoodHits
<1>1. n \in Nodes /\ n.blob \in wasActive
  BY DEF SeenNodes
<1>2. /\ c \in Chunks /\ Chunk[c].blob = n.blob
      /\ n.from < Chunk[c].to /\ Chunk[c].from < n.to
  BY <1>1, ChunkForOverlaps
<1>3. /\ Chunk[c].from \in Int /\ Chunk[c].to \in Int /\ Chunk[c].cost \in Int
      /\ Chunk[c].blob \in Blobs /\ Chunk[c].crumb \in Crumbs
  BY <1>2, SchemaAssumption DEF Blobs, Crumbs
<1>4. via \in {None} \cup Vias
  BY DEF Ties
<1>5. Result(c, score, source, via) \in Rows
  BY <1>2, <1>3, <1>4 DEF Result, Rows
<1>6. Id(n)[1] = n.blob /\ Id(n)[2] = n.from /\ Id(n)[3] = n.to
  BY DEF Id
<1> QED
  BY <1>1, <1>2, <1>5, <1>6 DEF Result, GoodHits

LEMMA ChannelResultGood ==
  ASSUME NEW c \in SeenChunks, NEW score \in Int, NEW source \in Sources
  PROVE  Result(c, score, source, None) \in GoodHits
<1>1. /\ c \in Chunks /\ Chunk[c].blob \in wasActive
      /\ Chunk[c].from \in Int /\ Chunk[c].to \in Int /\ Chunk[c].cost \in Int
      /\ Chunk[c].blob \in Blobs /\ Chunk[c].crumb \in Crumbs
  BY SchemaAssumption DEF SeenChunks, Blobs, Crumbs
<1>2. Result(c, score, source, None) \in Rows
  BY <1>1 DEF Result, Rows
<1> QED
  BY <1>1, <1>2 DEF Result, GoodHits

LEMMA AskStep ==
  ASSUME IInv, NEW q \in Queries, Ask(q)
  PROVE  IInv'
<1>1. UNCHANGED <<index, commits, weight, defs, channels, items, walk, hits, packer>>
  BY DEF Ask
<1>2. /\ stage = "idle" /\ query' = q /\ wasActive' = active /\ wasEdge' = edges
      /\ wasActive = {} /\ wasEdge = {}
  BY DEF Ask, IInv, CallInv
<1>3. stage' = IF q.tool = "search" THEN "tokens" ELSE IF q.tool = "expand" THEN "handle" ELSE "symbol"
  BY Zenon DEF Ask
<1>4. /\ SeenNodes \subseteq SeenNodes' /\ SeenChunks \subseteq SeenChunks'
      /\ Ties \subseteq Ties' /\ GoodLinks \subseteq GoodLinks' /\ GoodHits \subseteq GoodHits'
      /\ Found \subseteq Found' /\ FoundSources \subseteq FoundSources'
  BY <1>2, SeenGrows
<1>5. IndexInv'
  BY <1>1 DEF index, IInv, IndexInv
<1>6. CallInv'
  <2>1. q # None
    BY SearchAssumption
  <2>2. q.tool = "expand" => q.tokens[1] \in StoredChunks
    BY DEF Ask
  <2>3. StoredChunks' = StoredChunks /\ active' = active /\ edges' = edges
    BY <1>1 DEF index, StoredChunks
  <2>4. CASE q.tool = "search"
    BY <1>2, <1>3, <2>1, <2>3, <2>4 DEF CallInv, SearchStages, SymbolStages
  <2>5. CASE q.tool = "expand"
    BY <1>2, <1>3, <2>1, <2>2, <2>3, <2>5 DEF CallInv, SearchStages, SymbolStages
  <2>6. CASE q.tool # "search" /\ q.tool # "expand"
    BY <1>2, <1>3, <2>1, <2>3, <2>6 DEF CallInv, SearchStages, SymbolStages
  <2> QED BY <2>4, <2>5, <2>6
<1>7. ReadInv'
  <2>1. Seq(SeenChunks) \subseteq Seq(SeenChunks') /\ Seq(Seq(SeenNodes)) \subseteq Seq(Seq(SeenNodes'))
    BY <1>4, SeqMonotonic
  <2> QED
    BY <1>1, <2>1 DEF channels, IInv, ReadInv
<1>8. ItemsInv'
  BY <1>1, <1>2, <1>3 DEF IInv, ItemsInv
<1>9. WalkInv'
  BY <1>1, <1>2, <1>3, <1>4 DEF walk, IInv, WalkInv
<1>10. HitsInv'
  <2>1. Seq(GoodHits) \subseteq Seq(GoodHits')
    BY <1>4, SeqMonotonic
  <2> QED
    BY <1>1, <1>2, <1>3, <2>1 DEF packer, IInv, HitsInv
<1> QED
  BY <1>5, <1>6, <1>7, <1>8, <1>9, <1>10 DEF IInv

LEMMA LookUpTokenStep ==
  ASSUME IInv, LookUpToken
  PROVE  IInv'
<1>1. /\ stage = "tokens" /\ stage' = "tokens"
      /\ defs' = Append(defs, Definitions(query.tokens[Len(defs) + 1]))
      /\ UNCHANGED <<channels, items, walk, hits, packer>> /\ Call
  BY DEF LookUpToken, Goto
<1>2. Definitions(query.tokens[Len(defs) + 1]) \in Seq(SeenNodes)
  BY <1>1, DefinitionsSeen
<1>3. defs' \in Seq(Seq(SeenNodes))
  BY <1>1, <1>2, AppendProperties DEF IInv, ReadInv
<1>4. CallInv'
  BY <1>1, CallKeeps DEF IInv, CallInv, SearchStages, SymbolStages
<1>5. ReadInv'
  BY <1>1, <1>3, CallKeeps DEF channels, IInv, ReadInv
<1>6. ItemsInv' /\ WalkInv' /\ HitsInv'
  BY <1>1, CallKeeps DEF walk, packer, Walked, IInv, ItemsInv, WalkInv, HitsInv
<1> QED
  BY <1>1, <1>4, <1>5, <1>6, CallKeeps DEF IInv

LEMMA RouteStep ==
  ASSUME IInv, Route
  PROVE  IInv'
<1> DEFINE order == TokenOrder(defs)
           tiers == [t \in DOMAIN order |-> Contribution(defs[order[t]])]
           places == UNION {{t} \X DOMAIN tiers[t] : t \in DOMAIN tiers}
           listed == SortedBy(places, [x \in places |-> x])
           item(k) == [node |-> tiers[listed[k][1]][listed[k][2]],
                       score |-> RouterScore(listed[k][1] - 1, listed[k][2] - 1)]
<1>1. /\ stage = "tokens" /\ stage' = "define"
      /\ items' = [k \in DOMAIN listed |-> item(k)]
      /\ UNCHANGED <<defs, channels, walk, hits, packer>> /\ Call
  BY DEF Route, Goto
<1>2. defs \in Seq(Seq(SeenNodes)) /\ query \in Queries
  BY <1>1 DEF IInv, ReadInv, CallInv
<1>3. /\ order \in Seq(DOMAIN defs) /\ DOMAIN order = 1..Len(order) /\ Len(order) \in Nat
      /\ \A t \in 1..Len(order) : defs[order[t]] \in Seq(SeenNodes)
  <2>1. order \in Seq(DOMAIN defs)
    BY <1>2, TokenOrderSeq
  <2> HIDE DEF order
  <2>2. DOMAIN order = 1..Len(order) /\ Len(order) \in Nat /\ \A t \in 1..Len(order) : order[t] \in DOMAIN defs
    BY <2>1, LenProperties
  <2>3. \A i \in DOMAIN defs : defs[i] \in Seq(SeenNodes)
    BY <1>2
  <2> QED BY <2>1, <2>2, <2>3
<1> HIDE DEF order
<1>4. /\ DOMAIN tiers = 1..Len(order)
      /\ \A t \in 1..Len(order) : tiers[t] \in Seq(SeenNodes)
  <2>1. SeenNodes \subseteq Nodes
    BY DEF SeenNodes
  <2>2. \A t \in 1..Len(order) : Contribution(defs[order[t]]) \in Seq(SeenNodes)
    BY <1>2, <1>3, <2>1, ContributionSeq
  <2> QED BY <1>3, <2>2
<1> HIDE DEF tiers
<1>5. \A t \in 1..Len(order) : /\ DOMAIN tiers[t] \subseteq Nat /\ IsFiniteSet(DOMAIN tiers[t])
                               /\ \A i \in DOMAIN tiers[t] : tiers[t][i] \in SeenNodes
  <2> SUFFICES ASSUME NEW t \in 1..Len(order)
               PROVE  /\ DOMAIN tiers[t] \subseteq Nat /\ IsFiniteSet(DOMAIN tiers[t])
                      /\ \A i \in DOMAIN tiers[t] : tiers[t][i] \in SeenNodes
    OBVIOUS
  <2>1. tiers[t] \in Seq(SeenNodes)
    BY <1>4
  <2>2. DOMAIN tiers[t] = 1..Len(tiers[t]) /\ Len(tiers[t]) \in Nat
    BY <2>1, LenProperties
  <2>3. IsFiniteSet(1..Len(tiers[t]))
    BY <2>2, FS_Interval
  <2> QED BY <2>1, <2>2, <2>3
<1>6. IsFiniteSet(places)
  <2> DEFINE row == [t \in 1..Len(order) |-> {t} \X DOMAIN tiers[t]]
             rows == {row[t] : t \in 1..Len(order)}
  <2>1. IsFiniteSet(1..Len(order))
    BY <1>3, FS_Interval
  <2>2. ASSUME NEW t \in 1..Len(order) PROVE IsFiniteSet(row[t])
    BY <1>5, FS_Product, FS_Singleton
  <2>3. places = UNION rows
    BY <1>4
  <2>4. DOMAIN row = 1..Len(order) /\ row = [t \in 1..Len(order) |-> row[t]]
    OBVIOUS
  <2> HIDE DEF row
  <2>5. IsFiniteSet(rows)
    BY <2>1, <2>4, ImageFinite
  <2>6. \A T \in rows : IsFiniteSet(T)
    BY <2>2
  <2> HIDE DEF rows, places
  <2> QED BY <2>3, <2>5, <2>6, FS_UNION
<1>7. \A x \in places : /\ x[1] \in 1..Len(order) /\ x[2] \in DOMAIN tiers[x[1]]
                        /\ x = <<x[1], x[2]>>
  BY <1>4
<1> DEFINE key == [x \in places |-> x]
<1> HIDE DEF places
<1>8. key \in [places -> [1..2 -> Int]]
  <2>1. ASSUME NEW x \in places PROVE x \in [1..2 -> Int]
    <3>1. x[1] \in Int /\ x[2] \in Int /\ x = <<x[1], x[2]>>
      BY <1>3, <1>5, <1>7
    <3>2. <<x[1], x[2]>> \in [1..2 -> Int]
      BY <3>1
    <3> QED BY <3>1, <3>2
  <2> QED BY <2>1
<1>9. listed = SortedBy(places, key)
  OBVIOUS
<1> HIDE DEF key
<1>10. listed \in Seq(places)
  <2>1. SortedBy(places, key) \in Seq(places)
    BY <1>6, <1>8, SortedByLists, ListsSeq
  <2> QED BY <1>9, <2>1
<1> HIDE DEF listed
<1>11. DOMAIN listed = 1..Len(listed) /\ Len(listed) \in Nat /\ \A k \in 1..Len(listed) : listed[k] \in places
  BY <1>10, LenProperties
<1>12. ASSUME NEW k \in 1..Len(listed) PROVE item(k) \in Found
  <2>1. /\ listed[k][1] \in 1..Len(order) /\ listed[k][2] \in DOMAIN tiers[listed[k][1]]
    BY <1>7, <1>11
  <2>2. tiers[listed[k][1]][listed[k][2]] \in SeenNodes
    BY <1>5, <2>1
  <2>3. listed[k][1] - 1 \in Int /\ listed[k][2] - 1 \in Int
    BY <1>3, <1>5, <2>1
  <2>4. RouterScore(listed[k][1] - 1, listed[k][2] - 1) \in Int
    BY <2>3, RouterScoreInt
  <2> QED BY <2>2, <2>4 DEF Found
<1> HIDE DEF item
<1>13. items' \in Seq(Found)
  <2>1. items' \in [1..Len(listed) -> Found]
    BY <1>1, <1>11, <1>12
  <2> QED BY <1>11, <2>1
<1>14. CallInv'
  BY <1>1, CallKeeps DEF IInv, CallInv, SearchStages, SymbolStages
<1>15. ReadInv' /\ HitsInv'
  BY <1>1, CallKeeps DEF channels, packer, IInv, ReadInv, HitsInv
<1>16. ItemsInv'
  BY <1>1, <1>13, CallKeeps DEF ItemsInv
<1>17. WalkInv'
  BY <1>1, CallKeeps DEF walk, Walked, IInv, WalkInv
<1> QED
  BY <1>1, <1>14, <1>15, <1>16, <1>17, CallKeeps DEF IInv

LEMMA FirstAndRest ==
  ASSUME NEW S, NEW s \in Seq(S), s # <<>>
  PROVE  s[1] \in S /\ Tail(s) \in Seq(S)
<1>1. Len(s) \in Nat /\ Len(s) # 0
  BY EmptySeq, LenProperties
<1> QED
  BY <1>1, HeadTailProperties

LEMMA SeqFinite ==
  ASSUME NEW S, NEW s \in Seq(S)
  PROVE  IsFiniteSet(ToSet(s)) /\ ToSet(s) \subseteq S
<1>1. DOMAIN s = 1..Len(s) /\ Len(s) \in Nat /\ s = [i \in 1..Len(s) |-> s[i]]
  BY LenProperties
<1>2. IsFiniteSet(1..Len(s))
  <2>1. 1 \in Int /\ Len(s) \in Int
    BY <1>1
  <2> QED BY <2>1, FS_Interval
<1>3. IsFiniteSet({s[i] : i \in 1..Len(s)})
  BY <1>1, <1>2, ImageFinite
<1>4. ToSet(s) = {s[i] : i \in 1..Len(s)}
  BY <1>1 DEF ToSet
<1>5. \A i \in 1..Len(s) : s[i] \in S
  OBVIOUS
<1>6. IsFiniteSet(ToSet(s))
  BY <1>3, <1>4
<1>7. ToSet(s) \subseteq S
  BY <1>4, <1>5
<1> QED
  BY <1>6, <1>7

LEMMA PlansSteps == Plans \in Seq(Steps)
<1> DEFINE a == [rank |-> 0, kind |-> "calls", incoming |-> TRUE]
           b == [rank |-> 1, kind |-> "calls", incoming |-> FALSE]
           c == [rank |-> 2, kind |-> "imports", incoming |-> TRUE]
           d == [rank |-> 3, kind |-> "references", incoming |-> TRUE]
<1>1. a \in Steps /\ b \in Steps /\ c \in Steps /\ d \in Steps
  BY DEF Steps
<1>2. Plans = <<a, b, c, d>>
  BY DEF Plans
<1> HIDE DEF a, b, c, d
<1> QED
  BY <1>1, <1>2

\* The packer's list, when the hits are in.
LEMMA ToPack ==
  ASSUME hits \in Seq(GoodHits)
  PROVE  /\ Lists(PackOrder(ToSet(hits)), ToSet(hits))
         /\ PackOrder(ToSet(hits)) \in Seq(ToSet(hits))
         /\ ToSet(PackOrder(ToSet(hits))) = ToSet(hits)
<1>1. IsFiniteSet(ToSet(hits)) /\ ToSet(hits) \subseteq GoodHits
  BY SeqFinite
<1>2. ASSUME NEW r \in ToSet(hits) PROVE r.score \in Int /\ r.cost \in Int /\ r.chunk \in Int
  <2>1. r \in Rows
    BY <1>1 DEF GoodHits
  <2>2. r.score \in Int /\ r.cost \in Int /\ r.chunk \in Chunks
    BY <2>1 DEF Rows
  <2>3. \A c \in Chunks : c \in Int
    BY SchemaAssumption
  <2> QED BY <2>2, <2>3
<1>3. Lists(PackOrder(ToSet(hits)), ToSet(hits))
  BY <1>1, <1>2, PackOrderLists
<1> QED
  BY <1>3, ListsSeq

LEMMA TakeDefinitionStep ==
  ASSUME IInv, TakeDefinition
  PROVE  IInv'
<1> DEFINE d == items[1]
           new == ChunkFor(d.node) \ HitChunks
<1>1. /\ stage = "define" /\ stage' = "define" /\ items # <<>> /\ Walked
      /\ IF new = {} THEN UNCHANGED <<hits, base, plan>>
         ELSE /\ \E c \in new : hits' = Append(hits, Result(c, d.score, "symbol", None))
              /\ Visit(d.node, d.score)
      /\ items' = Tail(items)
      /\ UNCHANGED <<defs, channels, links, around, counted, packer>> /\ Call
  BY DEF TakeDefinition, Goto
<1>2. items \in Seq(Found) /\ packed = {} /\ hits \in Seq(GoodHits)
  BY <1>1 DEF IInv, ItemsInv, HitsInv
<1>3. d \in Found /\ items' \in Seq(Found)
  BY <1>1, <1>2, FirstAndRest
<1>4. d.node \in SeenNodes /\ d.score \in Int
  BY <1>3 DEF Found
<1>5. ASSUME NEW c \in new PROVE Result(c, d.score, "symbol", None) \in GoodHits
  BY <1>4, ResultGood DEF Sources
<1> HIDE DEF d, new
<1>6. hits' \in Seq(GoodHits)
  <2>1. CASE new = {}
    BY <1>1, <1>2, <2>1
  <2>2. CASE new # {}
    <3>1. PICK c \in new : hits' = Append(hits, Result(c, d.score, "symbol", None))
      BY <1>1, <2>2
    <3> QED BY <1>2, <1>5, <3>1, AppendProperties
  <2> QED BY <2>1, <2>2
<1>7. WalkInv'
  <2>1. CASE new = {}
    BY <1>1, <2>1, CallKeeps DEF Walked, IInv, WalkInv
  <2>2. CASE new # {}
    <3>1. base' = [id |-> Id(d.node), score |-> d.score] /\ plan' = Plans
      BY <1>1, <2>2 DEF Visit
    <3>2. base' \in [id : Ids, score : Int]
      BY <1>4, <3>1, NodeTypes DEF SeenNodes
    <3> QED BY <1>1, <3>1, <3>2, PlansSteps, CallKeeps DEF IInv, WalkInv
  <2> QED BY <2>1, <2>2
<1>8. CallInv'
  BY <1>1, CallKeeps DEF IInv, CallInv, SearchStages, SymbolStages
<1>9. ReadInv'
  BY <1>1, CallKeeps DEF channels, IInv, ReadInv
<1>10. ItemsInv'
  BY <1>1, <1>3, CallKeeps DEF ItemsInv
<1>11. HitsInv'
  BY <1>1, <1>2, <1>6, CallKeeps DEF packer, HitsInv
<1> QED
  BY <1>1, <1>7, <1>8, <1>9, <1>10, <1>11, CallKeeps DEF IInv

LEMMA RoutedStep ==
  ASSUME IInv, Routed
  PROVE  IInv'
<1>1. /\ stage = "define" /\ items = <<>> /\ Walked /\ stage' \in {"text", "pack"}
      /\ todo' = PackOrder(ToSet(hits)) /\ base' = None
      /\ UNCHANGED <<defs, channels, items, plan, links, around, counted, hits, packed, total, reply>> /\ Call
  BY DEF Routed
<1>2. hits \in Seq(GoodHits) /\ packed = {}
  BY <1>1 DEF IInv, HitsInv
<1>3. CallInv'
  BY <1>1, CallKeeps DEF IInv, CallInv, SearchStages, SymbolStages
<1>4. ReadInv'
  BY <1>1, CallKeeps DEF channels, IInv, ReadInv
<1>5. ItemsInv' /\ WalkInv'
  BY <1>1, CallKeeps DEF Walked, IInv, ItemsInv, WalkInv
<1>6. HitsInv'
  BY <1>1, <1>2, ToPack, CallKeeps DEF HitsInv
<1> QED
  BY <1>1, <1>3, <1>4, <1>5, <1>6, CallKeeps DEF IInv

LEMMA ReadEdgesStep ==
  ASSUME IInv, ReadEdges
  PROVE  IInv'
<1> DEFINE p == plan[1]
           in == EdgesAt(base.id, p.kind, p.incoming)
           link == [e \in in |-> [edge |-> e, rank |-> p.rank, of |-> base.id,
                                  id |-> IF p.incoming THEN e.src ELSE e.dst]]
<1>1. /\ stage \in {"define", "expand"} /\ plan # <<>> /\ links = {} /\ stage' = stage
      /\ links' = {[edge |-> e, rank |-> p.rank, of |-> base.id,
                    id |-> IF p.incoming THEN e.src ELSE e.dst] : e \in in}
      /\ plan' = Tail(plan)
      /\ UNCHANGED <<stage, defs, channels, items, base, around, counted, hits, packer>> /\ Call
  BY DEF ReadEdges
<1>2. base.id \in Ids /\ p \in Steps /\ plan' \in Seq(Steps) /\ base \in [id : Ids, score : Int]
  BY <1>1, FirstAndRest DEF IInv, WalkInv, Walked
<1>3. /\ edges \subseteq Links /\ edges \subseteq wasEdge /\ IsFiniteSet(edges)
  BY <1>1 DEF IInv, IndexInv, CallInv
<1>4. /\ in \subseteq edges /\ IsFiniteSet(in)
      /\ \A e \in in : base.id = IF p.incoming THEN e.dst ELSE e.src
  <2>1. in \subseteq edges /\ \A e \in in : base.id = IF p.incoming THEN e.dst ELSE e.src
    BY DEF EdgesAt
  <2> HIDE DEF in
  <2> QED BY <1>3, <2>1, FS_Subset
<1>5. links' = {link[e] : e \in in} /\ DOMAIN link = in /\ link = [e \in in |-> link[e]]
  BY <1>1
<1>6. ASSUME NEW e \in in PROVE link[e] \in GoodLinks
  <2>1. e \in Links /\ e \in wasEdge /\ e.src \in Ids /\ e.dst \in Ids
    BY <1>3, <1>4, NodeTypes
  <2>2. CASE p.incoming
    <3>1. base.id = e.dst
      BY <1>4, <2>2
    <3> HIDE DEF p, in
    <3>2. p.rank \in Int
      BY <1>2 DEF Steps
    <3> QED BY <1>2, <2>1, <2>2, <3>1, <3>2 DEF GoodLinks
  <2>3. CASE ~p.incoming
    <3>1. base.id = e.src
      BY <1>4, <2>3
    <3> HIDE DEF p, in
    <3>2. p.rank \in Int
      BY <1>2 DEF Steps
    <3> QED BY <1>2, <2>1, <2>3, <3>1, <3>2 DEF GoodLinks
  <2> QED BY <2>2, <2>3
<1> HIDE DEF link, in, p
<1>7. links' \subseteq GoodLinks /\ IsFiniteSet(links')
  BY <1>4, <1>5, <1>6, ImageFinite
<1>8. CallInv'
  BY <1>1, CallKeeps DEF IInv, CallInv, SearchStages, SymbolStages
<1>9. ReadInv' /\ ItemsInv' /\ HitsInv'
  BY <1>1, CallKeeps DEF channels, packer, IInv, ReadInv, ItemsInv, HitsInv
<1>10. WalkInv'
  BY <1>1, <1>2, <1>7, CallKeeps DEF IInv, WalkInv
<1> QED
  BY <1>1, <1>8, <1>9, <1>10, CallKeeps DEF IInv

LEMMA LinkKey ==
  ASSUME links \subseteq GoodLinks, IsFiniteSet(links), links # {}
  PROVE  FirstLink \in links
<1> DEFINE key == [l \in links |-> Place(l.id)]
<1>1. key \in [links -> [1..3 -> Int]]
  <2>1. ASSUME NEW l \in links PROVE Place(l.id) \in [1..3 -> Int]
    <3>1. l.id \in Ids
      BY DEF GoodLinks
    <3> QED BY <3>1, NodeTypes
  <2> QED BY <2>1
<1>2. FirstLink = SortedBy(links, key)[1]
  BY DEF FirstLink
<1> HIDE DEF key
<1> QED
  BY <1>1, <1>2, FirstSorted

LEMMA ConcatKey ==
  ASSUME NEW p \in Nat, NEW q \in Nat, NEW a \in [1..p -> Int], NEW b \in [1..q -> Int]
  PROVE  a \o b \in [1..(p + q) -> Int]
<1>1. a \in Seq(Int) /\ b \in Seq(Int) /\ Len(a) = p /\ Len(b) = q
  OBVIOUS
<1>2. a \o b \in Seq(Int) /\ Len(a \o b) = p + q
  BY <1>1, ConcatProperties
<1> QED
  BY <1>2, LenProperties

LEMMA ResolveNeighborStep ==
  ASSUME IInv, ResolveNeighbor
  PROVE  IInv'
<1> DEFINE l == FirstLink
           ns == {n \in ToSet(Definitions(SymbolOf(l.id))) : Id(n) = l.id}
           neighbor == [n \in ns |-> [node |-> n, rank |-> l.rank,
                                      via |-> [edge |-> l.edge, of |-> l.of, id |-> Id(n)]]]
           new == {neighbor[n] : n \in ns}
<1>1. /\ stage \in {"define", "expand"} /\ links # {} /\ stage' = stage
      /\ links' = links \ {l}
      /\ around' = around \cup new
      /\ UNCHANGED <<stage, defs, channels, items, base, plan, counted, hits, packer>> /\ Call
  BY DEF ResolveNeighbor
<1>2. links \subseteq GoodLinks /\ IsFiniteSet(links)
  BY DEF IInv, WalkInv
<1>3. l \in GoodLinks
  BY <1>1, <1>2, LinkKey
<1>4. ns \subseteq SeenNodes /\ IsFiniteSet(ns)
  <2> DEFINE T == ToSet(Definitions(SymbolOf(l.id)))
  <2>1. T \subseteq SeenNodes /\ IsFiniteSet(T)
    BY <1>1, DefinitionsSeen
  <2>2. ns \in SUBSET T
    OBVIOUS
  <2> HIDE DEF T, ns
  <2> QED BY <2>1, <2>2, FS_Subset
<1>5. DOMAIN neighbor = ns /\ neighbor = [n \in ns |-> neighbor[n]]
  OBVIOUS
<1>6. ASSUME NEW n \in ns
      PROVE  /\ neighbor[n].node \in SeenNodes /\ neighbor[n].via \in Ties
             /\ neighbor[n].via.id = Id(neighbor[n].node) /\ neighbor[n].rank \in Int
  <2>1. n \in SeenNodes /\ Id(n) = l.id
    BY <1>4
  <2>2. l.rank \in Int /\ l.edge \in Links /\ l.of \in Ids /\ l.id \in Ids
        /\ l.edge \in wasEdge /\ {l.edge.src, l.edge.dst} = {l.of, l.id}
    BY <1>3 DEF GoodLinks
  <2>3. /\ neighbor[n].node = n /\ neighbor[n].rank = l.rank
        /\ neighbor[n].via = [edge |-> l.edge, of |-> l.of, id |-> Id(n)]
    OBVIOUS
  <2> HIDE DEF l, ns, neighbor
  <2>4. [edge |-> l.edge, of |-> l.of, id |-> Id(n)] \in Ties
    BY <2>1, <2>2 DEF Ties, Vias
  <2> QED BY <2>1, <2>2, <2>3, <2>4
<1> HIDE DEF l, ns, neighbor
<1>7. IsFiniteSet(new)
  BY <1>4, <1>5, ImageFinite
<1>8. \A m \in new : /\ m.node \in SeenNodes /\ m.via \in Ties /\ m.via.id = Id(m.node) /\ m.rank \in Int
  BY <1>6
<1> HIDE DEF new
<1>9. IsFiniteSet(around') /\ IsFiniteSet(links') /\ links' \subseteq GoodLinks
  <2>1. IsFiniteSet(around \cup new)
    BY <1>7, FS_Union DEF IInv, WalkInv
  <2>2. links \ {l} \in SUBSET links
    OBVIOUS
  <2>3. IsFiniteSet(links \ {l})
    BY <1>2, <2>2, FS_Subset
  <2> QED BY <1>1, <1>2, <2>1, <2>3
<1>10. CallInv'
  BY <1>1, CallKeeps DEF IInv, CallInv, SearchStages, SymbolStages
<1>11. ReadInv' /\ ItemsInv' /\ HitsInv'
  BY <1>1, CallKeeps DEF channels, packer, IInv, ReadInv, ItemsInv, HitsInv
<1>12. WalkInv'
  <2>1. \A m \in around' : m.node \in SeenNodes /\ m.via \in Ties /\ m.via.id = Id(m.node) /\ m.rank \in Int
    BY <1>1, <1>8 DEF IInv, WalkInv
  <2> QED BY <1>1, <1>9, <2>1, CallKeeps DEF Walked, IInv, WalkInv
<1> QED
  BY <1>1, <1>10, <1>11, <1>12, CallKeeps DEF IInv

\* Results of definitions appended to the hits.
LEMMA HitsAppended ==
  ASSUME hits \in Seq(GoodHits), NEW C, IsFiniteSet(C), NEW f \in [C -> GoodHits]
  PROVE  /\ SetToSeq({f[c] : c \in C}) \in Seq(GoodHits)
         /\ hits \o SetToSeq({f[c] : c \in C}) \in Seq(GoodHits)
<1> DEFINE T == {f[c] : c \in C}
<1>1. IsFiniteSet(T)
  BY ImageFinite
<1>2. T \subseteq GoodHits
  OBVIOUS
<1> HIDE DEF T
<1>3. SetToSeq(T) \in Seq(GoodHits)
  BY <1>1, <1>2, SetToSeqSeq, SeqMonotonic
<1> QED
  BY <1>3, ConcatProperties DEF T

LEMMA DiscountedInt ==
  ASSUME NEW score \in Int
  PROVE  Discounted(score) \in Int
BY DEF Discounted

LEMMA TakeNeighborStep ==
  ASSUME IInv, TakeNeighbor
  PROVE  IInv' /\ \E s \in Seq(GoodHits) : hits' = hits \o s
<1> DEFINE key == [m \in around |-> <<m.rank>> \o Place(Id(m.node))]
           m == SortedBy(around, key)[1]
           new == ChunkFor(m.node) \ HitChunks
           row == [c \in new |-> Result(c, Discounted(base.score), "expansion", m.via)]
<1>1. /\ stage \in {"define", "expand"} /\ plan = <<>> /\ links = {} /\ around # {} /\ stage' = stage
      /\ around' = around \ {m}
      /\ hits' = hits \o SetToSeq({Result(c, Discounted(base.score), "expansion", m.via) : c \in new})
      /\ UNCHANGED <<stage, defs, channels, items, base, plan, links, counted, packer>> /\ Call
  BY DEF TakeNeighbor
<1>2. /\ IsFiniteSet(around)
      /\ \A k \in around : k.node \in SeenNodes /\ k.via \in Ties /\ k.via.id = Id(k.node) /\ k.rank \in Int
      /\ base \in [id : Ids, score : Int]
  BY <1>1 DEF Walked, IInv, WalkInv
<1>3. key \in [around -> [1..4 -> Int]]
  <2>1. ASSUME NEW k \in around PROVE <<k.rank>> \o Place(Id(k.node)) \in [1..4 -> Int]
    <3>1. k.rank \in Int /\ k.node \in Nodes
      BY <1>2 DEF SeenNodes
    <3>2. Place(Id(k.node)) \in [1..3 -> Int]
      BY <3>1, NodeTypes
    <3>3. <<k.rank>> \in [1..1 -> Int]
      BY <3>1
    <3>4. <<k.rank>> \o Place(Id(k.node)) \in [1..(1 + 3) -> Int]
      BY <3>2, <3>3, ConcatKey
    <3> QED BY <3>4
  <2> QED BY <2>1
<1> HIDE DEF key
<1>4. m \in around
  BY <1>1, <1>2, <1>3, FirstSorted
<1> HIDE DEF m
<1>5. new \subseteq ChunkFor(m.node) /\ IsFiniteSet(new)
  <2>1. m.node \in Nodes
    BY <1>2, <1>4 DEF SeenNodes
  <2>2. IsFiniteSet(ChunkFor(m.node)) /\ new \in SUBSET ChunkFor(m.node)
    BY <2>1, ChunkForOverlaps
  <2> HIDE DEF new
  <2> QED BY <2>2, FS_Subset
<1> HIDE DEF new
<1>6. row \in [new -> GoodHits]
  <2>1. Discounted(base.score) \in Int /\ "expansion" \in Sources
    BY <1>2, DiscountedInt DEF Sources
  <2>2. ASSUME NEW c \in new PROVE Result(c, Discounted(base.score), "expansion", m.via) \in GoodHits
    <3>1. m.node \in SeenNodes /\ m.via \in {None} \cup Ties /\ m.via.id = Id(m.node) /\ c \in ChunkFor(m.node)
      BY <1>2, <1>4, <1>5
    <3> QED BY <2>1, <3>1, ResultGood
  <2> QED BY <2>2
<1>7. hits' = hits \o SetToSeq({row[c] : c \in new})
  BY <1>1
<1> HIDE DEF row
<1>8. hits' \in Seq(GoodHits) /\ packed = {} /\ \E s \in Seq(GoodHits) : hits' = hits \o s
  BY <1>1, <1>5, <1>6, <1>7, HitsAppended, ZenonT(30) DEF IInv, HitsInv
<1>9. CallInv'
  BY <1>1, CallKeeps DEF IInv, CallInv, SearchStages, SymbolStages
<1>10. ReadInv' /\ ItemsInv'
  BY <1>1, CallKeeps DEF channels, IInv, ReadInv, ItemsInv
<1>11. WalkInv'
  <2>1. around \ {m} \in SUBSET around
    OBVIOUS
  <2>2. IsFiniteSet(around \ {m})
    BY <1>2, <2>1, FS_Subset
  <2> QED BY <1>1, <1>2, <2>2, CallKeeps DEF IInv, WalkInv
<1>12. HitsInv'
  BY <1>1, <1>8, CallKeeps DEF packer, HitsInv
<1> QED
  BY <1>1, <1>8, <1>9, <1>10, <1>11, <1>12, CallKeeps DEF IInv

LEMMA SearchTextStep ==
  ASSUME IInv, NEW o \in Orders, SearchText(o)
  PROVE  IInv'
<1> DEFINE S == {c \in ActiveChunks : Chunk[c].words \cap query.words # {}}
<1>1. /\ stage = "text" /\ stage' = "vector" /\ text' = Prefix(Shown(o, S), TextTop)
      /\ UNCHANGED <<defs, distance, vector, symbolic, items, walk, hits, packer>> /\ Call
  BY DEF SearchText, Goto, TextSearch
<1>2. S \subseteq SeenChunks
  <2>1. active \subseteq wasActive
    BY <1>1 DEF IInv, CallInv
  <2> QED BY <2>1 DEF ActiveChunks, StoredChunks, SeenChunks
<1> HIDE DEF S
<1>3. text' \in Seq(SeenChunks)
  <2>1. Shown(o, S) \in Seq(S) /\ TextTop \in Nat
    BY SearchAssumption, ShownSeq
  <2>2. Shown(o, S) \in Seq(SeenChunks)
    BY <1>2, <2>1, SeqMonotonic
  <2> QED BY <1>1, <2>1, <2>2, PrefixSeq
<1>4. CallInv'
  BY <1>1, CallKeeps DEF IInv, CallInv, SearchStages, SymbolStages
<1>5. ReadInv'
  BY <1>1, <1>3, CallKeeps DEF IInv, ReadInv
<1>6. ItemsInv' /\ WalkInv' /\ HitsInv'
  BY <1>1, CallKeeps DEF walk, packer, IInv, ItemsInv, WalkInv, HitsInv
<1> QED
  BY <1>1, <1>4, <1>5, <1>6, CallKeeps DEF IInv

LEMMA ReadVecDimStep ==
  ASSUME IInv, ReadVecDim
  PROVE  IInv'
<1>1. /\ stage = "vector" /\ stage' \in {"knn", "scan"}
      /\ UNCHANGED <<defs, channels, items, walk, hits, packer>> /\ Call
  BY DEF ReadVecDim, Goto
<1>2. CallInv'
  BY <1>1, CallKeeps DEF IInv, CallInv, SearchStages, SymbolStages
<1>3. ReadInv' /\ ItemsInv' /\ WalkInv' /\ HitsInv'
  BY <1>1, CallKeeps DEF channels, walk, packer, IInv, ReadInv, ItemsInv, WalkInv, HitsInv
<1> QED
  BY <1>1, <1>2, <1>3, CallKeeps DEF IInv

LEMMA ScanVectorsStep ==
  ASSUME IInv, NEW o \in Orders, ScanVectors(o)
  PROVE  IInv'
<1> DEFINE S == StoredChunks \cap ActiveChunks
<1>1. /\ stage = "scan" /\ stage' = "symbols" /\ vector' = Prefix(Shown(o, S), VectorTop)
      /\ UNCHANGED <<defs, text, distance, symbolic, items, base, links, around, counted, hits, packer>> /\ Call
  BY DEF ScanVectors, Goto, BruteForce
<1>2. S \subseteq SeenChunks
  <2>1. active \subseteq wasActive
    BY <1>1 DEF IInv, CallInv
  <2> QED BY <2>1 DEF ActiveChunks, StoredChunks, SeenChunks
<1> HIDE DEF S
<1>3. vector' \in Seq(SeenChunks)
  <2>1. Shown(o, S) \in Seq(S) /\ VectorTop \in Nat
    BY SearchAssumption, ShownSeq
  <2>2. Shown(o, S) \in Seq(SeenChunks)
    BY <1>2, <2>1, SeqMonotonic
  <2> QED BY <1>1, <2>1, <2>2, PrefixSeq
<1>4. CallInv'
  BY <1>1, CallKeeps DEF IInv, CallInv, SearchStages, SymbolStages
<1>5. ReadInv'
  BY <1>1, <1>3, CallKeeps DEF IInv, ReadInv
<1>6. items' \in Seq(SeenNodes)
  BY <1>1, EmptySeq DEF IInv, ItemsInv
<1>7. ItemsInv' /\ WalkInv' /\ HitsInv'
  BY <1>1, <1>6, CallKeeps DEF packer, IInv, ItemsInv, WalkInv, HitsInv
<1> QED
  BY <1>1, <1>4, <1>5, <1>7, CallKeeps DEF IInv

LEMMA FetchVectorsStep ==
  ASSUME IInv, NEW o \in Orders, FetchVectors(o)
  PROVE  IInv'
<1>1. /\ stage = "knn" /\ stage' = "filter" /\ distance' = Shown(o, StoredChunks)
      /\ UNCHANGED <<defs, text, vector, symbolic, items, walk, hits, packer>> /\ Call
  BY DEF FetchVectors, Goto
<1>2. distance' \in Seq(Chunks)
  BY <1>1, SearchAssumption, ShownSeq
<1>3. CallInv'
  BY <1>1, CallKeeps DEF IInv, CallInv, SearchStages, SymbolStages
<1>4. ReadInv'
  BY <1>1, <1>2, CallKeeps DEF IInv, ReadInv
<1>5. ItemsInv' /\ WalkInv' /\ HitsInv'
  BY <1>1, CallKeeps DEF walk, packer, IInv, ItemsInv, WalkInv, HitsInv
<1> QED
  BY <1>1, <1>3, <1>4, <1>5, CallKeeps DEF IInv

LEMMA FilterVectorsStep ==
  ASSUME IInv, FilterVectors
  PROVE  IInv'
<1> DEFINE near == Prefix(distance, OverFetch * VectorTop)
<1>1. /\ stage = "filter" /\ stage' = "symbols"
      /\ vector' = Prefix(Shown(near, ActiveChunks), VectorTop) /\ distance' = <<>>
      /\ UNCHANGED <<defs, text, symbolic, items, base, links, around, counted, hits, packer>> /\ Call
  BY DEF FilterVectors, Goto
<1>2. near \in Seq(Chunks)
  <2>1. OverFetch * VectorTop \in Nat
    BY SearchAssumption
  <2> HIDE DEF near
  <2>2. Prefix(distance, OverFetch * VectorTop) \in Seq(Chunks)
    BY <2>1, PrefixSeq DEF IInv, ReadInv
  <2> QED BY <2>2 DEF near
<1> HIDE DEF near
<1>3. ActiveChunks \subseteq SeenChunks
  <2>1. active \subseteq wasActive
    BY <1>1 DEF IInv, CallInv
  <2> QED BY <2>1 DEF ActiveChunks, StoredChunks, SeenChunks
<1>4. vector' \in Seq(SeenChunks)
  <2>1. Shown(near, ActiveChunks) \in Seq(ActiveChunks)
    BY <1>2, ShownSeq
  <2>2. Shown(near, ActiveChunks) \in Seq(SeenChunks) /\ VectorTop \in Nat
    BY <1>3, <2>1, SearchAssumption, SeqMonotonic
  <2> QED BY <1>1, <2>2, PrefixSeq
<1>5. CallInv'
  BY <1>1, CallKeeps DEF IInv, CallInv, SearchStages, SymbolStages
<1>6. ReadInv'
  BY <1>1, <1>4, EmptySeq, CallKeeps DEF IInv, ReadInv
<1>7. items' \in Seq(SeenNodes)
  BY <1>1, EmptySeq DEF IInv, ItemsInv
<1>8. ItemsInv' /\ WalkInv' /\ HitsInv'
  BY <1>1, <1>7, CallKeeps DEF packer, IInv, ItemsInv, WalkInv, HitsInv
<1> QED
  BY <1>1, <1>5, <1>6, <1>8, CallKeeps DEF IInv

LEMMA SearchTermStep ==
  ASSUME IInv, SearchTerm
  PROVE  IInv'
<1>1. /\ stage = "symbols" /\ stage' = "symbols" /\ items' = SymbolSearch(plan[1])
      /\ UNCHANGED <<defs, channels, base, links, around, counted, hits, packer>> /\ Call
  BY DEF SearchTerm, Goto
<1>2. items' \in Seq(SeenNodes)
  BY <1>1, DefinitionsSeen
<1>3. CallInv'
  BY <1>1, CallKeeps DEF IInv, CallInv, SearchStages, SymbolStages
<1>4. ReadInv' /\ ItemsInv' /\ WalkInv' /\ HitsInv'
  BY <1>1, <1>2, CallKeeps DEF channels, packer, IInv, ReadInv, ItemsInv, WalkInv, HitsInv
<1> QED
  BY <1>1, <1>3, <1>4, CallKeeps DEF IInv

LEMMA TakeMatchStep ==
  ASSUME IInv, TakeMatch
  PROVE  IInv'
<1> DEFINE n == items[1]
           new == ChunkFor(n) \ ToSet(symbolic)
<1>1. /\ stage = "symbols" /\ stage' = "symbols" /\ items # <<>> /\ items' = Tail(items)
      /\ symbolic' = symbolic \o SetToSeq(new)
      /\ UNCHANGED <<defs, text, distance, vector, walk, hits, packer>> /\ Call
  BY DEF TakeMatch, Goto
<1>2. n \in SeenNodes /\ items' \in Seq(SeenNodes)
  BY <1>1, FirstAndRest DEF IInv, ItemsInv
<1> HIDE DEF n
<1>3. new \subseteq SeenChunks /\ IsFiniteSet(new)
  <2>1. n \in Nodes /\ n.blob \in wasActive
    BY <1>2 DEF SeenNodes
  <2>2. IsFiniteSet(ChunkFor(n)) /\ ChunkFor(n) \subseteq SeenChunks
    BY <2>1, ChunkForOverlaps DEF SeenChunks
  <2>3. new \in SUBSET ChunkFor(n)
    OBVIOUS
  <2> HIDE DEF new
  <2> QED BY <2>2, <2>3, FS_Subset
<1> HIDE DEF new
<1>4. symbolic' \in Seq(SeenChunks)
  <2>1. SetToSeq(new) \in Seq(SeenChunks)
    BY <1>3, SetToSeqSeq, SeqMonotonic
  <2> QED BY <1>1, <2>1, ConcatProperties DEF IInv, ReadInv
<1>5. CallInv'
  BY <1>1, CallKeeps DEF IInv, CallInv, SearchStages, SymbolStages
<1>6. ReadInv'
  BY <1>1, <1>4, CallKeeps DEF IInv, ReadInv
<1>7. ItemsInv' /\ WalkInv' /\ HitsInv'
  BY <1>1, <1>2, CallKeeps DEF walk, packer, IInv, ItemsInv, WalkInv, HitsInv
<1> QED
  BY <1>1, <1>5, <1>6, <1>7, CallKeeps DEF IInv

\* The cross-encoder's ranking: every candidate, blended, best first.
LEMMA RerankOrder ==
  ASSUME IInv, NEW o \in Orders, stage # "idle"
  PROVE  LET top == Prefix(symbolic, SymbolTop)
             pool == Pool(text, vector, top)
             scores == Blend(Shown(o, ToSet(pool)), vector, weight)
         IN  /\ top \in Seq(SeenChunks)
             /\ pool \in Seq(SeenChunks)
             /\ scores \in [ToSet(pool) -> Int]
             /\ Ordered(scores) \in Seq(ToSet(pool))
             /\ ToSet(Ordered(scores)) = ToSet(pool)
             /\ ToSet(pool) \subseteq SeenChunks
<1> DEFINE top == Prefix(symbolic, SymbolTop)
           pool == Pool(text, vector, top)
           shown == Shown(o, ToSet(pool))
           scores == Blend(shown, vector, weight)
<1>1. SeenChunks \subseteq Chunks
  BY DEF SeenChunks
<1>2. /\ text \in Seq(SeenChunks) /\ vector \in Seq(SeenChunks) /\ symbolic \in Seq(SeenChunks)
      /\ weight \in Int
  BY DEF IInv, ReadInv
<1>3. top \in Seq(SeenChunks)
  <2>1. SymbolTop \in Nat
    BY SearchAssumption
  <2> QED BY <1>2, <2>1, PrefixSeq
<1> HIDE DEF top
<1>4. pool \in Seq(SeenChunks)
  BY <1>1, <1>2, <1>3, PoolChunks
<1> HIDE DEF pool
<1>5. ToSet(pool) \subseteq SeenChunks /\ IsFiniteSet(ToSet(pool))
  BY <1>4, SeqFinite
<1>6. shown \in Seq(Chunks) /\ ToSet(shown) = ToSet(pool)
  <2>1. o \in Seq(Chunks) /\ ToSet(o) = Chunks
    BY SearchAssumption
  <2>2. ToSet(o) \cap ToSet(pool) = ToSet(pool)
    BY <1>1, <1>5, <2>1
  <2> QED BY <2>1, <2>2, ShownSeq
<1> HIDE DEF shown
<1>7. scores \in [ToSet(pool) -> Int]
  <2>1. vector \in Seq(Chunks)
    BY <1>1, <1>2, SeqMonotonic
  <2> QED BY <1>2, <1>6, <2>1, BlendScores
<1> HIDE DEF scores
<1>8. Lists(Ordered(scores), ToSet(pool))
  BY <1>1, <1>5, <1>7, OrderedLists
<1>9. Ordered(scores) \in Seq(ToSet(pool)) /\ ToSet(Ordered(scores)) = ToSet(pool)
  BY <1>8, ListsSeq
<1> QED
  BY <1>3, <1>4, <1>5, <1>7, <1>9 DEF top, pool, shown, scores

LEMMA RerankStep ==
  ASSUME IInv, NEW o \in Orders, Rerank(o)
  PROVE  IInv'
<1> DEFINE top == Prefix(symbolic, SymbolTop)
           pool == Pool(text, vector, top)
           scores == Blend(Shown(o, ToSet(pool)), vector, weight)
           order == Ordered(scores)
           source(c) == IF Contains(top, c) THEN "symbol" ELSE IF Contains(text, c) THEN "bm25" ELSE "vector"
           first == Prefix(order, ExpansionTop)
           row(i) == Result(order[i], scores[order[i]], source(order[i]), None)
           head(i) == [chunk |-> order[i], score |-> scores[order[i]],
                       names |-> Chunk[order[i]].names, nodes |-> <<>>]
<1>1. /\ stage = "symbols" /\ stage' = "expand" /\ items = <<>> /\ plan = <<>>
      /\ hits' = [i \in DOMAIN order |-> row(i)]
      /\ symbolic' = top
      /\ items' = [i \in DOMAIN first |-> head(i)]
      /\ UNCHANGED <<defs, text, distance, vector, walk, packer>> /\ Call
  BY DEF Rerank, Goto
<1>2. /\ top \in Seq(SeenChunks) /\ scores \in [ToSet(pool) -> Int]
      /\ order \in Seq(ToSet(pool)) /\ ToSet(pool) \subseteq SeenChunks
  BY <1>1, RerankOrder
<1>3. \A c : source(c) \in Sources
  BY DEF Sources
<1> HIDE DEF top, scores, source
<1> DEFINE P == ToSet(pool)
<1> HIDE DEF P
<1>4. order \in Seq(P) /\ P \subseteq SeenChunks /\ scores \in [P -> Int]
  BY <1>2 DEF P
<1> HIDE DEF pool, order
<1>5. DOMAIN order = 1..Len(order) /\ Len(order) \in Nat /\ \A i \in 1..Len(order) : order[i] \in P
  BY <1>4, LenProperties
<1>6. ASSUME NEW i \in 1..Len(order) PROVE row(i) \in GoodHits /\ head(i) \in Heads
  <2>1. order[i] \in SeenChunks /\ scores[order[i]] \in Int
    BY <1>4, <1>5
  <2>2. row(i) \in GoodHits
    BY <1>3, <2>1, ChannelResultGood
  <2>3. order[i] \in Chunks
    BY <2>1 DEF SeenChunks
  <2>4. Chunk[order[i]].names \in Seq(Names)
    <3>1. Chunk[order[i]].names \in Seq(ToSet(Chunk[order[i]].names))
      BY <2>3, SchemaAssumption
    <3>2. ToSet(Chunk[order[i]].names) \subseteq Names
      BY <2>3 DEF Names
    <3> QED BY <3>1, <3>2, SeqMonotonic
  <2>5. <<>> \in Seq(Nodes)
    OBVIOUS
  <2>6. head(i) \in Heads
    BY <2>1, <2>3, <2>4, <2>5 DEF Heads
  <2> QED BY <2>2, <2>6
<1>7. /\ first \in Seq(P) /\ DOMAIN first = 1..Len(first) /\ Len(first) \in Nat /\ Len(first) <= Len(order)
  <2>1. ExpansionTop \in Nat
    BY SearchAssumption
  <2>2. first \in Seq(P) /\ Len(first) <= Len(order)
    BY <1>4, <2>1, PrefixSeq
  <2> HIDE DEF first
  <2> QED BY <2>2, LenProperties
<1> HIDE DEF row, head, first
<1>8. hits' \in Seq(GoodHits)
  <2>1. hits' \in [1..Len(order) -> GoodHits]
    BY <1>1, <1>5, <1>6
  <2> QED BY <1>5, <2>1
<1>9. items' \in Seq(Heads)
  <2>1. \A i \in 1..Len(first) : i \in 1..Len(order)
    BY <1>5, <1>7
  <2>2. items' \in [1..Len(first) -> Heads]
    BY <1>1, <1>6, <1>7, <2>1
  <2> QED BY <1>7, <2>2
<1>10. packed = {} /\ links = {} /\ around = {}
  BY <1>1 DEF IInv, HitsInv, WalkInv
<1>11. CallInv'
  BY <1>1, CallKeeps DEF IInv, CallInv, SearchStages, SymbolStages
<1>12. ReadInv'
  BY <1>1, <1>2, CallKeeps DEF IInv, ReadInv
<1>13. ItemsInv' /\ HitsInv'
  BY <1>1, <1>8, <1>9, <1>10, CallKeeps DEF packer, ItemsInv, HitsInv
<1>14. WalkInv'
  BY <1>1, <1>10, EmptySeq, CallKeeps DEF walk, Walked, IInv, WalkInv
<1> QED
  BY <1>1, <1>11, <1>12, <1>13, <1>14, CallKeeps DEF IInv

\* Work on the first of a sequence.
LEMMA FirstChanged ==
  ASSUME NEW S, NEW s \in Seq(S), s # <<>>, NEW x \in S
  PROVE  [s EXCEPT ![1] = x] \in Seq(S)
<1>1. Len(s) \in Nat /\ s \in [1..Len(s) -> S]
  BY LenProperties
<1>2. [s EXCEPT ![1] = x] \in [1..Len(s) -> S]
  BY <1>1
<1> QED
  BY <1>1, <1>2

LEMMA ReadNameStep ==
  ASSUME IInv, ReadName
  PROVE  IInv'
<1> DEFINE i == items[1]
           found == Definitions(i.names[1])
           at == {k \in DOMAIN found : /\ found[k].blob = Chunk[i.chunk].blob
                                       /\ found[k].from < Chunk[i.chunk].to
                                       /\ Chunk[i.chunk].from < found[k].to}
           new == i.nodes \o Select(found, at)
           x == [i EXCEPT !.names = Tail(@), !.nodes = new]
<1>1. /\ stage = "expand" /\ stage' = "expand" /\ items # <<>> /\ Walked /\ i.names # <<>>
      /\ items' = [items EXCEPT ![1].names = Tail(@), ![1].nodes = @ \o Select(found, at)]
      /\ UNCHANGED <<defs, channels, walk, hits, packer>> /\ Call
  BY DEF ReadName, Goto
<1>2. items \in Seq(Heads)
  BY <1>1 DEF IInv, ItemsInv
<1>3. i \in Heads
  BY <1>1, <1>2, FirstAndRest
<1>4. i.names \in Seq(Names) /\ i.nodes \in Seq(Nodes)
  BY <1>3 DEF Heads
<1>5. new \in Seq(Nodes)
  <2>1. found \in Seq(SeenNodes)
    BY <1>1, DefinitionsSeen
  <2>2. at \subseteq DOMAIN found
    OBVIOUS
  <2> HIDE DEF found, at
  <2>3. Select(found, at) \in Seq(SeenNodes)
    BY <2>1, <2>2, SelectSeqOf
  <2>4. SeenNodes \subseteq Nodes
    BY DEF SeenNodes
  <2>5. Select(found, at) \in Seq(Nodes)
    BY <2>3, <2>4, SeqMonotonic
  <2> QED BY <1>4, <2>5, ConcatProperties
<1>6. items' = [items EXCEPT ![1] = x]
  <2>1. DOMAIN items = 1..Len(items) /\ Len(items) \in Nat /\ Len(items) # 0
    BY <1>1, <1>2, LenProperties, EmptySeq
  <2> HIDE DEF found, at
  <2> QED BY <1>1, <2>1
<1> HIDE DEF new
<1>7. x \in Heads
  <2>1. Tail(i.names) \in Seq(Names)
    BY <1>1, <1>4, FirstAndRest
  <2> HIDE DEF i
  <2> QED BY <1>3, <1>5, <2>1 DEF Heads
<1> HIDE DEF x, i
<1>8. items' \in Seq(Heads)
  <2>1. items # <<>>
    BY <1>1
  <2>2. [items EXCEPT ![1] = x] \in Seq(Heads)
    BY <1>2, <1>7, <2>1, FirstChanged
  <2> QED BY <1>6, <2>2
<1>9. CallInv'
  <2>1. stage' = stage /\ StoredChunks' = StoredChunks /\ query' = query /\ active' = active
        /\ edges' = edges /\ wasActive' = wasActive /\ wasEdge' = wasEdge /\ stage = "expand"
    BY <1>1, CallKeeps
  <2> QED BY <2>1 DEF IInv, CallInv, SearchStages, SymbolStages
<1>10. ReadInv' /\ WalkInv' /\ HitsInv'
  BY <1>1, CallKeeps DEF channels, walk, packer, Walked, IInv, ReadInv, WalkInv, HitsInv
<1>11. ItemsInv'
  BY <1>1, <1>8, CallKeeps DEF ItemsInv
<1> QED
  BY <1>1, <1>9, <1>10, <1>11, CallKeeps DEF IInv

LEMMA VisitNodeStep ==
  ASSUME IInv, VisitNode
  PROVE  IInv'
<1> DEFINE i == items[1]
           n == i.nodes[1]
           x == [i EXCEPT !.nodes = Tail(@)]
<1>1. /\ stage = "expand" /\ stage' = "expand" /\ items # <<>> /\ Walked /\ i.nodes # <<>>
      /\ base' = [id |-> Id(n), score |-> i.score] /\ plan' = Plans
      /\ items' = [items EXCEPT ![1].nodes = Tail(@)]
      /\ UNCHANGED <<defs, channels, links, around, counted, hits, packer>> /\ Call
  BY DEF VisitNode, Goto, Visit
<1>2. items \in Seq(Heads)
  BY <1>1 DEF IInv, ItemsInv
<1>3. i \in Heads
  BY <1>1, <1>2, FirstAndRest
<1>4. i.nodes \in Seq(Nodes) /\ i.score \in Int
  BY <1>3 DEF Heads
<1>5. n \in Nodes /\ Tail(i.nodes) \in Seq(Nodes)
  BY <1>1, <1>4, FirstAndRest
<1>6. items' = [items EXCEPT ![1] = x]
  <2>1. DOMAIN items = 1..Len(items) /\ Len(items) \in Nat /\ Len(items) # 0
    BY <1>1, <1>2, LenProperties, EmptySeq
  <2> QED BY <1>1, <2>1
<1>7. x \in Heads
  <2> HIDE DEF i
  <2> QED BY <1>3, <1>5 DEF Heads
<1>8. base' \in [id : Ids, score : Int]
  BY <1>1, <1>4, <1>5, NodeTypes
<1> HIDE DEF x, n, i
<1>9. items' \in Seq(Heads)
  <2>1. items # <<>>
    BY <1>1
  <2>2. [items EXCEPT ![1] = x] \in Seq(Heads)
    BY <1>2, <1>7, <2>1, FirstChanged
  <2> QED BY <1>6, <2>2
<1>10. CallInv'
  BY <1>1, CallKeeps DEF IInv, CallInv, SearchStages, SymbolStages
<1>11. ReadInv' /\ HitsInv'
  BY <1>1, CallKeeps DEF channels, packer, IInv, ReadInv, HitsInv
<1>12. ItemsInv'
  BY <1>1, <1>9, CallKeeps DEF ItemsInv
<1>13. WalkInv'
  BY <1>1, <1>8, PlansSteps, CallKeeps DEF IInv, WalkInv
<1> QED
  BY <1>1, <1>10, <1>11, <1>12, <1>13, CallKeeps DEF IInv

LEMMA LeaveChunkStep ==
  ASSUME IInv, LeaveChunk
  PROVE  IInv'
<1>1. /\ stage = "expand" /\ stage' = "expand" /\ items # <<>> /\ items' = Tail(items)
      /\ UNCHANGED <<defs, channels, walk, hits, packer>> /\ Call
  BY DEF LeaveChunk, Goto
<1>2. items' \in Seq(Heads)
  BY <1>1, FirstAndRest DEF IInv, ItemsInv
<1>3. CallInv'
  BY <1>1, CallKeeps DEF IInv, CallInv, SearchStages, SymbolStages
<1>4. ReadInv' /\ WalkInv' /\ HitsInv'
  BY <1>1, CallKeeps DEF channels, walk, packer, Walked, IInv, ReadInv, WalkInv, HitsInv
<1>5. ItemsInv'
  BY <1>1, <1>2, CallKeeps DEF ItemsInv
<1> QED
  BY <1>1, <1>3, <1>4, <1>5, CallKeeps DEF IInv

LEMMA ExpandedStep ==
  ASSUME IInv, Expanded
  PROVE  IInv'
<1>1. /\ stage = "expand" /\ items = <<>> /\ Walked /\ stage' = "pack"
      /\ todo' = PackOrder(ToSet(hits)) /\ base' = None
      /\ UNCHANGED <<defs, channels, items, plan, links, around, counted, hits, packed, total, reply>> /\ Call
  BY DEF Expanded, Goto
<1>2. hits \in Seq(GoodHits) /\ packed = {}
  BY <1>1 DEF IInv, HitsInv
<1>3. CallInv'
  BY <1>1, CallKeeps DEF IInv, CallInv, SearchStages, SymbolStages
<1>4. ReadInv'
  BY <1>1, CallKeeps DEF channels, IInv, ReadInv
<1>5. ItemsInv' /\ WalkInv'
  BY <1>1, CallKeeps DEF Walked, IInv, ItemsInv, WalkInv
<1>6. HitsInv'
  BY <1>1, <1>2, ToPack, CallKeeps DEF HitsInv
<1> QED
  BY <1>1, <1>3, <1>4, <1>5, <1>6, CallKeeps DEF IInv

LEMMA ListDefinitionsStep ==
  ASSUME IInv, ListDefinitions
  PROVE  IInv'
<1> DEFINE ds == Definitions(query.tokens[1])
           row(r) == [node |-> ds[r], via |-> None, score |-> 1000 - 50 * (r - 1)]
<1>1. /\ stage = "symbol" /\ stage' = "sources"
      /\ items' = [r \in DOMAIN ds |-> row(r)]
      /\ UNCHANGED <<defs, channels, walk, hits, packer>> /\ Call
  BY DEF ListDefinitions, Goto
<1>2. ds \in Seq(SeenNodes)
  BY <1>1, DefinitionsSeen
<1> HIDE DEF ds
<1>3. DOMAIN ds = 1..Len(ds) /\ Len(ds) \in Nat /\ \A r \in 1..Len(ds) : ds[r] \in SeenNodes
  BY <1>2, LenProperties
<1>4. ASSUME NEW r \in 1..Len(ds) PROVE row(r) \in FoundSources
  <2>1. 1000 - 50 * (r - 1) \in Int
    BY <1>3
  <2> QED BY <1>3, <2>1 DEF FoundSources
<1> HIDE DEF row
<1>5. items' \in Seq(FoundSources)
  <2>1. items' \in [1..Len(ds) -> FoundSources]
    BY <1>1, <1>3, <1>4
  <2> QED BY <1>3, <2>1
<1>6. CallInv'
  BY <1>1, CallKeeps DEF IInv, CallInv, SearchStages, SymbolStages
<1>7. ReadInv' /\ WalkInv' /\ HitsInv'
  BY <1>1, CallKeeps DEF channels, walk, packer, Walked, IInv, ReadInv, WalkInv, HitsInv
<1>8. ItemsInv'
  BY <1>1, <1>5, CallKeeps DEF ItemsInv
<1> QED
  BY <1>1, <1>6, <1>7, <1>8, CallKeeps DEF IInv

LEMMA ReadDefinitionsStep ==
  ASSUME IInv, ReadDefinitions
  PROVE  IInv'
<1>1. /\ stage = "symbol" /\ stage' = "counting"
      /\ items' = Definitions(query.tokens[1]) /\ defs' = <<items'>>
      /\ UNCHANGED <<channels, walk, hits, packer>> /\ Call
  BY DEF ReadDefinitions, Goto
<1>2. items' \in Seq(SeenNodes)
  BY <1>1, DefinitionsSeen
<1>3. defs' \in Seq(Seq(SeenNodes))
  BY <1>1, <1>2
<1>4. CallInv'
  BY <1>1, CallKeeps DEF IInv, CallInv, SearchStages, SymbolStages
<1>5. ReadInv'
  BY <1>1, <1>3, CallKeeps DEF channels, IInv, ReadInv
<1>6. WalkInv' /\ HitsInv'
  BY <1>1, CallKeeps DEF walk, packer, Walked, IInv, WalkInv, HitsInv
<1>7. ItemsInv'
  BY <1>1, <1>2, CallKeeps DEF ItemsInv
<1> QED
  BY <1>1, <1>4, <1>5, <1>6, <1>7, CallKeeps DEF IInv

LEMMA ReadIncomingStep ==
  ASSUME IInv, ReadIncoming
  PROVE  IInv'
<1> DEFINE n == items[1]
           in == EdgesAt(Id(n), IF query.tool = "callers" THEN "calls" ELSE "references", TRUE)
           link == [e \in in |-> [edge |-> e, rank |-> 0, of |-> Id(n), id |-> e.src]]
<1>1. /\ stage = "counting" /\ stage' = "counting" /\ items # <<>> /\ links = {}
      /\ links' = {[edge |-> e, rank |-> 0, of |-> Id(n), id |-> e.src] : e \in in}
      /\ counted' = counted \cup in
      /\ items' = Tail(items)
      /\ UNCHANGED <<defs, channels, base, plan, around, hits, packer>> /\ Call
  BY DEF ReadIncoming, Goto
<1>2. n \in SeenNodes /\ items' \in Seq(SeenNodes)
  BY <1>1, FirstAndRest DEF IInv, ItemsInv
<1>3. edges \subseteq Links /\ edges \subseteq wasEdge /\ IsFiniteSet(edges)
  BY <1>1 DEF IInv, IndexInv, CallInv
<1>4. in \subseteq edges /\ IsFiniteSet(in) /\ \A e \in in : Id(n) = e.dst
  <2>1. in \subseteq edges /\ \A e \in in : Id(n) = e.dst
    BY DEF EdgesAt
  <2> HIDE DEF in
  <2> QED BY <1>3, <2>1, FS_Subset
<1>5. links' = {link[e] : e \in in} /\ DOMAIN link = in /\ link = [e \in in |-> link[e]]
  BY <1>1
<1>6. ASSUME NEW e \in in PROVE link[e] \in GoodLinks
  <2>1. e \in Links /\ e \in wasEdge /\ e.src \in Ids /\ e.dst \in Ids /\ Id(n) = e.dst
    BY <1>3, <1>4, NodeTypes
  <2> HIDE DEF in, n
  <2> QED BY <2>1 DEF GoodLinks
<1> HIDE DEF link, in, n
<1>7. links' \subseteq GoodLinks /\ IsFiniteSet(links')
  BY <1>4, <1>5, <1>6, ImageFinite
<1>8. counted' \subseteq Links /\ IsFiniteSet(counted')
  <2>1. IsFiniteSet(counted \cup in) /\ counted \subseteq Links
    BY <1>4, FS_Union DEF IInv, WalkInv
  <2> QED BY <1>1, <1>3, <1>4, <2>1
<1>9. CallInv'
  BY <1>1, CallKeeps DEF IInv, CallInv, SearchStages, SymbolStages
<1>10. ReadInv' /\ HitsInv'
  BY <1>1, CallKeeps DEF channels, packer, IInv, ReadInv, HitsInv
<1>11. ItemsInv'
  BY <1>1, <1>2, CallKeeps DEF ItemsInv
<1>12. WalkInv'
  BY <1>1, <1>7, <1>8, CallKeeps DEF IInv, WalkInv
<1> QED
  BY <1>1, <1>9, <1>10, <1>11, <1>12, CallKeeps DEF IInv

LEMMA ResolveSourceStep ==
  ASSUME IInv, ResolveSource
  PROVE  IInv'
<1> DEFINE l == FirstLink
           ns == {n \in ToSet(Definitions(SymbolOf(l.id))) : Id(n) = l.id}
           source == [n \in ns |-> [node |-> n, via |-> [edge |-> l.edge, of |-> l.of, id |-> Id(n)]]]
           new == {source[n] : n \in ns}
<1>1. /\ stage = "counting" /\ links # {} /\ stage' = "counting"
      /\ links' = links \ {l}
      /\ around' = around \/ around' = around \cup new
      /\ UNCHANGED <<defs, channels, items, base, plan, counted, hits, packer>> /\ Call
  BY DEF ResolveSource, Goto
<1>2. links \subseteq GoodLinks /\ IsFiniteSet(links)
  BY DEF IInv, WalkInv
<1>3. l \in GoodLinks
  BY <1>1, <1>2, LinkKey
<1>4. ns \subseteq SeenNodes /\ IsFiniteSet(ns)
  <2> DEFINE T == ToSet(Definitions(SymbolOf(l.id)))
  <2>1. T \subseteq SeenNodes /\ IsFiniteSet(T)
    BY <1>1, DefinitionsSeen
  <2>2. ns \in SUBSET T
    OBVIOUS
  <2> HIDE DEF T, ns
  <2> QED BY <2>1, <2>2, FS_Subset
<1>5. DOMAIN source = ns /\ source = [n \in ns |-> source[n]]
  OBVIOUS
<1>6. ASSUME NEW n \in ns
      PROVE  /\ source[n].node \in SeenNodes /\ source[n].via \in Ties
             /\ source[n].via.id = Id(source[n].node)
  <2>1. n \in SeenNodes /\ Id(n) = l.id
    BY <1>4
  <2>2. /\ l.edge \in Links /\ l.of \in Ids /\ l.id \in Ids
        /\ l.edge \in wasEdge /\ {l.edge.src, l.edge.dst} = {l.of, l.id}
    BY <1>3 DEF GoodLinks
  <2>3. source[n].node = n /\ source[n].via = [edge |-> l.edge, of |-> l.of, id |-> Id(n)]
    OBVIOUS
  <2> HIDE DEF l, ns, source
  <2>4. [edge |-> l.edge, of |-> l.of, id |-> Id(n)] \in Ties
    BY <2>1, <2>2 DEF Ties, Vias
  <2> QED BY <2>1, <2>2, <2>3, <2>4
<1> HIDE DEF l, ns, source
<1>7. IsFiniteSet(new)
  BY <1>4, <1>5, ImageFinite
<1>8. \A m \in new : m.node \in SeenNodes /\ m.via \in Ties /\ m.via.id = Id(m.node)
  BY <1>6
<1> HIDE DEF new
<1>9. IsFiniteSet(around') /\ IsFiniteSet(links') /\ links' \subseteq GoodLinks
  <2>1. IsFiniteSet(around \cup new) /\ IsFiniteSet(around)
    BY <1>7, FS_Union DEF IInv, WalkInv
  <2>2. links \ {l} \in SUBSET links
    OBVIOUS
  <2>3. IsFiniteSet(links \ {l})
    BY <1>2, <2>2, FS_Subset
  <2> QED BY <1>1, <1>2, <2>1, <2>3
<1>10. CallInv'
  BY <1>1, CallKeeps DEF IInv, CallInv, SearchStages, SymbolStages
<1>11. ReadInv' /\ ItemsInv' /\ HitsInv'
  BY <1>1, CallKeeps DEF channels, packer, IInv, ReadInv, ItemsInv, HitsInv
<1>12. WalkInv'
  <2>1. \A m \in around' : m.node \in SeenNodes /\ m.via \in Ties /\ m.via.id = Id(m.node)
    BY <1>1, <1>8 DEF IInv, WalkInv
  <2> QED BY <1>1, <1>9, <2>1, CallKeeps DEF IInv, WalkInv
<1> QED
  BY <1>1, <1>10, <1>11, <1>12, CallKeeps DEF IInv

LEMMA RankSourcesStep ==
  ASSUME IInv, RankSources
  PROVE  IInv'
<1> DEFINE packages == {defs[1][i].dir : i \in DOMAIN defs[1]}
           far(m) == IF m.node.dir \in packages THEN 0 ELSE 1
           from(m) == {e \in counted : e.src = Id(m.node)}
           key == [m \in around |-> <<far(m), -Cardinality(from(m))>> \o Place(Id(m.node))]
           order == Prefix(SortedBy(around, key), query.limit)
           item(r) == [node |-> order[r].node, via |-> order[r].via, score |-> 1000 - 30 * (r - 1)]
<1>1. /\ stage = "counting" /\ stage' = "sources" /\ items = <<>> /\ links = {}
      /\ items' = [r \in DOMAIN order |-> item(r)]
      /\ around' = {} /\ counted' = {}
      /\ UNCHANGED <<defs, channels, base, plan, links, hits, packer>> /\ Call
  BY DEF RankSources, Goto
<1>2. /\ IsFiniteSet(around) /\ IsFiniteSet(counted)
      /\ \A m \in around : m.node \in SeenNodes /\ m.via \in Ties /\ m.via.id = Id(m.node)
  BY DEF IInv, WalkInv
<1>3. ASSUME NEW m \in around PROVE key[m] \in [1..5 -> Int]
  <2>1. from(m) \in SUBSET counted
    OBVIOUS
  <2> HIDE DEF from
  <2>2. IsFiniteSet(from(m))
    BY <1>2, <2>1, FS_Subset
  <2>3. far(m) \in Int /\ -Cardinality(from(m)) \in Int
    BY <2>2, FS_CardinalityType
  <2> HIDE DEF far
  <2>4. <<far(m), -Cardinality(from(m))>> \in [1..2 -> Int]
    BY <2>3
  <2>5. Place(Id(m.node)) \in [1..3 -> Int]
    BY <1>2, NodeTypes DEF SeenNodes
  <2>6. <<far(m), -Cardinality(from(m))>> \o Place(Id(m.node)) \in [1..(2 + 3) -> Int]
    BY <2>4, <2>5, ConcatKey
  <2> QED BY <2>6
<1>4. key \in [around -> [1..5 -> Int]]
  <2>1. DOMAIN key = around /\ key = [m \in around |-> key[m]]
    OBVIOUS
  <2> HIDE DEF key
  <2> QED BY <1>3, <2>1
<1> HIDE DEF key
<1>5. order \in Seq(around)
  <2>1. SortedBy(around, key) \in Seq(around)
    <3>1. IsFiniteSet(around) /\ 5 \in Nat
      BY <1>2
    <3> HIDE DEF order
    <3>2. Lists(SortedBy(around, key), around)
      BY <1>4, <3>1, SortedByLists
    <3> QED BY <3>2, ListsSeq
  <2>2. query.limit \in Nat
    BY <1>1, SchemaAssumption DEF IInv, CallInv
  <2> QED BY <2>1, <2>2, PrefixSeq
<1> HIDE DEF order
<1>6. DOMAIN order = 1..Len(order) /\ Len(order) \in Nat /\ \A r \in 1..Len(order) : order[r] \in around
  BY <1>5, LenProperties
<1>7. ASSUME NEW r \in 1..Len(order) PROVE item(r) \in FoundSources
  <2>1. order[r].node \in SeenNodes /\ order[r].via \in Ties /\ order[r].via.id = Id(order[r].node)
    BY <1>2, <1>6
  <2>2. 1000 - 30 * (r - 1) \in Int
    BY <1>6
  <2> QED BY <2>1, <2>2 DEF FoundSources
<1> HIDE DEF item
<1>8. items' \in Seq(FoundSources)
  <2>1. items' \in [1..Len(order) -> FoundSources]
    BY <1>1, <1>6, <1>7
  <2> QED BY <1>6, <2>1
<1>9. CallInv'
  BY <1>1, CallKeeps DEF IInv, CallInv, SearchStages, SymbolStages
<1>10. ReadInv' /\ HitsInv'
  BY <1>1, CallKeeps DEF channels, packer, IInv, ReadInv, HitsInv
<1>11. ItemsInv'
  BY <1>1, <1>8, CallKeeps DEF ItemsInv
<1>12. WalkInv'
  BY <1>1, FS_EmptySet, CallKeeps DEF IInv, WalkInv
<1> QED
  BY <1>1, <1>9, <1>10, <1>11, <1>12, CallKeeps DEF IInv

LEMMA TakeSourceStep ==
  ASSUME IInv, TakeSource
  PROVE  IInv'
<1> DEFINE m == items[1]
           new == ChunkFor(m.node)
           row == [c \in new |-> Result(c, m.score, "symbol", m.via)]
<1>1. /\ stage = "sources" /\ stage' = "sources" /\ items # <<>>
      /\ hits' = hits \o SetToSeq({Result(c, m.score, "symbol", m.via) : c \in new})
      /\ items' = Tail(items)
      /\ UNCHANGED <<defs, channels, walk, packer>> /\ Call
  BY DEF TakeSource, Goto
<1>2. m \in FoundSources /\ items' \in Seq(FoundSources)
  BY <1>1, FirstAndRest DEF IInv, ItemsInv
<1> HIDE DEF m
<1>3. /\ m.node \in SeenNodes /\ m.score \in Int /\ m.via \in {None} \cup Ties
      /\ m.via # None => m.via.id = Id(m.node)
  BY <1>2 DEF FoundSources
<1>4. IsFiniteSet(new)
  BY <1>3, ChunkForOverlaps DEF SeenNodes
<1>5. row \in [new -> GoodHits]
  <2>1. ASSUME NEW c \in new PROVE Result(c, m.score, "symbol", m.via) \in GoodHits
    <3>1. "symbol" \in Sources
      BY DEF Sources
    <3> QED BY <1>3, <3>1, ResultGood
  <2> QED BY <2>1
<1>6. hits' = hits \o SetToSeq({row[c] : c \in new})
  BY <1>1
<1> HIDE DEF row, new
<1>7. hits' \in Seq(GoodHits) /\ packed = {}
  BY <1>1, <1>4, <1>5, <1>6, HitsAppended DEF IInv, HitsInv
<1>8. CallInv'
  BY <1>1, CallKeeps DEF IInv, CallInv, SearchStages, SymbolStages
<1>9. ReadInv' /\ WalkInv'
  BY <1>1, CallKeeps DEF channels, walk, Walked, IInv, ReadInv, WalkInv
<1>10. ItemsInv'
  BY <1>1, <1>2, CallKeeps DEF ItemsInv
<1>11. HitsInv'
  BY <1>1, <1>7, CallKeeps DEF packer, HitsInv
<1> QED
  BY <1>1, <1>8, <1>9, <1>10, <1>11, CallKeeps DEF IInv

LEMMA AnswerRowsStep ==
  ASSUME IInv, AnswerRows
  PROVE  IInv'
<1>1. /\ stage = "sources" /\ stage' = "answered" /\ items = <<>>
      /\ UNCHANGED <<defs, channels, items, walk, hits, todo, packed, total>> /\ Call
  BY DEF AnswerRows, Goto
<1>2. CallInv'
  BY <1>1, CallKeeps DEF IInv, CallInv, SearchStages, SymbolStages
<1>3. ReadInv' /\ ItemsInv' /\ WalkInv' /\ HitsInv'
  BY <1>1, CallKeeps DEF channels, walk, IInv, ReadInv, ItemsInv, WalkInv, HitsInv
<1> QED
  BY <1>1, <1>2, <1>3, CallKeeps DEF IInv

LEMMA ExpandStep ==
  ASSUME IInv, Expand
  PROVE  IInv'
<1> DEFINE row == Result(query.tokens[1], 1000, "expansion", None)
<1>1. /\ stage = "handle" /\ stage' = "answered"
      /\ reply' = [rows |-> IF query.tokens[1] \in StoredChunks THEN <<row>> ELSE <<>>,
                   envelope |-> 0, truncated |-> 0]
      /\ UNCHANGED <<defs, channels, items, walk, hits, todo, packed, total>> /\ Call
  BY DEF Expand, Goto
<1> HIDE DEF row
<1>2. query.tool = "expand" /\ query.tokens[1] \in StoredChunks
  BY <1>1 DEF IInv, CallInv
<1>3. reply'.rows # <<>>
  <2>1. reply'.rows = <<row>>
    BY <1>1, <1>2
  <2> QED BY <2>1
<1>4. CallInv'
  BY <1>1, <1>2, <1>3, CallKeeps DEF IInv, CallInv, SearchStages, SymbolStages
<1>5. ReadInv' /\ ItemsInv' /\ WalkInv' /\ HitsInv'
  BY <1>1, CallKeeps DEF channels, walk, IInv, ReadInv, ItemsInv, WalkInv, HitsInv
<1> QED
  BY <1>1, <1>4, <1>5, CallKeeps DEF IInv

LEMMA PackNextStep ==
  ASSUME IInv, PackNext
  PROVE  IInv'
<1>1. /\ stage = "pack" /\ stage' = "pack" /\ todo # <<>> /\ todo' = Tail(todo)
      /\ packed' \subseteq packed \cup {todo[1]}
      /\ UNCHANGED <<defs, channels, items, walk, hits, reply>> /\ Call
  BY DEF PackNext, Goto
<1>2. todo \in Seq(ToSet(hits)) /\ packed \subseteq ToSet(hits) /\ hits \in Seq(GoodHits)
  BY <1>1 DEF IInv, HitsInv
<1>3. todo[1] \in ToSet(hits) /\ todo' \in Seq(ToSet(hits))
  BY <1>1, <1>2, FirstAndRest
<1>4. CallInv'
  BY <1>1, CallKeeps DEF IInv, CallInv, SearchStages, SymbolStages
<1>5. ReadInv' /\ ItemsInv' /\ WalkInv'
  BY <1>1, CallKeeps DEF channels, walk, IInv, ReadInv, ItemsInv, WalkInv
<1>6. HitsInv'
  BY <1>1, <1>2, <1>3, CallKeeps DEF HitsInv
<1> QED
  BY <1>1, <1>4, <1>5, <1>6, CallKeeps DEF IInv

\* The end of packing and the trimming of the response: only the reply changes.
LEMMA ReplyStep ==
  ASSUME IInv,
         stage \in {"pack", "trim"}, stage' \in {"trim", "answered"},
         UNCHANGED <<defs, channels, items, walk, hits, todo, packed, total>>, Call
  PROVE  IInv'
<1>1. query.tool = "search"
  BY DEF IInv, CallInv, SearchStages
<1>2. CallInv'
  BY <1>1, CallKeeps DEF IInv, CallInv, SearchStages, SymbolStages
<1>3. ReadInv' /\ ItemsInv' /\ WalkInv' /\ HitsInv'
  BY CallKeeps DEF channels, walk, IInv, ReadInv, ItemsInv, WalkInv, HitsInv
<1> QED
  BY <1>2, <1>3, CallKeeps DEF IInv

LEMMA ReturnStep ==
  ASSUME IInv, Finish \/ NoTable
  PROVE  IInv'
<1>1. /\ stage \in {"answered", "knn"} /\ stage' = "idle" /\ query' = None /\ defs' = <<>>
      /\ text' = <<>> /\ distance' = <<>> /\ vector' = <<>> /\ symbolic' = <<>>
      /\ hits' = <<>> /\ packed' = {} /\ wasActive' = {} /\ wasEdge' = {}
      /\ UNCHANGED <<index, weight, items, walk, todo>>
  BY DEF Finish, NoTable, Return, Goto
<1>2. IndexInv'
  BY <1>1 DEF index, IInv, IndexInv
<1>3. CallInv'
  BY <1>1 DEF CallInv, SearchStages, SymbolStages
<1>4. ReadInv'
  BY <1>1, EmptySeq DEF IInv, ReadInv
<1>5. ItemsInv'
  BY <1>1 DEF IInv, ItemsInv
<1>6. WalkInv'
  BY <1>1 DEF walk, IInv, WalkInv
<1>7. HitsInv'
  BY <1>1, EmptySeq DEF HitsInv, ToSet
<1> QED
  BY <1>2, <1>3, <1>4, <1>5, <1>6, <1>7 DEF IInv

LEMMA InitIInv ==
  ASSUME Init
  PROVE  IInv
<1>1. /\ sync = "none" /\ adding = None /\ stage = "idle" /\ query = None
      /\ weight \in Int
      /\ defs = <<>> /\ text = <<>> /\ distance = <<>> /\ vector = <<>> /\ symbolic = <<>>
      /\ items = <<>> /\ plan = <<>> /\ links = {} /\ around = {} /\ counted = {}
      /\ hits = <<>> /\ packed = {} /\ wasActive = {} /\ wasEdge = {}
  BY DEF Init
<1>2. PICK t \in Trees : /\ known = t /\ active = t /\ chunked = t
                         /\ symbols = Graph[t].symbols /\ edges = Graph[t].edges
  BY DEF Init
<1>3. IndexInv
  <2>1. t \subseteq Blobs
    BY SearchAssumption
  <2>2. /\ symbols \subseteq Nodes /\ edges \subseteq Links
        /\ IsFiniteSet(symbols) /\ IsFiniteSet(edges)
    BY <1>2, SchemaAssumption DEF Nodes, Links
  <2> QED BY <1>1, <1>2, <2>1, <2>2 DEF IndexInv
<1>4. CallInv
  BY <1>1 DEF CallInv, SearchStages, SymbolStages
<1>5. ReadInv
  BY <1>1, EmptySeq DEF ReadInv
<1>6. ItemsInv
  BY <1>1 DEF ItemsInv
<1>7. WalkInv
  BY <1>1, FS_EmptySet DEF WalkInv
<1>8. HitsInv
  BY <1>1, EmptySeq DEF HitsInv, ToSet
<1> QED
  BY <1>3, <1>4, <1>5, <1>6, <1>7, <1>8 DEF IInv

LEMMA NextIInv ==
  ASSUME IInv, [Next]_vars
  PROVE  IInv'
<1>1. CASE Sync
  BY <1>1, SyncStep
<1>2. CASE \E q \in Queries : Ask(q)
  BY <1>2, AskStep
<1>3. CASE LookUpToken \/ Route \/ TakeDefinition \/ Routed
  BY <1>3, LookUpTokenStep, RouteStep, TakeDefinitionStep, RoutedStep
<1>4. CASE ReadEdges \/ ResolveNeighbor \/ TakeNeighbor
  BY <1>4, ReadEdgesStep, ResolveNeighborStep, TakeNeighborStep
<1>5. CASE \E o \in Orders : SearchText(o) \/ ScanVectors(o) \/ FetchVectors(o) \/ Rerank(o)
  BY <1>5, SearchTextStep, ScanVectorsStep, FetchVectorsStep, RerankStep
<1>6. CASE ReadVecDim \/ FilterVectors \/ SearchTerm \/ TakeMatch
  BY <1>6, ReadVecDimStep, FilterVectorsStep, SearchTermStep, TakeMatchStep
<1>7. CASE ReadName \/ VisitNode \/ LeaveChunk \/ Expanded
  BY <1>7, ReadNameStep, VisitNodeStep, LeaveChunkStep, ExpandedStep
<1>8. CASE ListDefinitions \/ ReadDefinitions \/ ReadIncoming \/ ResolveSource \/ RankSources \/ TakeSource
  BY <1>8, ListDefinitionsStep, ReadDefinitionsStep, ReadIncomingStep, ResolveSourceStep,
     RankSourcesStep, TakeSourceStep
<1>9. CASE Answer
  <2>1. CASE PackNext \/ AnswerRows \/ Expand \/ Finish \/ NoTable
    BY <2>1, PackNextStep, AnswerRowsStep, ExpandStep, ReturnStep
  <2>2. CASE \E e \in Envelopes : Packed(e)
    BY <2>2, ReplyStep DEF Packed, Goto
  <2>3. CASE Trim \/ Respond
    BY <2>3, ReplyStep DEF Trim, Respond, Goto
  <2> QED BY <1>9, <2>1, <2>2, <2>3 DEF Answer
<1>10. CASE UNCHANGED vars
  <2>1. /\ UNCHANGED <<index, weight, query, history>>
        /\ UNCHANGED <<stage, defs, channels, items, walk, hits, packer>>
    BY <1>10 DEF vars
  <2>2. Call
    BY <2>1 DEF Call
  <2>3. CallInv'
    BY <2>1, <2>2, CallKeeps DEF packer, IInv, CallInv
  <2>4. ReadInv' /\ ItemsInv' /\ WalkInv' /\ HitsInv'
    BY <2>1, <2>2, CallKeeps DEF channels, walk, packer, Walked, IInv, ReadInv, ItemsInv, WalkInv, HitsInv
  <2> QED BY <2>2, <2>3, <2>4, CallKeeps DEF IInv
<1> QED
  BY <1>1, <1>2, <1>3, <1>4, <1>5, <1>6, <1>7, <1>8, <1>9, <1>10, Zenon DEF Next, Read

\* The invariant that carries what a call has read: see IInv.
THEOREM SpecInductive == Spec => []IInv
<1>1. Init => IInv
  BY InitIInv
<1>2. IInv /\ [Next]_vars => IInv'
  BY NextIInv
<1> QED
  BY <1>1, <1>2, PTL DEF Spec

\* Whatever a sync commits between the reads of a call, the variables keep their
\* types, only known blobs are active or have chunks, and what is packed was found.
THEOREM TypesCorrect == Spec => []TypeOK
<1>1. IInv => TypeOK
  <2> SUFFICES ASSUME IInv PROVE TypeOK
    OBVIOUS
  <2>1. \A i \in DOMAIN hits : hits[i].source \in Sources
    <3>1. hits \in Seq(GoodHits)
      BY DEF IInv, HitsInv
    <3>2. ASSUME NEW i \in DOMAIN hits PROVE hits[i].source \in Sources
      <4>1. hits[i] \in Rows
        BY <3>1 DEF GoodHits
      <4> QED BY <4>1 DEF Rows
    <3> QED BY <3>2
  <2> QED
    BY <2>1 DEF IInv, IndexInv, CallInv, HitsInv, SearchStages, SymbolStages, Sources, TypeOK
<1> QED
  BY SpecInductive, <1>1, PTL

\* Every result of a call is of a file indexed at some moment of it; one found by
\* an edge names an edge stored at some moment of the call, between the very
\* definitions it is about, and a handle finds its chunk: of all indexes, orders
\* and interleavings of commits and reads.
THEOREM JustifiedResults == Spec => []ResultsJustified
<1>1. IInv => ResultsJustified
  <2> SUFFICES ASSUME IInv PROVE ResultsJustified
    OBVIOUS
  <2>1. stage = "answered" /\ query.tool = "expand" => reply.rows # <<>>
    BY DEF IInv, CallInv
  <2>2. hits \in Seq(GoodHits)
    BY DEF IInv, HitsInv
  <2>3. ASSUME NEW i \in DOMAIN hits
        PROVE  /\ hits[i].blob \in wasActive
               /\ hits[i].via # None =>
                    /\ hits[i].via.edge \in wasEdge
                    /\ {hits[i].via.edge.src, hits[i].via.edge.dst} = {hits[i].via.of, hits[i].via.id}
                    /\ hits[i].via.id[1] = hits[i].blob
                    /\ hits[i].via.id[2] < hits[i].to /\ hits[i].from < hits[i].via.id[3]
    <3>1. hits[i] \in GoodHits
      BY <2>2
    <3> QED BY <3>1 DEF GoodHits, Ties
  <2> QED
    BY <2>1, <2>3 DEF ResultsJustified
<1> QED
  BY SpecInductive, <1>1, PTL

-----------------------------------------------------------------------------
(* The channels are heard: once the cross-encoder has ranked them, the     *)
(* candidates stay, and neighbours only join them.                         *)

LEMMA ExpandFrame ==
  ASSUME IInv, [Next]_vars, stage' = "expand"
  PROVE  \/ \E o \in Orders : Rerank(o)
         \/ /\ stage = "expand" /\ UNCHANGED <<text, vector, symbolic>>
            /\ hits' = hits \/ \E s \in Seq(GoodHits) : hits' = hits \o s
<1> DEFINE Goal == \/ \E o \in Orders : Rerank(o)
                   \/ /\ stage = "expand" /\ UNCHANGED <<text, vector, symbolic>>
                      /\ hits' = hits \/ \E s \in Seq(GoodHits) : hits' = hits \o s
<1>1. CASE Sync
  <2>1. UNCHANGED <<stage, text, vector, symbolic, hits>>
    BY <1>1 DEF Sync, StartSync, AddBlob, AddChunks, Deactivate, Reactivate, WipeGraph, AddSymbols,
                AddEdges, CrashSync, Commit, channels
  <2> QED BY <2>1
<1>2. CASE \E q \in Queries : Ask(q)
  <2>1. \A q \in Queries : (CASE q.tool = "search" -> "tokens" [] q.tool = "expand" -> "handle"
                              [] OTHER -> "symbol") \in {"tokens", "handle", "symbol"}
    BY Zenon
  <2>2. stage' \in {"tokens", "handle", "symbol"}
    BY <1>2, <2>1, Zenon DEF Ask
  <2> QED BY <2>2
<1>3. CASE \E o \in Orders : SearchText(o) \/ ScanVectors(o) \/ FetchVectors(o)
  BY <1>3 DEF SearchText, ScanVectors, FetchVectors, Goto
<1>4. CASE LookUpToken \/ Route \/ TakeDefinition \/ Routed \/ ReadVecDim \/ FilterVectors \/ SearchTerm \/ TakeMatch
  BY <1>4 DEF LookUpToken, Route, TakeDefinition, Routed, ReadVecDim, FilterVectors, SearchTerm, TakeMatch, Goto
<1>5. CASE ListDefinitions \/ ReadDefinitions \/ ReadIncoming \/ ResolveSource \/ RankSources \/ TakeSource
  BY <1>5 DEF ListDefinitions, ReadDefinitions, ReadIncoming, ResolveSource, RankSources, TakeSource, Goto
<1>6. CASE Answer
  BY <1>6 DEF Answer, PackNext, Packed, Trim, Respond, AnswerRows, Expand, Finish, NoTable, Goto
<1>7. CASE ReadEdges \/ ResolveNeighbor
  BY <1>7 DEF ReadEdges, ResolveNeighbor, channels
<1>8. CASE TakeNeighbor
  <2>1. UNCHANGED <<stage, text, vector, symbolic>>
    BY <1>8 DEF TakeNeighbor, channels
  <2> QED BY <1>8, <2>1, TakeNeighborStep
<1>9. CASE ReadName \/ VisitNode \/ LeaveChunk \/ Expanded
  BY <1>9 DEF ReadName, VisitNode, LeaveChunk, Expanded, Goto, channels
<1>10. CASE \E o \in Orders : Rerank(o)
  BY <1>10
<1>11. CASE UNCHANGED vars
  BY <1>11 DEF vars, channels
<1> QED
  BY <1>1, <1>2, <1>3, <1>4, <1>5, <1>6, <1>7, <1>8, <1>9, <1>10, <1>11, Zenon DEF Next, Read

LEMMA HitsHaveHits ==
  ASSUME IInv, hits' = hits \/ \E s \in Seq(GoodHits) : hits' = hits \o s
  PROVE  HitChunks \subseteq HitChunks'
<1>1. hits \in Seq(GoodHits)
  BY DEF IInv, HitsInv
<1>2. CASE hits' = hits
  BY <1>2 DEF HitChunks
<1>3. CASE \E s \in Seq(GoodHits) : hits' = hits \o s
  <2>1. PICK s \in Seq(GoodHits) : hits' = hits \o s
    BY <1>3
  <2>2. ASSUME NEW i \in DOMAIN hits PROVE i \in DOMAIN hits' /\ hits'[i] = hits[i]
    BY <1>1, <2>1
  <2> QED BY <2>2 DEF HitChunks
<1> QED
  BY <1>2, <1>3

LEMMA RerankHears ==
  ASSUME IInv, NEW o \in Orders, Rerank(o)
  PROVE  ChannelsHeard'
<1> DEFINE top == Prefix(symbolic, SymbolTop)
           pool == Pool(text, vector, top)
           scores == Blend(Shown(o, ToSet(pool)), vector, weight)
           order == Ordered(scores)
           source(c) == IF Contains(top, c) THEN "symbol" ELSE IF Contains(text, c) THEN "bm25" ELSE "vector"
           half == Max({1, ChannelHead \div 2})
<1>1. /\ stage = "symbols"
      /\ hits' = [i \in DOMAIN order |-> Result(order[i], scores[order[i]], source(order[i]), None)]
      /\ symbolic' = top /\ text' = text /\ vector' = vector
  BY DEF Rerank, Goto
<1>2. /\ top \in Seq(SeenChunks) /\ order \in Seq(ToSet(pool)) /\ ToSet(order) = ToSet(pool)
  BY <1>1, RerankOrder
<1>3. HitChunks' = ToSet(pool)
  <2>1. DOMAIN hits' = DOMAIN order /\ \A i \in DOMAIN order : hits'[i].chunk = order[i]
    BY <1>1 DEF Result
  <2>2. ToSet(order) = {order[i] : i \in DOMAIN order}
    BY DEF ToSet
  <2> HIDE DEF order, pool
  <2> QED BY <1>2, <2>1, <2>2 DEF HitChunks
<1>4. ASSUME 2 * ChannelHead + half <= RerankTop
      PROVE  /\ ToSet(Prefix(text, ChannelHead)) \subseteq ToSet(pool)
             /\ ToSet(Prefix(vector, ChannelHead)) \subseteq ToSet(pool)
             /\ ToSet(Prefix(top, half)) \subseteq ToSet(pool)
  <2>1. SeenChunks \subseteq Chunks /\ text \in Seq(SeenChunks) /\ vector \in Seq(SeenChunks)
    BY DEF SeenChunks, IInv, ReadInv
  <2> HIDE DEF top
  <2> QED BY <1>2, <1>4, <2>1, PoolChunks
<1> HIDE DEF pool, top, order, scores
<1> QED
  BY <1>1, <1>3, <1>4 DEF ChannelsHeard

\* While the heads of the channels fit the cross-encoder's window, the best of
\* each channel stays in the answer's candidates, whatever the channels, the
\* cross-encoder and the commits in between make of the others.
THEOREM HeardChannels == Spec => []ChannelsHeard
<1>1. Init => ChannelsHeard
  BY DEF Init, ChannelsHeard
<1>2. IInv /\ ChannelsHeard /\ [Next]_vars => ChannelsHeard'
  <2> SUFFICES ASSUME IInv, ChannelsHeard, [Next]_vars, stage' = "expand"
               PROVE  ChannelsHeard'
    BY DEF ChannelsHeard
  <2>1. CASE \E o \in Orders : Rerank(o)
    BY <2>1, RerankHears
  <2>2. CASE /\ stage = "expand" /\ UNCHANGED <<text, vector, symbolic>>
             /\ hits' = hits \/ \E s \in Seq(GoodHits) : hits' = hits \o s
    <3>1. HitChunks \subseteq HitChunks'
      BY <2>2, HitsHaveHits
    <3> QED BY <2>2, <3>1 DEF ChannelsHeard
  <2> QED BY <2>1, <2>2, ExpandFrame
<1> QED
  BY SpecInductive, <1>1, <1>2, PTL DEF Spec

-----------------------------------------------------------------------------
(* The KNN query: filtered later, it is exact while it read enough.        *)

Once(s) == \A i, j \in DOMAIN s : s[i] = s[j] => i = j

\* An order ranks every chunk once, as it has as many places as there are chunks.
LEMMA OrderOnce ==
  ASSUME NEW o \in Orders
  PROVE  Once(o)
<1>1. /\ o \in Seq(Chunks) /\ ToSet(o) = Chunks /\ Len(o) = Cardinality(Chunks)
      /\ IsFiniteSet(Chunks)
  BY SearchAssumption, SchemaAssumption
<1>2. Len(o) \in Nat /\ DOMAIN o = 1..Len(o) /\ o \in [1..Len(o) -> Chunks]
  BY <1>1, LenProperties
<1>3. o \in Surjection(1..Len(o), Chunks)
  <2>1. \A c \in Chunks : \E i \in 1..Len(o) : o[i] = c
    BY <1>1, <1>2 DEF ToSet
  <2> QED BY <1>2, <2>1 DEF Surjection
<1>4. IsFiniteSet(1..Len(o)) /\ Cardinality(1..Len(o)) = Len(o)
  <2>1. 1 \in Int /\ Len(o) \in Int /\ Len(o) - 1 + 1 = Len(o) /\ (1 > Len(o) => Len(o) = 0)
    BY <1>2
  <2> QED BY <2>1, FS_Interval
<1>5. o \in Injection(1..Len(o), Chunks)
  BY <1>1, <1>3, <1>4, FS_SurjSameCardinalityImpliesInj
<1> QED
  BY <1>2, <1>5 DEF Injection, IsInjective, Once

LEMMA ShownOnce ==
  ASSUME NEW s \in Seq(Chunks), Once(s), NEW S
  PROVE  Once(Shown(s, S))
<1> DEFINE at == {i \in DOMAIN s : s[i] \in S}
           n == Cardinality(at)
<1>1. at \subseteq DOMAIN s /\ Shown(s, S) = Select(s, at)
  BY DEF Shown
<1> HIDE DEF at
<1>2. IsFiniteSet(at) /\ at \subseteq Nat
  BY <1>1, SelectSeqOf
<1>3. n \in Nat
  BY <1>2, FS_CardinalityType
<1>4. PICK p : Picks(p, s, at)
  BY <1>2, Selects
<1>5. Upwards(p, at, n) /\ Select(s, at) = [k \in 1..n |-> s[p[k]]]
  BY <1>4 DEF Picks
<1> HIDE DEF n
<1>6. p \in [1..n -> at] /\ \A k, l \in 1..n : k < l <=> p[k] < p[l]
  BY <1>5 DEF Upwards
<1>7. ASSUME NEW k \in 1..n, NEW l \in 1..n, s[p[k]] = s[p[l]] PROVE k = l
  <2>1. p[k] = p[l]
    BY <1>1, <1>6, <1>7 DEF Once
  <2>2. ~(k < l) /\ ~(l < k)
    BY <1>2, <1>6, <2>1
  <2> QED BY <1>3, <2>2
<1> QED
  BY <1>1, <1>5, <1>7 DEF Once

\* One position of the same rank among fewer.
LEMMA SameRank ==
  ASSUME NEW A, IsFiniteSet(A), A \subseteq Nat, NEW M \in Nat,
         NEW p, Upwards(p, A, Cardinality(A)),
         NEW q, Upwards(q, {i \in A : i <= M}, Cardinality({i \in A : i <= M})),
         NEW k \in 1..Cardinality({i \in A : i <= M})
  PROVE  k \in 1..Cardinality(A) /\ q[k] = p[k] /\ q[k] <= M /\ q[k] \in A
<1> DEFINE B == {i \in A : i <= M}
           n == Cardinality(A)
           m == Cardinality(B)
<1>1. B \in SUBSET A
  OBVIOUS
<1>2. IsFiniteSet(B) /\ m \in Nat /\ n \in Nat /\ m <= n
  <2> HIDE DEF B
  <2> QED BY <1>1, FS_Subset, FS_CardinalityType
<1>3. q[k] \in B /\ Cardinality({j \in B : j < q[k]}) = k - 1
  BY DEF Upwards
<1>4. {j \in A : j < q[k]} = {j \in B : j < q[k]}
  <2>1. q[k] \in Nat /\ q[k] <= M
    BY <1>3
  <2>2. ASSUME NEW j \in A, j < q[k] PROVE j <= M
    BY <2>1, <2>2
  <2> QED BY <2>2
<1>5. \E l \in 1..n : p[l] = q[k]
  BY <1>3 DEF Upwards
<1>6. PICK l \in 1..n : p[l] = q[k]
  BY <1>5
<1>7. Cardinality({j \in A : j < p[l]}) = l - 1
  BY DEF Upwards
<1>8. l - 1 = k - 1
  BY <1>3, <1>4, <1>6, <1>7
<1>9. k \in 1..m
  OBVIOUS
<1>10. q[k] \in A /\ q[k] <= M
  BY <1>3
<1> HIDE DEF n, m, B
<1>11. l = k
  BY <1>2, <1>8, <1>9
<1> QED
  BY <1>6, <1>10, <1>11 DEF n

\* The first V of the wanted, when at most M - V of the first M are not.
LEMMA EnoughRead ==
  ASSUME NEW s \in Seq(Chunks), Once(s), NEW S, NEW V \in Nat, NEW M \in Nat,
         Cardinality(ToSet(s) \ S) <= M - V
  PROVE  Prefix(Shown(Prefix(s, M), S), V) = Prefix(Shown(s, S), V)
<1> DEFINE A == {i \in DOMAIN s : s[i] \in S}
           near == Prefix(s, M)
           B == {i \in DOMAIN near : near[i] \in S}
           C == {i \in A : i <= M}
           n == Cardinality(A)
           m == Cardinality(C)
<1>1. Len(s) \in Nat /\ DOMAIN s = 1..Len(s)
  BY LenProperties
<1>2. /\ near \in Seq(Chunks) /\ Len(near) = Min({M, Len(s)}) /\ DOMAIN near = 1..Len(near)
      /\ Len(near) \in Nat /\ \A i \in 1..Len(near) : near[i] = s[i]
  BY PrefixSeq, LenProperties
<1>3. Len(near) \in {M, Len(s)} /\ Len(near) <= M /\ Len(near) <= Len(s)
  <2> DEFINE N == Len(s)
  <2>1. N \in Int /\ M \in Int /\ Len(near) = Min({M, N})
    BY <1>1, <1>2
  <2> HIDE DEF N, near
  <2>2. Min({M, N}) \in {M, N} /\ Min({M, N}) <= M /\ Min({M, N}) <= N
    BY <2>1, MinMax
  <2> QED BY <2>1, <2>2 DEF N
<1>4. DOMAIN near = {i \in DOMAIN s : i <= M}
  <2>1. \A i : i \in 1..Len(near) <=> i \in 1..Len(s) /\ i <= M
    BY <1>1, <1>2, <1>3
  <2> QED BY <1>1, <1>2, <2>1
<1>5. B = C
  <2>1. \A i \in DOMAIN near : near[i] = s[i]
    BY <1>2
  <2> HIDE DEF near
  <2> QED BY <1>4, <2>1
<1>6. Shown(s, S) = Select(s, A) /\ Shown(near, S) = Select(near, C)
  BY <1>5 DEF Shown
<1>7. A \subseteq DOMAIN s /\ C \in SUBSET A /\ C \subseteq DOMAIN near
  BY <1>4
<1>8. IsFiniteSet(A) /\ A \subseteq Nat /\ IsFiniteSet(C) /\ C \subseteq Nat /\ m \in Nat /\ n \in Nat /\ m <= n
  <2> HIDE DEF A, C, near
  <2>1. IsFiniteSet(A) /\ A \subseteq Nat
    BY <1>7, SelectSeqOf
  <2>2. IsFiniteSet(C) /\ m <= n
    BY <1>7, <2>1, FS_Subset
  <2> QED BY <1>7, <2>1, <2>2, FS_CardinalityType
<1>9. PICK p : Picks(p, s, A)
  <2> HIDE DEF A
  <2> QED BY <1>8, Selects
<1>10. PICK q : Picks(q, near, C)
  <2> HIDE DEF C, near
  <2> QED BY <1>8, Selects
<1>11. /\ Upwards(p, A, n) /\ Select(s, A) = [k \in 1..n |-> s[p[k]]]
       /\ Upwards(q, C, m) /\ Select(near, C) = [k \in 1..m |-> near[q[k]]]
  BY <1>9, <1>10 DEF Picks
<1>12. ASSUME NEW k \in 1..m PROVE k \in 1..n /\ near[q[k]] = s[p[k]]
  <2>1. k \in 1..n /\ q[k] = p[k] /\ q[k] <= M /\ q[k] \in A
    <3> HIDE DEF A
    <3> QED BY <1>8, <1>11, SameRank
  <2>2. q[k] \in DOMAIN near
    BY <1>4, <2>1
  <2>3. near[q[k]] = s[q[k]]
    BY <1>2, <2>2
  <2> QED BY <2>1, <2>3
<1>13. CASE Len(near) = Len(s)
  <2>1. C = A
    BY <1>1, <1>3, <1>4, <1>13
  <2>2. near = s
    <3>1. \A i \in 1..Len(s) : near[i] = s[i]
      BY <1>2, <1>13
    <3> HIDE DEF near
    <3>2. near = [i \in 1..Len(s) |-> near[i]] /\ s = [i \in 1..Len(s) |-> s[i]]
      BY <1>1, <1>2, <1>13, LenProperties
    <3> QED BY <3>1, <3>2
  <2> QED BY <1>6, <2>1, <2>2
<1>14. CASE Len(near) = M
  <2> DEFINE D == (1..M) \ C
  <2>1. M <= Len(s) /\ C \in SUBSET (1..M) /\ 1..M \subseteq DOMAIN s /\ DOMAIN near = 1..M
    BY <1>1, <1>2, <1>3, <1>7, <1>14
  <2>2. IsFiniteSet(1..M) /\ Cardinality(1..M) = M
    <3>1. 1 \in Int /\ M \in Int /\ M - 1 + 1 = M /\ (1 > M => M = 0)
      OBVIOUS
    <3> QED BY <3>1, FS_Interval
  <2>3. IsFiniteSet(D) /\ Cardinality(D) = M - m
    <3> HIDE DEF C
    <3>1. IsFiniteSet((1..M) \ C) /\ Cardinality((1..M) \ C) = Cardinality(1..M) - Cardinality((1..M) \cap C)
      BY <2>2, FS_Difference
    <3>2. (1..M) \cap C = C
      BY <2>1
    <3> QED BY <2>2, <3>1, <3>2
  <2>4. Cardinality(D) <= Cardinality(ToSet(s) \ S)
    <3> DEFINE T == ToSet(s) \ S
               f == [i \in D |-> s[i]]
    <3>1. \A i \in D : i \in DOMAIN s /\ s[i] \in T
      BY <2>1 DEF ToSet
    <3>2. f \in [D -> T] /\ \A i, j \in D : f[i] = f[j] => i = j
      BY <3>1 DEF Once
    <3>3. f \in Injection(D, T)
      <4> HIDE DEF f, D, T
      <4> QED BY <3>2 DEF Injection, IsInjective
    <3>4. IsFiniteSet(T)
      <4>1. T \in SUBSET ToSet(s) /\ IsFiniteSet(ToSet(s))
        BY SeqFinite
      <4> HIDE DEF T
      <4> QED BY <4>1, FS_Subset
    <3> HIDE DEF f, D, T
    <3>5. Cardinality(D) <= Cardinality(T)
      BY <3>3, <3>4, FS_Injection
    <3> QED BY <3>5 DEF T
  <2>5. m >= V /\ n >= V
    <3> DEFINE d == Cardinality(D)
               e == Cardinality(ToSet(s) \ S)
    <3>1. d \in Nat /\ d = M - m /\ d <= e /\ e <= M - V
      BY <2>3, <2>4, FS_CardinalityType
    <3>2. e \in Nat
      <4> DEFINE T == ToSet(s) \ S
      <4>1. T \in SUBSET ToSet(s) /\ IsFiniteSet(ToSet(s))
        BY SeqFinite
      <4> HIDE DEF T
      <4>2. Cardinality(T) \in Nat
        BY <4>1, FS_Subset, FS_CardinalityType
      <4> QED BY <4>2 DEF T
    <3> HIDE DEF d, e, m, n
    <3> QED BY <1>8, <3>1, <3>2
  <2> DEFINE u == Shown(near, S)
             v == Shown(s, S)
  <2>6. /\ u \in Seq(Chunks) /\ Len(u) = m /\ v \in Seq(Chunks) /\ Len(v) = n
    <3>1. Shown(near, S) \in Seq(Chunks) /\ Shown(s, S) \in Seq(Chunks)
      <4> HIDE DEF near
      <4> QED BY <1>2, ShownSeq
    <3>2. Len(Select(near, C)) = m /\ Len(Select(s, A)) = n
      <4> HIDE DEF A, C, near
      <4> QED BY <1>2, <1>7, SelectSeqOf
    <3> QED BY <1>6, <3>1, <3>2
  <2>7. \A k \in 1..m : k \in 1..n /\ u[k] = v[k]
    <3>1. u = [k \in 1..m |-> near[q[k]]] /\ v = [k \in 1..n |-> s[p[k]]]
      BY <1>6, <1>11
    <3> HIDE DEF u, v, m, n, A, C, near, B
    <3> QED BY <1>12, <3>1
  <2> HIDE DEF u, v, m, n, A, C, near, B
  <2>8. Len(Prefix(u, V)) = V /\ Len(Prefix(v, V)) = V
    <3>1. Len(Prefix(u, V)) = Min({V, m}) /\ Len(Prefix(v, V)) = Min({V, n})
      BY <2>6, PrefixSeq
    <3>2. V \in Int /\ m \in Int /\ n \in Int
      BY <1>8
    <3>3. /\ Min({V, m}) \in {V, m} /\ Min({V, m}) <= V
          /\ Min({V, n}) \in {V, n} /\ Min({V, n}) <= V
      BY <3>2, MinMax
    <3>4. Min({V, m}) = V /\ Min({V, n}) = V
      BY <2>5, <3>2, <3>3
    <3> QED BY <3>1, <3>4
  <2>9. /\ Prefix(u, V) \in Seq(Chunks) /\ \A i \in 1..V : Prefix(u, V)[i] = u[i]
        /\ Prefix(v, V) \in Seq(Chunks) /\ \A i \in 1..V : Prefix(v, V)[i] = v[i]
    BY <2>6, <2>8, PrefixSeq
  <2>10. \A i \in 1..V : Prefix(u, V)[i] = Prefix(v, V)[i]
    <3>1. \A i \in 1..V : i \in 1..m
      BY <1>8, <2>5
    <3> QED BY <2>7, <2>9, <3>1
  <2>11. /\ Prefix(u, V) = [i \in 1..V |-> Prefix(u, V)[i]]
         /\ Prefix(v, V) = [i \in 1..V |-> Prefix(v, V)[i]]
    BY <2>8, <2>9, LenProperties
  <2> QED BY <2>10, <2>11 DEF u, v, near
<1> QED
  BY <1>3, <1>13, <1>14

KnnInv == stage = "filter" => Once(distance)

\* The stage of a call moves on by the action of the stage.
LEMMA FilterFrame ==
  ASSUME IInv, [Next]_vars, stage = "filter" \/ stage' = "filter"
  PROVE  \/ stage = "knn" /\ \E o \in Orders : FetchVectors(o)
         \/ FilterVectors
         \/ stage' = "filter" /\ stage = "filter" /\ UNCHANGED distance
<1>1. CASE Sync
  <2>1. UNCHANGED <<stage, distance>>
    BY <1>1 DEF Sync, StartSync, AddBlob, AddChunks, Deactivate, Reactivate, WipeGraph, AddSymbols,
                AddEdges, CrashSync, Commit, channels
  <2> QED BY <2>1
<1>2. CASE \E q \in Queries : Ask(q)
  <2>1. \A q \in Queries : (CASE q.tool = "search" -> "tokens" [] q.tool = "expand" -> "handle"
                              [] OTHER -> "symbol") \in {"tokens", "handle", "symbol"}
    BY Zenon
  <2>2. stage = "idle" /\ stage' \in {"tokens", "handle", "symbol"}
    BY <1>2, <2>1, Zenon DEF Ask
  <2> QED BY <2>2
<1>3. CASE \E o \in Orders : SearchText(o) \/ ScanVectors(o) \/ FetchVectors(o) \/ Rerank(o)
  BY <1>3 DEF SearchText, ScanVectors, FetchVectors, Rerank, Goto
<1>4. CASE LookUpToken \/ Route \/ TakeDefinition \/ Routed \/ ReadVecDim \/ FilterVectors \/ SearchTerm \/ TakeMatch
  BY <1>4 DEF LookUpToken, Route, TakeDefinition, Routed, ReadVecDim, SearchTerm, TakeMatch, Goto
<1>5. CASE ListDefinitions \/ ReadDefinitions \/ ReadIncoming \/ ResolveSource \/ RankSources \/ TakeSource
  BY <1>5 DEF ListDefinitions, ReadDefinitions, ReadIncoming, ResolveSource, RankSources, TakeSource, Goto
<1>6. CASE Answer
  BY <1>6 DEF Answer, PackNext, Packed, Trim, Respond, AnswerRows, Expand, Finish, NoTable, Goto
<1>7. CASE ReadEdges \/ ResolveNeighbor \/ TakeNeighbor
  BY <1>7 DEF ReadEdges, ResolveNeighbor, TakeNeighbor
<1>8. CASE ReadName \/ VisitNode \/ LeaveChunk \/ Expanded
  BY <1>8 DEF ReadName, VisitNode, LeaveChunk, Expanded, Goto
<1>9. CASE UNCHANGED vars
  BY <1>9 DEF vars, channels
<1> QED
  BY <1>1, <1>2, <1>3, <1>4, <1>5, <1>6, <1>7, <1>8, <1>9, Zenon DEF Next, Read

LEMMA KnnKept ==
  ASSUME IInv, KnnInv, [Next]_vars
  PROVE  KnnInv'
<1> SUFFICES ASSUME stage' = "filter" PROVE Once(distance')
  BY DEF KnnInv, Once
<1>1. CASE \E o \in Orders : FetchVectors(o)
  <2>1. PICK o \in Orders : distance' = Shown(o, StoredChunks)
    BY <1>1 DEF FetchVectors
  <2>2. Once(o) /\ o \in Seq(Chunks)
    BY OrderOnce, SearchAssumption
  <2> QED BY <2>1, <2>2, ShownOnce
<1>2. CASE FilterVectors
  BY <1>2 DEF FilterVectors, Goto
<1>3. CASE stage = "filter" /\ UNCHANGED distance
  BY <1>3 DEF KnnInv, Once
<1> QED
  BY <1>1, <1>2, <1>3, FilterFrame

\* The vector channel is exact, as if the KNN query had joined the active blobs,
\* while no more than (OverFetch - 1) * VectorTop of the vectors it read were of
\* inactive blobs; however many commits come between the query and its filter.
THEOREM ExactKnn == Spec => KnnExact
<1>1. Init => KnnInv
  BY DEF Init, KnnInv
<1>2. IInv /\ KnnInv /\ [Next]_vars => KnnInv'
  BY KnnKept
<1>3. IInv /\ KnnInv /\ [Next]_vars =>
        [stage = "filter" /\ stage' = "symbols"
           /\ Cardinality(ToSet(distance) \ ActiveChunks) <= (OverFetch - 1) * VectorTop
         => vector' = BruteForce(distance, ToSet(distance))]_vars
  <2> SUFFICES ASSUME IInv, KnnInv, [Next]_vars, stage = "filter", stage' = "symbols",
                      Cardinality(ToSet(distance) \ ActiveChunks) <= (OverFetch - 1) * VectorTop
               PROVE  vector' = BruteForce(distance, ToSet(distance))
    OBVIOUS
  <2> DEFINE M == OverFetch * VectorTop
  <2>1. FilterVectors
    BY FilterFrame
  <2>2. vector' = Prefix(Shown(Prefix(distance, M), ActiveChunks), VectorTop)
    BY <2>1 DEF FilterVectors
  <2>3. distance \in Seq(Chunks) /\ Once(distance)
    BY DEF IInv, ReadInv, KnnInv
  <2>4. M \in Nat /\ VectorTop \in Nat /\ (OverFetch - 1) * VectorTop = M - VectorTop
    <3>1. PICK o \in Nat, v \in Nat : o = OverFetch /\ v = VectorTop
      BY SearchAssumption
    <3>2. o * v \in Nat /\ (o - 1) * v = o * v - v
      BY <3>1
    <3> QED BY <3>1, <3>2
  <2> HIDE DEF M
  <2>5. vector' = Prefix(Shown(distance, ActiveChunks), VectorTop)
    BY <2>2, <2>3, <2>4, EnoughRead
  <2>6. Shown(distance, ToSet(distance) \cap ActiveChunks) = Shown(distance, ActiveChunks)
    <3>1. {i \in DOMAIN distance : distance[i] \in ToSet(distance) \cap ActiveChunks}
            = {i \in DOMAIN distance : distance[i] \in ActiveChunks}
      BY DEF ToSet
    <3> QED BY <3>1 DEF Shown
  <2> QED BY <2>5, <2>6 DEF BruteForce
<1> QED
  BY SpecInductive, <1>1, <1>2, <1>3, PTL DEF Spec, KnnExact

-----------------------------------------------------------------------------
(* The response: the packed results in the order they are returned, less   *)
(* those that trimming has found not to fit.                               *)

TokensOf(n) == EstimateTokens(Size(Prefix(Returned(packed), n), reply.envelope))

FitInv ==
  stage \in {"trim", "answered"} /\ query.tool = "search" =>
    LET all == Returned(packed)
        n == Len(reply.rows)
    IN  /\ reply = [rows |-> reply.rows, envelope |-> reply.envelope, truncated |-> reply.truncated]
        /\ n \in 0..Len(all) /\ reply.rows = Prefix(all, n)
        /\ \A k \in (n + 1)..Len(all) : ~(TokensOf(k) <= query.budget)
        /\ stage = "answered" => /\ n = 0 \/ TokensOf(n) <= query.budget
                                 /\ reply.truncated > 0 <=> n < Len(all)

\* What is packed, as it is returned.
LEMMA PackedReturned ==
  ASSUME IInv
  PROVE  /\ Returned(packed) \in Seq(packed) /\ Len(Returned(packed)) = Cardinality(packed)
         /\ Len(Returned(packed)) \in Nat
<1>1. packed \in SUBSET ToSet(hits) /\ hits \in Seq(GoodHits)
  BY DEF IInv, HitsInv
<1>2. IsFiniteSet(packed) /\ packed \subseteq GoodHits
  BY <1>1, SeqFinite, FS_Subset
<1>3. ASSUME NEW r \in packed PROVE r.score \in Int /\ r.chunk \in Int
  <2>1. r.score \in Int /\ r.chunk \in Chunks
    BY <1>2 DEF GoodHits, Rows
  <2>2. \A c \in Chunks : c \in Int
    BY SchemaAssumption
  <2> QED BY <2>1, <2>2
<1>4. Lists(Returned(packed), packed)
  BY <1>2, <1>3, ReturnedLists
<1> QED
  BY <1>4, ListsSeq, LenProperties

LEMMA ReplyFrame ==
  ASSUME IInv, [Next]_vars, stage' \in {"trim", "answered"}
  PROVE  \/ \E e \in Envelopes : Packed(e)
         \/ Trim \/ Respond
         \/ query'.tool # "search"
         \/ stage' = stage /\ UNCHANGED <<query, packed, reply>>
<1>1. CASE Sync
  <2>1. UNCHANGED <<stage, query, packer>>
    BY <1>1 DEF Sync, StartSync, AddBlob, AddChunks, Deactivate, Reactivate, WipeGraph, AddSymbols,
                AddEdges, CrashSync, Commit
  <2> QED BY <2>1 DEF packer
<1>2. CASE \E q \in Queries : Ask(q)
  <2>1. \A q \in Queries : (CASE q.tool = "search" -> "tokens" [] q.tool = "expand" -> "handle"
                              [] OTHER -> "symbol") \in {"tokens", "handle", "symbol"}
    BY Zenon
  <2>2. stage' \in {"tokens", "handle", "symbol"}
    BY <1>2, <2>1, Zenon DEF Ask
  <2> QED BY <2>2
<1>3. CASE \E o \in Orders : SearchText(o) \/ ScanVectors(o) \/ FetchVectors(o) \/ Rerank(o)
  BY <1>3 DEF SearchText, ScanVectors, FetchVectors, Rerank, Goto
<1>4. CASE LookUpToken \/ Route \/ TakeDefinition \/ Routed \/ ReadVecDim \/ FilterVectors \/ SearchTerm \/ TakeMatch
  BY <1>4 DEF LookUpToken, Route, TakeDefinition, Routed, ReadVecDim, FilterVectors, SearchTerm, TakeMatch, Goto
<1>5. CASE ListDefinitions \/ ReadDefinitions \/ ReadIncoming \/ ResolveSource \/ RankSources \/ TakeSource
  BY <1>5 DEF ListDefinitions, ReadDefinitions, ReadIncoming, ResolveSource, RankSources, TakeSource, Goto
<1>6. CASE AnswerRows \/ Expand
  <2>1. query' = query /\ query.tool # "search"
    BY <1>6 DEF AnswerRows, Expand, Goto, Call, IInv, CallInv, SymbolStages
  <2> QED BY <2>1
<1>7. CASE PackNext \/ Finish \/ NoTable
  BY <1>7 DEF PackNext, Finish, NoTable, Goto
<1>8. CASE ReadEdges \/ ResolveNeighbor \/ TakeNeighbor
  BY <1>8 DEF ReadEdges, ResolveNeighbor, TakeNeighbor
<1>9. CASE ReadName \/ VisitNode \/ LeaveChunk \/ Expanded
  BY <1>9 DEF ReadName, VisitNode, LeaveChunk, Expanded, Goto
<1>10. CASE UNCHANGED vars
  BY <1>10 DEF vars, packer
<1>11. CASE (\E e \in Envelopes : Packed(e)) \/ Trim \/ Respond
  BY <1>11
<1> QED
  BY <1>1, <1>2, <1>3, <1>4, <1>5, <1>6, <1>7, <1>8, <1>9, <1>10, <1>11, Zenon DEF Next, Read, Answer

\* Dropping the last row of a prefix leaves the next shorter one.
LEMMA FrontOfPrefix ==
  ASSUME NEW S, NEW s \in Seq(S), NEW n \in 1..Len(s)
  PROVE  Front(Prefix(s, n)) = Prefix(s, n - 1) /\ Len(Prefix(s, n)) = n /\ Len(Prefix(s, n - 1)) = n - 1
<1> DEFINE N == Len(s)
           p == Prefix(s, n)
           q == Prefix(s, n - 1)
<1>1. N \in Nat /\ n \in Nat /\ n - 1 \in Nat /\ n <= N
  BY LenProperties
<1>2. Len(p) = Min({n, N}) /\ Len(q) = Min({n - 1, N})
  BY <1>1, PrefixSeq
<1>3. Min({n, N}) = n /\ Min({n - 1, N}) = n - 1
  <2> HIDE DEF N
  <2>1. n \in Int /\ N \in Int /\ n - 1 \in Int
    BY <1>1
  <2>2. Min({n, N}) \in {n, N} /\ Min({n, N}) <= n /\ Min({n - 1, N}) \in {n - 1, N} /\ Min({n - 1, N}) <= n - 1
    BY <2>1, MinMax
  <2> QED BY <1>1, <2>2
<1>4. /\ p \in Seq(S) /\ \A i \in 1..Len(p) : p[i] = s[i]
      /\ q \in Seq(S) /\ \A i \in 1..Len(q) : q[i] = s[i]
  BY <1>1, PrefixSeq
<1>5. Len(p) = n /\ Len(q) = n - 1
  BY <1>2, <1>3
<1> HIDE DEF p, q, N
<1>6. Front(p) = [i \in 1..(n - 1) |-> p[i]]
  BY <1>1, <1>4, <1>5 DEF Front
<1>7. q = [i \in 1..(n - 1) |-> q[i]]
  BY <1>4, <1>5, LenProperties
<1>8. \A i \in 1..(n - 1) : p[i] = q[i]
  <2>1. \A i \in 1..(n - 1) : i \in 1..n
    BY <1>1
  <2> QED BY <1>4, <1>5, <2>1
<1> QED
  BY <1>5, <1>6, <1>7, <1>8 DEF p, q

\* Tokens are counted alike before and after a step that changes neither what is
\* packed, nor the query, nor the envelope.
LEMMA TokensSame ==
  ASSUME query' = query, packed' = packed, reply'.envelope = reply.envelope, NEW k
  PROVE  TokensOf(k)' = TokensOf(k)
BY DEF TokensOf, Size

LEMMA PackedFits ==
  ASSUME IInv, NEW e \in Envelopes, Packed(e)
  PROVE  FitInv'
<1> DEFINE all == Returned(packed)
<1>1. /\ stage' = "trim" /\ packed' = packed
      /\ reply' = [rows |-> all, envelope |-> e, truncated |-> 0]
  BY DEF Packed, Goto
<1>2. all \in Seq(packed) /\ Len(all) \in Nat
  BY PackedReturned
<1>3. Returned(packed)' = all
  BY <1>1
<1> HIDE DEF all
<1>4. reply'.rows = all /\ reply' = [rows |-> reply'.rows, envelope |-> reply'.envelope,
                                      truncated |-> reply'.truncated]
  BY <1>1
<1>5. Prefix(all, Len(all)) = all
  <2> DEFINE n == Len(all)
             p == Prefix(all, n)
  <2>1. n \in Nat /\ n \in Int
    BY <1>2
  <2>2. Min({n, n}) = n
    <3> HIDE DEF n
    <3> QED BY <2>1, MinMax
  <2>3. p \in Seq(packed) /\ Len(p) = n /\ \A i \in 1..n : p[i] = all[i]
    BY <1>2, <2>1, <2>2, PrefixSeq
  <2>4. p = [i \in 1..n |-> p[i]] /\ all = [i \in 1..n |-> all[i]]
    BY <1>2, <2>3, LenProperties
  <2> HIDE DEF n, p
  <2> QED BY <2>3, <2>4 DEF n, p
<1>6. Len(all) \in 0..Len(all) /\ (Len(all) + 1)..Len(all) = {}
  BY <1>2
<1> QED
  BY <1>1, <1>3, <1>4, <1>5, <1>6 DEF FitInv

LEMMA TrimFits ==
  ASSUME IInv, FitInv, Trim
  PROVE  FitInv'
<1> DEFINE all == Returned(packed)
           N == Len(all)
           n == Len(reply.rows)
<1>1. /\ stage = "trim" /\ stage' = "trim" /\ packed' = packed /\ query' = query
      /\ reply.rows # <<>> /\ ~Fits(reply.rows, reply.envelope)
      /\ reply' = [reply EXCEPT !.rows = Front(@)]
      /\ query.tool = "search"
  BY DEF Trim, Goto, Call, IInv, CallInv, SearchStages
<1>2. all \in Seq(packed) /\ N \in Nat
  BY PackedReturned
<1>3. /\ reply = [rows |-> reply.rows, envelope |-> reply.envelope, truncated |-> reply.truncated]
      /\ n \in 0..N /\ reply.rows = Prefix(all, n)
      /\ \A k \in (n + 1)..N : ~(TokensOf(k) <= query.budget)
  BY <1>1 DEF FitInv
<1>4. /\ reply'.rows = Front(reply.rows) /\ reply'.envelope = reply.envelope
      /\ reply' = [rows |-> reply'.rows, envelope |-> reply'.envelope, truncated |-> reply'.truncated]
  BY <1>1, <1>3
<1>5. ~(TokensOf(n) <= query.budget)
  BY <1>1, <1>3 DEF TokensOf, Fits
<1>6. n \in 1..N
  <2>1. n # 0
    <3>1. reply.rows \in Seq(packed)
      <4>1. n \in Nat
        BY <1>2, <1>3
      <4> DEFINE p == Prefix(all, n)
      <4> HIDE DEF all, n
      <4>2. p \in Seq(packed)
        BY <1>2, <4>1, PrefixSeq
      <4> HIDE DEF p
      <4> QED BY <1>3, <4>2 DEF p
    <3> QED BY <1>1, <3>1, EmptySeq
  <2> HIDE DEF n, N
  <2> QED BY <1>2, <1>3, <2>1
<1>7. Returned(packed)' = all
  BY <1>1
<1> HIDE DEF all
<1>8. Front(Prefix(all, n)) = Prefix(all, n - 1) /\ Len(Prefix(all, n - 1)) = n - 1
  <2> HIDE DEF n
  <2> QED BY <1>2, <1>6, FrontOfPrefix
<1>9. reply'.rows = Prefix(all, n - 1) /\ Len(reply'.rows) = n - 1
  BY <1>3, <1>4, <1>8
<1> DEFINE m == n - 1
<1> HIDE DEF N
<1>10. m \in 0..N /\ m + 1 = n
  BY <1>2, <1>6
<1>11. ASSUME NEW k \in (m + 1)..N PROVE ~(TokensOf(k)' <= query'.budget)
  <2>1. TokensOf(k)' = TokensOf(k)
    BY <1>1, <1>4, TokensSame
  <2>2. k = n \/ k \in (n + 1)..N
    BY <1>2, <1>6, <1>10
  <2> QED BY <1>1, <1>3, <1>5, <2>1, <2>2
<1> HIDE DEF n
<1>12. Len(reply'.rows) = m /\ reply'.rows = Prefix(all, m)
  BY <1>9
<1> HIDE DEF m
<1>13. /\ Len(reply'.rows) \in 0..Len(Returned(packed)') /\ reply'.rows = Prefix(Returned(packed)', Len(reply'.rows))
       /\ \A k \in (Len(reply'.rows) + 1)..Len(Returned(packed)') : ~(TokensOf(k)' <= query'.budget)
  BY <1>7, <1>10, <1>11, <1>12 DEF N
<1> QED
  BY <1>1, <1>4, <1>13, Zenon DEF FitInv

LEMMA RespondFits ==
  ASSUME IInv, FitInv, Respond
  PROVE  FitInv'
<1> DEFINE all == Returned(packed)
           N == Len(all)
           n == Len(reply.rows)
<1>1. /\ stage = "trim" /\ stage' = "answered" /\ packed' = packed /\ query' = query
      /\ reply.rows = <<>> \/ Fits(reply.rows, reply.envelope)
      /\ reply' = [reply EXCEPT !.truncated = IF n < Cardinality(packed) THEN TruncatedField ELSE 0]
      /\ query.tool = "search"
  BY DEF Respond, Goto, Call, IInv, CallInv, SearchStages
<1>2. N \in Nat /\ N = Cardinality(packed)
  BY PackedReturned
<1>3. /\ reply = [rows |-> reply.rows, envelope |-> reply.envelope, truncated |-> reply.truncated]
      /\ n \in 0..N /\ reply.rows = Prefix(all, n)
      /\ \A k \in (n + 1)..N : ~(TokensOf(k) <= query.budget)
  BY <1>1 DEF FitInv
<1>4. /\ reply'.rows = reply.rows /\ reply'.envelope = reply.envelope
      /\ reply'.truncated = IF n < N THEN TruncatedField ELSE 0
      /\ reply' = [rows |-> reply'.rows, envelope |-> reply'.envelope, truncated |-> reply'.truncated]
  BY <1>1, <1>2, <1>3
<1>5. n = 0 \/ TokensOf(n) <= query.budget
  <2>1. CASE reply.rows = <<>>
    BY <2>1
  <2>2. CASE Fits(reply.rows, reply.envelope)
    BY <1>3, <2>2 DEF TokensOf, Fits
  <2> QED BY <1>1, <2>1, <2>2
<1>6. reply'.truncated > 0 <=> n < N
  <2>1. TruncatedField > 0 /\ TruncatedField \in Int
    BY SearchAssumption
  <2> HIDE DEF n, N
  <2> QED BY <1>4, <2>1
<1>7. \A k : TokensOf(k)' = TokensOf(k)
  BY <1>1, <1>4, TokensSame
<1>8. Returned(packed)' = all
  BY <1>1
<1> HIDE DEF all, N, n
<1>9. Len(reply'.rows) = n
  BY <1>4 DEF n
<1>10. ASSUME NEW k \in (n + 1)..N PROVE ~(TokensOf(k)' <= query'.budget)
  <2>1. TokensOf(k)' = TokensOf(k)
    BY <1>7
  <2> QED BY <1>1, <1>3, <2>1
<1>11. (Len(reply.rows) = 0 \/ TokensOf(Len(reply.rows)) <= query.budget)'
  <2>1. TokensOf(Len(reply.rows))' = TokensOf(Len(reply.rows))
    BY <1>1, <1>4 DEF TokensOf, Size
  <2>2. Len(reply.rows) = 0 \/ TokensOf(Len(reply.rows)) <= query.budget
    BY <1>5 DEF n
  <2> QED BY <1>1, <1>4, <2>1, <2>2
<1>12. /\ Len(reply'.rows) \in 0..Len(Returned(packed)')
       /\ reply'.rows = Prefix(Returned(packed)', Len(reply'.rows))
       /\ \A k \in (Len(reply'.rows) + 1)..Len(Returned(packed)') : ~(TokensOf(k)' <= query'.budget)
  BY <1>3, <1>4, <1>8, <1>9, <1>10 DEF N
<1>13. reply'.truncated > 0 <=> Len(reply'.rows) < Len(Returned(packed)')
  BY <1>4, <1>6, <1>8, <1>9 DEF N
<1> QED
  BY <1>4, <1>11, <1>12, <1>13, Zenon DEF FitInv

\* The rows of an answered search are the most useful of what was packed, as many
\* as fit the budget with their metadata, and the note that some were left out is
\* there exactly when some were: for all budgets, sizes of rows and envelopes.
THEOREM FittingResponse == Spec => []ResponseFits
<1>1. Init => FitInv
  BY DEF Init, FitInv
<1>2. IInv /\ FitInv /\ [Next]_vars => FitInv'
  <2> SUFFICES ASSUME IInv, FitInv, [Next]_vars, stage' \in {"trim", "answered"}, query'.tool = "search"
               PROVE  FitInv'
    BY DEF FitInv
  <2>1. CASE \E e \in Envelopes : Packed(e)
    BY <2>1, PackedFits
  <2>2. CASE Trim \/ Respond
    BY <2>2, TrimFits, RespondFits
  <2>3. CASE stage' = stage /\ UNCHANGED <<query, packed, reply>>
    <3>1. \A k : TokensOf(k)' = TokensOf(k)
      BY <2>3, TokensSame
    <3>2. Returned(packed)' = Returned(packed)
      BY <2>3
    <3> QED BY <2>3, <3>1, <3>2 DEF FitInv
  <2> QED BY <2>1, <2>2, <2>3, ReplyFrame
<1>3. FitInv => ResponseFits
  BY DEF FitInv, ResponseFits, TokensOf
<1> QED
  BY SpecInductive, <1>1, <1>2, <1>3, PTL DEF Spec

-----------------------------------------------------------------------------
(* What the packer adds up.  The library's sum takes the members of a set  *)
(* in an order of its own; the sum is the same in any.                     *)

First(s) == CHOOSE x \in s : TRUE

\* g is the library's recursion: the sums of f over the subsets of S.
Adds(g, f, S) == g = [s \in SUBSET S |-> IF s = {} THEN 0 ELSE f[First(s)] + g[s \ {First(s)}]]

LEMMA SumIsIter ==
  ASSUME NEW f
  PROVE  SumFunction(f) = (CHOOSE g : Adds(g, f, DOMAIN f))[DOMAIN f]
BY Zenon DEF SumFunction, SumFunctionOnSet, FoldFunctionOnSet, MapThenFoldSet, Adds, First

LEMMA FirstIn ==
  ASSUME NEW S, IsFiniteSet(S), NEW s \in SUBSET S, s # {}
  PROVE  /\ First(s) \in s /\ s \ {First(s)} \in SUBSET S
         /\ IsFiniteSet(s) /\ Cardinality(s) \in Nat
         /\ Cardinality(s \ {First(s)}) = Cardinality(s) - 1 /\ Cardinality(s) > 0
<1>1. First(s) \in s
  BY DEF First
<1>2. IsFiniteSet(s) /\ Cardinality(s) \in Nat
  BY FS_Subset, FS_CardinalityType
<1>3. Cardinality(s \ {First(s)}) = Cardinality(s) - 1
  BY <1>1, <1>2, FS_RemoveElement
<1>4. Cardinality(s) # 0
  BY <1>2, FS_EmptySet
<1> QED
  BY <1>1, <1>2, <1>3, <1>4

LEMMA SumsExist ==
  ASSUME NEW S, IsFiniteSet(S), NEW f \in [S -> Int]
  PROVE  \E g \in [SUBSET S -> Int] : Adds(g, f, S)
<1> DEFINE Up(m) == {s \in SUBSET S : Cardinality(s) <= m}
           Step(g, s) == IF s = {} THEN 0 ELSE f[First(s)] + g[s \ {First(s)}]
           P(m) == \E g \in [Up(m) -> Int] : \A s \in Up(m) : g[s] = Step(g, s)
           Bad == {m \in Nat : ~P(m)}
<1>1. \A s \in SUBSET S : s # {} => /\ First(s) \in S /\ s \ {First(s)} \in SUBSET S
                                    /\ Cardinality(s) \in Nat /\ Cardinality(s) > 0
                                    /\ Cardinality(s \ {First(s)}) = Cardinality(s) - 1
  BY FirstIn
<1>2. ASSUME Bad # {} PROVE FALSE
  <2>1. \E m \in Bad : \A k \in Bad : m <= k
    <3>1. Bad \subseteq Nat
      OBVIOUS
    <3> HIDE DEF Bad
    <3> QED BY <1>2, <3>1, LeastIn
  <2>2. PICK m \in Bad : \A k \in Bad : m <= k
    BY <2>1
  <2>3. CASE m = 0
    <3> DEFINE g == [s \in Up(0) |-> 0]
    <3>1. \A s \in Up(0) : s = {}
      <4> SUFFICES ASSUME NEW s \in SUBSET S, Cardinality(s) <= 0, s # {} PROVE FALSE
        OBVIOUS
      <4>1. Cardinality(s) \in Nat /\ Cardinality(s) > 0
        BY <1>1
      <4> QED BY <4>1
    <3>2. g \in [Up(0) -> Int]
      OBVIOUS
    <3>3. \A s \in Up(0) : g[s] = Step(g, s)
      BY <3>1
    <3>4. P(0)
      <4> HIDE DEF g, Up, Step
      <4> QED BY <3>2, <3>3
    <3> QED BY <2>3, <3>4
  <2>4. CASE m # 0
    <3>1. m - 1 \in Nat /\ m - 1 \notin Bad
      <4>1. m \in Nat
        OBVIOUS
      <4> HIDE DEF Bad
      <4> QED BY <2>2, <2>4, <4>1
    <3>2. P(m - 1)
      BY <3>1
    <3>3. PICK g \in [Up(m - 1) -> Int] : \A s \in Up(m - 1) : g[s] = Step(g, s)
      BY <3>2
    <3> DEFINE h == [s \in Up(m) |-> Step(g, s)]
    <3>4. ASSUME NEW s \in Up(m), s # {} PROVE s \ {First(s)} \in Up(m - 1) /\ s \ {First(s)} \in Up(m)
      <4>1. s \in SUBSET S /\ Cardinality(s) <= m
        OBVIOUS
      <4>2. /\ s \ {First(s)} \in SUBSET S /\ Cardinality(s) \in Nat
            /\ Cardinality(s \ {First(s)}) = Cardinality(s) - 1
        BY <1>1, <3>4, <4>1
      <4>3. Cardinality(s) - 1 <= m - 1 /\ Cardinality(s) - 1 <= m
        BY <3>1, <4>1, <4>2
      <4> QED BY <4>2, <4>3
    <3>5. \A s \in Up(m) : Step(g, s) \in Int
      <4> SUFFICES ASSUME NEW s \in Up(m), s # {} PROVE f[First(s)] + g[s \ {First(s)}] \in Int
        OBVIOUS
      <4>1. First(s) \in S
        BY <1>1
      <4>2. s \ {First(s)} \in Up(m - 1)
        BY <3>4
      <4> HIDE DEF Up
      <4> QED BY <3>3, <4>1, <4>2
    <3>6. h \in [Up(m) -> Int]
      <4> HIDE DEF Step, Up
      <4> QED BY <3>5
    <3>7. \A t \in Up(m) : t \in Up(m - 1) => h[t] = g[t]
      <4> HIDE DEF Step, Up
      <4> QED BY <3>3
    <3>8. ASSUME NEW s \in Up(m) PROVE h[s] = Step(h, s)
      <4>1. h[s] = Step(g, s)
        <5> HIDE DEF Step, Up
        <5> QED OBVIOUS
      <4>2. CASE s = {}
        BY <4>1, <4>2
      <4>3. CASE s # {}
        <5>1. h[s \ {First(s)}] = g[s \ {First(s)}]
          BY <3>4, <3>7, <4>3
        <5> HIDE DEF h, Up
        <5> QED BY <4>1, <4>3, <5>1
      <4> QED BY <4>2, <4>3
    <3>9. P(m)
      <4> HIDE DEF h, Up, Step
      <4> QED BY <3>6, <3>8
    <3> QED BY <3>9
  <2> QED BY <2>3, <2>4
<1> DEFINE n == Cardinality(S)
<1>3. n \in Nat /\ Up(n) = SUBSET S
  <2>1. n \in Nat
    BY FS_CardinalityType
  <2>2. \A s \in SUBSET S : Cardinality(s) <= n
    BY FS_Subset
  <2> QED BY <2>1, <2>2
<1>4. P(n)
  BY <1>2, <1>3
<1>5. PICK g \in [Up(n) -> Int] : \A s \in Up(n) : g[s] = Step(g, s)
  BY <1>4
<1> HIDE DEF Up
<1>6. g \in [SUBSET S -> Int] /\ \A s \in SUBSET S : g[s] = Step(g, s)
  BY <1>3, <1>5
<1>7. g = [s \in SUBSET S |-> Step(g, s)]
  <2> HIDE DEF Step
  <2> QED BY <1>6
<1> QED
  BY <1>6, <1>7, Zenon DEF Adds

\* The sums over subsets of a part are those over subsets of the whole.
LEMMA SumsAgree ==
  ASSUME NEW S, IsFiniteSet(S), NEW f, NEW g, Adds(g, f, S),
         NEW T \in SUBSET S, NEW e, \A x \in T : e[x] = f[x], NEW h, Adds(h, e, T)
  PROVE  \A s \in SUBSET T : h[s] = g[s]
<1> DEFINE Wrong == {s \in SUBSET T : h[s] # g[s]}
           Sizes == {k \in Nat : \E s \in Wrong : Cardinality(s) = k}
<1>1. /\ \A s \in SUBSET S : g[s] = IF s = {} THEN 0 ELSE f[First(s)] + g[s \ {First(s)}]
      /\ \A s \in SUBSET T : h[s] = IF s = {} THEN 0 ELSE e[First(s)] + h[s \ {First(s)}]
  BY DEF Adds
<1>2. SUFFICES ASSUME Wrong # {} PROVE FALSE
  OBVIOUS
<1>3. Sizes \subseteq Nat /\ Sizes # {}
  <2>1. PICK s \in Wrong : TRUE
    BY <1>2
  <2>2. Cardinality(s) \in Nat
    BY FS_Subset, FS_CardinalityType
  <2> QED BY <2>1, <2>2
<1>4. \E k \in Sizes : \A m \in Sizes : k <= m
  <2> HIDE DEF Sizes
  <2> QED BY <1>3, LeastIn
<1>5. PICK k \in Sizes : \A m \in Sizes : k <= m
  BY <1>4
<1>6. PICK s \in Wrong : Cardinality(s) = k
  OBVIOUS
<1>7. s # {}
  BY <1>1
<1>8. /\ First(s) \in s /\ s \ {First(s)} \in SUBSET T
      /\ Cardinality(s \ {First(s)}) = k - 1 /\ k \in Nat /\ k > 0
  BY <1>6, <1>7, FirstIn
<1>9. s \ {First(s)} \notin Wrong
  <2>1. k - 1 \in Nat /\ ~(k <= k - 1)
    BY <1>8
  <2> QED BY <1>5, <1>8, <2>1
<1>10. h[s] = e[First(s)] + h[s \ {First(s)}] /\ g[s] = f[First(s)] + g[s \ {First(s)}]
  BY <1>1, <1>7
<1>11. h[s \ {First(s)}] = g[s \ {First(s)}] /\ e[First(s)] = f[First(s)]
  BY <1>8, <1>9
<1> QED
  BY <1>10, <1>11

\* Any member may be added last.
AnyOrder(g, f, S) == \A s \in SUBSET S : \A r \in s : g[s] = f[r] + g[s \ {r}]

LEMMA SumsAnyOrder ==
  ASSUME NEW S, IsFiniteSet(S), NEW f \in [S -> Int], NEW g \in [SUBSET S -> Int], Adds(g, f, S)
  PROVE  AnyOrder(g, f, S)
<1> DEFINE Wrong == {s \in SUBSET S : \E r \in s : g[s] # f[r] + g[s \ {r}]}
           Sizes == {k \in Nat : \E s \in Wrong : Cardinality(s) = k}
<1>1. \A s \in SUBSET S : g[s] = IF s = {} THEN 0 ELSE f[First(s)] + g[s \ {First(s)}]
  BY DEF Adds
<1>2. SUFFICES ASSUME Wrong # {} PROVE FALSE
  BY DEF AnyOrder
<1>3. Sizes \subseteq Nat /\ Sizes # {}
  <2>1. PICK s \in Wrong : TRUE
    BY <1>2
  <2>2. Cardinality(s) \in Nat
    BY FS_Subset, FS_CardinalityType
  <2> QED BY <2>1, <2>2
<1>4. \E k \in Sizes : \A m \in Sizes : k <= m
  <2> HIDE DEF Sizes
  <2> QED BY <1>3, LeastIn
<1>5. PICK k \in Sizes : \A m \in Sizes : k <= m
  BY <1>4
<1>6. PICK s \in Wrong : Cardinality(s) = k
  OBVIOUS
<1>7. PICK r \in s : g[s] # f[r] + g[s \ {r}]
  OBVIOUS
<1> DEFINE x == First(s)
<1>8. /\ x \in s /\ IsFiniteSet(s)
      /\ Cardinality(s \ {x}) = k - 1 /\ k \in Nat /\ k > 0
  BY <1>6, <1>7, FirstIn
<1>9. g[s] = f[x] + g[s \ {x}]
  BY <1>1, <1>7
<1>10. x # r
  BY <1>7, <1>9
<1> HIDE DEF x
<1>11. Cardinality(s \ {r}) = k - 1
  BY <1>6, <1>7, <1>8, FS_RemoveElement
<1>12. s \ {x} \notin Wrong /\ s \ {r} \notin Wrong
  <2>1. k - 1 \in Nat /\ ~(k <= k - 1)
    BY <1>8
  <2> QED BY <1>5, <1>8, <1>11, <2>1
<1>13. g[s \ {x}] = f[r] + g[(s \ {x}) \ {r}] /\ g[s \ {r}] = f[x] + g[(s \ {r}) \ {x}]
  BY <1>7, <1>8, <1>10, <1>12
<1>14. (s \ {x}) \ {r} = (s \ {r}) \ {x} /\ (s \ {r}) \ {x} \in SUBSET S
  OBVIOUS
<1>15. f[x] \in Int /\ f[r] \in Int /\ g[(s \ {r}) \ {x}] \in Int
  <2>1. x \in S /\ r \in S
    BY <1>8
  <2> QED BY <1>14, <2>1
<1>16. g[s \ {x}] = f[r] + g[(s \ {r}) \ {x}]
  BY <1>13, <1>14
<1> DEFINE rest == g[(s \ {r}) \ {x}]
           a == f[x]
           b == f[r]
<1>17. g[s] = a + (b + rest) /\ g[s \ {r}] = a + rest /\ g[s] # b + g[s \ {r}]
  BY <1>7, <1>9, <1>13, <1>16
<1>18. a \in Int /\ b \in Int /\ rest \in Int
  BY <1>15
<1> HIDE DEF a, b, rest
<1> QED
  BY <1>17, <1>18

SumOver(f, T) == SumFunction([x \in T |-> f[x]])

\* The sum of a function: of nothing, and with one more.
LEMMA SumOneMore ==
  ASSUME NEW S, IsFiniteSet(S), NEW f \in [S -> Int], NEW T \in SUBSET S
  PROVE  /\ SumOver(f, T) \in Int
         /\ T = {} => SumOver(f, T) = 0
         /\ \A r \in T : SumOver(f, T) = f[r] + SumOver(f, T \ {r})
<1>1. PICK g \in [SUBSET S -> Int] : Adds(g, f, S)
  BY SumsExist
<1>2. ASSUME NEW U \in SUBSET S PROVE SumOver(f, U) = g[U]
  <2> DEFINE e == [x \in U |-> f[x]]
             h == CHOOSE h : Adds(h, e, U)
  <2>1. DOMAIN e = U /\ e \in [U -> Int] /\ \A x \in U : e[x] = f[x]
    OBVIOUS
  <2>2. SumFunction(e) = h[U]
    BY <2>1, SumIsIter
  <2> HIDE DEF e
  <2>3. \E k : Adds(k, e, U)
    BY <2>1, FS_Subset, SumsExist
  <2>4. Adds(h, e, U)
    BY <2>3
  <2> HIDE DEF h
  <2>5. h[U] = g[U]
    <3>1. \A x \in U : e[x] = f[x]
      BY <2>1
    <3>2. \A s \in SUBSET U : h[s] = g[s]
      BY <1>1, <2>4, <3>1, SumsAgree, Z3
    <3> QED BY <3>2
  <2> QED BY <2>2, <2>5 DEF e, SumOver
<1>3. g[{}] = 0
  BY <1>1 DEF Adds
<1>4. \A r \in T : g[T] = f[r] + g[T \ {r}]
  <2>1. AnyOrder(g, f, S)
    BY <1>1, SumsAnyOrder
  <2> QED BY <2>1 DEF AnyOrder
<1> QED
  BY <1>2, <1>3, <1>4

-----------------------------------------------------------------------------
(* The packer: what holds of it after the first k results of its order.    *)

Priced(S) == \A r \in S : Cost(r) \in Int /\ Cost(r) > 0

Apart(P) == \A a, b \in P : a # b => ~Overlap(a, b) /\ ~SameCrumb(a, b)

Gone(order, P, t, budget, k) ==
  /\ P \subseteq {order[i] : i \in 1..k} /\ Apart(P)
  /\ t \in Int /\ 0 <= t /\ t <= budget /\ t = SumFunction([h \in P |-> Cost(h)])
  /\ \A h \in P : Cost(h) <= budget
  /\ \A i \in 1..k : order[i] \in P \/ ~Packable(order[i], P, t, budget)
  /\ \A b \in 1..k : Cost(order[b]) <= budget /\ (\A j \in 1..(b - 1) : ~(Cost(order[j]) <= budget))
                       => order[b] \in P

\* One more result packed, at its cost.
LEMMA SumOfCosts ==
  ASSUME NEW S, IsFiniteSet(S), Priced(S), NEW P \in SUBSET S, NEW r \in S, r \notin P
  PROVE  /\ SumFunction([h \in P \cup {r} |-> Cost(h)]) = Cost(r) + SumFunction([h \in P |-> Cost(h)])
         /\ SumFunction([h \in P |-> Cost(h)]) \in Int
         /\ SumFunction([h \in {} |-> Cost(h)]) = 0
<1> DEFINE f == [h \in S |-> Cost(h)]
           Q == P \cup {r}
<1>1. f \in [S -> Int] /\ Q \in SUBSET S /\ {} \in SUBSET S /\ r \in Q
  BY DEF Priced
<1>2. /\ SumFunction([h \in P |-> Cost(h)]) = SumOver(f, P)
      /\ SumFunction([h \in Q |-> Cost(h)]) = SumOver(f, Q)
      /\ SumFunction([h \in {} |-> Cost(h)]) = SumOver(f, {})
      /\ f[r] = Cost(r)
  <2>1. /\ [h \in P |-> Cost(h)] = [h \in P |-> f[h]]
        /\ [h \in Q |-> Cost(h)] = [h \in Q |-> f[h]]
        /\ [h \in {} |-> Cost(h)] = [h \in {} |-> f[h]]
        /\ f[r] = Cost(r)
    OBVIOUS
  <2> QED BY <2>1 DEF SumOver
<1>3. Q \ {r} = P
  OBVIOUS
<1> HIDE DEF f, Q
<1>4. SumOver(f, Q) = f[r] + SumOver(f, Q \ {r})
  BY <1>1, SumOneMore
<1>5. SumOver(f, P) \in Int
  BY <1>1, SumOneMore
<1>6. SumOver(f, {}) = 0
  BY <1>1, SumOneMore
<1> QED
  BY <1>2, <1>3, <1>4, <1>5, <1>6 DEF Q

LEMMA NothingGone ==
  ASSUME NEW budget \in Nat, NEW order
  PROVE  Gone(order, {}, 0, budget, 0)
<1>1. SumFunction([h \in {} |-> Cost(h)]) = 0
  <2>1. IsFiniteSet({}) /\ {} \in SUBSET {}
    BY FS_EmptySet
  <2> DEFINE f == [h \in {} |-> Cost(h)]
  <2>2. f \in [{} -> Int]
    OBVIOUS
  <2>3. [h \in {} |-> f[h]] = f
    OBVIOUS
  <2> HIDE DEF f
  <2>4. SumOver(f, {}) = 0
    BY <2>1, <2>2, SumOneMore
  <2> QED BY <2>3, <2>4 DEF f, SumOver
<1>2. 1..0 = {}
  OBVIOUS
<1> QED
  BY <1>1, <1>2 DEF Gone, Apart

\* What could not be added cannot be when more is packed.
LEMMA PackableLess ==
  ASSUME NEW r, Cost(r) \in Int, NEW P, NEW Q, P \subseteq Q, NEW t \in Int, NEW u \in Int, t <= u,
         NEW budget \in Nat, ~Packable(r, P, t, budget)
  PROVE  ~Packable(r, Q, u, budget)
<1>1. CASE ~(t + Cost(r) <= budget)
  <2>1. ~(u + Cost(r) <= budget)
    BY <1>1
  <2> QED BY <2>1 DEF Packable
<1>2. CASE \E p \in P : ~(~SameCrumb(r, p) /\ ~Overlap(r, p))
  BY <1>2 DEF Packable
<1> QED
  BY <1>1, <1>2 DEF Packable

LEMMA PackOne ==
  ASSUME NEW S, IsFiniteSet(S), Priced(S), NEW order, Lists(order, S),
         NEW budget \in Nat, NEW k \in Nat, k < Cardinality(S),
         NEW P, NEW t, Gone(order, P, t, budget, k)
  PROVE  LET r == order[k + 1]
         IN  IF Packable(r, P, t, budget)
             THEN Gone(order, P \cup {r}, t + Cost(r), budget, k + 1)
             ELSE Gone(order, P, t, budget, k + 1)
<1> DEFINE r == order[k + 1]
           n == Cardinality(S)
           Q == P \cup {r}
           u == t + Cost(r)
<1>1. /\ n \in Nat /\ k + 1 \in 1..n /\ 1..k \subseteq 1..n
      /\ r \in S /\ r \notin {order[i] : i \in 1..k}
  <2>1. n \in Nat /\ k + 1 \in 1..n /\ 1..k \subseteq 1..n
    BY DEF Lists
  <2>2. \A i \in 1..n : order[i] \in S
    BY DEF Lists
  <2>3. ASSUME NEW i \in 1..k PROVE order[i] # order[k + 1]
    <3>1. i \in 1..n /\ i # k + 1
      BY <2>1
    <3> QED BY <2>1, <3>1 DEF Lists
  <2> HIDE DEF n
  <2> QED BY <2>1, <2>2, <2>3
<1>2. /\ P \subseteq {order[i] : i \in 1..k} /\ P \in SUBSET S /\ r \notin P
  <2>1. \A i \in 1..n : order[i] \in S
    BY DEF Lists
  <2> HIDE DEF n, r
  <2> QED BY <1>1, <2>1 DEF Gone
<1>3. Cost(r) \in Int /\ Cost(r) > 0
  BY <1>1 DEF Priced
<1>4. /\ t \in Int /\ 0 <= t /\ t <= budget /\ t = SumFunction([h \in P |-> Cost(h)])
      /\ \A h \in P : Cost(h) <= budget
      /\ Apart(P)
  BY DEF Gone
<1>5. \A i \in 1..k : order[i] \in P \/ ~Packable(order[i], P, t, budget)
  BY DEF Gone
<1>6. \A b \in 1..k : Cost(order[b]) <= budget /\ (\A j \in 1..(b - 1) : ~(Cost(order[j]) <= budget))
                        => order[b] \in P
  BY DEF Gone
<1>7. \A i \in 1..(k + 1) : i \in 1..k \/ i = k + 1
  OBVIOUS
<1>8. 1..k \subseteq 1..(k + 1)
  OBVIOUS
\* The first result the budget can hold is packed: before it, nothing was.
<1>9. ASSUME Cost(r) <= budget, \A j \in 1..k : ~(Cost(order[j]) <= budget)
      PROVE  Packable(r, P, t, budget)
  <2>1. P = {}
    BY <1>2, <1>4, <1>9
  <2>2. t = 0
    BY <1>1, <1>2, <1>4, <2>1, SumOfCosts
  <2> QED BY <1>3, <1>9, <2>1, <2>2 DEF Packable
<1>10. CASE Packable(r, P, t, budget)
  <2>1. u \in Int /\ 0 <= u /\ u <= budget /\ Cost(r) <= budget /\ t <= u
    <3>1. u <= budget
      BY <1>10 DEF Packable
    <3> QED BY <1>3, <1>4, <3>1
  <2>2. u = SumFunction([h \in Q |-> Cost(h)])
    <3>1. SumFunction([h \in Q |-> Cost(h)]) = Cost(r) + SumFunction([h \in P |-> Cost(h)])
      <4> HIDE DEF r
      <4> QED BY <1>1, <1>2, SumOfCosts
    <3> DEFINE sum == SumFunction([h \in Q |-> Cost(h)])
    <3>2. sum = Cost(r) + t
      BY <1>4, <3>1
    <3> HIDE DEF sum, r, Q
    <3>3. u = sum
      BY <1>3, <1>4, <3>2
    <3> QED BY <3>3 DEF sum
  <2>3. Apart(Q)
    <3>1. \A p \in P : ~SameCrumb(r, p) /\ ~Overlap(r, p)
      BY <1>10 DEF Packable
    <3>2. \A p \in P : ~SameCrumb(p, r) /\ ~Overlap(p, r)
      BY <3>1 DEF SameCrumb, Overlap
    <3> HIDE DEF r
    <3> QED BY <1>4, <3>1, <3>2 DEF Apart
  <2>4. Q \subseteq {order[i] : i \in 1..(k + 1)}
    <3>1. k + 1 \in 1..(k + 1)
      OBVIOUS
    <3> QED BY <1>2, <1>8, <3>1
  <2>5. ASSUME NEW i \in 1..(k + 1) PROVE order[i] \in Q \/ ~Packable(order[i], Q, u, budget)
    <3>1. CASE i = k + 1
      BY <3>1
    <3>2. CASE i \in 1..k /\ order[i] \in P
      BY <3>2
    <3>3. CASE i \in 1..k /\ ~Packable(order[i], P, t, budget)
      <4>1. Cost(order[i]) \in Int
        BY <1>1, <3>3 DEF Priced, Lists
      <4> HIDE DEF u, r
      <4>2. P \subseteq Q
        OBVIOUS
      <4> HIDE DEF Q
      <4> QED BY <1>4, <2>1, <3>3, <4>1, <4>2, PackableLess
    <3> QED BY <1>5, <1>7, <3>1, <3>2, <3>3
  <2>6. ASSUME NEW b \in 1..(k + 1), Cost(order[b]) <= budget,
               \A j \in 1..(b - 1) : ~(Cost(order[j]) <= budget)
        PROVE  order[b] \in Q
    BY <1>6, <1>7, <2>6
  <2>7. \A h \in Q : Cost(h) <= budget
    BY <1>4, <2>1
  <2> HIDE DEF u, Q
  <2>8. Gone(order, Q, u, budget, k + 1)
    BY <2>1, <2>2, <2>3, <2>4, <2>5, <2>6, <2>7 DEF Gone
  <2> QED BY <1>10, <2>8 DEF Q, u
<1>11. CASE ~Packable(r, P, t, budget)
  <2>1. P \subseteq {order[i] : i \in 1..(k + 1)}
    BY <1>2, <1>8
  <2>2. \A i \in 1..(k + 1) : order[i] \in P \/ ~Packable(order[i], P, t, budget)
    BY <1>5, <1>7, <1>11
  <2>3. ASSUME NEW b \in 1..(k + 1), Cost(order[b]) <= budget,
               \A j \in 1..(b - 1) : ~(Cost(order[j]) <= budget)
        PROVE  order[b] \in P
    <3>1. CASE b \in 1..k
      BY <1>6, <2>3, <3>1
    <3>2. CASE b = k + 1
      <4>1. b - 1 = k
        BY <3>2
      <4> QED BY <1>9, <1>11, <2>3, <3>2, <4>1
    <3> QED BY <1>7, <3>1, <3>2
  <2>4. Gone(order, P, t, budget, k + 1)
    BY <1>4, <2>1, <2>2, <2>3 DEF Gone
  <2> QED BY <1>11, <2>4
<1> QED
  BY <1>10, <1>11

\* What is left of the packer's order after its first k.
Left(order, rest, n, k) ==
  k \in 0..n /\ Len(rest) = n - k /\ \A i \in 1..(n - k) : rest[i] = order[k + i]

Packing ==
  \E k \in 0..Cardinality(ToSet(hits)) :
    /\ Left(PackOrder(ToSet(hits)), todo, Cardinality(ToSet(hits)), k)
    /\ Gone(PackOrder(ToSet(hits)), packed, total, query.budget, k)

PackStages == {"pack", "trim", "answered"}

PackInv ==
  /\ stage \notin PackStages => total = 0
  /\ stage = "answered" /\ query.tool # "search" => packed = {}
  /\ stage \in PackStages /\ query.tool = "search" => Packing
  /\ stage \in {"trim", "answered"} /\ query.tool = "search" => todo = <<>>

LEMMA PackFrame ==
  ASSUME IInv, [Next]_vars
  PROVE  \/ Routed \/ Expanded \/ PackNext \/ (\E e \in Envelopes : Packed(e)) \/ Trim \/ Respond
         \/ AnswerRows \/ Expand \/ Finish \/ NoTable
         \/ stage \notin PackStages /\ stage' \notin PackStages /\ total' = total
         \/ UNCHANGED <<stage, query, hits, todo, packed, total>>
<1>1. CASE Sync
  <2>1. UNCHANGED <<stage, query, hits, packer>>
    BY <1>1 DEF Sync, StartSync, AddBlob, AddChunks, Deactivate, Reactivate, WipeGraph, AddSymbols,
                AddEdges, CrashSync, Commit
  <2> QED BY <2>1 DEF packer
<1>2. CASE \E q \in Queries : Ask(q)
  <2>1. \A q \in Queries : (CASE q.tool = "search" -> "tokens" [] q.tool = "expand" -> "handle"
                              [] OTHER -> "symbol") \in {"tokens", "handle", "symbol"}
    BY Zenon
  <2>2. stage = "idle" /\ UNCHANGED packer
    BY <1>2 DEF Ask
  <2>3. stage' \in {"tokens", "handle", "symbol"}
    BY <1>2, <2>1, Zenon DEF Ask
  <2> QED BY <2>2, <2>3 DEF packer, PackStages
<1>3. CASE \E o \in Orders : SearchText(o) \/ ScanVectors(o) \/ FetchVectors(o) \/ Rerank(o)
  BY <1>3 DEF SearchText, ScanVectors, FetchVectors, Rerank, Goto, packer, PackStages
<1>4. CASE LookUpToken \/ Route \/ TakeDefinition \/ ReadVecDim \/ FilterVectors \/ SearchTerm \/ TakeMatch
  BY <1>4 DEF LookUpToken, Route, TakeDefinition, ReadVecDim, FilterVectors, SearchTerm, TakeMatch, Goto, packer,
              PackStages
<1>5. CASE ListDefinitions \/ ReadDefinitions \/ ReadIncoming \/ ResolveSource \/ RankSources \/ TakeSource
  BY <1>5 DEF ListDefinitions, ReadDefinitions, ReadIncoming, ResolveSource, RankSources, TakeSource, Goto,
              packer, PackStages
<1>6. CASE ReadEdges \/ ResolveNeighbor \/ TakeNeighbor
  BY <1>6 DEF ReadEdges, ResolveNeighbor, TakeNeighbor, packer, PackStages
<1>7. CASE ReadName \/ VisitNode \/ LeaveChunk
  BY <1>7 DEF ReadName, VisitNode, LeaveChunk, Goto, packer, PackStages
<1>8. CASE UNCHANGED vars
  BY <1>8 DEF vars, packer
<1> QED
  BY <1>1, <1>2, <1>3, <1>4, <1>5, <1>6, <1>7, <1>8, Zenon DEF Next, Read, Answer

\* The order is set: nothing is packed.
LEMMA PackEntered ==
  ASSUME IInv, PackInv, Routed \/ Expanded
  PROVE  PackInv'
<1> DEFINE S == ToSet(hits)
           order == PackOrder(S)
           n == Cardinality(S)
<1>1. /\ stage \in {"define", "expand"} /\ stage' \in {"text", "pack"}
      /\ todo' = order /\ UNCHANGED <<query, hits, packed, total>>
  BY DEF Routed, Expanded, Goto, Call
<1>2. packed = {} /\ total = 0 /\ hits \in Seq(GoodHits) /\ query.budget \in Nat
  <2>1. packed = {} /\ total = 0 /\ hits \in Seq(GoodHits) /\ query \in Queries
    BY <1>1 DEF IInv, HitsInv, CallInv, PackInv, PackStages
  <2> QED BY <2>1, SchemaAssumption
<1>3. Lists(order, S)
  BY <1>2, ToPack
<1>4. Left(order, order, n, 0)
  <2>1. n \in Nat /\ DOMAIN order = 1..n /\ order \in Seq(S)
    BY <1>2, <1>3, ToPack DEF Lists
  <2>2. Len(order) = n
    <3> HIDE DEF order, n, S
    <3> QED BY <2>1, LenProperties
  <2> HIDE DEF order, n, S
  <2> QED BY <2>1, <2>2 DEF Left
<1>5. Gone(order, {}, 0, query.budget, 0)
  BY <1>2, NothingGone
<1>6. 0 \in 0..n
  BY <1>3 DEF Lists
<1>7. Packing'
  BY <1>1, <1>2, <1>4, <1>5, <1>6 DEF Packing
<1> QED
  BY <1>1, <1>2, <1>7 DEF PackInv, PackStages

LEMMA PackNextKeeps ==
  ASSUME IInv, PackInv, PackNext
  PROVE  PackInv'
<1> DEFINE S == ToSet(hits)
           order == PackOrder(S)
           n == Cardinality(S)
           r == todo[1]
<1>1. /\ stage = "pack" /\ stage' = "pack" /\ todo # <<>> /\ todo' = Tail(todo)
      /\ IF Packable(r, packed, total, query.budget)
         THEN packed' = packed \cup {r} /\ total' = total + Cost(r)
         ELSE UNCHANGED <<packed, total>>
      /\ UNCHANGED <<query, hits>>
  BY DEF PackNext, Goto, Call
<1>2. /\ hits \in Seq(GoodHits) /\ query.budget \in Nat /\ query.tool = "search"
      /\ todo \in Seq(S)
  <2>1. hits \in Seq(GoodHits) /\ query \in Queries /\ query.tool = "search" /\ todo \in Seq(S)
    BY <1>1 DEF IInv, HitsInv, CallInv, SearchStages
  <2> QED BY <2>1, SchemaAssumption
<1>3. Lists(order, S)
  BY <1>2, ToPack
<1>4. IsFiniteSet(S) /\ Priced(S)
  <2>1. IsFiniteSet(S) /\ S \subseteq GoodHits
    BY <1>2, SeqFinite
  <2>2. ASSUME NEW x \in S PROVE Cost(x) \in Int /\ Cost(x) > 0
    <3>1. x.cost \in Int
      BY <2>1 DEF GoodHits, Rows
    <3> QED BY <3>1, CostPositive
  <2> QED BY <2>1, <2>2 DEF Priced
<1>5. PICK k \in 0..n : Left(order, todo, n, k) /\ Gone(order, packed, total, query.budget, k)
  BY <1>1, <1>2 DEF PackInv, PackStages, Packing
<1>6. n \in Nat /\ Len(todo) \in Nat /\ Len(todo) # 0
  BY <1>1, <1>2, <1>3, LenProperties, EmptySeq DEF Lists
<1> HIDE DEF S, order, n, r
<1>7. k \in Nat /\ k < n /\ r = order[k + 1]
  <2>1. k \in Nat /\ Len(todo) = n - k /\ \A i \in 1..(n - k) : todo[i] = order[k + i]
    BY <1>5, <1>6 DEF Left
  <2>2. k < n /\ 1 \in 1..(n - k)
    BY <1>6, <2>1
  <2> QED BY <2>1, <2>2 DEF r
<1>8. Left(order, todo', n, k + 1)
  <2>1. Len(todo) = n - k /\ \A i \in 1..(n - k) : todo[i] = order[k + i]
    BY <1>5 DEF Left
  <2>2. /\ Len(todo') = Len(todo) - 1
        /\ \A i \in 1..(Len(todo) - 1) : todo'[i] = todo[i + 1]
    BY <1>1, <1>2, <1>6, HeadTailProperties
  <2>3. k + 1 \in 0..n /\ Len(todo') = n - (k + 1)
    BY <1>6, <1>7, <2>1, <2>2
  <2>4. ASSUME NEW i \in 1..(n - (k + 1)) PROVE todo'[i] = order[(k + 1) + i]
    <3>1. i \in 1..(Len(todo) - 1) /\ i + 1 \in 1..(n - k) /\ k + (i + 1) = (k + 1) + i
      BY <1>6, <1>7, <2>1
    <3>2. todo'[i] = todo[i + 1] /\ todo[i + 1] = order[k + (i + 1)]
      BY <2>1, <2>2, <3>1
    <3> QED BY <3>1, <3>2
  <2> QED BY <2>3, <2>4 DEF Left
<1>9. Gone(order, packed', total', query.budget, k + 1)
  <2>1. IF Packable(r, packed, total, query.budget)
        THEN Gone(order, packed \cup {r}, total + Cost(r), query.budget, k + 1)
        ELSE Gone(order, packed, total, query.budget, k + 1)
    BY <1>2, <1>3, <1>4, <1>5, <1>7, PackOne DEF n
  <2> QED BY <1>1, <2>1, Zenon
<1>10. k + 1 \in 0..n
  BY <1>6, <1>7
<1>11. Packing'
  <2>1. \E j \in 0..n : Left(order, todo', n, j) /\ Gone(order, packed', total', query.budget, j)
    BY <1>8, <1>9, <1>10
  <2> QED BY <1>1, <2>1 DEF Packing, S, order, n
<1> QED
  BY <1>1, <1>11 DEF PackInv, PackStages

LEMMA PackInvKept ==
  ASSUME IInv, PackInv, [Next]_vars
  PROVE  PackInv'
<1>1. CASE Routed \/ Expanded
  BY <1>1, PackEntered
<1>2. CASE PackNext
  BY <1>2, PackNextKeeps
<1>3. CASE (\E e \in Envelopes : Packed(e)) \/ Trim \/ Respond
  <2>1. /\ stage \in {"pack", "trim"} /\ stage' \in {"trim", "answered"}
        /\ UNCHANGED <<query, hits, todo, packed, total>>
        /\ stage = "pack" => todo = <<>>
    BY <1>3 DEF Packed, Trim, Respond, Goto, Call
  <2>2. query.tool = "search"
    BY <2>1 DEF IInv, CallInv, SearchStages
  <2>3. Packing'
    BY <2>1, <2>2 DEF PackInv, PackStages, Packing
  <2> QED BY <2>1, <2>2, <2>3 DEF PackInv, PackStages
<1>4. CASE AnswerRows \/ Expand
  <2>1. /\ stage \in {"sources", "handle"} /\ stage' = "answered"
        /\ UNCHANGED <<query, hits, todo, packed, total>>
    BY <1>4 DEF AnswerRows, Expand, Goto, Call
  <2>2. query.tool # "search" /\ packed = {}
    BY <2>1 DEF IInv, CallInv, SymbolStages, HitsInv
  <2> QED BY <2>1, <2>2 DEF PackInv, PackStages
<1>5. CASE Finish \/ NoTable
  BY <1>5 DEF Finish, NoTable, Return, Goto, PackInv, PackStages
<1>6. CASE stage \notin PackStages /\ stage' \notin PackStages /\ total' = total
  BY <1>6 DEF PackInv, PackStages
<1>7. CASE UNCHANGED <<stage, query, hits, todo, packed, total>>
  BY <1>7 DEF PackInv, Packing
<1> QED
  BY <1>1, <1>2, <1>3, <1>4, <1>5, <1>6, <1>7, PackFrame

\* When the order has been gone through, what Gone says of it is said of all.
LEMMA AllGone ==
  ASSUME NEW S, IsFiniteSet(S), NEW order, Lists(order, S),
         NEW budget \in Nat, Priced(S), NEW P, NEW t, Gone(order, P, t, budget, Cardinality(S))
  PROVE  LET best == Select(order, {i \in DOMAIN order : Cost(order[i]) <= budget})
         IN  /\ \A h \in S \ P : ~Packable(h, P, t, budget)
             /\ best # <<>> => best[1] \in P
<1> DEFINE n == Cardinality(S)
           at == {i \in DOMAIN order : Cost(order[i]) <= budget}
           m == Cardinality(at)
           best == Select(order, at)
<1>1. n \in Nat /\ DOMAIN order = 1..n /\ \A x \in S : \E i \in 1..n : order[i] = x
  BY DEF Lists
<1>2. \A h \in S \ P : ~Packable(h, P, t, budget)
  <2>1. \A i \in 1..n : order[i] \in P \/ ~Packable(order[i], P, t, budget)
    BY DEF Gone
  <2> HIDE DEF n
  <2> QED BY <1>1, <2>1
<1>3. IsFiniteSet(at) /\ at \subseteq Nat /\ at \subseteq 1..n
  <2>1. at \subseteq 1..n
    BY <1>1
  <2>2. 1..n \subseteq Nat
    OBVIOUS
  <2>3. IsFiniteSet(1..n)
    <3>1. 1 \in Int /\ n \in Int
      BY <1>1
    <3> QED BY <3>1, FS_Interval
  <2> HIDE DEF at, n
  <2> QED BY <2>1, <2>2, <2>3, FS_Subset
<1>4. \A i \in at : Cost(order[i]) <= budget
  OBVIOUS
<1>5. \A i \in 1..n : Cost(order[i]) <= budget => i \in at
  BY <1>1
<1>6. PICK p : Picks(p, order, at)
  <2> HIDE DEF at
  <2> QED BY <1>3, Selects
<1>7. m \in Nat
  BY <1>3, FS_CardinalityType
<1>8. best = [k \in 1..m |-> order[p[k]]] /\ Upwards(p, at, m)
  BY <1>6 DEF Picks
<1> HIDE DEF at, m, best
<1>9. ASSUME best # <<>> PROVE best[1] \in P
  <2>1. 1 \in 1..m
    <3>1. CASE m = 0
      <4>1. 1..m = {} /\ DOMAIN best = 1..m
        BY <1>8, <3>1
      <4>2. best = <<>>
        BY <1>8, <4>1
      <4> QED BY <1>9, <4>2
    <3> QED BY <1>7, <3>1
  <2>2. best[1] = order[p[1]]
    BY <1>8, <2>1
  <2>3. /\ p[1] \in at /\ \A i \in at : \E k \in 1..m : p[k] = i
        /\ \A k, l \in 1..m : k < l <=> p[k] < p[l]
    BY <1>8, <2>1 DEF Upwards
  <2>4. ASSUME NEW j \in 1..(p[1] - 1) PROVE ~(Cost(order[j]) <= budget)
    <3>1. p[1] \in 1..n /\ j \in 1..n /\ j < p[1]
      <4>1. p[1] \in 1..n
        BY <1>3, <2>3
      <4> DEFINE b == p[1]
      <4> HIDE DEF b, n
      <4> QED BY <1>1, <2>4, <4>1 DEF b
    <3>2. j \notin at
      <4>1. SUFFICES ASSUME j \in at PROVE FALSE
        OBVIOUS
      <4>2. PICK k \in 1..m : p[k] = j
        BY <2>3, <4>1
      <4>3. k < 1
        BY <2>1, <2>3, <3>1, <4>2
      <4> QED BY <4>2, <4>3
    <3> QED BY <1>5, <3>1, <3>2
  <2>5. p[1] \in 1..n /\ Cost(order[p[1]]) <= budget
    BY <1>3, <1>4, <2>3
  <2>6. \A b \in 1..n : Cost(order[b]) <= budget /\ (\A j \in 1..(b - 1) : ~(Cost(order[j]) <= budget))
                          => order[b] \in P
    BY DEF Gone
  <2> DEFINE b == p[1]
  <2> HIDE DEF b, n
  <2>7. order[b] \in P
    BY <2>4, <2>5, <2>6 DEF b
  <2> QED BY <2>2, <2>7 DEF b
<1> QED
  BY <1>2, <1>9 DEF best, at

\* The results of a search that have been packed cost no more than the budget, what
\* they are said to cost; none repeats another; and when all have been looked at,
\* nothing that was left out could still be added, and the densest result that the
\* budget can hold at all is in: for all budgets, costs and rankings.
THEOREM WellPacked == Spec => []PackedWell
<1>1. Init => PackInv
  BY DEF Init, PackInv, PackStages
<1>2. IInv /\ PackInv /\ [Next]_vars => PackInv'
  BY PackInvKept
<1>3. IInv /\ PackInv => PackedWell
  <2> SUFFICES ASSUME IInv, PackInv PROVE PackedWell
    OBVIOUS
  <2> DEFINE S == ToSet(hits)
             order == PackOrder(S)
             n == Cardinality(S)
             best == Select(order, {i \in DOMAIN order : Cost(order[i]) <= query.budget})
  <2>1. /\ hits \in Seq(GoodHits)
        /\ query # None => query.budget \in Nat
        /\ stage \notin PackStages => packed = {} /\ total = 0
    <3>1. /\ hits \in Seq(GoodHits)
          /\ query # None => query \in Queries
      BY DEF IInv, HitsInv, CallInv
    <3>2. stage \notin PackStages => packed = {} /\ total = 0
      BY DEF IInv, HitsInv, PackInv, PackStages
    <3> QED BY <3>1, <3>2, SchemaAssumption
  <2>2. CASE stage \in PackStages /\ query.tool = "search"
    <3>1. PICK k \in 0..n : Left(order, todo, n, k) /\ Gone(order, packed, total, query.budget, k)
      BY <2>2 DEF PackInv, Packing
    <3>2. WithinBudget /\ Unrepeated
      BY <3>1 DEF Gone, Apart, WithinBudget, Unrepeated
    <3>3. total = SumFunction([h \in packed |-> Cost(h)])
      BY <3>1 DEF Gone
    <3>4. ASSUME stage \in {"trim", "answered"}
          PROVE  /\ \A h \in S \ packed : ~Packable(h, packed, total, query.budget)
                 /\ best # <<>> => best[1] \in packed
      <4>1. Lists(order, S) /\ IsFiniteSet(S) /\ S \subseteq GoodHits
        BY <2>1, ToPack, SeqFinite
      <4>2. Priced(S)
        <5>1. ASSUME NEW x \in S PROVE Cost(x) \in Int /\ Cost(x) > 0
          <6>1. x.cost \in Int
            BY <4>1 DEF GoodHits, Rows
          <6> QED BY <6>1, CostPositive
        <5> QED BY <5>1 DEF Priced
      <4>3. k = n
        <5>1. todo = <<>>
          BY <2>2, <3>4 DEF PackInv
        <5>2. Len(todo) = n - k /\ k \in 0..n /\ n \in Nat
          BY <3>1, <4>1 DEF Left, Lists
        <5> HIDE DEF n
        <5> QED BY <5>1, <5>2
      <4>4. query.budget \in Nat
        <5>1. stage # "idle" /\ query # None
          BY <2>2 DEF IInv, CallInv, PackStages
        <5> QED BY <2>1, <5>1
      <4>5. Gone(order, packed, total, query.budget, n)
        BY <3>1, <4>3
      <4> HIDE DEF order, S
      <4> QED BY <4>1, <4>2, <4>4, <4>5, AllGone
    <3> QED BY <3>2, <3>3, <3>4, Zenon DEF PackedWell
  <2>3. CASE stage \in PackStages /\ query.tool # "search"
    <3>1. packed = {}
      BY <2>3 DEF IInv, CallInv, SearchStages, PackInv, PackStages
    <3> QED BY <2>3, <3>1 DEF PackedWell, WithinBudget, Unrepeated
  <2>4. CASE stage \notin PackStages
    <3>1. query # None => 0 <= query.budget
      BY <2>1
    <3> QED BY <2>1, <2>4, <3>1 DEF PackedWell, WithinBudget, Unrepeated, PackStages
  <2> QED BY <2>2, <2>3, <2>4
<1> QED
  BY SpecInductive, <1>1, <1>2, <1>3, PTL DEF Spec
=============================================================================
