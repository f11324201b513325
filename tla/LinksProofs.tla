---------------------------- MODULE LinksProofs ----------------------------
(***************************************************************************)
(* What the list operators of Links do to a tidy list: the lemmas the      *)
(* proofs about the kernel's queues rest on.                               *)
(***************************************************************************)
EXTENDS Links, TLAPS, SequenceTheorems, WellFoundedInduction

(* Induction over numbers, by sets: a set of numbers has a least one...     *)
LEMMA LeastNumber ==
    ASSUME NEW T, T \subseteq Nat, T # {}
    PROVE  \E x \in T : \A y \in T : x <= y
<1> DEFINE R == OpToRel(<, Nat)
<1>1. \E x \in T : \A y \in T : ~ (<<y, x>> \in R)
  <2>1. IsWellFoundedOn(R, Nat)
    BY NatLessThanWellFounded
  <2> HIDE DEF R
  <2> QED BY <2>1, WFMin
<1>2. \A x, y \in Nat : y < x => <<y, x>> \in R
  BY DEF OpToRel
<1> HIDE DEF R
<1>3. PICK x \in T : \A y \in T : ~ (<<y, x>> \in R)
  BY <1>1
<1>4. ASSUME NEW y \in T PROVE x <= y
  <2>1. ~(<<y, x>> \in R) /\ x \in Nat /\ y \in Nat
    BY <1>3
  <2>2. ~(y < x)
    BY <1>2, <2>1
  <2> QED BY <2>1, <2>2
<1> QED BY <1>3, <1>4

(* ... so that a set that holds 0, and with each number up to n the next,  *)
(* holds all of them.                                                      *)
LEMMA InductOn ==
    ASSUME NEW T, NEW n \in Nat, 0 \in T, \A i \in 1 .. n : i - 1 \in T => i \in T
    PROVE  0 .. n \subseteq T
<1> DEFINE U == (0 .. n) \ T
<1> SUFFICES ASSUME U # {} PROVE FALSE
  OBVIOUS
<1>1. U \subseteq Nat
  OBVIOUS
<1> HIDE DEF U
<1>2. PICK x \in U : \A y \in U : x <= y
  BY <1>1, LeastNumber
<1>3. x \in 1 .. n /\ x \notin T
  BY <1>2 DEF U
<1>4. x - 1 \in U
  BY <1>3 DEF U
<1>5. x <= x - 1
  BY <1>2, <1>4
<1> QED BY <1>3, <1>5

-----------------------------------------------------------------------------
(* A list is empty exactly if it has no elements, and the first element of *)
(* a list is one of its elements (PR_CLIST_IS_EMPTY, list.next).           *)
LEMMA HeadLemma ==
    ASSUME NEW S, NEW list \in Seq(S)
    PROVE  /\ ToSet(list) \subseteq S
           /\ list = <<>> <=> ToSet(list) = {}
           /\ list # <<>> => Head(list) \in ToSet(list)
<1>1. DOMAIN list = 1 .. Len(list) /\ Len(list) \in Nat
  BY LenProperties
<1>2. ToSet(list) \subseteq S
  BY <1>1, ElementOfSeq DEF ToSet
<1>3. list # <<>> => 1 \in DOMAIN list /\ Head(list) = list[1]
  BY <1>1, EmptySeq
<1>4. list = <<>> => ToSet(list) = {}
  BY <1>1 DEF ToSet
<1> QED BY <1>2, <1>3, <1>4 DEF ToSet

(* What is left of a tidy list without one of its elements: the others, in *)
(* the same order...                                                       *)
LEMMA WithoutIndexes ==
    ASSUME NEW S, NEW list \in Seq(S), IsTidy(list), NEW k \in 1 .. Len(list)
    PROVE  /\ Without(list, list[k]) \in Seq(S) /\ Len(Without(list, list[k])) = Len(list) - 1
           /\ \A i \in 1 .. Len(list) - 1 :
                Without(list, list[k])[i] = IF i < k THEN list[i] ELSE list[i + 1]
<1> DEFINE n == Len(list)
           I == {i \in 1 .. n : list[i] = list[k]}
           w == RemoveAt(list, k)
<1>1. DOMAIN list = 1 .. n /\ n \in Nat /\ \A i \in 1 .. n : list[i] \in S
  BY LenProperties, ElementOfSeq
<1>2. I = {k}
  BY <1>1 DEF IsTidy, IsInjective
<1>3. Min(I) = k
  BY <1>1, <1>2 DEF Min
<1>4. SelectInSeq(list, LAMBDA v : v = list[k]) = k
  BY <1>2, <1>3 DEF SelectInSeq
<1>5. Without(list, list[k]) = w
  BY <1>4 DEF Without, RemoveFirst
<1>6. /\ w \in Seq(S) /\ Len(w) = n - 1
      /\ \A i \in 1 .. n - 1 : w[i] = IF i < k THEN list[i] ELSE list[i + 1]
  <2> DEFINE a == SubSeq(list, 1, k - 1)
             b == SubSeq(list, k + 1, n)
  <2>1. a \in Seq(S) /\ Len(a) = k - 1 /\ \A i \in 1 .. k - 1 : a[i] = list[i]
    BY <1>1, SubSeqProperties
  <2>2. b \in Seq(S) /\ Len(b) = n - k /\ \A i \in 1 .. n - k : b[i] = list[k + i]
    <3>1. k + 1 \in Int /\ n \in Int /\ \A i \in k + 1 .. n : list[i] \in S
      BY <1>1
    <3>2. /\ b \in Seq(S) /\ Len(b) = IF k + 1 <= n THEN n - (k + 1) + 1 ELSE 0
          /\ \A i \in 1 .. n - (k + 1) + 1 : b[i] = list[(k + 1) + i - 1]
      BY <3>1, SubSeqProperties
    <3> HIDE DEF b
    <3>3. Len(b) = n - k
      <4>1. n \in Nat /\ k \in Nat /\ k <= n
        BY <1>1
      <4>2. (k + 1 <= n => n - (k + 1) + 1 = n - k) /\ (~(k + 1 <= n) => 0 = n - k)
        BY <4>1
      <4> QED BY <3>2, <4>2
    <3>4. ASSUME NEW i \in 1 .. n - k PROVE b[i] = list[k + i]
      <4>1. i \in 1 .. n - (k + 1) + 1 /\ (k + 1) + i - 1 = k + i
        BY <1>1
      <4> QED BY <4>1, <3>2
    <3> QED BY <3>2, <3>3, <3>4
  <2>3. w = a \o b
    BY DEF RemoveAt
  <2> HIDE DEF a, b
  <2>4. /\ a \o b \in Seq(S) /\ Len(a \o b) = n - 1
        /\ \A i \in 1 .. n - 1 : (a \o b)[i] = IF i <= k - 1 THEN a[i] ELSE b[i - (k - 1)]
    <3>1. /\ a \o b \in Seq(S) /\ Len(a \o b) = Len(a) + Len(b)
          /\ \A i \in 1 .. Len(a) + Len(b) :
               (a \o b)[i] = IF i <= Len(a) THEN a[i] ELSE b[i - Len(a)]
      BY <2>1, <2>2, ConcatProperties
    <3>2. Len(a) + Len(b) = n - 1
      BY <2>1, <2>2, <1>1
    <3> QED BY <3>1, <3>2, <2>1
  <2>5. ASSUME NEW i \in 1 .. n - 1
        PROVE  (a \o b)[i] = IF i < k THEN list[i] ELSE list[i + 1]
    <3>1. CASE i < k
      <4>1. i \in 1 .. k - 1 /\ i <= k - 1
        BY <3>1, <1>1
      <4> QED BY <4>1, <3>1, <2>1, <2>4
    <3>2. CASE i >= k
      <4>1. i - (k - 1) \in 1 .. n - k /\ k + (i - (k - 1)) = i + 1 /\ ~(i <= k - 1)
        BY <3>2, <1>1
      <4> QED BY <4>1, <3>2, <2>2, <2>4
    <3>3. i < k \/ i >= k
      BY <1>1
    <3> QED BY <3>1, <3>2, <3>3
  <2> QED BY <2>3, <2>4, <2>5
<1> QED BY <1>5, <1>6

(* PR_REMOVE_LINK takes the one link of e out of a list that holds no      *)
(* element twice, and nothing else.                                        *)
LEMMA WithoutLemma ==
    ASSUME NEW S, NEW list \in Seq(S), IsTidy(list), NEW e
    PROVE  /\ Without(list, e) \in Seq(S)
           /\ IsTidy(Without(list, e))
           /\ ToSet(Without(list, e)) = ToSet(list) \ {e}
           /\ Len(Without(list, e)) <= Len(list)
<1> DEFINE n == Len(list)
<1>1. DOMAIN list = 1 .. n /\ n \in Nat /\ \A i \in 1 .. n : list[i] \in S
  BY LenProperties, ElementOfSeq
<1>2. CASE ~ \E i \in 1 .. n : list[i] = e
  BY <1>1, <1>2 DEF Without, RemoveFirst, ToSet
<1>3. ASSUME NEW k \in 1 .. n, list[k] = e
      PROVE  /\ Without(list, e) \in Seq(S)
             /\ IsTidy(Without(list, e))
             /\ ToSet(Without(list, e)) = ToSet(list) \ {e}
             /\ Len(Without(list, e)) <= Len(list)
  <2> DEFINE w == Without(list, e)
  <2>1. /\ w \in Seq(S) /\ Len(w) = n - 1
        /\ \A i \in 1 .. n - 1 : w[i] = IF i < k THEN list[i] ELSE list[i + 1]
    BY <1>3, WithoutIndexes
  <2>2. DOMAIN w = 1 .. n - 1
    BY <2>1, LenProperties
  <2> HIDE DEF w
  <2>3. IsTidy(w)
    <3>1. ASSUME NEW i \in 1 .. n - 1, NEW j \in 1 .. n - 1, w[i] = w[j]
          PROVE  i = j
      <4>1. PICK g \in 1 .. n : g = IF i < k THEN i ELSE i + 1
        BY <1>1
      <4>2. PICK h \in 1 .. n : h = IF j < k THEN j ELSE j + 1
        BY <1>1
      <4>3. list[g] = list[h]
        BY <2>1, <3>1, <4>1, <4>2
      <4>4. g = h
        BY <1>1, <4>3 DEF IsTidy, IsInjective
      <4> QED BY <1>1, <4>1, <4>2, <4>4
    <3> QED BY <2>2, <3>1 DEF IsTidy, IsInjective
  <2>4. ToSet(w) = ToSet(list) \ {e}
    <3>1. ASSUME NEW x \in ToSet(w) PROVE x \in ToSet(list) \ {e}
      <4>1. PICK i \in 1 .. n - 1 : w[i] = x
        BY <2>2 DEF ToSet
      <4>2. PICK j \in 1 .. n : j # k /\ list[j] = x
        BY <4>1, <2>1, <1>1
      <4> QED BY <4>2, <1>1, <1>3 DEF IsTidy, IsInjective, ToSet
    <3>2. ASSUME NEW x \in ToSet(list) \ {e} PROVE x \in ToSet(w)
      <4>1. PICK j \in 1 .. n : list[j] = x /\ j # k
        BY <1>1, <1>3 DEF ToSet
      <4>2. CASE j < k
        <5>1. j \in 1 .. n - 1 /\ w[j] = x
          BY <4>1, <4>2, <2>1, <1>1
        <5> QED BY <5>1, <2>2 DEF ToSet
      <4>3. CASE j > k
        <5>1. j - 1 \in 1 .. n - 1 /\ ~(j - 1 < k) /\ (j - 1) + 1 = j
          BY <4>1, <4>3, <1>1
        <5>2. w[j - 1] = x
          BY <5>1, <4>1, <2>1
        <5> QED BY <5>1, <5>2, <2>2 DEF ToSet
      <4> QED BY <4>1, <4>2, <4>3, <1>1
    <3> QED BY <3>1, <3>2
  <2>5. Len(w) <= Len(list)
    BY <1>1, <2>1
  <2> QED BY <2>1, <2>3, <2>4, <2>5 DEF w
<1> QED BY <1>2, <1>3

(* What is left of a tidy list when its head is taken off.                 *)
LEMMA TailLemma ==
    ASSUME NEW S, NEW list \in Seq(S), IsTidy(list), list # <<>>
    PROVE  /\ Tail(list) \in Seq(S) /\ Head(list) \in S
           /\ IsTidy(Tail(list))
           /\ ToSet(Tail(list)) = ToSet(list) \ {Head(list)}
<1> DEFINE n == Len(list)
<1>1. n \in Nat /\ n > 0 /\ DOMAIN list = 1 .. n
  BY EmptySeq, LenProperties
<1>2. /\ Tail(list) \in Seq(S) /\ Head(list) \in S /\ Head(list) = list[1]
      /\ Len(Tail(list)) = n - 1 /\ DOMAIN Tail(list) = 1 .. n - 1
      /\ \A i \in 1 .. n - 1 : Tail(list)[i] = list[i + 1]
  BY HeadTailProperties, LenProperties
<1>3. \A i, j \in 1 .. n : list[i] = list[j] => i = j
  BY <1>1 DEF IsTidy, IsInjective
<1>4. IsTidy(Tail(list))
  <2>1. \A i, j \in 1 .. n - 1 : list[i + 1] = list[j + 1] => i = j
    BY <1>1, <1>3
  <2> QED BY <1>2, <2>1 DEF IsTidy, IsInjective
<1>5. ToSet(list) = {list[i] : i \in 1 .. n} /\ ToSet(Tail(list)) = {list[i + 1] : i \in 1 .. n - 1}
  BY <1>1, <1>2 DEF ToSet
<1>6. \A i \in 1 .. n - 1 : i + 1 \in 1 .. n /\ list[i + 1] # list[1]
  BY <1>1, <1>3
<1>7. \A i \in 1 .. n : i # 1 => i - 1 \in 1 .. n - 1 /\ list[i] = list[(i - 1) + 1]
  BY <1>1
<1>8. \A x : x \in ToSet(Tail(list)) <=> \E i \in 1 .. n - 1 : x = list[i + 1]
  BY <1>5
<1>9. \A x : x \in ToSet(list) <=> \E i \in 1 .. n : x = list[i]
  BY <1>5
<1>10. ASSUME NEW x \in ToSet(Tail(list)) PROVE x \in ToSet(list) \ {Head(list)}
  BY <1>2, <1>6, <1>8, <1>9
<1>11. ASSUME NEW x \in ToSet(list) \ {Head(list)} PROVE x \in ToSet(Tail(list))
  <2>1. PICK i \in 1 .. n : x = list[i]
    BY <1>9
  <2>2. i # 1
    BY <1>2, <2>1
  <2> QED BY <1>7, <1>8, <2>1, <2>2
<1> QED BY <1>2, <1>4, <1>10, <1>11

(* Two tidy lists without a common element make a tidy list.               *)
Joins(S, a, b, c) ==
    /\ c \in Seq(S) /\ Len(c) = Len(a) + Len(b)
    /\ IsTidy(c) /\ ToSet(c) = ToSet(a) \cup ToSet(b)

LEMMA ConcatLemma ==
    ASSUME NEW S, NEW a \in Seq(S), NEW b \in Seq(S), IsTidy(a), IsTidy(b),
           ToSet(a) \cap ToSet(b) = {}
    PROVE  Joins(S, a, b, a \o b)
<1> DEFINE m == Len(a)
           n == Len(b)
           c == a \o b
<1>1. m \in Nat /\ n \in Nat /\ DOMAIN a = 1 .. m /\ DOMAIN b = 1 .. n
  BY LenProperties
<1>2. /\ c \in Seq(S) /\ Len(c) = m + n
      /\ \A i \in 1 .. m + n : c[i] = IF i <= m THEN a[i] ELSE b[i - m]
  BY ConcatProperties
<1>3. DOMAIN c = 1 .. m + n
  BY <1>2, LenProperties
<1> HIDE DEF m, n, c
<1>4. \A i \in 1 .. m : i \in 1 .. m + n /\ c[i] = a[i]
  BY <1>1, <1>2
<1>5. \A i \in 1 .. n : m + i \in 1 .. m + n /\ c[m + i] = b[i]
  <2> SUFFICES ASSUME NEW i \in 1 .. n PROVE m + i \in 1 .. m + n /\ c[m + i] = b[i]
    OBVIOUS
  <2>1. m + i \in 1 .. m + n /\ ~(m + i <= m) /\ (m + i) - m = i
    BY <1>1
  <2> QED BY <1>2, <2>1
<1>6. \A k \in 1 .. m + n : k \in 1 .. m \/ (k - m \in 1 .. n /\ k = m + (k - m))
  BY <1>1
<1>7. ToSet(c) = ToSet(a) \cup ToSet(b)
  <2>1. \A x : x \in ToSet(c) <=> \E k \in 1 .. m + n : x = c[k]
    BY <1>3 DEF ToSet
  <2>2. \A x : x \in ToSet(a) <=> \E k \in 1 .. m : x = a[k]
    BY <1>1 DEF ToSet
  <2>3. \A x : x \in ToSet(b) <=> \E k \in 1 .. n : x = b[k]
    BY <1>1 DEF ToSet
  <2>4. ASSUME NEW x \in ToSet(c) PROVE x \in ToSet(a) \cup ToSet(b)
    <3>1. PICK k \in 1 .. m + n : x = c[k]
      BY <2>1
    <3>2. CASE k \in 1 .. m
      <4>1. x = a[k]
        BY <1>4, <3>1, <3>2
      <4> QED BY <2>2, <3>2, <4>1
    <3>3. CASE k - m \in 1 .. n /\ k = m + (k - m)
      <4>1. PICK i \in 1 .. n : k = m + i
        BY <3>3
      <4>2. x = b[i]
        BY <1>5, <3>1, <4>1
      <4> QED BY <2>3, <4>2
    <3> QED BY <1>6, <3>2, <3>3
  <2>5. ASSUME NEW x \in ToSet(a) \cup ToSet(b) PROVE x \in ToSet(c)
    <3>1. CASE x \in ToSet(a)
      BY <1>4, <2>1, <2>2, <3>1
    <3>2. CASE x \in ToSet(b)
      BY <1>5, <2>1, <2>3, <3>2
    <3> QED BY <3>1, <3>2
  <2> QED BY <2>4, <2>5
<1>8. IsTidy(c)
  <2>1. \A i, j \in 1 .. m : a[i] = a[j] => i = j
    BY <1>1 DEF IsTidy, IsInjective
  <2>2. \A i, j \in 1 .. n : b[i] = b[j] => i = j
    BY <1>1 DEF IsTidy, IsInjective
  <2>3. \A i \in 1 .. m, j \in 1 .. n : a[i] # b[j]
    BY <1>1 DEF ToSet
  <2>4. ASSUME NEW k \in 1 .. m + n, NEW l \in 1 .. m + n, c[k] = c[l] PROVE k = l
    <3>1. CASE k \in 1 .. m /\ l \in 1 .. m
      BY <1>4, <2>1, <2>4, <3>1
    <3>2. CASE k \in 1 .. m /\ l - m \in 1 .. n /\ l = m + (l - m)
      BY <1>4, <1>5, <2>3, <2>4, <3>2
    <3>3. CASE l \in 1 .. m /\ k - m \in 1 .. n /\ k = m + (k - m)
      BY <1>4, <1>5, <2>3, <2>4, <3>3
    <3>4. CASE k - m \in 1 .. n /\ l - m \in 1 .. n /\ k = m + (k - m) /\ l = m + (l - m)
      <4>1. k - m = l - m
        BY <1>5, <2>2, <2>4, <3>4
      <4> QED BY <3>4, <4>1
    <3> QED BY <1>6, <3>1, <3>2, <3>3, <3>4
  <2> QED BY <1>3, <2>4 DEF IsTidy, IsInjective
<1> QED BY <1>2, <1>7, <1>8 DEF m, n, c, Joins

(* A tidy list cut in two.                                                 *)
IsCut(S, list, k, a, b) ==
    /\ a \in Seq(S) /\ b \in Seq(S) /\ Len(a) = k /\ IsTidy(a) /\ IsTidy(b)
    /\ ToSet(a) \cap ToSet(b) = {}
    /\ ToSet(a) \cup ToSet(b) = ToSet(list)

LEMMA CutLemma ==
    ASSUME NEW S, NEW list \in Seq(S), IsTidy(list), NEW k \in DOMAIN list
    PROVE  IsCut(S, list, k, SubSeq(list, 1, k), SubSeq(list, k + 1, Len(list)))
<1> DEFINE n == Len(list)
           a == SubSeq(list, 1, k)
           b == SubSeq(list, k + 1, n)
<1>1. n \in Nat /\ DOMAIN list = 1 .. n /\ k \in 1 .. n /\ \A i \in 1 .. n : list[i] \in S
  BY LenProperties, ElementOfSeq
<1>2. a \in Seq(S) /\ Len(a) = k /\ \A i \in 1 .. k : a[i] = list[i]
  BY <1>1, SubSeqProperties
<1>3. b \in Seq(S) /\ Len(b) = n - k /\ \A i \in 1 .. n - k : b[i] = list[k + i]
  <2>1. k + 1 \in Int /\ n \in Int /\ \A i \in k + 1 .. n : list[i] \in S
    BY <1>1
  <2>2. /\ SubSeq(list, k + 1, n) \in Seq(S)
        /\ Len(SubSeq(list, k + 1, n)) = IF k + 1 <= n THEN n - (k + 1) + 1 ELSE 0
        /\ \A i \in 1 .. n - (k + 1) + 1 : SubSeq(list, k + 1, n)[i] = list[(k + 1) + i - 1]
    BY <2>1, SubSeqProperties
  <2>3. \A i \in 1 .. n - k : (k + 1) + i - 1 = k + i
    BY <1>1
  <2> QED BY <1>1, <2>2, <2>3
<1>4. DOMAIN a = 1 .. k /\ DOMAIN b = 1 .. n - k
  BY <1>2, <1>3, LenProperties
<1> HIDE DEF n, a, b
<1>5. \A i, j \in 1 .. n : list[i] = list[j] => i = j
  BY <1>1 DEF IsTidy, IsInjective
<1>6. IsTidy(a)
  BY <1>1, <1>2, <1>4, <1>5 DEF IsTidy, IsInjective
<1>7. \A i \in 1 .. n - k : k + i \in 1 .. n /\ k + i > k
  BY <1>1
<1>8. IsTidy(b)
  <2>1. \A i, j \in 1 .. n - k : list[k + i] = list[k + j] => i = j
    BY <1>1, <1>5, <1>7
  <2> QED BY <1>3, <1>4, <2>1 DEF IsTidy, IsInjective
<1>9. \A x : x \in ToSet(list) <=> \E i \in 1 .. n : x = list[i]
  BY <1>1 DEF ToSet
<1>10. \A x : x \in ToSet(a) <=> \E i \in 1 .. k : x = list[i]
  BY <1>2, <1>4 DEF ToSet
<1>11. \A x : x \in ToSet(b) <=> \E i \in 1 .. n - k : x = list[k + i]
  BY <1>3, <1>4 DEF ToSet
<1>12. \A i \in 1 .. n : i \in 1 .. k \/ (i - k \in 1 .. n - k /\ i = k + (i - k))
  BY <1>1
<1>13. \A i \in 1 .. k : i \in 1 .. n
  BY <1>1
<1>14. ToSet(a) \cap ToSet(b) = {}
  <2> SUFFICES ASSUME NEW x \in ToSet(a), x \in ToSet(b) PROVE FALSE
    OBVIOUS
  <2>1. PICK i \in 1 .. k : x = list[i]
    BY <1>10
  <2>2. PICK j \in 1 .. n - k : x = list[k + j]
    BY <1>11
  <2>3. i = k + j
    BY <1>5, <1>7, <1>13, <2>1, <2>2
  <2> QED BY <1>1, <1>7, <2>3
<1>15. ASSUME NEW x \in ToSet(list) PROVE x \in ToSet(a) \cup ToSet(b)
  <2>1. PICK i \in 1 .. n : x = list[i]
    BY <1>9, <1>15
  <2>2. CASE i \in 1 .. k
    BY <1>10, <2>1, <2>2
  <2>3. CASE i - k \in 1 .. n - k /\ i = k + (i - k)
    BY <1>11, <2>1, <2>3
  <2> QED BY <1>12, <2>2, <2>3
<1>16. ASSUME NEW x \in ToSet(a) \cup ToSet(b) PROVE x \in ToSet(list)
  BY <1>7, <1>9, <1>10, <1>11, <1>13
<1>17. ToSet(a) \cup ToSet(b) = ToSet(list)
  BY <1>15, <1>16
<1> QED BY <1>2, <1>3, <1>6, <1>8, <1>14, <1>17 DEF a, b, n, IsCut

(* PR_APPEND_LINK of an element that is not on the list.                   *)
LEMMA AppendLemma ==
    ASSUME NEW S, NEW list \in Seq(S), IsTidy(list), NEW e \in S, e \notin ToSet(list)
    PROVE  /\ Append(list, e) \in Seq(S)
           /\ IsTidy(Append(list, e))
           /\ ToSet(Append(list, e)) = ToSet(list) \cup {e}
<1> DEFINE n == Len(list)
           w == Append(list, e)
<1>1. DOMAIN list = 1 .. n /\ n \in Nat
  BY LenProperties
<1>2. /\ w \in Seq(S) /\ Len(w) = n + 1
      /\ \A i \in 1 .. n : w[i] = list[i]
      /\ w[n + 1] = e
  BY AppendProperties
<1>3. DOMAIN w = 1 .. n + 1
  BY <1>2, LenProperties
<1> HIDE DEF w
<1>4. IsTidy(w)
  <2> SUFFICES ASSUME NEW i \in 1 .. n + 1, NEW j \in 1 .. n + 1, w[i] = w[j]
               PROVE  i = j
    BY <1>3 DEF IsTidy, IsInjective
  <2>1. \A k \in 1 .. n : w[k] # e
    BY <1>1, <1>2 DEF ToSet
  <2>2. CASE i \in 1 .. n /\ j \in 1 .. n
    BY <2>2, <1>1, <1>2 DEF IsTidy, IsInjective
  <2>3. CASE i = n + 1 \/ j = n + 1
    BY <2>1, <2>3, <1>1, <1>2
  <2> QED BY <2>2, <2>3, <1>1
<1>5. ToSet(w) = ToSet(list) \cup {e}
  <2>1. ASSUME NEW x \in ToSet(w) PROVE x \in ToSet(list) \cup {e}
    <3>1. PICK i \in 1 .. n + 1 : w[i] = x
      BY <1>3 DEF ToSet
    <3>2. CASE i = n + 1
      BY <3>1, <3>2, <1>2
    <3>3. CASE i \in 1 .. n
      BY <3>1, <3>3, <1>1, <1>2 DEF ToSet
    <3> QED BY <3>2, <3>3, <1>1
  <2>2. ASSUME NEW x \in ToSet(list) PROVE x \in ToSet(w)
    <3>1. PICK i \in 1 .. n : list[i] = x
      BY <1>1 DEF ToSet
    <3>2. i \in 1 .. n + 1 /\ w[i] = x
      BY <3>1, <1>1, <1>2
    <3> QED BY <3>2, <1>3 DEF ToSet
  <2>3. e \in ToSet(w)
    <3>1. n + 1 \in 1 .. n + 1 /\ w[n + 1] = e
      BY <1>1, <1>2
    <3> QED BY <3>1, <1>3 DEF ToSet
  <2> QED BY <2>1, <2>2, <2>3
<1> QED BY <1>2, <1>4, <1>5 DEF w

(* What PR_INSERT_BEFORE leaves at each index...                           *)
LEMMA InsertIndexes ==
    ASSUME NEW S, NEW list \in Seq(S), NEW e \in S, NEW k \in 1 .. Len(list) + 1
    PROVE  /\ InsertBefore(list, k, e) \in Seq(S)
           /\ Len(InsertBefore(list, k, e)) = Len(list) + 1
           /\ InsertBefore(list, k, e)[k] = e
           /\ \A i \in 1 .. Len(list) + 1 :
                /\ i < k => InsertBefore(list, k, e)[i] = list[i]
                /\ i > k => InsertBefore(list, k, e)[i] = list[i - 1]
<1> DEFINE n == Len(list)
           a == SubSeq(list, 1, k - 1)
           b == SubSeq(list, k, n)
           ae == Append(a, e)
           w == ae \o b
<1>1. DOMAIN list = 1 .. n /\ n \in Nat /\ \A i \in 1 .. n : list[i] \in S
  BY LenProperties, ElementOfSeq
<1>2. a \in Seq(S) /\ Len(a) = k - 1 /\ \A i \in 1 .. k - 1 : a[i] = list[i]
  BY <1>1, SubSeqProperties
<1>3. b \in Seq(S) /\ Len(b) = n - k + 1 /\ \A i \in 1 .. n - k + 1 : b[i] = list[k + i - 1]
  <2>1. k \in Int /\ n \in Int /\ \A i \in k .. n : list[i] \in S
    BY <1>1
  <2>2. /\ b \in Seq(S) /\ Len(b) = IF k <= n THEN n - k + 1 ELSE 0
        /\ \A i \in 1 .. n - k + 1 : b[i] = list[k + i - 1]
    BY <2>1, SubSeqProperties
  <2> HIDE DEF b
  <2> QED BY <2>2, <1>1
<1>4. ae = a \o <<e>>
  BY <1>2, AppendIsConcat
<1>5. InsertBefore(list, k, e) = w
  BY <1>4 DEF InsertBefore, InsertAt
<1> HIDE DEF a, b
<1>6. /\ ae \in Seq(S) /\ Len(ae) = k
      /\ \A i \in 1 .. k - 1 : ae[i] = list[i]
      /\ ae[k] = e
  <2>1. /\ ae \in Seq(S) /\ Len(ae) = Len(a) + 1
        /\ \A i \in 1 .. Len(a) : ae[i] = a[i]
        /\ ae[Len(a) + 1] = e
    BY <1>2, AppendProperties
  <2> HIDE DEF ae
  <2>2. Len(a) + 1 = k
    BY <1>1, <1>2
  <2> QED BY <2>1, <2>2, <1>2
<1> HIDE DEF ae
<1>7. /\ w \in Seq(S) /\ Len(w) = n + 1
      /\ \A i \in 1 .. n + 1 : w[i] = IF i <= k THEN ae[i] ELSE b[i - k]
  <2>1. /\ w \in Seq(S) /\ Len(w) = Len(ae) + Len(b)
        /\ \A i \in 1 .. Len(ae) + Len(b) :
             w[i] = IF i <= Len(ae) THEN ae[i] ELSE b[i - Len(ae)]
    BY <1>3, <1>6, ConcatProperties
  <2>2. Len(ae) + Len(b) = n + 1
    BY <1>1, <1>3, <1>6
  <2> HIDE DEF w
  <2> QED BY <2>1, <2>2, <1>6
<1> HIDE DEF w
<1>8. /\ \A i \in 1 .. n + 1 : i < k => w[i] = list[i]
      /\ w[k] = e
      /\ \A i \in 1 .. n + 1 : i > k => w[i] = list[i - 1]
  <2>1. ASSUME NEW i \in 1 .. n + 1, i < k PROVE w[i] = list[i]
    <3>1. i <= k /\ i \in 1 .. k - 1
      BY <2>1, <1>1
    <3> QED BY <3>1, <1>6, <1>7
  <2>2. w[k] = e
    <3>1. k <= k /\ k \in 1 .. n + 1
      BY <1>1
    <3> QED BY <3>1, <1>6, <1>7
  <2>3. ASSUME NEW i \in 1 .. n + 1, i > k PROVE w[i] = list[i - 1]
    <3>1. ~(i <= k) /\ i - k \in 1 .. n - k + 1 /\ k + (i - k) - 1 = i - 1
      BY <2>3, <1>1
    <3> QED BY <3>1, <1>3, <1>7
  <2> QED BY <2>1, <2>2, <2>3
<1> QED BY <1>5, <1>7, <1>8

(* PR_INSERT_BEFORE of an element that is not on the list.                 *)
LEMMA InsertLemma ==
    ASSUME NEW S, NEW list \in Seq(S), IsTidy(list), NEW e \in S, e \notin ToSet(list),
           NEW k \in 1 .. Len(list) + 1
    PROVE  /\ InsertBefore(list, k, e) \in Seq(S)
           /\ IsTidy(InsertBefore(list, k, e))
           /\ ToSet(InsertBefore(list, k, e)) = ToSet(list) \cup {e}
<1> DEFINE n == Len(list)
           w == InsertBefore(list, k, e)
<1>1. DOMAIN list = 1 .. n /\ n \in Nat /\ \A i \in 1 .. n : list[i] \in S
  BY LenProperties, ElementOfSeq
<1>2. w \in Seq(S) /\ Len(w) = n + 1
  BY InsertIndexes
<1>3. /\ \A i \in 1 .. n + 1 : i < k => w[i] = list[i]
      /\ w[k] = e
      /\ \A i \in 1 .. n + 1 : i > k => w[i] = list[i - 1]
  BY InsertIndexes
<1> HIDE DEF w
<1>4. DOMAIN w = 1 .. n + 1
  BY <1>2, LenProperties
<1>5. \A i \in 1 .. n : list[i] # e
  BY <1>1 DEF ToSet
<1>6. IsTidy(w)
  <2> SUFFICES ASSUME NEW i \in 1 .. n + 1, NEW j \in 1 .. n + 1, w[i] = w[j]
               PROVE  i = j
    BY <1>4 DEF IsTidy, IsInjective
  <2> DEFINE old(x) == IF x < k THEN x ELSE x - 1
  <2>1. \A x \in 1 .. n + 1 : x # k => old(x) \in 1 .. n /\ w[x] = list[old(x)]
    <3> SUFFICES ASSUME NEW x \in 1 .. n + 1, x # k
                 PROVE  old(x) \in 1 .. n /\ w[x] = list[old(x)]
      OBVIOUS
    <3>1. CASE x < k
      <4>1. old(x) = x /\ x \in 1 .. n
        BY <3>1, <1>1
      <4> QED BY <4>1, <3>1, <1>3
    <3>2. CASE x > k
      <4>1. old(x) = x - 1 /\ x - 1 \in 1 .. n
        BY <3>2, <1>1
      <4> QED BY <4>1, <3>2, <1>3
    <3>3. x < k \/ x > k
      BY <1>1
    <3> QED BY <3>1, <3>2, <3>3
  <2>2. CASE i = k \/ j = k
    <3>1. \A x \in 1 .. n + 1 : x # k => w[x] # e
      BY <2>1, <1>5
    <3> QED BY <3>1, <2>2, <1>3
  <2>3. CASE i # k /\ j # k
    <3>1. old(i) = old(j)
      <4>1. old(i) \in DOMAIN list /\ old(j) \in DOMAIN list /\ list[old(i)] = list[old(j)]
        BY <2>1, <2>3, <1>1
      <4> HIDE DEF old
      <4> QED BY <4>1 DEF IsTidy, IsInjective
    <3> QED BY <3>1, <2>3, <1>1
  <2> QED BY <2>2, <2>3
<1>7. ToSet(w) = ToSet(list) \cup {e}
  <2>1. ASSUME NEW x \in ToSet(w) PROVE x \in ToSet(list) \cup {e}
    <3>1. PICK i \in 1 .. n + 1 : w[i] = x
      BY <1>4 DEF ToSet
    <3>2. CASE i = k
      BY <3>1, <3>2, <1>3
    <3>3. CASE i < k
      <4>1. i \in 1 .. n /\ list[i] = x
        BY <3>1, <3>3, <1>1, <1>3
      <4> QED BY <4>1, <1>1 DEF ToSet
    <3>4. CASE i > k
      <4>1. i - 1 \in 1 .. n /\ list[i - 1] = x
        BY <3>1, <3>4, <1>1, <1>3
      <4> QED BY <4>1, <1>1 DEF ToSet
    <3>5. i = k \/ i < k \/ i > k
      BY <1>1
    <3> QED BY <3>2, <3>3, <3>4, <3>5
  <2>2. ASSUME NEW x \in ToSet(list) PROVE x \in ToSet(w)
    <3>1. PICK i \in 1 .. n : list[i] = x
      BY <1>1 DEF ToSet
    <3>2. CASE i < k
      <4>1. i \in 1 .. n + 1 /\ w[i] = x
        BY <3>1, <3>2, <1>1, <1>3
      <4> QED BY <4>1, <1>4 DEF ToSet
    <3>3. CASE i >= k
      <4>1. i + 1 \in 1 .. n + 1 /\ i + 1 > k /\ (i + 1) - 1 = i
        BY <3>3, <1>1
      <4>2. w[i + 1] = x
        BY <3>1, <4>1, <1>3
      <4> QED BY <4>1, <4>2, <1>4 DEF ToSet
    <3>4. i < k \/ i >= k
      BY <1>1
    <3> QED BY <3>2, <3>3, <3>4
  <2>3. e \in ToSet(w)
    <3>1. k \in 1 .. n + 1
      BY <1>1
    <3> QED BY <3>1, <1>3, <1>4 DEF ToSet
  <2> QED BY <2>1, <2>2, <2>3
<1> QED BY <1>2, <1>6, <1>7 DEF w

(* A family of tidy lists, one for each member of D; in `new', compared to *)
(* `lists', e is on the list `to' and on no other.                         *)
Family(lists, D, S) ==
    lists \in [D -> Seq(S)] /\ \A n \in D : IsTidy(lists[n])

Moved(lists, new, D, e, to) ==
    \A n \in D : \A x :
      x \in ToSet(new[n]) <=> IF x = e THEN n = to ELSE x \in ToSet(lists[n])

(* A family of tidy lists stays one when an element that is on none of     *)
(* them is linked on a list...                                             *)
LEMMA LinkLemma ==
    ASSUME NEW S, NEW D, NEW lists, Family(lists, D, S),
           NEW e \in S, NEW to \in D, \A n \in D : e \notin ToSet(lists[n])
    PROVE  /\ Family(Link(lists, e, to), D, S)
           /\ Moved(lists, Link(lists, e, to), D, e, to)
<1>1. /\ Append(lists[to], e) \in Seq(S) /\ IsTidy(Append(lists[to], e))
      /\ ToSet(Append(lists[to], e)) = ToSet(lists[to]) \cup {e}
  BY AppendLemma DEF Family
<1> QED BY <1>1 DEF Link, Family, Moved

(* ... when one is unlinked, wherever it is (`to' is no list then)...      *)
LEMMA UnlinkLemma ==
    ASSUME NEW S, NEW D, NEW lists, Family(lists, D, S), NEW e, NEW to, to \notin D
    PROVE  /\ Family(Unlink(lists, e), D, S)
           /\ Moved(lists, Unlink(lists, e), D, e, to)
<1>1. ASSUME NEW n \in D
      PROVE  /\ Without(lists[n], e) \in Seq(S) /\ IsTidy(Without(lists[n], e))
             /\ ToSet(Without(lists[n], e)) = ToSet(lists[n]) \ {e}
  BY WithoutLemma DEF Family
<1> QED BY <1>1 DEF Unlink, Family, Moved

(* ... when one is moved to a list from wherever it is...                  *)
LEMMA RelinkLemma ==
    ASSUME NEW S, NEW D, NEW lists, Family(lists, D, S), NEW e \in S, NEW to \in D
    PROVE  /\ Family(Relink(lists, e, to), D, S)
           /\ Moved(lists, Relink(lists, e, to), D, e, to)
<1>1. ASSUME NEW n \in D
      PROVE  /\ Without(lists[n], e) \in Seq(S) /\ IsTidy(Without(lists[n], e))
             /\ ToSet(Without(lists[n], e)) = ToSet(lists[n]) \ {e}
  BY WithoutLemma DEF Family
<1>2. LET list == Append(Without(lists[to], e), e)
      IN  list \in Seq(S) /\ IsTidy(list) /\ ToSet(list) = ToSet(lists[to]) \cup {e}
  BY <1>1, AppendLemma
<1> QED BY <1>1, <1>2 DEF Relink, Family, Moved

(* ... and when one is taken off the only list it may be on.               *)
UnlinkFrom(lists, e, from) == [lists EXCEPT ![from] = Without(@, e)]

(* Such an unlinking moves the element to no list.                         *)
LEMMA UnlinkFromLemma ==
    ASSUME NEW S, NEW D, NEW lists, Family(lists, D, S), NEW e, NEW from \in D,
           \A n \in D : e \in ToSet(lists[n]) => n = from, NEW to, to \notin D
    PROVE  /\ Family(UnlinkFrom(lists, e, from), D, S)
           /\ Moved(lists, UnlinkFrom(lists, e, from), D, e, to)
<1>1. /\ Without(lists[from], e) \in Seq(S) /\ IsTidy(Without(lists[from], e))
      /\ ToSet(Without(lists[from], e)) = ToSet(lists[from]) \ {e}
  BY WithoutLemma DEF Family
<1> QED BY <1>1 DEF UnlinkFrom, Family, Moved

(* The lists of one element and of none.                                   *)
LEMMA ShortLists ==
    ASSUME NEW S, NEW e \in S
    PROVE  /\ <<e>> \in Seq(S) /\ IsTidy(<<e>>) /\ ToSet(<<e>>) = {e}
           /\ <<>> \in Seq(S) /\ IsTidy(<<>>) /\ ToSet(<<>>) = {}
  BY DEF IsTidy, IsInjective, ToSet
=============================================================================
