--------------------------- MODULE MemCacheProofs ---------------------------
(***************************************************************************)
(* The memory cache of documents keeps its books, its lists and its        *)
(* readers' copies in order for any number of documents, copies, streams   *)
(* and loads, and lends copies as module Lending says.                     *)
(***************************************************************************)
EXTENDS MemCache, LinksProofs, FiniteSetTheorems

CacheState ==
    [copy : [Copy -> CopyState \cup {None}], hash : [Url -> Copy \cup {None}],
     list : Seq(Copy), size : Nat, leaked : Nat]

(* A state s of the cache is sound if streams fill the copies F and loads  *)
(* read copy c L[c] times.  The copies in X are just being taken away: the *)
(* hash list may still name them and nothing else need lead to them.       *)
Sound(s, F, L, X) ==
    /\ s \in CacheState
    /\ IsFiniteSet(Units(s)) /\ s.size = Cardinality(Units(s)) + s.leaked
    /\ IsTidy(s.list) /\ ToSet(s.list) \subseteq Allocated(s)
    /\ F \subseteq Allocated(s) \ ToSet(s.list)
    /\ \A c \in F : ~s.copy[c].deleteMe
    /\ \A c \in Copy : L[c] > 0 => c \in Allocated(s) /\ s.copy[c].readLock >= L[c]
    /\ \A u \in Url : s.hash[u] # None =>
         /\ s.hash[u] \in ToSet(s.list) \cup X
         /\ s.copy[s.hash[u]].url = u /\ ~s.copy[s.hash[u]].deleteMe
    /\ \A c \in Allocated(s) \ (F \cup ToSet(s.list) \cup X) :
         s.copy[c].deleteMe /\ s.copy[c].readLock > 0

-----------------------------------------------------------------------------
(* The units of memory the copies take up.                                 *)
LEMMA ColumnSize ==
    ASSUME NEW c, NEW n \in Nat
    PROVE  IsFiniteSet({c} \X (1 .. n)) /\ Cardinality({c} \X (1 .. n)) = n
<1>1. IsFiniteSet({c}) /\ Cardinality({c}) = 1
  BY FS_Singleton
<1>2. IsFiniteSet(1 .. n) /\ Cardinality(1 .. n) = n
  BY FS_Interval
<1>3. /\ IsFiniteSet({c} \X (1 .. n))
      /\ Cardinality({c} \X (1 .. n)) = Cardinality({c}) * Cardinality(1 .. n)
  BY <1>1, <1>2, FS_Product
<1>4. Cardinality({c} \X (1 .. n)) = 1 * n
  BY <1>1, <1>2, <1>3
<1> QED BY <1>3, <1>4

(* Which units there are depends on the sizes of the copies only.          *)
LEMMA UnitsSame ==
    ASSUME NEW s, NEW s2,
           \A c \in Copy : /\ s2.copy[c] = None <=> s.copy[c] = None
                           /\ s.copy[c] # None => s2.copy[c].size = s.copy[c].size
    PROVE  Allocated(s2) = Allocated(s) /\ Units(s2) = Units(s)
<1>1. Allocated(s2) = Allocated(s)
  BY DEF Allocated
<1>2. \A c \in Allocated(s) : s2.copy[c].size = s.copy[c].size
  BY DEF Allocated
<1> QED BY <1>1, <1>2 DEF Units

LEMMA UnitsAre ==
    ASSUME NEW s
    PROVE  \A e : e \in Units(s) <=>
             \E c \in Copy : s.copy[c] # None /\ e \in {c} \X (1 .. s.copy[c].size)
BY DEF Units, Allocated

(* A copy that comes or goes takes its units with it.                      *)
LEMMA UnitsOfOne ==
    ASSUME NEW s, NEW s2, NEW c \in Copy, s2.copy[c] = None, s.copy[c] # None,
           s.copy[c].size \in Nat,
           \A d \in Copy \ {c} : s2.copy[d] = s.copy[d]
    PROVE  /\ Allocated(s2) = Allocated(s) \ {c}
           /\ IsFiniteSet(Units(s2)) <=> IsFiniteSet(Units(s))
           /\ IsFiniteSet(Units(s)) =>
                Cardinality(Units(s)) = Cardinality(Units(s2)) + s.copy[c].size
<1> DEFINE K == {c} \X (1 .. s.copy[c].size)
<1>1. Allocated(s2) = Allocated(s) \ {c}
  BY DEF Allocated
<1>2. Units(s) = Units(s2) \cup K /\ Units(s2) \cap K = {}
  <2>1. \A e \in K : e \in Units(s)
    BY UnitsAre
  <2>2. \A e \in Units(s2) : e \in Units(s) /\ e \notin K
    <3> SUFFICES ASSUME NEW e \in Units(s2)
                 PROVE  e \in Units(s) /\ e \notin K
      OBVIOUS
    <3>1. PICK d \in Copy : s2.copy[d] # None /\ e \in {d} \X (1 .. s2.copy[d].size)
      BY UnitsAre
    <3>2. d # c /\ s2.copy[d] = s.copy[d]
      BY <3>1
    <3>3. e \in Units(s)
      BY <3>1, <3>2, UnitsAre
    <3>4. e \notin K
      BY <3>1, <3>2
    <3> QED BY <3>3, <3>4
  <2>3. \A e \in Units(s) : e \in K \/ e \in Units(s2)
    <3> SUFFICES ASSUME NEW e \in Units(s), e \notin K
                 PROVE  e \in Units(s2)
      OBVIOUS
    <3>1. PICK d \in Copy : s.copy[d] # None /\ e \in {d} \X (1 .. s.copy[d].size)
      BY UnitsAre
    <3>2. d # c
      BY <3>1
    <3> QED BY <3>1, <3>2, UnitsAre
  <2> HIDE DEF K
  <2> QED BY <2>1, <2>2, <2>3
<1>3. IsFiniteSet(K) /\ Cardinality(K) = s.copy[c].size
  BY ColumnSize
<1> HIDE DEF K
<1>4. IsFiniteSet(Units(s)) => IsFiniteSet(Units(s2))
  <2>1. Units(s2) \in SUBSET Units(s)
    BY <1>2
  <2> QED BY <2>1, FS_Subset
<1>5. IsFiniteSet(Units(s2)) =>
        IsFiniteSet(Units(s)) /\ Cardinality(Units(s)) = Cardinality(Units(s2)) + s.copy[c].size
  <2> SUFFICES ASSUME IsFiniteSet(Units(s2))
               PROVE  IsFiniteSet(Units(s)) /\ Cardinality(Units(s)) = Cardinality(Units(s2)) + s.copy[c].size
    OBVIOUS
  <2>1. Cardinality({}) = 0 /\ Cardinality(Units(s2)) \in Nat
    BY FS_EmptySet, FS_CardinalityType
  <2>2. /\ IsFiniteSet(Units(s2) \cup K)
        /\ Cardinality(Units(s2) \cup K)
             = Cardinality(Units(s2)) + Cardinality(K) - Cardinality(Units(s2) \cap K)
    BY <1>3, FS_Union
  <2>3. Cardinality(Units(s2) \cap K) = 0
    BY <1>2, <2>1
  <2>4. IsFiniteSet(Units(s)) /\ Cardinality(Units(s)) = Cardinality(Units(s2) \cup K)
    BY <1>2, <2>2
  <2> QED BY <1>3, <2>1, <2>2, <2>3, <2>4
<1> QED BY <1>1, <1>4, <1>5

(* A copy that grows takes one more.                                       *)
OneUnitMore(s, r) ==
    /\ Allocated(r) = Allocated(s) /\ IsFiniteSet(Units(r))
    /\ Cardinality(Units(r)) = Cardinality(Units(s)) + 1

LEMMA UnitsGrow ==
    ASSUME NEW s, NEW s2, NEW c \in Copy, s2.copy[c] # None, s.copy[c] # None,
           s.copy[c].size \in Nat, s2.copy[c].size = s.copy[c].size + 1,
           \A d \in Copy \ {c} : s2.copy[d] = s.copy[d], IsFiniteSet(Units(s))
    PROVE  OneUnitMore(s, s2)
<1> DEFINE n == s.copy[c].size
           e == <<c, n + 1>>
<1>1. Allocated(s2) = Allocated(s)
  BY DEF Allocated
<1>2. e \notin Units(s)
  <2> SUFFICES ASSUME NEW d \in Copy, e \in {d} \X (1 .. s.copy[d].size)
               PROVE  FALSE
    BY UnitsAre
  <2>1. d = c /\ n + 1 \in 1 .. n
    OBVIOUS
  <2> QED BY <2>1
<1>3. Units(s2) = Units(s) \cup {e}
  <2>1. \A x : x \in {c} \X (1 .. n + 1) <=> x \in {c} \X (1 .. n) \/ x = e
    OBVIOUS
  <2> HIDE DEF e
  <2>2. \A x : x \in Units(s2) => x \in Units(s) \/ x = e
    <3> SUFFICES ASSUME NEW x \in Units(s2), x # e
                 PROVE  x \in Units(s)
      OBVIOUS
    <3>1. PICK d \in Copy : s2.copy[d] # None /\ x \in {d} \X (1 .. s2.copy[d].size)
      BY UnitsAre
    <3>2. CASE d = c
      BY <2>1, <3>1, <3>2, UnitsAre
    <3>3. CASE d # c
      BY <3>1, <3>3, UnitsAre
    <3> QED BY <3>2, <3>3
  <2>3. \A x : x \in Units(s) \/ x = e => x \in Units(s2)
    <3>1. e \in Units(s2)
      BY <2>1, UnitsAre
    <3> SUFFICES ASSUME NEW x \in Units(s)
                 PROVE  x \in Units(s2)
      BY <3>1
    <3>2. PICK d \in Copy : s.copy[d] # None /\ x \in {d} \X (1 .. s.copy[d].size)
      BY UnitsAre
    <3>3. CASE d = c
      BY <2>1, <3>2, <3>3, UnitsAre
    <3>4. CASE d # c
      BY <3>2, <3>4, UnitsAre
    <3> QED BY <3>3, <3>4
  <2> QED BY <2>2, <2>3
<1> HIDE DEF e
<1>4. /\ IsFiniteSet(Units(s) \cup {e})
      /\ Cardinality(Units(s) \cup {e}) = Cardinality(Units(s)) + 1
  BY <1>2, FS_AddElement
<1> QED BY <1>1, <1>3, <1>4 DEF OneUnitMore
-----------------------------------------------------------------------------
(* net_FreeMemoryCopy, field by field.                                     *)
LEMMA StateFields ==
    ASSUME NEW s \in CacheState
    PROVE  /\ s.copy \in [Copy -> CopyState \cup {None}] /\ s.hash \in [Url -> Copy \cup {None}]
           /\ s.list \in Seq(Copy) /\ s.size \in Nat /\ s.leaked \in Nat
           /\ \A c \in Allocated(s) : c \in Copy /\ s.copy[c] \in CopyState /\ s.copy[c] # None
           /\ \A c \in Copy : c \in Allocated(s) <=> s.copy[c] # None
BY DEF CacheState, Allocated

LEMMA CopyFields ==
    ASSUME NEW k \in CopyState
    PROVE  /\ k.url \in Url /\ k.size \in Nat /\ k.readLock \in Nat /\ k.locks \in Nat
           /\ k.deleteMe \in BOOLEAN /\ k # None
BY CacheAssumption DEF CopyState

Postponed(s, c, r) ==
    /\ r \in CacheState /\ r.size = s.size /\ r.leaked = s.leaked /\ r.list = s.list
    /\ r.hash = [s.hash EXCEPT ![s.copy[c].url] = None]
    /\ r.copy[c] = [s.copy[c] EXCEPT !.deleteMe = TRUE]
    /\ \A d \in Copy \ {c} : r.copy[d] = s.copy[d]

LEMMA FreedLater ==
    ASSUME NEW s \in CacheState, NEW c \in Allocated(s), BeingRead(s, c),
           NEW s2, s2 = FreeMemoryCopy(s, c)
    PROVE  Postponed(s, c, s2)
<1>1. /\ s.copy \in [Copy -> CopyState \cup {None}] /\ s.hash \in [Url -> Copy \cup {None}]
      /\ s.list \in Seq(Copy) /\ s.size \in Nat /\ s.leaked \in Nat /\ c \in Copy /\ s.copy[c] \in CopyState
  BY StateFields
<1>2. s2 = [[s EXCEPT !.hash[s.copy[c].url] = None] EXCEPT !.copy[c].deleteMe = TRUE]
  BY DEF FreeMemoryCopy, Postpone, Unhash
<1>3. /\ s2.size = s.size /\ s2.leaked = s.leaked /\ s2.list = s.list
      /\ s2.hash = [s.hash EXCEPT ![s.copy[c].url] = None]
      /\ s2.copy = [s.copy EXCEPT ![c] = [@ EXCEPT !.deleteMe = TRUE]]
  BY <1>2 DEF CacheState
<1>4. [s.copy[c] EXCEPT !.deleteMe = TRUE] \in CopyState
  BY <1>1 DEF CopyState
<1>5. s2.copy \in [Copy -> CopyState \cup {None}] /\ s2.hash \in [Url -> Copy \cup {None}]
  BY <1>1, <1>3, <1>4
<1>6. s2 \in CacheState
  <2>1. s2 = [copy |-> s2.copy, hash |-> s2.hash, list |-> s2.list, size |-> s2.size,
               leaked |-> s2.leaked]
    BY <1>2 DEF CacheState
  <2> QED BY <1>1, <1>3, <1>5, <2>1 DEF CacheState
<1>7. s2.copy[c] = [s.copy[c] EXCEPT !.deleteMe = TRUE] /\ \A d \in Copy \ {c} : s2.copy[d] = s.copy[d]
  BY <1>1, <1>3
<1> QED BY <1>3, <1>6, <1>7 DEF Postponed

LEMMA FreedNow ==
    ASSUME NEW s \in CacheState, NEW c \in Allocated(s), ~BeingRead(s, c),
           NEW s2, s2 = FreeMemoryCopy(s, c), s.size - s.copy[c].size >= 0,
           IsTidy(s.list)
    PROVE  /\ s2 \in CacheState /\ s2.size = s.size - s.copy[c].size /\ s2.leaked = s.leaked
           /\ IsTidy(s2.list) /\ ToSet(s2.list) = ToSet(s.list) \ {c}
           /\ s2.list = RemoveFirst(s.list, c)
           /\ s2.hash = [s.hash EXCEPT ![s.copy[c].url] = None]
           /\ s2.copy[c] = None
           /\ \A d \in Copy \ {c} : s2.copy[d] = s.copy[d]
<1>1. /\ s.copy \in [Copy -> CopyState \cup {None}] /\ s.hash \in [Url -> Copy \cup {None}]
      /\ s.list \in Seq(Copy) /\ s.size \in Nat /\ s.leaked \in Nat /\ c \in Copy /\ s.copy[c] \in CopyState
      /\ s.copy[c].size \in Nat
  BY StateFields, CopyFields
<1> DEFINE s0 == Unhash(s, c)
           s1 == Unlist(s0, c)
<1>2. s2 = [s1 EXCEPT !.size = @ - s1.copy[c].size, !.copy[c] = None]
  BY DEF FreeMemoryCopy, GiveBack
<1>3. /\ s0.size = s.size /\ s0.leaked = s.leaked /\ s0.copy = s.copy /\ s0.list = s.list
      /\ s0.hash = [s.hash EXCEPT ![s.copy[c].url] = None]
      /\ s0 = [copy |-> s0.copy, hash |-> s0.hash, list |-> s0.list, size |-> s0.size,
               leaked |-> s0.leaked]
  BY DEF CacheState, Unhash
<1> HIDE DEF s0
<1>4. /\ s1.size = s.size /\ s1.leaked = s.leaked /\ s1.copy = s.copy
      /\ s1.list = RemoveFirst(s.list, c)
      /\ s1.hash = [s.hash EXCEPT ![s.copy[c].url] = None]
      /\ s1 = [copy |-> s1.copy, hash |-> s1.hash, list |-> s1.list, size |-> s1.size,
               leaked |-> s1.leaked]
  BY <1>3 DEF Unlist
<1> HIDE DEF s1
<1>5. /\ s2.size = s.size - s.copy[c].size /\ s2.leaked = s.leaked /\ s2.list = RemoveFirst(s.list, c)
      /\ s2.hash = [s.hash EXCEPT ![s.copy[c].url] = None]
      /\ s2.copy = [s.copy EXCEPT ![c] = None]
      /\ s2 = [copy |-> s2.copy, hash |-> s2.hash, list |-> s2.list, size |-> s2.size,
               leaked |-> s2.leaked]
  BY <1>2, <1>4
<1>6. s2.copy \in [Copy -> CopyState \cup {None}] /\ s2.hash \in [Url -> Copy \cup {None}]
  BY <1>1, <1>5
<1>7. /\ s2.list \in Seq(Copy) /\ IsTidy(s2.list)
      /\ ToSet(s2.list) = ToSet(s.list) \ {c}
  BY <1>1, <1>5, WithoutLemma DEF Without
<1>8. s2.size \in Nat
  BY <1>1, <1>5
<1>9. s2 \in CacheState
  BY <1>5, <1>6, <1>7, <1>8 DEF CacheState
<1> QED BY <1>1, <1>5, <1>7, <1>9

LEMMA FreeFits ==
    ASSUME NEW s, NEW F, NEW L \in [Copy -> Nat], NEW X, Sound(s, F, L, X), NEW c \in Allocated(s)
    PROVE  s.size - s.copy[c].size >= 0
<1>1. s \in CacheState /\ c \in Copy /\ s.copy[c] # None /\ s.copy[c].size \in Nat
  BY StateFields, CopyFields DEF Sound
<1> DEFINE s3 == [s EXCEPT !.copy[c] = None]
<1>2. s3.copy[c] = None /\ \A d \in Copy \ {c} : s3.copy[d] = s.copy[d]
  BY <1>1 DEF CacheState
<1> HIDE DEF s3
<1>3. IsFiniteSet(Units(s)) /\ s.size = Cardinality(Units(s)) + s.leaked
  BY DEF Sound
<1>4. IsFiniteSet(Units(s3)) /\ Cardinality(Units(s)) = Cardinality(Units(s3)) + s.copy[c].size
  BY <1>1, <1>2, <1>3, UnitsOfOne
<1>5. Cardinality(Units(s3)) \in Nat /\ s.leaked \in Nat
  BY <1>1, <1>4, FS_CardinalityType, StateFields
<1> QED BY <1>1, <1>3, <1>4, <1>5

(* It keeps the cache sound, whatever led to the copy before.              *)
LEMMA FreeKeeps ==
    ASSUME NEW s, NEW F, NEW L \in [Copy -> Nat], NEW X, Sound(s, F, L, X),
           NEW c \in Allocated(s), X \subseteq {c}
    PROVE  Sound(FreeMemoryCopy(s, c), F \ {c}, L, {})
<1> DEFINE s2 == FreeMemoryCopy(s, c)
<1>1. /\ s \in CacheState /\ c \in Copy /\ s.copy[c] \in CopyState /\ s.copy[c] # None
      /\ s.copy[c].url \in Url /\ s.copy[c].size \in Nat /\ s.copy[c].readLock \in Nat
      /\ s.hash \in [Url -> Copy \cup {None}]
  BY StateFields, CopyFields DEF Sound
<1> HIDE DEF s2
<1>2. CASE BeingRead(s, c)
  <2>1. /\ s2 \in CacheState /\ s2.size = s.size /\ s2.leaked = s.leaked /\ s2.list = s.list
        /\ s2.hash = [s.hash EXCEPT ![s.copy[c].url] = None]
        /\ s2.copy[c] = [s.copy[c] EXCEPT !.deleteMe = TRUE]
        /\ \A d \in Copy \ {c} : s2.copy[d] = s.copy[d]
    <3>1. Postponed(s, c, s2)
      BY <1>1, <1>2, FreedLater DEF s2
    <3> QED BY <3>1 DEF Postponed
  <2>2. /\ s2.copy[c].size = s.copy[c].size /\ s2.copy[c].readLock = s.copy[c].readLock
        /\ s2.copy[c].deleteMe /\ s.copy[c].readLock > 0 /\ s2.copy[c] # None
    <3>1. s2.copy[c] \in CopyState
      BY <1>1, <2>1 DEF CopyState
    <3>2. s.copy[c].readLock > 0
      BY <1>2 DEF BeingRead
    <3>3. /\ s2.copy[c].size = s.copy[c].size /\ s2.copy[c].readLock = s.copy[c].readLock
          /\ s2.copy[c].deleteMe
      BY <1>1, <2>1 DEF CopyState
    <3> QED BY <3>1, <3>2, <3>3, CopyFields
  <2>3. Allocated(s2) = Allocated(s) /\ Units(s2) = Units(s)
    <3>1. \A d \in Copy : /\ s2.copy[d] = None <=> s.copy[d] = None
                          /\ s.copy[d] # None => s2.copy[d].size = s.copy[d].size
      BY <1>1, <2>1, <2>2
    <3> QED BY <3>1, UnitsSame
  <2>4. ASSUME NEW u \in Url, s2.hash[u] # None
        PROVE  /\ s2.hash[u] \in ToSet(s.list)
               /\ s2.copy[s2.hash[u]].url = u /\ ~s2.copy[s2.hash[u]].deleteMe
    <3>1. u # s.copy[c].url /\ s2.hash[u] = s.hash[u]
      BY <1>1, <2>1, <2>4
    <3>2. /\ s.hash[u] \in ToSet(s.list) \cup X
          /\ s.copy[s.hash[u]].url = u /\ ~s.copy[s.hash[u]].deleteMe
      BY <2>4, <3>1 DEF Sound
    <3>3. s.hash[u] # c /\ s.hash[u] \in Copy
      BY <1>1, <2>4, <3>1, <3>2
    <3> QED BY <2>1, <3>1, <3>2, <3>3
  <2>5. ASSUME NEW d \in Allocated(s) \ ((F \ {c}) \cup ToSet(s.list))
        PROVE  s2.copy[d].deleteMe /\ s2.copy[d].readLock > 0
    <3>1. CASE d = c
      BY <2>2, <3>1
    <3>2. CASE d # c
      <4>1. s.copy[d].deleteMe /\ s.copy[d].readLock > 0
        BY <2>5, <3>2 DEF Sound
      <4>2. d \in Copy
        BY DEF Allocated
      <4> QED BY <2>1, <3>2, <4>1, <4>2
    <3> QED BY <3>1, <3>2
  <2>6. \A d \in F \ {c} : ~s2.copy[d].deleteMe
    <3>1. \A d \in F : d \in Copy /\ ~s.copy[d].deleteMe
      BY DEF Sound, Allocated
    <3> QED BY <2>1, <3>1
  <2>7. \A d \in Copy : L[d] > 0 => d \in Allocated(s) /\ s2.copy[d].readLock >= L[d]
    <3>1. \A d \in Copy : L[d] > 0 => d \in Allocated(s) /\ s.copy[d].readLock >= L[d]
      BY DEF Sound
    <3> QED BY <2>1, <2>2, <3>1
  <2>8. F \ {c} \subseteq Allocated(s) \ ToSet(s.list)
    BY DEF Sound
  <2> QED BY <2>1, <2>3, <2>4, <2>5, <2>6, <2>7, <2>8 DEF Sound, s2
<1>3. CASE ~BeingRead(s, c)
  <2>1. s.copy[c].readLock = 0 /\ L[c] = 0
    <3>1. s.copy[c].readLock = 0
      BY <1>1, <1>3 DEF BeingRead
    <3>2. L[c] > 0 => s.copy[c].readLock >= L[c]
      BY <1>1 DEF Sound
    <3> QED BY <1>1, <3>1, <3>2
  <2>2. s.size - s.copy[c].size >= 0
    BY FreeFits
  <2>3. IsTidy(s.list)
    BY DEF Sound
  <2>4. /\ s2 \in CacheState /\ s2.size = s.size - s.copy[c].size /\ s2.leaked = s.leaked
        /\ IsTidy(s2.list) /\ ToSet(s2.list) = ToSet(s.list) \ {c}
        /\ s2.hash = [s.hash EXCEPT ![s.copy[c].url] = None]
        /\ s2.copy[c] = None
        /\ \A d \in Copy \ {c} : s2.copy[d] = s.copy[d]
    <3>1. s2 = FreeMemoryCopy(s, c)
      BY DEF s2
    <3> QED BY <1>1, <1>3, <2>2, <2>3, <3>1, FreedNow
  <2>5. /\ Allocated(s2) = Allocated(s) \ {c}
        /\ IsFiniteSet(Units(s2)) /\ s2.size = Cardinality(Units(s2)) + s2.leaked
    <3>1. IsFiniteSet(Units(s)) /\ s.size = Cardinality(Units(s)) + s.leaked
      BY DEF Sound
    <3>2. /\ Allocated(s2) = Allocated(s) \ {c} /\ IsFiniteSet(Units(s2))
          /\ Cardinality(Units(s)) = Cardinality(Units(s2)) + s.copy[c].size
      BY <1>1, <2>4, <3>1, UnitsOfOne
    <3>3. Cardinality(Units(s2)) \in Nat /\ s.leaked \in Nat
      BY <1>1, <3>2, FS_CardinalityType, StateFields
    <3> QED BY <1>1, <2>4, <3>1, <3>2, <3>3
  <2>6. ASSUME NEW u \in Url, s2.hash[u] # None
        PROVE  /\ s2.hash[u] \in ToSet(s2.list)
               /\ s2.copy[s2.hash[u]].url = u /\ ~s2.copy[s2.hash[u]].deleteMe
    <3>1. u # s.copy[c].url /\ s2.hash[u] = s.hash[u]
      BY <1>1, <2>4, <2>6
    <3>2. /\ s.hash[u] \in ToSet(s.list) \cup X
          /\ s.copy[s.hash[u]].url = u /\ ~s.copy[s.hash[u]].deleteMe
      BY <2>6, <3>1 DEF Sound
    <3>3. s.hash[u] # c /\ s.hash[u] \in Copy
      BY <1>1, <2>6, <3>1, <3>2
    <3> QED BY <2>4, <3>1, <3>2, <3>3
  <2>7. ASSUME NEW d \in Allocated(s2) \ ((F \ {c}) \cup ToSet(s2.list))
        PROVE  s2.copy[d].deleteMe /\ s2.copy[d].readLock > 0
    <3>1. d \in Allocated(s) \ (F \cup ToSet(s.list) \cup X) /\ d # c /\ d \in Copy
      BY <2>4, <2>5, <2>7 DEF Allocated
    <3>2. s.copy[d].deleteMe /\ s.copy[d].readLock > 0
      BY <3>1 DEF Sound
    <3> QED BY <2>4, <3>1, <3>2
  <2>8. \A d \in F \ {c} : ~s2.copy[d].deleteMe
    <3>1. \A d \in F : d \in Copy /\ ~s.copy[d].deleteMe
      BY DEF Sound, Allocated
    <3> QED BY <2>4, <3>1
  <2>9. \A d \in Copy : L[d] > 0 => d \in Allocated(s2) /\ s2.copy[d].readLock >= L[d]
    <3>1. \A d \in Copy : L[d] > 0 => d \in Allocated(s) /\ s.copy[d].readLock >= L[d]
      BY DEF Sound
    <3>2. \A d \in Copy : L[d] > 0 => d # c
      BY <1>1, <2>1
    <3> QED BY <2>4, <2>5, <3>1, <3>2
  <2>10. F \ {c} \subseteq Allocated(s2) \ ToSet(s2.list) /\ ToSet(s2.list) \subseteq Allocated(s2)
    BY <2>4, <2>5 DEF Sound
  <2> QED BY <2>4, <2>5, <2>6, <2>7, <2>8, <2>9, <2>10 DEF Sound, s2
<1> QED BY <1>2, <1>3
-----------------------------------------------------------------------------
(* A list turned round.                                                    *)
LEMMA ReverseLemma ==
    ASSUME NEW S, NEW list \in Seq(S), IsTidy(list)
    PROVE  /\ Reverse(list) \in Seq(S) /\ IsTidy(Reverse(list))
           /\ ToSet(Reverse(list)) = ToSet(list)
<1> DEFINE n == Len(list)
           w == Reverse(list)
<1>1. DOMAIN list = 1 .. n /\ n \in Nat /\ \A i \in 1 .. n : list[i] \in S
  BY LenProperties, ElementOfSeq
<1>2. w = [j \in 1 .. n |-> list[(n - j) + 1]]
  BY DEF Reverse
<1> HIDE DEF w, n
<1>3. \A j \in 1 .. n : (n - j) + 1 \in 1 .. n /\ (n - ((n - j) + 1)) + 1 = j
  BY <1>1
<1>4. w \in Seq(S) /\ DOMAIN w = 1 .. n
  <2>1. w \in [1 .. n -> S]
    BY <1>1, <1>2, <1>3
  <2> QED BY <1>1, <2>1, SeqDef
<1>5. IsTidy(w)
  <2>1. \A i, j \in 1 .. n : list[i] = list[j] => i = j
    BY <1>1 DEF IsTidy, IsInjective
  <2>2. ASSUME NEW i \in 1 .. n, NEW j \in 1 .. n, w[i] = w[j]
        PROVE  i = j
    <3>1. (n - i) + 1 = (n - j) + 1
      BY <1>2, <1>3, <2>1, <2>2
    <3> QED BY <1>1, <3>1
  <2> QED BY <1>4, <2>2 DEF IsTidy, IsInjective
<1>6. ToSet(w) = ToSet(list)
  <2>1. \A j \in 1 .. n : w[j] \in ToSet(list)
    BY <1>1, <1>2, <1>3 DEF ToSet
  <2>2. \A i \in 1 .. n : list[i] = w[(n - i) + 1]
    BY <1>2, <1>3
  <2>3. \A i \in 1 .. n : list[i] \in ToSet(w)
    BY <1>3, <1>4, <2>2 DEF ToSet
  <2> QED BY <1>1, <1>4, <2>1, <2>3 DEF ToSet
<1> QED BY <1>4, <1>5, <1>6 DEF w

(* What is left of a list that is taken apart down to its i-th element:    *)
(* the ones behind it come to the front, the other way round.              *)
Apart(list, i) == Reverse(SubSeq(list, i + 1, Len(list))) \o SubSeq(list, 1, i - 1)

BehindToFront(list, n, i, w) ==
    \A j \in 1 .. n - 1 : /\ j <= n - i => w[j] = list[(n - j) + 1]
                          /\ ~(j <= n - i) => w[j] = list[j - (n - i)]

LEMMA TakenApart ==
    ASSUME NEW S, NEW list \in Seq(S), NEW n \in Nat, Len(list) = n, NEW i \in 1 .. n,
           NEW w, w = Apart(list, i)
    PROVE  w \in Seq(S) /\ Len(w) = n - 1 /\ BehindToFront(list, n, i, w)
<1> DEFINE a == SubSeq(list, i + 1, n)
           r == Reverse(a)
           b == SubSeq(list, 1, i - 1)
<1>1. DOMAIN list = 1 .. n /\ n \in Nat /\ \A k \in 1 .. n : list[k] \in S
  BY LenProperties, ElementOfSeq
<1>2. /\ a \in Seq(S) /\ Len(a) = n - i
      /\ \A j \in 1 .. n - i : a[j] = list[i + j]
  <2>1. \A k \in i + 1 .. n : list[k] \in S
    BY <1>1
  <2>2. /\ a \in Seq(S) /\ Len(a) = IF i + 1 <= n THEN n - (i + 1) + 1 ELSE 0
        /\ \A j \in 1 .. n - (i + 1) + 1 : a[j] = list[(i + 1) + j - 1]
    BY <1>1, <2>1, SubSeqProperties
  <2> HIDE DEF a
  <2>3. /\ n - (i + 1) + 1 = n - i /\ (IF i + 1 <= n THEN n - i ELSE 0) = n - i
        /\ \A j \in 1 .. n - i : (i + 1) + j - 1 = i + j
    <3>1. n \in Nat /\ i \in Nat /\ i <= n
      BY <1>1
    <3>2. n - (i + 1) + 1 = n - i
      BY <3>1
    <3>3. i + 1 <= n \/ n - i = 0
      BY <3>1
    <3>4. \A j \in 1 .. n - i : (i + 1) + j - 1 = i + j
      BY <3>1
    <3> QED BY <3>2, <3>3, <3>4
  <2>4. \A j \in 1 .. n - i : a[j] = list[(i + 1) + j - 1]
    BY <2>2, <2>3
  <2>5. \A j \in 1 .. n - i : a[j] = list[i + j]
    BY <2>3, <2>4
  <2> QED BY <2>2, <2>3, <2>5
<1>3. /\ b \in Seq(S) /\ Len(b) = i - 1
      /\ \A j \in 1 .. i - 1 : b[j] = list[j]
  <2>1. \A k \in 1 .. i - 1 : list[k] \in S
    BY <1>1
  <2>2. /\ b \in Seq(S) /\ Len(b) = IF 1 <= i - 1 THEN (i - 1) - 1 + 1 ELSE 0
        /\ \A j \in 1 .. (i - 1) - 1 + 1 : b[j] = list[1 + j - 1]
    BY <1>1, <2>1, SubSeqProperties
  <2>3. /\ (i - 1) - 1 + 1 = i - 1 /\ (IF 1 <= i - 1 THEN i - 1 ELSE 0) = i - 1
        /\ \A j \in 1 .. i - 1 : 1 + j - 1 = j
    BY <1>1
  <2> HIDE DEF b
  <2>4. \A j \in 1 .. i - 1 : b[j] = list[1 + j - 1]
    BY <2>2, <2>3
  <2>5. \A j \in 1 .. i - 1 : b[j] = list[j]
    BY <2>3, <2>4
  <2> QED BY <2>2, <2>3, <2>5
<1> HIDE DEF a, b
<1>4. r = [j \in 1 .. n - i |-> a[((n - i) - j) + 1]]
  BY <1>2 DEF Reverse
<1>5. \A j \in 1 .. n - i : ((n - i) - j) + 1 \in 1 .. n - i /\ i + (((n - i) - j) + 1) = (n - j) + 1
  BY <1>1
<1> HIDE DEF r
<1>6. r \in Seq(S) /\ Len(r) = n - i /\ \A j \in 1 .. n - i : r[j] = list[(n - j) + 1]
  <2>1. \A j \in 1 .. n - i : r[j] = list[(n - j) + 1]
    BY <1>2, <1>4, <1>5
  <2>2. \A j \in 1 .. n - i : r[j] \in S
    <3>1. \A j \in 1 .. n - i : (n - j) + 1 \in 1 .. n
      BY <1>1
    <3> QED BY <1>1, <2>1, <3>1
  <2>3. r \in [1 .. n - i -> S] /\ n - i \in Nat
    BY <1>1, <1>4, <2>2
  <2>4. r \in Seq(S) /\ DOMAIN r = 1 .. n - i
    BY <2>3, SeqDef
  <2>5. Len(r) \in Nat /\ DOMAIN r = 1 .. Len(r)
    BY <2>4, LenProperties
  <2>6. Len(r) = n - i
    BY <2>3, <2>4, <2>5
  <2> QED BY <2>1, <2>4, <2>6
<1>7. /\ w \in Seq(S) /\ Len(w) = (n - i) + (i - 1)
      /\ \A j \in 1 .. (n - i) + (i - 1) : w[j] = IF j <= n - i THEN r[j] ELSE b[j - (n - i)]
  <2>1. w = r \o b
    BY DEF a, b, r, Apart
  <2>2. /\ r \o b \in Seq(S) /\ Len(r \o b) = Len(r) + Len(b)
        /\ \A j \in 1 .. Len(r) + Len(b) :
             (r \o b)[j] = IF j <= Len(r) THEN r[j] ELSE b[j - Len(r)]
    BY <1>3, <1>6, ConcatProperties
  <2> QED BY <1>3, <1>6, <2>1, <2>2
<1>8. \A j \in 1 .. n - 1 : /\ j \in 1 .. (n - i) + (i - 1)
                            /\ j <= n - i => j \in 1 .. n - i
                            /\ ~(j <= n - i) => j - (n - i) \in 1 .. i - 1
  BY <1>1
<1>9. (n - i) + (i - 1) = n - 1
  BY <1>1
<1> QED BY <1>3, <1>6, <1>7, <1>8, <1>9 DEF BehindToFront

LEMMA TakenApartSet ==
    ASSUME NEW S, NEW list \in Seq(S), IsTidy(list), NEW i \in 1 .. Len(list),
           NEW w, w = Apart(list, i)
    PROVE  w \in Seq(S) /\ IsTidy(w) /\ ToSet(w) = ToSet(list) \ {list[i]}
<1>0. PICK n \in Nat : Len(list) = n
  BY LenProperties
<1> DEFINE p == [j \in 1 .. n - 1 |-> IF j <= n - i THEN (n - j) + 1 ELSE j - (n - i)]
<1>1. DOMAIN list = 1 .. n /\ n \in Nat
  BY <1>0, LenProperties
<1>2. w \in Seq(S) /\ Len(w) = n - 1 /\ \A j \in 1 .. n - 1 : w[j] = list[p[j]]
  <2>1. \A j \in 1 .. n - 1 : p[j] = IF j <= n - i THEN (n - j) + 1 ELSE j - (n - i)
    OBVIOUS
  <2>2. /\ w \in Seq(S) /\ Len(w) = n - 1
        /\ \A j \in 1 .. n - 1 :
             /\ j <= n - i => w[j] = list[(n - j) + 1]
             /\ ~(j <= n - i) => w[j] = list[j - (n - i)]
    <3>1. i \in 1 .. n
      BY <1>0
    <3>2. w \in Seq(S) /\ Len(w) = n - 1 /\ BehindToFront(list, n, i, w)
      BY <1>0, <3>1, TakenApart
    <3> QED BY <3>2 DEF BehindToFront
  <2> HIDE DEF p
  <2> QED BY <2>1, <2>2
<1>3. DOMAIN w = 1 .. n - 1
  BY <1>2, LenProperties
<1>4. /\ \A j \in 1 .. n - 1 : p[j] \in 1 .. n /\ p[j] # i
      /\ \A j, k \in 1 .. n - 1 : p[j] = p[k] => j = k
  BY <1>1
<1>5. \A k \in 1 .. n : k # i => \E j \in 1 .. n - 1 : p[j] = k
  <2> SUFFICES ASSUME NEW k \in 1 .. n, k # i
               PROVE  \E j \in 1 .. n - 1 : p[j] = k
    OBVIOUS
  <2>1. CASE k > i
    <3>1. (n - k) + 1 \in 1 .. n - 1 /\ (n - k) + 1 <= n - i /\ (n - ((n - k) + 1)) + 1 = k
      BY <1>1, <2>1
    <3>2. p[(n - k) + 1] = k
      BY <3>1
    <3> QED BY <3>1, <3>2
  <2>2. CASE k < i
    <3>1. k + (n - i) \in 1 .. n - 1 /\ ~(k + (n - i) <= n - i) /\ (k + (n - i)) - (n - i) = k
      BY <1>1, <2>2
    <3>2. p[k + (n - i)] = k
      BY <3>1
    <3> QED BY <3>1, <3>2
  <2> QED BY <1>1, <2>1, <2>2
<1>6. \A j, k \in 1 .. n : list[j] = list[k] => j = k
  BY <1>1 DEF IsTidy, IsInjective
<1> HIDE DEF p
<1>7. IsTidy(w)
  <2>1. ASSUME NEW j \in 1 .. n - 1, NEW k \in 1 .. n - 1, w[j] = w[k]
        PROVE  j = k
    <3>1. list[p[j]] = list[p[k]] /\ p[j] \in 1 .. n /\ p[k] \in 1 .. n
      BY <1>2, <1>4, <2>1
    <3>2. p[j] = p[k]
      BY <1>6, <3>1
    <3> QED BY <1>4, <3>2
  <2> QED BY <1>3, <2>1 DEF IsTidy, IsInjective
<1>8. ASSUME NEW j \in 1 .. n - 1
      PROVE  w[j] \in ToSet(list) \ {list[i]}
  <2>1. w[j] = list[p[j]] /\ p[j] \in 1 .. n /\ p[j] # i
    BY <1>2, <1>4
  <2>2. i \in 1 .. n
    BY <1>0
  <2>3. list[p[j]] # list[i]
    BY <1>6, <2>1, <2>2
  <2>4. list[p[j]] \in ToSet(list)
    BY <1>1, <2>1 DEF ToSet
  <2> QED BY <2>1, <2>3, <2>4
<1>9. ASSUME NEW k \in 1 .. n, k # i
      PROVE  list[k] \in ToSet(w)
  <2>1. PICK j \in 1 .. n - 1 : p[j] = k
    BY <1>5, <1>9
  <2>2. w[j] = list[k]
    BY <1>2, <2>1
  <2> QED BY <1>3, <2>2 DEF ToSet
<1>10. ToSet(w) = ToSet(list) \ {list[i]}
  <2>1. \A e \in ToSet(w) : e \in ToSet(list) \ {list[i]}
    BY <1>3, <1>8 DEF ToSet
  <2>2. ASSUME NEW e \in ToSet(list), e # list[i]
        PROVE  e \in ToSet(w)
    <3>1. PICK k \in 1 .. n : e = list[k]
      BY <1>1 DEF ToSet
    <3> QED BY <1>9, <2>2, <3>1
  <2> QED BY <2>1, <2>2
<1> QED BY <1>2, <1>7, <1>10

(* Another order of the list leaves the cache sound, and so does taking a  *)
(* copy off it that is about to be freed.                                  *)
LEMMA RelistKeeps ==
    ASSUME NEW s, NEW F, NEW L \in [Copy -> Nat], Sound(s, F, L, {}), NEW c,
           NEW w \in Seq(Copy), IsTidy(w), ToSet(w) = ToSet(s.list) \ {c}
    PROVE  Sound([s EXCEPT !.list = w], F, L, {c})
<1> DEFINE s2 == [s EXCEPT !.list = w]
<1>1. s2.copy = s.copy /\ s2.hash = s.hash /\ s2.list = w /\ s2.size = s.size /\ s2.leaked = s.leaked /\ s2 \in CacheState
  BY DEF Sound, CacheState
<1> HIDE DEF s2
<1>2. Allocated(s2) = Allocated(s) /\ Units(s2) = Units(s)
  BY <1>1 DEF Allocated, Units
<1>3. \A u \in Url : s2.hash[u] # None =>
        /\ s2.hash[u] \in ToSet(w) \cup {c}
        /\ s2.copy[s2.hash[u]].url = u /\ ~s2.copy[s2.hash[u]].deleteMe
  BY <1>1 DEF Sound
<1>4. \A d \in Allocated(s2) \ (F \cup ToSet(w) \cup {c}) : s2.copy[d].deleteMe /\ s2.copy[d].readLock > 0
  BY <1>1, <1>2 DEF Sound
<1>5. /\ IsFiniteSet(Units(s2)) /\ s2.size = Cardinality(Units(s2)) + s2.leaked
      /\ ToSet(w) \subseteq Allocated(s2) /\ F \subseteq Allocated(s2) \ ToSet(w)
      /\ \A d \in F : ~s2.copy[d].deleteMe
      /\ \A d \in Copy : L[d] > 0 => d \in Allocated(s2) /\ s2.copy[d].readLock >= L[d]
  BY <1>1, <1>2 DEF Sound
<1> QED BY <1>1, <1>3, <1>4, <1>5 DEF Sound, s2

LEMMA ReorderKeeps ==
    ASSUME NEW s, NEW F, NEW L \in [Copy -> Nat], Sound(s, F, L, {}),
           NEW w \in Seq(Copy), IsTidy(w), ToSet(w) = ToSet(s.list)
    PROVE  Sound([s EXCEPT !.list = w], F, L, {})
<1> DEFINE s2 == [s EXCEPT !.list = w]
<1>1. s2.copy = s.copy /\ s2.hash = s.hash /\ s2.list = w /\ s2.size = s.size /\ s2.leaked = s.leaked /\ s2 \in CacheState
  BY DEF Sound, CacheState
<1> HIDE DEF s2
<1>2. Allocated(s2) = Allocated(s) /\ Units(s2) = Units(s)
  BY <1>1 DEF Allocated, Units
<1>3. \A u \in Url : s2.hash[u] # None =>
        /\ s2.hash[u] \in ToSet(w) \cup {}
        /\ s2.copy[s2.hash[u]].url = u /\ ~s2.copy[s2.hash[u]].deleteMe
  BY <1>1 DEF Sound
<1>4. \A d \in Allocated(s2) \ (F \cup ToSet(w) \cup {}) : s2.copy[d].deleteMe /\ s2.copy[d].readLock > 0
  BY <1>1, <1>2 DEF Sound
<1>5. /\ IsFiniteSet(Units(s2)) /\ s2.size = Cardinality(Units(s2)) + s2.leaked
      /\ ToSet(w) \subseteq Allocated(s2) /\ F \subseteq Allocated(s2) \ ToSet(w)
      /\ \A d \in F : ~s2.copy[d].deleteMe
      /\ \A d \in Copy : L[d] > 0 => d \in Allocated(s2) /\ s2.copy[d].readLock >= L[d]
  BY <1>1, <1>2 DEF Sound
<1> QED BY <1>1, <1>3, <1>4, <1>5 DEF Sound, s2

(* The longest place among some places of a list.                          *)
LEMMA MaxLemma ==
    ASSUME NEW n \in Nat, NEW T, T \subseteq 1 .. n, T # {}
    PROVE  Max(T) \in T /\ \A i \in T : i <= Max(T)
<1> DEFINE D == {n - i : i \in T}
<1>1. D \subseteq Nat /\ D # {}
  <2>1. \A i \in T : n - i \in Nat
    OBVIOUS
  <2> QED BY <2>1
<1> HIDE DEF D
<1>2. PICK x \in D : \A y \in D : x <= y
  BY <1>1, LeastNumber
<1>3. PICK m \in T : x = n - m
  BY <1>2 DEF D
<1>4. ASSUME NEW i \in T PROVE m >= i
  <2>1. n - i \in D
    BY DEF D
  <2>2. n - m <= n - i /\ m \in Nat /\ i \in Nat
    BY <1>2, <1>3, <2>1
  <2> QED BY <2>2
<1>5. \E z \in T : \A i \in T : z >= i
  BY <1>4
<1>6. Max(T) \in T /\ \A i \in T : Max(T) >= i
  BY <1>5 DEF Max
<1> QED BY <1>6

(* r is s with some of its copies taken away or only withdrawn.            *)
Fewer(s, r) ==
    /\ \A c \in Allocated(r) : /\ c \in Allocated(s) /\ r.copy[c].locks = s.copy[c].locks
                             /\ r.copy[c].url = s.copy[c].url
    /\ \A u \in Url : r.hash[u] = s.hash[u] \/ r.hash[u] = None

TakenAway(s, c, r) ==
    /\ Fewer(s, r) /\ r.hash[s.copy[c].url] = None
    /\ \A d \in Copy \ {c} : r.copy[d] = s.copy[d]
    /\ r.list = s.list \/ (c \in ToSet(s.list) /\ r.list = Without(s.list, c))

LEMMA FreeTakesAway ==
    ASSUME NEW s, NEW F, NEW L \in [Copy -> Nat], NEW X, Sound(s, F, L, X),
           NEW c \in Allocated(s), X \subseteq {c}
    PROVE  TakenAway(s, c, FreeMemoryCopy(s, c))
<1> DEFINE s2 == FreeMemoryCopy(s, c)
<1>1. /\ s \in CacheState /\ c \in Copy /\ s.copy[c] \in CopyState /\ s.copy[c] # None
      /\ s.copy[c].url \in Url /\ s.hash \in [Url -> Copy \cup {None}] /\ s.list \in Seq(Copy)
      /\ IsTidy(s.list)
  BY StateFields, CopyFields DEF Sound
<1>2. Sound(s2, F \ {c}, L, {})
  BY FreeKeeps
<1> HIDE DEF s2
<1>3. CASE BeingRead(s, c)
  <2>1. /\ s2.list = s.list
        /\ s2.hash = [s.hash EXCEPT ![s.copy[c].url] = None]
        /\ s2.copy[c] = [s.copy[c] EXCEPT !.deleteMe = TRUE]
        /\ \A d \in Copy \ {c} : s2.copy[d] = s.copy[d]
    <3>1. Postponed(s, c, s2)
      BY <1>1, <1>3, FreedLater DEF s2
    <3> QED BY <3>1 DEF Postponed
  <2>2. s2.copy[c].locks = s.copy[c].locks /\ s2.copy[c].url = s.copy[c].url
    BY <1>1, <2>1 DEF CopyState
  <2>3. \A d \in Allocated(s2) : /\ d \in Allocated(s) /\ s2.copy[d].locks = s.copy[d].locks
                               /\ s2.copy[d].url = s.copy[d].url
    BY <2>1, <2>2 DEF Allocated
  <2>4. \A u \in Url : s2.hash[u] = s.hash[u] \/ s2.hash[u] = None
    BY <1>1, <2>1
  <2> QED BY <1>1, <2>1, <2>3, <2>4 DEF TakenAway, Fewer, s2
<1>4. CASE ~BeingRead(s, c)
  <2>1. s.size - s.copy[c].size >= 0
    BY FreeFits
  <2>2. /\ s2.hash = [s.hash EXCEPT ![s.copy[c].url] = None]
        /\ s2.list = RemoveFirst(s.list, c)
        /\ s2.copy[c] = None /\ \A d \in Copy \ {c} : s2.copy[d] = s.copy[d]
    BY <1>1, <1>4, <2>1, FreedNow DEF s2
  <2>3. \A d \in Allocated(s2) : /\ d \in Allocated(s) /\ s2.copy[d].locks = s.copy[d].locks
                               /\ s2.copy[d].url = s.copy[d].url
    BY <2>2 DEF Allocated
  <2>4. \A u \in Url : s2.hash[u] = s.hash[u] \/ s2.hash[u] = None
    BY <1>1, <2>2
  <2>5. c \notin ToSet(s.list) => s2.list = s.list
    <3>1. DOMAIN s.list = 1 .. Len(s.list)
      BY <1>1, LenProperties
    <3> QED BY <2>2, <3>1 DEF RemoveFirst, ToSet
  <2>6. c \in ToSet(s.list) => s2.list = Without(s.list, c)
    BY <2>2 DEF Without
  <2> QED BY <1>1, <2>2, <2>3, <2>4, <2>5, <2>6 DEF TakenAway, Fewer, s2
<1> QED BY <1>3, <1>4

(* net_remove_last_memory_cache_object, for whichever element of the list. *)
LEMMA TakeOutDoes ==
    ASSUME NEW s, NEW F, NEW L \in [Copy -> Nat], Sound(s, F, L, {}),
           NEW i \in DOMAIN s.list
    PROVE  /\ Sound(TakeOut(s, i), F, L, {}) /\ Fewer(s, TakeOut(s, i))
           /\ TakeOut(s, i).list = Apart(s.list, i)
<1> DEFINE c == s.list[i]
           w == Apart(s.list, i)
           s1 == [s EXCEPT !.list = w]
<1>1. /\ s.list \in Seq(Copy) /\ IsTidy(s.list) /\ DOMAIN s.list = 1 .. Len(s.list)
      /\ s \in CacheState
  BY LenProperties DEF Sound, CacheState
<1>2. c \in ToSet(s.list) /\ c \in Allocated(s) /\ c \notin F
  BY DEF Sound, ToSet
<1>3. w \in Seq(Copy) /\ IsTidy(w) /\ ToSet(w) = ToSet(s.list) \ {c}
  <2> HIDE DEF w
  <2> QED BY <1>1, TakenApartSet DEF w
<1>4. TakeOut(s, i) = FreeMemoryCopy(s1, c)
  BY DEF TakeOut, Apart
<1> HIDE DEF c, w
<1>5. Sound(s1, F, L, {c})
  BY <1>3, RelistKeeps
<1>6. s1.copy = s.copy /\ s1.hash = s.hash /\ s1.list = w
  BY <1>1 DEF CacheState
<1>7. c \in Allocated(s1)
  BY <1>2, <1>6 DEF Allocated
<1> HIDE DEF s1
<1>8. Sound(FreeMemoryCopy(s1, c), F \ {c}, L, {})
  BY <1>5, <1>7, FreeKeeps
<1>9. F \ {c} = F
  BY <1>2
<1>10. Fewer(s1, FreeMemoryCopy(s1, c)) /\ FreeMemoryCopy(s1, c).list = w
  <2>1. c \notin ToSet(s1.list)
    BY <1>3, <1>6
  <2>2. TakenAway(s1, c, FreeMemoryCopy(s1, c))
    BY <1>5, <1>7, FreeTakesAway
  <2> QED BY <1>6, <2>1, <2>2 DEF TakenAway
<1>11. Fewer(s, FreeMemoryCopy(s1, c))
  BY <1>6, <1>10 DEF Fewer, Allocated
<1> QED BY <1>4, <1>8, <1>9, <1>10, <1>11 DEF w
-----------------------------------------------------------------------------
(* net_ReduceMemoryCacheTo.  A cache r that came out of cache s by turns   *)
(* of its loop has lost no copy with locks, and none before the ones used  *)
(* longer ago: the copies without locks are still in their order.          *)
KeepsLocked(s, r) ==
    /\ ToSet(r.list) \subseteq ToSet(s.list)
    /\ \A c \in ToSet(s.list) \ ToSet(r.list) : ~Locked(s, c)

OldestFirst(s, r) ==
    \A i, j \in DOMAIN s.list :
        i < j /\ s.list[i] \notin ToSet(r.list) /\ ~Locked(s, s.list[j])
            => s.list[j] \notin ToSet(r.list)

InOrder(s, r) ==
    \A i, j \in DOMAIN r.list :
        i < j /\ ~Locked(r, r.list[i]) /\ ~Locked(r, r.list[j])
            => \A k, m \in DOMAIN s.list :
                 s.list[k] = r.list[i] /\ s.list[m] = r.list[j] => k < m

Thinned(s, r) == KeepsLocked(s, r) /\ OldestFirst(s, r) /\ Fewer(s, r)

Stuck(r, max) == r.size <= max \/ Removable(r) = {}

LEMMA BackIndex ==
    ASSUME NEW n \in Nat, NEW i \in 1 .. n, NEW l \in 1 .. n - 1, l <= n - i
    PROVE  (n - l) + 1 \in 1 .. n /\ ~((n - l) + 1 <= i)
OBVIOUS

LEMMA FrontIndexes ==
    ASSUME NEW n \in Nat, NEW i \in 1 .. n, NEW j \in 1 .. n - 1, NEW k \in 1 .. n - 1, j < k,
           ~(j <= n - i), ~(k <= n - i)
    PROVE  /\ j - (n - i) \in 1 .. n /\ k - (n - i) \in 1 .. n
           /\ j - (n - i) < k - (n - i)
<1>1. PICK m \in Nat : m = n - i /\ m <= n
  OBVIOUS
<1>2. j - m \in 1 .. n /\ k - m \in 1 .. n /\ j - m < k - m
  BY <1>1
<1> QED BY <1>1, <1>2

LEMMA OneLess ==
    ASSUME NEW s, s.list \in Seq(Copy), NEW F, NEW L \in [Copy -> Nat],
           NEW r, Sound(r, F, L, {}),
           Thinned(s, r), InOrder(s, r),
           NEW i \in Removable(r), \A j \in Removable(r) : j <= i, NEW r2, r2 = TakeOut(r, i)
    PROVE  /\ Sound(r2, F, L, {}) /\ Thinned(s, r2) /\ InOrder(s, r2)
           /\ Len(r2.list) < Len(r.list)
<1>0. PICK n \in Nat : Len(r.list) = n
  <2>1. r.list \in Seq(Copy)
    BY DEF Sound, CacheState
  <2> QED BY <2>1, LenProperties
<1> DEFINE w == r2.list
<1>1. /\ r.list \in Seq(Copy) /\ IsTidy(r.list) /\ DOMAIN r.list = 1 .. n
      /\ i \in 1 .. n /\ ~Locked(r, r.list[i])
  BY <1>0, LenProperties DEF Sound, CacheState, Removable
<1>2. /\ Sound(r2, F, L, {}) /\ Fewer(r, r2) /\ w = Apart(r.list, i)
  BY <1>1, TakeOutDoes
<1> HIDE DEF w
<1>3. /\ w \in Seq(Copy) /\ Len(w) = n - 1
      /\ \A j \in 1 .. n - 1 :
           /\ j <= n - i => w[j] = r.list[(n - j) + 1]
           /\ ~(j <= n - i) => w[j] = r.list[j - (n - i)]
  <2>1. w \in Seq(Copy) /\ Len(w) = n - 1 /\ BehindToFront(r.list, n, i, w)
    BY <1>0, <1>1, <1>2, TakenApart
  <2> QED BY <2>1 DEF BehindToFront
<1>4. ToSet(w) = ToSet(r.list) \ {r.list[i]}
  BY <1>0, <1>1, <1>2, TakenApartSet
<1>5. DOMAIN w = 1 .. n - 1
  BY <1>3, LenProperties
<1>6. \A c \in ToSet(w) : Locked(r2, c) <=> Locked(r, c)
  <2>1. \A c \in ToSet(w) : c \in Allocated(r2)
    BY <1>2 DEF Sound, w
  <2> QED BY <1>2, <2>1 DEF Fewer, Locked
<1>7. \A c \in ToSet(r.list) : Locked(r, c) <=> Locked(s, c)
  <2>1. \A c \in ToSet(r.list) : c \in Allocated(r)
    BY DEF Sound
  <2> QED BY <2>1 DEF Thinned, Fewer, Locked
<1>8. Fewer(s, r2)
  BY <1>2 DEF Fewer, Thinned
<1>9. r.list[i] \in ToSet(r.list) /\ ~Locked(s, r.list[i])
  <2>1. r.list[i] \in ToSet(r.list)
    BY <1>1 DEF ToSet
  <2> QED BY <1>1, <1>7, <2>1
<1>10. KeepsLocked(s, r2)
  <2>1. /\ ToSet(r.list) \subseteq ToSet(s.list)
        /\ \A c \in ToSet(s.list) \ ToSet(r.list) : ~Locked(s, c)
    BY DEF Thinned, KeepsLocked
  <2>2. /\ ToSet(w) \subseteq ToSet(s.list)
        /\ \A c \in ToSet(s.list) \ ToSet(w) : ~Locked(s, c)
    BY <1>4, <1>9, <2>1
  <2> QED BY <2>2 DEF KeepsLocked, w
<1>11. OldestFirst(s, r2)
  <2> SUFFICES ASSUME NEW a \in DOMAIN s.list, NEW b \in DOMAIN s.list, a < b,
                      s.list[a] \notin ToSet(w), ~Locked(s, s.list[b]), s.list[b] \in ToSet(w)
               PROVE  FALSE
    BY DEF OldestFirst, w
  <2>1. s.list[b] \in ToSet(r.list) /\ s.list[b] # r.list[i]
    BY <1>4
  <2>2. s.list[a] = r.list[i]
    <3>1. s.list[a] \in ToSet(r.list)
      BY <2>1 DEF Thinned, OldestFirst
    <3> QED BY <1>4, <3>1
  <2>3. PICK m \in 1 .. n : s.list[b] = r.list[m]
    BY <1>1, <2>1 DEF ToSet
  <2>4. ~Locked(r, r.list[m])
    BY <1>7, <2>1, <2>3
  <2>5. m \in Removable(r) /\ m # i
    BY <1>1, <2>1, <2>3, <2>4 DEF Removable
  <2>6. m < i
    BY <1>1, <2>5
  <2>7. b < a
    BY <1>1, <2>2, <2>3, <2>4, <2>6 DEF InOrder
  <2>8. DOMAIN s.list = 1 .. Len(s.list) /\ Len(s.list) \in Nat
    BY LenProperties
  <2> QED BY <2>7, <2>8
<1>12. InOrder(s, r2)
  <2> SUFFICES ASSUME NEW j \in 1 .. n - 1, NEW k \in 1 .. n - 1, j < k,
                      ~Locked(r2, w[j]), ~Locked(r2, w[k]),
                      NEW x \in DOMAIN s.list, NEW y \in DOMAIN s.list,
                      s.list[x] = w[j], s.list[y] = w[k]
               PROVE  x < y
    <3>1. InOrder(s, r2) <=>
            \A j, k \in DOMAIN w :
              j < k /\ ~Locked(r2, w[j]) /\ ~Locked(r2, w[k])
                => \A x, y \in DOMAIN s.list : s.list[x] = w[j] /\ s.list[y] = w[k] => x < y
      BY DEF InOrder, w
    <3> QED BY <1>5, <3>1
  <2>1. w[j] \in ToSet(w) /\ w[k] \in ToSet(w)
    BY <1>5 DEF ToSet
  <2>2. ~Locked(r, w[j]) /\ ~Locked(r, w[k])
    BY <1>6, <2>1
  <2>3. ASSUME NEW l \in 1 .. n - 1, ~Locked(r, w[l])
        PROVE  ~(l <= n - i)
    <3> SUFFICES ASSUME l <= n - i PROVE FALSE
      OBVIOUS
    <3>1. w[l] = r.list[(n - l) + 1]
      BY <1>3
    <3>2. (n - l) + 1 \in 1 .. n /\ ~((n - l) + 1 <= i)
      <4>1. n \in Nat /\ i \in 1 .. n
        BY <1>1
      <4> QED BY <4>1, BackIndex
    <3>3. (n - l) + 1 \in Removable(r)
      BY <1>1, <2>3, <3>1, <3>2 DEF Removable
    <3> QED BY <3>2, <3>3
  <2>4. ~(j <= n - i) /\ ~(k <= n - i)
    BY <2>2, <2>3
  <2>5. w[j] = r.list[j - (n - i)] /\ w[k] = r.list[k - (n - i)]
    BY <1>3, <2>4
  <2>6. j - (n - i) \in 1 .. n /\ k - (n - i) \in 1 .. n /\ j - (n - i) < k - (n - i)
    <3>1. n \in Nat /\ i \in 1 .. n
      BY <1>1
    <3> QED BY <2>4, <3>1, FrontIndexes
  <2>7. PICK p \in 1 .. n, q \in 1 .. n : p < q /\ w[j] = r.list[p] /\ w[k] = r.list[q]
    BY <2>5, <2>6
  <2> QED BY <1>1, <2>2, <2>7 DEF InOrder
<1> QED BY <1>0, <1>2, <1>3, <1>8, <1>10, <1>11, <1>12 DEF Thinned, w

LEMMA TurnLemma ==
    ASSUME NEW s, s.list \in Seq(Copy), NEW F, NEW L \in [Copy -> Nat],
           NEW r, Sound(r, F, L, {}),
           Thinned(s, r), InOrder(s, r), NEW max, NEW r2, r2 = Turn(r, max)
    PROVE  /\ Sound(r2, F, L, {}) /\ Thinned(s, r2) /\ InOrder(s, r2)
           /\ Stuck(r2, max) \/ Len(r2.list) < Len(r.list)
           /\ Stuck(r, max) => Stuck(r2, max)
<1>1. CASE Stuck(r, max)
  <2>1. r2 = r
    BY <1>1 DEF Stuck, Turn
  <2> QED BY <1>1, <2>1
<1>2. CASE ~Stuck(r, max)
  <2> DEFINE i == Max(Removable(r))
  <2>1. Removable(r) # {} /\ r2 = TakeOut(r, i)
    BY <1>2 DEF Stuck, Turn, RemoveLast
  <2>2. DOMAIN r.list = 1 .. Len(r.list) /\ Len(r.list) \in Nat
    BY LenProperties DEF Sound, CacheState
  <2>3. Removable(r) \subseteq 1 .. Len(r.list)
    BY <2>2 DEF Removable
  <2> HIDE DEF i
  <2>4. i \in Removable(r) /\ \A j \in Removable(r) : j <= i
    BY <2>1, <2>2, <2>3, MaxLemma DEF i
  <2>5. /\ Sound(r2, F, L, {}) /\ Thinned(s, r2) /\ InOrder(s, r2)
        /\ Len(r2.list) < Len(r.list)
    BY <2>1, <2>4, OneLess
  <2> QED BY <1>2, <2>5
<1> QED BY <1>1, <1>2

(* The turns the loop makes, one after the other.                          *)
LEMMA TurnsAre ==
    ASSUME NEW s, NEW max, NEW n \in Nat, Len(s.list) = n
    PROVE  /\ AfterTurns(s, max)[0] = s
           /\ \A i \in 1 .. n : AfterTurns(s, max)[i] = Turn(AfterTurns(s, max)[i - 1], max)
<1> DEFINE Def(f, m) == f = [k \in 0 .. m |-> IF k = 0 THEN s ELSE Turn(f[k - 1], max)]
           T == {m \in 0 .. n : \E f : Def(f, m)}
<1>1. 0 \in T
  <2> DEFINE f == [k \in 0 .. 0 |-> s]
  <2>1. Def(f, 0)
    OBVIOUS
  <2> HIDE DEF f, Def
  <2>2. \E h : Def(h, 0)
    BY <2>1
  <2> QED BY <2>2
<1>2. ASSUME NEW i \in 1 .. n, i - 1 \in T
      PROVE  i \in T
  <2>1. PICK f : Def(f, i - 1)
    BY <1>2
  <2> DEFINE g == [k \in 0 .. i |-> IF k = i THEN Turn(f[i - 1], max) ELSE f[k]]
             h == [k \in 0 .. i |-> IF k = 0 THEN s ELSE Turn(g[k - 1], max)]
  <2>2. \A k \in 0 .. i - 1 : g[k] = f[k]
    OBVIOUS
  <2>3. g[i] = Turn(f[i - 1], max) /\ i \in 0 .. i /\ i - 1 \in 0 .. i - 1 /\ i # 0
    OBVIOUS
  <2>4. f[0] = s /\ \A k \in 1 .. i - 1 : f[k] = Turn(f[k - 1], max)
    BY <2>1
  <2>5. h[0] = s /\ \A k \in 1 .. i : h[k] = Turn(g[k - 1], max)
    OBVIOUS
  <2>6. g = [k \in 0 .. i |-> g[k]] /\ h = [k \in 0 .. i |-> h[k]]
    OBVIOUS
  <2>7. \A k \in 0 .. i : k = 0 \/ k \in 1 .. i - 1 \/ k = i
    OBVIOUS
  <2>8. \A k \in 1 .. i - 1 : k - 1 \in 0 .. i - 1 /\ k \in 0 .. i - 1 /\ k \in 1 .. i
    OBVIOUS
  <2>9. 0 \in 0 .. i - 1 /\ i \in 1 .. i
    OBVIOUS
  <2> HIDE DEF g, h
  <2>10. g[0] = h[0]
    BY <2>2, <2>4, <2>5, <2>9
  <2>11. \A k \in 1 .. i - 1 : g[k] = h[k]
    BY <2>2, <2>4, <2>5, <2>8
  <2>12. g[i] = h[i]
    BY <2>2, <2>3, <2>5, <2>9
  <2>13. \A k \in 0 .. i : g[k] = h[k]
    BY <2>7, <2>10, <2>11, <2>12
  <2>14. g = h
    BY <2>6, <2>13
  <2>15. Def(g, i)
    BY <2>14 DEF h
  <2>16. i \in 0 .. n
    OBVIOUS
  <2> QED BY <2>15, <2>16
<1> HIDE DEF T
<1>3. 0 .. n \subseteq T
  BY <1>1, <1>2, InductOn
<1>4. n \in T
  BY <1>3
<1>5. \E f : Def(f, n)
  BY <1>4 DEF T
<1> DEFINE a == AfterTurns(s, max)
<1>6. a = [k \in 0 .. n |-> IF k = 0 THEN s ELSE Turn(a[k - 1], max)]
  BY <1>5 DEF AfterTurns
<1> HIDE DEF a
<1>7. a[0] = s /\ \A i \in 1 .. n : a[i] = Turn(a[i - 1], max)
  BY <1>6
<1> QED BY <1>7 DEF a

(* net_ReduceMemoryCacheTo, as a whole: the cache stays sound; it fits, or *)
(* what it still holds has locks; and nothing went before an older one.    *)
LEMMA ReduceLemma ==
    ASSUME NEW s, NEW F, NEW L \in [Copy -> Nat], Sound(s, F, L, {}), NEW max, max \in Nat
    PROVE  /\ Sound(ReduceTo(s, max), F, L, {}) /\ Thinned(s, ReduceTo(s, max))
           /\ \/ ReduceTo(s, max).size <= max
              \/ \A c \in ToSet(ReduceTo(s, max).list) : Locked(ReduceTo(s, max), c)
<1>1. s.list \in Seq(Copy) /\ IsTidy(s.list)
  BY DEF Sound, CacheState
<1>2. PICK n \in Nat : Len(s.list) = n
  BY <1>1, LenProperties
<1>3. DOMAIN s.list = 1 .. n
  BY <1>1, <1>2, LenProperties
<1> DEFINE a == AfterTurns(s, max)
           Kept(r) == Sound(r, F, L, {}) /\ Thinned(s, r) /\ InOrder(s, r)
           T == {i \in 0 .. n : Kept(a[i]) /\ (Stuck(a[i], max) \/ Len(a[i].list) <= n - i)}
<1>4. a[0] = s /\ \A i \in 1 .. n : a[i] = Turn(a[i - 1], max)
  BY <1>2, TurnsAre
<1> HIDE DEF a
<1>5. Kept(s)
  <2>1. KeepsLocked(s, s) /\ OldestFirst(s, s) /\ Fewer(s, s)
    <3>1. \A i \in DOMAIN s.list : s.list[i] \in ToSet(s.list)
      BY DEF ToSet
    <3> QED BY <3>1 DEF KeepsLocked, OldestFirst, Fewer
  <2>2. InOrder(s, s)
    <3> SUFFICES ASSUME NEW i \in 1 .. n, NEW j \in 1 .. n, i < j, NEW k \in 1 .. n, NEW m \in 1 .. n,
                        s.list[k] = s.list[i], s.list[m] = s.list[j]
                 PROVE  k < m
      BY <1>3 DEF InOrder
    <3>1. k = i /\ m = j
      BY <1>1, <1>3 DEF IsTidy, IsInjective
    <3> QED BY <3>1
  <2> QED BY <2>1, <2>2 DEF Thinned
<1>6. 0 \in T
  BY <1>2, <1>4, <1>5
<1>7. ASSUME NEW i \in 1 .. n, i - 1 \in T
      PROVE  i \in T
  <2>1. a[i] = Turn(a[i - 1], max)
    BY <1>4
  <2>2. /\ Sound(a[i - 1], F, L, {}) /\ Thinned(s, a[i - 1]) /\ InOrder(s, a[i - 1])
        /\ Stuck(a[i - 1], max) \/ Len(a[i - 1].list) <= n - (i - 1)
    BY <1>7
  <2>3. /\ Kept(a[i])
        /\ Stuck(a[i], max) \/ Len(a[i].list) < Len(a[i - 1].list)
        /\ Stuck(a[i - 1], max) => Stuck(a[i], max)
    <3>1. PICK r, r2 : r = a[i - 1] /\ r2 = a[i]
      OBVIOUS
    <3>2. /\ Sound(r, F, L, {}) /\ Thinned(s, r) /\ InOrder(s, r) /\ r2 = Turn(r, max)
      BY <2>1, <2>2, <3>1
    <3>3. Sound(r2, F, L, {}) /\ Thinned(s, r2) /\ InOrder(s, r2)
      BY <1>1, <3>2, TurnLemma
    <3>4. Stuck(r2, max) \/ Len(r2.list) < Len(r.list)
      BY <1>1, <3>2, TurnLemma
    <3>5. Stuck(r, max) => Stuck(r2, max)
      BY <1>1, <3>2, TurnLemma
    <3> QED BY <3>1, <3>3, <3>4, <3>5
  <2>4. Stuck(a[i], max) \/ Len(a[i].list) <= n - i
    <3> SUFFICES ASSUME ~Stuck(a[i], max)
                 PROVE  Len(a[i].list) <= n - i
      OBVIOUS
    <3>1. Len(a[i].list) < Len(a[i - 1].list) /\ Len(a[i - 1].list) <= n - (i - 1)
      BY <2>2, <2>3
    <3>2. Len(a[i].list) \in Nat /\ Len(a[i - 1].list) \in Nat
      BY <2>2, <2>3, LenProperties DEF Sound, CacheState
    <3> QED BY <3>1, <3>2
  <2>5. i \in 0 .. n
    OBVIOUS
  <2> QED BY <2>3, <2>4, <2>5
<1> HIDE DEF T
<1>8. 0 .. n \subseteq T
  BY <1>6, <1>7, InductOn
<1>9. n \in T
  BY <1>8
<1> DEFINE r == a[n]
<1>10. Kept(r) /\ Stuck(r, max)
  <2>1. Kept(r) /\ (Stuck(r, max) \/ Len(r.list) <= n - n)
    BY <1>9 DEF T
  <2> SUFFICES ASSUME Len(r.list) <= n - n
               PROVE  Stuck(r, max)
    BY <2>1
  <2>2. r.list \in Seq(Copy)
    BY <2>1 DEF Sound, CacheState
  <2>3. Len(r.list) \in Nat /\ DOMAIN r.list = 1 .. Len(r.list)
    BY <2>2, LenProperties
  <2>4. DOMAIN r.list = {}
    BY <2>3
  <2> QED BY <2>4 DEF Stuck, Removable
<1> HIDE DEF r
<1>11. ReduceTo(s, max) = IF r.size <= max THEN r ELSE [r EXCEPT !.list = Reverse(@)]
  BY <1>2 DEF ReduceTo, r, a
<1>12. CASE r.size <= max
  <2>1. ReduceTo(s, max) = r
    BY <1>11, <1>12
  <2> QED BY <1>10, <1>12, <2>1
<1>13. CASE ~(r.size <= max)
  <2> DEFINE w == Reverse(r.list)
             r2 == [r EXCEPT !.list = w]
  <2>1. ReduceTo(s, max) = r2
    BY <1>11, <1>13
  <2>2. r.list \in Seq(Copy) /\ IsTidy(r.list) /\ r \in CacheState
    BY <1>10 DEF Sound, CacheState
  <2>3. w \in Seq(Copy) /\ IsTidy(w) /\ ToSet(w) = ToSet(r.list)
    BY <2>2, ReverseLemma
  <2> HIDE DEF w
  <2>4. Sound(r2, F, L, {})
    BY <1>10, <2>3, ReorderKeeps
  <2>5. r2.copy = r.copy /\ r2.hash = r.hash /\ r2.list = w
    BY <2>2 DEF CacheState
  <2> HIDE DEF r2
  <2>6. Thinned(s, r2)
    <3>1. ToSet(r2.list) = ToSet(r.list) /\ Allocated(r2) = Allocated(r)
      BY <2>3, <2>5 DEF Allocated
    <3> QED BY <1>10, <2>5, <3>1 DEF Thinned, KeepsLocked, OldestFirst, Fewer
  <2>7. ASSUME NEW c \in ToSet(r2.list) PROVE Locked(r2, c)
    <3>1. PICK i \in DOMAIN r.list : c = r.list[i]
      BY <2>3, <2>5, <2>7 DEF ToSet
    <3>2. i \notin Removable(r)
      BY <1>10, <1>13 DEF Stuck
    <3>3. Locked(r, c)
      BY <3>1, <3>2 DEF Removable
    <3> QED BY <2>5, <3>3 DEF Locked
  <2> QED BY <2>1, <2>4, <2>6, <2>7
<1> QED BY <1>12, <1>13
-----------------------------------------------------------------------------
(* What else the calls do to the cache, piece by piece: a copy comes, ...  *)
Arrived(s, c, k, n) ==
    [copy |-> [s.copy EXCEPT ![c] = k], hash |-> s.hash, list |-> s.list,
     size |-> s.size + k.size + n, leaked |-> s.leaked + n]

Begun(s, F, L, c, k, r) ==
    /\ Sound(r, F \cup {c}, L, {}) /\ r.hash = s.hash
    /\ r.copy = [s.copy EXCEPT ![c] = k]

LEMMA NewKeeps ==
    ASSUME NEW s, NEW F, NEW L \in [Copy -> Nat], Sound(s, F, L, {}),
           NEW c \in Copy, c \notin Allocated(s), NEW k \in CopyState, ~k.deleteMe,
           NEW n \in Nat, NEW s2, s2 = Arrived(s, c, k, n)
    PROVE  Begun(s, F, L, c, k, s2)
<1>1. /\ s \in CacheState /\ s.copy \in [Copy -> CopyState \cup {None}]
      /\ s.size \in Nat /\ s.leaked \in Nat
      /\ s.hash \in [Url -> Copy \cup {None}] /\ s.list \in Seq(Copy) /\ s.copy[c] = None
      /\ k.size \in Nat /\ k # None
  BY StateFields, CopyFields DEF Sound
<1>2. /\ s2.copy = [s.copy EXCEPT ![c] = k] /\ s2.hash = s.hash /\ s2.list = s.list
      /\ s2.size = s.size + k.size + n /\ s2.leaked = s.leaked + n
      /\ s2 = [copy |-> s2.copy, hash |-> s2.hash, list |-> s2.list, size |-> s2.size,
               leaked |-> s2.leaked]
  BY DEF Arrived
<1>3. s2 \in CacheState
  <2>1. s2.copy \in [Copy -> CopyState \cup {None}]
    BY <1>1, <1>2
  <2>2. s2.size \in Nat /\ s2.leaked \in Nat
    BY <1>1, <1>2
  <2> QED BY <1>1, <1>2, <2>1, <2>2 DEF CacheState
<1>4. s2.copy[c] = k /\ \A d \in Copy \ {c} : s2.copy[d] = s.copy[d]
  BY <1>1, <1>2
<1>5. /\ Allocated(s) = Allocated(s2) \ {c} /\ c \in Allocated(s2)
      /\ IsFiniteSet(Units(s2)) /\ s2.size = Cardinality(Units(s2)) + s2.leaked
  <2>1. IsFiniteSet(Units(s)) /\ s.size = Cardinality(Units(s)) + s.leaked
    BY DEF Sound
  <2>2. /\ Allocated(s) = Allocated(s2) \ {c} /\ IsFiniteSet(Units(s2))
        /\ Cardinality(Units(s2)) = Cardinality(Units(s)) + s2.copy[c].size
    <3>1. s2.copy[c] # None
      BY <1>1, <1>4
    <3>2. s2.copy[c].size \in Nat
      BY <1>1, <1>4
    <3>3. \A d \in Copy \ {c} : s.copy[d] = s2.copy[d]
      BY <1>4
    <3>4. s.copy[c] = None
      BY <1>1
    <3>5. /\ Allocated(s) = Allocated(s2) \ {c}
          /\ IsFiniteSet(Units(s)) <=> IsFiniteSet(Units(s2))
          /\ IsFiniteSet(Units(s2)) =>
               Cardinality(Units(s2)) = Cardinality(Units(s)) + s2.copy[c].size
      BY <3>1, <3>2, <3>3, <3>4, UnitsOfOne
    <3> QED BY <2>1, <3>5
  <2>3. c \in Allocated(s2)
    BY <1>1, <1>4 DEF Allocated
  <2>4. Cardinality(Units(s)) \in Nat
    BY <2>1, FS_CardinalityType
  <2> QED BY <1>1, <1>2, <1>4, <2>1, <2>2, <2>3, <2>4
<1>6. /\ ToSet(s2.list) \subseteq Allocated(s2)
      /\ F \cup {c} \subseteq Allocated(s2) \ ToSet(s2.list)
  <2>1. ToSet(s.list) \subseteq Allocated(s) /\ F \subseteq Allocated(s) \ ToSet(s.list)
    BY DEF Sound
  <2> QED BY <1>2, <1>5, <2>1
<1>7. \A d \in F \cup {c} : ~s2.copy[d].deleteMe
  <2>1. \A d \in F : d \in Copy \ {c} /\ ~s.copy[d].deleteMe
    BY DEF Sound, Allocated
  <2> QED BY <1>4, <2>1
<1>8. \A d \in Copy : L[d] > 0 => d \in Allocated(s2) /\ s2.copy[d].readLock >= L[d]
  <2>1. \A d \in Copy : L[d] > 0 => d \in Allocated(s) /\ s.copy[d].readLock >= L[d]
    BY DEF Sound
  <2> QED BY <1>4, <1>5, <2>1
<1>9. ASSUME NEW u \in Url, s2.hash[u] # None
       PROVE  /\ s2.hash[u] \in ToSet(s2.list)
              /\ s2.copy[s2.hash[u]].url = u /\ ~s2.copy[s2.hash[u]].deleteMe
  <2>1. /\ s.hash[u] \in ToSet(s.list)
        /\ s.copy[s.hash[u]].url = u /\ ~s.copy[s.hash[u]].deleteMe
    BY <1>2, <1>9 DEF Sound
  <2>2. s.hash[u] \in Copy \ {c}
    BY <2>1 DEF Sound, Allocated
  <2> QED BY <1>2, <1>4, <2>1, <2>2
<1>10. ASSUME NEW d \in Allocated(s2) \ ((F \cup {c}) \cup ToSet(s2.list))
       PROVE  s2.copy[d].deleteMe /\ s2.copy[d].readLock > 0
  <2>1. d \in Allocated(s) \ (F \cup ToSet(s.list)) /\ d \in Copy \ {c}
    BY <1>2, <1>5, <1>10 DEF Allocated
  <2> QED BY <1>4, <2>1 DEF Sound
<1>11. Sound(s2, F \cup {c}, L, {})
  BY <1>2, <1>3, <1>5, <1>6, <1>7, <1>8, <1>9, <1>10 DEF Sound
<1> QED BY <1>2, <1>11 DEF Begun

(* ... a URL is taken off the hash list, ...                               *)
LEMMA UnhashKeeps ==
    ASSUME NEW s, NEW F, NEW L \in [Copy -> Nat], Sound(s, F, L, {}), NEW u \in Url,
           NEW s2, s2 = [s EXCEPT !.hash[u] = None]
    PROVE  Sound(s2, F, L, {}) /\ Fewer(s, s2)
<1>1. /\ s \in CacheState /\ s.copy \in [Copy -> CopyState \cup {None}] /\ s.size \in Nat /\ s.leaked \in Nat
      /\ s.hash \in [Url -> Copy \cup {None}] /\ s.list \in Seq(Copy)
  BY StateFields DEF Sound
<1>2. /\ s2.copy = s.copy /\ s2.hash = [s.hash EXCEPT ![u] = None] /\ s2.list = s.list
      /\ s2.size = s.size /\ s2.leaked = s.leaked
      /\ s2 = [copy |-> s2.copy, hash |-> s2.hash, list |-> s2.list, size |-> s2.size,
               leaked |-> s2.leaked]
  BY <1>1 DEF CacheState
<1>3. s2 \in CacheState
  <2>1. s2.hash \in [Url -> Copy \cup {None}]
    BY <1>1, <1>2
  <2> QED BY <1>1, <1>2, <2>1 DEF CacheState
<1>4. Allocated(s2) = Allocated(s) /\ Units(s2) = Units(s)
  BY <1>2 DEF Allocated, Units
<1>5. \A v \in Url : s2.hash[v] = s.hash[v] \/ s2.hash[v] = None
  BY <1>1, <1>2
<1>6. Fewer(s, s2)
  BY <1>2, <1>4, <1>5 DEF Fewer
<1>7. ASSUME NEW v \in Url, s2.hash[v] # None
      PROVE  /\ s2.hash[v] \in ToSet(s2.list)
             /\ s2.copy[s2.hash[v]].url = v /\ ~s2.copy[s2.hash[v]].deleteMe
  <2>1. s2.hash[v] = s.hash[v]
    BY <1>5, <1>7
  <2> QED BY <1>2, <1>7, <2>1 DEF Sound
<1>8. /\ IsFiniteSet(Units(s2)) /\ s2.size = Cardinality(Units(s2)) + s2.leaked
      /\ IsTidy(s2.list) /\ ToSet(s2.list) \subseteq Allocated(s2)
      /\ F \subseteq Allocated(s2) \ ToSet(s2.list)
      /\ \A c \in F : ~s2.copy[c].deleteMe
      /\ \A c \in Copy : L[c] > 0 => c \in Allocated(s2) /\ s2.copy[c].readLock >= L[c]
      /\ \A c \in Allocated(s2) \ (F \cup ToSet(s2.list)) : s2.copy[c].deleteMe /\ s2.copy[c].readLock > 0
  BY <1>2, <1>4 DEF Sound
<1> QED BY <1>3, <1>6, <1>7, <1>8 DEF Sound

(* ... a copy is changed, but not what leads to it, ...                    *)
WithCopy(s, c, k) == [s EXCEPT !.copy[c] = k]

Touched(s, F, L, X, c, k, r) ==
    /\ Sound(r, F, L, X) /\ r.hash = s.hash /\ r.list = s.list
    /\ r.copy = [s.copy EXCEPT ![c] = k] /\ Allocated(r) = Allocated(s)

LEMMA TouchKeeps ==
    ASSUME NEW s, NEW F, NEW L, NEW L2, NEW X, Sound(s, F, L, {}),
           NEW c \in Allocated(s), NEW k \in CopyState,
           k.url = s.copy[c].url, k.size = s.copy[c].size, k.deleteMe = s.copy[c].deleteMe,
           c \notin F \cup ToSet(s.list) \cup X => k.readLock > 0,
           \A d \in Copy \ {c} : L2[d] = L[d], L2[c] > 0 => k.readLock >= L2[c],
           NEW s2, s2 = WithCopy(s, c, k)
    PROVE  Touched(s, F, L2, X, c, k, s2)
<1>1. /\ s \in CacheState /\ s.copy \in [Copy -> CopyState \cup {None}] /\ s.size \in Nat /\ s.leaked \in Nat
      /\ s.hash \in [Url -> Copy \cup {None}] /\ s.list \in Seq(Copy)
      /\ c \in Copy /\ s.copy[c] # None /\ k # None
  BY StateFields, CopyFields DEF Sound
<1>2. /\ s2.copy = [s.copy EXCEPT ![c] = k] /\ s2.hash = s.hash /\ s2.list = s.list /\ s2.size = s.size /\ s2.leaked = s.leaked
      /\ s2 = [copy |-> s2.copy, hash |-> s2.hash, list |-> s2.list, size |-> s2.size,
               leaked |-> s2.leaked]
  BY <1>1 DEF CacheState, WithCopy
<1>3. s2.copy[c] = k /\ \A d \in Copy \ {c} : s2.copy[d] = s.copy[d]
  BY <1>1, <1>2
<1>4. s2 \in CacheState
  <2>1. s2.copy \in [Copy -> CopyState \cup {None}]
    BY <1>1, <1>2
  <2> QED BY <1>1, <1>2, <2>1 DEF CacheState
<1>5. Allocated(s2) = Allocated(s) /\ Units(s2) = Units(s)
  <2>1. \A d \in Copy : /\ s2.copy[d] = None <=> s.copy[d] = None
                        /\ s.copy[d] # None => s2.copy[d].size = s.copy[d].size
    BY <1>1, <1>3
  <2> QED BY <2>1, UnitsSame
<1>6. \A d \in Copy : s2.copy[d].url = s.copy[d].url
  BY <1>3
<1>7. \A d \in Copy : s2.copy[d].deleteMe = s.copy[d].deleteMe
  BY <1>3
<1>8. /\ IsFiniteSet(Units(s2)) /\ s2.size = Cardinality(Units(s2)) + s2.leaked
      /\ IsTidy(s2.list) /\ ToSet(s2.list) \subseteq Allocated(s2)
      /\ F \subseteq Allocated(s2) \ ToSet(s2.list)
  BY <1>2, <1>5 DEF Sound
<1>9. \A d \in F : ~s2.copy[d].deleteMe
  <2>1. \A d \in F : d \in Copy /\ ~s.copy[d].deleteMe
    BY DEF Sound, Allocated
  <2> QED BY <1>7, <2>1
<1>10. ASSUME NEW d \in Copy, L2[d] > 0
       PROVE  d \in Allocated(s2) /\ s2.copy[d].readLock >= L2[d]
  <2>1. CASE d = c
    BY <1>3, <1>5, <1>10, <2>1
  <2>2. CASE d # c
    <3>1. d \in Allocated(s) /\ s.copy[d].readLock >= L[d]
      BY <1>10, <2>2 DEF Sound
    <3> QED BY <1>3, <1>5, <2>2, <3>1
  <2> QED BY <2>1, <2>2
<1>11. ASSUME NEW u \in Url, s2.hash[u] # None
       PROVE  /\ s2.hash[u] \in ToSet(s2.list)
              /\ s2.copy[s2.hash[u]].url = u /\ ~s2.copy[s2.hash[u]].deleteMe
  <2>1. /\ s.hash[u] \in ToSet(s.list)
        /\ s.copy[s.hash[u]].url = u /\ ~s.copy[s.hash[u]].deleteMe
    BY <1>2, <1>11 DEF Sound
  <2>2. s.hash[u] \in Copy
    BY <2>1 DEF Sound, Allocated
  <2> QED BY <1>2, <1>6, <1>7, <2>1, <2>2
<1>12. ASSUME NEW d \in Allocated(s2) \ (F \cup ToSet(s2.list) \cup X)
       PROVE  s2.copy[d].deleteMe /\ s2.copy[d].readLock > 0
  <2>1. d \in Copy /\ s.copy[d].deleteMe /\ s.copy[d].readLock > 0
    BY <1>2, <1>5, <1>12 DEF Sound, Allocated
  <2>2. s2.copy[d].deleteMe
    BY <1>7, <2>1
  <2>3. s2.copy[d].readLock > 0
    BY <1>2, <1>3, <1>12, <2>1
  <2> QED BY <2>2, <2>3
<1>13. Sound(s2, F, L2, X)
  BY <1>2, <1>4, <1>5, <1>8, <1>9, <1>10, <1>11, <1>12 DEF Sound
<1> QED BY <1>2, <1>5, <1>13 DEF Touched

(* ... it grows, ...                                                       *)
LEMMA GrowKeeps ==
    ASSUME NEW s, NEW F, NEW L \in [Copy -> Nat], Sound(s, F, L, {}), NEW c \in Allocated(s),
           NEW s2, s2 = Grow(s, c)
    PROVE  /\ Sound(s2, F, L, {}) /\ Fewer(s, s2) /\ s2.hash = s.hash /\ s2.list = s.list
           /\ Allocated(s2) = Allocated(s)
<1>1. /\ s \in CacheState /\ s.copy \in [Copy -> CopyState \cup {None}] /\ s.size \in Nat /\ s.leaked \in Nat
      /\ s.hash \in [Url -> Copy \cup {None}] /\ s.list \in Seq(Copy)
      /\ c \in Copy /\ s.copy[c] \in CopyState /\ s.copy[c] # None /\ s.copy[c].size \in Nat
  BY StateFields, CopyFields DEF Sound
<1> DEFINE k == [s.copy[c] EXCEPT !.size = @ + 1]
           s1 == [s EXCEPT !.copy[c].size = @ + 1]
<1>2. /\ k \in CopyState /\ k.size = s.copy[c].size + 1 /\ k.url = s.copy[c].url
      /\ k.deleteMe = s.copy[c].deleteMe /\ k.readLock = s.copy[c].readLock
      /\ k.locks = s.copy[c].locks
  <2> PICK x \in CopyState : x = s.copy[c]
    BY <1>1
  <2> DEFINE y == [x EXCEPT !.size = @ + 1]
  <2>1. /\ y.size = x.size + 1 /\ y.url = x.url /\ y.deleteMe = x.deleteMe
        /\ y.readLock = x.readLock /\ y.locks = x.locks
        /\ y = [url |-> y.url, size |-> y.size, readLock |-> y.readLock,
                locks |-> y.locks, deleteMe |-> y.deleteMe]
    BY DEF CopyState
  <2> HIDE DEF y
  <2>2. /\ x.url \in Url /\ x.readLock \in Nat /\ x.locks \in Nat
        /\ x.deleteMe \in BOOLEAN
    BY CopyFields
  <2>3. x.size \in Nat
    BY CopyFields
  <2>4. y \in CopyState
    BY <2>1, <2>2, <2>3 DEF CopyState
  <2> QED BY <2>1, <2>4 DEF y
<1>3. /\ s1.copy = [s.copy EXCEPT ![c] = k] /\ s1.hash = s.hash /\ s1.list = s.list /\ s1.size = s.size /\ s1.leaked = s.leaked
      /\ s1 = [copy |-> s1.copy, hash |-> s1.hash, list |-> s1.list, size |-> s1.size,
               leaked |-> s1.leaked]
  <2>1. s = [copy |-> s.copy, hash |-> s.hash, list |-> s.list, size |-> s.size,
               leaked |-> s.leaked]
    BY <1>1 DEF CacheState
  <2> QED BY <2>1
<1>4. s2 = [s1 EXCEPT !.size = @ + 1]
  BY DEF Grow, Charge
<1> HIDE DEF s1, k
<1>5. /\ s2.copy = [s.copy EXCEPT ![c] = k] /\ s2.hash = s.hash /\ s2.list = s.list
      /\ s2.size = s.size + 1 /\ s2.leaked = s.leaked
      /\ s2 = [copy |-> s2.copy, hash |-> s2.hash, list |-> s2.list, size |-> s2.size,
               leaked |-> s2.leaked]
  BY <1>3, <1>4
<1>6. s2.copy[c] = k /\ \A d \in Copy \ {c} : s2.copy[d] = s.copy[d]
  BY <1>1, <1>5
<1>7. k # None
  BY <1>2, CopyFields
<1>8. s2 \in CacheState
  <2>1. s2.copy \in [Copy -> CopyState \cup {None}]
    BY <1>1, <1>2, <1>5
  <2>2. s2.size \in Nat /\ s2.leaked \in Nat
    BY <1>1, <1>5
  <2> QED BY <1>1, <1>5, <2>1, <2>2 DEF CacheState
<1>9. /\ Allocated(s2) = Allocated(s) /\ IsFiniteSet(Units(s2))
      /\ s2.size = Cardinality(Units(s2)) + s2.leaked
  <2>1. IsFiniteSet(Units(s)) /\ s.size = Cardinality(Units(s)) + s.leaked
    BY DEF Sound
  <2>2. s2.copy[c] # None
    BY <1>6, <1>7
  <2>3. s2.copy[c].size = s.copy[c].size + 1
    BY <1>2, <1>6
  <2>4. \A d \in Copy \ {c} : s2.copy[d] = s.copy[d]
    BY <1>6
  <2>5. s.copy[c] # None /\ s.copy[c].size \in Nat
    BY <1>1
  <2>6. /\ Allocated(s2) = Allocated(s) /\ IsFiniteSet(Units(s2))
        /\ Cardinality(Units(s2)) = Cardinality(Units(s)) + 1
    <3>1. c \in Copy
      BY <1>1
    <3>2. OneUnitMore(s, s2)
      BY <2>1, <2>2, <2>3, <2>4, <2>5, <3>1, UnitsGrow
    <3> QED BY <3>2 DEF OneUnitMore
  <2>7. Cardinality(Units(s)) \in Nat
    BY <2>1, FS_CardinalityType
  <2>8. s2.size = Cardinality(Units(s2)) + s2.leaked
    <3>1. PICK m \in Nat : m = Cardinality(Units(s))
      BY <2>7
    <3>2. s2.size = m + s.leaked + 1 /\ Cardinality(Units(s2)) = m + 1
      BY <1>5, <2>1, <2>6, <3>1
    <3>3. s2.leaked = s.leaked /\ s.leaked \in Nat
      BY <1>1, <1>5
    <3> QED BY <3>2, <3>3
  <2> QED BY <2>6, <2>8
<1>10. \A d \in Copy : /\ s2.copy[d].url = s.copy[d].url /\ s2.copy[d].locks = s.copy[d].locks
                       /\ s2.copy[d].deleteMe = s.copy[d].deleteMe
                       /\ s2.copy[d].readLock = s.copy[d].readLock
  BY <1>2, <1>6
<1>11. /\ IsTidy(s2.list) /\ ToSet(s2.list) \subseteq Allocated(s2)
       /\ F \subseteq Allocated(s2) \ ToSet(s2.list)
  BY <1>5, <1>9 DEF Sound
<1>12. \A d \in F : ~s2.copy[d].deleteMe
  <2>1. \A d \in F : d \in Copy /\ ~s.copy[d].deleteMe
    BY DEF Sound, Allocated
  <2> QED BY <1>10, <2>1
<1>13. \A d \in Copy : L[d] > 0 => d \in Allocated(s2) /\ s2.copy[d].readLock >= L[d]
  BY <1>9, <1>10 DEF Sound
<1>14. ASSUME NEW u \in Url, s2.hash[u] # None
       PROVE  /\ s2.hash[u] \in ToSet(s2.list)
              /\ s2.copy[s2.hash[u]].url = u /\ ~s2.copy[s2.hash[u]].deleteMe
  <2>1. /\ s.hash[u] \in ToSet(s.list)
        /\ s.copy[s.hash[u]].url = u /\ ~s.copy[s.hash[u]].deleteMe
    BY <1>5, <1>14 DEF Sound
  <2>2. s.hash[u] \in Copy
    BY <2>1 DEF Sound, Allocated
  <2> QED BY <1>5, <1>10, <2>1, <2>2
<1>15. ASSUME NEW d \in Allocated(s2) \ (F \cup ToSet(s2.list))
       PROVE  s2.copy[d].deleteMe /\ s2.copy[d].readLock > 0
  <2>1. d \in Copy /\ s.copy[d].deleteMe /\ s.copy[d].readLock > 0
    BY <1>5, <1>9, <1>15 DEF Sound, Allocated
  <2> QED BY <1>10, <2>1
<1>16. Fewer(s, s2)
  <2>1. \A d \in Allocated(s2) : d \in Allocated(s) /\ d \in Copy
    BY <1>9 DEF Allocated
  <2> QED BY <1>5, <1>10, <2>1 DEF Fewer
<1> QED BY <1>5, <1>8, <1>9, <1>11, <1>12, <1>13, <1>14, <1>15, <1>16 DEF Sound

(* ... a segment is lost, ...                                              *)
LEMMA LeakKeeps ==
    ASSUME NEW s, NEW F, NEW L \in [Copy -> Nat], Sound(s, F, L, {}), NEW n \in Nat,
           NEW s2, s2 = Leak(s, n)
    PROVE  Sound(s2, F, L, {}) /\ Fewer(s, s2)
<1>1. /\ s \in CacheState /\ s.size \in Nat /\ s.leaked \in Nat
      /\ s.copy \in [Copy -> CopyState \cup {None}] /\ s.hash \in [Url -> Copy \cup {None}]
      /\ s.list \in Seq(Copy)
  BY StateFields DEF Sound
<1>2. /\ s2.copy = s.copy /\ s2.hash = s.hash /\ s2.list = s.list
      /\ s2.size = s.size + n /\ s2.leaked = s.leaked + n
      /\ s2 = [copy |-> s2.copy, hash |-> s2.hash, list |-> s2.list, size |-> s2.size,
               leaked |-> s2.leaked]
  BY <1>1 DEF CacheState, Leak
<1>3. s2 \in CacheState
  <2>1. s2.size \in Nat /\ s2.leaked \in Nat
    BY <1>1, <1>2
  <2> QED BY <1>1, <1>2, <2>1 DEF CacheState
<1>4. Allocated(s2) = Allocated(s) /\ Units(s2) = Units(s)
  BY <1>2 DEF Allocated, Units
<1>5. IsFiniteSet(Units(s2)) /\ s2.size = Cardinality(Units(s2)) + s2.leaked
  <2>1. IsFiniteSet(Units(s)) /\ s.size = Cardinality(Units(s)) + s.leaked
    BY DEF Sound
  <2>2. Cardinality(Units(s)) \in Nat
    BY <2>1, FS_CardinalityType
  <2> QED BY <1>1, <1>2, <1>4, <2>1, <2>2
<1>6. Fewer(s, s2)
  BY <1>2, <1>4 DEF Fewer
<1> QED BY <1>2, <1>3, <1>4, <1>5, <1>6 DEF Sound

(* ... it is put in front of the list, ...                                 *)
LEMMA PushLemma ==
    ASSUME NEW S, NEW list \in Seq(S), IsTidy(list), NEW e \in S, e \notin ToSet(list)
    PROVE  /\ <<e>> \o list \in Seq(S) /\ IsTidy(<<e>> \o list)
           /\ ToSet(<<e>> \o list) = ToSet(list) \cup {e}
<1>1. <<e>> \in Seq(S) /\ IsTidy(<<e>>) /\ ToSet(<<e>>) = {e}
  BY ShortLists
<1>2. ToSet(<<e>>) \cap ToSet(list) = {}
  BY <1>1
<1>3. /\ <<e>> \o list \in Seq(S) /\ IsTidy(<<e>> \o list)
      /\ ToSet(<<e>> \o list) = ToSet(<<e>>) \cup ToSet(list)
  <2> PICK a : a = <<e>>
    OBVIOUS
  <2>1. a \in Seq(S) /\ IsTidy(a) /\ ToSet(a) \cap ToSet(list) = {}
    BY <1>1, <1>2
  <2>2. Joins(S, a, list, a \o list)
    BY <2>1, ConcatLemma
  <2> QED BY <2>2 DEF Joins
<1> QED BY <1>1, <1>3

LEMMA FoundKeeps ==
    ASSUME NEW s, NEW F, NEW L \in [Copy -> Nat], Sound(s, F, L, {}), NEW c \in ToSet(s.list),
           NEW s2, s2 = AddFirst(Unlist(s, c), c)
    PROVE  /\ Sound(s2, F, L, {}) /\ Fewer(s, s2) /\ s2.hash = s.hash /\ s2.copy = s.copy
           /\ ToSet(s2.list) = ToSet(s.list)
<1> DEFINE w == <<c>> \o Without(s.list, c)
<1>1. /\ s \in CacheState /\ s.list \in Seq(Copy) /\ IsTidy(s.list) /\ c \in Copy
  BY DEF Sound, CacheState, Allocated
<1>2. w \in Seq(Copy) /\ IsTidy(w) /\ ToSet(w) = ToSet(s.list)
  <2>1. /\ Without(s.list, c) \in Seq(Copy) /\ IsTidy(Without(s.list, c))
        /\ ToSet(Without(s.list, c)) = ToSet(s.list) \ {c}
    BY <1>1, WithoutLemma
  <2>2. c \notin ToSet(Without(s.list, c))
    BY <2>1
  <2>3. /\ w \in Seq(Copy) /\ IsTidy(w)
        /\ ToSet(w) = ToSet(Without(s.list, c)) \cup {c}
    BY <1>1, <2>1, <2>2, PushLemma
  <2> HIDE DEF w
  <2> QED BY <2>1, <2>3
<1>3. s2 = [s EXCEPT !.list = w]
  BY <1>1 DEF AddFirst, Unlist, Without, CacheState
<1> HIDE DEF w
<1>4. Sound(s2, F, L, {})
  BY <1>2, <1>3, ReorderKeeps
<1>5. s2.hash = s.hash /\ s2.copy = s.copy /\ s2.list = w
  BY <1>1, <1>3 DEF CacheState
<1>6. Fewer(s, s2)
  BY <1>5 DEF Fewer, Allocated
<1> QED BY <1>2, <1>4, <1>5, <1>6

(* ... and it takes the place of the one of its URL.  The others stay in   *)
(* their order.                                                            *)
Follows(p, q) ==
    \A i, j \in DOMAIN p :
        i < j /\ p[i] \in ToSet(q) /\ p[j] \in ToSet(q)
            => \E k, m \in DOMAIN q : k < m /\ q[k] = p[i] /\ q[m] = p[j]

LEMMA FollowsPush ==
    ASSUME NEW S, NEW p \in Seq(S), NEW e \in S
    PROVE  Follows(p, <<e>> \o p)
<1>1. PICK n \in Nat : Len(p) = n /\ DOMAIN p = 1 .. n
  BY LenProperties
<1>2. PICK a : a = <<e>>
  OBVIOUS
<1>3. a \in Seq(S) /\ Len(a) = 1
  BY <1>2
<1> DEFINE q == a \o p
<1>4. q \in Seq(S) /\ Len(q) = 1 + n /\ \A j \in 1 .. 1 + n : q[j] = IF j <= 1 THEN a[j] ELSE p[j - 1]
  <2>1. /\ a \o p \in Seq(S) /\ Len(a \o p) = Len(a) + Len(p)
        /\ \A j \in 1 .. Len(a) + Len(p) : (a \o p)[j] = IF j <= Len(a) THEN a[j] ELSE p[j - Len(a)]
    BY <1>3, ConcatProperties
  <2> QED BY <1>1, <1>3, <2>1
<1>5. DOMAIN q = 1 .. 1 + n
  BY <1>4, LenProperties
<1> HIDE DEF q
<1>6. \A j \in 1 .. n : j + 1 \in 1 .. 1 + n /\ q[j + 1] = p[j]
  <2> SUFFICES ASSUME NEW j \in 1 .. n
               PROVE  j + 1 \in 1 .. 1 + n /\ q[j + 1] = p[j]
    OBVIOUS
  <2>1. j + 1 \in 1 .. 1 + n /\ ~(j + 1 <= 1) /\ (j + 1) - 1 = j
    OBVIOUS
  <2> QED BY <1>4, <2>1
<1>7. ASSUME NEW i \in 1 .. n, NEW j \in 1 .. n, i < j
      PROVE  \E k, m \in DOMAIN q : k < m /\ q[k] = p[i] /\ q[m] = p[j]
  <2>1. i + 1 \in DOMAIN q /\ j + 1 \in DOMAIN q /\ i + 1 < j + 1
    BY <1>5, <1>7
  <2>2. q[i + 1] = p[i] /\ q[j + 1] = p[j]
    BY <1>6
  <2> QED BY <2>1, <2>2
<1>8. Follows(p, q)
  BY <1>1, <1>7 DEF Follows
<1> QED BY <1>2, <1>8 DEF q

LEMMA FollowsWithout ==
    ASSUME NEW S, NEW p \in Seq(S), IsTidy(p), NEW e \in ToSet(p)
    PROVE  Follows(p, Without(p, e))
<1>1. PICK n \in Nat : Len(p) = n /\ DOMAIN p = 1 .. n
  BY LenProperties
<1>2. PICK x \in 1 .. n : p[x] = e
  BY <1>1 DEF ToSet
<1> DEFINE q == Without(p, e)
<1>3. /\ q \in Seq(S) /\ Len(q) = n - 1
      /\ \A i \in 1 .. n - 1 : q[i] = IF i < x THEN p[i] ELSE p[i + 1]
  BY <1>1, <1>2, WithoutIndexes
<1>4. DOMAIN q = 1 .. n - 1
  BY <1>3, LenProperties
<1>5. ToSet(q) = ToSet(p) \ {e}
  BY WithoutLemma
<1> HIDE DEF q
<1> DEFINE at == [i \in 1 .. n |-> IF i < x THEN i ELSE i - 1]
<1>6. ASSUME NEW i \in 1 .. n, i # x
      PROVE  at[i] \in 1 .. n - 1 /\ q[at[i]] = p[i]
  <2>1. CASE i < x
    <3>1. at[i] = i /\ i \in 1 .. n - 1
      BY <2>1
    <3> QED BY <1>3, <2>1, <3>1
  <2>2. CASE i > x
    <3>1. at[i] = i - 1 /\ i - 1 \in 1 .. n - 1 /\ ~(i - 1 < x) /\ (i - 1) + 1 = i
      BY <2>2
    <3> QED BY <1>3, <3>1
  <2> QED BY <1>6, <2>1, <2>2
<1>7. \A i, j \in 1 .. n : i # x /\ j # x /\ i < j => at[i] < at[j]
  OBVIOUS
<1> HIDE DEF at
<1>8. ASSUME NEW i \in 1 .. n, NEW j \in 1 .. n, i < j, p[i] \in ToSet(q), p[j] \in ToSet(q)
      PROVE  \E k, m \in DOMAIN q : k < m /\ q[k] = p[i] /\ q[m] = p[j]
  <2>1. i # x /\ j # x
    BY <1>2, <1>5, <1>8
  <2>2. at[i] < at[j]
    BY <1>7, <1>8, <2>1
  <2>3. at[i] \in DOMAIN q /\ at[j] \in DOMAIN q /\ q[at[i]] = p[i] /\ q[at[j]] = p[j]
    BY <1>4, <1>6, <2>1
  <2> QED BY <2>2, <2>3
<1> QED BY <1>1, <1>8 DEF Follows, q

LEMMA FollowsOn ==
    ASSUME NEW p, NEW q, NEW r, Follows(p, q), Follows(q, r), ToSet(r) \subseteq ToSet(q)
    PROVE  Follows(p, r)
<1> SUFFICES ASSUME NEW i \in DOMAIN p, NEW j \in DOMAIN p, i < j,
                    p[i] \in ToSet(r), p[j] \in ToSet(r)
             PROVE  \E k, m \in DOMAIN r : k < m /\ r[k] = p[i] /\ r[m] = p[j]
  BY DEF Follows
<1>1. PICK k \in DOMAIN q, m \in DOMAIN q : k < m /\ q[k] = p[i] /\ q[m] = p[j]
  BY DEF Follows
<1> QED BY <1>1 DEF Follows

(* A sound cache after a filled copy came to the front of the list.        *)
Listed(s, F, L, c, r) ==
    /\ Sound(r, F \ {c}, L, {})
    /\ r.copy = s.copy /\ r.hash = s.hash /\ r.list = <<c>> \o s.list

LEMMA ListKeeps ==
    ASSUME NEW s, NEW F, NEW L \in [Copy -> Nat], Sound(s, F, L, {}), NEW c \in F,
           NEW s2, s2 = AddFirst(s, c)
    PROVE  Listed(s, F, L, c, s2)
<1>1. /\ s \in CacheState /\ s.list \in Seq(Copy) /\ IsTidy(s.list)
      /\ c \in Copy /\ c \in Allocated(s) /\ c \notin ToSet(s.list)
  BY DEF Sound, CacheState, Allocated
<1> DEFINE w == <<c>> \o s.list
<1>2. w \in Seq(Copy) /\ IsTidy(w) /\ ToSet(w) = ToSet(s.list) \cup {c}
  BY <1>1, PushLemma
<1>3. s2 = [s EXCEPT !.list = w]
  BY <1>1 DEF AddFirst, CacheState
<1> HIDE DEF w
<1>4. s2.copy = s.copy /\ s2.hash = s.hash /\ s2.list = w /\ s2.size = s.size /\ s2.leaked = s.leaked /\ s2 \in CacheState
  BY <1>1, <1>2, <1>3 DEF CacheState
<1>5. Allocated(s2) = Allocated(s) /\ Units(s2) = Units(s)
  BY <1>4 DEF Allocated, Units
<1>6. \A u \in Url : s2.hash[u] # None =>
        /\ s2.hash[u] \in ToSet(s2.list)
        /\ s2.copy[s2.hash[u]].url = u /\ ~s2.copy[s2.hash[u]].deleteMe
  BY <1>2, <1>4 DEF Sound
<1>7. /\ IsFiniteSet(Units(s2)) /\ s2.size = Cardinality(Units(s2)) + s2.leaked
      /\ \A d \in F : ~s2.copy[d].deleteMe
      /\ \A d \in Copy : L[d] > 0 => d \in Allocated(s2) /\ s2.copy[d].readLock >= L[d]
  BY <1>4, <1>5 DEF Sound
<1>8. ToSet(s2.list) \subseteq Allocated(s2) /\ F \ {c} \subseteq Allocated(s2) \ ToSet(s2.list)
  BY <1>1, <1>2, <1>4, <1>5 DEF Sound
<1>9. \A d \in Allocated(s2) \ ((F \ {c}) \cup ToSet(s2.list)) :
        s2.copy[d].deleteMe /\ s2.copy[d].readLock > 0
  BY <1>2, <1>4, <1>5 DEF Sound
<1>10. Sound(s2, F \ {c}, L, {})
  BY <1>2, <1>4, <1>6, <1>7, <1>8, <1>9 DEF Sound
<1> QED BY <1>4, <1>10 DEF Listed, w

(* A sound cache whose list holds a copy may give the copy's URL to it.    *)
Name(s, u, c) == [s EXCEPT !.hash[u] = c]

LEMMA HashKeeps ==
    ASSUME NEW s, NEW F, NEW L \in [Copy -> Nat], Sound(s, F, L, {}), NEW c \in ToSet(s.list),
           ~s.copy[c].deleteMe, NEW u, u = s.copy[c].url, NEW s2, s2 = Name(s, u, c)
    PROVE  /\ Sound(s2, F, L, {})
           /\ s2.copy = s.copy /\ s2.list = s.list /\ s2.hash = [s.hash EXCEPT ![u] = c]
<1>1. /\ s \in CacheState /\ s.copy \in [Copy -> CopyState \cup {None}] /\ s.size \in Nat /\ s.leaked \in Nat
      /\ s.hash \in [Url -> Copy \cup {None}] /\ s.list \in Seq(Copy)
      /\ c \in Copy /\ u \in Url
  BY StateFields, CopyFields DEF Sound
<1>2. /\ s2.copy = s.copy /\ s2.hash = [s.hash EXCEPT ![u] = c] /\ s2.list = s.list
      /\ s2.size = s.size /\ s2.leaked = s.leaked
      /\ s2 = [copy |-> s2.copy, hash |-> s2.hash, list |-> s2.list, size |-> s2.size,
               leaked |-> s2.leaked]
  BY <1>1 DEF CacheState, Name
<1>3. s2 \in CacheState
  <2>1. s2.hash \in [Url -> Copy \cup {None}]
    BY <1>1, <1>2
  <2> QED BY <1>1, <1>2, <2>1 DEF CacheState
<1>4. Allocated(s2) = Allocated(s) /\ Units(s2) = Units(s)
  BY <1>2 DEF Allocated, Units
<1>5. s2.hash[u] = c /\ \A v \in Url \ {u} : s2.hash[v] = s.hash[v]
  BY <1>1, <1>2
<1>6. ASSUME NEW v \in Url, s2.hash[v] # None
      PROVE  /\ s2.hash[v] \in ToSet(s2.list)
             /\ s2.copy[s2.hash[v]].url = v /\ ~s2.copy[s2.hash[v]].deleteMe
  <2>1. CASE v = u
    BY <1>2, <1>5, <2>1
  <2>2. CASE v # u
    BY <1>2, <1>5, <1>6, <2>2 DEF Sound
  <2> QED BY <2>1, <2>2
<1>7. /\ IsFiniteSet(Units(s2)) /\ s2.size = Cardinality(Units(s2)) + s2.leaked
      /\ IsTidy(s2.list) /\ ToSet(s2.list) \subseteq Allocated(s2)
      /\ F \subseteq Allocated(s2) \ ToSet(s2.list)
      /\ \A d \in F : ~s2.copy[d].deleteMe
      /\ \A d \in Copy : L[d] > 0 => d \in Allocated(s2) /\ s2.copy[d].readLock >= L[d]
      /\ \A d \in Allocated(s2) \ (F \cup ToSet(s2.list)) : s2.copy[d].deleteMe /\ s2.copy[d].readLock > 0
  BY <1>2, <1>4 DEF Sound
<1> QED BY <1>2, <1>3, <1>6, <1>7 DEF Sound

(* net_MemCacheComplete up to the reduction.                               *)
InPlace(s, F, L, c, u, r) ==
    /\ Sound(r, F \ {c}, L, {})
    /\ u \in Url /\ r.hash[u] = c
    /\ \A v \in Url \ {u} : r.hash[v] = s.hash[v] \/ r.hash[v] = None
    /\ \A d \in Allocated(r) : /\ d \in Allocated(s) /\ r.copy[d].locks = s.copy[d].locks
                               /\ r.copy[d].url = s.copy[d].url
    /\ Follows(s.list, r.list) /\ ToSet(r.list) \subseteq ToSet(s.list) \cup {c}
    /\ \A d \in ToSet(s.list) : d # s.hash[u] => d \in ToSet(r.list)

LEMMA PublishKeeps ==
    ASSUME NEW s, NEW F, NEW L \in [Copy -> Nat], Sound(s, F, L, {}), NEW c \in F,
           NEW s2, s2 = Publish(s, c), NEW u, u = s.copy[c].url
    PROVE  InPlace(s, F, L, c, u, s2)
<1>1. /\ s \in CacheState /\ s.copy \in [Copy -> CopyState \cup {None}]
      /\ s.hash \in [Url -> Copy \cup {None}] /\ s.list \in Seq(Copy) /\ IsTidy(s.list)
      /\ c \in Allocated(s) /\ c \in Copy /\ c \notin ToSet(s.list) /\ ~s.copy[c].deleteMe
      /\ u \in Url
  <2>1. s \in CacheState /\ c \in Allocated(s) /\ c \notin ToSet(s.list) /\ ~s.copy[c].deleteMe
    BY DEF Sound
  <2>2. IsTidy(s.list)
    BY DEF Sound
  <2> QED BY <2>1, <2>2, StateFields, CopyFields
<1>0. PICK s1 : s1 = AddFirst(s, c)
  OBVIOUS
<1>2. /\ Sound(s1, F \ {c}, L, {})
      /\ s1.copy = s.copy /\ s1.hash = s.hash /\ s1.list = <<c>> \o s.list
  <2>1. Listed(s, F, L, c, s1)
    BY <1>0, ListKeeps
  <2> QED BY <2>1 DEF Listed
<1>3. /\ s1.list \in Seq(Copy) /\ IsTidy(s1.list) /\ ToSet(s1.list) = ToSet(s.list) \cup {c}
      /\ Follows(s.list, s1.list)
  BY <1>1, <1>2, PushLemma, FollowsPush
<1>4. Allocated(s1) = Allocated(s)
  BY <1>2 DEF Allocated
<1>5. s2 = [(IF s1.hash[u] = None THEN s1 ELSE FreeMemoryCopy(s1, s1.hash[u])) EXCEPT !.hash[u] = c]
  BY <1>0, <1>2 DEF Publish
<1> DEFINE old == s.hash[u]
<1>6. PICK s3 : /\ s3 = IF old = None THEN s1 ELSE FreeMemoryCopy(s1, old)
                /\ s2 = [s3 EXCEPT !.hash[u] = c]
  BY <1>2, <1>5
<1> HIDE DEF old
<1>7. /\ Sound(s3, F \ {c}, L, {}) /\ Fewer(s1, s3)
      /\ s3.copy[c] = s.copy[c] /\ c \in ToSet(s3.list)
      /\ Follows(s.list, s3.list) /\ ToSet(s3.list) \subseteq ToSet(s.list) \cup {c}
      /\ \A d \in ToSet(s.list) : d # old => d \in ToSet(s3.list)
  <2>1. CASE old = None
    <3>1. s3 = s1
      BY <1>6, <2>1
    <3>2. Fewer(s1, s1)
      BY DEF Fewer
    <3> QED BY <1>2, <1>3, <3>1, <3>2
  <2>2. CASE old # None
    <3>1. s3 = FreeMemoryCopy(s1, old)
      BY <1>6, <2>2
    <3>2. old \in ToSet(s.list) /\ old \in Allocated(s1) /\ old # c /\ old \notin F
      BY <1>1, <1>4, <2>2 DEF Sound, old
    <3>3. Sound(s3, (F \ {c}) \ {old}, L, {})
      BY <1>2, <3>1, <3>2, FreeKeeps
    <3>4. (F \ {c}) \ {old} = F \ {c}
      BY <3>2
    <3>5. /\ Fewer(s1, s3) /\ \A d \in Copy \ {old} : s3.copy[d] = s1.copy[d]
          /\ \/ s3.list = s1.list
             \/ old \in ToSet(s1.list) /\ s3.list = Without(s1.list, old)
      <4>1. Sound(s1, F \ {c}, L, {}) /\ {} \subseteq {old}
        BY <1>2
      <4>2. TakenAway(s1, old, s3)
        BY <3>1, <3>2, <4>1, FreeTakesAway
      <4> QED BY <4>2 DEF TakenAway
    <3>6. CASE s3.list = s1.list
      BY <1>1, <1>2, <1>3, <3>2, <3>3, <3>4, <3>5, <3>6
    <3>7. CASE old \in ToSet(s1.list) /\ s3.list = Without(s1.list, old)
      <4>1. ToSet(s3.list) = ToSet(s1.list) \ {old}
        BY <1>3, <3>7, WithoutLemma
      <4>2. Follows(s1.list, s3.list)
        BY <1>3, <3>7, FollowsWithout
      <4>3. Follows(s.list, s3.list)
        BY <1>3, <4>1, <4>2, FollowsOn
      <4> QED BY <1>1, <1>2, <1>3, <3>2, <3>3, <3>4, <3>5, <4>1, <4>3
    <3> QED BY <3>5, <3>6, <3>7
  <2> QED BY <2>1, <2>2
<1>8. /\ Sound(s2, F \ {c}, L, {})
      /\ s2.copy = s3.copy /\ s2.list = s3.list /\ s2.hash = [s3.hash EXCEPT ![u] = c]
  <2>1. ~s3.copy[c].deleteMe /\ u = s3.copy[c].url
    BY <1>1, <1>7
  <2>2. Sound(s3, F \ {c}, L, {}) /\ c \in ToSet(s3.list)
    BY <1>7
  <2>3. s2 = Name(s3, u, c)
    BY <1>6 DEF Name
  <2> QED BY <2>1, <2>2, <2>3, HashKeeps
<1>9. s3.hash \in [Url -> Copy \cup {None}]
  BY <1>7, StateFields DEF Sound
<1>10. s2.hash[u] = c /\ \A v \in Url \ {u} : s2.hash[v] = s3.hash[v]
  BY <1>1, <1>8, <1>9
<1>11. \A v \in Url \ {u} : s2.hash[v] = s.hash[v] \/ s2.hash[v] = None
  BY <1>2, <1>7, <1>10 DEF Fewer
<1>12. \A d \in Allocated(s2) : /\ d \in Allocated(s) /\ s2.copy[d].locks = s.copy[d].locks
                                /\ s2.copy[d].url = s.copy[d].url
  <2>1. Allocated(s2) = Allocated(s3)
    BY <1>8 DEF Allocated
  <2> QED BY <1>2, <1>4, <1>7, <1>8, <2>1 DEF Fewer
<1>13. /\ Follows(s.list, s2.list) /\ ToSet(s2.list) \subseteq ToSet(s.list) \cup {c}
       /\ \A d \in ToSet(s.list) : d # s.hash[u] => d \in ToSet(s2.list)
  BY <1>7, <1>8 DEF old
<1> QED BY <1>1, <1>8, <1>10, <1>11, <1>12, <1>13 DEF InPlace
-----------------------------------------------------------------------------
(* The loads that read each copy; one comes or goes.                       *)
Loans == [c \in Copy |-> Cardinality(Readers(c))]

Busy == {r \in Load : reading[r] # None}

LEMMA ReadersFinite ==
    ASSUME IsFiniteSet(Busy), NEW c \in Copy
    PROVE  IsFiniteSet(Readers(c)) /\ Loans[c] = Cardinality(Readers(c)) /\ Loans[c] \in Nat
<1>1. Readers(c) \in SUBSET Busy
  BY CacheAssumption DEF Readers, Busy
<1>2. IsFiniteSet(Readers(c))
  BY <1>1, FS_Subset
<1>3. Cardinality(Readers(c)) \in Nat
  BY <1>2, FS_CardinalityType
<1> QED BY <1>2, <1>3 DEF Loans

LEMMA LoansType ==
    ASSUME IsFiniteSet(Busy)
    PROVE  Loans \in [Copy -> Nat]
BY ReadersFinite DEF Loans

LEMMA LoansTypeLater ==
    ASSUME IsFiniteSet(Busy)'
    PROVE  Loans' \in [Copy -> Nat]
<1> SUFFICES ASSUME NEW c \in Copy
             PROVE  Cardinality(Readers(c)') \in Nat
  BY DEF Loans
<1>1. Readers(c)' \in SUBSET Busy'
  BY CacheAssumption DEF Readers, Busy
<1>2. IsFiniteSet(Readers(c)')
  BY <1>1, FS_Subset
<1> QED BY <1>2, FS_CardinalityType

LEMMA LoanBegins ==
    ASSUME IsFiniteSet(Busy), NEW r \in Load, NEW c \in Copy, reading[r] = None,
           reading' = [reading EXCEPT ![r] = c], reading \in [Load -> Copy \cup {None}]
    PROVE  /\ IsFiniteSet(Busy)'
           /\ Loans'[c] = Loans[c] + 1 /\ \A d \in Copy \ {c} : Loans'[d] = Loans[d]
<1>1. Busy' = Busy \cup {r}
  BY CacheAssumption DEF Busy
<1>2. IsFiniteSet(Busy)'
  BY <1>1, FS_AddElement
<1>3. Readers(c)' = Readers(c) \cup {r} /\ r \notin Readers(c)
  BY CacheAssumption DEF Readers
<1>4. \A d \in Copy \ {c} : Readers(d)' = Readers(d)
  BY CacheAssumption DEF Readers
<1>5. Cardinality(Readers(c)') = Cardinality(Readers(c)) + 1
  BY <1>3, ReadersFinite, FS_AddElement
<1>6. Loans'[c] = Cardinality(Readers(c)') /\ Loans[c] = Cardinality(Readers(c))
  BY DEF Loans
<1>7. \A d \in Copy \ {c} : Loans'[d] = Loans[d]
  BY <1>4 DEF Loans
<1> QED BY <1>2, <1>5, <1>6, <1>7

LEMMA LoanEnds ==
    ASSUME IsFiniteSet(Busy), NEW r \in Load, NEW c \in Copy, reading[r] = c, GiveUp(r),
           reading \in [Load -> Copy \cup {None}]
    PROVE  /\ IsFiniteSet(Busy)'
           /\ Loans'[c] + 1 = Loans[c] /\ \A d \in Copy \ {c} : Loans'[d] = Loans[d]
<1>1. Busy' = Busy \ {r}
  BY CacheAssumption DEF Busy, GiveUp
<1>2. IsFiniteSet(Busy)'
  BY <1>1, FS_RemoveElement
<1>3. Readers(c)' = Readers(c) \ {r} /\ r \in Readers(c)
  BY CacheAssumption DEF Readers, GiveUp
<1>4. \A d \in Copy \ {c} : Readers(d)' = Readers(d)
  BY CacheAssumption DEF Readers, GiveUp
<1>5. Cardinality(Readers(c)') = Cardinality(Readers(c)) - 1
  BY <1>3, ReadersFinite, FS_RemoveElement, ZenonT(40)
<1>6. Loans'[c] = Cardinality(Readers(c)') /\ Loans[c] = Cardinality(Readers(c))
  BY DEF Loans
<1>7. \A d \in Copy \ {c} : Loans'[d] = Loans[d]
  BY <1>4 DEF Loans
<1>8. Cardinality(Readers(c)) \in Nat
  BY ReadersFinite
<1> QED BY <1>2, <1>5, <1>6, <1>7, <1>8
-----------------------------------------------------------------------------
(* The inductive invariant: the cache is sound for the streams and loads   *)
(* there are, no two streams fill one copy, and each fills one of its own  *)
(* URL.                                                                    *)
Active == {w \in Stream : filling[w] # None /\ filling[w].copy # None}

Streams ==
    /\ \A v, w \in Active : filling[v].copy = filling[w].copy => v = w
    /\ \A w \in Active : cache.copy[filling[w].copy].url = filling[w].url

IInv ==
    /\ maxSize \in Sizes
    /\ filling \in [Stream -> Filler \cup {None}]
    /\ reading \in [Load -> Copy \cup {None}]
    /\ holds \in [Url -> 0 .. MaxHolds]
    /\ Sound(cache, Filled, Loans, {}) /\ IsFiniteSet(Busy)
    /\ Streams

LEMMA FilledIs ==
    \A c : c \in Filled <=> \E w \in Active : c = filling[w].copy
BY DEF Filled, Active

LEMMA FilledType ==
    ASSUME filling \in [Stream -> Filler \cup {None}]
    PROVE  /\ Filled \subseteq Copy
           /\ \A w \in Stream : filling[w] # None =>
                /\ filling[w] \in Filler /\ filling[w].url \in Url
                /\ filling[w].copy \in Copy \cup {None}
<1>1. \A w \in Stream : filling[w] # None =>
        /\ filling[w] \in Filler /\ filling[w].url \in Url
        /\ filling[w].copy \in Copy \cup {None}
  BY DEF Filler
<1> QED BY <1>1, FilledIs DEF Active

(* A stream that ends, or goes on without its copy.                        *)
Leaves(w) ==
    /\ filling[w] # None
    /\ \/ filling' = [filling EXCEPT ![w] = None]
       \/ filling' = [filling EXCEPT ![w].copy = None]

LEMMA FillerLeft ==
    ASSUME NEW f \in Filler, NEW g, g = [f EXCEPT !.copy = None]
    PROVE  g \in Filler /\ g # None /\ g.copy = None
<1>1. g = [url |-> f.url, copy |-> None] /\ f.url \in Url
  BY DEF Filler
<1> QED BY <1>1, CacheAssumption DEF Filler

LEMMA StreamLeaves ==
    ASSUME IInv, NEW w \in Stream, Leaves(w)
    PROVE  /\ filling' \in [Stream -> Filler \cup {None}]
           /\ Active' = Active \ {w} /\ \A v \in Active' : filling'[v] = filling[v]
           /\ Filled' = Filled \ {filling[w].copy}
<1>1. /\ filling \in [Stream -> Filler \cup {None}]
      /\ filling[w] \in Filler /\ None \notin Filler
  BY CacheAssumption DEF IInv, Leaves
<1>2. /\ filling' \in [Stream -> Filler \cup {None}]
      /\ \A v \in Stream \ {w} : filling'[v] = filling[v]
      /\ filling'[w] = None \/ filling'[w].copy = None
  <2>1. CASE filling' = [filling EXCEPT ![w] = None]
    BY <1>1, <2>1
  <2>2. CASE filling' = [filling EXCEPT ![w].copy = None]
    <3>1. filling' = [filling EXCEPT ![w] = [filling[w] EXCEPT !.copy = None]]
      BY <1>1, <2>2
    <3> DEFINE g == [filling[w] EXCEPT !.copy = None]
    <3>2. g \in Filler /\ g.copy = None
      BY <1>1, FillerLeft
    <3> HIDE DEF g
    <3>3. filling' = [filling EXCEPT ![w] = g]
      BY <3>1 DEF g
    <3> QED BY <1>1, <3>2, <3>3
  <2> QED BY <2>1, <2>2 DEF Leaves
<1>3. Active' = Active \ {w} /\ \A v \in Active' : filling'[v] = filling[v]
  <2>1. \A v \in Stream \ {w} : v \in Active' <=> v \in Active
    BY <1>2 DEF Active
  <2>2. w \notin Active' /\ Active' \subseteq Stream /\ Active \subseteq Stream
    BY <1>2 DEF Active
  <2> QED BY <1>2, <2>1, <2>2
<1>4. \A c : c \in Filled' <=> \E v \in Active' : c = filling'[v].copy
  BY DEF Filled, Active
<1>5. \A c : c \in Filled' <=> \E v \in Active \ {w} : c = filling[v].copy
  BY <1>3, <1>4
<1>6. \A c : c \in Filled /\ c # filling[w].copy => c \in Filled'
  BY <1>5, FilledIs
<1>7. \A c : c \in Filled' => c \in Filled
  BY <1>5, FilledIs
<1>8. filling[w].copy \notin Filled'
  <2> SUFFICES ASSUME NEW v \in Active \ {w}, filling[w].copy = filling[v].copy
               PROVE  FALSE
    BY <1>5
  <2>1. w \in Active
    BY <1>1 DEF Active
  <2> QED BY <2>1 DEF IInv, Streams
<1> QED BY <1>2, <1>3, <1>6, <1>7, <1>8

LEMMA StreamsKeep ==
    ASSUME IInv, Active' \subseteq Active, \A v \in Active' : filling'[v] = filling[v],
           Filled' \subseteq Allocated(cache'),
           \A c \in Allocated(cache') : cache'.copy[c].url = cache.copy[c].url
    PROVE  Streams'
<1>1. \A v, w \in Active' : filling'[v].copy = filling'[w].copy => v = w
  BY DEF IInv, Streams
<1>2. ASSUME NEW w \in Active'
      PROVE  cache'.copy[filling'[w].copy].url = filling'[w].url
  <2>1. filling'[w].copy \in Filled'
    BY <1>2 DEF Filled, Active
  <2>2. cache.copy[filling[w].copy].url = filling[w].url
    BY DEF IInv, Streams
  <2> QED BY <2>1, <2>2
<1> QED BY <1>1, <1>2 DEF Streams

(* The frame of calls that are not about streams, nor about loads.         *)
LEMMA Rests ==
    /\ UNCHANGED filling => Filled' = Filled /\ Active' = Active
    /\ UNCHANGED reading => Loans' = Loans /\ Busy' = Busy
<1>1. UNCHANGED filling => Filled' = Filled /\ Active' = Active
  BY DEF Filled, Active
<1>2. UNCHANGED reading => Loans' = Loans /\ Busy' = Busy
  BY DEF Loans, Busy, Readers
<1> QED BY <1>1, <1>2

(* What a step may do to the copies: all but begin to fill one.            *)
OnlyLess ==
    /\ Filled' \subseteq Filled
    /\ Allocated(cache') \subseteq Allocated(cache)
    /\ \A u \in Url : \/ cache'.hash[u] = cache.hash[u] \/ cache'.hash[u] = None
                      \/ cache'.hash[u] \in Filled \ Filled'

ShelfMoves(c) ==
    \/ Shelf(c)' = Shelf(c)
    \/ Shelf(c) = "prepared" /\ Shelf(c)' = "offered"
    \/ Shelf(c) \in {"prepared", "offered"} /\ Shelf(c)' = "withdrawn"
    \/ Shelf(c) \in {"prepared", "offered", "withdrawn"} /\ Shelf(c)' = "gone"

LEMMA Shelves ==
    ASSUME Sound(cache, Filled, Loans, {}), NEW c
    PROVE  /\ Shelf(c) = "gone" <=> c \notin Allocated(cache)
           /\ Shelf(c) = "prepared" <=> c \in Filled
           /\ Shelf(c) = "offered" <=> c \in Offered
           /\ Shelf(c) \in {"gone", "prepared", "offered", "withdrawn"}
<1>1. /\ c \in Filled => c \in Allocated(cache) /\ c \notin Offered
      /\ c \in Offered => c \in Allocated(cache)
  BY DEF Sound, Offered
<1>2. CASE c \notin Allocated(cache)
  <2>1. Shelf(c) = "gone"
    BY <1>1, <1>2 DEF Shelf
  <2> QED BY <1>1, <1>2, <2>1
<1>3. CASE c \in Filled
  <2>1. Shelf(c) = "prepared"
    BY <1>1, <1>3 DEF Shelf
  <2> QED BY <1>1, <1>3, <2>1
<1>4. CASE c \in Offered
  <2>1. Shelf(c) = "offered"
    BY <1>1, <1>4 DEF Shelf
  <2> QED BY <1>1, <1>4, <2>1
<1>5. CASE c \in Allocated(cache) /\ c \notin Filled /\ c \notin Offered
  <2>1. Shelf(c) = "withdrawn"
    BY <1>5 DEF Shelf
  <2> QED BY <1>5, <2>1
<1> QED BY <1>2, <1>3, <1>4, <1>5

LEMMA ShelvesLater ==
    ASSUME Sound(cache', Filled', Loans', {}), NEW c
    PROVE  /\ Shelf(c)' = "gone" <=> c \notin Allocated(cache')
           /\ Shelf(c)' = "prepared" <=> c \in Filled'
           /\ Shelf(c)' = "offered" <=> c \in Offered'
           /\ Shelf(c)' \in {"gone", "prepared", "offered", "withdrawn"}
<1>1. /\ c \in Filled' => c \in Allocated(cache') /\ c \notin Offered'
      /\ c \in Offered' => c \in Allocated(cache')
  BY DEF Sound, Offered
<1>2. CASE c \notin Allocated(cache')
  <2>1. Shelf(c)' = "gone"
    BY <1>1, <1>2 DEF Shelf
  <2> QED BY <1>1, <1>2, <2>1
<1>3. CASE c \in Filled'
  <2>1. Shelf(c)' = "prepared"
    BY <1>1, <1>3 DEF Shelf
  <2> QED BY <1>1, <1>3, <2>1
<1>4. CASE c \in Offered'
  <2>1. Shelf(c)' = "offered"
    BY <1>1, <1>4 DEF Shelf
  <2> QED BY <1>1, <1>4, <2>1
<1>5. CASE c \in Allocated(cache') /\ c \notin Filled' /\ c \notin Offered'
  <2>1. Shelf(c)' = "withdrawn"
    BY <1>5 DEF Shelf
  <2> QED BY <1>5, <2>1
<1> QED BY <1>2, <1>3, <1>4, <1>5

LEMMA LessMoves ==
    ASSUME Sound(cache, Filled, Loans, {}), Sound(cache', Filled', Loans', {}), OnlyLess,
           NEW c \in Copy
    PROVE  ShelfMoves(c)
<1>1. c \in Offered => c \notin Filled
  BY DEF Offered, Sound
<1>2. c \in Offered' => c \in Offered \/ c \in Filled \ Filled'
  BY DEF OnlyLess, Offered
<1>3. c \in Filled' => c \in Filled
  BY DEF OnlyLess
<1>4. c \in Allocated(cache') => c \in Allocated(cache)
  BY DEF OnlyLess
<1> QED BY <1>1, <1>2, <1>3, <1>4, Shelves, ShelvesLater DEF ShelfMoves

(* The step of Lending a copy makes.                                       *)
Lends(c) ==
    \/ Shelf(c) = "gone" /\ Shelf(c)' = "prepared" /\ Loans'[c] = Loans[c]
    \/ Shelf(c) = "prepared" /\ Shelf(c)' = "offered" /\ Loans'[c] = Loans[c]
    \/ Shelf(c) = "offered" /\ Shelf(c)' = Shelf(c) /\ Loans'[c] = Loans[c] + 1
    \/ Loans'[c] + 1 = Loans[c] /\ Shelf(c)' = Shelf(c)
    \/ Shelf(c) \in {"prepared", "offered"} /\ Shelf(c)' = "withdrawn" /\ Loans'[c] = Loans[c]
    \/ Shelf(c) \in {"prepared", "offered", "withdrawn"} /\ Shelf(c)' = "gone" /\ Loans'[c] = 0 /\ Loans[c] = 0
    \/ Shelf(c) = "withdrawn" /\ Shelf(c)' = "gone" /\ Loans[c] = 1 /\ Loans'[c] = 0
    \/ Shelf(c)' = Shelf(c) /\ Loans'[c] = Loans[c]

LEMMA LendsLess ==
    ASSUME Sound(cache, Filled, Loans, {}), Sound(cache', Filled', Loans', {}), OnlyLess,
           Loans \in [Copy -> Nat], NEW c \in Copy, Loans'[c] = Loans[c]
    PROVE  Lends(c)
<1>1. ShelfMoves(c)
  BY LessMoves
<1>2. Shelf(c)' = "gone" => Loans'[c] = 0
  <2>1. Loans'[c] > 0 => c \in Allocated(cache')
    BY DEF Sound
  <2>2. Loans[c] \in Nat
    OBVIOUS
  <2> QED BY <2>1, <2>2, ShelvesLater
<1> QED BY <1>1, <1>2 DEF ShelfMoves, Lends
-----------------------------------------------------------------------------
(* The steps: each keeps the invariant, and lends every copy as Lending    *)
(* says.                                                                   *)
Keeps == IInv' /\ \A c \in Copy : Lends(c)

LEMMA SoundNow ==
    ASSUME IInv
    PROVE  /\ Sound(cache, Filled, Loans, {}) /\ Loans \in [Copy -> Nat] /\ cache \in CacheState
           /\ Filled \subseteq Copy /\ Filled \subseteq Allocated(cache)
           /\ ToSet(cache.list) \subseteq Allocated(cache)
           /\ cache.hash \in [Url -> Copy \cup {None}]
           /\ \A u \in Url : cache.hash[u] # None =>
                /\ cache.hash[u] \in ToSet(cache.list) /\ cache.hash[u] \in Allocated(cache)
                /\ cache.hash[u] \in Copy /\ cache.copy[cache.hash[u]].url = u
<1>1. Sound(cache, Filled, Loans, {}) /\ Loans \in [Copy -> Nat] /\ Filled \subseteq Copy
  BY LoansType, FilledType DEF IInv
<1>2. cache.hash \in [Url -> Copy \cup {None}]
  BY <1>1 DEF Sound, CacheState
<1> QED BY <1>1, <1>2 DEF Sound

(* Calls that begin no load, end none and begin to fill no copy.           *)
LEMMA LessKeeps ==
    ASSUME IInv, UNCHANGED reading, maxSize' \in Sizes, holds' \in [Url -> 0 .. MaxHolds],
           filling' \in [Stream -> Filler \cup {None}],
           Active' \subseteq Active, \A v \in Active' : filling'[v] = filling[v],
           Sound(cache', Filled', Loans, {}), OnlyLess,
           \A c \in Allocated(cache') : cache'.copy[c].url = cache.copy[c].url
    PROVE  Keeps
<1>1. Loans' = Loans /\ Busy' = Busy
  BY Rests
<1>2. Streams'
  <2>1. Filled' \subseteq Allocated(cache')
    BY DEF Sound
  <2> QED BY <2>1, StreamsKeep
<1>3. reading' \in [Load -> Copy \cup {None}]
  BY DEF IInv
<1>4. Sound(cache', Filled', Loans', {}) /\ IsFiniteSet(Busy)'
  BY <1>1 DEF IInv
<1>5. IInv'
  BY <1>2, <1>3, <1>4 DEF IInv
<1>6. \A c \in Copy : Lends(c)
  <2>1. Sound(cache, Filled, Loans, {}) /\ Loans \in [Copy -> Nat]
    BY SoundNow
  <2> QED BY <1>1, <1>4, <2>1, LendsLess
<1> QED BY <1>5, <1>6 DEF Keeps

(* ... of which most leave the streams alone too.                          *)
LEMMA FewerKeeps ==
    ASSUME IInv, UNCHANGED <<filling, reading>>, maxSize' \in Sizes,
           holds' \in [Url -> 0 .. MaxHolds],
           Sound(cache', Filled, Loans, {}), Fewer(cache, cache')
    PROVE  Keeps
<1>1. Filled' = Filled /\ Active' = Active
  BY Rests
<1>2. OnlyLess /\ \A c \in Allocated(cache') : cache'.copy[c].url = cache.copy[c].url
  BY <1>1 DEF OnlyLess, Fewer
<1>3. filling' \in [Stream -> Filler \cup {None}]
  BY DEF IInv
<1>4. Sound(cache', Filled', Loans, {})
  BY <1>1
<1> QED BY <1>1, <1>2, <1>3, <1>4, LessKeeps

LEMMA FindURLKeeps ==
    ASSUME IInv, NEW u \in Url, FindURL(u)
    PROVE  Keeps
<1>1. cache.hash[u] \in ToSet(cache.list)
  BY SoundNow DEF FindURL
<1>2. cache' = AddFirst(Unlist(cache, cache.hash[u]), cache.hash[u])
  BY DEF FindURL, Found
<1>3. Sound(cache', Filled, Loans, {}) /\ Fewer(cache, cache')
  BY <1>1, <1>2, SoundNow, FoundKeeps
<1>4. maxSize' \in Sizes /\ holds' \in [Url -> 0 .. MaxHolds] /\ UNCHANGED <<filling, reading>>
  BY DEF FindURL, IInv
<1> QED BY <1>3, <1>4, FewerKeeps

LEMMA RemoveURLKeeps ==
    ASSUME IInv, NEW u \in Url, RemoveURL(u)
    PROVE  Keeps
<1> DEFINE c == cache.hash[u]
<1>1. c \in Allocated(cache) /\ c \notin Filled /\ cache' = FreeMemoryCopy(cache, c)
  BY SoundNow DEF RemoveURL, Sound
<1> HIDE DEF c
<1>2. Sound(FreeMemoryCopy(cache, c), Filled \ {c}, Loans, {})
  BY <1>1, SoundNow, FreeKeeps
<1>3. TakenAway(cache, c, FreeMemoryCopy(cache, c))
  BY <1>1, SoundNow, FreeTakesAway
<1>4. Filled \ {c} = Filled
  BY <1>1
<1>5. Sound(cache', Filled, Loans, {}) /\ Fewer(cache, cache')
  BY <1>1, <1>2, <1>3, <1>4 DEF TakenAway
<1>6. maxSize' \in Sizes /\ holds' \in [Url -> 0 .. MaxHolds] /\ UNCHANGED <<filling, reading>>
  BY DEF RemoveURL, IInv
<1> QED BY <1>5, <1>6, FewerKeeps

LEMMA FirstSegmentType ==
    ASSUME NEW length \in Lengths
    PROVE  FirstSegment(length) \in Nat
BY CacheAssumption DEF FirstSegment

LEMMA FewerStill ==
    ASSUME NEW s, NEW s1, NEW s2, Fewer(s, s1), Fewer(s1, s2)
    PROVE  Fewer(s, s2)
BY DEF Fewer

LEMMA FailsKeeps ==
    ASSUME IInv, NEW w \in Stream, NEW u \in Url, ConverterFails(w, u),
           Sound(cache', Filled, Loans, {}), Fewer(cache, cache')
    PROVE  Keeps
<1>1. maxSize' \in Sizes /\ holds' \in [Url -> 0 .. MaxHolds] /\ UNCHANGED <<filling, reading>>
  BY DEF ConverterFails, IInv
<1> QED BY <1>1, FewerKeeps

LEMMA ConverterFailsKeeps ==
    ASSUME IInv, NEW w \in Stream, NEW u \in Url, ConverterFails(w, u)
    PROVE  Keeps
<1> DEFINE s == [cache EXCEPT !.hash[u] = None]
<1>1. Sound(s, Filled, Loans, {}) /\ Fewer(cache, s) /\ Loans \in [Copy -> Nat]
  BY SoundNow, UnhashKeeps
<1>2. CASE cache' = s
  BY <1>1, <1>2, FailsKeeps
<1>3. ASSUME NEW length \in Lengths, cache' = Leak(s, FirstSegment(length))
      PROVE  Keeps
  <2>1. FirstSegment(length) \in Nat
    BY FirstSegmentType
  <2> HIDE DEF s
  <2>2. Sound(cache', Filled, Loans, {}) /\ Fewer(s, cache')
    BY <1>1, <1>3, <2>1, LeakKeeps
  <2>3. Fewer(cache, cache')
    BY <1>1, <2>2, FewerStill
  <2> QED BY <2>2, <2>3, FailsKeeps
<1> QED BY <1>2, <1>3 DEF ConverterFails

LEMMA SetSizeKeeps ==
    ASSUME IInv, NEW max \in Sizes, SetSize(max)
    PROVE  /\ Keeps /\ Thinned(cache, cache')
           /\ cache'.size <= maxSize' \/ \A c \in ToSet(cache'.list) : Locked(cache', c)
<1>1. cache' = ReduceTo(cache, max) /\ maxSize' = max /\ max \in Nat
  BY CacheAssumption DEF SetSize
<1>2. /\ Sound(cache', Filled, Loans, {}) /\ Thinned(cache, cache')
      /\ cache'.size <= maxSize' \/ \A c \in ToSet(cache'.list) : Locked(cache', c)
  BY <1>1, SoundNow, ReduceLemma
<1>3. maxSize' \in Sizes /\ holds' \in [Url -> 0 .. MaxHolds] /\ UNCHANGED <<filling, reading>>
  BY <1>1 DEF SetSize, IInv
<1>4. Keeps
  BY <1>2, <1>3, FewerKeeps DEF Thinned
<1> QED BY <1>2, <1>4

(* The locks other modules put on a copy.                                  *)
LEMMA WithLocksKeeps ==
    ASSUME IInv, NEW u \in Url, NEW n \in Nat, cache' = WithLocks(cache, u, n),
           UNCHANGED <<maxSize, filling, reading>>, holds' \in [Url -> 0 .. MaxHolds]
    PROVE  Keeps
<1>0. Loans' = Loans /\ Busy' = Busy /\ Filled' = Filled /\ Active' = Active
  BY Rests
<1>1. CASE cache.hash[u] = None
  <2>1. cache' = cache
    BY <1>1 DEF WithLocks
  <2>2. Sound(cache', Filled, Loans, {}) /\ Fewer(cache, cache') /\ maxSize' \in Sizes
    BY <2>1, SoundNow DEF Fewer, IInv
  <2> QED BY <2>2, FewerKeeps
<1>2. CASE cache.hash[u] # None
  <2> DEFINE c == cache.hash[u]
             k == [cache.copy[c] EXCEPT !.locks = n]
  <2>1. /\ c \in Allocated(cache) /\ c \in ToSet(cache.list) /\ c \in Copy
        /\ cache.copy \in [Copy -> CopyState \cup {None}] /\ cache.copy[c] \in CopyState
    <3>1. c \in Allocated(cache) /\ c \in ToSet(cache.list) /\ c \in Copy /\ cache \in CacheState
      BY <1>2, SoundNow
    <3> HIDE DEF c
    <3> QED BY <3>1, StateFields
  <2>2. cache' = [cache EXCEPT !.copy[c] = k]
    BY <1>2, <2>1 DEF WithLocks
  <2> HIDE DEF c
  <2>3. /\ k \in CopyState /\ k.url = cache.copy[c].url /\ k.size = cache.copy[c].size
        /\ k.deleteMe = cache.copy[c].deleteMe /\ k.readLock = cache.copy[c].readLock
    BY <2>1 DEF CopyState
  <2> HIDE DEF k
  <2>4. Loans[c] > 0 => k.readLock >= Loans[c]
    BY <2>1, <2>3, SoundNow DEF Sound
  <2>5. /\ Sound(cache', Filled, Loans, {}) /\ cache'.hash = cache.hash
        /\ cache'.copy = [cache.copy EXCEPT ![c] = k] /\ Allocated(cache') = Allocated(cache)
    <3>1. cache' = WithCopy(cache, c, k)
      BY <2>2 DEF WithCopy
    <3>2. Touched(cache, Filled, Loans, {}, c, k, cache')
      BY <2>1, <2>3, <2>4, <3>1, SoundNow, TouchKeeps
    <3> QED BY <3>2 DEF Touched
  <2>6. OnlyLess
    BY <1>0, <2>5 DEF OnlyLess
  <2>7. \A d \in Copy : cache'.copy[d].url = cache.copy[d].url
    BY <2>1, <2>3, <2>5
  <2>8. \A d \in Allocated(cache') : cache'.copy[d].url = cache.copy[d].url
    BY <2>7 DEF Allocated
  <2>9. maxSize' \in Sizes /\ filling' \in [Stream -> Filler \cup {None}]
    BY DEF IInv
  <2>10. Sound(cache', Filled', Loans, {})
    BY <1>0, <2>5
  <2> QED BY <1>0, <2>6, <2>8, <2>9, <2>10, LessKeeps
<1> QED BY <1>1, <1>2

LEMMA LocksOfType ==
    ASSUME IInv, NEW u \in Url
    PROVE  LocksOf(u) \in Nat
<1>1. CASE cache.hash[u] = None
  BY <1>1 DEF LocksOf
<1>2. CASE cache.hash[u] # None
  <2>1. cache.hash[u] \in Allocated(cache) /\ cache \in CacheState
    BY <1>2, SoundNow
  <2>2. cache.copy[cache.hash[u]] \in CopyState
    BY <2>1, StateFields
  <2> QED BY <1>2, <2>2, CopyFields DEF LocksOf
<1> QED BY <1>1, <1>2

LEMMA LockKeeps ==
    ASSUME IInv, NEW u \in Url, Lock(u)
    PROVE  Keeps
<1>1. LocksOf(u) + 1 \in Nat
  BY LocksOfType
<1>2. /\ cache' = WithLocks(cache, u, LocksOf(u) + 1)
      /\ UNCHANGED <<maxSize, filling, reading>>
  BY DEF Lock
<1>3. holds' \in [Url -> 0 .. MaxHolds]
  BY CacheAssumption DEF Lock, IInv
<1> QED BY <1>1, <1>2, <1>3, WithLocksKeeps

LEMMA UnlockKeeps ==
    ASSUME IInv, NEW u \in Url, Unlock(u)
    PROVE  Keeps
<1> DEFINE n == IF LocksOf(u) = 0 THEN 0 ELSE LocksOf(u) - 1
<1>1. n \in Nat
  BY LocksOfType
<1>2. /\ cache' = WithLocks(cache, u, n)
      /\ UNCHANGED <<maxSize, filling, reading>>
  BY DEF Unlock
<1> HIDE DEF n
<1>3. holds' \in [Url -> 0 .. MaxHolds]
  BY CacheAssumption DEF Unlock, IInv
<1> QED BY <1>1, <1>2, <1>3, WithLocksKeeps

(* The streams: one begins to fill a copy, ...                             *)
LEMMA NewCopyType ==
    ASSUME NEW u \in Url, NEW size \in Nat
    PROVE  /\ NewCopy(u, size) \in CopyState /\ NewCopy(u, size).url = u
           /\ NewCopy(u, size).size = size /\ ~NewCopy(u, size).deleteMe
BY DEF NewCopy, CopyState

LEMMA CopyArrives ==
    ASSUME NEW s \in CacheState, NEW c \in Copy, NEW u \in Url, NEW n \in Nat
    PROVE  /\ Charge(WithNew(s, c, u, n), n) = Arrived(s, c, NewCopy(u, n), 0)
           /\ Leak(WithNew(s, c, u, 0), n) = Arrived(s, c, NewCopy(u, 0), n)
<1>1. s.size \in Nat /\ s.leaked \in Nat
  BY StateFields
<1>2. s = [copy |-> s.copy, hash |-> s.hash, list |-> s.list, size |-> s.size, leaked |-> s.leaked]
  BY DEF CacheState
<1>3. ASSUME NEW m \in Nat
      PROVE  WithNew(s, c, u, m) = [copy |-> [s.copy EXCEPT ![c] = NewCopy(u, m)], hash |-> s.hash,
                                    list |-> s.list, size |-> s.size, leaked |-> s.leaked]
  BY <1>2 DEF WithNew
<1>4. NewCopy(u, n).size = n /\ NewCopy(u, 0).size = 0
  BY NewCopyType
<1>5. Charge(WithNew(s, c, u, n), n) = Arrived(s, c, NewCopy(u, n), 0)
  <2>1. s.size + n = s.size + n + 0 /\ s.leaked = s.leaked + 0
    BY <1>1
  <2> QED BY <1>3, <1>4, <2>1 DEF Charge, Arrived
<1>6. Leak(WithNew(s, c, u, 0), n) = Arrived(s, c, NewCopy(u, 0), n)
  <2> PICK x : x = WithNew(s, c, u, 0)
    OBVIOUS
  <2>1. x = [copy |-> [s.copy EXCEPT ![c] = NewCopy(u, 0)], hash |-> s.hash,
             list |-> s.list, size |-> s.size, leaked |-> s.leaked]
    BY <1>3
  <2>2. Leak(x, n) = [copy |-> x.copy, hash |-> x.hash, list |-> x.list,
                      size |-> x.size + n, leaked |-> x.leaked + n]
    <3>1. x = [copy |-> x.copy, hash |-> x.hash, list |-> x.list, size |-> x.size,
               leaked |-> x.leaked]
      BY <2>1
    <3>2. Leak(x, n) = [x EXCEPT !.size = x.size + n, !.leaked = x.leaked + n]
      BY DEF Leak
    <3> QED BY <3>1, <3>2
  <2>3. s.size + n = s.size + 0 + n
    BY <1>1
  <2> QED BY <1>4, <2>1, <2>2, <2>3 DEF Arrived
<1> QED BY <1>5, <1>6

LEMMA ConverterKeeps ==
    ASSUME IInv, NEW w \in Stream, NEW u \in Url, Converter(w, u)
    PROVE  Keeps
<1>1. PICK length \in Lengths, c \in Copy \ Allocated(cache) :
        /\ \/ cache' = Charge(WithNew(cache, c, u, FirstSegment(length)), FirstSegment(length))
           \/ cache' = Leak(WithNew(cache, c, u, 0), FirstSegment(length))
        /\ filling' = [filling EXCEPT ![w] = [url |-> u, copy |-> c]]
  BY DEF Converter
<1>2. PICK n \in Nat : n = FirstSegment(length)
  BY FirstSegmentType
<1>3. PICK size \in Nat, lost \in Nat : cache' = Arrived(cache, c, NewCopy(u, size), lost)
  <2>1. cache \in CacheState /\ c \in Copy
    BY SoundNow DEF Sound
  <2>2. \/ cache' = Arrived(cache, c, NewCopy(u, n), 0)
        \/ cache' = Arrived(cache, c, NewCopy(u, 0), n)
    BY <1>1, <1>2, <2>1, CopyArrives
  <2> QED BY <2>2
<1>4. PICK k \in CopyState : k = NewCopy(u, size) /\ k.url = u /\ ~k.deleteMe
  BY NewCopyType
<1>5. /\ Sound(cache', Filled \cup {c}, Loans, {}) /\ cache'.hash = cache.hash
      /\ cache'.copy = [cache.copy EXCEPT ![c] = k]
  <2>1. Sound(cache, Filled, Loans, {}) /\ Loans \in [Copy -> Nat]
    BY SoundNow
  <2>2. c \in Copy /\ c \notin Allocated(cache)
    OBVIOUS
  <2>3. Begun(cache, Filled, Loans, c, k, cache')
    BY <1>3, <1>4, <2>1, <2>2, NewKeeps
  <2> QED BY <2>3 DEF Begun
<1>6. cache.copy \in [Copy -> CopyState \cup {None}] /\ k # None /\ c # None
  BY <1>4, SoundNow, StateFields, CopyFields, CacheAssumption
<1>7. cache'.copy[c] = k /\ \A d \in Copy \ {c} : cache'.copy[d] = cache.copy[d]
  BY <1>5, <1>6
<1>8. /\ filling' \in [Stream -> Filler \cup {None}]
      /\ filling'[w].url = u /\ filling'[w].copy = c /\ filling'[w] # None
      /\ \A v \in Stream \ {w} : filling'[v] = filling[v]
  <2>1. [url |-> u, copy |-> c] \in Filler /\ [url |-> u, copy |-> c] # None
    BY CacheAssumption DEF Filler
  <2>2. filling \in [Stream -> Filler \cup {None}]
    BY DEF IInv
  <2> QED BY <1>1, <2>1, <2>2
<1>9. filling[w] = None
  BY DEF Converter
<1>10. Active' = Active \cup {w} /\ w \notin Active
  <2>1. w \in Active' /\ w \notin Active
    BY <1>6, <1>8, <1>9 DEF Active
  <2>2. \A v \in Stream \ {w} : v \in Active' <=> v \in Active
    BY <1>8 DEF Active
  <2>3. Active \subseteq Stream /\ Active' \subseteq Stream
    BY DEF Active
  <2> QED BY <2>1, <2>2, <2>3
<1>11. Filled' = Filled \cup {c}
  <2>1. \A d : d \in Filled' <=> \E v \in Active' : d = filling'[v].copy
    BY DEF Filled, Active
  <2>2. \A v \in Active : v \in Stream \ {w} /\ filling'[v] = filling[v]
    BY <1>8, <1>10 DEF Active
  <2>3. \A d : d \in Filled' <=> (d = c \/ \E v \in Active : d = filling[v].copy)
    BY <1>8, <1>10, <2>1, <2>2
  <2> QED BY <2>3, FilledIs
<1>12. Loans' = Loans /\ Busy' = Busy
  BY Rests DEF Converter
<1>13. Streams'
  <2>1. \A v \in Active : filling'[v] = filling[v]
    BY <1>8, <1>10 DEF Active
  <2>2. \A v \in Active : filling[v].copy \in Filled
    BY FilledIs
  <2>3. \A v \in Active : filling[v].copy \in Copy \ {c}
    BY <2>2, SoundNow
  <2>4. ASSUME NEW v \in Active', NEW x \in Active', filling'[v].copy = filling'[x].copy
        PROVE  v = x
    <3>1. CASE v \in Active /\ x \in Active
      BY <2>1, <2>4, <3>1 DEF IInv, Streams
    <3>2. CASE v = w \/ x = w
      BY <1>8, <1>10, <2>1, <2>3, <2>4, <3>2
    <3> QED BY <1>10, <3>1, <3>2
  <2>5. ASSUME NEW v \in Active'
        PROVE  cache'.copy[filling'[v].copy].url = filling'[v].url
    <3>1. CASE v = w
      BY <1>4, <1>7, <1>8, <3>1
    <3>2. CASE v \in Active
      <4>1. cache.copy[filling[v].copy].url = filling[v].url
        BY <3>2 DEF IInv, Streams
      <4> QED BY <1>7, <2>1, <2>3, <3>2, <4>1
    <3> QED BY <1>10, <3>1, <3>2
  <2> QED BY <2>4, <2>5 DEF Streams
<1>14. /\ maxSize' \in Sizes /\ reading' \in [Load -> Copy \cup {None}]
       /\ holds' \in [Url -> 0 .. MaxHolds]
  BY DEF Converter, IInv
<1>15. Sound(cache', Filled', Loans', {}) /\ IsFiniteSet(Busy)'
  BY <1>5, <1>11, <1>12 DEF IInv
<1>16. IInv'
  BY <1>8, <1>13, <1>14, <1>15 DEF IInv
<1>17. ASSUME NEW d \in Copy PROVE Lends(d)
  <2>1. Loans'[d] = Loans[d]
    BY <1>12
  <2>2. CASE d = c
    <3>1. Shelf(d) = "gone"
      BY <2>2, SoundNow, Shelves
    <3>2. Shelf(d)' = "prepared"
      BY <1>11, <1>15, <2>2, ShelvesLater
    <3> QED BY <2>1, <3>1, <3>2 DEF Lends
  <2>3. CASE d # c
    <3>1. d \in Allocated(cache') <=> d \in Allocated(cache)
      BY <1>7, <2>3 DEF Allocated
    <3>2. d \in Filled' <=> d \in Filled
      BY <1>11, <2>3
    <3>3. Offered' = Offered
      BY <1>5 DEF Offered
    <3>4. Shelf(d)' = Shelf(d)
      BY <3>1, <3>2, <3>3 DEF Shelf
    <3> QED BY <2>1, <3>4 DEF Lends
  <2> QED BY <2>2, <2>3
<1> QED BY <1>16, <1>17 DEF Keeps

(* ... a stream that ends or loses its copy, ...                           *)
LEMMA LeavesKeeps ==
    ASSUME IInv, NEW w \in Stream, Leaves(w), UNCHANGED <<maxSize, reading, holds>>,
           Sound(cache', Filled \ {filling[w].copy}, Loans, {}),
           \A c \in Allocated(cache') : /\ c \in Allocated(cache)
                                        /\ cache'.copy[c].url = cache.copy[c].url,
           \A u \in Url : \/ cache'.hash[u] = cache.hash[u] \/ cache'.hash[u] = None
                          \/ cache'.hash[u] = filling[w].copy /\ cache'.hash[u] \in Filled
    PROVE  Keeps
<1>1. /\ filling' \in [Stream -> Filler \cup {None}]
      /\ Active' = Active \ {w} /\ \A v \in Active' : filling'[v] = filling[v]
      /\ Filled' = Filled \ {filling[w].copy}
  BY StreamLeaves
<1>2. OnlyLess
  BY <1>1 DEF OnlyLess
<1>3. Active' \subseteq Active
  BY <1>1
<1>4. maxSize' \in Sizes /\ holds' \in [Url -> 0 .. MaxHolds]
  BY DEF IInv
<1>5. Sound(cache', Filled', Loans, {})
  BY <1>1
<1> QED BY <1>1, <1>2, <1>3, <1>4, <1>5, LessKeeps

LEMMA CopyLeaves ==
    ASSUME IInv, NEW w \in Stream, filling[w] # None, filling[w].copy # None
    PROVE  /\ filling[w].copy \in Filled /\ filling[w].copy \in Allocated(cache)
           /\ filling[w].copy \in Copy /\ cache.copy[filling[w].copy].url = filling[w].url
<1>1. w \in Active
  BY DEF Active
<1>2. filling[w].copy \in Filled /\ cache.copy[filling[w].copy].url = filling[w].url
  BY <1>1, FilledIs DEF IInv, Streams
<1> QED BY <1>2, SoundNow

LEMMA LeavesFreed ==
    ASSUME IInv, NEW w \in Stream, Leaves(w), UNCHANGED <<maxSize, reading, holds>>,
           filling[w].copy # None, cache' = FreeMemoryCopy(cache, filling[w].copy)
    PROVE  Keeps
<1> DEFINE c == filling[w].copy
<1>1. c \in Allocated(cache)
  BY CopyLeaves DEF Leaves
<1>2. Sound(FreeMemoryCopy(cache, c), Filled \ {c}, Loans, {})
  <2> HIDE DEF c
  <2> QED BY <1>1, SoundNow, FreeKeeps
<1>3. TakenAway(cache, c, FreeMemoryCopy(cache, c))
  <2> HIDE DEF c
  <2> QED BY <1>1, SoundNow, FreeTakesAway
<1>4. Fewer(cache, cache') /\ Sound(cache', Filled \ {c}, Loans, {})
  BY <1>2, <1>3 DEF TakenAway
<1>5. /\ \A d \in Allocated(cache') : d \in Allocated(cache) /\ cache'.copy[d].url = cache.copy[d].url
      /\ \A u \in Url : cache'.hash[u] = cache.hash[u] \/ cache'.hash[u] = None
  BY <1>4 DEF Fewer
<1> QED BY <1>4, <1>5, LeavesKeeps

LEMMA LeavesNothing ==
    ASSUME IInv, NEW w \in Stream, Leaves(w), UNCHANGED <<maxSize, reading, holds>>,
           filling[w].copy = None, Sound(cache', Filled, Loans, {}), Fewer(cache, cache')
    PROVE  Keeps
<1>1. Filled \ {filling[w].copy} = Filled
  BY SoundNow, CacheAssumption
<1>2. /\ \A d \in Allocated(cache') : d \in Allocated(cache) /\ cache'.copy[d].url = cache.copy[d].url
      /\ \A u \in Url : cache'.hash[u] = cache.hash[u] \/ cache'.hash[u] = None
  BY DEF Fewer
<1> QED BY <1>1, <1>2, LeavesKeeps

LEMMA AbortKeeps ==
    ASSUME IInv, NEW w \in Stream, Abort(w)
    PROVE  Keeps
<1>1. Leaves(w) /\ UNCHANGED <<maxSize, reading, holds>>
  BY DEF Abort, Leaves
<1>2. CASE filling[w].copy = None
  <2>1. cache' = cache
    BY <1>2 DEF Abort
  <2>2. Sound(cache', Filled, Loans, {}) /\ Fewer(cache, cache')
    BY <2>1, SoundNow DEF Fewer
  <2> QED BY <1>1, <1>2, <2>2, LeavesNothing
<1>3. CASE filling[w].copy # None
  <2>1. cache' = FreeMemoryCopy(cache, filling[w].copy)
    BY <1>3 DEF Abort
  <2> QED BY <1>1, <1>3, <2>1, LeavesFreed
<1> QED BY <1>2, <1>3

(* ... and the others.                                                     *)
LEMMA WriteKeeps ==
    ASSUME IInv, NEW w \in Stream, Write(w)
    PROVE  Keeps
<1> DEFINE c == filling[w].copy
<1>1. c \in Allocated(cache)
  BY CopyLeaves DEF Write
<1>2. CASE cache' = Grow(cache, c) /\ UNCHANGED filling
  <2>1. Sound(cache', Filled, Loans, {}) /\ Fewer(cache, cache')
    <3> HIDE DEF c
    <3> QED BY <1>1, <1>2, SoundNow, GrowKeeps
  <2>2. maxSize' \in Sizes /\ holds' \in [Url -> 0 .. MaxHolds] /\ UNCHANGED <<filling, reading>>
    BY <1>2 DEF Write, IInv
  <2> QED BY <2>1, <2>2, FewerKeeps
<1>3. CASE cache' = Leak(cache, 1) /\ UNCHANGED filling
  <2>1. Sound(cache', Filled, Loans, {}) /\ Fewer(cache, cache')
    BY <1>3, SoundNow, LeakKeeps
  <2>2. maxSize' \in Sizes /\ holds' \in [Url -> 0 .. MaxHolds] /\ UNCHANGED <<filling, reading>>
    BY <1>3 DEF Write, IInv
  <2> QED BY <2>1, <2>2, FewerKeeps
<1>4. CASE cache' = FreeMemoryCopy(cache, c) /\ filling' = [filling EXCEPT ![w].copy = None]
  <2>1. Leaves(w) /\ UNCHANGED <<maxSize, reading, holds>> /\ c # None
    BY <1>4 DEF Write, Leaves
  <2> QED BY <1>4, <2>1, LeavesFreed
<1> QED BY <1>2, <1>3, <1>4 DEF Write

(* net_MemCacheComplete publishes the copy, if there is one, and reduces   *)
(* the cache.                                                              *)
LEMMA CompleteLeaves ==
    ASSUME IInv, NEW w \in Stream, Complete(w)
    PROVE  /\ Leaves(w) /\ UNCHANGED <<maxSize, reading, holds>> /\ maxSize \in Nat
           /\ cache' = ReduceTo(Published(cache, filling[w].copy), maxSize)
BY CacheAssumption DEF Complete, Leaves, IInv

LEMMA CompleteReduces ==
    ASSUME IInv, NEW w \in Stream, Complete(w), NEW F, NEW s,
           s = Published(cache, filling[w].copy), Sound(s, F, Loans, {})
    PROVE  /\ Sound(cache', F, Loans, {}) /\ Thinned(s, cache')
           /\ cache'.size <= maxSize' \/ \A c \in ToSet(cache'.list) : Locked(cache', c)
<1>1. cache' = ReduceTo(s, maxSize) /\ maxSize' = maxSize /\ maxSize \in Nat
  BY CompleteLeaves
<1> QED BY <1>1, SoundNow, ReduceLemma

LEMMA CompleteKeeps ==
    ASSUME IInv, NEW w \in Stream, Complete(w)
    PROVE  Keeps
<1>1. Leaves(w) /\ UNCHANGED <<maxSize, reading, holds>> /\ filling[w] # None
  BY CompleteLeaves DEF Complete
<1>2. CASE filling[w].copy = None
  <2>1. Published(cache, filling[w].copy) = cache
    BY <1>2 DEF Published
  <2>2. Sound(cache', Filled, Loans, {}) /\ Thinned(cache, cache')
    BY <2>1, SoundNow, CompleteReduces
  <2> QED BY <1>1, <1>2, <2>2, LeavesNothing DEF Thinned
<1>3. CASE filling[w].copy # None
  <2> PICK c : c = filling[w].copy
    OBVIOUS
  <2>1. c \in Filled /\ c \in Copy /\ cache.copy[c].url = filling[w].url
    BY <1>1, <1>3, CopyLeaves
  <2>2. PICK s : s = Publish(cache, c)
    OBVIOUS
  <2>3. PICK u : u = cache.copy[c].url
    OBVIOUS
  <2>11. InPlace(cache, Filled, Loans, c, u, s)
    BY <2>1, <2>2, <2>3, SoundNow, PublishKeeps
  <2>4. Sound(s, Filled \ {c}, Loans, {}) /\ s.hash[u] = c
    BY <2>11 DEF InPlace
  <2>5. \A v \in Url \ {u} : s.hash[v] = cache.hash[v] \/ s.hash[v] = None
    BY <2>11 DEF InPlace
  <2>6. \A d \in Allocated(s) : d \in Allocated(cache) /\ s.copy[d].url = cache.copy[d].url
    BY <2>11 DEF InPlace
  <2>7. s = Published(cache, filling[w].copy)
    BY <1>3, <2>2 DEF Published
  <2>8. Sound(cache', Filled \ {c}, Loans, {}) /\ Fewer(s, cache')
    BY <2>4, <2>7, CompleteReduces DEF Thinned
  <2>9. \A d \in Allocated(cache') : d \in Allocated(cache) /\ cache'.copy[d].url = cache.copy[d].url
    BY <2>6, <2>8 DEF Fewer
  <2>10. ASSUME NEW v \in Url
         PROVE  \/ cache'.hash[v] = cache.hash[v] \/ cache'.hash[v] = None
                \/ cache'.hash[v] = filling[w].copy /\ cache'.hash[v] \in Filled
    <3>1. cache'.hash[v] = s.hash[v] \/ cache'.hash[v] = None
      BY <2>8 DEF Fewer
    <3>2. CASE v = u
      BY <2>1, <2>4, <3>1, <3>2
    <3>3. CASE v # u
      BY <2>5, <3>1, <3>3
    <3> QED BY <3>2, <3>3
  <2> QED BY <1>1, <2>8, <2>9, <2>10, LeavesKeeps
<1> QED BY <1>2, <1>3
-----------------------------------------------------------------------------
(* The loads.                                                              *)
LEMMA ReadLockSet ==
    ASSUME NEW x \in CopyState, NEW n \in Nat
    PROVE  /\ [x EXCEPT !.readLock = n] \in CopyState
           /\ [x EXCEPT !.readLock = n].url = x.url
           /\ [x EXCEPT !.readLock = n].size = x.size
           /\ [x EXCEPT !.readLock = n].deleteMe = x.deleteMe
           /\ [x EXCEPT !.readLock = n].readLock = n
BY DEF CopyState

LEMMA SameShelf ==
    ASSUME Allocated(cache') = Allocated(cache), cache'.hash = cache.hash, UNCHANGED filling, NEW c
    PROVE  Shelf(c)' = Shelf(c)
<1>1. Filled' = Filled /\ Offered' = Offered
  BY DEF Filled, Offered
<1> QED BY <1>1 DEF Shelf

LEMMA MemoryCacheLoadKeeps ==
    ASSUME IInv, NEW r \in Load, NEW u \in Url, MemoryCacheLoad(r, u)
    PROVE  Keeps
<1> PICK c : c = cache.hash[u]
  OBVIOUS
<1> PICK s : s = Found(u)
  OBVIOUS
<1>1. /\ reading[r] = None /\ UNCHANGED <<maxSize, filling, holds>>
      /\ reading' = [reading EXCEPT ![r] = c] \/ UNCHANGED reading
      /\ cache' = [s EXCEPT !.copy[c].readLock = @ + 1]
  BY DEF MemoryCacheLoad
<1>2. c \in Allocated(cache) /\ c \in ToSet(cache.list) /\ c \in Copy
  BY SoundNow DEF MemoryCacheLoad
<1>3. /\ Sound(s, Filled, Loans, {}) /\ s.hash = cache.hash /\ s.copy = cache.copy
      /\ ToSet(s.list) = ToSet(cache.list)
  BY <1>2, SoundNow, FoundKeeps DEF Found
<1>4. /\ s \in CacheState /\ Allocated(s) = Allocated(cache)
      /\ s.copy \in [Copy -> CopyState \cup {None}] /\ s.copy[c] \in CopyState
  <2>1. s \in CacheState /\ Allocated(s) = Allocated(cache)
    BY <1>3 DEF Sound, Allocated
  <2> QED BY <1>2, <2>1, StateFields
<1> DEFINE k == [s.copy[c] EXCEPT !.readLock = @ + 1]
<1>5. /\ k \in CopyState /\ k.url = s.copy[c].url /\ k.size = s.copy[c].size
      /\ k.deleteMe = s.copy[c].deleteMe /\ k.readLock = s.copy[c].readLock + 1
  <2>1. s.copy[c].readLock \in Nat
    BY <1>4, CopyFields
  <2>2. s.copy[c].readLock + 1 \in Nat /\ k = [s.copy[c] EXCEPT !.readLock = s.copy[c].readLock + 1]
    BY <2>1
  <2> HIDE DEF k
  <2> QED BY <1>4, <2>2, ReadLockSet
<1>6. cache' = [s EXCEPT !.copy[c] = k]
  BY <1>1, <1>2, <1>4
<1> HIDE DEF k
<1>7. /\ Filled' = Filled /\ Active' = Active
  BY <1>1, Rests
<1>8. /\ IsFiniteSet(Busy)' /\ \A d \in Copy \ {c} : Loans'[d] = Loans[d]
      /\ Loans'[c] \in {Loans[c], Loans[c] + 1}
  <2>1. CASE reading' = [reading EXCEPT ![r] = c]
    BY <1>1, <1>2, <2>1, LoanBegins DEF IInv
  <2>2. CASE UNCHANGED reading
    BY <1>2, <2>2, Rests DEF IInv
  <2> QED BY <1>1, <2>1, <2>2
<1>9. Loans'[c] > 0 => k.readLock >= Loans'[c]
  <2>1. Loans[c] \in Nat /\ s.copy[c].readLock \in Nat
    BY <1>2, <1>4, SoundNow, CopyFields
  <2>2. Loans[c] > 0 => s.copy[c].readLock >= Loans[c]
    BY <1>2, <1>3 DEF Sound
  <2> QED BY <1>5, <1>8, <2>1, <2>2
<1>10. /\ Sound(cache', Filled, Loans', {}) /\ cache'.hash = s.hash
       /\ cache'.copy = [s.copy EXCEPT ![c] = k] /\ Allocated(cache') = Allocated(s)
  <2> PICK L2, s2 : L2 = Loans' /\ s2 = cache'
    OBVIOUS
  <2>1. c \in Allocated(s) /\ c \in ToSet(s.list)
    BY <1>2, <1>3, <1>4
  <2>2. \A d \in Copy \ {c} : L2[d] = Loans[d]
    BY <1>8
  <2>3. L2[c] > 0 => k.readLock >= L2[c]
    BY <1>9
  <2>4. s2 = WithCopy(s, c, k)
    BY <1>6 DEF WithCopy
  <2>5. Touched(s, Filled, L2, {}, c, k, s2)
    BY <1>3, <1>5, <2>1, <2>2, <2>3, <2>4, TouchKeeps
  <2> QED BY <2>5 DEF Touched
<1>11. Streams'
  <2>1. \A d \in Copy : cache'.copy[d].url = cache.copy[d].url
    BY <1>2, <1>3, <1>4, <1>5, <1>10
  <2>2. \A d \in Allocated(cache') : cache'.copy[d].url = cache.copy[d].url
    BY <2>1 DEF Allocated
  <2>3. Filled' \subseteq Allocated(cache') /\ \A v \in Active' : filling'[v] = filling[v]
    BY <1>1, <1>7, <1>10 DEF Sound
  <2> QED BY <1>7, <2>2, <2>3, StreamsKeep
<1>12. /\ maxSize' \in Sizes /\ holds' \in [Url -> 0 .. MaxHolds]
       /\ filling' \in [Stream -> Filler \cup {None}]
       /\ reading' \in [Load -> Copy \cup {None}]
  BY <1>1, <1>2 DEF IInv
<1>13. IInv'
  BY <1>7, <1>8, <1>10, <1>11, <1>12 DEF IInv
<1>14. ASSUME NEW d \in Copy PROVE Lends(d)
  <2>1. Shelf(d)' = Shelf(d)
    BY <1>1, <1>3, <1>4, <1>10, SameShelf
  <2>2. CASE d # c
    BY <1>8, <2>1, <2>2 DEF Lends
  <2>3. CASE d = c
    <3>1. Shelf(d) = "offered"
      <4>1. c \in Offered
        BY <1>2, CacheAssumption DEF Offered
      <4> QED BY <2>3, <4>1, SoundNow, Shelves
    <3> QED BY <1>8, <2>1, <2>3, <3>1 DEF Lends
  <2> QED BY <2>2, <2>3
<1> QED BY <1>13, <1>14 DEF Keeps

(* The frame of calls that change no more than a copy's read lock.         *)
LEMMA LoadsFrame ==
    ASSUME IInv, UNCHANGED <<maxSize, filling, holds>>,
           NEW r \in Load, NEW c \in Copy \cup {None}, reading' = [reading EXCEPT ![r] = c]
    PROVE  /\ maxSize' \in Sizes /\ holds' \in [Url -> 0 .. MaxHolds]
           /\ filling' \in [Stream -> Filler \cup {None}]
           /\ reading' \in [Load -> Copy \cup {None}]
           /\ Filled' = Filled /\ Active' = Active
           /\ \A v \in Active' : filling'[v] = filling[v]
<1>1. Filled' = Filled /\ Active' = Active
  BY Rests
<1> QED BY <1>1 DEF IInv

(* The load ends but the read lock stays.                                  *)
LEMMA LoadFailsKeeps ==
    ASSUME IInv, NEW r \in Load, LoadFails(r)
    PROVE  Keeps
<1>1. UNCHANGED <<cache, maxSize, filling, holds>> /\ GiveUp(r) /\ reading[r] # None
  BY DEF LoadFails
<1> PICK c : c = reading[r]
  OBVIOUS
<1>2. c \in Copy /\ reading \in [Load -> Copy \cup {None}] /\ IsFiniteSet(Busy)
  BY <1>1 DEF IInv
<1>3. /\ IsFiniteSet(Busy)' /\ Loans'[c] + 1 = Loans[c]
      /\ \A d \in Copy \ {c} : Loans'[d] = Loans[d]
  BY <1>1, <1>2, LoanEnds
<1>4. /\ maxSize' \in Sizes /\ holds' \in [Url -> 0 .. MaxHolds]
      /\ filling' \in [Stream -> Filler \cup {None}]
      /\ reading' \in [Load -> Copy \cup {None}]
      /\ Filled' = Filled /\ Active' = Active
      /\ \A v \in Active' : filling'[v] = filling[v]
  <2>1. None \in Copy \cup {None} /\ reading' = [reading EXCEPT ![r] = None]
    BY <1>1 DEF GiveUp
  <2> QED BY <1>1, <2>1, LoadsFrame
<1>5. Sound(cache', Filled', Loans', {})
  <2> PICK L2, s : L2 = Loans' /\ s = cache
    OBVIOUS
  <2>1. Sound(s, Filled, Loans, {}) /\ Loans \in [Copy -> Nat] /\ s \in CacheState
    BY SoundNow
  <2>2. L2 \in [Copy -> Nat]
    BY <1>3, LoansTypeLater
  <2>3. \A d \in Copy : L2[d] <= Loans[d]
    <3>1. Loans[c] \in Nat /\ L2[c] \in Nat /\ L2[c] + 1 = Loans[c]
      BY <1>2, <1>3, <2>1, <2>2
    <3>2. \A d \in Copy \ {c} : L2[d] = Loans[d] /\ Loans[d] \in Nat
      BY <1>3, <2>1
    <3> QED BY <3>1, <3>2
  <2>4. ASSUME NEW d \in Copy, L2[d] > 0
        PROVE  d \in Allocated(s) /\ s.copy[d].readLock >= L2[d]
    <3>1. Loans[d] > 0 /\ L2[d] <= Loans[d] /\ Loans[d] \in Nat /\ L2[d] \in Nat
      BY <2>1, <2>2, <2>3, <2>4
    <3>2. d \in Allocated(s) /\ s.copy[d].readLock >= Loans[d]
      BY <2>1, <3>1 DEF Sound
    <3>3. s.copy[d].readLock \in Nat
      BY <2>1, <3>2, StateFields, CopyFields
    <3> QED BY <3>1, <3>2, <3>3
  <2>5. Sound(s, Filled, L2, {})
    BY <2>1, <2>4 DEF Sound
  <2> QED BY <1>1, <1>4, <2>5
<1>6. Streams'
  <2>1. Filled' \subseteq Allocated(cache')
    BY <1>5 DEF Sound
  <2>2. \A d \in Allocated(cache') : cache'.copy[d].url = cache.copy[d].url
    BY <1>1
  <2> QED BY <1>4, <2>1, <2>2, StreamsKeep
<1>7. IInv'
  BY <1>3, <1>4, <1>5, <1>6 DEF IInv
<1>8. ASSUME NEW d \in Copy PROVE Lends(d)
  <2>1. Shelf(d)' = Shelf(d)
    <3>1. Allocated(cache') = Allocated(cache) /\ cache'.hash = cache.hash
      BY <1>1
    <3> QED BY <1>1, <3>1, SameShelf
  <2>2. Loans'[d] = Loans[d] \/ Loans'[d] + 1 = Loans[d]
    BY <1>3
  <2> QED BY <2>1, <2>2 DEF Lends
<1> QED BY <1>7, <1>8 DEF Keeps

(* The read lock goes: until the copy is freed it may be one nothing leads *)
(* to.                                                                     *)
LEMMA UnreadKeeps ==
    ASSUME IInv, NEW r \in Load, EndLoad(r), NEW c \in Copy, c = reading[r]
    PROVE  \E k \in CopyState :
             /\ k.url = cache.copy[c].url /\ k.deleteMe = cache.copy[c].deleteMe
             /\ k.readLock + 1 = cache.copy[c].readLock
             /\ Unread(cache, c) = WithCopy(cache, c, k)
             /\ Touched(cache, Filled, Loans', IF LastRead(Unread(cache, c), c) THEN {c} ELSE {}, c, k, Unread(cache, c))
             /\ LastRead(Unread(cache, c), c) <=> k.deleteMe /\ k.readLock = 0
<1>1. GiveUp(r) /\ reading[r] # None /\ reading \in [Load -> Copy \cup {None}] /\ IsFiniteSet(Busy)
  BY DEF EndLoad, IInv
<1>2. /\ IsFiniteSet(Busy)' /\ Loans'[c] + 1 = Loans[c]
      /\ \A d \in Copy \ {c} : Loans'[d] = Loans[d]
  BY <1>1, LoanEnds
<1> PICK L, L2, s : L = Loans /\ L2 = Loans' /\ s = cache
  OBVIOUS
<1>3. Sound(s, Filled, L, {}) /\ L \in [Copy -> Nat] /\ L2 \in [Copy -> Nat] /\ s \in CacheState
  BY <1>2, SoundNow, LoansTypeLater
<1>4. L[c] \in Nat /\ L2[c] \in Nat /\ L2[c] + 1 = L[c] /\ L[c] > 0
  BY <1>2, <1>3
<1>5. c \in Allocated(s) /\ s.copy[c].readLock >= L[c]
  BY <1>3, <1>4 DEF Sound
<1>6. s.copy[c] \in CopyState /\ s.copy \in [Copy -> CopyState \cup {None}]
  BY <1>3, <1>5, StateFields
<1>7. PICK n \in Nat : s.copy[c].readLock = n + 1 /\ n >= L2[c]
  <2>1. PICK m \in Nat : m = s.copy[c].readLock
    BY <1>6, CopyFields
  <2>2. m - 1 \in Nat /\ m = (m - 1) + 1 /\ m - 1 >= L2[c]
    BY <1>4, <1>5, <2>1
  <2> QED BY <2>1, <2>2
<1> DEFINE k == [s.copy[c] EXCEPT !.readLock = n]
           s2 == Unread(s, c)
<1>8. /\ k \in CopyState /\ k.url = s.copy[c].url /\ k.size = s.copy[c].size
      /\ k.deleteMe = s.copy[c].deleteMe /\ k.readLock = n
  BY <1>6, ReadLockSet
<1>9. s2 = WithCopy(s, c, k)
  <2>1. (n + 1) - 1 = n
    OBVIOUS
  <2>2. s2 = [s EXCEPT !.copy[c].readLock = n]
    BY <1>7, <2>1 DEF Unread
  <2> QED BY <2>2 DEF WithCopy
<1> HIDE DEF k, s2
<1>10. s2.copy[c] = k
  <2>1. s2.copy = [s.copy EXCEPT ![c] = k]
    BY <1>3, <1>9 DEF WithCopy, CacheState
  <2> QED BY <1>6, <2>1
<1>11. LastRead(s2, c) <=> k.deleteMe /\ k.readLock = 0
  BY <1>10 DEF LastRead
<1>12. PICK X : X = IF LastRead(s2, c) THEN {c} ELSE {}
  OBVIOUS
<1>13. c \notin Filled \cup ToSet(s.list) \cup X => k.readLock > 0
  <2> SUFFICES ASSUME c \notin Filled, c \notin ToSet(s.list), c \notin X
               PROVE  k.readLock > 0
    OBVIOUS
  <2>1. s.copy[c].deleteMe
    BY <1>3, <1>5 DEF Sound
  <2>2. ~LastRead(s2, c)
    BY <1>12
  <2>3. k.readLock # 0 /\ k.readLock \in Nat
    BY <1>8, <1>11, <2>1, <2>2
  <2> QED BY <2>3
<1>14. \A d \in Copy \ {c} : L2[d] = L[d]
  BY <1>2
<1>15. L2[c] > 0 => k.readLock >= L2[c]
  BY <1>7, <1>8
<1>16. Touched(s, Filled, L2, X, c, k, s2)
  BY <1>3, <1>5, <1>8, <1>9, <1>13, <1>14, <1>15, TouchKeeps
<1>17. /\ k.url = cache.copy[c].url /\ k.deleteMe = cache.copy[c].deleteMe
       /\ k.readLock + 1 = cache.copy[c].readLock
  BY <1>7, <1>8
<1>18. s2 = Unread(cache, c)
  BY DEF s2
<1> QED BY <1>8, <1>9, <1>11, <1>12, <1>16, <1>17, <1>18

(* NET_ProcessMemoryCache at the end, and NET_InterruptMemoryCache.        *)
LEMMA EndLoadKeeps ==
    ASSUME IInv, NEW r \in Load, EndLoad(r)
    PROVE  Keeps
<1>1. /\ UNCHANGED <<maxSize, filling, holds>> /\ GiveUp(r) /\ reading[r] # None
      /\ reading \in [Load -> Copy \cup {None}] /\ IsFiniteSet(Busy)
  BY DEF EndLoad, IInv
<1>2. PICK c \in Copy : c = reading[r]
  BY <1>1
<1>3. PICK s : s = Unread(cache, c)
  OBVIOUS
<1>4. cache' = IF LastRead(s, c) THEN FreeMemoryCopy(s, c) ELSE s
  BY <1>2, <1>3 DEF EndLoad
<1>5. /\ IsFiniteSet(Busy)' /\ Loans'[c] + 1 = Loans[c]
      /\ \A d \in Copy \ {c} : Loans'[d] = Loans[d]
  BY <1>1, <1>2, LoanEnds
<1>6. Loans[c] \in Nat /\ Loans'[c] \in Nat /\ Loans[c] > 0
  BY <1>5, SoundNow, LoansTypeLater
<1>7. c \in Allocated(cache)
  BY <1>6, SoundNow DEF Sound
<1>8. PICK X : X = IF LastRead(s, c) THEN {c} ELSE {}
  OBVIOUS
<1>9. PICK k \in CopyState :
        /\ k.url = cache.copy[c].url /\ k.deleteMe = cache.copy[c].deleteMe
        /\ k.readLock + 1 = cache.copy[c].readLock
        /\ Touched(cache, Filled, Loans', X, c, k, s)
        /\ LastRead(s, c) <=> k.deleteMe /\ k.readLock = 0
  BY <1>2, <1>3, <1>8, UnreadKeeps
<1>10. /\ Sound(s, Filled, Loans', X) /\ s.hash = cache.hash /\ s.list = cache.list
       /\ s.copy = [cache.copy EXCEPT ![c] = k] /\ Allocated(s) = Allocated(cache)
  BY <1>9 DEF Touched
<1>11. s.copy[c] = k /\ \A d \in Copy \ {c} : s.copy[d] = cache.copy[d]
  <2>1. cache.copy \in [Copy -> CopyState \cup {None}]
    BY SoundNow, StateFields
  <2> QED BY <1>10, <2>1
<1>12. /\ maxSize' \in Sizes /\ holds' \in [Url -> 0 .. MaxHolds]
       /\ filling' \in [Stream -> Filler \cup {None}]
       /\ reading' \in [Load -> Copy \cup {None}]
       /\ Filled' = Filled /\ Active' = Active
       /\ \A v \in Active' : filling'[v] = filling[v]
  <2>1. None \in Copy \cup {None} /\ reading' = [reading EXCEPT ![r] = None]
    BY <1>1 DEF GiveUp
  <2> QED BY <1>1, <2>1, LoadsFrame
<1>13. /\ Sound(cache', Filled', Loans', {}) /\ Fewer(s, cache')
       /\ LastRead(s, c) => c \notin Offered /\ c \notin Filled /\ k.readLock = 0
  <2>1. CASE LastRead(s, c)
    <3> PICK L2, s2 : L2 = Loans' /\ s2 = FreeMemoryCopy(s, c)
      OBVIOUS
    <3>1. X = {c} /\ Sound(s, Filled, L2, X) /\ L2 \in [Copy -> Nat] /\ c \in Allocated(s)
      BY <1>5, <1>7, <1>8, <1>10, <2>1, LoansTypeLater
    <3>2. Sound(s2, Filled \ {c}, L2, {})
      BY <3>1, FreeKeeps
    <3>3. TakenAway(s, c, s2)
      BY <3>1, FreeTakesAway
    <3>4. cache.copy[c].deleteMe /\ k.readLock = 0
      BY <1>9, <2>1
    <3>5. c \notin Filled /\ c \notin Offered
      BY <3>4, SoundNow DEF Sound, Offered
    <3>6. Filled \ {c} = Filled'
      BY <1>12, <3>5
    <3>7. cache' = s2
      BY <1>4, <2>1
    <3>8. Sound(cache', Filled', Loans', {})
      BY <3>2, <3>6, <3>7
    <3>9. Fewer(s, cache')
      BY <3>3, <3>7 DEF TakenAway
    <3> QED BY <3>4, <3>5, <3>8, <3>9
  <2>2. CASE ~LastRead(s, c)
    <3>1. cache' = s /\ X = {}
      BY <1>4, <1>8, <2>2
    <3>2. Sound(s, Filled, Loans', {}) /\ Filled' = Filled
      BY <1>10, <1>12, <3>1
    <3>3. Fewer(s, cache')
      BY <3>1 DEF Fewer
    <3> QED BY <2>2, <3>1, <3>2, <3>3
  <2> QED BY <2>1, <2>2
<1>14. OnlyLess
  BY <1>10, <1>12, <1>13 DEF OnlyLess, Fewer
<1>15. Streams'
  <2>1. Filled' \subseteq Allocated(cache')
    BY <1>13 DEF Sound
  <2>2. \A d \in Copy : s.copy[d].url = cache.copy[d].url
    BY <1>9, <1>11
  <2>3. ASSUME NEW d \in Allocated(cache')
        PROVE  cache'.copy[d].url = cache.copy[d].url
    <3>1. d \in Copy /\ cache'.copy[d].url = s.copy[d].url
      BY <1>13 DEF Fewer, Allocated
    <3> QED BY <2>2, <3>1
  <2> QED BY <1>12, <2>1, <2>3, StreamsKeep
<1>16. IInv'
  BY <1>5, <1>12, <1>13, <1>15 DEF IInv
<1>17. ASSUME NEW d \in Copy, d # c
       PROVE  Lends(d)
  BY <1>5, <1>13, <1>14, <1>17, SoundNow, LendsLess
<1>18. Lends(c)
  <2>1. CASE LastRead(s, c)
    <3>1. Loans'[c] = 0 /\ Loans[c] = 1
      <4>1. cache.copy[c].readLock = 1
        BY <1>9, <1>13, <2>1
      <4>2. cache.copy[c].readLock >= Loans[c]
        BY <1>6, SoundNow DEF Sound
      <4> QED BY <1>5, <1>6, <4>1, <4>2
    <3>2. Shelf(c) = "withdrawn"
      BY <1>7, <1>13, <2>1, SoundNow, Shelves
    <3>3. Shelf(c)' \in {"withdrawn", "gone"}
      <4>1. ShelfMoves(c)
        BY <1>13, <1>14, SoundNow, LessMoves
      <4> QED BY <3>2, <4>1 DEF ShelfMoves
    <3> QED BY <1>5, <3>1, <3>2, <3>3 DEF Lends
  <2>2. CASE ~LastRead(s, c)
    <3>1. cache' = s
      BY <1>4, <2>2
    <3>2. Shelf(c)' = Shelf(c)
      <4>1. Allocated(cache') = Allocated(cache) /\ cache'.hash = cache.hash
        BY <1>10, <3>1
      <4> QED BY <1>1, <4>1, SameShelf
    <3> QED BY <1>5, <3>2 DEF Lends
  <2> QED BY <2>1, <2>2
<1> QED BY <1>16, <1>17, <1>18 DEF Keeps
-----------------------------------------------------------------------------
(* The invariant holds.                                                    *)
LEMMA Begins ==
    ASSUME Init
    PROVE  IInv /\ \A c \in Copy : Shelf(c) = "gone" /\ Loans[c] = 0
<1>1. /\ cache = [copy |-> [c \in Copy |-> None], hash |-> [u \in Url |-> None],
                  list |-> <<>>, size |-> 0, leaked |-> 0]
      /\ maxSize \in Sizes /\ filling = [w \in Stream |-> None]
      /\ reading = [r \in Load |-> None] /\ holds = [u \in Url |-> 0]
  BY DEF Init
<1>2. /\ \A c \in Copy : cache.copy[c] = None
      /\ \A u \in Url : cache.hash[u] = None
      /\ cache.list = <<>> /\ cache.size = 0 /\ cache.leaked = 0 /\ cache \in CacheState
  BY <1>1 DEF CacheState
<1>3. Allocated(cache) = {} /\ Filled = {} /\ Active = {} /\ Busy = {}
  BY <1>1, <1>2 DEF Allocated, Filled, Active, Busy
<1>4. Units(cache) = {}
  BY <1>3 DEF Units
<1>5. IsFiniteSet({}) /\ Cardinality({}) = 0
  BY FS_EmptySet
<1>6. \A c \in Copy : Readers(c) = {} /\ Loans[c] = 0
  <2>1. \A c \in Copy : Readers(c) = {}
    BY <1>1, CacheAssumption DEF Readers
  <2> QED BY <1>5, <2>1 DEF Loans
<1>7. IsTidy(cache.list) /\ ToSet(cache.list) = {}
  BY <1>2, ShortLists
<1>8. Sound(cache, Filled, Loans, {})
  <2>1. IsFiniteSet(Units(cache)) /\ cache.size = Cardinality(Units(cache)) + cache.leaked
    BY <1>2, <1>4, <1>5
  <2>2. ToSet(cache.list) \subseteq Allocated(cache) /\ Filled \subseteq Allocated(cache) \ ToSet(cache.list)
    BY <1>3, <1>7
  <2>3. \A c \in Copy : ~(Loans[c] > 0)
    BY <1>6
  <2>4. \A c \in Allocated(cache) \ (Filled \cup ToSet(cache.list) \cup {}) : FALSE
    BY <1>3
  <2> QED BY <1>2, <1>3, <1>7, <2>1, <2>2, <2>3, <2>4 DEF Sound
<1>9. holds \in [Url -> 0 .. MaxHolds]
  BY <1>1, CacheAssumption
<1>10. Streams
  BY <1>3 DEF Streams
<1>11. IInv
  BY <1>1, <1>3, <1>5, <1>8, <1>9, <1>10 DEF IInv
<1>12. \A c \in Copy : Shelf(c) = "gone"
  <2> SUFFICES ASSUME NEW c \in Copy PROVE Shelf(c) = "gone"
    OBVIOUS
  <2>1. c \notin Allocated(cache)
    BY <1>3
  <2> QED BY <1>8, <2>1, Shelves
<1> QED BY <1>6, <1>11, <1>12

LEMMA NextKeeps ==
    ASSUME IInv, Next
    PROVE  Keeps
<1>1. ASSUME NEW w \in Stream, StreamStep(w) PROVE Keeps
  BY <1>1, WriteKeeps, CompleteKeeps, AbortKeeps, ConverterKeeps, ConverterFailsKeeps DEF StreamStep
<1>2. ASSUME NEW r \in Load, LoadStep(r) PROVE Keeps
  BY <1>2, EndLoadKeeps, LoadFailsKeeps, MemoryCacheLoadKeeps DEF LoadStep
<1>3. ASSUME NEW u \in Url, UrlStep(u) PROVE Keeps
  BY <1>3, FindURLKeeps, LockKeeps, UnlockKeeps, RemoveURLKeeps DEF UrlStep
<1>4. ASSUME NEW max \in Sizes, SetSize(max) PROVE Keeps
  BY <1>4, SetSizeKeeps
<1> QED BY <1>1, <1>2, <1>3, <1>4 DEF Next

LEMMA RestKeeps ==
    ASSUME IInv, UNCHANGED vars
    PROVE  Keeps
<1>1. /\ maxSize' \in Sizes /\ holds' \in [Url -> 0 .. MaxHolds]
      /\ UNCHANGED <<filling, reading>> /\ cache' = cache
  BY DEF vars, IInv
<1>2. Sound(cache', Filled, Loans, {}) /\ Fewer(cache, cache')
  BY <1>1, SoundNow DEF Fewer
<1> QED BY <1>1, <1>2, FewerKeeps

LEMMA StepKeeps ==
    ASSUME IInv, [Next]_vars
    PROVE  Keeps
BY NextKeeps, RestKeeps

LEMMA Holds == Spec => []IInv
<1>1. Init => IInv
  BY Begins
<1>2. IInv /\ [Next]_vars => IInv'
  BY StepKeeps DEF Keeps
<1> QED BY <1>1, <1>2, PTL DEF Spec
-----------------------------------------------------------------------------
(* The cache's state has the right type, and each copy in memory is being  *)
(* filled, in the delete queue, or freed by the last of its readers.       *)
THEOREM CacheCorrect == Spec => []CacheInv
<1>1. IInv => CacheInv
  <2> SUFFICES ASSUME IInv PROVE CacheTypeOK /\ NothingLost
    BY DEF CacheInv
  <2>1. CacheTypeOK
    <3>1. cache \in CacheState
      BY SoundNow
    <3>2. /\ cache.copy \in [Copy -> CopyState \cup {None}] /\ cache.hash \in [Url -> Copy \cup {None}]
          /\ cache.list \in Seq(Copy) /\ cache.size \in Nat /\ cache.leaked \in Nat
      BY <3>1 DEF CacheState
    <3> QED BY <3>2 DEF CacheTypeOK, IInv
  <2>2. NothingLost
    BY SoundNow DEF NothingLost, Sound
  <2> QED BY <2>1, <2>2
<1> QED BY <1>1, Holds, PTL

(* net_MemoryCacheSize is the size of all copies in memory, whatever way   *)
(* they came and went.                                                     *)
THEOREM SizeCorrect == Spec => []SizeExact
<1>1. IInv => SizeExact
  BY SoundNow DEF SizeExact, Sound
<1> QED BY <1>1, Holds, PTL

(* Copies that loads read, streams fill or the hash list names are in      *)
(* memory, and what the hash list names is right.                          *)
THEOREM ServedCorrect == Spec => []ServedIsKept
<1>1. ASSUME IInv PROVE ServedIsKept
  <2>1. Sound(cache, Filled, Loans, {}) /\ Loans \in [Copy -> Nat]
    BY <1>1, SoundNow
  <2>2. ASSUME NEW r \in Load, reading[r] # None
        PROVE  /\ reading[r] \in Allocated(cache)
               /\ cache.copy[reading[r]].readLock >= Cardinality(Readers(reading[r]))
    <3>1. PICK c \in Copy : c = reading[r]
      BY <1>1, <2>2 DEF IInv
    <3>2. r \in Readers(c)
      BY <3>1 DEF Readers
    <3>3. /\ IsFiniteSet(Readers(c)) /\ Loans[c] = Cardinality(Readers(c)) /\ Loans[c] \in Nat
      BY <1>1, ReadersFinite DEF IInv
    <3>4. Cardinality(Readers(c)) # 0
      BY <3>2, <3>3, FS_EmptySet
    <3>5. Loans[c] > 0
      BY <3>3, <3>4
    <3> QED BY <2>1, <3>1, <3>3, <3>5 DEF Sound
  <2>3. Filled \subseteq Allocated(cache) \ ToSet(cache.list)
    BY <2>1 DEF Sound
  <2>4. IsInjective(cache.list) /\ ToSet(cache.list) \subseteq Allocated(cache)
    BY <2>1 DEF Sound, IsTidy
  <2>5. \A u \in Url : cache.hash[u] # None =>
          /\ cache.hash[u] \in ToSet(cache.list)
          /\ cache.copy[cache.hash[u]].url = u
          /\ ~cache.copy[cache.hash[u]].deleteMe
    BY <2>1 DEF Sound
  <2> QED BY <2>2, <2>3, <2>4, <2>5 DEF ServedIsKept
<1> QED BY <1>1, Holds, PTL

(* The cache implements Lending: a load reads a copy that was complete and *)
(* offered when it began, and that is there until it ends.                 *)
THEOREM LendsCopies == Spec => IsLending
<1>1. Init => Lent!Init
  <2> SUFFICES ASSUME Init PROVE Lent!Init
    OBVIOUS
  <2>1. \A c \in Copy : Shelf(c) = "gone" /\ Cardinality(Readers(c)) = 0
    BY Begins DEF Loans
  <2> QED BY <2>1 DEF Lent!Init
<1>2. IInv /\ [Next]_vars => Lent!Next
  <2> SUFFICES ASSUME IInv, [Next]_vars, NEW c \in Copy
               PROVE  \/ Lent!Prepare(c) \/ Lent!Offer(c) \/ Lent!Lend(c) \/ Lent!Return(c)
                      \/ Lent!Withdraw(c) \/ Lent!Remove(c) \/ Lent!LastReturn(c) \/ Lent!Rest(c)
    BY DEF Lent!Next
  <2>1. Lends(c)
    BY StepKeeps DEF Keeps
  <2>2. /\ [d \in Copy |-> Shelf(d)][c] = Shelf(c)
        /\ [d \in Copy |-> Shelf(d)]'[c] = Shelf(c)'
        /\ [d \in Copy |-> Cardinality(Readers(d))] = Loans
        /\ [d \in Copy |-> Cardinality(Readers(d))]' = Loans'
    BY DEF Loans
  <2>3. Loans[c] = Cardinality(Readers(c)) /\ Loans'[c] = Cardinality(Readers(c))'
    BY DEF Loans
  <2> QED BY <2>1, <2>3 DEF Lends, Lent!Prepare, Lent!Offer, Lent!Lend, Lent!Return, Lent!Withdraw,
             Lent!Remove, Lent!LastReturn, Lent!Rest, Lent!Moves, Lent!Stays
<1> QED BY <1>1, <1>2, Holds, PTL DEF Spec, IsLending, Lent!Spec
-----------------------------------------------------------------------------
(* What is thrown out, and what is not.                                    *)
ThrowsOut ==
    /\ cache'.size <= maxSize' \/ \A c \in ToSet(cache'.list) : Locked(cache', c)
    /\ \A c \in ThrownOut : ~Locked(cache, c)
    /\ \A i, j \in DOMAIN cache.list :
          i < j /\ cache.list[i] \in ThrownOut /\ ~Locked(cache, cache.list[j])
              => cache.list[j] \notin ToSet(cache'.list)

LEMMA SetSizeThrows ==
    ASSUME IInv, NEW max \in Sizes, SetSize(max)
    PROVE  ThrowsOut
<1>1. /\ Thinned(cache, cache')
      /\ cache'.size <= maxSize' \/ \A c \in ToSet(cache'.list) : Locked(cache', c)
  BY SetSizeKeeps
<1>2. \A c \in ThrownOut : c \in ToSet(cache.list) \ ToSet(cache'.list)
  BY DEF ThrownOut
<1>3. \A c \in ThrownOut : ~Locked(cache, c)
  BY <1>1, <1>2 DEF Thinned, KeepsLocked
<1>4. \A i, j \in DOMAIN cache.list :
        i < j /\ cache.list[i] \in ThrownOut /\ ~Locked(cache, cache.list[j])
            => cache.list[j] \notin ToSet(cache'.list)
  BY <1>1, <1>2 DEF Thinned, OldestFirst
<1> QED BY <1>1, <1>3, <1>4 DEF ThrowsOut

LEMMA CompleteThrows ==
    ASSUME IInv, NEW w \in Stream, Complete(w)
    PROVE  ThrowsOut
<1>1. filling[w] # None /\ filling'[w] = None
  BY DEF Complete, IInv
<1>2. PICK s : s = Published(cache, filling[w].copy)
  OBVIOUS
<1>3. /\ s.list \in Seq(Copy) /\ ToSet(s.list) \subseteq Allocated(s) /\ Thinned(s, cache')
      /\ cache'.size <= maxSize' \/ \A c \in ToSet(cache'.list) : Locked(cache', c)
      /\ \A d \in ToSet(cache.list) \cap ToSet(s.list) : Locked(s, d) <=> Locked(cache, d)
      /\ \A d \in ToSet(cache.list) \ Replaced : d \in ToSet(s.list)
      /\ Follows(cache.list, s.list)
  <2>1. CASE filling[w].copy = None
    <3>1. s = cache
      BY <1>2, <2>1 DEF Published
    <3>2. Sound(s, Filled, Loans, {})
      BY <3>1, SoundNow
    <3>3. /\ Thinned(s, cache')
          /\ cache'.size <= maxSize' \/ \A c \in ToSet(cache'.list) : Locked(cache', c)
      BY <1>2, <3>2, CompleteReduces
    <3>4. s.list \in Seq(Copy) /\ ToSet(s.list) \subseteq Allocated(s)
      BY <3>2 DEF Sound, CacheState
    <3>5. Follows(cache.list, s.list)
      BY <3>1 DEF Follows
    <3> QED BY <3>1, <3>3, <3>4, <3>5
  <2>2. CASE filling[w].copy # None
    <3> PICK c : c = filling[w].copy
      OBVIOUS
    <3>1. c \in Filled /\ cache.copy[c].url = filling[w].url
      BY <1>1, <2>2, CopyLeaves
    <3> PICK u : u = cache.copy[c].url
      OBVIOUS
    <3>2. s = Publish(cache, c)
      BY <1>2, <2>2 DEF Published
    <3>3. InPlace(cache, Filled, Loans, c, u, s)
      BY <3>1, <3>2, SoundNow, PublishKeeps
    <3>4. Sound(s, Filled \ {c}, Loans, {})
      BY <3>3 DEF InPlace
    <3>5. /\ Thinned(s, cache')
          /\ cache'.size <= maxSize' \/ \A d \in ToSet(cache'.list) : Locked(cache', d)
      BY <1>2, <3>4, CompleteReduces
    <3>6. s.list \in Seq(Copy) /\ ToSet(s.list) \subseteq Allocated(s)
      BY <3>4 DEF Sound, CacheState
    <3>7. \A d \in ToSet(s.list) : s.copy[d].locks = cache.copy[d].locks
      BY <3>3, <3>6 DEF InPlace
    <3>8. \A d \in ToSet(cache.list) \ Replaced : d \in ToSet(s.list)
      <4>1. cache.hash[u] \in Replaced
        BY <1>1, <3>1 DEF Replaced
      <4> QED BY <3>3, <4>1 DEF InPlace
    <3>9. Follows(cache.list, s.list)
      BY <3>3 DEF InPlace
    <3>10. \A d \in ToSet(s.list) : Locked(s, d) <=> Locked(cache, d)
      BY <3>7 DEF Locked
    <3> QED BY <3>5, <3>6, <3>8, <3>9, <3>10
  <2> QED BY <2>1, <2>2
<1>4. \A c \in ThrownOut :
        /\ c \in ToSet(cache.list) /\ c \in ToSet(s.list) /\ c \notin ToSet(cache'.list)
        /\ ~Locked(s, c) /\ ~Locked(cache, c)
  BY <1>3 DEF ThrownOut, Thinned, KeepsLocked
<1>5. ASSUME NEW i \in DOMAIN cache.list, NEW j \in DOMAIN cache.list, i < j,
             cache.list[i] \in ThrownOut, ~Locked(cache, cache.list[j]),
             cache.list[j] \in ToSet(cache'.list)
      PROVE  FALSE
  <2>1. cache.list[j] \in ToSet(s.list) /\ cache.list[j] \in ToSet(cache.list)
    BY <1>3, <1>5 DEF Thinned, KeepsLocked, ToSet
  <2>2. PICK k \in DOMAIN s.list, m \in DOMAIN s.list :
          k < m /\ s.list[k] = cache.list[i] /\ s.list[m] = cache.list[j]
    BY <1>3, <1>4, <1>5, <2>1 DEF Follows
  <2>3. ~Locked(s, s.list[m]) /\ s.list[k] \notin ToSet(cache'.list)
    BY <1>3, <1>4, <1>5, <2>1, <2>2
  <2>4. s.list[m] \notin ToSet(cache'.list)
    BY <1>3, <2>2, <2>3 DEF Thinned, OldestFirst
  <2> QED BY <1>5, <2>2, <2>4
<1> QED BY <1>3, <1>4, <1>5 DEF ThrowsOut

LEMMA OnlySetSize ==
    ASSUME Next, maxSize' # maxSize
    PROVE  \E max \in Sizes : SetSize(max)
<1>1. ASSUME NEW w \in Stream, StreamStep(w) PROVE UNCHANGED maxSize
  BY <1>1 DEF StreamStep, Write, Complete, Abort, Converter, ConverterFails
<1>2. ASSUME NEW r \in Load, LoadStep(r) PROVE UNCHANGED maxSize
  BY <1>2 DEF LoadStep, EndLoad, LoadFails, MemoryCacheLoad
<1>3. ASSUME NEW u \in Url, UrlStep(u) PROVE UNCHANGED maxSize
  BY <1>3 DEF UrlStep, FindURL, Lock, Unlock, RemoveURL
<1> QED BY <1>1, <1>2, <1>3 DEF Next

(* The cache throws out no copy with locks and none before the ones used   *)
(* longer ago, and it stops no sooner than it fits or holds only copies    *)
(* with locks.                                                             *)
THEOREM OldestThrownOut == Spec => ThrowsOutOldest
<1>1. ASSUME IInv, [Next]_vars
      PROVE  [maxSize' # maxSize \/ (\E w \in Stream : Complete(w)) => ThrowsOut]_vars
  <2> SUFFICES ASSUME Next, maxSize' # maxSize \/ (\E w \in Stream : Complete(w))
               PROVE  ThrowsOut
    BY <1>1
  <2> QED BY <1>1, OnlySetSize, SetSizeThrows, CompleteThrows
<1>2. [][maxSize' # maxSize \/ (\E w \in Stream : Complete(w)) => ThrowsOut]_vars => ThrowsOutOldest
  BY DEF ThrowsOutOldest, ThrowsOut
<1> QED BY <1>1, <1>2, Holds, PTL DEF Spec
=============================================================================
