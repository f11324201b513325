------------------------------ MODULE MemCache ------------------------------
(***************************************************************************)
(* The memory cache of documents (lib/libnet/mkmemcac.c): copies that      *)
(* streams fill while documents arrive, a hash list to find them by URL    *)
(* (lib/xp/xp_hash.c), a delete queue in the order of last use, the total  *)
(* size with its maximum, loads that read copies piece by piece, and the   *)
(* locks other modules put on URLs.                                        *)
(*                                                                         *)
(* The network layer runs on one thread, so a call is a step; loads and    *)
(* streams of different documents interleave between calls.  Sizes are     *)
(* counted in units of a segment; what a document says is left out.        *)
(***************************************************************************)
EXTENDS Integers, Sequences, FiniteSets, SequencesExt, FiniteSetsExt

CONSTANTS
    Url, Copy, Stream, Load, None,
    Lengths,      \* contents lengths servers announce; 0: none
    Sizes,        \* maximal sizes the user chooses
    MaxSegments,  \* bound: units a copy grows to
    MaxHolds,     \* bound: locks of other modules on a URL
    MaxReads,     \* bound: read locks of a copy, those left behind included
    MaxLeaked     \* bound: units that were counted and then lost

CopyState == [url : Url, size : Nat, readLock : Nat, locks : Nat, deleteMe : BOOLEAN]
Filler == [url : Url, copy : Copy \cup {None}]

ASSUME CacheAssumption ==
    /\ None \notin Url \cup Copy \cup CopyState \cup Filler
    /\ Lengths \subseteq Nat /\ Sizes \subseteq Nat
    /\ MaxSegments \in Nat /\ MaxHolds \in Nat /\ MaxReads \in Nat /\ MaxLeaked \in Nat

VARIABLES
    cache,    \* what net_MemoryCacheHashList, net_MemoryCacheList, net_MemoryCacheSize and the heap hold
    maxSize,  \* net_MaxMemoryCacheSize
    filling,  \* the active streams: the URL and memory_copy of each
    reading,  \* the memory_copy of each active load
    holds     \* the locks on a URL that other modules have yet to undo

vars == <<cache, maxSize, filling, reading, holds>>

Allocated(s) == {c \in Copy : s.copy[c] # None}

Init ==
    /\ cache = [copy |-> [c \in Copy |-> None], hash |-> [u \in Url |-> None],
                list |-> <<>>, size |-> 0, leaked |-> 0]
    /\ maxSize \in Sizes
    /\ filling = [w \in Stream |-> None]
    /\ reading = [r \in Load |-> None]
    /\ holds = [u \in Url |-> 0]
-----------------------------------------------------------------------------
(* The hash list and the list as functions of the state s of the cache.    *)

(* XP_HashListRemoveObject compares URLs: it removes whichever copy of     *)
(* this URL is there.                                                      *)
StaysFound(s, c) == s    \* mutant of Unhash
Unhash(s, c) == [s EXCEPT !.hash[s.copy[c].url] = None]

(* XP_ListRemoveObject removes the first link it finds.                    *)
Unlist(s, c) == [s EXCEPT !.list = RemoveFirst(@, c)]

(* XP_ListAddObject adds at the front.                                     *)
AddFirst(s, c) == [s EXCEPT !.list = <<c>> \o @]

(* The cache holds n units more.                                           *)
Charge(s, n) == [s EXCEPT !.size = @ + n]

(* Segments of n units are counted, and then the list does not take them:  *)
(* XP_ListAddObject and XP_ListAddObjectToEnd return without a word when   *)
(* there is no memory for the link.  Nobody frees them any more.           *)
MayLeak(n) == cache.leaked + n <= MaxLeaked
Leak(s, n) == [s EXCEPT !.size = @ + n, !.leaked = @ + n]

(* The memory of a copy goes back to the heap.                             *)
GiveBackQuietly(s, c) == [s EXCEPT !.copy[c] = None]    \* mutant of GiveBack
GiveBack(s, c) == [s EXCEPT !.size = @ - s.copy[c].size, !.copy[c] = None]

(* net_FreeMemoryCopy.                                                     *)
NeverRead(s, c) == FALSE    \* mutant of BeingRead
BeingRead(s, c) == s.copy[c].readLock > 0

Forgets(s, c) == s    \* mutant of Postpone
Postpone(s, c) == [s EXCEPT !.copy[c].deleteMe = TRUE]

FreeMemoryCopy(s, c) ==
    IF BeingRead(s, c) THEN Postpone(Unhash(s, c), c)
                       ELSE GiveBack(Unlist(Unhash(s, c), c), c)

(* net_remove_last_memory_cache_object: the oldest copy without locks of   *)
(* other modules; older ones with locks, taken off on the way, are added   *)
(* back at the front.                                                      *)
Locked(s, c) == s.copy[c].locks > 0
Removable(s) == {i \in DOMAIN s.list : ~Locked(s, s.list[i])}

TakeOut(s, i) ==
    LET c == s.list[i]
        older == SubSeq(s.list, i + 1, Len(s.list))
    IN  FreeMemoryCopy([s EXCEPT !.list = Reverse(older) \o SubSeq(s.list, 1, i - 1)], c)

RemoveNewest(s) == TakeOut(s, Min(Removable(s)))    \* mutant of RemoveLast
RemoveLast(s) == TakeOut(s, Max(Removable(s)))

(* net_ReduceMemoryCacheTo; when nothing can be removed the list has been  *)
(* taken apart and put together the other way round.                       *)
Turn(s, max) == IF s.size <= max \/ Removable(s) = {} THEN s ELSE RemoveLast(s)

AfterTurns(s, max) ==
    LET after[n \in 0 .. Len(s.list)] == IF n = 0 THEN s ELSE Turn(after[n - 1], max)
    IN  after

ReduceTo(s, max) ==
    LET r == AfterTurns(s, max)[Len(s.list)]
    IN  IF r.size <= max THEN r ELSE [r EXCEPT !.list = Reverse(@)]
-----------------------------------------------------------------------------
(* Filling: the stream that NET_MemCacheConverter makes.                   *)

(* The first segment is as long as the contents are said to be.            *)
FirstSegment(length) == IF length > 0 THEN length ELSE 1

Cachable(length, must) == must \/ length < maxSize

NewCopy(u, size) ==
    [url |-> u, size |-> size, readLock |-> 0, locks |-> 0, deleteMe |-> FALSE]

WithNew(s, c, u, size) == [s EXCEPT !.copy[c] = NewCopy(u, size)]

Converter(w, u) ==
    /\ filling[w] = None
    /\ \E length \in Lengths, must \in BOOLEAN, c \in Copy \ Allocated(cache) :
        LET n == FirstSegment(length)
        IN  /\ Cachable(length, must)
            /\ \/ cache' = Charge(WithNew(cache, c, u, n), n)
               \/ MayLeak(n) /\ cache' = Leak(WithNew(cache, c, u, 0), n)
            /\ filling' = [filling EXCEPT ![w] = [url |-> u, copy |-> c]]
    /\ UNCHANGED <<maxSize, reading, holds>>

(* A later allocation fails: net_FreeMemoryCopy undoes what was done, but  *)
(* for a segment that was not linked, and takes the copy that was there    *)
(* before off the hash list.                                               *)
ConverterFails(w, u) ==
    /\ filling[w] = None
    /\ \/ cache' = [cache EXCEPT !.hash[u] = None]
       \/ \E length \in Lengths :
            /\ MayLeak(FirstSegment(length))
            /\ cache' = Leak([cache EXCEPT !.hash[u] = None], FirstSegment(length))
    /\ UNCHANGED <<maxSize, filling, reading, holds>>

(* net_MemCacheWrite, when the last segment is full.  A copy whose first   *)
(* segment was lost is not written to: the call takes the last segment of  *)
(* an empty list, NULL, and the program ends there.                        *)
Grow(s, c) == Charge([s EXCEPT !.copy[c].size = @ + 1], 1)

Write(w) ==
    /\ filling[w] # None /\ filling[w].copy # None
    /\ LET c == filling[w].copy
       IN  /\ cache.copy[c].size > 0
           /\ \/ /\ cache.copy[c].size < MaxSegments
                 /\ cache' = Grow(cache, c)
                 /\ UNCHANGED filling
              \/ /\ MayLeak(1)
                 /\ cache' = Leak(cache, 1)
                 /\ UNCHANGED filling
              \/ /\ cache' = FreeMemoryCopy(cache, c)    \* no memory for the segment
                 /\ filling' = [filling EXCEPT ![w].copy = None]
    /\ UNCHANGED <<maxSize, reading, holds>>

(* net_MemCacheComplete: the copy replaces the one of its URL.             *)
Publish(s, c) ==
    LET u == s.copy[c].url
        listed == AddFirst(s, c)
        old == listed.hash[u]
    IN  [(IF old = None THEN listed ELSE FreeMemoryCopy(listed, old)) EXCEPT !.hash[u] = c]

Published(s, c) == IF c = None THEN s ELSE Publish(s, c)

Complete(w) ==
    /\ filling[w] # None
    /\ filling' = [filling EXCEPT ![w] = None]
    /\ cache' = ReduceTo(Published(cache, filling[w].copy), maxSize)
    /\ UNCHANGED <<maxSize, reading, holds>>

(* net_MemCacheAbort.                                                      *)
Abort(w) ==
    /\ filling[w] # None
    /\ cache' = IF filling[w].copy = None THEN cache ELSE FreeMemoryCopy(cache, filling[w].copy)
    /\ filling' = [filling EXCEPT ![w] = None]
    /\ UNCHANGED <<maxSize, reading, holds>>
-----------------------------------------------------------------------------
(* Reading: NET_GetURL finds a copy and, unless it is stale, loads it.     *)

(* NET_FindURLInMemCache makes the copy the one used last.                 *)
Found(u) == AddFirst(Unlist(cache, cache.hash[u]), cache.hash[u])

FindURL(u) ==
    /\ cache.hash[u] # None
    /\ cache' = Found(u)
    /\ UNCHANGED <<maxSize, filling, reading, holds>>

(* NET_MemoryCacheLoad; when it fails the read lock stays.  It needs the   *)
(* first segment, without which the program ends there.                    *)
MemoryCacheLoad(r, u) ==
    /\ reading[r] = None /\ cache.hash[u] # None
    /\ LET c == cache.hash[u]
       IN  /\ cache.copy[c].readLock < MaxReads
           /\ cache' = [Found(u) EXCEPT !.copy[c].readLock = @ + 1]
           /\ \/ cache.copy[c].size > 0 /\ reading' = [reading EXCEPT ![r] = c]
              \/ UNCHANGED reading
    /\ UNCHANGED <<maxSize, filling, holds>>

(* The read lock is removed, and the copy freed for whoever could not.     *)
Unread(s, c) == [s EXCEPT !.copy[c].readLock = @ - 1]
LastRead(s, c) == s.copy[c].deleteMe /\ s.copy[c].readLock = 0

GiveUp(r) == reading' = [reading EXCEPT ![r] = None]

(* NET_ProcessMemoryCache at the end of the document, and                  *)
(* NET_InterruptMemoryCache.                                               *)
EndLoad(r) ==
    /\ reading[r] # None
    /\ LET c == reading[r]
           s == Unread(cache, c)
       IN  cache' = IF LastRead(s, c) THEN FreeMemoryCopy(s, c) ELSE s
    /\ GiveUp(r)
    /\ UNCHANGED <<maxSize, filling, holds>>

(* NET_ProcessMemoryCache when the stream fails: the read lock stays.      *)
LoadFails(r) ==
    /\ reading[r] # None
    /\ GiveUp(r)
    /\ UNCHANGED <<cache, maxSize, filling, holds>>
-----------------------------------------------------------------------------
(* NET_ChangeMemCacheLock looks for the URL each time.                     *)
WithLocks(s, u, n) == IF s.hash[u] = None THEN s ELSE [s EXCEPT !.copy[s.hash[u]].locks = n]
LocksOf(u) == IF cache.hash[u] = None THEN 0 ELSE cache.copy[cache.hash[u]].locks

Lock(u) ==
    /\ holds[u] < MaxHolds
    /\ cache' = WithLocks(cache, u, LocksOf(u) + 1)
    /\ holds' = [holds EXCEPT ![u] = @ + 1]
    /\ UNCHANGED <<maxSize, filling, reading>>

Unlock(u) ==
    /\ holds[u] > 0
    /\ cache' = WithLocks(cache, u, IF LocksOf(u) = 0 THEN 0 ELSE LocksOf(u) - 1)
    /\ holds' = [holds EXCEPT ![u] = @ - 1]
    /\ UNCHANGED <<maxSize, filling, reading>>

(* NET_RemoveURLFromMemCache.                                              *)
RemoveURL(u) ==
    /\ cache.hash[u] # None
    /\ cache' = FreeMemoryCopy(cache, cache.hash[u])
    /\ UNCHANGED <<maxSize, filling, reading, holds>>

(* NET_SetMemoryCacheSize.                                                 *)
SetSize(max) ==
    /\ max # maxSize
    /\ cache' = ReduceTo(cache, max)
    /\ maxSize' = max
    /\ UNCHANGED <<filling, reading, holds>>

StreamStep(w) == Write(w) \/ Complete(w) \/ Abort(w) \/ \E u \in Url : Converter(w, u) \/ ConverterFails(w, u)
LoadStep(r) == EndLoad(r) \/ LoadFails(r) \/ \E u \in Url : MemoryCacheLoad(r, u)
UrlStep(u) == FindURL(u) \/ Lock(u) \/ Unlock(u) \/ RemoveURL(u)

Next ==
    \/ \E w \in Stream : StreamStep(w)
    \/ \E r \in Load : LoadStep(r)
    \/ \E u \in Url : UrlStep(u)
    \/ \E max \in Sizes : SetSize(max)

Spec == Init /\ [][Next]_vars
-----------------------------------------------------------------------------
(* Types; the unsigned size never wraps around.                            *)
CacheTypeOK ==
    /\ cache.copy \in [Copy -> CopyState \cup {None}]
    /\ cache.hash \in [Url -> Copy \cup {None}]
    /\ cache.list \in Seq(Copy)
    /\ cache.size \in Nat /\ cache.leaked \in Nat
    /\ maxSize \in Sizes
    /\ filling \in [Stream -> Filler \cup {None}]
    /\ reading \in [Load -> Copy \cup {None}]
    /\ holds \in [Url -> 0 .. MaxHolds]

(* net_MemoryCacheSize, by which copies are thrown out, is the size of all *)
(* copies in memory, whatever way they came and went, and of what was lost *)
(* because a list did not take it: the memory the cache has cost the heap. *)
Units(s) == UNION {{c} \X (1 .. s.copy[c].size) : c \in Allocated(s)}

SizeExact == cache.size = Cardinality(Units(cache)) + cache.leaked

(* Copies that can be reached are in memory: those a load reads, those a   *)
(* stream fills, those in the delete queue, each once; and a copy that can *)
(* be found has the right URL, can be thrown out and is not marked to be   *)
(* freed after its last reader.                                            *)
Filled == {filling[w].copy : w \in {v \in Stream : filling[v] # None}} \ {None}

Readers(c) == {r \in Load : reading[r] = c}

ServedIsKept ==
    /\ \A r \in Load : reading[r] # None =>
          reading[r] \in Allocated(cache) /\ cache.copy[reading[r]].readLock >= Cardinality(Readers(reading[r]))
    /\ Filled \subseteq Allocated(cache) \ ToSet(cache.list)
    /\ IsInjective(cache.list) /\ ToSet(cache.list) \subseteq Allocated(cache)
    /\ \A u \in Url : cache.hash[u] # None =>
          /\ cache.hash[u] \in ToSet(cache.list)
          /\ cache.copy[cache.hash[u]].url = u
          /\ ~cache.copy[cache.hash[u]].deleteMe

(* No copy is lost: each is being filled, or in the delete queue, or will  *)
(* be freed by the last of those that read it.                             *)
NothingLost ==
    \A c \in Allocated(cache) \ (Filled \cup ToSet(cache.list)) :
        cache.copy[c].deleteMe /\ cache.copy[c].readLock > 0

(* Types, and no memory lost.                                              *)
CacheInv == CacheTypeOK /\ NothingLost

(* The cache is one that lends copies as Lending says: what a load reads   *)
(* was complete when the load began and is there until it ends, and what   *)
(* was replaced, removed or thrown out is not read by loads that begin     *)
(* later.                                                                  *)
Offered == {cache.hash[u] : u \in Url} \ {None}

Shelf(c) ==
    CASE c \notin Allocated(cache) -> "gone"
      [] c \in Filled -> "prepared"
      [] c \in Offered -> "offered"
      [] OTHER -> "withdrawn"

Lent == INSTANCE Lending WITH
    shelf <- [c \in Copy |-> Shelf(c)], loans <- [c \in Copy |-> Cardinality(Readers(c))]

IsLending == Lent!Spec

(* When a document is complete or the user chooses another size, the cache *)
(* fits into its size again or holds only copies with locks; it throws out *)
(* no copy with locks, and none before the ones used longer ago.           *)
Replaced ==
    {cache.hash[filling[w].url] : w \in {v \in Stream : filling[v] # None /\ filling'[v] = None}}

ThrownOut == (ToSet(cache.list) \ ToSet(cache'.list)) \ Replaced

ThrowsOutOldest ==
    [][ maxSize' # maxSize \/ (\E w \in Stream : Complete(w)) =>
          /\ cache'.size <= maxSize' \/ \A c \in ToSet(cache'.list) : Locked(cache', c)
          /\ \A c \in ThrownOut : ~Locked(cache, c)
          /\ \A i, j \in DOMAIN cache.list :
                i < j /\ cache.list[i] \in ThrownOut /\ ~Locked(cache, cache.list[j])
                    => cache.list[j] \notin ToSet(cache'.list) ]_vars
=============================================================================
