---------------------------- MODULE IoWaitProofs ----------------------------
(***************************************************************************)
(* What the monitor cache and the i/o waits on it promise, for any number  *)
(* of threads, addresses and cache entries.                                *)
(*                                                                         *)
(* The invariant says of each call under way which entry it has hold of,   *)
(* counts the uses of an address as the size of a set of pairs, and keeps  *)
(* the monitors of the entries and the accounts of the threads equal.  A   *)
(* call that enters finds an entry or takes a free one (TakeStep), from    *)
(* three places; an exit gives up a use (ExitStep), also from three; the   *)
(* steps between and around leave the cache alone (PlainStep).             *)
(***************************************************************************)
EXTENDS IoWait, LinksProofs, FiniteSetTheorems

(* The stages of ExpandMonitorCache, and those of a thread that waits.     *)
Expanders == {"malloc", "mallocEnter", "mallocExit", "expand"}

Blocking == {"wait", "woken"}

(* Who expands, and what the calls that may block are about.               *)
Calls ==
    /\ \A t \in Thread : pc[t] \in Expanders <=> expanding = t
    /\ \A t \in Thread :
         pc[t] \in {"malloc", "mallocEnter", "mallocExit"} => MallocLock \in Object
    /\ \A t \in Thread : pc[t] \in Expanders \cup {"enter"} =>
         \/ ret[t] = "user" /\ addr[t] \in Object
         \/ ret[t] = "ioQueue" /\ addr[t] = t
    /\ \A t \in Thread : pc[t] \in Blocking =>
         \/ ret[t] = "user" /\ addr[t] \in Object
         \/ ret[t] = "ioExit" /\ addr[t] = t

(* The entries in the cache are of different addresses, the others idle.   *)
Entries ==
    /\ \A e \in cached : address[e] \in Address
    /\ \A e, f \in cached : address[e] = address[f] => e = f
    /\ \A e \in Entry \ cached : users[e] = 0 /\ owner[e] = None /\ count[e] = 0

(* The uses of an address, as a set of as many pairs, and their count.     *)
UsesOn(a) == [t \in Thread |-> Uses(t, a)]

Pairs(f) == UNION {{t} \X (1 .. f[t]) : t \in Thread}

Counted ==
    /\ \A a \in Address : \A e \in InCache(a) :
         /\ users[e] > 0
         /\ IsFiniteSet(Pairs(UsesOn(a))) /\ users[e] = Cardinality(Pairs(UsesOn(a)))
    /\ \A t \in Thread, a \in Address : Uses(t, a) > 0 => InCache(a) # {}

(* An entry is in the cache, free, or not allocated yet.                   *)
Lists ==
    /\ IsTidy(freeEntries) /\ IsTidy(fresh)
    /\ ToSet(freeEntries) \cap ToSet(fresh) = {}
    /\ cached \cap (ToSet(freeEntries) \cup ToSet(fresh)) = {}
    /\ cached \cup ToSet(freeEntries) \cup ToSet(fresh) = ToSet(FirstFree) \cup ToSet(Fresh)

(* The monitor that a call found is that of its address still.             *)
Serving ==
    \A t \in Thread :
      /\ pc[t] \in {"enter"} \cup Blocking => mon[t] \in InCache(addr[t])
      /\ pc[t] = "mallocEnter" => mon[t] \in InCache(MallocLock)

(* The entries each thread has made are those its monitors know of.        *)
Inside ==
    /\ \A e \in Entry : owner[e] = None <=> count[e] = 0
    /\ \A e \in cached : owner[e] # None => held[owner[e]][address[e]] = count[e]
    /\ \A t \in Thread, a \in Address :
         held[t][a] > 0 /\ ~(pc[t] \in Blocking /\ addr[t] = a) =>
           \E e \in InCache(a) : owner[e] = t
    /\ \A t \in Thread : pc[t] \in Blocking =>
         owner[mon[t]] # t /\ saved[t] > 0 /\ saved[t] = held[t][addr[t]]
    /\ \A t \in Thread : pc[t] = "mallocExit" => held[t][MallocLock] > 0
    /\ \A t, u \in Thread : held[u][t] > 0 => u = t

(* While a thread expands the cache for its address, nobody uses that      *)
(* address, but for malloc called by the thread.                           *)
Making ==
    \A t \in Thread : expanding = t =>
      /\ \A u \in Thread : Entering(u, addr[t]) => u = t
      /\ \A u \in Thread : held[u][addr[t]] > 0 =>
           /\ u = t /\ pc[t] = "mallocExit" /\ addr[t] = MallocLock
           /\ held[u][addr[t]] = 1

(* How the poll and a thread that waits for i/o keep track of each other.  *)
InIo(t) == pc[t] \in {"ioWait", "ioExit"} \/ (pc[t] \in Blocking /\ ret[t] = "ioExit")

Polling ==
    \A t \in Thread :
      /\ t \in ioq => InIo(t) \/ pc[t] = "ioUnlink"
      /\ pc[t] = "ioQueue" /\ mon[t] # None => mon[t] \in InCache(t) /\ held[t][t] > 0
      /\ InIo(t) /\ pollMon[t] # None => pollMon[t] \in InCache(t) /\ held[t][t] > 0
      /\ pc[t] = "ioWait" /\ t \notin ioq =>
           pollMon[t] # None /\ stickyCount[pollMon[t]] > 0
      /\ pc[t] = "wait" /\ ret[t] = "ioExit" => t \in ioq

CacheInv == Calls /\ Entries /\ Counted /\ Lists /\ Serving /\ Inside /\ Making /\ Polling

IInv == IoTypeOK /\ CacheInv
-----------------------------------------------------------------------------
(* One use more of an address, one less, and none.                         *)
LEMMA PairsMore ==
    ASSUME NEW f \in [Thread -> Nat], IsFiniteSet(Pairs(f)), NEW t \in Thread
    PROVE  LET g == [f EXCEPT ![t] = @ + 1] IN
           IsFiniteSet(Pairs(g)) /\ Cardinality(Pairs(g)) = Cardinality(Pairs(f)) + 1
<1> DEFINE g == [f EXCEPT ![t] = @ + 1]
           p == <<t, f[t] + 1>>
<1>1. \A u \in Thread : \A i : i \in 1 .. g[u] <=> i \in 1 .. f[u] \/ (u = t /\ i = f[t] + 1)
  OBVIOUS
<1>2. Pairs(g) = Pairs(f) \cup {p}
  <2>1. ASSUME NEW x \in Pairs(g) PROVE x \in Pairs(f) \cup {p}
    <3>1. PICK u \in Thread : x \in {u} \X (1 .. g[u])
      BY DEF Pairs
    <3>2. PICK i \in 1 .. g[u] : x = <<u, i>>
      BY <3>1
    <3> QED BY <1>1, <3>2 DEF Pairs
  <2>2. ASSUME NEW x \in Pairs(f) PROVE x \in Pairs(g)
    <3>1. PICK u \in Thread : x \in {u} \X (1 .. f[u])
      BY DEF Pairs
    <3>2. PICK i \in 1 .. f[u] : x = <<u, i>>
      BY <3>1
    <3> QED BY <1>1, <3>2 DEF Pairs
  <2>3. p \in Pairs(g)
    <3>1. p \in {t} \X (1 .. g[t])
      BY <1>1
    <3> QED BY <3>1 DEF Pairs
  <2> QED BY <2>1, <2>2, <2>3
<1>3. p \notin Pairs(f)
  <2> SUFFICES ASSUME NEW u \in Thread, p \in {u} \X (1 .. f[u]) PROVE FALSE
    BY DEF Pairs
  <2>1. u = t /\ f[t] + 1 \in 1 .. f[u]
    OBVIOUS
  <2>2. f[t] \in Nat /\ ~(f[t] + 1 <= f[t])
    OBVIOUS
  <2> QED BY <2>1, <2>2
<1>4. /\ IsFiniteSet(Pairs(f) \cup {p})
      /\ Cardinality(Pairs(f) \cup {p}) = Cardinality(Pairs(f)) + 1
  BY <1>3, FS_AddElement
<1> QED BY <1>2, <1>4

LEMMA PairsFewer ==
    ASSUME NEW f \in [Thread -> Nat], IsFiniteSet(Pairs(f)), NEW t \in Thread, f[t] > 0
    PROVE  LET g == [f EXCEPT ![t] = @ - 1] IN
           IsFiniteSet(Pairs(g)) /\ Cardinality(Pairs(g)) = Cardinality(Pairs(f)) - 1
<1> DEFINE g == [f EXCEPT ![t] = @ - 1]
           p == <<t, f[t]>>
<1>1. \A u \in Thread : \A i : i \in 1 .. g[u] <=> i \in 1 .. f[u] /\ ~(u = t /\ i = f[t])
  OBVIOUS
<1>2. Pairs(g) = Pairs(f) \ {p}
  <2>1. ASSUME NEW x \in Pairs(g) PROVE x \in Pairs(f) \ {p}
    <3>1. PICK u \in Thread : x \in {u} \X (1 .. g[u])
      BY DEF Pairs
    <3>2. PICK i \in 1 .. g[u] : x = <<u, i>>
      BY <3>1
    <3> QED BY <1>1, <3>2 DEF Pairs
  <2>2. ASSUME NEW x \in Pairs(f), x # p PROVE x \in Pairs(g)
    <3>1. PICK u \in Thread : x \in {u} \X (1 .. f[u])
      BY DEF Pairs
    <3>2. PICK i \in 1 .. f[u] : x = <<u, i>>
      BY <3>1
    <3> QED BY <1>1, <2>2, <3>2 DEF Pairs
  <2> QED BY <2>1, <2>2
<1>3. p \in Pairs(f)
  <2>1. p \in {t} \X (1 .. f[t])
    OBVIOUS
  <2> QED BY <2>1 DEF Pairs
<1> QED BY <1>2, <1>3, FS_RemoveElement

LEMMA PairsNone ==
    ASSUME NEW f \in [Thread -> Nat]
    PROVE  Pairs(f) = {} <=> \A t \in Thread : f[t] = 0
<1>1. ASSUME NEW t \in Thread, f[t] # 0 PROVE Pairs(f) # {}
  <2>1. <<t, 1>> \in {t} \X (1 .. f[t])
    BY <1>1
  <2> QED BY <2>1 DEF Pairs
<1>2. ASSUME \A t \in Thread : f[t] = 0 PROVE Pairs(f) = {}
  BY <1>2 DEF Pairs
<1> QED BY <1>1, <1>2
-----------------------------------------------------------------------------
USE DEF cacheVars, monitorVars, threadVars, ioVars

(* What an address is served by is fixed by the invariant.                 *)
LEMMA OneEntry ==
    ASSUME Entries, NEW a, NEW e \in InCache(a)
    PROVE  InCache(a) = {e} /\ e \in cached /\ address[e] = a
  BY DEF Entries, InCache

LEMMA UsesType ==
    ASSUME IoTypeOK, NEW a \in Address
    PROVE  /\ UsesOn(a) \in [Thread -> Nat]
           /\ \A t \in Thread : UsesOn(a)[t] = Uses(t, a) /\ Uses(t, a) \in Nat
  BY DEF IoTypeOK, TypeOK, UsesOn, Uses

(* Nobody uses an address that is not in the cache.                        *)
LEMMA NoEntryNoUse ==
    ASSUME IoTypeOK, Counted, NEW a \in Address, InCache(a) = {}
    PROVE  /\ \A t \in Thread : Uses(t, a) = 0 /\ held[t][a] = 0 /\ ~Entering(t, a)
           /\ Pairs(UsesOn(a)) = {}
<1>1. \A t \in Thread : Uses(t, a) = 0
  BY UsesType DEF Counted
<1>2. \A t \in Thread : held[t][a] \in Nat
  BY DEF IoTypeOK, TypeOK
<1>3. \A t \in Thread : held[t][a] = 0 /\ ~Entering(t, a)
  BY <1>1, <1>2 DEF Uses
<1> QED BY <1>1, <1>3, UsesType, PairsNone

(* A thread is inside the monitors of all addresses it has entries of, but *)
(* for the one it waits on.                                                *)
LEMMA IsInside ==
    ASSUME IInv, NEW t \in Thread, NEW a \in Address, held[t][a] > 0, pc[t] \notin Blocking
    PROVE  \E e \in cached : InCache(a) = {e} /\ Lookup(a) = {e} /\ address[e] = a
                             /\ owner[e] = t /\ count[e] = held[t][a]
<1>1. PICK e \in InCache(a) : owner[e] = t
  BY DEF IInv, CacheInv, Inside
<1>2. InCache(a) = {e} /\ e \in cached /\ address[e] = a
  BY OneEntry DEF IInv, CacheInv
<1>3. users[e] > 0
  BY <1>2 DEF IInv, CacheInv, Counted
<1>4. t # None /\ count[e] = held[t][a]
  BY <1>1, <1>2, CacheAssumption DEF IInv, CacheInv, Inside
<1> QED BY <1>1, <1>2, <1>3, <1>4 DEF Lookup

(* Only its own thread uses the address of a poll queue.                   *)
LEMMA OwnAddress ==
    ASSUME IInv, NEW t \in Thread, NEW u \in Thread, u # t
    PROVE  /\ held[u][t] = 0 /\ ~Entering(u, t)
           /\ pc[u] \in Blocking => addr[u] # t
<1>1. t \in Address /\ t \notin Object /\ t # MallocLock
  BY IoAssumption, CacheAssumption
<1>2. held[u][t] \in Nat /\ ~(held[u][t] > 0)
  BY <1>1 DEF IInv, IoTypeOK, TypeOK, CacheInv, Inside
<1>3. ~Entering(u, t)
  BY <1>1 DEF IInv, CacheInv, Calls, Entering
<1>4. pc[u] \in Blocking => addr[u] # t
  BY <1>1 DEF IInv, CacheInv, Calls
<1> QED BY <1>2, <1>3, <1>4

(* Steps that end and begin no use.                                        *)
LEMMA CountedFrame ==
    ASSUME Entries, Counted, UNCHANGED <<cached, address, users>>,
           \A t \in Thread, a \in Address : Uses(t, a)' = Uses(t, a)
    PROVE  Counted'
<1>1. \A a \in Address : UsesOn(a)' = UsesOn(a)
  BY DEF UsesOn
<1>2. \A a : InCache(a)' = InCache(a)
  BY DEF InCache
<1>3. \A e \in cached : address[e] \in Address
  BY DEF Entries
<1> QED BY <1>1, <1>2, <1>3 DEF Counted, Pairs
-----------------------------------------------------------------------------
(* A call finds the entry of its address, or takes a free one.             *)
Took(t, a, e) ==
    /\ e \in Entry /\ a \in Address
    /\ cached' = cached \cup {e}
    /\ e \in cached => address[e] = a
    /\ e \notin cached => InCache(a) = {}
    /\ address' = [address EXCEPT ![e] = a]
    /\ users' = [users EXCEPT ![e] = @ + 1]
    /\ stickyCount' = [stickyCount EXCEPT ![e] = 0]
    /\ mon' = [mon EXCEPT ![t] = e]

(* The step in which it does so, and goes on to enter the monitor.         *)
TakeStep(t, a, e, next) ==
    /\ Took(t, a, e)
    /\ pc[t] \in {"user", "ioGet", "malloc", "expand"}
    /\ pc' = [pc EXCEPT ![t] = next]
    /\ UNCHANGED <<owner, count, saved, timed, held, ioVars>>
    /\ \/ /\ next = "enter" /\ addr' = [addr EXCEPT ![t] = a]
          /\ expanding \in {None, t} /\ expanding' = None
          /\ \/ ret' = [ret EXCEPT ![t] = "user"] /\ a \in Object
             \/ ret' = [ret EXCEPT ![t] = "ioQueue"] /\ a = t
       \/ /\ next = "mallocEnter" /\ pc[t] = "malloc" /\ a = MallocLock
          /\ UNCHANGED <<addr, ret, expanding>>

(* What the step does to the buckets.                                      *)
LEMMA TookLemma ==
    ASSUME IInv, NEW t \in Thread, NEW a, NEW e, Took(t, a, e)
    PROVE  /\ InCache(a)' = {e}
           /\ \A b : b # a => InCache(b)' = InCache(b)
           /\ \A b : InCache(b) \subseteq InCache(b)'
           /\ \A f \in cached : f # e => address'[f] = address[f] /\ address'[f] # a
           /\ address'[e] = a /\ cached \subseteq cached'
<1>1. /\ address'[e] = a /\ cached' = cached \cup {e}
      /\ \A f \in cached : f # e => address'[f] = address[f]
  BY DEF IInv, IoTypeOK, TypeOK, Took
<1>2. \A f \in cached : f # e => address[f] # a
  BY DEF Took, IInv, CacheInv, Entries, InCache
<1>3. \A f \in cached : address'[f] = address[f]
  BY <1>1 DEF Took
<1>4. InCache(a)' = {e}
  BY <1>1, <1>2 DEF InCache
<1>5. \A b : b # a => InCache(b)' = InCache(b)
  BY <1>1, <1>3 DEF InCache, Took
<1>6. \A b : InCache(b) \subseteq InCache(b)'
  BY <1>1, <1>3 DEF InCache
<1> QED BY <1>1, <1>2, <1>4, <1>5, <1>6

(* It is a use more of the address, and of no other.                       *)
LEMMA TakeUses ==
    ASSUME IInv, NEW t \in Thread, NEW a, NEW e, NEW next, TakeStep(t, a, e, next)
    PROVE  /\ \A u \in Thread, b \in Address :
                Entering(u, b)' <=> Entering(u, b) \/ (u = t /\ b = a)
           /\ \A b \in Address : ~Entering(t, b)
           /\ UsesOn(a)' = [UsesOn(a) EXCEPT ![t] = @ + 1]
           /\ \A b \in Address : b # a => UsesOn(b)' = UsesOn(b)
<1>1. \A b \in Address : ~Entering(t, b)
  BY DEF TakeStep, Entering
<1>2. \A b \in Address : Entering(t, b)' <=> b = a
  BY DEF TakeStep, Took, Entering, IInv, IoTypeOK, TypeOK
<1>3. \A u \in Thread, b \in Address : u # t => (Entering(u, b)' <=> Entering(u, b))
  BY DEF TakeStep, Entering, IInv, IoTypeOK, TypeOK
<1>4. \A u \in Thread, b \in Address :
        Uses(u, b)' = IF u = t /\ b = a THEN Uses(u, b) + 1 ELSE Uses(u, b)
  <2>1. \A u \in Thread, b \in Address : held'[u][b] = held[u][b] /\ held[u][b] \in Nat
    BY DEF TakeStep, IInv, IoTypeOK, TypeOK
  <2> QED BY <1>1, <1>2, <1>3, <2>1 DEF Uses
<1>5. a \in Address
  BY DEF TakeStep, Took
<1>6. UsesOn(a)' = [UsesOn(a) EXCEPT ![t] = @ + 1]
  BY <1>4, <1>5 DEF UsesOn
<1>7. \A b \in Address : b # a => UsesOn(b)' = UsesOn(b)
  BY <1>4 DEF UsesOn
<1> QED BY <1>1, <1>2, <1>3, <1>6, <1>7

LEMMA TakeCounted ==
    ASSUME IInv, NEW t \in Thread, NEW a, NEW e, NEW next, TakeStep(t, a, e, next)
    PROVE  Counted'
<1> DEFINE P(b) == Pairs(UsesOn(b))
<1>1. a \in Address /\ e \in Entry /\ users' = [users EXCEPT ![e] = @ + 1]
  BY DEF TakeStep, Took
<1>2. IsFiniteSet(P(a)) /\ users[e] = Cardinality(P(a))
  <2>1. CASE e \in cached
    <3>1. e \in InCache(a)
      BY <2>1 DEF TakeStep, Took, InCache
    <3> QED BY <1>1, <3>1 DEF IInv, CacheInv, Counted
  <2>2. CASE e \notin cached
    <3>1. P(a) = {}
      BY <1>1, <2>2, NoEntryNoUse DEF TakeStep, Took, IInv, CacheInv
    <3>2. users[e] = 0
      BY <1>1, <2>2 DEF IInv, CacheInv, Entries
    <3> QED BY <3>1, <3>2, FS_EmptySet
  <2> QED BY <2>1, <2>2
<1>3. UsesOn(a) \in [Thread -> Nat] /\ UsesOn(a)' = [UsesOn(a) EXCEPT ![t] = @ + 1]
  BY <1>1, UsesType, TakeUses DEF IInv
<1>4. IsFiniteSet(P(a)') /\ Cardinality(P(a)') = Cardinality(P(a)) + 1
  <2>1. /\ IsFiniteSet(Pairs([UsesOn(a) EXCEPT ![t] = @ + 1]))
        /\ Cardinality(Pairs([UsesOn(a) EXCEPT ![t] = @ + 1])) = Cardinality(Pairs(UsesOn(a))) + 1
    BY <1>2, <1>3, PairsMore
  <2>2. P(a)' = Pairs([UsesOn(a) EXCEPT ![t] = @ + 1])
    BY <1>3 DEF Pairs
  <2> QED BY <2>1, <2>2
<1>5. users'[e] = users[e] + 1 /\ users[e] \in Nat /\ \A f \in Entry : f # e => users'[f] = users[f]
  BY <1>1 DEF IInv, IoTypeOK, TypeOK
<1>6. ASSUME NEW b \in Address, NEW f \in InCache(b)'
      PROVE  /\ users'[f] > 0
             /\ IsFiniteSet(P(b)') /\ users'[f] = Cardinality(P(b)')
  <2>1. CASE b = a
    <3>1. f = e
      BY <1>6, <2>1, TookLemma DEF TakeStep
    <3> QED BY <1>2, <1>4, <1>5, <2>1, <3>1
  <2>2. CASE b # a
    <3>1. f \in InCache(b) /\ f # e
      BY <1>6, <2>2, TookLemma DEF TakeStep, InCache
    <3>2. P(b)' = P(b)
      BY <2>2, TakeUses DEF Pairs
    <3>3. users'[f] = users[f]
      BY <1>5, <3>1 DEF InCache, IInv, IoTypeOK, TypeOK
    <3> QED BY <3>1, <3>2, <3>3 DEF IInv, CacheInv, Counted
  <2> QED BY <2>1, <2>2
<1>7. ASSUME NEW u \in Thread, NEW b \in Address, Uses(u, b)' > 0 PROVE InCache(b)' # {}
  <2>1. CASE b = a
    BY <2>1, TookLemma DEF TakeStep
  <2>2. CASE b # a
    <3>1. Uses(u, b)' = Uses(u, b)
      BY <2>2, TakeUses, ZenonT(40) DEF Uses, TakeStep
    <3> QED BY <1>7, <3>1, TookLemma DEF TakeStep, IInv, CacheInv, Counted
  <2> QED BY <2>1, <2>2
<1> QED BY <1>6, <1>7 DEF Counted

(* The rest of the invariant.                                              *)
LEMMA TakeKeeps ==
    ASSUME IInv, NEW t \in Thread, NEW a, NEW e, NEW next, TakeStep(t, a, e, next)
    PROVE  Calls' /\ Entries' /\ Counted' /\ Serving' /\ Inside' /\ Making' /\ Polling'
<1>1. /\ a \in Address /\ e \in Entry
      /\ pc'[t] = next /\ next \in {"enter", "mallocEnter"}
      /\ \A u \in Thread : u # t => pc'[u] = pc[u]
  BY DEF TakeStep, Took, IInv, IoTypeOK, TypeOK
<1>2. /\ \A u \in Thread : u # t => addr'[u] = addr[u] /\ ret'[u] = ret[u] /\ mon'[u] = mon[u]
      /\ mon'[t] = e
  BY DEF TakeStep, Took, IInv, IoTypeOK, TypeOK
<1>3. \/ /\ next = "enter" /\ addr'[t] = a /\ expanding \in {None, t} /\ expanding' = None
         /\ \/ ret'[t] = "user" /\ a \in Object
            \/ ret'[t] = "ioQueue" /\ a = t
      \/ /\ next = "mallocEnter" /\ pc[t] = "malloc" /\ a = MallocLock
         /\ UNCHANGED <<addr, ret, expanding>>
  BY DEF TakeStep, IInv, IoTypeOK, TypeOK
<1>4. Calls'
  BY <1>1, <1>2, <1>3, CacheAssumption DEF IInv, CacheInv, Calls, Expanders, Blocking
<1>5. Entries'
  <2>1. /\ \A f \in cached' : address'[f] \in Address
        /\ \A f, g \in cached' : address'[f] = address'[g] => f = g
    <3>1. cached' = cached \cup {e}
      BY DEF TakeStep, Took
    <3>2. /\ address'[e] = a
          /\ \A f \in cached : f # e => address'[f] = address[f] /\ address'[f] # a
      BY TookLemma DEF TakeStep
    <3> QED BY <1>1, <3>1, <3>2 DEF IInv, CacheInv, Entries
  <2>2. \A f \in Entry \ cached' : users'[f] = users[f] /\ f \notin cached
    BY DEF TakeStep, Took, IInv, IoTypeOK, TypeOK
  <2>3. owner' = owner /\ count' = count
    BY DEF TakeStep
  <2> QED BY <2>1, <2>2, <2>3 DEF IInv, CacheInv, Entries
<1>6. Counted'
  BY TakeCounted
<1>7. /\ InCache(a)' = {e} /\ \A b : InCache(b) \subseteq InCache(b)'
      /\ \A b : b # a => InCache(b)' = InCache(b)
  BY TookLemma DEF TakeStep
<1>8. Serving'
  <2>1. ASSUME NEW u \in Thread, u # t
        PROVE  /\ pc'[u] \in {"enter"} \cup Blocking => mon'[u] \in InCache(addr[u])'
               /\ pc'[u] = "mallocEnter" => mon'[u] \in InCache(MallocLock)'
    <3>1. /\ pc[u] \in {"enter"} \cup Blocking => mon[u] \in InCache(addr[u])
          /\ pc[u] = "mallocEnter" => mon[u] \in InCache(MallocLock)
      BY DEF IInv, CacheInv, Serving
    <3>2. addr'[u] = addr[u] /\ pc'[u] = pc[u] /\ mon'[u] = mon[u]
      BY <1>1, <1>2, <2>1
    <3>3. InCache(addr[u]) \subseteq InCache(addr[u])'
      BY <1>7, <3>2 DEF InCache
    <3> QED BY <1>7, <3>1, <3>2, <3>3
  <2>2. /\ pc'[t] \in {"enter"} \cup Blocking => mon'[t] \in InCache(addr[t])'
        /\ pc'[t] = "mallocEnter" => mon'[t] \in InCache(MallocLock)'
    <3>1. next = "enter" => InCache(addr[t])' = {e}
      BY <1>1, <1>3, <1>7 DEF InCache
    <3> QED BY <1>1, <1>2, <1>3, <1>7, <3>1 DEF Blocking
  <2> QED BY <2>1, <2>2 DEF Serving
<1>9. Inside'
  <2>1. owner' = owner /\ count' = count /\ held' = held /\ saved' = saved
    BY DEF TakeStep
  <2>2. \A f \in cached' : owner[f] # None => f \in cached /\ address'[f] = address[f]
    <3>1. \A f \in cached' : f = e \/ (f \in cached /\ address'[f] = address[f])
      BY TookLemma DEF TakeStep, Took
    <3>2. e \in cached => address'[e] = address[e]
      BY TookLemma DEF TakeStep, Took
    <3>3. e \notin cached => owner[e] = None
      BY <1>1 DEF IInv, CacheInv, Entries
    <3> QED BY <3>1, <3>2, <3>3
  <2>3. \A u \in Thread : /\ pc'[u] \in Blocking <=> pc[u] \in Blocking
                          /\ pc[u] \in Blocking => addr'[u] = addr[u] /\ mon'[u] = mon[u]
                          /\ pc'[u] = "mallocExit" => pc[u] = "mallocExit"
    BY <1>1, <1>2 DEF TakeStep, Blocking
  <2>4. \A u \in Thread, b \in Address :
          held[u][b] > 0 /\ ~(pc[u] \in Blocking /\ addr[u] = b) =>
            \E f \in InCache(b)' : owner[f] = u
    BY <1>7 DEF IInv, CacheInv, Inside
  <2> QED BY <2>1, <2>2, <2>3, <2>4 DEF IInv, CacheInv, Inside
<1>10. Making'
  <2>1. CASE next = "enter"
    BY <1>3, <2>1, CacheAssumption DEF Making
  <2>2. CASE next = "mallocEnter"
    <3>1. /\ expanding = t /\ expanding' = t /\ addr' = addr /\ held' = held
      BY <1>3, <2>2 DEF TakeStep, IInv, CacheInv, Calls, Expanders
    <3>2. addr[t] \in Address
      BY <1>3, <2>2, IoAssumption, CacheAssumption DEF IInv, CacheInv, Calls, Expanders
    <3>3. \A u \in Thread : Entering(u, addr[t])' => u = t
      <4>1. \A u \in Thread : u # t => (Entering(u, addr[t])' <=> Entering(u, addr[t]))
        BY <1>1, <1>2, <3>1 DEF Entering
      <4> QED BY <3>1, <4>1 DEF IInv, CacheInv, Making
    <3>4. \A u \in Thread : ~(held[u][addr[t]] > 0)
      BY <1>3, <2>2, <3>1 DEF IInv, CacheInv, Making
    <3> QED BY <3>1, <3>3, <3>4, CacheAssumption DEF Making
  <2> QED BY <1>3, <2>1, <2>2
<1>11. Polling'
  <2>1. ioq' = ioq /\ pollMon' = pollMon /\ held' = held
    BY DEF TakeStep
  <2>2. ASSUME NEW u \in Thread, u # t, u # a
        PROVE  stickyCount[pollMon[u]] > 0 /\ pollMon[u] \in InCache(u) =>
                 stickyCount'[pollMon[u]] > 0
    <3>1. pollMon[u] \in InCache(u) => pollMon[u] # e /\ pollMon[u] \in Entry
      BY <1>7, <2>2, TookLemma DEF TakeStep, Took, InCache, IInv, IoTypeOK, TypeOK
    <3> QED BY <3>1 DEF TakeStep, Took, IInv, IoTypeOK, TypeOK
  <2>3. \A u \in Thread : u # t => u # a
    BY <1>3, IoAssumption, CacheAssumption
       DEF IInv, CacheInv, Calls, Expanders
  <2>4. ~InIo(t)' /\ ~InIo(t) /\ pc'[t] \notin {"ioUnlink", "ioQueue", "ioWait", "wait"} /\ t \notin ioq
    BY <1>1 DEF InIo, Blocking, TakeStep, IInv, CacheInv, Polling
  <2>5. \A u \in Thread : u # t => (InIo(u)' <=> InIo(u))
    BY <1>1, <1>2 DEF InIo
  <2> QED BY <1>1, <1>2, <1>7, <2>1, <2>2, <2>3, <2>4, <2>5 DEF IInv, CacheInv, Polling, InIo
<1> QED BY <1>4, <1>5, <1>6, <1>8, <1>9, <1>10, <1>11

-----------------------------------------------------------------------------
(* The steps that take an entry are steps of that kind, and keep the free  *)
(* lists.                                                                  *)
LEMMA CreateTakes ==
    ASSUME IInv, NEW t \in Thread, NEW a \in Address, CreateMonitor(t, a), fresh' = fresh
    PROVE  Lists'
<1>1. CASE UNCHANGED <<cached, freeEntries>>
  BY <1>1 DEF IInv, CacheInv, Lists
<1>2. CASE TakeEntry(t, a, freeEntries)
  <2>1. freeEntries # <<>> /\ freeEntries \in Seq(Entry) /\ IsTidy(freeEntries)
    BY <1>2 DEF TakeEntry, IInv, IoTypeOK, TypeOK, CacheInv, Lists
  <2>2. /\ IsTidy(Tail(freeEntries))
        /\ ToSet(Tail(freeEntries)) = ToSet(freeEntries) \ {Head(freeEntries)}
        /\ Head(freeEntries) \in ToSet(freeEntries)
    BY <2>1, TailLemma, HeadLemma
  <2> QED BY <1>2, <2>2 DEF TakeEntry, IInv, CacheInv, Lists
<1> QED BY <1>1, <1>2 DEF CreateMonitor

LEMMA CreateTook ==
    ASSUME IInv, NEW t \in Thread, NEW a \in Address, CreateMonitor(t, a)
    PROVE  \E e \in Entry : Took(t, a, e)
<1>1. ASSUME NEW e \in InCache(a), users' = [users EXCEPT ![e] = @ + 1],
             stickyCount' = [stickyCount EXCEPT ![e] = 0], mon' = [mon EXCEPT ![t] = e],
             UNCHANGED <<cached, address>>
      PROVE  Took(t, a, e)
  <2>1. e \in cached /\ e \in Entry /\ address[e] = a
    BY <1>1 DEF InCache, IInv, IoTypeOK, TypeOK
  <2>2. cached' = cached \cup {e} /\ address' = [address EXCEPT ![e] = a]
    BY <1>1, <2>1 DEF IInv, IoTypeOK, TypeOK
  <2> QED BY <1>1, <2>1, <2>2 DEF Took
<1>2. ASSUME InCache(a) = {}, TakeEntry(t, a, freeEntries) PROVE Took(t, a, Head(freeEntries))
  <2>1. freeEntries # <<>> /\ freeEntries \in Seq(Entry)
    BY <1>2 DEF TakeEntry, IInv, IoTypeOK, TypeOK
  <2>2. Head(freeEntries) \in ToSet(freeEntries) /\ Head(freeEntries) \in Entry
    BY <2>1, HeadLemma, HeadTailProperties
  <2>3. Head(freeEntries) \notin cached
    BY <2>2 DEF IInv, CacheInv, Lists
  <2> QED BY <1>2, <2>2, <2>3 DEF TakeEntry, Took
<1>3. InCache(a) \subseteq Entry
  BY DEF InCache, IInv, IoTypeOK, TypeOK
<1>4. TakeEntry(t, a, freeEntries) => Head(freeEntries) \in Entry
  BY HeadTailProperties DEF TakeEntry, IInv, IoTypeOK, TypeOK
<1> QED BY <1>1, <1>2, <1>3, <1>4 DEF CreateMonitor

(* From where PR_CEnterMonitor is called.                                  *)
EnterFrom(t, a, next) ==
    \/ pc[t] = "user" /\ a \in Object /\ next = "user"
    \/ pc[t] = "ioGet" /\ a = t /\ next = "ioQueue"

LEMMA CEnterKeeps ==
    ASSUME IInv, NEW t \in Thread, NEW a \in Address, NEW next, EnterFrom(t, a, next),
           CEnter(t, a, next), UNCHANGED ioVars
    PROVE  CacheInv'
<1>1. fresh' = fresh /\ addr' = [addr EXCEPT ![t] = a] /\ ret' = [ret EXCEPT ![t] = next]
      /\ UNCHANGED <<owner, count, saved, timed, held>>
  BY DEF CEnter
<1>2. pc[t] \in {"user", "ioGet"} /\ expanding # t
  BY DEF EnterFrom, IInv, CacheInv, Calls, Expanders
<1>3. ASSUME CreateMonitor(t, a), pc' = [pc EXCEPT ![t] = "enter"], UNCHANGED expanding
      PROVE  CacheInv'
  <2>1. PICK e \in Entry : Took(t, a, e)
    BY <1>3, CreateTook
  <2>2. expanding = None
    BY <1>2, <1>3 DEF CreateMonitor, CanLock
  <2>3. TakeStep(t, a, e, "enter")
    BY <1>1, <1>2, <1>3, <2>1, <2>2 DEF TakeStep, EnterFrom
  <2> QED BY <1>1, <1>3, <2>3, TakeKeeps, CreateTakes DEF CacheInv
<1>4. ASSUME StartExpanding(t, a),
             UNCHANGED <<cached, address, users, freeEntries, stickyCount, mon>>
      PROVE  CacheInv'
  <2>1. /\ expanding = None /\ expanding' = t /\ InCache(a) = {}
        /\ pc' = [pc EXCEPT ![t] = IF MallocLock = None THEN "expand" ELSE "malloc"]
    BY <1>4 DEF StartExpanding
  <2>2. /\ pc'[t] \in {"expand", "malloc"} /\ (pc'[t] = "malloc" => MallocLock \in Object)
        /\ addr'[t] = a /\ ret'[t] = next
        /\ \A u \in Thread : u # t => pc'[u] = pc[u] /\ addr'[u] = addr[u] /\ ret'[u] = ret[u]
    BY <1>1, <2>1, CacheAssumption DEF IInv, IoTypeOK, TypeOK
  <2>3. Calls'
    BY <2>1, <2>2, CacheAssumption DEF EnterFrom, IInv, CacheInv, Calls, Expanders, Blocking
  <2>4. \A b : InCache(b)' = InCache(b)
    BY <1>4 DEF InCache
  <2>5. Entries' /\ Lists'
    BY <1>1, <1>4 DEF IInv, CacheInv, Entries, Lists
  <2>6. \A u \in Thread, b \in Address : Entering(u, b)' <=> Entering(u, b)
    BY <1>2, <2>2 DEF Entering
  <2>7. Counted'
    <3>1. \A u \in Thread, b \in Address : Uses(u, b)' = Uses(u, b)
      BY <1>1, <2>6 DEF Uses
    <3> QED BY <1>4, <3>1, CountedFrame DEF IInv, CacheInv
  <2>8. Serving'
    <3>1. \A u \in Thread : /\ pc'[u] \in {"enter"} \cup Blocking =>
                                 pc[u] = pc'[u] /\ addr'[u] = addr[u]
                            /\ pc'[u] = "mallocEnter" => pc[u] = "mallocEnter"
      BY <2>2 DEF Blocking
    <3>2. \A u \in Thread : addr'[u] = addr[u] => InCache(addr[u])' = InCache(addr[u])
      BY <1>4 DEF InCache
    <3> QED BY <1>4, <2>4, <3>1, <3>2 DEF IInv, CacheInv, Serving
  <2>9. Inside'
    <3>1. \A u \in Thread : /\ pc'[u] \in Blocking <=> pc[u] \in Blocking
                            /\ pc[u] \in Blocking => addr'[u] = addr[u]
                            /\ pc'[u] = "mallocExit" => pc[u] = "mallocExit"
      BY <1>2, <2>2 DEF Blocking
    <3> QED BY <1>1, <1>4, <2>4, <3>1 DEF IInv, CacheInv, Inside
  <2>10. Making'
    <3>1. \A u \in Thread : held[u][a] = 0 /\ ~Entering(u, a)
      BY <2>1, NoEntryNoUse DEF IInv, CacheInv
    <3>2. \A u \in Thread : ~Entering(u, addr[t])'
      <4>1. \A u \in Thread : Entering(u, addr[t])' <=> Entering(u, a)'
        BY <2>2 DEF Entering
      <4> QED BY <2>6, <3>1, <4>1
    <3>3. \A u \in Thread : expanding' = u => u = t
      BY <2>1
    <3> QED BY <1>1, <2>2, <3>1, <3>2, <3>3 DEF Making
  <2>11. Polling'
    <3>1. /\ \A u \in Thread : InIo(u)' <=> InIo(u)
          /\ \A u \in Thread : pc'[u] \in {"ioUnlink", "ioQueue", "ioWait", "wait"}
                                 => u # t
      BY <1>2, <2>2 DEF InIo, Blocking
    <3>2. t \notin ioq
      BY <1>2 DEF IInv, CacheInv, Polling, InIo, Blocking
    <3> QED BY <1>1, <1>4, <2>2, <2>4, <3>1, <3>2 DEF IInv, CacheInv, Polling
  <2> QED BY <2>3, <2>5, <2>7, <2>8, <2>9, <2>10, <2>11 DEF CacheInv
<1> QED BY <1>3, <1>4 DEF CEnter

(* malloc, while the cache expands.                                        *)
LEMMA MallocKeeps ==
    ASSUME IInv, NEW t \in Thread, Malloc(t), UNCHANGED ioVars
    PROVE  CacheInv'
<1>1. /\ pc[t] = "malloc" /\ MallocLock \in Address /\ CreateMonitor(t, MallocLock)
      /\ pc' = [pc EXCEPT ![t] = "mallocEnter"]
      /\ UNCHANGED <<fresh, expanding, owner, count, addr, ret, saved, timed, held>>
  BY CacheAssumption DEF Malloc, IInv, CacheInv, Calls
<1>2. PICK e \in Entry : Took(t, MallocLock, e)
  BY <1>1, CreateTook
<1>3. TakeStep(t, MallocLock, e, "mallocEnter")
  BY <1>1, <1>2 DEF TakeStep
<1> QED BY <1>1, <1>3, TakeKeeps, CreateTakes DEF CacheInv

(* The address an expansion is for is not in the cache when it ends.       *)
LEMMA ExpandForNew ==
    ASSUME IInv, NEW t \in Thread, pc[t] = "expand", addr[t] \in Address
    PROVE  InCache(addr[t]) = {}
<1>1. expanding = t
  BY DEF IInv, CacheInv, Calls, Expanders
<1>2. \A u \in Thread : held[u][addr[t]] = 0
  <2>1. \A u \in Thread : ~(held[u][addr[t]] > 0)
    BY <1>1 DEF IInv, CacheInv, Making
  <2>2. \A u \in Thread : held[u][addr[t]] \in Nat
    BY DEF IInv, IoTypeOK, TypeOK
  <2> QED BY <2>1, <2>2
<1>3. \A u \in Thread : ~Entering(u, addr[t])
  BY <1>1 DEF IInv, CacheInv, Making, Entering
<1>4. \A u \in Thread : UsesOn(addr[t])[u] = 0
  BY <1>2, <1>3 DEF UsesOn, Uses
<1>5. Pairs(UsesOn(addr[t])) = {}
  BY <1>4, PairsNone, UsesType DEF IInv
<1>6. ASSUME NEW e \in InCache(addr[t]) PROVE FALSE
  BY <1>5, <1>6, FS_EmptySet DEF IInv, CacheInv, Counted
<1> QED BY <1>6

(* One of the new entries is taken for it, the others are free.            *)
LEMMA ExpandTook ==
    ASSUME IInv, NEW t \in Thread, addr[t] \in Address, InCache(addr[t]) = {},
           NEW n \in DOMAIN fresh, fresh' = SubSeq(fresh, n + 1, Len(fresh)),
           TakeEntry(t, addr[t], SubSeq(fresh, 1, n) \o freeEntries)
    PROVE  /\ Lists' /\ Len(freeEntries') >= Len(freeEntries)
           /\ \E e \in Entry : Took(t, addr[t], e)
<1> DEFINE new == SubSeq(fresh, 1, n)
           free == new \o freeEntries
<1>1. /\ new \in Seq(Entry) /\ Len(new) = n /\ IsTidy(new) /\ IsTidy(fresh')
      /\ ToSet(new) \cap ToSet(fresh') = {} /\ ToSet(new) \cup ToSet(fresh') = ToSet(fresh)
  <2>1. fresh \in Seq(Entry) /\ IsTidy(fresh)
    BY DEF IInv, IoTypeOK, TypeOK, CacheInv, Lists
  <2>2. IsCut(Entry, fresh, n, new, fresh')
    BY <2>1, CutLemma
  <2> HIDE DEF new
  <2> QED BY <2>2 DEF IsCut
<1>2. /\ free \in Seq(Entry) /\ IsTidy(free) /\ Len(free) = Len(new) + Len(freeEntries)
      /\ ToSet(free) = ToSet(new) \cup ToSet(freeEntries)
  <2>1. ToSet(new) \cap ToSet(freeEntries) = {}
    BY <1>1 DEF IInv, CacheInv, Lists
  <2>2. freeEntries \in Seq(Entry) /\ IsTidy(freeEntries)
    BY DEF IInv, IoTypeOK, TypeOK, CacheInv, Lists
  <2>3. new \in Seq(Entry) /\ IsTidy(new)
    BY <1>1
  <2> HIDE DEF new
  <2>4. Len(new \o freeEntries) = Len(new) + Len(freeEntries)
    BY <2>2, <2>3, ConcatProperties
  <2>5. /\ new \o freeEntries \in Seq(Entry) /\ IsTidy(new \o freeEntries)
        /\ ToSet(new \o freeEntries) = ToSet(new) \cup ToSet(freeEntries)
    <3>1. Joins(Entry, new, freeEntries, new \o freeEntries)
      BY <2>1, <2>2, <2>3, ConcatLemma
    <3> QED BY <3>1 DEF Joins
  <2> QED BY <2>4, <2>5
<1>3. free # <<>>
  BY DEF TakeEntry
<1>4. freeEntries' = Tail(free) /\ cached' = cached \cup {Head(free)}
  BY DEF TakeEntry
<1>5. n \in Nat /\ n >= 1 /\ Len(freeEntries) \in Nat
  <2>1. freeEntries \in Seq(Entry) /\ fresh \in Seq(Entry)
    BY DEF IInv, IoTypeOK, TypeOK
  <2>2. Len(freeEntries) \in Nat /\ DOMAIN fresh = 1 .. Len(fresh) /\ Len(fresh) \in Nat
    BY <2>1, LenProperties
  <2> HIDE DEF new, free
  <2> QED BY <2>2
<1>6. /\ address' = [address EXCEPT ![Head(free)] = addr[t]]
      /\ users' = [users EXCEPT ![Head(free)] = @ + 1]
      /\ stickyCount' = [stickyCount EXCEPT ![Head(free)] = 0]
      /\ mon' = [mon EXCEPT ![t] = Head(free)]
  BY DEF TakeEntry
<1> HIDE DEF free
<1>7. /\ IsTidy(Tail(free)) /\ ToSet(Tail(free)) = ToSet(free) \ {Head(free)}
      /\ Head(free) \in ToSet(free) /\ Head(free) \in Entry
  BY <1>2, <1>3, TailLemma, HeadLemma
<1>8. Len(Tail(free)) >= Len(freeEntries)
  <2>1. Len(Tail(free)) = Len(free) - 1
    BY <1>2, <1>3, HeadTailProperties
  <2>2. Len(free) = n + Len(freeEntries)
    BY <1>1, <1>2
  <2> QED BY <1>5, <2>1, <2>2
<1>9. Lists'
  <2> PICK h : h = Head(free)
    OBVIOUS
  <2>1. /\ ToSet(freeEntries') = (ToSet(new) \cup ToSet(freeEntries)) \ {h}
        /\ cached' = cached \cup {h} /\ IsTidy(freeEntries')
        /\ h \in ToSet(new) \cup ToSet(freeEntries)
    BY <1>2, <1>4, <1>7
  <2>2. /\ ToSet(freeEntries) \cap ToSet(fresh) = {}
        /\ cached \cap (ToSet(freeEntries) \cup ToSet(fresh)) = {}
        /\ cached \cup ToSet(freeEntries) \cup ToSet(fresh) = ToSet(FirstFree) \cup ToSet(Fresh)
    BY DEF IInv, CacheInv, Lists
  <2>3. ToSet(freeEntries') \cap ToSet(fresh') = {}
    BY <1>1, <2>1, <2>2
  <2>4. cached' \cap (ToSet(freeEntries') \cup ToSet(fresh')) = {}
    BY <1>1, <2>1, <2>2
  <2>5. cached' \cup ToSet(freeEntries') \cup ToSet(fresh')
          = cached \cup ToSet(freeEntries) \cup ToSet(fresh)
    BY <1>1, <2>1
  <2> QED BY <1>1, <2>1, <2>2, <2>3, <2>4, <2>5 DEF Lists
<1>10. Head(free) \notin cached
  BY <1>1, <1>2, <1>7 DEF IInv, CacheInv, Lists
<1>11. Took(t, addr[t], Head(free))
  BY <1>4, <1>6, <1>7, <1>10 DEF Took
<1> QED BY <1>4, <1>7, <1>8, <1>9, <1>11

(* The end of an expansion: the new entries, or none.                      *)
LEMMA ExpandKeeps ==
    ASSUME IInv, NEW t \in Thread, Expand(t), UNCHANGED ioVars
    PROVE  CacheInv'
<1>1. /\ pc[t] = "expand" /\ expanding = t /\ expanding' = None
      /\ UNCHANGED <<owner, count, addr, ret, saved, timed, held>>
      /\ \/ ret[t] = "user" /\ addr[t] \in Object
         \/ ret[t] = "ioQueue" /\ addr[t] = t
  BY DEF Expand, IInv, CacheInv, Calls, Expanders
<1>2. addr[t] \in Address
  BY <1>1, CacheAssumption, IoAssumption
<1>3. InCache(addr[t]) = {}
  BY <1>1, <1>2, ExpandForNew
<1>4. ASSUME NEW n \in DOMAIN fresh, fresh' = SubSeq(fresh, n + 1, Len(fresh)),
             TakeEntry(t, addr[t], SubSeq(fresh, 1, n) \o freeEntries),
             pc' = [pc EXCEPT ![t] = "enter"]
      PROVE  CacheInv'
  <2>1. Lists'
    BY <1>2, <1>3, <1>4, ExpandTook
  <2>2. PICK e \in Entry : Took(t, addr[t], e)
    BY <1>2, <1>3, <1>4, ExpandTook
  <2>3. addr' = [addr EXCEPT ![t] = addr[t]] /\ ret' = [ret EXCEPT ![t] = ret[t]]
    BY <1>1 DEF IInv, IoTypeOK, TypeOK
  <2>4. TakeStep(t, addr[t], e, "enter")
    BY <1>1, <1>4, <2>2, <2>3 DEF TakeStep
  <2> QED BY <2>1, <2>4, TakeKeeps DEF CacheInv
<1>5. ASSUME pc' = [pc EXCEPT ![t] = ret[t]], mon' = [mon EXCEPT ![t] = None],
             UNCHANGED <<cached, address, users, freeEntries, fresh, stickyCount>>
      PROVE  CacheInv'
  <2>1. /\ pc'[t] \in {"user", "ioQueue"} /\ mon'[t] = None
        /\ \A u \in Thread : u # t => pc'[u] = pc[u] /\ mon'[u] = mon[u]
    BY <1>1, <1>5 DEF IInv, IoTypeOK, TypeOK
  <2>2. Calls'
    BY <1>1, <2>1, CacheAssumption DEF IInv, CacheInv, Calls, Expanders, Blocking
  <2>3. \A b : InCache(b)' = InCache(b)
    BY <1>5 DEF InCache
  <2>4. Entries' /\ Lists'
    BY <1>1, <1>5 DEF IInv, CacheInv, Entries, Lists
  <2>5. Counted'
    <3>1. \A u \in Thread, b \in Address : Uses(u, b)' = Uses(u, b)
      BY <1>1, <2>1 DEF Uses, Entering
    <3> QED BY <1>5, <3>1, CountedFrame DEF IInv, CacheInv
  <2>6. \A u \in Thread : /\ pc'[u] \in Blocking <=> pc[u] \in Blocking
                          /\ pc'[u] \in {"enter", "mallocEnter", "mallocExit", "wait", "woken",
                                         "ioUnlink", "ioWait", "ioExit"} => u # t
    BY <1>1, <2>1 DEF Blocking
  <2>7. Serving'
    <3>1. \A u \in Thread : InCache(addr[u])' = InCache(addr[u])
      BY <1>1, <1>5 DEF InCache
    <3> QED BY <1>1, <2>1, <2>3, <2>6, <3>1 DEF IInv, CacheInv, Serving, Blocking
  <2>8. Inside'
    <3>1. /\ owner' = owner /\ count' = count /\ held' = held /\ saved' = saved
          /\ addr' = addr /\ cached' = cached /\ address' = address
      BY <1>1, <1>5
    <3>2. \A u \in Thread : /\ pc[u] \in Blocking => mon'[u] = mon[u]
                            /\ pc'[u] = "mallocExit" => pc[u] = "mallocExit"
      BY <2>1, <2>6 DEF Blocking
    <3>3. \A u \in Thread, b \in Address :
            held[u][b] > 0 /\ ~(pc'[u] \in Blocking /\ addr[u] = b) =>
              \E f \in InCache(b)' : owner[f] = u
      BY <2>3, <2>6 DEF IInv, CacheInv, Inside
    <3>4. \A u \in Thread : pc'[u] \in Blocking =>
            owner[mon'[u]] # u /\ saved[u] > 0 /\ saved[u] = held[u][addr[u]]
      BY <2>6, <3>2 DEF IInv, CacheInv, Inside
    <3> QED BY <3>1, <3>2, <3>3, <3>4 DEF IInv, CacheInv, Inside
  <2>9. Making'
    BY <1>1, CacheAssumption DEF Making
  <2>10. Polling'
    <3>1. t \notin ioq /\ \A u \in Thread : InIo(u)' <=> InIo(u)
      BY <1>1, <2>1 DEF IInv, CacheInv, Polling, InIo, Blocking
    <3> QED BY <1>1, <1>5, <2>1, <2>3, <2>6, <3>1 DEF IInv, CacheInv, Polling
  <2> QED BY <2>2, <2>4, <2>5, <2>7, <2>8, <2>9, <2>10 DEF CacheInv
<1> QED BY <1>4, <1>5 DEF Expand

(* A thread enters the monitor of the address it has an entry for.         *)
LEMMA EnterKeeps ==
    ASSUME IInv, NEW t \in Thread, Enter(t), UNCHANGED ioVars
    PROVE  CacheInv'
<1> DEFINE a == IF pc[t] = "enter" THEN addr[t] ELSE MallocLock
           e == mon[t]
<1>1. /\ pc[t] \in {"enter", "mallocEnter"} /\ owner[e] \in {None, t}
      /\ owner' = [owner EXCEPT ![e] = t] /\ count' = [count EXCEPT ![e] = @ + 1]
      /\ held' = [held EXCEPT ![t][a] = @ + 1]
      /\ pc' = [pc EXCEPT ![t] = IF @ = "enter" THEN ret[t] ELSE "mallocExit"]
      /\ UNCHANGED <<cached, address, users, freeEntries, fresh, expanding>>
      /\ UNCHANGED <<stickyCount, addr, mon, ret, saved, timed>>
  BY DEF Enter
<1>2. /\ a \in Address /\ e \in InCache(a) /\ Entering(t, a)
      /\ \A b \in Address : Entering(t, b) => b = a
  BY <1>1, CacheAssumption, IoAssumption
     DEF IInv, CacheInv, Calls, Serving, Expanders, Entering
<1> HIDE DEF a, e
<1>3. e \in cached /\ e \in Entry /\ address[e] = a /\ InCache(a) = {e}
  BY <1>2, OneEntry DEF IInv, CacheInv, IoTypeOK, TypeOK
<1>4. /\ \A b : InCache(b)' = InCache(b)
      /\ \A u \in Thread : InCache(addr[u])' = InCache(addr[u])
  BY <1>1 DEF InCache
<1>5. /\ \A u \in Thread : u # t => pc'[u] = pc[u]
      /\ pc[t] = "enter" => pc'[t] = ret[t] /\ ret[t] \in {"user", "ioQueue"}
      /\ pc[t] = "mallocEnter" => pc'[t] = "mallocExit" /\ expanding = t
  BY <1>1 DEF IInv, IoTypeOK, TypeOK, CacheInv, Calls, Expanders
<1>6. /\ \A u \in Thread, b \in Address :
           held'[u][b] = IF u = t /\ b = a THEN held[u][b] + 1 ELSE held[u][b]
      /\ \A u \in Thread, b \in Address : held[u][b] \in Nat
  BY <1>1, <1>2 DEF IInv, IoTypeOK, TypeOK
<1>7. /\ owner'[e] = t /\ count'[e] = held'[t][a] /\ count'[e] # 0
      /\ \A f \in Entry : f # e => owner'[f] = owner[f] /\ count'[f] = count[f]
  <2>1. owner'[e] = t /\ count'[e] = count[e] + 1 /\ count[e] \in Nat
        /\ \A f \in Entry : f # e => owner'[f] = owner[f] /\ count'[f] = count[f]
    BY <1>1, <1>3 DEF IInv, IoTypeOK, TypeOK
  <2>2. CASE owner[e] = t
    BY <1>2, <1>3, <1>6, <2>1, <2>2, CacheAssumption DEF IInv, CacheInv, Inside
  <2>3. CASE owner[e] = None
    <3>1. count[e] = 0
      BY <1>3, <2>3 DEF IInv, CacheInv, Inside
    <3>2. ~(held[t][a] > 0)
      BY <1>1, <1>2, <1>3, <2>3, CacheAssumption DEF IInv, CacheInv, Inside, Blocking
    <3> QED BY <1>2, <1>6, <2>1, <3>1, <3>2
  <2> QED BY <1>1, <2>1, <2>2, <2>3
<1>8. Calls'
  BY <1>1, <1>5 DEF IInv, CacheInv, Calls, Expanders, Blocking
<1>9. Entries' /\ Lists'
  BY <1>1, <1>3, <1>7 DEF IInv, CacheInv, Entries, Lists
<1>10. \A u \in Thread, b \in Address : Entering(u, b)' <=> Entering(u, b) /\ ~(u = t /\ b = a)
  BY <1>1, <1>2, <1>5 DEF Entering
<1>11. Counted'
  <2>1. \A u \in Thread, b \in Address : Uses(u, b)' = Uses(u, b)
    BY <1>2, <1>6, <1>10 DEF Uses
  <2> QED BY <1>1, <2>1, CountedFrame DEF IInv, CacheInv
<1>12. Serving'
  BY <1>1, <1>4, <1>5 DEF IInv, CacheInv, Serving, Blocking
<1>13. Inside'
  <2>1. \A f \in Entry : owner'[f] = None <=> count'[f] = 0
    BY <1>7, CacheAssumption DEF IInv, CacheInv, Inside
  <2>2. \A f \in cached : owner'[f] # None => held'[owner'[f]][address[f]] = count'[f]
    <3>1. \A f \in cached : f # e => address[f] # a /\ address[f] \in Address /\ f \in Entry
      BY <1>3 DEF IInv, CacheInv, Entries, IoTypeOK, TypeOK
    <3>2. \A f \in cached : f # e /\ owner[f] # None => owner[f] \in Thread
      BY DEF IInv, IoTypeOK, TypeOK
    <3> QED BY <1>3, <1>6, <1>7, <3>1, <3>2 DEF IInv, CacheInv, Inside
  <2>3. ASSUME NEW u \in Thread, NEW b \in Address, held'[u][b] > 0,
               ~(pc'[u] \in Blocking /\ addr[u] = b)
        PROVE  \E f \in InCache(b) : owner'[f] = u
    <3>1. CASE u = t /\ b = a
      BY <1>2, <1>7, <3>1
    <3>2. CASE ~(u = t /\ b = a)
      <4>1. held[u][b] > 0 /\ ~(pc[u] \in Blocking /\ addr[u] = b)
        BY <1>1, <1>5, <1>6, <2>3, <3>2 DEF Blocking
      <4>2. PICK f \in InCache(b) : owner[f] = u
        BY <4>1 DEF IInv, CacheInv, Inside
      <4>3. f \in Entry /\ (f = e => b = a)
        BY <1>3 DEF InCache, IInv, IoTypeOK, TypeOK
      <4>4. f = e => u = t
        BY <1>1, <4>2, CacheAssumption
      <4> QED BY <1>7, <3>2, <4>2, <4>3, <4>4
    <3> QED BY <3>1, <3>2
  <2>4. \A u \in Thread : pc'[u] \in Blocking =>
          owner'[mon[u]] # u /\ saved[u] > 0 /\ saved[u] = held'[u][addr[u]]
    <3>1. \A u \in Thread : pc'[u] \in Blocking => u # t /\ pc[u] \in Blocking
      BY <1>1, <1>5 DEF Blocking
    <3>2. \A u \in Thread : pc[u] \in Blocking =>
            addr[u] \in Address /\ mon[u] \in Entry
      BY CacheAssumption, IoAssumption
         DEF IInv, CacheInv, Calls, Serving, InCache, IoTypeOK, TypeOK
    <3> QED BY <1>6, <1>7, <3>1, <3>2 DEF IInv, CacheInv, Inside
  <2>5. \A u \in Thread : pc'[u] = "mallocExit" => held'[u][MallocLock] > 0
    <3>1. pc'[t] = "mallocExit" => a = MallocLock
      BY <1>1, <1>5 DEF a
    <3>2. \A u \in Thread : pc[u] = "mallocExit" => MallocLock \in Address
      BY CacheAssumption DEF IInv, CacheInv, Calls
    <3> QED BY <1>2, <1>5, <1>6, <3>1, <3>2 DEF IInv, CacheInv, Inside
  <2>6. \A u, v \in Thread : held'[v][u] > 0 => v = u
    <3>1. \A u \in Thread : u \in Address /\ (a = u => t = u)
      BY <1>2, IoAssumption, OwnAddress
    <3> QED BY <1>6, <3>1 DEF IInv, CacheInv, Inside
  <2> QED BY <1>1, <1>4, <2>1, <2>2, <2>3, <2>4, <2>5, <2>6 DEF Inside
<1>14. Making'
  <2> SUFFICES ASSUME NEW u \in Thread, expanding = u
               PROVE  /\ \A v \in Thread : Entering(v, addr[u])' => v = u
                      /\ \A v \in Thread : held'[v][addr[u]] > 0 =>
                           /\ v = u /\ pc'[u] = "mallocExit" /\ addr[u] = MallocLock
                           /\ held'[v][addr[u]] = 1
    BY <1>1 DEF Making
  <2>1. /\ addr[u] \in Address
        /\ \A v \in Thread : Entering(v, addr[u]) => v = u
        /\ \A v \in Thread : held[v][addr[u]] > 0 =>
             /\ v = u /\ pc[u] = "mallocExit" /\ addr[u] = MallocLock
             /\ held[v][addr[u]] = 1
    BY CacheAssumption, IoAssumption DEF IInv, CacheInv, Calls, Making, Expanders
  <2>2. \A v \in Thread : Entering(v, addr[u])' => v = u
    <3>1. \A v \in Thread : Entering(v, addr[u])' => Entering(v, addr[u])
      BY <1>1, <1>5 DEF Entering
    <3> QED BY <2>1, <3>1
  <2>3. CASE a = addr[u]
    <3>1. t = u /\ pc[t] = "mallocEnter"
      BY <1>1, <1>2, <2>1, <2>3 DEF IInv, CacheInv, Calls, Expanders
    <3>2. a = MallocLock /\ held[t][a] = 0
      BY <1>6, <2>1, <2>3, <3>1 DEF a
    <3> QED BY <1>5, <1>6, <2>1, <2>2, <2>3, <3>1, <3>2
  <2>4. CASE a # addr[u]
    <3>1. \A v \in Thread : held'[v][addr[u]] = held[v][addr[u]]
      BY <1>6, <2>1, <2>4
    <3>2. pc[u] = "mallocExit" => pc'[u] = "mallocExit"
      BY <1>1, <1>5
    <3> QED BY <2>1, <2>2, <3>1, <3>2
  <2> QED BY <2>3, <2>4
<1>15. Polling'
  <2>1. \A u \in Thread : /\ InIo(u)' <=> InIo(u)
                          /\ pc'[u] \in {"ioUnlink", "ioWait", "wait"} <=> pc[u] \in {"ioUnlink", "ioWait", "wait"}
                          /\ u # t => pc'[u] = pc[u]
    BY <1>1, <1>5 DEF InIo, Blocking
  <2>2. \A u \in Thread : held[u][u] > 0 => held'[u][u] > 0
    BY <1>6, IoAssumption
  <2>3. pc'[t] = "ioQueue" => mon[t] \in InCache(t) /\ held'[t][t] > 0
    <3>1. pc'[t] = "ioQueue" => a = t
      BY <1>1, <1>5, CacheAssumption, IoAssumption DEF a, IInv, CacheInv, Calls, Expanders
    <3> QED BY <1>2, <1>6, <3>1 DEF e
  <2>4. \A u \in Thread : u # t \/ pc'[u] # pc[u]
    BY <1>1, <1>5
  <2> QED BY <1>1, <1>4, <1>5, <2>1, <2>2, <2>3, <2>4 DEF IInv, CacheInv, Polling
<1> QED BY <1>8, <1>9, <1>11, <1>12, <1>13, <1>14, <1>15 DEF CacheInv


(* From where PR_CExitMonitor is called: inside, or in _PR_IOWait, which   *)
(* may have been refused a monitor.                                        *)
ExitFrom(t, a, next) ==
    \/ pc[t] = "user" /\ a \in Object /\ held[t][a] > 0 /\ next = "user"
    \/ pc[t] = "mallocExit" /\ a = MallocLock /\ next = "expand"
    \/ pc[t] = "ioExit" /\ a = t /\ next = "ioUnlink"

(* What it does inside: a use less, and no entry if it was the last.       *)
ExitStep(t, a, e, next) ==
    /\ e \in cached /\ InCache(a) = {e} /\ address[e] = a
    /\ owner[e] = t /\ count[e] = held[t][a] /\ held[t][a] > 0
    /\ users' = [users EXCEPT ![e] = @ - 1]
    /\ \/ users[e] = 1 /\ cached' = cached \ {e} /\ freeEntries' = <<e>> \o freeEntries
       \/ users[e] # 1 /\ UNCHANGED <<cached, freeEntries>>
    /\ count' = [count EXCEPT ![e] = @ - 1]
    /\ owner' = [owner EXCEPT ![e] = IF count[e] = 1 THEN None ELSE @]
    /\ held' = [held EXCEPT ![t][a] = @ - 1]
    /\ pc' = [pc EXCEPT ![t] = next]
    /\ UNCHANGED <<address, fresh, expanding, stickyCount, addr, mon, ret, saved, timed>>

LEMMA ExitInside ==
    ASSUME IInv, NEW t \in Thread, NEW a \in Address, NEW next, ExitFrom(t, a, next),
           CExit(t, a, next), held[t][a] > 0
    PROVE  \E e \in Entry : ExitStep(t, a, e, next)
<1>1. pc[t] \notin Blocking
  BY DEF ExitFrom, Blocking
<1>2. PICK e \in cached : /\ InCache(a) = {e} /\ Lookup(a) = {e} /\ address[e] = a
                          /\ owner[e] = t /\ count[e] = held[t][a]
  BY <1>1, IsInside
<1>3. e \in Entry
  BY DEF IInv, IoTypeOK, TypeOK
<1>4. /\ users' = EndUse(e) /\ FreeUnused(e)
      /\ count' = [count EXCEPT ![e] = @ - 1]
      /\ owner' = [owner EXCEPT ![e] = IF count[e] = 1 THEN None ELSE @]
      /\ held' = [held EXCEPT ![t][a] = @ - 1]
      /\ pc' = [pc EXCEPT ![t] = next]
      /\ UNCHANGED <<address, fresh, expanding, stickyCount, addr, mon, ret, saved, timed>>
  BY <1>2 DEF CExit
<1>5. ExitStep(t, a, e, next)
  BY <1>2, <1>4 DEF ExitStep, EndUse, FreeUnused
<1> QED BY <1>3, <1>5

(* What the step leaves of the uses.                                       *)
LEMMA ExitUses ==
    ASSUME IInv, NEW t \in Thread, NEW a \in Address, NEW e \in Entry, NEW next,
           ExitFrom(t, a, next), ExitStep(t, a, e, next)
    PROVE  /\ \A u \in Thread, b \in Address :
                /\ held'[u][b] = IF u = t /\ b = a THEN held[u][b] - 1 ELSE held[u][b]
                /\ held[u][b] \in Nat /\ (held'[u][b] > 0 => held[u][b] > 0)
                /\ Entering(u, b)' <=> Entering(u, b)
           /\ \A b : InCache(b)' = IF b = a /\ users[e] = 1 THEN {} ELSE InCache(b)
           /\ users[e] = 1 => \A u \in Thread : held'[u][a] = 0 /\ ~Entering(u, a)
           /\ users[e] = 1 => count[e] = 1
           /\ Counted'
<1>1. \A u \in Thread, b \in Address :
        /\ held'[u][b] = IF u = t /\ b = a THEN held[u][b] - 1 ELSE held[u][b]
        /\ held[u][b] \in Nat
  BY SMTT(30) DEF ExitStep, IInv, IoTypeOK, TypeOK
<1>2. /\ pc[t] \notin {"enter", "mallocEnter"} /\ pc'[t] \notin {"enter", "mallocEnter"}
      /\ \A u \in Thread : u # t => pc'[u] = pc[u]
      /\ addr' = addr
  BY DEF ExitFrom, ExitStep, IInv, IoTypeOK, TypeOK
<1>3. \A u \in Thread, b \in Address : Entering(u, b)' <=> Entering(u, b)
  BY <1>2 DEF Entering
<1>4. \A b : InCache(b)' = IF b = a /\ users[e] = 1 THEN {} ELSE InCache(b)
  <2>1. CASE users[e] = 1
    <3>1. cached' = cached \ {e} /\ address' = address /\ address[e] = a /\ InCache(a) = {e}
      BY <2>1 DEF ExitStep
    <3>2. InCache(a)' = {}
      BY <3>1 DEF InCache
    <3>3. \A b : b # a => InCache(b)' = InCache(b)
      BY <3>1 DEF InCache
    <3> QED BY <2>1, <3>2, <3>3
  <2>2. CASE users[e] # 1
    BY <2>2 DEF ExitStep, InCache
  <2> QED BY <2>1, <2>2
<1>5. \A u \in Thread, b \in Address :
        Uses(u, b)' = IF u = t /\ b = a THEN Uses(u, b) - 1 ELSE Uses(u, b)
  BY <1>1, <1>3 DEF Uses
<1>6. UsesOn(a)' = [UsesOn(a) EXCEPT ![t] = @ - 1]
  BY <1>5 DEF UsesOn
<1>7. \A b \in Address : b # a => UsesOn(b)' = UsesOn(b)
  BY <1>5 DEF UsesOn
<1>8. /\ users[e] > 0 /\ users[e] \in Nat
      /\ IsFiniteSet(Pairs(UsesOn(a))) /\ users[e] = Cardinality(Pairs(UsesOn(a)))
  <2>1. e \in InCache(a)
    BY DEF ExitStep
  <2> QED BY <2>1 DEF IInv, IoTypeOK, TypeOK, CacheInv, Counted
<1>9. /\ UsesOn(a) \in [Thread -> Nat] /\ UsesOn(a)[t] > 0
      /\ UsesOn(a)' \in [Thread -> Nat]
  <2>1. UsesOn(a) \in [Thread -> Nat] /\ UsesOn(a)[t] = Uses(t, a)
    BY UsesType DEF IInv
  <2>2. Uses(t, a) > 0
    BY <1>1 DEF Uses, ExitStep
  <2> QED BY <1>6, <2>1, <2>2
<1>10. /\ IsFiniteSet(Pairs(UsesOn(a)'))
       /\ Cardinality(Pairs(UsesOn(a)')) = users[e] - 1
  BY <1>6, <1>8, <1>9, PairsFewer
<1>11. ASSUME users[e] = 1 PROVE \A u \in Thread : held'[u][a] = 0 /\ ~Entering(u, a)
  <2>1. Pairs(UsesOn(a)') = {}
    BY <1>10, <1>11, FS_EmptySet
  <2>2. \A u \in Thread : UsesOn(a)'[u] = 0
    BY <1>9, <2>1, PairsNone
  <2>3. \A u \in Thread : Uses(u, a)' = 0
    BY <2>2 DEF UsesOn
  <2>4. \A u \in Thread : held'[u][a] \in Nat
    BY <1>1 DEF ExitStep
  <2> QED BY <1>3, <2>3, <2>4 DEF Uses
<1>12. users[e] = 1 => count[e] = 1
  BY <1>1, <1>11 DEF ExitStep
<1>13. users'[e] = users[e] - 1 /\ \A f \in Entry : f # e => users'[f] = users[f]
  BY <1>8 DEF ExitStep, IInv, IoTypeOK, TypeOK
<1>14. Counted'
  <2>1. ASSUME NEW b \in Address, NEW f \in InCache(b)'
        PROVE  /\ users'[f] > 0 /\ IsFiniteSet(Pairs(UsesOn(b)'))
               /\ users'[f] = Cardinality(Pairs(UsesOn(b)'))
    <3>1. CASE b = a
      <4>1. users[e] # 1 /\ f = e
        BY <1>4, <2>1, <3>1 DEF ExitStep
      <4> QED BY <1>8, <1>10, <1>13, <3>1, <4>1
    <3>2. CASE b # a
      <4>1. f \in InCache(b) /\ f \in Entry
        <5>1. f \in InCache(b)
          BY <1>4, <2>1, <3>2
        <5> QED BY <5>1 DEF InCache, IInv, IoTypeOK, TypeOK
      <4>2. f # e
        BY <3>2, <4>1 DEF InCache, ExitStep
      <4>3. users'[f] = users[f]
        BY <1>13, <4>1, <4>2
      <4> QED BY <1>7, <3>2, <4>1, <4>3 DEF IInv, CacheInv, Counted
    <3> QED BY <3>1, <3>2
  <2>2. ASSUME NEW u \in Thread, NEW b \in Address, Uses(u, b)' > 0 PROVE InCache(b)' # {}
    <3>1. Uses(u, b) > 0
      BY <1>1, <1>5, <2>2 DEF Uses
    <3>2. ~(b = a /\ users[e] = 1)
      BY <1>3, <1>11, <2>2 DEF Uses
    <3> QED BY <1>4, <3>1, <3>2 DEF IInv, CacheInv, Counted
  <2>3. \A b : Pairs(UsesOn(b))' = Pairs(UsesOn(b)')
    BY DEF Pairs
  <2> QED BY <2>1, <2>2, <2>3 DEF Counted
<1> QED BY <1>1, <1>3, <1>4, <1>11, <1>12, <1>14


LEMMA ExitKeepsInside ==
    ASSUME IInv, NEW t \in Thread, NEW a \in Address, NEW next, ExitFrom(t, a, next),
           CExit(t, a, next), held[t][a] > 0, UNCHANGED ioVars
    PROVE  CacheInv'
<1>1. PICK e \in Entry : ExitStep(t, a, e, next)
  BY ExitInside
<1>2. /\ \A u \in Thread, b \in Address :
           /\ held'[u][b] = IF u = t /\ b = a THEN held[u][b] - 1 ELSE held[u][b]
           /\ held[u][b] \in Nat /\ (held'[u][b] > 0 => held[u][b] > 0)
           /\ Entering(u, b)' <=> Entering(u, b)
      /\ \A b : InCache(b)' = IF b = a /\ users[e] = 1 THEN {} ELSE InCache(b)
      /\ users[e] = 1 => \A u \in Thread : held'[u][a] = 0 /\ ~Entering(u, a)
      /\ users[e] = 1 => count[e] = 1
      /\ Counted'
  BY <1>1, ExitUses
<1>3. /\ e \in cached /\ InCache(a) = {e} /\ address[e] = a
      /\ owner[e] = t /\ count[e] = held[t][a] /\ held[t][a] > 0
      /\ UNCHANGED <<address, fresh, expanding, stickyCount, addr, mon, ret, saved, timed>>
      /\ \/ users[e] = 1 /\ cached' = cached \ {e} /\ freeEntries' = <<e>> \o freeEntries
         \/ users[e] # 1 /\ UNCHANGED <<cached, freeEntries>>
  BY <1>1 DEF ExitStep
<1>4. /\ users'[e] = users[e] - 1 /\ users[e] \in Nat
      /\ count'[e] = count[e] - 1 /\ count[e] \in Nat
      /\ owner'[e] = IF count[e] = 1 THEN None ELSE t
      /\ \A f \in Entry : f # e =>
           users'[f] = users[f] /\ count'[f] = count[f] /\ owner'[f] = owner[f]
  BY <1>1, <1>3 DEF ExitStep, IInv, IoTypeOK, TypeOK
<1>5. /\ pc'[t] = next /\ \A u \in Thread : u # t => pc'[u] = pc[u]
      /\ \/ pc[t] = "user" /\ a \in Object /\ next = "user"
         \/ pc[t] = "mallocExit" /\ a = MallocLock /\ next = "expand" /\ expanding = t
         \/ pc[t] = "ioExit" /\ a = t /\ next = "ioUnlink"
  BY <1>1 DEF ExitStep, ExitFrom, IInv, IoTypeOK, TypeOK, CacheInv, Calls, Expanders
<1>6. \A u \in Thread : /\ pc'[u] \in Blocking <=> pc[u] \in Blocking
                        /\ pc'[u] \in Blocking \cup {"enter", "mallocEnter"} =>
                             u # t /\ pc'[u] = pc[u]
  BY <1>5 DEF Blocking
<1>7. Calls'
  BY <1>3, <1>5 DEF IInv, CacheInv, Calls, Expanders, Blocking
<1>8. Entries'
  <2>1. cached' \subseteq cached /\ \A f \in Entry \ cached' : f = e => users[e] = 1
    BY <1>3
  <2>2. \A f \in Entry \ cached' : f # e => f \in Entry \ cached
    BY <1>3
  <2> QED BY <1>2, <1>3, <1>4, <2>1, <2>2 DEF IInv, CacheInv, Entries
<1>9. Lists'
  <2>1. CASE users[e] = 1
    <3>1. e \notin ToSet(freeEntries) /\ e \notin ToSet(fresh)
      BY <1>3 DEF IInv, CacheInv, Lists
    <3>2. <<e>> \in Seq(Entry) /\ IsTidy(<<e>>) /\ ToSet(<<e>>) = {e}
      BY ShortLists
    <3>3. freeEntries \in Seq(Entry) /\ IsTidy(freeEntries)
      BY DEF IInv, IoTypeOK, TypeOK, CacheInv, Lists
    <3>4. /\ IsTidy(<<e>> \o freeEntries)
          /\ ToSet(<<e>> \o freeEntries) = {e} \cup ToSet(freeEntries)
      <4> DEFINE one == <<e>>
      <4>1. /\ one \in Seq(Entry) /\ IsTidy(one) /\ ToSet(one) = {e}
            /\ ToSet(one) \cap ToSet(freeEntries) = {}
        BY <3>1, <3>2
      <4> HIDE DEF one
      <4>2. IsTidy(one \o freeEntries) /\ ToSet(one \o freeEntries) = {e} \cup ToSet(freeEntries)
        <5>1. Joins(Entry, one, freeEntries, one \o freeEntries)
          BY <3>3, <4>1, ConcatLemma
        <5> QED BY <4>1, <5>1 DEF Joins
      <4> QED BY <4>2 DEF one
    <3>5. /\ cached' = cached \ {e} /\ e \in cached /\ fresh' = fresh
          /\ freeEntries' = <<e>> \o freeEntries
      BY <1>3, <2>1
    <3>6. IsTidy(freeEntries') /\ ToSet(freeEntries') = {e} \cup ToSet(freeEntries)
      BY <3>4, <3>5
    <3> QED BY <3>1, <3>5, <3>6 DEF IInv, CacheInv, Lists
  <2>2. CASE users[e] # 1
    BY <1>3, <2>2 DEF IInv, CacheInv, Lists
  <2> QED BY <2>1, <2>2
<1>10. ASSUME NEW u \in Thread, NEW b \in Address, held'[u][b] > 0 \/ Entering(u, b)
       PROVE  InCache(b)' = InCache(b)
  BY <1>2, <1>10
<1>11. Serving'
  <2>1. ASSUME NEW u \in Thread, pc'[u] \in {"enter"} \cup Blocking
        PROVE  mon[u] \in InCache(addr[u])'
    <3>1. addr[u] \in Address /\ pc'[u] = pc[u] /\ u # t
      BY <1>6, <2>1, CacheAssumption, IoAssumption
         DEF IInv, CacheInv, Calls, Expanders
    <3>2. held'[u][addr[u]] > 0 \/ Entering(u, addr[u])
      <4>1. CASE pc[u] = "enter"
        BY <4>1 DEF Entering
      <4>2. CASE pc[u] \in Blocking
        <5>1. held[u][addr[u]] > 0
          BY <4>2 DEF IInv, CacheInv, Inside
        <5> QED BY <1>2, <3>1, <5>1
      <4> QED BY <2>1, <3>1, <4>1, <4>2
    <3>3. ~(addr[u] = a /\ users[e] = 1)
      BY <1>2, <3>1, <3>2
    <3>4. InCache(addr[u])' = InCache(addr[u])
      BY <1>3, <3>3 DEF InCache
    <3>5. mon[u] \in InCache(addr[u])
      BY <2>1, <3>1 DEF IInv, CacheInv, Serving
    <3> QED BY <3>4, <3>5
  <2>2. ASSUME NEW u \in Thread, pc'[u] = "mallocEnter" PROVE mon[u] \in InCache(MallocLock)'
    <3>1. pc[u] = "mallocEnter" /\ MallocLock \in Address
      BY <1>6, <2>2, CacheAssumption DEF IInv, CacheInv, Calls
    <3>2. Entering(u, MallocLock)
      BY <3>1 DEF Entering
    <3> QED BY <1>10, <3>1, <3>2 DEF IInv, CacheInv, Serving
  <2> QED BY <1>3, <2>1, <2>2 DEF Serving
<1>12. Inside'
  <2>1. \A f \in Entry : owner'[f] = None <=> count'[f] = 0
    BY <1>3, <1>4, CacheAssumption DEF IInv, CacheInv, Inside
  <2>2. ASSUME NEW f \in cached', owner'[f] # None
        PROVE  held'[owner'[f]][address[f]] = count'[f]
    <3>1. f \in cached /\ f \in Entry /\ address[f] \in Address
      BY <1>3, <2>2 DEF IInv, IoTypeOK, TypeOK, CacheInv, Entries
    <3>2. CASE f = e
      BY <1>2, <1>3, <1>4, <2>2, <3>2
    <3>3. CASE f # e
      <4>1. owner'[f] = owner[f] /\ owner[f] \in Thread /\ address[f] # a
        BY <1>3, <1>4, <2>2, <3>1, <3>3 DEF IInv, IoTypeOK, TypeOK, CacheInv, Entries
      <4> QED BY <1>2, <1>4, <3>1, <3>3, <4>1, CacheAssumption, SMTT(30) DEF IInv, CacheInv, Inside
    <3> QED BY <3>2, <3>3
  <2>3. ASSUME NEW u \in Thread, NEW b \in Address, held'[u][b] > 0,
               ~(pc'[u] \in Blocking /\ addr[u] = b)
        PROVE  \E f \in InCache(b)' : owner'[f] = u
    <3>1. InCache(b)' = InCache(b)
      BY <1>10, <2>3
    <3>2. PICK f \in InCache(b) : owner[f] = u
      BY <1>2, <1>6, <2>3 DEF IInv, CacheInv, Inside
    <3>3. owner'[f] = u
      <4>1. CASE f = e
        <5>1. u = t /\ b = a
          BY <1>3, <3>2, <4>1 DEF InCache
        <5> QED BY <1>2, <1>3, <1>4, <2>3, <4>1, <5>1
      <4>2. CASE f # e
        BY <1>4, <3>2, <4>2 DEF InCache, IInv, IoTypeOK, TypeOK
      <4> QED BY <4>1, <4>2
    <3> QED BY <3>1, <3>2, <3>3
  <2>4. ASSUME NEW u \in Thread, pc'[u] \in Blocking
        PROVE  owner'[mon[u]] # u /\ saved[u] > 0 /\ saved[u] = held'[u][addr[u]]
    <3>1. u # t /\ pc[u] \in Blocking /\ addr[u] \in Address
      BY <1>6, <2>4, CacheAssumption, IoAssumption DEF IInv, CacheInv, Calls
    <3>2. mon[u] \in Entry
      BY <3>1 DEF IInv, CacheInv, Serving, InCache, IoTypeOK, TypeOK
    <3>3. owner[mon[u]] # u /\ saved[u] > 0 /\ saved[u] = held[u][addr[u]]
      BY <3>1 DEF IInv, CacheInv, Inside
    <3>4. owner'[mon[u]] # u
      BY <1>3, <1>4, <3>1, <3>2, <3>3, CacheAssumption
    <3> QED BY <1>2, <3>1, <3>3, <3>4
  <2>5. \A u \in Thread : pc'[u] # "mallocExit"
    <3>1. expanding \in {None, t}
      BY DEF CExit, CanLock
    <3> QED BY <1>5, <3>1, CacheAssumption DEF IInv, CacheInv, Calls, Expanders
  <2>6. \A u, v \in Thread : held'[v][u] > 0 => v = u
    BY <1>2, IoAssumption DEF IInv, CacheInv, Inside
  <2> QED BY <1>3, <2>1, <2>2, <2>3, <2>4, <2>5, <2>6 DEF Inside
<1>13. Making'
  <2> SUFFICES ASSUME expanding = t
               PROVE  /\ \A u \in Thread : Entering(u, addr[t])' => u = t
                      /\ \A u \in Thread : ~(held'[u][addr[t]] > 0)
    BY <1>3, CacheAssumption DEF CExit, CanLock, Making
  <2>1. pc[t] = "mallocExit" /\ a = MallocLock /\ addr[t] \in Address
    BY <1>5, CacheAssumption, IoAssumption DEF IInv, CacheInv, Calls, Expanders
  <2>2. \A u \in Thread : Entering(u, addr[t])' => u = t
    <3>1. \A u \in Thread : Entering(u, addr[t]) => u = t
      BY DEF IInv, CacheInv, Making
    <3> QED BY <1>2, <1>3, <2>1, <3>1 DEF Entering
  <2>3. ASSUME NEW u \in Thread, held'[u][addr[t]] > 0 PROVE FALSE
    <3>1. held[u][addr[t]] > 0
      BY <1>2, <2>1, <2>3
    <3>2. u = t /\ addr[t] = MallocLock /\ held[u][addr[t]] = 1
      BY <3>1 DEF IInv, CacheInv, Making
    <3> QED BY <1>2, <2>1, <2>3, <3>2
  <2> QED BY <2>2, <2>3
<1>14. Polling'
  <2>1. ioq' = ioq /\ pollMon' = pollMon
    OBVIOUS
  <2>2. /\ \A u \in Thread : InIo(u)' => InIo(u) /\ u # t
        /\ \A u \in Thread : u # t => (InIo(u)' <=> InIo(u))
        /\ t \in ioq => pc'[t] = "ioUnlink"
        /\ \A u \in Thread : pc'[u] \in {"ioQueue", "ioWait", "wait"} => u # t
    BY <1>3, <1>5 DEF InIo, Blocking, IInv, CacheInv, Polling
  <2>3. ASSUME NEW u \in Thread, u # t, held[u][u] > 0
        PROVE  held'[u][u] > 0 /\ InCache(u)' = InCache(u)
    <3>1. u \in Address
      BY IoAssumption
    <3> QED BY <1>2, <1>10, <2>3, <3>1
  <2> QED BY <1>3, <1>5, <2>1, <2>2, <2>3 DEF IInv, CacheInv, Polling
<1> QED BY <1>2, <1>7, <1>8, <1>9, <1>11, <1>12, <1>13, <1>14 DEF CacheInv

-----------------------------------------------------------------------------
(* Steps that only move threads on, outside of the cache's own code, or    *)
(* end waits.                                                              *)
Quiet == {"user", "ioQueue", "ioWait", "ioExit", "ioUnlink", "ioRead", "ioGet"}

PlainStep ==
    /\ UNCHANGED <<cacheVars, owner, count, addr, mon, ret, saved, timed, held>>
    /\ \A u \in Thread : \/ pc'[u] = pc[u]
                         \/ pc[u] \in Quiet /\ pc'[u] \in Quiet
                         \/ pc[u] = "wait" /\ pc'[u] = "woken"

LEMMA PlainKeeps ==
    ASSUME IInv, PlainStep
    PROVE  Calls' /\ Entries' /\ Counted' /\ Lists' /\ Serving' /\ Inside' /\ Making'
<1>1. /\ UNCHANGED <<cached, address, users, freeEntries, fresh, expanding>>
      /\ UNCHANGED <<owner, count, addr, mon, ret, saved, timed, held>>
  BY DEF PlainStep
<1>2. \A u \in Thread :
        /\ pc'[u] \in Blocking <=> pc[u] \in Blocking
        /\ \A p \in Expanders \cup {"enter"} : pc'[u] = p <=> pc[u] = p
  BY DEF PlainStep, Quiet, Blocking, Expanders
<1>3. \A b : InCache(b)' = InCache(b)
  BY <1>1 DEF InCache
<1>4. \A u \in Thread, b \in Address : Entering(u, b)' <=> Entering(u, b)
  BY <1>1, <1>2 DEF Entering, Expanders
<1>5. Calls'
  BY <1>1, <1>2 DEF IInv, CacheInv, Calls, Expanders
<1>6. Entries' /\ Lists'
  BY <1>1 DEF IInv, CacheInv, Entries, Lists
<1>7. Counted'
  <2>1. \A u \in Thread, b \in Address : Uses(u, b)' = Uses(u, b)
    BY <1>1, <1>4 DEF Uses
  <2> QED BY <1>1, <2>1, CountedFrame DEF IInv, CacheInv
<1>8. Serving'
  <2>1. \A u \in Thread : InCache(addr[u])' = InCache(addr[u])
    BY <1>1 DEF InCache
  <2>2. \A u \in Thread : /\ pc'[u] \in {"enter"} \cup Blocking => pc[u] \in {"enter"} \cup Blocking
                          /\ pc'[u] = "mallocEnter" => pc[u] = "mallocEnter"
    BY <1>2 DEF Expanders
  <2> QED BY <1>1, <1>3, <2>1, <2>2 DEF IInv, CacheInv, Serving
<1>9. Inside'
  <2>1. \A u \in Thread : pc'[u] = "mallocExit" => pc[u] = "mallocExit"
    BY <1>2 DEF Expanders
  <2>2. \A u \in Thread, b \in Address :
          held[u][b] > 0 /\ ~(pc'[u] \in Blocking /\ addr[u] = b) =>
            \E f \in InCache(b)' : owner[f] = u
    BY <1>2, <1>3 DEF IInv, CacheInv, Inside
  <2>3. \A u \in Thread : pc'[u] \in Blocking =>
          owner[mon[u]] # u /\ saved[u] > 0 /\ saved[u] = held[u][addr[u]]
    BY <1>2 DEF IInv, CacheInv, Inside
  <2> QED BY <1>1, <2>1, <2>2, <2>3 DEF IInv, CacheInv, Inside
<1>10. Making'
  <2>1. ASSUME NEW u \in Thread, expanding = u
        PROVE  /\ \A v \in Thread : Entering(v, addr[u])' => v = u
               /\ \A v \in Thread : held[v][addr[u]] > 0 =>
                    /\ v = u /\ pc'[u] = "mallocExit" /\ addr[u] = MallocLock
                    /\ held[v][addr[u]] = 1
    <3>1. \A v \in Thread : Entering(v, addr[u])' <=> Entering(v, addr[u])
      BY <1>1, <1>2 DEF Entering, Expanders
    <3>2. pc[u] = "mallocExit" => pc'[u] = "mallocExit"
      BY <1>2 DEF Expanders
    <3> QED BY <2>1, <3>1, <3>2 DEF IInv, CacheInv, Making
  <2> QED BY <1>1, <2>1 DEF Making
<1> QED BY <1>5, <1>6, <1>7, <1>8, <1>9, <1>10

(* An exit without an entry: a poll queue that was refused a monitor.      *)
LEMMA ExitKeeps ==
    ASSUME IInv, NEW t \in Thread, NEW a \in Address, NEW next, ExitFrom(t, a, next),
           CExit(t, a, next), UNCHANGED ioVars
    PROVE  CacheInv'
<1>1. CASE held[t][a] > 0
  BY <1>1, ExitKeepsInside
<1>2. ASSUME ~(held[t][a] > 0) PROVE CacheInv'
  <2>1. pc[t] = "ioExit" /\ a = t /\ next = "ioUnlink"
    BY <1>2 DEF ExitFrom, IInv, CacheInv, Inside
  <2>2. InCache(t) = {}
    <3>1. \A u \in Thread : Uses(u, t) = 0
      <4>1. held[t][t] = 0 /\ t \in Address
        BY <1>2, <2>1, IoAssumption DEF IInv, IoTypeOK, TypeOK
      <4>2. ~Entering(t, t)
        BY <2>1 DEF Entering
      <4>3. \A u \in Thread : u # t => held[u][t] = 0 /\ ~Entering(u, t)
        BY OwnAddress
      <4> QED BY <4>1, <4>2, <4>3 DEF Uses
    <3>2. \A u \in Thread : UsesOn(t)[u] = 0
      BY <3>1 DEF UsesOn
    <3>3. Pairs(UsesOn(t)) = {}
      BY <2>1, <3>2, PairsNone, UsesType DEF IInv
    <3>4. ASSUME NEW e \in InCache(t) PROVE FALSE
      BY <2>1, <3>3, <3>4, FS_EmptySet DEF IInv, CacheInv, Counted
    <3> QED BY <3>4
  <2>3. Lookup(a) = {}
    BY <2>1, <2>2 DEF Lookup
  <2>4. /\ UNCHANGED <<cacheVars, owner, count, addr, mon, ret, saved, timed, held>>
        /\ stickyCount' = stickyCount /\ pc' = [pc EXCEPT ![t] = next]
    BY <2>3 DEF CExit
  <2>5. pc'[t] = "ioUnlink" /\ \A u \in Thread : u # t => pc'[u] = pc[u]
    BY <2>1, <2>4 DEF IInv, IoTypeOK, TypeOK
  <2>6. PlainStep
    BY <2>1, <2>4, <2>5 DEF PlainStep, Quiet
  <2>7. Polling'
    <3>1. \A b : InCache(b)' = InCache(b)
      BY <2>4 DEF InCache
    <3>2. /\ \A u \in Thread : u # t => (InIo(u)' <=> InIo(u))
          /\ ~InIo(t)'
      BY <2>4, <2>5 DEF InIo, Blocking
    <3> QED BY <2>1, <2>4, <2>5, <3>1, <3>2 DEF IInv, CacheInv, Polling
  <2> QED BY <2>6, <2>7, PlainKeeps DEF CacheInv
<1> QED BY <1>1, <1>2

-----------------------------------------------------------------------------
(* From where PR_CWait is called.                                          *)
WaitFrom(t, a, next) ==
    \/ pc[t] = "user" /\ a \in Object /\ held[t][a] > 0 /\ next = "user"
    \/ pc[t] = "ioWait" /\ a = t /\ next = "ioExit"

(* It does not wait: there is no entry, or a sticky notify.                *)
LEMMA NoWaitKeeps ==
    ASSUME IInv, NEW t \in Thread, NEW a \in Address, NEW next, WaitFrom(t, a, next),
           UNCHANGED <<cacheVars, owner, count, addr, mon, ret, saved, timed, held, ioVars>>,
           pc' = [pc EXCEPT ![t] = next],
           \/ stickyCount' = stickyCount
           \/ \E e \in InCache(a) : stickyCount' = [stickyCount EXCEPT ![e] = @ - 1]
    PROVE  CacheInv'
<1>1. /\ pc'[t] = next /\ \A u \in Thread : u # t => pc'[u] = pc[u]
      /\ \/ pc[t] = "user" /\ a \in Object /\ next = "user"
         \/ pc[t] = "ioWait" /\ a = t /\ next = "ioExit"
  BY DEF WaitFrom, IInv, IoTypeOK, TypeOK
<1>2. PlainStep
  BY <1>1 DEF PlainStep, Quiet
<1>3. Polling'
  <2>1. ioq' = ioq /\ pollMon' = pollMon /\ held' = held /\ mon' = mon /\ ret' = ret
    OBVIOUS
  <2>2. \A b : InCache(b)' = InCache(b)
    BY DEF InCache
  <2>3. \A u \in Thread : /\ InIo(u)' <=> InIo(u)
                          /\ pc'[u] \in {"ioUnlink", "ioQueue", "ioWait", "wait"} =>
                               u # t /\ pc'[u] = pc[u]
                          /\ pc'[u] = "ioUnlink" <=> pc[u] = "ioUnlink"
    BY <1>1, <2>1 DEF InIo, Blocking
  <2>4. ASSUME NEW u \in Thread, u # t, pollMon[u] \in InCache(u), stickyCount[pollMon[u]] > 0
        PROVE  stickyCount'[pollMon[u]] > 0
    <3>1. CASE stickyCount' = stickyCount
      BY <2>4, <3>1
    <3>2. ASSUME NEW e \in InCache(a), stickyCount' = [stickyCount EXCEPT ![e] = @ - 1]
          PROVE  stickyCount'[pollMon[u]] > 0
      <4>1. u # a
        BY <1>1, <2>4, IoAssumption
      <4>2. pollMon[u] # e /\ pollMon[u] \in Entry
        BY <2>4, <4>1 DEF InCache, IInv, IoTypeOK, TypeOK
      <4> QED BY <2>4, <3>2, <4>2 DEF IInv, IoTypeOK, TypeOK
    <3> QED BY <3>1, <3>2
  <2>5. ASSUME NEW u \in Thread, pc'[u] = "ioWait", u \notin ioq
        PROVE  pollMon[u] # None /\ stickyCount'[pollMon[u]] > 0
    <3>1. u # t /\ pc[u] = "ioWait"
      BY <2>3, <2>5
    <3>2. pollMon[u] # None /\ stickyCount[pollMon[u]] > 0 /\ pollMon[u] \in InCache(u)
      BY <2>5, <3>1 DEF IInv, CacheInv, Polling, InIo
    <3> QED BY <2>4, <3>1, <3>2
  <2>6. \A u \in Thread :
          /\ u \in ioq => InIo(u) \/ pc[u] = "ioUnlink"
          /\ pc[u] = "ioQueue" /\ mon[u] # None => mon[u] \in InCache(u) /\ held[u][u] > 0
          /\ InIo(u) /\ pollMon[u] # None => pollMon[u] \in InCache(u) /\ held[u][u] > 0
          /\ pc[u] = "wait" /\ ret[u] = "ioExit" => u \in ioq
    BY DEF IInv, CacheInv, Polling
  <2> QED BY <2>1, <2>2, <2>3, <2>5, <2>6 DEF Polling
<1> QED BY <1>2, <1>3, PlainKeeps DEF CacheInv

(* It waits: it leaves the monitor, though not for good.                   *)
LEMMA WaitKeeps ==
    ASSUME IInv, NEW t \in Thread, NEW a \in Address, NEW next, WaitFrom(t, a, next),
           expanding \in {None, t},
           NEW e \in InCache(a), stickyCount[e] = 0, owner[e] = t,
           owner' = [owner EXCEPT ![e] = None], count' = [count EXCEPT ![e] = 0],
           saved' = [saved EXCEPT ![t] = count[e]], addr' = [addr EXCEPT ![t] = a],
           mon' = [mon EXCEPT ![t] = e], ret' = [ret EXCEPT ![t] = next],
           pc' = [pc EXCEPT ![t] = "wait"],
           UNCHANGED <<cacheVars, held, stickyCount, ioVars>>
    PROVE  CacheInv'
<1>1. /\ pc'[t] = "wait" /\ addr'[t] = a /\ mon'[t] = e /\ ret'[t] = next
      /\ saved'[t] = count[e]
      /\ \A u \in Thread : u # t => /\ pc'[u] = pc[u] /\ addr'[u] = addr[u] /\ mon'[u] = mon[u]
                                    /\ ret'[u] = ret[u] /\ saved'[u] = saved[u]
  BY DEF IInv, IoTypeOK, TypeOK
<1>2. \/ pc[t] = "user" /\ a \in Object /\ held[t][a] > 0 /\ next = "user"
      \/ pc[t] = "ioWait" /\ a = t /\ next = "ioExit"
  BY DEF WaitFrom
<1>3. expanding = None /\ expanding' = None
  BY <1>2 DEF IInv, CacheInv, Calls, Expanders
<1>4. e \in cached /\ e \in Entry /\ address[e] = a /\ InCache(a) = {e}
  BY OneEntry DEF IInv, CacheInv, IoTypeOK, TypeOK
<1>5. /\ owner'[e] = None /\ count'[e] = 0
      /\ \A f \in Entry : f # e => owner'[f] = owner[f] /\ count'[f] = count[f]
  BY <1>4 DEF IInv, IoTypeOK, TypeOK
<1>6. count[e] = held[t][a] /\ held[t][a] > 0
  <2>1. count[e] = held[t][a] /\ count[e] # 0 /\ held[t][a] \in Nat
    BY <1>4, CacheAssumption DEF IInv, IoTypeOK, TypeOK, CacheInv, Inside
  <2> QED BY <2>1
<1>7. \A b : InCache(b)' = InCache(b)
  BY DEF InCache
<1>8. Calls'
  BY <1>1, <1>2, <1>3, CacheAssumption DEF IInv, CacheInv, Calls, Expanders, Blocking
<1>9. Entries' /\ Lists'
  BY <1>4, <1>5 DEF IInv, CacheInv, Entries, Lists
<1>10. Counted'
  <2>1. \A u \in Thread, b \in Address : Entering(u, b)' <=> Entering(u, b)
    BY <1>1, <1>2 DEF Entering
  <2>2. \A u \in Thread, b \in Address : Uses(u, b)' = Uses(u, b)
    BY <2>1 DEF Uses
  <2> QED BY <2>2, CountedFrame DEF IInv, CacheInv
<1>11. Serving'
  <2>1. ASSUME NEW u \in Thread, u # t
        PROVE  /\ pc'[u] \in {"enter"} \cup Blocking => mon'[u] \in InCache(addr[u])'
               /\ pc'[u] = "mallocEnter" => mon'[u] \in InCache(MallocLock)'
    <3>1. InCache(addr[u])' = InCache(addr[u])
      BY <1>1, <2>1 DEF InCache
    <3> QED BY <1>1, <1>7, <2>1, <3>1 DEF IInv, CacheInv, Serving
  <2>2. InCache(addr[t])' = {e}
    BY <1>1, <1>4 DEF InCache
  <2> QED BY <1>1, <2>1, <2>2 DEF Serving
<1>12. Inside'
  <2>1. \A f \in Entry : owner'[f] = None <=> count'[f] = 0
    BY <1>5 DEF IInv, CacheInv, Inside
  <2>2. \A f \in cached : owner'[f] # None => held[owner'[f]][address[f]] = count'[f]
    <3>1. \A f \in cached : f \in Entry
      BY DEF IInv, IoTypeOK, TypeOK
    <3> QED BY <1>5, <3>1 DEF IInv, CacheInv, Inside
  <2>3. ASSUME NEW u \in Thread, NEW b \in Address, held[u][b] > 0,
               ~(pc'[u] \in Blocking /\ addr'[u] = b)
        PROVE  \E f \in InCache(b) : owner'[f] = u
    <3>1. u = t => b # a /\ pc[t] \notin Blocking
      BY <1>1, <1>2, <2>3 DEF Blocking
    <3>2. ~(pc[u] \in Blocking /\ addr[u] = b)
      BY <1>1, <2>3, <3>1
    <3>3. PICK f \in InCache(b) : owner[f] = u
      BY <2>3, <3>2 DEF IInv, CacheInv, Inside
    <3>4. f # e /\ f \in Entry
      BY <1>4, <3>1, <3>3 DEF InCache, IInv, IoTypeOK, TypeOK
    <3> QED BY <1>5, <3>3, <3>4
  <2>4. ASSUME NEW u \in Thread, pc'[u] \in Blocking
        PROVE  owner'[mon'[u]] # u /\ saved'[u] > 0 /\ saved'[u] = held[u][addr'[u]]
    <3>1. CASE u = t
      BY <1>1, <1>5, <1>6, <3>1, CacheAssumption
    <3>2. CASE u # t
      <4>1. pc[u] \in Blocking
        BY <1>1, <2>4, <3>2
      <4>2. mon[u] \in Entry /\ owner[mon[u]] # u /\ saved[u] > 0 /\ saved[u] = held[u][addr[u]]
        BY <4>1 DEF IInv, CacheInv, Serving, Inside, InCache, IoTypeOK, TypeOK
      <4> QED BY <1>1, <1>5, <3>2, <4>2, CacheAssumption
    <3> QED BY <3>1, <3>2
  <2>5. \A u \in Thread : pc'[u] # "mallocExit"
    BY <1>1, <1>3, CacheAssumption DEF IInv, CacheInv, Calls, Expanders
  <2>6. \A u, v \in Thread : held[v][u] > 0 => v = u
    BY DEF IInv, CacheInv, Inside
  <2> QED BY <1>7, <2>1, <2>2, <2>3, <2>4, <2>5, <2>6 DEF Inside
<1>13. Making'
  BY <1>3, CacheAssumption DEF Making
<1>14. Polling'
  <2>1. ioq' = ioq /\ pollMon' = pollMon /\ held' = held /\ stickyCount' = stickyCount
    OBVIOUS
  <2>2. \A u \in Thread : u # t => (InIo(u)' <=> InIo(u))
    BY <1>1 DEF InIo
  <2>3. InIo(t)' <=> InIo(t)
    BY <1>1, <1>2 DEF InIo, Blocking
  <2>4. next = "ioExit" => t \in ioq
    <3> SUFFICES ASSUME next = "ioExit", t \notin ioq PROVE FALSE
      OBVIOUS
    <3>1. pc[t] = "ioWait" /\ a = t
      BY <1>2
    <3>2. pollMon[t] # None /\ stickyCount[pollMon[t]] > 0 /\ pollMon[t] \in InCache(t)
      BY <3>1 DEF IInv, CacheInv, Polling, InIo
    <3> QED BY <1>4, <3>1, <3>2
  <2>5. pc[t] # "ioUnlink"
    BY <1>2
  <2> QED BY <1>1, <1>7, <2>1, <2>2, <2>3, <2>4, <2>5 DEF IInv, CacheInv, Polling
<1> QED BY <1>8, <1>9, <1>10, <1>11, <1>12, <1>13, <1>14 DEF CacheInv

LEMMA CWaitKeeps ==
    ASSUME IInv, NEW t \in Thread, NEW a \in Address, NEW hasTimeout, NEW next,
           WaitFrom(t, a, next), CWait(t, a, hasTimeout, next), UNCHANGED ioVars
    PROVE  CacheInv'
<1>1. expanding \in {None, t} /\ UNCHANGED <<cacheVars, held>>
  BY DEF CWait, CanLock
<1>2. ASSUME NEW e \in Lookup(a), stickyCount' = [stickyCount EXCEPT ![e] = @ - 1],
             pc' = [pc EXCEPT ![t] = next],
             UNCHANGED <<owner, count, addr, mon, ret, saved, timed>>
      PROVE  CacheInv'
  <2>1. e \in InCache(a)
    BY DEF Lookup
  <2> QED BY <1>1, <1>2, <2>1, NoWaitKeeps
<1>3. ASSUME NEW e \in Lookup(a), stickyCount[e] = 0, owner[e] = t,
             owner' = [owner EXCEPT ![e] = None], count' = [count EXCEPT ![e] = 0],
             saved' = [saved EXCEPT ![t] = count[e]], addr' = [addr EXCEPT ![t] = a],
             mon' = [mon EXCEPT ![t] = e], ret' = [ret EXCEPT ![t] = next],
             pc' = [pc EXCEPT ![t] = "wait"], UNCHANGED stickyCount
      PROVE  CacheInv'
  <2>1. e \in InCache(a)
    BY DEF Lookup
  <2> QED BY <1>1, <1>3, <2>1, WaitKeeps
<1>4. ASSUME pc' = [pc EXCEPT ![t] = next],
             UNCHANGED <<owner, count, stickyCount, addr, mon, ret, saved, timed>>
      PROVE  CacheInv'
  BY <1>1, <1>4, NoWaitKeeps
<1> QED BY <1>2, <1>3, <1>4 DEF CWait

-----------------------------------------------------------------------------
(* A wait ends with the monitor, entered as often as before.               *)
LEMMA ReturnKeeps ==
    ASSUME IInv, NEW t \in Thread, Return(t), UNCHANGED ioVars
    PROVE  CacheInv'
<1> DEFINE e == mon[t]
           a == addr[t]
<1>1. /\ pc[t] = "woken" /\ owner[e] = None
      /\ owner' = [owner EXCEPT ![e] = t] /\ count' = [count EXCEPT ![e] = saved[t]]
      /\ pc' = [pc EXCEPT ![t] = ret[t]]
      /\ UNCHANGED <<cached, address, users, freeEntries, fresh, expanding>>
      /\ UNCHANGED <<stickyCount, addr, mon, ret, saved, timed, held>>
  BY DEF Return
<1>2. /\ pc'[t] = ret[t] /\ \A u \in Thread : u # t => pc'[u] = pc[u]
      /\ \/ ret[t] = "user" /\ a \in Object
         \/ ret[t] = "ioExit" /\ a = t
  BY <1>1 DEF IInv, IoTypeOK, TypeOK, CacheInv, Calls, Blocking
<1>3. a \in Address /\ e \in InCache(a) /\ saved[t] > 0 /\ saved[t] = held[t][a]
  BY <1>1, <1>2, CacheAssumption, IoAssumption DEF IInv, CacheInv, Serving, Inside, Blocking
<1> HIDE DEF a, e
<1>4. e \in cached /\ e \in Entry /\ address[e] = a /\ InCache(a) = {e}
  BY <1>3, OneEntry DEF IInv, CacheInv, IoTypeOK, TypeOK
<1>5. /\ owner'[e] = t /\ count'[e] = saved[t]
      /\ \A f \in Entry : f # e => owner'[f] = owner[f] /\ count'[f] = count[f]
  BY <1>1, <1>4 DEF IInv, IoTypeOK, TypeOK
<1>6. \A b : InCache(b)' = InCache(b)
  BY <1>1 DEF InCache
<1>7. Calls'
  BY <1>1, <1>2 DEF IInv, CacheInv, Calls, Expanders, Blocking
<1>8. Entries' /\ Lists'
  BY <1>1, <1>4, <1>5 DEF IInv, CacheInv, Entries, Lists
<1>9. \A u \in Thread, b \in Address : Entering(u, b)' <=> Entering(u, b)
  BY <1>1, <1>2 DEF Entering
<1>10. Counted'
  <2>1. \A u \in Thread, b \in Address : Uses(u, b)' = Uses(u, b)
    BY <1>1, <1>9 DEF Uses
  <2> QED BY <1>1, <2>1, CountedFrame DEF IInv, CacheInv
<1>11. Serving'
  <2>1. \A u \in Thread : InCache(addr[u])' = InCache(addr[u])
    BY <1>1 DEF InCache
  <2>2. \A u \in Thread : pc'[u] \in {"enter", "mallocEnter"} \cup Blocking => pc[u] = pc'[u]
    BY <1>2 DEF Blocking
  <2> QED BY <1>1, <1>6, <2>1, <2>2 DEF IInv, CacheInv, Serving
<1>12. Inside'
  <2>1. \A f \in Entry : owner'[f] = None <=> count'[f] = 0
    BY <1>3, <1>5, CacheAssumption DEF IInv, CacheInv, Inside
  <2>2. \A f \in cached : owner'[f] # None => held[owner'[f]][address[f]] = count'[f]
    <3>1. \A f \in cached : f \in Entry
      BY DEF IInv, IoTypeOK, TypeOK
    <3> QED BY <1>3, <1>4, <1>5, <3>1 DEF IInv, CacheInv, Inside
  <2>3. ASSUME NEW u \in Thread, NEW b \in Address, held[u][b] > 0,
               ~(pc'[u] \in Blocking /\ addr[u] = b)
        PROVE  \E f \in InCache(b) : owner'[f] = u
    <3>1. CASE u = t /\ b = a
      BY <1>3, <1>5, <3>1
    <3>2. CASE ~(u = t /\ b = a)
      <4>1. ~(pc[u] \in Blocking /\ addr[u] = b)
        BY <1>2, <2>3, <3>2 DEF a
      <4>2. PICK f \in InCache(b) : owner[f] = u
        BY <2>3, <4>1 DEF IInv, CacheInv, Inside
      <4>3. f # e /\ f \in Entry
        BY <1>1, <4>2, CacheAssumption DEF InCache, IInv, IoTypeOK, TypeOK
      <4> QED BY <1>5, <4>2, <4>3
    <3> QED BY <3>1, <3>2
  <2>4. ASSUME NEW u \in Thread, pc'[u] \in Blocking
        PROVE  owner'[mon[u]] # u /\ saved[u] > 0 /\ saved[u] = held[u][addr[u]]
    <3>1. u # t /\ pc[u] \in Blocking
      BY <1>2, <2>4 DEF Blocking
    <3>2. mon[u] \in Entry /\ owner[mon[u]] # u /\ saved[u] > 0 /\ saved[u] = held[u][addr[u]]
      BY <3>1 DEF IInv, CacheInv, Serving, Inside, InCache, IoTypeOK, TypeOK
    <3> QED BY <1>5, <3>1, <3>2
  <2>5. \A u \in Thread : pc'[u] = "mallocExit" => pc[u] = "mallocExit"
    BY <1>2
  <2> QED BY <1>1, <1>6, <2>1, <2>2, <2>3, <2>4, <2>5 DEF IInv, CacheInv, Inside
<1>13. Making'
  <2>1. \A u \in Thread : expanding = u => u # t
    BY <1>1 DEF IInv, CacheInv, Calls, Expanders
  <2>2. ASSUME NEW u \in Thread, NEW v \in Thread PROVE Entering(v, addr[u])' <=> Entering(v, addr[u])
    BY <1>1, <1>2 DEF Entering
  <2> QED BY <1>1, <1>2, <2>1, <2>2 DEF IInv, CacheInv, Making
<1>14. Polling'
  <2>1. ioq' = ioq /\ pollMon' = pollMon
    OBVIOUS
  <2>2. /\ \A u \in Thread : InIo(u)' <=> InIo(u)
        /\ pc'[t] \in {"user", "ioExit"}
    BY <1>1, <1>2 DEF InIo, Blocking
  <2> QED BY <1>1, <1>2, <1>6, <2>1, <2>2 DEF IInv, CacheInv, Polling
<1> QED BY <1>7, <1>8, <1>10, <1>11, <1>12, <1>13, <1>14 DEF CacheInv
-----------------------------------------------------------------------------
(* Threads are told to end their waits, or nothing happens to them.        *)
LEMMA SignalKeeps ==
    ASSUME IInv, UNCHANGED <<cacheVars, monitorVars, addr, mon, ret, saved, timed, held>>,
           UNCHANGED <<ioq, pollMon>>,
           \A u \in Thread : pc'[u] = pc[u] \/ (pc[u] = "wait" /\ pc'[u] = "woken")
    PROVE  CacheInv'
<1>1. PlainStep
  BY DEF PlainStep
<1>2. Polling'
  <2>1. \A b : InCache(b)' = InCache(b)
    BY DEF InCache
  <2>2. \A u \in Thread : /\ InIo(u)' <=> InIo(u)
                          /\ pc'[u] \in {"ioUnlink", "ioQueue", "ioWait", "wait"} => pc[u] = pc'[u]
                          /\ pc[u] = "ioUnlink" => pc'[u] = "ioUnlink"
    BY DEF InIo, Blocking
  <2> QED BY <2>1, <2>2 DEF IInv, CacheInv, Polling
<1> QED BY <1>1, <1>2, PlainKeeps DEF CacheInv

(* A thread goes on in the loop of _PR_ReadFile.                           *)
LEMMA ReadKeeps ==
    ASSUME IInv, NEW t \in Thread, Read(t)
    PROVE  CacheInv'
<1>1. /\ pc[t] \in {"ioRead", "user"} /\ UNCHANGED <<ioq, pollMon>>
      /\ \/ pc' = [pc EXCEPT ![t] = "user"]
         \/ pc' = [pc EXCEPT ![t] = "ioGet"]
      /\ UNCHANGED <<cacheVars, monitorVars, addr, mon, ret, saved, timed, held>>
  BY DEF Read, GoTo
<1>2. pc'[t] \in {"user", "ioGet"} /\ \A u \in Thread : u # t => pc'[u] = pc[u]
  BY <1>1 DEF IInv, IoTypeOK, TypeOK
<1>3. PlainStep
  BY <1>1, <1>2 DEF PlainStep, Quiet
<1>4. Polling'
  <2>1. \A b : InCache(b)' = InCache(b)
    BY <1>1 DEF InCache
  <2>2. \A u \in Thread : /\ InIo(u)' <=> InIo(u)
                          /\ pc'[u] \in {"ioUnlink", "ioQueue", "ioWait", "wait"} => pc[u] = pc'[u]
                          /\ pc[u] = "ioUnlink" => pc'[u] = "ioUnlink"
    BY <1>1, <1>2 DEF InIo, Blocking
  <2> QED BY <1>1, <2>1, <2>2 DEF IInv, CacheInv, Polling
<1> QED BY <1>3, <1>4, PlainKeeps DEF CacheInv

(* It links and unlinks its poll queue.                                    *)
LEMMA IoQueueKeeps ==
    ASSUME IInv, NEW t \in Thread, IoQueue(t)
    PROVE  CacheInv'
<1>1. /\ pc[t] = "ioQueue" /\ ioq' = ioq \cup {t}
      /\ pollMon' = [pollMon EXCEPT ![t] = mon[t]] /\ pc' = [pc EXCEPT ![t] = "ioWait"]
      /\ UNCHANGED <<cacheVars, monitorVars, addr, mon, ret, saved, timed, held>>
  BY DEF IoQueue, GoTo
<1>2. /\ pc'[t] = "ioWait" /\ pollMon'[t] = mon[t]
      /\ \A u \in Thread : u # t => pc'[u] = pc[u] /\ pollMon'[u] = pollMon[u]
  BY <1>1 DEF IInv, IoTypeOK, TypeOK
<1>3. PlainStep
  BY <1>1, <1>2 DEF PlainStep, Quiet
<1>4. Polling'
  <2>1. \A b : InCache(b)' = InCache(b)
    BY <1>1 DEF InCache
  <2>2. \A u \in Thread : u # t => (InIo(u)' <=> InIo(u))
    BY <1>1, <1>2 DEF InIo
  <2>3. InIo(t)'
    BY <1>2 DEF InIo
  <2> QED BY <1>1, <1>2, <2>1, <2>2, <2>3 DEF IInv, CacheInv, Polling
<1> QED BY <1>3, <1>4, PlainKeeps DEF CacheInv

LEMMA IoUnlinkKeeps ==
    ASSUME IInv, NEW t \in Thread, IoUnlink(t)
    PROVE  CacheInv'
<1>1. /\ pc[t] = "ioUnlink" /\ ioq' = ioq \ {t}
      /\ pollMon' = [pollMon EXCEPT ![t] = None] /\ pc' = [pc EXCEPT ![t] = "ioRead"]
      /\ UNCHANGED <<cacheVars, monitorVars, addr, mon, ret, saved, timed, held>>
  BY DEF IoUnlink, OffIoq, ReadAgain, GoTo
<1>2. /\ pc'[t] = "ioRead"
      /\ \A u \in Thread : u # t => pc'[u] = pc[u] /\ pollMon'[u] = pollMon[u]
  BY <1>1 DEF IInv, IoTypeOK, TypeOK
<1>3. PlainStep
  BY <1>1, <1>2 DEF PlainStep, Quiet
<1>4. Polling'
  <2>1. \A b : InCache(b)' = InCache(b)
    BY <1>1 DEF InCache
  <2>2. /\ \A u \in Thread : u # t => (InIo(u)' <=> InIo(u))
        /\ ~InIo(t)'
    BY <1>1, <1>2 DEF InIo, Blocking
  <2> QED BY <1>1, <1>2, <2>1, <2>2 DEF IInv, CacheInv, Polling
<1> QED BY <1>3, <1>4, PlainKeeps DEF CacheInv


(* The poll notifies the thread it took off the list, with its own entry,  *)
(* unless the thread had done with waiting.                                *)
LEMMA PollKeeps ==
    ASSUME IInv, NEW t \in Thread, Poll(t)
    PROVE  CacheInv'
<1> DEFINE e == pollMon[t]
<1>1. /\ t \in ioq /\ e # None /\ ioq' = ioq \ {t} /\ pollMon' = pollMon
      /\ UNCHANGED <<cacheVars, owner, count, addr, mon, ret, saved, timed, held>>
      /\ StickyNotify(e)
  BY DEF Poll
<1>2. e \in Entry
  BY <1>1 DEF IInv, IoTypeOK
<1> HIDE DEF e
<1>3. \/ /\ Waiters(e) = {} /\ pc' = pc /\ stickyCount' = [stickyCount EXCEPT ![e] = @ + 1]
      \/ /\ stickyCount' = stickyCount
         /\ \E u \in Waiters(e) : pc' = [v \in Thread |-> IF v \in {u} THEN "woken" ELSE pc[v]]
  BY <1>1 DEF StickyNotify, Wake
<1>4. \A u \in Thread : pc'[u] = pc[u] \/ (pc[u] = "wait" /\ mon[u] = e /\ pc'[u] = "woken")
  BY <1>3 DEF Waiters
<1>5. PlainStep
  BY <1>1, <1>4 DEF PlainStep
<1>6. \A f \in Entry : stickyCount[f] > 0 => stickyCount'[f] > 0
  <2>1. stickyCount' = stickyCount \/ stickyCount' = [stickyCount EXCEPT ![e] = @ + 1]
    BY <1>3
  <2>2. stickyCount \in [Entry -> Nat]
    BY DEF IInv, IoTypeOK, TypeOK
  <2> QED BY <1>2, <2>1, <2>2
<1>7. \A b : InCache(b)' = InCache(b)
  BY <1>1 DEF InCache
<1>8. \A u \in Thread : /\ InIo(u)' <=> InIo(u)
                        /\ pc'[u] \in {"ioUnlink", "ioQueue", "ioWait", "wait"} => pc[u] = pc'[u]
                        /\ pc[u] = "ioUnlink" => pc'[u] = "ioUnlink"
  BY <1>1, <1>4 DEF InIo, Blocking
<1>9. InIo(t) => e \in InCache(t)
  BY <1>1 DEF e, IInv, CacheInv, Polling
<1>10. pc[t] = "ioWait" => stickyCount'[e] > 0
  <2> SUFFICES ASSUME pc[t] = "ioWait" PROVE stickyCount'[e] > 0
    OBVIOUS
  <2>1. e \in InCache(t)
    BY <1>9 DEF InIo
  <2>2. Waiters(e) = {}
    <3> SUFFICES ASSUME NEW u \in Waiters(e) PROVE FALSE
      OBVIOUS
    <3>1. u \in Thread /\ pc[u] = "wait" /\ mon[u] = e
      BY DEF Waiters
    <3>2. e \in InCache(addr[u])
      BY <3>1 DEF Blocking, IInv, CacheInv, Serving
    <3>3. addr[u] = t
      BY <2>1, <3>2 DEF InCache
    <3> QED BY <3>1, <3>3, OwnAddress DEF Blocking
  <2> QED BY <1>2, <1>3, <2>2 DEF IInv, IoTypeOK, TypeOK
<1>11. pc'[t] = "wait" => ret[t] # "ioExit"
  <2> SUFFICES ASSUME pc'[t] = "wait", ret[t] = "ioExit" PROVE FALSE
    OBVIOUS
  <2>1. pc[t] = "wait" /\ InIo(t)
    BY <1>8 DEF InIo, Blocking
  <2>2. addr[t] = t
    BY <2>1, CacheAssumption DEF Blocking, IInv, CacheInv, Calls
  <2>3. mon[t] \in InCache(t)
    BY <2>1, <2>2 DEF Blocking, IInv, CacheInv, Serving
  <2>4. mon[t] = e
    BY <1>9, <2>1, <2>3, OneEntry DEF IInv, CacheInv
  <2>5. t \in Waiters(e)
    BY <2>1, <2>4 DEF Waiters
  <2>6. PICK u \in Waiters(e) : pc' = [v \in Thread |-> IF v \in {u} THEN "woken" ELSE pc[v]]
    BY <1>3, <2>5
  <2>7. u # t
    BY <2>6
  <2>8. e \in InCache(addr[u])
    BY DEF Waiters, Blocking, IInv, CacheInv, Serving
  <2>9. addr[u] = t
    BY <1>9, <2>1, <2>8 DEF InCache
  <2> QED BY <2>7, <2>9, OwnAddress DEF Waiters, Blocking
<1>12. Polling'
  <2>1. ASSUME NEW u \in Thread, pc'[u] = "ioWait", u \notin ioq'
        PROVE  pollMon[u] # None /\ stickyCount'[pollMon[u]] > 0
    <3>1. CASE u = t
      BY <1>1, <1>8, <1>10, <2>1, <3>1 DEF e
    <3>2. CASE u # t
      <4>1. /\ pollMon[u] # None /\ stickyCount[pollMon[u]] > 0
            /\ pollMon[u] \in Entry
        BY <1>1, <1>8, <2>1, <3>2 DEF IInv, IoTypeOK, CacheInv, Polling
      <4> QED BY <1>6, <4>1
    <3> QED BY <3>1, <3>2
  <2>2. \A u \in Thread : pc'[u] = "wait" /\ ret[u] = "ioExit" => u \in ioq'
    BY <1>1, <1>8, <1>11 DEF IInv, CacheInv, Polling
  <2>3. \A u \in Thread :
          /\ u \in ioq' => InIo(u) \/ pc[u] = "ioUnlink"
          /\ pc[u] = "ioQueue" /\ mon[u] # None => mon[u] \in InCache(u) /\ held[u][u] > 0
          /\ InIo(u) /\ pollMon[u] # None => pollMon[u] \in InCache(u) /\ held[u][u] > 0
    BY <1>1 DEF IInv, CacheInv, Polling
  <2>4. mon' = mon /\ ret' = ret /\ held' = held /\ pollMon' = pollMon
    BY <1>1
  <2> QED BY <1>7, <1>8, <2>1, <2>2, <2>3, <2>4 DEF Polling
<1> QED BY <1>5, <1>12, PlainKeeps DEF CacheInv
-----------------------------------------------------------------------------
(* Every step of the system keeps the invariant.                           *)
LEMMA CacheInvKept ==
    ASSUME IInv, IoNext
    PROVE  CacheInv'
<1>1. ASSUME NEW t \in Thread, ClientCall(t), UNCHANGED ioVars PROVE CacheInv'
  <2>1. pc[t] = "user" /\ \A a \in Object : a \in Address
    BY <1>1, CacheAssumption DEF ClientCall
  <2>2. ASSUME NEW a \in Object, CEnter(t, a, "user") PROVE CacheInv'
    BY <1>1, <2>1, <2>2, CEnterKeeps DEF EnterFrom
  <2>3. ASSUME NEW a \in Object, held[t][a] > 0, CExit(t, a, "user") PROVE CacheInv'
    BY <1>1, <2>1, <2>3, ExitKeeps DEF ExitFrom
  <2>4. ASSUME NEW a \in Object, held[t][a] > 0, NEW hasTimeout \in BOOLEAN,
               CWait(t, a, hasTimeout, "user")
        PROVE  CacheInv'
    BY <1>1, <2>1, <2>4, CWaitKeeps DEF WaitFrom
  <2>5. ASSUME NEW a \in Object, NEW how, CNotify(t, a, how) PROVE CacheInv'
    <3>1. /\ UNCHANGED <<cacheVars, monitorVars, addr, mon, ret, saved, timed, held>>
          /\ \E T : T \subseteq {u \in Thread : pc[u] = "wait"} /\ Wake(T)
      BY <2>5 DEF CNotify, Waiters
    <3>2. \A u \in Thread : pc'[u] = pc[u] \/ (pc[u] = "wait" /\ pc'[u] = "woken")
      BY <3>1 DEF Wake
    <3> QED BY <1>1, <3>1, <3>2, SignalKeeps
  <2> QED BY <1>1, <2>2, <2>3, <2>4, <2>5 DEF ClientCall
<1>2. ASSUME NEW t \in Thread, CacheStep(t), UNCHANGED ioVars PROVE CacheInv'
  <2>1. ASSUME Free(t) PROVE CacheInv'
    <3>1. pc[t] = "mallocExit" /\ MallocLock \in Address /\ CExit(t, MallocLock, "expand")
      BY <2>1, CacheAssumption DEF Free, IInv, CacheInv, Calls
    <3> QED BY <1>2, <3>1, ExitKeeps DEF ExitFrom
  <2> QED BY <1>2, <2>1, MallocKeeps, ExpandKeeps, EnterKeeps, ReturnKeeps DEF CacheStep
<1>3. ASSUME NEW t \in Thread, TimedOut(t), UNCHANGED ioVars PROVE CacheInv'
  <2>1. \A u \in Thread : pc'[u] = pc[u] \/ (pc[u] = "wait" /\ pc'[u] = "woken")
    BY <1>3 DEF TimedOut, Wake
  <2> QED BY <1>3, <2>1, SignalKeeps DEF TimedOut
<1>4. ASSUME NEW t \in Thread, IoStep(t) PROVE CacheInv'
  <2>1. t \in Address
    BY IoAssumption
  <2>2. ASSUME IoGet(t) PROVE CacheInv'
    BY <2>1, <2>2, CEnterKeeps DEF IoGet, EnterFrom
  <2>3. ASSUME IoWaitOn(t) PROVE CacheInv'
    BY <2>1, <2>3, CWaitKeeps DEF IoWaitOn, WaitFrom
  <2>4. ASSUME IoExit(t) PROVE CacheInv'
    BY <2>1, <2>4, ExitKeeps DEF IoExit, ExitFrom
  <2> QED BY <1>4, <2>2, <2>3, <2>4, ReadKeeps, IoQueueKeeps, IoUnlinkKeeps DEF IoStep
<1>5. ASSUME NEW t \in Thread, SetPendingException(t) PROVE CacheInv'
  <2>1. pc' = pc \/ (pc[t] = "wait" /\ Wake({t}))
    BY <1>5 DEF SetPendingException
  <2>2. \A u \in Thread : pc'[u] = pc[u] \/ (pc[u] = "wait" /\ pc'[u] = "woken")
    BY <2>1 DEF Wake
  <2> QED BY <1>5, <2>2, SignalKeeps DEF SetPendingException
<1>6. ASSUME NEW t \in Thread, DataArrives(t) \/ ClearPendingException(t) PROVE CacheInv'
  <2>1. UNCHANGED vars /\ UNCHANGED <<ioq, pollMon>>
    BY <1>6 DEF DataArrives, ClearPendingException
  <2>2. /\ UNCHANGED <<cacheVars, monitorVars, addr, mon, ret, saved, timed, held>>
        /\ \A u \in Thread : pc'[u] = pc[u]
    BY <2>1 DEF vars
  <2> QED BY <2>1, <2>2, SignalKeeps
<1> QED BY <1>1, <1>2, <1>3, <1>4, <1>5, <1>6, ReadKeeps, PollKeeps DEF IoNext

-----------------------------------------------------------------------------
(* The types: a counter that is counted down was not 0, and what is put    *)
(* into the lists are entries.                                             *)
LEMMA CreateTyped ==
    ASSUME IInv, NEW t \in Thread, NEW a \in Address, CreateMonitor(t, a)
    PROVE  /\ cached' \subseteq Entry /\ freeEntries' \in Seq(Entry)
           /\ address' \in [Entry -> Address \cup {None}] /\ users' \in [Entry -> Nat]
           /\ stickyCount' \in [Entry -> Nat] /\ mon' \in [Thread -> Entry \cup {None}]
<1>1. PICK e \in Entry : Took(t, a, e)
  BY CreateTook
<1>2. freeEntries' \in Seq(Entry)
  <2>1. freeEntries \in Seq(Entry)
    BY DEF IInv, IoTypeOK, TypeOK
  <2>2. CASE freeEntries' = freeEntries
    BY <2>1, <2>2
  <2>3. CASE TakeEntry(t, a, freeEntries)
    BY <2>1, <2>3, HeadTailProperties DEF TakeEntry
  <2> QED BY <2>2, <2>3 DEF CreateMonitor
<1> QED BY <1>1, <1>2 DEF Took, IInv, IoTypeOK, TypeOK

LEMMA CEnterTyped ==
    ASSUME IInv, NEW t \in Thread, NEW a \in Address, NEW next \in Pc, CEnter(t, a, next)
    PROVE  TypeOK'
<1>1. /\ addr' = [addr EXCEPT ![t] = a] /\ ret' = [ret EXCEPT ![t] = next]
      /\ UNCHANGED <<fresh, owner, count, saved, timed, held>>
  BY DEF CEnter
<1>2. addr' \in [Thread -> Address \cup {None}] /\ ret' \in [Thread -> Pc]
  BY <1>1 DEF IInv, IoTypeOK, TypeOK
<1>3. CASE CreateMonitor(t, a) /\ pc' = [pc EXCEPT ![t] = "enter"] /\ UNCHANGED expanding
  <2>1. pc' \in [Thread -> Pc]
    BY <1>3 DEF IInv, IoTypeOK, TypeOK, Pc
  <2> QED BY <1>1, <1>2, <1>3, <2>1, CreateTyped DEF IInv, IoTypeOK, TypeOK
<1>4. CASE /\ StartExpanding(t, a)
           /\ UNCHANGED <<cached, address, users, freeEntries, stickyCount, mon>>
  <2>1. expanding' = t /\ pc' \in [Thread -> Pc]
    BY <1>4 DEF StartExpanding, IInv, IoTypeOK, TypeOK, Pc
  <2> QED BY <1>1, <1>2, <1>4, <2>1 DEF IInv, IoTypeOK, TypeOK
<1> QED BY <1>3, <1>4 DEF CEnter

LEMMA ExpandTyped ==
    ASSUME IInv, NEW t \in Thread, Expand(t)
    PROVE  TypeOK'
<1>1. /\ pc[t] = "expand" /\ expanding' = None
      /\ UNCHANGED <<owner, count, addr, ret, saved, timed, held>>
  BY DEF Expand
<1>2. addr[t] \in Address
  BY <1>1, CacheAssumption, IoAssumption DEF IInv, CacheInv, Calls, Expanders
<1>3. ASSUME NEW n \in DOMAIN fresh, fresh' = SubSeq(fresh, n + 1, Len(fresh)),
             TakeEntry(t, addr[t], SubSeq(fresh, 1, n) \o freeEntries),
             pc' = [pc EXCEPT ![t] = "enter"]
      PROVE  TypeOK'
  <2> DEFINE new == SubSeq(fresh, 1, n)
             free == new \o freeEntries
  <2>1. new \in Seq(Entry) /\ fresh' \in Seq(Entry)
    <3>1. fresh \in Seq(Entry) /\ IsTidy(fresh)
      BY DEF IInv, IoTypeOK, TypeOK, CacheInv, Lists
    <3>2. IsCut(Entry, fresh, n, new, fresh')
      BY <1>3, <3>1, CutLemma
    <3> HIDE DEF new
    <3> QED BY <3>2 DEF IsCut
  <2>2. freeEntries \in Seq(Entry)
    BY DEF IInv, IoTypeOK, TypeOK
  <2>3. free \in Seq(Entry) /\ free # <<>>
    <3>1. free # <<>>
      BY <1>3 DEF TakeEntry
    <3> HIDE DEF new
    <3>2. free \in Seq(Entry)
      BY <2>1, <2>2, ConcatProperties
    <3> QED BY <3>1, <3>2
  <2> HIDE DEF free
  <2>4. Tail(free) \in Seq(Entry) /\ Head(free) \in Entry
    BY <2>3, HeadTailProperties
  <2>5. /\ freeEntries' = Tail(free) /\ cached' = cached \cup {Head(free)}
        /\ address' = [address EXCEPT ![Head(free)] = addr[t]]
        /\ users' = [users EXCEPT ![Head(free)] = @ + 1]
        /\ stickyCount' = [stickyCount EXCEPT ![Head(free)] = 0]
        /\ mon' = [mon EXCEPT ![t] = Head(free)]
    BY <1>3 DEF TakeEntry, free
  <2>6. pc' \in [Thread -> Pc]
    BY <1>3 DEF IInv, IoTypeOK, TypeOK, Pc
  <2>7. /\ address' \in [Entry -> Address \cup {None}] /\ users' \in [Entry -> Nat]
        /\ stickyCount' \in [Entry -> Nat] /\ mon' \in [Thread -> Entry \cup {None}]
    <3>1. /\ address \in [Entry -> Address \cup {None}] /\ users \in [Entry -> Nat]
          /\ stickyCount \in [Entry -> Nat] /\ mon \in [Thread -> Entry \cup {None}]
      BY DEF IInv, IoTypeOK, TypeOK
    <3> QED BY <1>2, <2>4, <2>5, <3>1
  <2>8. cached' \subseteq Entry /\ freeEntries' \in Seq(Entry) /\ fresh' \in Seq(Entry)
    BY <2>1, <2>4, <2>5 DEF IInv, IoTypeOK, TypeOK
  <2> QED BY <1>1, <2>6, <2>7, <2>8 DEF IInv, IoTypeOK, TypeOK
<1>4. ASSUME pc' = [pc EXCEPT ![t] = ret[t]], mon' = [mon EXCEPT ![t] = None],
             UNCHANGED <<cached, address, users, freeEntries, fresh, stickyCount>>
      PROVE  TypeOK'
  <2>1. pc' \in [Thread -> Pc] /\ mon' \in [Thread -> Entry \cup {None}]
    BY <1>4 DEF IInv, IoTypeOK, TypeOK
  <2> QED BY <1>1, <1>4, <2>1 DEF IInv, IoTypeOK, TypeOK
<1> QED BY <1>3, <1>4 DEF Expand

LEMMA EnterTyped ==
    ASSUME IInv, NEW t \in Thread, Enter(t)
    PROVE  TypeOK'
<1> DEFINE a == IF pc[t] = "enter" THEN addr[t] ELSE MallocLock
<1>1. /\ pc[t] \in {"enter", "mallocEnter"}
      /\ owner' = [owner EXCEPT ![mon[t]] = t] /\ count' = [count EXCEPT ![mon[t]] = @ + 1]
      /\ held' = [held EXCEPT ![t][a] = @ + 1]
      /\ pc' = [pc EXCEPT ![t] = IF @ = "enter" THEN ret[t] ELSE "mallocExit"]
      /\ UNCHANGED <<cacheVars, stickyCount, addr, mon, ret, saved, timed>>
  BY DEF Enter
<1>2. pc' \in [Thread -> Pc]
  BY <1>1 DEF IInv, IoTypeOK, TypeOK, Pc
<1>3. a \in Address /\ mon[t] \in Entry
  BY <1>1, CacheAssumption, IoAssumption
     DEF IInv, IoTypeOK, TypeOK, CacheInv, Calls, Serving, Expanders, InCache
<1> HIDE DEF a
<1>4. owner' \in [Entry -> Thread \cup {None}] /\ count' \in [Entry -> Nat]
  BY <1>1, <1>3 DEF IInv, IoTypeOK, TypeOK
<1>5. held' \in [Thread -> [Address -> Nat]]
  <2>1. held \in [Thread -> [Address -> Nat]]
    BY DEF IInv, IoTypeOK, TypeOK
  <2> QED BY <1>1, <1>3, <2>1
<1> QED BY <1>1, <1>2, <1>4, <1>5 DEF IInv, IoTypeOK, TypeOK

LEMMA CExitTyped ==
    ASSUME IInv, NEW t \in Thread, NEW a \in Address, NEW next \in Pc, CExit(t, a, next)
    PROVE  TypeOK'
<1>1. /\ pc' = [pc EXCEPT ![t] = next]
      /\ UNCHANGED <<address, fresh, expanding, stickyCount, addr, mon, ret, saved, timed>>
  BY DEF CExit
<1>2. pc' \in [Thread -> Pc]
  BY <1>1 DEF IInv, IoTypeOK, TypeOK
<1>3. ASSUME NEW e \in Lookup(a), users' = EndUse(e), FreeUnused(e),
             \/ /\ owner[e] = t
                /\ count' = [count EXCEPT ![e] = @ - 1]
                /\ owner' = [owner EXCEPT ![e] = IF count[e] = 1 THEN None ELSE @]
                /\ held' = [held EXCEPT ![t][a] = @ - 1]
             \/ owner[e] # t /\ UNCHANGED <<owner, count, held>>
      PROVE  TypeOK'
  <2>1. e \in cached /\ e \in Entry /\ address[e] = a /\ users[e] > 0
    BY DEF Lookup, InCache, IInv, IoTypeOK, TypeOK
  <2>2. users' \in [Entry -> Nat]
    BY <1>3, <2>1 DEF EndUse, IInv, IoTypeOK, TypeOK
  <2>3. cached' \subseteq Entry /\ freeEntries' \in Seq(Entry)
    <3>1. freeEntries \in Seq(Entry) /\ cached \subseteq Entry
      BY DEF IInv, IoTypeOK, TypeOK
    <3>2. <<e>> \o freeEntries \in Seq(Entry)
      <4>1. <<e>> \in Seq(Entry)
        BY <2>1
      <4> QED BY <3>1, <4>1, ConcatProperties
    <3> QED BY <1>3, <3>1, <3>2 DEF FreeUnused
  <2>4. /\ owner' \in [Entry -> Thread \cup {None}] /\ count' \in [Entry -> Nat]
        /\ held' \in [Thread -> [Address -> Nat]]
    <3>1. CASE UNCHANGED <<owner, count, held>>
      BY <3>1 DEF IInv, IoTypeOK, TypeOK
    <3>2. CASE owner[e] = t
      <4>1. /\ count' = [count EXCEPT ![e] = @ - 1]
            /\ owner' = [owner EXCEPT ![e] = IF count[e] = 1 THEN None ELSE @]
            /\ held' = [held EXCEPT ![t][a] = @ - 1]
        BY <1>3, <3>2
      <4>2. /\ count \in [Entry -> Nat] /\ count[e] > 0 /\ held[t][a] = count[e]
            /\ owner \in [Entry -> Thread \cup {None}] /\ held \in [Thread -> [Address -> Nat]]
        BY <2>1, <3>2, CacheAssumption DEF IInv, IoTypeOK, TypeOK, CacheInv, Inside
      <4>3. held' \in [Thread -> [Address -> Nat]]
        BY <4>1, <4>2
      <4> QED BY <2>1, <4>1, <4>2, <4>3
    <3> QED BY <1>3, <3>1, <3>2
  <2> QED BY <1>1, <1>2, <2>2, <2>3, <2>4 DEF IInv, IoTypeOK, TypeOK
<1>4. CASE UNCHANGED <<cached, users, freeEntries, owner, count, held>>
  BY <1>1, <1>2, <1>4 DEF IInv, IoTypeOK, TypeOK
<1> QED BY <1>3, <1>4 DEF CExit

LEMMA CWaitTyped ==
    ASSUME IInv, NEW t \in Thread, NEW a \in Address, NEW hasTimeout \in BOOLEAN,
           NEW next \in Pc, CWait(t, a, hasTimeout, next)
    PROVE  TypeOK'
<1>1. UNCHANGED <<cacheVars, held>>
  BY DEF CWait
<1>2. CASE pc' = [pc EXCEPT ![t] = next] /\ UNCHANGED <<owner, count, addr, mon, ret, saved, timed>>
  <2>1. stickyCount' \in [Entry -> Nat]
    <3>1. CASE UNCHANGED stickyCount
      BY <3>1 DEF IInv, IoTypeOK, TypeOK
    <3>2. ASSUME NEW e \in Lookup(a), stickyCount[e] > 0,
                 stickyCount' = [stickyCount EXCEPT ![e] = @ - 1]
          PROVE  stickyCount' \in [Entry -> Nat]
      <4>1. e \in Entry /\ stickyCount \in [Entry -> Nat]
        BY DEF Lookup, InCache, IInv, IoTypeOK, TypeOK
      <4> QED BY <3>2, <4>1
    <3> QED BY <3>1, <3>2 DEF CWait
  <2> QED BY <1>1, <1>2, <2>1 DEF IInv, IoTypeOK, TypeOK
<1>3. ASSUME NEW e \in Lookup(a),
             owner' = [owner EXCEPT ![e] = None], count' = [count EXCEPT ![e] = 0],
             saved' = [saved EXCEPT ![t] = count[e]], addr' = [addr EXCEPT ![t] = a],
             mon' = [mon EXCEPT ![t] = e], ret' = [ret EXCEPT ![t] = next],
             timed' = [timed EXCEPT ![t] = hasTimeout],
             pc' = [pc EXCEPT ![t] = "wait"], UNCHANGED stickyCount
      PROVE  TypeOK'
  <2>1. e \in Entry
    BY DEF Lookup, InCache, IInv, IoTypeOK, TypeOK
  <2>2. pc' \in [Thread -> Pc] /\ ret' \in [Thread -> Pc]
    BY <1>3 DEF IInv, IoTypeOK, TypeOK, Pc
  <2> QED BY <1>1, <1>3, <2>1, <2>2 DEF IInv, IoTypeOK, TypeOK
<1> QED BY <1>2, <1>3 DEF CWait

LEMMA ReturnTyped ==
    ASSUME IInv, NEW t \in Thread, Return(t)
    PROVE  TypeOK'
<1>1. pc' \in [Thread -> Pc]
  BY DEF Return, IInv, IoTypeOK, TypeOK
<1>2. owner' \in [Entry -> Thread \cup {None}] /\ count' \in [Entry -> Nat]
  BY DEF Return, IInv, IoTypeOK, TypeOK
<1> QED BY <1>1, <1>2 DEF Return, IInv, IoTypeOK, TypeOK

(* Steps that move threads on, end waits or leave sticky notifies.         *)
LEMMA PlainTyped ==
    ASSUME IInv, UNCHANGED <<cacheVars, owner, count, addr, mon, ret, saved, timed, held>>,
           \/ pc' = pc
           \/ \E T : Wake(T)
           \/ \E t \in Thread, p \in Pc : pc' = [pc EXCEPT ![t] = p],
           stickyCount' \in [Entry -> Nat]
    PROVE  TypeOK'
<1>1. pc' \in [Thread -> Pc]
  <2>1. pc \in [Thread -> Pc] /\ "woken" \in Pc
    BY DEF IInv, IoTypeOK, TypeOK, Pc
  <2> QED BY <2>1 DEF Wake
<1> QED BY <1>1 DEF IInv, IoTypeOK, TypeOK

LEMMA TypeKept ==
    ASSUME IInv, IoNext
    PROVE  IoTypeOK'
<1>1. stickyCount \in [Entry -> Nat] /\ \A a \in Object : a \in Address
  BY CacheAssumption DEF IInv, IoTypeOK, TypeOK
<1>2. {"user", "expand", "ioQueue", "ioExit", "ioUnlink", "ioRead", "ioGet", "ioWait"} \subseteq Pc
  BY DEF Pc
<1>3. ASSUME NEW t \in Thread, ClientCall(t) PROVE TypeOK'
  <2>1. ASSUME NEW a \in Object, CEnter(t, a, "user") PROVE TypeOK'
    BY <1>1, <1>2, <2>1, CEnterTyped
  <2>2. ASSUME NEW a \in Object, CExit(t, a, "user") PROVE TypeOK'
    BY <1>1, <1>2, <2>2, CExitTyped
  <2>3. ASSUME NEW a \in Object, NEW hasTimeout \in BOOLEAN, CWait(t, a, hasTimeout, "user")
        PROVE  TypeOK'
    BY <1>1, <1>2, <2>3, CWaitTyped
  <2>4. ASSUME NEW a \in Object, NEW how, CNotify(t, a, how) PROVE TypeOK'
    <3>1. /\ UNCHANGED <<cacheVars, monitorVars, addr, mon, ret, saved, timed, held>>
          /\ \E T : Wake(T)
      BY <2>4 DEF CNotify
    <3> QED BY <1>1, <3>1, PlainTyped
  <2> QED BY <1>3, <2>1, <2>2, <2>3, <2>4 DEF ClientCall
<1>4. ASSUME NEW t \in Thread, CacheStep(t) PROVE TypeOK'
  <2>1. ASSUME Malloc(t) PROVE TypeOK'
    <3>1. /\ MallocLock \in Address /\ CreateMonitor(t, MallocLock)
          /\ pc' = [pc EXCEPT ![t] = "mallocEnter"]
          /\ UNCHANGED <<fresh, expanding, owner, count, addr, ret, saved, timed, held>>
      BY <2>1, CacheAssumption DEF Malloc, IInv, CacheInv, Calls
    <3>2. pc' \in [Thread -> Pc]
      BY <3>1 DEF IInv, IoTypeOK, TypeOK, Pc
    <3> QED BY <3>1, <3>2, CreateTyped DEF IInv, IoTypeOK, TypeOK
  <2>2. ASSUME Free(t) PROVE TypeOK'
    <3>1. MallocLock \in Address /\ CExit(t, MallocLock, "expand")
      BY <2>2, CacheAssumption DEF Free, IInv, CacheInv, Calls
    <3> QED BY <1>2, <3>1, CExitTyped
  <2> QED BY <1>4, <2>1, <2>2, ExpandTyped, EnterTyped, ReturnTyped DEF CacheStep
<1>5. ASSUME NEW t \in Thread, TimedOut(t) PROVE TypeOK'
  BY <1>1, <1>5, PlainTyped DEF TimedOut
<1>6. ASSUME NEW t \in Thread, NEW p \in Pc, GoTo(t, p) PROVE TypeOK'
  BY <1>1, <1>6, PlainTyped DEF GoTo
<1>7. ASSUME UNCHANGED vars PROVE TypeOK'
  BY <1>7 DEF vars, IInv, IoTypeOK, TypeOK
<1> DEFINE IoTypes == /\ ioq' \subseteq Thread /\ readable' \subseteq Reader
                      /\ pollMon' \in [Thread -> Entry \cup {None}]
                      /\ pendingException' \in [Thread -> 0 .. MaxException]
<1>8. UNCHANGED ioVars => IoTypes
  BY DEF IInv, IoTypeOK
<1>9. ASSUME NEW t \in Thread, Read(t) PROVE TypeOK' /\ IoTypes
  <2>1. TypeOK'
    BY <1>2, <1>6, <1>9 DEF Read
  <2> QED BY <1>9, <2>1 DEF Read, IInv, IoTypeOK
<1>10. ASSUME NEW t \in Thread, IoStep(t) PROVE TypeOK' /\ IoTypes
  <2>1. t \in Address
    BY IoAssumption
  <2>2. ASSUME IoGet(t) PROVE TypeOK' /\ IoTypes
    BY <1>2, <1>8, <2>1, <2>2, CEnterTyped DEF IoGet
  <2>3. ASSUME IoQueue(t) PROVE TypeOK' /\ IoTypes
    <3>1. TypeOK'
      BY <1>2, <1>6, <2>3 DEF IoQueue
    <3> QED BY <2>3, <3>1 DEF IoQueue, IInv, IoTypeOK, TypeOK
  <2>4. ASSUME IoWaitOn(t) PROVE TypeOK' /\ IoTypes
    BY <1>2, <1>8, <2>1, <2>4, CWaitTyped DEF IoWaitOn
  <2>5. ASSUME IoExit(t) PROVE TypeOK' /\ IoTypes
    BY <1>2, <1>8, <2>1, <2>5, CExitTyped DEF IoExit
  <2>6. ASSUME IoUnlink(t) PROVE TypeOK' /\ IoTypes
    <3>1. TypeOK'
      BY <1>2, <1>6, <2>6 DEF IoUnlink, ReadAgain
    <3> QED BY <2>6, <3>1 DEF IoUnlink, OffIoq, IInv, IoTypeOK, TypeOK
  <2> QED BY <1>9, <1>10, <2>2, <2>3, <2>4, <2>5, <2>6 DEF IoStep
<1>11. ASSUME NEW t \in Thread, Poll(t) PROVE TypeOK' /\ IoTypes
  <2>1. pollMon[t] \in Entry
    BY <1>11 DEF Poll, IInv, IoTypeOK
  <2>2. /\ UNCHANGED <<cacheVars, owner, count, addr, mon, ret, saved, timed, held>>
        /\ pc' = pc \/ \E T : Wake(T)
    BY <1>11 DEF Poll, StickyNotify
  <2>3. stickyCount' \in [Entry -> Nat]
    BY <1>1, <1>11, <2>1 DEF Poll, StickyNotify
  <2>4. TypeOK'
    BY <2>2, <2>3, PlainTyped
  <2> QED BY <1>11, <2>4 DEF Poll, IInv, IoTypeOK
<1>12. ASSUME NEW t \in Thread, DataArrives(t) PROVE TypeOK' /\ IoTypes
  BY <1>7, <1>12 DEF DataArrives, IInv, IoTypeOK
<1>13. ASSUME NEW t \in Thread, SetPendingException(t) PROVE TypeOK' /\ IoTypes
  <2>1. /\ UNCHANGED <<cacheVars, monitorVars, addr, mon, ret, saved, timed, held>>
        /\ pc' = pc \/ \E T : Wake(T)
    BY <1>13 DEF SetPendingException
  <2>2. TypeOK'
    BY <1>1, <2>1, PlainTyped
  <2> QED BY <1>13, <2>2, IoAssumption DEF SetPendingException, IInv, IoTypeOK
<1>14. ASSUME NEW t \in Thread, ClearPendingException(t) PROVE TypeOK' /\ IoTypes
  BY <1>7, <1>14, IoAssumption DEF ClearPendingException, IInv, IoTypeOK
<1>15. TypeOK' /\ IoTypes
  BY <1>3, <1>4, <1>5, <1>8, <1>9, <1>10, <1>11, <1>12, <1>13, <1>14 DEF IoNext
<1> QED BY <1>15 DEF IoTypeOK

(* The cache starts empty, with all its entries free or to be made.        *)
LEMMA InitKeeps ==
    ASSUME IoInit
    PROVE  IInv
<1>1. /\ cached = {} /\ freeEntries = FirstFree /\ fresh = Fresh /\ expanding = None
      /\ ioq = {} /\ readable = {}
      /\ \A e \in Entry : users[e] = 0 /\ owner[e] = None /\ count[e] = 0
      /\ \A t \in Thread : pc[t] = "user" /\ ret[t] = "user"
      /\ \A t \in Thread, a \in Address : held[t][a] = 0
  BY DEF IoInit, Init
<1>2. IoTypeOK
  BY CacheAssumption, IoAssumption DEF IoInit, Init, IoTypeOK, TypeOK, Pc
<1>3. \A a : InCache(a) = {}
  BY <1>1 DEF InCache
<1>4. Calls /\ Serving /\ Making
  BY <1>1, CacheAssumption DEF Calls, Serving, Making, Expanders, Blocking
<1>5. Entries
  BY <1>1 DEF Entries
<1>6. Counted
  <2>1. \A t \in Thread, a \in Address : Uses(t, a) = 0
    BY <1>1 DEF Uses, Entering
  <2> QED BY <1>3, <2>1 DEF Counted
<1>7. Lists
  BY <1>1, CacheAssumption DEF Lists, IsTidy, ToSet
<1>8. Inside
  <2>1. \A t \in Thread, a \in Address : ~(held[t][a] > 0)
    BY <1>1
  <2>2. \A t, u \in Thread : ~(held[u][t] > 0)
    BY <2>1, IoAssumption
  <2> QED BY <1>1, <2>1, <2>2 DEF Inside, Blocking
<1>9. Polling
  BY <1>1 DEF Polling, InIo, Blocking
<1> QED BY <1>2, <1>4, <1>5, <1>6, <1>7, <1>8, <1>9 DEF IInv, CacheInv

LEMMA IInvKept ==
    IInv /\ [IoNext]_allVars => IInv'
<1> SUFFICES ASSUME IInv, [IoNext]_allVars PROVE IInv'
  OBVIOUS
<1>1. CASE IoNext
  BY <1>1, TypeKept, CacheInvKept DEF IInv
<1>2. CASE UNCHANGED allVars
  <2>1. IoTypeOK'
    BY <1>2 DEF allVars, vars, IInv, IoTypeOK, TypeOK
  <2>2. CacheInv'
    BY <1>2, SignalKeeps DEF allVars, vars
  <2> QED BY <2>1, <2>2 DEF IInv
<1> QED BY <1>1, <1>2

-----------------------------------------------------------------------------
(* The properties that the model checker checks follow.                    *)
LEMMA Implied ==
    IInv => IoInv /\ CacheExact
<1> SUFFICES ASSUME IInv PROVE IoInv /\ CacheExact
  OBVIOUS
<1>1. PollQueueAlive
  <2>1. ASSUME NEW t \in Thread, pc[t] = "wait", addr[t] = t PROVE t \in ioq
    <3>1. ret[t] = "ioExit"
      BY <2>1, IoAssumption DEF Blocking, IInv, CacheInv, Calls
    <3> QED BY <2>1, <3>1 DEF IInv, CacheInv, Polling
  <2>2. ASSUME NEW t \in ioq
        PROVE  /\ pc[t] \in {"ioWait", "wait", "woken", "ioExit", "ioUnlink"}
               /\ pc[t] # "ioUnlink" /\ pollMon[t] # None => InCache(t) = {pollMon[t]}
    <3>1. t \in Thread
      BY DEF IInv, IoTypeOK
    <3>2. InIo(t) \/ pc[t] = "ioUnlink"
      BY <3>1 DEF IInv, CacheInv, Polling
    <3>3. pc[t] # "ioUnlink" /\ pollMon[t] # None => pollMon[t] \in InCache(t)
      BY <3>1, <3>2 DEF IInv, CacheInv, Polling
    <3> QED BY <3>2, <3>3, OneEntry DEF InIo, Blocking, IInv, CacheInv
  <2> QED BY <2>1, <2>2 DEF PollQueueAlive
<1>2. ASSUME NEW a \in Address
      PROVE  \/ UsesOf(a) = {} /\ InCache(a) = {}
             \/ /\ UsesOf(a) # {}
                /\ \E e \in Entry : InCache(a) = {e} /\ users[e] = Cardinality(UsesOf(a))
  <2>1. UsesOf(a) = Pairs(UsesOn(a))
    BY DEF UsesOf, Pairs, UsesOn
  <2>2. CASE InCache(a) = {}
    BY <2>1, <2>2, NoEntryNoUse DEF IInv, CacheInv
  <2>3. ASSUME NEW e \in InCache(a)
        PROVE  /\ UsesOf(a) # {} /\ e \in Entry
               /\ InCache(a) = {e} /\ users[e] = Cardinality(UsesOf(a))
    <3>1. users[e] > 0 /\ users[e] = Cardinality(Pairs(UsesOn(a)))
      BY DEF IInv, CacheInv, Counted
    <3>2. InCache(a) = {e} /\ e \in Entry
      BY OneEntry DEF IInv, IoTypeOK, TypeOK, CacheInv
    <3>3. Pairs(UsesOn(a)) # {}
      BY <3>1, FS_EmptySet
    <3> QED BY <2>1, <3>1, <3>2, <3>3
  <2> QED BY <2>2, <2>3
<1>3. /\ IsInjective(freeEntries) /\ IsInjective(fresh)
      /\ ToSet(freeEntries) \cap ToSet(fresh) = {}
      /\ cached = (ToSet(FirstFree) \cup ToSet(Fresh)) \ (ToSet(freeEntries) \cup ToSet(fresh))
  BY DEF IsTidy, IInv, CacheInv, Lists
<1>4. ASSUME NEW e \in Entry \ cached
      PROVE  /\ owner[e] = None /\ count[e] = 0
             /\ \A t \in Thread : pc[t] \in {"enter", "wait", "woken"} => mon[t] # e
  <2>1. \A t \in Thread : pc[t] \in {"enter", "wait", "woken"} => mon[t] \in cached
    BY DEF Blocking, IInv, CacheInv, Serving, InCache
  <2> QED BY <2>1 DEF IInv, CacheInv, Entries
<1>5. CacheExact
  BY <1>2, <1>3, <1>4 DEF CacheExact
<1> QED BY <1>1, <1>5 DEF IInv, IoInv

(* The invariant holds.                                                    *)
LEMMA Inductive == IoSpec => []IInv
<1> QED BY InitKeeps, IInvKept, PTL DEF IoSpec

(* The cache gives each address that is used one monitor and no other, as  *)
(* long as it is used, with whatever calls on whatever addresses there are *)
(* at the same time; and a free entry is nobody's.                         *)
THEOREM CacheCorrect == IoSpec => []CacheExact
<1> QED BY Inductive, Implied, PTL

(* A thread that waits for i/o is on the handler's list, and a poll queue  *)
(* on the list is that of a thread still in the call.                      *)
THEOREM IoCorrect == IoSpec => []IoInv
<1> QED BY Inductive, Implied, PTL
-----------------------------------------------------------------------------
(* The entries kept in reserve: one less than FREE_THRESHOLD when nobody   *)
(* expands the cache, and one less still while malloc uses one of them.    *)
Reserve ==
    /\ expanding = None => Len(freeEntries) >= FreeThreshold - 1
    /\ \A t \in Thread :
         /\ pc[t] \in {"malloc", "expand"} => Len(freeEntries) >= FreeThreshold - 1
         /\ pc[t] \in {"mallocEnter", "mallocExit"} =>
              \/ Len(freeEntries) >= FreeThreshold - 1
              \/ /\ Len(freeEntries) >= FreeThreshold - 2
                 /\ \E e \in InCache(MallocLock) : users[e] = 1

LEMMA Numbers ==
    ASSUME IInv
    PROVE  /\ Len(freeEntries) \in Nat /\ FreeThreshold \in Nat
           /\ \A t \in Thread : pc[t] \in Expanders <=> expanding = t
           /\ expanding \in Thread \cup {None} /\ None \notin Thread
<1>1. freeEntries \in Seq(Entry)
  BY DEF IInv, IoTypeOK, TypeOK
<1>2. Len(freeEntries) \in Nat
  BY <1>1, LenProperties
<1>3. FreeThreshold \in Nat /\ None \notin Thread
  BY CacheAssumption
<1>4. /\ \A t \in Thread : pc[t] \in Expanders <=> expanding = t
      /\ expanding \in Thread \cup {None}
  BY DEF IInv, IoTypeOK, TypeOK, CacheInv, Calls
<1> QED BY <1>2, <1>3, <1>4

(* A call that takes an entry leaves the reserve.                          *)
LEMMA CEnterReserves ==
    ASSUME IInv, Reserve, NEW t \in Thread, NEW a \in Address, NEW next, EnterFrom(t, a, next),
           CEnter(t, a, next)
    PROVE  Reserve'
<1>1. pc[t] \notin Expanders /\ expanding = None
  <2>1. pc[t] \notin Expanders
    BY DEF EnterFrom, Expanders
  <2> QED BY <2>1, Numbers DEF CEnter, CreateMonitor, CanLock, StartExpanding
<1>2. Len(freeEntries) >= FreeThreshold - 1
  BY <1>1 DEF Reserve
<1>3. CASE CreateMonitor(t, a) /\ pc' = [pc EXCEPT ![t] = "enter"] /\ UNCHANGED expanding
  <2>1. \A u \in Thread : pc'[u] \notin Expanders
    BY <1>1, <1>3, Numbers DEF Expanders
  <2>2. Len(freeEntries') >= FreeThreshold - 1
    <3>1. CASE freeEntries' = freeEntries
      BY <1>2, <3>1
    <3>2. CASE EnoughFree(t) /\ TakeEntry(t, a, freeEntries)
      <4>1. Len(freeEntries) >= FreeThreshold
        BY <1>1, <3>2, Numbers DEF EnoughFree
      <4>2. Len(freeEntries') = Len(freeEntries) - 1
        BY <3>2, HeadTailProperties DEF TakeEntry, IInv, IoTypeOK, TypeOK
      <4> QED BY <4>1, <4>2, Numbers
    <3> QED BY <1>3, <3>1, <3>2 DEF CreateMonitor
  <2> QED BY <2>1, <2>2 DEF Reserve, Expanders
<1>4. CASE StartExpanding(t, a) /\ UNCHANGED freeEntries
  <2>1. /\ expanding' = t /\ pc'[t] \in {"malloc", "expand"}
        /\ \A u \in Thread : u # t => pc'[u] = pc[u] /\ pc[u] \notin Expanders
    BY <1>1, <1>4, Numbers DEF StartExpanding, IInv, IoTypeOK, TypeOK
  <2> QED BY <1>2, <1>4, <2>1, Numbers DEF Reserve, Expanders
<1> QED BY <1>3, <1>4 DEF CEnter

(* malloc takes one of it at most, ...                                     *)
LEMMA MallocReserves ==
    ASSUME IInv, Reserve, NEW t \in Thread, Malloc(t)
    PROVE  Reserve'
<1>1. /\ pc[t] = "malloc" /\ expanding = t /\ expanding' = t /\ MallocLock \in Address
      /\ CreateMonitor(t, MallocLock)
      /\ Len(freeEntries) >= FreeThreshold - 1
  BY CacheAssumption DEF Malloc, Reserve, IInv, CacheInv, Calls, Expanders
<1>2. /\ pc'[t] = "mallocEnter"
      /\ \A u \in Thread : u # t => pc'[u] = pc[u] /\ pc[u] \notin Expanders
  BY <1>1, Numbers DEF Malloc, IInv, IoTypeOK, TypeOK
<1>3. \/ Len(freeEntries') >= FreeThreshold - 1
      \/ /\ Len(freeEntries') >= FreeThreshold - 2
         /\ \E e \in InCache(MallocLock)' : users'[e] = 1
  <2>1. CASE freeEntries' = freeEntries
    BY <1>1, <2>1
  <2>2. CASE InCache(MallocLock) = {} /\ TakeEntry(t, MallocLock, freeEntries)
    <3> DEFINE e == Head(freeEntries)
    <3>1. freeEntries \in Seq(Entry) /\ freeEntries # <<>>
      BY <2>2 DEF TakeEntry, IInv, IoTypeOK, TypeOK
    <3>2. Len(freeEntries') = Len(freeEntries) - 1 /\ e \in Entry /\ e \in ToSet(freeEntries)
      BY <2>2, <3>1, HeadTailProperties, HeadLemma DEF TakeEntry
    <3>3. users[e] = 0
      BY <3>2 DEF IInv, CacheInv, Lists, Entries
    <3>4. users'[e] = 1 /\ cached' = cached \cup {e} /\ address'[e] = MallocLock
      BY <2>2, <3>2, <3>3 DEF TakeEntry, IInv, IoTypeOK, TypeOK
    <3>5. e \in InCache(MallocLock)'
      BY <3>4 DEF InCache
    <3> QED BY <1>1, <3>2, <3>4, <3>5, Numbers
  <2> QED BY <1>1, <2>1, <2>2 DEF CreateMonitor
<1> QED BY <1>1, <1>2, <1>3, Numbers DEF Reserve, Expanders

(* ... and gives it back.                                                  *)
LEMMA CExitReserves ==
    ASSUME IInv, Reserve, NEW t \in Thread, NEW a \in Address, NEW next, ExitFrom(t, a, next),
           CExit(t, a, next)
    PROVE  Reserve'
<1>1. expanding \in {None, t} /\ expanding' = expanding
  BY DEF CExit, CanLock
<1>2. /\ pc'[t] = next /\ \A u \in Thread : u # t => pc'[u] = pc[u] /\ pc[u] \notin Expanders
      /\ pc[t] # "mallocExit" => expanding = None /\ next \notin Expanders
      /\ pc[t] = "mallocExit" => expanding = t /\ a = MallocLock /\ next = "expand"
  <2>1. pc'[t] = next /\ \A u \in Thread : u # t => pc'[u] = pc[u]
    BY DEF CExit, IInv, IoTypeOK, TypeOK
  <2>2. pc[t] = "mallocExit" \/ pc[t] \notin Expanders
    BY DEF ExitFrom, Expanders
  <2>3. \A u \in Thread : u # t => pc[u] \notin Expanders
    BY <1>1, Numbers
  <2> QED BY <1>1, <2>1, <2>2, <2>3, Numbers DEF ExitFrom, Expanders
<1>3. \/ freeEntries' = freeEntries
      \/ Len(freeEntries') = Len(freeEntries) + 1
  <2>1. ASSUME NEW e \in Lookup(a), freeEntries' = <<e>> \o freeEntries
        PROVE  Len(freeEntries') = Len(freeEntries) + 1
    <3>1. e \in Entry /\ freeEntries \in Seq(Entry)
      BY DEF Lookup, InCache, IInv, IoTypeOK, TypeOK
    <3> QED BY <2>1, <3>1
  <2> QED BY <2>1 DEF CExit, FreeUnused
<1>4. CASE pc[t] # "mallocExit"
  <2>1. Len(freeEntries') >= FreeThreshold - 1
    BY <1>2, <1>3, <1>4, Numbers DEF Reserve
  <2> QED BY <1>1, <1>2, <1>4, <2>1 DEF Reserve, Expanders
<1>5. CASE pc[t] = "mallocExit"
  <2>1. PICK e \in cached : InCache(a) = {e} /\ Lookup(a) = {e}
    <3>1. held[t][a] > 0 /\ pc[t] \notin Blocking
      BY <1>2, <1>5 DEF IInv, CacheInv, Inside, Blocking
    <3> QED BY <3>1, IsInside
  <2>2. users[e] = 1 => freeEntries' = <<e>> \o freeEntries
    BY <2>1 DEF CExit, FreeUnused
  <2>3. Len(freeEntries') >= FreeThreshold - 1
    <3>1. CASE Len(freeEntries) >= FreeThreshold - 1
      BY <1>3, <3>1, Numbers
    <3>2. CASE Len(freeEntries) >= FreeThreshold - 2 /\ \E f \in InCache(MallocLock) : users[f] = 1
      <4>1. users[e] = 1
        BY <1>2, <1>5, <2>1, <3>2
      <4>2. e \in Entry /\ freeEntries \in Seq(Entry)
        BY DEF IInv, IoTypeOK, TypeOK
      <4>3. Len(<<e>> \o freeEntries) = Len(freeEntries) + 1
        BY <4>2
      <4> QED BY <2>2, <3>2, <4>1, <4>3, Numbers
    <3> QED BY <1>5, <3>1, <3>2 DEF Reserve
  <2> QED BY <1>1, <1>2, <1>5, <2>3, Numbers DEF Reserve, Expanders
<1> QED BY <1>4, <1>5

LEMMA ExpandReserves ==
    ASSUME IInv, Reserve, NEW t \in Thread, Expand(t)
    PROVE  Reserve'
<1>1. /\ pc[t] = "expand" /\ expanding = t /\ expanding' = None /\ addr[t] \in Address
      /\ Len(freeEntries) >= FreeThreshold - 1
      /\ ret[t] \in {"user", "ioQueue"}
  BY CacheAssumption, IoAssumption DEF Expand, Reserve, IInv, CacheInv, Calls, Expanders
<1>2. /\ pc'[t] \in {"enter", "user", "ioQueue"}
      /\ \A u \in Thread : u # t => pc'[u] = pc[u] /\ pc[u] \notin Expanders
  BY <1>1, Numbers DEF Expand, IInv, IoTypeOK, TypeOK
<1>3. Len(freeEntries') >= Len(freeEntries)
  <2>1. InCache(addr[t]) = {}
    BY <1>1, ExpandForNew
  <2>2. ASSUME NEW n \in DOMAIN fresh, fresh' = SubSeq(fresh, n + 1, Len(fresh)),
               TakeEntry(t, addr[t], SubSeq(fresh, 1, n) \o freeEntries)
        PROVE  Len(freeEntries') >= Len(freeEntries)
    BY <1>1, <2>1, <2>2, ExpandTook
  <2>3. CASE freeEntries' = freeEntries
    BY <2>3, Numbers
  <2> QED BY <2>2, <2>3 DEF Expand
<1>4. Len(freeEntries') >= FreeThreshold - 1
  <2>1. Len(freeEntries') \in Nat
    BY ExpandTyped, LenProperties DEF TypeOK
  <2> QED BY <1>1, <1>3, <2>1, Numbers
<1> QED BY <1>1, <1>2, <1>4 DEF Reserve, Expanders


(* All other steps leave the cache as it is.                               *)
LEMMA ReserveFrame ==
    ASSUME Reserve, UNCHANGED cacheVars,
           \A u \in Thread :
             /\ pc'[u] \in {"malloc", "expand"} => pc[u] = pc'[u]
             /\ pc'[u] \in {"mallocEnter", "mallocExit"} => pc[u] \in {"mallocEnter", "mallocExit"}
    PROVE  Reserve'
<1>1. InCache(MallocLock)' = InCache(MallocLock)
  BY DEF InCache
<1> QED BY <1>1 DEF Reserve

LEMMA ReserveKept ==
    ASSUME IInv, Reserve, [IoNext]_allVars
    PROVE  Reserve'
<1>1. ASSUME NEW t \in Thread, NEW a, NEW hasTimeout, NEW next \in {"user", "ioExit"},
             CWait(t, a, hasTimeout, next)
      PROVE  Reserve'
  <2>1. UNCHANGED cacheVars
    BY <1>1 DEF CWait
  <2>2. pc'[t] \in {"user", "ioExit", "wait"} /\ \A u \in Thread : u # t => pc'[u] = pc[u]
    BY <1>1 DEF CWait, IInv, IoTypeOK, TypeOK
  <2> QED BY <2>1, <2>2, ReserveFrame
<1>2. ASSUME UNCHANGED cacheVars, pc' = pc \/ \E T : Wake(T) PROVE Reserve'
  <2>1. \A u \in Thread : pc'[u] = pc[u] \/ pc'[u] = "woken"
    BY <1>2 DEF Wake
  <2> QED BY <1>2, <2>1, ReserveFrame
<1>3. ASSUME NEW t \in Thread, NEW next \in Quiet, GoTo(t, next) PROVE Reserve'
  <2>1. UNCHANGED cacheVars
    BY <1>3 DEF GoTo
  <2>2. pc'[t] \in Quiet /\ \A u \in Thread : u # t => pc'[u] = pc[u]
    BY <1>3 DEF GoTo, IInv, IoTypeOK, TypeOK
  <2> QED BY <2>1, <2>2, ReserveFrame DEF Quiet
<1>4. {"user", "ioGet", "ioWait", "ioRead"} \subseteq Quiet
  BY DEF Quiet
<1>5. ASSUME NEW t \in Thread, ClientCall(t) PROVE Reserve'
  <2>1. pc[t] = "user" /\ \A a \in Object : a \in Address
    BY <1>5, CacheAssumption DEF ClientCall
  <2>2. ASSUME NEW a \in Object, CEnter(t, a, "user") PROVE Reserve'
    BY <2>1, <2>2, CEnterReserves DEF EnterFrom
  <2>3. ASSUME NEW a \in Object, held[t][a] > 0, CExit(t, a, "user") PROVE Reserve'
    BY <2>1, <2>3, CExitReserves DEF ExitFrom
  <2>4. ASSUME NEW a \in Object, NEW how, CNotify(t, a, how) PROVE Reserve'
    BY <1>2, <2>4 DEF CNotify
  <2> QED BY <1>1, <1>5, <2>2, <2>3, <2>4 DEF ClientCall
<1>6. ASSUME NEW t \in Thread, Enter(t) PROVE Reserve'
  <2>1. /\ pc[t] = "mallocEnter" => pc'[t] = "mallocExit"
        /\ pc[t] = "enter" => pc'[t] = ret[t] /\ ret[t] \in {"user", "ioQueue"}
        /\ pc[t] \in {"enter", "mallocEnter"}
        /\ \A u \in Thread : u # t => pc'[u] = pc[u]
    BY <1>6 DEF Enter, Expanders, IInv, IoTypeOK, TypeOK, CacheInv, Calls
  <2> QED BY <1>6, <2>1, ReserveFrame DEF Enter
<1>7. ASSUME NEW t \in Thread, Return(t) PROVE Reserve'
  <2>1. /\ pc'[t] \in {"user", "ioExit"}
        /\ \A u \in Thread : u # t => pc'[u] = pc[u]
    BY <1>7 DEF Return, Blocking, IInv, IoTypeOK, TypeOK, CacheInv, Calls
  <2> QED BY <1>7, <2>1, ReserveFrame DEF Return
<1>8. ASSUME NEW t \in Thread, CacheStep(t) PROVE Reserve'
  <2>1. ASSUME Free(t) PROVE Reserve'
    <3>1. pc[t] = "mallocExit" /\ MallocLock \in Address /\ CExit(t, MallocLock, "expand")
      BY <2>1, CacheAssumption DEF Free, IInv, CacheInv, Calls
    <3> QED BY <3>1, CExitReserves DEF ExitFrom
  <2> QED BY <1>6, <1>7, <1>8, <2>1, MallocReserves, ExpandReserves DEF CacheStep
<1>9. ASSUME NEW t \in Thread, Read(t) PROVE Reserve'
  BY <1>3, <1>4, <1>9 DEF Read
<1>10. ASSUME NEW t \in Thread, IoStep(t) PROVE Reserve'
  <2>1. t \in Address
    BY IoAssumption
  <2>2. ASSUME IoGet(t) PROVE Reserve'
    BY <2>1, <2>2, CEnterReserves DEF IoGet, EnterFrom
  <2>3. ASSUME IoExit(t) PROVE Reserve'
    BY <2>1, <2>3, CExitReserves DEF IoExit, ExitFrom
  <2>4. ASSUME IoWaitOn(t) PROVE Reserve'
    BY <1>1, <2>4 DEF IoWaitOn
  <2>5. ASSUME IoQueue(t) \/ IoUnlink(t) PROVE Reserve'
    BY <1>3, <1>4, <2>5 DEF IoQueue, IoUnlink, ReadAgain
  <2> QED BY <1>9, <1>10, <2>2, <2>3, <2>4, <2>5 DEF IoStep
<1>11. ASSUME NEW t \in Thread,
              TimedOut(t) \/ Poll(t) \/ DataArrives(t)
              \/ SetPendingException(t) \/ ClearPendingException(t)
       PROVE  Reserve'
  <2>1. UNCHANGED cacheVars
    BY <1>11 DEF TimedOut, Poll, DataArrives, SetPendingException, ClearPendingException, vars
  <2>2. pc' = pc \/ \E T : Wake(T)
    BY <1>11 DEF TimedOut, Poll, StickyNotify, DataArrives, SetPendingException,
                 ClearPendingException, vars, threadVars
  <2> QED BY <1>2, <2>1, <2>2
<1>12. CASE UNCHANGED allVars
  BY <1>2, <1>12 DEF allVars, vars
<1> QED BY <1>5, <1>8, <1>9, <1>10, <1>11, <1>12 DEF IoNext

(* When the cache is expanded for want of entries, malloc, which may need  *)
(* one for its own monitor, finds one, if the threshold leaves room for it *)
(* and the first expansion has made as many.                               *)
THEOREM MallocCorrect ==
    ASSUME FreeThreshold >= 2, Len(FirstFree) >= FreeThreshold - 1
    PROVE  IoSpec => []MallocFindsEntry
<1>1. IoInit => Reserve
  BY DEF IoInit, Init, Reserve
<1>2. IInv /\ Reserve /\ [IoNext]_allVars => Reserve'
  BY ReserveKept
<1>3. IInv /\ Reserve => MallocFindsEntry
  <2> SUFFICES ASSUME IInv, Reserve, NEW t \in Thread, pc[t] = "malloc" PROVE freeEntries # <<>>
    BY DEF MallocFindsEntry
  <2>1. Len(freeEntries) >= 1
    BY Numbers DEF Reserve
  <2> QED BY <2>1
<1> QED BY <1>1, <1>2, <1>3, Inductive, PTL DEF IoSpec

-----------------------------------------------------------------------------
(* Who is inside an address, now and after a step.                         *)
LEMMA InsideIs ==
    /\ \A b, e : InCache(b) = {e} => InsideAddress(b) = owner[e]
    /\ \A b : InCache(b) = {} => InsideAddress(b) = None
  BY DEF InsideAddress

LEMMA InsideIsNext ==
    /\ \A b, e : InCache(b)' = {e} => InsideAddress(b)' = owner'[e]
    /\ \A b : InCache(b)' = {} => InsideAddress(b)' = None
  BY DEF InsideAddress

LEMMA InsideSame ==
    ASSUME IInv, UNCHANGED <<cached, address, owner>>
    PROVE  \A b : InsideAddress(b)' = InsideAddress(b)
<1> SUFFICES ASSUME NEW b PROVE InsideAddress(b)' = InsideAddress(b)
  OBVIOUS
<1>1. InCache(b)' = InCache(b)
  BY DEF InCache
<1>2. CASE InCache(b) = {}
  BY <1>1, <1>2, InsideIs, InsideIsNext
<1>3. ASSUME NEW e \in InCache(b) PROVE InsideAddress(b)' = InsideAddress(b)
  <2>1. InCache(b) = {e}
    BY OneEntry DEF IInv, CacheInv
  <2> QED BY <1>1, <2>1, InsideIs, InsideIsNext
<1> QED BY <1>2, <1>3

InsideAll == [a \in Address |-> InsideAddress(a)]

(* A thread that is not blocked here is not blocked there.                 *)
LEMMA NotBlocked ==
    ASSUME IInv, NEW t \in Thread, pc[t] \notin Blocking
    PROVE  ~Promise!Blocked(t)
<1> SUFFICES ASSUME NEW a \in Address, held[t][a] > 0 PROVE InsideAll[a] = t
  BY DEF Promise!Blocked, InsideAll
<1>1. PICK e \in cached : InCache(a) = {e} /\ owner[e] = t
  BY IsInside
<1> QED BY <1>1, InsideIs DEF InsideAll

(* To find or take an entry changes nothing that can be seen.              *)
LEMMA TookUnseen ==
    ASSUME IInv, NEW t \in Thread, NEW a, NEW e, Took(t, a, e), owner' = owner
    PROVE  InsideAll' = InsideAll
<1> SUFFICES ASSUME NEW b \in Address PROVE InsideAddress(b)' = InsideAddress(b)
  BY DEF InsideAll
<1>1. CASE b # a
  <2>1. InCache(b)' = InCache(b)
    BY <1>1, TookLemma
  <2> QED BY <2>1 DEF InsideAddress
<1>2. CASE b = a
  <2>1. InsideAddress(b)' = owner[e]
    <3>1. InCache(b)' = {e}
      BY <1>2, TookLemma
    <3> QED BY <3>1, InsideIsNext
  <2>2. CASE e \in cached
    <3>1. e \in InCache(a)
      BY <2>2 DEF Took, InCache
    <3>2. InCache(a) = {e}
      BY <3>1, OneEntry DEF IInv, CacheInv
    <3> QED BY <1>2, <2>1, <3>2, InsideIs
  <2>3. CASE e \notin cached
    <3>1. InCache(a) = {} /\ owner[e] = None
      BY <2>3 DEF Took, IInv, CacheInv, Entries
    <3> QED BY <1>2, <2>1, <3>1, InsideIs
  <2> QED BY <2>2, <2>3
<1> QED BY <1>1, <1>2

LEMMA CEnterUnseen ==
    ASSUME IInv, NEW t \in Thread, NEW a \in Address, NEW next, CEnter(t, a, next)
    PROVE  UNCHANGED <<held, InsideAll>>
<1>1. held' = held /\ owner' = owner
  BY DEF CEnter
<1>2. CASE CreateMonitor(t, a)
  BY <1>1, <1>2, CreateTook, TookUnseen
<1>3. CASE UNCHANGED <<cached, address>>
  BY <1>1, <1>3, InsideSame DEF InsideAll
<1> QED BY <1>1, <1>2, <1>3 DEF CEnter

LEMMA ExpandUnseen ==
    ASSUME IInv, NEW t \in Thread, Expand(t) \/ Malloc(t)
    PROVE  UNCHANGED <<held, InsideAll>>
<1>1. held' = held /\ owner' = owner
  BY DEF Expand, Malloc
<1>2. CASE Malloc(t)
  <2>1. MallocLock \in Address /\ CreateMonitor(t, MallocLock)
    BY <1>2, CacheAssumption DEF Malloc, IInv, CacheInv, Calls
  <2> QED BY <1>1, <2>1, CreateTook, TookUnseen
<1>3. CASE Expand(t)
  <2>1. pc[t] = "expand" /\ addr[t] \in Address
    BY <1>3, CacheAssumption, IoAssumption DEF Expand, IInv, CacheInv, Calls, Expanders
  <2>2. InCache(addr[t]) = {}
    BY <2>1, ExpandForNew
  <2>3. ASSUME NEW n \in DOMAIN fresh, fresh' = SubSeq(fresh, n + 1, Len(fresh)),
               TakeEntry(t, addr[t], SubSeq(fresh, 1, n) \o freeEntries)
        PROVE  \E e \in Entry : Took(t, addr[t], e)
    BY <2>1, <2>2, <2>3, ExpandTook
  <2>4. CASE UNCHANGED <<cached, address>>
    BY <1>1, <2>4, InsideSame DEF InsideAll
  <2> QED BY <1>1, <1>3, <2>3, <2>4, TookUnseen DEF Expand
<1> QED BY <1>2, <1>3

(* Entering, leaving, waiting and returning are those of Monitors.         *)
LEMMA EnterSeen ==
    ASSUME IInv, NEW t \in Thread, Enter(t)
    PROVE  \E a \in Address : Promise!Enter(t, a)
<1>0. PICK a, e : a = (IF pc[t] = "enter" THEN addr[t] ELSE MallocLock) /\ e = mon[t]
  OBVIOUS
<1>1. /\ pc[t] \in {"enter", "mallocEnter"} /\ owner[e] \in {None, t}
      /\ owner' = [owner EXCEPT ![e] = t]
      /\ held' = [held EXCEPT ![t][a] = @ + 1]
      /\ UNCHANGED <<cached, address>>
  BY <1>0 DEF Enter
<1>2. a \in Address /\ e \in InCache(a)
  BY <1>0, <1>1, CacheAssumption, IoAssumption
     DEF IInv, CacheInv, Calls, Serving, Expanders
<1>3. e \in Entry /\ InCache(a) = {e}
  BY <1>2, OneEntry DEF IInv, CacheInv, IoTypeOK, TypeOK
<1>4. \A b : InCache(b)' = InCache(b)
  BY <1>1 DEF InCache
<1>5. owner'[e] = t /\ \A f \in Entry : f # e => owner'[f] = owner[f]
  BY <1>1, <1>3 DEF IInv, IoTypeOK, TypeOK
<1>6. InsideAddress(a) = owner[e] /\ InsideAddress(a)' = t
  BY <1>3, <1>4, <1>5, InsideIs, InsideIsNext
<1>7. ASSUME NEW b \in Address, b # a PROVE InsideAddress(b)' = InsideAddress(b)
  <2>1. CASE InCache(b) = {}
    BY <1>4, <2>1, InsideIs, InsideIsNext
  <2>2. ASSUME NEW f \in InCache(b) PROVE InsideAddress(b)' = InsideAddress(b)
    <3>1. InCache(b) = {f} /\ f \in Entry /\ f # e
      BY <1>3, <1>7, OneEntry DEF InCache, IInv, CacheInv, IoTypeOK, TypeOK
    <3> QED BY <1>4, <1>5, <3>1, InsideIs, InsideIsNext
  <2> QED BY <2>1, <2>2
<1>8. InsideAll' = [InsideAll EXCEPT ![a] = IF @ = None THEN t ELSE @]
  <2>1. \A b \in Address : InsideAddress(b)' =
          IF b = a THEN (IF InsideAddress(a) = None THEN t ELSE InsideAddress(a))
          ELSE InsideAddress(b)
    BY <1>1, <1>6, <1>7
  <2> QED BY <1>2, <2>1 DEF InsideAll
<1>9. ~Promise!Blocked(t)
  BY <1>1, NotBlocked DEF Blocking
<1>10. Promise!Enter(t, a)
  BY <1>1, <1>8, <1>9 DEF Promise!Enter, InsideAll
<1> QED BY <1>2, <1>10

LEMMA CExitSeen ==
    ASSUME IInv, NEW t \in Thread, NEW a \in Address, NEW next, ExitFrom(t, a, next),
           CExit(t, a, next)
    PROVE  Promise!Leave(t, a) \/ UNCHANGED <<held, InsideAll>>
<1>1. CASE held[t][a] > 0
  <2>1. PICK e \in Entry : ExitStep(t, a, e, next)
    BY <1>1, ExitInside
  <2>2. /\ \A b : InCache(b)' = IF b = a /\ users[e] = 1 THEN {} ELSE InCache(b)
        /\ users[e] = 1 => count[e] = 1
    BY <2>1, ExitUses
  <2>3. /\ InCache(a) = {e} /\ owner[e] = t /\ count[e] = held[t][a]
        /\ held' = [held EXCEPT ![t][a] = @ - 1]
    BY <2>1 DEF ExitStep
  <2>4. /\ owner'[e] = IF count[e] = 1 THEN None ELSE t
        /\ \A f \in Entry : f # e => owner'[f] = owner[f]
    BY <2>1, <2>3 DEF ExitStep, IInv, IoTypeOK, TypeOK
  <2>5. /\ InsideAddress(a) = t
        /\ InsideAddress(a)' = IF held[t][a] = 1 THEN None ELSE t
    <3>1. CASE users[e] = 1
      BY <2>2, <2>3, <3>1, InsideIs, InsideIsNext
    <3>2. CASE users[e] # 1
      BY <2>2, <2>3, <2>4, <3>2, InsideIs, InsideIsNext
    <3> QED BY <3>1, <3>2
  <2>6. ASSUME NEW b \in Address, b # a PROVE InsideAddress(b)' = InsideAddress(b)
    <3>0. InCache(b)' = InCache(b)
      BY <2>2, <2>6
    <3>1. CASE InCache(b) = {}
      BY <3>0, <3>1, InsideIs, InsideIsNext
    <3>2. ASSUME NEW f \in InCache(b) PROVE InsideAddress(b)' = InsideAddress(b)
      <4>1. InCache(b) = {f} /\ f \in Entry
        BY OneEntry DEF IInv, CacheInv, IoTypeOK, TypeOK
      <4>2. f # e
        BY <2>3, <2>6 DEF InCache
      <4> QED BY <2>4, <3>0, <4>1, <4>2, InsideIs, InsideIsNext
    <3> QED BY <3>1, <3>2
  <2>7. InsideAll' = [InsideAll EXCEPT ![a] = IF held[t][a] = 1 THEN None ELSE @]
    <3>1. \A b \in Address : InsideAddress(b)' =
            IF b = a THEN (IF held[t][a] = 1 THEN None ELSE InsideAddress(a))
            ELSE InsideAddress(b)
      BY <2>5, <2>6
    <3> QED BY <3>1 DEF InsideAll
  <2>8. ~Promise!Blocked(t)
    BY NotBlocked DEF ExitFrom, Blocking
  <2>9. InsideAll[a] = t
    BY <2>5 DEF InsideAll
  <2> QED BY <2>3, <2>7, <2>8, <2>9 DEF Promise!Leave, InsideAll
<1>2. CASE ~(held[t][a] > 0)
  <2>1. UNCHANGED <<cached, address, owner, held>>
    <3>1. ASSUME NEW e \in Lookup(a), owner[e] = t PROVE FALSE
      <4>1. e \in cached /\ e \in Entry /\ address[e] = a
        BY DEF Lookup, InCache, IInv, IoTypeOK, TypeOK
      <4>2. count[e] # 0 /\ count[e] \in Nat /\ held[t][a] = count[e]
        BY <3>1, <4>1, CacheAssumption DEF IInv, IoTypeOK, TypeOK, CacheInv, Inside
      <4> QED BY <1>2, <4>2
    <3>2. \A e \in Lookup(a) : users[e] # 1
      <4> SUFFICES ASSUME NEW e \in Lookup(a) PROVE FALSE
        OBVIOUS
      <4>1. pc[t] = "ioExit" /\ a = t
        BY <1>2 DEF ExitFrom, IInv, CacheInv, Inside
      <4>2. e \in InCache(t)
        BY <4>1 DEF Lookup
      <4>3. \A u \in Thread : UsesOn(t)[u] = 0
        <5>1. held[t][t] = 0 /\ ~Entering(t, t)
          BY <1>2, <4>1 DEF Entering, IInv, IoTypeOK, TypeOK
        <5>2. \A u \in Thread : u # t => held[u][t] = 0 /\ ~Entering(u, t)
          BY OwnAddress
        <5> QED BY <5>1, <5>2 DEF UsesOn, Uses
      <4>4. Pairs(UsesOn(t)) = {}
        BY <4>1, <4>3, PairsNone, UsesType DEF IInv
      <4> QED BY <4>1, <4>2, <4>4, FS_EmptySet DEF IInv, CacheInv, Counted
    <3> QED BY <3>1, <3>2 DEF CExit, FreeUnused
  <2> QED BY <2>1, InsideSame DEF InsideAll
<1> QED BY <1>1, <1>2

LEMMA CWaitSeen ==
    ASSUME IInv, NEW t \in Thread, NEW a \in Address, NEW hasTimeout, NEW next,
           pc[t] \notin Blocking, CWait(t, a, hasTimeout, next)
    PROVE  Promise!StepOut(t, a) \/ UNCHANGED <<held, InsideAll>>
<1>1. held' = held /\ UNCHANGED <<cached, address>>
  BY DEF CWait
<1>2. CASE owner' = owner
  BY <1>1, <1>2, InsideSame DEF InsideAll
<1>3. ASSUME NEW e \in Lookup(a), owner[e] = t, owner' = [owner EXCEPT ![e] = None]
      PROVE  Promise!StepOut(t, a)
  <2>1. e \in Entry /\ InCache(a) = {e}
    <3>1. e \in InCache(a)
      BY DEF Lookup
    <3> QED BY <3>1, OneEntry DEF IInv, CacheInv, IoTypeOK, TypeOK
  <2>2. \A b : InCache(b)' = InCache(b)
    BY <1>1 DEF InCache
  <2>3. owner'[e] = None /\ \A f \in Entry : f # e => owner'[f] = owner[f]
    BY <1>3, <2>1 DEF IInv, IoTypeOK, TypeOK
  <2>4. InsideAddress(a) = t /\ InsideAddress(a)' = None
    BY <1>3, <2>1, <2>2, <2>3, InsideIs, InsideIsNext
  <2>5. ASSUME NEW b \in Address, b # a PROVE InsideAddress(b)' = InsideAddress(b)
    <3>1. CASE InCache(b) = {}
      BY <2>2, <3>1, InsideIs, InsideIsNext
    <3>2. ASSUME NEW f \in InCache(b) PROVE InsideAddress(b)' = InsideAddress(b)
      <4>1. InCache(b) = {f} /\ f \in Entry
        BY OneEntry DEF IInv, CacheInv, IoTypeOK, TypeOK
      <4>2. f # e
        BY <2>1, <2>5 DEF InCache
      <4> QED BY <2>2, <2>3, <4>1, <4>2, InsideIs, InsideIsNext
    <3> QED BY <3>1, <3>2
  <2>6. InsideAll' = [InsideAll EXCEPT ![a] = None] /\ InsideAll[a] = t
    BY <2>4, <2>5 DEF InsideAll
  <2> QED BY <1>1, <2>6, NotBlocked DEF Promise!StepOut, InsideAll
<1> QED BY <1>2, <1>3 DEF CWait

LEMMA ReturnSeen ==
    ASSUME IInv, NEW t \in Thread, Return(t)
    PROVE  \E a \in Address : Promise!Admit(t, a)
<1>0. PICK a, e : a = addr[t] /\ e = mon[t]
  OBVIOUS
<1>1. /\ pc[t] = "woken" /\ owner[e] = None /\ owner' = [owner EXCEPT ![e] = t]
      /\ held' = held /\ UNCHANGED <<cached, address>>
  BY <1>0 DEF Return
<1>2. a \in Address /\ e \in InCache(a) /\ held[t][a] > 0
  BY <1>0, <1>1, CacheAssumption, IoAssumption
     DEF IInv, CacheInv, Calls, Serving, Inside, Blocking
<1>3. e \in Entry /\ InCache(a) = {e}
  BY <1>2, OneEntry DEF IInv, CacheInv, IoTypeOK, TypeOK
<1>4. \A b : InCache(b)' = InCache(b)
  BY <1>1 DEF InCache
<1>5. owner'[e] = t /\ \A f \in Entry : f # e => owner'[f] = owner[f]
  BY <1>1, <1>3 DEF IInv, IoTypeOK, TypeOK
<1>6. InsideAddress(a) = None /\ InsideAddress(a)' = t
  BY <1>1, <1>3, <1>4, <1>5, InsideIs, InsideIsNext
<1>7. ASSUME NEW b \in Address, b # a PROVE InsideAddress(b)' = InsideAddress(b)
  <2>1. CASE InCache(b) = {}
    BY <1>4, <2>1, InsideIs, InsideIsNext
  <2>2. ASSUME NEW f \in InCache(b) PROVE InsideAddress(b)' = InsideAddress(b)
    <3>1. InCache(b) = {f} /\ f \in Entry
      BY OneEntry DEF IInv, CacheInv, IoTypeOK, TypeOK
    <3>2. f # e
      BY <1>3, <1>7 DEF InCache
    <3> QED BY <1>4, <1>5, <3>1, <3>2, InsideIs, InsideIsNext
  <2> QED BY <2>1, <2>2
<1>8. InsideAll' = [InsideAll EXCEPT ![a] = t] /\ InsideAll[a] = None
  BY <1>2, <1>6, <1>7 DEF InsideAll
<1>9. Promise!Admit(t, a)
  BY <1>1, <1>2, <1>8 DEF Promise!Admit, InsideAll
<1> QED BY <1>2, <1>9

(* Each step of the system is a step of the monitors, or unseen.           *)
LEMMA StepSeen ==
    ASSUME IInv, [IoNext]_allVars
    PROVE  [Promise!Next]_<<held, InsideAll>>
<1>1. ASSUME UNCHANGED <<cached, address, owner, held>> PROVE UNCHANGED <<held, InsideAll>>
  BY <1>1, InsideSame DEF InsideAll
<1>2. ASSUME NEW t \in Thread, NEW a \in Address,
             \/ Promise!Enter(t, a) \/ Promise!Leave(t, a)
             \/ Promise!StepOut(t, a) \/ Promise!Admit(t, a)
      PROVE  Promise!Next
  BY <1>2 DEF Promise!Next
<1>3. ASSUME NEW t \in Thread, ClientCall(t) PROVE [Promise!Next]_<<held, InsideAll>>
  <2>1. pc[t] = "user" /\ \A a \in Object : a \in Address
    BY <1>3, CacheAssumption DEF ClientCall
  <2>2. ASSUME NEW a \in Object, CEnter(t, a, "user") PROVE UNCHANGED <<held, InsideAll>>
    BY <2>1, <2>2, CEnterUnseen
  <2>3. ASSUME NEW a \in Object, held[t][a] > 0, CExit(t, a, "user")
        PROVE  [Promise!Next]_<<held, InsideAll>>
    BY <1>2, <2>1, <2>3, CExitSeen DEF ExitFrom
  <2>4. ASSUME NEW a \in Object, NEW hasTimeout, CWait(t, a, hasTimeout, "user")
        PROVE  [Promise!Next]_<<held, InsideAll>>
    BY <1>2, <2>1, <2>4, CWaitSeen DEF Blocking
  <2>5. ASSUME NEW a \in Object, NEW how, CNotify(t, a, how)
        PROVE  UNCHANGED <<held, InsideAll>>
    BY <1>1, <2>5 DEF CNotify
  <2> QED BY <1>3, <2>2, <2>3, <2>4, <2>5 DEF ClientCall
<1>4. ASSUME NEW t \in Thread, CacheStep(t) PROVE [Promise!Next]_<<held, InsideAll>>
  <2>1. ASSUME Free(t) PROVE [Promise!Next]_<<held, InsideAll>>
    <3>1. pc[t] = "mallocExit" /\ MallocLock \in Address /\ CExit(t, MallocLock, "expand")
      BY <2>1, CacheAssumption DEF Free, IInv, CacheInv, Calls
    <3> QED BY <1>2, <3>1, CExitSeen DEF ExitFrom
  <2> QED BY <1>2, <1>4, <2>1, ExpandUnseen, EnterSeen, ReturnSeen DEF CacheStep
<1>5. ASSUME NEW t \in Thread, Read(t) PROVE UNCHANGED <<held, InsideAll>>
  BY <1>1, <1>5 DEF Read, GoTo
<1>6. ASSUME NEW t \in Thread, IoStep(t) PROVE [Promise!Next]_<<held, InsideAll>>
  <2>1. t \in Address
    BY IoAssumption
  <2>2. ASSUME IoGet(t) PROVE UNCHANGED <<held, InsideAll>>
    BY <2>1, <2>2, CEnterUnseen DEF IoGet
  <2>3. ASSUME IoExit(t) PROVE [Promise!Next]_<<held, InsideAll>>
    BY <1>2, <2>1, <2>3, CExitSeen DEF IoExit, ExitFrom
  <2>4. ASSUME IoWaitOn(t) PROVE [Promise!Next]_<<held, InsideAll>>
    BY <1>2, <2>1, <2>4, CWaitSeen DEF IoWaitOn, Blocking
  <2>5. ASSUME IoQueue(t) \/ IoUnlink(t) PROVE UNCHANGED <<held, InsideAll>>
    BY <1>1, <2>5 DEF IoQueue, IoUnlink, GoTo
  <2> QED BY <1>5, <1>6, <2>2, <2>3, <2>4, <2>5 DEF IoStep
<1>7. ASSUME NEW t \in Thread,
             TimedOut(t) \/ Poll(t) \/ DataArrives(t)
             \/ SetPendingException(t) \/ ClearPendingException(t)
      PROVE  UNCHANGED <<held, InsideAll>>
  BY <1>1, <1>7 DEF TimedOut, Poll, DataArrives, SetPendingException, ClearPendingException, vars
<1>8. CASE UNCHANGED allVars
  BY <1>1, <1>8 DEF allVars, vars
<1> QED BY <1>3, <1>4, <1>5, <1>6, <1>7, <1>8 DEF IoNext

(* Whatever address client code synchronizes on, it has a monitor like     *)
(* that of PR_NewMonitor: the entries that come and go behind it, and the  *)
(* threads that expand the cache, cannot be seen.                          *)
THEOREM ImplementsAddresses == IoSpec => AddressesAreMonitors
<1>1. IoInit => Promise!Init
  <2> SUFFICES ASSUME IoInit PROVE Promise!Init
    OBVIOUS
  <2>1. cached = {} /\ held = [t \in Thread |-> [a \in Address |-> 0]]
    BY DEF IoInit, Init
  <2>2. \A a : InCache(a) = {}
    BY <2>1 DEF InCache
  <2>3. \A a \in Address : InsideAddress(a) = None
    BY <2>2, InsideIs
  <2> QED BY <2>1, <2>3 DEF Promise!Init
<1>2. IInv /\ [IoNext]_allVars => [Promise!Next]_<<held, [a \in Address |-> InsideAddress(a)]>>
  BY StepSeen DEF InsideAll
<1> QED BY <1>1, <1>2, Inductive, PTL DEF IoSpec, AddressesAreMonitors, Promise!Spec
=============================================================================
