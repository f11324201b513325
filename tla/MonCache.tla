------------------------------ MODULE MonCache ------------------------------
(***************************************************************************)
(* The monitor cache of NSPR (nspr/src/prmcache.c): PR_CEnterMonitor and   *)
(* its kin give any address a monitor while somebody uses it.  A cache     *)
(* entry carries one system monitor for ever; it is taken off a free list  *)
(* for the address that is entered first and put back by the last exit,    *)
(* and the monitor then serves another address.                            *)
(*                                                                         *)
(* The cache has a lock, _pr_mcache_lock.  It is held over several steps   *)
(* only while the cache expands, which may call malloc, which on some      *)
(* systems guards itself with a cached monitor (md_SunOS.c); every other   *)
(* section under it touches nothing else and does not block, and is one    *)
(* step.  The system monitors are those of module Monitors: who is let in  *)
(* among several that wait is open.                                        *)
(***************************************************************************)
EXTENDS Integers, Sequences, FiniteSets, SequencesExt

CONSTANTS
    Thread, Address, Entry, None,
    Object,        \* the addresses client code synchronizes on
    MallocLock,    \* the one malloc synchronizes on, None if it needs none
    FirstFree,     \* the entries _PR_InitMonitorCache makes, a sequence
    Fresh,         \* the entries later expansions may allocate, a sequence
    FreeThreshold, \* FREE_THRESHOLD
    MaxHeld,       \* bound: nested entries of one address
    MaxSticky      \* bound: sticky notifies of one monitor

ASSUME CacheAssumption ==
    /\ Object \subseteq Address /\ MallocLock \in Object \cup {None}
    /\ None \notin Address \cup Thread \cup Entry
    /\ FirstFree \in Seq(Entry) /\ Fresh \in Seq(Entry)
    /\ IsInjective(FirstFree) /\ IsInjective(Fresh)
    /\ ToSet(FirstFree) \cap ToSet(Fresh) = {}
    /\ FreeThreshold \in Nat /\ MaxHeld \in Nat /\ MaxSticky \in Nat

VARIABLES
    cached,      \* the entries in the hash buckets
    address,     \* p->address
    users,       \* p->cacheEntryCount
    freeEntries, \* free_entries; num_free_entries is its length
    fresh,       \* what malloc has left for expansions
    expanding,   \* the thread that expands the cache, holding its lock
    owner,       \* p->mon->owner
    count,       \* p->mon->count
    stickyCount, \* p->mon->stickyCount
    pc,          \* what each thread does next
    addr,        \* the address its call is about
    mon,         \* the entry whose monitor its call uses
    ret,         \* where it goes on after the call
    saved,       \* thread->monitorEntryCount
    timed,       \* its PR_CWait has a timeout
    held         \* history: entries less exits, per thread and address

cacheVars   == <<cached, address, users, freeEntries, fresh, expanding>>
monitorVars == <<owner, count, stickyCount>>
threadVars  == <<pc, addr, mon, ret, saved, timed>>
vars        == <<cacheVars, monitorVars, threadVars, held>>

Init ==
    /\ cached = {} /\ freeEntries = FirstFree /\ fresh = Fresh
    /\ address = [e \in Entry |-> None]
    /\ users = [e \in Entry |-> 0]
    /\ expanding = None
    /\ owner = [e \in Entry |-> None]
    /\ count = [e \in Entry |-> 0]
    /\ stickyCount = [e \in Entry |-> 0]
    /\ pc = [t \in Thread |-> "user"]
    /\ addr = [t \in Thread |-> None]
    /\ mon = [t \in Thread |-> None]
    /\ ret = [t \in Thread |-> "user"]
    /\ saved = [t \in Thread |-> 0]
    /\ timed = [t \in Thread |-> FALSE]
    /\ held = [t \in Thread |-> [a \in Address |-> 0]]
-----------------------------------------------------------------------------
NoLock(t) == TRUE                               \* mutant of CanLock

(* The cache lock is free, or the caller's own from ExpandMonitorCache.    *)
CanLock(t) == expanding \in {None, t}

InCache(a) == {e \in cached : address[e] = a}
Lookup(a)  == {e \in InCache(a) : users[e] > 0}

TakeEntry(t, a, free) ==
    /\ free # <<>>
    /\ freeEntries' = Tail(free)
    /\ cached' = cached \cup {Head(free)}
    /\ address' = [address EXCEPT ![Head(free)] = a]
    /\ users' = [users EXCEPT ![Head(free)] = @ + 1]
    /\ stickyCount' = [stickyCount EXCEPT ![Head(free)] = 0]
    /\ mon' = [mon EXCEPT ![t] = Head(free)]

AnyFree(t) == freeEntries # <<>>                \* mutant of EnoughFree

(* Entries are kept in reserve for what malloc needs while expanding.      *)
EnoughFree(t) == Len(freeEntries) >= FreeThreshold \/ expanding = t

(* CreateMonitor: the entry of this address, or a free one if that leaves  *)
(* enough.  Its monitor is "conceptually a new" one.                       *)
CreateMonitor(t, a) ==
    /\ CanLock(t)
    /\ \/ \E e \in InCache(a) :
            /\ users' = [users EXCEPT ![e] = @ + 1]
            /\ stickyCount' = [stickyCount EXCEPT ![e] = 0]
            /\ mon' = [mon EXCEPT ![t] = e]
            /\ UNCHANGED <<cached, address, freeEntries>>
       \/ /\ InCache(a) = {}
          /\ EnoughFree(t)
          /\ TakeEntry(t, a, freeEntries)

(* ExpandMonitorCache, with the cache locked: malloc, ...                  *)
StartExpanding(t, a) ==
    /\ expanding = None
    /\ InCache(a) = {} /\ Len(freeEntries) < FreeThreshold
    /\ expanding' = t
    /\ pc' = [pc EXCEPT ![t] = IF MallocLock = None THEN "expand" ELSE "malloc"]

Malloc(t) ==
    /\ pc[t] = "malloc" /\ CreateMonitor(t, MallocLock)
    /\ pc' = [pc EXCEPT ![t] = "mallocEnter"]
    /\ UNCHANGED <<fresh, expanding, owner, count, addr, ret, saved, timed, held>>

(* ... then the new entries, for as many as there is memory; none is       *)
(* failure.  The call that needed room goes on.                            *)
Expand(t) ==
    /\ pc[t] = "expand" /\ expanding' = None
    /\ \/ \E n \in DOMAIN fresh :
            /\ fresh' = SubSeq(fresh, n + 1, Len(fresh))
            /\ TakeEntry(t, addr[t], SubSeq(fresh, 1, n) \o freeEntries)
            /\ pc' = [pc EXCEPT ![t] = "enter"]
       \/ /\ pc' = [pc EXCEPT ![t] = ret[t]]
          /\ mon' = [mon EXCEPT ![t] = None]
          /\ UNCHANGED <<cached, address, users, freeEntries, fresh, stickyCount>>
    /\ UNCHANGED <<owner, count, addr, ret, saved, timed, held>>
-----------------------------------------------------------------------------
(* PR_CEnterMonitor: find the monitor, with the cache locked, ...          *)
CEnter(t, a, next) ==
    /\ addr' = [addr EXCEPT ![t] = a]
    /\ ret' = [ret EXCEPT ![t] = next]
    /\ \/ /\ CreateMonitor(t, a)
          /\ pc' = [pc EXCEPT ![t] = "enter"]
          /\ UNCHANGED expanding
       \/ /\ StartExpanding(t, a)
          /\ UNCHANGED <<cached, address, users, freeEntries, stickyCount, mon>>
    /\ UNCHANGED <<fresh, owner, count, saved, timed, held>>

(* ... and enter it, once nobody else is inside.  malloc's own monitor is  *)
(* entered like any other, with the cache still locked.                    *)
Enter(t) ==
    LET a == IF pc[t] = "enter" THEN addr[t] ELSE MallocLock IN
    /\ pc[t] \in {"enter", "mallocEnter"} /\ owner[mon[t]] \in {None, t}
    /\ owner' = [owner EXCEPT ![mon[t]] = t]
    /\ count' = [count EXCEPT ![mon[t]] = @ + 1]
    /\ held' = [held EXCEPT ![t][a] = @ + 1]
    /\ pc' = [pc EXCEPT ![t] = IF @ = "enter" THEN ret[t] ELSE "mallocExit"]
    /\ UNCHANGED <<cacheVars, stickyCount, addr, mon, ret, saved, timed>>

(* PR_CExitMonitor.  The use of the cache entry ends whether or not the    *)
(* monitor was the caller's; the last one frees the entry.                 *)
EndUse(e) == [users EXCEPT ![e] = @ - 1]

FreeUnused(e) ==
    IF users[e] = 1
    THEN cached' = cached \ {e} /\ freeEntries' = <<e>> \o freeEntries
    ELSE UNCHANGED <<cached, freeEntries>>

CExit(t, a, next) ==
    /\ CanLock(t)
    /\ \/ \E e \in Lookup(a) :
            /\ users' = EndUse(e)
            /\ FreeUnused(e)
            /\ \/ /\ owner[e] = t
                  /\ count' = [count EXCEPT ![e] = @ - 1]
                  /\ owner' = [owner EXCEPT ![e] = IF count[e] = 1 THEN None ELSE @]
                  /\ held' = [held EXCEPT ![t][a] = @ - 1]
               \/ /\ owner[e] # t
                  /\ UNCHANGED <<owner, count, held>>
       \/ /\ Lookup(a) = {}
          /\ UNCHANGED <<cached, users, freeEntries, owner, count, held>>
    /\ pc' = [pc EXCEPT ![t] = next]
    /\ UNCHANGED <<address, fresh, expanding, stickyCount, addr, mon, ret, saved, timed>>

Free(t) == pc[t] = "mallocExit" /\ CExit(t, MallocLock, "expand")

(* PR_CWait: a sticky notify is taken at once, whoever it was meant for.   *)
CWait(t, a, hasTimeout, next) ==
    /\ CanLock(t)
    /\ \/ \E e \in Lookup(a) :
            \/ /\ stickyCount[e] > 0
               /\ stickyCount' = [stickyCount EXCEPT ![e] = @ - 1]
               /\ pc' = [pc EXCEPT ![t] = next]
               /\ UNCHANGED <<owner, count, addr, mon, ret, saved, timed>>
            \/ /\ stickyCount[e] = 0 /\ owner[e] = t
               /\ owner' = [owner EXCEPT ![e] = None]
               /\ count' = [count EXCEPT ![e] = 0]
               /\ saved' = [saved EXCEPT ![t] = count[e]]
               /\ addr' = [addr EXCEPT ![t] = a]
               /\ mon' = [mon EXCEPT ![t] = e]
               /\ ret' = [ret EXCEPT ![t] = next]
               /\ timed' = [timed EXCEPT ![t] = hasTimeout]
               /\ pc' = [pc EXCEPT ![t] = "wait"]
               /\ UNCHANGED stickyCount
       \/ /\ Lookup(a) = {}
          /\ pc' = [pc EXCEPT ![t] = next]
          /\ UNCHANGED <<owner, count, stickyCount, addr, mon, ret, saved, timed>>
    /\ UNCHANGED <<cacheVars, held>>

Waiters(e) == {t \in Thread : pc[t] = "wait" /\ mon[t] = e}

Wake(T) == pc' = [t \in Thread |-> IF t \in T THEN "woken" ELSE pc[t]]

(* PR_CNotify and PR_CNotifyAll, by a thread inside.                       *)
CNotify(t, a, how) ==
    /\ CanLock(t)
    /\ \E e \in Lookup(a) :
         /\ owner[e] = t /\ Waiters(e) # {}
         /\ \/ how = "ONE" /\ \E u \in Waiters(e) : Wake({u})
            \/ how = "ALL" /\ Wake(Waiters(e))
    /\ UNCHANGED <<cacheVars, monitorVars, addr, mon, ret, saved, timed, held>>

TimedOut(t) ==
    /\ pc[t] = "wait" /\ timed[t] /\ Wake({t})
    /\ UNCHANGED <<cacheVars, monitorVars, addr, mon, ret, saved, timed, held>>

(* The thread gets the monitor back, as many times as it had entered it.   *)
Return(t) ==
    /\ pc[t] = "woken" /\ owner[mon[t]] = None
    /\ owner' = [owner EXCEPT ![mon[t]] = t]
    /\ count' = [count EXCEPT ![mon[t]] = saved[t]]
    /\ pc' = [pc EXCEPT ![t] = ret[t]]
    /\ UNCHANGED <<cacheVars, stickyCount, addr, mon, ret, saved, timed, held>>
-----------------------------------------------------------------------------
(* Client code exits, waits and notifies only inside; in malloc it does    *)
(* nothing else.                                                           *)
InMalloc(t) == MallocLock # None /\ held[t][MallocLock] > 0

ClientCall(t) ==
    /\ pc[t] = "user"
    /\ \E a \in Object :
         \/ held[t][a] < MaxHeld /\ ~InMalloc(t) /\ CEnter(t, a, "user")
         \/ held[t][a] > 0 /\ CExit(t, a, "user")
         \/ /\ held[t][a] > 0 /\ ~InMalloc(t)
            /\ \/ \E hasTimeout \in BOOLEAN : CWait(t, a, hasTimeout, "user")
               \/ \E how \in {"ONE", "ALL"} : CNotify(t, a, how)

CacheStep(t) == Malloc(t) \/ Expand(t) \/ Enter(t) \/ Free(t) \/ Return(t)

Next == \E t \in Thread : ClientCall(t) \/ CacheStep(t) \/ TimedOut(t)

Spec == Init /\ [][Next]_vars
-----------------------------------------------------------------------------
Pc == {"user", "malloc", "mallocEnter", "mallocExit", "expand", "enter", "wait",
       "woken", "ioQueue", "ioWait", "ioExit", "ioUnlink", "ioRead", "ioGet"}

(* The types of the cache's data and of the threads' locals.               *)
TypeOK ==
    /\ cached \subseteq Entry /\ freeEntries \in Seq(Entry) /\ fresh \in Seq(Entry)
    /\ address \in [Entry -> Address \cup {None}] /\ users \in [Entry -> Nat]
    /\ expanding \in Thread \cup {None}
    /\ owner \in [Entry -> Thread \cup {None}]
    /\ count \in [Entry -> Nat] /\ stickyCount \in [Entry -> Nat]
    /\ pc \in [Thread -> Pc] /\ addr \in [Thread -> Address \cup {None}]
    /\ mon \in [Thread -> Entry \cup {None}] /\ ret \in [Thread -> Pc]
    /\ saved \in [Thread -> Nat] /\ timed \in [Thread -> BOOLEAN]
    /\ held \in [Thread -> [Address -> Nat]]

(* The calls that have an entry for this address and are not inside yet.   *)
Entering(t, a) ==
    \/ pc[t] = "enter" /\ addr[t] = a
    \/ pc[t] = "mallocEnter" /\ a = MallocLock

Uses(t, a) == held[t][a] + (IF Entering(t, a) THEN 1 ELSE 0)

UsesOf(a) == UNION {{t} \X (1 .. Uses(t, a)) : t \in Thread}

(* The cache has one entry, with a right count, for each address that is   *)
(* used and none for others: no address is served by two monitors and no   *)
(* monitor is given away under those who use it; that of a free entry is   *)
(* nobody's, not owned and not waited for.                                 *)
CacheExact ==
    /\ \A a \in Address :
         \/ UsesOf(a) = {} /\ InCache(a) = {}
         \/ /\ UsesOf(a) # {}
            /\ \E e \in Entry : InCache(a) = {e} /\ users[e] = Cardinality(UsesOf(a))
    /\ IsInjective(freeEntries) /\ IsInjective(fresh)
    /\ ToSet(freeEntries) \cap ToSet(fresh) = {}
    /\ cached = (ToSet(FirstFree) \cup ToSet(Fresh))
                  \ (ToSet(freeEntries) \cup ToSet(fresh))
    /\ \A e \in Entry \ cached :
         /\ owner[e] = None /\ count[e] = 0
         /\ \A t \in Thread : pc[t] \in {"enter", "wait", "woken"} => mon[t] # e

(* Any address is a monitor like those of PR_NewMonitor, while its entry   *)
(* comes and goes and the system monitor behind it changes.                *)
InsideAddress(a) ==
    IF InCache(a) = {} THEN None ELSE owner[CHOOSE e \in InCache(a) : TRUE]

Promise == INSTANCE Monitors WITH
    Monitor <- Address, entries <- held, inside <- [a \in Address |-> InsideAddress(a)]

AddressesAreMonitors == Promise!Spec

(* "PR_ASSERT(num_free_entries > 0)" in CreateMonitor: malloc finds a free *)
(* entry although the cache is just being expanded for want of them.       *)
MallocFindsEntry ==
    \A t \in Thread :
      pc[t] = "malloc" => InCache(MallocLock) # {} \/ freeEntries # <<>>
=============================================================================
