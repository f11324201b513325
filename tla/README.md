# The concurrent core of Netscape Communicator 3.0.2 in TLA+

Netscape Communicator is C code of 1996.  Its portable runtime, NSPR
(`src/nspr`), multiplexes all threads of the program, those of Java among them,
on one Unix process: a kernel of its own with a scheduler, priorities, a clock
signal, monitors, sleeping, suspension, i/o waits and thread destruction.  On
it stand the places where Java and the rest of the program meet: event queues,
calls between Java and JavaScript, Java streams on the network library.  The
network library itself runs on one thread, but as a set of state machines whose
steps interleave, over caches whose entries they share and next to a second
process that looks up host names.

This project models these parts.  They hold nearly all the concurrency of the
program, and little of them can be tested: a failure needs a signal, a second
thread or an interrupted load at the wrong moment.

## Inventory

### The software kernel (`swthread.c`, `swsched.c`, `swintr.c`, `swmon.c`, `mdunix.c`, `prclist.h`)

| Part | State | Operations |
| --- | --- | --- |
| scheduler | `_pr_runq[]`, `_pr_runq_ready_mask`, `_pr_current_thread`, `_pr_suspendq`, `_pr_monitorq`, `_pr_zombieq`, `_pr_user_active`; per thread `state`, `priority`, `flags` | `_PR_Schedule`, `PR_Start`, `PR_Exit`, `PR_Yield`, `PR_Suspend`, `PR_Resume`, `PR_SetThreadPriority` |
| sleep queue | `_pr_sleepq`, `thread->sleep` relative to the sleeper before, `_PR_ON_SLEEPQ` | `PR_Sleep`, `_PR_PutOnSleepQ`, `_PR_FixSleepQ`, the clock tick |
| interrupts | `_pr_intsOff`, `_pr_missed[]`, the pending yield | clock and child-death handlers, `HandleInterrupt`, `_PR_IntsOn` |
| monitors | `owner`, `count`, `stickyCount`, `lockQ`, `condQ`; `thread->monitor`, `monitorEntryCount` | `PR_EnterMonitor`, `PR_ExitMonitor`, `PR_Wait`, `PR_Notify`, `PR_NotifyAll`, `_PR_MonNotify`, `_PR_CondNotify` |
| asynchronous operations | `pendingException`, the zombie queue | `PR_SetPendingException`, `PR_ClearPendingException`, `PR_DestroyThread`, `_PR_FreeZombies` |
| idle loop, i/o | `_pr_ioq`, poll queues on the stacks of waiting threads | `_PR_Idle`, `_PR_PauseForIO`, `_PR_IOWait`, `_PR_ReadFile` |

Interaction: every call runs between `_PR_IntsOff` and `_PR_IntsOn`.  A signal
in between is only counted, and `_PR_IntsOn` delivers it, in the context of
whatever call is just ending.  Threads interact through the queues and the
monitors; the clock moves sleepers and timed waiters, the idle loop and the
clock poll descriptors and notify waiters.  Hard: any of a notify, a timeout,
an exception, a suspension, a resume, a priority change and a destruction may
hit the same thread in any order; monitors are handed over directly, by
whichever function leaves one idle; relative times must be corrected by all
who take a sleeper out; missed signals run inside other calls.

Correct means: each thread is on exactly the queue of its state; the ready mask
is exact; entry counts are never lost; one thread inside a monitor; an idle
monitor is not kept from one that wants it; sleep times add up; the best ready
thread runs; what is suspended stays so; who is blocked is made ready.

### The monitor cache (`prmcache.c`) and i/o waits (`mdunix.c`)

State: hash buckets of entries (`address`, `mon`, `cacheEntryCount`), the free
list, the flag `expanding`, the lock `_pr_mcache_lock`; poll queues on the
stacks of threads that wait for i/o.  Operations: `PR_CEnterMonitor`,
`PR_CExitMonitor`, `PR_CWait`, `PR_CNotify`, `PR_CNotifyAll`,
`ExpandMonitorCache`, `_PR_ReadFile`, `_PR_IOWait`, `_PR_PauseForIO`.  Any
address is a monitor while used.  Hard: system monitors are recycled among
addresses while threads are between the look-up and the entry; expansion calls
`malloc` with the cache locked, and on Solaris `malloc` is guarded by a cached
monitor (`md_SunOS.c`); the poll notifies the monitor of a queue whose thread
may be about to wait, or to leave.  Correct means: one entry with a right count
for each address in use; an address behaves as one monitor; malloc finds an
entry; no i/o notify is lost or made to a queue that is gone.

### Event queues (`prevent.c`, `swmon.c`, `javactxt.c`, `lj_embed.c`)

State: the list of events, a pipe with a byte per notify, `notifyCount`, the
monitor of the queue, the cached monitor of each event.  Operations: posting
for a window, synchronous posting, taking and handling by the mozilla thread,
discarding the events of a window that closes.  Hard: the list and the pipe are
two pieces of state that change one after the other; a read of an empty pipe
blocks the whole process; events are memory that is freed and allocated again.
Correct means: no wakeup is lost, no read finds the pipe empty, every event is
in one place, none is left for a closed window, each is delivered in order.

### Calls between Java and JavaScript (`lj_thred.c`, the X lock of `mdunix.c`)

State: the states of the two sides, `doit`, the owner of the rendezvous, the X
lock.  Operations: `lj_Run` with callbacks that nest in both directions, the
event that brings the mozilla thread to the rendezvous.  Hard: the two sides
change their states under two monitors, in two steps; mozilla must not wait for
Java inside the X lock, which AWT needs.  Correct means: one side runs at a
time, each call returns to its own caller after its own callback, all return.

### Java streams on netlib (`conn.c`, `inStr.c`, `outStr.c`, `netStubs.c`)

State: `nsn_JavaStreamData` (a state, a `refcount`, an error), the queue of
data blocks, the URL struct.  Operations: post, connect, read, close, finalize
on one side; make the stream, write, complete, abort, exit on the other; a
window that closes.  Hard: either side may end first, the counter is changed
by one of them outside the monitor, a close may run out of memory half-way.  Correct means:
freed once and by the last, a state the next call expects, all that was posted,
a byte stream with an end that is the end, no reader that waits for ever.

### The memory cache of documents (`mkmemcac.c`, `xp_hash.c`)

State: copies of documents with read locks and external locks, a hash list, a
delete queue, the total size and its maximum.  Operations: filling, completing,
aborting, finding, loading, locking, removing, resizing.  Hard: a copy may be
replaced or thrown out while it is read or locked; many allocations may fail.
Correct means: the size is exact but for what is lost for good, what is read is in memory, no copy is lost or
lent again once withdrawn, the oldest copies go first.

### The DNS helper (`unix-dns.c`, `xfe-dns.c`)

State: the browser's queue of lookups and its loads, two pipes, the queue of
the helper process, a child process for each lookup.  Operations: begin a
lookup, interrupt it, read answers; accept commands, fork, pass answers on,
kill.  Hard: answers, acknowledgements and kills cross each other in the pipes,
their callbacks run the network layer in the middle of a call that waits, and
the helper may die at any time.
Correct means: a call gets its own acknowledgement, a load the address of its
own host, every lookup and every call ends.

### The rest of the program

The components of the repository are listed, with what is modelled of each, in
`PROJECT.json`; see also "Not modelled".

## Modules

| Module | Models | Uses |
| --- | --- | --- |
| `Links` | the list macros of `prclist.h`, on families of sequences | |
| `Monitors` | abstract: what `prmon.h` promises of monitors | |
| `SwKern` | the software kernel | `Links`, `Monitors` (refinement) |
| `SwAsync` | pending exceptions | `SwKern` |
| `MonCache` | the monitor cache | `Monitors` (refinement) |
| `IoWait` | read, `_PR_IOWait` and the poll | `MonCache` |
| `Mailbox` | abstract: what `prevent.h` promises of an event queue | |
| `EventQueue` | the event queues and who posts, handles and discards | `Links`, `Mailbox` (refinement) |
| `CallChain` | abstract: two merged threads that act like one | |
| `JavaSync` | the rendezvous of Java and JavaScript | `CallChain` (refinement) |
| `DataQueue` | the queue of data blocks of a stream | |
| `ByteStream` | abstract: what an input stream promises | |
| `JavaStream` | a Java URL connection on netlib | `DataQueue`, `ByteStream` (refinement) |
| `Lending` | abstract: what a cache promises those who read from it | |
| `MemCache` | the memory cache of documents | `Lending` (refinement) |
| `DnsHelper` | browser, helper and children of the host lookup | |
| `LinksProofs`, `SwKernProofs`, `IoWaitProofs`, `EventQueueProofs`, `JavaSyncProofs`, `JavaStreamProofs`, `MemCacheProofs`, `DnsHelperProofs` | theorems | |
| `MCSwKern`, `MCSwAsync`, `MCIoWait`, `MCEventQueue`, `MCJavaSync`, `MCJavaStream`, `MCMemCache`, `MCDnsHelper` | instances for TLC | |

The components meet at monitors.  `MonCache`, `EventQueue`, `JavaSync` and
`JavaStream` use monitors in the way `Monitors` describes them, which `SwKern`
is shown to implement; `MonCache` implements the same module for addresses.

### SwKern

`at` is the kernel function about to run.  At `"user"` interrupts are on and
client code runs: this is where calls and signals happen.  Anywhere else the
step of that function is the only one enabled, so a call is atomic but for its
own loops, which are steps of their own: `_PR_MonNotify` (`MonNotify`),
`_PR_CondNotify` (`CondNotifyLoop`, `CondNotifyEnd`), the blocking part of
`_PR_CondWait` (`CondWait`), the clock tick (`TickWakeSleeper`,
`TickWakeWaiter`, `TickDone`), the poll, `_PR_IntsOn` with its missed signals
(`MissedClock`, `MissedChildDeath`), `_PR_Schedule`.  `call` holds the locals
of the monitor function under way, `want` the wish to yield.  Two history
variables, `held` and `left`, are each thread's own account of its entries and
of the time it still has to sleep; invariants compare them with the kernel's.

What the model abstracts:

- A thread that is switched to goes on behind its own `_MD_SWITCH_CONTEXT`,
  where nearly all callers do `_PR_IntsOn(is, 0)`; `Schedule` goes to
  `"intsOn"` for all.
- All signals are masked in a handler (`mdunix.c:458-486`), so handlers do not
  nest; signals with interrupts on are taken at `"user"` only.
- The asynchronous-i/o interrupt has the shape of the child-death one.
- Which monitors a poll notifies is a free choice out of `IoMonitor`.
- `_pr_runq_ready_mask` is the set of its bits.  Through a stale
  `_PR_ON_SLEEPQ` the code may add to the `sleep` field of a queue header,
  which nobody reads: no effect.
- A call that returns -1 changes nothing and is no step.
- Selectable monitors (pipes) belong to the event queues; `_PR_LOCK_WAIT`
  and `swlock.c` are not used by the rest; priority inheritance is `#if 0`.
- The exit of the last user thread ends the process and is excluded.

### SwAsync

Adds what `PR_SetPendingException` does to a thread in any state, and the look
`PR_Sleep` takes before it sleeps.  A waiting thread goes to the `lockQ` of its
monitor, which is handed over if it is idle; a sleeping one is made ready
(`CutSleep`), but keeps `_PR_ON_SLEEPQ`, and a wish to suspend it is forgotten.  So
`QueuesMatchState` and `SuspendHolds` are false here; `AsyncKeepsQueues` says what of
the first is left, and `AsyncKeepsMonitors` that nothing is lost of what holds
for monitors.  All other steps are those of `SwKern`.

### Monitors

Two variables: the entries each thread has made, and who is inside.  A thread
with entries of a monitor it is not inside is blocked.  Steps: enter, leave one
entry, step out to wait, be admitted.  `SwKern` implements it with
`entries <- held, inside <- owner` (`KeepsPromise`), `MonCache` with
`inside` the owner of whichever system monitor serves the address at the time
(`AddressesAreMonitors`).

### MonCache

An entry stands for its system monitor, which it carries for ever.  A critical
section under `_pr_mcache_lock` touches nothing else and is one step, except
while the cache expands: `expanding` is the thread that then holds the lock,
over malloc and until the entries are made.  The hash chains are a set.  One
malloc stands for the three allocations of an expansion; an expansion adds any
non-empty part of `Fresh`, or fails.  The system monitors are those of
`Monitors`: who among several is admitted, and which waiter is notified, is
open.  Clients exit, wait and notify only inside, and malloc does nothing else
while it is locked.  A notify that finds no waiters is a stutter.

### IoWait

`Thread` is a subset of `Address`: a poll queue is on the stack of its thread
and is named by it.  `Read` is the loop of `_PR_ReadFile`; `IoGet`, `IoQueue`,
`IoWaitOn`, `IoExit` and `IoUnlink` are `_PR_IOWait`, between whose steps
anything may happen; `Poll` is the part of `_PR_PauseForIO` for one queue, with
its sticky notify on `pollq->mon`.  Several queues found ready by one `select`
are several steps.  Data, once there, stays until it is read.

### EventQueue

A thread holds the queue's monitor over several steps, as the code does
(`owner`, `count`), so posting is `PR_EnterMonitor` (of `javactxt.c`),
the look at the context, the append, the notify with its byte, and the exit,
with everything the mozilla thread does between them.  `pipe` and
`notifyCount` are what `swmon.c` keeps: a byte is read only when the counter says
there is one, for whichever queue.  An event is a piece of memory, with a
`maker` while it is allocated; its address is that of the cached monitor of a
synchronous post (`eventOwner`).  `Mailbox` is implemented with the list of
events and the one being handled; the events of a closing window are discarded
one at a time, each a withdrawal.
What user code posts and what handlers do is free.

### JavaSync

Each thread has a program counter and a stack of frames, one for each `lj_Run`
it is in: its kind, whose callback it runs, and how often its own callback has
run.  A critical section of one monitor is a step.  The owner's change of its
own state and of the other side's are two (`YieldTo`, `Order`); the calls
themselves are `CallMozilla` and `CallJava`.  The event `SlaveToJava` is a
number of posted events, as they are all alike.  That callbacks call back, as
deep as `MaxDepth`, is a call by a thread inside a callback.

`CallChain` is what the comments of `lj_thred.c` ask for, without monitors,
states and events: the turn goes to the other side with a call, comes back with the
end of its callback, and a thread that runs may call in turn; Java calls first,
and no second Java thread begins before the last call of the first has returned.
It is implemented with the frames of a thread as its open calls, less that of
`lj_HandleEvent_SlaveToJava`, and the turn told from where the two threads are
(`Turn`): who runs a callback has it, then who has a frame whose callback has run
and who has not returned yet, else who called last.

### DataQueue and JavaStream

`DataQueue` has the blocks with their bytes and the room behind them.  In
`JavaStream` a method between `ENTER_METHOD` and `EXIT_METHOD` is a step, what is
done outside the monitor a step of its own: the load and the store of the
finalizer's `--refcount` (`FinalizeLoad`, `FinalizeStore`), the look at the state in
`nsn_JavaStream_make`.  Netlib's exit counts down inside the monitor (`inStr.c:115`),
but the finalizer does not enter it for its own, so that the exit is split too
(`Exit`, `ExitStore`; `MonitorFree` keeps the others out in between).  Bytes are numbered as they are sent, so
order and loss can be seen; `posted` is what Java gave to be posted.

### MemCache

A call is a step, as the network layer has one thread; loads and streams
interleave between calls.  `CopyState` is `net_MemoryCacheObject`.  Reducing the
cache is the recursion of the code, with its effect on the order of the list.
Failing allocations are choices inside each call.  So is the link that
`XP_ListAddObject` or `XP_ListAddObjectToEnd` cannot allocate for a segment that
was counted already (`Leak`): the segment is lost, and `leaked` counts what is.
A copy whose first segment was lost is neither written nor loaded: both
calls would go through a null pointer.  Sizes are counted in segments.

### DnsHelper

The three kinds of process, with the two pipes as sequences.  A call of the
browser (`StartLookup`, `ClearDNSSelect`) writes its command and is then
on the stack `waits`; every line it reads is a step, and the callback of an
answer may, if `MaxNesting` allows, make a further call.  A child writes its
answer or is killed.  The helper may die at any step (`HelperDies`: it leaves most
signals at their default) or when it cannot fork.  Netlib ignores SIGPIPE
(`mkgeturl.c:361-363`), so a command to a dead helper is just lost (`Send`), and
the call goes on to the end of the file (`AtEof`), which comes when the children,
who have the pipe open too, are gone.  `Spins` are the states of a kill that does not
get out of that (see "Where the code departs from what it says").  `given` is a history variable: what the last lookup of
each load came to.

## Runs

All bounds are constants of the cfg files.

| Run | Question | Instance |
| --- | --- | --- |
| `signals` | kernel calls against clock, poll, child death and priorities; entries, queues, sleep times, refinement of `Monitors` | main, one thread and idle, 2 priorities, nesting 2, naps of 1 and 3, ticks of 2, a clock set back by 1, 1 sticky notify |
| `progress` | exclusion, hand-over, liveness of blocked threads | main, two threads and idle of one priority, nap 2 |
| `exceptions` | exceptions against sleeps, waits, notifies, timeouts and suspension | main, one thread and idle, 2 priorities, 2 exceptions each |
| `cachedio` | the monitor cache, its refinement of `Monitors`, lost notifies, liveness of reads | 2 threads, 1 of which reads, 2 objects (one malloc's), 2 entries and 1 more, reserve 2 |
| `reading` | liveness of reads when a third thread is in malloc | 2 readers and a client, malloc's object, 3 entries |
| `events` | posting against handling and closing; refinement of `Mailbox`; delivery | 2 posters, 1 synchronous, 2 events, 1 window, 2 bytes in the pipe |
| `merging` | the rendezvous, its refinement of `CallChain` and its liveness | 3 Java threads, calls nested twice, 1 event outstanding |
| `streams` | life of a connection; refinement of `ByteStream`; liveness of readers | 2 Java threads, blocks of 2, writes of 2 and 3, reads of 1 and 3, 5 bytes, 2 posted |
| `documents` | the memory cache; refinement of `Lending`; order of eviction | 2 URLs, 3 copies, 2 streams, 2 loads, lengths and sizes 0 and 2 |
| `lookups` | acknowledgements, queues, addresses, liveness of lookups | 2 sockets, 2 hosts, 4 lookups, forks may fail, children ignore SIGQUIT, no nested call |
| `smallwrites` | finding: bytes overtake each other | 1 reader, writes of 1 and 2 |
| `nestedlookup` | finding: two acknowledgements in the pipe | as `lookups`, 1 nested call, 3 lookups |

Why the bounds are enough.  *Kernel*: a race for a monitor needs an owner, a
waiter and a third that notifies, suspends or enters in between; in
`signals` the clock, the poll and the child-death handler are that third, in
`progress` it is a thread.  In `exceptions` two threads are in each other's way at
their monitor and the clock is the third; an exception while the other
is inside, is about to leave or has left is three cases of one wait.  Nesting 2 tells "one entry" from
"all entries".  Two priorities tell better from equal and equal from worse.  A
nap shorter and one longer than a tick make a tick expire one, several or no
sleepers and leave a remainder.  *Cache*: a reader's own address, two
objects and malloc's compete for at most three entries, with the reserve so set
that every entry may start an expansion, which may find memory or none.  The
expansion needs malloc, and to be stopped in it needs a thread that is inside:
so `reading` has a third thread beside one that reads and one that expands.
*Events*: two posters and two events make a queue longer than one, memory that
is freed and taken by the other poster, and a byte that is used up by somebody
else's event.  *Rendezvous*: one Java thread that owns it, one that waits for
it and one that comes in between; depth 2 has a callback inside a callback on
either side.  *Streams*: writes that fill a block, leave room in one and spill
into the next, reads that end inside, at the end of and behind a block.
*Documents*: two URLs and three copies let a copy be replaced while it is read
and while another is thrown out; a maximum of 0 and of one document make
the cache empty, full and over-full; one lost unit (`MaxLeaked`) is enough for
the size to be more than that of all copies.  *Lookups*: four lookups on two sockets
let a socket interrupt and begin again while its first answer is under way
and the other's is in front of it.

In `documents` what starts alike is interchangeable, so it uses symmetry; no run
with a liveness property does.  Deadlock is checked in the
kernel runs and in `documents`.  Elsewhere the system may rightly stop: all
clients may wait for a notify nobody makes, all bounded events and bytes may
be used up, a load may be over.  The properties of liveness say who may not
be left behind then.  The largest instances take two to four minutes with
two workers.  `MaxCount`, `MaxHeld`, `MaxSticky`, `MaxException`, `MaxConnect`,
`MaxToken`, `MaxDepth`, `MaxEvents`, `MaxBytes`, `MaxPost`, `MaxSegments`,
`MaxHolds`, `MaxReads`, `MaxLeaked`, `MaxNesting` and `MaxLookups` are guards that stop
counters; time is bounded by `SleepTime` and `Elapsed`, and `Client` says which
threads of `IoWait` make calls of their own.

## Fairness

`Fairness` of `SwKern`: kernel code goes on (weak; it holds the processor), a
thread that is to yield yields, idle loops, and the interval timer goes off
again and again, also with interrupts off, as `_PR_IntsOn` delivers it (strong).
`ClientFairness`: a thread that runs again and again inside a monitor leaves it.
No fairness among threads of equal priority is assumed; none is provided
either: a tick that arrives as a missed one never time-slices, because
`_PR_IntsOn` yields only if the tick made a thread ready, while only
`HandleInterrupt` looks for an equal one.  Hence `BlockedReturns` claims that a
blocked thread is made ready, not that it runs.  With a nap of one tick a
sleeper can keep the kernel busy for ever in the same way; the run uses 2.

`IoWait`: steps inside a call are strongly fair, because the lock they may
have to wait for is a monitor of the kernel, which is handed to its waiters in
turn (what `BlockedReturns` shows); idle or the clock polls (weak).
`IoReturns` asks nothing of clients, but excepts two of them that wait for each
other with the cache locked (`Jammed`).

`EventQueue`: the steps of a poster inside its call and those of the mozilla
thread that processes events are strongly fair, for the same reason and because
the toolkit looks at the pipe between user actions.  Nobody need post or close.

`JavaSync`: steps inside a call are made (weak); a callback returns (strong, for
each depth, as the other side's callbacks may come in between); a thread that
waits for the rendezvous gets it when it is free again and again; Java code
leaves the X lock; the mozilla thread comes back to its event loop and to the X
lock.

`JavaStream`: netlib does not stop before it has called the exit routine, and
threads go on inside a method (weak).  No reader, closer or finalizer need come.

`DnsHelper`: the browser comes back to its event loop, the helper to its
`select`, which returns every child that has written, and `gethostbyname`
returns (weak).  Nothing makes the helper die or live.  `LookupsEnd` says that calls
end, a kill that spins (`Spins`) excepted, and that loads do, unless the helper
is dead: those whose lookups it had are never told.

## Proofs

All theorems hold for every value of the constants that the named assumptions
allow, with these exceptions.  `MallocCorrect` assumes that `FREE_THRESHOLD` is 2
or more and that the first expansion makes that many entries less one: the code
has 5 and 32.  Those on `DnsHelper` are about behaviours, not constants: they hold
as long as no call is made inside another's wait (`Unnested`), for any
`MaxNesting`.  The first call that is ends their reach, as it must: the run
`nestedlookup` shows that they are false from there on.  Those on
`EventQueue` assume one queue, as the program has: with a second the counter of
notifies is not that of the pipe that is read.  `NothingForTheDead` assumes
further that one thread at most posts synchronously: the result of an event
that has been freed may otherwise be cleared by its old poster after another
has posted it again (`prevent.c:79`), which is not an event of a stream then but
looks like one.  `HighestRuns` speaks of programs whose clients stay out of
`PR_SingleThread`, as `RunsHighest` does: inside it the kernel does not
reschedule.  `ReadsByteStream` is about behaviours too: those in which no write comes to a
queue whose first block has room and others behind it (`WritesAtEnd`).  What sizes
writes have it does not say, and short ones are harmless elsewhere; a write
that does come to such a queue is what the run `smallwrites` shows.  Two assumptions on constants go beyond types: `TimeAssumption`, that the
times clients and clock use are below `LL_MAXINT`, which stands for ever, and
`CacheAssumption`, that the null pointer is not a copy or a record of one.

| Theorem | Says |
| --- | --- |
| `SwKernProofs` `TypeCorrect`, `KernelInvariant` | `TypeOK`, and with it `KernelInv`, as `KernelSound` |
| `QueuesCorrect`, `EntriesCorrect`, `HandoffCorrect` | the parts of `KernelInv` by name |
| `Exclusive` | `MutualExclusion`, which follows from the entry counts |
| `ImplementsMonitors` | the kernel implements `Monitors` |
| `HighestRuns` | `RunsHighest`: client code runs on the best thread there is |
| `SleepTimesExact` | `SleepQueueExact`: relative times add up to the times left |
| `AsyncMonitorsKept` | `AsyncKeepsMonitors`: the monitors stay right among exceptions |
| `AsyncQueuesKept` | `AsyncKeepsQueues`: so do the run queues and the ready mask |
| `ExceptionsWake` | `NoSleepWithException` |
| `IoWaitProofs` `CacheCorrect`, `IoCorrect` | `CacheExact`, `IoInv` |
| `MallocCorrect` | `MallocFindsEntry` |
| `ImplementsAddresses` | any address is a monitor as in `Monitors` |
| `EventQueueProofs` `EventsCorrect` | `EventInv`: an event in use is in one place, no read finds the pipe empty |
| `NoWakeupLost`, `NothingForTheDead` | `NoLostWakeup`, `NoEventForDeadContext` |
| `ImplementsMailbox` | the event queue implements `Mailbox` |
| `JavaStreamProofs` `StreamCorrect` | `StreamInv`: states, references, the URL freed once |
| `PostsInOrder` | `PostedInOrder`: what Java writes is posted whole and in order |
| `ReadsByteStream` | the stream implements `ByteStream`, as long as writes are added at the end |
| `JavaSyncProofs` `SyncCorrect`, `OneAtATime`, `OutsideX` | `SyncInv`, `OneRuns`, `WaitsOutsideX` |
| `OneThread` | the merged threads implement `CallChain` |
| `MemCacheProofs` `CacheCorrect`, `SizeCorrect`, `ServedCorrect` | `CacheInv`, `SizeExact`, `ServedIsKept` |
| `LendsCopies` | the cache implements `Lending` |
| `OldestThrownOut` | `ThrowsOutOldest`: what the reducing of the cache may throw out |
| `DnsHelperProofs` `Acknowledging`, `QueuesCorrect`, `AddressCorrect` | `OneAck`, `DnsInv`, `RightAddress`, until the first nested call |

**Kernel.**  `IInv == TypeOK /\ KernelInv`.  `KernelInv` is what a kernel call
relies on when it starts: queues match states, wait lists match states, entry
counts agree, no hand-off is lost, idle is ready, and `CallOK`, the assertions of
`_PR_MonNotify` and `_PR_CondWait` as facts about the locals of the function
under way.  None of the parts is inductive alone: that the ready mask is
exact needs the queues to be tidy; entry counts survive `GrantMonitor` only if
the thread on the `lockQ` waits for that monitor; no hand-off is lost only if
whoever leaves a monitor idle goes on to `_PR_MonNotify`, which `CallOK`
follows through the functions between.  The proof has one lemma per action,
grouped by what an action disturbs: `ControlStep` for those that touch no
thread, `MovedTo` and `WaitersMove` for those that move a thread between
queues, on the list lemmas of `LinksProofs`; `EntriesFrame`, `HandoffFrame` and
`MaskUnchanged`, `MaskAdded`, `MaskTaken` for the conjuncts that most steps
leave alone.  In the refinement every step is an abstract one or a stutter: a
caller is inside all it has entries of (`CallerInside`), so that the abstract
guards hold, and `GrantMonitor` is an admission because its thread has entries.

**Preemption.**  `PreemptInv` has two parts.  `SingleLockFree`: if clients stay out of
`_pr_single_lock`, nobody owns it or waits for it, so that `Resched` is never held
back by it.  `Preempts`: inside the kernel a ready thread that is better than the
current one has been noted in `want`, or the kernel is at a step that ends in
`_PR_Schedule`.  It takes every step that makes a thread ready or changes a priority
(`MonNotify`, the tick, `Start`, `Resume`, `SetThreadPriority`, an exit that hands
over) to note it, and `Schedule`, which clears the note, to take the head of
the highest run queue, for which the ready mask has to be exact.

**Sleep queue.**  `Due` adds relative times up along the queue, so what a step in the
middle of the queue does to it is an induction.  The proof makes it once, in
`DueIs`: relative times that are differences of absolute ones (`Relative`) add up to
those.  `TimesInv` then says `Relative` of the queue, its relative times and
the time each sleeper has left with the part of a tick that is not dealt with
yet (`DueTimes`), which has no sum in it.  Insertion, removal in the middle, wakeup at
the front and the end of a tick each keep `Relative` by a lemma about sequences and
times of their own; the times without a timeout, which neither grow nor shrink,
go through all of them (`Differences`, `DifferencesShift`).  `TimesInv` also has that
the clock only runs in `_PR_ClockTick`, which is why nobody is inserted during one.

**Exceptions.**  `IInv` does not hold in `SwAsync`, because a thread that an exception
wakes keeps `_PR_ON_SLEEPQ`.  The weaker `AInv` has only that whoever is on the sleep
queue has the flag (`AsyncKeepsQueues`), and a step need only see to the flag of the thread
it moves (`Flagged`).  So every lemma on a step of `SwKern` is stated for `AInv`
and serves both modules, and `SetPendingException` is a step like others: the
move of a waiter to the `lockQ` that `PR_Notify` also makes (`NotifyMove`), or a sleeper made
ready (`MakeRunnableKeeps`).  For `SwKern` alone, `IInv` is `AInv` with `ExactFlags`,
that the flag is nobody else's: `CallsExact` and `KernelExact` show the steps to keep it.
`ExceptionsWake` has a small invariant of its own: only `PR_Sleep` makes a thread sleep.

**Monitor cache and i/o.**  `IInv` says where each call stands (`Calls`), that a
call that is about to enter, or waits, has the entry of its address still
(`Serving`), that the owner and count of an entry are what the threads' own
accounts say (`Inside`), that nobody else uses an address while the cache expands
for it (`Making`), and how the poll and a waiting thread know of each other
(`Polling`).  The count of uses is the size of a set with one pair for each
(`Pairs`), so that an entry or exit adds or removes an element and no sum need be
taken.  The last exit is the point: the count is 1, so the set has one element,
which is the use that ends, and no thread enters, waits or owns with that entry
when it goes back to the free list.  A thread about to wait that the poll
has already taken off the list finds the sticky notify: a poll can only have left it
on the entry of that thread's own address, which nobody else uses.  `Reserve` is a second
invariant: between expansions one entry less than the threshold is free, and
malloc takes one of them at most, which it gives back.  In the refinement only
`Enter`, `CExit`, a `CWait` that blocks and `Return` are seen; to take an entry
changes nothing, as its monitor has no owner.

**Events.**  `IInv` says where each thread is in its call and whether it holds an
event there (`Stages`), who has entered the monitor of the queue and how often
(`Entered`), where each event is (`Once`), and that the counter equals the bytes in
the pipe (`Tokens`).  `Once` needs the stages, because an event leaves one place
in the step that puts it in the next; `Tokens` makes the read safe.
`NoLostWakeup` compares the length of the list with the bytes in the pipe and the
posters about to write one; it is inductive beside `IInv`, since only a poster
inside the monitor appends and discarding only shortens the list.  That
nothing waits for a window that is gone rests on the monitor being held from the
look at `realContext` to the append: once `LJ_DiscardEventsForContext` has
emptied the list for a window no poster is between the two, and once it has broken
the links none will find the window again (`Linked`, `Dropped`).  In the refinement
the append is a post because its event is in no other place (`Once`), and the
removal a take because the mozilla thread has none then (`Stages`).

**Streams.**  The state alone does not say what may come next.  The strengthening
ties it to where each party is: `Agree` (which states go with which step of
netlib and which of the finalizer), `OneOpener` (only the opener is ever
between posting and connecting), `Counted` (the reference count is the number
of parties that have not let go, but for a decrement that is under way).

**Bytes.**  `Contents` of a queue is a fold over its blocks, so what a change in the
first or the last block does to it is again an induction (`ContentsConcat`,
`BeforeFirst`).  With these a write adds its bytes at the end as long as the queue is
`Neat`: its first block, which is the one the code fills up, is the last or
has no room.  `WrittenNeatly` shows that a write keeps a queue neat that was, which is
why Java's posts stay in order whatever their sizes: nothing is read while
Java writes, and `PostsInOrder` follows from `Whole`, which says of what is posted and
queued together that it is 1 to `posted` as long as netlib may still be asked for
it.  A read can bring a block with room to the front of others, which is no harm
until somebody writes: `WritesAtEnd` asks for a neat queue at each write, and
`FilledSolid`, `WrittenSolid` and `SolidBehind` have that no block is ever empty, so that a read
finds bytes where there is a block.  `Arrived` then says that
what has been read and what is queued are what netlib has sent, and a read is an
abstract one of the next bytes (`SplitBytes`, `FirstBytes`).

**Rendezvous.**  `owner`, the two states and `doit` are read by each side at
moments when the other is between its two steps.  The invariant lists, for each
pair of places the mozilla thread and the owner may be at, the states they
have left each other, and relates the two stacks: the kinds of their frames
alternate, and the frame that waits is the one whose answer is awaited.
`OneRuns` and `WaitsOutsideX` follow.  In the refinement (`OneThread`) four steps
are seen: `Own`, when it pushes a frame, is a call; `RunOrder` and `Finish` begin
and end a callback; `ReturnDone` returns.  Each begins and ends in phases that tell
whose turn it is (`TurnNow`), and a frame below the top has not been served, so that
after a return the turn is that of the callback that called.  All other steps are
unseen: those that leave the frames and who is at work alone (`QuietUnseen`), those
of a mozilla thread with an event that is too old (`EventUnseen`), which is where a
state that `lj_Run` does not expect ends, and the release of the rendezvous, after the
last return.  `Merging` says that whoever runs a callback was called: the other side
has a call that is open, however deep the two are.

**Memory cache.**  A call of the cache goes through states in which its books do not
balance yet: a copy is off the hash list and still on the other, or two copies have
one URL.  `Sound` says what holds of any such state, given the copies streams
fill, the copies loads read, and the copies just being taken away, which the hash
list may still name; the invariant is `Sound` with nothing being taken away.  There
is a lemma for each of the functions a call is made of (`FreeKeeps`, `UnhashKeeps`,
`ListKeeps`, `HashKeeps`, `TouchKeeps`, `GrowKeeps`), and calls compose them
(`PublishKeeps`, `CompleteKeeps`).  The total size is stated as the number of units of
memory there are (`Units`), so that a copy that comes, grows or goes adds or removes
elements of a set (`UnitsOfOne`, `UnitsGrow`); what is lost adds to the size and to
`leaked` alike.  The loop of `net_ReduceMemoryCacheTo`
is a function on the number of turns (`AfterTurns`); `TurnsAre` is an induction over
the turns, and `Thinned` what a turn keeps: copies with locks stay, what is
thrown out is older than what stays, and, since the copies with locks that are
taken off on the way come back at the front the other way round, the order is
kept only among copies without locks (`InOrder`).  After as many turns as the queue is
long the size fits or nothing can be removed, which is `ThrowsOutOldest`.  In the
refinement (`Lends`) each copy makes at most one abstract step or none: only the
last reader of a copy that has been withdrawn returns it and removes it at once.

**Host lookup.**  A call goes through stages: its command in the pipe, in the
helper's hands, its acknowledgement in the pipe behind answers of others.
`Stage` says which of them the call is in and that nothing else is under way;
`Kept` that a lookup kept by a socket has its object and its load; `Ids` that an
id occurs once, stands for one host, is answered once and only while somebody
keeps it.  From these the answer that is read for an id is the one of its own
host, which is `RightAddress`.  The death of the helper leaves all this as it is, but for
the command that is in its pipe or its hands; a stage of its own says that this
one is lost.  An answer whose callback may make a further call leaves its stage when it
does: that is the end of `Unnested`.

Induction over the natural numbers up to a bound is available: `InductOn` in
`LinksProofs` derives it from the well-foundedness of the numbers, for a set
of them.  `SleepTimesExact`, `ReduceLemma` and `ContentsConcat` use it.  The general induction theorems of
the library take an operator as a parameter and cannot be used.

Only model-checked: all liveness (`BlockedReturns`, `IoReturns`, `EventsDelivered`,
`SyncReturns`, `CallReturns`, `WaitersReturn`, `LookupsEnd`), which needs fairness
and `ENABLED`, out of the prover's reach.  Every invariant, action property and
refinement that a passing run checks is also a theorem, those on `DnsHelper` and
`IsByteStream` within the reach stated above.

## Where the code departs from what it says

Shown by the violation runs:

- **Bytes overtake each other.**  `nsn_DataQueue_writeBytes` fills up the block
  at `queue->head`, not the last one (`netStubs.c:136`, against the comment at
  138-141): with two blocks queued and room in the first, later bytes are
  read before earlier ones.  `streams` uses writes of at least a block, for
  which the order is right.
- **Nested lookups.**  `unix-dns.c:1250-1252` says there is never more than one
  acknowledgement in the pipe.  The callback of an answer that is read during
  the wait calls `NET_ProcessNet` (`xfe-dns.c:249`), which may begin another
  lookup (`mkgeturl.c:825`); each call takes the other's id, and each load
  gets the other's address.

Met while modelling and not given a run.  In the kernel:

- `prthread.h:174` promises that nobody else runs inside `PR_SingleThread`;
  `HandleInterrupt` checks the lock, `_PR_IntsOn` does not (`swintr.c:362`).
- `_PR_DestroyThread` clears `owner` and calls `_PR_MonNotify` with interrupts on
  (`swthread.c:184-190`): somebody may have entered in between, against the
  assertion of `swmon.c:182`, and loses the monitor to a waiter.  A monitor taken that
  way stays on the list of the thread that lost it.
- `PR_DestroyThread` makes a zombie of the running thread only (`swthread.c:125-168`).
  Any other keeps its state while it is freed with interrupts on, so that calls
  that name it may link it again; one destroyed in `PR_EnterMonitor` is freed while still
  linked on `_pr_monitorq`, against the assertion at 192; one destroyed in a timed
  `PR_Wait` drops its relative time (`swthread.c:161`, against `swsched.c:205-208`), so that
  those behind it wake too early; one destroyed unborn still counts down
  `_pr_user_active`.
- The comment at `swthread.c:135` has idle clean up zombies; only
  `PR_CreateThread` and `PR_AttachThread` do.
- An exception that ends a sleep leaves `_PR_ON_SLEEPQ` set and makes a thread
  run that was suspended while it slept (`swthread.c:767-780`).
- `PR_Notify` wakes the first waiter, not the one of highest priority
  (`prmon.h:77`, with the author's own doubt at 85).
- `prmcache.c:385` warns not to enter a monitor with the cache locked; an
  expansion does so through malloc, and if another thread is inside malloc
  both wait for each other for ever, and with them whoever needs the cache.  `reading`
  has that state; `IoReturns` names it (`Jammed`) and is false without.
- `PR_CExitMonitor` by a thread that is not inside takes a use off the entry all
  the same (`prmcache.c:450`).
- `prthread.h:122` promises that no i/o call blocks while an exception is
  pending; `_PR_ReadFile` looks before the wait only.
- `_PR_IOWait` leaves its monitor before it leaves the i/o queue: a poll in
  between makes a sticky notify on a monitor that may serve another address by
  then, whose next wait returns at once.  When the cache can make no monitor
  it queues a poll queue whose `mon` is null; `IoWait` reaches that state and
  has no step for the crash.

In the event queues and between Java and JavaScript:

- One `notifyCount` serves all queues (`swmon.c:732`): with a second queue, a
  read could find its pipe empty and block the process.  The program makes one.
- A synchronous poster reads its result after the event may have been freed
  (`prevent.c:79`).
- A failed allocation returns with the monitor of the queue entered
  (`javactxt.c:69`): no other thread posts after it.  `EventsDelivered` and
  `SyncReturns` allow for it.
- A connection may be linked to a window after its streams were interrupted.
- If the event cannot be allocated, the Java thread waits for ever
  (`lj_thred.c:205`); `CallReturns` excepts it (`lost`).  An order to the mozilla
  thread may stay behind when the rendezvous ends, and is then void.

In the streams:

- The finalizer's `--refcount` is outside the monitor (`conn.c:383`), that of netlib's
  exit inside (`inStr.c:115`), which does not help: a count may be lost, and the
  data never freed.  It is never freed
  twice (`StreamInv`).
- `nsn_JavaStream_make` looks at the state before it enters the monitor, and
  may act on one that has passed.
- A connection that is never opened keeps its data for ever.

In the memory cache:

- `xp_hash.c` removes by comparison: removing a copy that is no longer on the
  hash list takes off the one that replaced it (`mkmemcac.c:166`).  With locks on
  it that one can never be unlocked or thrown out.
- External locks are lost when a copy is replaced, and the unlock that follows
  trips the assertion that they are not negative.
- A load that fails leaves its read lock (`mkmemcac.c:1257`, `1406`, against the
  comment at 62): the copy stays and counts for ever.
- The comment at `mkmemcac.c:825-828` says that what is counted will be subtracted by
  `net_FreeMemoryCopy`; a segment that is counted and then not linked, because the
  list found no memory (`xp_list.c:72`, `116`), is neither subtracted nor freed.  If it
  was the first of its copy, the next write or load goes through a null pointer.
- Reducing the cache past copies with locks reverses their order.
- An abort after memory ran out asserts on a `memory_copy` that is null.

In the DNS helper:

- If it cannot fork, the helper answers so and then dies on a null pointer
  (`unix-dns.c:877-879`); lookups under way are never answered.
- A call that waits when the helper dies reads the end of the file and fails, but
  `DNS_AbortHostLookup` does not look whether it has read anything
  (`unix-dns.c:1359-1363`): if the line before was an answer, its code is still
  there, the empty line is taken for another answer, and the browser reads on for
  ever, against "knowing that it won't be long in coming"
  (`unix-dns.c:1341-1342`).
- Children inherit that SIGQUIT is ignored (`unix-dns.c:645`), so a kill waits for
  `gethostbyname`, and the browser for the kill.
- `FE_ClearDNSSelect` leaves its object: the next load of the host on a reused
  descriptor gets an old error, or, after a failed kill, the text "unable to
  cancel" as address.
- A successful kill calls back with status -103, so that `NET_ProcessNet` runs
  beneath `FE_ClearDNSSelect`, against `xfe-dns.c:244-246` and
  `unix-dns.c:1198`; a call whose lookup could not start returns 0, the
  value of the callback.
- The loop over children reads `obj->next` after `obj` may have been freed
  (`unix-dns.c:891`).
- A child that dies without an answer makes the helper write a line that a
  waiting call takes for its acknowledgement.

## Not modelled

- *Left out of modelled components*: see the notes in `PROJECT.json`.  Among
  them: creation of thread structures and stacks, the asynchronous-i/o
  interrupt (the shape of the child-death one), `swlock.c` (unfinished and
  unused), writing, connecting and accepting (the shape of reading), header
  fields and cookies of a connection, `about:` pages, the foreground lookup.
- *Destruction and reaping of threads* (`PR_DestroyThread` for another thread,
  `_PR_FreeZombies`, `_PR_DestroyThread`): nobody in the Unix program destroys another
  thread (`sysThreadKill` has no caller, `mkimap4.cpp` is not compiled), and an exited
  one is freed when the next is created.  `SwKern` ends with the zombie on its queue.
- *The descriptor of the pipe after the helper's end*: once it is closed its number
  may be given to another file; the model goes on to read the end of the file.
- *Native threads, context switches, signal masks*: another build, or the level
  below; the models start from what they promise.
- *The state machines of the protocols and the list of active URLs*
  (`mkgeturl.c`): the transitions depend on the data of every protocol and
  server; what they share is modelled with their clients.
- *Disk cache, hash database, histories, mail and news*: file formats and
  data structures of one thread.
- *Layout, image library, interpreters of Java and JavaScript, security library,
  user interface*: data, or systems of their own far beyond a bounded
  model.  They are most of the repository's million lines, which is why the
  models cover a small part of it.
- *Garbage collector, arenas, time, formatting*: sequential library code.
- *Imported code*: JPEG, libdbm and the like.

What could follow: the wait queue and counters of `mkgeturl.c` with one abstract
protocol, and the locks that the disk cache shares with the memory cache.
