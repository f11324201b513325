------------------------------- MODULE SwKern -------------------------------
(***************************************************************************)
(* The software-threads kernel of NSPR (nspr/src/swthread.c, swsched.c,    *)
(* swintr.c and swmon.c): all threads of the program multiplexed on one    *)
(* process, preempted by a clock signal.                                   *)
(*                                                                         *)
(* Kernel code runs between _PR_IntsOff and _PR_IntsOn.  A signal that     *)
(* comes in there only counts itself as missed, so a kernel function is    *)
(* atomic, and a call is modelled as a chain of steps during which `at'    *)
(* is not "user" and no other step is enabled: a call's own step, then one *)
(* step for every function it calls that loops or that several calls share *)
(* (_PR_MonNotify, _PR_CondNotify, _PR_ClockTick, _PR_Schedule), then      *)
(* _PR_IntsOn.  The interleavings are those the code has: a signal when    *)
(* interrupts are on, the missed signals that _PR_IntsOn delivers, and the *)
(* choice of thread in _PR_Schedule.                                       *)
(***************************************************************************)
EXTENDS Integers, Sequences, FiniteSets, Links

CONSTANTS
    Thread,         \* the threads ever created
    Main,           \* the thread that calls PR_Init
    Idle,           \* _pr_idle
    Monitor,        \* the monitors ever created
    SingleLock,     \* _pr_single_lock
    ChildIntr,      \* _pr_child_intr
    IoMonitor,      \* monitors of the poll queues _PR_PauseForIO looks at
    None,           \* the null pointer
    MaxPriority,    \* PR_NUM_PRIORITIES - 1
    MaxCount,       \* bound: nested entries of one monitor
    MaxSticky,      \* bound: sticky notifies a monitor collects
    SleepTime,      \* the times clients sleep or wait
    Forever,        \* LL_MAXINT, the wait without timeout
    Elapsed,        \* the clock advances between two ticks
    Back,           \* the 50ms of a clock that was set back
    ClientMonitor,  \* the monitors client code enters
    Calls           \* the entry points client code uses

ASSUME ThreadAssumption ==
    Main \in Thread /\ Idle \in Thread /\ Main # Idle /\ None \notin Thread
ASSUME MonitorAssumption ==
    /\ SingleLock \in Monitor /\ ChildIntr \in Monitor
    /\ IoMonitor \subseteq Monitor /\ ClientMonitor \subseteq Monitor
    /\ None \notin Monitor
ASSUME NumberAssumption ==
    /\ MaxPriority \in Nat /\ MaxCount \in Nat \ {0} /\ MaxSticky \in Nat
    /\ Forever \in Nat /\ SleepTime \subseteq Nat
    /\ Elapsed \subseteq Nat /\ Back \in Nat
(* LL_MAXINT microseconds are 292000 years.                                *)
ASSUME TimeAssumption == \A time \in SleepTime \cup Elapsed \cup {Back} : time < Forever

Priority  == 0 .. MaxPriority
SleepQ    == -1
SuspendQ  == -2
MonitorQ  == -3
ZombieQ   == -4
NoQueue   == -5
QueueName == Priority \cup {SleepQ, SuspendQ, MonitorQ, ZombieQ}

(* thread->state, but for the _PR_LOCK_WAIT of swlock.c.                   *)
ThreadState == {"UNBORN", "RUNNABLE", "RUNNING", "SLEEPING", "SUSPENDED",
                "MON_WAIT", "COND_WAIT", "ZOMBIE"}

VARIABLES
    state,       \* thread->state
    priority,    \* thread->priority
    suspending,  \* the threads with _PR_SUSPENDING in thread->flags
    onSleepQ,    \* the threads with _PR_ON_SLEEPQ in thread->flags
    sleep,       \* thread->sleep, relative to the sleeper before
    monitor,     \* thread->monitor
    entryCount,  \* thread->monitorEntryCount
    owner,       \* mon->owner
    count,       \* mon->count
    stickyCount, \* mon->stickyCount
    lockQ,       \* mon->lockQ
    condQ,       \* mon->condQ
    queue,       \* _pr_runq[0..], _pr_sleepq, _pr_suspendq, _pr_monitorq, _pr_zombieq
    readyMask,   \* _pr_runq_ready_mask, the set of its 1 bits
    current,     \* _pr_current_thread
    userActive,  \* _pr_user_active
    at,          \* the kernel function about to run, "user" if none
    want,        \* wantYield, needYield, wantResched: reschedule at the end
    call,        \* the locals of the monitor function that is running
    elapsed,     \* the local elapsed of _PR_ClockTick
    caller,      \* what goes on after _PR_ClockTick
    held,        \* history: entries made less exits made, per thread
    left         \* history: the time a sleeper still has to sleep

threadVars  == <<state, priority, suspending, onSleepQ, sleep, monitor, entryCount>>
monitorVars == <<owner, count, stickyCount, lockQ, condQ>>
schedVars   == <<queue, readyMask, current, userActive>>
tick        == <<elapsed, caller>>
kernVars    == <<at, want, call, tick>>
history     == <<held, left>>
vars == <<threadVars, monitorVars, schedVars, kernVars, history>>

IntsOnStep == {"intsOn", "intsOn2", "intsOn3"}
Return     == {"intsOn", "intsOn3", "condWait", "tick", "poll", "resched"}
At         == {"user", "yield", "schedule", "monNotify", "condNotify",
               "condNotifyEnd"} \cup IntsOnStep \cup Return
CallRecord == [mon : Monitor \cup {None}, ret : Return,
               how : {"ONE", "ALL", "STICKY"}, nap : Nat, entries : Nat]
CallTo(m, how, nap, entries, ret) ==
    [mon |-> m, how |-> how, nap |-> nap, entries |-> entries, ret |-> ret]
NoCall     == CallTo(None, "ONE", 0, 0, "intsOn")

(* 64-bit times: LL_MAXINT is never used up by the clock.                  *)
Plus(a, b)  == IF a = Forever \/ b = Forever THEN Forever ELSE a + b
Minus(a, b) == IF a = Forever /\ b # Forever THEN Forever ELSE a - b

(* What PR_Init leaves behind: the caller runs, idle is started.           *)
Init ==
    /\ state = [t \in Thread |-> CASE t = Main -> "RUNNING"
                                   [] t = Idle -> "RUNNABLE"
                                   [] OTHER    -> "UNBORN"]
    /\ priority \in {p \in [Thread -> Priority] : p[Idle] = 0}
    /\ suspending = {} /\ onSleepQ = {}
    /\ sleep = [t \in Thread |-> 0]
    /\ monitor = [t \in Thread |-> None]
    /\ entryCount = [t \in Thread |-> 0]
    /\ owner = [m \in Monitor |-> None]
    /\ count = [m \in Monitor |-> 0]
    /\ stickyCount = [m \in Monitor |-> 0]
    /\ lockQ = [m \in Monitor |-> <<>>]
    /\ condQ = [m \in Monitor |-> <<>>]
    /\ queue = [q \in QueueName |-> IF q = 0 THEN <<Idle>> ELSE <<>>]
    /\ readyMask = {0}
    /\ current = Main /\ userActive = 1
    /\ at = "user" /\ want = FALSE /\ call = NoCall
    /\ elapsed = 0 /\ caller = "intsOn"
    /\ held = [t \in Thread |-> [m \in Monitor |-> 0]]
    /\ left = [t \in Thread |-> 0]
-----------------------------------------------------------------------------
(* The thread moves to the tail of the run queue of its priority.          *)
MakeRunnable(t) ==
    /\ state' = [state EXCEPT ![t] = "RUNNABLE"]
    /\ queue' = Relink(queue, t, priority[t])
    /\ readyMask' = readyMask \cup {priority[t]}

(* Is a thread of at least, or of more than, this priority ready?          *)
ReadyExactly(p) == p \in readyMask              \* mutant of ReadyAtLeast

ReadyAtLeast(p) == \E r \in readyMask : r >= p
ReadyAbove(p)   == \E r \in readyMask : r > p

(* The running thread is descheduled in state st, linked on queue q.       *)
Deschedule(st, q) ==
    /\ state' = [state EXCEPT ![current] = st]
    /\ queue' = Link(queue, current, q)
    /\ at' = "schedule"

(* _PR_PutOnSleepQ: before the first sleeper due later, relative to the    *)
(* sleeper before, which the one behind is made relative to in turn.       *)
Due ==
    LET sum[i \in 0 .. Len(queue[SleepQ])] ==
            IF i = 0 THEN 0 ELSE Plus(sum[i - 1], sleep[queue[SleepQ][i]])
    IN  sum

IsSlot(i, nap) ==
    /\ \A j \in 1 .. i - 1 : nap >= Due[j]
    /\ i <= Len(queue[SleepQ]) => nap < Due[i]

PutOnSleepQ(nap, st) ==
    /\ \E i \in 1 .. Len(queue[SleepQ]) + 1 :
         /\ IsSlot(i, nap)
         /\ queue' = [queue EXCEPT ![SleepQ] = InsertBefore(@, i, current)]
         /\ LET rest == Minus(nap, Due[i - 1]) IN
            sleep' = [t \in Thread |->
                        IF t = current THEN rest
                        ELSE IF i <= Len(queue[SleepQ]) /\ t = queue[SleepQ][i]
                             THEN Minus(sleep[t], rest)
                             ELSE sleep[t]]
    /\ onSleepQ' = onSleepQ \cup {current}
    /\ left' = [left EXCEPT ![current] = nap]
    /\ state' = [state EXCEPT ![current] = st]

(* Mutant of FixSleepQ: the relative time of the thread behind is left.    *)
FixNothing(t) == sleep

(* _PR_FixSleepQ: the thread behind t takes over t's remaining time.  The  *)
(* code follows t's runqLinks, whatever queue they are on.                 *)
FixSleepQ(t) ==
    [u \in Thread |-> IF \E q \in QueueName : u \in Followers(queue[q], t)
                      THEN Plus(sleep[u], sleep[t]) ELSE sleep[u]]

(* _PR_NotifyOneThread: from the condQ to the lockQ, off the sleepQ, as if *)
(* the thread had just called PR_EnterMonitor and blocked.                 *)
NotifyOneThread(m, t) ==
    /\ sleep' = IF t \in onSleepQ THEN FixSleepQ(t) ELSE sleep
    /\ onSleepQ' = onSleepQ \ {t}
    /\ left' = [left EXCEPT ![t] = 0]
    /\ condQ' = [condQ EXCEPT ![m] = Without(@, t)]
    /\ lockQ' = [lockQ EXCEPT ![m] = Append(@, t)]
    /\ queue' = Relink(queue, t, MonitorQ)
    /\ state' = [state EXCEPT ![t] = "MON_WAIT"]

(* Threads that are about to suspend are not given monitors.               *)
Eligible(m) == {i \in DOMAIN lockQ[m] : lockQ[m][i] \notin suspending}

(* Mutant of IsBest: the latest of several of the same priority.           *)
IsLatest(m, i) ==
    i \in Eligible(m) /\ \A j \in Eligible(m) :
      /\ priority[lockQ[m][j]] <= priority[lockQ[m][i]]
      /\ priority[lockQ[m][j]] = priority[lockQ[m][i]] => i >= j

(* The highest priority eligible waiter, the longest waiting of several.   *)
IsBest(m, i) ==
    /\ i \in Eligible(m)
    /\ \A j \in Eligible(m) :
         /\ priority[lockQ[m][j]] <= priority[lockQ[m][i]]
         /\ priority[lockQ[m][j]] = priority[lockQ[m][i]] => i <= j

(* Mutants of HandOverIfIdle: whoever owns the monitor, and never.         *)
HandOverAlways(m, ret) ==
    at' = "monNotify" /\ call' = CallTo(m, "ONE", 0, 0, ret)

HandOverNever(m, ret) == at' = ret /\ call' = NoCall

(* `if (mon->owner == 0)': hand the monitor over before going on at ret.   *)
HandOverIfIdle(m, ret) ==
    IF owner[m] = None
    THEN at' = "monNotify" /\ call' = CallTo(m, "ONE", 0, 0, ret)
    ELSE at' = ret /\ call' = NoCall

(* Mutant of GrantMonitor: the count of a thread that had just entered.    *)
GrantOneEntry(m, t) ==
    /\ owner' = [owner EXCEPT ![m] = t]
    /\ count' = [count EXCEPT ![m] = 1]
    /\ entryCount' = [entryCount EXCEPT ![t] = 0]
    /\ monitor' = [monitor EXCEPT ![t] = None]
    /\ lockQ' = [lockQ EXCEPT ![m] = Without(@, t)]
    /\ MakeRunnable(t)
    /\ UNCHANGED <<sleep, onSleepQ>>

(* _PR_MonNotify: hand an idle monitor to the best waiter, if any.         *)
GrantMonitor(m, t) ==
    /\ sleep' = IF t \in onSleepQ THEN FixSleepQ(t) ELSE sleep
    /\ onSleepQ' = onSleepQ \ {t}
    /\ owner' = [owner EXCEPT ![m] = t]
    /\ count' = [count EXCEPT ![m] = entryCount[t]]
    /\ entryCount' = [entryCount EXCEPT ![t] = 0]
    /\ monitor' = [monitor EXCEPT ![t] = None]
    /\ lockQ' = [lockQ EXCEPT ![m] = Without(@, t)]
    /\ MakeRunnable(t)

(* The caller _PR_CondWait ignores whether to reschedule: it is about to.  *)
MonNotify ==
    /\ at = "monNotify" /\ at' = call.ret
    /\ LET m == call.mon IN
         \/ /\ \E i \in DOMAIN lockQ[m] :
                 /\ IsBest(m, i)
                 /\ GrantMonitor(m, lockQ[m][i])
                 /\ want' = IF call.ret = "condWait" THEN want
                            ELSE want \/ priority[lockQ[m][i]] >= priority[current]
            /\ UNCHANGED <<priority, suspending, stickyCount, condQ>>
            /\ UNCHANGED <<current, userActive, call, tick, history>>
         \/ /\ Eligible(m) = {}
            /\ UNCHANGED <<threadVars, monitorVars, schedVars, want, call, tick, history>>

(* _PR_CondNotify counts a sticky notify that finds nobody waiting...      *)
CondNotify(m, how, ret) ==
    /\ stickyCount' = [stickyCount EXCEPT ![m] =
                         IF how = "STICKY" /\ condQ[m] = <<>> THEN @ + 1 ELSE @]
    /\ at' = "condNotify"
    /\ call' = CallTo(m, how, 0, 0, ret)

(* ... wakes waiters from the front of the condQ until one of them is not  *)
(* suspending, or all of them...                                           *)
CondNotifyLoop ==
    /\ at = "condNotify"
    /\ LET m == call.mon IN
         \/ /\ condQ[m] # <<>>
            /\ NotifyOneThread(m, Head(condQ[m]))
            /\ at' = IF Head(condQ[m]) \notin suspending /\ call.how # "ALL"
                     THEN "condNotifyEnd" ELSE at
            /\ UNCHANGED <<priority, suspending, monitor, entryCount>>
            /\ UNCHANGED <<owner, count, stickyCount, readyMask, current, userActive>>
         \/ /\ condQ[m] = <<>>
            /\ at' = "condNotifyEnd"
            /\ UNCHANGED <<threadVars, monitorVars, schedVars, left>>
    /\ UNCHANGED <<want, call, tick, held>>

(* ... and hands the monitor over if nobody owns it.                       *)
CondNotifyEnd ==
    /\ at = "condNotifyEnd"
    /\ HandOverIfIdle(call.mon, call.ret)
    /\ UNCHANGED <<threadVars, monitorVars, schedVars, want, tick, history>>
-----------------------------------------------------------------------------
(* The calls of client threads.  idle runs no client code.                 *)
Client(entryPoint) == at = "user" /\ current # Idle /\ entryPoint \in Calls

(* A call that does not block goes on to _PR_IntsOn(is, needYield).        *)
ToIntsOn(needYield) ==
    /\ at' = "intsOn" /\ want' = needYield /\ call' = NoCall /\ UNCHANGED tick

EnterMonitor(m) ==
    /\ Client("enter")
    /\ held[current][m] < MaxCount
    /\ held' = [held EXCEPT ![current][m] = @ + 1]
    /\ \/ /\ owner[m] = current
          /\ count' = [count EXCEPT ![m] = @ + 1]
          /\ ToIntsOn(FALSE)
          /\ UNCHANGED <<threadVars, owner, lockQ, schedVars>>
       \/ /\ owner[m] = None
          /\ owner' = [owner EXCEPT ![m] = current]
          /\ count' = [count EXCEPT ![m] = 1]
          /\ ToIntsOn(FALSE)
          /\ UNCHANGED <<threadVars, lockQ, schedVars>>
       \/ /\ owner[m] \notin {current, None}       \* _PR_MonWait
          /\ monitor' = [monitor EXCEPT ![current] = m]
          /\ entryCount' = [entryCount EXCEPT ![current] = 1]
          /\ lockQ' = [lockQ EXCEPT ![m] = Append(@, current)]
          /\ Deschedule("MON_WAIT", MonitorQ)
          /\ UNCHANGED <<priority, suspending, onSleepQ, sleep, owner, count>>
          /\ UNCHANGED <<readyMask, current, userActive, want, call, tick>>
    /\ UNCHANGED <<stickyCount, condQ, left>>

(* Not entered by the caller: returns -1 and changes nothing.              *)
ExitMonitor(m) ==
    /\ Client("enter") /\ owner[m] = current
    /\ held' = [held EXCEPT ![current][m] = @ - 1]
    /\ count' = [count EXCEPT ![m] = @ - 1]
    /\ \/ /\ count[m] > 1
          /\ ToIntsOn(FALSE)
          /\ UNCHANGED owner
       \/ /\ count[m] = 1
          /\ owner' = [owner EXCEPT ![m] = None]
          /\ at' = "monNotify" /\ want' = FALSE
          /\ call' = CallTo(m, "ONE", 0, 0, "intsOn")
          /\ UNCHANGED tick
    /\ UNCHANGED <<threadVars, stickyCount, lockQ, condQ, schedVars, left>>

(* A pending sticky notify is taken before the caller is looked at.        *)
Wait(m, nap) ==
    /\ Client("wait")
    /\ \/ /\ stickyCount[m] > 0
          /\ stickyCount' = [stickyCount EXCEPT ![m] = @ - 1]
          /\ ToIntsOn(FALSE)
          /\ UNCHANGED <<owner, count>>
       \/ /\ stickyCount[m] = 0 /\ owner[m] = current
          /\ owner' = [owner EXCEPT ![m] = None]
          /\ count' = [count EXCEPT ![m] = 0]
          /\ at' = "monNotify" /\ want' = FALSE
          /\ call' = CallTo(m, "ONE", nap, count[m], "condWait")
          /\ UNCHANGED <<stickyCount, tick>>
    /\ UNCHANGED <<threadVars, lockQ, condQ, schedVars, history>>

(* The rest of _PR_CondWait, the monitor given up.                         *)
CondWait ==
    /\ at = "condWait" /\ at' = "schedule"
    /\ PutOnSleepQ(call.nap, "COND_WAIT")
    /\ condQ' = [condQ EXCEPT ![call.mon] = Append(@, current)]
    /\ monitor' = [monitor EXCEPT ![current] = call.mon]
    /\ entryCount' = [entryCount EXCEPT ![current] = call.entries]
    /\ call' = NoCall
    /\ UNCHANGED <<priority, suspending, owner, count, stickyCount, lockQ>>
    /\ UNCHANGED <<readyMask, current, userActive, want, tick, held>>

(* PR_Notify and PR_NotifyAll: -1 and no change unless the caller owns m.  *)
Notify(m, how) ==
    /\ Client("wait") /\ owner[m] = current
    /\ CondNotify(m, how, "intsOn")
    /\ want' = FALSE
    /\ UNCHANGED <<threadVars, owner, count, lockQ, condQ, schedVars, tick, history>>
-----------------------------------------------------------------------------
Sleep(nap) ==
    /\ Client("sleep") /\ at' = "schedule"
    /\ PutOnSleepQ(nap, "SLEEPING")
    /\ UNCHANGED <<priority, suspending, monitor, entryCount, monitorVars>>
    /\ UNCHANGED <<readyMask, current, userActive, want, call, tick, held>>

(* PR_Yield, called by a client or by _PR_IntsOn.                          *)
Yield ==
    /\ at = "yield" \/ Client("yield")
    /\ want' = FALSE
    /\ \/ /\ ReadyAtLeast(priority[current])
          /\ Deschedule("RUNNABLE", priority[current])
          /\ readyMask' = readyMask \cup {priority[current]}
       \/ /\ ~ReadyAtLeast(priority[current])
          /\ at' = "intsOn"
          /\ UNCHANGED <<state, queue, readyMask>>
    /\ UNCHANGED <<priority, suspending, onSleepQ, sleep, monitor, entryCount>>
    /\ UNCHANGED <<monitorVars, current, userActive, call, tick, history>>

Start(t) ==
    /\ Client("start") /\ state[t] = "UNBORN"
    /\ MakeRunnable(t)
    /\ userActive' = userActive + 1
    /\ ToIntsOn(priority[t] > priority[current])
    /\ UNCHANGED <<priority, suspending, onSleepQ, sleep, monitor, entryCount>>
    /\ UNCHANGED <<monitorVars, current, history>>

(* PR_Exit: a zombie until the next thread is created, its monitors still  *)
(* entered.  The exit of the last user thread ends the process: not a step *)
(* here.                                                                   *)
Exit ==
    /\ Client("exit") /\ userActive > 1
    /\ userActive' = userActive - 1
    /\ Deschedule("ZOMBIE", ZombieQ)
    /\ UNCHANGED <<priority, suspending, onSleepQ, sleep, monitor, entryCount>>
    /\ UNCHANGED <<monitorVars, readyMask, current, want, call, tick, history>>

(* PR_Suspend: a blocked thread is only marked.  idle is never named.      *)
Suspend(t) ==
    /\ Client("suspend") /\ t # Idle
    /\ \/ /\ state[t] = "RUNNING"
          /\ Deschedule("SUSPENDED", SuspendQ)
          /\ UNCHANGED <<suspending, readyMask, want, call, tick>>
       \/ /\ state[t] = "RUNNABLE"
          /\ state' = [state EXCEPT ![t] = "SUSPENDED"]
          /\ queue' = Relink(queue, t, SuspendQ)
          /\ readyMask' = IF queue'[priority[t]] = <<>>
                          THEN readyMask \ {priority[t]} ELSE readyMask
          /\ ToIntsOn(FALSE)
          /\ UNCHANGED suspending
       \/ /\ state[t] \in {"MON_WAIT", "COND_WAIT", "SLEEPING"}
          /\ suspending' = suspending \cup {t}
          /\ ToIntsOn(FALSE)
          /\ UNCHANGED <<state, queue, readyMask>>
    /\ UNCHANGED <<priority, onSleepQ, sleep, monitor, entryCount>>
    /\ UNCHANGED <<monitorVars, current, userActive, history>>

(* PR_Resume: the calls that return -1 change nothing.                     *)
Resume(t) ==
    /\ Client("suspend")
    /\ \/ /\ state[t] = "SUSPENDED"
          /\ MakeRunnable(t)
          /\ ToIntsOn(priority[t] >= priority[current])
          /\ UNCHANGED suspending
       \/ /\ state[t] \in {"MON_WAIT", "COND_WAIT", "SLEEPING"} /\ t \in suspending
          /\ suspending' = suspending \ {t}
          /\ UNCHANGED <<state, queue, readyMask>>
          /\ IF state[t] = "MON_WAIT"
             THEN want' = FALSE /\ HandOverIfIdle(monitor[t], "intsOn") /\ UNCHANGED tick
             ELSE ToIntsOn(FALSE)
    /\ UNCHANGED <<priority, onSleepQ, sleep, monitor, entryCount>>
    /\ UNCHANGED <<monitorVars, current, userActive, history>>

(* PR_SetThreadPriority; newPri is clamped before.                         *)
Clamp(newPri) ==
    IF newPri < 0 THEN 0 ELSE IF newPri > MaxPriority THEN MaxPriority ELSE newPri

SetThreadPriority(t, newPri) ==
    /\ Client("priority") /\ t # Idle /\ newPri # priority[t]
    /\ priority' = [priority EXCEPT ![t] = newPri]
    /\ \/ /\ state[t] = "RUNNING"
          /\ ToIntsOn(ReadyAbove(newPri))
          /\ UNCHANGED <<queue, readyMask>>
       \/ /\ state[t] = "RUNNABLE"
          /\ queue' = Relink(queue, t, newPri)
          /\ readyMask' = {newPri} \cup (IF queue'[priority[t]] = <<>>
                                         THEN readyMask \ {priority[t]} ELSE readyMask)
          /\ ToIntsOn(newPri > priority[current])
       \/ /\ state[t] \notin {"RUNNING", "RUNNABLE"}
          /\ ToIntsOn(FALSE)
          /\ UNCHANGED <<queue, readyMask>>
    /\ UNCHANGED <<state, suspending, onSleepQ, sleep, monitor, entryCount>>
    /\ UNCHANGED <<monitorVars, current, userActive, history>>
-----------------------------------------------------------------------------
(* _PR_ClockTick: how much time the clock says has passed.  A clock that   *)
(* was set back counts as 50ms, or the first sleeper's time if less.       *)
SetBack ==
    IF queue[SleepQ] # <<>> /\ sleep[Head(queue[SleepQ])] < Back
    THEN sleep[Head(queue[SleepQ])] ELSE Back

ClockTick(ret) ==
    /\ at' = "tick"
    /\ caller' = ret
    /\ \E e \in Elapsed \cup {SetBack} :
         /\ elapsed' = e
         /\ left' = [t \in Thread |-> IF t \in ToSet(queue[SleepQ])
                                      THEN Minus(left[t], e) ELSE left[t]]
    /\ UNCHANGED <<threadVars, monitorVars, schedVars, call, held>>

(* Wake the sleepers whose time has come, one by one.                      *)
TickExpired == queue[SleepQ] # <<>> /\ elapsed >= sleep[Head(queue[SleepQ])]

TickWakeSleeper ==
    /\ at = "tick" /\ TickExpired
    /\ LET t == Head(queue[SleepQ]) IN
         /\ state[t] = "SLEEPING"
         /\ elapsed' = Minus(elapsed, sleep[t])
         /\ onSleepQ' = onSleepQ \ {t}
         /\ left' = [left EXCEPT ![t] = 0]
         /\ \/ /\ t \in suspending
               /\ suspending' = suspending \ {t}
               /\ state' = [state EXCEPT ![t] = "SUSPENDED"]
               /\ queue' = Relink(queue, t, SuspendQ)
               /\ UNCHANGED <<readyMask, want>>
            \/ /\ t \notin suspending
               /\ MakeRunnable(t)
               /\ want' = (want \/ priority[t] >= priority[current])
               /\ UNCHANGED suspending
    /\ UNCHANGED <<at, priority, sleep, monitor, entryCount, monitorVars>>
    /\ UNCHANGED <<current, userActive, call, caller, held>>

(* A PR_Wait that timed out; the flag is cleared and the thread unlinked   *)
(* before _PR_NotifyOneThread, which therefore fixes no sleep time.        *)
TickWakeWaiter ==
    /\ at = "tick" /\ TickExpired
    /\ LET t == Head(queue[SleepQ])
           m == monitor[t] IN
         /\ state[t] = "COND_WAIT"
         /\ elapsed' = Minus(elapsed, sleep[t])
         /\ onSleepQ' = onSleepQ \ {t}
         /\ left' = [left EXCEPT ![t] = 0]
         /\ condQ' = [condQ EXCEPT ![m] = Without(@, t)]
         /\ lockQ' = [lockQ EXCEPT ![m] = Append(@, t)]
         /\ queue' = Relink(queue, t, MonitorQ)
         /\ state' = [state EXCEPT ![t] = "MON_WAIT"]
         /\ HandOverIfIdle(m, "tick")
    /\ UNCHANGED <<priority, suspending, sleep, monitor, entryCount>>
    /\ UNCHANGED <<owner, count, stickyCount, readyMask, current, userActive, want, caller, held>>

(* The first sleeper left keeps what the tick did not use up.              *)
TickDone ==
    /\ at = "tick" /\ ~TickExpired
    /\ sleep' = IF queue[SleepQ] = <<>> THEN sleep
                ELSE [sleep EXCEPT ![Head(queue[SleepQ])] = Minus(@, elapsed)]
    /\ elapsed' = 0 /\ UNCHANGED caller
    /\ at' = "poll" /\ call' = NoCall
    /\ UNCHANGED <<state, priority, suspending, onSleepQ, monitor, entryCount>>
    /\ UNCHANGED <<monitorVars, schedVars, want, history>>

(* _PR_PauseForIO: sticky notifies for the descriptors found ready.        *)
PollReady(m) ==
    /\ at = "poll" /\ m \in IoMonitor /\ stickyCount[m] < MaxSticky
    /\ CondNotify(m, "STICKY", "poll")
    /\ UNCHANGED <<threadVars, owner, count, lockQ, condQ, schedVars, want, tick, history>>

PollDone ==
    /\ at = "poll" /\ at' = caller
    /\ call' = NoCall
    /\ UNCHANGED <<threadVars, monitorVars, schedVars, want, tick, history>>

(* Signals taken while interrupts are on: HandleInterrupt.                 *)
ClockInterrupt == at = "user" /\ want' = FALSE /\ ClockTick("resched")

ChildDeath(ret) ==
    /\ CondNotify(ChildIntr, "ALL", ret)
    /\ UNCHANGED <<threadVars, owner, count, lockQ, condQ, schedVars, tick, history>>

ChildDeathInterrupt ==
    /\ at = "user" /\ "child" \in Calls /\ want' = FALSE /\ ChildDeath("resched")

(* The end of HandleInterrupt: no rescheduling under the single lock.      *)
Resched ==
    /\ at = "resched"
    /\ want' = FALSE /\ call' = NoCall
    /\ \/ /\ owner[SingleLock] = None
          /\ want \/ ReadyAtLeast(priority[current])
          /\ Deschedule("RUNNABLE", priority[current])
          /\ readyMask' = readyMask \cup {priority[current]}
       \/ /\ owner[SingleLock] # None \/ ~(want \/ ReadyAtLeast(priority[current]))
          /\ at' = "user"
          /\ UNCHANGED <<state, queue, readyMask>>
    /\ UNCHANGED <<priority, suspending, onSleepQ, sleep, monitor, entryCount>>
    /\ UNCHANGED <<monitorVars, current, userActive, tick, history>>

(* _PR_IntsOn: deliver the signals missed, clock before child death, then  *)
(* enable interrupts and yield if that was asked for.                      *)
MissedClock == at = "intsOn" /\ UNCHANGED want /\ ClockTick("intsOn2")

MissedChildDeath ==
    /\ at \in {"intsOn", "intsOn2"} /\ "child" \in Calls
    /\ UNCHANGED want /\ ChildDeath("intsOn3")

IntsOn ==
    /\ at \in IntsOnStep
    /\ at' = IF want THEN "yield" ELSE "user"
    /\ want' = FALSE /\ call' = NoCall
    /\ UNCHANGED <<threadVars, monitorVars, schedVars, tick, history>>

(* One round of _PR_Idle: tick, poll, and yield whatever they say.         *)
IdleLoop == at = "user" /\ current = Idle /\ want' = TRUE /\ ClockTick("intsOn")

(* _PR_Schedule: the first thread of the highest run queue in use.  It     *)
(* goes on behind its own _MD_SWITCH_CONTEXT, which is in most cases       *)
(* followed by _PR_IntsOn(is, 0).                                          *)
Schedule ==
    /\ at = "schedule" /\ at' = "intsOn" /\ want' = FALSE
    /\ \E p \in readyMask :
         /\ ~ReadyAbove(p)
         /\ LET t == Head(queue[p]) IN
              /\ queue' = Unlink(queue, t)
              /\ state' = [state EXCEPT ![t] = "RUNNING"]
              /\ current' = t
         /\ readyMask' = IF queue'[p] = <<>> THEN readyMask \ {p} ELSE readyMask
    /\ UNCHANGED <<priority, suspending, onSleepQ, sleep, monitor, entryCount>>
    /\ UNCHANGED <<monitorVars, userActive, call, tick, history>>
-----------------------------------------------------------------------------
ClientCall ==
    \/ \E m \in ClientMonitor :
         \/ EnterMonitor(m)
         \/ ExitMonitor(m)
         \/ \E nap \in SleepTime \cup {Forever} : Wait(m, nap)
         \/ \E how \in {"ONE", "ALL"} : Notify(m, how)
    \/ \E nap \in SleepTime : Sleep(nap)
    \/ Exit
    \/ \E t \in Thread :
         \/ Start(t)
         \/ Suspend(t)
         \/ Resume(t)
         \/ \E n \in -1 .. MaxPriority + 1 : SetThreadPriority(t, Clamp(n))

Signal == ClockInterrupt \/ ChildDeathInterrupt

Kernel ==
    \/ MonNotify \/ CondNotifyLoop \/ CondNotifyEnd \/ CondWait
    \/ TickWakeSleeper \/ TickWakeWaiter \/ TickDone
    \/ (\E m \in IoMonitor : PollReady(m)) \/ PollDone
    \/ Resched \/ MissedClock \/ MissedChildDeath \/ IntsOn \/ Schedule

Next == ClientCall \/ Yield \/ IdleLoop \/ Signal \/ Kernel

Spec == Init /\ [][Next]_vars

(* The processor is always given to somebody, so kernel code goes on; the  *)
(* interval timer goes off again and again, and a tick that comes in while *)
(* interrupts are off is delivered by _PR_IntsOn.                          *)
Fairness ==
    /\ WF_vars(Kernel) /\ WF_vars(at = "yield" /\ Yield) /\ WF_vars(IdleLoop)
    /\ SF_vars(ClockInterrupt \/ MissedClock)

(* Clients that do not keep a monitor for ever: a thread that gets to run  *)
(* again and again inside one leaves it.                                   *)
ClientFairness ==
    \A t \in Thread \ {Idle}, m \in ClientMonitor :
      SF_vars(current = t /\ ExitMonitor(m))

LiveSpec == Spec /\ Fairness /\ ClientFairness
-----------------------------------------------------------------------------
(* Type correctness of the kernel's variables, the times of the sleep queue*)
(* apart, which SleepQueueExact is about.                                  *)
TypeOK ==
    /\ state \in [Thread -> ThreadState] /\ priority \in [Thread -> Priority]
    /\ suspending \subseteq Thread /\ onSleepQ \subseteq Thread
    /\ monitor \in [Thread -> Monitor \cup {None}]
    /\ entryCount \in [Thread -> Nat]
    /\ owner \in [Monitor -> Thread \cup {None}]
    /\ count \in [Monitor -> Nat] /\ stickyCount \in [Monitor -> Nat]
    /\ lockQ \in [Monitor -> Seq(Thread)] /\ condQ \in [Monitor -> Seq(Thread)]
    /\ queue \in [QueueName -> Seq(Thread)]
    /\ readyMask \subseteq Priority
    /\ current \in Thread /\ userActive \in Nat
    /\ at \in At /\ want \in BOOLEAN
    /\ call \in CallRecord
    /\ caller \in IntsOnStep \cup {"resched"}
    /\ held \in [Thread -> [Monitor -> Int]]

(* The queue a thread of this state is linked on.                          *)
Home(t) ==
    CASE state[t] = "RUNNABLE"                  -> priority[t]
      [] state[t] \in {"SLEEPING", "COND_WAIT"} -> SleepQ
      [] state[t] = "SUSPENDED"                 -> SuspendQ
      [] state[t] = "MON_WAIT"                  -> MonitorQ
      [] state[t] = "ZOMBIE"                    -> ZombieQ
      [] OTHER                                  -> NoQueue

(* Whatever calls, ticks and suspensions happened in whatever order, a     *)
(* thread is linked exactly once, on the queue its state tells of; the     *)
(* ready mask has a bit for each run queue in use and no other, and only   *)
(* the current thread runs.  A thread on no queue would never run again, a *)
(* thread on two would corrupt both lists.                                 *)
QueuesMatchState ==
    /\ \A q \in QueueName :
         IsTidy(queue[q]) /\ ToSet(queue[q]) = {t \in Thread : Home(t) = q}
    /\ readyMask = {p \in Priority : queue[p] # <<>>}
    /\ onSleepQ = ToSet(queue[SleepQ])
    /\ \A t \in Thread : state[t] = "RUNNING" <=> t = current /\ at # "schedule"

(* A thread is on a lockQ or a condQ exactly while it waits for that       *)
(* monitor, so that a notify, a timeout and a resume that race for it      *)
(* find it on one list only.                                               *)
Waiters(st, m) == {t \in Thread : state[t] = st /\ monitor[t] = m}

WaitersMatchState ==
    \A m \in Monitor :
      /\ IsTidy(lockQ[m]) /\ ToSet(lockQ[m]) = Waiters("MON_WAIT", m)
      /\ IsTidy(condQ[m]) /\ ToSet(condQ[m]) = Waiters("COND_WAIT", m)

(* The entries a thread has made of a monitor and not undone: what it owns,*)
(* what it will be given back, or what it is just giving up in PR_Wait.    *)
GivingUp(t, m) ==
    t = current /\ call.mon = m /\ call.ret = "condWait" /\ at \in {"monNotify", "condWait"}

Entries(t, m) ==
    CASE owner[m] = t -> count[m]
      [] owner[m] # t /\ state[t] \in {"MON_WAIT", "COND_WAIT"} /\ monitor[t] = m
           -> entryCount[t]
      [] owner[m] # t /\ GivingUp(t, m) -> call.entries
      [] OTHER -> 0

(* Every thread's own account of its entries agrees with the monitor's, so *)
(* PR_Wait gives back the entry count it found, no exit is lost to a       *)
(* thread that does not own the monitor, and a thread that runs inside is  *)
(* the only one.                                                           *)
EntriesKept ==
    /\ \A t \in Thread, m \in Monitor : held[t][m] = Entries(t, m)
    /\ \A m \in Monitor : owner[m] = None <=> count[m] = 0
    /\ \A t \in Thread : state[t] \in {"MON_WAIT", "COND_WAIT"} =>
         owner[monitor[t]] # t /\ entryCount[t] > 0

(* Two threads that are not waiting for a monitor never both have it       *)
(* entered.                                                                *)
MutualExclusion ==
    \A m \in Monitor : \A t, u \in Thread :
      /\ held[t][m] > 0 /\ state[t] \notin {"MON_WAIT", "COND_WAIT"}
      /\ held[u][m] > 0 /\ state[u] \notin {"MON_WAIT", "COND_WAIT"}
      /\ at = "user"
      => t = u

(* The kernel's monitors keep the promise of the abstract ones: whatever   *)
(* is scheduled, notified, suspended or timed out, a step changes what a   *)
(* client can see of a monitor in one of the four ways of Monitors.        *)
Promise == INSTANCE Monitors WITH entries <- held, inside <- owner

KeepsPromise == Promise!Spec

(* No hand-off is lost: a monitor nobody owns is not wanted by a thread it *)
(* could be given to, except while the kernel is about to give it.         *)
NoLostHandoff ==
    \A m \in Monitor : owner[m] = None /\ Eligible(m) # {} =>
      at \in {"monNotify", "condNotify", "condNotifyEnd"} /\ call.mon = m

(* The relative times on the sleep queue add up, for every sleeper, to the *)
(* time it still has to sleep, whoever was inserted or taken out before it.*)
SleepQueueExact ==
    \A i \in DOMAIN queue[SleepQ] :
      /\ sleep[queue[SleepQ][i]] >= 0
      /\ Due[i] = Plus(left[queue[SleepQ][i]], elapsed)

(* Client code runs on the highest priority thread there is: every call    *)
(* and every signal that makes a better thread ready gives it the          *)
(* processor at once.  (The single lock suspends this until the next tick.)*)
RunsHighest ==
    SingleLock \notin ClientMonitor /\ at = "user" => ~ReadyAbove(priority[current])

(* A thread that blocks in PR_EnterMonitor, or in PR_Wait with a timeout,  *)
(* is made ready again although nobody notifies it, by being given the     *)
(* monitor, as long as those inside leave and all have one priority.       *)
BlockedReturns ==
    \A t \in Thread \ {Idle} :
      (/\ t \notin suspending
       /\ \/ state[t] = "MON_WAIT"
          \/ state[t] = "COND_WAIT" /\ left[t] < Forever)
      ~> (state[t] \in {"RUNNABLE", "RUNNING"} \/ t \in suspending)

(* There is always a thread for _PR_Schedule to find, idle if no other.    *)
IdleReady == state[Idle] \in {"RUNNING", "RUNNABLE"}

(* The assertions of _PR_MonNotify and _PR_CondWait: each is called for a  *)
(* monitor that nobody owns, the latter by a thread that has just given up *)
(* all its entries; waiting threads wait for a monitor.                    *)
CallOK ==
    /\ at \in {"monNotify", "condNotify", "condNotifyEnd", "condWait"} => call.mon \in Monitor
    /\ at = "monNotify" => owner[call.mon] = None
    /\ at \in {"condNotify", "condNotifyEnd"} => call.ret # "condWait"
    /\ at \in {"monNotify", "condWait"} /\ call.ret = "condWait" =>
         current # Idle /\ call.entries > 0
    /\ at = "condWait" => call.ret = "condWait" /\ owner[call.mon] # current
    /\ \A t \in Thread : state[t] \in {"MON_WAIT", "COND_WAIT"} => monitor[t] # None

(* What a call may rely on when it starts: the invariant of the kernel.    *)
KernelInv ==
    /\ QueuesMatchState /\ WaitersMatchState /\ CallOK
    /\ EntriesKept /\ NoLostHandoff /\ IdleReady

(* And every variable keeps its type.                                      *)
KernelSound == TypeOK /\ KernelInv
=============================================================================
