---------------------------- MODULE SwKernProofs ----------------------------
(***************************************************************************)
(* The kernel invariant of SwKern holds for every number of threads,       *)
(* monitors and priorities, whatever the client and the clock do.  The     *)
(* kernel implements module Monitors, runs the best thread that is ready,  *)
(* and keeps the times of the sleep queue exact.                           *)
(*                                                                         *)
(* With the pending exceptions of SwAsync the invariant holds but for one  *)
(* part of it, that _PR_ON_SLEEPQ marks the threads on the sleep queue and *)
(* no other.  So every step is first shown to keep what is left, AInv, and *)
(* then the steps of SwKern to keep that part too.                         *)
(***************************************************************************)
EXTENDS SwAsync, LinksProofs

(* The invariant that the exceptions keep too.                             *)
AsyncInv ==
    /\ AsyncKeepsQueues /\ WaitersMatchState /\ CallOK
    /\ EntriesKept /\ NoLostHandoff /\ IdleReady

AInv == TypeOK /\ AsyncInv

(* The rest of the kernel's invariant, and all of it.                      *)
ExactFlags == \A t \in onSleepQ : state[t] \in {"SLEEPING", "COND_WAIT"}

IInv == TypeOK /\ KernelInv

-----------------------------------------------------------------------------
(* The first part of AsyncKeepsQueues, and the effect on it of moving one  *)
(* thread t to queue q, or to none if q is NoQueue.                        *)
Linked ==
    \A q \in QueueName :
      IsTidy(queue[q]) /\ ToSet(queue[q]) = {t \in Thread : Home(t) = q}

(* Thread t has moved to queue q, or to none.                              *)
MovedTo(t, q) ==
    Family(queue', QueueName, Thread) /\ Moved(queue, queue', QueueName, t, q)

(* The names of the queues are different, and NoQueue is none of them.     *)
LEMMA QueueNames ==
    /\ Priority \subseteq QueueName /\ Priority \subseteq Nat
    /\ {SleepQ, SuspendQ, MonitorQ, ZombieQ} \subseteq QueueName
    /\ NoQueue \notin QueueName
    /\ {SleepQ, SuspendQ, MonitorQ, ZombieQ, NoQueue} \cap Priority = {}
    /\ SleepQ # SuspendQ /\ SleepQ # MonitorQ /\ SleepQ # ZombieQ /\ SleepQ # NoQueue
    /\ SuspendQ # MonitorQ /\ SuspendQ # ZombieQ /\ SuspendQ # NoQueue
    /\ MonitorQ # ZombieQ /\ MonitorQ # NoQueue /\ ZombieQ # NoQueue
BY NumberAssumption DEF QueueName, Priority, SleepQ, SuspendQ, MonitorQ, ZombieQ, NoQueue

(* Each state has one home.                                                *)
LEMMA Homes ==
    ASSUME NEW t \in Thread, TypeOK
    PROVE  /\ state[t] = "RUNNABLE" => Home(t) = priority[t]
           /\ state[t] \in {"SLEEPING", "COND_WAIT"} => Home(t) = SleepQ
           /\ state[t] = "SUSPENDED" => Home(t) = SuspendQ
           /\ state[t] = "MON_WAIT" => Home(t) = MonitorQ
           /\ state[t] = "ZOMBIE" => Home(t) = ZombieQ
           /\ state[t] \in {"UNBORN", "RUNNING"} => Home(t) = NoQueue
           /\ Home(t) \in QueueName \cup {NoQueue}
           /\ Home(t) = SleepQ <=> state[t] \in {"SLEEPING", "COND_WAIT"}
           /\ Home(t) \in Priority <=> state[t] = "RUNNABLE"
           /\ Home(t) = NoQueue <=> state[t] \in {"UNBORN", "RUNNING"}
<1> USE DEF Home
<1>1. state[t] \in ThreadState /\ priority[t] \in Priority
  BY DEF TypeOK
<1> QED BY <1>1, QueueNames DEF ThreadState

(* What the list operators do to a linked thread, to one that is not       *)
(* linked, and to one that goes on no queue.                               *)
LEMMA RelinkMoves ==
    ASSUME TypeOK, Linked, NEW t \in Thread, NEW q \in QueueName,
           queue' = Relink(queue, t, q)
    PROVE  MovedTo(t, q)
<1>1. Family(queue, QueueName, Thread)
  BY DEF TypeOK, Linked, Family
<1> QED BY <1>1, RelinkLemma DEF MovedTo

(* Linking a thread that is on no queue puts it on that one only           *)
(* (PR_APPEND_LINK).                                                       *)
LEMMA LinkMoves ==
    ASSUME TypeOK, Linked, NEW t \in Thread, state[t] \in {"UNBORN", "RUNNING"},
           NEW q \in QueueName, queue' = Link(queue, t, q)
    PROVE  MovedTo(t, q)
<1>1. Family(queue, QueueName, Thread)
  BY DEF TypeOK, Linked, Family
<1>2. \A n \in QueueName : t \notin ToSet(queue[n])
  BY Homes, QueueNames DEF Linked
<1> QED BY <1>1, <1>2, LinkLemma DEF MovedTo

(* Unlinking a thread takes it off the only queue it is on                 *)
(* (PR_REMOVE_LINK).                                                       *)
LEMMA UnlinkMoves ==
    ASSUME TypeOK, Linked, NEW t \in Thread, queue' = Unlink(queue, t)
    PROVE  MovedTo(t, NoQueue)
<1>1. Family(queue, QueueName, Thread)
  BY DEF TypeOK, Linked, Family
<1> QED BY <1>1, UnlinkLemma, QueueNames DEF MovedTo

(* PR_INSERT_BEFORE on the sleep queue, by a running thread.               *)
LEMMA InsertMoves ==
    ASSUME TypeOK, Linked, NEW t \in Thread, state[t] = "RUNNING",
           NEW i \in 1 .. Len(queue[SleepQ]) + 1,
           queue' = [queue EXCEPT ![SleepQ] = InsertBefore(@, i, t)]
    PROVE  MovedTo(t, SleepQ)
<1>1. /\ queue \in [QueueName -> Seq(Thread)] /\ \A n \in QueueName : IsTidy(queue[n])
      /\ SleepQ \in QueueName
  BY QueueNames DEF TypeOK, Linked
<1>2. \A n \in QueueName : t \notin ToSet(queue[n])
  BY Homes, QueueNames DEF Linked
<1>3. /\ InsertBefore(queue[SleepQ], i, t) \in Seq(Thread)
      /\ IsTidy(InsertBefore(queue[SleepQ], i, t))
      /\ ToSet(InsertBefore(queue[SleepQ], i, t)) = ToSet(queue[SleepQ]) \cup {t}
  BY <1>1, <1>2, InsertLemma
<1>4. \A n \in QueueName : ToSet(queue[n]) \ {t} = ToSet(queue[n])
  BY <1>2
<1> QED BY <1>1, <1>3, <1>4 DEF MovedTo, Moved, Family

(* A thread that moves to the queue of its new state leaves Linked true... *)
LEMMA MoveLinked ==
    ASSUME TypeOK, Linked, NEW t \in Thread, NEW q, MovedTo(t, q),
           \A u \in Thread : u # t => state'[u] = state[u] /\ priority'[u] = priority[u],
           Home(t)' = q
    PROVE  Linked'
<1>1. \A u \in Thread : u # t => Home(u)' = Home(u)
  BY DEF Home, TypeOK
<1>2. ASSUME NEW n \in QueueName
      PROVE  IsTidy(queue'[n]) /\ ToSet(queue'[n]) = {u \in Thread : Home(u)' = n}
  <2>1. ToSet(queue[n]) = {u \in Thread : Home(u) = n}
    BY DEF Linked
  <2> QED BY <1>1, <2>1 DEF MovedTo, Moved, Family
<1> QED BY <1>2 DEF Linked

(* ... and changes the ready mask in two bits at most.                     *)
LEMMA MoveMask ==
    ASSUME TypeOK, NEW t \in Thread, NEW q, MovedTo(t, q), Linked,
           readyMask = {p \in Priority : queue[p] # <<>>}
    PROVE  /\ \A p \in Priority : p # q /\ (state[t] # "RUNNABLE" \/ p # priority[t]) =>
                 (queue'[p] # <<>> <=> p \in readyMask)
           /\ q \in Priority => queue'[q] # <<>>
<1>1. \A p \in Priority : queue'[p] \in Seq(Thread) /\ queue[p] \in Seq(Thread) /\ p \in QueueName
  BY QueueNames DEF MovedTo, Moved, Family, TypeOK
<1>2. \A p \in Priority : queue'[p] = <<>> <=> ToSet(queue'[p]) = {}
  BY <1>1, HeadLemma
<1>3. \A p \in Priority : queue[p] = <<>> <=> ToSet(queue[p]) = {}
  BY <1>1, HeadLemma
<1>4. \A p \in Priority : t \in ToSet(queue[p]) => state[t] = "RUNNABLE" /\ priority[t] = p
  BY <1>1, Homes DEF Linked
<1>5. ASSUME NEW p \in Priority, p # q, state[t] # "RUNNABLE" \/ p # priority[t]
      PROVE  queue'[p] # <<>> <=> p \in readyMask
  <2>1. ToSet(queue'[p]) = ToSet(queue[p]) \ {t} /\ t \notin ToSet(queue[p])
    BY <1>1, <1>4, <1>5 DEF MovedTo, Moved, Family
  <2>2. ToSet(queue'[p]) = ToSet(queue[p])
    BY <2>1
  <2> QED BY <1>2, <1>3, <2>2
<1>6. ASSUME q \in Priority PROVE queue'[q] # <<>>
  <2>1. t \in ToSet(queue'[q])
    BY <1>1, <1>6 DEF MovedTo, Moved, Family
  <2> QED BY <1>2, <1>6, <2>1
<1> QED BY <1>5, <1>6

(* The three ways in which the kernel keeps the mask up to date.           *)
Mask == {p \in Priority : queue[p] # <<>>}

(* A move between queues that are not run queues leaves the ready mask     *)
(* right.                                                                  *)
LEMMA MaskUnchanged ==
    ASSUME TypeOK, NEW t \in Thread, NEW q, MovedTo(t, q), Linked, readyMask = Mask,
           state[t] # "RUNNABLE", q \notin Priority, readyMask' = readyMask
    PROVE  readyMask' = Mask'
<1>1. \A p \in Priority : queue'[p] # <<>> <=> p \in readyMask
  BY MoveMask DEF Mask
<1> QED BY <1>1 DEF Mask

(* A thread put on a run queue needs just that bit set in the ready mask.  *)
LEMMA MaskAdded ==
    ASSUME TypeOK, NEW t \in Thread, NEW q \in Priority, MovedTo(t, q), Linked,
           readyMask = Mask, state[t] # "RUNNABLE", readyMask' = readyMask \cup {q}
    PROVE  readyMask' = Mask'
<1>1. /\ \A p \in Priority : p # q => (queue'[p] # <<>> <=> p \in readyMask)
      /\ queue'[q] # <<>>
  BY MoveMask DEF Mask
<1> QED BY <1>1 DEF Mask

(* Taking a thread off a run queue needs its bit cleared if it was the     *)
(* last.                                                                   *)
LEMMA MaskTaken ==
    ASSUME TypeOK, NEW t \in Thread, NEW q, MovedTo(t, q), Linked,
           readyMask = Mask, state[t] = "RUNNABLE", q # priority[t],
           readyMask' = (IF q \in Priority THEN {q} ELSE {}) \cup
                        (IF queue'[priority[t]] = <<>> THEN readyMask \ {priority[t]}
                         ELSE readyMask)
    PROVE  readyMask' = Mask'
<1>1. /\ \A p \in Priority : p # q /\ p # priority[t] => (queue'[p] # <<>> <=> p \in readyMask)
      /\ q \in Priority => queue'[q] # <<>>
  BY MoveMask DEF Mask
<1>2. priority[t] \in Priority /\ Home(t) = priority[t]
  BY Homes DEF TypeOK
<1>3. priority[t] \in readyMask
  <2>1. priority[t] \in QueueName /\ queue[priority[t]] \in Seq(Thread)
    BY <1>2, QueueNames DEF TypeOK
  <2>2. t \in ToSet(queue[priority[t]])
    BY <1>2, <2>1 DEF Linked
  <2> QED BY <1>2, <2>1, <2>2, HeadLemma DEF Mask
<1>4. q \in Priority \/ q \notin Priority
  OBVIOUS
<1> QED BY <1>1, <1>2, <1>3, <1>4 DEF Mask
-----------------------------------------------------------------------------
(* Parts of the invariant that a step leaves alone.                        *)
Waiting == {"MON_WAIT", "COND_WAIT"}

(* The kernel is about to hand monitor m over.                             *)
Handing(m) ==
    at \in {"monNotify", "condNotify", "condNotifyEnd"} /\ call.mon = m

(* A step that touches no queue of the scheduler.                          *)
LEMMA QueuesFrame ==
    ASSUME AsyncKeepsQueues, UNCHANGED <<state, priority, onSleepQ, queue, readyMask, current>>,
           at' = "schedule" <=> at = "schedule"
    PROVE  AsyncKeepsQueues'
<1>1. \A t \in Thread : Home(t)' = Home(t)
  BY DEF Home
<1> QED BY <1>1 DEF AsyncKeepsQueues

(* A step that touches no monitor, and no thread that waits for one.       *)
LEMMA WaitersFrame ==
    ASSUME WaitersMatchState, UNCHANGED <<monitor, lockQ, condQ>>,
           \A t \in Thread : state'[t] = state[t] \/ {state[t], state'[t]} \cap Waiting = {}
    PROVE  WaitersMatchState'
<1>1. \A m \in Monitor : /\ Waiters("MON_WAIT", m)' = Waiters("MON_WAIT", m)
                         /\ Waiters("COND_WAIT", m)' = Waiters("COND_WAIT", m)
  BY DEF Waiters, Waiting
<1> QED BY <1>1 DEF WaitersMatchState

(* The entries, and so EntriesKept, survive a step that moves no thread    *)
(* into or out of a wait.                                                  *)
LEMMA EntriesSame ==
    ASSUME UNCHANGED <<monitor, entryCount, owner, count>>,
           \A t \in Thread : state'[t] = state[t] \/ {state[t], state'[t]} \cap Waiting = {},
           \A t \in Thread, m \in Monitor :
             /\ GivingUp(t, m)' <=> GivingUp(t, m)
             /\ GivingUp(t, m) => call'.entries = call.entries
    PROVE  \A t \in Thread, m \in Monitor : Entries(t, m)' = Entries(t, m)
<1> SUFFICES ASSUME NEW t \in Thread, NEW m \in Monitor
             PROVE  Entries(t, m)' = Entries(t, m)
  OBVIOUS
<1>1. state'[t] \in Waiting <=> state[t] \in Waiting
  BY DEF Waiting
<1>2. GivingUp(t, m)' <=> GivingUp(t, m)
  OBVIOUS
<1> QED BY <1>1, <1>2 DEF Entries, Waiting

(* ... so that the accounts agree as they did.                             *)
LEMMA EntriesFrame ==
    ASSUME EntriesKept, UNCHANGED <<monitor, entryCount, owner, count, held>>,
           \A t \in Thread : state'[t] = state[t] \/ {state[t], state'[t]} \cap Waiting = {},
           \A t \in Thread, m \in Monitor :
             /\ GivingUp(t, m)' <=> GivingUp(t, m)
             /\ GivingUp(t, m) => call'.entries = call.entries
    PROVE  EntriesKept'
<1>1. \A t \in Thread, m \in Monitor : Entries(t, m)' = Entries(t, m)
  BY EntriesSame
<1>2. \A t \in Thread : state'[t] \in Waiting => state[t] \in Waiting
  BY DEF Waiting
<1> QED BY <1>1, <1>2 DEF EntriesKept, Waiting

(* No thread becomes eligible by a step that changes no lock queue and lets*)
(* no suspended waiter go, ...                                             *)
LEMMA EligibleFrame ==
    ASSUME TypeOK, WaitersMatchState, UNCHANGED lockQ,
           \A t \in Thread : t \in suspending /\ t \notin suspending' => state[t] # "MON_WAIT",
           NEW m \in Monitor, Eligible(m)' # {}
    PROVE  Eligible(m) # {}
<1>1. PICK i \in DOMAIN lockQ[m] : lockQ[m][i] \notin suspending'
  BY DEF Eligible
<1>2. lockQ[m][i] \in ToSet(lockQ[m])
  BY DEF ToSet
<1>3. lockQ[m][i] \in Thread /\ state[lockQ[m][i]] = "MON_WAIT"
  BY <1>2 DEF WaitersMatchState, Waiters
<1> QED BY <1>1, <1>3 DEF Eligible

(* ... so that NoLostHandoff survives one that changes no owner either.    *)
LEMMA HandoffFrame ==
    ASSUME NoLostHandoff, UNCHANGED <<owner, lockQ>>, WaitersMatchState, TypeOK,
           \A t \in Thread : t \in suspending /\ t \notin suspending' => state[t] # "MON_WAIT",
           \A m \in Monitor : Handing(m) /\ owner[m] = None /\ Eligible(m) # {} => Handing(m)'
    PROVE  NoLostHandoff'
<1>1. \A m \in Monitor : Eligible(m)' # {} => Eligible(m) # {}
  BY EligibleFrame
<1> QED BY <1>1 DEF NoLostHandoff, Handing

(* A step that changes none of the data the invariant is about but goes on *)
(* in the kernel, or returns from it.                                      *)
LEMMA ControlFrame ==
    ASSUME AInv, TypeOK', CallOK', held' = held,
           UNCHANGED <<state, priority, suspending, onSleepQ, monitor, entryCount>>,
           UNCHANGED <<owner, count, lockQ, condQ, queue, readyMask, current>>,
           at' = "schedule" <=> at = "schedule",
           \A t \in Thread, m \in Monitor :
             /\ GivingUp(t, m)' <=> GivingUp(t, m)
             /\ GivingUp(t, m) => call'.entries = call.entries,
           \A m \in Monitor : Handing(m) /\ owner[m] = None /\ Eligible(m) # {} => Handing(m)'
    PROVE  AInv'
<1>1. AsyncKeepsQueues'
  BY QueuesFrame DEF AInv, AsyncInv
<1>2. WaitersMatchState'
  BY WaitersFrame DEF AInv, AsyncInv
<1>3. EntriesKept'
  BY EntriesFrame DEF AInv, AsyncInv
<1>4. NoLostHandoff'
  BY HandoffFrame DEF AInv, AsyncInv
<1>5. IdleReady'
  BY DEF AInv, AsyncInv, IdleReady
<1> QED BY <1>1, <1>2, <1>3, <1>4, <1>5 DEF AInv, AsyncInv
-----------------------------------------------------------------------------
(* The locals of the calls the kernel makes are of the right types.        *)
LEMMA CallRecords ==
    ASSUME NEW m \in Monitor \cup {None}, NEW how \in {"ONE", "ALL", "STICKY"},
           NEW nap \in Nat, NEW n \in Nat, NEW ret \in Return
    PROVE  LET c == CallTo(m, how, nap, n, ret) IN
           c \in CallRecord /\ c.mon = m /\ c.ret = ret /\ c.entries = n
BY DEF CallTo, CallRecord

(* The record of no call is one.                                           *)
LEMMA NoCallRecord == NoCall \in CallRecord /\ NoCall.mon = None /\ NoCall.ret = "intsOn"
BY CallRecords DEF NoCall, Return

(* A step outside PR_Wait that changes none of the threads, monitors and   *)
(* queues: the kernel goes on with something else, or returns.             *)
Goes(call1, at1) ==
    /\ at1 \in At \ {"schedule", "condWait"} /\ call1 \in CallRecord
    /\ at1 \in {"monNotify", "condNotify", "condNotifyEnd"} =>
         call1.mon \in Monitor /\ call1.ret # "condWait"

(* Such a step, which goes on with a hand-over that is under way.          *)
GoesOn ==
    /\ at \notin {"schedule", "monNotify", "condWait"} /\ Goes(call', at')
    /\ want' \in BOOLEAN /\ caller' \in IntsOnStep \cup {"resched"}
    /\ stickyCount' \in [Monitor -> Nat]
    /\ UNCHANGED <<state, priority, suspending, onSleepQ, monitor, entryCount>>
    /\ UNCHANGED <<owner, count, lockQ, condQ, queue, readyMask, current, userActive, held>>
    /\ \A m \in Monitor : Handing(m) /\ owner[m] = None => Handing(m)'
    /\ at' = "monNotify" => owner[call'.mon] = None

(* It keeps the invariant.                                                 *)
LEMMA ControlStep ==
    ASSUME AInv, GoesOn
    PROVE  AInv'
<1> USE DEF GoesOn
<1>1. TypeOK'
  BY DEF AInv, TypeOK, Goes
<1>2. CallOK'
  BY DEF AInv, AsyncInv, CallOK, Goes
<1>3. \A t \in Thread, m \in Monitor : ~GivingUp(t, m) /\ ~GivingUp(t, m)'
  BY DEF GivingUp, Goes
<1>4. \A m \in Monitor : Handing(m) /\ owner[m] = None /\ Eligible(m) # {} => Handing(m)'
  OBVIOUS
<1>5. at' = "schedule" <=> at = "schedule"
  BY DEF Goes
<1> QED BY <1>1, <1>2, <1>3, <1>4, <1>5, ControlFrame

(* The start of _PR_CondNotify changes no thread, monitor or queue.        *)
LEMMA CondNotifyGoes ==
    ASSUME TypeOK, NEW m \in Monitor, NEW how \in {"ONE", "ALL", "STICKY"},
           NEW ret \in Return \ {"condWait"}, CondNotify(m, how, ret)
    PROVE  /\ Goes(call', at') /\ at' = "condNotify"
           /\ stickyCount' \in [Monitor -> Nat]
<1>1. Goes(call', at') /\ at' = "condNotify"
  <2>1. call' = CallTo(m, how, 0, 0, ret) /\ at' = "condNotify"
    BY DEF CondNotify
  <2>2. call' \in CallRecord /\ call'.mon = m /\ call'.ret = ret
    BY <2>1, CallRecords
  <2> QED BY <2>1, <2>2 DEF Goes, At
<1>2. stickyCount' \in [Monitor -> Nat]
  BY DEF CondNotify, TypeOK
<1> QED BY <1>1, <1>2

(* One lemma for each such step: PR_Notify, ...                            *)
LEMMA NotifyGoesOn ==
    ASSUME TypeOK, NEW m \in ClientMonitor, NEW how \in {"ONE", "ALL"}, Notify(m, how)
    PROVE  GoesOn
<1> USE DEF Notify, Client
<1>1. m \in Monitor
  BY MonitorAssumption
<1>2. /\ Goes(call', at') /\ at' = "condNotify"
      /\ stickyCount' \in [Monitor -> Nat]
  BY <1>1, CondNotifyGoes DEF Return
<1>3. \A n \in Monitor : ~Handing(n)
  BY DEF Handing
<1> QED
  BY <1>1, <1>2, <1>3 DEF GoesOn, threadVars, schedVars, tick, history, TypeOK

(* ... the end of _PR_CondNotify, which hands over if the monitor is idle, *)
LEMMA CondNotifyEndGoesOn ==
    ASSUME TypeOK, CallOK, CondNotifyEnd
    PROVE  GoesOn
<1> USE DEF CondNotifyEnd, HandOverIfIdle
<1>1. call.mon \in Monitor /\ call.ret \in Return \ {"condWait"} /\ Return \subseteq At
  BY DEF CallOK, TypeOK, CallRecord, At
<1>2. Goes(call', at') /\ (at' = "monNotify" => owner[call'.mon] = None)
  BY <1>1, CallRecords, NoCallRecord DEF Goes, At, Return
<1>3. \A m \in Monitor : Handing(m) /\ owner[m] = None => Handing(m)'
  BY <1>1, CallRecords DEF Handing
<1> QED
  BY <1>2, <1>3 DEF GoesOn, threadVars, monitorVars, schedVars, tick, history, TypeOK

(* ... the end of the clock tick, before the poll, ...                     *)
LEMMA TickDoneGoesOn ==
    ASSUME TypeOK, TickDone
    PROVE  GoesOn
<1>1. Goes(call', at') /\ at' # "monNotify"
  BY NoCallRecord DEF TickDone, Goes, At, Return
<1>2. \A m \in Monitor : ~Handing(m)
  BY DEF Handing, TickDone
<1> QED
  BY <1>1, <1>2 DEF GoesOn, TickDone, monitorVars, schedVars, history, TypeOK

(* ... a poll that finds a descriptor ready, ...                           *)
LEMMA PollReadyGoesOn ==
    ASSUME TypeOK, NEW m \in IoMonitor, PollReady(m)
    PROVE  GoesOn
<1> USE DEF PollReady
<1>1. m \in Monitor
  BY MonitorAssumption
<1>2. /\ Goes(call', at') /\ at' = "condNotify"
      /\ stickyCount' \in [Monitor -> Nat]
  BY <1>1, CondNotifyGoes DEF Return
<1>3. \A n \in Monitor : ~Handing(n)
  BY DEF Handing
<1> QED
  BY <1>1, <1>2, <1>3 DEF GoesOn, threadVars, schedVars, tick, history, TypeOK

(* ... the end of the poll, ...                                            *)
LEMMA PollDoneGoesOn ==
    ASSUME TypeOK, PollDone
    PROVE  GoesOn
<1>1. Goes(call', at') /\ at' # "monNotify"
  BY NoCallRecord DEF PollDone, Goes, At, Return, IntsOnStep, TypeOK
<1>2. \A m \in Monitor : ~Handing(m)
  BY DEF Handing, PollDone
<1> QED
  BY <1>1, <1>2
  DEF GoesOn, PollDone, threadVars, monitorVars, schedVars, tick, history, TypeOK

(* ... the last part of _PR_IntsOn, ...                                    *)
LEMMA IntsOnGoesOn ==
    ASSUME TypeOK, IntsOn
    PROVE  GoesOn
<1>1. Goes(call', at') /\ at' # "monNotify"
  BY NoCallRecord DEF IntsOn, Goes, At, Return
<1>2. \A m \in Monitor : ~Handing(m)
  BY DEF Handing, IntsOn, IntsOnStep
<1>3. at \notin {"schedule", "monNotify", "condWait"}
  BY DEF IntsOn, IntsOnStep
<1> QED
  BY <1>1, <1>2, <1>3
  DEF GoesOn, IntsOn, threadVars, monitorVars, schedVars, tick, history, TypeOK

(* ... the start of a clock tick, from wherever it comes in, ...           *)
LEMMA ClockTickGoesOn ==
    ASSUME TypeOK, at \in {"user", "intsOn"}, want' \in BOOLEAN,
           NEW ret \in {"intsOn", "intsOn2", "resched"}, ClockTick(ret)
    PROVE  GoesOn
<1>1. Goes(call', at') /\ at' # "monNotify"
  BY DEF ClockTick, Goes, At, Return, TypeOK
<1>2. \A m \in Monitor : ~Handing(m)
  BY DEF Handing
<1>3. /\ caller' \in IntsOnStep \cup {"resched"} /\ stickyCount' \in [Monitor -> Nat]
      /\ UNCHANGED <<userActive, held>>
      /\ UNCHANGED <<state, priority, suspending, onSleepQ, monitor, entryCount>>
      /\ UNCHANGED <<owner, count, lockQ, condQ, queue, readyMask, current>>
  BY DEF ClockTick, threadVars, monitorVars, schedVars, IntsOnStep, TypeOK
<1> QED
  BY <1>1, <1>2, <1>3 DEF GoesOn

(* ... and _PR_ChildDeath, as an interrupt and as a missed signal.         *)
LEMMA ChildDeathGoesOn ==
    ASSUME TypeOK, at \in {"user", "intsOn", "intsOn2"}, want' \in BOOLEAN,
           NEW ret \in {"intsOn3", "resched"}, ChildDeath(ret)
    PROVE  GoesOn
<1> USE DEF ChildDeath
<1>1. ChildIntr \in Monitor
  BY MonitorAssumption
<1>2. /\ Goes(call', at') /\ at' = "condNotify"
      /\ stickyCount' \in [Monitor -> Nat]
  BY <1>1, CondNotifyGoes DEF Return
<1>3. \A m \in Monitor : ~Handing(m)
  BY DEF Handing
<1> QED
  BY <1>1, <1>2, <1>3 DEF GoesOn, threadVars, schedVars, tick, history, TypeOK

(* Every signal, missed or taken, and a round of idle, goes on so...       *)
LEMMA SignalGoesOn ==
    ASSUME TypeOK, Signal \/ IdleLoop \/ MissedClock \/ MissedChildDeath
    PROVE  GoesOn
<1>1. CASE ClockInterrupt
  BY <1>1, ClockTickGoesOn DEF ClockInterrupt
<1>2. CASE ChildDeathInterrupt
  BY <1>2, ChildDeathGoesOn DEF ChildDeathInterrupt
<1>3. CASE IdleLoop
  BY <1>3, ClockTickGoesOn DEF IdleLoop
<1>4. CASE MissedClock
  <2>1. at = "intsOn" /\ want' \in BOOLEAN /\ ClockTick("intsOn2")
    BY <1>4 DEF MissedClock, TypeOK
  <2> QED BY <2>1, ClockTickGoesOn
<1>5. CASE MissedChildDeath
  <2>1. at \in {"intsOn", "intsOn2"} /\ want' \in BOOLEAN /\ ChildDeath("intsOn3")
    BY <1>5 DEF MissedChildDeath, TypeOK
  <2> QED BY <2>1, ChildDeathGoesOn
<1> QED BY <1>1, <1>2, <1>3, <1>4, <1>5 DEF Signal

(* ... and so do the steps of the kernel that only look around.            *)
LEMMA KernelGoesOn ==
    ASSUME TypeOK, CallOK,
           \/ CondNotifyEnd \/ TickDone \/ PollDone \/ IntsOn
           \/ \E m \in IoMonitor : PollReady(m)
    PROVE  GoesOn
BY CondNotifyEndGoesOn, TickDoneGoesOn, PollDoneGoesOn, IntsOnGoesOn, PollReadyGoesOn
-----------------------------------------------------------------------------
(* What a step that moves thread t to queue q does to the flags: t has one *)
(* when it goes to sleep, the others keep theirs.                          *)
Flagged(t, q) ==
    /\ onSleepQ' \subseteq Thread /\ onSleepQ \ {t} \subseteq onSleepQ'
    /\ q = SleepQ => t \in onSleepQ'

(* A step that moves one thread from the queue of its state to the queue   *)
(* of its new state.                                                       *)
LEMMA QueuesMove ==
    ASSUME AInv, NEW t \in Thread, NEW st \in ThreadState, NEW q,
           state' = [state EXCEPT ![t] = st], UNCHANGED priority,
           MovedTo(t, q), Home(t)' = q, readyMask' = Mask',
           Flagged(t, q),
           \A u \in Thread : state'[u] = "RUNNING" <=> u = current' /\ at' # "schedule"
    PROVE  AsyncKeepsQueues'
<1>1. TypeOK /\ Linked /\ ToSet(queue[SleepQ]) \subseteq onSleepQ
  BY DEF AInv, AsyncInv, AsyncKeepsQueues, Linked
<1>2. \A u \in Thread : u # t => state'[u] = state[u] /\ priority'[u] = priority[u]
  BY <1>1 DEF TypeOK
<1>3. Linked'
  BY <1>1, <1>2, MoveLinked
<1>4. ToSet(queue'[SleepQ]) \subseteq onSleepQ'
  BY <1>1, QueueNames DEF MovedTo, Moved, Flagged
<1> QED BY <1>3, <1>4 DEF AsyncKeepsQueues, Linked, Mask

(* The same for a thread that waits for no monitor before or after.        *)
LEMMA ThreadStep ==
    ASSUME AInv, NEW t \in Thread, NEW st \in ThreadState \ Waiting, NEW q,
           state[t] \notin Waiting, state' = [state EXCEPT ![t] = st], UNCHANGED priority,
           MovedTo(t, q), Home(t)' = q, readyMask' = Mask',
           Flagged(t, q),
           \A u \in Thread : state'[u] = "RUNNING" <=> u = current' /\ at' # "schedule",
           t # Idle \/ st \in {"RUNNING", "RUNNABLE"},
           UNCHANGED <<monitor, entryCount, owner, count, stickyCount, lockQ, condQ, held>>,
           suspending' \in {suspending, suspending \ {t}},
           at \notin {"monNotify", "condNotify", "condNotifyEnd", "condWait"},
           at' \in At \ {"monNotify", "condNotify", "condNotifyEnd", "condWait"},
           call' \in CallRecord, want' \in BOOLEAN, caller' = caller,
           current' \in Thread, userActive' \in Nat
    PROVE  AInv'
<1>1. TypeOK'
  BY DEF AInv, TypeOK, MovedTo, Family, Mask, Flagged
<1>2. AsyncKeepsQueues'
  BY QueuesMove
<1>3. \A u \in Thread : state'[u] = state[u] \/ {state[u], state'[u]} \cap Waiting = {}
  BY DEF AInv, TypeOK
<1>4. WaitersMatchState'
  BY <1>3, WaitersFrame DEF AInv, AsyncInv
<1>5. \A u \in Thread, m \in Monitor : ~GivingUp(u, m) /\ ~GivingUp(u, m)'
  BY DEF GivingUp
<1>6. EntriesKept'
  BY <1>3, <1>5, EntriesFrame DEF AInv, AsyncInv
<1>7. \A m \in Monitor : ~Handing(m)
  BY DEF Handing
<1>8. \A u \in Thread : u \in suspending /\ u \notin suspending' => state[u] # "MON_WAIT"
  BY DEF Waiting
<1>9. NoLostHandoff'
  BY <1>7, <1>8, HandoffFrame DEF AInv, AsyncInv
<1>10. CallOK'
  BY <1>3 DEF AInv, AsyncInv, CallOK, Waiting
<1>11. IdleReady'
  BY DEF AInv, AsyncInv, IdleReady, TypeOK
<1> QED BY <1>1, <1>2, <1>4, <1>6, <1>9, <1>10, <1>11 DEF AInv, AsyncInv
-----------------------------------------------------------------------------
(* What the invariant says of the threads a step may move.                 *)
LEMMA Facts ==
    ASSUME AInv
    PROVE  /\ TypeOK /\ Linked /\ readyMask = Mask /\ ToSet(queue[SleepQ]) \subseteq onSleepQ
           /\ current \in Thread
           /\ \A t \in Thread : state[t] = "RUNNING" <=> t = current /\ at # "schedule"
           /\ \A t \in Thread : state[t] \in {"SLEEPING", "COND_WAIT"} => t \in onSleepQ
<1>1. /\ TypeOK /\ Linked /\ readyMask = Mask /\ ToSet(queue[SleepQ]) \subseteq onSleepQ
      /\ current \in Thread
      /\ \A t \in Thread : state[t] = "RUNNING" <=> t = current /\ at # "schedule"
  BY DEF AInv, AsyncInv, AsyncKeepsQueues, Linked, Mask, TypeOK
<1>2. ASSUME NEW t \in Thread
      PROVE  state[t] \in {"SLEEPING", "COND_WAIT"} => t \in onSleepQ
  <2>1. SleepQ \in QueueName
    BY QueueNames
  <2>2. ToSet(queue[SleepQ]) = {u \in Thread : Home(u) = SleepQ}
    BY <1>1, <2>1 DEF Linked
  <2>3. Home(t) = SleepQ <=> state[t] \in {"SLEEPING", "COND_WAIT"}
    BY <1>1, Homes
  <2> QED BY <1>1, <2>2, <2>3
<1> QED BY <1>1, <1>2

(* The running thread gives up the processor.                              *)
LEMMA DescheduleKeeps ==
    ASSUME AInv, at \in {"user", "yield", "resched"}, NEW st, NEW q, Deschedule(st, q),
           \/ st = "RUNNABLE" /\ q = priority[current] /\ readyMask' = readyMask \cup {q}
           \/ st = "ZOMBIE" /\ q = ZombieQ /\ readyMask' = readyMask /\ current # Idle
           \/ st = "SUSPENDED" /\ q = SuspendQ /\ readyMask' = readyMask /\ current # Idle,
           UNCHANGED <<priority, suspending, onSleepQ, monitor, entryCount>>,
           UNCHANGED <<owner, count, stickyCount, lockQ, condQ, held, current, caller>>,
           call' \in CallRecord, want' \in BOOLEAN, userActive' \in Nat
    PROVE  AInv'
<1> USE DEF Deschedule
<1>1. /\ TypeOK /\ Linked /\ readyMask = Mask /\ current \in Thread
      /\ state[current] = "RUNNING"
      /\ \A t \in Thread : state[t] = "RUNNING" <=> t = current /\ at # "schedule"
  BY Facts
<1>2. q \in QueueName /\ q # SleepQ /\ priority[current] \in Priority
  BY <1>1, QueueNames DEF TypeOK
<1>3. MovedTo(current, q)
  BY <1>1, <1>2, LinkMoves
<1>4. readyMask' = Mask'
  BY <1>1, <1>2, <1>3, MaskAdded, MaskUnchanged, QueueNames
<1>5. st \in ThreadState \ Waiting /\ Home(current)' = q
  BY <1>1, QueueNames DEF ThreadState, Waiting, Home, TypeOK
<1>6. Flagged(current, q)
  BY <1>1, <1>2 DEF Flagged, TypeOK
<1>7. \A u \in Thread : state'[u] = "RUNNING" <=> u = current' /\ at' # "schedule"
  BY <1>1 DEF TypeOK
<1>8. state[current] \notin Waiting /\ (current # Idle \/ st \in {"RUNNING", "RUNNABLE"})
  BY <1>1 DEF Waiting
<1> QED
  BY <1>1, <1>3, <1>4, <1>5, <1>6, <1>7, <1>8, ThreadStep DEF At

(* A thread that waits for nothing becomes ready.                          *)
LEMMA MakeRunnableKeeps ==
    ASSUME AInv, at \in {"user", "tick"}, NEW t \in Thread, MakeRunnable(t),
           state[t] \in {"UNBORN", "SUSPENDED", "SLEEPING"},
           onSleepQ' \in {onSleepQ, onSleepQ \ {t}},
           UNCHANGED <<priority, suspending, monitor, entryCount>>,
           UNCHANGED <<owner, count, stickyCount, lockQ, condQ, held, current, caller>>,
           at' \in {"intsOn", "tick"},
           call' \in CallRecord, want' \in BOOLEAN, userActive' \in Nat
    PROVE  AInv'
<1> USE DEF MakeRunnable
<1>1. /\ TypeOK /\ Linked /\ readyMask = Mask /\ current \in Thread
      /\ \A u \in Thread : state[u] = "RUNNING" <=> u = current /\ at # "schedule"
  BY Facts
<1>2. priority[t] \in Priority /\ priority[t] \in QueueName /\ priority[t] # SleepQ
  BY <1>1, QueueNames DEF TypeOK
<1>3. MovedTo(t, priority[t])
  BY <1>1, <1>2, RelinkMoves
<1>4. readyMask' = Mask'
  BY <1>1, <1>2, <1>3, MaskAdded
<1>5. "RUNNABLE" \in ThreadState \ Waiting /\ Home(t)' = priority[t]
  BY <1>1 DEF ThreadState, Waiting, Home, TypeOK
<1>6. \A u \in Thread : state'[u] = "RUNNING" <=> u = current' /\ at' # "schedule"
  BY <1>1 DEF TypeOK
<1>7. state[t] \notin Waiting
  BY DEF Waiting
<1>8. Flagged(t, priority[t])
  BY <1>1, <1>2 DEF Flagged, TypeOK
<1> QED
  BY <1>1, <1>2, <1>3, <1>4, <1>5, <1>6, <1>7, <1>8, ThreadStep DEF At, Return, IntsOnStep
-----------------------------------------------------------------------------
(* One lemma for each call and kernel step that moves threads between      *)
(* queues outside monitors.                                                *)
LEMMA YieldKeeps ==
    ASSUME AInv, Yield
    PROVE  AInv'
<1> USE DEF Yield, Client
<1>1. /\ UNCHANGED <<priority, suspending, onSleepQ, monitor, entryCount>>
      /\ UNCHANGED <<owner, count, stickyCount, lockQ, condQ, held, current, caller>>
      /\ userActive' = userActive /\ call' = call /\ want' = FALSE
      /\ at \in {"user", "yield"}
      /\ call \in CallRecord /\ userActive \in Nat /\ stickyCount \in [Monitor -> Nat]
      /\ caller \in IntsOnStep \cup {"resched"}
  BY DEF monitorVars, tick, history, AInv, TypeOK
<1>2. CASE Deschedule("RUNNABLE", priority[current]) /\ readyMask' = readyMask \cup {priority[current]}
  BY <1>1, <1>2, DescheduleKeeps
<1>3. CASE at' = "intsOn" /\ UNCHANGED <<state, queue, readyMask>>
  <2>1. Goes(call', at') /\ \A m \in Monitor : ~Handing(m)
    BY <1>1, <1>3 DEF Goes, At, Return, Handing
  <2> QED BY <1>1, <1>3, <2>1, ControlStep DEF GoesOn
<1> QED BY <1>2, <1>3

(* The preemption at the end of HandleInterrupt keeps the invariant.       *)
LEMMA ReschedKeeps ==
    ASSUME AInv, Resched
    PROVE  AInv'
<1> USE DEF Resched
<1>1. /\ UNCHANGED <<priority, suspending, onSleepQ, monitor, entryCount>>
      /\ UNCHANGED <<owner, count, stickyCount, lockQ, condQ, held, current, caller>>
      /\ userActive' = userActive /\ want' = FALSE
      /\ at = "resched" /\ call' \in CallRecord /\ userActive \in Nat
      /\ stickyCount \in [Monitor -> Nat] /\ caller \in IntsOnStep \cup {"resched"}
  BY NoCallRecord DEF monitorVars, tick, history, AInv, TypeOK
<1>2. CASE Deschedule("RUNNABLE", priority[current]) /\ readyMask' = readyMask \cup {priority[current]}
  BY <1>1, <1>2, DescheduleKeeps
<1>3. CASE at' = "user" /\ UNCHANGED <<state, queue, readyMask>>
  <2>1. Goes(call', at') /\ \A m \in Monitor : ~Handing(m)
    BY <1>1, <1>3 DEF Goes, At, Handing
  <2> QED BY <1>1, <1>3, <2>1, ControlStep DEF GoesOn
<1> QED BY <1>2, <1>3

(* PR_Exit keeps the invariant.                                            *)
LEMMA ExitKeeps ==
    ASSUME AInv, Exit
    PROVE  AInv'
<1>1. /\ UNCHANGED <<priority, suspending, onSleepQ, monitor, entryCount>>
      /\ UNCHANGED <<owner, count, stickyCount, lockQ, condQ, held, current, caller>>
      /\ at = "user" /\ current # Idle /\ readyMask' = readyMask
      /\ call' \in CallRecord /\ want' \in BOOLEAN /\ userActive' \in Nat
      /\ Deschedule("ZOMBIE", ZombieQ)
  BY DEF Exit, Client, monitorVars, tick, history, AInv, TypeOK
<1> QED BY <1>1, DescheduleKeeps

(* PR_Start keeps the invariant.                                           *)
LEMMA StartKeeps ==
    ASSUME AInv, NEW t \in Thread, Start(t)
    PROVE  AInv'
<1>1. /\ UNCHANGED <<priority, suspending, onSleepQ, monitor, entryCount>>
      /\ UNCHANGED <<owner, count, stickyCount, lockQ, condQ, held, current, caller>>
      /\ at = "user" /\ at' = "intsOn" /\ state[t] = "UNBORN" /\ MakeRunnable(t)
      /\ call' \in CallRecord /\ want' \in BOOLEAN /\ userActive' \in Nat
  BY NoCallRecord DEF Start, Client, ToIntsOn, monitorVars, tick, history, AInv, TypeOK
<1> QED BY <1>1, MakeRunnableKeeps

(* A ready or a sleeping thread that is suspended.                         *)
LEMMA ToSuspendQKeeps ==
    ASSUME AInv, at \in {"user", "tick"}, NEW t \in Thread, t # Idle,
           state[t] \in {"RUNNABLE", "SLEEPING"},
           state' = [state EXCEPT ![t] = "SUSPENDED"], queue' = Relink(queue, t, SuspendQ),
           readyMask' = IF state[t] = "RUNNABLE" /\ queue'[priority[t]] = <<>>
                        THEN readyMask \ {priority[t]} ELSE readyMask,
           onSleepQ' \in {onSleepQ, onSleepQ \ {t}}, suspending' \in {suspending, suspending \ {t}},
           UNCHANGED <<priority, monitor, entryCount>>,
           UNCHANGED <<owner, count, stickyCount, lockQ, condQ, held, current, caller>>,
           at' \in {"intsOn", "tick"},
           call' \in CallRecord, want' \in BOOLEAN, userActive' \in Nat
    PROVE  AInv'
<1>1. /\ TypeOK /\ Linked /\ readyMask = Mask /\ current \in Thread
      /\ \A u \in Thread : state[u] = "RUNNING" <=> u = current /\ at # "schedule"
  BY Facts
<1>2. MovedTo(t, SuspendQ)
  BY <1>1, QueueNames, RelinkMoves
<1>3. readyMask' = Mask'
  <2>1. SuspendQ \notin Priority /\ priority[t] \in Priority
    BY <1>1, QueueNames DEF TypeOK
  <2>2. CASE state[t] = "RUNNABLE"
    BY <1>1, <1>2, <2>1, <2>2, MaskTaken
  <2>3. CASE state[t] = "SLEEPING"
    BY <1>1, <1>2, <2>1, <2>3, MaskUnchanged
  <2> QED BY <2>2, <2>3
<1>4. "SUSPENDED" \in ThreadState \ Waiting /\ Home(t)' = SuspendQ
  BY <1>1 DEF ThreadState, Waiting, Home, TypeOK
<1>5. Flagged(t, SuspendQ)
  BY <1>1, QueueNames DEF Flagged, TypeOK
<1>6. \A u \in Thread : state'[u] = "RUNNING" <=> u = current' /\ at' # "schedule"
  BY <1>1 DEF TypeOK
<1>7. state[t] \notin Waiting
  BY DEF Waiting
<1> QED
  BY <1>1, <1>2, <1>3, <1>4, <1>5, <1>6, <1>7, ThreadStep DEF At, Return, IntsOnStep

(* A step that only marks blocked threads.                                 *)
LEMMA SuspendKeeps ==
    ASSUME AInv, NEW t \in Thread, Suspend(t)
    PROVE  AInv'
<1>1. /\ UNCHANGED <<priority, onSleepQ, monitor, entryCount>>
      /\ UNCHANGED <<owner, count, stickyCount, lockQ, condQ, held, current, userActive>>
      /\ at = "user" /\ current # Idle /\ t # Idle
      /\ caller' = caller /\ call' \in CallRecord /\ want' \in BOOLEAN /\ userActive \in Nat
  BY NoCallRecord DEF Suspend, Client, ToIntsOn, monitorVars, tick, history, AInv, TypeOK
<1>2. CASE state[t] = "RUNNING"
  <2>1. t = current
    BY <1>2, Facts
  <2>2. /\ Deschedule("SUSPENDED", SuspendQ)
        /\ UNCHANGED <<suspending, readyMask>>
    BY <1>2 DEF Suspend
  <2> QED BY <1>1, <2>1, <2>2, DescheduleKeeps
<1>3. CASE state[t] = "RUNNABLE"
  <2>1. /\ state' = [state EXCEPT ![t] = "SUSPENDED"]
        /\ queue' = Relink(queue, t, SuspendQ)
        /\ readyMask' = IF queue'[priority[t]] = <<>>
                        THEN readyMask \ {priority[t]} ELSE readyMask
        /\ at' = "intsOn" /\ suspending' = suspending
    BY <1>3 DEF Suspend, ToIntsOn
  <2> QED BY <1>1, <1>3, <2>1, ToSuspendQKeeps
<1>4. CASE state[t] \in {"MON_WAIT", "COND_WAIT", "SLEEPING"}
  <2>1. /\ suspending' = suspending \cup {t}
        /\ UNCHANGED <<state, queue, readyMask>>
        /\ at' = "intsOn"
    BY <1>4 DEF Suspend, ToIntsOn
  <2>2. TypeOK'
    BY <1>1, <2>1 DEF AInv, TypeOK, At, Return
  <2>3. AsyncKeepsQueues' /\ WaitersMatchState'
    BY <1>1, <2>1, QueuesFrame, WaitersFrame DEF AInv, AsyncInv
  <2>4. \A u \in Thread, m \in Monitor : ~GivingUp(u, m) /\ ~GivingUp(u, m)'
    BY <1>1, <2>1 DEF GivingUp
  <2>5. EntriesKept'
    BY <1>1, <2>1, <2>4, EntriesFrame DEF AInv, AsyncInv
  <2>6. NoLostHandoff'
    <3>1. \A m \in Monitor : ~Handing(m)
      BY <1>1 DEF Handing
    <3> QED BY <1>1, <2>1, <3>1, HandoffFrame DEF AInv, AsyncInv
  <2>7. CallOK' /\ IdleReady'
    BY <1>1, <2>1 DEF AInv, AsyncInv, CallOK, IdleReady
  <2> QED BY <2>2, <2>3, <2>5, <2>6, <2>7 DEF AInv, AsyncInv
<1> QED BY <1>2, <1>3, <1>4 DEF Suspend

(* A tick that ends a sleep keeps the invariant.                           *)
LEMMA TickWakeSleeperKeeps ==
    ASSUME AInv, TickWakeSleeper
    PROVE  AInv'
<1> DEFINE t == Head(queue[SleepQ])
<1>1. t \in Thread /\ state[t] = "SLEEPING" /\ t # Idle
  <2>1. queue[SleepQ] \in Seq(Thread) /\ queue[SleepQ] # <<>>
    BY QueueNames DEF TickWakeSleeper, TickExpired, AInv, TypeOK
  <2>2. t \in Thread
    BY <2>1, HeadLemma
  <2> QED BY <2>2 DEF TickWakeSleeper, AInv, AsyncInv, IdleReady
<1>2. /\ UNCHANGED <<priority, monitor, entryCount>>
      /\ UNCHANGED <<owner, count, stickyCount, lockQ, condQ, held, current, caller>>
      /\ at = "tick" /\ at' = "tick" /\ onSleepQ' = onSleepQ \ {t}
      /\ call' \in CallRecord /\ userActive' \in Nat
  BY DEF TickWakeSleeper, monitorVars, AInv, TypeOK
<1>3. CASE t \in suspending
  <2>1. /\ suspending' = suspending \ {t} /\ readyMask' = readyMask /\ want' = want
        /\ state' = [state EXCEPT ![t] = "SUSPENDED"]
        /\ queue' = Relink(queue, t, SuspendQ)
    BY <1>3 DEF TickWakeSleeper
  <2>2. want' \in BOOLEAN
    BY <2>1 DEF AInv, TypeOK
  <2> HIDE DEF t
  <2> QED BY <1>1, <1>2, <2>1, <2>2, ToSuspendQKeeps
<1>4. CASE t \notin suspending
  <2>1. /\ suspending' = suspending /\ MakeRunnable(t)
        /\ want' = (want \/ priority[t] >= priority[current])
    BY <1>4 DEF TickWakeSleeper
  <2>2. want' \in BOOLEAN
    BY <2>1 DEF AInv, TypeOK
  <2> HIDE DEF t
  <2> QED BY <1>1, <1>2, <2>1, <2>2, MakeRunnableKeeps
<1> QED BY <1>3, <1>4

(* _PR_Schedule keeps the invariant: the mask names only run queues with   *)
(* threads.                                                                *)
LEMMA ScheduleKeeps ==
    ASSUME AInv, Schedule
    PROVE  AInv'
<1>1. PICK p, t :
        /\ p \in readyMask /\ t = Head(queue[p])
        /\ queue' = Unlink(queue, t)
        /\ state' = [state EXCEPT ![t] = "RUNNING"]
        /\ current' = t
        /\ readyMask' = IF queue'[p] = <<>> THEN readyMask \ {p} ELSE readyMask
  BY DEF Schedule
<1>2. /\ TypeOK /\ Linked /\ readyMask = Mask
      /\ \A u \in Thread : state[u] # "RUNNING"
  BY Facts DEF Schedule
<1>3. t \in Thread /\ state[t] = "RUNNABLE" /\ priority[t] = p
  <2>1. p \in Priority /\ p \in QueueName /\ queue[p] \in Seq(Thread) /\ queue[p] # <<>>
    BY <1>1, <1>2, QueueNames DEF Mask, TypeOK
  <2>2. t \in Thread /\ t \in ToSet(queue[p])
    BY <1>1, <2>1, HeadLemma
  <2>3. Home(t) = p
    BY <2>1, <2>2, <1>2 DEF Linked
  <2> QED BY <2>1, <2>2, <2>3, <1>2, Homes
<1>4. MovedTo(t, NoQueue)
  BY <1>1, <1>2, <1>3, UnlinkMoves
<1>5. readyMask' = Mask'
  <2>1. NoQueue \notin Priority /\ NoQueue # priority[t]
    BY <1>3, <1>2, QueueNames DEF TypeOK
  <2> QED BY <1>1, <1>2, <1>3, <1>4, <2>1, MaskTaken
<1>6. /\ UNCHANGED <<priority, suspending, onSleepQ, monitor, entryCount>>
      /\ UNCHANGED <<owner, count, stickyCount, lockQ, condQ, held, caller, call, userActive>>
      /\ at = "schedule" /\ at' = "intsOn" /\ want' = FALSE
  BY DEF Schedule, monitorVars, tick, history
<1>7. "RUNNING" \in ThreadState \ Waiting /\ Home(t)' = NoQueue /\ state[t] \notin Waiting
  BY <1>1, <1>2, <1>3 DEF ThreadState, Waiting, Home, TypeOK
<1>8. Flagged(t, NoQueue)
  BY <1>2, <1>6, QueueNames DEF Flagged, TypeOK
<1>9. \A u \in Thread : state'[u] = "RUNNING" <=> u = current' /\ at' # "schedule"
  BY <1>1, <1>2, <1>3, <1>6 DEF TypeOK
<1>10. /\ call' \in CallRecord /\ want' \in BOOLEAN /\ userActive' \in Nat /\ current' \in Thread
       /\ at' \in At
  BY <1>1, <1>2, <1>3, <1>6 DEF TypeOK, At, Return
<1> QED
  BY <1>1, <1>3, <1>4, <1>5, <1>6, <1>7, <1>8, <1>9, <1>10, ThreadStep

(* The running thread goes on the sleep queue.                             *)
LEMMA PutOnSleepQMoves ==
    ASSUME AInv, at # "schedule", NEW nap, NEW st, PutOnSleepQ(nap, st)
    PROVE  /\ MovedTo(current, SleepQ)
           /\ state' = [state EXCEPT ![current] = st]
           /\ onSleepQ' = onSleepQ \cup {current}
<1>1. PICK i \in 1 .. Len(queue[SleepQ]) + 1 :
        queue' = [queue EXCEPT ![SleepQ] = InsertBefore(@, i, current)]
  BY DEF PutOnSleepQ
<1>2. MovedTo(current, SleepQ)
  BY <1>1, Facts, InsertMoves
<1> QED BY <1>2 DEF PutOnSleepQ

(* PR_Sleep keeps the invariant.                                           *)
LEMMA SleepKeeps ==
    ASSUME AInv, NEW nap \in SleepTime, Sleep(nap)
    PROVE  AInv'
<1>1. /\ UNCHANGED <<priority, suspending, monitor, entryCount, readyMask>>
      /\ UNCHANGED <<owner, count, stickyCount, lockQ, condQ, held, caller, call>>
      /\ UNCHANGED <<userActive, want, current>>
      /\ at = "user" /\ at' = "schedule" /\ current # Idle
      /\ PutOnSleepQ(nap, "SLEEPING")
  BY DEF Sleep, Client, monitorVars, tick
<1>2. /\ TypeOK /\ Linked /\ readyMask = Mask /\ current \in Thread
      /\ \A u \in Thread : state[u] = "RUNNING" <=> u = current
  BY <1>1, Facts
<1>3. /\ MovedTo(current, SleepQ)
      /\ state' = [state EXCEPT ![current] = "SLEEPING"]
      /\ onSleepQ' = onSleepQ \cup {current}
  BY <1>1, PutOnSleepQMoves
<1>4. state[current] = "RUNNING" /\ SleepQ \notin Priority
  BY <1>2, QueueNames
<1>5. readyMask' = Mask'
  BY <1>1, <1>2, <1>3, <1>4, MaskUnchanged
<1>6. /\ "SLEEPING" \in ThreadState \ Waiting /\ Home(current)' = SleepQ
      /\ state[current] \notin Waiting
  BY <1>1, <1>2, <1>3, <1>4 DEF ThreadState, Waiting, Home, TypeOK
<1>7. \A u \in Thread : state'[u] = "RUNNING" <=> u = current' /\ at' # "schedule"
  BY <1>1, <1>2, <1>3 DEF TypeOK
<1>8. /\ call' \in CallRecord /\ want' \in BOOLEAN /\ userActive' \in Nat /\ current' \in Thread
      /\ at' \in At
  BY <1>1, <1>2 DEF TypeOK, At
<1>9. Flagged(current, SleepQ)
  BY <1>2, <1>3 DEF Flagged, TypeOK
<1> QED
  BY <1>1, <1>2, <1>3, <1>5, <1>6, <1>7, <1>8, <1>9, ThreadStep

(* Going on with a hand-off, if one is due, or with the return of a call.  *)
LEMMA HandOverGoes ==
    ASSUME NEW m \in Monitor, NEW ret \in Return \ {"condWait"}, HandOverIfIdle(m, ret)
    PROVE  /\ Goes(call', at') /\ (owner[m] = None => at' = "monNotify" /\ call'.mon = m)
           /\ at' = "monNotify" => owner[call'.mon] = None
BY CallRecords, NoCallRecord DEF HandOverIfIdle, Goes, At, Return

(* The way out of a kernel call changes no thread, monitor or queue.       *)
LEMMA ToIntsOnGoes ==
    ASSUME NEW needYield \in BOOLEAN, ToIntsOn(needYield)
    PROVE  Goes(call', at') /\ at' = "intsOn" /\ want' \in BOOLEAN /\ caller' = caller
BY NoCallRecord DEF ToIntsOn, Goes, At, Return, tick

(* A resumed thread that is first in line for an idle monitor is handed it.*)
LEMMA ResumeKeeps ==
    ASSUME AInv, NEW t \in Thread, Resume(t)
    PROVE  AInv'
<1>1. /\ UNCHANGED <<priority, onSleepQ, monitor, entryCount>>
      /\ UNCHANGED <<owner, count, stickyCount, lockQ, condQ, held, current, userActive>>
      /\ at = "user" /\ caller' = caller /\ userActive \in Nat
  BY DEF Resume, Client, ToIntsOn, HandOverIfIdle, monitorVars, tick, history, AInv, TypeOK
<1>2. CASE state[t] = "SUSPENDED"
  <2>1. MakeRunnable(t) /\ ToIntsOn(priority[t] >= priority[current]) /\ suspending' = suspending
    BY <1>2 DEF Resume
  <2>2. at' = "intsOn" /\ call' \in CallRecord /\ want' \in BOOLEAN
    BY <2>1, NoCallRecord DEF ToIntsOn
  <2> QED BY <1>1, <1>2, <2>1, <2>2, MakeRunnableKeeps
<1>3. CASE state[t] \in {"MON_WAIT", "COND_WAIT", "SLEEPING"} /\ t \in suspending
  <2>1. /\ suspending' = suspending \ {t} /\ UNCHANGED <<state, queue, readyMask>>
        /\ IF state[t] = "MON_WAIT"
           THEN want' = FALSE /\ HandOverIfIdle(monitor[t], "intsOn")
           ELSE ToIntsOn(FALSE)
    BY <1>3 DEF Resume
  <2>2. state[t] = "MON_WAIT" => monitor[t] \in Monitor
    BY DEF AInv, AsyncInv, CallOK, TypeOK
  <2>3. Goes(call', at') /\ want' \in BOOLEAN /\ (at' = "monNotify" => owner[call'.mon] = None)
    BY <2>1, <2>2, HandOverGoes, ToIntsOnGoes DEF Return
  <2>4. TypeOK' /\ CallOK' /\ IdleReady'
    BY <1>1, <2>1, <2>3 DEF AInv, AsyncInv, TypeOK, CallOK, IdleReady, Goes
  <2>5. AsyncKeepsQueues' /\ WaitersMatchState'
    BY <1>1, <2>1, <2>3, QueuesFrame, WaitersFrame DEF AInv, AsyncInv, Goes
  <2>6. \A u \in Thread, m \in Monitor : ~GivingUp(u, m) /\ ~GivingUp(u, m)'
    BY <1>1, <2>3 DEF GivingUp, Goes
  <2>7. EntriesKept'
    BY <1>1, <2>1, <2>6, EntriesFrame DEF AInv, AsyncInv
  <2>8. ASSUME NEW m \in Monitor, owner[m] = None, Eligible(m)' # {}
        PROVE  at' = "monNotify" /\ call'.mon = m
    <3>1. Eligible(m) = {}
      BY <1>1, <2>8 DEF AInv, AsyncInv, NoLostHandoff
    <3>2. PICK i \in DOMAIN lockQ[m] : lockQ[m][i] = t
      BY <1>1, <2>1, <2>8, <3>1 DEF Eligible
    <3>3. t \in ToSet(lockQ[m])
      BY <3>2 DEF ToSet
    <3>4. state[t] = "MON_WAIT" /\ monitor[t] = m
      BY <3>3 DEF AInv, AsyncInv, WaitersMatchState, Waiters
    <3> QED BY <2>1, <2>8, <3>4, HandOverGoes DEF Return
  <2>9. NoLostHandoff'
    BY <1>1, <2>8 DEF NoLostHandoff
  <2> QED BY <2>4, <2>5, <2>7, <2>9 DEF AInv, AsyncInv
<1> QED BY <1>2, <1>3 DEF Resume
(* A change of priority moves a ready thread, and no other.                *)
LEMMA Clamps == \A n \in Int : Clamp(n) \in Priority
BY NumberAssumption DEF Clamp, Priority

(* PR_SetThreadPriority keeps the invariant in each state of the thread.   *)
LEMMA SetThreadPriorityKeeps ==
    ASSUME AInv, NEW t \in Thread, NEW newPri \in Priority, SetThreadPriority(t, newPri)
    PROVE  AInv'
<1>1. /\ UNCHANGED <<state, suspending, onSleepQ, monitor, entryCount>>
      /\ UNCHANGED <<owner, count, stickyCount, lockQ, condQ, held, current, userActive>>
      /\ at = "user" /\ priority' = [priority EXCEPT ![t] = newPri] /\ newPri # priority[t]
      /\ ToIntsOn(ReadyAbove(newPri)) \/ ToIntsOn(newPri > priority[current]) \/ ToIntsOn(FALSE)
  BY DEF SetThreadPriority, Client, monitorVars, history
<1>2. Goes(call', at') /\ at' = "intsOn" /\ want' \in BOOLEAN /\ caller' = caller
  <2>1. ReadyAbove(newPri) \in BOOLEAN /\ (newPri > priority[current]) \in BOOLEAN
    BY DEF ReadyAbove
  <2> QED BY <1>1, <2>1, ToIntsOnGoes
<1>3. /\ TypeOK /\ Linked /\ readyMask = Mask /\ ToSet(queue[SleepQ]) \subseteq onSleepQ
      /\ \A u \in Thread : state[u] = "RUNNING" <=> u = current
  BY <1>1, Facts
<1>4. Linked' /\ readyMask' = Mask' /\ ToSet(queue'[SleepQ]) \subseteq onSleepQ'
      /\ queue' \in [QueueName -> Seq(Thread)]
  <2>1. CASE state[t] = "RUNNABLE"
    <3>1. /\ queue' = Relink(queue, t, newPri)
          /\ readyMask' = {newPri} \cup (IF queue'[priority[t]] = <<>>
                                         THEN readyMask \ {priority[t]} ELSE readyMask)
      BY <2>1 DEF SetThreadPriority
    <3>2. newPri \in QueueName /\ newPri # SleepQ /\ SleepQ \in QueueName
      BY QueueNames
    <3>3. MovedTo(t, newPri)
      BY <1>3, <3>1, <3>2, RelinkMoves
    <3>4. \A u \in Thread : u # t => state'[u] = state[u] /\ priority'[u] = priority[u]
      BY <1>1, <1>3 DEF TypeOK
    <3>5. Home(t)' = newPri
      BY <1>1, <1>3, <2>1 DEF Home, TypeOK
    <3>6. Linked'
      BY <1>3, <3>3, <3>4, <3>5, MoveLinked
    <3>7. readyMask' = Mask'
      BY <1>1, <1>3, <2>1, <3>1, <3>3, MaskTaken
    <3>9. ToSet(queue'[SleepQ]) \subseteq onSleepQ'
      BY <1>1, <1>3, <3>2, <3>3 DEF MovedTo, Moved
    <3> QED BY <3>3, <3>6, <3>7, <3>9 DEF MovedTo, Family
  <2>2. CASE state[t] # "RUNNABLE"
    <3>1. UNCHANGED <<queue, readyMask>>
      BY <2>2 DEF SetThreadPriority
    <3>2. \A u \in Thread : Home(u)' = Home(u)
      BY <1>1, <1>3, <2>2 DEF Home, TypeOK
    <3> QED BY <1>1, <1>3, <3>1, <3>2 DEF Linked, Mask, TypeOK
  <2> QED BY <2>1, <2>2
<1>5. TypeOK'
  BY <1>1, <1>2, <1>3, <1>4 DEF TypeOK, Mask, Goes
<1>6. AsyncKeepsQueues'
  BY <1>1, <1>2, <1>3, <1>4 DEF AsyncKeepsQueues, Linked, Mask
<1>7. WaitersMatchState'
  BY <1>1, WaitersFrame DEF AInv, AsyncInv
<1>8. \A u \in Thread, m \in Monitor : ~GivingUp(u, m) /\ ~GivingUp(u, m)'
  BY <1>1, <1>2 DEF GivingUp
<1>9. EntriesKept'
  BY <1>1, <1>8, EntriesFrame DEF AInv, AsyncInv
<1>10. \A m \in Monitor : ~Handing(m)
  BY <1>1 DEF Handing
<1>11. NoLostHandoff'
  BY <1>1, <1>10, HandoffFrame DEF AInv, AsyncInv
<1>12. CallOK' /\ IdleReady'
  BY <1>1, <1>2 DEF AInv, AsyncInv, CallOK, IdleReady
<1> QED BY <1>5, <1>6, <1>7, <1>9, <1>11, <1>12 DEF AInv, AsyncInv
-----------------------------------------------------------------------------
(* Steps that move one thread between the queues of the monitors.          *)
(* On which lists of the monitors a thread is linked, ...                  *)
LEMMA WaitLists ==
    ASSUME TypeOK, WaitersMatchState
    PROVE  /\ Family(lockQ, Monitor, Thread) /\ Family(condQ, Monitor, Thread)
           /\ \A t \in Thread, m \in Monitor :
                /\ t \in ToSet(lockQ[m]) <=> state[t] = "MON_WAIT" /\ monitor[t] = m
                /\ t \in ToSet(condQ[m]) <=> state[t] = "COND_WAIT" /\ monitor[t] = m
           /\ \A m \in Monitor : ToSet(lockQ[m]) \subseteq Thread /\ ToSet(condQ[m]) \subseteq Thread
BY DEF WaitersMatchState, Waiters, Family, TypeOK

(* ... as the invariant says it.                                           *)
LEMMA WaitQueues ==
    ASSUME AInv
    PROVE  /\ Family(lockQ, Monitor, Thread) /\ Family(condQ, Monitor, Thread)
           /\ \A t \in Thread, m \in Monitor :
                /\ t \in ToSet(lockQ[m]) <=> state[t] = "MON_WAIT" /\ monitor[t] = m
                /\ t \in ToSet(condQ[m]) <=> state[t] = "COND_WAIT" /\ monitor[t] = m
           /\ \A m \in Monitor : ToSet(lockQ[m]) \subseteq Thread /\ ToSet(condQ[m]) \subseteq Thread
<1>1. TypeOK /\ WaitersMatchState
  BY DEF AInv, AsyncInv
<1> QED BY <1>1, WaitLists

(* A thread moved to the wait list of its new state keeps                  *)
(* WaitersMatchState.                                                      *)
LEMMA WaitersMove ==
    ASSUME TypeOK, WaitersMatchState,
           NEW t \in Thread, NEW st \in ThreadState, NEW n \in Monitor \cup {None},
           state' = [state EXCEPT ![t] = st], monitor' = [monitor EXCEPT ![t] = n],
           Family(lockQ', Monitor, Thread), Family(condQ', Monitor, Thread),
           Moved(lockQ, lockQ', Monitor, t, IF st = "MON_WAIT" THEN n ELSE None),
           Moved(condQ, condQ', Monitor, t, IF st = "COND_WAIT" THEN n ELSE None)
    PROVE  WaitersMatchState'
<1>1. \A u \in Thread : /\ state'[u] = IF u = t THEN st ELSE state[u]
                        /\ monitor'[u] = IF u = t THEN n ELSE monitor[u]
  BY DEF TypeOK
<1>2. ASSUME NEW m \in Monitor
      PROVE  IsTidy(lockQ'[m]) /\ ToSet(lockQ'[m]) = Waiters("MON_WAIT", m)'
  <2>1. m # None
    BY MonitorAssumption
  <2>2. \A u : u \in ToSet(lockQ'[m]) <=> u \in Waiters("MON_WAIT", m)'
    BY <1>1, <2>1, WaitLists DEF Moved, Waiters
  <2> QED BY <2>2 DEF Family
<1>3. ASSUME NEW m \in Monitor
      PROVE  IsTidy(condQ'[m]) /\ ToSet(condQ'[m]) = Waiters("COND_WAIT", m)'
  <2>1. m # None
    BY MonitorAssumption
  <2>2. \A u : u \in ToSet(condQ'[m]) <=> u \in Waiters("COND_WAIT", m)'
    BY <1>1, <2>1, WaitLists DEF Moved, Waiters
  <2> QED BY <2>2 DEF Family
<1> QED BY <1>2, <1>3 DEF WaitersMatchState

(* An unowned monitor that is not being handed over has no thread it could *)
(* be given to, and keeps none as long as its queue stays as it is.        *)
LEMMA HandoffOthers ==
    ASSUME AInv, NEW m \in Monitor, UNCHANGED suspending,
           \A n \in Monitor : n # m => owner'[n] = owner[n] /\ lockQ'[n] = lockQ[n],
           \A n \in Monitor : n # m /\ Handing(n) => Handing(n)',
           owner'[m] = None => Eligible(m)' = {} \/ Handing(m)'
    PROVE  NoLostHandoff'
<1>1. \A n \in Monitor : n # m => Eligible(n)' = Eligible(n)
  BY DEF Eligible
<1> QED BY <1>1 DEF AInv, AsyncInv, NoLostHandoff, Handing
-----------------------------------------------------------------------------
(* One lemma for each call and kernel step on monitors.                    *)
LEMMA EnterMonitorKeeps ==
    ASSUME AInv, NEW m \in ClientMonitor, EnterMonitor(m)
    PROVE  AInv'
<1>1. /\ m \in Monitor /\ at = "user" /\ current # Idle
      /\ held' = [held EXCEPT ![current][m] = @ + 1]
      /\ UNCHANGED <<stickyCount, condQ>>
  BY MonitorAssumption DEF EnterMonitor, Client
<1>2. /\ TypeOK /\ Linked /\ readyMask = Mask /\ current \in Thread /\ state[current] = "RUNNING"
      /\ \A u \in Thread : state[u] = "RUNNING" <=> u = current
  BY <1>1, Facts
<1>3. \A u \in Thread, n \in Monitor : ~GivingUp(u, n)
  BY <1>1 DEF GivingUp
<1>4. \A n \in Monitor : ~Handing(n) /\ (owner[n] = None => Eligible(n) = {})
  BY <1>1 DEF Handing, AInv, AsyncInv, NoLostHandoff
<1>5. CASE /\ owner[m] \in {current, None}
           /\ owner' = [owner EXCEPT ![m] = current]
           /\ count' = [count EXCEPT ![m] = IF owner[m] = current THEN @ + 1 ELSE 1]
           /\ ToIntsOn(FALSE)
           /\ UNCHANGED <<threadVars, lockQ, schedVars>>
  <2>1. Goes(call', at') /\ at' = "intsOn" /\ want' \in BOOLEAN /\ caller' = caller
    BY <1>5, ToIntsOnGoes
  <2>2. /\ UNCHANGED <<state, priority, suspending, onSleepQ, monitor, entryCount>>
        /\ UNCHANGED <<lockQ, queue, readyMask, current, userActive>>
    BY <1>5 DEF threadVars, schedVars
  <2>3. TypeOK'
    BY <1>1, <1>2, <1>5, <2>1, <2>2 DEF TypeOK, Goes
  <2>4. AsyncKeepsQueues' /\ WaitersMatchState'
    BY <1>1, <2>1, <2>2, QueuesFrame, WaitersFrame DEF AInv, AsyncInv
  <2>5. EntriesKept'
    <3>1. \A u \in Thread, n \in Monitor : ~GivingUp(u, n)'
      BY <2>1 DEF GivingUp
    <3>2. ASSUME NEW u \in Thread, NEW n \in Monitor
          PROVE  held'[u][n] = Entries(u, n)'
      <4>1. held[u][n] = Entries(u, n)
        BY DEF AInv, AsyncInv, EntriesKept
      <4>2. CASE u = current /\ n = m
        <5>1. owner'[n] = u /\ held'[u][n] = held[u][n] + 1
          BY <1>1, <1>2, <1>5, <4>2 DEF TypeOK
        <5>2. count'[n] = held[u][n] + 1
          BY <1>2, <1>3, <1>5, <4>1, <4>2, ThreadAssumption DEF Entries, TypeOK
        <5> QED BY <5>1, <5>2 DEF Entries
      <4>3. CASE ~(u = current /\ n = m)
        <5>1. held'[u][n] = held[u][n]
          BY <1>1, <1>2, <4>3 DEF TypeOK
        <5>2. /\ owner'[n] = u <=> owner[n] = u
              /\ owner[n] = u => count'[n] = count[n]
          BY <1>2, <1>5, <4>3, ThreadAssumption DEF TypeOK
        <5> QED BY <1>3, <2>2, <3>1, <4>1, <5>1, <5>2 DEF Entries
      <4> QED BY <4>2, <4>3
    <3>3. \A n \in Monitor : owner'[n] = None <=> count'[n] = 0
      BY <1>2, <1>5, ThreadAssumption DEF AInv, AsyncInv, EntriesKept, TypeOK
    <3>4. \A u \in Thread : state'[u] \in Waiting => owner'[monitor'[u]] # u /\ entryCount'[u] > 0
      BY <1>2, <1>5, <2>2 DEF AInv, AsyncInv, EntriesKept, CallOK, TypeOK, Waiting
    <3> QED BY <3>2, <3>3, <3>4 DEF EntriesKept, Waiting
  <2>6. NoLostHandoff'
    <3>1. owner'[m] # None
      BY <1>1, <1>2, <1>5, ThreadAssumption DEF TypeOK
    <3> QED BY <1>1, <1>4, <1>5, <2>2, <3>1, HandoffOthers DEF AInv, TypeOK
  <2>7. CallOK' /\ IdleReady'
    BY <2>1, <2>2 DEF AInv, AsyncInv, CallOK, IdleReady
  <2> QED BY <2>3, <2>4, <2>5, <2>6, <2>7 DEF AInv, AsyncInv
<1>6. CASE /\ owner[m] \notin {current, None}
           /\ monitor' = [monitor EXCEPT ![current] = m]
           /\ entryCount' = [entryCount EXCEPT ![current] = 1]
           /\ lockQ' = [lockQ EXCEPT ![m] = Append(@, current)]
           /\ Deschedule("MON_WAIT", MonitorQ)
           /\ UNCHANGED <<priority, suspending, onSleepQ, sleep, owner, count>>
           /\ UNCHANGED <<readyMask, current, userActive, want, call, tick>>
  <2>1. /\ state' = [state EXCEPT ![current] = "MON_WAIT"] /\ at' = "schedule"
        /\ queue' = Link(queue, current, MonitorQ)
        /\ caller' = caller
    BY <1>6 DEF Deschedule, tick
  <2>2. MovedTo(current, MonitorQ)
    BY <1>2, <2>1, QueueNames, LinkMoves
  <2>3. lockQ' = Link(lockQ, current, m)
    BY <1>6 DEF Link
  <2>4. /\ Family(lockQ', Monitor, Thread) /\ Moved(lockQ, lockQ', Monitor, current, m)
        /\ Family(condQ', Monitor, Thread) /\ Moved(condQ, condQ', Monitor, current, None)
    <3>1. \A n \in Monitor : current \notin ToSet(lockQ[n]) /\ current \notin ToSet(condQ[n])
      BY <1>2, WaitQueues
    <3>2. Moved(condQ, condQ, Monitor, current, None)
      BY <3>1, MonitorAssumption DEF Moved
    <3> QED BY <1>1, <1>2, <2>3, <3>1, <3>2, WaitQueues, LinkLemma
  <2>5. TypeOK'
    BY <1>1, <1>2, <1>6, <2>1, <2>2, <2>4 DEF TypeOK, MovedTo, Family, At, ThreadState
  <2>6. AsyncKeepsQueues'
    <3>1. Home(current)' = MonitorQ /\ "MON_WAIT" \in ThreadState
      BY <1>2, <1>6, <2>1 DEF Home, TypeOK, ThreadState
    <3>2. readyMask' = Mask'
      BY <1>2, <1>6, <2>2, QueueNames, MaskUnchanged
    <3>3. Flagged(current, MonitorQ)
      BY <1>2, <1>6, QueueNames DEF Flagged, TypeOK
    <3>4. \A u \in Thread : state'[u] = "RUNNING" <=> u = current' /\ at' # "schedule"
      BY <1>2, <2>1 DEF TypeOK
    <3> QED BY <1>2, <1>6, <2>1, <2>2, <3>1, <3>2, <3>3, <3>4, QueuesMove
  <2>7. WaitersMatchState'
    BY <1>1, <1>2, <1>6, <2>1, <2>4, WaitersMove DEF ThreadState, AInv, AsyncInv
  <2>8. EntriesKept'
    <3>1. \A u \in Thread, n \in Monitor : ~GivingUp(u, n)'
      BY <2>1 DEF GivingUp
    <3>2. ASSUME NEW u \in Thread, NEW n \in Monitor
          PROVE  held'[u][n] = Entries(u, n)'
      <4>1. held[u][n] = Entries(u, n)
        BY DEF AInv, AsyncInv, EntriesKept
      <4>2. CASE u # current
        BY <1>1, <1>2, <1>3, <1>6, <2>1, <3>1, <4>1, <4>2 DEF Entries, TypeOK
      <4>3. CASE u = current /\ n = m
        BY <1>1, <1>2, <1>3, <1>6, <2>1, <3>1, <4>1, <4>3 DEF Entries, TypeOK
      <4>4. CASE u = current /\ n # m
        <5>1. /\ held'[u][n] = held[u][n] /\ owner'[n] = owner[n] /\ count'[n] = count[n]
              /\ monitor'[u] # n /\ ~GivingUp(u, n)'
          BY <1>1, <1>2, <1>6, <3>1, <4>4 DEF TypeOK
        <5>2. state[u] = "RUNNING" /\ ~GivingUp(u, n)
          BY <1>2, <1>3, <4>4
        <5> QED BY <4>1, <5>1, <5>2 DEF Entries
      <4> QED BY <4>2, <4>3, <4>4
    <3>3. \A n \in Monitor : owner'[n] = None <=> count'[n] = 0
      BY <1>6 DEF AInv, AsyncInv, EntriesKept
    <3>4. \A u \in Thread \ {current} :
            state'[u] = state[u] /\ monitor'[u] = monitor[u] /\ entryCount'[u] = entryCount[u]
      BY <1>2, <1>6, <2>1 DEF TypeOK
    <3>5. monitor'[current] = m /\ entryCount'[current] = 1 /\ owner' = owner
      BY <1>2, <1>6 DEF TypeOK
    <3>6. ASSUME NEW u \in Thread, state'[u] \in {"MON_WAIT", "COND_WAIT"}
          PROVE  owner'[monitor'[u]] # u /\ entryCount'[u] > 0
      <4>1. CASE u = current
        BY <1>6, <3>5, <4>1
      <4>2. CASE u # current
        BY <3>4, <3>5, <3>6, <4>2 DEF AInv, AsyncInv, EntriesKept
      <4> QED BY <4>1, <4>2
    <3> QED BY <3>2, <3>3, <3>6 DEF EntriesKept
  <2>9. NoLostHandoff'
    BY <1>1, <1>4, <1>6, HandoffOthers DEF AInv, TypeOK
  <2>10. CallOK' /\ IdleReady'
    BY <1>1, <1>2, <1>6, <2>1, MonitorAssumption, ThreadAssumption
    DEF AInv, AsyncInv, CallOK, IdleReady, TypeOK
  <2> QED BY <2>5, <2>6, <2>7, <2>8, <2>9, <2>10 DEF AInv, AsyncInv
<1>7. \/ /\ owner[m] \in {current, None}
         /\ owner' = [owner EXCEPT ![m] = current]
         /\ count' = [count EXCEPT ![m] = IF owner[m] = current THEN @ + 1 ELSE 1]
         /\ ToIntsOn(FALSE)
         /\ UNCHANGED <<threadVars, lockQ, schedVars>>
      \/ /\ owner[m] \notin {current, None}
         /\ monitor' = [monitor EXCEPT ![current] = m]
         /\ entryCount' = [entryCount EXCEPT ![current] = 1]
         /\ lockQ' = [lockQ EXCEPT ![m] = Append(@, current)]
         /\ Deschedule("MON_WAIT", MonitorQ)
         /\ UNCHANGED <<priority, suspending, onSleepQ, sleep, owner, count>>
         /\ UNCHANGED <<readyMask, current, userActive, want, call, tick>>
  <2>1. CASE owner[m] = current
    <3>1. /\ owner' = owner /\ count' = [count EXCEPT ![m] = @ + 1] /\ ToIntsOn(FALSE)
          /\ UNCHANGED <<threadVars, lockQ, schedVars>>
      BY <1>2, <2>1, ThreadAssumption DEF EnterMonitor
    <3>2. owner = [owner EXCEPT ![m] = current]
      BY <1>1, <1>2, <2>1 DEF TypeOK
    <3> QED BY <2>1, <3>1, <3>2
  <2>2. CASE owner[m] = None
    <3>1. owner[m] # current
      BY <1>2, <2>2, ThreadAssumption
    <3>2. /\ owner' = [owner EXCEPT ![m] = current] /\ count' = [count EXCEPT ![m] = 1]
          /\ ToIntsOn(FALSE) /\ UNCHANGED <<threadVars, lockQ, schedVars>>
      BY <2>2, <3>1 DEF EnterMonitor
    <3> QED BY <2>2, <3>1, <3>2
  <2>3. CASE owner[m] \notin {current, None}
    BY <2>3 DEF EnterMonitor
  <2> QED BY <2>1, <2>2, <2>3
<1> QED BY <1>5, <1>6, <1>7
(* The owner leaves, or gives up, a monitor: PR_ExitMonitor and the start  *)
(* of PR_Wait.                                                             *)
LEMMA OwnerStep ==
    ASSUME AInv, NEW m \in Monitor, at = "user", owner[m] = current,
           UNCHANGED <<state, priority, suspending, onSleepQ, monitor, entryCount>>,
           UNCHANGED <<stickyCount, lockQ, condQ, queue, readyMask, current, userActive>>,
           want' \in BOOLEAN, caller' = caller, Goes(call', at'), at' # "condWait",
           held' = [held EXCEPT ![current][m] = @ - 1], count' = [count EXCEPT ![m] = @ - 1],
           \/ count[m] > 1 /\ owner' = owner /\ at' = "intsOn"
           \/ /\ count[m] = 1 /\ owner' = [owner EXCEPT ![m] = None]
              /\ at' = "monNotify" /\ call'.mon = m
    PROVE  AInv'
<1>1. /\ TypeOK /\ current \in Thread /\ state[current] = "RUNNING"
  BY Facts
<1>2. \A u \in Thread, n \in Monitor : ~GivingUp(u, n) /\ ~GivingUp(u, n)'
  BY DEF GivingUp, Goes
<1>3. \A n \in Monitor : ~Handing(n) /\ (owner[n] = None => Eligible(n) = {})
  BY DEF Handing, AInv, AsyncInv, NoLostHandoff
<1>4. TypeOK'
  <2>1. held' \in [Thread -> [Monitor -> Int]]
    BY <1>1 DEF TypeOK
  <2>3. count' \in [Monitor -> Nat]
    <3>1. count[m] \in Nat /\ count[m] > 0 /\ count' = [count EXCEPT ![m] = count[m] - 1]
      BY <1>1 DEF TypeOK
    <3> QED BY <1>1, <3>1 DEF TypeOK
  <2>2. owner' \in [Monitor -> Thread \cup {None}]
    BY <1>1 DEF TypeOK
  <2> QED BY <1>1, <2>1, <2>2, <2>3 DEF TypeOK, Goes
<1>5. AsyncKeepsQueues' /\ WaitersMatchState'
  BY QueuesFrame, WaitersFrame DEF AInv, AsyncInv, Goes
<1>6. EntriesKept'
  <2>1. ASSUME NEW u \in Thread, NEW n \in Monitor
        PROVE  held'[u][n] = Entries(u, n)'
    <3>1. held[u][n] = Entries(u, n)
      BY DEF AInv, AsyncInv, EntriesKept
    <3>2. CASE u = current /\ n = m
      <4>1. held'[u][n] = count[n] - 1 /\ count'[n] = count[n] - 1
        BY <1>1, <3>1, <3>2 DEF Entries, TypeOK
      <4>2. CASE owner' = owner
        BY <3>2, <4>1, <4>2 DEF Entries
      <4>3. CASE count[m] = 1 /\ owner' = [owner EXCEPT ![m] = None]
        <5>1. owner'[n] # u /\ count'[n] = 0 /\ state'[u] = "RUNNING"
          BY <1>1, <3>2, <4>1, <4>3, ThreadAssumption DEF TypeOK
        <5>2. Entries(u, n)' = 0
          <6>1. owner'[n] # u /\ state'[u] \notin {"MON_WAIT", "COND_WAIT"} /\ ~GivingUp(u, n)'
            BY <1>2, <5>1
          <6> QED BY <6>1 DEF Entries
        <5>3. held'[u][n] = 0
          <6>1. count[n] = 1 /\ held'[u][n] = count[n] - 1
            BY <3>2, <4>1, <4>3
          <6> QED BY <6>1
        <5> QED BY <5>2, <5>3
      <4> QED BY <4>2, <4>3
    <3>3. CASE ~(u = current /\ n = m)
      <4>1. held'[u][n] = held[u][n]
        BY <1>1, <3>3 DEF TypeOK
      <4>2. /\ owner'[n] = u <=> owner[n] = u
            /\ owner[n] = u => count'[n] = count[n]
        BY <1>1, <3>3, ThreadAssumption DEF TypeOK
      <4> QED BY <1>2, <3>1, <4>1, <4>2 DEF Entries
    <3> QED BY <3>2, <3>3
  <2>2. ASSUME NEW n \in Monitor
        PROVE  owner'[n] = None <=> count'[n] = 0
    <3>1. owner[n] = None <=> count[n] = 0
      BY DEF AInv, AsyncInv, EntriesKept
    <3>2. CASE n # m
      BY <1>1, <3>1, <3>2 DEF TypeOK
    <3>3. CASE n = m
      BY <1>1, <3>1, <3>3, ThreadAssumption DEF TypeOK
    <3> QED BY <3>2, <3>3
  <2>3. \A u \in Thread : state'[u] \in Waiting => owner'[monitor'[u]] # u /\ entryCount'[u] > 0
    BY <1>1, ThreadAssumption DEF AInv, AsyncInv, EntriesKept, CallOK, TypeOK, Waiting
  <2> QED BY <2>1, <2>2, <2>3 DEF EntriesKept, Waiting
<1>7. NoLostHandoff'
  <2>1. owner'[m] = None => Handing(m)'
    BY <1>1, ThreadAssumption DEF Handing, TypeOK
  <2>2. \A n \in Monitor : n # m => owner'[n] = owner[n] /\ lockQ'[n] = lockQ[n]
    BY <1>1 DEF TypeOK
  <2> QED BY <1>3, <2>1, <2>2, HandoffOthers
<1>8. CallOK'
  <2>1. at' = "monNotify" => owner'[call'.mon] = None
    BY <1>1 DEF TypeOK
  <2> QED BY <2>1 DEF AInv, AsyncInv, CallOK, Goes
<1>9. IdleReady'
  BY DEF AInv, AsyncInv, IdleReady
<1> QED BY <1>4, <1>5, <1>6, <1>7, <1>8, <1>9 DEF AInv, AsyncInv

(* PR_ExitMonitor keeps the invariant: the last exit goes on to hand over. *)
LEMMA ExitMonitorKeeps ==
    ASSUME AInv, NEW m \in ClientMonitor, ExitMonitor(m)
    PROVE  AInv'
<1>1. /\ m \in Monitor /\ at = "user" /\ owner[m] = current
      /\ held' = [held EXCEPT ![current][m] = @ - 1] /\ count' = [count EXCEPT ![m] = @ - 1]
      /\ UNCHANGED <<state, priority, suspending, onSleepQ, monitor, entryCount>>
      /\ UNCHANGED <<stickyCount, lockQ, condQ, queue, readyMask, current, userActive>>
  BY MonitorAssumption DEF ExitMonitor, Client, threadVars, schedVars
<1>2. CASE count[m] > 1 /\ ToIntsOn(FALSE) /\ UNCHANGED owner
  <2>1. Goes(call', at') /\ at' = "intsOn" /\ want' \in BOOLEAN /\ caller' = caller
    BY <1>2, ToIntsOnGoes
  <2> QED BY <1>1, <1>2, <2>1, OwnerStep
<1>3. CASE /\ count[m] = 1
           /\ owner' = [owner EXCEPT ![m] = None]
           /\ at' = "monNotify" /\ want' = FALSE
           /\ call' = CallTo(m, "ONE", 0, 0, "intsOn")
           /\ UNCHANGED tick
  <2>0. m \in Monitor \cup {None} /\ "intsOn" \in Return /\ caller' = caller
    BY <1>1, <1>3 DEF Return, tick
  <2>1. call' \in CallRecord /\ call'.mon = m /\ call'.ret = "intsOn"
    BY <1>3, <2>0 DEF CallTo, CallRecord
  <2>2. Goes(call', at')
    BY <1>1, <1>3, <2>1 DEF Goes, At
  <2> QED BY <1>1, <1>3, <2>0, <2>1, <2>2, OwnerStep
<1> QED BY <1>2, <1>3 DEF ExitMonitor

(* PR_Wait keeps the invariant, up to the step that blocks.                *)
LEMMA WaitKeeps ==
    ASSUME AInv, NEW m \in ClientMonitor, NEW nap \in SleepTime \cup {Forever}, Wait(m, nap)
    PROVE  AInv'
<1>1. /\ m \in Monitor /\ nap \in Nat /\ at = "user" /\ current # Idle
      /\ UNCHANGED <<state, priority, suspending, onSleepQ, monitor, entryCount, held>>
      /\ UNCHANGED <<lockQ, condQ, queue, readyMask, current, userActive>>
  BY MonitorAssumption, NumberAssumption DEF Wait, Client, threadVars, schedVars, history
<1>2. /\ TypeOK /\ current \in Thread /\ state[current] = "RUNNING"
      /\ \A n \in Monitor : ~Handing(n) /\ (owner[n] = None => Eligible(n) = {})
  BY <1>1, Facts DEF Handing, AInv, AsyncInv, NoLostHandoff
<1>3. CASE /\ stickyCount[m] > 0
           /\ stickyCount' = [stickyCount EXCEPT ![m] = @ - 1]
           /\ ToIntsOn(FALSE)
           /\ UNCHANGED <<owner, count>>
  <2>1. /\ Goes(call', at') /\ at' = "intsOn" /\ want' \in BOOLEAN /\ caller' = caller
        /\ caller \in IntsOnStep \cup {"resched"}
    BY <1>2, <1>3, ToIntsOnGoes DEF TypeOK
  <2>2. stickyCount' \in [Monitor -> Nat]
    BY <1>1, <1>2, <1>3 DEF TypeOK
  <2> QED BY <1>1, <1>2, <1>3, <2>1, <2>2, ControlStep DEF GoesOn
<1>4. CASE /\ owner[m] = current
           /\ owner' = [owner EXCEPT ![m] = None]
           /\ count' = [count EXCEPT ![m] = 0]
           /\ at' = "monNotify" /\ want' = FALSE
           /\ call' = CallTo(m, "ONE", nap, count[m], "condWait")
           /\ UNCHANGED <<stickyCount, tick>>
  <2>1. count[m] \in Nat /\ count[m] > 0
    BY <1>1, <1>2, <1>4, ThreadAssumption DEF AInv, AsyncInv, EntriesKept, TypeOK
  <2>2. /\ call' \in CallRecord /\ call'.mon = m /\ call'.ret = "condWait"
        /\ call'.entries = count[m] /\ caller' = caller
    BY <1>1, <1>4, <2>1, CallRecords DEF Return, tick
  <2>3. TypeOK'
    BY <1>1, <1>2, <1>4, <2>2 DEF TypeOK, At
  <2>4. AsyncKeepsQueues' /\ WaitersMatchState'
    BY <1>1, <1>4, QueuesFrame, WaitersFrame DEF AInv, AsyncInv
  <2>5. \A u \in Thread, n \in Monitor :
           ~GivingUp(u, n) /\ (GivingUp(u, n)' <=> u = current /\ n = m)
    BY <1>1, <1>4, <2>2 DEF GivingUp
  <2>6. ASSUME NEW u \in Thread, NEW n \in Monitor
        PROVE  held'[u][n] = Entries(u, n)'
    <3>1. held[u][n] = Entries(u, n) /\ held' = held
      BY <1>1 DEF AInv, AsyncInv, EntriesKept
    <3>2. CASE u = current /\ n = m
      <4>1. held[u][n] = count[m]
        BY <1>4, <3>1, <3>2 DEF Entries
      <4>2. owner'[n] # u /\ state'[u] = "RUNNING" /\ GivingUp(u, n)'
        BY <1>1, <1>2, <1>4, <2>5, <3>2, ThreadAssumption DEF TypeOK
      <4>3. Entries(u, n)' = call'.entries
        BY <4>2 DEF Entries
      <4> QED BY <2>2, <3>1, <4>1, <4>3
    <3>3. CASE ~(u = current /\ n = m)
      <4>1. /\ owner'[n] = u <=> owner[n] = u
            /\ owner[n] = u => count'[n] = count[n]
        BY <1>1, <1>2, <1>4, <3>3, ThreadAssumption DEF TypeOK
      <4>2. ~GivingUp(u, n) /\ ~GivingUp(u, n)'
        BY <2>5, <3>3
      <4> QED BY <1>1, <3>1, <4>1, <4>2 DEF Entries
    <3> QED BY <3>2, <3>3
  <2>7. EntriesKept'
    <3>1. \A n \in Monitor : owner'[n] = None <=> count'[n] = 0
      BY <1>1, <1>2, <1>4 DEF AInv, AsyncInv, EntriesKept, TypeOK
    <3>2. \A u \in Thread : state'[u] \in Waiting => owner'[monitor'[u]] # u /\ entryCount'[u] > 0
      BY <1>1, <1>2, <1>4, ThreadAssumption DEF AInv, AsyncInv, EntriesKept, CallOK, TypeOK, Waiting
    <3> QED BY <2>6, <3>1, <3>2 DEF EntriesKept, Waiting
  <2>8. NoLostHandoff'
    <3>1. Handing(m)'
      BY <1>4, <2>2 DEF Handing
    <3>2. \A n \in Monitor : n # m => owner'[n] = owner[n] /\ lockQ'[n] = lockQ[n]
      BY <1>1, <1>2, <1>4 DEF TypeOK
    <3> QED BY <1>1, <1>2, <3>1, <3>2, HandoffOthers
  <2>9. CallOK'
    <3>1. owner'[m] = None
      BY <1>1, <1>2, <1>4 DEF TypeOK
    <3> QED BY <1>1, <1>4, <2>1, <2>2, <3>1 DEF AInv, AsyncInv, CallOK
  <2>10. IdleReady'
    BY <1>1 DEF AInv, AsyncInv, IdleReady
  <2> QED BY <2>3, <2>4, <2>7, <2>8, <2>9, <2>10 DEF AInv, AsyncInv
<1> QED BY <1>3, <1>4 DEF Wait

(* The rest of PR_Wait: the thread that gave the monitor up goes to sleep. *)
LEMMA CondWaitKeeps ==
    ASSUME AInv, CondWait
    PROVE  AInv'
<1>1. /\ at = "condWait" /\ at' = "schedule" /\ PutOnSleepQ(call.nap, "COND_WAIT")
      /\ condQ' = Link(condQ, current, call.mon)
      /\ monitor' = [monitor EXCEPT ![current] = call.mon]
      /\ entryCount' = [entryCount EXCEPT ![current] = call.entries]
      /\ call' = NoCall /\ caller' = caller
      /\ UNCHANGED <<priority, suspending, owner, count, stickyCount, lockQ>>
      /\ UNCHANGED <<readyMask, current, userActive, want, held>>
  BY DEF CondWait, Link, tick
<1>2. /\ call.mon \in Monitor /\ call.ret = "condWait" /\ call.entries \in Nat
      /\ call.entries > 0 /\ owner[call.mon] # current /\ current # Idle
  BY <1>1 DEF AInv, AsyncInv, CallOK, TypeOK, CallRecord
<1>3. PICK m \in Monitor : m = call.mon
  BY <1>2
<1>4. /\ TypeOK /\ Linked /\ readyMask = Mask /\ current \in Thread /\ state[current] = "RUNNING"
      /\ \A u \in Thread : state[u] = "RUNNING" <=> u = current
  BY <1>1, Facts
<1>5. /\ MovedTo(current, SleepQ)
      /\ state' = [state EXCEPT ![current] = "COND_WAIT"]
      /\ onSleepQ' = onSleepQ \cup {current}
  BY <1>1, PutOnSleepQMoves
<1>6. /\ Family(lockQ', Monitor, Thread) /\ Moved(lockQ, lockQ', Monitor, current, None)
      /\ Family(condQ', Monitor, Thread) /\ Moved(condQ, condQ', Monitor, current, m)
  <2>1. \A n \in Monitor : current \notin ToSet(lockQ[n]) /\ current \notin ToSet(condQ[n])
    BY <1>4, WaitQueues
  <2>2. Moved(lockQ, lockQ, Monitor, current, None)
    BY <2>1, MonitorAssumption DEF Moved
  <2> QED BY <1>1, <1>3, <1>4, <2>1, <2>2, WaitQueues, LinkLemma
<1>7. TypeOK'
  BY <1>1, <1>2, <1>4, <1>5, <1>6, NoCallRecord DEF TypeOK, MovedTo, Family, At, ThreadState
<1>8. AsyncKeepsQueues'
  <2>1. Home(current)' = SleepQ /\ "COND_WAIT" \in ThreadState
    BY <1>1, <1>4, <1>5 DEF Home, TypeOK, ThreadState
  <2>2. readyMask' = Mask'
    BY <1>1, <1>4, <1>5, QueueNames, MaskUnchanged
  <2>3. \A u \in Thread : state'[u] = "RUNNING" <=> u = current' /\ at' # "schedule"
    BY <1>1, <1>4, <1>5 DEF TypeOK
  <2>4. Flagged(current, SleepQ)
    BY <1>4, <1>5 DEF Flagged, TypeOK
  <2> QED BY <1>1, <1>4, <1>5, <2>1, <2>2, <2>3, <2>4, QueuesMove
<1>9. WaitersMatchState'
  BY <1>1, <1>3, <1>4, <1>5, <1>6, WaitersMove DEF ThreadState, AInv, AsyncInv
<1>10. EntriesKept'
  <2>1. \A u \in Thread, n \in Monitor :
           ~GivingUp(u, n)' /\ (GivingUp(u, n) <=> u = current /\ n = m)
    BY <1>1, <1>2, <1>3 DEF GivingUp
  <2>2. ASSUME NEW u \in Thread, NEW n \in Monitor
        PROVE  held'[u][n] = Entries(u, n)'
    <3>1. held'[u][n] = Entries(u, n)
      BY <1>1 DEF AInv, AsyncInv, EntriesKept
    <3>2. CASE u # current
      BY <1>1, <1>4, <1>5, <2>1, <3>1, <3>2 DEF Entries, TypeOK
    <3>3. CASE u = current /\ n = m
      BY <1>1, <1>2, <1>3, <1>4, <1>5, <2>1, <3>1, <3>3 DEF Entries, TypeOK
    <3>4. CASE u = current /\ n # m
      <4>1. /\ owner'[n] = owner[n] /\ count'[n] = count[n]
            /\ monitor'[u] # n /\ ~GivingUp(u, n)'
        BY <1>1, <1>3, <1>4, <2>1, <3>4 DEF TypeOK
      <4>2. state[u] = "RUNNING" /\ ~GivingUp(u, n)
        BY <1>4, <2>1, <3>4
      <4> QED BY <3>1, <4>1, <4>2 DEF Entries
    <3> QED BY <3>2, <3>3, <3>4
  <2> QED
    BY <1>1, <1>2, <1>4, <1>5, <2>2 DEF AInv, AsyncInv, EntriesKept, TypeOK
<1>11. NoLostHandoff'
  <2>1. \A n \in Monitor : ~Handing(n)
    BY <1>1 DEF Handing
  <2> QED BY <1>1, <2>1 DEF Eligible, AInv, AsyncInv, NoLostHandoff, Handing
<1>12. CallOK' /\ IdleReady'
  BY <1>1, <1>2, <1>4, <1>5, MonitorAssumption, ThreadAssumption
  DEF AInv, AsyncInv, CallOK, IdleReady, TypeOK
<1> QED BY <1>7, <1>8, <1>9, <1>10, <1>11, <1>12 DEF AInv, AsyncInv
(* A waiting thread is sent back to the queue for the monitor.             *)
LEMMA NotifyMove ==
    ASSUME AInv, NEW t \in Thread, state[t] = "COND_WAIT", NEW m \in Monitor, monitor[t] = m,
           condQ' = [condQ EXCEPT ![m] = Without(@, t)],
           lockQ' = [lockQ EXCEPT ![m] = Append(@, t)],
           queue' = Relink(queue, t, MonitorQ),
           state' = [state EXCEPT ![t] = "MON_WAIT"],
           onSleepQ' = onSleepQ \ {t},
           UNCHANGED <<priority, suspending, monitor, entryCount, readyMask, held>>,
           UNCHANGED <<owner, count, stickyCount, current, userActive>>,
           at \notin {"schedule", "monNotify", "condWait"}, Goes(call', at'),
           want' \in BOOLEAN, caller' = caller,
           at' = "monNotify" => owner[call'.mon] = None,
           \A n \in Monitor : Handing(n) => Handing(n)' \/ n = m,
           owner[m] = None => Handing(m)'
    PROVE  AInv'
<1>1. /\ TypeOK /\ Linked /\ readyMask = Mask
      /\ \A u \in Thread : state[u] = "RUNNING" <=> u = current
  BY Facts
<1>2. MovedTo(t, MonitorQ)
  BY <1>1, QueueNames, RelinkMoves
<1>3. /\ Family(lockQ', Monitor, Thread) /\ Moved(lockQ, lockQ', Monitor, t, m)
      /\ Family(condQ', Monitor, Thread) /\ Moved(condQ, condQ', Monitor, t, None)
  <2>1. lockQ' = Link(lockQ, t, m) /\ condQ' = UnlinkFrom(condQ, t, m)
    BY DEF Link, UnlinkFrom
  <2>2. /\ \A n \in Monitor : t \notin ToSet(lockQ[n])
        /\ \A n \in Monitor : t \in ToSet(condQ[n]) => n = m
    BY WaitQueues
  <2>3. Family(lockQ, Monitor, Thread) /\ Family(condQ, Monitor, Thread)
    BY WaitQueues
  <2>4. None \notin Monitor
    BY MonitorAssumption
  <2>5. /\ Family(Link(lockQ, t, m), Monitor, Thread)
        /\ Moved(lockQ, Link(lockQ, t, m), Monitor, t, m)
    BY <2>2, <2>3, LinkLemma
  <2>6. /\ Family(UnlinkFrom(condQ, t, m), Monitor, Thread)
        /\ Moved(condQ, UnlinkFrom(condQ, t, m), Monitor, t, None)
    BY <2>2, <2>3, <2>4, UnlinkFromLemma
  <2> QED BY <2>1, <2>5, <2>6
<1>4. TypeOK'
  BY <1>1, <1>2, <1>3 DEF TypeOK, MovedTo, Family, Goes, ThreadState
<1>5. AsyncKeepsQueues'
  <2>1. Home(t)' = MonitorQ /\ "MON_WAIT" \in ThreadState
    BY <1>1 DEF Home, TypeOK, ThreadState
  <2>2. readyMask' = Mask'
    BY <1>1, <1>2, QueueNames, MaskUnchanged
  <2>3. Flagged(t, MonitorQ)
    BY <1>1, QueueNames DEF Flagged, TypeOK
  <2>4. \A u \in Thread : state'[u] = "RUNNING" <=> u = current' /\ at' # "schedule"
    BY <1>1 DEF TypeOK, Goes
  <2> QED BY <1>2, <2>1, <2>2, <2>3, <2>4, QueuesMove
<1>6. WaitersMatchState'
  <2>1. monitor' = [monitor EXCEPT ![t] = m]
    BY <1>1 DEF TypeOK
  <2> QED BY <1>3, <2>1, WaitersMove DEF ThreadState, AInv, AsyncInv
<1>7. EntriesKept'
  <2>1. \A u \in Thread, n \in Monitor : ~GivingUp(u, n) /\ ~GivingUp(u, n)'
    BY DEF GivingUp, Goes
  <2>2. \A u \in Thread : state'[u] \in {"MON_WAIT", "COND_WAIT"} <=>
                          state[u] \in {"MON_WAIT", "COND_WAIT"}
    BY <1>1 DEF TypeOK
  <2>3. \A u \in Thread, n \in Monitor : Entries(u, n)' = Entries(u, n)
    BY <2>1, <2>2 DEF Entries
  <2> QED BY <2>2, <2>3 DEF AInv, AsyncInv, EntriesKept
<1>8. NoLostHandoff'
  <2>1. \A n \in Monitor : n # m => owner'[n] = owner[n] /\ lockQ'[n] = lockQ[n]
    BY <1>1 DEF TypeOK
  <2> QED BY <2>1, HandoffOthers
<1>9. CallOK'
  BY <1>1 DEF AInv, AsyncInv, CallOK, Goes, TypeOK
<1>10. IdleReady'
  BY <1>1, ThreadAssumption DEF AInv, AsyncInv, IdleReady, TypeOK
<1> QED BY <1>4, <1>5, <1>6, <1>7, <1>8, <1>9, <1>10 DEF AInv, AsyncInv

(* Notifying one more waiter in _PR_CondNotify keeps the invariant.        *)
LEMMA CondNotifyLoopKeeps ==
    ASSUME AInv, CondNotifyLoop
    PROVE  AInv'
<1>1. PICK m \in Monitor : m = call.mon /\ call.ret # "condWait"
  BY DEF CondNotifyLoop, AInv, AsyncInv, CallOK
<1>2. /\ at = "condNotify" /\ call' = call /\ call \in CallRecord /\ want' = want
      /\ caller' = caller /\ held' = held /\ TypeOK
  BY DEF CondNotifyLoop, tick, AInv, TypeOK
<1>3. CASE condQ[m] # <<>>
  <2>1. PICK t : t = Head(condQ[m])
    OBVIOUS
  <2>2. /\ condQ' = [condQ EXCEPT ![m] = Without(@, t)]
        /\ lockQ' = [lockQ EXCEPT ![m] = Append(@, t)]
        /\ queue' = Relink(queue, t, MonitorQ)
        /\ state' = [state EXCEPT ![t] = "MON_WAIT"]
        /\ onSleepQ' = onSleepQ \ {t}
        /\ UNCHANGED <<priority, suspending, monitor, entryCount, readyMask>>
        /\ UNCHANGED <<owner, count, stickyCount, current, userActive>>
        /\ at' \in {"condNotify", "condNotifyEnd"}
    BY <1>1, <1>3, <2>1 DEF CondNotifyLoop, NotifyOneThread
  <2>3. t \in Thread /\ state[t] = "COND_WAIT" /\ monitor[t] = m
    <3>1. condQ[m] \in Seq(Thread)
      BY <1>2 DEF TypeOK
    <3>2. t \in Thread /\ t \in ToSet(condQ[m])
      BY <1>3, <2>1, <3>1, HeadLemma
    <3> QED BY <3>2, WaitQueues
  <2>4. Goes(call', at') /\ want' \in BOOLEAN /\ Handing(m)'
    BY <1>1, <1>2, <2>2 DEF Goes, At, TypeOK, Handing
  <2>5. \A n \in Monitor : Handing(n) => Handing(n)' \/ n = m
    BY <1>1 DEF Handing
  <2> QED BY <1>2, <2>2, <2>3, <2>4, <2>5, NotifyMove
<1>4. CASE condQ[m] = <<>>
  <2>1. /\ at' = "condNotifyEnd"
        /\ UNCHANGED <<state, priority, suspending, onSleepQ, monitor, entryCount>>
        /\ UNCHANGED <<owner, count, lockQ, condQ, queue, readyMask, current>>
        /\ UNCHANGED <<stickyCount, userActive>>
    BY <1>1, <1>4 DEF CondNotifyLoop, threadVars, monitorVars, schedVars
  <2>2. /\ Goes(call', at') /\ want' \in BOOLEAN /\ stickyCount' \in [Monitor -> Nat]
        /\ caller' \in IntsOnStep \cup {"resched"}
    BY <1>1, <1>2, <2>1 DEF Goes, At, TypeOK
  <2>3. \A n \in Monitor : Handing(n) => Handing(n)'
    BY <1>2, <2>1 DEF Handing
  <2> QED BY <1>2, <2>1, <2>2, <2>3, ControlStep DEF GoesOn
<1> QED BY <1>3, <1>4

(* A tick that times a wait out keeps the invariant.                       *)
LEMMA TickWakeWaiterKeeps ==
    ASSUME AInv, TickWakeWaiter
    PROVE  AInv'
<1>1. PICK t : t = Head(queue[SleepQ])
  OBVIOUS
<1>2. t \in Thread /\ state[t] = "COND_WAIT" /\ monitor[t] \in Monitor /\ TypeOK
  <2>1. queue[SleepQ] \in Seq(Thread) /\ queue[SleepQ] # <<>>
    BY QueueNames DEF TickWakeWaiter, TickExpired, AInv, TypeOK
  <2>2. t \in Thread /\ state[t] = "COND_WAIT"
    BY <1>1, <2>1, HeadLemma DEF TickWakeWaiter
  <2> QED BY <2>2 DEF AInv, AsyncInv, CallOK, TypeOK
<1>3. PICK m \in Monitor : m = monitor[t]
  BY <1>2
<1>4. /\ condQ' = [condQ EXCEPT ![m] = Without(@, t)]
      /\ lockQ' = [lockQ EXCEPT ![m] = Append(@, t)]
      /\ queue' = Relink(queue, t, MonitorQ)
      /\ state' = [state EXCEPT ![t] = "MON_WAIT"]
      /\ onSleepQ' = onSleepQ \ {t}
      /\ HandOverIfIdle(m, "tick")
      /\ UNCHANGED <<priority, suspending, monitor, entryCount, readyMask, held>>
      /\ UNCHANGED <<owner, count, stickyCount, current, userActive, want, caller>>
      /\ at = "tick"
  BY <1>1, <1>3 DEF TickWakeWaiter
<1>5. /\ Goes(call', at') /\ (owner[m] = None => Handing(m)')
      /\ at' = "monNotify" => owner[call'.mon] = None
  BY <1>4, HandOverGoes DEF Return, Handing
<1>6. \A n \in Monitor : ~Handing(n)
  BY <1>4 DEF Handing
<1>7. want' \in BOOLEAN
  BY <1>2, <1>4 DEF TypeOK
<1> QED BY <1>2, <1>3, <1>4, <1>5, <1>6, <1>7, NotifyMove

(* An idle monitor is granted to its best waiter, with the entry count the *)
(* waiter had.                                                             *)
LEMMA GrantKeeps ==
    ASSUME AInv, NEW m \in Monitor, at = "monNotify", call.mon = m, at' = call.ret,
           NEW i \in Eligible(m), GrantMonitor(m, lockQ[m][i]), want' \in BOOLEAN,
           UNCHANGED <<priority, suspending, stickyCount, condQ, held>>,
           UNCHANGED <<current, userActive, call, caller>>
    PROVE  AInv'
<1>1. PICK t : t = lockQ[m][i]
  OBVIOUS
<1>2. t \in ToSet(lockQ[m])
  BY <1>1 DEF Eligible, ToSet
<1>3. /\ t \in Thread /\ state[t] = "MON_WAIT" /\ monitor[t] = m
      /\ Family(lockQ, Monitor, Thread) /\ Family(condQ, Monitor, Thread)
      /\ \A n \in Monitor : t \in ToSet(lockQ[n]) => n = m
      /\ \A n \in Monitor : t \notin ToSet(condQ[n])
  BY <1>2, WaitQueues
<1>4. /\ TypeOK /\ Linked /\ readyMask = Mask /\ current \in Thread
      /\ \A u \in Thread : state[u] = "RUNNING" <=> u = current
      /\ t # current
  BY <1>3, Facts
<1>5. /\ state' = [state EXCEPT ![t] = "RUNNABLE"]
      /\ queue' = Relink(queue, t, priority[t])
      /\ readyMask' = readyMask \cup {priority[t]}
      /\ onSleepQ' = onSleepQ \ {t}
      /\ owner' = [owner EXCEPT ![m] = t]
      /\ count' = [count EXCEPT ![m] = entryCount[t]]
      /\ entryCount' = [entryCount EXCEPT ![t] = 0]
      /\ monitor' = [monitor EXCEPT ![t] = None]
      /\ lockQ' = UnlinkFrom(lockQ, t, m)
  BY <1>1 DEF GrantMonitor, MakeRunnable, UnlinkFrom
<1>6. /\ owner[m] = None /\ entryCount[t] > 0 /\ call \in CallRecord /\ call.ret \in Return
      /\ call.ret = "condWait" => current # Idle /\ call.entries > 0
      /\ entryCount[t] \in Nat /\ owner \in [Monitor -> Thread \cup {None}]
      /\ count \in [Monitor -> Nat] /\ None \notin Monitor /\ None \notin Thread
  BY <1>3, <1>4, MonitorAssumption, ThreadAssumption
  DEF AInv, AsyncInv, CallOK, EntriesKept, TypeOK, CallRecord
<1>7. priority[t] \in Priority /\ priority[t] \in QueueName /\ priority[t] # SleepQ
  BY <1>3, <1>4, QueueNames DEF TypeOK
<1>8. MovedTo(t, priority[t])
  BY <1>3, <1>4, <1>5, <1>7, RelinkMoves
<1>9. /\ Family(lockQ', Monitor, Thread) /\ Moved(lockQ, lockQ', Monitor, t, None)
      /\ Family(condQ', Monitor, Thread) /\ Moved(condQ, condQ', Monitor, t, None)
  <2>1. /\ Family(UnlinkFrom(lockQ, t, m), Monitor, Thread)
        /\ Moved(lockQ, UnlinkFrom(lockQ, t, m), Monitor, t, None)
    BY <1>3, <1>6, UnlinkFromLemma
  <2>2. Moved(condQ, condQ, Monitor, t, None)
    BY <1>3, <1>6 DEF Moved
  <2> QED BY <1>3, <1>5, <2>1, <2>2
<1>10. TypeOK'
  <2>1. at' \in At /\ owner' \in [Monitor -> Thread \cup {None}] /\ count' \in [Monitor -> Nat]
    BY <1>3, <1>5, <1>6 DEF At
  <2>2. /\ state' \in [Thread -> ThreadState] /\ onSleepQ' \subseteq Thread
        /\ monitor' \in [Thread -> Monitor \cup {None}]
        /\ entryCount' \in [Thread -> Nat] /\ readyMask' \subseteq Priority
    BY <1>3, <1>4, <1>5, <1>7 DEF TypeOK, ThreadState
  <2> QED BY <1>4, <1>8, <1>9, <2>1, <2>2 DEF TypeOK, MovedTo, Family
<1>11. AsyncKeepsQueues'
  <2>1. "RUNNABLE" \in ThreadState /\ Home(t)' = priority[t]
    BY <1>3, <1>4, <1>5 DEF Home, TypeOK, ThreadState
  <2>2. readyMask' = Mask'
    BY <1>3, <1>4, <1>5, <1>7, <1>8, MaskAdded
  <2>3. Flagged(t, priority[t])
    BY <1>4, <1>5, <1>7 DEF Flagged, TypeOK
  <2>4. \A u \in Thread : state'[u] = "RUNNING" <=> u = current' /\ at' # "schedule"
    BY <1>3, <1>4, <1>5, <1>6 DEF TypeOK, Return
  <2> QED BY <1>3, <1>5, <1>8, <2>1, <2>2, <2>3, <2>4, QueuesMove
<1>12. WaitersMatchState'
  BY <1>3, <1>5, <1>9, WaitersMove DEF ThreadState, AInv, AsyncInv
<1>13. \A u \in Thread : u # t =>
         /\ state'[u] = state[u] /\ monitor'[u] = monitor[u] /\ entryCount'[u] = entryCount[u]
  BY <1>3, <1>4, <1>5 DEF TypeOK
<1>14. /\ \A n \in Monitor : n # m => owner'[n] = owner[n] /\ count'[n] = count[n]
                                      /\ lockQ'[n] = lockQ[n]
       /\ owner'[m] = t /\ count'[m] = entryCount[t]
       /\ state'[t] = "RUNNABLE"
  BY <1>3, <1>4, <1>5, <1>6 DEF TypeOK, UnlinkFrom
<1>15. EntriesKept'
  <2>1. \A u \in Thread, n \in Monitor : GivingUp(u, n)' <=> GivingUp(u, n)
    BY DEF GivingUp
  <2>2. \A n \in Monitor : ~GivingUp(t, n)
    BY <1>4 DEF GivingUp
  <2>3. ASSUME NEW u \in Thread, NEW n \in Monitor
        PROVE  Entries(u, n)' = Entries(u, n)
    <3>1. CASE u = t /\ n = m
      <4>1. owner[n] # u /\ state[u] = "MON_WAIT" /\ monitor[u] = n
        BY <1>3, <1>6, <3>1
      <4>2. owner'[n] = u /\ count'[n] = entryCount[u] /\ ~GivingUp(u, n)
        BY <1>14, <2>2, <3>1
      <4>3. Entries(u, n) = entryCount[u]
        BY <4>1, <4>2 DEF Entries
      <4>4. Entries(u, n)' = count'[n]
        BY <4>2 DEF Entries
      <4> QED BY <4>2, <4>3, <4>4
    <3>2. CASE u = t /\ n # m
      <4>1. /\ owner'[n] = owner[n] /\ count'[n] = count[n]
            /\ ~GivingUp(u, n) /\ ~GivingUp(u, n)'
        BY <1>14, <2>1, <2>2, <3>2
      <4>2. state'[u] = "RUNNABLE" /\ monitor[u] # n
        BY <1>3, <1>14, <3>2
      <4> QED BY <4>1, <4>2 DEF Entries
    <3>3. CASE u # t /\ n # m
      BY <1>13, <1>14, <2>1, <3>3 DEF Entries
    <3>4. CASE u # t /\ n = m
      <4>1. owner[m] # u /\ owner'[m] # u
        BY <1>6, <1>14, <3>4
      <4> QED BY <1>13, <2>1, <3>4, <4>1 DEF Entries
    <3> QED BY <3>1, <3>2, <3>3, <3>4
  <2>4. \A u \in Thread, n \in Monitor : held'[u][n] = Entries(u, n)'
    BY <2>3 DEF AInv, AsyncInv, EntriesKept
  <2>5. \A n \in Monitor : owner'[n] = None <=> count'[n] = 0
    BY <1>3, <1>6, <1>14 DEF AInv, AsyncInv, EntriesKept
  <2>6. ASSUME NEW u \in Thread, state'[u] \in {"MON_WAIT", "COND_WAIT"}
        PROVE  owner'[monitor'[u]] # u /\ entryCount'[u] > 0
    <3>1. u # t
      BY <1>14, <2>6
    <3>2. state[u] \in {"MON_WAIT", "COND_WAIT"} /\ monitor[u] \in Monitor
      BY <1>4, <1>13, <2>6, <3>1 DEF AInv, AsyncInv, CallOK, TypeOK
    <3>3. owner[monitor[u]] # u /\ entryCount[u] > 0
      BY <3>2 DEF AInv, AsyncInv, EntriesKept
    <3> QED BY <1>13, <1>14, <3>1, <3>2, <3>3
  <2> QED BY <2>4, <2>5, <2>6 DEF EntriesKept
<1>16. NoLostHandoff'
  <2>1. \A n \in Monitor : n # m => ~Handing(n)
    BY DEF Handing
  <2>2. owner'[m] # None
    BY <1>3, <1>6, <1>14
  <2> QED BY <1>14, <2>1, <2>2, HandoffOthers
<1>17. CallOK'
  <2>1. \A u \in Thread : state'[u] \in {"MON_WAIT", "COND_WAIT"} => monitor'[u] # None
    <3> SUFFICES ASSUME NEW u \in Thread, state'[u] \in {"MON_WAIT", "COND_WAIT"}
                 PROVE  monitor'[u] # None
      OBVIOUS
    <3>1. u # t
      BY <1>14
    <3> QED BY <1>13, <3>1 DEF AInv, AsyncInv, CallOK
  <2>2. at' = "condWait" => owner'[m] # current
    BY <1>4, <1>14
  <2>3. at' \notin {"monNotify", "condNotify", "condNotifyEnd"}
    BY <1>6 DEF Return
  <2> QED BY <1>6, <2>1, <2>2, <2>3 DEF CallOK
<1>18. IdleReady'
  BY <1>3, <1>13, <1>14, ThreadAssumption DEF AInv, AsyncInv, IdleReady
<1> QED BY <1>10, <1>11, <1>12, <1>15, <1>16, <1>17, <1>18 DEF AInv, AsyncInv

(* _PR_MonNotify preserves the invariant.                                  *)
LEMMA MonNotifyKeeps ==
    ASSUME AInv, MonNotify
    PROVE  AInv'
<1>1. PICK m \in Monitor : m = call.mon
  BY DEF MonNotify, AInv, AsyncInv, CallOK
<1>2. /\ at = "monNotify" /\ at' = call.ret /\ owner[m] = None /\ m # None
      /\ call \in CallRecord /\ call.ret \in Return /\ TypeOK
      /\ call.ret = "condWait" => current # Idle /\ call.entries > 0
  BY <1>1, MonitorAssumption DEF MonNotify, AInv, AsyncInv, CallOK, TypeOK, CallRecord
<1>3. CASE Eligible(m) = {} /\ UNCHANGED <<threadVars, monitorVars, schedVars, want, call,
                                          tick, history>>
  <2> USE <1>3 DEF threadVars, monitorVars, schedVars, tick, history
  <2>1. TypeOK'
    BY <1>2 DEF TypeOK, At
  <2>2. current # None /\ current \in Thread
    BY <1>2, ThreadAssumption DEF TypeOK
  <2>3. CallOK'
    BY <1>1, <1>2, <2>2 DEF AInv, AsyncInv, CallOK, Return
  <2>4. \A t \in Thread, n \in Monitor :
          /\ GivingUp(t, n)' <=> GivingUp(t, n)
          /\ GivingUp(t, n) => call'.entries = call.entries
    BY <1>2 DEF GivingUp
  <2>5. \A n \in Monitor : Handing(n) /\ owner[n] = None /\ Eligible(n) # {} => Handing(n)'
    BY <1>1, <1>2 DEF Handing
  <2>6. at' = "schedule" <=> at = "schedule"
    BY <1>2 DEF Return
  <2> QED BY <2>1, <2>3, <2>4, <2>5, <2>6, ControlFrame
<1>4. ASSUME NEW i \in DOMAIN lockQ[m], IsBest(m, i), GrantMonitor(m, lockQ[m][i]),
             want' = IF call.ret = "condWait" THEN want
                     ELSE want \/ priority[lockQ[m][i]] >= priority[current],
             UNCHANGED <<priority, suspending, stickyCount, condQ>>,
             UNCHANGED <<current, userActive, call, tick, history>>
      PROVE  AInv'
  <2>1. i \in Eligible(m)
    BY <1>4 DEF IsBest
  <2>2. want' \in BOOLEAN
    BY <1>2, <1>4 DEF TypeOK
  <2>3. held' = held /\ caller' = caller
    BY <1>4 DEF history, tick
  <2> QED BY <1>1, <1>2, <1>4, <2>1, <2>2, <2>3, GrantKeeps
<1> QED BY <1>1, <1>3, <1>4 DEF MonNotify
-----------------------------------------------------------------------------
(* PR_Init establishes the invariant.                                      *)
LEMMA InitKeeps ==
    ASSUME Init
    PROVE  AInv
<1> USE ThreadAssumption, MonitorAssumption, NumberAssumption
<1>1. 0 \in Priority /\ 0 \in QueueName
  BY QueueNames DEF Priority
<1>2. /\ \A q \in QueueName : queue[q] = IF q = 0 THEN <<Idle>> ELSE <<>>
      /\ \A t \in Thread : state[t] = CASE t = Main -> "RUNNING"
                                        [] t = Idle -> "RUNNABLE"
                                        [] OTHER    -> "UNBORN"
      /\ priority[Idle] = 0
  BY DEF Init
<1>3. /\ state[Main] = "RUNNING" /\ state[Idle] = "RUNNABLE"
      /\ \A t \in Thread : t # Main /\ t # Idle => state[t] = "UNBORN"
  BY <1>2
<1>4. /\ <<Idle>> \in Seq(Thread) /\ IsTidy(<<Idle>>) /\ ToSet(<<Idle>>) = {Idle}
      /\ <<>> \in Seq(Thread) /\ IsTidy(<<>>) /\ ToSet(<<>>) = {}
  BY ShortLists
<1>5. TypeOK
  <2>1. state \in [Thread -> ThreadState]
    <3>1. \A t \in Thread : state[t] \in ThreadState
      BY <1>3 DEF ThreadState
    <3> QED BY <3>1 DEF Init
  <2>2. priority \in [Thread -> Priority]
    BY DEF Init
  <2>3. /\ queue \in [QueueName -> Seq(Thread)]
        /\ lockQ \in [Monitor -> Seq(Thread)] /\ condQ \in [Monitor -> Seq(Thread)]
    BY <1>4 DEF Init
  <2>4. call \in CallRecord
    BY NoCallRecord DEF Init
  <2>5. /\ owner \in [Monitor -> Thread \cup {None}]
        /\ monitor \in [Thread -> Monitor \cup {None}]
        /\ entryCount \in [Thread -> Nat] /\ held \in [Thread -> [Monitor -> Int]]
        /\ count \in [Monitor -> Nat] /\ stickyCount \in [Monitor -> Nat]
    BY DEF Init
  <2>6. /\ suspending \subseteq Thread /\ onSleepQ \subseteq Thread
        /\ readyMask \subseteq Priority /\ current \in Thread /\ userActive \in Nat
        /\ at \in At /\ want \in BOOLEAN /\ caller \in IntsOnStep \cup {"resched"}
    BY <1>1 DEF Init, At, IntsOnStep
  <2> QED BY <2>1, <2>2, <2>3, <2>4, <2>5, <2>6 DEF TypeOK
<1>6. AsyncKeepsQueues
  <2>1. /\ Home(Main) = NoQueue /\ Home(Idle) = 0
        /\ \A t \in Thread : t # Main /\ t # Idle => Home(t) = NoQueue
    BY <1>2, <1>3, <1>5, Homes
  <2>2. ASSUME NEW q \in QueueName
        PROVE  IsTidy(queue[q]) /\ ToSet(queue[q]) = {t \in Thread : Home(t) = q}
    <3>1. CASE q = 0
      BY <1>1, <1>2, <1>4, <2>1, <3>1, QueueNames
    <3>2. CASE q # 0
      BY <1>2, <1>4, <2>1, <3>2, QueueNames
    <3> QED BY <3>1, <3>2
  <2>3. readyMask = {p \in Priority : queue[p] # <<>>}
    <3>1. \A p \in Priority : queue[p] # <<>> <=> p = 0
      BY <1>2, QueueNames
    <3> QED BY <1>1, <3>1 DEF Init
  <2>4. ToSet(queue[SleepQ]) \subseteq onSleepQ
    BY <1>1, <1>2, <1>4, QueueNames DEF Init
  <2>5. \A t \in Thread : state[t] = "RUNNING" <=> t = current /\ at # "schedule"
    BY <1>3 DEF Init
  <2> QED BY <2>2, <2>3, <2>4, <2>5 DEF AsyncKeepsQueues
<1>7. \A t \in Thread : state[t] \notin {"MON_WAIT", "COND_WAIT"}
  BY <1>3
<1>8. WaitersMatchState
  <2>1. \A m \in Monitor : lockQ[m] = <<>> /\ condQ[m] = <<>>
    BY DEF Init
  <2>2. \A m \in Monitor : Waiters("MON_WAIT", m) = {} /\ Waiters("COND_WAIT", m) = {}
    BY <1>7 DEF Waiters
  <2> QED BY <1>4, <2>1, <2>2 DEF WaitersMatchState
<1>9. EntriesKept
  <2>1. /\ \A m \in Monitor : owner[m] = None /\ count[m] = 0
        /\ \A t \in Thread, m \in Monitor : held[t][m] = 0 /\ ~GivingUp(t, m)
    BY DEF Init, GivingUp
  <2>2. \A t \in Thread, m \in Monitor : Entries(t, m) = 0
    BY <1>7, <2>1 DEF Entries
  <2> QED BY <1>7, <2>1, <2>2 DEF EntriesKept
<1>10. NoLostHandoff
  <2>1. \A m \in Monitor : Eligible(m) = {}
    BY DEF Init, Eligible
  <2> QED BY <2>1 DEF NoLostHandoff
<1>11. CallOK /\ IdleReady
  BY <1>3, <1>7 DEF Init, CallOK, IdleReady
<1> QED BY <1>5, <1>6, <1>8, <1>9, <1>10, <1>11 DEF AInv, AsyncInv

(* Every call of a client preserves the invariant...                       *)
LEMMA ClientCallKeeps ==
    ASSUME AInv, ClientCall
    PROVE  AInv'
<1>1. ASSUME NEW m \in ClientMonitor,
             \/ EnterMonitor(m)
             \/ ExitMonitor(m)
             \/ \E nap \in SleepTime \cup {Forever} : Wait(m, nap)
             \/ \E how \in {"ONE", "ALL"} : Notify(m, how)
      PROVE  AInv'
  BY <1>1, EnterMonitorKeeps, ExitMonitorKeeps, WaitKeeps, NotifyGoesOn, ControlStep
     DEF AInv
<1>2. ASSUME \E nap \in SleepTime : Sleep(nap)
      PROVE  AInv'
  BY <1>2, SleepKeeps
<1>3. CASE Exit
  BY <1>3, ExitKeeps
<1>4. ASSUME NEW t \in Thread, Start(t) \/ Suspend(t) \/ Resume(t)
      PROVE  AInv'
  BY <1>4, StartKeeps, SuspendKeeps, ResumeKeeps
<1>5. ASSUME NEW t \in Thread, NEW n \in -1 .. MaxPriority + 1, SetThreadPriority(t, Clamp(n))
      PROVE  AInv'
  BY <1>5, NumberAssumption, Clamps, SetThreadPriorityKeeps
<1> QED BY <1>1, <1>2, <1>3, <1>4, <1>5 DEF ClientCall

(* ... and so does every step of the kernel.                               *)
LEMMA KernelKeeps ==
    ASSUME AInv, Kernel
    PROVE  AInv'
<1>1. TypeOK /\ CallOK
  BY DEF AInv, AsyncInv
<1>2. ASSUME \/ CondNotifyEnd \/ TickDone \/ PollDone \/ IntsOn
             \/ \E m \in IoMonitor : PollReady(m)
      PROVE  AInv'
  BY <1>1, <1>2, KernelGoesOn, ControlStep
<1>3. ASSUME MissedClock \/ MissedChildDeath
      PROVE  AInv'
  BY <1>1, <1>3, SignalGoesOn, ControlStep
<1>4. ASSUME MonNotify \/ CondNotifyLoop \/ CondWait
      PROVE  AInv'
  BY <1>4, MonNotifyKeeps, CondNotifyLoopKeeps, CondWaitKeeps
<1>5. ASSUME TickWakeSleeper \/ TickWakeWaiter \/ Resched \/ Schedule
      PROVE  AInv'
  BY <1>5, TickWakeSleeperKeeps, TickWakeWaiterKeeps, ReschedKeeps, ScheduleKeeps
<1> QED BY <1>2, <1>3, <1>4, <1>5 DEF Kernel

(* A stuttering step preserves the invariant.                              *)
LEMMA StutterKeeps ==
    ASSUME AInv, UNCHANGED vars
    PROVE  AInv'
<1> USE DEF vars, threadVars, monitorVars, schedVars, tick, kernVars, history
<1>1. TypeOK' /\ CallOK'
  BY DEF AInv, AsyncInv, TypeOK, CallOK
<1>2. \A t \in Thread, m \in Monitor : GivingUp(t, m)' <=> GivingUp(t, m)
  BY DEF GivingUp
<1>3. \A m \in Monitor : Handing(m)' <=> Handing(m)
  BY DEF Handing
<1> QED BY <1>1, <1>2, <1>3, ControlFrame

-----------------------------------------------------------------------------
(* With the flags exact, the invariant is that of the kernel.              *)
LEMMA ExactInv == IInv <=> AInv /\ ExactFlags
<1>1. ASSUME IInv PROVE AInv /\ ExactFlags
  <2>1. TypeOK /\ Linked /\ onSleepQ = ToSet(queue[SleepQ])
    BY <1>1 DEF IInv, KernelInv, QueuesMatchState, Linked
  <2>2. AInv
    BY <1>1, <2>1 DEF IInv, KernelInv, AInv, AsyncInv, QueuesMatchState, AsyncKeepsQueues
  <2>3. ToSet(queue[SleepQ]) = {u \in Thread : Home(u) = SleepQ}
    BY <2>1, QueueNames DEF Linked
  <2>4. ExactFlags
    BY <2>1, <2>3, Homes DEF ExactFlags
  <2> QED BY <2>2, <2>4
<1>2. ASSUME AInv, ExactFlags PROVE IInv
  <2>1. TypeOK /\ Linked /\ ToSet(queue[SleepQ]) \subseteq onSleepQ
    BY <1>2, Facts
  <2>2. ToSet(queue[SleepQ]) = {u \in Thread : Home(u) = SleepQ}
    BY <2>1, QueueNames DEF Linked
  <2>3. ASSUME NEW t \in onSleepQ PROVE t \in ToSet(queue[SleepQ])
    <3>1. t \in Thread /\ state[t] \in {"SLEEPING", "COND_WAIT"}
      BY <1>2, <2>1 DEF TypeOK, ExactFlags
    <3> QED BY <2>1, <2>2, <3>1, Homes
  <2>4. onSleepQ = ToSet(queue[SleepQ])
    BY <2>1, <2>3
  <2> QED BY <1>2, <2>4 DEF IInv, KernelInv, AInv, AsyncInv, QueuesMatchState, AsyncKeepsQueues
<1> QED BY <1>1, <1>2

(* What the kernel's invariant says of the threads a step may move.        *)
LEMMA ExactFacts ==
    ASSUME IInv
    PROVE  /\ TypeOK /\ Linked /\ readyMask = Mask /\ onSleepQ = ToSet(queue[SleepQ])
           /\ current \in Thread
           /\ \A t \in Thread : state[t] = "RUNNING" <=> t = current /\ at # "schedule"
           /\ \A t \in Thread : t \in onSleepQ <=> state[t] \in {"SLEEPING", "COND_WAIT"}
<1>1. AInv /\ ExactFlags /\ onSleepQ = ToSet(queue[SleepQ])
  BY ExactInv DEF IInv, KernelInv, QueuesMatchState
<1> QED BY <1>1, Facts DEF ExactFlags

(* No thread has the flag at first.                                        *)
LEMMA InitExact == Init => ExactFlags
BY DEF Init, ExactFlags

(* A thread whose state changes is one that has no flag, or loses it, or   *)
(* goes to sleep and gets it.                                              *)
LEMMA FlagsMove ==
    ASSUME TypeOK, ExactFlags, NEW t \in Thread, NEW st, state' = [state EXCEPT ![t] = st],
           \/ onSleepQ' = onSleepQ \ {t}
           \/ onSleepQ' = onSleepQ /\ state[t] \notin {"SLEEPING", "COND_WAIT"}
           \/ onSleepQ' = onSleepQ \cup {t} /\ st \in {"SLEEPING", "COND_WAIT"}
    PROVE  ExactFlags'
<1> SUFFICES ASSUME NEW u \in onSleepQ' PROVE state'[u] \in {"SLEEPING", "COND_WAIT"}
  BY DEF ExactFlags
<1>1. CASE u # t
  <2>1. u \in onSleepQ /\ state'[u] = state[u]
    BY <1>1 DEF TypeOK
  <2> QED BY <2>1 DEF ExactFlags
<1>2. CASE u = t
  <2>1. t \in onSleepQ => state[t] \in {"SLEEPING", "COND_WAIT"}
    BY DEF ExactFlags
  <2> QED BY <1>2, <2>1 DEF TypeOK
<1> QED BY <1>1, <1>2

(* The calls of clients keep the flags exact, ...                          *)
LEMMA CallsExact ==
    ASSUME AInv, ExactFlags, ClientCall \/ Yield
    PROVE  ExactFlags'
<1>1. TypeOK /\ current \in Thread /\ (at # "schedule" => state[current] = "RUNNING")
  BY Facts
<1>2. ASSUME UNCHANGED <<state, onSleepQ>> PROVE ExactFlags'
  BY <1>2 DEF ExactFlags
<1>3. ASSUME NEW t \in Thread, NEW st, state' = [state EXCEPT ![t] = st],
             state[t] \notin {"SLEEPING", "COND_WAIT"}, onSleepQ' = onSleepQ
      PROVE  ExactFlags'
  BY <1>1, <1>3, FlagsMove
<1>4. ASSUME NEW st \in {"SLEEPING", "COND_WAIT"}, NEW nap, PutOnSleepQ(nap, st)
      PROVE  ExactFlags'
  BY <1>1, <1>4, FlagsMove DEF PutOnSleepQ
<1>5. ASSUME NEW m \in ClientMonitor, EnterMonitor(m) PROVE ExactFlags'
  <2>1. /\ at = "user" /\ onSleepQ' = onSleepQ
        /\ state' = state \/ state' = [state EXCEPT ![current] = "MON_WAIT"]
    BY <1>5 DEF EnterMonitor, Client, Deschedule, threadVars
  <2> QED BY <1>1, <1>2, <1>3, <2>1
<1>6. ASSUME NEW m \in ClientMonitor,
             \/ ExitMonitor(m)
             \/ \E nap \in SleepTime \cup {Forever} : Wait(m, nap)
             \/ \E how \in {"ONE", "ALL"} : Notify(m, how)
      PROVE  ExactFlags'
  BY <1>2, <1>6 DEF ExitMonitor, Wait, Notify, threadVars
<1>7. ASSUME NEW nap \in SleepTime, Sleep(nap) PROVE ExactFlags'
  BY <1>4, <1>7 DEF Sleep
<1>8. CASE Exit \/ Yield
  <2>1. /\ at \in {"user", "yield"} /\ onSleepQ' = onSleepQ
        /\ state' = state \/ \E st : state' = [state EXCEPT ![current] = st]
    BY <1>8 DEF Exit, Yield, Client, Deschedule
  <2> QED BY <1>1, <1>2, <1>3, <2>1
<1>9. ASSUME NEW t \in Thread, Start(t) \/ Suspend(t) \/ Resume(t) PROVE ExactFlags'
  <2>1. CASE Start(t)
    BY <1>1, <1>3, <2>1 DEF Start, MakeRunnable
  <2>2. CASE Suspend(t)
    <3>1. onSleepQ' = onSleepQ /\ at = "user"
      BY <2>2 DEF Suspend, Client
    <3>2. CASE state[t] = "RUNNING" /\ state' = [state EXCEPT ![current] = "SUSPENDED"]
      BY <1>1, <1>3, <3>1, <3>2
    <3>3. CASE state[t] = "RUNNABLE" /\ state' = [state EXCEPT ![t] = "SUSPENDED"]
      BY <1>3, <3>1, <3>3
    <3>4. CASE state' = state
      BY <1>2, <3>1, <3>4
    <3> QED BY <2>2, <3>2, <3>3, <3>4 DEF Suspend, Deschedule
  <2>3. CASE Resume(t)
    <3>1. onSleepQ' = onSleepQ
      BY <2>3 DEF Resume
    <3>2. CASE state[t] = "SUSPENDED" /\ state' = [state EXCEPT ![t] = "RUNNABLE"]
      BY <1>3, <3>1, <3>2
    <3>3. CASE state' = state
      BY <1>2, <3>1, <3>3
    <3> QED BY <2>3, <3>2, <3>3 DEF Resume, MakeRunnable
  <2> QED BY <1>9, <2>1, <2>2, <2>3
<1>10. ASSUME NEW t \in Thread, NEW n, SetThreadPriority(t, n) PROVE ExactFlags'
  BY <1>2, <1>10 DEF SetThreadPriority
<1> QED BY <1>5, <1>6, <1>7, <1>8, <1>9, <1>10 DEF ClientCall

(* ... and so do the kernel's steps.                                       *)
LEMMA KernelExact ==
    ASSUME AInv, ExactFlags, Kernel
    PROVE  ExactFlags'
<1>1. TypeOK /\ CallOK /\ current \in Thread /\ (at # "schedule" => state[current] = "RUNNING")
  BY Facts DEF AInv, AsyncInv
<1>2. ASSUME UNCHANGED <<state, onSleepQ>> PROVE ExactFlags'
  BY <1>2 DEF ExactFlags
<1>3. ASSUME NEW t \in Thread, NEW st, state' = [state EXCEPT ![t] = st], onSleepQ' = onSleepQ \ {t}
      PROVE  ExactFlags'
  BY <1>1, <1>3, FlagsMove
<1>4. CASE \/ CondNotifyEnd \/ TickDone \/ PollDone \/ IntsOn \/ MissedClock \/ MissedChildDeath
           \/ \E m \in IoMonitor : PollReady(m)
  <2>1. GoesOn
    BY <1>1, <1>4, KernelGoesOn, SignalGoesOn
  <2> QED BY <1>2, <2>1 DEF GoesOn
<1>5. CASE MonNotify
  <2>1. CASE UNCHANGED threadVars
    BY <1>2, <2>1 DEF threadVars
  <2>2. ASSUME NEW i \in DOMAIN lockQ[call.mon], GrantMonitor(call.mon, lockQ[call.mon][i])
        PROVE  ExactFlags'
    <3>1. call.mon \in Monitor
      BY <1>1, <1>5 DEF MonNotify, CallOK
    <3>2. PICK t \in Thread : t = lockQ[call.mon][i]
      BY <1>1, <2>2, <3>1 DEF TypeOK
    <3> QED BY <1>3, <2>2, <3>2 DEF GrantMonitor, MakeRunnable
  <2> QED BY <1>5, <2>1, <2>2 DEF MonNotify
<1>6. CASE CondNotifyLoop
  <2>1. call.mon \in Monitor
    BY <1>1, <1>6 DEF CondNotifyLoop, CallOK
  <2>2. CASE condQ[call.mon] = <<>>
    BY <1>2, <1>6, <2>2 DEF CondNotifyLoop, threadVars
  <2>3. CASE condQ[call.mon] # <<>>
    <3>1. condQ[call.mon] \in Seq(Thread)
      BY <1>1, <2>1 DEF TypeOK
    <3>2. PICK t \in Thread : t = Head(condQ[call.mon])
      BY <2>3, <3>1, HeadLemma
    <3> QED BY <1>3, <1>6, <2>3, <3>2 DEF CondNotifyLoop, NotifyOneThread
  <2> QED BY <2>2, <2>3
<1>7. CASE CondWait
  <2>1. /\ state' = [state EXCEPT ![current] = "COND_WAIT"]
        /\ onSleepQ' = onSleepQ \cup {current}
    BY <1>7 DEF CondWait, PutOnSleepQ
  <2> QED BY <1>1, <2>1, FlagsMove
<1>8. CASE TickWakeSleeper \/ TickWakeWaiter
  <2>1. queue[SleepQ] \in Seq(Thread) /\ queue[SleepQ] # <<>>
    BY <1>1, <1>8, QueueNames DEF TickWakeSleeper, TickWakeWaiter, TickExpired, TypeOK
  <2>2. PICK t \in Thread : t = Head(queue[SleepQ])
    BY <2>1, HeadLemma
  <2>3. onSleepQ' = onSleepQ \ {t} /\ \E st : state' = [state EXCEPT ![t] = st]
    BY <1>8, <2>2 DEF TickWakeSleeper, TickWakeWaiter, MakeRunnable
  <2> QED BY <1>3, <2>3
<1>9. CASE Resched
  <2>1. /\ at = "resched" /\ onSleepQ' = onSleepQ
        /\ state' = state \/ state' = [state EXCEPT ![current] = "RUNNABLE"]
    BY <1>9 DEF Resched, Deschedule
  <2> QED BY <1>1, <1>2, <2>1, FlagsMove
<1>10. CASE Schedule
  <2>1. PICK p \in readyMask : state' = [state EXCEPT ![Head(queue[p])] = "RUNNING"]
    BY <1>10 DEF Schedule
  <2>2. /\ p \in Priority /\ p \in QueueName /\ queue[p] \in Seq(Thread) /\ queue[p] # <<>>
        /\ ToSet(queue[p]) = {u \in Thread : Home(u) = p}
    BY <2>1, Facts, QueueNames DEF Mask, TypeOK, Linked
  <2>3. PICK t \in Thread : t = Head(queue[p]) /\ t \in ToSet(queue[p])
    BY <2>2, HeadLemma
  <2>4. state[t] = "RUNNABLE" /\ onSleepQ' = onSleepQ
    BY <1>1, <1>10, <2>2, <2>3, Homes DEF Schedule
  <2> QED BY <1>1, <2>1, <2>3, <2>4, FlagsMove
<1> QED BY <1>4, <1>5, <1>6, <1>7, <1>8, <1>9, <1>10, Zenon DEF Kernel

(* Every step of the kernel without exceptions keeps all of the invariant. *)
LEMMA IInvKept ==
    ASSUME IInv, [Next]_vars
    PROVE  IInv'
<1>1. AInv /\ ExactFlags /\ TypeOK
  BY ExactInv DEF AInv
<1>2. AInv'
  BY <1>1, ClientCallKeeps, YieldKeeps, SignalGoesOn, ControlStep, KernelKeeps, StutterKeeps
  DEF Next
<1>3. ExactFlags'
  <2>1. CASE UNCHANGED vars
    BY <1>1, <2>1 DEF vars, threadVars, ExactFlags
  <2>2. CASE IdleLoop \/ Signal
    BY <1>1, <2>2, SignalGoesOn DEF GoesOn, ExactFlags
  <2> QED BY <1>1, <2>1, <2>2, CallsExact, KernelExact DEF Next
<1>4. (AInv /\ ExactFlags)'
  BY <1>2, <1>3
<1>5. (AInv /\ ExactFlags => IInv)'
  BY ExactInv, PTL
<1> QED BY <1>4, <1>5

(* The inductive invariant holds in every state of every behaviour.        *)
THEOREM Inductive == Spec => []IInv
<1>1. Init => IInv
  BY InitKeeps, InitExact, ExactInv
<1>2. IInv /\ [Next]_vars => IInv'
  BY IInvKept
<1> QED BY <1>1, <1>2, PTL DEF Spec

(* The variables of the kernel keep their types (the thread structure, the *)
(* monitors, the queues and the locals of the kernel functions).           *)
THEOREM TypeCorrect == Spec => []TypeOK
<1>1. IInv => TypeOK
  BY DEF IInv
<1> QED BY <1>1, Inductive, PTL

(* Whenever a call of the kernel starts, and at every step of it, the      *)
(* queues, the wait lists, the entry counts and the hand-offs are right,   *)
(* and the assertions of _PR_MonNotify and _PR_CondWait hold.              *)
THEOREM KernelInvariant == Spec => []KernelSound
<1>1. IInv => KernelSound
  BY DEF IInv, KernelSound
<1> QED BY <1>1, Inductive, PTL

(* Every thread is linked exactly once, on the queue its state tells of,   *)
(* and _pr_runq_ready_mask tells which run queues are in use.              *)
THEOREM QueuesCorrect == Spec => []QueuesMatchState
<1>1. IInv => QueuesMatchState
  BY DEF IInv, KernelInv
<1> QED BY <1>1, Inductive, PTL

(* No entry of a monitor is lost or invented by PR_Wait, by the hand-over  *)
(* of _PR_MonNotify or by a timeout.                                       *)
THEOREM EntriesCorrect == Spec => []EntriesKept
<1>1. IInv => EntriesKept
  BY DEF IInv, KernelInv
<1> QED BY <1>1, Inductive, PTL

(* A monitor that is wanted by a thread it can be given to is given.       *)
THEOREM HandoffCorrect == Spec => []NoLostHandoff
<1>1. IInv => NoLostHandoff
  BY DEF IInv, KernelInv
<1> QED BY <1>1, Inductive, PTL

(* Two threads are never inside one monitor together.                      *)
THEOREM Exclusive == Spec => []MutualExclusion
<1>1. IInv => MutualExclusion
  <2> SUFFICES ASSUME IInv, at = "user",
                      NEW m \in Monitor, NEW t \in Thread, NEW u \in Thread,
                      held[t][m] > 0, state[t] \notin {"MON_WAIT", "COND_WAIT"},
                      held[u][m] > 0, state[u] \notin {"MON_WAIT", "COND_WAIT"}
               PROVE  t = u
    BY DEF MutualExclusion
  <2>1. held[t][m] = Entries(t, m) /\ held[u][m] = Entries(u, m)
    BY DEF IInv, KernelInv, EntriesKept
  <2>2. ~GivingUp(t, m) /\ ~GivingUp(u, m)
    BY DEF GivingUp
  <2>3. owner[m] # t => Entries(t, m) = 0
    BY <2>2 DEF Entries
  <2>4. owner[m] # u => Entries(u, m) = 0
    BY <2>2 DEF Entries
  <2> QED BY <2>1, <2>3, <2>4
<1> QED BY <1>1, Inductive, PTL
-----------------------------------------------------------------------------
(* The refinement: the kernel implements the monitors of module Monitors.  *)
(* Each of its steps is one of the four abstract steps, or changes nothing *)
(* that a client can see of a monitor.                                     *)
(* PR_Init leaves all monitors free.                                       *)
LEMMA PromiseStarts == Init => Promise!Init
BY DEF Init, Promise!Init

(* A thread that runs client code is inside all the monitors it has        *)
(* entries of, so that it may go on.                                       *)
LEMMA CallerInside ==
    ASSUME IInv, at = "user"
    PROVE  current \in Thread /\ ~Promise!Blocked(current)
<1>1. current \in Thread /\ state[current] = "RUNNING"
  BY DEF IInv, KernelInv, TypeOK, QueuesMatchState
<1>2. ASSUME NEW m \in Monitor, owner[m] # current
      PROVE  held[current][m] = 0
  <2>1. held[current][m] = Entries(current, m)
    BY <1>1 DEF IInv, KernelInv, EntriesKept
  <2>2. ~GivingUp(current, m)
    BY DEF GivingUp
  <2> QED BY <1>1, <1>2, <2>1, <2>2 DEF Entries
<1> QED BY <1>1, <1>2 DEF Promise!Blocked

(* PR_EnterMonitor lets the caller in, if it can.                          *)
LEMMA EnterMonitorKeepsPromise ==
    ASSUME IInv, NEW m \in Monitor, EnterMonitor(m)
    PROVE  Promise!Enter(current, m)
<1>1. at = "user" /\ current \in Thread /\ ~Promise!Blocked(current)
  BY CallerInside DEF EnterMonitor, Client
<1>2. held' = [held EXCEPT ![current][m] = @ + 1]
  BY DEF EnterMonitor
<1>3. owner' = [owner EXCEPT ![m] = IF @ = None THEN current ELSE @]
  <2>1. owner \in [Monitor -> Thread \cup {None}]
    BY DEF IInv, TypeOK
  <2>2. CASE owner[m] = None
    BY <2>1, <2>2, <1>1, ThreadAssumption DEF EnterMonitor
  <2>3. CASE owner[m] # None
    <3>1. owner' = owner
      BY <2>3 DEF EnterMonitor
    <3> QED BY <2>1, <2>3, <3>1
  <2> QED BY <2>2, <2>3
<1> QED BY <1>1, <1>2, <1>3 DEF Promise!Enter

(* PR_ExitMonitor leaves with the last exit.                               *)
LEMMA ExitMonitorKeepsPromise ==
    ASSUME IInv, NEW m \in Monitor, ExitMonitor(m)
    PROVE  Promise!Leave(current, m)
<1>1. at = "user" /\ current \in Thread /\ ~Promise!Blocked(current)
  BY CallerInside DEF ExitMonitor, Client
<1>2. owner[m] = current /\ held' = [held EXCEPT ![current][m] = @ - 1]
  BY DEF ExitMonitor
<1>3. held[current][m] = count[m]
  BY <1>1, <1>2 DEF IInv, KernelInv, EntriesKept, Entries
<1>4. owner' = [owner EXCEPT ![m] = IF count[m] = 1 THEN None ELSE @]
  <2>1. owner \in [Monitor -> Thread \cup {None}] /\ count[m] \in Nat
    BY DEF IInv, TypeOK
  <2>2. CASE count[m] = 1
    BY <2>1, <2>2 DEF ExitMonitor
  <2>3. CASE count[m] # 1
    <3>1. owner' = owner
      BY <2>3 DEF ExitMonitor
    <3> QED BY <2>1, <2>3, <3>1
  <2> QED BY <2>2, <2>3
<1> QED BY <1>1, <1>2, <1>3, <1>4 DEF Promise!Leave

(* PR_Wait steps out, or takes a sticky notify and nothing changes.        *)
LEMMA WaitKeepsPromise ==
    ASSUME IInv, NEW m \in Monitor, NEW nap, Wait(m, nap)
    PROVE  Promise!StepOut(current, m) \/ UNCHANGED <<held, owner>>
<1>1. at = "user" /\ current \in Thread /\ ~Promise!Blocked(current)
  BY CallerInside DEF Wait, Client
<1>2. held' = held
  BY DEF Wait, history
<1>3. CASE owner' = owner
  BY <1>2, <1>3
<1>4. CASE owner[m] = current /\ owner' = [owner EXCEPT ![m] = None]
  BY <1>1, <1>2, <1>4 DEF Promise!StepOut
<1> QED BY <1>3, <1>4 DEF Wait

(* _PR_MonNotify lets in a thread that is blocked.                         *)
LEMMA MonNotifyKeepsPromise ==
    ASSUME IInv, MonNotify
    PROVE  (\E t \in Thread, m \in Monitor : Promise!Admit(t, m))
           \/ UNCHANGED <<held, owner>>
<1>1. held' = held
  BY DEF MonNotify, history
<1>2. call.mon \in Monitor /\ owner[call.mon] = None
  BY DEF IInv, KernelInv, CallOK, MonNotify
<1>3. CASE owner' = owner
  BY <1>1, <1>3
<1>4. ASSUME NEW i \in DOMAIN lockQ[call.mon], GrantMonitor(call.mon, lockQ[call.mon][i])
      PROVE  \E t \in Thread, m \in Monitor : Promise!Admit(t, m)
  <2> DEFINE t == lockQ[call.mon][i]
  <2>1. t \in Thread /\ state[t] = "MON_WAIT" /\ monitor[t] = call.mon
    <3>1. lockQ[call.mon] \in Seq(Thread)
      BY <1>2 DEF IInv, TypeOK
    <3>2. t \in Waiters("MON_WAIT", call.mon)
      BY <1>2, <1>4, <3>1 DEF IInv, KernelInv, WaitersMatchState, ToSet
    <3> QED BY <3>2 DEF Waiters
  <2>2. held[t][call.mon] = entryCount[t] /\ entryCount[t] > 0
    <3>1. owner[call.mon] # t /\ entryCount[t] > 0
      BY <1>2, <2>1, ThreadAssumption DEF IInv, KernelInv, EntriesKept
    <3>2. ~GivingUp(t, call.mon)
      BY <2>1 DEF IInv, KernelInv, QueuesMatchState, MonNotify, GivingUp
    <3>3. held[t][call.mon] = Entries(t, call.mon)
      BY <1>2, <2>1 DEF IInv, KernelInv, EntriesKept
    <3> QED BY <2>1, <3>1, <3>2, <3>3 DEF Entries
  <2>3. owner' = [owner EXCEPT ![call.mon] = t]
    BY <1>4 DEF GrantMonitor
  <2> QED BY <1>1, <1>2, <2>1, <2>2, <2>3 DEF Promise!Admit
<1> QED BY <1>3, <1>4 DEF MonNotify, monitorVars

(* All other steps change neither the entries nor the owners.              *)
LEMMA OthersKeepPromise ==
    ASSUME Next,
           ~(\E m \in Monitor : EnterMonitor(m) \/ ExitMonitor(m)),
           ~(\E m \in Monitor, nap \in SleepTime \cup {Forever} : Wait(m, nap)),
           ~MonNotify
    PROVE  UNCHANGED <<held, owner>>
<1> USE DEF monitorVars, history
<1>1. ASSUME ClientCall
      PROVE  UNCHANGED <<held, owner>>
  <2>1. ASSUME NEW m \in ClientMonitor, NEW how \in {"ONE", "ALL"}, Notify(m, how)
        PROVE  UNCHANGED <<held, owner>>
    BY <2>1 DEF Notify
  <2>2. ASSUME NEW nap \in SleepTime, Sleep(nap)
        PROVE  UNCHANGED <<held, owner>>
    BY <2>2 DEF Sleep
  <2>3. ASSUME Exit
        PROVE  UNCHANGED <<held, owner>>
    BY <2>3 DEF Exit
  <2>4. ASSUME NEW t \in Thread, Start(t) \/ Suspend(t) \/ Resume(t)
        PROVE  UNCHANGED <<held, owner>>
    BY <2>4 DEF Start, Suspend, Resume
  <2>5. ASSUME NEW t \in Thread, NEW n \in Int, SetThreadPriority(t, n)
        PROVE  UNCHANGED <<held, owner>>
    BY <2>5 DEF SetThreadPriority
  <2>6. \A n \in -1 .. MaxPriority + 1 : Clamp(n) \in Int
    BY NumberAssumption DEF Clamp
  <2> QED BY <1>1, <2>1, <2>2, <2>3, <2>4, <2>5, <2>6, MonitorAssumption DEF ClientCall
<1>2. ASSUME Yield
      PROVE  UNCHANGED <<held, owner>>
  BY <1>2 DEF Yield
<1>3. ASSUME NEW ret, ClockTick(ret)
      PROVE  UNCHANGED <<held, owner>>
  BY <1>3 DEF ClockTick
<1>4. ASSUME NEW ret, ChildDeath(ret)
      PROVE  UNCHANGED <<held, owner>>
  BY <1>4 DEF ChildDeath
<1>5. ASSUME CondNotifyLoop \/ CondNotifyEnd \/ CondWait
      PROVE  UNCHANGED <<held, owner>>
  BY <1>5 DEF CondNotifyLoop, CondNotifyEnd, CondWait
<1>6. ASSUME TickWakeSleeper \/ TickWakeWaiter \/ TickDone
      PROVE  UNCHANGED <<held, owner>>
  BY <1>6 DEF TickWakeSleeper, TickWakeWaiter, TickDone
<1>7. ASSUME (\E m \in IoMonitor : PollReady(m)) \/ PollDone \/ Resched \/ IntsOn \/ Schedule
      PROVE  UNCHANGED <<held, owner>>
  BY <1>7 DEF PollReady, PollDone, Resched, IntsOn, Schedule
<1>8. CASE Signal \/ IdleLoop \/ MissedClock \/ MissedChildDeath
  BY <1>8, <1>3, <1>4
     DEF Signal, ClockInterrupt, ChildDeathInterrupt, IdleLoop, MissedClock, MissedChildDeath
<1> QED BY <1>1, <1>2, <1>5, <1>6, <1>7, <1>8 DEF Next, Kernel

(* Each step of the kernel is a step of the monitors it promises.          *)
LEMMA StepKeepsPromise ==
    ASSUME IInv, [Next]_vars
    PROVE  [Promise!Next]_<<held, owner>>
<1>1. ASSUME NEW m \in Monitor, EnterMonitor(m) \/ ExitMonitor(m)
      PROVE  Promise!Next
  <2>1. current \in Thread
    BY DEF IInv, TypeOK
  <2> QED BY <1>1, <2>1, EnterMonitorKeepsPromise, ExitMonitorKeepsPromise DEF Promise!Next
<1>2. ASSUME NEW m \in Monitor, NEW nap, Wait(m, nap)
      PROVE  [Promise!Next]_<<held, owner>>
  <2>1. current \in Thread
    BY DEF IInv, TypeOK
  <2> QED BY <1>2, <2>1, WaitKeepsPromise DEF Promise!Next
<1>3. ASSUME MonNotify
      PROVE  [Promise!Next]_<<held, owner>>
  BY <1>3, MonNotifyKeepsPromise DEF Promise!Next
<1>4. CASE UNCHANGED vars
  BY <1>4 DEF vars, monitorVars, history
<1> QED BY <1>1, <1>2, <1>3, <1>4, OthersKeepPromise

(* The kernel implements the abstract monitors, for every number of        *)
(* threads, monitors and priorities: mutual exclusion with re-entrance,    *)
(* whatever the scheduler, the clock and the callers of PR_Suspend do.     *)
THEOREM ImplementsMonitors == Spec => KeepsPromise
<1>1. Init => Promise!Init
  BY PromiseStarts
<1>2. IInv /\ [Next]_vars => [Promise!Next]_<<held, owner>>
  BY StepKeepsPromise
<1> QED BY <1>1, <1>2, Inductive, PTL DEF Spec, KeepsPromise, Promise!Spec
-----------------------------------------------------------------------------
(* Preemption.  If no client enters _pr_single_lock, nobody ever owns it   *)
(* or waits for it, whoever notifies it...                                 *)
SingleLockFree ==
    /\ owner[SingleLock] = None
    /\ \A t \in Thread : state[t] \in Waiting => monitor[t] # SingleLock
    /\ call.ret = "condWait" => call.mon # SingleLock

(* ... and a better thread that is ready has the processor, or is about to *)
(* get it: the kernel function that is running has noted to reschedule, or *)
(* is one that ends in _PR_Schedule.                                       *)
Preempts ==
    /\ call.ret = "condWait" => at \in {"monNotify", "condWait"}
    /\ at = "user" => ~ReadyAbove(priority[current])
    /\ at \notin {"user", "yield", "schedule"} /\ call.ret # "condWait" =>
         want \/ ~ReadyAbove(priority[current])

(* A waiter of _pr_single_lock there is not.                               *)
LEMMA NobodyWaits ==
    ASSUME IInv, SingleLockFree
    PROVE  /\ DOMAIN lockQ[SingleLock] = {} /\ condQ[SingleLock] = <<>>
           /\ SingleLock \in Monitor
<1>1. SingleLock \in Monitor
  BY MonitorAssumption
<1>2. lockQ[SingleLock] \in Seq(Thread) /\ condQ[SingleLock] \in Seq(Thread)
  BY <1>1 DEF IInv, TypeOK
<1>3. ToSet(lockQ[SingleLock]) = {} /\ ToSet(condQ[SingleLock]) = {}
  BY <1>1 DEF IInv, KernelInv, WaitersMatchState, SingleLockFree, Waiters, Waiting
<1>4. \A list \in Seq(Thread) : ToSet(list) = {} => list = <<>> /\ DOMAIN list = {}
  <2> SUFFICES ASSUME NEW list \in Seq(Thread), ToSet(list) = {}
               PROVE  list = <<>> /\ DOMAIN list = {}
    OBVIOUS
  <2>1. list # <<>> => Head(list) \in ToSet(list)
    BY HeadLemma
  <2> QED BY <2>1
<1> QED BY <1>1, <1>2, <1>3, <1>4

(* Calls of clients that only use their own monitors leave it alone...     *)
LEMMA ClientLeavesSingleLock ==
    ASSUME IInv, SingleLock \notin ClientMonitor, SingleLockFree, ClientCall
    PROVE  SingleLockFree'
<1> USE DEF monitorVars, Waiting, CallTo, NoCall, ToIntsOn, Client, schedVars
<1>1. ASSUME NEW m \in ClientMonitor, EnterMonitor(m)
      PROVE  SingleLockFree'
  <2>1. m # SingleLock /\ m \in Monitor /\ SingleLock \in Monitor
    BY <1>1, MonitorAssumption
  <2>2. owner'[SingleLock] = owner[SingleLock] /\ (call' = call \/ call'.ret = "intsOn")
    BY <1>1, <2>1 DEF EnterMonitor, Deschedule, IInv, TypeOK
  <2>3. \/ UNCHANGED <<state, monitor>>
        \/ state' = [state EXCEPT ![current] = "MON_WAIT"] /\ monitor' = [monitor EXCEPT ![current] = m]
    BY <1>1 DEF EnterMonitor, Deschedule, threadVars
  <2>4. \A t \in Thread : state'[t] \in Waiting => monitor'[t] # SingleLock
    BY <2>1, <2>3 DEF SingleLockFree, IInv, TypeOK
  <2> QED BY <2>2, <2>4 DEF SingleLockFree
<1>2. ASSUME NEW m \in ClientMonitor, ExitMonitor(m)
      PROVE  SingleLockFree'
  <2>1. m # SingleLock /\ m \in Monitor /\ SingleLock \in Monitor
    BY <1>2, MonitorAssumption
  <2>2. UNCHANGED <<state, monitor>> /\ call'.mon # SingleLock
    BY <1>2, <2>1, MonitorAssumption DEF ExitMonitor, threadVars
  <2>3. owner'[SingleLock] = owner[SingleLock]
    BY <1>2, <2>1 DEF ExitMonitor, IInv, TypeOK
  <2> QED BY <2>2, <2>3 DEF SingleLockFree
<1>3. ASSUME NEW m \in ClientMonitor, NEW nap, Wait(m, nap)
      PROVE  SingleLockFree'
  <2>1. m # SingleLock /\ m \in Monitor /\ SingleLock \in Monitor
    BY <1>3, MonitorAssumption
  <2>2. UNCHANGED <<state, monitor>> /\ call'.mon # SingleLock
    BY <1>3, <2>1, MonitorAssumption DEF Wait, threadVars
  <2>3. owner'[SingleLock] = owner[SingleLock]
    BY <1>3, <2>1 DEF Wait, IInv, TypeOK
  <2> QED BY <2>2, <2>3 DEF SingleLockFree
<1>4. ASSUME NEW m \in ClientMonitor, NEW how \in {"ONE", "ALL"}, Notify(m, how)
      PROVE  SingleLockFree'
  BY <1>4 DEF Notify, CondNotify, SingleLockFree, threadVars
<1>5. ASSUME NEW nap \in SleepTime, Sleep(nap)
      PROVE  SingleLockFree'
  BY <1>5 DEF Sleep, PutOnSleepQ, SingleLockFree, IInv, TypeOK
<1>6. ASSUME Exit
      PROVE  SingleLockFree'
  BY <1>6 DEF Exit, Deschedule, SingleLockFree, IInv, TypeOK
<1>7. ASSUME NEW t \in Thread, Start(t) \/ Suspend(t) \/ Resume(t)
      PROVE  SingleLockFree'
  <2>1. /\ UNCHANGED <<owner, monitor>>
        /\ call' = call \/ call'.ret = "intsOn"
        /\ \A u \in Thread : state'[u] \in Waiting => state[u] \in Waiting
    <3>1. ASSUME Start(t)
          PROVE  /\ UNCHANGED <<owner, monitor>> /\ (call' = call \/ call'.ret = "intsOn")
                 /\ \A u \in Thread : state'[u] \in Waiting => state[u] \in Waiting
      BY <3>1 DEF Start, MakeRunnable, IInv, TypeOK
    <3>2. ASSUME Suspend(t)
          PROVE  /\ UNCHANGED <<owner, monitor>> /\ (call' = call \/ call'.ret = "intsOn")
                 /\ \A u \in Thread : state'[u] \in Waiting => state[u] \in Waiting
      <4>1. \/ UNCHANGED state \/ \E u \in Thread : state' = [state EXCEPT ![u] = "SUSPENDED"]
        BY <3>2, ExactFacts DEF Suspend, Deschedule
      <4>2. UNCHANGED <<owner, monitor>> /\ (call' = call \/ call'.ret = "intsOn")
        BY <3>2 DEF Suspend
      <4> QED BY <4>1, <4>2 DEF IInv, TypeOK
    <3>3. ASSUME Resume(t)
          PROVE  /\ UNCHANGED <<owner, monitor>> /\ (call' = call \/ call'.ret = "intsOn")
                 /\ \A u \in Thread : state'[u] \in Waiting => state[u] \in Waiting
      <4>1. UNCHANGED state \/ state' = [state EXCEPT ![t] = "RUNNABLE"]
        BY <3>3 DEF Resume, MakeRunnable
      <4>2. UNCHANGED <<owner, monitor>> /\ (call' = call \/ call'.ret = "intsOn")
        BY <3>3 DEF Resume, HandOverIfIdle
      <4> QED BY <4>1, <4>2 DEF IInv, TypeOK
    <3> QED BY <1>7, <3>1, <3>2, <3>3
  <2> QED BY <2>1 DEF SingleLockFree
<1>8. ASSUME NEW t \in Thread, NEW n, SetThreadPriority(t, n)
      PROVE  SingleLockFree'
  BY <1>8 DEF SetThreadPriority, SingleLockFree
<1> QED BY <1>1, <1>2, <1>3, <1>4, <1>5, <1>6, <1>7, <1>8 DEF ClientCall

(* ... and so do the functions of the kernel: there is nobody to give it   *)
(* to.                                                                     *)
LEMMA KernelLeavesSingleLock ==
    ASSUME IInv, SingleLockFree, Kernel \/ Yield \/ IdleLoop \/ Signal
    PROVE  SingleLockFree'
<1> USE DEF monitorVars, Waiting, CallTo, NoCall
<1>1. CASE MonNotify
  <2>1. CASE UNCHANGED <<owner, state, monitor, call>>
    BY <2>1 DEF SingleLockFree
  <2>2. ASSUME NEW i \in DOMAIN lockQ[call.mon], GrantMonitor(call.mon, lockQ[call.mon][i]),
               call' = call
        PROVE  SingleLockFree'
    <3>1. call.mon # SingleLock
      BY <2>2, NobodyWaits
    <3> PICK u, m : u = lockQ[call.mon][i] /\ m = call.mon
      OBVIOUS
    <3>2. /\ state' = [state EXCEPT ![u] = "RUNNABLE"]
          /\ owner' = [owner EXCEPT ![m] = u] /\ monitor' = [monitor EXCEPT ![u] = None]
      BY <2>2 DEF GrantMonitor, MakeRunnable
    <3>3. owner'[SingleLock] = owner[SingleLock]
      BY <3>1, <3>2 DEF IInv, TypeOK
    <3>4. \A v \in Thread : state'[v] \in Waiting => state[v] \in Waiting /\ monitor'[v] = monitor[v]
      BY <3>2 DEF IInv, TypeOK
    <3> QED BY <2>2, <3>3, <3>4 DEF SingleLockFree
  <2> QED BY <1>1, <2>1, <2>2 DEF MonNotify, threadVars
<1>2. CASE CondNotifyLoop
  <2>1. call.mon \in Monitor
    BY <1>2 DEF CondNotifyLoop, IInv, KernelInv, CallOK
  <2>2. CASE UNCHANGED <<owner, state, monitor, call>>
    BY <2>2 DEF SingleLockFree
  <2>3. CASE condQ[call.mon] # <<>> /\ NotifyOneThread(call.mon, Head(condQ[call.mon]))
    <3> DEFINE t == Head(condQ[call.mon])
    <3>1. t \in Thread /\ monitor[t] = call.mon
      <4>1. condQ[call.mon] \in Seq(Thread)
        BY <2>1 DEF IInv, TypeOK
      <4>2. t \in ToSet(condQ[call.mon])
        BY <2>3, <4>1, HeadLemma
      <4> QED BY <2>1, <4>2 DEF IInv, KernelInv, WaitersMatchState, Waiters
    <3>2. call.mon # SingleLock
      BY <2>3, NobodyWaits
    <3>3. state' = [state EXCEPT ![t] = "MON_WAIT"] /\ UNCHANGED <<owner, monitor, call>>
      BY <1>2, <2>2, <2>3 DEF CondNotifyLoop, NotifyOneThread
    <3> QED BY <3>1, <3>2, <3>3 DEF SingleLockFree, IInv, TypeOK
  <2> QED BY <1>2, <2>2, <2>3 DEF CondNotifyLoop, threadVars
<1>3. CASE CondNotifyEnd
  BY <1>3 DEF CondNotifyEnd, HandOverIfIdle, SingleLockFree, threadVars, IInv, KernelInv, CallOK
<1>4. CASE CondWait
  <2>1. call.mon # SingleLock
    BY <1>4 DEF CondWait, SingleLockFree, IInv, KernelInv, CallOK
  <2> QED BY <1>4, <2>1 DEF CondWait, PutOnSleepQ, SingleLockFree, IInv, TypeOK
<1>5. CASE TickWakeSleeper
  BY <1>5 DEF TickWakeSleeper, MakeRunnable, SingleLockFree, IInv, TypeOK
<1>6. CASE TickWakeWaiter
  <2> DEFINE t == Head(queue[SleepQ])
  <2>1. state[t] = "COND_WAIT" /\ state' = [state EXCEPT ![t] = "MON_WAIT"]
        /\ UNCHANGED <<owner, monitor>> /\ HandOverIfIdle(monitor[t], "tick")
    BY <1>6 DEF TickWakeWaiter
  <2>2. t \in Thread
    <3>1. queue[SleepQ] \in Seq(Thread)
      BY QueueNames DEF IInv, TypeOK
    <3> QED BY <1>6, <3>1, HeadLemma DEF TickWakeWaiter, TickExpired
  <2>3. \A u \in Thread : state'[u] \in Waiting => state[u] \in Waiting
    BY <2>1, <2>2 DEF IInv, TypeOK
  <2>4. call'.ret \in {"tick", "intsOn"}
    BY <2>1 DEF HandOverIfIdle
  <2> QED BY <2>1, <2>3, <2>4 DEF SingleLockFree
<1>7. CASE TickDone \/ PollDone \/ IntsOn
  BY <1>7 DEF TickDone, PollDone, IntsOn, SingleLockFree, threadVars
<1>8. ASSUME NEW m \in IoMonitor, PollReady(m)
      PROVE  SingleLockFree'
  BY <1>8 DEF PollReady, CondNotify, SingleLockFree, threadVars
<1>9. CASE Resched \/ Schedule \/ Yield
  BY <1>9 DEF Resched, Schedule, Yield, Deschedule, SingleLockFree, IInv, TypeOK
<1>10. ASSUME NEW ret, ClockTick(ret)
       PROVE  SingleLockFree'
  BY <1>10 DEF ClockTick, SingleLockFree, threadVars
<1>11. ASSUME NEW ret \in Return \ {"condWait"}, ChildDeath(ret)
       PROVE  SingleLockFree'
  BY <1>11 DEF ChildDeath, CondNotify, SingleLockFree, threadVars, Return
<1>12. CASE Signal \/ IdleLoop \/ MissedClock \/ MissedChildDeath
  BY <1>12, <1>10, <1>11 DEF Signal, ClockInterrupt, ChildDeathInterrupt, IdleLoop, MissedClock,
     MissedChildDeath, Return
<1> QED BY <1>1, <1>2, <1>3, <1>4, <1>5, <1>6, <1>7, <1>8, <1>9, <1>12 DEF Kernel

(* For comparing priorities.                                               *)
LEMMA PrioritiesAreNumbers ==
    ASSUME TypeOK
    PROVE  readyMask \subseteq Int /\ \A t \in Thread : priority[t] \in Int
<1>1. Priority \subseteq Int
  BY NumberAssumption DEF Priority
<1>2. readyMask \subseteq Priority /\ priority \in [Thread -> Priority]
  BY DEF TypeOK
<1> QED BY <1>1, <1>2

(* Fewer or worse threads are ready, and the running one is as good.       *)
LEMMA NoneBetter ==
    ASSUME TypeOK, readyMask' \subseteq readyMask, UNCHANGED <<priority, current>>,
           ~ReadyAbove(priority[current])
    PROVE  ~ReadyAbove(priority[current])'
  BY DEF ReadyAbove

(* A thread is made ready by a function that notes whether it is better.   *)
LEMMA NoneBetterAdded ==
    ASSUME TypeOK, NEW t \in Thread, readyMask' = readyMask \cup {priority[t]},
           UNCHANGED <<priority, current>>, ~(priority[t] > priority[current]),
           ~ReadyAbove(priority[current])
    PROVE  ~ReadyAbove(priority[current])'
  BY DEF ReadyAbove

(* Calls of clients, made while nobody better is ready...                  *)
LEMMA ClientCallPreempts ==
    ASSUME IInv, Preempts, ClientCall
    PROVE  Preempts'
<1> USE DEF CallTo, NoCall, ToIntsOn, Client
<1>1. TypeOK /\ current \in Thread
  BY DEF IInv, TypeOK
<1>2. ASSUME NEW m \in Monitor, EnterMonitor(m)
      PROVE  Preempts'
  <2>1. UNCHANGED <<priority, current, readyMask>>
    BY <1>2 DEF EnterMonitor, threadVars, schedVars
  <2>2. ~ReadyAbove(priority[current])'
    BY <1>1, <1>2, <2>1, NoneBetter DEF EnterMonitor, Preempts
  <2>3. call'.ret # "condWait"
    BY <1>2 DEF EnterMonitor, Preempts
  <2> QED BY <2>2, <2>3 DEF Preempts
<1>3. ASSUME NEW m \in Monitor, ExitMonitor(m)
      PROVE  Preempts'
  <2>1. UNCHANGED <<priority, current, readyMask>>
    BY <1>3 DEF ExitMonitor, threadVars, schedVars
  <2>2. ~ReadyAbove(priority[current])'
    BY <1>1, <1>3, <2>1, NoneBetter DEF ExitMonitor, Preempts
  <2>3. call'.ret # "condWait"
    BY <1>3 DEF ExitMonitor
  <2> QED BY <2>2, <2>3 DEF Preempts
<1>4. ASSUME NEW m \in Monitor, NEW nap, Wait(m, nap)
      PROVE  Preempts'
  <2>1. UNCHANGED <<priority, current, readyMask>>
    BY <1>4 DEF Wait, threadVars, schedVars
  <2>2. ~ReadyAbove(priority[current])'
    BY <1>1, <1>4, <2>1, NoneBetter DEF Wait, Preempts
  <2>3. call'.ret = "condWait" => at' = "monNotify"
    BY <1>4 DEF Wait
  <2> QED BY <2>2, <2>3, <1>4 DEF Preempts, Wait
<1>5. ASSUME NEW m \in Monitor, NEW how, Notify(m, how)
      PROVE  Preempts'
  <2>1. UNCHANGED <<priority, current, readyMask>>
    BY <1>5 DEF Notify, threadVars, schedVars
  <2>2. ~ReadyAbove(priority[current])'
    BY <1>1, <1>5, <2>1, NoneBetter DEF Notify, Preempts
  <2> QED BY <2>2, <1>5 DEF Preempts, Notify, CondNotify
<1>6. ASSUME (\E nap \in SleepTime : Sleep(nap)) \/ Exit
      PROVE  Preempts'
  BY <1>6 DEF Sleep, Exit, Deschedule, Preempts
<1>7. ASSUME NEW t \in Thread, Start(t)
      PROVE  Preempts'
  <2>1. want' \/ ~ReadyAbove(priority[current])'
    BY <1>1, <1>7, NoneBetterAdded DEF Start, MakeRunnable, Preempts
  <2> QED BY <1>7, <2>1 DEF Start, Preempts
<1>8. ASSUME NEW t \in Thread, Suspend(t)
      PROVE  Preempts'
  <2>1. readyMask' \subseteq readyMask /\ UNCHANGED <<priority, current>>
    BY <1>8 DEF Suspend
  <2>2. ~ReadyAbove(priority[current])'
    BY <1>1, <1>8, <2>1, NoneBetter DEF Suspend, Preempts
  <2>3. \/ at' = "schedule" /\ call' = call
        \/ at' = "intsOn" /\ call' = NoCall
    BY <1>8 DEF Suspend, Deschedule
  <2> QED BY <1>8, <2>2, <2>3 DEF Preempts, Suspend
<1>9. ASSUME NEW t \in Thread, Resume(t)
      PROVE  Preempts'
  <2>1. CASE UNCHANGED <<priority, current, readyMask>>
    <3>1. ~ReadyAbove(priority[current])'
      BY <1>1, <1>9, <2>1, NoneBetter DEF Resume, Preempts
    <3>2. call'.ret # "condWait"
      BY <1>9 DEF Resume, HandOverIfIdle
    <3> QED BY <3>1, <3>2 DEF Preempts
  <2>2. CASE MakeRunnable(t) /\ ToIntsOn(priority[t] >= priority[current])
    <3>1. UNCHANGED <<priority, current>> /\ ~ReadyAbove(priority[current])
      BY <1>9 DEF Resume, Preempts
    <3>2. want' \/ ~ReadyAbove(priority[current])'
      <4>1. priority[t] \in Int /\ priority[current] \in Int
        BY <1>1, PrioritiesAreNumbers
      <4>2. priority[t] >= priority[current] => want'
        BY <2>2
      <4>3. readyMask' = readyMask \cup {priority[t]}
        BY <2>2 DEF MakeRunnable
      <4>4. ~(priority[t] > priority[current]) => ~ReadyAbove(priority[current])'
        BY <1>1, <3>1, <4>3, NoneBetterAdded
      <4> QED BY <4>1, <4>2, <4>4
    <3>3. at' = "intsOn" /\ call'.ret = "intsOn"
      BY <2>2
    <3> QED BY <3>2, <3>3 DEF Preempts
  <2> QED BY <1>9, <2>1, <2>2 DEF Resume
<1>10. ASSUME NEW t \in Thread, NEW n \in Priority, SetThreadPriority(t, n)
       PROVE  Preempts'
  <2>1. at = "user" /\ ~ReadyAbove(priority[current]) /\ current' = current
        /\ priority' = [priority EXCEPT ![t] = n]
    BY <1>10 DEF SetThreadPriority, Preempts
  <2>2. at' = "intsOn" /\ call' = NoCall
    BY <1>10 DEF SetThreadPriority
  <2>3. CASE state[t] = "RUNNING"
    <3>1. t = current
      BY <2>3, ExactFacts
    <3>2. want' = ReadyAbove(n) /\ readyMask' = readyMask /\ priority'[current] = n
      BY <1>1, <1>10, <2>1, <2>3, <3>1 DEF SetThreadPriority, TypeOK
    <3> QED BY <2>1, <2>2, <3>2 DEF Preempts, ReadyAbove
  <2>4. CASE state[t] = "RUNNABLE"
    <3>1. t # current
      BY <2>1, <2>4, ExactFacts
    <3>2. /\ want' = (n > priority[current]) /\ priority'[current] = priority[current]
          /\ readyMask' \subseteq {n} \cup readyMask
      BY <1>1, <1>10, <2>1, <2>4, <3>1 DEF SetThreadPriority, TypeOK
    <3> QED BY <2>1, <2>2, <3>2 DEF Preempts, ReadyAbove
  <2>5. CASE state[t] \notin {"RUNNING", "RUNNABLE"}
    <3>1. t # current
      BY <2>1, <2>5, ExactFacts
    <3>2. readyMask' = readyMask /\ priority'[current] = priority[current]
      BY <1>1, <1>10, <2>1, <2>5, <3>1 DEF SetThreadPriority, TypeOK
    <3> QED BY <2>1, <2>2, <3>2 DEF Preempts, ReadyAbove
  <2> QED BY <2>3, <2>4, <2>5
<1> QED BY <1>2, <1>3, <1>4, <1>5, <1>6, <1>7, <1>8, <1>9, <1>10, MonitorAssumption,
           NumberAssumption, Clamps DEF ClientCall

(* ... and the functions of the kernel, which note a better thread that    *)
(* they make ready.                                                        *)
LEMMA MonNotifyPreempts ==
    ASSUME IInv, Preempts, MonNotify
    PROVE  Preempts'
<1>1. TypeOK /\ current \in Thread /\ at = "monNotify" /\ at' = call.ret /\ call' = call
      /\ call.ret \in Return /\ UNCHANGED <<priority, current>>
  BY DEF IInv, TypeOK, MonNotify, threadVars, schedVars, CallRecord
<1>2. call.ret = "condWait" => Preempts'
  BY <1>1 DEF Preempts
<1>3. ASSUME call.ret # "condWait"
      PROVE  (want \/ ~ReadyAbove(priority[current])) /\ at' # "user"
  BY <1>1, <1>3 DEF Preempts, Return
<1>4. CASE UNCHANGED <<readyMask, want>> /\ call.ret # "condWait"
  <2>1. want' \/ ~ReadyAbove(priority[current])'
    BY <1>1, <1>3, <1>4, NoneBetter
  <2> QED BY <1>1, <1>3, <1>4, <2>1 DEF Preempts
<1>5. ASSUME NEW i \in DOMAIN lockQ[call.mon], GrantMonitor(call.mon, lockQ[call.mon][i]),
             want' = (IF call.ret = "condWait" THEN want
                      ELSE want \/ priority[lockQ[call.mon][i]] >= priority[current]),
             call.ret # "condWait"
      PROVE  Preempts'
  <2> DEFINE t == lockQ[call.mon][i]
  <2>1. t \in Thread
    BY <1>1 DEF IInv, KernelInv, CallOK, TypeOK
  <2>2. priority[t] \in Int /\ priority[current] \in Int
    BY <1>1, <2>1, PrioritiesAreNumbers
  <2>3. readyMask' = readyMask \cup {priority[t]}
    BY <1>5 DEF GrantMonitor, MakeRunnable
  <2> HIDE DEF t
  <2>4. ~(priority[t] > priority[current]) /\ ~ReadyAbove(priority[current])
        => ~ReadyAbove(priority[current])'
    BY <1>1, <2>1, <2>3, NoneBetterAdded
  <2>5. want \/ priority[t] >= priority[current] => want'
    BY <1>5 DEF t
  <2>6. want' \/ ~ReadyAbove(priority[current])'
    BY <1>3, <1>5, <2>2, <2>4, <2>5
  <2> QED BY <1>1, <1>3, <1>5, <2>6 DEF Preempts
<1> QED BY <1>2, <1>4, <1>5 DEF MonNotify, schedVars

(* A sleeper woken by the clock tick asks for a yield if it is as good,    *)
(* ...                                                                     *)
LEMMA TickWakeSleeperPreempts ==
    ASSUME IInv, Preempts, TickWakeSleeper
    PROVE  Preempts'
<1>1. TypeOK /\ current \in Thread /\ at = "tick" /\ at' = "tick" /\ call' = call
      /\ UNCHANGED <<priority, current>> /\ call.ret # "condWait"
      /\ (want \/ ~ReadyAbove(priority[current]))
  BY DEF IInv, TypeOK, TickWakeSleeper, Preempts
<1>2. CASE UNCHANGED <<readyMask, want>>
  <2>1. want' \/ ~ReadyAbove(priority[current])'
    BY <1>1, <1>2, NoneBetter
  <2> QED BY <1>1, <2>1 DEF Preempts
<1>3. ASSUME NEW t \in Thread, MakeRunnable(t),
             want' = (want \/ priority[t] >= priority[current])
      PROVE  Preempts'
  <2>1. priority[t] \in Int /\ priority[current] \in Int
    BY <1>1, PrioritiesAreNumbers
  <2>2. readyMask' = readyMask \cup {priority[t]}
    BY <1>3 DEF MakeRunnable
  <2>3. ~(priority[t] > priority[current]) /\ ~ReadyAbove(priority[current])
        => ~ReadyAbove(priority[current])'
    BY <1>1, <2>2, NoneBetterAdded
  <2>4. want \/ priority[t] >= priority[current] => want'
    BY <1>3
  <2>5. want' \/ ~ReadyAbove(priority[current])'
    BY <1>1, <2>1, <2>3, <2>4
  <2> QED BY <1>1, <2>5 DEF Preempts
<1>4. Head(queue[SleepQ]) \in Thread
  <2>1. queue[SleepQ] \in Seq(Thread)
    BY QueueNames DEF IInv, TypeOK
  <2> QED BY <2>1, HeadLemma DEF TickWakeSleeper, TickExpired
<1> QED BY <1>2, <1>3, <1>4 DEF TickWakeSleeper

(* ... _PR_Schedule takes the best that is ready, ...                      *)
LEMMA SchedulePreempts ==
    ASSUME IInv, Preempts, Schedule
    PROVE  Preempts'
<1>1. PICK p \in readyMask : ~ReadyAbove(p) /\ current' = Head(queue[p])
                             /\ readyMask' \subseteq readyMask
  BY DEF Schedule
<1>2. priority[current'] = p
  <2>1. p \in Priority /\ p \in QueueName /\ queue[p] # <<>>
    BY <1>1, ExactFacts, QueueNames DEF Mask
  <2>2. queue[p] \in Seq(Thread)
    BY <2>1 DEF IInv, TypeOK
  <2>3. current' \in ToSet(queue[p]) /\ current' \in Thread
    BY <1>1, <2>1, <2>2, HeadLemma
  <2>4. Home(current') = p
    BY <2>1, <2>3, ExactFacts DEF Linked
  <2> HIDE DEF Home
  <2> QED BY <2>1, <2>3, <2>4, Homes, ExactFacts
<1>3. at' = "intsOn" /\ call' = call /\ priority' = priority /\ call.ret # "condWait"
  BY DEF Schedule, Preempts
<1>4. ~ReadyAbove(priority[current])'
  BY <1>1, <1>2, <1>3 DEF ReadyAbove
<1> QED BY <1>3, <1>4 DEF Preempts

(* ... and the other steps of the kernel make no better thread ready.      *)
LEMMA KernelPreempts ==
    ASSUME IInv, Preempts, SingleLockFree, Kernel \/ Yield \/ IdleLoop \/ Signal
    PROVE  Preempts'
<1> USE DEF CallTo, NoCall
<1>1. TypeOK /\ current \in Thread /\ call.ret \in Return /\ at \in At
  BY DEF IInv, TypeOK, CallRecord
<1>2. CASE CondNotifyLoop \/ CondNotifyEnd
  <2>1. /\ call.ret # "condWait" /\ UNCHANGED <<readyMask, priority, current, want>>
        /\ want \/ ~ReadyAbove(priority[current])
    BY <1>2 DEF CondNotifyLoop, CondNotifyEnd, Preempts, threadVars, schedVars
  <2>2. want' \/ ~ReadyAbove(priority[current])'
    BY <1>1, <2>1, NoneBetter
  <2>3. call'.ret # "condWait" /\ at' # "user"
    BY <1>1, <1>2, <2>1 DEF CondNotifyLoop, CondNotifyEnd, HandOverIfIdle, Return
  <2> QED BY <2>2, <2>3 DEF Preempts
<1>3. CASE CondWait
  BY <1>3 DEF CondWait, Preempts
<1>4. CASE TickWakeWaiter \/ TickDone \/ PollDone \/ (\E m \in IoMonitor : PollReady(m))
  <2>1. /\ call.ret # "condWait" /\ UNCHANGED <<readyMask, priority, current, want>>
        /\ want \/ ~ReadyAbove(priority[current])
    BY <1>4 DEF TickWakeWaiter, TickDone, PollDone, PollReady, Preempts, threadVars, schedVars
  <2>2. want' \/ ~ReadyAbove(priority[current])'
    BY <1>1, <2>1, NoneBetter
  <2>3. call'.ret # "condWait"
    <3>1. NoCall.ret # "condWait"
      BY DEF NoCall, CallTo
    <3>2. CASE TickWakeWaiter
      <4> PICK m : HandOverIfIdle(m, "tick")
        BY <3>2 DEF TickWakeWaiter
      <4> QED BY <3>1 DEF HandOverIfIdle, CallTo
    <3>3. CASE TickDone \/ PollDone
      BY <3>1, <3>3 DEF TickDone, PollDone
    <3>4. CASE \E m \in IoMonitor : PollReady(m)
      BY <3>4 DEF PollReady, CondNotify, CallTo
    <3> QED BY <1>4, <3>2, <3>3, <3>4
  <2>4. at' # "user"
    BY <1>1, <1>4 DEF TickWakeWaiter, TickDone, PollDone, PollReady, HandOverIfIdle, CondNotify,
       TypeOK, IntsOnStep
  <2> QED BY <2>2, <2>3, <2>4 DEF Preempts
<1>5. CASE Resched
  <2>1. CASE at' = "user"
    <3>1. ~ReadyAbove(priority[current]) /\ UNCHANGED <<readyMask, priority, current>>
      <4>1. ~(want \/ ReadyAtLeast(priority[current]))
        BY <1>5, <2>1 DEF Resched, SingleLockFree, Deschedule
      <4>2. UNCHANGED <<readyMask, priority, current>>
        BY <1>5, <2>1 DEF Resched, Deschedule
      <4>3. readyMask \subseteq Int /\ priority[current] \in Int
        BY <1>1, PrioritiesAreNumbers
      <4> QED BY <4>1, <4>2, <4>3 DEF ReadyAtLeast, ReadyAbove
    <3>2. ~ReadyAbove(priority[current])'
      BY <1>1, <3>1, NoneBetter
    <3> QED BY <1>5, <2>1, <3>2 DEF Preempts, Resched
  <2>2. CASE at' = "schedule"
    BY <1>5, <2>2 DEF Resched, Preempts
  <2> QED BY <1>5, <2>1, <2>2 DEF Resched, Deschedule
<1>6. CASE IntsOn
  <2>1. CASE want
    BY <1>6, <2>1 DEF IntsOn, Preempts
  <2>2. CASE ~want
    <3>1. ~ReadyAbove(priority[current]) /\ UNCHANGED <<readyMask, priority, current>>
      BY <1>6, <2>2 DEF IntsOn, Preempts, threadVars, schedVars, IntsOnStep
    <3>2. ~ReadyAbove(priority[current])'
      BY <1>1, <3>1, NoneBetter
    <3> QED BY <1>6, <3>2 DEF IntsOn, Preempts
  <2> QED BY <2>1, <2>2
<1>7. CASE Yield
  <2>1. CASE at' = "schedule"
    BY <1>7, <2>1 DEF Yield, Client, Preempts
  <2>2. CASE ~ReadyAtLeast(priority[current]) /\ at' = "intsOn" /\ readyMask' = readyMask
    <3>1. readyMask \subseteq Int /\ priority[current] \in Int
      BY <1>1, PrioritiesAreNumbers
    <3>2. ~ReadyAbove(priority[current]) /\ UNCHANGED <<readyMask, priority, current>>
      BY <1>7, <2>2, <3>1 DEF Yield, ReadyAtLeast, ReadyAbove
    <3>3. ~ReadyAbove(priority[current])'
      BY <1>1, <3>2, NoneBetter
    <3> QED BY <1>7, <2>2, <3>3 DEF Yield, Client, Preempts
  <2> QED BY <1>7, <2>1, <2>2 DEF Yield, Deschedule
<1>8. ASSUME NEW ret, ClockTick(ret), call.ret # "condWait",
             want' \/ ~ReadyAbove(priority[current])
      PROVE  Preempts'
  <2>1. UNCHANGED <<readyMask, priority, current, call>> /\ at' = "tick"
    BY <1>8 DEF ClockTick, threadVars, schedVars
  <2>2. want' \/ ~ReadyAbove(priority[current])'
    BY <1>1, <1>8, <2>1, NoneBetter
  <2> QED BY <1>8, <2>1, <2>2 DEF Preempts
<1>9. ASSUME NEW ret \in Return \ {"condWait"}, ChildDeath(ret),
             want' \/ ~ReadyAbove(priority[current])
      PROVE  Preempts'
  <2>1. UNCHANGED <<readyMask, priority, current>> /\ at' = "condNotify" /\ call'.ret = ret
    BY <1>9 DEF ChildDeath, CondNotify, threadVars, schedVars
  <2>2. want' \/ ~ReadyAbove(priority[current])'
    BY <1>1, <1>9, <2>1, NoneBetter
  <2> QED BY <1>9, <2>1, <2>2 DEF Preempts
<1>10. CASE Signal \/ IdleLoop
  <2>1. call.ret # "condWait" /\ ~ReadyAbove(priority[current])
    BY <1>10 DEF Signal, ClockInterrupt, ChildDeathInterrupt, IdleLoop, Preempts
  <2> QED BY <1>8, <1>9, <1>10, <2>1 DEF Signal, ClockInterrupt, ChildDeathInterrupt, IdleLoop, Return
<1>11. CASE MissedClock \/ MissedChildDeath
  <2>1. call.ret # "condWait" /\ (want \/ ~ReadyAbove(priority[current])) /\ want' = want
    BY <1>11 DEF MissedClock, MissedChildDeath, Preempts
  <2> QED BY <1>8, <1>9, <1>11, <2>1 DEF MissedClock, MissedChildDeath, Return
<1> QED BY <1>2, <1>3, <1>4, <1>5, <1>6, <1>7, <1>10, <1>11, MonNotifyPreempts,
           TickWakeSleeperPreempts, SchedulePreempts DEF Kernel

(* What RunsHighest rests on, besides the invariant of the kernel.         *)
PreemptInv == SingleLock \notin ClientMonitor => SingleLockFree /\ Preempts

(* PR_Init runs the only thread there is beside idle.                      *)
LEMMA PreemptStarts == Init => PreemptInv
<1> SUFFICES ASSUME Init
             PROVE  SingleLockFree /\ Preempts
  BY DEF PreemptInv
<1>1. SingleLockFree
  BY ThreadAssumption, MonitorAssumption DEF Init, SingleLockFree, Waiting, NoCall, CallTo
<1>2. ~ReadyAbove(priority[current])
  BY ThreadAssumption, NumberAssumption DEF Init, ReadyAbove, Priority
<1> QED BY <1>1, <1>2 DEF Init, Preempts, NoCall, CallTo

(* Every step keeps it.                                                    *)
LEMMA PreemptInvKept ==
    ASSUME IInv, PreemptInv, [Next]_vars
    PROVE  PreemptInv'
<1> SUFFICES ASSUME SingleLock \notin ClientMonitor, SingleLockFree, Preempts
             PROVE  SingleLockFree' /\ Preempts'
  BY DEF PreemptInv
<1>1. CASE UNCHANGED vars
  BY <1>1 DEF vars, threadVars, monitorVars, schedVars, kernVars, SingleLockFree, Preempts, ReadyAbove
<1>2. CASE ClientCall
  BY <1>2, ClientLeavesSingleLock, ClientCallPreempts
<1>3. CASE Kernel \/ Yield \/ IdleLoop \/ Signal
  BY <1>3, KernelLeavesSingleLock, KernelPreempts
<1> QED BY <1>1, <1>2, <1>3 DEF Next

(* Preemption is immediate: in code of a client no better thread is ready, *)
(* whoever made one ready, by whatever call, tick or hand-over, if clients *)
(* do not enter the monitor that switches rescheduling off.                *)
THEOREM HighestRuns == Spec => []RunsHighest
<1>1. IInv /\ PreemptInv /\ [Next]_vars => PreemptInv'
  BY PreemptInvKept
<1>2. PreemptInv => RunsHighest
  BY DEF PreemptInv, Preempts, RunsHighest
<1> QED BY <1>1, <1>2, PreemptStarts, Inductive, PTL DEF Spec
-----------------------------------------------------------------------------
(* The sleep queue.  s are the relative times of the threads on list q,    *)
(* and d the times they add up to: each is the difference to the one       *)
(* before.                                                                 *)
Relative(q, s, d) ==
    \A i \in DOMAIN q :
      /\ d[q[i]] \in 0 .. Forever
      /\ i = 1 => s[q[i]] = d[q[i]]
      /\ i > 1 => d[q[i - 1]] <= d[q[i]] /\ s[q[i]] = Minus(d[q[i]], d[q[i - 1]])

(* Differences of times, LL_MAXINT among them.                             *)
LEMMA Differences ==
    ASSUME NEW a \in 0 .. Forever, NEW b \in 0 .. Forever, a <= b
    PROVE  /\ Forever \in Nat /\ Forever > 0
           /\ Minus(b, a) \in 0 .. Forever /\ Minus(a, 0) = a
           /\ Plus(a, Minus(b, a)) = b /\ Plus(0, a) = a
<1>1. Forever \in Nat /\ Forever > 0
  BY NumberAssumption, TimeAssumption
<1> QED BY <1>1 DEF Plus, Minus

(* Two differences of times in a row add up.                               *)
LEMMA DifferencesAdd ==
    ASSUME NEW a \in 0 .. Forever, NEW b \in 0 .. Forever, NEW c \in 0 .. Forever,
           a <= b, b <= c
    PROVE  Plus(Minus(c, b), Minus(b, a)) = Minus(c, a)
<1>1. Forever \in Nat /\ Forever > 0
  BY NumberAssumption, TimeAssumption
<1> QED BY <1>1 DEF Plus, Minus

(* A difference of times stays when time passes.                           *)
LEMMA DifferencesShift ==
    ASSUME NEW a \in 0 .. Forever, NEW b \in 0 .. Forever, NEW x \in 0 .. Forever - 1,
           x <= a, a <= b
    PROVE  /\ Minus(Minus(b, x), Minus(a, x)) = Minus(b, a)
           /\ Minus(a, x) \in 0 .. Forever /\ Minus(b, x) \in 0 .. Forever
           /\ Minus(a, x) <= Minus(b, x)
           /\ (a < Forever => Minus(a, x) = a - x) /\ (a = Forever => Minus(a, x) = a)
<1>1. Forever \in Nat /\ Forever > 0
  BY NumberAssumption, TimeAssumption
<1> QED BY <1>1 DEF Minus

(* Only the times of the threads on the list matter.                       *)
LEMMA RelativeFrame ==
    ASSUME NEW q \in Seq(Thread), NEW s, NEW d, Relative(q, s, d), NEW s2, NEW d2,
           \A t \in ToSet(q) : s2[t] = s[t] /\ d2[t] = d[t]
    PROVE  Relative(q, s2, d2)
<1>1. DOMAIN q = 1 .. Len(q) /\ Len(q) \in Nat
  BY LenProperties
<1>2. \A i \in DOMAIN q : q[i] \in ToSet(q)
  BY DEF ToSet
<1>3. \A i \in DOMAIN q : i > 1 => i - 1 \in DOMAIN q
  BY <1>1
<1> QED BY <1>2, <1>3 DEF Relative

(* They are ordered: no thread is due before those in front of it.         *)
LEMMA RelativeOrdered ==
    ASSUME NEW q \in Seq(Thread), NEW s, NEW d, Relative(q, s, d), q # <<>>
    PROVE  /\ s[Head(q)] = d[Head(q)] /\ d[Head(q)] \in 0 .. Forever
           /\ \A t \in ToSet(q) : d[t] \in 0 .. Forever /\ d[Head(q)] <= d[t]
<1>1. DOMAIN q = 1 .. Len(q) /\ Len(q) \in Nat /\ Len(q) > 0 /\ Head(q) = q[1]
  BY LenProperties, EmptySeq, HeadTailProperties
<1>2. s[Head(q)] = d[Head(q)] /\ d[Head(q)] \in 0 .. Forever
  BY <1>1 DEF Relative
<1> DEFINE T == {i \in 0 .. Len(q) : i > 0 => d[q[1]] <= d[q[i]]}
<1>3. \A i \in 1 .. Len(q) : i - 1 \in T => i \in T
  <2> SUFFICES ASSUME NEW i \in 1 .. Len(q), i - 1 \in T
               PROVE  d[q[1]] <= d[q[i]]
    BY <1>1
  <2>1. CASE i = 1
    BY <1>1, <1>2, <2>1
  <2>2. CASE i > 1
    <3>1. i - 1 \in DOMAIN q /\ i \in DOMAIN q /\ 1 \in DOMAIN q
      BY <1>1, <2>2
    <3>2. d[q[1]] <= d[q[i - 1]]
      BY <1>1, <2>2
    <3>3. d[q[i - 1]] <= d[q[i]]
      BY <2>2, <3>1 DEF Relative
    <3>4. d[q[1]] \in Int /\ d[q[i - 1]] \in Int /\ d[q[i]] \in Int
      BY <3>1, NumberAssumption DEF Relative
    <3> QED BY <3>2, <3>3, <3>4
  <2> QED BY <2>1, <2>2
<1>4. 0 \in T
  BY <1>1
<1> HIDE DEF T
<1>5. 0 .. Len(q) \subseteq T
  BY <1>1, <1>3, <1>4, InductOn
<1>6. \A i \in DOMAIN q : d[q[1]] <= d[q[i]] /\ d[q[i]] \in 0 .. Forever
  BY <1>1, <1>5 DEF T, Relative
<1> QED BY <1>1, <1>2, <1>6 DEF ToSet

(* What _PR_PutOnSleepQ adds up while it looks for the place.              *)
LEMMA DueIs ==
    ASSUME NEW d, queue[SleepQ] \in Seq(Thread), Relative(queue[SleepQ], sleep, d)
    PROVE  Due[0] = 0 /\ \A i \in DOMAIN queue[SleepQ] : Due[i] = d[queue[SleepQ][i]]
<1> DEFINE q == queue[SleepQ]
           n == Len(q)
           f == [i \in 0 .. n |-> IF i = 0 THEN 0 ELSE d[q[i]]]
<1>1. DOMAIN q = 1 .. n /\ n \in Nat
  BY LenProperties
<1>2. ASSUME NEW i \in 1 .. n
      PROVE  f[i] = Plus(f[i - 1], sleep[q[i]])
  <2>1. CASE i = 1
    <3>1. sleep[q[i]] = d[q[i]] /\ d[q[i]] \in 0 .. Forever
      BY <1>1, <2>1 DEF Relative
    <3>2. f[i - 1] = 0 /\ f[i] = d[q[i]]
      BY <1>1, <2>1
    <3> QED BY <3>1, <3>2, Differences
  <2>2. CASE i > 1
    <3>1. i - 1 \in 1 .. n /\ i - 1 # 0 /\ i # 0
      BY <1>1, <2>2
    <3>2. /\ d[q[i - 1]] \in 0 .. Forever /\ d[q[i]] \in 0 .. Forever
          /\ d[q[i - 1]] <= d[q[i]] /\ sleep[q[i]] = Minus(d[q[i]], d[q[i - 1]])
      BY <1>1, <2>2, <3>1 DEF Relative
    <3>3. f[i - 1] = d[q[i - 1]] /\ f[i] = d[q[i]]
      BY <1>1, <3>1
    <3> QED BY <3>2, <3>3, Differences
  <2> QED BY <1>1, <2>1, <2>2
<1>3. f = [i \in 0 .. n |-> IF i = 0 THEN 0 ELSE Plus(f[i - 1], sleep[q[i]])]
  <2> DEFINE g == [i \in 0 .. n |-> IF i = 0 THEN 0 ELSE Plus(f[i - 1], sleep[q[i]])]
  <2>1. f[0] = 0 /\ g[0] = 0
    BY <1>1
  <2>2. \A i \in 1 .. n : g[i] = Plus(f[i - 1], sleep[q[i]])
    BY <1>1
  <2>3. f = [i \in 0 .. n |-> f[i]] /\ g = [i \in 0 .. n |-> g[i]]
    OBVIOUS
  <2>4. \A i \in 0 .. n : i = 0 \/ i \in 1 .. n
    BY <1>1
  <2> HIDE DEF f, g, q, n
  <2>5. \A i \in 0 .. n : f[i] = g[i]
    BY <1>2, <2>1, <2>2, <2>4
  <2> QED BY <2>3, <2>5 DEF g
<1>4. Due = [i \in 0 .. n |-> IF i = 0 THEN 0 ELSE Plus(Due[i - 1], sleep[q[i]])]
  <2> HIDE DEF f
  <2> QED BY <1>3 DEF Due
<1>5. Due[0] = 0 /\ \A i \in 1 .. n : Due[i] = Plus(Due[i - 1], sleep[q[i]])
  BY <1>1, <1>4
<1> DEFINE T == {i \in 0 .. n : Due[i] = f[i]}
<1>6. 0 \in T /\ \A i \in 1 .. n : i - 1 \in T => i \in T
  <2>1. 0 \in T
    BY <1>1, <1>5
  <2> HIDE DEF f
  <2>2. \A i \in 1 .. n : i \in 0 .. n /\ i - 1 \in 0 .. n
    BY <1>1
  <2> QED BY <1>2, <1>5, <2>1, <2>2
<1> HIDE DEF T
<1>7. 0 .. n \subseteq T
  BY <1>1, <1>6, InductOn
<1>8. \A i \in 1 .. n : i \in T /\ i # 0 /\ f[i] = d[q[i]]
  BY <1>1, <1>7
<1>9. \A i \in 1 .. n : Due[i] = f[i]
  BY <1>8 DEF T
<1> QED BY <1>1, <1>5, <1>8, <1>9

(* A thread put where _PR_PutOnSleepQ puts it, the next one made relative  *)
(* to it.                                                                  *)
RestOf(d, q, k, nap) == IF k = 1 THEN Minus(nap, 0) ELSE Minus(nap, d[q[k - 1]])

(* The relative times after that: c before the k-th of list q.             *)
Inserted(s, q, k, c, rest) ==
    [t \in Thread |-> IF t = c THEN rest
                      ELSE IF k <= Len(q) /\ t = q[k] THEN Minus(s[t], rest) ELSE s[t]]

LEMMA RelativeInsert ==
    ASSUME NEW q \in Seq(Thread), IsTidy(q), NEW s \in [Thread -> Int], NEW d, Relative(q, s, d),
           NEW c \in Thread, c \notin ToSet(q), NEW nap \in 0 .. Forever,
           NEW k \in 1 .. Len(q) + 1,
           \A j \in 1 .. k - 1 : nap >= d[q[j]],
           k <= Len(q) => nap < d[q[k]],
           NEW rest, rest = RestOf(d, q, k, nap),
           NEW s2, s2 = Inserted(s, q, k, c, rest),
           NEW d2, d2[c] = nap, \A t \in ToSet(q) : d2[t] = d[t]
    PROVE  Relative(InsertBefore(q, k, c), s2, d2)
<1> DEFINE n == Len(q)
           w == InsertBefore(q, k, c)
<1>1. DOMAIN q = 1 .. n /\ n \in Nat /\ \A i \in 1 .. n : q[i] \in Thread
  BY LenProperties, ElementOfSeq
<1>2. /\ w \in Seq(Thread) /\ Len(w) = n + 1 /\ w[k] = c
      /\ \A i \in 1 .. n + 1 : i < k => w[i] = q[i]
      /\ \A i \in 1 .. n + 1 : i > k => w[i] = q[i - 1]
  <2>1. w \in Seq(Thread) /\ Len(w) = n + 1
    BY InsertIndexes
  <2>2. /\ \A i \in 1 .. n + 1 : i < k => w[i] = q[i]
        /\ w[k] = c
        /\ \A i \in 1 .. n + 1 : i > k => w[i] = q[i - 1]
    BY InsertIndexes
  <2> HIDE DEF w
  <2> QED BY <2>1, <2>2
<1>3. DOMAIN w = 1 .. n + 1
  BY <1>2, LenProperties
<1> HIDE DEF w
<1>4. /\ \A i \in 1 .. n : q[i] # c /\ d2[q[i]] = d[q[i]]
      /\ \A i \in 1 .. n : i # k => s2[q[i]] = s[q[i]]
      /\ k <= n => s2[q[k]] = Minus(s[q[k]], rest)
      /\ s2[c] = rest
  <2>1. \A i \in 1 .. n : q[i] \in ToSet(q) /\ q[i] # c
    BY <1>1 DEF ToSet
  <2>2. k <= n => k \in 1 .. n
    OBVIOUS
  <2>3. \A i, j \in 1 .. n : i # j => q[i] # q[j]
    BY <1>1 DEF IsTidy, IsInjective
  <2>4. \A t \in Thread : s2[t] = IF t = c THEN rest
                                ELSE IF k <= n /\ t = q[k] THEN Minus(s[t], rest) ELSE s[t]
    BY DEF Inserted
  <2> HIDE DEF n
  <2> QED BY <1>1, <2>1, <2>2, <2>3, <2>4
<1>5. \A i \in 1 .. n : /\ d[q[i]] \in 0 .. Forever
                        /\ i = 1 => s[q[i]] = d[q[i]]
                        /\ i > 1 => d[q[i - 1]] <= d[q[i]] /\ s[q[i]] = Minus(d[q[i]], d[q[i - 1]])
  BY <1>1 DEF Relative
<1>0. rest = IF k = 1 THEN Minus(nap, 0) ELSE Minus(nap, d[q[k - 1]])
  BY DEF RestOf
<1> HIDE DEF n
<1> SUFFICES ASSUME NEW i \in 1 .. n + 1
             PROVE  /\ d2[w[i]] \in 0 .. Forever
                    /\ i = 1 => s2[w[i]] = d2[w[i]]
                    /\ i > 1 => d2[w[i - 1]] <= d2[w[i]] /\ s2[w[i]] = Minus(d2[w[i]], d2[w[i - 1]])
  BY <1>3 DEF w, Relative
<1>6. CASE i < k
  <2>1. i \in 1 .. n /\ i # k /\ w[i] = q[i]
    BY <1>1, <1>2, <1>6 DEF n
  <2>2. i > 1 => i - 1 \in 1 .. n /\ w[i - 1] = q[i - 1]
    BY <1>1, <1>2, <1>6 DEF n
  <2>3. d2[w[i]] = d[q[i]] /\ s2[w[i]] = s[q[i]]
    BY <1>4, <2>1
  <2>4. i > 1 => d2[w[i - 1]] = d[q[i - 1]]
    BY <1>4, <2>2
  <2> QED BY <1>5, <2>1, <2>3, <2>4
<1>7. CASE i = k
  <2>1. w[i] = c /\ d2[c] = nap /\ s2[c] = rest
    BY <1>2, <1>4, <1>7
  <2>2. CASE i = 1
    BY <1>7, <1>0, <2>1, <2>2, Differences, NumberAssumption DEF Minus
  <2>3. CASE i > 1
    <3>1. i - 1 \in 1 .. n /\ w[i - 1] = q[i - 1] /\ nap >= d[q[i - 1]]
      <4>1. n \in Nat
        BY <1>1 DEF n
      <4>2. i - 1 \in 1 .. n /\ i - 1 \in 1 .. n + 1 /\ i - 1 < k /\ i - 1 \in 1 .. k - 1
        BY <4>1, <1>7, <2>3
      <4>3. w[i - 1] = q[i - 1]
        BY <1>2, <4>2
      <4> QED BY <4>2, <4>3
    <3>2. d2[w[i - 1]] = d[q[i - 1]] /\ rest = Minus(nap, d[q[i - 1]])
      BY <1>4, <1>7, <1>0, <2>3, <3>1
    <3>3. d[q[i - 1]] \in Int /\ nap \in Int
      BY <1>5, <3>1, NumberAssumption
    <3> QED BY <2>1, <2>3, <3>1, <3>2, <3>3
  <2> QED BY <2>2, <2>3
<1>8. CASE i = k + 1
  <2>1. k \in 1 .. n /\ w[i] = q[k] /\ w[i - 1] = c /\ i > 1 /\ i # 1
    <3>1. k \in 1 .. n /\ i > k /\ i - 1 = k /\ i > 1
      BY <1>1, <1>8
    <3> QED BY <1>2, <3>1
  <2>2. d2[w[i]] = d[q[k]] /\ d2[w[i - 1]] = nap /\ nap < d[q[k]]
        /\ d[q[k]] \in 0 .. Forever /\ s2[w[i]] = Minus(s[q[k]], rest)
    BY <1>4, <1>5, <2>1 DEF n
  <2>3. Forever \in Nat
    BY NumberAssumption
  <2>4. CASE k = 1
    <3>1. s[q[k]] = d[q[k]] /\ rest = Minus(nap, 0)
      BY <1>5, <1>0, <2>1, <2>4
    <3>2. rest = nap
      BY <3>1, <2>3 DEF Minus
    <3> QED BY <2>1, <2>2, <2>3, <3>1, <3>2
  <2>5. CASE k > 1
    <3>1. k - 1 \in 1 .. n /\ nap >= d[q[k - 1]] /\ d[q[k - 1]] \in 0 .. Forever
          /\ s[q[k]] = Minus(d[q[k]], d[q[k - 1]]) /\ rest = Minus(nap, d[q[k - 1]])
      <4>1. k - 1 \in 1 .. n /\ k - 1 \in 1 .. k - 1 /\ k # 1
        BY <1>1, <2>1, <2>5
      <4>2. nap >= d[q[k - 1]] /\ d[q[k - 1]] \in 0 .. Forever
        BY <1>5, <4>1
      <4> QED BY <1>5, <1>0, <2>1, <2>5, <4>1, <4>2
    <3>2. d[q[k - 1]] \in 0 .. Forever - 1 /\ d[q[k - 1]] <= nap /\ nap <= d[q[k]]
      <4>1. nap \in Int /\ d[q[k]] \in Int /\ d[q[k]] <= Forever /\ nap < d[q[k]]
        BY <2>2, <2>3
      <4>2. d[q[k - 1]] \in Int /\ d[q[k - 1]] >= 0 /\ d[q[k - 1]] <= nap
        BY <2>3, <3>1
      <4> PICK x, y, v : x = d[q[k - 1]] /\ y = d[q[k]] /\ v = nap
        OBVIOUS
      <4>3. v \in Int /\ y \in Int /\ y <= Forever /\ v < y
        BY <4>1
      <4>4. x \in Int /\ x >= 0 /\ x <= v
        BY <4>2
      <4>5. x \in 0 .. Forever - 1 /\ x <= v /\ v <= y
        BY ONLY <2>3, <4>3, <4>4, SMT
      <4> QED BY <4>5
    <3>3. Minus(s[q[k]], rest) = Minus(d[q[k]], nap)
      <4> PICK x, y : x = d[q[k - 1]] /\ y = d[q[k]]
        OBVIOUS
      <4>1. x \in 0 .. Forever - 1 /\ y \in 0 .. Forever /\ x <= nap /\ nap <= y
        BY <2>2, <3>2
      <4>2. Minus(Minus(y, x), Minus(nap, x)) = Minus(y, nap)
        BY <4>1, DifferencesShift
      <4> QED BY <3>1, <4>2
    <3> QED BY <2>1, <2>2, <2>3, <3>3
  <2> QED BY <1>1, <2>1, <2>4, <2>5
<1>9. CASE i > k + 1
  <2>1. n \in Nat /\ k \in 1 .. n + 1 /\ i \in 1 .. n + 1
    BY <1>1 DEF n
  <2>2. /\ i - 1 \in 1 .. n /\ i - 1 # k /\ i - 1 > 1 /\ i - 2 \in 1 .. n /\ (i - 1) - 1 = i - 2
        /\ i - 1 \in 1 .. n + 1 /\ i - 1 > k /\ i > k /\ i # 1
    BY <1>9, <2>1
  <2>3. w[i] = q[i - 1] /\ w[i - 1] = q[i - 2]
    BY <1>2, <2>1, <2>2
  <2>4. d2[w[i]] = d[q[i - 1]] /\ s2[w[i]] = s[q[i - 1]] /\ d2[w[i - 1]] = d[q[i - 2]]
    BY <1>4, <2>2, <2>3
  <2>5. /\ d[q[i - 1]] \in 0 .. Forever /\ d[q[i - 2]] <= d[q[i - 1]]
        /\ s[q[i - 1]] = Minus(d[q[i - 1]], d[q[i - 2]])
    BY <1>5, <2>2
  <2> QED BY <2>2, <2>4, <2>5
<1> QED BY <1>1, <1>6, <1>7, <1>8, <1>9

(* A thread taken off, the next one made relative to the one before it, as *)
(* _PR_FixSleepQ does.                                                     *)
LEMMA RelativeRemove ==
    ASSUME NEW q \in Seq(Thread), IsTidy(q), NEW s, NEW d, Relative(q, s, d),
           NEW t \in ToSet(q), NEW s2,
           \A u \in ToSet(q) : s2[u] = IF u \in Followers(q, t) THEN Plus(s[u], s[t]) ELSE s[u]
    PROVE  Relative(Without(q, t), s2, d)
<1> DEFINE n == Len(q)
           w == Without(q, t)
<1>1. DOMAIN q = 1 .. n /\ n \in Nat /\ \A i \in 1 .. n : q[i] \in Thread /\ q[i] \in ToSet(q)
  BY LenProperties, ElementOfSeq DEF ToSet
<1>2. PICK k \in 1 .. n : q[k] = t
  BY <1>1 DEF ToSet
<1>3. w \in Seq(Thread) /\ Len(w) = n - 1 /\ \A i \in 1 .. n - 1 : w[i] = IF i < k THEN q[i] ELSE q[i + 1]
  BY <1>2, WithoutIndexes
<1>4. DOMAIN w = 1 .. n - 1
  BY <1>3, LenProperties
<1>5. \A i \in 1 .. n : q[i] \in Followers(q, t) <=> i = k + 1
  <2>1. \A i, j \in 1 .. n : q[i] = q[j] => i = j
    BY <1>1 DEF IsTidy, IsInjective
  <2>2. ASSUME NEW i \in 1 .. n, q[i] \in Followers(q, t)
        PROVE  i = k + 1
    <3>1. PICK j \in 1 .. n : j < n /\ q[j] = t /\ q[i] = q[j + 1]
      BY <1>1, <2>2 DEF Followers
    <3> QED BY <1>1, <1>2, <2>1, <3>1
  <2>3. ASSUME NEW i \in 1 .. n, i = k + 1
        PROVE  q[i] \in Followers(q, t)
    <3>1. k \in {j \in DOMAIN q : j < Len(q) /\ q[j] = t}
      BY <1>1, <1>2, <2>3
    <3> QED BY <2>3, <3>1 DEF Followers
  <2> QED BY <2>2, <2>3
<1>6. /\ \A i \in 1 .. n : i # k + 1 => s2[q[i]] = s[q[i]]
      /\ k + 1 \in 1 .. n => s2[q[k + 1]] = Plus(s[q[k + 1]], s[q[k]])
  BY <1>1, <1>2, <1>5
<1>7. \A i \in 1 .. n : /\ d[q[i]] \in 0 .. Forever
                        /\ i = 1 => s[q[i]] = d[q[i]]
                        /\ i > 1 => d[q[i - 1]] <= d[q[i]] /\ s[q[i]] = Minus(d[q[i]], d[q[i - 1]])
  BY <1>1 DEF Relative
<1> HIDE DEF n, w
<1> SUFFICES ASSUME NEW i \in 1 .. n - 1
             PROVE  /\ d[w[i]] \in 0 .. Forever
                    /\ i = 1 => s2[w[i]] = d[w[i]]
                    /\ i > 1 => d[w[i - 1]] <= d[w[i]] /\ s2[w[i]] = Minus(d[w[i]], d[w[i - 1]])
  BY <1>4 DEF w, Relative
<1>8. CASE i < k
  <2>1. i \in 1 .. n /\ i # k + 1 /\ w[i] = q[i]
    BY <1>1, <1>3, <1>8
  <2>2. i > 1 => i - 1 \in 1 .. n /\ w[i - 1] = q[i - 1]
    BY <1>1, <1>3, <1>8
  <2> QED BY <1>6, <1>7, <2>1, <2>2
<1>9. CASE i = k
  <2>1. k + 1 \in 1 .. n /\ k + 1 > 1 /\ (k + 1) - 1 = k /\ w[i] = q[k + 1]
    BY <1>1, <1>3, <1>9
  <2>2. /\ d[q[k]] \in 0 .. Forever /\ d[q[k + 1]] \in 0 .. Forever /\ d[q[k]] <= d[q[k + 1]]
        /\ s[q[k + 1]] = Minus(d[q[k + 1]], d[q[k]])
    BY <1>7, <2>1
  <2>3. s2[w[i]] = Plus(Minus(d[q[k + 1]], d[q[k]]), s[q[k]])
    BY <1>6, <2>1, <2>2
  <2>4. CASE k = 1
    <3>1. s[q[k]] = d[q[k]]
      BY <1>2, <1>7, <2>4
    <3>2. Plus(Minus(d[q[k + 1]], d[q[k]]), d[q[k]]) = d[q[k + 1]]
      <4>1. Forever \in Nat
        BY NumberAssumption
      <4> QED BY <2>2, <4>1 DEF Plus, Minus
    <3> QED BY <1>9, <2>1, <2>2, <2>3, <2>4, <3>1, <3>2
  <2>5. CASE k > 1
    <3>1. /\ k - 1 \in 1 .. n /\ d[q[k - 1]] \in 0 .. Forever /\ d[q[k - 1]] <= d[q[k]]
          /\ s[q[k]] = Minus(d[q[k]], d[q[k - 1]]) /\ w[i - 1] = q[k - 1]
      BY <1>1, <1>3, <1>7, <1>9, <2>1, <2>5
    <3>2. s2[w[i]] = Minus(d[q[k + 1]], d[q[k - 1]])
      BY <2>2, <2>3, <3>1, DifferencesAdd
    <3>3. d[q[k - 1]] <= d[q[k + 1]]
      BY <2>2, <3>1, NumberAssumption
    <3> QED BY <1>9, <2>1, <2>2, <2>5, <3>1, <3>2, <3>3
  <2> QED BY <1>1, <2>4, <2>5
<1>10. CASE i > k
  <2>1. /\ i + 1 \in 1 .. n /\ i + 1 # k + 1 /\ i + 1 > 1 /\ (i + 1) - 1 = i /\ i \in 1 .. n
        /\ i > 1 /\ i # 1 /\ w[i] = q[i + 1]
    BY <1>1, <1>3, <1>10
  <2>2. i - 1 \in 1 .. n - 1 /\ w[i - 1] = q[i]
    BY <1>1, <1>3, <1>10
  <2> QED BY <1>6, <1>7, <2>1, <2>2
<1> QED BY <1>1, <1>8, <1>9, <1>10

(* The clock advances by no more than the first thread still has.          *)
LEMMA RelativeShift ==
    ASSUME NEW q \in Seq(Thread), IsTidy(q), NEW s, NEW d, Relative(q, s, d), q # <<>>,
           NEW x \in 0 .. Forever - 1, x <= d[Head(q)],
           NEW s2, s2[Head(q)] = Minus(s[Head(q)], x),
           \A t \in ToSet(q) \ {Head(q)} : s2[t] = s[t],
           NEW d2, \A t \in ToSet(q) : d2[t] = Minus(d[t], x)
    PROVE  Relative(q, s2, d2)
<1>1. /\ DOMAIN q = 1 .. Len(q) /\ Len(q) \in Nat /\ Head(q) = q[1] /\ Len(q) > 0
      /\ \A i \in DOMAIN q : q[i] \in ToSet(q)
  BY LenProperties, EmptySeq, HeadTailProperties DEF ToSet
<1>2. \A t \in ToSet(q) : d[t] \in 0 .. Forever /\ d[Head(q)] <= d[t]
  BY RelativeOrdered
<1>3. \A i \in DOMAIN q : i # 1 => q[i] # q[1]
  BY <1>1 DEF IsTidy, IsInjective
<1>4. Forever \in Nat
  BY NumberAssumption
<1> SUFFICES ASSUME NEW i \in DOMAIN q
             PROVE  /\ d2[q[i]] \in 0 .. Forever
                    /\ i = 1 => s2[q[i]] = d2[q[i]]
                    /\ i > 1 => d2[q[i - 1]] <= d2[q[i]] /\ s2[q[i]] = Minus(d2[q[i]], d2[q[i - 1]])
  BY DEF Relative
<1>5. d[q[i]] \in 0 .. Forever /\ x <= d[q[i]] /\ d2[q[i]] = Minus(d[q[i]], x)
  BY <1>1, <1>2, <1>4
<1>6. d2[q[i]] \in 0 .. Forever
  BY <1>4, <1>5, DifferencesShift
<1>7. CASE i = 1
  <2>1. s[q[i]] = d[q[i]]
    BY <1>7 DEF Relative
  <2> QED BY <1>1, <1>5, <1>6, <1>7, <2>1
<1>8. CASE i > 1
  <2>1. i - 1 \in DOMAIN q
    BY <1>1, <1>8
  <2>2. d[q[i - 1]] \in 0 .. Forever /\ x <= d[q[i - 1]] /\ d2[q[i - 1]] = Minus(d[q[i - 1]], x)
    BY <1>1, <1>2, <1>4, <2>1
  <2>3. d[q[i - 1]] <= d[q[i]] /\ s[q[i]] = Minus(d[q[i]], d[q[i - 1]])
    BY <1>8 DEF Relative
  <2>4. s2[q[i]] = s[q[i]]
    BY <1>1, <1>3, <1>8
  <2>5. /\ Minus(Minus(d[q[i]], x), Minus(d[q[i - 1]], x)) = Minus(d[q[i]], d[q[i - 1]])
        /\ Minus(d[q[i - 1]], x) <= Minus(d[q[i]], x)
    BY <1>5, <2>2, <2>3, DifferencesShift
  <2> QED BY <1>5, <1>6, <1>8, <2>2, <2>3, <2>4, <2>5
<1> QED BY <1>1, <1>7, <1>8

(* The time a thread still has, counted from the last tick that was dealt  *)
(* with completely.                                                        *)
DueTimes == [t \in Thread |-> Plus(left[t], elapsed)]

(* What SleepQueueExact rests on, besides the invariant of the kernel: the *)
(* clock only advances in _PR_ClockTick.                                   *)
TimesInv ==
    /\ sleep \in [Thread -> Int] /\ left \in [Thread -> Int]
    /\ elapsed \in 0 .. Forever - 1
    /\ elapsed # 0 => at = "tick" \/ (at = "monNotify" /\ call.ret = "tick")
    /\ \A t \in ToSet(queue[SleepQ]) : left[t] # Forever => left[t] + elapsed < Forever
    /\ call.nap \in 0 .. Forever
    /\ Relative(queue[SleepQ], sleep, DueTimes)

(* The sleep queue as a list.                                              *)
LEMMA SleepList ==
    ASSUME IInv
    PROVE  /\ queue[SleepQ] \in Seq(Thread) /\ IsTidy(queue[SleepQ])
           /\ \A t \in Thread : t \in ToSet(queue[SleepQ]) <=> state[t] \in {"SLEEPING", "COND_WAIT"}
           /\ \A t \in ToSet(queue[SleepQ]) : t \in Thread
           /\ \A t \in Thread : t \in onSleepQ <=> t \in ToSet(queue[SleepQ])
           /\ queue \in [QueueName -> Seq(Thread)] /\ SleepQ \in QueueName
<1>1. /\ queue \in [QueueName -> Seq(Thread)] /\ SleepQ \in QueueName /\ IsTidy(queue[SleepQ])
      /\ onSleepQ = ToSet(queue[SleepQ])
  BY QueueNames DEF IInv, KernelInv, TypeOK, QueuesMatchState
<1>2. \A t \in Thread : t \in onSleepQ <=> state[t] \in {"SLEEPING", "COND_WAIT"}
  BY ExactFacts
<1>3. onSleepQ \subseteq Thread
  BY DEF IInv, TypeOK
<1> QED BY <1>1, <1>2, <1>3

(* Taking a thread off a list it is not on changes nothing.                *)
LEMMA WithoutNothing ==
    ASSUME NEW S, NEW list \in Seq(S), NEW e, e \notin ToSet(list)
    PROVE  Without(list, e) = list
<1>1. ~ \E i \in 1 .. Len(list) : list[i] = e
  BY LenProperties DEF ToSet
<1> QED BY <1>1 DEF Without, RemoveFirst

(* A step that leaves the sleep queue and its times alone.                 *)
LEMMA TimesFrame ==
    ASSUME TimesInv, queue'[SleepQ] = queue[SleepQ], UNCHANGED <<sleep, left, elapsed>>,
           call'.nap \in 0 .. Forever,
           elapsed # 0 => at' = "tick" \/ (at' = "monNotify" /\ call'.ret = "tick")
    PROVE  TimesInv'
<1>1. DueTimes' = DueTimes
  BY DEF DueTimes
<1> QED BY <1>1 DEF TimesInv, Relative

(* Outside of _PR_ClockTick no time has passed.                            *)
LEMMA NoTimePasses ==
    ASSUME TimesInv, at # "tick", at # "monNotify"
    PROVE  elapsed = 0
  BY DEF TimesInv

(* A thread that is not asleep is moved between other queues.              *)
LEMMA OtherQueues ==
    ASSUME IInv, NEW t \in Thread, t \notin ToSet(queue[SleepQ]), NEW q, q # SleepQ
    PROVE  /\ Relink(queue, t, q)[SleepQ] = queue[SleepQ]
           /\ Unlink(queue, t)[SleepQ] = queue[SleepQ]
           /\ Link(queue, t, q)[SleepQ] = queue[SleepQ]
  BY SleepList, WithoutNothing DEF Relink, Unlink, Link

(* NoCall and calls without a time.                                        *)
LEMMA NoNap ==
    /\ 0 \in 0 .. Forever /\ Forever \in 0 .. Forever
    /\ NoCall.nap = 0 /\ \A m, how, n, ret : CallTo(m, how, 0, n, ret).nap = 0
  BY NumberAssumption DEF NoCall, CallTo

(* _PR_PutOnSleepQ puts the running thread where it belongs.               *)
LEMMA PutOnSleepQTimes ==
    ASSUME IInv, TimesInv, at \notin {"schedule", "tick", "monNotify"},
           NEW nap \in 0 .. Forever, NEW st, PutOnSleepQ(nap, st),
           elapsed' = elapsed, call'.nap \in 0 .. Forever
    PROVE  TimesInv'
<1> DEFINE q == queue[SleepQ]
<1>1. elapsed = 0 /\ Forever \in Nat
  BY NoTimePasses, NumberAssumption
<1>2. /\ q \in Seq(Thread) /\ IsTidy(q) /\ current \in Thread /\ current \notin ToSet(q)
      /\ \A t \in ToSet(q) : t \in Thread
  <2>1. current \in Thread /\ state[current] = "RUNNING"
    BY ExactFacts
  <2> QED BY <2>1, SleepList
<1>3. PICK i \in 1 .. Len(q) + 1 :
        /\ IsSlot(i, nap)
        /\ queue' = [queue EXCEPT ![SleepQ] = InsertBefore(@, i, current)]
        /\ LET rest == Minus(nap, Due[i - 1]) IN
           sleep' = [t \in Thread |->
                       IF t = current THEN rest
                       ELSE IF i <= Len(q) /\ t = q[i] THEN Minus(sleep[t], rest) ELSE sleep[t]]
  BY DEF PutOnSleepQ
<1>4. left' = [left EXCEPT ![current] = nap] /\ left' \in [Thread -> Int]
  <2>1. left' = [left EXCEPT ![current] = nap]
    BY DEF PutOnSleepQ
  <2>2. left \in [Thread -> Int] /\ nap \in Int
    BY <1>1 DEF TimesInv
  <2> QED BY <2>1, <2>2
<1>5. Relative(q, sleep, DueTimes)
  BY DEF TimesInv
<1>6. DOMAIN q = 1 .. Len(q) /\ Len(q) \in Nat
  BY <1>2, LenProperties
<1>7. Due[0] = 0 /\ \A j \in 1 .. Len(q) : Due[j] = DueTimes[q[j]]
  BY <1>2, <1>5, <1>6, DueIs
<1>8. /\ \A j \in 1 .. i - 1 : nap >= DueTimes[q[j]]
      /\ i <= Len(q) => nap < DueTimes[q[i]]
  <2>1. /\ \A j \in 1 .. i - 1 : j \in 1 .. Len(q)
        /\ i <= Len(q) => i \in 1 .. Len(q)
    BY <1>6
  <2> QED BY <1>3, <1>7, <2>1 DEF IsSlot
<1>9. PICK rest : rest = Minus(nap, Due[i - 1])
  OBVIOUS
<1>10. rest = IF i = 1 THEN Minus(nap, 0) ELSE Minus(nap, DueTimes[q[i - 1]])
  <2>1. i = 1 => i - 1 = 0
    OBVIOUS
  <2>2. i # 1 => i - 1 \in 1 .. Len(q)
    BY <1>6
  <2> QED BY <1>7, <1>9, <2>1, <2>2
<1>11. sleep' = [t \in Thread |->
                   IF t = current THEN rest
                   ELSE IF i <= Len(q) /\ t = q[i] THEN Minus(sleep[t], rest) ELSE sleep[t]]
  BY <1>3, <1>9
<1>12. DueTimes'[current] = nap /\ \A t \in ToSet(q) : DueTimes'[t] = DueTimes[t]
  <2>1. \A t \in Thread : DueTimes'[t] = Plus(left'[t], elapsed') /\ DueTimes[t] = Plus(left[t], elapsed)
    BY DEF DueTimes
  <2>2. \A t \in Thread : t # current => left'[t] = left[t]
    BY <1>2, <1>4 DEF TimesInv
  <2>3. left'[current] = nap
    BY <1>2, <1>4 DEF TimesInv
  <2>4. Plus(nap, 0) = nap
    BY <1>1 DEF Plus
  <2> QED BY <1>1, <1>2, <2>1, <2>2, <2>3, <2>4
<1>13. sleep \in [Thread -> Int]
  BY DEF TimesInv
<1>14. queue'[SleepQ] = InsertBefore(q, i, current)
  BY <1>3, SleepList
<1>15. Relative(queue'[SleepQ], sleep', DueTimes')
  <2>1. i \in 1 .. Len(q) + 1
    OBVIOUS
  <2> HIDE DEF q
  <2>2. PICK s, s2, d, d2 : s = sleep /\ s2 = sleep' /\ d = DueTimes /\ d2 = DueTimes'
    OBVIOUS
  <2>3. PICK c : c = current
    OBVIOUS
  <2>4. Relative(InsertBefore(q, i, c), s2, d2)
    <3>1. q \in Seq(Thread) /\ IsTidy(q) /\ c \in Thread /\ c \notin ToSet(q)
      BY <1>2, <2>3
    <3>2. s \in [Thread -> Int] /\ Relative(q, s, d)
      BY <1>5, <1>13, <2>2
    <3>3. (\A j \in 1 .. i - 1 : nap >= d[q[j]]) /\ (i <= Len(q) => nap < d[q[i]])
      BY <1>8, <2>2
    <3>4. rest = RestOf(d, q, i, nap)
      BY <1>10, <2>2 DEF RestOf
    <3>5. s2 = Inserted(s, q, i, c, rest)
      BY <1>11, <2>2, <2>3 DEF Inserted
    <3>6. d2[c] = nap /\ \A t \in ToSet(q) : d2[t] = d[t]
      BY <1>12, <2>2, <2>3
    <3> QED BY <2>1, <3>1, <3>2, <3>3, <3>4, <3>5, <3>6, RelativeInsert
  <2> QED BY <2>2, <2>3, <2>4, <1>14
<1>16. sleep' \in [Thread -> Int]
  <2>1. rest \in Int
    <3>1. i # 1 => DueTimes[q[i - 1]] \in 0 .. Forever
      BY <1>5, <1>6 DEF Relative
    <3> QED BY <1>1, <1>10, <3>1 DEF Minus
  <2>2. \A t \in Thread : Minus(sleep[t], rest) \in Int
    BY <1>1, <1>13, <2>1 DEF Minus
  <2> QED BY <1>11, <1>13, <2>1, <2>2
<1>17. \A t \in ToSet(queue'[SleepQ]) : left'[t] # Forever => left'[t] + elapsed' < Forever
  <2>1. ToSet(queue'[SleepQ]) = ToSet(q) \cup {current}
    BY <1>2, <1>14, InsertLemma
  <2>2. left'[current] = nap /\ \A t \in ToSet(q) : left'[t] = left[t] /\ left[t] \in Int
    BY <1>2, <1>4 DEF TimesInv
  <2>3. \A t \in ToSet(q) : left[t] # Forever => left[t] < Forever
    BY <1>1, <2>2 DEF TimesInv
  <2> QED BY <1>1, <2>1, <2>2, <2>3
<1> QED BY <1>1, <1>4, <1>15, <1>16, <1>17 DEF TimesInv

(* A thread that is woken has no time left to sleep.                       *)
LEMMA NoTimeLeft ==
    ASSUME NEW f \in [Thread -> Int], NEW t \in Thread
    PROVE  [f EXCEPT ![t] = 0] \in [Thread -> Int]
<1>1. \A u \in Thread : [f EXCEPT ![t] = 0][u] \in Int
  OBVIOUS
<1> QED BY <1>1

(* A thread woken before its time, the one behind it fixed.                *)
LEMMA WakeTimes ==
    ASSUME IInv, TimesInv, NEW t \in Thread, t \in ToSet(queue[SleepQ]),
           queue'[SleepQ] = Without(queue[SleepQ], t),
           sleep' = FixSleepQ(t), left' = [left EXCEPT ![t] = 0], elapsed' = elapsed,
           call'.nap \in 0 .. Forever,
           elapsed # 0 => at' = "tick" \/ (at' = "monNotify" /\ call'.ret = "tick")
    PROVE  TimesInv'
<1> DEFINE q == queue[SleepQ]
<1>1. q \in Seq(Thread) /\ IsTidy(q) /\ \A u \in ToSet(q) : u \in Thread
  BY SleepList
<1>2. Relative(q, sleep, DueTimes) /\ sleep \in [Thread -> Int] /\ left \in [Thread -> Int]
  BY DEF TimesInv
<1>3. \A u : (\E p \in QueueName : u \in Followers(queue[p], t)) <=> u \in Followers(q, t)
  <2>1. \A p \in QueueName : \A u : u \in Followers(queue[p], t) => t \in ToSet(queue[p])
    BY DEF Followers, ToSet
  <2>2. \A p \in QueueName : t \in ToSet(queue[p]) => p = SleepQ
    <3>1. \A p \in QueueName : t \in ToSet(queue[p]) => Home(t) = p
      BY ExactFacts DEF Linked
    <3>2. SleepQ \in QueueName
      BY QueueNames
    <3> QED BY <3>1, <3>2
  <2> QED BY <2>1, <2>2, QueueNames
<1>4. \A u \in Thread : sleep'[u] = IF u \in Followers(q, t) THEN Plus(sleep[u], sleep[t]) ELSE sleep[u]
  BY <1>3 DEF FixSleepQ
<1>5. Relative(Without(q, t), sleep', DueTimes)
  <2>1. \A u \in ToSet(q) : sleep'[u] = IF u \in Followers(q, t) THEN Plus(sleep[u], sleep[t]) ELSE sleep[u]
    BY <1>1, <1>4
  <2> HIDE DEF q
  <2>2. PICK s, s2, d : s = sleep /\ s2 = sleep' /\ d = DueTimes
    OBVIOUS
  <2>3. t \in ToSet(q)
    BY DEF q
  <2>4. Relative(Without(q, t), s2, d)
    BY <1>1, <1>2, <2>1, <2>2, <2>3, RelativeRemove
  <2> QED BY <2>2, <2>4
<1>6. \A u \in Thread \ {t} : DueTimes'[u] = DueTimes[u]
  BY <1>2 DEF DueTimes
<1>7. Without(q, t) \in Seq(Thread) /\ ToSet(Without(q, t)) = ToSet(q) \ {t}
  BY <1>1, WithoutLemma
<1>8. Relative(queue'[SleepQ], sleep', DueTimes')
  <2>1. PICK s2, d, d2 : s2 = sleep' /\ d = DueTimes /\ d2 = DueTimes'
    OBVIOUS
  <2>2. \A u \in ToSet(Without(q, t)) : s2[u] = s2[u] /\ d2[u] = d[u]
    BY <1>1, <1>6, <1>7, <2>1
  <2>3. Relative(Without(q, t), s2, d)
    BY <1>5, <2>1
  <2> HIDE DEF q
  <2>4. Relative(Without(q, t), s2, d2)
    BY <1>7, <2>2, <2>3, RelativeFrame
  <2> QED BY <2>1, <2>4 DEF q
<1>9. sleep' \in [Thread -> Int]
  <2>1. \A u \in Thread : Plus(sleep[u], sleep[t]) \in Int
    BY <1>2, NumberAssumption DEF Plus
  <2>2. sleep' = [u \in Thread |-> IF \E p \in QueueName : u \in Followers(queue[p], t)
                                   THEN Plus(sleep[u], sleep[t]) ELSE sleep[u]]
    BY DEF FixSleepQ
  <2> QED BY <1>2, <2>1, <2>2
<1>10. /\ left' \in [Thread -> Int]
       /\ \A u \in ToSet(queue'[SleepQ]) : left'[u] # Forever => left'[u] + elapsed' < Forever
  <2>1. 0 + elapsed < Forever /\ elapsed \in Int
    BY NumberAssumption DEF TimesInv
  <2>2. \A u \in Thread : left'[u] = IF u = t THEN 0 ELSE left[u]
    BY <1>2
  <2>3. \A u \in ToSet(q) : left[u] # Forever => left[u] + elapsed < Forever
    BY DEF TimesInv
  <2>4. ToSet(queue'[SleepQ]) = ToSet(q) \ {t}
    BY <1>7
  <2> QED BY <1>1, <1>2, <2>1, <2>2, <2>3, <2>4
<1> QED BY <1>8, <1>9, <1>10 DEF TimesInv

(* What the times amount to when some time has passed.                     *)
LEMMA DueLater ==
    ASSUME TimesInv, NEW t \in Thread, t \in ToSet(queue[SleepQ]),
           NEW x \in 0 .. Forever - 1, x <= elapsed
    PROVE  Plus(left[t], elapsed - x) = Minus(DueTimes[t], x)
<1>1. /\ left[t] \in Int /\ elapsed \in 0 .. Forever - 1 /\ Forever \in Nat
      /\ left[t] # Forever => left[t] + elapsed < Forever
  BY NumberAssumption DEF TimesInv
<1>2. DueTimes[t] = Plus(left[t], elapsed)
  BY DEF DueTimes
<1> QED BY <1>1, <1>2 DEF Plus, Minus

(* The first sleeper woken because its time has come.                      *)
LEMMA TickWakeTimes ==
    ASSUME IInv, TimesInv, at = "tick", TickExpired, NEW t, t = Head(queue[SleepQ]),
           queue'[SleepQ] = Without(queue[SleepQ], t),
           sleep' = sleep, left' = [left EXCEPT ![t] = 0], elapsed' = Minus(elapsed, sleep[t]),
           call'.nap \in 0 .. Forever,
           at' = "tick" \/ (at' = "monNotify" /\ call'.ret = "tick")
    PROVE  TimesInv'
<1> DEFINE q == queue[SleepQ]
           x == sleep[t]
           s1 == [sleep EXCEPT ![t] = Minus(sleep[t], x)]
           d1 == [u \in Thread |-> Minus(DueTimes[u], x)]
<1>1. /\ q \in Seq(Thread) /\ IsTidy(q) /\ q # <<>> /\ t = Head(q)
      /\ \A u \in ToSet(q) : u \in Thread
  BY SleepList DEF TickExpired
<1>2. t \in ToSet(q) /\ t \in Thread
  BY <1>1, HeadLemma
<1>3. /\ Relative(q, sleep, DueTimes) /\ sleep \in [Thread -> Int] /\ left \in [Thread -> Int]
      /\ elapsed \in 0 .. Forever - 1 /\ Forever \in Nat
  BY NumberAssumption DEF TimesInv
<1>4. sleep[t] = DueTimes[t] /\ DueTimes[t] \in 0 .. Forever /\ \A u \in ToSet(q) : DueTimes[u] \in 0 .. Forever
  <2>1. PICK d : d = DueTimes
    OBVIOUS
  <2> HIDE DEF q
  <2> QED BY <1>1, <1>3, <2>1, RelativeOrdered
<1>5. x \in 0 .. Forever - 1 /\ x <= elapsed /\ elapsed' = elapsed - x /\ x = DueTimes[t]
  BY <1>1, <1>3, <1>4 DEF TickExpired, Minus
<1>6. s1[t] = 0 /\ s1[t] = Minus(sleep[t], x) /\ \A u \in Thread \ {t} : s1[u] = sleep[u]
  BY <1>2, <1>3, <1>4, <1>5 DEF Minus
<1>7. Relative(q, s1, d1)
  <2>1. PICK s, d : s = sleep /\ d = DueTimes
    OBVIOUS
  <2>2. \A u \in ToSet(q) : d1[u] = Minus(d[u], x)
    BY <1>1, <2>1
  <2>3. s1[Head(q)] = Minus(s[Head(q)], x) /\ \A u \in ToSet(q) \ {Head(q)} : s1[u] = s[u]
    BY <1>1, <1>6, <2>1
  <2>4. Relative(q, s, d) /\ x <= d[Head(q)]
    BY <1>1, <1>3, <1>5, <2>1
  <2> HIDE DEF q, s1, d1, x
  <2> QED BY <1>1, <1>5, <2>2, <2>3, <2>4, RelativeShift
<1>8. Relative(Without(q, t), s1, d1)
  <2>1. \A u \in ToSet(q) : s1[u] = IF u \in Followers(q, t) THEN Plus(s1[u], s1[t]) ELSE s1[u]
    <3>1. \A u \in ToSet(q) : s1[u] \in Int
      BY <1>1, <1>3, <1>6
    <3> QED BY <1>3, <1>6, <3>1 DEF Plus
  <2> HIDE DEF q, s1, d1
  <2> QED BY <1>1, <1>2, <1>7, <2>1, RelativeRemove
<1>9. \A u \in ToSet(q) \ {t} : DueTimes'[u] = d1[u]
  <2> SUFFICES ASSUME NEW u \in ToSet(q) \ {t}
               PROVE  DueTimes'[u] = d1[u]
    OBVIOUS
  <2> u \in Thread
    BY <1>1
  <2>1. left'[u] = left[u]
    BY <1>3
  <2>2. DueTimes'[u] = Plus(left'[u], elapsed')
    BY DEF DueTimes
  <2>3. Plus(left[u], elapsed - x) = Minus(DueTimes[u], x)
    BY <1>5, DueLater
  <2> QED BY <1>5, <2>1, <2>2, <2>3
<1>10. Without(q, t) \in Seq(Thread) /\ ToSet(Without(q, t)) = ToSet(q) \ {t}
  BY <1>1, WithoutLemma
<1>11. Relative(queue'[SleepQ], sleep', DueTimes')
  <2>1. PICK s2, d2 : s2 = sleep' /\ d2 = DueTimes'
    OBVIOUS
  <2>2. \A u \in ToSet(Without(q, t)) : s2[u] = s1[u] /\ d2[u] = d1[u]
    BY <1>1, <1>6, <1>9, <1>10, <2>1
  <2> HIDE DEF q, s1, d1
  <2>3. Relative(Without(q, t), s2, d2)
    BY <1>8, <1>10, <2>2, RelativeFrame
  <2> QED BY <2>1, <2>3 DEF q
<1>12. /\ left' \in [Thread -> Int]
       /\ \A u \in ToSet(queue'[SleepQ]) : left'[u] # Forever => left'[u] + elapsed' < Forever
  <2>1. 0 + elapsed' < Forever /\ elapsed' \in Int /\ elapsed' <= elapsed
    BY <1>3, <1>5
  <2>2. \A u \in Thread : left'[u] = IF u = t THEN 0 ELSE left[u]
    BY <1>2, <1>3
  <2>3. \A u \in ToSet(q) : left[u] # Forever => left[u] + elapsed < Forever
    BY DEF TimesInv
  <2>4. \A u \in ToSet(queue'[SleepQ]) : u \in ToSet(q) /\ u \in Thread
    BY <1>1, <1>10
  <2>5. left' \in [Thread -> Int]
    <3>1. PICK f \in [Thread -> Int] : f = left
      BY <1>3
    <3> QED BY <1>2, <3>1, NoTimeLeft
  <2> SUFFICES ASSUME NEW u \in ToSet(queue'[SleepQ]), left'[u] # Forever
               PROVE  left'[u] + elapsed' < Forever
    BY <2>5
  <2>6. u \in ToSet(q) /\ u \in Thread /\ left[u] \in Int
    BY <1>3, <2>4
  <2>7. u # t => left'[u] = left[u] /\ left[u] + elapsed < Forever
    BY <2>2, <2>3, <2>6
  <2>8. u = t => left'[u] = 0
    BY <2>2, <2>6
  <2> HIDE DEF x, s1, d1, q
  <2> QED BY <1>3, <2>1, <2>6, <2>7, <2>8
<1>13. elapsed' \in 0 .. Forever - 1
  BY <1>3, <1>5
<1> QED BY <1>3, <1>11, <1>12, <1>13 DEF TimesInv

(* The end of the tick: the first sleeper left keeps the rest.             *)
LEMMA TickDoneTimes ==
    ASSUME IInv, TimesInv, TickDone
    PROVE  TimesInv'
<1> DEFINE q == queue[SleepQ]
           d1 == [u \in Thread |-> Minus(DueTimes[u], elapsed)]
<1>1. /\ q \in Seq(Thread) /\ IsTidy(q)
      /\ \A u \in ToSet(q) : u \in Thread
  BY SleepList
<1>2. /\ Relative(q, sleep, DueTimes) /\ sleep \in [Thread -> Int] /\ left \in [Thread -> Int]
      /\ elapsed \in 0 .. Forever - 1 /\ Forever \in Nat
  BY NumberAssumption DEF TimesInv
<1>3. /\ queue' = queue /\ left' = left /\ elapsed' = 0 /\ at = "tick" /\ call' = NoCall
      /\ sleep' = IF q = <<>> THEN sleep ELSE [sleep EXCEPT ![Head(q)] = Minus(@, elapsed)]
  BY DEF TickDone, schedVars, history
<1>4. \A u \in ToSet(q) : DueTimes'[u] = d1[u]
  <2> SUFFICES ASSUME NEW u \in ToSet(q)
               PROVE  DueTimes'[u] = d1[u]
    OBVIOUS
  <2> u \in Thread
    BY <1>1
  <2>1. DueTimes'[u] = Plus(left[u], elapsed - elapsed)
    BY <1>2, <1>3 DEF DueTimes
  <2>2. Plus(left[u], elapsed - elapsed) = Minus(DueTimes[u], elapsed)
    BY <1>2, DueLater
  <2> QED BY <2>1, <2>2
<1>5. Relative(q, sleep', DueTimes')
  <2>1. CASE q = <<>>
    <3>1. DOMAIN q = {}
      BY <2>1
    <3> QED BY <3>1 DEF Relative
  <2>2. CASE q # <<>>
    <3>1. Head(q) \in Thread /\ Head(q) \in ToSet(q)
      BY <1>1, <2>2, HeadLemma
    <3>2. PICK s, s2, d, d2 : s = sleep /\ s2 = sleep' /\ d = DueTimes /\ d2 = DueTimes'
      OBVIOUS
    <3>3. /\ s2[Head(q)] = Minus(s[Head(q)], elapsed)
          /\ \A u \in ToSet(q) \ {Head(q)} : s2[u] = s[u]
      BY <1>1, <1>2, <1>3, <2>2, <3>1, <3>2
    <3>4. \A u \in ToSet(q) : d2[u] = Minus(d[u], elapsed)
      BY <1>1, <1>4, <3>2
    <3>5. s[Head(q)] = d[Head(q)] /\ d[Head(q)] \in 0 .. Forever
      <4> HIDE DEF q
      <4> QED BY <1>1, <1>2, <2>2, <3>2, RelativeOrdered
    <3>6. elapsed <= d[Head(q)]
      BY <1>2, <1>3, <2>2, <3>2, <3>5 DEF TickDone, TickExpired
    <3>7. Relative(q, s2, d2)
      <4>1. Relative(q, s, d)
        BY <1>2, <3>2
      <4> HIDE DEF q, d1
      <4> QED BY <1>1, <1>2, <2>2, <3>3, <3>4, <3>6, <4>1, RelativeShift
    <3> QED BY <3>2, <3>7
  <2> QED BY <2>1, <2>2
<1>6. sleep' \in [Thread -> Int]
  <2>1. q # <<>> => Head(q) \in Thread
    BY <1>1, HeadLemma
  <2>2. \A u \in Thread : Minus(sleep[u], elapsed) \in Int
    BY <1>2 DEF Minus
  <2> QED BY <1>2, <1>3, <2>1, <2>2
<1>7. \A u \in ToSet(queue'[SleepQ]) : left'[u] # Forever => left'[u] + elapsed' < Forever
  <2>1. \A u \in ToSet(q) : left[u] \in Int /\ (left[u] # Forever => left[u] + elapsed < Forever)
    BY <1>1, <1>2 DEF TimesInv
  <2> QED BY <1>2, <1>3, <2>1
<1>8. call'.nap \in 0 .. Forever /\ elapsed' \in 0 .. Forever - 1
  BY <1>2, <1>3, NoNap
<1> QED BY <1>2, <1>3, <1>5, <1>6, <1>7, <1>8 DEF TimesInv

(* The clock advances, or is found to have been set back.                  *)
LEMMA ClockTickTimes ==
    ASSUME IInv, TimesInv, at \notin {"tick", "monNotify"}, NEW ret, ClockTick(ret)
    PROVE  TimesInv'
<1> DEFINE q == queue[SleepQ]
<1>1. /\ q \in Seq(Thread) /\ IsTidy(q)
      /\ \A u \in ToSet(q) : u \in Thread
  BY SleepList
<1>2. /\ Relative(q, sleep, DueTimes) /\ sleep \in [Thread -> Int] /\ left \in [Thread -> Int]
      /\ elapsed = 0 /\ Forever \in Nat /\ Forever > 0
  BY NoTimePasses, NumberAssumption, TimeAssumption DEF TimesInv
<1>3. PICK e \in Elapsed \cup {SetBack} :
        /\ elapsed' = e
        /\ left' = [t \in Thread |-> IF t \in ToSet(q) THEN Minus(left[t], e) ELSE left[t]]
  BY DEF ClockTick
<1>4. e \in 0 .. Forever - 1
  <2>1. CASE e \in Elapsed
    BY <2>1, <1>2, NumberAssumption, TimeAssumption
  <2>2. Back \in 0 .. Forever - 1
    BY <1>2, NumberAssumption, TimeAssumption
  <2>3. ASSUME q # <<>>, sleep[Head(q)] < Back
        PROVE  sleep[Head(q)] \in 0 .. Forever - 1
    <3>1. PICK d : d = DueTimes
      OBVIOUS
    <3>2. sleep[Head(q)] \in 0 .. Forever
      <4> HIDE DEF q
      <4> QED BY <1>1, <1>2, <2>3, <3>1, RelativeOrdered
    <3> QED BY <1>2, <2>2, <2>3, <3>2
  <2>4. CASE e = SetBack
    BY <2>2, <2>3, <2>4 DEF SetBack
  <2> QED BY <2>1, <2>4
<1>5. queue' = queue /\ sleep' = sleep /\ call' = call /\ at' = "tick"
  BY DEF ClockTick, schedVars, threadVars
<1>6. \A u \in ToSet(q) : DueTimes'[u] = DueTimes[u]
  <2> SUFFICES ASSUME NEW u \in ToSet(q)
               PROVE  DueTimes'[u] = DueTimes[u]
    OBVIOUS
  <2>1. u \in Thread /\ left[u] \in Int /\ (left[u] # Forever => left[u] < Forever)
    BY <1>1, <1>2 DEF TimesInv
  <2>2. DueTimes[u] = Plus(left[u], 0) /\ DueTimes'[u] = Plus(Minus(left[u], e), e)
    BY <1>2, <1>3, <2>1 DEF DueTimes
  <2> QED BY <1>2, <1>4, <2>1, <2>2 DEF Plus, Minus
<1>7. Relative(queue'[SleepQ], sleep', DueTimes')
  <2>1. PICK s, d, d2 : s = sleep /\ d = DueTimes /\ d2 = DueTimes'
    OBVIOUS
  <2>2. Relative(q, s, d) /\ \A u \in ToSet(q) : s[u] = s[u] /\ d2[u] = d[u]
    BY <1>2, <1>6, <2>1
  <2> HIDE DEF q
  <2>3. Relative(q, s, d2)
    BY <1>1, <2>2, RelativeFrame
  <2> QED BY <1>5, <2>1, <2>3 DEF q
<1>8. /\ left' \in [Thread -> Int]
      /\ \A u \in ToSet(queue'[SleepQ]) : left'[u] # Forever => left'[u] + elapsed' < Forever
  <2>1. \A u \in ToSet(q) : left[u] \in Int /\ (left[u] # Forever => left[u] < Forever)
    BY <1>1, <1>2 DEF TimesInv
  <2>2. \A u \in Thread : Minus(left[u], e) \in Int
    BY <1>2, <1>4 DEF Minus
  <2>3. left' \in [Thread -> Int] /\ \A u \in ToSet(q) : left'[u] = Minus(left[u], e)
    BY <1>1, <1>2, <1>3, <2>2
  <2> HIDE DEF q
  <2>4. \A u \in ToSet(q) : left'[u] # Forever => left'[u] + e < Forever
    BY <1>2, <1>4, <2>1, <2>3 DEF Minus
  <2> QED BY <1>3, <1>5, <2>3, <2>4 DEF q
<1> QED BY <1>2, <1>3, <1>4, <1>5, <1>7, <1>8 DEF TimesInv

(* The calls of clients: PR_Sleep is the only one that changes the times.  *)
LEMMA ClientTimes ==
    ASSUME IInv, TimesInv, ClientCall
    PROVE  TimesInv'
<1> USE DEF CallTo, NoCall
<1>1. /\ TypeOK /\ current \in Thread /\ at = "user" /\ state[current] = "RUNNING"
      /\ current \notin ToSet(queue[SleepQ]) /\ elapsed = 0
  <2>1. at = "user"
    BY DEF ClientCall, EnterMonitor, ExitMonitor, Wait, Notify, Sleep, Exit, Start, Suspend,
       Resume, SetThreadPriority, Client
  <2>2. TypeOK /\ current \in Thread /\ state[current] = "RUNNING"
    BY ExactFacts, <2>1 DEF IInv
  <2> QED BY <2>1, <2>2, SleepList, NoTimePasses
<1>2. 0 \in 0 .. Forever /\ Forever \in 0 .. Forever /\ call.nap \in 0 .. Forever
      /\ SleepTime \subseteq 0 .. Forever
  BY NoNap, NumberAssumption, TimeAssumption DEF TimesInv
<1>3. ASSUME UNCHANGED <<sleep, left, elapsed>>, queue'[SleepQ] = queue[SleepQ],
             call'.nap \in 0 .. Forever
      PROVE  TimesInv'
  BY <1>1, <1>3, TimesFrame
<1>4. ASSUME NEW t \in Thread, t \notin ToSet(queue[SleepQ]), NEW q, q # SleepQ,
             queue' \in {Relink(queue, t, q), Link(queue, t, q), queue}
      PROVE  queue'[SleepQ] = queue[SleepQ]
  BY <1>4, OtherQueues
<1>5. ASSUME NEW m, EnterMonitor(m)
      PROVE  TimesInv'
  <2>1. UNCHANGED <<sleep, left, elapsed>> /\ call'.nap \in 0 .. Forever
    BY <1>2, <1>5 DEF EnterMonitor, ToIntsOn, tick, threadVars
  <2>2. queue' \in {Link(queue, current, MonitorQ), queue}
    BY <1>5 DEF EnterMonitor, Deschedule, schedVars
  <2> QED BY <1>1, <1>3, <1>4, <2>1, <2>2, QueueNames
<1>6. ASSUME NEW m, ExitMonitor(m)
      PROVE  TimesInv'
  <2>1. UNCHANGED <<sleep, left, elapsed, queue>> /\ call'.nap \in 0 .. Forever
    BY <1>2, <1>6 DEF ExitMonitor, ToIntsOn, tick, threadVars, schedVars
  <2> QED BY <1>3, <2>1
<1>7. ASSUME NEW m, NEW nap \in SleepTime \cup {Forever}, Wait(m, nap)
      PROVE  TimesInv'
  <2>1. UNCHANGED <<sleep, left, elapsed, queue>> /\ call'.nap \in 0 .. Forever
    BY <1>2, <1>7 DEF Wait, ToIntsOn, tick, threadVars, schedVars, history
  <2> QED BY <1>3, <2>1
<1>8. ASSUME NEW m, NEW how, Notify(m, how)
      PROVE  TimesInv'
  <2>1. UNCHANGED <<sleep, left, elapsed, queue>> /\ call'.nap \in 0 .. Forever
    BY <1>2, <1>8 DEF Notify, CondNotify, tick, threadVars, schedVars, history
  <2> QED BY <1>3, <2>1
<1>9. ASSUME NEW nap \in SleepTime, Sleep(nap)
      PROVE  TimesInv'
  <2>1. PutOnSleepQ(nap, "SLEEPING") /\ elapsed' = elapsed /\ call' = call /\ nap \in 0 .. Forever
    BY <1>2, <1>9 DEF Sleep, tick
  <2> QED BY <1>1, <1>2, <2>1, PutOnSleepQTimes
<1>10. CASE Exit
  <2>1. UNCHANGED <<sleep, left, elapsed, call>> /\ queue' = Link(queue, current, ZombieQ)
    BY <1>10 DEF Exit, Deschedule, tick, history
  <2> QED BY <1>1, <1>2, <1>3, <1>4, <2>1, QueueNames
<1>11. ASSUME NEW t \in Thread, Start(t)
       PROVE  TimesInv'
  <2>1. UNCHANGED <<sleep, left, elapsed>> /\ call'.nap \in 0 .. Forever
        /\ queue' = Relink(queue, t, priority[t]) /\ state[t] = "UNBORN"
    BY <1>2, <1>11 DEF Start, MakeRunnable, ToIntsOn, tick, history
  <2>2. priority[t] # SleepQ /\ t \notin ToSet(queue[SleepQ])
    BY <1>1, <2>1, SleepList, QueueNames DEF TypeOK
  <2> QED BY <1>3, <1>4, <2>1, <2>2
<1>12. ASSUME NEW t \in Thread, Suspend(t)
       PROVE  TimesInv'
  <2>1. UNCHANGED <<sleep, left, elapsed>> /\ call'.nap \in 0 .. Forever
    BY <1>2, <1>12 DEF Suspend, ToIntsOn, tick, history
  <2>2. \/ queue' = Link(queue, current, SuspendQ) \/ queue' = queue
        \/ state[t] = "RUNNABLE" /\ queue' = Relink(queue, t, SuspendQ)
    BY <1>12 DEF Suspend, Deschedule
  <2>3. state[t] = "RUNNABLE" => t \notin ToSet(queue[SleepQ])
    BY SleepList
  <2> QED BY <1>1, <1>3, <1>4, <2>1, <2>2, <2>3, QueueNames
<1>13. ASSUME NEW t \in Thread, Resume(t)
       PROVE  TimesInv'
  <2>1. UNCHANGED <<sleep, left, elapsed>> /\ call'.nap \in 0 .. Forever
    BY <1>2, <1>13 DEF Resume, HandOverIfIdle, ToIntsOn, tick, history
  <2>2. \/ queue' = queue
        \/ state[t] = "SUSPENDED" /\ queue' = Relink(queue, t, priority[t])
    BY <1>13 DEF Resume, MakeRunnable
  <2>3. priority[t] # SleepQ /\ (state[t] = "SUSPENDED" => t \notin ToSet(queue[SleepQ]))
    BY <1>1, SleepList, QueueNames DEF TypeOK
  <2> QED BY <1>3, <1>4, <2>1, <2>2, <2>3
<1>14. ASSUME NEW t \in Thread, NEW n \in -1 .. MaxPriority + 1, SetThreadPriority(t, Clamp(n))
       PROVE  TimesInv'
  <2>1. UNCHANGED <<sleep, left, elapsed>> /\ call'.nap \in 0 .. Forever
    BY <1>2, <1>14 DEF SetThreadPriority, ToIntsOn, tick, history
  <2>2. \/ queue' = queue
        \/ state[t] = "RUNNABLE" /\ queue' = Relink(queue, t, Clamp(n))
    BY <1>14 DEF SetThreadPriority
  <2>3. Clamp(n) \in Priority
    BY Clamps, NumberAssumption
  <2>4. Clamp(n) # SleepQ /\ (state[t] = "RUNNABLE" => t \notin ToSet(queue[SleepQ]))
    BY <2>3, SleepList, QueueNames
  <2> QED BY <1>3, <1>4, <2>1, <2>2, <2>4
<1> QED BY <1>5, <1>6, <1>7, <1>8, <1>9, <1>10, <1>11, <1>12, <1>13, <1>14 DEF ClientCall

(* A monitor is given to a thread that does not sleep.                     *)
LEMMA MonNotifyTimes ==
    ASSUME IInv, TimesInv, MonNotify
    PROVE  TimesInv'
<1>1. /\ UNCHANGED <<left, elapsed, call>> /\ at = "monNotify" /\ at' = call.ret
      /\ call.nap \in 0 .. Forever
  BY DEF MonNotify, history, tick, TimesInv
<1>2. call.mon \in Monitor /\ TypeOK
  BY <1>1 DEF IInv, KernelInv, CallOK
<1>3. UNCHANGED sleep /\ queue'[SleepQ] = queue[SleepQ]
  <2>1. CASE UNCHANGED <<threadVars, schedVars>>
    BY <2>1 DEF threadVars, schedVars
  <2>2. ASSUME NEW i \in DOMAIN lockQ[call.mon], IsBest(call.mon, i),
               GrantMonitor(call.mon, lockQ[call.mon][i])
        PROVE  UNCHANGED sleep /\ queue'[SleepQ] = queue[SleepQ]
    <3>1. PICK t : t = lockQ[call.mon][i]
      OBVIOUS
    <3>2. t \in ToSet(lockQ[call.mon])
      BY <2>2, <3>1 DEF ToSet
    <3>3. t \in Thread /\ state[t] = "MON_WAIT"
      BY <1>2, <3>2, WaitQueues, ExactInv
    <3>4. t \notin ToSet(queue[SleepQ]) /\ t \notin onSleepQ
      BY <3>3, SleepList
    <3>5. UNCHANGED sleep /\ queue' = Relink(queue, t, priority[t])
      BY <2>2, <3>1, <3>4 DEF GrantMonitor, MakeRunnable
    <3>6. priority[t] # SleepQ
      BY <1>2, <3>3, QueueNames DEF TypeOK
    <3> QED BY <3>3, <3>4, <3>5, <3>6, OtherQueues
  <2> QED BY <2>1, <2>2 DEF MonNotify
<1> QED BY <1>1, <1>3, TimesFrame DEF TimesInv

(* The sleeper in front, woken by the tick.                                *)
LEMMA TickTimes ==
    ASSUME IInv, TimesInv, TickWakeSleeper \/ TickWakeWaiter
    PROVE  TimesInv'
<1> DEFINE t == Head(queue[SleepQ])
<1> USE DEF CallTo, NoCall
<1>1. /\ at = "tick" /\ TickExpired /\ sleep' = sleep /\ left' = [left EXCEPT ![t] = 0]
      /\ elapsed' = Minus(elapsed, sleep[t])
  BY DEF TickWakeSleeper, TickWakeWaiter
<1>2. /\ queue[SleepQ] \in Seq(Thread) /\ queue[SleepQ] # <<>>
      /\ queue \in [QueueName -> Seq(Thread)] /\ SleepQ \in QueueName
  BY <1>1, SleepList DEF TickExpired
<1>3. t \in Thread
  BY <1>2, HeadLemma
<1>4. queue'[SleepQ] = Without(queue[SleepQ], t)
  <2>1. priority[t] # SleepQ /\ SuspendQ # SleepQ /\ MonitorQ # SleepQ
    BY <1>3, QueueNames DEF IInv, TypeOK
  <2>2. \E q : q # SleepQ /\ queue' = Relink(queue, t, q)
    BY <2>1 DEF TickWakeSleeper, TickWakeWaiter, MakeRunnable
  <2> QED BY <1>2, <2>2 DEF Relink
<1>5. /\ call'.nap \in 0 .. Forever
      /\ at' = "tick" \/ (at' = "monNotify" /\ call'.ret = "tick")
  <2>1. CASE TickWakeSleeper
    BY <1>1, <2>1 DEF TickWakeSleeper, TimesInv
  <2>2. CASE TickWakeWaiter
    <3>1. HandOverIfIdle(monitor[t], "tick")
      BY <2>2 DEF TickWakeWaiter
    <3> QED BY <3>1, NoNap DEF HandOverIfIdle
  <2> QED BY <2>1, <2>2
<1> HIDE DEF t
<1>6. PICK u : u = t
  OBVIOUS
<1> QED BY <1>1, <1>4, <1>5, <1>6, TickWakeTimes DEF t

(* The rest of the kernel.                                                 *)
LEMMA KernelTimes ==
    ASSUME IInv, TimesInv, Kernel \/ Yield \/ IdleLoop \/ Signal
    PROVE  TimesInv'
<1> USE DEF CallTo, NoCall
<1>1. /\ TypeOK /\ current \in Thread /\ at \in At /\ call.nap \in 0 .. Forever
      /\ 0 \in 0 .. Forever
  BY ExactFacts, NoNap DEF IInv, TypeOK, TimesInv
<1>2. at \notin {"tick", "monNotify"} => elapsed = 0
  BY NoTimePasses
<1>3. ASSUME UNCHANGED <<sleep, left, elapsed>>, queue'[SleepQ] = queue[SleepQ],
             call'.nap \in 0 .. Forever, at \notin {"tick", "monNotify"}
      PROVE  TimesInv'
  BY <1>2, <1>3, TimesFrame
<1>4. CASE CondNotifyLoop
  <2>1. at = "condNotify" /\ call' = call /\ UNCHANGED elapsed /\ call.mon \in Monitor
    BY <1>4 DEF CondNotifyLoop, tick, IInv, KernelInv, CallOK
  <2>2. CASE condQ[call.mon] # <<>> /\ NotifyOneThread(call.mon, Head(condQ[call.mon]))
    <3>1. PICK t : t = Head(condQ[call.mon])
      OBVIOUS
    <3>2. condQ[call.mon] \in Seq(Thread)
      BY <1>1, <2>1 DEF TypeOK
    <3>3. t \in ToSet(condQ[call.mon])
      BY <2>2, <3>1, <3>2, HeadLemma
    <3>4. t \in Thread /\ state[t] = "COND_WAIT"
      BY <2>1, <3>3, WaitQueues, ExactInv
    <3>5. t \in ToSet(queue[SleepQ]) /\ t \in onSleepQ
      BY <3>4, SleepList
    <3>6. /\ sleep' = FixSleepQ(t) /\ left' = [left EXCEPT ![t] = 0]
          /\ queue' = Relink(queue, t, MonitorQ)
      BY <2>2, <3>1, <3>5 DEF NotifyOneThread
    <3>7. queue'[SleepQ] = Without(queue[SleepQ], t)
      BY <3>6, SleepList, QueueNames DEF Relink
    <3> QED BY <1>1, <1>2, <2>1, <3>4, <3>5, <3>6, <3>7, WakeTimes
  <2>3. CASE UNCHANGED <<threadVars, schedVars, left>>
    BY <1>1, <1>3, <2>1, <2>3 DEF threadVars, schedVars
  <2> QED BY <1>4, <2>2, <2>3 DEF CondNotifyLoop
<1>5. CASE CondNotifyEnd \/ PollDone \/ (\E m \in IoMonitor : PollReady(m)) \/ IntsOn
  <2>1. UNCHANGED <<sleep, left, elapsed, queue>> /\ call'.nap \in 0 .. Forever
    BY <1>1, <1>5 DEF CondNotifyEnd, PollDone, PollReady, IntsOn, CondNotify, HandOverIfIdle,
       threadVars, schedVars, tick, history
  <2>2. at \notin {"tick", "monNotify"}
    BY <1>5 DEF CondNotifyEnd, PollDone, PollReady, IntsOn, IntsOnStep
  <2> QED BY <1>3, <2>1, <2>2
<1>6. CASE CondWait
  <2>1. /\ at = "condWait" /\ PutOnSleepQ(call.nap, "COND_WAIT") /\ elapsed' = elapsed
        /\ call'.nap \in 0 .. Forever
    BY <1>1, <1>6 DEF CondWait, tick
  <2>2. PICK nap \in 0 .. Forever : nap = call.nap
    BY <1>1
  <2> QED BY <2>1, <2>2, PutOnSleepQTimes
<1>7. CASE Resched \/ Yield
  <2>1. UNCHANGED <<sleep, left, elapsed>> /\ call'.nap \in 0 .. Forever
    BY <1>1, <1>7 DEF Resched, Yield, tick, history
  <2>2. at \notin {"tick", "monNotify", "schedule"}
    BY <1>7 DEF Resched, Yield, Client
  <2>3. queue' \in {queue, Link(queue, current, priority[current])}
    BY <1>7 DEF Resched, Yield, Deschedule
  <2>4. current \notin ToSet(queue[SleepQ])
    BY <1>1, <2>2, ExactFacts, SleepList
  <2>5. priority[current] # SleepQ
    BY <1>1, QueueNames DEF TypeOK
  <2> QED BY <1>1, <1>3, <2>1, <2>2, <2>3, <2>4, <2>5, OtherQueues
<1>8. CASE Schedule
  <2>1. UNCHANGED <<sleep, left, elapsed, call>> /\ at = "schedule"
    BY <1>8 DEF Schedule, tick, history
  <2>2. PICK p \in readyMask : queue' = Unlink(queue, Head(queue[p]))
    BY <1>8 DEF Schedule
  <2>3. p \in Priority /\ p \in QueueName /\ queue[p] \in Seq(Thread) /\ queue[p] # <<>>
    BY <1>1, ExactFacts, QueueNames DEF Mask, TypeOK
  <2>4. Head(queue[p]) \in Thread /\ Head(queue[p]) \in ToSet(queue[p])
    BY <2>3, HeadLemma
  <2>5. Home(Head(queue[p])) = p
    BY <2>3, <2>4, ExactFacts DEF Linked
  <2>6. state[Head(queue[p])] \notin {"SLEEPING", "COND_WAIT"}
    BY <1>1, <2>3, <2>4, <2>5, Homes, QueueNames
  <2>7. Head(queue[p]) \notin ToSet(queue[SleepQ])
    BY <2>4, <2>6, SleepList
  <2>8. queue'[SleepQ] = queue[SleepQ]
    BY <2>2, <2>4, <2>7, OtherQueues, QueueNames
  <2> QED BY <1>1, <1>3, <2>1, <2>8
<1>9. CASE ClockInterrupt \/ IdleLoop \/ MissedClock
  <2>1. at \notin {"tick", "monNotify"} /\ \E ret : ClockTick(ret)
    BY <1>9 DEF ClockInterrupt, IdleLoop, MissedClock
  <2> QED BY <2>1, ClockTickTimes
<1>10. CASE ChildDeathInterrupt \/ MissedChildDeath
  <2>1. at \notin {"tick", "monNotify"} /\ \E ret : ChildDeath(ret)
    BY <1>10 DEF ChildDeathInterrupt, MissedChildDeath
  <2>2. UNCHANGED <<sleep, left, elapsed, queue>> /\ call'.nap \in 0 .. Forever
    BY <1>1, <2>1 DEF ChildDeath, CondNotify, threadVars, schedVars, tick, history
  <2> QED BY <1>3, <2>1, <2>2
<1> QED BY <1>4, <1>5, <1>6, <1>7, <1>8, <1>9, <1>10, MonNotifyTimes, TickTimes, TickDoneTimes
        DEF Kernel, Signal

(* PR_Init leaves nobody asleep.                                           *)
LEMMA TimesStarts == Init => TimesInv
<1> SUFFICES ASSUME Init
             PROVE  TimesInv
  OBVIOUS
<1>1. queue[SleepQ] = <<>>
  BY QueueNames DEF Init, SleepQ
<1>2. /\ sleep \in [Thread -> Int] /\ left \in [Thread -> Int] /\ elapsed = 0
      /\ call.nap = 0 /\ 0 \in 0 .. Forever /\ 0 \in 0 .. Forever - 1
  <2>1. Forever \in Nat /\ Forever > 0
    BY NumberAssumption, TimeAssumption
  <2> QED BY <2>1 DEF Init, NoCall, CallTo
<1>3. DOMAIN queue[SleepQ] = {} /\ ToSet(queue[SleepQ]) = {}
  BY <1>1 DEF ToSet
<1> QED BY <1>2, <1>3 DEF TimesInv, Relative

(* Every step keeps the times exact.                                       *)
LEMMA TimesInvKept ==
    ASSUME IInv, TimesInv, [Next]_vars
    PROVE  TimesInv'
<1>1. CASE UNCHANGED vars
  BY <1>1 DEF vars, threadVars, schedVars, kernVars, tick, history, TimesInv, Relative, DueTimes
<1> QED BY <1>1, ClientTimes, KernelTimes DEF Next

(* The relative times of the sleep queue stay exact: through insertions    *)
(* anywhere in it, removals by notifies, the wake-ups of a tick that is    *)
(* still under way and the hand-offs between them, and clocks that jump.   *)
THEOREM SleepTimesExact == Spec => []SleepQueueExact
<1>1. IInv /\ TimesInv /\ [Next]_vars => TimesInv'
  BY TimesInvKept
<1>2. IInv /\ TimesInv => SleepQueueExact
  <2> SUFFICES ASSUME IInv, TimesInv, NEW i \in DOMAIN queue[SleepQ]
               PROVE  /\ sleep[queue[SleepQ][i]] >= 0
                      /\ Due[i] = Plus(left[queue[SleepQ][i]], elapsed)
    BY DEF SleepQueueExact
  <2>1. /\ queue[SleepQ] \in Seq(Thread) /\ Relative(queue[SleepQ], sleep, DueTimes)
        /\ DOMAIN queue[SleepQ] = 1 .. Len(queue[SleepQ]) /\ Len(queue[SleepQ]) \in Nat
    BY SleepList, LenProperties DEF TimesInv
  <2>2. queue[SleepQ][i] \in Thread
    BY <2>1, ElementOfSeq
  <2>3. Due[i] = DueTimes[queue[SleepQ][i]]
    BY <2>1, DueIs
  <2>4. DueTimes[queue[SleepQ][i]] = Plus(left[queue[SleepQ][i]], elapsed)
    BY <2>2 DEF DueTimes
  <2>5. sleep[queue[SleepQ][i]] >= 0
    <3>1. PICK q, s, d : q = queue[SleepQ] /\ s = sleep /\ d = DueTimes
      OBVIOUS
    <3>2. DOMAIN q = 1 .. Len(q) /\ Len(q) \in Nat /\ i \in DOMAIN q /\ Forever \in Nat
      BY <2>1, <3>1, NumberAssumption
    <3>3. d[q[i]] \in 0 .. Forever /\ (i = 1 => s[q[i]] = d[q[i]])
      BY <2>1, <3>1, <3>2 DEF Relative
    <3>4. i > 1 => /\ d[q[i - 1]] \in 0 .. Forever /\ d[q[i - 1]] <= d[q[i]]
                   /\ s[q[i]] = Minus(d[q[i]], d[q[i - 1]])
      <4>1. i > 1 => i - 1 \in DOMAIN q
        BY <3>2
      <4> QED BY <2>1, <3>1, <3>2, <4>1 DEF Relative
    <3>5. s[q[i]] >= 0
      BY <3>2, <3>3, <3>4 DEF Minus
    <3> QED BY <3>1, <3>5
  <2> QED BY <2>3, <2>4, <2>5
<1> QED BY <1>1, <1>2, TimesStarts, Inductive, PTL DEF Spec
-----------------------------------------------------------------------------
(* The exceptions.  A call that does nothing goes straight to _PR_IntsOn.  *)
LEMMA ToIntsOnKeeps ==
    ASSUME AInv, at = "user", NEW needYield \in BOOLEAN, ToIntsOn(needYield),
           UNCHANGED <<threadVars, monitorVars, schedVars, history>>
    PROVE  AInv'
<1>1. Goes(call', at') /\ at' = "intsOn" /\ want' \in BOOLEAN /\ caller' = caller
  BY ToIntsOnGoes
<1>2. /\ UNCHANGED <<state, priority, suspending, onSleepQ, monitor, entryCount>>
      /\ UNCHANGED <<owner, count, stickyCount, lockQ, condQ>>
      /\ UNCHANGED <<queue, readyMask, current, userActive, held>>
  BY DEF threadVars, monitorVars, schedVars, history
<1>3. stickyCount' \in [Monitor -> Nat] /\ caller' \in IntsOnStep \cup {"resched"}
  BY <1>1, <1>2 DEF AInv, TypeOK
<1>4. \A m \in Monitor : ~Handing(m)
  BY DEF Handing
<1> QED BY <1>1, <1>2, <1>3, <1>4, ControlStep DEF GoesOn

(* PR_SetPendingException keeps what it promises, whatever the thread does.*)
LEMMA SetPendingExceptionKeeps ==
    ASSUME AInv, NEW t \in Thread, SetPendingException(t)
    PROVE  AInv'
<1>1. /\ at = "user" /\ TypeOK
      /\ UNCHANGED <<priority, suspending, monitor, entryCount, owner, count>>
      /\ UNCHANGED <<stickyCount, current, userActive, held>>
  BY DEF SetPendingException, Client, AInv
<1>2. CASE /\ state[t] = "COND_WAIT" /\ NotifyOneThread(monitor[t], t)
           /\ want' = FALSE /\ HandOverIfIdle(monitor[t], "intsOn")
           /\ UNCHANGED <<readyMask, tick>>
  <2>1. PICK m \in Monitor : m = monitor[t]
    BY <1>2 DEF AInv, AsyncInv, CallOK, TypeOK
  <2>2. /\ condQ' = [condQ EXCEPT ![m] = Without(@, t)]
        /\ lockQ' = [lockQ EXCEPT ![m] = Append(@, t)]
        /\ queue' = Relink(queue, t, MonitorQ)
        /\ state' = [state EXCEPT ![t] = "MON_WAIT"]
        /\ onSleepQ' = onSleepQ \ {t}
        /\ HandOverIfIdle(m, "intsOn")
        /\ want' \in BOOLEAN /\ caller' = caller /\ readyMask' = readyMask
    BY <1>2, <2>1 DEF NotifyOneThread, tick
  <2>3. /\ Goes(call', at') /\ (owner[m] = None => Handing(m)')
        /\ at' = "monNotify" => owner[call'.mon] = None
    BY <2>2, HandOverGoes DEF Return, Handing
  <2>4. \A n \in Monitor : ~Handing(n)
    BY <1>1 DEF Handing
  <2> QED BY <1>1, <1>2, <2>1, <2>2, <2>3, <2>4, NotifyMove
<1>3. CASE /\ state[t] = "SLEEPING" /\ CutSleep(t)
           /\ ToIntsOn(priority[t] >= priority[current])
           /\ UNCHANGED <<onSleepQ, condQ, lockQ>>
  <2>1. MakeRunnable(t) /\ onSleepQ' \in {onSleepQ, onSleepQ \ {t}}
    BY <1>3 DEF CutSleep
  <2>2. /\ at' = "intsOn" /\ call' \in CallRecord /\ want' \in BOOLEAN /\ caller' = caller
    BY <1>3, NoCallRecord DEF ToIntsOn, tick
  <2>3. userActive' \in Nat
    BY <1>1 DEF TypeOK
  <2> QED BY <1>1, <1>3, <2>1, <2>2, <2>3, MakeRunnableKeeps
<1>4. CASE /\ ToIntsOn(FALSE)
           /\ UNCHANGED <<state, onSleepQ, sleep, queue, readyMask, condQ, lockQ, left>>
  <2>1. UNCHANGED <<threadVars, monitorVars, schedVars, history>>
    BY <1>1, <1>4 DEF threadVars, monitorVars, schedVars, history
  <2> QED BY <1>1, <1>4, <2>1, ToIntsOnKeeps
<1> QED BY <1>2, <1>3, <1>4 DEF SetPendingException

(* So does PR_Sleep, be there an exception or not.                         *)
LEMMA SleepUnlessPendingKeeps ==
    ASSUME AInv, NEW nap \in SleepTime, SleepUnlessPending(nap)
    PROVE  AInv'
<1>1. CASE Sleep(nap)
  BY <1>1, SleepKeeps
<1>2. CASE /\ Client("sleep") /\ ToIntsOn(FALSE)
           /\ UNCHANGED <<threadVars, monitorVars, schedVars, history>>
  BY <1>2, ToIntsOnKeeps DEF Client
<1> QED BY <1>1, <1>2 DEF SleepUnlessPending

(* Every step of SwAsync does.                                             *)
LEMMA AsyncStepKeeps ==
    ASSUME AInv, [AsyncNext]_asyncVars
    PROVE  AInv'
<1>1. CASE KernCall
  <2>1. ClientCall \/ Yield
    BY <1>1 DEF KernCall, ClientCall
  <2> QED BY <2>1, ClientCallKeeps, YieldKeeps
<1>2. CASE AsyncCall
  <2>1. ASSUME ClearPendingException
        PROVE  AInv'
    BY <2>1, StutterKeeps DEF ClearPendingException
  <2> QED BY <1>2, <2>1, SetPendingExceptionKeeps, SleepUnlessPendingKeeps DEF AsyncCall
<1>3. CASE KernStep
  <2>1. ASSUME Signal \/ IdleLoop
        PROVE  AInv'
    <3>1. TypeOK
      BY DEF AInv
    <3> QED BY <2>1, <3>1, SignalGoesOn, ControlStep
  <2> QED BY <1>3, <2>1, KernelKeeps DEF KernStep
<1>4. CASE UNCHANGED asyncVars
  BY <1>4, StutterKeeps DEF asyncVars
<1> QED BY <1>1, <1>2, <1>3, <1>4 DEF AsyncNext

(* What is left of the kernel's invariant holds with exceptions.           *)
THEOREM AsyncInductive == AsyncSpec => []AInv
<1>1. AsyncInit => AInv
  BY InitKeeps DEF AsyncInit
<1>2. AInv /\ [AsyncNext]_asyncVars => AInv'
  BY AsyncStepKeeps
<1> QED BY <1>1, <1>2, PTL DEF AsyncSpec

(* Whatever a thread does when an exception hits it, the queues of the     *)
(* monitors, the entries that are given back and the hand-overs stay right.*)
THEOREM AsyncMonitorsKept == AsyncSpec => []AsyncKeepsMonitors
<1>1. AInv => AsyncKeepsMonitors
  BY DEF AInv, AsyncInv, AsyncKeepsMonitors
<1> QED BY <1>1, AsyncInductive, PTL

(* And the queues of the scheduler and the ready mask, in spite of the     *)
(* _PR_ON_SLEEPQ that a sleep leaves which is cut short.                   *)
THEOREM AsyncQueuesKept == AsyncSpec => []AsyncKeepsQueues
<1>1. AInv => AsyncKeepsQueues
  BY DEF AInv, AsyncInv
<1> QED BY <1>1, AsyncInductive, PTL
-----------------------------------------------------------------------------
(* Exceptions and sleep: no step but PR_Sleep makes a thread sleep.        *)
NoNewSleeper == \A t \in Thread : state'[t] = "SLEEPING" => state[t] = "SLEEPING"

(* A thread that changes its state to another one does not fall asleep.    *)
LEMMA OneMoves ==
    ASSUME TypeOK, NEW t, NEW st, st # "SLEEPING",
           state' = state \/ state' = [state EXCEPT ![t] = st]
    PROVE  NoNewSleeper
BY DEF TypeOK, NoNewSleeper

(* The calls of SwKern, ...                                                *)
LEMMA KernCallWakes ==
    ASSUME TypeOK, KernCall
    PROVE  NoNewSleeper
<1>1. ASSUME NEW m \in ClientMonitor, EnterMonitor(m)
      PROVE  NoNewSleeper
  <2>1. state' = state \/ state' = [state EXCEPT ![current] = "MON_WAIT"]
    BY <1>1 DEF EnterMonitor, Deschedule, threadVars
  <2> QED BY <2>1, OneMoves
<1>2. ASSUME NEW m \in ClientMonitor, NEW nap, NEW how,
             ExitMonitor(m) \/ Wait(m, nap) \/ Notify(m, how)
      PROVE  NoNewSleeper
  <2>1. state' = state
    BY <1>2 DEF ExitMonitor, Wait, Notify, threadVars
  <2> QED BY <2>1, OneMoves
<1>3. ASSUME Yield \/ Exit
      PROVE  NoNewSleeper
  BY <1>3, OneMoves DEF Yield, Exit, Deschedule
<1>4. ASSUME NEW t \in Thread, Start(t) \/ Resume(t)
      PROVE  NoNewSleeper
  BY <1>4, OneMoves DEF Start, Resume, MakeRunnable
<1>5. ASSUME NEW t \in Thread, Suspend(t)
      PROVE  NoNewSleeper
  <2>1. \/ state' = state \/ state' = [state EXCEPT ![t] = "SUSPENDED"]
        \/ state' = [state EXCEPT ![current] = "SUSPENDED"]
    BY <1>5 DEF Suspend, Deschedule
  <2> QED BY <2>1, OneMoves
<1>6. ASSUME NEW t \in Thread, NEW newPri, SetThreadPriority(t, newPri)
      PROVE  NoNewSleeper
  BY <1>6, OneMoves DEF SetThreadPriority
<1> QED BY <1>1, <1>2, <1>3, <1>4, <1>5, <1>6 DEF KernCall

(* ... and the steps of the kernel.                                        *)
LEMMA KernStepWakes ==
    ASSUME TypeOK, KernStep
    PROVE  NoNewSleeper
<1>1. CASE MonNotify
  <2>1. state' = state \/ \E t : state' = [state EXCEPT ![t] = "RUNNABLE"]
    BY <1>1 DEF MonNotify, GrantMonitor, MakeRunnable, threadVars
  <2> QED BY <2>1, OneMoves
<1>2. CASE CondNotifyLoop
  BY <1>2, OneMoves DEF CondNotifyLoop, NotifyOneThread, threadVars
<1>3. CASE CondWait
  BY <1>3, OneMoves DEF CondWait, PutOnSleepQ
<1>4. CASE TickWakeSleeper \/ TickWakeWaiter
  BY <1>4, OneMoves DEF TickWakeSleeper, TickWakeWaiter, MakeRunnable
<1>5. CASE Resched \/ Schedule
  BY <1>5, OneMoves DEF Resched, Schedule, Deschedule
<1>6. CASE CondNotifyEnd \/ TickDone \/ PollDone \/ IntsOn
  BY <1>6, OneMoves DEF CondNotifyEnd, TickDone, PollDone, IntsOn, threadVars
<1>7. CASE \E m \in IoMonitor : PollReady(m)
  BY <1>7, OneMoves DEF PollReady, threadVars
<1>8. CASE Signal \/ IdleLoop \/ MissedClock \/ MissedChildDeath
  <2>1. GoesOn
    BY <1>8, SignalGoesOn
  <2> QED BY <2>1, OneMoves DEF GoesOn
<1> QED BY <1>1, <1>2, <1>3, <1>4, <1>5, <1>6, <1>7, <1>8 DEF KernStep, Kernel

(* The exceptions that are pending, and nobody sleeps in spite of one.     *)
AwakeInv == pendingException \in [Thread -> Nat] /\ NoSleepWithException

(* PR_SetPendingException wakes the thread; PR_Sleep looks first.          *)
LEMMA AwakeStep ==
    ASSUME AInv, AwakeInv, [AsyncNext]_asyncVars
    PROVE  AwakeInv'
<1>1. TypeOK /\ current \in Thread
  BY Facts
<1>2. ASSUME NoNewSleeper, UNCHANGED pendingException
      PROVE  AwakeInv'
  BY <1>2 DEF AwakeInv, NoSleepWithException, NoNewSleeper
<1>3. CASE KernCall \/ KernStep
  <2>1. NoNewSleeper
    BY <1>1, <1>3, KernCallWakes, KernStepWakes
  <2>2. UNCHANGED pendingException
    BY <1>3 DEF KernCall, KernStep
  <2> QED BY <1>2, <2>1, <2>2
<1>4. ASSUME NEW t \in Thread, SetPendingException(t)
      PROVE  AwakeInv'
  <2>1. pendingException' = [pendingException EXCEPT ![t] = @ + 1]
    BY <1>4 DEF SetPendingException
  <2>2. \A u \in Thread : u # t => pendingException'[u] = pendingException[u]
    BY <2>1 DEF AwakeInv
  <2>3. state'[t] # "SLEEPING" /\ (\A u \in Thread : u # t => state'[u] = state[u]) => AwakeInv'
    BY <2>1, <2>2 DEF AwakeInv, NoSleepWithException
  <2>4. CASE state[t] = "COND_WAIT" /\ NotifyOneThread(monitor[t], t)
    <3>1. state' = [state EXCEPT ![t] = "MON_WAIT"]
      BY <2>4 DEF NotifyOneThread
    <3> QED BY <1>1, <2>3, <3>1 DEF TypeOK
  <2>5. CASE CutSleep(t)
    <3>1. state' = [state EXCEPT ![t] = "RUNNABLE"]
      BY <2>5 DEF CutSleep, MakeRunnable
    <3> QED BY <1>1, <2>3, <3>1 DEF TypeOK
  <2>6. CASE /\ pendingException[t] > 0 \/ state[t] \notin {"COND_WAIT", "SLEEPING"}
             /\ UNCHANGED <<state, onSleepQ, sleep, queue, readyMask, condQ, lockQ, left>>
    <3>1. state[t] # "SLEEPING"
      BY <2>6 DEF AwakeInv, NoSleepWithException
    <3> QED BY <2>3, <2>6, <3>1
  <2> QED BY <1>4, <2>4, <2>5, <2>6 DEF SetPendingException
<1>5. CASE ClearPendingException
  <2>1. /\ state' = state
        /\ pendingException' = [pendingException EXCEPT ![current] = @ - 1]
        /\ pendingException[current] > 0
    BY <1>5 DEF ClearPendingException, vars, threadVars
  <2> QED BY <1>1, <2>1 DEF AwakeInv, NoSleepWithException
<1>6. ASSUME NEW nap, SleepUnlessPending(nap)
      PROVE  AwakeInv'
  <2>1. CASE pendingException[current] = 0
    <3>1. state' = [state EXCEPT ![current] = "SLEEPING"] /\ UNCHANGED pendingException
      BY <1>6, <2>1 DEF SleepUnlessPending, Sleep, PutOnSleepQ
    <3> QED BY <1>1, <2>1, <3>1 DEF AwakeInv, NoSleepWithException, TypeOK
  <2>2. CASE pendingException[current] # 0
    <3>1. UNCHANGED <<state, pendingException>>
      BY <1>6, <2>2 DEF SleepUnlessPending, threadVars
    <3> QED BY <3>1 DEF AwakeInv, NoSleepWithException
  <2> QED BY <2>1, <2>2
<1>7. CASE UNCHANGED asyncVars
  <2>1. UNCHANGED <<state, pendingException>>
    BY <1>7 DEF asyncVars, vars, threadVars
  <2> QED BY <2>1 DEF AwakeInv, NoSleepWithException
<1> QED BY <1>3, <1>4, <1>5, <1>6, <1>7 DEF AsyncNext, AsyncCall

(* No thread sleeps while an exception is pending for it, although         *)
(* PR_Sleep and PR_SetPendingException each look at the other only once.   *)
THEOREM ExceptionsWake == AsyncSpec => []NoSleepWithException
<1>1. AsyncInit => AwakeInv
  BY DEF AsyncInit, AwakeInv, NoSleepWithException
<1>2. AInv /\ AwakeInv /\ [AsyncNext]_asyncVars => AwakeInv'
  BY AwakeStep
<1>3. AwakeInv => NoSleepWithException
  BY DEF AwakeInv
<1> QED BY <1>1, <1>2, <1>3, AsyncInductive, PTL DEF AsyncSpec
=============================================================================
