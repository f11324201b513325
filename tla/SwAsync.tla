------------------------------ MODULE SwAsync ------------------------------
(***************************************************************************)
(* Pending exceptions (swthread.c): PR_SetPendingException, by which the   *)
(* Java runtime stops threads, acts on a thread in whatever state it finds *)
(* it, and PR_Sleep heeds it.  SwKern models the rest of the kernel.       *)
(*                                                                         *)
(* Two of the kernel's rules end here.  A sleep that is cut short leaves   *)
(* _PR_ON_SLEEPQ set, and makes a thread run that was to be suspended when *)
(* it woke.  The properties below say what holds all the same.             *)
(***************************************************************************)
EXTENDS SwKern

CONSTANT MaxException  \* bound: exceptions pending for one thread

ASSUME ExceptionAssumption == MaxException \in Nat

VARIABLE pendingException \* thread->pendingException

asyncVars == <<vars, pendingException>>

AsyncInit == Init /\ pendingException = [t \in Thread |-> 0]
-----------------------------------------------------------------------------
(* Mutant of CutSleep: the thread is not taken off the sleepQ.             *)
CutSleepLinked(t) ==
    /\ sleep' = FixSleepQ(t)
    /\ state' = [state EXCEPT ![t] = "RUNNABLE"]
    /\ queue' = Link(queue, t, priority[t])
    /\ readyMask' = readyMask \cup {priority[t]}
    /\ left' = [left EXCEPT ![t] = 0]

(* The sleeper is made ready; its flags are left as they were.             *)
CutSleep(t) == sleep' = FixSleepQ(t) /\ MakeRunnable(t) /\ left' = [left EXCEPT ![t] = 0]

(* A waiting thread is sent to the lockQ, a sleeping one made ready.       *)
SetPendingException(t) ==
    /\ Client("exception") /\ t # Idle
    /\ pendingException[t] < MaxException
    /\ pendingException' = [pendingException EXCEPT ![t] = @ + 1]
    /\ \/ /\ pendingException[t] = 0 /\ state[t] = "COND_WAIT"
          /\ NotifyOneThread(monitor[t], t)
          /\ want' = FALSE /\ HandOverIfIdle(monitor[t], "intsOn")
          /\ UNCHANGED <<readyMask, tick>>
       \/ /\ pendingException[t] = 0 /\ state[t] = "SLEEPING"
          /\ CutSleep(t)
          /\ ToIntsOn(priority[t] >= priority[current])
          /\ UNCHANGED <<onSleepQ, condQ, lockQ>>
       \/ /\ pendingException[t] > 0 \/ state[t] \notin {"COND_WAIT", "SLEEPING"}
          /\ ToIntsOn(FALSE)
          /\ UNCHANGED <<state, onSleepQ, sleep, queue, readyMask, condQ, lockQ, left>>
    /\ UNCHANGED <<priority, suspending, monitor, entryCount, owner, count>>
    /\ UNCHANGED <<stickyCount, current, userActive, held>>

(* Called by the thread itself when it has dealt with the exception.       *)
ClearPendingException ==
    /\ Client("exception") /\ pendingException[current] > 0
    /\ pendingException' = [pendingException EXCEPT ![current] = @ - 1]
    /\ UNCHANGED vars

(* Mutant of SleepUnlessPending: the exception is not looked at.           *)
SleepAnyway(nap) == Sleep(nap) /\ UNCHANGED pendingException

(* PR_Sleep does not sleep while an exception is pending.                  *)
SleepUnlessPending(nap) ==
    /\ IF pendingException[current] = 0 THEN Sleep(nap)
       ELSE /\ Client("sleep") /\ ToIntsOn(FALSE)
            /\ UNCHANGED <<threadVars, monitorVars, schedVars, history>>
    /\ UNCHANGED pendingException
-----------------------------------------------------------------------------
(* The calls of SwKern but for PR_Sleep, and all that the kernel does.     *)
KernCall ==
    /\ \/ \E m \in ClientMonitor :
            \/ EnterMonitor(m)
            \/ ExitMonitor(m)
            \/ \E nap \in SleepTime \cup {Forever} : Wait(m, nap)
            \/ \E how \in {"ONE", "ALL"} : Notify(m, how)
       \/ Yield \/ Exit
       \/ \E t \in Thread : Start(t) \/ Suspend(t) \/ Resume(t)
       \/ \E t \in Thread, n \in -1 .. MaxPriority + 1 :
            SetThreadPriority(t, Clamp(n))
    /\ UNCHANGED pendingException

AsyncCall ==
    \/ \E t \in Thread : SetPendingException(t)
    \/ ClearPendingException
    \/ \E nap \in SleepTime : SleepUnlessPending(nap)

KernStep == (Kernel \/ IdleLoop \/ Signal) /\ UNCHANGED pendingException

AsyncNext == KernCall \/ AsyncCall \/ KernStep

AsyncSpec == AsyncInit /\ [][AsyncNext]_asyncVars
-----------------------------------------------------------------------------
(* An exception ends a sleep and prevents the next one: no thread sleeps   *)
(* while one is pending, although both look at the other only once.        *)
NoSleepWithException ==
    \A t \in Thread : pendingException[t] > 0 => state[t] # "SLEEPING"

(* Wherever an exception hits a thread, as it waits, sleeps, is suspended, *)
(* is being notified or is timing out, the monitors stay right: their      *)
(* queues, the entries that are given back, the hand-over of one that is   *)
(* idle.                                                                   *)
AsyncKeepsMonitors == WaitersMatchState /\ EntriesKept /\ NoLostHandoff

(* And so do the scheduler's queues, in spite of the flag that is left: a  *)
(* thread is linked once, on the queue its state tells of, and the ready   *)
(* mask is exact.  A sleeper that was woken may have the flag still, one   *)
(* that sleeps or waits always has it.                                     *)
AsyncKeepsQueues ==
    /\ \A q \in QueueName :
         IsTidy(queue[q]) /\ ToSet(queue[q]) = {t \in Thread : Home(t) = q}
    /\ readyMask = {p \in Priority : queue[p] # <<>>}
    /\ ToSet(queue[SleepQ]) \subseteq onSleepQ
    /\ \A t \in Thread : state[t] = "RUNNING" <=> t = current /\ at # "schedule"
=============================================================================
