------------------------------- MODULE IoWait -------------------------------
(***************************************************************************)
(* A thread that waits for i/o: the loop of _PR_ReadFile (prfileio.c) and  *)
(* the calls like it, _PR_IOWait with the queue of the i/o handler, and    *)
(* the poll that _PR_Idle and the clock make (mdunix.c).                   *)
(*                                                                         *)
(* A poll queue is a structure on the stack of the waiting thread, so that *)
(* a thread stands for its own.  The thread waits on the cached monitor of *)
(* that address; the poll, with interrupts off, does not look it up in the *)
(* cache but notifies the system monitor that pollq->mon points to, with a *)
(* sticky notify, as the thread may not wait yet.                          *)
(***************************************************************************)
EXTENDS MonCache

CONSTANTS
    Reader,        \* the threads that do i/o
    Client,        \* bound: the threads that enter, wait and notify themselves
    MaxException   \* bound: exceptions pending for one thread

ASSUME IoAssumption ==
    /\ Thread \subseteq Address /\ Object \cap Thread = {} /\ Reader \subseteq Thread
    /\ Client \subseteq Thread
    /\ MaxException \in Nat

VARIABLES
    ioq,              \* the threads whose poll queue is on _pr_ioq (on_ioq)
    pollMon,          \* pollq->mon
    readable,         \* the threads whose descriptor has data
    pendingException  \* thread->pendingException

ioVars  == <<ioq, pollMon, readable, pendingException>>
allVars == <<vars, ioVars>>

IoInit ==
    /\ Init
    /\ ioq = {} /\ readable = {}
    /\ pollMon = [t \in Thread |-> None]
    /\ pendingException = [t \in Thread |-> 0]

GoTo(t, next) ==
    /\ pc' = [pc EXCEPT ![t] = next]
    /\ UNCHANGED <<cacheVars, monitorVars, addr, mon, ret, saved, timed, held>>
-----------------------------------------------------------------------------
(* _PR_ReadFile: read; if that would block and no exception is pending,    *)
(* wait for the descriptor and read again.                                 *)
Read(t) ==
    /\ pc[t] = "ioRead" \/ (pc[t] = "user" /\ t \in Reader /\ ~InMalloc(t))
    /\ \/ /\ t \in readable /\ readable' = readable \ {t}
          /\ GoTo(t, "user")
          /\ UNCHANGED <<ioq, pollMon, pendingException>>
       \/ /\ t \notin readable /\ pendingException[t] > 0
          /\ GoTo(t, "user")
          /\ UNCHANGED ioVars
       \/ /\ t \notin readable /\ pendingException[t] = 0
          /\ GoTo(t, "ioGet")
          /\ UNCHANGED ioVars

(* _PR_IOWait: enter the cached monitor of the poll queue, ...             *)
IoGet(t) == pc[t] = "ioGet" /\ CEnter(t, t, "ioQueue") /\ UNCHANGED ioVars

(* ... put the queue where the i/o handler finds it, with its monitor...   *)
IoQueue(t) ==
    /\ pc[t] = "ioQueue"
    /\ ioq' = ioq \cup {t}
    /\ pollMon' = [pollMon EXCEPT ![t] = mon[t]]
    /\ GoTo(t, "ioWait")
    /\ UNCHANGED <<readable, pendingException>>

(* ... and wait, leave the monitor, ...                                    *)
IoWaitOn(t) == pc[t] = "ioWait" /\ CWait(t, t, FALSE, "ioExit") /\ UNCHANGED ioVars

IoExit(t) == pc[t] = "ioExit" /\ CExit(t, t, "ioUnlink") /\ UNCHANGED ioVars

(* ... and take the queue off, if the i/o handler has not done it.         *)
StayOnIoq(t) == ioq                             \* mutant of OffIoq

OffIoq(t) == ioq \ {t}

WaitAgain == "ioGet"                            \* mutant of ReadAgain

ReadAgain == "ioRead"

IoUnlink(t) ==
    /\ pc[t] = "ioUnlink"
    /\ ioq' = OffIoq(t)
    /\ pollMon' = [pollMon EXCEPT ![t] = None]
    /\ GoTo(t, ReadAgain)
    /\ UNCHANGED <<readable, pendingException>>

(* _PR_CondNotify(mon, _PR_NOTIFY_STICKY)                                  *)
StickyNotify(e) ==
    \/ /\ Waiters(e) = {} /\ stickyCount[e] < MaxSticky
       /\ stickyCount' = [stickyCount EXCEPT ![e] = @ + 1]
       /\ UNCHANGED pc
    \/ /\ \E u \in Waiters(e) : Wake({u})
       /\ UNCHANGED stickyCount

(* _PR_PauseForIO, for one poll queue with a descriptor that is ready.  It *)
(* would crash on a queue whose thread was refused a monitor.              *)
Poll(t) ==
    /\ t \in ioq /\ t \in readable
    /\ pollMon[t] # None
    /\ ioq' = ioq \ {t}
    /\ StickyNotify(pollMon[t])
    /\ UNCHANGED <<cacheVars, owner, count, addr, mon, ret, saved, timed, held>>
    /\ UNCHANGED <<pollMon, readable, pendingException>>

(* The other end writes.                                                   *)
DataArrives(t) ==
    /\ t \in Reader \ readable /\ readable' = readable \cup {t}
    /\ UNCHANGED <<vars, ioq, pollMon, pendingException>>

(* PR_SetPendingException, by any thread, ends a wait...                   *)
SetPendingException(t) ==
    /\ pendingException[t] < MaxException
    /\ pendingException' = [pendingException EXCEPT ![t] = @ + 1]
    /\ IF pendingException[t] = 0 /\ pc[t] = "wait" THEN Wake({t}) ELSE UNCHANGED pc
    /\ UNCHANGED <<cacheVars, monitorVars, addr, mon, ret, saved, timed, held>>
    /\ UNCHANGED <<ioq, pollMon, readable>>

(* ... and the thread clears it when it has dealt with it.                 *)
ClearPendingException(t) ==
    /\ pc[t] = "user" /\ pendingException[t] > 0
    /\ pendingException' = [pendingException EXCEPT ![t] = @ - 1]
    /\ UNCHANGED <<vars, ioq, pollMon, readable>>
-----------------------------------------------------------------------------
IoStep(t) ==
    \/ pc[t] = "ioRead" /\ Read(t)
    \/ IoGet(t) \/ IoQueue(t) \/ IoWaitOn(t) \/ IoExit(t) \/ IoUnlink(t)

IoNext ==
    \E t \in Thread :
      \/ ((t \in Client /\ ClientCall(t)) \/ CacheStep(t) \/ TimedOut(t)) /\ UNCHANGED ioVars
      \/ pc[t] = "user" /\ Read(t)
      \/ IoStep(t) \/ Poll(t) \/ DataArrives(t)
      \/ SetPendingException(t) \/ ClearPendingException(t)

IoSpec == IoInit /\ [][IoNext]_allVars

(* Threads inside a call get to run, as the lock of the cache is handed to *)
(* them in turn; idle or the clock polls.  Nothing is asked of clients.    *)
IoFairness ==
    /\ \A t \in Reader : SF_allVars(IoStep(t)) /\ WF_allVars(Poll(t))
    /\ \A t \in Thread : SF_allVars(CacheStep(t) /\ UNCHANGED ioVars)

LiveIoSpec == IoSpec /\ IoFairness
-----------------------------------------------------------------------------
(* The types of the poll queues and of the threads' i/o state.             *)
IoTypeOK ==
    /\ TypeOK
    /\ ioq \subseteq Thread /\ readable \subseteq Reader
    /\ pollMon \in [Thread -> Entry \cup {None}]
    /\ pendingException \in [Thread -> 0 .. MaxException]

(* A thread that waits for i/o is where the i/o handler finds it: it was   *)
(* not notified in the moment before it began to wait, in vain.  And a     *)
(* poll queue is on the handler's list only while the call whose stack it  *)
(* is on goes on, and until it is about to end its monitor is the one its  *)
(* thread waits on.                                                        *)
PollQueueAlive ==
    /\ \A t \in Thread : pc[t] = "wait" /\ addr[t] = t => t \in ioq
    /\ \A t \in ioq :
         /\ pc[t] \in {"ioWait", "wait", "woken", "ioExit", "ioUnlink"}
         /\ pc[t] # "ioUnlink" /\ pollMon[t] # None => InCache(t) = {pollMon[t]}

(* Types, and the two lists the handler and its callers share.             *)
IoInv == IoTypeOK /\ PollQueueAlive

(* A thread that expands the cache, and so holds its lock, waits in malloc *)
(* for one that is in malloc, and that one needs the lock of the cache to  *)
(* leave.                                                                  *)
Jammed ==
    \E t, u \in Thread :
      /\ expanding = t /\ pc[t] = "mallocEnter"
      /\ u # t /\ owner[mon[t]] = u

(* Whoever waits for data that is there returns, whatever exceptions and   *)
(* stray notifies come in, and whichever monitors the cache uses, unless   *)
(* two other threads wait for each other with the cache locked.            *)
IoReturns ==
    \A t \in Reader : (pc[t] \in {"wait", "woken"} /\ addr[t] = t /\ t \in readable)
                      ~> pc[t] = "user" \/ Jammed
=============================================================================
