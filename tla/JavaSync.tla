------------------------------ MODULE JavaSync ------------------------------
(***************************************************************************)
(* The merging of the mozilla thread and a Java thread for calls between   *)
(* JavaScript and Java (lib/libjava/lj_thred.c), with the lock around Xlib *)
(* (PR_XLock of nspr/src/mdunix.c), which the mozilla thread gives up      *)
(* while it works for Java, and the event that lures it.                   *)
(*                                                                         *)
(* A critical section of one of the monitors is one step.  The stack of a  *)
(* thread has a frame for each lj_Run it is in.                            *)
(***************************************************************************)
EXTENDS Naturals, Sequences, FiniteSets, SequencesExt

CONSTANTS
    Java, Mozilla, None,
    MemoryFails,  \* the allocation of the event may fail
    MaxDepth,     \* bound: nested calls of a thread
    MaxEvents     \* bound: events posted and not handled

ASSUME SyncAssumption ==
    /\ Mozilla \notin Java /\ None \notin Java \cup {Mozilla}
    /\ MemoryFails \in BOOLEAN
    /\ MaxDepth \in Nat \ {0} /\ MaxEvents \in Nat \ {0}

Thread == Java \cup {Mozilla}

VARIABLES
    owner,    \* the Java thread that synchronizes with mozilla
    waiters,  \* those that wait on ownerLock, in order
    states,   \* of the two sides
    doit,     \* whose callback is to be run
    events,   \* events SlaveToJava in the event queue
    xlock,    \* who is in the X lock
    lost,     \* history: an event could not be allocated
    pc,       \* what a thread does next
    stack     \* its frames: kind, whose callback it runs, how often its own ran

vars == <<owner, waiters, states, doit, events, xlock, lost, pc, stack>>

Side(t) == IF t = Mozilla THEN "mozilla" ELSE "java"
Other(t) == IF t = Mozilla THEN "java" ELSE "mozilla"

Init ==
    /\ owner = None /\ waiters = <<>>
    /\ states = [s \in {"mozilla", "java"} |-> "free"]
    /\ doit = None
    /\ events = 0
    /\ xlock = None
    /\ lost = FALSE
    /\ pc = [t \in Thread |-> "idle"]
    /\ stack = [t \in Thread |-> <<>>]
-----------------------------------------------------------------------------
Top(t) == Last(stack[t])

Push(t, kind) ==
    stack' = [stack EXCEPT ![t] = Append(@, [kind |-> kind, job |-> None, served |-> 0])]

GoTo(t, next) == pc' = [pc EXCEPT ![t] = next]

(* Go on, and notify the thread that waits on the monitor of a side.       *)

GoToNotify(t, next, side) ==
    pc' = [u \in Thread |->
             IF u = t THEN next
             ELSE IF pc[u] = "waiting" /\ Side(u) = side THEN "loop" ELSE pc[u]]

-----------------------------------------------------------------------------
(* Java code locks X for a while (AWT_LOCK), but calls nobody then.        *)
AwtLock(t) ==
    /\ t \in Java /\ pc[t] \in {"idle", "doit"} /\ xlock = None
    /\ xlock' = t
    /\ UNCHANGED <<lost, owner, waiters, states, doit, events, pc, stack>>

AwtUnlock(t) ==
    /\ t \in Java /\ xlock = t
    /\ xlock' = None
    /\ UNCHANGED <<lost, owner, waiters, states, doit, events, pc, stack>>

(* LJ_CallMozilla by a Java thread.  Bound: MaxEvents.                     *)
CallMozilla(t) ==
    /\ t \in Java /\ xlock # t
    /\ \/ pc[t] = "idle" /\ events < MaxEvents
       \/ pc[t] = "doit" /\ Len(stack[t]) < MaxDepth
    /\ GoTo(t, "own")
    /\ UNCHANGED <<lost, owner, waiters, states, doit, events, xlock, stack>>

(* LJ_CallJava by a callback that the mozilla thread runs.                 *)
KeepX == xlock                                  \* mutant of LeaveX

LeaveX == None

CallJava ==
    /\ pc[Mozilla] = "doit" /\ Len(stack[Mozilla]) < MaxDepth
    /\ xlock' = LeaveX
    /\ GoTo(Mozilla, "own")
    /\ UNCHANGED <<lost, owner, waiters, states, doit, events, stack>>

(* lj_CallOther: have the other side, or wait for it, ...                  *)
NobodyAsked == TRUE                             \* mutant of Unowned

Unowned == owner = None

Own(t) ==
    /\ pc[t] = "own"
    /\ \/ /\ t = Mozilla \/ owner = t
          /\ Push(t, "nested")
          /\ GoTo(t, "yield")
          /\ UNCHANGED <<owner, waiters>>
       \/ /\ t \in Java /\ Unowned /\ owner # t
          /\ owner' = t
          /\ Push(t, "first")
          /\ GoTo(t, "yield")
          /\ UNCHANGED waiters
       \/ /\ t \in Java /\ owner \notin {None, t}
          /\ waiters' = Append(waiters, t)
          /\ GoTo(t, "ownWait")
          /\ UNCHANGED <<owner, stack>>
    /\ UNCHANGED <<lost, states, doit, events, xlock>>

(* ... begin to wait, ...                                                  *)
YieldTo(t) ==
    /\ pc[t] = "yield"
    /\ states' = [states EXCEPT ![Side(t)] = "wait"]
    /\ GoTo(t, "order")
    /\ UNCHANGED <<lost, owner, waiters, doit, events, xlock, stack>>

(* ... and tell the other side what to do: mozilla is lured by an event if *)
(* this is the first call, anybody else is notified.                       *)
Lures(t) == Top(t).kind = "first"

Order(t) ==
    /\ pc[t] = "order"
    /\ states' = [states EXCEPT ![Other(t)] = "call"]
    /\ doit' = t
    /\ \/ /\ Lures(t)
          /\ events' = events + 1
          /\ GoTo(t, "loop")
          /\ UNCHANGED lost
       \/ /\ Lures(t) /\ MemoryFails
          /\ lost' = TRUE
          /\ GoTo(t, "loop")
          /\ UNCHANGED events
       \/ /\ ~Lures(t)
          /\ GoToNotify(t, "loop", Other(t))
          /\ UNCHANGED <<events, lost>>
    /\ UNCHANGED <<owner, waiters, xlock, stack>>

(* lj_HandleEvent_SlaveToJava, which takes and leaves the X lock first.    *)
HandleEvent ==
    /\ pc[Mozilla] = "idle" /\ events > 0 /\ xlock = None
    /\ events' = events - 1
    /\ Push(Mozilla, "event")
    /\ GoTo(Mozilla, "loop")
    /\ UNCHANGED <<lost, owner, waiters, states, doit, xlock>>

(* lj_Run: take an order, ...                                              *)
RunOrder(t) ==
    /\ pc[t] = "loop" /\ states[Side(t)] = "call"
    /\ states' = [states EXCEPT ![Side(t)] = "run"]
    /\ stack' = [stack EXCEPT ![t][Len(stack[t])].job = doit]
    /\ GoTo(t, IF t = Mozilla THEN "xlock" ELSE "doit")
    /\ UNCHANGED <<lost, owner, waiters, doit, events, xlock>>

(* (the mozilla thread enters X before a callback, again after a call to   *)
(* Java, and in its event loop, which leaves it when it selects)           *)
XLock ==
    /\ pc[Mozilla] = "xlock" /\ xlock = None
    /\ xlock' = IF stack[Mozilla] = <<>> THEN None ELSE Mozilla
    /\ GoTo(Mozilla, IF stack[Mozilla] = <<>> THEN "idle" ELSE "doit")
    /\ UNCHANGED <<lost, owner, waiters, states, doit, events, stack>>

(* ... run it, ...                                                         *)
Finish(t) ==
    LET job == Top(t).job IN
    /\ pc[t] = "doit" /\ (t = Mozilla \/ xlock # t)
    /\ xlock' = IF t = Mozilla THEN None ELSE xlock
    /\ stack' = [stack EXCEPT ![job][Len(stack[job])].served = @ + 1]
    /\ GoTo(t, "did")
    /\ UNCHANGED <<lost, owner, waiters, states, doit, events>>

(* ... begin to wait, and tell the other side, ...                         *)
StillRun(t) == states                           \* mutant of WaitAgain

WaitAgain(t) == [states EXCEPT ![Side(t)] = "wait"]

Did(t) ==
    /\ pc[t] = "did"
    /\ states' = WaitAgain(t)
    /\ GoTo(t, "tell")
    /\ UNCHANGED <<lost, owner, waiters, doit, events, xlock, stack>>

Tell(t) ==
    /\ pc[t] = "tell"
    /\ states' = [states EXCEPT ![Other(t)] = "done"]
    /\ GoToNotify(t, "loop", Other(t))
    /\ UNCHANGED <<lost, owner, waiters, doit, events, xlock, stack>>

(* ... wait for the next, ...                                              *)
Wait(t) ==
    /\ pc[t] = "loop" /\ states[Side(t)] = "wait"
    /\ GoTo(t, "waiting")
    /\ UNCHANGED <<lost, owner, waiters, states, doit, events, xlock, stack>>

(* ... and return when done, or when the state is none that it expects.    *)
Pop(t) ==
    /\ stack' = [stack EXCEPT ![t] = Front(@)]
    /\ GoTo(t, IF Top(t).kind = "first" THEN "free"
               ELSE IF t = Mozilla THEN "xlock" ELSE "doit")

ReturnDone(t) ==
    /\ pc[t] = "loop" /\ states[Side(t)] = "done"
    /\ states' = [states EXCEPT ![Side(t)] = "run"]
    /\ Pop(t)
    /\ UNCHANGED <<lost, owner, waiters, doit, events, xlock>>

ReturnUnexpected(t) ==
    /\ pc[t] = "loop" /\ states[Side(t)] \in {"free", "run"}
    /\ Pop(t)
    /\ UNCHANGED <<lost, owner, waiters, states, doit, events, xlock>>

(* lj_CallOther, at the end of a first call: release mozilla, ...          *)
Free(t) ==
    /\ pc[t] = "free"
    /\ states' = [states EXCEPT !["mozilla"] = "done"]
    /\ GoToNotify(t, "release", "mozilla")
    /\ UNCHANGED <<lost, owner, waiters, doit, events, xlock, stack>>

(* ... and let the next Java thread have it.                               *)
NoNext == waiters                               \* mutant of NextWaiters

NextWaiters == IF waiters = <<>> THEN <<>> ELSE Tail(waiters)

Release(t) ==
    /\ pc[t] = "release"
    /\ owner' = None
    /\ waiters' = NextWaiters
    /\ pc' = [u \in Thread |->
                IF u = t THEN "idle"
                ELSE IF pc[u] = "ownWait" /\ ~Contains(waiters', u) THEN "own"
                ELSE pc[u]]
    /\ UNCHANGED <<lost, states, doit, events, xlock, stack>>
-----------------------------------------------------------------------------
Step(t) ==
    \/ Own(t) \/ YieldTo(t) \/ Order(t)
    \/ RunOrder(t) \/ Did(t) \/ Tell(t) \/ Wait(t)
    \/ ReturnDone(t) \/ ReturnUnexpected(t) \/ Free(t) \/ Release(t)

Next ==
    \/ \E t \in Thread : Step(t) \/ Finish(t)
    \/ \E t \in Java : CallMozilla(t) \/ AwtLock(t) \/ AwtUnlock(t)
    \/ CallJava \/ HandleEvent \/ XLock

Spec == Init /\ [][Next]_vars

(* Steps inside a call are made.  The kernel gives a monitor to the thread *)
(* it notifies or that waits for it, so the X lock is had by who waits for *)
(* it while it is free again and again, and a thread woken by the release  *)
(* of ownerLock finds no owner in the end.  Callbacks return, however deep *)
(* they are nested, and Java code leaves the X lock.                       *)
Fairness ==
    /\ \A t \in Thread : WF_vars(Step(t))
    /\ \A d \in 1 .. MaxDepth :
         /\ SF_vars(Finish(Mozilla) /\ Len(stack[Mozilla]) = d)
         /\ SF_vars(\E t \in Java : Finish(t) /\ Len(stack[t]) = d)
    /\ \A t \in Java : SF_vars(Own(t) /\ owner = None) /\ WF_vars(AwtUnlock(t))
    /\ SF_vars(HandleEvent \/ XLock)

LiveSpec == Spec /\ Fairness
-----------------------------------------------------------------------------
(* Every variable keeps its type.                                          *)
Frame ==
    [kind : {"first", "nested", "event"}, job : Thread \cup {None}, served : 0 .. 1]

SyncTypeOK ==
    /\ owner \in Java \cup {None} /\ waiters \in Seq(Java)
    /\ states \in [{"mozilla", "java"} -> {"free", "run", "wait", "done", "call"}]
    /\ doit \in Thread \cup {None}
    /\ events \in Nat
    /\ xlock \in Thread \cup {None} /\ lost \in BOOLEAN
    /\ pc \in [Thread -> {"idle", "own", "ownWait", "yield", "order", "loop", "xlock",
                        "doit", "did", "tell", "waiting", "free", "release"}]
    /\ stack \in [Thread -> Seq(Frame)]

(* The two threads are merged: while one side runs a callback, the other   *)
(* waits in lj_Run, and what runs was asked for by it.                     *)
OneRuns ==
    /\ pc[Mozilla] \in {"doit", "did"} =>
         owner # None /\ pc[owner] \in {"loop", "waiting"} /\ Top(Mozilla).job = owner
    /\ \A t \in Java : pc[t] \in {"doit", "did"} =>
         owner = t /\ pc[Mozilla] \in {"loop", "waiting"} /\ Top(t).job = Mozilla

(* A call is answered: the caller is told that it is done only after its   *)
(* own callback ran, and never finds a state that lj_Run does not expect.  *)
DoneMeansServed ==
    \A t \in Thread :
        /\ pc[t] \in {"loop", "waiting"} /\ states[Side(t)] = "done"
             => Top(t).kind = "event" \/ Top(t).served = 1
        /\ pc[t] = "loop" /\ Top(t).kind # "event"
             => states[Side(t)] \in {"call", "wait", "done"}

(* The mozilla thread never waits for Java inside the X lock, which Java   *)
(* may need, nor enters it twice ("MUST NOT BE RE-ENTERED!").              *)
WaitsOutsideX ==
    xlock = Mozilla => pc[Mozilla] = "doit"

(* Nobody waits for a notify that has been made, and the order of a Java   *)
(* thread that waits is known to mozilla: it is at work, or there is an    *)
(* event that tells it, unless there was no memory for that event.         *)
NobodyForgotten ==
    \A t \in Thread : pc[t] = "waiting" =>
        /\ states[Side(t)] = "wait"
        /\ t \in Java => \/ pc[Mozilla] \notin {"idle", "waiting"}
                         \/ states["mozilla"] = "call" /\ events > 0
                         \/ lost

(* What the two sides rely on when they find each other's states.          *)
SyncInv == SyncTypeOK /\ DoneMeansServed /\ NobodyForgotten

(* The calls of a thread that have not returned: the lj_Run of mozilla at  *)
(* the bottom is that of the event, and no call.                           *)
Open == [t \in Thread |-> IF t = Mozilla /\ stack[t] # <<>> THEN Len(stack[t]) - 1
                                                          ELSE Len(stack[t])]

(* Whose turn it is, from what the two sides are doing.                    *)
Runs(t) == stack[t] # <<>> /\ pc[t] \in {"own", "xlock", "doit"}

Returns(t) == stack[t] # <<>> /\ Top(t).served = 1

Caller == IF Len(stack[Mozilla]) > Len(stack[owner]) THEN Mozilla ELSE owner

Turn ==
    IF owner = None \/ stack[owner] = <<>> THEN <<None, "none">>
    ELSE IF Runs(Mozilla) THEN <<Mozilla, "run">>
    ELSE IF Runs(owner) THEN <<owner, "run">>
    ELSE IF Returns(owner) THEN <<owner, "return">>
    ELSE IF Returns(Mozilla) THEN <<Mozilla, "return">>
    ELSE <<Caller, "ask">>

(* The two sides act like one thread with one stack: a callback is run by  *)
(* the other side, once for a call, and the calls return inside out.       *)
TheChain == INSTANCE CallChain WITH open <- Open, turn <- Turn

IsChain == TheChain!Spec

(* Every call from Java returns, if there is memory for the events.        *)
CallReturns ==
    \A t \in Java : pc[t] = "own" /\ stack[t] = <<>> ~> pc[t] = "idle" \/ lost
=============================================================================
