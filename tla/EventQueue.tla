----------------------------- MODULE EventQueue -----------------------------
(***************************************************************************)
(* The event queues through which Java threads have work done by the       *)
(* mozilla thread (nspr/src/prevent.c), with the selectable monitors they  *)
(* are built on (nspr/src/swmon.c), the callers that post for a window     *)
(* context (sun-java/netscape/net/javactxt.c), and the mozilla thread that *)
(* handles events and discards those of a context it is about to destroy   *)
(* (lib/libjava/lj_embed.c).                                               *)
(*                                                                         *)
(* An event is a piece of memory: it is allocated by a poster, freed by    *)
(* the mozilla thread, and may then be allocated again.  Its address is    *)
(* also that of a cached monitor, on which a synchronous poster waits.     *)
(***************************************************************************)
EXTENDS Links, FiniteSets

CONSTANTS
    Poster, Mozilla, None,
    Syncer,      \* the posters that make synchronous calls
    Queue,       \* the event queues; the program makes one
    Event, Context,
    MemoryFails, \* allocations may fail
    MaxConnect,  \* bound: streams connected after the start
    MaxToken     \* bound: bytes in a pipe, fewer than the pipe holds

ASSUME EventAssumption ==
    /\ None \notin Event \cup Context \cup Poster \cup Queue \cup {Mozilla}
    /\ Syncer \subseteq Poster /\ Mozilla \notin Poster
    /\ Poster \cap (Event \cup Queue) = {} /\ Mozilla \notin Queue
    /\ IsFiniteSet(Poster) /\ IsFiniteSet(Event)
    /\ MemoryFails \in BOOLEAN /\ MaxConnect \in Nat /\ MaxToken \in Nat

Thread == Poster \cup {Mozilla}

VARIABLES
    queue,       \* self->queue
    pipe,        \* bytes in mon->eventPipe
    notifyCount, \* of all queues
    owner,       \* self->monitor->owner
    count,       \* self->monitor->count
    maker,       \* who allocated an event, None if it is free memory
    context,     \* event->ce.context
    result,      \* event->synchronousResult
    eventOwner,  \* the owner of the cached monitor of an event
    pc,          \* what each thread does next
    at,          \* the queue it works on
    event,       \* its event
    frame,       \* the context of a thread's applet (frameMWContext)
    realContext, \* javaContextStreamData->realContext of its stream
    linkedTo,    \* whose list of javaContexts its stream is on
    connects,    \* streams connected so far
    alive,       \* contexts not destroyed
    closing      \* the context that the mozilla thread is destroying

queueVars   == <<queue, pipe, notifyCount>>
monitorVars == <<owner, count>>
eventVars   == <<maker, context, result, eventOwner>>
threadVars  == <<pc, at, event>>
streamVars  == <<frame, realContext, linkedTo, connects>>
contextVars == <<alive, closing>>
vars == <<queueVars, monitorVars, eventVars, threadVars, streamVars, contextVars>>

Init ==
    /\ queue = [q \in Queue |-> <<>>]
    /\ pipe = [q \in Queue |-> 0]
    /\ notifyCount = 0
    /\ owner = [q \in Queue |-> None]
    /\ count = [q \in Queue |-> 0]
    /\ maker = [e \in Event |-> None]
    /\ context = [e \in Event |-> None]
    /\ result = [e \in Event |-> "null"]
    /\ eventOwner = [e \in Event |-> None]
    /\ pc = [t \in Thread |-> "run"]
    /\ at \in [Thread -> Queue] /\ \A s, t \in Thread : at[s] = at[t]
    /\ event = [t \in Thread |-> None]
    /\ frame \in [Poster -> Context]
    /\ \E T \in SUBSET Poster :
         realContext = [t \in Poster |-> IF t \in T THEN frame[t] ELSE None]
    /\ linkedTo = realContext
    /\ connects = 0
    /\ alive = Context /\ closing = None
-----------------------------------------------------------------------------
(* PR_EnterMonitor and PR_ExitMonitor of a queue's monitor.                *)
Enter(t, q) ==
    /\ owner[q] \in {None, t}
    /\ owner' = [owner EXCEPT ![q] = t]
    /\ count' = [count EXCEPT ![q] = @ + 1]

Exit(q) ==
    /\ count' = [count EXCEPT ![q] = @ - 1]
    /\ owner' = [owner EXCEPT ![q] = IF count[q] = 1 THEN None ELSE @]

GoTo(t, next) == pc' = [pc EXCEPT ![t] = next]

(* The bounds: a post begins while there is room for its byte and for its  *)
(* event.                                                                  *)
Room(q) ==
    LET Posting == {t \in Poster : pc[t] \in {"look", "append", "notify"}} IN
    /\ pipe[q] + Cardinality(Posting) < MaxToken
    /\ \/ MemoryFails
       \/ Cardinality({e \in Event : maker[e] = None})
            > Cardinality({t \in Poster : pc[t] = "look"})

Allocated(t, e, c, synchronous) ==
    /\ maker[e] = None
    /\ maker' = [maker EXCEPT ![e] = t]
    /\ context' = [context EXCEPT ![e] = c]
    /\ result' = [result EXCEPT ![e] = synchronous]
    /\ event' = [event EXCEPT ![t] = e]
-----------------------------------------------------------------------------
(* nsn_Progress and the other functions of a stream's context: "Don't look *)
(* at the realContext until we've entered the monitor".                    *)
StartPost(t) ==
    /\ pc[t] = "run"
    /\ \E q \in Queue : /\ Room(q) /\ at' = [at EXCEPT ![t] = q]
                        /\ Enter(t, q)
    /\ GoTo(t, "look")
    /\ UNCHANGED <<queueVars, eventVars, event, streamVars, contextVars>>

(* Without memory nsn_Progress leaves the monitor, and                     *)
(* nsn_GraphProgress and its like return with the monitor entered; bound:  *)
(* a thread does that once.                                                *)
MakeEvent(t) ==
    /\ pc[t] = "look"
    /\ \/ /\ realContext[t] # None
          /\ \E e \in Event : Allocated(t, e, realContext[t], "null")
          /\ GoTo(t, "append")
       \/ /\ realContext[t] = None \/ MemoryFails
          /\ GoTo(t, "leave")
          /\ UNCHANGED <<maker, context, result, event>>
       \/ /\ realContext[t] # None /\ MemoryFails /\ count[at[t]] = 1
          /\ GoTo(t, "run")
          /\ UNCHANGED <<maker, context, result, event>>
    /\ UNCHANGED <<queueVars, monitorVars, eventOwner, at, streamVars, contextVars>>

(* fe_add_input by a thread other than mozilla: an event that is none.     *)
PostNull(t) ==
    /\ pc[t] = "run"
    /\ \E q \in Queue : Room(q) /\ at' = [at EXCEPT ![t] = q]
    /\ GoTo(t, "append")
    /\ UNCHANGED <<queueVars, monitorVars, eventVars, event, streamVars, contextVars>>

(* PR_PostSynchronousEvent, from inside the cached monitor of the event.   *)
PostSynchronous(t) ==
    /\ pc[t] = "run" /\ t \in Syncer /\ frame[t] # None
    /\ \E q \in Queue : Room(q) /\ at' = [at EXCEPT ![t] = q]
    /\ \E e \in Event : /\ eventOwner[e] = None
                        /\ eventOwner' = [eventOwner EXCEPT ![e] = t]
                        /\ Allocated(t, e, frame[t], "true")
    /\ GoTo(t, "append")
    /\ UNCHANGED <<queueVars, monitorVars, streamVars, contextVars>>

(* PR_PostEvent: enter the monitor, append the event, ...                  *)
PutFirst(s, e) == <<e>> \o s                    \* mutant of PutLast

PutLast(s, e) == Append(s, e)

PostEvent(t) ==
    /\ pc[t] = "append" /\ Enter(t, at[t])
    /\ queue' = IF event[t] = None THEN queue
                ELSE [queue EXCEPT ![at[t]] = PutLast(@, event[t])]
    /\ GoTo(t, "notify")
    /\ UNCHANGED <<pipe, notifyCount, eventVars, at, event, streamVars, contextVars>>

(* ... write one byte to the pipe, and leave.                              *)
NotifyNobody(q) == pipe                         \* mutant of Notified

Notified(q) == [pipe EXCEPT ![q] = @ + 1]

Synchronous(t) == event[t] # None /\ eventOwner[event[t]] = t

SelectNotify(t) ==
    /\ pc[t] = "notify"
    /\ pipe' = Notified(at[t])
    /\ notifyCount' = notifyCount + 1
    /\ GoTo(t, IF event[t] = None \/ Synchronous(t) THEN "leave" ELSE "leavePost")
    /\ UNCHANGED <<queue, monitorVars, eventVars, at, event, streamVars, contextVars>>

(* nsn_Progress and its like have entered the monitor a second time.       *)
LeavePost(t) ==
    /\ pc[t] = "leavePost" /\ Exit(at[t])
    /\ event' = [event EXCEPT ![t] = None]
    /\ GoTo(t, "leave")
    /\ UNCHANGED <<queueVars, eventVars, at, streamVars, contextVars>>

Leave(t) ==
    /\ pc[t] = "leave" /\ Exit(at[t])
    /\ GoTo(t, IF Synchronous(t) THEN "cwait" ELSE "run")
    /\ UNCHANGED <<queueVars, eventVars, at, event, streamVars, contextVars>>

(* The rest of PR_PostSynchronousEvent: wait, ...                          *)
CWait(t) ==
    /\ pc[t] = "cwait"
    /\ eventOwner' = [eventOwner EXCEPT ![event[t]] = None]
    /\ GoTo(t, "wait")
    /\ UNCHANGED <<queueVars, monitorVars, maker, context, result, at, event>>
    /\ UNCHANGED <<streamVars, contextVars>>

(* ... and read and clear the result.                                      *)
ReadResult(t) ==
    /\ pc[t] = "woken" /\ eventOwner[event[t]] = None
    /\ result' = [result EXCEPT ![event[t]] = "null"]
    /\ event' = [event EXCEPT ![t] = None]
    /\ GoTo(t, "run")
    /\ UNCHANGED <<queueVars, monitorVars, maker, context, eventOwner, at>>
    /\ UNCHANGED <<streamVars, contextVars>>
-----------------------------------------------------------------------------
(* The mozilla thread finds the pipe readable and calls LJ_ProcessEvent.   *)
Select ==
    /\ pc[Mozilla] = "run"
    /\ \E q \in Queue : pipe[q] > 0 /\ at' = [at EXCEPT ![Mozilla] = q]
    /\ GoTo(Mozilla, "get")
    /\ UNCHANGED <<queueVars, monitorVars, eventVars, event, streamVars, contextVars>>

(* PR_GetEvent: enter the monitor, ...                                     *)
GetEvent ==
    /\ pc[Mozilla] = "get" /\ Enter(Mozilla, at[Mozilla])
    /\ GoTo(Mozilla, "clear")
    /\ UNCHANGED <<queueVars, eventVars, at, event, streamVars, contextVars>>

(* ... take a byte out of the pipe, which blocks if there is none, ...     *)
ClearAll(q) == [pipe EXCEPT ![q] = 0]           \* mutant of Cleared

Cleared(q) == [pipe EXCEPT ![q] = @ - 1]

ClearSelectNotify ==
    LET q == at[Mozilla] IN
    /\ pc[Mozilla] = "clear"
    /\ \/ notifyCount <= 0 /\ UNCHANGED <<pipe, notifyCount>>
       \/ /\ notifyCount > 0 /\ pipe[q] > 0
          /\ pipe' = Cleared(q)
          /\ notifyCount' = notifyCount - 1
    /\ GoTo(Mozilla, "remove")
    /\ UNCHANGED <<queue, monitorVars, eventVars, at, event, streamVars, contextVars>>

(* ... and the first event off the queue.                                  *)
Removed(s) == Tail(s)

RemoveEvent ==
    LET q == at[Mozilla] IN
    /\ pc[Mozilla] = "remove"
    /\ \/ /\ queue[q] = <<>>
          /\ event' = [event EXCEPT ![Mozilla] = None]
          /\ UNCHANGED queue
       \/ /\ queue[q] # <<>>
          /\ event' = [event EXCEPT ![Mozilla] = Head(queue[q])]
          /\ queue' = [queue EXCEPT ![q] = Removed(@)]
    /\ GoTo(Mozilla, "leave")
    /\ UNCHANGED <<pipe, notifyCount, monitorVars, eventVars, at, streamVars, contextVars>>

LeaveQueue ==
    /\ pc[Mozilla] = "leave" /\ Exit(at[Mozilla])
    /\ GoTo(Mozilla, IF closing # None THEN "destroyContext"
                     ELSE IF event[Mozilla] # None THEN "handle" ELSE "run")
    /\ UNCHANGED <<queueVars, eventVars, at, event, streamVars, contextVars>>

(* PR_HandleEvent: run the handler, and if the event is synchronous ...    *)
HandleEvent ==
    /\ pc[Mozilla] = "handle"
    /\ GoTo(Mozilla, IF result[event[Mozilla]] = "null" THEN "destroy" ELSE "answer")
    /\ UNCHANGED <<queueVars, monitorVars, eventVars, at, event, streamVars, contextVars>>

(* ... tell its poster the result, from inside the event's monitor.        *)
AnswerAtOnce(e) == TRUE                         \* mutant of CanAnswer

CanAnswer(e) == eventOwner[e] = None

Answer ==
    LET e == event[Mozilla]
        W == {t \in Poster : pc[t] = "wait" /\ event[t] = e} IN
    /\ pc[Mozilla] = "answer" /\ CanAnswer(e)
    /\ result' = [result EXCEPT ![e] = "value"]
    /\ \/ W = {} /\ GoTo(Mozilla, "destroy")
       \/ \E t \in W : pc' = [pc EXCEPT ![Mozilla] = "destroy", ![t] = "woken"]
    /\ UNCHANGED <<queueVars, monitorVars, maker, context, eventOwner, at, event>>
    /\ UNCHANGED <<streamVars, contextVars>>

(* PR_DestroyEvent, and on to the next event.                              *)
DestroyEvent ==
    /\ pc[Mozilla] = "destroy"
    /\ maker' = [maker EXCEPT ![event[Mozilla]] = None]
    /\ event' = [event EXCEPT ![Mozilla] = None]
    /\ GoTo(Mozilla, "get")
    /\ UNCHANGED <<queueVars, monitorVars, context, result, eventOwner, at>>
    /\ UNCHANGED <<streamVars, contextVars>>
-----------------------------------------------------------------------------
(* A window is closed: its applets lose their context, ...                 *)
DetachContext(c) ==
    /\ pc[Mozilla] = "run" /\ c \in alive
    /\ closing' = c
    /\ frame' = [t \in Poster |-> IF frame[t] = c THEN None ELSE frame[t]]
    /\ \E q \in Queue : at' = [at EXCEPT ![Mozilla] = q]
    /\ GoTo(Mozilla, "discard")
    /\ UNCHANGED <<queueVars, monitorVars, eventVars, event>>
    /\ UNCHANGED <<realContext, linkedTo, connects, alive>>

(* ... then LJ_DiscardEventsForContext enters the monitor "so that no one  *)
(* else can post any events", ...                                          *)
StartDiscard ==
    /\ pc[Mozilla] = "discard" /\ Enter(Mozilla, at[Mozilla])
    /\ GoTo(Mozilla, "map")
    /\ UNCHANGED <<queueVars, eventVars, at, event, streamVars, contextVars>>

(* ... drops and destroys those pending one by one (PR_MapEvents; nobody   *)
(* can tell in which order), ...                                           *)
Mine(e) == context[e] = closing

DiscardEvents ==
    LET q == at[Mozilla]
        mine == {e \in ToSet(queue[q]) : Mine(e)} IN
    /\ pc[Mozilla] = "map"
    /\ \/ /\ mine = {}
          /\ GoTo(Mozilla, "break")
          /\ UNCHANGED <<queue, maker>>
       \/ \E e \in mine :
            /\ queue' = [queue EXCEPT ![q] = Without(@, e)]
            /\ maker' = [maker EXCEPT ![e] = None]
            /\ UNCHANGED pc
    /\ UNCHANGED <<pipe, notifyCount, monitorVars, context, result, eventOwner>>
    /\ UNCHANGED <<at, event, streamVars, contextVars>>

(* ... breaks the links of the streams to the context one by one, which    *)
(* closes them (nsn_JavaContext_breakLinkage), and leaves.                 *)
Untied(t) == linkedTo[t] # closing

LinkStays(t) == realContext                     \* mutant of LinkBroken

LinkBroken(t) == [realContext EXCEPT ![t] = None]

BreakLinkage ==
    /\ pc[Mozilla] = "break"
    /\ \/ /\ \A t \in Poster : Untied(t)
          /\ GoTo(Mozilla, "leave")
          /\ UNCHANGED <<realContext, linkedTo>>
       \/ \E t \in Poster :
            /\ ~Untied(t)
            /\ linkedTo' = [linkedTo EXCEPT ![t] = None]
            /\ realContext' = LinkBroken(t)
            /\ UNCHANGED pc
    /\ UNCHANGED <<queueVars, monitorVars, eventVars, at, event, frame, connects, contextVars>>

(* The front end frees the context.                                        *)
DestroyContext ==
    /\ pc[Mozilla] = "destroyContext"
    /\ alive' = alive \ {closing}
    /\ closing' = None
    /\ GoTo(Mozilla, "run")
    /\ UNCHANGED <<queueVars, monitorVars, eventVars, at, event, streamVars>>
-----------------------------------------------------------------------------
(* A Java thread makes a connection (URLConnection.pCreate): it takes the  *)
(* context of its applet, outside the monitor, ...                         *)
Connect(t) ==
    /\ pc[t] = "run" /\ connects < MaxConnect
    /\ linkedTo[t] = None /\ frame[t] # None
    /\ realContext' = [realContext EXCEPT ![t] = frame[t]]
    /\ connects' = connects + 1
    /\ GoTo(t, "link")
    /\ UNCHANGED <<queueVars, monitorVars, eventVars, at, event, frame, linkedTo, contextVars>>

(* ... and puts the stream on the list of that context                     *)
(* (nsn_JavaContext_make).                                                 *)
JavaContextMake(t) ==
    /\ pc[t] = "link"
    /\ linkedTo' = [linkedTo EXCEPT ![t] = realContext[t]]
    /\ GoTo(t, "run")
    /\ UNCHANGED <<queueVars, monitorVars, eventVars, at, event>>
    /\ UNCHANGED <<frame, realContext, connects, contextVars>>

(* Java closes the stream (nsn_JavaStream_javaClose), and netlib destroys  *)
(* its context in the monitor (nsn_JavaContext_destroy).                   *)
CloseStream(t) ==
    /\ pc[t] = "run" /\ realContext[t] # None
    /\ realContext' = [realContext EXCEPT ![t] = None]
    /\ UNCHANGED <<queueVars, monitorVars, eventVars, threadVars>>
    /\ UNCHANGED <<frame, linkedTo, connects, contextVars>>

JavaContextDestroy(t) ==
    /\ pc[t] = "run" /\ realContext[t] = None /\ linkedTo[t] # None
    /\ \A q \in Queue : owner[q] \in {None, t}
    /\ linkedTo' = [linkedTo EXCEPT ![t] = None]
    /\ UNCHANGED <<queueVars, monitorVars, eventVars, threadVars>>
    /\ UNCHANGED <<frame, realContext, connects, contextVars>>
-----------------------------------------------------------------------------
(* The steps inside a call.                                                *)
PosterStep(t) ==
    \/ MakeEvent(t) \/ PostEvent(t) \/ SelectNotify(t)
    \/ LeavePost(t) \/ Leave(t) \/ CWait(t) \/ ReadResult(t)
    \/ JavaContextMake(t)

Call(t) ==
    \/ StartPost(t) \/ PostNull(t) \/ PostSynchronous(t)
    \/ Connect(t) \/ CloseStream(t) \/ JavaContextDestroy(t)

ProcessEvent ==
    \/ Select \/ GetEvent \/ ClearSelectNotify \/ RemoveEvent \/ LeaveQueue
    \/ HandleEvent \/ Answer \/ DestroyEvent
    \/ StartDiscard \/ DiscardEvents \/ BreakLinkage \/ DestroyContext

Next ==
    \/ \E t \in Poster : Call(t) \/ PosterStep(t)
    \/ ProcessEvent
    \/ \E c \in Context : DetachContext(c)

Spec == Init /\ [][Next]_vars

(* The kernel hands monitors to their waiters in turn, so that steps that  *)
(* need one happen if it is free again and again; other steps are taken,   *)
(* and the toolkit looks at the pipe between user actions.                 *)
Fairness ==
    /\ \A t \in Poster : SF_vars(PosterStep(t))
    /\ SF_vars(ProcessEvent)

LiveSpec == Spec /\ Fairness
-----------------------------------------------------------------------------
(* Every variable keeps its type.                                          *)
EventTypeOK ==
    /\ queue \in [Queue -> Seq(Event)]
    /\ pipe \in [Queue -> Nat] /\ notifyCount \in Int
    /\ owner \in [Queue -> Thread \cup {None}] /\ count \in [Queue -> Nat]
    /\ maker \in [Event -> Poster \cup {None}]
    /\ context \in [Event -> Context \cup {None}]
    /\ result \in [Event -> {"null", "true", "value"}]
    /\ eventOwner \in [Event -> Poster \cup {None}]
    /\ pc \in [Thread -> {"run", "look", "append", "notify", "leavePost", "leave",
                        "cwait", "wait", "woken", "get", "clear", "remove", "handle",
                        "answer", "destroy", "discard", "map", "break",
                        "destroyContext", "link"}]
    /\ at \in [Thread -> Queue] /\ event \in [Thread -> Event \cup {None}]
    /\ frame \in [Poster -> Context \cup {None}]
    /\ realContext \in [Poster -> Context \cup {None}]
    /\ linkedTo \in [Poster -> Context \cup {None}]
    /\ connects \in 0 .. MaxConnect
    /\ alive \subseteq Context /\ closing \in Context \cup {None}

(* No wakeup is lost: for every event in the queue the pipe holds a byte,  *)
(* or the poster is about to write it, or the mozilla thread, which has    *)
(* just read it, is about to take the event.                               *)
Notifying(q) ==
    {t \in Poster : pc[t] = "notify" /\ at[t] = q /\ event[t] # None}

Taking(q) == IF pc[Mozilla] = "remove" /\ at[Mozilla] = q THEN 1 ELSE 0

NoLostWakeup ==
    \A q \in Queue :
        Len(queue[q]) <= pipe[q] + Cardinality(Notifying(q)) + Taking(q)

(* An event in use is in one place only: with the poster that is going to  *)
(* append it, once in the queue, or with the mozilla thread; so it is      *)
(* handled at most once, and freed once.                                   *)
Places(e) ==
    {t \in Poster : pc[t] = "append" /\ event[t] = e}
      \cup {q \in Queue : e \in ToSet(queue[q])}
      \cup {t \in {Mozilla} : event[t] = e}

EventsOnce ==
    /\ \A q \in Queue : IsTidy(queue[q])
    /\ \A e \in Event : IF maker[e] = None THEN Places(e) = {}
                        ELSE \E p \in Places(e) : Places(e) = {p}

(* PR_ClearSelectNotify finds the token it reads for: a read of an empty   *)
(* pipe would stop the process, with the monitor entered.                  *)
ReadFindsToken ==
    pc[Mozilla] = "clear" /\ notifyCount > 0 => pipe[at[Mozilla]] > 0

(* What the steps of posters and of the mozilla thread rely on.            *)
EventInv == EventTypeOK /\ EventsOnce /\ ReadFindsToken

(* No event of a stream that waits or is handled names a context that is   *)
(* destroyed: what LJ_DiscardEventsForContext is for.  (Only the streams   *)
(* there are at the start keep to it: a later one may be linked to its     *)
(* window too late; synchronous posters take their context unprotected.)   *)
NoEventForDeadContext ==
    connects = 0 =>
      \A e \in Event : maker[e] # None /\ result[e] = "null" =>
        context[e] \in alive \/ (pc[Mozilla] = "destroy" /\ event[Mozilla] = e)

(* The one event queue of the program is a mailbox of the mozilla thread.  *)
TheQueue == CHOOSE q \in Queue : TRUE

TheMailbox == INSTANCE Mailbox WITH box <- queue[TheQueue], busy <- event[Mozilla]

IsMailbox == TheMailbox!Spec

(* A poster that could not allocate its event has gone on with the monitor *)
(* of the queue entered.                                                   *)
Abandoned(q) == \E t \in Poster : owner[q] = t /\ pc[t] \in {"run", "wait"}

(* Every event posted is taken out of the queue, unless its monitor is     *)
(* abandoned.                                                              *)
EventsDelivered ==
    \A e \in Event, q \in Queue :
        Contains(queue[q], e) ~> ~Contains(queue[q], e) \/ Abandoned(q)

(* A synchronous poster goes on, if the window of its applet stays.        *)
SyncReturns ==
    \A t \in Syncer :
        pc[t] = "wait" ~> pc[t] # "wait" \/ frame[t] = None \/ Abandoned(at[t])
=============================================================================
