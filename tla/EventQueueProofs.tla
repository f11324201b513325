-------------------------- MODULE EventQueueProofs --------------------------
(***************************************************************************)
(* What EventQueue promises, for any number of posters, events and windows *)
(* and for the one event queue the program makes (Queue = {Q}).            *)
(*                                                                         *)
(* The inductive invariant IInv says where each thread is (Stages), who    *)
(* has entered the monitor (Entered), where each event is (Once) and that  *)
(* the counter of notifies is that of the pipe (Tokens); EventInv follows. *)
(* On it rest three more: NoLostWakeup, which is inductive beside IInv;    *)
(* NoEventForDeadContext, which needs Closing, why nothing is posted for a *)
(* window after its events are discarded; and the refinement of Mailbox.   *)
(***************************************************************************)
EXTENDS EventQueue, LinksProofs, FiniteSetTheorems

PosterPC == {"run", "look", "append", "notify", "leavePost", "leave", "cwait",
             "wait", "woken", "link"}

MozillaPC == {"run", "get", "clear", "remove", "leave", "handle", "answer",
              "destroy", "discard", "map", "break", "destroyContext"}

(* Where a thread is, and whether it has an event there.                   *)
Stages ==
    /\ \A t \in Poster :
         /\ pc[t] \in PosterPC
         /\ pc[t] \in {"run", "look", "link"} => event[t] = None
         /\ pc[t] \in {"leavePost", "cwait", "wait", "woken"} => event[t] # None
         /\ pc[t] = "leave" /\ event[t] # None => Synchronous(t)
         /\ pc[t] = "cwait" => Synchronous(t)
    /\ \A t \in Poster : \A e \in Event :
         eventOwner[e] = t =>
           t \in Syncer /\ event[t] = e /\ pc[t] \in {"append", "notify", "leave", "cwait"}
    /\ pc[Mozilla] \in MozillaPC
    /\ event[Mozilla] # None => pc[Mozilla] \in {"leave", "handle", "answer", "destroy"}
    /\ pc[Mozilla] \in {"handle", "answer", "destroy"} => event[Mozilla] # None
    /\ closing # None =>
         /\ event[Mozilla] = None
         /\ pc[Mozilla] \in {"discard", "map", "break", "leave", "destroyContext"}
    /\ pc[Mozilla] \in {"discard", "map", "break", "destroyContext"} => closing # None

(* Who has entered the monitor of a queue, and how often at least.         *)
Inside(t, n) == owner[at[t]] = t /\ count[at[t]] >= n

Entered ==
    /\ \A q \in Queue : owner[q] = None <=> count[q] = 0
    /\ \A t \in Poster :
         /\ pc[t] \in {"look", "notify", "leave"} => Inside(t, 1)
         /\ pc[t] = "append" /\ event[t] # None /\ ~Synchronous(t) => Inside(t, 1)
         /\ pc[t] = "notify" /\ event[t] # None /\ ~Synchronous(t) => Inside(t, 2)
         /\ pc[t] = "leavePost" => Inside(t, 2)
    /\ pc[Mozilla] \in {"clear", "remove", "leave", "map", "break"} =>
         owner[at[Mozilla]] = Mozilla
    /\ \A q \in Queue : owner[q] = Mozilla =>
         /\ count[q] = 1
         /\ pc[Mozilla] \in {"clear", "remove", "leave", "map", "break"}

(* Events as EventsOnce has them, told by place.                           *)
Appends(t, e) == pc[t] = "append" /\ event[t] = e

InQueue(e) == \E q \in Queue : e \in ToSet(queue[q])

Once ==
    /\ \A q \in Queue : IsTidy(queue[q])
    /\ \A t, u \in Poster : \A e \in Event : Appends(t, e) /\ Appends(u, e) => t = u
    /\ \A e \in Event :
         /\ \A t \in Poster : Appends(t, e) =>
              maker[e] # None /\ ~InQueue(e) /\ event[Mozilla] # e
         /\ InQueue(e) => maker[e] # None /\ event[Mozilla] # e
         /\ event[Mozilla] = e => maker[e] # None
         /\ maker[e] # None =>
              (\E t \in Poster : Appends(t, e)) \/ InQueue(e) \/ event[Mozilla] = e

(* The counter is that of the one pipe.                                    *)
Tokens == \A q \in Queue : pipe[q] = notifyCount

IInv == EventTypeOK /\ Stages /\ Entered /\ Once /\ Tokens

-----------------------------------------------------------------------------
(* The events of streams: those that nobody waits for.                     *)
Pending(e) == maker[e] # None /\ result[e] = "null"

Dropped == closing # None /\ pc[Mozilla] \in {"break", "leave", "destroyContext"}

(* While no stream is made, those there are are linked to the windows they *)
(* post for; so a window that is about to be destroyed has none.           *)
Linked ==
    /\ \A t \in Poster : pc[t] # "link"
    /\ \A t \in Poster : realContext[t] # None =>
         realContext[t] = linkedTo[t] /\ realContext[t] \in alive
    /\ closing # None => closing \in alive
    /\ closing # None /\ pc[Mozilla] \in {"leave", "destroyContext"} =>
         \A t \in Poster : realContext[t] # closing
    /\ Dropped => \A e \in Event : Pending(e) => context[e] # closing

(* What the result of a synchronous event is, where it could be taken for  *)
(* that of another.                                                        *)
Results ==
    /\ \A t \in Poster :
         /\ pc[t] = "append" /\ event[t] # None /\ Synchronous(t) =>
              result[event[t]] = "true"
         /\ pc[t] \in {"wait", "woken"} => t \in Syncer
         /\ pc[t] = "woken" =>
              \/ maker[event[t]] = None
              \/ pc[Mozilla] = "destroy" /\ event[Mozilla] = event[t]
              \/ result[event[t]] = "null"
    /\ pc[Mozilla] = "answer" => result[event[Mozilla]] # "null"

Closing == Results /\ (connects = 0 => Linked) /\ NoEventForDeadContext
-----------------------------------------------------------------------------
USE DEF GoTo, Enter, Exit, Allocated, Thread, queueVars, monitorVars, eventVars,
        threadVars, streamVars, contextVars

(* Every step keeps the types.                                             *)
LEMMA TypeKept ==
    ASSUME NEW Q, Queue = {Q}, EventTypeOK, Stages, Entered, Once, Next
    PROVE  EventTypeOK'
<1>1. ASSUME NEW t \in Poster, StartPost(t) PROVE EventTypeOK'
  BY <1>1, EventAssumption DEF StartPost, EventTypeOK
<1>2. ASSUME NEW t \in Poster, MakeEvent(t) PROVE EventTypeOK'
  <2>1. CASE \E e \in Event : Allocated(t, e, realContext[t], "null")
    <3>1. PICK e \in Event : Allocated(t, e, realContext[t], "null")
      BY <2>1
    <3>2. /\ maker' \in [Event -> Poster \cup {None}]
          /\ context' \in [Event -> Context \cup {None}]
          /\ result' \in [Event -> {"null", "true", "value"}]
          /\ event' \in [Thread -> Event \cup {None}]
      BY <3>1 DEF EventTypeOK
    <3>3. pc' \in [Thread -> PosterPC \cup MozillaPC]
      BY <1>2 DEF MakeEvent, EventTypeOK, PosterPC, MozillaPC
    <3> QED BY <1>2, <3>2, <3>3 DEF MakeEvent, EventTypeOK, PosterPC, MozillaPC
  <2>2. CASE UNCHANGED <<maker, context, result, event>>
    BY <1>2, <2>2, EventAssumption DEF MakeEvent, EventTypeOK
  <2> QED BY <1>2, <2>1, <2>2 DEF MakeEvent
<1>3. ASSUME NEW t \in Poster, PostNull(t) PROVE EventTypeOK'
  BY <1>3, EventAssumption DEF PostNull, EventTypeOK
<1>4. ASSUME NEW t \in Poster, PostSynchronous(t) PROVE EventTypeOK'
  BY <1>4, EventAssumption DEF PostSynchronous, EventTypeOK
<1>5. ASSUME NEW t \in Poster, PostEvent(t) PROVE EventTypeOK'
  BY <1>5, EventAssumption DEF PostEvent, PutLast, EventTypeOK
<1>6. ASSUME NEW t \in Poster, SelectNotify(t) PROVE EventTypeOK'
  BY <1>6, EventAssumption DEF SelectNotify, Notified, EventTypeOK
<1>7. ASSUME NEW t \in Poster, LeavePost(t) PROVE EventTypeOK'
  BY <1>7, EventAssumption DEF LeavePost, Entered, Inside, EventTypeOK
<1>8. ASSUME NEW t \in Poster, Leave(t) PROVE EventTypeOK'
  BY <1>8, EventAssumption DEF Leave, Entered, Inside, EventTypeOK
<1>9. ASSUME NEW t \in Poster, CWait(t) PROVE EventTypeOK'
  BY <1>9, EventAssumption DEF CWait, EventTypeOK
<1>10. ASSUME NEW t \in Poster, ReadResult(t) PROVE EventTypeOK'
  BY <1>10, EventAssumption DEF ReadResult, EventTypeOK
<1>11. ASSUME NEW t \in Poster, Connect(t) PROVE EventTypeOK'
  BY <1>11, EventAssumption DEF Connect, EventTypeOK
<1>12. ASSUME NEW t \in Poster, JavaContextMake(t) PROVE EventTypeOK'
  BY <1>12, EventAssumption DEF JavaContextMake, EventTypeOK
<1>13. ASSUME NEW t \in Poster, CloseStream(t) PROVE EventTypeOK'
  BY <1>13, EventAssumption DEF CloseStream, EventTypeOK
<1>14. ASSUME NEW t \in Poster, JavaContextDestroy(t) PROVE EventTypeOK'
  BY <1>14, EventAssumption DEF JavaContextDestroy, EventTypeOK
<1>15. CASE Select
  BY <1>15, EventAssumption DEF Select, EventTypeOK
<1>16. CASE GetEvent
  BY <1>16, EventAssumption DEF GetEvent, EventTypeOK
<1>17. CASE ClearSelectNotify
  BY <1>17, EventAssumption DEF ClearSelectNotify, Cleared, EventTypeOK
<1>18. CASE RemoveEvent
  <2>1. CASE UNCHANGED queue
    BY <1>18, <2>1, EventAssumption DEF RemoveEvent, EventTypeOK
  <2>2. CASE queue[Q] # <<>>
    <3>1. Head(queue[Q]) \in Event /\ Tail(queue[Q]) \in Seq(Event)
      BY <2>2, HeadTailProperties DEF EventTypeOK
    <3>2. at[Mozilla] = Q
      BY DEF EventTypeOK
    <3>3. /\ queue' = [queue EXCEPT ![Q] = Tail(queue[Q])]
          /\ event' = [event EXCEPT ![Mozilla] = Head(queue[Q])]
      BY <1>18, <2>2, <3>2 DEF RemoveEvent, Removed
    <3>4. queue' \in [Queue -> Seq(Event)] /\ event' \in [Thread -> Event \cup {None}]
      BY <3>1, <3>3 DEF EventTypeOK
    <3> QED BY <1>18, <3>4 DEF RemoveEvent, EventTypeOK
  <2> QED BY <1>18, <2>1, <2>2 DEF RemoveEvent, EventTypeOK
<1>19. CASE LeaveQueue
  BY <1>19, EventAssumption DEF LeaveQueue, Entered, Inside, EventTypeOK
<1>20. CASE HandleEvent
  BY <1>20, EventAssumption DEF HandleEvent, EventTypeOK
<1>21. CASE Answer
  <2>1. result' \in [Event -> {"null", "true", "value"}]
    BY <1>21 DEF Answer, EventTypeOK
  <2>2. pc' \in [Thread -> PosterPC \cup MozillaPC]
    BY <1>21 DEF Answer, EventTypeOK, PosterPC, MozillaPC
  <2> QED BY <1>21, <2>1, <2>2 DEF Answer, EventTypeOK, PosterPC, MozillaPC
<1>22. CASE DestroyEvent
  BY <1>22, EventAssumption DEF DestroyEvent, EventTypeOK
<1>23. CASE StartDiscard
  BY <1>23, EventAssumption DEF StartDiscard, EventTypeOK
<1>24. CASE DiscardEvents
  BY <1>24, EventAssumption, WithoutLemma, SMTT(30) DEF DiscardEvents, Once, EventTypeOK
<1>25. CASE BreakLinkage
  <2>1. pc' \in [Thread -> PosterPC \cup MozillaPC]
    BY <1>25 DEF BreakLinkage, EventTypeOK, PosterPC, MozillaPC
  <2>2. /\ realContext' \in [Poster -> Context \cup {None}]
        /\ linkedTo' \in [Poster -> Context \cup {None}]
    BY <1>25 DEF BreakLinkage, LinkBroken, EventTypeOK
  <2> QED BY <1>25, <2>1, <2>2 DEF BreakLinkage, EventTypeOK, PosterPC, MozillaPC
<1>26. CASE DestroyContext
  BY <1>26, EventAssumption DEF DestroyContext, EventTypeOK
<1>27. ASSUME NEW c \in Context, DetachContext(c) PROVE EventTypeOK'
  BY <1>27, EventAssumption DEF DetachContext, EventTypeOK
<1> QED BY <1>1, <1>2, <1>3, <1>4, <1>5, <1>6, <1>7, <1>8, <1>9, <1>10, <1>11, <1>12,
           <1>13, <1>14, <1>15, <1>16, <1>17, <1>18, <1>19, <1>20, <1>21, <1>22, <1>23,
           <1>24, <1>25, <1>26, <1>27
           DEF Next, Call, PosterStep, ProcessEvent

(* The mozilla thread stays at, or goes on from, a loop of the discarding. *)
LEMMA MozillaMoves ==
    ASSUME EventTypeOK, Stages, pc[Mozilla] \in {"map", "break"},
           UNCHANGED <<event, eventOwner, closing>>,
           \/ pc' = pc
           \/ pc' = [pc EXCEPT ![Mozilla] = "break"]
           \/ pc' = [pc EXCEPT ![Mozilla] = "leave"]
    PROVE  Stages'
<1>1. \A t \in Poster : pc'[t] = pc[t]
  BY EventAssumption DEF EventTypeOK
<1>2. \A t \in Poster : Synchronous(t)' <=> Synchronous(t)
  BY DEF Synchronous
<1>3. pc'[Mozilla] \in {"map", "break", "leave"} /\ event[Mozilla] = None /\ closing # None
  BY DEF EventTypeOK, Stages
<1> QED BY <1>1, <1>2, <1>3 DEF Stages, MozillaPC

(* Every step keeps the stages.                                            *)
LEMMA StagesKept ==
    ASSUME NEW Q, Queue = {Q}, EventTypeOK, Stages, Next
    PROVE  Stages'
<1>1. ASSUME NEW t \in Poster, StartPost(t) PROVE Stages'
  BY <1>1, EventAssumption
     DEF StartPost, EventTypeOK, Stages, Synchronous, PosterPC, MozillaPC
<1>2. ASSUME NEW t \in Poster, MakeEvent(t) PROVE Stages'
  BY <1>2, EventAssumption
     DEF MakeEvent, EventTypeOK, Stages, Synchronous, PosterPC, MozillaPC
<1>3. ASSUME NEW t \in Poster, PostNull(t) PROVE Stages'
  BY <1>3, EventAssumption
     DEF PostNull, EventTypeOK, Stages, Synchronous, PosterPC, MozillaPC
<1>4. ASSUME NEW t \in Poster, PostSynchronous(t) PROVE Stages'
  BY <1>4, EventAssumption
     DEF PostSynchronous, EventTypeOK, Stages, Synchronous, PosterPC, MozillaPC
<1>5. ASSUME NEW t \in Poster, PostEvent(t) PROVE Stages'
  BY <1>5, EventAssumption
     DEF PostEvent, EventTypeOK, Stages, Synchronous, PosterPC, MozillaPC
<1>6. ASSUME NEW t \in Poster, SelectNotify(t) PROVE Stages'
  BY <1>6, EventAssumption
     DEF SelectNotify, EventTypeOK, Stages, Synchronous, PosterPC, MozillaPC
<1>7. ASSUME NEW t \in Poster, LeavePost(t) PROVE Stages'
  BY <1>7, EventAssumption
     DEF LeavePost, EventTypeOK, Stages, Synchronous, PosterPC, MozillaPC
<1>8. ASSUME NEW t \in Poster, Leave(t) PROVE Stages'
  BY <1>8, EventAssumption DEF Leave, EventTypeOK, Stages, Synchronous, PosterPC, MozillaPC
<1>9. ASSUME NEW t \in Poster, CWait(t) PROVE Stages'
  BY <1>9, EventAssumption DEF CWait, EventTypeOK, Stages, Synchronous, PosterPC, MozillaPC
<1>10. ASSUME NEW t \in Poster, ReadResult(t) PROVE Stages'
  BY <1>10, EventAssumption
     DEF ReadResult, EventTypeOK, Stages, Synchronous, PosterPC, MozillaPC
<1>11. ASSUME NEW t \in Poster, Connect(t) PROVE Stages'
  BY <1>11, EventAssumption
     DEF Connect, EventTypeOK, Stages, Synchronous, PosterPC, MozillaPC
<1>12. ASSUME NEW t \in Poster, JavaContextMake(t) PROVE Stages'
  BY <1>12, EventAssumption
     DEF JavaContextMake, EventTypeOK, Stages, Synchronous, PosterPC, MozillaPC
<1>13. ASSUME NEW t \in Poster, CloseStream(t) PROVE Stages'
  BY <1>13, EventAssumption
     DEF CloseStream, EventTypeOK, Stages, Synchronous, PosterPC, MozillaPC
<1>14. ASSUME NEW t \in Poster, JavaContextDestroy(t) PROVE Stages'
  BY <1>14, EventAssumption
     DEF JavaContextDestroy, EventTypeOK, Stages, Synchronous, PosterPC, MozillaPC
<1>15. CASE Select
  BY <1>15, EventAssumption
     DEF Select, EventTypeOK, Stages, Synchronous, PosterPC, MozillaPC
<1>16. CASE GetEvent
  BY <1>16, EventAssumption
     DEF GetEvent, EventTypeOK, Stages, Synchronous, PosterPC, MozillaPC
<1>17. CASE ClearSelectNotify
  BY <1>17, EventAssumption
     DEF ClearSelectNotify, EventTypeOK, Stages, Synchronous, PosterPC, MozillaPC
<1>18. CASE RemoveEvent
  BY <1>18, EventAssumption
     DEF RemoveEvent, EventTypeOK, Stages, Synchronous, PosterPC, MozillaPC
<1>19. CASE LeaveQueue
  BY <1>19, EventAssumption
     DEF LeaveQueue, EventTypeOK, Stages, Synchronous, PosterPC, MozillaPC
<1>20. CASE HandleEvent
  BY <1>20, EventAssumption
     DEF HandleEvent, EventTypeOK, Stages, Synchronous, PosterPC, MozillaPC
<1>21. CASE Answer
  BY <1>21, EventAssumption
     DEF Answer, EventTypeOK, Stages, Synchronous, PosterPC, MozillaPC
<1>22. CASE DestroyEvent
  BY <1>22, EventAssumption
     DEF DestroyEvent, EventTypeOK, Stages, Synchronous, PosterPC, MozillaPC
<1>23. CASE StartDiscard
  BY <1>23, EventAssumption
     DEF StartDiscard, EventTypeOK, Stages, Synchronous, PosterPC, MozillaPC
<1>24. CASE DiscardEvents
  <2>1. /\ pc[Mozilla] = "map" /\ UNCHANGED <<event, eventOwner, closing>>
        /\ pc' = pc \/ pc' = [pc EXCEPT ![Mozilla] = "break"]
    BY <1>24 DEF DiscardEvents
  <2> QED BY <2>1, MozillaMoves
<1>25. CASE BreakLinkage
  <2>1. /\ pc[Mozilla] = "break" /\ UNCHANGED <<event, eventOwner, closing>>
        /\ pc' = pc \/ pc' = [pc EXCEPT ![Mozilla] = "leave"]
    BY <1>25 DEF BreakLinkage
  <2> QED BY <2>1, MozillaMoves
<1>26. CASE DestroyContext
  BY <1>26, EventAssumption
     DEF DestroyContext, EventTypeOK, Stages, Synchronous, PosterPC, MozillaPC
<1>27. ASSUME NEW c \in Context, DetachContext(c) PROVE Stages'
  BY <1>27, EventAssumption
     DEF DetachContext, EventTypeOK, Stages, Synchronous, PosterPC, MozillaPC
<1> QED BY <1>1, <1>2, <1>3, <1>4, <1>5, <1>6, <1>7, <1>8, <1>9, <1>10, <1>11, <1>12,
           <1>13, <1>14, <1>15, <1>16, <1>17, <1>18, <1>19, <1>20, <1>21, <1>22, <1>23,
           <1>24, <1>25, <1>26, <1>27
           DEF Next, Call, PosterStep, ProcessEvent

(* Every step keeps count of who has entered the monitor.                  *)
LEMMA EnteredKept ==
    ASSUME NEW Q, Queue = {Q}, EventTypeOK, Stages, Entered, Next
    PROVE  Entered'
<1>1. ASSUME NEW t \in Poster, StartPost(t) PROVE Entered'
  BY <1>1, EventAssumption DEF StartPost, EventTypeOK, Stages, Synchronous, Entered, Inside
<1>2. ASSUME NEW t \in Poster, MakeEvent(t) PROVE Entered'
  BY <1>2, EventAssumption DEF MakeEvent, EventTypeOK, Stages, Synchronous, Entered, Inside
<1>3. ASSUME NEW t \in Poster, PostNull(t) PROVE Entered'
  BY <1>3, EventAssumption DEF PostNull, EventTypeOK, Stages, Synchronous, Entered, Inside
<1>4. ASSUME NEW t \in Poster, PostSynchronous(t) PROVE Entered'
  BY <1>4, EventAssumption
     DEF PostSynchronous, EventTypeOK, Stages, Synchronous, Entered, Inside
<1>5. ASSUME NEW t \in Poster, PostEvent(t) PROVE Entered'
  BY <1>5, EventAssumption DEF PostEvent, EventTypeOK, Stages, Synchronous, Entered, Inside
<1>6. ASSUME NEW t \in Poster, SelectNotify(t) PROVE Entered'
  BY <1>6, EventAssumption
     DEF SelectNotify, EventTypeOK, Stages, Synchronous, Entered, Inside
<1>7. ASSUME NEW t \in Poster, LeavePost(t) PROVE Entered'
  BY <1>7, EventAssumption DEF LeavePost, EventTypeOK, Stages, Synchronous, Entered, Inside
<1>8. ASSUME NEW t \in Poster, Leave(t) PROVE Entered'
  BY <1>8, EventAssumption DEF Leave, EventTypeOK, Stages, Synchronous, Entered, Inside
<1>9. ASSUME NEW t \in Poster, CWait(t) PROVE Entered'
  BY <1>9, EventAssumption DEF CWait, EventTypeOK, Stages, Synchronous, Entered, Inside
<1>10. ASSUME NEW t \in Poster, ReadResult(t) PROVE Entered'
  BY <1>10, EventAssumption
     DEF ReadResult, EventTypeOK, Stages, Synchronous, Entered, Inside
<1>11. ASSUME NEW t \in Poster, Connect(t) PROVE Entered'
  BY <1>11, EventAssumption DEF Connect, EventTypeOK, Stages, Synchronous, Entered, Inside
<1>12. ASSUME NEW t \in Poster, JavaContextMake(t) PROVE Entered'
  BY <1>12, EventAssumption
     DEF JavaContextMake, EventTypeOK, Stages, Synchronous, Entered, Inside
<1>13. ASSUME NEW t \in Poster, CloseStream(t) PROVE Entered'
  BY <1>13, EventAssumption
     DEF CloseStream, EventTypeOK, Stages, Synchronous, Entered, Inside
<1>14. ASSUME NEW t \in Poster, JavaContextDestroy(t) PROVE Entered'
  BY <1>14, EventAssumption
     DEF JavaContextDestroy, EventTypeOK, Stages, Synchronous, Entered, Inside
<1>15. CASE Select
  BY <1>15, EventAssumption DEF Select, EventTypeOK, Stages, Synchronous, Entered, Inside
<1>16. CASE GetEvent
  BY <1>16, EventAssumption DEF GetEvent, EventTypeOK, Stages, Synchronous, Entered, Inside
<1>17. CASE ClearSelectNotify
  BY <1>17, EventAssumption
     DEF ClearSelectNotify, EventTypeOK, Stages, Synchronous, Entered, Inside
<1>18. CASE RemoveEvent
  BY <1>18, EventAssumption
     DEF RemoveEvent, EventTypeOK, Stages, Synchronous, Entered, Inside
<1>19. CASE LeaveQueue
  BY <1>19, EventAssumption
     DEF LeaveQueue, EventTypeOK, Stages, Synchronous, Entered, Inside
<1>20. CASE HandleEvent
  BY <1>20, EventAssumption
     DEF HandleEvent, EventTypeOK, Stages, Synchronous, Entered, Inside
<1>21. CASE Answer
  BY <1>21, EventAssumption DEF Answer, EventTypeOK, Stages, Synchronous, Entered, Inside
<1>22. CASE DestroyEvent
  BY <1>22, EventAssumption
     DEF DestroyEvent, EventTypeOK, Stages, Synchronous, Entered, Inside
<1>23. CASE StartDiscard
  BY <1>23, EventAssumption
     DEF StartDiscard, EventTypeOK, Stages, Synchronous, Entered, Inside
<1>24. CASE DiscardEvents
  BY <1>24, EventAssumption
     DEF DiscardEvents, EventTypeOK, Stages, Synchronous, Entered, Inside
<1>25. CASE BreakLinkage
  BY <1>25, EventAssumption
     DEF BreakLinkage, EventTypeOK, Stages, Synchronous, Entered, Inside
<1>26. CASE DestroyContext
  BY <1>26, EventAssumption
     DEF DestroyContext, EventTypeOK, Stages, Synchronous, Entered, Inside
<1>27. ASSUME NEW c \in Context, DetachContext(c) PROVE Entered'
  BY <1>27, EventAssumption
     DEF DetachContext, EventTypeOK, Stages, Synchronous, Entered, Inside
<1> QED BY <1>1, <1>2, <1>3, <1>4, <1>5, <1>6, <1>7, <1>8, <1>9, <1>10, <1>11, <1>12,
           <1>13, <1>14, <1>15, <1>16, <1>17, <1>18, <1>19, <1>20, <1>21, <1>22, <1>23,
           <1>24, <1>25, <1>26, <1>27
           DEF Next, Call, PosterStep, ProcessEvent

(* The counter and the pipe change together.                               *)
LEMMA TokensKept ==
    ASSUME NEW Q, Queue = {Q}, EventTypeOK, Tokens, Next
    PROVE  Tokens'
<1>1. ASSUME NEW t \in Poster, StartPost(t) PROVE Tokens'
  BY <1>1, EventAssumption DEF StartPost, EventTypeOK, Tokens, Notified, Cleared
<1>2. ASSUME NEW t \in Poster, MakeEvent(t) PROVE Tokens'
  BY <1>2, EventAssumption DEF MakeEvent, EventTypeOK, Tokens, Notified, Cleared
<1>3. ASSUME NEW t \in Poster, PostNull(t) PROVE Tokens'
  BY <1>3, EventAssumption DEF PostNull, EventTypeOK, Tokens, Notified, Cleared
<1>4. ASSUME NEW t \in Poster, PostSynchronous(t) PROVE Tokens'
  BY <1>4, EventAssumption DEF PostSynchronous, EventTypeOK, Tokens, Notified, Cleared
<1>5. ASSUME NEW t \in Poster, PostEvent(t) PROVE Tokens'
  BY <1>5, EventAssumption DEF PostEvent, EventTypeOK, Tokens, Notified, Cleared
<1>6. ASSUME NEW t \in Poster, SelectNotify(t) PROVE Tokens'
  BY <1>6, EventAssumption DEF SelectNotify, EventTypeOK, Tokens, Notified, Cleared
<1>7. ASSUME NEW t \in Poster, LeavePost(t) PROVE Tokens'
  BY <1>7, EventAssumption DEF LeavePost, EventTypeOK, Tokens, Notified, Cleared
<1>8. ASSUME NEW t \in Poster, Leave(t) PROVE Tokens'
  BY <1>8, EventAssumption DEF Leave, EventTypeOK, Tokens, Notified, Cleared
<1>9. ASSUME NEW t \in Poster, CWait(t) PROVE Tokens'
  BY <1>9, EventAssumption DEF CWait, EventTypeOK, Tokens, Notified, Cleared
<1>10. ASSUME NEW t \in Poster, ReadResult(t) PROVE Tokens'
  BY <1>10, EventAssumption DEF ReadResult, EventTypeOK, Tokens, Notified, Cleared
<1>11. ASSUME NEW t \in Poster, Connect(t) PROVE Tokens'
  BY <1>11, EventAssumption DEF Connect, EventTypeOK, Tokens, Notified, Cleared
<1>12. ASSUME NEW t \in Poster, JavaContextMake(t) PROVE Tokens'
  BY <1>12, EventAssumption DEF JavaContextMake, EventTypeOK, Tokens, Notified, Cleared
<1>13. ASSUME NEW t \in Poster, CloseStream(t) PROVE Tokens'
  BY <1>13, EventAssumption DEF CloseStream, EventTypeOK, Tokens, Notified, Cleared
<1>14. ASSUME NEW t \in Poster, JavaContextDestroy(t) PROVE Tokens'
  BY <1>14, EventAssumption DEF JavaContextDestroy, EventTypeOK, Tokens, Notified, Cleared
<1>15. CASE Select
  BY <1>15, EventAssumption DEF Select, EventTypeOK, Tokens, Notified, Cleared
<1>16. CASE GetEvent
  BY <1>16, EventAssumption DEF GetEvent, EventTypeOK, Tokens, Notified, Cleared
<1>17. CASE ClearSelectNotify
  BY <1>17, EventAssumption DEF ClearSelectNotify, EventTypeOK, Tokens, Notified, Cleared
<1>18. CASE RemoveEvent
  BY <1>18, EventAssumption DEF RemoveEvent, EventTypeOK, Tokens, Notified, Cleared
<1>19. CASE LeaveQueue
  BY <1>19, EventAssumption DEF LeaveQueue, EventTypeOK, Tokens, Notified, Cleared
<1>20. CASE HandleEvent
  BY <1>20, EventAssumption DEF HandleEvent, EventTypeOK, Tokens, Notified, Cleared
<1>21. CASE Answer
  BY <1>21, EventAssumption DEF Answer, EventTypeOK, Tokens, Notified, Cleared
<1>22. CASE DestroyEvent
  BY <1>22, EventAssumption DEF DestroyEvent, EventTypeOK, Tokens, Notified, Cleared
<1>23. CASE StartDiscard
  BY <1>23, EventAssumption DEF StartDiscard, EventTypeOK, Tokens, Notified, Cleared
<1>24. CASE DiscardEvents
  BY <1>24, EventAssumption DEF DiscardEvents, EventTypeOK, Tokens, Notified, Cleared
<1>25. CASE BreakLinkage
  BY <1>25, EventAssumption DEF BreakLinkage, EventTypeOK, Tokens, Notified, Cleared
<1>26. CASE DestroyContext
  BY <1>26, EventAssumption DEF DestroyContext, EventTypeOK, Tokens, Notified, Cleared
<1>27. ASSUME NEW c \in Context, DetachContext(c) PROVE Tokens'
  BY <1>27, EventAssumption DEF DetachContext, EventTypeOK, Tokens, Notified, Cleared
<1> QED BY <1>1, <1>2, <1>3, <1>4, <1>5, <1>6, <1>7, <1>8, <1>9, <1>10, <1>11, <1>12,
           <1>13, <1>14, <1>15, <1>16, <1>17, <1>18, <1>19, <1>20, <1>21, <1>22, <1>23,
           <1>24, <1>25, <1>26, <1>27
           DEF Next, Call, PosterStep, ProcessEvent

(* Steps that move no event.                                               *)
LEMMA OnceFrame ==
    ASSUME Once, queue' = queue, maker' = maker, event'[Mozilla] = event[Mozilla],
           \A t \in Poster : \A e \in Event : Appends(t, e)' <=> Appends(t, e)
    PROVE  Once'
BY DEF Once, InQueue

(* An event in use stays in one place.                                     *)
LEMMA OnceKept ==
    ASSUME NEW Q, Queue = {Q}, EventTypeOK, Stages, Once, Next
    PROVE  Once'
<1>1. ASSUME NEW t \in Poster, StartPost(t) PROVE Once'
  BY <1>1, EventAssumption
     DEF StartPost, Once, Appends, InQueue, EventTypeOK, Stages, PosterPC, MozillaPC
<1>2. ASSUME NEW t \in Poster, MakeEvent(t) PROVE Once'
  <2>1. CASE UNCHANGED <<maker, event>>
    BY <1>2, <2>1, EventAssumption, OnceFrame
       DEF MakeEvent, Appends, EventTypeOK, Stages
  <2>2. CASE ~UNCHANGED <<maker, event>>
    <3>1. PICK e \in Event : Allocated(t, e, realContext[t], "null") /\ GoTo(t, "append")
      BY <1>2, <2>2 DEF MakeEvent
    <3>2. /\ maker[e] = None /\ maker' = [maker EXCEPT ![e] = t] /\ queue' = queue
          /\ event' = [event EXCEPT ![t] = e] /\ pc' = [pc EXCEPT ![t] = "append"]
          /\ pc[t] = "look"
      BY <1>2, <3>1 DEF MakeEvent
    <3>3. \A u \in Poster, d \in Event : Appends(u, d)' <=> Appends(u, d) \/ (u = t /\ d = e)
      BY <3>2, EventAssumption DEF Appends, EventTypeOK
    <3>4. event'[Mozilla] = event[Mozilla] /\ maker'[e] # None
          /\ \A d \in Event : d # e => maker'[d] = maker[d]
      BY <3>2, EventAssumption DEF EventTypeOK
    <3>5. \A u \in Poster : ~Appends(u, e)
      BY <3>2 DEF Once
    <3>6. ~InQueue(e) /\ event[Mozilla] # e
      BY <3>2 DEF Once
    <3>7. \A d \in Event : InQueue(d)' <=> InQueue(d)
      BY <3>2 DEF InQueue
    <3> QED BY <3>2, <3>3, <3>4, <3>5, <3>6, <3>7 DEF Once
  <2> QED BY <2>1, <2>2
<1>3. ASSUME NEW t \in Poster, PostNull(t) PROVE Once'
  BY <1>3, EventAssumption
     DEF PostNull, Once, Appends, InQueue, EventTypeOK, Stages, PosterPC, MozillaPC
<1>4. ASSUME NEW t \in Poster, PostSynchronous(t) PROVE Once'
  BY <1>4, EventAssumption
     DEF PostSynchronous, Once, Appends, InQueue, EventTypeOK, Stages, PosterPC,
         MozillaPC
<1>5. ASSUME NEW t \in Poster, PostEvent(t) PROVE Once'
  <2>1. at[t] = Q /\ pc[t] = "append" /\ pc' = [pc EXCEPT ![t] = "notify"]
    BY <1>5 DEF PostEvent, EventTypeOK
  <2>2. CASE event[t] = None
    BY <1>5, <2>1, <2>2, EventAssumption, OnceFrame DEF PostEvent, Appends, EventTypeOK
  <2>3. CASE event[t] # None
    <3>1. /\ event[t] \in Event /\ event[t] \notin ToSet(queue[Q])
          /\ queue[Q] \in Seq(Event) /\ IsTidy(queue[Q])
      BY <2>1, <2>3 DEF Once, Appends, InQueue, EventTypeOK
    <3>2. /\ IsTidy(Append(queue[Q], event[t]))
          /\ ToSet(Append(queue[Q], event[t])) = ToSet(queue[Q]) \cup {event[t]}
      BY <3>1, AppendLemma
    <3>3. queue' = [queue EXCEPT ![Q] = Append(@, event[t])]
      BY <1>5, <2>1, <2>3 DEF PostEvent, PutLast
    <3>4. /\ IsTidy(queue'[Q]) /\ ToSet(queue'[Q]) = ToSet(queue[Q]) \cup {event[t]}
          /\ UNCHANGED <<maker, event>>
      BY <1>5, <3>2, <3>3 DEF PostEvent, EventTypeOK
    <3> QED BY <2>1, <3>1, <3>4, EventAssumption, SMTT(30)
            DEF Once, Appends, InQueue, EventTypeOK
  <2> QED BY <2>2, <2>3
<1>6. ASSUME NEW t \in Poster, SelectNotify(t) PROVE Once'
  BY <1>6, EventAssumption
     DEF SelectNotify, Once, Appends, InQueue, EventTypeOK, Stages, PosterPC, MozillaPC
<1>7. ASSUME NEW t \in Poster, LeavePost(t) PROVE Once'
  BY <1>7, EventAssumption
     DEF LeavePost, Once, Appends, InQueue, EventTypeOK, Stages, PosterPC, MozillaPC
<1>8. ASSUME NEW t \in Poster, Leave(t) PROVE Once'
  BY <1>8, EventAssumption
     DEF Leave, Once, Appends, InQueue, EventTypeOK, Stages, PosterPC, MozillaPC
<1>9. ASSUME NEW t \in Poster, CWait(t) PROVE Once'
  BY <1>9, EventAssumption
     DEF CWait, Once, Appends, InQueue, EventTypeOK, Stages, PosterPC, MozillaPC
<1>10. ASSUME NEW t \in Poster, ReadResult(t) PROVE Once'
  BY <1>10, EventAssumption
     DEF ReadResult, Once, Appends, InQueue, EventTypeOK, Stages, PosterPC, MozillaPC
<1>11. ASSUME NEW t \in Poster, Connect(t) PROVE Once'
  BY <1>11, EventAssumption
     DEF Connect, Once, Appends, InQueue, EventTypeOK, Stages, PosterPC, MozillaPC
<1>12. ASSUME NEW t \in Poster, JavaContextMake(t) PROVE Once'
  BY <1>12, EventAssumption
     DEF JavaContextMake, Once, Appends, InQueue, EventTypeOK, Stages, PosterPC,
         MozillaPC
<1>13. ASSUME NEW t \in Poster, CloseStream(t) PROVE Once'
  BY <1>13, EventAssumption
     DEF CloseStream, Once, Appends, InQueue, EventTypeOK, Stages, PosterPC, MozillaPC
<1>14. ASSUME NEW t \in Poster, JavaContextDestroy(t) PROVE Once'
  BY <1>14, EventAssumption
     DEF JavaContextDestroy, Once, Appends, InQueue, EventTypeOK, Stages, PosterPC,
         MozillaPC
<1>15. CASE Select
  BY <1>15, EventAssumption
     DEF Select, Once, Appends, InQueue, EventTypeOK, Stages, PosterPC, MozillaPC
<1>16. CASE GetEvent
  BY <1>16, EventAssumption
     DEF GetEvent, Once, Appends, InQueue, EventTypeOK, Stages, PosterPC, MozillaPC
<1>17. CASE ClearSelectNotify
  BY <1>17, EventAssumption
     DEF ClearSelectNotify, Once, Appends, InQueue, EventTypeOK, Stages, PosterPC,
         MozillaPC
<1>18. CASE RemoveEvent
  <2>1. /\ at[Mozilla] = Q /\ pc[Mozilla] = "remove" /\ event[Mozilla] = None
        /\ pc' = [pc EXCEPT ![Mozilla] = "leave"] /\ maker' = maker
    BY <1>18 DEF RemoveEvent, EventTypeOK, Stages
  <2>2. CASE queue[Q] = <<>>
    BY <1>18, <2>1, <2>2, EventAssumption, OnceFrame DEF RemoveEvent, Appends, EventTypeOK
  <2>3. CASE queue[Q] # <<>>
    <3>1. queue[Q] \in Seq(Event) /\ IsTidy(queue[Q])
      BY DEF EventTypeOK, Once
    <3>2. /\ IsTidy(Tail(queue[Q])) /\ Head(queue[Q]) \in Event
          /\ ToSet(Tail(queue[Q])) = ToSet(queue[Q]) \ {Head(queue[Q])}
          /\ Head(queue[Q]) \in ToSet(queue[Q])
      BY <2>3, <3>1, TailLemma, HeadLemma
    <3>3. /\ queue' = [queue EXCEPT ![Q] = Tail(queue[Q])]
          /\ event' = [event EXCEPT ![Mozilla] = Head(queue[Q])]
      BY <1>18, <2>1, <2>3 DEF RemoveEvent, Removed
    <3>4. IsTidy(queue'[Q]) /\ ToSet(queue'[Q]) = ToSet(queue[Q]) \ {Head(queue[Q])}
      BY <3>2, <3>3 DEF EventTypeOK
    <3> QED BY <2>1, <3>2, <3>3, <3>4, EventAssumption, SMTT(30)
            DEF Once, Appends, InQueue, EventTypeOK
  <2> QED BY <2>2, <2>3
<1>19. CASE LeaveQueue
  BY <1>19, EventAssumption
     DEF LeaveQueue, Once, Appends, InQueue, EventTypeOK, Stages, PosterPC, MozillaPC
<1>20. CASE HandleEvent
  BY <1>20, EventAssumption
     DEF HandleEvent, Once, Appends, InQueue, EventTypeOK, Stages, PosterPC, MozillaPC
<1>21. CASE Answer
  <2>1. \A t \in Poster : pc'[t] = "append" <=> pc[t] = "append"
    BY <1>21, EventAssumption DEF Answer, EventTypeOK
  <2> QED BY <1>21, <2>1, OnceFrame DEF Answer, Appends
<1>22. CASE DestroyEvent
  BY <1>22, EventAssumption
     DEF DestroyEvent, Once, Appends, InQueue, EventTypeOK, Stages, PosterPC, MozillaPC
<1>23. CASE StartDiscard
  BY <1>23, EventAssumption
     DEF StartDiscard, Once, Appends, InQueue, EventTypeOK, Stages, PosterPC, MozillaPC
<1>24. CASE DiscardEvents
  <2>1. at[Mozilla] = Q /\ \A t \in Poster : pc'[t] = pc[t]
    BY <1>24, EventAssumption DEF DiscardEvents, EventTypeOK
  <2>2. CASE UNCHANGED <<queue, maker>>
    BY <1>24, <2>1, <2>2, OnceFrame DEF DiscardEvents, Appends
  <2>3. CASE ~UNCHANGED <<queue, maker>>
    <3>1. PICK e \in ToSet(queue[Q]) : /\ queue' = [queue EXCEPT ![Q] = Without(@, e)]
                                       /\ maker' = [maker EXCEPT ![e] = None]
      BY <1>24, <2>1, <2>3 DEF DiscardEvents
    <3>2. queue[Q] \in Seq(Event) /\ IsTidy(queue[Q]) /\ e \in Event
      BY HeadLemma DEF EventTypeOK, Once
    <3>3. IsTidy(queue'[Q]) /\ ToSet(queue'[Q]) = ToSet(queue[Q]) \ {e}
      BY <3>1, <3>2, WithoutLemma DEF EventTypeOK
    <3>4. event' = event
      BY <1>24 DEF DiscardEvents
    <3> QED BY <2>1, <3>1, <3>2, <3>3, <3>4, EventAssumption, SMTT(30)
            DEF Once, Appends, InQueue, EventTypeOK
  <2> QED BY <2>2, <2>3
<1>25. CASE BreakLinkage
  <2>1. \A t \in Poster : pc'[t] = pc[t]
    BY <1>25, EventAssumption DEF BreakLinkage, EventTypeOK
  <2> QED BY <1>25, <2>1, OnceFrame DEF BreakLinkage, Appends
<1>26. CASE DestroyContext
  BY <1>26, EventAssumption
     DEF DestroyContext, Once, Appends, InQueue, EventTypeOK, Stages, PosterPC,
         MozillaPC
<1>27. ASSUME NEW c \in Context, DetachContext(c) PROVE Once'
  BY <1>27, EventAssumption
     DEF DetachContext, Once, Appends, InQueue, EventTypeOK, Stages, PosterPC, MozillaPC
<1> QED BY <1>1, <1>2, <1>3, <1>4, <1>5, <1>6, <1>7, <1>8, <1>9, <1>10, <1>11, <1>12,
           <1>13, <1>14, <1>15, <1>16, <1>17, <1>18, <1>19, <1>20, <1>21, <1>22, <1>23,
           <1>24, <1>25, <1>26, <1>27
           DEF Next, Call, PosterStep, ProcessEvent

(* Steps of threads that are neither going to write nor to take a byte.    *)
LEMMA WakeupFrame ==
    ASSUME NEW Q, Queue = {Q}, NoLostWakeup, queue' = queue, pipe' = pipe,
           EventTypeOK, EventTypeOK',
           \A t \in Poster : (pc[t] = "notify" /\ event[t] # None)' <=> (pc[t] = "notify" /\ event[t] # None),
           (pc[Mozilla] = "remove")' <=> (pc[Mozilla] = "remove")
    PROVE  NoLostWakeup'
<1>1. Notifying(Q)' = Notifying(Q) /\ Taking(Q)' = Taking(Q)
  BY DEF Notifying, Taking, EventTypeOK
<1> QED BY <1>1 DEF NoLostWakeup

(* The posters that are about to write a byte are finitely many.           *)
LEMMA NotifyingFinite ==
    ASSUME NEW q PROVE IsFiniteSet(Notifying(q)) /\ Cardinality(Notifying(q)) \in Nat
BY EventAssumption, FS_Subset, FS_CardinalityType DEF Notifying

(* The numbers NoLostWakeup compares.                                      *)
LEMMA Bounds ==
    ASSUME EventTypeOK, NEW q \in Queue
    PROVE  /\ Len(queue[q]) \in Nat /\ pipe[q] \in Nat /\ Taking(q) \in {0, 1}
           /\ Cardinality(Notifying(q)) \in Nat
BY NotifyingFinite, LenProperties DEF EventTypeOK, Taking

(* Every step keeps bytes enough in the pipe, or on their way.             *)
LEMMA WakeupKept ==
    ASSUME NEW Q, Queue = {Q}, EventTypeOK, EventTypeOK', Stages, Once,
           NoLostWakeup, Next
    PROVE  NoLostWakeup'
<1>1. ASSUME NEW t \in Poster, StartPost(t) PROVE NoLostWakeup'
  <2>1. /\ pc[t] \in {"run", "look"} /\ pc'[t] # "notify" /\ UNCHANGED <<queue, pipe>>
        /\ \A u \in Thread : u # t => pc'[u] = pc[u] /\ event'[u] = event[u]
    BY <1>1 DEF StartPost, EventTypeOK
  <2> QED BY <2>1, EventAssumption, WakeupFrame
<1>2. ASSUME NEW t \in Poster, MakeEvent(t) PROVE NoLostWakeup'
  <2>1. /\ pc[t] \in {"run", "look"} /\ pc'[t] # "notify" /\ UNCHANGED <<queue, pipe>>
        /\ \A u \in Thread : u # t => pc'[u] = pc[u] /\ event'[u] = event[u]
    BY <1>2 DEF MakeEvent, EventTypeOK
  <2> QED BY <2>1, EventAssumption, WakeupFrame
<1>3. ASSUME NEW t \in Poster, PostNull(t) PROVE NoLostWakeup'
  <2>1. /\ pc[t] \in {"run", "look"} /\ pc'[t] # "notify" /\ UNCHANGED <<queue, pipe>>
        /\ \A u \in Thread : u # t => pc'[u] = pc[u] /\ event'[u] = event[u]
    BY <1>3 DEF PostNull, EventTypeOK
  <2> QED BY <2>1, EventAssumption, WakeupFrame
<1>4. ASSUME NEW t \in Poster, PostSynchronous(t) PROVE NoLostWakeup'
  <2>1. /\ pc[t] \in {"run", "look"} /\ pc'[t] # "notify" /\ UNCHANGED <<queue, pipe>>
        /\ \A u \in Thread : u # t => pc'[u] = pc[u] /\ event'[u] = event[u]
    BY <1>4 DEF PostSynchronous, EventTypeOK
  <2> QED BY <2>1, EventAssumption, WakeupFrame
<1>5. ASSUME NEW t \in Poster, PostEvent(t) PROVE NoLostWakeup'
  <2>1. /\ at[t] = Q /\ pc[t] = "append" /\ pc' = [pc EXCEPT ![t] = "notify"]
        /\ UNCHANGED <<pipe, at, event>> /\ pc'[Mozilla] = pc[Mozilla]
    BY <1>5, EventAssumption DEF PostEvent, EventTypeOK
  <2>2. CASE event[t] = None
    BY <1>5, <2>1, <2>2, WakeupFrame DEF PostEvent, EventTypeOK
  <2>3. CASE event[t] # None
    <3>1. Notifying(Q)' = Notifying(Q) \cup {t} /\ t \notin Notifying(Q)
      BY <2>1, <2>3 DEF Notifying, EventTypeOK
    <3>2. queue'[Q] = Append(queue[Q], event[t]) /\ queue[Q] \in Seq(Event) /\ event[t] \in Event
      BY <1>5, <2>1, <2>3 DEF PostEvent, PutLast, EventTypeOK
    <3>3. Len(queue'[Q]) = Len(queue[Q]) + 1
      BY <3>2, AppendProperties
    <3>4. Cardinality(Notifying(Q)') = Cardinality(Notifying(Q)) + 1
      BY <3>1, NotifyingFinite, FS_AddElement
    <3> QED BY <2>1, <3>3, <3>4, Bounds DEF NoLostWakeup, Taking
  <2> QED BY <2>2, <2>3
<1>6. ASSUME NEW t \in Poster, SelectNotify(t) PROVE NoLostWakeup'
  <2>1. /\ at[t] = Q /\ pc[t] = "notify" /\ pc'[t] # "notify"
        /\ \A u \in Thread : u # t => pc'[u] = pc[u]
        /\ UNCHANGED <<queue, at, event>> /\ pc'[Mozilla] = pc[Mozilla]
    BY <1>6, EventAssumption DEF SelectNotify, EventTypeOK
  <2>2. pipe'[Q] = pipe[Q] + 1
    BY <1>6, <2>1 DEF SelectNotify, Notified, EventTypeOK
  <2>3. Notifying(Q)' = Notifying(Q) \ {t}
    BY <2>1 DEF Notifying
  <2>4. /\ Cardinality(Notifying(Q)') \in Nat
        /\ Cardinality(Notifying(Q)') >= Cardinality(Notifying(Q)) - 1
    <3>1. /\ IsFiniteSet(Notifying(Q)) /\ Cardinality(Notifying(Q)) \in Nat
          /\ IsFiniteSet(Notifying(Q) \ {t})
          /\ Cardinality(Notifying(Q) \ {t})
               = IF t \in Notifying(Q) THEN Cardinality(Notifying(Q)) - 1
                 ELSE Cardinality(Notifying(Q))
      BY NotifyingFinite, FS_RemoveElement
    <3>2. Cardinality(Notifying(Q) \ {t}) \in Nat
      BY <3>1, FS_CardinalityType
    <3> QED BY <2>3, <3>1, <3>2
  <2> QED BY <2>1, <2>2, <2>4, Bounds DEF NoLostWakeup, Taking
<1>7. ASSUME NEW t \in Poster, LeavePost(t) PROVE NoLostWakeup'
  BY <1>7, EventAssumption, WakeupFrame
     DEF LeavePost, EventTypeOK, Stages, PosterPC, MozillaPC
<1>8. ASSUME NEW t \in Poster, Leave(t) PROVE NoLostWakeup'
  BY <1>8, EventAssumption, WakeupFrame DEF Leave, EventTypeOK, Stages, PosterPC, MozillaPC
<1>9. ASSUME NEW t \in Poster, CWait(t) PROVE NoLostWakeup'
  BY <1>9, EventAssumption, WakeupFrame DEF CWait, EventTypeOK, Stages, PosterPC, MozillaPC
<1>10. ASSUME NEW t \in Poster, ReadResult(t) PROVE NoLostWakeup'
  BY <1>10, EventAssumption, WakeupFrame
     DEF ReadResult, EventTypeOK, Stages, PosterPC, MozillaPC
<1>11. ASSUME NEW t \in Poster, Connect(t) PROVE NoLostWakeup'
  BY <1>11, EventAssumption, WakeupFrame
     DEF Connect, EventTypeOK, Stages, PosterPC, MozillaPC
<1>12. ASSUME NEW t \in Poster, JavaContextMake(t) PROVE NoLostWakeup'
  BY <1>12, EventAssumption, WakeupFrame
     DEF JavaContextMake, EventTypeOK, Stages, PosterPC, MozillaPC
<1>13. ASSUME NEW t \in Poster, CloseStream(t) PROVE NoLostWakeup'
  BY <1>13, EventAssumption, WakeupFrame
     DEF CloseStream, EventTypeOK, Stages, PosterPC, MozillaPC
<1>14. ASSUME NEW t \in Poster, JavaContextDestroy(t) PROVE NoLostWakeup'
  BY <1>14, EventAssumption, WakeupFrame
     DEF JavaContextDestroy, EventTypeOK, Stages, PosterPC, MozillaPC
<1>15. CASE Select
  <2>1. /\ pc[Mozilla] = "run" /\ pc'[Mozilla] # "remove" /\ UNCHANGED <<queue, pipe, event>>
        /\ \A u \in Poster : pc'[u] = pc[u]
    BY <1>15, EventAssumption DEF Select, EventTypeOK
  <2> QED BY <2>1, WakeupFrame
<1>16. CASE GetEvent
  BY <1>16, EventAssumption, WakeupFrame
     DEF GetEvent, EventTypeOK, Stages, PosterPC, MozillaPC
<1>17. CASE ClearSelectNotify
  <2>1. /\ at[Mozilla] = Q /\ pc[Mozilla] = "clear" /\ pc'[Mozilla] = "remove"
        /\ \A u \in Poster : pc'[u] = pc[u]
        /\ UNCHANGED <<queue, at, event>>
    BY <1>17, EventAssumption DEF ClearSelectNotify, EventTypeOK
  <2>2. pipe'[Q] >= pipe[Q] - 1 /\ pipe'[Q] \in Nat
    BY <1>17, <2>1 DEF ClearSelectNotify, Cleared, EventTypeOK
  <2>3. Notifying(Q)' = Notifying(Q) /\ Taking(Q) = 0 /\ Taking(Q)' = 1
    BY <2>1 DEF Notifying, Taking
  <2> QED BY <2>1, <2>2, <2>3, Bounds DEF NoLostWakeup
<1>18. CASE RemoveEvent
  <2>1. /\ at[Mozilla] = Q /\ pc[Mozilla] = "remove" /\ pc'[Mozilla] = "leave"
        /\ \A u \in Poster : pc'[u] = pc[u] /\ event'[u] = event[u]
        /\ UNCHANGED <<pipe, at>>
    BY <1>18, EventAssumption DEF RemoveEvent, EventTypeOK
  <2>2. Notifying(Q)' = Notifying(Q) /\ Taking(Q) = 1 /\ Taking(Q)' = 0
    BY <2>1 DEF Notifying, Taking
  <2>3. CASE queue[Q] = <<>>
    <3>1. Len(queue'[Q]) = 0
      BY <1>18, <2>1, <2>3 DEF RemoveEvent
    <3> QED BY <2>1, <2>2, <3>1, Bounds DEF NoLostWakeup
  <2>4. CASE queue[Q] # <<>>
    <3>1. queue'[Q] = Tail(queue[Q]) /\ queue[Q] \in Seq(Event)
      BY <1>18, <2>1, <2>4 DEF RemoveEvent, Removed, EventTypeOK
    <3>2. Len(queue'[Q]) = Len(queue[Q]) - 1
      BY <2>4, <3>1, HeadTailProperties
    <3> QED BY <2>1, <2>2, <3>2, Bounds DEF NoLostWakeup
  <2> QED BY <2>3, <2>4
<1>19. CASE LeaveQueue
  BY <1>19, EventAssumption, WakeupFrame
     DEF LeaveQueue, EventTypeOK, Stages, PosterPC, MozillaPC
<1>20. CASE HandleEvent
  BY <1>20, EventAssumption, WakeupFrame
     DEF HandleEvent, EventTypeOK, Stages, PosterPC, MozillaPC
<1>21. CASE Answer
  <2>1. /\ pc[Mozilla] = "answer" /\ pc'[Mozilla] # "remove" /\ UNCHANGED <<queue, pipe, event>>
        /\ \A u \in Poster : pc'[u] = "notify" <=> pc[u] = "notify"
    BY <1>21, EventAssumption DEF Answer, EventTypeOK
  <2> QED BY <2>1, WakeupFrame
<1>22. CASE DestroyEvent
  BY <1>22, EventAssumption, WakeupFrame
     DEF DestroyEvent, EventTypeOK, Stages, PosterPC, MozillaPC
<1>23. CASE StartDiscard
  BY <1>23, EventAssumption, WakeupFrame
     DEF StartDiscard, EventTypeOK, Stages, PosterPC, MozillaPC
<1>24. CASE DiscardEvents
  <2>1. /\ at[Mozilla] = Q /\ pc[Mozilla] = "map" /\ pc'[Mozilla] # "remove"
        /\ \A u \in Poster : pc'[u] = pc[u]
        /\ UNCHANGED <<pipe, at, event>>
    BY <1>24, EventAssumption DEF DiscardEvents, EventTypeOK
  <2>2. Notifying(Q)' = Notifying(Q) /\ Taking(Q)' = Taking(Q)
    BY <2>1 DEF Notifying, Taking
  <2>3. Len(queue'[Q]) <= Len(queue[Q])
    <3>1. CASE UNCHANGED queue
      BY <3>1, Bounds
    <3>2. CASE ~UNCHANGED queue
      <4>1. PICK e \in ToSet(queue[Q]) : queue' = [queue EXCEPT ![Q] = Without(@, e)]
        BY <1>24, <2>1, <3>2 DEF DiscardEvents
      <4>2. queue[Q] \in Seq(Event) /\ IsTidy(queue[Q])
        BY DEF EventTypeOK, Once
      <4> QED BY <4>1, <4>2, WithoutLemma DEF EventTypeOK
    <3> QED BY <3>1, <3>2
  <2> QED BY <2>1, <2>2, <2>3, Bounds DEF NoLostWakeup
<1>25. CASE BreakLinkage
  <2>1. /\ pc[Mozilla] = "break" /\ pc'[Mozilla] # "remove" /\ UNCHANGED <<queue, pipe, event>>
        /\ \A u \in Poster : pc'[u] = pc[u]
    BY <1>25, EventAssumption DEF BreakLinkage, EventTypeOK
  <2> QED BY <2>1, WakeupFrame
<1>26. CASE DestroyContext
  BY <1>26, EventAssumption, WakeupFrame
     DEF DestroyContext, EventTypeOK, Stages, PosterPC, MozillaPC
<1>27. ASSUME NEW c \in Context, DetachContext(c) PROVE NoLostWakeup'
  <2>1. /\ pc[Mozilla] = "run" /\ pc'[Mozilla] # "remove" /\ UNCHANGED <<queue, pipe, event>>
        /\ \A u \in Poster : pc'[u] = pc[u]
    BY <1>27, EventAssumption DEF DetachContext, EventTypeOK
  <2> QED BY <2>1, WakeupFrame
<1> QED BY <1>1, <1>2, <1>3, <1>4, <1>5, <1>6, <1>7, <1>8, <1>9, <1>10, <1>11, <1>12,
           <1>13, <1>14, <1>15, <1>16, <1>17, <1>18, <1>19, <1>20, <1>21, <1>22, <1>23,
           <1>24, <1>25, <1>26, <1>27
           DEF Next, Call, PosterStep, ProcessEvent

(* Every step keeps results apart.                                         *)
LEMMA ResultsKept ==
    ASSUME NEW Q, Queue = {Q}, \A s, t \in Syncer : s = t,
           EventTypeOK, EventTypeOK', Stages, Once, Results, Next
    PROVE  Results'
<1>1. ASSUME NEW t \in Poster, StartPost(t) PROVE Results'
  BY <1>1, EventAssumption
     DEF StartPost, Results, Pending, Appends, Synchronous, EventTypeOK, Stages,
         PosterPC, MozillaPC, Once
<1>2. ASSUME NEW t \in Poster, MakeEvent(t) PROVE Results'
  BY <1>2, EventAssumption
     DEF MakeEvent, Results, Pending, Appends, Synchronous, EventTypeOK, Stages,
         PosterPC, MozillaPC, Once
<1>3. ASSUME NEW t \in Poster, PostNull(t) PROVE Results'
  BY <1>3, EventAssumption
     DEF PostNull, Results, Pending, Appends, Synchronous, EventTypeOK, Stages,
         PosterPC, MozillaPC, Once
<1>4. ASSUME NEW t \in Poster, PostSynchronous(t) PROVE Results'
  BY <1>4, EventAssumption
     DEF PostSynchronous, Results, Pending, Appends, Synchronous, EventTypeOK, Stages,
         PosterPC, MozillaPC, Once
<1>5. ASSUME NEW t \in Poster, PostEvent(t) PROVE Results'
  BY <1>5, EventAssumption
     DEF PostEvent, Results, Pending, Appends, Synchronous, EventTypeOK, Stages,
         PosterPC, MozillaPC, Once
<1>6. ASSUME NEW t \in Poster, SelectNotify(t) PROVE Results'
  BY <1>6, EventAssumption
     DEF SelectNotify, Results, Pending, Appends, Synchronous, EventTypeOK, Stages,
         PosterPC, MozillaPC, Once
<1>7. ASSUME NEW t \in Poster, LeavePost(t) PROVE Results'
  BY <1>7, EventAssumption
     DEF LeavePost, Results, Pending, Appends, Synchronous, EventTypeOK, Stages,
         PosterPC, MozillaPC, Once
<1>8. ASSUME NEW t \in Poster, Leave(t) PROVE Results'
  BY <1>8, EventAssumption
     DEF Leave, Results, Pending, Appends, Synchronous, EventTypeOK, Stages, PosterPC,
         MozillaPC, Once
<1>9. ASSUME NEW t \in Poster, CWait(t) PROVE Results'
  BY <1>9, EventAssumption
     DEF CWait, Results, Pending, Appends, Synchronous, EventTypeOK, Stages, PosterPC,
         MozillaPC, Once
<1>10. ASSUME NEW t \in Poster, ReadResult(t) PROVE Results'
  BY <1>10, EventAssumption
     DEF ReadResult, Results, Pending, Appends, Synchronous, EventTypeOK, Stages,
         PosterPC, MozillaPC, Once
<1>11. ASSUME NEW t \in Poster, Connect(t) PROVE Results'
  BY <1>11, EventAssumption
     DEF Connect, Results, Pending, Appends, Synchronous, EventTypeOK, Stages, PosterPC,
         MozillaPC, Once
<1>12. ASSUME NEW t \in Poster, JavaContextMake(t) PROVE Results'
  BY <1>12, EventAssumption
     DEF JavaContextMake, Results, Pending, Appends, Synchronous, EventTypeOK, Stages,
         PosterPC, MozillaPC, Once
<1>13. ASSUME NEW t \in Poster, CloseStream(t) PROVE Results'
  BY <1>13, EventAssumption
     DEF CloseStream, Results, Pending, Appends, Synchronous, EventTypeOK, Stages,
         PosterPC, MozillaPC, Once
<1>14. ASSUME NEW t \in Poster, JavaContextDestroy(t) PROVE Results'
  BY <1>14, EventAssumption
     DEF JavaContextDestroy, Results, Pending, Appends, Synchronous, EventTypeOK,
         Stages, PosterPC, MozillaPC, Once
<1>15. CASE Select
  BY <1>15, EventAssumption
     DEF Select, Results, Pending, Appends, Synchronous, EventTypeOK, Stages, PosterPC,
         MozillaPC, Once
<1>16. CASE GetEvent
  BY <1>16, EventAssumption
     DEF GetEvent, Results, Pending, Appends, Synchronous, EventTypeOK, Stages,
         PosterPC, MozillaPC, Once
<1>17. CASE ClearSelectNotify
  BY <1>17, EventAssumption
     DEF ClearSelectNotify, Results, Pending, Appends, Synchronous, EventTypeOK, Stages,
         PosterPC, MozillaPC, Once
<1>18. CASE RemoveEvent
  BY <1>18, EventAssumption
     DEF RemoveEvent, Results, Pending, Appends, Synchronous, EventTypeOK, Stages,
         PosterPC, MozillaPC, Once
<1>19. CASE LeaveQueue
  BY <1>19, EventAssumption
     DEF LeaveQueue, Results, Pending, Appends, Synchronous, EventTypeOK, Stages,
         PosterPC, MozillaPC, Once
<1>20. CASE HandleEvent
  BY <1>20, EventAssumption
     DEF HandleEvent, Results, Pending, Appends, Synchronous, EventTypeOK, Stages,
         PosterPC, MozillaPC, Once
<1>21. CASE Answer
  BY <1>21, EventAssumption
     DEF Answer, Results, Pending, Appends, Synchronous, EventTypeOK, Stages, PosterPC,
         MozillaPC, Once
<1>22. CASE DestroyEvent
  BY <1>22, EventAssumption
     DEF DestroyEvent, Results, Pending, Appends, Synchronous, EventTypeOK, Stages,
         PosterPC, MozillaPC, Once
<1>23. CASE StartDiscard
  BY <1>23, EventAssumption
     DEF StartDiscard, Results, Pending, Appends, Synchronous, EventTypeOK, Stages,
         PosterPC, MozillaPC, Once
<1>24. CASE DiscardEvents
  BY <1>24, EventAssumption
     DEF DiscardEvents, Results, Pending, Appends, Synchronous, EventTypeOK, Stages,
         PosterPC, MozillaPC, Once
<1>25. CASE BreakLinkage
  BY <1>25, EventAssumption
     DEF BreakLinkage, Results, Pending, Appends, Synchronous, EventTypeOK, Stages,
         PosterPC, MozillaPC, Once
<1>26. CASE DestroyContext
  BY <1>26, EventAssumption
     DEF DestroyContext, Results, Pending, Appends, Synchronous, EventTypeOK, Stages,
         PosterPC, MozillaPC, Once
<1>27. ASSUME NEW c \in Context, DetachContext(c) PROVE Results'
  BY <1>27, EventAssumption
     DEF DetachContext, Results, Pending, Appends, Synchronous, EventTypeOK, Stages,
         PosterPC, MozillaPC, Once
<1> QED BY <1>1, <1>2, <1>3, <1>4, <1>5, <1>6, <1>7, <1>8, <1>9, <1>10, <1>11, <1>12,
           <1>13, <1>14, <1>15, <1>16, <1>17, <1>18, <1>19, <1>20, <1>21, <1>22, <1>23,
           <1>24, <1>25, <1>26, <1>27
           DEF Next, Call, PosterStep, ProcessEvent

(* Reading the result makes no event look like one of a stream, but for    *)
(* one that is about to be freed.                                          *)
LEMMA ReadBefore ==
    ASSUME EventTypeOK, Results, NEW t \in Poster, ReadResult(t), NEW e \in Event, Pending(e)'
    PROVE  Pending(e) \/ (pc[Mozilla] = "destroy" /\ event[Mozilla] = e)
BY DEF ReadResult, Results, Pending, EventTypeOK

(* Every step keeps windows that are being destroyed free of streams.      *)
LEMMA LinkedKept ==
    ASSUME NEW Q, Queue = {Q}, EventTypeOK, EventTypeOK', Stages, Entered, Once,
           Results, connects = 0 => Linked, NoEventForDeadContext, connects' = 0, Next
    PROVE  Linked'
<1>1. ASSUME NEW t \in Poster, StartPost(t) PROVE Linked'
  BY <1>1, EventAssumption
     DEF StartPost, Linked, Dropped, Pending, EventTypeOK, Stages, PosterPC, MozillaPC
<1>2. ASSUME NEW t \in Poster, MakeEvent(t) PROVE Linked'
  <2>1. /\ connects = 0 /\ Linked /\ pc'[Mozilla] = pc[Mozilla] /\ pc'[t] # "link"
        /\ \A u \in Poster : u # t => pc'[u] = pc[u]
        /\ UNCHANGED <<realContext, linkedTo, alive, closing>>
        /\ pc[t] = "look" /\ at[t] = Q /\ at[Mozilla] = Q
    BY <1>2, EventAssumption DEF MakeEvent, EventTypeOK
  <2>2. Dropped => realContext[t] # closing
    BY <2>1, EventAssumption DEF Dropped, Entered, Inside, Linked
  <2>3. \A e \in Event : Pending(e)' => \/ Pending(e) /\ context'[e] = context[e]
                                       \/ context'[e] = realContext[t]
    <3>1. CASE UNCHANGED <<maker, context, result, event>>
      BY <3>1 DEF Pending
    <3>2. CASE ~UNCHANGED <<maker, context, result, event>>
      <4>1. PICK d \in Event : Allocated(t, d, realContext[t], "null")
        BY <1>2, <3>2 DEF MakeEvent
      <4> QED BY <4>1 DEF Pending, EventTypeOK
    <3> QED BY <3>1, <3>2
  <2>4. Dropped' <=> Dropped
    BY <2>1 DEF Dropped
  <2>5. Dropped' => \A e \in Event : Pending(e)' => context'[e] # closing'
    BY <2>1, <2>2, <2>3, <2>4 DEF Linked
  <2> QED BY <2>1, <2>5 DEF Linked
<1>3. ASSUME NEW t \in Poster, PostNull(t) PROVE Linked'
  BY <1>3, EventAssumption
     DEF PostNull, Linked, Dropped, Pending, EventTypeOK, Stages, PosterPC, MozillaPC
<1>4. ASSUME NEW t \in Poster, PostSynchronous(t) PROVE Linked'
  BY <1>4, EventAssumption
     DEF PostSynchronous, Linked, Dropped, Pending, EventTypeOK, Stages, PosterPC,
         MozillaPC
<1>5. ASSUME NEW t \in Poster, PostEvent(t) PROVE Linked'
  BY <1>5, EventAssumption
     DEF PostEvent, Linked, Dropped, Pending, EventTypeOK, Stages, PosterPC, MozillaPC
<1>6. ASSUME NEW t \in Poster, SelectNotify(t) PROVE Linked'
  BY <1>6, EventAssumption
     DEF SelectNotify, Linked, Dropped, Pending, EventTypeOK, Stages, PosterPC,
         MozillaPC
<1>7. ASSUME NEW t \in Poster, LeavePost(t) PROVE Linked'
  BY <1>7, EventAssumption
     DEF LeavePost, Linked, Dropped, Pending, EventTypeOK, Stages, PosterPC, MozillaPC
<1>8. ASSUME NEW t \in Poster, Leave(t) PROVE Linked'
  BY <1>8, EventAssumption
     DEF Leave, Linked, Dropped, Pending, EventTypeOK, Stages, PosterPC, MozillaPC
<1>9. ASSUME NEW t \in Poster, CWait(t) PROVE Linked'
  BY <1>9, EventAssumption
     DEF CWait, Linked, Dropped, Pending, EventTypeOK, Stages, PosterPC, MozillaPC
<1>10. ASSUME NEW t \in Poster, ReadResult(t) PROVE Linked'
  <2>1. /\ connects = 0 /\ Linked /\ pc'[Mozilla] = pc[Mozilla] /\ pc'[t] # "link"
        /\ \A u \in Poster : u # t => pc'[u] = pc[u]
        /\ UNCHANGED <<realContext, linkedTo, alive, closing, context>>
    BY <1>10, EventAssumption DEF ReadResult, EventTypeOK
  <2>2. Dropped => \A e \in Event : Pending(e)' => Pending(e)
    BY <1>10, ReadBefore DEF ReadResult, Dropped
  <2>3. Dropped' <=> Dropped
    BY <2>1 DEF Dropped
  <2>4. Dropped' => \A e \in Event : Pending(e)' => context'[e] # closing'
    BY <2>1, <2>2, <2>3 DEF Linked
  <2> QED BY <2>1, <2>4 DEF Linked
<1>11. ASSUME NEW t \in Poster, Connect(t) PROVE Linked'
  BY <1>11, EventAssumption
     DEF Connect, Linked, Dropped, Pending, EventTypeOK, Stages, PosterPC, MozillaPC
<1>12. ASSUME NEW t \in Poster, JavaContextMake(t) PROVE Linked'
  BY <1>12, EventAssumption
     DEF JavaContextMake, Linked, Dropped, Pending, EventTypeOK, Stages, PosterPC,
         MozillaPC
<1>13. ASSUME NEW t \in Poster, CloseStream(t) PROVE Linked'
  BY <1>13, EventAssumption
     DEF CloseStream, Linked, Dropped, Pending, EventTypeOK, Stages, PosterPC, MozillaPC
<1>14. ASSUME NEW t \in Poster, JavaContextDestroy(t) PROVE Linked'
  BY <1>14, EventAssumption
     DEF JavaContextDestroy, Linked, Dropped, Pending, EventTypeOK, Stages, PosterPC,
         MozillaPC
<1>15. CASE Select
  BY <1>15, EventAssumption
     DEF Select, Linked, Dropped, Pending, EventTypeOK, Stages, PosterPC, MozillaPC
<1>16. CASE GetEvent
  BY <1>16, EventAssumption
     DEF GetEvent, Linked, Dropped, Pending, EventTypeOK, Stages, PosterPC, MozillaPC
<1>17. CASE ClearSelectNotify
  BY <1>17, EventAssumption
     DEF ClearSelectNotify, Linked, Dropped, Pending, EventTypeOK, Stages, PosterPC,
         MozillaPC
<1>18. CASE RemoveEvent
  BY <1>18, EventAssumption
     DEF RemoveEvent, Linked, Dropped, Pending, EventTypeOK, Stages, PosterPC, MozillaPC
<1>19. CASE LeaveQueue
  BY <1>19, EventAssumption
     DEF LeaveQueue, Linked, Dropped, Pending, EventTypeOK, Stages, PosterPC, MozillaPC
<1>20. CASE HandleEvent
  BY <1>20, EventAssumption
     DEF HandleEvent, Linked, Dropped, Pending, EventTypeOK, Stages, PosterPC, MozillaPC
<1>21. CASE Answer
  BY <1>21, EventAssumption
     DEF Answer, Linked, Dropped, Pending, EventTypeOK, Stages, PosterPC, MozillaPC
<1>22. CASE DestroyEvent
  BY <1>22, EventAssumption
     DEF DestroyEvent, Linked, Dropped, Pending, EventTypeOK, Stages, PosterPC,
         MozillaPC
<1>23. CASE StartDiscard
  BY <1>23, EventAssumption
     DEF StartDiscard, Linked, Dropped, Pending, EventTypeOK, Stages, PosterPC,
         MozillaPC
<1>24. CASE DiscardEvents
  <2>1. /\ connects = 0 /\ Linked /\ pc[Mozilla] = "map" /\ pc'[Mozilla] # "leave"
        /\ pc'[Mozilla] # "destroyContext" /\ \A u \in Poster : pc'[u] = pc[u]
        /\ UNCHANGED <<realContext, linkedTo, alive, closing, context, result>>
        /\ \A u \in Thread : at[u] = Q
    BY <1>24, EventAssumption DEF DiscardEvents, EventTypeOK
  <2>2. ASSUME Dropped', NEW e \in Event, Pending(e)' PROVE context[e] # closing
    <3>1. maker' = maker /\ \A d \in ToSet(queue[Q]) : ~Mine(d)
      BY <1>24, <2>1, <2>2, EventAssumption DEF DiscardEvents, Dropped, EventTypeOK
    <3>2. Pending(e) /\ event[Mozilla] = None
      BY <2>1, <2>2, <3>1 DEF Pending, Stages
    <3>3. ASSUME NEW u \in Poster, Appends(u, e) PROVE FALSE
      <4>1. pc[u] = "append" /\ event[u] = e /\ e # None
        BY <3>3, EventAssumption DEF Appends
      <4>2. ~Synchronous(u)
        BY <3>2, <4>1 DEF Results, Pending
      <4> QED BY <2>1, <4>1, <4>2, EventAssumption DEF Entered, Inside
    <3>4. e # None
      BY EventAssumption
    <3>5. InQueue(e)
      BY <3>2, <3>3, <3>4 DEF Once, Pending
    <3> QED BY <3>1, <3>5 DEF InQueue, Mine
  <2> QED BY <2>1, <2>2 DEF Linked
<1>25. CASE BreakLinkage
  <2>1. /\ connects = 0 /\ Linked /\ pc[Mozilla] = "break" /\ closing # None
        /\ \A u \in Poster : pc'[u] = pc[u]
        /\ UNCHANGED <<alive, closing, context, result, maker>>
    BY <1>25, EventAssumption DEF BreakLinkage, EventTypeOK, Stages
  <2>2. Dropped /\ \A e \in Event : Pending(e)' <=> Pending(e)
    BY <2>1 DEF Dropped, Pending
  <2>3. CASE \A u \in Poster : Untied(u)
    <3>1. UNCHANGED <<realContext, linkedTo>>
      BY <1>25, <2>3 DEF BreakLinkage
    <3>2. \A u \in Poster : realContext[u] # closing
      BY <2>1, <2>3 DEF Untied, Linked
    <3> QED BY <2>1, <2>2, <3>1, <3>2 DEF Linked
  <2>4. CASE ~ \A u \in Poster : Untied(u)
    <3>1. PICK u \in Poster : /\ linkedTo' = [linkedTo EXCEPT ![u] = None]
                              /\ realContext' = [realContext EXCEPT ![u] = None]
      BY <1>25, <2>4 DEF BreakLinkage, LinkBroken
    <3>2. pc'[Mozilla] = "break"
      BY <1>25, <2>1, <2>4 DEF BreakLinkage
    <3> QED BY <2>1, <2>2, <3>1, <3>2 DEF Linked, EventTypeOK
  <2> QED BY <2>3, <2>4
<1>26. CASE DestroyContext
  BY <1>26, EventAssumption
     DEF DestroyContext, Linked, Dropped, Pending, EventTypeOK, Stages, PosterPC,
         MozillaPC
<1>27. ASSUME NEW c \in Context, DetachContext(c) PROVE Linked'
  BY <1>27, EventAssumption
     DEF DetachContext, Linked, Dropped, Pending, EventTypeOK, Stages, PosterPC,
         MozillaPC
<1> QED BY <1>1, <1>2, <1>3, <1>4, <1>5, <1>6, <1>7, <1>8, <1>9, <1>10, <1>11, <1>12,
           <1>13, <1>14, <1>15, <1>16, <1>17, <1>18, <1>19, <1>20, <1>21, <1>22, <1>23,
           <1>24, <1>25, <1>26, <1>27
           DEF Next, Call, PosterStep, ProcessEvent

(* Every step keeps events for windows that live.                          *)
LEMMA NothingForTheDeadKept ==
    ASSUME NEW Q, Queue = {Q}, EventTypeOK, EventTypeOK', Stages, Once,
           Results, connects = 0 => Linked, NoEventForDeadContext, connects' = 0, Next
    PROVE  NoEventForDeadContext'
<1>1. ASSUME NEW t \in Poster, StartPost(t) PROVE NoEventForDeadContext'
  BY <1>1, EventAssumption
     DEF StartPost, Linked, Dropped, Pending, NoEventForDeadContext, EventTypeOK,
         Stages, PosterPC, MozillaPC
<1>2. ASSUME NEW t \in Poster, MakeEvent(t) PROVE NoEventForDeadContext'
  BY <1>2, EventAssumption
     DEF MakeEvent, Linked, Dropped, Pending, NoEventForDeadContext, EventTypeOK,
         Stages, PosterPC, MozillaPC
<1>3. ASSUME NEW t \in Poster, PostNull(t) PROVE NoEventForDeadContext'
  BY <1>3, EventAssumption
     DEF PostNull, Linked, Dropped, Pending, NoEventForDeadContext, EventTypeOK, Stages,
         PosterPC, MozillaPC
<1>4. ASSUME NEW t \in Poster, PostSynchronous(t) PROVE NoEventForDeadContext'
  BY <1>4, EventAssumption
     DEF PostSynchronous, Linked, Dropped, Pending, NoEventForDeadContext, EventTypeOK,
         Stages, PosterPC, MozillaPC
<1>5. ASSUME NEW t \in Poster, PostEvent(t) PROVE NoEventForDeadContext'
  BY <1>5, EventAssumption
     DEF PostEvent, Linked, Dropped, Pending, NoEventForDeadContext, EventTypeOK,
         Stages, PosterPC, MozillaPC
<1>6. ASSUME NEW t \in Poster, SelectNotify(t) PROVE NoEventForDeadContext'
  BY <1>6, EventAssumption
     DEF SelectNotify, Linked, Dropped, Pending, NoEventForDeadContext, EventTypeOK,
         Stages, PosterPC, MozillaPC
<1>7. ASSUME NEW t \in Poster, LeavePost(t) PROVE NoEventForDeadContext'
  BY <1>7, EventAssumption
     DEF LeavePost, Linked, Dropped, Pending, NoEventForDeadContext, EventTypeOK,
         Stages, PosterPC, MozillaPC
<1>8. ASSUME NEW t \in Poster, Leave(t) PROVE NoEventForDeadContext'
  BY <1>8, EventAssumption
     DEF Leave, Linked, Dropped, Pending, NoEventForDeadContext, EventTypeOK, Stages,
         PosterPC, MozillaPC
<1>9. ASSUME NEW t \in Poster, CWait(t) PROVE NoEventForDeadContext'
  BY <1>9, EventAssumption
     DEF CWait, Linked, Dropped, Pending, NoEventForDeadContext, EventTypeOK, Stages,
         PosterPC, MozillaPC
<1>10. ASSUME NEW t \in Poster, ReadResult(t) PROVE NoEventForDeadContext'
  <2>1. /\ connects = 0 /\ pc'[Mozilla] = pc[Mozilla] /\ event'[Mozilla] = event[Mozilla]
        /\ UNCHANGED <<alive, context>>
    BY <1>10, EventAssumption DEF ReadResult, EventTypeOK
  <2>2. ASSUME NEW e \in Event, Pending(e)'
        PROVE  Pending(e) \/ (pc[Mozilla] = "destroy" /\ event[Mozilla] = e)
    BY <1>10, <2>2, ReadBefore
  <2> QED BY <2>1, <2>2 DEF NoEventForDeadContext, Pending
<1>11. ASSUME NEW t \in Poster, Connect(t) PROVE NoEventForDeadContext'
  BY <1>11, EventAssumption
     DEF Connect, Linked, Dropped, Pending, NoEventForDeadContext, EventTypeOK, Stages,
         PosterPC, MozillaPC
<1>12. ASSUME NEW t \in Poster, JavaContextMake(t) PROVE NoEventForDeadContext'
  BY <1>12, EventAssumption
     DEF JavaContextMake, Linked, Dropped, Pending, NoEventForDeadContext, EventTypeOK,
         Stages, PosterPC, MozillaPC
<1>13. ASSUME NEW t \in Poster, CloseStream(t) PROVE NoEventForDeadContext'
  BY <1>13, EventAssumption
     DEF CloseStream, Linked, Dropped, Pending, NoEventForDeadContext, EventTypeOK,
         Stages, PosterPC, MozillaPC
<1>14. ASSUME NEW t \in Poster, JavaContextDestroy(t) PROVE NoEventForDeadContext'
  BY <1>14, EventAssumption
     DEF JavaContextDestroy, Linked, Dropped, Pending, NoEventForDeadContext,
         EventTypeOK, Stages, PosterPC, MozillaPC
<1>15. CASE Select
  BY <1>15, EventAssumption
     DEF Select, Linked, Dropped, Pending, NoEventForDeadContext, EventTypeOK, Stages,
         PosterPC, MozillaPC
<1>16. CASE GetEvent
  BY <1>16, EventAssumption
     DEF GetEvent, Linked, Dropped, Pending, NoEventForDeadContext, EventTypeOK, Stages,
         PosterPC, MozillaPC
<1>17. CASE ClearSelectNotify
  BY <1>17, EventAssumption
     DEF ClearSelectNotify, Linked, Dropped, Pending, NoEventForDeadContext,
         EventTypeOK, Stages, PosterPC, MozillaPC
<1>18. CASE RemoveEvent
  BY <1>18, EventAssumption
     DEF RemoveEvent, Linked, Dropped, Pending, NoEventForDeadContext, EventTypeOK,
         Stages, PosterPC, MozillaPC
<1>19. CASE LeaveQueue
  BY <1>19, EventAssumption
     DEF LeaveQueue, Linked, Dropped, Pending, NoEventForDeadContext, EventTypeOK,
         Stages, PosterPC, MozillaPC
<1>20. CASE HandleEvent
  BY <1>20, EventAssumption
     DEF HandleEvent, Linked, Dropped, Pending, NoEventForDeadContext, EventTypeOK,
         Stages, PosterPC, MozillaPC
<1>21. CASE Answer
  BY <1>21, EventAssumption
     DEF Answer, Linked, Dropped, Pending, NoEventForDeadContext, EventTypeOK, Stages,
         PosterPC, MozillaPC
<1>22. CASE DestroyEvent
  BY <1>22, EventAssumption
     DEF DestroyEvent, Linked, Dropped, Pending, NoEventForDeadContext, EventTypeOK,
         Stages, PosterPC, MozillaPC
<1>23. CASE StartDiscard
  BY <1>23, EventAssumption
     DEF StartDiscard, Linked, Dropped, Pending, NoEventForDeadContext, EventTypeOK,
         Stages, PosterPC, MozillaPC
<1>24. CASE DiscardEvents
  BY <1>24, EventAssumption
     DEF DiscardEvents, Linked, Dropped, Pending, NoEventForDeadContext, EventTypeOK,
         Stages, PosterPC, MozillaPC
<1>25. CASE BreakLinkage
  BY <1>25, EventAssumption
     DEF BreakLinkage, Linked, Dropped, Pending, NoEventForDeadContext, EventTypeOK,
         Stages, PosterPC, MozillaPC
<1>26. CASE DestroyContext
  BY <1>26, EventAssumption
     DEF DestroyContext, Linked, Dropped, Pending, NoEventForDeadContext, EventTypeOK,
         Stages, PosterPC, MozillaPC
<1>27. ASSUME NEW c \in Context, DetachContext(c) PROVE NoEventForDeadContext'
  BY <1>27, EventAssumption
     DEF DetachContext, Linked, Dropped, Pending, NoEventForDeadContext, EventTypeOK,
         Stages, PosterPC, MozillaPC
<1> QED BY <1>1, <1>2, <1>3, <1>4, <1>5, <1>6, <1>7, <1>8, <1>9, <1>10, <1>11, <1>12,
           <1>13, <1>14, <1>15, <1>16, <1>17, <1>18, <1>19, <1>20, <1>21, <1>22, <1>23,
           <1>24, <1>25, <1>26, <1>27
           DEF Next, Call, PosterStep, ProcessEvent

-----------------------------------------------------------------------------
(* The invariant holds at the start ...                                    *)
LEMMA InitLemma ==
    ASSUME NEW Q, Queue = {Q}, Init
    PROVE  IInv /\ NoLostWakeup /\ Closing
<1>1. \A q \in Queue : queue[q] = <<>> /\ queue[q] \in Seq(Event)
  BY DEF Init
<1>2. ToSet(<<>>) = {} /\ IsTidy(<<>>) /\ Len(<<>>) = 0
  BY DEF ToSet, IsTidy, IsInjective
<1>3. EventTypeOK
  BY <1>1, EventAssumption DEF Init, EventTypeOK
<1>4. Stages
  BY EventAssumption DEF Init, Stages, PosterPC, MozillaPC
<1>5. Entered
  BY EventAssumption DEF Init, Entered, Inside
<1>6. Once
  BY <1>1, <1>2, EventAssumption DEF Init, Once, Appends, InQueue
<1>7. Tokens
  BY DEF Init, Tokens
<1>8. NoLostWakeup
  BY <1>1, <1>2, <1>3, Bounds DEF NoLostWakeup, Init
<1>9. Closing
  BY EventAssumption
     DEF Init, Closing, Results, Linked, Dropped, Pending, NoEventForDeadContext
<1> QED BY <1>3, <1>4, <1>5, <1>6, <1>7, <1>8, <1>9 DEF IInv

(* ... and is kept by every step.                                          *)
LEMMA IInvKept ==
    ASSUME NEW Q, Queue = {Q}, IInv, [Next]_vars
    PROVE  IInv'
<1>1. CASE Next
  <2>1. EventTypeOK' /\ Stages' /\ Once'
    BY <1>1, TypeKept, StagesKept, OnceKept DEF IInv
  <2>2. Entered' /\ Tokens'
    BY <1>1, EnteredKept, TokensKept DEF IInv
  <2> QED BY <2>1, <2>2 DEF IInv
<1>2. CASE UNCHANGED vars
  <2>1. EventTypeOK' /\ Stages' /\ Entered'
    BY <1>2 DEF IInv, vars, EventTypeOK, Stages, Synchronous, Entered, Inside
  <2>2. Once' /\ Tokens'
    BY <1>2 DEF IInv, vars, Once, Appends, InQueue, Tokens
  <2> QED BY <2>1, <2>2 DEF IInv
<1> QED BY <1>1, <1>2

(* What the steps rely on follows from it.                                 *)
LEMMA Implied ==
    ASSUME NEW Q, Queue = {Q}, IInv
    PROVE  EventInv
<1>1. ReadFindsToken
  BY DEF IInv, Tokens, EventTypeOK, ReadFindsToken
<1>2. \A q \in Queue : IsTidy(queue[q])
  BY DEF IInv, Once
<1>3. ASSUME NEW e \in Event, maker[e] = None PROVE Places(e) = {}
  BY <1>3, EventAssumption DEF IInv, Once, Appends, InQueue, Places
<1>4. ASSUME NEW e \in Event, maker[e] # None
      PROVE  \E p \in Places(e) : Places(e) = {p}
  <2>1. CASE \E t \in Poster : Appends(t, e)
    <3>1. PICK t \in Poster : Appends(t, e)
      BY <2>1
    <3>2. Places(e) = {t}
      BY <3>1 DEF IInv, Once, Appends, InQueue, Places
    <3> QED BY <3>2
  <2>2. CASE InQueue(e)
    <3>1. Places(e) = {Q}
      BY <2>2 DEF IInv, Once, Appends, InQueue, Places
    <3> QED BY <3>1
  <2>3. CASE event[Mozilla] = e
    <3>1. Places(e) = {Mozilla}
      BY <2>3 DEF IInv, Once, Appends, InQueue, Places
    <3> QED BY <3>1
  <2> QED BY <1>4, <2>1, <2>2, <2>3 DEF IInv, Once
<1> QED BY <1>1, <1>2, <1>3, <1>4 DEF EventInv, EventsOnce, IInv

(* With one queue, as in the program, an event in use is in one place, is  *)
(* handled once and freed once, and PR_ClearSelectNotify never reads from  *)
(* an empty pipe with the monitor of the queue entered.                    *)
THEOREM EventsCorrect ==
    ASSUME NEW Q, Queue = {Q}
    PROVE  Spec => []EventInv
<1>1. Init => IInv
  BY InitLemma
<1>2. IInv /\ [Next]_vars => IInv'
  BY IInvKept
<1>3. IInv => EventInv
  BY Implied
<1> QED BY <1>1, <1>2, <1>3, PTL DEF Spec

(* For every event in the queue there is a byte in the pipe, or on its way *)
(* there, or just taken out: the mozilla thread is told of all of them,    *)
(* also when events of a closing window were discarded in between.         *)
THEOREM NoWakeupLost ==
    ASSUME NEW Q, Queue = {Q}
    PROVE  Spec => []NoLostWakeup
<1>1. Init => IInv /\ NoLostWakeup
  BY InitLemma
<1>2. IInv /\ NoLostWakeup /\ [Next]_vars => IInv' /\ NoLostWakeup'
  <2>1. IInv /\ NoLostWakeup /\ Next => NoLostWakeup'
    <3> SUFFICES ASSUME IInv, NoLostWakeup, Next PROVE NoLostWakeup'
      OBVIOUS
    <3>1. IInv'
      BY IInvKept
    <3> QED BY <3>1, WakeupKept DEF IInv
  <2>2. NoLostWakeup /\ UNCHANGED vars => NoLostWakeup'
    BY DEF vars, NoLostWakeup, Notifying, Taking
  <2> QED BY <2>1, <2>2, IInvKept
<1> QED BY <1>1, <1>2, PTL DEF Spec

(* No event of a stream names a window that is gone: what the monitor held *)
(* from the look at realContext to the append, and LJ_DiscardEventsFor-    *)
(* Context between them, are for.  For one thread that posts synchronously.*)
THEOREM NothingForTheDead ==
    ASSUME NEW Q, Queue = {Q}, \A s, t \in Syncer : s = t
    PROVE  Spec => []NoEventForDeadContext
<1>1. Init => IInv /\ Closing
  BY InitLemma
<1>2. IInv /\ Closing /\ [Next]_vars => IInv' /\ Closing'
  <2>1. IInv /\ Closing /\ Next => Closing'
    <3> SUFFICES ASSUME IInv, Closing, Next PROVE Closing'
      OBVIOUS
    <3>1. IInv'
      BY IInvKept
    <3>2. Results'
      BY <3>1, ResultsKept DEF IInv, Closing
    <3>3. connects' = 0 => Linked' /\ NoEventForDeadContext'
      BY <3>1, LinkedKept, NothingForTheDeadKept DEF IInv, Closing
    <3>4. connects' # 0 => NoEventForDeadContext'
      BY DEF NoEventForDeadContext
    <3> QED BY <3>2, <3>3, <3>4 DEF Closing
  <2>2. Closing /\ UNCHANGED vars => Closing'
    BY DEF vars, Closing, Results, Synchronous, Linked, Dropped, Pending,
       NoEventForDeadContext
  <2> QED BY <2>1, <2>2, IInvKept
<1>3. Closing => NoEventForDeadContext
  BY DEF Closing
<1> QED BY <1>1, <1>2, <1>3, PTL DEF Spec
-----------------------------------------------------------------------------
(* With one queue, that queue is the mailbox.                              *)
LEMMA OneMailbox ==
    ASSUME NEW Q, Queue = {Q}
    PROVE  TheQueue = Q
  BY DEF TheQueue

(* Steps that leave the queue alone, and the event the mozilla thread has, *)
(* are not seen in the mailbox.                                            *)
Unseen == UNCHANGED <<queue[TheQueue], event[Mozilla]>>

(* A poster's step is one of the mailbox only when it appends.             *)
LEMMA PostersUnseen ==
    ASSUME NEW Q, Queue = {Q}, IInv, NEW t \in Poster,
           \/ Call(t) \/ MakeEvent(t) \/ SelectNotify(t) \/ LeavePost(t) \/ Leave(t)
           \/ CWait(t) \/ ReadResult(t) \/ JavaContextMake(t)
    PROVE  Unseen
<1>1. t # Mozilla /\ queue' = queue
  BY EventAssumption
     DEF Call, StartPost, PostNull, PostSynchronous, Connect, CloseStream,
         JavaContextDestroy, MakeEvent, SelectNotify, LeavePost, Leave, CWait,
         ReadResult, JavaContextMake
<1>2. event' = event \/ \E v : event' = [event EXCEPT ![t] = v]
  BY DEF Call, StartPost, PostNull, PostSynchronous, Connect, CloseStream,
         JavaContextDestroy, MakeEvent, SelectNotify, LeavePost, Leave, CWait,
         ReadResult, JavaContextMake
<1>3. event'[Mozilla] = event[Mozilla]
  BY <1>1, <1>2 DEF IInv, EventTypeOK
<1> QED BY <1>1, <1>3 DEF Unseen

(* PR_PostEvent posts an event that is neither in the queue nor handled.   *)
LEMMA PostEventPosts ==
    ASSUME NEW Q, Queue = {Q}, IInv, NEW t \in Poster, PostEvent(t)
    PROVE  [TheMailbox!Next]_<<queue[TheQueue], event[Mozilla]>>
<1>1. TheQueue = Q /\ at[t] = Q /\ pc[t] = "append" /\ event' = event
  BY OneMailbox DEF PostEvent, IInv, EventTypeOK
<1>2. CASE event[t] = None
  BY <1>1, <1>2 DEF PostEvent
<1>3. CASE event[t] # None
  <2>1. /\ event[t] \in Event /\ event[t] \notin ToSet(queue[Q])
        /\ event[Mozilla] # event[t] /\ queue[Q] \in Seq(Event)
    BY <1>1, <1>3 DEF IInv, Once, Appends, InQueue, EventTypeOK
  <2>2. \A i \in 1 .. Len(queue[Q]) : queue[Q][i] # event[t]
    BY <2>1, LenProperties DEF ToSet
  <2>3. queue'[Q] = Append(queue[Q], event[t])
    BY <1>1, <1>3 DEF PostEvent, PutLast, IInv, EventTypeOK
  <2>4. TheMailbox!Post(event[t])
    BY <1>1, <2>1, <2>2, <2>3 DEF TheMailbox!Post, TheMailbox!Contains
  <2> QED BY <2>1, <2>4 DEF TheMailbox!Next
<1> QED BY <1>2, <1>3

(* The mozilla thread takes the first event, when it has none.             *)
LEMMA MozillaTakes ==
    ASSUME NEW Q, Queue = {Q}, IInv, RemoveEvent
    PROVE  [TheMailbox!Next]_<<queue[TheQueue], event[Mozilla]>>
<1>1. TheQueue = Q /\ at[Mozilla] = Q /\ event[Mozilla] = None
  BY OneMailbox DEF RemoveEvent, IInv, EventTypeOK, Stages
<1>2. CASE queue[Q] = <<>>
  <2>1. queue' = queue /\ event'[Mozilla] = None
    BY <1>1, <1>2 DEF RemoveEvent, IInv, EventTypeOK
  <2> QED BY <1>1, <2>1
<1>3. CASE queue[Q] # <<>>
  <2>1. queue'[Q] = Tail(queue[Q]) /\ event'[Mozilla] = Head(queue[Q])
    BY <1>1, <1>3 DEF RemoveEvent, Removed, IInv, EventTypeOK
  <2> QED BY <1>1, <1>3, <2>1 DEF TheMailbox!Take, TheMailbox!Next
<1> QED BY <1>2, <1>3

(* LJ_DiscardEventsForContext withdraws an event at each step.             *)
LEMMA MozillaWithdraws ==
    ASSUME NEW Q, Queue = {Q}, IInv, DiscardEvents
    PROVE  [TheMailbox!Next]_<<queue[TheQueue], event[Mozilla]>>
<1>1. /\ TheQueue = Q /\ at[Mozilla] = Q /\ event[Mozilla] = None
      /\ event' = event
  BY OneMailbox DEF DiscardEvents, IInv, EventTypeOK, Stages
<1>2. CASE queue' = queue
  BY <1>1, <1>2
<1>3. CASE queue' # queue
  <2>1. PICK e \in ToSet(queue[Q]) : queue' = [queue EXCEPT ![Q] = Without(@, e)]
    BY <1>1, <1>3 DEF DiscardEvents
  <2>2. e \in Event
    BY HeadLemma DEF IInv, EventTypeOK
  <2>3. queue'[Q] = RemoveFirst(queue[Q], e)
    BY <2>1 DEF Without, IInv, EventTypeOK
  <2>4. TheMailbox!RemoveFirst(queue[Q], e) = RemoveFirst(queue[Q], e)
    BY DEF RemoveFirst, RemoveAt, SelectInSeq, Min, TheMailbox!RemoveFirst,
           TheMailbox!RemoveAt, TheMailbox!SelectInSeq, TheMailbox!Min
  <2> QED BY <1>1, <2>2, <2>3, <2>4 DEF TheMailbox!Withdraw, TheMailbox!Next
<1> QED BY <1>2, <1>3

(* Every step is one of the mailbox, or is not seen there.                 *)
LEMMA StepIsMail ==
    ASSUME NEW Q, Queue = {Q}, IInv, [Next]_vars
    PROVE  [TheMailbox!Next]_<<queue[TheQueue], event[Mozilla]>>
<1>1. ASSUME NEW t \in Poster, Call(t) \/ (PosterStep(t) /\ ~PostEvent(t)) PROVE Unseen
  BY <1>1, PostersUnseen DEF PosterStep
<1>2. CASE DestroyEvent
  <2>1. queue' = queue /\ event'[Mozilla] = None
    BY <1>2 DEF DestroyEvent, IInv, EventTypeOK
  <2> QED BY <2>1 DEF TheMailbox!Done, TheMailbox!Next
<1>3. CASE ProcessEvent /\ ~DestroyEvent /\ ~RemoveEvent /\ ~DiscardEvents
  <2>1. queue' = queue /\ event' = event
    BY <1>3 DEF ProcessEvent, Select, GetEvent, ClearSelectNotify, LeaveQueue, HandleEvent,
                Answer, StartDiscard, BreakLinkage, DestroyContext
  <2> QED BY <2>1
<1>4. ASSUME NEW c \in Context, DetachContext(c) PROVE Unseen
  BY <1>4 DEF DetachContext, Unseen
<1>5. CASE UNCHANGED vars
  BY <1>5 DEF vars
<1> QED BY <1>1, <1>2, <1>3, <1>4, <1>5, PostEventPosts, MozillaTakes, MozillaWithdraws
        DEF Next, Unseen, PosterStep, ProcessEvent

(* The event queue is a mailbox of the mozilla thread: events are handled  *)
(* one at a time and in the order they were posted, also when windows are  *)
(* closed and memory that was an event becomes one again.                  *)
THEOREM ImplementsMailbox ==
    ASSUME NEW Q, Queue = {Q}
    PROVE  Spec => IsMailbox
<1>1. Init => IInv /\ TheMailbox!Init
  <2> SUFFICES ASSUME Init PROVE IInv /\ TheMailbox!Init
    OBVIOUS
  <2>1. TheQueue = Q
    BY OneMailbox
  <2>2. queue[Q] = <<>> /\ event[Mozilla] = None
    BY DEF Init, Thread
  <2> QED BY <2>1, <2>2, InitLemma DEF TheMailbox!Init
<1>2. IInv /\ [Next]_vars => IInv' /\ [TheMailbox!Next]_<<queue[TheQueue], event[Mozilla]>>
  BY IInvKept, StepIsMail
<1> QED BY <1>1, <1>2, PTL DEF Spec, IsMailbox, TheMailbox!Spec
=============================================================================
