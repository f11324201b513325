------------------------------ MODULE Mailbox ------------------------------
(***************************************************************************)
(* What an event queue promises (nspr/include/prevent.h): events are       *)
(* handled one at a time in the order they were posted, each at most once; *)
(* those of a window that goes away may be withdrawn, the others keep      *)
(* their order.                                                            *)
(***************************************************************************)
EXTENDS Sequences, SequencesExt

CONSTANTS Event, None

VARIABLES
    box,  \* the events posted
    busy  \* the event handled now, None if there is none

Init == box = <<>> /\ busy = None

Post(e) ==
    /\ ~Contains(box, e) /\ busy # e
    /\ box' = Append(box, e)
    /\ UNCHANGED busy

Take ==
    /\ busy = None /\ box # <<>>
    /\ busy' = Head(box)
    /\ box' = Tail(box)

Done == busy' = None /\ UNCHANGED box

Withdraw(e) ==
    /\ busy = None
    /\ box' = RemoveFirst(box, e)
    /\ UNCHANGED busy

Next ==
    \/ \E e \in Event : Post(e) \/ Withdraw(e)
    \/ Take \/ Done

Spec == Init /\ [][Next]_<<box, busy>>
=============================================================================
