------------------------------ MODULE Lending -------------------------------
(***************************************************************************)
(* What a cache of documents promises to those who read from it, whatever  *)
(* it does about space: a copy is offered when it is complete, lent only   *)
(* while it is offered, never offered again once it was withdrawn, and     *)
(* gone only when nobody has it.  One call may do something to several     *)
(* copies at once, to each of them one of the steps below.                 *)
(***************************************************************************)
EXTENDS Naturals

CONSTANT Copy

VARIABLES
    shelf,   \* where a copy is
    loans    \* how many read it

Init == shelf = [c \in Copy |-> "gone"] /\ loans = [c \in Copy |-> 0]

Moves(c, from, to) == shelf[c] \in from /\ shelf'[c] = to
Stays(c) == shelf'[c] = shelf[c]

Prepare(c) == Moves(c, {"gone"}, "prepared") /\ loans'[c] = loans[c]
Offer(c) == Moves(c, {"prepared"}, "offered") /\ loans'[c] = loans[c]
Lend(c) == shelf[c] = "offered" /\ Stays(c) /\ loans'[c] = loans[c] + 1
Return(c) == loans'[c] + 1 = loans[c] /\ Stays(c)
Withdraw(c) == Moves(c, {"prepared", "offered"}, "withdrawn") /\ loans'[c] = loans[c]
Remove(c) == Moves(c, {"prepared", "offered", "withdrawn"}, "gone") /\ loans'[c] = 0 /\ loans[c] = 0
LastReturn(c) == Moves(c, {"withdrawn"}, "gone") /\ loans[c] = 1 /\ loans'[c] = 0
Rest(c) == Stays(c) /\ loans'[c] = loans[c]

Next ==
    \A c \in Copy : \/ Rest(c) \/ Prepare(c) \/ Offer(c) \/ Lend(c) \/ Return(c)
                    \/ Withdraw(c) \/ Remove(c) \/ LastReturn(c)

Spec == Init /\ [][Next]_<<shelf, loans>>
=============================================================================
