------------------------------- MODULE Links -------------------------------
(***************************************************************************)
(* The circular lists of nspr/include/prclist.h, as sequences.             *)
(*                                                                         *)
(* A PRCList header is modelled by the sequence of the elements linked     *)
(* behind it, first element first.  The macros that keep a list are then   *)
(* operators on sequences: PR_APPEND_LINK is Append, PR_CLIST_IS_EMPTY a   *)
(* comparison with <<>>, and the others are below.  PR_REMOVE_LINK names   *)
(* only the element: it unlinks it from whatever list it happens to be on, *)
(* which is what Unlink and Relink say of a family of lists.               *)
(***************************************************************************)
EXTENDS Integers, Sequences, SequencesExt

(* The list without element e; a list that does not hold e is unchanged.   *)
Without(list, e) == RemoveFirst(list, e)

(* PR_APPEND_LINK(e, lists[to]).                                           *)
Link(lists, e, to) == [lists EXCEPT ![to] = Append(@, e)]

UnlinkNothing(lists, e) == lists                \* mutant of Unlink

(* PR_REMOVE_LINK(e), on the family of lists e may be on.                  *)
Unlink(lists, e) == [n \in DOMAIN lists |-> Without(lists[n], e)]

(* PR_REMOVE_LINK(e) followed by PR_APPEND_LINK(e, lists[to]).             *)
Relink(lists, e, to) ==
    [n \in DOMAIN lists |->
        IF n = to THEN Append(Without(lists[n], e), e) ELSE Without(lists[n], e)]

(* PR_INSERT_BEFORE(e, the i-th link of the list); the header is the link  *)
(* number Len(list) + 1.                                                   *)
InsertBefore(list, i, e) == InsertAt(list, i, e)

(* The elements that directly follow e on its list: none when e's next     *)
(* link is the header.                                                     *)
Followers(list, e) ==
    {list[i + 1] : i \in {j \in DOMAIN list : j < Len(list) /\ list[j] = e}}

(* A list that holds no element twice.                                     *)
IsTidy(list) == IsInjective(list)
=============================================================================
