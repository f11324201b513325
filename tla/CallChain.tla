----------------------------- MODULE CallChain -----------------------------
(***************************************************************************)
(* What merging the mozilla thread and a Java thread is for (the comments  *)
(* of lib/libjava/lj_thred.c): the two act like one thread with one stack. *)
(* A call gives the turn to the other side, which runs the callback, once, *)
(* and calls back meanwhile if it likes; then the caller has the turn      *)
(* again.  Java must call first, and one Java thread is merged at a time.  *)
(***************************************************************************)
EXTENDS Naturals

CONSTANTS Java, Mozilla, None

Thread == Java \cup {Mozilla}

VARIABLES
    open,  \* how many calls of each thread have not returned
    turn   \* whose turn it is, and what for

Nobody == <<None, "none">>

Init ==
    /\ open = [t \in Thread |-> 0]
    /\ turn = Nobody

(* Two threads that are merged, one of which has called the other.         *)
Called(t, u) ==
    /\ t # u /\ Mozilla \in {t, u} /\ open[t] > 0
    /\ u \in Java => open[u] > 0

Call(t) ==
    /\ \/ turn = <<t, "run">>
       \/ turn = Nobody /\ t \in Java
    /\ open' = [open EXCEPT ![t] = @ + 1]
    /\ turn' = <<t, "ask">>

Run(t, u) ==
    /\ turn = <<t, "ask">> /\ Called(t, u)
    /\ turn' = <<u, "run">>
    /\ UNCHANGED open

Finish(t, u) ==
    /\ turn = <<u, "run">> /\ Called(t, u)
    /\ turn' = <<t, "return">>
    /\ UNCHANGED open

Return(t) ==
    /\ turn = <<t, "return">>
    /\ open' = [open EXCEPT ![t] = @ - 1]
    /\ turn' = IF t \in Java /\ open[t] = 1 THEN Nobody ELSE <<t, "run">>

Next ==
    \/ \E t \in Thread : Call(t) \/ Return(t)
    \/ \E t, u \in Thread : Run(t, u) \/ Finish(t, u)

Spec == Init /\ [][Next]_<<open, turn>>
=============================================================================
