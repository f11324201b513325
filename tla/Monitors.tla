------------------------------ MODULE Monitors ------------------------------
(***************************************************************************)
(* What monitors promise to the threads that use them (nspr/include/       *)
(* prmon.h), without queues, states or a scheduler: each thread has its    *)
(* own account of the entries it has made, and a monitor lets one thread   *)
(* in.  A thread with entries of a monitor it is not inside is blocked,    *)
(* and does nothing until it is let in, with all its entries.              *)
(***************************************************************************)
EXTENDS Naturals

CONSTANTS Thread, Monitor, None

VARIABLES
    entries,  \* entries made less exits made, per thread and monitor
    inside    \* the thread inside each monitor, None if nobody is

Blocked(t) == \E m \in Monitor : entries[t][m] > 0 /\ inside[m] # t

Init ==
    /\ entries = [t \in Thread |-> [m \in Monitor |-> 0]]
    /\ inside = [m \in Monitor |-> None]

(* PR_EnterMonitor, which lets the thread in or blocks it.                 *)
Enter(t, m) ==
    /\ ~Blocked(t)
    /\ entries' = [entries EXCEPT ![t][m] = @ + 1]
    /\ inside' = [inside EXCEPT ![m] = IF @ = None THEN t ELSE @]

(* PR_ExitMonitor: the last exit leaves, no other does.                    *)
Leave(t, m) ==
    /\ ~Blocked(t) /\ inside[m] = t
    /\ entries' = [entries EXCEPT ![t][m] = @ - 1]
    /\ inside' = [inside EXCEPT ![m] = IF entries[t][m] = 1 THEN None ELSE @]

(* PR_Wait: out of the monitor, but with the entries kept for the return.  *)
StepOut(t, m) ==
    /\ ~Blocked(t) /\ inside[m] = t
    /\ inside' = [inside EXCEPT ![m] = None]
    /\ UNCHANGED entries

(* A blocked thread is let in when nobody is inside.                       *)
Admit(t, m) ==
    /\ inside[m] = None /\ entries[t][m] > 0
    /\ inside' = [inside EXCEPT ![m] = t]
    /\ UNCHANGED entries

Next == \E t \in Thread, m \in Monitor :
            Enter(t, m) \/ Leave(t, m) \/ StepOut(t, m) \/ Admit(t, m)

Spec == Init /\ [][Next]_<<entries, inside>>
=============================================================================
