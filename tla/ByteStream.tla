----------------------------- MODULE ByteStream -----------------------------
(***************************************************************************)
(* What an input stream promises its readers: they get the bytes that were *)
(* sent, each once and in order, and the end of the stream only after the  *)
(* last of them.                                                           *)
(***************************************************************************)
EXTENDS Naturals, Sequences

CONSTANT MaxBytes

VARIABLES
    sent,  \* bytes sent; they are 1, 2, ...
    got,   \* what the readers have got
    ended  \* a reader has been told of the end

Init == sent = 0 /\ got = <<>> /\ ended = FALSE

Send(n) == ~ended /\ sent' = sent + n /\ UNCHANGED <<got, ended>>

Get(n) ==
    /\ Len(got) + n <= sent
    /\ got' = got \o [i \in 1 .. n |-> Len(got) + i]
    /\ UNCHANGED <<sent, ended>>

End == Len(got) = sent /\ ended' = TRUE /\ UNCHANGED <<sent, got>>

Next == (\E n \in 1 .. MaxBytes : Send(n) \/ Get(n)) \/ End

Spec == Init /\ [][Next]_<<sent, got, ended>>
=============================================================================
