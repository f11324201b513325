----------------------------- MODULE DataQueue -----------------------------
(***************************************************************************)
(* The queue of bytes between netlib and the Java stream that reads them   *)
(* (nsn_DataQueue of sun-java/netscape/net/netStubs.c).  An element has    *)
(* the bytes not read yet (from its readCursor to its writeCursor) and the *)
(* room that is left behind them.                                          *)
(***************************************************************************)
EXTENDS Naturals, Sequences, SequencesExt

CONSTANT DefaultDataLength  \* DEFAULT_DATA_LENGTH

ASSUME LengthAssumption == DefaultDataLength \in Nat \ {0}

Smaller(m, n) == IF m < n THEN m ELSE n

Element(s) ==
    [bytes |-> s, room |-> IF Len(s) < DefaultDataLength
                           THEN DefaultDataLength - Len(s) ELSE 0]

(* All bytes, and their number (nsn_DataQueue_length).                     *)
Contents(q) == FlattenSeq([i \in DOMAIN q |-> q[i].bytes])

Length(q) == Len(Contents(q))

(* nsn_DataQueue_writeBytes: as much as there is room for goes to the      *)
(* first element, ...                                                      *)
Fitting(q, s) == IF q = <<>> THEN 0 ELSE Smaller(Len(s), q[1].room)

Filled(q, s) ==
    IF Fitting(q, s) = 0 THEN q
    ELSE [q EXCEPT ![1] = [bytes |-> @.bytes \o SubSeq(s, 1, Fitting(q, s)),
                           room  |-> @.room - Fitting(q, s)]]

(* ... and the rest, if any, to a new one.                                 *)
Rest(q, s) == SubSeq(s, Fitting(q, s) + 1, Len(s))

WriteBytes(q, s) ==
    IF Rest(q, s) = <<>> THEN Filled(q, s)
    ELSE Append(Filled(q, s), Element(Rest(q, s)))

(* Elements that are read to their end are freed, whatever their room.     *)
Before(q, i) == Length(SubSeq(q, 1, i - 1))

ReadAmount(q, n) == SubSeq(Contents(q), 1, Smaller(n, Length(q)))

Unread(q, n) == {i \in DOMAIN q : Before(q, i) + Len(q[i].bytes) > n}

AfterRead(q, n) ==
    IF Unread(q, n) = {} THEN <<>>
    ELSE LET f == CHOOSE i \in Unread(q, n) : \A j \in Unread(q, n) : i <= j
             cut == n - Before(q, f) IN
         [SubSeq(q, f, Len(q)) EXCEPT ![1].bytes = SubSeq(@, cut + 1, Len(@))]
=============================================================================
