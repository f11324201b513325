-------------------------- MODULE DnsHelperProofs ---------------------------
(***************************************************************************)
(* OneAck, DnsInv and RightAddress of DnsHelper for any number of sockets, *)
(* hosts and lookups, until a callback calls the helper while another call *)
(* waits for it, which the comments of the code take to be impossible; the *)
(* run nestedlookup shows what becomes of it then.                         *)
(*                                                                         *)
(* The browser and the helper never see each other's objects.  The         *)
(* invariant says what is on its way between them in each stage of a call  *)
(* (Stage), and what an id that the browser holds stands for in the other  *)
(* process and in the pipe.                                                *)
(***************************************************************************)
EXTENDS DnsHelper, SequenceTheorems, FiniteSetTheorems, TLAPS

Calls == [call : {"lookup", "kill"}, sock : Socket,
          inCallback : BOOLEAN, answerRead : BOOLEAN]
Cmds  == [cmd : {"lookup", "kill"}, host : Host \cup {None}, id : 0 .. MaxLookups]
Lines == [code : {"started", "notStarted", "killed", "killFailed", "ok", "failed"},
          id : 1 .. MaxLookups, ip : Host \cup {None}]

(* One call waits.                                                         *)
One(call, s, b, c) ==
    <<[call |-> call, sock |-> s, inCallback |-> b, answerRead |-> c]>>

(* No callback has made a call inside another's wait.                      *)
Unnested == Len(waits) <= 1

NoAck == \A i \in 1 .. Len(lines) : IsAnswer(lines[i])

(* Line i is the only acknowledgement in the pipe.                         *)
AckAt(i) ==
    /\ i \in 1 .. Len(lines) /\ ~IsAnswer(lines[i])
    /\ \A j \in 1 .. Len(lines) : j # i => IsAnswer(lines[j])

(* What is known of a host's name holds of all that is said of the id.     *)
Means(id, name) ==
    /\ proc2[id] # None => proc2[id].host = name
    /\ \A i \in 1 .. Len(lines) : lines[i].id = id /\ lines[i].code = "ok" => lines[i].ip = name

(* The lookup is with a child, or answered.                                *)
Known(id) ==
    proc2[id] # None \/ \E i \in 1 .. Len(lines) : IsAnswer(lines[i]) /\ lines[i].id = id

-----------------------------------------------------------------------------
(* The stages of a call.                                                   *)
NoCall ==
    waits = <<>> /\ cmds = <<>> /\ NoAck /\ helper \in {0, Dead}

StartedAt(i, s) ==
    LET id == lines[i].id IN
    /\ AckAt(i) /\ lines[i] = Line("started", id, None)
    /\ \A u \in Socket : proc1[u] # id
    /\ Means(id, queue[s].name) /\ Known(id)

LookupStage(s) ==
    /\ proc1[s] = 0 /\ load[s] # None
    /\ helper \in {0, Dead}
    /\ \/ /\ cmds = <<[cmd |-> "lookup", host |-> queue[s].name, id |-> 0]>>
          /\ NoAck /\ helper = 0 /\ tick < MaxLookups
       \/ cmds = <<>> /\ NoAck /\ helper = Dead
       \/ cmds = <<>> /\ \E i \in 1 .. Len(lines) : StartedAt(i, s)
       \/ cmds = <<>> /\ helper = Dead
            /\ \E i \in 1 .. Len(lines) : AckAt(i) /\ lines[i].code = "notStarted"

KilledAt(i, id) ==
    /\ AckAt(i) /\ lines[i].code \in {"killed", "killFailed"} /\ lines[i].id = id
    /\ proc2[id] = None
    /\ \A j \in 1 .. Len(lines) : lines[j].id = id => j <= i

KillStage(s) ==
    LET id == proc1[s] IN
    /\ load[s] = None /\ id \in 1 .. tick
    /\ \/ /\ cmds = <<[cmd |-> "kill", host |-> None, id |-> id]>>
          /\ NoAck /\ helper = 0
       \/ cmds = <<>> /\ NoAck /\ helper = id /\ proc2[id] # None
       \/ cmds = <<>> /\ NoAck /\ helper = Dead
       \/ cmds = <<>> /\ helper \in {0, Dead} /\ \E i \in 1 .. Len(lines) : KilledAt(i, id)

InCall ==
    \E w \in Calls :
        /\ waits = <<w>>
        /\ w.call = "lookup" => LookupStage(w.sock)
        /\ w.call = "kill" => KillStage(w.sock)

Stage == NoCall \/ InCall

-----------------------------------------------------------------------------
(* What the browser keeps for its sockets.                                 *)
Kept ==
    \A s \in Socket :
        /\ queue[s] # None /\ queue[s].status = "ok" => queue[s].ip = queue[s].name
        /\ load[s] # None => queue[s] # None /\ queue[s].name = load[s] /\ proc1[s] # None
        /\ proc1[s] # None => queue[s] # None /\ (load[s] # None \/ Waiting(s))
        /\ proc1[s] = 0 => Waiting(s)

(* Ids are used once, and each means one lookup of one socket.             *)
IdsOnce ==
    /\ \A id \in 1 .. MaxLookups : id > tick => proc2[id] = None
    /\ \A i \in 1 .. Len(lines) : lines[i].id <= tick
    /\ \A s \in Socket : proc1[s] # None => proc1[s] <= tick
    /\ \A s, u \in Socket : proc1[s] = proc1[u] /\ proc1[s] \notin {None, 0} => s = u

IdsMean ==
    \A s \in Socket : proc1[s] \notin {None, 0} =>
        /\ Means(proc1[s], queue[s].name)
        /\ Known(proc1[s]) \/ Waiting(s)

(* An answer is given once, when the helper has forgotten the lookup, and  *)
(* for one that is waited for or about to be.                              *)
AnswersOnce ==
    \A i \in 1 .. Len(lines) : IsAnswer(lines[i]) =>
        /\ proc2[lines[i].id] = None
        /\ \A j \in 1 .. Len(lines) :
              IsAnswer(lines[j]) /\ lines[j].id = lines[i].id => j = i
        /\ \/ \E s \in Socket : proc1[s] = lines[i].id
           \/ \E j \in 1 .. Len(lines) : j < i /\ lines[j] = Line("started", lines[i].id, None)

(* The browser still waits, or will, for what the helper has with a child. *)
Wanted ==
    helper # Dead => \A id \in 1 .. MaxLookups : proc2[id] # None =>
        \/ \E s \in Socket : proc1[s] = id
        \/ \E j \in 1 .. Len(lines) : lines[j] = Line("started", id, None)

Ids == IdsOnce /\ IdsMean /\ AnswersOnce /\ Wanted

IInv == DnsTypeOK /\ Stage /\ Kept /\ Ids /\ RightAddress
-----------------------------------------------------------------------------
USE DEF Dead, Calls, Cmds, Lines, One

(* Reading the first line of the pipe moves the others up by one.          *)
LEMMA Dropped ==
    ASSUME DnsTypeOK, lines # <<>>, lines' = Tail(lines)
    PROVE  /\ lines' \in Seq(Lines) /\ Head(lines) = lines[1] /\ lines[1] \in Lines
           /\ Len(lines) \in Nat /\ Len(lines') \in Nat /\ Len(lines') = Len(lines) - 1
           /\ \A i \in 1 .. Len(lines') :
                 i + 1 \in 1 .. Len(lines) /\ lines'[i] = lines[i + 1]
           /\ \A i \in 1 .. Len(lines) : i # 1 =>
                 i - 1 \in 1 .. Len(lines') /\ lines'[i - 1] = lines[i]
<1>1. lines \in Seq(Lines)
  BY DEF DnsTypeOK
<1>2. Len(Tail(lines)) = Len(lines) - 1 /\ \A i \in 1 .. Len(Tail(lines)) : Tail(lines)[i] = lines[i + 1]
  BY <1>1, HeadTailProperties
<1>3. Len(lines) \in Nat \ {0} /\ Head(lines) = lines[1] /\ Tail(lines) \in Seq(Lines)
  BY <1>1
<1>4. lines[1] \in Lines
  <2> HIDE DEF Lines
  <2>1. 1 \in 1 .. Len(lines)
    BY <1>3
  <2> QED
    BY <1>1, <2>1, ElementOfSeq
<1> QED
  BY <1>1, <1>2, <1>3, <1>4

(* Writing a line leaves the others where they are.                        *)
LEMMA Written ==
    ASSUME DnsTypeOK, NEW line \in Lines, lines' = Append(lines, line)
    PROVE  /\ lines' \in Seq(Lines)
           /\ Len(lines) \in Nat /\ Len(lines') = Len(lines) + 1
           /\ \A i \in 1 .. Len(lines) : i \in 1 .. Len(lines') /\ lines'[i] = lines[i]
           /\ lines'[Len(lines')] = line /\ Len(lines') \in 1 .. Len(lines')
           /\ \A i \in 1 .. Len(lines') : i = Len(lines') \/ i \in 1 .. Len(lines)
<1>1. lines \in Seq(Lines)
  BY DEF DnsTypeOK
<1> QED
  BY <1>1, AppendProperties

(* An element of the pipe is a line.                                       *)
LEMMA LineTyped ==
    ASSUME DnsTypeOK, NEW i \in 1 .. Len(lines)
    PROVE  lines[i] \in Lines
<1>1. lines \in Seq(Lines)
  BY DEF DnsTypeOK
<1> HIDE DEF Lines
<1> QED
  BY <1>1, ElementOfSeq

(* The first disjuncts of Stage exclude each other by waits: there is one  *)
(* call at most, and what is done to it.                                   *)
LEMMA OneCall ==
    ASSUME DnsTypeOK, Stage, waits # <<>>
    PROVE  /\ Top \in Calls /\ waits = <<Top>> /\ Top.sock \in Socket
           /\ \A s \in Socket : Waiting(s) <=> s = Top.sock
           /\ Top.call = "lookup" => LookupStage(Top.sock)
           /\ Top.call = "kill" => KillStage(Top.sock)
           /\ Return => waits' = <<>>
           /\ \/ Callback \/ ReadsOn(TRUE) \/ ReadsOn(FALSE) \/ waits' = waits
              \/ waits' = [waits EXCEPT ![Len(waits)].inCallback = FALSE]
              => \E b, c \in BOOLEAN : waits' = One(Top.call, Top.sock, b, c)
<1>1. PICK w \in Calls :
          /\ waits = <<w>>
          /\ w.call = "lookup" => LookupStage(w.sock)
          /\ w.call = "kill" => KillStage(w.sock)
  BY DEF Stage, NoCall, InCall
<1>2. Len(waits) = 1 /\ Top = w /\ DOMAIN waits = {1} /\ waits[1] = w
  BY <1>1 DEF Top
<1>3. \A s \in Socket : Waiting(s) <=> s = w.sock
  BY <1>2 DEF Waiting
<1>4. SubSeq(waits, 1, Len(waits) - 1) = <<>>
  BY <1>1, <1>2
<1>5. ASSUME NEW b \in BOOLEAN
      PROVE  [waits EXCEPT ![Len(waits)].inCallback = b] = One(w.call, w.sock, b, w.answerRead)
  <2>1. [w EXCEPT !.inCallback = b] =
            [call |-> w.call, sock |-> w.sock, inCallback |-> b, answerRead |-> w.answerRead]
    OBVIOUS
  <2>2. [waits EXCEPT ![Len(waits)].inCallback = b] = <<[w EXCEPT !.inCallback = b]>>
    BY <1>1, <1>2
  <2> QED
    BY <2>1, <2>2
<1>6. ASSUME NEW b \in BOOLEAN, ReadsOn(b)
      PROVE  waits' = One(w.call, w.sock, b, TRUE)
  <2>0. PICK v \in Calls : v = [call |-> w.call, sock |-> w.sock,
                                inCallback |-> w.inCallback, answerRead |-> TRUE]
    OBVIOUS
  <2>6. PICK c \in BOOLEAN : c = TRUE
    OBVIOUS
  <2>7. [w EXCEPT !.answerRead = c] =
            [call |-> w.call, sock |-> w.sock, inCallback |-> w.inCallback, answerRead |-> c]
    OBVIOUS
  <2>3. [w EXCEPT !.answerRead = TRUE] = v
    BY <2>0, <2>6, <2>7, Zenon
  <2>4. [v EXCEPT !.inCallback = b] =
            [call |-> v.call, sock |-> v.sock, inCallback |-> b, answerRead |-> v.answerRead]
    OBVIOUS
  <2>5. v.call = w.call /\ v.sock = w.sock /\ v.answerRead = TRUE
    BY <2>0
  <2>1. [[w EXCEPT !.answerRead = TRUE] EXCEPT !.inCallback = b] =
            [call |-> w.call, sock |-> w.sock, inCallback |-> b, answerRead |-> TRUE]
    BY <2>3, <2>4, <2>5
  <2>2. waits' = <<[[w EXCEPT !.answerRead = TRUE] EXCEPT !.inCallback = b]>>
    BY <1>1, <1>2, <1>6 DEF ReadsOn
  <2> QED
    BY <2>1, <2>2
<1>7. waits = One(w.call, w.sock, w.inCallback, w.answerRead)
  BY <1>1
<1>8. w.inCallback \in BOOLEAN /\ w.answerRead \in BOOLEAN
  OBVIOUS
<1>9. ASSUME \/ Callback \/ ReadsOn(TRUE) \/ ReadsOn(FALSE) \/ waits' = waits
             \/ waits' = [waits EXCEPT ![Len(waits)].inCallback = FALSE]
      PROVE  \E b, c \in BOOLEAN : waits' = One(Top.call, Top.sock, b, c)
  <2> HIDE DEF One
  <2> QED
    BY <1>2, <1>5, <1>6, <1>7, <1>8, <1>9 DEF Callback
<1> QED
  BY <1>1, <1>2, <1>3, <1>4, <1>9 DEF Return

(* A call that has been made, or is in a callback, is in its stage.        *)
LEMMA LookupStaged ==
    ASSUME NEW s \in Socket, NEW b \in BOOLEAN, NEW c \in BOOLEAN, LookupStage(s)',
           waits' = One("lookup", s, b, c)
    PROVE  Stage' /\ waits' \in Seq(Calls)
<1> DEFINE w == [call |-> "lookup", sock |-> s, inCallback |-> b, answerRead |-> c]
<1>1. w \in Calls /\ w.call = "lookup" /\ w.sock = s
  OBVIOUS
<1>2. waits' = <<w>> /\ LookupStage(w.sock)'
  OBVIOUS
<1>3. <<w>> \in Seq(Calls)
  <2> HIDE DEF w, Calls
  <2> QED
    BY <1>1
<1> QED
  BY <1>1, <1>2, <1>3 DEF Stage, InCall

(* The same for a kill.                                                    *)
LEMMA KillStaged ==
    ASSUME NEW s \in Socket, NEW b \in BOOLEAN, NEW c \in BOOLEAN, KillStage(s)',
           waits' = One("kill", s, b, c)
    PROVE  Stage' /\ waits' \in Seq(Calls)
<1> DEFINE w == [call |-> "kill", sock |-> s, inCallback |-> b, answerRead |-> c]
<1>1. w \in Calls /\ w.call = "kill" /\ w.sock = s
  OBVIOUS
<1>2. waits' = <<w>> /\ KillStage(w.sock)'
  OBVIOUS
<1>3. <<w>> \in Seq(Calls)
  <2> HIDE DEF w, Calls
  <2> QED
    BY <1>1
<1> QED
  BY <1>1, <1>2, <1>3 DEF Stage, InCall

(* Between calls.                                                          *)
LEMMA NoneWaits ==
    ASSUME Stage, waits = <<>>
    PROVE  NoCall /\ \A s \in Socket : ~Waiting(s)
  BY DEF Stage, InCall, NoCall, Waiting
-----------------------------------------------------------------------------
(* handle_async_response inside a call that does not ask for the answer, or*)
(* from the event loop: the answer finds its load, and takes it.           *)
LEMMA Answering ==
    ASSUME IInv, lines # <<>>, IsAnswer(lines[1]), AsyncResponse(lines[1]), lines' = Tail(lines),
           UNCHANGED twoVars, \A s \in Socket : Waiting(s)' <=> Waiting(s),
           \A s \in Socket : Waiting(s) => proc1[s] # lines[1].id
    PROVE  /\ \E s \in Socket : /\ proc1[s] = lines[1].id /\ ~Waiting(s)
                               /\ proc1' = [proc1 EXCEPT ![s] = None]
                               /\ queue' = [queue EXCEPT ![s] = None]
                               /\ load' = [load EXCEPT ![s] = None]
           /\ given' \in [Socket -> [host : Host, status : Status, ip : Host \cup {None}] \cup {None}]
           /\ Kept' /\ Ids' /\ RightAddress'
<1> USE DnsAssumption DEF IInv, Ids
<1>t. DnsTypeOK
  OBVIOUS
<1> DEFINE id == lines[1].id
<1>0. /\ lines[1] \in Lines /\ id \in 1 .. MaxLookups /\ 1 \in 1 .. Len(lines)
      /\ Len(lines) \in Nat /\ Len(lines') = Len(lines) - 1
      /\ \A i \in 1 .. Len(lines') : i + 1 \in 1 .. Len(lines) /\ lines'[i] = lines[i + 1]
      /\ \A i \in 1 .. Len(lines) : i # 1 =>
            i - 1 \in 1 .. Len(lines') /\ lines'[i - 1] = lines[i]
  <2>1. Len(lines) # 0
    BY DEF DnsTypeOK
  <2> QED
    BY <1>t, <2>1, Dropped
<1>1. \E s \in Socket : proc1[s] = id
  BY <1>0 DEF AnswersOnce
<1>2. PICK s \in Asker(lines[1]) :
          Done(s, IF lines[1].code = "ok" THEN "ok" ELSE "error", lines[1].ip)
  BY <1>0, <1>1 DEF AsyncResponse, Asker
<1>3. s \in Socket /\ proc1[s] = id /\ ~Waiting(s) /\ id \notin {None, 0}
  BY <1>0, <1>2 DEF Asker
<1>4. load[s] # None /\ queue[s] # None /\ queue[s].name = load[s] /\ load[s] \in Host
  BY <1>3 DEF Kept, DnsTypeOK
<1>5. /\ proc1' = [proc1 EXCEPT ![s] = None]
      /\ given' = [given EXCEPT ![s] = [host |-> load[s],
                       status |-> IF lines[1].code = "ok" THEN "ok" ELSE "error", ip |-> lines[1].ip]]
      /\ queue' = [queue EXCEPT ![s] = None] /\ load' = [load EXCEPT ![s] = None]
  BY <1>2, <1>4 DEF Done, Consume
<1>6. /\ proc1'[s] = None /\ queue'[s] = None /\ load'[s] = None
      /\ \A u \in Socket : u # s => /\ proc1'[u] = proc1[u] /\ queue'[u] = queue[u]
                                   /\ load'[u] = load[u] /\ given'[u] = given[u]
  BY <1>3, <1>5 DEF DnsTypeOK
<1>7. given'[s] = [host |-> load[s], status |-> IF lines[1].code = "ok" THEN "ok" ELSE "error",
                   ip |-> lines[1].ip]
  BY <1>3, <1>5 DEF DnsTypeOK
<1>8. proc2' = proc2 /\ tick' = tick /\ helper' = helper
  BY DEF twoVars
<1>9. RightAddress'
  <2>1. lines[1].code = "ok" => lines[1].ip = load[s]
    BY <1>0, <1>3, <1>4 DEF IdsMean, Means
  <2> QED
    BY <1>6, <1>7, <2>1 DEF RightAddress
<1>10. Kept'
  BY <1>6 DEF Kept
<1>11. IdsOnce'
  BY <1>0, <1>6, <1>8 DEF IdsOnce
<1>12. IdsMean'
  <2> SUFFICES ASSUME NEW u \in Socket, proc1'[u] \notin {None, 0}
               PROVE  Means(proc1[u], queue[u].name)' /\ (Known(proc1[u])' \/ Waiting(u)')
    BY DEF IdsMean
  <2>1. u # s /\ proc1'[u] = proc1[u] /\ queue'[u] = queue[u] /\ proc1[u] # id
    BY <1>3, <1>6 DEF IdsOnce
  <2>2. Means(proc1[u], queue[u].name)'
    BY <1>0, <1>8, <2>1 DEF IdsMean, Means
  <2>3. Known(proc1[u]) => Known(proc1[u])'
    <3> SUFFICES ASSUME NEW i \in 1 .. Len(lines), IsAnswer(lines[i]), lines[i].id = proc1[u]
                 PROVE  Known(proc1[u])'
      BY <1>8, <2>1 DEF Known
    <3>1. i - 1 \in 1 .. Len(lines') /\ lines'[i - 1] = lines[i]
      BY <1>0, <2>1
    <3> QED
      BY <2>1, <3>1 DEF Known, IsAnswer
  <2> QED
    BY <2>1, <2>2, <2>3 DEF IdsMean
<1>13. AnswersOnce'
  <2> SUFFICES ASSUME NEW i \in 1 .. Len(lines'), IsAnswer(lines'[i])
               PROVE  /\ proc2[lines'[i].id] = None
                      /\ \A j \in 1 .. Len(lines') :
                            IsAnswer(lines'[j]) /\ lines'[j].id = lines'[i].id => j = i
                      /\ \/ \E u \in Socket : proc1'[u] = lines'[i].id
                         \/ \E j \in 1 .. Len(lines') :
                               j < i /\ lines'[j] = Line("started", lines'[i].id, None)
    BY <1>8 DEF AnswersOnce, IsAnswer, Line
  <2>1. i + 1 \in 1 .. Len(lines) /\ lines'[i] = lines[i + 1] /\ IsAnswer(lines[i + 1])
    BY <1>0
  <2>2. proc2[lines'[i].id] = None
    BY <2>1 DEF AnswersOnce
  <2>3. lines'[i].id # id
    BY <1>0, <2>1 DEF AnswersOnce
  <2>4. ASSUME NEW j \in 1 .. Len(lines'), IsAnswer(lines'[j]), lines'[j].id = lines'[i].id
        PROVE  j = i
    <3>1. j + 1 \in 1 .. Len(lines) /\ lines'[j] = lines[j + 1]
      BY <1>0
    <3>2. j + 1 = i + 1
      BY <2>1, <2>4, <3>1 DEF AnswersOnce
    <3> QED
      BY <3>2
  <2>5. ASSUME NEW u \in Socket, proc1[u] = lines[i + 1].id
        PROVE  proc1'[u] = lines'[i].id
    BY <1>3, <1>6, <2>1, <2>3, <2>5
  <2>6. ASSUME NEW j \in 1 .. Len(lines), j < i + 1,
               lines[j] = Line("started", lines[i + 1].id, None)
        PROVE  /\ j - 1 \in 1 .. Len(lines') /\ j - 1 < i
               /\ lines'[j - 1] = Line("started", lines'[i].id, None)
    <3>1. j # 1
      BY <2>6 DEF IsAnswer, Line
    <3> QED
      BY <1>0, <2>1, <2>6, <3>1
  <2> QED
    BY <2>1, <2>2, <2>4, <2>5, <2>6 DEF AnswersOnce
<1>14. Wanted'
  <2> SUFFICES ASSUME helper # Dead, NEW k \in 1 .. MaxLookups, proc2[k] # None
               PROVE  \/ \E u \in Socket : proc1'[u] = k
                      \/ \E j \in 1 .. Len(lines') : lines'[j] = Line("started", k, None)
    BY <1>8 DEF Wanted, Line
  <2>1. k # id
    BY <1>0 DEF AnswersOnce
  <2>2. CASE \E u \in Socket : proc1[u] = k
    BY <1>3, <1>6, <2>1, <2>2
  <2>3. CASE \E j \in 1 .. Len(lines) : lines[j] = Line("started", k, None)
    <3>1. PICK j \in 1 .. Len(lines) : lines[j] = Line("started", k, None)
      BY <2>3
    <3>2. j # 1
      BY <3>1 DEF IsAnswer, Line
    <3> QED
      BY <1>0, <3>1, <3>2
  <2> QED
    BY <2>2, <2>3 DEF Wanted
<1>15. given' \in [Socket -> [host : Host, status : Status, ip : Host \cup {None}] \cup {None}]
  <2>1. [host |-> load[s], status |-> IF lines[1].code = "ok" THEN "ok" ELSE "error",
         ip |-> lines[1].ip] \in [host : Host, status : Status, ip : Host \cup {None}]
    BY <1>0, <1>4 DEF Status
  <2> QED
    BY <1>5, <2>1 DEF DnsTypeOK
<1> QED
  BY <1>3, <1>5, <1>9, <1>10, <1>11, <1>12, <1>13, <1>14, <1>15
-----------------------------------------------------------------------------
(* A step of the browser that reads nothing and forgets no id.             *)
LEMMA Quiet ==
    ASSUME IInv, UNCHANGED <<lines, proc2, tick>>, helper' = helper,
           \A s \in Socket : Waiting(s) => Waiting(s)',
           \A s \in Socket : \/ proc1'[s] = proc1[s] /\ (proc1[s] # None => queue'[s] = queue[s])
                             \/ proc1[s] = None /\ proc1'[s] = 0
    PROVE  Ids'
<1> USE DnsAssumption DEF IInv, Ids
<1>1. \A s \in Socket : proc1'[s] \notin {None, 0} => proc1'[s] = proc1[s] /\ queue'[s] = queue[s]
  OBVIOUS
<1>2. \A s \in Socket : proc1[s] \notin {None, 0} => proc1'[s] = proc1[s]
  OBVIOUS
<1>3. IdsOnce'
  <2>1. \A s \in Socket : proc1'[s] # None => proc1'[s] <= tick
    BY DEF IdsOnce, DnsTypeOK
  <2> QED
    BY <1>1, <2>1 DEF IdsOnce
<1>4. IdsMean'
  BY <1>1 DEF IdsMean, Means, Known
<1>5. \A id \in 1 .. MaxLookups :
          (\E s \in Socket : proc1[s] = id) => \E s \in Socket : proc1'[s] = id
  BY <1>2
<1>6. AnswersOnce'
  <2>1. ASSUME NEW i \in 1 .. Len(lines), IsAnswer(lines[i])
        PROVE  /\ proc2[lines[i].id] = None
               /\ \A j \in 1 .. Len(lines) :
                     IsAnswer(lines[j]) /\ lines[j].id = lines[i].id => j = i
               /\ \/ \E s \in Socket : proc1'[s] = lines[i].id
                  \/ \E j \in 1 .. Len(lines) : j < i /\ lines[j] = Line("started", lines[i].id, None)
    <3>1. lines[i].id \in 1 .. MaxLookups
      BY LineTyped
    <3>2. /\ proc2[lines[i].id] = None
          /\ \A j \in 1 .. Len(lines) :
                IsAnswer(lines[j]) /\ lines[j].id = lines[i].id => j = i
          /\ \/ \E s \in Socket : proc1[s] = lines[i].id
             \/ \E j \in 1 .. Len(lines) : j < i /\ lines[j] = Line("started", lines[i].id, None)
      BY <2>1, Zenon DEF AnswersOnce
    <3>3. (\E s \in Socket : proc1[s] = lines[i].id) => \E s \in Socket : proc1'[s] = lines[i].id
      BY <1>5, <3>1
    <3> QED
      BY <3>2, <3>3, Zenon
  <2> QED
    BY <2>1, Zenon DEF AnswersOnce, IsAnswer, Line
<1>7. Wanted'
  BY <1>5 DEF Wanted, Line
<1> QED
  BY <1>3, <1>4, <1>6, <1>7

(* FE_StartAsyncDNSLookup.                                                 *)
LEMMA Starting ==
    ASSUME IInv, Unnested', NEW s \in Socket, NEW h \in Host, StartLookup(s, h)
    PROVE  IInv'
<1> USE DnsAssumption
<1>i. DnsTypeOK /\ Stage /\ Kept /\ Ids /\ RightAddress
  BY DEF IInv
<1>0. load[s] = None /\ ~Waiting(s)
  BY DEF StartLookup
<1>1. proc1[s] = None
  BY <1>i, <1>0 DEF Kept
<1>2. UNCHANGED <<lines, proc2, tick, helper, service>>
  BY DEF StartLookup, twoVars
<1>3. CASE LeftOver(s, h)
  <2>1. /\ queue[s] # None /\ queue[s].name = h
        /\ Consume(s, h, queue[s].status, queue[s].ip)
        /\ UNCHANGED <<proc1, waits, cmds>>
    BY <1>3 DEF StartLookup, LeftOver
  <2>2. queue'[s] = None /\ load'[s] = None
        /\ given'[s] = [host |-> h, status |-> queue[s].status, ip |-> queue[s].ip]
        /\ \A u \in Socket : u # s =>
              queue'[u] = queue[u] /\ load'[u] = load[u] /\ given'[u] = given[u]
    BY <1>i, <2>1 DEF Consume, DnsTypeOK
  <2>3. DnsTypeOK'
    <3>1. queue[s] \in Entry
      BY <1>i, <2>1 DEF DnsTypeOK
    <3>2. [host |-> h, status |-> queue[s].status, ip |-> queue[s].ip] \in
              [host : Host, status : Status, ip : Host \cup {None}]
      BY <3>1 DEF Entry
    <3> QED
      BY <1>i, <1>2, <2>1, <3>2 DEF Consume, DnsTypeOK
  <2>4. Stage'
    <3>1. CASE waits = <<>>
      <4>1. NoCall
        BY <1>i, <3>1, NoneWaits
      <4> QED
        BY <1>2, <2>1, <4>1 DEF Stage, NoCall, NoAck, IsAnswer
    <3>2. CASE waits # <<>>
      <4>1. PICK u \in Socket, b \in BOOLEAN, c \in BOOLEAN :
                /\ u # s /\ Top.call \in {"lookup", "kill"}
                /\ Top.call = "lookup" => LookupStage(u)
                /\ Top.call = "kill" => KillStage(u)
                /\ waits' = One(Top.call, u, b, c)
        <5>1. /\ Top.sock \in Socket /\ Top.sock # s /\ Top.call \in {"lookup", "kill"}
              /\ Top.call = "lookup" => LookupStage(Top.sock)
              /\ Top.call = "kill" => KillStage(Top.sock)
              /\ \E b, c \in BOOLEAN : waits' = One(Top.call, Top.sock, b, c)
          BY <1>i, <1>0, <2>1, <3>2, OneCall
        <5> HIDE DEF One
        <5> QED
          BY <5>1
      <4>2. load'[u] = load[u] /\ queue'[u] = queue[u] /\ proc1' = proc1 /\ cmds' = cmds
        BY <2>1, <2>2, <4>1
      <4>3. CASE Top.call = "lookup"
        <5>1. LookupStage(u)'
          BY <1>2, <4>1, <4>2, <4>3
             DEF LookupStage, NoAck, AckAt, StartedAt, Means, Known, IsAnswer, Line
        <5> QED
          BY <4>1, <4>3, <5>1, LookupStaged
      <4>4. CASE Top.call = "kill"
        <5>1. KillStage(u)'
          BY <1>2, <4>1, <4>2, <4>4 DEF KillStage, NoAck, AckAt, KilledAt, IsAnswer
        <5> QED
          BY <4>1, <4>4, <5>1, KillStaged
      <4> QED
        BY <4>1, <4>3, <4>4
    <3> QED
      BY <3>1, <3>2
  <2>5. \A u \in Socket : Waiting(u)' <=> Waiting(u)
    BY <2>1 DEF Waiting
  <2>6. Kept'
    BY <1>i, <1>0, <1>1, <2>1, <2>2, <2>5 DEF Kept
  <2>7. Ids'
    <3>1. \A u \in Socket : \/ proc1'[u] = proc1[u] /\ (proc1[u] # None => queue'[u] = queue[u])
                            \/ proc1[u] = None /\ proc1'[u] = 0
      BY <1>1, <2>1, <2>2
    <3>2. UNCHANGED <<lines, proc2, tick>> /\ helper' = helper
      BY <1>2
    <3>3. \A u \in Socket : Waiting(u) => Waiting(u)'
      BY <2>5
    <3> QED
      BY <3>1, <3>2, <3>3, Quiet
  <2>8. RightAddress'
    BY <1>i, <2>1, <2>2 DEF RightAddress, Kept
  <2> QED
    BY <2>3, <2>4, <2>6, <2>7, <2>8 DEF IInv
<1>4. CASE ~LeftOver(s, h)
  <2> DEFINE call == [call |-> "lookup", sock |-> s,
                       inCallback |-> FALSE, answerRead |-> FALSE]
             cmd == [cmd |-> "lookup", host |-> h, id |-> 0]
             entry == [name |-> h, status |-> "none", ip |-> None]
  <2>0. ~LeftOver(s, h) /\ tick + Len(waits) < MaxLookups
        /\ queue' = [queue EXCEPT ![s] = entry] /\ load' = [load EXCEPT ![s] = h]
        /\ proc1' = [proc1 EXCEPT ![s] = 0] /\ given' = given
        /\ Send(cmd) /\ waits' = Append(waits, call)
    BY <1>4, Zenon DEF StartLookup, Push, LeftOver
  <2>n. waits = <<>> /\ NoCall /\ \A u \in Socket : ~Waiting(u)
    <3>1. waits = <<>>
      BY <1>i, <2>0 DEF Unnested, DnsTypeOK
    <3> QED
      BY <1>i, <3>1, NoneWaits
  <2>1. tick < MaxLookups /\ waits' = <<call>>
    BY <2>n, <1>i, <2>0 DEF DnsTypeOK
  <2>2. /\ queue'[s] = entry /\ load'[s] = h /\ proc1'[s] = 0
        /\ \A u \in Socket : u # s =>
              queue'[u] = queue[u] /\ load'[u] = load[u] /\ proc1'[u] = proc1[u]
    BY <1>i, <2>0 DEF DnsTypeOK
  <2>3. \/ helper = Dead /\ service' = service /\ cmds' = <<>>
        \/ helper # Dead /\ service' = service /\ cmds' = <<cmd>>
    BY <1>2, <2>n, <2>0 DEF Send, NoCall
  <2>5. \A u \in Socket : Waiting(u)' <=> u = s
    BY <2>1 DEF Waiting
  <2>6. LookupStage(s)'
    <3>1. NoAck'
      BY <2>n, <1>2 DEF NoCall, NoAck, IsAnswer
    <3> QED
      BY <2>n, <1>2, <2>1, <2>2, <2>3, <3>1 DEF LookupStage, NoCall
  <2>4. DnsTypeOK'
    <3>1. cmd \in Cmds /\ entry \in Entry
      BY DEF Entry, Status
    <3>2. cmds' \in Seq(Cmds) /\ service' \in {"on", "off"}
      <4>1. <<cmd>> \in Seq(Cmds) /\ <<>> \in Seq(Cmds)
        <5> HIDE DEF cmd, Cmds
        <5> QED
          BY <3>1
      <4> QED
        BY <1>i, <2>3, <4>1 DEF DnsTypeOK
    <3>5. waits' \in Seq(Calls)
      BY <2>1, <2>6, LookupStaged
    <3>3. queue' \in [Socket -> Entry \cup {None}]
      BY <1>i, <2>0, <3>1 DEF DnsTypeOK
    <3>4. /\ load' \in [Socket -> Host \cup {None}]
          /\ proc1' \in [Socket -> 0 .. MaxLookups \cup {None}]
      BY <1>i, <2>0 DEF DnsTypeOK
    <3> QED
      BY <1>i, <1>2, <2>0, <3>2, <3>3, <3>4, <3>5 DEF DnsTypeOK
  <2>7. Kept'
    <3>1. queue'[s] # None /\ queue'[s].name = h /\ queue'[s].status # "ok" /\ 0 # None
      <4>1. entry \in Entry
        BY DEF Entry, Status
      <4>2. entry # None
        BY <4>1
      <4> QED
        BY <2>2, <4>2
    <3>2. load'[s] = h /\ proc1'[s] = 0 /\ Waiting(s)'
      BY <2>2, <2>5
    <3>3. ASSUME NEW u \in Socket, u # s
          PROVE  /\ queue'[u] = queue[u] /\ load'[u] = load[u] /\ proc1'[u] = proc1[u]
                 /\ proc1[u] # None => load[u] # None
                 /\ proc1[u] # 0
      BY <1>i, <2>n, <2>2, <3>3 DEF Kept
    <3> HIDE DEF entry
    <3> QED
      BY <1>i, <3>1, <3>2, <3>3 DEF Kept
  <2>8. Ids'
    <3>1. \A u \in Socket : \/ proc1'[u] = proc1[u] /\ (proc1[u] # None => queue'[u] = queue[u])
                            \/ proc1[u] = None /\ proc1'[u] = 0
      <4> HIDE DEF entry
      <4> QED
        BY <1>1, <2>2
    <3>2. UNCHANGED <<lines, proc2, tick>> /\ helper' = helper
      BY <1>2
    <3>3. \A u \in Socket : Waiting(u) => Waiting(u)'
      BY <2>n
    <3> QED
      BY <3>1, <3>2, <3>3, Quiet
  <2>9. RightAddress'
    BY <1>i, <2>0 DEF RightAddress
  <2> QED
    BY <2>1, <2>4, <2>6, <2>7, <2>8, <2>9, LookupStaged DEF IInv
<1> QED
  BY <1>3, <1>4

(* FE_ClearDNSSelect.                                                      *)
LEMMA Clearing ==
    ASSUME IInv, Unnested', NEW s \in Socket, ClearDNSSelect(s)
    PROVE  IInv'
<1> USE DnsAssumption
<1>i. DnsTypeOK /\ Stage /\ Kept /\ Ids /\ RightAddress
  BY DEF IInv
<1>0. waits = <<>> /\ NoCall /\ load[s] # None /\ \A u \in Socket : ~Waiting(u)
  <2>1. load[s] # None /\ waits' = Append(waits, [call |-> "kill", sock |-> s,
                                    inCallback |-> FALSE, answerRead |-> FALSE])
    BY DEF ClearDNSSelect, Push
  <2>2. waits = <<>>
    BY <1>i, <2>1 DEF Unnested, DnsTypeOK
  <2> QED
    BY <1>i, <2>1, <2>2, NoneWaits
<1>1. proc1[s] \in 1 .. tick /\ tick <= MaxLookups
  BY <1>i, <1>0 DEF Kept, Ids, IdsOnce, DnsTypeOK
<1>2. UNCHANGED <<given, queue, proc1, service, lines, proc2, tick, helper>>
  BY DEF ClearDNSSelect, twoVars
<1> DEFINE call == [call |-> "kill", sock |-> s,
                       inCallback |-> FALSE, answerRead |-> FALSE]
           cmd == [cmd |-> "kill", host |-> None, id |-> proc1[s]]
<1>3. load' = [load EXCEPT ![s] = None] /\ Send(cmd) /\ waits' = <<call>>
  BY <1>0 DEF ClearDNSSelect, Push
<1>4. load'[s] = None /\ \A u \in Socket : u # s => load'[u] = load[u]
  BY <1>i, <1>3 DEF DnsTypeOK
<1>5. \/ helper = Dead /\ service' = service /\ cmds' = <<>>
      \/ helper # Dead /\ service' = service /\ cmds' = <<cmd>>
  BY <1>0, <1>2, <1>3 DEF Send, NoCall
<1>7. \A u \in Socket : Waiting(u)' <=> u = s
  BY <1>3 DEF Waiting
<1>8. KillStage(s)'
  <2>1. NoAck'
    BY <1>0, <1>2 DEF NoCall, NoAck, IsAnswer
  <2> QED
    BY <1>0, <1>1, <1>2, <1>4, <1>5, <2>1 DEF KillStage, NoCall
<1>6. DnsTypeOK'
  <2>1. cmd \in Cmds
    BY <1>1, <1>i DEF DnsTypeOK
  <2>2. cmds' \in Seq(Cmds) /\ service' \in {"on", "off"}
    <3>1. <<cmd>> \in Seq(Cmds) /\ <<>> \in Seq(Cmds)
      <4> HIDE DEF cmd, Cmds
      <4> QED
        BY <2>1
    <3> QED
      BY <1>i, <1>5, <3>1 DEF DnsTypeOK
  <2>4. waits' \in Seq(Calls)
    BY <1>3, <1>8, KillStaged
  <2>3. load' \in [Socket -> Host \cup {None}]
    BY <1>i, <1>3 DEF DnsTypeOK
  <2> QED
    BY <1>i, <1>2, <2>2, <2>3, <2>4 DEF DnsTypeOK
<1>9. Kept'
  BY <1>i, <1>0, <1>2, <1>4, <1>7 DEF Kept
<1>10. Ids'
  <2>1. \A u \in Socket : \/ proc1'[u] = proc1[u] /\ (proc1[u] # None => queue'[u] = queue[u])
                          \/ proc1[u] = None /\ proc1'[u] = 0
    BY <1>2
  <2>2. UNCHANGED <<lines, proc2, tick>> /\ helper' = helper
    BY <1>2
  <2>3. \A u \in Socket : Waiting(u) => Waiting(u)'
    BY <1>0
  <2> QED
    BY <2>1, <2>2, <2>3, Quiet
<1>11. RightAddress'
  BY <1>i, <1>2 DEF RightAddress
<1> QED
  BY <1>3, <1>6, <1>8, <1>9, <1>10, <1>11, KillStaged DEF IInv

(* The callback of another answer returns to the call.                     *)
LEMMA Returning ==
    ASSUME IInv, CallbackReturns
    PROVE  IInv'
<1> USE DnsAssumption
<1>i. DnsTypeOK /\ Stage /\ Kept /\ Ids /\ RightAddress
  BY DEF IInv
<1>0. /\ waits # <<>> /\ waits' = [waits EXCEPT ![Len(waits)].inCallback = FALSE]
      /\ UNCHANGED <<load, given, queue, proc1, service, cmds, lines, proc2, tick, helper>>
  BY DEF CallbackReturns, netVars, twoVars
<1>a. Top \in Calls /\ Top.sock \in Socket
      /\ (\E b, c \in BOOLEAN : waits' = One(Top.call, Top.sock, b, c))
      /\ (Top.call = "lookup" => LookupStage(Top.sock))
      /\ (Top.call = "kill" => KillStage(Top.sock))
      /\ \A u \in Socket : Waiting(u) <=> u = Top.sock
  BY <1>i, <1>0, OneCall
<1>b. PICK s \in Socket : s = Top.sock
  BY <1>a
<1>1. /\ (Top.call = "lookup" => LookupStage(s)) /\ (Top.call = "kill" => KillStage(s))
      /\ \A u \in Socket : Waiting(u) <=> u = s
      /\ Top.call \in {"lookup", "kill"}
  BY <1>a, <1>b
<1>2. PICK b, c \in BOOLEAN : waits' = One(Top.call, s, b, c)
  BY <1>a, <1>b
<1>3. \A u \in Socket : Waiting(u)' <=> u = s
  BY <1>2 DEF Waiting
<1>4. Stage' /\ waits' \in Seq(Calls)
  <2>1. CASE Top.call = "lookup"
    <3>1. LookupStage(s)'
      BY <1>0, <1>1, <2>1 DEF LookupStage, NoAck, AckAt, StartedAt, Means, Known, IsAnswer, Line
    <3> QED
      BY <1>1, <1>2, <2>1, <3>1, LookupStaged
  <2>2. CASE Top.call = "kill"
    <3>1. KillStage(s)'
      BY <1>0, <1>1, <2>2 DEF KillStage, NoAck, AckAt, KilledAt, IsAnswer
    <3> QED
      BY <1>1, <1>2, <2>2, <3>1, KillStaged
  <2> QED
    BY <1>1, <2>1, <2>2
<1>5. DnsTypeOK'
  BY <1>i, <1>0, <1>4 DEF DnsTypeOK
<1>6. Kept'
  BY <1>i, <1>0, <1>1, <1>3 DEF Kept
<1>7. Ids'
  <2>1. \A u \in Socket : \/ proc1'[u] = proc1[u] /\ (proc1[u] # None => queue'[u] = queue[u])
                          \/ proc1[u] = None /\ proc1'[u] = 0
    BY <1>0
  <2>2. UNCHANGED <<lines, proc2, tick>> /\ helper' = helper
    BY <1>0
  <2>3. \A u \in Socket : Waiting(u) => Waiting(u)'
    BY <1>1, <1>3
  <2> QED
    BY <2>1, <2>2, <2>3, Quiet
<1>8. RightAddress'
  BY <1>i, <1>0 DEF RightAddress
<1> QED
  BY <1>4, <1>5, <1>6, <1>7, <1>8 DEF IInv
-----------------------------------------------------------------------------
(* The stages are not disturbed by an answer that is read before the       *)
(* acknowledgement.                                                        *)
LEMMA LookupGoesOn ==
    ASSUME IInv, NEW s \in Socket, LookupStage(s), lines # <<>>, IsAnswer(lines[1]),
           lines' = Tail(lines), UNCHANGED <<cmds, proc2, tick, helper>>,
           proc1'[s] = proc1[s], queue'[s] = queue[s], load'[s] = load[s],
           \A u \in Socket : proc1'[u] \in {None, proc1[u]}
    PROVE  LookupStage(s)'
<1> USE DnsAssumption
<1>i. DnsTypeOK /\ AnswersOnce
  BY DEF IInv, Ids
<1>0. /\ Len(lines) \in Nat /\ Len(lines') = Len(lines) - 1 /\ lines[1] \in Lines
      /\ \A i \in 1 .. Len(lines') : i + 1 \in 1 .. Len(lines) /\ lines'[i] = lines[i + 1]
      /\ \A i \in 1 .. Len(lines) : i # 1 =>
            i - 1 \in 1 .. Len(lines') /\ lines'[i - 1] = lines[i]
  BY <1>i, Dropped
<1>1. 1 \in 1 .. Len(lines)
  <2>1. Len(lines) # 0
    BY <1>i DEF DnsTypeOK
  <2> QED
    BY <1>0, <2>1
<1>2. NoAck => NoAck'
  BY <1>0 DEF NoAck, IsAnswer
<1>3. ASSUME NEW i \in 1 .. Len(lines), AckAt(i)
      PROVE  AckAt(i - 1)' /\ i - 1 \in 1 .. Len(lines') /\ lines'[i - 1] = lines[i]
  <2>1. i # 1
    BY <1>3 DEF AckAt
  <2>2. i - 1 \in 1 .. Len(lines') /\ lines'[i - 1] = lines[i]
    BY <1>0, <2>1
  <2>3. \A j \in 1 .. Len(lines') : j # i - 1 => IsAnswer(lines'[j])
    BY <1>0, <1>3 DEF AckAt
  <2>4. AckAt(i - 1)'
    BY <1>3, <2>2, <2>3 DEF AckAt, IsAnswer
  <2> QED
    BY <2>2, <2>4
<1>4. ASSUME NEW i \in 1 .. Len(lines), StartedAt(i, s)
      PROVE  StartedAt(i - 1, s)' /\ i - 1 \in 1 .. Len(lines')
  <2> PICK id : id = lines[i].id
    OBVIOUS
  <2>1. AckAt(i - 1)' /\ i - 1 \in 1 .. Len(lines') /\ lines'[i - 1] = lines[i]
    BY <1>3, <1>4 DEF StartedAt
  <2>2. id \in 1 .. MaxLookups /\ lines[i] = Line("started", id, None)
    BY <1>4, <1>i, LineTyped DEF StartedAt
  <2>3. lines[1].id # id
    BY <1>1, <1>i, <1>4 DEF StartedAt, AnswersOnce
  <2>4. \A u \in Socket : proc1'[u] # id
    BY <1>4, <2>2 DEF StartedAt
  <2>5. Means(id, queue[s].name)'
    BY <1>0, <1>4 DEF StartedAt, Means
  <2>6. Known(id)'
    <3>1. CASE proc2[id] # None
      BY <3>1 DEF Known
    <3>2. ASSUME NEW j \in 1 .. Len(lines), IsAnswer(lines[j]), lines[j].id = id
          PROVE  Known(id)'
      <4>1. j - 1 \in 1 .. Len(lines') /\ lines'[j - 1] = lines[j]
        BY <1>0, <2>3, <3>2
      <4> QED
        BY <3>2, <4>1 DEF Known, IsAnswer
    <3> QED
      BY <1>4, <3>1, <3>2 DEF StartedAt, Known
  <2> QED
    BY <2>1, <2>2, <2>4, <2>5, <2>6 DEF StartedAt, Line
<1>5. (\E i \in 1 .. Len(lines) : StartedAt(i, s)) => \E i \in 1 .. Len(lines') : StartedAt(i, s)'
  BY <1>4
<1>6. (\E i \in 1 .. Len(lines) : AckAt(i) /\ lines[i].code = "notStarted")
          => \E i \in 1 .. Len(lines') : AckAt(i)' /\ lines'[i].code = "notStarted"
  BY <1>3
<1> QED
  BY <1>2, <1>5, <1>6 DEF LookupStage

(* The same for a kill.                                                    *)
LEMMA KillGoesOn ==
    ASSUME IInv, NEW s \in Socket, KillStage(s), lines # <<>>, IsAnswer(lines[1]),
           lines' = Tail(lines), UNCHANGED <<cmds, proc2, tick, helper>>,
           proc1'[s] = proc1[s], load'[s] = load[s]
    PROVE  KillStage(s)'
<1> USE DnsAssumption
<1>i. DnsTypeOK
  BY DEF IInv
<1>0. /\ Len(lines) \in Nat /\ Len(lines') = Len(lines) - 1
      /\ \A i \in 1 .. Len(lines') : i + 1 \in 1 .. Len(lines) /\ lines'[i] = lines[i + 1]
      /\ \A i \in 1 .. Len(lines) : i # 1 =>
            i - 1 \in 1 .. Len(lines') /\ lines'[i - 1] = lines[i]
  BY <1>i, Dropped
<1>2. NoAck => NoAck'
  BY <1>0 DEF NoAck, IsAnswer
<1>3. ASSUME NEW i \in 1 .. Len(lines), KilledAt(i, proc1[s])
      PROVE  KilledAt(i - 1, proc1[s])' /\ i - 1 \in 1 .. Len(lines')
  <2>1. i # 1
    BY <1>3 DEF KilledAt, AckAt
  <2>2. i - 1 \in 1 .. Len(lines') /\ lines'[i - 1] = lines[i]
    BY <1>0, <2>1
  <2>3. \A j \in 1 .. Len(lines') : j # i - 1 => IsAnswer(lines'[j])
    BY <1>0, <1>3 DEF KilledAt, AckAt
  <2>4. \A j \in 1 .. Len(lines') : lines'[j].id = proc1[s] => j <= i - 1
    BY <1>0, <1>3 DEF KilledAt
  <2> QED
    BY <1>3, <2>2, <2>3, <2>4 DEF KilledAt, AckAt, IsAnswer
<1>5. (\E i \in 1 .. Len(lines) : KilledAt(i, proc1[s]))
          => \E i \in 1 .. Len(lines') : KilledAt(i, proc1[s])'
  BY <1>3
<1> QED
  BY <1>2, <1>5 DEF KillStage
-----------------------------------------------------------------------------
(* DNS_ServiceProcess.                                                     *)
LEMMA Serving ==
    ASSUME IInv, ServiceProcess
    PROVE  IInv'
<1> USE DnsAssumption
<1>i. DnsTypeOK /\ Stage /\ Kept /\ Ids /\ RightAddress
  BY DEF IInv
<1>0. waits = <<>> /\ waits' = waits /\ cmds' = cmds /\ UNCHANGED twoVars
      /\ UNCHANGED <<proc2, tick, helper>>
  BY DEF ServiceProcess, twoVars
<1>1. NoCall /\ \A u \in Socket : ~Waiting(u)
  BY <1>i, <1>0, NoneWaits
<1>2. CASE lines # <<>> /\ AsyncResponse(Head(lines)) /\ lines' = Tail(lines) /\ service' = service
  <2>0. /\ lines' \in Seq(Lines) /\ Head(lines) = lines[1] /\ 1 \in 1 .. Len(lines)
        /\ \A i \in 1 .. Len(lines') : i + 1 \in 1 .. Len(lines) /\ lines'[i] = lines[i + 1]
    <3>1. Len(lines) # 0
      BY <1>i, <1>2 DEF DnsTypeOK
    <3> QED
      BY <1>i, <1>2, <3>1, Dropped
  <2>1. IsAnswer(lines[1])
    BY <1>1, <2>0 DEF NoCall, NoAck
  <2>2. \A u \in Socket : Waiting(u)' <=> Waiting(u)
    BY <1>0 DEF Waiting
  <2>3. /\ \E u \in Socket : /\ proc1' = [proc1 EXCEPT ![u] = None]
                            /\ queue' = [queue EXCEPT ![u] = None]
                            /\ load' = [load EXCEPT ![u] = None]
        /\ given' \in [Socket -> [host : Host, status : Status, ip : Host \cup {None}] \cup {None}]
        /\ Kept' /\ Ids' /\ RightAddress'
    BY <1>0, <1>1, <1>2, <2>0, <2>1, <2>2, Answering
  <2>4. DnsTypeOK'
    BY <1>i, <1>0, <1>2, <2>0, <2>3 DEF DnsTypeOK
  <2>5. Stage'
    <3>1. NoAck'
      BY <1>1, <2>0 DEF NoCall, NoAck, IsAnswer
    <3> QED
      BY <1>0, <1>1, <3>1 DEF Stage, NoCall
  <2> QED
    BY <2>3, <2>4, <2>5 DEF IInv
<1>3. CASE service' = "off" /\ UNCHANGED <<netVars, queue, proc1, lines>>
  <2>1. UNCHANGED <<load, given, queue, proc1, lines>>
    BY <1>3 DEF netVars
  <2>2. DnsTypeOK'
    BY <1>i, <1>0, <1>3, <2>1 DEF DnsTypeOK
  <2>3. Stage'
    BY <1>0, <1>1, <2>1 DEF Stage, NoCall, NoAck, IsAnswer
  <2>4. \A u \in Socket : ~Waiting(u)'
    BY <1>0, <1>1 DEF Waiting
  <2>5. Kept'
    BY <1>i, <1>1, <2>1, <2>4 DEF Kept
  <2>6. Ids'
    <3>1. \A u \in Socket : \/ proc1'[u] = proc1[u] /\ (proc1[u] # None => queue'[u] = queue[u])
                            \/ proc1[u] = None /\ proc1'[u] = 0
      BY <2>1
    <3>2. UNCHANGED <<lines, proc2, tick>> /\ helper' = helper
      BY <1>0, <2>1
    <3>3. \A u \in Socket : Waiting(u) => Waiting(u)'
      BY <1>1
    <3> QED
      BY <3>1, <3>2, <3>3, Quiet
  <2>7. RightAddress'
    BY <1>i, <2>1 DEF RightAddress
  <2> QED
    BY <2>2, <2>3, <2>5, <2>6, <2>7 DEF IInv
<1> QED
  BY <1>2, <1>3 DEF ServiceProcess

(* What DNS_AsyncLookupHost and DNS_AbortHostLookup have in common: the    *)
(* answer of another lookup starts a callback.                             *)
LEMMA OthersAnswer ==
    ASSUME IInv, NEW call \in {"lookup", "kill"}, Reads(call), IsAnswer(NextLine),
           call = "kill" => ~Ignored(Top.sock, NextLine), AsyncResponse(NextLine), Callback \/ ReadsOn(TRUE)
    PROVE  IInv'
<1> USE DnsAssumption
<1>i. DnsTypeOK /\ Stage /\ Kept /\ Ids /\ RightAddress
  BY DEF IInv
<1>0. waits # <<>> /\ Top.call = call /\ cmds' = cmds /\ service' = service
      /\ UNCHANGED twoVars /\ UNCHANGED <<proc2, tick, helper>>
  BY DEF Reads, twoVars
<1>1. lines # <<>> /\ NextLine = Head(lines) /\ lines' = Tail(lines)
  BY DEF Reads, NextLine, IsAnswer, Line
<1>2. /\ lines' \in Seq(Lines) /\ Head(lines) = lines[1] /\ lines[1] \in Lines
  BY <1>i, <1>1, Dropped
<1>a. /\ Top.sock \in Socket
      /\ (\E b, c \in BOOLEAN : waits' = One(Top.call, Top.sock, b, c))
      /\ (Top.call = "lookup" => LookupStage(Top.sock))
      /\ (Top.call = "kill" => KillStage(Top.sock))
      /\ \A u \in Socket : Waiting(u) <=> u = Top.sock
  BY <1>i, <1>0, OneCall
<1>b. PICK s \in Socket : s = Top.sock
  BY <1>a
<1>c. PICK b, c \in BOOLEAN : waits' = One(call, s, b, c)
  BY <1>a, <1>b, <1>0
<1>3. /\ (call = "lookup" => LookupStage(s)) /\ (call = "kill" => KillStage(s))
      /\ \A u \in Socket : Waiting(u) <=> u = s
      /\ waits' = One(call, s, b, c)
  BY <1>a, <1>b, <1>c, <1>0
<1>4. \A u \in Socket : Waiting(u)' <=> u = s
  BY <1>3 DEF Waiting
<1>5. proc1[s] # lines[1].id
  <2>1. CASE call = "lookup"
    BY <1>2, <1>3, <2>1 DEF LookupStage
  <2>2. CASE call = "kill"
    BY <1>1, <1>2, <1>b, <2>2 DEF Ignored
  <2> QED
    BY <2>1, <2>2
<1>6. PICK u \in Socket :
          /\ proc1[u] = lines[1].id /\ ~Waiting(u)
          /\ proc1' = [proc1 EXCEPT ![u] = None]
          /\ queue' = [queue EXCEPT ![u] = None]
          /\ load' = [load EXCEPT ![u] = None]
  <2>1. \A v \in Socket : Waiting(v)' <=> Waiting(v)
    BY <1>3, <1>4
  <2>2. \A v \in Socket : Waiting(v) => proc1[v] # lines[1].id
    BY <1>3, <1>5
  <2> QED
    BY <1>0, <1>1, <1>2, <2>1, <2>2, Answering
<1>7. /\ given' \in [Socket -> [host : Host, status : Status, ip : Host \cup {None}] \cup {None}]
      /\ Kept' /\ Ids' /\ RightAddress'
  <2>1. \A v \in Socket : Waiting(v)' <=> Waiting(v)
    BY <1>3, <1>4
  <2>2. \A v \in Socket : Waiting(v) => proc1[v] # lines[1].id
    BY <1>3, <1>5
  <2> QED
    BY <1>0, <1>1, <1>2, <2>1, <2>2, Answering
<1>8. u # s /\ proc1'[s] = proc1[s] /\ queue'[s] = queue[s] /\ load'[s] = load[s]
      /\ \A v \in Socket : proc1'[v] \in {None, proc1[v]}
  BY <1>i, <1>3, <1>6 DEF DnsTypeOK
<1>9. Stage' /\ waits' \in Seq(Calls)
  <2>1. CASE call = "lookup"
    <3>1. LookupStage(s)'
      BY <1>0, <1>1, <1>2, <1>3, <1>8, <2>1, LookupGoesOn
    <3> QED
      BY <1>3, <2>1, <3>1, LookupStaged
  <2>2. CASE call = "kill"
    <3>1. KillStage(s)'
      BY <1>0, <1>1, <1>2, <1>3, <1>8, <2>2, KillGoesOn
    <3> QED
      BY <1>3, <2>2, <3>1, KillStaged
  <2> QED
    BY <2>1, <2>2
<1>10. DnsTypeOK'
  BY <1>i, <1>0, <1>2, <1>6, <1>7, <1>9 DEF DnsTypeOK
<1> QED
  BY <1>7, <1>9, <1>10 DEF IInv
-----------------------------------------------------------------------------
(* DNS_AsyncLookupHost reads the id of its lookup.                         *)
LEMMA IsStarted ==
    ASSUME IInv, Reads("lookup"), NextLine.code = "started",
           proc1' = [proc1 EXCEPT ![Top.sock] = NextLine.id], Return,
           UNCHANGED <<load, given, queue>>
    PROVE  IInv'
<1> USE DnsAssumption
<1>i. DnsTypeOK /\ Stage /\ Kept /\ Ids /\ RightAddress
  BY DEF IInv
<1>0. waits # <<>> /\ Top.call = "lookup" /\ cmds' = cmds /\ service' = service
      /\ UNCHANGED <<proc2, tick, helper>>
  BY DEF Reads, twoVars
<1>1. lines # <<>> /\ NextLine = Head(lines) /\ lines' = Tail(lines)
  BY DEF Reads, NextLine, Line
<1>2. /\ lines' \in Seq(Lines) /\ Head(lines) = lines[1] /\ lines[1] \in Lines
      /\ Len(lines) \in Nat /\ Len(lines') = Len(lines) - 1
      /\ \A i \in 1 .. Len(lines') : i + 1 \in 1 .. Len(lines) /\ lines'[i] = lines[i + 1]
      /\ \A i \in 1 .. Len(lines) : i # 1 =>
            i - 1 \in 1 .. Len(lines') /\ lines'[i - 1] = lines[i]
  BY <1>i, <1>1, Dropped
<1>3. 1 \in 1 .. Len(lines) /\ lines[1].code = "started" /\ ~IsAnswer(lines[1])
  <2>1. Len(lines) # 0
    BY <1>i, <1>1 DEF DnsTypeOK
  <2> QED
    BY <1>1, <1>2, <2>1 DEF IsAnswer
<1>a. /\ Top.sock \in Socket /\ waits' = <<>> /\ LookupStage(Top.sock)
      /\ \A u \in Socket : Waiting(u) <=> u = Top.sock
  BY <1>i, <1>0, OneCall
<1>b. PICK s \in Socket : s = Top.sock
  BY <1>a
<1> DEFINE id == lines[1].id
<1>4. /\ waits' = <<>> /\ LookupStage(s) /\ proc1' = [proc1 EXCEPT ![s] = id]
      /\ \A u \in Socket : Waiting(u) <=> u = s
  BY <1>a, <1>b, <1>1, <1>2
<1>5. StartedAt(1, s)
  BY <1>3, <1>4 DEF LookupStage, NoAck, StartedAt, AckAt
<1>6. /\ helper \in {0, Dead} /\ cmds = <<>> /\ load[s] # None /\ proc1[s] = 0
  BY <1>3, <1>4 DEF LookupStage, NoAck
<1>7. id \in 1 .. MaxLookups /\ proc1'[s] = id /\ \A u \in Socket : u # s => proc1'[u] = proc1[u]
  BY <1>i, <1>2, <1>4 DEF DnsTypeOK
<1>8. \A u \in Socket : ~Waiting(u)'
  BY <1>4 DEF Waiting
<1>9. \A i \in 1 .. Len(lines) : i # 1 => IsAnswer(lines[i])
  BY <1>5 DEF StartedAt, AckAt
<1>10. DnsTypeOK'
  <2>1. proc1' \in [Socket -> 0 .. MaxLookups \cup {None}]
    <3> HIDE DEF id
    <3>1. id \in 0 .. MaxLookups \cup {None}
      BY <1>7
    <3>2. proc1 \in [Socket -> 0 .. MaxLookups \cup {None}]
      BY <1>i DEF DnsTypeOK
    <3> QED
      BY <1>4, <3>1, <3>2
  <2>2. waits' \in Seq(Calls)
    BY <1>4
  <2> QED
    BY <1>i, <1>0, <1>2, <2>1, <2>2 DEF DnsTypeOK
<1>11. Stage'
  <2>1. NoAck'
    BY <1>2, <1>9 DEF NoAck, IsAnswer
  <2> QED
    BY <1>0, <1>4, <1>6, <2>1 DEF Stage, NoCall
<1>12. Kept'
  BY <1>i, <1>4, <1>6, <1>7, <1>8 DEF Kept
<1>13. IdsOnce'
  <2>1. \A u \in Socket : proc1[u] # id
    BY <1>5 DEF StartedAt
  <2>2. id <= tick
    BY <1>i, <1>3 DEF Ids, IdsOnce
  <2> QED
    BY <1>i, <1>0, <1>2, <1>7, <2>1, <2>2 DEF Ids, IdsOnce
<1>14. IdsMean'
  <2>1. \A k : Known(k) => Known(k)'
    <3> SUFFICES ASSUME NEW k, Known(k) PROVE Known(k)'
      OBVIOUS
    <3>1. CASE proc2[k] # None
      BY <1>0, <3>1 DEF Known
    <3>2. CASE proc2[k] = None
      <4>1. PICK i \in 1 .. Len(lines) : IsAnswer(lines[i]) /\ lines[i].id = k
        BY <3>2 DEF Known
      <4>2. i # 1
        BY <1>3, <4>1
      <4>3. i - 1 \in 1 .. Len(lines') /\ lines'[i - 1] = lines[i]
        BY <1>2, <4>2
      <4> QED
        BY <4>1, <4>3 DEF Known, IsAnswer
    <3> QED
      BY <3>1, <3>2
  <2>2. \A u \in Socket : \A k : Means(k, queue[u].name) => Means(k, queue[u].name)'
    BY <1>0, <1>2 DEF Means
  <2>3. ASSUME NEW u \in Socket, u # s, proc1'[u] \notin {None, 0}
        PROVE  Means(proc1[u], queue[u].name) /\ Known(proc1[u]) /\ proc1'[u] = proc1[u]
    BY <1>i, <1>4, <1>7, <2>3 DEF Ids, IdsMean
  <2>4. Means(id, queue[s].name) /\ Known(id)
    BY <1>5 DEF StartedAt
  <2> QED
    BY <1>7, <2>1, <2>2, <2>3, <2>4 DEF IdsMean
<1>15. \A k \in 1 .. MaxLookups :
           (\E u \in Socket : proc1[u] = k) => \E u \in Socket : proc1'[u] = k
  BY <1>6, <1>7
<1>16. AnswersOnce'
  <2> SUFFICES ASSUME NEW i \in 1 .. Len(lines'), IsAnswer(lines'[i])
               PROVE  /\ proc2[lines'[i].id] = None
                      /\ \A j \in 1 .. Len(lines') :
                            IsAnswer(lines'[j]) /\ lines'[j].id = lines'[i].id => j = i
                      /\ \E u \in Socket : proc1'[u] = lines'[i].id
    BY <1>0 DEF AnswersOnce, IsAnswer, Line
  <2>1. i + 1 \in 1 .. Len(lines) /\ lines'[i] = lines[i + 1] /\ IsAnswer(lines[i + 1])
    BY <1>2
  <2>2. proc2[lines'[i].id] = None
    BY <1>i, <2>1 DEF Ids, AnswersOnce
  <2>3. ASSUME NEW j \in 1 .. Len(lines'), IsAnswer(lines'[j]), lines'[j].id = lines'[i].id
        PROVE  j = i
    <3>1. j + 1 \in 1 .. Len(lines) /\ lines'[j] = lines[j + 1]
      BY <1>2
    <3>2. j + 1 = i + 1
      BY <1>i, <2>1, <2>3, <3>1 DEF Ids, AnswersOnce
    <3> QED
      BY <3>2
  <2>4. lines[i + 1] \in Lines
    BY <1>i, <2>1, LineTyped
  <2>5. \/ \E u \in Socket : proc1[u] = lines[i + 1].id
        \/ \E j \in 1 .. Len(lines) : lines[j] = Line("started", lines[i + 1].id, None)
    BY <1>i, <2>1 DEF Ids, AnswersOnce
  <2>6. ASSUME NEW j \in 1 .. Len(lines), lines[j] = Line("started", lines[i + 1].id, None)
        PROVE  proc1'[s] = lines'[i].id
    <3>1. j = 1
      BY <1>9, <2>6 DEF IsAnswer, Line
    <3> QED
      BY <1>7, <2>1, <2>6, <3>1 DEF Line
  <2>7. \E u \in Socket : proc1'[u] = lines'[i].id
    BY <1>15, <2>1, <2>4, <2>5, <2>6
  <2> QED
    BY <2>2, <2>3, <2>7
<1>17. Wanted'
  <2> SUFFICES ASSUME helper # Dead, NEW k \in 1 .. MaxLookups, proc2[k] # None
               PROVE  \E u \in Socket : proc1'[u] = k
    BY <1>0 DEF Wanted
  <2>1. \/ \E u \in Socket : proc1[u] = k
        \/ \E j \in 1 .. Len(lines) : lines[j] = Line("started", k, None)
    BY <1>i DEF Ids, Wanted
  <2>2. ASSUME NEW j \in 1 .. Len(lines), lines[j] = Line("started", k, None)
        PROVE  proc1'[s] = k
    <3>1. j = 1
      BY <1>9, <2>2 DEF IsAnswer, Line
    <3> QED
      BY <1>7, <2>2, <3>1 DEF Line
  <2> QED
    BY <1>15, <2>1, <2>2
<1>18. RightAddress'
  BY <1>i DEF RightAddress
<1> QED
  BY <1>10, <1>11, <1>12, <1>13, <1>14, <1>16, <1>17, <1>18 DEF IInv, Ids

(* The end of a call that has no lookup any more: its object is freed, and *)
(* the acknowledgement, the first line or the end of the file, is read.    *)
LEMMA Ending ==
    ASSUME IInv, NEW s \in Socket, waits # <<>>, s = Top.sock, waits' = <<>>,
           UNCHANGED <<service, cmds, proc2, tick, helper>>,
           cmds = <<>>, helper \in {0, Dead},
           \/ lines = <<>> /\ lines' = lines /\ helper = Dead
           \/ /\ lines # <<>> /\ lines' = Tail(lines) /\ AckAt(1) /\ lines[1].code # "started"
              /\ \A i \in 1 .. Len(lines) : i # 1 => lines[i].id # proc1[s]
              /\ proc1[s] \in 1 .. MaxLookups => proc2[proc1[s]] = None,
           proc1' = [proc1 EXCEPT ![s] = None],
           Kept', RightAddress',
           load' \in [Socket -> Host \cup {None}],
           given' \in [Socket -> [host : Host, status : Status, ip : Host \cup {None}] \cup {None}],
           queue' \in [Socket -> Entry \cup {None}],
           \A u \in Socket : u # s => queue'[u] = queue[u]
    PROVE  IInv'
<1> USE DnsAssumption
<1>i. DnsTypeOK /\ Stage /\ Kept /\ Ids /\ RightAddress
  BY DEF IInv
<1>1. proc1'[s] = None /\ \A u \in Socket : u # s => proc1'[u] = proc1[u]
  BY <1>i DEF DnsTypeOK
<1>2. \A u \in Socket : Waiting(u) <=> u = s
  BY <1>i, OneCall
<1>3. /\ lines' \in Seq(Lines)
      /\ \A i \in 1 .. Len(lines') : IsAnswer(lines'[i])
      /\ \A i \in 1 .. Len(lines') : lines'[i].id # proc1[s]
      /\ \A i \in 1 .. Len(lines') : \E j \in 1 .. Len(lines) : lines'[i] = lines[j]
      /\ \A j \in 1 .. Len(lines) : IsAnswer(lines[j]) => \E i \in 1 .. Len(lines') : lines'[i] = lines[j]
      /\ \A i, j \in 1 .. Len(lines') : lines'[i].id = lines'[j].id => i = j
      /\ \A k : \A j \in 1 .. Len(lines) : lines[j] # Line("started", k, None)
  <2>1. CASE lines = <<>> /\ lines' = lines
    BY <1>i, <2>1 DEF DnsTypeOK
  <2>2. CASE /\ lines # <<>> /\ lines' = Tail(lines) /\ AckAt(1) /\ lines[1].code # "started"
             /\ \A i \in 1 .. Len(lines) : i # 1 => lines[i].id # proc1[s]
    <3>1. /\ lines' \in Seq(Lines) /\ Head(lines) = lines[1] /\ lines[1] \in Lines
          /\ Len(lines) \in Nat /\ Len(lines') = Len(lines) - 1
          /\ \A i \in 1 .. Len(lines') : i + 1 \in 1 .. Len(lines) /\ lines'[i] = lines[i + 1]
          /\ \A i \in 1 .. Len(lines) : i # 1 =>
                i - 1 \in 1 .. Len(lines') /\ lines'[i - 1] = lines[i]
      BY <1>i, <2>2, Dropped
    <3>2. \A j \in 1 .. Len(lines) : j # 1 => IsAnswer(lines[j])
      BY <2>2 DEF AckAt
    <3>3. ASSUME NEW i \in 1 .. Len(lines')
          PROVE  IsAnswer(lines'[i]) /\ lines'[i].id # proc1[s]
      <4>1. i + 1 \in 1 .. Len(lines) /\ lines'[i] = lines[i + 1] /\ i + 1 # 1
        BY <3>1
      <4>2. lines[i + 1].id # proc1[s]
        BY <2>2, <4>1
      <4>3. IsAnswer(lines[i + 1])
        BY <3>2, <4>1
      <4> QED
        BY <4>1, <4>2, <4>3 DEF IsAnswer
    <3>4. ASSUME NEW i \in 1 .. Len(lines'), NEW j \in 1 .. Len(lines'),
                 lines'[i].id = lines'[j].id
          PROVE  i = j
      <4>1. i + 1 \in 1 .. Len(lines) /\ lines'[i] = lines[i + 1]
            /\ j + 1 \in 1 .. Len(lines) /\ lines'[j] = lines[j + 1]
        BY <3>1
      <4>2. j + 1 = i + 1
        BY <1>i, <3>3, <3>4, <4>1 DEF Ids, AnswersOnce
      <4> QED
        BY <4>2
    <3>5. \A k : \A j \in 1 .. Len(lines) : lines[j] # Line("started", k, None)
      BY <2>2, <3>2 DEF Line, IsAnswer
    <3>6. \A i \in 1 .. Len(lines') : \E j \in 1 .. Len(lines) : lines'[i] = lines[j]
      BY <3>1
    <3>7. \A j \in 1 .. Len(lines) : IsAnswer(lines[j]) => \E i \in 1 .. Len(lines') : lines'[i] = lines[j]
      BY <2>2, <3>1 DEF AckAt
    <3> QED
      BY <3>1, <3>3, <3>4, <3>5, <3>6, <3>7
  <2> QED
    BY <2>1, <2>2
<1>a. \A i \in 1 .. Len(lines') : IsAnswer(lines'[i])
  BY <1>3
<1>b. \A i \in 1 .. Len(lines') : \E j \in 1 .. Len(lines) : lines'[i] = lines[j]
  BY <1>3
<1>c. \A j \in 1 .. Len(lines) : IsAnswer(lines[j]) => \E i \in 1 .. Len(lines') : lines'[i] = lines[j]
  BY <1>3
<1>d. \A k : \A j \in 1 .. Len(lines) : lines[j] # Line("started", k, None)
  BY <1>3
<1>e. \A i, j \in 1 .. Len(lines') : lines'[i].id = lines'[j].id => i = j
  BY <1>3
<1>f. \A i \in 1 .. Len(lines') : lines'[i].id # proc1[s]
  BY <1>3
<1>4. DnsTypeOK'
  BY <1>i, <1>3 DEF DnsTypeOK
<1>5. Stage'
  BY <1>a DEF Stage, NoCall, NoAck, IsAnswer
<1>6. IdsOnce'
  <2>1. \A i \in 1 .. Len(lines') : lines'[i].id <= tick
    BY <1>i, <1>b DEF Ids, IdsOnce
  <2>2. \A u \in Socket : proc1'[u] \in {None, proc1[u]}
    BY <1>1
  <2> QED
    BY <1>i, <2>1, <2>2 DEF Ids, IdsOnce
<1>7. IdsMean'
  <2> SUFFICES ASSUME NEW u \in Socket, proc1'[u] \notin {None, 0}
               PROVE  Means(proc1[u], queue[u].name)' /\ Known(proc1[u])'
    BY DEF IdsMean
  <2>1. u # s /\ proc1'[u] = proc1[u] /\ queue'[u] = queue[u]
    BY <1>1
  <2>2. Means(proc1[u], queue[u].name) /\ Known(proc1[u])
    BY <1>i, <1>2, <2>1 DEF Ids, IdsMean
  <2>3. Means(proc1[u], queue[u].name)'
    BY <1>b, <2>1, <2>2 DEF Means
  <2>4. Known(proc1[u])'
    BY <1>c, <2>1, <2>2 DEF Known, IsAnswer
  <2> QED
    BY <2>3, <2>4
<1>8. AnswersOnce'
  <2> SUFFICES ASSUME NEW i \in 1 .. Len(lines'), IsAnswer(lines'[i])
               PROVE  /\ proc2[lines'[i].id] = None
                      /\ \E u \in Socket : proc1'[u] = lines'[i].id
    BY <1>e DEF AnswersOnce, IsAnswer, Line
  <2>1. PICK j \in 1 .. Len(lines) : lines'[i] = lines[j] /\ IsAnswer(lines[j])
    BY <1>b, <1>a DEF IsAnswer
  <2>2. proc2[lines[j].id] = None /\ \E u \in Socket : proc1[u] = lines[j].id
    BY <1>i, <1>d, <2>1 DEF Ids, AnswersOnce
  <2>3. PICK u \in Socket : proc1[u] = lines[j].id
    BY <2>2
  <2>4. u # s
    BY <1>f, <2>1, <2>3
  <2> QED
    BY <1>1, <2>1, <2>2, <2>3, <2>4
<1>9. Wanted'
  <2> SUFFICES ASSUME helper # Dead, NEW k \in 1 .. MaxLookups, proc2[k] # None
               PROVE  \E u \in Socket : proc1'[u] = k
    BY DEF Wanted
  <2>1. PICK u \in Socket : proc1[u] = k
    BY <1>i, <1>d DEF Ids, Wanted
  <2>2. u # s
    BY <2>1
  <2> QED
    BY <1>1, <2>1, <2>2
<1> QED
  BY <1>4, <1>5, <1>6, <1>7, <1>8, <1>9 DEF IInv, Ids

(* DNS_AsyncLookupHost.                                                    *)
LEMMA ReadingLookup ==
    ASSUME IInv, ReadLookup
    PROVE  IInv'
<1> USE DnsAssumption
<1>i. DnsTypeOK /\ Stage /\ Kept /\ Ids /\ RightAddress
  BY DEF IInv
<1>r. Reads("lookup")
  BY DEF ReadLookup
<1>1. CASE /\ NextLine.code = "started" /\ proc1' = [proc1 EXCEPT ![Top.sock] = NextLine.id]
           /\ Return /\ UNCHANGED <<netVars, queue>>
  BY <1>r, <1>1, IsStarted DEF netVars
<1>2. CASE IsAnswer(NextLine) /\ AsyncResponse(NextLine) /\ Callback
  BY <1>r, <1>2, OthersAnswer
<1>3. CASE /\ NextLine.code # "started" /\ ~IsAnswer(NextLine)
           /\ Done(Top.sock, IF NextLine.code = "killFailed" THEN "text" ELSE "error", None)
           /\ Return
  <2>0. /\ waits # <<>> /\ Top.call = "lookup" /\ UNCHANGED <<service, cmds, proc2, tick, helper>>
        /\ lines # <<>> \/ helper = Dead
        /\ lines' = IF lines = <<>> THEN lines ELSE Tail(lines)
    BY <1>r DEF Reads, AtEof, twoVars
  <2>a. /\ Top.sock \in Socket /\ waits' = <<>> /\ LookupStage(Top.sock)
        /\ \A u \in Socket : Waiting(u) <=> u = Top.sock
    BY <1>i, <1>3, <2>0, OneCall
  <2>b. PICK s \in Socket : s = Top.sock
    BY <2>a
  <2>1. /\ LookupStage(s) /\ proc1[s] = 0 /\ load[s] # None
        /\ \A u \in Socket : Waiting(u) <=> u = s
        /\ Done(s, IF NextLine.code = "killFailed" THEN "text" ELSE "error", None)
    BY <1>3, <2>a, <2>b DEF LookupStage
  <2>2. /\ cmds = <<>> /\ helper \in {0, Dead}
        /\ \/ lines = <<>> /\ lines' = lines /\ helper = Dead
           \/ lines # <<>> /\ lines' = Tail(lines) /\ AckAt(1) /\ lines[1].code # "started"
    <3>1. CASE lines = <<>>
      BY <2>0, <2>1, <3>1 DEF LookupStage, StartedAt, AckAt
    <3>2. CASE lines # <<>>
      <4>1. /\ NextLine = lines[1] /\ 1 \in 1 .. Len(lines) /\ lines' = Tail(lines)
        <5>1. Len(lines) \in Nat /\ Len(lines) # 0
          BY <1>i, <3>2 DEF DnsTypeOK
        <5>2. Head(lines) = lines[1]
          BY <1>i, <2>0, <3>2, Dropped
        <5> QED
          BY <2>0, <3>2, <5>1, <5>2 DEF NextLine
      <4>2. ~IsAnswer(lines[1]) /\ lines[1].code # "started"
        BY <1>3, <4>1
      <4>3. ~NoAck
        BY <4>1, <4>2 DEF NoAck
      <4>4. \A i \in 1 .. Len(lines) : AckAt(i) => i = 1
        BY <4>1, <4>2 DEF AckAt
      <4>5. cmds = <<>> /\ helper \in {0, Dead} /\ AckAt(1)
        BY <2>1, <4>3, <4>4 DEF LookupStage, StartedAt
      <4> QED
        BY <3>2, <4>1, <4>2, <4>5
    <3> QED
      BY <3>1, <3>2
  <2> DEFINE status == IF NextLine.code = "killFailed" THEN "text" ELSE "error"
  <2>3. status \in {"text", "error"} /\ status \in Status /\ status # "ok"
    BY DEF Status
  <2>4. /\ proc1' = [proc1 EXCEPT ![s] = None] /\ queue' = [queue EXCEPT ![s] = None]
        /\ load' = [load EXCEPT ![s] = None]
        /\ given' = [given EXCEPT ![s] = [host |-> load[s], status |-> status, ip |-> None]]
    <3> HIDE DEF status
    <3> QED
      BY <2>1 DEF Done, Consume, status
  <2> HIDE DEF status
  <2>5. /\ proc1'[s] = None /\ queue'[s] = None /\ load'[s] = None
        /\ given'[s] = [host |-> load[s], status |-> status, ip |-> None]
        /\ \A u \in Socket : u # s => /\ proc1'[u] = proc1[u] /\ queue'[u] = queue[u]
                                     /\ load'[u] = load[u] /\ given'[u] = given[u]
    BY <1>i, <2>4 DEF DnsTypeOK
  <2>6. Kept'
    <3>1. \A u \in Socket : ~Waiting(u)'
      BY <2>a DEF Waiting
    <3> QED
      BY <1>i, <2>1, <2>5, <3>1 DEF Kept
  <2>7. RightAddress'
    BY <1>i, <2>3, <2>5 DEF RightAddress
  <2>8. /\ load' \in [Socket -> Host \cup {None}] /\ queue' \in [Socket -> Entry \cup {None}]
        /\ given' \in [Socket -> [host : Host, status : Status, ip : Host \cup {None}] \cup {None}]
    <3>1. load[s] \in Host
      BY <1>i, <2>1 DEF DnsTypeOK
    <3>2. [host |-> load[s], status |-> status, ip |-> None]
              \in [host : Host, status : Status, ip : Host \cup {None}]
      BY <2>3, <3>1
    <3> QED
      BY <1>i, <2>4, <3>2 DEF DnsTypeOK
  <2>9. \A i \in 1 .. Len(lines) : lines[i].id # proc1[s]
    BY <1>i, <2>1, LineTyped
  <2>10. proc1[s] \notin 1 .. MaxLookups
    BY <2>1
  <2>11. \/ lines = <<>> /\ lines' = lines /\ helper = Dead
         \/ /\ lines # <<>> /\ lines' = Tail(lines) /\ AckAt(1) /\ lines[1].code # "started"
            /\ \A i \in 1 .. Len(lines) : i # 1 => lines[i].id # proc1[s]
            /\ proc1[s] \in 1 .. MaxLookups => proc2[proc1[s]] = None
    BY <2>2, <2>9, <2>10
  <2> QED
    BY <2>0, <2>a, <2>b, <2>2, <2>4, <2>5, <2>6, <2>7, <2>8, <2>11, Ending
<1> QED
  BY <1>1, <1>2, <1>3 DEF ReadLookup

(* DNS_AbortHostLookup.                                                    *)
LEMMA ReadingKill ==
    ASSUME IInv, ReadKill
    PROVE  IInv'
<1> USE DnsAssumption
<1>i. DnsTypeOK /\ Stage /\ Kept /\ Ids /\ RightAddress
  BY DEF IInv
<1>r. Reads("kill")
  BY DEF ReadKill
<1>0. /\ waits # <<>> /\ Top.call = "kill" /\ UNCHANGED <<service, cmds, proc2, tick, helper>>
      /\ lines # <<>> \/ helper = Dead
      /\ lines' = IF lines = <<>> THEN lines ELSE Tail(lines)
  BY <1>r DEF Reads, AtEof, twoVars
<1>a. /\ Top.sock \in Socket /\ KillStage(Top.sock) /\ (Return => waits' = <<>>)
      /\ \A u \in Socket : Waiting(u) <=> u = Top.sock
  BY <1>i, <1>0, OneCall
<1>b. PICK s \in Socket : s = Top.sock
  BY <1>a
<1>1. /\ KillStage(s) /\ load[s] = None /\ proc1[s] \in 1 .. MaxLookups
      /\ \A u \in Socket : Waiting(u) <=> u = s
  BY <1>i, <1>a, <1>b DEF KillStage, DnsTypeOK
<1>2. CASE IsAnswer(NextLine) /\ ~Ignored(Top.sock, NextLine) /\ AsyncResponse(NextLine) /\ ReadsOn(TRUE)
  BY <1>r, <1>2, OthersAnswer
<1>3. CASE IsAnswer(NextLine) /\ Ignored(s, NextLine) /\ ReadsOn(FALSE) /\ UNCHANGED <<netVars, queue, proc1>>
  <2>1. lines # <<>> /\ lines' = Tail(lines) /\ NextLine = Head(lines)
    BY <1>0, <1>3 DEF NextLine, IsAnswer, Line
  <2>2. /\ lines' \in Seq(Lines) /\ Head(lines) = lines[1] /\ lines[1] \in Lines
        /\ Len(lines) \in Nat /\ Len(lines') = Len(lines) - 1
        /\ \A i \in 1 .. Len(lines') : i + 1 \in 1 .. Len(lines) /\ lines'[i] = lines[i + 1]
        /\ \A i \in 1 .. Len(lines) : i # 1 =>
              i - 1 \in 1 .. Len(lines') /\ lines'[i - 1] = lines[i]
    BY <1>i, <2>1, Dropped
  <2>3. IsAnswer(lines[1]) /\ lines[1].id = proc1[s] /\ UNCHANGED <<load, given, queue, proc1>>
    BY <1>3, <2>1, <2>2 DEF Ignored, netVars
  <2>4. KillStage(s)'
    BY <1>0, <1>1, <2>1, <2>3, KillGoesOn
  <2>w. PICK b, c \in BOOLEAN : waits' = One("kill", s, b, c)
    BY <1>i, <1>0, <1>b, <1>3, OneCall
  <2>5. Stage' /\ waits' \in Seq(Calls)
    BY <2>4, <2>w, KillStaged
  <2>6. DnsTypeOK'
    BY <1>i, <1>0, <2>2, <2>3, <2>5 DEF DnsTypeOK
  <2>7. \A u \in Socket : Waiting(u)' <=> u = s
    BY <2>w DEF Waiting
  <2>8. Kept'
    BY <1>i, <1>1, <2>3, <2>7 DEF Kept
  <2>9. IdsOnce'
    BY <1>i, <1>0, <2>2, <2>3 DEF Ids, IdsOnce
  <2>10. IdsMean'
    <3> SUFFICES ASSUME NEW u \in Socket, proc1[u] \notin {None, 0}
                 PROVE  Means(proc1[u], queue[u].name)' /\ (Known(proc1[u])' \/ u = s)
      BY <2>3, <2>7 DEF IdsMean
    <3>1. Means(proc1[u], queue[u].name) /\ (Known(proc1[u]) \/ u = s)
      BY <1>i, <1>1 DEF Ids, IdsMean
    <3>2. Means(proc1[u], queue[u].name)'
      BY <1>0, <2>2, <2>3, <3>1 DEF Means
    <3>3. CASE u = s
      BY <3>2, <3>3
    <3>4. CASE u # s
      <4>1. lines[1].id # proc1[u]
        BY <1>i, <1>1, <2>3, <3>4 DEF Ids, IdsOnce
      <4>2. ASSUME NEW i \in 1 .. Len(lines), IsAnswer(lines[i]), lines[i].id = proc1[u]
            PROVE  Known(proc1[u])'
        <5>1. i - 1 \in 1 .. Len(lines') /\ lines'[i - 1] = lines[i]
          BY <2>2, <4>1, <4>2
        <5> QED
          BY <2>3, <4>2, <5>1 DEF Known, IsAnswer
      <4>3. ASSUME proc2[proc1[u]] # None
            PROVE  Known(proc1[u])'
        BY <1>0, <2>3, <4>3 DEF Known
      <4>4. Known(proc1[u])'
        BY <3>1, <3>4, <4>2, <4>3 DEF Known
      <4> QED
        BY <3>2, <4>4
    <3> QED
      BY <3>3, <3>4
  <2>s. \A k : \A j \in 1 .. Len(lines) : lines[j] # Line("started", k, None)
    BY <1>1 DEF KillStage, NoAck, KilledAt, AckAt, IsAnswer, Line
  <2>11. AnswersOnce'
    <3> SUFFICES ASSUME NEW i \in 1 .. Len(lines'), IsAnswer(lines'[i])
                 PROVE  /\ proc2[lines'[i].id] = None
                        /\ \A j \in 1 .. Len(lines') :
                              IsAnswer(lines'[j]) /\ lines'[j].id = lines'[i].id => j = i
                        /\ \E u \in Socket : proc1[u] = lines'[i].id
      BY <1>0, <2>3 DEF AnswersOnce, IsAnswer, Line
    <3>1. i + 1 \in 1 .. Len(lines) /\ lines'[i] = lines[i + 1] /\ IsAnswer(lines[i + 1])
      BY <2>2
    <3>2. proc2[lines'[i].id] = None /\ \E u \in Socket : proc1[u] = lines'[i].id
      BY <1>i, <2>s, <3>1 DEF Ids, AnswersOnce
    <3>3. ASSUME NEW j \in 1 .. Len(lines'), IsAnswer(lines'[j]), lines'[j].id = lines'[i].id
          PROVE  j = i
      <4>1. j + 1 \in 1 .. Len(lines) /\ lines'[j] = lines[j + 1]
        BY <2>2
      <4>2. j + 1 = i + 1
        BY <1>i, <3>1, <3>3, <4>1 DEF Ids, AnswersOnce
      <4> QED
        BY <4>2
    <3> QED
      BY <3>2, <3>3
  <2>12. Wanted'
    BY <1>i, <1>0, <2>3, <2>s DEF Ids, Wanted
  <2>13. RightAddress'
    BY <1>i, <2>3 DEF RightAddress
  <2> QED
    BY <2>5, <2>6, <2>8, <2>9, <2>10, <2>11, <2>12, <2>13 DEF IInv, Ids
<1>4. CASE /\ ~IsAnswer(NextLine) /\ Return
           /\ Done(s, IF NextLine.code = "killFailed" THEN "text" ELSE "error", None)
  <2>1. /\ cmds = <<>> /\ helper \in {0, Dead}
        /\ \/ lines = <<>> /\ lines' = lines /\ helper = Dead
           \/ /\ lines # <<>> /\ lines' = Tail(lines) /\ AckAt(1) /\ lines[1].code # "started"
              /\ \A i \in 1 .. Len(lines) : i # 1 => lines[i].id # proc1[s]
              /\ proc2[proc1[s]] = None
    <3>1. CASE lines = <<>>
      BY <1>0, <1>1, <3>1 DEF KillStage, KilledAt, AckAt
    <3>2. CASE lines # <<>>
      <4>1. /\ NextLine = lines[1] /\ 1 \in 1 .. Len(lines) /\ lines' = Tail(lines)
        <5>1. Len(lines) \in Nat /\ Len(lines) # 0
          BY <1>i, <3>2 DEF DnsTypeOK
        <5>2. Head(lines) = lines[1]
          BY <1>i, <1>0, <3>2, Dropped
        <5> QED
          BY <1>0, <3>2, <5>1, <5>2 DEF NextLine
      <4>2. ~IsAnswer(lines[1])
        BY <1>4, <4>1
      <4>3. ~NoAck
        BY <4>1, <4>2 DEF NoAck
      <4>4. \A i \in 1 .. Len(lines) : AckAt(i) => i = 1
        BY <4>1, <4>2 DEF AckAt
      <4>5. cmds = <<>> /\ helper \in {0, Dead} /\ KilledAt(1, proc1[s])
        BY <1>1, <4>3, <4>4 DEF KillStage, KilledAt
      <4>6. \A i \in 1 .. Len(lines) : i # 1 => lines[i].id # proc1[s]
        BY <4>5 DEF KilledAt
      <4> QED
        BY <3>2, <4>1, <4>5, <4>6 DEF KilledAt
    <3> QED
      BY <3>1, <3>2
  <2> DEFINE status == IF NextLine.code = "killFailed" THEN "text" ELSE "error"
  <2>2. status \in {"text", "error"} /\ status \in Status /\ status # "ok"
    BY DEF Status
  <2>3. /\ proc1' = [proc1 EXCEPT ![s] = None] /\ UNCHANGED <<load, given>>
        /\ queue' = [queue EXCEPT ![s].status = status, ![s].ip = None]
    BY <1>1, <1>4 DEF Done, netVars
  <2> HIDE DEF status
  <2>4. queue[s] \in Entry
    BY <1>i, <1>1 DEF Kept, DnsTypeOK
  <2>5. [[queue[s] EXCEPT !.status = status] EXCEPT !.ip = None] =
            [name |-> queue[s].name, status |-> status, ip |-> None]
    <3>1. PICK e \in Entry : e = queue[s]
      BY <2>4
    <3>2. PICK d \in Entry : d = [name |-> e.name, status |-> status, ip |-> e.ip]
      BY <2>2, <3>1 DEF Entry
    <3>3. [e EXCEPT !.status = status] = d
      BY <3>2 DEF Entry
    <3>4. [d EXCEPT !.ip = None] = [name |-> d.name, status |-> d.status, ip |-> None]
      BY <3>2 DEF Entry
    <3> QED
      BY <3>1, <3>2, <3>3, <3>4
  <2>6. /\ proc1'[s] = None /\ queue'[s] = [name |-> queue[s].name, status |-> status, ip |-> None]
        /\ queue' \in [Socket -> Entry \cup {None}]
        /\ \A u \in Socket : u # s => proc1'[u] = proc1[u] /\ queue'[u] = queue[u]
    BY <1>i, <2>2, <2>3, <2>4, <2>5 DEF DnsTypeOK, Entry
  <2>7. Kept'
    <3>1. \A u \in Socket : ~Waiting(u)'
      BY <1>a, <1>4 DEF Waiting
    <3> QED
      BY <1>i, <1>1, <2>2, <2>3, <2>6, <3>1 DEF Kept
  <2>8. RightAddress'
    BY <1>i, <2>3 DEF RightAddress
  <2>9. /\ load' \in [Socket -> Host \cup {None}]
        /\ given' \in [Socket -> [host : Host, status : Status, ip : Host \cup {None}] \cup {None}]
    BY <1>i, <2>3 DEF DnsTypeOK
  <2> QED
    BY <1>0, <1>a, <1>b, <1>4, <2>1, <2>3, <2>6, <2>7, <2>8, <2>9, Ending
<1> QED
  BY <1>b, <1>2, <1>3, <1>4 DEF ReadKill
-----------------------------------------------------------------------------
(* What the browser keeps does not change when the helper does something.  *)
LEMMA BrowserKeeps ==
    ASSUME IInv, UNCHANGED <<netVars, oneVars>>
    PROVE  /\ UNCHANGED <<load, given, queue, proc1, waits, service>>
           /\ Kept' /\ RightAddress' /\ \A s \in Socket : Waiting(s)' <=> Waiting(s)
<1>1. UNCHANGED <<load, given, queue, proc1, waits, service>>
  BY DEF netVars, oneVars
<1>2. \A s \in Socket : Waiting(s)' <=> Waiting(s)
  BY <1>1 DEF Waiting
<1>3. Kept' /\ RightAddress'
  BY <1>1, <1>2 DEF IInv, Kept, RightAddress
<1> QED
  BY <1>1, <1>2, <1>3

(* The call that waits when the helper writes or does something for it.    *)
LEMMA LookupWaits ==
    ASSUME IInv, NEW s \in Socket, waits # <<>>, Top.call = "lookup", s = Top.sock,
           waits' = waits, LookupStage(s)'
    PROVE  Stage'
<1>2. PICK b, c \in BOOLEAN : waits' = One("lookup", s, b, c)
  BY OneCall DEF IInv
<1> QED
  BY <1>2, LookupStaged

(* The same for a kill.                                                    *)
LEMMA KillWaits ==
    ASSUME IInv, NEW s \in Socket, waits # <<>>, Top.call = "kill", s = Top.sock,
           waits' = waits, KillStage(s)'
    PROVE  Stage'
<1>2. PICK b, c \in BOOLEAN : waits' = One("kill", s, b, c)
  BY OneCall DEF IInv
<1> QED
  BY <1>2, KillStaged

(* new_lookup_object and spawn_lookup_process.                             *)
LEMMA Spawning ==
    ASSUME IInv, SpawnLookup
    PROVE  IInv'
<1> USE DnsAssumption
<1>i. DnsTypeOK /\ Stage /\ Kept /\ Ids
  BY DEF IInv
<1>0. /\ UNCHANGED <<load, given, queue, proc1, waits, service>>
      /\ Kept' /\ RightAddress' /\ \A u \in Socket : Waiting(u)' <=> Waiting(u)
  BY BrowserKeeps DEF SpawnLookup
<1>1. helper = 0 /\ cmds # <<>> /\ Head(cmds).cmd = "lookup" /\ cmds' = Tail(cmds)
  BY DEF SpawnLookup, Command
<1>2. waits # <<>>
  BY <1>i, <1>1, NoneWaits DEF NoCall
<1>a. /\ Top \in Calls /\ Top.sock \in Socket
      /\ (Top.call = "lookup" => LookupStage(Top.sock))
      /\ (Top.call = "kill" => KillStage(Top.sock))
  BY <1>i, <1>2, OneCall
<1>b. PICK s \in Socket : s = Top.sock
  BY <1>a
<1>3. Top.call = "lookup"
  <2>1. SUFFICES ASSUME Top.call = "kill" PROVE FALSE
    BY <1>a
  <2>2. cmds = <<[cmd |-> "kill", host |-> None, id |-> proc1[s]]>>
    BY <1>1, <1>a, <1>b, <2>1 DEF KillStage
  <2> QED
    BY <1>1, <2>2
<1>4. /\ proc1[s] = 0 /\ load[s] # None /\ NoAck /\ tick < MaxLookups
      /\ cmds = <<[cmd |-> "lookup", host |-> queue[s].name, id |-> 0]>>
  BY <1>1, <1>3, <1>a, <1>b DEF LookupStage
<1>5. cmds' = <<>> /\ Head(cmds).host = queue[s].name
  BY <1>1, <1>4
<1> DEFINE id == tick + 1
<1>6. tick \in Nat /\ id \in 1 .. MaxLookups /\ tick' = id /\ queue[s].name \in Host
  <2>1. queue[s] \in Entry
    BY <1>i, <1>4 DEF DnsTypeOK, Kept
  <2> QED
    BY <1>i, <1>4, <2>1 DEF SpawnLookup, NewId, DnsTypeOK, Entry
<1>7. /\ proc2[id] = None
      /\ \A i \in 1 .. Len(lines) : lines[i].id <= tick /\ lines[i].id # id
      /\ \A u \in Socket : proc1[u] # None => proc1[u] <= tick
      /\ \A u \in Socket : proc1[u] # id
  <2>1. \A i \in 1 .. Len(lines) : lines[i].id \in 1 .. MaxLookups
    BY <1>i, LineTyped
  <2>2. \A u \in Socket : proc1[u] \in 0 .. MaxLookups \cup {None}
    BY <1>i DEF DnsTypeOK
  <2> QED
    BY <1>i, <1>6, <2>1, <2>2 DEF Ids, IdsOnce
<1>8. PICK line \in Lines :
          /\ lines' = Append(lines, line) /\ line.id = id /\ ~IsAnswer(line)
          /\ \/ /\ line = Line("started", id, None) /\ helper' = helper
                /\ proc2' = [proc2 EXCEPT ![id] = [host |-> queue[s].name, child |-> "running"]]
             \/ line.code = "notStarted" /\ helper' = Dead /\ proc2' = proc2
  <2>1. Line("started", id, None) \in Lines /\ Line("notStarted", id, None) \in Lines
    BY <1>6 DEF Line
  <2>2. ~IsAnswer(Line("started", id, None)) /\ ~IsAnswer(Line("notStarted", id, None))
    BY DEF Line, IsAnswer
  <2> QED
    BY <1>5, <2>1, <2>2 DEF SpawnLookup, Answered, NewId, Line
<1>9. /\ lines' \in Seq(Lines) /\ Len(lines) \in Nat /\ Len(lines') = Len(lines) + 1
      /\ \A i \in 1 .. Len(lines) : i \in 1 .. Len(lines') /\ lines'[i] = lines[i]
      /\ lines'[Len(lines')] = line /\ Len(lines') \in 1 .. Len(lines')
      /\ \A i \in 1 .. Len(lines') : i = Len(lines') \/ i \in 1 .. Len(lines)
  BY <1>i, <1>8, Written
<1>10. /\ \A k \in 1 .. MaxLookups : k # id => proc2'[k] = proc2[k]
       /\ proc2' \in [1 .. MaxLookups -> Lookup \cup {None}]
  <2>1. [host |-> queue[s].name, child |-> "running"] \in Lookup
    BY <1>6 DEF Lookup
  <2>2. proc2 \in [1 .. MaxLookups -> Lookup \cup {None}]
    BY <1>i DEF DnsTypeOK
  <2>3. CASE proc2' = [proc2 EXCEPT ![id] = [host |-> queue[s].name, child |-> "running"]]
    <3> HIDE DEF id
    <3> PICK x \in Lookup : x = [host |-> queue[s].name, child |-> "running"]
      BY <2>1
    <3>1. proc2' = [proc2 EXCEPT ![id] = x]
      BY <2>3
    <3> QED
      BY <2>2, <3>1
  <2>4. CASE proc2' = proc2
    BY <2>2, <2>4
  <2> QED
    BY <1>8, <2>3, <2>4
<1>11. DnsTypeOK'
  <2>1. helper' \in Dead .. MaxLookups
    BY <1>i, <1>8 DEF DnsTypeOK
  <2>2. cmds' \in Seq(Cmds)
    BY <1>5
  <2>3. tick' \in 0 .. MaxLookups
    BY <1>6
  <2> HIDE DEF id
  <2>4. /\ load' \in [Socket -> Host \cup {None}]
        /\ given' \in [Socket -> [host : Host, status : Status, ip : Host \cup {None}] \cup {None}]
        /\ queue' \in [Socket -> Entry \cup {None}]
        /\ proc1' \in [Socket -> 0 .. MaxLookups \cup {None}]
        /\ waits' \in Seq(Calls) /\ service' \in {"on", "off"}
    BY <1>i, <1>0 DEF DnsTypeOK
  <2> QED
    BY <1>9, <1>10, <2>1, <2>2, <2>3, <2>4 DEF DnsTypeOK
<1>n. PICK n \in 1 .. Len(lines') : n = Len(lines')
  BY <1>9
<1>12. AckAt(n)'
  BY <1>4, <1>8, <1>9, <1>n DEF NoAck, AckAt, IsAnswer
<1>13. LookupStage(s)'
  <2>1. CASE /\ line = Line("started", id, None) /\ helper' = helper
             /\ proc2' = [proc2 EXCEPT ![id] = [host |-> queue[s].name, child |-> "running"]]
    <3>2. proc2'[id] = [host |-> queue[s].name, child |-> "running"] /\ proc2'[id] # None
      <4>1. [host |-> queue[s].name, child |-> "running"] \in Lookup
        BY <1>6 DEF Lookup
      <4> QED
        BY <1>i, <1>6, <2>1, <4>1 DEF DnsTypeOK
    <3>3. \A i \in 1 .. Len(lines') : lines'[i].id = id => lines'[i].code # "ok"
      <4> SUFFICES ASSUME NEW i \in 1 .. Len(lines'), lines'[i].id = id
                   PROVE  lines'[i].code # "ok"
        OBVIOUS
      <4>1. i \notin 1 .. Len(lines)
        BY <1>7, <1>9
      <4>2. lines'[i] = line
        BY <1>9, <4>1
      <4> QED
        BY <2>1, <4>2 DEF Line
    <3>4. lines'[n] = Line("started", id, None) /\ lines'[n].id = id
      BY <1>9, <1>n, <2>1 DEF Line
    <3>6. StartedAt(n, s)'
      BY <1>0, <1>7, <1>12, <3>2, <3>3, <3>4 DEF StartedAt, Means, Known, Line
    <3> QED
      BY <1>0, <1>1, <1>4, <1>5, <2>1, <3>6 DEF LookupStage
  <2>2. CASE line.code = "notStarted" /\ helper' = Dead /\ proc2' = proc2
    BY <1>0, <1>4, <1>5, <1>8, <1>9, <1>n, <1>12, <2>2 DEF LookupStage
  <2> QED
    BY <1>8, <2>1, <2>2
<1>14. Stage'
  BY <1>0, <1>2, <1>3, <1>b, <1>13, LookupWaits
<1>15. IdsOnce'
  <2>1. \A k \in 1 .. MaxLookups : k > id => proc2'[k] = None
    BY <1>i, <1>6, <1>10 DEF Ids, IdsOnce
  <2>2. \A i \in 1 .. Len(lines') : lines'[i].id <= id
    <3> SUFFICES ASSUME NEW i \in 1 .. Len(lines') PROVE lines'[i].id <= id
      OBVIOUS
    <3>1. CASE i = Len(lines')
      BY <1>6, <1>8, <1>9, <3>1
    <3>2. CASE i \in 1 .. Len(lines)
      <4>1. lines[i].id \in 1 .. MaxLookups
        BY <1>i, <3>2, LineTyped
      <4> QED
        BY <1>6, <1>7, <1>9, <3>2, <4>1
    <3> QED
      BY <1>9, <3>1, <3>2
  <2>3. \A u \in Socket : proc1[u] # None => proc1[u] <= id
    <3>1. \A u \in Socket : proc1[u] \in 0 .. MaxLookups \cup {None}
      BY <1>i DEF DnsTypeOK
    <3> QED
      BY <1>6, <1>7, <3>1
  <2> QED
    BY <1>i, <1>0, <1>6, <2>1, <2>2, <2>3 DEF Ids, IdsOnce
<1>16. IdsMean'
  <2> SUFFICES ASSUME NEW u \in Socket, proc1[u] \notin {None, 0}
               PROVE  Means(proc1[u], queue[u].name)' /\ (Known(proc1[u])' \/ Waiting(u))
    BY <1>0 DEF IdsMean
  <2>1. proc1[u] \in 1 .. MaxLookups /\ proc2'[proc1[u]] = proc2[proc1[u]]
    BY <1>i, <1>7, <1>10 DEF DnsTypeOK
  <2>2. Means(proc1[u], queue[u].name) /\ (Known(proc1[u]) \/ Waiting(u))
    BY <1>i DEF Ids, IdsMean
  <2>3. Means(proc1[u], queue[u].name)'
    <3>1. \A i \in 1 .. Len(lines') : lines'[i].id = proc1[u] =>
              i \in 1 .. Len(lines) /\ lines'[i] = lines[i]
      BY <1>7, <1>8, <1>9
    <3> QED
      BY <1>0, <2>1, <2>2, <3>1 DEF Means
  <2>4. Known(proc1[u]) => Known(proc1[u])'
    BY <1>0, <1>9, <2>1 DEF Known, IsAnswer
  <2> QED
    BY <2>2, <2>3, <2>4
<1>17. AnswersOnce'
  <2> SUFFICES ASSUME NEW i \in 1 .. Len(lines'), IsAnswer(lines'[i])
               PROVE  /\ proc2'[lines'[i].id] = None
                      /\ \A j \in 1 .. Len(lines') :
                            IsAnswer(lines'[j]) /\ lines'[j].id = lines'[i].id => j = i
                      /\ \E u \in Socket : proc1[u] = lines'[i].id
    BY <1>0 DEF AnswersOnce, IsAnswer, Line
  <2>1. \A j \in 1 .. Len(lines') : IsAnswer(lines'[j]) => j \in 1 .. Len(lines) /\ lines'[j] = lines[j]
    BY <1>8, <1>9
  <2>2. i \in 1 .. Len(lines) /\ lines'[i] = lines[i] /\ lines[i] \in Lines
    BY <1>i, <2>1, LineTyped
  <2>3. proc2'[lines'[i].id] = None
    <3>1. lines[i].id # id /\ proc2[lines[i].id] = None
      BY <1>i, <1>7, <2>2 DEF Ids, AnswersOnce
    <3> QED
      BY <1>10, <2>2, <3>1
  <2>4. \A j \in 1 .. Len(lines') :
            IsAnswer(lines'[j]) /\ lines'[j].id = lines'[i].id => j = i
    BY <1>i, <2>1, <2>2 DEF Ids, AnswersOnce
  <2>5. \E u \in Socket : proc1[u] = lines'[i].id
    <3>1. \A j \in 1 .. Len(lines) : \A k : lines[j] # Line("started", k, None)
      BY <1>4 DEF NoAck, IsAnswer, Line
    <3>2. \/ \E u \in Socket : proc1[u] = lines[i].id
          \/ \E j \in 1 .. Len(lines) : lines[j] = Line("started", lines[i].id, None)
      BY <1>i, <2>2 DEF Ids, AnswersOnce
    <3> QED
      BY <2>2, <3>1, <3>2
  <2> QED
    BY <2>3, <2>4, <2>5
<1>18. Wanted'
  <2> SUFFICES ASSUME helper' # Dead, NEW k \in 1 .. MaxLookups, proc2'[k] # None
               PROVE  \/ \E u \in Socket : proc1[u] = k
                      \/ \E j \in 1 .. Len(lines') : lines'[j] = Line("started", k, None)
    BY <1>0 DEF Wanted, Line
  <2>1. CASE k = id
    BY <1>8, <1>9, <2>1
  <2>2. CASE k # id
    <3>1. \/ \E u \in Socket : proc1[u] = k
          \/ \E j \in 1 .. Len(lines) : lines[j] = Line("started", k, None)
      <4>1. proc2[k] # None /\ helper # Dead
        BY <1>1, <1>10, <2>2
      <4> QED
        BY <1>i, <4>1 DEF Ids, Wanted
    <3> QED
      BY <1>9, <3>1
  <2> QED
    BY <2>1, <2>2
<1> QED
  BY <1>0, <1>11, <1>14, <1>15, <1>16, <1>17, <1>18 DEF IInv, Ids

(* The acknowledgement of a kill, after which the lookup may be gone.      *)
LEMMA Acknowledged ==
    ASSUME IInv, UNCHANGED <<netVars, oneVars, tick>>, helper # Dead,
           NEW line \in Lines, lines' = Append(lines, line), ~IsAnswer(line), line.id <= tick,
           \A k \in 1 .. MaxLookups : proc2'[k] = proc2[k] \/ (proc2'[k] = None /\ k = line.id),
           NEW s \in Socket, Waiting(s), proc1[s] = line.id
    PROVE  Ids'
<1> USE DnsAssumption
<1>i. DnsTypeOK /\ Stage /\ Kept /\ Ids
  BY DEF IInv
<1>0. /\ UNCHANGED <<load, given, queue, proc1, waits, service, tick>>
      /\ \A u \in Socket : Waiting(u)' <=> Waiting(u)
  BY BrowserKeeps
<1>1. /\ Len(lines) \in Nat
      /\ \A i \in 1 .. Len(lines) : i \in 1 .. Len(lines') /\ lines'[i] = lines[i]
      /\ \A i \in 1 .. Len(lines') : lines'[i] = line \/ i \in 1 .. Len(lines)
  BY <1>i, Written
<1>2. \A i \in 1 .. Len(lines') : IsAnswer(lines'[i]) => i \in 1 .. Len(lines) /\ lines'[i] = lines[i]
  BY <1>1
<1>3. IdsOnce'
  <2>1. \A i \in 1 .. Len(lines') : lines'[i].id <= tick
    BY <1>i, <1>1 DEF Ids, IdsOnce
  <2>2. \A k \in 1 .. MaxLookups : k > tick => proc2'[k] = None
    BY <1>i DEF Ids, IdsOnce
  <2> QED
    BY <1>i, <1>0, <2>1, <2>2 DEF Ids, IdsOnce
<1>4. IdsMean'
  <2> SUFFICES ASSUME NEW u \in Socket, proc1[u] \notin {None, 0}
               PROVE  Means(proc1[u], queue[u].name)' /\ (Known(proc1[u])' \/ Waiting(u))
    BY <1>0 DEF IdsMean
  <2>1. proc1[u] \in 1 .. MaxLookups
    BY <1>i DEF DnsTypeOK
  <2>2. Means(proc1[u], queue[u].name) /\ (Known(proc1[u]) \/ Waiting(u))
    BY <1>i DEF Ids, IdsMean
  <2>3. Means(proc1[u], queue[u].name)'
    <3>1. \A i \in 1 .. Len(lines') : lines'[i].code = "ok" =>
              i \in 1 .. Len(lines) /\ lines'[i] = lines[i]
      BY <1>2 DEF IsAnswer
    <3>2. proc2'[proc1[u]] # None => proc2'[proc1[u]] = proc2[proc1[u]]
      BY <2>1
    <3> QED
      BY <1>0, <2>2, <3>1, <3>2 DEF Means
  <2>4. CASE u = s
    BY <2>3, <2>4
  <2>5. CASE u # s
    <3>1. proc2'[proc1[u]] = proc2[proc1[u]]
      BY <1>i, <2>1, <2>5 DEF Ids, IdsOnce
    <3>2. Known(proc1[u]) => Known(proc1[u])'
      BY <1>0, <1>1, <3>1 DEF Known, IsAnswer
    <3> QED
      BY <2>2, <2>3, <3>2
  <2> QED
    BY <2>4, <2>5
<1>5. AnswersOnce'
  <2> SUFFICES ASSUME NEW i \in 1 .. Len(lines'), IsAnswer(lines'[i])
               PROVE  /\ proc2'[lines'[i].id] = None
                      /\ \A j \in 1 .. Len(lines') :
                            IsAnswer(lines'[j]) /\ lines'[j].id = lines'[i].id => j = i
                      /\ \/ \E u \in Socket : proc1[u] = lines'[i].id
                         \/ \E j \in 1 .. Len(lines') : j < i /\ lines'[j] = Line("started", lines'[i].id, None)
    BY <1>0 DEF AnswersOnce, IsAnswer, Line
  <2>1. i \in 1 .. Len(lines) /\ lines'[i] = lines[i] /\ lines[i] \in Lines
    BY <1>i, <1>2, LineTyped
  <2>2. proc2'[lines'[i].id] = None
    BY <1>i, <2>1 DEF Ids, AnswersOnce
  <2>3. \A j \in 1 .. Len(lines') :
            IsAnswer(lines'[j]) /\ lines'[j].id = lines'[i].id => j = i
    BY <1>i, <1>2, <2>1 DEF Ids, AnswersOnce
  <2>4. \/ \E u \in Socket : proc1[u] = lines[i].id
        \/ \E j \in 1 .. Len(lines) : j < i /\ lines[j] = Line("started", lines[i].id, None)
    BY <1>i, <2>1 DEF Ids, AnswersOnce
  <2> QED
    BY <1>1, <2>1, <2>2, <2>3, <2>4
<1>6. Wanted'
  <2> SUFFICES ASSUME NEW k \in 1 .. MaxLookups, proc2'[k] # None
               PROVE  \/ \E u \in Socket : proc1[u] = k
                      \/ \E j \in 1 .. Len(lines') : lines'[j] = Line("started", k, None)
    BY <1>0 DEF Wanted, Line
  <2>1. proc2[k] # None
    OBVIOUS
  <2>2. \/ \E u \in Socket : proc1[u] = k
        \/ \E j \in 1 .. Len(lines) : lines[j] = Line("started", k, None)
    BY <1>i, <2>1 DEF Ids, Wanted
  <2> QED
    BY <1>1, <2>2
<1> QED
  BY <1>3, <1>4, <1>5, <1>6 DEF Ids

(* A child goes on, or is killed.                                          *)
LEMMA ChildGoesOn ==
    ASSUME IInv, UNCHANGED <<netVars, oneVars, lines, tick>>, helper' = helper \/ helper # Dead,
           \A k \in 1 .. MaxLookups : /\ proc2'[k] = None <=> proc2[k] = None
                                      /\ proc2[k] # None => proc2'[k].host = proc2[k].host
    PROVE  Ids' /\ (NoAck => NoAck')
<1> USE DnsAssumption
<1>i. DnsTypeOK /\ Stage /\ Kept /\ Ids
  BY DEF IInv
<1>0. /\ UNCHANGED <<load, given, queue, proc1, waits, service, lines, tick>>
      /\ \A u \in Socket : Waiting(u)' <=> Waiting(u)
  BY BrowserKeeps
<1>1. NoAck => NoAck'
  BY <1>0 DEF NoAck, IsAnswer
<1>2. IdsOnce'
  BY <1>i, <1>0 DEF Ids, IdsOnce
<1>3. IdsMean'
  <2> SUFFICES ASSUME NEW u \in Socket, proc1[u] \notin {None, 0}
               PROVE  Means(proc1[u], queue[u].name)' /\ (Known(proc1[u])' \/ Waiting(u))
    BY <1>0 DEF IdsMean
  <2>1. proc1[u] \in 1 .. MaxLookups
    BY <1>i DEF DnsTypeOK
  <2>2. Means(proc1[u], queue[u].name) /\ (Known(proc1[u]) \/ Waiting(u))
    BY <1>i DEF Ids, IdsMean
  <2>3. Means(proc1[u], queue[u].name)'
    BY <1>0, <2>1, <2>2 DEF Means
  <2>4. Known(proc1[u]) => Known(proc1[u])'
    BY <1>0, <2>1 DEF Known, IsAnswer
  <2> QED
    BY <2>2, <2>3, <2>4
<1>4. AnswersOnce'
  <2>1. \A i \in 1 .. Len(lines) : lines[i].id \in 1 .. MaxLookups
    BY <1>i, LineTyped
  <2>2. \A i \in 1 .. Len(lines) : IsAnswer(lines[i]) => proc2'[lines[i].id] = None
    BY <1>i, <2>1 DEF Ids, AnswersOnce
  <2> QED
    BY <1>i, <1>0, <2>2 DEF Ids, AnswersOnce, IsAnswer, Line
<1>5. Wanted'
  <2> SUFFICES ASSUME helper' # Dead, NEW k \in 1 .. MaxLookups, proc2'[k] # None
               PROVE  \/ \E u \in Socket : proc1[u] = k
                      \/ \E j \in 1 .. Len(lines) : lines[j] = Line("started", k, None)
    BY <1>0 DEF Wanted, Line
  <2>1. proc2[k] # None /\ helper # Dead
    OBVIOUS
  <2> QED
    BY <1>i, <2>1 DEF Ids, Wanted
<1> QED
  BY <1>1, <1>2, <1>3, <1>4, <1>5 DEF Ids

(* cancel_lookup.                                                          *)
LEMMA Cancelling ==
    ASSUME IInv, CancelLookup
    PROVE  IInv'
<1> USE DnsAssumption
<1>i. DnsTypeOK /\ Stage /\ Kept /\ Ids
  BY DEF IInv
<1>0. /\ UNCHANGED <<load, given, queue, proc1, waits, service>> /\ tick' = tick
      /\ UNCHANGED <<netVars, oneVars>>
      /\ Kept' /\ RightAddress' /\ \A u \in Socket : Waiting(u)' <=> Waiting(u)
  BY BrowserKeeps DEF CancelLookup
<1>1. helper = 0 /\ cmds # <<>> /\ Head(cmds).cmd = "kill" /\ cmds' = Tail(cmds)
  BY DEF CancelLookup, Command
<1>2. waits # <<>>
  BY <1>i, <1>1, NoneWaits DEF NoCall
<1>a. /\ Top \in Calls /\ Top.sock \in Socket
      /\ (Top.call = "lookup" => LookupStage(Top.sock))
      /\ (Top.call = "kill" => KillStage(Top.sock))
      /\ \A u \in Socket : Waiting(u) <=> u = Top.sock
  BY <1>i, <1>2, OneCall
<1>b. PICK s \in Socket : s = Top.sock
  BY <1>a
<1>3. Top.call = "kill"
  <2>1. SUFFICES ASSUME Top.call = "lookup" PROVE FALSE
    BY <1>a
  <2>2. cmds = <<[cmd |-> "lookup", host |-> queue[s].name, id |-> 0]>>
    BY <1>1, <1>a, <1>b, <2>1 DEF LookupStage
  <2> QED
    BY <1>1, <2>2
<1>4. /\ cmds = <<[cmd |-> "kill", host |-> None, id |-> proc1[s]]>>
      /\ NoAck /\ load[s] = None /\ proc1[s] \in 1 .. tick /\ Waiting(s)
  BY <1>1, <1>3, <1>a, <1>b DEF KillStage
<1>5. cmds' = <<>> /\ Head(cmds).id = proc1[s] /\ proc1[s] \in 1 .. MaxLookups
  BY <1>i, <1>1, <1>4 DEF DnsTypeOK
<1>6. \A i \in 1 .. Len(lines) : IsAnswer(lines[i])
  BY <1>4 DEF NoAck
<1>7. CASE proc2[proc1[s]] = None /\ TooLate(proc1[s]) /\ UNCHANGED <<proc2, helper>>
  <2> DEFINE line == Line("killFailed", proc1[s], None)
  <2>1. line \in Lines /\ ~IsAnswer(line) /\ line.id = proc1[s] /\ line.code = "killFailed"
        /\ lines' = Append(lines, line)
    BY <1>5, <1>7 DEF Line, IsAnswer, TooLate, Answered
  <2> HIDE DEF line
  <2>2. /\ lines' \in Seq(Lines) /\ Len(lines) \in Nat /\ Len(lines') = Len(lines) + 1
        /\ \A i \in 1 .. Len(lines) : i \in 1 .. Len(lines') /\ lines'[i] = lines[i]
        /\ lines'[Len(lines')] = line /\ Len(lines') \in 1 .. Len(lines')
        /\ \A i \in 1 .. Len(lines') : i = Len(lines') \/ i \in 1 .. Len(lines)
    BY <1>i, <2>1, Written
  <2>3. Ids'
    <3>1. \A k \in 1 .. MaxLookups : proc2'[k] = proc2[k] \/ (proc2'[k] = None /\ k = line.id)
      BY <1>7
    <3>2. line.id <= tick /\ helper # Dead /\ UNCHANGED <<netVars, oneVars, tick>>
      BY <1>0, <1>1, <1>4, <1>i, <2>1 DEF DnsTypeOK
    <3> QED
      BY <1>4, <2>1, <3>1, <3>2, Acknowledged
  <2>4. KillStage(s)'
    <3>1. PICK n \in 1 .. Len(lines') : n = Len(lines')
      BY <2>2
    <3>2. KilledAt(n, proc1[s])'
      BY <1>0, <1>6, <1>7, <2>1, <2>2, <3>1 DEF KilledAt, AckAt, IsAnswer
    <3> QED
      BY <1>0, <1>1, <1>4, <1>5, <1>7, <3>2 DEF KillStage
  <2>5. Stage'
    BY <1>0, <1>2, <1>3, <1>b, <2>4, KillWaits
  <2>6. DnsTypeOK'
    <3>1. cmds' \in Seq(Cmds)
      BY <1>5
    <3> QED
      BY <1>i, <1>0, <1>7, <2>2, <3>1 DEF DnsTypeOK
  <2> QED
    BY <1>0, <2>3, <2>5, <2>6 DEF IInv
<1>8. CASE /\ proc2[proc1[s]] # None /\ helper' = proc1[s] /\ UNCHANGED lines
           /\ proc2' = IF QuitIgnored THEN proc2
                       ELSE [proc2 EXCEPT ![proc1[s]].child = "killed"]
  <2>1. proc2[proc1[s]] \in Lookup
    BY <1>i, <1>5, <1>8 DEF DnsTypeOK
  <2>2. PICK l \in Lookup : l = proc2[proc1[s]]
    BY <2>1
  <2>3. [l EXCEPT !.child = "killed"] = [host |-> l.host, child |-> "killed"]
    BY DEF Lookup
  <2>4. /\ proc2' \in [1 .. MaxLookups -> Lookup \cup {None}]
        /\ \A k \in 1 .. MaxLookups : /\ proc2'[k] = None <=> proc2[k] = None
                                      /\ proc2[k] # None => proc2'[k].host = proc2[k].host
    <3>1. CASE QuitIgnored
      BY <1>i, <1>8, <3>1 DEF DnsTypeOK
    <3>2. CASE ~QuitIgnored
      <4>1. PICK m \in Lookup : m = [host |-> l.host, child |-> "killed"]
        BY DEF Lookup
      <4>2. proc2' = [proc2 EXCEPT ![proc1[s]] = m]
        BY <1>8, <2>2, <2>3, <3>2, <4>1
      <4>3. m # None /\ l # None /\ m.host = l.host
        BY <4>1
      <4> QED
        BY <1>i, <1>5, <2>2, <4>2, <4>3 DEF DnsTypeOK
    <3> QED
      BY <3>1, <3>2
  <2>5. Ids' /\ NoAck'
    <3>1. UNCHANGED <<netVars, oneVars, lines, tick>> /\ helper # Dead
      BY <1>0, <1>1, <1>8
    <3> QED
      BY <1>4, <2>4, <3>1, ChildGoesOn
  <2>6. KillStage(s)'
    BY <1>0, <1>4, <1>5, <1>8, <2>4, <2>5 DEF KillStage
  <2>7. Stage'
    BY <1>0, <1>2, <1>3, <1>b, <2>6, KillWaits
  <2>8. DnsTypeOK'
    <3>1. cmds' \in Seq(Cmds)
      BY <1>5
    <3>2. helper' \in Dead .. MaxLookups
      BY <1>5, <1>8
    <3> QED
      BY <1>i, <1>0, <1>8, <2>4, <3>1, <3>2 DEF DnsTypeOK
  <2> QED
    BY <1>0, <2>5, <2>7, <2>8 DEF IInv
<1> QED
  BY <1>5, <1>7, <1>8 DEF CancelLookup

(* waitpid returns to cancel_lookup.                                       *)
LEMMA WaitingFor ==
    ASSUME IInv, NEW id \in 1 .. MaxLookups, WaitedFor(id)
    PROVE  IInv'
<1> USE DnsAssumption
<1>i. DnsTypeOK /\ Stage /\ Kept /\ Ids
  BY DEF IInv
<1>0. /\ UNCHANGED <<load, given, queue, proc1, waits, service>> /\ tick' = tick /\ cmds' = cmds
      /\ UNCHANGED <<netVars, oneVars>>
      /\ Kept' /\ RightAddress' /\ \A u \in Socket : Waiting(u)' <=> Waiting(u)
  BY BrowserKeeps DEF WaitedFor
<1>1. helper = id /\ helper' = 0 /\ proc2' = [proc2 EXCEPT ![id] = None]
  BY DEF WaitedFor, FreeLookup
<1>2. waits # <<>>
  BY <1>i, <1>1, NoneWaits DEF NoCall
<1>a. /\ Top \in Calls /\ Top.sock \in Socket
      /\ (Top.call = "lookup" => LookupStage(Top.sock))
      /\ (Top.call = "kill" => KillStage(Top.sock))
      /\ \A u \in Socket : Waiting(u) <=> u = Top.sock
  BY <1>i, <1>2, OneCall
<1>b. PICK s \in Socket : s = Top.sock
  BY <1>a
<1>3. Top.call = "kill"
  BY <1>1, <1>a DEF LookupStage
<1>4. /\ proc1[s] = id /\ cmds = <<>> /\ NoAck /\ load[s] = None /\ id \in 1 .. tick /\ Waiting(s)
  BY <1>1, <1>3, <1>a, <1>b DEF KillStage
<1> DEFINE line == Line("killed", id, None)
<1>5. line \in Lines /\ ~IsAnswer(line) /\ line.id = id /\ line.code = "killed"
      /\ lines' = Append(lines, line)
  BY DEF Line, IsAnswer, WaitedFor, Answered
<1> HIDE DEF line
<1>6. /\ lines' \in Seq(Lines) /\ Len(lines) \in Nat /\ Len(lines') = Len(lines) + 1
      /\ \A i \in 1 .. Len(lines) : i \in 1 .. Len(lines') /\ lines'[i] = lines[i]
      /\ lines'[Len(lines')] = line /\ Len(lines') \in 1 .. Len(lines')
      /\ \A i \in 1 .. Len(lines') : i = Len(lines') \/ i \in 1 .. Len(lines)
  BY <1>i, <1>5, Written
<1>7. /\ proc2' \in [1 .. MaxLookups -> Lookup \cup {None}] /\ proc2'[id] = None
      /\ \A k \in 1 .. MaxLookups : proc2'[k] = proc2[k] \/ (proc2'[k] = None /\ k = line.id)
  BY <1>i, <1>1, <1>5 DEF DnsTypeOK
<1>8. Ids'
  <2>1. line.id <= tick /\ helper # Dead /\ UNCHANGED <<netVars, oneVars, tick>>
    BY <1>0, <1>1, <1>4, <1>i, <1>5 DEF DnsTypeOK
  <2> QED
    BY <1>4, <1>5, <1>7, <2>1, Acknowledged
<1>9. KillStage(s)'
  <2>1. PICK n \in 1 .. Len(lines') : n = Len(lines')
    BY <1>6
  <2>2. KilledAt(n, proc1[s])'
    BY <1>0, <1>4, <1>5, <1>6, <1>7, <2>1 DEF NoAck, KilledAt, AckAt, IsAnswer
  <2> QED
    BY <1>0, <1>1, <1>4, <2>2 DEF KillStage
<1>10. Stage'
  BY <1>0, <1>2, <1>3, <1>b, <1>9, KillWaits
<1>11. DnsTypeOK'
  BY <1>i, <1>0, <1>1, <1>6, <1>7 DEF DnsTypeOK
<1> QED
  BY <1>0, <1>8, <1>10, <1>11 DEF IInv

(* handle_subproc_response: an answer is written.                          *)
LEMMA Responding ==
    ASSUME IInv, NEW id \in 1 .. MaxLookups, SubprocResponse(id)
    PROVE  IInv'
<1> USE DnsAssumption
<1>i. DnsTypeOK /\ Stage /\ Kept /\ Ids
  BY DEF IInv
<1>0. /\ UNCHANGED <<load, given, queue, proc1, waits, service>>
      /\ tick' = tick /\ cmds' = cmds /\ helper' = helper
      /\ Kept' /\ RightAddress' /\ \A u \in Socket : Waiting(u)' <=> Waiting(u)
  BY BrowserKeeps DEF SubprocResponse
<1>1. helper = 0 /\ proc2[id] # None /\ proc2[id].child \in {"ok", "failed"}
      /\ proc2' = [proc2 EXCEPT ![id] = None]
  BY DEF SubprocResponse, FreeLookup
<1>2. PICK l \in Lookup : l = proc2[id]
  BY <1>i, <1>1 DEF DnsTypeOK
<1>3. PICK line \in Lines :
          /\ lines' = Append(lines, line) /\ line.id = id /\ IsAnswer(line)
          /\ line.code = "ok" => line.ip = l.host
  <2>1. Line(l.child, id, IF l.child = "ok" THEN l.host ELSE None) \in Lines
    BY <1>1, <1>2 DEF Line, Lookup
  <2>2. lines' = Append(lines, Line(l.child, id, IF l.child = "ok" THEN l.host ELSE None))
    BY <1>2 DEF SubprocResponse, Answered
  <2>3. IsAnswer(Line(l.child, id, IF l.child = "ok" THEN l.host ELSE None))
    BY <1>1, <1>2 DEF Line, IsAnswer
  <2> QED
    BY <2>1, <2>2, <2>3 DEF Line
<1>4. /\ lines' \in Seq(Lines) /\ Len(lines) \in Nat /\ Len(lines') = Len(lines) + 1
      /\ \A i \in 1 .. Len(lines) : i \in 1 .. Len(lines') /\ lines'[i] = lines[i]
      /\ lines'[Len(lines')] = line /\ Len(lines') \in 1 .. Len(lines')
      /\ \A i \in 1 .. Len(lines') : i = Len(lines') \/ i \in 1 .. Len(lines)
  BY <1>i, <1>3, Written
<1>5. /\ proc2' \in [1 .. MaxLookups -> Lookup \cup {None}] /\ proc2'[id] = None
      /\ \A k \in 1 .. MaxLookups : k # id => proc2'[k] = proc2[k]
  BY <1>i, <1>1 DEF DnsTypeOK
<1>6. id <= tick /\ tick \in Nat
  BY <1>i, <1>1 DEF Ids, IdsOnce, DnsTypeOK
<1>7. \A i \in 1 .. Len(lines) : IsAnswer(lines[i]) => lines[i].id # id
  BY <1>i, <1>1 DEF Ids, AnswersOnce
<1>8. NoAck => NoAck'
  BY <1>3, <1>4 DEF NoAck, IsAnswer
<1>9. \A i \in 1 .. Len(lines) : AckAt(i) => AckAt(i)'
  BY <1>3, <1>4 DEF AckAt, IsAnswer
<1>10. ASSUME NEW k \in 1 .. MaxLookups
       PROVE  Known(k) => Known(k)'
  <2>1. CASE k = id
    BY <1>3, <1>4, <2>1 DEF Known, IsAnswer
  <2>2. CASE k # id
    BY <1>4, <1>5, <2>2 DEF Known, IsAnswer
  <2> QED
    BY <2>1, <2>2
<1>11. ASSUME NEW k \in 1 .. MaxLookups, NEW name, Means(k, name)
       PROVE  Means(k, name)'
  <2>1. k = id => l.host = name
    BY <1>1, <1>2, <1>11 DEF Means
  <2>2. proc2'[k] # None => proc2'[k].host = name
    BY <1>5, <1>11 DEF Means
  <2>3. ASSUME NEW i \in 1 .. Len(lines'), lines'[i].id = k, lines'[i].code = "ok"
        PROVE  lines'[i].ip = name
    <3>1. CASE i = Len(lines')
      BY <1>3, <1>4, <2>1, <2>3, <3>1
    <3>2. CASE i \in 1 .. Len(lines)
      BY <1>4, <1>11, <2>3, <3>2 DEF Means
    <3> QED
      BY <1>4, <3>1, <3>2
  <2> QED
    BY <2>2, <2>3 DEF Means
<1>12. ASSUME NEW s \in Socket, LookupStage(s)
       PROVE  LookupStage(s)'
  <2>1. ASSUME NEW i \in 1 .. Len(lines), StartedAt(i, s)
        PROVE  StartedAt(i, s)'
    <3>1. lines'[i] = lines[i] /\ lines[i].id \in 1 .. MaxLookups /\ AckAt(i)'
      BY <1>i, <1>4, <1>9, <2>1, LineTyped DEF StartedAt
    <3>2. PICK k \in 1 .. MaxLookups : k = lines[i].id
      BY <3>1
    <3>3. Means(k, queue[s].name) /\ Known(k) /\ lines[i] = Line("started", k, None)
          /\ \A u \in Socket : proc1[u] # k
      BY <2>1, <3>2 DEF StartedAt
    <3>4. PICK name : name = queue[s].name
      OBVIOUS
    <3>5. Means(k, name)' /\ Known(k)'
      BY <1>10, <1>11, <3>3, <3>4
    <3>6. Means(k, queue[s].name)'
      BY <1>0, <3>4, <3>5 DEF Means
    <3> QED
      BY <1>0, <3>1, <3>2, <3>3, <3>5, <3>6 DEF StartedAt, Line
  <2>2. (\E i \in 1 .. Len(lines) : StartedAt(i, s)) => \E i \in 1 .. Len(lines') : StartedAt(i, s)'
    BY <1>4, <2>1
  <2> QED
    BY <1>0, <1>1, <1>8, <1>12, <2>2 DEF LookupStage
<1>13. ASSUME NEW s \in Socket, KillStage(s)
       PROVE  KillStage(s)'
  <2>1. ASSUME NEW i \in 1 .. Len(lines), KilledAt(i, proc1[s]), proc1[s] \in 1 .. MaxLookups
        PROVE  KilledAt(i, proc1[s])'
    <3>1. proc1[s] # id /\ proc2'[proc1[s]] = None
      BY <1>1, <1>5, <2>1 DEF KilledAt
    <3>2. \A j \in 1 .. Len(lines') : lines'[j].id = proc1[s] => j <= i
      BY <1>3, <1>4, <2>1, <3>1 DEF KilledAt
    <3>3. AckAt(i)' /\ lines'[i] = lines[i]
      BY <1>4, <1>9, <2>1 DEF KilledAt
    <3> QED
      BY <1>0, <2>1, <3>1, <3>2, <3>3 DEF KilledAt
  <2>2. proc1[s] \in 1 .. tick /\ proc1[s] \in 1 .. MaxLookups
    BY <1>i, <1>13 DEF KillStage, DnsTypeOK
  <2>3. (\E i \in 1 .. Len(lines) : KilledAt(i, proc1[s]))
            => \E i \in 1 .. Len(lines') : KilledAt(i, proc1[s])'
    BY <1>4, <2>1, <2>2
  <2> QED
    BY <1>0, <1>1, <1>8, <1>13, <2>2, <2>3 DEF KillStage
<1>14. Stage'
  <2>1. CASE waits = <<>>
    <3>1. NoCall
      BY <1>i, <2>1, NoneWaits
    <3> QED
      BY <1>0, <1>8, <3>1 DEF Stage, NoCall
  <2>2. CASE waits # <<>>
    <3>1. /\ Top \in Calls /\ Top.sock \in Socket
          /\ (Top.call = "lookup" => LookupStage(Top.sock))
          /\ (Top.call = "kill" => KillStage(Top.sock))
      BY <1>i, <2>2, OneCall
    <3>2. PICK s \in Socket : s = Top.sock
      BY <3>1
    <3>3. CASE Top.call = "lookup"
      BY <1>0, <1>12, <2>2, <3>1, <3>2, <3>3, LookupWaits
    <3>4. CASE Top.call = "kill"
      BY <1>0, <1>13, <2>2, <3>1, <3>2, <3>4, KillWaits
    <3> QED
      BY <3>1, <3>3, <3>4
  <2> QED
    BY <2>1, <2>2
<1>15. DnsTypeOK'
  BY <1>i, <1>0, <1>4, <1>5 DEF DnsTypeOK
<1>16. IdsOnce'
  <2>1. \A i \in 1 .. Len(lines') : lines'[i].id <= tick
    BY <1>i, <1>3, <1>4, <1>6 DEF Ids, IdsOnce
  <2>2. \A k \in 1 .. MaxLookups : k > tick => proc2'[k] = None
    BY <1>i, <1>5 DEF Ids, IdsOnce
  <2> QED
    BY <1>i, <1>0, <2>1, <2>2 DEF Ids, IdsOnce
<1>17. IdsMean'
  <2> SUFFICES ASSUME NEW u \in Socket, proc1[u] \notin {None, 0}
               PROVE  Means(proc1[u], queue[u].name)' /\ (Known(proc1[u])' \/ Waiting(u))
    BY <1>0 DEF IdsMean
  <2>1. PICK k \in 1 .. MaxLookups : k = proc1[u]
    BY <1>i DEF DnsTypeOK
  <2>2. PICK name : name = queue[u].name
    OBVIOUS
  <2>3. Means(k, name) /\ (Known(k) \/ Waiting(u))
    BY <1>i, <2>1, <2>2 DEF Ids, IdsMean
  <2>4. Means(k, name)' /\ (Known(k)' \/ Waiting(u))
    BY <1>10, <1>11, <2>3
  <2> QED
    BY <1>0, <2>1, <2>2, <2>4 DEF Means, Known
<1>18. AnswersOnce'
  <2> SUFFICES ASSUME NEW i \in 1 .. Len(lines'), IsAnswer(lines'[i])
               PROVE  /\ proc2'[lines'[i].id] = None
                      /\ \A j \in 1 .. Len(lines') :
                            IsAnswer(lines'[j]) /\ lines'[j].id = lines'[i].id => j = i
                      /\ \/ \E u \in Socket : proc1[u] = lines'[i].id
                         \/ \E j \in 1 .. Len(lines') : j < i /\ lines'[j] = Line("started", lines'[i].id, None)
    BY <1>0 DEF AnswersOnce, IsAnswer, Line
  <2>1. CASE i = Len(lines')
    <3>1. lines'[i].id = id
      BY <1>3, <1>4, <2>1
    <3>2. \A j \in 1 .. Len(lines') : IsAnswer(lines'[j]) /\ lines'[j].id = id => j = i
      BY <1>4, <1>7, <2>1
    <3>3. \/ \E u \in Socket : proc1[u] = id
          \/ \E j \in 1 .. Len(lines) : lines[j] = Line("started", id, None)
      BY <1>i, <1>1 DEF Ids, Wanted
    <3>4. \/ \E u \in Socket : proc1[u] = id
          \/ \E j \in 1 .. Len(lines') : j < i /\ lines'[j] = Line("started", id, None)
      BY <1>4, <2>1, <3>3
    <3> QED
      BY <1>5, <3>1, <3>2, <3>4
  <2>2. CASE i \in 1 .. Len(lines)
    <3>1. lines'[i] = lines[i] /\ lines[i].id \in 1 .. MaxLookups /\ lines[i].id # id
      BY <1>i, <1>4, <1>7, <2>2, LineTyped
    <3>2. proc2'[lines[i].id] = None
      BY <1>i, <1>5, <2>2, <3>1 DEF Ids, AnswersOnce
    <3>3. ASSUME NEW j \in 1 .. Len(lines'), IsAnswer(lines'[j]), lines'[j].id = lines[i].id
          PROVE  j = i
      <4>1. j \in 1 .. Len(lines) /\ lines'[j] = lines[j]
        BY <1>3, <1>4, <3>1, <3>3
      <4> QED
        BY <1>i, <2>2, <3>1, <3>3, <4>1 DEF Ids, AnswersOnce
    <3>4. \/ \E u \in Socket : proc1[u] = lines[i].id
          \/ \E j \in 1 .. Len(lines) : j < i /\ lines[j] = Line("started", lines[i].id, None)
      BY <1>i, <2>2, <3>1 DEF Ids, AnswersOnce
    <3>5. \/ \E u \in Socket : proc1[u] = lines[i].id
          \/ \E j \in 1 .. Len(lines') : j < i /\ lines'[j] = Line("started", lines[i].id, None)
      BY <1>4, <3>4
    <3> QED
      BY <3>1, <3>2, <3>3, <3>5
  <2> QED
    BY <1>4, <2>1, <2>2
<1>19. Wanted'
  <2> SUFFICES ASSUME NEW k \in 1 .. MaxLookups, proc2'[k] # None
               PROVE  \/ \E u \in Socket : proc1[u] = k
                      \/ \E j \in 1 .. Len(lines') : lines'[j] = Line("started", k, None)
    BY <1>0 DEF Wanted, Line
  <2>1. proc2[k] # None /\ helper # Dead
    BY <1>1, <1>5
  <2>2. \/ \E u \in Socket : proc1[u] = k
        \/ \E j \in 1 .. Len(lines) : lines[j] = Line("started", k, None)
    BY <1>i, <2>1 DEF Ids, Wanted
  <2> QED
    BY <1>4, <2>2
<1> QED
  BY <1>0, <1>14, <1>15, <1>16, <1>17, <1>18, <1>19 DEF IInv, Ids

(* gethostbyname returns in a child.                                       *)
LEMMA ChildReturns ==
    ASSUME IInv, NEW id \in 1 .. MaxLookups, Child(id)
    PROVE  IInv'
<1> USE DnsAssumption
<1>i. DnsTypeOK /\ Stage /\ Kept /\ Ids
  BY DEF IInv
<1>0. /\ UNCHANGED <<load, given, queue, proc1, waits, service>> /\ UNCHANGED <<netVars, oneVars>>
      /\ tick' = tick /\ cmds' = cmds /\ helper' = helper /\ lines' = lines
      /\ Kept' /\ RightAddress' /\ \A u \in Socket : Waiting(u)' <=> Waiting(u)
  BY BrowserKeeps DEF Child
<1>1. PICK l \in Lookup : l = proc2[id]
  BY <1>i DEF Child, DnsTypeOK
<1>2. PICK found \in {"ok", "failed"} : proc2' = [proc2 EXCEPT ![id].child = found]
  BY DEF Child
<1>3. [l EXCEPT !.child = found] = [host |-> l.host, child |-> found]
  BY DEF Lookup
<1>4. PICK m \in Lookup : m = [host |-> l.host, child |-> found]
  BY <1>2 DEF Lookup
<1>5. proc2' = [proc2 EXCEPT ![id] = m] /\ m # None /\ l # None /\ m.host = l.host
  BY <1>1, <1>2, <1>3, <1>4
<1>6. /\ proc2' \in [1 .. MaxLookups -> Lookup \cup {None}]
      /\ \A k \in 1 .. MaxLookups : /\ proc2'[k] = None <=> proc2[k] = None
                                    /\ proc2[k] # None => proc2'[k].host = proc2[k].host
  BY <1>i, <1>1, <1>5 DEF DnsTypeOK
<1>7. Ids' /\ (NoAck => NoAck')
  BY <1>0, <1>6, ChildGoesOn
<1>8. ASSUME NEW s \in Socket, LookupStage(s)
      PROVE  LookupStage(s)'
  <2>1. ASSUME NEW i \in 1 .. Len(lines), StartedAt(i, s)
        PROVE  StartedAt(i, s)'
    <3>1. lines[i].id \in 1 .. MaxLookups
      BY <1>i, LineTyped
    <3>2. Means(lines[i].id, queue[s].name)'
      BY <1>0, <1>6, <2>1, <3>1 DEF StartedAt, Means
    <3>3. Known(lines[i].id)'
      BY <1>0, <1>6, <2>1, <3>1 DEF StartedAt, Known, IsAnswer
    <3> QED
      BY <1>0, <2>1, <3>2, <3>3 DEF StartedAt, AckAt, IsAnswer, Line
  <2>2. \A i \in 1 .. Len(lines) : AckAt(i) => AckAt(i)'
    BY <1>0 DEF AckAt, IsAnswer
  <2> QED
    BY <1>0, <1>7, <1>8, <2>1, <2>2 DEF LookupStage
<1>9. ASSUME NEW s \in Socket, KillStage(s)
      PROVE  KillStage(s)'
  <2>1. proc1[s] \in 1 .. tick /\ proc1[s] \in 1 .. MaxLookups
    BY <1>i, <1>9 DEF KillStage, DnsTypeOK
  <2>2. ASSUME NEW i \in 1 .. Len(lines), KilledAt(i, proc1[s])
        PROVE  KilledAt(i, proc1[s])'
    BY <1>0, <1>6, <2>1, <2>2 DEF KilledAt, AckAt, IsAnswer
  <2> QED
    BY <1>0, <1>6, <1>7, <1>9, <2>1, <2>2 DEF KillStage
<1>10. Stage'
  <2>1. CASE waits = <<>>
    <3>1. NoCall
      BY <1>i, <2>1, NoneWaits
    <3> QED
      BY <1>0, <1>7, <3>1 DEF Stage, NoCall
  <2>2. CASE waits # <<>>
    <3>1. /\ Top \in Calls /\ Top.sock \in Socket
          /\ (Top.call = "lookup" => LookupStage(Top.sock))
          /\ (Top.call = "kill" => KillStage(Top.sock))
      BY <1>i, <2>2, OneCall
    <3>2. PICK s \in Socket : s = Top.sock
      BY <3>1
    <3>3. CASE Top.call = "lookup"
      BY <1>0, <1>8, <2>2, <3>1, <3>2, <3>3, LookupWaits
    <3>4. CASE Top.call = "kill"
      BY <1>0, <1>9, <2>2, <3>1, <3>2, <3>4, KillWaits
    <3> QED
      BY <3>1, <3>3, <3>4
  <2> QED
    BY <2>1, <2>2
<1>11. DnsTypeOK'
  BY <1>i, <1>0, <1>6 DEF DnsTypeOK
<1> QED
  BY <1>0, <1>7, <1>10, <1>11 DEF IInv
-----------------------------------------------------------------------------
(* The helper dies: what is in the pipe to it is lost, what it wrote is    *)
(* still read.                                                             *)
LEMMA Dying ==
    ASSUME IInv, HelperDies
    PROVE  IInv'
<1> USE DnsAssumption
<1>i. DnsTypeOK /\ Stage /\ Kept /\ Ids /\ RightAddress
  BY DEF IInv
<1>0. /\ UNCHANGED <<load, given, queue, proc1, waits, service, lines, proc2, tick>>
      /\ UNCHANGED <<netVars, oneVars>> /\ helper' = Dead /\ cmds' = <<>>
  BY DEF HelperDies, netVars, oneVars
<1>1. Kept' /\ RightAddress' /\ \A s \in Socket : Waiting(s)' <=> Waiting(s)
  BY <1>0, BrowserKeeps
<1>2. DnsTypeOK'
  BY <1>i, <1>0 DEF DnsTypeOK
<1>3. Ids'
  BY <1>i, <1>0, <1>1
     DEF Ids, IdsOnce, IdsMean, AnswersOnce, Wanted, Means, Known, IsAnswer, Line
<1>4. Stage'
  <2>1. CASE waits = <<>>
    BY <1>i, <1>0, <2>1, NoneWaits DEF Stage, NoCall, NoAck, IsAnswer
  <2>2. CASE waits # <<>>
    <3>a. /\ Top.sock \in Socket /\ Top.call \in {"lookup", "kill"}
          /\ (Top.call = "lookup" => LookupStage(Top.sock))
          /\ (Top.call = "kill" => KillStage(Top.sock))
      BY <1>i, <2>2, OneCall
    <3>b. PICK s \in Socket : s = Top.sock
      BY <3>a
    <3>1. CASE Top.call = "lookup"
      <4>1. LookupStage(s)
        BY <3>a, <3>b, <3>1
      <4>2. LookupStage(s)'
        BY <1>0, <4>1 DEF LookupStage, NoAck, AckAt, StartedAt, Means, Known, IsAnswer, Line
      <4> QED
        BY <1>0, <2>2, <3>b, <3>1, <4>2, LookupWaits
    <3>2. CASE Top.call = "kill"
      <4>1. KillStage(s)
        BY <3>a, <3>b, <3>2
      <4>2. KillStage(s)'
        BY <1>0, <4>1 DEF KillStage, NoAck, AckAt, KilledAt, IsAnswer
      <4> QED
        BY <1>0, <2>2, <3>b, <3>2, <4>2, KillWaits
    <3> QED
      BY <3>a, <3>1, <3>2
  <2> QED
    BY <2>1, <2>2
<1> QED
  BY <1>1, <1>2, <1>3, <1>4 DEF IInv

(* The invariant is inductive.                                             *)
LEMMA Beginning == Init => IInv
<1> USE DnsAssumption
<1> SUFFICES ASSUME Init PROVE IInv
  OBVIOUS
<1>1. DnsTypeOK
  BY DEF Init, DnsTypeOK
<1>2. Stage
  BY DEF Init, Stage, NoCall, NoAck
<1>3. Kept /\ RightAddress
  BY DEF Init, Kept, RightAddress
<1>4. IdsOnce
  BY DEF Init, IdsOnce
<1>5. IdsMean /\ AnswersOnce
  BY DEF Init, IdsMean, AnswersOnce
<1>6. Wanted
  BY DEF Init, Wanted
<1> QED
  BY <1>1, <1>2, <1>3, <1>4, <1>5, <1>6 DEF IInv, Ids

(* A step that changes nothing.                                            *)
LEMMA Stuttering == IInv /\ UNCHANGED vars => IInv'
<1> SUFFICES ASSUME IInv, UNCHANGED vars PROVE IInv'
  OBVIOUS
<1>0. UNCHANGED <<load, given, queue, proc1, waits, service, cmds, lines, proc2, tick, helper>>
  BY DEF vars, netVars, oneVars, twoVars
<1>1. Stage'
  <2>1. /\ NoAck' <=> NoAck
        /\ \A i : AckAt(i)' <=> AckAt(i)
    BY <1>0 DEF NoAck, AckAt, IsAnswer
  <2>2. \A id, name : (Means(id, name)' <=> Means(id, name)) /\ (Known(id)' <=> Known(id))
    BY <1>0 DEF Means, Known, IsAnswer
  <2>3. ASSUME NEW s PROVE LookupStage(s) => LookupStage(s)'
    <3>1. \A i : StartedAt(i, s) => StartedAt(i, s)'
      BY <1>0, <2>1, <2>2 DEF StartedAt, Line
    <3> QED
      BY <1>0, <2>1, <3>1 DEF LookupStage
  <2>4. ASSUME NEW s PROVE KillStage(s) => KillStage(s)'
    <3>1. \A i, id : KilledAt(i, id) => KilledAt(i, id)'
      BY <1>0, <2>1 DEF KilledAt
    <3> QED
      BY <1>0, <2>1, <3>1 DEF KillStage
  <2>5. CASE NoCall
    BY <1>0, <2>1, <2>5 DEF Stage, NoCall
  <2>6. CASE InCall
    BY <1>0, <2>3, <2>4, <2>6 DEF Stage, InCall
  <2> QED
    BY <2>5, <2>6 DEF IInv, Stage
<1>2. DnsTypeOK' /\ RightAddress'
  BY <1>0 DEF IInv, DnsTypeOK, RightAddress
<1>3. Kept'
  BY <1>0 DEF IInv, Kept, Waiting
<1>4. Ids'
  <2>1. \A s \in Socket : \/ proc1'[s] = proc1[s] /\ (proc1[s] # None => queue'[s] = queue[s])
                          \/ proc1[s] = None /\ proc1'[s] = 0
    BY <1>0
  <2>2. \A s \in Socket : Waiting(s) => Waiting(s)'
    BY <1>0 DEF Waiting
  <2> QED
    BY <1>0, <2>1, <2>2, Quiet
<1> QED
  BY <1>1, <1>2, <1>3, <1>4 DEF IInv

(* The invariant holds until the first nested call.                        *)
LEMMA Invariant == Spec /\ []Unnested => []IInv
<1>1. IInv /\ [Next]_vars /\ Unnested' => IInv'
  <2> SUFFICES ASSUME IInv, Next, Unnested' PROVE IInv'
    BY Stuttering
  <2>1. CASE Netlib
    BY <2>1, Starting, Clearing DEF Netlib
  <2>2. CASE Browser
    BY <2>2, ReadingLookup, ReadingKill, Serving, Returning DEF Browser
  <2>3. CASE Helper
    BY <2>3, Spawning, Cancelling, WaitingFor DEF Helper
  <2>4. CASE \E id \in 1 .. MaxLookups : SubprocResponse(id) \/ Child(id)
    BY <2>4, Responding, ChildReturns
  <2>5. CASE HelperDies
    BY <2>5, Dying
  <2> QED
    BY <2>1, <2>2, <2>3, <2>4, <2>5 DEF Next
<1> QED
  BY <1>1, Beginning, PTL DEF Spec
-----------------------------------------------------------------------------
(* The acknowledgements in the pipe are those the stage of the call allows.*)
LEMMA AtMostOne == IInv => OneAck
<1> SUFFICES ASSUME IInv PROVE OneAck
  OBVIOUS
<1> USE DnsAssumption
<1>i. DnsTypeOK /\ Stage
  BY DEF IInv
<1> DEFINE Starts == {"started", "notStarted"}
           Kills == {"killed", "killFailed"}
<1>1. \A i \in Acks(Starts) \cup Acks(Kills) : i \in 1 .. Len(lines) /\ ~IsAnswer(lines[i])
  <2>1. DOMAIN lines = 1 .. Len(lines)
    BY <1>i DEF DnsTypeOK
  <2> QED
    BY <2>1 DEF Acks, IsAnswer
<1>2. NoAck => Acks(Starts) = {} /\ Acks(Kills) = {}
  BY <1>1 DEF NoAck
<1>3. \A i : AckAt(i) => \A j \in Acks(Starts) \cup Acks(Kills) : j = i
  BY <1>1 DEF AckAt
<1>4. Cardinality({}) = 0 /\ \A x : Cardinality({x}) = 1
  BY FS_EmptySet, FS_Singleton
<1>5. (NoAck \/ \E i : AckAt(i)) => Cardinality(Acks(Starts)) <= 1
  <2>1. CASE NoAck
    BY <1>2, <1>4, <2>1
  <2>2. ASSUME NEW i, AckAt(i)
        PROVE  Cardinality(Acks(Starts)) <= 1
    <3>1. PICK A : A = Acks(Starts)
      OBVIOUS
    <3>2. A = {} \/ A = {i}
      BY <1>3, <2>2, <3>1
    <3>3. Cardinality(A) <= 1
      <4>1. Cardinality({i}) = 1 /\ Cardinality({}) = 0
        BY <1>4
      <4>2. CASE A = {}
        BY <4>1, <4>2
      <4>3. CASE A = {i}
        BY <4>1, <4>3
      <4> QED
        BY <3>2, <4>2, <4>3
    <3> QED
      BY <3>1, <3>3
  <2> QED
    BY <2>1, <2>2
<1>6. CASE waits = <<>>
  <2>1. NoAck
    BY <1>i, <1>6, NoneWaits DEF NoCall
  <2> QED
    BY <1>2, <1>5, <2>1 DEF OneAck
<1>7. CASE waits # <<>>
  <2>1. /\ Top \in Calls /\ Top.sock \in Socket
        /\ (Top.call = "lookup" => LookupStage(Top.sock))
        /\ (Top.call = "kill" => KillStage(Top.sock))
    BY <1>i, <1>7, OneCall
  <2>2. CASE Top.call = "lookup"
    <3>1. NoAck \/ \E i : AckAt(i) /\ lines[i].code \in Starts
      <4>1. ASSUME NEW i \in 1 .. Len(lines), StartedAt(i, Top.sock)
            PROVE  AckAt(i) /\ lines[i].code \in Starts
        BY <4>1 DEF StartedAt, Line
      <4> QED
        BY <2>1, <2>2, <4>1 DEF LookupStage
    <3>2. Acks(Kills) = {}
      <4>1. CASE NoAck
        BY <1>2, <4>1
      <4>2. ASSUME NEW i, AckAt(i), lines[i].code \in Starts
            PROVE  Acks(Kills) = {}
        BY <1>3, <4>2 DEF Acks
      <4> QED
        BY <3>1, <4>1, <4>2
    <3>3. NoAck \/ \E i : AckAt(i)
      BY <3>1
    <3> QED
      BY <1>5, <1>7, <2>2, <3>2, <3>3 DEF OneAck
  <2>3. CASE Top.call = "kill"
    <3>1. NoAck \/ \E i \in 1 .. Len(lines) : KilledAt(i, proc1[Top.sock])
      BY <2>1, <2>3 DEF KillStage
    <3>2. NoAck \/ \E i : AckAt(i)
      BY <3>1 DEF KilledAt
    <3>3. Acks(Starts) = {} /\ \A i \in Acks(Kills) : lines[i].id = proc1[Top.sock]
      <4>1. CASE NoAck
        BY <1>2, <4>1
      <4>2. ASSUME NEW i \in 1 .. Len(lines), KilledAt(i, proc1[Top.sock])
            PROVE  Acks(Starts) = {} /\ \A j \in Acks(Kills) : lines[j].id = proc1[Top.sock]
        <5>1. AckAt(i) /\ lines[i].code \notin Starts /\ lines[i].id = proc1[Top.sock]
          BY <4>2 DEF KilledAt
        <5> QED
          BY <1>3, <5>1 DEF Acks
      <4> QED
        BY <3>1, <4>1, <4>2
    <3> QED
      BY <1>5, <1>7, <2>3, <3>2, <3>3 DEF OneAck
  <2> QED
    BY <2>1, <2>2, <2>3
<1> QED
  BY <1>6, <1>7

(* Known, which says that there is one, and AnswersOnce make it exactly one.*)
LEMMA Agreement == IInv => DnsInv
<1> SUFFICES ASSUME IInv PROVE DnsInv
  OBVIOUS
<1> USE DnsAssumption
<1>i. DnsTypeOK /\ Kept /\ Ids
  BY DEF IInv
<1>1. DOMAIN lines = 1 .. Len(lines) /\ Len(lines) \in Nat
  BY <1>i DEF DnsTypeOK
<1>2. Cardinality({}) = 0 /\ \A x : Cardinality({x}) = 1
  BY FS_EmptySet, FS_Singleton
<1>3. ASSUME NEW s \in Socket, proc1[s] \notin {None, 0}, ~Waiting(s)
      PROVE  Cardinality(AnswersFor(proc1[s])) = IF proc2[proc1[s]] = None THEN 1 ELSE 0
  <2>1. Known(proc1[s])
    BY <1>i, <1>3 DEF Ids, IdsMean
  <2>2. CASE proc2[proc1[s]] # None
    <3>1. AnswersFor(proc1[s]) = {}
      BY <1>i, <1>1, <2>2 DEF Ids, AnswersOnce, AnswersFor
    <3> QED
      BY <1>2, <2>2, <3>1
  <2>3. CASE proc2[proc1[s]] = None
    <3>1. PICK i \in 1 .. Len(lines) : IsAnswer(lines[i]) /\ lines[i].id = proc1[s]
      BY <2>1, <2>3 DEF Known
    <3>2. AnswersFor(proc1[s]) = {i}
      BY <1>i, <1>1, <3>1 DEF Ids, AnswersOnce, AnswersFor
    <3> QED
      BY <1>2, <2>3, <3>2
  <2> QED
    BY <2>2, <2>3
<1>4. ASSUME NEW i \in 1 .. Len(lines), IsAnswer(lines[i])
      PROVE  \/ Asker(lines[i]) # {}
             \/ \E j \in 1 .. i - 1 : lines[j] = Line("started", lines[i].id, None)
  <2>1. lines[i].id \in 1 .. MaxLookups
    BY <1>i, LineTyped
  <2>2. \/ \E s \in Socket : proc1[s] = lines[i].id
        \/ \E j \in 1 .. Len(lines) : j < i /\ lines[j] = Line("started", lines[i].id, None)
    BY <1>i, <1>4 DEF Ids, AnswersOnce
  <2>3. (\E s \in Socket : proc1[s] = lines[i].id) => Asker(lines[i]) # {}
    BY <2>1 DEF Asker
  <2>4. ASSUME NEW j \in 1 .. Len(lines), j < i
        PROVE  j \in 1 .. i - 1
    BY <1>1, <2>4
  <2> QED
    BY <2>2, <2>3, <2>4
<1>5. \A s \in Socket : proc1[s] # None => queue[s] # None
  BY <1>i DEF Kept
<1> QED
  BY <1>i, <1>1, <1>3, <1>4, <1>5 DEF DnsInv, QueuesAgree
-----------------------------------------------------------------------------
(* Until a callback makes a call inside another's wait (a behaviour may    *)
(* stop at any state, so []Unnested says no more than that),               *)
(* DNS_AsyncLookupHost and DNS_AbortHostLookup find one acknowledgement in *)
(* the pipe at most, and it is theirs.                                     *)
THEOREM Acknowledging == Spec /\ []Unnested => []OneAck
<1>1. IInv => OneAck
  BY AtMostOne
<1> QED
  BY <1>1, Invariant, PTL

(* Until then, a lookup that the browser waits for is with a child of the  *)
(* helper or answered once, and no answer comes that nobody waits for.     *)
THEOREM QueuesCorrect == Spec /\ []Unnested => []DnsInv
<1>1. IInv => DnsInv
  BY Agreement
<1> QED
  BY <1>1, Invariant, PTL

(* Until then, an address is given to the load that asked for its host.    *)
THEOREM AddressCorrect == Spec /\ []Unnested => []RightAddress
<1>1. IInv => RightAddress
  BY DEF IInv
<1> QED
  BY <1>1, Invariant, PTL
=============================================================================
