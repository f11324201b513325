-------------------------- MODULE JavaStreamProofs --------------------------
(***************************************************************************)
(* StreamInv of JavaStream for any number of Java threads, any block size, *)
(* and any sizes of reads and writes.  What goes wrong between two steps   *)
(* of the code that are not in the monitor is excluded by relations        *)
(* between how far Java, netlib and the finalizer are:                     *)
(*   Agree: the states that each stage of netlib may find;                 *)
(*   OneOpener: only one thread gets as far as asking netlib, once;        *)
(*   Counted: what refcount may be, decrements that get lost included.     *)
(***************************************************************************)
EXTENDS JavaStream, LinksProofs

OpenerOnly == {"closeOutput", "open", "getURL", "gotURL", "opening", "opened"}

(* Which states netlib may find at each of its stages.                     *)
Agree ==
    /\ net = "none" => state \in {"OPENING", "POSTING", "JAVA_DONE"}
    /\ net \in {"asked", "making"} => state \in {"OPENING", "JAVA_DONE"}
    /\ net \in {"open", "aborting"} => state \in {"OPENED", "JAVA_DONE"}
    /\ net = "over" => state \in {"OPENING", "OPENED", "JAVA_DONE"}
    /\ net \in {"exiting", "gone"} => state \in {"LIBNET_DONE", "CLOSED"}
    /\ url = IF state = "CLOSED" THEN 1 ELSE 0

(* Who may still begin to open the stream, and that it is not open then.   *)
OneOpener ==
    /\ \A t \in Java : pc[t] \in OpenerOnly => t = Opener
    /\ ~connected /\ state \in {"OPENING", "POSTING"} =>
         net = "none" /\ pc[Opener] \notin OpenerOnly
    /\ pc[Opener] \in {"closeOutput", "open"} /\ state \in {"OPENING", "POSTING"} =>
         net = "none"
    /\ pc[Opener] = "getURL" => net = "none" /\ state # "POSTING"
    /\ pc[Opener] = "opened" => state \notin {"OPENING", "POSTING"}

(* The reference count, while either side decrements it outside the        *)
(* monitor.                                                                *)
Counted ==
    /\ garbage # "done" /\ net # "gone" => refcount = 2
    /\ garbage = "done" /\ net # "gone" => refcount = 1
    /\ garbage # "done" /\ net = "gone" => refcount = 1
    /\ garbage = "done" /\ net = "gone" => refcount \in {0, 1}
    /\ garbage = "loaded" => javaCount \in {1, 2} /\ (javaCount = 1 => net = "gone")
    /\ net = "exiting" => netCount \in {1, 2} /\ (netCount = 1 => garbage = "done")
    /\ freed = IF refcount = 0 THEN 1 ELSE 0

IInv == StreamTypeOK /\ Agree /\ OneOpener /\ Counted

-----------------------------------------------------------------------------
(* The invariant says all that StreamInv says.                             *)
LEMMA Implied == IInv => StreamInv
  BY StreamAssumption
     DEF IInv, StreamInv, Agree, OneOpener, Counted, OpenerOnly, UrlKept, DataKept,
         StatesExpected, StreamTypeOK

(* A connection begins with both users and before anything is opened.      *)
LEMMA Begin == Init => IInv
<1> SUFFICES ASSUME Init PROVE IInv
  OBVIOUS
<1>1. StreamTypeOK
  BY DEF Init, StreamTypeOK, Users
<1>2. Agree
  BY DEF Init, Agree
<1>3. OneOpener
  BY StreamAssumption DEF Init, OneOpener, OpenerOnly
<1>4. Counted
  BY DEF Init, Counted, Users
<1> QED
  BY <1>1, <1>2, <1>3, <1>4 DEF IInv

(* The steps by which a thread posts and opens the stream.  Only Opener    *)
(* makes them, and while the stream is opening or posting netlib has not   *)
(* been asked yet.                                                         *)
LEMMA OpeningSteps ==
  ASSUME IInv, NEW t \in Java,
         OutputOpen(t) \/ OutputClose(t) \/ ConnectCloseOutput(t) \/ Connect(t)
           \/ Open(t) \/ GetURL(t) \/ GotURL(t) \/ Opened(t)
           \/ (\E n \in PostSizes : OutputWrite(t, n))
  PROVE  IInv'
<1> USE StreamAssumption DEF IInv, vars, dataVars, javaVars, netVars, history
<1>1. CASE OutputOpen(t)
  <2>1. StreamTypeOK'
    BY <1>1 DEF OutputOpen, Calls, MonitorFree, StreamTypeOK
  <2>2. Agree'
    BY <1>1 DEF OutputOpen, Calls, MonitorFree, StreamTypeOK, Agree, OneOpener,
               OpenerOnly
  <2>3. OneOpener'
    BY <1>1 DEF OutputOpen, Calls, MonitorFree, StreamTypeOK, Agree, OneOpener,
               OpenerOnly
  <2>4. Counted'
    BY <1>1 DEF OutputOpen, Calls, MonitorFree, StreamTypeOK, Agree, Counted
  <2> QED
    BY <2>1, <2>2, <2>3, <2>4 DEF IInv
<1>2. CASE \E n \in PostSizes : OutputWrite(t, n)
  <2>1. StreamTypeOK'
    BY <1>2 DEF OutputWrite, Calls, MonitorFree, StreamTypeOK
  <2>2. Agree'
    BY <1>2 DEF OutputWrite, Calls, MonitorFree, StreamTypeOK, Agree
  <2>3. OneOpener'
    BY <1>2 DEF OutputWrite, Calls, MonitorFree, StreamTypeOK, Agree, OneOpener,
               OpenerOnly
  <2>4. Counted'
    BY <1>2 DEF OutputWrite, Calls, MonitorFree, StreamTypeOK, Agree, Counted
  <2> QED
    BY <2>1, <2>2, <2>3, <2>4 DEF IInv
<1>3. CASE OutputClose(t)
  <2>1. StreamTypeOK'
    BY <1>3 DEF OutputClose, PClose, GoTo, Calls, MonitorFree, StreamTypeOK
  <2>2. Agree'
    BY <1>3 DEF OutputClose, PClose, GoTo, Calls, MonitorFree, StreamTypeOK,
               Agree, OneOpener, OpenerOnly
  <2>3. OneOpener'
    BY <1>3 DEF OutputClose, PClose, GoTo, Calls, MonitorFree, StreamTypeOK,
               Agree, OneOpener, OpenerOnly
  <2>4. Counted'
    BY <1>3 DEF OutputClose, PClose, GoTo, Calls, MonitorFree, StreamTypeOK,
               Agree, Counted
  <2> QED
    BY <2>1, <2>2, <2>3, <2>4 DEF IInv
<1>4. CASE Connect(t)
  <2>1. StreamTypeOK'
    BY <1>4 DEF Connect, GoTo, Calls, MonitorFree, StreamTypeOK
  <2>2. Agree'
    BY <1>4 DEF Connect, GoTo, Calls, MonitorFree, StreamTypeOK, Agree
  <2>3. OneOpener'
    BY <1>4 DEF Connect, GoTo, Calls, MonitorFree, StreamTypeOK, Agree,
               OneOpener, OpenerOnly
  <2>4. Counted'
    BY <1>4 DEF Connect, GoTo, Calls, MonitorFree, StreamTypeOK, Agree, Counted
  <2> QED
    BY <2>1, <2>2, <2>3, <2>4 DEF IInv
<1>5. CASE ConnectCloseOutput(t)
  <2>1. StreamTypeOK'
    <3>1. /\ state' \in {state, "OPENING"} /\ output' \in BOOLEAN
          /\ pc' \in {[pc EXCEPT ![t] = "open"], [pc EXCEPT ![t] = "java"]}
      BY <1>5 DEF ConnectCloseOutput, PClose, GoTo, StreamTypeOK
    <3>2. UNCHANGED <<refcount, errorStatus, freed, url, connected, garbage, net, failed,
                      javaCount, netCount>>
      BY <1>5 DEF ConnectCloseOutput, netVars
    <3> QED BY <3>1, <3>2 DEF StreamTypeOK
  <2>2. Agree'
    BY <1>5 DEF ConnectCloseOutput, PClose, GoTo, MonitorFree, StreamTypeOK,
               Agree, OneOpener, OpenerOnly
  <2>3. OneOpener'
    BY <1>5 DEF ConnectCloseOutput, PClose, GoTo, MonitorFree, StreamTypeOK,
               Agree, OneOpener, OpenerOnly
  <2>4. Counted'
    BY <1>5 DEF ConnectCloseOutput, PClose, GoTo, MonitorFree, StreamTypeOK,
               Agree, Counted
  <2> QED
    BY <2>1, <2>2, <2>3, <2>4 DEF IInv
<1>6. CASE Open(t)
  <2>1. StreamTypeOK'
    BY <1>6 DEF Open, Opens, GoTo, MonitorFree, StreamTypeOK
  <2>2. Agree'
    BY <1>6 DEF Open, Opens, GoTo, MonitorFree, StreamTypeOK, Agree
  <2>3. OneOpener'
    BY <1>6 DEF Open, Opens, GoTo, MonitorFree, StreamTypeOK, Agree, OneOpener,
               OpenerOnly
  <2>4. Counted'
    BY <1>6 DEF Open, Opens, GoTo, MonitorFree, StreamTypeOK, Agree, Counted
  <2> QED
    BY <2>1, <2>2, <2>3, <2>4 DEF IInv
<1>7. CASE GetURL(t)
  <2>1. StreamTypeOK'
    BY <1>7 DEF GetURL, GoTo, MonitorFree, StreamTypeOK
  <2>2. Agree'
    BY <1>7 DEF GetURL, GoTo, MonitorFree, StreamTypeOK, Agree, OneOpener,
               OpenerOnly
  <2>3. OneOpener'
    BY <1>7 DEF GetURL, GoTo, MonitorFree, StreamTypeOK, Agree, OneOpener,
               OpenerOnly
  <2>4. Counted'
    BY <1>7 DEF GetURL, GoTo, MonitorFree, StreamTypeOK, Agree, Counted,
               OneOpener, OpenerOnly
  <2> QED
    BY <2>1, <2>2, <2>3, <2>4 DEF IInv
<1>8. CASE GotURL(t)
  <2>1. StreamTypeOK'
    BY <1>8 DEF GotURL, GoTo, MonitorFree, StreamTypeOK
  <2>2. Agree'
    BY <1>8 DEF GotURL, GoTo, MonitorFree, StreamTypeOK, Agree
  <2>3. OneOpener'
    BY <1>8 DEF GotURL, GoTo, MonitorFree, StreamTypeOK, Agree, OneOpener,
               OpenerOnly
  <2>4. Counted'
    BY <1>8 DEF GotURL, GoTo, MonitorFree, StreamTypeOK, Agree, Counted
  <2> QED
    BY <2>1, <2>2, <2>3, <2>4 DEF IInv
<1>9. CASE Opened(t)
  <2>1. StreamTypeOK'
    BY <1>9 DEF Opened, GoTo, MonitorFree, StreamTypeOK
  <2>2. Agree'
    BY <1>9 DEF Opened, GoTo, MonitorFree, StreamTypeOK, Agree
  <2>3. OneOpener'
    BY <1>9 DEF Opened, GoTo, MonitorFree, StreamTypeOK, Agree, OneOpener,
               OpenerOnly
  <2>4. Counted'
    BY <1>9 DEF Opened, GoTo, MonitorFree, StreamTypeOK, Agree, Counted
  <2> QED
    BY <2>1, <2>2, <2>3, <2>4 DEF IInv
<1> QED
  BY <1>1, <1>2, <1>3, <1>4, <1>5, <1>6, <1>7, <1>8, <1>9

(* Reading, and being stopped in a wait, leave what both sides decide by.  *)
LEMMA ReadingSteps ==
  ASSUME IInv, NEW t \in Java, Stop(t) \/ (\E n \in ReadSizes : Read(t, n))
  PROVE  IInv'
<1> USE StreamAssumption DEF IInv, vars, dataVars, javaVars, netVars, history
<1>1. CASE Stop(t)
  <2>1. StreamTypeOK'
    BY <1>1 DEF Stop, GoTo, MonitorFree, StreamTypeOK
  <2>2. Agree'
    BY <1>1 DEF Stop, GoTo, MonitorFree, StreamTypeOK, Agree
  <2>3. OneOpener'
    BY <1>1 DEF Stop, GoTo, MonitorFree, StreamTypeOK, Agree, OneOpener,
               OpenerOnly
  <2>4. Counted'
    BY <1>1 DEF Stop, GoTo, MonitorFree, StreamTypeOK, Agree, Counted
  <2> QED
    BY <2>1, <2>2, <2>3, <2>4 DEF IInv
<1>2. CASE \E n \in ReadSizes : Read(t, n)
  <2>1. StreamTypeOK'
    BY <1>2 DEF Read, Calls, GoTo, MonitorFree, StreamTypeOK
  <2>2. Agree'
    BY <1>2 DEF Read, Calls, GoTo, MonitorFree, StreamTypeOK, Agree
  <2>3. OneOpener'
    BY <1>2 DEF Read, Calls, GoTo, MonitorFree, StreamTypeOK, Agree, OneOpener,
               OpenerOnly
  <2>4. Counted'
    BY <1>2 DEF Read, Calls, GoTo, MonitorFree, StreamTypeOK, Agree, Counted
  <2> QED
    BY <2>1, <2>2, <2>3, <2>4 DEF IInv
<1> QED
  BY <1>1, <1>2

(* Closing by a thread, with the window, or by the finalizer.              *)
LEMMA ClosingSteps ==
  ASSUME IInv, (\E t \in Java : Close(t)) \/ CloseJavaConnection \/ Finalize
           \/ FinalizeLoad \/ FinalizeStore
  PROVE  IInv'
<1> USE StreamAssumption DEF IInv, vars, dataVars, javaVars, netVars, history
<1>1. CASE \E t \in Java : Close(t)
  <2> PICK t \in Java : Close(t)
    BY <1>1
  <2> USE DEF Close, JavaClose
  <2>1. StreamTypeOK'
    <3>1. state' \in {"OPENING", "POSTING", "OPENED", "JAVA_DONE", "LIBNET_DONE", "CLOSED"}
      BY DEF JavaClosed, StreamTypeOK
    <3>2. url' \in Nat
      BY DEF StreamTypeOK
    <3> QED
      BY <3>1, <3>2 DEF StreamTypeOK
  <2>2. Agree'
    BY <1>1 DEF Close, Calls, MonitorFree, JavaClose, JavaClosed, StreamTypeOK,
               Agree
  <2>3. OneOpener'
    BY <1>1 DEF Close, Calls, MonitorFree, JavaClose, JavaClosed, StreamTypeOK,
               Agree, OneOpener, OpenerOnly
  <2>4. Counted'
    BY <1>1 DEF Close, Calls, MonitorFree, JavaClose, JavaClosed, StreamTypeOK,
               Agree, Counted
  <2> QED
    BY <2>1, <2>2, <2>3, <2>4 DEF IInv
<1>2. CASE CloseJavaConnection
  <2>1. StreamTypeOK'
    BY <1>2 DEF CloseJavaConnection, MonitorFree, JavaClose, JavaClosed,
               StreamTypeOK
  <2>2. Agree'
    BY <1>2 DEF CloseJavaConnection, MonitorFree, JavaClose, JavaClosed,
               StreamTypeOK, Agree
  <2>3. OneOpener'
    BY <1>2 DEF CloseJavaConnection, MonitorFree, JavaClose, JavaClosed,
               StreamTypeOK, Agree, OneOpener, OpenerOnly
  <2>4. Counted'
    BY <1>2 DEF CloseJavaConnection, MonitorFree, JavaClose, JavaClosed,
               StreamTypeOK, Agree, Counted
  <2> QED
    BY <2>1, <2>2, <2>3, <2>4 DEF IInv
<1>3. CASE Finalize
  <2>1. StreamTypeOK'
    BY <1>3 DEF Finalize, MonitorFree, JavaClose, JavaClosed, StreamTypeOK
  <2>2. Agree'
    BY <1>3 DEF Finalize, MonitorFree, JavaClose, JavaClosed, StreamTypeOK,
               Agree
  <2>3. OneOpener'
    BY <1>3 DEF Finalize, MonitorFree, JavaClose, JavaClosed, StreamTypeOK,
               Agree, OneOpener, OpenerOnly
  <2>4. Counted'
    BY <1>3 DEF Finalize, MonitorFree, JavaClose, JavaClosed, StreamTypeOK,
               Agree, Counted
  <2> QED
    BY <2>1, <2>2, <2>3, <2>4 DEF IInv
<1>4. CASE FinalizeLoad
  <2>1. StreamTypeOK'
    BY <1>4 DEF FinalizeLoad, StreamTypeOK
  <2>2. Agree'
    BY <1>4 DEF FinalizeLoad, StreamTypeOK, Agree
  <2>3. OneOpener'
    BY <1>4 DEF FinalizeLoad, StreamTypeOK, Agree, OneOpener, OpenerOnly
  <2>4. Counted'
    BY <1>4 DEF FinalizeLoad, StreamTypeOK, Agree, Counted
  <2> QED
    BY <2>1, <2>2, <2>3, <2>4 DEF IInv
<1>5. CASE FinalizeStore
  <2>1. StreamTypeOK'
    BY <1>5 DEF FinalizeStore, StreamTypeOK, Agree, Counted
  <2>2. Agree'
    BY <1>5 DEF FinalizeStore, StreamTypeOK, Agree
  <2>3. OneOpener'
    BY <1>5 DEF FinalizeStore, StreamTypeOK, Agree, OneOpener, OpenerOnly
  <2>4. Counted'
    BY <1>5 DEF FinalizeStore, StreamTypeOK, Agree, Counted
  <2> QED
    BY <2>1, <2>2, <2>3, <2>4 DEF IInv
<1> QED
  BY <1>1, <1>2, <1>3, <1>4, <1>5

(* The steps of netlib, from the first look at the state to the exit       *)
(* routine, which holds the monitor between two of them.                   *)
LEMMA NetSteps ==
  ASSUME IInv, NetStep
  PROVE  IInv'
<1> USE StreamAssumption DEF IInv, vars, dataVars, javaVars, netVars, history
<1>1. CASE Make
  <2>1. StreamTypeOK'
    BY <1>1 DEF Make, MakeLooks, StreamTypeOK
  <2>2. Agree'
    BY <1>1 DEF Make, MakeLooks, StreamTypeOK, Agree
  <2>3. OneOpener'
    BY <1>1 DEF Make, MakeLooks, StreamTypeOK, Agree, OneOpener, OpenerOnly
  <2>4. Counted'
    BY <1>1 DEF Make, MakeLooks, StreamTypeOK, Agree, Counted
  <2> QED
    BY <2>1, <2>2, <2>3, <2>4 DEF IInv
<1>2. CASE MakeOpen
  <2>1. StreamTypeOK'
    BY <1>2 DEF MakeOpen, MonitorFree, GoTo, Reading, StreamTypeOK
  <2>2. Agree'
    BY <1>2 DEF MakeOpen, MonitorFree, GoTo, Reading, StreamTypeOK, Agree
  <2>3. OneOpener'
    BY <1>2 DEF MakeOpen, MonitorFree, GoTo, Reading, StreamTypeOK, Agree,
               OneOpener, OpenerOnly
  <2>4. Counted'
    BY <1>2 DEF MakeOpen, MonitorFree, GoTo, Reading, StreamTypeOK, Agree,
               Counted
  <2> QED
    BY <2>1, <2>2, <2>3, <2>4 DEF IInv
<1>3. CASE \E n \in WriteSizes : Write(n)
  <2>1. StreamTypeOK'
    BY <1>3 DEF Write, MonitorFree, WakeAll, Reading, StreamTypeOK
  <2>2. Agree'
    BY <1>3 DEF Write, MonitorFree, WakeAll, Reading, StreamTypeOK, Agree
  <2>3. OneOpener'
    BY <1>3 DEF Write, MonitorFree, WakeAll, Reading, StreamTypeOK, Agree,
               OneOpener, OpenerOnly
  <2>4. Counted'
    BY <1>3 DEF Write, MonitorFree, WakeAll, Reading, StreamTypeOK, Agree,
               Counted
  <2> QED
    BY <2>1, <2>2, <2>3, <2>4 DEF IInv
<1>4. CASE Complete
  <2>1. StreamTypeOK'
    BY <1>4 DEF Complete, MonitorFree, StreamTypeOK
  <2>2. Agree'
    BY <1>4 DEF Complete, MonitorFree, StreamTypeOK, Agree
  <2>3. OneOpener'
    BY <1>4 DEF Complete, MonitorFree, StreamTypeOK, Agree, OneOpener,
               OpenerOnly
  <2>4. Counted'
    BY <1>4 DEF Complete, MonitorFree, StreamTypeOK, Agree, Counted
  <2> QED
    BY <2>1, <2>2, <2>3, <2>4 DEF IInv
<1>5. CASE Abort
  <2>1. StreamTypeOK'
    BY <1>5 DEF Abort, MonitorFree, StreamTypeOK
  <2>2. Agree'
    BY <1>5 DEF Abort, MonitorFree, StreamTypeOK, Agree
  <2>3. OneOpener'
    BY <1>5 DEF Abort, MonitorFree, StreamTypeOK, Agree, OneOpener, OpenerOnly
  <2>4. Counted'
    BY <1>5 DEF Abort, MonitorFree, StreamTypeOK, Agree, Counted
  <2> QED
    BY <2>1, <2>2, <2>3, <2>4 DEF IInv
<1>6. CASE Exit
  <2>1. StreamTypeOK'
    BY <1>6 DEF Exit, ExitError, ExitFrees, ExitState, StreamTypeOK
  <2>2. Agree'
    BY <1>6 DEF Exit, ExitError, ExitFrees, ExitState, StreamTypeOK, Agree
  <2>3. OneOpener'
    BY <1>6 DEF Exit, ExitError, ExitFrees, ExitState, StreamTypeOK, Agree,
               OneOpener, OpenerOnly
  <2>4. Counted'
    BY <1>6 DEF Exit, ExitError, ExitFrees, ExitState, StreamTypeOK, Agree,
               Counted
  <2> QED
    BY <2>1, <2>2, <2>3, <2>4 DEF IInv
<1>7. CASE ExitStore
  <2>1. StreamTypeOK'
    <3>1. pc' \in [Java -> {"java", "closeOutput", "open", "getURL", "gotURL",
                            "opening", "opened", "reading", "read"}]
      BY <1>7 DEF ExitStore, ExitNotifies, WakeAll, Reading, StreamTypeOK
    <3>2. refcount' \in Nat /\ freed' \in Nat
      BY <1>7 DEF ExitStore, StreamTypeOK, Counted
    <3> QED
      BY <1>7, <3>1, <3>2 DEF ExitStore, StreamTypeOK
  <2>2. Agree'
    BY <1>7 DEF ExitStore, ExitNotifies, WakeAll, Reading, StreamTypeOK, Agree
  <2>3. OneOpener'
    BY <1>7 DEF ExitStore, ExitNotifies, WakeAll, Reading, StreamTypeOK, Agree,
               OneOpener, OpenerOnly
  <2>4. Counted'
    BY <1>7 DEF ExitStore, ExitNotifies, WakeAll, Reading, StreamTypeOK, Agree,
               Counted
  <2> QED
    BY <2>1, <2>2, <2>3, <2>4 DEF IInv
<1> QED
  BY <1>1, <1>2, <1>3, <1>4, <1>5, <1>6, <1>7 DEF NetStep

(* Whatever is done, and when nothing is, the invariant stays.             *)
LEMMA Kept == IInv /\ [Next]_vars => IInv'
<1> SUFFICES ASSUME IInv, [Next]_vars PROVE IInv'
  OBVIOUS
<1>1. CASE NetStep
  BY <1>1, NetSteps
<1>2. CASE \E t \in Java : JavaCall(t) \/ Inside(t)
  <2>1. PICK t \in Java : JavaCall(t) \/ Inside(t)
    BY <1>2
  <2>2. CASE Close(t) \/ Stop(t) \/ \E n \in ReadSizes : Read(t, n)
    BY <2>2, ReadingSteps, ClosingSteps
  <2>3. CASE ~(Close(t) \/ Stop(t) \/ \E n \in ReadSizes : Read(t, n))
    BY <2>1, <2>3, OpeningSteps DEF JavaCall, Inside
  <2> QED
    BY <2>2, <2>3
<1>3. CASE CloseJavaConnection \/ Finalize \/ FinalizeLoad \/ FinalizeStore
  BY <1>3, ClosingSteps
<1>4. CASE UNCHANGED vars
  BY <1>4 DEF vars, dataVars, javaVars, netVars, history, IInv, StreamTypeOK, Agree,
              OneOpener, Counted, OpenerOnly
<1> QED
  BY <1>1, <1>2, <1>3, <1>4 DEF Next

(* The URL struct and the data of a connection are freed once, by the last *)
(* who needs them, and the assertions about the state machine hold,        *)
(* however the steps of Java, of netlib and of the finalizer fall.         *)
THEOREM StreamCorrect == Spec => []StreamInv
<1>1. Init => IInv
  BY Begin
<1>2. IInv /\ [Next]_vars => IInv'
  BY Kept
<1>3. IInv => StreamInv
  BY Implied
<1> QED
  BY <1>1, <1>2, <1>3, PTL DEF Spec
-----------------------------------------------------------------------------
(* What FlattenSeq computes: the first i sequences, one behind the other.  *)
Joined(f, seqs, m) ==
    f = [i \in 1 .. m |-> IF i = 1 THEN seqs[i] ELSE f[i - 1] \o seqs[i]]

Chained(f, seqs, m) ==
    /\ m >= 1 => f[1] = seqs[1]
    /\ \A i \in 2 .. m : f[i] = f[i - 1] \o seqs[i]

(* What that says of each step.                                            *)
LEMMA JoinedIs ==
    ASSUME NEW f, NEW seqs, NEW m \in Nat, Joined(f, seqs, m)
    PROVE  Chained(f, seqs, m)
<1> DEFINE g == [i \in 1 .. m |-> IF i = 1 THEN seqs[i] ELSE f[i - 1] \o seqs[i]]
<1>1. f = g
  BY DEF Joined
<1>2. m >= 1 => g[1] = seqs[1]
  OBVIOUS
<1>3. \A i \in 1 .. m : i # 1 => g[i] = f[i - 1] \o seqs[i]
  OBVIOUS
<1> HIDE DEF g
<1>4. \A i \in 2 .. m : i \in 1 .. m /\ i # 1
  OBVIOUS
<1> QED BY <1>1, <1>2, <1>3, <1>4 DEF Chained

(* There is such a function, of any length.                                *)
LEMMA JoinedExists ==
    ASSUME NEW seqs, NEW n \in Nat
    PROVE  \E f : Joined(f, seqs, n)
<1> DEFINE T == {m \in 0 .. n : \E f : Joined(f, seqs, m)}
<1>1. 0 \in T
  <2> DEFINE f == [k \in 1 .. 0 |-> 0]
             h == [k \in 1 .. 0 |-> IF k = 1 THEN seqs[k] ELSE f[k - 1] \o seqs[k]]
  <2>1. f = h
    OBVIOUS
  <2>2. Joined(f, seqs, 0)
    BY <2>1 DEF Joined
  <2> HIDE DEF f
  <2> QED BY <2>2
<1>2. ASSUME NEW i \in 1 .. n, i - 1 \in T
      PROVE  i \in T
  <2>1. PICK f : Joined(f, seqs, i - 1)
    BY <1>2
  <2>2. Chained(f, seqs, i - 1)
    <3>1. i - 1 \in Nat
      OBVIOUS
    <3> QED BY <2>1, <3>1, JoinedIs
  <2> DEFINE last == IF i = 1 THEN seqs[1] ELSE f[i - 1] \o seqs[i]
             g == [k \in 1 .. i |-> IF k = i THEN last ELSE f[k]]
             h == [k \in 1 .. i |-> IF k = 1 THEN seqs[k] ELSE g[k - 1] \o seqs[k]]
  <2>3. /\ \A k \in 1 .. i - 1 : g[k] = f[k]
        /\ g[i] = last
    <3>1. i \in 1 .. i /\ \A k \in 1 .. i - 1 : k \in 1 .. i /\ k # i
      OBVIOUS
    <3> HIDE DEF last
    <3> QED BY <3>1
  <2>8. h[1] = seqs[1]
    OBVIOUS
  <2>9. \A k \in 1 .. i : k # 1 => h[k] = g[k - 1] \o seqs[k]
    OBVIOUS
  <2>4. g = [k \in 1 .. i |-> g[k]] /\ h = [k \in 1 .. i |-> h[k]]
    OBVIOUS
  <2> HIDE DEF g, h
  <2>5. \A k \in 1 .. i : g[k] = h[k]
    <3> SUFFICES ASSUME NEW k \in 1 .. i PROVE g[k] = h[k]
      OBVIOUS
    <3>1. CASE k = 1
      BY <2>2, <2>3, <2>8, <2>9, <3>1 DEF Chained
    <3>2. CASE k # 1 /\ k # i
      <4>1. k \in 2 .. i - 1 /\ k \in 1 .. i - 1 /\ k - 1 \in 1 .. i - 1
        BY <3>2
      <4> QED BY <2>2, <2>3, <2>8, <2>9, <3>2, <4>1 DEF Chained
    <3>3. CASE k # 1 /\ k = i
      <4>1. k - 1 \in 1 .. i - 1
        BY <3>3
      <4> QED BY <2>3, <2>9, <3>3, <4>1
    <3> QED BY <3>1, <3>2, <3>3
  <2>6. g = h
    BY <2>4, <2>5
  <2>7. Joined(g, seqs, i)
    BY <2>6 DEF h, Joined
  <2> QED BY <2>7
<1> HIDE DEF T
<1>3. 0 .. n \subseteq T
  BY <1>1, <1>2, InductOn
<1> QED BY <1>3 DEF T

(* ... and FlattenSeq is its last value.                                   *)
LEMMA FlattenIs ==
    ASSUME NEW seqs, Len(seqs) \in Nat \ {0}
    PROVE  \E f : Joined(f, seqs, Len(seqs)) /\ FlattenSeq(seqs) = f[Len(seqs)]
<1>1. \E f : Joined(f, seqs, Len(seqs))
  BY JoinedExists
<1> DEFINE f == CHOOSE f : f = [i \in 1 .. Len(seqs) |-> IF i = 1 THEN seqs[i] ELSE f[i - 1] \o seqs[i]]
<1>2. Joined(f, seqs, Len(seqs))
  BY <1>1 DEF Joined
<1>3. FlattenSeq(seqs) = f[Len(seqs)]
  BY DEF FlattenSeq
<1> QED BY <1>2, <1>3

(* The blocks of a queue, and the bytes of the first i of them.            *)
Block == [bytes : Seq(Nat), room : Nat]

Sums(f, q) ==
    /\ q # <<>> => f[1] = q[1].bytes
    /\ \A i \in 2 .. Len(q) : f[i] = f[i - 1] \o q[i].bytes
    /\ \A i \in 1 .. Len(q) : f[i] \in Seq(Nat)

(* The bytes of a queue are those of its blocks up to the last.            *)
LEMMA ContentsAre ==
    ASSUME NEW q \in Seq(Block), q # <<>>
    PROVE  \E f : Sums(f, q) /\ Contents(q) = f[Len(q)]
<1>1. PICK n \in Nat \ {0} : Len(q) = n
  BY EmptySeq
<1>2. DOMAIN q = 1 .. n /\ \A i \in 1 .. n : q[i].bytes \in Seq(Nat)
  <2>1. DOMAIN q = 1 .. n /\ \A i \in 1 .. n : q[i] \in Block
    BY <1>1
  <2> QED BY <2>1 DEF Block
<1> DEFINE seqs == [i \in DOMAIN q |-> q[i].bytes]
<1>3. /\ seqs \in Seq(Seq(Nat)) /\ Len(seqs) = n
      /\ \A i \in 1 .. n : seqs[i] = q[i].bytes
  BY <1>1, <1>2
<1>4. Contents(q) = FlattenSeq(seqs)
  BY DEF Contents
<1> HIDE DEF seqs
<1>5. PICK f : Joined(f, seqs, Len(seqs)) /\ FlattenSeq(seqs) = f[Len(seqs)]
  BY <1>3, FlattenIs
<1>6. Chained(f, seqs, n)
  BY <1>3, <1>5, JoinedIs
<1>7. /\ f[1] = q[1].bytes
      /\ \A i \in 2 .. n : f[i] = f[i - 1] \o q[i].bytes
  <2>1. n >= 1 /\ 1 \in 1 .. n /\ \A i \in 2 .. n : i \in 1 .. n
    OBVIOUS
  <2> QED BY <1>3, <1>6, <2>1 DEF Chained
<1> DEFINE T == {i \in 0 .. n : i = 0 \/ f[i] \in Seq(Nat)}
<1>8. 0 .. n \subseteq T
  <2>1. 0 \in T
    OBVIOUS
  <2>2. ASSUME NEW i \in 1 .. n, i - 1 \in T
        PROVE  i \in T
    <3>1. CASE i = 1
      BY <1>2, <1>7, <3>1
    <3>2. CASE i # 1
      <4>1. i \in 2 .. n /\ i - 1 # 0
        BY <3>2
      <4>2. f[i - 1] \in Seq(Nat)
        BY <2>2, <4>1
      <4>3. f[i] = f[i - 1] \o q[i].bytes /\ q[i].bytes \in Seq(Nat)
        BY <1>2, <1>7, <4>1
      <4>4. f[i] \in Seq(Nat)
        BY <4>2, <4>3
      <4> QED BY <4>4
    <3> QED BY <3>1, <3>2
  <2> HIDE DEF T
  <2> QED BY <2>1, <2>2, InductOn
<1>9. \A i \in 1 .. n : f[i] \in Seq(Nat)
  BY <1>8
<1>10. Sums(f, q)
  BY <1>1, <1>7, <1>9 DEF Sums
<1> QED BY <1>1, <1>3, <1>4, <1>5, <1>10

(* Queues that begin with the same bytes have the same sums so far.        *)
LEMMA SumsAgree ==
    ASSUME NEW q, NEW r, NEW f, NEW g, Sums(f, q), Sums(g, r), NEW n \in Nat, Len(q) \in Nat,
           Len(r) \in Nat, n <= Len(q), n <= Len(r), \A i \in 1 .. n : q[i].bytes = r[i].bytes
    PROVE  \A i \in 1 .. n : f[i] = g[i]
<1> DEFINE T == {i \in 0 .. n : i = 0 \/ f[i] = g[i]}
<1>1. 0 \in T
  OBVIOUS
<1>2. ASSUME NEW i \in 1 .. n, i - 1 \in T
      PROVE  i \in T
  <2>1. CASE i = 1
    <3>1. q # <<>> /\ r # <<>> /\ 1 \in 1 .. n
      OBVIOUS
    <3>2. f[i] = g[i]
      BY <2>1, <3>1 DEF Sums
    <3> QED BY <3>2
  <2>2. CASE i # 1
    <3>1. i \in 2 .. Len(q) /\ i \in 2 .. Len(r) /\ i - 1 # 0
      BY <2>2
    <3>2. f[i] = f[i - 1] \o q[i].bytes /\ g[i] = g[i - 1] \o r[i].bytes
      BY <3>1 DEF Sums
    <3>3. f[i - 1] = g[i - 1]
      BY <1>2, <3>1
    <3>4. f[i] = g[i]
      BY <3>2, <3>3
    <3> QED BY <3>4
  <2> QED BY <2>1, <2>2
<1> HIDE DEF T
<1>3. 0 .. n \subseteq T
  BY <1>1, <1>2, InductOn
<1> QED BY <1>3 DEF T

(* The bytes of a queue are numbers, and an empty one has none.            *)
LEMMA ContentsType ==
    ASSUME NEW q \in Seq(Block)
    PROVE  Contents(q) \in Seq(Nat) /\ (q = <<>> => Contents(q) = <<>>)
<1>1. CASE q = <<>>
  BY <1>1 DEF Contents, FlattenSeq
<1>2. CASE q # <<>>
  <2>1. PICK f : Sums(f, q) /\ Contents(q) = f[Len(q)]
    BY <1>2, ContentsAre
  <2>2. Len(q) \in 1 .. Len(q)
    BY <1>2, EmptySeq
  <2> QED BY <1>2, <2>1, <2>2 DEF Sums
<1> QED BY <1>1, <1>2

(* The bytes of a queue to which a block is appended.                      *)
LEMMA ContentsAppend ==
    ASSUME NEW q \in Seq(Block), NEW e \in Block
    PROVE  Contents(Append(q, e)) = Contents(q) \o e.bytes
<1> DEFINE r == Append(q, e)
<1>1. PICK n \in Nat : Len(q) = n
  BY LenProperties
<1>2. /\ r \in Seq(Block) /\ r # <<>> /\ Len(r) = n + 1 /\ r[n + 1] = e
      /\ \A i \in 1 .. n : r[i] = q[i]
  BY <1>1, AppendProperties
<1> HIDE DEF r
<1>3. PICK g : Sums(g, r) /\ Contents(r) = g[n + 1]
  BY <1>2, ContentsAre
<1>4. CASE q = <<>>
  <2>1. n = 0
    BY <1>1, <1>4
  <2>2. g[1] = e.bytes
    BY <1>2, <1>3, <2>1 DEF Sums
  <2>3. e.bytes \in Seq(Nat) /\ Contents(q) = <<>>
    BY <1>4, ContentsType DEF Block
  <2> QED BY <1>3, <2>1, <2>2, <2>3 DEF r
<1>5. CASE q # <<>>
  <2>1. PICK f : Sums(f, q) /\ Contents(q) = f[n]
    BY <1>1, <1>5, ContentsAre
  <2>2. n \in 1 .. n /\ n + 1 \in 2 .. n + 1 /\ n <= n + 1 /\ n + 1 \in Nat
    BY <1>1, <1>5, EmptySeq
  <2>3. \A i \in 1 .. n : q[i].bytes = r[i].bytes
    BY <1>2
  <2>4. \A i \in 1 .. n : f[i] = g[i]
    BY <1>1, <1>2, <1>3, <2>1, <2>2, <2>3, SumsAgree
  <2>5. PICK m : m = n + 1
    OBVIOUS
  <2>6. m \in 2 .. Len(r) /\ m - 1 = n
    BY <1>2, <2>2, <2>5
  <2>7. g[m] = g[m - 1] \o r[m].bytes
    BY <1>3, <2>6 DEF Sums
  <2>8. g[m] = Contents(q) \o e.bytes
    BY <1>2, <2>1, <2>2, <2>4, <2>5, <2>6, <2>7
  <2> QED BY <1>3, <2>5, <2>8 DEF r
<1> QED BY <1>4, <1>5

(* Concatenations of bytes can be regrouped.                               *)
LEMMA Regroup ==
    ASSUME NEW x \in Seq(Nat), NEW y \in Seq(Nat), NEW z \in Seq(Nat)
    PROVE  (x \o y) \o z = x \o (y \o z)
<1> DEFINE Assoc(S) == \A s, t, u \in Seq(S) : (s \o t) \o u = s \o (t \o u)
<1>1. \A S : Assoc(S)
  BY ConcatAssociative, Zenon
<1> HIDE DEF Assoc
<1>2. Assoc(Nat)
  BY <1>1, Zenon
<1> QED BY <1>2, Zenon DEF Assoc

(* The bytes of two queues one behind the other.                           *)
LEMMA ContentsConcat ==
    ASSUME NEW a \in Seq(Block), NEW b \in Seq(Block)
    PROVE  Contents(a \o b) = Contents(a) \o Contents(b)
<1>1. PICK n \in Nat : Len(b) = n
  BY LenProperties
<1> DEFINE T == {i \in 0 .. n : Contents(a \o SubSeq(b, 1, i)) = Contents(a) \o Contents(SubSeq(b, 1, i))}
<1>2. 0 \in T
  <2>1. SubSeq(b, 1, 0) = <<>> /\ a \o <<>> = a
    BY SubSeqEmpty, ConcatEmptySeq
  <2>2. <<>> \in Seq(Block)
    OBVIOUS
  <2>3. Contents(<<>>) = <<>> /\ Contents(a) \in Seq(Nat)
    BY <2>2, ContentsType
  <2>4. Contents(a) \o <<>> = Contents(a)
    BY <2>3, ConcatEmptySeq
  <2>5. Contents(a \o SubSeq(b, 1, 0)) = Contents(a) \o Contents(SubSeq(b, 1, 0))
    BY <2>1, <2>3, <2>4
  <2> QED BY <2>5
<1>3. ASSUME NEW i \in 1 .. n, i - 1 \in T
      PROVE  i \in T
  <2> DEFINE p == SubSeq(b, 1, i - 1)
             c == SubSeq(b, 1, i)
             e == b[i]
  <2>1. /\ e \in Block /\ p \in Seq(Block) /\ c = Append(p, e)
    <3>1. \A k \in 1 .. n : b[k] \in Block
      BY <1>1
    <3>2. p \in Seq(Block) /\ c \in Seq(Block) /\ Len(p) = i - 1 /\ Len(c) = i
      BY <1>1, <3>1
    <3>3. \A k \in 1 .. i : c[k] = b[k]
      BY <1>1
    <3>4. \A k \in 1 .. i - 1 : p[k] = b[k]
      BY <1>1
    <3> HIDE DEF p, c
    <3>5. e \in Block
      BY <3>1
    <3>6. /\ Append(p, e) \in Seq(Block) /\ Len(Append(p, e)) = i - 1 + 1
          /\ \A k \in 1 .. i - 1 : Append(p, e)[k] = p[k]
          /\ Append(p, e)[i - 1 + 1] = e
      BY <3>2, <3>5, AppendProperties
    <3>7. i - 1 + 1 = i /\ \A k \in 1 .. i : k = i \/ k \in 1 .. i - 1
      OBVIOUS
    <3>8. \A k \in 1 .. i : c[k] = Append(p, e)[k]
      BY <3>3, <3>4, <3>6, <3>7
    <3>9. c = Append(p, e)
      BY <3>2, <3>6, <3>7, <3>8, SeqEqual
    <3> QED BY <3>2, <3>5, <3>9
  <2>2. Contents(a \o p) = Contents(a) \o Contents(p)
    BY <1>3
  <2> HIDE DEF p, c, e
  <2>3. a \o Append(p, e) = Append(a \o p, e) /\ a \o p \in Seq(Block)
    BY <2>1
  <2>4. Contents(Append(a \o p, e)) = Contents(a \o p) \o e.bytes
    BY <2>1, <2>3, ContentsAppend
  <2>5. Contents(c) = Contents(p) \o e.bytes
    BY <2>1, ContentsAppend
  <2>6. Contents(a) \in Seq(Nat) /\ Contents(p) \in Seq(Nat) /\ e.bytes \in Seq(Nat)
    BY <2>1, ContentsType DEF Block
  <2>7. (Contents(a) \o Contents(p)) \o e.bytes = Contents(a) \o (Contents(p) \o e.bytes)
    <3>1. PICK x \in Seq(Nat), y \in Seq(Nat), z \in Seq(Nat) :
                 x = Contents(a) /\ y = Contents(p) /\ z = e.bytes
      BY <2>6
    <3>2. (x \o y) \o z = x \o (y \o z)
      BY Regroup, Zenon
    <3> QED BY <3>1, <3>2
  <2>8. Contents(a \o c) = Contents(a) \o Contents(c)
    BY <2>1, <2>2, <2>3, <2>4, <2>5, <2>7
  <2> QED BY <2>8 DEF c
<1> HIDE DEF T
<1>4. 0 .. n \subseteq T
  BY <1>2, <1>3, InductOn
<1>5. n \in T
  BY <1>4
<1>6. SubSeq(b, 1, n) = b
  BY <1>1, SubSeqFull
<1> QED BY <1>5, <1>6 DEF T

(* The bytes of a queue of one block.                                      *)
LEMMA ContentsOne ==
    ASSUME NEW e \in Block
    PROVE  Contents(<<e>>) = e.bytes /\ <<e>> \in Seq(Block)
<1>1. <<>> \in Seq(Block) /\ <<e>> = Append(<<>>, e) /\ <<e>> \in Seq(Block)
  OBVIOUS
<1>2. Contents(<<>>) = <<>> /\ Contents(<<e>>) = Contents(<<>>) \o e.bytes
  BY <1>1, ContentsType, ContentsAppend
<1>3. e.bytes \in Seq(Nat)
  BY DEF Block
<1>4. <<>> \o e.bytes = e.bytes
  BY <1>3, ConcatEmptySeq
<1> QED BY <1>1, <1>2, <1>4

(* While the first block is also the last, or full, what is written goes   *)
(* behind what is there.                                                   *)
Neat(q) == Len(q) <= 1 \/ q[1].room = 0

FillsUp(q, s, r, k) ==
    /\ r \in Seq(Block) /\ Neat(r) /\ Len(r) = Len(q)
    /\ k \in 0 .. Len(s)
    /\ Contents(r) = Contents(q) \o SubSeq(s, 1, k)
    /\ k < Len(s) /\ q # <<>> => r[1].room = 0

(* Filling up the first block of such a queue (nsn_DataQueue_writeBytes).  *)
LEMMA FilledNeatly ==
    ASSUME NEW q \in Seq(Block), Neat(q), NEW s \in Seq(Nat)
    PROVE  FillsUp(q, s, Filled(q, s), Fitting(q, s))
<1>1. PICK n \in Nat : Len(s) = n
  BY LenProperties
<1>2. CASE Fitting(q, s) = 0
  <2>1. Filled(q, s) = q
    BY <1>2 DEF Filled
  <2>2. SubSeq(s, 1, 0) = <<>>
    BY SubSeqEmpty
  <2>3. Contents(q) \o <<>> = Contents(q)
    BY ContentsType, ConcatEmptySeq
  <2>4. n > 0 /\ q # <<>> => q[1].room = 0
    <3> HAVE n > 0 /\ q # <<>>
    <3>1. q[1].room \in Nat
      <4>1. q[1] \in Block
        BY EmptySeq
      <4> QED BY <4>1 DEF Block
    <3> QED BY <1>1, <1>2, <3>1 DEF Fitting, Smaller
  <2>5. 0 \in 0 .. n
    OBVIOUS
  <2>6. FillsUp(q, s, q, 0)
    BY <1>1, <2>2, <2>3, <2>4, <2>5 DEF FillsUp
  <2> QED BY <1>2, <2>1, <2>6
<1>3. CASE Fitting(q, s) # 0
  <2>1. q # <<>>
    BY <1>3 DEF Fitting
  <2>2. PICK b \in Seq(Nat), m \in Nat : q[1] = [bytes |-> b, room |-> m]
    <3>1. q[1] \in Block
      BY <2>1, EmptySeq
    <3> QED BY <3>1 DEF Block
  <2>3. m # 0 /\ q = <<q[1]>> /\ Len(q) = 1
    <3>1. m # 0
      BY <1>1, <1>3, <2>1, <2>2 DEF Fitting, Smaller
    <3>2. q[1].room = m
      BY <2>2
    <3>3. Len(q) <= 1
      BY <3>1, <3>2 DEF Neat
    <3>4. Len(q) \in Nat \ {0}
      BY <2>1, EmptySeq
    <3>5. Len(q) = 1
      <4>1. PICK j \in Nat \ {0} : j = Len(q)
        BY <3>4
      <4>2. j <= 1
        BY <3>3, <4>1
      <4>3. j = 1
        BY <4>2
      <4> QED BY <4>1, <4>3
    <3>6. q = <<q[1]>>
      BY <3>5
    <3> QED BY <3>1, <3>5, <3>6
  <2> DEFINE k == Fitting(q, s)
             e == [bytes |-> b \o SubSeq(s, 1, k), room |-> m - k]
  <2>4. k \in 1 .. n /\ k <= m /\ (k = n \/ k = m)
    BY <1>1, <1>3, <2>1, <2>2 DEF Fitting, Smaller
  <2> HIDE DEF k
  <2>5. SubSeq(s, 1, k) \in Seq(Nat) /\ b \o SubSeq(s, 1, k) \in Seq(Nat)
    <3>1. SubSeq(s, 1, k) \in Seq(Nat)
      BY <1>1, <2>4
    <3> QED BY <3>1
  <2>6. e \in Block /\ m - k \in Nat
    BY <2>4, <2>5 DEF Block
  <2>7. Filled(q, s) = <<e>>
    <3>1. Filled(q, s) = [q EXCEPT ![1] = [bytes |-> @.bytes \o SubSeq(s, 1, k), room |-> @.room - k]]
      BY <1>3 DEF Filled, k
    <3>2. [q EXCEPT ![1] = [bytes |-> q[1].bytes \o SubSeq(s, 1, k), room |-> q[1].room - k]] = <<e>>
      <4>1. [bytes |-> q[1].bytes \o SubSeq(s, 1, k), room |-> q[1].room - k] = e
        BY <2>2
      <4>2. PICK y : y = q[1]
        OBVIOUS
      <4>3. q = <<y>>
        BY <2>3, <4>2
      <4> HIDE DEF e
      <4>4. [q EXCEPT ![1] = e] = <<e>>
        BY <4>3
      <4> QED BY <4>1, <4>4
    <3> QED BY <3>1, <3>2
  <2>8. q[1] \in Block
    BY <2>1, EmptySeq
  <2>9. Contents(q) = b
    <3>1. Contents(<<q[1]>>) = q[1].bytes
      BY <2>8, ContentsOne
    <3> QED BY <2>2, <2>3, <3>1
  <2>10. Contents(<<e>>) = b \o SubSeq(s, 1, k) /\ <<e>> \in Seq(Block)
    BY <2>6, ContentsOne
  <2>11. e.room = m - k /\ (k < n => e.room = 0)
    BY <2>4
  <2> HIDE DEF e
  <2>12. Len(<<e>>) = 1 /\ <<e>>[1] = e
    OBVIOUS
  <2>13. Neat(<<e>>)
    BY DEF Neat
  <2>14. k \in 0 .. n
    BY <2>4
  <2>15. FillsUp(q, s, <<e>>, k)
    BY <1>1, <2>3, <2>9, <2>10, <2>11, <2>12, <2>13, <2>14 DEF FillsUp
  <2> QED BY <2>7, <2>15 DEF k
<1> QED BY <1>2, <1>3

Follows(q, s, r) == r \in Seq(Block) /\ Neat(r) /\ Contents(r) = Contents(q) \o s

(* ... and writing all, into a new block what did not fit.                 *)
LEMMA WrittenNeatly ==
    ASSUME NEW q \in Seq(Block), Neat(q), NEW s \in Seq(Nat)
    PROVE  Follows(q, s, WriteBytes(q, s))
<1>1. PICK n \in Nat : Len(s) = n
  BY LenProperties
<1>2. PICK k, r : k = Fitting(q, s) /\ r = Filled(q, s)
  OBVIOUS
<1>3. FillsUp(q, s, r, k)
  BY <1>2, FilledNeatly
<1>4. k \in 0 .. n /\ r \in Seq(Block) /\ Neat(r) /\ Len(r) = Len(q)
  BY <1>1, <1>3 DEF FillsUp
<1>5. Rest(q, s) = SubSeq(s, k + 1, n)
  BY <1>1, <1>2 DEF Rest
<1>6. CASE k = n
  <2>1. Rest(q, s) = <<>>
    BY <1>5, <1>6, SubSeqEmpty
  <2>2. SubSeq(s, 1, n) = s
    BY <1>1, SubSeqFull
  <2> QED BY <1>1, <1>2, <1>3, <1>4, <1>6, <2>1, <2>2 DEF Follows, FillsUp, WriteBytes
<1>7. CASE k # n
  <2>1. /\ SubSeq(s, k + 1, n) \in Seq(Nat) /\ Len(SubSeq(s, k + 1, n)) = n - k
        /\ SubSeq(s, 1, k) \in Seq(Nat)
    BY <1>1, <1>4, <1>7
  <2>2. SubSeq(s, k + 1, n) # <<>>
    <3>1. n - k # 0
      BY <1>4, <1>7
    <3>2. PICK t \in Seq(Nat) : t = SubSeq(s, k + 1, n)
      BY <2>1
    <3>3. Len(t) # 0
      BY <2>1, <3>1, <3>2
    <3>4. t # <<>>
      BY <3>3
    <3> QED BY <3>2, <3>4
  <2> DEFINE e == Element(SubSeq(s, k + 1, n))
             w == Append(r, e)
  <2>3. WriteBytes(q, s) = w
    BY <1>2, <1>5, <2>2 DEF WriteBytes
  <2>4. e \in Block /\ e.bytes = SubSeq(s, k + 1, n)
    <3>1. PICK t \in Seq(Nat), m \in Nat : t = SubSeq(s, k + 1, n) /\ Len(t) = m
      BY <2>1, LenProperties
    <3>2. PICK d \in Nat : d = DefaultDataLength
      BY LengthAssumption
    <3>3. (IF m < d THEN d - m ELSE 0) \in Nat
      OBVIOUS
    <3>4. Element(t) = [bytes |-> t, room |-> IF m < d THEN d - m ELSE 0]
      BY <3>1, <3>2 DEF Element
    <3>5. Element(t) \in Block /\ Element(t).bytes = t
      BY <3>3, <3>4 DEF Block
    <3> QED BY <3>1, <3>5
  <2> HIDE DEF e
  <2>5. Contents(w) = Contents(r) \o e.bytes
    BY <1>4, <2>4, ContentsAppend
  <2>6. Contents(r) = Contents(q) \o SubSeq(s, 1, k)
    BY <1>3 DEF FillsUp
  <2>7. SubSeq(s, 1, k) \o SubSeq(s, k + 1, n) = s
    <3>1. 1 \in 1 .. n + 1 /\ k \in 1 - 1 .. n /\ n \in k .. n
      BY <1>4
    <3>2. SubSeq(s, 1, k) \o SubSeq(s, k + 1, n) = SubSeq(s, 1, n)
      BY <1>1, <3>1, ConcatAdjacentSubSeq
    <3> QED BY <1>1, <3>2, SubSeqFull
  <2>8. Contents(w) = Contents(q) \o s
    <3>1. PICK x \in Seq(Nat), y \in Seq(Nat), z \in Seq(Nat) :
                 x = Contents(q) /\ y = SubSeq(s, 1, k) /\ z = SubSeq(s, k + 1, n)
      BY <2>1, ContentsType
    <3>2. (x \o y) \o z = x \o (y \o z)
      BY Regroup, Zenon
    <3> QED BY <2>4, <2>5, <2>6, <2>7, <3>1, <3>2
  <2>9. w \in Seq(Block) /\ Len(w) = Len(r) + 1 /\ \A i \in 1 .. Len(r) : w[i] = r[i]
    BY <1>4, <2>4, AppendProperties
  <2>10. Neat(w)
    <3>1. CASE q = <<>>
      <4>1. Len(r) = 0
        BY <1>4, <3>1
      <4> QED BY <2>9, <4>1 DEF Neat
    <3>2. CASE q # <<>>
      <4>1. k < Len(s)
        BY <1>1, <1>4, <1>7
      <4>2. r[1].room = 0
        BY <1>3, <3>2, <4>1 DEF FillsUp
      <4>3. Len(r) \in Nat \ {0}
        BY <1>4, <3>2, EmptySeq
      <4>4. w[1] = r[1]
        BY <2>9, <4>3
      <4> QED BY <4>2, <4>4 DEF Neat
    <3> QED BY <3>1, <3>2
  <2> QED BY <2>3, <2>8, <2>9, <2>10 DEF Follows
<1> QED BY <1>6, <1>7

(* A queue of blocks that are not read to their end.                       *)
Solid(q) == \A i \in DOMAIN q : q[i].bytes # <<>>

(* If such a queue has a block it has a byte.                              *)
LEMMA SolidHasBytes ==
    ASSUME NEW q \in Seq(Block), Solid(q), q # <<>>
    PROVE  Contents(q) # <<>>
<1>1. PICK n \in Nat : Len(q) = n /\ DOMAIN q = 1 .. n
  BY LenProperties
<1>2. n \in 1 .. n /\ n # 0
  BY <1>1, EmptySeq
<1>3. PICK f : Sums(f, q) /\ Contents(q) = f[n]
  BY <1>1, ContentsAre
<1>4. q[n].bytes # <<>> /\ q[n].bytes \in Seq(Nat)
  <2>1. q[n] \in Block
    BY <1>1, <1>2
  <2> QED BY <1>1, <1>2, <2>1 DEF Solid, Block
<1>5. CASE n = 1
  <2>1. f[1] = q[1].bytes
    BY <1>3 DEF Sums
  <2> QED BY <1>3, <1>4, <1>5, <2>1
<1>6. CASE n # 1
  <2>1. n \in 2 .. n /\ n - 1 \in 1 .. n
    BY <1>2, <1>6
  <2>2. f[n] = f[n - 1] \o q[n].bytes /\ f[n - 1] \in Seq(Nat)
    BY <1>1, <1>3, <2>1 DEF Sums
  <2>3. PICK x \in Seq(Nat), y \in Seq(Nat) : x = f[n - 1] /\ y = q[n].bytes
    BY <1>4, <2>2
  <2>4. x \o y = <<>> => y = <<>>
    OBVIOUS
  <2>5. f[n] = x \o y /\ y # <<>>
    BY <1>4, <2>2, <2>3
  <2> QED BY <1>3, <2>4, <2>5
<1> QED BY <1>5, <1>6

(* Filling up the first block leaves no block without bytes, ...           *)
LEMMA FilledSolid ==
    ASSUME NEW q \in Seq(Block), Solid(q), NEW s \in Seq(Nat)
    PROVE  Solid(Filled(q, s)) /\ Filled(q, s) \in Seq(Block)
<1>1. PICK n \in Nat : Len(s) = n
  BY LenProperties
<1>2. CASE Fitting(q, s) = 0
  BY <1>2 DEF Filled
<1>3. CASE Fitting(q, s) # 0
  <2>1. q # <<>>
    BY <1>3 DEF Fitting
  <2>2. PICK m \in Nat : Len(q) = m /\ DOMAIN q = 1 .. m /\ 1 \in 1 .. m
    <3>1. PICK m \in Nat : Len(q) = m /\ DOMAIN q = 1 .. m
      BY LenProperties
    <3>2. m # 0
      BY <2>1, <3>1, EmptySeq
    <3> QED BY <3>1, <3>2
  <2>3. PICK b \in Seq(Nat), h \in Nat : q[1] = [bytes |-> b, room |-> h] /\ b # <<>>
    <3>1. q[1] \in Block
      BY <2>1, EmptySeq
    <3> QED BY <2>2, <3>1 DEF Block, Solid
  <2>4. PICK k : k = Fitting(q, s)
    OBVIOUS
  <2>5. k \in 1 .. n /\ k <= h
    BY <1>1, <1>3, <2>1, <2>3, <2>4 DEF Fitting, Smaller
  <2>6. PICK x \in Seq(Nat) : x = SubSeq(s, 1, k)
    <3>1. SubSeq(s, 1, k) \in Seq(Nat)
      BY <1>1, <2>5
    <3> QED BY <3>1
  <2>7. PICK y \in Seq(Nat), j \in Nat : y = b \o x /\ y # <<>> /\ j = h - k
    <3>1. b \o x \in Seq(Nat)
      OBVIOUS
    <3>2. b \o x = <<>> => b = <<>>
      OBVIOUS
    <3>3. h - k \in Nat
      BY <2>5
    <3> QED BY <2>3, <3>1, <3>2, <3>3
  <2>8. PICK e \in Block : e = [bytes |-> b \o x, room |-> h - k] /\ e.bytes # <<>>
    <3>1. [bytes |-> y, room |-> j] \in Block /\ [bytes |-> y, room |-> j].bytes # <<>>
      BY <2>7 DEF Block
    <3> QED BY <2>7, <3>1
  <2>9. Filled(q, s) = [q EXCEPT ![1] = e]
    <3>1. Filled(q, s) = [q EXCEPT ![1] = [bytes |-> q[1].bytes \o x, room |-> q[1].room - k]]
      BY <1>3, <2>4, <2>6 DEF Filled
    <3>2. q[1].bytes = b /\ q[1].room = h
      BY <2>3
    <3> QED BY <2>8, <3>1, <3>2
  <2>10. PICK r : r = [q EXCEPT ![1] = e]
    OBVIOUS
  <2>11. r \in Seq(Block) /\ DOMAIN r = 1 .. m /\ r[1] = e /\ \A i \in 1 .. m : i # 1 => r[i] = q[i]
    BY <2>2, <2>10
  <2>12. Solid(r)
    BY <2>2, <2>8, <2>11 DEF Solid
  <2> QED BY <2>9, <2>10, <2>11, <2>12
<1> QED BY <1>2, <1>3

(* ... nor does writing the rest into a new one.                           *)
LEMMA WrittenSolid ==
    ASSUME NEW q \in Seq(Block), Solid(q), NEW s \in Seq(Nat)
    PROVE  Solid(WriteBytes(q, s))
<1>1. PICK p \in Seq(Block) : p = Filled(q, s) /\ Solid(p)
  BY FilledSolid
<1>2. CASE Rest(q, s) = <<>>
  BY <1>1, <1>2 DEF WriteBytes
<1>3. CASE Rest(q, s) # <<>>
  <2>1. PICK e : e = Element(Rest(q, s))
    OBVIOUS
  <2>2. e.bytes # <<>>
    BY <1>3, <2>1 DEF Element
  <2>3. WriteBytes(q, s) = Append(p, e)
    BY <1>1, <1>3, <2>1 DEF WriteBytes
  <2>4. PICK m \in Nat : Len(p) = m /\ DOMAIN p = 1 .. m
    BY LenProperties
  <2>5. /\ DOMAIN Append(p, e) = 1 .. m + 1 /\ Append(p, e)[m + 1] = e
        /\ \A i \in 1 .. m : Append(p, e)[i] = p[i]
    BY <2>4
  <2>6. \A i \in 1 .. m + 1 : i \in 1 .. m \/ i = m + 1
    OBVIOUS
  <2> QED BY <1>1, <2>2, <2>3, <2>4, <2>5, <2>6 DEF Solid
<1> QED BY <1>2, <1>3

(* What is left in the queue after a read is what was not read.            *)
Leaves(q, n, r) ==
    /\ r \in Seq(Block)
    /\ Contents(r) = SubSeq(Contents(q), n + 1, Length(q))
    /\ Solid(q) => Solid(r)

(* The bytes of the first i blocks are those of the first i - 1 and of     *)
(* block i.                                                                *)
LEMMA BeforeFirst ==
    ASSUME NEW q \in Seq(Block), NEW i \in DOMAIN q
    PROVE  /\ Contents(SubSeq(q, 1, i)) = Contents(SubSeq(q, 1, i - 1)) \o q[i].bytes
           /\ SubSeq(q, 1, i - 1) \in Seq(Block)
<1>1. PICK n \in Nat : Len(q) = n /\ DOMAIN q = 1 .. n
  BY LenProperties
<1> DEFINE p == SubSeq(q, 1, i - 1)
           c == SubSeq(q, 1, i)
<1>2. i \in 1 .. n
  BY <1>1
<1>3. \A k \in 1 .. n : q[k] \in Block
  BY <1>1
<1>4. p \in Seq(Block) /\ c \in Seq(Block) /\ Len(p) = i - 1 /\ Len(c) = i
  BY <1>1, <1>2, <1>3
<1>5. \A k \in 1 .. i : c[k] = q[k]
  BY <1>1, <1>2
<1>6. \A k \in 1 .. i - 1 : p[k] = q[k]
  BY <1>1, <1>2
<1> DEFINE a == Append(p, q[i])
<1>7. /\ a \in Seq(Block) /\ Len(a) = i - 1 + 1
      /\ \A k \in 1 .. i - 1 : a[k] = p[k]
      /\ a[i - 1 + 1] = q[i]
  BY <1>2, <1>3, <1>4, AppendProperties
<1>8. Contents(a) = Contents(p) \o q[i].bytes
  BY <1>2, <1>3, <1>4, ContentsAppend
<1> HIDE DEF p, c, a
<1>9. i - 1 + 1 = i /\ \A k \in 1 .. i : k = i \/ k \in 1 .. i - 1
  BY <1>2
<1>10. \A k \in 1 .. i : c[k] = a[k]
  BY <1>5, <1>6, <1>7, <1>9
<1>11. c = a
  BY <1>4, <1>7, <1>9, <1>10, SeqEqual
<1> QED BY <1>4, <1>8, <1>11 DEF p, c

IsConcat(x, y, w) ==
    /\ w \in Seq(Nat) /\ Len(w) = Len(x) + Len(y)
    /\ \A i \in 1 .. Len(x) : w[i] = x[i]
    /\ \A i \in 1 .. Len(y) : w[Len(x) + i] = y[i]

(* The elements of a concatenation.                                        *)
LEMMA ConcatIs ==
    ASSUME NEW x \in Seq(Nat), NEW y \in Seq(Nat)
    PROVE  IsConcat(x, y, x \o y)
<1>1. PICK a \in Nat, b \in Nat : a = Len(x) /\ b = Len(y)
  BY LenProperties
<1> DEFINE w == x \o y
<1>2. w \in Seq(Nat) /\ Len(w) = a + b
  BY <1>1
<1>3. \A i \in 1 .. a : w[i] = x[i]
  BY <1>1
<1>4. \A i \in 1 .. b : w[a + i] = y[i]
  <2> SUFFICES ASSUME NEW i \in 1 .. b PROVE w[a + i] = y[i]
    OBVIOUS
  <2>1. a + i \in 1 .. a + b /\ ~(a + i <= a) /\ a + i - a = i
    BY <1>1
  <2> QED BY <1>1, <2>1
<1> QED BY <1>1, <1>2, <1>3, <1>4 DEF IsConcat

IsDrop(x, k, s) ==
    /\ s \in Seq(Nat) /\ Len(s) = Len(x) - k
    /\ \A i \in 1 .. Len(x) - k : s[i] = x[k + i]

(* The elements of what is left when the first k are dropped.              *)
LEMMA DropIs ==
    ASSUME NEW x \in Seq(Nat), NEW k \in Nat, k <= Len(x)
    PROVE  IsDrop(x, k, SubSeq(x, k + 1, Len(x)))
<1>1. PICK a \in Nat : a = Len(x)
  BY LenProperties
<1>2. \A i \in k + 1 .. a : x[i] \in Nat
  BY <1>1
<1>3. /\ SubSeq(x, k + 1, a) \in Seq(Nat)
      /\ Len(SubSeq(x, k + 1, a)) = IF k + 1 <= a THEN a - (k + 1) + 1 ELSE 0
      /\ \A i \in 1 .. a - (k + 1) + 1 : SubSeq(x, k + 1, a)[i] = x[k + 1 + i - 1]
  <2>1. k + 1 \in Int /\ a \in Int
    OBVIOUS
  <2> QED BY <1>2, <2>1, SubSeqProperties
<1>4. (IF k + 1 <= a THEN a - (k + 1) + 1 ELSE 0) = a - k /\ a - (k + 1) + 1 = a - k
  BY <1>1
<1>5. \A i \in 1 .. a - k : k + 1 + i - 1 = k + i
  OBVIOUS
<1> QED BY <1>1, <1>3, <1>4, <1>5 DEF IsDrop

(* Regrouping a sum.                                                       *)
LEMMA AddUp ==
    ASSUME NEW a \in Nat, NEW k \in Nat, NEW i \in Nat, NEW n, n = a + k
    PROVE  n + i = a + (k + i)
OBVIOUS

(* Dropping all of x and the first k of y leaves the rest of y, and z.     *)
LEMMA SamePieces ==
    ASSUME NEW x \in Seq(Nat), NEW y \in Seq(Nat), NEW z \in Seq(Nat), NEW k \in Nat, k <= Len(y),
           NEW t, NEW w, NEW l, NEW s, NEW r, NEW n \in Nat, n = Len(x) + k,
           IsConcat(y, z, t), IsConcat(x, t, w), IsDrop(w, n, l), IsDrop(y, k, s), IsConcat(s, z, r)
    PROVE  l = r
<1>1. PICK a \in Nat, b \in Nat, c \in Nat : a = Len(x) /\ b = Len(y) /\ c = Len(z)
  BY LenProperties
<1>2. /\ t \in Seq(Nat) /\ Len(t) = b + c
      /\ \A i \in 1 .. b : t[i] = y[i]
      /\ \A i \in 1 .. c : t[b + i] = z[i]
  BY <1>1 DEF IsConcat
<1>3. /\ Len(w) = a + (b + c)
      /\ \A i \in 1 .. b + c : w[a + i] = t[i]
  BY <1>1, <1>2 DEF IsConcat
<1>4. /\ s \in Seq(Nat) /\ Len(s) = b - k
      /\ \A i \in 1 .. b - k : s[i] = y[k + i]
  BY <1>1 DEF IsDrop
<1>5. /\ r \in Seq(Nat) /\ Len(r) = b - k + c
      /\ \A i \in 1 .. b - k : r[i] = s[i]
      /\ \A i \in 1 .. c : r[b - k + i] = z[i]
  BY <1>1, <1>4 DEF IsConcat
<1>6. /\ l \in Seq(Nat) /\ Len(l) = a + (b + c) - n
      /\ \A i \in 1 .. a + (b + c) - n : l[i] = w[n + i]
  <2>1. PICK o : o = Len(w)
    OBVIOUS
  <2>2. l \in Seq(Nat) /\ Len(l) = o - n /\ \A i \in 1 .. o - n : l[i] = w[n + i]
    BY <2>1 DEF IsDrop
  <2>3. o = a + (b + c)
    BY <1>3, <2>1
  <2> QED BY <2>2, <2>3
<1>7. n = a + k /\ k <= b /\ a + (b + c) - n = b - k + c
  BY <1>1
<1>8. ASSUME NEW i \in 1 .. b - k + c PROVE l[i] = r[i]
  <2>1. l[i] = w[a + (k + i)] /\ k + i \in 1 .. b + c
    <3>1. n + i = a + (k + i) /\ k + i \in 1 .. b + c
      <4>1. n + i = a + (k + i)
        <5>1. i \in Nat
          OBVIOUS
        <5> QED BY <1>7, <5>1, AddUp
      <4>2. k + i >= 1 /\ k + i <= b + c
        BY <1>7
      <4> QED BY <4>1, <4>2
    <3>2. l[i] = w[n + i]
      BY <1>6, <1>7
    <3> QED BY <3>1, <3>2
  <2>2. l[i] = t[k + i]
    BY <1>3, <2>1
  <2>3. CASE i \in 1 .. b - k
    <3>1. k + i \in 1 .. b
      BY <2>3
    <3> QED BY <1>2, <1>4, <1>5, <2>2, <2>3, <3>1
  <2>4. CASE i \notin 1 .. b - k
    <3>1. PICK j \in 1 .. c : j = i - (b - k)
      <4>1. i - (b - k) \in 1 .. c
        BY <1>7, <2>4
      <4> QED BY <4>1
    <3>2. i = b - k + j /\ k + i = b + j
      BY <1>7, <3>1
    <3>3. l[i] = t[b + j]
      BY <2>2, <3>2
    <3>4. t[b + j] = z[j]
      BY <1>2, <3>1
    <3>5. r[b - k + j] = z[j]
      BY <1>5, <3>1
    <3> QED BY <3>2, <3>3, <3>4, <3>5
  <2> QED BY <2>3, <2>4
<1> QED BY <1>5, <1>6, <1>7, <1>8, SeqEqual

Drops(x, y, z, n, s) ==
    /\ SubSeq(x \o (y \o z), n + 1, Len(x \o (y \o z))) = s \o z
    /\ s \in Seq(Nat) /\ s # <<>>

(* The same, with how many to drop in all.                                 *)
LEMMA Dropping ==
    ASSUME NEW x \in Seq(Nat), NEW y \in Seq(Nat), NEW z \in Seq(Nat), NEW n \in Nat,
           Len(x) <= n, n < Len(x) + Len(y)
    PROVE  Drops(x, y, z, n, SubSeq(y, n - Len(x) + 1, Len(y)))
<1>1. PICK a \in Nat, b \in Nat, c \in Nat : a = Len(x) /\ b = Len(y) /\ c = Len(z)
  BY LenProperties
<1>2. PICK k \in Nat : k = n - a /\ k < b
  <2>1. n - a \in Nat /\ n - a < b
    BY <1>1
  <2> QED BY <2>1
<1> DEFINE t == y \o z
           w == x \o t
           l == SubSeq(w, n + 1, Len(w))
           s == SubSeq(y, k + 1, Len(y))
           r == s \o z
<1>3. IsConcat(y, z, t)
  BY ConcatIs
<1>4. t \in Seq(Nat) /\ Len(t) = b + c
  BY <1>1, <1>3 DEF IsConcat
<1> HIDE DEF t
<1>5. IsConcat(x, t, w)
  BY <1>4, ConcatIs
<1>6. w \in Seq(Nat) /\ Len(w) = a + (b + c)
  BY <1>1, <1>4, <1>5 DEF IsConcat
<1> HIDE DEF w
<1>7. IsDrop(w, n, l)
  <2>1. n <= Len(w)
    BY <1>1, <1>6
  <2> QED BY <1>6, <2>1, DropIs
<1>8. IsDrop(y, k, s)
  <2>1. k <= Len(y)
    BY <1>1, <1>2
  <2> QED BY <2>1, DropIs
<1>9. s \in Seq(Nat) /\ Len(s) = b - k
  BY <1>1, <1>8 DEF IsDrop
<1> HIDE DEF l, s
<1>10. IsConcat(s, z, r)
  BY <1>9, ConcatIs
<1> HIDE DEF r
<1>11. n = Len(x) + k /\ k <= Len(y)
  BY <1>1, <1>2
<1>12. l = r
  BY <1>3, <1>5, <1>7, <1>8, <1>10, <1>11, SamePieces
<1>13. s # <<>>
  <2>1. b - k # 0
    BY <1>2
  <2> QED BY <1>9, <2>1
<1>14. n - Len(x) + 1 = k + 1
  BY <1>11
<1> QED BY <1>9, <1>12, <1>13, <1>14 DEF l, r, s, w, t, Drops

(* A read of all leaves nothing.                                           *)
LEMMA AllRead ==
    ASSUME NEW q \in Seq(Block), NEW n \in Nat, Unread(q, n) = {}
    PROVE  Leaves(q, n, AfterRead(q, n))
<1>1. PICK m \in Nat : Len(q) = m /\ DOMAIN q = 1 .. m
  BY LenProperties
<1>2. PICK x \in Seq(Nat), a \in Nat : x = Contents(q) /\ a = Len(x)
  BY ContentsType, LenProperties
<1>3. a <= n
  <2>1. CASE q = <<>>
    <3>1. x = <<>>
      BY <1>2, <2>1, ContentsType
    <3> QED BY <1>2, <3>1
  <2>2. CASE q # <<>>
    <3>1. m \in DOMAIN q
      BY <1>1, <2>2, EmptySeq
    <3>2. SubSeq(q, 1, m) = q
      BY <1>1, SubSeqFull
    <3>3. x = Contents(SubSeq(q, 1, m - 1)) \o q[m].bytes /\ SubSeq(q, 1, m - 1) \in Seq(Block)
      BY <1>2, <3>1, <3>2, BeforeFirst
    <3>4. PICK y \in Seq(Nat), z \in Seq(Nat) : y = Contents(SubSeq(q, 1, m - 1)) /\ z = q[m].bytes
      <4>1. q[m] \in Block
        BY <1>1, <3>1
      <4> QED BY <3>3, <4>1, ContentsType DEF Block
    <3>5. ~(Len(y) + Len(z) > n)
      BY <3>1, <3>4 DEF Unread, Before, Length
    <3>6. a = Len(y) + Len(z) /\ Len(y) \in Nat /\ Len(z) \in Nat
      BY <1>2, <3>3, <3>4, ConcatProperties, LenProperties
    <3> QED BY <3>5, <3>6
  <2> QED BY <2>1, <2>2
<1>4. SubSeq(x, n + 1, a) = <<>>
  BY <1>3, SubSeqEmpty
<1>5. AfterRead(q, n) = <<>>
  BY DEF AfterRead
<1>6. <<>> \in Seq(Block) /\ Contents(<<>>) = <<>> /\ Solid(<<>>)
  <2>1. <<>> \in Seq(Block)
    OBVIOUS
  <2>2. Contents(<<>>) = <<>>
    BY <2>1, ContentsType
  <2>3. Solid(<<>>)
    BY DEF Solid
  <2> QED BY <2>1, <2>2, <2>3
<1>7. SubSeq(Contents(q), n + 1, Length(q)) = <<>>
  BY <1>2, <1>4 DEF Length
<1> QED BY <1>5, <1>6, <1>7 DEF Leaves

(* The blocks before the first that is not read to its end are read.       *)
LEMMA ReadPrefix ==
    ASSUME NEW q \in Seq(Block), NEW n \in Nat, NEW f \in Unread(q, n),
           \A j \in Unread(q, n) : f <= j
    PROVE  Before(q, f) \in Nat /\ Before(q, f) <= n
<1>1. PICK m \in Nat : Len(q) = m /\ DOMAIN q = 1 .. m
  BY LenProperties
<1>2. f \in 1 .. m
  BY <1>1 DEF Unread
<1>3. CASE f = 1
  <2>1. SubSeq(q, 1, f - 1) = <<>>
    BY <1>3, SubSeqEmpty
  <2>2. <<>> \in Seq(Block)
    OBVIOUS
  <2>3. Before(q, f) = 0
    <3>1. Contents(<<>>) = <<>>
      BY <2>2, ContentsType
    <3>2. PICK e : e = SubSeq(q, 1, f - 1)
      OBVIOUS
    <3>3. Before(q, f) = Len(Contents(e)) /\ Contents(e) = <<>>
      BY <2>1, <3>1, <3>2 DEF Before, Length
    <3> QED BY <3>3
  <2> QED BY <2>3
<1>4. CASE f # 1
  <2>1. PICK g \in 1 .. m : g = f - 1
    BY <1>2, <1>4
  <2>2. g \notin Unread(q, n) /\ g \in DOMAIN q
    BY <1>1, <1>2, <2>1
  <2>3. /\ Contents(SubSeq(q, 1, g)) = Contents(SubSeq(q, 1, g - 1)) \o q[g].bytes
        /\ SubSeq(q, 1, g - 1) \in Seq(Block)
    BY <2>2, BeforeFirst
  <2>4. PICK y \in Seq(Nat), z \in Seq(Nat) : y = Contents(SubSeq(q, 1, g - 1)) /\ z = q[g].bytes
    <3>1. q[g] \in Block
      BY <1>1, <2>1
    <3> QED BY <2>3, <3>1, ContentsType DEF Block
  <2>5. ~(Len(y) + Len(z) > n)
    BY <2>2, <2>4 DEF Unread, Before, Length
  <2>6. Len(y \o z) = Len(y) + Len(z) /\ Len(y) \in Nat /\ Len(z) \in Nat
    BY ConcatProperties, LenProperties
  <2>7. Before(q, f) = Len(y \o z)
    BY <2>1, <2>3, <2>4 DEF Before, Length
  <2> QED BY <2>5, <2>6, <2>7
<1> QED BY <1>3, <1>4

(* The blocks behind block f.                                              *)
LEMMA BlocksBehind ==
    ASSUME NEW q \in Seq(Block), NEW m \in Nat, DOMAIN q = 1 .. m, NEW f \in 1 .. m,
           NEW t \in Seq(Block), t = SubSeq(q, f + 1, m), NEW j \in Nat, Len(t) = j
    PROVE  j = m - f /\ \A i \in 1 .. j : f + i \in 1 .. m /\ t[i] = q[f + i]
<1>1. \A i \in f + 1 .. m : q[i] \in Block
  OBVIOUS
<1>2. f + 1 \in Int /\ m \in Int
  OBVIOUS
<1>3. /\ Len(t) = IF f + 1 <= m THEN m - (f + 1) + 1 ELSE 0
      /\ \A i \in 1 .. m - (f + 1) + 1 : t[i] = q[f + 1 + i - 1]
  BY <1>1, <1>2, SubSeqProperties
<1>4. j = m - f /\ m - (f + 1) + 1 = m - f
  BY <1>3
<1>5. \A i \in 1 .. j : f + i \in 1 .. m /\ f + 1 + i - 1 = f + i
  BY <1>4
<1> QED BY <1>3, <1>4, <1>5

(* A block in front of j others.                                           *)
InFront(b, t, j, r) ==
    DOMAIN r = 1 .. j + 1 /\ r[1] = b /\ \A i \in 1 .. j : r[i + 1] = t[i]

(* The elements of a list with one more block in front.                    *)
LEMMA BlockInFront ==
    ASSUME NEW b \in Block, NEW t \in Seq(Block), NEW j \in Nat, Len(t) = j
    PROVE  InFront(b, t, j, <<b>> \o t)
<1> DEFINE r == <<b>> \o t
<1>1. PICK o \in Seq(Block) : o = <<b>> /\ Len(o) = 1 /\ o[1] = b
  <2>1. <<b>> \in Seq(Block)
    OBVIOUS
  <2>2. Len(<<b>>) = 1 /\ <<b>>[1] = b
    OBVIOUS
  <2> QED BY <2>1, <2>2
<1>2. /\ r \in Seq(Block) /\ Len(r) = 1 + j
      /\ \A i \in 1 .. 1 + j : r[i] = IF i <= 1 THEN o[i] ELSE t[i - 1]
  BY <1>1, ConcatProperties
<1>3. DOMAIN r = 1 .. j + 1
  BY <1>2, LenProperties
<1>4. 1 \in 1 .. 1 + j /\ \A i \in 1 .. j : i + 1 \in 1 .. 1 + j /\ ~(i + 1 <= 1) /\ i + 1 - 1 = i
  OBVIOUS
<1>5. \A i \in 1 .. j : r[i + 1] = t[i]
  BY <1>2, <1>4
<1>6. r[1] = b
  BY <1>1, <1>2
<1> QED BY <1>3, <1>5, <1>6 DEF InFront

(* A block that has bytes, in front of blocks that have.                   *)
LEMMA SolidBehind ==
    ASSUME NEW q \in Seq(Block), Solid(q), NEW m \in Nat, DOMAIN q = 1 .. m, NEW f \in 1 .. m,
           NEW b \in Block, b.bytes # <<>>
    PROVE  Solid(<<b>> \o SubSeq(q, f + 1, m))
<1>1. PICK t \in Seq(Block), j \in Nat : t = SubSeq(q, f + 1, m) /\ Len(t) = j
  <2>1. \A i \in f + 1 .. m : q[i] \in Block
    OBVIOUS
  <2>2. f + 1 \in Int /\ m \in Int
    OBVIOUS
  <2>3. SubSeq(q, f + 1, m) \in Seq(Block)
    BY <2>1, <2>2, SubSeqProperties
  <2> QED BY <2>3, LenProperties
<1>2. j = m - f /\ \A i \in 1 .. j : f + i \in 1 .. m /\ t[i] = q[f + i]
  BY <1>1, BlocksBehind
<1>3. \A i \in 1 .. j : t[i].bytes # <<>>
  BY <1>2 DEF Solid
<1>4. PICK r : r = <<b>> \o t
  OBVIOUS
<1>5. DOMAIN r = 1 .. j + 1 /\ r[1] = b /\ \A i \in 1 .. j : r[i + 1] = t[i]
  <2>1. InFront(b, t, j, <<b>> \o t)
    BY <1>1, BlockInFront
  <2> QED BY <1>4, <2>1 DEF InFront
<1>6. \A i \in 1 .. j + 1 : i = 1 \/ (i - 1 \in 1 .. j /\ i - 1 + 1 = i)
  OBVIOUS
<1>7. \A i \in 1 .. j + 1 : r[i].bytes # <<>>
  <2> SUFFICES ASSUME NEW i \in 1 .. j + 1 PROVE r[i].bytes # <<>>
    OBVIOUS
  <2>1. CASE i = 1
    BY <1>5, <2>1
  <2>2. CASE i # 1
    <3>1. PICK h \in 1 .. j : h + 1 = i
      BY <1>6, <2>2
    <3> QED BY <1>3, <1>5, <3>1
  <2> QED BY <2>1, <2>2
<1> QED BY <1>1, <1>4, <1>5, <1>7 DEF Solid

(* A read of less leaves the rest of that block, and those behind it.      *)
LEMMA SomeRead ==
    ASSUME NEW q \in Seq(Block), NEW n \in Nat, Unread(q, n) # {}
    PROVE  Leaves(q, n, AfterRead(q, n))
<1>1. PICK m \in Nat : Len(q) = m /\ DOMAIN q = 1 .. m
  BY LenProperties
<1> DEFINE f == CHOOSE i \in Unread(q, n) : \A j \in Unread(q, n) : i <= j
<1>2. f \in Unread(q, n) /\ \A j \in Unread(q, n) : f <= j
  <2>1. Unread(q, n) \subseteq Nat
    BY <1>1 DEF Unread
  <2>2. \E i \in Unread(q, n) : \A j \in Unread(q, n) : i <= j
    BY <2>1, LeastNumber
  <2> QED BY <2>2
<1> DEFINE cut == n - Before(q, f)
           rest == SubSeq(q, f, m)
<1>3. AfterRead(q, n) = [rest EXCEPT ![1].bytes = SubSeq(@, cut + 1, Len(@))]
  BY <1>1 DEF AfterRead
<1> HIDE DEF f
<1>4. f \in 1 .. m /\ Before(q, f) + Len(q[f].bytes) > n
  BY <1>1, <1>2 DEF Unread
<1>5. Before(q, f) \in Nat /\ Before(q, f) <= n
  BY <1>2, ReadPrefix
<1> DEFINE head == SubSeq(q, 1, f - 1)
           tail == SubSeq(q, f + 1, m)
<1>6. /\ head \in Seq(Block) /\ tail \in Seq(Block) /\ q[f] \in Block
      /\ rest = <<q[f]>> \o tail /\ q = head \o rest
  <2>1. \A i \in 1 .. m : q[i] \in Block
    BY <1>1
  <2>2. head \in Seq(Block) /\ tail \in Seq(Block) /\ q[f] \in Block
    BY <1>1, <1>4, <2>1
  <2>3. rest = <<q[f]>> \o tail
    <3>1. f \in 1 .. Len(q) /\ m \in f .. Len(q)
      BY <1>1, <1>4
    <3> QED BY <3>1, SubSeqRecursiveFirst
  <2>4. q = head \o rest
    <3>1. PICK g : g = f - 1
      OBVIOUS
    <3>2. 1 \in 1 .. Len(q) + 1 /\ g \in 1 - 1 .. Len(q) /\ m \in g .. Len(q) /\ g + 1 = f
      BY <1>1, <1>4, <3>1
    <3>3. SubSeq(q, 1, g) \o SubSeq(q, g + 1, m) = SubSeq(q, 1, m)
      BY <3>2, ConcatAdjacentSubSeq
    <3> QED BY <1>1, <3>1, <3>2, <3>3, SubSeqFull
  <2> QED BY <2>2, <2>3, <2>4
<1>7. PICK x \in Seq(Nat), y \in Seq(Nat), z \in Seq(Nat), k \in Nat :
             /\ x = Contents(head) /\ y = q[f].bytes /\ z = Contents(tail) /\ k = q[f].room
             /\ q[f] = [bytes |-> y, room |-> k]
  BY <1>6, ContentsType DEF Block
<1>8. Before(q, f) = Len(x)
  BY <1>7 DEF Before, Length
<1> DEFINE s == SubSeq(y, cut + 1, Len(y))
           e == [bytes |-> s, room |-> k]
<1>9. Contents(q) = x \o (y \o z)
  <2> HIDE DEF head, tail, rest
  <2>1. Contents(<<q[f]>>) = y /\ <<q[f]>> \in Seq(Block)
    BY <1>6, <1>7, ContentsOne
  <2>2. PICK o \in Seq(Block), h \in Seq(Block), t \in Seq(Block) :
               o = <<q[f]>> /\ h = head /\ t = tail
    BY <1>6, <2>1
  <2>3. Contents(o \o t) = y \o z /\ o \o t \in Seq(Block)
    <3>1. Contents(o \o t) = Contents(o) \o Contents(t)
      BY ContentsConcat
    <3>2. o \o t \in Seq(Block)
      OBVIOUS
    <3> QED BY <1>7, <2>1, <2>2, <3>1, <3>2
  <2>4. Contents(h \o (o \o t)) = x \o (y \o z)
    <3>1. PICK r \in Seq(Block) : r = o \o t
      BY <2>3
    <3>2. Contents(h \o r) = Contents(h) \o Contents(r)
      BY ContentsConcat
    <3> QED BY <1>7, <2>2, <2>3, <3>1, <3>2
  <2> QED BY <1>6, <2>2, <2>4
<1>10. /\ SubSeq(x \o (y \o z), n + 1, Len(x \o (y \o z))) = s \o z
       /\ s \in Seq(Nat) /\ s # <<>>
  <2>1. Len(x) <= n /\ n < Len(x) + Len(y)
    BY <1>4, <1>5, <1>7, <1>8
  <2>2. Drops(x, y, z, n, SubSeq(y, n - Len(x) + 1, Len(y)))
    BY <2>1, Dropping
  <2> QED BY <1>8, <2>2 DEF Drops
<1>12. e \in Block
  BY <1>10 DEF Block
<1>11. AfterRead(q, n) = <<e>> \o tail
  <2>1. PICK t \in Seq(Block) : t = tail
    BY <1>6
  <2>2. PICK b : b = q[f]
    OBVIOUS
  <2>3. PICK r : r = rest
    OBVIOUS
  <2>4. r = <<b>> \o t
    BY <1>6, <2>1, <2>2, <2>3
  <2>5. r[1] = b /\ b.bytes = y /\ b \in Block
    BY <1>6, <1>7, <2>2, <2>4
  <2>6. AfterRead(q, n) = [r EXCEPT ![1] = [r[1] EXCEPT !.bytes = SubSeq(r[1].bytes, cut + 1, Len(r[1].bytes))]]
    BY <1>3, <2>3
  <2>7. [r[1] EXCEPT !.bytes = SubSeq(r[1].bytes, cut + 1, Len(r[1].bytes))] = e
    <3>1. PICK u : u = SubSeq(y, cut + 1, Len(y))
      OBVIOUS
    <3>2. SubSeq(r[1].bytes, cut + 1, Len(r[1].bytes)) = u /\ r[1] = [bytes |-> y, room |-> k]
      BY <1>7, <2>2, <2>5, <3>1
    <3>3. [r[1] EXCEPT !.bytes = u] = [bytes |-> u, room |-> k]
      BY <3>2
    <3> QED BY <3>1, <3>2, <3>3
  <2> HIDE DEF e
  <2>8. [r EXCEPT ![1] = e] = <<e>> \o t
    <3>1. PICK d \in Block : d = e
      BY <1>12
    <3>2. PICK j \in Nat : Len(t) = j
      BY LenProperties
    <3>3. r \in Seq(Block) /\ Len(r) = j + 1 /\ \A i \in 1 .. j : r[i + 1] = t[i]
      BY <2>4, <2>5, <3>2
    <3> DEFINE v == [r EXCEPT ![1] = d]
               w == <<d>> \o t
    <3>4. /\ v \in Seq(Block) /\ Len(v) = j + 1 /\ v[1] = d
          /\ \A i \in 2 .. j + 1 : v[i] = r[i]
      BY <3>3
    <3>5. w \in Seq(Block) /\ Len(w) = j + 1 /\ w[1] = d /\ \A i \in 1 .. j : w[i + 1] = t[i]
      BY <3>2
    <3> HIDE DEF v, w
    <3>6. ASSUME NEW i \in 1 .. j + 1 PROVE v[i] = w[i]
      <4>1. CASE i = 1
        BY <3>4, <3>5, <4>1
      <4>2. CASE i # 1
        <5>1. PICK h \in 1 .. j : i = h + 1 /\ i \in 2 .. j + 1
          <6>1. i - 1 \in 1 .. j /\ i = i - 1 + 1 /\ i \in 2 .. j + 1
            BY <4>2
          <6> QED BY <6>1
        <5>2. v[i] = r[i] /\ r[i] = t[h] /\ w[i] = t[h]
          BY <3>3, <3>4, <3>5, <5>1
        <5> QED BY <5>2
      <4> QED BY <4>1, <4>2
    <3>7. v = w
      BY <3>4, <3>5, <3>6, SeqEqual
    <3> QED BY <3>1, <3>7 DEF v, w
  <2> QED BY <2>1, <2>6, <2>7, <2>8
<1>13. <<e>> \in Seq(Block) /\ Contents(<<e>>) = s
  <2> HIDE DEF s
  <2> QED BY <1>12, ContentsOne
<1>14. Contents(<<e>> \o tail) = s \o z /\ <<e>> \o tail \in Seq(Block)
  <2> HIDE DEF e, tail, s
  <2>1. PICK o \in Seq(Block), t \in Seq(Block) : o = <<e>> /\ t = tail
    BY <1>6, <1>13
  <2>2. Contents(o \o t) = Contents(o) \o Contents(t) /\ o \o t \in Seq(Block)
    BY ContentsConcat
  <2> QED BY <1>7, <1>13, <2>1, <2>2
<1>15. ASSUME Solid(q) PROVE Solid(<<e>> \o tail)
  <2>2. e.bytes # <<>>
    BY <1>10
  <2>3. PICK b \in Block, h \in 1 .. m : b = e /\ h = f /\ b.bytes # <<>>
    BY <1>4, <1>12, <2>2
  <2>4. Solid(<<b>> \o SubSeq(q, h + 1, m))
    BY <1>1, <1>15, <2>3, SolidBehind
  <2> HIDE DEF e
  <2> QED BY <2>3, <2>4
<1> HIDE DEF e, tail, s
<1> QED BY <1>9, <1>10, <1>11, <1>14, <1>15 DEF Leaves, Length

(* Reading n bytes takes the first n and leaves the others (readBytes).    *)
LEMMA ReadLeaves ==
    ASSUME NEW q \in Seq(Block), NEW n \in Nat
    PROVE  Leaves(q, n, AfterRead(q, n))
  BY AllRead, SomeRead

-----------------------------------------------------------------------------
(* Bytes with consecutive numbers.                                         *)
LEMMA BytesAre ==
    ASSUME NEW f \in Nat \ {0}, NEW n \in Nat
    PROVE  /\ Bytes(f, n) \in Seq(Nat) /\ Len(Bytes(f, n)) = n
           /\ \A i \in 1 .. n : Bytes(f, n)[i] = f + i - 1
<1>1. \A i \in 1 .. n : f + i - 1 \in Nat
  OBVIOUS
<1> QED BY <1>1 DEF Bytes

(* The first k of them.                                                    *)
LEMMA FirstBytes ==
    ASSUME NEW f \in Nat \ {0}, NEW n \in Nat, NEW k \in 0 .. n
    PROVE  SubSeq(Bytes(f, n), 1, k) = Bytes(f, k)
<1>1. PICK b \in Seq(Nat) : b = Bytes(f, n) /\ Len(b) = n /\ \A i \in 1 .. n : b[i] = f + i - 1
  BY BytesAre
<1>2. PICK c \in Seq(Nat) : c = Bytes(f, k) /\ Len(c) = k /\ \A i \in 1 .. k : c[i] = f + i - 1
  <2>1. k \in Nat
    OBVIOUS
  <2> QED BY <2>1, BytesAre
<1>3. SubSeq(b, 1, k) \in Seq(Nat) /\ Len(SubSeq(b, 1, k)) = k /\ \A i \in 1 .. k : SubSeq(b, 1, k)[i] = b[i]
  BY <1>1
<1>4. \A i \in 1 .. k : i \in 1 .. n
  OBVIOUS
<1>5. \A i \in 1 .. k : SubSeq(b, 1, k)[i] = c[i]
  BY <1>1, <1>2, <1>3, <1>4
<1>6. SubSeq(b, 1, k) = c
  BY <1>2, <1>3, <1>5, SeqEqual
<1> QED BY <1>1, <1>2, <1>6

(* The next k behind the first n.                                          *)
LEMMA NextBytes ==
    ASSUME NEW n \in Nat, NEW k \in Nat
    PROVE  Bytes(1, n) \o Bytes(n + 1, k) = Bytes(1, n + k)
<1>1. PICK a \in Seq(Nat) : a = Bytes(1, n) /\ Len(a) = n /\ \A i \in 1 .. n : a[i] = i
  <2>1. \A i \in 1 .. n : 1 + i - 1 = i
    OBVIOUS
  <2> QED BY <2>1, BytesAre
<1>2. PICK b \in Seq(Nat) : b = Bytes(n + 1, k) /\ Len(b) = k /\ \A i \in 1 .. k : b[i] = n + i
  <2>1. n + 1 \in Nat \ {0} /\ \A i \in 1 .. k : n + 1 + i - 1 = n + i
    OBVIOUS
  <2> QED BY <2>1, BytesAre
<1>3. PICK c \in Seq(Nat) : c = Bytes(1, n + k) /\ Len(c) = n + k /\ \A i \in 1 .. n + k : c[i] = i
  <2>1. PICK m \in Nat : m = n + k
    OBVIOUS
  <2>2. 1 \in Nat \ {0} /\ \A i \in 1 .. m : 1 + i - 1 = i
    OBVIOUS
  <2>3. /\ Bytes(1, m) \in Seq(Nat) /\ Len(Bytes(1, m)) = m
        /\ \A i \in 1 .. m : Bytes(1, m)[i] = 1 + i - 1
    BY <2>2, BytesAre
  <2> QED BY <2>1, <2>2, <2>3
<1>4. PICK w : w = a \o b
  OBVIOUS
<1>5. IsConcat(a, b, w)
  BY <1>4, ConcatIs
<1>6. /\ w \in Seq(Nat) /\ Len(w) = n + k
      /\ \A i \in 1 .. n : w[i] = a[i]
      /\ \A i \in 1 .. k : w[n + i] = b[i]
  BY <1>1, <1>2, <1>5 DEF IsConcat
<1>7. ASSUME NEW i \in 1 .. n + k PROVE w[i] = c[i]
  <2>1. CASE i \in 1 .. n
    BY <1>1, <1>3, <1>6, <2>1
  <2>2. CASE i \notin 1 .. n
    <3>1. PICK j \in 1 .. k : i = n + j
      <4>1. i - n \in 1 .. k /\ i = n + (i - n)
        BY <2>2
      <4> QED BY <4>1
    <3> QED BY <1>2, <1>3, <1>6, <3>1
  <2> QED BY <2>1, <2>2
<1>8. w = c
  BY <1>3, <1>6, <1>7, SeqEqual
<1> QED BY <1>1, <1>2, <1>3, <1>4, <1>8

(* What is in order stays so when the next bytes are written behind it,    *)
(* ...                                                                     *)
LEMMA InOrderMore ==
    ASSUME NEW s \in Seq(Nat), NEW n \in Nat, NEW k \in Nat, AllInOrder(s, n)
    PROVE  AllInOrder(s \o Bytes(n + 1, k), n + k)
<1>1. PICK m \in Nat : Len(s) = m /\ DOMAIN s = 1 .. m
  BY LenProperties
<1>2. PICK b \in Seq(Nat) : b = Bytes(n + 1, k) /\ Len(b) = k /\ \A i \in 1 .. k : b[i] = n + i
  <2>1. n + 1 \in Nat \ {0} /\ \A i \in 1 .. k : n + 1 + i - 1 = n + i
    OBVIOUS
  <2> QED BY <2>1, BytesAre
<1>3. PICK w : w = s \o b
  OBVIOUS
<1>4. IsConcat(s, b, w)
  BY <1>3, ConcatIs
<1>5. /\ w \in Seq(Nat) /\ Len(w) = m + k /\ DOMAIN w = 1 .. m + k
      /\ \A i \in 1 .. m : w[i] = s[i]
      /\ \A i \in 1 .. k : w[m + i] = n + i
  BY <1>1, <1>2, <1>4 DEF IsConcat
<1> DEFINE old == {i \in DOMAIN s : s[i] # 0}
           own == {i \in DOMAIN w : w[i] # 0}
<1>6. /\ {s[i] : i \in old} = 1 .. n
      /\ \A i, j \in old : i < j => s[i] < s[j]
  BY DEF AllInOrder
<1>7. \A i \in 1 .. m + k : i \in 1 .. m \/ \E j \in 1 .. k : i = m + j
  <2> SUFFICES ASSUME NEW i \in 1 .. m + k, i \notin 1 .. m PROVE \E j \in 1 .. k : i = m + j
    OBVIOUS
  <2>1. i - m \in 1 .. k /\ i = m + (i - m)
    OBVIOUS
  <2> QED BY <2>1
<1>8. \A i \in 1 .. m : i \in own <=> i \in old
  <2>1. \A i \in 1 .. m : i \in 1 .. m + k
    OBVIOUS
  <2> QED BY <1>1, <1>5, <2>1
<1>9. \A j \in 1 .. k : m + j \in own /\ w[m + j] = n + j
  <2>1. \A j \in 1 .. k : m + j \in 1 .. m + k /\ n + j # 0
    OBVIOUS
  <2> QED BY <1>5, <2>1
<1>10. \A i \in old : i \in 1 .. m /\ w[i] = s[i] /\ s[i] \in 1 .. n
  BY <1>1, <1>5, <1>6
<1>11. \A i \in own : i \in old \/ \E j \in 1 .. k : i = m + j
  BY <1>5, <1>7, <1>8
<1> HIDE DEF old, own
<1>12. {w[i] : i \in own} = 1 .. n + k
  <2>1. ASSUME NEW i \in own PROVE w[i] \in 1 .. n + k
    <3>1. CASE i \in old
      BY <1>10, <3>1
    <3>2. CASE i \notin old
      <4>1. PICK j \in 1 .. k : i = m + j
        BY <1>11, <3>2
      <4>2. n + j \in 1 .. n + k
        OBVIOUS
      <4> QED BY <1>9, <4>1, <4>2
    <3> QED BY <3>1, <3>2
  <2>2. ASSUME NEW v \in 1 .. n + k PROVE \E i \in own : w[i] = v
    <3>1. CASE v \in 1 .. n
      <4>1. PICK i \in old : s[i] = v
        BY <1>6, <3>1
      <4> QED BY <1>8, <1>10, <4>1
    <3>2. CASE v \notin 1 .. n
      <4>1. PICK j \in 1 .. k : v = n + j
        <5>1. v - n \in 1 .. k /\ v = n + (v - n)
          BY <3>2
        <5> QED BY <5>1
      <4> QED BY <1>9, <4>1
    <3> QED BY <3>1, <3>2
  <2> QED BY <2>1, <2>2
<1>13. ASSUME NEW i \in own, NEW j \in own, i < j PROVE w[i] < w[j]
  <2>1. CASE j \in old
    <3>1. i \in old
      <4> SUFFICES ASSUME NEW h \in 1 .. k, i = m + h PROVE FALSE
        BY <1>11
      <4> QED BY <1>10, <1>13, <2>1
    <3> QED BY <1>6, <1>10, <1>13, <2>1, <3>1
  <2>2. CASE j \notin old
    <3>1. PICK h \in 1 .. k : j = m + h
      BY <1>11, <2>2
    <3>2. CASE i \in old
      <4>1. w[i] \in 1 .. n
        BY <1>10, <3>2
      <4>2. w[j] = n + h
        BY <1>9, <3>1
      <4>3. w[i] < n + h
        BY <4>1
      <4> QED BY <4>2, <4>3
    <3>3. CASE i \notin old
      <4>1. PICK g \in 1 .. k : i = m + g
        BY <1>11, <3>3
      <4>2. g < h
        BY <1>13, <3>1, <4>1
      <4>3. w[i] = n + g /\ w[j] = n + h
        BY <1>9, <3>1, <4>1
      <4> QED BY <4>2, <4>3
    <3> QED BY <3>2, <3>3
  <2> QED BY <2>1, <2>2
<1>14. AllInOrder(w, n + k)
  BY <1>12, <1>13 DEF AllInOrder, own
<1> QED BY <1>2, <1>3, <1>14

(* ... and when a part of a CRLF is.                                       *)
LEMMA InOrderZeros ==
    ASSUME NEW s \in Seq(Nat), NEW z \in Seq(Nat), \A i \in DOMAIN z : z[i] = 0, NEW n, AllInOrder(s, n)
    PROVE  AllInOrder(s \o z, n)
<1>1. PICK m \in Nat, k \in Nat : Len(s) = m /\ DOMAIN s = 1 .. m /\ Len(z) = k /\ DOMAIN z = 1 .. k
  BY LenProperties
<1>2. PICK w : w = s \o z
  OBVIOUS
<1>3. IsConcat(s, z, w)
  BY <1>2, ConcatIs
<1>4. /\ w \in Seq(Nat) /\ Len(w) = m + k /\ DOMAIN w = 1 .. m + k
      /\ \A i \in 1 .. m : w[i] = s[i]
      /\ \A i \in 1 .. k : w[m + i] = 0
  <2>1. /\ w \in Seq(Nat) /\ Len(w) = m + k
        /\ \A i \in 1 .. m : w[i] = s[i]
        /\ \A i \in 1 .. k : w[m + i] = z[i]
    BY <1>1, <1>3 DEF IsConcat
  <2>2. \A i \in 1 .. k : z[i] = 0
    BY <1>1
  <2>3. \A i \in 1 .. k : w[m + i] = 0
    BY <2>1, <2>2
  <2>4. DOMAIN w = 1 .. m + k
    BY <2>1, LenProperties
  <2> QED BY <2>1, <2>3, <2>4
<1> DEFINE old == {i \in DOMAIN s : s[i] # 0}
           own == {i \in DOMAIN w : w[i] # 0}
<1>5. own = old
  <2>1. ASSUME NEW i \in 1 .. m + k, i \notin 1 .. m PROVE w[i] = 0
    <3>1. i - m \in 1 .. k /\ i = m + (i - m)
      BY <2>1
    <3> QED BY <1>4, <3>1
  <2>2. \A i \in 1 .. m : i \in 1 .. m + k
    OBVIOUS
  <2> QED BY <1>1, <1>4, <2>1, <2>2
<1>6. \A i \in old : w[i] = s[i]
  BY <1>1, <1>4
<1>7. {s[i] : i \in old} = 1 .. n /\ \A i, j \in old : i < j => s[i] < s[j]
  BY DEF AllInOrder
<1> HIDE DEF old
<1>8. {w[i] : i \in old} = 1 .. n /\ \A i, j \in old : i < j => w[i] < w[j]
  <2>1. {w[i] : i \in old} = {s[i] : i \in old}
    BY <1>6
  <2> QED BY <1>6, <1>7, <2>1
<1>9. AllInOrder(w, n)
  BY <1>5, <1>8 DEF AllInOrder
<1> QED BY <1>2, <1>9

(* What a CRLF is written behind ends in it.                               *)
LEMMA CRLFBehind ==
    ASSUME NEW s \in Seq(Nat)
    PROVE  IsSuffix(CRLF, s \o CRLF)
<1>1. PICK m \in Nat : Len(s) = m
  BY LenProperties
<1>2. CRLF \in Seq(Nat) /\ Len(CRLF) = 2 /\ CRLF[1] = 0 /\ CRLF[2] = 0
  BY DEF CRLF
<1>3. PICK w : w = s \o CRLF
  OBVIOUS
<1>4. IsConcat(s, CRLF, w)
  BY <1>2, <1>3, ConcatIs
<1>5. Len(w) = m + 2 /\ w[m + 1] = 0 /\ w[m + 2] = 0
  <2>1. 1 \in 1 .. 2 /\ 2 \in 1 .. 2
    OBVIOUS
  <2> QED BY <1>1, <1>2, <1>4, <2>1 DEF IsConcat
<1> DEFINE a == Reverse(CRLF)
           b == Reverse(w)
<1>6. Len(a) = 2 /\ a[1] = 0 /\ a[2] = 0
  BY <1>2 DEF Reverse
<1>7. b = [i \in 1 .. m + 2 |-> w[m + 2 - i + 1]]
  BY <1>5 DEF Reverse
<1>8. Len(b) = m + 2 /\ b[1] = 0 /\ b[2] = 0
  <2>1. 1 \in 1 .. m + 2 /\ 2 \in 1 .. m + 2 /\ m + 2 - 1 + 1 = m + 2 /\ m + 2 - 2 + 1 = m + 1
    OBVIOUS
  <2>2. Len(b) = m + 2
    BY <1>7
  <2> QED BY <1>5, <1>7, <2>1, <2>2
<1> HIDE DEF a, b
<1>9. SubSeq(a, 1, 2) = SubSeq(b, 1, 2)
  <2>1. \A i \in 1 .. 2 : a[i] = 0 /\ b[i] = 0 /\ a[i] \in Nat /\ b[i] \in Nat
    <3>1. \A i \in 1 .. 2 : i = 1 \/ i = 2
      OBVIOUS
    <3> QED BY <1>6, <1>8, <3>1
  <2>2. PICK c, d : c = SubSeq(a, 1, 2) /\ d = SubSeq(b, 1, 2)
    OBVIOUS
  <2>3. c \in Seq(Nat) /\ Len(c) = 2 /\ \A i \in 1 .. 2 : c[i] = a[i]
    BY <2>1, <2>2
  <2>4. d \in Seq(Nat) /\ Len(d) = 2 /\ \A i \in 1 .. 2 : d[i] = b[i]
    BY <2>1, <2>2
  <2>5. c = d
    BY <2>1, <2>3, <2>4, SeqEqual
  <2> QED BY <2>2, <2>5
<1>10. IsPrefix(a, b)
  BY <1>6, <1>8, <1>9 DEF IsPrefix
<1> QED BY <1>3, <1>10 DEF IsSuffix, a, b

-----------------------------------------------------------------------------
(* What the queue holds in each state, and that what is posted is whole as *)
(* long as netlib may still be asked to post it.                           *)
Queued ==
    /\ postData \in Seq(Nat) /\ posted \in Nat
    /\ state \notin {"OPENED", "LIBNET_DONE"} => dataQueue \in Seq(Block)
    /\ state \in {"OPENING", "JAVA_DONE", "CLOSED"} => dataQueue = <<>>
    /\ state = "POSTING" => Neat(dataQueue)

SoFar == postData \o (IF state = "POSTING" THEN Contents(dataQueue) ELSE <<>>)

Postable == state \in {"OPENING", "POSTING"} \/ pc[Opener] = "getURL" \/ net # "none"

Whole ==
    /\ postData = <<>> \/ IsSuffix(CRLF, postData)
    /\ Postable => AllInOrder(SoFar, posted)

(* A write of s: all of it, or what fits into the block that is there.     *)
Takes(q, s, k, r) ==
    /\ k \in 0 .. Len(s) /\ r \in Seq(Block) /\ Neat(r)
    /\ Contents(r) = Contents(q) \o SubSeq(s, 1, k)
    /\ Length(r) - Length(q) = k

(* A write takes a first part of s, and adds it at the end.                *)
LEMMA Taking ==
    ASSUME NEW q \in Seq(Block), Neat(q), NEW s \in Seq(Nat), NEW r,
           r = WriteBytes(q, s) \/ r = Filled(q, s)
    PROVE  \E k : Takes(q, s, k, r)
<1>1. PICK n \in Nat : Len(s) = n
  BY LenProperties
<1>2. PICK k \in 0 .. n : r \in Seq(Block) /\ Neat(r) /\ Contents(r) = Contents(q) \o SubSeq(s, 1, k)
  <2>1. CASE r = WriteBytes(q, s)
    <3>1. r \in Seq(Block) /\ Neat(r) /\ Contents(r) = Contents(q) \o s
      BY <2>1, WrittenNeatly DEF Follows
    <3>2. SubSeq(s, 1, n) = s /\ n \in 0 .. n
      BY <1>1, SubSeqFull
    <3> QED BY <3>1, <3>2
  <2>2. CASE r = Filled(q, s)
    <3>1. FillsUp(q, s, r, Fitting(q, s))
      BY <2>2, FilledNeatly
    <3> QED BY <1>1, <3>1 DEF FillsUp
  <2> QED BY <2>1, <2>2
<1>3. PICK c \in Seq(Nat), b \in Seq(Nat) : c = Contents(q) /\ b = SubSeq(s, 1, k) /\ Len(b) = k
  <2>1. SubSeq(s, 1, k) \in Seq(Nat) /\ Len(SubSeq(s, 1, k)) = k
    BY <1>1
  <2> QED BY <2>1, ContentsType
<1>4. Len(c \o b) = Len(c) + Len(b) /\ Len(c) \in Nat
  BY ConcatProperties, LenProperties
<1>5. Length(r) = Len(c \o b) /\ Length(q) = Len(c)
  BY <1>2, <1>3 DEF Length
<1>6. Length(r) - Length(q) = k
  BY <1>3, <1>4, <1>5
<1> QED BY <1>1, <1>2, <1>6 DEF Takes

(* The steps that change neither the queue nor what has been posted.       *)
LEMMA WholeKept ==
    ASSUME Queued, Whole, UNCHANGED <<dataQueue, postData, posted>>,
           state' = state \/ (state = "OPENING" /\ state' = "POSTING")
             \/ (state' = "OPENED" /\ state # "POSTING"),
           Postable' => Postable
    PROVE  Queued' /\ Whole'
<1>1. Queued'
  <2>1. state' = "POSTING" => Neat(dataQueue)
    BY DEF Queued, Neat
  <2>2. state' \in {"OPENING", "JAVA_DONE", "CLOSED"} => dataQueue = <<>>
    BY DEF Queued
  <2>3. /\ postData' \in Seq(Nat) /\ posted' \in Nat
        /\ state' \notin {"OPENED", "LIBNET_DONE"} => dataQueue' \in Seq(Block)
        /\ state' \in {"OPENING", "JAVA_DONE", "CLOSED"} => dataQueue' = <<>>
    BY <2>2 DEF Queued
  <2>4. state' = "POSTING" => Neat(dataQueue')
    BY <2>1
  <2> QED BY <2>3, <2>4 DEF Queued
<1>2. SoFar' = SoFar
  <2>1. CASE state' = state
    BY <2>1 DEF SoFar
  <2>2. CASE state = "OPENING" /\ state' = "POSTING"
    <3>1. dataQueue = <<>>
      BY <2>2 DEF Queued
    <3>2. Contents(dataQueue) = <<>>
      <4>1. <<>> \in Seq(Block)
        OBVIOUS
      <4>2. Contents(<<>>) = <<>>
        BY <4>1, ContentsType
      <4> QED BY <3>1, <4>2
    <3> QED BY <2>2, <3>2 DEF SoFar
  <2>3. CASE state' # "POSTING" /\ state # "POSTING"
    BY <2>3 DEF SoFar
  <2> QED BY <2>1, <2>2, <2>3
<1>3. Whole'
  BY <1>2 DEF Whole
<1> QED BY <1>1, <1>3

(* The steps by which Java posts.                                          *)
LEMMA PostingSteps ==
    ASSUME IInv, Queued, Whole, NEW t \in Java,
           OutputOpen(t) \/ (\E n \in PostSizes : OutputWrite(t, n))
             \/ OutputClose(t) \/ ConnectCloseOutput(t)
    PROVE  Queued' /\ Whole'
<1>1. CASE OutputOpen(t)
  <2>1. UNCHANGED <<dataQueue, postData, posted>> /\ pc' = pc /\ net' = net
    BY <1>1 DEF OutputOpen, history, netVars
  <2>2. state' = state \/ (state = "OPENING" /\ state' = "POSTING")
    BY <1>1 DEF OutputOpen
  <2>3. Postable' => Postable
    BY <2>1, <2>2 DEF Postable
  <2> QED BY <2>1, <2>2, <2>3, WholeKept
<1>2. CASE \E n \in PostSizes : OutputWrite(t, n)
  <2>1. PICK n \in PostSizes : OutputWrite(t, n)
    BY <1>2
  <2>2. PICK m \in Nat : m = posted
    BY DEF Queued
  <2>3. /\ state = "POSTING" /\ state' = state /\ postData' = postData
        /\ posted' = m + Accepted
    BY <2>1, <2>2 DEF OutputWrite
  <2>4. PICK s \in Seq(Nat) : s = Bytes(m + 1, n) /\ Len(s) = n /\ n \in Nat
    <3>1. m + 1 \in Nat \ {0} /\ n \in Nat
      BY StreamAssumption
    <3> QED BY <3>1, BytesAre
  <2>5. PICK q \in Seq(Block) : q = dataQueue /\ Neat(q)
    BY <2>3 DEF Queued
  <2>17. PICK r : r = dataQueue'
    OBVIOUS
  <2>6. r = WriteBytes(q, s) \/ r = Filled(q, s)
    BY <2>1, <2>2, <2>4, <2>5, <2>17 DEF OutputWrite, Written
  <2>7. PICK k : Takes(q, s, k, r)
    BY <2>5, <2>17, <2>6, Taking
  <2>8. k \in 0 .. n /\ k \in Nat /\ r \in Seq(Block) /\ Neat(r)
    BY <2>4, <2>7 DEF Takes
  <2>9. Contents(r) = Contents(q) \o Bytes(m + 1, k)
    <3>1. m + 1 \in Nat \ {0}
      OBVIOUS
    <3>2. SubSeq(Bytes(m + 1, n), 1, k) = Bytes(m + 1, k)
      BY <2>4, <2>8, <3>1, FirstBytes
    <3> QED BY <2>4, <2>7, <3>2 DEF Takes
  <2>10. posted' = m + k
    BY <2>3, <2>5, <2>17, <2>7 DEF Accepted, Takes
  <2>11. Queued'
    BY <2>3, <2>5, <2>17, <2>8, <2>10 DEF Queued
  <2>12. AllInOrder(SoFar, m)
    BY <2>2, <2>3 DEF Whole, Postable
  <2>13. PICK x \in Seq(Nat), y \in Seq(Nat), z \in Seq(Nat) :
                x = postData /\ y = Contents(q) /\ z = Bytes(m + 1, k)
    <3>1. m + 1 \in Nat \ {0}
      OBVIOUS
    <3> QED BY <2>8, <3>1, ContentsType, BytesAre DEF Queued
  <2>14. SoFar = x \o y /\ SoFar' = x \o (y \o z) /\ (x \o y) \o z = x \o (y \o z)
    <3>1. (x \o y) \o z = x \o (y \o z)
      BY Regroup, Zenon
    <3> QED BY <2>3, <2>5, <2>17, <2>9, <2>13, <3>1 DEF SoFar
  <2>15. AllInOrder(SoFar', m + k)
    <3>1. PICK v \in Seq(Nat) : v = x \o y
      <4>1. x \o y \in Seq(Nat)
        BY ConcatProperties
      <4> QED BY <4>1
    <3>2. AllInOrder(v \o Bytes(m + 1, k), m + k)
      BY <2>8, <2>12, <2>14, <3>1, InOrderMore
    <3> QED BY <2>13, <2>14, <3>1, <3>2
  <2>16. Whole'
    BY <2>3, <2>10, <2>15 DEF Whole
  <2> QED BY <2>11, <2>16
<1>3. CASE OutputClose(t) \/ ConnectCloseOutput(t)
  <2>1. PICK next \in {"java", "open"} : PClose(t, next)
    BY <1>3 DEF OutputClose, ConnectCloseOutput
  <2>2. net' = net /\ posted' = posted
    BY <1>3 DEF OutputClose, ConnectCloseOutput, netVars, history
  <2>3. pc'[Opener] = "getURL" => pc[Opener] = "getURL"
    <3>1. pc' = [pc EXCEPT ![t] = next] \/ pc' = [pc EXCEPT ![t] = "java"]
      BY <2>1 DEF PClose, GoTo
    <3> QED BY <3>1, StreamAssumption DEF IInv, StreamTypeOK
  <2>4. CASE state # "POSTING"
    <3>1. UNCHANGED <<state, dataQueue, postData>>
      BY <2>1, <2>4 DEF PClose
    <3>2. Postable' => Postable
      BY <2>2, <2>3, <3>1 DEF Postable
    <3> QED BY <2>2, <3>1, <3>2, WholeKept
  <2>5. CASE state = "POSTING"
    <3>1. PICK q \in Seq(Block), p \in Seq(Nat), n \in Nat :
                 q = dataQueue /\ p = postData /\ n = posted /\ Neat(q)
      BY <2>5 DEF Queued
    <3>2. PICK x \in Seq(Nat) : x = Contents(q) /\ p \o x \in Seq(Nat)
      BY ContentsType
    <3>3. CRLF \in Seq(Nat) /\ Len(CRLF) = 2 /\ \A i \in DOMAIN CRLF : CRLF[i] = 0
      BY DEF CRLF
    <3>4. AllInOrder(p \o x, n)
      BY <2>5, <3>1, <3>2 DEF Whole, Postable, SoFar
    <3>5. CASE /\ postData' = PostData
               /\ dataQueue' = <<>> /\ state' = "OPENING"
      <4>1. Contents(WriteBytes(q, CRLF)) = x \o CRLF
        BY <3>1, <3>2, <3>3, WrittenNeatly DEF Follows
      <4>2. postData' = (p \o x) \o CRLF
        <5>1. (p \o x) \o CRLF = p \o (x \o CRLF)
          BY <3>3, Regroup, Zenon
        <5> QED BY <3>1, <3>5, <4>1, <5>1 DEF PostData
      <4>3. postData' \in Seq(Nat) /\ IsSuffix(CRLF, postData') /\ AllInOrder(postData', n)
        <5>1. PICK v \in Seq(Nat) : v = p \o x
          BY <3>2
        <5>2. IsSuffix(CRLF, v \o CRLF) /\ AllInOrder(v \o CRLF, n) /\ v \o CRLF \in Seq(Nat)
          <6>1. IsSuffix(CRLF, v \o CRLF)
            BY CRLFBehind
          <6>2. AllInOrder(v \o CRLF, n)
            BY <3>3, <3>4, <5>1, InOrderZeros
          <6>3. v \o CRLF \in Seq(Nat)
            BY <3>3, ConcatProperties
          <6> QED BY <6>1, <6>2, <6>3
        <5> QED BY <4>2, <5>1, <5>2
      <4>4. Queued'
        <5>1. <<>> \in Seq(Block)
          OBVIOUS
        <5> QED BY <2>2, <3>1, <3>5, <4>3, <5>1 DEF Queued
      <4>5. SoFar' = postData'
        BY <3>5, <4>3, ConcatEmptySeq DEF SoFar
      <4>6. Whole'
        BY <2>2, <3>1, <4>3, <4>5 DEF Whole
      <4> QED BY <4>4, <4>6
    <3>6. CASE /\ UNCHANGED <<state, postData>>
               /\ dataQueue' = WriteBytes(q, CRLF) \/ dataQueue' = Filled(q, CRLF)
      <4>1. PICK r : r = dataQueue'
        OBVIOUS
      <4>2. PICK k : Takes(q, CRLF, k, r)
        BY <3>1, <3>3, <3>6, <4>1, Taking
      <4>3. PICK z \in Seq(Nat) : z = SubSeq(CRLF, 1, k) /\ \A i \in DOMAIN z : z[i] = 0
        <5>1. PICK c \in Seq(Nat) : c = CRLF /\ Len(c) = 2 /\ \A i \in 1 .. 2 : c[i] = 0
          <6>1. DOMAIN CRLF = 1 .. 2
            BY <3>3
          <6> QED BY <3>3, <6>1
        <5>2. k \in 0 .. 2 /\ \A i \in 1 .. k : i \in 1 .. 2
          BY <3>3, <4>2 DEF Takes
        <5>3. PICK z : z = SubSeq(c, 1, k)
          OBVIOUS
        <5>4. z \in Seq(Nat) /\ Len(z) = k /\ \A i \in 1 .. k : z[i] = c[i]
          BY <5>1, <5>2, <5>3
        <5>5. DOMAIN z = 1 .. k
          BY <5>4, LenProperties
        <5> QED BY <5>1, <5>2, <5>3, <5>4, <5>5
      <4>4. r \in Seq(Block) /\ Neat(r) /\ Contents(r) = x \o z
        BY <3>2, <4>2, <4>3 DEF Takes
      <4>5. Queued'
        BY <2>2, <2>5, <3>1, <3>6, <4>1, <4>4 DEF Queued
      <4>6. SoFar' = (p \o x) \o z
        <5>1. (p \o x) \o z = p \o (x \o z)
          BY Regroup, Zenon
        <5> QED BY <2>5, <3>1, <3>6, <4>1, <4>4, <5>1 DEF SoFar
      <4>7. AllInOrder(SoFar', n)
        <5>1. PICK v \in Seq(Nat) : v = p \o x
          BY <3>2
        <5>2. AllInOrder(v \o z, n)
          BY <3>4, <4>3, <5>1, InOrderZeros
        <5> QED BY <4>6, <5>1, <5>2
      <4>8. Whole'
        BY <2>2, <3>1, <3>6, <4>7 DEF Whole
      <4> QED BY <4>5, <4>8
    <3> QED BY <2>1, <2>5, <3>1, <3>5, <3>6 DEF PClose
  <2> QED BY <2>4, <2>5
<1> QED BY <1>1, <1>2, <1>3

(* The steps by which the stream is opened, and those without any bytes.   *)
LEMMA QuietSteps ==
    ASSUME IInv, Queued, Whole,
           \/ \E t \in Java : Connect(t) \/ Open(t) \/ GetURL(t) \/ GotURL(t) \/ Opened(t) \/ Stop(t)
           \/ FinalizeLoad \/ FinalizeStore \/ Make \/ MakeOpen \/ Complete \/ Abort \/ ExitStore
           \/ UNCHANGED vars
    PROVE  Queued' /\ Whole'
<1> USE DEF dataVars, javaVars, netVars, history
<1>1. UNCHANGED <<dataQueue, postData, posted>>
  BY DEF Connect, Open, GetURL, GotURL, Opened, Stop, FinalizeLoad, FinalizeStore, Make, MakeOpen,
         Complete, Abort, ExitStore, vars
<1>2. state' = state \/ (MakeOpen /\ state' = "OPENED" /\ state # "POSTING")
  <2>1. MakeOpen => state' = "OPENED" /\ state # "POSTING"
    BY DEF MakeOpen, IInv, Agree
  <2>2. ~MakeOpen => state' = state
    BY DEF Connect, Open, GetURL, GotURL, Opened, Stop, FinalizeLoad, FinalizeStore, Make,
           Complete, Abort, ExitStore, vars
  <2> QED BY <2>1, <2>2
<1>3. Postable' => Postable
  <2>1. CASE \E t \in Java : GetURL(t)
    <3>1. PICK t \in Java : GetURL(t)
      BY <2>1
    <3>2. t = Opener /\ pc[t] = "getURL"
      BY <3>1 DEF GetURL, IInv, OneOpener, OpenerOnly
    <3> QED BY <3>2 DEF Postable
  <2>2. CASE \E t \in Java : Open(t)
    <3>1. PICK t \in Java : Open(t)
      BY <2>2
    <3>2. state' = state /\ net' = net /\ (state = "OPENING" \/ pc' = [pc EXCEPT ![t] = "java"])
      BY <3>1 DEF Open, Opens, GoTo
    <3>3. pc'[Opener] = "getURL" => state = "OPENING" \/ pc[Opener] = "getURL"
      BY <3>2, StreamAssumption DEF IInv, StreamTypeOK
    <3> QED BY <3>2, <3>3 DEF Postable
  <2>3. CASE \E t \in Java : Connect(t) \/ GotURL(t) \/ Opened(t) \/ Stop(t)
    <3>1. PICK t \in Java : Connect(t) \/ GotURL(t) \/ Opened(t) \/ Stop(t)
      BY <2>3
    <3>2. state' = state /\ net' = net
          /\ \E p \in {"closeOutput", "open", "opening", "java"} : pc' = [pc EXCEPT ![t] = p]
      BY <3>1 DEF Connect, GotURL, Opened, Stop, GoTo
    <3>3. pc'[Opener] = "getURL" => pc[Opener] = "getURL"
      BY <3>2, StreamAssumption DEF IInv, StreamTypeOK
    <3> QED BY <3>2, <3>3 DEF Postable
  <2>4. CASE FinalizeLoad \/ FinalizeStore \/ UNCHANGED vars
    BY <2>4 DEF FinalizeLoad, FinalizeStore, vars, Postable
  <2>5. CASE Make \/ MakeOpen \/ Complete \/ Abort \/ ExitStore
    BY <2>5 DEF Make, MakeOpen, Complete, Abort, ExitStore, Postable
  <2> QED BY <2>1, <2>2, <2>3, <2>4, <2>5
<1> QED BY <1>1, <1>2, <1>3, WholeKept

(* Closing by Java empties the queue: what it posts then is nothing.       *)
LEMMA ClosesKeepWhole ==
    ASSUME IInv, Queued, Whole, (\E t \in Java : Close(t)) \/ CloseJavaConnection \/ Finalize
    PROVE  Queued' /\ Whole'
<1>1. JavaClose /\ pc' = pc /\ net' = net /\ posted' = posted
  BY DEF Close, CloseJavaConnection, Finalize, javaVars, netVars, history
<1>2. /\ dataQueue' = <<>> /\ postData' = postData
      /\ state' \in {"JAVA_DONE", "CLOSED"}
  BY <1>1 DEF JavaClose, JavaClosed, IInv, StreamTypeOK
<1>3. Queued'
  <2>1. <<>> \in Seq(Block)
    OBVIOUS
  <2> QED BY <1>1, <1>2, <2>1 DEF Queued
<1>4. Postable' => Postable /\ state # "POSTING"
  BY <1>1, <1>2 DEF Postable, IInv, StreamTypeOK, Agree, OneOpener
<1>5. Postable' => SoFar' = SoFar
  BY <1>2, <1>4 DEF SoFar
<1>6. Whole'
  BY <1>1, <1>2, <1>4, <1>5 DEF Whole
<1> QED BY <1>3, <1>6

(* Netlib and the readers use the queue when nothing is posted any more.   *)
LEMMA StreamingSteps ==
    ASSUME IInv, Queued, Whole,
           (\E t \in Java : \E n \in ReadSizes : Read(t, n)) \/ (\E n \in WriteSizes : Write(n)) \/ Exit
    PROVE  Queued' /\ Whole'
<1> USE DEF dataVars, javaVars, netVars, history
<1>1. CASE \E t \in Java : \E n \in ReadSizes : Read(t, n)
  <2>1. PICK t \in Java, n \in ReadSizes : Read(t, n)
    BY <1>1
  <2>2. /\ UNCHANGED <<state, postData, posted, net>>
        /\ \E p \in {"java", "reading"} : pc' = [pc EXCEPT ![t] = p]
    BY <2>1 DEF Read, GoTo
  <2>3. Postable' => Postable
    <3>1. pc'[Opener] = "getURL" => pc[Opener] = "getURL"
      BY <2>2, StreamAssumption DEF IInv, StreamTypeOK
    <3> QED BY <2>2, <3>1 DEF Postable
  <2>4. CASE dataQueue' = dataQueue
    BY <2>2, <2>3, <2>4, WholeKept
  <2>5. CASE dataQueue' # dataQueue
    <3>1. state \in {"OPENED", "LIBNET_DONE"}
      BY <2>1, <2>5 DEF Read
    <3>3. Queued'
      BY <2>2, <3>1 DEF Queued
    <3>4. SoFar' = SoFar
      BY <2>2, <3>1 DEF SoFar
    <3> QED BY <2>2, <2>3, <3>3, <3>4 DEF Whole
  <2> QED BY <2>4, <2>5
<1>2. CASE \E n \in WriteSizes : Write(n)
  <2>1. PICK n \in WriteSizes : Write(n)
    BY <1>2
  <2>2. UNCHANGED <<state, postData, posted>> /\ net # "none"
    BY <2>1 DEF Write
  <2>3. Postable' => Postable
    BY <2>2 DEF Postable
  <2>4. CASE state # "OPENED"
    <3>1. UNCHANGED dataQueue
      BY <2>1, <2>4 DEF Write
    <3> QED BY <2>2, <2>3, <3>1, WholeKept
  <2>5. CASE state = "OPENED"
    <3>4. Queued'
      BY <2>2, <2>5 DEF Queued
    <3>5. SoFar' = SoFar
      BY <2>2, <2>5 DEF SoFar
    <3> QED BY <2>2, <2>3, <3>4, <3>5 DEF Whole
  <2> QED BY <2>4, <2>5
<1>3. CASE Exit
  <2>1. UNCHANGED <<pc, postData, posted>> /\ net # "none"
    BY <1>3 DEF Exit
  <2>2. state # "POSTING" /\ state' # "POSTING"
    BY <1>3 DEF Exit, ExitState, IInv, Agree
  <2>3. Queued'
    <3>1. <<>> \in Seq(Block)
      OBVIOUS
    <3>2. state' \in {"OPENING", "JAVA_DONE", "CLOSED"} => dataQueue' = <<>>
      BY <1>3 DEF Exit, ExitState, ExitFrees, ExitError, IInv, Agree, Queued
    <3>3. state' \in {"OPENED", "LIBNET_DONE", "OPENING", "JAVA_DONE", "CLOSED"}
      BY <1>3, <2>2 DEF Exit, ExitState, IInv, StreamTypeOK
    <3> QED BY <2>1, <2>2, <3>1, <3>2, <3>3 DEF Queued
  <2>4. Postable
    BY <2>1 DEF Postable
  <2>5. SoFar' = SoFar
    BY <2>1, <2>2 DEF SoFar
  <2> QED BY <2>1, <2>3, <2>4, <2>5 DEF Whole
<1> QED BY <1>1, <1>2, <1>3

(* No step loses or reorders what is to be posted.                         *)
LEMMA WholeSteps ==
    ASSUME IInv, Queued, Whole, [Next]_vars
    PROVE  Queued' /\ Whole'
<1>1. CASE NetStep
  BY <1>1, QuietSteps, StreamingSteps DEF NetStep
<1>2. CASE \E t \in Java : JavaCall(t) \/ Inside(t)
  <2>1. PICK t \in Java : JavaCall(t) \/ Inside(t)
    BY <1>2
  <2> QED BY <2>1, PostingSteps, QuietSteps, ClosesKeepWhole, StreamingSteps DEF JavaCall, Inside
<1>3. CASE CloseJavaConnection \/ Finalize \/ FinalizeLoad \/ FinalizeStore \/ UNCHANGED vars
  BY <1>3, QuietSteps, ClosesKeepWhole
<1> QED BY <1>1, <1>2, <1>3 DEF Next

(* A connection begins with nothing to post.                               *)
LEMMA WholeBegins ==
    ASSUME Init
    PROVE  Queued /\ Whole
<1>1. <<>> \in Seq(Block) /\ <<>> \in Seq(Nat)
  OBVIOUS
<1>2. Queued
  BY <1>1 DEF Init, Queued
<1>3. SoFar = <<>>
  BY <1>1, ConcatEmptySeq DEF Init, SoFar
<1>4. AllInOrder(<<>>, 0)
  <2>1. {i \in DOMAIN <<>> : <<>>[i] # 0} = {}
    OBVIOUS
  <2>2. {<<>>[i] : i \in {}} = 1 .. 0
    OBVIOUS
  <2> QED BY <2>1, <2>2 DEF AllInOrder
<1> QED BY <1>2, <1>3, <1>4 DEF Init, Whole

(* What netlib is asked to post is all that Java has written, in order and *)
(* with a CRLF behind it, whatever is closed when, and though the closes   *)
(* of the output may have failed and been made again.                      *)
THEOREM PostsInOrder == Spec => []PostedInOrder
<1> DEFINE PInv == IInv /\ Queued /\ Whole
<1>1. Init => PInv
  BY Begin, WholeBegins
<1>2. PInv /\ [Next]_vars => PInv'
  <2> SUFFICES ASSUME PInv, [Next]_vars PROVE PInv'
    OBVIOUS
  <2>1. IInv'
    BY Kept
  <2>2. Queued' /\ Whole'
    BY WholeSteps
  <2> QED BY <2>1, <2>2
<1>3. PInv => PostedInOrder
  <2> SUFFICES ASSUME PInv, net # "none", postData # <<>>
               PROVE  AllInOrder(postData, posted) /\ IsSuffix(CRLF, postData)
    BY DEF PostedInOrder
  <2>1. state # "POSTING"
    BY DEF IInv, StreamTypeOK, Agree
  <2>2. SoFar = postData
    BY <2>1, ConcatEmptySeq DEF SoFar, Queued
  <2> QED BY <2>2 DEF Whole, Postable
<1> HIDE DEF PInv
<1> QED BY <1>1, <1>2, <1>3, PTL DEF Spec

-----------------------------------------------------------------------------
(* While the stream is read, what has been read and what is in the queue   *)
(* are what netlib has written.                                            *)
Arrived ==
    /\ got \in Seq(Nat) /\ sent \in 0 .. MaxBytes
    /\ net \in {"none", "asked", "making"} => sent = 0 /\ got = <<>>
    /\ state \in {"OPENED", "LIBNET_DONE"} =>
         /\ dataQueue \in Seq(Block) /\ Solid(dataQueue)
         /\ got \o Contents(dataQueue) = Bytes(1, sent)
    /\ ended => net \in {"exiting", "gone"}

(* nsn_DataQueue_writeBytes means to write "to the end of the current      *)
(* DataQueueElement".  It does if the element it fills up, which is the    *)
(* first, is also the last or has no room.                                 *)
WritesAtEnd == \A n \in WriteSizes : Write(n) /\ state = "OPENED" => Neat(dataQueue)

(* The second part of 1, 2, ..., s, whatever the first is.                 *)
LEMMA SplitBytes ==
    ASSUME NEW g \in Seq(Nat), NEW c \in Seq(Nat), NEW s \in Nat, g \o c = Bytes(1, s)
    PROVE  Len(g) + Len(c) = s /\ c = Bytes(Len(g) + 1, Len(c))
<1>1. PICK a \in Nat, b \in Nat : a = Len(g) /\ b = Len(c)
  BY LenProperties
<1>2. PICK w : w = g \o c
  OBVIOUS
<1>3. /\ w \in Seq(Nat) /\ Len(w) = a + b
      /\ \A i \in 1 .. b : w[a + i] = c[i]
  BY <1>1, <1>2, ConcatIs DEF IsConcat
<1>4. Len(w) = s /\ \A i \in 1 .. s : w[i] = i
  <2>1. 1 \in Nat \ {0} /\ \A i \in 1 .. s : 1 + i - 1 = i
    OBVIOUS
  <2>2. Len(Bytes(1, s)) = s /\ \A i \in 1 .. s : Bytes(1, s)[i] = 1 + i - 1
    BY <2>1, BytesAre
  <2> QED BY <1>2, <2>1, <2>2
<1>5. PICK d \in Seq(Nat) : d = Bytes(a + 1, b) /\ Len(d) = b /\ \A i \in 1 .. b : d[i] = a + i
  <2>1. PICK f \in Nat \ {0} : f = a + 1
    OBVIOUS
  <2>2. /\ Bytes(f, b) \in Seq(Nat) /\ Len(Bytes(f, b)) = b
        /\ \A i \in 1 .. b : Bytes(f, b)[i] = f + i - 1
    BY BytesAre
  <2>3. \A i \in 1 .. b : f + i - 1 = a + i
    BY <2>1
  <2> QED BY <2>1, <2>2, <2>3
<1>6. \A i \in 1 .. b : c[i] = d[i]
  <2>1. \A i \in 1 .. b : a + i \in 1 .. s
    BY <1>3, <1>4
  <2> QED BY <1>3, <1>4, <1>5, <2>1
<1>7. c = d
  BY <1>1, <1>5, <1>6, SeqEqual
<1> QED BY <1>1, <1>3, <1>4, <1>5, <1>7

(* What a read returns, and what it leaves, are what was there.            *)
LEMMA SplitAt ==
    ASSUME NEW c \in Seq(Nat), NEW n \in Nat
    PROVE  SubSeq(c, 1, Smaller(n, Len(c))) \o SubSeq(c, n + 1, Len(c)) = c
<1>1. PICK b \in Nat : b = Len(c)
  BY LenProperties
<1>2. CASE n < b
  <2>1. Smaller(n, b) = n
    BY <1>2 DEF Smaller
  <2>2. 1 \in 1 .. b + 1 /\ n \in 1 - 1 .. b /\ b \in n .. b
    BY <1>2
  <2>3. SubSeq(c, 1, n) \o SubSeq(c, n + 1, b) = SubSeq(c, 1, b)
    BY <1>1, <2>2, ConcatAdjacentSubSeq
  <2> QED BY <1>1, <2>1, <2>3, SubSeqFull
<1>3. CASE ~(n < b)
  <2>1. Smaller(n, b) = b
    BY <1>3 DEF Smaller
  <2>2. SubSeq(c, 1, b) = c
    BY <1>1, SubSeqFull
  <2>3. SubSeq(c, n + 1, b) = <<>>
    BY <1>3, SubSeqEmpty
  <2> QED BY <1>1, <2>1, <2>2, <2>3, ConcatEmptySeq
<1> QED BY <1>2, <1>3

(* A read takes the next bytes, or tells of the end behind the last.       *)
LEMMA ReadSteps ==
    ASSUME IInv, Arrived, NEW t \in Java, NEW n \in ReadSizes, Read(t, n)
    PROVE  Arrived' /\ [Stream!Next]_<<sent, got, ended>>
<1>1. UNCHANGED <<state, net, sent>> /\ n \in Nat \ {0}
  BY StreamAssumption DEF Read, netVars
<1>2. CASE /\ state \in {"OPENED", "LIBNET_DONE"} /\ ~NoInput
           /\ got' = got \o ReadAmount(dataQueue, n)
           /\ dataQueue' = AfterRead(dataQueue, n)
           /\ UNCHANGED ended
  <2>1. PICK q \in Seq(Block), g \in Seq(Nat), s \in 0 .. MaxBytes :
               q = dataQueue /\ g = got /\ s = sent /\ Solid(q) /\ q # <<>>
    BY <1>2 DEF Arrived, NoInput
  <2>2. PICK c \in Seq(Nat), b \in Nat : c = Contents(q) /\ b = Len(c)
    BY ContentsType, LenProperties
  <2>3. PICK a \in Nat : a = Len(g)
    BY LenProperties
  <2>19. PICK m : m = Smaller(n, b)
    OBVIOUS
  <2>4. s \in Nat /\ MaxBytes \in Nat
    BY StreamAssumption
  <2>5. a + b = s /\ c = Bytes(a + 1, b)
    <3>1. g \o c = Bytes(1, s)
      BY <1>2, <2>1, <2>2 DEF Arrived
    <3>2. Len(g) + Len(c) = s /\ c = Bytes(Len(g) + 1, Len(c))
      BY <2>4, <3>1, SplitBytes
    <3> QED BY <2>2, <2>3, <3>2
  <2>6. b # 0
    <3>1. c # <<>>
      BY <2>1, <2>2, SolidHasBytes
    <3> QED BY <2>2, <3>1, EmptySeq
  <2>7. m \in 1 .. b
    BY <1>1, <2>3, <2>19, <2>6 DEF Smaller
  <2>8. ReadAmount(q, n) = SubSeq(c, 1, m)
    BY <2>2, <2>19 DEF ReadAmount, Length
  <2>9. SubSeq(c, 1, m) = Bytes(a + 1, m)
    <3>1. a + 1 \in Nat \ {0} /\ m \in 0 .. b
      BY <2>7
    <3> QED BY <2>5, <3>1, FirstBytes
  <2>10. Leaves(q, n, AfterRead(q, n))
    BY <1>1, ReadLeaves
  <2>11. PICK r \in Seq(Block) : r = dataQueue' /\ Solid(r) /\ Contents(r) = SubSeq(c, n + 1, b)
    BY <1>2, <2>1, <2>2, <2>10 DEF Leaves, Length
  <2>12. PICK x \in Seq(Nat), y \in Seq(Nat) : x = SubSeq(c, 1, m) /\ y = Contents(r)
    <3>1. SubSeq(c, 1, m) \in Seq(Nat)
      BY <2>2, <2>7
    <3> QED BY <3>1, ContentsType
  <2>13. x \o y = c
    <3>1. SubSeq(c, 1, Smaller(n, Len(c))) \o SubSeq(c, n + 1, Len(c)) = c
      BY <1>1, SplitAt
    <3> QED BY <2>2, <2>3, <2>19, <2>11, <2>12, <3>1
  <2>14. got' = g \o x /\ g \o x \in Seq(Nat)
    <3>1. g \o x \in Seq(Nat)
      BY ConcatProperties
    <3> QED BY <1>2, <2>1, <2>8, <2>12, <3>1
  <2>15. got' \o Contents(dataQueue') = Bytes(1, sent')
    <3>1. (g \o x) \o y = g \o (x \o y)
      BY Regroup, Zenon
    <3>2. g \o c = Bytes(1, s)
      BY <1>2, <2>1, <2>2 DEF Arrived
    <3> QED BY <1>1, <2>1, <2>11, <2>12, <2>13, <2>14, <3>1, <3>2
  <2>16. Arrived'
    <3>1. net \notin {"none", "asked", "making"}
      BY <1>2 DEF IInv, Agree
    <3> QED BY <1>1, <1>2, <2>1, <2>11, <2>14, <2>15, <3>1 DEF Arrived
  <2>17. Stream!Get(m)
    <3>1. a + m <= s
      BY <2>5, <2>7
    <3>2. x = [i \in 1 .. m |-> a + i]
      <4>1. \A i \in 1 .. m : a + 1 + i - 1 = a + i
        OBVIOUS
      <4>2. Bytes(a + 1, m) = [i \in 1 .. m |-> a + i]
        BY <4>1 DEF Bytes
      <4> QED BY <2>9, <2>12, <4>2
    <3> QED BY <1>1, <1>2, <2>1, <2>3, <2>19, <2>14, <3>1, <3>2 DEF Stream!Get
  <2>18. m \in 1 .. MaxBytes
    BY <2>4, <2>5, <2>7
  <2> QED BY <2>16, <2>17, <2>18 DEF Stream!Next
<1>3. CASE /\ state \in {"OPENED", "LIBNET_DONE"} /\ NoInput /\ AtEnd
           /\ ended' = TRUE /\ UNCHANGED <<got, dataQueue>>
  <2>1. Len(got) = sent
    <3>1. <<>> \in Seq(Block)
      OBVIOUS
    <3>2. Contents(dataQueue) = <<>>
      BY <1>3, <3>1, ContentsType DEF NoInput
    <3>3. got = Bytes(1, sent) /\ sent \in Nat
      <4>1. got \o <<>> = Bytes(1, sent) /\ sent \in Nat
        BY <1>3, <3>2, StreamAssumption DEF Arrived
      <4> QED BY <4>1, ConcatEmptySeq DEF Arrived
    <3> QED BY <3>3, BytesAre
  <2>2. Stream!End
    BY <1>1, <1>3, <2>1 DEF Stream!End
  <2>3. net \in {"exiting", "gone"}
    BY <1>3 DEF AtEnd, IInv, Agree, StreamTypeOK
  <2>4. Arrived'
    BY <1>1, <1>3, <2>3 DEF Arrived
  <2> QED BY <2>2, <2>4 DEF Stream!Next
<1>4. CASE UNCHANGED <<got, ended, dataQueue>>
  BY <1>1, <1>4 DEF Arrived
<1> QED BY <1>2, <1>3, <1>4 DEF Read

(* A write at the end sends the next bytes, or none.                       *)
LEMMA WriteSteps ==
    ASSUME IInv, Arrived, WritesAtEnd, NEW n \in WriteSizes, Write(n)
    PROVE  Arrived' /\ [Stream!Next]_<<sent, got, ended>>
<1>1. /\ UNCHANGED <<state, got, ended>> /\ net = "open" /\ net' \in {"open", "aborting"}
      /\ n \in Nat \ {0} /\ sent + n <= MaxBytes /\ MaxBytes \in Nat
  BY StreamAssumption DEF Write
<1>2. CASE state # "OPENED"
  <2>1. UNCHANGED <<dataQueue, sent>>
    BY <1>2 DEF Write
  <2>2. Arrived'
    BY <1>1, <1>2, <2>1 DEF Arrived
  <2> QED BY <1>1, <2>1, <2>2
<1>3. CASE state = "OPENED"
  <2>1. PICK q \in Seq(Block), g \in Seq(Nat), s \in 0 .. MaxBytes :
               q = dataQueue /\ g = got /\ s = sent /\ Solid(q) /\ Neat(q)
    BY <1>3 DEF Arrived, WritesAtEnd
  <2>2. s \in Nat /\ s + 1 \in Nat \ {0}
    BY <1>1
  <2>3. PICK z \in Seq(Nat) : z = Bytes(s + 1, n) /\ Len(z) = n
    BY <1>1, <2>2, BytesAre
  <2>4. PICK r : r = dataQueue'
    OBVIOUS
  <2>5. (r = WriteBytes(q, z) \/ r = Filled(q, z)) /\ sent' = s + Accepted
    BY <1>3, <2>1, <2>3, <2>4 DEF Write, Written
  <2>6. PICK k : Takes(q, z, k, r)
    BY <2>1, <2>5, Taking
  <2>7. Solid(r)
    BY <2>1, <2>5, FilledSolid, WrittenSolid
  <2>8. k \in 0 .. n /\ r \in Seq(Block) /\ sent' = s + k
    BY <2>1, <2>3, <2>4, <2>5, <2>6 DEF Takes, Accepted
  <2>9. sent' \in 0 .. MaxBytes /\ k \in Nat
    BY <1>1, <2>1, <2>2, <2>8
  <2>10. PICK x \in Seq(Nat), y \in Seq(Nat) : x = Contents(q) /\ y = Bytes(s + 1, k) /\ Contents(r) = x \o y
    <3>1. SubSeq(Bytes(s + 1, n), 1, k) = Bytes(s + 1, k)
      BY <1>1, <2>2, <2>8, FirstBytes
    <3> QED BY <2>2, <2>3, <2>6, <2>9, <3>1, ContentsType, BytesAre DEF Takes
  <2>11. got' \o Contents(dataQueue') = Bytes(1, sent')
    <3>1. (g \o x) \o y = g \o (x \o y)
      BY Regroup, ZenonT(40)
    <3>2. g \o x = Bytes(1, s)
      BY <1>3, <2>1, <2>10 DEF Arrived
    <3>3. Bytes(1, s) \o Bytes(s + 1, k) = Bytes(1, s + k)
      BY <2>2, <2>9, NextBytes
    <3> QED BY <1>1, <2>1, <2>4, <2>8, <2>10, <3>1, <3>2, <3>3
  <2>12. Arrived'
    BY <1>1, <2>1, <2>4, <2>7, <2>8, <2>9, <2>11 DEF Arrived
  <2>13. CASE k = 0
    <3>1. sent' = sent
      BY <2>1, <2>2, <2>8, <2>13
    <3> QED BY <1>1, <2>12, <3>1
  <2>14. CASE k # 0
    <3>1. ~ended
      BY <1>1 DEF Arrived
    <3>2. Stream!Send(k)
      BY <1>1, <2>1, <2>8, <3>1 DEF Stream!Send
    <3>3. k \in 1 .. MaxBytes
      BY <1>1, <2>1, <2>2, <2>8, <2>14
    <3> QED BY <2>12, <3>2, <3>3 DEF Stream!Next
  <2> QED BY <2>13, <2>14
<1> QED BY <1>2, <1>3

(* All other steps leave the bytes alone.                                  *)
LEMMA OtherSteps ==
    ASSUME IInv, Queued, Arrived, UNCHANGED <<sent, got, ended>>,
           net' \in {"none", "asked", "making"} => net \in {"none", "asked", "making"},
           net \in {"exiting", "gone"} => net' \in {"exiting", "gone"},
           \/ state' \notin {"OPENED", "LIBNET_DONE"}
           \/ state \in {"OPENED", "LIBNET_DONE"} /\ dataQueue' = dataQueue
           \/ net = "making" /\ dataQueue' = dataQueue
    PROVE  Arrived' /\ [Stream!Next]_<<sent, got, ended>>
<1>1. CASE state' \notin {"OPENED", "LIBNET_DONE"}
  BY <1>1 DEF Arrived
<1>2. CASE state \in {"OPENED", "LIBNET_DONE"} /\ dataQueue' = dataQueue
  BY <1>2 DEF Arrived
<1>3. CASE net = "making" /\ dataQueue' = dataQueue
  <2>1. dataQueue = <<>> /\ got = <<>> /\ sent = 0
    BY <1>3 DEF Arrived, IInv, Agree, Queued
  <2>2. <<>> \in Seq(Block) /\ Solid(<<>>) /\ Contents(<<>>) = <<>>
    <3>1. <<>> \in Seq(Block)
      OBVIOUS
    <3>2. Contents(<<>>) = <<>>
      BY <3>1, ContentsType
    <3>3. Solid(<<>>)
      BY DEF Solid
    <3> QED BY <3>1, <3>2, <3>3
  <2>3. <<>> \o <<>> = Bytes(1, 0)
    <3>1. 0 \in Nat /\ 1 \in Nat \ {0}
      OBVIOUS
    <3>2. Bytes(1, 0) \in Seq(Nat) /\ Len(Bytes(1, 0)) = 0
      BY <3>1, BytesAre
    <3>3. Bytes(1, 0) = <<>>
      BY <3>2, EmptySeq
    <3>4. <<>> \o <<>> = <<>>
      OBVIOUS
    <3> QED BY <3>3, <3>4
  <2>4. got' \o Contents(dataQueue') = Bytes(1, sent')
    BY <1>3, <2>1, <2>2, <2>3
  <2> QED BY <1>3, <2>1, <2>2, <2>4 DEF Arrived
<1> QED BY <1>1, <1>2, <1>3

(* Every step of a connection is one of ByteStream, or none of its         *)
(* business.                                                               *)
LEMMA StreamSteps ==
    ASSUME IInv, Queued, Arrived, [Next]_vars, [WritesAtEnd]_vars
    PROVE  Arrived' /\ [Stream!Next]_<<sent, got, ended>>
<1> USE DEF dataVars, javaVars, netVars, history
<1>1. CASE WritesAtEnd /\ \E n \in WriteSizes : Write(n)
  BY <1>1, WriteSteps
<1>2. CASE \E t \in Java : \E n \in ReadSizes : Read(t, n)
  BY <1>2, ReadSteps
<1>3. CASE Make \/ MakeOpen \/ Complete \/ Abort \/ ExitStore
  BY <1>3, OtherSteps DEF Make, MakeLooks, MakeOpen, Complete, Abort, ExitStore, IInv, StreamTypeOK
<1>4. CASE Exit
  <2>1. state' \in {"OPENED", "LIBNET_DONE"} => state = "OPENED" /\ dataQueue' = dataQueue
    BY <1>4 DEF Exit, ExitState, ExitFrees, ExitError, IInv, Agree
  <2>2. UNCHANGED <<sent, got, ended>> /\ net = "over" /\ net' = "exiting"
    BY <1>4 DEF Exit
  <2> QED BY <2>1, <2>2, OtherSteps
<1>5. CASE CloseJavaConnection \/ Finalize \/ \E t \in Java : Close(t)
  <2>1. state' \notin {"OPENED", "LIBNET_DONE"}
    BY <1>5 DEF CloseJavaConnection, Finalize, Close, JavaClose, JavaClosed, IInv, StreamTypeOK
  <2>2. UNCHANGED <<sent, got, ended, net>>
    BY <1>5 DEF CloseJavaConnection, Finalize, Close
  <2> QED BY <2>1, <2>2, OtherSteps
<1>6. CASE FinalizeLoad \/ FinalizeStore \/ UNCHANGED vars
           \/ \E t \in Java : Connect(t) \/ Open(t) \/ GotURL(t) \/ Opened(t) \/ Stop(t)
  <2>1. UNCHANGED <<sent, got, ended, net, state, dataQueue>>
    BY <1>6 DEF FinalizeLoad, FinalizeStore, vars, Connect, Open, GotURL, Opened, Stop
  <2> QED BY <2>1, OtherSteps
<1>7. CASE \E t \in Java : GetURL(t)
  <2>1. PICK t \in Java : GetURL(t)
    BY <1>7
  <2>2. UNCHANGED <<sent, got, ended, state, dataQueue>> /\ net' = "asked" /\ net = "none"
    BY <2>1 DEF GetURL, IInv, OneOpener, OpenerOnly
  <2> QED BY <2>2, OtherSteps
<1>8. CASE \E t \in Java : OutputOpen(t) \/ (\E n \in PostSizes : OutputWrite(t, n))
                             \/ OutputClose(t) \/ ConnectCloseOutput(t)
  <2>1. UNCHANGED <<sent, got, ended, net>>
    BY <1>8 DEF OutputOpen, OutputWrite, OutputClose, ConnectCloseOutput
  <2>2. state' \notin {"OPENED", "LIBNET_DONE"} \/ UNCHANGED <<state, dataQueue>>
    BY <1>8 DEF OutputOpen, OutputWrite, OutputClose, ConnectCloseOutput, PClose
  <2> QED BY <2>1, <2>2, OtherSteps
<1> QED
  BY <1>1, <1>2, <1>3, <1>4, <1>5, <1>6, <1>7, <1>8 DEF Next, NetStep, JavaCall, Inside

(* As long as no write fills up a block that has others behind it, the     *)
(* readers of a connection get the bytes in the order in which they were   *)
(* written, each once, and the end only after the last: the connection     *)
(* implements ByteStream.  No other step of netlib or Java, in whatever    *)
(* order, loses a byte, repeats one or puts it elsewhere.                  *)
THEOREM ReadsByteStream == Spec /\ [][WritesAtEnd]_vars => IsByteStream
<1> DEFINE RInv == IInv /\ Queued /\ Whole /\ Arrived
<1>1. Init => RInv /\ Stream!Init
  <2> SUFFICES ASSUME Init PROVE RInv /\ Stream!Init
    OBVIOUS
  <2>1. Arrived
    BY StreamAssumption DEF Init, Arrived
  <2>2. Stream!Init
    BY DEF Init, Stream!Init
  <2> QED BY <2>1, <2>2, Begin, WholeBegins
<1>2. RInv /\ [Next]_vars /\ [WritesAtEnd]_vars => RInv' /\ [Stream!Next]_<<sent, got, ended>>
  <2> SUFFICES ASSUME RInv, [Next]_vars, [WritesAtEnd]_vars
               PROVE  RInv' /\ [Stream!Next]_<<sent, got, ended>>
    OBVIOUS
  <2>1. IInv'
    BY Kept
  <2>2. Queued' /\ Whole'
    BY WholeSteps
  <2>3. Arrived' /\ [Stream!Next]_<<sent, got, ended>>
    BY StreamSteps
  <2> QED BY <2>1, <2>2, <2>3
<1> HIDE DEF RInv
<1> QED BY <1>1, <1>2, PTL DEF Spec, IsByteStream, Stream!Spec
=============================================================================
