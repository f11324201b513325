----------------------------- MODULE JavaStream -----------------------------
(***************************************************************************)
(* A Java URL connection on netlib (sun-java/netscape/net: conn.c, inStr.c,*)
(* outStr.c, netStubs.c).  The nsn_JavaStreamData is shared by Java, which *)
(* opens, reads, posts, closes and finalizes, and by netlib, which makes   *)
(* the stream, writes to it, completes or aborts it, and exits.            *)
(*                                                                         *)
(* A method between ENTER_METHOD and EXIT_METHOD is one step, as it holds  *)
(* the monitor; what is done outside the monitor is a step of its own.     *)
(***************************************************************************)
EXTENDS DataQueue, FiniteSets

CONSTANTS
    Java, None,
    Opener,      \* the Java thread that posts and connects
    WriteSizes, ReadSizes, PostSizes,
    MemoryFails, \* allocations may fail
    MaxBytes,    \* bound: bytes netlib writes
    MaxPost      \* bound: bytes Java posts, and closes of its output

ASSUME StreamAssumption ==
    /\ Opener \in Java /\ None \notin Java
    /\ WriteSizes \subseteq Nat \ {0} /\ ReadSizes \subseteq Nat \ {0}
    /\ PostSizes \subseteq Nat \ {0}
    /\ MemoryFails \in BOOLEAN /\ MaxBytes \in Nat /\ MaxPost \in Nat

VARIABLES
    state, refcount, errorStatus, \* of javaData
    dataQueue,
    freed,     \* how often javaData has been freed
    url,       \* how often its URL struct has been freed
    postData,  \* url->post_data
    connected, \* con->connected
    output,    \* con->currentOutputStream exists
    pc,        \* what each Java thread does
    garbage,   \* how far the finalizer is
    net,       \* how far netlib is
    failed,    \* the status netlib will exit with is an error
    javaCount, netCount, \* the refcount as read by either side
    sent, got, ended, posted \* history: bytes written, read, the end read,
                             \* bytes posted

dataVars   == <<state, refcount, errorStatus, dataQueue, freed, url, postData>>
javaVars   == <<connected, output, pc, garbage, javaCount>>
netVars    == <<net, failed, netCount>>
history    == <<sent, got, ended, posted>>
vars == <<dataVars, javaVars, netVars, history>>

(* netscape_net_URLConnection_pCreate: "Two users, netlib and java".       *)
Users == 2

Init ==
    /\ state = "OPENING" /\ refcount = Users /\ errorStatus = 0
    /\ dataQueue = <<>> /\ freed = 0 /\ url = 0 /\ postData = <<>>
    /\ connected = FALSE /\ output = FALSE /\ garbage = "no"
    /\ pc = [t \in Java |-> "java"]
    /\ net = "none" /\ failed = FALSE
    /\ javaCount = 0 /\ netCount = 0
    /\ sent = 0 /\ got = <<>> /\ ended = FALSE /\ posted = 0
-----------------------------------------------------------------------------
(* The monitor of javaData is held from step to step only by the exit      *)
(* routine.                                                                *)
MonitorFree == net # "exiting"

GoTo(t, next) == pc' = [pc EXCEPT ![t] = next]

(* Java code runs as long as it can reach the connection.                  *)
Calls(t) == pc[t] = "java" /\ garbage = "no" /\ MonitorFree

Reading(p) == CASE p = "opening" -> "opened" [] p = "reading" -> "read" [] OTHER -> p

WakeAll == [t \in Java |-> Reading(pc[t])]

(* nsn_JavaStream_javaClose and the nsn_JavaStream_close in it.  A close   *)
(* does not notify.                                                        *)
JavaClosed(s) ==
    CASE s \in {"OPENED", "OPENING", "POSTING"} -> "JAVA_DONE"
      [] s = "LIBNET_DONE"                      -> "CLOSED"
      [] OTHER                                  -> s

JavaClose ==
    /\ state' = JavaClosed(state)
    /\ url' = IF state = "LIBNET_DONE" THEN url + 1 ELSE url
    /\ dataQueue' = <<>>
    /\ UNCHANGED <<refcount, errorStatus, freed, postData>>
-----------------------------------------------------------------------------
(* URLOutputStream.open.  Bound: the CRLFs of earlier closes.              *)
OutputOpen(t) ==
    /\ Calls(t) /\ t = Opener /\ ~connected /\ ~output
    /\ Len(postData) <= MaxPost + 1
    /\ output' = TRUE
    /\ state' = IF state = "OPENING" THEN "POSTING" ELSE state
    /\ UNCHANGED <<refcount, errorStatus, dataQueue, freed, url, postData>>
    /\ UNCHANGED <<connected, pc, garbage, javaCount, netVars, history>>

(* URLOutputStream.writeBytes, of n bytes; without memory an OutOfMemory-  *)
(* Error is thrown.                                                        *)
Bytes(first, n) == [i \in 1 .. n |-> first + i - 1]

Written(s) ==
    \/ dataQueue' = WriteBytes(dataQueue, s)
    \/ MemoryFails /\ Rest(dataQueue, s) # <<>> /\ dataQueue' = Filled(dataQueue, s)

Accepted == Length(dataQueue') - Length(dataQueue)

OutputWrite(t, n) ==
    /\ Calls(t) /\ t = Opener /\ output /\ state = "POSTING"
    /\ posted + n <= MaxPost
    /\ Written(Bytes(posted + 1, n))
    /\ posted' = posted + Accepted
    /\ UNCHANGED <<state, refcount, errorStatus, freed, url, postData>>
    /\ UNCHANGED <<javaVars, netVars, sent, got, ended>>

(* URLOutputStream.pClose: the final CRLF, and everything into one block;  *)
(* without memory for either it gives up where it is.  Bound: CRLFs.       *)
CRLF == <<0, 0>>

PostOnly == Contents(WriteBytes(dataQueue, CRLF))  \* mutant of PostData

PostData == postData \o Contents(WriteBytes(dataQueue, CRLF))

PClose(t, next) ==
    \/ /\ state = "POSTING"
       /\ postData' = PostData
       /\ dataQueue' = <<>> /\ state' = "OPENING"
       /\ output' = FALSE /\ GoTo(t, next)
    \/ /\ state # "POSTING"
       /\ output' = FALSE /\ GoTo(t, next)
       /\ UNCHANGED <<state, dataQueue, postData>>
    \/ /\ state = "POSTING" /\ MemoryFails /\ Length(dataQueue) <= MaxPost
       /\ \/ Rest(dataQueue, CRLF) # <<>> /\ dataQueue' = Filled(dataQueue, CRLF)
          \/ dataQueue' = WriteBytes(dataQueue, CRLF)
       /\ GoTo(t, "java")
       /\ UNCHANGED <<state, postData, output>>

OutputClose(t) ==
    /\ Calls(t) /\ t = Opener /\ output /\ PClose(t, "java")
    /\ UNCHANGED <<refcount, errorStatus, freed, url>>
    /\ UNCHANGED <<connected, garbage, javaCount, netVars, history>>

(* URLConnection.connect: set the flag, close the output stream, ...       *)
Connect(t) ==
    /\ Calls(t) /\ t = Opener /\ ~connected
    /\ connected' = TRUE
    /\ GoTo(t, IF output THEN "closeOutput" ELSE "open")
    /\ UNCHANGED <<dataVars, output, garbage, javaCount, netVars, history>>

ConnectCloseOutput(t) ==
    /\ pc[t] = "closeOutput" /\ MonitorFree /\ PClose(t, "open")
    /\ UNCHANGED <<refcount, errorStatus, freed, url>>
    /\ UNCHANGED <<connected, garbage, javaCount, netVars, history>>

(* ... and URLInputStream.open: in the monitor see whether the stream can  *)
(* be opened, ...                                                          *)
AnyOpens == TRUE                                \* mutant of Opens

Opens == state = "OPENING"

Open(t) ==
    /\ pc[t] = "open" /\ MonitorFree
    /\ GoTo(t, IF Opens THEN "getURL" ELSE "java")
    /\ UNCHANGED <<dataVars, connected, output, garbage, javaCount, netVars, history>>

(* ... outside it hand the URL to netlib, ...                              *)
GetURL(t) ==
    /\ pc[t] = "getURL"
    /\ net' = "asked"
    /\ GoTo(t, "gotURL")
    /\ UNCHANGED <<dataVars, connected, output, garbage, javaCount>>
    /\ UNCHANGED <<failed, netCount, history>>

(* ... and in it again wait, unless netlib has made the stream already.    *)
GotURL(t) ==
    /\ pc[t] = "gotURL" /\ MonitorFree
    /\ GoTo(t, IF state = "OPENING" THEN "opening" ELSE "java")
    /\ UNCHANGED <<dataVars, connected, output, garbage, javaCount, netVars, history>>

Opened(t) ==
    /\ pc[t] = "opened" /\ MonitorFree
    /\ GoTo(t, "java")
    /\ UNCHANGED <<dataVars, connected, output, garbage, javaCount, netVars, history>>
-----------------------------------------------------------------------------
(* URLInputStream.read, by any thread, also again after a wait: bytes, the *)
(* end, a wait, or an IOException.                                         *)
NoInput == dataQueue = <<>>

EndAnyway == TRUE                               \* mutant of AtEnd

AtEnd == state = "LIBNET_DONE"

Read(t, n) ==
    /\ Calls(t) \/ (pc[t] = "read" /\ MonitorFree)
    /\ \/ /\ state \in {"OPENED", "LIBNET_DONE"} /\ ~NoInput
          /\ got' = got \o ReadAmount(dataQueue, n)
          /\ dataQueue' = AfterRead(dataQueue, n)
          /\ GoTo(t, "java")
          /\ UNCHANGED ended
       \/ /\ state \in {"OPENED", "LIBNET_DONE"} /\ NoInput /\ AtEnd
          /\ ended' = TRUE
          /\ GoTo(t, "java")
          /\ UNCHANGED <<got, dataQueue>>
       \/ /\ state \in {"OPENED", "LIBNET_DONE"} /\ NoInput /\ ~AtEnd
          /\ GoTo(t, "reading")
          /\ UNCHANGED <<got, ended, dataQueue>>
       \/ /\ state \notin {"OPENED", "LIBNET_DONE"}
          /\ GoTo(t, "java")
          /\ UNCHANGED <<got, ended, dataQueue>>
    /\ UNCHANGED <<state, refcount, errorStatus, freed, url, postData>>
    /\ UNCHANGED <<connected, output, garbage, javaCount, netVars, sent, posted>>

(* A thread that waits may be stopped (ThreadDeath).                       *)
Stop(t) ==
    /\ pc[t] \in {"opening", "reading", "opened", "read"} /\ MonitorFree
    /\ GoTo(t, "java")
    /\ UNCHANGED <<dataVars, connected, output, garbage, javaCount, netVars, history>>

(* URLConnection.close.                                                    *)
Close(t) ==
    /\ Calls(t)
    /\ JavaClose
    /\ connected' = FALSE
    /\ UNCHANGED <<output, pc, garbage, javaCount, netVars, history>>

(* nsn_CloseJavaConnection, when the window of the applet goes away.       *)
CloseJavaConnection ==
    /\ MonitorFree /\ freed = 0
    /\ JavaClose
    /\ UNCHANGED <<javaVars, netVars, history>>

(* URLConnection.finalize, when nobody can reach the connection: close,... *)
Finalize ==
    /\ garbage = "no" /\ MonitorFree /\ \A t \in Java : pc[t] = "java"
    /\ JavaClose
    /\ garbage' = "closed"
    /\ UNCHANGED <<connected, output, pc, javaCount, netVars, history>>

(* ... and, outside the monitor, --refcount.                               *)
FinalizeLoad ==
    /\ garbage = "closed"
    /\ javaCount' = refcount
    /\ garbage' = "loaded"
    /\ UNCHANGED <<dataVars, connected, output, pc, netVars, history>>

FinalizeStore ==
    /\ garbage = "loaded"
    /\ refcount' = javaCount - 1
    /\ freed' = IF refcount' = 0 THEN freed + 1 ELSE freed
    /\ garbage' = "done" /\ javaCount' = 0
    /\ UNCHANGED <<state, errorStatus, dataQueue, url, postData>>
    /\ UNCHANGED <<connected, output, pc, netVars, history>>
-----------------------------------------------------------------------------
(* netlib gives the URL up at once, or calls nsn_JavaStream_make, which    *)
(* looks at the state, ...                                                 *)
MakeLooks ==
    \/ state = "OPENING" /\ net' = "making" /\ UNCHANGED failed
    \/ state # "OPENING" /\ net' = "over" /\ failed' = TRUE

Make ==
    /\ net = "asked"
    /\ \/ MakeLooks
       \/ net' = "over" /\ failed' = TRUE
    /\ UNCHANGED <<dataVars, javaVars, netCount, history>>

(* ... and, having entered the monitor, changes it, and notifies one.      *)
MakeOpen ==
    /\ net = "making" /\ MonitorFree
    /\ state' = "OPENED" /\ net' = "open"
    /\ \/ /\ \A t \in Java : pc[t] \notin {"opening", "reading"}
          /\ UNCHANGED pc
       \/ \E t \in Java : /\ pc[t] \in {"opening", "reading"}
                          /\ GoTo(t, Reading(pc[t]))
    /\ UNCHANGED <<refcount, errorStatus, dataQueue, freed, url, postData>>
    /\ UNCHANGED <<connected, output, garbage, javaCount, failed, netCount, history>>

(* nsn_JavaStream_write: an error makes netlib abort.                      *)
Write(n) ==
    /\ net = "open" /\ MonitorFree /\ sent + n <= MaxBytes
    /\ \/ /\ state = "OPENED"
          /\ Written(Bytes(sent + 1, n))
          /\ sent' = sent + Accepted
          /\ net' = IF Accepted = n THEN "open" ELSE "aborting"
       \/ /\ state # "OPENED"
          /\ net' = "aborting"
          /\ UNCHANGED <<dataQueue, sent>>
    /\ pc' = WakeAll
    /\ UNCHANGED <<state, refcount, errorStatus, freed, url, postData>>
    /\ UNCHANGED <<connected, output, garbage, javaCount, failed, netCount>>
    /\ UNCHANGED <<got, ended, posted>>

(* nsn_JavaStream_complete, with a good answer of the server or a bad one, *)
(* and nsn_JavaStream_abort.                                               *)
Complete ==
    /\ net = "open" /\ MonitorFree
    /\ errorStatus' \in {-1, 0}
    /\ net' = "over"
    /\ UNCHANGED <<state, refcount, dataQueue, freed, url, postData>>
    /\ UNCHANGED <<javaVars, failed, netCount, history>>

Abort ==
    /\ net \in {"open", "aborting"} /\ MonitorFree
    /\ errorStatus' = -1 /\ failed' = TRUE
    /\ net' = "over"
    /\ UNCHANGED <<state, refcount, dataQueue, freed, url, postData>>
    /\ UNCHANGED <<javaVars, netCount, history>>

(* nsn_GetURL_exit: close for good what Java has closed, and keep for it   *)
(* what it has not read yet, ...                                           *)
ExitError == IF errorStatus >= 0 /\ failed THEN -1 ELSE errorStatus

ExitFrees == state \in {"OPENING", "JAVA_DONE"} \/ (state = "OPENED" /\ ExitError < 0)

ExitState ==
    CASE state = "OPENED" /\ ExitError >= 0 -> "LIBNET_DONE"
      [] ExitFrees                          -> "CLOSED"
      [] OTHER                              -> state

Exit ==
    /\ net = "over"
    /\ errorStatus' = ExitError
    /\ state' = ExitState
    /\ url' = IF ExitFrees THEN url + 1 ELSE url
    /\ dataQueue' = IF ExitFrees THEN <<>> ELSE dataQueue
    /\ netCount' = refcount
    /\ net' = "exiting"
    /\ UNCHANGED <<refcount, freed, postData, javaVars, failed, history>>

(* ... --refcount, and notify all, ...                                     *)
TellNobody == pc                                \* mutant of ExitNotifies

ExitNotifies == WakeAll

ExitStore ==
    /\ net = "exiting"
    /\ refcount' = netCount - 1
    /\ freed' = IF refcount' = 0 THEN freed + 1 ELSE freed
    /\ pc' = ExitNotifies
    /\ net' = "gone" /\ netCount' = 0 /\ failed' = FALSE
    /\ UNCHANGED <<state, errorStatus, dataQueue, url, postData>>
    /\ UNCHANGED <<connected, output, garbage, javaCount, history>>
-----------------------------------------------------------------------------
NetStep ==
    \/ Make \/ MakeOpen \/ (\E n \in WriteSizes : Write(n))
    \/ Complete \/ Abort \/ Exit \/ ExitStore

(* The steps a thread makes inside a call.                                 *)
Inside(t) ==
    \/ ConnectCloseOutput(t) \/ Open(t) \/ GetURL(t) \/ GotURL(t) \/ Opened(t)
    \/ pc[t] = "read" /\ \E n \in ReadSizes : Read(t, n)

JavaCall(t) ==
    \/ OutputOpen(t) \/ OutputClose(t) \/ Connect(t) \/ Close(t) \/ Stop(t)
    \/ \E n \in PostSizes : OutputWrite(t, n)
    \/ Calls(t) /\ \E n \in ReadSizes : Read(t, n)

Next ==
    \/ NetStep
    \/ \E t \in Java : JavaCall(t) \/ Inside(t)
    \/ CloseJavaConnection
    \/ Finalize \/ FinalizeLoad \/ FinalizeStore

Spec == Init /\ [][Next]_vars

(* netlib does not stop before it has called the exit routine, and threads *)
(* go on inside a call.                                                    *)
Fairness == WF_vars(NetStep) /\ \A t \in Java : WF_vars(Inside(t))

LiveSpec == Spec /\ Fairness
-----------------------------------------------------------------------------
(* The types of what the parties decide by.  What the bytes are, PostedIn- *)
(* Order and the refinement of ByteStream say.                             *)
StreamTypeOK ==
    /\ state \in {"OPENING", "POSTING", "OPENED", "JAVA_DONE", "LIBNET_DONE", "CLOSED"}
    /\ refcount \in Nat /\ errorStatus \in {-1, 0}
    /\ freed \in Nat /\ url \in Nat
    /\ connected \in BOOLEAN /\ output \in BOOLEAN
    /\ pc \in [Java -> {"java", "closeOutput", "open", "getURL", "gotURL",
                        "opening", "opened", "reading", "read"}]
    /\ garbage \in {"no", "closed", "loaded", "done"}
    /\ net \in {"none", "asked", "making", "open", "aborting", "over", "exiting", "gone"}
    /\ failed \in BOOLEAN /\ javaCount \in Nat /\ netCount \in Nat

(* The URL struct is freed once, by whichever side is done with it last,   *)
(* and not while netlib works on it or a Java thread is about to give it   *)
(* to netlib.                                                              *)
UrlKept ==
    /\ url <= 1
    /\ url = 1 <=> state = "CLOSED"
    /\ net \in {"asked", "making", "open", "aborting", "over"} => url = 0
    /\ \A t \in Java : pc[t] = "getURL" => url = 0

(* The nsn_JavaStreamData is freed once, when both of its users are done.  *)
DataKept ==
    freed <= 1 /\ (freed = 1 => net = "gone" /\ garbage = "done")

(* The assertions of GetURL_exit, "Someone incorrectly advanced the state  *)
(* machine", and of URLInputStream.open, that its wait ended because the   *)
(* stream is not opening any more.                                         *)
StatesExpected ==
    /\ net = "over" => state \in {"OPENED", "OPENING", "JAVA_DONE"}
    /\ \A t \in Java : pc[t] = "opened" => state # "OPENING"

(* What is freed is freed once, by the last who needs it, whoever closes,  *)
(* aborts, finalizes or ends the stream, and in whatever order.            *)
StreamInv == StreamTypeOK /\ UrlKept /\ DataKept /\ StatesExpected

(* What netlib is asked to post is what Java has written, in order, and a  *)
(* CRLF behind it, though closes may have failed on the way.               *)
AllInOrder(s, n) ==
    LET own == {i \in DOMAIN s : s[i] # 0} IN  \* not of a CRLF
    /\ {s[i] : i \in own} = 1 .. n
    /\ \A i, j \in own : i < j => s[i] < s[j]

PostedInOrder ==
    net # "none" /\ postData # <<>> =>
      AllInOrder(postData, posted) /\ IsSuffix(CRLF, postData)

(* The bytes arrive in the order in which netlib wrote them: a write goes  *)
(* "to the end of the current DataQueueElement" (nsn_DataQueue_writeBytes).*)
BytesInOrder == \A i \in DOMAIN got : got[i] = i

(* The readers of a connection have a stream of bytes.                     *)
Stream == INSTANCE ByteStream

IsByteStream == Stream!Spec

(* A thread that waits for the stream to open or for input goes on, also   *)
(* when Java closes the stream, which notifies nobody.                     *)
WaitersReturn ==
    \A t \in Java : pc[t] \in {"opening", "reading"} ~> pc[t] = "java"
=============================================================================
