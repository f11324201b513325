----------------------------- MODULE DnsHelper -----------------------------
(***************************************************************************)
(* Asynchronous host lookup on Unix (lib/libnet/unix-dns.c and its front   *)
(* end cmd/xfe/xfe-dns.c).  Three kinds of process take part: the browser  *)
(* (proc1), which writes commands and reads lines; the helper (proc2),     *)
(* which reads commands, forks a child per lookup and passes the children's*)
(* answers on; and the children (proc3), which call gethostbyname.         *)
(*                                                                         *)
(* A call of proc1 writes its command and then reads lines until it finds  *)
(* its acknowledgement.  Answers of earlier lookups come before it: their  *)
(* callbacks run netlib, which may make another such call (up to           *)
(* MaxNesting of them) inside the first one's wait.                        *)
(***************************************************************************)
EXTENDS Integers, Sequences, FiniteSets

CONSTANTS
    Socket,      \* sockets netlib connects with
    Host, None,
    SpawnFails,  \* pipe, fdopen or fork may fail in the helper
    QuitIgnored, \* children ignore SIGQUIT, as in the optimized build
    MaxNesting,  \* bound: calls made by callbacks inside another's wait
    MaxLookups   \* bound: lookups

Status == {"none", "ok", "error", "text"}

(* What the front end keeps for a lookup, and what the helper keeps.       *)
Entry  == [name : Host, status : Status, ip : Host \cup {None}]
Lookup == [host : Host, child : {"running", "ok", "failed", "killed"}]

ASSUME DnsAssumption ==
    /\ SpawnFails \in BOOLEAN /\ QuitIgnored \in BOOLEAN
    /\ MaxNesting \in Nat /\ MaxLookups \in Nat
    /\ None \notin Host /\ None \notin 0 .. MaxLookups
    /\ None \notin Entry /\ None \notin Lookup

VARIABLES
    load,    \* the host each socket's load waits for, None if it does not
    given,   \* history: what the last lookup of each socket came to
    queue,   \* each socket's x_pending_dns_lookup, None
    proc1,   \* the id of its queued_response, 0 as long as it has none, None
    waits,   \* the calls that wait for an acknowledgement, innermost last
    service, \* "on", or "off" once the pipe was closed
    cmds,    \* the pipe from proc1 to proc2
    lines,   \* the pipe from proc2 to proc1
    proc2,   \* the lookups of proc2_queue, and how far their children are
    tick,    \* dns_id_tick
    helper   \* what proc2 does: 0 select, an id waitpid, -1 it is dead

netVars  == <<load, given>>
oneVars  == <<queue, proc1, waits, service>>
twoVars  == <<proc2, tick, helper>>
vars     == <<netVars, oneVars, cmds, lines, twoVars>>

Dead == -1

Init ==
    /\ load = [s \in Socket |-> None] /\ given = [s \in Socket |-> None]
    /\ queue = [s \in Socket |-> None] /\ proc1 = [s \in Socket |-> None]
    /\ waits = <<>> /\ service = "on"
    /\ cmds = <<>> /\ lines = <<>>
    /\ proc2 = [id \in 1 .. MaxLookups |-> None] /\ tick = 0 /\ helper = 0

Line(code, id, ip) == [code |-> code, id |-> id, ip |-> ip]
-----------------------------------------------------------------------------
(* Netlib calls from the event loop, or from a callback.                   *)
Top == waits[Len(waits)]

MayCall == waits # <<>> => Top.inCallback

Waiting(s) == \E i \in DOMAIN waits : waits[i].sock = s

Push(call, s) ==
    /\ Len(waits) <= MaxNesting
    /\ waits' = Append(waits, [call |-> call, sock |-> s,
                               inCallback |-> FALSE, answerRead |-> FALSE])

(* The front end's object is looked up by socket, given to netlib as an    *)
(* address or an error, and freed.                                         *)
Consume(s, h, status, ip) ==
    /\ given' = [given EXCEPT ![s] = [host |-> h, status |-> status, ip |-> ip]]
    /\ queue' = [queue EXCEPT ![s] = None]
    /\ load' = [load EXCEPT ![s] = None]

(* Netlib ignores SIGPIPE and nobody looks at what the write returns: a    *)
(* command for a helper that is dead is lost.                              *)
Send(cmd) == cmds' = IF helper = Dead THEN cmds ELSE Append(cmds, cmd)

(* FE_StartAsyncDNSLookup of a new load: an object left on this socket is  *)
(* taken for this load's answer if its host is the same, else freed.       *)
LeftOver(s, h) == queue[s] # None /\ queue[s].name = h

StartLookup(s, h) ==
    /\ service = "on" /\ MayCall /\ load[s] = None /\ ~Waiting(s)
    /\ \/ /\ LeftOver(s, h)
          /\ Consume(s, h, queue[s].status, queue[s].ip)
          /\ UNCHANGED <<proc1, waits, cmds>>
       \/ /\ ~LeftOver(s, h) /\ tick + Len(waits) < MaxLookups
          /\ queue' = [queue EXCEPT ![s] =
                [name |-> h, status |-> "none", ip |-> None]]
          /\ load' = [load EXCEPT ![s] = h]
          /\ proc1' = [proc1 EXCEPT ![s] = 0]
          /\ Send([cmd |-> "lookup", host |-> h, id |-> 0])
          /\ Push("lookup", s)
          /\ UNCHANGED given
    /\ UNCHANGED <<service, lines, twoVars>>

(* FE_ClearDNSSelect, when a load that waits is interrupted.               *)
ClearDNSSelect(s) ==
    /\ MayCall /\ load[s] # None /\ ~Waiting(s)
    /\ load' = [load EXCEPT ![s] = None]
    /\ Send([cmd |-> "kill", host |-> None, id |-> proc1[s]])
    /\ Push("kill", s)
    /\ UNCHANGED <<given, queue, proc1, service, lines, twoVars>>

(* The callback returns to the call whose wait it came into.               *)
CallbackReturns ==
    /\ waits # <<>> /\ Top.inCallback
    /\ waits' = [waits EXCEPT ![Len(waits)].inCallback = FALSE]
    /\ UNCHANGED <<netVars, queue, proc1, service, cmds, lines, twoVars>>
-----------------------------------------------------------------------------
(* free_queued_response: xfe_dns_done_cb keeps the result and runs netlib, *)
(* which fetches it at once, unless its load is gone.                      *)
Done(s, status, ip) ==
    /\ proc1' = [proc1 EXCEPT ![s] = None]
    /\ \/ /\ load[s] # None /\ Consume(s, load[s], status, ip)
       \/ /\ load[s] = None
          /\ queue' = [queue EXCEPT ![s].status = status, ![s].ip = ip]
          /\ UNCHANGED netVars

(* handle_async_response: lines with an id nobody waits for are dropped.   *)
Asker(line) == {s \in Socket : proc1[s] = line.id /\ line.id # 0}

AsyncResponse(line) ==
    \/ \E s \in Asker(line) :
          Done(s, IF line.code = "ok" THEN "ok" ELSE "error", line.ip)
    \/ Asker(line) = {} /\ UNCHANGED <<netVars, queue, proc1>>

IsAnswer(line) == line.code \in {"ok", "failed"}

(* The end of the file is seen when the helper is dead and so are its      *)
(* children, which have its end of the pipe open too.                      *)
AtEof ==
    /\ lines = <<>> /\ helper = Dead
    /\ \A id \in 1 .. MaxLookups : proc2[id] # None => proc2[id].child # "running"

NextLine == IF lines = <<>> THEN Line("eof", 0, None) ELSE Head(lines)

Reads(call) ==
    /\ waits # <<>> /\ Top.call = call /\ ~Top.inCallback
    /\ lines # <<>> \/ AtEof
    /\ lines' = IF lines = <<>> THEN lines ELSE Tail(lines)
    /\ UNCHANGED <<service, cmds, twoVars>>

Return == waits' = SubSeq(waits, 1, Len(waits) - 1)

Callback == waits' = [waits EXCEPT ![Len(waits)].inCallback = TRUE]

(* DNS_AsyncLookupHost reads until its lookup is started or fails, as it   *)
(* does at the end of the file.  The callback then finds netlib busy, and  *)
(* the front end frees its object.                                         *)
ReadLookup ==
    /\ Reads("lookup")
    /\ LET s == Top.sock IN
       \/ /\ NextLine.code = "started"
          /\ proc1' = [proc1 EXCEPT ![s] = NextLine.id]
          /\ Return
          /\ UNCHANGED <<netVars, queue>>
       \/ /\ IsAnswer(NextLine)
          /\ AsyncResponse(NextLine) /\ Callback
       \/ /\ NextLine.code # "started" /\ ~IsAnswer(NextLine)
          /\ Done(s, IF NextLine.code = "killFailed" THEN "text" ELSE "error", None)
          /\ Return

(* DNS_AbortHostLookup reads until the kill succeeds or fails.  It ignores *)
(* the answer of the lookup it kills; a kill that fails has status 0, for  *)
(* which the callback copies the text of the message as an address.  The   *)
(* end of the file is an error, but only as the first thing it reads: the  *)
(* code of an answer read before is kept, taken for this read's too, and   *)
(* the call reads on for ever.                                             *)
NotIgnored(s, line) == FALSE                    \* mutant of Ignored

Ignored(s, line) == line.id = proc1[s]

Spins ==
    /\ waits # <<>> /\ Top.call = "kill" /\ ~Top.inCallback /\ Top.answerRead
    /\ AtEof

ReadsOn(callback) ==
    waits' = [waits EXCEPT ![Len(waits)].answerRead = TRUE,
                           ![Len(waits)].inCallback = callback]

ReadKill ==
    /\ Reads("kill") /\ ~Spins
    /\ LET s == Top.sock IN
       \/ /\ IsAnswer(NextLine) /\ Ignored(s, NextLine)
          /\ ReadsOn(FALSE)
          /\ UNCHANGED <<netVars, queue, proc1>>
       \/ /\ IsAnswer(NextLine) /\ ~Ignored(s, NextLine)
          /\ AsyncResponse(NextLine) /\ ReadsOn(TRUE)
       \/ /\ ~IsAnswer(NextLine)
          /\ Done(s, IF NextLine.code = "killFailed" THEN "text" ELSE "error", None)
          /\ Return

(* DNS_ServiceProcess, called by the event loop; at the end of the file    *)
(* the socket is closed and lookups are made in the foreground.            *)
ServiceProcess ==
    /\ service = "on" /\ waits = <<>>
    /\ \/ /\ lines # <<>>
          /\ AsyncResponse(Head(lines))
          /\ lines' = Tail(lines)
          /\ UNCHANGED service
       \/ /\ AtEof
          /\ service' = "off"
          /\ UNCHANGED <<netVars, queue, proc1, lines>>
    /\ UNCHANGED <<waits, cmds, twoVars>>
-----------------------------------------------------------------------------
(* proc2, in its select loop.                                              *)
Command(cmd) == helper = 0 /\ cmds # <<>> /\ Head(cmds).cmd = cmd /\ cmds' = Tail(cmds)

Answered(line) == lines' = Append(lines, line)

(* new_lookup_object and spawn_lookup_process.  When that fails the helper *)
(* tells proc1 and then looks into the object that it has not got.         *)
SameId == IF tick = 0 THEN 1 ELSE tick          \* mutant of NewId

NewId == tick + 1

SpawnLookup ==
    /\ Command("lookup")
    /\ tick' = NewId
    /\ \/ /\ proc2' = [proc2 EXCEPT ![NewId] =
                [host |-> Head(cmds).host, child |-> "running"]]
          /\ Answered(Line("started", NewId, None))
          /\ UNCHANGED helper
       \/ /\ SpawnFails
          /\ Answered(Line("notStarted", NewId, None))
          /\ helper' = Dead
          /\ UNCHANGED proc2
    /\ UNCHANGED <<netVars, oneVars>>

(* cancel_lookup: kill the child and wait for it, if it is not too late.   *)
CancelNothing(id) == UNCHANGED lines            \* mutant of TooLate

TooLate(id) == Answered(Line("killFailed", id, None))

CancelLookup ==
    /\ Command("kill")
    /\ LET id == Head(cmds).id IN
       \/ /\ proc2[id] = None
          /\ TooLate(id)
          /\ UNCHANGED <<proc2, helper>>
       \/ /\ proc2[id] # None
          /\ proc2' = IF QuitIgnored THEN proc2
                      ELSE [proc2 EXCEPT ![id].child = "killed"]
          /\ helper' = id
          /\ UNCHANGED lines
    /\ UNCHANGED <<netVars, oneVars, tick>>

(* free_lookup_object, whoever calls it.                                   *)
StillQueued(id) == UNCHANGED proc2              \* mutant of FreeLookup

FreeLookup(id) == proc2' = [proc2 EXCEPT ![id] = None]

WaitedFor(id) ==
    /\ helper = id /\ proc2[id].child # "running"
    /\ Answered(Line("killed", id, None))
    /\ FreeLookup(id)
    /\ helper' = 0
    /\ UNCHANGED <<netVars, oneVars, cmds, tick>>

(* handle_subproc_response, for one of the children that have written.     *)
SubprocResponse(id) ==
    /\ helper = 0 /\ proc2[id] # None /\ proc2[id].child \in {"ok", "failed"}
    /\ Answered(Line(proc2[id].child, id,
                     IF proc2[id].child = "ok" THEN proc2[id].host ELSE None))
    /\ FreeLookup(id)
    /\ UNCHANGED <<netVars, oneVars, cmds, tick, helper>>

(* The helper leaves most signals at their default, and dies of one.  What *)
(* it has not read is lost, what it has written is still there.            *)
HelperDies ==
    /\ helper # Dead
    /\ helper' = Dead /\ cmds' = <<>>
    /\ UNCHANGED <<netVars, oneVars, lines, proc2, tick>>

(* blocking_gethostbyname in proc3.                                        *)
Child(id) ==
    /\ proc2[id] # None /\ proc2[id].child = "running"
    /\ \E found \in {"ok", "failed"} : proc2' = [proc2 EXCEPT ![id].child = found]
    /\ UNCHANGED <<netVars, oneVars, cmds, lines, tick, helper>>
-----------------------------------------------------------------------------
Netlib == \E s \in Socket : ClearDNSSelect(s) \/ \E h \in Host : StartLookup(s, h)

Browser == ReadLookup \/ ReadKill \/ ServiceProcess \/ CallbackReturns

Helper == SpawnLookup \/ CancelLookup \/ \E id \in 1 .. MaxLookups : WaitedFor(id)

Next ==
    \/ Netlib \/ Browser \/ Helper \/ HelperDies
    \/ \E id \in 1 .. MaxLookups : SubprocResponse(id) \/ Child(id)

Spec == Init /\ [][Next]_vars

(* proc1 comes back to its event loop, select returns every child that has *)
(* written, and gethostbyname returns in the end.                          *)
Fairness ==
    /\ WF_vars(Browser) /\ WF_vars(Helper)
    /\ \A id \in 1 .. MaxLookups : WF_vars(SubprocResponse(id)) /\ WF_vars(Child(id))

LiveSpec == Spec /\ Fairness
-----------------------------------------------------------------------------
(* Every variable keeps its type.                                          *)
DnsTypeOK ==
    /\ load \in [Socket -> Host \cup {None}]
    /\ given \in [Socket -> [host : Host, status : Status, ip : Host \cup {None}] \cup {None}]
    /\ queue \in [Socket -> Entry \cup {None}]
    /\ proc1 \in [Socket -> 0 .. MaxLookups \cup {None}]
    /\ waits \in Seq([call : {"lookup", "kill"}, sock : Socket,
                      inCallback : BOOLEAN, answerRead : BOOLEAN])
    /\ service \in {"on", "off"}
    /\ cmds \in Seq([cmd : {"lookup", "kill"}, host : Host \cup {None}, id : 0 .. MaxLookups])
    /\ lines \in Seq([code : {"started", "notStarted", "killed", "killFailed", "ok", "failed"},
                      id : 1 .. MaxLookups, ip : Host \cup {None}])
    /\ proc2 \in [1 .. MaxLookups -> Lookup \cup {None}]
    /\ tick \in 0 .. MaxLookups /\ helper \in Dead .. MaxLookups

(* "Under no circumstances can there be more than one 2xx response in the  *)
(* pipe at a time", nor more than one answer to a kill                     *)
(* (DNS_AsyncLookupHost, DNS_AbortHostLookup): there is one acknowledgement*)
(* at most, and it is for the call that waits.                             *)
Acks(code) == {i \in DOMAIN lines : lines[i].code \in code}

OneAck ==
    /\ Cardinality(Acks({"started", "notStarted"})) <= 1
    /\ Acks({"started", "notStarted"}) # {} => waits # <<>> /\ Top.call = "lookup"
    /\ \A i \in Acks({"killed", "killFailed"}) :
          waits # <<>> /\ Top.call = "kill" /\ lines[i].id = proc1[Top.sock]

(* As long as the helper lives, a lookup is either in its queue or its     *)
(* answer in the pipe, once, and no answer comes for a lookup that nobody  *)
(* waits for any more: proc1 and proc2, which free their objects on their  *)
(* own, agree.                                                             *)
AnswersFor(id) == {i \in DOMAIN lines : IsAnswer(lines[i]) /\ lines[i].id = id}

QueuesAgree ==
    /\ \A s \in Socket : proc1[s] \notin {None, 0} /\ ~Waiting(s) /\ helper # Dead =>
          Cardinality(AnswersFor(proc1[s])) = IF proc2[proc1[s]] = None THEN 1 ELSE 0
    /\ \A i \in DOMAIN lines : IsAnswer(lines[i]) =>
          \/ Asker(lines[i]) # {}
          \/ \E j \in 1 .. i - 1 : lines[j] = Line("started", lines[i].id, None)
    /\ \A s \in Socket : proc1[s] # None => queue[s] # None

(* Types, and what the two queues rely on.                                 *)
DnsInv == DnsTypeOK /\ QueuesAgree

(* An address that netlib is given belongs to the host it asked for,       *)
(* whatever lookups were killed or answered in between.  (After a kill that*)
(* failed it may get the text of a message for an address.)                *)
RightAddress ==
    \A s \in Socket : given[s] # None /\ given[s].status = "ok" =>
        given[s].ip = given[s].host

(* Every call gets its acknowledgement, or the end of the file in its      *)
(* place, but for a kill that has read an answer when the helper dies; and *)
(* every load gets its answer, unless the helper dies.                     *)
LookupsEnd ==
    /\ waits # <<>> ~> waits = <<>> \/ Spins
    /\ \A s \in Socket : load[s] # None ~> load[s] = None \/ helper = Dead
=============================================================================
