--------------------------- MODULE JavaSyncProofs ---------------------------
(***************************************************************************)
(* SyncInv, OneRuns and WaitsOutsideX of JavaSync, and that it implements  *)
(* CallChain, for any number of Java threads and calls nested to any depth.*)
(* The inductive invariant follows the control of the merged threads from  *)
(* one side to the other: it is in one of the phases below at any time,    *)
(* each of which says what both sides are doing, what each will find in    *)
(* its state when it looks, and how deep the frames of both are.           *)
(***************************************************************************)
EXTENDS JavaSync, SequenceTheorems, TLAPS

Kind(t, k) ==
    IF k > 1 THEN "nested" ELSE IF t = Mozilla THEN "event" ELSE "first"

(* A frame with another one above it is running the callback of the other  *)
(* side, and has not been served yet.                                      *)
FramesKept ==
    \A t \in Thread : \A k \in 1 .. Len(stack[t]) :
        /\ stack[t][k].kind = Kind(t, k)
        /\ k < Len(stack[t]) =>
             stack[t][k].served = 0 /\ stack[t][k].job = (IF t = Mozilla THEN owner ELSE Mozilla)

(* Java threads that mozilla is not merged with have not begun.            *)
OthersOutside ==
    \A t \in Java : t # owner => pc[t] \in {"idle", "own", "ownWait"} /\ stack[t] = <<>>

-----------------------------------------------------------------------------
Waits(t) == pc[t] \in {"loop", "waiting"}

Served(t, i) == stack[t][Len(stack[t])].served = i

Job(t, u) == stack[t][Len(stack[t])].job = u

Find(s, r) == states["mozilla"] = s /\ states["java"] = r

(* How deep mozilla is when it runs for Java, and when Java runs for it.   *)
Java1 == Len(stack[owner]) = 1
Even == Len(stack[owner]) >= 1 /\ Len(stack[Mozilla]) = Len(stack[owner])
Deeper == Len(stack[owner]) >= 1 /\ Len(stack[Mozilla]) = Len(stack[owner]) + 1

(* The mozilla thread is not merged, though it may be in lj_Run, on its    *)
(* way out or because of an event that is too old.                         *)
Away ==
    /\ pc[Mozilla] \in {"idle", "loop", "xlock"}
    /\ pc[Mozilla] = "loop" => Len(stack[Mozilla]) = 1 /\ Served(Mozilla, 0)
    /\ pc[Mozilla] # "loop" => stack[Mozilla] = <<>>

Over == states["mozilla"] \in {"free", "run", "done"}

Apart ==
    owner = None /\ Away /\ Over /\ states["java"] \in {"free", "run"}

(* A first call of Java.                                                   *)
FirstYield ==
    /\ pc[owner] = "yield" /\ Java1 /\ Served(owner, 0)
    /\ Away /\ Over /\ states["java"] \in {"free", "run"}

FirstOrder ==
    /\ pc[owner] = "order" /\ Java1 /\ Served(owner, 0)
    /\ Away /\ Over /\ states["java"] = "wait"

FirstAsked ==
    /\ Waits(owner) /\ Java1 /\ Served(owner, 0)
    /\ Away /\ Find("call", "wait") /\ doit = owner
    /\ pc[Mozilla] = "loop" \/ events > 0 \/ lost

(* A nested call of Java.                                                  *)
NestedCall ==
    Even /\ Len(stack[owner]) > 1 /\ Served(owner, 0) /\ Served(Mozilla, 0)

JavaYield ==
    /\ pc[owner] = "yield" /\ Waits(Mozilla) /\ Find("wait", "run") /\ NestedCall

JavaOrder ==
    /\ pc[owner] = "order" /\ Waits(Mozilla) /\ Find("wait", "wait") /\ NestedCall

JavaAsked ==
    /\ Waits(owner) /\ pc[Mozilla] = "loop" /\ Find("call", "wait") /\ NestedCall
    /\ doit = owner

(* Mozilla runs the callback of Java.                                      *)
MozillaRuns ==
    /\ pc[Mozilla] \in {"xlock", "doit", "own"} /\ Waits(owner) /\ Find("run", "wait")
    /\ Even /\ Job(Mozilla, owner) /\ Served(owner, 0) /\ Served(Mozilla, 0)

MozillaDid ==
    /\ pc[Mozilla] = "did" /\ Waits(owner) /\ Find("run", "wait")
    /\ Even /\ Job(Mozilla, owner) /\ Served(owner, 1) /\ Served(Mozilla, 0)

MozillaTells ==
    /\ pc[Mozilla] = "tell" /\ Waits(owner) /\ Find("wait", "wait")
    /\ Even /\ Served(owner, 1) /\ Served(Mozilla, 0)

JavaTold ==
    /\ pc[owner] = "loop" /\ Waits(Mozilla) /\ Find("wait", "done")
    /\ Even /\ Served(owner, 1) /\ Served(Mozilla, 0)

(* A call of mozilla, which is nested always.                              *)
Unserved == Deeper /\ Served(owner, 0) /\ Served(Mozilla, 0)

MozillaYield ==
    /\ pc[Mozilla] = "yield" /\ Waits(owner) /\ Find("run", "wait") /\ Unserved

MozillaOrder ==
    /\ pc[Mozilla] = "order" /\ Waits(owner) /\ Find("wait", "wait") /\ Unserved

MozillaAsked ==
    /\ pc[owner] = "loop" /\ Waits(Mozilla) /\ Find("wait", "call") /\ Unserved
    /\ doit = Mozilla

(* Java runs the callback of mozilla.                                      *)
JavaRuns ==
    /\ pc[owner] \in {"doit", "own"} /\ Waits(Mozilla) /\ Find("wait", "run")
    /\ Unserved /\ Job(owner, Mozilla)

JavaDid ==
    /\ pc[owner] = "did" /\ Waits(Mozilla) /\ Find("wait", "run")
    /\ Deeper /\ Job(owner, Mozilla) /\ Served(owner, 0) /\ Served(Mozilla, 1)

JavaTells ==
    /\ pc[owner] = "tell" /\ Waits(Mozilla) /\ Find("wait", "wait")
    /\ Deeper /\ Job(owner, Mozilla) /\ Served(owner, 0) /\ Served(Mozilla, 1)

MozillaTold ==
    /\ Waits(owner) /\ pc[Mozilla] = "loop" /\ Find("done", "wait")
    /\ Deeper /\ Served(owner, 0) /\ Served(Mozilla, 1)

(* The first call is over.                                                 *)
Frees ==
    /\ pc[owner] = "free" /\ stack[owner] = <<>>
    /\ Waits(Mozilla) /\ Len(stack[Mozilla]) = 1 /\ Served(Mozilla, 0)
    /\ Find("wait", "run")

Releases ==
    /\ pc[owner] = "release" /\ stack[owner] = <<>>
    /\ Away /\ Over /\ states["java"] = "run"

Merged ==
    /\ owner \in Java
    /\ \/ FirstYield \/ FirstOrder \/ FirstAsked
       \/ JavaYield \/ JavaOrder \/ JavaAsked
       \/ MozillaRuns \/ MozillaDid \/ MozillaTells \/ JavaTold
       \/ MozillaYield \/ MozillaOrder \/ MozillaAsked
       \/ JavaRuns \/ JavaDid \/ JavaTells \/ MozillaTold
       \/ Frees \/ Releases

Phase == Apart \/ Merged

IInv == SyncTypeOK /\ FramesKept /\ OthersOutside /\ Phase /\ WaitsOutsideX

-----------------------------------------------------------------------------
(* What the operations on the stacks do: the frames below stay, and so do  *)
(* those of the other threads.                                             *)
Stacks == stack \in [Thread -> Seq(Frame)]

Below(t, n) ==
    /\ \A u \in Thread : u # t => stack'[u] = stack[u]
    /\ \A k \in 1 .. n : stack'[t][k] = stack[t][k]

Pushed(t, kind) ==
    /\ Below(t, Len(stack[t]))
    /\ Len(stack[t]) \in Nat
    /\ Len(stack'[t]) = Len(stack[t]) + 1
    /\ stack'[t][Len(stack[t]) + 1].kind = kind
    /\ stack'[t][Len(stack[t]) + 1].served = 0

Popped(t) ==
    /\ Below(t, Len(stack[t]) - 1)
    /\ Len(stack[t]) \in Nat \ {0}
    /\ Len(stack'[t]) = Len(stack[t]) - 1

Marked(t, f) ==
    /\ Below(t, Len(stack[t]) - 1)
    /\ Len(stack[t]) \in Nat \ {0}
    /\ Len(stack'[t]) = Len(stack[t])
    /\ stack'[t][Len(stack[t])] = f

(* Push puts a fresh frame on the stack of one thread.                     *)
LEMMA Pushing ==
  ASSUME Stacks, NEW t \in Thread, NEW kind \in {"first", "nested", "event"}, Push(t, kind)
  PROVE  Stacks' /\ Pushed(t, kind)
<1> USE DEF Stacks
<1> DEFINE f == [kind |-> kind, job |-> None, served |-> 0]
<1>1. f \in Frame
  BY DEF Frame
<1>2. stack' = [stack EXCEPT ![t] = Append(stack[t], f)]
  BY DEF Push
<1>3. stack[t] \in Seq(Frame)
  OBVIOUS
<1> HIDE DEF f
<1>4. stack'[t] = Append(stack[t], f)
  BY <1>2
<1>5. Append(stack[t], f) \in Seq(Frame)
  BY <1>1, <1>3
<1>6. /\ Len(stack[t]) \in Nat
      /\ Len(stack'[t]) = Len(stack[t]) + 1
      /\ stack'[t][Len(stack[t]) + 1] = f
      /\ \A k \in 1 .. Len(stack[t]) : stack'[t][k] = stack[t][k]
  BY <1>1, <1>3, <1>4
<1>7. f.kind = kind /\ f.served = 0
  BY DEF f
<1> QED
  BY <1>2, <1>5, <1>6, <1>7 DEF Pushed, Below

(* Pop takes the innermost frame off and leaves those below.               *)
LEMMA Popping ==
  ASSUME Stacks, NEW t \in Thread, stack[t] # <<>>, Pop(t)
  PROVE  Stacks' /\ Popped(t)
<1> USE DEF Stacks
<1> DEFINE n == Len(stack[t]) - 1
           s == SubSeq(stack[t], 1, n)
<1>1. stack[t] \in Seq(Frame) /\ Len(stack[t]) \in Nat \ {0} /\ n \in Nat
  OBVIOUS
<1>2. stack' = [stack EXCEPT ![t] = s]
  BY DEF Pop, Front
<1>3. \A k \in 1 .. n : stack[t][k] \in Frame
  BY <1>1
<1>4. s \in Seq(Frame) /\ Len(s) = IF 1 <= n THEN n - 1 + 1 ELSE 0
  BY <1>1, <1>3, SubSeqProperties
<1>5. \A k \in 1 .. n - 1 + 1 : s[k] = stack[t][1 + k - 1]
  BY <1>1, <1>3, SubSeqProperties
<1>6. Len(s) = n /\ \A k \in 1 .. n : s[k] = stack[t][k]
  <2> HIDE DEF s, n
  <2>1. n - 1 + 1 = n /\ \A k \in 1 .. n : 1 + k - 1 = k
    BY <1>1
  <2>2. \A k \in 1 .. n : s[k] = stack[t][k]
    BY <1>5, <2>1
  <2> QED
    BY <1>1, <1>4, <2>1, <2>2
<1> HIDE DEF s
<1> QED
  BY <1>1, <1>2, <1>4, <1>6 DEF Popped, Below

(* Any other step changes the innermost frame only.                        *)
LEMMA Marking ==
  ASSUME Stacks, NEW t \in Thread, stack[t] # <<>>, NEW f \in Frame,
         stack' = [stack EXCEPT ![t] = [stack[t] EXCEPT ![Len(stack[t])] = f]]
  PROVE  Stacks' /\ Marked(t, f)
<1> USE DEF Stacks
<1>1. stack[t] \in Seq(Frame) /\ Len(stack[t]) \in 1 .. Len(stack[t])
  OBVIOUS
<1> DEFINE s == [stack[t] EXCEPT ![Len(stack[t])] = f]
<1>2. /\ s \in Seq(Frame)
      /\ Len(s) = Len(stack[t])
      /\ s[Len(stack[t])] = f
      /\ \A k \in 1 .. Len(stack[t]) - 1 : s[k] = stack[t][k]
  BY <1>1
<1>3. stack' = [stack EXCEPT ![t] = s]
  OBVIOUS
<1> HIDE DEF s
<1> QED
  BY <1>1, <1>2, <1>3 DEF Marked, Below

-----------------------------------------------------------------------------
(* The frames stay in order when one is pushed on one that runs a callback,*)
(* and when the top one is popped or changed but for its kind.             *)
LEMMA FramesPushed ==
  ASSUME Stacks, Stacks', FramesKept, NEW t \in Thread,
         Pushed(t, Kind(t, Len(stack[t]) + 1)),
         Len(stack[t]) > 0 =>
           Served(t, 0) /\ Job(t, IF t = Mozilla THEN owner ELSE Mozilla),
         owner' = owner \/ Len(stack'[Mozilla]) <= 1
  PROVE  FramesKept'
<1> SUFFICES ASSUME NEW u \in Thread, NEW k \in 1 .. Len(stack'[u])
             PROVE  /\ stack'[u][k].kind = Kind(u, k)
                    /\ k < Len(stack'[u]) =>
                         /\ stack'[u][k].served = 0
                         /\ stack'[u][k].job = IF u = Mozilla THEN owner' ELSE Mozilla
  BY DEF FramesKept, Kind
<1>1. Len(stack[u]) \in Nat /\ Len(stack'[u]) \in Nat
  BY DEF Stacks
<1>2. CASE u # t \/ k < Len(stack[t])
  <2>1. Len(stack'[u]) > 1 /\ u = Mozilla => owner' = owner
    OBVIOUS
  <2>2. /\ k \in 1 .. Len(stack[u]) /\ stack'[u][k] = stack[u][k]
        /\ k < Len(stack'[u]) => k < Len(stack[u])
    BY <1>1, <1>2 DEF Pushed, Below
  <2> QED
    BY <1>1, <2>1, <2>2 DEF FramesKept
<1>3. CASE u = t /\ k = Len(stack[t])
  BY <1>1, <1>3, SyncAssumption DEF FramesKept, Pushed, Below, Served, Job, Thread
<1>4. CASE u = t /\ k = Len(stack[t]) + 1
  BY <1>1, <1>4 DEF Pushed
<1> QED
  BY <1>1, <1>2, <1>3, <1>4 DEF Pushed

(* Nothing below the innermost frames changes in a step, so FramesKept is  *)
(* about these alone.                                                      *)
LEMMA FramesTopped ==
  ASSUME Stacks, Stacks', FramesKept, NEW t \in Thread, Below(t, Len(stack[t]) - 1),
         \/ Len(stack'[t]) = Len(stack[t]) - 1
         \/ /\ Len(stack'[t]) = Len(stack[t])
            /\ stack'[t][Len(stack[t])].kind = stack[t][Len(stack[t])].kind,
         owner' = owner \/ Len(stack'[Mozilla]) <= 1
  PROVE  FramesKept'
<1> SUFFICES ASSUME NEW u \in Thread, NEW k \in 1 .. Len(stack'[u])
             PROVE  /\ stack'[u][k].kind = Kind(u, k)
                    /\ k < Len(stack'[u]) =>
                         /\ stack'[u][k].served = 0
                         /\ stack'[u][k].job = IF u = Mozilla THEN owner' ELSE Mozilla
  BY DEF FramesKept, Kind
<1>1. Len(stack[u]) \in Nat /\ Len(stack'[u]) \in Nat
  BY DEF Stacks
<1>2. CASE u # t \/ k < Len(stack[t])
  BY <1>1, <1>2, SyncAssumption DEF FramesKept, Below, Thread
<1>3. CASE u = t /\ k = Len(stack[t])
  BY <1>1, <1>3 DEF FramesKept
<1> QED
  BY <1>1, <1>2, <1>3

-----------------------------------------------------------------------------
(* Where control is, as a thread tells from what it does and from the      *)
(* state of its side.                                                      *)
Loose == Apart \/ (owner \in Java /\ (FirstYield \/ FirstOrder \/ FirstAsked \/ Releases))

With(p) == owner \in Java /\ p

(* Which phases the program counter of the mozilla thread is compatible    *)
(* with, outside its loop.                                                 *)
LEMMA MozillaAt ==
  ASSUME IInv
  PROVE  /\ pc[Mozilla] = "idle" => Loose
         /\ pc[Mozilla] = "xlock" => Loose \/ With(MozillaRuns)
         /\ pc[Mozilla] \in {"own", "doit"} => With(MozillaRuns)
         /\ pc[Mozilla] = "did" => With(MozillaDid)
         /\ pc[Mozilla] = "tell" => With(MozillaTells)
         /\ pc[Mozilla] = "yield" => With(MozillaYield)
         /\ pc[Mozilla] = "order" => With(MozillaOrder)
         /\ pc[Mozilla] \notin {"free", "release", "ownWait"}
<1> USE SyncAssumption DEF IInv, Thread, With, Phase, Apart, Merged, FirstYield, FirstOrder, FirstAsked, JavaYield, JavaOrder, JavaAsked, MozillaRuns, MozillaDid, MozillaTells, JavaTold, MozillaYield, MozillaOrder, MozillaAsked, JavaRuns, JavaDid, JavaTells, MozillaTold, Frees, Releases, Away, Waits
<1>1. pc[Mozilla] = "idle" => Loose
  BY SMTT(30) DEF Loose
<1>2. pc[Mozilla] = "xlock" => Loose \/ With(MozillaRuns)
  BY SMTT(30) DEF Loose
<1>3. pc[Mozilla] \in {"own", "doit"} => With(MozillaRuns)
  BY SMTT(30)
<1>4. pc[Mozilla] = "did" => With(MozillaDid)
  BY SMTT(30)
<1>5. pc[Mozilla] = "tell" => With(MozillaTells)
  BY SMTT(30)
<1>6. pc[Mozilla] = "yield" => With(MozillaYield)
  BY SMTT(30)
<1>7. pc[Mozilla] = "order" => With(MozillaOrder)
  BY SMTT(30)
<1>8. pc[Mozilla] \notin {"free", "release", "ownWait"}
  BY SMTT(30)
<1> QED
  BY <1>1, <1>2, <1>3, <1>4, <1>5, <1>6, <1>7, <1>8

(* The same in its loop, where the state of its side tells them apart.     *)
LEMMA MozillaLoops ==
  ASSUME IInv, pc[Mozilla] = "loop"
  PROVE  /\ states["mozilla"] = "call" => With(FirstAsked \/ JavaAsked)
         /\ states["mozilla"] = "done" => (Loose /\ Away) \/ With(MozillaTold)
         /\ states["mozilla"] \in {"free", "run"} => Loose /\ Away
         /\ states["mozilla"] = "wait" =>
              With(\/ JavaYield \/ JavaOrder \/ JavaTold \/ MozillaAsked
                   \/ JavaRuns \/ JavaDid \/ JavaTells \/ Frees)
<1> USE SyncAssumption DEF IInv, Thread, With, Find, Over, Phase, Apart, Merged, FirstYield, FirstOrder, FirstAsked, JavaYield, JavaOrder, JavaAsked, MozillaRuns, MozillaDid, MozillaTells, JavaTold, MozillaYield, MozillaOrder, MozillaAsked, JavaRuns, JavaDid, JavaTells, MozillaTold, Frees, Releases, Away, Waits
<1>1. states["mozilla"] = "call" => With(FirstAsked \/ JavaAsked)
  BY SMTT(30)
<1>2. states["mozilla"] = "done" => (Loose /\ Away) \/ With(MozillaTold)
  BY SMTT(30) DEF Loose
<1>3. states["mozilla"] \in {"free", "run"} => Loose /\ Away
  BY SMTT(30) DEF Loose
<1>4. states["mozilla"] = "wait" =>
        With(\/ JavaYield \/ JavaOrder \/ JavaTold \/ MozillaAsked
             \/ JavaRuns \/ JavaDid \/ JavaTells \/ Frees)
  BY SMTT(30)
<1> QED
  BY <1>1, <1>2, <1>3, <1>4

(* The same for the Java thread that owns the rendezvous.                  *)
LEMMA OwnerAt ==
  ASSUME IInv, NEW t \in Java, pc[t] \notin {"idle", "own", "ownWait"} \/ owner = t
  PROVE  /\ owner = t
         /\ pc[t] \in {"own", "doit"} => JavaRuns
         /\ pc[t] = "did" => JavaDid
         /\ pc[t] = "tell" => JavaTells
         /\ pc[t] = "yield" => FirstYield \/ JavaYield
         /\ pc[t] = "order" => FirstOrder \/ JavaOrder
         /\ pc[t] = "free" => Frees
         /\ pc[t] = "release" => Releases
         /\ pc[t] \notin {"idle", "ownWait"}
<1> USE SyncAssumption DEF IInv, Thread
<1>1. owner = t
  BY DEF OthersOutside
<1> USE <1>1 DEF Phase, Apart, Merged, FirstYield, FirstOrder, FirstAsked, JavaYield, JavaOrder, JavaAsked, MozillaRuns, MozillaDid, MozillaTells, JavaTold, MozillaYield, MozillaOrder, MozillaAsked, JavaRuns, JavaDid, JavaTells, MozillaTold, Frees, Releases, Away, Waits
<1>2. pc[t] \in {"own", "doit"} => JavaRuns
  BY SMTT(30)
<1>3. pc[t] = "did" => JavaDid
  BY SMTT(30)
<1>4. pc[t] = "tell" => JavaTells
  BY SMTT(30)
<1>5. pc[t] = "yield" => FirstYield \/ JavaYield
  BY SMTT(30)
<1>6. pc[t] = "order" => FirstOrder \/ JavaOrder
  BY SMTT(30)
<1>7. pc[t] = "free" => Frees
  BY SMTT(30)
<1>8. pc[t] = "release" => Releases
  BY SMTT(30)
<1>9. pc[t] \notin {"idle", "ownWait"}
  BY SMTT(30)
<1> QED
  BY <1>1, <1>2, <1>3, <1>4, <1>5, <1>6, <1>7, <1>8, <1>9

(* And in its loop.                                                        *)
LEMMA OwnerLoops ==
  ASSUME IInv, NEW t \in Java, pc[t] = "loop"
  PROVE  /\ owner = t
         /\ states["java"] = "call" => MozillaAsked
         /\ states["java"] = "done" => JavaTold
         /\ states["java"] \notin {"free", "run"}
         /\ states["java"] = "wait" =>
              \/ FirstAsked \/ JavaAsked \/ MozillaRuns \/ MozillaDid \/ MozillaTells
              \/ MozillaYield \/ MozillaOrder \/ MozillaTold
<1> USE SyncAssumption DEF IInv, Thread
<1>1. owner = t
  BY DEF OthersOutside
<1> USE <1>1 DEF Find, Over, Phase, Apart, Merged, FirstYield, FirstOrder, FirstAsked, JavaYield, JavaOrder, JavaAsked, MozillaRuns, MozillaDid, MozillaTells, JavaTold, MozillaYield, MozillaOrder, MozillaAsked, JavaRuns, JavaDid, JavaTells, MozillaTold, Frees, Releases, Away, Waits
<1>2. states["java"] = "call" => MozillaAsked
  BY SMTT(30)
<1>3. states["java"] = "done" => JavaTold
  BY SMTT(30)
<1>4. states["java"] \notin {"free", "run"}
  BY SMTT(30)
<1>5. states["java"] = "wait" =>
        \/ FirstAsked \/ JavaAsked \/ MozillaRuns \/ MozillaDid \/ MozillaTells
        \/ MozillaYield \/ MozillaOrder \/ MozillaTold
  BY SMTT(30)
<1> QED
  BY <1>1, <1>2, <1>3, <1>4, <1>5

(* The phase is of the two threads that are merged only.                   *)
LEMMA PhaseStays ==
  ASSUME Phase, pc'[Mozilla] = pc[Mozilla], owner \in Java => pc'[owner] = pc[owner],
         UNCHANGED <<owner, states, doit, stack>>, events' = events /\ lost' = lost
  PROVE  Phase'
<1> USE DEF Waits, Away, Over, Find, Served, Job, Even, Deeper, Java1, NestedCall, Unserved
<1>1. Apart => Apart'
  BY DEF Apart
<1>2. ASSUME Merged PROVE Merged'
  <2> USE <1>2
  <2>1. owner \in Java /\ owner' = owner /\ pc'[owner] = pc[owner]
    BY DEF Merged
  <2>2. FirstYield \/ FirstOrder \/ FirstAsked => (FirstYield \/ FirstOrder \/ FirstAsked)'
    BY <2>1 DEF FirstYield, FirstOrder, FirstAsked
  <2>3. JavaYield \/ JavaOrder \/ JavaAsked => (JavaYield \/ JavaOrder \/ JavaAsked)'
    BY <2>1 DEF JavaYield, JavaOrder, JavaAsked
  <2>4. MozillaRuns \/ MozillaDid \/ MozillaTells \/ JavaTold
          => (MozillaRuns \/ MozillaDid \/ MozillaTells \/ JavaTold)'
    BY <2>1 DEF MozillaRuns, MozillaDid, MozillaTells, JavaTold
  <2>5. MozillaYield \/ MozillaOrder \/ MozillaAsked
          => (MozillaYield \/ MozillaOrder \/ MozillaAsked)'
    BY <2>1 DEF MozillaYield, MozillaOrder, MozillaAsked
  <2>6. JavaRuns \/ JavaDid \/ JavaTells \/ MozillaTold
          => (JavaRuns \/ JavaDid \/ JavaTells \/ MozillaTold)'
    BY <2>1 DEF JavaRuns, JavaDid, JavaTells, MozillaTold
  <2>7. Frees \/ Releases => (Frees \/ Releases)'
    BY <2>1 DEF Frees, Releases
  <2> QED
    BY <2>1, <2>2, <2>3, <2>4, <2>5, <2>6, <2>7 DEF Merged
<1> QED
  BY <1>1, <1>2 DEF Phase


(* lj_CallOther: a nested call of mozilla or of Java, a first call of Java,*)
(* or a thread that has to wait for the merging of another.                *)
LEMMA OwnKeeps ==
  ASSUME IInv, NEW t \in Thread, Own(t)
  PROVE  IInv'
<1> USE SyncAssumption DEF IInv, Thread
<1>t. Stacks
  BY DEF SyncTypeOK, Stacks
<1>1. CASE t = Mozilla
  <2>1. MozillaRuns /\ owner \in Java
    BY <1>1, MozillaAt, OwnerAt DEF Own, With
  <2>2. /\ Push(t, "nested") /\ GoTo(t, "yield") /\ UNCHANGED <<owner, waiters>>
        /\ UNCHANGED <<lost, states, doit, events, xlock>>
    BY <1>1 DEF Own
  <2>3. Stacks' /\ Pushed(t, "nested")
    BY <1>t, <2>2, Pushing
  <2>4. SyncTypeOK'
    BY <2>2, <2>3 DEF SyncTypeOK, GoTo, Stacks
  <2>5. FramesKept'
    BY <1>t, <1>1, <2>1, <2>2, <2>3, FramesPushed DEF Kind, MozillaRuns, Even
  <2>6. OthersOutside'
    BY <1>1, <2>2, <2>3 DEF OthersOutside, GoTo, SyncTypeOK, Pushed, Below
  <2>7. MozillaYield'
    BY <1>1, <2>1, <2>2, <2>3 DEF MozillaRuns, MozillaYield, Find, Waits, Served,
                                  Even, Unserved, Deeper, GoTo, SyncTypeOK,
                                  Pushed, Below
  <2>8. WaitsOutsideX'
    BY <1>1, <2>2 DEF Own, WaitsOutsideX, SyncTypeOK, GoTo
  <2> QED
    BY <2>1, <2>2, <2>4, <2>5, <2>6, <2>7, <2>8 DEF Phase, Merged
<1>2. CASE t # Mozilla /\ owner = t
  <2>1. JavaRuns
    BY <1>2, MozillaAt, OwnerAt DEF Own, With
  <2>2. /\ Push(t, "nested") /\ GoTo(t, "yield") /\ UNCHANGED <<owner, waiters>>
        /\ UNCHANGED <<lost, states, doit, events, xlock>>
    BY <1>2 DEF Own
  <2>3. Stacks' /\ Pushed(t, "nested")
    BY <1>t, <2>2, Pushing
  <2>4. SyncTypeOK'
    BY <2>2, <2>3 DEF SyncTypeOK, GoTo, Stacks
  <2>5. FramesKept'
    BY <1>t, <1>2, <2>1, <2>2, <2>3, FramesPushed
       DEF Kind, JavaRuns, Deeper, Unserved
  <2>6. OthersOutside'
    BY <1>2, <2>2, <2>3 DEF OthersOutside, GoTo, SyncTypeOK, Pushed, Below
  <2>7. JavaYield'
    BY <1>2, <2>1, <2>2, <2>3 DEF JavaRuns, JavaYield, Find, Waits, Served, Even,
                                  Unserved, Deeper, NestedCall, GoTo, SyncTypeOK,
                                  Pushed, Below
  <2>8. WaitsOutsideX'
    BY <1>2, <2>2 DEF Own, WaitsOutsideX, SyncTypeOK, GoTo
  <2> QED
    BY <1>2, <2>2, <2>4, <2>5, <2>6, <2>7, <2>8 DEF Phase, Merged
<1>3. CASE t # Mozilla /\ owner = None
  <2>1. Apart /\ stack[t] = <<>>
    BY <1>3 DEF Phase, Merged, OthersOutside
  <2>2. /\ Push(t, "first") /\ GoTo(t, "yield") /\ owner' = t /\ UNCHANGED waiters
        /\ UNCHANGED <<lost, states, doit, events, xlock>>
    BY <1>3 DEF Own
  <2>3. Stacks' /\ Pushed(t, "first")
    BY <1>t, <2>2, Pushing
  <2>4. SyncTypeOK'
    BY <1>3, <2>2, <2>3 DEF SyncTypeOK, GoTo, Stacks
  <2>5. FramesKept'
    <3>1. Len(stack[t]) = 0 /\ Kind(t, 1) = "first"
      BY <1>3, <2>1 DEF Kind
    <3>2. Len(stack'[Mozilla]) <= 1
      <4>1. stack'[Mozilla] = stack[Mozilla]
        BY <1>3, <2>3 DEF Pushed, Below
      <4>2. Len(stack[Mozilla]) = 1 \/ stack[Mozilla] = <<>>
        BY <2>1 DEF Apart, Away
      <4>3. CASE Len(stack[Mozilla]) = 1
        BY <4>1, <4>3
      <4>4. CASE stack[Mozilla] = <<>>
        BY <4>1, <4>4
      <4> QED
        BY <4>2, <4>3, <4>4
    <3> QED
      BY <1>t, <2>3, <3>1, <3>2, FramesPushed
  <2>6. OthersOutside'
    BY <1>3, <2>2, <2>3 DEF OthersOutside, GoTo, SyncTypeOK, Pushed, Below
  <2>7. FirstYield'
    BY <1>3, <2>1, <2>2, <2>3 DEF Apart, FirstYield, Away, Over, Served, Java1,
                                  GoTo, SyncTypeOK, Pushed, Below
  <2>8. WaitsOutsideX'
    BY <1>3, <2>2 DEF Own, WaitsOutsideX, SyncTypeOK, GoTo
  <2> QED
    BY <1>3, <2>2, <2>4, <2>5, <2>6, <2>7, <2>8 DEF Phase, Merged
<1>4. CASE t # Mozilla /\ owner \notin {None, t}
  <2>1. /\ GoTo(t, "ownWait") /\ waiters' = Append(waiters, t)
        /\ UNCHANGED <<owner, stack, lost, states, doit, events, xlock>>
    BY <1>4 DEF Own, Unowned
  <2>2. SyncTypeOK'
    <3>1. waiters' \in Seq(Java)
      BY <1>4, <2>1 DEF SyncTypeOK
    <3> QED
      BY <1>4, <2>1, <3>1 DEF SyncTypeOK, GoTo
  <2>3. FramesKept' /\ OthersOutside' /\ WaitsOutsideX'
    BY <1>4, <2>1 DEF FramesKept, Kind, OthersOutside, WaitsOutsideX, GoTo,
                      SyncTypeOK
  <2>4. owner \in Java /\ pc'[owner] = pc[owner] /\ pc'[Mozilla] = pc[Mozilla]
    BY <1>4, <2>1 DEF GoTo, SyncTypeOK
  <2>5. Phase'
    BY <1>4, <2>1, <2>4, PhaseStays
  <2> QED
    BY <2>2, <2>3, <2>5
<1> QED
  BY <1>1, <1>2, <1>3, <1>4

(* A thread that calls is not told anything until it has given its order.  *)
LEMMA YieldKeeps ==
  ASSUME IInv, NEW t \in Thread, YieldTo(t)
  PROVE  IInv'
<1> USE SyncAssumption DEF IInv, Thread
<1>1. /\ pc[t] = "yield" /\ GoTo(t, "order")
      /\ states' = [states EXCEPT ![Side(t)] = "wait"]
      /\ UNCHANGED <<lost, owner, waiters, doit, events, xlock, stack>>
  BY DEF YieldTo
<1>2. SyncTypeOK'
  BY <1>1 DEF SyncTypeOK, GoTo, Side
<1>3. FramesKept' /\ OthersOutside' /\ WaitsOutsideX'
  <2>1. FramesKept'
    BY <1>1 DEF FramesKept, Kind
  <2>2. \A u \in Thread : u # t => pc'[u] = pc[u]
    BY <1>1 DEF GoTo, SyncTypeOK
  <2>4. t = Mozilla \/ t = owner
    BY <1>1 DEF OthersOutside
  <2>5. OthersOutside'
    BY <1>1, <2>2, <2>4 DEF OthersOutside
  <2>6. WaitsOutsideX'
    BY <1>1, <2>2 DEF WaitsOutsideX
  <2> QED
    BY <2>1, <2>5, <2>6
<1>4. CASE t = Mozilla
  <2>1. MozillaYield /\ owner \in Java
    BY <1>1, <1>4, MozillaAt, OwnerAt DEF With
  <2>2. MozillaOrder'
    BY <1>1, <1>4, <2>1 DEF MozillaYield, MozillaOrder, Waits, Find, Unserved,
                            Deeper, Served, GoTo, Side, SyncTypeOK
  <2> QED
    BY <1>1, <1>2, <1>3, <2>1, <2>2 DEF Phase, Merged
<1>5. CASE t # Mozilla
  <2>1. owner = t /\ (FirstYield \/ JavaYield)
    <3>1. owner = t
      BY <1>1, <1>5 DEF OthersOutside
    <3> QED
      BY <1>1, <1>5, <3>1, MozillaAt, OwnerAt DEF With
  <2>2. FirstYield => FirstOrder'
    BY <1>1, <1>5, <2>1 DEF FirstYield, FirstOrder, Away, Over, Java1, Served,
                            GoTo, Side, SyncTypeOK
  <2>3. JavaYield => JavaOrder'
    BY <1>1, <1>5, <2>1 DEF JavaYield, JavaOrder, Waits, Find, NestedCall, Even,
                            Served, GoTo, Side, SyncTypeOK
  <2> QED
    BY <1>1, <1>2, <1>3, <1>5, <2>1, <2>2, <2>3 DEF Phase, Merged
<1> QED
  BY <1>4, <1>5

(* The order of a first call is found by a mozilla thread that is away; of *)
(* a nested call by a side that waits, or is about to.                     *)
LEMMA OrderKeeps ==
  ASSUME IInv, NEW t \in Thread, Order(t)
  PROVE  IInv'
<1> USE SyncAssumption DEF IInv, Thread
<1>1. /\ pc[t] = "order" /\ doit' = t
      /\ states' = [states EXCEPT ![Other(t)] = "call"]
      /\ UNCHANGED <<owner, waiters, xlock, stack>>
  BY DEF Order
<1>2. /\ events' \in Nat /\ lost' \in BOOLEAN
      /\ GoTo(t, "loop") \/ GoToNotify(t, "loop", Other(t))
  <2>1. events' \in Nat
    BY DEF Order, SyncTypeOK
  <2>2. lost' \in BOOLEAN
    BY Zenon DEF Order, SyncTypeOK
  <2>3. GoTo(t, "loop") \/ GoToNotify(t, "loop", Other(t))
    BY Zenon DEF Order
  <2> QED
    BY <2>1, <2>2, <2>3
<1>3. pc' \in [Thread -> {"idle", "own", "ownWait", "yield", "order", "loop", "xlock",
                          "doit", "did", "tell", "waiting", "free", "release"}]
  BY <1>2 DEF GoTo, GoToNotify, SyncTypeOK
<1>4. SyncTypeOK'
  BY <1>1, <1>2, <1>3 DEF SyncTypeOK, Other
<1>5. FramesKept' /\ OthersOutside' /\ WaitsOutsideX'
  <2>1. FramesKept'
    BY <1>1 DEF FramesKept, Kind
  <2>2. \A u \in Thread : u # t /\ pc[u] # "waiting" => pc'[u] = pc[u]
    BY <1>2 DEF GoTo, GoToNotify, SyncTypeOK
  <2>3. OthersOutside'
    BY <1>1, <2>2 DEF OthersOutside
  <2>4. WaitsOutsideX'
    BY <1>1, <2>2 DEF WaitsOutsideX
  <2> QED
    BY <2>1, <2>3, <2>4
<1>6. CASE t = Mozilla
  <2>1. MozillaOrder /\ owner \in Java
    BY <1>1, <1>6, MozillaAt, OwnerAt DEF With
  <2> DEFINE n == Len(stack[t])
  <2>n. n = Len(stack[t])
    OBVIOUS
  <2> HIDE DEF n
  <2>2. Top(t).kind = "nested"
    <3>1. n > 1 /\ n \in 1 .. Len(stack[t])
      BY <1>6, <2>n, <2>1 DEF MozillaOrder, Unserved, Deeper, SyncTypeOK
    <3>2. Top(t).kind = Kind(t, n)
      BY <2>n, <3>1 DEF FramesKept, Top, Last
    <3> QED
      BY <3>1, <3>2 DEF Kind
  <2>3. GoToNotify(t, "loop", "java")
    BY <1>6, <2>2 DEF Order, Lures, Other
  <2>4. MozillaAsked'
    BY <1>1, <1>6, <2>1, <2>3 DEF MozillaOrder, MozillaAsked, Waits, Find,
                                  Unserved, Deeper, Served, GoToNotify, Side,
                                  Other, SyncTypeOK
  <2> QED
    BY <1>1, <1>4, <1>5, <2>1, <2>4 DEF Phase, Merged
<1>7. CASE t # Mozilla
  <2>1. owner = t /\ (FirstOrder \/ JavaOrder)
    <3>1. owner = t
      BY <1>1, <1>7 DEF OthersOutside
    <3> QED
      BY <1>1, <1>7, <3>1, MozillaAt, OwnerAt DEF With
  <2>2. CASE FirstOrder
    <3>1. Top(t).kind = "first"
      <4>1. Len(stack[t]) = 1
        BY <2>1, <2>2 DEF FirstOrder, Java1
      <4>2. stack[t][1].kind = Kind(t, 1)
        BY <4>1 DEF FramesKept
      <4>3. Top(t) = stack[t][1]
        BY <4>1 DEF Top, Last
      <4> QED
        BY <1>7, <4>2, <4>3 DEF Kind
    <3>2. GoTo(t, "loop") /\ (events' > 0 \/ lost')
      BY <1>7, <3>1 DEF Order, Lures, SyncTypeOK
    <3>3. FirstAsked'
      BY <1>1, <1>7, <2>1, <2>2, <3>2 DEF FirstOrder, FirstAsked, Away, Over,
             Java1, Served, Waits, Find, GoTo, Other, SyncTypeOK
    <3> QED
      BY <1>1, <1>4, <1>5, <1>7, <2>1, <3>3 DEF Phase, Merged
  <2>3. CASE JavaOrder
    <3>1. Top(t).kind = "nested"
      BY <1>7, <2>1, <2>3 DEF JavaOrder, NestedCall, FramesKept, Kind,
                              SyncTypeOK, Top, Last
    <3>2. GoToNotify(t, "loop", "mozilla")
      BY <1>7, <3>1 DEF Order, Lures, Other
    <3>3. JavaAsked'
      BY <1>1, <1>7, <2>1, <2>3, <3>2 DEF JavaOrder, JavaAsked, Waits, Find,
             NestedCall, Even, Served, GoToNotify, Side, Other, SyncTypeOK
    <3> QED
      BY <1>1, <1>4, <1>5, <1>7, <2>1, <3>3 DEF Phase, Merged
  <2> QED
    BY <2>1, <2>2, <2>3
<1> QED
  BY <1>6, <1>7

(* The mozilla thread enters lj_Run because of an event, maybe an old one. *)
LEMMA HandleEventKeeps ==
  ASSUME IInv, HandleEvent
  PROVE  IInv'
<1> USE SyncAssumption DEF IInv, Thread
<1>1. /\ pc[Mozilla] = "idle" /\ events' = events - 1 /\ events > 0
      /\ Push(Mozilla, "event") /\ GoTo(Mozilla, "loop")
      /\ UNCHANGED <<lost, owner, waiters, states, doit, xlock>>
  BY DEF HandleEvent
<1>t. Stacks
  BY DEF SyncTypeOK, Stacks
<1>2. Stacks' /\ Pushed(Mozilla, "event")
  BY <1>t, <1>1, Pushing
<1>3. SyncTypeOK'
  <2>1. events' \in Nat
    BY <1>1 DEF SyncTypeOK
  <2> QED
    BY <1>1, <1>2, <2>1 DEF SyncTypeOK, GoTo, Stacks
<1>4. /\ Away /\ stack[Mozilla] = <<>>
      /\ \/ Apart
         \/ owner \in Java /\ (FirstYield \/ FirstOrder \/ FirstAsked \/ Releases)
  BY <1>1, MozillaAt DEF Loose, Apart, FirstYield, FirstOrder, FirstAsked,
                         Releases, Away
<1>5. FramesKept'
  <2>1. Len(stack[Mozilla]) = 0 /\ Kind(Mozilla, 1) = "event"
    BY <1>4 DEF Kind
  <2> QED
    BY <1>t, <1>1, <1>2, <2>1, FramesPushed
<1>6. OthersOutside' /\ WaitsOutsideX'
  BY <1>1, <1>2 DEF OthersOutside, WaitsOutsideX, GoTo, SyncTypeOK, Pushed, Below
<1>7. Away' /\ pc'[Mozilla] = "loop"
  BY <1>1, <1>2, <1>4 DEF Away, Served, GoTo, SyncTypeOK, Pushed
<1>8. \A u \in Java : pc'[u] = pc[u] /\ stack'[u] = stack[u]
  BY <1>1, <1>2 DEF GoTo, SyncTypeOK, Pushed, Below
<1>9. Phase'
  BY <1>1, <1>4, <1>7, <1>8 DEF Phase, Merged, Apart, FirstYield, FirstOrder,
                                FirstAsked, Releases, Over, Java1, Served, Waits,
                                Find
<1> QED
  BY <1>3, <1>5, <1>6, <1>9

(* An order is taken by the side it is for, and names the other.           *)
LEMMA RunOrderKeeps ==
  ASSUME IInv, NEW t \in Thread, RunOrder(t)
  PROVE  IInv'
<1> USE SyncAssumption DEF IInv, Thread
<1> DEFINE f == [stack[t][Len(stack[t])] EXCEPT !.job = doit]
<1>1. /\ pc[t] = "loop" /\ states[Side(t)] = "call"
      /\ states' = [states EXCEPT ![Side(t)] = "run"]
      /\ stack' = [stack EXCEPT ![t][Len(stack[t])].job = doit]
      /\ GoTo(t, IF t = Mozilla THEN "xlock" ELSE "doit")
      /\ UNCHANGED <<lost, owner, waiters, doit, events, xlock>>
  BY DEF RunOrder
<1>t. Stacks
  BY DEF SyncTypeOK, Stacks
<1>2. \/ t = Mozilla /\ owner \in Java /\ (FirstAsked \/ JavaAsked)
      \/ t \in Java /\ owner = t /\ MozillaAsked
  <2>1. CASE t = Mozilla
    BY <1>1, <2>1, MozillaLoops, OwnerLoops DEF Side, With
  <2>2. CASE t # Mozilla
    <3>1. owner = t
      BY <1>1, <2>2 DEF OthersOutside
    <3> QED
      BY <1>1, <2>2, <3>1, MozillaLoops, OwnerLoops DEF Side, With
  <2> QED
    BY <2>1, <2>2
<1>3. Len(stack[t]) \in Nat \ {0} /\ stack[t] # <<>>
  <2>1. stack[t] \in Seq(Frame)
    BY <1>t DEF Stacks
  <2>2. CASE t = Mozilla /\ FirstAsked
    BY <1>1, <2>1, <2>2 DEF FirstAsked, Away
  <2>3. CASE t = Mozilla /\ JavaAsked
    BY <2>1, <2>3 DEF JavaAsked, NestedCall, Even
  <2>4. CASE owner = t /\ MozillaAsked
    BY <2>1, <2>4 DEF MozillaAsked, Unserved, Deeper
  <2> QED
    BY <1>2, <2>2, <2>3, <2>4
<1>4. /\ f \in Frame /\ f.job = doit
      /\ f.kind = stack[t][Len(stack[t])].kind
      /\ f.served = stack[t][Len(stack[t])].served
  <2>1. stack[t][Len(stack[t])] \in Frame
    BY <1>t, <1>3 DEF Stacks
  <2> QED
    BY <2>1 DEF Frame, SyncTypeOK
<1>5. stack' = [stack EXCEPT ![t] = [stack[t] EXCEPT ![Len(stack[t])] = f]]
  BY <1>1
<1> HIDE DEF f
<1>6. Stacks' /\ Marked(t, f)
  BY <1>t, <1>3, <1>4, <1>5, Marking
<1>7. SyncTypeOK'
  BY <1>1, <1>6 DEF SyncTypeOK, GoTo, Stacks, Side
<1>8. FramesKept'
  BY <1>t, <1>1, <1>4, <1>6, FramesTopped DEF Marked
<1>9. OthersOutside' /\ WaitsOutsideX'
  BY <1>1, <1>2, <1>6 DEF OthersOutside, WaitsOutsideX, GoTo, SyncTypeOK, Marked,
                          Below
<1>10. CASE t = Mozilla
  <2>1. MozillaRuns'
    <3>1. Find("run", "wait")' /\ Waits(owner)' /\ pc'[Mozilla] = "xlock"
      BY <1>1, <1>2, <1>10 DEF FirstAsked, JavaAsked, Find, Waits, GoTo, Side,
                               SyncTypeOK
    <3>2. Even /\ Served(owner, 0) /\ Served(Mozilla, 0) /\ doit = owner
      BY <1>1, <1>2, <1>10 DEF FirstAsked, JavaAsked, Away, Java1, Even, NestedCall
    <3>3. Even' /\ Served(owner, 0)' /\ Served(Mozilla, 0)' /\ Job(Mozilla, owner)'
      BY <1>1, <1>2, <1>4, <1>6, <1>10, <3>2 DEF Even, Served, Job, Marked, Below
    <3> QED
      BY <3>1, <3>3 DEF MozillaRuns
  <2> QED
    BY <1>1, <1>2, <1>7, <1>8, <1>9, <1>10, <2>1 DEF Phase, Merged
<1>11. CASE t # Mozilla
  <2>1. JavaRuns'
    BY <1>1, <1>2, <1>4, <1>6, <1>11 DEF MozillaAsked, JavaRuns, Find, Waits,
           Unserved, Deeper, Served, Job, GoTo, Side, SyncTypeOK, Marked, Below
  <2> QED
    BY <1>1, <1>2, <1>7, <1>8, <1>9, <1>11, <2>1 DEF Phase, Merged
<1> QED
  BY <1>10, <1>11

(* X is entered for a callback, or on the way back to the event loop.      *)
LEMMA XLockKeeps ==
  ASSUME IInv, XLock
  PROVE  IInv'
<1> USE SyncAssumption DEF IInv, Thread
<1>1. /\ pc[Mozilla] = "xlock"
      /\ xlock' = IF stack[Mozilla] = <<>> THEN None ELSE Mozilla
      /\ GoTo(Mozilla, IF stack[Mozilla] = <<>> THEN "idle" ELSE "doit")
      /\ UNCHANGED <<lost, owner, waiters, states, doit, events, stack>>
  BY DEF XLock
<1>2. SyncTypeOK'
  BY <1>1 DEF SyncTypeOK, GoTo
<1>3. FramesKept' /\ OthersOutside' /\ WaitsOutsideX'
  BY <1>1 DEF FramesKept, Kind, OthersOutside, WaitsOutsideX, GoTo, SyncTypeOK
<1>4. CASE stack[Mozilla] = <<>>
  <2>1. \/ Apart
        \/ owner \in Java /\ (FirstYield \/ FirstOrder \/ FirstAsked \/ Releases)
    BY <1>1, <1>4, MozillaAt DEF With, Loose, Apart, FirstYield, FirstOrder,
                                 FirstAsked, Releases, Away, MozillaRuns, Even
  <2>2. Away'
    BY <1>1, <1>4 DEF Away, GoTo, SyncTypeOK
  <2>3. \A u \in Java : pc'[u] = pc[u]
    BY <1>1 DEF GoTo, SyncTypeOK
  <2>4. Phase'
    BY <1>1, <2>1, <2>2, <2>3 DEF Phase, Merged, Apart, FirstYield, FirstOrder,
                                  FirstAsked, Releases, Over, Java1, Served,
                                  Waits, Find
  <2> QED
    BY <1>2, <1>3, <2>4
<1>5. CASE stack[Mozilla] # <<>>
  <2>1. owner \in Java /\ MozillaRuns
    BY <1>1, <1>5, MozillaAt DEF With, Loose, Apart, FirstYield, FirstOrder,
                                 FirstAsked, Releases, Away, MozillaRuns, Even
  <2>2. MozillaRuns'
    BY <1>1, <1>5, <2>1 DEF MozillaRuns, Waits, Find, Even, Job, Served, GoTo,
                            SyncTypeOK
  <2> QED
    BY <1>1, <1>2, <1>3, <2>1, <2>2 DEF Phase, Merged
<1> QED
  BY <1>4, <1>5

(* A callback that returns has served the top frame of the other side.     *)
LEMMA FinishKeeps ==
  ASSUME IInv, NEW t \in Thread, Finish(t)
  PROVE  IInv'
<1> USE SyncAssumption DEF IInv, Thread
<1> DEFINE job == stack[t][Len(stack[t])].job
           f == [stack[job][Len(stack[job])] EXCEPT !.served = @ + 1]
<1>1. /\ pc[t] = "doit"
      /\ xlock' = IF t = Mozilla THEN None ELSE xlock
      /\ stack' = [stack EXCEPT ![job][Len(stack[job])].served = @ + 1]
      /\ GoTo(t, "did")
      /\ UNCHANGED <<lost, owner, waiters, states, doit, events>>
  BY DEF Finish, Top, Last
<1>t. Stacks
  BY DEF SyncTypeOK, Stacks
<1>2. \/ t = Mozilla /\ owner \in Java /\ MozillaRuns
      \/ t \in Java /\ owner = t /\ JavaRuns
  <2>1. CASE t = Mozilla
    BY <1>1, <2>1, MozillaAt, OwnerAt DEF With
  <2>2. CASE t # Mozilla
    <3>1. owner = t
      BY <1>1, <2>2 DEF OthersOutside
    <3> QED
      BY <1>1, <2>2, <3>1, MozillaAt, OwnerAt DEF With
  <2> QED
    BY <2>1, <2>2
<1>3. job = (IF t = Mozilla THEN owner ELSE Mozilla)
  BY <1>2 DEF MozillaRuns, JavaRuns, Job
<1>4. job \in Thread /\ Len(stack[job]) \in Nat \ {0} /\ stack[job] # <<>> /\ Served(job, 0)
  <2>1. job \in Thread
    BY <1>2, <1>3
  <2>2. stack[job] \in Seq(Frame)
    BY <1>t, <2>1 DEF Stacks
  <2>3. CASE t = Mozilla
    BY <1>2, <1>3, <2>2, <2>3 DEF MozillaRuns, Even
  <2>4. CASE t # Mozilla
    BY <1>2, <1>3, <2>2, <2>4 DEF JavaRuns, Unserved, Deeper
  <2> QED
    BY <2>1, <2>3, <2>4
<1>5. f \in Frame /\ f.served = 1 /\ f.job = stack[job][Len(stack[job])].job
      /\ f.kind = stack[job][Len(stack[job])].kind
  <2>1. stack[job][Len(stack[job])] \in Frame
    BY <1>t, <1>4 DEF Stacks
  <2> PICK g \in Frame : g = stack[job][Len(stack[job])]
    BY <2>1
  <2>2. g.served = 0 /\ f = [g EXCEPT !.served = @ + 1]
    BY <1>4 DEF Served
  <2> HIDE DEF f, job
  <2>3. f \in Frame /\ f.served = 1 /\ f.job = g.job /\ f.kind = g.kind
    BY <2>2 DEF Frame
  <2> QED
    BY <2>3
<1>6. stack' = [stack EXCEPT ![job] = [stack[job] EXCEPT ![Len(stack[job])] = f]]
  BY <1>1
<1> HIDE DEF f, job
<1>7. Stacks' /\ Marked(job, f)
  BY <1>t, <1>4, <1>5, <1>6, Marking
<1>8. SyncTypeOK'
  BY <1>1, <1>7 DEF SyncTypeOK, GoTo, Stacks
<1>9. FramesKept'
  BY <1>t, <1>1, <1>4, <1>5, <1>7, FramesTopped DEF Marked
<1>10. OthersOutside' /\ WaitsOutsideX'
  BY <1>1, <1>2, <1>3, <1>7 DEF OthersOutside, WaitsOutsideX, GoTo, SyncTypeOK,
                                Marked, Below
<1>11. CASE t = Mozilla
  <2>1. MozillaDid'
    BY <1>1, <1>2, <1>3, <1>4, <1>5, <1>7, <1>11
       DEF MozillaRuns, MozillaDid, Find, Waits, Even, Served, Job, GoTo,
           SyncTypeOK, Marked, Below
  <2> QED
    BY <1>1, <1>2, <1>8, <1>9, <1>10, <1>11, <2>1 DEF Phase, Merged
<1>12. CASE t # Mozilla
  <2>1. JavaDid'
    BY <1>1, <1>2, <1>3, <1>4, <1>5, <1>7, <1>12
       DEF JavaRuns, JavaDid, Find, Waits, Unserved, Deeper, Served, Job, GoTo,
           SyncTypeOK, Marked, Below
  <2> QED
    BY <1>1, <1>2, <1>8, <1>9, <1>10, <1>12, <2>1 DEF Phase, Merged
<1> QED
  BY <1>11, <1>12

(* It begins to wait before it tells the other side, ...                   *)
LEMMA DidKeeps ==
  ASSUME IInv, NEW t \in Thread, Did(t)
  PROVE  IInv'
<1> USE SyncAssumption DEF IInv, Thread
<1>1. /\ pc[t] = "did" /\ states' = [states EXCEPT ![Side(t)] = "wait"]
      /\ GoTo(t, "tell")
      /\ UNCHANGED <<lost, owner, waiters, doit, events, xlock, stack>>
  BY DEF Did, WaitAgain
<1>2. SyncTypeOK'
  BY <1>1 DEF SyncTypeOK, GoTo, Side
<1>3. FramesKept' /\ OthersOutside' /\ WaitsOutsideX'
  BY <1>1 DEF FramesKept, Kind, OthersOutside, WaitsOutsideX, GoTo, SyncTypeOK
<1>4. CASE t = Mozilla
  <2>1. owner \in Java /\ MozillaDid
    BY <1>1, <1>4, MozillaAt, OwnerAt DEF With
  <2>2. MozillaTells'
    BY <1>1, <1>4, <2>1 DEF MozillaDid, MozillaTells, Waits, Find, Even, Served,
                            GoTo, Side, SyncTypeOK
  <2> QED
    BY <1>1, <1>2, <1>3, <2>1, <2>2 DEF Phase, Merged
<1>5. CASE t # Mozilla
  <2>1. owner = t
    BY <1>1, <1>5 DEF OthersOutside
  <2>2. JavaDid
    BY <1>1, <1>5, <2>1, MozillaAt, OwnerAt DEF With
  <2>3. JavaTells'
    BY <1>1, <1>5, <2>1, <2>2 DEF JavaDid, JavaTells, Waits, Find, Deeper,
                                  Served, Job, GoTo, Side, SyncTypeOK
  <2> QED
    BY <1>1, <1>2, <1>3, <1>5, <2>1, <2>3 DEF Phase, Merged
<1> QED
  BY <1>4, <1>5

(* ... which may be waiting already, or about to.                          *)
LEMMA TellKeeps ==
  ASSUME IInv, NEW t \in Thread, Tell(t)
  PROVE  IInv'
<1> USE SyncAssumption DEF IInv, Thread
<1>1. /\ pc[t] = "tell" /\ states' = [states EXCEPT ![Other(t)] = "done"]
      /\ GoToNotify(t, "loop", Other(t))
      /\ UNCHANGED <<lost, owner, waiters, doit, events, xlock, stack>>
  BY DEF Tell
<1>2. SyncTypeOK'
  <2>1. pc' \in [Thread -> {"idle", "own", "ownWait", "yield", "order", "loop", "xlock",
                            "doit", "did", "tell", "waiting", "free", "release"}]
    BY <1>1 DEF GoToNotify, SyncTypeOK
  <2> QED
    BY <1>1, <2>1 DEF SyncTypeOK, Other
<1>3. FramesKept' /\ OthersOutside' /\ WaitsOutsideX'
  <2>1. \A u \in Thread : u # t /\ pc[u] # "waiting" => pc'[u] = pc[u]
    BY <1>1 DEF GoToNotify, SyncTypeOK
  <2>2. FramesKept'
    BY <1>1 DEF FramesKept, Kind
  <2>3. OthersOutside'
    BY <1>1, <2>1 DEF OthersOutside
  <2>4. WaitsOutsideX'
    BY <1>1, <2>1 DEF WaitsOutsideX
  <2> QED
    BY <2>2, <2>3, <2>4
<1>4. CASE t = Mozilla
  <2>1. owner \in Java /\ MozillaTells
    BY <1>1, <1>4, MozillaAt, OwnerAt DEF With
  <2>2. JavaTold'
    BY <1>1, <1>4, <2>1 DEF MozillaTells, JavaTold, Waits, Find, Even, Served,
                            GoToNotify, Side, Other, SyncTypeOK
  <2> QED
    BY <1>1, <1>2, <1>3, <2>1, <2>2 DEF Phase, Merged
<1>5. CASE t # Mozilla
  <2>1. owner = t
    BY <1>1, <1>5 DEF OthersOutside
  <2>2. JavaTells
    BY <1>1, <1>5, <2>1, MozillaAt, OwnerAt DEF With
  <2>3. MozillaTold'
    BY <1>1, <1>5, <2>1, <2>2 DEF JavaTells, MozillaTold, Waits, Find, Deeper,
                                  Served, GoToNotify, Side, Other, SyncTypeOK
  <2> QED
    BY <1>1, <1>2, <1>3, <1>5, <2>1, <2>3 DEF Phase, Merged
<1> QED
  BY <1>4, <1>5

(* A thread waits only when there is nothing that it could find.           *)
LEMMA WaitKeeps ==
  ASSUME IInv, NEW t \in Thread, Wait(t)
  PROVE  IInv'
<1> USE SyncAssumption DEF IInv, Thread
<1>1. /\ pc[t] = "loop" /\ states[Side(t)] = "wait" /\ GoTo(t, "waiting")
      /\ UNCHANGED <<lost, owner, waiters, states, doit, events, xlock, stack>>
  BY DEF Wait
<1>2. SyncTypeOK'
  BY <1>1 DEF SyncTypeOK, GoTo
<1>3. FramesKept' /\ OthersOutside' /\ WaitsOutsideX'
  BY <1>1 DEF FramesKept, Kind, OthersOutside, WaitsOutsideX, GoTo, SyncTypeOK
<1>4. \A u \in Thread : pc'[u] = pc[u] \/ (u = t /\ pc'[u] = "waiting")
  BY <1>1 DEF GoTo, SyncTypeOK
<1>5. owner \in Java /\ (t = Mozilla \/ t = owner)
  <2>1. owner # None
    BY <1>1 DEF Phase, Merged, Apart, OthersOutside, Over, Side
  <2> QED
    BY <1>1, <2>1 DEF OthersOutside, SyncTypeOK
<1>6. CASE t = Mozilla
  <2>1. \/ JavaYield \/ JavaOrder \/ JavaTold \/ MozillaAsked
        \/ JavaRuns \/ JavaDid \/ JavaTells \/ Frees
    BY <1>1, <1>5, <1>6, MozillaLoops, OwnerLoops DEF Side, With
  <2>2. pc'[owner] = pc[owner] /\ Waits(Mozilla)'
    BY <1>1, <1>4, <1>5, <1>6 DEF Waits, GoTo, SyncTypeOK
  <2>3. \/ JavaYield' \/ JavaOrder' \/ JavaTold' \/ MozillaAsked'
        \/ JavaRuns' \/ JavaDid' \/ JavaTells' \/ Frees'
    BY <1>1, <2>1, <2>2 DEF JavaYield, JavaOrder, JavaTold, MozillaAsked,
                            JavaRuns, JavaDid, JavaTells, Frees, Find, Even,
                            Deeper, NestedCall, Unserved, Served, Job
  <2> QED
    BY <1>1, <1>2, <1>3, <1>5, <2>3 DEF Phase, Merged
<1>7. CASE t = owner
  <2>1. \/ FirstAsked \/ JavaAsked \/ MozillaRuns \/ MozillaDid \/ MozillaTells
        \/ MozillaYield \/ MozillaOrder \/ MozillaTold
    BY <1>1, <1>5, <1>7, MozillaLoops, OwnerLoops DEF Side, With
  <2>2. pc'[Mozilla] = pc[Mozilla] /\ Waits(owner)'
    BY <1>1, <1>4, <1>5, <1>7 DEF Waits, GoTo, SyncTypeOK
  <2>3. \/ FirstAsked' \/ JavaAsked' \/ MozillaRuns' \/ MozillaDid' \/ MozillaTells'
        \/ MozillaYield' \/ MozillaOrder' \/ MozillaTold'
    BY <1>1, <2>1, <2>2 DEF FirstAsked, JavaAsked, MozillaRuns, MozillaDid,
                            MozillaTells, MozillaYield, MozillaOrder,
                            MozillaTold, Away, Java1, Find, Even, Deeper,
                            NestedCall, Unserved, Served, Job
  <2> QED
    BY <1>1, <1>2, <1>3, <1>5, <2>3 DEF Phase, Merged
<1> QED
  BY <1>5, <1>6, <1>7

(* Who is done has been served, and goes on with the callback that called, *)
(* or releases mozilla; mozilla goes on with its own, or to its event loop.*)
LEMMA ReturnDoneKeeps ==
  ASSUME IInv, NEW t \in Thread, ReturnDone(t)
  PROVE  IInv'
<1> USE SyncAssumption DEF IInv, Thread
<1> DEFINE n == Len(stack[t])
<1>1. /\ pc[t] = "loop" /\ states[Side(t)] = "done"
      /\ states' = [states EXCEPT ![Side(t)] = "run"]
      /\ Pop(t)
      /\ UNCHANGED <<lost, owner, waiters, doit, events, xlock>>
  BY DEF ReturnDone
<1>t. Stacks
  BY DEF SyncTypeOK, Stacks
<1>2. \/ /\ t = Mozilla
         /\ \/ Apart
            \/ owner \in Java /\ (FirstYield \/ FirstOrder \/ Releases)
      \/ t = Mozilla /\ owner \in Java /\ MozillaTold
      \/ t \in Java /\ owner = t /\ JavaTold
  <2>1. CASE t = Mozilla
    BY <1>1, <2>1, MozillaLoops, OwnerLoops DEF Side, With, Loose, FirstAsked, Find
  <2>2. CASE t # Mozilla
    <3>1. owner = t
      BY <1>1, <2>2 DEF OthersOutside
    <3> QED
      BY <1>1, <2>2, <3>1, MozillaLoops, OwnerLoops
         DEF Side, With, Loose, FirstAsked, Find
  <2> QED
    BY <2>1, <2>2
<1>3. n \in Nat \ {0} /\ stack[t] # <<>>
  <2>1. stack[t] \in Seq(Frame)
    BY <1>t DEF Stacks
  <2>2. CASE t = Mozilla /\ Away
    BY <1>1, <2>1, <2>2 DEF Away
  <2>3. CASE t = Mozilla /\ MozillaTold
    BY <2>1, <2>3, <1>2 DEF MozillaTold, Deeper
  <2>4. CASE owner = t /\ JavaTold
    BY <2>1, <2>4 DEF JavaTold, Even
  <2> QED
    BY <1>2, <2>2, <2>3, <2>4 DEF Apart, FirstYield, FirstOrder, Releases
<1>4. Stacks' /\ Popped(t)
  BY <1>1, <1>t, <1>3, Popping
<1>5. Top(t).kind = Kind(t, n)
  BY <1>3 DEF Top, Last, FramesKept
<1>n. Len(stack[t]) = n
  OBVIOUS
<1> HIDE DEF n
<1>6. GoTo(t, IF t # Mozilla /\ n = 1 THEN "free" ELSE IF t = Mozilla THEN "xlock" ELSE "doit")
  <2>1. Top(t).kind = "first" <=> t # Mozilla /\ n = 1
    BY <1>3, <1>5 DEF Kind
  <2> QED
    BY <1>1, <2>1 DEF Pop
<1>7. SyncTypeOK'
  BY <1>1, <1>4, <1>6 DEF SyncTypeOK, GoTo, Stacks, Side
<1>8. FramesKept'
  BY <1>t, <1>1, <1>4, FramesTopped DEF Popped
<1>9. OthersOutside' /\ WaitsOutsideX'
  BY <1>1, <1>2, <1>4, <1>6 DEF OthersOutside, WaitsOutsideX, GoTo, SyncTypeOK,
                                Popped, Below
<1>10. CASE t = Mozilla /\ MozillaTold
  <2>1. /\ n = Len(stack[owner]) + 1 /\ Len(stack[owner]) >= 1 /\ owner \in Java
        /\ Served(owner, 0)
    <3>1. owner \in Java
      BY <1>2, <1>10 DEF MozillaTold, Find, Apart
    <3> QED
      BY <1>n, <1>10, <3>1 DEF MozillaTold, Deeper
  <2>2. stack[t][n - 1].served = 0 /\ stack[t][n - 1].job = owner
    BY <1>n, <1>3, <1>10, <2>1 DEF FramesKept, Stacks
  <2>3. Even' /\ Served(owner, 0)' /\ Served(Mozilla, 0)' /\ Job(Mozilla, owner)'
    BY <1>n, <1>3, <1>1, <1>4, <1>10, <2>1, <2>2
       DEF Even, Served, Job, Popped, Below
  <2>4. MozillaRuns'
    BY <1>1, <1>6, <1>10, <2>1, <2>3 DEF MozillaTold, MozillaRuns, Find, Waits,
           GoTo, Side, SyncTypeOK
  <2> QED
    BY <1>1, <1>7, <1>8, <1>9, <2>1, <2>4 DEF Phase, Merged
<1>11. CASE t = Mozilla /\ ~MozillaTold
  <2>1. Away /\ n = 1
    BY <1>n, <1>1, <1>2, <1>11 DEF Apart, FirstYield, FirstOrder, Releases, Away
  <2>2. stack'[Mozilla] = <<>>
    BY <1>n, <1>4, <1>11, <2>1 DEF Popped, Stacks
  <2>3. Away'
    BY <1>6, <1>11, <2>2 DEF Away, GoTo, SyncTypeOK
  <2>4. Over' /\ states'["java"] = states["java"]
    BY <1>1, <1>11 DEF Over, Side, SyncTypeOK
  <2>5. \A u \in Java : pc'[u] = pc[u] /\ stack'[u] = stack[u]
    BY <1>4, <1>6, <1>11 DEF GoTo, SyncTypeOK, Popped, Below
  <2>6. Phase'
    BY <1>1, <1>2, <1>11, <2>3, <2>4, <2>5
       DEF Phase, Merged, Apart, FirstYield, FirstOrder, Releases, Java1, Served
  <2> QED
    BY <1>7, <1>8, <1>9, <2>6
<1>12. CASE t # Mozilla
  <2>1. owner = t /\ JavaTold
    BY <1>2, <1>12
  <2>2. CASE n = 1
    <3>1. stack'[t] = <<>> /\ stack'[Mozilla] = stack[Mozilla]
      BY <1>n, <1>4, <1>12, <2>2 DEF Popped, Stacks, Below
    <3>2. Frees'
      BY <1>n, <1>1, <1>6, <1>12, <2>1, <2>2, <3>1
         DEF JavaTold, Frees, Even, Served, Find, Waits, GoTo, Side, SyncTypeOK
    <3> QED
      BY <1>1, <1>7, <1>8, <1>9, <1>12, <2>1, <3>2 DEF Phase, Merged
  <2>3. CASE n # 1
    <3>1. stack[t][n - 1].served = 0 /\ stack[t][n - 1].job = Mozilla
      <4>1. n - 1 \in 1 .. n /\ n - 1 < n
        BY <1>3, <2>3
      <4> QED
        BY <1>n, <1>12, <4>1 DEF FramesKept
    <3>2. Deeper' /\ Served(owner, 0)' /\ Served(Mozilla, 0)' /\ Job(owner, Mozilla)'
      <4>1. /\ Len(stack[Mozilla]) = n /\ n >= 1 /\ n - 1 >= 1 /\ Served(Mozilla, 0)
        BY <1>n, <1>3, <2>1, <2>3 DEF JavaTold, Even
      <4>2. Len(stack'[t]) = n - 1 /\ stack'[t][n - 1] = stack[t][n - 1]
        BY <1>n, <1>3, <1>4, <4>1 DEF Popped, Below
      <4>3. stack'[Mozilla] = stack[Mozilla] /\ owner' = t
        BY <1>1, <1>4, <1>12, <2>1 DEF Popped, Below
      <4> QED
        BY <1>3, <3>1, <4>1, <4>2, <4>3 DEF Deeper, Served, Job
    <3>3. JavaRuns'
      BY <1>1, <1>6, <1>12, <2>1, <2>3, <3>2
         DEF JavaTold, JavaRuns, Unserved, Find, Waits, GoTo, Side, SyncTypeOK
    <3> QED
      BY <1>1, <1>7, <1>8, <1>9, <1>12, <2>1, <3>3 DEF Phase, Merged
  <2> QED
    BY <2>2, <2>3
<1> QED
  BY <1>10, <1>11, <1>12

(* Only an old event finds a state that lj_Run does not expect.            *)
LEMMA ReturnUnexpectedKeeps ==
  ASSUME IInv, NEW t \in Thread, ReturnUnexpected(t)
  PROVE  IInv'
<1> USE SyncAssumption DEF IInv, Thread
<1>1. /\ pc[t] = "loop" /\ states[Side(t)] \in {"free", "run"}
      /\ Pop(t)
      /\ UNCHANGED <<lost, owner, waiters, states, doit, events, xlock>>
  BY DEF ReturnUnexpected
<1>t. Stacks
  BY DEF SyncTypeOK, Stacks
<1>2. /\ t = Mozilla
      /\ \/ Apart
         \/ owner \in Java /\ (FirstYield \/ FirstOrder \/ Releases)
  <2>1. CASE t = Mozilla
    BY <1>1, <2>1, MozillaLoops, OwnerLoops DEF Side, With, Loose, FirstAsked, Find
  <2>2. CASE t # Mozilla
    <3>1. owner = t
      BY <1>1, <2>2 DEF OthersOutside
    <3> QED
      BY <1>1, <2>2, <3>1, MozillaLoops, OwnerLoops
         DEF Side, With, Loose, FirstAsked, Find
  <2> QED
    BY <2>1, <2>2
<1>3. Away /\ Len(stack[t]) = 1
  BY <1>1, <1>2 DEF Apart, FirstYield, FirstOrder, Releases, Away
<1>4. stack[t] # <<>>
  BY <1>3
<1>5. Stacks' /\ Popped(t)
  BY <1>1, <1>t, <1>4, Popping
<1>6. GoTo(t, "xlock")
  <2>1. Top(t) = stack[t][1]
    BY <1>3 DEF Top, Last
  <2>2. stack[t][1].kind = Kind(t, 1)
    BY <1>3 DEF FramesKept
  <2>3. Top(t).kind = "event"
    BY <1>2, <2>1, <2>2 DEF Kind
  <2> QED
    BY <1>1, <1>2, <2>3 DEF Pop
<1>7. SyncTypeOK'
  BY <1>1, <1>5, <1>6 DEF SyncTypeOK, GoTo, Stacks
<1>8. FramesKept'
  BY <1>t, <1>1, <1>5, FramesTopped DEF Popped
<1>9. OthersOutside' /\ WaitsOutsideX'
  BY <1>1, <1>2, <1>5, <1>6 DEF OthersOutside, WaitsOutsideX, GoTo, SyncTypeOK,
                                Popped, Below
<1>10. stack'[Mozilla] = <<>>
  BY <1>2, <1>3, <1>5 DEF Popped, Stacks
<1>11. Away'
  BY <1>2, <1>6, <1>10 DEF Away, GoTo, SyncTypeOK
<1>12. \A u \in Java : pc'[u] = pc[u] /\ stack'[u] = stack[u]
  BY <1>2, <1>5, <1>6 DEF GoTo, SyncTypeOK, Popped, Below
<1>13. Phase'
  BY <1>1, <1>2, <1>11, <1>12 DEF Phase, Merged, Apart, FirstYield, FirstOrder,
                                  Releases, Over, Java1, Served
<1> QED
  BY <1>7, <1>8, <1>9, <1>13

(* The end of a first call: mozilla is told that it is done, ...           *)
LEMMA FreeKeeps ==
  ASSUME IInv, NEW t \in Thread, Free(t)
  PROVE  IInv'
<1> USE SyncAssumption DEF IInv, Thread
<1>1. /\ pc[t] = "free" /\ states' = [states EXCEPT !["mozilla"] = "done"]
      /\ GoToNotify(t, "release", "mozilla")
      /\ UNCHANGED <<lost, owner, waiters, doit, events, xlock, stack>>
  BY DEF Free
<1>2. owner = t /\ t \in Java /\ Frees
  <2>1. CASE t = Mozilla
    BY <1>1, <2>1, MozillaAt, OwnerAt
  <2>2. CASE t # Mozilla
    <3>1. owner = t
      BY <1>1, <2>2 DEF OthersOutside
    <3> QED
      BY <1>1, <2>2, <3>1, MozillaAt, OwnerAt
  <2> QED
    BY <2>1, <2>2
<1>3. SyncTypeOK'
  <2>1. pc' \in [Thread -> {"idle", "own", "ownWait", "yield", "order", "loop", "xlock",
                            "doit", "did", "tell", "waiting", "free", "release"}]
    BY <1>1 DEF GoToNotify, SyncTypeOK
  <2> QED
    BY <1>1, <2>1 DEF SyncTypeOK
<1>4. FramesKept' /\ OthersOutside' /\ WaitsOutsideX'
  <2>1. \A u \in Thread : u # t /\ pc[u] # "waiting" => pc'[u] = pc[u]
    BY <1>1 DEF GoToNotify, SyncTypeOK
  <2>2. FramesKept'
    BY <1>1 DEF FramesKept, Kind
  <2>3. OthersOutside'
    BY <1>1, <2>1 DEF OthersOutside
  <2>4. WaitsOutsideX'
    BY <1>1, <2>1 DEF WaitsOutsideX
  <2> QED
    BY <2>2, <2>3, <2>4
<1>5. Releases'
  BY <1>1, <1>2 DEF Frees, Releases, Away, Over, Waits, Find, Served, GoToNotify,
                    Side, SyncTypeOK
<1> QED
  BY <1>1, <1>2, <1>3, <1>4, <1>5 DEF Phase, Merged

(* ... and the next Java thread may have it.                               *)
LEMMA ReleaseKeeps ==
  ASSUME IInv, NEW t \in Thread, Release(t)
  PROVE  IInv'
<1> USE SyncAssumption DEF IInv, Thread
<1>1. /\ pc[t] = "release" /\ owner' = None /\ waiters' = NextWaiters
      /\ pc' = [u \in Thread |->
                  IF u = t THEN "idle"
                  ELSE IF pc[u] = "ownWait" /\ ~Contains(waiters', u) THEN "own"
                  ELSE pc[u]]
      /\ UNCHANGED <<lost, states, doit, events, xlock, stack>>
  BY DEF Release
<1>2. owner = t /\ t \in Java /\ Releases
  <2>1. CASE t = Mozilla
    BY <1>1, <2>1, MozillaAt, OwnerAt
  <2>2. CASE t # Mozilla
    <3>1. owner = t
      BY <1>1, <2>2 DEF OthersOutside
    <3> QED
      BY <1>1, <2>2, <3>1, MozillaAt, OwnerAt
  <2> QED
    BY <2>1, <2>2
<1>3. waiters' \in Seq(Java)
  BY <1>1 DEF NextWaiters, SyncTypeOK
<1>4. /\ pc'[t] = "idle"
      /\ \A u \in Thread \ {t} : pc'[u] = pc[u] \/ (pc[u] = "ownWait" /\ pc'[u] = "own")
  BY <1>1
<1>5. pc' \in [Thread -> {"idle", "own", "ownWait", "yield", "order", "loop", "xlock",
                          "doit", "did", "tell", "waiting", "free", "release"}]
  <2> DEFINE next(u) == IF u = t THEN "idle"
                        ELSE IF pc[u] = "ownWait" /\ ~Contains(waiters', u) THEN "own"
                        ELSE pc[u]
  <2>1. \A u \in Thread : next(u) \in {"idle", "own", "ownWait", "yield", "order", "loop",
             "xlock", "doit", "did", "tell", "waiting", "free", "release"}
    BY DEF SyncTypeOK
  <2>2. pc' = [u \in Thread |-> next(u)]
    BY <1>1
  <2> HIDE DEF next
  <2> QED
    BY <2>1, <2>2
<1>6. SyncTypeOK'
  BY <1>1, <1>3, <1>5 DEF SyncTypeOK
<1>7. pc'[Mozilla] = pc[Mozilla] /\ Away
  BY <1>2, <1>4 DEF Releases, Away
<1>8. FramesKept'
  <2>1. Len(stack[Mozilla]) = 1 \/ stack[Mozilla] = <<>>
    BY <1>7 DEF Away
  <2>2. \A k \in 1 .. Len(stack[Mozilla]) : ~(k < Len(stack[Mozilla]))
    <3>1. CASE Len(stack[Mozilla]) = 1
      BY <3>1
    <3>2. CASE stack[Mozilla] = <<>>
      BY <3>2
    <3> QED
      BY <2>1, <3>1, <3>2
  <2> QED
    BY <1>1, <2>2 DEF FramesKept, Kind
<1>9. OthersOutside' /\ WaitsOutsideX'
  BY <1>1, <1>2, <1>4, <1>7 DEF OthersOutside, WaitsOutsideX, Releases
<1>10. Apart'
  BY <1>1, <1>2, <1>7 DEF Releases, Apart, Away, Over, Served
<1> QED
  BY <1>6, <1>8, <1>9, <1>10 DEF Phase

(* What calls and the locking of X by Java change is not looked at.        *)
LEMMA CallsKeep ==
  ASSUME IInv,
         (\E t \in Java : CallMozilla(t) \/ AwtLock(t) \/ AwtUnlock(t)) \/ CallJava
  PROVE  IInv'
<1> USE SyncAssumption DEF IInv, Thread
<1>1. UNCHANGED <<lost, owner, waiters, states, doit, events, stack>>
  BY DEF CallMozilla, AwtLock, AwtUnlock, CallJava
<1>2. ASSUME NEW t \in Java, CallMozilla(t) PROVE IInv'
  <2>1. GoTo(t, "own") /\ pc[t] \in {"idle", "doit"} /\ xlock' = xlock
    BY <1>2 DEF CallMozilla
  <2>2. SyncTypeOK'
    BY <1>1, <2>1 DEF SyncTypeOK, GoTo
  <2>3. FramesKept' /\ OthersOutside' /\ WaitsOutsideX'
    BY <1>1, <2>1 DEF FramesKept, Kind, OthersOutside, WaitsOutsideX, GoTo,
                      SyncTypeOK
  <2>4. \A u \in Thread : u # t => pc'[u] = pc[u]
    BY <2>1 DEF GoTo, SyncTypeOK
  <2>5. CASE t = owner
    <3>1. JavaRuns
      BY <2>1, <2>5, MozillaAt, OwnerAt DEF With
    <3>2. JavaRuns'
      BY <1>1, <2>1, <2>4, <2>5, <3>1 DEF JavaRuns, Waits, Find, Unserved,
             Deeper, Served, Job, GoTo, SyncTypeOK
    <3> QED
      BY <1>1, <2>2, <2>3, <2>5, <3>2 DEF Phase, Merged
  <2>6. CASE t # owner
    <3>1. pc'[Mozilla] = pc[Mozilla] /\ (owner \in Java => pc'[owner] = pc[owner])
      BY <2>4, <2>6
    <3>2. Phase'
      BY <1>1, <3>1, PhaseStays
    <3> QED
      BY <2>2, <2>3, <3>2
  <2> QED
    BY <2>5, <2>6
<1>3. ASSUME NEW t \in Java, AwtLock(t) \/ AwtUnlock(t) PROVE IInv'
  <2>1. pc' = pc /\ xlock' \in Java \cup {None}
    BY <1>3 DEF AwtLock, AwtUnlock
  <2>2. SyncTypeOK' /\ FramesKept' /\ OthersOutside' /\ WaitsOutsideX'
    BY <1>1, <2>1 DEF SyncTypeOK, FramesKept, Kind, OthersOutside, WaitsOutsideX
  <2>3. Phase'
    BY <1>1, <2>1, PhaseStays
  <2> QED
    BY <2>2, <2>3
<1>4. ASSUME CallJava PROVE IInv'
  <2>1. pc[Mozilla] = "doit" /\ xlock' = None /\ GoTo(Mozilla, "own")
    BY <1>4 DEF CallJava, LeaveX
  <2>2. SyncTypeOK'
    BY <1>1, <2>1 DEF SyncTypeOK, GoTo
  <2>3. FramesKept' /\ OthersOutside' /\ WaitsOutsideX'
    BY <1>1, <2>1 DEF FramesKept, Kind, OthersOutside, WaitsOutsideX, GoTo,
                      SyncTypeOK
  <2>4. owner \in Java /\ MozillaRuns
    BY <2>1, MozillaAt, OwnerAt DEF With
  <2>5. MozillaRuns'
    BY <1>1, <2>1, <2>4 DEF MozillaRuns, Waits, Find, Even, Job, Served, GoTo,
                            SyncTypeOK
  <2> QED
    BY <1>1, <2>2, <2>3, <2>4, <2>5 DEF Phase, Merged
<1> QED
  BY <1>2, <1>3, <1>4

-----------------------------------------------------------------------------
(* At the start no thread has begun.                                       *)
LEMMA Begin == Init => IInv
<1> SUFFICES ASSUME Init PROVE IInv
  OBVIOUS
<1> USE SyncAssumption DEF Thread
<1>1. SyncTypeOK
  <2>1. waiters \in Seq(Java) /\ stack \in [Thread -> Seq(Frame)]
    BY DEF Init
  <2> QED
    BY <2>1 DEF Init, SyncTypeOK
<1>2. \A t \in Thread : Len(stack[t]) = 0
  BY DEF Init
<1>3. FramesKept
  BY <1>2 DEF FramesKept
<1>4. OthersOutside /\ WaitsOutsideX
  BY DEF Init, OthersOutside, WaitsOutsideX
<1>5. Apart
  BY DEF Init, Apart, Away, Over
<1> QED
  BY <1>1, <1>3, <1>4, <1>5 DEF IInv, Phase

(* Every step of a thread keeps the invariant, and so does none.           *)
LEMMA Kept == IInv /\ [Next]_vars => IInv'
<1> SUFFICES ASSUME IInv, [Next]_vars PROVE IInv'
  OBVIOUS
<1>1. ASSUME NEW t \in Thread, Step(t) \/ Finish(t) PROVE IInv'
  BY <1>1, OwnKeeps, YieldKeeps, OrderKeeps, RunOrderKeeps, FinishKeeps,
     DidKeeps, TellKeeps, WaitKeeps, ReturnDoneKeeps, ReturnUnexpectedKeeps,
     FreeKeeps, ReleaseKeeps DEF Step
<1>2. CASE UNCHANGED vars
  <2>1. SyncTypeOK' /\ FramesKept' /\ OthersOutside' /\ WaitsOutsideX'
    BY <1>2 DEF vars, IInv, SyncTypeOK, FramesKept, Kind, OthersOutside,
                WaitsOutsideX
  <2>2. Phase'
    BY <1>2, PhaseStays DEF vars, IInv
  <2> QED
    BY <2>1, <2>2 DEF IInv
<1> QED
  BY <1>1, <1>2, HandleEventKeeps, XLockKeeps, CallsKeep DEF Next

-----------------------------------------------------------------------------
(* While one side runs a callback of the other, the other waits in lj_Run: *)
(* the two threads are one.                                                *)
LEMMA RunsAlone == IInv => OneRuns
<1> SUFFICES ASSUME IInv PROVE OneRuns
  OBVIOUS
<1> USE SyncAssumption DEF IInv, Thread
<1>1. ASSUME pc[Mozilla] \in {"doit", "did"}
      PROVE  owner # None /\ pc[owner] \in {"loop", "waiting"} /\ Top(Mozilla).job = owner
  <2>1. owner \in Java /\ (MozillaRuns \/ MozillaDid)
    BY <1>1, MozillaAt, OwnerAt DEF With
  <2> QED
    BY <2>1 DEF MozillaRuns, MozillaDid, Waits, Job, Top, Last
<1>2. ASSUME NEW t \in Java, pc[t] \in {"doit", "did"}
      PROVE  owner = t /\ pc[Mozilla] \in {"loop", "waiting"} /\ Top(t).job = Mozilla
  <2>1. owner = t
    BY <1>2 DEF OthersOutside
  <2>2. JavaRuns \/ JavaDid
    BY <1>2, <2>1, MozillaAt, OwnerAt DEF With
  <2> QED
    BY <2>1, <2>2 DEF JavaRuns, JavaDid, Waits, Job, Top, Last
<1> QED
  BY <1>1, <1>2 DEF OneRuns

(* Who is told that it is done has been served, and lj_Run finds no state  *)
(* that it does not expect, but for an old event.                          *)
LEMMA Answered == IInv => DoneMeansServed
<1> SUFFICES ASSUME IInv, NEW t \in Thread
             PROVE  /\ pc[t] \in {"loop", "waiting"} /\ states[Side(t)] = "done"
                         => Top(t).kind = "event" \/ Top(t).served = 1
                    /\ pc[t] = "loop" /\ Top(t).kind # "event"
                         => states[Side(t)] \in {"call", "wait", "done"}
  BY DEF DoneMeansServed
<1> USE SyncAssumption DEF IInv, Thread
<1>1. CASE t = Mozilla
  <2>1. pc[t] = "loop" /\ Away => Top(t).kind = "event"
    <3> SUFFICES ASSUME pc[t] = "loop", Away PROVE Top(t).kind = "event"
      OBVIOUS
    <3>1. Len(stack[t]) = 1
      BY <1>1 DEF Away
    <3>2. stack[t][1].kind = Kind(t, 1) /\ Top(t) = stack[t][1]
      BY <3>1 DEF FramesKept, Top, Last
    <3> QED
      BY <1>1, <3>2 DEF Kind
  <2>2. pc[t] = "waiting" => ~Away
    BY <1>1 DEF Away
  <2>3. pc[t] \in {"loop", "waiting"} /\ ~Away =>
          MozillaTold \/ states["mozilla"] \in {"call", "wait"}
    BY <1>1 DEF Phase, Apart, Merged, FirstYield, FirstOrder, FirstAsked,
                JavaYield, JavaOrder, JavaAsked, MozillaRuns, MozillaDid,
                MozillaTells, JavaTold, MozillaYield, MozillaOrder, MozillaAsked,
                JavaRuns, JavaDid, JavaTells, MozillaTold, Frees, Releases, Away,
                Waits, Find
  <2>4. MozillaTold => Top(t).served = 1 /\ states["mozilla"] = "done"
    BY <1>1 DEF MozillaTold, Served, Top, Last, Find
  <2> QED
    BY <1>1, <2>1, <2>2, <2>3, <2>4 DEF Side
<1>2. CASE t # Mozilla /\ pc[t] \in {"loop", "waiting"}
  <2>1. owner = t
    BY <1>2 DEF OthersOutside
  <2>2. JavaTold \/ states["java"] \in {"call", "wait"}
    BY <1>2, <2>1 DEF Phase, Apart, Merged, FirstYield, FirstOrder, FirstAsked,
                      JavaYield, JavaOrder, JavaAsked, MozillaRuns, MozillaDid,
                      MozillaTells, JavaTold, MozillaYield, MozillaOrder,
                      MozillaAsked, JavaRuns, JavaDid, JavaTells, MozillaTold,
                      Frees, Releases, Away, Waits, Find
  <2>3. JavaTold => Top(t).served = 1 /\ states["java"] = "done"
    BY <2>1 DEF JavaTold, Served, Top, Last, Find
  <2> QED
    BY <1>2, <2>2, <2>3 DEF Side
<1> QED
  BY <1>1, <1>2

(* Who waits has not been told anything, and a Java thread that waits has  *)
(* mozilla at work or an event on its way, or could not make it.           *)
LEMMA Remembered == IInv => NobodyForgotten
<1> SUFFICES ASSUME IInv, NEW t \in Thread, pc[t] = "waiting"
             PROVE  /\ states[Side(t)] = "wait"
                    /\ t \in Java => \/ pc[Mozilla] \notin {"idle", "waiting"}
                                     \/ states["mozilla"] = "call" /\ events > 0
                                     \/ lost
  BY DEF NobodyForgotten
<1> USE SyncAssumption DEF IInv, Thread
<1>1. CASE t = Mozilla
  BY <1>1 DEF Phase, Apart, Merged, FirstYield, FirstOrder, FirstAsked,
              JavaYield, JavaOrder, JavaAsked, MozillaRuns, MozillaDid,
              MozillaTells, JavaTold, MozillaYield, MozillaOrder, MozillaAsked,
              JavaRuns, JavaDid, JavaTells, MozillaTold, Frees, Releases, Away,
              Waits, Find, Side
<1>2. CASE t # Mozilla
  <2>1. owner = t
    BY <1>2 DEF OthersOutside
  <2> QED
    BY <1>2, <2>1 DEF Phase, Apart, Merged, FirstYield, FirstOrder, FirstAsked,
                      JavaYield, JavaOrder, JavaAsked, MozillaRuns, MozillaDid,
                      MozillaTells, JavaTold, MozillaYield, MozillaOrder,
                      MozillaAsked, JavaRuns, JavaDid, JavaTells, MozillaTold,
                      Frees, Releases, Away, Waits, Find, Side
<1> QED
  BY <1>1, <1>2

(* The invariant holds in every reachable state.                           *)
LEMMA Invariant == Spec => []IInv
<1>1. Init => IInv
  BY Begin
<1>2. IInv /\ [Next]_vars => IInv'
  BY Kept
<1> QED
  BY <1>1, <1>2, PTL DEF Spec

(* The rendezvous: what each side finds in its state when it looks.        *)
THEOREM SyncCorrect == Spec => []SyncInv
<1>1. IInv => SyncInv
  BY Answered, Remembered DEF IInv, SyncInv
<1> QED
  BY <1>1, Invariant, PTL

(* The mozilla thread and the Java thread merged with it never run both.   *)
THEOREM OneAtATime == Spec => []OneRuns
<1>1. IInv => OneRuns
  BY RunsAlone
<1> QED
  BY <1>1, Invariant, PTL

(* The mozilla thread does not wait for Java inside the X lock.            *)
THEOREM OutsideX == Spec => []WaitsOutsideX
<1>1. IInv => WaitsOutsideX
  BY DEF IInv
<1> QED
  BY <1>1, Invariant, PTL

-----------------------------------------------------------------------------
(* Whose turn it is depends on who is at work on a callback.               *)
AtWork == {"own", "xlock", "doit"}

Quiet(t) == stack[t] = <<>> \/ (pc'[t] \in AtWork <=> pc[t] \in AtWork)

Unseen == UNCHANGED <<Open, Turn>>

(* A step that changes no frame, and nobody's being at work, is not seen   *)
(* in the chain of calls.                                                  *)
LEMMA QuietUnseen ==
  ASSUME UNCHANGED <<owner, stack>>, owner # None => Quiet(owner), Quiet(Mozilla)
  PROVE  Unseen
<1>0. owner' = owner /\ stack' = stack
  OBVIOUS
<1>1. Open' = Open
  BY <1>0 DEF Open
<1>2. CASE owner = None \/ stack[owner] = <<>>
  <2>1. Turn = <<None, "none">>
    BY <1>2 DEF Turn
  <2>2. owner' = None \/ stack'[owner'] = <<>>
    BY <1>0, <1>2
  <2>3. Turn' = <<None, "none">>
    BY <2>2 DEF Turn
  <2> QED BY <1>1, <2>1, <2>3 DEF Unseen
<1>3. CASE owner # None /\ stack[owner] # <<>>
  <2>1. (Runs(Mozilla) <=> Runs(Mozilla)') /\ (Runs(owner) <=> Runs(owner)')
    BY <1>3 DEF Runs, Quiet, AtWork
  <2>2. (Returns(Mozilla) <=> Returns(Mozilla)') /\ (Returns(owner) <=> Returns(owner)')
    BY DEF Returns, Top
  <2>3. Caller' = Caller
    BY DEF Caller
  <2>4. ~(owner = None \/ stack[owner] = <<>>) /\ ~(owner' = None \/ stack'[owner'] = <<>>)
    BY <1>3
  <2>5. Turn' = Turn
    BY <2>1, <2>2, <2>3, <2>4 DEF Turn
  <2> QED BY <1>1, <2>5 DEF Unseen
<1> QED BY <1>1, <1>2, <1>3 DEF Unseen

(* Whether a stack is empty, by its length.                                *)
LEMMA Empty ==
  ASSUME NEW s \in Seq(Frame)
  PROVE  Len(s) \in Nat /\ (s = <<>> <=> Len(s) = 0)
  BY EmptySeq, LenProperties

(* Nor are the frames of mozilla for events that are too old.              *)
LEMMA EventUnseen ==
  ASSUME Stacks, Stacks', owner' = owner, owner \in Java \cup {None}, Away, Away',
         \A t \in Java : stack'[t] = stack[t] /\ pc'[t] = pc[t]
  PROVE  Unseen
<1> USE SyncAssumption DEF Thread
<1>1. stack[Mozilla] \in Seq(Frame) /\ stack'[Mozilla] \in Seq(Frame)
  BY DEF Stacks
<1>2. /\ Len(stack[Mozilla]) \in {0, 1} /\ Len(stack'[Mozilla]) \in {0, 1}
      /\ stack[Mozilla] = <<>> <=> Len(stack[Mozilla]) = 0
      /\ stack'[Mozilla] = <<>> <=> Len(stack'[Mozilla]) = 0
  <2>1. stack[Mozilla] = <<>> \/ Len(stack[Mozilla]) = 1
    BY DEF Away
  <2>2. stack'[Mozilla] = <<>> \/ Len(stack'[Mozilla]) = 1
    BY DEF Away
  <2>3. stack[Mozilla] = <<>> <=> Len(stack[Mozilla]) = 0
    BY <1>1, Empty
  <2>4. stack'[Mozilla] = <<>> <=> Len(stack'[Mozilla]) = 0
    BY <1>1, Empty
  <2> QED BY <2>1, <2>2, <2>3, <2>4
<1>3. ASSUME NEW t \in Thread PROVE Open'[t] = Open[t]
  <2>1. CASE t = Mozilla
    <3>1. Open[t] = 0
      BY <1>2, <2>1 DEF Open
    <3>2. Open'[t] = 0
      BY <1>2, <2>1 DEF Open
    <3> QED BY <3>1, <3>2
  <2>2. CASE t # Mozilla
    BY <2>2 DEF Open
  <2> QED BY <2>1, <2>2
<1>4. Open' = Open
  BY <1>3 DEF Open
<1>5. CASE owner = None \/ stack[owner] = <<>>
  BY <1>4, <1>5 DEF Turn, Unseen
<1>6. CASE owner # None /\ stack[owner] # <<>>
  <2>1. owner \in Java /\ stack[owner] \in Seq(Frame) /\ stack'[owner] = stack[owner]
    BY <1>6 DEF Stacks
  <2>2. Len(stack[owner]) \in Nat /\ Len(stack[owner]) >= 1
    BY <1>6, <2>1, Empty
  <2>3. ~Runs(Mozilla) /\ ~Runs(Mozilla)'
    BY DEF Runs, Away
  <2>4. ~Returns(Mozilla) /\ ~Returns(Mozilla)'
    <3>1. stack[Mozilla] # <<>> => Served(Mozilla, 0)
      BY DEF Away
    <3>2. stack'[Mozilla] # <<>> => Served(Mozilla, 0)'
      BY DEF Away
    <3> QED BY <3>1, <3>2 DEF Returns, Served, Top, Last
  <2>5. Caller = owner /\ Caller' = owner
    <3>1. PICK n \in Nat \ {0}, k \in {0, 1}, m \in {0, 1} :
                 n = Len(stack[owner]) /\ k = Len(stack[Mozilla]) /\ m = Len(stack'[Mozilla])
      BY <1>2, <2>2
    <3>2. ~(k > n) /\ ~(m > n)
      OBVIOUS
    <3>3. Caller = owner
      BY <3>1, <3>2 DEF Caller
    <3>4. n = Len(stack'[owner'])
      BY <2>1, <3>1
    <3>5. Caller' = owner'
      BY <3>1, <3>2, <3>4 DEF Caller
    <3> QED BY <3>3, <3>5
  <2>6. (Runs(owner) <=> Runs(owner)') /\ (Returns(owner) <=> Returns(owner)')
    BY <2>1 DEF Runs, Returns, Top
  <2>7. ~(owner = None \/ stack[owner] = <<>>) /\ ~(owner' = None \/ stack'[owner'] = <<>>)
    BY <1>6, <2>1
  <2>8. Turn' = Turn
    BY <2>3, <2>4, <2>5, <2>6, <2>7 DEF Turn
  <2> QED BY <1>4, <2>8 DEF Unseen
<1> QED BY <1>5, <1>6

(* A push opens a call, ...                                                *)
LEMMA OpenPushed ==
  ASSUME Stacks, Stacks', NEW t \in Thread, NEW kind, Pushed(t, kind),
         t = Mozilla => stack[t] # <<>>
  PROVE  Open' = [Open EXCEPT ![t] = @ + 1]
<1>1. stack[t] \in Seq(Frame) /\ stack'[t] \in Seq(Frame)
  BY DEF Stacks
<1>2. PICK n \in Nat : Len(stack[t]) = n /\ Len(stack'[t]) = n + 1 /\ (t = Mozilla => n # 0)
  BY <1>1, Empty DEF Pushed
<1>3. stack'[t] # <<>>
  BY <1>1, <1>2, Empty
<1>4. Open'[t] = Open[t] + 1
  <2>1. CASE t = Mozilla
    BY <1>2, <1>3, <2>1 DEF Open
  <2>2. CASE t # Mozilla
    BY <1>2, <2>2 DEF Open
  <2> QED BY <2>1, <2>2
<1>5. \A u \in Thread : u # t => Open'[u] = Open[u]
  BY DEF Open, Pushed, Below
<1> QED BY <1>4, <1>5 DEF Open

(* ... a pop closes one, ...                                               *)
LEMMA OpenPopped ==
  ASSUME Stacks, Stacks', NEW t \in Thread, Popped(t),
         t = Mozilla => Len(stack[t]) > 1
  PROVE  Open' = [Open EXCEPT ![t] = @ - 1]
<1>1. stack[t] \in Seq(Frame) /\ stack'[t] \in Seq(Frame)
  BY DEF Stacks
<1>2. PICK n \in Nat : Len(stack[t]) = n + 1 /\ Len(stack'[t]) = n /\ (t = Mozilla => n # 0)
  <2>1. Len(stack[t]) \in Nat \ {0} /\ Len(stack'[t]) = Len(stack[t]) - 1
    BY DEF Popped
  <2> QED BY <2>1
<1>3. stack[t] # <<>> /\ (t = Mozilla => stack'[t] # <<>>)
  BY <1>1, <1>2, Empty
<1>4. Open'[t] = Open[t] - 1
  <2>1. CASE t = Mozilla
    BY <1>2, <1>3, <2>1 DEF Open
  <2>2. CASE t # Mozilla
    BY <1>2, <2>2 DEF Open
  <2> QED BY <2>1, <2>2
<1>5. \A u \in Thread : u # t => Open'[u] = Open[u]
  BY DEF Open, Popped, Below
<1> QED BY <1>4, <1>5 DEF Open

(* ... and another change of a frame does neither.                         *)
LEMMA OpenMarked ==
  ASSUME Stacks, Stacks', NEW t \in Thread, NEW f, Marked(t, f)
  PROVE  Open' = Open
<1>1. stack[t] \in Seq(Frame) /\ stack'[t] \in Seq(Frame)
  BY DEF Stacks
<1>2. /\ Len(stack'[t]) = Len(stack[t])
      /\ stack[t] # <<>> /\ stack'[t] # <<>>
  BY <1>1, Empty DEF Marked
<1>3. \A u \in Thread : Open'[u] = Open[u]
  BY <1>2 DEF Open, Marked, Below
<1> QED BY <1>3 DEF Open

-----------------------------------------------------------------------------
(* A step of the chain of calls, or none.                                  *)
Seen == [TheChain!Next]_<<Open, Turn>>

(* What makes a step of one of the sides that of a nested call, ...        *)
LEMMA CallSeen ==
  ASSUME NEW t \in Thread, Turn = <<t, "run">>,
         Open' = [Open EXCEPT ![t] = @ + 1], Turn' = <<t, "ask">>
  PROVE  Seen
<1>1. TheChain!Call(t)
  BY DEF TheChain!Call, TheChain!Nobody
<1> QED BY <1>1 DEF Seen, TheChain!Next, TheChain!Thread, Thread

(* ... of a first call, ...                                                *)
LEMMA FirstSeen ==
  ASSUME NEW t \in Java, Turn = <<None, "none">>,
         Open' = [Open EXCEPT ![t] = @ + 1], Turn' = <<t, "ask">>
  PROVE  Seen
<1>1. TheChain!Call(t)
  BY DEF TheChain!Call, TheChain!Nobody
<1> QED BY <1>1 DEF Seen, TheChain!Next, TheChain!Thread, Thread

(* ... of a callback that begins, ...                                      *)
LEMMA RunSeen ==
  ASSUME NEW t \in Thread, NEW u \in Thread, Turn = <<t, "ask">>, TheChain!Called(t, u),
         Open' = Open, Turn' = <<u, "run">>
  PROVE  Seen
<1>1. TheChain!Run(t, u)
  BY DEF TheChain!Run
<1> QED BY <1>1 DEF Seen, TheChain!Next, TheChain!Thread, Thread

(* ... and ends, ...                                                       *)
LEMMA FinishSeen ==
  ASSUME NEW t \in Thread, NEW u \in Thread, Turn = <<u, "run">>, TheChain!Called(t, u),
         Open' = Open, Turn' = <<t, "return">>
  PROVE  Seen
<1>1. TheChain!Finish(t, u)
  BY DEF TheChain!Finish
<1> QED BY <1>1 DEF Seen, TheChain!Next, TheChain!Thread, Thread

(* ... and of a return.                                                    *)
LEMMA ReturnSeen ==
  ASSUME NEW t \in Thread, Turn = <<t, "return">>,
         Open' = [Open EXCEPT ![t] = @ - 1],
         Turn' = IF t \in Java /\ Open[t] = 1 THEN <<None, "none">> ELSE <<t, "run">>
  PROVE  Seen
<1>1. TheChain!Return(t)
  BY DEF TheChain!Return, TheChain!Nobody
<1> QED BY <1>1 DEF Seen, TheChain!Next, TheChain!Thread, Thread

(* The two threads that are merged have called each other, however deep.   *)
LEMMA Merging ==
  ASSUME Stacks, owner \in Java, stack[owner] # <<>>
  PROVE  /\ TheChain!Called(owner, Mozilla)
         /\ Len(stack[Mozilla]) > 1 => TheChain!Called(Mozilla, owner)
<1> USE SyncAssumption DEF Thread
<1>1. stack[owner] \in Seq(Frame) /\ stack[Mozilla] \in Seq(Frame)
  BY DEF Stacks
<1>2. PICK n \in Nat, m \in Nat :
           n = Len(stack[owner]) /\ m = Len(stack[Mozilla]) /\ n # 0
           /\ (stack[Mozilla] = <<>> <=> m = 0)
  BY <1>1, Empty
<1>3. Open[owner] = n /\ (m > 1 => Open[Mozilla] = m - 1)
  BY <1>2 DEF Open
<1>4. Open[owner] > 0 /\ (m > 1 => Open[Mozilla] > 0)
  BY <1>2, <1>3
<1> QED BY <1>2, <1>4 DEF TheChain!Called

(* The owner is in a call.                                                 *)
Deep ==
    /\ stack[owner] # <<>> /\ Len(stack[owner]) \in Nat \ {0}
    /\ Len(stack[Mozilla]) \in Nat
    /\ stack[Mozilla] = <<>> <=> Len(stack[Mozilla]) = 0

(* That is so when it has a frame.                                         *)
LEMMA DeepIs ==
  ASSUME Stacks, owner \in Java, Len(stack[owner]) >= 1
  PROVE  Deep
<1> USE SyncAssumption DEF Thread
<1>1. stack[owner] \in Seq(Frame) /\ stack[Mozilla] \in Seq(Frame)
  BY DEF Stacks
<1>2. PICK n \in Nat, m \in Nat :
           /\ n = Len(stack[owner]) /\ m = Len(stack[Mozilla])
           /\ (stack[owner] = <<>> <=> n = 0) /\ (stack[Mozilla] = <<>> <=> m = 0)
  BY <1>1, Empty
<1> QED BY <1>2 DEF Deep

(* Whose turn it is before each of the steps that are seen.                *)
LEMMA TurnNow ==
  ASSUME Stacks, owner \in Java
  PROVE  /\ MozillaRuns => Deep /\ Turn = <<Mozilla, "run">>
         /\ JavaRuns => Deep /\ Turn = <<owner, "run">>
         /\ FirstAsked \/ JavaAsked => Deep /\ Turn = <<owner, "ask">>
         /\ MozillaAsked => Deep /\ Turn = <<Mozilla, "ask">>
         /\ JavaTold => Deep /\ Turn = <<owner, "return">>
         /\ MozillaTold => Deep /\ Turn = <<Mozilla, "return">>
<1> USE SyncAssumption DEF Thread
<1>1. owner # None
  OBVIOUS
<1>2. ASSUME MozillaRuns PROVE Deep /\ Turn = <<Mozilla, "run">>
  <2>1. Deep /\ Even /\ pc[Mozilla] \in {"xlock", "doit", "own"}
    BY <1>2, DeepIs DEF MozillaRuns, Even
  <2>2. Runs(Mozilla)
    BY <2>1 DEF Runs, Deep, Even
  <2> QED BY <1>1, <2>1, <2>2 DEF Turn, Deep
<1>3. ASSUME JavaRuns PROVE Deep /\ Turn = <<owner, "run">>
  <2>1. Deep /\ pc[owner] \in {"doit", "own"} /\ pc[Mozilla] \in {"loop", "waiting"}
    BY <1>3, DeepIs DEF JavaRuns, Unserved, Deeper, Waits
  <2>2. Runs(owner) /\ ~Runs(Mozilla)
    BY <2>1 DEF Runs, Deep
  <2> QED BY <1>1, <2>1, <2>2 DEF Turn, Deep
<1>4. ASSUME FirstAsked PROVE Deep /\ Turn = <<owner, "ask">>
  <2>1. /\ Deep /\ pc[owner] \in {"loop", "waiting"} /\ pc[Mozilla] \in {"idle", "loop", "xlock"}
        /\ pc[Mozilla] = "xlock" => stack[Mozilla] = <<>>
        /\ stack[Mozilla] # <<>> => Served(Mozilla, 0) /\ Len(stack[Mozilla]) = 1
        /\ Served(owner, 0) /\ Len(stack[owner]) = 1
    BY <1>4, DeepIs DEF FirstAsked, Java1, Away, Waits
  <2>2. ~Runs(owner) /\ ~Runs(Mozilla) /\ ~Returns(owner) /\ ~Returns(Mozilla)
    BY <2>1 DEF Runs, Returns, Served, Top, Last
  <2>3. Caller = owner
    <3>1. Len(stack[Mozilla]) = 0 \/ Len(stack[Mozilla]) = 1
      BY <2>1 DEF Deep
    <3>2. PICK m \in {0, 1} : m = Len(stack[Mozilla])
      BY <3>1
    <3>3. Len(stack[owner]) = 1 /\ ~(m > 1)
      BY <2>1
    <3> QED BY <3>2, <3>3 DEF Caller
  <2> QED BY <1>1, <2>1, <2>2, <2>3 DEF Turn, Deep
<1>5. ASSUME JavaAsked PROVE Deep /\ Turn = <<owner, "ask">>
  <2>1. /\ Deep /\ pc[owner] \in {"loop", "waiting"} /\ pc[Mozilla] = "loop"
        /\ Served(owner, 0) /\ Served(Mozilla, 0) /\ Even
    BY <1>5, DeepIs DEF JavaAsked, NestedCall, Even, Waits
  <2>2. ~Runs(owner) /\ ~Runs(Mozilla) /\ ~Returns(owner) /\ ~Returns(Mozilla)
    BY <2>1 DEF Runs, Returns, Served, Top, Last
  <2>3. Caller = owner
    BY <2>1 DEF Caller, Deep, Even
  <2> QED BY <1>1, <2>1, <2>2, <2>3 DEF Turn, Deep
<1>6. ASSUME MozillaAsked PROVE Deep /\ Turn = <<Mozilla, "ask">>
  <2>1. /\ Deep /\ pc[owner] = "loop" /\ pc[Mozilla] \in {"loop", "waiting"}
        /\ Served(owner, 0) /\ Served(Mozilla, 0) /\ Deeper
    BY <1>6, DeepIs DEF MozillaAsked, Unserved, Deeper, Waits
  <2>2. ~Runs(owner) /\ ~Runs(Mozilla) /\ ~Returns(owner) /\ ~Returns(Mozilla)
    BY <2>1 DEF Runs, Returns, Served, Top, Last
  <2>3. Caller = Mozilla
    BY <2>1 DEF Caller, Deep, Deeper
  <2> QED BY <1>1, <2>1, <2>2, <2>3 DEF Turn, Deep
<1>7. ASSUME JavaTold PROVE Deep /\ Turn = <<owner, "return">>
  <2>1. /\ Deep /\ pc[owner] = "loop" /\ pc[Mozilla] \in {"loop", "waiting"}
        /\ Served(owner, 1)
    BY <1>7, DeepIs DEF JavaTold, Even, Waits
  <2>2. ~Runs(owner) /\ ~Runs(Mozilla) /\ Returns(owner)
    BY <2>1 DEF Runs, Returns, Served, Top, Last, Deep
  <2> QED BY <1>1, <2>1, <2>2 DEF Turn, Deep
<1>8. ASSUME MozillaTold PROVE Deep /\ Turn = <<Mozilla, "return">>
  <2>1. /\ Deep /\ pc[Mozilla] = "loop" /\ pc[owner] \in {"loop", "waiting"}
        /\ Served(owner, 0) /\ Served(Mozilla, 1) /\ Deeper
    BY <1>8, DeepIs DEF MozillaTold, Deeper, Waits
  <2>2. ~Runs(owner) /\ ~Runs(Mozilla) /\ ~Returns(owner) /\ Returns(Mozilla)
    BY <2>1 DEF Runs, Returns, Served, Top, Last, Deep, Deeper
  <2> QED BY <1>1, <2>1, <2>2 DEF Turn, Deep
<1> QED BY <1>2, <1>3, <1>4, <1>5, <1>6, <1>7, <1>8

(* Calls, nested or first, ...                                             *)
LEMMA OwnSeen ==
  ASSUME IInv, NEW t \in Thread, Own(t)
  PROVE  Seen \/ Unseen
<1> USE SyncAssumption DEF IInv, Thread
<1>t. Stacks
  BY DEF SyncTypeOK, Stacks
<1>1. CASE t = Mozilla
  <2>1. MozillaRuns /\ owner \in Java
    BY <1>1, MozillaAt, OwnerAt DEF Own, With
  <2>2. Push(t, "nested") /\ GoTo(t, "yield") /\ owner' = owner
    BY <1>1 DEF Own
  <2>3. Stacks' /\ Pushed(t, "nested")
    BY <1>t, <2>2, Pushing
  <2>4. Deep /\ Turn = <<Mozilla, "run">>
    BY <1>t, <2>1, TurnNow
  <2>5. stack[Mozilla] # <<>> /\ Even /\ Served(owner, 0) /\ Waits(owner)
    BY <2>1, <2>4 DEF MozillaRuns, Even, Deep
  <2>6. Open' = [Open EXCEPT ![t] = @ + 1]
    BY <1>t, <2>3, <2>5, OpenPushed
  <2>7. /\ pc'[Mozilla] = "yield" /\ pc'[owner] \in {"loop", "waiting"}
        /\ stack'[owner] = stack[owner]
    BY <1>1, <2>1, <2>2, <2>3, <2>5 DEF GoTo, SyncTypeOK, Waits, Pushed, Below
  <2>8. ~Runs(Mozilla)' /\ ~Runs(owner)'
    BY <2>2, <2>7 DEF Runs
  <2>9. ~Returns(owner)' /\ ~Returns(Mozilla)'
    BY <1>1, <2>2, <2>3, <2>5, <2>7 DEF Returns, Served, Top, Last, Pushed
  <2>10. Len(stack'[Mozilla]) > Len(stack'[owner'])
    BY <1>1, <2>2, <2>3, <2>4, <2>5, <2>7 DEF Pushed, Even, Deep
  <2>11. owner' # None /\ stack'[owner'] # <<>>
    BY <2>1, <2>2, <2>4, <2>7 DEF Deep
  <2>12. Turn' = <<t, "ask">>
    BY <1>1, <2>2, <2>8, <2>9, <2>10, <2>11 DEF Turn, Caller
  <2>13. Turn = <<t, "run">>
    BY <1>1, <2>4
  <2> QED BY <2>6, <2>12, <2>13, CallSeen
<1>2. CASE t # Mozilla /\ owner = t
  <2>1. JavaRuns
    BY <1>2, MozillaAt, OwnerAt DEF Own, With
  <2>2. Push(t, "nested") /\ GoTo(t, "yield") /\ owner' = owner
    BY <1>2 DEF Own
  <2>3. Stacks' /\ Pushed(t, "nested")
    BY <1>t, <2>2, Pushing
  <2>4. Deep /\ Turn = <<owner, "run">>
    BY <1>t, <1>2, <2>1, TurnNow
  <2>5. Deeper /\ Served(Mozilla, 0) /\ Waits(Mozilla)
    BY <2>1 DEF JavaRuns, Unserved
  <2>6. Open' = [Open EXCEPT ![t] = @ + 1]
    BY <1>2, <1>t, <2>3, OpenPushed
  <2>7. /\ pc'[owner] = "yield" /\ pc'[Mozilla] \in {"loop", "waiting"}
        /\ stack'[Mozilla] = stack[Mozilla]
    BY <1>2, <2>2, <2>3, <2>5 DEF GoTo, SyncTypeOK, Waits, Pushed, Below
  <2>8. ~Runs(Mozilla)' /\ ~Runs(owner)'
    BY <2>2, <2>7 DEF Runs
  <2>9. ~Returns(owner)' /\ ~Returns(Mozilla)'
    BY <1>2, <2>2, <2>3, <2>5, <2>7 DEF Returns, Served, Top, Last, Pushed
  <2>10. ~(Len(stack'[Mozilla]) > Len(stack'[owner']))
    BY <1>2, <2>2, <2>3, <2>4, <2>5, <2>7 DEF Pushed, Deeper, Deep
  <2>11. owner' # None /\ stack'[owner'] # <<>>
    BY <1>2, <2>2, <2>3, <2>4, Empty DEF Pushed, Deep, Stacks
  <2>12. Turn' = <<t, "ask">>
    BY <1>2, <2>2, <2>8, <2>9, <2>10, <2>11 DEF Turn, Caller
  <2>13. Turn = <<t, "run">>
    BY <1>2, <2>4
  <2> QED BY <2>6, <2>12, <2>13, CallSeen
<1>3. CASE t # Mozilla /\ owner = None
  <2>1. Apart /\ stack[t] = <<>>
    BY <1>3 DEF Phase, Merged, OthersOutside
  <2>2. Push(t, "first") /\ GoTo(t, "yield") /\ owner' = t
    BY <1>3 DEF Own
  <2>3. Stacks' /\ Pushed(t, "first")
    BY <1>t, <2>2, Pushing
  <2>4. Turn = <<None, "none">>
    BY <1>3 DEF Turn
  <2>5. Len(stack'[t]) = 1 /\ stack'[t][1].served = 0 /\ stack'[t] # <<>>
    <3>1. Len(stack[t]) = 0
      BY <2>1
    <3> QED BY <1>3, <2>3, <3>1, Empty DEF Pushed, Stacks
  <2>6. Open' = [Open EXCEPT ![t] = @ + 1]
    BY <1>3, <1>t, <2>3, OpenPushed
  <2>7. /\ pc'[t] = "yield" /\ pc'[Mozilla] \in {"idle", "loop", "xlock"}
        /\ pc'[Mozilla] = "xlock" => stack'[Mozilla] = <<>>
        /\ stack'[Mozilla] = stack[Mozilla]
    BY <1>3, <2>1, <2>2, <2>3 DEF Apart, Away, GoTo, SyncTypeOK, Pushed, Below
  <2>8. ~Runs(Mozilla)' /\ ~Runs(owner)'
    BY <2>2, <2>7 DEF Runs
  <2>9. stack[Mozilla] = <<>> \/ (Len(stack[Mozilla]) = 1 /\ Served(Mozilla, 0))
    BY <2>1 DEF Apart, Away
  <2>10. ~Returns(owner)' /\ ~Returns(Mozilla)'
    <3>1. stack'[owner'] = stack'[t] /\ Last(stack'[t]).served = 0
      BY <2>2, <2>5 DEF Last
    <3>2. stack'[Mozilla] # <<>> => Last(stack'[Mozilla]).served = 0
      BY <2>7, <2>9 DEF Served, Last
    <3> QED BY <3>1, <3>2 DEF Returns, Top
  <2>11. ~(Len(stack'[Mozilla]) > Len(stack'[owner']))
    <3>1. Len(stack[Mozilla]) = 0 \/ Len(stack[Mozilla]) = 1
      BY <2>9
    <3>2. PICK m \in {0, 1} : Len(stack[Mozilla]) = m
      BY <3>1
    <3>3. Len(stack'[Mozilla]) = m /\ Len(stack'[owner']) = 1
      BY <2>2, <2>5, <2>7, <3>2
    <3>4. ~(m > 1)
      OBVIOUS
    <3> QED BY <3>3, <3>4
  <2>12. Turn' = <<t, "ask">>
    <3>1. t # None /\ owner' # None /\ stack'[owner'] # <<>>
      BY <1>3, <2>2, <2>5
    <3>2. Caller' = t
      BY <2>2, <2>11 DEF Caller
    <3> QED BY <2>8, <2>10, <3>1, <3>2 DEF Turn
  <2>13. t \in Java
    BY <1>3
  <2> QED BY <2>4, <2>6, <2>12, <2>13, FirstSeen
<1>4. CASE t # Mozilla /\ owner \notin {None, t}
  <2>1. GoTo(t, "ownWait") /\ UNCHANGED <<owner, stack>>
    BY <1>4 DEF Own, Unowned
  <2>2. owner \in Java /\ pc'[owner] = pc[owner] /\ pc'[Mozilla] = pc[Mozilla]
    BY <1>4, <2>1 DEF GoTo, SyncTypeOK
  <2> QED BY <2>1, <2>2, QuietUnseen DEF Quiet
<1> QED BY <1>1, <1>2, <1>3, <1>4

(* ... callbacks that begin ...                                            *)
LEMMA RunOrderSeen ==
  ASSUME IInv, NEW t \in Thread, RunOrder(t)
  PROVE  Seen
<1> USE SyncAssumption DEF IInv, Thread
<1>1. /\ pc[t] = "loop" /\ states[Side(t)] = "call"
      /\ stack' = [stack EXCEPT ![t][Len(stack[t])].job = doit]
      /\ GoTo(t, IF t = Mozilla THEN "xlock" ELSE "doit") /\ owner' = owner
  BY DEF RunOrder
<1>t. Stacks
  BY DEF SyncTypeOK, Stacks
<1>2. \/ t = Mozilla /\ owner \in Java /\ (FirstAsked \/ JavaAsked)
      \/ t \in Java /\ owner = t /\ MozillaAsked
  <2>1. CASE t = Mozilla
    BY <1>1, <2>1, MozillaLoops, OwnerLoops DEF Side, With
  <2>2. CASE t # Mozilla
    <3>1. owner = t
      BY <1>1, <2>2 DEF OthersOutside
    <3> QED
      BY <1>1, <2>2, <3>1, MozillaLoops, OwnerLoops DEF Side, With
  <2> QED
    BY <2>1, <2>2
<1>3. Deep /\ Turn = (IF t = Mozilla THEN <<owner, "ask">> ELSE <<Mozilla, "ask">>)
  BY <1>t, <1>2, TurnNow
<1>4. Len(stack[t]) \in Nat \ {0} /\ stack[t] # <<>>
  <2>1. CASE t = Mozilla /\ FirstAsked
    <3>1. Len(stack[t]) = 1
      BY <1>1, <2>1 DEF FirstAsked, Away
    <3> QED BY <1>3, <2>1, <3>1 DEF Deep
  <2>2. CASE t = Mozilla /\ JavaAsked
    BY <1>3, <2>2 DEF JavaAsked, NestedCall, Even, Deep
  <2>3. CASE t = owner
    BY <1>3, <2>3 DEF Deep
  <2> QED BY <1>2, <2>1, <2>2, <2>3
<1>5. Stacks' /\ Open' = Open /\ stack'[t] # <<>> /\ stack'[owner] # <<>>
  <2> DEFINE f == [stack[t][Len(stack[t])] EXCEPT !.job = doit]
  <2>1. f \in Frame
    <3>1. stack[t][Len(stack[t])] \in Frame
      BY <1>t, <1>4 DEF Stacks
    <3> QED BY <3>1 DEF Frame, SyncTypeOK
  <2>2. stack' = [stack EXCEPT ![t] = [stack[t] EXCEPT ![Len(stack[t])] = f]]
    BY <1>1
  <2> HIDE DEF f
  <2>3. Stacks' /\ Marked(t, f)
    BY <1>t, <1>4, <2>1, <2>2, Marking
  <2>4. Open' = Open
    BY <1>t, <2>3, OpenMarked
  <2>5. stack'[t] # <<>>
    BY <2>3, Empty DEF Marked, Stacks
  <2>6. stack'[owner] # <<>>
    <3>1. CASE owner = t
      BY <2>5, <3>1
    <3>2. CASE owner # t
      BY <1>2, <1>3, <2>3, <3>2 DEF Marked, Below, Deep
    <3> QED BY <3>1, <3>2
  <2> QED BY <2>3, <2>4, <2>5, <2>6
<1>6. owner \in Java /\ owner' = owner /\ owner' # None /\ stack'[owner'] # <<>>
  BY <1>1, <1>2, <1>5
<1>7. CASE t = Mozilla
  <2>1. Runs(Mozilla)'
    BY <1>1, <1>5, <1>7 DEF GoTo, Runs, SyncTypeOK
  <2>2. Turn' = <<t, "run">>
    BY <1>6, <1>7, <2>1 DEF Turn
  <2>3. TheChain!Called(owner, t)
    BY <1>t, <1>3, <1>6, <1>7, Merging DEF Deep
  <2> QED BY <1>3, <1>5, <1>6, <1>7, <2>2, <2>3, RunSeen
<1>8. CASE t # Mozilla
  <2>1. owner = t /\ MozillaAsked
    BY <1>2, <1>8
  <2>2. pc'[Mozilla] \in {"loop", "waiting"} /\ pc'[t] = "doit"
    BY <1>1, <1>8, <2>1 DEF MozillaAsked, Waits, GoTo, SyncTypeOK
  <2>3. ~Runs(Mozilla)' /\ Runs(owner)'
    BY <1>5, <1>6, <2>1, <2>2 DEF Runs
  <2>4. Turn' = <<t, "run">>
    BY <1>6, <2>1, <2>3 DEF Turn
  <2>5. Len(stack[Mozilla]) > 1
    BY <1>3, <2>1 DEF MozillaAsked, Unserved, Deeper, Deep
  <2>6. TheChain!Called(Mozilla, t)
    BY <1>t, <1>3, <1>6, <2>1, <2>5, Merging DEF Deep
  <2> QED BY <1>3, <1>5, <1>8, <2>4, <2>6, RunSeen
<1> QED BY <1>7, <1>8
(* ... and that end, ...                                                   *)
LEMMA EndSeen ==
  ASSUME IInv, NEW t \in Thread, Finish(t)
  PROVE  Seen
<1> USE SyncAssumption DEF IInv, Thread
<1> DEFINE job == stack[t][Len(stack[t])].job
           f == [stack[job][Len(stack[job])] EXCEPT !.served = @ + 1]
<1>1. /\ pc[t] = "doit" /\ GoTo(t, "did") /\ owner' = owner
      /\ stack' = [stack EXCEPT ![job][Len(stack[job])].served = @ + 1]
  BY DEF Finish, Top, Last
<1>t. Stacks
  BY DEF SyncTypeOK, Stacks
<1>2. \/ t = Mozilla /\ owner \in Java /\ MozillaRuns
      \/ t \in Java /\ owner = t /\ JavaRuns
  <2>1. CASE t = Mozilla
    BY <1>1, <2>1, MozillaAt, OwnerAt DEF With
  <2>2. CASE t # Mozilla
    <3>1. owner = t
      BY <1>1, <2>2 DEF OthersOutside
    <3> QED
      BY <1>1, <2>2, <3>1, MozillaAt, OwnerAt DEF With
  <2> QED
    BY <2>1, <2>2
<1>3. job = (IF t = Mozilla THEN owner ELSE Mozilla)
  BY <1>2 DEF MozillaRuns, JavaRuns, Job
<1>4. Deep /\ Turn = <<t, "run">>
  BY <1>t, <1>2, TurnNow
<1>5. job \in Thread /\ Len(stack[job]) \in Nat \ {0} /\ stack[job] # <<>> /\ Served(job, 0)
  <2>1. CASE t = Mozilla
    BY <1>2, <1>3, <1>4, <2>1 DEF MozillaRuns, Deep
  <2>2. CASE t # Mozilla
    <3>1. Deeper /\ Served(Mozilla, 0)
      BY <1>2, <2>2 DEF JavaRuns, Unserved
    <3>2. Len(stack[Mozilla]) \in Nat \ {0} /\ stack[Mozilla] # <<>>
      BY <1>4, <3>1 DEF Deep, Deeper
    <3> QED BY <1>3, <2>2, <3>1, <3>2
  <2> QED BY <2>1, <2>2
<1>6. f \in Frame /\ f.served = 1
  <2>1. stack[job][Len(stack[job])] \in Frame
    BY <1>t, <1>5 DEF Stacks
  <2> PICK g \in Frame : g = stack[job][Len(stack[job])]
    BY <2>1
  <2>2. g.served = 0 /\ f = [g EXCEPT !.served = @ + 1]
    BY <1>5 DEF Served
  <2> HIDE DEF f, job
  <2> QED BY <2>2 DEF Frame
<1>7. stack' = [stack EXCEPT ![job] = [stack[job] EXCEPT ![Len(stack[job])] = f]]
  BY <1>1
<1> HIDE DEF f, job
<1>8. Stacks' /\ Marked(job, f)
  BY <1>t, <1>5, <1>6, <1>7, Marking
<1>9. Open' = Open
  BY <1>t, <1>5, <1>8, OpenMarked
<1>10. stack'[job] # <<>> /\ Last(stack'[job]).served = 1
  <2>1. stack'[job] # <<>>
    BY <1>5, <1>8, Empty DEF Marked, Stacks
  <2>2. Last(stack'[job]) = f
    BY <1>8 DEF Marked, Last
  <2> QED BY <1>6, <2>1, <2>2
<1>11. CASE t = Mozilla
  <2>1. owner \in Java /\ job = owner /\ owner' = owner /\ owner # None
    BY <1>1, <1>2, <1>3, <1>11
  <2>2. pc'[Mozilla] = "did" /\ pc'[owner] \in {"loop", "waiting"}
    BY <1>1, <1>2, <1>11, <2>1 DEF MozillaRuns, Waits, GoTo, SyncTypeOK
  <2>3. ~Runs(Mozilla)' /\ ~Runs(owner)' /\ Returns(owner)'
    BY <1>10, <2>1, <2>2 DEF Runs, Returns, Top
  <2>4. Turn' = <<owner, "return">>
    BY <1>10, <2>1, <2>3 DEF Turn
  <2>5. TheChain!Called(owner, Mozilla) /\ Turn = <<Mozilla, "run">>
    BY <1>t, <1>4, <1>11, <2>1, Merging DEF Deep
  <2> QED BY <1>9, <2>1, <2>4, <2>5, FinishSeen
<1>12. CASE t # Mozilla
  <2>1. /\ owner \in Java /\ owner = t /\ owner' = owner /\ owner # None
        /\ job = Mozilla /\ JavaRuns
    BY <1>1, <1>2, <1>3, <1>12
  <2>2. /\ pc'[Mozilla] \in {"loop", "waiting"} /\ pc'[owner] = "did"
        /\ stack'[owner] = stack[owner] /\ Served(owner, 0)
    BY <1>1, <1>8, <1>12, <2>1 DEF JavaRuns, Unserved, Waits, GoTo, SyncTypeOK, Marked, Below
  <2>3. ~Runs(Mozilla)' /\ ~Runs(owner)' /\ Returns(Mozilla)'
    BY <1>10, <2>1, <2>2 DEF Runs, Returns, Top
  <2>4. ~Returns(owner)' /\ stack'[owner'] # <<>>
    BY <1>4, <2>1, <2>2 DEF Returns, Top, Last, Served, Deep
  <2>5. Turn' = <<Mozilla, "return">>
    BY <2>1, <2>3, <2>4 DEF Turn
  <2>6. Len(stack[Mozilla]) > 1
    BY <1>4, <2>1 DEF JavaRuns, Unserved, Deeper, Deep
  <2>7. TheChain!Called(Mozilla, owner) /\ Turn = <<owner, "run">>
    BY <1>t, <1>4, <2>1, <2>6, Merging DEF Deep
  <2> QED BY <1>9, <2>1, <2>5, <2>7, FinishSeen
<1> QED BY <1>11, <1>12

(* ... and the calls that return.                                          *)
LEMMA ReturnDoneSeen ==
  ASSUME IInv, NEW t \in Thread, ReturnDone(t)
  PROVE  Seen \/ Unseen
<1> USE SyncAssumption DEF IInv, Thread
<1> DEFINE n == Len(stack[t])
<1>1. /\ pc[t] = "loop" /\ states[Side(t)] = "done"
      /\ Pop(t) /\ owner' = owner
  BY DEF ReturnDone
<1>t. Stacks
  BY DEF SyncTypeOK, Stacks
<1>2. \/ t = Mozilla /\ Away
      \/ t = Mozilla /\ owner \in Java /\ MozillaTold
      \/ t \in Java /\ owner = t /\ JavaTold
  <2>1. CASE t = Mozilla
    BY <1>1, <2>1, MozillaLoops, OwnerLoops DEF Side, With
  <2>2. CASE t # Mozilla
    <3>1. owner = t
      BY <1>1, <2>2 DEF OthersOutside
    <3> QED
      BY <1>1, <2>2, <3>1, OwnerLoops DEF Side
  <2> QED
    BY <2>1, <2>2
<1>3. n \in Nat \ {0} /\ stack[t] # <<>>
  <2>1. stack[t] \in Seq(Frame)
    BY <1>t DEF Stacks
  <2>2. CASE t = Mozilla /\ Away
    <3>1. n = 1
      BY <1>1, <2>2 DEF Away
    <3>2. stack[t] # <<>>
      BY <3>1
    <3> QED BY <3>1, <3>2
  <2>3. CASE t = Mozilla /\ owner \in Java /\ MozillaTold
    BY <2>1, <2>3 DEF MozillaTold, Deeper
  <2>4. CASE owner = t /\ JavaTold
    BY <2>1, <2>4 DEF JavaTold, Even
  <2> QED
    BY <1>2, <2>2, <2>3, <2>4
<1>4. Stacks' /\ Popped(t)
  BY <1>1, <1>t, <1>3, Popping
<1>5. Top(t).kind = Kind(t, n)
  BY <1>3 DEF Top, Last, FramesKept
<1>n. Len(stack[t]) = n
  OBVIOUS
<1> HIDE DEF n
<1>6. GoTo(t, IF t # Mozilla /\ n = 1 THEN "free" ELSE IF t = Mozilla THEN "xlock" ELSE "doit")
  <2>1. Top(t).kind = "first" <=> t # Mozilla /\ n = 1
    BY <1>3, <1>5 DEF Kind
  <2> QED
    BY <1>1, <2>1 DEF Pop
<1>7. stack'[t] \in Seq(Frame) /\ Len(stack'[t]) = n - 1
  BY <1>n, <1>4 DEF Popped, Stacks
<1>8. CASE t = Mozilla /\ Away
  <2>1. n = 1
    BY <1>n, <1>1, <1>8 DEF Away
  <2>2. stack'[Mozilla] = <<>>
    BY <1>7, <1>8, <2>1, Empty
  <2>3. Away'
    BY <1>6, <1>8, <2>2 DEF Away, GoTo, SyncTypeOK
  <2>4. \A u \in Java : stack'[u] = stack[u] /\ pc'[u] = pc[u]
    BY <1>4, <1>6, <1>8 DEF GoTo, SyncTypeOK, Popped, Below
  <2>5. owner \in Java \cup {None}
    BY DEF SyncTypeOK
  <2> QED BY <1>t, <1>1, <1>4, <1>8, <2>3, <2>4, <2>5, EventUnseen
<1>9. CASE t = Mozilla /\ owner \in Java /\ MozillaTold
  <2>1. Deep /\ Turn = <<Mozilla, "return">>
    BY <1>t, <1>9, TurnNow
  <2>2. Deeper
    BY <1>9 DEF MozillaTold
  <2>3. n > 1
    BY <1>n, <1>9, <2>1, <2>2 DEF Deeper, Deep
  <2>4. Open' = [Open EXCEPT ![t] = @ - 1]
    BY <1>t, <1>n, <1>4, <2>3, OpenPopped
  <2>5. stack'[Mozilla] # <<>> /\ stack'[owner] = stack[owner] /\ owner' # None
    <3>1. Len(stack'[t]) # 0
      BY <1>3, <1>7, <2>3
    <3>2. stack'[t] # <<>>
      BY <1>7, <3>1, Empty
    <3> QED BY <1>1, <1>4, <1>9, <3>2 DEF Popped, Below
  <2>6. pc'[Mozilla] = "xlock"
    BY <1>6, <1>9 DEF GoTo, SyncTypeOK
  <2>7. Turn' = <<Mozilla, "run">>
    BY <1>1, <2>1, <2>5, <2>6 DEF Turn, Runs, Deep
  <2> QED BY <1>9, <2>1, <2>4, <2>7, ReturnSeen
<1>10. CASE t \in Java /\ owner = t /\ JavaTold
  <2>1. Deep /\ Turn = <<t, "return">>
    BY <1>t, <1>10, TurnNow
  <2>2. Open' = [Open EXCEPT ![t] = @ - 1]
    BY <1>t, <1>4, <1>10, OpenPopped
  <2>3. Open[t] = n
    BY <1>n, <1>10 DEF Open
  <2>4. Turn' = (IF n = 1 THEN <<None, "none">> ELSE <<t, "run">>)
    <3>1. CASE n = 1
      <4>1. stack'[t] = <<>>
        BY <1>7, <3>1, Empty
      <4> QED BY <1>1, <1>10, <3>1, <4>1 DEF Turn
    <3>2. CASE n # 1
      <4>1. Len(stack'[t]) # 0
        BY <1>3, <1>7, <3>2
      <4>2. stack'[t] # <<>>
        BY <1>7, <4>1, Empty
      <4>3. pc'[t] = "doit" /\ pc'[Mozilla] \in {"loop", "waiting"}
        BY <1>6, <1>10, <3>2 DEF JavaTold, Waits, GoTo, SyncTypeOK
      <4>4. ~Runs(Mozilla)' /\ Runs(owner)'
        BY <1>1, <1>10, <4>2, <4>3 DEF Runs
      <4>5. owner' # None /\ stack'[owner'] # <<>> /\ owner' = t
        BY <1>1, <1>10, <4>2
      <4> QED BY <3>2, <4>4, <4>5 DEF Turn
    <3> QED BY <3>1, <3>2
  <2>5. Turn' = IF t \in Java /\ Open[t] = 1 THEN <<None, "none">> ELSE <<t, "run">>
    BY <1>10, <2>3, <2>4
  <2> QED BY <2>1, <2>2, <2>5, ReturnSeen
<1> QED BY <1>2, <1>8, <1>9, <1>10
(* Nothing else changes whose turn it is, or the calls that are open.      *)
LEMMA ReturnUnexpectedUnseen ==
  ASSUME IInv, NEW t \in Thread, ReturnUnexpected(t)
  PROVE  Unseen
<1> USE SyncAssumption DEF IInv, Thread
<1>1. /\ pc[t] = "loop" /\ states[Side(t)] \in {"free", "run"}
      /\ Pop(t) /\ owner' = owner
  BY DEF ReturnUnexpected
<1>t. Stacks
  BY DEF SyncTypeOK, Stacks
<1>2. t = Mozilla /\ Away
  <2>1. CASE t = Mozilla
    BY <1>1, <2>1, MozillaLoops DEF Side
  <2>2. CASE t # Mozilla
    BY <1>1, <2>2, OwnerLoops DEF Side
  <2> QED BY <2>1, <2>2
<1>3. Len(stack[t]) = 1 /\ stack[t] # <<>>
  <2>1. Len(stack[t]) = 1
    BY <1>1, <1>2 DEF Away
  <2> QED BY <2>1
<1>4. Stacks' /\ Popped(t)
  BY <1>1, <1>t, <1>3, Popping
<1>5. GoTo(t, "xlock")
  <2>1. Top(t) = stack[t][1]
    BY <1>3 DEF Top, Last
  <2>2. stack[t][1].kind = Kind(t, 1)
    BY <1>3 DEF FramesKept
  <2>3. Top(t).kind = "event"
    BY <1>2, <2>1, <2>2 DEF Kind
  <2> QED
    BY <1>1, <1>2, <2>3 DEF Pop
<1>6. stack'[Mozilla] = <<>>
  <2>1. stack'[Mozilla] \in Seq(Frame) /\ Len(stack'[Mozilla]) = 0
    BY <1>2, <1>3, <1>4 DEF Popped, Stacks
  <2> QED BY <2>1, Empty
<1>7. Away'
  BY <1>2, <1>5, <1>6 DEF Away, GoTo, SyncTypeOK
<1>8. \A u \in Java : stack'[u] = stack[u] /\ pc'[u] = pc[u]
  BY <1>2, <1>4, <1>5 DEF GoTo, SyncTypeOK, Popped, Below
<1>9. owner \in Java \cup {None}
  BY DEF SyncTypeOK
<1> QED BY <1>t, <1>1, <1>2, <1>4, <1>7, <1>8, <1>9, EventUnseen

(* Neither does the frame of mozilla for an event.                         *)
LEMMA HandleEventUnseen ==
  ASSUME IInv, HandleEvent
  PROVE  Unseen
<1> USE SyncAssumption DEF IInv, Thread
<1>1. /\ pc[Mozilla] = "idle" /\ owner' = owner
      /\ Push(Mozilla, "event") /\ GoTo(Mozilla, "loop")
  BY DEF HandleEvent
<1>t. Stacks
  BY DEF SyncTypeOK, Stacks
<1>2. Stacks' /\ Pushed(Mozilla, "event")
  BY <1>t, <1>1, Pushing
<1>3. Away /\ stack[Mozilla] = <<>>
  BY <1>1, MozillaAt DEF Loose, Apart, FirstYield, FirstOrder, FirstAsked,
                         Releases, Away
<1>4. Away'
  BY <1>1, <1>2, <1>3 DEF Away, Served, GoTo, SyncTypeOK, Pushed
<1>5. \A u \in Java : stack'[u] = stack[u] /\ pc'[u] = pc[u]
  BY <1>1, <1>2 DEF GoTo, SyncTypeOK, Pushed, Below
<1>6. owner \in Java \cup {None}
  BY DEF SyncTypeOK
<1> QED BY <1>t, <1>1, <1>2, <1>3, <1>4, <1>5, <1>6, EventUnseen

(* A thread that is at work on a callback neither before nor after, and    *)
(* wakes others at most, ...                                               *)
LEMMA GoingUnseen ==
  ASSUME IInv, NEW t \in Thread,
         YieldTo(t) \/ Order(t) \/ Did(t) \/ Tell(t) \/ Wait(t) \/ Free(t)
  PROVE  Unseen
<1> USE SyncAssumption DEF IInv, Thread
<1>1. owner' = owner /\ stack' = stack
  BY DEF YieldTo, Order, Did, Tell, Wait, Free
<1>2. pc[t] \notin AtWork /\ pc'[t] \notin AtWork
  <2>1. pc[t] \in {"yield", "order", "did", "tell", "loop", "free"}
    BY DEF YieldTo, Order, Did, Tell, Wait, Free
  <2>2. \E next \in {"order", "loop", "tell", "waiting", "release"} :
          GoTo(t, next) \/ \E s \in {"mozilla", "java"} : GoToNotify(t, next, s)
    BY DEF YieldTo, Order, Did, Tell, Wait, Free, Other
  <2>3. pc'[t] \in {"order", "loop", "tell", "waiting", "release"}
    BY <2>2 DEF GoTo, GoToNotify, SyncTypeOK
  <2> QED BY <2>1, <2>3 DEF AtWork
<1>3. ASSUME NEW u \in Thread, u # t
      PROVE  pc'[u] = pc[u] \/ (pc[u] = "waiting" /\ pc'[u] = "loop")
  <2>1. (\E next : GoTo(t, next)) \/ (\E next, s : GoToNotify(t, next, s))
    BY DEF YieldTo, Order, Did, Tell, Wait, Free
  <2> QED BY <1>3, <2>1 DEF GoTo, GoToNotify, SyncTypeOK
<1>4. \A u \in Thread : Quiet(u)
  BY <1>2, <1>3 DEF Quiet, AtWork
<1>5. owner # None => owner \in Thread
  BY DEF SyncTypeOK
<1> QED BY <1>1, <1>4, <1>5, QuietUnseen

(* ... or goes on at work, or has no call that is open.                    *)
LEMMA WorkUnseen ==
  ASSUME IInv,
         \/ \E t \in Java : CallMozilla(t) \/ AwtLock(t) \/ AwtUnlock(t)
         \/ CallJava \/ XLock
  PROVE  Unseen
<1> USE SyncAssumption DEF IInv, Thread
<1>1. owner' = owner /\ stack' = stack
  BY DEF CallMozilla, AwtLock, AwtUnlock, CallJava, XLock
<1>2. owner # None => owner \in Thread
  BY DEF SyncTypeOK
<1>3. ASSUME NEW t \in Java, CallMozilla(t) PROVE \A u \in Thread : Quiet(u)
  <2>1. GoTo(t, "own") /\ pc[t] \in {"idle", "doit"}
    BY <1>3 DEF CallMozilla
  <2>2. pc'[t] \in AtWork /\ \A u \in Thread : u # t => pc'[u] = pc[u]
    BY <2>1 DEF GoTo, SyncTypeOK, AtWork
  <2>3. stack[t] = <<>> \/ pc[t] \in AtWork
    BY <2>1, OwnerAt DEF OthersOutside, AtWork
  <2> QED BY <2>2, <2>3 DEF Quiet
<1>4. ASSUME NEW t \in Java, AwtLock(t) \/ AwtUnlock(t) PROVE \A u \in Thread : Quiet(u)
  BY <1>4 DEF AwtLock, AwtUnlock, Quiet
<1>5. ASSUME CallJava PROVE \A u \in Thread : Quiet(u)
  BY <1>5 DEF CallJava, GoTo, SyncTypeOK, Quiet, AtWork
<1>6. ASSUME XLock PROVE \A u \in Thread : Quiet(u)
  <2>1. pc[Mozilla] = "xlock" /\ (stack[Mozilla] # <<>> => GoTo(Mozilla, "doit"))
    BY <1>6 DEF XLock
  <2>2. \A u \in Thread : u # Mozilla => pc'[u] = pc[u]
    BY <1>6 DEF XLock, GoTo, SyncTypeOK
  <2>3. stack[Mozilla] = <<>> \/ pc'[Mozilla] = "doit"
    BY <2>1 DEF GoTo, SyncTypeOK
  <2> QED BY <2>1, <2>2, <2>3 DEF Quiet, AtWork
<1>7. \A u \in Thread : Quiet(u)
  BY <1>3, <1>4, <1>5, <1>6
<1> QED BY <1>1, <1>2, <1>7, QuietUnseen

(* The rendezvous is released after the last call has returned.            *)
LEMMA ReleaseUnseen ==
  ASSUME IInv, NEW t \in Thread, Release(t)
  PROVE  Unseen
<1> USE SyncAssumption DEF IInv, Thread
<1>1. pc[t] = "release" /\ owner' = None /\ stack' = stack
  BY DEF Release
<1>2. owner = t /\ Releases
  <2>1. CASE t = Mozilla
    BY <1>1, <2>1, MozillaAt
  <2>2. CASE t # Mozilla
    BY <1>1, <2>2, OwnerAt
  <2> QED BY <2>1, <2>2
<1>3. Open' = Open
  BY <1>1 DEF Open
<1>4. Turn = <<None, "none">>
  BY <1>2 DEF Turn, Releases
<1>5. Turn' = <<None, "none">>
  BY <1>1 DEF Turn
<1> QED BY <1>3, <1>4, <1>5 DEF Unseen

-----------------------------------------------------------------------------
(* Every step is one of the chain of calls, or is not seen in it.          *)
LEMMA EveryStepSeen == IInv /\ [Next]_vars => Seen
<1> SUFFICES ASSUME IInv, [Next]_vars PROVE Seen
  OBVIOUS
<1>0. Unseen => Seen
  BY DEF Unseen, Seen
<1>1. ASSUME NEW t \in Thread, Step(t) \/ Finish(t) PROVE Seen
  <2>1. Own(t) \/ RunOrder(t) \/ Finish(t) \/ ReturnDone(t) => Seen
    BY <1>0, OwnSeen, RunOrderSeen, EndSeen, ReturnDoneSeen
  <2>2. YieldTo(t) \/ Order(t) \/ Did(t) \/ Tell(t) \/ Wait(t) \/ Free(t) => Seen
    BY <1>0, GoingUnseen
  <2>3. ReturnUnexpected(t) \/ Release(t) => Seen
    BY <1>0, ReturnUnexpectedUnseen, ReleaseUnseen
  <2> QED BY <1>1, <2>1, <2>2, <2>3 DEF Step
<1>2. CASE UNCHANGED vars
  <2>1. owner' = owner /\ stack' = stack /\ pc' = pc
    BY <1>2 DEF vars
  <2>2. Quiet(Mozilla) /\ (owner # None => Quiet(owner))
    BY <2>1 DEF Quiet
  <2> QED BY <1>0, <2>1, <2>2, QuietUnseen
<1> QED BY <1>0, <1>1, <1>2, WorkUnseen, HandleEventUnseen DEF Next

(* At the start no call is open.                                           *)
LEMMA NobodyAtFirst == Init => TheChain!Init
<1> SUFFICES ASSUME Init PROVE TheChain!Init
  OBVIOUS
<1> USE SyncAssumption DEF Thread
<1>1. owner = None /\ stack = [t \in Thread |-> <<>>]
  BY DEF Init
<1>2. Turn = <<None, "none">>
  BY <1>1 DEF Turn
<1>3. \A t \in Thread : Open[t] = 0
  BY <1>1 DEF Open
<1>4. Open = [t \in Thread |-> 0]
  BY <1>3 DEF Open
<1> QED BY <1>2, <1>4 DEF TheChain!Init, TheChain!Nobody, TheChain!Thread

(* The merged threads implement one chain of calls: the callbacks run by   *)
(* the other side, one at a time and once for a call, and the calls return *)
(* inside out.                                                             *)
THEOREM OneThread == Spec => IsChain
<1>1. Init => TheChain!Init
  BY NobodyAtFirst
<1>2. IInv /\ [Next]_vars => [TheChain!Next]_<<Open, Turn>>
  BY EveryStepSeen DEF Seen
<1> QED
  BY <1>1, <1>2, Invariant, PTL DEF Spec, IsChain, TheChain!Spec
=============================================================================
