----------------------- MODULE ThreadedPipeline_proofs -----------------------
(***************************************************************************)
(* Worker threads, for every set of chains in which a module with a thread *)
(* comes before what listens to it: a module has one thread, a stop stops  *)
(* everything, and no wakeup and no frame is lost.                         *)
(***************************************************************************)
EXTENDS ThreadedPipeline, TLAPS

(* The labels of the functions.                                            *)
Starting == {"start", "use_thread", "started"}
Creating == {"new", "run"}
Ending == {"stop", "stop_update", "stopped"}
Joining == {"stop_post", "waitfor", "stop_delete"}
Notifying == {"notifyUpdate", "need_update", "post"}
Updating == {"update", "push"}
Pushing == {"notifyObservers", "unlock"}
Looping == {"loop", "test", "assert", "wait", "retest", "clear"}
Polling == {"poll", "poll_thread", "needUpdate", "poll_clear"}
Labels == Starting \cup Creating \cup Ending \cup Joining \cup Notifying
            \cup Updating \cup Pushing \cup Looping \cup Polling

FrameType == [pc : Labels, m : Module]
Members == {modules[i] : i \in 1..Len(modules)}
Current == modules[job.next - 1]

\* The main thread is done with the i-th module in the current sweep.
Handled(i) == i < job.next /\ (stack[main] # <<>> => i # job.next - 1)

\* What the main thread may run: in a start or stop request, functions of the
\* current module; in a poll, everything but starting and stopping threads.
MainMay(f) ==
  /\ job.name # "events"
  /\ job.name \in {"start", "stop"} => f.m = Current
  /\ job.name = "start" =>
       IF f.m \in Threaded THEN f.pc \in Starting \cup Creating
       ELSE f.pc \in Starting \cup Ending \cup Notifying
  /\ job.name = "stop" =>
       IF f.m \in Threaded THEN f.pc \in Ending \cup Joining ELSE f.pc \in Ending
  /\ job.name = "poll" =>
       /\ f.pc \notin Creating \cup Joining \cup Looping
       /\ f.m \in Threaded => f.pc \notin Starting \cup Ending

\* What the worker of u may run: its loop, its update() and what notifying its
\* observer leads to; while the pipeline is started, only its loop.
WorkerMay(u, f) ==
  /\ f.m = u \/ f.m = Observer[u]
  /\ f.pc \notin Creating \cup Joining \cup Polling
  /\ f.pc \in Looping \cup Updating \cup Pushing => f.m = u
  /\ f.pc \in Starting \cup Ending => f.m \notin Threaded
  /\ job.name = "start" => f.pc \in Looping \ {"clear"}

May(a, f) ==
  /\ f.m \in Members
  /\ f.pc \in Pushing => Observer[f.m] \in Members
  /\ IF a = main THEN MainMay(f) ELSE WorkerMay(a[1], f)

FramesOK ==
  \A a \in Actor : \A i \in 1..Len(stack[a]) : May(a, stack[a][i])

\* A worker's loop is its outermost function.
LoopIsLast ==
  \A w \in Worker : \A i \in 1..Len(stack[w]) :
    stack[w][i].pc \in Looping <=> i = Len(stack[w])

\* What a caller goes on with when the function it called returns.
Resuming == {"use_thread", "need_update", "push", "unlock", "loop", "poll_thread"}
CallersWait ==
  \A a \in Actor : \A i \in 2..Len(stack[a]) : stack[a][i].pc \in Resuming

\* The vector: no module twice, what listens to a thread comes later.
VectorOK ==
  /\ pipeline \in Pipelines
  /\ modules \in Seq(DOMAIN Observer)
  /\ \A i, j \in 1..Len(modules) : modules[i] = modules[j] => i = j
  /\ Threaded \subseteq Members
  /\ \A i, j \in 1..Len(modules) :
       modules[i] \in Threaded /\ Observer[modules[i]] = modules[j] => i < j

JobOK ==
  /\ job \in [name : {"events", "start", "stop", "poll"}, next : Nat]
  /\ job.next \in 1..(Len(modules) + 1)
  /\ stack[main] # <<>> => job.next >= 2

\* The threads: what a thread runs, who points at it.
ThreadsOK ==
  /\ \A w \in Worker : life[w] # "free" => thread[w[1]] = w[2]
  /\ \A w \in Worker : stack[w] # <<>> => life[w] = "running"
  /\ \A m \in Module : thread[m] # 0 => m \in Threaded /\ m \in use_thread

\* The declared types, but for the stacks.
FlagTypes ==
  /\ \A i \in 1..Len(modules) : modules[i] \in Module
  /\ late \subseteq Module /\ pipeline_started \in BOOLEAN
  /\ is_started \subseteq Module /\ need_update \subseteq Module
  /\ use_thread \subseteq Module /\ trigger \subseteq Module
  /\ thread \in [Module -> 0..Slots]
  /\ mtx \in [Module -> Actor \cup {None}]
  /\ want_quit \subseteq Worker
  /\ life \in [Worker -> {"free", "new", "running", "done"}]
  /\ owed \subseteq Module

\* Between and during the sweeps.
EventsOK ==
  /\ job.name \in {"start", "poll"} => pipeline_started
  /\ job.name = "stop" => ~pipeline_started
  /\ job.name \in {"events", "poll"} /\ pipeline_started => Threaded \subseteq is_started
  /\ job.name = "events" /\ ~pipeline_started =>
       is_started = {} /\ need_update = {} /\ \A m \in Module : thread[m] = 0
  /\ is_started \subseteq Members /\ need_update \subseteq Members

StartOK ==
  job.name = "start" =>
    /\ need_update \cap Threaded = {}
    /\ \A i \in 1..Len(modules) : modules[i] \in Threaded =>
         /\ Handled(i) => modules[i] \in is_started
         /\ i >= job.next => thread[modules[i]] = 0
    /\ stack[main] # <<>> /\ Current \in Threaded =>
         /\ Len(stack[main]) = 1
         /\ stack[main][1].pc \in {"start", "use_thread", "new"} =>
              thread[Current] = 0
         /\ stack[main][1].pc = "new" => Current \in use_thread

StopOK ==
  job.name = "stop" =>
    /\ \A i \in 1..Len(modules) : Handled(i) =>
         /\ modules[i] \notin is_started /\ modules[i] \notin need_update
         /\ thread[modules[i]] = 0
    /\ \A u \in Threaded : thread[u] # 0 =>
         /\ u \in is_started
         /\ Observer[u] \in Threaded => Observer[u] \in is_started
    /\ stack[main] # <<>> =>
         /\ Len(stack[main]) = 1
         /\ stack[main][1].pc \in {"stop_update", "stopped"} => thread[Current] = 0
         /\ stack[main][1].pc = "stopped" => Current \notin need_update
         /\ stack[main][1].pc = "stop_delete" =>
              thread[Current] # 0 /\ life[<<Current, thread[Current]>>] = "done"

\* NoLostWakeup, from the moment the worker found no update.
WakeupOK ==
  \A w \in Worker :
    (At(w, "assert") \/ At(w, "wait")) /\ w[1] \in need_update =>
      w[1] \in trigger \/ \E a \in Actor : At(a, "post") /\ Of(a) = w[1]

\* The stacks and the vector.
StackInv ==
  /\ stack \in [Actor -> Seq(FrameType)]
  /\ VectorOK /\ JobOK /\ FramesOK /\ LoopIsLast /\ CallersWait

IInv ==
  /\ FlagTypes /\ StackInv /\ ThreadsOK
  /\ EventsOK /\ StartOK /\ StopOK /\ WakeupOK /\ NoLostUpdate
-----------------------------------------------------------------------------
(* Sequences.                                                              *)

LEMMA SeqIsFunction ==
  ASSUME NEW S, NEW s \in Seq(S)
  PROVE  Len(s) \in Nat /\ s \in [1..Len(s) -> S] /\ DOMAIN s = 1..Len(s)
  OBVIOUS

LEMMA EmptyHasNoLength ==
  ASSUME NEW S
  PROVE  /\ <<>> \in Seq(S) /\ Len(<<>>) = 0
         /\ \A s \in Seq(S) : s # <<>> => Len(s) \in Nat \ {0}
  OBVIOUS

LEMMA HeadAndTail ==
  ASSUME NEW S, NEW s \in Seq(S), s # <<>>
  PROVE  /\ Head(s) \in S /\ Tail(s) \in Seq(S) /\ Len(Tail(s)) = Len(s) - 1
         /\ \A i \in 1..Len(Tail(s)) : Tail(s)[i] = s[i + 1]
  OBVIOUS

LEMMA Concatenation ==
  ASSUME NEW S, NEW s \in Seq(S), NEW t \in Seq(S)
  PROVE  /\ s \o t \in Seq(S) /\ Len(s \o t) = Len(s) + Len(t)
         /\ \A i \in 1..Len(s) + Len(t) :
              (s \o t)[i] = IF i <= Len(s) THEN s[i] ELSE t[i - Len(s)]
  OBVIOUS

LEMMA SameElements ==
  ASSUME NEW S, NEW s \in Seq(S), NEW t \in Seq(S), Len(s) = Len(t),
         \A i \in 1..Len(s) : s[i] = t[i]
  PROVE  s = t
  OBVIOUS

LEMMA ConcatenatedEmpty ==
  ASSUME NEW S, NEW s \in Seq(S)
  PROVE  s \o <<>> = s /\ <<>> \o s = s
  BY Concatenation, SameElements, EmptyHasNoLength

LEMMA Appended ==
  ASSUME NEW S, NEW s \in Seq(S), NEW e \in S
  PROVE  /\ Append(s, e) \in Seq(S) /\ Len(Append(s, e)) = Len(s) + 1
         /\ \A i \in 1..Len(s) : Append(s, e)[i] = s[i]
         /\ Append(s, e)[Len(s) + 1] = e
  OBVIOUS

(* Stacks.                                                                 *)

\* The innermost frame of a is replaced by the frames of new.
Replaces(a, new) == stack' = [stack EXCEPT ![a] = new \o Tail(@)]

\* The main thread is not one of the workers.
LEMMA MainIsNoWorker == main \notin Worker
  BY DEF main, Worker

\* What becomes of the stacks when the innermost frame of one is replaced.
LEMMA ReplacedStack ==
  ASSUME stack \in [Actor -> Seq(FrameType)], NEW a \in Actor, stack[a] # <<>>,
         NEW STATE new, new \in Seq(FrameType), Replaces(a, new)
  PROVE  /\ stack' \in [Actor -> Seq(FrameType)]
         /\ \A b \in Actor : b # a => stack'[b] = stack[b]
         /\ Len(stack'[a]) = Len(new) + Len(stack[a]) - 1
         /\ \A i \in 1..Len(new) : stack'[a][i] = new[i]
         /\ \A i \in 2..Len(stack[a]) : stack'[a][i + Len(new) - 1] = stack[a][i]
         /\ \A i \in 1..Len(stack'[a]) :
              \/ i \in 1..Len(new)
              \/ \E j \in 2..Len(stack[a]) : i = j + Len(new) - 1
  <1> DEFINE t == Tail(stack[a])
  <1>1. stack[a] \in Seq(FrameType) /\ Len(stack[a]) \in Nat \ {0}
    BY SeqIsFunction, EmptyHasNoLength, Zenon
  <1>2. /\ t \in Seq(FrameType) /\ Len(t) = Len(stack[a]) - 1
        /\ \A i \in 1..Len(t) : t[i] = stack[a][i + 1]
    BY <1>1, HeadAndTail, Zenon
  <1>3. Len(new) \in Nat
    BY SeqIsFunction, Zenon
  <1>4. stack'[a] = new \o t /\ \A b \in Actor : b # a => stack'[b] = stack[b]
    BY Zenon DEF Replaces
  <1> HIDE DEF t
  <1>5. /\ new \o t \in Seq(FrameType) /\ Len(new \o t) = Len(new) + Len(t)
        /\ \A i \in 1..Len(new) + Len(t) :
             (new \o t)[i] = IF i <= Len(new) THEN new[i] ELSE t[i - Len(new)]
    BY <1>2, Concatenation, Zenon
  <1>6. stack' \in [Actor -> Seq(FrameType)]
    <2>1. stack' = [stack EXCEPT ![a] = new \o t]
      BY Zenon DEF Replaces, t
    <2> QED
      BY <2>1, <1>5, Zenon
  <1>7. Len(stack'[a]) = Len(new) + Len(stack[a]) - 1
    BY <1>1, <1>2, <1>3, <1>4, <1>5, Zenon
  <1>8. \A i \in 1..Len(new) : stack'[a][i] = new[i]
    BY <1>1, <1>2, <1>3, <1>4, <1>5
  <1>9. \A i \in 2..Len(stack[a]) : stack'[a][i + Len(new) - 1] = stack[a][i]
    <2> TAKE i \in 2..Len(stack[a])
    <2>1. /\ i + Len(new) - 1 \in 1..Len(new) + Len(t)
          /\ ~(i + Len(new) - 1 <= Len(new))
          /\ (i + Len(new) - 1) - Len(new) = i - 1 /\ i - 1 \in 1..Len(t)
          /\ (i - 1) + 1 = i
      BY <1>1, <1>2, <1>3
    <2> QED
      BY <2>1, <1>2, <1>4, <1>5, Zenon
  <1>10. \A i \in 1..Len(stack'[a]) :
           i \in 1..Len(new) \/ \E j \in 2..Len(stack[a]) : i = j + Len(new) - 1
    <2> TAKE i \in 1..Len(stack'[a])
    <2> SUFFICES ASSUME i \notin 1..Len(new)
                 PROVE  \E j \in 2..Len(stack[a]) : i = j + Len(new) - 1
      BY Zenon
    <2>1. i - Len(new) + 1 \in 2..Len(stack[a]) /\ i = (i - Len(new) + 1) + Len(new) - 1
      BY <1>1, <1>3, <1>7
    <2> QED
      BY <2>1, Zenon
  <1> QED
    BY <1>4, <1>6, <1>7, <1>8, <1>9, <1>10, Zenon

\* A head is the first frame.
LEMMA HeadIsFirst ==
  ASSUME stack \in [Actor -> Seq(FrameType)], NEW a \in Actor, stack[a] # <<>>
  PROVE  /\ Head(stack[a]) = stack[a][1] /\ Head(stack[a]) \in FrameType
         /\ Len(stack[a]) \in Nat /\ 1 \in 1..Len(stack[a])
         /\ Of(a) \in Module
  <1>1. stack[a] \in Seq(FrameType) /\ Len(stack[a]) \in Nat \ {0}
    BY SeqIsFunction, EmptyHasNoLength, Zenon
  <1>2. Head(stack[a]) = stack[a][1] /\ Head(stack[a]) \in FrameType
    BY <1>1, HeadAndTail
  <1> QED
    BY <1>1, <1>2 DEF Of, FrameType

\* The ways to go on are replacements.
LEMMA GotoReplaces ==
  ASSUME stack \in [Actor -> Seq(FrameType)], NEW a \in Actor, stack[a] # <<>>,
         NEW l \in Labels, Goto(a, l)
  PROVE  Replaces(a, <<Frame(l, Of(a))>>) /\ <<Frame(l, Of(a))>> \in Seq(FrameType)
  <1>1. Frame(l, Of(a)) \in FrameType
    BY HeadIsFirst, Zenon DEF Frame, FrameType
  <1>2. <<>> \o <<Frame(l, Of(a))>> = <<Frame(l, Of(a))>>
    BY <1>1, ConcatenatedEmpty
  <1> QED
    BY <1>1, <1>2 DEF Goto, Call, Replaces

LEMMA CallReplaces ==
  ASSUME stack \in [Actor -> Seq(FrameType)], NEW a \in Actor, stack[a] # <<>>,
         NEW l \in Labels, NEW STATE g, g \in FrameType, Call(a, l, <<g>>)
  PROVE  /\ Replaces(a, <<g, Frame(l, Of(a))>>)
         /\ <<g, Frame(l, Of(a))>> \in Seq(FrameType)
  <1>1. Frame(l, Of(a)) \in FrameType
    BY HeadIsFirst, Zenon DEF Frame, FrameType
  <1> DEFINE f == Frame(l, Of(a))
  <1> HIDE DEF f
  <1>2. <<g>> \in Seq(FrameType) /\ <<f>> \in Seq(FrameType)
    BY <1>1 DEF f
  <1>3. <<g, f>> \in Seq(FrameType) /\ Len(<<g, f>>) = 2
    BY <1>1 DEF f
  <1>4. /\ <<g>> \o <<f>> \in Seq(FrameType) /\ Len(<<g>> \o <<f>>) = 2
        /\ (<<g>> \o <<f>>)[1] = g /\ (<<g>> \o <<f>>)[2] = f
    BY <1>2, Concatenation
  <1>5. <<g>> \o <<f>> = <<g, f>>
    <2> DEFINE s == <<g>> \o <<f>>
               t == <<g, f>>
    <2>1. s \in Seq(FrameType) /\ Len(s) = 2 /\ s[1] = g /\ s[2] = f
      BY <1>4, Zenon
    <2>2. t \in Seq(FrameType) /\ Len(t) = 2 /\ t[1] = g /\ t[2] = f
      BY <1>3, Zenon
    <2> HIDE DEF s, t
    <2>3. \A i \in 1..Len(s) : s[i] = t[i]
      BY <2>1, <2>2
    <2>4. s = t
      BY <2>1, <2>2, <2>3, SameElements, Zenon
    <2> QED
      BY <2>4, Zenon DEF s, t
  <1>6. stack' = [stack EXCEPT ![a] = (<<g>> \o <<f>>) \o Tail(@)]
    BY Zenon DEF Call, f
  <1> QED
    BY <1>3, <1>5, <1>6, Zenon DEF Replaces, f

\* Frames that an actor may run may replace others.
LEMMA FramesStayOK ==
  ASSUME stack \in [Actor -> Seq(FrameType)], FramesOK,
         NEW a \in Actor, stack[a] # <<>>,
         NEW STATE new, new \in Seq(FrameType), Replaces(a, new),
         \A i \in 1..Len(new) : May(a, new[i]),
         UNCHANGED <<pipeline, modules, job>>
  PROVE  FramesOK'
  <1>1. \A b \in Actor : \A f : May(b, f) => May(b, f)'
    BY DEF May, MainMay, WorkerMay, Members, Observer, Threaded, Current
  <1>2. SUFFICES ASSUME NEW b \in Actor, NEW i \in 1..Len(stack'[b])
                 PROVE  May(b, stack'[b][i])
    BY <1>1, Zenon DEF FramesOK
  <1>3. CASE b # a
    BY <1>3, ReplacedStack, Zenon DEF FramesOK
  <1>4. CASE b = a
    <2>1. CASE i \in 1..Len(new)
      BY <1>4, <2>1, ReplacedStack
    <2>2. CASE \E j \in 2..Len(stack[a]) : i = j + Len(new) - 1
      <3> PICK j \in 2..Len(stack[a]) : i = j + Len(new) - 1
        BY <2>2, Zenon
      <3>1. stack'[b][i] = stack[a][j] /\ j \in 1..Len(stack[a])
        BY <1>4, ReplacedStack, HeadIsFirst
      <3> QED
        BY <3>1, <1>4, Zenon DEF FramesOK
    <2> QED
      BY <1>4, <2>1, <2>2, ReplacedStack
  <1> QED
    BY <1>3, <1>4, Zenon

\* The loop of a worker stays its outermost function.
LEMMA LoopStaysLast ==
  ASSUME stack \in [Actor -> Seq(FrameType)], LoopIsLast,
         NEW a \in Actor, stack[a] # <<>>,
         NEW STATE new, new \in Seq(FrameType), Replaces(a, new),
         a \in Worker /\ Head(stack[a]).pc \in Looping =>
           \A k \in 1..Len(new) : new[k].pc \in Looping <=> k = Len(new),
         a \in Worker /\ Head(stack[a]).pc \notin Looping =>
           \A k \in 1..Len(new) : new[k].pc \notin Looping
  PROVE  LoopIsLast'
  <1> SUFFICES ASSUME NEW w \in Worker, NEW i \in 1..Len(stack'[w])
               PROVE  stack'[w][i].pc \in Looping <=> i = Len(stack'[w])
    BY Zenon DEF LoopIsLast
  <1>1. CASE w # a
    BY <1>1, ReplacedStack DEF LoopIsLast, Actor
  <1>2. CASE w = a
    <2>1. /\ Len(stack[a]) \in Nat /\ Len(new) \in Nat
          /\ Len(stack'[a]) = Len(new) + Len(stack[a]) - 1
          /\ 1 \in 1..Len(stack[a]) /\ Head(stack[a]) = stack[a][1]
      BY HeadIsFirst, ReplacedStack, SeqIsFunction, Zenon
    <2>2. Head(stack[a]).pc \in Looping <=> Len(stack[a]) = 1
      BY <1>2, <2>1, Zenon DEF LoopIsLast
    <2>3. CASE i \in 1..Len(new)
      <3>1. stack'[w][i] = new[i]
        BY <1>2, <2>3, ReplacedStack
      <3>2. CASE Head(stack[a]).pc \in Looping
        <4> HIDE DEF Looping
        <4>0. Len(stack[a]) = 1
          BY <2>2, <3>2, Zenon
        <4>1. Len(stack'[w]) = Len(new)
          BY <1>2, <2>1, <4>0
        <4>2. new[i].pc \in Looping <=> i = Len(new)
          BY <1>2, <2>3, <3>2, Zenon
        <4> QED
          BY <3>1, <4>1, <4>2, Zenon
      <3>3. CASE Head(stack[a]).pc \notin Looping
        <4>0. Len(stack[a]) # 1
          BY <2>2, <3>3, Zenon
        <4>1. i # Len(stack'[w])
          <5>0. Len(stack[a]) >= 2
            <6>1. \A n \in Nat : 1 \in 1..n /\ n # 1 => n >= 2
              OBVIOUS
            <6> QED
              BY <2>1, <4>0, <6>1, Zenon
          <5>1. i \in Nat /\ i <= Len(new)
            BY <2>1, <2>3
          <5>2. i < Len(stack'[a])
            BY <2>1, <5>0, <5>1
          <5> QED
            BY <1>2, <5>1, <5>2
        <4>2. new[i].pc \notin Looping
          BY <1>2, <2>3, <3>3, Zenon
        <4> QED
          BY <3>1, <4>1, <4>2, Zenon
      <3> QED
        BY <3>2, <3>3, Zenon
    <2>4. CASE \E j \in 2..Len(stack[a]) : i = j + Len(new) - 1
      <3> PICK j \in 2..Len(stack[a]) : i = j + Len(new) - 1
        BY <2>4, Zenon
      <3>1. stack'[w][i] = stack[a][j] /\ j \in 1..Len(stack[a])
        BY <1>2, ReplacedStack, HeadIsFirst
      <3>2. i = Len(stack'[w]) <=> j = Len(stack[a])
        BY <1>2, <2>1
      <3> QED
        BY <1>2, <3>1, <3>2, Zenon DEF LoopIsLast
    <2> QED
      BY <1>2, <2>3, <2>4, ReplacedStack
  <1> QED
    BY <1>1, <1>2, Zenon

\* A frame below the innermost one stays, and a new one is there.
LEMMA PendingStays ==
  ASSUME stack \in [Actor -> Seq(FrameType)], NEW a \in Actor, stack[a] # <<>>,
         NEW STATE new, new \in Seq(FrameType), Replaces(a, new)
  PROVE  /\ \A l \in Labels, m \in Module :
              Pending(l, m) /\ Head(stack[a]) # Frame(l, m) => Pending(l, m)'
         /\ \A l \in Labels, m \in Module, i \in 1..Len(new) :
              new[i] = Frame(l, m) => Pending(l, m)'
  <1>1. ASSUME NEW l \in Labels, NEW m \in Module, Pending(l, m),
               Head(stack[a]) # Frame(l, m)
        PROVE  Pending(l, m)'
    <2> PICK b \in Actor : \E i \in 1..Len(stack[b]) : stack[b][i] = Frame(l, m)
      BY <1>1, Zenon DEF Pending
    <2> PICK i \in 1..Len(stack[b]) : stack[b][i] = Frame(l, m)
      BY Zenon
    <2>1. CASE b # a
      BY <2>1, ReplacedStack DEF Pending, Frame
    <2>2. CASE b = a
      <3>1. i \in 2..Len(stack[a]) /\ Len(new) \in Nat
        BY <1>1, <2>2, HeadIsFirst, SeqIsFunction
      <3>2. stack'[a][i + Len(new) - 1] = Frame(l, m)
        BY <2>2, <3>1, ReplacedStack, Zenon
      <3>3. i + Len(new) - 1 \in 1..Len(stack'[a])
        BY <3>1, ReplacedStack, HeadIsFirst
      <3> QED
        BY <3>2, <3>3, Zenon DEF Pending, Frame
    <2> QED
      BY <2>1, <2>2, Zenon
  <1>2. ASSUME NEW l \in Labels, NEW m \in Module, NEW i \in 1..Len(new),
               new[i] = Frame(l, m)
        PROVE  Pending(l, m)'
    <2>1. Len(new) \in Nat /\ Len(stack[a]) \in Nat /\ 1 \in 1..Len(stack[a])
      BY HeadIsFirst, SeqIsFunction, Zenon
    <2>2. stack'[a][i] = Frame(l, m) /\ i \in 1..Len(stack'[a])
      BY <1>2, <2>1, ReplacedStack
    <2> QED
      BY <2>2, Zenon DEF Pending, Frame
  <1> QED
    BY <1>1, <1>2, Zenon

\* What replaces the innermost frame of a is what a may run, in its place.
Allowed(a, new) ==
  /\ new \in Seq(FrameType)
  /\ \A i \in 1..Len(new) : May(a, new[i])
  /\ \A i \in 2..Len(new) : new[i].pc \in Resuming
  /\ a \in Worker /\ Head(stack[a]).pc \in Looping =>
       \A k \in 1..Len(new) : new[k].pc \in Looping <=> k = Len(new)
  /\ a \in Worker /\ Head(stack[a]).pc \notin Looping =>
       \A k \in 1..Len(new) : new[k].pc \notin Looping

\* Callers go on with what they went on with.
LEMMA CallersStay ==
  ASSUME stack \in [Actor -> Seq(FrameType)], CallersWait,
         NEW a \in Actor, stack[a] # <<>>,
         NEW STATE new, new \in Seq(FrameType), Replaces(a, new),
         \A i \in 2..Len(new) : new[i].pc \in Resuming
  PROVE  CallersWait'
  <1> SUFFICES ASSUME NEW b \in Actor, NEW i \in 2..Len(stack'[b])
               PROVE  stack'[b][i].pc \in Resuming
    BY Zenon DEF CallersWait
  <1>1. CASE b # a
    BY <1>1, ReplacedStack, Zenon DEF CallersWait
  <1>2. CASE b = a
    <2>1. i \in 1..Len(stack'[a])
      BY <1>2
    <2>2. CASE i \in 1..Len(new)
      <3>1. stack'[b][i] = new[i] /\ i \in 2..Len(new)
        BY <1>2, <2>2, ReplacedStack
      <3> QED
        BY <3>1, Zenon
    <2>3. CASE \E j \in 2..Len(stack[a]) : i = j + Len(new) - 1
      <3> PICK j \in 2..Len(stack[a]) : i = j + Len(new) - 1
        BY <2>3, Zenon
      <3>1. stack'[b][i] = stack[a][j]
        BY <1>2, ReplacedStack, Zenon
      <3> QED
        BY <3>1, Zenon DEF CallersWait
    <2> QED
      BY <2>1, <2>2, <2>3, ReplacedStack
  <1> QED
    BY <1>1, <1>2, Zenon

\* The invariant of the stacks survives what is allowed.
LEMMA StackStep ==
  ASSUME StackInv, NEW a \in Actor, stack[a] # <<>>,
         NEW STATE new, Allowed(a, new), Replaces(a, new),
         UNCHANGED <<pipeline, modules, job>>
  PROVE  StackInv'
  <1>1. /\ stack \in [Actor -> Seq(FrameType)] /\ new \in Seq(FrameType)
        /\ FramesOK /\ LoopIsLast /\ CallersWait
    BY Zenon DEF StackInv, Allowed
  <1>2. stack' \in [Actor -> Seq(FrameType)]
    BY <1>1, ReplacedStack, Zenon
  <1>3. FramesOK'
    BY <1>1, FramesStayOK, Zenon DEF Allowed
  <1>4. LoopIsLast'
    BY <1>1, LoopStaysLast, Zenon DEF Allowed
  <1>5. CallersWait'
    BY <1>1, CallersStay, Zenon DEF Allowed
  <1>6. VectorOK'
    BY ZenonT(30) DEF StackInv, VectorOK, Members, Observer, Threaded
  <1>7. JobOK'
    <2>1. stack'[main] # <<>> => stack[main] # <<>>
      BY <1>1, ReplacedStack, Zenon DEF Actor
    <2> QED
      BY <2>1, Zenon DEF StackInv, JobOK
  <1> QED
    BY <1>2, <1>3, <1>4, <1>5, <1>6, <1>7, Zenon DEF StackInv

\* Nothing, one frame, or a call may be what is allowed.
LEMMA AllowedNone ==
  ASSUME NEW a \in Actor
  PROVE  Allowed(a, <<>>)
  BY DEF Allowed

LEMMA AllowedOne ==
  ASSUME NEW a \in Actor, NEW STATE f, f \in FrameType, May(a, f),
         a \in Worker => (Head(stack[a]).pc \in Looping <=> f.pc \in Looping)
  PROVE  Allowed(a, <<f>>)
  <1>1. <<f>> \in Seq(FrameType) /\ Len(<<f>>) = 1 /\ <<f>>[1] = f
    OBVIOUS
  <1> DEFINE new == <<f>>
  <1>2. \A i \in 1..Len(new) : i = 1 /\ i = Len(new) /\ new[i] = f
    BY <1>1
  <1>3. \A i \in 2..Len(new) : FALSE
    BY <1>1
  <1> HIDE DEF new
  <1>4. Allowed(a, new)
    BY <1>1, <1>2, <1>3, Zenon DEF Allowed, new
  <1> QED
    BY <1>4, Zenon DEF new

LEMMA AllowedTwo ==
  ASSUME NEW a \in Actor, NEW STATE g, g \in FrameType, NEW STATE f, f \in FrameType,
         May(a, g), May(a, f), f.pc \in Resuming, g.pc \notin Looping,
         a \in Worker => (Head(stack[a]).pc \in Looping <=> f.pc \in Looping)
  PROVE  Allowed(a, <<g, f>>)
  <1>1. /\ <<g, f>> \in Seq(FrameType) /\ Len(<<g, f>>) = 2
        /\ <<g, f>>[1] = g /\ <<g, f>>[2] = f
    OBVIOUS
  <1> DEFINE new == <<g, f>>
  <1>2. \A i \in 1..Len(new) : \/ i = 1 /\ i # Len(new) /\ new[i] = g
                               \/ i = 2 /\ i = Len(new) /\ new[i] = f
    BY <1>1
  <1>3. \A i \in 2..Len(new) : new[i] = f
    BY <1>1
  <1> HIDE DEF new
  <1>4. Allowed(a, new)
    BY <1>1, <1>2, <1>3, Zenon DEF Allowed, new
  <1> QED
    BY <1>4, Zenon DEF new

\* The innermost frame of an actor after a step.
LEMMA NewHead ==
  ASSUME StackInv, NEW a \in Actor, stack[a] # <<>>,
         NEW STATE new, Allowed(a, new), Replaces(a, new)
  PROVE  /\ new # <<>> => stack'[a] # <<>> /\ Head(stack'[a]) = new[1]
         /\ new = <<>> /\ stack'[a] # <<>> => Head(stack'[a]).pc \in Resuming
         /\ \A b \in Actor : b # a => stack'[b] = stack[b]
         /\ Len(stack'[a]) = Len(new) + Len(stack[a]) - 1
  <1>1. stack \in [Actor -> Seq(FrameType)] /\ new \in Seq(FrameType) /\ CallersWait
    BY Zenon DEF StackInv, Allowed
  <1>2. /\ stack'[a] \in Seq(FrameType) /\ stack[a] \in Seq(FrameType)
        /\ Len(stack[a]) \in Nat /\ Len(stack'[a]) \in Nat /\ Len(new) \in Nat
        /\ Len(stack'[a]) = Len(new) + Len(stack[a]) - 1
        /\ 1 \in 1..Len(stack[a])
    BY <1>1, ReplacedStack, HeadIsFirst, SeqIsFunction, Zenon
  <1>3. ASSUME new # <<>> PROVE stack'[a] # <<>> /\ Head(stack'[a]) = new[1]
    <2>1. Len(new) # 0
      BY <1>1, <1>3, EmptyHasNoLength, Zenon
    <2>2. stack'[a] # <<>> /\ stack'[a][1] = new[1]
      BY <1>1, <1>2, <2>1, ReplacedStack
    <2> QED
      BY <1>2, <2>2, HeadAndTail
  <1>4. ASSUME new = <<>>, stack'[a] # <<>> PROVE Head(stack'[a]).pc \in Resuming
    <2>1. Len(new) = 0
      BY <1>4, Zenon
    <2>2. Len(stack'[a]) # 0
      BY <1>2, <1>4, EmptyHasNoLength, Zenon
    <2>3. 2 \in 2..Len(stack[a])
      <3>1. \A x, y, z \in Nat : y = z + x - 1 /\ z = 0 /\ y # 0 => 2 \in 2..x
        OBVIOUS
      <3> QED
        BY <1>2, <2>1, <2>2, <3>1, Zenon
    <2>4. stack'[a][1] = stack[a][2]
      <3>1. stack'[a][2 + Len(new) - 1] = stack[a][2]
        BY <1>1, <2>3, ReplacedStack, Zenon
      <3> QED
        BY <2>1, <3>1
    <2>5. Head(stack'[a]) = stack'[a][1]
      BY <1>2, <1>4, HeadAndTail
    <2> QED
      BY <1>1, <2>3, <2>4, <2>5, Zenon DEF CallersWait
  <1> QED
    BY <1>1, <1>2, <1>3, <1>4, ReplacedStack, Zenon

\* The observers are modules of the chain.
LEMMA ObserverType ==
  ASSUME ChainAssumption, VectorOK
  PROVE  /\ DOMAIN Observer \subseteq Module
         /\ Observer \in [DOMAIN Observer -> DOMAIN Observer \cup {None}]
         /\ Members \subseteq DOMAIN Observer /\ Members \subseteq Module
         /\ None \notin Module /\ Late \subseteq DOMAIN Observer
         /\ Threaded \cap (Eager \cup Checked) = {}
         /\ Restart => Threaded = {}
         /\ Slots \in Nat \ {0}
  <1>1. pipeline \in Pipelines /\ OrderedChain(pipeline)
    BY Zenon DEF VectorOK, ChainAssumption
  <1> DEFINE all == {pipeline.order[i] : i \in 1..Len(pipeline.order)}
  <1>2. /\ pipeline.late \subseteq all
        /\ pipeline.observer \in [all -> all \cup {None}]
        /\ pipeline.threaded \cap (pipeline.eager \cup pipeline.checked) = {}
        /\ pipeline.restart => pipeline.threaded = {}
    BY <1>1, Zenon DEF OrderedChain
  <1>3. all \subseteq Module
    BY <1>1, Zenon DEF Module
  <1> HIDE DEF all
  <1>4. DOMAIN Observer = all
    BY <1>2, Zenon DEF Observer
  <1>5. Members \subseteq DOMAIN Observer
    BY DEF Members, VectorOK
  <1>6. Slots \in Nat \ {0} /\ None \notin Module
    BY Zenon DEF ChainAssumption
  <1> QED
    BY <1>2, <1>3, <1>4, <1>5, <1>6, Zenon
       DEF Observer, Late, Threaded, Eager, Checked, Restart
-----------------------------------------------------------------------------
(* What a step keeps that only replaces frames.                            *)

\* The frame an actor is at.
LEMMA Acting ==
  ASSUME StackInv, NEW a \in Actor, NEW l, At(a, l)
  PROVE  /\ stack[a] # <<>> /\ Head(stack[a]) = Frame(l, Of(a))
         /\ l \in Labels /\ Of(a) \in Module /\ Of(a) \in Members
         /\ May(a, Frame(l, Of(a)))
         /\ \A k \in Labels : Frame(k, Of(a)) \in FrameType
  <1>1. stack \in [Actor -> Seq(FrameType)] /\ FramesOK /\ stack[a] # <<>>
    BY Zenon DEF StackInv, At
  <1>2. /\ Head(stack[a]) = stack[a][1] /\ Head(stack[a]) \in FrameType
        /\ 1 \in 1..Len(stack[a]) /\ Of(a) \in Module
    BY <1>1, HeadIsFirst, Zenon
  <1>3. Head(stack[a]) = Frame(l, Of(a)) /\ l \in Labels
    BY <1>2, Zenon DEF FrameType, At, Of, Frame
  <1>4. May(a, Frame(l, Of(a)))
    BY <1>1, <1>2, <1>3, Zenon DEF FramesOK
  <1>5. Of(a) \in Members
    BY <1>4, Zenon DEF May, Frame
  <1>6. \A k \in Labels : Frame(k, Of(a)) \in FrameType
    BY <1>2, Zenon DEF Frame, FrameType
  <1> QED
    BY <1>1, <1>2, <1>3, <1>4, <1>5, <1>6, Zenon

\* A worker that runs something is the one its module points at.
LEMMA WorkerIsSet ==
  ASSUME FlagTypes, ThreadsOK, EventsOK, NEW w \in Worker, stack[w] # <<>>
  PROVE  /\ w[1] \in Module /\ w[2] \in 1..Slots /\ w = <<w[1], w[2]>>
         /\ life[w] = "running" /\ thread[w[1]] = w[2] /\ thread[w[1]] # 0
         /\ w[1] \in Threaded /\ w[1] \in use_thread
         /\ ~(job.name = "events" /\ ~pipeline_started)
  <1>1. w[1] \in Module /\ w[2] \in 1..Slots /\ w = <<w[1], w[2]>>
    BY DEF Worker
  <1>2. life[w] = "running" /\ thread[w[1]] = w[2]
    BY Zenon DEF ThreadsOK
  <1>3. thread[w[1]] # 0
    BY <1>1, <1>2
  <1> QED
    BY <1>1, <1>2, <1>3, Zenon DEF ThreadsOK, EventsOK

\* The types follow.
LEMMA TypesFollow ==
  ASSUME IInv
  PROVE  TypeOK
  <1>1. ASSUME NEW a \in Actor, NEW i \in 1..3, i <= Len(stack[a])
        PROVE  stack[a][i].m \in Module
    <2>1. stack[a] \in Seq(FrameType)
      BY Zenon DEF IInv, StackInv
    <2>2. stack[a][i] \in FrameType
      BY <1>1, <2>1, SeqIsFunction
    <2> QED
      BY <2>2, Zenon DEF FrameType
  <1>2. job.name \in {"events", "start", "stop", "poll"}
    BY Zenon DEF IInv, StackInv, JobOK
  <1> QED
    BY <1>1, <1>2, Zenon DEF IInv, FlagTypes, TypeOK

LEMMA ThreadsStay ==
  ASSUME StackInv, ThreadsOK, NEW a \in Actor, stack[a] # <<>>,
         NEW STATE new, Allowed(a, new), Replaces(a, new),
         UNCHANGED <<life, thread, pipeline>>,
         \A m \in Threaded : m \in use_thread => m \in use_thread'
  PROVE  ThreadsOK'
  <1>1. \A w \in Worker : stack'[w] # <<>> => stack[w] # <<>>
    BY NewHead, Zenon DEF Actor
  <1> QED
    BY <1>1, Zenon DEF ThreadsOK, Threaded

\* Nobody loses a wakeup in a step that posts nothing and sets no flag.
LEMMA WakeupStays ==
  ASSUME StackInv, WakeupOK, NEW a \in Actor, stack[a] # <<>>,
         NEW STATE new, Allowed(a, new), Replaces(a, new),
         Head(stack[a]).pc # "post",
         need_update' \subseteq need_update, trigger \subseteq trigger',
         a \in Worker /\ new # <<>> /\ new[1].pc \in {"assert", "wait"} =>
           a[1] \notin need_update \/ At(a, "assert")
  PROVE  WakeupOK'
  <1> SUFFICES ASSUME NEW w \in Worker, At(w, "assert")' \/ At(w, "wait")',
                      w[1] \in need_update'
               PROVE  w[1] \in trigger' \/ \E b \in Actor : At(b, "post")' /\ Of(b)' = w[1]
    BY Zenon DEF WakeupOK
  <1>1. w \in Actor
    BY Zenon DEF Actor
  <1>2. At(w, "assert") \/ At(w, "wait")
    <2>1. CASE w # a
      BY <1>1, <2>1, NewHead, Zenon DEF At
    <2>2. CASE w = a
      <3>1. stack'[a] # <<>> /\ Head(stack'[a]).pc \in {"assert", "wait"}
        BY <2>2, Zenon DEF At
      <3>2. new # <<>>
        BY <3>1, NewHead, Zenon DEF Resuming
      <3>3. new[1].pc \in {"assert", "wait"}
        BY <3>1, <3>2, NewHead, Zenon
      <3> QED
        BY <2>2, <3>2, <3>3, Zenon
    <2> QED
      BY <2>1, <2>2, Zenon
  <1>3. CASE w[1] \in trigger
    BY <1>3, Zenon
  <1>4. CASE \E b \in Actor : At(b, "post") /\ Of(b) = w[1]
    <2> PICK b \in Actor : At(b, "post") /\ Of(b) = w[1]
      BY <1>4, Zenon
    <2>1. b # a
      BY Zenon DEF At
    <2>2. At(b, "post")' /\ Of(b)' = w[1]
      BY <2>1, NewHead, Zenon DEF At, Of
    <2> QED
      BY <2>2, Zenon
  <1> QED
    BY <1>2, <1>3, <1>4, Zenon DEF WakeupOK

\* What a module with data to read waits for.
Cared(m) ==
  \/ m \in need_update
  \/ Pending("notifyUpdate", m) \/ Pending("need_update", m)
  \/ Pending("update", m)
  \/ \E u \in DOMAIN Observer : Observer[u] = m /\ Pending("notifyObservers", u)
Caring == {"notifyUpdate", "need_update", "update", "notifyObservers"}

LEMMA CaredStays ==
  ASSUME ChainAssumption, StackInv, NEW a \in Actor, stack[a] # <<>>,
         NEW STATE new, Allowed(a, new), Replaces(a, new), UNCHANGED pipeline,
         NEW m \in Module, Cared(m), m \in need_update => m \in need_update',
         Head(stack[a]).pc \in {"notifyUpdate", "need_update", "update"} =>
           Head(stack[a]).m # m,
         Head(stack[a]).pc = "notifyObservers" => Observer[Head(stack[a]).m] # m
  PROVE  Cared(m)'
  <1>1. stack \in [Actor -> Seq(FrameType)] /\ new \in Seq(FrameType)
    BY Zenon DEF StackInv, Allowed
  <1>2. {"notifyUpdate", "need_update", "update", "notifyObservers"} \subseteq Labels
    BY Zenon DEF Labels, Notifying, Updating, Pushing
  <1>3. ASSUME NEW l \in {"notifyUpdate", "need_update", "update"}, Pending(l, m)
        PROVE  Pending(l, m)'
    <2>1. Head(stack[a]) # Frame(l, m)
      BY DEF Frame
    <2> QED
      BY <1>1, <1>2, <1>3, <2>1, PendingStays, Zenon
  <1>4. ASSUME NEW u \in DOMAIN Observer, Observer[u] = m, Pending("notifyObservers", u)
        PROVE  Pending("notifyObservers", u)'
    <2>1. Head(stack[a]) # Frame("notifyObservers", u)
      BY <1>4 DEF Frame
    <2>2. u \in Module
      BY <1>4, ObserverType, Zenon DEF StackInv
    <2> QED
      BY <1>1, <1>2, <1>4, <2>1, <2>2, PendingStays, Zenon
  <1>5. Observer' = Observer
    BY Zenon DEF Observer
  <1> QED
    BY <1>3, <1>4, <1>5, Zenon DEF Cared

\* No frame is lost by a step of a function that has no part in it.
LEMMA UpdatesStay ==
  ASSUME ChainAssumption, FlagTypes, StackInv, NoLostUpdate,
         NEW a \in Actor, stack[a] # <<>>,
         NEW STATE new, Allowed(a, new), Replaces(a, new), UNCHANGED pipeline,
         Head(stack[a]).pc \notin Caring,
         need_update \subseteq need_update', owed' \subseteq owed
  PROVE  NoLostUpdate'
  <1>1. ASSUME NEW m \in owed' PROVE Cared(m)'
    <2>1. m \in Module /\ Cared(m)
      BY <1>1, Zenon DEF FlagTypes, NoLostUpdate, Cared
    <2> QED
      BY <2>1, CaredStays, Zenon DEF Caring
  <1> QED
    BY <1>1, Zenon DEF NoLostUpdate, Cared

\* The module the main thread is at.
LEMMA CurrentType ==
  ASSUME ChainAssumption, StackInv, stack[main] # <<>>
  PROVE  /\ job.next - 1 \in 1..Len(modules) /\ Len(modules) \in Nat
         /\ Current \in Members /\ Current \in Module
  <1>1. /\ job.next \in 1..(Len(modules) + 1) /\ job.next >= 2 /\ Len(modules) \in Nat
    BY SeqIsFunction, Zenon DEF StackInv, JobOK, VectorOK
  <1>2. job.next - 1 \in 1..Len(modules)
    BY <1>1
  <1>3. Members \subseteq Module
    BY ObserverType, Zenon DEF StackInv
  <1> QED
    BY <1>1, <1>2, <1>3, Zenon DEF Current, Members

\* What the main thread may go on with in a start or stop request.
Unset == {"start", "use_thread", "new"}
SweepMay(new) ==
  /\ job.name = "start" /\ Current \in Threaded =>
       /\ Len(new) = 1
       /\ new[1].pc \in Unset => Head(stack[main]).pc \in Unset
       /\ new[1].pc = "new" => Current \in use_thread'
  /\ job.name = "stop" =>
       /\ Len(new) = 1
       /\ new[1].pc \in {"stop_update", "stopped"} => thread[Current] = 0
       /\ new[1].pc = "stopped" => Current \notin need_update'
       /\ new[1].pc = "stop_delete" =>
            thread[Current] # 0 /\ life[<<Current, thread[Current]>>] = "done"

LEMMA SweepStays ==
  ASSUME ChainAssumption, FlagTypes, StackInv, EventsOK, StartOK, StopOK,
         NEW a \in Actor, stack[a] # <<>>,
         NEW STATE new, Allowed(a, new), Replaces(a, new),
         UNCHANGED <<is_started, thread, sweep>>, need_update' \subseteq need_update,
         \A w \in Worker : life[w] = "done" => life'[w] = "done",
         \A m \in Threaded : m \in use_thread => m \in use_thread',
         a = main => SweepMay(new)
  PROVE  EventsOK' /\ StartOK' /\ StopOK'
  <1> USE DEF sweep
  <1>1. /\ Threaded' = Threaded /\ Observer' = Observer /\ Members' = Members
        /\ Current' = Current
    BY Zenon DEF Threaded, Observer, Members, Current
  <1>2. EventsOK'
    BY <1>1, Zenon DEF EventsOK
  <1>3. ASSUME stack[main] # <<>>, thread[Current] # 0,
               life[<<Current, thread[Current]>>] = "done"
        PROVE  life'[<<Current, thread[Current]>>] = "done"
    <2>1. thread[Current] \in 1..Slots
      BY <1>3, CurrentType DEF FlagTypes, ChainAssumption
    <2>2. <<Current, thread[Current]>> \in Worker
      BY <1>3, <2>1, CurrentType, Zenon DEF Worker
    <2> QED
      BY <1>3, <2>2, Zenon
  <1>4. CASE a # main
    <2>1. stack'[main] = stack[main]
      BY <1>4, NewHead, Zenon DEF Actor
    <2>2. \A i : Handled(i)' <=> Handled(i)
      BY <2>1, Zenon DEF Handled
    <2>3. StartOK'
      BY <1>1, <2>1, <2>2, Zenon DEF StartOK
    <2>4. StopOK'
      BY <1>1, <1>3, <2>1, <2>2, Zenon DEF StopOK
    <2> QED
      BY <1>2, <2>3, <2>4, Zenon
  <1>5. CASE a = main
    <2>1. /\ stack[main] \in Seq(FrameType) /\ new \in Seq(FrameType)
          /\ stack'[main] \in Seq(FrameType)
          /\ Len(stack[main]) \in Nat /\ Len(new) \in Nat /\ Len(stack'[main]) \in Nat
          /\ Len(stack'[main]) = Len(new) + Len(stack[main]) - 1
      BY <1>5, NewHead, StackStep, SeqIsFunction, Zenon DEF StackInv, Allowed, Actor
    <2>2. Len(new) = 1 => /\ new # <<>> /\ stack'[main] # <<>>
                          /\ stack'[main][1] = new[1]
                          /\ Len(stack'[main]) = Len(stack[main])
      <3> SUFFICES ASSUME Len(new) = 1
                   PROVE  /\ new # <<>> /\ stack'[main] # <<>>
                          /\ stack'[main][1] = new[1]
                          /\ Len(stack'[main]) = Len(stack[main])
        BY Zenon
      <3>1. new # <<>>
        <4>1. Len(<<>>) = 0 /\ 0 # 1
          OBVIOUS
        <4> QED
          BY <4>1, Zenon
      <3>2. stack'[main] # <<>> /\ Head(stack'[main]) = new[1]
        BY <1>5, <3>1, NewHead, Zenon
      <3>3. Head(stack'[main]) = stack'[main][1]
        BY <2>1, <3>2, HeadAndTail
      <3> QED
        BY <2>1, <3>1, <3>2, <3>3
    <2>3. stack[main] # <<>> /\ Head(stack[main]) = stack[main][1]
      BY <1>5, <2>1, HeadAndTail
    <2>4. \A i : Len(new) = 1 => (Handled(i)' <=> Handled(i))
      BY <2>2, <2>3, Zenon DEF Handled
    <2>5. StartOK'
      <3> SUFFICES ASSUME job.name = "start" PROVE StartOK'
        BY Zenon DEF StartOK
      <3>1. CASE Current \in Threaded
        <4>1. /\ Len(new) = 1 /\ (new[1].pc \in Unset => stack[main][1].pc \in Unset)
              /\ new[1].pc = "new" => Current \in use_thread'
          BY <1>5, <2>3, <3>1, Zenon DEF SweepMay
        <4>2. \A i : Handled(i)' <=> Handled(i)
          BY <2>4, <4>1, Zenon
        <4> QED
          BY <1>1, <2>2, <2>3, <4>1, <4>2, Zenon DEF StartOK, Unset
      <3>2. CASE Current \notin Threaded
        <4>1. \A i \in 1..Len(modules) :
                modules[i] \in Threaded /\ Handled(i)' => Handled(i)
          <5> SUFFICES ASSUME NEW i \in 1..Len(modules), modules[i] \in Threaded,
                              Handled(i)'
                       PROVE  Handled(i)
            BY Zenon
          <5>1. i < job.next /\ i # job.next - 1
            BY <3>2, Zenon DEF Handled, Current
          <5> QED
            BY <5>1, Zenon DEF Handled
        <4> QED
          BY <1>1, <3>2, <4>1, Zenon DEF StartOK
      <3> QED
        BY <3>1, <3>2, Zenon
    <2>6. StopOK'
      <3> SUFFICES ASSUME job.name = "stop" PROVE StopOK'
        BY Zenon DEF StopOK
      <3>1. /\ Len(new) = 1
            /\ new[1].pc \in {"stop_update", "stopped"} => thread[Current] = 0
            /\ new[1].pc = "stopped" => Current \notin need_update'
            /\ new[1].pc = "stop_delete" =>
                 thread[Current] # 0 /\ life[<<Current, thread[Current]>>] = "done"
        BY <1>5, Zenon DEF SweepMay
      <3>2. \A i : Handled(i)' <=> Handled(i)
        BY <2>4, <3>1, Zenon
      <3>3. stack'[main] # <<>> =>
              /\ Len(stack'[main]) = 1
              /\ stack'[main][1].pc \in {"stop_update", "stopped"} => thread[Current] = 0
              /\ stack'[main][1].pc = "stopped" => Current \notin need_update'
              /\ stack'[main][1].pc = "stop_delete" =>
                   thread[Current] # 0 /\ life'[<<Current, thread[Current]>>] = "done"
        BY <1>3, <2>2, <2>3, <3>1, Zenon DEF StopOK
      <3> QED
        BY <1>1, <3>2, <3>3, Zenon DEF StopOK
    <2> QED
      BY <1>2, <2>5, <2>6, Zenon
  <1> QED
    BY <1>4, <1>5, Zenon

\* A step that changes no flag the requests look at.
LEMMA QuietKeeps ==
  ASSUME ChainAssumption, IInv, NEW a \in Actor, stack[a] # <<>>,
         NEW STATE new, Allowed(a, new), Replaces(a, new),
         UNCHANGED <<is_started, thread, life, sweep>>, need_update' \subseteq need_update,
         FlagTypes', trigger \subseteq trigger',
         \A m \in Threaded : m \in use_thread => m \in use_thread',
         Head(stack[a]).pc # "post",
         a \in Worker /\ new # <<>> /\ new[1].pc \in {"assert", "wait"} =>
           a[1] \notin need_update \/ At(a, "assert"),
         a = main => SweepMay(new),
         NoLostUpdate'
  PROVE  IInv'
  <1> USE DEF IInv
  <1>1. StackInv'
    BY StackStep, Zenon DEF sweep
  <1>2. ThreadsOK'
    BY ThreadsStay, Zenon DEF sweep
  <1>3. EventsOK' /\ StartOK' /\ StopOK'
    BY SweepStays, Zenon
  <1>4. WakeupOK'
    BY WakeupStays, Zenon
  <1> QED
    BY <1>1, <1>2, <1>3, <1>4, Zenon

\* The same for the ways a function goes on.
LEMMA GotoKeeps ==
  ASSUME ChainAssumption, IInv, NEW a \in Actor, NEW k, NEW l \in Labels,
         At(a, k), Goto(a, l), k # "post",
         UNCHANGED <<is_started, thread, life, sweep>>, need_update' \subseteq need_update,
         FlagTypes', trigger \subseteq trigger',
         \A m \in Threaded : m \in use_thread => m \in use_thread',
         May(a, Frame(l, Of(a))), a \in Worker => (k \in Looping <=> l \in Looping),
         a \in Worker /\ l \in {"assert", "wait"} =>
           a[1] \notin need_update \/ k = "assert",
         a = main => SweepMay(<<Frame(l, Of(a))>>),
         (k \notin Caring /\ UNCHANGED need_update /\ owed' \subseteq owed) \/ NoLostUpdate'
  PROVE  IInv'
  <1> DEFINE f == Frame(l, Of(a))
  <1>1. stack[a] # <<>> /\ Head(stack[a]).pc = k /\ f \in FrameType /\ f.pc = l
    BY Acting, Zenon DEF IInv, Frame, At
  <1>2. Replaces(a, <<f>>) /\ <<f>> # <<>> /\ <<f>>[1] = f
    BY <1>1, GotoReplaces, Zenon DEF IInv, StackInv
  <1>3. Allowed(a, <<f>>)
    BY <1>1, AllowedOne, Zenon
  <1>4. NoLostUpdate'
    BY <1>1, <1>2, <1>3, UpdatesStay, Zenon DEF IInv, sweep
  <1> QED
    BY <1>1, <1>2, <1>3, <1>4, QuietKeeps, Zenon DEF At

LEMMA CallKeeps ==
  ASSUME ChainAssumption, IInv, NEW a \in Actor, NEW k, NEW l \in Labels \cap Resuming,
         NEW STATE g, g \in FrameType,
         At(a, k), Call(a, l, <<g>>), k # "post",
         UNCHANGED <<is_started, thread, life, sweep>>, need_update' \subseteq need_update,
         FlagTypes', trigger \subseteq trigger',
         \A m \in Threaded : m \in use_thread => m \in use_thread',
         May(a, Frame(l, Of(a))), a \in Worker => (k \in Looping <=> l \in Looping),
         May(a, g), g.pc \notin Looping,
         a = main => SweepMay(<<g, Frame(l, Of(a))>>),
         (k \notin Caring /\ UNCHANGED need_update /\ owed' \subseteq owed) \/ NoLostUpdate'
  PROVE  IInv'
  <1> DEFINE f == Frame(l, Of(a))
  <1>1. stack[a] # <<>> /\ Head(stack[a]).pc = k /\ f \in FrameType /\ f.pc = l
    BY Acting, Zenon DEF IInv, Frame, At
  <1>2. Replaces(a, <<g, f>>) /\ <<g, f>> # <<>> /\ <<g, f>>[1] = g
    BY <1>1, CallReplaces, Zenon DEF IInv, StackInv
  <1>3. Allowed(a, <<g, f>>)
    BY <1>1, AllowedTwo, Zenon
  <1>4. NoLostUpdate'
    BY <1>1, <1>2, <1>3, UpdatesStay, Zenon DEF IInv, sweep
  <1>5. g.pc \notin {"assert", "wait"}
    BY Zenon DEF Looping
  <1> QED
    BY <1>1, <1>2, <1>3, <1>4, <1>5, QuietKeeps, Zenon DEF At

LEMMA ReturnKeeps ==
  ASSUME ChainAssumption, IInv, NEW a \in Actor, NEW k, At(a, k), Return(a), k # "post",
         UNCHANGED <<is_started, thread, life, sweep>>, need_update' \subseteq need_update,
         FlagTypes', trigger \subseteq trigger',
         \A m \in Threaded : m \in use_thread => m \in use_thread',
         a = main => job.name \notin {"start", "stop"},
         (k \notin Caring /\ UNCHANGED need_update /\ owed' \subseteq owed) \/ NoLostUpdate'
  PROVE  IInv'
  <1>1. stack[a] # <<>> /\ Head(stack[a]).pc = k
    BY Zenon DEF At
  <1>2. Replaces(a, <<>>)
    BY Zenon DEF Return, Leave, Replaces
  <1>3. Allowed(a, <<>>)
    BY AllowedNone, Zenon
  <1>4. NoLostUpdate'
    BY <1>1, <1>2, <1>3, UpdatesStay, Zenon DEF IInv, sweep
  <1>5. a = main => SweepMay(<<>>)
    BY Zenon DEF SweepMay
  <1> QED
    BY <1>1, <1>2, <1>3, <1>4, <1>5, QuietKeeps, Zenon

\* Leaving with a notifyUpdate() still to run.
LEMMA LeaveKeeps ==
  ASSUME ChainAssumption, IInv, NEW a \in Actor, NEW k, NEW STATE g, g \in FrameType,
         At(a, k), Leave(a, <<g>>), k # "post", k \notin Looping,
         UNCHANGED <<is_started, thread, life, sweep>>, need_update' \subseteq need_update,
         FlagTypes', trigger \subseteq trigger',
         \A m \in Threaded : m \in use_thread => m \in use_thread',
         May(a, g), g.pc \notin Looping,
         a = main => job.name \notin {"start", "stop"},
         (k \notin Caring /\ UNCHANGED need_update /\ owed' \subseteq owed) \/ NoLostUpdate'
  PROVE  IInv'
  <1>1. stack[a] # <<>> /\ Head(stack[a]).pc = k
    BY Zenon DEF At
  <1>2. Replaces(a, <<g>>) /\ <<g>> # <<>> /\ <<g>>[1] = g
    BY Zenon DEF Leave, Replaces
  <1>3. Allowed(a, <<g>>)
    BY <1>1, AllowedOne, Zenon
  <1>4. NoLostUpdate'
    BY <1>1, <1>2, <1>3, UpdatesStay, Zenon DEF IInv, sweep
  <1>5. a = main => SweepMay(<<g>>)
    BY Zenon DEF SweepMay
  <1>6. g.pc \notin {"assert", "wait"}
    BY Zenon DEF Looping
  <1> QED
    BY <1>1, <1>2, <1>3, <1>4, <1>5, <1>6, QuietKeeps, Zenon

\* The module that the innermost function sees to is still seen to.
LEMMA UpdatesMove ==
  ASSUME ChainAssumption, FlagTypes, StackInv, NoLostUpdate,
         NEW a \in Actor, stack[a] # <<>>,
         NEW STATE new, Allowed(a, new), Replaces(a, new), UNCHANGED pipeline,
         NEW c \in Module,
         Head(stack[a]).pc \in {"notifyUpdate", "need_update", "update"} =>
           Head(stack[a]).m = c,
         Head(stack[a]).pc = "notifyObservers" => Observer[Head(stack[a]).m] = c,
         \A m \in Module : m # c /\ m \in need_update => m \in need_update',
         owed' \subseteq owed \cup {c}, Cared(c)' \/ c \notin owed'
  PROVE  NoLostUpdate'
  <1>1. ASSUME NEW m \in owed' PROVE Cared(m)'
    <2>1. CASE m = c
      BY <1>1, <2>1, Zenon
    <2>2. CASE m # c
      <3>1. m \in Module /\ Cared(m)
        BY <1>1, <2>2, Zenon DEF FlagTypes, NoLostUpdate, Cared
      <3>2. m \in need_update => m \in need_update'
        BY <2>2, <3>1, Zenon
      <3>3. /\ Head(stack[a]).pc \in {"notifyUpdate", "need_update", "update"} =>
                 Head(stack[a]).m # m
            /\ Head(stack[a]).pc = "notifyObservers" => Observer[Head(stack[a]).m] # m
        BY <2>2, Zenon
      <3> QED
        BY <3>1, <3>2, <3>3, CaredStays, Zenon
    <2> QED
      BY <2>1, <2>2, Zenon
  <1> QED
    BY <1>1, Zenon DEF NoLostUpdate, Cared

\* A function that is called from now on sees to its module.
LEMMA NewIsPending ==
  ASSUME StackInv, NEW a \in Actor, stack[a] # <<>>,
         NEW STATE new, Allowed(a, new), Replaces(a, new),
         NEW l \in Labels, NEW m \in Module, NEW i \in 1..Len(new),
         new[i] = Frame(l, m)
  PROVE  Pending(l, m)'
  BY PendingStays, Zenon DEF StackInv, Allowed
-----------------------------------------------------------------------------
(* The steps of start() and stop() that change no flag the requests look   *)
(* at.  A worker runs start() and stop() only for modules without a        *)
(* thread, and so does the main thread in a poll; in a start request it    *)
(* runs no stop() and no notifyUpdate() of a module with a thread.         *)

LEMMA StartEnterKeeps ==
  ASSUME ChainAssumption, IInv, NEW a \in Actor, start_enter(a)
  PROVE  IInv'
  <1> DEFINE m == Of(a)
             f == Frame("use_thread", m)
             g == Frame("stop", m)
  <1>1. /\ At(a, "start") /\ UNCHANGED <<flags, workers, sweep, mtx, owed>>
        /\ \/ m \in Eager /\ Call(a, "use_thread", <<g>>)
           \/ Goto(a, "use_thread")
    BY Zenon DEF start_enter
  <1>2. May(a, Frame("start", m)) /\ \A k \in Labels : Frame(k, m) \in FrameType
    BY <1>1, Acting, Zenon DEF IInv
  <1>3. Head(stack[a]).pc = "start"
    BY <1>1, Zenon DEF At
  <1>4. /\ May(a, f) /\ "use_thread" \in Labels \cap Resuming /\ "start" \notin Caring
        /\ "start" \notin Looping /\ "use_thread" \notin Looping
    BY <1>2, Zenon DEF May, MainMay, WorkerMay, Frame, Labels, Starting, Creating, Ending,
       Joining, Updating, Pushing, Looping, Polling, Resuming, Caring
  <1>5. FlagTypes'
    BY <1>1, Zenon DEF IInv, FlagTypes, flags, workers, sweep
  <1>6. CASE Goto(a, "use_thread")
    <2>1. a = main => SweepMay(<<f>>)
      BY <1>2, <1>3, Zenon DEF SweepMay, May, MainMay, Frame, Unset, Ending, Joining
    <2> QED
      BY <1>1, <1>4, <1>5, <1>6, <2>1, GotoKeeps, Zenon DEF flags, workers
  <1>7. CASE m \in Eager /\ Call(a, "use_thread", <<g>>)
    <2>1. m \notin Threaded
      BY <1>7, ObserverType, Zenon DEF IInv, StackInv
    <2>2. May(a, g) /\ g \in FrameType /\ g.pc \notin Looping
      BY <1>2, <2>1, Zenon
         DEF May, MainMay, WorkerMay, Frame, Labels, Starting, Creating, Ending,
         Joining, Updating, Pushing, Looping, Polling
    <2>3. a = main => SweepMay(<<g, f>>)
      BY <1>2, <2>1, Zenon DEF SweepMay, May, MainMay, Frame, Ending, Joining
    <2> QED
      BY <1>1, <1>4, <1>5, <1>7, <2>2, <2>3, CallKeeps, Zenon DEF flags, workers
  <1> QED
    BY <1>1, <1>6, <1>7, Zenon

LEMMA StartUseThreadKeeps ==
  ASSUME ChainAssumption, IInv, NEW a \in Actor, start_use_thread(a)
  PROVE  IInv'
  <1> DEFINE m == Of(a)
  <1>1. /\ At(a, "use_thread")
        /\ UNCHANGED <<is_started, need_update, thread, trigger, workers, sweep, mtx, owed>>
        /\ \/ m \in Threaded /\ use_thread' = use_thread \cup {m} /\ Goto(a, "new")
           \/ m \notin Threaded /\ use_thread' = use_thread \ {m} /\ Goto(a, "started")
    BY Zenon DEF start_use_thread
  <1>2. May(a, Frame("use_thread", m)) /\ m \in Module
    BY <1>1, Acting, Zenon DEF IInv
  <1>3. Head(stack[a]).pc = "use_thread"
    BY <1>1, Zenon DEF At
  <1>4. /\ {"new", "started"} \subseteq Labels /\ "use_thread" \notin Caring
        /\ "use_thread" \notin Looping /\ "new" \notin Looping /\ "started" \notin Looping
    BY Zenon DEF Labels, Starting, Creating, Looping, Caring
  <1>5. FlagTypes'
    BY <1>1, <1>2, Zenon DEF IInv, FlagTypes, workers, sweep
  <1>6. CASE m \in Threaded /\ use_thread' = use_thread \cup {m} /\ Goto(a, "new")
    <2>1. May(a, Frame("new", m))
      BY <1>2, <1>6, Zenon DEF May, MainMay, WorkerMay, Frame, Starting, Creating, Ending,
         Joining, Updating, Pushing, Looping, Polling
    <2>2. a = main => SweepMay(<<Frame("new", m)>>)
      BY <1>2, <1>3, <1>6, Zenon DEF SweepMay, May, MainMay, Frame, Unset, Ending, Joining
    <2> QED
      BY <1>1, <1>4, <1>5, <1>6, <2>1, <2>2, GotoKeeps, Zenon DEF workers
  <1>7. CASE m \notin Threaded /\ use_thread' = use_thread \ {m} /\ Goto(a, "started")
    <2>1. May(a, Frame("started", m))
      BY <1>2, <1>7, Zenon DEF May, MainMay, WorkerMay, Frame, Starting, Creating, Ending,
         Joining, Updating, Pushing, Looping, Polling
    <2>2. a = main => SweepMay(<<Frame("started", m)>>)
      BY <1>2, <1>7, Zenon DEF SweepMay, May, MainMay, Frame, Ending, Joining
    <2> QED
      BY <1>1, <1>4, <1>5, <1>7, <2>1, <2>2, GotoKeeps, Zenon DEF workers
  <1> QED
    BY <1>1, <1>6, <1>7, Zenon

LEMMA StopQuitKeeps ==
  ASSUME ChainAssumption, IInv, NEW a \in Actor, stop_quit(a)
  PROVE  IInv'
  <1> DEFINE m == Of(a)
  <1>1. /\ At(a, "stop") /\ UNCHANGED <<flags, life, sweep, mtx, owed>>
        /\ \/ /\ m \in use_thread /\ thread[m] # 0
              /\ want_quit' = want_quit \cup {<<m, thread[m]>>} /\ Goto(a, "stop_post")
           \/ /\ ~(m \in use_thread /\ thread[m] # 0)
              /\ Goto(a, "stop_update") /\ UNCHANGED want_quit
    BY Zenon DEF stop_quit
  <1>2. May(a, Frame("stop", m)) /\ m \in Module
    BY <1>1, Acting, Zenon DEF IInv
  <1>4. /\ {"stop_post", "stop_update"} \subseteq Labels /\ "stop" \notin Caring
        /\ "stop" \notin Looping /\ "stop_post" \notin Looping /\ "stop_update" \notin Looping
    BY Zenon DEF Labels, Ending, Joining, Looping, Caring
  <1>6. CASE /\ m \in use_thread /\ thread[m] # 0
             /\ want_quit' = want_quit \cup {<<m, thread[m]>>} /\ Goto(a, "stop_post")
    <2>1. m \in Threaded
      BY <1>2, <1>6, Zenon DEF IInv, ThreadsOK
    <2>2. <<m, thread[m]>> \in Worker
      BY <1>2, <1>6 DEF Worker, IInv, FlagTypes, ChainAssumption
    <2>3. FlagTypes'
      BY <1>1, <1>6, <2>2, Zenon DEF IInv, FlagTypes, flags, sweep
    <2>4. May(a, Frame("stop_post", m))
      BY <1>2, <2>1, Zenon DEF May, MainMay, WorkerMay, Frame, Starting, Creating, Ending,
         Joining, Updating, Pushing, Looping, Polling
    <2>5. a = main => SweepMay(<<Frame("stop_post", m)>>)
      BY <1>2, <2>1, Zenon DEF SweepMay, May, MainMay, Frame, Starting, Creating
    <2> QED
      BY <1>1, <1>4, <1>6, <2>3, <2>4, <2>5, GotoKeeps, Zenon DEF flags
  <1>7. CASE /\ ~(m \in use_thread /\ thread[m] # 0)
             /\ Goto(a, "stop_update") /\ UNCHANGED want_quit
    <2>1. thread[m] = 0
      BY <1>2, <1>7, Zenon DEF IInv, ThreadsOK
    <2>2. FlagTypes'
      BY <1>1, <1>7, Zenon DEF IInv, FlagTypes, flags, sweep
    <2>3. May(a, Frame("stop_update", m))
      BY <1>2, Zenon DEF May, MainMay, WorkerMay, Frame, Starting, Creating, Ending,
         Joining, Updating, Pushing, Looping, Polling
    <2>4. a = main => SweepMay(<<Frame("stop_update", m)>>)
      BY <1>2, <2>1, Zenon DEF SweepMay, May, MainMay, Frame, Starting, Creating, Ending
    <2> QED
      BY <1>1, <1>4, <1>7, <2>2, <2>3, <2>4, GotoKeeps, Zenon DEF flags
  <1> QED
    BY <1>1, <1>6, <1>7, Zenon

\* Only a stop request waits for threads.
LEMMA JoiningIsStop ==
  ASSUME StackInv, NEW a \in Actor, NEW l \in Joining, At(a, l)
  PROVE  a = main /\ job.name = "stop" /\ Of(a) = Current /\ Current \in Threaded
  <1>1. May(a, Frame(l, Of(a))) /\ Frame(l, Of(a)).pc = l /\ Frame(l, Of(a)).m = Of(a)
    BY Acting, Zenon DEF Frame
  <1>2. a = main
    BY <1>1, Zenon DEF May, WorkerMay
  <1>3. MainMay(Frame(l, Of(a))) /\ job.name \in {"events", "start", "stop", "poll"}
    BY <1>1, <1>2, Zenon DEF May, StackInv, JobOK
  <1>4. l \notin Starting \cup Creating \cup Ending \cup Notifying
    BY Zenon DEF Starting, Creating, Ending, Notifying, Joining
  <1> QED
    BY <1>1, <1>2, <1>3, <1>4, Zenon DEF MainMay

LEMMA StopPostKeeps ==
  ASSUME ChainAssumption, IInv, NEW a \in Actor, stop_post(a)
  PROVE  IInv'
  <1> DEFINE m == Of(a)
  <1>1. /\ At(a, "stop_post") /\ Goto(a, "waitfor") /\ trigger' = trigger \cup {m}
        /\ UNCHANGED <<is_started, need_update, use_thread, thread, workers, sweep, mtx, owed>>
    BY Zenon DEF stop_post
  <1>2. May(a, Frame("stop_post", m)) /\ m \in Module
    BY <1>1, Acting, Zenon DEF IInv
  <1>3. /\ "waitfor" \in Labels /\ "stop_post" \notin Caring
        /\ "stop_post" \notin Looping /\ "waitfor" \notin Looping
    BY Zenon DEF Labels, Joining, Looping, Caring
  <1>4. FlagTypes'
    BY <1>1, <1>2, Zenon DEF IInv, FlagTypes, workers, sweep
  <1>5. May(a, Frame("waitfor", m))
    BY <1>2, Zenon DEF May, MainMay, WorkerMay, Frame, Starting, Creating, Ending,
       Joining, Notifying, Updating, Pushing, Looping, Polling
  <1>6. a = main => SweepMay(<<Frame("waitfor", m)>>)
    <2>1. StackInv /\ "stop_post" \in Joining
      BY Zenon DEF IInv, Joining
    <2>2. job.name = "stop" /\ m = Current
      BY <1>1, <2>1, JoiningIsStop, Zenon
    <2> QED
      BY <1>1, <2>2, Zenon DEF SweepMay, Frame
  <1> QED
    BY <1>1, <1>3, <1>4, <1>5, <1>6, GotoKeeps, Zenon DEF workers

LEMMA StopWaitforKeeps ==
  ASSUME ChainAssumption, IInv, NEW a \in Actor, stop_waitfor(a)
  PROVE  IInv'
  <1> DEFINE m == Of(a)
  <1>1. /\ At(a, "waitfor") /\ Goto(a, "stop_delete")
        /\ thread[m] # 0 /\ life[<<m, thread[m]>>] = "done"
        /\ UNCHANGED <<flags, workers, sweep, mtx, owed>>
    BY Zenon DEF stop_waitfor
  <1>2. May(a, Frame("waitfor", m)) /\ m \in Module
    BY <1>1, Acting, Zenon DEF IInv
  <1>3. /\ "stop_delete" \in Labels /\ "waitfor" \notin Caring
        /\ "stop_delete" \notin Looping /\ "waitfor" \notin Looping
    BY Zenon DEF Labels, Joining, Looping, Caring
  <1>4. FlagTypes'
    BY <1>1, <1>2, Zenon DEF IInv, FlagTypes, flags, workers, sweep
  <1>5. May(a, Frame("stop_delete", m))
    BY <1>2, Zenon DEF May, MainMay, WorkerMay, Frame, Starting, Creating, Ending,
       Joining, Notifying, Updating, Pushing, Looping, Polling
  <1>6. a = main => SweepMay(<<Frame("stop_delete", m)>>)
    <2>1. StackInv /\ "waitfor" \in Joining
      BY Zenon DEF IInv, Joining
    <2>2. job.name = "stop" /\ m = Current
      BY <1>1, <2>1, JoiningIsStop, Zenon
    <2> QED
      BY <1>1, <2>2, Zenon DEF SweepMay, Frame
  <1> QED
    BY <1>1, <1>3, <1>4, <1>5, <1>6, GotoKeeps, Zenon DEF flags, workers
-----------------------------------------------------------------------------
(* The steps of notifyUpdate(), update() and push().                       *)

\* A function that sees to module c calls another one that does.
LEMMA UpdatesPassedOn ==
  ASSUME ChainAssumption, IInv, NEW a \in Actor, stack[a] # <<>>,
         NEW STATE new, Allowed(a, new), Replaces(a, new), UNCHANGED pipeline,
         NEW c \in Module, NEW i \in 1..Len(new),
         Head(stack[a]).pc \in {"notifyUpdate", "need_update", "update"} =>
           Head(stack[a]).m = c,
         Head(stack[a]).pc = "notifyObservers" => Observer[Head(stack[a]).m] = c,
         \A m \in Module : m # c /\ m \in need_update => m \in need_update',
         owed' \subseteq owed \cup {c},
         \/ new[i] \in {Frame("notifyUpdate", c), Frame("need_update", c), Frame("update", c)}
         \/ \E u \in DOMAIN Observer :
              Observer[u] = c /\ new[i] = Frame("notifyObservers", u)
  PROVE  NoLostUpdate'
  <1>1. FlagTypes /\ StackInv /\ NoLostUpdate /\ VectorOK
    BY Zenon DEF IInv, StackInv
  <1>2. Observer' = Observer
    BY Zenon DEF Observer
  <1>3. Caring \subseteq Labels
    BY Zenon DEF Caring, Labels, Notifying, Updating, Pushing
  <1>4. Cared(c)'
    <2>1. ASSUME NEW l \in {"notifyUpdate", "need_update", "update"}, new[i] = Frame(l, c)
          PROVE  Pending(l, c)'
      BY <1>1, <1>3, <2>1, NewIsPending, Zenon DEF Caring
    <2>2. ASSUME NEW u \in DOMAIN Observer, Observer[u] = c,
                 new[i] = Frame("notifyObservers", u)
          PROVE  Pending("notifyObservers", u)'
      BY <1>1, <1>3, <2>2, NewIsPending, ObserverType, Zenon DEF Caring
    <2> QED
      BY <1>2, <2>1, <2>2, Zenon DEF Cared
  <1> QED
    BY <1>1, <1>4, UpdatesMove, Zenon

\* A module with a thread that is notified is started already.
LEMMA NotifiedIsStarted ==
  ASSUME ChainAssumption, IInv, NEW a \in Actor, At(a, "notifyUpdate"),
         Of(a) \in Threaded
  PROVE  Of(a) \in is_started
  <1> DEFINE m == Of(a)
             f == Frame("notifyUpdate", m)
  <1>1. /\ FlagTypes /\ StackInv /\ ThreadsOK /\ EventsOK /\ StopOK
        /\ job.name \in {"events", "start", "stop", "poll"}
    BY Zenon DEF IInv, StackInv, JobOK
  <1>2. stack[a] # <<>> /\ May(a, f) /\ f.pc = "notifyUpdate" /\ f.m = m
    BY <1>1, Acting, Zenon DEF Frame
  <1>3. CASE a = main
    <2>1. job.name = "poll"
      BY <1>1, <1>2, <1>3, Zenon DEF May, MainMay, Starting, Creating, Ending, Joining
    <2> QED
      BY <1>1, <2>1, Zenon DEF EventsOK
  <1>4. CASE a # main
    <2>1. a \in Worker /\ WorkerMay(a[1], f)
      BY <1>2, <1>4, Zenon DEF Actor, May
    <2>2. /\ thread[a[1]] # 0 /\ a[1] \in Threaded
          /\ ~(job.name = "events" /\ ~pipeline_started)
      BY <1>1, <1>2, <2>1, WorkerIsSet, Zenon
    <2>3. job.name # "start" /\ (m = a[1] \/ m = Observer[a[1]])
      BY <1>2, <2>1, Zenon DEF WorkerMay, Looping
    <2>4. CASE job.name = "stop"
      BY <1>1, <2>2, <2>3, <2>4, SMTT(30) DEF StopOK
    <2>5. CASE job.name # "stop"
      BY <1>1, <2>2, <2>3, <2>5, Zenon DEF EventsOK
    <2> QED
      BY <2>4, <2>5, Zenon
  <1> QED
    BY <1>3, <1>4, Zenon

LEMMA NotifyStartKeeps ==
  ASSUME ChainAssumption, IInv, NEW a \in Actor, notifyUpdate_start(a)
  PROVE  IInv'
  <1> DEFINE f == Frame("need_update", Of(a))
             g == Frame("start", Of(a))
  <1>1. /\ At(a, "notifyUpdate") /\ UNCHANGED <<flags, workers, sweep, mtx, owed>>
        /\ \/ Goto(a, "need_update")
           \/ Of(a) \notin is_started /\ Call(a, "need_update", <<g>>)
    BY Zenon DEF notifyUpdate_start
  <1>2. /\ stack[a] # <<>> /\ May(a, Frame("notifyUpdate", Of(a))) /\ Of(a) \in Module
        /\ \A k \in Labels : Frame(k, Of(a)) \in FrameType
        /\ Head(stack[a]) = Frame("notifyUpdate", Of(a))
    BY <1>1, Acting, Zenon DEF IInv
  <1> PICK m \in Module : m = Of(a)
    BY <1>2, Zenon
  <1>3. Head(stack[a]).pc = "notifyUpdate" /\ Head(stack[a]).m = m
    BY <1>2 DEF Frame
  <1>4. /\ May(a, f) /\ "need_update" \in Labels \cap Resuming /\ f \in FrameType
        /\ "notifyUpdate" \notin Looping /\ "need_update" \notin Looping
        /\ f.pc = "need_update"
    BY <1>2, Zenon DEF May, MainMay, WorkerMay, Frame, Labels, Starting, Creating, Ending,
       Joining, Notifying, Updating, Pushing, Looping, Polling, Resuming
  <1>5. FlagTypes' /\ stack \in [Actor -> Seq(FrameType)]
    BY <1>1, Zenon DEF IInv, StackInv, FlagTypes, flags, workers, sweep
  <1>6. ASSUME NEW STATE new, Allowed(a, new), Replaces(a, new),
               NEW i \in 1..Len(new), new[i] = f
        PROVE  NoLostUpdate'
    BY <1>1, <1>2, <1>3, <1>6, UpdatesPassedOn, Zenon DEF flags, sweep
  <1>7. CASE Goto(a, "need_update")
    <2>1. Replaces(a, <<f>>)
      BY <1>2, <1>4, <1>5, <1>7, GotoReplaces, Zenon
    <2>2. Allowed(a, <<f>>)
      BY <1>3, <1>4, AllowedOne, Zenon
    <2>3. 1 \in 1..Len(<<f>>) /\ <<f>>[1] = f
      OBVIOUS
    <2>4. NoLostUpdate'
      BY <1>6, <2>1, <2>2, <2>3, Zenon
    <2>5. a = main => SweepMay(<<f>>)
      BY <1>2, Zenon
         DEF SweepMay, May, MainMay, Frame, Starting, Creating, Ending, Joining
    <2> QED
      BY <1>1, <1>4, <1>5, <1>7, <2>4, <2>5, GotoKeeps, Zenon DEF flags, workers
  <1>8. CASE Of(a) \notin is_started /\ Call(a, "need_update", <<g>>)
    <2>1. Of(a) \notin Threaded
      BY <1>1, <1>8, NotifiedIsStarted, Zenon
    <2>2. May(a, g) /\ g \in FrameType /\ g.pc \notin Looping
      BY <1>2, <2>1, Zenon
         DEF May, MainMay, WorkerMay, Frame, Labels, Starting, Creating, Ending,
         Joining, Notifying, Updating, Pushing, Looping, Polling
    <2>3. Replaces(a, <<g, f>>)
      BY <1>2, <1>4, <1>5, <1>8, <2>2, CallReplaces, Zenon
    <2>4. Allowed(a, <<g, f>>)
      BY <1>3, <1>4, <2>2, AllowedTwo, Zenon
    <2>5. 2 \in 1..Len(<<g, f>>) /\ <<g, f>>[2] = f
      OBVIOUS
    <2>6. NoLostUpdate'
      BY <1>6, <2>3, <2>4, <2>5, Zenon
    <2>7. a = main => SweepMay(<<g, f>>)
      BY <1>2, <2>1, Zenon
         DEF SweepMay, May, MainMay, Frame, Starting, Creating, Ending, Joining
    <2> QED
      BY <1>1, <1>4, <1>5, <1>8, <2>2, <2>6, <2>7, CallKeeps, Zenon DEF flags, workers
  <1> QED
    BY <1>1, <1>7, <1>8, Zenon

\* update() and push() run in a poll or in a worker of the module.
LEMMA UpdatingIsPoll ==
  ASSUME StackInv, NEW a \in Actor, NEW l \in Updating \cup Pushing, At(a, l)
  PROVE  /\ a = main => job.name = "poll"
         /\ a # main => Of(a) = a[1] /\ job.name # "start"
  <1>1. /\ May(a, Frame(l, Of(a))) /\ Frame(l, Of(a)).pc = l /\ Frame(l, Of(a)).m = Of(a)
        /\ job.name \in {"events", "start", "stop", "poll"}
    BY Acting, Zenon DEF Frame, StackInv, JobOK
  <1> QED
    BY <1>1, Zenon
       DEF May, MainMay, WorkerMay, Updating, Pushing, Starting, Creating, Ending,
           Joining,
       Notifying, Looping

LEMMA UpdateReadKeeps ==
  ASSUME ChainAssumption, IInv, NEW a \in Actor, update_read(a)
  PROVE  IInv'
  <1> DEFINE f == Frame("push", Of(a))
             g == Frame("stop", Of(a))
  <1>1. /\ At(a, "update") /\ owed' = owed \ {Of(a)}
        /\ UNCHANGED <<flags, workers, sweep, mtx>>
        /\ \/ Goto(a, "push")
           \/ Of(a) \in Checked /\ Call(a, "push", <<g>>)
           \/ Return(a)
    BY Zenon DEF update_read
  <1>2. /\ stack[a] # <<>> /\ May(a, Frame("update", Of(a))) /\ Of(a) \in Module
        /\ \A k \in Labels : Frame(k, Of(a)) \in FrameType
        /\ Head(stack[a]) = Frame("update", Of(a))
    BY <1>1, Acting, Zenon DEF IInv
  <1> PICK m \in Module : m = Of(a)
    BY <1>2, Zenon
  <1>3. Head(stack[a]).pc = "update" /\ Head(stack[a]).m = m
    BY <1>2 DEF Frame
  <1>4. /\ May(a, f) /\ "push" \in Labels \cap Resuming /\ f \in FrameType
        /\ "update" \notin Looping /\ "push" \notin Looping
        /\ f.pc = "push"
    BY <1>2, Zenon DEF May, MainMay, WorkerMay, Frame, Labels, Starting, Creating, Ending,
       Joining, Notifying, Updating, Pushing, Looping, Polling, Resuming
  <1>5. FlagTypes' /\ stack \in [Actor -> Seq(FrameType)]
    BY <1>1, Zenon DEF IInv, StackInv, FlagTypes, flags, workers, sweep
  <1>6. ASSUME NEW STATE new, Allowed(a, new), Replaces(a, new)
        PROVE  NoLostUpdate'
    <2>1. FlagTypes /\ StackInv /\ NoLostUpdate
      BY Zenon DEF IInv
    <2>2. m \notin owed' /\ owed' \subseteq owed
      BY <1>1, Zenon
    <2> QED
      BY <1>1, <1>2, <1>3, <1>6, <2>1, <2>2, UpdatesMove, Zenon DEF flags, sweep
  <1>7. job.name \notin {"start", "stop"} \/ a # main
    BY <1>1, UpdatingIsPoll, Zenon DEF Updating, IInv
  <1>8. CASE Goto(a, "push")
    <2>1. Replaces(a, <<f>>)
      BY <1>2, <1>4, <1>5, <1>8, GotoReplaces, Zenon
    <2>2. Allowed(a, <<f>>)
      BY <1>3, <1>4, AllowedOne, Zenon
    <2>3. a = main => SweepMay(<<f>>)
      BY <1>7, Zenon DEF SweepMay
    <2>4. NoLostUpdate'
      BY <1>6, <2>1, <2>2, Zenon
    <2> QED
      BY <1>1, <1>4, <1>5, <1>8, <2>3, <2>4, GotoKeeps, Zenon DEF flags, workers
  <1>9. CASE Of(a) \in Checked /\ Call(a, "push", <<g>>)
    <2>1. Of(a) \notin Threaded
      BY <1>9, ObserverType, Zenon DEF IInv, StackInv
    <2>2. May(a, g) /\ g \in FrameType /\ g.pc \notin Looping
      BY <1>2, <2>1, Zenon
         DEF May, MainMay, WorkerMay, Frame, Labels, Starting, Creating, Ending,
         Joining, Notifying, Updating, Pushing, Looping, Polling
    <2>3. Replaces(a, <<g, f>>)
      BY <1>2, <1>4, <1>5, <1>9, <2>2, CallReplaces, Zenon
    <2>4. Allowed(a, <<g, f>>)
      BY <1>3, <1>4, <2>2, AllowedTwo, Zenon
    <2>5. a = main => SweepMay(<<g, f>>)
      BY <1>7, Zenon DEF SweepMay
    <2>6. NoLostUpdate'
      BY <1>6, <2>3, <2>4, Zenon
    <2> QED
      BY <1>1, <1>4, <1>5, <1>9, <2>2, <2>5, <2>6, CallKeeps, Zenon DEF flags, workers
  <1>10. CASE Return(a)
    <2>1. Replaces(a, <<>>) /\ Allowed(a, <<>>)
      BY <1>10, AllowedNone, Zenon DEF Return, Leave, Replaces
    <2>2. NoLostUpdate'
      BY <1>6, <2>1, Zenon
    <2> QED
      BY <1>1, <1>5, <1>7, <1>10, <2>2, ReturnKeeps, Zenon DEF flags, workers
  <1> QED
    BY <1>1, <1>8, <1>9, <1>10, Zenon

LEMMA RearmKeeps ==
  ASSUME ChainAssumption, IInv, NEW a \in Actor, NEW k \in {"push", "unlock"},
         At(a, k), Rearm(a), UNCHANGED <<flags, workers, sweep, owed>>, FlagTypes'
  PROVE  IInv'
  <1> DEFINE g == Frame("notifyUpdate", Of(a))
  <1>1. /\ May(a, Frame(k, Of(a))) /\ StackInv
        /\ \A l \in Labels : Frame(l, Of(a)) \in FrameType
    BY Acting, Zenon DEF IInv
  <1>2. k \in Updating \cup Pushing /\ k # "post" /\ k \notin Looping /\ k \notin Caring
    BY Zenon DEF Updating, Pushing, Looping, Caring
  <1>3. a = main => job.name \notin {"start", "stop"}
    BY <1>1, <1>2, UpdatingIsPoll, Zenon
  <1>4. CASE Of(a) \in Rearmed
    <2>1. Leave(a, <<g>>)
      BY <1>4, Zenon DEF Rearm
    <2>2. May(a, g) /\ g \in FrameType /\ g.pc \notin Looping
      BY <1>1, Zenon
         DEF May, MainMay, WorkerMay, Frame, Labels, Starting, Creating, Ending,
         Joining, Notifying, Updating, Pushing, Looping, Polling
    <2> QED
      BY <1>2, <1>3, <2>1, <2>2, LeaveKeeps, Zenon DEF flags, workers
  <1>5. CASE Of(a) \notin Rearmed
    <2>1. Return(a)
      BY <1>5, Zenon DEF Rearm, Return
    <2> QED
      BY <1>2, <1>3, <2>1, ReturnKeeps, Zenon DEF flags, workers
  <1> QED
    BY <1>4, <1>5, Zenon

LEMMA PushKeeps ==
  ASSUME ChainAssumption, IInv, NEW a \in Actor, push(a)
  PROVE  IInv'
  <1> DEFINE f == Frame("notifyObservers", Of(a))
             o == Listener(Of(a))
  <1>1. /\ At(a, "push") /\ UNCHANGED <<flags, workers, sweep, mtx>>
        /\ \/ o = None /\ Rearm(a) /\ UNCHANGED owed
           \/ o # None /\ owed' = owed \cup {o} /\ Goto(a, "notifyObservers")
    BY Zenon DEF push
  <1>2. /\ stack[a] # <<>> /\ May(a, Frame("push", Of(a))) /\ Of(a) \in Members
        /\ \A k \in Labels : Frame(k, Of(a)) \in FrameType
        /\ Head(stack[a]) = Frame("push", Of(a))
    BY <1>1, Acting, Zenon DEF IInv
  <1>3. /\ StackInv /\ stack \in [Actor -> Seq(FrameType)] /\ Members \subseteq Module
        /\ Members \subseteq DOMAIN Observer
    BY ObserverType, Zenon DEF IInv, StackInv
  <1>4. CASE o = None /\ Rearm(a) /\ UNCHANGED owed
    <2>1. FlagTypes'
      BY <1>1, <1>4, Zenon DEF IInv, FlagTypes, flags, workers, sweep
    <2> QED
      BY <1>1, <1>4, <2>1, RearmKeeps, Zenon
  <1>5. CASE o # None /\ owed' = owed \cup {o} /\ Goto(a, "notifyObservers")
    <2>1. Observer[Of(a)] = o /\ o \in Members
      BY <1>5, Zenon DEF Listener, Members
    <2>2. o \in Module
      BY <1>3, <2>1, Zenon
    <2>3. FlagTypes'
      BY <1>1, <1>5, <2>2, Zenon DEF IInv, FlagTypes, flags, workers, sweep
    <2>4. May(a, f) /\ "notifyObservers" \in Labels /\ f \in FrameType
          /\ "push" \notin Looping /\ "notifyObservers" \notin Looping
          /\ f.pc = "notifyObservers" /\ Head(stack[a]).pc = "push"
      BY <1>2, <2>1
         DEF May, MainMay, WorkerMay, Frame, Labels, Starting, Creating, Ending,
         Joining, Notifying, Updating, Pushing, Looping, Polling
    <2>5. Replaces(a, <<f>>)
      BY <1>2, <1>3, <1>5, <2>4, GotoReplaces, Zenon
    <2>6. Allowed(a, <<f>>)
      BY <2>4, AllowedOne, Zenon
    <2>7. NoLostUpdate'
      <3> PICK c \in Module : c = o
        BY <2>2, Zenon
      <3>1. 1 \in 1..Len(<<f>>) /\ <<f>>[1] = f
        OBVIOUS
      <3>2. \E u \in DOMAIN Observer :
              Observer[u] = c /\ <<f>>[1] = Frame("notifyObservers", u)
        BY <1>2, <1>3, <2>1, <3>1, Zenon
      <3>3. owed' \subseteq owed \cup {c}
        BY <1>5, Zenon
      <3> HIDE DEF f, o
      <3> QED
        BY <1>1, <1>2, <2>4, <2>5, <2>6, <3>1, <3>2, <3>3, UpdatesPassedOn, Zenon
           DEF flags, sweep
    <2>8. a = main => SweepMay(<<f>>)
      BY <1>1, <1>3, UpdatingIsPoll, Zenon DEF SweepMay, Updating
    <2> QED
      BY <1>1, <1>5, <2>3, <2>4, <2>7, <2>8, GotoKeeps, Zenon DEF flags, workers
  <1> QED
    BY <1>1, <1>4, <1>5, Zenon

LEMMA LockKeeps ==
  ASSUME ChainAssumption, IInv, NEW a \in Actor, notifyObservers_lock(a)
  PROVE  IInv'
  <1> DEFINE o == Observer[Of(a)]
             f == Frame("unlock", Of(a))
             g == Frame("notifyUpdate", o)
  <1>1. /\ At(a, "notifyObservers") /\ UNCHANGED <<flags, workers, sweep, owed>>
        /\ mtx' = [mtx EXCEPT ![o] = a] /\ Call(a, "unlock", <<g>>)
    BY Zenon DEF notifyObservers_lock
  <1>2. /\ stack[a] # <<>> /\ May(a, Frame("notifyObservers", Of(a)))
        /\ \A k \in Labels : Frame(k, Of(a)) \in FrameType
        /\ Head(stack[a]) = Frame("notifyObservers", Of(a))
    BY <1>1, Acting, Zenon DEF IInv
  <1>3. /\ StackInv /\ stack \in [Actor -> Seq(FrameType)] /\ Members \subseteq Module
    BY ObserverType, Zenon DEF IInv, StackInv
  <1>4. o \in Members /\ o \in Module
    BY <1>2, <1>3, Zenon DEF May, Frame, Pushing
  <1>5. FlagTypes'
    BY <1>1, <1>4, Zenon DEF IInv, FlagTypes, flags, workers, sweep
  <1>6. /\ May(a, f) /\ "unlock" \in Labels \cap Resuming /\ f \in FrameType
        /\ "notifyObservers" \notin Looping /\ "unlock" \notin Looping
        /\ f.pc = "unlock" /\ Head(stack[a]).pc = "notifyObservers"
        /\ Head(stack[a]).m = Of(a)
    <2>1. "unlock" \in Labels \cap Resuming
      BY Zenon DEF Labels, Pushing, Resuming
    <2>2. May(a, f)
      BY <1>2, Zenon DEF May, MainMay, WorkerMay, Frame, Starting, Creating, Ending,
         Joining, Notifying, Updating, Pushing, Looping, Polling
    <2> QED
      BY <1>2, <2>1, <2>2 DEF Frame, Looping
  <1>7. May(a, g) /\ g \in FrameType /\ g.pc \notin Looping
    <2>1. g \in FrameType /\ g.pc = "notifyUpdate" /\ g.m = o /\ g.pc \notin Looping
      BY <1>4, Zenon DEF Frame, FrameType, Labels, Notifying, Looping
    <2>2. CASE a = main
      <3>1. job.name = "poll"
        BY <1>1, <1>3, <2>2, UpdatingIsPoll, Zenon DEF Pushing
      <3> QED
        BY <1>4, <2>1, <2>2, <3>1, Zenon
           DEF May, MainMay, Starting, Creating, Ending, Joining,
           Pushing, Looping
    <2>3. CASE a # main
      <3>1. Of(a) = a[1] /\ job.name # "start"
        BY <1>1, <1>3, <2>3, UpdatingIsPoll, Zenon DEF Pushing
      <3> QED
        BY <1>4, <2>1, <2>3, <3>1, Zenon
           DEF May, WorkerMay, Starting, Creating, Ending, Joining,
           Updating, Pushing, Looping, Polling
    <2> QED
      BY <2>1, <2>2, <2>3, Zenon
  <1>8. Replaces(a, <<g, f>>)
    BY <1>1, <1>2, <1>3, <1>6, <1>7, CallReplaces, Zenon
  <1>9. Allowed(a, <<g, f>>)
    BY <1>6, <1>7, AllowedTwo, Zenon
  <1>10. NoLostUpdate'
    <2> PICK c \in Module : c = o
      BY <1>4, Zenon
    <2>1. 1 \in 1..Len(<<g, f>>) /\ <<g, f>>[1] = Frame("notifyUpdate", c)
      OBVIOUS
    <2>2. Observer[Head(stack[a]).m] = c
      BY <1>6, Zenon
    <2> HIDE DEF f, g, o
    <2> QED
      BY <1>1, <1>2, <1>6, <1>8, <1>9, <2>1, <2>2, UpdatesPassedOn, Zenon DEF flags, sweep
  <1>11. a = main => SweepMay(<<g, f>>)
    BY <1>1, <1>3, UpdatingIsPoll, Zenon DEF SweepMay, Pushing
  <1> QED
    BY <1>1, <1>5, <1>6, <1>7, <1>10, <1>11, CallKeeps, Zenon DEF flags, workers

LEMMA UnlockKeeps ==
  ASSUME ChainAssumption, IInv, NEW a \in Actor, notifyObservers_unlock(a)
  PROVE  IInv'
  <1>1. /\ At(a, "unlock") /\ Rearm(a) /\ UNCHANGED <<flags, workers, sweep, owed>>
        /\ mtx' = [mtx EXCEPT ![Observer[Of(a)]] = None]
    BY Zenon DEF notifyObservers_unlock
  <1>2. FlagTypes'
    BY <1>1, Zenon DEF IInv, FlagTypes, flags, workers, sweep
  <1> QED
    BY <1>1, <1>2, RearmKeeps, Zenon
-----------------------------------------------------------------------------
(* The loop of a worker.                                                   *)

LEMMA WorkerAt ==
  ASSUME ChainAssumption, IInv, NEW w \in Worker, NEW l \in Looping, At(w, l)
  PROVE  /\ w \in Actor /\ w # main /\ Of(w) = w[1] /\ Of(w) \in Module
         /\ w[1] \in Threaded /\ thread[w[1]] # 0 /\ life[w] = "running"
         /\ stack[w] # <<>> /\ Head(stack[w]).pc = l
         /\ Of(w) \in Members /\ (job.name = "start" => l # "clear")
         /\ \A k \in Looping : k # "clear" \/ job.name # "start" => May(w, Frame(k, Of(w)))
         /\ \A k \in Labels : Frame(k, Of(w)) \in FrameType
         /\ l # "post" /\ l \notin Caring
  <1>1. w \in Actor /\ w # main
    BY MainIsNoWorker, Zenon DEF Actor
  <1>2. /\ stack[w] # <<>> /\ Of(w) \in Module /\ Of(w) \in Members
        /\ May(w, Frame(l, Of(w)))
        /\ \A k \in Labels : Frame(k, Of(w)) \in FrameType
    BY <1>1, Acting, Zenon DEF IInv
  <1>3. WorkerMay(w[1], Frame(l, Of(w))) /\ Frame(l, Of(w)).pc = l /\ Frame(l, Of(w)).m = Of(w)
    BY <1>1, <1>2, Zenon DEF May, Frame
  <1>4. Of(w) = w[1] /\ (job.name = "start" => l # "clear")
    BY <1>3, Zenon DEF WorkerMay
  <1>5. /\ w[1] \in Threaded /\ thread[w[1]] # 0 /\ life[w] = "running"
    BY <1>2, WorkerIsSet, Zenon DEF IInv
  <1>6. ASSUME NEW k \in Looping, k # "clear" \/ job.name # "start"
        PROVE  May(w, Frame(k, Of(w)))
    BY <1>1, <1>2, <1>4, <1>6, Zenon
       DEF May, WorkerMay, Frame, Starting, Creating, Ending,
       Joining, Updating, Pushing, Looping, Polling
  <1>7. Head(stack[w]).pc = l /\ l # "post" /\ l \notin Caring
    BY Zenon DEF At, Looping, Caring
  <1> QED
    BY <1>1, <1>2, <1>4, <1>5, <1>6, <1>7, Zenon

\* Going round in the loop.
LEMMA LoopKeeps ==
  ASSUME ChainAssumption, IInv, NEW w \in Worker, NEW k \in Looping, NEW l \in Looping,
         At(w, k), Goto(w, l), UNCHANGED <<flags, workers, sweep, mtx, owed>>,
         l = "clear" => job.name # "start",
         l \in {"assert", "wait"} => w[1] \notin need_update \/ k = "assert"
  PROVE  IInv'
  <1>1. /\ w \in Actor /\ w # main /\ k # "post" /\ k \notin Caring
        /\ May(w, Frame(l, Of(w))) /\ l \in Labels
    BY WorkerAt, Zenon DEF Labels
  <1>2. FlagTypes'
    BY Zenon DEF IInv, FlagTypes, flags, workers, sweep
  <1> QED
    BY <1>1, <1>2, GotoKeeps, Zenon DEF flags, workers

LEMMA LoopTestKeeps ==
  ASSUME ChainAssumption, IInv, NEW w \in Worker,
         needUpdate_test(w) \/ needUpdate_assert(w) \/ needUpdate_retest(w)
  PROVE  IInv'
  <1>1. {"loop", "test", "assert", "wait", "retest", "clear"} \subseteq Looping
    BY Zenon DEF Looping
  <1>2. ASSUME NEW k \in {"test", "retest"}, At(w, k)
        PROVE  /\ Of(w) = w[1]
               /\ Of(w) \in need_update => job.name # "start"
    <2>1. Of(w) = w[1] /\ w[1] \in Threaded
      BY <1>1, <1>2, WorkerAt, ZenonT(30)
    <2>2. job.name = "start" => need_update \cap Threaded = {}
      BY Zenon DEF IInv, StartOK
    <2> QED
      BY <2>1, <2>2, Zenon
  <1>3. CASE needUpdate_test(w)
    <2>1. At(w, "test") /\ UNCHANGED <<flags, workers, sweep, mtx, owed>>
      BY <1>3, Zenon DEF needUpdate_test
    <2>2. \/ Of(w) \in need_update /\ Goto(w, "clear")
          \/ Of(w) \notin need_update /\ Goto(w, "assert")
      BY <1>3, Zenon DEF needUpdate_test
    <2> QED
      BY <1>1, <1>2, <2>1, <2>2, LoopKeeps, Zenon
  <1>4. CASE needUpdate_assert(w)
    BY <1>1, <1>4, LoopKeeps, Zenon DEF needUpdate_assert
  <1>5. CASE needUpdate_retest(w)
    <2>1. At(w, "retest") /\ UNCHANGED <<flags, workers, sweep, mtx, owed>>
      BY <1>5, Zenon DEF needUpdate_retest
    <2>2. \/ Of(w) \in need_update /\ Goto(w, "clear")
          \/ Of(w) \notin need_update /\ Goto(w, "loop")
      BY <1>5, Zenon DEF needUpdate_retest
    <2> QED
      BY <1>1, <1>2, <2>1, <2>2, LoopKeeps, Zenon
  <1> QED
    BY <1>3, <1>4, <1>5, Zenon

LEMMA LoopClearKeeps ==
  ASSUME ChainAssumption, IInv, NEW w \in Worker, needUpdate_clear(w)
  PROVE  IInv'
  <1> DEFINE f == Frame("loop", Of(w))
             g == Frame("update", Of(w))
  <1>1. /\ At(w, "clear") /\ need_update' = need_update \ {Of(w)}
        /\ Call(w, "loop", <<g>>)
        /\ UNCHANGED <<is_started, use_thread, thread, trigger, workers, sweep, mtx, owed>>
    BY Zenon DEF needUpdate_clear
  <1>2. /\ w \in Actor /\ w # main /\ Of(w) = w[1] /\ Of(w) \in Module
        /\ stack[w] # <<>> /\ Head(stack[w]).pc = "clear" /\ job.name # "start"
        /\ Of(w) \in Members
        /\ May(w, f) /\ \A k \in Labels : Frame(k, Of(w)) \in FrameType
    BY <1>1, WorkerAt, Zenon DEF Looping
  <1>3. /\ "loop" \in Labels \cap Resuming /\ "update" \in Labels /\ "loop" \in Looping
        /\ "update" \notin Looping /\ f.pc = "loop" /\ g.pc = "update" /\ "clear" \in Looping
        /\ f \in FrameType /\ g \in FrameType
    BY <1>2, Zenon DEF Labels, Resuming, Looping, Updating, Frame
  <1>4. May(w, g)
    BY <1>2, Zenon
       DEF May, WorkerMay, Frame, Starting, Creating, Ending, Joining, Updating, Pushing,
       Polling
  <1>5. FlagTypes' /\ stack \in [Actor -> Seq(FrameType)]
    BY <1>1, Zenon DEF IInv, StackInv, FlagTypes, workers, sweep
  <1>6. Replaces(w, <<g, f>>)
    BY <1>1, <1>2, <1>3, <1>5, CallReplaces, Zenon
  <1>7. Allowed(w, <<g, f>>)
    BY <1>2, <1>3, <1>4, AllowedTwo, Zenon
  <1>8. NoLostUpdate'
    <2> PICK c \in Module : c = Of(w)
      BY <1>2, Zenon
    <2>1. 1 \in 1..Len(<<g, f>>) /\ <<g, f>>[1] = Frame("update", c)
      OBVIOUS
    <2>2. \A m \in Module : m # c /\ m \in need_update => m \in need_update'
      BY <1>1, Zenon
    <2> HIDE DEF f, g
    <2> QED
      BY <1>1, <1>2, <1>6, <1>7, <2>1, <2>2, UpdatesPassedOn, Zenon DEF sweep
  <1> QED
    BY <1>1, <1>2, <1>3, <1>4, <1>5, <1>8, CallKeeps, Zenon DEF workers

\* A worker that is woken takes a wakeup that was its own.
LEMMA LoopWaitKeeps ==
  ASSUME ChainAssumption, IInv, NEW w \in Worker, needUpdate_wait(w)
  PROVE  IInv'
  <1> DEFINE f == Frame("retest", Of(w))
  <1>1. /\ At(w, "wait") /\ trigger' = trigger \ {Of(w)} /\ Goto(w, "retest")
        /\ UNCHANGED <<is_started, need_update, use_thread, thread, workers, sweep, mtx, owed>>
    BY Zenon DEF needUpdate_wait
  <1>2. /\ w \in Actor /\ w # main /\ Of(w) = w[1] /\ Of(w) \in Module
        /\ stack[w] # <<>> /\ Head(stack[w]).pc = "wait"
        /\ May(w, f) /\ \A k \in Labels : Frame(k, Of(w)) \in FrameType
    BY <1>1, WorkerAt, Zenon DEF Looping
  <1>3. /\ "retest" \in Labels /\ "wait" \in Looping /\ "retest" \in Looping
        /\ f \in FrameType /\ f.pc = "retest" /\ "wait" \notin Caring
    BY <1>2, Zenon DEF Labels, Looping, Frame, Caring
  <1>4. /\ FlagTypes' /\ stack \in [Actor -> Seq(FrameType)]
    BY <1>1, Zenon DEF IInv, StackInv, FlagTypes, workers, sweep
  <1>5. /\ FlagTypes /\ StackInv /\ ThreadsOK /\ EventsOK /\ StartOK /\ StopOK /\ WakeupOK
        /\ NoLostUpdate
    BY Zenon DEF IInv
  <1>6. Replaces(w, <<f>>) /\ Allowed(w, <<f>>)
    BY <1>1, <1>2, <1>3, <1>4, GotoReplaces, AllowedOne, Zenon
  <1>7. StackInv' /\ ThreadsOK'
    BY <1>1, <1>2, <1>5, <1>6, StackStep, ThreadsStay, Zenon DEF workers, sweep
  <1>8. EventsOK' /\ StartOK' /\ StopOK'
    BY <1>1, <1>2, <1>5, <1>6, SweepStays, Zenon DEF workers
  <1>9. NoLostUpdate'
    BY <1>1, <1>2, <1>3, <1>5, <1>6, UpdatesStay, Zenon DEF sweep
  <1>10. WakeupOK'
    <2> SUFFICES ASSUME NEW v \in Worker, At(v, "assert")' \/ At(v, "wait")',
                        v[1] \in need_update'
                 PROVE  v[1] \in trigger' \/ \E b \in Actor : At(b, "post")' /\ Of(b)' = v[1]
      BY Zenon DEF WakeupOK
    <2>1. /\ <<f>> # <<>> /\ <<f>>[1] = f
      BY Zenon
    <2>2. /\ Head(stack'[w]) = f
          /\ \A b \in Actor : b # w => stack'[b] = stack[b]
      BY <1>2, <1>5, <1>6, <2>1, NewHead, Zenon
    <2>3. v # w /\ v \in Actor
      BY <1>3, <2>2, Zenon DEF At, Actor
    <2>4. (At(v, "assert") \/ At(v, "wait")) /\ stack[v] # <<>>
      BY <2>2, <2>3, Zenon DEF At
    <2>5. v[1] # w[1]
      <3>1. v = <<v[1], v[2]>> /\ thread[v[1]] = v[2]
        BY <1>5, <2>4, WorkerIsSet, Zenon
      <3>2. w = <<w[1], w[2]>> /\ thread[w[1]] = w[2]
        BY <1>2, <1>5, WorkerIsSet, Zenon
      <3> QED
        BY <2>3, <3>1, <3>2, Zenon
    <2>6. CASE v[1] \in trigger
      BY <1>1, <1>2, <2>5, <2>6, Zenon
    <2>7. CASE \E b \in Actor : At(b, "post") /\ Of(b) = v[1]
      <3> PICK b \in Actor : At(b, "post") /\ Of(b) = v[1]
        BY <2>7, Zenon
      <3>1. b # w
        BY <1>2, Zenon DEF At
      <3>2. At(b, "post")' /\ Of(b)' = v[1]
        BY <2>2, <3>1, Zenon DEF At, Of
      <3> QED
        BY <3>2, Zenon
    <2> QED
      BY <1>1, <1>5, <2>4, <2>6, <2>7, Zenon DEF WakeupOK
  <1> QED
    BY <1>4, <1>7, <1>8, <1>9, <1>10, Zenon DEF IInv

LEMMA LoopEndKeeps ==
  ASSUME ChainAssumption, IInv, NEW w \in Worker, thread_loop(w)
  PROVE  IInv'
  <1>1. /\ At(w, "loop") /\ UNCHANGED <<flags, want_quit, sweep, mtx, owed>>
        /\ \/ life' = [life EXCEPT ![w] = "done"] /\ Return(w)
           \/ Goto(w, "test") /\ UNCHANGED life
    BY Zenon DEF thread_loop
  <1>2. CASE Goto(w, "test") /\ UNCHANGED life
    BY <1>1, <1>2, LoopKeeps, Zenon DEF workers, Looping
  <1>3. CASE life' = [life EXCEPT ![w] = "done"] /\ Return(w)
    <2>1. /\ w \in Actor /\ w # main /\ stack[w] # <<>> /\ Head(stack[w]).pc = "loop"
          /\ "loop" \in Looping /\ "loop" \notin Caring
      BY <1>1, WorkerAt, Zenon DEF Looping
    <2>2. /\ FlagTypes /\ StackInv /\ ThreadsOK /\ EventsOK /\ StartOK /\ StopOK /\ WakeupOK
          /\ NoLostUpdate /\ stack \in [Actor -> Seq(FrameType)] /\ LoopIsLast
      BY Zenon DEF IInv, StackInv
    <2>3. FlagTypes'
      BY <1>1, <1>3, <2>2, Zenon DEF FlagTypes, flags, sweep
    <2>4. Replaces(w, <<>>) /\ Allowed(w, <<>>)
      BY <1>3, <2>1, AllowedNone, Zenon DEF Return, Leave, Replaces
    <2>5. StackInv'
      BY <1>1, <2>1, <2>2, <2>4, StackStep, Zenon DEF sweep
    <2>6. EventsOK' /\ StartOK' /\ StopOK'
      <3>1. \A v \in Worker : life[v] = "done" => life'[v] = "done"
        BY <1>3, <2>2, Zenon DEF FlagTypes
      <3> QED
        BY <1>1, <2>1, <2>2, <2>4, <3>1, SweepStays, Zenon DEF flags
    <2>7. NoLostUpdate'
      BY <1>1, <2>1, <2>2, <2>4, UpdatesStay, Zenon DEF flags, sweep
    <2>8. WakeupOK'
      BY <1>1, <2>1, <2>2, <2>4, WakeupStays, Zenon DEF flags
    <2>9. ThreadsOK'
      <3>1. /\ \A b \in Actor : b # w => stack'[b] = stack[b]
            /\ Len(stack'[w]) = Len(<<>>) + Len(stack[w]) - 1
        BY <2>1, <2>2, <2>4, NewHead, Zenon
      <3>2. Len(stack[w]) = 1
        <4>1. stack[w][1].pc \in Looping /\ 1 \in 1..Len(stack[w])
          BY <2>1, <2>2, HeadIsFirst, Zenon
        <4> QED
          BY <2>2, <4>1, Zenon DEF LoopIsLast
      <3>3. stack'[w] = <<>>
        <4>1. stack'[w] \in Seq(FrameType) /\ Len(stack'[w]) = 0
          BY <2>1, <2>5, <3>1, <3>2, SMTT(30) DEF StackInv
        <4> QED
          BY <4>1, EmptyHasNoLength, Zenon
      <3>4. \A v \in Worker : life'[v] # "free" => life[v] # "free"
        BY <1>3, <2>1, <2>2, WorkerIsSet, Zenon DEF FlagTypes
      <3>5. \A v \in Worker : stack'[v] # <<>> => life'[v] = "running"
        <4> SUFFICES ASSUME NEW v \in Worker, stack'[v] # <<>> PROVE life'[v] = "running"
          BY Zenon
        <4>1. v # w /\ v \in Actor
          BY <3>3, Zenon DEF Actor
        <4>2. stack[v] # <<>>
          BY <3>1, <4>1, Zenon
        <4> QED
          BY <1>3, <2>2, <4>1, <4>2, Zenon DEF ThreadsOK, FlagTypes
      <3> QED
        BY <1>1, <2>2, <3>4, <3>5, Zenon DEF ThreadsOK, flags, sweep, Threaded
    <2> QED
      BY <2>3, <2>5, <2>6, <2>7, <2>8, <2>9, Zenon DEF IInv
  <1> QED
    BY <1>1, <1>2, <1>3, Zenon
-----------------------------------------------------------------------------
(* The steps of a poll.                                                    *)

LEMMA PollingIsPoll ==
  ASSUME ChainAssumption, IInv, NEW l \in Polling, At(main, l)
  PROVE  /\ main \in Actor /\ main \notin Worker /\ job.name = "poll"
         /\ stack[main] # <<>> /\ Of(main) \in Module /\ Of(main) \in Members
         /\ Head(stack[main]).pc = l /\ Head(stack[main]).m = Of(main)
         /\ \A k \in Polling \cup Notifying \cup Updating : May(main, Frame(k, Of(main)))
         /\ \A k \in Labels : Frame(k, Of(main)) \in FrameType
         /\ \A new : SweepMay(new)
         /\ l # "post" /\ l \notin Caring
  <1>1. main \in Actor /\ main \notin Worker
    BY MainIsNoWorker, Zenon DEF Actor
  <1>2. /\ stack[main] # <<>> /\ Of(main) \in Module /\ Of(main) \in Members
        /\ May(main, Frame(l, Of(main)))
        /\ \A k \in Labels : Frame(k, Of(main)) \in FrameType
        /\ job.name \in {"events", "start", "stop", "poll"}
    BY <1>1, Acting, Zenon DEF IInv, StackInv, JobOK
  <1>3. MainMay(Frame(l, Of(main))) /\ Frame(l, Of(main)).pc = l
    BY <1>2, Zenon DEF May, Frame
  <1>4. l \notin Starting \cup Creating \cup Ending \cup Joining \cup Notifying
    BY Zenon DEF Polling, Starting, Creating, Ending, Joining, Notifying
  <1>5. job.name = "poll"
    BY <1>2, <1>3, <1>4, Zenon DEF MainMay
  <1>6. ASSUME NEW k \in Polling \cup Notifying \cup Updating
        PROVE  May(main, Frame(k, Of(main)))
    <2>1. k \notin Creating \cup Joining \cup Looping \cup Starting \cup Ending \cup Pushing
      BY Zenon
         DEF Polling, Starting, Creating, Ending, Joining, Notifying, Updating, Looping,
             Pushing
    <2> QED
      BY <1>2, <1>5, <2>1, Zenon DEF May, MainMay, Frame
  <1>7. /\ \A new : SweepMay(new)
        /\ Head(stack[main]).pc = l /\ Head(stack[main]).m = Of(main)
        /\ l # "post" /\ l \notin Caring
    BY <1>5, Zenon DEF SweepMay, At, Of, Polling, Caring
  <1> QED
    BY <1>1, <1>2, <1>5, <1>6, <1>7, Zenon

LEMMA PollStepKeeps ==
  ASSUME ChainAssumption, IInv, poll_notify \/ poll_thread \/ poll_test
  PROVE  IInv'
  <1>1. /\ {"poll", "poll_thread", "needUpdate", "poll_clear"} \subseteq Polling
        /\ Polling \subseteq Labels /\ "poll_thread" \in Resuming
        /\ "notifyUpdate" \in Notifying /\ "notifyUpdate" \in Labels
        /\ "notifyUpdate" \notin Looping
    BY Zenon DEF Polling, Labels, Resuming, Notifying, Looping
  <1>2. UNCHANGED <<flags, workers, sweep, mtx, owed>>
    BY Zenon DEF poll_notify, poll_thread, poll_test
  <1>3. /\ FlagTypes' /\ trigger \subseteq trigger'
        /\ UNCHANGED <<is_started, thread, life, sweep, need_update, owed>>
        /\ need_update' \subseteq need_update /\ owed' \subseteq owed
        /\ \A m \in Threaded : m \in use_thread => m \in use_thread'
    BY <1>2, Zenon DEF IInv, FlagTypes, flags, workers, sweep
  <1>4. ASSUME NEW k \in Polling, NEW l \in Polling, At(main, k), Goto(main, l)
        PROVE  IInv'
    <2>1. l \in Labels
      BY <1>1, Zenon
    <2> QED
      BY <1>3, <1>4, <2>1, PollingIsPoll, GotoKeeps, Zenon
  <1>5. ASSUME NEW k \in Polling, At(main, k), Return(main)
        PROVE  IInv'
    BY <1>3, <1>5, PollingIsPoll, ReturnKeeps, Zenon
  <1>6. CASE poll_notify
    <2>1. At(main, "poll")
      BY <1>6, Zenon DEF poll_notify
    <2>2. CASE Goto(main, "poll_thread")
      BY <1>1, <1>4, <2>1, <2>2, Zenon
    <2>3. CASE Call(main, "poll_thread", <<Frame("notifyUpdate", Of(main))>>)
      <3> DEFINE g == Frame("notifyUpdate", Of(main))
      <3>1. /\ g \in FrameType /\ May(main, g) /\ g.pc \notin Looping
            /\ May(main, Frame("poll_thread", Of(main)))
        BY <1>1, <2>1, PollingIsPoll, Zenon DEF Frame
      <3>2. "poll_thread" \in Labels \cap Resuming
        BY <1>1, Zenon
      <3> HIDE DEF g
      <3>3. Call(main, "poll_thread", <<g>>)
        BY <2>3, Zenon DEF g
      <3> QED
        BY <1>1, <1>3, <2>1, <3>1, <3>2, <3>3, PollingIsPoll, CallKeeps, Zenon
    <2> QED
      BY <1>6, <2>2, <2>3, Zenon DEF poll_notify
  <1>7. CASE poll_thread
    BY <1>1, <1>4, <1>5, <1>7, Zenon DEF poll_thread
  <1>8. CASE poll_test
    BY <1>1, <1>4, <1>5, <1>8, Zenon DEF poll_test
  <1> QED
    BY <1>6, <1>7, <1>8, Zenon

LEMMA PollClearKeeps ==
  ASSUME ChainAssumption, IInv, poll_clear
  PROVE  IInv'
  <1> DEFINE f == Frame("update", Of(main))
  <1>1. /\ At(main, "poll_clear") /\ need_update' = need_update \ {Of(main)}
        /\ Goto(main, "update")
        /\ UNCHANGED <<is_started, use_thread, thread, trigger, workers, sweep, mtx, owed>>
    BY Zenon DEF poll_clear
  <1>2. "poll_clear" \in Polling /\ "update" \in Labels /\ "update" \in Updating
    BY Zenon DEF Polling, Labels, Updating
  <1>3. /\ main \in Actor /\ main \notin Worker
        /\ stack[main] # <<>> /\ Of(main) \in Module
        /\ Head(stack[main]).pc = "poll_clear"
        /\ May(main, f) /\ f \in FrameType /\ SweepMay(<<f>>)
    BY <1>1, <1>2, PollingIsPoll, Zenon
  <1>4. FlagTypes' /\ stack \in [Actor -> Seq(FrameType)]
    BY <1>1, Zenon DEF IInv, StackInv, FlagTypes, workers, sweep
  <1>5. Replaces(main, <<f>>) /\ Allowed(main, <<f>>)
    BY <1>1, <1>2, <1>3, <1>4, GotoReplaces, AllowedOne, Zenon
  <1>6. NoLostUpdate'
    <2> PICK c \in Module : c = Of(main)
      BY <1>3, Zenon
    <2>1. 1 \in 1..Len(<<f>>) /\ <<f>>[1] = Frame("update", c)
      OBVIOUS
    <2>2. \A m \in Module : m # c /\ m \in need_update => m \in need_update'
      BY <1>1, Zenon
    <2> HIDE DEF f
    <2> QED
      BY <1>1, <1>3, <1>5, <2>1, <2>2, UpdatesPassedOn, Zenon DEF sweep
  <1> QED
    BY <1>1, <1>2, <1>3, <1>4, <1>6, GotoKeeps, Zenon DEF workers
-----------------------------------------------------------------------------
(* The steps that change the flags.                                        *)

LEMMA StopUpdateKeeps ==
  ASSUME ChainAssumption, IInv, NEW a \in Actor, stop_update(a)
  PROVE  IInv'
  <1> DEFINE f == Frame("stopped", Of(a))
  <1>1. /\ At(a, "stop_update") /\ need_update' = need_update \ {Of(a)}
        /\ owed' = owed \ {Of(a)} /\ Goto(a, "stopped")
        /\ UNCHANGED <<is_started, use_thread, thread, trigger, workers, sweep, mtx>>
    BY Zenon DEF stop_update
  <1>2. /\ stack[a] # <<>> /\ May(a, Frame("stop_update", Of(a))) /\ Of(a) \in Module
        /\ \A k \in Labels : Frame(k, Of(a)) \in FrameType
        /\ Head(stack[a]).pc = "stop_update"
    BY <1>1, Acting, Zenon DEF IInv, At
  <1>3. /\ "stopped" \in Labels /\ "stopped" \notin Looping /\ "stop_update" \notin Looping
        /\ f.pc = "stopped" /\ f \in FrameType
    BY <1>2, Zenon DEF Labels, Ending, Looping, Frame
  <1>4. May(a, f)
    BY <1>2, Zenon DEF May, MainMay, WorkerMay, Frame, Starting, Creating, Ending,
       Joining, Notifying, Updating, Pushing, Looping, Polling
  <1>5. FlagTypes' /\ stack \in [Actor -> Seq(FrameType)]
    BY <1>1, Zenon DEF IInv, StackInv, FlagTypes, workers, sweep
  <1>6. Replaces(a, <<f>>) /\ Allowed(a, <<f>>)
    BY <1>1, <1>2, <1>3, <1>4, <1>5, GotoReplaces, AllowedOne, Zenon
  <1>7. NoLostUpdate'
    <2> PICK c \in Module : c = Of(a)
      BY <1>2, Zenon
    <2>1. c \notin owed' /\ owed' \subseteq owed \cup {c}
      BY <1>1, Zenon
    <2>2. \A m \in Module : m # c /\ m \in need_update => m \in need_update'
      BY <1>1, Zenon
    <2>3. FlagTypes /\ StackInv /\ NoLostUpdate
      BY Zenon DEF IInv
    <2> HIDE DEF f
    <2> QED
      BY <1>1, <1>2, <1>6, <2>1, <2>2, <2>3, UpdatesMove, Zenon DEF sweep
  <1>8. a = main => SweepMay(<<f>>)
    <2> SUFFICES ASSUME a = main PROVE SweepMay(<<f>>)
      BY Zenon
    <2>1. MainMay(Frame("stop_update", Of(main)))
      BY <1>2, Zenon DEF May
    <2>2. ~(job.name = "start" /\ Current \in Threaded)
      BY <2>1, Zenon DEF MainMay, Frame, Starting, Creating
    <2>3. job.name = "stop" => Current = Of(main)
      BY <2>1, Zenon DEF MainMay, Frame
    <2>4. job.name = "stop" => thread[Current] = 0
      <3>1. StopOK /\ stack[main][1].pc = "stop_update"
        BY <1>2, <1>5, HeadIsFirst, Zenon DEF IInv
      <3> QED
        BY <1>2, <3>1, Zenon DEF StopOK
    <2>5. job.name = "stop" => Current \notin need_update'
      BY <1>1, <2>3, Zenon
    <2>6. Len(<<f>>) = 1 /\ <<f>>[1].pc = "stopped"
      BY <1>3, Zenon
    <2> QED
      BY <2>2, <2>4, <2>5, <2>6, Zenon DEF SweepMay, Unset
  <1> QED
    BY <1>1, <1>3, <1>4, <1>5, <1>7, <1>8, GotoKeeps, Zenon DEF workers
\* While a stop request goes through the vector, a worker that still runs is
\* the one of a module further on, and so is what listens to it.
LEMMA WorkersAreLater ==
  ASSUME ChainAssumption, IInv, job.name = "stop",
         NEW w \in Worker, stack[w] # <<>>, NEW i \in 1..Len(modules),
         \/ Handled(i)
         \/ stack[main] # <<>> /\ i = job.next - 1 /\ thread[modules[i]] = 0
  PROVE  modules[i] # w[1] /\ modules[i] # Observer[w[1]]
  <1>1. /\ FlagTypes /\ StackInv /\ ThreadsOK /\ EventsOK /\ StopOK
        /\ VectorOK /\ job.next \in Nat /\ Len(modules) \in Nat
    BY SeqIsFunction, Zenon DEF IInv, StackInv, JobOK, VectorOK
  <1>2. w[1] \in Threaded /\ thread[w[1]] # 0
    BY <1>1, WorkerIsSet, Zenon
  <1>3. PICK j \in 1..Len(modules) : modules[j] = w[1]
    BY <1>1, <1>2 DEF VectorOK, Members
  <1>4. ~Handled(j)
    BY <1>1, <1>2, <1>3, Zenon DEF StopOK
  <1>5. modules[i] # w[1]
    BY <1>1, <1>2, <1>3, <1>4, Zenon DEF StopOK
  <1>6. ASSUME modules[i] = Observer[w[1]] PROVE FALSE
    <2>1. j < i
      BY <1>1, <1>2, <1>3, <1>6, Zenon DEF VectorOK
    <2>2. Handled(j)
      BY <1>1, <2>1 DEF Handled
    <2> QED
      BY <1>4, <2>2, Zenon
  <1> QED
    BY <1>5, <1>6, Zenon

\* What becomes of the invariants of the requests when an actor sets flags of
\* the module it is at.
LEMMA ActiveSweep ==
  ASSUME ChainAssumption, IInv, NEW a \in Actor, NEW l, At(a, l),
         NEW STATE new, Allowed(a, new), Replaces(a, new),
         UNCHANGED <<use_thread, thread, life, sweep>>,
         is_started' \subseteq is_started \cup {Of(a)},
         Threaded \cap is_started \subseteq is_started',
         need_update' \subseteq need_update \cup {Of(a)},
         l \notin Looping,
         a = main => job.name = "poll" \/ (job.name = "start" /\ Of(a) \notin Threaded)
  PROVE  EventsOK' /\ StartOK' /\ StopOK'
  <1> USE DEF sweep
  <1> PICK m \in Module : m = Of(a)
    BY Acting, Zenon DEF IInv
  <1>1. /\ FlagTypes /\ StackInv /\ ThreadsOK /\ EventsOK /\ StartOK /\ StopOK
        /\ stack[a] # <<>> /\ m \in Members /\ May(a, Frame(l, m))
        /\ Frame(l, m).pc = l /\ Frame(l, m).m = m
    BY Acting, Zenon DEF IInv, Frame
  <1>2. /\ Threaded' = Threaded /\ Observer' = Observer /\ Members' = Members
        /\ Current' = Current
    BY Zenon DEF Threaded, Observer, Members, Current
  <1>3. ~(job.name = "events" /\ ~pipeline_started)
    <2>1. CASE a = main
      BY <2>1, Zenon
    <2>2. CASE a # main
      BY <1>1, <2>2, WorkerIsSet, Zenon DEF Actor
    <2> QED
      BY <2>1, <2>2, Zenon
  <1>4. EventsOK'
    BY <1>1, <1>2, <1>3, Zenon DEF EventsOK
  <1>5. CASE a # main
    <2>1. a \in Worker /\ WorkerMay(a[1], Frame(l, m))
      BY <1>1, <1>5, Zenon DEF May, Actor
    <2>2. (m = a[1] \/ m = Observer[a[1]]) /\ job.name # "start"
      BY <1>1, <2>1, Zenon DEF WorkerMay
    <2>3. StartOK'
      BY <2>2, Zenon DEF StartOK
    <2>4. stack'[main] = stack[main] /\ \A i : Handled(i)' <=> Handled(i)
      <3>1. stack'[main] = stack[main]
        BY <1>1, <1>5, NewHead, Zenon DEF Actor
      <3> QED
        BY <3>1, Zenon DEF Handled
    <2>5. StopOK'
      <3> SUFFICES ASSUME job.name = "stop" PROVE StopOK'
        BY Zenon DEF StopOK
      <3>1. \A i \in 1..Len(modules) : Handled(i) =>
              /\ modules[i] \notin is_started' /\ modules[i] \notin need_update'
              /\ thread[modules[i]] = 0
        <4> SUFFICES ASSUME NEW i \in 1..Len(modules), Handled(i)
                     PROVE  /\ modules[i] \notin is_started'
                            /\ modules[i] \notin need_update'
                            /\ thread[modules[i]] = 0
          BY Zenon
        <4>1. modules[i] # m
          BY <1>1, <2>1, <2>2, WorkersAreLater, Zenon
        <4> QED
          BY <1>1, <4>1, Zenon DEF StopOK
      <3>2. \A u \in Threaded : thread[u] # 0 =>
              /\ u \in is_started'
              /\ Observer[u] \in Threaded => Observer[u] \in is_started'
        BY <1>1, Zenon DEF StopOK
      <3>3. stack[main] # <<>> /\ stack[main][1].pc = "stopped" => Current \notin need_update'
        <4> SUFFICES ASSUME stack[main] # <<>>, stack[main][1].pc = "stopped"
                     PROVE  Current \notin need_update'
          BY Zenon
        <4>1. thread[Current] = 0 /\ Current \notin need_update
          BY <1>1, Zenon DEF StopOK
        <4>2. Current # m
          BY <1>1, <2>1, <2>2, <4>1, WorkersAreLater, CurrentType, Zenon DEF Current
        <4> QED
          BY <4>1, <4>2, Zenon
      <3> QED
        BY <1>1, <1>2, <2>4, <3>1, <3>2, <3>3, Zenon DEF StopOK
    <2> QED
      BY <1>4, <2>3, <2>5, Zenon
  <1>6. CASE a = main
    <2>1. StopOK'
      BY <1>6, Zenon DEF StopOK
    <2>2. StartOK'
      <3> SUFFICES ASSUME job.name = "start" PROVE StartOK'
        BY Zenon DEF StartOK
      <3>1. m \notin Threaded /\ Current = m
        BY <1>1, <1>6, Zenon DEF May, MainMay
      <3>2. \A i \in 1..Len(modules) : modules[i] \in Threaded /\ Handled(i)' => Handled(i)
        <4> SUFFICES ASSUME NEW i \in 1..Len(modules), modules[i] \in Threaded, Handled(i)'
                     PROVE  Handled(i)
          BY Zenon
        <4>1. i < job.next /\ i # job.next - 1
          BY <3>1, Zenon DEF Handled, Current
        <4> QED
          BY <4>1, Zenon DEF Handled
      <3>3. need_update' \cap Threaded = {}
        BY <1>1, <3>1, Zenon DEF StartOK
      <3> QED
        BY <1>1, <1>2, <3>1, <3>2, <3>3, Zenon DEF StartOK
    <2> QED
      BY <1>4, <2>1, <2>2, Zenon
  <1> QED
    BY <1>5, <1>6, Zenon
\* The main thread leaves the outermost function of the current module.
LEMMA MainLeaves ==
  ASSUME StackInv, main \in Actor, stack[main] # <<>>, Len(stack[main]) = 1,
         Replaces(main, <<>>)
  PROVE  stack'[main] = <<>>
  <1>1. Allowed(main, <<>>)
    BY AllowedNone, Zenon
  <1>2. Len(stack'[main]) = Len(<<>>) + Len(stack[main]) - 1
    BY <1>1, NewHead, Zenon
  <1>3. stack' \in [Actor -> Seq(FrameType)]
    BY <1>1, ReplacedStack, Zenon DEF StackInv, Allowed
  <1>4. stack'[main] \in Seq(FrameType) /\ Len(stack'[main]) = 0
    BY <1>2, <1>3
  <1> QED
    BY <1>4, EmptyHasNoLength, Zenon

LEMMA StartStartedKeeps ==
  ASSUME ChainAssumption, IInv, NEW a \in Actor, start_started(a)
  PROVE  IInv'
  <1> DEFINE g == Frame("notifyUpdate", Of(a))
             new == IF Of(a) \in Eager THEN <<g>> ELSE <<>>
  <1>1. /\ At(a, "started") /\ is_started' = is_started \cup {Of(a)} /\ Replaces(a, new)
        /\ UNCHANGED <<need_update, use_thread, thread, trigger, workers, sweep, mtx, owed>>
    BY Zenon DEF start_started, Leave, Replaces
  <1>2. /\ stack[a] # <<>> /\ May(a, Frame("started", Of(a))) /\ Of(a) \in Module
        /\ \A k \in Labels : Frame(k, Of(a)) \in FrameType
        /\ Head(stack[a]).pc = "started" /\ Of(a) \in Members
    BY <1>1, Acting, Zenon DEF IInv, At
  <1>3. /\ "started" \notin Looping /\ "started" \notin Caring /\ "started" # "post"
        /\ g \in FrameType /\ g.pc = "notifyUpdate" /\ g.pc \notin Looping
    BY <1>2, Zenon DEF Labels, Notifying, Looping, Caring, Frame
  <1>4. /\ FlagTypes /\ StackInv /\ ThreadsOK /\ EventsOK /\ StartOK /\ StopOK /\ WakeupOK
        /\ NoLostUpdate /\ stack \in [Actor -> Seq(FrameType)]
    BY Zenon DEF IInv, StackInv
  <1>5. FlagTypes'
    BY <1>1, <1>2, <1>4, Zenon DEF FlagTypes, workers, sweep
  <1>6. Allowed(a, new)
    <2>1. CASE Of(a) \notin Eager
      BY <2>1, AllowedNone, Zenon
    <2>2. CASE Of(a) \in Eager
      <3>1. Of(a) \notin Threaded
        BY <1>4, <2>2, ObserverType, Zenon DEF StackInv
      <3>2. May(a, g)
        BY <1>2, <3>1, Zenon
           DEF May, MainMay, WorkerMay, Frame, Starting, Creating, Ending,
           Joining, Notifying, Updating, Pushing, Looping, Polling
      <3> QED
        BY <1>2, <1>3, <2>2, <3>2, AllowedOne, Zenon
    <2> QED
      BY <2>1, <2>2, Zenon
  <1>7. new # <<>> => new[1].pc = "notifyUpdate"
    BY <1>3, Zenon
  <1> HIDE DEF new, g
  <1>8. StackInv' /\ ThreadsOK'
    BY <1>1, <1>2, <1>4, <1>6, StackStep, ThreadsStay, Zenon DEF workers, sweep
  <1>9. WakeupOK' /\ NoLostUpdate'
    BY <1>1, <1>2, <1>3, <1>4, <1>6, <1>7, WakeupStays, UpdatesStay, Zenon DEF sweep
  <1>10. EventsOK' /\ StartOK' /\ StopOK'
    <2>1. a = main => /\ job.name \in {"start", "poll"}
                      /\ job.name = "start" => Of(a) = Current
      BY <1>2, <1>4, Zenon DEF May, MainMay, Frame, Ending, Joining, StackInv, JobOK
    <2>2. CASE a = main /\ job.name = "start" /\ Of(a) \in Threaded
      <3>1. Of(a) = Current /\ Len(stack[main]) = 1 /\ main \in Actor
        BY <1>2, <1>4, <2>1, <2>2, Zenon DEF StartOK
      <3>2. new = <<>>
        BY <1>4, <2>2, ObserverType, Zenon DEF new, StackInv
      <3>3. stack'[main] = <<>>
        BY <1>1, <1>2, <1>4, <2>2, <3>1, <3>2, MainLeaves, Zenon
      <3>4. /\ Threaded' = Threaded /\ Members' = Members /\ sweep' = sweep
        BY <1>1, Zenon DEF sweep, Threaded, Members
      <3>5. EventsOK'
        BY <1>1, <1>2, <1>4, <2>2, <3>4, Zenon DEF EventsOK, sweep
      <3>6. StopOK'
        BY <1>1, <2>2, Zenon DEF StopOK, sweep
      <3>7. \A i \in 1..Len(modules) : modules[i] \in Threaded /\ Handled(i)' =>
              modules[i] \in is_started'
        <4> SUFFICES ASSUME NEW i \in 1..Len(modules), modules[i] \in Threaded, Handled(i)'
                     PROVE  modules[i] \in is_started'
          BY Zenon
        <4>1. i < job.next
          BY <1>1, Zenon DEF Handled, sweep
        <4>2. CASE i = job.next - 1
          BY <1>1, <3>1, <4>2, Zenon DEF Current
        <4>3. CASE i # job.next - 1
          BY <1>1, <1>4, <2>2, <4>1, <4>3, Zenon DEF StartOK, Handled
        <4> QED
          BY <4>2, <4>3, Zenon
      <3>8. StartOK'
        BY <1>1, <1>4, <2>2, <3>3, <3>4, <3>7, Zenon DEF StartOK, sweep
      <3> QED
        BY <3>5, <3>6, <3>8, Zenon
    <2>3. CASE ~(a = main /\ job.name = "start" /\ Of(a) \in Threaded)
      <3>1. a = main => job.name = "poll" \/ (job.name = "start" /\ Of(a) \notin Threaded)
        BY <2>1, <2>3, Zenon
      <3>2. /\ is_started' \subseteq is_started \cup {Of(a)}
            /\ Threaded \cap is_started \subseteq is_started'
            /\ need_update' \subseteq need_update \cup {Of(a)}
        BY <1>1, Zenon
      <3> QED
        BY <1>1, <1>3, <1>6, <3>1, <3>2, ActiveSweep, Zenon DEF workers
    <2> QED
      BY <2>2, <2>3, Zenon
  <1> QED
    BY <1>5, <1>8, <1>9, <1>10, Zenon DEF IInv

LEMMA StopStoppedKeeps ==
  ASSUME ChainAssumption, IInv, NEW a \in Actor, stop_stopped(a)
  PROVE  IInv'
  <1>1. /\ At(a, "stopped") /\ is_started' = is_started \ {Of(a)} /\ Replaces(a, <<>>)
        /\ UNCHANGED <<need_update, use_thread, thread, trigger, workers, sweep, mtx, owed>>
    BY Zenon DEF stop_stopped, Return, Leave, Replaces
  <1>2. /\ stack[a] # <<>> /\ May(a, Frame("stopped", Of(a))) /\ Of(a) \in Module
        /\ Head(stack[a]).pc = "stopped" /\ Of(a) \in Members /\ Allowed(a, <<>>)
    BY <1>1, Acting, AllowedNone, Zenon DEF IInv, At
  <1>3. "stopped" \notin Looping /\ "stopped" \notin Caring /\ "stopped" # "post"
    BY Zenon DEF Looping, Caring
  <1>4. /\ FlagTypes /\ StackInv /\ ThreadsOK /\ EventsOK /\ StartOK /\ StopOK /\ WakeupOK
        /\ NoLostUpdate /\ stack \in [Actor -> Seq(FrameType)]
    BY Zenon DEF IInv, StackInv
  <1>5. FlagTypes'
    BY <1>1, <1>2, <1>4, Zenon DEF FlagTypes, workers, sweep
  <1>6. StackInv' /\ ThreadsOK'
    BY <1>1, <1>2, <1>4, StackStep, ThreadsStay, Zenon DEF workers, sweep
  <1>7. WakeupOK' /\ NoLostUpdate'
    BY <1>1, <1>2, <1>3, <1>4, WakeupStays, UpdatesStay, Zenon DEF sweep
  <1>8. EventsOK' /\ StartOK' /\ StopOK'
    <2>1. /\ a = main => /\ job.name \in {"start", "stop", "poll"}
                         /\ job.name = "stop" => Of(a) = Current
          /\ Of(a) \in Threaded => a = main /\ job.name = "stop"
      BY <1>2, <1>4, Zenon
         DEF May, MainMay, WorkerMay, Frame, Starting, Creating, Ending, StackInv,
         JobOK
    <2>2. CASE a = main /\ job.name = "stop"
      <3>1. /\ Of(a) = Current /\ Len(stack[main]) = 1 /\ main \in Actor
            /\ stack[main][1].pc = "stopped"
        BY <1>2, <1>4, <2>1, <2>2, HeadIsFirst, Zenon DEF StopOK
      <3>2. stack'[main] = <<>>
        BY <1>1, <1>2, <1>4, <2>2, <3>1, MainLeaves, Zenon
      <3>3. /\ Threaded' = Threaded /\ Members' = Members /\ Observer' = Observer
            /\ sweep' = sweep
        BY <1>1, Zenon DEF sweep, Threaded, Members, Observer
      <3>4. EventsOK'
        BY <1>1, <1>2, <1>4, <2>2, <3>3, Zenon DEF EventsOK, sweep
      <3>5. StartOK'
        BY <1>1, <2>2, Zenon DEF StartOK, sweep
      <3>6. thread[Current] = 0 /\ Current \notin need_update
        BY <1>2, <1>4, <2>2, <3>1, Zenon DEF StopOK
      <3>7. \A i \in 1..Len(modules) : Handled(i)' =>
              /\ modules[i] \notin is_started' /\ modules[i] \notin need_update
              /\ thread[modules[i]] = 0
        <4> SUFFICES ASSUME NEW i \in 1..Len(modules), Handled(i)'
                     PROVE  /\ modules[i] \notin is_started' /\ modules[i] \notin need_update
                            /\ thread[modules[i]] = 0
          BY Zenon
        <4>1. i < job.next
          BY <1>1, Zenon DEF Handled, sweep
        <4>2. CASE i = job.next - 1
          BY <1>1, <3>1, <3>6, <4>2, Zenon DEF Current
        <4>3. CASE i # job.next - 1
          BY <1>1, <1>4, <2>2, <4>1, <4>3, Zenon DEF StopOK, Handled
        <4> QED
          BY <4>2, <4>3, Zenon
      <3>8. ASSUME NEW u \in Threaded, thread[u] # 0
            PROVE  /\ u \in is_started'
                   /\ Observer[u] \in Threaded => Observer[u] \in is_started'
        <4>1. /\ u \in is_started
              /\ Observer[u] \in Threaded => Observer[u] \in is_started
          BY <1>4, <2>2, <3>8, Zenon DEF StopOK
        <4>2. u # Current
          BY <3>6, <3>8, Zenon
        <4>3. Observer[u] # Current
          <5> SUFFICES ASSUME Observer[u] = Current PROVE FALSE
            BY Zenon
          <5>1. /\ job.next - 1 \in 1..Len(modules) /\ Len(modules) \in Nat
                /\ job.next \in Nat
            BY <1>2, <1>4, <2>2, CurrentType, Zenon DEF StackInv, JobOK
          <5>2. PICK j \in 1..Len(modules) : modules[j] = u
            BY <1>4, Zenon DEF StackInv, VectorOK, Members
          <5>3. j < job.next - 1
            BY <1>4, <5>1, <5>2, Zenon DEF StackInv, VectorOK, Current
          <5>4. Handled(j)
            BY <5>1, <5>3 DEF Handled
          <5> QED
            BY <1>4, <2>2, <3>8, <5>2, <5>4, Zenon DEF StopOK
        <4> QED
          BY <1>1, <3>1, <4>1, <4>2, <4>3, Zenon
      <3>9. StopOK'
        BY <1>1, <2>2, <3>2, <3>3, <3>7, <3>8, Zenon DEF StopOK, sweep
      <3> QED
        BY <3>4, <3>5, <3>9, Zenon
    <2>3. CASE ~(a = main /\ job.name = "stop")
      <3>1. a = main => job.name = "poll" \/ (job.name = "start" /\ Of(a) \notin Threaded)
        BY <2>1, <2>3, Zenon
      <3>2. /\ is_started' \subseteq is_started \cup {Of(a)}
            /\ Threaded \cap is_started \subseteq is_started'
            /\ need_update' \subseteq need_update \cup {Of(a)}
        BY <1>1, <2>1, <2>3, Zenon
      <3> QED
        BY <1>1, <1>2, <1>3, <3>1, <3>2, ActiveSweep, Zenon DEF workers
    <2> QED
      BY <2>2, <2>3, Zenon
  <1> QED
    BY <1>5, <1>6, <1>7, <1>8, Zenon DEF IInv
LEMMA NotifyFlagKeeps ==
  ASSUME ChainAssumption, IInv, NEW a \in Actor, notifyUpdate_flag(a)
  PROVE  IInv'
  <1> DEFINE f == Frame("post", Of(a))
  <1>1. /\ At(a, "need_update") /\ need_update' = need_update \cup {Of(a)} /\ Goto(a, "post")
        /\ UNCHANGED <<is_started, use_thread, thread, trigger, workers, sweep, mtx, owed>>
    BY Zenon DEF notifyUpdate_flag
  <1>2. /\ stack[a] # <<>> /\ May(a, Frame("need_update", Of(a))) /\ Of(a) \in Module
        /\ \A k \in Labels : Frame(k, Of(a)) \in FrameType
        /\ Head(stack[a]) = Frame("need_update", Of(a))
        /\ Head(stack[a]).pc = "need_update" /\ Of(a) \in Members
    BY <1>1, Acting, Zenon DEF IInv, At
  <1>3. /\ "need_update" \notin Looping /\ "post" \notin Looping /\ "post" \in Labels
        /\ f \in FrameType /\ f.pc = "post" /\ f.m = Of(a)
    BY <1>2, Zenon DEF Labels, Notifying, Looping, Frame
  <1>4. /\ FlagTypes /\ StackInv /\ ThreadsOK /\ EventsOK /\ StartOK /\ StopOK /\ WakeupOK
        /\ NoLostUpdate /\ stack \in [Actor -> Seq(FrameType)]
    BY Zenon DEF IInv, StackInv
  <1>5. FlagTypes'
    BY <1>1, <1>2, <1>4, Zenon DEF FlagTypes, workers, sweep
  <1>6. May(a, f)
    BY <1>2, Zenon DEF May, MainMay, WorkerMay, Frame, Starting, Creating, Ending,
       Joining, Notifying, Updating, Pushing, Looping, Polling
  <1>7. Replaces(a, <<f>>) /\ Allowed(a, <<f>>)
    BY <1>1, <1>2, <1>3, <1>4, <1>6, GotoReplaces, AllowedOne, Zenon
  <1>8. StackInv' /\ ThreadsOK'
    BY <1>1, <1>2, <1>4, <1>7, StackStep, ThreadsStay, Zenon DEF workers, sweep
  <1>9. EventsOK' /\ StartOK' /\ StopOK'
    <2>1. a = main => job.name = "poll" \/ (job.name = "start" /\ Of(a) \notin Threaded)
      BY <1>2, <1>4, Zenon
         DEF May, MainMay, Frame, Starting, Creating, Ending, Joining, StackInv,
         JobOK
    <2> QED
      BY <1>1, <1>3, <1>7, <2>1, ActiveSweep, Zenon DEF workers
  <1>10. NoLostUpdate'
    <2> PICK c \in Module : c = Of(a)
      BY <1>2, Zenon
    <2>1. Cared(c)'
      BY <1>1, Zenon DEF Cared
    <2>2. \A m \in Module : m # c /\ m \in need_update => m \in need_update'
      BY <1>1, Zenon
    <2>3. Head(stack[a]).m = c /\ owed' \subseteq owed \cup {c}
      BY <1>1, Zenon DEF Of
    <2> HIDE DEF f
    <2> QED
      BY <1>1, <1>2, <1>4, <1>7, <2>1, <2>2, <2>3, UpdatesMove, Zenon DEF sweep
  <1>11. WakeupOK'
    <2> SUFFICES ASSUME NEW v \in Worker, At(v, "assert")' \/ At(v, "wait")',
                        v[1] \in need_update'
                 PROVE  v[1] \in trigger' \/ \E b \in Actor : At(b, "post")' /\ Of(b)' = v[1]
      BY Zenon DEF WakeupOK
    <2>1. /\ <<f>> # <<>> /\ <<f>>[1] = f
      BY Zenon
    <2>2. /\ Head(stack'[a]) = f /\ stack'[a] # <<>>
          /\ \A b \in Actor : b # a => stack'[b] = stack[b]
      BY <1>2, <1>4, <1>7, <2>1, NewHead, Zenon
    <2>3. At(a, "post")' /\ Of(a)' = Of(a)
      BY <1>3, <2>2, Zenon DEF At, Of
    <2>4. CASE v[1] = Of(a)
      BY <2>3, <2>4, Zenon
    <2>5. CASE v[1] # Of(a)
      <3>1. v # a /\ v \in Actor
        BY <2>3, Zenon DEF At, Actor
      <3>2. (At(v, "assert") \/ At(v, "wait")) /\ v[1] \in need_update
        BY <1>1, <2>2, <2>5, <3>1, Zenon DEF At
      <3>3. CASE v[1] \in trigger
        BY <1>1, <3>3, Zenon
      <3>4. CASE \E b \in Actor : At(b, "post") /\ Of(b) = v[1]
        <4> PICK b \in Actor : At(b, "post") /\ Of(b) = v[1]
          BY <3>4, Zenon
        <4>1. b # a
          BY <2>5, Zenon
        <4>2. At(b, "post")' /\ Of(b)' = v[1]
          BY <2>2, <4>1, Zenon DEF At, Of
        <4> QED
          BY <4>2, Zenon
      <3> QED
        BY <1>4, <3>2, <3>3, <3>4, Zenon DEF WakeupOK
    <2> QED
      BY <2>4, <2>5, Zenon
  <1> QED
    BY <1>5, <1>8, <1>9, <1>10, <1>11, Zenon DEF IInv

LEMMA NotifyPostKeeps ==
  ASSUME ChainAssumption, IInv, NEW a \in Actor, notifyUpdate_post(a)
  PROVE  IInv'
  <1>1. /\ At(a, "post") /\ trigger' = trigger \cup ({Of(a)} \cap use_thread)
        /\ Replaces(a, <<>>)
        /\ UNCHANGED <<is_started, need_update, use_thread, thread, workers, sweep, mtx, owed>>
    BY Zenon DEF notifyUpdate_post, Return, Leave, Replaces
  <1>2. /\ stack[a] # <<>> /\ May(a, Frame("post", Of(a))) /\ Of(a) \in Module
        /\ Head(stack[a]).pc = "post" /\ Allowed(a, <<>>)
    BY <1>1, Acting, AllowedNone, Zenon DEF IInv, At
  <1>3. "post" \notin Looping /\ "post" \notin Caring
    BY Zenon DEF Looping, Caring
  <1>4. /\ FlagTypes /\ StackInv /\ ThreadsOK /\ EventsOK /\ StartOK /\ StopOK /\ WakeupOK
        /\ NoLostUpdate /\ stack \in [Actor -> Seq(FrameType)]
    BY Zenon DEF IInv, StackInv
  <1>5. FlagTypes'
    BY <1>1, <1>2, <1>4, Zenon DEF FlagTypes, workers, sweep
  <1>6. StackInv' /\ ThreadsOK'
    BY <1>1, <1>2, <1>4, StackStep, ThreadsStay, Zenon DEF workers, sweep
  <1>7. NoLostUpdate'
    BY <1>1, <1>2, <1>3, <1>4, UpdatesStay, Zenon DEF sweep
  <1>8. EventsOK' /\ StartOK' /\ StopOK'
    <2>1. a = main => SweepMay(<<>>)
      BY <1>2, <1>4, Zenon
         DEF SweepMay, May, MainMay, Frame, Starting, Creating, Ending, Joining
    <2> QED
      BY <1>1, <1>2, <1>4, <2>1, SweepStays, Zenon DEF workers
  <1>9. WakeupOK'
    <2> SUFFICES ASSUME NEW v \in Worker, At(v, "assert")' \/ At(v, "wait")',
                        v[1] \in need_update'
                 PROVE  v[1] \in trigger' \/ \E b \in Actor : At(b, "post")' /\ Of(b)' = v[1]
      BY Zenon DEF WakeupOK
    <2>1. /\ stack'[a] # <<>> => Head(stack'[a]).pc \in Resuming
          /\ \A b \in Actor : b # a => stack'[b] = stack[b]
      BY <1>1, <1>2, <1>4, NewHead, Zenon
    <2>2. v # a /\ v \in Actor
      BY <2>1, Zenon DEF At, Actor, Resuming
    <2>3. (At(v, "assert") \/ At(v, "wait")) /\ v[1] \in need_update /\ stack[v] # <<>>
      BY <1>1, <2>1, <2>2, Zenon DEF At
    <2>4. v[1] \in use_thread
      BY <1>4, <2>3, WorkerIsSet, Zenon
    <2>5. CASE v[1] \in trigger
      BY <1>1, <2>5, Zenon
    <2>6. CASE \E b \in Actor : At(b, "post") /\ Of(b) = v[1]
      <3> PICK b \in Actor : At(b, "post") /\ Of(b) = v[1]
        BY <2>6, Zenon
      <3>1. CASE b = a
        BY <1>1, <2>4, <3>1, Zenon
      <3>2. CASE b # a
        <4>1. At(b, "post")' /\ Of(b)' = v[1]
          BY <2>1, <3>2, Zenon DEF At, Of
        <4> QED
          BY <4>1, Zenon
      <3> QED
        BY <3>1, <3>2, Zenon
    <2> QED
      BY <1>4, <2>3, <2>5, <2>6, Zenon DEF WakeupOK
  <1> QED
    BY <1>5, <1>6, <1>7, <1>8, <1>9, Zenon DEF IInv

\* The main thread goes on in the only function it runs.
LEMMA MainGoesOn ==
  ASSUME StackInv, main \in Actor, stack[main] # <<>>, Len(stack[main]) = 1,
         NEW STATE f, Allowed(main, <<f>>), Replaces(main, <<f>>)
  PROVE  /\ stack'[main] # <<>> /\ Len(stack'[main]) = 1 /\ stack'[main][1] = f
         /\ \A b \in Actor : b # main => stack'[b] = stack[b]
  <1>1. /\ <<f>> # <<>> /\ <<f>>[1] = f /\ Len(<<f>>) = 1
    BY Zenon
  <1>2. /\ Len(stack'[main]) = Len(<<f>>) + Len(stack[main]) - 1
        /\ stack'[main] # <<>> /\ Head(stack'[main]) = <<f>>[1]
        /\ \A b \in Actor : b # main => stack'[b] = stack[b]
    BY <1>1, NewHead, Zenon
  <1>3. Len(stack'[main]) = 1
    <2>1. 1 + 1 - 1 = 1
      OBVIOUS
    <2> QED
      BY <1>1, <1>2, <2>1, Zenon
  <1>4. stack'[main] \in Seq(FrameType)
    BY ReplacedStack, Zenon DEF StackInv, Allowed
  <1> QED
    BY <1>1, <1>2, <1>3, <1>4, HeadAndTail

LEMMA StopDeleteKeeps ==
  ASSUME ChainAssumption, IInv, NEW a \in Actor, stop_delete(a)
  PROVE  IInv'
  <1> DEFINE m == Of(a)
             w == <<m, thread[m]>>
             f == Frame("stop_update", m)
  <1>1. /\ At(a, "stop_delete") /\ Goto(a, "stop_update")
        /\ life' = [life EXCEPT ![w] = "free"] /\ thread' = [thread EXCEPT ![m] = 0]
        /\ use_thread' = use_thread \ {m}
        /\ UNCHANGED <<is_started, need_update, trigger, want_quit, sweep, mtx, owed>>
    BY Zenon DEF stop_delete
  <1>2. /\ stack[a] # <<>> /\ May(a, Frame("stop_delete", m)) /\ m \in Module
        /\ \A k \in Labels : Frame(k, m) \in FrameType
        /\ Head(stack[a]).pc = "stop_delete"
    BY <1>1, Acting, Zenon DEF IInv, At
  <1>3. /\ "stop_update" \notin Looping /\ "stop_delete" \notin Looping
        /\ "stop_update" \in Labels /\ f \in FrameType /\ f.pc = "stop_update"
        /\ "stop_delete" \notin Caring /\ "stop_delete" \in Joining
    BY <1>2, Zenon DEF Labels, Ending, Joining, Looping, Caring, Frame
  <1>4. /\ FlagTypes /\ StackInv /\ ThreadsOK /\ EventsOK /\ StartOK /\ StopOK /\ WakeupOK
        /\ NoLostUpdate /\ stack \in [Actor -> Seq(FrameType)]
    BY Zenon DEF IInv, StackInv
  <1>5. /\ a = main /\ job.name = "stop" /\ m = Current /\ m \in Threaded
        /\ Len(stack[main]) = 1 /\ stack[main][1].pc = "stop_delete"
        /\ thread[m] # 0 /\ life[w] = "done"
    <2>1. a = main /\ job.name = "stop" /\ m = Current /\ m \in Threaded
      BY <1>1, <1>3, <1>4, JoiningIsStop, Zenon
    <2>2. stack[main][1].pc = "stop_delete"
      BY <1>2, <1>4, <2>1, HeadIsFirst, Zenon
    <2> QED
      BY <1>2, <1>4, <2>1, <2>2, Zenon DEF StopOK
  <1>6. May(a, f)
    BY <1>2, <1>5, Zenon DEF May, MainMay, Frame, Ending, Joining, Pushing
  <1>7. Replaces(a, <<f>>) /\ Allowed(a, <<f>>)
    BY <1>1, <1>2, <1>3, <1>4, <1>6, GotoReplaces, AllowedOne, Zenon
  <1>8. StackInv'
    BY <1>1, <1>2, <1>4, <1>7, StackStep, Zenon DEF sweep
  <1>9. FlagTypes'
    <2>1. 0 \in 0..Slots /\ thread \in [Module -> 0..Slots]
      BY <1>4 DEF FlagTypes, ChainAssumption
    <2>2. thread' \in [Module -> 0..Slots]
      BY <1>1, <2>1, Zenon
    <2>3. life' \in [Worker -> {"free", "new", "running", "done"}]
      BY <1>1, <1>4, Zenon DEF FlagTypes
    <2> QED
      BY <1>1, <1>4, <2>2, <2>3, Zenon DEF FlagTypes, sweep
  <1>10. WakeupOK' /\ NoLostUpdate'
    <2>1. <<f>>[1].pc = "stop_update"
      BY <1>3, Zenon
    <2> HIDE DEF f
    <2> QED
      BY <1>1, <1>2, <1>3, <1>4, <1>5, <1>7, <2>1, MainIsNoWorker, WakeupStays,
         UpdatesStay, Zenon
         DEF sweep
  <1>11. /\ Threaded' = Threaded /\ Observer' = Observer /\ Members' = Members
         /\ Current' = Current
    BY <1>1, Zenon DEF Threaded, Observer, Members, Current, sweep
  <1>12. /\ stack'[main] # <<>> /\ Len(stack'[main]) = 1 /\ stack'[main][1] = f
         /\ \A b \in Actor : b # main => stack'[b] = stack[b]
    BY <1>2, <1>3, <1>4, <1>5, <1>7, MainGoesOn, Zenon
  <1>13. ThreadsOK'
    <2>1. ASSUME NEW v \in Worker, life'[v] # "free" PROVE thread'[v[1]] = v[2]
      <3>1. v # w /\ v = <<v[1], v[2]>> /\ v[1] \in Module
        BY <1>1, <1>4, <2>1, SMTT(30) DEF FlagTypes, Worker
      <3>2. thread[v[1]] = v[2]
        BY <1>1, <1>4, <2>1, <3>1, Zenon DEF FlagTypes, ThreadsOK
      <3>3. v[1] # m
        BY <3>1, <3>2, Zenon
      <3> QED
        BY <1>1, <1>4, <3>1, <3>2, <3>3, Zenon DEF FlagTypes
    <2>2. ASSUME NEW v \in Worker, stack'[v] # <<>> PROVE life'[v] = "running"
      <3>1. life[v] = "running"
        BY <1>4, <1>12, <2>2, MainIsNoWorker, Zenon DEF ThreadsOK, Actor
      <3>2. v # w
        BY <1>5, <3>1, Zenon
      <3> QED
        BY <1>1, <1>4, <3>1, <3>2, Zenon DEF FlagTypes
    <2>3. ASSUME NEW u \in Module, thread'[u] # 0 PROVE u \in Threaded /\ u \in use_thread'
      <3>1. u # m /\ thread[u] # 0
        BY <1>1, <1>4, <2>3, Zenon DEF FlagTypes
      <3> QED
        BY <1>1, <1>4, <3>1, Zenon DEF ThreadsOK
    <2> QED
      BY <1>11, <2>1, <2>2, <2>3, Zenon DEF ThreadsOK
  <1>14. EventsOK' /\ StartOK'
    BY <1>1, <1>4, <1>5, <1>11, Zenon DEF EventsOK, StartOK, sweep
  <1>15. StopOK'
    <2>1. \A u \in Module : thread[u] = 0 => thread'[u] = 0
      BY <1>1, <1>4, Zenon DEF FlagTypes
    <2>2. thread'[Current] = 0
      BY <1>1, <1>2, <1>4, <1>5, Zenon DEF FlagTypes
    <2>3. \A i : Handled(i)' <=> Handled(i)
      BY <1>1, <1>2, <1>5, <1>12, Zenon DEF Handled, sweep
    <2>4. \A i \in 1..Len(modules) : modules[i] \in Module
      BY <1>4, Zenon DEF FlagTypes
    <2>5. Threaded \subseteq Module
      BY <1>4, ObserverType, Zenon DEF StackInv, VectorOK
    <2> QED
      BY <1>1, <1>2, <1>3, <1>4, <1>5, <1>11, <1>12, <2>1, <2>2, <2>3, <2>4, <2>5,
         ZenonT(30)
         DEF StopOK, sweep
  <1> QED
    BY <1>8, <1>9, <1>10, <1>13, <1>14, <1>15, Zenon DEF IInv
\* Only a start request makes threads.
LEMMA CreatingIsStart ==
  ASSUME ChainAssumption, IInv, NEW a \in Actor, NEW l \in Creating, At(a, l)
  PROVE  /\ a = main /\ job.name = "start" /\ Of(a) = Current /\ Current \in Threaded
         /\ main \in Actor /\ main \notin Worker
         /\ stack[main] # <<>> /\ Len(stack[main]) = 1 /\ stack[main][1].pc = l
         /\ Head(stack[main]).pc = l
         /\ \A k \in Starting \cup Creating :
              May(main, Frame(k, Current)) /\ Frame(k, Current) \in FrameType
  <1>1. /\ StackInv /\ StartOK /\ stack \in [Actor -> Seq(FrameType)]
        /\ job.name \in {"events", "start", "stop", "poll"}
    BY Zenon DEF IInv, StackInv, JobOK
  <1>2. /\ May(a, Frame(l, Of(a))) /\ Frame(l, Of(a)).pc = l /\ Frame(l, Of(a)).m = Of(a)
        /\ stack[a] # <<>> /\ \A k \in Labels : Frame(k, Of(a)) \in FrameType
    BY <1>1, Acting, Zenon DEF Frame
  <1>3. a = main
    BY <1>2, Zenon DEF May, WorkerMay
  <1>4. MainMay(Frame(l, Of(a)))
    BY <1>2, <1>3, Zenon DEF May
  <1>5. l \notin Starting \cup Joining \cup Ending \cup Notifying
    BY Zenon DEF Starting, Creating, Ending, Notifying, Joining
  <1>6. job.name = "start" /\ Of(a) = Current /\ Current \in Threaded
    BY <1>1, <1>2, <1>4, <1>5, Zenon DEF MainMay
  <1>7. stack[main][1].pc = l /\ Head(stack[main]).pc = l
    BY <1>1, <1>2, <1>3, HeadIsFirst, Zenon DEF At
  <1>8. Len(stack[main]) = 1
    BY <1>1, <1>2, <1>3, <1>6, Zenon DEF StartOK
  <1>9. ASSUME NEW k \in Starting \cup Creating
        PROVE  May(main, Frame(k, Current)) /\ Frame(k, Current) \in FrameType
    <2>1. k \in Labels /\ k \notin Pushing
      BY Zenon DEF Labels, Starting, Creating, Pushing
    <2> QED
      BY <1>2, <1>3, <1>6, <2>1, Zenon DEF May, MainMay, Frame
  <1> QED
    BY <1>2, <1>3, <1>6, <1>7, <1>8, <1>9, MainIsNoWorker, Zenon

LEMMA StartNewKeeps ==
  ASSUME ChainAssumption, IInv, NEW a \in Actor, start_new(a)
  PROVE  IInv'
  <1> DEFINE m == Current
             f == Frame("run", m)
  <1>1. At(a, "new") /\ "new" \in Creating /\ "run" \in Creating
    BY Zenon DEF start_new, Creating
  <1>2. /\ a = main /\ job.name = "start" /\ Of(a) = m /\ m \in Threaded
        /\ main \in Actor /\ main \notin Worker
        /\ stack[main] # <<>> /\ Len(stack[main]) = 1 /\ stack[main][1].pc = "new"
        /\ Head(stack[main]).pc = "new" /\ May(main, f) /\ f \in FrameType
    BY <1>1, CreatingIsStart, Zenon
  <1>3. PICK k \in 1..Slots :
          /\ life[<<m, k>>] = "free"
          /\ life' = [life EXCEPT ![<<m, k>>] = "new"]
          /\ want_quit' = want_quit \ {<<m, k>>}
          /\ thread' = [thread EXCEPT ![m] = k]
    BY <1>2, Zenon DEF start_new
  <1>4. /\ Goto(main, "run")
        /\ UNCHANGED <<is_started, need_update, use_thread, trigger, sweep, mtx, owed>>
    BY <1>2, Zenon DEF start_new
  <1>5. /\ FlagTypes /\ StackInv /\ ThreadsOK /\ EventsOK /\ StartOK /\ StopOK /\ WakeupOK
        /\ NoLostUpdate /\ stack \in [Actor -> Seq(FrameType)]
    BY Zenon DEF IInv, StackInv
  <1>6. m \in Module /\ m \in Members /\ thread[m] = 0 /\ m \in use_thread
    BY <1>2, <1>5, CurrentType, Zenon DEF StartOK
  <1>7. /\ "run" \in Labels /\ "new" \notin Looping /\ "run" \notin Looping
        /\ "new" \notin Caring /\ f.pc = "run"
    BY Zenon DEF Labels, Creating, Looping, Caring, Frame
  <1>8. Replaces(main, <<f>>) /\ Allowed(main, <<f>>)
    BY <1>2, <1>4, <1>5, <1>7, GotoReplaces, AllowedOne, Zenon
  <1> HIDE DEF m
  <1>9. StackInv'
    BY <1>2, <1>4, <1>5, <1>8, StackStep, Zenon DEF sweep
  <1>10. FlagTypes'
    <2>1. thread' \in [Module -> 0..Slots]
      <3>1. k \in 0..Slots /\ thread \in [Module -> 0..Slots]
        BY <1>5 DEF FlagTypes, ChainAssumption
      <3> QED
        BY <1>3, <3>1, Zenon
    <2>2. life' \in [Worker -> {"free", "new", "running", "done"}]
      BY <1>3, <1>5, Zenon DEF FlagTypes
    <2> QED
      BY <1>3, <1>4, <1>5, <2>1, <2>2, Zenon DEF FlagTypes, sweep
  <1>11. WakeupOK' /\ NoLostUpdate'
    <2>1. <<f>>[1].pc = "run"
      BY <1>7, Zenon
    <2> HIDE DEF f
    <2> QED
      BY <1>2, <1>4, <1>5, <1>7, <1>8, <2>1, WakeupStays, UpdatesStay, Zenon DEF sweep
  <1>12. /\ Threaded' = Threaded /\ Observer' = Observer /\ Members' = Members
         /\ Current' = Current
    BY <1>4, Zenon DEF Threaded, Observer, Members, Current, sweep
  <1>13. /\ stack'[main] # <<>> /\ Len(stack'[main]) = 1 /\ stack'[main][1] = f
         /\ \A b \in Actor : b # main => stack'[b] = stack[b]
    BY <1>2, <1>5, <1>8, MainGoesOn, Zenon
  <1>14. <<m, k>> \in Worker
    BY <1>6, Zenon DEF Worker
  <1>15. ThreadsOK'
    <2>1. ASSUME NEW v \in Worker, life'[v] # "free" PROVE thread'[v[1]] = v[2]
      <3>1. v = <<v[1], v[2]>> /\ v[1] \in Module /\ v[2] \in 1..Slots
        BY DEF Worker
      <3>2. CASE v = <<m, k>>
        BY <1>3, <1>5, <1>6, <3>2, Zenon DEF FlagTypes
      <3>3. CASE v # <<m, k>>
        <4>1. thread[v[1]] = v[2]
          BY <1>3, <1>5, <2>1, <3>3, Zenon DEF FlagTypes, ThreadsOK
        <4>2. v[2] # 0
          BY <3>1 DEF ChainAssumption
        <4>3. v[1] # m
          BY <1>6, <4>1, <4>2, Zenon
        <4> QED
          BY <1>3, <1>5, <3>1, <4>1, <4>3, Zenon DEF FlagTypes
      <3> QED
        BY <3>2, <3>3, Zenon
    <2>2. ASSUME NEW v \in Worker, stack'[v] # <<>> PROVE life'[v] = "running"
      <3>1. life[v] = "running"
        BY <1>2, <1>5, <1>13, <2>2, Zenon DEF ThreadsOK, Actor
      <3>2. v # <<m, k>>
        BY <1>3, <3>1, Zenon
      <3> QED
        BY <1>3, <1>5, <3>1, <3>2, Zenon DEF FlagTypes
    <2>3. ASSUME NEW u \in Module, thread'[u] # 0 PROVE u \in Threaded /\ u \in use_thread
      <3>1. CASE u = m
        BY <1>2, <1>6, <3>1, Zenon
      <3>2. CASE u # m
        BY <1>3, <1>5, <2>3, <3>2, Zenon DEF FlagTypes, ThreadsOK
      <3> QED
        BY <3>1, <3>2, Zenon
    <2> QED
      BY <1>4, <1>12, <2>1, <2>2, <2>3, Zenon DEF ThreadsOK
  <1>16. EventsOK' /\ StopOK'
    BY <1>2, <1>4, <1>5, <1>12, Zenon DEF EventsOK, StopOK, sweep
  <1>17. StartOK'
    <2>1. \A i : Handled(i)' <=> Handled(i)
      BY <1>2, <1>4, <1>13, Zenon DEF Handled, sweep
    <2>2. ASSUME NEW i \in 1..Len(modules), modules[i] \in Threaded, i >= job.next
          PROVE  thread'[modules[i]] = 0
      <3>1. /\ job.next - 1 \in 1..Len(modules) /\ job.next \in Nat
            /\ modules[job.next - 1] = m
        BY <1>2, <1>5, CurrentType, Zenon DEF StackInv, JobOK, Current, m
      <3>2. i # job.next - 1
        BY <2>2, <3>1
      <3>3. modules[i] # m
        BY <1>5, <3>1, <3>2, Zenon DEF StackInv, VectorOK
      <3>4. thread[modules[i]] = 0 /\ modules[i] \in Module
        BY <1>2, <1>5, <2>2, Zenon DEF StartOK, FlagTypes
      <3> QED
        BY <1>3, <1>5, <3>3, <3>4, Zenon DEF FlagTypes
    <2>3. stack'[main][1].pc = "run"
      BY <1>7, <1>13, Zenon
    <2> QED
      BY <1>2, <1>4, <1>5, <1>12, <1>13, <2>1, <2>2, <2>3, ZenonT(30) DEF StartOK, sweep
  <1> QED
    BY <1>9, <1>10, <1>11, <1>15, <1>16, <1>17, Zenon DEF IInv
\* The new thread begins with its loop.
LEMMA StartRunKeeps ==
  ASSUME ChainAssumption, IInv, NEW a \in Actor, start_run(a)
  PROVE  IInv'
  <1> DEFINE m == Current
             w == <<m, thread[m]>>
             f == Frame("started", m)
             l == Frame("loop", m)
  <1>1. At(a, "run") /\ "run" \in Creating /\ "started" \in Starting
    BY Zenon DEF start_run, Creating, Starting
  <1>2. /\ a = main /\ job.name = "start" /\ Of(a) = m /\ m \in Threaded
        /\ main \in Actor /\ main \notin Worker
        /\ stack[main] # <<>> /\ Len(stack[main]) = 1 /\ stack[main][1].pc = "run"
        /\ Head(stack[main]).pc = "run" /\ May(main, f) /\ f \in FrameType
    BY <1>1, CreatingIsStart, Zenon
  <1>3. /\ thread[m] # 0
        /\ life' = [life EXCEPT ![w] = IF @ = "new" THEN "running" ELSE @]
        /\ stack' = [stack EXCEPT
             ![main] = <<f>> \o Tail(@),
             ![w] = IF life[w] = "new" THEN <<l>> ELSE @]
        /\ UNCHANGED <<flags, want_quit, sweep, mtx, owed>>
    BY <1>2, Zenon DEF start_run
  <1>4. /\ FlagTypes /\ StackInv /\ ThreadsOK /\ EventsOK /\ StartOK /\ StopOK /\ WakeupOK
        /\ NoLostUpdate /\ stack \in [Actor -> Seq(FrameType)]
    BY Zenon DEF IInv, StackInv
  <1>5. /\ m \in Module /\ m \in Members /\ w \in Worker /\ w # main /\ w \in Actor
    <2>1. m \in Module /\ m \in Members
      BY <1>2, <1>4, CurrentType, Zenon
    <2>2. thread[m] \in 1..Slots
      BY <1>3, <1>4, <2>1 DEF FlagTypes, ChainAssumption
    <2>3. w \in Worker
      BY <2>1, <2>2, Zenon DEF Worker
    <2> QED
      BY <1>2, <2>1, <2>3, Zenon DEF Actor
  <1>6. /\ f.pc = "started" /\ l.pc = "loop" /\ l.m = m /\ l \in FrameType
        /\ "loop" \in Looping /\ "loop" \in Looping \ {"clear"}
    BY <1>5, Zenon DEF Frame, FrameType, Labels, Looping
  <1>7. Tail(stack[main]) = <<>>
    <2>1. /\ Tail(stack[main]) \in Seq(FrameType)
          /\ Len(Tail(stack[main])) = Len(stack[main]) - 1
      BY <1>2, <1>4, HeadAndTail, Zenon
    <2>2. Len(Tail(stack[main])) = 0
      BY <1>2, <2>1
    <2> QED
      BY <2>1, <2>2, EmptyHasNoLength, Zenon
  <1>8. <<f>> \o Tail(stack[main]) = <<f>> /\ <<f>> \in Seq(FrameType)
    <2>1. <<f>> \in Seq(FrameType)
      BY <1>2
    <2> QED
      BY <1>7, <2>1, ConcatenatedEmpty, Zenon
  <1> HIDE DEF m, w, f, l
  <1>9. /\ stack'[main] = <<f>>
        /\ stack'[w] = IF life[w] = "new" THEN <<l>> ELSE stack[w]
        /\ \A b \in Actor : b # main /\ b # w => stack'[b] = stack[b]
        /\ DOMAIN stack' = Actor /\ stack' = [b \in Actor |-> stack'[b]]
    <2> DEFINE s == [stack EXCEPT ![main] = <<f>>]
               t == IF life[w] = "new" THEN <<l>> ELSE stack[w]
    <2>1. s \in [Actor -> Seq(FrameType)] /\ s[w] = stack[w] /\ s[main] = <<f>>
          /\ \A b \in Actor : b # main => s[b] = stack[b]
      BY <1>2, <1>4, <1>5, <1>8, Zenon
    <2>2. stack' = [s EXCEPT ![w] = t]
      BY <1>3, <1>8, <2>1, Zenon
    <2> HIDE DEF s, t
    <2>3. /\ stack'[main] = s[main] /\ stack'[w] = t
          /\ \A b \in Actor : b # main /\ b # w => stack'[b] = s[b]
          /\ DOMAIN stack' = Actor /\ stack' = [b \in Actor |-> stack'[b]]
      BY <1>2, <1>5, <2>1, <2>2, Zenon
    <2> QED
      BY <2>1, <2>3, Zenon DEF t
  <1>10. life[w] = "new" => stack[w] = <<>>
    BY <1>4, <1>5, Zenon DEF ThreadsOK
  <1>11. \A b \in Actor : b # main => \/ stack'[b] = stack[b]
                                      \/ b = w /\ stack[b] = <<>> /\ stack'[b] = <<l>>
    BY <1>9, <1>10, Zenon
  <1>12. /\ stack' \in [Actor -> Seq(FrameType)]
         /\ Len(<<f>>) = 1 /\ <<f>>[1] = f /\ Len(<<l>>) = 1 /\ <<l>>[1] = l
         /\ <<f>> # <<>> /\ <<l>> # <<>> /\ Head(<<f>>) = f /\ Head(<<l>>) = l
    <2>1. <<l>> \in Seq(FrameType)
      BY <1>6
    <2>2. \A b \in Actor : stack'[b] \in Seq(FrameType)
      BY <1>4, <1>8, <1>9, <1>11, <2>1, Zenon
    <2> QED
      BY <1>9, <2>2
  <1>13. /\ UNCHANGED <<is_started, need_update, use_thread, thread, trigger, sweep, owed, mtx>>
         /\ Threaded' = Threaded /\ Observer' = Observer /\ Members' = Members
         /\ Current' = Current
    BY <1>3, Zenon DEF flags, Threaded, Observer, Members, Current, sweep
  <1>14. FlagTypes'
    <2>1. life' \in [Worker -> {"free", "new", "running", "done"}]
      BY <1>3, <1>4, <1>5, Zenon DEF FlagTypes
    <2> QED
      BY <1>3, <1>4, <1>13, <2>1, Zenon DEF FlagTypes, sweep
  <1>15. StackInv'
    <2>1. VectorOK'
      BY <1>4, <1>13 DEF StackInv, VectorOK, sweep
    <2>2. JobOK'
      BY <1>2, <1>4, <1>13, Zenon DEF StackInv, JobOK, sweep
    <2>3. FramesOK'
      <3>1. \A b \in Actor : \A g : May(b, g) => May(b, g)'
        BY <1>13, ZenonT(30) DEF May, MainMay, WorkerMay, sweep
      <3>2. May(w, l)
        BY <1>2, <1>5, <1>6, Zenon
           DEF w, May, WorkerMay, Looping, Starting, Creating, Ending, Joining,
           Updating, Pushing, Polling
      <3>3. ASSUME NEW b \in Actor, NEW i \in 1..Len(stack'[b]) PROVE May(b, stack'[b][i])
        <4>1. CASE b = main
          BY <1>2, <1>9, <1>12, <3>3, <4>1
        <4>2. CASE stack'[b] = stack[b]
          BY <1>4, <3>3, <4>2, Zenon DEF StackInv, FramesOK
        <4>3. CASE b = w /\ stack'[b] = <<l>>
          BY <1>12, <3>2, <3>3, <4>3
        <4> QED
          BY <1>11, <4>1, <4>2, <4>3, Zenon
      <3> QED
        BY <3>1, <3>3, Zenon DEF FramesOK
    <2>4. LoopIsLast'
      <3>1. ASSUME NEW v \in Worker, NEW i \in 1..Len(stack'[v])
            PROVE  stack'[v][i].pc \in Looping <=> i = Len(stack'[v])
        <4>0. v \in Actor /\ v # main
          BY <1>2, Zenon DEF Actor
        <4>1. CASE stack'[v] = stack[v]
          BY <1>4, <3>1, <4>1, Zenon DEF StackInv, LoopIsLast
        <4>2. CASE stack'[v] = <<l>>
          <5>1. i = 1 /\ Len(stack'[v]) = 1
            BY <1>12, <3>1, <4>2
          <5> QED
            BY <1>6, <1>12, <4>2, <5>1, Zenon
        <4> QED
          BY <1>11, <4>0, <4>1, <4>2, Zenon
      <3> QED
        BY <3>1, Zenon DEF LoopIsLast
    <2>5. CallersWait'
      <3>1. ASSUME NEW b \in Actor, NEW i \in 2..Len(stack'[b])
            PROVE  stack'[b][i].pc \in Resuming
        <4>1. CASE b = main
          BY <1>9, <1>12, <3>1, <4>1
        <4>2. CASE stack'[b] = stack[b]
          BY <1>4, <3>1, <4>2, Zenon DEF StackInv, CallersWait
        <4>3. CASE stack'[b] = <<l>>
          BY <1>12, <3>1, <4>3
        <4> QED
          BY <1>11, <4>1, <4>2, <4>3, Zenon
      <3> QED
        BY <3>1, Zenon DEF CallersWait
    <2> QED
      BY <1>12, <2>1, <2>2, <2>3, <2>4, <2>5, Zenon DEF StackInv
  <1>16. ThreadsOK'
    <2>1. ASSUME NEW v \in Worker
          PROVE  /\ life'[v] # "free" => thread[v[1]] = v[2]
                 /\ stack'[v] # <<>> => life'[v] = "running"
      <3>1. v \in Actor /\ v # main
        BY <1>2, Zenon DEF Actor
      <3>2. CASE v # w
        BY <1>3, <1>4, <1>9, <3>1, <3>2, Zenon DEF ThreadsOK, FlagTypes
      <3>3. CASE v = w
        <4>1. thread[v[1]] = v[2]
          BY <3>3, Zenon DEF w
        <4>2. stack'[v] # <<>> => life'[v] = "running"
          BY <1>3, <1>4, <1>5, <1>9, <3>3, ZenonT(30) DEF ThreadsOK, FlagTypes
        <4> QED
          BY <4>1, <4>2, Zenon
      <3> QED
        BY <3>2, <3>3, Zenon
    <2> QED
      BY <1>4, <1>13, <2>1, Zenon DEF ThreadsOK
  <1>17. EventsOK' /\ StopOK'
    BY <1>2, <1>4, <1>13, Zenon DEF EventsOK, StopOK, sweep
  <1>18. StartOK'
    <2>1. \A i : Handled(i)' <=> Handled(i)
      BY <1>2, <1>9, <1>12, <1>13, Zenon DEF Handled, sweep
    <2>2. stack'[main][1].pc = "started" /\ Len(stack'[main]) = 1
      BY <1>6, <1>9, <1>12, Zenon
    <2> QED
      BY <1>2, <1>4, <1>13, <2>1, <2>2, Zenon DEF StartOK, sweep
  <1>19. \A b \in Actor : At(b, "post") => stack'[b] = stack[b]
    BY <1>2, <1>11, Zenon DEF At
  <1>20. WakeupOK'
    <2> SUFFICES ASSUME NEW v \in Worker, At(v, "assert")' \/ At(v, "wait")',
                        v[1] \in need_update'
                 PROVE  v[1] \in trigger' \/ \E b \in Actor : At(b, "post")' /\ Of(b)' = v[1]
      BY Zenon DEF WakeupOK
    <2>1. v \in Actor /\ v # main
      BY <1>2, Zenon DEF Actor
    <2>2. stack'[v] = stack[v]
      BY <1>6, <1>11, <1>12, <2>1, Zenon DEF At
    <2>3. v[1] \in trigger \/ \E b \in Actor : At(b, "post") /\ Of(b) = v[1]
      BY <1>4, <1>13, <2>2, Zenon DEF WakeupOK, At
    <2> QED
      BY <1>13, <1>19, <2>3, Zenon DEF At, Of
  <1>21. NoLostUpdate'
    <2>1. ASSUME NEW k \in Caring, NEW c \in Module, Pending(k, c) PROVE Pending(k, c)'
      <3> PICK b \in Actor : \E i \in 1..Len(stack[b]) : stack[b][i] = Frame(k, c)
        BY <2>1, Zenon DEF Pending
      <3> PICK i \in 1..Len(stack[b]) : stack[b][i] = Frame(k, c)
        BY Zenon
      <3>1. b # main
        BY <1>2 DEF Caring, Frame
      <3>2. stack[b] # <<>>
        OBVIOUS
      <3>3. stack'[b] = stack[b]
        BY <1>11, <3>1, <3>2, Zenon
      <3> QED
        BY <3>3, Zenon DEF Pending
    <2>2. DOMAIN Observer \subseteq Module
      BY <1>4, ObserverType, Zenon DEF StackInv
    <2> QED
      BY <1>4, <1>13, <2>1, <2>2, Zenon DEF NoLostUpdate, FlagTypes, Caring
  <1> QED
    BY <1>14, <1>15, <1>16, <1>17, <1>18, <1>20, <1>21, Zenon DEF IInv
-----------------------------------------------------------------------------
(* The requests and the sweeps over the vector.                            *)

\* Nobody loses a wakeup or an update when no function runs and no flag
\* changes.
LEMMA NothingMoves ==
  ASSUME WakeupOK, NoLostUpdate, \A b \in Actor : b # main => stack'[b] = stack[b],
         stack[main] = <<>>, main \in Actor, main \notin Worker,
         UNCHANGED <<need_update, trigger, owed, pipeline>>
  PROVE  WakeupOK' /\ NoLostUpdate'
  <1>1. \A w \in Worker : w \in Actor /\ w # main
    BY Zenon DEF Actor
  <1>2. \A b \in Actor : At(b, "post") => b # main /\ At(b, "post")' /\ Of(b)' = Of(b)
    BY Zenon DEF At, Of
  <1>3. WakeupOK'
    BY <1>1, <1>2 DEF WakeupOK, At
  <1>4. ASSUME NEW l, NEW m, Pending(l, m) PROVE Pending(l, m)'
    <2> PICK b \in Actor : \E i \in 1..Len(stack[b]) : stack[b][i] = Frame(l, m)
      BY <1>4, Zenon DEF Pending
    <2>1. b # main
      OBVIOUS
    <2> QED
      BY <2>1, Zenon DEF Pending
  <1>5. Observer' = Observer
    BY Zenon DEF Observer
  <1> QED
    BY <1>3, <1>4, <1>5, Zenon DEF NoLostUpdate

\* A request begins: the main thread runs nothing, and in a start request no
\* worker does.
LEMMA BeginKeeps ==
  ASSUME ChainAssumption, IInv, pipeline_start \/ pipeline_stop \/ pipeline_poll
  PROVE  IInv'
  <1>1. /\ stack[main] = <<>> /\ job.name = "events"
        /\ UNCHANGED <<flags, workers, pipeline, modules, mtx, stack, owed>>
    BY Zenon DEF pipeline_start, pipeline_stop, pipeline_poll, Begin, Idle
  <1>2. \/ /\ pipeline_started' = TRUE /\ late' = {} /\ job' = [name |-> "start", next |-> 1]
           /\ Restart \/ ~pipeline_started
        \/ /\ pipeline_started' = FALSE /\ late' = late /\ job' = [name |-> "stop", next |-> 1]
        \/ /\ pipeline_started /\ pipeline_started' = pipeline_started /\ late' = late
           /\ job' = [name |-> "poll", next |-> 1]
    BY Zenon DEF pipeline_start, pipeline_stop, pipeline_poll, Begin
  <1>3. /\ FlagTypes /\ StackInv /\ ThreadsOK /\ EventsOK /\ StartOK /\ StopOK /\ WakeupOK
        /\ NoLostUpdate /\ stack \in [Actor -> Seq(FrameType)]
        /\ VectorOK /\ JobOK /\ FramesOK /\ LoopIsLast /\ CallersWait
        /\ main \in Actor /\ main \notin Worker /\ Len(modules) \in Nat
    BY MainIsNoWorker, SeqIsFunction, Zenon DEF IInv, StackInv, Actor, VectorOK
  <1>4. /\ Threaded' = Threaded /\ Observer' = Observer /\ Members' = Members
        /\ job'.next = 1 /\ job'.name \in {"start", "stop", "poll"}
        /\ job' \in [name : {"events", "start", "stop", "poll"}, next : Nat]
    BY <1>1, <1>2 DEF Threaded, Observer, Members
  <1>5. UNCHANGED <<is_started, need_update, use_thread, thread, trigger, want_quit, life>>
    BY <1>1, Zenon DEF flags, workers
  <1>6. FlagTypes'
    BY <1>1, <1>2, <1>3, <1>5, Zenon DEF FlagTypes
  <1>7. job'.name = "start" => /\ \A m \in Module : thread[m] = 0
                               /\ need_update \cap Threaded = {}
                               /\ \A w \in Worker : stack[w] = <<>>
    <2> SUFFICES ASSUME job'.name = "start"
                 PROVE  /\ \A m \in Module : thread[m] = 0
                        /\ need_update \cap Threaded = {}
                        /\ \A w \in Worker : stack[w] = <<>>
      BY Zenon
    <2>1. Restart \/ ~pipeline_started
      BY <1>2
    <2>2. /\ \A m \in Module : thread[m] = 0
          /\ need_update \cap Threaded = {}
      <3>1. CASE Restart
        BY <1>3, <3>1, ObserverType, Zenon DEF ThreadsOK
      <3>2. CASE ~pipeline_started
        BY <1>1, <1>3, <3>2, Zenon DEF EventsOK
      <3> QED
        BY <2>1, <3>1, <3>2, Zenon
    <2>3. ASSUME NEW w \in Worker PROVE stack[w] = <<>>
      BY <1>3, <2>2, WorkerIsSet, Zenon
    <2> QED
      BY <2>2, <2>3, Zenon
  <1>8. StackInv'
    <2>1. VectorOK'
      BY <1>1, <1>3, <1>4, Zenon DEF VectorOK
    <2>2. JobOK'
      BY <1>1, <1>3, <1>4 DEF JobOK
    <2>3. FramesOK'
      <3> SUFFICES ASSUME NEW a \in Actor, NEW i \in 1..Len(stack[a])
                   PROVE  May(a, stack[a][i])'
        BY <1>1, Zenon DEF FramesOK
      <3>1. a # main
        BY <1>1
      <3>2. a \in Worker /\ job'.name # "start"
        BY <1>7, <3>1 DEF Actor
      <3>3. May(a, stack[a][i])
        BY <1>3, Zenon DEF FramesOK
      <3> QED
        BY <1>1, <1>4, <3>1, <3>2, <3>3, Zenon DEF May, WorkerMay
    <2>4. LoopIsLast' /\ CallersWait' /\ stack' \in [Actor -> Seq(FrameType)]
      BY <1>1, <1>3, Zenon DEF LoopIsLast, CallersWait
    <2> QED
      BY <2>1, <2>2, <2>3, <2>4, Zenon DEF StackInv
  <1>9. ThreadsOK'
    BY <1>1, <1>3, <1>4, <1>5, Zenon DEF ThreadsOK
  <1>10. WakeupOK' /\ NoLostUpdate'
    BY <1>1, <1>3, <1>5, NothingMoves, Zenon
  <1>11. \A i \in 1..Len(modules) : ~Handled(i)'
    BY <1>4 DEF Handled
  <1>12. EventsOK'
    BY <1>1, <1>2, <1>3, <1>4, <1>5, SMTT(30) DEF EventsOK
  <1>13. StartOK'
    BY <1>1, <1>3, <1>4, <1>5, <1>7, <1>11, Zenon DEF StartOK, FlagTypes
  <1>14. StopOK'
    <2>1. job'.name = "stop" => \A u \in Threaded : thread[u] # 0 => Threaded \subseteq is_started
      <3>1. Threaded \subseteq Module
        BY <1>3, ObserverType, Zenon DEF VectorOK
      <3> QED
        BY <1>1, <1>3, <3>1, Zenon DEF EventsOK, FlagTypes
    <2> QED
      BY <1>1, <1>4, <1>5, <1>11, <2>1, Zenon DEF StopOK
  <1> QED
    BY <1>6, <1>8, <1>9, <1>10, <1>12, <1>13, <1>14, Zenon DEF IInv

LEMMA AdvanceKeeps ==
  ASSUME ChainAssumption, IInv, Advance
  PROVE  IInv'
  <1>1. /\ stack[main] = <<>> /\ job.name # "events"
        /\ UNCHANGED <<flags, workers, pipeline, modules, late, pipeline_started, mtx, owed>>
        /\ \/ /\ job.next <= Len(modules)
              /\ stack' = [stack EXCEPT ![main] = <<Frame(job.name, modules[job.next])>>]
              /\ job' = [job EXCEPT !.next = @ + 1]
           \/ /\ job.next > Len(modules)
              /\ job' = [name |-> "events", next |-> 1] /\ UNCHANGED stack
    BY Zenon DEF Advance
  <1>2. /\ FlagTypes /\ StackInv /\ ThreadsOK /\ EventsOK /\ StartOK /\ StopOK /\ WakeupOK
        /\ NoLostUpdate /\ stack \in [Actor -> Seq(FrameType)]
        /\ VectorOK /\ JobOK /\ FramesOK /\ LoopIsLast /\ CallersWait
        /\ main \in Actor /\ main \notin Worker /\ Len(modules) \in Nat
    BY MainIsNoWorker, SeqIsFunction, Zenon DEF IInv, StackInv, Actor, VectorOK
  <1>3. /\ Threaded' = Threaded /\ Observer' = Observer /\ Members' = Members
    BY <1>1, Zenon DEF Threaded, Observer, Members
  <1>4. UNCHANGED <<is_started, need_update, use_thread, thread, trigger, want_quit, life>>
    BY <1>1, Zenon DEF flags, workers
  <1>5. FlagTypes'
    BY <1>1, <1>2, <1>4, Zenon DEF FlagTypes
  <1>6. VectorOK'
    BY <1>1, <1>2, <1>3, Zenon DEF VectorOK
  <1>7. /\ job.name \in {"start", "stop", "poll"} /\ job.next \in 1..(Len(modules) + 1)
        /\ job \in [name : {"events", "start", "stop", "poll"}, next : Nat]
        /\ \A i \in 1..Len(modules) : Handled(i) <=> i < job.next
    BY <1>1, <1>2, Zenon DEF JobOK, Handled
  <1>8. Threaded \subseteq Module /\ \A i \in 1..Len(modules) : modules[i] \in Module
    BY <1>2, ObserverType, Zenon DEF VectorOK, FlagTypes
  <1>9. CASE /\ job.next <= Len(modules)
             /\ stack' = [stack EXCEPT ![main] = <<Frame(job.name, modules[job.next])>>]
             /\ job' = [job EXCEPT !.next = @ + 1]
    <2> DEFINE n == job.next
               m == modules[n]
               f == Frame(job.name, m)
    <2>1. n \in 1..Len(modules) /\ n \in Nat /\ m \in Module /\ m \in Members
      BY <1>7, <1>8, <1>9 DEF Members
    <2>2. /\ job'.name = job.name /\ job'.next = n + 1
          /\ job' \in [name : {"events", "start", "stop", "poll"}, next : Nat]
      BY <1>7, <1>9
    <2>3. /\ Len(<<f>>) = 1 /\ <<f>>[1] = f /\ <<f>> # <<>>
      BY Zenon
    <2>4. /\ f.pc = job.name /\ f.m = m /\ f \in FrameType
      BY <1>7, <2>1, Zenon DEF Frame, FrameType, Labels, Starting, Ending, Polling
    <2>5. /\ stack'[main] = <<f>> /\ \A b \in Actor : b # main => stack'[b] = stack[b]
          /\ stack' \in [Actor -> Seq(FrameType)]
      BY <1>2, <1>9, <2>4
    <2>6. Current' = m
      BY <1>1, <2>1, <2>2 DEF Current
    <2> HIDE DEF f, m, n
    <2> PICK g \in FrameType : g = f
      BY <2>4, Zenon
    <2>7. MainMay(g)'
      <3>1. g.pc \in {"start", "stop", "poll"}
        BY <1>7, <2>4, Zenon
      <3> QED
        BY <1>3, <1>7, <2>2, <2>4, <2>6, Zenon
           DEF MainMay, Starting, Creating, Ending, Joining, Looping
    <2>8. StackInv'
      <3>1. JobOK'
        <4>1. n + 1 \in 1..(Len(modules) + 1) /\ n + 1 >= 2
          BY <1>2, <2>1
        <4> QED
          BY <1>1, <2>2, <4>1, Zenon DEF JobOK
      <3>2. FramesOK'
        <4> SUFFICES ASSUME NEW a \in Actor, NEW i \in 1..Len(stack'[a]),
                            NEW h, h = stack'[a][i]
                     PROVE  May(a, h)'
          BY Zenon DEF FramesOK
        <4>1. CASE a = main
          <5>1. h = g /\ g.pc \notin Pushing /\ g.m \in Members'
            <6>1. i \in 1..Len(<<f>>) /\ h = <<f>>[i]
              BY <2>5, <4>1, Zenon
            <6>2. i = 1
              BY <2>3, <6>1
            <6>3. g.pc \notin Pushing
              BY <1>7, <2>4, Zenon DEF Pushing
            <6> QED
              BY <1>3, <2>1, <2>3, <2>4, <6>1, <6>2, <6>3, Zenon
          <5> QED
            BY <2>7, <4>1, <5>1, Zenon DEF May
        <4>2. CASE a # main
          <5>1. May(a, h)
            BY <1>2, <2>5, <4>2, Zenon DEF FramesOK
          <5> QED
            BY <1>1, <1>3, <2>2, <4>2, <5>1, Zenon DEF May, WorkerMay
        <4> QED
          BY <4>1, <4>2, Zenon
      <3>3. LoopIsLast'
        BY <1>2, <2>5, ZenonT(30) DEF LoopIsLast, Actor
      <3>4. CallersWait'
        <4> SUFFICES ASSUME NEW a \in Actor, NEW i \in 2..Len(stack'[a])
                     PROVE  stack'[a][i].pc \in Resuming
          BY Zenon DEF CallersWait
        <4>1. a # main
          <5>1. Len(stack'[main]) = 1
            BY <2>3, <2>5, Zenon
          <5>2. i \in 2..Len(stack'[a]) /\ \A k : k \notin 2..1
            OBVIOUS
          <5> QED
            BY <5>1, <5>2, Zenon
        <4> QED
          BY <1>2, <2>5, <4>1, Zenon DEF CallersWait
      <3> QED
        BY <1>6, <2>5, <3>1, <3>2, <3>3, <3>4, Zenon DEF StackInv
    <2>9. ThreadsOK'
      BY <1>2, <1>3, <1>4, <2>5, Zenon DEF ThreadsOK, Actor
    <2>10. WakeupOK' /\ NoLostUpdate'
      BY <1>1, <1>2, <1>4, <2>5, NothingMoves, Zenon
    <2>11. EventsOK'
      BY <1>1, <1>2, <1>3, <1>4, <2>2, Zenon DEF EventsOK
    <2>12. \A i \in 1..Len(modules) : Handled(i)' <=> Handled(i)
      <3>1. \A i \in 1..Len(modules) : Handled(i)' <=> i < n + 1 /\ i # n
        BY <2>1, <2>2, <2>3, <2>5 DEF Handled
      <3>2. \A i \in 1..Len(modules) : i < n + 1 /\ i # n <=> i < n
        BY <2>1
      <3> QED
        BY <1>7, <3>1, <3>2, Zenon DEF n
    <2>13. StartOK'
      <3> SUFFICES ASSUME job.name = "start" PROVE StartOK'
        BY <2>2, Zenon DEF StartOK
      <3>1. \A i \in 1..Len(modules) : modules[i] \in Threaded /\ i >= n + 1 =>
              thread[modules[i]] = 0
        BY <1>2, <2>1 DEF StartOK, n
      <3>2. m \in Threaded => thread[m] = 0
        <4>1. n \in 1..Len(modules) /\ n >= job.next
          BY <2>1 DEF n
        <4> QED
          BY <1>2, <4>1, Zenon DEF StartOK, m
      <3>3. stack'[main][1].pc = "start" /\ Len(stack'[main]) = 1
        BY <2>3, <2>4, <2>5, Zenon
      <3> QED
        BY <1>1, <1>2, <1>3, <1>4, <2>2, <2>6, <2>12, <3>1, <3>2, <3>3, Zenon DEF StartOK
    <2>14. StopOK'
      <3> SUFFICES ASSUME job.name = "stop" PROVE StopOK'
        BY <2>2, Zenon DEF StopOK
      <3>1. stack'[main][1].pc = "stop" /\ Len(stack'[main]) = 1
        BY <2>3, <2>4, <2>5, Zenon
      <3> QED
        BY <1>1, <1>2, <1>3, <1>4, <2>2, <2>12, <3>1, Zenon DEF StopOK
    <2> QED
      BY <1>5, <2>8, <2>9, <2>10, <2>11, <2>13, <2>14, Zenon DEF IInv
  <1>10. CASE /\ job.next > Len(modules)
              /\ job' = [name |-> "events", next |-> 1] /\ UNCHANGED stack
    <2>1. \A i \in 1..Len(modules) : Handled(i)
      BY <1>7, <1>10
    <2>2. job'.name = "events" /\ job'.next = 1
          /\ job' \in [name : {"events", "start", "stop", "poll"}, next : Nat]
      BY <1>10, Zenon
    <2>3. StackInv'
      <3>1. JobOK'
        BY <1>1, <1>2, <1>10, <2>2, SMTT(30) DEF JobOK
      <3>2. FramesOK'
        <4> SUFFICES ASSUME NEW a \in Actor, NEW i \in 1..Len(stack[a])
                     PROVE  May(a, stack[a][i])'
          BY <1>10, Zenon DEF FramesOK
        <4>1. a # main /\ May(a, stack[a][i])
          BY <1>1, <1>2, SMTT(30) DEF FramesOK
        <4> QED
          BY <1>1, <1>3, <1>10, <2>2, <4>1, Zenon DEF May, WorkerMay
      <3> QED
        BY <1>2, <1>6, <1>10, <3>1, <3>2, Zenon DEF StackInv, LoopIsLast, CallersWait
    <2>4. ThreadsOK'
      BY <1>2, <1>3, <1>4, <1>10, Zenon DEF ThreadsOK
    <2>5. WakeupOK' /\ NoLostUpdate'
      BY <1>1, <1>2, <1>4, <1>10, NothingMoves, Zenon
    <2>6. StartOK' /\ StopOK'
      BY <2>2, Zenon DEF StartOK, StopOK
    <2>7. pipeline_started => Threaded \subseteq is_started
      <3>1. CASE job.name = "start"
        BY <1>2, <2>1, <3>1, ZenonT(30) DEF StartOK, VectorOK, Members
      <3>2. CASE job.name = "stop"
        BY <1>2, <3>2, Zenon DEF EventsOK
      <3>3. CASE job.name = "poll"
        BY <1>2, <3>3, Zenon DEF EventsOK
      <3> QED
        BY <1>7, <3>1, <3>2, <3>3, Zenon
    <2>8. ~pipeline_started =>
            is_started = {} /\ need_update = {} /\ \A m \in Module : thread[m] = 0
      <3> SUFFICES ASSUME ~pipeline_started
                   PROVE  is_started = {} /\ need_update = {} /\ \A m \in Module : thread[m] = 0
        BY Zenon
      <3>1. job.name = "stop"
        BY <1>2, <1>7, Zenon DEF EventsOK
      <3>2. \A i \in 1..Len(modules) : /\ modules[i] \notin is_started
                                       /\ modules[i] \notin need_update
                                       /\ thread[modules[i]] = 0
        BY <1>2, <2>1, <3>1, Zenon DEF StopOK
      <3>3. \A m \in Members : m \notin is_started /\ m \notin need_update /\ thread[m] = 0
        BY <3>2, Zenon DEF Members
      <3>4. is_started \subseteq Members /\ need_update \subseteq Members
        BY <1>2, Zenon DEF EventsOK
      <3>5. \A m \in Module : thread[m] # 0 => m \in Members
        BY <1>2, Zenon DEF ThreadsOK, VectorOK
      <3> QED
        BY <3>3, <3>4, <3>5, Zenon
    <2>9. EventsOK'
      BY <1>1, <1>2, <1>3, <1>4, <2>2, <2>7, <2>8, Zenon DEF EventsOK
    <2> QED
      BY <1>5, <2>3, <2>4, <2>5, <2>6, <2>9, Zenon DEF IInv
  <1> QED
    BY <1>1, <1>9, <1>10, Zenon
LEMMA AddElementKeeps ==
  ASSUME ChainAssumption, IInv, NEW m \in Module, addElement(m)
  PROVE  IInv'
  <1>1. /\ stack[main] = <<>> /\ job.name = "events" /\ m \in Late
        /\ \A i \in 1..Len(modules) : modules[i] # m
        /\ modules' = Append(modules, m)
        /\ late' = IF pipeline_started THEN late \cup {m} ELSE late
        /\ UNCHANGED <<flags, workers, pipeline, pipeline_started, job, mtx, stack, owed>>
    BY Zenon DEF addElement, Idle
  <1>2. /\ FlagTypes /\ StackInv /\ ThreadsOK /\ EventsOK /\ StartOK /\ StopOK /\ WakeupOK
        /\ NoLostUpdate /\ stack \in [Actor -> Seq(FrameType)]
        /\ VectorOK /\ JobOK /\ FramesOK /\ LoopIsLast /\ CallersWait
        /\ main \in Actor /\ main \notin Worker /\ Len(modules) \in Nat
    BY MainIsNoWorker, SeqIsFunction, Zenon DEF IInv, StackInv, Actor, VectorOK
  <1>3. /\ UNCHANGED <<is_started, need_update, use_thread, thread, trigger, want_quit, life>>
        /\ Threaded' = Threaded /\ Observer' = Observer
    BY <1>1, Zenon DEF flags, workers, Threaded, Observer
  <1>4. m \in DOMAIN Observer /\ modules \in Seq(DOMAIN Observer) /\ m \notin Threaded
    BY <1>1, <1>2, ObserverType, SMTT(30) DEF VectorOK, Members
  <1>5. /\ modules' \in Seq(DOMAIN Observer) /\ Len(modules') = Len(modules) + 1
        /\ \A i \in 1..Len(modules) : modules'[i] = modules[i]
        /\ modules'[Len(modules) + 1] = m
    BY <1>1, <1>4, Appended
  <1>6. \A i \in 1..Len(modules') : i \in 1..Len(modules) \/ i = Len(modules) + 1
    BY <1>2, <1>5
  <1>7. Members \subseteq Members'
    <2> SUFFICES ASSUME NEW i \in 1..Len(modules) PROVE modules[i] \in Members'
      BY Zenon DEF Members
    <2>1. i \in 1..Len(modules') /\ modules'[i] = modules[i]
      BY <1>2, <1>5, SMTT(30)
    <2> QED
      BY <2>1, Zenon DEF Members
  <1>8. FlagTypes'
    <2>1. \A i \in 1..Len(modules') : modules'[i] \in Module
      BY <1>2, <1>5, <1>6, Zenon DEF FlagTypes
    <2> QED
      BY <1>1, <1>2, <1>3, <2>1, Zenon DEF FlagTypes
  <1>9. StackInv'
    <2>1. VectorOK'
      <3>1. ASSUME NEW i \in 1..Len(modules'), NEW j \in 1..Len(modules'),
                   modules'[i] = modules'[j]
            PROVE  i = j
        <4>1. CASE i \in 1..Len(modules) /\ j \in 1..Len(modules)
          BY <1>2, <1>5, <3>1, <4>1, Zenon DEF VectorOK
        <4>2. CASE i \in 1..Len(modules) /\ j = Len(modules) + 1
          BY <1>1, <1>5, <3>1, <4>2, Zenon
        <4>3. CASE i = Len(modules) + 1 /\ j \in 1..Len(modules)
          BY <1>1, <1>5, <3>1, <4>3, Zenon
        <4> QED
          BY <1>6, <4>1, <4>2, <4>3, Zenon
      <3>2. ASSUME NEW i \in 1..Len(modules'), NEW j \in 1..Len(modules'),
                   modules'[i] \in Threaded, Observer[modules'[i]] = modules'[j]
            PROVE  i < j
        <4>1. i \in 1..Len(modules) /\ modules'[i] = modules[i]
          BY <1>4, <1>5, <1>6, <3>2, Zenon
        <4>2. CASE j = Len(modules) + 1
          BY <1>2, <4>1, <4>2
        <4>3. CASE j \in 1..Len(modules)
          BY <1>2, <1>5, <3>2, <4>1, <4>3, Zenon DEF VectorOK
        <4> QED
          BY <1>6, <4>2, <4>3, Zenon
      <3> QED
        BY <1>1, <1>2, <1>3, <1>5, <1>7, <3>1, <3>2, Zenon DEF VectorOK
    <2>2. JobOK'
      BY <1>1, <1>2, <1>5 DEF JobOK
    <2>3. FramesOK'
      <3> SUFFICES ASSUME NEW a \in Actor, NEW i \in 1..Len(stack[a])
                   PROVE  May(a, stack[a][i])'
        BY <1>1, Zenon DEF FramesOK
      <3>1. a # main /\ May(a, stack[a][i])
        BY <1>1, <1>2 DEF FramesOK
      <3> QED
        BY <1>1, <1>3, <1>7, <3>1, Zenon DEF May, WorkerMay
    <2> QED
      BY <1>1, <1>2, <2>1, <2>2, <2>3, Zenon DEF StackInv, LoopIsLast, CallersWait
  <1>10. ThreadsOK'
    BY <1>1, <1>2, <1>3, Zenon DEF ThreadsOK
  <1>11. WakeupOK' /\ NoLostUpdate'
    BY <1>1, <1>2, <1>3, NothingMoves, Zenon
  <1>12. EventsOK'
    BY <1>1, <1>2, <1>3, <1>7, Zenon DEF EventsOK
  <1>13. StartOK' /\ StopOK'
    BY <1>1, Zenon DEF StartOK, StopOK
  <1> QED
    BY <1>8, <1>9, <1>10, <1>11, <1>12, <1>13, Zenon DEF IInv
-----------------------------------------------------------------------------
(* The theorems.                                                           *)

LEMMA InitIInv ==
  ASSUME ChainAssumption, Init
  PROVE  IInv
  <1>1. /\ pipeline \in Pipelines /\ modules = InitialModules(pipeline)
        /\ late = {} /\ pipeline_started = FALSE
        /\ is_started = {} /\ need_update = {} /\ use_thread = {} /\ trigger = {}
        /\ thread = [m \in Module |-> 0] /\ mtx = [m \in Module |-> None]
        /\ want_quit = {} /\ life = [w \in Worker |-> "free"]
        /\ stack = [a \in Actor |-> <<>>] /\ job = [name |-> "events", next |-> 1]
        /\ owed = {}
    BY Zenon DEF Init
  <1>2. OrderedChain(pipeline)
    BY <1>1, Zenon DEF ChainAssumption
  <1> DEFINE all == {pipeline.order[i] : i \in 1..Len(pipeline.order)}
  <1>3. /\ modules \in Seq(all)
        /\ \A i, j \in 1..Len(modules) : modules[i] = modules[j] => i = j
        /\ DOMAIN Observer = all /\ Threaded \subseteq Members
        /\ \A i, j \in 1..Len(modules) :
             modules[i] \in Threaded /\ Observer[modules[i]] = modules[j] => i < j
    <2> DEFINE first == InitialModules(pipeline)
    <2>1. /\ first \in Seq(all)
          /\ \A i, j \in 1..Len(first) : first[i] = first[j] => i = j
          /\ Observer \in [all -> all \cup {None}]
          /\ Threaded \subseteq {first[i] : i \in 1..Len(first)}
          /\ \A i, j \in 1..Len(first) :
               first[i] \in Threaded /\ Observer[first[i]] = first[j] => i < j
      BY <1>2, Zenon DEF OrderedChain, Observer, Threaded
    <2>2. modules = first
      BY <1>1, Zenon
    <2> HIDE DEF all, first
    <2>3. DOMAIN Observer = all
      BY <2>1, Zenon
    <2> QED
      BY <2>1, <2>2, <2>3, Zenon DEF Members
  <1>4. all \subseteq Module
    BY <1>1, Zenon DEF Module
  <1> HIDE DEF all
  <1>5. VectorOK
    BY <1>1, <1>3, Zenon DEF VectorOK
  <1>6. Len(modules) \in Nat /\ \A i \in 1..Len(modules) : modules[i] \in Module
    BY <1>3, <1>4, SeqIsFunction
  <1>7. FlagTypes
    <2>1. thread \in [Module -> 0..Slots]
      BY <1>1 DEF ChainAssumption
    <2>2. mtx \in [Module -> Actor \cup {None}]
      BY <1>1, Zenon
    <2>3. life \in [Worker -> {"free", "new", "running", "done"}]
      BY <1>1, Zenon
    <2> QED
      BY <1>1, <1>6, <2>1, <2>2, <2>3, Zenon DEF FlagTypes
  <1>8. /\ \A a \in Actor : stack[a] = <<>> /\ Len(stack[a]) = 0
        /\ main \in Actor /\ Worker \subseteq Actor
        /\ \A i \in Nat : i \notin 1..0 /\ i \notin 2..0
    BY <1>1 DEF Actor
  <1>9. StackInv
    <2>1. stack \in [Actor -> Seq(FrameType)]
      BY <1>1
    <2>2. JobOK
      BY <1>1, <1>6, <1>8 DEF JobOK
    <2>3. FramesOK /\ LoopIsLast /\ CallersWait
      BY <1>8 DEF FramesOK, LoopIsLast, CallersWait
    <2> QED
      BY <1>5, <2>1, <2>2, <2>3, Zenon DEF StackInv
  <1>10. ThreadsOK
    BY <1>1, <1>8, Zenon DEF ThreadsOK
  <1>11. EventsOK
    BY <1>1, Zenon DEF EventsOK
  <1>12. StartOK /\ StopOK
    BY <1>1, Zenon DEF StartOK, StopOK
  <1>13. WakeupOK /\ NoLostUpdate
    BY <1>1, Zenon DEF WakeupOK, NoLostUpdate
  <1> QED
    BY <1>7, <1>9, <1>10, <1>11, <1>12, <1>13, Zenon DEF IInv

\* Nothing changes.
LEMMA StutterIInv ==
  ASSUME IInv, UNCHANGED vars
  PROVE  IInv'
  <1>1. UNCHANGED <<pipeline, modules, late, pipeline_started, is_started, need_update,
                    use_thread, thread, trigger, mtx, want_quit, life, stack, job, owed>>
    BY Zenon DEF vars, flags, workers, sweep
  <1>2. FlagTypes' /\ ThreadsOK'
    BY <1>1, Zenon DEF IInv, FlagTypes, ThreadsOK, Threaded
  <1>3. StackInv'
    <2>1. VectorOK' /\ JobOK'
      BY <1>1, ZenonT(30) DEF IInv, StackInv, VectorOK, JobOK, Observer, Threaded, Members
    <2>2. FramesOK'
      BY <1>1, SMTT(30)
         DEF IInv, StackInv, FramesOK, May, MainMay, WorkerMay, Members, Observer,
             Threaded,
         Current
    <2> QED
      BY <1>1, <2>1, <2>2, Zenon DEF IInv, StackInv, LoopIsLast, CallersWait
  <1>4. EventsOK'
    BY <1>1, Zenon DEF IInv, EventsOK, Threaded, Members
  <1>5. StartOK' /\ StopOK'
    BY <1>1, Zenon DEF IInv, StartOK, StopOK, Threaded, Observer, Handled, Current
  <1>6. WakeupOK'
    BY <1>1, Zenon DEF IInv, WakeupOK, At, Of
  <1>7. NoLostUpdate'
    BY <1>1 DEF IInv, NoLostUpdate, Pending, Observer
  <1> QED
    BY <1>2, <1>3, <1>4, <1>5, <1>6, <1>7, Zenon DEF IInv

\* Every step of every thread keeps the invariant.
LEMMA NextIInv ==
  ASSUME ChainAssumption, IInv, [Next]_vars
  PROVE  IInv'
  <1>1. ASSUME NEW a \in Actor, start(a) PROVE IInv'
    BY <1>1, StartEnterKeeps, StartUseThreadKeeps, StartNewKeeps, StartRunKeeps,
       StartStartedKeeps, Zenon DEF start
  <1>2. ASSUME NEW a \in Actor, stop(a) PROVE IInv'
    BY <1>2, StopQuitKeeps, StopPostKeeps, StopWaitforKeeps, StopDeleteKeeps,
       StopUpdateKeeps, StopStoppedKeeps, Zenon DEF stop
  <1>3. ASSUME NEW a \in Actor, notifyUpdate(a) PROVE IInv'
    BY <1>3, NotifyStartKeeps, NotifyFlagKeeps, NotifyPostKeeps, Zenon DEF notifyUpdate
  <1>4. ASSUME NEW a \in Actor, update(a) PROVE IInv'
    BY <1>4, UpdateReadKeeps, PushKeeps, LockKeeps, UnlockKeeps, Zenon DEF update
  <1>5. ASSUME NEW a \in Actor, Run(a) PROVE IInv'
    BY <1>1, <1>2, <1>3, <1>4, <1>5, Zenon DEF Run
  <1>6. ASSUME NEW w \in Worker, thread_process(w) PROVE IInv'
    BY <1>6, LoopEndKeeps, LoopTestKeeps, LoopWaitKeeps, LoopClearKeeps, Zenon
       DEF thread_process
  <1>7. CASE Main
    BY <1>5, <1>7, AdvanceKeeps, PollStepKeeps, PollClearKeeps, Zenon DEF Main, Actor
  <1>8. CASE pipeline_poll \/ Request
    BY <1>8, BeginKeeps, AddElementKeeps, Zenon DEF Request
  <1>9. CASE \E w \in Worker : thread_process(w) \/ Run(w)
    BY <1>5, <1>6, <1>9, Zenon DEF Actor
  <1>10. CASE UNCHANGED vars
    BY <1>10, StutterIInv, Zenon
  <1> QED
    BY <1>7, <1>8, <1>9, <1>10, Zenon DEF Next

\* The invariant holds throughout.
THEOREM ThreadsInvariant ==
  ASSUME ChainAssumption
  PROVE  Spec => []IInv
  <1>1. Init => IInv
    BY InitIInv, Zenon
  <1>2. IInv /\ [Next]_vars => IInv'
    BY NextIInv, Zenon
  <1> QED
    BY <1>1, <1>2, PTL DEF Spec

\* A module has at most one running thread, the one its field thread points at:
\* start() makes no second one, so that the join in stop() waits for all.
THEOREM OneThreadPerModule ==
  ASSUME ChainAssumption
  PROVE  Spec => []NoOrphanThread
  <1>1. IInv => NoOrphanThread
    BY Zenon DEF IInv, ThreadsOK, NoOrphanThread, Live
  <1> QED
    BY <1>1, ThreadsInvariant, PTL

\* The assertion thread != NULL of needUpdate() holds in every worker.
THEOREM ThreadIsAlwaysSet ==
  ASSUME ChainAssumption
  PROVE  Spec => []ThreadIsSet
  <1>1. IInv => ThreadIsSet
    BY WorkerIsSet, Zenon DEF IInv, ThreadIsSet, At
  <1> QED
    BY <1>1, ThreadsInvariant, PTL

\* When pipeline->stop() has returned to the event loop no module is started,
\* no update is pending and no thread exists.
THEOREM StopAlwaysStopsEverything ==
  ASSUME ChainAssumption
  PROVE  Spec => []StopStopsEverything
  <1>1. ASSUME IInv PROVE StopStopsEverything
    <2> SUFFICES ASSUME Idle, ~pipeline_started
                 PROVE  is_started = {} /\ need_update = {} /\ \A w \in Worker : life[w] = "free"
      BY Zenon DEF StopStopsEverything
    <2>1. is_started = {} /\ need_update = {} /\ \A m \in Module : thread[m] = 0
      BY <1>1, Zenon DEF IInv, EventsOK, Idle
    <2>2. \A w \in Worker : w[1] \in Module /\ w[2] # 0
      BY DEF Worker, ChainAssumption
    <2>3. \A w \in Worker : life[w] = "free"
      BY <1>1, <2>1, <2>2, Zenon DEF IInv, ThreadsOK
    <2> QED
      BY <2>1, <2>3, Zenon
  <1> QED
    BY <1>1, ThreadsInvariant, PTL

\* No interleaving of the unlocked flags loses a wakeup of a worker or a frame
\* that was pushed, and the fields keep their types.
THEOREM NothingIsEverLost ==
  ASSUME ChainAssumption
  PROVE  Spec => []NothingIsLost
  <1>1. ASSUME IInv PROVE NothingIsLost
    <2>1. TypeOK
      BY <1>1, TypesFollow, Zenon
    <2>2. NoLostWakeup
      BY <1>1, Zenon DEF IInv, WakeupOK, NoLostWakeup
    <2> QED
      BY <1>1, <2>1, <2>2, Zenon DEF NothingIsLost, IInv
  <1> QED
    BY <1>1, ThreadsInvariant, PTL
=============================================================================
