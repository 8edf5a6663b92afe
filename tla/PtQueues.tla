------------------------------ MODULE PtQueues ------------------------------
(***************************************************************************)
(* ptypes' message queues (pmsgq.cxx) on its timed semaphores              *)
(* (ptimedsem.cxx): threads post and send messages to a bounded queue,     *)
(* others take them out, or one owner handles them.  A semaphore operation *)
(* is one step, a critical section of qlock another.                       *)
(*                                                                         *)
(* Two machines: the message queues, and the chains of units.              *)
(***************************************************************************)
EXTENDS Integers, Sequences, FiniteSets, Functions, FiniteSetTheorems, TLAPS

CONSTANTS
  Posters,    \* threads that post or send one message after the other
  Getters,    \* threads of a pool, each in getmessage
  Owner,      \* the thread that runs a msgqueue
  limit,      \* of the queue
  MaxPosts,   \* messages over all
  None

VARIABLES
  mode,       \* "jobs": getters, no owner; "messages": an owner
  pc,         \* of the threads
  hold,       \* the message each thread is busy with
  queue,      \* from tail to head: the next one to be taken comes first
  sem, ovrsem,
  made,       \* messages made so far: posted or sent, urgent, by whom
  done,       \* messages handled or returned by getmessage, in that order
  quit

queue_vars == <<mode, pc, hold, queue, sem, ovrsem, made, done, quit>>

Threads == Posters \cup Getters \cup {Owner}
Kinds == [post : {TRUE}, urgent : BOOLEAN] \cup [post : {FALSE}, urgent : {TRUE}]

QueueInit ==
       /\ mode \in {"jobs", "messages"}
       /\ pc = [t \in Threads |-> "idle"]
       /\ hold = [t \in Threads |-> None]
       /\ queue = <<>> /\ sem = 0 /\ ovrsem = limit
       /\ made = <<>> /\ done = <<>> /\ quit = FALSE

Goto(t, p) == pc' = [pc EXCEPT ![t] = p]
-----------------------------------------------------------------------------
(* enqueue and push, for post, posturgent and send.                        *)

\* A message is made; send makes it urgent and waits for it.  msgqueue only.
Make(t, k) ==
  /\ pc[t] = "idle" /\ Len(made) < MaxPosts
  /\ ~k.post => mode = "messages"
  /\ made' = Append(made, [post |-> k.post, urgent |-> k.urgent, by |-> t])
  /\ hold' = [hold EXCEPT ![t] = Len(made) + 1]
  /\ Goto(t, "ovr")
  /\ UNCHANGED <<mode, queue, sem, ovrsem, done, quit>>

\* ovrsem.wait: FALSE when a timeout is given and passes.
WaitRoom(t) ==
  /\ pc[t] = "ovr" /\ ovrsem > 0
  /\ ovrsem' = ovrsem - 1 /\ Goto(t, "link")
  /\ UNCHANGED <<mode, hold, queue, sem, made, done, quit>>

RoomTimeout(t) ==
  /\ pc[t] = "ovr" /\ ovrsem = 0 /\ made[hold[t]].post
  /\ hold' = [hold EXCEPT ![t] = None] /\ Goto(t, "idle")
  /\ UNCHANGED <<mode, queue, sem, ovrsem, made, done, quit>>

Link(t) ==
  LET m == hold[t] IN
  /\ pc[t] = "link"
  /\ queue' = IF made[m].urgent THEN <<m>> \o queue ELSE Append(queue, m)
  /\ Goto(t, "post")
  /\ UNCHANGED <<mode, hold, sem, ovrsem, made, done, quit>>

Post(t) ==
  LET waits == ~made[hold[t]].post IN
  /\ pc[t] = "post"
  /\ sem' = sem + 1
  /\ Goto(t, IF waits THEN "sync" ELSE "idle")
  /\ hold' = [hold EXCEPT ![t] = IF waits THEN @ ELSE None]
  /\ UNCHANGED <<mode, queue, ovrsem, made, done, quit>>

\* finishmsg of the owner posts sync; the sender returns the result.
SendReturns(t) ==
  /\ pc[t] = "sync" /\ hold[t] \in Range(done)
  /\ hold' = [hold EXCEPT ![t] = None] /\ Goto(t, "idle")
  /\ UNCHANGED <<mode, queue, sem, ovrsem, made, done, quit>>
-----------------------------------------------------------------------------
(* dequeue, for getmessage and processone.                                 *)

WaitMessage(t) ==
  /\ pc[t] = "idle" /\ sem > 0
  /\ sem' = sem - 1 /\ Goto(t, "take")
  /\ UNCHANGED <<mode, hold, queue, ovrsem, made, done, quit>>

\* Faulty: the newest message is taken.
Take_Newest(t) ==
  /\ pc[t] = "take"
  /\ hold' = [hold EXCEPT ![t] = queue[Len(queue)]]
  /\ queue' = SubSeq(queue, 1, Len(queue) - 1)
  /\ Goto(t, "room")
  /\ UNCHANGED <<mode, sem, ovrsem, made, done, quit>>

Take(t) ==
  /\ pc[t] = "take"
  /\ hold' = [hold EXCEPT ![t] = Head(queue)]
  /\ queue' = Tail(queue)
  /\ Goto(t, "room")
  /\ UNCHANGED <<mode, sem, ovrsem, made, done, quit>>

\* Faulty: room is not given back.
Room_Kept(t) ==
  /\ pc[t] = "room"
  /\ ovrsem' = ovrsem /\ Goto(t, "handle")
  /\ UNCHANGED <<mode, hold, queue, sem, made, done, quit>>

Room(t) ==
  /\ pc[t] = "room"
  /\ ovrsem' = ovrsem + 1 /\ Goto(t, "handle")
  /\ UNCHANGED <<mode, hold, queue, sem, made, done, quit>>

\* The caller of getmessage has it, or handlemsg and finishmsg are through.
Handle(t) ==
  /\ pc[t] = "handle"
  /\ done' = Append(done, hold[t])
  /\ hold' = [hold EXCEPT ![t] = None] /\ Goto(t, "idle")
  /\ UNCHANGED <<mode, queue, sem, ovrsem, made, quit>>

\* The handler of the owner meets MSG_QUIT: run returns.
Quit ==
  /\ mode = "messages" /\ pc[Owner] = "handle" /\ made[hold[Owner]].post
  /\ done' = Append(done, hold[Owner]) /\ quit' = TRUE
  /\ hold' = [hold EXCEPT ![Owner] = None] /\ Goto(Owner, "idle")
  /\ UNCHANGED <<mode, queue, sem, ovrsem, made>>

run == /\ quit /\ pc[Owner] = "idle" /\ quit' = FALSE
  /\ UNCHANGED <<mode, pc, hold, queue, sem, ovrsem, made, done>>

\* The destructor: nobody else uses the queue, whose messages are deleted.
purgequeue ==
  /\ \A t \in Threads : pc[t] = "idle"
  /\ queue # <<>>
  /\ queue' = <<>> /\ sem' = sem - Len(queue) /\ ovrsem' = ovrsem + Len(queue)
  /\ UNCHANGED <<mode, pc, hold, made, done, quit>>

Posting(t) == WaitRoom(t) \/ Link(t) \/ Post(t) \/ SendReturns(t)
Poster(t) == (\E k \in Kinds : Make(t, k)) \/ RoomTimeout(t) \/ Posting(t)

Taker(t) == \/ Take(t) \/ Room(t) \/ Handle(t)
            \/ (t = Owner => ~quit) /\ WaitMessage(t)

Takers == IF mode = "jobs" THEN Getters ELSE {Owner}

QueueNext == \/ \E t \in Posters : Poster(t)
             \/ \E t \in Takers : Taker(t)
             \/ Quit \/ run
             \/ purgequeue

\* Threads in the middle of an operation go on, takers come back.  Nothing makes
\* the owner call run() again after MSG_QUIT.
QueueFairness ==
       /\ \A t \in Posters : WF_queue_vars(Posting(t))
       /\ \A t \in Getters \cup {Owner} : WF_queue_vars(t \in Takers /\ Taker(t))

QueueSpec == QueueInit /\ [][QueueNext]_queue_vars /\ QueueFairness
-----------------------------------------------------------------------------
Doing(p) == Cardinality({t \in Threads : pc[t] = p})

(* The semaphores and the list agree at every point of every interleaving: *)
(* who passed sem finds a message, who passed ovrsem finds room, so that   *)
(* dequeue never meets an empty list and the queue keeps its limit.        *)
SemaphoresMatchQueue ==
  /\ sem + Doing("take") + Doing("post") = Len(queue)
  /\ ovrsem + Doing("link") + Len(queue) + Doing("room") = limit
  /\ sem >= 0 /\ ovrsem >= 0

(* doc/async.jobqueue.html:60: messages "are processed in order they were  *)
(* posted": of two messages the same thread posts, not urgent, one by one, *)
(* a single taker sees the first one first.                                *)
OwnerSeesOrder ==
  mode = "messages" =>
    \A i, j \in DOMAIN done :
      i < j /\ made[done[i]].by = made[done[j]].by
        => made[done[i]].urgent \/ made[done[j]].urgent \/ done[i] < done[j]

Sending(t) == pc[t] = "sync"
QueueIdle(t) == pc[t] = "idle"

\* MSG_QUIT ended run() and the owner has not called it again.
OwnerLeft == quit /\ pc[Owner] = "idle"

(* doc/async.msgqueue.html: send "enters an effective wait state until the *)
(* message is processed by the owner thread".  It returns, unless the      *)
(* owner leaves run() at a MSG_QUIT: while it stays away the wait goes on. *)
SendsReturn == \A t \in Posters : Sending(t) ~> QueueIdle(t) \/ OwnerLeft
-----------------------------------------------------------------------------
(* Threads and chains of units of ptypes (pthread.cxx, punit.cxx, ppipe.cxx). *)
(* connect() joins the output of a unit to the input of the next by a pipe;   *)
(* run() starts the chain from its end, the first unit in a thread of its own *)
(* or in the caller's; waitfor() joins the threads one by one and gives the   *)
(* units their standard streams back.                                         *)
(*                                                                            *)
(* A unit's main() passes items on from uin to uout until the end of uin.     *)
(* The output is buffered; a pipe holds PipeSize items and blocks its writer. *)
(* Items are counted: the pipes keep their order.                             *)

CONSTANTS
  N,          \* number of units
  Items,      \* items on the standard input for a run
  PipeSize,   \* capacity of a pipe
  BufSize,    \* items an output stream buffers
  MayThrow,   \* units whose main() may throw
  MaxRuns     \* bound: runs of the chain

VARIABLES
  unit,       \* unit[u]: [running, pipe_next, piped, thread, pc, buf, threw]
  pipe,       \* pipe[u]: the pipe from u to u + 1: [data, closed]
  owner,      \* what the caller has left to do
  stdin,      \* items left on the standard input
  stdout,     \* items that arrived on the standard output
  runs

unit_vars == <<unit, pipe, owner, stdin, stdout, runs>>

Units == 1 .. N

(* piped: uin is a pipe.  thread: main_thread, "none" if nil.  threw: main()  *)
(* threw in the last run.                                                     *)
UnitIdle == [running |-> FALSE, pipe_next |-> FALSE, piped |-> FALSE,
             thread |-> "none", pc |-> "none", buf |-> 0, threw |-> FALSE]
NewPipe == [data |-> 0, closed |-> FALSE]

UnitInit ==
      /\ unit = [u \in Units |-> UnitIdle]
      /\ pipe = [u \in Units |-> NewPipe]
      /\ owner = <<>> /\ stdin = Items /\ stdout = 0 /\ runs = 0

(********************************* The owner *********************************)

Call(f, u) == [f |-> f, u |-> u]

connect(u) ==
  /\ owner = <<>> /\ u < N /\ ~unit[u].running /\ ~unit[u].pipe_next
  /\ unit' = [unit EXCEPT ![u].pipe_next = TRUE, ![u + 1].piped = TRUE]
  /\ pipe' = [pipe EXCEPT ![u] = NewPipe]
  /\ UNCHANGED <<owner, stdin, stdout, runs>>

(* run() of the first unit of a whole chain, then waitfor(): run() calls the  *)
(* next unit's first, so the last one is started first.  A synchronous run    *)
(* is main() in the caller, and ends with waitfor() itself.                   *)
Run(async) ==
  /\ owner = <<>> /\ runs < MaxRuns
  /\ \A u \in 1 .. N - 1 : unit[u].pipe_next
  /\ owner' = [i \in Units |-> Call(IF i = N /\ ~async THEN "do_main" ELSE "start", N + 1 - i)]
              \o [u \in Units |-> Call("waitfor", u)]
  /\ stdin' = Items /\ stdout' = 0 /\ runs' = runs + 1
  /\ UNCHANGED <<unit, pipe>>

(* run(true) of a unit: the exchange of running, and thread::start.           *)
start ==
  /\ owner # <<>> /\ Head(owner).f = "start"
  /\ LET u == Head(owner).u
     IN  unit' = IF unit[u].running THEN unit
                 ELSE [unit EXCEPT ![u].running = TRUE, ![u].thread = "running",
                                   ![u].pc = "main", ![u].threw = FALSE]
  /\ owner' = Tail(owner)
  /\ UNCHANGED <<pipe, stdin, stdout, runs>>

(* The caller runs do_main() itself, and goes on when it has returned.        *)
do_main ==
  /\ owner # <<>> /\ Head(owner).f = "do_main"
  /\ LET u == Head(owner).u
     IN  \/ /\ unit[u].pc = "none"
            /\ unit' = [unit EXCEPT ![u].running = TRUE, ![u].pc = "main",
                                    ![u].threw = FALSE]
            /\ UNCHANGED owner
         \/ /\ unit[u].pc = "done"
            /\ owner' = Tail(owner)
            /\ UNCHANGED unit
  /\ UNCHANGED <<pipe, stdin, stdout, runs>>

(* Joining the thread of a unit: thread::waitfor.                             *)
Joined(u) == unit[u].thread # "running"

(* waitfor: delete of main_thread joins it; then the next unit of the chain,  *)
(* whose input goes back to pin.                                              *)
waitfor_NoJoin ==
  /\ owner # <<>> /\ Head(owner).f = "waitfor"
  /\ LET u == Head(owner).u
     IN  /\ unit' = [unit EXCEPT ![u] = [UnitIdle EXCEPT !.piped = u > 1]]
         /\ owner' = Tail(owner)
  /\ UNCHANGED <<pipe, stdin, stdout, runs>>
waitfor ==
  /\ owner # <<>> /\ Head(owner).f = "waitfor"
  /\ LET u == Head(owner).u
     IN  /\ Joined(u)
         /\ unit' = [unit EXCEPT ![u] = [UnitIdle EXCEPT !.threw = unit[u].threw]]
         /\ owner' = Tail(owner)
  /\ UNCHANGED <<pipe, stdin, stdout, runs>>

(********************************** do_main **********************************)

HasItem(u) == IF unit[u].piped THEN pipe[u - 1].data > 0 ELSE stdin > 0
AtEnd(u)   == IF unit[u].piped THEN pipe[u - 1].data = 0 /\ pipe[u - 1].closed ELSE stdin = 0

(* main() reads an item and writes it to the buffer of uout.                  *)
Pass(u) ==
  /\ unit[u].pc = "main" /\ HasItem(u) /\ unit[u].buf < BufSize
  /\ unit' = [unit EXCEPT ![u].buf = @ + 1]
  /\ IF unit[u].piped
     THEN pipe' = [pipe EXCEPT ![u - 1].data = @ - 1] /\ UNCHANGED stdin
     ELSE stdin' = stdin - 1 /\ UNCHANGED pipe
  /\ UNCHANGED <<owner, stdout, runs>>

(* Data leaves the buffer: when it is full, at the flush() after main(), and  *)
(* when uout is closed.                                                       *)
Drain(u) ==
  /\ \/ unit[u].pc = "main" /\ unit[u].buf = BufSize
     \/ unit[u].pc = "flush" /\ unit[u].buf > 0
     \/ unit[u].pc = "close" /\ unit[u].buf > 0 /\ unit[u].pipe_next
  /\ unit' = [unit EXCEPT ![u].buf = @ - 1]
  /\ IF unit[u].pipe_next
     THEN /\ pipe[u].data < PipeSize
          /\ pipe' = [pipe EXCEPT ![u].data = @ + 1] /\ UNCHANGED stdout
     ELSE stdout' = stdout + 1 /\ UNCHANGED pipe
  /\ UNCHANGED <<owner, stdin, runs>>

(* main() returns at the end of its input, or throws: then there is no        *)
(* flush().                                                                   *)
MainEnds(u) ==
  /\ unit[u].pc = "main"
  /\ \/ AtEnd(u) /\ unit' = [unit EXCEPT ![u].pc = "flush"]
     \/ u \in MayThrow /\ unit' = [unit EXCEPT ![u].pc = "close", ![u].threw = TRUE]
  /\ UNCHANGED <<pipe, owner, stdin, stdout, runs>>

Flushed(u) ==
  /\ unit[u].pc = "flush" /\ unit[u].buf = 0
  /\ unit' = [unit EXCEPT ![u].pc = "close"]
  /\ UNCHANGED <<pipe, owner, stdin, stdout, runs>>

(* After cleanup() a unit with a successor closes uout; the thread finishes   *)
(* (_threadepilog).                                                           *)
MainDone_KeepsOpen(u) ==
  /\ unit[u].pc = "close" /\ unit[u].buf = 0
  /\ unit' = [unit EXCEPT ![u].pc = "done",
                          ![u].thread = IF @ = "running" THEN "finished" ELSE @]
  /\ UNCHANGED <<pipe, owner, stdin, stdout, runs>>
MainDone(u) ==
  /\ unit[u].pc = "close" /\ (unit[u].pipe_next => unit[u].buf = 0)
  /\ pipe' = IF unit[u].pipe_next THEN [pipe EXCEPT ![u].closed = TRUE] ELSE pipe
  /\ unit' = [unit EXCEPT ![u].pc = "done",
                          ![u].thread = IF @ = "running" THEN "finished" ELSE @]
  /\ UNCHANGED <<owner, stdin, stdout, runs>>

Thread(u) == Pass(u) \/ Drain(u) \/ MainEnds(u) \/ Flushed(u) \/ MainDone(u)
Caller == start \/ do_main \/ waitfor

UnitNext == \/ \E u \in Units : connect(u) \/ Thread(u)
            \/ Caller \/ \E async \in BOOLEAN : Run(async)

(* Threads and the caller are scheduled.                                      *)
UnitFairness == WF_unit_vars(Caller) /\ \A u \in Units : WF_unit_vars(Thread(u))

UnitSpec == UnitInit /\ [][UnitNext]_unit_vars /\ UnitFairness

(******************************** Properties *********************************)

(* Once waitfor() has returned, everything the units read has come out of the *)
(* chain: no thread still runs and no buffer or pipe holds anything back,     *)
(* though the first unit threw.  What a later unit had not read when it threw *)
(* is lost, and what the last one left in the buffer of pout.                 *)
ChainDelivers ==
  (owner = <<>> /\ runs > 0) =>
    /\ \A u \in Units : unit[u].thread = "none"
    /\ (\A u \in Units \ {1} : ~unit[u].threw) => stdout + stdin = Items

Running == owner # <<>>

(* The unit after u threw and reads no more; nobody closes its end of the     *)
(* pipe before u has ended, and u has more to write than the pipe holds.      *)
Stranded(u) ==
  u < N /\ unit[u + 1].threw /\ unit[u].pc \in {"main", "flush", "close"}
  /\ pipe[u].data = PipeSize /\ unit[u].buf > 0

(* waitfor() returns: a chain never ends with a unit waiting for input that   *)
(* nobody closes, as each unit closes its pipe even if main() throws.  Only a *)
(* unit that is stranded before one that threw keeps it waiting for ever.     *)
WaitforReturns == Running ~> ~Running \/ \E u \in Units : Stranded(u)
-----------------------------------------------------------------------------
(* The queues, for any finite set of threads and any limit.                *)

(* What the theorems ask of the constants: finitely many threads, and an   *)
(* owner that posts no messages to itself.                                 *)
QueueAssumption == IsFiniteSet(Threads) /\ Owner \notin Posters /\ limit \in Nat

Message == 1..Len(made)

QueueTypes ==
  /\ mode \in {"jobs", "messages"}
  /\ pc \in [Threads -> {"idle", "ovr", "link", "post", "sync", "take", "room", "handle"}]
  /\ hold = [t \in Threads |-> hold[t]]
  /\ made \in Seq([post : BOOLEAN, urgent : BOOLEAN, by : Posters])
  /\ queue \in Seq(Message) /\ done \in Seq(Message)
  /\ sem \in Int /\ ovrsem \in Int
  /\ \A t \in Threads : pc[t] \notin {"idle", "take"} => hold[t] \in Message

\* What the threads hold: a poster its own message, the owner one it took.
HoldersOK ==
  mode = "messages" =>
    /\ pc[Owner] \in {"idle", "take", "room", "handle"}
    /\ \A t \in Posters : /\ pc[t] \in {"idle", "ovr", "link", "post", "sync"}
                          /\ pc[t] # "idle" => made[hold[t]].by = t

\* The first of two messages may come out first.
InOrder(all, m, n) ==
  all[m].by = all[n].by => all[m].urgent \/ all[n].urgent \/ m < n

\* The messages between the posters and the list of those that are done: on the
\* way to the queue, in it, and in the hands of the owner.
Linking(t) == pc[t] \in {"ovr", "link"}
OwnerHas == pc[Owner] \in {"room", "handle"}
OrderOK ==
  mode = "messages" =>
    /\ \A i, j \in DOMAIN done : i < j => InOrder(made, done[i], done[j])
    /\ \A i, j \in DOMAIN queue : i < j => InOrder(made, queue[i], queue[j])
    /\ \A i \in DOMAIN done, j \in DOMAIN queue : InOrder(made, done[i], queue[j])
    /\ OwnerHas => /\ \A i \in DOMAIN done : InOrder(made, done[i], hold[Owner])
                   /\ \A j \in DOMAIN queue : InOrder(made, hold[Owner], queue[j])
    /\ \A t \in Posters : Linking(t) =>
         /\ \A i \in DOMAIN done : InOrder(made, done[i], hold[t])
         /\ \A j \in DOMAIN queue : InOrder(made, queue[j], hold[t])
         /\ OwnerHas => InOrder(made, hold[Owner], hold[t])

QueueIInv == QueueTypes /\ SemaphoresMatchQueue /\ HoldersOK /\ OrderOK

(* Sequences.                                                              *)

LEMMA Elements ==
  ASSUME NEW S, NEW s \in Seq(S)
  PROVE  Len(s) \in Nat /\ \A i \in 1..Len(s) : s[i] \in S
  OBVIOUS

LEMMA LargerAlphabet ==
  ASSUME NEW S, NEW T, S \subseteq T, NEW s \in Seq(S)
  PROVE  s \in Seq(T)
  OBVIOUS

LEMMA AtTheEnd ==
  ASSUME NEW S, NEW s \in Seq(S), NEW m \in S
  PROVE  /\ Append(s, m) \in Seq(S) /\ Len(Append(s, m)) = Len(s) + 1 /\ Len(s) \in Nat
         /\ \A i \in 1..Len(s) : Append(s, m)[i] = s[i]
         /\ Append(s, m)[Len(s) + 1] = m
  OBVIOUS

LEMMA AtTheFront ==
  ASSUME NEW S, NEW s \in Seq(S), NEW m \in S
  PROVE  /\ <<m>> \o s \in Seq(S) /\ Len(<<m>> \o s) = Len(s) + 1 /\ Len(s) \in Nat
         /\ (<<m>> \o s)[1] = m
         /\ \A i \in 1..Len(s) : (<<m>> \o s)[i + 1] = s[i]
  <1>1. Len(<<m>>) = 1 /\ <<m>> \in Seq(S) /\ <<m>>[1] = m
    OBVIOUS
  <1> QED
    BY <1>1

LEMMA FirstTaken ==
  ASSUME NEW S, NEW s \in Seq(S), Len(s) # 0
  PROVE  /\ Tail(s) \in Seq(S) /\ Len(Tail(s)) = Len(s) - 1 /\ Len(s) \in Nat \ {0}
         /\ Head(s) = s[1] /\ Head(s) \in S
         /\ \A i \in 1..(Len(s) - 1) : Tail(s)[i] = s[i + 1]
  <1>1. s # <<>> /\ Len(s) \in Nat \ {0}
    OBVIOUS
  <1> QED
    BY <1>1

(* Counting the threads at a point of the code.                            *)

\* A thread that goes on from pc[t] to q leaves one set and joins another.
LEMMA DoingMoves ==
  ASSUME IsFiniteSet(Threads), DOMAIN pc = Threads, NEW t \in Threads, NEW q, Goto(t, q),
         pc = [u \in Threads |-> pc[u]], NEW CONSTANT p
  PROVE  /\ Doing(p) \in Nat /\ Doing(p)' \in Nat
         /\ pc[t] = p => Doing(p) > 0
         /\ pc[t] = p /\ q # p => Doing(p)' = Doing(p) - 1
         /\ pc[t] # p /\ q = p => Doing(p)' = Doing(p) + 1
         /\ (pc[t] = p <=> q = p) => Doing(p)' = Doing(p)
  <1> DEFINE S == {u \in Threads : pc[u] = p}
             T == {u \in Threads : pc'[u] = p}
  <1>1. IsFiniteSet(S) /\ Cardinality(S) \in Nat
    BY FS_Subset, FS_CardinalityType
  <1>2. IsFiniteSet(T) /\ Cardinality(T) \in Nat
    BY FS_Subset, FS_CardinalityType
  <1>3. Doing(p) = Cardinality(S) /\ Doing(p)' = Cardinality(T)
    BY DEF Doing
  <1>4. pc' = [u \in Threads |-> IF u = t THEN q ELSE pc[u]]
    BY DEF Goto
  <1>5. /\ t \in S <=> pc[t] = p
        /\ q = p => T = S \cup {t}
        /\ q # p => T = S \ {t}
    BY <1>4
  <1> HIDE DEF S, T
  <1>6. CASE pc[t] = p /\ q # p
    <2>1. t \in S /\ T = S \ {t}
      BY <1>5, <1>6
    <2>2. Cardinality(T) = Cardinality(S) - 1
      BY <1>1, <2>1, FS_RemoveElement, Zenon
    <2> QED
      BY <1>1, <1>2, <1>3, <1>6, <2>2, SMTT(30)
  <1>7. CASE pc[t] # p /\ q = p
    <2>1. t \notin S /\ T = S \cup {t}
      BY <1>5, <1>7
    <2>2. Cardinality(T) = Cardinality(S) + 1
      BY <1>1, <2>1, FS_AddElement, Zenon
    <2> QED
      BY <1>1, <1>2, <1>3, <1>7, <2>2, SMTT(30)
  <1>8. CASE pc[t] = p <=> q = p
    <2>1. T = S
      BY <1>5, <1>8
    <2>2. pc[t] = p => S # {}
      BY <1>5
    <2>3. pc[t] = p => Cardinality(S) # 0
      BY <1>1, <2>2, FS_EmptySet
    <2> QED
      BY <1>1, <1>2, <1>3, <1>8, <2>1, <2>3, SMTT(30)
  <1> QED
    BY <1>6, <1>7, <1>8

\* What a step may assume of the threads and of the fields.
LEMMA QueueFacts ==
  ASSUME QueueAssumption, QueueTypes
  PROVE  /\ pc = [u \in Threads |-> pc[u]] /\ hold = [u \in Threads |-> hold[u]]
         /\ IsFiniteSet(Threads) /\ Owner \in Threads /\ limit \in Nat
         /\ Posters \subseteq Threads /\ Takers \subseteq Threads
         /\ Len(made) \in Nat /\ Len(queue) \in Nat /\ Len(done) \in Nat
         /\ \A m \in Message : made[m] \in [post : BOOLEAN, urgent : BOOLEAN, by : Posters]
  <1>1. /\ pc = [u \in Threads |-> pc[u]] /\ hold = [u \in Threads |-> hold[u]]
        /\ IsFiniteSet(Threads) /\ limit \in Nat
    <2>1. pc \in [Threads -> {"idle", "ovr", "link", "post", "sync", "take", "room", "handle"}]
      BY DEF QueueTypes
    <2> QED
      BY <2>1 DEF QueueAssumption, QueueTypes
  <1>2. Owner \in Threads /\ Posters \subseteq Threads /\ Takers \subseteq Threads
    BY Zenon DEF Threads, Takers
  <1>3. /\ Len(made) \in Nat /\ Len(queue) \in Nat /\ Len(done) \in Nat
        /\ \A m \in 1..Len(made) : made[m] \in [post : BOOLEAN, urgent : BOOLEAN, by : Posters]
    BY Elements, Zenon DEF QueueTypes
  <1> QED
    BY <1>1, <1>2, <1>3, Zenon DEF Message

Labels == {"idle", "ovr", "link", "post", "sync", "take", "room", "handle"}

\* A step of one thread that makes no message.
LEMMA OneGoesOn ==
  ASSUME QueueTypes, NEW t \in Threads, NEW q \in Labels, Goto(t, q), NEW h,
         hold' = [hold EXCEPT ![t] = h], q \in {"idle", "take"} \/ h \in Message,
         made' = made, mode' = mode, sem' \in Int, ovrsem' \in Int,
         queue' \in Seq(Message), done' \in Seq(Message)
  PROVE  QueueTypes'
  <1>1. Message' = Message
    BY DEF Message
  <1>2. pc' \in [Threads -> Labels] /\ hold' = [u \in Threads |-> hold'[u]]
    BY Zenon DEF QueueTypes, Goto, Labels
  <1>3. ASSUME NEW u \in Threads, pc'[u] \notin {"idle", "take"} PROVE hold'[u] \in Message
    BY <1>3 DEF QueueTypes, Goto
  <1> QED
    BY <1>1, <1>2, <1>3 DEF QueueTypes, Labels

\* A thread that has passed sem finds a message in the list.
LEMMA MessageIsThere ==
  ASSUME QueueAssumption, QueueTypes, SemaphoresMatchQueue,
         NEW t \in Threads, pc[t] = "take"
  PROVE  Len(queue) # 0
  <1> DEFINE S == {u \in Threads : pc[u] = "take"}
  <1>1. IsFiniteSet(S) /\ Cardinality(S) \in Nat /\ t \in S
    BY QueueFacts, FS_Subset, FS_CardinalityType, SMTT(30)
  <1>2. Cardinality(S) # 0
    BY <1>1, FS_EmptySet
  <1>3. Doing("take") = Cardinality(S)
    BY DEF Doing
  <1>4. Doing("post") \in Nat
    BY QueueFacts, FS_Subset, FS_CardinalityType DEF Doing
  <1> HIDE DEF S
  <1>5. Doing("take") \in Nat \ {0}
    BY <1>1, <1>2, <1>3, SMTT(30)
  <1> QED
    BY <1>4, <1>5 DEF SemaphoresMatchQueue, QueueTypes

(* The fields keep their types.                                            *)
LEMMA QueueTypesKeep ==
  ASSUME QueueAssumption, QueueTypes, SemaphoresMatchQueue, QueueNext
  PROVE  QueueTypes'
  <1>1. /\ hold = [u \in Threads |-> hold[u]] /\ sem \in Int /\ ovrsem \in Int
        /\ queue \in Seq(Message) /\ done \in Seq(Message)
        /\ \A t \in Threads : hold = [hold EXCEPT ![t] = hold[t]]
        /\ \A t \in Threads : pc[t] \notin {"idle", "take"} => hold[t] \in Message
    BY QueueFacts DEF QueueTypes
  <1>2. ASSUME NEW t \in Posters, NEW k \in Kinds, Make(t, k) PROVE QueueTypes'
    <2> DEFINE m == [post |-> k.post, urgent |-> k.urgent, by |-> t]
    <2>1. m \in [post : BOOLEAN, urgent : BOOLEAN, by : Posters]
      BY Zenon DEF Kinds
    <2>2. /\ made' \in Seq([post : BOOLEAN, urgent : BOOLEAN, by : Posters])
          /\ Len(made') = Len(made) + 1 /\ Len(made) \in Nat
      BY <1>2, <2>1, AtTheEnd DEF Make, QueueTypes
    <2>3. Message \subseteq Message' /\ Len(made) + 1 \in Message'
      BY <2>2 DEF Message
    <2>4. queue' \in Seq(Message') /\ done' \in Seq(Message')
      BY <1>1, <1>2, <2>3, LargerAlphabet, SMTT(30) DEF Make
    <2>5. pc' \in [Threads -> Labels]
      BY <1>2, Zenon DEF Make, Goto, QueueTypes, Labels
    <2>6. ASSUME NEW u \in Threads, pc'[u] \notin {"idle", "take"} PROVE hold'[u] \in Message'
      BY <1>1, <1>2, <2>3, <2>6, SMTT(30) DEF Make, Goto, QueueTypes
    <2> QED
      BY <1>1, <1>2, <2>2, <2>4, <2>5, <2>6, Zenon DEF Make, QueueTypes, Labels
  <1>3. ASSUME NEW t \in Threads, WaitRoom(t) \/ RoomTimeout(t) \/ SendReturns(t) PROVE QueueTypes'
    BY <1>1, <1>3, OneGoesOn, SMTT(30) DEF WaitRoom, RoomTimeout, SendReturns, Labels
  <1>4. ASSUME NEW t \in Threads, Link(t) PROVE QueueTypes'
    <2>1. hold[t] \in Message
      BY <1>1, <1>4 DEF Link
    <2>2. queue' \in Seq(Message)
      BY <1>1, <1>4, <2>1, AtTheEnd, AtTheFront, SMTT(30) DEF Link
    <2> QED
      BY <1>1, <1>4, <2>1, <2>2, OneGoesOn, SMTT(30) DEF Link, Labels
  <1>5. ASSUME NEW t \in Threads, Post(t) PROVE QueueTypes'
    <2>1. hold[t] \in Message
      BY <1>1, <1>5 DEF Post
    <2>2. \/ Goto(t, "sync") /\ hold' = [hold EXCEPT ![t] = hold[t]]
          \/ Goto(t, "idle") /\ hold' = [hold EXCEPT ![t] = None]
      BY <1>5, Zenon DEF Post
    <2>3. /\ made' = made /\ mode' = mode /\ sem' \in Int /\ ovrsem' \in Int
          /\ queue' \in Seq(Message) /\ done' \in Seq(Message)
      BY <1>1, <1>5 DEF Post
    <2> QED
      BY <2>1, <2>2, <2>3, OneGoesOn, Zenon DEF Labels
  <1>6. ASSUME NEW t \in Threads, WaitMessage(t) \/ Room(t) PROVE QueueTypes'
    BY <1>1, <1>6, OneGoesOn, SMTT(30) DEF WaitMessage, Room, Labels
  <1>7. ASSUME NEW t \in Threads, Take(t) PROVE QueueTypes'
    <2>1. Head(queue) \in Message /\ queue' \in Seq(Message)
      BY <1>1, <1>7, MessageIsThere, FirstTaken, SMTT(30) DEF Take
    <2> QED
      BY <1>1, <1>7, <2>1, OneGoesOn, Zenon DEF Take, Labels
  <1>8. ASSUME NEW t \in Threads, Handle(t) \/ (t = Owner /\ Quit) PROVE QueueTypes'
    <2>1. done' = Append(done, hold[t]) /\ hold[t] \in Message
      BY <1>1, <1>8, SMTT(30) DEF Handle, Quit
    <2>2. done' \in Seq(Message)
      BY <1>1, <2>1, AtTheEnd, SMTT(30)
    <2> QED
      BY <1>1, <1>8, <2>2, OneGoesOn, SMTT(30) DEF Handle, Quit, Labels
  <1>9. CASE run
    BY <1>9 DEF run, QueueTypes, Message
  <1>10. CASE purgequeue
    <2>1. Message' = Message /\ queue' \in Seq(Message) /\ sem' \in Int /\ ovrsem' \in Int
      BY <1>1, <1>10, QueueFacts, SMTT(30) DEF purgequeue, Message
    <2> QED
      BY <1>10, <2>1 DEF purgequeue, QueueTypes
  <1> QED
    BY <1>2, <1>3, <1>4, <1>5, <1>6, <1>7, <1>8, <1>9, <1>10, QueueFacts, SMTT(30)
    DEF QueueNext, Poster, Posting, Taker

(* The semaphores keep matching the queue.                                 *)

\* The points of the code that the semaphores are counted against.
Counted == {"take", "post", "link", "room"}

LEMMA CountsStay ==
  ASSUME QueueAssumption, QueueTypes, NEW t \in Threads, NEW q, Goto(t, q),
         pc[t] \notin Counted, q \notin Counted
  PROVE  /\ Doing("take")' = Doing("take") /\ Doing("post")' = Doing("post")
         /\ Doing("link")' = Doing("link") /\ Doing("room")' = Doing("room")
  <1>1. /\ pc = [u \in Threads |-> pc[u]] /\ IsFiniteSet(Threads)
        /\ DOMAIN pc = Threads
    BY QueueFacts
  <1>2. /\ pc[t] # "take" /\ pc[t] # "post" /\ pc[t] # "link" /\ pc[t] # "room"
        /\ q # "take" /\ q # "post" /\ q # "link" /\ q # "room"
    BY DEF Counted
  <1> QED
    BY <1>1, <1>2, DoingMoves, SMTT(30)

LEMMA SemaphoresKeep ==
  ASSUME QueueAssumption, QueueTypes, SemaphoresMatchQueue, QueueNext
  PROVE  SemaphoresMatchQueue'
  <1>1. /\ pc = [u \in Threads |-> pc[u]] /\ IsFiniteSet(Threads)
        /\ DOMAIN pc = Threads
    BY QueueFacts
  <1>2. /\ Len(queue) \in Int /\ sem \in Int /\ Doing("take") \in Int /\ Doing("post") \in Int
        /\ sem + Doing("take") + Doing("post") = Len(queue)
    BY QueueFacts, FS_Subset, FS_CardinalityType, SMTT(30) DEF Doing, QueueTypes, SemaphoresMatchQueue
  <1>3. /\ Len(queue) \in Int /\ ovrsem \in Int /\ Doing("link") \in Int /\ Doing("room") \in Int
         /\ ovrsem + Doing("link") + Len(queue) + Doing("room") = limit
    BY QueueFacts, FS_Subset, FS_CardinalityType, SMTT(30) DEF Doing, QueueTypes, SemaphoresMatchQueue
  <1>4. sem >= 0 /\ ovrsem >= 0 /\ sem \in Int /\ ovrsem \in Int
    BY DEF SemaphoresMatchQueue, QueueTypes
  <1>5. ASSUME NEW t \in Threads,
               \/ \E k \in Kinds : Make(t, k)
               \/ RoomTimeout(t) \/ SendReturns(t) \/ Handle(t)
               \/ t = Owner /\ Quit
        PROVE  SemaphoresMatchQueue'
    <2>1. /\ sem' = sem /\ ovrsem' = ovrsem /\ queue' = queue
          /\ \E q \in {"ovr", "idle"} : Goto(t, q)
          /\ pc[t] \in {"idle", "ovr", "sync", "handle"}
      BY <1>5, Zenon DEF Make, RoomTimeout, SendReturns, Handle, Quit
    <2>2. PICK q \in {"ovr", "idle"} : Goto(t, q)
      BY <2>1
    <2>3. pc[t] \notin Counted /\ q \notin Counted
      BY <2>1 DEF Counted
    <2>4. /\ Doing("take")' = Doing("take") /\ Doing("post")' = Doing("post")
          /\ Doing("link")' = Doing("link") /\ Doing("room")' = Doing("room")
      BY <2>2, <2>3, CountsStay, SMTT(30)
    <2> QED
      BY <2>1, <2>4 DEF SemaphoresMatchQueue
  <1>6. ASSUME NEW t \in Threads, WaitRoom(t) PROVE SemaphoresMatchQueue'
    <2>1. pc[t] = "ovr" /\ Goto(t, "link")
      BY <1>6 DEF WaitRoom
    <2>2. /\ Doing("take")' = Doing("take") /\ Doing("post")' = Doing("post")
          /\ Doing("link")' = Doing("link") + 1 /\ Doing("room")' = Doing("room")
      BY <1>1, <2>1, DoingMoves, SMTT(30)
    <2>5. /\ sem' = sem /\ ovrsem' = ovrsem - 1 /\ Len(queue') = Len(queue)
      BY <1>6, <2>2, Zenon DEF WaitRoom
    <2>6. sem + Doing("take") + Doing("post") = Len(queue)
      BY <1>2
    <2>7. (ovrsem - 1) + (Doing("link") + 1) + Len(queue) + Doing("room") = limit
      BY <1>3
    <2>8. sem >= 0 /\ (ovrsem - 1) >= 0
      BY <1>4, <1>6 DEF WaitRoom
    <2> QED
      BY <2>2, <2>5, <2>6, <2>7, <2>8, Zenon DEF SemaphoresMatchQueue
  <1>7. ASSUME NEW t \in Threads, Link(t) PROVE SemaphoresMatchQueue'
    <2>1. pc[t] = "link" /\ Goto(t, "post") /\ sem' = sem /\ ovrsem' = ovrsem
      BY <1>7 DEF Link
    <2>2. /\ Doing("take")' = Doing("take") /\ Doing("post")' = Doing("post") + 1
          /\ Doing("link")' = Doing("link") - 1 /\ Doing("room")' = Doing("room")
      BY <1>1, <2>1, DoingMoves, SMTT(30)
    <2>3. hold[t] \in Message /\ queue \in Seq(Message)
      BY <2>1 DEF QueueTypes
    <2>4. Len(queue') = Len(queue) + 1
      BY <1>7, <2>3, AtTheEnd, AtTheFront, SMTT(30) DEF Link
    <2>5. /\ sem' = sem /\ ovrsem' = ovrsem /\ Len(queue') = Len(queue) + 1
      BY <2>1, <2>2, <2>4, Zenon
    <2>6. sem + Doing("take") + (Doing("post") + 1) = Len(queue) + 1
      BY <1>2
    <2>7. ovrsem + (Doing("link") - 1) + (Len(queue) + 1) + Doing("room") = limit
      BY <1>3
    <2>8. sem >= 0 /\ ovrsem >= 0
      BY <1>4
    <2> QED
      BY <2>2, <2>5, <2>6, <2>7, <2>8, Zenon DEF SemaphoresMatchQueue
  <1>8. ASSUME NEW t \in Threads, Post(t) PROVE SemaphoresMatchQueue'
    <2>1. pc[t] = "post" /\ \E q \in {"sync", "idle"} : Goto(t, q)
      BY <1>8, Zenon DEF Post
    <2>2. PICK q \in {"sync", "idle"} : Goto(t, q)
      BY <2>1
    <2>3. /\ Doing("take")' = Doing("take") /\ Doing("post")' = Doing("post") - 1
          /\ Doing("link")' = Doing("link") /\ Doing("room")' = Doing("room")
      BY <1>1, <2>1, <2>2, DoingMoves, SMTT(30)
    <2>5. /\ sem' = sem + 1 /\ ovrsem' = ovrsem /\ Len(queue') = Len(queue)
      BY <1>8, <2>3, Zenon DEF Post
    <2>6. (sem + 1) + Doing("take") + (Doing("post") - 1) = Len(queue)
      BY <1>2
    <2>7. ovrsem + Doing("link") + Len(queue) + Doing("room") = limit
      BY <1>3
    <2>8. (sem + 1) >= 0 /\ ovrsem >= 0
      BY <1>4
    <2> QED
      BY <2>3, <2>5, <2>6, <2>7, <2>8, Zenon DEF SemaphoresMatchQueue
  <1>9. ASSUME NEW t \in Threads, WaitMessage(t) PROVE SemaphoresMatchQueue'
    <2>1. pc[t] = "idle" /\ Goto(t, "take")
      BY <1>9 DEF WaitMessage
    <2>2. /\ Doing("take")' = Doing("take") + 1 /\ Doing("post")' = Doing("post")
          /\ Doing("link")' = Doing("link") /\ Doing("room")' = Doing("room")
      BY <1>1, <2>1, DoingMoves
    <2>5. /\ sem' = sem - 1 /\ ovrsem' = ovrsem /\ Len(queue') = Len(queue)
      BY <1>9, <2>2, Zenon DEF WaitMessage
    <2>6. (sem - 1) + (Doing("take") + 1) + Doing("post") = Len(queue)
      BY <1>2
    <2>7. ovrsem + Doing("link") + Len(queue) + Doing("room") = limit
      BY <1>3
    <2>8. (sem - 1) >= 0 /\ ovrsem >= 0
      BY <1>4, <1>9 DEF WaitMessage
    <2> QED
      BY <2>2, <2>5, <2>6, <2>7, <2>8, Zenon DEF SemaphoresMatchQueue
  <1>10. ASSUME NEW t \in Threads, Take(t) PROVE SemaphoresMatchQueue'
    <2>1. pc[t] = "take" /\ Goto(t, "room") /\ sem' = sem /\ ovrsem' = ovrsem
      BY <1>10 DEF Take
    <2>2. /\ Doing("take")' = Doing("take") - 1 /\ Doing("post")' = Doing("post")
          /\ Doing("link")' = Doing("link") /\ Doing("room")' = Doing("room") + 1
      BY <1>1, <2>1, DoingMoves, SMTT(30)
    <2>3. Len(queue) # 0 /\ queue \in Seq(Message)
      BY <2>1, MessageIsThere DEF QueueTypes
    <2>4. Len(queue') = Len(queue) - 1
      BY <1>10, <2>3, FirstTaken DEF Take
    <2>5. /\ sem' = sem /\ ovrsem' = ovrsem /\ Len(queue') = Len(queue) - 1
      BY <2>1, <2>2, <2>4, Zenon
    <2>6. sem + (Doing("take") - 1) + Doing("post") = Len(queue) - 1
      BY <1>2
    <2>7. ovrsem + Doing("link") + (Len(queue) - 1) + (Doing("room") + 1) = limit
      BY <1>3
    <2>8. sem >= 0 /\ ovrsem >= 0
      BY <1>4
    <2> QED
      BY <2>2, <2>5, <2>6, <2>7, <2>8, Zenon DEF SemaphoresMatchQueue
  <1>11. ASSUME NEW t \in Threads, Room(t) PROVE SemaphoresMatchQueue'
    <2>1. pc[t] = "room" /\ Goto(t, "handle")
      BY <1>11 DEF Room
    <2>2. /\ Doing("take")' = Doing("take") /\ Doing("post")' = Doing("post")
          /\ Doing("link")' = Doing("link") /\ Doing("room")' = Doing("room") - 1
      BY <1>1, <2>1, DoingMoves
    <2>5. /\ sem' = sem /\ ovrsem' = ovrsem + 1 /\ Len(queue') = Len(queue)
      BY <1>11, <2>2, Zenon DEF Room
    <2>6. sem + Doing("take") + Doing("post") = Len(queue)
      BY <1>2
    <2>7. (ovrsem + 1) + Doing("link") + Len(queue) + (Doing("room") - 1) = limit
      BY <1>3
    <2>8. sem >= 0 /\ (ovrsem + 1) >= 0
      BY <1>4
    <2> QED
      BY <2>2, <2>5, <2>6, <2>7, <2>8, Zenon DEF SemaphoresMatchQueue
  <1>12. CASE run
    BY <1>12 DEF run, SemaphoresMatchQueue, Doing
  <1>13. CASE purgequeue
    <2>1. /\ {u \in Threads : pc[u] = "take"} = {} /\ {u \in Threads : pc[u] = "post"} = {}
          /\ {u \in Threads : pc[u] = "link"} = {} /\ {u \in Threads : pc[u] = "room"} = {}
      BY <1>13 DEF purgequeue
    <2>2. /\ Doing("take") = 0 /\ Doing("post") = 0 /\ Doing("link") = 0 /\ Doing("room") = 0
      BY <2>1, FS_EmptySet, Zenon DEF Doing
    <2>3. /\ Doing("take")' = Doing("take") /\ Doing("post")' = Doing("post")
          /\ Doing("link")' = Doing("link") /\ Doing("room")' = Doing("room")
      BY <1>13 DEF purgequeue, Doing
    <2>4. Len(queue') = 0
      BY <1>13 DEF purgequeue
    <2> QED
      BY <1>2, <1>3, <1>4, <1>13, <2>2, <2>3, <2>4, SMTT(30) DEF purgequeue, SemaphoresMatchQueue
  <1> QED
    BY <1>5, <1>6, <1>7, <1>8, <1>9, <1>10, <1>11, <1>12, <1>13, QueueFacts, Zenon
    DEF QueueNext, Poster, Posting, Taker

(* Places in a sequence before and after a message joins or leaves it.     *)

LEMMA JoinsLast ==
  ASSUME NEW S, NEW s \in Seq(S), NEW m \in S
  PROVE  /\ \A i \in DOMAIN Append(s, m) :
              \/ i \in DOMAIN s /\ Append(s, m)[i] = s[i]
              \/ Append(s, m)[i] = m
         /\ \A i, j \in DOMAIN Append(s, m) :
              i < j => i \in DOMAIN s /\ Append(s, m)[i] = s[i]
  <1>1. /\ DOMAIN Append(s, m) = 1..(Len(s) + 1) /\ DOMAIN s = 1..Len(s) /\ Len(s) \in Nat
        /\ \A i \in 1..Len(s) : Append(s, m)[i] = s[i]
        /\ Append(s, m)[Len(s) + 1] = m
    BY AtTheEnd
  <1> QED
    BY <1>1

LEMMA JoinsFirst ==
  ASSUME NEW S, NEW s \in Seq(S), NEW m \in S
  PROVE  /\ \A i \in DOMAIN (<<m>> \o s) :
              \/ i - 1 \in DOMAIN s /\ (<<m>> \o s)[i] = s[i - 1]
              \/ (<<m>> \o s)[i] = m
         /\ \A i, j \in DOMAIN (<<m>> \o s) :
              i < j => /\ i - 1 < j - 1
                       /\ j - 1 \in DOMAIN s /\ (<<m>> \o s)[j] = s[j - 1]
  <1> DEFINE c == <<m>> \o s
  <1>1. /\ c \in Seq(S) /\ Len(c) = Len(s) + 1 /\ Len(s) \in Nat /\ c[1] = m
        /\ \A i \in 1..Len(s) : c[i + 1] = s[i]
    BY AtTheFront
  <1> HIDE DEF c
  <1>2. DOMAIN c = 1..(Len(s) + 1) /\ DOMAIN s = 1..Len(s)
    BY <1>1
  <1>3. ASSUME NEW i \in DOMAIN c, i # 1 PROVE i - 1 \in DOMAIN s /\ c[i] = s[i - 1]
    <2>1. i - 1 \in 1..Len(s) /\ (i - 1) + 1 = i
      BY <1>1, <1>2, <1>3, SMTT(30)
    <2> QED
      BY <1>1, <1>2, <2>1, SMTT(30)
  <1>4. ASSUME NEW i \in DOMAIN c, NEW j \in DOMAIN c, i < j PROVE i - 1 < j - 1 /\ j # 1
    BY <1>1, <1>2, <1>4, SMTT(30)
  <1> QED
    BY <1>1, <1>3, <1>4, Zenon DEF c

LEMMA LeavesFirst ==
  ASSUME NEW S, NEW s \in Seq(S), Len(s) # 0
  PROVE  /\ 1 \in DOMAIN s /\ Head(s) = s[1]
         /\ \A i \in DOMAIN Tail(s) : /\ i + 1 \in DOMAIN s /\ Tail(s)[i] = s[i + 1]
                                      /\ 1 < i + 1
         /\ \A i, j \in DOMAIN Tail(s) : i < j => i + 1 < j + 1
  <1>1. /\ DOMAIN Tail(s) = 1..(Len(s) - 1) /\ DOMAIN s = 1..Len(s) /\ Len(s) \in Nat \ {0}
        /\ \A i \in 1..(Len(s) - 1) : Tail(s)[i] = s[i + 1]
        /\ Head(s) = s[1]
    BY FirstTaken
  <1> QED
    BY <1>1

(* Who holds which message.                                                *)

\* Where a poster may be.
PosterAt == {"idle", "ovr", "link", "post", "sync"}

\* A step of a poster.
LEMMA PosterGoesOn ==
  ASSUME QueueAssumption, QueueTypes, HoldersOK, NEW t \in Posters,
         NEW q \in {"idle", "ovr", "link", "post", "sync"}, Goto(t, q), NEW h,
         hold' = [hold EXCEPT ![t] = h], mode' = mode,
         mode = "messages" /\ q # "idle" => made'[h].by = t,
         \A m \in Message : made'[m] = made[m]
  PROVE  HoldersOK'
  <1>1. /\ pc' = [u \in Threads |-> IF u = t THEN q ELSE pc[u]]
        /\ hold' = [u \in Threads |-> IF u = t THEN h ELSE hold[u]]
    BY QueueFacts, Zenon DEF Goto
  <1>2. Owner \in Threads /\ Posters \subseteq Threads /\ Owner # t
    BY QueueFacts, Zenon DEF QueueAssumption
  <1> SUFFICES ASSUME mode = "messages" PROVE HoldersOK'
    BY Zenon DEF HoldersOK
  <1>3. pc'[Owner] \in {"idle", "take", "room", "handle"}
    BY <1>1, <1>2, Zenon DEF HoldersOK
  <1>4. ASSUME NEW u \in Posters
        PROVE  /\ pc'[u] \in {"idle", "ovr", "link", "post", "sync"}
               /\ pc'[u] # "idle" => made'[hold'[u]].by = u
    <2>1. CASE u = t
      BY <1>1, <1>2, <2>1, Zenon
    <2>2. CASE u # t
      <3>1. pc'[u] = pc[u] /\ hold'[u] = hold[u]
        BY <1>1, <1>2, <2>2, Zenon
      <3>2. /\ pc[u] \in {"idle", "ovr", "link", "post", "sync"}
            /\ pc[u] # "idle" => made[hold[u]].by = u
        BY Zenon DEF HoldersOK
      <3>3. pc[u] # "idle" => hold[u] \in Message
        BY <1>2, <3>2 DEF QueueTypes
      <3> QED
        BY <3>1, <3>2, <3>3, Zenon
    <2> QED
      BY <2>1, <2>2
  <1> QED
    BY <1>3, <1>4, Zenon DEF HoldersOK

\* A step of a thread that takes messages.
LEMMA TakerGoesOn ==
  ASSUME QueueAssumption, QueueTypes, HoldersOK, NEW t \in Takers,
         NEW q \in {"idle", "take", "room", "handle"}, Goto(t, q), NEW h,
         hold' = [hold EXCEPT ![t] = h], mode' = mode, made' = made
  PROVE  HoldersOK'
  <1>1. /\ pc' = [u \in Threads |-> IF u = t THEN q ELSE pc[u]]
        /\ hold' = [u \in Threads |-> IF u = t THEN h ELSE hold[u]]
    BY QueueFacts, Zenon DEF Goto
  <1> SUFFICES ASSUME mode = "messages" PROVE HoldersOK'
    BY Zenon DEF HoldersOK
  <1>2. Owner \in Threads /\ Posters \subseteq Threads /\ t = Owner
    BY QueueFacts DEF Takers
  <1>3. \A u \in Posters : pc'[u] = pc[u] /\ hold'[u] = hold[u]
    BY <1>1, <1>2, Zenon DEF QueueAssumption
  <1>4. pc'[Owner] = q
    BY <1>1, <1>2, Zenon
  <1> QED
    BY <1>3, <1>4, Zenon DEF HoldersOK

LEMMA HoldersKeep ==
  ASSUME QueueAssumption, QueueTypes, HoldersOK, QueueNext
  PROVE  HoldersOK'
  <1>1. /\ Posters \subseteq Threads /\ Takers \subseteq Threads /\ Owner \in Threads
        /\ \A u \in Threads : hold = [hold EXCEPT ![u] = hold[u]]
    BY QueueFacts
  <1>2. "idle" \in PosterAt /\ "link" \in PosterAt /\ "post" \in PosterAt /\ "sync" \in PosterAt
    BY DEF PosterAt
  <1>3. ASSUME NEW t \in Posters, NEW k \in Kinds, Make(t, k) PROVE HoldersOK'
    <2> DEFINE m == [post |-> k.post, urgent |-> k.urgent, by |-> t]
    <2>1. m \in [post : BOOLEAN, urgent : BOOLEAN, by : Posters]
      BY Zenon DEF Kinds
    <2>2. /\ \A n \in Message : made'[n] = made[n]
          /\ made'[Len(made) + 1] = m
      BY <1>3, <2>1, AtTheEnd, SMTT(30) DEF Make, QueueTypes, Message
    <2>3. made'[Len(made) + 1].by = t
      BY <2>2
    <2> QED
      BY <1>3, <2>2, <2>3, PosterGoesOn, Zenon DEF Make
  <1>4. ASSUME NEW t \in Posters, pc[t] # "idle", made' = made, mode' = mode,
               NEW q \in PosterAt, Goto(t, q),
               hold' = hold \/ (q = "idle" /\ hold' = [hold EXCEPT ![t] = None])
        PROVE  HoldersOK'
    <2>1. mode = "messages" => made'[hold[t]].by = t
      BY <1>4, Zenon DEF HoldersOK
    <2>2. CASE hold' = hold
      <3>1. hold' = [hold EXCEPT ![t] = hold[t]] /\ \A m \in Message : made'[m] = made[m]
        BY <1>1, <1>4, <2>2, Zenon
      <3> QED
        BY <1>4, <2>1, <3>1, PosterGoesOn, Zenon, ZenonT(30) DEF PosterAt
    <2>3. CASE q = "idle" /\ hold' = [hold EXCEPT ![t] = None]
      BY <1>4, <2>3, PosterGoesOn, Zenon DEF PosterAt
    <2> QED
      BY <1>4, <2>2, <2>3, SMTT(30)
  <1>5. ASSUME NEW t \in Posters, WaitRoom(t) \/ Link(t) PROVE HoldersOK'
    <2>1. /\ pc[t] # "idle" /\ made' = made /\ mode' = mode /\ hold' = hold
          /\ Goto(t, "link") \/ Goto(t, "post")
      BY <1>5 DEF WaitRoom, Link
    <2>2. CASE Goto(t, "link")
      BY <1>4, <1>2, <2>1, <2>2, Zenon
    <2>3. CASE Goto(t, "post")
      BY <1>4, <1>2, <2>1, <2>3, Zenon
    <2> QED
      BY <2>1, <2>2, <2>3, SMTT(30)
  <1>6. ASSUME NEW t \in Posters, RoomTimeout(t) \/ SendReturns(t) PROVE HoldersOK'
    <2>1. /\ pc[t] # "idle" /\ made' = made /\ mode' = mode
          /\ Goto(t, "idle") /\ hold' = [hold EXCEPT ![t] = None]
      BY <1>6 DEF RoomTimeout, SendReturns
    <2> QED
      BY <1>4, <1>2, <2>1, Zenon
  <1>7. ASSUME NEW t \in Posters, Post(t) PROVE HoldersOK'
    <2>1. /\ pc[t] # "idle" /\ made' = made /\ mode' = mode
      BY <1>7 DEF Post
    <2>2. \/ Goto(t, "sync") /\ hold' = [hold EXCEPT ![t] = hold[t]]
          \/ Goto(t, "idle") /\ hold' = [hold EXCEPT ![t] = None]
      BY <1>7, Zenon DEF Post
    <2>3. \/ Goto(t, "sync") /\ hold' = hold
          \/ Goto(t, "idle") /\ hold' = [hold EXCEPT ![t] = None]
      BY <1>1, <2>2, Zenon
    <2>4. CASE Goto(t, "sync") /\ hold' = hold
      BY <1>4, <1>2, <2>1, <2>4, Zenon
    <2>5. CASE Goto(t, "idle") /\ hold' = [hold EXCEPT ![t] = None]
      BY <1>4, <1>2, <2>1, <2>5, Zenon
    <2> QED
      BY <2>3, <2>4, <2>5, SMTT(30)
  <1>8. ASSUME NEW t \in Takers, Take(t) \/ Room(t) \/ Handle(t) \/ WaitMessage(t)
        PROVE  HoldersOK'
    <2>1. hold = [hold EXCEPT ![t] = hold[t]]
      BY <1>1, Zenon
    <2>2. CASE Take(t)
      BY <2>2, TakerGoesOn, Zenon DEF Take
    <2>3. CASE Room(t)
      BY <2>1, <2>3, TakerGoesOn, Zenon DEF Room
    <2>4. CASE Handle(t)
      BY <2>4, TakerGoesOn, Zenon DEF Handle
    <2>5. CASE WaitMessage(t)
      BY <2>1, <2>5, TakerGoesOn, Zenon DEF WaitMessage
    <2> QED
      BY <1>8, <2>2, <2>3, <2>4, <2>5, SMTT(30)
  <1>9. CASE Quit
    <2>1. Owner \in Takers
      BY <1>9 DEF Quit, Takers
    <2> QED
      BY <1>9, <2>1, TakerGoesOn, Zenon DEF Quit
  <1>10. CASE run \/ purgequeue
    BY <1>10, Zenon DEF run, purgequeue, HoldersOK
  <1> QED
    BY <1>3, <1>5, <1>6, <1>7, <1>8, <1>9, <1>10, Zenon DEF QueueNext, Poster, Posting, Taker

(* The order of the messages.                                              *)

\* A step that moves no message between the lists, and gives none to a thread.
LEMMA ListsStay ==
  ASSUME OrderOK, mode' = mode, made' = made, queue' = queue, done' = done,
         OwnerHas' => OwnerHas /\ hold'[Owner] = hold[Owner],
         \A t \in Posters : pc'[t] \in {"ovr", "link"} => Linking(t) /\ hold'[t] = hold[t]
  PROVE  OrderOK'
  <1> SUFFICES ASSUME mode = "messages" PROVE OrderOK'
    BY Zenon DEF OrderOK
  <1>1. \A i, j \in DOMAIN done' : i < j => InOrder(made', done'[i], done'[j])
    BY Zenon DEF OrderOK
  <1>2. \A i, j \in DOMAIN queue' : i < j => InOrder(made', queue'[i], queue'[j])
    BY Zenon DEF OrderOK
  <1>3. \A i \in DOMAIN done', j \in DOMAIN queue' : InOrder(made', done'[i], queue'[j])
    BY Zenon DEF OrderOK
  <1>4. OwnerHas' => /\ \A i \in DOMAIN done' : InOrder(made', done'[i], hold'[Owner])
                     /\ \A j \in DOMAIN queue' : InOrder(made', hold'[Owner], queue'[j])
    BY Zenon DEF OrderOK
  <1>5. ASSUME NEW t \in Posters, pc'[t] \in {"ovr", "link"}
        PROVE  /\ \A i \in DOMAIN done' : InOrder(made', done'[i], hold'[t])
               /\ \A j \in DOMAIN queue' : InOrder(made', queue'[j], hold'[t])
               /\ OwnerHas' => InOrder(made', hold'[Owner], hold'[t])
    BY <1>5, Zenon DEF OrderOK
  <1> QED
    BY <1>1, <1>2, <1>3, <1>4, <1>5, Zenon DEF OrderOK, Linking

\* The fields of the other threads, in a step of one.
LEMMA OthersStay ==
  ASSUME QueueAssumption, QueueTypes, NEW t \in Threads, NEW q, Goto(t, q), NEW h,
         hold' = [hold EXCEPT ![t] = h]
  PROVE  /\ pc'[t] = q /\ hold'[t] = h
         /\ \A u \in Threads : u # t => pc'[u] = pc[u] /\ hold'[u] = hold[u]
  BY QueueFacts, Zenon DEF Goto

\* What the lists and the threads hold are messages.
LEMMA AreMessages ==
  ASSUME QueueAssumption, QueueTypes
  PROVE  /\ \A i \in DOMAIN done : done[i] \in Message
         /\ \A i \in DOMAIN queue : queue[i] \in Message
         /\ OwnerHas => hold[Owner] \in Message
         /\ \A t \in Posters : Linking(t) => hold[t] \in Message
  <1>1. \A i \in DOMAIN done : done[i] \in Message
    BY DEF QueueTypes
  <1>2. \A i \in DOMAIN queue : queue[i] \in Message
    BY DEF QueueTypes
  <1>3. OwnerHas => hold[Owner] \in Message
    BY QueueFacts DEF QueueTypes, OwnerHas
  <1>4. \A t \in Posters : Linking(t) => hold[t] \in Message
    BY QueueFacts DEF QueueTypes, Linking
  <1> QED
    BY <1>1, <1>2, <1>3, <1>4, SMTT(30)

\* A new message comes after all others.
LEMMA MakeKeepsOrder ==
  ASSUME QueueAssumption, QueueTypes, OrderOK, NEW t \in Posters, NEW k \in Kinds, Make(t, k)
  PROVE  OrderOK'
  <1> SUFFICES ASSUME mode = "messages" PROVE OrderOK'
    BY Zenon DEF OrderOK, Make
  <1> DEFINE m == [post |-> k.post, urgent |-> k.urgent, by |-> t]
             new == Len(made) + 1
  <1>1. m \in [post : BOOLEAN, urgent : BOOLEAN, by : Posters]
    BY Zenon DEF Kinds
  <1>2. \A n \in Message : made'[n] = made[n] /\ n < new
    BY <1>1, AtTheEnd DEF Make, QueueTypes, Message
  <1>3. /\ queue' = queue /\ done' = done
        /\ t \in Threads /\ Owner \in Threads /\ Owner # t /\ Posters \subseteq Threads
    BY QueueFacts, Zenon DEF Make, QueueAssumption
  <1>4. /\ pc'[t] = "ovr" /\ hold'[t] = new
        /\ \A u \in Threads : u # t => pc'[u] = pc[u] /\ hold'[u] = hold[u]
    BY <1>3, OthersStay, Zenon DEF Make
  <1> HIDE DEF m, new
  <1>5. /\ \A a, b \in Message : InOrder(made, a, b) => InOrder(made', a, b)
        /\ \A a \in Message : InOrder(made', a, new)
    BY <1>2, Zenon DEF InOrder
  <1>6. /\ \A i \in DOMAIN done : done[i] \in Message
        /\ \A i \in DOMAIN queue : queue[i] \in Message
        /\ OwnerHas => hold[Owner] \in Message
        /\ \A u \in Posters : Linking(u) => hold[u] \in Message
    BY AreMessages, Zenon
  <1>7. OwnerHas' <=> OwnerHas
    BY <1>3, <1>4, Zenon DEF OwnerHas
  <1>8. \A i, j \in DOMAIN done' : i < j => InOrder(made', done'[i], done'[j])
    BY <1>3, <1>5, <1>6, Zenon DEF OrderOK
  <1>9. \A i, j \in DOMAIN queue' : i < j => InOrder(made', queue'[i], queue'[j])
    BY <1>3, <1>5, <1>6, Zenon DEF OrderOK
  <1>10. \A i \in DOMAIN done', j \in DOMAIN queue' : InOrder(made', done'[i], queue'[j])
    BY <1>3, <1>5, <1>6, Zenon DEF OrderOK
  <1>11. OwnerHas' => /\ \A i \in DOMAIN done' : InOrder(made', done'[i], hold'[Owner])
                      /\ \A j \in DOMAIN queue' : InOrder(made', hold'[Owner], queue'[j])
    BY <1>3, <1>4, <1>5, <1>6, <1>7, Zenon DEF OrderOK
  <1>12. ASSUME NEW u \in Posters, pc'[u] \in {"ovr", "link"}
         PROVE  /\ \A i \in DOMAIN done' : InOrder(made', done'[i], hold'[u])
                /\ \A j \in DOMAIN queue' : InOrder(made', queue'[j], hold'[u])
                /\ OwnerHas' => InOrder(made', hold'[Owner], hold'[u])
    <2>1. CASE u = t
      BY <1>3, <1>4, <1>5, <1>6, <1>7, <2>1, Zenon
    <2>2. CASE u # t
      <3>1. Linking(u) /\ hold'[u] = hold[u] /\ hold'[Owner] = hold[Owner]
        BY <1>3, <1>4, <1>12, <2>2, Zenon DEF Linking
      <3> QED
        BY <1>3, <1>5, <1>6, <1>7, <3>1, Zenon DEF OrderOK
    <2> QED
      BY <2>1, <2>2, SMTT(30)
  <1> QED
    BY <1>8, <1>9, <1>10, <1>11, <1>12, Zenon DEF OrderOK, Linking

\* A message joins the queue after those its poster made before, or before all.
LEMMA LinkKeepsOrder ==
  ASSUME QueueAssumption, QueueTypes, HoldersOK, OrderOK, NEW t \in Posters, Link(t)
  PROVE  OrderOK'
  <1> SUFFICES ASSUME mode = "messages" PROVE OrderOK'
    BY Zenon DEF OrderOK, Link
  <1> DEFINE m == hold[t]
  <1>1. /\ pc[t] = "link" /\ hold' = hold /\ made' = made /\ done' = done
        /\ t \in Threads /\ Owner \in Threads /\ Owner # t /\ Posters \subseteq Threads
        /\ hold = [hold EXCEPT ![t] = hold[t]]
    BY QueueFacts, Zenon DEF Link, QueueAssumption
  <1>2. pc'[t] = "post" /\ \A u \in Threads : u # t => pc'[u] = pc[u]
    BY <1>1, QueueFacts, Zenon DEF Link, Goto
  <1>3. Linking(t) /\ (OwnerHas' <=> OwnerHas)
    BY <1>1, <1>2, Zenon DEF Linking, OwnerHas
  <1>4. /\ \A i \in DOMAIN done : InOrder(made, done[i], m)
        /\ \A j \in DOMAIN queue : InOrder(made, queue[j], m)
        /\ OwnerHas => InOrder(made, hold[Owner], m)
    BY <1>3, Zenon DEF OrderOK
  <1>5. \A u \in Posters : pc'[u] \in {"ovr", "link"} => Linking(u) /\ u # t
    BY <1>1, <1>2 DEF Linking
  <1>6. \A u \in Posters : Linking(u) /\ u # t => InOrder(made, m, hold[u])
    <2>1. \A u \in Posters : Linking(u) => made[hold[u]].by = u
      BY DEF HoldersOK, Linking
    <2> QED
      BY <1>3, <2>1, Zenon DEF InOrder
  <1>7. m \in Message /\ queue \in Seq(Message)
    BY <1>3, AreMessages, Zenon DEF QueueTypes
  <1> HIDE DEF m
  \* What is in the queue now, and how it is ordered.
  <1>8. /\ \A j \in DOMAIN queue' : (\E i \in DOMAIN queue : queue'[j] = queue[i]) \/ queue'[j] = m
        /\ \A i, j \in DOMAIN queue' : i < j => InOrder(made, queue'[i], queue'[j])
    <2>1. CASE made[m].urgent
      <3>1. queue' = <<m>> \o queue
        BY <2>1, Zenon DEF Link, m
      <3>2. /\ \A i \in DOMAIN queue' : \/ i - 1 \in DOMAIN queue /\ queue'[i] = queue[i - 1]
                                        \/ queue'[i] = m
            /\ \A i, j \in DOMAIN queue' :
                 i < j => /\ i - 1 < j - 1
                          /\ j - 1 \in DOMAIN queue /\ queue'[j] = queue[j - 1]
        BY <1>7, <3>1, JoinsFirst, SMTT(30)
      <3>3. \A n : InOrder(made, m, n)
        BY <2>1, Zenon DEF InOrder
      <3>4. ASSUME NEW i \in DOMAIN queue', NEW j \in DOMAIN queue', i < j
            PROVE  InOrder(made, queue'[i], queue'[j])
        BY <3>2, <3>3, <3>4, Zenon DEF OrderOK
      <3> QED
        BY <3>2, <3>4, Zenon
    <2>2. CASE ~made[m].urgent
      <3>1. queue' = Append(queue, m)
        BY <2>2, Zenon DEF Link, m
      <3>2. /\ \A i \in DOMAIN queue' : (i \in DOMAIN queue /\ queue'[i] = queue[i]) \/ queue'[i] = m
            /\ \A i, j \in DOMAIN queue' : i < j => i \in DOMAIN queue /\ queue'[i] = queue[i]
        BY <1>7, <3>1, JoinsLast, SMTT(30)
      <3>3. ASSUME NEW i \in DOMAIN queue', NEW j \in DOMAIN queue', i < j
            PROVE  InOrder(made, queue'[i], queue'[j])
        BY <1>4, <3>2, <3>3, Zenon DEF OrderOK
      <3> QED
        BY <3>2, <3>3, Zenon
    <2> QED
      BY <2>1, <2>2
  <1>9. \A i, j \in DOMAIN done' : i < j => InOrder(made', done'[i], done'[j])
    BY <1>1, Zenon DEF OrderOK
  <1>10. \A i, j \in DOMAIN queue' : i < j => InOrder(made', queue'[i], queue'[j])
    BY <1>1, <1>8, Zenon
  <1>11. \A i \in DOMAIN done', j \in DOMAIN queue' : InOrder(made', done'[i], queue'[j])
    BY <1>1, <1>4, <1>8, Zenon, ZenonT(30) DEF OrderOK
  <1>12. OwnerHas' => /\ \A i \in DOMAIN done' : InOrder(made', done'[i], hold'[Owner])
                      /\ \A j \in DOMAIN queue' : InOrder(made', hold'[Owner], queue'[j])
    BY <1>1, <1>3, <1>4, <1>8, Zenon DEF OrderOK
  <1>13. ASSUME NEW u \in Posters, pc'[u] \in {"ovr", "link"}
         PROVE  /\ \A i \in DOMAIN done' : InOrder(made', done'[i], hold'[u])
                /\ \A j \in DOMAIN queue' : InOrder(made', queue'[j], hold'[u])
                /\ OwnerHas' => InOrder(made', hold'[Owner], hold'[u])
    <2>1. Linking(u) /\ u # t
      BY <1>5, <1>13, Zenon
    <2> QED
      BY <1>1, <1>3, <1>6, <1>8, <2>1, Zenon DEF OrderOK
  <1> QED
    BY <1>9, <1>10, <1>11, <1>12, <1>13, Zenon DEF OrderOK, Linking

\* The owner takes what is first in the queue.
LEMMA TakeKeepsOrder ==
  ASSUME QueueAssumption, QueueTypes, SemaphoresMatchQueue, OrderOK,
         NEW t \in Takers, Take(t)
  PROVE  OrderOK'
  <1> SUFFICES ASSUME mode = "messages" PROVE OrderOK'
    BY Zenon DEF OrderOK, Take
  <1>1. /\ t = Owner /\ made' = made /\ done' = done /\ pc[t] = "take"
        /\ Owner \in Threads /\ Posters \subseteq Threads /\ Owner \notin Posters
    BY QueueFacts DEF Take, Takers, QueueAssumption
  <1>2. /\ hold'[Owner] = Head(queue)
        /\ \A u \in Posters : pc'[u] = pc[u] /\ hold'[u] = hold[u]
    BY <1>1, OthersStay, Zenon DEF Take
  <1>3. /\ 1 \in DOMAIN queue /\ Head(queue) = queue[1]
        /\ \A i \in DOMAIN queue' : /\ i + 1 \in DOMAIN queue /\ queue'[i] = queue[i + 1]
                                    /\ 1 < i + 1
        /\ \A i, j \in DOMAIN queue' : i < j => i + 1 < j + 1
    BY <1>1, MessageIsThere, LeavesFirst, SMTT(30) DEF Take, QueueTypes
  <1>4. \A i, j \in DOMAIN done' : i < j => InOrder(made', done'[i], done'[j])
    BY <1>1, Zenon DEF OrderOK
  <1>5. \A i, j \in DOMAIN queue' : i < j => InOrder(made', queue'[i], queue'[j])
    BY <1>1, <1>3, Zenon DEF OrderOK
  <1>6. \A i \in DOMAIN done', j \in DOMAIN queue' : InOrder(made', done'[i], queue'[j])
    BY <1>1, <1>3, Zenon DEF OrderOK
  <1>7. /\ \A i \in DOMAIN done' : InOrder(made', done'[i], hold'[Owner])
        /\ \A j \in DOMAIN queue' : InOrder(made', hold'[Owner], queue'[j])
    BY <1>1, <1>2, <1>3, Zenon DEF OrderOK
  <1>8. ASSUME NEW u \in Posters, pc'[u] \in {"ovr", "link"}
        PROVE  /\ \A i \in DOMAIN done' : InOrder(made', done'[i], hold'[u])
               /\ \A j \in DOMAIN queue' : InOrder(made', queue'[j], hold'[u])
               /\ InOrder(made', hold'[Owner], hold'[u])
    BY <1>1, <1>2, <1>3, <1>8, Zenon DEF OrderOK, Linking
  <1> QED
    BY <1>4, <1>5, <1>6, <1>7, <1>8, Zenon DEF OrderOK, Linking

\* The owner is through with a message.
LEMMA HandleKeepsOrder ==
  ASSUME QueueAssumption, QueueTypes, OrderOK, NEW t \in Takers,
         pc[t] = "handle", done' = Append(done, hold[t]), hold' = [hold EXCEPT ![t] = None],
         Goto(t, "idle"), UNCHANGED <<mode, queue, made>>
  PROVE  OrderOK'
  <1> SUFFICES ASSUME mode = "messages" PROVE OrderOK'
    BY Zenon DEF OrderOK
  <1> DEFINE m == hold[t]
  <1>1. /\ t = Owner /\ made' = made /\ queue' = queue /\ OwnerHas
        /\ Owner \in Threads /\ Posters \subseteq Threads /\ Owner \notin Posters
    BY QueueFacts DEF Takers, QueueAssumption, OwnerHas
  <1>2. /\ pc'[Owner] = "idle"
        /\ \A u \in Posters : pc'[u] = pc[u] /\ hold'[u] = hold[u]
    BY <1>1, OthersStay, Zenon
  <1>3. ~OwnerHas'
    BY <1>2 DEF OwnerHas
  <1>4. m \in Message /\ done \in Seq(Message)
    BY <1>1, AreMessages, Zenon DEF QueueTypes
  <1>5. /\ \A i \in DOMAIN done : InOrder(made, done[i], m)
        /\ \A j \in DOMAIN queue : InOrder(made, m, queue[j])
        /\ \A u \in Posters : Linking(u) => InOrder(made, m, hold[u])
    BY <1>1, Zenon DEF OrderOK
  <1> HIDE DEF m
  <1>6. /\ \A i \in DOMAIN done' : (i \in DOMAIN done /\ done'[i] = done[i]) \/ done'[i] = m
        /\ \A i, j \in DOMAIN done' : i < j => i \in DOMAIN done /\ done'[i] = done[i]
    BY <1>4, JoinsLast, SMTT(30) DEF m
  <1>7. ASSUME NEW i \in DOMAIN done', NEW j \in DOMAIN done', i < j
        PROVE  InOrder(made', done'[i], done'[j])
    BY <1>1, <1>5, <1>6, <1>7, Zenon DEF OrderOK
  <1>8. \A i, j \in DOMAIN queue' : i < j => InOrder(made', queue'[i], queue'[j])
    BY <1>1, Zenon DEF OrderOK
  <1>9. ASSUME NEW i \in DOMAIN done', NEW j \in DOMAIN queue'
        PROVE  InOrder(made', done'[i], queue'[j])
    <2>1. j \in DOMAIN queue /\ queue'[j] = queue[j]
      BY <1>1, Zenon
    <2>2. CASE done'[i] = m
      BY <1>1, <1>5, <2>1, <2>2, Zenon
    <2>3. CASE i \in DOMAIN done /\ done'[i] = done[i]
      <3>1. InOrder(made, done[i], queue[j])
        BY <2>1, <2>3, Zenon DEF OrderOK
      <3> QED
        BY <1>1, <2>1, <2>3, <3>1, Zenon
    <2> QED
      BY <1>6, <2>2, <2>3, Zenon
  <1>10. ASSUME NEW u \in Posters, pc'[u] \in {"ovr", "link"}
         PROVE  /\ \A i \in DOMAIN done' : InOrder(made', done'[i], hold'[u])
                /\ \A j \in DOMAIN queue' : InOrder(made', queue'[j], hold'[u])
    BY <1>1, <1>2, <1>5, <1>6, <1>10, Zenon, ZenonT(30) DEF OrderOK, Linking
  <1> QED
    BY <1>3, <1>7, <1>8, <1>9, <1>10, Zenon DEF OrderOK, Linking

LEMMA OrderKeeps ==
  ASSUME QueueAssumption, QueueIInv, QueueNext
  PROVE  OrderOK'
  <1>1. QueueTypes /\ SemaphoresMatchQueue /\ HoldersOK /\ OrderOK
    BY Zenon DEF QueueIInv
  <1>2. /\ Posters \subseteq Threads /\ Takers \subseteq Threads /\ Owner \in Threads
        /\ \A u \in Threads : hold = [hold EXCEPT ![u] = hold[u]]
        /\ Owner \notin Posters
    BY <1>1, QueueFacts, SMTT(30) DEF QueueAssumption
  <1>3. ASSUME NEW t \in Posters, NEW q \in {"link", "sync", "idle"}, Goto(t, q), NEW h,
               hold' = [hold EXCEPT ![t] = h], q = "link" => Linking(t) /\ h = hold[t],
               UNCHANGED <<mode, made, queue, done>>
        PROVE  OrderOK'
    <2>1. /\ pc'[t] = q /\ hold'[t] = h
          /\ \A u \in Threads : u # t => pc'[u] = pc[u] /\ hold'[u] = hold[u]
      BY <1>1, <1>2, <1>3, OthersStay, Zenon
    <2>2. OwnerHas' => OwnerHas /\ hold'[Owner] = hold[Owner]
      BY <1>2, <2>1, Zenon DEF OwnerHas
    <2>3. ASSUME NEW u \in Posters, pc'[u] \in {"ovr", "link"}
          PROVE  Linking(u) /\ hold'[u] = hold[u]
      <3>1. CASE u = t
        BY <1>3, <2>1, <2>3, <3>1, SMTT(30)
      <3>2. CASE u # t
        BY <1>2, <2>1, <2>3, <3>2, Zenon DEF Linking
      <3> QED
        BY <3>1, <3>2, SMTT(30)
    <2> QED
      BY <1>1, <1>3, <2>2, <2>3, ListsStay, Zenon
  <1>4. ASSUME NEW t \in Posters, WaitRoom(t) PROVE OrderOK'
    <2>1. Goto(t, "link") /\ Linking(t) /\ hold' = [hold EXCEPT ![t] = hold[t]]
      BY <1>2, <1>4, Zenon DEF WaitRoom, Linking
    <2> QED
      BY <1>3, <1>4, <2>1, Zenon DEF WaitRoom
  <1>5. ASSUME NEW t \in Posters, RoomTimeout(t) \/ SendReturns(t) PROVE OrderOK'
    <2>1. /\ Goto(t, "idle") /\ hold' = [hold EXCEPT ![t] = None]
          /\ UNCHANGED <<mode, made, queue, done>>
      BY <1>5 DEF RoomTimeout, SendReturns
    <2> QED
      BY <1>3, <2>1, Zenon
  <1>6. ASSUME NEW t \in Posters, Post(t) PROVE OrderOK'
    <2>1. UNCHANGED <<mode, made, queue, done>>
      BY <1>6 DEF Post
    <2>2. CASE Goto(t, "sync") /\ hold' = [hold EXCEPT ![t] = hold[t]]
      BY <1>3, <2>1, <2>2, Zenon
    <2>3. CASE Goto(t, "idle") /\ hold' = [hold EXCEPT ![t] = None]
      BY <1>3, <2>1, <2>3, Zenon
    <2> QED
      BY <1>6, <2>2, <2>3, Zenon DEF Post
  <1>7. ASSUME NEW t \in Takers, WaitMessage(t) \/ Room(t) PROVE OrderOK'
    <2>1. CASE mode = "messages"
      <3>1. /\ t = Owner /\ hold' = hold /\ UNCHANGED <<mode, made, queue, done>>
        BY <1>7, <2>1 DEF WaitMessage, Room, Takers
      <3>2. \A u \in Threads : u # t => pc'[u] = pc[u]
        BY <1>1, <1>2, <1>7, QueueFacts, Zenon DEF WaitMessage, Room, Goto
      <3>3. pc'[t] = "take" \/ pc[t] = "room"
        BY <1>1, <1>2, <1>7, QueueFacts, Zenon DEF WaitMessage, Room, Goto
      <3>4. OwnerHas' => OwnerHas /\ hold'[Owner] = hold[Owner]
        BY <3>1, <3>3 DEF OwnerHas
      <3>5. \A u \in Posters : pc'[u] \in {"ovr", "link"} => Linking(u) /\ hold'[u] = hold[u]
        BY <1>2, <3>1, <3>2, Zenon DEF Linking
      <3> QED
        BY <1>1, <3>1, <3>4, <3>5, ListsStay, Zenon
    <2>2. CASE mode # "messages"
      BY <1>7, <2>2, Zenon DEF WaitMessage, Room, OrderOK
    <2> QED
      BY <2>1, <2>2
  <1>8. ASSUME NEW t \in Takers, Handle(t) PROVE OrderOK'
    BY <1>1, <1>8, HandleKeepsOrder, Zenon DEF Handle
  <1>9. CASE Quit
    <2>1. Owner \in Takers
      BY <1>9 DEF Quit, Takers
    <2> QED
      BY <1>1, <1>9, <2>1, HandleKeepsOrder, Zenon DEF Quit
  <1>10. CASE run
    BY <1>1, <1>10, ListsStay, Zenon DEF run, OwnerHas, Linking
  <1>11. CASE purgequeue
    <2>1. /\ UNCHANGED <<mode, pc, hold, made, done>> /\ DOMAIN queue' = {}
      BY <1>11 DEF purgequeue
    <2>2. (OwnerHas' <=> OwnerHas) /\ \A u \in Posters : Linking(u) <=> pc'[u] \in {"ovr", "link"}
      BY <2>1, Zenon DEF OwnerHas, Linking
    <2> QED
      BY <1>1, <2>1, <2>2, Zenon DEF OrderOK, Linking
  <1> QED
    BY <1>1, <1>4, <1>5, <1>6, <1>7, <1>8, <1>9, <1>10, <1>11,
       MakeKeepsOrder, LinkKeepsOrder, TakeKeepsOrder, Zenon
    DEF QueueNext, Poster, Posting, Taker

(* The theorems.                                                           *)

LEMMA QueueInvariant ==
  ASSUME QueueAssumption
  PROVE  QueueSpec => []QueueIInv
  <1>1. QueueInit => QueueIInv
    <2> SUFFICES ASSUME QueueInit PROVE QueueIInv
      OBVIOUS
    <2>1. QueueTypes
      <3>1. /\ pc \in [Threads -> {"idle", "ovr", "link", "post", "sync", "take", "room", "handle"}]
            /\ hold = [u \in Threads |-> hold[u]]
            /\ \A u \in Threads : pc[u] = "idle"
        BY DEF QueueInit
      <3>2. /\ \A S : made \in Seq(S) /\ queue \in Seq(S) /\ done \in Seq(S)
        BY DEF QueueInit
      <3>3. sem \in Int /\ ovrsem \in Int /\ mode \in {"jobs", "messages"}
        BY DEF QueueInit, QueueAssumption
      <3> QED
        BY <3>1, <3>2, <3>3, Zenon DEF QueueTypes
    <2>2. SemaphoresMatchQueue
      <3>1. /\ {u \in Threads : pc[u] = "take"} = {} /\ {u \in Threads : pc[u] = "post"} = {}
            /\ {u \in Threads : pc[u] = "link"} = {} /\ {u \in Threads : pc[u] = "room"} = {}
        BY DEF QueueInit
      <3>2. /\ Doing("take") = 0 /\ Doing("post") = 0 /\ Doing("link") = 0 /\ Doing("room") = 0
        BY <3>1, FS_EmptySet, Zenon DEF Doing
      <3> QED
        BY <3>2 DEF QueueInit, SemaphoresMatchQueue, QueueAssumption
    <2>3. HoldersOK
      BY QueueFacts, <2>1 DEF QueueInit, HoldersOK
    <2>4. OrderOK
      <3>1. /\ DOMAIN done = {} /\ DOMAIN queue = {} /\ ~OwnerHas
            /\ \A u \in Posters : ~Linking(u)
        BY QueueFacts, <2>1, SMTT(30) DEF QueueInit, OwnerHas, Linking
      <3> QED
        BY <3>1, Zenon DEF OrderOK
    <2> QED
      BY <2>1, <2>2, <2>3, <2>4, SMTT(30) DEF QueueIInv
  <1>2. QueueIInv /\ [QueueNext]_queue_vars => QueueIInv'
    <2>1. CASE QueueNext
      BY <2>1, QueueTypesKeep, SemaphoresKeep, HoldersKeep, OrderKeeps, Zenon DEF QueueIInv
    <2>2. CASE UNCHANGED queue_vars
      BY <2>2, Zenon DEF queue_vars, QueueIInv, QueueTypes, SemaphoresMatchQueue, HoldersOK,
         OrderOK, Message, Doing, OwnerHas, Linking
    <2> QED
      BY <2>1, <2>2, SMTT(30)
  <1> QED
    BY <1>1, <1>2, PTL DEF QueueSpec

(* Whatever the interleaving of posters, getters and owner, and for any    *)
(* number of them and any limit, sem counts the messages of the queue that *)
(* nobody is about to take and ovrsem the free places: a thread that has   *)
(* passed the one finds a message in dequeue, and the queue never holds    *)
(* more than its limit (enqueue and dequeue).                              *)
THEOREM SemaphoresAlwaysMatch ==
  ASSUME QueueAssumption
  PROVE  QueueSpec => []SemaphoresMatchQueue
  <1>1. QueueIInv => SemaphoresMatchQueue
    BY Zenon DEF QueueIInv
  <1> QED
    BY <1>1, QueueInvariant, PTL

(* The owner of a msgqueue handles what a thread posts, and does not mark  *)
(* as urgent, in the order in which it was posted, with any number of      *)
(* posters, although the place in the queue is reserved before qlock is    *)
(* taken (enqueue and push).                                               *)
THEOREM OwnerAlwaysSeesOrder ==
  ASSUME QueueAssumption
  PROVE  QueueSpec => []OwnerSeesOrder
  <1>1. QueueIInv => OwnerSeesOrder
    BY Zenon DEF QueueIInv, OrderOK, InOrder, OwnerSeesOrder
  <1> QED
    BY <1>1, QueueInvariant, PTL
=============================================================================
