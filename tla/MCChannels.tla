------------------------------ MODULE MCChannels ------------------------------
(*****************************************************************************)
(* What Movid waits on: the event loop and the connections of libevent, the  *)
(* message queues and the chained units of ptypes.                           *)
(*****************************************************************************)
EXTENDS Integers, Sequences, TLC

CONSTANTS None, ev_signal

VARIABLES
  part,  \* the part at hand; it never changes
  \* the state of that part:
  x1, x2, x3, x4, x5, x6, x7, x8, x9, x10, x11

\* A signal, a descriptor and a timer, of one priority or of two.
EventKind == [sig |-> "signal", io |-> "io", tim |-> "timer"]
EventTimeouts == [sig |-> {None}, io |-> {None, 1}, tim |-> {0, 1}]
OnePriority == [sig |-> 0, io |-> 0, tim |-> 0]
TimerLast == [OnePriority EXCEPT !["tim"] = 1]
EventUses ==
  {[used |-> {"sig", "tim"}, ev_pri |-> OnePriority],
   [used |-> {"io", "tim"}, ev_pri |-> OnePriority],
   [used |-> {"io", "tim"}, ev_pri |-> TimerLast]}

Loop == INSTANCE EventLoop WITH
  scenario <- x1, base <- x2, loop <- x3, now <- x4, tv_cache <- x5,
  event_gotterm <- x6, event_break <- x7, evsigcaught <- x8,
  evsignal_caught <- x9, pair <- x10, owed <- x11,
  Events <- {"sig", "io", "tim"}, Kind <- EventKind,
  Timeouts <- EventTimeouts, Scenarios <- EventUses,
  Modes <- {{}, {"ONCE", "NONBLOCK"}}, Persist <- {"sig"}, MaxTime <- 2,
  MaxCaught <- 2, PairSize <- 2
Http == INSTANCE HttpConnection WITH
  c <- x1, stream <- x2, peer <- x3, Directions <- {"INCOMING", "OUTGOING"},
  Tokens <- {"GET", "POST", "header", "close", "length", "zero", "badlength", "chunked", "end", "data", "last"},
  MaxInput <- 3, MaxOutput <- 2, retry_max <- 2
Queue == INSTANCE PtQueues WITH
  mode <- x1, pc <- x2, hold <- x3, queue <- x4, sem <- x5, ovrsem <- x6,
  made <- x7, done <- x8, quit <- x9, Posters <- {"p1", "p2"},
  Getters <- {"g1", "g2"}, Owner <- "o", limit <- 2, MaxPosts <- 3,
  unit <- x1, pipe <- x2, owner <- x3, stdin <- x4, stdout <- x5, runs <- x6,
  N <- 3, Items <- 3, PipeSize <- 1, BufSize <- 2, MayThrow <- {1, 2, 3},
  MaxRuns <- 2

\* The constants meet the assumption of the theorems about the queues.
ASSUME TheoremsApply == Queue!QueueAssumption

\* The variables that a part of fewer variables leaves at 0.
Rest3 == <<x4, x5, x6, x7, x8, x9, x10, x11>>
Rest6 == <<x7, x8, x9, x10, x11>>
Rest9 == <<x10, x11>>
Zero9 == x10 = 0 /\ x11 = 0
Zero6 == x7 = 0 /\ x8 = 0 /\ x9 = 0 /\ Zero9
Zero3 == x4 = 0 /\ x5 = 0 /\ x6 = 0 /\ Zero6

all == <<part, x1, x2, x3, x4, x5, x6, x7, x8, x9, x10, x11>>

PartInit ==
  \/ part = "loop" /\ Loop!Init
  \/ part = "http" /\ Http!Init /\ Zero3
  \/ part = "jobs" /\ Queue!QueueInit /\ Zero9
  \/ part = "units" /\ Queue!UnitInit /\ Zero6

PartNext ==
  /\ UNCHANGED part
  /\ \/ part = "loop" /\ Loop!Next
     \/ part = "http" /\ Http!Next /\ UNCHANGED Rest3
     \/ part = "jobs" /\ Queue!QueueNext /\ UNCHANGED Rest9
     \/ part = "units" /\ Queue!UnitNext /\ UNCHANGED Rest6

\* These parts may come to their end.
Ends == part \in {"jobs", "units"} /\ UNCHANGED all

\* The fairness each part states, in that part.
LoopVars == Loop!vars
HttpVars == Http!vars
JobsVars == Queue!queue_vars
UnitsVars == Queue!unit_vars
PartFairness ==
  /\ WF_LoopVars(part = "loop" /\ Loop!Loop /\ UNCHANGED x1)
  /\ WF_LoopVars(part = "loop" /\ Loop!event_base_loop /\ UNCHANGED x1)
  /\ WF_LoopVars(part = "loop" /\ Loop!Tick /\ UNCHANGED x1)
  /\ WF_HttpVars(part = "http" /\ Http!evhttp_timeout)
  /\ WF_HttpVars(part = "http" /\ Http!Reply)
  /\ \A t \in {"p1", "p2"} :
       WF_JobsVars(part = "jobs" /\ Queue!Posting(t))
  /\ \A t \in {"g1", "g2", "o"} :
       WF_JobsVars(part = "jobs" /\ t \in Queue!Takers /\ Queue!Taker(t))
  /\ WF_UnitsVars(part = "units" /\ Queue!Caller)
  /\ \A u \in 1..3 : WF_UnitsVars(part = "units" /\ Queue!Thread(u))

PartSpec == PartInit /\ [][PartNext \/ Ends]_all /\ PartFairness
-------------------------------------------------------------------------------
(* The handlers of libevent find what they expect: the counters and the    *)
(* active queues of the loop agree with the flags of the events, a handler *)
(* of a connection runs only in the states it was written for, a request   *)
(* is called back at most once, and the MJPEG stream of the web server     *)
(* uses a request that lives.                                              *)
HandlersAreSound ==
  /\ part = "loop" => Loop!QueuesMatchFlags
  /\ part = "http" => /\ Http!HandlersMeetTheirState /\ Http!CalledBackOnce
                      /\ Http!StreamUsesLiveRequest

(* The semaphores of a message queue agree with its list at every point,   *)
(* one owner sees the messages of a thread in order, and a chain of units  *)
(* has passed on everything once waitfor() has returned, though the first  *)
(* one threw; what a later unit that threw had not read is lost.           *)
ChannelsAreSound ==
  /\ part = "jobs" => Queue!SemaphoresMatchQueue /\ Queue!OwnerSeesOrder
  /\ part = "units" => Queue!ChainDelivers

(* A signal that was caught is served, a call of event_base_loop the way   *)
(* movid.cpp makes it returns, and a peer that has gone silent does not    *)
(* keep its connection, except one that carries a stream.                  *)
EventsAreServed ==
  /\ (part = "loop" /\ Loop!Owed("sig")) ~> (part = "loop" /\ ~Loop!Owed("sig"))
  /\ (part = "loop" /\ Loop!Polling) ~> (part = "loop" /\ Loop!Returned)
  /\ (part = "http" /\ Http!Silent) ~> (part = "http" /\ Http!Dropped)

(* send() returns, unless the owner leaves run() at a MSG_QUIT and stays   *)
(* away, and waitfor() returns though units of the chain threw, unless the *)
(* unit before one that threw has more to write than the pipe between them *)
(* holds: nobody reads it, and do_main never closes uin.                   *)
ChannelsDrain ==
  /\ \A t \in {"p1", "p2"} :
       (part = "jobs" /\ Queue!Sending(t)) ~>
         (part = "jobs" /\ (Queue!QueueIdle(t) \/ Queue!OwnerLeft))
  /\ (part = "units" /\ Queue!Running) ~>
       (part = "units" /\ (~Queue!Running \/ \E u \in 1..3 : Queue!Stranded(u)))
===============================================================================
