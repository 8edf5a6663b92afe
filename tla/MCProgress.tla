------------------------------ MODULE MCProgress ------------------------------
(*****************************************************************************)
(* What must happen in the end: the threads of a pipeline, the daemon's main *)
(* loop, and the finger tips that settle.                                    *)
(*****************************************************************************)
EXTENDS Integers, Sequences, TLC

CONSTANTS None, Pipelines, Preset

VARIABLES
  part,  \* the part at hand; it never changes
  \* the state of that part:
  x1, x2, x3, x4, x5, x6, x7, x8, x9, x10, x11, x12, x13, x14, x15

\* Every preset, with and without the web server and test mode; one preset
\* slot of the web page parses and the other does not, or was never saved.
AllOptions == [preset : {"none", "good", "bad", "missing"}, http : BOOLEAN,
               test : BOOLEAN]
SavedSlots == <<"good", "bad">>
UnsavedSlot == <<"good", "missing">>

\* Hands with four convexity defects, of which one may be shallow.
Spread(p, q, shallow) ==
  {[start |-> p, end |-> 12, depth |-> 14], [start |-> 32, end |-> q, depth |-> 13],
   [start |-> 22, end |-> 25, depth |-> 12],
   [start |-> 1, end |-> 24, depth |-> IF shallow THEN 1 ELSE 11]}
SomeHands ==
  {[defects |-> Spread(p, q, sh), big |-> TRUE, pixels |-> <<20, 40, 40>>] :
     p \in {33, 37}, q \in 25..26, sh \in BOOLEAN}
  \cup {[defects |-> {}, big |-> FALSE, pixels |-> <<200>>]}

Threads == INSTANCE ThreadedPipeline WITH
  pipeline <- x1, modules <- x2, late <- x3, pipeline_started <- x4,
  is_started <- x5, need_update <- x6, use_thread <- x7, thread <- x8,
  trigger <- x9, mtx <- x10, want_quit <- x11, life <- x12, stack <- x13,
  job <- x14, owed <- x15, Slots <- 1
Daemon == INSTANCE DaemonLoop WITH
  options <- x1, pc <- x2, want_quit <- x3, modules <- x4, is_started <- x5,
  errors <- x6, last_internal_error <- x7, requests <- x8, port_busy <- x9,
  term <- x10, bye <- x11, Module <- {"camera", "filter"}, Slot <- {1, 2},
  Options <- AllOptions, MaxRequests <- 2
Finger == INSTANCE Finders WITH
  hand <- x1, merge_distance <- x2, fingertips <- x3, Hands <- SomeHands,
  min_distance <- 10, Merges <- {10, 25}

\* The variables that a part of fewer variables leaves at 0.
Rest3 == <<x4, x5, x6, x7, x8, x9, x10, x11, x12, x13, x14, x15>>
Rest11 == <<x12, x13, x14, x15>>
Zero11 == x12 = 0 /\ x13 = 0 /\ x14 = 0 /\ x15 = 0
Zero3 ==
  /\ x4 = 0 /\ x5 = 0 /\ x6 = 0 /\ x7 = 0 /\ x8 = 0 /\ x9 = 0 /\ x10 = 0
  /\ x11 = 0 /\ Zero11

all == <<part, x1, x2, x3, x4, x5, x6, x7, x8, x9, x10, x11, x12, x13, x14,
  x15>>

PartInit ==
  \/ part = "threads" /\ Threads!Init
  \/ part = "daemon" /\ Daemon!Init /\ Zero11
  \/ part = "finders" /\ Finger!Init /\ Zero3

PartNext ==
  /\ UNCHANGED part
  /\ \/ part = "threads" /\ Threads!Next
     \/ part = "daemon" /\ Daemon!Next /\ UNCHANGED Rest11
     \/ part = "finders" /\ Finger!Next /\ UNCHANGED Rest3

\* These parts may come to their end.
Ends == part \in {"finders"} /\ UNCHANGED all

Chains == INSTANCE MCThreadedPipeline WITH
  pipeline <- x1, modules <- x2, late <- x3, pipeline_started <- x4,
  is_started <- x5, need_update <- x6, use_thread <- x7, thread <- x8,
  trigger <- x9, mtx <- x10, want_quit <- x11, life <- x12, stack <- x13,
  job <- x14, owed <- x15, Slots <- 1, Pipelines <- {}
ThreadPipelines == Chains!LiveChains

\* The fairness each part states, in that part.
ThreadsVars == Threads!vars
DaemonVars == Daemon!vars
FingerVars == Finger!vars
PartFairness ==
  /\ WF_ThreadsVars(part = "threads" /\ Threads!Main)
  /\ SF_ThreadsVars(part = "threads" /\ Threads!pipeline_poll)
  /\ \A w \in Threads!Worker :
       WF_ThreadsVars(part = "threads" /\ (Threads!thread_process(w) \/ Threads!Run(w)))
  /\ WF_DaemonVars(part = "daemon" /\ Daemon!Main)
  /\ WF_DaemonVars(part = "daemon" /\ Daemon!PortFreed)
  /\ WF_FingerVars(part = "finders" /\ Finger!applyFilter)

PartSpec == PartInit /\ [][PartNext \/ Ends]_all /\ PartFairness
-------------------------------------------------------------------------------
(* pipeline->stop() terminates: every worker it asks to quit sees it.      *)
StopTerminates ==
  (part = "threads" /\ Threads!Stopping) ~> (part = "threads" /\ Threads!Idle)

(* A push to a module is read by it, or dropped by a stop().               *)
PushesAreRead ==
  \A m \in Threads!Module :
    (part = "threads" /\ Threads!Owed(m)) ~> (part = "threads" /\ ~Threads!Owed(m))

(* getLastError, "once called, [...] will reset the error state", so that  *)
(* the loop that logs the errors of the pipeline ends.                     *)
ErrorLoopEnds ==
  (part = "daemon" /\ Daemon!Logging) ~> (part = "daemon" /\ ~Daemon!Logging)

(* The main loop of the daemon goes on: the loop that logs errors ends, an *)
(* error of a module of a started pipeline is logged, in test mode it ends *)
(* the program, and so does SIGTERM, unless a quit request resets          *)
(* want_quit.                                                              *)
DaemonGoesOn ==
  /\ [](part = "daemon" => Daemon!TypeOK)
  /\ ErrorLoopEnds
  /\ (part = "daemon" /\ Daemon!Terminated) ~> (part = "daemon" /\ Daemon!Gone)
  /\ (part = "daemon" /\ Daemon!TestFails) ~> (part = "daemon" /\ Daemon!Gone)
  /\ \A m \in {"camera", "filter"} :
       (part = "daemon" /\ Daemon!Failed(m)) ~> (part = "daemon" /\ ~Daemon!Failed(m))

(* The merge distance of the finger tips comes to rest on a hand that is   *)
(* shown from some point on without a change.                              *)
MergeSettles ==
  part = "finders" =>
    (<>[][Finger!SameHand]_all => <>[][Finger!SameHand => Finger!SameDistance]_all)
===============================================================================
