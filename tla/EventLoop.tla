------------------------------ MODULE EventLoop ------------------------------
(***************************************************************************)
(* libevent's event loop: the queues an event is on, event_base_loop, the  *)
(* timers and the delivery of signals.                                     *)
(*                                                                         *)
(* One thread runs the loop and every callback; a signal handler may run   *)
(* between any two of its steps.  A callback, and the program outside the  *)
(* loop, may call the functions of event.h on any event.  The heap of      *)
(* timers is the set of the events whose flags have TIMEOUT (module        *)
(* EventContainers has the heap), so events of equal timeout are taken in    *)
(* any order.  The clock is the monotonic one.                             *)
(***************************************************************************)
EXTENDS Integers, Sequences, SequencesExt, FiniteSetsExt

CONSTANTS
  Events,     \* events of the program, initialised by event_set
  ev_signal,  \* the event of the socket pair, EVLIST_INTERNAL
  Kind,       \* Kind[e]: "io", "timer" or "signal"
  Persist,    \* events with EV_PERSIST
  Timeouts,   \* Timeouts[e]: the timeouts event_add may be given, or None
  Scenarios,  \* records: used, the events the program adds, and ev_pri,
              \*   the priority of each; priorities count from 0
  Modes,      \* flags event_base_loop is called with
  MaxTime,    \* bound on the clock: no timer is set past it
  MaxCaught,  \* where a counter of evsigcaught stays
  PairSize,   \* bytes the socket pair holds
  None

AllEvents == Events \cup {ev_signal}
KindOf(e) == IF e = ev_signal THEN "io" ELSE Kind[e]
Signals == {e \in Events : Kind[e] = "signal"}

VARIABLES
  scenario,   \* the scenario at hand
  base,       \* the queues: see InitBase
  loop,       \* event_base_loop: pc, flags, and the event whose callback runs
  now,        \* the clock
  tv_cache,   \* base->tv_cache, 0 when cleared
  event_gotterm, event_break,
  evsigcaught, evsignal_caught,
  pair,       \* bytes in the socket pair
  owed        \* signal events raised and not called back since

vars == <<scenario, base, loop, now, tv_cache, event_gotterm, event_break,
          evsigcaught, evsignal_caught, pair, owed>>

nactivequeues == 1 + Max({scenario.ev_pri[e] : e \in Events})

InitBase ==
  [flags |-> [e \in AllEvents |-> {}],
   res |-> [e \in AllEvents |-> {}],
   ev_ncalls |-> [e \in AllEvents |-> 0],
   timeout |-> [e \in AllEvents |-> 0],
   activeq |-> [p \in 0..nactivequeues-1 |-> <<>>],
   event_count |-> 0, event_count_active |-> 0,
   ncalls |-> 0, running |-> None,     \* locals of event_process_active
   ev_signal_added |-> FALSE]

Init ==
  /\ scenario \in Scenarios
  /\ base = InitBase
  /\ loop = [pc |-> "out", flags |-> {}, queue |-> 0, sig |-> <<>>, seen |-> 0]
  /\ now = 1 /\ tv_cache = 0
  /\ event_gotterm = FALSE /\ event_break = FALSE
  /\ evsigcaught = [e \in Signals |-> 0] /\ evsignal_caught = FALSE
  /\ pair = 0 /\ owed = {}

gettime == IF tv_cache # 0 THEN tv_cache ELSE now
-----------------------------------------------------------------------------
(* The queues, as functions of the record b of the base.                   *)

Pri(e) == IF e = ev_signal THEN nactivequeues \div 2 ELSE scenario.ev_pri[e]
Counts(e) == IF e = ev_signal THEN 0 ELSE 1

\* A timeout that is not read any more is forgotten.
event_queue_remove(b, e, queue) ==
  [b EXCEPT !.timeout[e] = IF queue = "TIMEOUT" THEN 0 ELSE @,
            !.flags[e] = @ \ {queue},
            !.event_count = @ - Counts(e),
            !.event_count_active = @ - (IF queue = "ACTIVE" THEN 1 ELSE 0),
            !.activeq[Pri(e)] =
              IF queue = "ACTIVE" THEN SelectSeq(@, LAMBDA f : f # e) ELSE @]

event_queue_insert(b, e, queue) ==
  IF queue \in b.flags[e] THEN b
  ELSE [b EXCEPT !.flags[e] = @ \cup {queue},
                 !.event_count = @ + Counts(e),
                 !.event_count_active = @ + (IF queue = "ACTIVE" THEN 1 ELSE 0),
                 !.activeq[Pri(e)] =
                   IF queue = "ACTIVE" THEN Append(@, e) ELSE @]

RemoveIf(b, e, queue) ==
  IF queue \in b.flags[e] THEN event_queue_remove(b, e, queue) ELSE b

\* The loop over the calls of e ends when e is the event it runs.
AbortLoop(b, e) ==
  IF b.ev_ncalls[e] # 0 /\ b.running = e THEN [b EXCEPT !.ncalls = 0] ELSE b

\* evsel->add of a signal event: evsignal_add, with the event of the pair.
Register(b, e) ==
  IF KindOf(e) = "signal" /\ ~b.ev_signal_added
  THEN [event_queue_insert(b, ev_signal, "INSERTED") EXCEPT !.ev_signal_added = TRUE]
  ELSE b

\* Faulty: a timeout that is set again is not taken out of the heap first.
event_add_KeepsOld(b, e, tv) ==
  LET b1 == IF KindOf(e) # "timer" /\ b.flags[e] \cap {"INSERTED", "ACTIVE"} = {}
            THEN event_queue_insert(Register(b, e), e, "INSERTED") ELSE b
  IN IF tv = None THEN b1
     ELSE [b1 EXCEPT !.timeout[e] = gettime + tv, !.flags[e] = @ \cup {"TIMEOUT"},
                     !.event_count = @ + 1]

\* event_add: the I/O part first, then the timeout, which takes an event that
\* is active because of its timeout off the active queue.
event_add(b, e, tv) ==
  LET b1 == IF KindOf(e) # "timer" /\ b.flags[e] \cap {"INSERTED", "ACTIVE"} = {}
            THEN event_queue_insert(Register(b, e), e, "INSERTED") ELSE b
      b2 == RemoveIf(b1, e, "TIMEOUT")
      b3 == IF "ACTIVE" \in b2.flags[e] /\ "TIMEOUT" \in b2.res[e]
            THEN event_queue_remove(AbortLoop(b2, e), e, "ACTIVE") ELSE b2
  IN IF tv = None THEN b1
     ELSE event_queue_insert([b3 EXCEPT !.timeout[e] = gettime + tv], e, "TIMEOUT")

event_del(b, e) ==
  RemoveIf(RemoveIf(RemoveIf(AbortLoop(b, e), e, "TIMEOUT"), e, "ACTIVE"), e,
           "INSERTED")

event_active(b, e, r, n) ==
  IF "ACTIVE" \in b.flags[e] THEN [b EXCEPT !.res[e] = @ \cup {r}]
  ELSE event_queue_insert([b EXCEPT !.res[e] = {r}, !.ev_ncalls[e] = n], e, "ACTIVE")
-----------------------------------------------------------------------------
(* What the program calls, outside the loop or from a callback.            *)

Calls == loop.pc \in {"out", "callback"}
OnlyBase ==
  UNCHANGED <<loop, now, tv_cache, event_gotterm, event_break, evsigcaught,
              evsignal_caught, pair>>

Add(e) ==
  /\ Calls
  /\ \E tv \in Timeouts[e] :
       /\ tv # None => gettime + tv <= MaxTime
       /\ base' = event_add(base, e, tv)
  /\ UNCHANGED owed /\ OnlyBase

\* event_del; for a signal the old handler is back.
Del(e) ==
  /\ Calls
  /\ base' = event_del(base, e)
  /\ owed' = owed \ {e}
  /\ OnlyBase

\* event_base_loopbreak, and the callback of event_base_loopexit.
Ask ==
  /\ loop.pc = "callback"
  /\ \/ event_break' = TRUE /\ UNCHANGED event_gotterm
     \/ event_gotterm' = TRUE /\ UNCHANGED event_break
  /\ UNCHANGED <<base, loop, now, tv_cache, evsigcaught, evsignal_caught, pair, owed>>

\* event_base_free: what the three loops and evsignal_dealloc delete.
event_base_free ==
  /\ loop.pc = "out"
  /\ base' = [FoldSet(LAMBDA e, b : event_del(b, e), base, AllEvents) EXCEPT
                !.ev_signal_added = FALSE]
  /\ owed' = {}
  /\ loop' = [loop EXCEPT !.pc = "freed"]
  /\ UNCHANGED <<now, tv_cache, event_gotterm, event_break, evsigcaught,
                 evsignal_caught, pair>>

event_base_new ==
  /\ loop.pc = "freed"
  /\ base' = InitBase
  /\ loop' = [loop EXCEPT !.pc = "out"]
  /\ tv_cache' = 0
  /\ event_gotterm' = FALSE /\ event_break' = FALSE
  /\ evsigcaught' = [e \in Signals |-> 0] /\ evsignal_caught' = FALSE
  /\ pair' = 0
  /\ UNCHANGED <<now, owed>>

\* evsignal_handler, on top of whatever the thread is doing.
evsignal_handler(e) ==
  /\ "INSERTED" \in base.flags[e]
  /\ evsigcaught' = [evsigcaught EXCEPT ![e] = Min({@ + 1, MaxCaught})]
  /\ evsignal_caught' = TRUE
  /\ pair' = Min({pair + 1, PairSize})
  /\ owed' = owed \cup {e}
  /\ UNCHANGED <<base, loop, now, tv_cache, event_gotterm, event_break>>

Tick ==
  /\ now < MaxTime
  /\ now' = now + 1
  /\ UNCHANGED <<base, loop, tv_cache, event_gotterm, event_break, evsigcaught,
                 evsignal_caught, pair, owed>>
-----------------------------------------------------------------------------
(* event_base_loop.                                                        *)

Goto(where) == loop' = [loop EXCEPT !.pc = where]
SigAndTime == UNCHANGED <<evsigcaught, evsignal_caught, pair, owed, now>>

event_base_loop ==
  /\ loop.pc = "out"
  /\ \E flags \in Modes : loop' = [loop EXCEPT !.pc = "top", !.flags = flags]
  /\ tv_cache' = 0
  /\ UNCHANGED <<base, event_gotterm, event_break>> /\ SigAndTime

\* The head of the loop; without events the call returns and leaves tv_cache.
LoopTop ==
  /\ loop.pc = "top"
  /\ \/ /\ event_gotterm /\ event_gotterm' = FALSE
        /\ Goto("out") /\ tv_cache' = 0 /\ UNCHANGED event_break
     \/ /\ ~event_gotterm /\ event_break /\ event_break' = FALSE
        /\ Goto("out") /\ tv_cache' = 0 /\ UNCHANGED event_gotterm
     \/ /\ ~event_gotterm /\ ~event_break
        /\ \/ base.event_count <= 0 /\ Goto("out") /\ UNCHANGED tv_cache
           \/ base.event_count > 0 /\ Goto("wait") /\ tv_cache' = 0
        /\ UNCHANGED <<event_gotterm, event_break>>
  /\ UNCHANGED base /\ SigAndTime

Blocks == base.event_count_active = 0 /\ "NONBLOCK" \notin loop.flags
TimerDue == \E e \in Events : "TIMEOUT" \in base.flags[e] /\ base.timeout[e] <= now

\* Faulty: only a signal that interrupts a wait is looked for.
Dispatch_OnlyInterrupted ==
  /\ loop.pc = "wait"
  /\ \E ready \in SUBSET {e \in AllEvents : KindOf(e) = "io" /\ "INSERTED" \in base.flags[e]} :
       /\ ev_signal \in ready <=> pair > 0 /\ base.ev_signal_added
       /\ Blocks => ready # {} \/ TimerDue
       /\ base' = FoldSet(LAMBDA e, b : event_active(b, e, "READ", 1), base, ready)
  /\ IF evsignal_caught /\ Blocks THEN Goto("caught") ELSE Goto("timeouts")
  /\ tv_cache' = IF evsignal_caught /\ Blocks THEN 0 ELSE now
  /\ UNCHANGED <<event_gotterm, event_break>> /\ SigAndTime

\* evsel->dispatch: it waits until a descriptor is ready or a timer is due.
\* A caught signal is looked for before the descriptors are.
Dispatch ==
  /\ loop.pc = "wait"
  /\ \E ready \in SUBSET {e \in AllEvents : KindOf(e) = "io" /\ "INSERTED" \in base.flags[e]} :
       /\ ev_signal \in ready <=> pair > 0 /\ base.ev_signal_added
       /\ Blocks => ready # {} \/ TimerDue
       /\ base' = FoldSet(LAMBDA e, b : event_active(b, e, "READ", 1), base, ready)
  /\ IF evsignal_caught THEN Goto("caught") ELSE Goto("timeouts")
  /\ tv_cache' = IF evsignal_caught THEN 0 ELSE now
  /\ UNCHANGED <<event_gotterm, event_break>> /\ SigAndTime

\* evsignal_process: the flag is cleared, then each counter is read, and
\* lowered by what was read.
evsignal_process ==
  /\ UNCHANGED <<event_gotterm, event_break, pair, owed, now>>
  /\ \/ /\ loop.pc = "caught"
        /\ evsignal_caught' = FALSE
        /\ loop' = [loop EXCEPT !.pc = "scan", !.sig = SetToSeq(Signals), !.seen = 0]
        /\ UNCHANGED <<base, evsigcaught, tv_cache>>
     \/ /\ loop.pc = "scan" /\ loop.sig = <<>>
        /\ Goto("timeouts") /\ tv_cache' = now
        /\ UNCHANGED <<base, evsigcaught, evsignal_caught>>

ScanSignal ==
  /\ loop.pc = "scan" /\ loop.sig # <<>>
  /\ LET e == Head(loop.sig) IN
     \/ /\ loop.seen = 0 /\ evsigcaught[e] > 0
        /\ loop' = [loop EXCEPT !.seen = evsigcaught[e]]
        /\ UNCHANGED <<base, evsigcaught>>
     \/ /\ loop.seen = 0 /\ evsigcaught[e] = 0
        /\ loop' = [loop EXCEPT !.sig = Tail(@)]
        /\ UNCHANGED <<base, evsigcaught>>
     \/ /\ loop.seen # 0
        /\ evsigcaught' = [evsigcaught EXCEPT ![e] = @ - loop.seen]
        /\ base' = IF "INSERTED" \notin base.flags[e] THEN base
                   ELSE event_active(IF e \in Persist THEN base ELSE event_del(base, e),
                                     e, "SIGNAL", loop.seen)
        /\ loop' = [loop EXCEPT !.sig = Tail(@), !.seen = 0]
  /\ UNCHANGED <<now, tv_cache, event_gotterm, event_break, evsignal_caught, pair, owed>>

\* timeout_process, one timer of the heap at a time.
timeout_process ==
  /\ loop.pc = "timeouts"
  /\ LET pending == {e \in Events : "TIMEOUT" \in base.flags[e]}
         due == {e \in pending : base.timeout[e] <= tv_cache /\
                   \A f \in pending : base.timeout[e] <= base.timeout[f]} IN
     \/ \E e \in due :
          /\ base' = event_active(event_del(base, e), e, "TIMEOUT", 1)
          /\ UNCHANGED <<loop, tv_cache>>
     \/ /\ due = {} /\ base.event_count_active > 0
        /\ LET first == Min({p \in 0..nactivequeues-1 : base.activeq[p] # <<>>}) IN
             loop' = [loop EXCEPT !.pc = "process", !.queue = first]
        /\ UNCHANGED <<base, tv_cache>>
     \/ /\ due = {} /\ base.event_count_active = 0
        /\ IF "NONBLOCK" \in loop.flags THEN Goto("out") /\ tv_cache' = 0
           ELSE Goto("top") /\ UNCHANGED tv_cache
        /\ UNCHANGED base
  /\ UNCHANGED <<event_gotterm, event_break>> /\ SigAndTime

\* Faulty: EVLOOP_ONCE is not looked at.
Processed_IgnoresOnce == Goto("top") /\ UNCHANGED tv_cache

\* event_process_active returns, and the loop goes on or is done.
Processed ==
  IF base.event_count_active = 0 /\ "ONCE" \in loop.flags
  THEN Goto("out") /\ tv_cache' = 0 ELSE Goto("top") /\ UNCHANGED tv_cache

\* event_process_active takes the next event of the queue, and calls it.
event_process_active ==
  /\ loop.pc = "process"
  /\ LET q == base.activeq[loop.queue] IN
     \/ /\ base.ncalls = 0 /\ q # <<>>
        /\ LET e == Head(q)
               b == IF e \in Persist \cup {ev_signal}
                    THEN event_queue_remove(base, e, "ACTIVE") ELSE event_del(base, e)
           IN base' = [b EXCEPT !.running = e, !.ncalls = b.ev_ncalls[e]]
        /\ UNCHANGED <<loop, tv_cache, owed, pair>>
     \/ /\ base.ncalls > 0
        /\ LET e == base.running IN
           /\ base' = [base EXCEPT !.ncalls = @ - 1, !.ev_ncalls[e] = base.ncalls - 1]
           /\ pair' = IF e = ev_signal THEN pair - 1 ELSE pair   \* evsignal_cb
           /\ owed' = IF "SIGNAL" \in base.res[e] THEN owed \ {e} ELSE owed
        /\ Goto("callback") /\ UNCHANGED tv_cache
     \/ /\ base.ncalls = 0 /\ q = <<>>
        /\ base' = [base EXCEPT !.running = None]
        /\ Processed /\ UNCHANGED <<owed, pair>>
  /\ UNCHANGED <<event_gotterm, event_break, evsigcaught, evsignal_caught, now>>

CallbackReturns ==
  /\ loop.pc = "callback"
  /\ IF event_break
     THEN base' = [base EXCEPT !.ncalls = 0, !.running = None] /\ Processed
     ELSE Goto("process") /\ UNCHANGED <<base, tv_cache>>
  /\ UNCHANGED <<event_gotterm, event_break>> /\ SigAndTime

Loop ==
  \/ LoopTop \/ Dispatch \/ evsignal_process \/ ScanSignal \/ timeout_process
  \/ event_process_active \/ CallbackReturns

Next ==
  /\ UNCHANGED scenario
  /\ \/ Loop \/ event_base_loop \/ event_base_free \/ event_base_new \/ Ask \/ Tick
     \/ \E e \in scenario.used : Add(e) \/ Del(e)
     \/ \E e \in Signals : evsignal_handler(e)

\* The thread that runs the loop goes on, calls it again, and time passes.
Fairness ==
  /\ WF_vars(Loop /\ UNCHANGED scenario)
  /\ WF_vars(event_base_loop /\ UNCHANGED scenario)
  /\ WF_vars(Tick /\ UNCHANGED scenario)

Spec == Init /\ [][Next]_vars /\ Fairness
-----------------------------------------------------------------------------
(* Properties.                                                             *)

\* event_haveevents decides by event_count whether the loop goes on, and the
\* choice of the queue by event_count_active: both count exactly the flags, an
\* event is on the active queue of its priority once iff its flag says so, and
\* event_base_free leaves nothing on any queue.
QueuesMatchFlags ==
  /\ base.event_count = MapThenSumSet(LAMBDA e : Cardinality(base.flags[e]), Events)
  /\ base.event_count_active =
       Cardinality({e \in AllEvents : "ACTIVE" \in base.flags[e]})
  /\ \A p \in 0..nactivequeues-1 :
       /\ IsInjective(base.activeq[p])
       /\ ToSet(base.activeq[p]) =
            {e \in AllEvents : Pri(e) = p /\ "ACTIVE" \in base.flags[e]}
  /\ loop.pc = "freed" => \A e \in AllEvents : base.flags[e] = {}

Owed(e) == e \in owed

\* A signal that reached evsignal_handler leads to a call of the callback of its
\* event, however the handler falls between the steps of evsignal_process and
\* whatever else the event is active for, unless the event is deleted.
SignalsAreServed == \A e \in Signals : Owed(e) ~> ~Owed(e)

Polling ==
  /\ loop.pc \notin {"out", "freed"} /\ "NONBLOCK" \in loop.flags
  /\ nactivequeues = 1
Returned == loop.pc = "out"

\* A call of event_base_loop with EVLOOP_ONCE | EVLOOP_NONBLOCK, the way movid.cpp
\* polls its server, returns when there is one priority, although signals and
\* descriptors never cease.  With two, the lower number starves the higher one.
LoopReturns == Polling ~> Returned

\* event.h says that event_add schedules the event for when its condition occurs
\* or for its timeout: an I/O event that waits for its timeout also waits for its
\* descriptor, or is about to be called.
AddedWaitsForIO ==
  \A e \in Events :
    Kind[e] = "io" /\ "TIMEOUT" \in base.flags[e] =>
      base.flags[e] \cap {"INSERTED", "ACTIVE"} # {}
=============================================================================
