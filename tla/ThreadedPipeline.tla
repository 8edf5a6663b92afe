-------------------------- MODULE ThreadedPipeline --------------------------
(***************************************************************************)
(* Worker threads.  A module whose property use_thread is set runs its     *)
(* update() in a moThread that sleeps on thread_trigger; a push by another *)
(* thread sets need_update and posts the trigger, and stop() asks the      *)
(* worker to quit and joins it.  None of the flags is protected by a lock, *)
(* and notifyUpdate starts a module it finds stopped.                      *)
(*                                                                         *)
(* The pipeline is a chain: a module has at most one observer.  An actor   *)
(* (the main thread or a worker) runs the C++ functions as a stack of      *)
(* frames; one step is one access to a shared field.  Three writes of      *)
(* stop() that follow the join (thread, use_thread and the deletion) are   *)
(* one step, and so are the two tests that guard the join.                 *)
(***************************************************************************)
EXTENDS Naturals, Sequences, FiniteSets

CONSTANTS
  Pipelines,  \* the pipelines considered: records with the fields below
  Slots,      \* how many threads of one module may exist at a time
  None

VARIABLE pipeline  \* the one at hand; it never changes

\* The modules, in the order of the vector moPipeline::modules, those of them
\* that are added later, and the module that reads each one's output, or None.
Order == pipeline.order
Late == pipeline.late
Observer == pipeline.observer

\* The modules with the property use_thread; those whose poll() calls
\* notifyUpdate (Camera, Video); those whose update() notifies itself after a
\* push (Camera); those whose start() loads an image and notifies (Image);
\* filters that may stop() themselves in update() (Threshold).
Threaded == pipeline.threaded
Polled == pipeline.polled
Rearmed == pipeline.rearmed
Eager == pipeline.eager
Checked == pipeline.checked

\* May the start request come while the pipeline is started?
Restart == pipeline.restart

Module == UNION {{p.order[i] : i \in 1..Len(p.order)} : p \in Pipelines}
Worker == Module \X (1..Slots)
main == <<"main", 0>>
Actor == Worker \cup {main}

VARIABLES
  modules,           \* moPipeline::modules
  late,              \* history: modules added since the pipeline was started
  pipeline_started,  \* is_started of the pipeline itself
  is_started, need_update, use_thread,
  thread,            \* thread[m]: slot of the moThread m points at, 0 for NULL
  trigger,           \* state of the auto-reset thread_trigger
  mtx,               \* mtx[m]: the actor that holds m's lock, or None
  want_quit,         \* moThread::want_quit
  life,              \* of a moThread: "free", "new", "running", "done"
  stack,             \* the frames of each actor, innermost first
  job,               \* what the main thread does with the vector, and where
  owed               \* history: modules with a push they have not read

flags == <<is_started, need_update, use_thread, thread, trigger>>
workers == <<want_quit, life>>
sweep == <<pipeline, modules, late, pipeline_started, job>>
vars == <<flags, workers, sweep, mtx, stack, owed>>

\* The pipeline before any module is added.
InitialModules(p) == SelectSeq(p.order, LAMBDA m : m \notin p.late)

Init ==
  /\ pipeline \in Pipelines
  /\ modules = InitialModules(pipeline)
  /\ late = {} /\ pipeline_started = FALSE
  /\ is_started = {} /\ need_update = {} /\ use_thread = {} /\ trigger = {}
  /\ thread = [m \in Module |-> 0]
  /\ mtx = [m \in Module |-> None]
  /\ want_quit = {}
  /\ life = [w \in Worker |-> "free"]
  /\ stack = [a \in Actor |-> <<>>]
  /\ job = [name |-> "events", next |-> 1]
  /\ owed = {}
-----------------------------------------------------------------------------
(* Frames.                                                                 *)

Frame(l, m) == [pc |-> l, m |-> m]
At(a, l) == stack[a] # <<>> /\ Head(stack[a]).pc = l
Of(a) == Head(stack[a]).m

\* Continue at label l, after running the frames of calls.
Call(a, l, calls) ==
  stack' = [stack EXCEPT ![a] = calls \o <<Frame(l, Of(a))>> \o Tail(@)]
Goto(a, l) == Call(a, l, <<>>)
\* Leave the function; calls is what it still runs before it returns.
Leave(a, calls) == stack' = [stack EXCEPT ![a] = calls \o Tail(@)]
Return(a) == Leave(a, <<>>)
-----------------------------------------------------------------------------
(* moModule::start.  moImageModule::start first stops a module that holds  *)
(* an image, and notifies it in the end.                                   *)

start_enter(a) ==
  /\ At(a, "start")
  /\ LET m == Of(a) IN
       IF m \in Eager \cap is_started
       THEN Call(a, "use_thread", <<Frame("stop", m)>>)
       ELSE Goto(a, "use_thread")
  /\ UNCHANGED <<flags, workers, sweep, mtx, owed>>

start_use_thread(a) ==
  /\ At(a, "use_thread")
  /\ LET m == Of(a) IN
       \/ /\ m \in Threaded
          /\ use_thread' = use_thread \cup {m}
          /\ Goto(a, "new")
       \/ /\ m \notin Threaded
          /\ use_thread' = use_thread \ {m}
          /\ Goto(a, "started")
  /\ UNCHANGED <<is_started, need_update, thread, trigger, workers, sweep, mtx,
                 owed>>

start_new(a) ==
  /\ At(a, "new")
  /\ \E k \in 1..Slots :
       /\ life[<<Of(a), k>>] = "free"
       /\ \A j \in 1..(k - 1) : life[<<Of(a), j>>] # "free"
       /\ life' = [life EXCEPT ![<<Of(a), k>>] = "new"]
       /\ want_quit' = want_quit \ {<<Of(a), k>>}
       /\ thread' = [thread EXCEPT ![Of(a)] = k]
  /\ Goto(a, "run")
  /\ UNCHANGED <<is_started, need_update, use_thread, trigger, sweep, mtx, owed>>

\* thread->start() does nothing on a thread that runs already.
start_run(a) ==
  /\ At(a, "run")
  /\ LET m == Of(a)
         w == <<m, thread[m]>> IN
       /\ thread[m] # 0
       /\ life' = [life EXCEPT ![w] = IF @ = "new" THEN "running" ELSE @]
       /\ stack' = [stack EXCEPT
            ![a] = <<Frame("started", m)>> \o Tail(@),
            ![w] = IF life[w] = "new" THEN <<Frame("loop", m)>> ELSE @]
  /\ UNCHANGED <<flags, want_quit, sweep, mtx, owed>>

\* Faulty: does not set is_started.
start_started_NoFlag(a) ==
  /\ At(a, "started")
  /\ Leave(a, IF Of(a) \in Eager THEN <<Frame("notifyUpdate", Of(a))>> ELSE <<>>)
  /\ UNCHANGED <<flags, workers, sweep, mtx, owed>>

start_started(a) ==
  /\ At(a, "started")
  /\ is_started' = is_started \cup {Of(a)}
  /\ Leave(a, IF Of(a) \in Eager THEN <<Frame("notifyUpdate", Of(a))>> ELSE <<>>)
  /\ UNCHANGED <<need_update, use_thread, thread, trigger, workers, sweep, mtx,
                 owed>>

start(a) ==
  \/ start_enter(a) \/ start_use_thread(a) \/ start_new(a) \/ start_run(a)
  \/ start_started(a)
-----------------------------------------------------------------------------
(* moModule::stop.                                                         *)

stop_quit(a) ==
  /\ At(a, "stop")
  /\ LET m == Of(a) IN
       \/ /\ m \in use_thread /\ thread[m] # 0
          /\ want_quit' = want_quit \cup {<<m, thread[m]>>}
          /\ Goto(a, "stop_post")
       \/ /\ ~(m \in use_thread /\ thread[m] # 0)
          /\ Goto(a, "stop_update") /\ UNCHANGED want_quit
  /\ UNCHANGED <<flags, life, sweep, mtx, owed>>

\* Faulty: does not wake the worker.
stop_post_Silent(a) ==
  /\ At(a, "stop_post")
  /\ Goto(a, "waitfor")
  /\ UNCHANGED <<flags, workers, sweep, mtx, owed>>

stop_post(a) ==
  /\ At(a, "stop_post")
  /\ trigger' = trigger \cup {Of(a)}
  /\ Goto(a, "waitfor")
  /\ UNCHANGED <<is_started, need_update, use_thread, thread, workers, sweep,
                 mtx, owed>>

\* Faulty: does not join the worker.
stop_waitfor_NoJoin(a) ==
  /\ At(a, "waitfor")
  /\ Goto(a, "stop_delete")
  /\ UNCHANGED <<flags, workers, sweep, mtx, owed>>

stop_waitfor(a) ==
  /\ At(a, "waitfor")
  /\ thread[Of(a)] # 0 /\ life[<<Of(a), thread[Of(a)]>>] = "done"
  /\ Goto(a, "stop_delete")
  /\ UNCHANGED <<flags, workers, sweep, mtx, owed>>

stop_delete(a) ==
  /\ At(a, "stop_delete")
  /\ life' = [life EXCEPT ![<<Of(a), thread[Of(a)]>>] = "free"]
  /\ thread' = [thread EXCEPT ![Of(a)] = 0]
  /\ use_thread' = use_thread \ {Of(a)}
  /\ Goto(a, "stop_update")
  /\ UNCHANGED <<is_started, need_update, trigger, want_quit, sweep, mtx, owed>>

\* Faulty: leaves need_update set.
stop_update_Keeps(a) ==
  /\ At(a, "stop_update")
  /\ Goto(a, "stopped")
  /\ UNCHANGED <<flags, workers, sweep, mtx, owed>>

stop_update(a) ==
  /\ At(a, "stop_update")
  /\ need_update' = need_update \ {Of(a)}
  /\ owed' = owed \ {Of(a)}
  /\ Goto(a, "stopped")
  /\ UNCHANGED <<is_started, use_thread, thread, trigger, workers, sweep, mtx>>

\* Faulty: leaves is_started set.
stop_stopped_Keeps(a) ==
  /\ At(a, "stopped")
  /\ Return(a)
  /\ UNCHANGED <<flags, workers, sweep, mtx, owed>>

stop_stopped(a) ==
  /\ At(a, "stopped")
  /\ is_started' = is_started \ {Of(a)}
  /\ Return(a)
  /\ UNCHANGED <<need_update, use_thread, thread, trigger, workers, sweep, mtx,
                 owed>>

stop(a) ==
  \/ stop_quit(a) \/ stop_post(a) \/ stop_waitfor(a) \/ stop_delete(a)
  \/ stop_update(a) \/ stop_stopped(a)
-----------------------------------------------------------------------------
(* moModule::notifyUpdate.                                                 *)

notifyUpdate_start(a) ==
  /\ At(a, "notifyUpdate")
  /\ \/ Of(a) \in is_started /\ Goto(a, "need_update")
     \/ /\ Of(a) \notin is_started
        /\ Call(a, "need_update", <<Frame("start", Of(a))>>)
  /\ UNCHANGED <<flags, workers, sweep, mtx, owed>>

notifyUpdate_flag(a) ==
  /\ At(a, "need_update")
  /\ need_update' = need_update \cup {Of(a)}
  /\ Goto(a, "post")
  /\ UNCHANGED <<is_started, use_thread, thread, trigger, workers, sweep, mtx,
                 owed>>

notifyUpdate_post(a) ==
  /\ At(a, "post")
  /\ trigger' = trigger \cup ({Of(a)} \cap use_thread)
  /\ Return(a)
  /\ UNCHANGED <<is_started, need_update, use_thread, thread, workers, sweep,
                 mtx, owed>>

notifyUpdate(a) ==
  notifyUpdate_start(a) \/ notifyUpdate_flag(a) \/ notifyUpdate_post(a)
-----------------------------------------------------------------------------
(* update() and moDataStream::push.  A camera may have no frame, a filter  *)
(* may find NULL on its input: nothing is pushed.  A filter that finds a   *)
(* wrong image stops itself and pushes all the same.                       *)

update_read(a) ==
  /\ At(a, "update")
  /\ owed' = owed \ {Of(a)}
  /\ \/ Goto(a, "push")
     \/ Of(a) \in Checked /\ Call(a, "push", <<Frame("stop", Of(a))>>)
     \/ Return(a)
  /\ UNCHANGED <<flags, workers, sweep, mtx>>

\* The module that listens to the output of m, if it is in the pipeline.
Listener(m) ==
  IF Observer[m] \in {modules[i] : i \in 1..Len(modules)}
  THEN Observer[m] ELSE None

Rearm(a) ==
  Leave(a, IF Of(a) \in Rearmed THEN <<Frame("notifyUpdate", Of(a))>> ELSE <<>>)

\* Faulty: notifies an observer that is not there.
push_Unchecked(a) ==
  /\ At(a, "push")
  /\ owed' = owed \cup {Listener(Of(a))}
  /\ Goto(a, "notifyObservers")
  /\ UNCHANGED <<flags, workers, sweep, mtx>>

push(a) ==
  /\ At(a, "push")
  /\ LET o == Listener(Of(a)) IN
       \/ o = None /\ Rearm(a) /\ UNCHANGED owed
       \/ o # None /\ owed' = owed \cup {o} /\ Goto(a, "notifyObservers")
  /\ UNCHANGED <<flags, workers, sweep, mtx>>

notifyObservers_lock(a) ==
  /\ At(a, "notifyObservers")
  /\ LET o == Observer[Of(a)] IN
       /\ mtx[o] = None
       /\ mtx' = [mtx EXCEPT ![o] = a]
       /\ Call(a, "unlock", <<Frame("notifyUpdate", o)>>)
  /\ UNCHANGED <<flags, workers, sweep, owed>>

notifyObservers_unlock(a) ==
  /\ At(a, "unlock")
  /\ mtx' = [mtx EXCEPT ![Observer[Of(a)]] = None]
  /\ Rearm(a)
  /\ UNCHANGED <<flags, workers, sweep, owed>>

update(a) ==
  \/ update_read(a) \/ push(a)
  \/ notifyObservers_lock(a) \/ notifyObservers_unlock(a)
-----------------------------------------------------------------------------
(* _thread_process and needUpdate(true).                                   *)

thread_loop(w) ==
  /\ At(w, "loop")
  /\ \/ /\ w \in want_quit
        /\ life' = [life EXCEPT ![w] = "done"]
        /\ Return(w)
     \/ w \notin want_quit /\ Goto(w, "test") /\ UNCHANGED life
  /\ UNCHANGED <<flags, want_quit, sweep, mtx, owed>>

needUpdate_test(w) ==
  /\ At(w, "test")
  /\ Goto(w, IF Of(w) \in need_update THEN "clear" ELSE "assert")
  /\ UNCHANGED <<flags, workers, sweep, mtx, owed>>

\* Faulty: resets the trigger before it waits.
needUpdate_assert_Resets(w) ==
  /\ At(w, "assert") /\ thread[Of(w)] # 0
  /\ trigger' = trigger \ {Of(w)}
  /\ Goto(w, "wait")
  /\ UNCHANGED <<is_started, need_update, use_thread, thread, workers, sweep,
                 mtx, owed>>

needUpdate_assert(w) ==
  /\ At(w, "assert") /\ thread[Of(w)] # 0
  /\ Goto(w, "wait")
  /\ UNCHANGED <<flags, workers, sweep, mtx, owed>>

needUpdate_wait(w) ==
  /\ At(w, "wait") /\ Of(w) \in trigger
  /\ trigger' = trigger \ {Of(w)}
  /\ Goto(w, "retest")
  /\ UNCHANGED <<is_started, need_update, use_thread, thread, workers, sweep,
                 mtx, owed>>

\* Faulty: clears the flag before it tests it.
needUpdate_retest_ClearsFirst(w) ==
  /\ At(w, "retest")
  /\ need_update' = need_update \ {Of(w)}
  /\ Goto(w, "loop")
  /\ UNCHANGED <<is_started, use_thread, thread, trigger, workers, sweep, mtx,
                 owed>>

needUpdate_retest(w) ==
  /\ At(w, "retest")
  /\ Goto(w, IF Of(w) \in need_update THEN "clear" ELSE "loop")
  /\ UNCHANGED <<flags, workers, sweep, mtx, owed>>

needUpdate_clear(w) ==
  /\ At(w, "clear")
  /\ need_update' = need_update \ {Of(w)}
  /\ Call(w, "loop", <<Frame("update", Of(w))>>)
  /\ UNCHANGED <<is_started, use_thread, thread, trigger, workers, sweep, mtx,
                 owed>>

thread_process(w) ==
  \/ thread_loop(w) \/ needUpdate_test(w) \/ needUpdate_assert(w)
  \/ needUpdate_wait(w) \/ needUpdate_retest(w) \/ needUpdate_clear(w)
-----------------------------------------------------------------------------
(* The main thread: poll(), and the requests between two polls.            *)

Idle == stack[main] = <<>> /\ job.name = "events"

Begin(name) ==
  /\ Idle
  /\ job' = [name |-> name, next |-> 1]
  /\ UNCHANGED <<flags, workers, pipeline, modules, mtx, stack, owed>>

pipeline_start ==
  /\ Restart \/ ~pipeline_started
  /\ Begin("start") /\ pipeline_started' = TRUE /\ late' = {}

pipeline_stop ==
  Begin("stop") /\ pipeline_started' = FALSE /\ UNCHANGED late

pipeline_poll ==
  /\ pipeline_started
  /\ Begin("poll") /\ UNCHANGED <<pipeline_started, late>>

\* The next module of the vector, or back to the event loop.
Advance ==
  /\ stack[main] = <<>> /\ job.name # "events"
  /\ \/ /\ job.next <= Len(modules)
        /\ stack' = [stack EXCEPT
                       ![main] = <<Frame(job.name, modules[job.next])>>]
        /\ job' = [job EXCEPT !.next = @ + 1]
     \/ /\ job.next > Len(modules)
        /\ job' = [name |-> "events", next |-> 1]
        /\ UNCHANGED stack
  /\ UNCHANGED <<flags, workers, pipeline, modules, late, pipeline_started, mtx,
                 owed>>

\* A create request and the connect requests that follow it.
addElement(m) ==
  /\ Idle
  /\ m \in Late /\ \A i \in 1..Len(modules) : modules[i] # m
  /\ modules' = Append(modules, m)
  /\ late' = IF pipeline_started THEN late \cup {m} ELSE late
  /\ UNCHANGED <<flags, workers, pipeline, pipeline_started, job, mtx, stack,
                 owed>>

poll_notify ==
  /\ At(main, "poll")
  /\ LET m == Of(main) IN
       IF m \in Polled
       THEN Call(main, "poll_thread", <<Frame("notifyUpdate", m)>>)
       ELSE Goto(main, "poll_thread")
  /\ UNCHANGED <<flags, workers, sweep, mtx, owed>>

poll_thread ==
  /\ At(main, "poll_thread")
  /\ IF Of(main) \in use_thread THEN Return(main) ELSE Goto(main, "needUpdate")
  /\ UNCHANGED <<flags, workers, sweep, mtx, owed>>

poll_test ==
  /\ At(main, "needUpdate")
  /\ IF Of(main) \in need_update
     THEN Goto(main, "poll_clear") ELSE Return(main)
  /\ UNCHANGED <<flags, workers, sweep, mtx, owed>>

poll_clear ==
  /\ At(main, "poll_clear")
  /\ need_update' = need_update \ {Of(main)}
  /\ Goto(main, "update")
  /\ UNCHANGED <<is_started, use_thread, thread, trigger, workers, sweep, mtx,
                 owed>>

Run(a) == start(a) \/ stop(a) \/ notifyUpdate(a) \/ update(a)

Main ==
  Advance \/ poll_notify \/ poll_thread \/ poll_test \/ poll_clear \/ Run(main)

Request ==
  pipeline_start \/ pipeline_stop \/ \E m \in Module : addElement(m)

Next ==
  \/ Main \/ pipeline_poll \/ Request
  \/ \E w \in Worker : thread_process(w) \/ Run(w)

Spec == Init /\ [][Next]_vars

(* The main loop keeps running and polls a started pipeline again and      *)
(* again; the operating system schedules every thread that can run.  No    *)
(* fairness is assumed of the requests.                                    *)
Fairness ==
  /\ WF_vars(Main) /\ SF_vars(pipeline_poll)
  /\ \A w \in Worker : WF_vars(thread_process(w) \/ Run(w))

FairSpec == Spec /\ Fairness
-----------------------------------------------------------------------------
Live(w) == life[w] = "new" \/ stack[w] # <<>>

TypeOK ==
  /\ \A i \in 1..Len(modules) : modules[i] \in Module
  /\ late \subseteq Module /\ pipeline_started \in BOOLEAN
  /\ is_started \subseteq Module /\ need_update \subseteq Module
  /\ use_thread \subseteq Module /\ trigger \subseteq Module
  /\ thread \in [Module -> 0..Slots]
  /\ mtx \in [Module -> Actor \cup {None}]
  /\ want_quit \subseteq Worker
  /\ life \in [Worker -> {"free", "new", "running", "done"}]
  /\ \A a \in Actor, i \in 1..3 : i <= Len(stack[a]) => stack[a][i].m \in Module
  /\ job.name \in {"events", "start", "stop", "poll"}
  /\ owed \subseteq Module

(* A module has at most one running thread, the one its field thread       *)
(* points at, so that stop() joins every worker there is.                  *)
NoOrphanThread ==
  \A w \in Worker : Live(w) => thread[w[1]] = w[2]

(* "assert(this->thread != NULL)" in needUpdate never fails.               *)
ThreadIsSet == \A w \in Worker : At(w, "assert") => thread[w[1]] # 0

\* A module's turn in a start request that may have come to a started pipeline.
RepeatedStart(a) == Restart /\ a = main /\ Len(stack[a]) = 1

(* start() of a video or camera begins with an assertion that its capture  *)
(* is closed.  No start() that a push causes, in whatever thread and stage *)
(* of a request, finds it open, and neither does a start request to a      *)
(* stopped pipeline.  A start request to a started one is excepted:        *)
(* web_pipeline_start does not test for it, and the assertion then fails   *)
(* for every capture that could be opened.                                 *)
CaptureIsClosed ==
  \A a \in Actor :
    At(a, "start") /\ Of(a) \in Polled /\ ~RepeatedStart(a) =>
      Of(a) \notin is_started

(* Once pipeline->stop() returned to the event loop no module is started   *)
(* and no worker runs, so a module may be removed.                         *)
StopStopsEverything ==
  Idle /\ ~pipeline_started =>
    is_started = {} /\ need_update = {} /\ \A w \in Worker : life[w] = "free"

(* A worker that sleeps although its module has an update pending is       *)
(* about to be woken: the trigger is posted, or will be by the actor that  *)
(* set the flag.                                                           *)
NoLostWakeup ==
  \A w \in Worker :
    At(w, "wait") /\ w[1] \in need_update =>
      \/ w[1] \in trigger
      \/ \E a \in Actor : At(a, "post") /\ Of(a) = w[1]

\* Some actor is going to run label l of module m, now or when calls return.
Pending(l, m) == \E a \in Actor : \E i \in 1..Len(stack[a]) :
                   stack[a][i] = Frame(l, m)

(* Data pushed to a module and not read yet will be read: the flag is set, *)
(* or the pusher has still to set it, or the reader has cleared it and has *)
(* still to read.  No interleaving of the unlocked test and clear of       *)
(* need_update loses a frame.                                              *)
NoLostUpdate ==
  \A m \in owed :
    \/ m \in need_update
    \/ Pending("notifyUpdate", m) \/ Pending("need_update", m)
    \/ Pending("update", m)
    \/ \E u \in DOMAIN Observer : Observer[u] = m /\ Pending("notifyObservers", u)

(* Neither a wakeup nor an update is lost, in states of the declared types.*)
NothingIsLost == TypeOK /\ NoLostWakeup /\ NoLostUpdate

(* notifyUpdate starts only modules that were added after the pipeline was *)
(* started, as its comment says.                                           *)
AutoStartsOnlyLate ==
  \A a \in Actor, m \in Module :
    At(a, "start") /\ Len(stack[a]) > 1 /\ stack[a][2] = Frame("need_update", m)
      => m \in late

(* start() meets a module it may start: a capture that is closed, unless a *)
(* start request is repeated, and a module added late if a push starts it. *)
StartsAreInOrder == CaptureIsClosed /\ AutoStartsOnlyLate

\* The chains of which the theorems speak.  Threads are for modules that are
\* there from the beginning, do not notify themselves in start() and do not
\* stop() themselves in update(); what listens to such a module comes after it
\* in the vector, and no start request comes while threads run.
OrderedChain(p) ==
  LET first == InitialModules(p)
      all == {p.order[i] : i \in 1..Len(p.order)}
  IN /\ p.late \subseteq all /\ first \in Seq(all)
     /\ \A i, j \in 1..Len(first) : first[i] = first[j] => i = j
     /\ p.observer \in [all -> all \cup {None}]
     /\ p.threaded \subseteq {first[i] : i \in 1..Len(first)}
     /\ p.threaded \cap (p.eager \cup p.checked) = {}
     /\ p.restart => p.threaded = {}
     /\ \A i, j \in 1..Len(first) :
          first[i] \in p.threaded /\ p.observer[first[i]] = first[j] => i < j
ChainAssumption ==
  /\ Slots \in Nat \ {0} /\ None \notin Module
  /\ \A p \in Pipelines : OrderedChain(p)

Stopping == job.name = "stop"
Owed(m) == m \in owed

(* pipeline->stop() terminates: every worker it asks to quit sees it.      *)
StopTerminates == Stopping ~> Idle

(* A push to a module is read by it, or dropped by a stop().               *)
PushesAreRead == \A m \in Module : Owed(m) ~> ~Owed(m)
=============================================================================
