----------------------------- MODULE ModuleGraph -----------------------------
(***************************************************************************)
(* The graph of modules and data streams of one movid daemon, as its main  *)
(* thread builds, polls and tears it down when no module uses a thread     *)
(* (property use_thread is 0, the default).                                *)
(*                                                                         *)
(* Every module points at the streams its inputs read (moModule's          *)
(* input_map) and every stream lists the modules it notifies               *)
(* (moDataStream::observers).  Nothing ties the two sides together but the *)
(* discipline of moModule::setInput, moDataStream::removeObservers and of  *)
(* the web handlers that delete modules and web streams.                   *)
(*                                                                         *)
(* A module or a web stream is the address its object lives at: deleting   *)
(* the object frees the address for a later object of the same class.      *)
(***************************************************************************)
EXTENDS Integers, FiniteSets

CONSTANTS
  Module,    \* addresses of pipeline modules
  Web,       \* addresses of otStreamModule objects, one per open web stream
  Index,     \* input and output indexes a request or a preset may name
  Inputs,    \* Inputs[o]: the indexes object o gave to declareInput
  Outputs,   \* Outputs[m]: the indexes module m gave to declareOutput
  Format,    \* Format[s]: the format of stream s
  Accepts,   \* Accepts[x]: the formats in the type of the input x
  Polled,    \* modules whose poll() calls notifyUpdate (Camera, Video)
  Rearmed,   \* modules whose update() notifies itself after a push (Camera)
  Eager,     \* modules whose start() and property callback notify (Image)
  Checked,   \* filters that stop() themselves in update() on a wrong image
  Frees,     \* streams the destructor of their module deletes
  NULL,      \* the null stream pointer
  Dangling,  \* a pointer to a deleted stream
  Orphan     \* a pointer to a stream whose deleted module leaked it

Object == Module \cup Web
InputSlot == {x \in Object \X Index : x[2] \in Inputs[x[1]]}
Stream == {s \in Module \X Index : s[2] \in Outputs[s[1]]}

ASSUME GraphAssumption ==
  /\ Module \cap Web = {}
  /\ Inputs \in [Object -> SUBSET Index]
  /\ \A o \in Object : IsFiniteSet(Inputs[o])
  /\ \A w \in Web : Inputs[w] = {0}
  /\ 0 \in Index
  /\ Outputs \in [Module -> SUBSET Index]
  /\ Polled \subseteq Module /\ Rearmed \subseteq Module
  /\ Eager \subseteq Module
  /\ Checked \subseteq Module /\ Frees \subseteq Stream
  /\ {NULL, Dangling, Orphan} \cap (Module \X Index) = {}
  /\ NULL # Dangling /\ NULL # Orphan /\ Dangling # Orphan

VARIABLES
  modules,          \* moPipeline::modules; only its members are alive
  input,            \* the stream each input points at
  observers,        \* how often a stream lists an object as its observer
  pipeline_started, \* is_started of the pipeline itself
  is_started,       \* the modules and web streams that are started
  need_update,      \* the modules and web streams with need_update set
  web,              \* life of each web stream: "free", "open" or "closed"
  stale,            \* history: web streams that were open during a clear()
  phase,            \* where the main thread is: "events", "poll", "parse" or
                    \* "errors", the loop of main() that logs errors
  todo,             \* modules the current sweep of poll() has still to visit
  last_internal_error \* is the error message of moPipeline set?

edges == <<input, observers>>
run == <<pipeline_started, is_started, need_update>>
streams == <<web, stale>>
loop == <<phase, todo, last_internal_error>>
vars == <<modules, edges, run, streams, loop>>

Init ==
  /\ modules = {}
  /\ input = [x \in InputSlot |-> NULL]
  /\ observers = [s \in Stream |-> [o \in Object |-> 0]]
  /\ pipeline_started = FALSE
  /\ is_started = {} /\ need_update = {}
  /\ web = [w \in Web |-> "free"]
  /\ stale = {}
  /\ phase = "events" /\ todo = {} /\ last_internal_error = FALSE
-----------------------------------------------------------------------------
(* Streams: moDataStream and the input side of moModule.                   *)

isStreamValid(x, s) == Format[s] \in Accepts[x]

addObserver(obs, s, o) ==
  IF s \in Stream THEN [obs EXCEPT ![s][o] = @ + 1] ELSE obs

\* Faulty: erases every entry of o and not the first one only.
removeObserver_All(obs, s, o) ==
  IF s \in Stream THEN [obs EXCEPT ![s][o] = 0] ELSE obs

removeObserver(obs, s, o) ==
  IF s \in Stream /\ obs[s][o] > 0 THEN [obs EXCEPT ![s][o] = @ - 1] ELSE obs

\* The stream getOutput(i) of module m, NULL when i was not declared.
getOutput(m, i) == IF i \in Outputs[m] THEN <<m, i>> ELSE NULL

\* What ends up in input x when stream s is connected to it.
Accepted(x, s) == IF s # NULL /\ isStreamValid(x, s) THEN s ELSE NULL

\* Does setInput report an error instead of connecting s to input i of o?
Rejected(s, o, i) == i \notin Inputs[o] \/ Accepted(<<o, i>>, s) # s

setInput(s, o, i) ==
  \/ i \notin Inputs[o] /\ UNCHANGED edges
  \/ /\ i \in Inputs[o]
     /\ input' = [input EXCEPT ![<<o, i>>] = Accepted(<<o, i>>, s)]
     /\ observers' = addObserver(removeObserver(observers, input[<<o, i>>], o),
                                 Accepted(<<o, i>>, s), o)

\* Number of inputs of o that read stream s.
InputCount(o, s) == Cardinality({i \in Inputs[o] : input[<<o, i>>] = s})

StreamsOf(m) == {s \in Stream : s[1] = m}

\* What a pointer to stream s becomes when the module of s is deleted.
Lost(s) == IF s \in Frees THEN Dangling ELSE Orphan
-----------------------------------------------------------------------------
(* Start, stop and the sweep of poll().                                    *)

\* Faulty: leaves need_update set.
stop_KeepsNeedUpdate ==
  /\ pipeline_started' = FALSE
  /\ is_started' = is_started \ modules
  /\ UNCHANGED need_update

\* moPipeline::stop on the modules; web streams are not in the pipeline.
stop ==
  /\ pipeline_started' = FALSE
  /\ is_started' = is_started \ modules
  /\ need_update' = need_update \ modules

\* moModule::notifyUpdate for the objects in N: start them, ask for update().
Notified(N) ==
  /\ is_started' = is_started \cup N
  /\ need_update' = need_update \cup N

BeginPoll ==
  /\ phase = "events" /\ pipeline_started
  /\ phase' = "poll" /\ todo' = modules
  /\ UNCHANGED <<modules, edges, run, streams, last_internal_error>>

\* The objects that are told of a push on one of the streams S.
NotifiedBy(S) == {o \in Object : \E s \in S : observers[s][o] > 0}

\* poll() of a module nobody asked to update.
PollIdle(m) ==
  /\ phase = "poll" /\ m \in todo
  /\ m \notin need_update \cup Polled
  /\ todo' = todo \ {m}
  /\ UNCHANGED <<modules, edges, run, streams, phase, last_internal_error>>

\* Camera's update() asks for the next one after it pushed an image.
Again(m, S) == IF S = {} THEN {} ELSE {m} \cap Rearmed

\* Faulty: needUpdate() does not take the flag back.
PollUpdate_KeepsFlag(m) ==
  /\ phase = "poll" /\ m \in todo
  /\ m \in need_update \cup Polled
  /\ todo' = todo \ {m}
  /\ \E S \in SUBSET StreamsOf(m) : \E N \in SUBSET NotifiedBy(S) :
       Notified({m} \cup N)
  /\ UNCHANGED <<modules, edges, pipeline_started, streams, phase,
                 last_internal_error>>

\* poll() that runs update(): it pushes on some of its streams, and each
\* observer's notifyData asks for an update or returns early.  A filter that
\* finds a wrong image calls stop() before it pushes.
PollUpdate(m) ==
  /\ phase = "poll" /\ m \in todo
  /\ m \in need_update \cup Polled
  /\ todo' = todo \ {m}
  /\ \E S \in SUBSET StreamsOf(m), stopped \in SUBSET ({m} \cap Checked) :
       \E N \in SUBSET NotifiedBy(S) :
         /\ is_started' = ((is_started \cup {m}) \ stopped) \cup N \cup Again(m, S)
         /\ need_update' = (need_update \ {m}) \cup N \cup Again(m, S)
  /\ UNCHANGED <<modules, edges, pipeline_started, streams, phase,
                 last_internal_error>>

\* After the sweep main() logs errors while haveError() is true.  The errors of
\* modules are reset by getLastError and not modelled here; last_internal_error
\* is not reset, so with it set the main thread never leaves that loop.
EndPoll ==
  /\ phase = "poll" /\ todo = {}
  /\ phase' = IF last_internal_error THEN "errors" ELSE "events"
  /\ UNCHANGED <<modules, edges, run, streams, todo, last_internal_error>>

LogForEver == phase = "errors" /\ UNCHANGED vars
-----------------------------------------------------------------------------
(* Web handlers on the pipeline.                                           *)

WebCreate(m) ==
  /\ phase = "events" /\ m \notin modules
  /\ modules' = modules \cup {m}
  /\ UNCHANGED <<edges, run, streams, loop>>

\* setInput on module o, from module m or from the out=NULL request.
WebConnect(m, i, o, j) ==
  /\ phase = "events" /\ o \in modules
  /\ m \in modules \cup {NULL}
  /\ setInput(IF m = NULL THEN NULL ELSE getOutput(m, i), o, j)
  /\ UNCHANGED <<modules, run, streams, loop>>

\* Faulty: the removed module stays in the lists of the streams it read.
Disconnected_KeepsInputs(m) ==
  [s \in Stream |-> [o \in Object |-> IF s[1] = m THEN 0 ELSE observers[s][o]]]

\* The observer lists once m has left its inputs and dropped its outputs.
Disconnected(m) ==
  [s \in Stream |-> [o \in Object |->
     IF s[1] = m THEN 0
     ELSE IF o = m /\ observers[s][o] >= InputCount(m, s)
          THEN observers[s][o] - InputCount(m, s)
     ELSE IF o = m THEN 0 ELSE observers[s][o]]]

\* Faulty: removeObservers clears the list without setInput(NULL).
InputsWithout_NoReset(m) ==
  [x \in InputSlot |->
     IF x[1] = m THEN NULL
     ELSE IF input[x] \in StreamsOf(m) THEN Lost(input[x]) ELSE input[x]]

\* The inputs once removeObservers ran on every output of m and m is gone.
InputsWithout(m) ==
  [x \in InputSlot |->
     IF x[1] = m THEN NULL
     ELSE IF input[x] \notin StreamsOf(m) THEN input[x]
     ELSE IF observers[input[x]][x[1]] > 0 THEN NULL ELSE Lost(input[x])]

\* Faulty: served while the main thread iterates over the modules in poll().
WebRemove_InPoll(m) ==
  /\ phase \in {"events", "poll"} /\ m \in modules
  /\ stop
  /\ observers' = Disconnected(m)
  /\ input' = InputsWithout(m)
  /\ modules' = modules \ {m}
  /\ UNCHANGED <<streams, loop>>

WebRemove(m) ==
  /\ phase = "events" /\ m \in modules
  /\ stop
  /\ observers' = Disconnected(m)
  /\ input' = InputsWithout(m)
  /\ modules' = modules \ {m}
  /\ UNCHANGED <<streams, loop>>

\* moPipeline::start calls start() on every module.  Image's start() stops it
\* first when it holds an image, and notifies it when the file loads.
WebStart ==
  /\ phase = "events"
  /\ pipeline_started' = TRUE
  /\ is_started' = is_started \cup modules
  /\ \E D \in SUBSET (Eager \cap modules), N \in SUBSET (Eager \cap modules) :
       need_update' = (need_update \ D) \cup N
  /\ UNCHANGED <<modules, edges, streams, loop>>

WebStop ==
  /\ phase = "events"
  /\ stop
  /\ UNCHANGED <<modules, edges, streams, loop>>

\* Setting Image's filename runs reloadImage, which notifies if it loads.
WebSet(m) ==
  /\ phase = "events" /\ m \in modules \cap Eager
  /\ Notified({m})
  /\ UNCHANGED <<modules, edges, pipeline_started, streams, loop>>
-----------------------------------------------------------------------------
(* Web streams: one otStreamModule and one chunk_req_state per request.    *)

web_pipeline_stream(w, m, i) ==
  /\ phase = "events" /\ web[w] = "free"
  /\ m \in modules /\ i \in Outputs[m]
  /\ setInput(<<m, i>>, w, 0)
  /\ web' = [web EXCEPT ![w] = "open"]
  /\ UNCHANGED <<modules, run, stale, loop>>

web_pipeline_stream_close(w) ==
  /\ phase = "events" /\ web[w] = "open"
  /\ web' = [web EXCEPT ![w] = "closed"]
  /\ UNCHANGED <<modules, edges, run, stale, loop>>

\* Faulty: gives up on a stream without an input before it looks at closed.
web_pipeline_stream_trickle_NeedsInput(w) ==
  /\ phase = "events" /\ web[w] = "closed"
  /\ input[<<w, 0>>] # NULL
  /\ observers' = removeObserver(observers, input[<<w, 0>>], w)
  /\ input' = [input EXCEPT ![<<w, 0>>] = NULL]
  /\ is_started' = is_started \ {w}
  /\ need_update' = need_update \ {w}
  /\ web' = [web EXCEPT ![w] = "free"]
  /\ stale' = stale \ {w}
  /\ UNCHANGED <<modules, pipeline_started, loop>>

\* The timer event that finds its stream closed: setInput(NULL), delete, free
\* and no new timer.  On an open stream the timer only reads the input.
web_pipeline_stream_trickle(w) ==
  /\ phase = "events" /\ web[w] = "closed"
  /\ observers' = removeObserver(observers, input[<<w, 0>>], w)
  /\ input' = [input EXCEPT ![<<w, 0>>] = NULL]
  /\ is_started' = is_started \ {w}
  /\ need_update' = need_update \ {w}
  /\ web' = [web EXCEPT ![w] = "free"]
  /\ stale' = stale \ {w}
  /\ UNCHANGED <<modules, pipeline_started, loop>>
-----------------------------------------------------------------------------
(* Slots: web_pipeline_slot_load clears the pipeline, then parses a file.  *)

\* moPipeline::clear deletes every module; it disconnects nothing.
clear ==
  /\ stop
  /\ modules' = {}
  /\ input' = [x \in InputSlot |->
                 IF x[1] \in Module THEN NULL
                 ELSE IF input[x] \in Stream THEN Lost(input[x])
                 ELSE input[x]]
  /\ observers' = [s \in Stream |-> [o \in Object |-> 0]]
  /\ stale' = stale \cup {w \in Web : web[w] # "free"}

\* The parse begins, or ends at once when the slot's file cannot be opened, which
\* sets last_internal_error.
SlotLoad ==
  /\ phase = "events"
  /\ clear
  /\ \/ phase' = "parse" /\ UNCHANGED last_internal_error
     \/ phase' = "events" /\ last_internal_error' = TRUE
  /\ UNCHANGED <<web, todo>>

ParseCreate(m) ==
  /\ phase = "parse" /\ m \notin modules
  /\ modules' = modules \cup {m}
  /\ UNCHANGED <<edges, run, streams, loop>>

\* "pipeline connect": a rejected connection ends the parse.
ParseConnect(m, i, o, j) ==
  /\ phase = "parse" /\ m \in modules /\ o \in modules
  /\ setInput(getOutput(m, i), o, j)
  /\ phase' = IF Rejected(getOutput(m, i), o, j) THEN "events" ELSE "parse"
  /\ UNCHANGED <<modules, run, streams, todo, last_internal_error>>

\* "pipeline set image filename ...": an image that loads notifies the module.
ParseSet(m) ==
  /\ phase = "parse" /\ m \in modules \cap Eager
  /\ Notified({m})
  /\ UNCHANGED <<modules, edges, pipeline_started, streams, loop>>

\* End of the file, or a line the parser rejects.
ParseEnd ==
  /\ phase = "parse"
  /\ phase' = "events"
  /\ UNCHANGED <<modules, edges, run, streams, todo, last_internal_error>>
-----------------------------------------------------------------------------
Poll == \E m \in Module : PollIdle(m) \/ PollUpdate(m)

Request ==
  \/ \E m \in Module : WebCreate(m) \/ WebRemove(m) \/ WebSet(m)
  \/ \E m \in Module \cup {NULL}, o \in Module, i, j \in Index :
       WebConnect(m, i, o, j)
  \/ WebStart
  \/ WebStop
  \/ SlotLoad

Streaming ==
  \/ \E w \in Web, m \in Module, i \in Index : web_pipeline_stream(w, m, i)
  \/ \E w \in Web : web_pipeline_stream_close(w)
  \/ \E w \in Web : web_pipeline_stream_trickle(w)

Parse ==
  \/ \E m \in Module : ParseCreate(m) \/ ParseSet(m)
  \/ \E m, o \in Module, i, j \in Index : ParseConnect(m, i, o, j)
  \/ ParseEnd

Next == BeginPoll \/ Poll \/ EndPoll \/ LogForEver \/ Request \/ Streaming \/ Parse

Spec == Init /\ [][Next]_vars

(* The main loop never blocks in poll() or parse() (a file is finite), comes *)
(* back to poll() from a non-blocking event_base_loop, and libevent runs     *)
(* every expired timer whenever that loop is entered.  Nothing is assumed of *)
(* the loop that logs errors.                                                *)
Fairness ==
  /\ WF_vars(BeginPoll) /\ WF_vars(Poll) /\ WF_vars(EndPoll)
  /\ WF_vars(ParseEnd)
  /\ \A w \in Web : SF_vars(web_pipeline_stream_trickle(w))

FairSpec == Spec /\ Fairness
-----------------------------------------------------------------------------
TypeOK ==
  /\ modules \subseteq Module
  /\ input \in [InputSlot -> Stream \cup {NULL, Dangling, Orphan}]
  /\ observers \in [Stream -> [Object -> Nat]]
  /\ pipeline_started \in BOOLEAN
  /\ is_started \subseteq Object
  /\ need_update \subseteq Object
  /\ web \in [Web -> {"free", "open", "closed"}]
  /\ stale \subseteq Web
  /\ phase \in {"events", "poll", "parse", "errors"}
  /\ todo \subseteq modules
  /\ last_internal_error \in BOOLEAN

(* A stream lists an object as an observer exactly as many times as the    *)
(* object has inputs on it: setInput, removeObserver and removeObservers   *)
(* keep the two sides of every connection in step, even when a connection  *)
(* is rejected, repeated on a second input, or cut by a removal.           *)
ObserversMatchInputs ==
  \A s \in Stream, o \in Object : observers[s][o] = InputCount(o, s)

(* No connection touches a deleted object: the stream it reads belongs to  *)
(* a module of the pipeline and the reader is in the pipeline or an open   *)
(* web stream, so notifyObservers never calls a deleted module.            *)
ConnectionsAreAlive ==
  /\ \A x \in InputSlot : input[x] \in Stream => input[x][1] \in modules
  /\ \A s \in Stream, o \in Object :
       observers[s][o] > 0 =>
         /\ s[1] \in modules
         /\ o \in modules \/ (o \in Web /\ web[o] # "free")

(* An input points at a stream whose module is gone only in a web stream   *)
(* that was open while a slot load cleared the pipeline: web_pipeline_-    *)
(* remove leaves none behind, clear() disconnects no web stream.           *)
LostOnlyAcrossSlotLoad ==
  \A x \in InputSlot : input[x] \in {Dangling, Orphan} => x[1] \in stale

(* poll() runs update() only on started modules: whatever stops a module   *)
(* (stop, remove, a filter that gives up) also takes back need_update.     *)
UpdatesOnlyStarted == need_update \subseteq is_started

(* A web stream whose connection closed is taken out of the graph and      *)
(* freed by its next timer event, unless main() is caught in the loop that *)
(* logs errors, where no timer is served (finding daemon_slot).            *)
ClosedStreamsAreFreed ==
  \A w \in Web : web[w] = "closed" ~> (web[w] = "free" \/ phase = "errors")

(* A notified module of a started pipeline is updated, unless the pipeline *)
(* is stopped first or main() is caught in the loop that logs errors (a    *)
(* camera, or a module that reads its own output, notifies itself again    *)
(* while it is updated, and is left out).                                  *)
NotifiedModulesAreUpdated ==
  \A m \in Module \ Rearmed :
    (m \in need_update /\ pipeline_started) ~>
      \/ m \notin need_update \/ ~pipeline_started \/ phase = "errors"
      \/ \E s \in StreamsOf(m) : observers[s][m] > 0

(* main() is caught in that loop only after a slot file that could not be  *)
(* opened.                                                                 *)
CaughtOnlyByBadSlot == phase = "errors" => last_internal_error
=============================================================================
