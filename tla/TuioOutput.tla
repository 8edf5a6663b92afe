----------------------------- MODULE TuioOutput -----------------------------
(***************************************************************************)
(* moTuioModule and moTuio2Module: every list of blobs that their source   *)
(* pushes becomes one UDP bundle with the ids that are alive.  They work   *)
(* in notifyData, in the thread of the source, and need the socket that    *)
(* start() opens; unlike other modules they are not started by a push.     *)
(*                                                                         *)
(* The model keeps the ids of a list and the kind of its blobs.  In net    *)
(* the bundles are in the order of their frame numbers; a client (not part *)
(* of the repository) ignores a bundle older than one it has seen, so that *)
(* a delivery takes the older ones from net.  Bundles may get lost,        *)
(* overtake each other and, then ignored, arrive twice.                    *)
(***************************************************************************)
EXTENDS Integers, Sequences, Functions

CONSTANTS
  Id,         \* the blob_ids of the source
  MaxFlight   \* bound on the bundles in the network; the oldest get lost

VARIABLES
  version,       \* 1 for moTuioModule, 2 for moTuio2Module
  threaded,      \* does the source run in a thread?
  order,         \* moPipeline::modules, "source" and "tuio" in some order
  job, ahead,    \* the request being served and the modules it has to reach
  source,        \* is the source started?
  osc,           \* is this->osc set?
  type,          \* of moTuioModule
  kind,          \* what the source tracks
  list,          \* the ids in the list pushed last
  frame,         \* alternates with every push, so that repeating a list is
                 \* a step that fairness can ask for
  net, client,   \* bundles in flight, and the ids the client shows
  crashed,       \* a NULL pointer was read
  late, mixed    \* history: tuio was added to a started pipeline and not
                 \* started since; the kind of blobs changed

scene == <<version, threaded>>
control == <<order, job, ahead, source, osc, late>>
network == <<net, client>>
tuio_vars == <<scene, control, type, kind, list, frame, network, crashed, mixed>>

Kinds == {"cursor", "object"}

TuioInit ==
  /\ version \in {1, 2} /\ threaded \in BOOLEAN
  /\ order \in {<<"source">>, <<"source", "tuio">>, <<"tuio", "source">>}
  /\ job = "none" /\ ahead = <<>> /\ source = FALSE /\ osc = FALSE
  /\ type = "unknown" /\ kind \in Kinds /\ list = {} /\ frame = FALSE
  /\ net = <<>> /\ client = {}
  /\ crashed = FALSE /\ late = FALSE /\ mixed = FALSE
-----------------------------------------------------------------------------
(* Requests.                                                               *)
BetweenRequests == job = "none" /\ ~crashed

pipeline_start ==
  /\ BetweenRequests /\ job' = "start" /\ ahead' = order
  /\ UNCHANGED <<scene, order, source, osc, late, type, kind, list, frame,
                 network, crashed, mixed>>

pipeline_stop ==
  /\ BetweenRequests /\ job' = "stop" /\ ahead' = order
  /\ UNCHANGED <<scene, order, source, osc, late, type, kind, list, frame,
                 network, crashed, mixed>>

\* Faulty: opens the socket only before the first blob.
start_Once == osc' = (osc \/ type = "unknown")

tuio_start == osc' = TRUE
tuio_stop == osc' = FALSE

\* One module of the loop in moPipeline::start or stop.
Step ==
  /\ ~crashed /\ ahead # <<>>
  /\ \/ /\ Head(ahead) = "tuio"
        /\ \/ job = "start" /\ tuio_start /\ late' = FALSE
           \/ job = "stop" /\ tuio_stop /\ UNCHANGED late
        /\ UNCHANGED source
     \/ /\ Head(ahead) = "source"
        /\ source' = (job = "start")
        /\ UNCHANGED <<osc, late>>
  /\ ahead' = Tail(ahead)
  /\ job' = IF ahead' = <<>> THEN "none" ELSE job
  /\ UNCHANGED <<scene, order, type, kind, list, frame, network, crashed, mixed>>

\* web_pipeline_create and connect.
Add ==
  /\ BetweenRequests /\ order = <<"source">>
  /\ order' = Append(order, "tuio") /\ late' = source
  /\ UNCHANGED <<scene, job, ahead, source, osc, type, kind, list, frame, network,
                 crashed, mixed>>

\* web_pipeline_connect: the input reads another tracker.
Reconnect ==
  /\ BetweenRequests
  /\ kind' \in Kinds \ {kind} /\ mixed' = TRUE
  /\ UNCHANGED <<scene, control, type, list, frame, network, crashed>>
-----------------------------------------------------------------------------
(* notifyData.                                                             *)

\* The kind of the messages: that of the first blob ever, or of this list.
Type(ids) ==
  IF version = 1 THEN IF type = "unknown" /\ ids # {} THEN kind ELSE type
  ELSE IF ids # {} THEN kind ELSE "unknown"

\* Faulty: a list without blobs is not worth a bundle.
Sends_NeedsBlobs(ids) == ids # {}

\* Nothing is sent as long as the type is unknown.
Sends(ids) == Type(ids) # "unknown"

\* Properties that blobs of another kind do not have, or no socket.
ReadsNull(ids) ==
  \/ ids # {} /\ Type(ids) = "object" /\ kind = "cursor"
  \/ Sends(ids) /\ ~osc

send(ids) ==
  LET all == Append(net, ids) IN
  net' = IF Len(all) > MaxFlight THEN Tail(all) ELSE all

notifyData(ids) ==
  /\ type' = IF version = 1 THEN Type(ids) ELSE type
  /\ crashed' = ReadsNull(ids)
  /\ \/ Sends(ids) /\ ~ReadsNull(ids) /\ send(ids)
     \/ ~(Sends(ids) /\ ~ReadsNull(ids)) /\ UNCHANGED net

\* On the main thread a module pushes in poll(), between two requests.
push(ids) ==
  /\ source /\ ~crashed
  /\ threaded \/ job = "none"
  /\ list' = ids /\ frame' = ~frame
  /\ \/ "tuio" \in Range(order) /\ notifyData(ids)
     \/ "tuio" \notin Range(order) /\ UNCHANGED <<type, crashed, net>>
  /\ UNCHANGED <<scene, control, kind, client, mixed>>
-----------------------------------------------------------------------------
Deliver ==
  /\ \E i \in 1..Len(net) : client' = net[i] /\ net' = SubSeq(net, i + 1, Len(net))
  /\ UNCHANGED <<scene, control, type, kind, list, frame, crashed, mixed>>

Lose ==
  /\ \E i \in 1..Len(net) : net' = SubSeq(net, 1, i - 1) \o SubSeq(net, i + 1, Len(net))
  /\ UNCHANGED <<scene, control, type, kind, list, frame, client, crashed, mixed>>

Push == \E ids \in SUBSET Id : push(ids)

\* The process has ended.
TuioEnded == crashed /\ UNCHANGED tuio_vars

TuioNext ==
  \/ pipeline_start \/ pipeline_stop \/ Step \/ Add \/ Reconnect
  \/ Push \/ Deliver \/ Lose \/ TuioEnded

(* The loop over the modules goes on; the main loop polls between any two  *)
(* requests, so a started source pushes a list for every frame of the      *)
(* camera; the network does not lose every bundle.                         *)
TuioFairness ==
  /\ WF_tuio_vars(Step) /\ SF_tuio_vars(Push)
  /\ SF_tuio_vars(Deliver)

TuioSpec == TuioInit /\ [][TuioNext]_tuio_vars
TuioFairSpec == TuioSpec /\ TuioFairness
-----------------------------------------------------------------------------
(* notifyData never reads a NULL pointer (the socket, or a property that a *)
(* blob does not have) if the source has no thread, the module was not     *)
(* added since the pipeline was started and its source was not replaced by *)
(* one that tracks something else, whatever the order of the modules and   *)
(* of start and stop requests.                                             *)
NeverReadsNull == crashed => threaded \/ late \/ mixed

\* The client shows a blob that is gone.
Gone(i) == i \in client \ list

\* It disappears, or comes back, or the output ended.  moTuio2Module sends no
\* bundle for an empty list, so that the last blob stays until there is
\* another one.
Settled(i) ==
  \/ i \notin client \/ i \in list
  \/ crashed \/ ~source \/ ~osc \/ (version = 2 /\ list = {})

(* A blob that is gone disappears from the client, although bundles get    *)
(* lost and arrive late, as long as the pipeline runs.                     *)
GoneDisappears == \A i \in Id : Gone(i) ~> Settled(i)
=============================================================================
