------------------------------- MODULE MCGraph --------------------------------
(*****************************************************************************)
(* The graph of modules and streams, the images that its filters hand on and *)
(* the TUIO output at its end. A pipeline of a camera, a static image and a  *)
(* Combine; pipelines of filters; a tracker with a TUIO client.  A behaviour *)
(* is one of one of them; the others rest in an initial state.               *)
(*****************************************************************************)
EXTENDS ModuleGraph, TuioOutput, TLC

CONSTANTS None, Pipelines

VARIABLES
  part,  \* the part at hand; it never changes
  \* the state of the filters:
  x1, x2, x3, x4, x5, x6, x7

\* The web stream "web" accepts both image formats, as otStreamModule does.
WebA == {"web"}
IndexA == 0..1

\* A camera, of which only the 8-bit output is used, a static image and a
\* Combine, which reads two colour images and may read its own output.
CombineModule == {"camera", "image", "combine"}
CombineInputs == [camera |-> {}, image |-> {}, combine |-> {0, 1}, web |-> {0}]
CombineOutputs == [camera |-> {1}, image |-> {0}, combine |-> {0}]
CombineFormat == (<<"camera", 1>> :> "IplImage8") @@
                 (<<"image", 0>> :> "IplImage") @@
                 (<<"combine", 0>> :> "IplImage")
CombineAccepts == (<<"combine", 0>> :> {"IplImage"}) @@
                  (<<"combine", 1>> :> {"IplImage"}) @@
                  (<<"web", 0>> :> {"IplImage", "IplImage8"})

Filters == INSTANCE ImageFilters WITH
  pipe <- x1, pipeline_started <- x2, need_update <- x3, buffer <- x4,
  output_dispatcher <- x5, data <- x6, sweep <- x7

xs == <<x1, x2, x3, x4, x5, x6, x7>>
all == <<part, vars, tuio_vars, xs>>

PartInit ==
  /\ part \in {"graph", "filters", "tuio"}
  /\ Init /\ TuioInit
  /\ \/ part = "filters" /\ Filters!Init
     \/ /\ part # "filters"
        /\ x1 = 0 /\ x2 = 0 /\ x3 = 0 /\ x4 = 0 /\ x5 = 0 /\ x6 = 0 /\ x7 = 0
  /\ part # "tuio" =>
       version = 1 /\ ~threaded /\ order = <<"source">> /\ kind = "cursor"

PartNext ==
  /\ UNCHANGED part
  /\ \/ part = "graph" /\ Next /\ UNCHANGED <<tuio_vars, xs>>
     \/ part = "filters" /\ Filters!Next /\ UNCHANGED <<vars, tuio_vars>>
     \/ part = "tuio" /\ TuioNext /\ UNCHANGED <<vars, xs>>

\* Pipelines of moving images, of the classes of ImageFilters.
Class == INSTANCE ImageFilters WITH
  pipe <- x1, pipeline_started <- x2, need_update <- x3, buffer <- x4,
  output_dispatcher <- x5, data <- x6, sweep <- x7, Pipelines <- {}
O(m) == <<m, "out">>
O8(m) == <<m, "out8">>

\* Camera, background subtraction on either output, threshold, blob finder.
Touch ==
  [order |-> <<"camera", "background", "smooth", "threshold", "blobs">>,
   class |-> ("camera" :> Class!moCameraModule) @@
             ("background" :> Class!moBackgroundSubtractModule) @@
             ("smooth" :> Class!moSmoothModule) @@
             ("threshold" :> Class!moThresholdModule) @@
             ("blobs" :> Class!moBlobFinderModule),
   input |-> ("camera" :> <<>>) @@ ("background" :> <<O8("camera")>>) @@
             ("smooth" :> <<O("camera")>>) @@
             ("threshold" :> <<O8("background")>>) @@
             ("blobs" :> <<O("threshold")>>)]

\* A video that ends, turned to gray, and a static image in colour.
Files ==
  [order |-> <<"video", "image", "gray", "dilate", "fiducials", "equalize",
               "invert", "display">>,
   class |-> ("video" :> Class!moVideoModule) @@ ("image" :> Class!moImageModule) @@
             ("gray" :> Class!moGrayScaleModule) @@ ("dilate" :> Class!moDilateModule) @@
             ("fiducials" :> Class!moFiducialFinderModule) @@
             ("equalize" :> Class!moEqualizeHistModule) @@
             ("invert" :> Class!moInvertModule) @@
             ("display" :> Class!moImageDisplayModule),
   input |-> ("video" :> <<>>) @@ ("image" :> <<>>) @@
             ("gray" :> <<O("video")>>) @@ ("dilate" :> <<O("gray")>>) @@
             ("fiducials" :> <<O("dilate")>>) @@
             ("equalize" :> <<O("video")>>) @@ ("invert" :> <<O("video")>>) @@
             ("display" :> <<O("image")>>)]

\* Two sources combined.
Two ==
  [order |-> <<"camera", "image", "combine", "hsv", "binary">>,
   class |-> ("camera" :> Class!moCameraModule) @@ ("image" :> Class!moImageModule) @@
             ("combine" :> Class!moCombineModule) @@ ("hsv" :> Class!moHsvModule) @@
             ("binary" :> Class!moBinaryMaskModule),
   input |-> ("camera" :> <<>>) @@ ("image" :> <<>>) @@
             ("combine" :> <<O("camera"), O("image")>>) @@
             ("hsv" :> <<O("combine")>>) @@
             ("binary" :> <<O8("camera"), O("hsv")>>)]

\* A mask whose file is set while the pipeline runs or is stopped.
Masked ==
  [order |-> <<"camera", "mask">>,
   class |-> ("camera" :> Class!moCameraModule) @@ ("mask" :> Class!moMaskModule),
   input |-> ("camera" :> <<>>) @@ ("mask" :> <<O("camera")>>)]

FilterPipelines == {Touch, Files, Two, Masked}
MaskedPipeline == {Masked}

\* The pipelines meet the assumptions of the theorems about the filters.
ASSUME TheoremsApply == Filters!OrderAssumption

\* The fairness of the graph and of the TUIO output, each in its part.
PartFairness ==
  /\ WF_vars(part = "graph" /\ BeginPoll) /\ WF_vars(part = "graph" /\ Poll)
  /\ WF_vars(part = "graph" /\ EndPoll) /\ WF_vars(part = "graph" /\ ParseEnd)
  /\ \A w \in Web : SF_vars(part = "graph" /\ web_pipeline_stream_trickle(w))
  /\ WF_tuio_vars(part = "tuio" /\ Step)
  /\ SF_tuio_vars(part = "tuio" /\ Push)
  /\ SF_tuio_vars(part = "tuio" /\ Deliver)

PartSpec == PartInit /\ [][PartNext]_all /\ PartFairness
-------------------------------------------------------------------------------
(* What the main loop and the timers owe is done, as long as main() is not *)
(* caught in the loop that logs errors, into which only a start after a    *)
(* slot file that could not be opened leads: a closed web stream is freed  *)
(* by its next timer event, and a notified module of a started pipeline is *)
(* updated unless the pipeline is stopped first; but a module that is      *)
(* stopped has no update pending that a poll would carry out.              *)
GraphIsServed ==
  part = "graph" =>
    /\ ClosedStreamsAreFreed /\ NotifiedModulesAreUpdated
    /\ [](TypeOK /\ UpdatesOnlyStarted /\ CaughtOnlyByBadSlot)

(* The images that the modules of a pipeline with fixed connections hand   *)
(* on, through any sequence of starts, stops, polls and files set: a       *)
(* stream of the format IplImage8 carries one channel, whatever the camera *)
(* delivers after each start; and an update() of a filter of one input     *)
(* reads an image that no stop() has released and writes a buffer of the   *)
(* channels it needs.  Of an image only channels and life are modelled:    *)
(* moImageFilterModule keeps its buffer when the depth or the size of its  *)
(* input changes ("FIXME", line 63), or its input is reconnected.          *)
FiltersAgree ==
  part = "filters" => Filters!FormatsHold /\ Filters!UpdatesReadLiveImages

(* moMaskModule::applyFilter asserts that its output buffer is allocated.  *)
MaskHasBuffer == part = "filters" => Filters!MaskHasBuffer
===============================================================================
