------------------------- MODULE MCThreadedPipeline -------------------------
(***************************************************************************)
(* Small chains for TLC.                                                   *)
(***************************************************************************)
EXTENDS ThreadedPipeline

\* A camera and a filter with threads, and a display on the main thread that
\* is added while they run or before.
Camera ==
  [order |-> <<"camera", "filter", "display">>, late |-> {"display"},
   observer |-> [camera |-> "filter", filter |-> "display", display |-> None],
   threaded |-> {"camera", "filter"}, polled |-> {"camera"},
   rearmed |-> {"camera"}, eager |-> {}, checked |-> {}, restart |-> FALSE]

\* The camera and the filter alone.
Pair ==
  [order |-> <<"camera", "filter">>, late |-> {},
   observer |-> [camera |-> "filter", filter |-> None],
   threaded |-> {"camera", "filter"}, polled |-> {"camera"},
   rearmed |-> {"camera"}, eager |-> {}, checked |-> {}, restart |-> FALSE]

\* A static image, a threshold that may stop itself and a display, without
\* threads and with repeated start requests.
Image ==
  [order |-> <<"image", "threshold", "display">>, late |-> {},
   observer |-> [image |-> "threshold", threshold |-> "display",
                 display |-> None],
   threaded |-> {}, polled |-> {}, rearmed |-> {}, eager |-> {"image"},
   checked |-> {"threshold"}, restart |-> TRUE]

\* A video and a display that is added while it runs, without threads and with
\* repeated start requests.
Video ==
  [order |-> <<"video", "display">>, late |-> {"display"},
   observer |-> [video |-> "display", display |-> None],
   threaded |-> {}, polled |-> {"video"}, rearmed |-> {}, eager |-> {},
   checked |-> {}, restart |-> TRUE]

\* The image and a filter, both with threads.
ThreadedImage ==
  [order |-> <<"image", "filter">>, late |-> {},
   observer |-> [image |-> "filter", filter |-> None],
   threaded |-> {"image", "filter"}, polled |-> {}, rearmed |-> {},
   eager |-> {"image"}, checked |-> {}, restart |-> FALSE]

Chains == {Camera, Image, Video}
LiveChains == {Pair, Image}
EagerChain == {ThreadedImage}

\* The chains but the last one are among those of which the theorems speak.
ASSUME TheoremsApply == \A p \in {Camera, Pair, Image, Video} : OrderedChain(p)
=============================================================================
