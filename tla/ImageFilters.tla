---------------------------- MODULE ImageFilters ----------------------------
(***************************************************************************)
(* The images that flow through a pipeline whose modules use no thread.    *)
(*                                                                         *)
(* A stream holds a bare pointer to an image that its producer owns.  The  *)
(* format of the stream says what the image looks like: "IplImage8" for    *)
(* one channel, "IplImage" for any number.  A filter allocates its output  *)
(* buffer when it is told of an image, applies itself when it is polled,   *)
(* pushes the buffer, and releases it in stop().                           *)
(*                                                                         *)
(* An image is its number of channels and whether its owner has released   *)
(* it since.  The connections of the pipeline are fixed and respect        *)
(* moDataStreamInfo::isStreamValid; Order is the vector of the modules.    *)
(***************************************************************************)
EXTENDS Naturals, Sequences, FiniteSets, TLAPS

CONSTANTS
  Pipelines,  \* records: order, class and input (one stream or None per index)
  None

\* What the class of a module declares: the formats its inputs accept, the
\* format of each output, how many channels its buffer gets ("same" as the
\* input, "one", "three"; "own" for a source), and its special behaviour.
Class(accepts, format, alloc, also) ==
  [accepts |-> accepts, format |-> format, alloc |-> alloc, also |-> also]

Colour == {"IplImage"}
Gray == {"IplImage8"}
Both == {"IplImage", "IplImage8"}
Out(f) == [out |-> f]

\* Sources.  A camera pushes a frame on the output that fits it.
moCameraModule ==
  Class(<<>>, [out |-> "IplImage", out8 |-> "IplImage8"], "own", {"poll", "split"})
moVideoModule == Class(<<>>, Out("IplImage"), "own", {"poll", "ends"})
moImageModule == Class(<<>>, Out("IplImage"), "own", {"file"})

\* Filters of one input.
moAmplifyModule == Class(<<Colour>>, Out("IplImage"), "same", {})
moInvertModule == Class(<<Colour>>, Out("IplImage"), "same", {})
moHighpassModule == Class(<<Colour>>, Out("IplImage"), "same", {})
moMirrorImageModule == Class(<<Colour>>, Out("IplImage"), "same", {})
moRoiModule == Class(<<Colour>>, Out("IplImage"), "same", {})
moPeakFinderModule == Class(<<Colour>>, Out("IplImage"), "same", {})
moMaskModule == Class(<<Colour>>, Out("IplImage"), "same", {"mask"})
moCannyModule == Class(<<Gray>>, Out("IplImage8"), "same", {})
moDilateModule == Class(<<Gray>>, Out("IplImage8"), "same", {})
moErodeModule == Class(<<Gray>>, Out("IplImage8"), "same", {})
moHuObjectFinderModule == Class(<<Gray>>, Out("IplImage8"), "same", {})
moFingerTipFinderModule == Class(<<Gray>>, Out("IplImage8"), "same", {})
moBlobFinderModule == Class(<<Gray>>, Out("IplImage"), "same", {})
moThresholdModule == Class(<<Gray>>, Out("IplImage8"), "same", {"checks"})
moFiducialFinderModule == Class(<<Gray>>, Out("IplImage"), "three", {"checks"})
moDistanceTransformModule == Class(<<Colour>>, Out("IplImage"), "one", {})
moGrayScaleModule == Class(<<Colour>>, Out("IplImage8"), "one", {})
moHsvModule == Class(<<Colour>>, Out("IplImage8"), "one", {})
moYCrCbThresholdModule == Class(<<Colour>>, Out("IplImage8"), "one", {})

\* Filters that push on one of two outputs (moImageFilterModule8).
Filter8 == [out |-> "IplImage", out8 |-> "IplImage8"]
moSmoothModule == Class(<<Both>>, Filter8, "same", {"split"})
moEqualizeHistModule == Class(<<Both>>, Filter8, "same", {"split"})
moBackgroundSubtractModule == Class(<<Both>>, Filter8, "same", {"split"})

\* Modules of two inputs, and the window.
moCombineModule == Class(<<Colour, Colour>>, Out("IplImage"), "same", {"keeps"})
moBinaryMaskModule == Class(<<Gray, Gray>>, Out("IplImage8"), "same", {"keeps"})
moImageDisplayModule == Class(<<Both>>, <<>>, "none", {"keeps"})

VARIABLES
  pipe,              \* the pipeline at hand
  pipeline_started,
  need_update,       \* modules with need_update set
  buffer,            \* buffer[m]: channels of output_buffer or frame, 0 for NULL
  output_dispatcher, \* the output a filter pushes on
  data,              \* data[s]: the image stream s points at, or None
  sweep              \* index of the module poll() has reached, 0 outside poll()

vars == <<pipe, pipeline_started, need_update, buffer, output_dispatcher, data,
          sweep>>

Modules == {pipe.order[i] : i \in 1..Len(pipe.order)}
ClassOf(m) == pipe.class[m]
Is(m, what) == what \in ClassOf(m).also
Ports(m) == DOMAIN ClassOf(m).format
Stream == UNION {{m} \X Ports(m) : m \in Modules}
StreamFormat(s) == ClassOf(s[1]).format[s[2]]
Source == {m \in Modules : ClassOf(m).accepts = <<>>}
\* The modules that stop() makes release what they pushed.
Releases == {m \in Modules : ~Is(m, "keeps")}
Image == [ch : {1, 3}, live : BOOLEAN]

Init ==
  /\ pipe \in Pipelines
  /\ pipeline_started = FALSE
  /\ need_update = {}
  /\ buffer = [m \in Modules |-> 0]
  /\ output_dispatcher = [m \in Modules |-> "out"]
  /\ data = [s \in Stream |-> None]
  /\ sweep = 0
-----------------------------------------------------------------------------
(* Images.                                                                 *)

\* The streams once the modules of M have released their images.
Released(M) ==
  [s \in Stream |-> IF s[1] \in M /\ data[s] # None
                    THEN [data[s] EXCEPT !.live = FALSE] ELSE data[s]]

\* The channels the buffer of m gets for an image of c channels.
Channels(m, c) ==
  CASE ClassOf(m).alloc = "same" -> c
    [] ClassOf(m).alloc = "one" -> 1
    [] ClassOf(m).alloc = "three" -> 3
    [] OTHER -> 0

needBufferAllocation(m, img) ==
  \/ buffer[m] = 0
  \/ Is(m, "split") /\ img # None /\ buffer[m] # img.ch

Observers(s) ==
  {m \in Modules : \E i \in 1..Len(pipe.input[m]) : pipe.input[m][i] = s}

\* The observers of s whose notifyData allocates a buffer for img.
Allocating(s, img) ==
  {m \in Observers(s) : needBufferAllocation(m, img) /\ img # None}

\* Faulty: the output a filter has moved to is never left.
allocateDispatcher_Sticky(m, img) ==
  IF img.ch = 1 \/ output_dispatcher[m] = "out8" THEN "out8" ELSE "out"

\* moImageFilterModule8::allocateBuffers: a one-channel image leaves by output8.
allocateDispatcher(m, img) == IF img.ch = 1 THEN "out8" ELSE "out"

\* moDataStream::push of img on s by m, in a state where streams holds the
\* data, followed by notifyData of every observer.  A module of two inputs
\* returns early on NULL; the other modules ask for an update.
push(s, img, streams, buf, asked) ==
  LET told == {m \in Observers(s) :
                 img # None \/ Len(ClassOf(m).accepts) = 1} IN
  /\ data' = [t \in Stream |->
       IF t = s THEN img
       ELSE IF t[1] \in Allocating(s, img) /\ streams[t] # None
       THEN [streams[t] EXCEPT !.live = FALSE] ELSE streams[t]]
  /\ buffer' = [m \in Modules |->
       IF m \in Allocating(s, img) THEN Channels(m, img.ch) ELSE buf[m]]
  /\ output_dispatcher' = [m \in Modules |->
       IF m \in Allocating(s, img) /\ Is(m, "split")
       THEN allocateDispatcher(m, img) ELSE output_dispatcher[m]]
  /\ need_update' = asked \cup told
-----------------------------------------------------------------------------
(* Requests, served between two polls.                                     *)

\* moPipeline::start.  A capture is opened by start(), which asserts that it
\* is closed; an image is read, and asks for an update when that succeeds.
start ==
  /\ sweep = 0
  /\ \A m \in Source : Is(m, "poll") => buffer[m] = 0
  /\ pipeline_started' = TRUE
  /\ \E loads \in SUBSET {m \in Source : Is(m, "file")},
        opened \in [{m \in Source : Is(m, "poll")} -> {0, 1, 3}] :
       /\ buffer' = [m \in Modules |->
            IF m \in DOMAIN opened THEN opened[m]
            ELSE IF m \in loads THEN 3
            ELSE IF Is(m, "file") THEN 0 ELSE buffer[m]]
       /\ need_update' =
            {m \in need_update : Is(m, "file") => buffer[m] = 0} \cup loads
  /\ data' = Released({m \in Source : Is(m, "file")})
  /\ UNCHANGED <<pipe, output_dispatcher, sweep>>

\* Faulty: stop() releases the buffers and keeps the pointers.
stop_KeepsPointer ==
  /\ sweep = 0
  /\ pipeline_started' = FALSE
  /\ need_update' = {}
  /\ buffer' = [m \in Modules |-> IF m \in Source THEN 0 ELSE buffer[m]]
  /\ data' = Released(Releases)
  /\ UNCHANGED <<pipe, output_dispatcher, sweep>>

stop ==
  /\ sweep = 0
  /\ pipeline_started' = FALSE
  /\ need_update' = {}
  /\ buffer' = [m \in Modules |-> IF m \in Releases THEN 0 ELSE buffer[m]]
  /\ data' = Released(Releases)
  /\ UNCHANGED <<pipe, output_dispatcher, sweep>>

\* Property filename of an image: reloadImage.
reloadImage(m) ==
  /\ sweep = 0 /\ Is(m, "file")
  /\ data' = Released({m})
  /\ \/ buffer' = [buffer EXCEPT ![m] = 3] /\ need_update' = need_update \cup {m}
     \/ buffer' = [buffer EXCEPT ![m] = 0] /\ UNCHANGED need_update
  /\ UNCHANGED <<pipe, pipeline_started, output_dispatcher, sweep>>

\* Property filename of a mask: reloadMask asks for an update when it loads.
reloadMask(m) ==
  /\ sweep = 0 /\ Is(m, "mask")
  /\ need_update' = need_update \cup {m}
  /\ UNCHANGED <<pipe, pipeline_started, buffer, output_dispatcher, data, sweep>>
-----------------------------------------------------------------------------
(* poll().                                                                 *)

InTurn(m) ==
  /\ sweep \in 1..Len(pipe.order) /\ m = pipe.order[sweep]
  /\ sweep' = IF sweep = Len(pipe.order) THEN 0 ELSE sweep + 1
  /\ UNCHANGED <<pipe, pipeline_started>>

BeginPoll ==
  /\ sweep = 0 /\ pipeline_started
  /\ sweep' = 1
  /\ UNCHANGED <<pipe, pipeline_started, need_update, buffer, output_dispatcher,
                 data>>

PollIdle(m) ==
  /\ InTurn(m)
  /\ m \notin need_update /\ ~Is(m, "poll")
  /\ UNCHANGED <<need_update, buffer, output_dispatcher, data>>

\* update() that finds nothing to read, and pushes nothing.
UpdateNothing(m) ==
  /\ need_update' = need_update \ {m}
  /\ UNCHANGED <<buffer, output_dispatcher, data>>

\* A frame of a capture or the image of a file.  A camera may have no frame; a
\* video that has ended, or was never opened, pushes NULL.
UpdateSource(m) ==
  /\ InTurn(m)
  /\ m \in need_update \/ Is(m, "poll")
  /\ m \in Source
  /\ \/ Is(m, "split") /\ UpdateNothing(m)
     \/ buffer[m] = 0 /\ ~Is(m, "ends") /\ UpdateNothing(m)
     \/ /\ buffer[m] # 0
        /\ LET port == IF Is(m, "split") /\ buffer[m] = 1 THEN "out8" ELSE "out"
               again == IF Is(m, "split") THEN {m} ELSE {} IN
             push(<<m, port>>, [ch |-> buffer[m], live |-> TRUE], data, buffer,
                  (need_update \ {m}) \cup again)
     \/ /\ Is(m, "ends")
        /\ push(<<m, "out">>, None, data, buffer, need_update \ {m})

\* The image input i of m reads: NULL when it is not connected.
ReadBy(m, i) ==
  IF pipe.input[m][i] = None THEN None ELSE data[pipe.input[m][i]]

\* Will poll() of m apply its filter to an image?
Applies(m) ==
  /\ sweep \in 1..Len(pipe.order) /\ m = pipe.order[sweep]
  /\ m \in need_update
  /\ Len(ClassOf(m).accepts) = 1 /\ ClassOf(m).alloc # "none"
  /\ ReadBy(m, 1) # None

\* The channels read from an image; anything when it has been released.
SeenChannels(img) == IF img.live THEN {img.ch} ELSE {1, 3}

\* moImageFilterModule::update.  A filter that expects one channel and sees
\* another number stops itself and pushes NULL.
UpdateFilter(m) ==
  /\ InTurn(m) /\ m \in need_update
  /\ Len(ClassOf(m).accepts) = 1 /\ ClassOf(m).alloc # "none"
  /\ \/ ReadBy(m, 1) = None /\ UpdateNothing(m)
     \/ /\ ReadBy(m, 1) # None
        /\ \E c \in SeenChannels(ReadBy(m, 1)) :
             LET stops == Is(m, "checks") /\ c # 1 IN
             /\ stops \/ buffer[m] # 0
             /\ push(<<m, output_dispatcher[m]>>,
                     IF stops THEN None ELSE [ch |-> buffer[m], live |-> TRUE],
                     IF stops THEN Released({m}) ELSE data,
                     IF stops THEN [buffer EXCEPT ![m] = 0] ELSE buffer,
                     need_update \ {m})

\* applyFilter of a mask asserts that there is an output buffer: the process
\* ends where it fails.
Ended == sweep > Len(pipe.order)
AssertFails(m) ==
  /\ Applies(m) /\ Is(m, "mask") /\ buffer[m] = 0
  /\ sweep' = Len(pipe.order) + 1
  /\ UNCHANGED <<pipe, pipeline_started, need_update, buffer, output_dispatcher,
                 data>>

\* update() of Combine and BinaryMask; only Combine works without input 2.
UpdateTwo(m) ==
  /\ InTurn(m) /\ m \in need_update
  /\ Len(ClassOf(m).accepts) = 2
  /\ LET missing == \/ buffer[m] = 0 \/ ReadBy(m, 1) = None
                    \/ /\ ReadBy(m, 2) = None
                       /\ pipe.input[m][2] # None \/ ClassOf(m) = moBinaryMaskModule
     IN \/ missing /\ UpdateNothing(m)
        \/ /\ ~missing
           /\ push(<<m, "out">>, [ch |-> buffer[m], live |-> TRUE], data,
                   buffer, need_update \ {m})

UpdateDisplay(m) ==
  /\ InTurn(m) /\ m \in need_update
  /\ ClassOf(m).alloc = "none"
  /\ UpdateNothing(m)

PollUpdate(m) ==
  UpdateSource(m) \/ UpdateFilter(m) \/ UpdateTwo(m) \/ UpdateDisplay(m)

Next ==
  \/ start \/ stop \/ BeginPoll
  \/ \E m \in Modules :
       reloadImage(m) \/ reloadMask(m) \/ PollIdle(m) \/ PollUpdate(m) \/ AssertFails(m)
  \/ Ended /\ UNCHANGED vars

Spec == Init /\ [][Next]_vars
-----------------------------------------------------------------------------
(* Properties.                                                             *)

\* A stream of the format IplImage8 never carries an image of more than one
\* channel, whatever the classes that are chained and whatever the camera
\* delivers: the promise isStreamValid relies on when it accepts a connection,
\* and the reason moThresholdModule never has to stop itself.
FormatsHold ==
  \A s \in Stream :
    StreamFormat(s) = "IplImage8" /\ data[s] # None => data[s].ch = 1

\* moImageFilterModule::update clones the image of its input and writes its
\* output buffer.  When every module stands after the one it reads, the image
\* has not been released by its owner, and the buffer is there and has the
\* channels the filter writes.  A mask is excepted: it also updates when its file
\* is set, whatever became of the image since.
UpdatesReadLiveImages ==
  \A m \in Modules :
    Applies(m) /\ ~Is(m, "mask") =>
      LET img == ReadBy(m, 1) IN
      img.live /\ buffer[m] = Channels(m, img.ch)

\* moMaskModule::applyFilter asserts that its output buffer is allocated.  A mask
\* file set while the pipeline is stopped asks for an update that comes before
\* the first image does.
MaskHasBuffer ==
  \A m \in Modules : Applies(m) /\ Is(m, "mask") => buffer[m] # 0
-----------------------------------------------------------------------------
(* Any pipeline whose connections were accepted.                           *)

Classes ==
  {moCameraModule, moVideoModule, moImageModule, moAmplifyModule, moInvertModule,
   moHighpassModule, moMirrorImageModule, moRoiModule, moPeakFinderModule,
   moMaskModule, moCannyModule, moDilateModule, moErodeModule,
   moHuObjectFinderModule, moFingerTipFinderModule, moBlobFinderModule,
   moThresholdModule, moFiducialFinderModule, moDistanceTransformModule,
   moGrayScaleModule, moHsvModule, moYCrCbThresholdModule, moSmoothModule,
   moEqualizeHistModule, moBackgroundSubtractModule, moCombineModule,
   moBinaryMaskModule, moImageDisplayModule}

\* The modules of a pipeline p, and what isStreamValid lets its inputs read.
ModulesOf(p) == {p.order[i] : i \in 1..Len(p.order)}
Connected(p) ==
  /\ p.order \in Seq(ModulesOf(p))
  /\ None \notin ModulesOf(p) \X {"out", "out8"}
  /\ \A m \in ModulesOf(p) :
       /\ p.class[m] \in Classes
       /\ Len(p.input[m]) = Len(p.class[m].accepts)
       /\ \A i \in 1..Len(p.input[m]) :
            p.input[m][i] # None =>
              \E q \in ModulesOf(p) : \E o \in DOMAIN p.class[q].format :
                /\ p.input[m][i] = <<q, o>>
                /\ p.class[q].format[o] \in p.class[m].accepts[i]

\* Every module stands after those it reads, and stands there once.
InOrder(p) ==
  /\ \A j, k \in 1..Len(p.order) : p.order[j] = p.order[k] => j = k
  /\ \A j \in 1..Len(p.order) : \A i \in 1..Len(p.input[p.order[j]]) :
       p.input[p.order[j]][i] # None =>
         \E k \in 1..Len(p.order) : k < j /\ p.order[k] = p.input[p.order[j]][i][1]

FormatAssumption == None \notin Image /\ \A p \in Pipelines : Connected(p)
OrderAssumption == FormatAssumption /\ \A p \in Pipelines : InOrder(p)

FilterTypes ==
  /\ pipe \in Pipelines /\ sweep \in Nat
  /\ buffer \in [Modules -> {0, 1, 3}]
  /\ output_dispatcher \in [Modules -> {"out", "out8"}]
  /\ data \in [Stream -> Image \cup {None}]

\* What a filter is about to push fits the format of the output it leaves by.
BuffersFit ==
  \A m \in Modules \ Source :
    /\ output_dispatcher[m] = "out8" => Is(m, "split")
    /\ Is(m, "split") /\ buffer[m] # 0 => (output_dispatcher[m] = "out8" <=> buffer[m] = 1)
    /\ "out" \in Ports(m) /\ ClassOf(m).format["out"] = "IplImage8" => buffer[m] \in {0, 1}

FormatInv == FilterTypes /\ BuffersFit /\ FormatsHold

\* The channels of what a module pushes, if it does, when its buffer is in buf.
CarriesIn(m, buf) == IF Is(m, "file") THEN 3 ELSE buf[m]
Carries(m) == CarriesIn(m, buffer)
FilesAreColour == \A m \in Modules : Is(m, "file") => buffer[m] \in {0, 3}
OneInput(m) == Len(ClassOf(m).accepts) = 1
Reads(m) == pipe.input[m][1]

\* A buffer was made for images of the channels that still come.
BuffersMatch ==
  \A m \in Modules :
    OneInput(m) /\ Reads(m) # None /\ buffer[m] # 0 =>
      Carries(Reads(m)[1]) # 0 /\ buffer[m] = Channels(m, Carries(Reads(m)[1]))

\* An image that lives is the buffer of its owner.
LiveAreOwned ==
  \A s \in Stream :
    data[s] # None /\ data[s].live => buffer[s[1]] # 0 /\ data[s].ch = Carries(s[1])

\* A module told of an image that it has not read yet.
ToRead(m) == m \in need_update /\ OneInput(m) /\ ~Is(m, "mask") /\ ClassOf(m).alloc # "none"
AskedCanRead ==
  \A m \in Modules :
    ToRead(m) /\ Reads(m) # None /\ data[Reads(m)] # None => data[Reads(m)].live /\ buffer[m] # 0

\* It is read before the poll ends.
AskedIsAhead ==
  \A m \in Modules :
    ToRead(m) => \/ sweep > Len(pipe.order)
                 \/ sweep > 0 /\ \E k \in 1..Len(pipe.order) : pipe.order[k] = m /\ sweep <= k

ReadInv ==
  /\ FormatInv /\ FilesAreColour /\ BuffersMatch /\ LiveAreOwned
  /\ AskedCanRead /\ AskedIsAhead

(* What the classes have in common.                                        *)

ClassOK(c) ==
  /\ DOMAIN c.format \subseteq {"out", "out8"}
  /\ c.alloc # "none" => "out" \in DOMAIN c.format
  /\ "out8" \in DOMAIN c.format <=> "split" \in c.also
  /\ "split" \in c.also => /\ c.format["out"] = "IplImage" /\ c.format["out8"] = "IplImage8"
                           /\ c.alloc \in {"own", "same"}
  /\ "file" \in c.also => c.accepts = <<>> /\ "poll" \notin c.also
  /\ "poll" \in c.also => c.accepts = <<>>
  /\ "ends" \in c.also => c.accepts = <<>>
  /\ "checks" \in c.also => c.accepts = <<Gray>> /\ "mask" \notin c.also
  /\ "keeps" \in c.also => Len(c.accepts) = 2 \/ c.alloc = "none"
  /\ c.accepts = <<>> => c.format["out"] = "IplImage" /\ c.alloc = "own"
  /\ c.accepts = <<>> => "poll" \in c.also \/ "file" \in c.also
  /\ c.accepts # <<>> => /\ c.alloc \in {"same", "one", "three", "none"}
                         /\ Len(c.accepts) \in {1, 2}
                         /\ Len(c.accepts) = 2 => c.alloc = "same" /\ "split" \notin c.also
                         /\ "out" \in DOMAIN c.format /\ c.format["out"] = "IplImage8" =>
                              \/ c.alloc = "one"
                              \/ c.alloc = "same" /\ \A i \in 1..Len(c.accepts) : c.accepts[i] = Gray

LEMMA Kinds ==
  /\ ClassOK(moCameraModule) /\ ClassOK(moVideoModule) /\ ClassOK(moImageModule)
  /\ ClassOK(moAmplifyModule) /\ ClassOK(moMaskModule) /\ ClassOK(moCannyModule)
  /\ ClassOK(moBlobFinderModule) /\ ClassOK(moThresholdModule)
  /\ ClassOK(moFiducialFinderModule) /\ ClassOK(moDistanceTransformModule)
  /\ ClassOK(moGrayScaleModule) /\ ClassOK(moSmoothModule) /\ ClassOK(moCombineModule)
  /\ ClassOK(moBinaryMaskModule) /\ ClassOK(moImageDisplayModule)
  <1> USE DEF Class, Colour, Gray, Both, Out, Filter8
  <1>1. ClassOK(moCameraModule)
    BY DEF ClassOK, moCameraModule
  <1>2. ClassOK(moVideoModule)
    BY DEF ClassOK, moVideoModule
  <1>3. ClassOK(moImageModule)
    BY DEF ClassOK, moImageModule
  <1>4. ClassOK(moAmplifyModule)
    BY DEF ClassOK, moAmplifyModule
  <1>5. ClassOK(moMaskModule)
    BY DEF ClassOK, moMaskModule
  <1>6. ClassOK(moCannyModule)
    BY DEF ClassOK, moCannyModule
  <1>7. ClassOK(moBlobFinderModule)
    BY DEF ClassOK, moBlobFinderModule
  <1>8. ClassOK(moThresholdModule)
    BY DEF ClassOK, moThresholdModule
  <1>9. ClassOK(moFiducialFinderModule)
    BY DEF ClassOK, moFiducialFinderModule
  <1>10. ClassOK(moDistanceTransformModule)
    BY DEF ClassOK, moDistanceTransformModule
  <1>11. ClassOK(moGrayScaleModule)
    BY DEF ClassOK, moGrayScaleModule
  <1>12. ClassOK(moSmoothModule)
    BY DEF ClassOK, moSmoothModule
  <1>13. ClassOK(moCombineModule)
    BY DEF ClassOK, moCombineModule
  <1>14. ClassOK(moBinaryMaskModule)
    BY DEF ClassOK, moBinaryMaskModule
  <1>15. ClassOK(moImageDisplayModule)
    BY DEF ClassOK, moImageDisplayModule
  <1> QED
    BY <1>1, <1>2, <1>3, <1>4, <1>5, <1>6, <1>7, <1>8, <1>9, <1>10, <1>11, <1>12, <1>13,
       <1>14, <1>15, Zenon

LEMMA ClassesAreOK ==
  ASSUME NEW c \in Classes
  PROVE  ClassOK(c)
  <1>1. /\ moInvertModule = moAmplifyModule /\ moHighpassModule = moAmplifyModule
        /\ moMirrorImageModule = moAmplifyModule /\ moRoiModule = moAmplifyModule
        /\ moPeakFinderModule = moAmplifyModule
    BY Zenon DEF moInvertModule, moHighpassModule, moMirrorImageModule, moRoiModule,
                 moPeakFinderModule, moAmplifyModule
  <1>2. /\ moDilateModule = moCannyModule /\ moErodeModule = moCannyModule
        /\ moHuObjectFinderModule = moCannyModule /\ moFingerTipFinderModule = moCannyModule
    BY Zenon DEF moDilateModule, moErodeModule, moHuObjectFinderModule,
                 moFingerTipFinderModule, moCannyModule
  <1>3. moHsvModule = moGrayScaleModule /\ moYCrCbThresholdModule = moGrayScaleModule
    BY Zenon DEF moHsvModule, moYCrCbThresholdModule, moGrayScaleModule
  <1>4. moEqualizeHistModule = moSmoothModule /\ moBackgroundSubtractModule = moSmoothModule
    BY Zenon DEF moEqualizeHistModule, moBackgroundSubtractModule, moSmoothModule
  <1> QED
    BY <1>1, <1>2, <1>3, <1>4, Kinds, Zenon DEF Classes

(* Streams and observers.                                                  *)

LEMMA ModuleFacts ==
  ASSUME FormatAssumption, pipe \in Pipelines, NEW m \in Modules
  PROVE  /\ ClassOK(ClassOf(m))
         /\ m \in Source <=> ClassOf(m).accepts = <<>>
         /\ \A o : o \in Ports(m) => <<m, o>> \in Stream
         /\ Len(pipe.input[m]) = Len(ClassOf(m).accepts)
  <1>1. Connected(pipe) /\ Modules = ModulesOf(pipe)
    BY Zenon DEF FormatAssumption, Modules, ModulesOf
  <1>2. pipe.class[m] \in Classes /\ Len(pipe.input[m]) = Len(pipe.class[m].accepts)
    BY <1>1, Zenon DEF Connected
  <1>3. m \in Source <=> ClassOf(m).accepts = <<>>
    BY Zenon DEF Source
  <1>4. \A o : o \in Ports(m) => <<m, o>> \in Stream
    BY DEF Stream
  <1> QED
    BY <1>2, <1>3, <1>4, ClassesAreOK, Zenon DEF ClassOf

LEMMA StreamFacts ==
  ASSUME FormatAssumption, pipe \in Pipelines, NEW s \in Stream
  PROVE  s[1] \in Modules /\ s[2] \in Ports(s[1]) /\ s = <<s[1], s[2]>> /\ s # None
  <1>1. PICK m \in Modules : s \in {m} \X Ports(m)
    BY Zenon DEF Stream
  <1>2. s = <<s[1], s[2]>> /\ s[1] = m /\ s[2] \in Ports(m)
    BY <1>1
  <1>3. s[2] \in {"out", "out8"}
    BY <1>2, ModuleFacts, Zenon DEF ClassOK, Ports
  <1>4. s \in ModulesOf(pipe) \X {"out", "out8"}
    BY <1>2, <1>3 DEF Modules, ModulesOf
  <1> QED
    BY <1>2, <1>4, Zenon DEF FormatAssumption, Connected

\* What an input reads is a stream that isStreamValid accepted.
LEMMA InputFacts ==
  ASSUME FormatAssumption, pipe \in Pipelines, NEW m \in Modules,
         NEW i \in 1..Len(pipe.input[m]), pipe.input[m][i] # None
  PROVE  /\ pipe.input[m][i] \in Stream
         /\ StreamFormat(pipe.input[m][i]) \in ClassOf(m).accepts[i]
  <1>1. Connected(pipe) /\ Modules = ModulesOf(pipe)
    BY Zenon DEF FormatAssumption, Modules, ModulesOf
  <1>2. PICK q \in Modules : \E o \in DOMAIN pipe.class[q].format :
          /\ pipe.input[m][i] = <<q, o>>
          /\ pipe.class[q].format[o] \in pipe.class[m].accepts[i]
    BY <1>1, Zenon DEF Connected
  <1>3. PICK o \in Ports(q) : /\ pipe.input[m][i] = <<q, o>>
                              /\ ClassOf(q).format[o] \in ClassOf(m).accepts[i]
    BY <1>2, Zenon DEF Ports, ClassOf
  <1>4. <<q, o>> \in Stream /\ StreamFormat(<<q, o>>) = ClassOf(q).format[o]
    BY ModuleFacts DEF StreamFormat
  <1> QED
    BY <1>3, <1>4, Zenon

LEMMA ObserverFacts ==
  ASSUME FormatAssumption, pipe \in Pipelines, NEW s \in Stream, NEW m \in Observers(s)
  PROVE  /\ m \in Modules /\ m \notin Source /\ ClassOK(ClassOf(m))
         /\ ClassOf(m).accepts # <<>>
         /\ \E i \in 1..Len(ClassOf(m).accepts) :
              pipe.input[m][i] = s /\ StreamFormat(s) \in ClassOf(m).accepts[i]
  <1>1. m \in Modules /\ \E i \in 1..Len(pipe.input[m]) : pipe.input[m][i] = s
    BY Zenon DEF Observers
  <1>2. PICK i \in 1..Len(pipe.input[m]) : pipe.input[m][i] = s
    BY <1>1
  <1>3. StreamFormat(s) \in ClassOf(m).accepts[i]
    BY <1>1, <1>2, StreamFacts, InputFacts, Zenon
  <1>4. Len(pipe.input[m]) = Len(ClassOf(m).accepts) /\ ClassOK(ClassOf(m))
    BY <1>1, ModuleFacts, Zenon
  <1>5. ClassOf(m).accepts # <<>>
    BY <1>2, <1>4
  <1> QED
    BY <1>1, <1>2, <1>3, <1>4, <1>5, ModuleFacts, Zenon

LEMMA PipeStays ==
  ASSUME pipe' = pipe
  PROVE  /\ Modules' = Modules /\ Stream' = Stream /\ Source' = Source
         /\ Releases' = Releases
  <1>1. Modules' = Modules
    BY Zenon DEF Modules
  <1>2. Stream' = Stream
    BY <1>1, SMT DEF Stream, Ports, ClassOf
  <1>3. Source' = Source
    BY Zenon DEF Source, Modules, ClassOf
  <1>4. Releases' = Releases
    BY Zenon DEF Releases, Modules, ClassOf, Is
  <1> QED
    BY <1>1, <1>2, <1>3, <1>4

LEMMA Killed ==
  ASSUME NEW i \in Image
  PROVE  /\ [i EXCEPT !.live = FALSE] \in Image /\ [i EXCEPT !.live = FALSE].ch = i.ch
         /\ ~[i EXCEPT !.live = FALSE].live
  BY Zenon DEF Image

\* Releasing images changes only whether they live.
LEMMA ReleasedFacts ==
  ASSUME FormatAssumption, FilterTypes, NEW M
  PROVE  /\ Released(M) \in [Stream -> Image \cup {None}]
         /\ \A s \in Stream : /\ Released(M)[s] # None <=> data[s] # None
                              /\ data[s] # None => Released(M)[s].ch = data[s].ch
                              /\ s[1] \notin M => Released(M)[s] = data[s]
                              /\ s[1] \in M /\ data[s] # None => ~Released(M)[s].live
  <1>1. ASSUME NEW s \in Stream, data[s] # None
        PROVE  /\ [data[s] EXCEPT !.live = FALSE] \in Image
               /\ [data[s] EXCEPT !.live = FALSE].ch = data[s].ch
               /\ ~[data[s] EXCEPT !.live = FALSE].live
    <2>1. data[s] \in Image
      BY <1>1, Zenon DEF FilterTypes
    <2> QED
      BY <2>1, Killed, Zenon
  <1>2. \A s \in Stream : data[s] \in Image \cup {None}
    BY Zenon DEF FilterTypes
  <1>3. None \notin Image
    BY DEF FormatAssumption
  <1>4. \A s \in Stream : Released(M)[s] = IF s[1] \in M /\ data[s] # None
                                           THEN [data[s] EXCEPT !.live = FALSE] ELSE data[s]
    BY Zenon DEF Released
  <1>5. ASSUME NEW s \in Stream
        PROVE  /\ Released(M)[s] \in Image \cup {None}
               /\ Released(M)[s] # None <=> data[s] # None
               /\ data[s] # None => Released(M)[s].ch = data[s].ch
               /\ s[1] \notin M => Released(M)[s] = data[s]
               /\ s[1] \in M /\ data[s] # None => ~Released(M)[s].live
    <2>1. CASE s[1] \in M /\ data[s] # None
      <3>1. Released(M)[s] = [data[s] EXCEPT !.live = FALSE]
        BY <1>4, <2>1, Zenon
      <3> HIDE <1>4
      <3> QED
        BY <1>1, <1>3, <2>1, <3>1, Zenon
    <2>2. CASE ~(s[1] \in M /\ data[s] # None)
      <3>1. Released(M)[s] = data[s]
        BY <1>4, <2>2, Zenon
      <3> QED
        BY <1>2, <2>2, <3>1, Zenon
    <2> QED
      BY <2>1, <2>2
  <1>6. Released(M) \in [Stream -> Image \cup {None}]
    BY <1>5, Zenon DEF Released
  <1> QED
    BY <1>5, <1>6, Zenon

(* The formats.                                                            *)

\* A step keeps the invariant when, in terms of the pipeline, the new values do.
LEMMA FormatInvNext ==
  ASSUME FormatInv, pipe' = pipe, sweep' \in Nat,
         buffer' \in [Modules -> {0, 1, 3}],
         output_dispatcher' \in [Modules -> {"out", "out8"}],
         data' \in [Stream -> Image \cup {None}],
         \A m \in Modules : m \notin Source =>
           /\ output_dispatcher'[m] = "out8" => Is(m, "split")
           /\ Is(m, "split") /\ buffer'[m] # 0 =>
                (output_dispatcher'[m] = "out8" <=> buffer'[m] = 1)
           /\ "out" \in Ports(m) /\ ClassOf(m).format["out"] = "IplImage8" =>
                buffer'[m] \in {0, 1},
         \A s \in Stream :
           StreamFormat(s) = "IplImage8" /\ data'[s] # None => data'[s].ch = 1
  PROVE  FormatInv'
  <1>1. Modules' = Modules /\ Stream' = Stream /\ Source' = Source
    BY PipeStays, Zenon
  <1>2. FilterTypes'
    BY <1>1, Zenon DEF FormatInv, FilterTypes, Image
  <1>3. BuffersFit'
    BY <1>1, Zenon DEF BuffersFit, Is, Ports, ClassOf
  <1>4. FormatsHold'
    BY <1>1, Zenon DEF FormatsHold, StreamFormat, ClassOf
  <1> QED
    BY <1>2, <1>3, <1>4, Zenon DEF FormatInv

\* The buffer that notifyData allocates.
LEMMA AllocatedFits ==
  ASSUME FormatAssumption, FormatInv, NEW STATE s, s \in Stream, NEW STATE img, img \in Image,
         StreamFormat(s) = "IplImage8" => img.ch = 1,
         NEW m \in Observers(s)
  PROVE  /\ m \in Modules /\ m \notin Source
         /\ Channels(m, img.ch) \in {0, 1, 3}
         /\ Is(m, "split") => Channels(m, img.ch) = img.ch
         /\ ClassOf(m).alloc # "none" => Channels(m, img.ch) # 0
         /\ "out" \in Ports(m) /\ ClassOf(m).format["out"] = "IplImage8" =>
              Channels(m, img.ch) = 1
  <1>1. /\ m \in Modules /\ m \notin Source /\ ClassOK(ClassOf(m)) /\ ClassOf(m).accepts # <<>>
        /\ \E i \in 1..Len(ClassOf(m).accepts) : StreamFormat(s) \in ClassOf(m).accepts[i]
    BY ObserverFacts, Zenon DEF FormatInv, FilterTypes
  <1>2. ClassOf(m).alloc \in {"same", "one", "three", "none"}
    BY <1>1, Zenon DEF ClassOK
  <1>3. img.ch \in {1, 3}
    BY DEF Image
  <1>4. Channels(m, img.ch) \in {0, 1, 3} /\ (ClassOf(m).alloc # "none" => Channels(m, img.ch) # 0)
    BY <1>2, <1>3 DEF Channels
  <1>5. ASSUME Is(m, "split") PROVE Channels(m, img.ch) = img.ch
    <2>1. ClassOf(m).alloc = "same"
      BY <1>1, <1>2, <1>5 DEF ClassOK, Is
    <2> QED
      BY <2>1 DEF Channels
  <1>6. ASSUME "out" \in Ports(m), ClassOf(m).format["out"] = "IplImage8"
        PROVE  Channels(m, img.ch) = 1
    <2>1. \/ ClassOf(m).alloc = "one"
          \/ ClassOf(m).alloc = "same" /\ \A i \in 1..Len(ClassOf(m).accepts) : ClassOf(m).accepts[i] = Gray
      BY <1>1, <1>6, Zenon DEF ClassOK, Ports
    <2>2. CASE ClassOf(m).alloc = "one"
      BY <2>2 DEF Channels
    <2>3. CASE ClassOf(m).alloc = "same" /\ \A i \in 1..Len(ClassOf(m).accepts) : ClassOf(m).accepts[i] = Gray
      <3>1. StreamFormat(s) \in Gray
        BY <1>1, <2>3, Zenon
      <3>2. img.ch = 1
        BY <3>1 DEF Gray
      <3> QED
        BY <2>3, <3>2 DEF Channels
    <2> QED
      BY <2>1, <2>2, <2>3
  <1> QED
    BY <1>1, <1>4, <1>5, <1>6, Zenon

\* What a push does to the streams.
LEMMA PushedData ==
  ASSUME FormatAssumption, NEW STATE s, s \in Stream, NEW STATE img, img \in Image \cup {None},
         NEW STATE streams, streams \in [Stream -> Image \cup {None}],
         NEW STATE buf, NEW STATE asked, push(s, img, streams, buf, asked)
  PROVE  /\ data' \in [Stream -> Image \cup {None}]
         /\ data'[s] = img
         /\ \A t \in Stream : t # s =>
              /\ data'[t] # None <=> streams[t] # None
              /\ streams[t] # None => data'[t].ch = streams[t].ch
              /\ t[1] \notin Allocating(s, img) => data'[t] = streams[t]
              /\ t[1] \in Allocating(s, img) /\ streams[t] # None => ~data'[t].live
  <1> DEFINE A == Allocating(s, img)
             New(t) == IF t = s THEN img ELSE IF t[1] \in A /\ streams[t] # None
                       THEN [streams[t] EXCEPT !.live = FALSE] ELSE streams[t]
  <1>1. data' = [t \in Stream |-> New(t)]
    BY Zenon DEF push
  <1>2. None \notin Image
    BY DEF FormatAssumption
  <1> HIDE DEF A
  <1>3. ASSUME NEW t \in Stream
        PROVE  /\ New(t) \in Image \cup {None}
               /\ t # s => /\ New(t) # None <=> streams[t] # None
                           /\ streams[t] # None => New(t).ch = streams[t].ch
                           /\ t[1] \notin A => New(t) = streams[t]
                           /\ t[1] \in A /\ streams[t] # None => ~New(t).live
    <2>1. CASE t = s
      BY <2>1, Zenon
    <2>2. CASE t # s /\ t[1] \in A /\ streams[t] # None
      <3>1. streams[t] \in Image
        BY <2>2, Zenon
      <3> DEFINE k == [streams[t] EXCEPT !.live = FALSE]
      <3>2. k \in Image /\ k.ch = streams[t].ch /\ ~k.live
        BY <3>1, Killed, Zenon
      <3>3. New(t) = k
        BY <2>2, Zenon
      <3> HIDE DEF k, New
      <3> QED
        BY <1>2, <2>2, <3>2, <3>3, Zenon
    <2>3. CASE t # s /\ ~(t[1] \in A /\ streams[t] # None)
      <3>1. New(t) = streams[t]
        BY <2>3, Zenon
      <3> HIDE DEF New
      <3> QED
        BY <2>3, <3>1, Zenon
    <2> QED
      BY <2>1, <2>2, <2>3, Zenon
  <1>4. New(s) = img
    BY Zenon
  <1> HIDE DEF New
  <1>5. \A t \in Stream : data'[t] = New(t)
    BY <1>1, Zenon
  <1>6. data' \in [Stream -> Image \cup {None}]
    BY <1>1, <1>3, Zenon
  <1> QED
    BY <1>3, <1>4, <1>5, <1>6, Zenon DEF A

\* push keeps the formats when the image pushed fits the stream.
LEMMA PushFits ==
  ASSUME FormatAssumption, FormatInv, pipe' = pipe, sweep' \in Nat,
         NEW STATE s, s \in Stream, NEW STATE img, img \in Image \cup {None},
         StreamFormat(s) = "IplImage8" /\ img # None => img.ch = 1,
         NEW STATE streams, streams \in [Stream -> Image \cup {None}],
         \A t \in Stream : streams[t] # None => data[t] # None /\ streams[t].ch = data[t].ch,
         NEW STATE buf, \A m \in Modules : buf[m] \in {0, buffer[m]},
         NEW STATE asked, push(s, img, streams, buf, asked)
  PROVE  FormatInv'
  <1> DEFINE A == Allocating(s, img)
  <1>1. /\ data' \in [Stream -> Image \cup {None}] /\ data'[s] = img
        /\ \A t \in Stream : t # s => /\ data'[t] # None <=> streams[t] # None
                                      /\ streams[t] # None => data'[t].ch = streams[t].ch
    BY PushedData, SMT
  <1>2. \A t \in Stream : StreamFormat(t) = "IplImage8" /\ data'[t] # None => data'[t].ch = 1
    BY <1>1, Zenon DEF FormatInv, FormatsHold
  <1>3. ASSUME NEW m \in A
        PROVE  /\ img \in Image /\ m \in Modules /\ m \notin Source
               /\ Channels(m, img.ch) \in {0, 1, 3}
               /\ Is(m, "split") => Channels(m, img.ch) = img.ch
               /\ "out" \in Ports(m) /\ ClassOf(m).format["out"] = "IplImage8" =>
                    Channels(m, img.ch) = 1
    <2>1. m \in Observers(s) /\ img # None
      BY Zenon DEF Allocating
    <2>2. img \in Image
      BY <2>1
    <2> QED
      BY <2>1, <2>2, AllocatedFits, Zenon
  <1>4. \A m \in Modules : /\ buffer'[m] = IF m \in A THEN Channels(m, img.ch) ELSE buf[m]
                           /\ output_dispatcher'[m] = IF m \in A /\ Is(m, "split")
                                THEN allocateDispatcher(m, img) ELSE output_dispatcher[m]
    BY Zenon DEF push
  <1>5. /\ buffer' = [m \in Modules |-> buffer'[m]]
        /\ output_dispatcher' = [m \in Modules |-> output_dispatcher'[m]]
    BY Zenon DEF push
  <1> HIDE DEF A
  <1>6. ASSUME NEW m \in Modules
        PROVE  buffer'[m] \in {0, 1, 3} /\ output_dispatcher'[m] \in {"out", "out8"}
    <2>1. buffer[m] \in {0, 1, 3} /\ output_dispatcher[m] \in {"out", "out8"}
      BY Zenon DEF FormatInv, FilterTypes
    <2>2. buffer'[m] \in {0, 1, 3}
      BY <1>3, <1>4, <2>1, Zenon
    <2>3. allocateDispatcher(m, img) \in {"out", "out8"}
      BY Zenon DEF allocateDispatcher
    <2> QED
      BY <1>4, <2>1, <2>2, <2>3, Zenon
  <1>7. ASSUME NEW m \in Modules, m \notin Source
        PROVE  /\ output_dispatcher'[m] = "out8" => Is(m, "split")
               /\ Is(m, "split") /\ buffer'[m] # 0 =>
                    (output_dispatcher'[m] = "out8" <=> buffer'[m] = 1)
               /\ "out" \in Ports(m) /\ ClassOf(m).format["out"] = "IplImage8" =>
                    buffer'[m] \in {0, 1}
    <2>1. /\ output_dispatcher[m] = "out8" => Is(m, "split")
          /\ Is(m, "split") /\ buffer[m] # 0 => (output_dispatcher[m] = "out8" <=> buffer[m] = 1)
          /\ "out" \in Ports(m) /\ ClassOf(m).format["out"] = "IplImage8" => buffer[m] \in {0, 1}
      BY <1>7, Zenon DEF FormatInv, BuffersFit
    <2>2. CASE m \notin A
      <3>1. buffer'[m] \in {0, buffer[m]} /\ output_dispatcher'[m] = output_dispatcher[m]
        BY <1>4, <2>2, Zenon
      <3> QED
        BY <2>1, <3>1, Zenon
    <2>3. CASE m \in A
      <3>1. buffer'[m] = Channels(m, img.ch)
        BY <1>4, <2>3, Zenon
      <3>2. CASE ~Is(m, "split")
        <4>1. output_dispatcher'[m] = output_dispatcher[m]
          BY <1>4, <3>2, Zenon
        <4> QED
          BY <1>3, <2>1, <2>3, <3>1, <3>2, <4>1, Zenon
      <3>3. CASE Is(m, "split")
        <4>1. output_dispatcher'[m] = allocateDispatcher(m, img) /\ buffer'[m] = img.ch
          BY <1>3, <1>4, <2>3, <3>1, <3>3, Zenon
        <4>2. output_dispatcher'[m] = "out8" <=> buffer'[m] = 1
          BY <4>1 DEF allocateDispatcher
        <4> QED
          BY <1>3, <2>3, <3>1, <3>3, <4>2, Zenon
      <3> QED
        BY <3>2, <3>3
    <2> QED
      BY <2>2, <2>3
  <1>8. /\ buffer' \in [Modules -> {0, 1, 3}]
        /\ output_dispatcher' \in [Modules -> {"out", "out8"}]
    BY <1>5, <1>6, Zenon
  <1> QED
    BY <1>1, <1>2, <1>7, <1>8, FormatInvNext, Zenon

LEMMA PushNullFits ==
  ASSUME FormatAssumption, FormatInv, pipe' = pipe, sweep' \in Nat,
         NEW STATE s, s \in Stream,
         NEW STATE streams, streams \in [Stream -> Image \cup {None}],
         \A t \in Stream : streams[t] # None => data[t] # None /\ streams[t].ch = data[t].ch,
         NEW STATE buf, \A m \in Modules : buf[m] \in {0, buffer[m]},
         NEW STATE asked, push(s, None, streams, buf, asked)
  PROVE  FormatInv'
  <1>1. PICK img : img = None
    BY Zenon
  <1>2. img \in Image \cup {None} /\ (StreamFormat(s) = "IplImage8" /\ img # None => img.ch = 1)
    BY <1>1, Zenon
  <1>3. push(s, img, streams, buf, asked)
    BY <1>1, Zenon
  <1> HIDE <1>1
  <1> QED
    BY <1>2, <1>3, PushFits, SMT

\* Steps that push nothing: images are released, a filter only loses its buffer.
LEMMA QuietFits ==
  ASSUME FormatAssumption, FormatInv, pipe' = pipe, sweep' \in Nat,
         UNCHANGED output_dispatcher, buffer' \in [Modules -> {0, 1, 3}],
         \A m \in Modules : m \notin Source => buffer'[m] \in {0, buffer[m]},
         data' \in [Stream -> Image \cup {None}],
         \A s \in Stream : data'[s] # None => data[s] # None /\ data'[s].ch = data[s].ch
  PROVE  FormatInv'
  <1>1. output_dispatcher' \in [Modules -> {"out", "out8"}]
    BY Zenon DEF FormatInv, FilterTypes
  <1>2. \A s \in Stream : StreamFormat(s) = "IplImage8" /\ data'[s] # None => data'[s].ch = 1
    BY Zenon DEF FormatInv, FormatsHold
  <1>3. ASSUME NEW m \in Modules, m \notin Source
        PROVE  /\ output_dispatcher'[m] = "out8" => Is(m, "split")
               /\ Is(m, "split") /\ buffer'[m] # 0 =>
                    (output_dispatcher'[m] = "out8" <=> buffer'[m] = 1)
               /\ "out" \in Ports(m) /\ ClassOf(m).format["out"] = "IplImage8" =>
                    buffer'[m] \in {0, 1}
    BY <1>3, Zenon DEF FormatInv, BuffersFit
  <1> QED
    BY <1>1, <1>2, <1>3, FormatInvNext, Zenon

LEMMA RequestsKeepFormats ==
  ASSUME FormatAssumption, FormatInv,
         \/ start \/ stop \/ BeginPoll
         \/ \E m \in Modules : reloadImage(m) \/ reloadMask(m) \/ PollIdle(m) \/ AssertFails(m)
         \/ UNCHANGED vars
  PROVE  FormatInv'
  <1>1. /\ pipe \in Pipelines /\ sweep \in Nat /\ buffer \in [Modules -> {0, 1, 3}]
        /\ data \in [Stream -> Image \cup {None}]
    BY Zenon DEF FormatInv, FilterTypes
  <1>2. \A m \in Modules : Is(m, "file") \/ Is(m, "poll") => m \in Source
    BY <1>1, ModuleFacts, Zenon DEF ClassOK, Is
  <1>3. \A M : /\ Released(M) \in [Stream -> Image \cup {None}]
               /\ \A s \in Stream : Released(M)[s] # None =>
                    data[s] # None /\ Released(M)[s].ch = data[s].ch
    BY ReleasedFacts, Zenon DEF FormatInv
  <1>4. Len(pipe.order) \in Nat
    BY <1>1 DEF FormatAssumption, Connected
  <1>5. CASE start
    <2>1. PICK loads \in SUBSET {m \in Source : Is(m, "file")},
               opened \in [{m \in Source : Is(m, "poll")} -> {0, 1, 3}] :
            buffer' = [m \in Modules |->
              IF m \in DOMAIN opened THEN opened[m]
              ELSE IF m \in loads THEN 3
              ELSE IF Is(m, "file") THEN 0 ELSE buffer[m]]
      BY <1>5, Zenon DEF start
    <2>2. \A m : m \in DOMAIN opened => m \in Source /\ opened[m] \in {0, 1, 3}
      BY Zenon
    <2>3. \A m \in Modules : /\ buffer'[m] \in {0, 1, 3}
                             /\ m \notin Source => buffer'[m] \in {0, buffer[m]}
      BY <1>1, <2>1, <2>2, Zenon
    <2>4. buffer' \in [Modules -> {0, 1, 3}]
      BY <2>1, <2>3, Zenon
    <2>5. /\ pipe' = pipe /\ sweep' = sweep /\ UNCHANGED output_dispatcher
          /\ data' = Released({m \in Source : Is(m, "file")})
      BY <1>5, Zenon DEF start
    <2> QED
      BY <1>1, <1>3, <2>3, <2>4, <2>5, QuietFits, Zenon
  <1>6. CASE stop
    <2>1. /\ pipe' = pipe /\ sweep' = sweep /\ UNCHANGED output_dispatcher
          /\ data' = Released(Releases)
          /\ buffer' = [m \in Modules |-> IF m \in Releases THEN 0 ELSE buffer[m]]
      BY <1>6, Zenon DEF stop
    <2>2. \A m \in Modules : buffer'[m] \in {0, 1, 3} /\ buffer'[m] \in {0, buffer[m]}
      BY <1>1, <2>1, Zenon
    <2>3. buffer' \in [Modules -> {0, 1, 3}]
      BY <2>1, <2>2, Zenon
    <2> QED
      BY <1>1, <1>3, <2>1, <2>2, <2>3, QuietFits, ZenonT(30)
  <1>7. ASSUME NEW m \in Modules, reloadImage(m) PROVE FormatInv'
    <2>1. /\ pipe' = pipe /\ sweep' = sweep /\ UNCHANGED output_dispatcher
          /\ data' = Released({m}) /\ m \in Source
      BY <1>2, <1>7, Zenon DEF reloadImage
    <2>2. PICK c \in {0, 3} : buffer' = [buffer EXCEPT ![m] = c]
      BY <1>7, Zenon DEF reloadImage
    <2>3. /\ buffer' \in [Modules -> {0, 1, 3}]
          /\ \A q \in Modules : q \notin Source => buffer'[q] \in {0, buffer[q]}
      BY <1>1, <2>1, <2>2
    <2> QED
      BY <1>1, <1>3, <2>1, <2>3, QuietFits, Zenon
  <1>8. ASSUME pipe' = pipe, sweep' \in Nat, UNCHANGED <<buffer, output_dispatcher, data>>
        PROVE  FormatInv'
    BY <1>1, <1>8, QuietFits, Zenon
  <1>9. CASE BeginPoll
    BY <1>8, <1>9 DEF BeginPoll
  <1>10. ASSUME NEW m \in Modules, reloadMask(m) PROVE FormatInv'
    BY <1>1, <1>8, <1>10, Zenon DEF reloadMask
  <1>11. ASSUME NEW m \in Modules, PollIdle(m) PROVE FormatInv'
    <2>1. sweep' \in Nat
      BY <1>1, <1>11 DEF PollIdle, InTurn
    <2> QED
      BY <1>8, <1>11, <2>1, Zenon DEF PollIdle, InTurn
  <1>12. ASSUME NEW m \in Modules, AssertFails(m) PROVE FormatInv'
    <2>1. sweep' \in Nat
      BY <1>4, <1>12 DEF AssertFails
    <2> QED
      BY <1>8, <1>12, <2>1, Zenon DEF AssertFails
  <1>13. CASE UNCHANGED vars
    BY <1>1, <1>8, <1>13, Zenon DEF vars
  <1> QED
    BY <1>5, <1>6, <1>7, <1>9, <1>10, <1>11, <1>12, <1>13, Zenon

LEMMA SourcesKeepFormats ==
  ASSUME FormatAssumption, FormatInv, NEW m \in Modules, UpdateSource(m)
  PROVE  FormatInv'
  <1>1. /\ pipe \in Pipelines /\ sweep \in Nat /\ buffer \in [Modules -> {0, 1, 3}]
        /\ data \in [Stream -> Image \cup {None}]
    BY Zenon DEF FormatInv, FilterTypes
  <1>2. pipe' = pipe /\ sweep' \in Nat /\ m \in Source
    BY <1>1 DEF UpdateSource, InTurn
  <1>3. CASE UpdateNothing(m)
    BY <1>1, <1>2, <1>3, QuietFits, Zenon DEF UpdateNothing
  <1>4. /\ ClassOK(ClassOf(m)) /\ ClassOf(m).accepts = <<>>
        /\ \A o : o \in Ports(m) => <<m, o>> \in Stream
    BY <1>1, <1>2, ModuleFacts, Zenon
  <1>5. ClassOf(m).alloc = "own" /\ ClassOf(m).format["out"] = "IplImage"
    BY <1>4, Zenon DEF ClassOK
  <1>6. <<m, "out">> \in Stream /\ StreamFormat(<<m, "out">>) = "IplImage"
    <2>1. "out" \in Ports(m)
      BY <1>4, <1>5 DEF ClassOK, Ports
    <2> QED
      BY <1>4, <1>5, <2>1 DEF StreamFormat
  <1>7. Is(m, "split") => <<m, "out8">> \in Stream
    BY <1>4, Zenon DEF ClassOK, Ports, Is
  <1>8. \A t \in Stream : data[t] # None => data[t] # None /\ data[t].ch = data[t].ch
    OBVIOUS
  <1>9. \A q \in Modules : buffer[q] \in {0, buffer[q]}
    BY Zenon
  <1>10. CASE buffer[m] # 0 /\ \E asked :
                push(<<m, IF Is(m, "split") /\ buffer[m] = 1 THEN "out8" ELSE "out">>,
                     [ch |-> buffer[m], live |-> TRUE], data, buffer, asked)
    <2> DEFINE port == IF Is(m, "split") /\ buffer[m] = 1 THEN "out8" ELSE "out"
               img == [ch |-> buffer[m], live |-> TRUE]
    <2>1. PICK asked : push(<<m, port>>, img, data, buffer, asked)
      BY <1>10, Zenon
    <2>2. buffer[m] \in {1, 3}
      BY <1>1, <1>10, Zenon
    <2>3. img \in Image /\ img.ch = buffer[m]
      BY <2>2 DEF Image
    <2>4. <<m, port>> \in Stream
      BY <1>6, <1>7, Zenon
    <2>5. StreamFormat(<<m, port>>) = "IplImage8" => img.ch = 1
      BY <1>6, <2>3
    <2> HIDE DEF port, img
    <2> QED
      BY <1>1, <1>2, <1>8, <1>9, <2>1, <2>3, <2>4, <2>5, PushFits, SMT
  <1>11. CASE \E asked : push(<<m, "out">>, None, data, buffer, asked)
    <2> DEFINE s == <<m, "out">>
    <2>1. PICK asked : push(s, None, data, buffer, asked)
      BY <1>11, Zenon
    <2>2. s \in Stream
      BY <1>6
    <2> HIDE DEF s
    <2> QED
      BY <1>1, <1>2, <1>8, <1>9, <2>1, <2>2, PushNullFits, SMT
  <1> QED
    BY <1>3, <1>10, <1>11, Zenon DEF UpdateSource

LEMMA FiltersKeepFormats ==
  ASSUME FormatAssumption, FormatInv, NEW m \in Modules,
         UpdateFilter(m) \/ UpdateTwo(m) \/ UpdateDisplay(m)
  PROVE  FormatInv'
  <1>1. /\ pipe \in Pipelines /\ sweep \in Nat /\ buffer \in [Modules -> {0, 1, 3}]
        /\ data \in [Stream -> Image \cup {None}]
        /\ output_dispatcher[m] \in {"out", "out8"}
    BY Zenon DEF FormatInv, FilterTypes
  <1>2. pipe' = pipe /\ sweep' \in Nat
    BY <1>1 DEF UpdateFilter, UpdateTwo, UpdateDisplay, InTurn
  <1>3. CASE UpdateNothing(m)
    BY <1>1, <1>2, <1>3, QuietFits, Zenon DEF UpdateNothing
  <1>4. /\ ClassOK(ClassOf(m))
        /\ m \in Source <=> ClassOf(m).accepts = <<>>
        /\ \A o : o \in Ports(m) => <<m, o>> \in Stream
    BY <1>1, ModuleFacts, Zenon
  <1>5. ASSUME ClassOf(m).alloc # "none", Len(ClassOf(m).accepts) \in {1, 2}
        PROVE  /\ <<m, output_dispatcher[m]>> \in Stream
               /\ StreamFormat(<<m, output_dispatcher[m]>>) = "IplImage8" => buffer[m] \in {0, 1}
               /\ Len(ClassOf(m).accepts) = 2 => output_dispatcher[m] = "out"
    <2>1. ClassOf(m).accepts # <<>>
      BY <1>5
    <2>2. /\ output_dispatcher[m] = "out8" => Is(m, "split")
          /\ Is(m, "split") /\ buffer[m] # 0 => (output_dispatcher[m] = "out8" <=> buffer[m] = 1)
          /\ "out" \in Ports(m) /\ ClassOf(m).format["out"] = "IplImage8" => buffer[m] \in {0, 1}
      BY <1>4, <2>1, Zenon DEF FormatInv, BuffersFit
    <2>3. "out" \in Ports(m) /\ ("out8" \in Ports(m) <=> Is(m, "split"))
      BY <1>4, <1>5, Zenon DEF ClassOK, Ports, Is
    <2>4. Len(ClassOf(m).accepts) = 2 => ~Is(m, "split")
      BY <1>4, <2>1, Zenon DEF ClassOK, Is
    <2>5. CASE output_dispatcher[m] = "out"
      <3>1. StreamFormat(<<m, output_dispatcher[m]>>) = ClassOf(m).format["out"]
        BY <2>5 DEF StreamFormat
      <3> QED
        BY <1>4, <2>2, <2>3, <2>5, <3>1, Zenon
    <2>6. CASE output_dispatcher[m] = "out8"
      BY <1>4, <2>2, <2>3, <2>4, <2>6, Zenon
    <2> QED
      BY <1>1, <2>5, <2>6, Zenon
  <1>6. ASSUME buffer[m] # 0
        PROVE  [ch |-> buffer[m], live |-> TRUE] \in Image /\ buffer[m] \in {1, 3}
    <2>1. buffer[m] \in {1, 3}
      BY <1>1, <1>6, Zenon
    <2> QED
      BY <2>1 DEF Image
  <1>7. \A t \in Stream : data[t] # None => data[t] # None /\ data[t].ch = data[t].ch
    OBVIOUS
  <1>8. \A q \in Modules : buffer[q] \in {0, buffer[q]}
    BY Zenon
  <1>9. CASE UpdateFilter(m) /\ ~UpdateNothing(m)
    <2> DEFINE s == <<m, output_dispatcher[m]>>
               full == [ch |-> buffer[m], live |-> TRUE]
               none == [buffer EXCEPT ![m] = 0]
               gone == Released({m})
               asked == need_update \ {m}
    <2>1. s \in Stream /\ (StreamFormat(s) = "IplImage8" => buffer[m] \in {0, 1})
      BY <1>5, <1>9, Zenon DEF UpdateFilter
    <2>2. \/ buffer[m] # 0 /\ push(s, full, data, buffer, asked)
          \/ push(s, None, gone, none, asked)
      BY <1>9, Zenon DEF UpdateFilter
    <2>3. CASE buffer[m] # 0 /\ push(s, full, data, buffer, asked)
      <3>1. full \in Image /\ full.ch = buffer[m]
        BY <1>6, <2>3
      <3>2. StreamFormat(s) = "IplImage8" => full.ch = 1
        BY <2>1, <2>3, <3>1, Zenon
      <3> HIDE DEF s, full, asked
      <3> QED
        BY <1>1, <1>2, <1>7, <1>8, <2>1, <2>3, <3>1, <3>2, PushFits, SMT
    <2>4. CASE push(s, None, gone, none, asked)
      <3>1. /\ gone \in [Stream -> Image \cup {None}]
            /\ \A t \in Stream : gone[t] # None =>
                 data[t] # None /\ gone[t].ch = data[t].ch
        BY ReleasedFacts, Zenon DEF FormatInv
      <3>2. \A q \in Modules : none[q] \in {0, buffer[q]}
        BY <1>1
      <3> HIDE DEF s, none, gone, asked
      <3> QED
        BY <1>1, <1>2, <2>1, <2>4, <3>1, <3>2, PushNullFits, SMT
    <2> QED
      BY <2>2, <2>3, <2>4
  <1>10. CASE UpdateTwo(m) /\ ~UpdateNothing(m)
    <2> DEFINE s == <<m, "out">>
               full == [ch |-> buffer[m], live |-> TRUE]
               asked == need_update \ {m}
    <2>1. buffer[m] # 0 /\ push(s, full, data, buffer, asked) /\ Len(ClassOf(m).accepts) = 2
      BY <1>10, Zenon DEF UpdateTwo
    <2>2. ClassOf(m).accepts # <<>>
      BY <2>1
    <2>3. ClassOf(m).alloc = "same"
      BY <1>4, <2>1, <2>2, Zenon DEF ClassOK
    <2>4. s \in Stream /\ (StreamFormat(s) = "IplImage8" => buffer[m] \in {0, 1})
      BY <1>5, <2>1, <2>3
    <2>5. full \in Image /\ full.ch = buffer[m]
      BY <1>6, <2>1
    <2>6. StreamFormat(s) = "IplImage8" => full.ch = 1
      BY <2>1, <2>4, <2>5, Zenon
    <2> HIDE DEF s, full, asked
    <2> QED
      BY <1>1, <1>2, <1>7, <1>8, <2>1, <2>4, <2>5, <2>6, PushFits, SMT
  <1> QED
    BY <1>3, <1>9, <1>10, Zenon DEF UpdateDisplay

LEMMA FormatInvariant ==
  ASSUME FormatAssumption
  PROVE  Spec => []FormatInv
  <1>1. Init => FormatInv
    <2> SUFFICES ASSUME Init PROVE FormatInv
      OBVIOUS
    <2>1. FilterTypes
      BY Zenon DEF Init, FilterTypes
    <2>2. \A m \in Modules : buffer[m] = 0 /\ output_dispatcher[m] = "out"
      BY Zenon DEF Init
    <2>3. BuffersFit
      BY <2>2 DEF BuffersFit
    <2>4. FormatsHold
      BY Zenon DEF Init, FormatsHold
    <2> QED
      BY <2>1, <2>3, <2>4, Zenon DEF FormatInv
  <1>2. FormatInv /\ [Next]_vars => FormatInv'
    BY RequestsKeepFormats, SourcesKeepFormats, FiltersKeepFormats, Zenon
       DEF Next, PollUpdate
  <1> QED
    BY <1>1, <1>2, PTL DEF Spec

(* A stream of the format IplImage8 never carries an image of more than    *)
(* one channel, whatever classes of filters are connected, in whatever     *)
(* order and with cycles, as isStreamValid allows it: through cameras that *)
(* change their number of channels, files that are loaded while the        *)
(* pipeline runs, and any number of starts and stops.                      *)
THEOREM FormatsAlwaysHold ==
  ASSUME FormatAssumption
  PROVE  Spec => []FormatsHold
  <1>1. FormatInv => FormatsHold
    BY Zenon DEF FormatInv
  <1> QED
    BY <1>1, FormatInvariant, PTL

(* The images that updates read.                                           *)

\* A step keeps the invariant when, in terms of the pipeline, the new values do.
LEMMA ReadInvNext ==
  ASSUME FormatInv', pipe' = pipe,
         \A m \in Modules : Is(m, "file") => buffer'[m] \in {0, 3},
         \A m \in Modules :
           OneInput(m) /\ Reads(m) # None /\ buffer'[m] # 0 =>
             /\ CarriesIn(Reads(m)[1], buffer') # 0
             /\ buffer'[m] = Channels(m, CarriesIn(Reads(m)[1], buffer')),
         \A s \in Stream :
           data'[s] # None /\ data'[s].live =>
             buffer'[s[1]] # 0 /\ data'[s].ch = CarriesIn(s[1], buffer'),
         \A m \in Modules :
           m \in need_update' /\ OneInput(m) /\ ~Is(m, "mask") /\ ClassOf(m).alloc # "none" =>
             (Reads(m) # None /\ data'[Reads(m)] # None =>
                data'[Reads(m)].live /\ buffer'[m] # 0),
         \A m \in Modules :
           m \in need_update' /\ OneInput(m) /\ ~Is(m, "mask") /\ ClassOf(m).alloc # "none" =>
             \/ sweep' > Len(pipe.order)
             \/ sweep' > 0 /\ \E k \in 1..Len(pipe.order) : pipe.order[k] = m /\ sweep' <= k
  PROVE  ReadInv'
  <1>1. Modules' = Modules /\ Stream' = Stream
    BY PipeStays, Zenon
  <1>2. FilesAreColour'
    BY <1>1, Zenon DEF FilesAreColour, Is, ClassOf
  <1>3. BuffersMatch'
    BY <1>1, Zenon DEF BuffersMatch, OneInput, Reads, Carries, CarriesIn, Channels, Is, ClassOf
  <1>4. LiveAreOwned'
    BY <1>1, Zenon DEF LiveAreOwned, Carries, CarriesIn, Is, ClassOf
  <1>5. AskedCanRead'
    BY <1>1, Zenon DEF AskedCanRead, ToRead, OneInput, Reads, Is, ClassOf
  <1>6. AskedIsAhead'
    BY <1>1, Zenon DEF AskedIsAhead, ToRead, OneInput, Is, ClassOf
  <1> QED
    BY <1>2, <1>3, <1>4, <1>5, <1>6, Zenon DEF ReadInv

\* A module that reads one stream stands behind the module it reads.
LEMMA ReaderFacts ==
  ASSUME OrderAssumption, pipe \in Pipelines, NEW m \in Modules, OneInput(m)
  PROVE  /\ m \notin Source /\ ~Is(m, "file") /\ ~Is(m, "poll")
         /\ Reads(m) # None => /\ Reads(m) \in Stream /\ Reads(m)[1] \in Modules
                               /\ StreamFormat(Reads(m)) \in ClassOf(m).accepts[1]
         /\ \A s \in Stream : m \in Observers(s) <=> Reads(m) = s
  <1>1. FormatAssumption
    BY DEF OrderAssumption
  <1>2. /\ ClassOK(ClassOf(m)) /\ Len(pipe.input[m]) = Len(ClassOf(m).accepts)
        /\ m \in Source <=> ClassOf(m).accepts = <<>>
    BY <1>1, ModuleFacts, Zenon
  <1>3. ClassOf(m).accepts # <<>>
    <2>1. Len(ClassOf(m).accepts) = 1
      BY Zenon DEF OneInput
    <2>2. Len(<<>>) # 1
      OBVIOUS
    <2> QED
      BY <2>1, <2>2, Zenon
  <1>4. ~Is(m, "file") /\ ~Is(m, "poll")
    BY <1>2, <1>3, Zenon DEF ClassOK, Is
  <1>5. 1..Len(pipe.input[m]) = {1}
    BY <1>2 DEF OneInput
  <1>6. Reads(m) # None => Reads(m) \in Stream /\ StreamFormat(Reads(m)) \in ClassOf(m).accepts[1]
    BY <1>1, <1>5, InputFacts, Zenon DEF Reads
  <1>7. Reads(m) # None => Reads(m)[1] \in Modules
    BY <1>1, <1>6, StreamFacts, Zenon
  <1>8. \A s \in Stream : m \in Observers(s) <=> Reads(m) = s
    BY <1>5, Zenon DEF Observers, Reads
  <1> QED
    BY <1>2, <1>3, <1>4, <1>6, <1>7, <1>8, Zenon

LEMMA ObserversAreAhead ==
  ASSUME OrderAssumption, pipe \in Pipelines, NEW j \in 1..Len(pipe.order),
         NEW s \in Stream, s[1] = pipe.order[j], NEW m \in Observers(s)
  PROVE  m # s[1] /\ \E k \in 1..Len(pipe.order) : pipe.order[k] = m /\ j < k
  <1>1. InOrder(pipe) /\ FormatAssumption
    BY Zenon DEF OrderAssumption
  <1>2. PICK i \in 1..Len(pipe.input[m]) : m \in Modules /\ pipe.input[m][i] = s
    BY Zenon DEF Observers
  <1>3. PICK k \in 1..Len(pipe.order) : pipe.order[k] = m
    BY <1>2, Zenon DEF Modules
  <1>4. s # None
    BY <1>1, StreamFacts, Zenon
  <1>5. PICK h \in 1..Len(pipe.order) : h < k /\ pipe.order[h] = s[1]
    <2>1. i \in 1..Len(pipe.input[pipe.order[k]]) /\ pipe.input[pipe.order[k]][i] = s
      BY <1>2, <1>3, Zenon
    <2>2. pipe.input[pipe.order[k]][i] # None =>
            \E h \in 1..Len(pipe.order) : h < k /\ pipe.order[h] = pipe.input[pipe.order[k]][i][1]
      BY <1>1, <2>1, Zenon DEF InOrder
    <2> QED
      BY <1>4, <2>1, <2>2, Zenon
  <1>6. h = j
    BY <1>1, <1>5, Zenon DEF InOrder
  <1>7. j < k
    BY <1>5, <1>6
  <1>8. m # s[1]
    <2>1. j # k
      BY <1>7
    <2> QED
      BY <1>1, <1>3, <2>1, Zenon DEF InOrder
  <1> QED
    BY <1>3, <1>7, <1>8, Zenon

\* Only what has no buffer allocates one: the channels of a stream stay.
LEMMA AllocatingHadNone ==
  ASSUME OrderAssumption, ReadInv, NEW STATE s, s \in Stream,
         NEW STATE img, img # None => img.ch = Carries(s[1]),
         NEW m \in Allocating(s, img)
  PROVE  /\ buffer[m] = 0 /\ img # None /\ m \in Observers(s) /\ m \in Modules /\ m \notin Source
         /\ ~Is(m, "file") /\ ~Is(m, "poll")
  <1>1. pipe \in Pipelines /\ FormatAssumption
    BY Zenon DEF ReadInv, FormatInv, FilterTypes, OrderAssumption
  <1>2. m \in Observers(s) /\ img # None /\ needBufferAllocation(m, img)
    BY Zenon DEF Allocating
  <1>3. m \in Modules /\ m \notin Source /\ ClassOK(ClassOf(m)) /\ ClassOf(m).accepts # <<>>
    BY <1>1, <1>2, ObserverFacts, Zenon
  <1>4. ~Is(m, "file") /\ ~Is(m, "poll")
    BY <1>3, Zenon DEF ClassOK, Is
  <1>5. ASSUME Is(m, "split"), buffer[m] # 0 PROVE buffer[m] = img.ch
    <2>1. /\ ClassOf(m).alloc \in {"own", "same"}
          /\ ClassOf(m).alloc \in {"same", "one", "three", "none"}
          /\ Len(ClassOf(m).accepts) \in {1, 2} /\ Len(ClassOf(m).accepts) # 2
      BY <1>3, <1>5, Zenon DEF ClassOK, Is
    <2>2. ClassOf(m).alloc = "same" /\ OneInput(m)
      BY <2>1 DEF OneInput
    <2>3. Reads(m) = s /\ s # None
      BY <1>1, <1>2, <1>3, <2>2, ReaderFacts, StreamFacts, Zenon
    <2>4. buffer[m] = Channels(m, Carries(s[1]))
      BY <1>3, <1>5, <2>2, <2>3, Zenon DEF ReadInv, BuffersMatch
    <2>5. Channels(m, Carries(s[1])) = Carries(s[1])
      BY <2>2 DEF Channels
    <2> QED
      BY <1>2, <2>4, <2>5, Zenon
  <1>6. buffer[m] = 0
    BY <1>2, <1>5, Zenon DEF needBufferAllocation
  <1> QED
    BY <1>2, <1>3, <1>4, <1>6, Zenon

\* Who waits for its turn behind p still does when p had its own.
LEMMA OthersStayAhead ==
  ASSUME AskedIsAhead, NEW p \in Modules, InTurn(p), NEW m \in Modules, m # p, ToRead(m)
  PROVE  sweep' > 0 /\ \E k \in 1..Len(pipe.order) : pipe.order[k] = m /\ sweep' <= k
  <1>1. sweep \in 1..Len(pipe.order) /\ p = pipe.order[sweep]
    BY Zenon DEF InTurn
  <1>2. ~(sweep > Len(pipe.order))
    BY <1>1
  <1>3. PICK k \in 1..Len(pipe.order) : pipe.order[k] = m /\ sweep <= k
    BY <1>2, Zenon DEF AskedIsAhead
  <1>4. k # sweep
    BY <1>1, <1>3, Zenon
  <1>5. sweep' > 0 /\ sweep' <= k
    BY <1>1, <1>3, <1>4 DEF InTurn
  <1> QED
    BY <1>3, <1>5, Zenon

\* A push in turn, of what the module's buffer holds or of NULL.
LEMMA PushKeepsReads ==
  ASSUME OrderAssumption, ReadInv, FormatInv', NEW p \in Modules, InTurn(p),
         NEW STATE s, s \in Stream, s[1] = p,
         NEW STATE img, img \in Image \cup {None},
         img # None => img.live /\ img.ch = Carries(p) /\ buffer[p] # 0,
         NEW STATE asked, \A m \in asked : (m \in need_update /\ m # p) \/ m \in Source,
         push(s, img, data, buffer, asked)
  PROVE  ReadInv'
  <1> DEFINE A == Allocating(s, img)
  <1>1. /\ FormatAssumption /\ pipe \in Pipelines /\ pipe' = pipe /\ sweep \in Nat
        /\ data \in [Stream -> Image \cup {None}] /\ buffer \in [Modules -> {0, 1, 3}]
    BY Zenon DEF OrderAssumption, ReadInv, FormatInv, FilterTypes, InTurn
  <1>2. sweep \in 1..Len(pipe.order) /\ p = pipe.order[sweep]
    BY Zenon DEF InTurn
  <1>3. ASSUME NEW m \in A
        PROVE  /\ buffer[m] = 0 /\ img # None /\ m \in Observers(s) /\ m \in Modules
               /\ m \notin Source /\ ~Is(m, "file") /\ ~Is(m, "poll")
    BY AllocatingHadNone, SMT
  <1>4. ASSUME NEW m \in Observers(s)
        PROVE  m # p /\ \E k \in 1..Len(pipe.order) : pipe.order[k] = m /\ sweep < k
    BY <1>1, <1>2, ObserversAreAhead, SMT
  <1>5. /\ data' \in [Stream -> Image \cup {None}]
        /\ data'[s] = img
        /\ \A t \in Stream : t # s =>
             /\ data'[t] # None <=> data[t] # None
             /\ data[t] # None => data'[t].ch = data[t].ch
             /\ t[1] \notin A => data'[t] = data[t]
             /\ t[1] \in A /\ data[t] # None => ~data'[t].live
    BY <1>1, PushedData, SMT
  <1>6. \A m \in Modules : buffer'[m] = IF m \in A THEN Channels(m, img.ch) ELSE buffer[m]
    BY Zenon DEF push
  <1>7. \A m \in need_update' : m \in asked \/ m \in Observers(s)
    BY Zenon DEF push
  <1>8. \A m \in Observers(s) : m \in Modules /\ (m \notin A /\ img # None => buffer[m] # 0)
    BY Zenon DEF Observers, Allocating, needBufferAllocation
  <1>9. p \notin A
    BY <1>3, <1>4, Zenon
  <1> HIDE DEF A
  <1>10. \A m \in Modules : Is(m, "file") => buffer'[m] \in {0, 3}
    BY <1>3, <1>6, Zenon DEF ReadInv, FilesAreColour
  <1>11. \A m \in Modules : m \notin A => CarriesIn(m, buffer') = Carries(m)
    BY <1>6, Zenon DEF Carries, CarriesIn
  <1>12. ASSUME NEW m \in Modules, OneInput(m), Reads(m) # None, buffer'[m] # 0
         PROVE  /\ CarriesIn(Reads(m)[1], buffer') # 0
                /\ buffer'[m] = Channels(m, CarriesIn(Reads(m)[1], buffer'))
    <2>1. /\ Reads(m) \in Stream /\ Reads(m)[1] \in Modules
          /\ m \in Observers(s) <=> Reads(m) = s
      BY <1>1, <1>12, ReaderFacts, Zenon
    <2>2. CASE m \in A
      <3>1. Reads(m)[1] = p /\ img # None
        BY <1>3, <2>1, <2>2, Zenon
      <3>2. CarriesIn(p, buffer') = img.ch
        BY <1>9, <1>11, <3>1, Zenon
      <3>3. img.ch # 0
        <4>1. img \in Image
          BY <3>1
        <4> QED
          BY <4>1 DEF Image
      <3> QED
        BY <1>6, <2>2, <3>1, <3>2, <3>3, Zenon
    <2>3. CASE m \notin A
      <3>1. buffer'[m] = buffer[m]
        BY <1>6, <2>3, Zenon
      <3>2. Carries(Reads(m)[1]) # 0 /\ buffer[m] = Channels(m, Carries(Reads(m)[1]))
        BY <1>12, <3>1, Zenon DEF ReadInv, BuffersMatch
      <3>3. Reads(m)[1] \notin A
        BY <1>3, <3>2, Zenon DEF Carries, CarriesIn
      <3>4. CarriesIn(Reads(m)[1], buffer') = Carries(Reads(m)[1])
        BY <1>11, <2>1, <3>3, Zenon
      <3> QED
        BY <3>1, <3>2, <3>4, Zenon
    <2> QED
      BY <2>2, <2>3
  <1>13. ASSUME NEW t \in Stream, data'[t] # None, data'[t].live
         PROVE  buffer'[t[1]] # 0 /\ data'[t].ch = CarriesIn(t[1], buffer')
    <2>1. t[1] \in Modules
      BY <1>1, StreamFacts, Zenon
    <2>2. CASE t = s
      BY <1>5, <1>6, <1>9, <1>11, <1>13, <2>1, <2>2, Zenon
    <2>3. CASE t # s
      <3>1. t[1] \notin A /\ data'[t] = data[t]
        BY <1>5, <1>13, <2>3, Zenon
      <3>2. buffer[t[1]] # 0 /\ data[t].ch = Carries(t[1])
        BY <1>13, <3>1, Zenon DEF ReadInv, LiveAreOwned
      <3> QED
        BY <1>6, <1>11, <2>1, <3>1, <3>2, Zenon
    <2> QED
      BY <2>2, <2>3
  <1>14. ASSUME NEW m \in Modules, m \in need_update', OneInput(m), ~Is(m, "mask"),
                ClassOf(m).alloc # "none"
         PROVE  /\ Reads(m) # None /\ data'[Reads(m)] # None =>
                     data'[Reads(m)].live /\ buffer'[m] # 0
                /\ \/ sweep' > Len(pipe.order)
                   \/ sweep' > 0 /\ \E k \in 1..Len(pipe.order) : pipe.order[k] = m /\ sweep' <= k
    <2>1. /\ m \notin Source
          /\ m \in Observers(s) <=> Reads(m) = s
          /\ Reads(m) # None => Reads(m) \in Stream
      BY <1>1, <1>14, ReaderFacts, Zenon
    <2>2. CASE m \in Observers(s)
      <3>1. ASSUME img # None PROVE img.live /\ buffer'[m] # 0
        <4>1. CASE m \notin A
          BY <1>6, <1>8, <2>2, <3>1, <4>1, Zenon
        <4>2. CASE m \in A
          <5>1. img \in Image
            BY <3>1
          <5>2. StreamFormat(s) = "IplImage8" => img.ch = 1
            BY <1>1, <1>5, <3>1, PipeStays, Zenon DEF FormatInv, FormatsHold, StreamFormat, ClassOf
          <5>3. Channels(m, img.ch) # 0
            BY <1>1, <1>14, <2>2, <5>1, <5>2, AllocatedFits, SMT DEF ReadInv
          <5> QED
            BY <1>6, <3>1, <4>2, <5>3, Zenon
        <4> QED
          BY <4>1, <4>2
      <3>2. Reads(m) # None /\ data'[Reads(m)] # None => data'[Reads(m)].live /\ buffer'[m] # 0
        BY <1>5, <2>1, <2>2, <3>1, Zenon
      <3>3. PICK k \in 1..Len(pipe.order) : pipe.order[k] = m /\ sweep < k
        BY <1>4, <2>2
      <3>4. sweep' > 0 /\ sweep' <= k
        BY <1>2, <3>3 DEF InTurn
      <3> QED
        BY <3>2, <3>3, <3>4, Zenon
    <2>3. CASE m \notin Observers(s)
      <3>1. ToRead(m) /\ m # p
        BY <1>7, <1>14, <2>1, <2>3, Zenon DEF ToRead
      <3>2. ASSUME Reads(m) # None, data'[Reads(m)] # None
            PROVE  data'[Reads(m)].live /\ buffer'[m] # 0
        <4>1. Reads(m) # s /\ Reads(m) \in Stream
          BY <2>1, <2>3, <3>2, Zenon
        <4>2. data[Reads(m)].live /\ data[Reads(m)] # None /\ buffer[m] # 0
          BY <1>5, <3>1, <3>2, <4>1, Zenon DEF ReadInv, AskedCanRead
        <4>3. buffer[Reads(m)[1]] # 0
          BY <4>1, <4>2, Zenon DEF ReadInv, LiveAreOwned
        <4>4. Reads(m)[1] \notin A /\ m \notin A
          BY <1>3, <2>3, <4>3, Zenon
        <4> QED
          BY <1>5, <1>6, <4>1, <4>2, <4>4, Zenon
      <3>3. \/ sweep' > Len(pipe.order)
            \/ sweep' > 0 /\ \E k \in 1..Len(pipe.order) : pipe.order[k] = m /\ sweep' <= k
        BY <3>1, OthersStayAhead, Zenon DEF ReadInv
      <3> QED
        BY <3>2, <3>3, Zenon
    <2> QED
      BY <2>2, <2>3
  <1> QED
    BY <1>1, <1>10, <1>12, <1>13, <1>14, ReadInvNext, Zenon

\* Steps that push nothing.  Only sources get another buffer, and no filter
\* that reads is asked for an update.
LEMMA QuietKeepsReads ==
  ASSUME OrderAssumption, ReadInv, FormatInv', pipe' = pipe,
         \A m \in Modules : Is(m, "file") => buffer'[m] \in {0, 3},
         \A m \in Modules : \/ Is(m, "file")
                            \/ buffer[m] = 0 /\ m \in Source
                            \/ buffer'[m] = buffer[m],
         \A s \in Stream : \/ data'[s] = data[s] /\ ~Is(s[1], "file")
                           \/ data'[s] = data[s] /\ buffer'[s[1]] = buffer[s[1]]
                           \/ data'[s] # None => ~data'[s].live,
         \A m \in Modules : m \in need_update' /\ OneInput(m) /\ ~Is(m, "mask")
                              /\ ClassOf(m).alloc # "none" =>
           m \in need_update /\ UNCHANGED <<data, buffer>>,
         \A m \in Modules : ToRead(m) /\ m \in need_update' =>
             \/ sweep' > Len(pipe.order)
             \/ sweep' > 0 /\ \E k \in 1..Len(pipe.order) : pipe.order[k] = m /\ sweep' <= k
  PROVE  ReadInv'
  <1>1. FormatAssumption /\ pipe \in Pipelines
    BY Zenon DEF OrderAssumption, ReadInv, FormatInv, FilterTypes
  <1>2. ASSUME NEW m \in Modules, OneInput(m), Reads(m) # None, buffer'[m] # 0
        PROVE  /\ CarriesIn(Reads(m)[1], buffer') # 0
               /\ buffer'[m] = Channels(m, CarriesIn(Reads(m)[1], buffer'))
    <2>1. m \notin Source /\ ~Is(m, "file") /\ Reads(m)[1] \in Modules
      BY <1>1, <1>2, ReaderFacts, Zenon
    <2>2. buffer'[m] = buffer[m]
      BY <2>1, Zenon
    <2>3. Carries(Reads(m)[1]) # 0 /\ buffer[m] = Channels(m, Carries(Reads(m)[1]))
      BY <1>2, <2>2, Zenon DEF ReadInv, BuffersMatch
    <2>4. CarriesIn(Reads(m)[1], buffer') = Carries(Reads(m)[1])
      BY <2>1, <2>3, Zenon DEF Carries, CarriesIn
    <2> QED
      BY <2>2, <2>3, <2>4, Zenon
  <1>3. ASSUME NEW s \in Stream, data'[s] # None, data'[s].live
        PROVE  buffer'[s[1]] # 0 /\ data'[s].ch = CarriesIn(s[1], buffer')
    <2>1. s[1] \in Modules
      BY <1>1, StreamFacts, Zenon
    <2>2. data'[s] = data[s]
      BY <1>3, Zenon
    <2>3. buffer[s[1]] # 0 /\ data[s].ch = Carries(s[1])
      BY <1>3, <2>2, Zenon DEF ReadInv, LiveAreOwned
    <2>4. buffer'[s[1]] = buffer[s[1]]
      BY <1>3, <2>1, <2>3, Zenon
    <2> QED
      BY <2>2, <2>3, <2>4, Zenon DEF Carries, CarriesIn
  <1>4. ASSUME NEW m \in Modules, m \in need_update', OneInput(m), ~Is(m, "mask"),
               ClassOf(m).alloc # "none"
        PROVE  /\ Reads(m) # None /\ data'[Reads(m)] # None =>
                    data'[Reads(m)].live /\ buffer'[m] # 0
               /\ \/ sweep' > Len(pipe.order)
                  \/ sweep' > 0 /\ \E k \in 1..Len(pipe.order) : pipe.order[k] = m /\ sweep' <= k
    <2>1. ToRead(m) /\ UNCHANGED <<data, buffer>>
      BY <1>4, Zenon DEF ToRead
    <2> QED
      BY <1>4, <2>1, Zenon DEF ReadInv, AskedCanRead
  <1> QED
    BY <1>2, <1>3, <1>4, ReadInvNext, Zenon

LEMMA RequestsKeepReads ==
  ASSUME OrderAssumption, ReadInv, FormatInv',
         start \/ \E m \in Modules : reloadImage(m)
  PROVE  ReadInv'
  <1>1. /\ FormatAssumption /\ pipe \in Pipelines /\ buffer \in [Modules -> {0, 1, 3}]
        /\ FilterTypes
    BY Zenon DEF OrderAssumption, ReadInv, FormatInv, FilterTypes
  <1>2. Len(pipe.order) \in Nat
    BY <1>1 DEF FormatAssumption, Connected
  <1>3. \A m \in Modules : ~ToRead(m)
    <2>1. sweep = 0
      BY Zenon DEF start, reloadImage
    <2>2. ~(sweep > Len(pipe.order)) /\ ~(sweep > 0)
      BY <1>2, <2>1
    <2> QED
      BY <2>2, Zenon DEF ReadInv, AskedIsAhead
  <1>4. ASSUME NEW m \in Modules
        PROVE  /\ Is(m, "file") => m \in Source /\ ~Is(m, "poll")
               /\ Is(m, "poll") => m \in Source
               /\ m \in Source => ~OneInput(m)
    <2>1. /\ ClassOK(ClassOf(m))
          /\ m \in Source <=> ClassOf(m).accepts = <<>>
      BY <1>1, ModuleFacts, Zenon
    <2>2. Len(<<>>) # 1
      OBVIOUS
    <2> QED
      BY <2>1, <2>2, Zenon DEF ClassOK, Is, OneInput
  <1>5. \A s \in Stream : s[1] \in Modules
    BY <1>1, StreamFacts, Zenon
  <1>6. \A M : \A s \in Stream : /\ s[1] \notin M => Released(M)[s] = data[s]
                                 /\ s[1] \in M => (Released(M)[s] # None => ~Released(M)[s].live)
    BY <1>1, ReleasedFacts, Zenon
  <1>7. CASE start
    <2>1. PICK loads \in SUBSET {m \in Source : Is(m, "file")},
               opened \in [{m \in Source : Is(m, "poll")} -> {0, 1, 3}] :
            /\ buffer' = [m \in Modules |->
                 IF m \in DOMAIN opened THEN opened[m]
                 ELSE IF m \in loads THEN 3
                 ELSE IF Is(m, "file") THEN 0 ELSE buffer[m]]
            /\ need_update' =
                 {m \in need_update : Is(m, "file") => buffer[m] = 0} \cup loads
      BY <1>7, Zenon DEF start
    <2>2. /\ pipe' = pipe /\ data' = Released({m \in Source : Is(m, "file")})
          /\ \A m \in Source : Is(m, "poll") => buffer[m] = 0
      BY <1>7, Zenon DEF start
    <2>3. DOMAIN opened = {m \in Source : Is(m, "poll")}
      BY Zenon
    <2>4. \A m \in Modules : Is(m, "file") => buffer'[m] \in {0, 3}
      BY <1>4, <2>1, <2>3, Zenon
    <2>5. \A m \in Modules : \/ Is(m, "file")
                             \/ buffer[m] = 0 /\ m \in Source
                             \/ buffer'[m] = buffer[m]
      BY <2>1, <2>2, <2>3, Zenon
    <2>6. \A s \in Stream : \/ data'[s] = data[s] /\ ~Is(s[1], "file")
                            \/ data'[s] # None => ~data'[s].live
      BY <1>4, <1>5, <1>6, <2>2, Zenon
    <2>7. \A m \in Modules : m \in need_update' /\ OneInput(m) => m \in need_update
      BY <1>4, <2>1, Zenon
    <2> QED
      BY <1>3, <2>2, <2>4, <2>5, <2>6, <2>7, QuietKeepsReads, Zenon DEF ToRead
  <1>8. ASSUME NEW q \in Modules, reloadImage(q) PROVE ReadInv'
    <2>1. pipe' = pipe /\ Is(q, "file") /\ data' = Released({q})
      BY <1>8, Zenon DEF reloadImage
    <2>2. PICK c \in {0, 3} : buffer' = [buffer EXCEPT ![q] = c]
      BY <1>8, Zenon DEF reloadImage
    <2>3. buffer'[q] \in {0, 3} /\ \A m \in Modules : m # q => buffer'[m] = buffer[m]
      BY <1>1, <2>2
    <2>4. \A m \in Modules : Is(m, "file") => buffer'[m] \in {0, 3}
      BY <2>3, Zenon DEF ReadInv, FilesAreColour
    <2>5. \A s \in Stream : \/ data'[s] = data[s] /\ buffer'[s[1]] = buffer[s[1]]
                            \/ data'[s] # None => ~data'[s].live
      BY <1>5, <1>6, <2>1, <2>3, Zenon
    <2>6. \A m \in Modules : m \in need_update' /\ OneInput(m) => m \in need_update
      BY <1>4, <1>8, <2>1, Zenon DEF reloadImage
    <2> QED
      BY <1>3, <2>1, <2>3, <2>4, <2>5, <2>6, QuietKeepsReads, Zenon DEF ToRead
  <1> QED
    BY <1>7, <1>8

LEMMA StopKeepsReads ==
  ASSUME OrderAssumption, ReadInv, FormatInv', stop
  PROVE  ReadInv'
  <1>1. /\ FormatAssumption /\ pipe \in Pipelines /\ buffer \in [Modules -> {0, 1, 3}]
        /\ FilterTypes
    BY Zenon DEF OrderAssumption, ReadInv, FormatInv, FilterTypes
  <1>2. /\ pipe' = pipe /\ need_update' = {} /\ data' = Released(Releases)
        /\ buffer' = [m \in Modules |-> IF m \in Releases THEN 0 ELSE buffer[m]]
    BY Zenon DEF stop
  <1>3. \A m \in Modules : buffer'[m] = IF m \in Releases THEN 0 ELSE buffer[m]
    BY <1>2, Zenon
  <1>4. \A m \in Modules : Is(m, "file") => buffer'[m] \in {0, 3}
    BY <1>3, Zenon DEF ReadInv, FilesAreColour
  <1>5. ASSUME NEW m \in Modules, OneInput(m), Reads(m) # None PROVE buffer'[m] = 0
    <2>1. ClassOK(ClassOf(m))
      BY <1>1, ModuleFacts, Zenon
    <2>2. CASE m \in Releases
      BY <1>3, <2>2, Zenon
    <2>3. CASE m \notin Releases
      <3>1. Len(ClassOf(m).accepts) = 2 \/ ClassOf(m).alloc = "none"
        BY <2>1, <2>3, Zenon DEF Releases, ClassOK, Is
      <3>2. ClassOf(m).alloc = "none"
        BY <1>5, <3>1 DEF OneInput
      <3>3. \A c : Channels(m, c) = 0
        BY <3>2 DEF Channels
      <3>4. buffer[m] = 0
        BY <1>5, <3>3, Zenon DEF ReadInv, BuffersMatch
      <3> QED
        BY <1>3, <2>3, <3>4, Zenon
    <2> QED
      BY <2>2, <2>3
  <1>6. ASSUME NEW s \in Stream, data'[s] # None, data'[s].live
        PROVE  buffer'[s[1]] # 0 /\ data'[s].ch = CarriesIn(s[1], buffer')
    <2>1. s[1] \in Modules
      BY <1>1, StreamFacts, Zenon
    <2>2. data'[s] = data[s] /\ s[1] \notin Releases
      BY <1>1, <1>2, <1>6, ReleasedFacts, Zenon
    <2>3. buffer[s[1]] # 0 /\ data[s].ch = Carries(s[1])
      BY <1>6, <2>2, Zenon DEF ReadInv, LiveAreOwned
    <2> QED
      BY <1>3, <2>1, <2>2, <2>3, Zenon DEF Carries, CarriesIn
  <1> QED
    BY <1>2, <1>4, <1>5, <1>6, ReadInvNext, Zenon

\* Steps that leave the buffers and the streams alone.
LEMMA IdleKeepsReads ==
  ASSUME OrderAssumption, ReadInv, FormatInv',
         \/ BeginPoll \/ UNCHANGED vars
         \/ \E m \in Modules : \/ reloadMask(m) \/ PollIdle(m) \/ AssertFails(m)
                               \/ InTurn(m) /\ UpdateNothing(m)
  PROVE  ReadInv'
  <1>1. /\ FormatAssumption /\ pipe \in Pipelines
    BY Zenon DEF OrderAssumption, ReadInv, FormatInv, FilterTypes
  <1>2. Len(pipe.order) \in Nat
    BY <1>1 DEF FormatAssumption, Connected
  <1>3. ASSUME pipe' = pipe, UNCHANGED <<data, buffer>>,
               \A m \in need_update' : m \in need_update \/ Is(m, "mask"),
               \A m \in Modules : ToRead(m) /\ m \in need_update' =>
                 \/ sweep' > Len(pipe.order)
                 \/ sweep' > 0 /\ \E k \in 1..Len(pipe.order) : pipe.order[k] = m /\ sweep' <= k
        PROVE  ReadInv'
    <2>1. \A m \in Modules : Is(m, "file") => buffer'[m] \in {0, 3}
      BY <1>3, Zenon DEF ReadInv, FilesAreColour
    <2> QED
      BY <1>3, <2>1, QuietKeepsReads, Zenon
  <1>4. CASE BeginPoll
    <2>1. ~(sweep > Len(pipe.order)) /\ ~(sweep > 0)
      BY <1>2, <1>4 DEF BeginPoll
    <2>2. \A m \in Modules : ~ToRead(m)
      BY <2>1, Zenon DEF ReadInv, AskedIsAhead
    <2> QED
      BY <1>3, <1>4, <2>2, Zenon DEF BeginPoll
  <1>5. CASE UNCHANGED vars
    BY <1>3, <1>5, Zenon DEF vars, ReadInv, AskedIsAhead
  <1>6. ASSUME NEW q \in Modules, reloadMask(q) PROVE ReadInv'
    BY <1>3, <1>6, Zenon DEF reloadMask, ReadInv, AskedIsAhead
  <1>7. ASSUME NEW q \in Modules, AssertFails(q) PROVE ReadInv'
    <2>1. sweep' > Len(pipe.order)
      BY <1>2, <1>7 DEF AssertFails
    <2> QED
      BY <1>3, <1>7, <2>1, Zenon DEF AssertFails
  <1>8. ASSUME NEW q \in Modules, InTurn(q), UNCHANGED <<data, buffer>>,
               \A m \in need_update' : m \in need_update /\ m # q
        PROVE  ReadInv'
    <2>1. \A m \in Modules : ToRead(m) /\ m # q =>
            sweep' > 0 /\ \E k \in 1..Len(pipe.order) : pipe.order[k] = m /\ sweep' <= k
      BY <1>8, OthersStayAhead, Zenon DEF ReadInv
    <2>2. pipe' = pipe
      BY <1>8, Zenon DEF InTurn
    <2> QED
      BY <1>3, <1>8, <2>1, <2>2, Zenon
  <1>9. ASSUME NEW q \in Modules, PollIdle(q) PROVE ReadInv'
    BY <1>8, <1>9, Zenon DEF PollIdle
  <1>10. ASSUME NEW q \in Modules, InTurn(q), UpdateNothing(q) PROVE ReadInv'
    BY <1>8, <1>10, Zenon DEF UpdateNothing
  <1> QED
    BY <1>4, <1>5, <1>6, <1>7, <1>9, <1>10, Zenon

LEMMA UpdatesKeepReads ==
  ASSUME OrderAssumption, ReadInv, FormatInv', NEW m \in Modules, PollUpdate(m)
  PROVE  ReadInv'
  <1>1. /\ FormatAssumption /\ pipe \in Pipelines /\ buffer \in [Modules -> {0, 1, 3}]
        /\ FormatInv /\ output_dispatcher[m] \in {"out", "out8"}
    BY Zenon DEF OrderAssumption, ReadInv, FormatInv, FilterTypes
  <1>2. InTurn(m)
    BY Zenon DEF PollUpdate, UpdateSource, UpdateFilter, UpdateTwo, UpdateDisplay
  <1>3. CASE UpdateNothing(m)
    BY <1>2, <1>3, IdleKeepsReads, Zenon
  <1>4. /\ ClassOK(ClassOf(m))
        /\ m \in Source <=> ClassOf(m).accepts = <<>>
        /\ \A o : o \in Ports(m) => <<m, o>> \in Stream
    BY <1>1, ModuleFacts, Zenon
  <1>5. \A q \in need_update \ {m} : (q \in need_update /\ q # m) \/ q \in Source
    BY Zenon
  <1> DEFINE full == [ch |-> buffer[m], live |-> TRUE]
  <1>6. ASSUME buffer[m] # 0
        PROVE  full \in Image /\ full.live /\ full.ch = Carries(m)
    <2>1. buffer[m] \in {1, 3}
      BY <1>1, <1>6, Zenon
    <2>2. full \in Image /\ full.live /\ full.ch = buffer[m]
      BY <2>1 DEF Image
    <2>3. Carries(m) = buffer[m]
      BY <1>6, Zenon DEF Carries, CarriesIn, ReadInv, FilesAreColour
    <2> QED
      BY <2>2, <2>3, Zenon
  <1>7. ASSUME NEW STATE port, <<m, port>> \in Stream, NEW STATE img, NEW STATE asked,
               img = None \/ (img = full /\ buffer[m] # 0),
               \A q \in asked : (q \in need_update /\ q # m) \/ q \in Source,
               push(<<m, port>>, img, data, buffer, asked)
        PROVE  ReadInv'
    <2> DEFINE s == <<m, port>>
    <2>1. s \in Stream /\ s[1] = m
      BY <1>7
    <2>2. /\ img \in Image \cup {None}
          /\ img # None => img.live /\ img.ch = Carries(m) /\ buffer[m] # 0
      BY <1>6, <1>7, Zenon
    <2>3. push(s, img, data, buffer, asked)
      BY <1>7
    <2> HIDE DEF s, full
    <2> QED
      BY <1>2, <1>7, <2>1, <2>2, <2>3, PushKeepsReads, SMT
  <1>8. CASE UpdateSource(m) /\ ~UpdateNothing(m)
    <2> DEFINE port == IF Is(m, "split") /\ buffer[m] = 1 THEN "out8" ELSE "out"
               again == IF Is(m, "split") THEN {m} ELSE {}
               asked == (need_update \ {m}) \cup again
    <2>1. m \in Source /\ ClassOf(m).alloc = "own"
      BY <1>4, <1>8, Zenon DEF UpdateSource, ClassOK
    <2>2. "out" \in Ports(m) /\ (Is(m, "split") => "out8" \in Ports(m))
      <3>1. ClassOf(m).alloc # "none"
        BY <2>1
      <3> QED
        BY <1>4, <3>1, Zenon DEF ClassOK, Ports, Is
    <2>3. <<m, "out">> \in Stream /\ <<m, port>> \in Stream
      BY <1>4, <2>2, Zenon
    <2>4. \A q \in asked : (q \in need_update /\ q # m) \/ q \in Source
      BY <2>1, Zenon
    <2>5. \/ buffer[m] # 0 /\ push(<<m, port>>, full, data, buffer, asked)
          \/ push(<<m, "out">>, None, data, buffer, need_update \ {m})
      BY <1>8, Zenon DEF UpdateSource
    <2> HIDE DEF port, asked, full
    <2> QED
      BY <1>5, <1>7, <2>3, <2>4, <2>5, Zenon
  <1>9. CASE UpdateFilter(m) /\ ~UpdateNothing(m)
    <2>1. /\ OneInput(m) /\ ClassOf(m).alloc # "none" /\ m \in need_update
          /\ ReadBy(m, 1) # None
      BY <1>9, Zenon DEF UpdateFilter, OneInput
    <2>2. PICK c \in SeenChannels(ReadBy(m, 1)) :
            LET stops == Is(m, "checks") /\ c # 1 IN
            /\ stops \/ buffer[m] # 0
            /\ push(<<m, output_dispatcher[m]>>,
                    IF stops THEN None ELSE full,
                    IF stops THEN Released({m}) ELSE data,
                    IF stops THEN [buffer EXCEPT ![m] = 0] ELSE buffer,
                    need_update \ {m})
      BY <1>9, Zenon DEF UpdateFilter
    <2>3. ~(Is(m, "checks") /\ c # 1)
      <3> SUFFICES ASSUME Is(m, "checks") PROVE c = 1
        BY Zenon
      <3>1. Reads(m) # None /\ ReadBy(m, 1) = data[Reads(m)]
        BY <2>1, Zenon DEF ReadBy, Reads
      <3>2. ToRead(m) /\ ClassOf(m).accepts = <<Gray>>
        BY <1>4, <2>1, Zenon DEF ToRead, ClassOK, Is
      <3>3. data[Reads(m)].live /\ data[Reads(m)] # None
        BY <2>1, <3>1, <3>2, Zenon DEF ReadInv, AskedCanRead
      <3>4. Reads(m) \in Stream /\ StreamFormat(Reads(m)) \in ClassOf(m).accepts[1]
        BY <1>1, <2>1, <3>1, ReaderFacts, Zenon
      <3>5. StreamFormat(Reads(m)) = "IplImage8"
        <4>1. ClassOf(m).accepts[1] = Gray
          BY <3>2
        <4> QED
          BY <3>4, <4>1, Zenon DEF Gray
      <3>6. data[Reads(m)].ch = 1
        BY <1>1, <3>3, <3>4, <3>5, Zenon DEF FormatInv, FormatsHold
      <3> QED
        BY <2>2, <3>1, <3>3, <3>6, Zenon DEF SeenChannels
    <2>4. buffer[m] # 0 /\ push(<<m, output_dispatcher[m]>>, full, data, buffer, need_update \ {m})
      BY <2>2, <2>3, Zenon
    <2>5. output_dispatcher[m] \in Ports(m)
      <3>1. m \notin Source
        BY <1>1, <2>1, ReaderFacts, Zenon
      <3>2. output_dispatcher[m] = "out8" => Is(m, "split")
        BY <1>1, <3>1, Zenon DEF FormatInv, BuffersFit
      <3> QED
        BY <1>1, <1>4, <2>1, <3>2, Zenon DEF ClassOK, Ports, Is
    <2>6. <<m, output_dispatcher[m]>> \in Stream
      BY <1>4, <2>5, Zenon
    <2> HIDE DEF full
    <2> QED
      BY <1>5, <1>7, <2>4, <2>6, Zenon
  <1>10. CASE UpdateTwo(m) /\ ~UpdateNothing(m)
    <2>1. /\ buffer[m] # 0 /\ push(<<m, "out">>, full, data, buffer, need_update \ {m})
          /\ Len(ClassOf(m).accepts) = 2
      BY <1>10, Zenon DEF UpdateTwo
    <2>2. ClassOf(m).accepts # <<>>
      <3>1. Len(<<>>) # 2
        OBVIOUS
      <3> QED
        BY <2>1, <3>1, Zenon
    <2>3. ClassOf(m).alloc = "same"
      BY <1>4, <2>1, <2>2, Zenon DEF ClassOK
    <2>4. ClassOf(m).alloc # "none"
      BY <2>3
    <2>5. <<m, "out">> \in Stream
      BY <1>4, <2>4, Zenon DEF ClassOK, Ports
    <2> HIDE DEF full
    <2> QED
      BY <1>5, <1>7, <2>1, <2>5, Zenon
  <1> QED
    BY <1>3, <1>8, <1>9, <1>10, Zenon DEF PollUpdate, UpdateDisplay

LEMMA ReadInvariant ==
  ASSUME OrderAssumption
  PROVE  Spec => []ReadInv
  <1>1. FormatAssumption
    BY DEF OrderAssumption
  <1>2. Init /\ FormatInv => ReadInv
    <2> SUFFICES ASSUME Init, FormatInv PROVE ReadInv
      OBVIOUS
    <2>1. /\ \A m \in Modules : buffer[m] = 0
          /\ \A s \in Stream : data[s] = None
          /\ need_update = {}
      BY Zenon DEF Init
    <2>2. FilesAreColour /\ BuffersMatch
      BY <2>1, Zenon DEF FilesAreColour, BuffersMatch
    <2>3. LiveAreOwned /\ AskedCanRead /\ AskedIsAhead
      BY <2>1, Zenon DEF LiveAreOwned, AskedCanRead, AskedIsAhead, ToRead
    <2> QED
      BY <2>2, <2>3, Zenon DEF ReadInv
  <1>3. ReadInv /\ FormatInv' /\ [Next]_vars => ReadInv'
    BY RequestsKeepReads, StopKeepsReads, IdleKeepsReads, UpdatesKeepReads, Zenon DEF Next
  <1> QED
    BY <1>1, <1>2, <1>3, FormatInvariant, PTL DEF Spec

(* When every module stands, in the vector of modules that poll() goes     *)
(* through, after those it reads, update() of a filter reads an image that *)
(* its owner has not released, and its buffer has the channels that image  *)
(* calls for: through starts and stops, captures that fail to open, files  *)
(* that are replaced, and any number of modules of any classes.            *)
THEOREM UpdatesAlwaysReadLiveImages ==
  ASSUME OrderAssumption
  PROVE  Spec => []UpdatesReadLiveImages
  <1>1. ReadInv => UpdatesReadLiveImages
    <2> SUFFICES ASSUME ReadInv, NEW m \in Modules, Applies(m), ~Is(m, "mask")
                 PROVE  ReadBy(m, 1).live /\ buffer[m] = Channels(m, ReadBy(m, 1).ch)
      BY Zenon DEF UpdatesReadLiveImages
    <2>1. pipe \in Pipelines
      BY Zenon DEF ReadInv, FormatInv, FilterTypes
    <2>2. OneInput(m) /\ ToRead(m)
      BY Zenon DEF Applies, OneInput, ToRead
    <2>3. Reads(m) # None /\ ReadBy(m, 1) = data[Reads(m)] /\ data[Reads(m)] # None
      BY Zenon DEF Applies, ReadBy, Reads
    <2>4. data[Reads(m)].live /\ buffer[m] # 0
      BY <2>2, <2>3, Zenon DEF ReadInv, AskedCanRead
    <2>5. buffer[m] = Channels(m, Carries(Reads(m)[1]))
      BY <2>2, <2>3, <2>4, Zenon DEF ReadInv, BuffersMatch
    <2>6. data[Reads(m)].ch = Carries(Reads(m)[1])
      BY <2>1, <2>2, <2>3, <2>4, ReaderFacts, Zenon DEF ReadInv, LiveAreOwned
    <2> QED
      BY <2>3, <2>4, <2>5, <2>6, Zenon
  <1> QED
    BY <1>1, ReadInvariant, PTL
=============================================================================
