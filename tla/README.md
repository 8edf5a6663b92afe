# Movid in TLA+

Movid is a vision daemon: modules (cameras, filters, blob finders, trackers,
TUIO senders) are connected by data streams into a pipeline that one main thread
polls, that optional worker threads run, and that a small web server edits while
it runs. It ships with the libraries it stands on: libevent, WOscLib,
libfidtrack, bitmap_munkres, ptypes and cJSON. This directory models the daemon,
its web page and those libraries in TLA+, checks the models with TLC on small
instances, and proves the central properties with TLAPS for instances of any
size. Paths below are relative to `src/`; `moX` files are in `src/src/` and
`src/src/modules/`.

## The system

| Part | Source | State | Operations |
|---|---|---|---|
| Module | `moModule` | inputs, outputs, `is_started`, `need_update`, `use_thread`, `thread`, `thread_trigger`, error | `setInput`, `start`, `stop`, `poll`, `notifyUpdate`, `needUpdate`, the worker loop |
| Data stream | `moDataStream` | data pointer, format, observers, lock | `push`, `addObserver`, `removeObserver(s)`, `notifyObservers` |
| Pipeline | `moPipeline` | vector of modules, `last_internal_error` | `start`, `stop`, `poll`, `clear`, `parse`, `haveError`, `getLastError` |
| Main loop | `movid.cpp` `main` | `want_quit` | poll, error loop, event loop, signals |
| Web handlers | `movid.cpp` `web_pipeline_*` | open streams | create, connect, remove, start, stop, set, stream, slot load and save, quit |
| Web page | `gui/html/js` | widgets, connectors, requests under way | user actions, answers of the daemon |
| Filters and sources | `moImageFilterModule`, its subclasses, camera, video, image, display | an output buffer each | `start`, `stop`, `update`, `notifyData` |
| Finders | finger tips, Hu objects, blobs, fiducials | merge distance, registered objects | `update`, property callbacks |
| Blob trackers | `mo*BlobTrackerModule` | followed blobs with ids, ages, angles; the shared `id_counter` | `update` |
| Calibration | `moCalibrationModule` | points, active point, current touch, triangulation | `update`, property callbacks |
| Presets, properties | `moPipeline`, `moModule`, `moProperty` | slot files, `idcount`, values | `serializeCreation`, `parse`, slot save and load, `set` |
| TUIO output | `moTuio*Module`, `moOSC`, WOscLib | socket, frame number, type; packets | `start`, `stop`, `notifyData` |
| Web server | libevent | event queues, connections, buffers, resolver | the loop and its callbacks |

How they interact. A module's `update()` pushes to its output streams; a push
calls `notifyData` of every observer in the pusher's thread, which by default
sets `need_update`, starts the observer if it is stopped, and posts the trigger
of a threaded one. The main thread polls the modules in the order of the vector
and updates those that have no thread. Requests are served between two polls, on
the main thread, so they interleave with the workers but not with a poll. They
arrive through libevent's loop, HTTP connections and buffers, come from a page
that keeps its own picture of the pipeline, and are answered in JSON. What the
trackers find leaves as OSC packets over UDP.

What makes this hard: no lock protects the flags that the main thread and the
workers share; a connection is stored twice, in the reader and in the stream,
and is cut from either end; a push starts modules; a slot load deletes modules
that web streams still read; errors, signals and requests meet in one loop;
blobs are matched, lost and found again; every property may be set between two
frames; a slot may be torn by a crash; UDP loses and reorders; callbacks of
libevent delete the objects they were called for.

## The modules

Movid itself:

| Module | Models | One step is |
|---|---|---|
| `ModuleGraph` | connections, start, stop, poll, removal, slot load and web streams, without threads | a request, or one module's turn in a poll |
| `ThreadedPipeline` | the start, stop, wake-up and poll protocol of threaded modules in a chain | one access to a shared field; each thread is a stack of frames |
| `DaemonLoop` | `main()` from the options to the exit | one stage of the loop, one request, a signal |
| `ImageFilters` | formats, channels, allocation and release of the images of all filters, sources and finders | one module's turn, one request |
| `Finders` | the finger tips and the merge distance that adapts itself | one frame |
| `HuObjects` | objects registered by shape, found again, kept over a restart | one frame, one registration, a restart |
| `BlobTracker` | both trackers, sharing `id_counter` | one blob of a frame |
| `BlobIds` | what the trackers promise about ids; the abstract specification of `BlobTracker` | an id given or given up |
| `VolatileAngle` | `trackAngles` for one blob | one frame |
| `Munkres` | `mtdev_match` of bitmap_munkres, the assignment the Munkres tracker asks for | one of its steps 1 to 5 |
| `Calibration` | the calibration dialogue and its property callbacks | one frame, one `set` request |
| `PresetSlots` | saving and loading a pipeline, restarts, a crash in a save | one request, a restart, a crash |
| `Properties` | `moProperty`: types, conversions through text, copies, callbacks | one call |
| `TuioOutput` | both TUIO modules, the network, a client | one push, delivery or loss; one module of a start or stop request |
| `WebClient` | `movid.js` and `movid-draw.js` with the daemon they talk to | one user action, one answer |
| `JsonText` | cJSON: building, printing and parsing | one item |

The libraries:

| Module | Models |
|---|---|
| `EventLoop` | `event_base_loop`, queues, timers, priorities, delivery of signals |
| `EventBackends` | the tables of epoll, poll, select, /dev/poll, event ports, kqueue and Winsock select; the signal handlers of the process |
| `EventContainers` | red-black and splay trees, the heap of timers, `evbuffer` |
| `BufferEvent` | `bufferevent` with its watermarks and timeouts |
| `HttpConnection` | one HTTP connection of either direction, with Movid's MJPEG stream on it |
| `HttpFraming` | what two ends agree on: where a body ends, whether the connection goes on |
| `HttpText` | start lines, headers, URLs, HTML escapes and URI arguments |
| `DnsRequests` | the resolver's requests, nameservers and probes; the DNS server ports |
| `DnsNames` | the search through domains, `resolv.conf`, packets of both sides |
| `Rpc` | pools, calls, timeouts, hooks, registration; tagged data |
| `OscPackets` | messages, bundles, blobs as bytes; time tags |
| `OscDispatch` | bundles delivered by time; the tree of addresses and its patterns |
| `FidImages` | the thresholders and the segmenter of libfidtrack |
| `FidSymbols` | both fiducial finders over the tree of regions |
| `RwLock` | the two read/write locks of ptypes |
| `PtQueues` | message queues on timed semaphores; chains of units |
| `PtStreams` | buffered input and output streams |
| `PtContainers` | lists and text maps; reference-counted variants |
| `PtValues` | shared, reference-counted strings; dates and times |

Definitions carry the names of the functions they translate; `PROJECT.json`
gives the lines of each. An operator marked *Faulty* is a plausible mistake in
the definition that follows it; no specification uses it. It exists so that one
can see the properties fail: put it in place of that definition.

What the abstraction leaves out: pixels and positions (trackers keep positions
on a line, to have near and far blobs), floating-point values, wording and
layout, logging. What it keeps: every state change, guard, early return and
error path of the functions in the map. What comes from outside the repository
is modelled by how the code uses it: the kernel behind the backends, pthreads,
OpenCV's contours and shapes, UDP, and a TUIO client that ignores frame numbers
older than the last it saw.

## The runs

`tlc -config <cfg> <module>`. A run checks several components. Its `MC` module
has a variable `part` that says which component the behaviour is of, and that
never changes: the behaviours of the run are those of its parts, side by side.
A component whose theorems are to speak of the same definitions as the run is
extended by the `MC` module and keeps its variables, which rest in one initial
state while another part is at hand. The others are instances over the shared
variables `x1`, `x2`, ... Properties that name no part (such as `KeepsPromise`)
hold of all.

| Run | Parts, bounds and why they are enough | States | Shows |
|---|---|---|---|
| `graph` | `ModuleGraph`: a camera, an image, a Combine with two inputs that may read its own output, and one web stream, so that two inputs on one stream, a cycle and a rejected format occur. `ImageFilters`: four pipelines with 17 of the 28 classes; all others but the distance transform declare the same as one of these. `TuioOutput`: two ids, two bundles in flight, both versions, every order and threading | 200,949 | observers and inputs agree, no connection touches a deleted module, formats and buffers agree, the socket of a TUIO module is open when it is used; closed streams are freed, notified modules updated, gone blobs disappear |
| `threads` | camera and filter with threads and a display added later; image, self-stopping threshold and display without threads; a video, started again while it runs | 460,728 | one thread per module, no failed assertion, no lost wake-up or frame, a stop stops everything, only late modules are started by a push |
| `progress` | the chain of camera and filter and the image chain; the daemon with every kind of preset, two slots and two requests per event loop; hands with four convexity defects | 33,638 | `stop` terminates, pushes are read, the error loop ends, errors are logged, signals end the program, the merge distance settles |
| `channels` | `EventLoop` with two events in use and two priorities; `HttpConnection` of both directions with three pieces of input; `PtQueues` with two posters, two takers or an owner, a limit of two and three messages, and a chain of three units | 289,619 | handlers meet the state they assert, a request is called back once, semaphores match the queue; signals are served, silent peers dropped, senders and waiters return |
| `touches` | two turns of a blob each way; a greedy and a Munkres tracker, two blobs per frame, ages 2 and 3; matrices up to 3 x 3; calibrations of 0 to 3 points and durations 0 to 2; four contours, three registrations and a restart | 912,871 | the angle is the real one, ids are unique and keep their object, the trackers implement `BlobIds`, the assignment is a cheapest one, registered objects are found, the calibration holds |
| `exchanges` | `PresetSlots` with two modules of the classes Tuio and Tuio2, one slot and four edits; `WebClient` with three modules, five actions (a slot load is one) and three requests under way; `JsonText`, `Properties`, `OscPackets`, `OscDispatch`, `DnsRequests` with two nameservers, `DnsNames` | 1,392,788 | what is written by one party is read by the other; resolver requests are answered once and never forgotten |
| `libevent` | the seven backends and the signal table with five events on three descriptors, one of them for both directions; containers of six items; buffers of three bytes; `HttpFraming`, `HttpText`, `Rpc` | 251,741 | backends watch what was added, containers hold their items, texts and bodies are understood, calls are answered once, back pressure loses nothing |
| `vendored` | small images, of sizes that are no multiples of a tile too; trees of 5 and 6 regions, with up to two saturated regions or one doubled link; streams of four bytes with a buffer of two; lists of five items and keyed arrays; strings of two threads; years around leap years and centuries; both locks with four threads | 1,243,971 | fiducials are read, ptypes values are values, the locks are sound |
| `threads_eager` | a threaded image before a threaded filter | | **violated**: finding 1 |
| `daemon_slot` | a slot whose file is missing | | **violated**: finding 2 |
| `tracker_stable` | the trackers of `touches` | | **violated**: finding 3 |
| `filters_mask` | a camera and a mask | | **violated**: finding 4 |

A conjunction such as `OscMessagesArrive` or `ResolverGoesOn` collects what one
party promises another; the conjuncts are stated, each with its comment, in the
component's module.

Bounds are constants that appear in guards (`MaxRequests`, `MaxId`, `MaxBlobs`,
`MaxPoints`, `MaxEdits`, `MaxFlight`, `Bound`, ...). `Slots` is the number of
threads of one module that can exist at a time: two, so that a second one can
exist if the code lets it (one in `progress`, whose chains are among those, or
part of those, for which `threads` shows that there is never a second). Ages
above `max_age + 1` are not told apart by the tracker, so the age needs no
bound. The `graph` instance has no filter that stops itself and no stream that a
destructor frees (`Checked` and `Frees` are empty); these paths of `ModuleGraph`
are covered by the proofs, the first also by the image chain of
`ThreadedPipeline`. The nameservers are a symmetry set; no liveness is checked
in that run. Deadlock is checked in every run; a part that may come to its end
has an explicit step for it.

Some modules also state, as a record of what was found while modelling,
properties that the code does not have; no run checks them. They are named under
*Findings*.

### Fairness

- `graph`: the main loop goes on (weak fairness of the sweep's steps and of a
  slot load in progress, not of the loop that logs errors), and the timer of an open web stream fires again and
  again between polls (strong fairness of its handler). For TUIO the loop over
  the modules goes on, a started source pushes a list per frame, and the network
  does not lose every bundle. The variable `frame` alternates so that pushing an
  unchanged list counts as a step.
- `progress`: the main thread and every worker that can run is scheduled; a
  started pipeline is polled again and again although requests come in between
  (strong fairness of `pipeline_poll`). `main()` of the daemon runs, and a port
  in use becomes free. The finder gets frames.
- `channels`: the loop runs and time passes; a timeout of a connection fires and
  the application replies; the threads of a queue that are in the middle of an
  operation and the units of a chain are scheduled, and takers come back; nothing
  makes an owner call `run()` again after `MSG_QUIT`.

No fairness is assumed of requests, signals, crashes, peers or users.

## What is proved

TLAPS checks 15122 obligations. A theorem holds for every value of the constants
that satisfies the named assumption of its module; the runs evaluate those
assumptions for their constants, in the component's `ASSUME` or as
`TheoremsApply` in the `MC` module. A leaf that names a prover twice is tried
again with the longer limit when the first attempt runs out of time.

- **Connections** (`Graph_proofs`), from `GraphAssumption` (module and web
  stream addresses differ, an object declares finitely many inputs, a web stream
  exactly input 0, the special pointers are no streams): `TypeCorrect`,
  `ObserversAlwaysMatch`, `ConnectionsStayAlive`, `LostOnlyAcrossLoads` and
  `OnlyStartedUpdate`, for any number of modules, inputs, outputs and formats.
  The inductive invariant `IInv` adds to the properties themselves that inputs
  read modules of the pipeline, that an object not in use has no inputs (a new
  object at the same address must not find old connections), and that the sweep
  is empty outside a poll. That the observers match the inputs is a statement
  about cardinalities; the lemmas `DifferInOne` to `WriteKeepsMatch` reduce one
  write of an input to adding or taking one from a count.
- **Worker threads** (`ThreadedPipeline_proofs`), from `ChainAssumption`:
  `OneThreadPerModule`, `ThreadIsAlwaysSet`, `StopAlwaysStopsEverything` and
  `NothingIsEverLost`, for chains of any length. The chains meant
  (`OrderedChain`) give threads only to modules that are there from the
  beginning, do not notify themselves in `start()` and do not stop themselves;
  what listens to a threaded module comes after it in the vector, and no start
  request comes while threads run. Each of these is needed: finding 1, and
  the second and fourth of the list after it, are what happens without. No lock
  protects the flags, so the invariant says instead what each thread may be
  executing at each stage of a request (`FramesOK`, with `May`): in a start
  request workers only wait in their loops; in a poll the main thread starts and
  stops no thread. It further says that the loop is the outermost function of a
  worker (`LoopIsLast`), that a frame below the top waits for a return
  (`CallersWait`), that the thread a module points at is the only one it has
  (`ThreadsOK`), what a sweep has done up to the module it is at (`StartOK`,
  `StopOK`), and that a worker that saw no update and will wait is triggered, or
  about to be, if one arrived since (`WakeupOK`). The heart of it is
  `WorkersAreLater`: while a stop sweeps the vector, every worker that still
  runs belongs to a module further on, and so does what it can notify; so no
  module already stopped is started again. `NextIInv` has a lemma per action.
- **Locks** (`RwLock`): `CondvarLockIsSound`, `WritersExcludeOthers` and
  `SleepersAreAlwaysWoken`, of the lock on condition variables, for any finite
  set of threads. The counter of the lock is the number of readers that hold it
  (`LocksCountsHolders`), again a statement about cardinalities; that a sleeper
  has someone to wake it is inductive only together with it. The Windows lock is
  only model-checked, with four threads: writers are alone until a reader has
  come in between the last reader's decrement and its reset of the event
  (`Slipped`), for which it takes three threads.
- **Images** (`ImageFilters`), for any number of modules of the modelled classes.
  `FormatsAlwaysHold`, from `FormatAssumption` (every connection is one that
  `isStreamValid` accepts; the order is free and cycles are allowed): the
  invariant `FormatInv` adds that a filter's buffer fits the output it is going
  to leave by (`BuffersFit`), which is where a filter that changes from one
  output to the other could go wrong. `UpdatesAlwaysReadLiveImages`, from
  `OrderAssumption` (besides, a module stands after those it reads; the mask of
  finding 4 is excepted): `ReadInv` adds that a buffer has the channels of the
  images that still come (`BuffersMatch`), so that only a filter without a
  buffer allocates one; that an image that lives is the buffer of its owner
  (`LiveAreOwned`); and that a filter that was told of an image has it and a
  buffer (`AskedCanRead`) and is reached before the poll ends (`AskedIsAhead`),
  so that no request finds it waiting. The classes enter by `ClassOK`, what they
  have in common, proved of each of the 28.
- **Queues** (`PtQueues`), from `QueueAssumption` (finitely many threads, an owner
  that is no poster, the limit a number): `SemaphoresAlwaysMatch` and
  `OwnerAlwaysSeesOrder`, for any number of posters and takers, any limit and
  any number of messages. The first counts threads: a thread that has passed a
  semaphore and not yet touched the list stands for one message or one place
  (`CountsStay`, `DoingMoves`). The second needs `HoldersOK`, whose message a
  poster or taker holds, and `OrderOK`: what is done, what the owner
  holds, what is in the list and what a poster is about to link come in
  this order.
- **Strings** (`PtValues`), from `StringAssumption` (finitely many strings and
  threads): `StringsAreAlwaysValues`, for strings of any length and any number of
  holders of a buffer. What a thread read of a count may be out of date when it
  writes; `Tested` says what stays true of it: a string that was alone in its
  buffer still is, since only its own thread could copy it, while one that was
  shared may be alone by now. A lemma per operation (`AssignGives`,
  `ConcatGives`, `InsGives`, `DelGives`) says that with such a count it gives the
  wanted text in a buffer that nobody else holds, and `MoveKeeps` that the
  strings left behind keep their text and their count.
- **Dates** (`PtValues`), from `TimeAssumption` (the calendar starts in a year
  from 1 to 9999, the times are those of a day): `DatesAreAlwaysRight`, on every
  day up to 31 December 9999, where the run turns the calendar for some years
  only. The invariant `CalendarIsKept` says what a page of the calendar means: the
  day and month are those of a valid date, the day of the year follows from the
  lengths of the months, and the datetime counts the days of the whole years
  before. Turning a page keeps it; the divisions of `decodedate` by 400, 100, 4
  and 1 years are then shown to find the year, and its guess of the month (29
  days each) to be at most one too late.
- **The page** (`WebClient`), from `PageAssumption` (the answers keep the order of
  the requests, as over one connection): `QuietPageIsAlwaysComplete`, for any
  number of modules, actions and requests under way, slot loads that stop in the
  middle of a preset included. The invariant `PageInv`
  says that a change whose callback is to come or a status still to be answered
  is under way (`Owed`), or else that the last status under way tells the truth
  (`Told`) and, if there is none, the page shows the pipeline already (`Shows`);
  answers that overtake each other would break it.
- **Ids** (`Touches_proofs`): `TrackersOwnTheirIds` and `IdsAreNotReused` of
  the abstract specification `BlobIds`, for any number of trackers and ids;
  `id_counter` is incremented by the atomic `pt::pincrement`.
- **Trackers** (`Touches_proofs`), from `BlobAssumption`:
  `TrackersKeepPromise`, that `BlobTracker` implements `BlobIds`, step by step;
  from it `BlobIdsAreUniqueForLife`, that ids of blobs are unique and not given
  again; `BlobsAreAlwaysFollowed`, that what `update` passes on was detected in
  `min_age` frames and is not missing for too long, and that lost blobs never
  outgrow the matrix of `mtdev_match`; and, of the greedy tracker,
  `GreedyKeepsObjects`, that an id does not pass to another recognised object.
  The assumption only says what a detection and an age are. The
  invariant has two layers: `IdsInv` says which ids may be where in the middle
  of a frame (the refinement needs no more), `AgesInv` how ages relate the old
  list, the new one and what was passed on. The Munkres tracker of the model
  uses some optimal matching; that `mtdev_match` computes one is what `touches`
  checks of `Munkres`.
- **Angles** (`Touches_proofs`): `AngleIsReconstructed`, for every `Speed` and
  `max_rotation_speed` with `Speed <= max_rotation_speed` and
  `Speed < 90 - max_rotation_speed`, and turns of any length. The invariant adds
  that the angle of the box plus 90 degrees for each fall is the real angle.
- **Calibration** (`Graph_proofs`), from `CalibrationAssumption` (touches are
  told apart from other points; sizes and durations are numbers):
  `CalibrationIsSound`, for grids of any size, the empty one included, any
  duration and edits at any time. The theorem covers the ways the process may
  end, each in its one case: a screen point out of range only after an edit of
  the points or with an empty grid, a NULL `current_touch` only with duration 0,
  the assertion of `triangulate()` only after an edit or for a triangulation that
  was asked for before the points changed again. The strengthening `LastIsFinished` says that the last point measured is
  of the touch that finished last; without it the next point could be of the
  same touch.
- **TUIO** (`Graph_proofs`): `TuioNeverReadsNull`, for any set of ids and either
  order of the source and the TUIO module in the vector. The invariant follows
  a start or stop request through the vector (`Sweeps`), says that it has
  changed the modules it has reached (`ReachedAreChanged`), and that between two
  requests a started source finds the socket open unless the module was added
  late (`SocketIsOpen`).

Only model-checked:

- liveness, since fairness and ENABLED are outside the prover;
- what recursive definitions compute, which would need an induction over data:
  loading a slot (a fold over its lines), text and packet formats, containers,
  images, the assignment of `Munkres`;
- modules with RECURSIVE operators, in which the prover has no SMT backend;
- what counts over a sum of data: that chained units deliver what was put in
  (`PtQueues`), and that the queues of the event loop agree with its flags;
- `StartsAreInOrder` of `ThreadedPipeline`, which is about the order of calls
  within one chain, and the invariants of `Finders`, `HuObjects`,
  `PresetSlots`, `Rpc` and of the libraries but for the lock, the queues, the
  strings and the dates.

## Findings

1. `threads_eager`: `needUpdate` asserts `thread != NULL` (`moModule.cpp:391`).
   A threaded image notifies itself in `start()`; its worker can start the next
   threaded module before `pipeline->start()` reaches it and starts it again.
   The first thread is then orphaned, and fails the assertion after a `stop()`.
2. `daemon_slot`: `moPipeline.h:62` says that `getLastError` resets the error
   state. It does not reset `last_internal_error`, so after loading a slot that
   does not exist and starting, the error loop of `main()` does not end. (The
   slots of `progress` exist, and there the loop ends.)
3. `tracker_stable`: a blob found again in the frame after its age reached
   `max_age` gets the age `max_age + 1` and is never passed on again, although
   line 182 of `moAbstractBlobTrackerModule.cpp` says that all blobs that are
   old enough are.
4. `filters_mask`: `moMaskModule.cpp:58` asserts that the output buffer exists.
   After a stop and a start, a mask file that is set before the first new image
   makes `update()` apply the mask to the old image without a buffer.

Seen while modelling, without a run of their own:

*Movid.*

- `web_pipeline_quit` sets `want_quit` to false (`movid.cpp:997`): it ends
  nothing, and undoes a signal not yet acted on. `DaemonGoesOn` excepts it.
- A push starts a stopped observer (`moModule.cpp:372`) also after a stop
  request, if the observer precedes its threaded source in the vector.
- A second start of an open video fails `video == NULL`
  (`moVideoModule.cpp:49`): `web_pipeline_start` does not test whether the
  pipeline runs. `CaptureIsClosed` excepts exactly this start (`RepeatedStart`).
- A threshold with a thread that stops itself joins its own thread
  (`moThresholdModule.cpp:109`).
- `moFactory::cleanup` leaves its `instance` dangling; `moDaemon::detach` writes
  the pid file in the parent.
- Combine and BinaryMask read the image of their second input that a stop
  released, if the first input delivers earlier after the next start; a module
  that precedes an Image in the vector reads the image that a change of the file
  name released. The background of a BackgroundSubtract is not taken again after
  a restart; a region of interest is never reset.
- Turns of 44 to 46 degrees between two frames are below the default
  `max_rotation_speed` and lose a quarter turn. The Munkres tracker matches
  blobs and objects without regard to their kind.
- Hu objects: a contour is saved without its holes, so a comparison of holes fails
  after a restart; setting `register` twice before a contour answers it, or
  changing the flags after a registration, also loses an object. `MatchesAreFound`
  excepts the three.
- Calibration: `update` asserts an input that a request may have cut since the
  module was notified (464); a triangulation that is due asserts lists of equal
  size, which an edit may have changed (257); `duration_per_point` 0 reads a
  NULL `current_touch` (333); `current_touch` points at a local variable (309);
  edits may move `active_point` past the screen points (359). `Calibration`
  reaches the second, third and fifth as values of `stopped`, and lets what is
  read through `current_touch` after its call be anything. That a grid has
  two rows and two columns at least is left to the slider of the page, so the
  grid may be empty.
- Slots: a value with a space cannot be loaded; a module with two inputs on one
  stream gets back only the first; after a restart, new ids may equal loaded
  ones, and the slot saved then cannot be loaded; a torn slot may load without
  an error. `RoundTrip` and `TornIsPrefix` state exactly this much. Ids are unique
  per class only: Tuio25 is number 5 of class Tuio2 and number 25 of class Tuio,
  and a slot with both cannot be loaded.
- Properties: point lists are not freed; `asDouble` of one fails its assertion;
  a get request for a property that does not exist creates it; `min` and `max`
  are not enforced by `moProperty`.
- TUIO: the modules override `notifyData` and are not started by a push when
  added late, so the socket is NULL; version 1 keeps the type of its first blob
  after a reconnection; version 2 sends nothing for an empty list, so the last
  blob stays; its `ids_parent.unique()` (166) removes only neighbouring
  duplicates. `NeverReadsNull` and `GoneDisappears` name the first three as
  exceptions, and each of the exceptions is needed.
- The page: an answer older than a deletion recreates the widget if answers
  overtake each other; a failed `stats` request ends the polling. The finder of
  finger tips compares pixels as signed characters.

*libevent.*

- An event that was activated by its timeout and is added again with one before
  its callback ran waits for the timeout only, not for its descriptor
  (`event.h:596`; `AddedWaitsForIO`).
- The length that is added to a reply "for persistent connections to work"
  (`http.c:483`) is also added to a streamed one, whose body is still to come
  (`PersistentConnectionsWork`). The end of the input counts as a complete
  request. Two line breaks in a row in a header value end the headers
  (`http.c:1370`).
- Once one direction of a two-way event that is not persistent has fired, kqueue
  keeps watching the other (`kqueue.c:290`, `LeftBehind`).
- The probe of a nameserver may be retransmitted to another one (`evdns.c:2001`,
  `ProbesGoToTheirServer`); resuming after `evdns_clear_nameservers_and_suspend`
  may use a freed server (`evdns.h:288`, `SuspensionIsSafe`); the assertion of
  `server_port_free` (`evdns.c:1848`) does not hold
  (`NothingPendingWhenFreed`). `evdns.h:125` says "greater than `ndots`" where
  the code tests for at least. Adding a domain during a search shifts the
  indices of that search. Without a nameserver, or with requests that wait while
  none is in flight, calls may use a null pointer or fail an assertion (`Limbo`).
- A call of the RPC pool may wait while a connection is idle (`evrpc.c:576`,
  `NoneWaitsForAnIdleConnection`); the assertion at `evrpc.c:88` fails if a name
  was registered twice (`FreeingSucceeds`); unregistering frees an RPC whose
  calls are pending. The timeout of a call whose connection could not be made
  (`evrpc.c:542`), or that was sent when its pool was freed (409-435), stays
  pending and fires on freed memory.
- The loop over writable sockets of `win32.c` wraps around at the number of
  sockets with errors (line 412).
- Two bases that handle one signal restore each other's handlers; a failed
  `sigaction` leaves a freed `sh_old`.

*The others.*

- WOscLib: the arrays of a container do not grow in time (`ArraysGrow`);
  `GetAddress` leaves out the slashes between names (`ListedAddressesWork`); the
  return address of a malformed bundle is deleted twice (`WOscReceiver.cpp:174`);
  a list in a pattern also stands for nothing; a second blob of a message is
  written behind its array;
  `=+` stands for `+=` in `WOscTimeTag.cpp:325` (`AddsAndStores`).
- libfidtrack: an adjacency may be listed twice (`segment.cpp:293`: the entry
  moved into the gap is not looked at), and then the symbol is not reported; a
  region that lost a neighbour to a full list may be reported with what is left
  of its tree. In the Bernsen thresholder a pixel that is a new minimum is not
  considered for the maximum (`tiled_bernsen_threshold.cpp:86`), and a last
  column or row of tiles less than half a tile wide has no measures of its own
  (185-200; behind the last row the memory past the array is read). Black
  specks may change what the finder of the 120 symbols reads.
- ptypes: the Windows lock breaks with three threads (`Slipped`;
  `doc/async.rwlock.html:60` has no such limit); emptying a queue may wait for ever for a message that a
  getter took, and so may an owner that posts to its own full queue and a send
  after `quit`; a unit that throws blocks a predecessor with
  more to write than the pipe holds (`Stranded`); `del` by key puts an empty string
  into an array where `doc/variant.arrays.html:67` says it removes the element, and `ains`
  behind a key breaks the search for keys;
  `v = get(v, key)` reads an item of an array it has just released;
  `ins(s, s, at)` reads a moved buffer; a flush after seeking back, and a short
  write, misplace data.

## Not modelled

- Connect requests among running workers: in `ThreadedPipeline` the connections
  of a module are made when it is added, and a stream has one observer
  (`observers` changing while a worker iterates them, `moDataStream.cpp:84`).
  Several observers per stream are in `ModuleGraph` only.
- Images and lists that a `stop` or the next frame frees while an observer in
  another thread reads them: `ImageFilters` has no threads. The property map,
  read by workers while requests set values.
- The relations between hands and fingers of TUIO 2, `settext` and the `config`
  command of presets.
- Justify and Dump (no state), the GUI that modules draw and the reports they
  give, the panel of properties and the layout of the page.
- Daemonisation, logging, the factory; networking, processes, character sets and
  MD5 of ptypes; the thresholder of
  libfidtrack with one fixed value; XgetOpt; IPv6 and reverse lookups; what OpenCV computes.

## Plan

1. `ThreadedPipeline`: connect requests among running workers, several observers
   of a stream, and the life of pushed data (who may read a buffer, and when
   `stop` or the next frame frees it), composed with `ImageFilters`.
2. The relations of TUIO 2; `settext` and `config` in presets.
3. Proofs: the callbacks of `Rpc`.
