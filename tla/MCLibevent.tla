------------------------------ MODULE MCLibevent ------------------------------
(*****************************************************************************)
(* The libevent that the web server stands on: its backends, containers and  *)
(* buffers, HTTP, RPC and tagging.                                           *)
(*****************************************************************************)
EXTENDS Integers, Sequences, TLC

CONSTANTS None, NULL, CR, LF, Garbage

VARIABLES
  part,  \* the part at hand; it never changes
  \* the state of that part:
  x1, x2, x3, x4, x5, x6

\* Events on a shared and on single descriptors, in every direction.
EventFd == [e1 |-> 0, e2 |-> 0, e3 |-> 1, e4 |-> 2, e5 |-> 0]
EventDirs == [e1 |-> {"r"}, e2 |-> {"w"}, e3 |-> {"r", "w"}, e4 |-> {"w"},
              e5 |-> {"r", "w"}]

\* Two signals that are handled, one with two events, and one that cannot be.
SignalOf == [a |-> 1, b |-> 1, c |-> 3, d |-> 2]

\* Tags of one and of two bytes; numbers and strings at the edges of widths.
SomeStrings == {<<>>, <<7>>} \cup {[i \in 1..n |-> 200] : n \in {15, 16}}

\* Percent, ampersand, plus, a digit, a letter and a byte above 127.
SomeChars == {37, 38, 43, 50, 66, 233}

\* Words and characters of requests, responses, URLs and pages.
SomeUris == {<<>>, <<"/">>, <<"/", ":">>}
SomeReasons == {<<>>, <<"OK">>, <<"Not", " ", "Found">>}
SomeValues ==
  {<<>>, <<"v">>, <<" ", "v">>, <<"v", "\n", " ", "w">>, <<"v", "\n", "w">>,
   <<"v", ":", "w">>, <<"\n", " ", "w">>, <<"v", "\n", "\n", " ", "w">>}
SomeUrls ==
  {<<"http://", "h">>, <<"http://", "h", "/">>,
   <<"http://", "h", ":", "81", "/", "f">>,
   <<"http://", "h", "/", "f", ":", "x", "/", "g">>, <<"http://", "h", ":", "0">>,
   <<"http://", "h", ":", "65536">>, <<"ftp://", "h">>}
Number == ("0" :> 0) @@ ("81" :> 81) @@ ("65536" :> 65536)
SomeHtml ==
  {<<>>, <<"x">>, <<"<", "x", ">">>, <<"&", "lt", ";">>, <<"<">>,
   <<"quote", "&", "apostrophe">>}

Backend == INSTANCE EventBackends WITH
  backend <- x1, t <- x2, inserted <- x3, active <- x4, stray <- x5,
  Events <- {"e1", "e2", "e3", "e4", "e5"}, Fds <- 0..2, EvFd <- EventFd,
  EvDirs <- EventDirs, Persist <- {"e1", "e3"},
  Backends <- {"epoll", "poll", "select", "devpoll", "evport", "kqueue", "win32"},
  MaxChanges <- 1, EVENTS_PER_GETN <- 2, MaxQueued <- 1,
  base <- x1, handler <- x2, wanted <- x3, SignalEvents <- {"a", "b", "c", "d"},
  Sig <- SignalOf, Signals <- 1..3, Uncatchable <- {2},
  Handlers <- {"h1", "h2"}
Held == INSTANCE EventContainers WITH
  rb <- x1, sp <- x2, held <- x3, Keys <- 1..6, Nil <- 0, heap <- x1,
  ev_timeout <- x2, Timers <- 1..6, Times <- {0, 1}, buf <- x1, fifo <- x2,
  Bytes <- {1}, MinLength <- 2, PrintSpace <- 1, EVBUFFER_MAX_READ <- 2,
  MaxAdd <- 2, MaxHeld <- 3
BufEv == INSTANCE BufferEvent WITH
  bufev <- x1, MaxLength <- 2
Framing == INSTANCE HttpFraming WITH
  req <- x1, wire <- x2, client <- x3, Minors <- {0, 1},
  Connections <- {None, "close", "keep-alive"},
  Styles <- {"reply", "page", "stream"}, MaxBody <- 3
Http == INSTANCE HttpText WITH
  sent <- x1, received <- x2, url <- x3, split <- x4, html <- x5, page <- x6,
  Types <- {"GET", "POST", "HEAD"}, Uris <- SomeUris, Reasons <- SomeReasons,
  Codes <- {"200", "404"}, Minors <- {0, 1}, Keys <- {"k", "l"},
  Values <- SomeValues, MaxHeaders <- 2, Urls <- SomeUrls, Html <- SomeHtml,
  args <- x1, query_uri <- x2, parsed <- x3, Chars <- SomeChars,
  ArgNames <- {<<98, 99>>}, MaxValue <- 3, MaxArgs <- 2
Remote == INSTANCE Rpc WITH
  items <- x1, buf <- x2, read <- x3, Tags <- {127, 128},
  Numbers <- {0, 15, 16, 65536}, Strings <- SomeStrings, MaxItems <- 2,
  pool <- x1, server <- x2, Calls <- {"x1", "x2", "x3"},
  Connections <- {"c1", "c2"}, Timeouts <- BOOLEAN,
  Requests <- {"r"}, rpc <- x1, callbacks <- x2, hooks <- x3, pending <- x4,
  passed <- x5, state <- x6, Names <- {"x", "y"}, Rpcs <- {"a", "b", "c"},
  Hooks <- {"h", "i"}, MaxPassed <- 2

\* The variables that a part of fewer variables leaves at 0.
Rest1 == <<x2, x3, x4, x5, x6>>
Rest2 == <<x3, x4, x5, x6>>
Rest3 == <<x4, x5, x6>>
Rest5 == <<x6>>
Zero5 == x6 = 0
Zero3 == x4 = 0 /\ x5 = 0 /\ Zero5
Zero2 == x3 = 0 /\ Zero3
Zero1 == x2 = 0 /\ Zero2

all == <<part, x1, x2, x3, x4, x5, x6>>

PartInit ==
  \/ part = "backends" /\ Backend!Init /\ Zero5
  \/ part = "signals" /\ Backend!SignalInit /\ Zero3
  \/ part = "trees" /\ Held!TreeInit /\ Zero3
  \/ part = "heap" /\ Held!HeapInit /\ Zero2
  \/ part = "evbuffer" /\ Held!BufferInit /\ Zero2
  \/ part = "bufferevent" /\ BufEv!Init /\ Zero1
  \/ part = "framing" /\ Framing!Init /\ Zero3
  \/ part = "httptext" /\ Http!TextInit
  \/ part = "uri" /\ Http!QueryInit /\ Zero3
  \/ part = "tagging" /\ Remote!TagInit /\ Zero3
  \/ part = "rpc" /\ Remote!PoolInit /\ Zero2
  \/ part = "registry" /\ Remote!RegistryInit

PartNext ==
  /\ UNCHANGED part
  /\ \/ part = "backends" /\ Backend!Next /\ UNCHANGED Rest5
     \/ part = "signals" /\ Backend!SignalNext /\ UNCHANGED Rest3
     \/ part = "trees" /\ Held!TreeNext /\ UNCHANGED Rest3
     \/ part = "heap" /\ Held!HeapNext /\ UNCHANGED Rest2
     \/ part = "evbuffer" /\ Held!BufferNext /\ UNCHANGED Rest2
     \/ part = "bufferevent" /\ BufEv!Next /\ UNCHANGED Rest1
     \/ part = "framing" /\ Framing!Next /\ UNCHANGED Rest3
     \/ part = "httptext" /\ Http!TextNext
     \/ part = "uri" /\ Http!QueryNext /\ UNCHANGED Rest3
     \/ part = "tagging" /\ Remote!TagNext /\ UNCHANGED Rest3
     \/ part = "rpc" /\ Remote!PoolNext /\ UNCHANGED Rest2
     \/ part = "registry" /\ Remote!RegistryNext

\* These parts may come to their end.
Ends == part \in {"backends", "signals", "evbuffer", "bufferevent",
          "framing", "httptext", "uri", "tagging", "rpc", "registry"} /\ UNCHANGED all

PartSpec == PartInit /\ [][PartNext \/ Ends]_all
-------------------------------------------------------------------------------
(* What the next wait of a backend watches for is what the events that     *)
(* were added and not deleted want, whatever one-shot, merged and deferred *)
(* changes the kernel interface needs; kqueue alone may keep watching one  *)
(* direction of a two-way event that is not persistent, once the other has *)
(* fired (kqueue.c:290).  A dispatch of the backends other than Winsock's  *)
(* activates for writing only events whose descriptor was writable.  Every *)
(* signal the loop has no event for has the handler the application gave   *)
(* it last.                                                                *)
BackendsWatchTheEvents ==
  /\ part = "backends" => Backend!WatchesInserted /\ Backend!WritesAreReady
  /\ part = "signals" => Backend!HandlersComeBack

(* The containers hold what was put in and not taken out: the red-black    *)
(* tree keeps its balance and both trees the search order, min_heap_top is *)
(* a timer that is due first after erasures from the middle, and an        *)
(* evbuffer is the queue of its bytes, in which evbuffer_find finds the    *)
(* first place.                                                            *)
ContainersHoldTheirItems ==
  /\ part = "trees" => Held!IsRedBlack /\ Held!TreesHoldTheKeys
  /\ part = "heap" => Held!IsMinHeap
  /\ part = "evbuffer" => Held!BufferIsAQueue /\ Held!FindsTheFirst

(* Back pressure never loses a connection: reading that is enabled waits   *)
(* for its event or for the callback that adds it again, output that waits *)
(* has its event, and input never passes the high watermark.               *)
BufferedInputIsServed ==
  /\ [](part = "bufferevent" => BufEv!WaitingIsServed)
  /\ [][part = "bufferevent" => BufEv!UpToTheMark]_all

(* Who reads finds what was written: the client the body of a reply and    *)
(* whether the connection stays, except of a reply streamed to a kept 1.0  *)
(* connection, whose headers promise an empty body (http.c:483); the peer  *)
(* the first line and headers, up to a value with two line breaks in a     *)
(* row, which ends them (http.c:1370); the URL, the arguments, the page    *)
(* its text and evtag_unmarshal the items.                                 *)
ReadersFindWhatWasWritten ==
  /\ part = "framing" => Framing!FramingAgrees
  /\ part = "httptext" => /\ Http!MessagesAreUnderstood /\ Http!UrlsAreSplit
                          /\ Http!EscapedIsText
  /\ part = "uri" => Http!QueriesArrive
  /\ part = "tagging" => Remote!ItemsComeBack

(* Each RPC is called back once, by the request or the connection that     *)
(* carries it, whatever answer, timeout or failure comes first, a          *)
(* connection that cannot be made and a pool that is freed included, until *)
(* a timeout fires that those two leave behind (evrpc.c:542, 409-435); and *)
(* the HTTP server calls into no RPC that was freed.                       *)
CallsAreAnsweredOnce ==
  /\ part = "rpc" => Remote!CallsAreServedOnce
  /\ part = "registry" => Remote!CallbacksAreRegistered
===============================================================================
