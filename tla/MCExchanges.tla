----------------------------- MODULE MCExchanges ------------------------------
(*****************************************************************************)
(* What Movid exchanges with files, the web page and its peers: preset       *)
(* slots, the text of properties, the JSON answers and the page that shows   *)
(* the pipeline, the OSC messages that TUIO travels in (WOscLib), and the    *)
(* resolver of libevent.                                                     *)
(*****************************************************************************)
EXTENDS Integers, Sequences, TLC

CONSTANTS None, Freed, ns1, ns2, Names, Texts, Values, TagParts,
  ReceivedPackets

VARIABLES
  part,  \* the part at hand; it never changes
  \* the state of that part:
  x1, x2, x3, x4, x5, x6, x7, x8, x9

\* resolv.conf files.
Line(word, domains, ndots) ==
  [word |-> word, domains |-> domains, ndots |-> ndots]
SomeFiles ==
  {<<>>, <<Line("search", <<"a", "b">>, 0), Line("options", <<>>, 2)>>,
   <<Line("options", <<>>, 0), Line("domain", <<"b">>, 0)>>,
   <<Line("nameserver", <<>>, 0)>>}

\* The nameservers are interchangeable.
Servers == Permutations({ns1, ns2})

Slots == INSTANCE PresetSlots WITH
  idcount <- x1, modules <- x2, file <- x3, saved <- x4, intact <- x5,
  own <- x6, loaded <- x7, foreign <- x8, edits <- x9, Input <- {0, 1},
  Slot <- {1}, Given <- {"two words", "0.1234567"}, MaxModules <- 2,
  Names <- 1..3, Classes <- {"Tuio"}, Counts <- 1..4, Skips <- {}, MaxEdits <- 4
Named == INSTANCE PresetSlots WITH
  idcount <- x1, modules <- x2, file <- x3, saved <- x4, intact <- x5,
  own <- x6, loaded <- x7, foreign <- x8, edits <- x9, Input <- {0},
  Slot <- {1}, Given <- {}, MaxModules <- 2, Names <- {25},
  Classes <- {"Tuio", "Tuio2"}, Counts <- {1, 5, 6, 25, 26},
  Skips <- {5, 25}, MaxEdits <- 3
Page == INSTANCE WebClient WITH
  server <- x1, net <- x2, gui <- x3, actions <- x4, MaxModules <- 3,
  Slot <- 1, MaxActions <- 5, MaxFlight <- 3, Ordered <- TRUE
Json == INSTANCE JsonText WITH
  root <- x1, added <- x2, fmt <- x3, text <- x4, size <- x5, parsed <- x6,
  Strings <- Texts, Numbers <- {50000000, 12345678, 3}, MaxItems <- 3
Props == INSTANCE Properties WITH
  props <- x1, heard <- x2, copied <- x3, clone <- x4, Names <- {"x"},
  Callbacks <- {"c"}
Packet == INSTANCE OscPackets WITH
  msg <- x1, bundle <- x2, sent <- x3, got <- x4, Ints <- {1},
  Floats <- {1065353216}, Strings <- {<<97, 98, 99>>, <<97, 98, 99, 100>>},
  Blobs <- {<<0, 35>>, <<1, 2, 3, 4>>}, Addresses <- {<<47, 97, 98, 99>>},
  Times <- {300}, MaxArgs <- 2, MaxElements <- 2, little <- x1,
  time_tag <- x2, other <- x3, net <- x4, sum <- x5, Byte <- 2,
  TagBytes <- 4, Clock <- {2, 4, 5}
Osc == INSTANCE OscDispatch WITH
  m_children <- x1, m_methods <- x2, broken <- x3,
  Containers <- {"root", "c", "d"}, root <- "root", Methods <- {"m"},
  Names <- {<<97>>, <<97, 98>>}, Parts <- TagParts, Capacity <- 2,
  MaxDepth <- 2, MaxEntries <- 5, arrived <- x1, r <- x2,
  Packets <- ReceivedPackets, MaxPackets <- 3, MaxTime <- 4
Dns == INSTANCE DnsRequests WITH
  d <- x1, Ns <- {ns1, ns2}, Users <- {"u"}, Ids <- 1..2, num_domains <- 1,
  global_max_requests_inflight <- 1, global_max_reissues <- 1,
  global_max_retransmits <- 1, global_max_nameserver_timeout <- 0,
  Suspends <- TRUE, port <- x1, Requests <- {"r1", "r2", "r3"}
Retry == INSTANCE DnsRequests WITH
  d <- x1, Ns <- {ns1, ns2}, Users <- {"u"}, Ids <- 1..2, num_domains <- 1,
  global_max_requests_inflight <- 1, global_max_reissues <- 0,
  global_max_retransmits <- 1, global_max_nameserver_timeout <- 1,
  Suspends <- TRUE, port <- x1, Requests <- {"r1", "r2", "r3"}
Name == INSTANCE DnsNames WITH
  question <- x1, answers <- x2, packet <- x3, parsed <- x4,
  Labels <- {<<1>>, <<2, 3>>}, MaxName <- 2,
  Addresses <- {<<9, 8, 9, 9>>, <<8, 8, 8, 8>>}, MaxAnswers <- 2,
  MAX_LABELS <- 3, MAX_ADDRS <- 3, Limit <- 64, global <- x1, state <- x2,
  lookup <- x3, changes <- x4, Lookups <- {"l", "m"}, Dots <- {0, 1},
  Domains <- {"c"}, Files <- SomeFiles, Hostname <- "h", States <- 1..3,
  MaxDomains <- 2, MaxChanges <- 2, Raw <- "raw"

\* The page is among those of which the theorem speaks.
ASSUME TheoremsApply == Page!PageAssumption

\* The variables that a part of fewer variables leaves at 0.
Rest1 == <<x2, x3, x4, x5, x6, x7, x8, x9>>
Rest2 == <<x3, x4, x5, x6, x7, x8, x9>>
Rest3 == <<x4, x5, x6, x7, x8, x9>>
Rest4 == <<x5, x6, x7, x8, x9>>
Rest5 == <<x6, x7, x8, x9>>
Rest6 == <<x7, x8, x9>>
Zero6 == x7 = 0 /\ x8 = 0 /\ x9 = 0
Zero5 == x6 = 0 /\ Zero6
Zero4 == x5 = 0 /\ Zero5
Zero3 == x4 = 0 /\ Zero4
Zero2 == x3 = 0 /\ Zero3
Zero1 == x2 = 0 /\ Zero2

all == <<part, x1, x2, x3, x4, x5, x6, x7, x8, x9>>

PartInit ==
  \/ part = "slots" /\ Slots!Init
  \/ part = "ids" /\ Named!Init
  \/ part = "page" /\ Page!Init /\ Zero4
  \/ part = "json" /\ Json!Init /\ Zero6
  \/ part = "properties" /\ Props!Init /\ Zero4
  \/ part = "packets" /\ Packet!PacketInit /\ Zero4
  \/ part = "addresses" /\ Osc!AddressInit /\ Zero3
  \/ part = "receiver" /\ Osc!ReceiverInit /\ Zero2
  \/ part = "timetags" /\ Packet!TagInit /\ Zero5
  \/ part = "dns" /\ Dns!ClientInit /\ Zero1
  \/ part = "retrying" /\ Retry!ClientInit /\ Zero1
  \/ part = "dnsport" /\ Dns!PortInit /\ Zero1
  \/ part = "dnspackets" /\ Name!PacketInit /\ Zero4
  \/ part = "dnssearch" /\ Name!SearchInit /\ Zero4

PartNext ==
  /\ UNCHANGED part
  /\ \/ part = "slots" /\ Slots!Next
     \/ part = "ids" /\ Named!Next
     \/ part = "page" /\ Page!Next /\ UNCHANGED Rest4
     \/ part = "json" /\ Json!Next /\ UNCHANGED Rest6
     \/ part = "properties" /\ Props!Next /\ UNCHANGED Rest4
     \/ part = "packets" /\ Packet!PacketNext /\ UNCHANGED Rest4
     \/ part = "addresses" /\ Osc!AddressNext /\ UNCHANGED Rest3
     \/ part = "receiver" /\ Osc!ReceiverNext /\ UNCHANGED Rest2
     \/ part = "timetags" /\ Packet!TagNext /\ UNCHANGED Rest5
     \/ part = "dns" /\ Dns!ClientNext /\ UNCHANGED Rest1
     \/ part = "retrying" /\ Retry!ClientNext /\ UNCHANGED Rest1
     \/ part = "dnsport" /\ Dns!PortNext /\ UNCHANGED Rest1
     \/ part = "dnspackets" /\ Name!PacketNext /\ UNCHANGED Rest4
     \/ part = "dnssearch" /\ Name!SearchNext /\ UNCHANGED Rest4

\* These parts may come to their end.
Ends == part \in {"page", "json", "properties", "packets", "addresses",
          "dns", "retrying", "dnsport", "dnspackets", "dnssearch"} /\ UNCHANGED all

PartSpec == PartInit /\ [][PartNext \/ Ends]_all
-------------------------------------------------------------------------------
\* The values that are built with the operators of a part.
Words == INSTANCE JsonText WITH
  root <- x1, added <- x2, fmt <- x3, text <- x4, size <- x5, parsed <- x6,
  Strings <- {}, Names <- {}, Numbers <- {}, MaxItems <- 3
JsonNames == {<<"a">>, <<Words!Quote, "n">>}
JsonStrings ==
  {<<>>, <<Words!Backslash>>, <<Words!Quote>>, <<Words!Newline>>,
   <<Words!Backslash, "n">>, <<Words!Backslash, Words!Quote>>,
   <<Words!Control, Words!Backslash>>, <<"t", Words!Tab>>}

\* Digits past the sixth, a number that rounds up to a whole one, texts that
\* are points, half a point or none.
Written == INSTANCE Properties WITH
  props <- x1, heard <- x2, copied <- x3, clone <- x4, Names <- {},
  Values <- {}, Callbacks <- {}
Number(n) == Written!Num(n)
Mark(c) == Written!Word(c)
PropertyValues ==
  [bool |-> BOOLEAN,
   integer |-> {0, 3},
   double |-> {0, 5000000, 27182818, 29999999},
   string |-> {<<>>, <<Mark("true")>>, <<Mark("x")>>, <<Number(Written!One)>>,
               <<Number(Written!One), Mark(","), Number(2 * Written!One),
                 Mark(";"), Number(5)>>,
               <<Mark(","), Number(123456789), Mark(";")>>},
   pointlist |-> {<<>>, <<<<5000000, 123456789>>, <<0, Written!One>>>>}]

\* Patterns of the characters a and b; messages, and bundles in bundles.
Tags == INSTANCE OscDispatch WITH
  m_children <- x1, m_methods <- x2, broken <- x3,
  Containers <- {"root", "c", "d"}, root <- "root", Methods <- {"m"},
  Names <- {}, Parts <- {}, Capacity <- 2, MaxDepth <- 2, MaxEntries <- 5,
  arrived <- x1, r <- x2, Packets <- {}, MaxPackets <- 3, MaxTime <- 4
WildParts ==
  {<<Tags!Char(97)>>, <<Tags!AnyChar, Tags!Char(98)>>, <<Tags!AnyWord>>,
   <<Tags!AnyWord, Tags!Char(98)>>, <<Tags!OneOf(97, 98), Tags!NoneOf(97)>>,
   <<Tags!List(<<<<97, 98>>, <<98>>>>)>>, <<Tags!List(<<<<98>>, <<97>>>>), Tags!Char(98)>>,
   <<Tags!List(<<<<97>>, <<98>>>>), Tags!Char(97)>>}
Bundle(tag, messages, bundles) == Tags!Bundle(tag, messages, bundles)
NestedPackets ==
  {Tags!Message("m"), Tags!Malformed, Bundle(0, <<"m", "n">>, <<>>),
   Bundle(1, <<"m">>, <<Bundle(3, <<"n">>, <<>>), Bundle(0, <<"o">>, <<>>)>>),
   Bundle(2, <<"m">>, <<Bundle(1, <<>>, <<Bundle(2, <<"n">>, <<>>)>>)>>)}

(* A preset slot that is saved and loaded gives the pipeline back: the     *)
(* modules, their values as the text keeps them and the connections; a     *)
(* save that a crash cuts short leaves a prefix of it; and as long as      *)
(* every id was made in this process, no two modules of a class have the   *)
(* same (a Tuio and a Tuio2 may).                                          *)
SlotsComeBack ==
  /\ part = "slots" =>
       Slots!TypeOK /\ Slots!RoundTrip /\ Slots!TornIsPrefix /\ Slots!UniqueIds
  /\ part = "ids" =>
       Named!TypeOK /\ Named!RoundTrip /\ Named!TornIsPrefix /\ Named!UniqueIds

(* When no request is under way the page has a widget for every module of  *)
(* the pipeline and shows whether it runs, though each answer was asked    *)
(* for by the page of an earlier moment.                                   *)
QuietPageIsComplete == part = "page" => Page!QuietPageIsComplete

(* The JSON text of an answer, read by cJSON, gives the tree that was      *)
(* built, with the quotes, backslashes and line ends of its strings, but   *)
(* without control characters that have no escape and without the digits   *)
(* of a number past the sixth decimal; and the text fits its buffer.       *)
AnswersAreUnderstood == part = "json" => Json!AnswersAreUnderstood

(* The text of a property, set again or taken over by a clone, is read as  *)
(* a value with the same text, for every type; and whoever registered a    *)
(* callback was last handed the text the property has.                     *)
PropertiesKeepTheirValue ==
  part = "properties" => Props!TextKeepsTheValue /\ Props!CallbacksSeeTheValue

(* What TUIO sends arrives: bundles, messages and arguments of all kinds   *)
(* come back from the bytes of a packet, in whatever nesting, unless a     *)
(* second blob of a message was written behind its array; time tags travel *)
(* between machines of either byte order; every message of a bundle runs   *)
(* exactly once and not before its time, with a return address that is     *)
(* deleted once, or twice if the packet was a malformed bundle; a pattern  *)
(* finds the methods whose address it matches, and no others if a list is  *)
(* let to match nothing too; and with aliases nothing of the address space *)
(* is deleted twice or kept.  The last two hold until a container has more *)
(* entries than its first arrays have places.                              *)
OscMessagesArrive ==
  /\ part = "packets" => Packet!PacketsComeBack
  /\ part = "timetags" => Packet!TagsTravel
  /\ part = "receiver" => /\ Osc!MessagesRunOnceInTime
                          /\ Osc!AddressDeletedOnce
  /\ part = "addresses" => /\ Osc!AddressesAreFound
                           /\ Osc!TreeOwnsItsObjects

(* No query is forgotten and none is answered twice: a request in flight   *)
(* has its timeout or a socket that will send it, a server that is down is *)
(* going to be probed, the resolver breaks only in a call that finds it    *)
(* without a server, with a probe of a server that a suspension has freed, *)
(* or with requests that wait while none is in flight; until it does, each *)
(* resolve is called back once, whatever answer, timeout, retransmission   *)
(* or failure comes first, with the addresses that a packet with           *)
(* compressed names holds; a lookup asks for the names its search list     *)
(* called for when it began; and a server port lives exactly as long as    *)
(* its requests need it, up to the call that leaves its pending replies    *)
(* undefined (evdns.c:1848).                                               *)
ResolverGoesOn ==
  /\ part = "dns" => /\ Dns!RequestsAreWatched /\ Dns!DownServersAreProbed
                     /\ Dns!OnlyLimboCrashes /\ Dns!CalledBackOnce
  /\ part = "retrying" => /\ Retry!RequestsAreWatched /\ Retry!DownServersAreProbed
                          /\ Retry!OnlyLimboCrashes /\ Retry!CalledBackOnce
  /\ part = "dnsport" => Dns!PortServesItsRequests
  /\ part = "dnspackets" => Name!ResponseIsUnderstood
  /\ part = "dnssearch" => /\ Name!SearchFollowsItsList /\ Name!FileOrderIsKept
                           /\ Name!StatesAreCounted
===============================================================================
