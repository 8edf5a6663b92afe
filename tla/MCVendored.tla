------------------------------ MODULE MCVendored ------------------------------
(*****************************************************************************)
(* The fiducial finders (libfidtrack), and the streams, lists, variants,     *)
(* strings, dates and locks of ptypes.                                       *)
(*****************************************************************************)
EXTENDS RwLock, Sequences, TLC

CONSTANTS None, Garbage, nil

VARIABLES
  part,  \* the part at hand; it never changes
  \* the state of that part, unless it is the locks:
  x1, x2, x3, x4, x5, x6, x7, x8, x9

\* A tree file with nested, repeated and differently coloured symbols.
SomeTrees ==
  << <<"w", 0, 1, 2, 1>>, <<"b", 0, 1, 2, 2>>, <<"w", 0, 1, 2, 2, 1>>,
     <<"w", 0, 1, 2, 1>>, <<"w", 0, 1, 2, 1, 1>> >>

\* All images of 3 by 4 pixels.
SomeImages == [1..12 -> {0, 255}]

\* One bright pixel, at every place of images whose sizes are and are not
\* multiples of the tile's.
SomeFrames == UNION {
  LET px == (0..(w - 1)) \X (0..(h - 1))
  IN {[width |-> w, height |-> h, tile_size |-> t,
       source |-> [p \in px |-> IF p = q THEN 200 ELSE 50]] : q \in px}
  : w \in 4..8, h \in {4, 5, 8}, t \in {2, 4}}

\* A plain list, a map, a textmap (no objects to own), a sorted multimap.
Flags(sorted, duplicates, casesens, owns) ==
  [sorted |-> sorted, duplicates |-> duplicates, casesens |-> casesens,
   ownslobjects |-> owns]
SomeLists ==
  {Flags(FALSE, FALSE, TRUE, TRUE), Flags(TRUE, FALSE, FALSE, TRUE),
   Flags(TRUE, FALSE, TRUE, FALSE), Flags(TRUE, TRUE, FALSE, TRUE)}

\* Two strings of one thread and one of another.
StringOwner == [s1 |-> "t", s2 |-> "t", s3 |-> "u"]

\* The threads that use a lock.
LockCrew == [condvar |-> 1..4, win32 |-> 1..4]

Image == INSTANCE FidImages WITH
  source <- x1, max_adjacent_regions <- x2, i <- x3, s <- x4, width <- 3,
  height <- 4, Images <- SomeImages, MaxAdjacent <- {2, 8}, frame <- x1,
  method <- x2, dest <- x3, Frames <- SomeFrames,
  gradient_threshold <- 20, contrast_threshold <- 30
Symbol == INSTANCE FidSymbols WITH
  parent <- x1, border <- x2, colour <- x3, ft <- x4, next <- x5,
  found <- x6, saturated <- x7, twice <- x8, MaxSaturated <- 2,
  MaxTwice <- 1, Sizes <- {5, 6}, TreeFile <- SomeTrees, FUZZY_NODE_RANGE <- 2,
  symbol <- x1, place <- x2, first <- x3, specks <- x4, id <- x5,
  symbol_count <- 6, Turns <- {0, 3}, Specks <- {0, 1}
Stream == INSTANCE PtStreams WITH
  file <- x1, in <- x2, out <- x3, chunk <- x4, content <- x5, at <- x6,
  lost <- x7, seeks <- x8, last <- x9, Chars <- {1, 10, 13}, LF <- 10,
  CR <- 13, bufsize <- 2, MaxFile <- 4, MaxSeeks <- 1
Container == INSTANCE PtContainers WITH
  config <- x1, mem <- x2, count <- x3, freed <- x4, used <- x5, want <- x6,
  Configs <- SomeLists, Keys <- 1..3, Objects <- 1..5, MaxItems <- 5,
  var <- x1, arrays <- x2, components <- x3, Variables <- {"v", "w"},
  Arrays <- {1, 2}, Components <- {1}, VarKeys <- {1, 2}, MaxCount <- 2
\* One array with more keys.
Keyed == INSTANCE PtContainers WITH
  config <- x1, mem <- x2, count <- x3, freed <- x4, used <- x5, want <- x6,
  Configs <- {}, Keys <- {}, Objects <- {}, MaxItems <- 0,
  var <- x1, arrays <- x2, components <- x3, Variables <- {"v"},
  Arrays <- {1}, Components <- {}, VarKeys <- 1..3, MaxCount <- 4
Value == INSTANCE PtValues WITH
  data <- x1, buf <- x2, op <- x3, want <- x4, Threads <- {"t", "u"},
  Strings <- {"s1", "s2", "s3"}, Owner <- StringOwner, Chars <- {1, 2},
  MaxLength <- 2, dt <- x1, today <- x2, turned <- x3,
  Years <- {1, 97, 397, 1897, 1997, 9996}, MaxDays <- 1830,
  Msecs <- {0, 999, 59999, 3600000, 86399999}

\* These constants are among those of which the theorems speak.
ASSUME TheoremsApply ==
  IsFiniteSet(Threads) /\ Value!StringAssumption /\ Value!TimeAssumption

\* The variables that a part of fewer variables leaves at 0.
Rest0 == <<x1, x2, x3, x4, x5, x6, x7, x8, x9>>
Rest3 == <<x4, x5, x6, x7, x8, x9>>
Rest4 == <<x5, x6, x7, x8, x9>>
Rest5 == <<x6, x7, x8, x9>>
Rest6 == <<x7, x8, x9>>
Zero6 == x7 = 0 /\ x8 = 0 /\ x9 = 0
Zero5 == x6 = 0 /\ Zero6
Zero4 == x5 = 0 /\ Zero5
Zero3 == x4 = 0 /\ Zero4
Zero0 == x1 = 0 /\ x2 = 0 /\ x3 = 0 /\ Zero3

all == <<part, vars, x1, x2, x3, x4, x5, x6, x7, x8, x9>>

PartInit ==
  /\ Init
  /\ \/ part = "locks" /\ Zero0
     \/ /\ impl = "condvar"
        /\ \/ part = "segments" /\ Image!SegmentInit /\ Zero4
           \/ part = "fiducials" /\ Symbol!TrackerInit /\ x9 = 0
           \/ part = "six" /\ Symbol!SixInit /\ Zero5
           \/ part = "thresholds" /\ Image!ThresholdInit /\ Zero3
           \/ part = "streams" /\ Stream!Init
           \/ part = "lists" /\ Container!ListInit /\ Zero6
           \/ part = "variants" /\ Container!VariantInit /\ Zero3
           \/ part = "keyed" /\ Keyed!VariantInit /\ Zero3
           \/ part = "strings" /\ Value!StringInit /\ Zero4
           \/ part = "dates" /\ Value!TimeInit /\ Zero3

PartNext ==
  /\ UNCHANGED part
  /\ \/ part = "segments" /\ Image!SegmentNext /\ UNCHANGED Rest4
     \/ part = "fiducials" /\ Symbol!TrackerNext /\ UNCHANGED x9
     \/ part = "six" /\ Symbol!SixNext /\ UNCHANGED Rest5
     \/ part = "thresholds" /\ Image!ThresholdNext /\ UNCHANGED Rest3
     \/ part = "streams" /\ Stream!Next
     \/ part = "lists" /\ Container!ListNext /\ UNCHANGED Rest6
     \/ part = "variants" /\ Container!VariantNext /\ UNCHANGED Rest3
     \/ part = "keyed" /\ Keyed!VariantNext /\ UNCHANGED Rest3
     \/ part = "strings" /\ Value!StringNext /\ UNCHANGED Rest4
     \/ part = "dates" /\ Value!TimeNext /\ UNCHANGED Rest3
     \/ part = "locks" /\ Next /\ UNCHANGED Rest0
  /\ part = "locks" \/ UNCHANGED vars

\* These parts may come to their end.
Ends == part \in {"fiducials", "six", "thresholds", "streams", "lists",
          "variants", "keyed", "strings", "dates"} /\ UNCHANGED all

PartSpec == PartInit /\ [][PartNext \/ Ends]_all
-------------------------------------------------------------------------------
(* Fiducials are read from what the camera saw.  Every pixel is compared   *)
(* with its own surroundings, save those in a last column or row of tiles  *)
(* that is less than half a tile wide.  The regions are the connected      *)
(* areas of the image with the true neighbours, unless a list was full.  A *)
(* symbol gets the id of its tree, unless a region of it lost a neighbour  *)
(* to a full list or lists one twice, or its rank among the 120, whichever *)
(* way it lies, unless black specks beside it pass for a container.        *)
FiducialsAreRead ==
  /\ part = "thresholds" => Image!PixelsSeeTheirSurroundings
  /\ part = "segments" => Image!RegionsAreComponents
  /\ part = "fiducials" => Symbol!SymbolsGetTheirId
  /\ part = "six" => Symbol!IdIsItsRank

(* The containers and streams of ptypes hold what the program put there:   *)
(* streams across their buffers, lists and maps across growing and giving  *)
(* back memory; arrays of variants and the buffers of strings live as long *)
(* as someone holds them, and are never seen to be shared; an array finds  *)
(* its items by their keys until ains has put one behind a key; dates      *)
(* agree with the calendar across leap years and centuries.  What del by   *)
(* key leaves in an array is the empty string it puts there.               *)
PtypesHoldValues ==
  /\ part = "streams" => Stream!WritesKeepTheirPlace /\ Stream!ReadsFollowTheFile
  /\ part = "lists" => Container!ListHoldsItsItems /\ Container!SearchFindsTheFirst
  /\ part = "variants" => Container!CountsMatchHolders
  /\ part = "keyed" => Keyed!CountsMatchHolders
  /\ part = "strings" => Value!StringsAreValues
  /\ part = "dates" => Value!DatesAreRight
===============================================================================
